----------------------------- MODULE MiniTrader -----------------------------
(***************************************************************************)
(* The mini trader (mini_trader/src/main.cu): the host generates batches   *)
(* of market events into two pinned buffers in turn and queues on the      *)
(* stream of the buffer a reset of the order counter, the copy to the      *)
(* GPU, the kernel decide_orders and the copy of the counter back.  While  *)
(* the GPU works on one buffer the host fills the other; before it reuses  *)
(* a buffer it has to have waited for its stream.                          *)
(*                                                                         *)
(* An event is its global index; moves says of which events the price      *)
(* moved by more than thr against the event before in the same batch.      *)
(***************************************************************************)
EXTENDS Integers, Sequences, FiniteSets

CONSTANTS
  MaxTotal,   \* bound on the argument total_n
  BatchArgs,  \* values of the argument batch_n
  Garbage,    \* what memory that was never written can hold
  NoEvent     \* an event buffer that was never written

ASSUME BoundAssumption == MaxTotal \in Nat /\ BatchArgs \subseteq Int /\ Garbage \subseteq Int
ASSUME EventAssumption == NoEvent \notin 0..MaxTotal - 1

VARIABLES
  moves, total_n, batch_n,   \* the input
  pc,            \* what the host is doing
  processed, buf, n,         \* main's variables
  generated,     \* events of the batch generate_market_data has written
  total_orders,
  h_ev, h_count,             \* pinned host memory, per buffer
  d_ev, d_count,             \* device memory, per buffer
  stream         \* per buffer: the operations queued and not finished

input  == <<moves, total_n, batch_n>>
device == <<d_ev, d_count>>
vars == <<input, pc, processed, buf, n, generated, total_orders, h_ev, h_count,
          device, stream>>

Bufs   == {0, 1}
Events == 0..MaxTotal - 1

\* An operation and the elements (events, kernel threads) it has still to do.
Op(kind, left) == [kind |-> kind, left |-> left]
Kinds == {"memset", "h2d", "kernel", "d2h"}

TypeOK ==
  /\ moves \in [Events -> BOOLEAN] /\ total_n \in 0..MaxTotal
  /\ batch_n \in Int
  /\ pc \in {"loop", "generate", "wait", "done", "failed"}
  /\ processed \in 0..MaxTotal /\ buf \in Bufs /\ n \in 0..MaxTotal
  /\ generated \in 0..MaxTotal
  /\ total_orders \in Int
  /\ h_ev \in [Bufs -> [Events -> Events \cup {NoEvent}]]
  /\ d_ev \in [Bufs -> [Events -> Events \cup {NoEvent}]]
  /\ h_count \in [Bufs -> Int] /\ d_count \in [Bufs -> Int]
  /\ stream \in [Bufs -> Seq([kind : Kinds, left : SUBSET Events])]

Init ==
  /\ moves \in [Events -> BOOLEAN]
  /\ total_n \in 0..MaxTotal
  /\ \E b \in BatchArgs : batch_n = IF b <= 0 THEN total_n ELSE b
  /\ pc = "loop" /\ processed = 0 /\ buf = 0 /\ n = 0 /\ generated = 0
  /\ total_orders = 0
  /\ h_ev = [b \in Bufs |-> [e \in Events |-> NoEvent]]
  /\ d_ev = h_ev
  /\ h_count \in [Bufs -> Garbage] /\ d_count \in [Bufs -> Garbage]
  /\ stream = [b \in Bufs |-> <<>>]

-----------------------------------------------------------------------------
(* The host.                                                               *)

\* Mutant: the last batch is as long as the others.
BeginFullBatch ==
  /\ pc = "loop" /\ processed < total_n
  /\ n' = batch_n
  /\ generated' = 0
  /\ pc' = "generate"
  /\ UNCHANGED <<input, processed, buf, total_orders, h_ev, h_count, device, stream>>

\* Mutant: processed <= total_n.
BeginEmptyBatch ==
  /\ pc = "loop" /\ processed <= total_n
  /\ n' = IF batch_n < total_n - processed THEN batch_n ELSE total_n - processed
  /\ generated' = 0
  /\ pc' = "generate"
  /\ UNCHANGED <<input, processed, buf, total_orders, h_ev, h_count, device, stream>>

BeginBatch ==
  /\ pc = "loop" /\ processed < total_n
  /\ n' = IF batch_n < total_n - processed THEN batch_n ELSE total_n - processed
  /\ generated' = 0
  /\ pc' = "generate"
  /\ UNCHANGED <<input, processed, buf, total_orders, h_ev, h_count, device, stream>>

\* generate_market_data, event by event.
GenerateEvent ==
  /\ pc = "generate" /\ generated < n
  /\ h_ev' = [h_ev EXCEPT ![buf][generated] = processed + generated]
  /\ generated' = generated + 1
  /\ UNCHANGED <<input, pc, processed, buf, n, total_orders, h_count, device, stream>>

\* Mutant: the counter is not reset.
LaunchNoReset ==
  /\ pc = "generate" /\ generated = n
  /\ stream' = [stream EXCEPT ![buf] = @ \o
       <<Op("h2d", 0..n - 1), Op("kernel", 0..n - 1), Op("d2h", {0})>>]
  /\ pc' = "wait"
  /\ UNCHANGED <<input, processed, buf, n, generated, total_orders, h_ev, h_count, device>>

\* A stream works its operations off in order, so that queueing the four of
\* them at once loses no behaviour.
Launch ==
  /\ pc = "generate" /\ generated = n
  /\ stream' = [stream EXCEPT ![buf] = @ \o
       <<Op("memset", {0}), Op("h2d", 0..n - 1), Op("kernel", 0..n - 1), Op("d2h", {0})>>]
  /\ pc' = "wait"
  /\ UNCHANGED <<input, processed, buf, n, generated, total_orders, h_ev, h_count, device>>

\* cudaStreamSynchronize on the stream of buffer b returns.
Synchronized(b) == stream[b] = <<>>

\* Mutant: the other stream is not waited for.
FinishBatchNoWait ==
  LET prev == 1 - buf
  IN  /\ pc = "wait"
      /\ total_orders' = IF processed # 0 THEN total_orders + h_count[prev]
                                          ELSE total_orders
      /\ processed' = processed + n
      /\ buf' = prev
      /\ pc' = "loop"
      /\ UNCHANGED <<input, n, generated, h_ev, h_count, device, stream>>

\* But for the first batch: wait for the other buffer and add its count.
FinishBatch ==
  LET prev == 1 - buf
  IN  /\ pc = "wait"
      /\ processed # 0 => Synchronized(prev)
      /\ total_orders' = IF processed # 0 THEN total_orders + h_count[prev]
                                          ELSE total_orders
      /\ processed' = processed + n
      /\ buf' = prev
      /\ pc' = "loop"
      /\ UNCHANGED <<input, n, generated, h_ev, h_count, device, stream>>

\* After the loop the last batch is in flight, if there was one at all.
Finish ==
  /\ pc = "loop" /\ processed >= total_n
  /\ Synchronized(1 - buf)
  /\ total_orders' = total_orders + h_count[1 - buf]
  /\ pc' = "done"
  /\ UNCHANGED <<input, processed, buf, n, generated, h_ev, h_count, device, stream>>

\* CUDA_CHECK: any call that fails ends the program.
CudaError ==
  /\ pc \in {"generate", "wait", "loop"}
  /\ pc' = "failed"
  /\ UNCHANGED <<input, processed, buf, n, generated, total_orders, h_ev, h_count,
                 device, stream>>

-----------------------------------------------------------------------------
(* The GPU: the operation at the head of a stream, element by element.     *)

\* Element i of the oldest operation of stream b is done.
Done(b, i) ==
  LET op == Head(stream[b])
  IN  stream' = [stream EXCEPT ![b] =
        IF op.left = {i} THEN Tail(@) ELSE <<Op(op.kind, op.left \ {i})>> \o Tail(@)]

Working(b, kind, i) ==
  /\ pc # "failed"
  /\ stream[b] # <<>> /\ Head(stream[b]).kind = kind /\ i \in Head(stream[b]).left

hostVars == <<input, pc, processed, buf, n, generated, total_orders>>

Memset(b) ==
  /\ Working(b, "memset", 0)
  /\ d_count' = [d_count EXCEPT ![b] = 0]
  /\ Done(b, 0)
  /\ UNCHANGED <<hostVars, h_ev, h_count, d_ev>>

CopyIn(b, i) ==
  /\ Working(b, "h2d", i)
  /\ d_ev' = [d_ev EXCEPT ![b][i] = h_ev[b][i]]
  /\ Done(b, i)
  /\ UNCHANGED <<hostVars, h_ev, h_count, d_count>>

\* Thread i of decide_orders: the first event of a batch never fires.
DecideOrder(b, i) ==
  /\ Working(b, "kernel", i)
  /\ d_count' = IF i # 0 /\ moves[d_ev[b][i]]
                THEN [d_count EXCEPT ![b] = @ + 1] ELSE d_count
  /\ Done(b, i)
  /\ UNCHANGED <<hostVars, h_ev, h_count, d_ev>>

CopyOut(b) ==
  /\ Working(b, "d2h", 0)
  /\ h_count' = [h_count EXCEPT ![b] = d_count[b]]
  /\ Done(b, 0)
  /\ UNCHANGED <<hostVars, h_ev, device>>

Host == BeginBatch \/ GenerateEvent \/ Launch \/ FinishBatch \/ Finish
Gpu(b) == \/ Memset(b) \/ CopyOut(b)
          \/ \E i \in Events : CopyIn(b, i) \/ DecideOrder(b, i)

Next == Host \/ CudaError \/ \E b \in Bufs : Gpu(b)

Spec == Init /\ [][Next]_vars

FairSpec == Spec /\ WF_vars(Host) /\ \A b \in Bufs : WF_vars(Gpu(b))
-----------------------------------------------------------------------------
(* Properties.                                                             *)

(* Whatever the order in which the two streams advance, the program ends   *)
(* with the number of events that moved by more than thr, the first event  *)
(* of each batch excepted.  (With total_n = 0 main adds a counter that was *)
(* never written.)                                                         *)
Fired == {e \in 0..total_n - 1 : e % batch_n # 0 /\ moves[e]}
TotalRight == pc = "done" /\ total_n > 0 => total_orders = Cardinality(Fired)

(* While the host generates events no operation is queued on the stream of *)
(* the buffer it writes: no copy can pick up events of the next batch, no  *)
(* reset can hit a counter that was not fetched.                           *)
BufferIdle == pc = "generate" => stream[buf] = <<>>

(* If one batch takes all the events, the program does what the version    *)
(* without double buffering does, step by step: buffer 0 is the GPU's      *)
(* memory there, the head of its stream is where main stands.  That no     *)
(* thread of the kernel sees a counter not yet reset, or the host a count  *)
(* not yet final, is up to the order of the stream alone.                  *)
OneBatch == total_n > 0 /\ batch_n >= total_n
OncePc ==
  CASE ~OneBatch \/ (pc \in {"loop", "generate"} /\ processed = 0) -> "prepare"
    [] OneBatch /\ pc \in {"done", "failed"} -> pc
    [] OTHER -> <<"print", "kernel", "kernel", "copy", "clear">>[Len(stream[0]) + 1]
OnceLeft  == IF OneBatch /\ Len(stream[0]) = 2 THEN stream[0][1].left ELSE {}
OnceCount ==
  CASE ~OneBatch \/ d_ev[0][0] = NoEvent \/ ~Synchronized(0) -> 0
    [] OneBatch /\ pc = "done" -> total_orders
    [] OTHER -> h_count[0]
Once == INSTANCE MiniTraderOnce WITH
          n <- total_n, pc <- OncePc, left <- OnceLeft, h_count <- OnceCount,
          d_count <- IF OneBatch THEN d_count[0] ELSE CHOOSE g \in Garbage : TRUE
ImplementsOnce == Once!Spec

(* The program ends, or a CUDA call fails: the host never waits for a      *)
(* stream that will not drain.                                             *)
Terminates == <>(pc \in {"done", "failed"})
=============================================================================
