----------------------------- MODULE TcpSession -----------------------------
(***************************************************************************)
(* The CPU side of the connection tracking (tcp_cpu/tcp_cpu_rss_func.c).   *)
(* One thread per CPU RSS queue runs a DOCA progress engine.  Its receive  *)
(* callback walks a burst of SYN/FIN/RST packets, keeps the shared session *)
(* table (rte_hash) and the hardware flows that offload a connection to    *)
(* the GPU, and answers SYN and FIN with an ACK taken from the buffer pool *)
(* of the queue.  Every call that can fail has its failing outcome here.   *)
(*                                                                         *)
(* Heap cells, hardware flow entries and hash slots are reused once they   *)
(* are released, so the module needs no bound on the number of packets.    *)
(***************************************************************************)
EXTENDS Naturals, Sequences, FiniteSets

CONSTANTS
  Queues,     \* CPU RSS queues; each has one thread, one pool and one Eth Txq
  Keys,       \* connections: the 4-tuple struct tcp_session_key
  RssQueue,   \* the queue the NIC's RSS hash sends the packets of a key to
  Entries,    \* heap cells that calloc can return for a tcp_session_entry
  Flows,      \* entries of the hardware pipe rxq_pipe_gpu
  Slots,      \* slots of tcp_session_table (TCP_SESSION_MAX_ENTRIES)
  PoolSize,   \* ACK buffers in the pool of a queue
  MaxBurst,   \* packets of one receive event (TCP_PACKET_MAX_BURST_SIZE)
  NoKey, NoEntry, NoFlow, NoSlot   \* NULL and "none"

ASSUME RssAssumption  == RssQueue \in [Keys -> Queues]
ASSUME SizeAssumption == PoolSize \in Nat /\ MaxBurst \in Nat \ {0}
ASSUME NullAssumption == /\ NoKey \notin Keys
                         /\ NoEntry \notin Entries
                         /\ NoFlow \notin Flows
                         /\ NoSlot \notin Slots

VARIABLES
  force_quit,  \* the global flag that ends every loop of the application
  table,       \* rte_hash: per slot a copy of the key and the entry pointer
  heapKey,     \* per heap cell: session_entry->key, NoKey when not allocated
  entryFlow,   \* per heap cell: session_entry->flow
  flowKey,     \* per pipe entry: the connection it matches, NoKey if free
  installed,   \* the pipe entries that have reached the hardware
  pc,          \* what the thread of a queue is doing
  burst,       \* the packets of pkt_array the callback has still to handle
  sess,        \* the session_entry the thread holds in a local variable
  slot,        \* the slot rte_hash_add_key_data has chosen and not written
  rxHeld,      \* the thread holds a pkt_array it has not given back
  free,        \* buffers in the pool
  held,        \* num_tx_packets: ACK buffers the callback holds
  inflight,    \* buffers in task batches submitted and not completed
  excused      \* history: keys some ignored failure or repeated SYN touched

hashVars   == <<table, slot>>
offload    == <<heapKey, entryFlow, flowKey, installed>>
ackVars    == <<free, held, inflight>>
threadVars == <<pc, burst, sess, rxHeld>>
vars == <<force_quit, hashVars, offload, threadVars, ackVars, excused>>

Kinds  == {"SYN", "FIN", "RST", "OTHER"}
Packet == [key : Keys, kind : Kinds]
Burst  == UNION {[1..n -> Packet] : n \in 1..MaxBurst}
Empty  == [key |-> NoKey, entry |-> NoEntry]

Steps == {"poll", "progress", "scan", "disable", "delete", "enable", "pick", "write",
          "ack", "spin", "send", "exited"}

TypeOK ==
  /\ force_quit \in BOOLEAN
  /\ table \in [Slots -> [key : Keys \cup {NoKey},
                          entry : Entries \cup {NoEntry}]]
  /\ heapKey \in [Entries -> Keys \cup {NoKey}]
  /\ entryFlow \in [Entries -> Flows \cup {NoFlow}]
  /\ flowKey \in [Flows -> Keys \cup {NoKey}]
  /\ installed \subseteq Flows
  /\ pc \in [Queues -> Steps]
  /\ burst \in [Queues -> Seq(Packet)]
  /\ sess \in [Queues -> Entries \cup {NoEntry}]
  /\ slot \in [Queues -> Slots \cup {NoSlot}]
  /\ rxHeld \in [Queues -> BOOLEAN]
  /\ free \in [Queues -> 0..PoolSize]
  /\ held \in [Queues -> 0..PoolSize]
  /\ inflight \in [Queues -> 0..PoolSize]
  /\ excused \subseteq Keys

Init ==
  /\ force_quit = FALSE
  /\ table     = [s \in Slots |-> Empty]
  /\ heapKey   = [e \in Entries |-> NoKey]
  /\ entryFlow = [e \in Entries |-> NoFlow]
  /\ flowKey   = [f \in Flows |-> NoKey]
  /\ installed = {}
  /\ pc        = [q \in Queues |-> "poll"]
  /\ burst     = [q \in Queues |-> <<>>]
  /\ sess      = [q \in Queues |-> NoEntry]
  /\ slot      = [q \in Queues |-> NoSlot]
  /\ rxHeld    = [q \in Queues |-> FALSE]
  /\ free      = [q \in Queues |-> PoolSize]
  /\ held      = [q \in Queues |-> 0]
  /\ inflight  = [q \in Queues |-> 0]
  /\ excused   = {}

-----------------------------------------------------------------------------
(* The polling loop of tcp_cpu_rss_func and what the progress engine can   *)
(* call from it.                                                           *)

Goto(q, step) == pc' = [pc EXCEPT ![q] = step]

\* The loop condition is read, then doca_pe_progress is called: force_quit may
\* be set in between.
EnterProgress(q) ==
  /\ pc[q] = "poll" /\ ~force_quit
  /\ Goto(q, "progress")
  /\ UNCHANGED <<force_quit, burst, sess, rxHeld, hashVars, offload, ackVars,
                 excused>>

\* Nothing to do for the progress engine.
Idle(q) ==
  /\ pc[q] = "progress"
  /\ Goto(q, "poll")
  /\ UNCHANGED <<force_quit, burst, sess, rxHeld, hashVars, offload, ackVars,
                 excused>>

\* A burst of packets that RSS has sent to this queue reaches rxq_success_cb.
Receive(q) ==
  /\ pc[q] = "progress"
  /\ \E b \in Burst :
       /\ \A i \in DOMAIN b : RssQueue[b[i].key] = q
       /\ burst' = [burst EXCEPT ![q] = b]
  /\ rxHeld' = [rxHeld EXCEPT ![q] = TRUE]
  /\ Goto(q, "scan")
  /\ UNCHANGED <<force_quit, sess, hashVars, offload, ackVars, excused>>

\* rxq_error_cb, or rxq_success_cb without its context's user data: neither
\* gives its pkt_array back.
ReceiveError(q) ==
  /\ pc[q] = "progress"
  /\ force_quit' = TRUE
  /\ rxHeld' = [rxHeld EXCEPT ![q] = TRUE]
  /\ Goto(q, "poll")
  /\ UNCHANGED <<burst, sess, hashVars, offload, ackVars, excused>>

\* A batch of n buffers completes: they return to the pool.  Which buffers
\* form a batch is left open.  ok tells txq_success_cb from txq_error_cb.
TxComplete(q, ok) ==
  /\ pc[q] = "progress"
  /\ \E n \in 1..inflight[q] :
       /\ free' = [free EXCEPT ![q] = @ + n]
       /\ inflight' = [inflight EXCEPT ![q] = @ - n]
  /\ force_quit' = (force_quit \/ ~ok)
  /\ Goto(q, "poll")
  /\ UNCHANGED <<held, burst, sess, rxHeld, hashVars, offload, excused>>

\* The loop condition is false: the thread returns.
Stop(q) ==
  /\ pc[q] = "poll" /\ force_quit
  /\ Goto(q, "exited")
  /\ UNCHANGED <<force_quit, burst, sess, rxHeld, hashVars, offload, ackVars,
                 excused>>

-----------------------------------------------------------------------------
(* rxq_success_cb, packet by packet.                                       *)

Pkt(q) == Head(burst[q])

\* The callback is at the top of its loop with a packet of one of these kinds.
At(q, kinds) == pc[q] = "scan" /\ burst[q] # <<>> /\ Pkt(q).kind \in kinds

NextPacket(q) == burst' = [burst EXCEPT ![q] = Tail(@)] /\ Goto(q, "scan")

\* A FIN is answered once its session is gone; a RST is not.
AfterDestroy(q) ==
  IF Pkt(q).kind = "FIN" THEN Goto(q, "ack") /\ UNCHANGED burst
                         ELSE NextPacket(q)

\* Mutant: a continue that leaves the packet index where it is.
SkipPacketAgain(q) ==
  /\ At(q, {"OTHER"})
  /\ UNCHANGED vars

\* Neither SYN, FIN nor RST, or no TCP header at all.
SkipPacket(q) ==
  /\ At(q, {"OTHER"})
  /\ NextPacket(q)
  /\ UNCHANGED <<force_quit, sess, rxHeld, hashVars, offload, ackVars, excused>>

\* The label error of rxq_success_cb: the callback returns with the ACK
\* buffers and the pkt_array it holds still allocated.
Abort(q) ==
  /\ force_quit' = TRUE
  /\ burst' = [burst EXCEPT ![q] = <<>>]
  /\ held' = [held EXCEPT ![q] = 0]
  /\ Goto(q, "poll")
  /\ UNCHANGED <<rxHeld, free, inflight>>

-----------------------------------------------------------------------------
(* destroy_tcp_session and disable_tcp_gpu_offload.                        *)

SlotsOf(k) == {s \in Slots : table[s].key = k}

LookupMiss(q) ==
  /\ At(q, {"FIN", "RST"})
  /\ SlotsOf(Pkt(q).key) = {}
  /\ AfterDestroy(q)
  /\ UNCHANGED <<force_quit, sess, rxHeld, hashVars, offload, ackVars, excused>>

\* Mutant: destroy_tcp_session leaves the flow in the hardware.
LookupHitKeepsFlow(q) ==
  /\ At(q, {"FIN", "RST"})
  /\ \E s \in SlotsOf(Pkt(q).key) : sess' = [sess EXCEPT ![q] = table[s].entry]
  /\ Goto(q, "delete")
  /\ UNCHANGED <<force_quit, burst, rxHeld, hashVars, offload, ackVars, excused>>

LookupHit(q) ==
  /\ At(q, {"FIN", "RST"})
  /\ \E s \in SlotsOf(Pkt(q).key) : sess' = [sess EXCEPT ![q] = table[s].entry]
  /\ Goto(q, "disable")
  /\ UNCHANGED <<force_quit, burst, rxHeld, hashVars, offload, ackVars, excused>>

\* The flow of the session is removed from the pipe; an entry that was still on
\* its way into the hardware is processed before.
DisableOffload(q) ==
  LET f == entryFlow[sess[q]]
  IN  /\ pc[q] = "disable"
      /\ f # NoFlow
      /\ flowKey' = [flowKey EXCEPT ![f] = NoKey]
      /\ installed' = installed \ {f}
      /\ Goto(q, "delete")
      /\ UNCHANGED <<force_quit, burst, sess, rxHeld, hashVars, heapKey,
                     entryFlow, ackVars, excused>>

\* doca_flow_entries_process or doca_flow_pipe_remove_entry fails, or the
\* session never had a flow.  The caller ignores the result.
DisableFails(q) ==
  /\ pc[q] = "disable"
  /\ excused' = IF entryFlow[sess[q]] = NoFlow THEN excused
                ELSE excused \cup {Pkt(q).key}
  /\ Goto(q, "delete")
  /\ UNCHANGED <<force_quit, burst, sess, rxHeld, hashVars, offload, ackVars>>

\* Mutant: the session is freed and stays in the table.
FreeOnly(q) ==
  /\ pc[q] = "delete"
  /\ heapKey' = [heapKey EXCEPT ![sess[q]] = NoKey]
  /\ entryFlow' = [entryFlow EXCEPT ![sess[q]] = NoFlow]
  /\ sess' = [sess EXCEPT ![q] = NoEntry]
  /\ AfterDestroy(q)
  /\ UNCHANGED <<force_quit, rxHeld, hashVars, flowKey, installed, ackVars, excused>>

\* Mutant: the session leaves the table and is not freed.
DeleteOnly(q) ==
  /\ pc[q] = "delete"
  /\ table' = [s \in Slots |-> IF s \in SlotsOf(Pkt(q).key) THEN Empty
                               ELSE table[s]]
  /\ sess' = [sess EXCEPT ![q] = NoEntry]
  /\ AfterDestroy(q)
  /\ UNCHANGED <<force_quit, rxHeld, slot, offload, ackVars, excused>>

\* rte_hash_del_key, then free(session_entry).
DeleteSession(q) ==
  /\ pc[q] = "delete"
  /\ table' = [s \in Slots |-> IF s \in SlotsOf(Pkt(q).key) THEN Empty
                               ELSE table[s]]
  /\ heapKey' = [heapKey EXCEPT ![sess[q]] = NoKey]
  /\ entryFlow' = [entryFlow EXCEPT ![sess[q]] = NoFlow]
  /\ sess' = [sess EXCEPT ![q] = NoEntry]
  /\ AfterDestroy(q)
  /\ UNCHANGED <<force_quit, rxHeld, slot, flowKey, installed, ackVars, excused>>

-----------------------------------------------------------------------------
(* create_tcp_session and enable_tcp_gpu_offload.                          *)

AllocSession(q) ==
  /\ At(q, {"SYN"})
  /\ \E e \in {x \in Entries : heapKey[x] = NoKey} :
       /\ heapKey' = [heapKey EXCEPT ![e] = Pkt(q).key]
       /\ sess' = [sess EXCEPT ![q] = e]
  /\ Goto(q, "enable")
  /\ UNCHANGED <<force_quit, burst, rxHeld, hashVars, entryFlow, flowKey,
                 installed, ackVars, excused>>

AllocFails(q) ==
  /\ At(q, {"SYN"})
  /\ Abort(q)
  /\ UNCHANGED <<sess, hashVars, offload, excused>>

\* doca_flow_pipe_add_entry makes an entry; it may be one more for the key.
AddFlow(q, f) ==
  /\ pc[q] = "enable" /\ flowKey[f] = NoKey
  /\ flowKey' = [flowKey EXCEPT ![f] = Pkt(q).key]
  /\ entryFlow' = [entryFlow EXCEPT ![sess[q]] = f]
  /\ Goto(q, "pick")
  /\ UNCHANGED <<force_quit, burst, sess, rxHeld, hashVars, heapKey, ackVars,
                 excused>>

\* Mutant: session_entry->flow is not set.
EnableForgetsFlow(q) ==
  /\ pc[q] = "enable"
  /\ \E f \in {x \in Flows : flowKey[x] = NoKey} :
       flowKey' = [flowKey EXCEPT ![f] = Pkt(q).key] /\ installed' = installed \cup {f}
  /\ Goto(q, "pick")
  /\ UNCHANGED <<force_quit, burst, sess, rxHeld, hashVars, heapKey, entryFlow,
                 ackVars, excused>>

EnableOffload(q) ==
  \E f \in Flows : AddFlow(q, f) /\ installed' = installed \cup {f}

\* doca_flow_entries_process fails: whether the entry is in the hardware is not
\* known.  The caller ignores it.
EnableUnprocessed(q) ==
  \E f \in Flows : AddFlow(q, f) /\ UNCHANGED installed

\* doca_flow_pipe_add_entry fails; the caller ignores it.
EnableFails(q) ==
  /\ pc[q] = "enable"
  /\ Goto(q, "pick")
  /\ UNCHANGED <<force_quit, burst, sess, rxHeld, hashVars, offload, ackVars,
                 excused>>

\* First half of rte_hash_add_key_data without the multi-writer flag: find
\* the slot of the key or an empty one.
PickSlot(q) ==
  LET k == Pkt(q).key
  IN  /\ pc[q] = "pick"
      /\ \E s \in IF SlotsOf(k) # {} THEN SlotsOf(k) ELSE SlotsOf(NoKey) :
           slot' = [slot EXCEPT ![q] = s]
      /\ excused' = IF SlotsOf(k) # {} THEN excused \cup {k} ELSE excused
      /\ Goto(q, "write")
      /\ UNCHANGED <<force_quit, table, burst, sess, rxHeld, offload, ackVars>>

\* The table is full: the session and its flow stay behind, nobody points to
\* them any more.
InsertFails(q) ==
  /\ pc[q] = "pick"
  /\ SlotsOf(Pkt(q).key) = {} /\ SlotsOf(NoKey) = {}
  /\ excused' = excused \cup {Pkt(q).key}
  /\ sess' = [sess EXCEPT ![q] = NoEntry]
  /\ Abort(q)
  /\ UNCHANGED <<hashVars, offload>>

\* Second half: the slot is written, whatever it holds by now.
WriteSlot(q) ==
  /\ pc[q] = "write"
  /\ table' = [table EXCEPT ![slot[q]] = [key |-> Pkt(q).key,
                                          entry |-> sess[q]]]
  /\ slot' = [slot EXCEPT ![q] = NoSlot]
  /\ sess' = [sess EXCEPT ![q] = NoEntry]
  /\ Goto(q, "ack")
  /\ UNCHANGED <<force_quit, burst, rxHeld, offload, ackVars, excused>>

-----------------------------------------------------------------------------
(* create_ack_packet and the tail of rxq_success_cb.                       *)

\* Mutant: the result of the allocation is not looked at.
MakeAckUnchecked(q) ==
  /\ pc[q] = "ack"
  /\ free' = [free EXCEPT ![q] = @ - 1]
  /\ held' = [held EXCEPT ![q] = @ + 1]
  /\ NextPacket(q)
  /\ UNCHANGED <<force_quit, sess, rxHeld, hashVars, offload, inflight, excused>>

MakeAck(q) ==
  /\ pc[q] = "ack"
  /\ free[q] > 0
  /\ free' = [free EXCEPT ![q] = @ - 1]
  /\ held' = [held EXCEPT ![q] = @ + 1]
  /\ NextPacket(q)
  /\ UNCHANGED <<force_quit, sess, rxHeld, hashVars, offload, inflight, excused>>

\* The walk over the options of a SYN stands still at a byte that is no option
\* kind it knows, and its end is computed from the data-offset byte unshifted,
\* beyond the options: depending on the bytes it meets it never returns.  (A
\* packet of kind FIN may carry SYN as well.)
OptionWalkSpins(q) ==
  /\ pc[q] = "ack"
  /\ free[q] > 0
  /\ free' = [free EXCEPT ![q] = @ - 1]
  /\ held' = [held EXCEPT ![q] = @ + 1]
  /\ burst' = [burst EXCEPT ![q] = Tail(@)]
  /\ Goto(q, "spin")
  /\ UNCHANGED <<force_quit, sess, rxHeld, hashVars, offload, inflight, excused>>

\* The pool gives no buffer, or the buffer is released again because its
\* length cannot be set: the packet goes unanswered.
AckFails(q) ==
  /\ pc[q] = "ack"
  /\ NextPacket(q)
  /\ UNCHANGED <<force_quit, sess, rxHeld, hashVars, offload, ackVars, excused>>

\* pkt_array is given back; the callback returns when there is nothing to send.
FinishBurst(q) ==
  /\ pc[q] = "scan" /\ burst[q] = <<>>
  /\ rxHeld' = [rxHeld EXCEPT ![q] = FALSE]
  /\ Goto(q, IF held[q] > 0 THEN "send" ELSE "poll")
  /\ UNCHANGED <<force_quit, burst, sess, hashVars, offload, ackVars, excused>>

SubmitBatch(q) ==
  /\ pc[q] = "send"
  /\ inflight' = [inflight EXCEPT ![q] = @ + held[q]]
  /\ held' = [held EXCEPT ![q] = 0]
  /\ Goto(q, "poll")
  /\ UNCHANGED <<force_quit, free, burst, sess, rxHeld, hashVars, offload,
                 excused>>

\* Mutant: the buffers are not returned.
DropBatchLeaks(q, fatal) ==
  /\ pc[q] = "send"
  /\ held' = [held EXCEPT ![q] = 0]
  /\ force_quit' = (force_quit \/ fatal)
  /\ Goto(q, "poll")
  /\ UNCHANGED <<free, inflight, burst, sess, rxHeld, hashVars, offload, excused>>

\* No task batch could be allocated (the Txq is full), which the application
\* survives, or the batch could not be submitted, which ends it.  Both ways
\* the buffers return to the pool.
DropBatch(q, fatal) ==
  /\ pc[q] = "send"
  /\ free' = [free EXCEPT ![q] = @ + held[q]]
  /\ held' = [held EXCEPT ![q] = 0]
  /\ force_quit' = (force_quit \/ fatal)
  /\ Goto(q, "poll")
  /\ UNCHANGED <<inflight, burst, sess, rxHeld, hashVars, offload, excused>>

\* Ctrl-C, or any other component, asks the application to end.
Quit ==
  /\ ~force_quit
  /\ force_quit' = TRUE
  /\ UNCHANGED <<threadVars, hashVars, offload, ackVars, excused>>

\* An entry that was added and not processed gets into the hardware after all.
FlowSettles(f) ==
  /\ flowKey[f] # NoKey /\ f \notin installed
  /\ installed' = installed \cup {f}
  /\ UNCHANGED <<force_quit, hashVars, heapKey, entryFlow, flowKey, threadVars,
                 ackVars, excused>>

\* The steps of rxq_success_cb once it has been entered.
Callback(q) ==
  \/ SkipPacket(q)
  \/ LookupMiss(q) \/ LookupHit(q)
  \/ DisableOffload(q) \/ DisableFails(q) \/ DeleteSession(q)
  \/ AllocSession(q) \/ AllocFails(q)
  \/ EnableOffload(q) \/ EnableUnprocessed(q) \/ EnableFails(q)
  \/ PickSlot(q) \/ InsertFails(q) \/ WriteSlot(q)
  \/ MakeAck(q) \/ OptionWalkSpins(q) \/ AckFails(q)
  \/ FinishBurst(q) \/ SubmitBatch(q)
  \/ \E fatal \in BOOLEAN : DropBatch(q, fatal)

Progress(q) ==
  \/ EnterProgress(q) \/ Idle(q) \/ Receive(q) \/ ReceiveError(q)
  \/ \E ok \in BOOLEAN : TxComplete(q, ok)

Next == \/ \E q \in Queues : Progress(q) \/ Callback(q) \/ Stop(q)
        \/ Quit \/ \E f \in Flows : FlowSettles(f)

Spec == Init /\ [][Next]_vars

\* A thread that has entered the callback runs on, and leaves its loop once it
\* sees force_quit.  Nothing obliges the NIC to deliver or to complete.
FairSpec == Spec /\ \A q \in Queues : WF_vars(Callback(q) \/ Idle(q) \/ Stop(q))
-----------------------------------------------------------------------------
(* Properties.                                                             *)

(* Unless the application is quitting, every ACK buffer of a queue is in   *)
(* its pool, held by the callback or in a submitted batch, and a pkt_array *)
(* is held only inside the callback: the early returns of rxq_success_cb   *)
(* (no task batch, no ACK packet, failed submission) leak nothing.  The    *)
(* callback also never collects more ACKs than tx_packets[] has room for.  *)
BuffersConserved ==
  \A q \in Queues :
    /\ held[q] + Len(burst[q]) <= MaxBurst
    /\ ~force_quit =>
         /\ free[q] + held[q] + inflight[q] = PoolSize
         /\ rxHeld[q] => pc[q] \notin {"poll", "progress", "send"}

(* A slot of the session table never points to a session that was freed or *)
(* recycled for another connection, and no key occupies two slots: what    *)
(* rte_hash_lookup_data returns to destroy_tcp_session is that session.    *)
TableSound ==
  \A s \in Slots : table[s] # Empty =>
    /\ table[s].entry \in Entries
    /\ heapKey[table[s].entry] = table[s].key
    /\ SlotsOf(table[s].key) = {s}

(* No session is lost: every allocated tcp_session_entry is in the table   *)
(* or in the hands of a thread, unless for its connection a SYN was        *)
(* repeated or the insertion failed (create_tcp_session frees nothing).    *)
SessionsTracked ==
  \A e \in Entries : heapKey[e] # NoKey =>
    \/ \E s \in Slots : table[s].entry = e
    \/ \E q \in Queues : sess[q] = e
    \/ heapKey[e] \in excused

(* No flow is lost: every entry of the GPU pipe, in the hardware already   *)
(* or not, belongs to an allocated session of the same connection, so that *)
(* its FIN or RST can remove it, unless a SYN was repeated, the insertion  *)
(* or the removal failed.                                                  *)
FlowsTracked ==
  \A f \in Flows : flowKey[f] # NoKey =>
    \/ \E e \in Entries : entryFlow[e] = f /\ heapKey[e] = flowKey[f]
    \/ flowKey[f] \in excused

(* When destroy_tcp_session deletes a session, nothing of its connection   *)
(* remains: no flow still steers it to the GPU and no session is left on   *)
(* the heap, unless one of the ignored failures touched the connection.    *)
TornDown(k) == /\ \A f \in Flows : flowKey[f] # k
               /\ \A e \in Entries : heapKey[e] # k
CleanTeardown ==
  [][\A k \in Keys \ excused :
       SlotsOf(k) # {} /\ SlotsOf(k)' = {} => TornDown(k)']_vars

(* flow.c:354 says of the GPU pipe that it "should only forward known      *)
(* flows": each installed flow is of a connection in the session table, or *)
(* of one that a thread is just setting up or taking down.                 *)
OnlyKnownFlows ==
  \A f \in installed :
    \/ SlotsOf(flowKey[f]) # {}
    \/ \E q \in Queues : sess[q] # NoEntry /\ heapKey[sess[q]] = flowKey[f]

(* Once force_quit is set every CPU RSS thread leaves its loop, whatever   *)
(* burst it is in the middle of, or hangs in the option walk of            *)
(* create_ack_packet: nothing else in the callback can keep it.            *)
QuitStopsOrSpins == force_quit ~> \A q \in Queues : pc[q] \in {"exited", "spin"}

(* gpu_packet_processing.c:411 promises to "Gracefully terminate app if    *)
(* ctrlc", and main joins the threads: once force_quit is set every CPU    *)
(* RSS thread returns.                                                     *)
QuitStopsThreads == force_quit ~> \A q \in Queues : pc[q] = "exited"
=============================================================================
