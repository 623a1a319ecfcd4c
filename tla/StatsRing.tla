----------------------------- MODULE StatsRing -----------------------------
(***************************************************************************)
(* The filter statistics on their way from the GPU to the CPU.  One CUDA   *)
(* block per UDP or TCP receive queue counts the packets of a burst in     *)
(* shared memory and publishes the counts in the next item of the queue's  *)
(* semaphore, a ring that the CPU can read (receive_udp.cu,                *)
(* receive_tcp.cu); the thread stats_core polls the rings in turn, adds an *)
(* item that is READY to its counters and sets it FREE                     *)
(* (gpu_packet_processing.c).  The kernel never looks whether the item it  *)
(* writes is FREE.  A thread of a TCP kernel that cannot get an item of    *)
(* the HTTP semaphore leaves the rest of its packets unclassified and has  *)
(* all kernels end, but its block still publishes the burst.               *)
(*                                                                         *)
(* The stores of a kernel's thread to an item are taken to reach the CPU   *)
(* in program order: the DOCA call that sets the status follows the        *)
(* volatile stores of the fields.                                          *)
(***************************************************************************)
EXTENDS Integers, Sequences, FiniteSets

CONSTANTS
  NumRings,   \* UDP and TCP receive queues together
  HttpRings,  \* those of TCP with the HTTP server, which hand GETs over
  Nums,       \* items of a semaphore (SEMAPHORES_PER_QUEUE)
  Warps,      \* warps of the CUDA block of a queue
  Classes,    \* what the filters tell apart: dns, http_get, ..., others
  MaxPkts,    \* packets of a burst
  None        \* no burst (for the abstract ledger)

ASSUME RingAssumption  == /\ NumRings \in Nat \ {0} /\ Nums \in Nat \ {0}
                          /\ HttpRings \subseteq 1..NumRings
ASSUME ClassAssumption == MaxPkts \in Nat /\ "total" \notin Classes
ASSUME NoneAssumption  == None \notin [Classes \cup {"total"} -> Nat]
ASSUME BlockAssumption == IsFiniteSet(Warps) /\ IsFiniteSet(Classes)

VARIABLES
  exit_cond,   \* *exit_cond, shared by main and all the kernels
  force_quit,  \* the global flag of the CPU threads
  status,      \* per ring and item: FREE or READY
  info,        \* per ring and item: struct stats_udp or stats_tcp
  block,       \* what the CUDA block of a ring is doing
  out_pkt_num, \* per ring: the packets of this burst
  share,       \* those each warp classifies
  adding,      \* warps that have not added to stats_sh yet
  stats_sh,    \* the block's counters in shared memory
  toWrite,     \* fields of the item that thread 0 has still to write
  sem_idx,     \* the item the block writes next
  stats,       \* what the thread stats_core is doing
  idxq,        \* the ring it is looking at
  cpu_idx,     \* sem_idx_udp, sem_idx_tcp: the item it reads next
  toRead,      \* fields it has still to add to its counters
  added,       \* what it has added from this item
  counted,     \* history: what it added from the last item of a ring
  lapped       \* history: the block began to write an item not FREE

blockVars == <<block, out_pkt_num, share, adding, stats_sh, toWrite, sem_idx>>
statsVars == <<stats, idxq, cpu_idx, toRead, added, counted>>
vars == <<exit_cond, force_quit, status, info, blockVars, statsVars, lapped>>

Rings  == 1..NumRings
Items  == 0..Nums - 1
Fields == Classes \cup {"total"}
Zero   == [f \in Fields |-> 0]

\* The fields are written, and read, one after the other in a fixed order.
FirstOf(S) == CHOOSE f \in S : TRUE

\* How the packets of a burst can fall on the warps and the classes: the sh[w][c]
\* packets of class c that warp w has are <<w, 1>>, <<w, 2>>, ...
Packets(sh, c) == {x \in Warps \X (1..MaxPkts) : x[2] <= sh[x[1]][c]}
CountOf(sh, c) == Cardinality(Packets(sh, c))
SizeOf(sh) == Cardinality({y \in Classes \X (Warps \X (1..MaxPkts)) : y[2] \in Packets(sh, y[1])})
Shares  == [Warps -> [Classes -> 0..MaxPkts]]
NoShare == [w \in Warps |-> [c \in Classes |-> 0]]

Bursts  == {sh \in Shares : SizeOf(sh) \in 1..MaxPkts}

\* What is reported of a burst of n packets.
BatchOf(sh, n) == [f \in Fields |-> IF f = "total" THEN n ELSE CountOf(sh, f)]

TypeOK ==
  /\ exit_cond \in BOOLEAN /\ force_quit \in BOOLEAN
  /\ status \in [Rings -> [Items -> {"FREE", "READY"}]]
  /\ info \in [Rings -> [Items -> [Fields -> Nat]]]
  /\ block \in [Rings -> {"recv", "add", "fill", "exited"}]
  /\ out_pkt_num \in [Rings -> 0..MaxPkts]
  /\ share \in [Rings -> Shares]
  /\ adding \in [Rings -> SUBSET Warps]
  /\ stats_sh \in [Rings -> [Classes -> Nat]]
  /\ toWrite \in [Rings -> SUBSET Fields]
  /\ sem_idx \in [Rings -> Items]
  /\ stats \in {"loop", "poll", "read", "ended"}
  /\ idxq \in Rings
  /\ cpu_idx \in [Rings -> Items]
  /\ toRead \subseteq Fields
  /\ added \in [Fields -> Nat]
  /\ counted \in [Rings -> [Fields -> Nat] \cup {None}]
  /\ lapped \in [Rings -> BOOLEAN]

Init ==
  /\ exit_cond = FALSE /\ force_quit = FALSE
  /\ status   = [r \in Rings |-> [s \in Items |-> "FREE"]]
  /\ info     = [r \in Rings |-> [s \in Items |-> Zero]]
  /\ block    = [r \in Rings |-> "recv"]
  /\ out_pkt_num = [r \in Rings |-> 0]
  /\ share    = [r \in Rings |-> NoShare]
  /\ adding   = [r \in Rings |-> {}]
  /\ stats_sh = [r \in Rings |-> [c \in Classes |-> 0]]
  /\ toWrite  = [r \in Rings |-> {}]
  /\ sem_idx  = [r \in Rings |-> 0]
  /\ stats = "loop" /\ idxq = 1
  /\ cpu_idx  = [r \in Rings |-> 0]
  /\ toRead = {} /\ added = Zero
  /\ counted  = [r \in Rings |-> None]
  /\ lapped   = [r \in Rings |-> FALSE]

-----------------------------------------------------------------------------
(* The CUDA block of ring r.                                               *)

\* The loop condition is false.
BlockExit(r) ==
  /\ block[r] = "recv" /\ exit_cond
  /\ block' = [block EXCEPT ![r] = "exited"]
  /\ UNCHANGED <<exit_cond, force_quit, status, info, out_pkt_num, share, adding,
                 stats_sh, toWrite, sem_idx, statsVars, lapped>>

\* A burst arrives; each warp classifies its packets.  (A receive that times
\* out empty changes nothing.)
BlockReceive(r) ==
  /\ block[r] = "recv" /\ ~exit_cond
  /\ \E sh \in Bursts :
       /\ share' = [share EXCEPT ![r] = sh]
       /\ out_pkt_num' = [out_pkt_num EXCEPT ![r] = SizeOf(sh)]
  /\ adding' = [adding EXCEPT ![r] = Warps]
  /\ block' = [block EXCEPT ![r] = "add"]
  /\ UNCHANGED <<exit_cond, force_quit, status, info, stats_sh, toWrite,
                 sem_idx, statsVars, lapped>>

\* The receive fails, or the address of the item cannot be had.
BlockError(r) ==
  /\ \/ block[r] = "recv" /\ ~exit_cond
     \/ block[r] = "add" /\ adding[r] = {}
  /\ exit_cond' = TRUE
  /\ block' = [block EXCEPT ![r] = "exited"]
  /\ UNCHANGED <<force_quit, status, info, out_pkt_num, share, adding, stats_sh,
                 toWrite, sem_idx, statsVars, lapped>>

\* Threads of a warp cannot get the HTTP item for their packet: they break out
\* of their packets, of which part stays counted, and go on to the sums.
WarpBreaks(r, w) ==
  /\ r \in HttpRings /\ block[r] = "add" /\ w \in adding[r]
  /\ \E part \in [Classes -> 0..MaxPkts] :
       /\ part # share[r][w] /\ \A c \in Classes : part[c] <= share[r][w][c]
       /\ share' = [share EXCEPT ![r][w] = part]
  /\ exit_cond' = TRUE
  /\ UNCHANGED <<force_quit, status, info, block, out_pkt_num, adding, stats_sh,
                 toWrite, sem_idx, statsVars, lapped>>

\* The first lane of a warp adds the warp's sums with atomicAdd_block.
WarpAdd(r, w) ==
  /\ block[r] = "add" /\ w \in adding[r]
  /\ stats_sh' = [stats_sh EXCEPT ![r] = [c \in Classes |-> @[c] + share[r][w][c]]]
  /\ adding' = [adding EXCEPT ![r] = @ \ {w}]
  /\ UNCHANGED <<exit_cond, force_quit, status, info, block, out_pkt_num, share,
                 toWrite, sem_idx, statsVars, lapped>>

\* Mutant: the item is READY before its fields are written.
BlockFillReady(r) ==
  /\ block[r] = "add" /\ adding[r] = {}
  /\ lapped' = [lapped EXCEPT ![r] = @ \/ status[r][sem_idx[r]] = "READY"]
  /\ status' = [status EXCEPT ![r][sem_idx[r]] = "READY"]
  /\ toWrite' = [toWrite EXCEPT ![r] = Fields]
  /\ block' = [block EXCEPT ![r] = "fill"]
  /\ UNCHANGED <<exit_cond, force_quit, info, out_pkt_num, share, adding, stats_sh,
                 sem_idx, statsVars>>

\* All the warps have passed __syncthreads: thread 0 takes the next item.
BlockFill(r) ==
  /\ block[r] = "add" /\ adding[r] = {}
  /\ lapped' = [lapped EXCEPT ![r] = @ \/ status[r][sem_idx[r]] = "READY"]
  /\ toWrite' = [toWrite EXCEPT ![r] = Fields]
  /\ block' = [block EXCEPT ![r] = "fill"]
  /\ UNCHANGED <<exit_cond, force_quit, status, info, out_pkt_num, share, adding,
                 stats_sh, sem_idx, statsVars>>

WriteField(r) ==
  LET f == FirstOf(toWrite[r])
  IN  /\ block[r] = "fill" /\ toWrite[r] # {}
      /\ info' = [info EXCEPT ![r][sem_idx[r]][f] =
                    IF f = "total" THEN out_pkt_num[r] ELSE stats_sh[r][f]]
      /\ toWrite' = [toWrite EXCEPT ![r] = @ \ {f}]
      /\ UNCHANGED <<exit_cond, force_quit, status, block, out_pkt_num, share,
                     adding, stats_sh, sem_idx, statsVars, lapped>>

\* Mutant: the index does not wrap around.
PublishNoWrap(r) ==
  /\ block[r] = "fill" /\ toWrite[r] = {}
  /\ status' = [status EXCEPT ![r][sem_idx[r]] = "READY"]
  /\ sem_idx' = [sem_idx EXCEPT ![r] = @ + 1]
  /\ stats_sh' = [stats_sh EXCEPT ![r] = [c \in Classes |-> 0]]
  /\ share' = [share EXCEPT ![r] = NoShare]
  /\ out_pkt_num' = [out_pkt_num EXCEPT ![r] = 0]
  /\ block' = [block EXCEPT ![r] = "recv"]
  /\ UNCHANGED <<exit_cond, force_quit, info, adding, toWrite, statsVars, lapped>>

\* Mutant: the counters in shared memory are not cleared.
PublishKeepsCounts(r) ==
  /\ block[r] = "fill" /\ toWrite[r] = {}
  /\ status' = [status EXCEPT ![r][sem_idx[r]] = "READY"]
  /\ sem_idx' = [sem_idx EXCEPT ![r] = (@ + 1) % Nums]
  /\ share' = [share EXCEPT ![r] = NoShare]
  /\ out_pkt_num' = [out_pkt_num EXCEPT ![r] = 0]
  /\ block' = [block EXCEPT ![r] = "recv"]
  /\ UNCHANGED <<exit_cond, force_quit, info, adding, stats_sh, toWrite,
                 statsVars, lapped>>

\* The item becomes READY, thread 0 moves on and clears stats_sh before the
\* barrier at the end of the loop lets the other threads go on.
Publish(r) ==
  /\ block[r] = "fill" /\ toWrite[r] = {}
  /\ status' = [status EXCEPT ![r][sem_idx[r]] = "READY"]
  /\ sem_idx' = [sem_idx EXCEPT ![r] = (@ + 1) % Nums]
  /\ stats_sh' = [stats_sh EXCEPT ![r] = [c \in Classes |-> 0]]
  /\ share' = [share EXCEPT ![r] = NoShare]
  /\ out_pkt_num' = [out_pkt_num EXCEPT ![r] = 0]
  /\ block' = [block EXCEPT ![r] = "recv"]
  /\ UNCHANGED <<exit_cond, force_quit, info, adding, toWrite, statsVars, lapped>>

-----------------------------------------------------------------------------
(* The thread stats_core.                                                  *)

gpuVars == <<exit_cond, info, blockVars, lapped>>

\* Mutant: the last ring is left out.
NextRingShort ==
  IF idxq + 1 >= NumRings THEN stats' = "loop" /\ idxq' = 1
                          ELSE stats' = "poll" /\ idxq' = idxq + 1

\* After the last ring force_quit is looked at again.
NextRing ==
  IF idxq = NumRings THEN stats' = "loop" /\ idxq' = 1
                     ELSE stats' = "poll" /\ idxq' = idxq + 1

StatsLoop ==
  /\ stats = "loop"
  /\ stats' = IF force_quit THEN "ended" ELSE "poll"
  /\ UNCHANGED <<force_quit, status, idxq, cpu_idx, toRead, added, counted, gpuVars>>

AtItem(st) == stats = "poll" /\ status[idxq][cpu_idx[idxq]] = st

\* Mutant: the index advances past an item that is not READY.
PollFreeSkips ==
  /\ AtItem("FREE")
  /\ cpu_idx' = [cpu_idx EXCEPT ![idxq] = (@ + 1) % Nums]
  /\ NextRing
  /\ UNCHANGED <<force_quit, status, toRead, added, counted, gpuVars>>

PollFree ==
  /\ AtItem("FREE")
  /\ NextRing
  /\ UNCHANGED <<force_quit, status, cpu_idx, toRead, added, counted, gpuVars>>

PollReady ==
  /\ AtItem("READY")
  /\ stats' = "read" /\ toRead' = Fields
  /\ UNCHANGED <<force_quit, status, idxq, cpu_idx, added, counted, gpuVars>>

ReadField ==
  LET f == FirstOf(toRead)
  IN  /\ stats = "read" /\ toRead # {}
      /\ added' = [added EXCEPT ![f] = info[idxq][cpu_idx[idxq]][f]]
      /\ toRead' = toRead \ {f}
      /\ UNCHANGED <<force_quit, status, stats, idxq, cpu_idx, counted, gpuVars>>

FreeItem ==
  /\ stats = "read" /\ toRead = {}
  /\ status' = [status EXCEPT ![idxq][cpu_idx[idxq]] = "FREE"]
  /\ cpu_idx' = [cpu_idx EXCEPT ![idxq] = (@ + 1) % Nums]
  /\ counted' = [counted EXCEPT ![idxq] = added]
  /\ added' = Zero
  /\ NextRing
  /\ UNCHANGED <<force_quit, toRead, gpuVars>>

\* Reading the status, getting the address or setting the status fails.
StatsError ==
  /\ stats = "poll" \/ (stats = "read" /\ toRead = {})
  /\ force_quit' = TRUE
  /\ stats' = "ended"
  /\ UNCHANGED <<status, idxq, cpu_idx, toRead, added, counted, gpuVars>>

-----------------------------------------------------------------------------
\* Ctrl-C, or any other CPU thread.
Quit ==
  /\ ~force_quit
  /\ force_quit' = TRUE
  /\ UNCHANGED <<status, statsVars, gpuVars>>

\* main has left its loop and stops the kernels; or another kernel fails.
StopKernels ==
  /\ ~exit_cond
  /\ exit_cond' = TRUE
  /\ UNCHANGED <<force_quit, status, info, blockVars, statsVars, lapped>>

Block(r) ==
  \/ BlockExit(r) \/ BlockReceive(r) \/ BlockError(r)
  \/ \E w \in Warps : WarpBreaks(r, w) \/ WarpAdd(r, w)
  \/ BlockFill(r) \/ WriteField(r) \/ Publish(r)

Stats ==
  StatsLoop \/ PollFree \/ PollReady \/ ReadField \/ FreeItem \/ StatsError

Next == (\E r \in Rings : Block(r)) \/ Stats \/ Quit \/ StopKernels

Spec == Init /\ [][Next]_vars

\* stats_core polls without ever waiting; nothing obliges packets to come.
FairSpec == Spec /\ WF_vars(Stats)
-----------------------------------------------------------------------------
(* Properties.                                                             *)

(* While the block has not lapped the CPU, the item stats_core is reading  *)
(* is not the one the block is writing, and it stays READY: the handshake  *)
(* of the status alone keeps the two apart.                                *)
NoTornAccess ==
  \A r \in Rings : ~lapped[r] /\ stats = "read" /\ idxq = r =>
    /\ status[r][cpu_idx[r]] = "READY"
    /\ block[r] = "fill" => sem_idx[r] # cpu_idx[r]

(* While the block has not lapped the CPU, the READY items of a ring are   *)
(* the ones from cpu_idx up to sem_idx: stats_core meets them in the order *)
(* in which they were published and never waits at a FREE item while a     *)
(* READY one lies behind it.                                               *)
Item(r, i) == (cpu_idx[r] + i) % Nums
ReadyInOrder ==
  \A r \in Rings : ~lapped[r] =>
    \E n \in 0..Nums :
      /\ sem_idx[r] = Item(r, n)
      /\ \A s \in Items : status[r][s] = "READY" <=> \E i \in 0..n - 1 : s = Item(r, i)

(* No ring is left with an item that waits: again and again the item that  *)
(* stats_core reads next on a ring is FREE or about to be set FREE, unless *)
(* the application quits.  The single thread starves no queue, however     *)
(* fast the kernel of another one publishes.                               *)
EventuallyCounted ==
  \A r \in Rings :
    []<>(\/ status[r][cpu_idx[r]] = "FREE"
         \/ stats = "read" /\ idxq = r /\ toRead = {}
         \/ force_quit)

(* The rings implement the ledger: what stats_core adds to its counters    *)
(* are the bursts the kernels received, each once and in order, until a    *)
(* kernel meets a ring that is full; whole, but for those that are at work *)
(* when threads of theirs fail to hand a GET over, which stops all the     *)
(* kernels: of them the total stays that of the burst.                     *)
Waiting(r) ==
  [i \in 1..Cardinality({s \in Items : status[r][s] = "READY"}) |->
     info[r][Item(r, i - 1)]]

Ledger == INSTANCE StatsLedger WITH
  Capacity <- Nums,
  Batches  <- {BatchOf(sh, SizeOf(sh)) : sh \in Bursts},
  current  <- [r \in Rings |-> IF block[r] \in {"add", "fill"}
                               THEN BatchOf(share[r], out_pkt_num[r]) ELSE None],
  pending  <- [r \in Rings |-> IF lapped[r] THEN <<>> ELSE Waiting(r)],
  counted  <- [r \in Rings |-> IF lapped[r] THEN None ELSE counted[r]],
  lost     <- lapped,
  stopped  <- exit_cond

ImplementsLedger == Ledger!Spec
=============================================================================
