-------------------------- MODULE TcpSessionProofs --------------------------
(***************************************************************************)
(* Theorems about TcpSession, for every set of queues, connections, table  *)
(* slots, sessions and flows, every pool size and every burst length.      *)
(***************************************************************************)
EXTENDS TcpSession, SequenceTheorems, TLAPS

\* The steps of the callback that work on the packet at the head of the burst.
PacketSteps == {"disable", "delete", "enable", "pick", "write", "ack"}

\* The types of everything but the three counters of a queue.
StateOK ==
  /\ force_quit \in BOOLEAN
  /\ table \in [Slots -> [key : Keys \cup {NoKey},
                          entry : Entries \cup {NoEntry}]]
  /\ heapKey \in [Entries -> Keys \cup {NoKey}]
  /\ entryFlow \in [Entries -> Flows \cup {NoFlow}]
  /\ flowKey \in [Flows -> Keys \cup {NoKey}]
  /\ installed \subseteq Flows
  /\ pc \in [Queues -> Steps]
  /\ burst \in [Queues -> Seq(Packet)]
  /\ sess \in [Queues -> Entries \cup {NoEntry}]
  /\ slot \in [Queues -> Slots \cup {NoSlot}]
  /\ rxHeld \in [Queues -> BOOLEAN]
  /\ excused \subseteq Keys

PacketPending == \A q \in Queues : pc[q] \in PacketSteps => burst[q] # <<>>

StateInv == StateOK /\ PacketPending

CountersOK == /\ free \in [Queues -> Nat]
              /\ held \in [Queues -> Nat]
              /\ inflight \in [Queues -> Nat]

\* BuffersConserved for one queue, made inductive: no ACK buffer is left over
\* when the callback returns, and the pool is not exceeded while the
\* application quits either.
Buffers(q) ==
  /\ free[q] + held[q] + inflight[q] <= PoolSize
  /\ pc[q] \in {"poll", "progress"} => held[q] = 0
  /\ held[q] + Len(burst[q]) <= MaxBurst
  /\ ~force_quit =>
       /\ free[q] + held[q] + inflight[q] = PoolSize
       /\ rxHeld[q] => pc[q] \notin {"poll", "progress", "send"}

BufferInv == CountersOK /\ \A q \in Queues : Buffers(q)

\* What taking the first packet off a burst does to it.
LEMMA TailOfBurst ==
  ASSUME NEW b \in Seq(Packet), b # <<>>
  PROVE  /\ Tail(b) \in Seq(Packet)
         /\ Len(Tail(b)) = Len(b) - 1
         /\ Len(b) \in Nat /\ Len(b) > 0
         /\ Head(b) \in Packet
         /\ Head(b).key \in Keys
<1>1. Head(b) \in Packet /\ Tail(b) \in Seq(Packet) /\ Len(Tail(b)) = Len(b) - 1
  BY HeadTailProperties
<1>2. Len(b) \in Nat \ {0}
  BY EmptySeq
<1>3. Head(b).key \in Keys
  BY <1>1 DEF Packet
<1>4. QED
  BY <1>1, <1>2, <1>3

\* A burst that a receive event delivers.
LEMMA BurstIsSeq ==
  ASSUME NEW b \in Burst
  PROVE  /\ b \in Seq(Packet)
         /\ Len(b) \in 1..MaxBurst
<1>1. PICK n \in 1..MaxBurst : b \in [1..n -> Packet]
  BY DEF Burst
<1>2. n \in Nat
  BY SizeAssumption
<1>3. b \in Seq(Packet)
  BY <1>1, <1>2, SeqDef
<1>4. Len(b) = n
  <2>1. DOMAIN b = 1..n
    BY <1>1
  <2>2. Len(b) \in Nat /\ DOMAIN b = 1..Len(b)
    BY <1>3, LenProperties
  <2>3. QED
    BY <2>1, <2>2, <1>2
<1>5. QED
  BY <1>3, <1>4
-----------------------------------------------------------------------------
(* Types: StateInv does not depend on the counters.                        *)

LEMMA InitStateInv == Init => StateInv
<1>1. SUFFICES ASSUME Init PROVE StateInv
  OBVIOUS
<1>2. <<>> \in Seq(Packet)
  BY EmptySeq
<1>3. Empty \in [key : Keys \cup {NoKey}, entry : Entries \cup {NoEntry}]
  BY DEF Empty
<1>4. /\ table \in [Slots -> [key : Keys \cup {NoKey},
                              entry : Entries \cup {NoEntry}]]
      /\ burst \in [Queues -> Seq(Packet)]
  BY <1>1, <1>2, <1>3 DEF Init
<1>5. /\ heapKey \in [Entries -> Keys \cup {NoKey}]
      /\ entryFlow \in [Entries -> Flows \cup {NoFlow}]
      /\ flowKey \in [Flows -> Keys \cup {NoKey}]
      /\ installed \subseteq Flows
  BY <1>1 DEF Init
<1>6. /\ sess \in [Queues -> Entries \cup {NoEntry}]
      /\ slot \in [Queues -> Slots \cup {NoSlot}]
      /\ rxHeld \in [Queues -> BOOLEAN]
  BY <1>1 DEF Init
<1>7. pc \in [Queues -> Steps] /\ excused \subseteq Keys /\ force_quit \in BOOLEAN
  BY <1>1 DEF Init, Steps
<1>8. PacketPending
  BY <1>1 DEF Init, PacketPending, PacketSteps
<1>9. QED
  BY <1>4, <1>5, <1>6, <1>7, <1>8 DEF StateInv, StateOK

\* The ways a thread moves on: to another packet, or to another step.
LEMMA Advance ==
  ASSUME StateInv, NEW q \in Queues,
         \/ burst[q] # <<>> /\ NextPacket(q)
         \/ \E step \in Steps : /\ Goto(q, step) /\ UNCHANGED burst
                                /\ step \in PacketSteps => burst[q] # <<>>
  PROVE  /\ burst' \in [Queues -> Seq(Packet)] /\ pc' \in [Queues -> Steps]
         /\ PacketPending'
<1>1. CASE burst[q] # <<>> /\ NextPacket(q)
  BY <1>1, TailOfBurst
     DEF StateInv, StateOK, PacketPending, PacketSteps, NextPacket, Goto, Steps
<1>2. CASE \E step \in Steps : /\ Goto(q, step) /\ UNCHANGED burst
                               /\ step \in PacketSteps => burst[q] # <<>>
  BY <1>2 DEF StateInv, StateOK, PacketPending, PacketSteps, Goto
<1>3. QED
  BY <1>1, <1>2

\* The head of the burst while a packet is being handled.
LEMMA HeadKey ==
  ASSUME StateInv, NEW q \in Queues, burst[q] # <<>>
  PROVE  Pkt(q).key \in Keys
BY TailOfBurst DEF StateInv, StateOK, Pkt

LEMMA NextStateInv == StateInv /\ [Next]_vars => StateInv'
<1>1. SUFFICES ASSUME StateInv, [Next]_vars PROVE StateInv'
  OBVIOUS
<1> USE <1>1 DEF StateInv, hashVars, offload, ackVars
<1>2. ASSUME NEW q \in Queues, Progress(q) \/ Stop(q)
      PROVE  StateInv'
  <2>1. ASSUME EnterProgress(q) \/ Idle(q) \/ Stop(q)
        PROVE  StateInv'
    BY <2>1, Advance DEF EnterProgress, Idle, Stop, StateOK, PacketSteps, Steps
  <2>2. CASE Receive(q)
    <3>1. PICK b \in Burst : burst' = [burst EXCEPT ![q] = b]
      BY <2>2 DEF Receive
    <3>2. b \in Seq(Packet)
      BY <3>1, BurstIsSeq
    <3>3. QED
      BY <2>2, <3>1, <3>2
         DEF Receive, Goto, StateOK, PacketPending, PacketSteps, Steps
  <2>3. CASE ReceiveError(q)
    BY <2>3, Advance DEF ReceiveError, StateOK, PacketSteps, Steps
  <2>4. ASSUME NEW ok \in BOOLEAN, TxComplete(q, ok)
        PROVE  StateInv'
    BY <2>4, Advance DEF TxComplete, StateOK, PacketSteps, Steps
  <2>5. QED
    BY <1>2, <2>1, <2>2, <2>3, <2>4 DEF Progress
<1>3. ASSUME NEW q \in Queues, Callback(q)
      PROVE  StateInv'
  <2>1. CASE SkipPacket(q)
    BY <2>1, Advance DEF SkipPacket, At, StateOK
  <2>2. CASE LookupMiss(q)
    BY <2>2, Advance DEF LookupMiss, AfterDestroy, At, StateOK, PacketSteps, Steps
  <2>3. CASE LookupHit(q)
    BY <2>3, Advance DEF LookupHit, SlotsOf, At, StateOK, PacketSteps, Steps
  <2>4. CASE DisableOffload(q)
    BY <2>4, Advance DEF DisableOffload, StateOK, PacketPending, PacketSteps, Steps
  <2>5. CASE DisableFails(q)
    BY <2>5, Advance, HeadKey
       DEF DisableFails, StateOK, PacketPending, PacketSteps, Steps
  <2>6. CASE DeleteSession(q)
    BY <2>6, Advance DEF DeleteSession, AfterDestroy, Empty, StateOK,
       PacketPending, PacketSteps, Steps
  <2>7. CASE AllocSession(q)
    BY <2>7, Advance, HeadKey DEF AllocSession, At, StateOK, PacketSteps, Steps
  <2>8. CASE AllocFails(q)
    BY <2>8, EmptySeq
       DEF AllocFails, Abort, At, Goto, StateOK, PacketPending, PacketSteps, Steps
  <2>9. CASE EnableOffload(q) \/ EnableUnprocessed(q)
    <3>1. PICK f \in Flows : AddFlow(q, f) /\ installed' \in {installed, installed \cup {f}}
      BY <2>9 DEF EnableOffload, EnableUnprocessed
    <3>2. installed' \subseteq Flows
      BY <3>1 DEF StateOK
    <3>3. burst[q] # <<>> /\ Pkt(q).key \in Keys
      BY <3>1, HeadKey DEF AddFlow, PacketPending, PacketSteps
    <3>4. burst' \in [Queues -> Seq(Packet)] /\ pc' \in [Queues -> Steps] /\ PacketPending'
      BY <3>1, <3>3, Advance DEF AddFlow, PacketSteps, Steps
    <3>5. entryFlow' \in [Entries -> Flows \cup {NoFlow}] /\ flowKey' \in [Flows -> Keys \cup {NoKey}]
      BY <3>1, <3>3 DEF AddFlow, StateOK
    <3>6. QED
      BY <3>1, <3>2, <3>4, <3>5 DEF AddFlow, StateOK
  <2>10. CASE EnableFails(q)
    BY <2>10, Advance DEF EnableFails, StateOK, PacketPending, PacketSteps, Steps
  <2>11. CASE PickSlot(q)
    BY <2>11, Advance, HeadKey
       DEF PickSlot, SlotsOf, StateOK, PacketPending, PacketSteps, Steps
  <2>12. CASE InsertFails(q)
    BY <2>12, EmptySeq, HeadKey
       DEF InsertFails, Abort, Goto, StateOK, PacketPending, PacketSteps, Steps
  <2>13. CASE WriteSlot(q)
    BY <2>13, Advance, HeadKey
       DEF WriteSlot, StateOK, PacketPending, PacketSteps, Steps
  <2>14. ASSUME MakeAck(q) \/ AckFails(q)
         PROVE  StateInv'
    BY <2>14, Advance DEF MakeAck, AckFails, StateOK, PacketPending, PacketSteps
  <2>15. CASE OptionWalkSpins(q)
    BY <2>15, TailOfBurst DEF OptionWalkSpins, Goto, StateOK, PacketPending,
       PacketSteps, Steps
  <2>16. CASE FinishBurst(q)
    BY <2>16, Advance DEF FinishBurst, StateOK, PacketSteps, Steps
  <2>17. ASSUME \/ SubmitBatch(q)
                \/ \E fatal \in BOOLEAN : DropBatch(q, fatal)
         PROVE  StateInv'
    BY <2>17, Advance DEF SubmitBatch, DropBatch, StateOK, PacketSteps, Steps
  <2>18. QED
    BY <1>3, <2>1, <2>2, <2>3, <2>4, <2>5, <2>6, <2>7, <2>8, <2>9, <2>10, <2>11,
       <2>12, <2>13, <2>14, <2>15, <2>16, <2>17 DEF Callback
<1>4. CASE Quit \/ (\E f \in Flows : FlowSettles(f)) \/ UNCHANGED vars
  BY <1>4 DEF Quit, FlowSettles, vars, threadVars, StateOK, PacketPending
<1>5. QED
  BY <1>1, <1>2, <1>3, <1>4 DEF Next
-----------------------------------------------------------------------------
(* Buffers: BufferInv, with the types known.                               *)

LEMMA InitBufferInv == Init => BufferInv
<1>1. SUFFICES ASSUME Init PROVE BufferInv
  OBVIOUS
<1>2. \A q \in Queues : Len(burst[q]) = 0
  BY <1>1, EmptySeq DEF Init
<1>3. QED
  BY <1>1, <1>2, SizeAssumption DEF Init, BufferInv, CountersOK, Buffers

\* A step of one thread leaves the other threads' buffers alone; it can set
\* force_quit, which only weakens what the others have to satisfy.
LEMMA OtherThreads ==
  ASSUME BufferInv, NEW q \in Queues,
         free' \in [Queues -> Nat], held' \in [Queues -> Nat],
         inflight' \in [Queues -> Nat],
         force_quit => force_quit',
         \A p \in Queues \ {q} :
           /\ free'[p] = free[p] /\ held'[p] = held[p] /\ inflight'[p] = inflight[p]
           /\ pc'[p] = pc[p] /\ burst'[p] = burst[p] /\ rxHeld'[p] = rxHeld[p],
         Buffers(q)'
  PROVE  BufferInv'
<1>1. ASSUME NEW p \in Queues \ {q}
      PROVE  Buffers(p)'
  BY <1>1 DEF BufferInv, Buffers
<1>2. QED
  BY <1>1 DEF BufferInv, CountersOK

\* Steps that move no buffer, do not touch pkt_array and do not end the callback.
LEMMA NoBufferMoved ==
  ASSUME StateInv, BufferInv, NEW q \in Queues,
         \/ burst[q] # <<>> /\ NextPacket(q)
         \/ \E step \in PacketSteps : Goto(q, step) /\ UNCHANGED burst,
         pc[q] \in PacketSteps \cup {"scan"},
         UNCHANGED <<force_quit, rxHeld, ackVars>>
  PROVE  BufferInv'
<1> USE DEF StateInv, StateOK, ackVars
<1>1. Len(burst[q]) \in Nat /\ (burst[q] # <<>> => Len(Tail(burst[q])) = Len(burst[q]) - 1)
  BY TailOfBurst, LenProperties
<1>2. \A p \in Queues \ {q} : pc'[p] = pc[p] /\ burst'[p] = burst[p]
  BY DEF NextPacket, Goto
<1>3. pc'[q] \in PacketSteps \cup {"scan"} /\ Len(burst'[q]) <= Len(burst[q])
  BY <1>1 DEF NextPacket, Goto
<1>4. Len(burst'[q]) \in Nat
  BY <1>1 DEF NextPacket, Goto
<1>5. Buffers(q)'
  BY <1>1, <1>3, <1>4, SizeAssumption DEF BufferInv, CountersOK, Buffers, PacketSteps
<1>6. QED
  BY <1>2, <1>5, OtherThreads DEF BufferInv, CountersOK

\* The error label of rxq_success_cb.
LEMMA AbortBufferInv ==
  ASSUME StateInv, BufferInv, NEW q \in Queues, Abort(q)
  PROVE  BufferInv'
<1>1. Len(burst'[q]) = 0 /\ burst' = [burst EXCEPT ![q] = <<>>]
  BY EmptySeq DEF StateInv, StateOK, Abort
<1>2. held[q] \in Nat /\ Len(burst[q]) \in Nat
  BY LenProperties DEF StateInv, StateOK, BufferInv, CountersOK
<1>3. Buffers(q)'
  BY <1>1, <1>2, SizeAssumption
     DEF StateInv, StateOK, BufferInv, CountersOK, Buffers, Abort, Goto
<1>4. QED
  BY <1>1, <1>3, OtherThreads
     DEF StateInv, StateOK, BufferInv, CountersOK, Abort, Goto

LEMMA NextBufferInv == StateInv /\ BufferInv /\ [Next]_vars => BufferInv'
<1>1. SUFFICES ASSUME StateInv, BufferInv, [Next]_vars PROVE BufferInv'
  OBVIOUS
<1> USE <1>1, SizeAssumption DEF ackVars
<1>2. ASSUME NEW q \in Queues
      PROVE  /\ free[q] \in Nat /\ held[q] \in Nat /\ inflight[q] \in Nat
             /\ Len(burst[q]) \in Nat /\ Buffers(q)
             /\ held \in [Queues -> Nat] /\ free \in [Queues -> Nat]
             /\ inflight \in [Queues -> Nat]
             /\ pc \in [Queues -> Steps] /\ burst \in [Queues -> Seq(Packet)]
             /\ rxHeld \in [Queues -> BOOLEAN]
             /\ pc[q] \in PacketSteps => burst[q] # <<>>
  BY LenProperties DEF StateInv, StateOK, BufferInv, CountersOK, PacketPending
<1>3. ASSUME NEW q \in Queues, Progress(q) \/ Stop(q)
      PROVE  BufferInv'
  <2>1. ASSUME EnterProgress(q) \/ Idle(q) \/ Stop(q)
        PROVE  BufferInv'
    <3>1. Buffers(q)'
      BY <1>2, <2>1 DEF EnterProgress, Idle, Stop, Goto, Buffers
    <3>2. /\ \A p \in Queues \ {q} : pc'[p] = pc[p]
          /\ UNCHANGED <<force_quit, burst, rxHeld, ackVars>>
      BY <1>2, <2>1 DEF EnterProgress, Idle, Stop, Goto
    <3>3. QED
      BY <1>2, <3>1, <3>2, OtherThreads
  <2>2. CASE Receive(q)
    <3>1. PICK b \in Burst : burst' = [burst EXCEPT ![q] = b]
      BY <2>2 DEF Receive
    <3>2. Len(b) \in 1..MaxBurst
      BY <3>1, BurstIsSeq
    <3>3. Buffers(q)'
      BY <1>2, <2>2, <3>1, <3>2 DEF Receive, Goto, Buffers
    <3>4. QED
      BY <1>2, <2>2, <3>1, <3>3, OtherThreads DEF Receive, Goto
  <2>3. CASE ReceiveError(q)
    <3>1. Buffers(q)'
      BY <1>2, <2>3 DEF ReceiveError, Goto, Buffers
    <3>2. QED
      BY <1>2, <2>3, <3>1, OtherThreads DEF ReceiveError, Goto
  <2>4. ASSUME NEW ok \in BOOLEAN, TxComplete(q, ok)
        PROVE  BufferInv'
    <3>1. PICK n \in 1..inflight[q] :
               /\ free' = [free EXCEPT ![q] = @ + n]
               /\ inflight' = [inflight EXCEPT ![q] = @ - n]
      BY <2>4 DEF TxComplete
    <3>2. Buffers(q)'
      <4>1. /\ pc[q] = "progress" /\ pc'[q] = "poll"
            /\ UNCHANGED <<burst, held, rxHeld>> /\ (force_quit => force_quit')
        BY <1>2, <2>4 DEF TxComplete, Goto
      <4>2. free'[q] + inflight'[q] = free[q] + inflight[q]
        BY <1>2, <3>1
      <4>3. free'[q] + held[q] + inflight'[q] = free[q] + held[q] + inflight[q]
        BY <1>2, <3>1, <4>2
      <4>4. QED
        BY <1>2, <4>1, <4>3 DEF Buffers
    <3>3. free' \in [Queues -> Nat] /\ inflight' \in [Queues -> Nat]
      BY <1>2, <3>1
    <3>4. QED
      BY <1>2, <2>4, <3>1, <3>2, <3>3, OtherThreads DEF TxComplete, Goto
  <2>5. QED
    BY <1>3, <2>1, <2>2, <2>3, <2>4 DEF Progress
<1>4. ASSUME NEW q \in Queues, Callback(q)
      PROVE  BufferInv'
  <2>0. /\ free[q] \in Nat /\ held[q] \in Nat /\ inflight[q] \in Nat
        /\ Len(burst[q]) \in Nat /\ Buffers(q)
    BY <1>2
  <2>1. ASSUME \/ SkipPacket(q) \/ LookupMiss(q) \/ LookupHit(q)
               \/ DisableOffload(q) \/ DisableFails(q) \/ DeleteSession(q)
        PROVE  BufferInv'
    BY <1>2, <2>1, NoBufferMoved
       DEF SkipPacket, LookupMiss, LookupHit, DisableOffload, DisableFails,
           DeleteSession, AfterDestroy, At, PacketSteps
  <2>2. ASSUME \/ AllocSession(q) \/ EnableOffload(q) \/ EnableUnprocessed(q) \/ EnableFails(q)
               \/ PickSlot(q) \/ WriteSlot(q) \/ AckFails(q)
        PROVE  BufferInv'
    BY <1>2, <2>2, NoBufferMoved
       DEF AllocSession, EnableOffload, EnableUnprocessed, AddFlow, EnableFails, PickSlot,
           WriteSlot, AckFails, At, PacketSteps
  <2>3. ASSUME AllocFails(q) \/ InsertFails(q)
        PROVE  BufferInv'
    BY <2>3, AbortBufferInv DEF AllocFails, InsertFails
  <2>4. ASSUME MakeAck(q) \/ OptionWalkSpins(q)
        PROVE  BufferInv'
    <3>1. burst[q] # <<>> /\ free[q] > 0
      BY <1>2, <2>4 DEF MakeAck, OptionWalkSpins, PacketSteps
    <3>2. Len(Tail(burst[q])) = Len(burst[q]) - 1
      BY <1>2, <3>1, TailOfBurst
    <3>3. /\ burst' = [burst EXCEPT ![q] = Tail(@)]
          /\ free' = [free EXCEPT ![q] = @ - 1]
          /\ held' = [held EXCEPT ![q] = @ + 1]
          /\ UNCHANGED <<force_quit, rxHeld, inflight>>
      BY <2>4 DEF MakeAck, OptionWalkSpins, NextPacket
    <3>4. pc'[q] \in {"scan", "spin"} /\ \A p \in Queues \ {q} : pc'[p] = pc[p]
      BY <1>2, <2>4 DEF MakeAck, OptionWalkSpins, NextPacket, Goto
    <3>5. Buffers(q)'
      <4>1. /\ free'[q] = free[q] - 1 /\ held'[q] = held[q] + 1
            /\ Len(burst'[q]) = Len(burst[q]) - 1
        BY <1>2, <3>2, <3>3
      <4>2. /\ free'[q] + held'[q] + inflight'[q] = free[q] + held[q] + inflight[q]
            /\ held'[q] + Len(burst'[q]) = held[q] + Len(burst[q])
            /\ force_quit' = force_quit
        BY <2>0, <3>3, <4>1
      <4>3. QED
        BY <2>0, <3>4, <4>2 DEF Buffers
    <3>6. free' \in [Queues -> Nat] /\ held' \in [Queues -> Nat]
      BY <1>2, <3>1, <3>3
    <3>7. QED
      BY <1>2, <3>3, <3>4, <3>5, <3>6, OtherThreads
  <2>5. CASE FinishBurst(q)
    <3>1. Buffers(q)'
      BY <1>2, <2>5 DEF FinishBurst, Goto, Buffers
    <3>2. QED
      BY <1>2, <2>5, <3>1, OtherThreads DEF FinishBurst, Goto
  <2>6. ASSUME SubmitBatch(q) \/ \E fatal \in BOOLEAN : DropBatch(q, fatal)
        PROVE  BufferInv'
    <3>1. /\ pc[q] = "send" /\ pc'[q] = "poll"
          /\ \A p \in Queues \ {q} : pc'[p] = pc[p]
          /\ UNCHANGED <<burst, rxHeld>> /\ (force_quit => force_quit')
          /\ held' = [held EXCEPT ![q] = 0]
      <4>1. CASE SubmitBatch(q)
        BY <1>2, <4>1 DEF SubmitBatch, Goto
      <4>2. ASSUME NEW fatal \in BOOLEAN, DropBatch(q, fatal)
            PROVE  /\ pc[q] = "send" /\ pc'[q] = "poll"
                   /\ \A p \in Queues \ {q} : pc'[p] = pc[p]
                   /\ UNCHANGED <<burst, rxHeld>> /\ (force_quit => force_quit')
                   /\ held' = [held EXCEPT ![q] = 0]
        BY <1>2, <4>2 DEF DropBatch, Goto
      <4>3. QED
        BY <2>6, <4>1, <4>2
    <3>2. \/ /\ inflight' = [inflight EXCEPT ![q] = @ + held[q]]
             /\ free' = free
          \/ /\ free' = [free EXCEPT ![q] = @ + held[q]]
             /\ inflight' = inflight
      BY <2>6 DEF SubmitBatch, DropBatch
    <3>3. free'[q] + inflight'[q] = free[q] + held[q] + inflight[q]
      BY <2>0, <1>2, <3>2
    <3>4. free' \in [Queues -> Nat] /\ inflight' \in [Queues -> Nat]
      <4>1. free[q] + held[q] \in Nat /\ inflight[q] + held[q] \in Nat
        BY <2>0
      <4>2. QED
        BY <1>2, <3>2, <4>1
    <3>5. Buffers(q)'
      <4>1. held'[q] = 0
        BY <1>2, <3>1
      <4>2. free'[q] + held'[q] + inflight'[q] = free[q] + held[q] + inflight[q]
        BY <2>0, <3>3, <3>4, <4>1
      <4>3. QED
        BY <2>0, <3>1, <4>1, <4>2 DEF Buffers
    <3>6. QED
      BY <1>2, <3>1, <3>2, <3>4, <3>5, OtherThreads
  <2>7. QED
    BY <1>4, <2>1, <2>2, <2>3, <2>4, <2>5, <2>6 DEF Callback
<1>5. CASE Quit \/ (\E f \in Flows : FlowSettles(f)) \/ UNCHANGED vars
  BY <1>5 DEF Quit, FlowSettles, vars, threadVars, BufferInv, CountersOK, Buffers
<1>6. QED
  BY <1>1, <1>3, <1>4, <1>5 DEF Next
-----------------------------------------------------------------------------
(* Theorems.                                                               *)

LEMMA InvariantHolds == Spec => [](StateInv /\ BufferInv)
<1>1. Init => StateInv /\ BufferInv
  BY InitStateInv, InitBufferInv
<1>2. StateInv /\ BufferInv /\ [Next]_vars => (StateInv /\ BufferInv)'
  BY NextStateInv, NextBufferInv
<1>3. QED
  BY <1>1, <1>2, PTL DEF Spec

\* Types, for every number of queues, connections, slots and sessions: in
\* particular the callback takes the head of pkt_array only while a packet is
\* left, and never more than the pool's buffers are out.
THEOREM TypeCorrect == Spec => []TypeOK
<1>1. StateInv /\ BufferInv => TypeOK
  BY SizeAssumption DEF StateInv, StateOK, BufferInv, CountersOK, Buffers, TypeOK
<1>2. QED
  BY <1>1, InvariantHolds, PTL

\* The ACK buffers and pkt_arrays of every queue are conserved, whatever the
\* pool size and the burst length: rxq_success_cb leaks none of them on any
\* of its paths but those that end the application.
THEOREM BuffersAreConserved == Spec => []BuffersConserved
<1>1. BufferInv => BuffersConserved
  BY DEF BufferInv, Buffers, BuffersConserved
<1>2. QED
  BY <1>1, InvariantHolds, PTL
-----------------------------------------------------------------------------
(* The session table, the sessions and the hardware flows, for every set   *)
(* of queues, connections, slots, heap cells and flows.                    *)

\* The steps at which a thread works on the session of the packet at hand: one
\* it has looked up, or one it sets up.
TeardownSteps == {"disable", "delete"}
SetupSteps    == {"enable", "pick", "write"}
SessionSteps  == TeardownSteps \cup SetupSteps

\* RSS: a thread only sees packets of its own connections.
OwnPackets == \A q \in Queues : \A i \in DOMAIN burst[q] : RssQueue[burst[q][i].key] = q

\* A slot is empty, or holds a connection and the session allocated for it.
SlotOK(s) ==
  \/ table[s] = Empty
  \/ /\ table[s].key \in Keys /\ table[s].entry \in Entries
     /\ heapKey[table[s].entry] = table[s].key
OneSlot == \A s, r \in Slots : table[s].key # NoKey /\ table[s].key = table[r].key => s = r

\* What a thread holds between the steps of the callback.  When it writes the
\* slot it has picked, the connection is in no other slot.
Hands(q) ==
  /\ pc[q] \in SessionSteps => sess[q] \in Entries /\ heapKey[sess[q]] = Pkt(q).key
  /\ pc[q] \notin SessionSteps => sess[q] = NoEntry
  /\ pc[q] = "write" => slot[q] \in Slots /\ SlotsOf(Pkt(q).key) \subseteq {slot[q]}

TableInv == /\ OwnPackets
            /\ \A s \in Slots : SlotOK(s)
            /\ OneSlot
            /\ \A q \in Queues : Hands(q)

\* A cell that is free, and a session that is being set up, has no flow; one that
\* is about to be freed has none any more, unless the removal failed.
FlowsOf(q) ==
  /\ pc[q] = "enable" => entryFlow[sess[q]] = NoFlow
  /\ pc[q] = "delete" => \/ entryFlow[sess[q]] = NoFlow
                         \/ flowKey[entryFlow[sess[q]]] # Pkt(q).key
                         \/ Pkt(q).key \in excused
FlowInv == /\ \A e \in Entries : heapKey[e] = NoKey => entryFlow[e] = NoFlow
           /\ \A q \in Queues : FlowsOf(q)
           /\ FlowsTracked

\* With one thread nothing happens to the table between a look-up and the
\* deletion, or between the choice of a slot and the writing of it.
OneThread == \A p, q \in Queues : p = q

Alone(q) ==
  /\ pc[q] \in TeardownSteps => \E s \in SlotsOf(Pkt(q).key) : table[s].entry = sess[q]
  /\ pc[q] = "write" => \/ table[slot[q]] = Empty
                        \/ table[slot[q]].key = Pkt(q).key /\ Pkt(q).key \in excused
AloneInv == SessionsTracked /\ \A q \in Queues : Alone(q)
-----------------------------------------------------------------------------
(* How a thread moves.                                                     *)

\* What a step of thread q leaves alone of the others.
OthersStand(q) ==
  \A p \in Queues \ {q} : /\ pc'[p] = pc[p] /\ burst'[p] = burst[p]
                          /\ sess'[p] = sess[p] /\ slot'[p] = slot[p]

LEMMA StepOfThread ==
  ASSUME StateInv, NEW q \in Queues, Progress(q) \/ Callback(q) \/ Stop(q)
  PROVE  OthersStand(q)
<1> USE DEF OthersStand, Goto, hashVars, StateInv, StateOK
<1>1. CASE Progress(q) \/ Stop(q)
  BY <1>1 DEF Progress, Stop, EnterProgress, Idle, Receive, ReceiveError, TxComplete
<1>2. CASE SkipPacket(q) \/ LookupMiss(q) \/ LookupHit(q)
  BY <1>2 DEF SkipPacket, LookupMiss, LookupHit, AfterDestroy, NextPacket
<1>3. CASE DisableOffload(q) \/ DisableFails(q) \/ DeleteSession(q)
  BY <1>3 DEF DisableOffload, DisableFails, DeleteSession, AfterDestroy, NextPacket
<1>4. CASE \/ AllocSession(q) \/ AllocFails(q)
           \/ EnableOffload(q) \/ EnableUnprocessed(q) \/ EnableFails(q)
  BY <1>4 DEF AllocSession, AllocFails, EnableOffload, EnableUnprocessed, AddFlow, EnableFails, Abort
<1>5. CASE PickSlot(q) \/ InsertFails(q) \/ WriteSlot(q)
  BY <1>5 DEF PickSlot, InsertFails, WriteSlot, Abort
<1>6. CASE MakeAck(q) \/ OptionWalkSpins(q) \/ AckFails(q) \/ FinishBurst(q)
  BY <1>6 DEF MakeAck, OptionWalkSpins, AckFails, FinishBurst, NextPacket
<1>7. CASE SubmitBatch(q) \/ \E fatal \in BOOLEAN : DropBatch(q, fatal)
  BY <1>7 DEF SubmitBatch, DropBatch
<1>8. QED
  BY <1>1, <1>2, <1>3, <1>4, <1>5, <1>6, <1>7 DEF Callback

\* A packet stays in the burst of a thread until the thread takes it off the front.
LEMMA PacketsOfThread ==
  ASSUME StateInv, OwnPackets, NEW q \in Queues, Progress(q) \/ Callback(q) \/ Stop(q)
  PROVE  OwnPackets'
<1> USE DEF StateInv, StateOK
<1>1. CASE Receive(q)
  <2>1. PICK b \in Burst : /\ \A i \in DOMAIN b : RssQueue[b[i].key] = q
                           /\ burst' = [burst EXCEPT ![q] = b]
    BY <1>1 DEF Receive
  <2>2. QED
    BY <2>1 DEF OwnPackets
<1>2. CASE UNCHANGED burst
  BY <1>2 DEF OwnPackets
<1>3. CASE burst[q] # <<>> /\ burst' = [burst EXCEPT ![q] = Tail(@)]
  <2>1. \A i \in DOMAIN Tail(burst[q]) : i + 1 \in DOMAIN burst[q] /\ Tail(burst[q])[i] = burst[q][i + 1]
    BY <1>3, HeadTailProperties, LenProperties
  <2>2. QED
    BY <1>3, <2>1 DEF OwnPackets
<1>4. CASE burst' = [burst EXCEPT ![q] = <<>>]
  <2>1. DOMAIN <<>> = {}
    OBVIOUS
  <2>2. QED
    BY <1>4, <2>1 DEF OwnPackets
<1>5. ASSUME Progress(q) \/ Stop(q), ~Receive(q)
      PROVE  UNCHANGED burst
  BY <1>5 DEF Progress, Stop, EnterProgress, Idle, ReceiveError, TxComplete
<1>6. ASSUME Callback(q)
      PROVE  \/ UNCHANGED burst
             \/ burst[q] # <<>> /\ burst' = [burst EXCEPT ![q] = Tail(@)]
             \/ burst' = [burst EXCEPT ![q] = <<>>]
  <2>1. pc[q] \in PacketSteps => burst[q] # <<>>
    BY DEF PacketPending
  <2>2. CASE SkipPacket(q) \/ LookupMiss(q) \/ LookupHit(q)
    BY <2>2 DEF SkipPacket, LookupMiss, LookupHit, AfterDestroy, NextPacket, At
  <2>3. CASE DisableOffload(q) \/ DisableFails(q) \/ DeleteSession(q)
    BY <2>1, <2>3 DEF DisableOffload, DisableFails, DeleteSession, AfterDestroy, NextPacket, PacketSteps
  <2>4. CASE \/ AllocSession(q) \/ AllocFails(q)
             \/ EnableOffload(q) \/ EnableUnprocessed(q) \/ EnableFails(q)
    BY <2>4 DEF AllocSession, AllocFails, EnableOffload, EnableUnprocessed, AddFlow, EnableFails,
       Abort
  <2>5. CASE PickSlot(q) \/ InsertFails(q) \/ WriteSlot(q)
    BY <2>5 DEF PickSlot, InsertFails, WriteSlot, Abort
  <2>6. CASE MakeAck(q) \/ OptionWalkSpins(q) \/ AckFails(q)
    BY <2>1, <2>6 DEF MakeAck, OptionWalkSpins, AckFails, NextPacket, PacketSteps
  <2>7. CASE FinishBurst(q) \/ SubmitBatch(q) \/ \E fatal \in BOOLEAN : DropBatch(q, fatal)
    BY <2>7 DEF FinishBurst, SubmitBatch, DropBatch
  <2>8. QED
    BY <1>6, <2>2, <2>3, <2>4, <2>5, <2>6, <2>7 DEF Callback
<1>7. QED
  BY <1>1, <1>2, <1>3, <1>4, <1>5, <1>6

\* The packet at hand is of a connection of the thread, so that no two threads
\* work on the same connection.
LEMMA OwnConnection ==
  ASSUME StateInv, OwnPackets, NEW q \in Queues, burst[q] # <<>>
  PROVE  Pkt(q).key \in Keys /\ Pkt(q).key # NoKey /\ RssQueue[Pkt(q).key] = q
<1>1. Pkt(q).key \in Keys
  BY HeadKey
<1>2. 1 \in DOMAIN burst[q] /\ Pkt(q) = burst[q][1]
  BY HeadTailProperties, LenProperties DEF StateInv, StateOK, Pkt
<1>3. QED
  BY <1>1, <1>2, NullAssumption DEF OwnPackets
-----------------------------------------------------------------------------
(* The session table.                                                      *)

LEMMA InitTableInv == Init => TableInv
<1>1. SUFFICES ASSUME Init PROVE TableInv
  OBVIOUS
<1>2. DOMAIN <<>> = {}
  OBVIOUS
<1>3. OwnPackets
  BY <1>1, <1>2 DEF Init, OwnPackets
<1>4. (\A s \in Slots : SlotOK(s)) /\ OneSlot
  BY <1>1 DEF Init, SlotOK, OneSlot, Empty
<1>5. \A q \in Queues : Hands(q)
  BY <1>1 DEF Init, Hands, SessionSteps, TeardownSteps, SetupSteps
<1>6. QED
  BY <1>3, <1>4, <1>5 DEF TableInv

\* A thread that only touches cells that are free or of its own connections,
\* and adds only these to the table, does not disturb what the others hold.
LEMMA OthersHands ==
  ASSUME StateInv, TableInv, NEW q \in Queues, OthersStand(q),
         \A e \in Entries : heapKey[e] \in Keys /\ RssQueue[heapKey[e]] # q
                              => heapKey'[e] = heapKey[e],
         \A s \in Slots : table'[s].key \in Keys /\ RssQueue[table'[s].key] # q
                            => table'[s] = table[s]
  PROVE  \A p \in Queues \ {q} : Hands(p)'
<1>1. SUFFICES ASSUME NEW p \in Queues \ {q} PROVE Hands(p)'
  OBVIOUS
<1>2. /\ pc'[p] = pc[p] /\ sess'[p] = sess[p] /\ slot'[p] = slot[p] /\ Pkt(p)' = Pkt(p)
  BY DEF OthersStand, Pkt
<1>3. Hands(p)
  BY DEF TableInv
<1>4. CASE pc[p] \notin SessionSteps
  BY <1>2, <1>3, <1>4 DEF Hands, SessionSteps, SetupSteps
<1>5. CASE pc[p] \in SessionSteps
  <2>1. burst[p] # <<>>
    BY <1>5 DEF StateInv, PacketPending, PacketSteps, SessionSteps, TeardownSteps, SetupSteps
  <2>2. Pkt(p).key \in Keys /\ RssQueue[Pkt(p).key] # q
    BY <2>1, OwnConnection DEF TableInv
  <2>3. sess[p] \in Entries /\ heapKey'[sess[p]] = Pkt(p).key
    BY <1>3, <1>5, <2>2 DEF Hands
  <2>4. SlotsOf(Pkt(p).key)' \subseteq SlotsOf(Pkt(p).key)
    BY <1>2, <2>2 DEF SlotsOf
  <2>5. QED
    BY <1>2, <1>3, <1>5, <2>3, <2>4 DEF Hands
<1>6. QED
  BY <1>4, <1>5

\* Steps that leave the table and the heap as they are.
LEMMA TableUntouched ==
  ASSUME StateInv, TableInv, NEW q \in Queues, Progress(q) \/ Callback(q) \/ Stop(q),
         UNCHANGED <<table, heapKey>>, Hands(q)'
  PROVE  TableInv'
<1>1. OwnPackets'
  BY PacketsOfThread DEF TableInv
<1>2. \A p \in Queues \ {q} : Hands(p)'
  BY StepOfThread, OthersHands
<1>3. (\A s \in Slots : SlotOK(s))' /\ OneSlot'
  BY DEF TableInv, SlotOK, OneSlot
<1>4. QED
  BY <1>1, <1>2, <1>3 DEF TableInv

\* Before and after these steps the thread holds no session.
LEMMA NoSessionKeepsTable ==
  ASSUME StateInv, TableInv, NEW q \in Queues, Progress(q) \/ Callback(q) \/ Stop(q),
         UNCHANGED <<table, heapKey, sess>>, pc[q] \notin SessionSteps, pc'[q] \notin SessionSteps
  PROVE  TableInv'
<1>1. Hands(q)'
  BY DEF TableInv, Hands, SessionSteps, SetupSteps
<1>2. QED
  BY <1>1, TableUntouched

LEMMA ProgressKeepsTable ==
  ASSUME StateInv, TableInv, NEW q \in Queues, Progress(q) \/ Stop(q)
  PROVE  TableInv'
<1>1. /\ UNCHANGED <<table, heapKey, sess>>
      /\ pc[q] \notin SessionSteps /\ pc'[q] \notin SessionSteps
  BY DEF Progress, Stop, EnterProgress, Idle, Receive, ReceiveError, TxComplete, Goto, StateInv,
     StateOK, hashVars, offload, SessionSteps, SetupSteps, TeardownSteps
<1>2. QED
  BY <1>1, NoSessionKeepsTable

LEMMA IdleCallbackKeepsTable ==
  ASSUME StateInv, TableInv, NEW q \in Queues,
         \/ SkipPacket(q) \/ LookupMiss(q) \/ AllocFails(q)
         \/ MakeAck(q) \/ OptionWalkSpins(q) \/ AckFails(q)
         \/ FinishBurst(q) \/ SubmitBatch(q) \/ \E fatal \in BOOLEAN : DropBatch(q, fatal)
  PROVE  TableInv'
<1> USE DEF Goto, StateInv, StateOK, hashVars, offload, SessionSteps, SetupSteps, TeardownSteps
<1> DEFINE Quiet == /\ UNCHANGED <<table, heapKey, sess>>
                    /\ pc[q] \notin SessionSteps /\ pc'[q] \notin SessionSteps
<1>1. CASE SkipPacket(q) \/ LookupMiss(q)
  <2>1. Quiet
    BY <1>1 DEF SkipPacket, LookupMiss, At, AfterDestroy, NextPacket
  <2>2. QED
    BY <1>1, <2>1, NoSessionKeepsTable DEF Callback
<1>2. CASE AllocFails(q)
  <2>1. Quiet
    BY <1>2 DEF AllocFails, At, Abort
  <2>2. QED
    BY <1>2, <2>1, NoSessionKeepsTable DEF Callback
<1>3. CASE MakeAck(q) \/ OptionWalkSpins(q) \/ AckFails(q)
  <2>1. Quiet
    BY <1>3 DEF MakeAck, OptionWalkSpins, AckFails, NextPacket
  <2>2. QED
    BY <1>3, <2>1, NoSessionKeepsTable DEF Callback
<1>4. CASE FinishBurst(q) \/ SubmitBatch(q) \/ \E fatal \in BOOLEAN : DropBatch(q, fatal)
  <2>1. Quiet
    BY <1>4 DEF FinishBurst, SubmitBatch, DropBatch
  <2>2. QED
    BY <1>4, <2>1, NoSessionKeepsTable DEF Callback
<1>5. QED
  BY <1>1, <1>2, <1>3, <1>4

\* The key of a slot that is in use is not NULL.
LEMMA SlotOfKey ==
  ASSUME TableInv, NEW k \in Keys, NEW s \in SlotsOf(k)
  PROVE  /\ s \in Slots /\ table[s].key = k /\ table[s] # Empty
         /\ table[s].entry \in Entries /\ heapKey[table[s].entry] = k
         /\ \A r \in SlotsOf(k) : r = s
<1>1. s \in Slots /\ table[s].key = k /\ k # NoKey
  BY NullAssumption DEF SlotsOf
<1>2. table[s] # Empty
  BY <1>1 DEF Empty
<1>3. \A r \in SlotsOf(k) : r = s
  BY <1>1 DEF TableInv, OneSlot, SlotsOf
<1>4. QED
  BY <1>1, <1>2, <1>3 DEF TableInv, SlotOK

LEMMA LookupHitKeepsTable ==
  ASSUME StateInv, TableInv, NEW q \in Queues, LookupHit(q)
  PROVE  TableInv'
<1>1. burst[q] # <<>> /\ Pkt(q).key \in Keys
  BY OwnConnection DEF LookupHit, At, TableInv
<1>2. PICK s \in SlotsOf(Pkt(q).key) : sess' = [sess EXCEPT ![q] = table[s].entry]
  BY DEF LookupHit
<1>3. sess'[q] \in Entries /\ heapKey[sess'[q]] = Pkt(q).key
  BY <1>1, <1>2, SlotOfKey DEF StateInv, StateOK
<1>4. pc'[q] = "disable" /\ Pkt(q)' = Pkt(q) /\ UNCHANGED <<table, heapKey>>
  BY DEF LookupHit, Goto, StateInv, StateOK, Pkt, hashVars, offload
<1>5. Hands(q)'
  BY <1>3, <1>4 DEF Hands, SessionSteps, TeardownSteps
<1>6. QED
  BY <1>4, <1>5, TableUntouched DEF Callback

\* The steps that work on the flow of the session.
LEMMA FlowStepKeepsTable ==
  ASSUME StateInv, TableInv, NEW q \in Queues,
         \/ DisableOffload(q) \/ DisableFails(q)
         \/ EnableOffload(q) \/ EnableUnprocessed(q) \/ EnableFails(q)
  PROVE  TableInv'
<1>1. /\ pc[q] \in SessionSteps /\ pc'[q] \in SessionSteps \ {"write"}
      /\ Pkt(q)' = Pkt(q) /\ UNCHANGED <<table, heapKey, sess>>
  BY DEF DisableOffload, DisableFails, EnableOffload, EnableUnprocessed, AddFlow, EnableFails,
     Goto, StateInv, StateOK, Pkt, hashVars, offload, SessionSteps, TeardownSteps, SetupSteps
<1>2. Hands(q)'
  BY <1>1 DEF TableInv, Hands
<1>3. QED
  BY <1>1, <1>2, TableUntouched DEF Callback

LEMMA PickSlotKeepsTable ==
  ASSUME StateInv, TableInv, NEW q \in Queues, PickSlot(q)
  PROVE  TableInv'
<1>1. /\ pc[q] = "pick" /\ pc'[q] = "write" /\ Pkt(q)' = Pkt(q) /\ UNCHANGED <<table, heapKey, sess>>
  BY DEF PickSlot, Goto, StateInv, StateOK, Pkt, offload
<1>2. Pkt(q).key \in Keys
  BY <1>1, OwnConnection DEF TableInv, StateInv, PacketPending, PacketSteps
<1>3. PICK s \in IF SlotsOf(Pkt(q).key) # {} THEN SlotsOf(Pkt(q).key) ELSE SlotsOf(NoKey) :
             slot' = [slot EXCEPT ![q] = s]
  BY DEF PickSlot
<1>4. s \in Slots /\ SlotsOf(Pkt(q).key) \subseteq {s}
  BY <1>2, <1>3, SlotOfKey DEF SlotsOf
<1>5. slot'[q] = s
  BY <1>3 DEF StateInv, StateOK
<1>6. SlotsOf(Pkt(q).key)' = SlotsOf(Pkt(q).key)
  BY <1>1 DEF SlotsOf
<1>7. Hands(q)'
  BY <1>1, <1>4, <1>5, <1>6 DEF TableInv, Hands, SessionSteps, SetupSteps
<1>8. QED
  BY <1>1, <1>7, TableUntouched DEF Callback

LEMMA InsertFailsKeepsTable ==
  ASSUME StateInv, TableInv, NEW q \in Queues, InsertFails(q)
  PROVE  TableInv'
<1>1. pc'[q] = "poll" /\ sess'[q] = NoEntry /\ UNCHANGED <<table, heapKey>>
  BY DEF InsertFails, Abort, Goto, StateInv, StateOK, hashVars, offload
<1>2. Hands(q)'
  BY <1>1 DEF Hands, SessionSteps, TeardownSteps, SetupSteps
<1>3. QED
  BY <1>1, <1>2, TableUntouched DEF Callback

\* A new session takes a cell no slot and no thread can point to.
LEMMA AllocKeepsTable ==
  ASSUME StateInv, TableInv, NEW q \in Queues, AllocSession(q)
  PROVE  TableInv'
<1>1. burst[q] # <<>> /\ Pkt(q).key \in Keys /\ RssQueue[Pkt(q).key] = q
  BY OwnConnection DEF AllocSession, At, TableInv
<1>2. PICK e \in Entries : /\ heapKey[e] = NoKey
                           /\ heapKey' = [heapKey EXCEPT ![e] = Pkt(q).key]
                           /\ sess' = [sess EXCEPT ![q] = e]
  BY DEF AllocSession
<1>3. /\ pc'[q] = "enable" /\ Pkt(q)' = Pkt(q) /\ UNCHANGED table
      /\ heapKey'[e] = Pkt(q).key /\ \A x \in Entries \ {e} : heapKey'[x] = heapKey[x]
      /\ sess'[q] = e
  BY <1>2 DEF AllocSession, Goto, StateInv, StateOK, Pkt, hashVars
<1>4. OwnPackets'
  BY PacketsOfThread DEF TableInv, Callback
<1>5. Hands(q)'
  BY <1>3 DEF Hands, SessionSteps, SetupSteps
<1>6. \A p \in Queues \ {q} : Hands(p)'
  <2>1. OthersStand(q)
    BY StepOfThread DEF Callback
  <2>2. \A x \in Entries : heapKey[x] \in Keys => heapKey'[x] = heapKey[x]
    BY <1>2, <1>3, NullAssumption
  <2>3. QED
    BY <1>3, <2>1, <2>2, OthersHands
<1>7. (\A s \in Slots : SlotOK(s))'
  <2>1. \A s \in Slots : table[s] # Empty => table[s].entry # e
    BY <1>2, NullAssumption DEF TableInv, SlotOK
  <2>2. QED
    BY <1>3, <2>1 DEF TableInv, SlotOK, Empty
<1>8. OneSlot'
  BY <1>3 DEF TableInv, OneSlot
<1>9. QED
  BY <1>4, <1>5, <1>6, <1>7, <1>8 DEF TableInv

\* The cell that is freed was of a connection that leaves the table.
LEMMA DeleteKeepsTable ==
  ASSUME StateInv, TableInv, NEW q \in Queues, DeleteSession(q)
  PROVE  TableInv'
<1>1. pc[q] = "delete" /\ burst[q] # <<>>
  BY DEF DeleteSession, StateInv, PacketPending, PacketSteps
<1>2. Pkt(q).key \in Keys /\ RssQueue[Pkt(q).key] = q
  BY <1>1, OwnConnection DEF TableInv
<1>3. sess[q] \in Entries /\ heapKey[sess[q]] = Pkt(q).key
  BY <1>1 DEF TableInv, Hands, SessionSteps, TeardownSteps
<1>4. /\ table' = [s \in Slots |-> IF s \in SlotsOf(Pkt(q).key) THEN Empty ELSE table[s]]
      /\ heapKey' = [heapKey EXCEPT ![sess[q]] = NoKey]
  BY DEF DeleteSession
<1>5. \A e \in Entries : heapKey[e] # Pkt(q).key => heapKey'[e] = heapKey[e]
  BY <1>3, <1>4 DEF StateInv, StateOK
<1>6. \A s \in Slots : table'[s] = Empty \/ (table'[s] = table[s] /\ table[s].key # Pkt(q).key)
  BY <1>4 DEF SlotsOf
<1>7. Empty.key = NoKey
  BY DEF Empty
<1>8. OwnPackets'
  BY PacketsOfThread DEF TableInv, Callback
<1>9. Hands(q)'
  <2>1. pc'[q] \in {"ack", "scan"} /\ sess'[q] = NoEntry
    BY DEF DeleteSession, AfterDestroy, NextPacket, Goto, StateInv, StateOK
  <2>2. QED
    BY <2>1 DEF Hands, SessionSteps, TeardownSteps, SetupSteps
<1>10. \A p \in Queues \ {q} : Hands(p)'
  <2>1. OthersStand(q)
    BY StepOfThread DEF Callback
  <2>2. \A e \in Entries : heapKey[e] \in Keys /\ RssQueue[heapKey[e]] # q
                             => heapKey'[e] = heapKey[e]
    BY <1>2, <1>5
  <2>3. \A s \in Slots : table'[s].key \in Keys => table'[s] = table[s]
    BY <1>6, <1>7, NullAssumption
  <2>4. QED
    BY <2>1, <2>2, <2>3, OthersHands
<1>11. (\A s \in Slots : SlotOK(s))'
  BY <1>5, <1>6 DEF TableInv, SlotOK, Empty
<1>12. OneSlot'
  BY <1>6, <1>7 DEF TableInv, OneSlot
<1>13. QED
  BY <1>8, <1>9, <1>10, <1>11, <1>12 DEF TableInv

\* Whatever the slot holds by now: the connection was in no other one, and
\* another thread cannot have added it.
LEMMA WriteKeepsTable ==
  ASSUME StateInv, TableInv, NEW q \in Queues, WriteSlot(q)
  PROVE  TableInv'
<1>1. pc[q] = "write" /\ burst[q] # <<>>
  BY DEF WriteSlot, StateInv, PacketPending, PacketSteps
<1>2. Pkt(q).key \in Keys /\ RssQueue[Pkt(q).key] = q /\ Pkt(q).key # NoKey
  BY <1>1, OwnConnection DEF TableInv
<1>3. /\ sess[q] \in Entries /\ heapKey[sess[q]] = Pkt(q).key
      /\ slot[q] \in Slots /\ SlotsOf(Pkt(q).key) \subseteq {slot[q]}
  BY <1>1 DEF TableInv, Hands, SessionSteps, SetupSteps
<1>4. /\ table' = [table EXCEPT ![slot[q]] = [key |-> Pkt(q).key, entry |-> sess[q]]]
      /\ UNCHANGED heapKey
  BY DEF WriteSlot, offload
<1>5. /\ table'[slot[q]].key = Pkt(q).key /\ table'[slot[q]].entry = sess[q]
      /\ \A s \in Slots \ {slot[q]} : table'[s] = table[s]
  BY <1>3, <1>4 DEF StateInv, StateOK
<1>6. OwnPackets'
  BY PacketsOfThread DEF TableInv, Callback
<1>7. Hands(q)'
  <2>1. pc'[q] = "ack" /\ sess'[q] = NoEntry
    BY DEF WriteSlot, Goto, StateInv, StateOK
  <2>2. QED
    BY <2>1 DEF Hands, SessionSteps, TeardownSteps, SetupSteps
<1>8. \A p \in Queues \ {q} : Hands(p)'
  <2>1. OthersStand(q)
    BY StepOfThread DEF Callback
  <2>2. \A s \in Slots : table'[s].key \in Keys /\ RssQueue[table'[s].key] # q
                           => table'[s] = table[s]
    BY <1>2, <1>5
  <2>3. QED
    BY <1>4, <2>1, <2>2, OthersHands
<1>9. (\A s \in Slots : SlotOK(s))'
  BY <1>2, <1>3, <1>4, <1>5 DEF TableInv, SlotOK, Empty
<1>10. OneSlot'
  <2>1. \A s \in Slots : table'[s].key = Pkt(q).key => s = slot[q]
    BY <1>3, <1>5 DEF SlotsOf
  <2>2. QED
    BY <1>5, <2>1 DEF TableInv, OneSlot
<1>11. QED
  BY <1>6, <1>7, <1>8, <1>9, <1>10 DEF TableInv

LEMMA NextTableInv == StateInv /\ TableInv /\ [Next]_vars => TableInv'
<1>1. SUFFICES ASSUME StateInv, TableInv, [Next]_vars PROVE TableInv'
  OBVIOUS
<1>2. ASSUME NEW q \in Queues, Progress(q) \/ Callback(q) \/ Stop(q)
      PROVE  TableInv'
  BY <1>1, <1>2, ProgressKeepsTable, IdleCallbackKeepsTable, LookupHitKeepsTable,
     FlowStepKeepsTable, PickSlotKeepsTable, InsertFailsKeepsTable, AllocKeepsTable,
     DeleteKeepsTable, WriteKeepsTable DEF Callback
<1>3. CASE Quit \/ (\E f \in Flows : FlowSettles(f)) \/ UNCHANGED vars
  <2>1. UNCHANGED <<table, heapKey, burst, pc, sess, slot>>
    BY <1>3 DEF Quit, FlowSettles, vars, threadVars, hashVars, offload
  <2>2. QED
    BY <1>1, <2>1 DEF TableInv, OwnPackets, SlotOK, OneSlot, Hands, SlotsOf, Pkt
<1>4. QED
  BY <1>1, <1>2, <1>3 DEF Next
-----------------------------------------------------------------------------
(* The hardware flows.                                                     *)

LEMMA InitFlowInv == Init => FlowInv
BY DEF Init, FlowInv, FlowsOf, FlowsTracked

\* A thread that only touches flows and cells that are free or of its own
\* connections does not disturb what the others rely on.
LEMMA OthersFlows ==
  ASSUME StateInv, TableInv, FlowInv, NEW q \in Queues, OthersStand(q), excused \subseteq excused',
         \A e \in Entries : heapKey[e] \in Keys /\ RssQueue[heapKey[e]] # q
                              => entryFlow'[e] = entryFlow[e],
         \A f \in Flows : \/ flowKey'[f] = flowKey[f] \/ flowKey'[f] = NoKey
                          \/ flowKey'[f] \in Keys /\ RssQueue[flowKey'[f]] = q
  PROVE  \A p \in Queues \ {q} : FlowsOf(p)'
<1>1. SUFFICES ASSUME NEW p \in Queues \ {q}, pc[p] \in {"enable", "delete"}
               PROVE  FlowsOf(p)'
  BY DEF OthersStand, FlowsOf
<1>2. pc'[p] = pc[p] /\ sess'[p] = sess[p] /\ Pkt(p)' = Pkt(p)
  BY DEF OthersStand, Pkt
<1>3. FlowsOf(p) /\ Hands(p)
  BY DEF FlowInv, TableInv
<1>4. burst[p] # <<>>
  BY <1>1 DEF StateInv, PacketPending, PacketSteps
<1>5. Pkt(p).key \in Keys /\ Pkt(p).key # NoKey /\ RssQueue[Pkt(p).key] # q
  BY <1>4, OwnConnection DEF TableInv
<1>6. sess[p] \in Entries /\ entryFlow'[sess[p]] = entryFlow[sess[p]]
  BY <1>1, <1>3, <1>5 DEF Hands, SessionSteps, TeardownSteps, SetupSteps
<1>7. entryFlow[sess[p]] \in Flows \cup {NoFlow}
  BY <1>6 DEF StateInv, StateOK
<1>8. QED
  BY <1>2, <1>3, <1>5, <1>6, <1>7 DEF FlowsOf

\* Steps that leave the flows and the cells as they are.
LEMMA FlowsUntouched ==
  ASSUME StateInv, TableInv, FlowInv, NEW q \in Queues, Progress(q) \/ Callback(q) \/ Stop(q),
         UNCHANGED offload, excused \subseteq excused', pc'[q] \notin {"enable", "delete"}
  PROVE  FlowInv'
<1>1. \A p \in Queues \ {q} : FlowsOf(p)'
  BY StepOfThread, OthersFlows DEF offload
<1>2. FlowsOf(q)'
  BY DEF FlowsOf
<1>3. FlowsTracked' /\ (\A e \in Entries : heapKey[e] = NoKey => entryFlow[e] = NoFlow)'
  BY DEF FlowInv, FlowsTracked, offload
<1>4. QED
  BY <1>1, <1>2, <1>3 DEF FlowInv

LEMMA ProgressKeepsFlows ==
  ASSUME StateInv, TableInv, FlowInv, NEW q \in Queues, Progress(q) \/ Stop(q)
  PROVE  FlowInv'
<1>1. UNCHANGED <<offload, excused>> /\ pc'[q] \notin {"enable", "delete"}
  BY DEF Progress, Stop, EnterProgress, Idle, Receive, ReceiveError, TxComplete, Goto, StateInv,
     StateOK
<1>2. QED
  BY <1>1, FlowsUntouched

LEMMA CallbackKeepsFlows ==
  ASSUME StateInv, TableInv, FlowInv, NEW q \in Queues, Callback(q),
         ~DisableOffload(q), ~DisableFails(q), ~DeleteSession(q), ~AllocSession(q),
         ~EnableOffload(q), ~EnableUnprocessed(q)
  PROVE  FlowInv'
<1> USE DEF Goto, StateInv, StateOK, offload
<1> DEFINE Quiet == /\ UNCHANGED offload /\ excused \subseteq excused'
                    /\ pc'[q] \notin {"enable", "delete"}
<1>1. CASE SkipPacket(q) \/ LookupMiss(q) \/ LookupHit(q) \/ AllocFails(q)
  <2>1. Quiet
    BY <1>1 DEF SkipPacket, LookupMiss, LookupHit, AllocFails, AfterDestroy, NextPacket, Abort
  <2>2. QED
    BY <2>1, FlowsUntouched
<1>2. CASE EnableFails(q) \/ PickSlot(q) \/ InsertFails(q) \/ WriteSlot(q)
  <2>1. Quiet
    BY <1>2 DEF EnableFails, PickSlot, InsertFails, WriteSlot, Abort
  <2>2. QED
    BY <2>1, FlowsUntouched
<1>3. CASE MakeAck(q) \/ OptionWalkSpins(q) \/ AckFails(q)
  <2>1. Quiet
    BY <1>3 DEF MakeAck, OptionWalkSpins, AckFails, NextPacket
  <2>2. QED
    BY <2>1, FlowsUntouched
<1>4. CASE FinishBurst(q) \/ SubmitBatch(q) \/ \E fatal \in BOOLEAN : DropBatch(q, fatal)
  <2>1. Quiet
    BY <1>4 DEF FinishBurst, SubmitBatch, DropBatch
  <2>2. QED
    BY <2>1, FlowsUntouched
<1>5. QED
  BY <1>1, <1>2, <1>3, <1>4 DEF Callback

LEMMA DisableKeepsFlows ==
  ASSUME StateInv, TableInv, FlowInv, NEW q \in Queues, DisableOffload(q) \/ DisableFails(q)
  PROVE  FlowInv'
<1>1. /\ pc[q] = "disable" /\ pc'[q] = "delete" /\ burst[q] # <<>>
      /\ UNCHANGED <<heapKey, entryFlow, sess>> /\ Pkt(q)' = Pkt(q) /\ excused \subseteq excused'
  BY DEF DisableOffload, DisableFails, Goto, StateInv, StateOK, PacketPending, PacketSteps, Pkt,
     offload
<1>2. Pkt(q).key \in Keys /\ Pkt(q).key # NoKey
  BY <1>1, OwnConnection DEF TableInv
<1>3. sess[q] \in Entries
  BY <1>1 DEF TableInv, Hands, SessionSteps, TeardownSteps
<1>4. CASE DisableOffload(q)
  <2>1. /\ entryFlow[sess[q]] \in Flows
        /\ flowKey' = [flowKey EXCEPT ![entryFlow[sess[q]]] = NoKey]
    BY <1>3, <1>4 DEF DisableOffload, StateInv, StateOK
  <2>2. \A f \in Flows : flowKey'[f] = IF f = entryFlow[sess[q]] THEN NoKey ELSE flowKey[f]
    BY <2>1 DEF StateInv, StateOK
  <2>3. \A p \in Queues \ {q} : FlowsOf(p)'
    BY <1>1, <2>2, StepOfThread, OthersFlows DEF Callback
  <2>4. FlowsOf(q)'
    BY <1>1, <1>2, <2>1, <2>2 DEF FlowsOf
  <2>5. FlowsTracked' /\ (\A e \in Entries : heapKey[e] = NoKey => entryFlow[e] = NoFlow)'
    BY <1>1, <2>2 DEF FlowInv, FlowsTracked
  <2>6. QED
    BY <2>3, <2>4, <2>5 DEF FlowInv
<1>5. CASE DisableFails(q)
  <2>1. /\ UNCHANGED flowKey
        /\ excused' = IF entryFlow[sess[q]] = NoFlow THEN excused ELSE excused \cup {Pkt(q).key}
    BY <1>5 DEF DisableFails, offload
  <2>2. \A p \in Queues \ {q} : FlowsOf(p)'
    BY <1>1, <2>1, StepOfThread, OthersFlows DEF Callback
  <2>3. FlowsOf(q)'
    BY <1>1, <2>1 DEF FlowsOf
  <2>4. FlowsTracked' /\ (\A e \in Entries : heapKey[e] = NoKey => entryFlow[e] = NoFlow)'
    BY <1>1, <2>1 DEF FlowInv, FlowsTracked
  <2>5. QED
    BY <2>2, <2>3, <2>4 DEF FlowInv
<1>6. QED
  BY <1>4, <1>5

LEMMA AllocKeepsFlows ==
  ASSUME StateInv, TableInv, FlowInv, NEW q \in Queues, AllocSession(q)
  PROVE  FlowInv'
<1>1. PICK e \in Entries : /\ heapKey[e] = NoKey
                           /\ heapKey' = [heapKey EXCEPT ![e] = Pkt(q).key]
                           /\ sess' = [sess EXCEPT ![q] = e]
  BY DEF AllocSession
<1>2. /\ sess'[q] = e /\ UNCHANGED <<entryFlow, flowKey, excused>>
      /\ \A x \in Entries \ {e} : heapKey'[x] = heapKey[x]
  BY <1>1 DEF AllocSession, StateInv, StateOK
<1>3. entryFlow[e] = NoFlow
  BY <1>1 DEF FlowInv
<1>4. heapKey'[e] # NoKey
  <2>1. Pkt(q).key # NoKey
    BY OwnConnection DEF AllocSession, At, TableInv
  <2>2. QED
    BY <1>1, <2>1 DEF StateInv, StateOK
<1>5. pc'[q] = "enable"
  BY DEF AllocSession, Goto, StateInv, StateOK
<1>6. \A p \in Queues \ {q} : FlowsOf(p)'
  BY <1>2, StepOfThread, OthersFlows DEF Callback
<1>7. FlowsOf(q)'
  BY <1>2, <1>3, <1>5 DEF FlowsOf
<1>8. FlowsTracked'
  BY <1>2, <1>3, NullAssumption DEF FlowInv, FlowsTracked
<1>9. (\A x \in Entries : heapKey[x] = NoKey => entryFlow[x] = NoFlow)'
  BY <1>2, <1>4 DEF FlowInv
<1>10. QED
  BY <1>6, <1>7, <1>8, <1>9 DEF FlowInv

LEMMA EnableKeepsFlows ==
  ASSUME StateInv, TableInv, FlowInv, NEW q \in Queues,
         EnableOffload(q) \/ EnableUnprocessed(q)
  PROVE  FlowInv'
<1> USE DEF EnableOffload, EnableUnprocessed, AddFlow
<1>1. pc[q] = "enable" /\ burst[q] # <<>>
  BY DEF StateInv, PacketPending, PacketSteps
<1>2. Pkt(q).key \in Keys /\ Pkt(q).key # NoKey /\ RssQueue[Pkt(q).key] = q
  BY <1>1, OwnConnection DEF TableInv
<1>3. sess[q] \in Entries /\ heapKey[sess[q]] = Pkt(q).key /\ entryFlow[sess[q]] = NoFlow
  BY <1>1 DEF TableInv, Hands, SessionSteps, SetupSteps, FlowInv, FlowsOf
<1>4. PICK f \in Flows : /\ flowKey[f] = NoKey
                         /\ flowKey' = [flowKey EXCEPT ![f] = Pkt(q).key]
                         /\ entryFlow' = [entryFlow EXCEPT ![sess[q]] = f]
  OBVIOUS
<1>5. /\ flowKey'[f] = Pkt(q).key /\ \A g \in Flows \ {f} : flowKey'[g] = flowKey[g]
      /\ entryFlow'[sess[q]] = f /\ \A e \in Entries \ {sess[q]} : entryFlow'[e] = entryFlow[e]
      /\ UNCHANGED <<heapKey, excused>> /\ pc'[q] = "pick"
  BY <1>3, <1>4 DEF Goto, StateInv, StateOK
<1>6. \A p \in Queues \ {q} : FlowsOf(p)'
  <2>1. \A e \in Entries : RssQueue[heapKey[e]] # q => entryFlow'[e] = entryFlow[e]
    BY <1>2, <1>3, <1>5
  <2>2. \A g \in Flows : \/ flowKey'[g] = flowKey[g]
                         \/ flowKey'[g] \in Keys /\ RssQueue[flowKey'[g]] = q
    BY <1>2, <1>5
  <2>3. QED
    BY <1>5, <2>1, <2>2, StepOfThread, OthersFlows DEF Callback
<1>7. FlowsOf(q)'
  BY <1>5 DEF FlowsOf
<1>8. FlowsTracked'
  BY <1>3, <1>5, NullAssumption DEF FlowInv, FlowsTracked
<1>9. (\A e \in Entries : heapKey[e] = NoKey => entryFlow[e] = NoFlow)'
  BY <1>2, <1>3, <1>5 DEF FlowInv
<1>10. QED
  BY <1>6, <1>7, <1>8, <1>9 DEF FlowInv

LEMMA DeleteKeepsFlows ==
  ASSUME StateInv, TableInv, FlowInv, NEW q \in Queues, DeleteSession(q)
  PROVE  FlowInv'
<1>1. pc[q] = "delete" /\ burst[q] # <<>>
  BY DEF DeleteSession, StateInv, PacketPending, PacketSteps
<1>2. Pkt(q).key \in Keys /\ RssQueue[Pkt(q).key] = q
  BY <1>1, OwnConnection DEF TableInv
<1>3. sess[q] \in Entries /\ heapKey[sess[q]] = Pkt(q).key
  BY <1>1 DEF TableInv, Hands, SessionSteps, TeardownSteps
<1>4. /\ heapKey'[sess[q]] = NoKey /\ entryFlow'[sess[q]] = NoFlow
      /\ \A e \in Entries \ {sess[q]} : heapKey'[e] = heapKey[e] /\ entryFlow'[e] = entryFlow[e]
      /\ UNCHANGED <<flowKey, excused>>
  BY <1>3 DEF DeleteSession, StateInv, StateOK
<1>5. pc'[q] \notin {"enable", "delete"}
  BY DEF DeleteSession, AfterDestroy, NextPacket, Goto, StateInv, StateOK
<1>6. \A p \in Queues \ {q} : FlowsOf(p)'
  <2>1. \A e \in Entries : RssQueue[heapKey[e]] # q => entryFlow'[e] = entryFlow[e]
    BY <1>2, <1>3, <1>4
  <2>2. QED
    BY <1>4, <2>1, StepOfThread, OthersFlows DEF Callback
<1>7. FlowsOf(q)'
  BY <1>5 DEF FlowsOf
<1>8. FlowsTracked'
  <2>1. \A f \in Flows : entryFlow[sess[q]] = f /\ flowKey[f] = Pkt(q).key => flowKey[f] \in excused
    BY <1>1, NullAssumption DEF FlowInv, FlowsOf
  <2>2. QED
    BY <1>3, <1>4, <2>1 DEF FlowInv, FlowsTracked
<1>9. (\A e \in Entries : heapKey[e] = NoKey => entryFlow[e] = NoFlow)'
  BY <1>4 DEF FlowInv
<1>10. QED
  BY <1>6, <1>7, <1>8, <1>9 DEF FlowInv

LEMMA NextFlowInv == StateInv /\ TableInv /\ FlowInv /\ [Next]_vars => FlowInv'
<1>1. SUFFICES ASSUME StateInv, TableInv, FlowInv, [Next]_vars PROVE FlowInv'
  OBVIOUS
<1>2. ASSUME NEW q \in Queues, Progress(q) \/ Callback(q) \/ Stop(q)
      PROVE  FlowInv'
  BY <1>1, <1>2, ProgressKeepsFlows, CallbackKeepsFlows, DisableKeepsFlows, DeleteKeepsFlows,
     AllocKeepsFlows, EnableKeepsFlows
<1>3. CASE Quit \/ (\E f \in Flows : FlowSettles(f)) \/ UNCHANGED vars
  <2>1. UNCHANGED <<heapKey, entryFlow, flowKey, burst, pc, sess, excused>>
    BY <1>3 DEF Quit, FlowSettles, vars, threadVars, offload
  <2>2. QED
    BY <1>1, <2>1 DEF FlowInv, FlowsTracked, FlowsOf, Pkt
<1>4. QED
  BY <1>1, <1>2, <1>3 DEF Next
-----------------------------------------------------------------------------
(* One thread: no session is lost, and a teardown leaves nothing.          *)

LEMMA InitAloneInv == Init => AloneInv
BY DEF Init, AloneInv, SessionsTracked, Alone, TeardownSteps

\* Steps that leave the table and the heap as they are and lose no session.
LEMMA AloneUntouched ==
  ASSUME OneThread, StateInv, TableInv, AloneInv, NEW q \in Queues,
         UNCHANGED <<table, heapKey>>, excused \subseteq excused',
         \/ sess'[q] = sess[q] \/ sess[q] = NoEntry \/ heapKey[sess[q]] \in excused',
         Alone(q)'
  PROVE  AloneInv'
<1>1. SessionsTracked'
  <2>1. SUFFICES ASSUME NEW e \in Entries, heapKey[e] # NoKey
                 PROVE  \/ \E s \in Slots : table[s].entry = e
                        \/ \E p \in Queues : sess'[p] = e
                        \/ heapKey[e] \in excused'
    BY DEF SessionsTracked
  <2>2. CASE \E p \in Queues : sess[p] = e
    BY <2>2, NullAssumption DEF OneThread
  <2>3. QED
    BY <2>1, <2>2 DEF AloneInv, SessionsTracked
<1>2. \A p \in Queues : Alone(p)'
  BY DEF OneThread
<1>3. QED
  BY <1>1, <1>2 DEF AloneInv

LEMMA ProgressKeepsAlone ==
  ASSUME OneThread, StateInv, TableInv, AloneInv, NEW q \in Queues, Progress(q) \/ Stop(q)
  PROVE  AloneInv'
<1>1. /\ UNCHANGED <<table, heapKey, sess, excused>>
      /\ pc'[q] \notin SessionSteps
  BY DEF Progress, Stop, EnterProgress, Idle, Receive, ReceiveError, TxComplete, Goto, StateInv,
     StateOK, hashVars, offload, SessionSteps, SetupSteps, TeardownSteps
<1>2. Alone(q)'
  BY <1>1 DEF Alone, SessionSteps, SetupSteps
<1>3. QED
  BY <1>1, <1>2, AloneUntouched

\* The steps that touch no session, and those on the flow of one.
LEMMA CallbackKeepsAlone ==
  ASSUME OneThread, StateInv, TableInv, AloneInv, NEW q \in Queues, Callback(q),
         ~LookupHit(q), ~DisableOffload(q), ~DisableFails(q), ~DeleteSession(q), ~AllocSession(q),
         ~PickSlot(q), ~InsertFails(q), ~WriteSlot(q)
  PROVE  AloneInv'
<1> USE DEF Goto, StateInv, StateOK, hashVars, offload, TeardownSteps
<1> DEFINE Quiet == /\ UNCHANGED <<table, heapKey, sess, excused>>
                    /\ pc'[q] \notin TeardownSteps \cup {"write"}
<1>1. ASSUME SkipPacket(q) \/ LookupMiss(q) \/ AllocFails(q)
      PROVE  Quiet
  BY <1>1 DEF SkipPacket, LookupMiss, AllocFails, AfterDestroy, NextPacket, Abort
<1>2. ASSUME EnableOffload(q) \/ EnableUnprocessed(q) \/ EnableFails(q)
      PROVE  Quiet
  BY <1>2 DEF EnableOffload, EnableUnprocessed, AddFlow, EnableFails
<1>3. ASSUME MakeAck(q) \/ OptionWalkSpins(q) \/ AckFails(q)
      PROVE  Quiet
  BY <1>3 DEF MakeAck, OptionWalkSpins, AckFails, NextPacket
<1>4. ASSUME FinishBurst(q) \/ SubmitBatch(q) \/ \E fatal \in BOOLEAN : DropBatch(q, fatal)
      PROVE  Quiet
  BY <1>4 DEF FinishBurst, SubmitBatch, DropBatch
<1>5. Quiet
  BY <1>1, <1>2, <1>3, <1>4 DEF Callback
<1>6. Alone(q)'
  BY <1>5 DEF Alone
<1>7. QED
  BY <1>5, <1>6, AloneUntouched

LEMMA LookupHitKeepsAlone ==
  ASSUME OneThread, StateInv, TableInv, AloneInv, NEW q \in Queues, LookupHit(q)
  PROVE  AloneInv'
<1>1. PICK s \in SlotsOf(Pkt(q).key) : sess' = [sess EXCEPT ![q] = table[s].entry]
  BY DEF LookupHit
<1>2. /\ UNCHANGED <<table, heapKey, excused>> /\ Pkt(q)' = Pkt(q) /\ pc'[q] = "disable"
      /\ sess'[q] = table[s].entry
  BY <1>1 DEF LookupHit, Goto, Pkt, hashVars, offload, StateInv, StateOK
<1>3. sess[q] = NoEntry
  BY DEF LookupHit, At, TableInv, Hands, SessionSteps, TeardownSteps, SetupSteps
<1>4. s \in SlotsOf(Pkt(q).key)'
  BY <1>2 DEF SlotsOf
<1>5. Alone(q)'
  BY <1>2, <1>4 DEF Alone
<1>6. QED
  BY <1>2, <1>3, <1>5, AloneUntouched

LEMMA DisableKeepsAlone ==
  ASSUME OneThread, StateInv, TableInv, AloneInv, NEW q \in Queues,
         DisableOffload(q) \/ DisableFails(q)
  PROVE  AloneInv'
<1>1. /\ UNCHANGED <<table, heapKey, sess>> /\ excused \subseteq excused' /\ Pkt(q)' = Pkt(q)
      /\ pc[q] = "disable" /\ pc'[q] = "delete"
  BY DEF DisableOffload, DisableFails, Goto, Pkt, hashVars, offload, StateInv, StateOK
<1>2. SlotsOf(Pkt(q).key)' = SlotsOf(Pkt(q).key)
  BY <1>1 DEF SlotsOf
<1>3. Alone(q)'
  BY <1>1, <1>2 DEF AloneInv, Alone, TeardownSteps
<1>4. QED
  BY <1>1, <1>3, AloneUntouched

LEMMA PickSlotKeepsAlone ==
  ASSUME OneThread, StateInv, TableInv, AloneInv, NEW q \in Queues, PickSlot(q)
  PROVE  AloneInv'
<1>1. PICK s \in IF SlotsOf(Pkt(q).key) # {} THEN SlotsOf(Pkt(q).key) ELSE SlotsOf(NoKey) :
             slot' = [slot EXCEPT ![q] = s]
  BY DEF PickSlot
<1>2. /\ UNCHANGED <<table, heapKey, sess>> /\ Pkt(q)' = Pkt(q) /\ pc'[q] = "write"
      /\ slot'[q] = s
      /\ excused' = IF SlotsOf(Pkt(q).key) # {} THEN excused \cup {Pkt(q).key} ELSE excused
  BY <1>1 DEF PickSlot, Goto, Pkt, offload, StateInv, StateOK
<1>3. \/ table[s] = Empty
      \/ table[s].key = Pkt(q).key /\ Pkt(q).key \in excused'
  BY <1>1, <1>2, NullAssumption DEF SlotsOf, TableInv, SlotOK
<1>4. Alone(q)'
  BY <1>2, <1>3 DEF Alone, TeardownSteps, Empty
<1>5. QED
  BY <1>2, <1>4, AloneUntouched

LEMMA InsertFailsKeepsAlone ==
  ASSUME OneThread, StateInv, TableInv, AloneInv, NEW q \in Queues, InsertFails(q)
  PROVE  AloneInv'
<1>1. /\ pc[q] = "pick" /\ pc'[q] = "poll" /\ UNCHANGED <<table, heapKey>>
      /\ excused' = excused \cup {Pkt(q).key}
  BY DEF InsertFails, Abort, Goto, hashVars, offload, StateInv, StateOK
<1>2. heapKey[sess[q]] = Pkt(q).key
  BY <1>1 DEF TableInv, Hands, SessionSteps, SetupSteps
<1>3. Alone(q)'
  BY <1>1 DEF Alone, TeardownSteps
<1>4. QED
  BY <1>1, <1>2, <1>3, AloneUntouched

LEMMA AllocKeepsAlone ==
  ASSUME OneThread, StateInv, TableInv, AloneInv, NEW q \in Queues, AllocSession(q)
  PROVE  AloneInv'
<1>1. PICK e \in Entries : /\ heapKey[e] = NoKey
                           /\ heapKey' = [heapKey EXCEPT ![e] = Pkt(q).key]
                           /\ sess' = [sess EXCEPT ![q] = e]
  BY DEF AllocSession
<1>2. /\ sess'[q] = e /\ UNCHANGED <<table, excused>> /\ pc'[q] = "enable"
      /\ \A x \in Entries \ {e} : heapKey'[x] = heapKey[x]
  BY <1>1 DEF AllocSession, Goto, hashVars, StateInv, StateOK
<1>3. \A p \in Queues : sess[p] = NoEntry
  BY DEF AllocSession, At, TableInv, Hands, OneThread, SessionSteps, TeardownSteps, SetupSteps
<1>4. SessionsTracked'
  BY <1>2, <1>3, NullAssumption DEF AloneInv, SessionsTracked
<1>5. \A p \in Queues : Alone(p)'
  BY <1>2 DEF OneThread, Alone, TeardownSteps
<1>6. QED
  BY <1>4, <1>5 DEF AloneInv

\* All that a thread deletes: the slot of the connection, and the one cell that
\* slot points to.
LEMMA DeleteOfAlone ==
  ASSUME OneThread, StateInv, TableInv, AloneInv, NEW q \in Queues, DeleteSession(q)
  PROVE  /\ burst[q] # <<>> /\ Pkt(q).key \in Keys /\ Pkt(q).key # NoKey
         /\ sess[q] \in Entries /\ heapKey'[sess[q]] = NoKey
         /\ \A e \in Entries \ {sess[q]} : heapKey'[e] = heapKey[e]
         /\ \A s \in SlotsOf(Pkt(q).key) : table[s].entry = sess[q]
         /\ \A s \in Slots \ SlotsOf(Pkt(q).key) : table'[s] = table[s]
         /\ UNCHANGED <<flowKey, excused>>
<1>1. pc[q] = "delete" /\ burst[q] # <<>>
  BY DEF DeleteSession, StateInv, PacketPending, PacketSteps
<1>2. Pkt(q).key \in Keys /\ Pkt(q).key # NoKey
  BY <1>1, OwnConnection DEF TableInv
<1>3. sess[q] \in Entries
  BY <1>1 DEF TableInv, Hands, SessionSteps, TeardownSteps
<1>4. heapKey'[sess[q]] = NoKey /\ \A e \in Entries \ {sess[q]} : heapKey'[e] = heapKey[e]
  BY <1>3 DEF DeleteSession, StateInv, StateOK
<1>5. PICK s \in SlotsOf(Pkt(q).key) : table[s].entry = sess[q]
  BY <1>1 DEF AloneInv, Alone, TeardownSteps
<1>6. \A r \in SlotsOf(Pkt(q).key) : r = s
  BY <1>2, SlotOfKey
<1>7. /\ UNCHANGED <<flowKey, excused>>
      /\ \A r \in Slots \ SlotsOf(Pkt(q).key) : table'[r] = table[r]
  BY DEF DeleteSession
<1>8. QED
  BY <1>1, <1>2, <1>3, <1>4, <1>5, <1>6, <1>7

LEMMA DeleteKeepsAlone ==
  ASSUME OneThread, StateInv, TableInv, AloneInv, NEW q \in Queues, DeleteSession(q)
  PROVE  AloneInv'
<1>1. SessionsTracked'
  <2>1. SUFFICES ASSUME NEW e \in Entries, heapKey'[e] # NoKey
                 PROVE  \/ \E s \in Slots : table'[s].entry = e
                        \/ heapKey'[e] \in excused'
    BY DEF SessionsTracked
  <2>2. e # sess[q] /\ heapKey'[e] = heapKey[e] /\ heapKey[e] # NoKey
    BY <2>1, DeleteOfAlone
  <2>3. \A p \in Queues : sess[p] # e
    BY <2>2 DEF OneThread
  <2>4. CASE \E s \in Slots : table[s].entry = e
    BY <2>2, <2>4, DeleteOfAlone
  <2>5. QED
    BY <2>2, <2>3, <2>4, DeleteOfAlone DEF AloneInv, SessionsTracked
<1>2. pc'[q] \notin TeardownSteps \cup {"write"}
  BY DEF DeleteSession, AfterDestroy, NextPacket, Goto, StateInv, StateOK, TeardownSteps
<1>3. \A p \in Queues : Alone(p)'
  BY <1>2 DEF OneThread, Alone
<1>4. QED
  BY <1>1, <1>3 DEF AloneInv

LEMMA WriteKeepsAlone ==
  ASSUME OneThread, StateInv, TableInv, AloneInv, NEW q \in Queues, WriteSlot(q)
  PROVE  AloneInv'
<1>1. pc[q] = "write"
  BY DEF WriteSlot
<1>2. slot[q] \in Slots /\ heapKey[sess[q]] = Pkt(q).key /\ sess[q] \in Entries
  BY <1>1 DEF TableInv, Hands, SessionSteps, SetupSteps
<1>3. /\ table'[slot[q]].entry = sess[q] /\ \A s \in Slots \ {slot[q]} : table'[s] = table[s]
      /\ UNCHANGED <<heapKey, excused>> /\ pc'[q] = "ack"
  BY <1>2 DEF WriteSlot, Goto, offload, StateInv, StateOK
<1>4. \A e \in Entries : table[slot[q]].entry = e => heapKey[e] \in excused
  <2>1. table[slot[q]] = Empty \/ (table[slot[q]].key = Pkt(q).key /\ Pkt(q).key \in excused)
    BY <1>1 DEF AloneInv, Alone
  <2>2. Empty.entry \notin Entries
    BY NullAssumption DEF Empty
  <2>3. SlotOK(slot[q])
    BY <1>2 DEF TableInv
  <2>4. QED
    BY <2>1, <2>2, <2>3 DEF SlotOK
<1>5. SessionsTracked'
  <2>1. SUFFICES ASSUME NEW e \in Entries, heapKey[e] # NoKey, heapKey[e] \notin excused
                 PROVE  \E s \in Slots : table'[s].entry = e
    BY <1>3 DEF SessionsTracked
  <2>2. CASE \E p \in Queues : sess[p] = e
    BY <1>2, <1>3, <2>2 DEF OneThread
  <2>3. CASE \E s \in Slots : table[s].entry = e
    BY <1>3, <1>4, <2>1, <2>3
  <2>4. QED
    BY <2>1, <2>2, <2>3 DEF AloneInv, SessionsTracked
<1>6. \A p \in Queues : Alone(p)'
  BY <1>3 DEF OneThread, Alone, TeardownSteps
<1>7. QED
  BY <1>5, <1>6 DEF AloneInv

LEMMA NextAloneInv ==
  ASSUME OneThread, StateInv, TableInv, AloneInv, [Next]_vars
  PROVE  AloneInv'
<1>1. ASSUME NEW q \in Queues, Progress(q) \/ Callback(q) \/ Stop(q)
      PROVE  AloneInv'
  BY <1>1, ProgressKeepsAlone, CallbackKeepsAlone, LookupHitKeepsAlone, DisableKeepsAlone,
     PickSlotKeepsAlone, InsertFailsKeepsAlone, AllocKeepsAlone, DeleteKeepsAlone, WriteKeepsAlone
<1>2. CASE Quit \/ (\E f \in Flows : FlowSettles(f)) \/ UNCHANGED vars
  <2>1. UNCHANGED <<table, heapKey, burst, pc, sess, slot, excused>>
    BY <1>2 DEF Quit, FlowSettles, vars, threadVars, hashVars, offload
  <2>2. QED
    BY <2>1 DEF AloneInv, SessionsTracked, Alone, SlotsOf, Pkt
<1>3. QED
  BY <1>1, <1>2 DEF Next

LEMMA TableChanges ==
  ASSUME [Next]_vars, table' # table
  PROVE  \E q \in Queues : DeleteSession(q) \/ WriteSlot(q)
<1> USE DEF hashVars
<1>1. ASSUME NEW q \in Queues, Progress(q) \/ Stop(q)
      PROVE  UNCHANGED table
  BY <1>1 DEF Progress, Stop, EnterProgress, Idle, Receive, ReceiveError, TxComplete
<1>2. ASSUME NEW q \in Queues, Callback(q), ~DeleteSession(q), ~WriteSlot(q)
      PROVE  UNCHANGED table
  <2>1. ASSUME SkipPacket(q) \/ LookupMiss(q) \/ LookupHit(q) \/ DisableOffload(q) \/ DisableFails(q)
        PROVE  UNCHANGED table
    BY <2>1 DEF SkipPacket, LookupMiss, LookupHit, DisableOffload, DisableFails
  <2>2. ASSUME \/ AllocSession(q) \/ AllocFails(q) \/ EnableOffload(q)
               \/ EnableUnprocessed(q) \/ EnableFails(q) \/ PickSlot(q) \/ InsertFails(q)
        PROVE  UNCHANGED table
    BY <2>2 DEF AllocSession, AllocFails, EnableOffload, EnableUnprocessed, AddFlow,
                EnableFails, PickSlot, InsertFails
  <2>3. ASSUME \/ MakeAck(q) \/ OptionWalkSpins(q) \/ AckFails(q) \/ FinishBurst(q) \/ SubmitBatch(q)
               \/ \E fatal \in BOOLEAN : DropBatch(q, fatal)
        PROVE  UNCHANGED table
    BY <2>3 DEF MakeAck, OptionWalkSpins, AckFails, FinishBurst, SubmitBatch, DropBatch
  <2>4. QED
    BY <1>2, <2>1, <2>2, <2>3 DEF Callback
<1>3. ASSUME Quit \/ (\E f \in Flows : FlowSettles(f)) \/ UNCHANGED vars
      PROVE  UNCHANGED table
  BY <1>3 DEF Quit, FlowSettles, vars
<1>4. QED
  BY <1>1, <1>2, <1>3 DEF Next

\* When a connection leaves the table, its session was the only cell of the
\* connection, and its flow the only one.
LEMMA TeardownStep ==
  ASSUME OneThread, StateInv, TableInv, FlowInv, AloneInv, [Next]_vars,
         NEW k \in Keys \ excused, SlotsOf(k) # {}, SlotsOf(k)' = {}
  PROVE  TornDown(k)'
<1>1. table' # table
  BY DEF SlotsOf
<1>2. PICK q \in Queues : DeleteSession(q) \/ WriteSlot(q)
  BY <1>1, TableChanges
<1>3. CASE WriteSlot(q)
  <2>1. pc[q] = "write" /\ burst[q] # <<>>
    BY <1>3 DEF WriteSlot, StateInv, PacketPending, PacketSteps
  <2>2. slot[q] \in Slots /\ (table[slot[q]] = Empty \/ table[slot[q]].key = Pkt(q).key)
    BY <2>1 DEF TableInv, Hands, AloneInv, Alone
  <2>3. \A s \in Slots : \/ table'[s] = table[s]
                         \/ table'[s].key = Pkt(q).key /\ s = slot[q]
    BY <1>3, <2>2 DEF WriteSlot, StateInv, StateOK
  <2>4. Empty.key # k
    BY NullAssumption DEF Empty
  <2>5. \A s \in Slots : table[s].key = k => table'[s].key = k
    BY <2>2, <2>3, <2>4
  <2>6. QED
    BY <2>5 DEF SlotsOf
<1>4. CASE DeleteSession(q)
  <2>1. PICK s \in SlotsOf(k) : TRUE
    OBVIOUS
  <2>2. Pkt(q).key = k
    <3>1. s \in Slots /\ table[s].key = k /\ table'[s].key # k
      BY <2>1 DEF SlotsOf
    <3>2. s \in SlotsOf(Pkt(q).key)
      BY <1>4, <3>1, DeleteOfAlone
    <3>3. QED
      BY <3>1, <3>2 DEF SlotsOf
  <2>3. \A e \in Entries : heapKey[e] = k => e = sess[q]
    <3>1. SUFFICES ASSUME NEW e \in Entries, heapKey[e] = k PROVE e = sess[q]
      OBVIOUS
    <3>2. CASE \E r \in Slots : table[r].entry = e
      <4>1. PICK r \in Slots : table[r].entry = e
        BY <3>2
      <4>2. table[r] # Empty
        BY <4>1, NullAssumption DEF Empty
      <4>3. r \in SlotsOf(k)
        BY <3>1, <4>1, <4>2 DEF TableInv, SlotOK, SlotsOf
      <4>4. QED
        BY <1>4, <2>2, <4>1, <4>3, DeleteOfAlone
    <3>3. CASE \E p \in Queues : sess[p] = e
      BY <3>3 DEF OneThread
    <3>4. QED
      BY <3>1, <3>2, <3>3, NullAssumption DEF AloneInv, SessionsTracked
  <2>4. \A e \in Entries : heapKey'[e] # k
    BY <1>4, <2>3, NullAssumption, DeleteOfAlone
  <2>5. \A f \in Flows : flowKey'[f] # k
    <3>1. SUFFICES ASSUME NEW f \in Flows, flowKey[f] = k PROVE FALSE
      BY <1>4, DeleteOfAlone
    <3>2. entryFlow[sess[q]] = f
      BY <2>3, <3>1, NullAssumption DEF FlowInv, FlowsTracked
    <3>3. pc[q] = "delete"
      BY <1>4 DEF DeleteSession
    <3>4. QED
      BY <2>2, <3>1, <3>2, <3>3, NullAssumption DEF FlowInv, FlowsOf
  <2>6. QED
    BY <2>4, <2>5 DEF TornDown
<1>5. QED
  BY <1>2, <1>3, <1>4

-----------------------------------------------------------------------------
(* Theorems.                                                               *)

LEMMA SessionInvariants == Spec => [](StateInv /\ TableInv /\ FlowInv)
<1>1. Init => StateInv /\ TableInv /\ FlowInv
  BY InitStateInv, InitTableInv, InitFlowInv
<1>2. StateInv /\ TableInv /\ FlowInv /\ [Next]_vars => (StateInv /\ TableInv /\ FlowInv)'
  BY NextStateInv, NextTableInv, NextFlowInv
<1>3. QED
  BY <1>1, <1>2, PTL DEF Spec

LEMMA AloneInvariant == ASSUME OneThread PROVE Spec => []AloneInv
<1>1. Init => AloneInv
  BY InitAloneInv
<1>2. StateInv /\ TableInv /\ AloneInv /\ [Next]_vars => AloneInv'
  BY NextAloneInv
<1>3. QED
  BY <1>1, <1>2, SessionInvariants, PTL DEF Spec

\* However many threads share the table without a lock: what
\* rte_hash_lookup_data returns for a connection is a session that is
\* allocated and is of this connection, and no connection has two slots.
THEOREM TableIsSound == Spec => []TableSound
<1>1. TableInv => TableSound
  <2>1. SUFFICES ASSUME TableInv, NEW s \in Slots, table[s] # Empty
                 PROVE  /\ table[s].entry \in Entries
                        /\ heapKey[table[s].entry] = table[s].key
                        /\ SlotsOf(table[s].key) = {s}
    BY DEF TableSound
  <2>2. /\ table[s].key \in Keys /\ table[s].entry \in Entries
        /\ heapKey[table[s].entry] = table[s].key
    BY <2>1 DEF TableInv, SlotOK
  <2>3. s \in SlotsOf(table[s].key)
    BY DEF SlotsOf
  <2>4. QED
    BY <2>1, <2>2, <2>3, SlotOfKey
<1>2. QED
  BY <1>1, SessionInvariants, PTL

\* However many threads there are: every entry of the GPU pipe belongs to an
\* allocated session of its connection, unless a call failed whose result
\* tcp_cpu_rss_func.c ignores, or a SYN was repeated.
THEOREM FlowsAreTracked == Spec => []FlowsTracked
<1>1. FlowInv => FlowsTracked
  BY DEF FlowInv
<1>2. QED
  BY <1>1, SessionInvariants, PTL

\* With one thread no session is lost but by the failures and repeated SYNs
\* that excused records.  (With two the insertions race, see TcpSessionRace.)
THEOREM SessionsAreTracked == ASSUME OneThread PROVE Spec => []SessionsTracked
<1>1. AloneInv => SessionsTracked
  BY DEF AloneInv
<1>2. QED
  BY <1>1, AloneInvariant, PTL

\* With one thread destroy_tcp_session leaves neither a flow nor a cell of the
\* connection it deletes, unless excused says why.
THEOREM TeardownIsClean == ASSUME OneThread PROVE Spec => CleanTeardown
<1>1. StateInv /\ TableInv /\ FlowInv /\ AloneInv /\ [Next]_vars =>
        [\A k \in Keys \ excused : SlotsOf(k) # {} /\ SlotsOf(k)' = {} => TornDown(k)']_vars
  BY TeardownStep
<1>2. QED
  BY <1>1, SessionInvariants, AloneInvariant, PTL DEF Spec, CleanTeardown
=============================================================================
