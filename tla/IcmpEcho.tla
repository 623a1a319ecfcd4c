------------------------------ MODULE IcmpEcho ------------------------------
(***************************************************************************)
(* The kernel that answers pings (gpu_kernels/receive_icmp.cu).  One warp  *)
(* receives a run of packets and its lanes share it out by stride.  A lane *)
(* turns an echo request into the reply where it lies, in the slot of the  *)
(* cyclic receive buffer, and hands the slot to the Eth Txq; nobody waits  *)
(* for the transmission, while the NIC may write the next packet into the  *)
(* slot as soon as the warp has received the last one.                     *)
(*                                                                         *)
(* Packets are numbered from 0 in the order of their arrival.  Of the      *)
(* bytes a packet is its kind and its size, whether a reply carries the    *)
(* right checksum and how far a slot was ever written.                     *)
(***************************************************************************)
EXTENDS Naturals, Sequences, SequencesExt

CONSTANTS
  RingSize,   \* slots of the receive buffer (MAX_PKT_NUM_ICMP)
  SlotSize,   \* bytes of a slot (MAX_PKT_SIZE_ICMP)
  WarpSize,   \* lanes of the warp (WARP_SIZE)
  MaxRecv,    \* packets of one receive (MAX_RX_NUM_PKTS_ICMP)
  Sizes,      \* sizes of echo requests
  OtherSizes, \* sizes of the other packets
  Leftover,   \* how far a slot holds bytes that are not zero when its memory is
              \* allocated; 0 if the allocation clears it, which nobody asks for
  MaxPackets  \* bound: packets that arrive

ASSUME EchoAssumption ==
  /\ {RingSize, WarpSize, MaxRecv} \subseteq Nat \ {0}
  /\ SlotSize \in Nat /\ Sizes \cup OtherSizes \cup {Leftover} \subseteq 0..SlotSize
  /\ MaxPackets \in Nat

VARIABLES
  exit_cond,   \* the kernel is told to end
  arrived,     \* the packets that have arrived, in order
  slot,        \* per slot: the packet in it, whether it was turned into a reply
               \* and whether the checksum it then carries is right
  extent,      \* per slot: how far it may hold bytes that are not zero
  first, num,  \* out_first_pkt_idx, out_pkt_num: what the warp has received
  pc, buf_idx, \* per lane
  sendq,       \* the packets whose slots were handed to the Eth Txq
  sent,        \* history: the replies on the wire, and for which request
  overrun      \* history: packets that met in a slot still in use

warpVars == <<first, num, pc, buf_idx>>
echoVars == <<exit_cond, arrived, slot, extent, warpVars, sendq, sent, overrun>>

Lanes  == 0..WarpSize - 1
Ring   == 0..RingSize - 1
Packet == [echo : {TRUE}, size : Sizes] \cup [echo : {FALSE}, size : OtherSizes]
Numbers == 0..MaxPackets
NoPacket == MaxPackets
Content == [pkt : Numbers, reply : BOOLEAN, cksum : BOOLEAN]

EmptySlots == [s \in Ring |-> [pkt |-> NoPacket, reply |-> FALSE, cksum |-> FALSE]]

EchoTypeOK ==
  /\ exit_cond \in BOOLEAN
  /\ arrived \in Seq(Packet) /\ Len(arrived) \in Numbers
  /\ slot \in [Ring -> Content] /\ extent \in [Ring -> Sizes \cup OtherSizes \cup {Leftover}]
  /\ first \in Numbers /\ num \in 0..MaxRecv /\ first + num <= Len(arrived)
  /\ pc \in [Lanes -> {"loop", "look", "send", "sync", "exit"}]
  /\ buf_idx \in [Lanes -> Nat]
  /\ \A l \in Lanes : pc[l] \in {"look", "send"} => buf_idx[l] < num
  /\ sendq \in Seq(Numbers) /\ sent \in Seq([request : Numbers, held : Content])
  /\ overrun \subseteq Numbers

EchoInit ==
  /\ exit_cond = FALSE
  /\ arrived = <<>>
  /\ slot = EmptySlots /\ extent = [s \in Ring |-> Leftover]
  /\ first = 0 /\ num = 0
  /\ pc = [l \in Lanes |-> "loop"] /\ buf_idx = [l \in Lanes |-> 0]
  /\ sendq = <<>> /\ sent = <<>> /\ overrun = {}

-----------------------------------------------------------------------------
(* The NIC.                                                                *)

SlotOf(i) == i % RingSize

\* The packets of the received run a lane has still to look at or to submit.
Pending(l) ==
  IF pc[l] \in {"look", "send"}
  THEN {i \in first..first + num - 1 :
          (i - first) % WarpSize = l /\ i - first >= buf_idx[l]}
  ELSE {}

InUse == (UNION {Pending(l) : l \in Lanes}) \cup ToSet(sendq)

\* A packet is written into the next slot.  The slots of a run go back to the
\* NIC when the warp receives it; as long as none is free packets are lost.
Arrive(p) ==
  LET i == Len(arrived)
      old == i - RingSize
  IN  /\ i < MaxPackets /\ i < first + num + RingSize
      /\ arrived' = Append(arrived, p)
      /\ slot' = [slot EXCEPT ![SlotOf(i)] = [pkt |-> i, reply |-> FALSE, cksum |-> FALSE]]
      /\ extent' = [extent EXCEPT ![SlotOf(i)] = IF p.size > @ THEN p.size ELSE @]
      /\ overrun' = IF i >= RingSize /\ old \in InUse THEN overrun \cup {old, i} ELSE overrun
      /\ UNCHANGED <<exit_cond, warpVars, sendq, sent>>

\* The Txq works its sends off in order, each from what the slot holds by then.
Transmit ==
  /\ sendq # <<>>
  /\ sent' = Append(sent, [request |-> Head(sendq), held |-> slot[SlotOf(Head(sendq))]])
  /\ sendq' = Tail(sendq)
  /\ UNCHANGED <<exit_cond, arrived, slot, extent, warpVars, overrun>>

-----------------------------------------------------------------------------
(* The warp: its lanes receive together, work apart and meet again.        *)

All(step) == \A l \in Lanes : pc[l] = step

\* Mutant: a lane looks at its packet however many there are.
NextStepUnchecked(i, n) == "look"

NextStep(i, n) == IF i < n THEN "look" ELSE "sync"

\* Mutant: every lane starts at the first packet.
ReceiveAtZero ==
  /\ All("loop") /\ ~exit_cond
  /\ first' = first + num
  /\ \E n \in 1..MaxRecv :
       /\ first + num + n <= Len(arrived)
       /\ num' = n
       /\ buf_idx' = [l \in Lanes |-> 0]
       /\ pc' = [l \in Lanes |-> NextStep(0, n)]
  /\ UNCHANGED <<exit_cond, arrived, slot, extent, sendq, sent, overrun>>

\* The receive that times out without a packet is a stuttering step.
Receive ==
  /\ All("loop") /\ ~exit_cond
  /\ first' = first + num
  /\ \E n \in 1..MaxRecv :
       /\ first + num + n <= Len(arrived)
       /\ num' = n
       /\ buf_idx' = [l \in Lanes |-> l]
       /\ pc' = [l \in Lanes |-> NextStep(l, n)]
  /\ UNCHANGED <<exit_cond, arrived, slot, extent, sendq, sent, overrun>>

ReceiveError ==
  /\ All("loop") /\ ~exit_cond
  /\ exit_cond' = TRUE
  /\ pc' = [l \in Lanes |-> "exit"]
  /\ UNCHANGED <<arrived, slot, extent, first, num, buf_idx, sendq, sent, overrun>>

\* The warp reads the flag with one load.
Exit ==
  /\ All("loop") /\ exit_cond
  /\ pc' = [l \in Lanes |-> "exit"]
  /\ UNCHANGED <<exit_cond, arrived, slot, extent, first, num, buf_idx, sendq, sent, overrun>>

\* Mutant: the stride is one lane too long.
AdvanceTooFar(l) ==
  /\ buf_idx' = [buf_idx EXCEPT ![l] = @ + WarpSize + 1]
  /\ pc' = [pc EXCEPT ![l] = NextStep(buf_idx[l] + WarpSize + 1, num)]

Advance(l) ==
  /\ buf_idx' = [buf_idx EXCEPT ![l] = @ + WarpSize]
  /\ pc' = [pc EXCEPT ![l] = NextStep(buf_idx[l] + WarpSize, num)]

Number(l) == first + buf_idx[l]

\* What lies in the slot by now is an echo request.
AtRequest(l) ==
  LET c == slot[SlotOf(Number(l))]
  IN  arrived[c.pkt + 1].echo /\ ~c.reply

Ignore(l) ==
  /\ pc[l] = "look" /\ ~AtRequest(l)
  /\ Advance(l)
  /\ UNCHANGED <<exit_cond, arrived, slot, extent, first, num, sendq, sent, overrun>>

\* icmp_checksum is told to sum the message and 40 bytes more: the parentheses
\* of the length subtract one header and add the other.
Beyond == 40

\* The result is right if the bytes beyond the packet are of its own slot and
\* zero, nothing longer having been in the slot before, and if no odd byte is
\* left, which it would add from a half-initialised word.  Past the slot lies
\* the next one, into which the NIC writes, or the end of the buffer.
ChecksumSure(s) ==
  LET n == arrived[slot[s].pkt + 1].size
  IN  n % 2 = 0 /\ extent[s] <= n /\ n + Beyond <= SlotSize

\* The addresses are swapped, type and checksum set.
Reply(l) ==
  LET s == SlotOf(Number(l))
  IN  /\ pc[l] = "look" /\ AtRequest(l)
      /\ \E right \in BOOLEAN :
           /\ ChecksumSure(s) => right
           /\ slot' = [slot EXCEPT ![s].reply = TRUE, ![s].cksum = right]
      /\ pc' = [pc EXCEPT ![l] = "send"]
      /\ UNCHANGED <<exit_cond, arrived, extent, first, num, buf_idx, sendq, sent, overrun>>

Submit(l) ==
  /\ pc[l] = "send"
  /\ sendq' = Append(sendq, Number(l))
  /\ Advance(l)
  /\ UNCHANGED <<exit_cond, arrived, slot, extent, first, num, sent, overrun>>

SyncWarp ==
  /\ All("sync")
  /\ pc' = [l \in Lanes |-> "loop"]
  /\ UNCHANGED <<exit_cond, arrived, slot, extent, first, num, buf_idx, sendq, sent, overrun>>

\* main, or another kernel that failed, ends the kernels.
StopKernel ==
  /\ ~exit_cond
  /\ exit_cond' = TRUE
  /\ UNCHANGED <<arrived, slot, extent, warpVars, sendq, sent, overrun>>

EchoNext ==
  \/ \E p \in Packet : Arrive(p)
  \/ Transmit
  \/ Receive \/ ReceiveError \/ Exit \/ SyncWarp \/ StopKernel
  \/ \E l \in Lanes : Ignore(l) \/ Reply(l) \/ Submit(l)

EchoSpec == EchoInit /\ [][EchoNext]_echoVars
-----------------------------------------------------------------------------
(* Properties.                                                             *)

\* The checksum of the reply to packet i is left to chance: i is of odd length,
\* or fills its slot up to the last 40 bytes, or a longer packet has been in the
\* slot, or whatever was there before.
ChecksumOpen(i) ==
  \/ arrived[i + 1].size + Beyond > SlotSize
  \/ Leftover > arrived[i + 1].size
  \/ arrived[i + 1].size % 2 = 1
  \/ \E j \in 0..i : SlotOf(j) = SlotOf(i) /\ arrived[j + 1].size > arrived[i + 1].size

(* What leaves the Txq for a request is the reply to this request, with    *)
(* the right checksum, and it leaves once: unless the NIC wrote the next   *)
(* packet into the slot while it was in use, or icmp_checksum summed more  *)
(* than the packet (receive_icmp.cu:153, 75-78).                           *)
EchoAnswers ==
  \A x \in DOMAIN sent : sent[x].request \notin overrun =>
    /\ sent[x].held.pkt = sent[x].request
    /\ arrived[sent[x].request + 1].echo /\ sent[x].held.reply
    /\ sent[x].held.cksum \/ ChecksumOpen(sent[x].request)
    /\ \A y \in DOMAIN sent : sent[y].request = sent[x].request => y = x

(* Each time the warp comes together to receive, or ends, every request it *)
(* has received is answered or on its way: the strides of the lanes leave  *)
(* no packet out, however many a run has.                                  *)
EchoComplete ==
  All("loop") \/ All("exit") =>
    \A i \in 0..first + num - 1 : arrived[i + 1].echo /\ i \notin overrun =>
      i \in ToSet(sendq) \/ \E x \in DOMAIN sent : sent[x].request = i
=============================================================================
