--------------------------- MODULE IcmpEchoProofs ---------------------------
(***************************************************************************)
(* Theorems about the ICMP kernel, alone and over the life of its queue,   *)
(* for every size of the receive buffer, of the warp and of a receive, all *)
(* packet sizes and every number of packets.                               *)
(***************************************************************************)
EXTENDS IcmpQueue, SequenceTheorems, TLAPS

\* The packets that have arrived, and what lies in the slot of packet i.
Arrived   == 0..Len(arrived) - 1
Held(i)   == slot[SlotOf(i)]
Queued(i) == \E x \in DOMAIN sendq : sendq[x] = i
Sent(i)   == \E x \in DOMAIN sent : sent[x].request = i

\* A run is never longer than the buffer, and the NIC is at most one buffer
\* ahead of the runs: a slot has been overwritten once, or not at all, since
\* its packet was received.
WindowOK == num <= RingSize /\ Len(arrived) <= first + num + RingSize

\* A lane stands on a packet of its own stride.
StrideOK == \A l \in Lanes : pc[l] \in {"look", "send"} => buf_idx[l] % WarpSize = l

\* A slot holds the newest of the packets that were written into it, and is
\* dirty as far as one of them reached.
NewestHeld == \A i \in Arrived : /\ Held(i).pkt \in i..Len(arrived) - 1
                                 /\ SlotOf(Held(i).pkt) = SlotOf(i)
DirtyTo == \A s \in Ring :
  extent[s] = Leftover \/ \E j \in Arrived : SlotOf(j) = s /\ extent[s] = arrived[j + 1].size

\* When the slot of a packet in use is written again, both packets are marked.
LapsMarked == \A i \in Nat : i \in InUse /\ i + RingSize < Len(arrived) =>
                i \in overrun /\ i + RingSize \in overrun

\* A packet is worked on by a lane, queued or sent, once.
Apart ==
  /\ \A x \in DOMAIN sendq : sendq[x] < first + num /\ ~Sent(sendq[x])
  /\ \A x, y \in DOMAIN sendq : sendq[x] = sendq[y] => x = y
  /\ \A x \in DOMAIN sent : sent[x].request < first + num
  /\ \A x, y \in DOMAIN sent : sent[x].request = sent[y].request => x = y
  /\ \A l \in Lanes : \A i \in Pending(l) : ~Queued(i) /\ ~Sent(i)

\* The slot of packet i is a reply only from the time its lane has made it one.
Turning(l, i) == pc[l] = "send" /\ i = Number(l)
Untouched ==
  \A i \in Arrived : i \notin overrun /\ Held(i).pkt = i /\ Held(i).reply =>
    i < first + num /\ \A l \in Lanes : i \in Pending(l) => Turning(l, i)

\* What is on its way to the wire is a right reply.
RightReply(i, c) ==
  c.pkt = i /\ arrived[i + 1].echo /\ c.reply /\ (c.cksum \/ ChecksumOpen(i))
ReadyToSend ==
  \A i \in Arrived : i \notin overrun =>
    (Queued(i) \/ (\E l \in Lanes : Turning(l, i)) => RightReply(i, Held(i)))

\* No request of a received run is forgotten.
NoneForgotten ==
  \A i \in 0..first + num - 1 : arrived[i + 1].echo /\ i \notin overrun =>
    (\E l \in Lanes : i \in Pending(l)) \/ Queued(i) \/ Sent(i)

EchoInv == /\ EchoTypeOK /\ WindowOK /\ StrideOK /\ NewestHeld /\ DirtyTo /\ LapsMarked
           /\ Apart /\ Untouched /\ ReadyToSend /\ NoneForgotten /\ EchoAnswers
-----------------------------------------------------------------------------
(* Slots and strides: arithmetic modulo the size of the buffer or the warp. *)

LEMMA ModSmall ==
  ASSUME NEW m \in Nat \ {0}, NEW x \in 0..m - 1
  PROVE  x % m = x
OBVIOUS

LEMMA ModRange ==
  ASSUME NEW m \in Nat \ {0}, NEW x \in Nat
  PROVE  x % m \in 0..m - 1 /\ x % m <= x
OBVIOUS

LEMMA ModDef ==
  ASSUME NEW m \in Nat \ {0}, NEW x \in Nat
  PROVE  x % m = x - m * (x \div m) /\ x \div m \in Int /\ x % m \in 0..m - 1
<1>1. x % m = x - m * (x \div m)
  BY SMT
<1>2. x \div m \in Int /\ x % m \in 0..m - 1
  OBVIOUS
<1>3. QED
  BY <1>1, <1>2

LEMMA NoMultiple ==
  ASSUME NEW m \in Nat \ {0}, NEW d \in Int, m * d > -m, m * d < m
  PROVE  d = 0
<1>1. CASE d >= 1
  <2>1. m * d >= m * 1
    BY <1>1
  <2>2. QED
    BY <2>1
<1>2. CASE d <= -1
  <2>1. m * d <= m * (-1)
    BY <1>2
  <2>2. QED
    BY <2>1
<1>3. QED
  BY <1>1, <1>2

\* Two numbers whose multiples of m are less than m apart.
LEMMA SameMultiple ==
  ASSUME NEW m \in Nat \ {0}, NEW p \in Int, NEW q \in Int,
         NEW x \in Int, NEW y \in Int, NEW r \in Int, NEW s \in Int,
         r = x - m * p, s = y - m * q, y - s - (x - r) > -m, y - s - (x - r) < m
  PROVE  q = p
<1>1. m * (q - p) = m * q - m * p
  OBVIOUS
<1> DEFINE a == m * q
           b == m * p
<1>2. a \in Int /\ b \in Int /\ s = y - a /\ r = x - b /\ m * (q - p) = a - b
  BY <1>1
<1> HIDE DEF a, b
<1>3. m * (q - p) = y - s - (x - r)
  BY <1>2
<1>4. q - p = 0
  BY <1>3, NoMultiple
<1>5. QED
  BY <1>4

LEMMA ModAdd ==
  ASSUME NEW m \in Nat \ {0}, NEW x \in Nat
  PROVE  (x + m) % m = x % m
<1> DEFINE y == x + m
           p == x \div m
           q == y \div m
           s == x % m
           r == y % m
<1>1. y \in Nat /\ y = x + m
  OBVIOUS
<1> HIDE DEF y
<1>2. s = x - m * p /\ p \in Int /\ s \in 0..m - 1
  BY ModDef
<1>3. r = y - m * q /\ q \in Int /\ r \in 0..m - 1
  BY <1>1, ModDef
<1> HIDE DEF p, q, r, s
<1> DEFINE z == q - 1
<1>4. m * z = m * q - m /\ z \in Int
  BY <1>3
<1>5. r = x - m * z
  BY <1>1, <1>3, <1>4
<1> HIDE DEF z
<1>6. z = p
  BY <1>2, <1>3, <1>4, <1>5, SameMultiple
<1>7. r = s
  BY <1>2, <1>5, <1>6
<1>8. QED
  BY <1>7 DEF r, s, y

\* Two numbers less than m apart that agree modulo m are the same.
LEMMA ModClose ==
  ASSUME NEW m \in Nat \ {0}, NEW x \in Nat, NEW y \in Nat,
         x <= y, y < x + m, x % m = y % m
  PROVE  x = y
<1> DEFINE p == x \div m
           q == y \div m
           r == x % m
<1>1. p \in Int /\ q \in Int /\ r \in 0..m - 1 /\ r = x - m * p /\ r = y - m * q
  BY ModDef
<1> HIDE DEF p, q, r
<1>2. y - r - (x - r) > -m /\ y - r - (x - r) < m
  BY <1>1
<1>3. q = p
  BY <1>1, <1>2, SameMultiple
<1>4. QED
  BY <1>1, <1>3

LEMMA SlotIs ==
  ASSUME NEW i \in Nat
  PROVE  SlotOf(i) \in Ring /\ SlotOf(i + RingSize) = SlotOf(i)
BY EchoAssumption, ModRange, ModAdd DEF SlotOf, Ring

LEMMA SlotClose ==
  ASSUME NEW i \in Nat, NEW j \in Nat, i <= j, j < i + RingSize, SlotOf(i) = SlotOf(j)
  PROVE  i = j
BY EchoAssumption, ModClose DEF SlotOf
-----------------------------------------------------------------------------
(* The runs and the lanes.                                                 *)

LEMMA PendingRun ==
  ASSUME EchoTypeOK, NEW l \in Lanes, NEW i \in Pending(l)
  PROVE  /\ i \in Nat /\ i \in Arrived /\ i \in first..first + num - 1
         /\ pc[l] \in {"look", "send"} /\ (i - first) % WarpSize = l
BY DEF Pending, EchoTypeOK, Arrived, Numbers

LEMMA PendingOnce ==
  ASSUME EchoTypeOK, NEW l \in Lanes, NEW k \in Lanes, NEW i \in Pending(l), i \in Pending(k)
  PROVE  l = k
<1>1. (i - first) % WarpSize = l /\ (i - first) % WarpSize = k
  BY PendingRun
<1>2. QED
  BY <1>1

LEMMA NumberPending ==
  ASSUME EchoTypeOK, StrideOK, NEW l \in Lanes, pc[l] \in {"look", "send"}
  PROVE  Number(l) \in Pending(l) /\ Number(l) \in Nat
<1>1. buf_idx[l] \in Nat /\ buf_idx[l] < num /\ first \in Nat /\ num \in Nat
  BY DEF EchoTypeOK, Numbers
<1>2. Number(l) \in first..first + num - 1 /\ Number(l) - first = buf_idx[l]
  BY <1>1 DEF Number
<1>3. QED
  BY <1>1, <1>2 DEF Pending, StrideOK

LEMMA InUseIs ==
  \A i : i \in InUse <=> Queued(i) \/ \E l \in Lanes : i \in Pending(l)
<1> SUFFICES ASSUME NEW i
             PROVE  i \in InUse <=> Queued(i) \/ \E l \in Lanes : i \in Pending(l)
  OBVIOUS
<1> DEFINE P == UNION {Pending(l) : l \in Lanes}
           S == ToSet(sendq)
<1>1. i \in S <=> Queued(i)
  BY DEF Queued, ToSet
<1>2. i \in P <=> \E l \in Lanes : i \in Pending(l)
  OBVIOUS
<1>3. InUse = P \cup S
  BY DEF InUse
<1> HIDE DEF P, S
<1>4. i \in InUse <=> i \in P \/ i \in S
  BY <1>3
<1>5. QED
  BY <1>1, <1>2, <1>4, Zenon

LEMMA InUseNext ==
  (\A i : i \in InUse <=> Queued(i) \/ \E l \in Lanes : i \in Pending(l))'
BY InUseIs, PTL

\* A lane that goes on leaves its packet, and no other, behind.
LEMMA AdvanceLeaves ==
  ASSUME EchoTypeOK, StrideOK, NEW l \in Lanes, pc[l] \in {"look", "send"},
         Advance(l), UNCHANGED <<first, num>>
  PROVE  /\ StrideOK'
         /\ pc' \in [Lanes -> {"loop", "look", "send", "sync", "exit"}]
         /\ buf_idx' \in [Lanes -> Nat]
         /\ \A k \in Lanes : pc'[k] \in {"look", "send"} => buf_idx'[k] < num
         /\ pc'[l] # "send" /\ pc'[l] # "loop" /\ pc'[l] # "exit"
         /\ \A k \in Lanes \ {l} : pc'[k] = pc[k] /\ Number(k)' = Number(k)
         /\ \A k \in Lanes \ {l} : Pending(k)' = Pending(k)
         /\ Pending(l)' = Pending(l) \ {Number(l)}
<1> DEFINE b == buf_idx[l]
<1>1. /\ b \in Nat /\ b < num /\ first \in Nat /\ num \in Nat /\ WarpSize \in Nat \ {0}
      /\ b % WarpSize = l
  BY EchoAssumption DEF EchoTypeOK, Numbers, StrideOK
<1> HIDE DEF b
<1>2. (b + WarpSize) % WarpSize = l /\ b + WarpSize \in Nat
  <2>1. b \in Nat /\ WarpSize \in Nat \ {0}
    BY <1>1
  <2>2. (b + WarpSize) % WarpSize = b % WarpSize
    BY <2>1, ModAdd
  <2>3. QED
    BY <1>1, <2>1, <2>2
<1> USE DEF b
<1>3. /\ buf_idx' = [buf_idx EXCEPT ![l] = b + WarpSize]
      /\ pc' = [pc EXCEPT ![l] = IF b + WarpSize < num THEN "look" ELSE "sync"]
  BY DEF Advance, NextStep
<1>4. /\ pc \in [Lanes -> {"loop", "look", "send", "sync", "exit"}]
      /\ buf_idx \in [Lanes -> Nat]
      /\ \A k \in Lanes : pc[k] \in {"look", "send"} => buf_idx[k] < num
  BY DEF EchoTypeOK
<1>5. buf_idx'[l] = b + WarpSize /\ pc'[l] = IF b + WarpSize < num THEN "look" ELSE "sync"
  BY <1>3, <1>4
<1>6. \A k \in Lanes \ {l} : pc'[k] = pc[k] /\ buf_idx'[k] = buf_idx[k]
  BY <1>3, <1>4
<1>7. StrideOK'
  BY <1>2, <1>5, <1>6 DEF StrideOK
<1>8. \A k \in Lanes \ {l} : Number(k)' = Number(k) /\ Pending(k)' = Pending(k)
  BY <1>6 DEF Number, Pending
<1>9. ASSUME NEW i \in first..first + num - 1, (i - first) % WarpSize = l, i - first >= b,
             i # Number(l)
      PROVE  i - first >= b + WarpSize
  <2>1. i - first \in Nat /\ i - first # b
    BY <1>1, <1>9 DEF Number
  <2> DEFINE c == i - first
  <2>2. c \in Nat /\ c # b /\ c % WarpSize = b % WarpSize /\ c >= b
    BY <1>1, <1>9, <2>1
  <2> HIDE DEF b, c
  <2>3. c >= b + WarpSize
    <3>1. SUFFICES ASSUME c < b + WarpSize PROVE FALSE
      BY <1>1, <2>2
    <3>2. b = c
      BY <1>1, <2>2, <3>1, ModClose
    <3>3. QED
      BY <2>2, <3>2
  <2>4. QED
    BY <2>3 DEF b, c
<1>10. Pending(l)' = Pending(l) \ {Number(l)}
  <2>1. Pending(l) = {i \in first..first + num - 1 : (i - first) % WarpSize = l /\ i - first >= b}
    BY DEF Pending
  <2>2. CASE b + WarpSize < num
    <3>1. Pending(l)' = {i \in first..first + num - 1 :
                           (i - first) % WarpSize = l /\ i - first >= b + WarpSize}
      BY <1>5, <2>2 DEF Pending
    <3>2. \A i \in first..first + num - 1 : i - first >= b + WarpSize => i - first >= b /\ i # Number(l)
      BY <1>1 DEF Number
    <3>3. QED
      BY <1>9, <2>1, <3>1, <3>2
  <2>3. CASE ~(b + WarpSize < num)
    <3>1. Pending(l)' = {}
      BY <1>5, <2>3 DEF Pending
    <3>2. \A i \in first..first + num - 1 : ~(i - first >= b + WarpSize)
      BY <1>1, <2>3
    <3>3. QED
      BY <1>9, <2>1, <3>1, <3>2
  <2>4. QED
    BY <2>2, <2>3
<1>11. QED
  BY <1>1, <1>3, <1>4, <1>5, <1>6, <1>7, <1>8, <1>10
-----------------------------------------------------------------------------
(* What the invariant says of a single packet.                             *)

LEMMA SentRecord ==
  ASSUME EchoTypeOK, NEW x \in DOMAIN sent
  PROVE  sent[x] \in [request : Numbers, held : Content]
<1> DEFINE R == [request : Numbers, held : Content]
<1>1. sent \in Seq(R)
  BY DEF EchoTypeOK
<1> HIDE DEF R
<1>2. sent[x] \in R
  BY <1>1, LenProperties, ElementOfSeq
<1>3. QED
  BY <1>2 DEF R

LEMMA QueuedReceived ==
  ASSUME EchoTypeOK, Apart, NEW i, Queued(i) \/ Sent(i)
  PROVE  i \in Nat /\ i \in Arrived /\ i < first + num
<1>1. CASE Queued(i)
  <2>1. PICK x \in DOMAIN sendq : sendq[x] = i
    BY <1>1 DEF Queued
  <2>2. i \in Numbers /\ i < first + num
    BY <2>1 DEF Apart, EchoTypeOK
  <2>3. QED
    BY <2>2 DEF EchoTypeOK, Numbers, Arrived
<1>2. CASE Sent(i)
  <2>1. PICK x \in DOMAIN sent : sent[x].request = i
    BY <1>2 DEF Sent
  <2>2. sent[x] \in [request : Numbers, held : Content]
    BY <2>1, SentRecord
  <2>3. i \in Numbers /\ i < first + num
    BY <2>1, <2>2 DEF Apart
  <2>4. QED
    BY <2>3 DEF EchoTypeOK, Numbers, Arrived
<1>3. QED
  BY <1>1, <1>2

\* The slot of a packet in use holds it, unless both were marked.
LEMMA InUseHeld ==
  ASSUME EchoTypeOK, NewestHeld, LapsMarked, NEW i \in Arrived, i \in InUse, i \notin overrun
  PROVE  Held(i).pkt = i /\ Len(arrived) <= i + RingSize
<1>1. i \in Nat /\ Len(arrived) \in Nat /\ RingSize \in Nat
  BY EchoAssumption DEF Arrived, EchoTypeOK, Numbers
<1>2. Len(arrived) <= i + RingSize
  BY <1>1 DEF LapsMarked
<1> DEFINE k == Held(i).pkt
<1>3. k \in i..Len(arrived) - 1 /\ SlotOf(k) = SlotOf(i)
  BY DEF NewestHeld
<1> HIDE DEF k
<1>4. k \in Nat /\ i <= k /\ k < i + RingSize
  BY <1>1, <1>2, <1>3
<1>5. i = k
  BY <1>1, <1>3, <1>4, SlotClose
<1>6. QED
  BY <1>2, <1>5 DEF k

\* A lane that turns the packet in the slot of its own into a reply turns its
\* own packet, or one that is marked.
LEMMA NoOtherTurned ==
  ASSUME EchoTypeOK, WindowOK, NewestHeld, LapsMarked,
         NEW l \in Lanes, NEW i \in Pending(l),
         NEW j \in Arrived, j \notin overrun, Held(j).pkt = j, SlotOf(j) = SlotOf(i)
  PROVE  j = i
<1>1. /\ i \in Nat /\ j \in Nat /\ i >= first /\ first \in Nat /\ num \in Nat
      /\ Len(arrived) \in Nat /\ RingSize \in Nat \ {0} /\ i \in Arrived
  BY EchoAssumption, PendingRun DEF Arrived, EchoTypeOK, Numbers
<1>2. i <= j /\ j < Len(arrived)
  BY <1>1 DEF NewestHeld, Held, Arrived
<1>3. CASE j < i + RingSize
  BY <1>1, <1>2, <1>3, SlotClose
<1>4. CASE j >= i + RingSize
  <2>1. i \in InUse
    BY InUseIs
  <2>2. i + RingSize \in overrun /\ i + RingSize \in Nat
    BY <1>1, <1>2, <1>4, <2>1 DEF LapsMarked
  <2>3. SlotOf(i + RingSize) = SlotOf(j)
    BY <1>1, SlotIs
  <2>4. j < (i + RingSize) + RingSize
    BY <1>1, <1>2 DEF WindowOK
  <2> DEFINE k == i + RingSize
  <2>5. k \in Nat /\ k <= j /\ j < k + RingSize /\ SlotOf(k) = SlotOf(j)
    BY <1>1, <1>4, <2>3, <2>4
  <2> HIDE DEF k
  <2>6. k = j
    BY <1>1, <2>5, SlotClose
  <2>7. QED
    BY <2>2, <2>6 DEF k
<1>5. QED
  BY <1>1, <1>3, <1>4
-----------------------------------------------------------------------------
(* Every step preserves the invariant.                                     *)

LEMMA EchoInitInv == EchoInit => EchoInv
<1>1. SUFFICES ASSUME EchoInit PROVE EchoInv
  OBVIOUS
<1>2. arrived = <<>> /\ sendq = <<>> /\ sent = <<>> /\ Len(arrived) = 0
  BY <1>1 DEF EchoInit
<1>3. EchoTypeOK
  <2>1. MaxPackets \in Nat /\ Leftover \in Nat /\ MaxRecv \in Nat
    BY EchoAssumption
  <2>2. slot \in [Ring -> Content]
    BY <1>1, <2>1 DEF EchoInit, EmptySlots, Content, Numbers, NoPacket
  <2>3. extent \in [Ring -> Sizes \cup OtherSizes \cup {Leftover}]
    BY <1>1 DEF EchoInit
  <2>4. arrived \in Seq(Packet) /\ Len(arrived) \in Numbers
    BY <1>2, <2>1 DEF Numbers
  <2>5. /\ first \in Numbers /\ num \in 0..MaxRecv /\ first + num <= Len(arrived)
        /\ overrun \subseteq Numbers
    BY <1>1, <1>2, <2>1 DEF EchoInit, Numbers
  <2>9. /\ buf_idx \in [Lanes -> Nat] /\ exit_cond \in BOOLEAN
        /\ pc \in [Lanes -> {"loop", "look", "send", "sync", "exit"}]
    BY <1>1 DEF EchoInit
  <2>6. \A l \in Lanes : pc[l] = "loop"
    BY <1>1 DEF EchoInit
  <2>7. sendq \in Seq(Numbers) /\ sent \in Seq([request : Numbers, held : Content])
    BY <1>2
  <2>8. QED
    BY <2>2, <2>3, <2>4, <2>5, <2>6, <2>7, <2>9 DEF EchoTypeOK
<1>4. Arrived = {} /\ first + num = 0
  BY <1>1, <1>2 DEF EchoInit, Arrived
<1>5. \A l \in Lanes : Pending(l) = {} /\ pc[l] = "loop"
  BY <1>1 DEF EchoInit, Pending
<1>6. ~\E i : Queued(i) \/ Sent(i)
  BY <1>2 DEF Queued, Sent
<1>7. WindowOK /\ StrideOK
  BY <1>1, <1>2, <1>4, <1>5, EchoAssumption DEF EchoInit, WindowOK, StrideOK
<1>8. NewestHeld /\ DirtyTo /\ Untouched /\ ReadyToSend /\ NoneForgotten
  BY <1>1, <1>4 DEF EchoInit, NewestHeld, DirtyTo, Untouched, ReadyToSend, NoneForgotten
<1>9. LapsMarked
  BY <1>2, EchoAssumption DEF LapsMarked
<1>10. Apart /\ EchoAnswers
  BY <1>2, <1>5 DEF Apart, EchoAnswers
<1>11. QED
  BY <1>3, <1>7, <1>8, <1>9, <1>10 DEF EchoInv

\* The next packet is written over the oldest one.
LEMMA ArriveKeeps ==
  ASSUME EchoInv, NEW p \in Packet, Arrive(p)
  PROVE  EchoInv'
<1> DEFINE n == Len(arrived)
           old == n - RingSize
           new == [pkt |-> n, reply |-> FALSE, cksum |-> FALSE]
<1>1. /\ EchoTypeOK /\ WindowOK /\ StrideOK /\ NewestHeld /\ DirtyTo /\ LapsMarked /\ Apart
      /\ Untouched /\ ReadyToSend /\ NoneForgotten /\ EchoAnswers
  BY DEF EchoInv
<1>2. /\ n < MaxPackets /\ n < first + num + RingSize
      /\ arrived' = Append(arrived, p)
      /\ slot' = [slot EXCEPT ![SlotOf(n)] = new]
      /\ extent' = [extent EXCEPT ![SlotOf(n)] = IF p.size > @ THEN p.size ELSE @]
      /\ overrun' = IF n >= RingSize /\ old \in InUse THEN overrun \cup {old, n} ELSE overrun
      /\ UNCHANGED <<exit_cond, first, num, pc, buf_idx, sendq, sent>>
  BY DEF Arrive, warpVars
<1>3. /\ n \in Nat /\ RingSize \in Nat \ {0} /\ MaxPackets \in Nat
      /\ first \in Nat /\ num \in Nat /\ first + num <= n
      /\ arrived \in Seq(Packet) /\ slot \in [Ring -> Content]
      /\ extent \in [Ring -> Sizes \cup OtherSizes \cup {Leftover}]
      /\ overrun \subseteq Numbers
  BY <1>1, EchoAssumption DEF EchoTypeOK, Numbers
<1>4. /\ arrived' \in Seq(Packet) /\ Len(arrived') = n + 1
      /\ arrived'[n + 1] = p /\ \A i \in Arrived : arrived'[i + 1] = arrived[i + 1]
  BY <1>2, <1>3, AppendProperties DEF Arrived
<1>5. Arrived' = Arrived \cup {n} /\ n \notin Arrived /\ Arrived = 0..n - 1
  BY <1>3, <1>4 DEF Arrived
<1>6. /\ SlotOf(n) \in Ring /\ slot'[SlotOf(n)] = new
      /\ \A s \in Ring \ {SlotOf(n)} : slot'[s] = slot[s] /\ extent'[s] = extent[s]
      /\ \A i \in Nat : SlotOf(i) \in Ring
  BY <1>2, <1>3, SlotIs
<1>7. overrun \subseteq overrun'
  BY <1>2
<1>8. /\ \A i : Queued(i)' <=> Queued(i)
      /\ \A i : Sent(i)' <=> Sent(i)
      /\ \A l \in Lanes : Pending(l)' = Pending(l)
      /\ \A l \in Lanes, i \in Nat : Turning(l, i)' <=> Turning(l, i)
      /\ InUse' = InUse
  BY <1>2 DEF Queued, Sent, Pending, Turning, Number, InUse
<1> HIDE DEF n, old, new
<1>9. EchoTypeOK'
  <2>1. new \in Content
    BY <1>2, <1>3 DEF new, Content, Numbers
  <2>2. slot' \in [Ring -> Content]
    BY <1>2, <1>3, <2>1
  <2>3. p.size \in Sizes \cup OtherSizes
    BY DEF Packet
  <2>4. extent' \in [Ring -> Sizes \cup OtherSizes \cup {Leftover}]
    BY <1>2, <1>3, <2>3
  <2>5. overrun' \subseteq Numbers
    BY <1>2, <1>3 DEF old, Numbers
  <2>6. Len(arrived') \in Numbers /\ first + num <= Len(arrived')
    BY <1>2, <1>3, <1>4 DEF Numbers
  <2>7. QED
    BY <1>1, <1>2, <1>4, <2>2, <2>4, <2>5, <2>6 DEF EchoTypeOK
<1>10. WindowOK' /\ StrideOK' /\ Apart'
  <2>1. WindowOK'
    BY <1>1, <1>2, <1>3, <1>4 DEF WindowOK
  <2>2. StrideOK'
    BY <1>1, <1>2 DEF StrideOK
  <2>3. Apart'
    BY <1>1, <1>2, <1>8 DEF Apart
  <2>4. QED
    BY <2>1, <2>2, <2>3
<1>11. NewestHeld'
  <2>1. SUFFICES ASSUME NEW i \in Arrived'
                 PROVE  Held(i)'.pkt \in i..Len(arrived') - 1 /\ SlotOf(Held(i)'.pkt) = SlotOf(i)
    BY DEF NewestHeld, SlotOf
  <2>2. CASE SlotOf(i) = SlotOf(n)
    <3>1. Held(i)' = new
      BY <1>6, <2>2 DEF Held, SlotOf
    <3>2. QED
      BY <1>3, <1>4, <1>5, <2>1, <2>2, <3>1 DEF new
  <2>3. CASE SlotOf(i) # SlotOf(n)
    <3>1. i \in Arrived /\ i \in Nat
      BY <1>5, <2>1, <2>3
    <3>2. Held(i)' = Held(i)
      BY <1>6, <2>3, <3>1 DEF Held, SlotOf
    <3>3. QED
      BY <1>1, <1>3, <1>4, <3>1, <3>2 DEF NewestHeld, n
  <2>4. QED
    BY <2>2, <2>3
<1>12. DirtyTo'
  <2>1. SUFFICES ASSUME NEW s \in Ring
                 PROVE  extent'[s] = Leftover
                        \/ \E j \in Arrived' : SlotOf(j) = s /\ extent'[s] = arrived'[j + 1].size
    BY DEF DirtyTo, SlotOf
  <2>2. CASE extent'[s] = extent[s]
    BY <1>1, <1>4, <1>5, <2>2 DEF DirtyTo
  <2>3. CASE extent'[s] # extent[s]
    <3>1. s = SlotOf(n) /\ extent'[s] = p.size
      BY <1>2, <1>3, <1>6, <2>3
    <3>2. QED
      BY <1>4, <1>5, <3>1
  <2>4. QED
    BY <2>2, <2>3
<1>13. LapsMarked'
  <2>1. SUFFICES ASSUME NEW i \in Nat, i \in InUse, i + RingSize < Len(arrived')
                 PROVE  i \in overrun' /\ i + RingSize \in overrun'
    BY <1>8 DEF LapsMarked
  <2>2. CASE i + RingSize < n
    BY <1>1, <1>7, <2>1, <2>2 DEF LapsMarked, n
  <2>3. CASE i + RingSize = n
    BY <1>2, <1>3, <2>1, <2>3 DEF old
  <2>4. QED
    BY <1>3, <1>4, <2>1, <2>2, <2>3
<1>14. Untouched'
  <2>1. SUFFICES ASSUME NEW i \in Arrived', i \notin overrun', Held(i)'.pkt = i, Held(i)'.reply
                 PROVE  i < first + num /\ \A l \in Lanes : i \in Pending(l) => Turning(l, i)
    <3>1. \A i \in Arrived' : i \in Nat
      BY <1>3, <1>5
    <3>2. QED
      BY <1>2, <1>8, <3>1 DEF Untouched
  <2>2. SlotOf(i) # SlotOf(n)
    BY <1>6, <2>1 DEF Held, SlotOf, new
  <2>3. i \in Arrived /\ i \in Nat
    BY <1>3, <1>5, <2>1, <2>2
  <2>4. Held(i)' = Held(i)
    BY <1>6, <2>2, <2>3 DEF Held, SlotOf
  <2>5. QED
    BY <1>1, <1>7, <2>1, <2>3, <2>4 DEF Untouched
<1>15. ASSUME NEW i \in Arrived
       PROVE  (arrived[i + 1].echo <=> arrived'[i + 1].echo) /\ (ChecksumOpen(i) => ChecksumOpen(i)')
  <2>1. arrived'[i + 1] = arrived[i + 1] /\ \A j \in 0..i : arrived'[j + 1] = arrived[j + 1]
    BY <1>3, <1>4, <1>5
  <2>2. QED
    BY <2>1 DEF ChecksumOpen, SlotOf
<1>16. ReadyToSend'
  <2>1. SUFFICES ASSUME NEW i \in Arrived', i \notin overrun',
                        Queued(i) \/ \E l \in Lanes : Turning(l, i)
                 PROVE  RightReply(i, Held(i))'
    <3>1. \A i \in Arrived' : i \in Nat
      BY <1>3, <1>5
    <3>2. QED
      BY <1>8, <3>1 DEF ReadyToSend
  <2>2. i \in Arrived /\ i \in Nat /\ i \in InUse
    <3>1. CASE Queued(i)
      BY <1>1, <3>1, QueuedReceived, InUseIs
    <3>2. ASSUME NEW l \in Lanes, Turning(l, i)
          PROVE  i \in Arrived /\ i \in Nat /\ i \in InUse
      <4>1. i \in Pending(l)
        BY <1>1, <3>2, NumberPending DEF Turning
      <4>2. QED
        BY <1>1, <4>1, PendingRun, InUseIs
    <3>3. QED
      BY <2>1, <3>1, <3>2
  <2>3. SlotOf(i) # SlotOf(n)
    <3>1. SUFFICES ASSUME SlotOf(i) = SlotOf(n) PROVE FALSE
      OBVIOUS
    <3>2. i \notin overrun
      BY <1>7, <2>1
    <3>3. n <= i + RingSize /\ i < n
      BY <1>1, <1>5, <2>2, <3>2, InUseHeld DEF n
    <3>4. n = i + RingSize
      BY <1>3, <2>2, <3>1, <3>3, SlotClose
    <3>5. old = i /\ n >= RingSize
      BY <1>3, <2>2, <3>4 DEF old
    <3>6. QED
      BY <1>2, <2>1, <2>2, <3>5
  <2>4. Held(i)' = Held(i)
    BY <1>6, <2>2, <2>3 DEF Held, SlotOf
  <2>5. RightReply(i, Held(i))
    BY <1>1, <1>7, <2>1, <2>2 DEF ReadyToSend
  <2>6. QED
    BY <1>15, <2>2, <2>4, <2>5 DEF RightReply
<1>17. NoneForgotten'
  <2>1. 0..first + num - 1 \subseteq Arrived
    BY <1>3, <1>5
  <2>2. QED
    BY <1>1, <1>2, <1>7, <1>8, <1>15, <2>1 DEF NoneForgotten
<1>18. EchoAnswers'
  <2>1. \A x \in DOMAIN sent : sent[x].request \in Arrived
    BY <1>1, QueuedReceived DEF Sent
  <2>2. QED
    BY <1>1, <1>2, <1>7, <1>15, <2>1 DEF EchoAnswers
<1>19. QED
  BY <1>9, <1>10, <1>11, <1>12, <1>13, <1>14, <1>16, <1>17, <1>18 DEF EchoInv

\* The first of the queued replies goes to the wire.
LEMMA TransmitKeeps ==
  ASSUME EchoInv, Transmit
  PROVE  EchoInv'
<1> DEFINE i == Head(sendq)
           reply == [request |-> i, held |-> slot[SlotOf(i)]]
<1>1. /\ EchoTypeOK /\ WindowOK /\ StrideOK /\ NewestHeld /\ DirtyTo /\ LapsMarked /\ Apart
      /\ Untouched /\ ReadyToSend /\ NoneForgotten /\ EchoAnswers
  BY DEF EchoInv
<1>2. /\ sendq # <<>> /\ sent' = Append(sent, reply) /\ sendq' = Tail(sendq)
      /\ UNCHANGED <<exit_cond, arrived, slot, extent, first, num, pc, buf_idx, overrun>>
  BY DEF Transmit, warpVars
<1>3. /\ sendq \in Seq(Numbers) /\ i \in Numbers /\ Len(sendq) \in Nat \ {0}
      /\ sendq' \in Seq(Numbers) /\ Len(sendq') = Len(sendq) - 1
      /\ \A x \in 1..Len(sendq') : sendq'[x] = sendq[x + 1]
      /\ DOMAIN sendq = 1..Len(sendq) /\ DOMAIN sendq' = 1..Len(sendq')
      /\ sendq[1] = i
  <2>1. sendq \in Seq(Numbers)
    BY <1>1 DEF EchoTypeOK
  <2>2. Len(sendq) \in Nat \ {0}
    BY <1>2, <2>1, EmptySeq
  <2>3. QED
    BY <1>2, <2>1, <2>2, HeadTailProperties, LenProperties
<1>4. reply \in [request : Numbers, held : Content]
  <2>1. i \in Nat
    BY <1>3 DEF Numbers
  <2>2. slot[SlotOf(i)] \in Content
    BY <1>1, <2>1, SlotIs DEF EchoTypeOK
  <2>3. QED
    BY <1>3, <2>2
<1>5. /\ sent' \in Seq([request : Numbers, held : Content])
      /\ DOMAIN sent' = 1..Len(sent) + 1 /\ DOMAIN sent = 1..Len(sent) /\ Len(sent) \in Nat
      /\ sent'[Len(sent) + 1] = reply
      /\ \A x \in DOMAIN sent : sent'[x] = sent[x]
  <2> DEFINE R == [request : Numbers, held : Content]
  <2>1. sent \in Seq(R) /\ reply \in R
    BY <1>1, <1>4 DEF EchoTypeOK
  <2> HIDE DEF R, reply
  <2>2. sent' \in Seq(R) /\ Len(sent') = Len(sent) + 1 /\ sent'[Len(sent) + 1] = reply
        /\ \A x \in 1..Len(sent) : sent'[x] = sent[x]
    BY <1>2, <2>1, AppendProperties
  <2>3. QED
    BY <2>1, <2>2, LenProperties DEF R
<1>6. Queued(i) /\ i \in Nat /\ i \in Arrived /\ i < first + num /\ ~Sent(i)
      /\ \A l \in Lanes : i \notin Pending(l)
  <2>1. 1 \in DOMAIN sendq
    BY <1>3
  <2>2. Queued(i)
    BY <1>3, <2>1 DEF Queued
  <2>3. QED
    BY <1>1, <1>3, <2>1, <2>2, QueuedReceived DEF Apart
<1>7. \A j : Queued(j)' => Queued(j) /\ j # i
  <2>1. ASSUME NEW x \in DOMAIN sendq'
        PROVE  x + 1 \in DOMAIN sendq /\ sendq'[x] = sendq[x + 1] /\ sendq'[x] # i
    <3>1. x + 1 \in DOMAIN sendq /\ 1 \in DOMAIN sendq /\ x + 1 # 1 /\ sendq'[x] = sendq[x + 1]
      BY <1>3
    <3>2. QED
      BY <1>1, <1>3, <3>1 DEF Apart
  <2>2. QED
    BY <2>1 DEF Queued
<1>8. \A j : Queued(j) /\ j # i => Queued(j)'
  <2>1. ASSUME NEW x \in DOMAIN sendq, sendq[x] # i
        PROVE  x - 1 \in DOMAIN sendq' /\ sendq'[x - 1] = sendq[x]
    <3>1. x \in 2..Len(sendq)
      BY <1>3, <2>1
    <3>2. x - 1 \in 1..Len(sendq') /\ (x - 1) + 1 = x
      BY <1>3, <3>1
    <3>3. QED
      BY <1>3, <3>2
  <2>2. QED
    BY <2>1 DEF Queued
<1>9. \A j : Sent(j)' <=> Sent(j) \/ j = i
  <2>1. Len(sent) + 1 \in DOMAIN sent' /\ \A x \in DOMAIN sent' : x \in DOMAIN sent \/ x = Len(sent) + 1
    BY <1>5
  <2>2. \A x \in DOMAIN sent : x \in DOMAIN sent'
    BY <1>5
  <2>3. QED
    BY <1>5, <2>1, <2>2 DEF Sent
<1>10. /\ \A l \in Lanes : Pending(l)' = Pending(l)
       /\ \A l \in Lanes, j \in Nat : Turning(l, j)' <=> Turning(l, j)
       /\ \A j \in Nat : Held(j)' = Held(j) /\ (ChecksumOpen(j)' <=> ChecksumOpen(j))
       /\ Arrived' = Arrived
  BY <1>2 DEF Pending, Turning, Number, Held, SlotOf, ChecksumOpen, Arrived
<1>11. \A j : (j \in InUse)' => j \in InUse
  <2>1. \A j : (j \in InUse)' <=> Queued(j)' \/ \E l \in Lanes : j \in Pending(l)'
    BY InUseNext
  <2>2. QED
    BY <1>7, <1>10, <2>1, InUseIs
<1> HIDE DEF i, reply
<1>12. EchoTypeOK'
  BY <1>1, <1>2, <1>3, <1>5 DEF EchoTypeOK
<1>13. WindowOK' /\ StrideOK' /\ NewestHeld' /\ DirtyTo'
  BY <1>1, <1>2 DEF WindowOK, StrideOK, NewestHeld, DirtyTo, Arrived, Held, SlotOf
<1>14. LapsMarked'
  BY <1>1, <1>2, <1>11 DEF LapsMarked
<1>15. Apart'
  <2>1. ASSUME NEW x \in DOMAIN sendq'
        PROVE  sendq'[x] < first + num /\ \A y \in DOMAIN sent' : sent'[y].request # sendq'[x]
    <3>1. x + 1 \in DOMAIN sendq /\ 1 \in DOMAIN sendq /\ x + 1 # 1 /\ sendq'[x] = sendq[x + 1]
      BY <1>3, <2>1
    <3>2. sendq'[x] < first + num /\ sendq'[x] # i /\ ~Sent(sendq[x + 1])
      BY <1>1, <1>3, <3>1 DEF Apart
    <3>3. QED
      BY <1>5, <3>1, <3>2 DEF Sent, reply
  <2>2. ASSUME NEW x \in DOMAIN sendq', NEW y \in DOMAIN sendq', sendq'[x] = sendq'[y]
        PROVE  x = y
    <3>1. x + 1 \in DOMAIN sendq /\ y + 1 \in DOMAIN sendq /\ sendq[x + 1] = sendq[y + 1]
          /\ x \in Nat /\ y \in Nat
      BY <1>3, <2>2
    <3>2. x + 1 = y + 1
      BY <1>1, <3>1 DEF Apart
    <3>3. QED
      BY <3>1, <3>2
  <2>3. ASSUME NEW x \in DOMAIN sent'
        PROVE  sent'[x].request < first + num
    BY <1>1, <1>5, <1>6 DEF Apart, reply
  <2>4. ASSUME NEW x \in DOMAIN sent', NEW y \in DOMAIN sent', sent'[x].request = sent'[y].request
        PROVE  x = y
    <3>1. \A z \in DOMAIN sent : sent[z].request # i
      BY <1>6 DEF Sent
    <3>2. QED
      BY <1>1, <1>5, <2>4, <3>1 DEF Apart, reply
  <2>5. ASSUME NEW l \in Lanes, NEW j \in Pending(l)'
        PROVE  ~Queued(j)' /\ ~Sent(j)'
    BY <1>1, <1>6, <1>7, <1>9, <1>10 DEF Apart
  <2>6. QED
    BY <1>2, <2>1, <2>2, <2>3, <2>4, <2>5 DEF Apart, Sent
<1>16. \A j \in Arrived : j \in Nat
  BY DEF Arrived
<1>17. Untouched'
  BY <1>1, <1>2, <1>10, <1>16 DEF Untouched
<1>18. ReadyToSend'
  BY <1>1, <1>2, <1>7, <1>10, <1>16 DEF ReadyToSend, RightReply
<1>19. NoneForgotten'
  BY <1>1, <1>2, <1>8, <1>9, <1>10 DEF NoneForgotten
<1>20. EchoAnswers'
  <2>1. SUFFICES ASSUME NEW x \in DOMAIN sent', sent'[x].request \notin overrun
                 PROVE  /\ RightReply(sent'[x].request, sent'[x].held)
                        /\ \A y \in DOMAIN sent' : sent'[y].request = sent'[x].request => y = x
    BY <1>2 DEF EchoAnswers, RightReply, ChecksumOpen, SlotOf
  <2>2. \A y \in DOMAIN sent' : sent'[y].request = sent'[x].request => y = x
    BY <1>15 DEF Apart
  <2>3. CASE x \in DOMAIN sent
    <3>1. RightReply(sent[x].request, sent[x].held) /\ sent[x].request \in Nat
      BY <1>1, <1>5, <2>1, <2>3, QueuedReceived DEF EchoAnswers, RightReply, Sent
    <3>2. QED
      BY <1>5, <2>2, <2>3, <3>1
  <2>4. CASE x \notin DOMAIN sent
    <3>1. sent'[x] = reply
      BY <1>5, <2>1, <2>4
    <3>2. RightReply(i, Held(i))
      BY <1>1, <1>6, <2>1, <3>1 DEF ReadyToSend, reply
    <3>3. QED
      BY <2>2, <3>1, <3>2 DEF reply, Held
  <2>5. QED
    BY <2>3, <2>4
<1>21. QED
  BY <1>12, <1>13, <1>14, <1>15, <1>17, <1>18, <1>19, <1>20 DEF EchoInv

\* The warp receives the next run and its lanes share it out.
LEMMA ReceiveKeeps ==
  ASSUME EchoInv, Receive
  PROVE  EchoInv'
<1>1. /\ EchoTypeOK /\ WindowOK /\ StrideOK /\ NewestHeld /\ DirtyTo /\ LapsMarked /\ Apart
      /\ Untouched /\ ReadyToSend /\ NoneForgotten /\ EchoAnswers
  BY DEF EchoInv
<1>2. PICK n \in 1..MaxRecv :
        /\ first + num + n <= Len(arrived)
        /\ num' = n
        /\ buf_idx' = [l \in Lanes |-> l]
        /\ pc' = [l \in Lanes |-> NextStep(l, n)]
  BY DEF Receive
<1>3. /\ All("loop") /\ first' = first + num
      /\ UNCHANGED <<exit_cond, arrived, slot, extent, sendq, sent, overrun>>
  BY DEF Receive
<1>4. /\ MaxRecv \in Nat /\ n \in Nat /\ WarpSize \in Nat \ {0} /\ RingSize \in Nat
      /\ first \in Nat /\ num \in Nat /\ Len(arrived) \in Nat /\ Len(arrived) <= MaxPackets
      /\ MaxPackets \in Nat /\ first' \in Nat /\ num' \in Nat
  BY <1>1, <1>2, <1>3, EchoAssumption DEF EchoTypeOK, Numbers
<1>5. \A l \in Lanes : l \in Nat /\ Pending(l) = {}
  BY <1>3, <1>4 DEF Lanes, All, Pending
<1>6. \A l \in Lanes : buf_idx'[l] = l /\ pc'[l] = IF l < n THEN "look" ELSE "sync"
  BY <1>2 DEF NextStep
<1> DEFINE f == first + num
<1>21. f \in Nat /\ first' = f /\ num' = n /\ n \in Nat
  BY <1>2, <1>3, <1>4
<1> HIDE DEF f
<1>7. \A l \in Lanes : \A i \in Pending(l)' : i \in Nat /\ i >= f
  <2>1. SUFFICES ASSUME NEW l \in Lanes, NEW i \in Pending(l)'
                 PROVE  i \in Nat /\ i >= f
    OBVIOUS
  <2>2. i \in first'..first' + num' - 1
    BY <2>1 DEF Pending
  <2>3. QED
    BY <1>21, <2>2
<1>8. ASSUME NEW i \in first'..first' + num' - 1
      PROVE  \E l \in Lanes : i \in Pending(l)'
  <2> DEFINE x == i - first'
  <2>1. x \in Nat /\ x < n
    BY <1>8, <1>21
  <2> HIDE DEF x
  <2>2. PICK l \in Lanes : l = x % WarpSize /\ l <= x
    BY <1>4, <2>1, ModRange DEF Lanes
  <2>3. l \in Nat /\ l < n
    BY <1>4, <2>1, <2>2 DEF Lanes
  <2>4. pc'[l] = "look" /\ buf_idx'[l] = l
    BY <1>6, <2>3
  <2>5. (i - first') % WarpSize = l /\ i - first' >= buf_idx'[l]
    BY <2>2, <2>4 DEF x
  <2>6. i \in Pending(l)'
    BY <1>8, <2>4, <2>5 DEF Pending
  <2>7. QED
    BY <2>6
<1>9. /\ \A i : Queued(i)' <=> Queued(i)
      /\ \A i : Sent(i)' <=> Sent(i)
      /\ \A l \in Lanes, i \in Nat : ~Turning(l, i)'
      /\ \A i \in Nat : Held(i)' = Held(i) /\ (ChecksumOpen(i)' <=> ChecksumOpen(i))
      /\ Arrived' = Arrived /\ \A i \in Arrived : i \in Nat
  <2>1. \A l \in Lanes : pc'[l] # "send"
    BY <1>6
  <2>2. QED
    BY <1>3, <2>1 DEF Queued, Sent, Turning, Held, SlotOf, ChecksumOpen, Arrived
<1>10. EchoTypeOK'
  <2>1. first' \in Numbers /\ num' \in 0..MaxRecv /\ first' + num' <= Len(arrived')
    BY <1>2, <1>3, <1>4 DEF Numbers
  <2>2. /\ pc' \in [Lanes -> {"loop", "look", "send", "sync", "exit"}]
        /\ buf_idx' \in [Lanes -> Nat]
    BY <1>2, <1>5 DEF NextStep
  <2>3. \A l \in Lanes : pc'[l] \in {"look", "send"} => buf_idx'[l] < num'
    BY <1>2, <1>6
  <2>4. QED
    BY <1>1, <1>3, <2>1, <2>2, <2>3 DEF EchoTypeOK
<1>11. WindowOK'
  BY <1>1, <1>2, <1>3, <1>4 DEF WindowOK
<1>12. StrideOK'
  BY <1>4, <1>6, ModSmall DEF StrideOK, Lanes
<1>13. NewestHeld' /\ DirtyTo'
  BY <1>1, <1>3 DEF NewestHeld, DirtyTo, Arrived, Held, SlotOf
<1>14. LapsMarked'
  <2>1. SUFFICES ASSUME NEW i \in Nat, (i \in InUse)', i + RingSize < Len(arrived)
                 PROVE  i \in overrun /\ i + RingSize \in overrun
    BY <1>3 DEF LapsMarked
  <2>2. CASE Queued(i)
    BY <1>1, <2>1, <2>2, InUseIs DEF LapsMarked
  <2>3. ASSUME NEW l \in Lanes, i \in Pending(l)'
        PROVE  FALSE
    BY <1>1, <1>4, <1>7, <2>1, <2>3 DEF WindowOK, f
  <2>4. QED
    BY <1>9, <2>1, <2>2, <2>3, InUseNext
<1>15. Apart'
  <2>1. \A l \in Lanes : \A i \in Pending(l)' : ~Queued(i) /\ ~Sent(i)
    BY <1>1, <1>4, <1>7, QueuedReceived DEF f
  <2>2. \A x \in DOMAIN sent : sent[x].request \in Nat /\ sent[x].request < first + num
    BY <1>1, QueuedReceived DEF Sent
  <2>3. \A x \in DOMAIN sendq : sendq[x] \in Nat /\ sendq[x] < first + num
    BY <1>1, QueuedReceived DEF Queued
  <2>4. \A i \in Nat : i < first + num => i < first' + num'
    BY <1>21 DEF f
  <2>5. QED
    BY <1>1, <1>3, <1>9, <2>1, <2>2, <2>3, <2>4 DEF Apart, Sent
<1>16. Untouched'
  <2>1. SUFFICES ASSUME NEW i \in Arrived, i \notin overrun, Held(i).pkt = i, Held(i).reply
                 PROVE  i < first' + num' /\ \A l \in Lanes : i \notin Pending(l)'
    BY <1>3, <1>9 DEF Untouched
  <2>2. i < first + num
    BY <1>1, <2>1 DEF Untouched
  <2>3. QED
    BY <1>7, <1>9, <1>21, <2>1, <2>2 DEF f
<1>17. ReadyToSend'
  BY <1>1, <1>3, <1>9 DEF ReadyToSend, RightReply
<1>18. NoneForgotten'
  <2>1. SUFFICES ASSUME NEW i \in 0..first' + num' - 1, arrived[i + 1].echo, i \notin overrun,
                        ~\E l \in Lanes : i \in Pending(l)'
                 PROVE  Queued(i) \/ Sent(i)
    BY <1>3, <1>9 DEF NoneForgotten
  <2>2. i \in 0..first + num - 1
    <3>1. i \notin first'..first' + num' - 1
      BY <1>8, <2>1
    <3>2. i \in Nat /\ i < f
      BY <1>21, <2>1, <3>1
    <3>3. QED
      BY <1>4, <3>2 DEF f
  <2>3. QED
    BY <1>1, <1>5, <2>1, <2>2 DEF NoneForgotten
<1>19. EchoAnswers'
  BY <1>1, <1>3 DEF EchoAnswers, ChecksumOpen, SlotOf
<1>20. QED
  BY <1>10, <1>11, <1>12, <1>13, <1>14, <1>15, <1>16, <1>17, <1>18, <1>19 DEF EchoInv

\* The warp ends, meets at the barrier or is told to end.
LEMMA IdleKeeps ==
  ASSUME EchoInv, ReceiveError \/ Exit \/ SyncWarp \/ StopKernel \/ UNCHANGED echoVars
  PROVE  EchoInv'
<1>1. /\ EchoTypeOK /\ WindowOK /\ StrideOK /\ NewestHeld /\ DirtyTo /\ LapsMarked /\ Apart
      /\ Untouched /\ ReadyToSend /\ NoneForgotten /\ EchoAnswers
  BY DEF EchoInv
<1>2. UNCHANGED <<arrived, slot, extent, first, num, buf_idx, sendq, sent, overrun>>
  BY DEF ReceiveError, Exit, SyncWarp, StopKernel, echoVars, warpVars
<1>3. \/ pc' = pc
      \/ (All("loop") \/ All("sync")) /\ (pc' = [l \in Lanes |-> "exit"] \/ pc' = [l \in Lanes |-> "loop"])
  BY DEF ReceiveError, Exit, SyncWarp, StopKernel, echoVars, warpVars
<1>4. \A l \in Lanes : pc'[l] \in {"look", "send"} \/ pc[l] \in {"look", "send"} => pc'[l] = pc[l]
  BY <1>3 DEF All
<1>5. /\ \A i : Queued(i)' <=> Queued(i)
      /\ \A i : Sent(i)' <=> Sent(i)
      /\ \A l \in Lanes : Pending(l)' = Pending(l)
      /\ \A l \in Lanes, i \in Nat : Turning(l, i)' <=> Turning(l, i)
      /\ \A i \in Nat : Held(i)' = Held(i) /\ (ChecksumOpen(i)' <=> ChecksumOpen(i))
      /\ Arrived' = Arrived /\ \A i \in Arrived : i \in Nat
  BY <1>2, <1>4 DEF Queued, Sent, Pending, Turning, Number, Held, SlotOf, ChecksumOpen, Arrived
<1>6. EchoTypeOK'
  <2>1. pc' \in [Lanes -> {"loop", "look", "send", "sync", "exit"}]
    BY <1>1, <1>3 DEF EchoTypeOK
  <2>2. \A l \in Lanes : pc'[l] \in {"look", "send"} => buf_idx[l] < num
    BY <1>1, <1>4 DEF EchoTypeOK
  <2>3. exit_cond' \in BOOLEAN
    BY <1>1 DEF EchoTypeOK, ReceiveError, Exit, SyncWarp, StopKernel, echoVars
  <2>4. QED
    BY <1>1, <1>2, <2>1, <2>2, <2>3 DEF EchoTypeOK
<1>7. WindowOK' /\ StrideOK' /\ NewestHeld' /\ DirtyTo'
  BY <1>1, <1>2, <1>4 DEF WindowOK, StrideOK, NewestHeld, DirtyTo, Arrived, Held, SlotOf
<1>8. LapsMarked'
  <2>1. \A i : (i \in InUse)' => i \in InUse
    BY <1>5, InUseIs, InUseNext
  <2>2. QED
    BY <1>1, <1>2, <2>1 DEF LapsMarked
<1>9. Apart'
  BY <1>1, <1>2, <1>5 DEF Apart
<1>10. Untouched' /\ ReadyToSend'
  BY <1>1, <1>2, <1>5 DEF Untouched, ReadyToSend, RightReply
<1>11. NoneForgotten' /\ EchoAnswers'
  BY <1>1, <1>2, <1>5 DEF NoneForgotten, EchoAnswers, ChecksumOpen, SlotOf
<1>12. QED
  BY <1>6, <1>7, <1>8, <1>9, <1>10, <1>11 DEF EchoInv

\* A lane passes by what is not a request, and forgets none by it.
LEMMA IgnoreKeeps ==
  ASSUME EchoInv, NEW l \in Lanes, Ignore(l)
  PROVE  EchoInv'
<1> DEFINE i == Number(l)
<1>1. /\ EchoTypeOK /\ WindowOK /\ StrideOK /\ NewestHeld /\ DirtyTo /\ LapsMarked /\ Apart
      /\ Untouched /\ ReadyToSend /\ NoneForgotten /\ EchoAnswers
  BY DEF EchoInv
<1>2. /\ pc[l] = "look" /\ ~AtRequest(l) /\ Advance(l)
      /\ UNCHANGED <<exit_cond, arrived, slot, extent, first, num, sendq, sent, overrun>>
  BY DEF Ignore
<1>3. /\ StrideOK'
      /\ pc' \in [Lanes -> {"loop", "look", "send", "sync", "exit"}]
      /\ buf_idx' \in [Lanes -> Nat]
      /\ \A k \in Lanes : pc'[k] \in {"look", "send"} => buf_idx'[k] < num
      /\ pc'[l] # "send"
      /\ \A k \in Lanes \ {l} : pc'[k] = pc[k] /\ Number(k)' = Number(k)
      /\ \A k \in Lanes \ {l} : Pending(k)' = Pending(k)
      /\ Pending(l)' = Pending(l) \ {i}
  BY <1>1, <1>2, AdvanceLeaves
<1>4. i \in Pending(l) /\ i \in Nat /\ i \in Arrived
  BY <1>1, <1>2, NumberPending, PendingRun
<1>5. /\ \A j : Queued(j)' <=> Queued(j)
      /\ \A j : Sent(j)' <=> Sent(j)
      /\ \A k \in Lanes, j \in Nat : Turning(k, j)' <=> Turning(k, j)
      /\ \A j \in Nat : Held(j)' = Held(j) /\ (ChecksumOpen(j)' <=> ChecksumOpen(j))
      /\ Arrived' = Arrived /\ \A j \in Arrived : j \in Nat
  <2>1. \A k \in Lanes, j \in Nat : Turning(k, j)' <=> Turning(k, j)
    BY <1>2, <1>3 DEF Turning
  <2>2. QED
    BY <1>2, <2>1 DEF Queued, Sent, Held, SlotOf, ChecksumOpen, Arrived
<1> HIDE DEF i
<1>6. EchoTypeOK'
  BY <1>1, <1>2, <1>3 DEF EchoTypeOK
<1>7. WindowOK' /\ NewestHeld' /\ DirtyTo'
  BY <1>1, <1>2 DEF WindowOK, NewestHeld, DirtyTo, Arrived, Held, SlotOf
<1>8. LapsMarked'
  <2>1. \A j : (j \in InUse)' => j \in InUse
    BY <1>3, <1>5, InUseIs, InUseNext
  <2>2. QED
    BY <1>1, <1>2, <2>1 DEF LapsMarked
<1>9. Apart'
  BY <1>1, <1>2, <1>3, <1>5 DEF Apart
<1>10. Untouched'
  <2>1. SUFFICES ASSUME NEW j \in Arrived, j \notin overrun, Held(j).pkt = j, Held(j).reply
                 PROVE  j < first + num /\ \A k \in Lanes : j \in Pending(k)' => Turning(k, j)
    BY <1>2, <1>5 DEF Untouched
  <2>2. j < first + num /\ \A k \in Lanes : j \in Pending(k) => Turning(k, j)
    BY <1>1, <2>1 DEF Untouched
  <2>3. QED
    BY <1>3, <2>2
<1>11. ReadyToSend'
  BY <1>1, <1>2, <1>5 DEF ReadyToSend, RightReply
<1>12. NoneForgotten'
  <2>1. SUFFICES ASSUME NEW j \in 0..first + num - 1, arrived[j + 1].echo, j \notin overrun,
                        ~Queued(j), ~Sent(j)
                 PROVE  \E k \in Lanes : j \in Pending(k)'
    BY <1>2, <1>5 DEF NoneForgotten
  <2>2. PICK k \in Lanes : j \in Pending(k)
    BY <1>1, <2>1 DEF NoneForgotten
  <2>3. j # i
    <3>1. SUFFICES ASSUME j = i PROVE FALSE
      OBVIOUS
    <3>2. Held(i).pkt = i
      BY <1>1, <1>4, <2>1, <3>1, InUseHeld, InUseIs
    <3>3. Held(i).reply
      BY <1>2, <2>1, <3>1, <3>2 DEF AtRequest, Held, i
    <3>4. Turning(l, i)
      BY <1>1, <1>4, <2>1, <3>1, <3>2, <3>3 DEF Untouched
    <3>5. QED
      BY <1>2, <3>4 DEF Turning
  <2>4. QED
    BY <1>3, <2>2, <2>3
<1>13. EchoAnswers'
  BY <1>1, <1>2 DEF EchoAnswers, ChecksumOpen, SlotOf
<1>14. QED
  BY <1>3, <1>6, <1>7, <1>8, <1>9, <1>10, <1>11, <1>12, <1>13 DEF EchoInv

\* The checksum comes out right when nothing was left to chance.
LEMMA ChecksumIsSure ==
  ASSUME EchoTypeOK, NewestHeld, DirtyTo, NEW i \in Arrived, Held(i).pkt = i, ~ChecksumOpen(i)
  PROVE  ChecksumSure(SlotOf(i))
<1> DEFINE n == arrived[i + 1].size
           s == SlotOf(i)
<1>1. i \in Nat /\ i + 1 \in 1..Len(arrived) /\ Len(arrived) \in Nat
  BY DEF Arrived, EchoTypeOK, Numbers
<1>2. \A j \in Arrived : arrived[j + 1].size \in Nat
  <2>1. ASSUME NEW j \in Arrived
        PROVE  arrived[j + 1] \in Packet
    <3>1. j + 1 \in 1..Len(arrived) /\ arrived \in Seq(Packet)
      BY <1>1 DEF Arrived, EchoTypeOK
    <3>2. QED
      BY <3>1, ElementOfSeq
  <2>2. \A p \in Packet : p.size \in Sizes \cup OtherSizes
    BY DEF Packet
  <2>3. Sizes \cup OtherSizes \subseteq Nat
    BY EchoAssumption
  <2>4. QED
    BY <2>1, <2>2, <2>3
<1>3. n \in Nat /\ s \in Ring
  BY <1>1, <1>2, SlotIs
<1>4. n % 2 = 0
  <2>1. n % 2 # 1
    BY DEF ChecksumOpen
  <2> HIDE DEF n
  <2>2. QED
    BY <1>3, <2>1
<1>5. extent[s] <= n
  <2>1. CASE extent[s] = Leftover
    BY <1>3, <2>1, EchoAssumption DEF ChecksumOpen
  <2>2. ASSUME NEW j \in Arrived, SlotOf(j) = s, extent[s] = arrived[j + 1].size
        PROVE  extent[s] <= n
    <3>1. Held(j) = Held(i)
      BY <2>2 DEF Held
    <3>2. j \in 0..i
      BY <1>1, <3>1 DEF NewestHeld, Arrived
    <3>3. QED
      BY <1>2, <1>3, <2>2, <3>2 DEF ChecksumOpen
  <2>3. QED
    BY <1>3, <2>1, <2>2 DEF DirtyTo
<1>6. n + Beyond <= SlotSize
  BY <1>3, EchoAssumption DEF ChecksumOpen, Beyond
<1>7. QED
  BY <1>4, <1>5, <1>6 DEF ChecksumSure, Held

\* A lane turns its request into the reply; no other packet is touched by it.
LEMMA ReplyKeeps ==
  ASSUME EchoInv, NEW l \in Lanes, Reply(l)
  PROVE  EchoInv'
<1> DEFINE i == Number(l)
           s == SlotOf(i)
<1>1. /\ EchoTypeOK /\ WindowOK /\ StrideOK /\ NewestHeld /\ DirtyTo /\ LapsMarked /\ Apart
      /\ Untouched /\ ReadyToSend /\ NoneForgotten /\ EchoAnswers
  BY DEF EchoInv
<1>2. PICK right \in BOOLEAN :
        /\ ChecksumSure(s) => right
        /\ slot' = [slot EXCEPT ![s].reply = TRUE, ![s].cksum = right]
  BY DEF Reply
<1>3. /\ pc[l] = "look" /\ AtRequest(l)
      /\ pc' = [pc EXCEPT ![l] = "send"]
      /\ UNCHANGED <<exit_cond, arrived, extent, first, num, buf_idx, sendq, sent, overrun>>
  BY DEF Reply
<1>4. i \in Pending(l) /\ i \in Nat /\ i \in Arrived /\ s \in Ring
  BY <1>1, <1>3, NumberPending, PendingRun, SlotIs
<1>5. slot \in [Ring -> Content] /\ slot[s] \in Content
  BY <1>1, <1>4 DEF EchoTypeOK
<1> HIDE DEF s
<1>6. /\ slot' \in [Ring -> Content]
      /\ slot'[s].pkt = slot[s].pkt /\ slot'[s].reply = TRUE /\ slot'[s].cksum = right
      /\ \A z \in Ring \ {s} : slot'[z] = slot[z]
      /\ \A z \in Ring : slot'[z].pkt = slot[z].pkt
  BY <1>2, <1>4, <1>5 DEF Content
<1>7. pc'[l] = "send" /\ \A k \in Lanes \ {l} : pc'[k] = pc[k]
  BY <1>1, <1>3 DEF EchoTypeOK
<1>8. /\ \A j : Queued(j)' <=> Queued(j)
      /\ \A j : Sent(j)' <=> Sent(j)
      /\ \A k \in Lanes : Pending(k)' = Pending(k)
      /\ \A k \in Lanes \ {l}, j \in Nat : Turning(k, j)' <=> Turning(k, j)
      /\ \A j \in Nat : Turning(l, j)' <=> j = i
      /\ \A j \in Nat : Held(j)'.pkt = Held(j).pkt /\ (ChecksumOpen(j)' <=> ChecksumOpen(j))
      /\ Arrived' = Arrived /\ \A j \in Arrived : j \in Nat
  <2>1. \A k \in Lanes : Pending(k)' = Pending(k)
    BY <1>3, <1>7 DEF Pending
  <2>2. \A k \in Lanes \ {l}, j \in Nat : Turning(k, j)' <=> Turning(k, j)
    BY <1>3, <1>7 DEF Turning, Number
  <2>3. \A j \in Nat : Turning(l, j)' <=> j = i
    BY <1>3, <1>7 DEF Turning, Number
  <2>4. \A j \in Nat : Held(j)'.pkt = Held(j).pkt
    BY <1>6, SlotIs DEF Held, SlotOf
  <2>5. QED
    BY <1>3, <2>1, <2>2, <2>3, <2>4 DEF Queued, Sent, ChecksumOpen, SlotOf, Arrived
<1>9. ASSUME NEW j \in Arrived, j \notin overrun, Held(j).pkt = j, j # i
      PROVE  Held(j)' = Held(j)
  <2>1. SlotOf(j) # s
    BY <1>1, <1>4, <1>9, NoOtherTurned DEF s
  <2>2. QED
    BY <1>6, <1>8, <2>1, SlotIs DEF Held, SlotOf
<1> HIDE DEF i
<1>10. EchoTypeOK'
  <2>1. pc' \in [Lanes -> {"loop", "look", "send", "sync", "exit"}]
    BY <1>1, <1>3 DEF EchoTypeOK
  <2>2. \A k \in Lanes : pc'[k] \in {"look", "send"} => buf_idx[k] < num
    BY <1>1, <1>3, <1>7 DEF EchoTypeOK
  <2>3. QED
    BY <1>1, <1>3, <1>6, <2>1, <2>2 DEF EchoTypeOK
<1>11. WindowOK' /\ StrideOK'
  BY <1>1, <1>3, <1>7 DEF WindowOK, StrideOK
<1>12. NewestHeld' /\ DirtyTo'
  <2>1. NewestHeld'
    BY <1>1, <1>3, <1>8 DEF NewestHeld, SlotOf
  <2>2. DirtyTo'
    BY <1>1, <1>3, <1>8 DEF DirtyTo, SlotOf
  <2>3. QED
    BY <2>1, <2>2
<1>13. LapsMarked'
  <2>1. \A j : (j \in InUse)' => j \in InUse
    BY <1>8, InUseIs, InUseNext
  <2>2. QED
    BY <1>1, <1>3, <2>1 DEF LapsMarked
<1>14. Apart'
  BY <1>1, <1>3, <1>8 DEF Apart
<1>15. Untouched'
  <2>1. SUFFICES ASSUME NEW j \in Arrived, j \notin overrun, Held(j).pkt = j, Held(j)'.reply
                 PROVE  j < first + num /\ \A k \in Lanes : j \in Pending(k) => Turning(k, j)'
    BY <1>3, <1>8 DEF Untouched
  <2>2. CASE j = i
    <3>1. i < first + num
      BY <1>1, <1>4, PendingRun DEF EchoTypeOK, Numbers
    <3>2. \A k \in Lanes : i \in Pending(k) => k = l
      BY <1>1, <1>4, PendingOnce
    <3>3. QED
      BY <1>4, <1>8, <2>2, <3>1, <3>2
  <2>3. CASE j # i
    <3>1. Held(j)' = Held(j)
      BY <1>9, <2>1, <2>3
    <3>2. j < first + num /\ \A k \in Lanes : j \in Pending(k) => Turning(k, j)
      BY <1>1, <2>1, <3>1 DEF Untouched
    <3>3. ~Turning(l, j)
      BY <1>3 DEF Turning
    <3>4. QED
      BY <1>8, <2>1, <3>2, <3>3
  <2>4. QED
    BY <2>2, <2>3
<1>16. ReadyToSend'
  <2>1. SUFFICES ASSUME NEW j \in Arrived, j \notin overrun,
                        Queued(j) \/ \E k \in Lanes : Turning(k, j)'
                 PROVE  RightReply(j, Held(j))'
    BY <1>3, <1>8 DEF ReadyToSend
  <2>2. CASE j = i
    <3>1. Held(i).pkt = i
      BY <1>1, <1>4, <2>1, <2>2, InUseHeld, InUseIs
    <3>2. arrived[i + 1].echo
      BY <1>3, <3>1 DEF AtRequest, Held, i
    <3>3. Held(j)'.pkt = j /\ Held(j)'.reply = TRUE /\ Held(j)'.cksum = right
      BY <1>4, <1>6, <1>8, <2>2, <3>1 DEF Held, SlotOf, s
    <3>4. ~ChecksumOpen(i) => right
      BY <1>1, <1>2, <1>4, <3>1, ChecksumIsSure DEF s
    <3>5. QED
      BY <1>3, <1>4, <1>8, <2>2, <3>1, <3>2, <3>3, <3>4 DEF RightReply
  <2>3. CASE j # i
    <3>1. Queued(j) \/ \E k \in Lanes : Turning(k, j)
      BY <1>8, <2>1, <2>3
    <3>2. RightReply(j, Held(j))
      BY <1>1, <2>1, <3>1 DEF ReadyToSend
    <3>3. Held(j)' = Held(j)
      BY <1>9, <2>1, <2>3, <3>2 DEF RightReply
    <3>4. QED
      BY <1>3, <1>8, <3>2, <3>3 DEF RightReply
  <2>4. QED
    BY <2>2, <2>3
<1>17. NoneForgotten' /\ EchoAnswers'
  BY <1>1, <1>3, <1>8 DEF NoneForgotten, EchoAnswers, ChecksumOpen, SlotOf
<1>18. QED
  BY <1>10, <1>11, <1>12, <1>13, <1>14, <1>15, <1>16, <1>17 DEF EchoInv

\* A lane hands its reply to the Txq.
LEMMA SubmitKeeps ==
  ASSUME EchoInv, NEW l \in Lanes, Submit(l)
  PROVE  EchoInv'
<1> DEFINE i == Number(l)
<1>1. /\ EchoTypeOK /\ WindowOK /\ StrideOK /\ NewestHeld /\ DirtyTo /\ LapsMarked /\ Apart
      /\ Untouched /\ ReadyToSend /\ NoneForgotten /\ EchoAnswers
  BY DEF EchoInv
<1>2. /\ pc[l] = "send" /\ Advance(l) /\ sendq' = Append(sendq, i)
      /\ UNCHANGED <<exit_cond, arrived, slot, extent, first, num, sent, overrun>>
  BY DEF Submit
<1>3. /\ StrideOK'
      /\ pc' \in [Lanes -> {"loop", "look", "send", "sync", "exit"}]
      /\ buf_idx' \in [Lanes -> Nat]
      /\ \A k \in Lanes : pc'[k] \in {"look", "send"} => buf_idx'[k] < num
      /\ pc'[l] # "send"
      /\ \A k \in Lanes \ {l} : pc'[k] = pc[k] /\ Number(k)' = Number(k)
      /\ \A k \in Lanes \ {l} : Pending(k)' = Pending(k)
      /\ Pending(l)' = Pending(l) \ {i}
  BY <1>1, <1>2, AdvanceLeaves
<1>4. /\ i \in Pending(l) /\ i \in Nat /\ i \in Arrived /\ i < first + num /\ i \in Numbers
      /\ ~Queued(i) /\ ~Sent(i) /\ Turning(l, i)
  <2>1. i \in Pending(l)
    BY <1>1, <1>2, NumberPending
  <2>2. i \in first..first + num - 1 /\ i \in Arrived /\ i \in Nat
    BY <1>1, <2>1, PendingRun
  <2>3. first \in Nat /\ num \in Nat /\ Len(arrived) \in Numbers /\ MaxPackets \in Nat
    BY <1>1, EchoAssumption DEF EchoTypeOK, Numbers
  <2> HIDE DEF i
  <2>4. i < first + num /\ i \in Numbers
    BY <2>2, <2>3 DEF Arrived, Numbers
  <2>5. QED
    BY <1>1, <1>2, <2>1, <2>2, <2>4 DEF Apart, Turning, i
<1> HIDE DEF i
<1>5. /\ sendq \in Seq(Numbers) /\ Len(sendq) \in Nat /\ sendq' \in Seq(Numbers)
      /\ DOMAIN sendq = 1..Len(sendq) /\ DOMAIN sendq' = 1..Len(sendq) + 1
      /\ sendq'[Len(sendq) + 1] = i /\ \A x \in DOMAIN sendq : sendq'[x] = sendq[x]
  <2>1. sendq \in Seq(Numbers)
    BY <1>1 DEF EchoTypeOK
  <2>2. QED
    BY <1>2, <1>4, <2>1, AppendProperties, LenProperties
<1>6. \A j : Queued(j)' <=> Queued(j) \/ j = i
  <2>1. Len(sendq) + 1 \in DOMAIN sendq' /\ \A x \in DOMAIN sendq' : x \in DOMAIN sendq \/ x = Len(sendq) + 1
    BY <1>5
  <2>2. \A x \in DOMAIN sendq : x \in DOMAIN sendq'
    BY <1>5
  <2>3. QED
    BY <1>5, <2>1, <2>2 DEF Queued
<1>7. /\ \A j : Sent(j)' <=> Sent(j)
      /\ \A k \in Lanes \ {l}, j \in Nat : Turning(k, j)' <=> Turning(k, j)
      /\ \A j \in Nat : ~Turning(l, j)'
      /\ \A j \in Nat : Held(j)' = Held(j) /\ (ChecksumOpen(j)' <=> ChecksumOpen(j))
      /\ Arrived' = Arrived /\ \A j \in Arrived : j \in Nat
  <2>1. \A k \in Lanes \ {l}, j \in Nat : Turning(k, j)' <=> Turning(k, j)
    BY <1>2, <1>3 DEF Turning
  <2>2. \A j \in Nat : ~Turning(l, j)'
    BY <1>3 DEF Turning
  <2>3. QED
    BY <1>2, <2>1, <2>2 DEF Sent, Held, SlotOf, ChecksumOpen, Arrived
<1>8. EchoTypeOK'
  BY <1>1, <1>2, <1>3, <1>5 DEF EchoTypeOK
<1>9. WindowOK' /\ NewestHeld' /\ DirtyTo'
  BY <1>1, <1>2 DEF WindowOK, NewestHeld, DirtyTo, Arrived, Held, SlotOf
<1>10. LapsMarked'
  <2>1. \A j : (j \in InUse)' => j \in InUse
    BY <1>3, <1>4, <1>6, InUseIs, InUseNext
  <2>2. QED
    BY <1>1, <1>2, <2>1 DEF LapsMarked
<1>11. Apart'
  <2>1. \A x \in DOMAIN sendq : sendq[x] # i
    BY <1>4 DEF Queued
  <2>2. ASSUME NEW x \in DOMAIN sendq'
        PROVE  sendq'[x] < first + num /\ ~Sent(sendq'[x])
    BY <1>1, <1>4, <1>5 DEF Apart
  <2>3. ASSUME NEW x \in DOMAIN sendq', NEW y \in DOMAIN sendq', sendq'[x] = sendq'[y]
        PROVE  x = y
    BY <1>1, <1>5, <2>1, <2>3 DEF Apart
  <2>4. ASSUME NEW k \in Lanes, NEW j \in Pending(k)'
        PROVE  ~Queued(j)' /\ ~Sent(j)'
    <3>1. j \in Pending(k) /\ j # i
      <4>1. CASE k = l
        BY <1>3, <2>4, <4>1
      <4>2. CASE k # l
        BY <1>1, <1>3, <1>4, <2>4, <4>2, PendingOnce
      <4>3. QED
        BY <4>1, <4>2
    <3>2. QED
      BY <1>1, <1>6, <1>7, <3>1 DEF Apart
  <2>5. QED
    BY <1>1, <1>2, <2>2, <2>3, <2>4 DEF Apart, Sent
<1>12. Untouched'
  <2>1. SUFFICES ASSUME NEW j \in Arrived, j \notin overrun, Held(j).pkt = j, Held(j).reply
                 PROVE  j < first + num /\ \A k \in Lanes : j \in Pending(k)' => Turning(k, j)'
    BY <1>2, <1>7 DEF Untouched
  <2>2. j < first + num /\ \A k \in Lanes : j \in Pending(k) => Turning(k, j)
    BY <1>1, <2>1 DEF Untouched
  <2>3. Turning(l, j) => j = i
    BY DEF Turning, i
  <2>4. QED
    BY <1>3, <1>7, <2>2, <2>3
<1>13. ReadyToSend'
  <2>1. SUFFICES ASSUME NEW j \in Arrived, j \notin overrun,
                        Queued(j)' \/ \E k \in Lanes : Turning(k, j)'
                 PROVE  RightReply(j, Held(j))'
    BY <1>2, <1>7 DEF ReadyToSend
  <2>2. Queued(j) \/ \E k \in Lanes : Turning(k, j)
    BY <1>4, <1>6, <1>7, <2>1
  <2>3. RightReply(j, Held(j))
    BY <1>1, <2>1, <2>2 DEF ReadyToSend
  <2>4. QED
    BY <1>2, <1>7, <2>3 DEF RightReply
<1>14. NoneForgotten'
  <2>1. SUFFICES ASSUME NEW j \in 0..first + num - 1, arrived[j + 1].echo, j \notin overrun,
                        ~Queued(j)', ~Sent(j)
                 PROVE  \E k \in Lanes : j \in Pending(k)'
    BY <1>2, <1>7 DEF NoneForgotten
  <2>2. ~Queued(j) /\ j # i
    BY <1>6, <2>1
  <2>3. PICK k \in Lanes : j \in Pending(k)
    BY <1>1, <2>1, <2>2 DEF NoneForgotten
  <2>4. QED
    BY <1>3, <2>2, <2>3
<1>15. EchoAnswers'
  BY <1>1, <1>2 DEF EchoAnswers, ChecksumOpen, SlotOf
<1>16. QED
  BY <1>3, <1>8, <1>9, <1>10, <1>11, <1>12, <1>13, <1>14, <1>15 DEF EchoInv

LEMMA EchoStepInv == EchoInv /\ [EchoNext]_echoVars => EchoInv'
<1>1. SUFFICES ASSUME EchoInv, [EchoNext]_echoVars PROVE EchoInv'
  OBVIOUS
<1>2. CASE \E p \in Packet : Arrive(p)
  BY <1>1, <1>2, ArriveKeeps
<1>3. CASE Transmit
  BY <1>1, <1>3, TransmitKeeps
<1>4. CASE Receive
  BY <1>1, <1>4, ReceiveKeeps
<1>5. CASE ReceiveError \/ Exit \/ SyncWarp \/ StopKernel \/ UNCHANGED echoVars
  BY <1>1, <1>5, IdleKeeps
<1>6. CASE \E l \in Lanes : Ignore(l) \/ Reply(l) \/ Submit(l)
  BY <1>1, <1>6, IgnoreKeeps, ReplyKeeps, SubmitKeeps
<1>7. QED
  BY <1>1, <1>2, <1>3, <1>4, <1>5, <1>6 DEF EchoNext

LEMMA EchoInvariant == EchoSpec => []EchoInv
BY EchoInitInv, EchoStepInv, PTL DEF EchoSpec
-----------------------------------------------------------------------------
(* The kernel while its queue is created, used and destroyed.              *)

\* The kernel steps only while the queue is up; afterwards its buffers are
\* gone, and with them what the invariant speaks of.
LEMMA LifeStepInv == EchoInv /\ [IcmpNext]_<<vars, echoVars>> => EchoInv'
<1>1. SUFFICES ASSUME EchoInv, [IcmpNext]_<<vars, echoVars>> PROVE EchoInv'
  OBVIOUS
<1>2. (EchoInit => EchoInv)'
  BY EchoInitInv, PTL
<1>3. CASE EchoForgotten
  <2>1. EchoInit'
    BY <1>3 DEF EchoForgotten, EchoInit, EmptySlots, Ring, Lanes, NoPacket
  <2>2. QED
    BY <1>2, <2>1
<1>4. CASE EchoNext \/ UNCHANGED echoVars
  BY <1>1, <1>4, EchoStepInv
<1>5. QED
  BY <1>1, <1>3, <1>4 DEF IcmpNext, QueueStep, KernelStep

LEMMA LifeInvariant == IcmpSpec => []EchoInv
<1>1. IcmpInit => EchoInv
  BY EchoInitInv DEF IcmpInit
<1>2. QED
  BY <1>1, LifeStepInv, PTL DEF IcmpSpec

\* Over the life of the queue the variables of the kernel keep their types;
\* among them, that no lane looks at a packet beyond the run.
THEOREM EchoTypeCorrect == IcmpSpec => []EchoTypeOK
<1>1. EchoInv => EchoTypeOK
  BY DEF EchoInv
<1>2. QED
  BY <1>1, LifeInvariant, PTL

\* What leaves the Txq for a request is its reply, once and with the right
\* checksum, unless its slot was written again while in use or the checksum
\* went over bytes that are not its own: of an odd length, left in the slot, or
\* past the slot because the request fills it up to the last 40 bytes.
THEOREM RepliesAreRight == IcmpSpec => []EchoAnswers
<1>1. EchoInv => EchoAnswers
  BY DEF EchoInv
<1>2. QED
  BY <1>1, LifeInvariant, PTL

\* When the warp meets to receive, or ends, no request of its runs is left out.
THEOREM RequestsAreAnswered == IcmpSpec => []EchoComplete
<1>1. EchoInv => EchoComplete
  <2>1. SUFFICES ASSUME EchoInv, All("loop") \/ All("exit"),
                        NEW i \in 0..first + num - 1, arrived[i + 1].echo, i \notin overrun
                 PROVE  i \in ToSet(sendq) \/ \E x \in DOMAIN sent : sent[x].request = i
    BY DEF EchoComplete
  <2>2. \A l \in Lanes : Pending(l) = {}
    BY <2>1 DEF All, Pending
  <2>3. Queued(i) \/ Sent(i)
    BY <2>1, <2>2 DEF EchoInv, NoneForgotten
  <2>4. QED
    BY <2>3 DEF Queued, Sent, ToSet
<1>2. QED
  BY <1>1, LifeInvariant, PTL

=============================================================================
