-------------------------- MODULE StatsRingProofs --------------------------
(***************************************************************************)
(* Theorems about StatsRing, for every number of receive queues, every     *)
(* ring size, every block size and every set of packet classes.            *)
(***************************************************************************)
EXTENDS StatsRing, FiniteSetTheorems, FunctionTheorems, SequenceTheorems, TLAPS

\* The items from cpu_idx up to sem_idx are READY, the others FREE.
Segment(r, n) ==
  /\ sem_idx[r] = Item(r, n)
  /\ \A s \in Items : status[r][s] = "READY" <=> \E i \in 0..n - 1 : s = Item(r, i)

\* What the two sides of a ring rely on: the variables of the handshake have
\* their types, the item being written is FREE and the one being read READY.
IndexOK == /\ status \in [Rings -> [Items -> {"FREE", "READY"}]]
           /\ sem_idx \in [Rings -> Items]
           /\ cpu_idx \in [Rings -> Items]
           /\ idxq \in Rings
           /\ block \in [Rings -> {"recv", "add", "fill", "exited"}]
           /\ lapped \in [Rings -> BOOLEAN]

WritesFree == \A r \in Rings :
                ~lapped[r] /\ block[r] = "fill" => status[r][sem_idx[r]] = "FREE"
ReadsReady == ~lapped[idxq] /\ stats = "read" =>
                status[idxq][cpu_idx[idxq]] = "READY"

RingInv == IndexOK /\ WritesFree /\ ReadsReady /\ ReadyInOrder
-----------------------------------------------------------------------------
(* Indices modulo the size of a ring.                                      *)

LEMMA ModSmall ==
  ASSUME NEW x \in Items
  PROVE  x % Nums = x
BY RingAssumption DEF Items

LEMMA ModNext ==
  ASSUME NEW x \in Items
  PROVE  /\ (x + 1) % Nums = IF x + 1 = Nums THEN 0 ELSE x + 1
         /\ (x + 1) % Nums \in Items
BY RingAssumption DEF Items

LEMMA ModLarge ==
  ASSUME NEW n \in Nat \ {0}, NEW x \in n..(n + n - 1)
  PROVE  x % n = x - n
OBVIOUS

LEMMA ModWrap ==
  ASSUME NEW x \in Items, NEW i \in 0..Nums
  PROVE  /\ (x + i) % Nums = IF x + i < Nums THEN x + i ELSE x + i - Nums
         /\ (x + i) % Nums \in Items
<1>1. CASE x + i < Nums
  BY <1>1, RingAssumption DEF Items
<1>2. CASE ~(x + i < Nums)
  <2>1. x + i \in Nums..(Nums + Nums - 1)
    BY <1>2, RingAssumption DEF Items
  <2> DEFINE y == x + i
  <2>2. y \in Nums..(Nums + Nums - 1) /\ Nums \in Nat \ {0}
    BY <2>1, RingAssumption
  <2> HIDE DEF y
  <2>3. y % Nums = y - Nums
    BY <2>2, ModLarge
  <2>4. QED
    BY <1>2, <2>1, <2>3, RingAssumption DEF Items, y
<1>3. QED
  BY <1>1, <1>2

LEMMA ItemIs ==
  ASSUME IndexOK, NEW r \in Rings, NEW i \in 0..Nums
  PROVE  /\ Item(r, i) = IF cpu_idx[r] + i < Nums THEN cpu_idx[r] + i
                         ELSE cpu_idx[r] + i - Nums
         /\ Item(r, i) \in Items
         /\ cpu_idx[r] \in Items
<1>1. cpu_idx[r] \in Items
  BY DEF IndexOK
<1>2. QED
  BY <1>1, ModWrap DEF Item

\* The item after one item of the segment is the next.
LEMMA ItemSuccessor ==
  ASSUME IndexOK, NEW r \in Rings, NEW i \in 0..Nums - 1
  PROVE  Item(r, i + 1) = (Item(r, i) + 1) % Nums
<1>1. i \in 0..Nums /\ i + 1 \in 0..Nums
  BY RingAssumption
<1>2. (Item(r, i) + 1) % Nums = IF Item(r, i) + 1 = Nums THEN 0 ELSE Item(r, i) + 1
  BY <1>1, ItemIs, ModNext
<1>3. QED
  BY <1>1, <1>2, ItemIs, RingAssumption DEF Items

\* When cpu_idx advances, every item behind it moves one place to the front.
LEMMA ItemShift ==
  ASSUME IndexOK, NEW r \in Rings, NEW i \in 0..Nums - 1,
         cpu_idx' = [cpu_idx EXCEPT ![r] = (@ + 1) % Nums]
  PROVE  Item(r, i)' = Item(r, i + 1)
<1>1. cpu_idx[r] \in Items /\ cpu_idx'[r] = (cpu_idx[r] + 1) % Nums
      /\ cpu_idx'[r] \in Items
  BY ModNext DEF IndexOK
<1>2. Item(r, i)' = (cpu_idx'[r] + i) % Nums
  BY DEF Item
<1>3. i \in 0..Nums /\ i + 1 \in 0..Nums
  BY RingAssumption
<1>4. (cpu_idx'[r] + i) % Nums = IF cpu_idx'[r] + i < Nums THEN cpu_idx'[r] + i
                                 ELSE cpu_idx'[r] + i - Nums
  BY <1>1, <1>3, ModWrap
<1>5. cpu_idx'[r] = IF cpu_idx[r] + 1 = Nums THEN 0 ELSE cpu_idx[r] + 1
  BY <1>1, ModNext
<1>6. Item(r, i + 1) = IF cpu_idx[r] + (i + 1) < Nums THEN cpu_idx[r] + (i + 1)
                       ELSE cpu_idx[r] + (i + 1) - Nums
  BY <1>3, ItemIs
<1> DEFINE new == cpu_idx'[r]
           old == cpu_idx[r]
<1>7. /\ Item(r, i)' = IF new + i < Nums THEN new + i ELSE new + i - Nums
      /\ new = IF old + 1 = Nums THEN 0 ELSE old + 1
      /\ Item(r, i + 1) = IF old + (i + 1) < Nums THEN old + (i + 1)
                          ELSE old + (i + 1) - Nums
      /\ old \in Items
  BY <1>1, <1>2, <1>4, <1>5, <1>6
<1> HIDE DEF new, old
<1>8. QED
  BY <1>7, RingAssumption DEF Items

LEMMA ZeroIsItem == 0 \in Items
BY RingAssumption DEF Items
-----------------------------------------------------------------------------
LEMMA InitRingInv == Init => RingInv
<1>1. SUFFICES ASSUME Init PROVE RingInv
  OBVIOUS
<1>2. IndexOK
  BY <1>1, ZeroIsItem, RingAssumption DEF Init, IndexOK, Rings
<1>3. WritesFree /\ ReadsReady
  BY <1>1 DEF Init, WritesFree, ReadsReady
<1>4. ASSUME NEW r \in Rings
      PROVE  Segment(r, 0)
  BY <1>1, <1>4, ZeroIsItem, ModSmall, RingAssumption DEF Init, Segment, Item
<1>5. ReadyInOrder
  BY <1>4, RingAssumption DEF ReadyInOrder, Segment
<1>6. QED
  BY <1>2, <1>3, <1>5 DEF RingInv

\* A published item is appended to the segment ...
LEMMA SegmentGrows ==
  ASSUME IndexOK, NEW r \in Rings, NEW n \in 0..Nums, Segment(r, n),
         status[r][sem_idx[r]] = "FREE",
         status' = [status EXCEPT ![r][sem_idx[r]] = "READY"],
         sem_idx' = [sem_idx EXCEPT ![r] = (@ + 1) % Nums],
         cpu_idx' = cpu_idx
  PROVE  n + 1 \in 0..Nums /\ Segment(r, n + 1)'
<1>1. n # Nums
  <2>1. SUFFICES ASSUME n = Nums PROVE FALSE
    OBVIOUS
  <2>2. sem_idx[r] = cpu_idx[r] /\ sem_idx[r] = Item(r, 0)
    BY <2>1, ItemIs, RingAssumption DEF Segment, Items
  <2>3. 0 \in 0..n - 1 /\ sem_idx[r] \in Items
    BY <2>1, RingAssumption DEF IndexOK
  <2>4. QED
    BY <2>2, <2>3 DEF Segment, IndexOK
<1>2. n + 1 \in 0..Nums
  BY <1>1, RingAssumption
<1>3. Item(r, n + 1) = (Item(r, n) + 1) % Nums
  BY <1>1, ItemSuccessor, RingAssumption
<1>4. sem_idx'[r] = Item(r, n + 1)'
  BY <1>3 DEF Segment, Item, IndexOK
<1>5. ASSUME NEW s \in Items
      PROVE  status'[r][s] = "READY" <=> \E i \in 0..(n + 1) - 1 : s = Item(r, i)'
  <2>1. status'[r][s] = "READY" <=> status[r][s] = "READY" \/ s = sem_idx[r]
    BY <1>5 DEF IndexOK
  <2>2. 0..(n + 1) - 1 = (0..n - 1) \cup {n}
    BY RingAssumption
  <2>3. QED
    BY <1>5, <2>1, <2>2 DEF Segment, Item
<1>6. QED
  BY <1>2, <1>4, <1>5 DEF Segment

\* ... and an item that is set FREE is taken from its front.
LEMMA SegmentShrinks ==
  ASSUME IndexOK, NEW r \in Rings, NEW n \in 0..Nums, Segment(r, n),
         status[r][cpu_idx[r]] = "READY",
         status' = [status EXCEPT ![r][cpu_idx[r]] = "FREE"],
         cpu_idx' = [cpu_idx EXCEPT ![r] = (@ + 1) % Nums],
         sem_idx' = sem_idx
  PROVE  n - 1 \in 0..Nums /\ Segment(r, n - 1)'
<1>1. n # 0
  BY RingAssumption DEF Segment, IndexOK
<1>2. n - 1 \in 0..Nums /\ n \in Nat
  BY <1>1, RingAssumption
<1>3. cpu_idx[r] \in Items
  BY DEF IndexOK
<1>4. \A i \in 0..Nums - 1 : Item(r, i)' = Item(r, i + 1)
  BY ItemShift
<1>5. sem_idx'[r] = Item(r, n - 1)'
  <2>1. n - 1 \in 0..Nums - 1 /\ (n - 1) + 1 = n
    BY <1>1, RingAssumption
  <2>2. QED
    BY <1>4, <2>1 DEF Segment
<1>6. ASSUME NEW s \in Items
      PROVE  status'[r][s] = "READY" <=> \E i \in 0..(n - 1) - 1 : s = Item(r, i)'
  <2>1. status'[r][s] = "READY" <=> status[r][s] = "READY" /\ s # cpu_idx[r]
    BY <1>6 DEF IndexOK
  <2>2. cpu_idx[r] = Item(r, 0)
    BY <1>3, ModSmall, RingAssumption DEF Item, Items
  <2>3. ASSUME NEW i \in 1..n - 1
        PROVE  Item(r, i) # cpu_idx[r]
    BY <1>2, ItemIs, RingAssumption DEF Items
  <2>4. (\E i \in 0..n - 1 : s = Item(r, i)) /\ s # cpu_idx[r]
          <=> \E i \in 1..n - 1 : s = Item(r, i)
    BY <2>2, <2>3, <1>2
  <2>5. (\E i \in 1..n - 1 : s = Item(r, i))
          <=> \E i \in 0..(n - 1) - 1 : s = Item(r, i)'
    <3>1. ASSUME NEW i \in 1..n - 1, s = Item(r, i)
          PROVE  \E j \in 0..(n - 1) - 1 : s = Item(r, j)'
      <4>1. i - 1 \in 0..(n - 1) - 1 /\ i - 1 \in 0..Nums - 1 /\ (i - 1) + 1 = i
        BY <1>2, <3>1, RingAssumption
      <4>2. QED
        BY <1>4, <3>1, <4>1
    <3>2. ASSUME NEW j \in 0..(n - 1) - 1, s = Item(r, j)'
          PROVE  \E i \in 1..n - 1 : s = Item(r, i)
      <4>1. j + 1 \in 1..n - 1 /\ j \in 0..Nums - 1
        BY <1>2, RingAssumption
      <4>2. QED
        BY <1>4, <3>2, <4>1
    <3>3. QED
      BY <3>1, <3>2
  <2>6. QED
    BY <1>6, <2>1, <2>4, <2>5 DEF Segment
<1>7. QED
  BY <1>2, <1>5, <1>6 DEF Segment
-----------------------------------------------------------------------------
\* Steps that leave the handshake of every ring alone, save that a block may
\* turn to an item (BlockFill).
LEMMA HandshakeKept ==
  ASSUME RingInv, UNCHANGED <<status, sem_idx, cpu_idx>>,
         IndexOK', WritesFree', ReadsReady',
         \A r \in Rings : lapped[r] => lapped'[r]
  PROVE  RingInv'
BY DEF RingInv, ReadyInOrder, Item, IndexOK

LEMMA NextRingInv == RingInv /\ [Next]_vars => RingInv'
<1>1. SUFFICES ASSUME RingInv, [Next]_vars PROVE RingInv'
  OBVIOUS
<1> USE <1>1 DEF RingInv, blockVars, statsVars, gpuVars
<1>2. ASSUME NEW r \in Rings,
             \/ BlockExit(r) \/ BlockReceive(r) \/ BlockError(r) \/ WriteField(r)
             \/ \E w \in Warps : WarpBreaks(r, w) \/ WarpAdd(r, w)
      PROVE  RingInv'
  <2>1. UNCHANGED <<status, sem_idx, cpu_idx, lapped, stats, idxq>>
    BY <1>2 DEF BlockExit, BlockReceive, BlockError, WriteField, WarpBreaks, WarpAdd
  <2>2. /\ block' \in [Rings -> {"recv", "add", "fill", "exited"}]
        /\ \A p \in Rings : block'[p] = "fill" => block[p] = "fill"
    BY <1>2 DEF BlockExit, BlockReceive, BlockError, WriteField, WarpBreaks, WarpAdd,
                IndexOK
  <2>3. QED
    BY <2>1, <2>2, HandshakeKept DEF IndexOK, WritesFree, ReadsReady
<1>3. ASSUME NEW r \in Rings, BlockFill(r)
      PROVE  RingInv'
  <2>1. /\ UNCHANGED <<status, sem_idx, cpu_idx, stats, idxq>>
        /\ lapped' = [lapped EXCEPT ![r] = @ \/ status[r][sem_idx[r]] = "READY"]
        /\ block' = [block EXCEPT ![r] = "fill"]
    BY <1>3 DEF BlockFill
  <2>2. IndexOK'
    BY <2>1 DEF IndexOK
  <2>3. \A p \in Rings : lapped[p] => lapped'[p]
    BY <2>1 DEF IndexOK
  <2>4. status[r][sem_idx[r]] \in {"FREE", "READY"}
    BY DEF IndexOK
  <2>5. ~lapped'[r] => status[r][sem_idx[r]] = "FREE"
    BY <2>1, <2>4 DEF IndexOK
  <2>6. WritesFree' /\ ReadsReady'
    BY <2>1, <2>3, <2>5 DEF WritesFree, ReadsReady, IndexOK
  <2>7. QED
    BY <2>1, <2>2, <2>3, <2>6, HandshakeKept
<1>4. ASSUME NEW r \in Rings, Publish(r)
      PROVE  RingInv'
  <2>1. /\ block[r] = "fill"
        /\ status' = [status EXCEPT ![r][sem_idx[r]] = "READY"]
        /\ sem_idx' = [sem_idx EXCEPT ![r] = (@ + 1) % Nums]
        /\ block' = [block EXCEPT ![r] = "recv"]
        /\ UNCHANGED <<cpu_idx, stats, idxq, lapped>>
    BY <1>4 DEF Publish
  <2>2. IndexOK'
    BY <2>1, ModNext DEF IndexOK
  <2>3. WritesFree' /\ ReadsReady'
    BY <2>1 DEF WritesFree, ReadsReady, IndexOK
  <2>4. ASSUME NEW p \in Rings, ~lapped'[p]
        PROVE  \E n \in 0..Nums : Segment(p, n)'
    <3>1. PICK n \in 0..Nums : Segment(p, n)
      BY <2>1, <2>4 DEF ReadyInOrder, Segment
    <3>2. CASE p = r
      <4>1. status[r][sem_idx[r]] = "FREE"
        BY <2>1, <2>4, <3>2 DEF WritesFree
      <4>2. n + 1 \in 0..Nums /\ Segment(p, n + 1)'
        BY <2>1, <3>1, <3>2, <4>1, SegmentGrows
      <4>3. QED
        BY <4>2
    <3>3. CASE p # r
      <4>1. Segment(p, n)'
        BY <2>1, <3>1, <3>3 DEF Segment, Item, IndexOK
      <4>2. QED
        BY <4>1
    <3>4. QED
      BY <3>2, <3>3
  <2>5. ReadyInOrder'
    BY <2>4 DEF ReadyInOrder, Segment
  <2>6. QED
    BY <2>2, <2>3, <2>5
<1>5. ASSUME StatsLoop \/ PollFree \/ PollReady \/ ReadField \/ StatsError
      PROVE  RingInv'
  <2>1. UNCHANGED <<status, sem_idx, cpu_idx, lapped, block>>
    BY <1>5 DEF StatsLoop, PollFree, PollReady, ReadField, StatsError
  <2>2. idxq' \in Rings
    BY <1>5, RingAssumption
       DEF StatsLoop, PollFree, PollReady, ReadField, StatsError, NextRing,
           IndexOK, Rings
  <2>3. stats' = "read" => /\ idxq' = idxq
                           /\ stats = "read" \/ AtItem("READY")
    BY <1>5 DEF StatsLoop, PollFree, PollReady, ReadField, StatsError, NextRing
  <2>4. IndexOK' /\ WritesFree' /\ ReadsReady'
    BY <2>1, <2>2, <2>3 DEF IndexOK, WritesFree, ReadsReady, AtItem
  <2>5. QED
    BY <2>1, <2>4, HandshakeKept
<1>6. CASE FreeItem
  <2>1. /\ stats = "read" /\ stats' # "read"
        /\ status' = [status EXCEPT ![idxq][cpu_idx[idxq]] = "FREE"]
        /\ cpu_idx' = [cpu_idx EXCEPT ![idxq] = (@ + 1) % Nums]
        /\ UNCHANGED <<sem_idx, block, lapped>>
    BY <1>6 DEF FreeItem, NextRing
  <2>2. idxq' \in Rings
    BY <1>6, RingAssumption DEF FreeItem, NextRing, IndexOK, Rings
  <2>3. IndexOK'
    BY <2>1, <2>2, ModNext DEF IndexOK
  <2>4. WritesFree' /\ ReadsReady'
    BY <2>1 DEF WritesFree, ReadsReady, IndexOK
  <2>5. ASSUME NEW p \in Rings, ~lapped'[p]
        PROVE  \E n \in 0..Nums : Segment(p, n)'
    <3>1. PICK n \in 0..Nums : Segment(p, n)
      BY <2>1, <2>5 DEF ReadyInOrder, Segment
    <3>2. CASE p = idxq
      <4>1. status[p][cpu_idx[p]] = "READY"
        BY <2>1, <2>5, <3>2 DEF ReadsReady
      <4>2. n - 1 \in 0..Nums /\ Segment(p, n - 1)'
        BY <2>1, <3>1, <3>2, <4>1, SegmentShrinks
      <4>3. QED
        BY <4>2
    <3>3. CASE p # idxq
      <4>1. Segment(p, n)'
        BY <2>1, <3>1, <3>3 DEF Segment, Item, IndexOK
      <4>2. QED
        BY <4>1
    <3>4. QED
      BY <3>2, <3>3
  <2>6. ReadyInOrder'
    BY <2>5 DEF ReadyInOrder, Segment
  <2>7. QED
    BY <2>3, <2>4, <2>6
<1>7. CASE Quit \/ StopKernels \/ UNCHANGED vars
  BY <1>7, HandshakeKept
     DEF Quit, StopKernels, vars, IndexOK, WritesFree, ReadsReady
<1>8. QED
  BY <1>1, <1>2, <1>3, <1>4, <1>5, <1>6, <1>7 DEF Next, Block, Stats

LEMMA RingInvariant == Spec => []RingInv
BY InitRingInv, NextRingInv, PTL DEF Spec

\* Until a kernel laps the CPU on its ring, the item stats_core reads is not
\* the item the kernel writes, for every ring size.
THEOREM TornAccessExcluded == Spec => []NoTornAccess
<1>1. RingInv => NoTornAccess
  BY DEF RingInv, IndexOK, WritesFree, ReadsReady, NoTornAccess
<1>2. QED
  BY <1>1, RingInvariant, PTL

\* Until a kernel laps the CPU on its ring, the CPU finds the published items
\* without a gap from the index it polls, for every ring size.
THEOREM ReadyItemsInOrder == Spec => []ReadyInOrder
<1>1. RingInv => ReadyInOrder
  BY DEF RingInv
<1>2. QED
  BY <1>1, RingInvariant, PTL
-----------------------------------------------------------------------------
(* The types, and the counts of a burst.                                   *)

\* How many packets of class c the warps outside A have.
Added(sh, A, c) == Cardinality({x \in Packets(sh, c) : x[1] \notin A})

\* In shared memory are the packets of the warps that have added theirs.
SumsOK == \A r \in Rings :
  /\ block[r] = "recv" => stats_sh[r] = [c \in Classes |-> 0]
  /\ block[r] = "fill" => adding[r] = {}
  /\ block[r] \in {"add", "fill"} =>
       \A c \in Classes : stats_sh[r][c] = Added(share[r], adding[r], c)

\* The fields of the item that are written hold the counts of the burst, those
\* that are read have been added.
FilledOK == \A r \in Rings : ~lapped[r] /\ block[r] = "fill" =>
  \A f \in Fields \ toWrite[r] :
    info[r][sem_idx[r]][f] = BatchOf(share[r], out_pkt_num[r])[f]
CopiedOK == ~lapped[idxq] /\ stats = "read" =>
  \A f \in Fields \ toRead : added[f] = info[idxq][cpu_idx[idxq]][f]

CountInv == TypeOK /\ SumsOK /\ FilledOK /\ CopiedOK

LEMMA PacketsFinite ==
  ASSUME NEW sh, NEW c
  PROVE  IsFiniteSet(Packets(sh, c)) /\ CountOf(sh, c) \in Nat
<1>1. IsFiniteSet(Warps) /\ IsFiniteSet(1..MaxPkts)
  BY BlockAssumption, ClassAssumption, FS_Interval
<1>2. IsFiniteSet(Warps \X (1..MaxPkts))
  BY <1>1, FS_Product
<1>3. Packets(sh, c) \subseteq Warps \X (1..MaxPkts)
  BY DEF Packets
<1>4. IsFiniteSet(Packets(sh, c))
  BY <1>2, <1>3, FS_Subset
<1>5. QED
  BY <1>4, FS_CardinalityType DEF CountOf

LEMMA BatchIs ==
  ASSUME NEW sh, NEW n \in 0..MaxPkts
  PROVE  /\ BatchOf(sh, n) \in [Fields -> Nat] /\ BatchOf(sh, n) # None
         /\ BatchOf(sh, n)["total"] = n
         /\ \A c \in Classes : BatchOf(sh, n)[c] = CountOf(sh, c)
<1>1. BatchOf(sh, n) \in [Fields -> Nat]
  BY PacketsFinite, ClassAssumption DEF BatchOf, Fields
<1>2. BatchOf(sh, n) # None
  BY <1>1, NoneAssumption DEF Fields
<1>3. QED
  BY <1>1, <1>2, ClassAssumption DEF BatchOf, Fields

LEMMA FirstIn ==
  ASSUME NEW S, S # {}
  PROVE  FirstOf(S) \in S
BY DEF FirstOf

\* A warp that adds its packets adds as many as it has.
LEMMA WarpCounts ==
  ASSUME NEW sh \in Shares, NEW A \in SUBSET Warps, NEW w \in A, NEW c \in Classes
  PROVE  Added(sh, A \ {w}, c) = Added(sh, A, c) + sh[w][c]
<1> DEFINE P == Packets(sh, c)
           Old == {x \in P : x[1] \notin A}
           New == {x \in P : x[1] \notin A \ {w}}
           Own == {x \in P : x[1] = w}
           n == sh[w][c]
<1>1. IsFiniteSet(P)
  BY PacketsFinite
<1>2. w \in Warps /\ n \in 0..MaxPkts /\ MaxPkts \in Nat
  BY ClassAssumption DEF Shares
<1>3. IsFiniteSet(Old) /\ IsFiniteSet(Own)
  BY <1>1, FS_Subset
<1>4. New = Old \cup Own /\ Old \cap Own = {}
  OBVIOUS
<1>5. Cardinality(New) = Cardinality(Old) + Cardinality(Own)
  <2> HIDE DEF Old, New, Own
  <2>1. Cardinality(New) = Cardinality(Old) + Cardinality(Own) - Cardinality({})
    BY <1>3, <1>4, FS_Union
  <2>2. Cardinality(Old) \in Nat /\ Cardinality(Own) \in Nat
    BY <1>3, FS_CardinalityType
  <2>3. QED
    BY <2>1, <2>2, FS_EmptySet
<1>6. Own = {<<w, k>> : k \in 1..n}
  BY <1>2 DEF Packets
<1>7. Cardinality(Own) = n
  <2> DEFINE f == [k \in 1..n |-> <<w, k>>]
  <2>1. f \in Bijection(1..n, Own)
    <3>1. f \in [1..n -> Own]
      BY <1>6
    <3>2. \A j, k \in 1..n : f[j] = f[k] => j = k
      OBVIOUS
    <3>3. \A x \in Own : \E k \in 1..n : f[k] = x
      BY <1>6
    <3> HIDE DEF f, Own
    <3>4. QED
      BY <3>1, <3>2, <3>3, Fun_IsBij
  <2> HIDE DEF f, Own, n
  <2>2. ExistsBijection(1..n, Own)
    BY <2>1 DEF ExistsBijection
  <2>3. n \in Nat
    BY <1>2
  <2>4. QED
    BY <2>2, <2>3, FS_CountingElements
<1>8. QED
  BY <1>5, <1>7 DEF Added

\* A warp that breaks out of its packets before it adds them changes nothing of
\* what the others have added, ...
LEMMA BreakUncounted ==
  ASSUME NEW sh \in Shares, NEW cut \in Shares, NEW A \in SUBSET Warps, NEW w \in A,
         NEW c \in Classes, \A v \in Warps : v # w => cut[v] = sh[v]
  PROVE  Added(cut, A, c) = Added(sh, A, c)
<1>1. {x \in Packets(cut, c) : x[1] \notin A} = {x \in Packets(sh, c) : x[1] \notin A}
  BY DEF Packets
<1>2. QED
  BY <1>1 DEF Added

\* ... and leaves no class more packets than it has.
LEMMA BreakCounts ==
  ASSUME NEW sh \in Shares, NEW cut \in Shares, NEW c \in Classes,
         \A v \in Warps : cut[v][c] <= sh[v][c]
  PROVE  CountOf(cut, c) <= CountOf(sh, c)
<1>1. Packets(cut, c) \subseteq Packets(sh, c)
  <2>1. \A v \in Warps : cut[v][c] \in 0..MaxPkts /\ sh[v][c] \in 0..MaxPkts
    BY DEF Shares
  <2>2. QED
    BY <2>1, ClassAssumption DEF Packets
<1>2. IsFiniteSet(Packets(sh, c))
  BY PacketsFinite
<1>3. QED
  BY <1>1, <1>2, FS_Subset DEF CountOf

\* Before the first warp nothing is counted, after the last one everything.
LEMMA NoneAndAll ==
  ASSUME NEW sh, NEW c
  PROVE  Added(sh, Warps, c) = 0 /\ Added(sh, {}, c) = CountOf(sh, c)
<1>1. {x \in Packets(sh, c) : x[1] \notin Warps} = {}
  BY DEF Packets
<1>2. {x \in Packets(sh, c) : x[1] \notin {}} = Packets(sh, c)
  OBVIOUS
<1>3. QED
  BY <1>1, <1>2, FS_EmptySet DEF Added, CountOf

LEMMA InitCountInv == Init => CountInv
<1>1. SUFFICES ASSUME Init PROVE CountInv
  OBVIOUS
<1>2. Zero \in [Fields -> Nat] /\ 1 \in Rings
  BY RingAssumption DEF Zero, Rings
<1>3. NoShare \in Shares /\ 0 \in 0..MaxPkts
  BY ClassAssumption DEF NoShare, Shares
<1>4. TypeOK
  BY <1>1, <1>2, <1>3, ZeroIsItem DEF Init, TypeOK
<1>5. SumsOK /\ FilledOK /\ CopiedOK
  BY <1>1, <1>2 DEF Init, SumsOK, FilledOK, CopiedOK
<1>6. QED
  BY <1>4, <1>5 DEF CountInv

LEMMA TypeStep ==
  ASSUME TypeOK, [Next]_vars
  PROVE  TypeOK'
<1> USE DEF TypeOK, blockVars, statsVars, gpuVars
<1>1. ASSUME NEW r \in Rings,
             BlockExit(r) \/ BlockReceive(r) \/ BlockError(r) \/ BlockFill(r)
      PROVE  TypeOK'
  <2>1. CASE BlockExit(r)
    BY <2>1 DEF BlockExit
  <2>2. CASE BlockReceive(r)
    BY <2>2 DEF BlockReceive, Bursts
  <2>3. CASE BlockError(r)
    BY <2>3 DEF BlockError
  <2>4. CASE BlockFill(r)
    <3>1. (status[r][sem_idx[r]] = "READY") \in BOOLEAN
      OBVIOUS
    <3>2. (lapped[r] \/ status[r][sem_idx[r]] = "READY") \in BOOLEAN
      OBVIOUS
    <3>3. lapped' \in [Rings -> BOOLEAN]
      BY <2>4, <3>2 DEF BlockFill
    <3>4. QED
      BY <2>4, <3>3 DEF BlockFill
  <2>5. QED
    BY <1>1, <2>1, <2>2, <2>3, <2>4
<1>2. ASSUME NEW r \in Rings, NEW w \in Warps, WarpAdd(r, w)
      PROVE  TypeOK'
  <2>1. \A c \in Classes : share[r][w][c] \in Nat
    BY ClassAssumption DEF Shares
  <2>2. [c \in Classes |-> stats_sh[r][c] + share[r][w][c]] \in [Classes -> Nat]
    BY <2>1
  <2>3. stats_sh' \in [Rings -> [Classes -> Nat]]
    BY <1>2, <2>2 DEF WarpAdd
  <2>4. QED
    BY <1>2, <2>3 DEF WarpAdd
<1>10. ASSUME NEW r \in Rings, NEW w \in Warps, WarpBreaks(r, w)
       PROVE  TypeOK'
  <2>1. PICK part \in [Classes -> 0..MaxPkts] : share' = [share EXCEPT ![r][w] = part]
    BY <1>10 DEF WarpBreaks
  <2>2. share' \in [Rings -> Shares]
    BY <2>1 DEF Shares
  <2>3. QED
    BY <1>10, <2>2 DEF WarpBreaks
<1>3. ASSUME NEW r \in Rings, WriteField(r)
      PROVE  TypeOK'
  <2> DEFINE f == FirstOf(toWrite[r])
             v == IF f = "total" THEN out_pkt_num[r] ELSE stats_sh[r][f]
  <2>1. f \in Fields
    BY <1>3, FirstIn DEF WriteField
  <2>2. v \in Nat
    BY <2>1, ClassAssumption DEF Fields
  <2>3. info' = [info EXCEPT ![r][sem_idx[r]][f] = v]
    BY <1>3 DEF WriteField
  <2>4. info' \in [Rings -> [Items -> [Fields -> Nat]]]
    <3> HIDE DEF f, v
    <3>1. QED
      BY <2>1, <2>2, <2>3
  <2>5. toWrite' \in [Rings -> SUBSET Fields]
    BY <1>3 DEF WriteField
  <2> HIDE DEF f, v
  <2>6. QED
    BY <1>3, <2>4, <2>5 DEF WriteField
<1>4. ASSUME NEW r \in Rings, Publish(r)
      PROVE  TypeOK'
  <2>1. (sem_idx[r] + 1) % Nums \in Items
    BY ModNext
  <2>2. [c \in Classes |-> 0] \in [Classes -> Nat]
    OBVIOUS
  <2>3. status' \in [Rings -> [Items -> {"FREE", "READY"}]]
    BY <1>4 DEF Publish
  <2>4. sem_idx' \in [Rings -> Items]
    BY <1>4, <2>1 DEF Publish
  <2>5. NoShare \in Shares /\ 0 \in 0..MaxPkts
    BY ClassAssumption DEF NoShare, Shares
  <2>6. QED
    BY <1>4, <2>2, <2>3, <2>4, <2>5 DEF Publish
<1>5. ASSUME StatsLoop \/ PollFree \/ PollReady \/ StatsError
      PROVE  TypeOK'
  <2>1. idxq' \in Rings /\ stats' \in {"loop", "poll", "read", "ended"}
    BY <1>5, RingAssumption
       DEF StatsLoop, PollFree, PollReady, StatsError, NextRing, Rings
  <2>2. QED
    BY <1>5, <2>1 DEF StatsLoop, PollFree, PollReady, StatsError
<1>6. CASE ReadField
  <2> DEFINE f == FirstOf(toRead)
  <2>1. f \in Fields
    BY <1>6, FirstIn DEF ReadField
  <2>2. info[idxq][cpu_idx[idxq]][f] \in Nat
    BY <2>1
  <2>3. added' \in [Fields -> Nat]
    BY <1>6, <2>1, <2>2 DEF ReadField
  <2>4. QED
    BY <1>6, <2>3 DEF ReadField
<1>7. CASE FreeItem
  <2>1. idxq' \in Rings /\ stats' \in {"loop", "poll", "read", "ended"}
    BY <1>7, RingAssumption DEF FreeItem, NextRing, Rings
  <2>2. (cpu_idx[idxq] + 1) % Nums \in Items
    BY ModNext
  <2>3. cpu_idx' \in [Rings -> Items]
    BY <1>7, <2>2 DEF FreeItem
  <2>4. status' \in [Rings -> [Items -> {"FREE", "READY"}]]
    BY <1>7 DEF FreeItem
  <2>5. added' \in [Fields -> Nat] /\ counted' \in [Rings -> [Fields -> Nat] \cup {None}]
    BY <1>7 DEF FreeItem, Zero
  <2>6. QED
    BY <1>7, <2>1, <2>3, <2>4, <2>5 DEF FreeItem
<1>8. CASE Quit \/ StopKernels \/ UNCHANGED vars
  BY <1>8 DEF Quit, StopKernels, vars
<1>9. QED
  BY <1>1, <1>2, <1>3, <1>4, <1>5, <1>6, <1>7, <1>8, <1>10 DEF Next, Block, Stats

LEMMA SumsStep ==
  ASSUME TypeOK, SumsOK, [Next]_vars
  PROVE  SumsOK'
<1> USE DEF TypeOK, blockVars, statsVars, gpuVars
<1>1. ASSUME NEW r \in Rings, BlockExit(r) \/ BlockError(r)
      PROVE  SumsOK'
  <2>1. /\ block' = [block EXCEPT ![r] = "exited"]
        /\ UNCHANGED <<share, adding, stats_sh>>
    BY <1>1 DEF BlockExit, BlockError
  <2>2. \A p \in Rings : block'[p] = block[p] \/ block'[p] = "exited"
    BY <2>1
  <2>3. QED
    BY <2>1, <2>2 DEF SumsOK
<1>2. ASSUME NEW r \in Rings, BlockReceive(r)
      PROVE  SumsOK'
  <2>1. PICK sh \in Bursts : share' = [share EXCEPT ![r] = sh]
    BY <1>2 DEF BlockReceive
  <2>2. /\ block' = [block EXCEPT ![r] = "add"] /\ adding' = [adding EXCEPT ![r] = Warps]
        /\ stats_sh' = stats_sh /\ stats_sh[r] = [c \in Classes |-> 0]
    BY <1>2 DEF BlockReceive, SumsOK
  <2>3. \A c \in Classes : stats_sh[r][c] = Added(sh, Warps, c)
    BY <2>2, NoneAndAll
  <2>4. QED
    BY <2>1, <2>2, <2>3 DEF SumsOK
<1>3. ASSUME NEW r \in Rings, NEW w \in Warps, WarpAdd(r, w)
      PROVE  SumsOK'
  <2>1. /\ block[r] = "add" /\ w \in adding[r]
        /\ stats_sh' = [stats_sh EXCEPT ![r] = [c \in Classes |-> @[c] + share[r][w][c]]]
        /\ adding' = [adding EXCEPT ![r] = @ \ {w}]
        /\ block' = block /\ share' = share
    BY <1>3 DEF WarpAdd, SumsOK
  <2>2. ASSUME NEW c \in Classes
        PROVE  stats_sh'[r][c] = Added(share[r], adding[r] \ {w}, c)
    <3>1. stats_sh'[r][c] = stats_sh[r][c] + share[r][w][c]
      BY <2>1
    <3>2. stats_sh[r][c] = Added(share[r], adding[r], c)
      BY <2>1 DEF SumsOK
    <3>3. Added(share[r], adding[r] \ {w}, c) = Added(share[r], adding[r], c) + share[r][w][c]
      <4>1. adding[r] \in SUBSET Warps
        OBVIOUS
      <4>2. QED
        BY <2>1, <2>2, <4>1, WarpCounts
    <3>4. QED
      BY <3>1, <3>2, <3>3
  <2>3. /\ adding'[r] = adding[r] \ {w}
        /\ \A p \in Rings : p # r => stats_sh'[p] = stats_sh[p] /\ adding'[p] = adding[p]
    BY <2>1
  <2>4. ASSUME NEW p \in Rings
        PROVE  /\ block'[p] = "recv" => stats_sh'[p] = [c \in Classes |-> 0]
               /\ block'[p] = "fill" => adding'[p] = {}
               /\ block'[p] \in {"add", "fill"} =>
                    \A c \in Classes : stats_sh'[p][c] = Added(share'[p], adding'[p], c)
    <3>1. CASE p = r
      BY <2>1, <2>2, <2>3, <3>1
    <3>2. CASE p # r
      BY <2>1, <2>3, <3>2 DEF SumsOK
    <3>3. QED
      BY <3>1, <3>2
  <2>5. QED
    BY <2>4 DEF SumsOK
<1>4. ASSUME NEW r \in Rings, BlockFill(r)
      PROVE  SumsOK'
  BY <1>4 DEF BlockFill, SumsOK
<1>5. ASSUME NEW r \in Rings, WriteField(r)
      PROVE  SumsOK'
  BY <1>5 DEF WriteField, SumsOK
<1>6. ASSUME NEW r \in Rings, Publish(r)
      PROVE  SumsOK'
  BY <1>6 DEF Publish, SumsOK
<1>7. CASE Stats \/ Quit \/ StopKernels \/ UNCHANGED vars
  <2>1. UNCHANGED <<block, share, adding, stats_sh>>
    BY <1>7 DEF Stats, StatsLoop, PollFree, PollReady, ReadField, FreeItem,
                StatsError, Quit, StopKernels, vars
  <2>2. QED
    BY <2>1 DEF SumsOK
<1>8. ASSUME NEW r \in Rings, NEW w \in Warps, WarpBreaks(r, w)
      PROVE  SumsOK'
  <2>1. PICK part \in [Classes -> 0..MaxPkts] : share' = [share EXCEPT ![r][w] = part]
    BY <1>8 DEF WarpBreaks
  <2>2. /\ block[r] = "add" /\ w \in adding[r] /\ adding[r] \in SUBSET Warps
        /\ UNCHANGED <<block, adding, stats_sh>>
    BY <1>8 DEF WarpBreaks
  <2>3. /\ \A p \in Rings : p # r => share'[p] = share[p]
        /\ \A v \in Warps : v # w => share'[r][v] = share[r][v]
        /\ share[r] \in Shares /\ share'[r] \in Shares
    BY <2>1 DEF Shares
  <2>4. \A c \in Classes : Added(share'[r], adding[r], c) = Added(share[r], adding[r], c)
    <3> DEFINE sh == share[r]
               cut == share'[r]
               A == adding[r]
    <3>1. /\ A \in SUBSET Warps /\ w \in A /\ sh \in Shares /\ cut \in Shares
          /\ \A v \in Warps : v # w => cut[v] = sh[v]
      BY <2>2, <2>3
    <3> HIDE DEF sh, cut, A
    <3>2. \A c \in Classes : Added(cut, A, c) = Added(sh, A, c)
      BY <3>1, BreakUncounted
    <3>3. QED
      BY <3>2 DEF sh, cut, A
  <2>5. ASSUME NEW p \in Rings
        PROVE  /\ block'[p] = "recv" => stats_sh'[p] = [c \in Classes |-> 0]
               /\ block'[p] = "fill" => adding'[p] = {}
               /\ block'[p] \in {"add", "fill"} =>
                    \A c \in Classes : stats_sh'[p][c] = Added(share'[p], adding'[p], c)
    <3>1. CASE p = r
      BY <2>2, <2>4, <3>1 DEF SumsOK
    <3>2. CASE p # r
      BY <2>2, <2>3, <3>2 DEF SumsOK
    <3>3. QED
      BY <3>1, <3>2
  <2>6. QED
    BY <2>5 DEF SumsOK
<1>9. QED
  BY <1>1, <1>2, <1>3, <1>4, <1>5, <1>6, <1>7, <1>8 DEF Next, Block

LEMMA FilledStep ==
  ASSUME TypeOK, SumsOK, FilledOK, RingInv, [Next]_vars
  PROVE  FilledOK'
<1> USE DEF TypeOK, blockVars, statsVars, gpuVars
<1>1. ASSUME NEW r \in Rings,
             BlockExit(r) \/ BlockReceive(r) \/ BlockError(r) \/ BlockFill(r)
             \/ Publish(r) \/ \E w \in Warps : WarpBreaks(r, w) \/ WarpAdd(r, w)
      PROVE  FilledOK'
  <2>1. \A p \in Rings : p # r => /\ block'[p] = block[p] /\ lapped'[p] = lapped[p]
                                  /\ toWrite'[p] = toWrite[p] /\ share'[p] = share[p]
                                  /\ sem_idx'[p] = sem_idx[p]
                                  /\ out_pkt_num'[p] = out_pkt_num[p]
    BY <1>1 DEF BlockExit, BlockReceive, BlockError, BlockFill, Publish, WarpBreaks,
                WarpAdd
  <2>2. info' = info
    BY <1>1 DEF BlockExit, BlockReceive, BlockError, BlockFill, Publish, WarpBreaks,
                WarpAdd
  <2>3. block'[r] = "fill" => toWrite'[r] = Fields
    BY <1>1 DEF BlockExit, BlockReceive, BlockError, BlockFill, Publish, WarpBreaks,
                WarpAdd
  <2>4. ASSUME NEW p \in Rings, ~lapped'[p], block'[p] = "fill", NEW f \in Fields \ toWrite'[p]
        PROVE  info'[p][sem_idx'[p]][f] = BatchOf(share'[p], out_pkt_num'[p])[f]
    <3>1. p # r
      BY <2>3, <2>4
    <3>2. /\ ~lapped[p] /\ block[p] = "fill" /\ f \in Fields \ toWrite[p]
          /\ sem_idx'[p] = sem_idx[p] /\ share'[p] = share[p]
          /\ out_pkt_num'[p] = out_pkt_num[p]
      BY <2>1, <2>4, <3>1
    <3>3. info[p][sem_idx[p]][f] = BatchOf(share[p], out_pkt_num[p])[f]
      BY <3>2 DEF FilledOK
    <3>4. QED
      BY <2>2, <3>2, <3>3
  <2>5. QED
    BY <2>4 DEF FilledOK
<1>2. ASSUME NEW r \in Rings, WriteField(r)
      PROVE  FilledOK'
  <2> DEFINE f == FirstOf(toWrite[r])
             v == IF f = "total" THEN out_pkt_num[r] ELSE stats_sh[r][f]
  <2>1. /\ block[r] = "fill" /\ f \in toWrite[r]
        /\ info' = [info EXCEPT ![r][sem_idx[r]][f] = v]
        /\ toWrite' = [toWrite EXCEPT ![r] = @ \ {f}]
        /\ UNCHANGED <<block, share, out_pkt_num, sem_idx, lapped>>
    BY <1>2, FirstIn DEF WriteField
  <2>2. f \in Fields
    BY <2>1
  <2>3. v = BatchOf(share[r], out_pkt_num[r])[f]
    <3>1. CASE f = "total"
      BY <3>1, BatchIs
    <3>2. CASE f # "total"
      <4>1. f \in Classes
        BY <2>2, <3>2 DEF Fields
      <4>2. stats_sh[r][f] = Added(share[r], {}, f)
        BY <2>1, <4>1 DEF SumsOK
      <4>3. stats_sh[r][f] = CountOf(share[r], f)
        BY <4>2, NoneAndAll
      <4>4. QED
        BY <3>2, <4>1, <4>3, BatchIs
    <3>3. QED
      BY <3>1, <3>2
  <2> HIDE DEF f, v
  <2>4. \A g \in Fields : info'[r][sem_idx[r]][g] = IF g = f THEN v ELSE info[r][sem_idx[r]][g]
    BY <2>1, <2>2
  <2>5. \A p \in Rings : p # r => info'[p] = info[p] /\ toWrite'[p] = toWrite[p]
    BY <2>1
  <2>6. toWrite'[r] = toWrite[r] \ {f}
    BY <2>1
  <2>7. QED
    BY <2>1, <2>3, <2>4, <2>5, <2>6 DEF FilledOK
<1>3. CASE Stats \/ Quit \/ StopKernels \/ UNCHANGED vars
  <2>1. UNCHANGED <<block, share, out_pkt_num, toWrite, sem_idx, info, lapped>>
    BY <1>3 DEF Stats, StatsLoop, PollFree, PollReady, ReadField, FreeItem,
                StatsError, Quit, StopKernels, vars
  <2>2. QED
    BY <2>1 DEF FilledOK
<1>4. QED
  BY <1>1, <1>2, <1>3 DEF Next, Block

LEMMA CopiedStep ==
  ASSUME TypeOK, CopiedOK, RingInv, [Next]_vars
  PROVE  CopiedOK'
<1> USE DEF TypeOK, blockVars, statsVars, gpuVars
<1>1. ASSUME NEW r \in Rings,
             BlockExit(r) \/ BlockReceive(r) \/ BlockError(r) \/ BlockFill(r)
             \/ Publish(r) \/ \E w \in Warps : WarpBreaks(r, w) \/ WarpAdd(r, w)
      PROVE  CopiedOK'
  <2>1. UNCHANGED <<info, stats, idxq, cpu_idx, toRead, added>>
    BY <1>1 DEF BlockExit, BlockReceive, BlockError, BlockFill, Publish, WarpBreaks,
                WarpAdd
  <2>2. lapped[idxq] => lapped'[idxq]
    BY <1>1 DEF BlockExit, BlockReceive, BlockError, BlockFill, Publish, WarpBreaks,
                WarpAdd
  <2>3. QED
    BY <2>1, <2>2 DEF CopiedOK
<1>2. ASSUME NEW r \in Rings, WriteField(r)
      PROVE  CopiedOK'
  <2> DEFINE f == FirstOf(toWrite[r])
             v == IF f = "total" THEN out_pkt_num[r] ELSE stats_sh[r][f]
  <2>1. /\ block[r] = "fill"
        /\ info' = [info EXCEPT ![r][sem_idx[r]][f] = v]
        /\ UNCHANGED <<stats, idxq, cpu_idx, toRead, added, lapped>>
    BY <1>2 DEF WriteField
  <2> HIDE DEF f, v
  <2>2. ~lapped[idxq] /\ stats = "read" => idxq # r \/ cpu_idx[r] # sem_idx[r]
    BY <2>1 DEF RingInv, WritesFree, ReadsReady
  <2>3. ~lapped[idxq] /\ stats = "read" =>
          info'[idxq][cpu_idx[idxq]] = info[idxq][cpu_idx[idxq]]
    BY <2>1, <2>2
  <2>4. QED
    BY <2>1, <2>3 DEF CopiedOK
<1>3. CASE ReadField
  <2> DEFINE f == FirstOf(toRead)
  <2>1. /\ stats = "read" /\ f \in toRead
        /\ added' = [added EXCEPT ![f] = info[idxq][cpu_idx[idxq]][f]]
        /\ toRead' = toRead \ {f}
        /\ UNCHANGED <<stats, idxq, cpu_idx, lapped, info>>
    BY <1>3, FirstIn DEF ReadField
  <2> HIDE DEF f
  <2>2. QED
    BY <2>1 DEF CopiedOK
<1>4. CASE StatsLoop \/ PollFree \/ PollReady \/ FreeItem \/ StatsError
  <2>1. stats' = "read" => toRead' = Fields
    BY <1>4 DEF StatsLoop, PollFree, PollReady, FreeItem, StatsError, NextRing
  <2>2. QED
    BY <2>1 DEF CopiedOK
<1>5. CASE Quit \/ StopKernels \/ UNCHANGED vars
  BY <1>5 DEF Quit, StopKernels, vars, CopiedOK
<1>6. QED
  BY <1>1, <1>2, <1>3, <1>4, <1>5 DEF Next, Block, Stats

LEMMA CountInvariant == Spec => [](RingInv /\ CountInv)
<1>1. CountInv /\ RingInv /\ [Next]_vars => CountInv'
  BY TypeStep, SumsStep, FilledStep, CopiedStep DEF CountInv
<1>2. QED
  BY <1>1, InitCountInv, RingInvariant, PTL DEF Spec

\* Every variable of the kernels, of the rings and of stats_core keeps its
\* type: an index never leaves its ring, no count becomes negative.
THEOREM TypeCorrect == Spec => []TypeOK
<1>1. CountInv => TypeOK
  BY DEF CountInv
<1>2. QED
  BY <1>1, CountInvariant, PTL
-----------------------------------------------------------------------------
(* The refinement of the ledger.                                           *)

\* The variables of the ledger, as ImplementsLedger substitutes them.
Current == [r \in Rings |-> IF block[r] \in {"add", "fill"}
                            THEN BatchOf(share[r], out_pkt_num[r]) ELSE None]
Pending == [r \in Rings |-> IF lapped[r] THEN <<>> ELSE Waiting(r)]
Reckoned == [r \in Rings |-> IF lapped[r] THEN None ELSE counted[r]]

\* The n items from cpu_idx on, as a sequence.
Queue(r, n) == [i \in 1..n |-> info[r][Item(r, i - 1)]]

\* A sequence given as a function on 1..n with one element more, ...
LEMMA AppendIs ==
  ASSUME NEW S, NEW n \in Nat, NEW q \in [1..n -> S], NEW long \in [1..n + 1 -> S],
         \A i \in 1..n : long[i] = q[i]
  PROVE  long = Append(q, long[n + 1])
<1> DEFINE e == long[n + 1]
<1>1. /\ q \in Seq(S) /\ Len(q) = n /\ long \in Seq(S) /\ Len(long) = n + 1
      /\ n + 1 \in 1..n + 1
  OBVIOUS
<1>2. e \in S
  BY <1>1
<1> HIDE DEF e
<1>3. /\ Append(q, e) \in Seq(S) /\ Len(Append(q, e)) = n + 1
      /\ \A i \in 1..n : Append(q, e)[i] = q[i]
      /\ Append(q, e)[n + 1] = e
  BY <1>1, <1>2, AppendProperties
<1>4. \A i \in 1..n + 1 : Append(q, e)[i] = long[i]
  BY <1>3 DEF e
<1>5. Append(q, e) = long
  BY <1>1, <1>3, <1>4, SeqEqual
<1>6. QED
  BY <1>5 DEF e

\* ... and with one element less.
LEMMA TailIs ==
  ASSUME NEW S, NEW n \in Nat \ {0}, NEW q \in [1..n -> S], NEW short \in [1..n - 1 -> S],
         \A i \in 1..n - 1 : short[i] = q[i + 1]
  PROVE  q # <<>> /\ Head(q) = q[1] /\ Tail(q) = short
<1>1. /\ q \in Seq(S) /\ Len(q) = n /\ short \in Seq(S) /\ Len(short) = n - 1
  OBVIOUS
<1>2. q # <<>> /\ Head(q) = q[1]
  BY <1>1
<1>3. /\ Tail(q) \in Seq(S) /\ Len(Tail(q)) = n - 1
      /\ \A i \in 1..n - 1 : Tail(q)[i] = q[i + 1]
  BY <1>1, <1>2, HeadTailProperties
<1>4. \A i \in 1..n - 1 : Tail(q)[i] = short[i]
  BY <1>3
<1>5. Tail(q) = short
  BY <1>1, <1>3, <1>4, SeqEqual
<1>6. QED
  BY <1>2, <1>5

\* The READY items of a segment of n are n.
LEMMA ReadyItemsCount ==
  ASSUME IndexOK, NEW r \in Rings, NEW n \in 0..Nums, Segment(r, n)
  PROVE  Cardinality({s \in Items : status[r][s] = "READY"}) = n
<1> DEFINE R == {s \in Items : status[r][s] = "READY"}
           f == [k \in 1..n |-> Item(r, k - 1)]
<1>1. n \in Nat /\ \A k \in 1..n : k - 1 \in 0..n - 1 /\ k - 1 \in 0..Nums
  BY RingAssumption
<1>2. f \in [1..n -> R]
  <2>1. \A k \in 1..n : Item(r, k - 1) \in Items
    BY <1>1, ItemIs
  <2>2. \A k \in 1..n : status[r][Item(r, k - 1)] = "READY"
    BY <1>1, <2>1 DEF Segment
  <2>3. QED
    BY <2>1, <2>2
<1>3. ASSUME NEW j \in 1..n, NEW k \in 1..n, f[j] = f[k]
      PROVE  j = k
  <2>1. j - 1 \in 0..Nums /\ k - 1 \in 0..Nums /\ j - 1 < Nums /\ k - 1 < Nums
    BY <1>1, RingAssumption
  <2>2. Item(r, j - 1) = Item(r, k - 1)
    BY <1>3
  <2>3. QED
    BY <2>1, <2>2, ItemIs, RingAssumption DEF Items
<1>4. ASSUME NEW s \in R
      PROVE  \E k \in 1..n : f[k] = s
  <2>1. PICK i \in 0..n - 1 : s = Item(r, i)
    BY <1>4 DEF Segment
  <2>2. i + 1 \in 1..n /\ (i + 1) - 1 = i
    BY <1>1
  <2>3. QED
    BY <2>1, <2>2
<1> HIDE DEF f, R
<1>5. f \in Bijection(1..n, R)
  BY <1>2, <1>3, <1>4, Fun_IsBij
<1>6. ExistsBijection(1..n, R)
  BY <1>5 DEF ExistsBijection
<1>7. Cardinality(R) = n
  BY <1>1, <1>6, FS_CountingElements
<1>8. QED
  BY <1>7 DEF R

LEMMA WaitingIsQueue ==
  \A r \in Rings : \A n \in 0..Nums : IndexOK /\ Segment(r, n) => Waiting(r) = Queue(r, n)
BY ReadyItemsCount DEF Waiting, Queue

\* The same in the next state.
LEMMA WaitingIsQueueNext ==
  (\A r \in Rings : \A n \in 0..Nums : IndexOK /\ Segment(r, n) => Waiting(r) = Queue(r, n))'
BY WaitingIsQueue, PTL

LEMMA QueueIs ==
  ASSUME TypeOK, NEW r \in Rings, NEW n \in 0..Nums
  PROVE  Queue(r, n) \in [1..n -> [Fields -> Nat]]
<1>1. IndexOK
  BY DEF TypeOK, IndexOK
<1>2. ASSUME NEW i \in 1..n
      PROVE  info[r][Item(r, i - 1)] \in [Fields -> Nat]
  <2>1. i - 1 \in 0..Nums
    BY RingAssumption
  <2>2. Item(r, i - 1) \in Items
    BY <1>1, <2>1, ItemIs
  <2>3. QED
    BY <2>2 DEF TypeOK
<1>3. QED
  BY <1>2 DEF Queue

\* A step that changes none of the READY items of a ring leaves what waits.
LEMMA WaitingKept ==
  ASSUME RingInv, RingInv', NEW r \in Rings, ~lapped[r],
         status'[r] = status[r], cpu_idx'[r] = cpu_idx[r], sem_idx'[r] = sem_idx[r],
         \A s \in Items : status[r][s] = "READY" => info'[r][s] = info[r][s]
  PROVE  Waiting(r)' = Waiting(r)
<1>1. PICK n \in 0..Nums : Segment(r, n)
  BY DEF RingInv, ReadyInOrder, Segment
<1>2. Segment(r, n)'
  BY <1>1 DEF Segment, Item
<1>3. Waiting(r) = Queue(r, n)
  BY <1>1, WaitingIsQueue DEF RingInv
<1>4. Waiting(r)' = Queue(r, n)'
  BY <1>2, WaitingIsQueueNext DEF RingInv
<1>5. ASSUME NEW i \in 1..n
      PROVE  info'[r][Item(r, i - 1)'] = info[r][Item(r, i - 1)]
  <2>1. i - 1 \in 0..n - 1 /\ i - 1 \in 0..Nums
    BY RingAssumption
  <2>2. Item(r, i - 1) \in Items
    BY <2>1, ItemIs DEF RingInv
  <2>3. status[r][Item(r, i - 1)] = "READY"
    BY <1>1, <2>1, <2>2 DEF Segment
  <2>4. Item(r, i - 1)' = Item(r, i - 1)
    BY DEF Item
  <2>5. QED
    BY <2>2, <2>3, <2>4
<1>6. Queue(r, n)' = Queue(r, n)
  BY <1>5 DEF Queue
<1>7. QED
  BY <1>3, <1>4, <1>6

\* Publishing appends the item that was written, ...
LEMMA WaitingGrows ==
  ASSUME RingInv, RingInv', TypeOK, TypeOK', NEW r \in Rings, ~lapped[r],
         status[r][sem_idx[r]] = "FREE",
         status' = [status EXCEPT ![r][sem_idx[r]] = "READY"],
         sem_idx' = [sem_idx EXCEPT ![r] = (@ + 1) % Nums],
         UNCHANGED <<cpu_idx, info>>
  PROVE  Waiting(r)' = Append(Waiting(r), info[r][sem_idx[r]])
<1>1. PICK n \in 0..Nums : Segment(r, n)
  BY DEF RingInv, ReadyInOrder, Segment
<1>2. n + 1 \in 0..Nums /\ Segment(r, n + 1)'
  BY <1>1, SegmentGrows DEF RingInv
<1>3. Waiting(r) = Queue(r, n)
  BY <1>1, WaitingIsQueue DEF RingInv
<1>4. Waiting(r)' = Queue(r, n + 1)'
  BY <1>2, WaitingIsQueueNext DEF RingInv
<1>5. Queue(r, n + 1)' = Queue(r, n + 1)
  BY DEF Queue, Item
<1>6. /\ Queue(r, n) \in [1..n -> [Fields -> Nat]]
      /\ Queue(r, n + 1) \in [1..n + 1 -> [Fields -> Nat]]
  BY <1>2, QueueIs
<1>7. \A i \in 1..n : Queue(r, n + 1)[i] = Queue(r, n)[i]
  BY <1>2 DEF Queue
<1>8. Queue(r, n + 1)[n + 1] = info[r][sem_idx[r]]
  BY <1>1, <1>2 DEF Queue, Segment
<1>9. n \in Nat
  BY RingAssumption
<1>10. QED
  BY <1>3, <1>4, <1>5, <1>6, <1>7, <1>8, <1>9, AppendIs

\* ... and setting an item FREE takes the first.
LEMMA WaitingShrinks ==
  ASSUME RingInv, RingInv', TypeOK, TypeOK', NEW r \in Rings, ~lapped[r],
         status[r][cpu_idx[r]] = "READY",
         status' = [status EXCEPT ![r][cpu_idx[r]] = "FREE"],
         cpu_idx' = [cpu_idx EXCEPT ![r] = (@ + 1) % Nums],
         UNCHANGED <<sem_idx, info>>
  PROVE  /\ Waiting(r) # <<>> /\ Head(Waiting(r)) = info[r][cpu_idx[r]]
         /\ Waiting(r)' = Tail(Waiting(r))
<1>1. PICK n \in 0..Nums : Segment(r, n)
  BY DEF RingInv, ReadyInOrder, Segment
<1>2. n - 1 \in 0..Nums /\ Segment(r, n - 1)'
  BY <1>1, SegmentShrinks DEF RingInv
<1>3. Waiting(r) = Queue(r, n)
  BY <1>1, WaitingIsQueue DEF RingInv
<1>4. Waiting(r)' = Queue(r, n - 1)'
  BY <1>2, WaitingIsQueueNext DEF RingInv
<1>5. n \in Nat \ {0}
  BY <1>2, RingAssumption
<1>6. Queue(r, n) \in [1..n -> [Fields -> Nat]]
  BY QueueIs
<1> DEFINE rest == [i \in 1..n - 1 |-> Queue(r, n)[i + 1]]
<1>7. rest \in [1..n - 1 -> [Fields -> Nat]]
  <2>1. \A i \in 1..n - 1 : i + 1 \in 1..n
    BY <1>5
  <2>2. QED
    BY <1>6, <2>1
<1>8. Queue(r, n - 1)' = rest
  <2>1. ASSUME NEW i \in 1..n - 1
        PROVE  Item(r, i - 1)' = Item(r, (i + 1) - 1) /\ i + 1 \in 1..n
    <3>1. i - 1 \in 0..Nums - 1 /\ (i - 1) + 1 = (i + 1) - 1 /\ i + 1 \in 1..n
      BY <1>5, RingAssumption
    <3>2. Item(r, i - 1)' = Item(r, (i - 1) + 1)
      BY <3>1, ItemShift DEF RingInv
    <3>3. QED
      BY <3>1, <3>2
  <2>2. QED
    BY <2>1 DEF Queue
<1>9. Queue(r, n)[1] = info[r][cpu_idx[r]]
  <2>1. cpu_idx[r] \in Items /\ 1 - 1 = 0 /\ 1 \in 1..n
    BY <1>5 DEF TypeOK
  <2>2. Item(r, 0) = cpu_idx[r]
    BY <2>1, ModSmall DEF Item, Items
  <2>3. QED
    BY <2>1, <2>2 DEF Queue
<1>10. \A i \in 1..n - 1 : rest[i] = Queue(r, n)[i + 1]
  OBVIOUS
<1> HIDE DEF rest
<1>11. /\ Queue(r, n) # <<>> /\ Head(Queue(r, n)) = Queue(r, n)[1]
       /\ Tail(Queue(r, n)) = rest
  BY <1>5, <1>6, <1>7, <1>10, TailIs
<1>12. QED
  BY <1>3, <1>4, <1>8, <1>9, <1>11

\* A block that finds the item it wants to write READY has filled the ring.
LEMMA FullRing ==
  ASSUME RingInv, TypeOK, NEW r \in Rings, ~lapped[r], status[r][sem_idx[r]] = "READY"
  PROVE  Len(Waiting(r)) = Nums
<1>1. PICK n \in 0..Nums : Segment(r, n)
  BY DEF RingInv, ReadyInOrder, Segment
<1>2. n = Nums
  <2>1. sem_idx[r] \in Items
    BY DEF TypeOK
  <2>2. PICK i \in 0..n - 1 : Item(r, n) = Item(r, i)
    BY <1>1, <2>1 DEF Segment
  <2>3. i \in 0..Nums /\ i < n
    BY RingAssumption
  <2>4. QED
    BY <2>2, <2>3, ItemIs, RingAssumption DEF RingInv, Items
<1>3. Waiting(r) = Queue(r, n)
  BY <1>1, WaitingIsQueue DEF RingInv
<1>4. Queue(r, n) \in [1..n -> [Fields -> Nat]] /\ n \in Nat
  BY QueueIs, RingAssumption
<1>5. Len(Queue(r, n)) = n
  BY <1>4
<1>6. QED
  BY <1>2, <1>3, <1>5

LEMMA LedgerInit ==
  ASSUME Init
  PROVE  Ledger!Init
<1>1. ASSUME NEW r \in Rings
      PROVE  Waiting(r) = <<>>
  <2>1. Segment(r, 0)
    BY ZeroIsItem, ModSmall, RingAssumption DEF Init, Segment, Item
  <2>2. Waiting(r) = Queue(r, 0)
    BY <2>1, InitRingInv, WaitingIsQueue, RingAssumption DEF RingInv
  <2>3. Queue(r, 0) = <<>>
    BY DEF Queue
  <2>4. QED
    BY <2>2, <2>3
<1>2. QED
  BY <1>1 DEF Init, Ledger!Init

\* What a step of the ledger on ring r is, in terms of its variables.
LEMMA LedgerReceive ==
  ASSUME NEW r \in Rings, NEW sh \in Bursts, ~exit_cond,
         Current[r] = None, Current' = [Current EXCEPT ![r] = BatchOf(sh, SizeOf(sh))],
         UNCHANGED <<Pending, Reckoned, lapped, exit_cond>>
  PROVE  Ledger!Next
<1>1. Ledger!Receive(r)
  BY DEF Ledger!Receive, Current, Pending, Reckoned
<1>2. QED
  BY <1>1 DEF Ledger!Next

LEMMA LedgerHalt ==
  ASSUME ~exit_cond, exit_cond' = TRUE, UNCHANGED <<Current, Pending, Reckoned, lapped>>
  PROVE  Ledger!Next
<1>1. Ledger!Halt
  BY DEF Ledger!Halt, Current, Pending, Reckoned
<1>2. QED
  BY <1>1 DEF Ledger!Next

LEMMA LedgerCut ==
  ASSUME NEW r \in Rings, NEW d \in Ledger!Parts(Current[r]), Current[r] # None,
         Current' = [Current EXCEPT ![r] = d], exit_cond' = TRUE,
         UNCHANGED <<Pending, Reckoned, lapped>>
  PROVE  Ledger!Next
<1>1. Ledger!Cut(r)
  BY DEF Ledger!Cut, Current, Pending, Reckoned
<1>2. QED
  BY <1>1 DEF Ledger!Next

LEMMA LedgerDrop ==
  ASSUME NEW r \in Rings, Current' = [Current EXCEPT ![r] = None], exit_cond' = TRUE,
         UNCHANGED <<Pending, Reckoned, lapped>>
  PROVE  Ledger!Next
<1>1. Ledger!Drop(r)
  BY DEF Ledger!Drop, Current, Pending, Reckoned
<1>2. QED
  BY <1>1 DEF Ledger!Next

LEMMA LedgerReport ==
  ASSUME NEW r \in Rings, Current[r] # None, Current' = [Current EXCEPT ![r] = None],
         Pending' = IF lapped[r] THEN Pending
                    ELSE [Pending EXCEPT ![r] = Append(@, Current[r])],
         UNCHANGED <<Reckoned, lapped, exit_cond>>
  PROVE  Ledger!Next
<1>1. Ledger!Report(r)
  BY DEF Ledger!Report, Current, Pending, Reckoned
<1>2. QED
  BY <1>1 DEF Ledger!Next

LEMMA LedgerCount ==
  ASSUME NEW r \in Rings, ~lapped[r], Pending[r] # <<>>,
         Reckoned' = [Reckoned EXCEPT ![r] = Head(Pending[r])],
         Pending' = [Pending EXCEPT ![r] = Tail(@)],
         UNCHANGED <<Current, lapped, exit_cond>>
  PROVE  Ledger!Next
<1>1. Ledger!Count(r)
  BY DEF Ledger!Count, Current, Pending, Reckoned
<1>2. QED
  BY <1>1 DEF Ledger!Next

LEMMA LedgerLapse ==
  ASSUME NEW r \in Rings, ~lapped[r], Current[r] # None, Len(Pending[r]) = Nums,
         lapped' = [lapped EXCEPT ![r] = TRUE],
         Pending' = [Pending EXCEPT ![r] = <<>>],
         Reckoned' = [Reckoned EXCEPT ![r] = None],
         UNCHANGED <<Current, exit_cond>>
  PROVE  Ledger!Next
<1>1. Ledger!Lapse(r)
  BY DEF Ledger!Lapse, Current, Pending, Reckoned
<1>2. QED
  BY <1>1 DEF Ledger!Next

LEMMA LedgerStutters ==
  ASSUME UNCHANGED <<Current, Pending, Reckoned, lapped, exit_cond>>
  PROVE  UNCHANGED Ledger!vars
BY DEF Ledger!vars, Current, Pending, Reckoned

LEMMA LedgerStep ==
  ASSUME RingInv, RingInv', CountInv, CountInv', [Next]_vars
  PROVE  [Ledger!Next]_Ledger!vars
<1> USE DEF CountInv, blockVars, statsVars, gpuVars
<1>1. /\ \A r \in Rings : lapped[r] \in BOOLEAN /\ Current[r] = IF block[r] \in {"add", "fill"}
                                                              THEN BatchOf(share[r], out_pkt_num[r]) ELSE None
      /\ \A r \in Rings : Pending[r] = IF lapped[r] THEN <<>> ELSE Waiting(r)
  BY DEF TypeOK, Current, Pending
<1>2. ASSUME UNCHANGED <<status, cpu_idx, sem_idx, lapped>>,
             \A p \in Rings : ~lapped[p] => \A s \in Items :
               status[p][s] = "READY" => info'[p][s] = info[p][s]
      PROVE  Pending' = Pending
  <2>1. \A p \in Rings : ~lapped[p] => Waiting(p)' = Waiting(p)
    BY <1>2, WaitingKept
  <2>2. QED
    BY <1>2, <2>1 DEF Pending
<1>3. ASSUME UNCHANGED <<counted, lapped>>
      PROVE  Reckoned' = Reckoned
  BY <1>3 DEF Reckoned
<1>4. ASSUME NEW r \in Rings, BlockReceive(r)
      PROVE  Ledger!Next
  <2>1. PICK sh \in Bursts : /\ share' = [share EXCEPT ![r] = sh]
                             /\ out_pkt_num' = [out_pkt_num EXCEPT ![r] = SizeOf(sh)]
    BY <1>4 DEF BlockReceive
  <2>2. /\ block[r] = "recv" /\ block' = [block EXCEPT ![r] = "add"] /\ ~exit_cond
        /\ UNCHANGED <<exit_cond, status, info, sem_idx, cpu_idx, counted, lapped>>
    BY <1>4 DEF BlockReceive
  <2>3. Current[r] = None
    BY <1>1, <2>2
  <2>4. Current' = [Current EXCEPT ![r] = BatchOf(sh, SizeOf(sh))]
    BY <2>1, <2>2 DEF Current, TypeOK
  <2>5. UNCHANGED <<Pending, Reckoned, lapped>>
    BY <1>2, <1>3, <2>2
  <2>6. QED
    BY <2>2, <2>3, <2>4, <2>5, LedgerReceive
<1>5. ASSUME NEW r \in Rings, BlockExit(r) \/ BlockError(r)
      PROVE  Ledger!Next
  <2>1. /\ block' = [block EXCEPT ![r] = "exited"] /\ exit_cond' = TRUE
        /\ UNCHANGED <<status, info, share, out_pkt_num, sem_idx, cpu_idx, counted, lapped>>
    BY <1>5 DEF BlockExit, BlockError
  <2>2. Current' = [Current EXCEPT ![r] = None]
    BY <2>1 DEF Current, TypeOK
  <2>3. UNCHANGED <<Pending, Reckoned, lapped>>
    BY <1>2, <1>3, <2>1
  <2>4. QED
    BY <2>1, <2>2, <2>3, LedgerDrop
<1>6. ASSUME NEW r \in Rings, NEW w \in Warps, WarpAdd(r, w)
      PROVE  UNCHANGED Ledger!vars
  <2>1. UNCHANGED <<status, info, block, share, out_pkt_num, sem_idx, cpu_idx, counted,
                    lapped, exit_cond>>
    BY <1>6 DEF WarpAdd
  <2>2. UNCHANGED <<Current, Pending, Reckoned, lapped>>
    BY <1>2, <1>3, <2>1 DEF Current
  <2>3. QED
    BY <2>1, <2>2, LedgerStutters
<1>7. ASSUME NEW r \in Rings, BlockFill(r)
      PROVE  [Ledger!Next]_Ledger!vars
  <2>1. /\ block[r] = "add" /\ block' = [block EXCEPT ![r] = "fill"]
        /\ lapped' = [lapped EXCEPT ![r] = @ \/ status[r][sem_idx[r]] = "READY"]
        /\ UNCHANGED <<status, info, share, out_pkt_num, sem_idx, cpu_idx, counted,
                       exit_cond>>
    BY <1>7 DEF BlockFill
  <2>2. Current' = Current
    BY <2>1 DEF Current, TypeOK
  <2>3. CASE lapped[r] \/ status[r][sem_idx[r]] # "READY"
    <3>1. lapped'[r] = lapped[r]
      BY <2>1, <2>3 DEF TypeOK
    <3>2. lapped' = lapped
      BY <2>1, <3>1 DEF TypeOK
    <3>3. UNCHANGED <<Pending, Reckoned, lapped>>
      BY <1>2, <1>3, <2>1, <3>2
    <3>4. QED
      BY <2>1, <2>2, <3>3, LedgerStutters
  <2>4. CASE ~lapped[r] /\ status[r][sem_idx[r]] = "READY"
    <3>1. lapped' = [lapped EXCEPT ![r] = TRUE]
      BY <2>1, <2>4
    <3>2. \A p \in Rings : p # r /\ ~lapped[p] => Waiting(p)' = Waiting(p)
      BY <2>1, WaitingKept
    <3>3. Pending' = [Pending EXCEPT ![r] = <<>>]
      BY <3>1, <3>2 DEF Pending, TypeOK
    <3>4. Reckoned' = [Reckoned EXCEPT ![r] = None]
      BY <2>1, <3>1 DEF Reckoned, TypeOK
    <3>5. Current[r] # None
      BY <1>1, <2>1, BatchIs DEF TypeOK
    <3>6. Len(Pending[r]) = Nums
      BY <1>1, <2>4, FullRing
    <3>7. Ledger!Next
      BY <2>1, <2>2, <2>4, <3>1, <3>3, <3>4, <3>5, <3>6, LedgerLapse
    <3>8. QED
      BY <3>7
  <2>5. QED
    BY <2>3, <2>4 DEF TypeOK
<1>8. ASSUME NEW r \in Rings, WriteField(r)
      PROVE  UNCHANGED Ledger!vars
  <2>1. /\ block[r] = "fill"
        /\ UNCHANGED <<status, block, share, out_pkt_num, sem_idx, cpu_idx, counted,
                       lapped, exit_cond>>
    BY <1>8 DEF WriteField
  <2>2. PICK f, v : info' = [info EXCEPT ![r][sem_idx[r]][f] = v]
    BY <1>8 DEF WriteField
  <2>3. \A p \in Rings : ~lapped[p] => \A s \in Items :
          status[p][s] = "READY" => info'[p][s] = info[p][s]
    BY <2>1, <2>2 DEF RingInv, WritesFree, TypeOK
  <2>4. UNCHANGED <<Current, Pending, Reckoned, lapped>>
    BY <1>2, <1>3, <2>1, <2>3 DEF Current
  <2>5. QED
    BY <2>1, <2>4, LedgerStutters
<1>9. ASSUME NEW r \in Rings, Publish(r)
      PROVE  Ledger!Next
  <2>1. /\ block[r] = "fill" /\ toWrite[r] = {} /\ block' = [block EXCEPT ![r] = "recv"]
        /\ status' = [status EXCEPT ![r][sem_idx[r]] = "READY"]
        /\ sem_idx' = [sem_idx EXCEPT ![r] = (@ + 1) % Nums]
        /\ share' = [share EXCEPT ![r] = NoShare]
        /\ out_pkt_num' = [out_pkt_num EXCEPT ![r] = 0]
        /\ UNCHANGED <<info, cpu_idx, counted, lapped, exit_cond>>
    BY <1>9 DEF Publish
  <2>2. Current[r] # None /\ Current[r] = BatchOf(share[r], out_pkt_num[r])
    BY <1>1, <2>1, BatchIs DEF TypeOK
  <2>3. Current' = [Current EXCEPT ![r] = None]
    BY <2>1 DEF Current, TypeOK
  <2>4. \A p \in Rings : p # r /\ ~lapped[p] => Waiting(p)' = Waiting(p)
    BY <2>1, WaitingKept DEF TypeOK
  <2>5. CASE lapped[r]
    <3>1. Pending' = Pending
      BY <2>1, <2>4, <2>5 DEF Pending
    <3>2. QED
      BY <1>3, <2>1, <2>2, <2>3, <2>5, <3>1, LedgerReport
  <2>6. CASE ~lapped[r]
    <3>1. status[r][sem_idx[r]] = "FREE"
      BY <2>1, <2>6 DEF RingInv, WritesFree
    <3>2. Waiting(r)' = Append(Waiting(r), info[r][sem_idx[r]])
      BY <2>1, <2>6, <3>1, WaitingGrows
    <3>3. info[r][sem_idx[r]] = BatchOf(share[r], out_pkt_num[r])
      <4>1. /\ info[r][sem_idx[r]] \in [Fields -> Nat]
            /\ BatchOf(share[r], out_pkt_num[r]) \in [Fields -> Nat]
        BY BatchIs DEF TypeOK
      <4>2. \A f \in Fields :
              info[r][sem_idx[r]][f] = BatchOf(share[r], out_pkt_num[r])[f]
        BY <2>1, <2>6 DEF FilledOK
      <4>3. QED
        BY <4>1, <4>2
    <3>4. Pending' = [Pending EXCEPT ![r] = Append(@, Current[r])]
      BY <1>1, <2>1, <2>2, <2>4, <2>6, <3>2, <3>3 DEF Pending
    <3>5. QED
      BY <1>3, <2>1, <2>2, <2>3, <2>6, <3>4, LedgerReport
  <2>7. QED
    BY <2>5, <2>6
<1>10. CASE FreeItem
  <2>1. /\ stats = "read" /\ toRead = {} /\ idxq \in Rings
        /\ status' = [status EXCEPT ![idxq][cpu_idx[idxq]] = "FREE"]
        /\ cpu_idx' = [cpu_idx EXCEPT ![idxq] = (@ + 1) % Nums]
        /\ counted' = [counted EXCEPT ![idxq] = added]
        /\ UNCHANGED <<info, block, share, out_pkt_num, sem_idx, lapped, exit_cond>>
    BY <1>10 DEF FreeItem, TypeOK
  <2>2. PICK r \in Rings : r = idxq
    BY <2>1
  <2>3. Current' = Current
    BY <2>1 DEF Current
  <2>4. \A p \in Rings : p # r /\ ~lapped[p] => Waiting(p)' = Waiting(p)
    BY <2>1, <2>2, WaitingKept DEF TypeOK
  <2>5. CASE lapped[r]
    <3>1. Pending' = Pending
      BY <2>1, <2>4, <2>5 DEF Pending
    <3>2. Reckoned' = Reckoned
      BY <2>1, <2>2, <2>5 DEF Reckoned, TypeOK
    <3>3. UNCHANGED Ledger!vars
      BY <2>1, <2>3, <3>1, <3>2, LedgerStutters
    <3>4. QED
      BY <3>3
  <2>6. CASE ~lapped[r]
    <3>1. status[r][cpu_idx[r]] = "READY"
      BY <2>1, <2>2, <2>6 DEF RingInv, ReadsReady
    <3>2. /\ Waiting(r) # <<>> /\ Head(Waiting(r)) = info[r][cpu_idx[r]]
          /\ Waiting(r)' = Tail(Waiting(r))
      BY <2>1, <2>2, <2>6, <3>1, WaitingShrinks
    <3>3. added = info[r][cpu_idx[r]]
      <4>1. info[r][cpu_idx[r]] \in [Fields -> Nat] /\ added \in [Fields -> Nat]
        BY DEF TypeOK
      <4>2. \A f \in Fields : added[f] = info[r][cpu_idx[r]][f]
        BY <2>1, <2>2, <2>6 DEF CopiedOK
      <4>3. QED
        BY <4>1, <4>2
    <3>4. Pending' = [Pending EXCEPT ![r] = Tail(@)]
      BY <1>1, <2>1, <2>4, <2>6, <3>2 DEF Pending
    <3>5. Reckoned' = [Reckoned EXCEPT ![r] = Head(Pending[r])]
      BY <1>1, <2>1, <2>2, <2>6, <3>2, <3>3 DEF Reckoned, TypeOK
    <3>6. Pending[r] # <<>>
      BY <1>1, <2>6, <3>2
    <3>7. Ledger!Next
      BY <2>1, <2>3, <2>6, <3>4, <3>5, <3>6, LedgerCount
    <3>8. QED
      BY <3>7
  <2>7. QED
    BY <2>5, <2>6
<1>11. CASE StatsLoop \/ PollFree \/ PollReady \/ ReadField \/ StatsError
            \/ Quit \/ StopKernels \/ UNCHANGED vars
  <2>1. UNCHANGED <<status, info, block, share, out_pkt_num, sem_idx, cpu_idx, counted,
                    lapped>>
    BY <1>11 DEF StatsLoop, PollFree, PollReady, ReadField, StatsError, Quit,
                 StopKernels, vars
  <2>2. UNCHANGED <<Current, Pending, Reckoned, lapped>>
    BY <1>2, <1>3, <2>1 DEF Current
  <2>3. CASE UNCHANGED exit_cond
    BY <2>2, <2>3, LedgerStutters
  <2>4. CASE StopKernels
    BY <2>2, <2>4, LedgerHalt DEF StopKernels
  <2>5. QED
    BY <1>11, <2>3, <2>4 DEF StatsLoop, PollFree, PollReady, ReadField, StatsError, Quit,
                             vars
<1>12. ASSUME NEW r \in Rings, NEW w \in Warps, WarpBreaks(r, w)
       PROVE  Ledger!Next
  <2>1. PICK part \in [Classes -> 0..MaxPkts] :
               /\ \A c \in Classes : part[c] <= share[r][w][c]
               /\ share' = [share EXCEPT ![r][w] = part]
    BY <1>12 DEF WarpBreaks
  <2>2. /\ block[r] = "add" /\ exit_cond' = TRUE
        /\ UNCHANGED <<status, info, block, out_pkt_num, sem_idx, cpu_idx, counted, lapped>>
    BY <1>12 DEF WarpBreaks
  <2> DEFINE n == out_pkt_num[r]
             b == BatchOf(share[r], n)
             d == BatchOf(share'[r], n)
  <2>3. Current[r] = b /\ Current' = [Current EXCEPT ![r] = d]
    BY <1>1, <2>1, <2>2 DEF Current, TypeOK
  <2>4. share[r] \in Shares /\ share'[r] \in Shares /\ n \in 0..MaxPkts
    BY DEF TypeOK
  <2>5. \A c \in Classes : CountOf(share'[r], c) <= CountOf(share[r], c)
    <3>1. \A v \in Warps : \A c \in Classes : share'[r][v][c] <= share[r][v][c]
      <4>1. \A v \in Warps : share'[r][v] = IF v = w THEN part ELSE share[r][v]
        BY <2>1 DEF TypeOK, Shares
      <4>2. \A v \in Warps : \A c \in Classes : share[r][v][c] \in 0..MaxPkts
        BY <2>4 DEF Shares
      <4>3. QED
        BY <2>1, <4>1, <4>2, ClassAssumption
    <3>2. QED
      BY <2>4, <3>1, BreakCounts
  <2>6. /\ b \in [Fields -> Nat] /\ b # None /\ d \in [Fields -> Nat]
        /\ b["total"] = d["total"]
        /\ \A f \in Fields : d[f] <= b[f]
    <3>1. /\ b \in [Fields -> Nat] /\ b # None /\ d \in [Fields -> Nat]
          /\ b["total"] = n /\ d["total"] = n
          /\ \A c \in Classes : b[c] = CountOf(share[r], c) /\ d[c] = CountOf(share'[r], c)
      BY <2>4, BatchIs
    <3> HIDE DEF b, d
    <3>2. QED
      BY <2>4, <2>5, <3>1, ClassAssumption DEF Fields
  <2> HIDE DEF b, d
  <2>7. d \in Ledger!Parts(b)
    <3>1. DOMAIN b = Fields /\ \A f \in Fields : d[f] \in 0..b[f]
      BY <2>6
    <3>2. QED
      BY <2>6, <3>1 DEF Ledger!Parts
  <2>8. UNCHANGED <<Pending, Reckoned, lapped>>
    BY <1>2, <1>3, <2>2
  <2>9. QED
    BY <2>2, <2>3, <2>6, <2>7, <2>8, LedgerCut
<1>13. QED
  BY <1>4, <1>5, <1>6, <1>7, <1>8, <1>9, <1>10, <1>11, <1>12 DEF Next, Block, Stats

\* The rings implement the ledger, for every number of queues, every ring and
\* block size and every set of classes: what stats_core adds to its counters
\* are the bursts the kernels received, each once and in order, until a kernel
\* meets a ring that is full; whole, but for those whose threads fail to hand a
\* GET over, which stops all the kernels.
THEOREM RingsImplementLedger == Spec => ImplementsLedger
<1>1. RingInv /\ RingInv' /\ CountInv /\ CountInv' /\ [Next]_vars
        => [Ledger!Next]_Ledger!vars
  BY LedgerStep
<1>2. Init => Ledger!Init
  BY LedgerInit
<1>3. QED
  BY <1>1, <1>2, CountInvariant, PTL DEF Spec, ImplementsLedger, Ledger!Spec
=============================================================================
