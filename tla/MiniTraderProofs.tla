-------------------------- MODULE MiniTraderProofs --------------------------
(***************************************************************************)
(* Theorems about MiniTrader, for every number of events, every batch size *)
(* and every pattern of price moves.                                       *)
(***************************************************************************)
EXTENDS MiniTrader, SequenceTheorems, FiniteSetTheorems, TLAPS

Ops == [kind : Kinds, left : SUBSET Events]

\* The events of a batch of m events from s on that are counted once the threads
\* in left are all that is missing, and those before event k.
Hits(mv, s, m, left) == {e \in s..s + m - 1 : e # s /\ mv[e] /\ e - s \notin left}
Fires(mv, size, k) == {e \in 0..k - 1 : e % size # 0 /\ mv[e]}

\* Memory ev holds the events of the batch, those of left excepted.
Holds(ev, s, m, left) == \A i \in (0..m - 1) \ left : ev[i] = s + i

\* The batch of m events from s on is on its way through the stream st, or
\* finished; the operations before the one at the head have had their effect.
Reset(st, hev, s, m) ==
  /\ Len(st) = 4 /\ st[1] = Op("memset", {0}) /\ st[2] = Op("h2d", 0..m - 1)
  /\ st[3] = Op("kernel", 0..m - 1) /\ st[4] = Op("d2h", {0})
  /\ Holds(hev, s, m, {})
CopyingIn(st, hev, dev, dc, s, m, left) ==
  /\ Len(st) = 3 /\ st[1] = Op("h2d", left)
  /\ st[2] = Op("kernel", 0..m - 1) /\ st[3] = Op("d2h", {0})
  /\ Holds(hev, s, m, {}) /\ Holds(dev, s, m, left) /\ dc = 0
Deciding(st, dev, dc, mv, s, m, left) ==
  /\ Len(st) = 2 /\ st[1] = Op("kernel", left) /\ st[2] = Op("d2h", {0})
  /\ Holds(dev, s, m, {}) /\ dc = Cardinality(Hits(mv, s, m, left))
CopyingOut(st, dc, mv, s, m) ==
  Len(st) = 1 /\ st[1] = Op("d2h", {0}) /\ dc = Cardinality(Hits(mv, s, m, {}))
Fetched(st, hc, mv, s, m) ==
  Len(st) = 0 /\ hc = Cardinality(Hits(mv, s, m, {}))

BatchIn(st, hev, dev, dc, hc, mv, s, m) ==
  \/ Reset(st, hev, s, m)
  \/ \E left \in SUBSET (0..m - 1) : CopyingIn(st, hev, dev, dc, s, m, left)
  \/ \E left \in SUBSET (0..m - 1) : Deciding(st, dev, dc, mv, s, m, left)
  \/ CopyingOut(st, dc, mv, s, m)
  \/ Fetched(st, hc, mv, s, m)

Batch(b, s, m) == BatchIn(stream[b], h_ev[b], d_ev[b], d_count[b], h_count[b], moves, s, m)

\* Where the host stands.  All batches are full but for the last one.
HostOK ==
  /\ batch_n >= 0 /\ (total_n > 0 => batch_n > 0) /\ processed <= total_n
  /\ pc \in {"generate", "wait"} =>
       /\ processed < total_n
       /\ n = IF batch_n < total_n - processed THEN batch_n ELSE total_n - processed
       /\ processed > 0 => batch_n <= processed
  /\ pc = "generate" => generated <= n /\ \A i \in 0..generated - 1 : h_ev[buf][i] = processed + i
  /\ pc = "wait" => n > 0
  /\ pc = "loop" /\ processed > 0 =>
       /\ n > 0 /\ n <= batch_n /\ n <= processed /\ (processed - n) % batch_n = 0
       /\ processed < total_n => n = batch_n
  /\ processed < total_n => processed % batch_n = 0

\* The size of the batch before the one that starts at processed.
Before == IF pc = "loop" THEN n ELSE batch_n

\* The buffer the host writes, or will write next, is idle; the other one works
\* on the batch before; what came before that is counted.
StreamsOK ==
  /\ pc # "wait" => stream[buf] = <<>>
  /\ pc = "wait" => Batch(buf, processed, n)
  /\ processed = 0 => buf = 0 /\ stream[1] = <<>> /\ total_orders = 0
  /\ processed > 0 => /\ Batch(1 - buf, processed - Before, Before)
                      /\ total_orders = Cardinality(Fires(moves, batch_n, processed - Before))

TraderInv ==
  /\ TypeOK
  /\ pc \in {"loop", "generate", "wait"} => HostOK /\ StreamsOK
  /\ TotalRight
-----------------------------------------------------------------------------
(* The remainder by the size of a batch.                                   *)

LEMMA MultipleMod ==
  ASSUME NEW k \in Nat \ {0}, NEW q \in Int
  PROVE  (k * q) % k = 0
OBVIOUS

LEMMA ModMultiple ==
  ASSUME NEW k \in Nat \ {0}, NEW x \in Int, x % k = 0
  PROVE  \E q \in Int : x = k * q
<1>1. x = k * (x \div k) + (x % k)
  OBVIOUS
<1>2. x \div k \in Int
  OBVIOUS
<1>3. QED
  BY <1>1, <1>2

\* One batch on, or back, the remainder is zero again; in between it is not.
LEMMA NextBatchMod ==
  ASSUME NEW k \in Nat \ {0}, NEW x \in Int, x % k = 0
  PROVE  (x + k) % k = 0 /\ (x - k) % k = 0
<1>1. PICK q \in Int : x = k * q
  BY ModMultiple
<1>2. x + k = k * (q + 1) /\ x - k = k * (q - 1)
  BY <1>1
<1>3. (k * (q + 1)) % k = 0 /\ (k * (q - 1)) % k = 0
  BY MultipleMod
<1>4. QED
  BY <1>2, <1>3

LEMMA InsideBatchMod ==
  ASSUME NEW k \in Nat \ {0}, NEW x \in Int, x % k = 0, NEW i \in 0..k - 1
  PROVE  (x + i) % k = i
OBVIOUS
-----------------------------------------------------------------------------
(* What a batch counts.                                                    *)

LEMMA HitsFinite ==
  ASSUME NEW mv, NEW s \in Nat, NEW m \in Nat, NEW left
  PROVE  IsFiniteSet(Hits(mv, s, m, left)) /\ Cardinality(Hits(mv, s, m, left)) \in Nat
<1>1. IsFiniteSet(s..s + m - 1)
  BY FS_Interval
<1>2. Hits(mv, s, m, left) \subseteq s..s + m - 1
  BY DEF Hits
<1>3. QED
  BY <1>1, <1>2, FS_Subset, FS_CardinalityType

LEMMA NoHits ==
  ASSUME NEW mv, NEW s \in Nat, NEW m \in Nat
  PROVE  Cardinality(Hits(mv, s, m, 0..m - 1)) = 0
<1>1. Hits(mv, s, m, 0..m - 1) = {}
  BY DEF Hits
<1>2. QED
  BY <1>1, FS_EmptySet

\* Thread i adds its event, if the price moved and it is not the first one.
LEMMA ThreadHits ==
  ASSUME NEW mv, NEW s \in Nat, NEW m \in Nat, NEW left \in SUBSET (0..m - 1), NEW i \in left
  PROVE  Cardinality(Hits(mv, s, m, left \ {i})) =
           IF i # 0 /\ mv[s + i] THEN Cardinality(Hits(mv, s, m, left)) + 1
                                 ELSE Cardinality(Hits(mv, s, m, left))
<1>1. i \in 0..m - 1
  OBVIOUS
<1>2. CASE i # 0 /\ mv[s + i]
  <2>1. Hits(mv, s, m, left \ {i}) = Hits(mv, s, m, left) \cup {s + i}
    BY <1>1, <1>2 DEF Hits
  <2>2. s + i \notin Hits(mv, s, m, left)
    BY <1>1 DEF Hits
  <2>3. QED
    BY <1>2, <2>1, <2>2, HitsFinite, FS_AddElement
<1>3. CASE ~(i # 0 /\ mv[s + i])
  <2>1. Hits(mv, s, m, left \ {i}) = Hits(mv, s, m, left)
    BY <1>1, <1>3 DEF Hits
  <2>2. QED
    BY <1>3, <2>1
<1>4. QED
  BY <1>2, <1>3

LEMMA FiresNone ==
  ASSUME NEW mv, NEW k
  PROVE  Cardinality(Fires(mv, k, 0)) = 0
<1>1. Fires(mv, k, 0) = {}
  BY DEF Fires
<1>2. QED
  BY <1>1, FS_EmptySet

\* A batch that starts at a multiple of the size adds its hits to the total.
LEMMA BatchFires ==
  ASSUME NEW mv, NEW k \in Nat \ {0}, NEW s \in Nat, s % k = 0, NEW m \in Nat, m <= k
  PROVE  Cardinality(Fires(mv, k, s + m)) =
           Cardinality(Fires(mv, k, s)) + Cardinality(Hits(mv, s, m, {}))
<1>1. \A e \in s..s + m - 1 : e % k # 0 <=> e # s
  <2>1. SUFFICES ASSUME NEW e \in s..s + m - 1 PROVE e % k # 0 <=> e # s
    OBVIOUS
  <2>2. e - s \in 0..k - 1 /\ e = s + (e - s)
    OBVIOUS
  <2>3. PICK i \in 0..k - 1 : i = e - s
    BY <2>2
  <2>4. (s + i) % k = i
    BY InsideBatchMod, s \in Int, Zenon
  <2>5. QED
    BY <2>3, <2>4
<1>2. Fires(mv, k, s + m) = Fires(mv, k, s) \cup Hits(mv, s, m, {})
  <2>1. \A e : e \in 0..s + m - 1 <=> e \in 0..s - 1 \/ e \in s..s + m - 1
    OBVIOUS
  <2>2. \A e : e \in Hits(mv, s, m, {}) <=> e \in s..s + m - 1 /\ e # s /\ mv[e]
    BY DEF Hits
  <2>3. QED
    BY <1>1, <2>1, <2>2 DEF Fires
<1>3. Fires(mv, k, s) \cap Hits(mv, s, m, {}) = {}
  BY DEF Fires, Hits
<1>4. IsFiniteSet(Fires(mv, k, s))
  <2>1. IsFiniteSet(0..s - 1) /\ Fires(mv, k, s) \subseteq 0..s - 1
    BY FS_Interval DEF Fires
  <2>2. QED
    BY <2>1, FS_Subset
<1>5. Cardinality(Fires(mv, k, s) \cup Hits(mv, s, m, {})) =
        Cardinality(Fires(mv, k, s)) + Cardinality(Hits(mv, s, m, {}))
        - Cardinality(Fires(mv, k, s) \cap Hits(mv, s, m, {}))
  BY <1>4, HitsFinite, FS_Union
<1>6. /\ Cardinality(Fires(mv, k, s)) \in Nat /\ Cardinality(Hits(mv, s, m, {})) \in Nat
      /\ Cardinality({}) = 0
  BY <1>4, HitsFinite, FS_EmptySet, FS_CardinalityType
<1>7. Cardinality(Fires(mv, k, s) \cap Hits(mv, s, m, {})) = 0
  BY <1>3, <1>6
<1>8. Cardinality(Fires(mv, k, s + m)) = Cardinality(Fires(mv, k, s) \cup Hits(mv, s, m, {}))
  BY <1>2, Zenon
<1>9. QED
  BY <1>5, <1>6, <1>7, <1>8
-----------------------------------------------------------------------------
(* What a step of the GPU makes of a stream.                                *)

\* The stream st once element i of its oldest operation is done.
After(st, i) ==
  IF Head(st).left = {i} THEN Tail(st)
  ELSE <<Op(Head(st).kind, Head(st).left \ {i})>> \o Tail(st)

LEMMA OpType == ASSUME NEW kind \in Kinds, NEW left \in SUBSET Events
                PROVE  Op(kind, left) \in Ops
BY DEF Op, Ops

LEMMA ConsSeq ==
  ASSUME NEW S, NEW x \in S, NEW t \in Seq(S)
  PROVE  /\ <<x>> \o t \in Seq(S) /\ Len(<<x>> \o t) = Len(t) + 1
         /\ (<<x>> \o t)[1] = x /\ \A k \in 1..Len(t) : (<<x>> \o t)[k + 1] = t[k]
<1> DEFINE u == <<x>>
<1>1. u \in Seq(S) /\ Len(u) = 1 /\ u[1] = x /\ Len(t) \in Nat
  OBVIOUS
<1>2. \A s \in Seq(S) :
        /\ s \o t \in Seq(S) /\ Len(s \o t) = Len(s) + Len(t)
        /\ \A k \in 1..Len(s) + Len(t) : (s \o t)[k] = IF k <= Len(s) THEN s[k] ELSE t[k - Len(s)]
  BY ConcatProperties
<1> HIDE DEF u
<1>3. /\ u \o t \in Seq(S) /\ Len(u \o t) = 1 + Len(t)
      /\ \A k \in 1..1 + Len(t) : (u \o t)[k] = IF k <= 1 THEN u[k] ELSE t[k - 1]
  BY <1>1, <1>2
<1>4. (u \o t)[1] = x /\ \A k \in 1..Len(t) : (u \o t)[k + 1] = t[k]
  BY <1>1, <1>3
<1>5. QED
  BY <1>1, <1>3, <1>4 DEF u

LEMMA AfterShape ==
  ASSUME NEW st \in Seq(Ops), st # <<>>, NEW i \in Head(st).left
  PROVE  /\ After(st, i) \in Seq(Ops)
         /\ Head(st) = st[1] /\ Len(st) \in Nat \ {0}
         /\ st[1].left = {i} =>
              Len(After(st, i)) = Len(st) - 1 /\ \A k \in 1..Len(st) - 1 : After(st, i)[k] = st[k + 1]
         /\ st[1].left # {i} =>
              /\ Len(After(st, i)) = Len(st)
              /\ After(st, i)[1] = Op(st[1].kind, st[1].left \ {i})
              /\ \A k \in 2..Len(st) : After(st, i)[k] = st[k]
<1>1. /\ Head(st) = st[1] /\ Len(st) \in Nat \ {0} /\ st[1] \in Ops
      /\ Tail(st) \in Seq(Ops) /\ Len(Tail(st)) = Len(st) - 1
      /\ \A k \in 1..Len(st) - 1 : Tail(st)[k] = st[k + 1]
  BY HeadTailProperties
<1>2. CASE st[1].left = {i}
  BY <1>1, <1>2 DEF After
<1>3. CASE st[1].left # {i}
  <2> DEFINE x == Op(st[1].kind, st[1].left \ {i})
             t == Tail(st)
  <2>1. x \in Ops
    <3>1. st[1].kind \in Kinds /\ st[1].left \in SUBSET Events
      BY <1>1 DEF Ops
    <3>2. QED
      BY <3>1, OpType
  <2>2. After(st, i) = <<x>> \o t
    BY <1>1, <1>3 DEF After
  <2>3. t \in Seq(Ops) /\ Len(t) = Len(st) - 1 /\ \A k \in 1..Len(st) - 1 : t[k] = st[k + 1]
    BY <1>1
  <2> HIDE DEF x, t
  <2>4. /\ <<x>> \o t \in Seq(Ops) /\ Len(<<x>> \o t) = Len(t) + 1
        /\ (<<x>> \o t)[1] = x /\ \A k \in 1..Len(t) : (<<x>> \o t)[k + 1] = t[k]
    BY <2>1, <2>3, ConsSeq
  <2> DEFINE a == After(st, i)
  <2>5. a \in Seq(Ops) /\ Len(a) = Len(t) + 1 /\ a[1] = x /\ \A k \in 1..Len(t) : a[k + 1] = t[k]
    BY <2>2, <2>4
  <2> HIDE DEF a
  <2>6. Len(a) = Len(st)
    BY <2>3, <2>5, <1>1
  <2>7. \A k \in 2..Len(st) : a[k] = st[k]
    <3>1. SUFFICES ASSUME NEW k \in 2..Len(st) PROVE a[k] = st[k]
      OBVIOUS
    <3>2. k - 1 \in 1..Len(t) /\ (k - 1) + 1 = k /\ k - 1 \in 1..Len(st) - 1
      BY <1>1, <2>3
    <3>3. a[(k - 1) + 1] = t[k - 1] /\ t[k - 1] = st[(k - 1) + 1]
      BY <2>3, <2>5, <3>2
    <3>4. QED
      BY <3>2, <3>3
  <2>8. QED
    BY <1>1, <1>3, <2>5, <2>6, <2>7 DEF a, x
<1>4. QED
  BY <1>2, <1>3
-----------------------------------------------------------------------------
(* A step of the GPU keeps the batch on its way.                            *)

\* The kind of the operation at the head tells how far the batch is.
LEMMA StageByKind ==
  ASSUME NEW st \in Seq(Ops), st # <<>>, NEW hev, NEW dev, NEW dc, NEW hc, NEW mv,
         NEW s \in Nat, NEW m \in Nat, BatchIn(st, hev, dev, dc, hc, mv, s, m)
  PROVE  /\ Head(st).kind = "memset" => Reset(st, hev, s, m)
         /\ Head(st).kind = "h2d" =>
              \E left \in SUBSET (0..m - 1) : CopyingIn(st, hev, dev, dc, s, m, left)
         /\ Head(st).kind = "kernel" =>
              \E left \in SUBSET (0..m - 1) : Deciding(st, dev, dc, mv, s, m, left)
         /\ Head(st).kind = "d2h" => CopyingOut(st, dc, mv, s, m)
<1>1. Head(st) = st[1] /\ Len(st) # 0
  BY HeadTailProperties
<1>2. CASE Reset(st, hev, s, m)
  BY <1>1, <1>2 DEF Reset, Op
<1>3. CASE \E left \in SUBSET (0..m - 1) : CopyingIn(st, hev, dev, dc, s, m, left)
  <2>1. Head(st).kind = "h2d"
    BY <1>1, <1>3 DEF CopyingIn, Op
  <2>2. QED
    BY <1>3, <2>1
<1>4. CASE \E left \in SUBSET (0..m - 1) : Deciding(st, dev, dc, mv, s, m, left)
  <2>1. Head(st).kind = "kernel"
    BY <1>1, <1>4 DEF Deciding, Op
  <2>2. QED
    BY <1>4, <2>1
<1>5. CASE CopyingOut(st, dc, mv, s, m)
  BY <1>1, <1>5 DEF CopyingOut, Op
<1>6. CASE Fetched(st, hc, mv, s, m)
  BY <1>1, <1>6 DEF Fetched
<1>7. QED
  BY <1>2, <1>3, <1>4, <1>5, <1>6 DEF BatchIn

LEMMA MemsetKeepsBatch ==
  ASSUME NEW st \in Seq(Ops), st # <<>>, NEW hev, NEW dev, NEW dc, NEW hc, NEW mv,
         NEW s \in Nat, NEW m \in Nat, BatchIn(st, hev, dev, dc, hc, mv, s, m),
         Head(st).kind = "memset", 0 \in Head(st).left
  PROVE  BatchIn(After(st, 0), hev, dev, 0, hc, mv, s, m)
<1>1. Reset(st, hev, s, m)
  BY StageByKind
<1>2. st[1].left = {0}
  BY <1>1 DEF Reset, Op
<1>3. Len(After(st, 0)) = Len(st) - 1 /\ \A k \in 1..Len(st) - 1 : After(st, 0)[k] = st[k + 1]
  BY <1>2, AfterShape
<1>4. CopyingIn(After(st, 0), hev, dev, 0, s, m, 0..m - 1)
  BY <1>1, <1>3 DEF Reset, CopyingIn, Holds
<1>5. QED
  BY <1>4 DEF BatchIn

LEMMA CopyInKeepsBatch ==
  ASSUME NEW st \in Seq(Ops), st # <<>>, NEW hev, NEW dc, NEW hc, NEW mv,
         NEW X, NEW dev \in [Events -> X], NEW i \in Events,
         NEW s \in Nat, NEW m \in Nat, BatchIn(st, hev, dev, dc, hc, mv, s, m),
         Head(st).kind = "h2d", i \in Head(st).left
  PROVE  BatchIn(After(st, i), hev, [dev EXCEPT ![i] = hev[i]], dc, hc, mv, s, m)
<1> DEFINE dev2 == [dev EXCEPT ![i] = hev[i]]
           a == After(st, i)
<1>1. PICK left \in SUBSET (0..m - 1) : CopyingIn(st, hev, dev, dc, s, m, left)
  BY StageByKind
<1>2. Head(st) = st[1] /\ st[1].left = left /\ st[1].kind = "h2d" /\ i \in left
  BY <1>1, AfterShape DEF CopyingIn, Op
<1>3. Holds(dev2, s, m, left \ {i})
  <2>1. hev[i] = s + i
    BY <1>1, <1>2 DEF CopyingIn, Holds
  <2>2. \A j : j # i => dev2[j] = dev[j]
    OBVIOUS
  <2>3. dev2[i] = hev[i]
    OBVIOUS
  <2>4. SUFFICES ASSUME NEW j \in (0..m - 1) \ (left \ {i}) PROVE dev2[j] = s + j
    BY DEF Holds
  <2>5. QED
    BY <1>1, <2>1, <2>2, <2>3 DEF CopyingIn, Holds
<1>4. CASE left = {i}
  <2>1. Len(a) = Len(st) - 1 /\ \A k \in 1..Len(st) - 1 : a[k] = st[k + 1]
    BY <1>2, <1>4, AfterShape
  <2>2. Holds(dev2, s, m, {})
    BY <1>3, <1>4 DEF Holds
  <2> HIDE DEF a, dev2
  <2>3. Len(a) = 2 /\ a[1] = Op("kernel", 0..m - 1) /\ a[2] = Op("d2h", {0}) /\ dc = 0
    BY <1>1, <2>1 DEF CopyingIn
  <2>4. Deciding(a, dev2, dc, mv, s, m, 0..m - 1)
    BY <2>2, <2>3, NoHits DEF Deciding
  <2>5. BatchIn(a, hev, dev2, dc, hc, mv, s, m)
    BY <2>4 DEF BatchIn
  <2>6. QED
    BY <2>5 DEF a, dev2
<1>5. CASE left # {i}
  <2>1. st[1].left # {i} /\ i \in Head(st).left
    BY <1>2, <1>5
  <2>2. /\ Len(a) = Len(st) /\ a[1] = Op(st[1].kind, st[1].left \ {i})
        /\ \A k \in 2..Len(st) : a[k] = st[k]
    BY <2>1, AfterShape
  <2> HIDE DEF a, dev2
  <2>3. a[1] = Op("h2d", left \ {i})
    BY <1>2, <2>2
  <2>4. CopyingIn(a, hev, dev2, dc, s, m, left \ {i})
    BY <1>1, <1>3, <2>2, <2>3 DEF CopyingIn
  <2>5. BatchIn(a, hev, dev2, dc, hc, mv, s, m)
    BY <2>4 DEF BatchIn
  <2>6. QED
    BY <2>5 DEF a, dev2
<1>6. QED
  BY <1>4, <1>5

\* Thread i of the kernel finds its event on the device.
LEMMA DecideKeepsBatch ==
  ASSUME NEW st \in Seq(Ops), st # <<>>, NEW hev, NEW dev, NEW dc, NEW hc, NEW mv, NEW i,
         NEW s \in Nat, NEW m \in Nat, BatchIn(st, hev, dev, dc, hc, mv, s, m),
         Head(st).kind = "kernel", i \in Head(st).left
  PROVE  BatchIn(After(st, i), hev, dev, IF i # 0 /\ mv[dev[i]] THEN dc + 1 ELSE dc,
                 hc, mv, s, m)
<1> DEFINE dc2 == IF i # 0 /\ mv[dev[i]] THEN dc + 1 ELSE dc
           a == After(st, i)
<1>1. PICK left \in SUBSET (0..m - 1) : Deciding(st, dev, dc, mv, s, m, left)
  BY StageByKind
<1>2. Head(st) = st[1] /\ st[1].left = left /\ st[1].kind = "kernel" /\ i \in left
  BY <1>1, AfterShape DEF Deciding, Op
<1>3. dev[i] = s + i
  BY <1>1, <1>2 DEF Deciding, Holds
<1>4. dc = Cardinality(Hits(mv, s, m, left))
  BY <1>1 DEF Deciding
<1>5. dc2 = Cardinality(Hits(mv, s, m, left \ {i}))
  BY <1>2, <1>3, <1>4, ThreadHits
<1>6. CASE left = {i}
  <2>1. Len(a) = Len(st) - 1 /\ \A k \in 1..Len(st) - 1 : a[k] = st[k + 1]
    BY <1>2, <1>6, AfterShape
  <2>2. dc2 = Cardinality(Hits(mv, s, m, {}))
    <3>1. left \ {i} = {}
      BY <1>6
    <3>2. QED
      BY <1>5, <3>1, Zenon
  <2> HIDE DEF a, dc2
  <2>3. CopyingOut(a, dc2, mv, s, m)
    BY <1>1, <2>1, <2>2 DEF Deciding, CopyingOut
  <2>4. BatchIn(a, hev, dev, dc2, hc, mv, s, m)
    BY <2>3 DEF BatchIn
  <2>5. QED
    BY <2>4 DEF a, dc2
<1>7. CASE left # {i}
  <2>1. st[1].left # {i} /\ i \in Head(st).left
    BY <1>2, <1>7
  <2>2. /\ Len(a) = Len(st) /\ a[1] = Op(st[1].kind, st[1].left \ {i})
        /\ \A k \in 2..Len(st) : a[k] = st[k]
    BY <2>1, AfterShape
  <2> HIDE DEF a, dc2
  <2>3. a[1] = Op("kernel", left \ {i})
    BY <1>2, <2>2
  <2>4. Deciding(a, dev, dc2, mv, s, m, left \ {i})
    BY <1>1, <1>5, <2>2, <2>3 DEF Deciding
  <2>5. BatchIn(a, hev, dev, dc2, hc, mv, s, m)
    BY <2>4 DEF BatchIn
  <2>6. QED
    BY <2>5 DEF a, dc2
<1>8. QED
  BY <1>6, <1>7

LEMMA CopyOutKeepsBatch ==
  ASSUME NEW st \in Seq(Ops), st # <<>>, NEW hev, NEW dev, NEW dc, NEW hc, NEW mv,
         NEW s \in Nat, NEW m \in Nat, BatchIn(st, hev, dev, dc, hc, mv, s, m),
         Head(st).kind = "d2h", 0 \in Head(st).left
  PROVE  BatchIn(After(st, 0), hev, dev, dc, dc, mv, s, m)
<1>1. CopyingOut(st, dc, mv, s, m)
  BY StageByKind
<1>2. st[1].left = {0}
  BY <1>1 DEF CopyingOut, Op
<1>3. Len(After(st, 0)) = Len(st) - 1
  BY <1>2, AfterShape
<1>4. Fetched(After(st, 0), dc, mv, s, m)
  BY <1>1, <1>3 DEF CopyingOut, Fetched
<1>5. QED
  BY <1>4 DEF BatchIn
-----------------------------------------------------------------------------
(* The same for the actions of the GPU: what any of them leaves as it is.   *)

\* Every batch stays on its way, and an idle stream idle.
KeepsBatches ==
  /\ TypeOK'
  /\ UNCHANGED <<hostVars, h_ev>>
  /\ \A c \in Bufs : stream[c] = <<>> => stream'[c] = <<>>
  /\ \A c \in Bufs : \A s, m \in Nat :
       BatchIn(stream[c], h_ev[c], d_ev[c], d_count[c], h_count[c], moves, s, m) =>
         BatchIn(stream'[c], h_ev'[c], d_ev'[c], d_count'[c], h_count'[c], moves', s, m)

LEMMA DoneKeepsTypes ==
  ASSUME TypeOK, NEW b \in Bufs, NEW kind, NEW i, Working(b, kind, i), Done(b, i)
  PROVE  /\ stream[b] \in Seq(Ops) /\ stream[b] # <<>>
         /\ Head(stream[b]).kind = kind /\ i \in Head(stream[b]).left
         /\ stream' \in [Bufs -> Seq(Ops)]
         /\ stream'[b] = After(stream[b], i) /\ \A c \in Bufs \ {b} : stream'[c] = stream[c]
<1>1. stream \in [Bufs -> Seq(Ops)]
  BY DEF TypeOK, Ops
<1>2. stream[b] # <<>> /\ Head(stream[b]).kind = kind /\ i \in Head(stream[b]).left
  BY DEF Working
<1>3. stream' = [stream EXCEPT ![b] = After(stream[b], i)]
  BY DEF Done, After
<1>4. After(stream[b], i) \in Seq(Ops)
  BY <1>1, <1>2, AfterShape
<1>5. QED
  BY <1>1, <1>2, <1>3, <1>4

LEMMA MemsetKeeps ==
  ASSUME TypeOK, NEW b \in Bufs, Memset(b)
  PROVE  KeepsBatches
<1>1. UNCHANGED <<hostVars, h_ev, h_count, d_ev>> /\ d_count' = [d_count EXCEPT ![b] = 0]
  BY DEF Memset
<1>2. /\ stream[b] \in Seq(Ops) /\ stream[b] # <<>>
      /\ Head(stream[b]).kind = "memset" /\ 0 \in Head(stream[b]).left
      /\ stream' \in [Bufs -> Seq(Ops)]
      /\ stream'[b] = After(stream[b], 0) /\ \A c \in Bufs \ {b} : stream'[c] = stream[c]
  BY DoneKeepsTypes DEF Memset
<1>3. TypeOK'
  <2>1. d_count' \in [Bufs -> Int]
    BY <1>1 DEF TypeOK
  <2>2. QED
    BY <1>1, <1>2, <2>1 DEF TypeOK, Ops, hostVars, input
<1>4. ASSUME NEW c \in Bufs, NEW s \in Nat, NEW m \in Nat,
             BatchIn(stream[c], h_ev[c], d_ev[c], d_count[c], h_count[c], moves, s, m)
      PROVE  BatchIn(stream'[c], h_ev'[c], d_ev'[c], d_count'[c], h_count'[c], moves', s, m)
  <2>1. CASE c = b
    <3>1. BatchIn(After(stream[b], 0), h_ev[b], d_ev[b], 0, h_count[b], moves, s, m)
      BY <1>2, <1>4, <2>1, MemsetKeepsBatch
    <3>2. d_count'[b] = 0 /\ h_ev' = h_ev /\ d_ev' = d_ev /\ h_count' = h_count /\ moves' = moves
      BY <1>1 DEF TypeOK, hostVars, input
    <3>3. QED
      BY <1>2, <2>1, <3>1, <3>2
  <2>2. CASE c # b
    BY <1>1, <1>2, <1>4, <2>2 DEF TypeOK, hostVars, input
  <2>3. QED
    BY <2>1, <2>2
<1>5. QED
  BY <1>1, <1>2, <1>3, <1>4 DEF KeepsBatches

LEMMA CopyInKeeps ==
  ASSUME TypeOK, NEW b \in Bufs, NEW i \in Events, CopyIn(b, i)
  PROVE  KeepsBatches
<1>1. UNCHANGED <<hostVars, h_ev, h_count, d_count>> /\ d_ev' = [d_ev EXCEPT ![b][i] = h_ev[b][i]]
  BY DEF CopyIn
<1>2. /\ stream[b] \in Seq(Ops) /\ stream[b] # <<>>
      /\ Head(stream[b]).kind = "h2d" /\ i \in Head(stream[b]).left
      /\ stream' \in [Bufs -> Seq(Ops)]
      /\ stream'[b] = After(stream[b], i) /\ \A c \in Bufs \ {b} : stream'[c] = stream[c]
  BY DoneKeepsTypes DEF CopyIn
<1>3. d_ev'[b] = [d_ev[b] EXCEPT ![i] = h_ev[b][i]] /\ \A c \in Bufs \ {b} : d_ev'[c] = d_ev[c]
  BY <1>1 DEF TypeOK
<1>4. TypeOK'
  <2>1. d_ev' \in [Bufs -> [Events -> Events \cup {NoEvent}]]
    BY <1>1 DEF TypeOK
  <2>2. QED
    BY <1>1, <1>2, <2>1 DEF TypeOK, Ops, hostVars, input
<1>5. ASSUME NEW c \in Bufs, NEW s \in Nat, NEW m \in Nat,
             BatchIn(stream[c], h_ev[c], d_ev[c], d_count[c], h_count[c], moves, s, m)
      PROVE  BatchIn(stream'[c], h_ev'[c], d_ev'[c], d_count'[c], h_count'[c], moves', s, m)
  <2>1. CASE c = b
    <3>1. d_ev[b] \in [Events -> Events \cup {NoEvent}]
      BY DEF TypeOK
    <3>2. BatchIn(After(stream[b], i), h_ev[b], [d_ev[b] EXCEPT ![i] = h_ev[b][i]],
                  d_count[b], h_count[b], moves, s, m)
      BY <1>2, <1>5, <2>1, <3>1, CopyInKeepsBatch
    <3>3. h_ev' = h_ev /\ d_count' = d_count /\ h_count' = h_count /\ moves' = moves
      BY <1>1 DEF hostVars, input
    <3>4. QED
      BY <1>2, <1>3, <2>1, <3>2, <3>3
  <2>2. CASE c # b
    BY <1>1, <1>2, <1>3, <1>5, <2>2 DEF hostVars, input
  <2>3. QED
    BY <2>1, <2>2
<1>6. QED
  BY <1>1, <1>2, <1>4, <1>5 DEF KeepsBatches

LEMMA DecideKeeps ==
  ASSUME TypeOK, NEW b \in Bufs, NEW i \in Events, DecideOrder(b, i)
  PROVE  KeepsBatches
<1> DEFINE dc2 == IF i # 0 /\ moves[d_ev[b][i]] THEN d_count[b] + 1 ELSE d_count[b]
<1>1. UNCHANGED <<hostVars, h_ev, h_count, d_ev>>
  BY DEF DecideOrder
<1>2. /\ stream[b] \in Seq(Ops) /\ stream[b] # <<>>
      /\ Head(stream[b]).kind = "kernel" /\ i \in Head(stream[b]).left
      /\ stream' \in [Bufs -> Seq(Ops)]
      /\ stream'[b] = After(stream[b], i) /\ \A c \in Bufs \ {b} : stream'[c] = stream[c]
  BY DoneKeepsTypes DEF DecideOrder
<1>3. /\ d_count' \in [Bufs -> Int] /\ d_count'[b] = dc2
      /\ \A c \in Bufs \ {b} : d_count'[c] = d_count[c]
  BY DEF DecideOrder, TypeOK
<1>4. TypeOK'
  BY <1>1, <1>2, <1>3 DEF TypeOK, Ops, hostVars, input
<1>5. ASSUME NEW c \in Bufs, NEW s \in Nat, NEW m \in Nat,
             BatchIn(stream[c], h_ev[c], d_ev[c], d_count[c], h_count[c], moves, s, m)
      PROVE  BatchIn(stream'[c], h_ev'[c], d_ev'[c], d_count'[c], h_count'[c], moves', s, m)
  <2>1. CASE c = b
    <3>1. BatchIn(After(stream[b], i), h_ev[b], d_ev[b], dc2, h_count[b], moves, s, m)
      BY <1>2, <1>5, <2>1, DecideKeepsBatch
    <3>2. h_ev' = h_ev /\ d_ev' = d_ev /\ h_count' = h_count /\ moves' = moves
      BY <1>1 DEF hostVars, input
    <3>3. QED
      BY <1>2, <1>3, <2>1, <3>1, <3>2
  <2>2. CASE c # b
    BY <1>1, <1>2, <1>3, <1>5, <2>2 DEF hostVars, input
  <2>3. QED
    BY <2>1, <2>2
<1>6. QED
  BY <1>1, <1>2, <1>4, <1>5 DEF KeepsBatches

LEMMA CopyOutKeeps ==
  ASSUME TypeOK, NEW b \in Bufs, CopyOut(b)
  PROVE  KeepsBatches
<1>1. UNCHANGED <<hostVars, h_ev, device>> /\ h_count' = [h_count EXCEPT ![b] = d_count[b]]
  BY DEF CopyOut
<1>2. /\ stream[b] \in Seq(Ops) /\ stream[b] # <<>>
      /\ Head(stream[b]).kind = "d2h" /\ 0 \in Head(stream[b]).left
      /\ stream' \in [Bufs -> Seq(Ops)]
      /\ stream'[b] = After(stream[b], 0) /\ \A c \in Bufs \ {b} : stream'[c] = stream[c]
  BY DoneKeepsTypes DEF CopyOut
<1>3. h_count' \in [Bufs -> Int] /\ h_count'[b] = d_count[b] /\ \A c \in Bufs \ {b} : h_count'[c] = h_count[c]
  BY <1>1 DEF TypeOK
<1>4. TypeOK'
  BY <1>1, <1>2, <1>3 DEF TypeOK, Ops, hostVars, input, device
<1>5. ASSUME NEW c \in Bufs, NEW s \in Nat, NEW m \in Nat,
             BatchIn(stream[c], h_ev[c], d_ev[c], d_count[c], h_count[c], moves, s, m)
      PROVE  BatchIn(stream'[c], h_ev'[c], d_ev'[c], d_count'[c], h_count'[c], moves', s, m)
  <2>1. CASE c = b
    <3>1. BatchIn(After(stream[b], 0), h_ev[b], d_ev[b], d_count[b], d_count[b], moves, s, m)
      BY <1>2, <1>5, <2>1, CopyOutKeepsBatch
    <3>2. h_ev' = h_ev /\ d_ev' = d_ev /\ d_count' = d_count /\ moves' = moves
      BY <1>1 DEF hostVars, input, device
    <3>3. QED
      BY <1>2, <1>3, <2>1, <3>1, <3>2
  <2>2. CASE c # b
    BY <1>1, <1>2, <1>3, <1>5, <2>2 DEF hostVars, input, device
  <2>3. QED
    BY <2>1, <2>2
<1>6. QED
  BY <1>1, <1>2, <1>4, <1>5 DEF KeepsBatches
-----------------------------------------------------------------------------
(* The invariant.                                                          *)

LEMMA GpuKeepsBatches == ASSUME TypeOK, NEW b \in Bufs, Gpu(b) PROVE KeepsBatches
BY MemsetKeeps, CopyInKeeps, DecideKeeps, CopyOutKeeps DEF Gpu

LEMMA BatchMoves ==
  ASSUME KeepsBatches, NEW c \in Bufs, NEW s \in Nat, NEW m \in Nat, Batch(c, s, m)
  PROVE  BatchIn(stream'[c], h_ev'[c], d_ev'[c], d_count'[c], h_count'[c], moves', s, m)
BY DEF KeepsBatches, Batch

LEMMA GpuKeepsInv ==
  ASSUME TraderInv, NEW b \in Bufs, Gpu(b)
  PROVE  TraderInv'
<1> USE DEF TraderInv
<1>1. KeepsBatches
  BY GpuKeepsBatches
<1>2. TypeOK' /\ UNCHANGED <<hostVars, h_ev>>
  BY <1>1 DEF KeepsBatches
<1>3. TotalRight'
  BY <1>2 DEF TotalRight, Fired, hostVars, input
<1>4. ASSUME pc \in {"loop", "generate", "wait"} PROVE HostOK' /\ StreamsOK'
  <2>1. HostOK'
    BY <1>2, <1>4 DEF HostOK, hostVars, input
  <2>2. (pc # "wait" => stream[buf] = <<>>)' /\ (processed = 0 => buf = 0 /\ stream[1] = <<>> /\ total_orders = 0)'
    BY <1>1, <1>2, <1>4 DEF StreamsOK, TypeOK, KeepsBatches, hostVars, Bufs
  <2>3. (pc = "wait" => Batch(buf, processed, n))'
    BY <1>1, <1>2, <1>4, BatchMoves DEF StreamsOK, TypeOK, hostVars, Batch
  <2>4. (processed > 0 => Batch(1 - buf, processed - Before, Before))'
    <3>1. SUFFICES ASSUME processed > 0 PROVE Batch(1 - buf, processed - Before, Before)'
      BY <1>2 DEF hostVars
    <3>2. 1 - buf \in Bufs /\ Before \in Nat /\ processed - Before \in Nat
      BY <1>4, <3>1 DEF TypeOK, HostOK, Before, Bufs
    <3>3. Batch(1 - buf, processed - Before, Before)
      BY <1>4, <3>1 DEF StreamsOK
    <3>4. Before' = Before /\ processed' = processed /\ buf' = buf
      BY <1>2 DEF Before, hostVars, input
    <3>5. QED
      BY <1>1, <3>2, <3>3, <3>4, BatchMoves DEF Batch
  <2>5. (processed > 0 => total_orders = Cardinality(Fires(moves, batch_n, processed - Before)))'
    BY <1>2, <1>4 DEF StreamsOK, Before, hostVars, input
  <2>6. QED
    BY <2>1, <2>2, <2>3, <2>4, <2>5 DEF StreamsOK
<1>5. QED
  BY <1>2, <1>3, <1>4 DEF hostVars

LEMMA BeginBatchKeepsInv ==
  ASSUME TraderInv, BeginBatch
  PROVE  TraderInv'
<1> USE DEF TraderInv
<1>1. UNCHANGED <<input, processed, buf, total_orders, h_ev, h_count, device, stream>>
  BY DEF BeginBatch
<1>2. /\ pc = "loop" /\ processed < total_n /\ generated' = 0 /\ pc' = "generate"
      /\ n' = IF batch_n < total_n - processed THEN batch_n ELSE total_n - processed
  BY DEF BeginBatch
<1>3. HostOK /\ StreamsOK
  BY <1>2
<1>4. TypeOK'
  <2>1. n' \in 0..MaxTotal
    BY <1>2, <1>3, BoundAssumption DEF TypeOK, HostOK
  <2>2. generated' \in 0..MaxTotal /\ pc' \in {"loop", "generate", "wait", "done", "failed"}
    BY <1>2, BoundAssumption
  <2>3. QED
    BY <1>1, <2>1, <2>2 DEF TypeOK, input, device
<1>5. HostOK'
  BY <1>1, <1>2, <1>3 DEF TypeOK, HostOK, input
<1>6. StreamsOK'
  <2>1. CASE processed = 0
    BY <1>1, <1>2, <1>3, <2>1 DEF StreamsOK, input
  <2>2. CASE processed > 0
    <3>1. Before = n /\ Before' = batch_n /\ n = batch_n
      BY <1>1, <1>2, <1>3, <2>2 DEF Before, HostOK, input
    <3>2. /\ Batch(1 - buf, processed - batch_n, batch_n)
          /\ total_orders = Cardinality(Fires(moves, batch_n, processed - batch_n))
      BY <1>3, <2>2, <3>1 DEF StreamsOK
    <3>3. (Batch(1 - buf, processed - Before, Before))'
      BY <1>1, <3>1, <3>2 DEF Batch, input, device
    <3>4. (total_orders = Cardinality(Fires(moves, batch_n, processed - Before)))'
      BY <1>1, <3>1, <3>2 DEF input
    <3>5. (pc # "wait" => stream[buf] = <<>>)'
      BY <1>1, <1>2, <1>3 DEF StreamsOK
    <3>6. QED
      BY <1>1, <1>2, <2>2, <3>3, <3>4, <3>5 DEF StreamsOK
  <2>3. QED
    BY <2>1, <2>2 DEF TypeOK
<1>7. TotalRight'
  BY <1>2 DEF TotalRight
<1>8. QED
  BY <1>4, <1>5, <1>6, <1>7

LEMMA GenerateKeepsInv ==
  ASSUME TraderInv, GenerateEvent
  PROVE  TraderInv'
<1> USE DEF TraderInv
<1>1. UNCHANGED <<input, pc, processed, buf, n, total_orders, h_count, device, stream>>
  BY DEF GenerateEvent
<1>2. /\ pc = "generate" /\ generated < n /\ generated' = generated + 1
      /\ h_ev' = [h_ev EXCEPT ![buf][generated] = processed + generated]
  BY DEF GenerateEvent
<1>3. HostOK /\ StreamsOK
  BY <1>2
<1>4. generated \in Events /\ processed + generated \in Events /\ generated + 1 \in 0..MaxTotal
  BY <1>2, <1>3, BoundAssumption DEF TypeOK, HostOK, Events
<1>5. /\ h_ev' \in [Bufs -> [Events -> Events \cup {NoEvent}]]
      /\ h_ev'[buf] = [h_ev[buf] EXCEPT ![generated] = processed + generated]
      /\ h_ev'[1 - buf] = h_ev[1 - buf]
  <2>1. h_ev \in [Bufs -> [Events -> Events \cup {NoEvent}]] /\ buf \in Bufs /\ 1 - buf \in Bufs /\ 1 - buf # buf
    BY DEF TypeOK, Bufs
  <2>2. QED
    BY <1>2, <1>4, <2>1
<1>6. TypeOK'
  BY <1>1, <1>2, <1>4, <1>5 DEF TypeOK, input, device
<1>7. HostOK'
  <2>1. h_ev'[buf][generated] = processed + generated
    BY <1>4, <1>5 DEF TypeOK
  <2>2. \A i \in 0..generated - 1 : h_ev'[buf][i] = h_ev[buf][i]
    BY <1>5 DEF TypeOK
  <2>3. \A i \in 0..generated - 1 : h_ev[buf][i] = processed + i
    BY <1>2, <1>3 DEF HostOK
  <2>4. \A i \in 0..(generated + 1) - 1 : h_ev'[buf][i] = processed + i
    BY <2>1, <2>2, <2>3 DEF TypeOK
  <2>5. generated' <= n'
    BY <1>1, <1>2 DEF TypeOK
  <2>6. QED
    BY <1>1, <1>2, <1>3, <2>4, <2>5 DEF HostOK, input
<1>8. StreamsOK'
  <2>1. (processed > 0 => Batch(1 - buf, processed - Before, Before))'
    BY <1>1, <1>3, <1>5 DEF StreamsOK, Batch, Before, input, device
  <2>2. (processed > 0 => total_orders = Cardinality(Fires(moves, batch_n, processed - Before)))'
    BY <1>1, <1>3 DEF StreamsOK, Before, input
  <2>3. QED
    BY <1>1, <1>2, <1>3, <2>1, <2>2 DEF StreamsOK
<1>9. TotalRight'
  BY <1>1, <1>2 DEF TotalRight
<1>10. QED
  BY <1>6, <1>7, <1>8, <1>9

LEMMA LaunchKeepsInv ==
  ASSUME TraderInv, Launch
  PROVE  TraderInv'
<1> USE DEF TraderInv
<1>1. UNCHANGED <<input, processed, buf, n, generated, total_orders, h_ev, h_count, device>>
  BY DEF Launch
<1> DEFINE ops == <<Op("memset", {0}), Op("h2d", 0..n - 1), Op("kernel", 0..n - 1), Op("d2h", {0})>>
<1>2. /\ pc = "generate" /\ generated = n /\ pc' = "wait"
      /\ stream' = [stream EXCEPT ![buf] = @ \o ops]
  BY DEF Launch
<1>3. HostOK /\ StreamsOK
  BY <1>2
<1>4. n > 0 /\ 0..n - 1 \subseteq Events /\ {0} \subseteq Events
  BY <1>2, <1>3, BoundAssumption DEF TypeOK, HostOK, Events
<1>5. ops \in Seq(Ops)
  <2>1. /\ Op("memset", {0}) \in Ops /\ Op("h2d", 0..n - 1) \in Ops
        /\ Op("kernel", 0..n - 1) \in Ops /\ Op("d2h", {0}) \in Ops
    BY <1>4, OpType DEF Kinds
  <2>2. QED
    BY <2>1
<1>6. /\ Len(ops) = 4 /\ ops[1] = Op("memset", {0}) /\ ops[2] = Op("h2d", 0..n - 1)
      /\ ops[3] = Op("kernel", 0..n - 1) /\ ops[4] = Op("d2h", {0})
  OBVIOUS
<1> HIDE DEF ops
<1>7. stream' \in [Bufs -> Seq(Ops)] /\ stream'[buf] = ops /\ stream'[1 - buf] = stream[1 - buf]
  <2>1. stream[buf] = <<>> /\ stream \in [Bufs -> Seq(Ops)] /\ buf \in Bufs /\ 1 - buf \in Bufs /\ 1 - buf # buf
    BY <1>2, <1>3 DEF StreamsOK, TypeOK, Ops, Bufs
  <2>2. <<>> \o ops = ops
    BY <1>5, ConcatEmptySeq
  <2>3. stream' = [stream EXCEPT ![buf] = ops]
    BY <1>2, <2>1, <2>2
  <2>4. QED
    BY <1>5, <2>1, <2>3
<1>8. TypeOK'
  BY <1>1, <1>2, <1>7 DEF TypeOK, Ops, input, device
<1>9. HostOK'
  BY <1>1, <1>2, <1>3, <1>4 DEF HostOK, input
<1>10. StreamsOK'
  <2>1. Reset(ops, h_ev[buf], processed, n)
    BY <1>2, <1>3, <1>6 DEF Reset, Holds, HostOK
  <2>2. Batch(buf, processed, n)'
    BY <1>1, <1>7, <2>1 DEF Batch, BatchIn, input, device
  <2>3. (processed > 0 => Batch(1 - buf, processed - Before, Before))'
    BY <1>1, <1>2, <1>3, <1>7 DEF StreamsOK, Batch, Before, input, device
  <2>4. (processed > 0 => total_orders = Cardinality(Fires(moves, batch_n, processed - Before)))'
    BY <1>1, <1>2, <1>3 DEF StreamsOK, Before, input
  <2>5. (processed = 0 => buf = 0 /\ stream[1] = <<>> /\ total_orders = 0)'
    BY <1>1, <1>3, <1>7 DEF StreamsOK
  <2>6. QED
    BY <1>2, <2>2, <2>3, <2>4, <2>5 DEF StreamsOK
<1>11. TotalRight'
  BY <1>2 DEF TotalRight
<1>12. QED
  BY <1>8, <1>9, <1>10, <1>11

LEMMA FinishBatchKeepsInv ==
  ASSUME TraderInv, FinishBatch
  PROVE  TraderInv'
<1> USE DEF TraderInv
<1>1. UNCHANGED <<input, n, generated, h_ev, h_count, device, stream>>
  BY DEF FinishBatch
<1>2. /\ pc = "wait" /\ processed' = processed + n /\ buf' = 1 - buf /\ pc' = "loop"
      /\ processed # 0 => stream[1 - buf] = <<>>
      /\ total_orders' = IF processed # 0 THEN total_orders + h_count[1 - buf] ELSE total_orders
  BY DEF FinishBatch, Synchronized
<1>3. HostOK /\ StreamsOK
  BY <1>2
<1>4. /\ batch_n \in Nat \ {0} /\ n \in Nat \ {0} /\ n <= batch_n
      /\ processed \in Nat /\ processed < total_n /\ processed + n <= total_n /\ total_n \in Nat
      /\ processed % batch_n = 0 /\ (processed + n < total_n => n = batch_n)
      /\ processed > 0 => batch_n <= processed
  BY <1>2, <1>3 DEF HostOK, TypeOK
<1>4a. (processed + batch_n) % batch_n = 0 /\ (processed - batch_n) % batch_n = 0
  <2>1. batch_n \in Nat \ {0} /\ processed \in Int /\ processed % batch_n = 0
    BY <1>4
  <2>2. QED
    BY <2>1, NextBatchMod, Zenon
<1>5. processed > 0 =>
        /\ h_count[1 - buf] = Cardinality(Hits(moves, processed - batch_n, batch_n, {}))
        /\ total_orders = Cardinality(Fires(moves, batch_n, processed - batch_n))
  <2>1. SUFFICES ASSUME processed > 0
                 PROVE  /\ h_count[1 - buf] = Cardinality(Hits(moves, processed - batch_n, batch_n, {}))
                        /\ total_orders = Cardinality(Fires(moves, batch_n, processed - batch_n))
    OBVIOUS
  <2>2. Before = batch_n /\ Len(stream[1 - buf]) = 0
    BY <1>2, <2>1 DEF Before
  <2>3. /\ Batch(1 - buf, processed - batch_n, batch_n)
        /\ total_orders = Cardinality(Fires(moves, batch_n, processed - batch_n))
    BY <1>3, <2>1, <2>2 DEF StreamsOK
  <2>4. QED
    BY <2>2, <2>3 DEF Batch, BatchIn, Reset, CopyingIn, Deciding, CopyingOut, Fetched
<1>6. total_orders' = Cardinality(Fires(moves, batch_n, processed))
  <2>1. CASE processed = 0
    BY <1>2, <1>3, <2>1, FiresNone DEF StreamsOK
  <2>2. CASE processed > 0
    <3> DEFINE s == processed - batch_n
    <3>1. s \in Nat /\ s + batch_n = processed /\ s % batch_n = 0
      BY <1>4, <2>2, <1>4a
    <3> HIDE DEF s
    <3>2. Cardinality(Fires(moves, batch_n, s + batch_n)) =
            Cardinality(Fires(moves, batch_n, s)) + Cardinality(Hits(moves, s, batch_n, {}))
      BY <1>4, <3>1, BatchFires
    <3>3. QED
      BY <1>2, <1>5, <2>2, <3>1, <3>2 DEF s
  <2>3. QED
    BY <1>4, <2>1, <2>2
<1>7. total_orders' \in Int
  BY <1>2, <1>3 DEF TypeOK, Bufs
<1>8. TypeOK'
  <2>1. processed' \in 0..MaxTotal /\ buf' \in Bufs /\ pc' \in {"loop", "generate", "wait", "done", "failed"}
    BY <1>2, <1>4, BoundAssumption DEF TypeOK, Bufs
  <2>2. QED
    BY <1>1, <1>7, <2>1 DEF TypeOK, input, device
<1>9. HostOK'
  <2>1. /\ n' = n /\ batch_n' = batch_n /\ total_n' = total_n /\ processed' = processed + n
        /\ pc' = "loop"
    BY <1>1, <1>2 DEF input
  <2>2. (processed + n) - n = processed /\ processed + n > 0
    BY <1>4
  <2>3. processed + n < total_n => (processed + n) % batch_n = 0
    BY <1>4, <1>4a
  <2>4. QED
    BY <1>4, <2>1, <2>2, <2>3 DEF HostOK
<1>10. StreamsOK'
  <2>1. /\ n' = n /\ batch_n' = batch_n /\ moves' = moves /\ processed' = processed + n
        /\ pc' = "loop" /\ Before' = n /\ buf' = 1 - buf /\ 1 - buf' = buf
        /\ processed' - Before' = processed /\ processed' > 0
    BY <1>1, <1>2, <1>4 DEF input, Before, TypeOK, Bufs
  <2>2. stream'[buf'] = <<>>
    BY <1>1, <1>2, <1>3, <1>4, <2>1 DEF StreamsOK, TypeOK, Bufs
  <2>3. Batch(1 - buf, processed - Before, Before)'
    BY <1>1, <1>2, <1>3, <2>1 DEF StreamsOK, Batch, device
  <2>4. (total_orders = Cardinality(Fires(moves, batch_n, processed - Before)))'
    BY <1>6, <2>1
  <2>5. QED
    BY <2>1, <2>2, <2>3, <2>4 DEF StreamsOK
<1>11. TotalRight'
  BY <1>2 DEF TotalRight
<1>12. QED
  BY <1>8, <1>9, <1>10, <1>11

LEMMA FinishKeepsInv ==
  ASSUME TraderInv, Finish
  PROVE  TraderInv'
<1> USE DEF TraderInv
<1>1. UNCHANGED <<input, processed, buf, n, generated, h_ev, h_count, device, stream>>
  BY DEF Finish
<1>2. /\ pc = "loop" /\ processed >= total_n /\ stream[1 - buf] = <<>> /\ pc' = "done"
      /\ total_orders' = total_orders + h_count[1 - buf]
  BY DEF Finish, Synchronized
<1>3. HostOK /\ StreamsOK
  BY <1>2
<1>4. TypeOK'
  <2>1. total_orders' \in Int /\ pc' \in {"loop", "generate", "wait", "done", "failed"}
    BY <1>2 DEF TypeOK, Bufs
  <2>2. QED
    BY <1>1, <2>1 DEF TypeOK, input, device
<1>5. TotalRight'
  <2>1. SUFFICES ASSUME total_n > 0 PROVE total_orders' = Cardinality(Fired)
    BY <1>1 DEF TotalRight, Fired, input
  <2>2. /\ processed = total_n /\ batch_n \in Nat \ {0} /\ n \in Nat \ {0} /\ n <= batch_n
        /\ processed \in Nat /\ n <= processed /\ (processed - n) % batch_n = 0 /\ Before = n
    BY <1>2, <1>3, <2>1 DEF HostOK, TypeOK, Before
  <2> DEFINE s == processed - n
  <2>3. s \in Nat /\ s + n = total_n /\ s % batch_n = 0
    BY <2>2
  <2>4. Batch(1 - buf, s, n) /\ total_orders = Cardinality(Fires(moves, batch_n, s))
    BY <1>3, <2>1, <2>2 DEF StreamsOK
  <2>5. h_count[1 - buf] = Cardinality(Hits(moves, s, n, {}))
    <3>1. Len(stream[1 - buf]) = 0
      BY <1>2
    <3>2. QED
      BY <2>4, <3>1 DEF Batch, BatchIn, Reset, CopyingIn, Deciding, CopyingOut, Fetched
  <2> HIDE DEF s
  <2>6. Cardinality(Fires(moves, batch_n, s + n)) =
          Cardinality(Fires(moves, batch_n, s)) + Cardinality(Hits(moves, s, n, {}))
    BY <2>2, <2>3, BatchFires
  <2>7. Fires(moves, batch_n, total_n) = Fired
    BY DEF Fires, Fired
  <2>8. QED
    BY <1>2, <2>3, <2>4, <2>5, <2>6, <2>7
<1>6. QED
  BY <1>2, <1>4, <1>5

LEMMA CudaErrorKeepsInv ==
  ASSUME TraderInv, CudaError
  PROVE  TraderInv'
<1>1. /\ UNCHANGED <<input, processed, buf, n, generated, total_orders, h_ev, h_count, device, stream>>
      /\ pc' = "failed"
  BY DEF CudaError
<1>2. TypeOK'
  BY <1>1 DEF TraderInv, TypeOK, input, device
<1>3. QED
  BY <1>1, <1>2 DEF TraderInv, TotalRight

LEMMA StutterKeepsInv ==
  ASSUME TraderInv, UNCHANGED vars
  PROVE  TraderInv'
<1> USE DEF TraderInv
<1>1. UNCHANGED <<hostVars, h_ev, h_count, device, stream>>
  BY DEF vars, hostVars
<1>2. TypeOK'
  BY <1>1 DEF TypeOK, hostVars, input, device
<1>3. HostOK => HostOK'
  BY <1>1 DEF HostOK, hostVars, input
<1>4. StreamsOK => StreamsOK'
  BY <1>1 DEF StreamsOK, Batch, Before, hostVars, input, device
<1>5. TotalRight'
  BY <1>1 DEF TotalRight, Fired, hostVars, input
<1>6. QED
  BY <1>1, <1>2, <1>3, <1>4, <1>5 DEF hostVars

LEMMA InitTraderInv == Init => TraderInv
<1>1. SUFFICES ASSUME Init PROVE TraderInv
  OBVIOUS
<1>2. /\ moves \in [Events -> BOOLEAN] /\ total_n \in 0..MaxTotal
      /\ pc = "loop" /\ processed = 0 /\ buf = 0 /\ n = 0 /\ generated = 0 /\ total_orders = 0
      /\ h_ev = [b \in Bufs |-> [e \in Events |-> NoEvent]] /\ d_ev = h_ev
      /\ stream = [b \in Bufs |-> <<>>]
      /\ h_count \in [Bufs -> Garbage] /\ d_count \in [Bufs -> Garbage]
  BY <1>1 DEF Init
<1>3. batch_n \in Int /\ batch_n >= 0 /\ (total_n > 0 => batch_n > 0)
  BY <1>1, BoundAssumption DEF Init
<1>4. TypeOK
  <2>1. h_count \in [Bufs -> Int] /\ d_count \in [Bufs -> Int]
    BY <1>2, BoundAssumption
  <2>2. <<>> \in Seq([kind : Kinds, left : SUBSET Events])
    OBVIOUS
  <2>3. stream \in [Bufs -> Seq([kind : Kinds, left : SUBSET Events])]
    BY <1>2, <2>2
  <2>4. processed \in 0..MaxTotal /\ buf \in Bufs /\ n \in 0..MaxTotal /\ generated \in 0..MaxTotal
    BY <1>2, BoundAssumption DEF Bufs
  <2>5. QED
    BY <1>2, <1>3, <2>1, <2>3, <2>4 DEF TypeOK
<1>5. HostOK
  <2>1. batch_n > 0 => 0 % batch_n = 0
    BY <1>3
  <2>2. QED
    BY <1>2, <1>3, <2>1 DEF HostOK
<1>6. StreamsOK
  BY <1>2 DEF StreamsOK, Bufs
<1>7. TotalRight
  BY <1>2 DEF TotalRight
<1>8. QED
  BY <1>4, <1>5, <1>6, <1>7 DEF TraderInv

LEMMA StepTraderInv == TraderInv /\ [Next]_vars => TraderInv'
<1>1. SUFFICES ASSUME TraderInv, [Next]_vars PROVE TraderInv'
  OBVIOUS
<1>2. CASE Host
  BY <1>1, <1>2, BeginBatchKeepsInv, GenerateKeepsInv, LaunchKeepsInv, FinishBatchKeepsInv,
     FinishKeepsInv DEF Host
<1>3. CASE \E b \in Bufs : Gpu(b)
  BY <1>1, <1>3, GpuKeepsInv
<1>4. QED
  BY <1>1, <1>2, <1>3, CudaErrorKeepsInv, StutterKeepsInv DEF Next

LEMMA Invariant == Spec => []TraderInv
BY InitTraderInv, StepTraderInv, PTL DEF Spec

-----------------------------------------------------------------------------
(* The theorems.                                                           *)

(* The variables of main, the pinned buffers and the streams keep their    *)
(* types: in particular no batch reaches beyond the events of the run.     *)
THEOREM TypeCorrect == Spec => []TypeOK
<1>1. TraderInv => TypeOK
  BY DEF TraderInv
<1>2. QED
  BY <1>1, Invariant, PTL

(* generate_market_data (main.cu) never writes a buffer whose stream still *)
(* has an operation queued, for any number of events and any batch size.   *)
THEOREM BuffersAreIdle == Spec => []BufferIdle
<1>1. TraderInv => BufferIdle
  BY DEF TraderInv, StreamsOK, BufferIdle
<1>2. QED
  BY <1>1, Invariant, PTL

(* The total main prints is the number of events that fire, however the    *)
(* host and the two streams interleave: every batch is counted once, from  *)
(* a counter that was reset for it and is final when it is read.           *)
THEOREM TotalIsRight == Spec => []TotalRight
<1>1. TraderInv => TotalRight
  BY DEF TraderInv
<1>2. QED
  BY <1>1, Invariant, PTL
-----------------------------------------------------------------------------
(* The refinement of the version without double buffering.                 *)

\* The one batch is on stream 0, or done.
Launched == pc \in {"wait", "done"} \/ (pc = "loop" /\ processed > 0)

\* With one batch the second buffer is never used, and event 0 is in the memory
\* of the GPU exactly when the copy is behind.
OnceInv == OneBatch =>
  /\ pc # "failed" => stream[1] = <<>>
  /\ pc \in {"generate", "wait"} => processed = 0
  /\ pc = "loop" /\ processed > 0 => buf = 1
  /\ pc = "done" => stream[0] = <<>>
  /\ pc \in {"loop", "generate"} /\ processed = 0 => d_ev[0][0] = NoEvent
  /\ Launched /\ Len(stream[0]) <= 2 => d_ev[0][0] = 0

\* The counter on the GPU, as ImplementsOnce substitutes it.
OnceDevice == IF OneBatch THEN d_count[0] ELSE CHOOSE g \in Garbage : TRUE

LEMMA OneBatchIs ==
  ASSUME TraderInv, OnceInv, OneBatch
  PROVE  /\ total_n \in Nat \ {0} /\ 0 \in Events
         /\ pc \in {"loop", "generate"} /\ processed = 0 =>
              buf = 0 /\ stream[0] = <<>> /\ total_orders = 0
         /\ pc = "generate" => n = total_n
         /\ pc = "wait" =>
              buf = 0 /\ n = total_n /\ total_orders = 0 /\ Batch(0, 0, total_n)
         /\ pc = "loop" /\ processed > 0 =>
              /\ n = total_n /\ processed = total_n /\ buf = 1
              /\ total_orders = 0 /\ Batch(0, 0, total_n)
<1>1. /\ total_n \in Nat \ {0} /\ batch_n \in Nat \ {0} /\ batch_n >= total_n
      /\ processed \in Nat /\ n \in Nat /\ total_n <= MaxTotal
  BY BoundAssumption DEF OneBatch, TraderInv, TypeOK
<1>2. 0 \in Events
  BY <1>1, BoundAssumption DEF Events
<1>3. ASSUME pc \in {"loop", "generate"}, processed = 0
      PROVE  buf = 0 /\ stream[0] = <<>> /\ total_orders = 0
  BY <1>3 DEF TraderInv, StreamsOK
<1>4. ASSUME pc = "generate" PROVE n = total_n
  BY <1>1, <1>4 DEF TraderInv, HostOK, OnceInv
<1>5. ASSUME pc = "wait"
      PROVE  buf = 0 /\ n = total_n /\ total_orders = 0 /\ Batch(0, 0, total_n)
  <2>1. processed = 0 /\ n = total_n
    BY <1>1, <1>5 DEF TraderInv, HostOK, OnceInv
  <2>2. buf = 0 /\ total_orders = 0 /\ Batch(buf, processed, n)
    BY <1>5, <2>1 DEF TraderInv, StreamsOK
  <2>3. QED
    BY <2>1, <2>2
<1>6. ASSUME pc = "loop", processed > 0
      PROVE  /\ n = total_n /\ processed = total_n /\ buf = 1
             /\ total_orders = 0 /\ Batch(0, 0, total_n)
  <2>1. /\ n > 0 /\ n <= batch_n /\ n <= processed /\ (processed - n) % batch_n = 0
        /\ processed < total_n => n = batch_n
        /\ processed <= total_n
    BY <1>6 DEF TraderInv, HostOK
  <2>2. processed = total_n
    BY <1>1, <2>1
  <2>3. processed - n \in 0..batch_n - 1
    BY <1>1, <2>1, <2>2
  <2>4. processed - n = 0
    <3> DEFINE i == processed - n
    <3>1. i \in 0..batch_n - 1 /\ i % batch_n = 0
      BY <2>1, <2>3
    <3> HIDE DEF i
    <3>2. i % batch_n = i
      BY <1>1, <3>1
    <3>3. QED
      BY <3>1, <3>2 DEF i
  <2>5. buf = 1
    BY <1>6 DEF OnceInv
  <2>6. n = total_n
    BY <1>1, <2>2, <2>4
  <2>7. /\ Batch(1 - buf, processed - Before, Before)
        /\ total_orders = Cardinality(Fires(moves, batch_n, processed - Before))
    BY <1>6 DEF TraderInv, StreamsOK
  <2>8. Before = n /\ 1 - buf = 0
    BY <1>6, <2>5 DEF Before
  <2>9. Batch(0, 0, total_n)
    BY <2>4, <2>6, <2>7, <2>8
  <2>10. total_orders = 0
    BY <2>4, <2>7, <2>8, FiresNone
  <2>11. QED
    BY <2>2, <2>5, <2>6, <2>9, <2>10
<1>7. QED
  BY <1>1, <1>2, <1>3, <1>4, <1>5, <1>6

\* A step of the GPU is one on the stream of the one batch.
LEMMA GpuOnTheBatch ==
  ASSUME TraderInv, OnceInv, OneBatch, NEW b \in Bufs, NEW kind, NEW i, Working(b, kind, i)
  PROVE  /\ b = 0 /\ Launched /\ pc \notin {"done", "failed"} /\ Batch(0, 0, total_n)
         /\ stream[0] \in Seq(Ops) /\ stream[0] # <<>>
<1>1. pc # "failed" /\ stream[b] # <<>>
  BY DEF Working
<1>2. b = 0
  BY <1>1 DEF OnceInv, Bufs
<1>3. pc # "done" /\ ~(pc \in {"loop", "generate"} /\ processed = 0)
  BY <1>1, <1>2, OneBatchIs DEF OnceInv
<1>4. pc \in {"loop", "generate", "wait"} /\ processed \in Nat
  BY <1>1, <1>3, BoundAssumption DEF TraderInv, TypeOK
<1>5. pc = "wait" \/ (pc = "loop" /\ processed > 0)
  BY <1>3, <1>4 DEF OnceInv
<1>6. Batch(0, 0, total_n)
  BY <1>5, OneBatchIs
<1>7. stream[0] \in Seq(Ops)
  BY DEF TraderInv, TypeOK, Bufs, Ops
<1>8. QED
  BY <1>1, <1>2, <1>3, <1>5, <1>6, <1>7 DEF Launched

\* What the actions of the GPU do to the stream of the one batch.
LEMMA MemsetOnce ==
  ASSUME TraderInv, OnceInv, OneBatch, NEW b \in Bufs, Memset(b)
  PROVE  /\ b = 0 /\ Len(stream[0]) = 4 /\ Len(stream'[0]) = 3
         /\ stream'[1] = stream[1] /\ d_count'[0] = 0
<1>1. /\ b = 0 /\ Batch(0, 0, total_n) /\ TypeOK /\ total_n \in Nat
      /\ stream[0] \in Seq(Ops) /\ stream[0] # <<>>
  BY GpuOnTheBatch, OneBatchIs DEF Memset, TraderInv
<1>2. Working(0, "memset", 0) /\ Done(0, 0) /\ d_count' = [d_count EXCEPT ![0] = 0]
  BY <1>1 DEF Memset
<1>3. 0 \in Bufs /\ 1 \in Bufs \ {0}
  BY DEF Bufs
<1>4. /\ Head(stream[0]).kind = "memset" /\ 0 \in Head(stream[0]).left
      /\ stream'[0] = After(stream[0], 0) /\ stream'[1] = stream[1]
  BY <1>1, <1>2, <1>3, DoneKeepsTypes
<1>5. Reset(stream[0], h_ev[0], 0, total_n)
  BY <1>1, <1>4, StageByKind DEF Batch
<1>6. stream[0][1].left = {0} /\ Len(stream[0]) = 4
  BY <1>5 DEF Reset, Op
<1>7. Len(After(stream[0], 0)) = Len(stream[0]) - 1
  BY <1>1, <1>4, <1>6, AfterShape
<1>8. d_count'[0] = 0
  BY <1>1, <1>2, <1>3 DEF TypeOK
<1>9. QED
  BY <1>1, <1>4, <1>6, <1>7, <1>8

LEMMA CopyInOnce ==
  ASSUME TraderInv, OnceInv, OneBatch, NEW b \in Bufs, NEW i \in Events, CopyIn(b, i)
  PROVE  /\ b = 0 /\ Len(stream[0]) = 3 /\ stream'[1] = stream[1]
         /\ \/ Len(stream'[0]) = 3
            \/ /\ Len(stream'[0]) = 2 /\ d_ev'[0][0] = 0
               /\ stream'[0][1].left = 0..total_n - 1
<1>1. /\ b = 0 /\ Batch(0, 0, total_n) /\ TypeOK /\ total_n \in Nat \ {0}
      /\ stream[0] \in Seq(Ops) /\ stream[0] # <<>>
  BY GpuOnTheBatch, OneBatchIs DEF CopyIn, TraderInv
<1>2. Working(0, "h2d", i) /\ Done(0, i)
  BY <1>1 DEF CopyIn
<1>3. 0 \in Bufs /\ 1 \in Bufs \ {0}
  BY DEF Bufs
<1>4. /\ Head(stream[0]).kind = "h2d" /\ i \in Head(stream[0]).left
      /\ stream'[0] = After(stream[0], i) /\ stream'[1] = stream[1]
  BY <1>1, <1>2, <1>3, DoneKeepsTypes
<1>5. PICK left \in SUBSET (0..total_n - 1) :
        CopyingIn(stream[0], h_ev[0], d_ev[0], d_count[0], 0, total_n, left)
  BY <1>1, <1>4, StageByKind DEF Batch
<1>6. /\ stream[0][1].left = left /\ Len(stream[0]) = 3
      /\ stream[0][2] = Op("kernel", 0..total_n - 1)
  BY <1>5 DEF CopyingIn, Op
<1>7. CASE left # {i}
  <2>1. Len(After(stream[0], i)) = Len(stream[0])
    BY <1>1, <1>4, <1>6, <1>7, AfterShape
  <2>2. QED
    BY <1>1, <1>4, <1>6, <2>1
<1>8. CASE left = {i}
  <2>1. /\ Len(After(stream[0], i)) = Len(stream[0]) - 1
        /\ \A k \in 1..Len(stream[0]) - 1 : After(stream[0], i)[k] = stream[0][k + 1]
    BY <1>1, <1>4, <1>6, <1>8, AfterShape
  <2>2. Len(stream'[0]) = 2 /\ stream'[0][1] = Op("kernel", 0..total_n - 1)
    BY <1>4, <1>6, <2>1
  <2>3. stream'[0][1].left = 0..total_n - 1
    BY <2>2 DEF Op
  <2>4. BatchIn(stream'[0], h_ev'[0], d_ev'[0], d_count'[0], h_count'[0], moves', 0, total_n)
    BY <1>1, <1>3, CopyInKeeps, BatchMoves
  <2>5. \E l \in SUBSET (0..total_n - 1) :
          Deciding(stream'[0], d_ev'[0], d_count'[0], moves', 0, total_n, l)
    BY <2>2, <2>4 DEF BatchIn, Reset, CopyingIn, CopyingOut, Fetched
  <2>6. Holds(d_ev'[0], 0, total_n, {})
    BY <2>5 DEF Deciding
  <2>7. 0 \in (0..total_n - 1) \ {}
    BY <1>1
  <2>8. d_ev'[0][0] = 0
    BY <2>6, <2>7 DEF Holds
  <2>9. QED
    BY <1>1, <1>4, <1>6, <2>2, <2>3, <2>8
<1>9. QED
  BY <1>7, <1>8

LEMMA DecideOnce ==
  ASSUME TraderInv, OnceInv, OneBatch, NEW b \in Bufs, NEW i \in Events, DecideOrder(b, i)
  PROVE  /\ b = 0 /\ Len(stream[0]) = 2 /\ stream'[1] = stream[1]
         /\ i \in stream[0][1].left
         /\ d_count'[0] = IF i # 0 /\ moves[i] THEN d_count[0] + 1 ELSE d_count[0]
         /\ \/ /\ Len(stream'[0]) = 2
               /\ stream'[0][1].left = stream[0][1].left \ {i}
            \/ Len(stream'[0]) = 1 /\ stream[0][1].left = {i}
<1>1. /\ b = 0 /\ Batch(0, 0, total_n) /\ TypeOK /\ total_n \in Nat \ {0}
      /\ stream[0] \in Seq(Ops) /\ stream[0] # <<>>
  BY GpuOnTheBatch, OneBatchIs DEF DecideOrder, TraderInv
<1>2. /\ Working(0, "kernel", i) /\ Done(0, i)
      /\ d_count' = IF i # 0 /\ moves[d_ev[0][i]]
                    THEN [d_count EXCEPT ![0] = @ + 1] ELSE d_count
  BY <1>1 DEF DecideOrder
<1>3. 0 \in Bufs /\ 1 \in Bufs \ {0}
  BY DEF Bufs
<1>4. /\ Head(stream[0]).kind = "kernel" /\ i \in Head(stream[0]).left
      /\ stream'[0] = After(stream[0], i) /\ stream'[1] = stream[1]
  BY <1>1, <1>2, <1>3, DoneKeepsTypes
<1>5. PICK left \in SUBSET (0..total_n - 1) :
        Deciding(stream[0], d_ev[0], d_count[0], moves, 0, total_n, left)
  BY <1>1, <1>4, StageByKind DEF Batch
<1>6. stream[0][1].left = left /\ Len(stream[0]) = 2 /\ Head(stream[0]) = stream[0][1]
  BY <1>1, <1>4, <1>5, AfterShape DEF Deciding, Op
<1>7. d_ev[0][i] = i
  <2>1. i \in (0..total_n - 1) \ {}
    BY <1>4, <1>5, <1>6
  <2>2. d_ev[0][i] = 0 + i
    BY <1>5, <2>1 DEF Deciding, Holds
  <2>3. QED
    BY <2>1, <2>2
<1>8. d_count'[0] = IF i # 0 /\ moves[i] THEN d_count[0] + 1 ELSE d_count[0]
  BY <1>1, <1>2, <1>3, <1>7 DEF TypeOK
<1>9. CASE left # {i}
  <2>1. /\ Len(After(stream[0], i)) = Len(stream[0])
        /\ After(stream[0], i)[1] = Op(stream[0][1].kind, stream[0][1].left \ {i})
    BY <1>1, <1>4, <1>6, <1>9, AfterShape
  <2>2. stream'[0][1].left = stream[0][1].left \ {i}
    BY <1>4, <2>1 DEF Op
  <2>3. QED
    BY <1>1, <1>4, <1>6, <1>8, <2>1, <2>2
<1>10. CASE left = {i}
  <2>1. Len(After(stream[0], i)) = Len(stream[0]) - 1
    BY <1>1, <1>4, <1>6, <1>10, AfterShape
  <2>2. QED
    BY <1>1, <1>4, <1>6, <1>8, <1>10, <2>1
<1>11. QED
  BY <1>9, <1>10

LEMMA CopyOutOnce ==
  ASSUME TraderInv, OnceInv, OneBatch, NEW b \in Bufs, CopyOut(b)
  PROVE  /\ b = 0 /\ Len(stream[0]) = 1 /\ Len(stream'[0]) = 0
         /\ stream'[1] = stream[1] /\ h_count'[0] = d_count[0]
<1>1. /\ b = 0 /\ Batch(0, 0, total_n) /\ TypeOK /\ total_n \in Nat
      /\ stream[0] \in Seq(Ops) /\ stream[0] # <<>>
  BY GpuOnTheBatch, OneBatchIs DEF CopyOut, TraderInv
<1>2. Working(0, "d2h", 0) /\ Done(0, 0) /\ h_count' = [h_count EXCEPT ![0] = d_count[0]]
  BY <1>1 DEF CopyOut
<1>3. 0 \in Bufs /\ 1 \in Bufs \ {0}
  BY DEF Bufs
<1>4. /\ Head(stream[0]).kind = "d2h" /\ 0 \in Head(stream[0]).left
      /\ stream'[0] = After(stream[0], 0) /\ stream'[1] = stream[1]
  BY <1>1, <1>2, <1>3, DoneKeepsTypes
<1>5. CopyingOut(stream[0], d_count[0], moves, 0, total_n)
  BY <1>1, <1>4, StageByKind DEF Batch
<1>6. stream[0][1].left = {0} /\ Len(stream[0]) = 1
  BY <1>5 DEF CopyingOut, Op
<1>7. Len(After(stream[0], 0)) = Len(stream[0]) - 1
  BY <1>1, <1>4, <1>6, AfterShape
<1>8. h_count'[0] = d_count[0]
  BY <1>1, <1>2, <1>3 DEF TypeOK
<1>9. QED
  BY <1>1, <1>4, <1>6, <1>7, <1>8

LEMMA InitOnceInv == Init => OnceInv
<1>1. SUFFICES ASSUME Init, OneBatch PROVE OnceInv
  BY DEF OnceInv
<1>2. 0 \in Events
  BY <1>1, InitTraderInv, BoundAssumption DEF Events, OneBatch, TraderInv, TypeOK
<1>3. d_ev[0][0] = NoEvent /\ stream[1] = <<>>
  BY <1>1, <1>2 DEF Init, Bufs
<1>4. pc = "loop" /\ processed = 0
  BY <1>1 DEF Init
<1>5. QED
  BY <1>3, <1>4 DEF OnceInv, Launched

LEMMA StepOnceInv == TraderInv /\ TraderInv' /\ OnceInv /\ [Next]_vars => OnceInv'
<1>1. SUFFICES ASSUME TraderInv, TraderInv', OnceInv, [Next]_vars, OneBatch'
               PROVE  OnceInv'
  BY DEF OnceInv
<1>2. OneBatch
  BY <1>1 DEF OneBatch, Next, Host, BeginBatch, GenerateEvent, Launch, FinishBatch, Finish,
     CudaError, Gpu, Memset, CopyIn, DecideOrder, CopyOut, hostVars, input, vars
<1>3. /\ total_n \in Nat \ {0} /\ processed \in Nat
      /\ stream[0] \in Seq(Ops) /\ 0 \in Bufs /\ 1 \in Bufs
  <2>1. 0 \in Bufs /\ 1 \in Bufs
    BY DEF Bufs
  <2>2. TypeOK
    BY <1>1 DEF TraderInv
  <2>3. stream[0] \in Seq(Ops)
    BY <2>1, <2>2 DEF TypeOK, Ops
  <2>4. processed \in Nat
    BY <2>2, BoundAssumption DEF TypeOK
  <2>5. total_n \in Nat \ {0}
    BY <1>1, <1>2, OneBatchIs
  <2>6. QED
    BY <2>1, <2>3, <2>4, <2>5
<1> USE <1>1, <1>2
<1>4. CASE BeginBatch
  <2>1. /\ pc = "loop" /\ pc' = "generate" /\ processed < total_n
        /\ UNCHANGED <<processed, buf, stream, d_ev>>
    BY <1>4 DEF BeginBatch, device
  <2>2. processed = 0
    BY <1>3, <2>1, OneBatchIs
  <2>3. QED
    BY <2>1, <2>2 DEF OnceInv, Launched
<1>5. CASE GenerateEvent
  <2>1. pc = "generate" /\ UNCHANGED <<pc, processed, buf, stream, d_ev>>
    BY <1>5 DEF GenerateEvent, device
  <2>2. QED
    BY <2>1 DEF OnceInv, Launched
<1>6. CASE Launch
  <2> DEFINE four == <<Op("memset", {0}), Op("h2d", 0..n - 1), Op("kernel", 0..n - 1),
                       Op("d2h", {0})>>
  <2>1. /\ pc = "generate" /\ pc' = "wait" /\ UNCHANGED <<processed, buf, d_ev>>
        /\ stream' = [stream EXCEPT ![buf] = @ \o four]
    BY <1>6 DEF Launch, device
  <2>2. processed = 0 /\ buf = 0 /\ stream[0] = <<>>
    BY <2>1, OneBatchIs DEF OnceInv
  <2>3. stream'[0] = four /\ Len(four) = 4
    BY <1>3, <2>1, <2>2 DEF TraderInv, TypeOK
  <2>4. stream'[1] = stream[1]
    BY <1>3, <2>1, <2>2 DEF TraderInv, TypeOK
  <2> HIDE DEF four
  <2>5. ~(Len(stream'[0]) <= 2)
    BY <2>3
  <2>6. stream[1] = <<>>
    BY <2>1 DEF OnceInv
  <2>7. QED
    BY <2>1, <2>2, <2>4, <2>5, <2>6 DEF OnceInv
<1>7. CASE FinishBatch
  <2>1. /\ pc = "wait" /\ pc' = "loop" /\ processed' = processed + n /\ buf' = 1 - buf
        /\ UNCHANGED <<stream, d_ev>>
    BY <1>7 DEF FinishBatch, device
  <2>2. processed = 0 /\ n = total_n /\ buf = 0
    BY <2>1, OneBatchIs DEF OnceInv
  <2>3. processed' > 0 /\ buf' = 1
    BY <1>3, <2>1, <2>2
  <2>4. QED
    BY <2>1, <2>3 DEF OnceInv, Launched
<1>8. CASE Finish
  <2>1. /\ pc = "loop" /\ pc' = "done" /\ processed >= total_n /\ Synchronized(1 - buf)
        /\ UNCHANGED <<processed, buf, stream, d_ev>>
    BY <1>8 DEF Finish, device
  <2>2. processed > 0
    BY <1>3, <2>1
  <2>3. stream[0] = <<>>
    BY <2>1, <2>2, OneBatchIs DEF Synchronized
  <2>4. Launched
    BY <2>1, <2>2 DEF Launched
  <2>5. QED
    BY <2>1, <2>3, <2>4 DEF OnceInv
<1>9. CASE CudaError
  BY <1>9 DEF CudaError, OnceInv, Launched
<1>10. ASSUME NEW b \in Bufs, Gpu(b)
       PROVE  OnceInv'
  <2>1. UNCHANGED <<pc, processed, buf>>
    BY <1>10 DEF Gpu, Memset, CopyIn, DecideOrder, CopyOut, hostVars
  <2>2. pc \in {"loop", "wait"} /\ (pc = "loop" => processed > 0)
    <3>1. \E kind, i : Working(b, kind, i)
      BY <1>10 DEF Gpu, Memset, CopyIn, DecideOrder, CopyOut
    <3>2. Launched /\ pc \notin {"done", "failed"}
      BY <3>1, GpuOnTheBatch
    <3>3. QED
      BY <3>2 DEF Launched
  <2>3. ASSUME Len(stream[0]) <= 2
        PROVE  d_ev[0][0] = 0
    BY <2>2, <2>3 DEF Launched, OnceInv
  <2>4. stream'[1] = stream[1] /\ (Len(stream'[0]) <= 2 => d_ev'[0][0] = 0)
    <3>1. CASE Memset(b)
      <4>1. Len(stream'[0]) = 3 /\ stream'[1] = stream[1]
        BY <3>1, MemsetOnce
      <4>2. QED
        BY <4>1
    <3>2. ASSUME NEW i \in Events, CopyIn(b, i)
          PROVE  stream'[1] = stream[1] /\ (Len(stream'[0]) <= 2 => d_ev'[0][0] = 0)
      <4>1. stream'[1] = stream[1] /\ (Len(stream'[0]) = 3 \/ d_ev'[0][0] = 0)
        BY <3>2, CopyInOnce
      <4>2. QED
        BY <4>1
    <3>3. ASSUME NEW i \in Events, DecideOrder(b, i)
          PROVE  stream'[1] = stream[1] /\ (Len(stream'[0]) <= 2 => d_ev'[0][0] = 0)
      <4>1. stream'[1] = stream[1] /\ Len(stream[0]) = 2
        BY <3>3, DecideOnce
      <4>2. d_ev' = d_ev
        BY <3>3 DEF DecideOrder
      <4>3. QED
        BY <2>3, <4>1, <4>2
    <3>4. CASE CopyOut(b)
      <4>1. stream'[1] = stream[1] /\ Len(stream[0]) = 1
        BY <3>4, CopyOutOnce
      <4>2. d_ev' = d_ev
        BY <3>4 DEF CopyOut, device
      <4>3. QED
        BY <2>3, <4>1, <4>2
    <3>5. QED
      BY <1>10, <3>1, <3>2, <3>3, <3>4 DEF Gpu
  <2>5. QED
    BY <1>3, <2>1, <2>2, <2>4 DEF OnceInv
<1>11. CASE UNCHANGED vars
  BY <1>11 DEF vars, OnceInv, Launched, device
<1>12. QED
  BY <1>4, <1>5, <1>6, <1>7, <1>8, <1>9, <1>10, <1>11 DEF Next, Host

LEMMA OnceInvariant == Spec => [](TraderInv /\ OnceInv)
BY Invariant, InitOnceInv, StepOnceInv, PTL DEF Spec

\* Where main of the other version stands, and what its variables are.
AsOnce ==
  /\ ~OneBatch => OncePc = "prepare" /\ OnceLeft = {} /\ OnceCount = 0
  /\ OneBatch =>
       /\ pc \in {"done", "failed"} => OncePc = pc
       /\ pc \in {"loop", "generate"} /\ processed = 0 => OncePc = "prepare"
       /\ pc = "wait" \/ (pc = "loop" /\ processed > 0) =>
            /\ Len(stream[0]) = 4 => OncePc = "clear"
            /\ Len(stream[0]) = 3 => OncePc = "copy"
            /\ Len(stream[0]) \in {1, 2} => OncePc = "kernel"
            /\ Len(stream[0]) = 0 => OncePc = "print"
       /\ OnceLeft = IF Len(stream[0]) = 2 THEN stream[0][1].left ELSE {}
       /\ Len(stream[0]) # 0 /\ pc # "done" => OnceCount = 0
       /\ d_ev[0][0] = NoEvent /\ pc # "done" => OnceCount = 0
       /\ Len(stream[0]) = 0 /\ d_ev[0][0] # NoEvent =>
            OnceCount = IF pc = "done" THEN total_orders ELSE h_count[0]

LEMMA OnceIs == TypeOK => AsOnce
<1>1. SUFFICES ASSUME TypeOK PROVE AsOnce
  OBVIOUS
<1>2. stream[0] \in Seq(Ops) /\ (stream[0] = <<>> <=> Len(stream[0]) = 0) /\ processed \in Nat
  BY <1>1, BoundAssumption DEF TypeOK, Ops, Bufs
<1>3. ASSUME ~OneBatch
      PROVE  OncePc = "prepare" /\ OnceLeft = {} /\ OnceCount = 0
  BY <1>3 DEF OncePc, OnceLeft, OnceCount
<1>4. ASSUME OneBatch
      PROVE  /\ pc \in {"done", "failed"} => OncePc = pc
             /\ pc \in {"loop", "generate"} /\ processed = 0 => OncePc = "prepare"
             /\ pc = "wait" \/ (pc = "loop" /\ processed > 0) =>
                  /\ Len(stream[0]) = 4 => OncePc = "clear"
                  /\ Len(stream[0]) = 3 => OncePc = "copy"
                  /\ Len(stream[0]) \in {1, 2} => OncePc = "kernel"
                  /\ Len(stream[0]) = 0 => OncePc = "print"
  <2>1. ASSUME pc \in {"done", "failed"} PROVE OncePc = pc
    BY <1>4, <2>1 DEF OncePc
  <2>2. ASSUME pc \in {"loop", "generate"}, processed = 0 PROVE OncePc = "prepare"
    BY <1>4, <2>2 DEF OncePc
  <2>3. ASSUME pc = "wait" \/ (pc = "loop" /\ processed > 0)
        PROVE  OncePc = <<"print", "kernel", "kernel", "copy", "clear">>[Len(stream[0]) + 1]
    <3>1. /\ ~(~OneBatch \/ (pc \in {"loop", "generate"} /\ processed = 0))
          /\ ~(OneBatch /\ pc \in {"done", "failed"})
      BY <1>2, <1>4, <2>3
    <3>2. QED
      BY <3>1 DEF OncePc
  <2>4. ASSUME pc = "wait" \/ (pc = "loop" /\ processed > 0)
        PROVE  /\ Len(stream[0]) = 4 => OncePc = "clear"
               /\ Len(stream[0]) = 3 => OncePc = "copy"
               /\ Len(stream[0]) \in {1, 2} => OncePc = "kernel"
               /\ Len(stream[0]) = 0 => OncePc = "print"
    <3> DEFINE l == Len(stream[0])
               names == <<"print", "kernel", "kernel", "copy", "clear">>
    <3>1. OncePc = names[l + 1]
      BY <2>3, <2>4
    <3>2. /\ names[1] = "print" /\ names[2] = "kernel" /\ names[3] = "kernel"
          /\ names[4] = "copy" /\ names[5] = "clear"
      OBVIOUS
    <3> HIDE DEF l, names
    <3>3. /\ l = 4 => OncePc = "clear"
          /\ l = 3 => OncePc = "copy"
          /\ l \in {1, 2} => OncePc = "kernel"
          /\ l = 0 => OncePc = "print"
      BY <3>1, <3>2
    <3>4. QED
      BY <3>3 DEF l
  <2>5. QED
    BY <2>1, <2>2, <2>4
<1>5. ASSUME OneBatch
      PROVE  OnceLeft = IF Len(stream[0]) = 2 THEN stream[0][1].left ELSE {}
  BY <1>5 DEF OnceLeft
<1>6. ASSUME OneBatch
      PROVE  /\ Len(stream[0]) # 0 /\ pc # "done" => OnceCount = 0
             /\ d_ev[0][0] = NoEvent /\ pc # "done" => OnceCount = 0
             /\ Len(stream[0]) = 0 /\ d_ev[0][0] # NoEvent =>
                  OnceCount = IF pc = "done" THEN total_orders ELSE h_count[0]
  <2>1. pc # "done" /\ (~OneBatch \/ d_ev[0][0] = NoEvent \/ ~Synchronized(0)) => OnceCount = 0
    BY DEF OnceCount
  <2>2. ~(~OneBatch \/ d_ev[0][0] = NoEvent \/ ~Synchronized(0)) =>
          OnceCount = IF pc = "done" THEN total_orders ELSE h_count[0]
    BY DEF OnceCount
  <2>3. QED
    BY <1>2, <1>6, <2>1, <2>2 DEF Synchronized
<1>7. QED
  BY <1>3, <1>4, <1>5, <1>6 DEF AsOnce

LEMMA OnceIsNext == (TypeOK => AsOnce)'
BY OnceIs, PTL

LEMMA OnceInit ==
  ASSUME Init
  PROVE  Once!Init
<1>1. TypeOK
  BY InitTraderInv DEF TraderInv
<1>2. /\ moves \in [Events -> BOOLEAN] /\ total_n \in 0..MaxTotal
      /\ pc = "loop" /\ processed = 0 /\ stream[0] = <<>>
  BY DEF Init, Bufs
<1>3. OneBatch => d_ev[0][0] = NoEvent
  BY InitOnceInv, <1>2 DEF OnceInv
<1>4. OncePc = "prepare" /\ OnceLeft = {} /\ OnceCount = 0
  <2>1. Len(stream[0]) = 0
    BY <1>2
  <2>2. QED
    BY <1>1, <1>2, <1>3, <2>1, OnceIs DEF AsOnce
<1>5. OnceDevice \in Garbage
  <2>1. d_count[0] \in Garbage
    BY DEF Init, Bufs
  <2>2. QED
    BY <2>1 DEF OnceDevice
<1>6. QED
  BY <1>2, <1>4, <1>5 DEF Once!Init, Once!Events, Events, OnceDevice

LEMMA OnceStutters ==
  ASSUME UNCHANGED <<moves, total_n, OncePc, OnceLeft, OnceDevice, OnceCount>>
  PROVE  UNCHANGED Once!vars
BY DEF Once!vars, OnceDevice

LEMMA OnceStep ==
  ASSUME TraderInv, TraderInv', OnceInv, OnceInv', [Next]_vars
  PROVE  [Once!Next]_Once!vars
<1>1. UNCHANGED <<moves, total_n, batch_n>> /\ OneBatch' = OneBatch
  BY DEF OneBatch, Next, Host, BeginBatch, GenerateEvent, Launch, FinishBatch, Finish,
     CudaError, Gpu, Memset, CopyIn, DecideOrder, CopyOut, hostVars, input, vars
<1>2. /\ TypeOK /\ TypeOK' /\ AsOnce /\ AsOnce'
  BY OnceIs, OnceIsNext DEF TraderInv
<1>3. CASE ~OneBatch
  <2>1. UNCHANGED <<OncePc, OnceLeft, OnceCount>>
    BY <1>1, <1>2, <1>3 DEF AsOnce
  <2>2. UNCHANGED OnceDevice
    BY <1>1, <1>3 DEF OnceDevice
  <2>3. QED
    BY <1>1, <2>1, <2>2, OnceStutters
<1>4. CASE OneBatch
  <2> USE <1>4
  <2>1. /\ total_n \in Nat \ {0} /\ 0 \in Events /\ 0 # NoEvent /\ processed \in Nat
        /\ stream[0] \in Seq(Ops)
    <3>1. total_n \in Nat \ {0} /\ 0 \in Events
      BY OneBatchIs
    <3>2. 0 # NoEvent
      BY <3>1, EventAssumption DEF Events
    <3>3. processed \in Nat /\ stream[0] \in Seq(Ops)
      BY <1>2, BoundAssumption DEF TypeOK, Ops, Bufs
    <3>4. QED
      BY <3>1, <3>2, <3>3
  <2>2. /\ OnceDevice = d_count[0] /\ OnceDevice' = d_count'[0]
    BY <1>1 DEF OnceDevice
  <2>3. CASE BeginBatch \/ GenerateEvent
    <3>1. /\ pc \in {"loop", "generate"} /\ pc' \in {"loop", "generate"} /\ processed = 0
          /\ UNCHANGED <<processed, stream, d_ev, d_count, h_count, total_orders>>
      BY <1>1, <2>1, <2>3, OneBatchIs DEF BeginBatch, GenerateEvent, device, OnceInv
    <3>2. Len(stream[0]) = 0
      BY <3>1, OneBatchIs
    <3>3. d_ev[0][0] = NoEvent
      BY <3>1 DEF OnceInv
    <3>4. UNCHANGED <<OncePc, OnceLeft, OnceCount>>
      BY <1>1, <1>2, <3>1, <3>2, <3>3 DEF AsOnce
    <3>5. UNCHANGED <<moves, total_n, OncePc, OnceLeft, OnceDevice, OnceCount>>
      BY <1>1, <2>2, <3>1, <3>4
    <3>6. QED
      BY <3>5, OnceStutters
  <2>4. CASE Launch
    <3> DEFINE four == <<Op("memset", {0}), Op("h2d", 0..n - 1), Op("kernel", 0..n - 1),
                         Op("d2h", {0})>>
    <3>1. /\ pc = "generate" /\ pc' = "wait" /\ stream' = [stream EXCEPT ![buf] = @ \o four]
          /\ UNCHANGED <<processed, d_ev, d_count>>
      BY <2>4 DEF Launch, device
    <3>2. processed = 0 /\ buf = 0 /\ stream[0] = <<>> /\ d_ev[0][0] = NoEvent
      BY <3>1, OneBatchIs DEF OnceInv
    <3>3. Len(four) = 4 /\ 0 \in Bufs
      BY DEF Bufs
    <3>4. stream'[0] = four
      BY <1>2, <3>1, <3>2, <3>3 DEF TypeOK
    <3> HIDE DEF four
    <3>5. Len(stream[0]) = 0 /\ Len(stream'[0]) = 4
      BY <3>2, <3>3, <3>4
    <3>6. /\ OncePc = "prepare" /\ OncePc' = "clear"
          /\ UNCHANGED <<OnceLeft, OnceCount>>
      BY <1>1, <1>2, <3>1, <3>2, <3>5 DEF AsOnce
    <3>7. OnceDevice' = OnceDevice
      BY <2>2, <3>1
    <3>8. Once!Prepare
      BY <1>1, <3>6, <3>7 DEF Once!Prepare, OnceDevice
    <3>9. QED
      BY <3>8 DEF Once!Next
  <2>5. CASE FinishBatch
    <3>1. /\ pc = "wait" /\ pc' = "loop" /\ processed' = processed + n
          /\ UNCHANGED <<stream, d_ev, d_count, h_count>>
      BY <2>5 DEF FinishBatch, device
    <3>2. processed' > 0 /\ Launched
      BY <2>1, <3>1, OneBatchIs DEF OnceInv, Launched
    <3>3. Len(stream[0]) \in 0..4
      BY <3>1, OneBatchIs DEF Batch, BatchIn, Reset, CopyingIn, Deciding, CopyingOut, Fetched
    <3>4. Len(stream[0]) = 0 => d_ev[0][0] # NoEvent
      BY <2>1, <3>2 DEF OnceInv
    <3>5. UNCHANGED <<OncePc, OnceLeft, OnceCount>>
      <4>1. OncePc' = OncePc
        <5>1. \/ Len(stream[0]) = 0 \/ Len(stream[0]) = 1 \/ Len(stream[0]) = 2
              \/ Len(stream[0]) = 3 \/ Len(stream[0]) = 4
          BY <3>3
        <5>2. QED
          BY <1>1, <1>2, <3>1, <3>2, <5>1 DEF AsOnce
      <4>2. OnceLeft' = OnceLeft
        BY <1>1, <1>2, <3>1 DEF AsOnce
      <4>3. OnceCount' = OnceCount
        BY <1>1, <1>2, <3>1, <3>4 DEF AsOnce
      <4>4. QED
        BY <4>1, <4>2, <4>3
    <3>6. UNCHANGED <<moves, total_n, OncePc, OnceLeft, OnceDevice, OnceCount>>
      BY <1>1, <2>2, <3>1, <3>5
    <3>7. QED
      BY <3>6, OnceStutters
  <2>6. CASE Finish
    <3>1. /\ pc = "loop" /\ pc' = "done" /\ processed >= total_n
          /\ stream[1 - buf] = <<>> /\ total_orders' = total_orders + h_count[1 - buf]
          /\ UNCHANGED <<stream, d_ev, d_count, h_count>>
      BY <2>6 DEF Finish, Synchronized, device
    <3>2. processed > 0 /\ Launched
      BY <2>1, <3>1 DEF Launched
    <3>3. buf = 1 /\ total_orders = 0
      BY <3>1, <3>2, OneBatchIs
    <3>4. h_count[0] \in Int
      BY <1>2 DEF TypeOK, Bufs
    <3>5. stream[0] = <<>> /\ total_orders' = h_count[0]
      BY <3>1, <3>3, <3>4
    <3>6. Len(stream[0]) = 0 /\ Len(stream'[0]) = 0
      BY <3>1, <3>5
    <3>7. d_ev[0][0] = 0
      BY <3>2, <3>6 DEF OnceInv
    <3>8. /\ OncePc = "print" /\ OncePc' = "done"
          /\ UNCHANGED <<OnceLeft, OnceCount>>
      BY <1>1, <1>2, <2>1, <3>1, <3>2, <3>5, <3>6, <3>7 DEF AsOnce
    <3>9. OnceDevice' = OnceDevice
      BY <2>2, <3>1
    <3>10. Once!PrintOrders
      BY <1>1, <3>8, <3>9 DEF Once!PrintOrders, OnceDevice
    <3>11. QED
      BY <3>10 DEF Once!Next
  <2>7. CASE CudaError
    <3>1. /\ pc \in {"generate", "wait", "loop"} /\ pc' = "failed"
          /\ UNCHANGED <<processed, stream, d_ev, d_count, h_count>>
      BY <2>7 DEF CudaError, device
    <3>2. OncePc' = "failed"
      BY <1>1, <1>2, <3>1 DEF AsOnce
    <3>3. OncePc \notin {"done", "failed"}
      <4>1. CASE pc \in {"loop", "generate"} /\ processed = 0
        BY <1>2, <4>1 DEF AsOnce
      <4>2. CASE pc = "wait" \/ (pc = "loop" /\ processed > 0)
        <5>1. Len(stream[0]) \in 0..4
          BY <4>2, OneBatchIs DEF Batch, BatchIn, Reset, CopyingIn, Deciding, CopyingOut,
             Fetched
        <5>2. QED
          BY <1>2, <4>2, <5>1 DEF AsOnce
      <4>3. QED
        BY <2>1, <3>1, <4>1, <4>2 DEF OnceInv
    <3>4. UNCHANGED <<OnceLeft, OnceCount>>
      BY <1>1, <1>2, <3>1 DEF AsOnce
    <3>5. OnceDevice' = OnceDevice
      BY <2>2, <3>1
    <3>6. Once!CudaError
      BY <1>1, <3>2, <3>3, <3>4, <3>5 DEF Once!CudaError, OnceDevice
    <3>7. QED
      BY <3>6 DEF Once!Next
  <2>8. ASSUME NEW b \in Bufs, Gpu(b)
        PROVE  [Once!Next]_Once!vars
    <3>1. UNCHANGED <<pc, processed, total_orders>>
      BY <2>8 DEF Gpu, Memset, CopyIn, DecideOrder, CopyOut, hostVars
    <3>2. pc = "wait" \/ (pc = "loop" /\ processed > 0)
      <4>1. \E kind, i : Working(b, kind, i)
        BY <2>8 DEF Gpu, Memset, CopyIn, DecideOrder, CopyOut
      <4>2. Launched /\ pc \notin {"done", "failed"}
        BY <4>1, GpuOnTheBatch
      <4>3. QED
        BY <4>2 DEF Launched
    <3>3. pc' = "wait" \/ (pc' = "loop" /\ processed' > 0)
      BY <3>1, <3>2
    <3>4. CASE Memset(b)
      <4>1. Len(stream[0]) = 4 /\ Len(stream'[0]) = 3 /\ d_count'[0] = 0
        BY <3>4, MemsetOnce
      <4>2. /\ OncePc = "clear" /\ OncePc' = "copy" /\ UNCHANGED <<OnceLeft, OnceCount>>
        BY <1>1, <1>2, <3>2, <3>3, <4>1 DEF AsOnce
      <4>3. OnceDevice' = 0
        BY <2>2, <4>1
      <4>4. Once!ClearCount
        BY <1>1, <4>2, <4>3 DEF Once!ClearCount, OnceDevice
      <4>5. QED
        BY <4>4 DEF Once!Next
    <3>5. ASSUME NEW i \in Events, CopyIn(b, i)
          PROVE  [Once!Next]_Once!vars
      <4>1. /\ Len(stream[0]) = 3
            /\ \/ Len(stream'[0]) = 3
               \/ Len(stream'[0]) = 2 /\ stream'[0][1].left = 0..total_n - 1
        BY <3>5, CopyInOnce
      <4>2. OnceDevice' = OnceDevice
        BY <2>2, <3>5 DEF CopyIn
      <4>3. CASE Len(stream'[0]) = 3
        <5>1. UNCHANGED <<OncePc, OnceLeft, OnceCount>>
          BY <1>1, <1>2, <3>2, <3>3, <4>1, <4>3 DEF AsOnce
        <5>2. QED
          BY <1>1, <4>2, <5>1, OnceStutters
      <4>4. CASE Len(stream'[0]) = 2 /\ stream'[0][1].left = 0..total_n - 1
        <5>1. /\ OncePc = "copy" /\ OncePc' = "kernel" /\ OnceLeft' = 0..total_n - 1
              /\ OnceCount' = OnceCount
          BY <1>1, <1>2, <3>2, <3>3, <4>1, <4>4 DEF AsOnce
        <5>2. Once!CopyAndLaunch
          BY <1>1, <2>1, <4>2, <5>1 DEF Once!CopyAndLaunch, OnceDevice
        <5>3. QED
          BY <5>2 DEF Once!Next
      <4>5. QED
        BY <4>1, <4>3, <4>4
    <3>6. ASSUME NEW i \in Events, DecideOrder(b, i)
          PROVE  Once!Next
      <4>1. /\ Len(stream[0]) = 2 /\ i \in stream[0][1].left
            /\ d_count'[0] = IF i # 0 /\ moves[i] THEN d_count[0] + 1 ELSE d_count[0]
            /\ \/ /\ Len(stream'[0]) = 2
                  /\ stream'[0][1].left = stream[0][1].left \ {i}
               \/ Len(stream'[0]) = 1 /\ stream[0][1].left = {i}
        BY <3>6, DecideOnce
      <4>2. /\ OncePc = "kernel" /\ OncePc' = "kernel" /\ OnceCount' = OnceCount
            /\ OnceLeft = stream[0][1].left /\ OnceLeft' = OnceLeft \ {i}
        BY <1>1, <1>2, <3>2, <3>3, <4>1 DEF AsOnce
      <4>3. OnceDevice' = IF i # 0 /\ moves[i] THEN OnceDevice + 1 ELSE OnceDevice
        BY <2>2, <4>1
      <4>4. Once!DecideOrder(i)
        BY <1>1, <4>1, <4>2, <4>3 DEF Once!DecideOrder, OnceDevice
      <4>5. QED
        BY <4>4 DEF Once!Next, Once!Events, Events
    <3>7. CASE CopyOut(b)
      <4>1. Len(stream[0]) = 1 /\ Len(stream'[0]) = 0 /\ h_count'[0] = d_count[0]
        BY <3>7, CopyOutOnce
      <4>2. d_ev'[0][0] # NoEvent
        BY <2>1, <1>1, <3>3, <4>1 DEF OnceInv, Launched
      <4>3. /\ OncePc = "kernel" /\ OncePc' = "print" /\ OnceLeft = {} /\ OnceLeft' = {}
            /\ OnceCount' = h_count'[0]
        BY <1>1, <1>2, <3>2, <3>3, <4>1, <4>2 DEF AsOnce
      <4>4. OnceDevice' = OnceDevice
        BY <2>2, <3>7 DEF CopyOut, device
      <4>5. Once!FetchCount
        BY <1>1, <2>2, <4>1, <4>3, <4>4 DEF Once!FetchCount, OnceDevice
      <4>6. QED
        BY <4>5 DEF Once!Next
    <3>8. QED
      BY <2>8, <3>4, <3>5, <3>6, <3>7 DEF Gpu
  <2>9. CASE UNCHANGED vars
    <3>1. UNCHANGED <<moves, total_n, batch_n, pc, processed, total_orders, stream, d_ev,
                      d_count, h_count>>
      BY <2>9 DEF vars, input, device
    <3>2. UNCHANGED <<OncePc, OnceLeft, OnceDevice, OnceCount>>
      BY <1>1, <2>2, <3>1 DEF OncePc, OnceLeft, OnceCount, Synchronized
    <3>3. QED
      BY <1>1, <3>2, OnceStutters
  <2>10. QED
    BY <2>3, <2>4, <2>5, <2>6, <2>7, <2>8, <2>9 DEF Next, Host
<1>5. QED
  BY <1>3, <1>4

(* With one batch the program (main.cu) does what the version without      *)
(* double buffering (mini_trader.cu) does, step by step, for any number of *)
(* events and whatever the memory held before: no thread of decide_orders  *)
(* runs before the counter is reset or after it is fetched.                *)
THEOREM OneBatchImplementsOnce == Spec => ImplementsOnce
<1>1. TraderInv /\ TraderInv' /\ OnceInv /\ OnceInv' /\ [Next]_vars => [Once!Next]_Once!vars
  BY OnceStep
<1>2. Init => Once!Init
  BY OnceInit
<1>3. QED
  BY <1>1, <1>2, OnceInvariant, PTL DEF Spec, ImplementsOnce, Once!Spec
=============================================================================
