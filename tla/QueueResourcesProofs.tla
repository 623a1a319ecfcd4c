------------------------ MODULE QueueResourcesProofs ------------------------
(***************************************************************************)
(* Theorems about QueueResources, for every number of queues, with and     *)
(* without the HTTP server, and whichever calls fail.                      *)
(*                                                                         *)
(* The argument has two halves.  The functions of the code are in order,   *)
(* call by call (CreateOrder, DestroyOrder): this is shown of the          *)
(* functions once, and stays true of what is left of them.  What the       *)
(* objects are at any time follows from the calls that are still pending.  *)
(***************************************************************************)
EXTENDS QueueResources, FiniteSetTheorems, FunctionTheorems, SequenceTheorems, TLAPS

Calls(s)    == {s[n] : n \in DOMAIN s}
AllCalls(p) == UNION {Calls(p[i]) : i \in DOMAIN p}
Pending     == AllCalls(plan)

Family(o) == o[1][1]
AllFamilies == {"app", "udp", "tcp", "cpu", "page", "icmp"}
Devices == {<<App, k>> : k \in {"gpu", "pe", "dev"}}

\* The CPU RSS queue an object is part of, by its main object.
Leader(o) == <<o[1], CASE o[2] \in {"txq", "pool", "tx_map"} -> "txq"
                       [] o[2] \in {"rxq", "rx_map"} -> "rxq"
                       [] OTHER -> o[2]>>
-----------------------------------------------------------------------------
(* The functions that create.                                              *)

\* The error path of a function releases what it has made and resets the pointers.
Drops == [op : {"release"}, on : Objects, guard : {FALSE}, nulls : {TRUE}, undo : {<<>>},
          otherwise : {"ignore"}]

\* The functions of main go by stages, each opened by the creation of the first
\* receive queue of a protocol.
Protocols == {"udp", "tcp", "icmp"}
Stage(family) == CASE family = "app" -> 0 [] family = "udp" -> 2
                   [] family \in {"tcp", "cpu", "page"} -> 4 [] family = "icmp" -> 6
First(f) == IF f = "icmp" THEN <<<<f, "0">>, "rxq">> ELSE <<<<f, Order[1]>>, "rxq">>
Opens(c, f) == c.op = "make" /\ c.otherwise = "return" /\ c.on = First(f)
Rank(c) == IF \E f \in Protocols : Opens(c, f) THEN Stage(Family(c.on)) ELSE Stage(Family(c.on)) + 1

\* The calls of the error path of c.
UndoOK(c) ==
  /\ \A k \in DOMAIN c.undo : /\ Family(c.on) = "cpu" /\ c.undo[k].on[1] = c.on[1]
                              /\ Leader(c.undo[k].on) = Leader(c.on)
  /\ \A j, k \in DOMAIN c.undo : j < k => c.undo[j].on \notin Needs(c.undo[k].on)

CreateCalls ==
  [op : {"make", "nest", "set", "start"}, on : Objects, guard : {FALSE}, nulls : {FALSE},
   undo : Seq(Drops), otherwise : Protocols \cup {"return", "leave", "ignore"}]
CreateCall(c) ==
  /\ c \in CreateCalls
  /\ c.op = "start" => Startable(c.on)
  /\ c.op = "nest" => c.otherwise = "tcp" /\ Family(c.on) = "cpu"
  /\ c.otherwise = "return" => c.undo = <<>>
  /\ c.otherwise = "leave" =>
       /\ Family(c.on) = "cpu" /\ c.on[2] # "pe"
       /\ \E k \in DOMAIN c.undo : c.undo[k].on = Leader(c.on)
  /\ c.otherwise = "ignore" => c.op = "set"
  /\ c.otherwise \in Protocols => Stage(Family(c.on)) = Stage(c.otherwise)
  /\ UndoOK(c)

\* What is in use of the server only, in a plan made for the mode http.
ForMode(c, http) == OfServer(c.on) => http

\* Of two calls in the order they are made.
CreateOrder(c, d) ==
  /\ c.op \in {"make", "nest", "start", "release"} /\ d.op \in {"make", "nest"} => c.on # d.on
  /\ c.op \in {"start", "release"} /\ d.op = "start" => c.on # d.on
  /\ c.op = "start" /\ d.op = "nest" => d.on \notin Needs(c.on)
  /\ c.op = "start" => \A k \in DOMAIN d.undo : d.undo[k].on \in Needs(c.on) =>
                         \E j \in DOMAIN d.undo : j < k /\ d.undo[j].on = c.on
  /\ c.op = "release" /\ d.op = "start" => c.on \notin Needs(d.on)
  /\ d.op = "release" => c.op = "release"
  /\ Rank(c) <= Rank(d)

\* Of two calls of one function, in either order: to leave it is to leave the
\* queue it makes.
CreateTogether(c, d) ==
  c.otherwise = "leave" => Family(d.on) = "cpu" /\ Leader(d.on) = Leader(c.on)

\* Of a call and one of a later function.
Touched(c) == {c.undo[k].on : k \in DOMAIN c.undo} \cup (IF c.op = "set" THEN {} ELSE {c.on})
CreateApart(c, d) ==
  /\ CreateOrder(c, d) /\ d.op # "release"
  /\ d.op \in {"make", "nest", "start"} => d.on \notin Touched(c)
  /\ d.op = "start" => Needs(d.on) \cap {c.undo[k].on : k \in DOMAIN c.undo} = {}

CreateFunction(s) ==
  /\ s \in Seq(CreateCalls \cup Drops)
  /\ \A n \in DOMAIN s : CreateCall(s[n]) \/ s[n] \in Drops
  /\ \A n, m \in DOMAIN s : /\ n < m => CreateOrder(s[n], s[m])
                            /\ n < m /\ s[n].op = "release" => s[n].on \notin Needs(s[m].on)
                            /\ CreateTogether(s[n], s[m])
CreatePlan(p) ==
  /\ p \in Seq(Seq(CreateCalls \cup Drops))
  /\ \A i \in DOMAIN p : p[i] # <<>> /\ CreateFunction(p[i])
  /\ \A i, j \in DOMAIN p : i < j => \A c \in Calls(p[i]), d \in Calls(p[j]) : CreateApart(c, d)
-----------------------------------------------------------------------------
(* The functions that destroy.                                             *)

PeDrops == [op : {"release"}, on : {o \in Objects : Family(o) = "cpu" /\ o[2] = "pe"},
            guard : {TRUE}, nulls : {TRUE}, undo : {<<>>}, otherwise : {"ignore"}]

\* A failure may be ignored if nothing is lost by it, or the object is abandoned.
DestroyCalls ==
  [op : {"stop", "release", "end"}, on : Objects, guard : BOOLEAN, nulls : BOOLEAN,
   undo : Seq(PeDrops), otherwise : {"leave", "ignore"}]
DestroyCall(c) ==
  /\ c \in DestroyCalls
  /\ c.otherwise = "ignore" => \/ Needs(c.on) = {}
                               \/ c.op = "release" /\ c.nulls /\ ~c.guard
  /\ c.op = "end" => c.on = <<App, "flow">>
  /\ Family(c.on) # "cpu" => c.undo = <<>>
  /\ Family(c.on) = "cpu" /\ c.op = "release" => c.nulls

\* Of two calls in the order they are made: nothing is released twice, the
\* devices go last; and of two calls of one function: users before memory.
DestroyOrder(c, d) ==
  /\ c.op \in {"release", "end"} /\ ~c.nulls /\ d.op \in {"release", "end"} => c.on # d.on
  /\ c.op = "release" /\ c.on \in Devices => d.on[1] = App
UsersFirst(c, d) == c.op = "release" /\ d.op \in {"stop", "release"} => c.on \notin Needs(d.on)

DestroyFunction(s) ==
  /\ s \in Seq(DestroyCalls)
  /\ \A n \in DOMAIN s : DestroyCall(s[n])
  /\ \A n, m \in DOMAIN s : n < m => DestroyOrder(s[n], s[m]) /\ UsersFirst(s[n], s[m])
DestroyPlan(p) ==
  /\ p \in Seq(Seq(DestroyCalls))
  /\ \A i \in DOMAIN p : p[i] # <<>> /\ DestroyFunction(p[i])
  /\ \A i, j \in DOMAIN p : i < j => \A c \in Calls(p[i]), d \in Calls(p[j]) : DestroyOrder(c, d)
-----------------------------------------------------------------------------
(* The objects.                                                            *)

\* The plan fits the phase.
PhaseOK ==
  /\ queues \notin {"creating", "undoing", "destroying"} => plan = <<>>
  /\ queues = "none" => /\ \A o \in Objects : obj[o] = "none" /\ ~ptr[o]
  /\ queues = "creating" => CreatePlan(plan) /\ \A c \in Pending : ForMode(c, http_server)
  /\ queues \in {"undoing", "destroying"} => DestroyPlan(plan)
  /\ queues = "undoing" => \A c \in Pending : Family(c.on) # "app"

\* The pointers of the application's structs.
PointersOK ==
  \A o \in Objects : /\ o \notin abandoned /\ obj[o] \in {"made", "started"} => ptr[o]
                     /\ ptr[o] => obj[o] # "none"
                     /\ OfServer(o) /\ ~http_server => obj[o] = "none"
                     /\ Family(o) = "app" => obj[o] # "started"

\* What is released will not be released again.
Spent(o) == obj[o] = "gone" => ~ptr[o] \/ o \in dangling
GoneOK ==
  /\ stale \subseteq dangling
  /\ \A o \in Objects : queues \in {"none", "creating", "up"} \/ Family(o) = "cpu" => Spent(o)
  /\ \A c \in Pending : c.op \in {"release", "end"} => Spent(c.on)

\* Who uses memory that is to be released is stopped before, by the same function.
StopsFirst ==
  \A i \in DOMAIN plan : \A c \in Calls(plan[i]) : c.op = "release" =>
    \A o \in Objects \ abandoned : obj[o] = "started" /\ c.on \in Needs(o) =>
      \E d \in Calls(plan[i]) : d.on = o /\ d.op \in {"stop", "release"}

\* What is still to be made and started, and what would be undone.
MakingOK ==
  queues = "creating" => \A c \in Pending :
    /\ c.op \in {"make", "nest"} => obj[c.on] = "none"
    /\ c.op = "start" =>
         /\ obj[c.on] # "started"
         /\ ptr[c.on] \/ \E d \in Pending : d.op \in {"make", "nest"} /\ d.on = c.on
         /\ \A m \in Needs(c.on) : obj[m] # "gone"
    /\ c.op = "nest" => \A o \in Objects : c.on \in Needs(o) => obj[o] # "started"
    /\ \A k \in DOMAIN c.undo : \A o \in Objects \ abandoned :
         obj[o] = "started" /\ c.undo[k].on \in Needs(o) =>
           \E j \in DOMAIN c.undo : j < k /\ c.undo[j].on = o

\* The stages are passed one after the other.
StagesOK ==
  queues = "creating" =>
    /\ \A o \in Objects : obj[o] # "none" => \A c \in Pending : Stage(Family(o)) <= Stage(Family(c.on))
    /\ \A f \in Protocols : Begun(f) \/ \E c \in Pending : Opens(c, f)

\* An object is usable, or will be; a CPU RSS queue may have lost its main object.
Ready(o) == \/ Usable(o)
            \/ \E c \in Pending : /\ c.on = o
                                  /\ c.op \in IF Startable(o) THEN {"start"} ELSE {"make", "nest"}
Lost(o) == /\ \A c \in Pending : c.on = o => c.op \notin {"make", "nest"}
           /\ ~ptr[o] \/ \E c \in Pending : c.on = o /\ c.op = "release"
ReadyOK ==
  queues \in {"creating", "up"} =>
    /\ \A o \in Objects : Family(o) # "cpu" /\ (OfServer(o) => http_server) => Ready(o)
    /\ \A o \in Objects : Family(o) = "cpu" /\ http_server =>
         Ready(o) \/ (o[2] # "pe" /\ Lost(Leader(o)))
    /\ \A c \in Pending : c.op = "release" =>
         Family(c.on) = "cpu" /\ c.on[2] # "pe" /\ Lost(Leader(c.on))

\* What is not settled will be, unless a call fails.
Doomed == IF queues = "undoing" THEN Families ELSE AllFamilies
Settles(c, o) == c.on = o /\ c.op \in IF o[2] \in {"rxctx", "txctx"} THEN {"stop"} ELSE {"release", "end"}
SettleOK ==
  queues \in {"undoing", "destroying", "down"} /\ ~destroyFailed =>
    \A o \in Objects \ abandoned : Family(o) \in Doomed =>
      Settled(o) \/ \E c \in Pending : Settles(c, o)

\* The devices go when nothing else is left to do.
DevicesOK ==
  \A o \in Devices : obj[o] = "gone" =>
    queues \in {"destroying", "down"} /\ \A c \in Pending : c.on[1] = App

ResourceInv == /\ TypeOK /\ PhaseOK /\ PointersOK /\ GoneOK
               /\ MemoryOutlivesQueues /\ StopsFirst
               /\ MakingOK /\ StagesOK /\ ReadyOK /\ SettleOK /\ DevicesOK
-----------------------------------------------------------------------------
(* Sequences.                                                              *)

\* The queues, in the order of the loops.
LEMMA OrderOK ==
  /\ Order \in Seq(Queues) /\ Len(Order) \in Nat \ {0} /\ Len(Order) = Cardinality(Queues)
  /\ \A i, j \in 1..Len(Order) : Order[i] = Order[j] => i = j
  /\ \A q \in Queues : \E i \in 1..Len(Order) : Order[i] = q
<1> DEFINE N == Cardinality(Queues)
<1>1. N \in Nat /\ N # 0
  BY QueueAssumption, FS_CardinalityType, FS_EmptySet
<1>2. ExistsBijection(1..N, Queues)
  BY QueueAssumption, FS_CardinalityType
<1>3. PICK g : g \in Bijection(1..N, Queues)
  BY <1>2 DEF ExistsBijection
<1>4. g \in [1..N -> Queues] /\ IsInjective(g)
  BY <1>3 DEF Bijection, Injection
<1>5. Order \in [1..N -> Queues] /\ IsInjective(Order)
  BY <1>4 DEF Order, SetToSeq
<1>6. Order \in Injection(1..N, Queues)
  BY <1>5 DEF Injection
<1>7. IsFiniteSet(1..N) /\ Cardinality(1..N) = N
  BY <1>1, FS_Interval
<1>8. Order \in Surjection(1..N, Queues)
  BY <1>6, <1>7, QueueAssumption, FS_Injection
<1>9. Order \in Seq(Queues) /\ Len(Order) = N
  BY <1>1, <1>5
<1> QED BY <1>1, <1>5, <1>8, <1>9 DEF IsInjective, Surjection

\* Division, for a divisor that is not known.
LEMMA Remainder ==
  ASSUME NEW M \in Nat, M > 0, NEW n \in Int
  PROVE  n % M \in 0..(M - 1)
OBVIOUS

\* Division with remainder, for the index of a call in ForEach: queue and place in its body.
LEMMA Division ==
  ASSUME NEW M \in Nat, M > 0, NEW n \in Int
  PROVE  n \div M \in Int /\ n = M * (n \div M) + (n % M)
<1>1. n \div M \in Int
  OBVIOUS
<1>2. n = M * (n \div M) + (n % M)
  OBVIOUS
<1> QED BY <1>1, <1>2

\* The quotient and the remainder are determined by the number.
LEMMA Quotient ==
  ASSUME NEW M \in Nat, M > 0, NEW n \in Int, NEW d \in Int, NEW r \in 0..(M - 1), n = d * M + r
  PROVE  n \div M = d /\ n % M = r
OBVIOUS

\* The calls of one queue come before those of the next.
LEMMA Multiples ==
  ASSUME NEW M \in Nat, M > 0, NEW a \in Int, NEW b \in Int, a < b
  PROVE  (a + 1) * M <= b * M /\ (a + 1) * M = a * M + M
OBVIOUS

\* What the loop over the queues gives: the bodies of the queues, one after the other.
LEMMA ForEachOK ==
  ASSUME NEW S, NEW M \in Nat, M > 0, NEW body \in [Queues -> Seq(S)],
         \A q \in Queues : Len(body[q]) = M
  PROVE  LET s == ForEach(body)
         IN  /\ s \in Seq(S) /\ s # <<>>
             /\ \A k \in DOMAIN s : \E q \in Queues, a \in 1..M : s[k] = body[q][a]
             /\ \A j, k \in DOMAIN s : j < k =>
                  \E q, r \in Queues, a, b \in 1..M :
                    s[j] = body[q][a] /\ s[k] = body[r][b] /\ (q # r \/ (q = r /\ a < b))
             /\ \A q \in Queues, a \in 1..M : \E k \in DOMAIN s : s[k] = body[q][a]
             /\ s[1] = body[Order[1]][1]
             /\ \A k \in DOMAIN s : k # 1 => \E q \in Queues, a \in 1..M :
                                               s[k] = body[q][a] /\ (q # Order[1] \/ a # 1)
<1> DEFINE L == Len(Order)
           D(k) == (k - 1) \div M
           R(k) == (k - 1) % M
           s == [k \in 1..L * M |-> body[Order[D(k) + 1]][R(k) + 1]]
<1>1. L \in Nat /\ L > 0 /\ Order[1] \in Queues /\ \A i \in 1..L : Order[i] \in Queues
  BY OrderOK
<1>2. Len(body[Order[1]]) = M
  BY <1>1
<1>3. ForEach(body) = s
  BY <1>2 DEF ForEach
<1>4. L * M \in Nat /\ L * M > 0
  BY <1>1
<1>5. ASSUME NEW k \in 1..L * M
      PROVE  D(k) \in 0..L - 1 /\ R(k) \in 0..M - 1 /\ k - 1 = D(k) * M + R(k)
  <2>1. k - 1 \in Int
    BY <1>4
  <2> DEFINE n == k - 1   d == n \div M   r == n % M
  <2>2. d \in Int /\ n = M * d + r /\ r \in 0..M - 1
    BY <2>1, Division, Remainder
  <2>3. n >= 0 /\ n < L * M
    BY <1>4
  <2> HIDE DEF d, r, n
  <2>4. M * d = d * M
    BY <2>2
  <2>5. ~(d < 0)
    <3> SUFFICES ASSUME d < 0 PROVE FALSE
      OBVIOUS
    <3>1. (d + 1) * M <= 0 * M /\ (d + 1) * M = d * M + M
      BY <2>2, Multiples
    <3> QED BY <3>1, <2>2, <2>3, <2>4
  <2>6. ~(d > L - 1)
    <3> SUFFICES ASSUME d > L - 1 PROVE FALSE
      OBVIOUS
    <3> DEFINE e == L - 1
    <3>0. e \in Int /\ e < d
      BY <1>1, <2>2
    <3> HIDE DEF e
    <3>1. (e + 1) * M <= d * M
      BY <3>0, <2>2, Multiples
    <3>2. e + 1 = L
      BY <1>1 DEF e
    <3>3. d * M \in Int
      BY <2>2
    <3> QED BY <1>4, <3>1, <3>2, <3>3, <2>2, <2>3, <2>4
  <2> QED BY <1>1, <2>2, <2>4, <2>5, <2>6 DEF d, r, n
<1> HIDE DEF D, R
<1>6. ASSUME NEW j \in 1..L * M, NEW k \in 1..L * M, j < k, D(j) = D(k)
      PROVE  R(j) < R(k)
  <2>1. j - 1 = D(j) * M + R(j) /\ k - 1 = D(j) * M + R(k) /\ R(j) \in 0..M - 1 /\ R(k) \in 0..M - 1
    BY <1>5, <1>6
  <2>2. D(j) * M \in Int
    BY <1>5
  <2> DEFINE x == D(j) * M   y == R(j)   z == R(k)
  <2>3. j - 1 = x + y /\ k - 1 = x + z /\ x \in Int /\ y \in Int /\ z \in Int /\ j \in Int /\ k \in Int
    BY <2>1, <2>2, <1>4
  <2> HIDE DEF x, y, z
  <2>4. y < z
    BY <2>3, <1>6
  <2> QED BY <2>4 DEF y, z
<1>7. ASSUME NEW i \in 1..L, NEW a \in 1..M
      PROVE  /\ (i - 1) * M + a \in 1..L * M
             /\ D((i - 1) * M + a) = i - 1 /\ R((i - 1) * M + a) = a - 1
  <2>1. (i - 1) * M \in Int /\ a - 1 \in 0..M - 1 /\ (i - 1) * M + a - 1 = (i - 1) * M + (a - 1)
    BY <1>1
  <2>2. D((i - 1) * M + a) = i - 1 /\ R((i - 1) * M + a) = a - 1
    <3> DEFINE n == (i - 1) * M + a - 1   d == i - 1   r == a - 1
    <3>1. n \in Int /\ d \in Int /\ r \in 0..M - 1 /\ n = d * M + r
      BY <2>1, <1>1
    <3> HIDE DEF n, d, r
    <3>2. n \div M = d /\ n % M = r
      BY <3>1, Quotient
    <3> QED BY <3>2 DEF n, d, r, D, R
  <2>3. (i - 1) * M >= 0
    BY <1>1
  <2>4. (i - 1) * M + M <= L * M
    <3> DEFINE e == i - 1
    <3>0. e \in Int /\ e < L /\ L \in Int
      BY <1>1
    <3> HIDE DEF e
    <3>1. (e + 1) * M <= L * M /\ (e + 1) * M = e * M + M
      BY <3>0, Multiples
    <3>2. e * M + M <= L * M
      BY <3>1
    <3> QED BY <3>2 DEF e
  <2> QED BY <2>1, <2>2, <2>3, <2>4, <1>4
<1>8. \A k \in 1..L * M : /\ s[k] = body[Order[D(k) + 1]][R(k) + 1]
                          /\ D(k) \in Nat /\ D(k) + 1 \in 1..L
                          /\ R(k) \in Nat /\ R(k) + 1 \in 1..M
                          /\ Order[D(k) + 1] \in Queues
  <2> TAKE k \in 1..L * M
  <2>1. D(k) + 1 \in 1..L /\ R(k) + 1 \in 1..M /\ D(k) \in Nat /\ R(k) \in Nat
    BY <1>1, <1>5, SMTT(30)
  <2> QED BY <2>1, <1>1
<1>9. \A k \in 1..L * M : s[k] \in S
  BY <1>8
<1>10. s \in Seq(S) /\ DOMAIN s = 1..L * M /\ s # <<>> /\ 1 \in DOMAIN s
  <2> DEFINE N == L * M
  <2>1. s \in [1..N -> S] /\ N \in Nat /\ N > 0
    BY <1>4, <1>9
  <2> HIDE DEF N, s
  <2>2. s \in Seq(S) /\ DOMAIN s = 1..N /\ s # <<>> /\ 1 \in DOMAIN s
    BY <2>1
  <2> QED BY <2>2 DEF N
<1>11. D(1) = 0 /\ R(1) = 0
  <2>1. (1 - 1) * M + 1 = 1 /\ 1 \in 1..L /\ 1 \in 1..M
    BY <1>1
  <2>2. D((1 - 1) * M + 1) = 1 - 1 /\ R((1 - 1) * M + 1) = 1 - 1
    BY <2>1, <1>7
  <2> QED BY <2>1, <2>2
<1> HIDE DEF s
<1>17. \A k \in DOMAIN s : /\ s[k] = body[Order[D(k) + 1]][R(k) + 1]
                          /\ D(k) \in Nat /\ D(k) + 1 \in 1..L
                          /\ R(k) \in Nat /\ R(k) + 1 \in 1..M
                          /\ Order[D(k) + 1] \in Queues
  BY <1>8, <1>10
<1>12. \A k \in DOMAIN s : \E q \in Queues, a \in 1..M : s[k] = body[q][a]
  BY <1>17
<1>13. ASSUME NEW j \in DOMAIN s, NEW k \in DOMAIN s, j < k
       PROVE  \E q, r \in Queues, a, b \in 1..M :
                s[j] = body[q][a] /\ s[k] = body[r][b] /\ (q # r \/ (q = r /\ a < b))
  <2>1. CASE D(j) = D(k)
    <3>1. R(j) < R(k)
      BY <2>1, <1>6, <1>10, <1>13
    <3>2. R(j) + 1 < R(k) + 1 /\ R(j) + 1 \in 1..M /\ R(k) + 1 \in 1..M
      BY <3>1, <1>17
    <3> DEFINE q == Order[D(k) + 1]   a == R(j) + 1   b == R(k) + 1
    <3>3. q \in Queues /\ a \in 1..M /\ b \in 1..M /\ a < b
      BY <3>2, <1>17
    <3>4. s[j] = body[q][a] /\ s[k] = body[q][b]
      BY <2>1, <1>17
    <3> HIDE DEF q, a, b
    <3> QED BY <3>3, <3>4
  <2>2. CASE D(j) # D(k)
    <3>1. D(j) + 1 \in 1..L /\ D(k) + 1 \in 1..L /\ D(j) + 1 # D(k) + 1
      BY <2>2, <1>17
    <3>2. Order[D(j) + 1] # Order[D(k) + 1]
      BY <3>1, OrderOK
    <3> DEFINE q == Order[D(j) + 1]   r == Order[D(k) + 1]   a == R(j) + 1   b == R(k) + 1
    <3>3. q \in Queues /\ r \in Queues /\ a \in 1..M /\ b \in 1..M /\ q # r
      BY <3>2, <1>17
    <3>4. s[j] = body[q][a] /\ s[k] = body[r][b]
      BY <1>17
    <3> HIDE DEF q, r, a, b
    <3> QED BY <3>3, <3>4
  <2> QED BY <2>1, <2>2
<1>14. ASSUME NEW q \in Queues, NEW a \in 1..M PROVE \E k \in DOMAIN s : s[k] = body[q][a]
  <2>1. PICK i \in 1..L : Order[i] = q
    BY OrderOK
  <2>2. /\ (i - 1) * M + a \in 1..L * M
        /\ D((i - 1) * M + a) = i - 1 /\ R((i - 1) * M + a) = a - 1
    BY <1>7
  <2> DEFINE k == (i - 1) * M + a
  <2> HIDE DEF k
  <2>3. k \in DOMAIN s /\ D(k) + 1 = i /\ R(k) + 1 = a
    BY <2>2, <1>1, <1>10 DEF k
  <2> QED BY <2>1, <2>3, <1>8, <1>10
<1>15. s[1] = body[Order[1]][1]
  BY <1>8, <1>10, <1>11
<1>16. ASSUME NEW k \in DOMAIN s, k # 1
       PROVE  \E q \in Queues, a \in 1..M : s[k] = body[q][a] /\ (q # Order[1] \/ a # 1)
  <2>1. k > 1
    BY <1>10, <1>16, <1>4
  <2>2. D(k) # 0 \/ R(k) # 0
    BY <2>1, <1>5, <1>10, <1>1
  <2>3. Order[D(k) + 1] # Order[1] \/ R(k) + 1 # 1
    <3>1. CASE D(k) # 0
      <4>1. D(k) + 1 \in 1..L /\ D(k) + 1 # 1 /\ 1 \in 1..L
        BY <3>1, <1>1, <1>17
      <4> QED BY <4>1, OrderOK
    <3>2. CASE R(k) # 0
      BY <3>2, <1>17
    <3> QED BY <2>2, <3>1, <3>2
  <2> DEFINE q == Order[D(k) + 1]   a == R(k) + 1
  <2>4. q \in Queues /\ a \in 1..M /\ s[k] = body[q][a]
    BY <1>17
  <2>5. q # Order[1] \/ a # 1
    BY <2>3
  <2> HIDE DEF q, a
  <2> QED BY <2>4, <2>5
<1> QED BY <1>3, <1>10, <1>12, <1>13, <1>14, <1>15, <1>16
-----------------------------------------------------------------------------
(* Plans.                                                                  *)

\* The calls of a loop over the queues, M of each queue.
Looped(s, body, M) ==
  /\ s # <<>>
  /\ \A k \in DOMAIN s : \E q \in Queues, a \in 1..M : s[k] = body[q][a]
  /\ \A j, k \in DOMAIN s : j < k =>
       \E q, r \in Queues, a, b \in 1..M :
         s[j] = body[q][a] /\ s[k] = body[r][b] /\ (q # r \/ (q = r /\ a < b))
  /\ \A q \in Queues, a \in 1..M : \E k \in DOMAIN s : s[k] = body[q][a]
  /\ \A k \in DOMAIN s : k # 1 => \E q \in Queues, a \in 1..M :
                                    s[k] = body[q][a] /\ (q # Order[1] \/ a # 1)

\* ForEach is such a loop.
LEMMA LoopOK ==
  ASSUME NEW S, NEW M \in Nat, M > 0, NEW body \in [Queues -> Seq(S)],
         \A q \in Queues : Len(body[q]) = M
  PROVE  ForEach(body) \in Seq(S) /\ Looped(ForEach(body), body, M)
BY ForEachOK DEF Looped

\* The sequence u is s, then t.
Joined(S, s, t, u) ==
  /\ u \in Seq(S) /\ Calls(u) = Calls(s) \cup Calls(t)
  /\ \A n, m \in DOMAIN u : n < m =>
       \/ \E i, j \in DOMAIN s : i < j /\ u[n] = s[i] /\ u[m] = s[j]
       \/ \E i, j \in DOMAIN t : i < j /\ u[n] = t[i] /\ u[m] = t[j]
       \/ u[n] \in Calls(s) /\ u[m] \in Calls(t)

\* The calls of two sequences, one after the other.
LEMMA CatCalls ==
  ASSUME NEW S, NEW s \in Seq(S), NEW t \in Seq(S)
  PROVE  Joined(S, s, t, s \o t)
<1> DEFINE u == s \o t
<1>1. /\ u \in Seq(S) /\ Len(u) = Len(s) + Len(t) /\ DOMAIN u = 1..Len(s) + Len(t)
      /\ \A i \in DOMAIN u : u[i] = IF i <= Len(s) THEN s[i] ELSE t[i - Len(s)]
  BY ConcatProperties
<1>2. DOMAIN s = 1..Len(s) /\ DOMAIN t = 1..Len(t) /\ Len(s) \in Nat /\ Len(t) \in Nat
  OBVIOUS
<1> HIDE DEF u
<1>3. \A i \in DOMAIN s : i \in DOMAIN u /\ u[i] = s[i]
  BY <1>1, <1>2
<1>4. ASSUME NEW i \in DOMAIN t PROVE i + Len(s) \in DOMAIN u /\ u[i + Len(s)] = t[i]
  <2>1. i + Len(s) \in DOMAIN u /\ ~(i + Len(s) <= Len(s)) /\ i + Len(s) - Len(s) = i
    BY <1>1, <1>2
  <2> QED BY <2>1, <1>1
<1>5. ASSUME NEW n \in DOMAIN u
      PROVE  \/ n \in DOMAIN s /\ u[n] = s[n]
             \/ n - Len(s) \in DOMAIN t /\ u[n] = t[n - Len(s)] /\ n > Len(s)
  BY <1>1, <1>2
<1>6. Calls(u) = Calls(s) \cup Calls(t)
  BY <1>3, <1>4, <1>5 DEF Calls
<1>7. ASSUME NEW n \in DOMAIN u, NEW m \in DOMAIN u, n < m
      PROVE  \/ \E i, j \in DOMAIN s : i < j /\ u[n] = s[i] /\ u[m] = s[j]
             \/ \E i, j \in DOMAIN t : i < j /\ u[n] = t[i] /\ u[m] = t[j]
             \/ u[n] \in Calls(s) /\ u[m] \in Calls(t)
  <2>1. CASE n \in DOMAIN s /\ m \in DOMAIN s
    BY <2>1, <1>3, <1>7
  <2>2. CASE n \in DOMAIN s /\ m \notin DOMAIN s
    BY <2>2, <1>3, <1>5 DEF Calls
  <2>3. CASE n \notin DOMAIN s
    <3>1. n > Len(s) /\ m > Len(s) /\ n \in Int /\ m \in Int
      BY <2>3, <1>1, <1>2, <1>5, <1>7
    <3>2. n - Len(s) \in DOMAIN t /\ m - Len(s) \in DOMAIN t /\ n - Len(s) < m - Len(s)
      BY <3>1, <1>1, <1>2, <1>7
    <3>3. u[n] = t[n - Len(s)] /\ u[m] = t[m - Len(s)]
      BY <3>1, <1>2, <1>5
    <3> QED BY <3>2, <3>3
  <2> QED BY <2>1, <2>2, <2>3
<1> QED BY <1>1, <1>6, <1>7 DEF u, Joined

\* A function put before others.
LEMMA PutOK ==
  ASSUME NEW S, NEW t \in Seq(Seq(S)), \A i \in DOMAIN t : t[i] # <<>>, NEW s \in Seq(S)
  PROVE  LET q == Put(s, t)
         IN  /\ q \in Seq(Seq(S))
             /\ \A i \in DOMAIN q : q[i] # <<>>
             /\ AllCalls(q) = Calls(s) \cup AllCalls(t)
             /\ \A i \in DOMAIN q : q[i] = s \/ \E j \in DOMAIN t : q[i] = t[j]
             /\ \A i, j \in DOMAIN q : i < j =>
                  \/ q[i] = s /\ \E m \in DOMAIN t : q[j] = t[m]
                  \/ \E n, m \in DOMAIN t : n < m /\ q[i] = t[n] /\ q[j] = t[m]
<1> DEFINE q == Put(s, t)
<1>1. CASE s = <<>>
  <2>1. q = t
    BY <1>1 DEF Put
  <2>2. Calls(s) = {}
    BY <1>1 DEF Calls
  <2> QED BY <2>1, <2>2
<1>2. CASE s # <<>>
  <2>1. q = <<s>> \o t
    BY <1>2 DEF Put
  <2>2. /\ <<s>> \in Seq(Seq(S)) /\ Len(<<s>>) = 1 /\ <<s>>[1] = s
        /\ Len(t) \in Nat /\ DOMAIN t = 1..Len(t)
    OBVIOUS
  <2>3. /\ q \in Seq(Seq(S)) /\ Len(q) = 1 + Len(t) /\ DOMAIN q = 1..1 + Len(t)
        /\ \A i \in 1..1 + Len(t) : q[i] = IF i <= 1 THEN <<s>>[i] ELSE t[i - 1]
    BY <2>1, <2>2, ConcatProperties
  <2> HIDE DEF q
  <2>4. 1 \in DOMAIN q /\ q[1] = s
    BY <2>2, <2>3
  <2>5. ASSUME NEW i \in DOMAIN q, i # 1 PROVE i - 1 \in DOMAIN t /\ q[i] = t[i - 1] /\ i > 1 /\ i \in Int
    BY <2>2, <2>3, <2>5
  <2>6. ASSUME NEW i \in DOMAIN t PROVE \E k \in DOMAIN q : q[k] = t[i]
    <3> DEFINE k == i + 1
    <3>1. k \in DOMAIN q /\ ~(k <= 1) /\ k - 1 = i
      BY <2>2, <2>3
    <3> HIDE DEF k
    <3> QED BY <3>1, <2>5
  <2>7. \A i \in DOMAIN q : q[i] = s \/ \E j \in DOMAIN t : q[i] = t[j]
    BY <2>4, <2>5
  <2>8. AllCalls(q) = Calls(s) \cup AllCalls(t)
    BY <2>4, <2>6, <2>7 DEF AllCalls
  <2>9. ASSUME NEW i \in DOMAIN q, NEW j \in DOMAIN q, i < j
        PROVE  \/ q[i] = s /\ \E m \in DOMAIN t : q[j] = t[m]
               \/ \E n, m \in DOMAIN t : n < m /\ q[i] = t[n] /\ q[j] = t[m]
    <3>1. j # 1
      BY <2>3, <2>9
    <3>2. CASE i = 1
      BY <3>1, <3>2, <2>4, <2>5
    <3>3. CASE i # 1
      <4>1. i - 1 < j - 1
        BY <3>1, <3>3, <2>5, <2>9
      <4> QED BY <4>1, <3>1, <3>3, <2>5
    <3> QED BY <3>2, <3>3
  <2>10. \A i \in DOMAIN q : q[i] # <<>>
    BY <2>7, <1>2
  <2> QED BY <2>3, <2>7, <2>8, <2>9, <2>10 DEF q
<1> QED BY <1>1, <1>2

\* The first call of a plan, and what follows it in its function and in the plan.
Headed(S, p) ==
  LET s == Head(p)
      c == Head(s)
  IN  /\ 1 \in DOMAIN p /\ s = p[1] /\ s \in Seq(S) /\ 1 \in DOMAIN s /\ c = s[1] /\ c \in S
      /\ c \in Calls(s) /\ c \in AllCalls(p)
      /\ Tail(s) \in Seq(S)
      /\ \A n \in DOMAIN Tail(s) : n \in Nat /\ n + 1 \in DOMAIN s /\ n + 1 > 1 /\ Tail(s)[n] = s[n + 1]
      /\ Calls(Tail(s)) \subseteq Calls(s)
      /\ \A d \in Calls(s) : d = c \/ d \in Calls(Tail(s))
      /\ \A d \in Calls(Tail(s)) : \E m \in DOMAIN s : m > 1 /\ d = s[m]
      /\ AllCalls(p) = Calls(s) \cup AllCalls(Tail(p))
      /\ \A d \in AllCalls(Tail(p)) : \E i \in DOMAIN p : i > 1 /\ d \in Calls(p[i])
      /\ Tail(p) \in Seq(Seq(S))
      /\ \A i \in DOMAIN Tail(p) : /\ i \in Nat /\ i + 1 \in DOMAIN p /\ i + 1 > 1
                                  /\ Tail(p)[i] = p[i + 1]

\* The head of a plan.
LEMMA HeadOK ==
  ASSUME NEW S, NEW p \in Seq(Seq(S)), p # <<>>, \A i \in DOMAIN p : p[i] # <<>>
  PROVE  Headed(S, p)
<1> DEFINE s == Head(p)
           c == Head(s)
           r == Tail(s)
           t == Tail(p)
<1>1. 1 \in DOMAIN p /\ s = p[1] /\ s \in Seq(S) /\ s # <<>>
  OBVIOUS
<1>2. /\ t \in Seq(Seq(S)) /\ \A i \in DOMAIN t : i \in Nat /\ i + 1 \in DOMAIN p /\ i + 1 > 1 /\ t[i] = p[i + 1]
      /\ \A i \in DOMAIN p : i = 1 \/ (i > 1 /\ i - 1 \in DOMAIN t /\ t[i - 1] = p[i])
  OBVIOUS
<1> HIDE DEF s, t
<1>3. 1 \in DOMAIN s /\ c = s[1] /\ c \in S /\ r \in Seq(S)
  BY <1>1
<1>4. /\ \A n \in DOMAIN r : n \in Nat /\ n + 1 \in DOMAIN s /\ n + 1 > 1 /\ r[n] = s[n + 1]
      /\ \A n \in DOMAIN s : n = 1 \/ (n > 1 /\ n - 1 \in DOMAIN r /\ r[n - 1] = s[n])
  BY <1>1
<1> HIDE DEF c, r
<1>5. c \in Calls(s) /\ c \in AllCalls(p)
  BY <1>1, <1>3 DEF Calls, AllCalls
<1>6. Calls(r) \subseteq Calls(s)
  BY <1>4 DEF Calls
<1>7. \A d \in Calls(s) : d = c \/ d \in Calls(r)
  <2>1. \A n \in DOMAIN s : s[n] = c \/ \E m \in DOMAIN r : r[m] = s[n]
    BY <1>3, <1>4
  <2> QED BY <2>1 DEF Calls
<1>8. \A d \in Calls(r) : \E m \in DOMAIN s : m > 1 /\ d = s[m]
  BY <1>4 DEF Calls
<1>9. AllCalls(p) = Calls(s) \cup AllCalls(t)
  <2>1. \A i \in DOMAIN p : p[i] = s \/ \E j \in DOMAIN t : p[i] = t[j]
    BY <1>1, <1>2
  <2>2. \A j \in DOMAIN t : \E i \in DOMAIN p : p[i] = t[j]
    BY <1>2
  <2>3. \E i \in DOMAIN p : p[i] = s
    BY <1>1
  <2> QED BY <2>1, <2>2, <2>3 DEF AllCalls
<1>10. \A d \in AllCalls(t) : \E i \in DOMAIN p : i > 1 /\ d \in Calls(p[i])
  BY <1>2 DEF AllCalls
<1> QED BY <1>1, <1>2, <1>3, <1>4, <1>5, <1>6, <1>7, <1>8, <1>9, <1>10 DEF s, c, r, t, Headed
-----------------------------------------------------------------------------
(* The order of the calls stays that of the code.                          *)

CreateItems == CreateCalls \cup Drops

\* What the plan of a creation says of its first call and of what follows.
LEMMA CreateHead ==
  ASSUME NEW p, CreatePlan(p), p # <<>>
  PROVE  LET s == Head(p)
             c == Head(s)
         IN  /\ CreateFunction(s) /\ (CreateCall(c) \/ c \in Drops)
             /\ CreateFunction(Tail(s)) /\ CreatePlan(Tail(p))
             /\ \A d \in Calls(Tail(s)) : CreateOrder(c, d) /\ (c.op = "release" => c.on \notin Needs(d.on))
             /\ \A d \in Calls(s) : CreateTogether(c, d) /\ CreateTogether(d, c)
             /\ \A d \in AllCalls(Tail(p)) : CreateApart(c, d)
             /\ \A d \in Calls(s), e \in AllCalls(Tail(p)) : CreateApart(d, e)
<1> DEFINE s == Head(p)
           c == Head(s)
           r == Tail(s)
           t == Tail(p)
<1>1. p \in Seq(Seq(CreateItems)) /\ \A i \in DOMAIN p : p[i] # <<>> /\ CreateFunction(p[i])
  BY DEF CreatePlan, CreateItems
<1>a. Headed(CreateItems, p)
  BY <1>1, HeadOK
<1>2. /\ 1 \in DOMAIN p /\ s = p[1] /\ s \in Seq(CreateItems) /\ 1 \in DOMAIN s /\ c = s[1] /\ c \in CreateItems
      /\ c \in Calls(s)
      /\ r \in Seq(CreateItems)
      /\ \A n \in DOMAIN r : n \in Nat /\ n + 1 \in DOMAIN s /\ n + 1 > 1 /\ r[n] = s[n + 1]
      /\ \A d \in Calls(r) : \E m \in DOMAIN s : m > 1 /\ d = s[m]
      /\ \A d \in AllCalls(t) : \E i \in DOMAIN p : i > 1 /\ d \in Calls(p[i])
      /\ t \in Seq(Seq(CreateItems))
      /\ \A i \in DOMAIN t : i \in Nat /\ i + 1 \in DOMAIN p /\ i + 1 > 1 /\ t[i] = p[i + 1]
  BY <1>a DEF Headed
<1>3. CreateFunction(s)
  BY <1>1, <1>2
<1>4. \A i, j \in DOMAIN p : i < j => \A d \in Calls(p[i]), e \in Calls(p[j]) : CreateApart(d, e)
  BY DEF CreatePlan
<1> HIDE DEF s, c, r, t
<1>5. CreateFunction(r)
  <2>1. \A n \in DOMAIN r : CreateCall(r[n]) \/ r[n] \in Drops
    BY <1>2, <1>3 DEF CreateFunction
  <2>2. ASSUME NEW n \in DOMAIN r, NEW m \in DOMAIN r
        PROVE  /\ n < m => CreateOrder(r[n], r[m])
               /\ n < m /\ r[n].op = "release" => r[n].on \notin Needs(r[m].on)
               /\ CreateTogether(r[n], r[m])
    <3>1. n < m => n + 1 < m + 1
      BY <1>2
    <3> QED BY <3>1, <1>2, <1>3 DEF CreateFunction
  <2> QED BY <1>2, <2>1, <2>2 DEF CreateFunction, CreateItems
<1>6. CreatePlan(t)
  <2>1. \A i \in DOMAIN t : t[i] # <<>> /\ CreateFunction(t[i])
    BY <1>1, <1>2
  <2>2. ASSUME NEW i \in DOMAIN t, NEW j \in DOMAIN t, i < j
        PROVE  \A d \in Calls(t[i]), e \in Calls(t[j]) : CreateApart(d, e)
    <3>1. i + 1 < j + 1
      BY <1>2, <2>2
    <3> QED BY <3>1, <1>2, <1>4
  <2> QED BY <1>2, <2>1, <2>2 DEF CreatePlan, CreateItems
<1>7. \A d \in Calls(r) : CreateOrder(c, d) /\ (c.op = "release" => c.on \notin Needs(d.on))
  BY <1>2, <1>3 DEF CreateFunction
<1>8. \A d \in Calls(s) : CreateTogether(c, d) /\ CreateTogether(d, c)
  BY <1>2, <1>3 DEF CreateFunction, Calls
<1>9. \A d \in Calls(s), e \in AllCalls(t) : CreateApart(d, e)
  BY <1>2, <1>4
<1>10. CreateCall(c) \/ c \in Drops
  BY <1>2, <1>3 DEF CreateFunction
<1> QED BY <1>2, <1>3, <1>5, <1>6, <1>7, <1>8, <1>9, <1>10 DEF s, c, r, t

\* A function that may come before the rest of a creation, put before it.
LEMMA CreatePut ==
  ASSUME NEW t, CreatePlan(t), NEW s, CreateFunction(s),
         \A d \in Calls(s), e \in AllCalls(t) : CreateApart(d, e)
  PROVE  /\ CreatePlan(Put(s, t)) /\ AllCalls(Put(s, t)) = Calls(s) \cup AllCalls(t)
         /\ \A i \in DOMAIN Put(s, t) : Put(s, t)[i] = s \/ \E j \in DOMAIN t : Put(s, t)[i] = t[j]
<1> DEFINE q == Put(s, t)
<1>1. t \in Seq(Seq(CreateItems)) /\ s \in Seq(CreateItems) /\ \A i \in DOMAIN t : t[i] # <<>>
  BY DEF CreatePlan, CreateFunction, CreateItems
<1>2. /\ q \in Seq(Seq(CreateItems))
      /\ \A i \in DOMAIN q : q[i] # <<>>
      /\ AllCalls(q) = Calls(s) \cup AllCalls(t)
      /\ \A i \in DOMAIN q : q[i] = s \/ \E j \in DOMAIN t : q[i] = t[j]
      /\ \A i, j \in DOMAIN q : i < j =>
           \/ q[i] = s /\ \E m \in DOMAIN t : q[j] = t[m]
           \/ \E n, m \in DOMAIN t : n < m /\ q[i] = t[n] /\ q[j] = t[m]
  BY <1>1, PutOK
<1> HIDE DEF q
<1>3. \A i \in DOMAIN q : CreateFunction(q[i])
  BY <1>2 DEF CreatePlan
<1>4. ASSUME NEW i \in DOMAIN q, NEW j \in DOMAIN q, i < j
      PROVE  \A d \in Calls(q[i]), e \in Calls(q[j]) : CreateApart(d, e)
  <2>1. CASE q[i] = s /\ \E m \in DOMAIN t : q[j] = t[m]
    BY <2>1 DEF AllCalls
  <2>2. CASE \E n, m \in DOMAIN t : n < m /\ q[i] = t[n] /\ q[j] = t[m]
    BY <2>2 DEF CreatePlan
  <2> QED BY <1>2, <1>4, <2>1, <2>2
<1>5. CreatePlan(q)
  BY <1>2, <1>3, <1>4 DEF CreatePlan, CreateItems
<1> QED BY <1>2, <1>5 DEF q

\* The first call is made.
LEMMA CreateRest ==
  ASSUME NEW p, CreatePlan(p), p # <<>>
  PROVE  LET s == Head(p)
             c == Head(s)
             q == Put(Tail(s), Tail(p))
         IN  /\ CreatePlan(q)
             /\ c \in AllCalls(p) /\ c \in Calls(s) /\ 1 \in DOMAIN p /\ s = p[1]
             /\ CreateCall(c) \/ c \in Drops
             /\ AllCalls(q) \subseteq AllCalls(p)
             /\ \A d \in AllCalls(p) : d = c \/ d \in AllCalls(q)
             /\ \A d \in AllCalls(q) : /\ CreateOrder(c, d)
                                       /\ c.op = "release" /\ d.op = "start" => c.on \notin Needs(d.on)
             /\ \A d \in Calls(s) : d = c \/ (c.op = "release" => c.on \notin Needs(d.on))
             /\ \A i \in DOMAIN q : \E j \in DOMAIN p :
                  /\ Calls(q[i]) \subseteq Calls(p[j])
                  /\ \A d \in Calls(p[j]) : d = c \/ d \in Calls(q[i])
<1> DEFINE s == Head(p)
           c == Head(s)
           r == Tail(s)
           t == Tail(p)
           q == Put(r, t)
<1>1. p \in Seq(Seq(CreateItems)) /\ \A i \in DOMAIN p : p[i] # <<>>
  BY DEF CreatePlan, CreateItems
<1>a. Headed(CreateItems, p)
  BY <1>1, HeadOK
<1>2. /\ 1 \in DOMAIN p /\ s = p[1] /\ c \in Calls(s) /\ c \in AllCalls(p)
      /\ Calls(r) \subseteq Calls(s)
      /\ \A d \in Calls(s) : d = c \/ d \in Calls(r)
      /\ AllCalls(p) = Calls(s) \cup AllCalls(t)
      /\ \A i \in DOMAIN t : i + 1 \in DOMAIN p /\ t[i] = p[i + 1]
  BY <1>a DEF Headed
<1>3. /\ CreateFunction(s) /\ (CreateCall(c) \/ c \in Drops)
      /\ CreateFunction(r) /\ CreatePlan(t)
      /\ \A d \in Calls(r) : CreateOrder(c, d) /\ (c.op = "release" => c.on \notin Needs(d.on))
      /\ \A d \in AllCalls(t) : CreateApart(c, d)
      /\ \A d \in Calls(s), e \in AllCalls(t) : CreateApart(d, e)
  BY CreateHead
<1> HIDE DEF s, c, r, t
<1>4. /\ CreatePlan(q) /\ AllCalls(q) = Calls(r) \cup AllCalls(t)
      /\ \A i \in DOMAIN q : q[i] = r \/ \E j \in DOMAIN t : q[i] = t[j]
  BY <1>2, <1>3, CreatePut
<1> HIDE DEF q
<1>5. \A d \in AllCalls(t) : CreateOrder(c, d)
  BY <1>3 DEF CreateApart
<1>6. \A d \in AllCalls(q) : c.op = "release" /\ d.op = "start" => c.on \notin Needs(d.on)
  BY <1>3, <1>4, <1>5 DEF CreateOrder
<1>7. ASSUME NEW i \in DOMAIN q
      PROVE  \E j \in DOMAIN p : /\ Calls(q[i]) \subseteq Calls(p[j])
                                 /\ \A d \in Calls(p[j]) : d = c \/ d \in Calls(q[i])
  <2>1. CASE q[i] = r
    BY <2>1, <1>2
  <2>2. CASE \E j \in DOMAIN t : q[i] = t[j]
    BY <2>2, <1>2
  <2> QED BY <1>4, <2>1, <2>2
<1>8. /\ AllCalls(q) \subseteq AllCalls(p)
      /\ \A d \in AllCalls(p) : d = c \/ d \in AllCalls(q)
      /\ \A d \in AllCalls(q) : CreateOrder(c, d)
      /\ \A d \in Calls(s) : d = c \/ (c.op = "release" => c.on \notin Needs(d.on))
  BY <1>2, <1>3, <1>4, <1>5
<1> QED BY <1>2, <1>3, <1>4, <1>6, <1>7, <1>8 DEF s, c, r, t, q
-----------------------------------------------------------------------------
(* The objects and what they need.                                         *)

\* An object is a kind of its owner.
LEMMA ObjectOK ==
  ASSUME NEW o \in Objects
  PROVE  /\ o = <<o[1], o[2]>> /\ o[1] \in Owners
         /\ Family(o) \in AllFamilies /\ o[2] \in KindsOf(Family(o))
         /\ Family(o) = "app" => o[1] = App
         /\ Family(o) = "icmp" => o[1] = <<"icmp", "0">>
         /\ Family(o) = "page" => o[1] \in {"page"} \X Pages
         /\ Family(o) \in {"udp", "tcp", "cpu"} => o[1] = <<Family(o), o[1][2]>> /\ o[1][2] \in Queues
BY DEF Objects, Owners, AllFamilies, Family, App

\* The kinds of each family.
LEMMA KindsOK ==
  ASSUME NEW o \in Objects
  PROVE  /\ Family(o) = "app" => o[2] \in {"dev", "gpu", "flow", "pe"}
         /\ Family(o) = "udp" => o[2] \in {"rxq", "rxctx", "mmap", "mem", "sem"}
         /\ Family(o) = "tcp" => o[2] \in {"rxq", "rxctx", "mmap", "mem", "sem", "sem_http", "txq", "txctx"}
         /\ Family(o) = "icmp" => o[2] \in {"rxq", "rxctx", "mmap", "mem", "txq", "txctx"}
         /\ Family(o) = "page" => o[2] \in {"mmap", "mem", "arr"}
         /\ Family(o) = "cpu" => o[2] \in {"pe", "txq", "pool", "tx_map", "rxq", "rx_map"}
BY ObjectOK DEF KindsOf

\* A kind of an owner is an object of its family.
LEMMA IsObject ==
  ASSUME NEW w \in Owners, NEW k \in KindsOf(w[1])
  PROVE  <<w, k>> \in Objects /\ Family(<<w, k>>) = w[1]
BY DEF Objects, Family

\* The owners there are.
LEMMA OwnersOK ==
  /\ App \in Owners /\ <<"icmp", "0">> \in Owners
  /\ \A q \in Queues : <<"udp", q>> \in Owners /\ <<"tcp", q>> \in Owners /\ <<"cpu", q>> \in Owners
  /\ \A p \in Pages : <<"page", p>> \in Owners
BY DEF Owners

\* What an object needs is memory: of its own owner or, for the send contexts, of a page.
LEMMA NeedsOK ==
  ASSUME NEW o \in Objects, NEW m \in Needs(o)
  PROVE  /\ m \in Objects /\ m # o
         /\ \/ m[1] = o[1] /\ Family(m) = Family(o)
            \/ Family(o) = "tcp" /\ o[2] = "txctx" /\ Family(m) = "page" /\ m[1] \in {"page"} \X Pages
         /\ Family(m) # "app"
         /\ m[2] \in {"mmap", "mem", "pool", "tx_map", "rx_map"}
         /\ o[2] \in {"rxctx", "mmap", "txctx", "txq", "rxq"}
<1>1. /\ o = <<o[1], o[2]>> /\ o[1] \in Owners
  BY ObjectOK
<1>2. CASE o[2] = "rxctx"
  <2>1. m \in {<<o[1], "mmap">>, <<o[1], "mem">>}
    BY <1>2 DEF Needs
  <2>2. Family(o) \in {"udp", "tcp", "icmp"}
    BY <1>2, KindsOK, ObjectOK DEF AllFamilies
  <2>3. {"mmap", "mem"} \subseteq KindsOf(o[1][1])
    BY <2>2 DEF KindsOf, Family
  <2> QED BY <1>1, <1>2, <2>1, <2>2, <2>3, IsObject DEF Family
<1>3. CASE o[2] = "mmap"
  <2>1. m \in {<<o[1], "mem">>}
    BY <1>3 DEF Needs
  <2>2. Family(o) \in {"udp", "tcp", "icmp", "page"}
    BY <1>3, KindsOK, ObjectOK DEF AllFamilies
  <2>3. "mem" \in KindsOf(o[1][1])
    BY <2>2 DEF KindsOf, Family
  <2> QED BY <1>1, <1>3, <2>1, <2>2, <2>3, IsObject DEF Family
<1>4. CASE o[2] = "txctx"
  <2>1. Family(o) = "tcp" /\ \E p \in Pages : m = <<<<"page", p>>, "mem">>
    BY <1>4, KindsOK, ObjectOK DEF Needs, Family, AllFamilies
  <2>2. PICK p \in Pages : m = <<<<"page", p>>, "mem">>
    BY <2>1
  <2>3. <<"page", p>> \in Owners /\ "mem" \in KindsOf(<<"page", p>>[1])
    BY OwnersOK DEF KindsOf
  <2>4. m \in Objects /\ Family(m) = "page"
    BY <2>2, <2>3, IsObject
  <2> QED BY <1>4, <2>1, <2>2, <2>4
<1>5. CASE o[2] \in {"txq", "rxq"}
  <2>1. Family(o) = "cpu" /\ m \in {<<o[1], "pool">>, <<o[1], "tx_map">>, <<o[1], "rx_map">>}
    BY <1>5 DEF Needs, Family
  <2>2. {"pool", "tx_map", "rx_map"} \subseteq KindsOf(o[1][1])
    BY <2>1 DEF KindsOf, Family
  <2> QED BY <1>1, <1>5, <2>1, <2>2, IsObject DEF Family
<1>6. o[2] \in {"rxctx", "mmap", "txctx", "txq", "rxq"}
  BY DEF Needs
<1> QED BY <1>2, <1>3, <1>4, <1>5, <1>6

\* Where a call stands in the stages of main.
LEMMA RankOK ==
  ASSUME NEW c
  PROVE  /\ (\A f \in Protocols : ~Opens(c, f)) => Rank(c) = Stage(Family(c.on)) + 1
         /\ (\E f \in Protocols : Opens(c, f)) => Rank(c) = Stage(Family(c.on))
         /\ \A f \in Protocols : Opens(c, f) => c.op = "make" /\ Family(c.on) = f /\ c.on[2] = "rxq"
<1>1. ASSUME NEW f \in Protocols, Opens(c, f) PROVE c.op = "make" /\ Family(c.on) = f /\ c.on[2] = "rxq"
  <2>1. c.op = "make" /\ c.on = First(f)
    BY <1>1 DEF Opens
  <2>2. CASE f = "icmp"
    BY <2>1, <2>2 DEF First, Family
  <2>3. CASE f # "icmp"
    BY <2>1, <2>3 DEF First, Family
  <2> QED BY <2>1, <2>2, <2>3
<1>2. /\ (\A f \in Protocols : ~Opens(c, f)) => Rank(c) = Stage(Family(c.on)) + 1
      /\ (\E f \in Protocols : Opens(c, f)) => Rank(c) = Stage(Family(c.on))
  BY DEF Rank
<1> QED BY <1>1, <1>2

\* The stages of the families.
LEMMA StageOK ==
  /\ Stage("app") = 0 /\ Stage("udp") = 2 /\ Stage("tcp") = 4 /\ Stage("cpu") = 4
  /\ Stage("page") = 4 /\ Stage("icmp") = 6 /\ \A f \in AllFamilies : Stage(f) \in Nat
BY DEF Stage, AllFamilies
-----------------------------------------------------------------------------
\* The calls of an error path.
LEMMA DropOK ==
  ASSUME NEW d \in Drops
  PROVE  /\ d.op = "release" /\ d.on \in Objects /\ ~d.guard /\ d.nulls /\ d.undo = <<>>
         /\ d.otherwise = "ignore" /\ Rank(d) = Stage(Family(d.on)) + 1 /\ Touched(d) = {d.on}
         /\ d \in DestroyCalls /\ DestroyCall(d)
<1>1. /\ d.op = "release" /\ d.on \in Objects /\ d.guard = FALSE /\ d.nulls = TRUE /\ d.undo = <<>>
      /\ d.otherwise = "ignore"
  BY DEF Drops
<1>2. Rank(d) = Stage(Family(d.on)) + 1
  BY <1>1 DEF Rank, Opens
<1>3. Touched(d) = {d.on}
  BY <1>1 DEF Touched
<1>4. d \in DestroyCalls
  <2>1. <<>> \in Seq(PeDrops) /\ FALSE \in BOOLEAN /\ TRUE \in BOOLEAN
    OBVIOUS
  <2> QED BY <2>1, Zenon DEF Drops, DestroyCalls
<1>5. DestroyCall(d)
  BY <1>1, <1>4 DEF DestroyCall
<1> QED BY <1>1, <1>2, <1>3, <1>4, <1>5

\* The error path of a call only releases, within the CPU RSS queue the call is part of.
LEMMA UndoCalls ==
  ASSUME NEW c, CreateCall(c)
  PROVE  /\ c \in CreateCalls /\ c.on \in Objects /\ c.undo \in Seq(Drops) /\ ~c.guard /\ ~c.nulls
         /\ \A d \in Calls(c.undo) :
              /\ d \in Drops /\ Family(c.on) = "cpu" /\ Family(d.on) = "cpu" /\ d.on[1] = c.on[1]
              /\ Leader(d.on) = Leader(c.on)
              /\ d.on \in Touched(c) /\ d.on \in {c.undo[k].on : k \in DOMAIN c.undo}
         /\ \A j, k \in DOMAIN c.undo : j < k => c.undo[j].on \notin Needs(c.undo[k].on)
<1>1. c \in CreateCalls /\ c.on \in Objects /\ c.undo \in Seq(Drops) /\ c.guard = FALSE /\ c.nulls = FALSE
      /\ UndoOK(c)
  BY DEF CreateCall, CreateCalls
<1>2. ASSUME NEW d \in Calls(c.undo)
      PROVE  /\ d \in Drops /\ Family(c.on) = "cpu" /\ Family(d.on) = "cpu" /\ d.on[1] = c.on[1]
             /\ Leader(d.on) = Leader(c.on)
             /\ d.on \in Touched(c) /\ d.on \in {c.undo[k].on : k \in DOMAIN c.undo}
  <2>1. PICK k \in DOMAIN c.undo : d = c.undo[k]
    BY DEF Calls
  <2>2. d \in Drops
    BY <1>1, <2>1
  <2>3. Family(c.on) = "cpu" /\ d.on[1] = c.on[1] /\ Leader(d.on) = Leader(c.on)
    BY <1>1, <2>1 DEF UndoOK
  <2>4. d.on \in {c.undo[i].on : i \in DOMAIN c.undo}
    BY <2>1
  <2> QED BY <2>2, <2>3, <2>4 DEF Family, Touched
<1> QED BY <1>1, <1>2 DEF UndoOK

\* The error path of a call may take the place of the function that is left.
LEMMA UndoFunction ==
  ASSUME NEW c, CreateCall(c)
  PROVE  CreateFunction(c.undo)
<1> DEFINE s == c.undo
<1>1. s \in Seq(Drops) /\ \A n \in DOMAIN s : s[n] \in Calls(s)
  BY UndoCalls DEF Calls
<1>2. s \in Seq(CreateCalls \cup Drops)
  BY <1>1
<1>3. ASSUME NEW n \in DOMAIN s, NEW m \in DOMAIN s
      PROVE  /\ n < m => CreateOrder(s[n], s[m])
             /\ n < m /\ s[n].op = "release" => s[n].on \notin Needs(s[m].on)
             /\ CreateTogether(s[n], s[m])
  <2>1. s[n] \in Drops /\ s[m] \in Drops /\ Family(s[n].on) = "cpu" /\ Family(s[m].on) = "cpu"
    BY <1>1, UndoCalls
  <2>2. s[n].op = "release" /\ s[m].op = "release" /\ s[n].otherwise = "ignore" /\ Rank(s[n]) = Rank(s[m]) /\ Rank(s[m]) \in Nat
    BY <2>1, DropOK, StageOK
  <2>3. CreateOrder(s[n], s[m]) /\ CreateTogether(s[n], s[m])
    BY <2>2 DEF CreateOrder, CreateTogether
  <2> QED BY <2>3, UndoCalls
<1> QED BY <1>1, <1>2, <1>3 DEF CreateFunction

\* A function is left through the error path of its first call.
LEMMA CreateLeave ==
  ASSUME NEW p, CreatePlan(p), p # <<>>, CreateCall(Head(Head(p)))
  PROVE  LET s == Head(p)
             c == Head(s)
             q == Put(c.undo, Tail(p))
         IN  /\ CreatePlan(q)
             /\ AllCalls(q) = Calls(c.undo) \cup AllCalls(Tail(p))
             /\ AllCalls(p) = Calls(s) \cup AllCalls(Tail(p)) /\ c \in Calls(s)
             /\ \A d \in Calls(s) : CreateTogether(c, d)
             /\ \A d \in AllCalls(Tail(p)) : CreateApart(c, d)
             /\ \A i \in DOMAIN q : q[i] = c.undo \/ \E j \in DOMAIN p : q[i] = p[j]
<1> DEFINE s == Head(p)
           c == Head(s)
           t == Tail(p)
           u == c.undo
<1>1. p \in Seq(Seq(CreateItems)) /\ \A i \in DOMAIN p : p[i] # <<>>
  BY DEF CreatePlan, CreateItems
<1>a. Headed(CreateItems, p)
  BY <1>1, HeadOK
<1>2. /\ c \in Calls(s) /\ AllCalls(p) = Calls(s) \cup AllCalls(t)
      /\ \A i \in DOMAIN t : i + 1 \in DOMAIN p /\ t[i] = p[i + 1]
  BY <1>a DEF Headed
<1>3. /\ CreatePlan(t)
      /\ \A d \in Calls(s) : CreateTogether(c, d)
      /\ \A d \in AllCalls(t) : CreateApart(c, d)
  BY CreateHead
<1> HIDE DEF s, c, t
<1>4. CreateCall(c)
  BY DEF c, s
<1>5. CreateFunction(u)
  BY <1>4, UndoFunction
<1>6. ASSUME NEW d \in Calls(u), NEW e \in AllCalls(t) PROVE CreateApart(d, e)
  <2>1. /\ d \in Drops /\ Family(c.on) = "cpu" /\ Family(d.on) = "cpu" /\ d.on \in Touched(c)
        /\ d.on \in {c.undo[k].on : k \in DOMAIN c.undo}
    BY <1>4, UndoCalls
  <2>2. CreateApart(c, e)
    BY <1>3
  <2>3. d.op = "release" /\ Rank(d) = Stage("cpu") + 1 /\ Touched(d) = {d.on} /\ d.undo = <<>>
    BY <2>1, DropOK
  <2>4. Rank(c) = Stage("cpu") + 1
    BY <2>1, RankOK DEF Protocols
  <2>5. e.op # "release" /\ Rank(c) <= Rank(e) /\ (e.op \in {"make", "nest", "start"} => e.on # d.on)
        /\ (e.op = "start" => d.on \notin Needs(e.on))
    BY <2>1, <2>2 DEF CreateApart, CreateOrder
  <2>6. CreateOrder(d, e)
    BY <2>3, <2>4, <2>5 DEF CreateOrder
  <2>7. {d.undo[k].on : k \in DOMAIN d.undo} = {}
    BY <2>3
  <2> QED BY <2>3, <2>5, <2>6, <2>7 DEF CreateApart
<1>7. /\ CreatePlan(Put(u, t)) /\ AllCalls(Put(u, t)) = Calls(u) \cup AllCalls(t)
      /\ \A i \in DOMAIN Put(u, t) : Put(u, t)[i] = u \/ \E j \in DOMAIN t : Put(u, t)[i] = t[j]
  BY <1>3, <1>5, <1>6, CreatePut
<1>8. \A i \in DOMAIN Put(u, t) : Put(u, t)[i] = u \/ \E j \in DOMAIN p : Put(u, t)[i] = p[j]
  BY <1>2, <1>7
<1> QED BY <1>2, <1>3, <1>7, <1>8 DEF s, c, t

\* What the plan of a destruction says of its first call and of what follows.
LEMMA DestroyHead ==
  ASSUME NEW p, DestroyPlan(p), p # <<>>
  PROVE  LET s == Head(p)
             c == Head(s)
         IN  /\ DestroyFunction(s) /\ DestroyCall(c)
             /\ DestroyFunction(Tail(s)) /\ DestroyPlan(Tail(p))
             /\ \A d \in Calls(Tail(s)) : DestroyOrder(c, d) /\ UsersFirst(c, d)
             /\ \A d \in Calls(s), e \in AllCalls(Tail(p)) : DestroyOrder(d, e)
<1> DEFINE s == Head(p)
           c == Head(s)
           r == Tail(s)
           t == Tail(p)
<1>1. p \in Seq(Seq(DestroyCalls)) /\ \A i \in DOMAIN p : p[i] # <<>> /\ DestroyFunction(p[i])
  BY DEF DestroyPlan
<1>a. Headed(DestroyCalls, p)
  BY <1>1, HeadOK
<1>2. /\ 1 \in DOMAIN p /\ s = p[1] /\ s \in Seq(DestroyCalls) /\ 1 \in DOMAIN s /\ c = s[1]
      /\ r \in Seq(DestroyCalls)
      /\ \A n \in DOMAIN r : n \in Nat /\ n + 1 \in DOMAIN s /\ n + 1 > 1 /\ r[n] = s[n + 1]
      /\ \A d \in Calls(r) : \E m \in DOMAIN s : m > 1 /\ d = s[m]
      /\ \A d \in AllCalls(t) : \E i \in DOMAIN p : i > 1 /\ d \in Calls(p[i])
      /\ t \in Seq(Seq(DestroyCalls))
      /\ \A i \in DOMAIN t : i \in Nat /\ i + 1 \in DOMAIN p /\ i + 1 > 1 /\ t[i] = p[i + 1]
  BY <1>a DEF Headed
<1>3. DestroyFunction(s)
  BY <1>1, <1>2
<1>4. \A i, j \in DOMAIN p : i < j => \A d \in Calls(p[i]), e \in Calls(p[j]) : DestroyOrder(d, e)
  BY DEF DestroyPlan
<1> HIDE DEF s, c, r, t
<1>5. DestroyFunction(r)
  <2>1. \A n \in DOMAIN r : DestroyCall(r[n])
    BY <1>2, <1>3 DEF DestroyFunction
  <2>2. ASSUME NEW n \in DOMAIN r, NEW m \in DOMAIN r, n < m
        PROVE  DestroyOrder(r[n], r[m]) /\ UsersFirst(r[n], r[m])
    <3>1. n + 1 < m + 1
      BY <1>2, <2>2
    <3> QED BY <3>1, <1>2, <1>3 DEF DestroyFunction
  <2> QED BY <1>2, <2>1, <2>2 DEF DestroyFunction
<1>6. DestroyPlan(t)
  <2>1. \A i \in DOMAIN t : t[i] # <<>> /\ DestroyFunction(t[i])
    BY <1>1, <1>2
  <2>2. ASSUME NEW i \in DOMAIN t, NEW j \in DOMAIN t, i < j
        PROVE  \A d \in Calls(t[i]), e \in Calls(t[j]) : DestroyOrder(d, e)
    <3>1. i + 1 < j + 1
      BY <1>2, <2>2
    <3> QED BY <3>1, <1>2, <1>4
  <2> QED BY <1>2, <2>1, <2>2 DEF DestroyPlan
<1>7. \A d \in Calls(r) : DestroyOrder(c, d) /\ UsersFirst(c, d)
  BY <1>2, <1>3 DEF DestroyFunction
<1>8. \A d \in Calls(s), e \in AllCalls(t) : DestroyOrder(d, e)
  BY <1>2, <1>4
<1>9. DestroyCall(c)
  BY <1>2, <1>3 DEF DestroyFunction
<1> QED BY <1>3, <1>5, <1>6, <1>7, <1>8, <1>9 DEF s, c, r, t

\* A function that may come before the rest of a destruction, put before it.
LEMMA DestroyPut ==
  ASSUME NEW t, DestroyPlan(t), NEW s, DestroyFunction(s),
         \A d \in Calls(s), e \in AllCalls(t) : DestroyOrder(d, e)
  PROVE  /\ DestroyPlan(Put(s, t)) /\ AllCalls(Put(s, t)) = Calls(s) \cup AllCalls(t)
         /\ \A i \in DOMAIN Put(s, t) : Put(s, t)[i] = s \/ \E j \in DOMAIN t : Put(s, t)[i] = t[j]
<1> DEFINE q == Put(s, t)
<1>1. t \in Seq(Seq(DestroyCalls)) /\ s \in Seq(DestroyCalls) /\ \A i \in DOMAIN t : t[i] # <<>>
  BY DEF DestroyPlan, DestroyFunction
<1>2. /\ q \in Seq(Seq(DestroyCalls))
      /\ \A i \in DOMAIN q : q[i] # <<>>
      /\ AllCalls(q) = Calls(s) \cup AllCalls(t)
      /\ \A i \in DOMAIN q : q[i] = s \/ \E j \in DOMAIN t : q[i] = t[j]
      /\ \A i, j \in DOMAIN q : i < j =>
           \/ q[i] = s /\ \E m \in DOMAIN t : q[j] = t[m]
           \/ \E n, m \in DOMAIN t : n < m /\ q[i] = t[n] /\ q[j] = t[m]
  BY <1>1, PutOK
<1> HIDE DEF q
<1>3. \A i \in DOMAIN q : DestroyFunction(q[i])
  BY <1>2 DEF DestroyPlan
<1>4. ASSUME NEW i \in DOMAIN q, NEW j \in DOMAIN q, i < j
      PROVE  \A d \in Calls(q[i]), e \in Calls(q[j]) : DestroyOrder(d, e)
  <2>1. CASE q[i] = s /\ \E m \in DOMAIN t : q[j] = t[m]
    BY <2>1 DEF AllCalls
  <2>2. CASE \E n, m \in DOMAIN t : n < m /\ q[i] = t[n] /\ q[j] = t[m]
    BY <2>2 DEF DestroyPlan
  <2> QED BY <1>2, <1>4, <2>1, <2>2
<1>5. DestroyPlan(q)
  BY <1>2, <1>3, <1>4 DEF DestroyPlan
<1> QED BY <1>2, <1>5 DEF q

\* A destruction goes on: what is left of the plan is in order, and has all the other calls.
LEMMA DestroyRest ==
  ASSUME NEW p, DestroyPlan(p), p # <<>>
  PROVE  LET s == Head(p)
             c == Head(s)
             q == Put(Tail(s), Tail(p))
         IN  /\ DestroyPlan(q)
             /\ c \in AllCalls(p) /\ c \in Calls(s) /\ 1 \in DOMAIN p /\ s = p[1]
             /\ DestroyCall(c)
             /\ AllCalls(q) \subseteq AllCalls(p)
             /\ \A d \in AllCalls(p) : d = c \/ d \in AllCalls(q)
             /\ \A d \in AllCalls(q) : DestroyOrder(c, d)
             /\ \A d \in Calls(s) : d = c \/ UsersFirst(c, d)
             /\ \A i \in DOMAIN q : \E j \in DOMAIN p :
                  /\ Calls(q[i]) \subseteq Calls(p[j])
                  /\ \A d \in Calls(p[j]) : d = c \/ d \in Calls(q[i])
<1> DEFINE s == Head(p)
           c == Head(s)
           r == Tail(s)
           t == Tail(p)
           q == Put(r, t)
<1>1. p \in Seq(Seq(DestroyCalls)) /\ \A i \in DOMAIN p : p[i] # <<>>
  BY DEF DestroyPlan
<1>a. Headed(DestroyCalls, p)
  BY <1>1, HeadOK
<1>2. /\ 1 \in DOMAIN p /\ s = p[1] /\ c \in Calls(s) /\ c \in AllCalls(p)
      /\ Calls(r) \subseteq Calls(s)
      /\ \A d \in Calls(s) : d = c \/ d \in Calls(r)
      /\ AllCalls(p) = Calls(s) \cup AllCalls(t)
      /\ \A i \in DOMAIN t : i + 1 \in DOMAIN p /\ t[i] = p[i + 1]
  BY <1>a DEF Headed
<1>3. /\ DestroyFunction(s) /\ DestroyCall(c)
      /\ DestroyFunction(r) /\ DestroyPlan(t)
      /\ \A d \in Calls(r) : DestroyOrder(c, d) /\ UsersFirst(c, d)
      /\ \A d \in Calls(s), e \in AllCalls(t) : DestroyOrder(d, e)
  BY DestroyHead
<1> HIDE DEF s, c, r, t
<1>4. /\ DestroyPlan(q) /\ AllCalls(q) = Calls(r) \cup AllCalls(t)
      /\ \A i \in DOMAIN q : q[i] = r \/ \E j \in DOMAIN t : q[i] = t[j]
  BY <1>2, <1>3, DestroyPut
<1> HIDE DEF q
<1>5. \A d \in AllCalls(q) : DestroyOrder(c, d)
  BY <1>2, <1>3, <1>4
<1>7. ASSUME NEW i \in DOMAIN q
      PROVE  \E j \in DOMAIN p : /\ Calls(q[i]) \subseteq Calls(p[j])
                                 /\ \A d \in Calls(p[j]) : d = c \/ d \in Calls(q[i])
  <2>1. CASE q[i] = r
    BY <2>1, <1>2
  <2>2. CASE \E j \in DOMAIN t : q[i] = t[j]
    BY <2>2, <1>2
  <2> QED BY <1>4, <2>1, <2>2
<1>8. /\ AllCalls(q) \subseteq AllCalls(p)
      /\ \A d \in AllCalls(p) : d = c \/ d \in AllCalls(q)
      /\ \A d \in Calls(s) : d = c \/ UsersFirst(c, d)
  BY <1>2, <1>3, <1>4
<1> QED BY <1>2, <1>3, <1>4, <1>5, <1>7, <1>8 DEF s, c, r, t, q

\* destroy_tcp_queues calls destroy_pe_cpu_rss also when it leaves: it may be called at any
\* place.
LEMMA PeDropOK ==
  ASSUME NEW d \in PeDrops
  PROVE  /\ d.op = "release" /\ d.on \in Objects /\ Family(d.on) = "cpu" /\ d.on[2] = "pe" /\ d.nulls /\ d.guard
         /\ d.undo = <<>> /\ d.otherwise = "ignore" /\ Needs(d.on) = {}
         /\ d \in DestroyCalls /\ DestroyCall(d) /\ \A e : DestroyOrder(d, e)
<1>1. /\ d.op = "release" /\ d.on \in Objects /\ Family(d.on) = "cpu" /\ d.on[2] = "pe"
      /\ d.nulls = TRUE /\ d.guard = TRUE /\ d.undo = <<>> /\ d.otherwise = "ignore"
  BY DEF PeDrops
<1>2. Needs(d.on) = {}
  BY <1>1 DEF Needs
<1>3. d \in DestroyCalls
  <2>1. <<>> \in Seq(PeDrops) /\ FALSE \in BOOLEAN /\ TRUE \in BOOLEAN
    OBVIOUS
  <2> QED BY <2>1 DEF PeDrops, DestroyCalls
<1>4. DestroyCall(d)
  BY <1>1, <1>2, <1>3 DEF DestroyCall
<1>5. d.on \notin Devices
  BY <1>1 DEF Devices, App, Family
<1>6. \A e : DestroyOrder(d, e)
  BY <1>1, <1>5 DEF DestroyOrder
<1> QED BY <1>1, <1>2, <1>3, <1>4, <1>6

\* A destruction leaves a function: its error path is done, then the functions after it.
LEMMA DestroyLeave ==
  ASSUME NEW p, DestroyPlan(p), p # <<>>
  PROVE  LET s == Head(p)
             c == Head(s)
             q == Put(c.undo, Tail(p))
         IN  /\ DestroyPlan(q)
             /\ AllCalls(q) = Calls(c.undo) \cup AllCalls(Tail(p))
             /\ AllCalls(p) = Calls(s) \cup AllCalls(Tail(p)) /\ c \in Calls(s)
             /\ \A d \in Calls(c.undo) : d \in PeDrops
             /\ \A i \in DOMAIN q : q[i] = c.undo \/ \E j \in DOMAIN p : q[i] = p[j]
<1> DEFINE s == Head(p)
           c == Head(s)
           t == Tail(p)
           u == c.undo
<1>1. p \in Seq(Seq(DestroyCalls)) /\ \A i \in DOMAIN p : p[i] # <<>>
  BY DEF DestroyPlan
<1>a. Headed(DestroyCalls, p)
  BY <1>1, HeadOK
<1>2. /\ c \in Calls(s) /\ AllCalls(p) = Calls(s) \cup AllCalls(t)
      /\ \A i \in DOMAIN t : i + 1 \in DOMAIN p /\ t[i] = p[i + 1]
  BY <1>a DEF Headed
<1>3. DestroyPlan(t) /\ DestroyCall(c)
  BY DestroyHead
<1> HIDE DEF s, c, t
<1>4. u \in Seq(PeDrops) /\ \A d \in Calls(u) : d \in PeDrops
  BY <1>3 DEF DestroyCall, DestroyCalls, Calls
<1>5. DestroyFunction(u)
  <2>1. \A n \in DOMAIN u : u[n] \in PeDrops /\ DestroyCall(u[n]) /\ u[n] \in DestroyCalls
    BY <1>4, PeDropOK
  <2>2. u \in Seq(DestroyCalls)
    BY <1>4, <2>1
  <2>3. \A n, m \in DOMAIN u : DestroyOrder(u[n], u[m]) /\ UsersFirst(u[n], u[m])
    BY <2>1, PeDropOK DEF UsersFirst
  <2> QED BY <2>1, <2>2, <2>3 DEF DestroyFunction
<1>6. \A d \in Calls(u), e \in AllCalls(t) : DestroyOrder(d, e)
  BY <1>4, PeDropOK
<1>7. /\ DestroyPlan(Put(u, t)) /\ AllCalls(Put(u, t)) = Calls(u) \cup AllCalls(t)
      /\ \A i \in DOMAIN Put(u, t) : Put(u, t)[i] = u \/ \E j \in DOMAIN t : Put(u, t)[i] = t[j]
  BY <1>3, <1>5, <1>6, DestroyPut
<1>8. \A i \in DOMAIN Put(u, t) : Put(u, t)[i] = u \/ \E j \in DOMAIN p : Put(u, t)[i] = p[j]
  BY <1>2, <1>7
<1> QED BY <1>2, <1>4, <1>7, <1>8 DEF s, c, t

\* The error path of a call, and then the function that destroys the queues.
LEMMA UndoThenDestroy ==
  ASSUME NEW c, CreateCall(c), NEW s, DestroyFunction(s), s # <<>>
  PROVE  LET q == Put(c.undo, <<s>>)
         IN  /\ DestroyPlan(q) /\ AllCalls(q) = Calls(c.undo) \cup Calls(s)
             /\ \A i \in DOMAIN q : q[i] = c.undo \/ q[i] = s
<1> DEFINE u == c.undo
           t == <<s>>
<1>1. DOMAIN t = {1} /\ t[1] = s /\ t \in Seq(Seq(DestroyCalls))
  BY DEF DestroyFunction
<1>2. DestroyPlan(t) /\ AllCalls(t) = Calls(s)
  <2> HIDE DEF t
  <2>1. AllCalls(t) = Calls(s)
    BY <1>1 DEF AllCalls
  <2>2. \A i, j \in DOMAIN t : ~(i < j)
    BY <1>1
  <2> QED BY <2>1, <2>2, <1>1 DEF DestroyPlan
<1> HIDE DEF t
<1>3. \A d \in Calls(u) : d \in Drops /\ Family(d.on) = "cpu"
  BY UndoCalls
<1>4. \A d \in Calls(u) : \A e : DestroyOrder(d, e)
  BY <1>3, DropOK DEF DestroyOrder, Devices, App, Family
<1>5. DestroyFunction(u)
  <2>1. \A n \in DOMAIN u : u[n] \in Calls(u) /\ u[n] \in Drops /\ DestroyCall(u[n]) /\ u[n] \in DestroyCalls
    BY <1>3, DropOK DEF Calls
  <2>2. u \in Seq(DestroyCalls)
    BY <2>1, UndoCalls
  <2>3. \A n, m \in DOMAIN u : n < m => DestroyOrder(u[n], u[m]) /\ UsersFirst(u[n], u[m])
    BY <1>4, <2>1, UndoCalls DEF UsersFirst
  <2> QED BY <2>1, <2>2, <2>3 DEF DestroyFunction
<1>6. \A d \in Calls(u), e \in AllCalls(t) : DestroyOrder(d, e)
  BY <1>4
<1>7. /\ DestroyPlan(Put(u, t)) /\ AllCalls(Put(u, t)) = Calls(u) \cup AllCalls(t)
      /\ \A i \in DOMAIN Put(u, t) : Put(u, t)[i] = u \/ \E j \in DOMAIN t : Put(u, t)[i] = t[j]
  BY <1>2, <1>5, <1>6, DestroyPut
<1> QED BY <1>1, <1>2, <1>7 DEF t
-----------------------------------------------------------------------------
(* The functions that destroy, as they are in the code.                    *)

\* What a function releases or stops, and that it does so in order.
Clears(s, objects) ==
  /\ DestroyFunction(s)
  /\ \A c \in Calls(s) : c.on \in objects
  /\ \A o \in objects : \E c \in Calls(s) : Settles(c, o)

\* Objects that are destroyed before others.
Before(objects, others) ==
  \A o \in objects, x \in others : o # x /\ o[1] # App /\ o \notin Needs(x)

\* Calls on objects that come before others may be made first.
LEMMA BeforeOrders ==
  ASSUME NEW c, NEW d, NEW O, NEW X, Before(O, X), c.on \in O, d.on \in X
  PROVE  DestroyOrder(c, d) /\ UsersFirst(c, d)
<1>1. c.on # d.on /\ c.on[1] # App /\ c.on \notin Needs(d.on)
  BY DEF Before
<1>2. c.on \notin Devices
  BY <1>1 DEF Devices
<1> QED BY <1>1, <1>2 DEF DestroyOrder, UsersFirst

\* A function of two parts destroys the objects of both.
LEMMA DestroyCat ==
  ASSUME NEW s, NEW t, NEW O, NEW X, Clears(s, O), Clears(t, X), Before(O, X)
  PROVE  Clears(s \o t, O \cup X) /\ Len(s \o t) = Len(s) + Len(t)
<1> DEFINE u == s \o t
<1>1. s \in Seq(DestroyCalls) /\ t \in Seq(DestroyCalls)
  BY DEF Clears, DestroyFunction
<1>a. Joined(DestroyCalls, s, t, u)
  BY <1>1, CatCalls
<1>2. /\ u \in Seq(DestroyCalls) /\ Calls(u) = Calls(s) \cup Calls(t)
      /\ \A n, m \in DOMAIN u : n < m =>
           \/ \E i, j \in DOMAIN s : i < j /\ u[n] = s[i] /\ u[m] = s[j]
           \/ \E i, j \in DOMAIN t : i < j /\ u[n] = t[i] /\ u[m] = t[j]
           \/ u[n] \in Calls(s) /\ u[m] \in Calls(t)
  BY <1>a DEF Joined
<1> HIDE DEF u
<1>3. /\ DestroyFunction(s) /\ \A c \in Calls(s) : c.on \in O
      /\ DestroyFunction(t) /\ \A c \in Calls(t) : c.on \in X
      /\ \A o \in O : \E c \in Calls(s) : Settles(c, o)
      /\ \A o \in X : \E c \in Calls(t) : Settles(c, o)
  BY DEF Clears
<1>4. ASSUME NEW n \in DOMAIN u PROVE DestroyCall(u[n])
  <2>1. u[n] \in Calls(s) \cup Calls(t)
    BY <1>2 DEF Calls
  <2> QED BY <2>1, <1>3 DEF Calls, DestroyFunction
<1>5. ASSUME NEW n \in DOMAIN u, NEW m \in DOMAIN u, n < m
      PROVE  DestroyOrder(u[n], u[m]) /\ UsersFirst(u[n], u[m])
  <2>1. CASE \E i, j \in DOMAIN s : i < j /\ u[n] = s[i] /\ u[m] = s[j]
    BY <2>1, <1>3 DEF DestroyFunction
  <2>2. CASE \E i, j \in DOMAIN t : i < j /\ u[n] = t[i] /\ u[m] = t[j]
    BY <2>2, <1>3 DEF DestroyFunction
  <2>3. CASE u[n] \in Calls(s) /\ u[m] \in Calls(t)
    BY <2>3, <1>3, BeforeOrders
  <2> QED BY <1>2, <1>5, <2>1, <2>2, <2>3
<1>6. DestroyFunction(u)
  BY <1>2, <1>4, <1>5 DEF DestroyFunction
<1>7. Len(s \o t) = Len(s) + Len(t)
  BY <1>1, ConcatProperties
<1> QED BY <1>2, <1>3, <1>6, <1>7 DEF Clears, u

\* A loop over the queues destroys the objects of every queue.
LEMMA DestroyEach ==
  ASSUME NEW M \in Nat, M > 0, NEW body \in [Queues -> Seq(DestroyCalls)],
         \A q \in Queues : Len(body[q]) = M,
         NEW O, \A q \in Queues : Clears(body[q], O[q]),
         \A q, r \in Queues : q # r => Before(O[q], O[r])
  PROVE  Clears(ForEach(body), UNION {O[q] : q \in Queues})
<1> PICK s : s = ForEach(body)
  OBVIOUS
<1>0. s \in Seq(DestroyCalls) /\ Looped(s, body, M)
  BY LoopOK
<1>1. /\ s \in Seq(DestroyCalls)
      /\ \A k \in DOMAIN s : \E q \in Queues, a \in 1..M : s[k] = body[q][a]
      /\ \A j, k \in DOMAIN s : j < k =>
           \E q, r \in Queues, a, b \in 1..M :
             s[j] = body[q][a] /\ s[k] = body[r][b] /\ (q # r \/ (q = r /\ a < b))
      /\ \A q \in Queues, a \in 1..M : \E k \in DOMAIN s : s[k] = body[q][a]
  BY <1>0 DEF Looped
<1>2. ASSUME NEW q \in Queues
      PROVE  /\ DestroyFunction(body[q]) /\ DOMAIN body[q] = 1..M
             /\ \A a \in 1..M : body[q][a] \in Calls(body[q]) /\ body[q][a].on \in O[q]
  <2>1. DOMAIN body[q] = 1..M
    BY <1>2
  <2> QED BY <2>1 DEF Clears, Calls
<1>3. ASSUME NEW n \in DOMAIN s PROVE DestroyCall(s[n])
  <2>1. PICK q \in Queues, a \in 1..M : s[n] = body[q][a]
    BY <1>1, <1>3
  <2> QED BY <2>1, <1>2 DEF DestroyFunction
<1>4. ASSUME NEW n \in DOMAIN s, NEW m \in DOMAIN s, n < m
      PROVE  DestroyOrder(s[n], s[m]) /\ UsersFirst(s[n], s[m])
  <2>1. PICK q \in Queues, r \in Queues, a \in 1..M, b \in 1..M :
          s[n] = body[q][a] /\ s[m] = body[r][b] /\ (q # r \/ (q = r /\ a < b))
    BY <1>1, <1>4
  <2>2. CASE q # r
    BY <2>1, <2>2, <1>2, BeforeOrders
  <2>3. CASE q = r /\ a < b
    BY <2>1, <2>3, <1>2 DEF DestroyFunction
  <2> QED BY <2>1, <2>2, <2>3
<1>5. DestroyFunction(s)
  BY <1>1, <1>3, <1>4 DEF DestroyFunction
<1>6. \A c \in Calls(s) : c.on \in UNION {O[q] : q \in Queues}
  <2> TAKE c \in Calls(s)
  <2>0. PICK k \in DOMAIN s : c = s[k]
    BY DEF Calls
  <2>1. PICK q \in Queues, a \in 1..M : c = body[q][a]
    BY <1>1, <2>0
  <2> QED BY <2>1, <1>2
<1>7. ASSUME NEW q \in Queues, NEW o \in O[q] PROVE \E c \in Calls(s) : Settles(c, o)
  <2>1. PICK c \in Calls(body[q]) : Settles(c, o)
    BY <1>7 DEF Clears
  <2>2. PICK a \in 1..M : c = body[q][a]
    BY <1>2 DEF Calls
  <2>3. PICK k \in DOMAIN s : s[k] = c
    BY <1>1, <2>2
  <2>4. c \in Calls(s)
    BY <2>3 DEF Calls
  <2> QED BY <2>1, <2>4
<1> QED BY <1>5, <1>6, <1>7 DEF Clears

\* Which objects of one owner need which.
LEMMA Users ==
  ASSUME NEW o \in Objects, NEW m \in Needs(o)
  PROVE  \/ m[1] # o[1] /\ Family(o) = "tcp" /\ o[2] = "txctx" /\ Family(m) = "page"
         \/ o[2] = "rxctx" /\ m[2] \in {"mmap", "mem"}
         \/ o[2] = "mmap" /\ m[2] = "mem"
         \/ Family(o) = "cpu" /\ o[2] = "txq" /\ m[2] \in {"pool", "tx_map"}
         \/ Family(o) = "cpu" /\ o[2] = "rxq" /\ m[2] = "rx_map"
<1>1. o[2] \in {"rxctx", "mmap", "txctx", "txq", "rxq"}
  BY NeedsOK
<1>2. CASE o[2] = "rxctx"
  BY <1>2 DEF Needs
<1>3. CASE o[2] = "mmap"
  BY <1>3 DEF Needs
<1>4. CASE o[2] = "txctx"
  <2>1. o[1][1] = "tcp" /\ Family(m) = "page"
    BY <1>4, KindsOK DEF Needs, Family
  <2> QED BY <2>1, <1>4 DEF Family
<1>5. CASE o[2] = "txq"
  BY <1>5 DEF Needs, Family
<1>6. CASE o[2] = "rxq"
  BY <1>6 DEF Needs, Family
<1> QED BY <1>1, <1>2, <1>3, <1>4, <1>5, <1>6

\* Objects of different owners are destroyed in any order, the pages after the queues.
LEMMA BeforeOwners ==
  ASSUME NEW O \in SUBSET Objects, NEW X \in SUBSET Objects,
         \A o \in O, x \in X : /\ o[1] # App /\ o[1] # x[1]
                               /\ ~(Family(o) = "page" /\ Family(x) = "tcp")
  PROVE  Before(O, X)
<1> SUFFICES ASSUME NEW o \in O, NEW x \in X PROVE o # x /\ o[1] # App /\ o \notin Needs(x)
  BY DEF Before
<1>1. o \in Objects /\ x \in Objects /\ o[1] # App /\ o[1] # x[1] /\ ~(Family(o) = "page" /\ Family(x) = "tcp")
  OBVIOUS
<1> QED BY <1>1, NeedsOK

\* A call that destroys, as the functions write it.
LEMMA CallOK ==
  ASSUME NEW op \in {"stop", "release", "end"}, NEW o \in Objects, NEW w \in {"leave", "ignore"}
  PROVE  LET c == Call(op, o, <<>>, w)
         IN  /\ c \in DestroyCalls /\ c.op = op /\ c.on = o /\ c.undo = <<>> /\ c.otherwise = w
             /\ ~c.guard /\ ~c.nulls
<1>1. <<>> \in Seq(PeDrops)
  OBVIOUS
<1> QED BY <1>1 DEF Call, DestroyCalls

\* The test of a pointer before a call changes nothing else of it.
LEMMA GuardedOK ==
  ASSUME NEW c \in DestroyCalls, ~c.nulls
  PROVE  /\ If(c) \in DestroyCalls /\ IfNull(c) \in DestroyCalls
         /\ If(c).op = c.op /\ If(c).on = c.on /\ If(c).undo = c.undo /\ If(c).otherwise = c.otherwise
         /\ If(c).guard /\ ~If(c).nulls
         /\ IfNull(c).op = c.op /\ IfNull(c).on = c.on /\ IfNull(c).undo = c.undo
         /\ IfNull(c).otherwise = c.otherwise /\ IfNull(c).guard /\ IfNull(c).nulls
<1>1. /\ If(c) \in DestroyCalls
      /\ If(c).op = c.op /\ If(c).on = c.on /\ If(c).undo = c.undo /\ If(c).otherwise = c.otherwise
      /\ If(c).guard /\ ~If(c).nulls
  BY DEF If, DestroyCalls
<1> QED BY <1>1 DEF IfNull, DestroyCalls

\* The calls that stop.
LEMMA StopCalls ==
  ASSUME NEW o \in Objects, NEW c, c = Stop(o) \/ c = If(Stop(o))
  PROVE  DestroyCall(c) /\ c \in DestroyCalls /\ c.op = "stop" /\ c.on = o
<1>1. Stop(o) = Call("stop", o, <<>>, "leave")
  BY DEF Stop
<1>2. /\ c \in DestroyCalls /\ c.op = "stop" /\ c.on = o /\ c.undo = <<>> /\ c.otherwise = "leave"
  BY <1>1, CallOK, GuardedOK
<1> QED BY <1>2 DEF DestroyCall

\* The calls that release; those of the CPU RSS queues reset the pointer.
LEMMA ReleaseCalls ==
  ASSUME NEW o \in Objects, NEW c,
         \/ Family(o) # "cpu" /\ (c = Release(o) \/ c = If(Release(o)))
         \/ c = IfNull(Release(o))
  PROVE  DestroyCall(c) /\ c \in DestroyCalls /\ c.op = "release" /\ c.on = o
<1>1. Release(o) = Call("release", o, <<>>, "leave")
  BY DEF Release
<1>2. /\ c \in DestroyCalls /\ c.op = "release" /\ c.on = o /\ c.undo = <<>> /\ c.otherwise = "leave"
      /\ Family(o) = "cpu" => c.nulls
  BY <1>1, CallOK, GuardedOK
<1> QED BY <1>2 DEF DestroyCall

\* The calls on the objects of one owner, by their kinds.
Uses(k, m) == \/ k = "rxctx" /\ m \in {"mmap", "mem"}
              \/ k = "mmap" /\ m = "mem"
              \/ k = "txq" /\ m \in {"pool", "tx_map"}
              \/ k = "rxq" /\ m = "rx_map"

\* The calls on one owner are in order when what uses a kind of memory is released before it.
LEMMA OneOwner ==
  ASSUME NEW w \in Owners, w # App, NEW s \in Seq(DestroyCalls),
         \A n \in DOMAIN s : DestroyCall(s[n]) /\ s[n].on[1] = w,
         \A n, m \in DOMAIN s : n < m /\ s[n].op = "release" =>
           /\ s[m].op = "release" /\ ~s[n].nulls => s[n].on[2] # s[m].on[2]
           /\ ~Uses(s[m].on[2], s[n].on[2])
  PROVE  DestroyFunction(s)
<1>1. ASSUME NEW n \in DOMAIN s, NEW m \in DOMAIN s, n < m
      PROVE  DestroyOrder(s[n], s[m]) /\ UsersFirst(s[n], s[m])
  <2>1. /\ DestroyCall(s[n]) /\ s[n].on[1] = w /\ s[n].on \in Objects
        /\ DestroyCall(s[m]) /\ s[m].on[1] = w /\ s[m].on \in Objects
    BY DEF DestroyCall, DestroyCalls
  <2>2. s[n].op # "end" /\ s[m].op # "end"
    BY <2>1 DEF DestroyCall
  <2>3. s[n].on \notin Devices
    BY <2>1 DEF Devices
  <2>4. s[n].op = "release" => s[n].on \notin Needs(s[m].on)
    <3> SUFFICES ASSUME s[n].op = "release", s[n].on \in Needs(s[m].on) PROVE FALSE
      OBVIOUS
    <3>1. ~Uses(s[m].on[2], s[n].on[2])
      BY <1>1
    <3> QED BY <2>1, <3>1, Users DEF Uses
  <2> QED BY <1>1, <2>2, <2>3, <2>4 DEF DestroyOrder, UsersFirst
<1> QED BY <1>1 DEF DestroyFunction

\* The queue of destroy_udp_queues.
LEMMA UdpCleared ==
  ASSUME NEW q \in Queues
  PROVE  LET w == <<"udp", q>>
             s == << If(Stop(<<w, "sem">>)), If(Release(<<w, "sem">>)), Stop(<<w, "rxctx">>),
                     Release(<<w, "rxq">>), Release(<<w, "mmap">>), Release(<<w, "mem">>) >>
         IN  Clears(s, {<<w, k>> : k \in KindsOf("udp")}) /\ s \in Seq(DestroyCalls) /\ Len(s) = 6
<1>w. PICK w : w = <<"udp", q>>
  OBVIOUS
<1>k. PICK K : K = KindsOf("udp")
  OBVIOUS
<1>1. w \in Owners /\ w[1] = "udp" /\ w # App /\ K = {"rxq", "rxctx", "mmap", "mem", "sem"} /\ K \subseteq KindsOf(w[1])
  BY <1>w, <1>k, OwnersOK DEF App, KindsOf
<1>2. \A k \in K : <<w, k>> \in Objects /\ Family(<<w, k>>) = "udp"
  BY <1>1, IsObject
<1>c. PICK c1, c2, c3, c4, c5, c6 :
      /\ c1 = If(Stop(<<w, "sem">>))
      /\ c2 = If(Release(<<w, "sem">>))
      /\ c3 = Stop(<<w, "rxctx">>)
      /\ c4 = Release(<<w, "rxq">>)
      /\ c5 = Release(<<w, "mmap">>)
      /\ c6 = Release(<<w, "mem">>)
  OBVIOUS
<1> DEFINE s == <<c1, c2, c3, c4, c5, c6>>
<1>3a. c1.op = "stop" /\ c1.on = <<w, "sem">> /\ DestroyCall(c1) /\ c1 \in DestroyCalls
  BY <1>1, <1>2, <1>c, StopCalls
<1>3b. c2.op = "release" /\ c2.on = <<w, "sem">> /\ DestroyCall(c2) /\ c2 \in DestroyCalls
  BY <1>1, <1>2, <1>c, ReleaseCalls
<1>3c. c3.op = "stop" /\ c3.on = <<w, "rxctx">> /\ DestroyCall(c3) /\ c3 \in DestroyCalls
  BY <1>1, <1>2, <1>c, StopCalls
<1>3d. c4.op = "release" /\ c4.on = <<w, "rxq">> /\ DestroyCall(c4) /\ c4 \in DestroyCalls
  BY <1>1, <1>2, <1>c, ReleaseCalls
<1>3e. c5.op = "release" /\ c5.on = <<w, "mmap">> /\ DestroyCall(c5) /\ c5 \in DestroyCalls
  BY <1>1, <1>2, <1>c, ReleaseCalls
<1>3f. c6.op = "release" /\ c6.on = <<w, "mem">> /\ DestroyCall(c6) /\ c6 \in DestroyCalls
  BY <1>1, <1>2, <1>c, ReleaseCalls
<1>3. /\ c1.op = "stop" /\ c1.on = <<w, "sem">> /\ c1.on[2] = "sem"
      /\ c2.op = "release" /\ c2.on = <<w, "sem">> /\ c2.on[2] = "sem"
      /\ c3.op = "stop" /\ c3.on = <<w, "rxctx">> /\ c3.on[2] = "rxctx"
      /\ c4.op = "release" /\ c4.on = <<w, "rxq">> /\ c4.on[2] = "rxq"
      /\ c5.op = "release" /\ c5.on = <<w, "mmap">> /\ c5.on[2] = "mmap"
      /\ c6.op = "release" /\ c6.on = <<w, "mem">> /\ c6.on[2] = "mem"
      /\ \A c \in {c1, c2, c3, c4, c5, c6} : DestroyCall(c) /\ c \in DestroyCalls /\ c.on[1] = w
  BY <1>3a, <1>3b, <1>3c, <1>3d, <1>3e, <1>3f
<1>4. s \in Seq(DestroyCalls) /\ DOMAIN s = 1..6 /\ Len(s) = 6
  BY <1>3
<1>a. /\ s[1] = c1 /\ s[2] = c2 /\ s[3] = c3 /\ s[4] = c4 /\ s[5] = c5 /\ s[6] = c6
      /\ \A n \in 1..6 : s[n] \in {c1, c2, c3, c4, c5, c6}
  OBVIOUS
<1>b. s = << If(Stop(<<w, "sem">>)), If(Release(<<w, "sem">>)), Stop(<<w, "rxctx">>),
             Release(<<w, "rxq">>), Release(<<w, "mmap">>), Release(<<w, "mem">>) >>
  BY <1>c DEF s
<1> HIDE DEF s
<1>5a. /\ s[1].op = "stop" /\ s[1].on[2] = "sem"
       /\ s[2].op = "release" /\ s[2].on[2] = "sem"
       /\ s[3].op = "stop" /\ s[3].on[2] = "rxctx"
       /\ s[4].op = "release" /\ s[4].on[2] = "rxq"
       /\ s[5].op = "release" /\ s[5].on[2] = "mmap"
       /\ s[6].op = "release" /\ s[6].on[2] = "mem"
       /\ \A n \in 1..6 : DestroyCall(s[n]) /\ s[n].on[1] = w
  BY <1>3, <1>a
<1>5. DestroyFunction(s)
  <2>3. ASSUME NEW n \in 1..6, NEW m \in 1..6, n < m, s[n].op = "release"
        PROVE  /\ s[m].op = "release" => s[n].on[2] # s[m].on[2]
               /\ ~Uses(s[m].on[2], s[n].on[2])
    <3>1. \/ s[n].on[2] = "sem" /\ m \in 3..6
          \/ s[n].on[2] = "rxq" /\ m \in 5..6
          \/ s[n].on[2] = "mmap" /\ m = 6
      <4>1. s[1].op # "release" /\ s[3].op # "release"
        BY <1>5a
      <4>2. n \in {2, 4, 5}
        BY <2>3, <4>1
      <4>3. s[2].on[2] = "sem" /\ s[4].on[2] = "rxq" /\ s[5].on[2] = "mmap"
        BY <1>5a
      <4> QED BY <2>3, <4>2, <4>3
    <3>2. \A k \in 3..6 : s[k].on[2] \in {"rxctx", "rxq", "mmap", "mem"}
      BY <1>5a
    <3>3. \A k \in 5..6 : s[k].on[2] \in {"mmap", "mem"}
      BY <1>5a
    <3>4. s[6].on[2] = "mem"
      BY <1>5a
    <3> QED BY <3>1, <3>2, <3>3, <3>4 DEF Uses
  <2> QED BY <1>1, <1>4, <1>5a, <2>3, OneOwner
<1>6. Calls(s) = {c1, c2, c3, c4, c5, c6}
  BY <1>4, <1>a DEF Calls
<1>7. \A c \in Calls(s) : c.on \in {<<w, k>> : k \in K}
  <2>1. "rxq" \in K /\ "rxctx" \in K /\ "mmap" \in K /\ "mem" \in K /\ "sem" \in K
    BY <1>1
  <2>2. \A c \in {c1, c2, c3, c4, c5, c6} : \E k \in K : c.on = <<w, k>>
    BY <2>1, <1>3
  <2> QED BY <2>2, <1>6
<1>8. \A o \in {<<w, k>> : k \in K} : \E c \in Calls(s) : Settles(c, o)
  <2> SUFFICES ASSUME NEW k \in K PROVE \E c \in {c1, c2, c3, c4, c5, c6} : Settles(c, <<w, k>>)
    BY <1>6
  <2>1. k \in {"rxq", "rxctx", "mmap", "mem", "sem"}
    BY <1>1
  <2>2. CASE k = "rxq"
    BY <2>2, <1>3 DEF Settles
  <2>3. CASE k = "rxctx"
    BY <2>3, <1>3 DEF Settles
  <2>4. CASE k = "mmap"
    BY <2>4, <1>3 DEF Settles
  <2>5. CASE k = "mem"
    BY <2>5, <1>3 DEF Settles
  <2>6. CASE k = "sem"
    BY <2>6, <1>3 DEF Settles
  <2> QED BY <2>1, <2>2, <2>3, <2>4, <2>5, <2>6
<1>9. Clears(s, {<<w, k>> : k \in K}) /\ s \in Seq(DestroyCalls) /\ Len(s) = 6
  BY <1>4, <1>5, <1>7, <1>8 DEF Clears
<1> QED BY <1>9, <1>b, <1>w, <1>k

\* destroy_icmp_queues.
LEMMA IcmpCleared ==
         LET w == <<"icmp", "0">>
             s == << Stop(<<w, "rxctx">>), Release(<<w, "rxq">>), Release(<<w, "mmap">>),
                     Release(<<w, "mem">>), Stop(<<w, "txctx">>), Release(<<w, "txq">>) >>
         IN  Clears(s, {<<w, k>> : k \in KindsOf("icmp")}) /\ s \in Seq(DestroyCalls) /\ Len(s) = 6
<1> PICK w : w = <<"icmp", "0">>
  OBVIOUS
<1> PICK K : K = KindsOf("icmp")
  OBVIOUS
<1>1. w \in Owners /\ w[1] = "icmp" /\ w # App /\ K = {"rxq", "rxctx", "mmap", "mem", "txq", "txctx"} /\ K \subseteq KindsOf(w[1])
  BY OwnersOK DEF App, KindsOf
<1>2. \A k \in K : <<w, k>> \in Objects /\ Family(<<w, k>>) = "icmp"
  BY <1>1, IsObject
<1> PICK c1, c2, c3, c4, c5, c6 :
      /\ c1 = Stop(<<w, "rxctx">>)
      /\ c2 = Release(<<w, "rxq">>)
      /\ c3 = Release(<<w, "mmap">>)
      /\ c4 = Release(<<w, "mem">>)
      /\ c5 = Stop(<<w, "txctx">>)
      /\ c6 = Release(<<w, "txq">>)
  OBVIOUS
<1> DEFINE s == <<c1, c2, c3, c4, c5, c6>>
<1>3. /\ c1.op = "stop" /\ c1.on = <<w, "rxctx">>
      /\ c2.op = "release" /\ c2.on = <<w, "rxq">>
      /\ c3.op = "release" /\ c3.on = <<w, "mmap">>
      /\ c4.op = "release" /\ c4.on = <<w, "mem">>
      /\ c5.op = "stop" /\ c5.on = <<w, "txctx">>
      /\ c6.op = "release" /\ c6.on = <<w, "txq">>
      /\ \A c \in {c1, c2, c3, c4, c5, c6} : DestroyCall(c) /\ c \in DestroyCalls
  BY <1>1, <1>2, StopCalls, ReleaseCalls
<1>4. s \in Seq(DestroyCalls) /\ DOMAIN s = 1..6 /\ Len(s) = 6 /\ \A n \in 1..6 : DestroyCall(s[n])
  BY <1>3
<1>5. DestroyFunction(s)
  <2>1. \A n \in 1..6 : s[n].on[1] = w
    BY <1>3
  <2>2. \A n, m \in 1..6 : n < m /\ s[n].op = "release" =>
          /\ s[m].op = "release" => s[n].on[2] # s[m].on[2]
          /\ ~Uses(s[m].on[2], s[n].on[2])
    BY <1>3 DEF Uses
  <2> HIDE DEF s
  <2> QED BY <1>1, <1>4, <2>1, <2>2, OneOwner
<1>6. Calls(s) = {c1, c2, c3, c4, c5, c6}
  BY <1>4 DEF Calls
<1>7. \A c \in Calls(s) : c.on \in {<<w, k>> : k \in K}
  <2>1. \A c \in {c1, c2, c3, c4, c5, c6} : c.on \in {<<w, k>> : k \in K}
    BY <1>1, <1>3
  <2> HIDE DEF s
  <2> QED BY <2>1, <1>6
<1>8. \A o \in {<<w, k>> : k \in K} : \E c \in Calls(s) : Settles(c, o)
  <2> HIDE DEF s
  <2> SUFFICES ASSUME NEW k \in K PROVE \E c \in {c1, c2, c3, c4, c5, c6} : Settles(c, <<w, k>>)
    BY <1>6
  <2> QED BY <1>1, <1>3 DEF Settles
<1> QED BY <1>4, <1>5, <1>7, <1>8 DEF Clears

\* The queue of destroy_tcp_queues, before the HTTP server's part of it.
LEMMA TcpCleared ==
  ASSUME NEW q \in Queues
  PROVE  LET w == <<"tcp", q>>
             s == << If(Stop(<<w, "sem">>)), If(Release(<<w, "sem">>)),
                     If(Stop(<<w, "rxctx">>)), If(Stop(<<w, "mmap">>)),
                     If(Release(<<w, "mmap">>)), If(Release(<<w, "mem">>)),
                     If(Release(<<w, "rxq">>)) >>
         IN  Clears(s, {<<w, k>> : k \in {"rxq", "rxctx", "mmap", "mem", "sem"}}) /\ s \in Seq(DestroyCalls) /\ Len(s) = 7
<1>w. PICK w : w = <<"tcp", q>>
  OBVIOUS
<1>k. PICK K : K = {"rxq", "rxctx", "mmap", "mem", "sem"}
  OBVIOUS
<1>1. w \in Owners /\ w[1] = "tcp" /\ w # App /\ K = {"rxq", "rxctx", "mmap", "mem", "sem"} /\ K \subseteq KindsOf(w[1])
  BY <1>w, <1>k, OwnersOK DEF App, KindsOf
<1>2. \A k \in K : <<w, k>> \in Objects /\ Family(<<w, k>>) = "tcp"
  BY <1>1, IsObject
<1>c. PICK c1, c2, c3, c4, c5, c6, c7 :
      /\ c1 = If(Stop(<<w, "sem">>))
      /\ c2 = If(Release(<<w, "sem">>))
      /\ c3 = If(Stop(<<w, "rxctx">>))
      /\ c4 = If(Stop(<<w, "mmap">>))
      /\ c5 = If(Release(<<w, "mmap">>))
      /\ c6 = If(Release(<<w, "mem">>))
      /\ c7 = If(Release(<<w, "rxq">>))
  OBVIOUS
<1> DEFINE s == <<c1, c2, c3, c4, c5, c6, c7>>
<1>3a. c1.op = "stop" /\ c1.on = <<w, "sem">> /\ DestroyCall(c1) /\ c1 \in DestroyCalls
  BY <1>1, <1>2, <1>c, StopCalls
<1>3b. c2.op = "release" /\ c2.on = <<w, "sem">> /\ DestroyCall(c2) /\ c2 \in DestroyCalls
  BY <1>1, <1>2, <1>c, ReleaseCalls
<1>3c. c3.op = "stop" /\ c3.on = <<w, "rxctx">> /\ DestroyCall(c3) /\ c3 \in DestroyCalls
  BY <1>1, <1>2, <1>c, StopCalls
<1>3d. c4.op = "stop" /\ c4.on = <<w, "mmap">> /\ DestroyCall(c4) /\ c4 \in DestroyCalls
  BY <1>1, <1>2, <1>c, StopCalls
<1>3e. c5.op = "release" /\ c5.on = <<w, "mmap">> /\ DestroyCall(c5) /\ c5 \in DestroyCalls
  BY <1>1, <1>2, <1>c, ReleaseCalls
<1>3f. c6.op = "release" /\ c6.on = <<w, "mem">> /\ DestroyCall(c6) /\ c6 \in DestroyCalls
  BY <1>1, <1>2, <1>c, ReleaseCalls
<1>3g. c7.op = "release" /\ c7.on = <<w, "rxq">> /\ DestroyCall(c7) /\ c7 \in DestroyCalls
  BY <1>1, <1>2, <1>c, ReleaseCalls
<1>3. /\ c1.op = "stop" /\ c1.on = <<w, "sem">> /\ c1.on[2] = "sem"
      /\ c2.op = "release" /\ c2.on = <<w, "sem">> /\ c2.on[2] = "sem"
      /\ c3.op = "stop" /\ c3.on = <<w, "rxctx">> /\ c3.on[2] = "rxctx"
      /\ c4.op = "stop" /\ c4.on = <<w, "mmap">> /\ c4.on[2] = "mmap"
      /\ c5.op = "release" /\ c5.on = <<w, "mmap">> /\ c5.on[2] = "mmap"
      /\ c6.op = "release" /\ c6.on = <<w, "mem">> /\ c6.on[2] = "mem"
      /\ c7.op = "release" /\ c7.on = <<w, "rxq">> /\ c7.on[2] = "rxq"
      /\ \A c \in {c1, c2, c3, c4, c5, c6, c7} : DestroyCall(c) /\ c \in DestroyCalls /\ c.on[1] = w
  BY <1>3a, <1>3b, <1>3c, <1>3d, <1>3e, <1>3f, <1>3g
<1>4. s \in Seq(DestroyCalls) /\ DOMAIN s = 1..7 /\ Len(s) = 7
  BY <1>3
<1>a. /\ s[1] = c1 /\ s[2] = c2 /\ s[3] = c3 /\ s[4] = c4 /\ s[5] = c5 /\ s[6] = c6 /\ s[7] = c7
      /\ \A n \in 1..7 : s[n] \in {c1, c2, c3, c4, c5, c6, c7}
  OBVIOUS
<1> HIDE DEF s
<1>5a. /\ s[1].op = "stop" /\ s[1].on[2] = "sem"
       /\ s[2].op = "release" /\ s[2].on[2] = "sem"
       /\ s[3].op = "stop" /\ s[3].on[2] = "rxctx"
       /\ s[4].op = "stop" /\ s[4].on[2] = "mmap"
       /\ s[5].op = "release" /\ s[5].on[2] = "mmap"
       /\ s[6].op = "release" /\ s[6].on[2] = "mem"
       /\ s[7].op = "release" /\ s[7].on[2] = "rxq"
       /\ \A n \in 1..7 : DestroyCall(s[n]) /\ s[n].on[1] = w
  BY <1>3, <1>a
<1>5. DestroyFunction(s)
  <2>2. ASSUME NEW n \in 1..7, NEW m \in 1..7, n < m, s[n].op = "release"
        PROVE  /\ s[m].op = "release" => s[n].on[2] # s[m].on[2]
               /\ ~Uses(s[m].on[2], s[n].on[2])
    <3>1. \/ s[n].on[2] = "sem" /\ m \in 3..7
          \/ s[n].on[2] = "mmap" /\ m \in 6..7
          \/ s[n].on[2] = "mem" /\ m = 7
      <4>1. s[1].op # "release" /\ s[3].op # "release" /\ s[4].op # "release"
        BY <1>5a
      <4>2. n \in {2, 5, 6}
        BY <2>2, <4>1
      <4>3. s[2].on[2] = "sem" /\ s[5].on[2] = "mmap" /\ s[6].on[2] = "mem"
        BY <1>5a
      <4> QED BY <2>2, <4>2, <4>3
    <3>2. \A k \in 3..7 : s[k].on[2] \in {"rxctx", "mmap", "mem", "rxq"}
      BY <1>5a
    <3>3. \A k \in 6..7 : s[k].on[2] \in {"mem", "rxq"}
      BY <1>5a
    <3>4. s[7].on[2] = "rxq"
      BY <1>5a
    <3> QED BY <3>1, <3>2, <3>3, <3>4 DEF Uses
  <2> QED BY <1>1, <1>4, <1>5a, <2>2, OneOwner
<1>6. Calls(s) = {c1, c2, c3, c4, c5, c6, c7}
  BY <1>4, <1>a DEF Calls
<1>7. \A c \in Calls(s) : c.on \in {<<w, k>> : k \in K}
  <2>1. \A c \in {c1, c2, c3, c4, c5, c6, c7} : \E k \in K : c.on = <<w, k>>
    <3>1. "rxq" \in K /\ "rxctx" \in K /\ "mmap" \in K /\ "mem" \in K /\ "sem" \in K
      BY <1>1
    <3> QED BY <3>1, <1>3
  <2> QED BY <2>1, <1>6
<1>8. \A o \in {<<w, k>> : k \in K} : \E c \in Calls(s) : Settles(c, o)
  <2> SUFFICES ASSUME NEW k \in K PROVE \E c \in {c1, c2, c3, c4, c5, c6, c7} : Settles(c, <<w, k>>)
    BY <1>6
  <2>1. k \in {"rxq", "rxctx", "mmap", "mem", "sem"}
    BY <1>1
  <2>2. CASE k = "rxq"
    BY <2>2, <1>3 DEF Settles
  <2>3. CASE k = "rxctx"
    BY <2>3, <1>3 DEF Settles
  <2>4. CASE k = "mmap"
    BY <2>4, <1>3 DEF Settles
  <2>5. CASE k = "mem"
    BY <2>5, <1>3 DEF Settles
  <2>6. CASE k = "sem"
    BY <2>6, <1>3 DEF Settles
  <2> QED BY <2>1, <2>2, <2>3, <2>4, <2>5, <2>6
<1>9. Clears(s, {<<w, k>> : k \in K}) /\ s \in Seq(DestroyCalls) /\ Len(s) = 7
  BY <1>4, <1>5, <1>7, <1>8 DEF Clears
<1>10. s = << If(Stop(<<w, "sem">>)), If(Release(<<w, "sem">>)),
              If(Stop(<<w, "rxctx">>)), If(Stop(<<w, "mmap">>)),
              If(Release(<<w, "mmap">>)), If(Release(<<w, "mem">>)),
              If(Release(<<w, "rxq">>)) >>
  BY <1>c DEF s
<1> QED BY <1>9, <1>10, <1>w, <1>k

\* The HTTP server's part.
LEMMA SendCleared ==
  ASSUME NEW q \in Queues
  PROVE  LET w == <<"tcp", q>>
             s == << If(Stop(<<w, "sem_http">>)), If(Release(<<w, "sem_http">>)),
                     If(Stop(<<w, "txctx">>)), If(Release(<<w, "txq">>)) >>
         IN  Clears(s, {<<w, k>> : k \in {"sem_http", "txq", "txctx"}}) /\ s \in Seq(DestroyCalls) /\ Len(s) = 4
<1> PICK w : w = <<"tcp", q>>
  OBVIOUS
<1> PICK K : K = {"sem_http", "txq", "txctx"}
  OBVIOUS
<1>1. w \in Owners /\ w[1] = "tcp" /\ w # App /\ K = {"sem_http", "txq", "txctx"} /\ K \subseteq KindsOf(w[1])
  BY OwnersOK DEF App, KindsOf
<1>2. \A k \in K : <<w, k>> \in Objects /\ Family(<<w, k>>) = "tcp"
  BY <1>1, IsObject
<1> PICK c1, c2, c3, c4 :
      /\ c1 = If(Stop(<<w, "sem_http">>))
      /\ c2 = If(Release(<<w, "sem_http">>))
      /\ c3 = If(Stop(<<w, "txctx">>))
      /\ c4 = If(Release(<<w, "txq">>))
  OBVIOUS
<1> DEFINE s == <<c1, c2, c3, c4>>
<1>3. /\ c1.op = "stop" /\ c1.on = <<w, "sem_http">>
      /\ c2.op = "release" /\ c2.on = <<w, "sem_http">>
      /\ c3.op = "stop" /\ c3.on = <<w, "txctx">>
      /\ c4.op = "release" /\ c4.on = <<w, "txq">>
      /\ \A c \in {c1, c2, c3, c4} : DestroyCall(c) /\ c \in DestroyCalls
  BY <1>1, <1>2, StopCalls, ReleaseCalls
<1>4. s \in Seq(DestroyCalls) /\ DOMAIN s = 1..4 /\ Len(s) = 4 /\ \A n \in 1..4 : DestroyCall(s[n])
  BY <1>3
<1>5. DestroyFunction(s)
  <2>1. \A n \in 1..4 : s[n].on[1] = w
    BY <1>3
  <2>2. \A n, m \in 1..4 : n < m /\ s[n].op = "release" =>
          /\ s[m].op = "release" => s[n].on[2] # s[m].on[2]
          /\ ~Uses(s[m].on[2], s[n].on[2])
    BY <1>3 DEF Uses
  <2> HIDE DEF s
  <2> QED BY <1>1, <1>4, <2>1, <2>2, OneOwner
<1>6. Calls(s) = {c1, c2, c3, c4}
  BY <1>4 DEF Calls
<1>7. \A c \in Calls(s) : c.on \in {<<w, k>> : k \in K}
  <2>1. \A c \in {c1, c2, c3, c4} : c.on \in {<<w, k>> : k \in K}
    BY <1>1, <1>3
  <2> HIDE DEF s
  <2> QED BY <2>1, <1>6
<1>8. \A o \in {<<w, k>> : k \in K} : \E c \in Calls(s) : Settles(c, o)
  <2> HIDE DEF s
  <2> SUFFICES ASSUME NEW k \in K PROVE \E c \in {c1, c2, c3, c4} : Settles(c, <<w, k>>)
    BY <1>6
  <2> QED BY <1>1, <1>3 DEF Settles
<1> QED BY <1>4, <1>5, <1>7, <1>8 DEF Clears

\* destroy_tx_buf.
LEMMA PageCleared ==
  ASSUME NEW page \in Pages
  PROVE  LET w == <<"page", page>>
             s == << Stop(<<w, "mmap">>), Release(<<w, "mmap">>), Release(<<w, "mem">>),
                     Stop(<<w, "arr">>), Release(<<w, "arr">>) >>
         IN  Clears(s, {<<w, k>> : k \in KindsOf("page")}) /\ s \in Seq(DestroyCalls) /\ Len(s) = 5
<1> PICK w : w = <<"page", page>>
  OBVIOUS
<1> PICK K : K = KindsOf("page")
  OBVIOUS
<1>1. w \in Owners /\ w[1] = "page" /\ w # App /\ K = {"mmap", "mem", "arr"} /\ K \subseteq KindsOf(w[1])
  BY OwnersOK DEF App, KindsOf
<1>2. \A k \in K : <<w, k>> \in Objects /\ Family(<<w, k>>) = "page"
  BY <1>1, IsObject
<1> PICK c1, c2, c3, c4, c5 :
      /\ c1 = Stop(<<w, "mmap">>)
      /\ c2 = Release(<<w, "mmap">>)
      /\ c3 = Release(<<w, "mem">>)
      /\ c4 = Stop(<<w, "arr">>)
      /\ c5 = Release(<<w, "arr">>)
  OBVIOUS
<1> DEFINE s == <<c1, c2, c3, c4, c5>>
<1>3. /\ c1.op = "stop" /\ c1.on = <<w, "mmap">>
      /\ c2.op = "release" /\ c2.on = <<w, "mmap">>
      /\ c3.op = "release" /\ c3.on = <<w, "mem">>
      /\ c4.op = "stop" /\ c4.on = <<w, "arr">>
      /\ c5.op = "release" /\ c5.on = <<w, "arr">>
      /\ \A c \in {c1, c2, c3, c4, c5} : DestroyCall(c) /\ c \in DestroyCalls
  BY <1>1, <1>2, StopCalls, ReleaseCalls
<1>4. s \in Seq(DestroyCalls) /\ DOMAIN s = 1..5 /\ Len(s) = 5 /\ \A n \in 1..5 : DestroyCall(s[n])
  BY <1>3
<1>5. DestroyFunction(s)
  <2>1. \A n \in 1..5 : s[n].on[1] = w
    BY <1>3
  <2>2. \A n, m \in 1..5 : n < m /\ s[n].op = "release" =>
          /\ s[m].op = "release" => s[n].on[2] # s[m].on[2]
          /\ ~Uses(s[m].on[2], s[n].on[2])
    BY <1>3 DEF Uses
  <2> HIDE DEF s
  <2> QED BY <1>1, <1>4, <2>1, <2>2, OneOwner
<1>6. Calls(s) = {c1, c2, c3, c4, c5}
  BY <1>4 DEF Calls
<1>7. \A c \in Calls(s) : c.on \in {<<w, k>> : k \in K}
  <2>1. \A c \in {c1, c2, c3, c4, c5} : c.on \in {<<w, k>> : k \in K}
    BY <1>1, <1>3
  <2> HIDE DEF s
  <2> QED BY <2>1, <1>6
<1>8. \A o \in {<<w, k>> : k \in K} : \E c \in Calls(s) : Settles(c, o)
  <2> HIDE DEF s
  <2> SUFFICES ASSUME NEW k \in K PROVE \E c \in {c1, c2, c3, c4, c5} : Settles(c, <<w, k>>)
    BY <1>6
  <2> QED BY <1>1, <1>3 DEF Settles
<1> QED BY <1>4, <1>5, <1>7, <1>8 DEF Clears

\* destroy_rxq_cpu_rss.
LEMMA CpuRxqCleared ==
  ASSUME NEW q \in Queues
  PROVE  LET w == <<"cpu", q>>
             s == << If(Stop(<<w, "rxq">>)), IfNull(Release(<<w, "rxq">>)),
                     IfNull(Release(<<w, "rx_map">>)) >>
         IN  Clears(s, {<<w, k>> : k \in {"rxq", "rx_map"}}) /\ s \in Seq(DestroyCalls) /\ Len(s) = 3
<1> PICK w : w = <<"cpu", q>>
  OBVIOUS
<1> PICK K : K = {"rxq", "rx_map"}
  OBVIOUS
<1>1. w \in Owners /\ w[1] = "cpu" /\ w # App /\ K = {"rxq", "rx_map"} /\ K \subseteq KindsOf(w[1])
  BY OwnersOK DEF App, KindsOf
<1>2. \A k \in K : <<w, k>> \in Objects /\ Family(<<w, k>>) = "cpu"
  BY <1>1, IsObject
<1> PICK c1, c2, c3 :
      /\ c1 = If(Stop(<<w, "rxq">>))
      /\ c2 = IfNull(Release(<<w, "rxq">>))
      /\ c3 = IfNull(Release(<<w, "rx_map">>))
  OBVIOUS
<1> DEFINE s == <<c1, c2, c3>>
<1>3. /\ c1.op = "stop" /\ c1.on = <<w, "rxq">>
      /\ c2.op = "release" /\ c2.on = <<w, "rxq">>
      /\ c3.op = "release" /\ c3.on = <<w, "rx_map">>
      /\ \A c \in {c1, c2, c3} : DestroyCall(c) /\ c \in DestroyCalls
  BY <1>1, <1>2, StopCalls, ReleaseCalls
<1>4. s \in Seq(DestroyCalls) /\ DOMAIN s = 1..3 /\ Len(s) = 3 /\ \A n \in 1..3 : DestroyCall(s[n])
  BY <1>3
<1>5. DestroyFunction(s)
  <2>1. \A n \in 1..3 : s[n].on[1] = w
    BY <1>3
  <2>2. \A n, m \in 1..3 : n < m /\ s[n].op = "release" =>
          /\ s[m].op = "release" => s[n].on[2] # s[m].on[2]
          /\ ~Uses(s[m].on[2], s[n].on[2])
    BY <1>3 DEF Uses
  <2> HIDE DEF s
  <2> QED BY <1>1, <1>4, <2>1, <2>2, OneOwner
<1>6. Calls(s) = {c1, c2, c3}
  BY <1>4 DEF Calls
<1>7. \A c \in Calls(s) : c.on \in {<<w, k>> : k \in K}
  <2>1. \A c \in {c1, c2, c3} : c.on \in {<<w, k>> : k \in K}
    BY <1>1, <1>3
  <2> HIDE DEF s
  <2> QED BY <2>1, <1>6
<1>8. \A o \in {<<w, k>> : k \in K} : \E c \in Calls(s) : Settles(c, o)
  <2> HIDE DEF s
  <2> SUFFICES ASSUME NEW k \in K PROVE \E c \in {c1, c2, c3} : Settles(c, <<w, k>>)
    BY <1>6
  <2> QED BY <1>1, <1>3 DEF Settles
<1> QED BY <1>4, <1>5, <1>7, <1>8 DEF Clears

\* destroy_txq_cpu_rss.
LEMMA CpuTxqCleared ==
  ASSUME NEW q \in Queues
  PROVE  LET w == <<"cpu", q>>
             s == << If(Stop(<<w, "txq">>)), IfNull(Release(<<w, "txq">>)),
                     IfNull(Release(<<w, "pool">>)), IfNull(Release(<<w, "tx_map">>)) >>
         IN  Clears(s, {<<w, k>> : k \in {"txq", "pool", "tx_map"}}) /\ s \in Seq(DestroyCalls) /\ Len(s) = 4
<1> PICK w : w = <<"cpu", q>>
  OBVIOUS
<1> PICK K : K = {"txq", "pool", "tx_map"}
  OBVIOUS
<1>1. w \in Owners /\ w[1] = "cpu" /\ w # App /\ K = {"txq", "pool", "tx_map"} /\ K \subseteq KindsOf(w[1])
  BY OwnersOK DEF App, KindsOf
<1>2. \A k \in K : <<w, k>> \in Objects /\ Family(<<w, k>>) = "cpu"
  BY <1>1, IsObject
<1> PICK c1, c2, c3, c4 :
      /\ c1 = If(Stop(<<w, "txq">>))
      /\ c2 = IfNull(Release(<<w, "txq">>))
      /\ c3 = IfNull(Release(<<w, "pool">>))
      /\ c4 = IfNull(Release(<<w, "tx_map">>))
  OBVIOUS
<1> DEFINE s == <<c1, c2, c3, c4>>
<1>3. /\ c1.op = "stop" /\ c1.on = <<w, "txq">>
      /\ c2.op = "release" /\ c2.on = <<w, "txq">>
      /\ c3.op = "release" /\ c3.on = <<w, "pool">>
      /\ c4.op = "release" /\ c4.on = <<w, "tx_map">>
      /\ \A c \in {c1, c2, c3, c4} : DestroyCall(c) /\ c \in DestroyCalls
  BY <1>1, <1>2, StopCalls, ReleaseCalls
<1>4. s \in Seq(DestroyCalls) /\ DOMAIN s = 1..4 /\ Len(s) = 4 /\ \A n \in 1..4 : DestroyCall(s[n])
  BY <1>3
<1>5. DestroyFunction(s)
  <2>1. \A n \in 1..4 : s[n].on[1] = w
    BY <1>3
  <2>2. \A n, m \in 1..4 : n < m /\ s[n].op = "release" =>
          /\ s[m].op = "release" => s[n].on[2] # s[m].on[2]
          /\ ~Uses(s[m].on[2], s[n].on[2])
    BY <1>3 DEF Uses
  <2> HIDE DEF s
  <2> QED BY <1>1, <1>4, <2>1, <2>2, OneOwner
<1>6. Calls(s) = {c1, c2, c3, c4}
  BY <1>4 DEF Calls
<1>7. \A c \in Calls(s) : c.on \in {<<w, k>> : k \in K}
  <2>1. \A c \in {c1, c2, c3, c4} : c.on \in {<<w, k>> : k \in K}
    BY <1>1, <1>3
  <2> HIDE DEF s
  <2> QED BY <2>1, <1>6
<1>8. \A o \in {<<w, k>> : k \in K} : \E c \in Calls(s) : Settles(c, o)
  <2> HIDE DEF s
  <2> SUFFICES ASSUME NEW k \in K PROVE \E c \in {c1, c2, c3, c4} : Settles(c, <<w, k>>)
    BY <1>6
  <2> QED BY <1>1, <1>3 DEF Settles
<1> QED BY <1>4, <1>5, <1>7, <1>8 DEF Clears

\* The same calls, each with the release of the progress engine as its error path.
LEMMA UndoneCleared ==
  ASSUME NEW s, NEW O, Clears(s, O), \A o \in O : Family(o) = "cpu", NEW u \in Seq(PeDrops)
  PROVE  LET t == [i \in DOMAIN s |-> [s[i] EXCEPT !.undo = u]]
         IN  Clears(t, O) /\ Len(t) = Len(s)
<1> DEFINE t == [i \in DOMAIN s |-> [s[i] EXCEPT !.undo = u]]
<1>1. /\ DestroyFunction(s) /\ s \in Seq(DestroyCalls) /\ DOMAIN s = 1..Len(s) /\ Len(s) \in Nat
      /\ \A n \in DOMAIN s : s[n] \in Calls(s)
      /\ \A c \in Calls(s) : c.on \in O
      /\ \A o \in O : \E c \in Calls(s) : Settles(c, o)
  BY DEF Clears, DestroyFunction, Calls
<1>2. ASSUME NEW n \in DOMAIN s
      PROVE  /\ t[n] \in DestroyCalls /\ DestroyCall(t[n])
             /\ t[n].op = s[n].op /\ t[n].on = s[n].on /\ t[n].nulls = s[n].nulls
  <2>1. DestroyCall(s[n]) /\ s[n] \in DestroyCalls /\ Family(s[n].on) = "cpu"
    BY <1>1, <1>2 DEF DestroyFunction
  <2> PICK c \in DestroyCalls : c = s[n]
    BY <2>1
  <2> PICK d : d = [c EXCEPT !.undo = u]
    OBVIOUS
  <2>2. t[n] = d
    BY <1>2
  <2>3. /\ d \in DestroyCalls /\ d.op = c.op /\ d.on = c.on /\ d.nulls = c.nulls /\ d.guard = c.guard
        /\ d.otherwise = c.otherwise
    BY DEF DestroyCalls
  <2>4. DestroyCall(d)
    BY <2>1, <2>3 DEF DestroyCall
  <2> QED BY <2>2, <2>3, <2>4
<1>3. DOMAIN t = DOMAIN s
  OBVIOUS
<1> HIDE DEF t
<1>4. t \in Seq(DestroyCalls) /\ Len(t) = Len(s)
  <2>1. t = [n \in 1..Len(s) |-> t[n]]
    BY <1>1, <1>3 DEF t
  <2> QED BY <2>1, <1>1, <1>2
<1>5. DestroyFunction(t)
  <2>1. ASSUME NEW n \in DOMAIN t, NEW m \in DOMAIN t, n < m
        PROVE  DestroyOrder(t[n], t[m]) /\ UsersFirst(t[n], t[m])
    <3>1. DestroyOrder(s[n], s[m]) /\ UsersFirst(s[n], s[m])
      BY <1>1, <1>3, <2>1 DEF DestroyFunction
    <3> QED BY <3>1, <1>2, <1>3 DEF DestroyOrder, UsersFirst
  <2> QED BY <2>1, <1>2, <1>3, <1>4 DEF DestroyFunction
<1>6. \A c \in Calls(t) : c.on \in O
  BY <1>1, <1>2, <1>3 DEF Calls
<1>7. ASSUME NEW o \in O PROVE \E c \in Calls(t) : Settles(c, o)
  <2>1. PICK n \in DOMAIN s : Settles(s[n], o)
    BY <1>1, <1>7 DEF Calls
  <2>2. t[n] \in Calls(t) /\ Settles(t[n], o)
    BY <2>1, <1>2, <1>3 DEF Calls, Settles
  <2> QED BY <2>2
<1> QED BY <1>4, <1>5, <1>6, <1>7 DEF Clears, t

\* destroy_tcp_queues calls destroy_pe_cpu_rss twice; it resets the pointer the first time.
LEMMA PeCleared ==
  ASSUME NEW q \in Queues
  PROVE  LET o  == <<<<"cpu", q>>, "pe">>
             pe == IfNull(Call("release", o, <<>>, "ignore"))
             s  == <<pe, IfNull(Release(o))>>
         IN  Clears(s, {o}) /\ Len(s) = 2 /\ <<pe>> \in Seq(PeDrops)
<1> PICK o : o = <<<<"cpu", q>>, "pe">>
  OBVIOUS
<1>1. o \in Objects /\ Family(o) = "cpu" /\ o[1] # App /\ o[2] = "pe" /\ Needs(o) = {}
  <2>1. o \in Objects /\ Family(o) = "cpu" /\ o[1] # App
    BY OwnersOK, IsObject DEF KindsOf, App
  <2> QED BY <2>1, NeedsOK
<1> PICK a, b : a = IfNull(Call("release", o, <<>>, "ignore")) /\ b = IfNull(Release(o))
  OBVIOUS
<1> DEFINE s == <<a, b>>
<1>2. /\ a \in DestroyCalls /\ a.op = "release" /\ a.on = o /\ a.undo = <<>> /\ a.otherwise = "ignore"
      /\ a.guard /\ a.nulls
  BY <1>1, CallOK, GuardedOK
<1>3. DestroyCall(a)
  BY <1>1, <1>2 DEF DestroyCall
<1>4. a \in PeDrops
  <2>1. a.guard = TRUE /\ a.nulls = TRUE
    BY <1>2 DEF DestroyCalls
  <2> QED BY <2>1, <1>1, <1>2 DEF DestroyCalls, PeDrops
<1>5. DestroyCall(b) /\ b \in DestroyCalls /\ b.op = "release" /\ b.on = o
  BY <1>1, ReleaseCalls
<1>6. s \in Seq(DestroyCalls) /\ DOMAIN s = 1..2 /\ Len(s) = 2 /\ Calls(s) = {a, b}
  BY <1>2, <1>5 DEF Calls
<1>7. DestroyOrder(a, b) /\ UsersFirst(a, b)
  BY <1>1, <1>2, <1>5 DEF DestroyOrder, UsersFirst, Devices
<1>8. DestroyFunction(s)
  BY <1>3, <1>5, <1>6, <1>7 DEF DestroyFunction
<1>9. \A c \in {a, b} : c.on \in {o} /\ Settles(c, o)
  BY <1>1, <1>2, <1>5 DEF Settles
<1>10. <<a>> \in Seq(PeDrops)
  BY <1>4
<1> HIDE DEF s
<1>11. Clears(s, {o})
  BY <1>6, <1>8, <1>9 DEF Clears
<1> QED BY <1>6, <1>10, <1>11 DEF s

\* Objects of one owner are destroyed in an order that follows Uses.
LEMMA BeforeKinds ==
  ASSUME NEW w \in Owners, w # App, NEW K \in SUBSET KindsOf(w[1]), NEW J \in SUBSET KindsOf(w[1]),
         \A k \in K, j \in J : k # j /\ ~Uses(j, k)
  PROVE  Before({<<w, k>> : k \in K}, {<<w, j>> : j \in J})
<1> SUFFICES ASSUME NEW k \in K, NEW j \in J
             PROVE  <<w, k>> # <<w, j>> /\ <<w, k>>[1] # App /\ <<w, k>> \notin Needs(<<w, j>>)
  BY DEF Before
<1>1. <<w, j>> \in Objects /\ k # j /\ ~Uses(j, k)
  BY IsObject
<1>2. <<w, k>> \notin Needs(<<w, j>>)
  BY <1>1, Users DEF Uses
<1> QED BY <1>1, <1>2

\* The CPU RSS queue of destroy_tcp_queues: Rxq, Txq and progress engine.
LEMMA CpuCleared ==
  ASSUME NEW q \in Queues
  PROVE  Clears(DestroyCpu(q), {<<<<"cpu", q>>, k>> : k \in KindsOf("cpu")}) /\ Len(DestroyCpu(q)) = 9
<1> PICK w : w = <<"cpu", q>>
  OBVIOUS
<1> DEFINE pe == IfNull(Call("release", <<w, "pe">>, <<>>, "ignore"))
           A == DestroyCpuRxq(w)
           T == DestroyCpuTxq(w)
           B == [i \in DOMAIN T |-> [T[i] EXCEPT !.undo = <<pe>>]]
           C == <<pe, IfNull(Release(<<w, "pe">>))>>
           R == {<<w, k>> : k \in {"rxq", "rx_map"}}
           X == {<<w, k>> : k \in {"txq", "pool", "tx_map"}}
           E == {<<w, k>> : k \in {"pe"}}
<1>1. DestroyCpu(q) = (A \o B) \o C
  BY DEF DestroyCpu
<1>2. /\ w \in Owners /\ w # App /\ w[1] = "cpu"
      /\ KindsOf("cpu") = {"pe", "txq", "pool", "tx_map", "rxq", "rx_map"}
  BY OwnersOK DEF App, KindsOf
<1>3. Clears(A, R) /\ Len(A) = 3
  BY CpuRxqCleared DEF DestroyCpuRxq
<1>4. Clears(T, X) /\ Len(T) = 4
  BY CpuTxqCleared DEF DestroyCpuTxq
<1>5. Clears(C, E) /\ Len(C) = 2 /\ <<pe>> \in Seq(PeDrops)
  BY PeCleared
<1> HIDE DEF A, T, C, pe
<1>6. Clears(B, X) /\ Len(B) = 4
  <2>1. \A o \in X : Family(o) = "cpu"
    BY <1>2 DEF Family
  <2> QED BY <2>1, <1>4, <1>5, UndoneCleared
<1> HIDE DEF B
<1>7. Before(R, X) /\ Before(R, E) /\ Before(X, E)
  BY <1>2, BeforeKinds DEF Uses
<1>8. Before(R \cup X, E)
  BY <1>7 DEF Before
<1> HIDE DEF R, X, E
<1>9. Clears(A \o B, R \cup X) /\ Len(A \o B) = 7
  <2>1. Clears(A \o B, R \cup X) /\ Len(A \o B) = Len(A) + Len(B)
    BY <1>3, <1>6, <1>7, DestroyCat
  <2> QED BY <2>1, <1>3, <1>6, <1>7
<1> DEFINE D == A \o B
<1>10. Clears(D, R \cup X) /\ Len(D) = 7
  BY <1>9
<1> HIDE DEF D
<1>11. Clears(D \o C, (R \cup X) \cup E) /\ Len(D \o C) = 9
  <2>1. Clears(D \o C, (R \cup X) \cup E) /\ Len(D \o C) = Len(D) + Len(C)
    BY <1>5, <1>8, <1>10, DestroyCat
  <2> QED BY <2>1, <1>5, <1>8, <1>10
<1>12. (R \cup X) \cup E = {<<w, k>> : k \in KindsOf("cpu")}
  BY <1>2 DEF R, X, E
<1> QED BY <1>1, <1>11, <1>12 DEF D

\* The queue of destroy_tcp_queues.
TcpObjects(q, http) ==
  {o \in Objects : o[1] = <<"tcp", q>> /\ (OfServer(o) => http)}
    \cup (IF http THEN {o \in Objects : o[1] = <<"cpu", q>>} ELSE {})

\* The whole queue of destroy_tcp_queues, with the HTTP server's part when there is a server.
LEMMA TcpQueueCleared ==
  ASSUME NEW q \in Queues
  PROVE  LET w == <<"tcp", q>>
             s == << If(Stop(<<w, "sem">>)), If(Release(<<w, "sem">>)), If(Stop(<<w, "rxctx">>)),
                     If(Stop(<<w, "mmap">>)), If(Release(<<w, "mmap">>)), If(Release(<<w, "mem">>)),
                     If(Release(<<w, "rxq">>)) >>
                  \o IF http_server
                     THEN DestroyCpu(q)
                          \o << If(Stop(<<w, "sem_http">>)), If(Release(<<w, "sem_http">>)),
                                If(Stop(<<w, "txctx">>)), If(Release(<<w, "txq">>)) >>
                     ELSE <<>>
         IN  Clears(s, TcpObjects(q, http_server)) /\ Len(s) = IF http_server THEN 20 ELSE 7
<1> PICK w : w = <<"tcp", q>>
  OBVIOUS
<1> DEFINE A == << If(Stop(<<w, "sem">>)), If(Release(<<w, "sem">>)), If(Stop(<<w, "rxctx">>)),
                   If(Stop(<<w, "mmap">>)), If(Release(<<w, "mmap">>)), If(Release(<<w, "mem">>)),
                   If(Release(<<w, "rxq">>)) >>
           C == DestroyCpu(q)
           T == << If(Stop(<<w, "sem_http">>)), If(Release(<<w, "sem_http">>)),
                   If(Stop(<<w, "txctx">>)), If(Release(<<w, "txq">>)) >>
           R == {<<w, k>> : k \in {"rxq", "rxctx", "mmap", "mem", "sem"}}
           X == {<<<<"cpu", q>>, k>> : k \in KindsOf("cpu")}
           H == {<<w, k>> : k \in {"sem_http", "txq", "txctx"}}
<1>1. /\ w \in Owners /\ w # App /\ w[1] = "tcp"
      /\ KindsOf(w[1]) = {"rxq", "rxctx", "mmap", "mem", "sem", "sem_http", "txq", "txctx"}
  BY OwnersOK DEF App, KindsOf
<1>2. Clears(A, R) /\ Len(A) = 7
  BY TcpCleared
<1>3. Clears(C, X) /\ Len(C) = 9
  BY CpuCleared
<1>4. Clears(T, H) /\ Len(T) = 4
  BY SendCleared
<1> HIDE DEF A, C, T
<1>5. Before(R, H)
  BY <1>1, BeforeKinds DEF Uses
<1>6. /\ R \subseteq Objects /\ X \subseteq Objects /\ H \subseteq Objects
      /\ \A o \in R \cup H : o[1] = w /\ Family(o) = "tcp"
      /\ \A o \in X : o[1] = <<"cpu", q>> /\ Family(o) = "cpu"
  <2>1. <<"cpu", q>> \in Owners /\ <<"cpu", q>>[1] = "cpu"
    BY OwnersOK
  <2> QED BY <2>1, <1>1, IsObject
<1>7. Before(R, X) /\ Before(X, H)
  <2>1. \A o \in R \cup H, x \in X : o[1] # x[1] /\ o[1] # App /\ x[1] # App
    BY <1>1, <1>6 DEF App, Family
  <2>2. R \in SUBSET Objects /\ X \in SUBSET Objects /\ H \in SUBSET Objects
    BY <1>6
  <2>3. (\A o \in R \cup H : Family(o) = "tcp") /\ (\A o \in X : Family(o) = "cpu")
    BY <1>6
  <2> HIDE DEF R, X, H
  <2>4. Before(R, X)
    BY <2>1, <2>2, <2>3, BeforeOwners
  <2>5. Before(X, H)
    BY <2>1, <2>2, <2>3, BeforeOwners
  <2> QED BY <2>4, <2>5
<1>8. {o \in Objects : o[1] = <<"cpu", q>>} = X
  BY <1>6, ObjectOK DEF Family
<1>9. \A o \in Objects : o[1] = w => o \in R \cup H
  <2> TAKE o \in Objects
  <2>1. o[1] = w => o = <<w, o[2]>> /\ o[2] \in KindsOf(w[1])
    BY ObjectOK DEF Family
  <2> QED BY <2>1, <1>1
<1>10. \A o \in R : ~OfServer(o)
  BY <1>1 DEF OfServer
<1>11. \A o \in H : OfServer(o)
  BY <1>1 DEF OfServer
<1> HIDE DEF R, X, H
<1>12. CASE http_server
  <2>1. Clears(C \o T, X \cup H) /\ Len(C \o T) = 13
    <3>1. Clears(C \o T, X \cup H) /\ Len(C \o T) = Len(C) + Len(T)
      BY <1>3, <1>4, <1>7, DestroyCat
    <3> QED BY <3>1, <1>3, <1>4, <1>7
  <2>2. Before(R, X \cup H)
    BY <1>5, <1>7 DEF Before
  <2> DEFINE D == C \o T
  <2>3. Clears(D, X \cup H) /\ Len(D) = 13
    BY <2>1
  <2> HIDE DEF D
  <2>4. Clears(A \o D, R \cup (X \cup H)) /\ Len(A \o D) = 20
    <3>1. Clears(A \o D, R \cup (X \cup H)) /\ Len(A \o D) = Len(A) + Len(D)
      BY <1>2, <2>2, <2>3, DestroyCat
    <3> QED BY <3>1, <1>2, <2>2, <2>3
  <2>5. TcpObjects(q, http_server) = R \cup (X \cup H)
    BY <1>6, <1>8, <1>9, <1>12 DEF TcpObjects
  <2> QED BY <1>12, <2>4, <2>5 DEF A, D, C, T
<1>13. CASE ~http_server
  <2>1. A \o <<>> = A
    BY <1>2 DEF Clears, DestroyFunction
  <2>2. TcpObjects(q, http_server) = R
    BY <1>6, <1>9, <1>10, <1>11, <1>13 DEF TcpObjects
  <2> QED BY <1>2, <1>13, <2>1, <2>2 DEF A
<1> QED BY <1>12, <1>13

FamiliesOf(f) == CASE f = "udp" -> {"udp"} [] f = "tcp" -> {"tcp", "cpu", "page"} [] f = "icmp" -> {"icmp"}

\* The objects of some families that are in use.
InUse(families, http) == {o \in Objects : Family(o) \in families /\ (OfServer(o) => http)}

\* Owners of different queues are different.
LEMMA ByOwners ==
  ASSUME NEW q \in Queues, NEW r \in Queues, q # r, NEW f \in {"udp", "tcp"}, NEW g \in {"udp", "tcp", "cpu"}
  PROVE  <<f, q>> # <<g, r>> /\ <<f, q>> # App
BY DEF App

\* destroy_udp_queues destroys the objects of the UDP queues.
LEMMA UdpDestroyed == Clears(DestroyUdp, InUse({"udp"}, http_server))
<1> DEFINE body == [q \in Queues |->
                      << If(Stop(<<<<"udp", q>>, "sem">>)), If(Release(<<<<"udp", q>>, "sem">>)),
                         Stop(<<<<"udp", q>>, "rxctx">>), Release(<<<<"udp", q>>, "rxq">>),
                         Release(<<<<"udp", q>>, "mmap">>), Release(<<<<"udp", q>>, "mem">>) >>]
           O == [q \in Queues |-> {<<<<"udp", q>>, k>> : k \in KindsOf("udp")}]
<1>1. DestroyUdp = ForEach(body)
  BY DEF DestroyUdp
<1>2. ASSUME NEW q \in Queues
      PROVE  /\ Clears(body[q], O[q]) /\ Len(body[q]) = 6 /\ body[q] \in Seq(DestroyCalls)
             /\ O[q] \subseteq Objects /\ \A o \in O[q] : o[1] = <<"udp", q>> /\ Family(o) = "udp"
  <2>1. Clears(body[q], O[q]) /\ Len(body[q]) = 6 /\ body[q] \in Seq(DestroyCalls)
    BY UdpCleared
  <2>2. O[q] \subseteq Objects /\ \A o \in O[q] : o[1] = <<"udp", q>> /\ Family(o) = "udp"
    <3>1. <<"udp", q>> \in Owners /\ <<"udp", q>>[1] = "udp"
      BY OwnersOK
    <3> QED BY <3>1, IsObject
  <2> QED BY <2>1, <2>2
<1>3. body = [q \in Queues |-> body[q]] /\ UNION {O[q] : q \in Queues} = InUse({"udp"}, http_server)
  <2>1. ASSUME NEW o \in Objects, Family(o) = "udp" PROVE \E q \in Queues : o \in O[q]
    BY <2>1, ObjectOK
  <2>2. \A o \in Objects : Family(o) = "udp" => ~OfServer(o)
    BY DEF OfServer, Family
  <2>3. \A q \in Queues : \A o \in O[q] : o \in Objects /\ Family(o) = "udp"
    BY <1>2
  <2> HIDE DEF O
  <2> QED BY <2>1, <2>2, <2>3 DEF InUse
<1> HIDE DEF body, O
<1>4. ASSUME NEW q \in Queues, NEW r \in Queues, q # r PROVE Before(O[q], O[r])
  <2>1. \A o \in O[q], x \in O[r] : o[1] # App /\ o[1] # x[1] /\ Family(o) = "udp"
    BY <1>2, <1>4, ByOwners
  <2> QED BY <2>1, <1>2, BeforeOwners
<1>5. body \in [Queues -> Seq(DestroyCalls)]
  BY <1>2, <1>3
<1>6. Clears(ForEach(body), UNION {O[q] : q \in Queues})
  <2>1. /\ 6 \in Nat /\ 6 > 0 /\ \A q \in Queues : Len(body[q]) = 6 /\ Clears(body[q], O[q])
        /\ \A q, r \in Queues : q # r => Before(O[q], O[r])
    BY <1>2, <1>4
  <2> QED BY <2>1, <1>5, DestroyEach
<1> QED BY <1>1, <1>3, <1>6

\* destroy_icmp_queues destroys the objects of the ICMP queue.
LEMMA IcmpDestroyed == Clears(DestroyIcmp, InUse({"icmp"}, http_server))
<1>1. Clears(DestroyIcmp, {<<<<"icmp", "0">>, k>> : k \in KindsOf("icmp")})
  BY IcmpCleared DEF DestroyIcmp
<1>2. {<<<<"icmp", "0">>, k>> : k \in KindsOf("icmp")} = InUse({"icmp"}, http_server)
  <2>1. \A k \in KindsOf("icmp") : <<<<"icmp", "0">>, k>> \in Objects /\ Family(<<<<"icmp", "0">>, k>>) = "icmp"
    BY OwnersOK, IsObject
  <2>2. \A o \in Objects : Family(o) = "icmp" => ~OfServer(o) /\ o[1] = <<"icmp", "0">> /\ o[2] \in KindsOf("icmp")
    BY ObjectOK DEF OfServer, Family
  <2>3. \A o \in Objects : o = <<o[1], o[2]>>
    BY ObjectOK
  <2> QED BY <2>1, <2>2, <2>3 DEF InUse
<1> QED BY <1>1, <1>2

\* The three calls of destroy_tx_buf destroy the pages.
LEMMA PagesDestroyed ==
  Clears((DestroyTxBuf("index") \o DestroyTxBuf("contacts")) \o DestroyTxBuf("not_found"),
         {o \in Objects : Family(o) = "page"})
<1> DEFINE O == [p \in Pages |-> {<<<<"page", p>>, k>> : k \in KindsOf("page")}]
<1>1. ASSUME NEW p \in Pages
      PROVE  /\ Clears(DestroyTxBuf(p), O[p])
             /\ O[p] \subseteq Objects /\ \A o \in O[p] : o[1] = <<"page", p>> /\ Family(o) = "page"
  <2>1. Clears(DestroyTxBuf(p), O[p])
    BY PageCleared DEF DestroyTxBuf
  <2>2. O[p] \subseteq Objects /\ \A o \in O[p] : o[1] = <<"page", p>> /\ Family(o) = "page"
    BY OwnersOK, IsObject DEF KindsOf
  <2> QED BY <2>1, <2>2
<1>2. "index" \in Pages /\ "contacts" \in Pages /\ "not_found" \in Pages /\ Pages = {"index", "contacts", "not_found"}
  BY DEF Pages
<1>3. {o \in Objects : Family(o) = "page"} = (O["index"] \cup O["contacts"]) \cup O["not_found"]
  <2>1. ASSUME NEW o \in Objects, Family(o) = "page" PROVE \E p \in Pages : o \in O[p]
    <3>1. PICK p \in Pages : o[1] = <<"page", p>>
      BY <2>1, ObjectOK
    <3>2. o = <<<<"page", p>>, o[2]>> /\ o[2] \in KindsOf("page")
      BY <2>1, <3>1, ObjectOK
    <3> QED BY <3>2
  <2>2. \A p \in Pages : \A o \in O[p] : o \in Objects /\ Family(o) = "page"
    BY <1>1
  <2> HIDE DEF O
  <2> QED BY <2>1, <2>2, <1>2
<1> HIDE DEF O
<1>4. ASSUME NEW p \in Pages, NEW r \in Pages, p # r PROVE Before(O[p], O[r])
  <2>1. \A o \in O[p], x \in O[r] : o[1] # App /\ o[1] # x[1] /\ Family(x) = "page"
    BY <1>1, <1>4 DEF App
  <2> QED BY <2>1, <1>1, BeforeOwners
<1> DEFINE D == DestroyTxBuf("index") \o DestroyTxBuf("contacts")
<1>5. Clears(D, O["index"] \cup O["contacts"])
  BY <1>1, <1>2, <1>4, DestroyCat
<1>6. Before(O["index"] \cup O["contacts"], O["not_found"])
  BY <1>2, <1>4 DEF Before
<1> HIDE DEF D
<1>7. Clears(D \o DestroyTxBuf("not_found"), (O["index"] \cup O["contacts"]) \cup O["not_found"])
  BY <1>1, <1>2, <1>5, <1>6, DestroyCat
<1> QED BY <1>3, <1>7 DEF D

\* destroy_tcp_queues destroys the objects of the TCP queues, and of the server if there is
\* one.
LEMMA TcpDestroyed == Clears(DestroyTcp, InUse({"tcp", "cpu", "page"}, http_server))
<1> DEFINE Queue(q) ==
             << If(Stop(<<<<"tcp", q>>, "sem">>)), If(Release(<<<<"tcp", q>>, "sem">>)), If(Stop(<<<<"tcp", q>>, "rxctx">>)),
                If(Stop(<<<<"tcp", q>>, "mmap">>)), If(Release(<<<<"tcp", q>>, "mmap">>)), If(Release(<<<<"tcp", q>>, "mem">>)),
                If(Release(<<<<"tcp", q>>, "rxq">>)) >>
               \o IF http_server
                  THEN DestroyCpu(q)
                       \o << If(Stop(<<<<"tcp", q>>, "sem_http">>)), If(Release(<<<<"tcp", q>>, "sem_http">>)),
                             If(Stop(<<<<"tcp", q>>, "txctx">>)), If(Release(<<<<"tcp", q>>, "txq">>)) >>
                  ELSE <<>>
           body == [q \in Queues |-> Queue(q)]
           O == [q \in Queues |-> TcpObjects(q, http_server)]
           M == IF http_server THEN 20 ELSE 7
           D == (DestroyTxBuf("index") \o DestroyTxBuf("contacts")) \o DestroyTxBuf("not_found")
           P == {o \in Objects : Family(o) = "page"}
<1>1. DestroyTcp = ForEach(body) \o IF http_server THEN D ELSE <<>>
  BY DEF DestroyTcp
<1>2. ASSUME NEW q \in Queues
      PROVE  /\ Clears(body[q], O[q]) /\ Len(body[q]) = M /\ body[q] \in Seq(DestroyCalls)
             /\ O[q] \subseteq Objects
             /\ \A o \in O[q] : (o[1] = <<"tcp", q>> \/ o[1] = <<"cpu", q>>) /\ Family(o) \in {"tcp", "cpu"}
  <2>1. Clears(body[q], O[q]) /\ Len(body[q]) = M
    BY TcpQueueCleared
  <2> HIDE DEF body
  <2>2. body[q] \in Seq(DestroyCalls)
    BY <2>1 DEF Clears, DestroyFunction
  <2>3. O[q] \subseteq Objects
    BY DEF TcpObjects
  <2>4. \A o \in O[q] : (o[1] = <<"tcp", q>> \/ o[1] = <<"cpu", q>>) /\ Family(o) \in {"tcp", "cpu"}
    BY DEF TcpObjects, Family
  <2> QED BY <2>1, <2>2, <2>3, <2>4
<1>3. UNION {O[q] : q \in Queues} = InUse({"tcp", "cpu"}, http_server)
  <2>1. ASSUME NEW o \in Objects, Family(o) \in {"tcp", "cpu"}
        PROVE  \E q \in Queues : o[1] = <<Family(o), q>>
    BY <2>1, ObjectOK
  <2>2. \A o \in Objects : /\ Family(o) = "cpu" => OfServer(o)
                           /\ \A q \in Queues : /\ o[1] = <<"cpu", q>> => Family(o) = "cpu"
                                                /\ o[1] = <<"tcp", q>> => Family(o) = "tcp"
    BY DEF OfServer, Family
  <2> QED BY <2>1, <2>2 DEF InUse, TcpObjects
<1>4. body = [q \in Queues |-> body[q]] /\ M \in Nat /\ M > 0
  OBVIOUS
<1>5. Clears(D, P)
  BY PagesDestroyed
<1> HIDE DEF body, O, D, M
<1>6. ASSUME NEW q \in Queues, NEW r \in Queues, q # r PROVE Before(O[q], O[r])
  <2>1. \A o \in O[q], x \in O[r] : o[1] # App /\ o[1] # x[1] /\ Family(o) # "page"
    BY <1>2, <1>6 DEF App
  <2> QED BY <2>1, <1>2, BeforeOwners
<1>7. body \in [Queues -> Seq(DestroyCalls)]
  BY <1>2, <1>4
<1>8. Clears(ForEach(body), InUse({"tcp", "cpu"}, http_server))
  BY <1>2, <1>3, <1>4, <1>6, <1>7, DestroyEach
<1>9. CASE http_server
  <2>1. Before(InUse({"tcp", "cpu"}, http_server), P)
    <3>1. \A o \in InUse({"tcp", "cpu"}, http_server), x \in P :
             o[1] # App /\ o[1] # x[1] /\ Family(o) # "page"
      BY DEF InUse, Family, App
    <3>2. InUse({"tcp", "cpu"}, http_server) \in SUBSET Objects /\ P \in SUBSET Objects
      BY DEF InUse
    <3> HIDE DEF P
    <3> QED BY <3>1, <3>2, BeforeOwners
  <2>2. InUse({"tcp", "cpu", "page"}, http_server) = InUse({"tcp", "cpu"}, http_server) \cup P
    BY <1>9 DEF InUse
  <2> HIDE DEF P
  <2>3. Clears(ForEach(body) \o D, InUse({"tcp", "cpu"}, http_server) \cup P)
    BY <2>1, <1>5, <1>8, DestroyCat
  <2> QED BY <1>1, <1>9, <2>2, <2>3
<1>10. CASE ~http_server
  <2>1. ForEach(body) \o <<>> = ForEach(body)
    BY <1>8 DEF Clears, DestroyFunction
  <2>2. InUse({"tcp", "cpu", "page"}, http_server) = InUse({"tcp", "cpu"}, http_server)
    BY <1>10 DEF InUse, OfServer, Family
  <2> QED BY <1>1, <1>8, <1>10, <2>1, <2>2
<1> QED BY <1>9, <1>10

\* What a function that destroys frees is what it is to free, users before memory.
Frees(s, families) ==
  /\ DestroyFunction(s) /\ s # <<>>
  /\ \A c \in Calls(s) : Family(c.on) \in families
  /\ \A c \in Calls(s) : c.op = "release" =>
       \A o \in Objects : c.on \in Needs(o) /\ (OfServer(o) => http_server) =>
         \E d \in Calls(s) : d.on = o /\ d.op \in {"stop", "release"}
  /\ \A o \in Objects : Family(o) \in families /\ (OfServer(o) => http_server) =>
       \E c \in Calls(s) : Settles(c, o)

\* What a function clears is what the actions of main expect of it.
LEMMA ClearsFrees ==
  ASSUME NEW s, NEW families \in {{"udp"}, {"icmp"}, {"tcp", "cpu", "page"}},
         Clears(s, InUse(families, http_server))
  PROVE  Frees(s, families)
<1>1. /\ DestroyFunction(s)
      /\ \A c \in Calls(s) : c.on \in Objects /\ Family(c.on) \in families
      /\ \A o \in Objects : Family(o) \in families /\ (OfServer(o) => http_server) => \E c \in Calls(s) : Settles(c, o)
  BY DEF Clears, InUse
<1>2. s # <<>>
  <2> PICK o \in Objects : Family(o) \in families /\ ~OfServer(o)
    <3>1. PICK q : q \in Queues
      BY QueueAssumption
    <3>2. PICK w \in Owners : w[1] \in families /\ w[1] \in {"udp", "tcp", "icmp"}
      BY <3>1, OwnersOK
    <3>3. "mem" \in KindsOf(w[1])
      BY <3>2 DEF KindsOf
    <3>4. <<w, "mem">> \in Objects /\ Family(<<w, "mem">>) = w[1]
      BY <3>3, IsObject
    <3>5. ~OfServer(<<w, "mem">>)
      BY <3>2 DEF OfServer
    <3> QED BY <3>2, <3>4, <3>5
  <2>1. Calls(s) # {}
    BY <1>1
  <2> QED BY <2>1 DEF Calls
<1>3. ASSUME NEW c \in Calls(s), c.op = "release", NEW o \in Objects, c.on \in Needs(o), OfServer(o) => http_server
      PROVE  \E d \in Calls(s) : d.on = o /\ d.op \in {"stop", "release"}
  <2>1. Family(c.on) \in families /\ (Family(c.on) = Family(o) \/ (Family(o) = "tcp" /\ Family(c.on) = "page"))
        /\ Family(c.on) # "app"
    BY <1>1, <1>3, NeedsOK
  <2>2. Family(o) \in families /\ Family(o) # "app"
    BY <2>1
  <2>3. PICK d \in Calls(s) : Settles(d, o)
    BY <1>1, <1>3, <2>2
  <2>4. DestroyCall(d)
    BY <1>1 DEF DestroyFunction, Calls
  <2>5. d.op # "end"
    BY <2>2, <2>3, <2>4 DEF DestroyCall, Settles, App, Family
  <2> QED BY <2>3, <2>5 DEF Settles
<1> QED BY <1>1, <1>2, <1>3 DEF Frees

\* The function main calls when the creation of a protocol fails is in order and leaves
\* nothing.
LEMMA DestroyCode ==
  ASSUME NEW f \in Protocols
  PROVE  Frees(DestroyOf(f), FamiliesOf(f))
<1>1. CASE f = "udp"
  BY <1>1, UdpDestroyed, ClearsFrees DEF DestroyOf, FamiliesOf
<1>2. CASE f = "tcp"
  BY <1>2, TcpDestroyed, ClearsFrees DEF DestroyOf, FamiliesOf
<1>3. CASE f = "icmp"
  BY <1>3, IcmpDestroyed, ClearsFrees DEF DestroyOf, FamiliesOf
<1> QED BY <1>1, <1>2, <1>3 DEF Protocols

\* The last two functions of main: the flow port, then the progress engine and the devices.
LEMMA AppCleared ==
  /\ Clears(DestroyFlow, {<<App, "flow">>}) /\ Clears(DestroyApp, Devices)
  /\ Devices \cup {<<App, "flow">>} = {o \in Objects : Family(o) = "app"}
<1>1. /\ \A k \in {"dev", "gpu", "flow", "pe"} : <<App, k>> \in Objects /\ Family(<<App, k>>) = "app" /\ Needs(<<App, k>>) = {}
  <2>1. \A k \in {"dev", "gpu", "flow", "pe"} : <<App, k>> \in Objects /\ Family(<<App, k>>) = "app"
    BY OwnersOK, IsObject DEF KindsOf, App
  <2>2. \A k \in {"dev", "gpu", "flow", "pe"} : Needs(<<App, k>>) = {}
    BY DEF Needs, App
  <2> QED BY <2>1, <2>2
<1>2. ASSUME NEW o \in Objects, Family(o) = "app" PROVE o \in Devices \cup {<<App, "flow">>}
  BY <1>2, ObjectOK, KindsOK DEF Devices
<1>3. Devices \cup {<<App, "flow">>} = {o \in Objects : Family(o) = "app"}
  BY <1>1, <1>2 DEF Devices
<1>4. Clears(DestroyFlow, {<<App, "flow">>})
  <2> PICK c : c = Call("end", <<App, "flow">>, <<>>, "ignore")
    OBVIOUS
  <2>1. /\ c \in DestroyCalls /\ c.op = "end" /\ c.on = <<App, "flow">> /\ c.undo = <<>> /\ c.otherwise = "ignore"
    BY <1>1, CallOK
  <2>2. DestroyCall(c) /\ Settles(c, <<App, "flow">>)
    BY <1>1, <2>1 DEF DestroyCall, Settles
  <2>3. DestroyFlow = <<c>>
    BY DEF DestroyFlow
  <2> PICK s : s = <<c>>
    OBVIOUS
  <2>4. s \in Seq(DestroyCalls) /\ DOMAIN s = {1} /\ s[1] = c
    BY <2>1
  <2>5. DestroyFunction(s) /\ Calls(s) = {c}
    BY <2>2, <2>4 DEF DestroyFunction, Calls
  <2> QED BY <2>1, <2>2, <2>3, <2>5 DEF Clears
<1>5. Clears(DestroyApp, Devices)
  <2> PICK a, b, c : a = Release(<<App, "gpu">>) /\ b = Release(<<App, "pe">>) /\ c = Release(<<App, "dev">>)
    OBVIOUS
  <2>1. /\ a.op = "release" /\ a.on = <<App, "gpu">> /\ b.op = "release" /\ b.on = <<App, "pe">>
        /\ c.op = "release" /\ c.on = <<App, "dev">>
        /\ \A d \in {a, b, c} : DestroyCall(d) /\ d \in DestroyCalls
    BY <1>1, ReleaseCalls
  <2>2. DestroyApp = <<a, b, c>>
    BY DEF DestroyApp
  <2> DEFINE s == <<a, b, c>>
  <2>3. s \in Seq(DestroyCalls) /\ DOMAIN s = 1..3 /\ \A n \in 1..3 : s[n] \in {a, b, c}
    BY <2>1
  <2>4. \A n, m \in 1..3 : n < m => s[n].on # s[m].on
    BY <2>1
  <2>5. \A d \in {a, b, c} : d.on[1] = App /\ Needs(d.on) = {} /\ d.on \in Devices
    BY <1>1, <2>1 DEF Devices
  <2>6. Calls(s) = {a, b, c}
    BY <2>3 DEF Calls
  <2>7. \A o \in Devices : \E d \in {a, b, c} : Settles(d, o)
    BY <2>1 DEF Devices, Settles
  <2> HIDE DEF s
  <2>8. DestroyFunction(s)
    BY <2>1, <2>3, <2>4, <2>5 DEF DestroyFunction, DestroyOrder, UsersFirst
  <2>9. Clears(s, Devices)
    BY <2>5, <2>6, <2>7, <2>8 DEF Clears
  <2> QED BY <2>2, <2>9 DEF s
<1> QED BY <1>3, <1>4, <1>5

\* The functions main calls at its end are in order, and settle every object in use.
LEMMA DestroyAllCode ==
  LET p == <<DestroyFlow, DestroyIcmp, DestroyUdp, DestroyTcp, DestroyApp>>
  IN  /\ DestroyPlan(p)
      /\ \A i \in DOMAIN p : \A c \in Calls(p[i]) : c.op = "release" =>
           \A o \in Objects : c.on \in Needs(o) /\ (OfServer(o) => http_server) =>
             \E d \in Calls(p[i]) : d.on = o /\ d.op \in {"stop", "release"}
      /\ \A o \in Objects : (OfServer(o) => http_server) => \E c \in AllCalls(p) : Settles(c, o)
<1> PICK F, I, U, T, A : F = DestroyFlow /\ I = DestroyIcmp /\ U = DestroyUdp /\ T = DestroyTcp /\ A = DestroyApp
  OBVIOUS
<1> DEFINE p == <<F, I, U, T, A>>
<1> PICK tcp : tcp = {"tcp", "cpu", "page"}
  OBVIOUS
<1>1. /\ Clears(F, {<<App, "flow">>}) /\ Clears(A, Devices)
      /\ Devices \cup {<<App, "flow">>} = {o \in Objects : Family(o) = "app"}
  BY AppCleared
<1>2. /\ Clears(I, InUse({"icmp"}, http_server)) /\ Clears(U, InUse({"udp"}, http_server))
      /\ Clears(T, InUse(tcp, http_server))
  BY IcmpDestroyed, UdpDestroyed, TcpDestroyed
<1>3. Frees(I, {"icmp"}) /\ Frees(U, {"udp"}) /\ Frees(T, tcp)
  BY <1>2, ClearsFrees
<1>4. F # <<>> /\ A # <<>> /\ \A s \in {F, I, U, T, A} : DestroyFunction(s)
  BY <1>1, <1>2 DEF Clears, DestroyFlow, DestroyApp
<1>5. \A s \in {F, I, U, T, A} : s # <<>> /\ s \in Seq(DestroyCalls) /\ DestroyFunction(s)
  BY <1>3, <1>4 DEF Frees, DestroyFunction
<1>6. /\ \A c \in Calls(F) : c.on = <<App, "flow">>
      /\ \A c \in Calls(I) : Family(c.on) = "icmp"
      /\ \A c \in Calls(U) : Family(c.on) = "udp"
      /\ \A c \in Calls(T) : Family(c.on) \in {"tcp", "cpu", "page"}
      /\ \A c \in Calls(A) : c.on \in Devices
  BY <1>1, <1>2 DEF Clears, InUse
<1>7. DOMAIN p = 1..5 /\ p \in Seq(Seq(DestroyCalls)) /\ \A i \in 1..5 : p[i] \in {F, I, U, T, A}
  BY <1>5
<1>8. ASSUME NEW i \in 1..5, NEW j \in 1..5, i < j, NEW c \in Calls(p[i]), NEW d \in Calls(p[j])
      PROVE  DestroyOrder(c, d)
  <2>1. \A k \in {"gpu", "pe", "dev", "flow"} : Family(<<App, k>>) = "app" /\ <<App, k>>[1] = App
    BY DEF Family, App
  <2>2. c.on # d.on /\ c.on \notin Devices
    BY <2>1, <1>6, <1>8 DEF Devices
  <2> QED BY <2>2 DEF DestroyOrder
<1>9. DestroyPlan(p)
  <2> HIDE DEF p
  <2> QED BY <1>5, <1>7, <1>8 DEF DestroyPlan
<1>10. ASSUME NEW s \in {F, I, U, T, A}, NEW c \in Calls(s), c.op = "release",
              NEW o \in Objects, c.on \in Needs(o), OfServer(o) => http_server
       PROVE  \E d \in Calls(s) : d.on = o /\ d.op \in {"stop", "release"}
  <2>1. CASE s \in {I, U, T}
    BY <2>1, <1>3, <1>10 DEF Frees
  <2>2. CASE s \in {F, A}
    <3>1. Family(c.on) = "app"
      BY <2>2, <1>6 DEF Devices, Family, App
    <3> QED BY <3>1, <1>10, NeedsOK
  <2> QED BY <2>1, <2>2
<1>11. ASSUME NEW o \in Objects, OfServer(o) => http_server
       PROVE  \E s \in {F, I, U, T, A} : \E c \in Calls(s) : Settles(c, o)
  <2>1. CASE Family(o) = "app"
    BY <2>1, <1>1 DEF Clears
  <2>2. CASE Family(o) # "app"
    <3>1. Family(o) = "icmp" \/ Family(o) = "udp" \/ Family(o) \in tcp
      BY <2>2, ObjectOK DEF AllFamilies
    <3> QED BY <3>1, <1>3, <1>11 DEF Frees
  <2> QED BY <2>1, <2>2
<1>12. \A s \in {F, I, U, T, A} : Calls(s) \subseteq AllCalls(p)
  BY <1>7 DEF AllCalls
<1>13. \A o \in Objects : (OfServer(o) => http_server) => \E c \in AllCalls(p) : Settles(c, o)
  BY <1>11, <1>12
<1>14. \A i \in DOMAIN p : \A c \in Calls(p[i]) : c.op = "release" =>
           \A o \in Objects : c.on \in Needs(o) /\ (OfServer(o) => http_server) =>
             \E d \in Calls(p[i]) : d.on = o /\ d.op \in {"stop", "release"}
  <2> HIDE DEF p
  <2> QED BY <1>7, <1>10
<1> QED BY <1>9, <1>13, <1>14
-----------------------------------------------------------------------------
(* The functions that create, as they are in the code.                     *)

\* The calls C create the objects O and no others, and start what can be started.
Creates(c, o) == c.on = o /\ c.op \in IF Startable(o) THEN {"start"} ELSE {"make", "nest"}
Creation(C, O) ==
  /\ \A c \in C : CreateCall(c) /\ c.on \in O /\ \A k \in DOMAIN c.undo : c.undo[k].on \in O
  /\ \A o \in O : \E c \in C : Creates(c, o)
  /\ \A c \in C : c.op = "start" => \E d \in C : d.op \in {"make", "nest"} /\ d.on = c.on

Part(s, O)  == CreateFunction(s) /\ s # <<>> /\ Creation(Calls(s), O)
Parts(p, O) == CreatePlan(p) /\ Creation(AllCalls(p), O)

\* Objects that are created before others, and no call of which opens a stage.
Apart(O, X) == \A o \in O, x \in X : o # x /\ o \notin Needs(x) /\ (x \in Needs(o) => Family(x) = "page")
Quiet(C)    == \A c \in C, f \in Protocols : ~Opens(c, f)

\* The calls that create two sets of objects create their union.
LEMMA CreationOfBoth ==
  ASSUME NEW C, NEW D, NEW O, NEW X, Creation(C, O), Creation(D, X)
  PROVE  Creation(C \cup D, O \cup X)
BY DEF Creation

\* Calls that open no stage have the rank of their family.
LEMMA QuietRank ==
  ASSUME NEW c, NEW d, c.on \in Objects, d.on \in Objects,
         \/ Stage(Family(c.on)) < Stage(Family(d.on))
         \/ Stage(Family(c.on)) = Stage(Family(d.on)) /\ \A f \in Protocols : ~Opens(d, f)
  PROVE  Rank(c) <= Rank(d)
<1>1. /\ Family(c.on) \in AllFamilies /\ Family(d.on) \in AllFamilies
  BY ObjectOK
<1>2. /\ Stage(Family(c.on)) \in {0, 2, 4, 6} /\ Stage(Family(d.on)) \in {0, 2, 4, 6}
  BY <1>1, StageOK DEF AllFamilies
<1>3. /\ Rank(c) = Stage(Family(c.on)) \/ Rank(c) = Stage(Family(c.on)) + 1
      /\ Rank(d) = Stage(Family(d.on)) \/ Rank(d) = Stage(Family(d.on)) + 1
      /\ (\A f \in Protocols : ~Opens(d, f)) => Rank(d) = Stage(Family(d.on)) + 1
  BY RankOK
<1> QED BY <1>2, <1>3

\* Calls on objects that are apart may follow each other.
LEMMA ApartCalls ==
  ASSUME NEW c, NEW d, CreateCall(c), CreateCall(d), NEW O, NEW X, Apart(O, X),
         c.on \in O, d.on \in X, \A k \in DOMAIN c.undo : c.undo[k].on \in O,
         \A k \in DOMAIN d.undo : d.undo[k].on \in X, Rank(c) <= Rank(d)
  PROVE  CreateApart(c, d)
<1>1. /\ c.op \in {"make", "nest", "set", "start"} /\ d.op \in {"make", "nest", "set", "start"}
      /\ d.op = "nest" => Family(d.on) = "cpu"
      /\ \A k \in DOMAIN d.undo : Family(d.undo[k].on) = "cpu"
  <2>1. \A k \in DOMAIN d.undo : d.undo[k] \in Calls(d.undo)
    BY DEF Calls
  <2> QED BY <2>1, UndoCalls DEF CreateCall, CreateCalls
<1>2. c.on # d.on /\ (d.on \in Needs(c.on) => Family(d.on) = "page")
  BY DEF Apart
<1>3. \A k \in DOMAIN d.undo : d.undo[k].on \notin Needs(c.on)
  BY <1>1 DEF Apart
<1>4. CreateOrder(c, d)
  BY <1>1, <1>2, <1>3 DEF CreateOrder
<1>5. d.on \notin Touched(c)
  BY DEF Apart, Touched
<1>6. Needs(d.on) \cap {c.undo[k].on : k \in DOMAIN c.undo} = {}
  BY DEF Apart
<1> QED BY <1>1, <1>4, <1>5, <1>6 DEF CreateApart

\* Two halves of a function that no call leaves.
Halves(s, t, O, X) ==
  /\ Part(s, O) /\ Part(t, X) /\ Apart(O, X) /\ Quiet(Calls(t))
  /\ \A o \in O, x \in X : Stage(Family(o)) = Stage(Family(x))
  /\ \A c \in Calls(s) : c.otherwise # "leave"
  /\ \A c \in Calls(t) : c.otherwise # "leave"

\* Two halves in sequence are one function.
LEMMA HalvesOK ==
  ASSUME NEW s, NEW t, NEW O, NEW X, Halves(s, t, O, X)
  PROVE  Part(s \o t, O \cup X) /\ Calls(s \o t) = Calls(s) \cup Calls(t)
<1> DEFINE S == CreateCalls \cup Drops
           u == s \o t
<1>h. /\ Part(s, O) /\ Part(t, X) /\ Apart(O, X) /\ Quiet(Calls(t))
      /\ \A o \in O, x \in X : Stage(Family(o)) = Stage(Family(x))
      /\ \A c \in Calls(s) \cup Calls(t) : c.otherwise # "leave"
  BY DEF Halves
<1> USE <1>h
<1>1. /\ s \in Seq(S) /\ t \in Seq(S) /\ CreateFunction(s) /\ CreateFunction(t)
      /\ Creation(Calls(s), O) /\ Creation(Calls(t), X) /\ s # <<>>
  BY DEF Part, CreateFunction
<1> HIDE DEF S
<1>a. Joined(S, s, t, u)
  BY <1>1, CatCalls
<1>2. /\ u \in Seq(S) /\ Calls(u) = Calls(s) \cup Calls(t)
      /\ \A n, m \in DOMAIN u : n < m =>
           \/ \E i, j \in DOMAIN s : i < j /\ u[n] = s[i] /\ u[m] = s[j]
           \/ \E i, j \in DOMAIN t : i < j /\ u[n] = t[i] /\ u[m] = t[j]
           \/ u[n] \in Calls(s) /\ u[m] \in Calls(t)
  BY <1>a DEF Joined
<1> HIDE DEF u
<1>3. Creation(Calls(u), O \cup X)
  BY <1>1, <1>2, CreationOfBoth
<1>4. \A n \in DOMAIN u : u[n] \in Calls(u) /\ CreateCall(u[n]) /\ u[n].op # "release" /\ u[n].otherwise # "leave"
  <2> TAKE n \in DOMAIN u
  <2>1. u[n] \in Calls(u)
    BY DEF Calls
  <2>2. CreateCall(u[n])
    BY <2>1, <1>3 DEF Creation
  <2> QED BY <2>1, <2>2, <1>2 DEF CreateCall, CreateCalls
<1>5. ASSUME NEW n \in DOMAIN u, NEW m \in DOMAIN u, n < m PROVE CreateOrder(u[n], u[m])
  <2>1. CASE \E i, j \in DOMAIN s : i < j /\ u[n] = s[i] /\ u[m] = s[j]
    BY <2>1, <1>1 DEF CreateFunction
  <2>2. CASE \E i, j \in DOMAIN t : i < j /\ u[n] = t[i] /\ u[m] = t[j]
    BY <2>2, <1>1 DEF CreateFunction
  <2>3. CASE u[n] \in Calls(s) /\ u[m] \in Calls(t)
    <3> PICK c \in Calls(s), d \in Calls(t) : c = u[n] /\ d = u[m]
      BY <2>3
    <3>1. /\ CreateCall(c) /\ c.on \in O /\ \A k \in DOMAIN c.undo : c.undo[k].on \in O
          /\ CreateCall(d) /\ d.on \in X /\ \A k \in DOMAIN d.undo : d.undo[k].on \in X
          /\ \A f \in Protocols : ~Opens(d, f)
      BY <1>1 DEF Creation, Quiet
    <3>2. c.on \in Objects /\ d.on \in Objects
      BY <3>1, UndoCalls
    <3>3. Rank(c) <= Rank(d)
      BY <3>1, <3>2, QuietRank
    <3> QED BY <3>1, <3>3, ApartCalls DEF CreateApart
  <2> QED BY <1>2, <1>5, <2>1, <2>2, <2>3
<1>6. CreateFunction(u)
  BY <1>2, <1>4, <1>5 DEF CreateFunction, CreateTogether, S
<1>7. u # <<>>
  <2>1. 1 \in DOMAIN s
    BY <1>1
  <2>2. s[1] \in Calls(s)
    BY <2>1 DEF Calls
  <2>3. Calls(<<>>) = {}
    BY DEF Calls
  <2> QED BY <2>2, <2>3, <1>2
<1> QED BY <1>2, <1>3, <1>6, <1>7 DEF Part, u

\* Functions one after the other.
LEMMA AllCallsOf ==
  ASSUME NEW p
  PROVE  AllCalls(p) = UNION {Calls(s) : s \in Calls(p)}
BY DEF AllCalls, Calls

\* One function is a plan.
LEMMA OnePart ==
  ASSUME NEW s, NEW O, Part(s, O)
  PROVE  Parts(<<s>>, O) /\ AllCalls(<<s>>) = Calls(s)
<1> DEFINE S == CreateCalls \cup Drops
<1> PICK p : p = <<s>>
  OBVIOUS
<1>1. CreateFunction(s) /\ s \in Seq(S) /\ s # <<>>
  BY DEF Part, CreateFunction
<1> HIDE DEF S
<1>2. p \in Seq(Seq(S)) /\ DOMAIN p = {1} /\ p[1] = s
  BY <1>1
<1>3. CreatePlan(p)
  BY <1>1, <1>2 DEF CreatePlan, S
<1>4. AllCalls(p) = Calls(s)
  BY <1>2 DEF AllCalls
<1> QED BY <1>3, <1>4 DEF Part, Parts

\* A plan may be followed by another when their calls are apart.
LEMMA PlanCat ==
  ASSUME NEW p, NEW r, CreatePlan(p), CreatePlan(r),
         \A c \in AllCalls(p), d \in AllCalls(r) : CreateApart(c, d)
  PROVE  CreatePlan(p \o r) /\ AllCalls(p \o r) = AllCalls(p) \cup AllCalls(r)
<1> DEFINE S == CreateCalls \cup Drops
           u == p \o r
<1>1. p \in Seq(Seq(S)) /\ r \in Seq(Seq(S))
  BY DEF CreatePlan
<1> HIDE DEF S
<1>a. Joined(Seq(S), p, r, u)
  BY <1>1, CatCalls
<1>2. /\ u \in Seq(Seq(S)) /\ Calls(u) = Calls(p) \cup Calls(r)
      /\ \A n, m \in DOMAIN u : n < m =>
           \/ \E i, j \in DOMAIN p : i < j /\ u[n] = p[i] /\ u[m] = p[j]
           \/ \E i, j \in DOMAIN r : i < j /\ u[n] = r[i] /\ u[m] = r[j]
           \/ u[n] \in Calls(p) /\ u[m] \in Calls(r)
  BY <1>a DEF Joined
<1> HIDE DEF u
<1>3. AllCalls(u) = AllCalls(p) \cup AllCalls(r)
  BY <1>2, AllCallsOf
<1>4. ASSUME NEW n \in DOMAIN u PROVE u[n] # <<>> /\ CreateFunction(u[n])
  <2>1. u[n] \in Calls(p) \cup Calls(r)
    BY <1>2 DEF Calls
  <2> QED BY <2>1 DEF Calls, CreatePlan
<1>5. ASSUME NEW n \in DOMAIN u, NEW m \in DOMAIN u, n < m, NEW c \in Calls(u[n]), NEW d \in Calls(u[m])
      PROVE  CreateApart(c, d)
  <2>1. CASE \E i, j \in DOMAIN p : i < j /\ u[n] = p[i] /\ u[m] = p[j]
    BY <2>1, <1>5 DEF CreatePlan
  <2>2. CASE \E i, j \in DOMAIN r : i < j /\ u[n] = r[i] /\ u[m] = r[j]
    BY <2>2, <1>5 DEF CreatePlan
  <2>3. CASE u[n] \in Calls(p) /\ u[m] \in Calls(r)
    <3>1. c \in AllCalls(p) /\ d \in AllCalls(r)
      BY <2>3, <1>5, AllCallsOf
    <3> QED BY <3>1
  <2> QED BY <1>2, <1>5, <2>1, <2>2, <2>3
<1>6. CreatePlan(u)
  BY <1>2, <1>4, <1>5 DEF CreatePlan, S
<1> QED BY <1>3, <1>6 DEF u

\* A plan that creates some objects, followed by one that creates others.
LEMMA PartsCat ==
  ASSUME NEW p, NEW r, NEW O, NEW X, Parts(p, O), Parts(r, X), Apart(O, X),
         \A o \in O, x \in X : Stage(Family(o)) <= Stage(Family(x)),
         Quiet(AllCalls(r)) \/ \A o \in O, x \in X : Stage(Family(o)) < Stage(Family(x))
  PROVE  Parts(p \o r, O \cup X) /\ AllCalls(p \o r) = AllCalls(p) \cup AllCalls(r)
<1>1. ASSUME NEW c \in AllCalls(p), NEW d \in AllCalls(r) PROVE CreateApart(c, d)
  <2>1. /\ CreateCall(c) /\ c.on \in O /\ \A k \in DOMAIN c.undo : c.undo[k].on \in O
        /\ CreateCall(d) /\ d.on \in X /\ \A k \in DOMAIN d.undo : d.undo[k].on \in X
    BY DEF Parts, Creation
  <2>2. c.on \in Objects /\ d.on \in Objects
    BY <2>1, UndoCalls
  <2>3. Stage(Family(c.on)) \in Nat /\ Stage(Family(d.on)) \in Nat
    BY <2>2, ObjectOK, StageOK
  <2>4. Rank(c) <= Rank(d)
    BY <2>1, <2>2, <2>3, QuietRank DEF Quiet
  <2> QED BY <2>1, <2>4, ApartCalls
<1>2. CreatePlan(p) /\ CreatePlan(r) /\ Creation(AllCalls(p), O) /\ Creation(AllCalls(r), X)
  BY DEF Parts
<1>3. CreatePlan(p \o r) /\ AllCalls(p \o r) = AllCalls(p) \cup AllCalls(r)
  BY <1>1, <1>2, PlanCat
<1>4. Creation(AllCalls(p) \cup AllCalls(r), O \cup X)
  BY <1>2, CreationOfBoth
<1> QED BY <1>3, <1>4 DEF Parts

\* The operations and the kinds of the calls of a function, one owner's: nothing
\* is made twice, started twice, or made when it has been started; what is
\* started has been made, and everything is made and started that can be.
Starts == {"mmap", "rxctx", "txctx", "sem", "sem_http", "arr"}
InOrder(ops, kinds, n) ==
  \A i, j \in 1..n : i < j => /\ ops[i] # "set" /\ ops[j] = "make" => kinds[i] # kinds[j]
                              /\ ops[i] = "start" /\ ops[j] = "start" => kinds[i] # kinds[j]
Whole(ops, kinds, n) ==
  /\ \A i \in 1..n : ops[i] = "start" => kinds[i] \in Starts
  /\ \A i \in 1..n : \E j \in 1..n : /\ kinds[j] = kinds[i]
                                     /\ ops[j] = IF kinds[i] \in Starts THEN "start" ELSE "make"
  /\ \A i \in 1..n : \E j \in 1..n : kinds[j] = kinds[i] /\ ops[j] = "make"

\* A call without an error path of its own.
LEMMA PlainCall ==
  ASSUME NEW op \in {"make", "set", "start"}, NEW o \in Objects, NEW f \in Protocols \cup {"return"},
         op = "start" => Startable(o), f \in Protocols => Stage(Family(o)) = Stage(f),
         NEW c, c = Call(op, o, <<>>, f)
  PROVE  /\ CreateCall(c) /\ c \in CreateCalls
         /\ c.op = op /\ c.on = o /\ c.undo = <<>> /\ c.otherwise = f
<1>1. <<>> \in Seq(Drops)
  OBVIOUS
<1>2. c \in CreateCalls /\ c.op = op /\ c.on = o /\ c.undo = <<>> /\ c.otherwise = f
  BY <1>1 DEF Call, CreateCalls
<1>3. UndoOK(c)
  BY <1>2 DEF UndoOK
<1>4. f \notin {"leave", "ignore"}
  BY DEF Protocols
<1> QED BY <1>2, <1>3, <1>4 DEF CreateCall

\* Such a function, for the owner w.
Plain(s, w, n, K, ops, kinds, whos) ==
  /\ w \in Owners /\ w[1] # "cpu" /\ n \in Nat \ {0} /\ K \subseteq KindsOf(w[1])
  /\ ops \in [1..n -> {"make", "set", "start"}] /\ kinds \in [1..n -> K] /\ K = {kinds[i] : i \in 1..n}
  /\ whos \in [1..n -> Protocols \cup {"return"}]
  /\ \A i \in 1..n : whos[i] \in Protocols => Stage(w[1]) = Stage(whos[i])
  /\ \A i \in 2..n : whos[i] = "return" => ops[i] = "set" \/ w = App
  /\ InOrder(ops, kinds, n) /\ Whole(ops, kinds, n)
  /\ s = [i \in 1..n |-> Call(ops[i], <<w, kinds[i]>>, <<>>, whos[i])]

\* The calls of a plain function, one by one.
LEMMA PlainCalls ==
  ASSUME NEW s, NEW w, NEW n, NEW K, NEW ops, NEW kinds, NEW whos,
         Plain(s, w, n, K, ops, kinds, whos)
  PROVE  /\ \A k \in K : /\ <<w, k>> \in Objects /\ Family(<<w, k>>) = w[1]
                         /\ Startable(<<w, k>>) <=> k \in Starts
         /\ s \in Seq(CreateCalls) /\ DOMAIN s = 1..n
         /\ \A i \in 1..n : /\ CreateCall(s[i]) /\ s[i] \in CreateCalls
                            /\ s[i].op = ops[i] /\ s[i].on = <<w, kinds[i]>> /\ s[i].undo = <<>>
                            /\ s[i].otherwise = whos[i]
<1>1. \A k \in K : /\ <<w, k>> \in Objects /\ Family(<<w, k>>) = w[1]
                   /\ Startable(<<w, k>>) <=> k \in Starts
  BY IsObject DEF Startable, Starts, Plain
<1>2. ASSUME NEW i \in 1..n
      PROVE  /\ CreateCall(s[i]) /\ s[i] \in CreateCalls
             /\ s[i].op = ops[i] /\ s[i].on = <<w, kinds[i]>> /\ s[i].undo = <<>>
             /\ s[i].otherwise = whos[i]
  <2> PICK op, o, f : op = ops[i] /\ o = <<w, kinds[i]>> /\ f = whos[i]
    OBVIOUS
  <2>1. kinds[i] \in K
    BY DEF Plain
  <2>2. /\ op \in {"make", "set", "start"} /\ o \in Objects /\ f \in Protocols \cup {"return"}
        /\ op = "start" => Startable(o)
        /\ f \in Protocols => Stage(Family(o)) = Stage(f)
    BY <1>1, <2>1 DEF Plain, Whole
  <2>3. s[i] = Call(op, o, <<>>, f)
    BY DEF Plain
  <2> QED BY <2>2, <2>3, PlainCall
<1>3. s = [i \in 1..n |-> s[i]] /\ n \in Nat
  BY DEF Plain
<1>4. s \in [1..n -> CreateCalls]
  BY <1>2, <1>3
<1>5. s \in Seq(CreateCalls) /\ DOMAIN s = 1..n
  BY <1>3, <1>4
<1> QED BY <1>1, <1>2, <1>5

\* A function that makes the objects of one owner.
LEMMA PlainPart ==
  ASSUME NEW s, NEW w, NEW n, NEW K, NEW ops, NEW kinds, NEW whos,
         Plain(s, w, n, K, ops, kinds, whos)
  PROVE  Part(s, {<<w, k>> : k \in K})
<1> DEFINE O == {<<w, k>> : k \in K}
<1>1. \A k \in K : /\ <<w, k>> \in Objects /\ Family(<<w, k>>) = w[1]
                   /\ Startable(<<w, k>>) <=> k \in Starts
  BY PlainCalls
<1>2. \A i \in 1..n : /\ CreateCall(s[i]) /\ s[i] \in CreateCalls
                      /\ s[i].op = ops[i] /\ s[i].on = <<w, kinds[i]>> /\ s[i].undo = <<>>
                      /\ s[i].otherwise = whos[i]
  BY PlainCalls
<1>3. s \in Seq(CreateCalls) /\ DOMAIN s = 1..n
  BY PlainCalls
<1>a. /\ n \in Nat \ {0} /\ K = {kinds[i] : i \in 1..n} /\ \A i \in 1..n : kinds[i] \in K
      /\ w[1] # "cpu" /\ \A i \in 1..n : whos[i] \in Protocols \cup {"return"}
      /\ \A i \in 2..n : whos[i] = "return" => ops[i] = "set" \/ w = App
      /\ \A i \in 1..n : ops[i] \in {"make", "set", "start"}
  BY DEF Plain
<1>b. InOrder(ops, kinds, n) /\ Whole(ops, kinds, n)
  BY DEF Plain
<1>4. ASSUME NEW i \in 1..n, NEW j \in 1..n, i < j PROVE CreateOrder(s[i], s[j])
  <2> PICK c, d : c = s[i] /\ d = s[j]
    OBVIOUS
  <2>1. /\ c.op = ops[i] /\ c.on = <<w, kinds[i]>> /\ c.undo = <<>>
        /\ d.op = ops[j] /\ d.on = <<w, kinds[j]>> /\ d.undo = <<>> /\ d.otherwise = whos[j]
        /\ c.on \in Objects /\ d.on \in Objects /\ Family(c.on) = w[1] /\ Family(d.on) = w[1]
        /\ kinds[i] \in K /\ kinds[j] \in K
    <3>1. kinds[i] \in K /\ kinds[j] \in K
      BY <1>4, <1>a
    <3>2. /\ c.op = ops[i] /\ c.on = <<w, kinds[i]>> /\ c.undo = <<>>
          /\ d.op = ops[j] /\ d.on = <<w, kinds[j]>> /\ d.undo = <<>> /\ d.otherwise = whos[j]
      BY <1>2, <1>4
    <3> QED BY <3>1, <3>2, <1>1
  <2>2. \A f \in Protocols : ~Opens(d, f)
    <3> SUFFICES ASSUME NEW f \in Protocols, Opens(d, f) PROVE FALSE
      OBVIOUS
    <3>1. d.op = "make" /\ d.otherwise = "return" /\ Family(d.on) = f
      BY RankOK DEF Opens
    <3>2. j \in 2..n
      BY <1>4, <1>a, <3>1
    <3> QED BY <3>1, <3>2, <2>1, <1>a DEF Protocols, App
  <2>3. Rank(c) <= Rank(d)
    BY <2>1, <2>2, QuietRank
  <2>4. /\ ops[i] # "set" /\ ops[j] = "make" => c.on # d.on
        /\ ops[i] = "start" /\ ops[j] = "start" => c.on # d.on
        /\ ops[i] \in {"make", "set", "start"} /\ ops[j] \in {"make", "set", "start"}
    BY <1>4, <1>a, <1>b, <2>1 DEF InOrder
  <2> QED BY <2>1, <2>3, <2>4 DEF CreateOrder
<1>5. \A i \in 1..n : s[i].op # "release" /\ s[i].otherwise # "leave"
  BY <1>2, <1>a DEF Protocols
<1>6. s \in Seq(CreateCalls \cup Drops)
  BY <1>3
<1>7. CreateFunction(s)
  BY <1>2, <1>3, <1>4, <1>5, <1>6 DEF CreateFunction, CreateTogether
<1>8. Creation(Calls(s), O)
  <2>1. \A c \in Calls(s) : \E i \in 1..n : c = s[i]
    BY <1>3 DEF Calls
  <2>2. \A i \in 1..n : s[i] \in Calls(s)
    BY <1>3 DEF Calls
  <2>3. \A c \in Calls(s) : CreateCall(c) /\ c.on \in O /\ \A k \in DOMAIN c.undo : c.undo[k].on \in O
    <3> TAKE c \in Calls(s)
    <3>1. PICK i \in 1..n : c = s[i]
      BY <2>1
    <3>2. CreateCall(c) /\ c.on = <<w, kinds[i]>> /\ c.undo = <<>> /\ kinds[i] \in K
      BY <3>1, <1>2, <1>a
    <3> QED BY <3>2
  <2>4. ASSUME NEW k \in K PROVE \E c \in Calls(s) : Creates(c, <<w, k>>)
    <3>1. PICK i \in 1..n : kinds[i] = k
      BY <1>a
    <3>2. PICK j \in 1..n : kinds[j] = k /\ ops[j] = IF k \in Starts THEN "start" ELSE "make"
      BY <3>1, <1>b DEF Whole
    <3> QED BY <3>2, <2>2, <1>1, <1>2 DEF Creates
  <2>5. ASSUME NEW c \in Calls(s) PROVE \E d \in Calls(s) : d.op = "make" /\ d.on = c.on
    <3>1. PICK i \in 1..n : c = s[i]
      BY <2>1
    <3>2. PICK j \in 1..n : kinds[j] = kinds[i] /\ ops[j] = "make"
      BY <1>b DEF Whole
    <3> QED BY <3>1, <3>2, <2>2, <1>2
  <2> QED BY <2>3, <2>4, <2>5 DEF Creation
<1>9. s # <<>>
  BY <1>3, <1>a
<1> QED BY <1>7, <1>8, <1>9 DEF Part

\* A receive queue.
LEMMA RxQueueOK ==
  ASSUME NEW w \in Owners, NEW f \in Protocols, w[1] = f
  PROVE  /\ Part(RxQueue(w, f), {<<w, k>> : k \in {"rxq", "mmap", "mem", "rxctx"}})
         /\ \A c \in Calls(RxQueue(w, f)) : c.otherwise \in {"return", f}
         /\ Call("make", <<w, "rxq">>, <<>>, "return") \in Calls(RxQueue(w, f))
<1> DEFINE ops   == <<"make", "set", "make", "make", "start", "make", "start">>
           kinds == <<"rxq", "rxq", "mmap", "mem", "mmap", "rxctx", "rxctx">>
           whos  == <<"return", "return", f, f, f, f, f>>
           K     == {"rxq", "mmap", "mem", "rxctx"}
<1>1. /\ w[1] \in {"udp", "tcp", "icmp"} /\ f # "return"
      /\ w \in Owners /\ w[1] # "cpu"
  BY DEF Protocols
<1>2. K \subseteq KindsOf(w[1])
  BY <1>1 DEF KindsOf
<1>3. /\ ops \in [1..7 -> {"make", "set", "start"}]
      /\ kinds \in [1..7 -> K] /\ K = {kinds[i] : i \in 1..7}
      /\ whos \in [1..7 -> Protocols \cup {"return"}]
  BY <1>1
<1>4. RxQueue(w, f) = [i \in 1..7 |-> Call(ops[i], <<w, kinds[i]>>, <<>>, whos[i])]
  BY DEF RxQueue
<1>5. \A i \in 1..7 : whos[i] \in Protocols => Stage(w[1]) = Stage(whos[i])
  BY <1>1 DEF Protocols
<1>6. InOrder(ops, kinds, 7) /\ Whole(ops, kinds, 7)
  BY <1>1 DEF InOrder, Whole, Starts
<1>7. \A i \in 2..7 : whos[i] = "return" => ops[i] = "set" \/ w = App
  BY <1>1
<1>8. Part(RxQueue(w, f), {<<w, k>> : k \in K})
  <2>1. Plain(RxQueue(w, f), w, 7, K, ops, kinds, whos)
    <3> HIDE DEF ops, kinds, K, whos
    <3> QED BY <1>1, <1>2, <1>3, <1>4, <1>5, <1>6, <1>7 DEF Plain
  <2> HIDE DEF ops, kinds, K, whos
  <2> QED BY <2>1, PlainPart
<1>9. \A c \in Calls(RxQueue(w, f)) : \E i \in 1..7 : c.otherwise = whos[i]
  BY <1>4 DEF Calls, Call
<1>10. Call("make", <<w, "rxq">>, <<>>, "return") \in Calls(RxQueue(w, f))
  BY DEF Calls, RxQueue
<1> QED BY <1>8, <1>9, <1>10 DEF K

\* A semaphore.
LEMMA SemaphoreOK ==
  ASSUME NEW w \in Owners, NEW f \in Protocols, w[1] = f,
         NEW sem, (sem = "sem" /\ f \in {"udp", "tcp"}) \/ (sem = "sem_http" /\ f = "tcp")
  PROVE  /\ Part(Semaphore(w, sem, f), {<<w, k>> : k \in {sem}})
         /\ \A c \in Calls(Semaphore(w, sem, f)) : c.otherwise \in {f}
<1> DEFINE ops   == <<"make", "start", "set">>
           kinds == <<sem, sem, sem>>
           whos  == <<f, f, f>>
           K     == {sem}
<1>1. /\ w[1] \in {"udp", "tcp"} /\ f # "return" /\ sem \in {"sem", "sem_http"}
      /\ w \in Owners /\ w[1] # "cpu"
  BY DEF Protocols
<1>2. K \subseteq KindsOf(w[1])
  BY <1>1 DEF KindsOf
<1>3. /\ ops \in [1..3 -> {"make", "set", "start"}]
      /\ kinds \in [1..3 -> K] /\ K = {kinds[i] : i \in 1..3}
      /\ whos \in [1..3 -> Protocols \cup {"return"}]
  BY <1>1
<1>4. Semaphore(w, sem, f) = [i \in 1..3 |-> Call(ops[i], <<w, kinds[i]>>, <<>>, whos[i])]
  BY DEF Semaphore
<1>5. \A i \in 1..3 : whos[i] \in Protocols => Stage(w[1]) = Stage(whos[i])
  BY <1>1 DEF Protocols
<1>6. InOrder(ops, kinds, 3) /\ Whole(ops, kinds, 3)
  BY <1>1 DEF InOrder, Whole, Starts
<1>7. \A i \in 2..3 : whos[i] = "return" => ops[i] = "set" \/ w = App
  BY <1>1
<1>8. Part(Semaphore(w, sem, f), {<<w, k>> : k \in K})
  <2>1. Plain(Semaphore(w, sem, f), w, 3, K, ops, kinds, whos)
    <3> HIDE DEF ops, kinds, K, whos
    <3> QED BY <1>1, <1>2, <1>3, <1>4, <1>5, <1>6, <1>7 DEF Plain
  <2> HIDE DEF ops, kinds, K, whos
  <2> QED BY <2>1, PlainPart
<1>9. \A c \in Calls(Semaphore(w, sem, f)) : \E i \in 1..3 : c.otherwise = whos[i]
  BY <1>4 DEF Calls, Call
<1> QED BY <1>8, <1>9 DEF K

\* A send queue.
LEMMA SendQueueOK ==
  ASSUME NEW w \in Owners, NEW f \in {"tcp", "icmp"}, w[1] = f
  PROVE  /\ Part(SendQueue(w, f), {<<w, k>> : k \in {"txq", "txctx"}})
         /\ \A c \in Calls(SendQueue(w, f)) : c.otherwise \in {f}
<1> DEFINE ops   == <<"make", "make", "start", "set">>
           kinds == <<"txq", "txctx", "txctx", "txctx">>
           whos  == <<f, f, f, f>>
           K     == {"txq", "txctx"}
<1>1. /\ w[1] \in {"tcp", "icmp"} /\ f \in Protocols /\ f # "return"
      /\ w \in Owners /\ w[1] # "cpu"
  BY DEF Protocols
<1>2. K \subseteq KindsOf(w[1])
  BY <1>1 DEF KindsOf
<1>3. /\ ops \in [1..4 -> {"make", "set", "start"}]
      /\ kinds \in [1..4 -> K] /\ K = {kinds[i] : i \in 1..4}
      /\ whos \in [1..4 -> Protocols \cup {"return"}]
  BY <1>1
<1>4. SendQueue(w, f) = [i \in 1..4 |-> Call(ops[i], <<w, kinds[i]>>, <<>>, whos[i])]
  BY DEF SendQueue
<1>5. \A i \in 1..4 : whos[i] \in Protocols => Stage(w[1]) = Stage(whos[i])
  BY <1>1 DEF Protocols
<1>6. InOrder(ops, kinds, 4) /\ Whole(ops, kinds, 4)
  BY <1>1 DEF InOrder, Whole, Starts
<1>7. \A i \in 2..4 : whos[i] = "return" => ops[i] = "set" \/ w = App
  BY <1>1
<1>8. Part(SendQueue(w, f), {<<w, k>> : k \in K})
  <2>1. Plain(SendQueue(w, f), w, 4, K, ops, kinds, whos)
    <3> HIDE DEF ops, kinds, K, whos
    <3> QED BY <1>1, <1>2, <1>3, <1>4, <1>5, <1>6, <1>7 DEF Plain
  <2> HIDE DEF ops, kinds, K, whos
  <2> QED BY <2>1, PlainPart
<1>9. \A c \in Calls(SendQueue(w, f)) : \E i \in 1..4 : c.otherwise = whos[i]
  BY <1>4 DEF Calls, Call
<1> QED BY <1>8, <1>9 DEF K

\* The buffer of a page.
LEMMA TxBufOK ==
  ASSUME NEW page \in Pages
  PROVE  /\ Part(TxBuf(page), {<<<<"page", page>>, k>> : k \in {"mmap", "mem", "arr"}})
         /\ \A c \in Calls(TxBuf(page)) : c.otherwise \in {"tcp"}
<1> DEFINE ops   == <<"make", "make", "start", "make", "start", "set">>
           kinds == <<"mmap", "mem", "mmap", "arr", "arr", "arr">>
           whos  == <<"tcp", "tcp", "tcp", "tcp", "tcp", "tcp">>
           K     == {"mmap", "mem", "arr"}
<1>1. /\ /\ <<"page", page>> \in Owners /\ <<"page", page>>[1] = "page" /\ "tcp" \in Protocols
      /\ Stage("page") = Stage("tcp")
      /\ <<"page", page>> \in Owners /\ <<"page", page>>[1] # "cpu"
  BY OwnersOK, StageOK DEF Protocols
<1>2. K \subseteq KindsOf(<<"page", page>>[1])
  BY <1>1 DEF KindsOf
<1>3. /\ ops \in [1..6 -> {"make", "set", "start"}]
      /\ kinds \in [1..6 -> K] /\ K = {kinds[i] : i \in 1..6}
      /\ whos \in [1..6 -> Protocols \cup {"return"}]
  BY <1>1
<1>4. TxBuf(page) = [i \in 1..6 |-> Call(ops[i], <<<<"page", page>>, kinds[i]>>, <<>>, whos[i])]
  BY DEF TxBuf
<1>5. \A i \in 1..6 : whos[i] \in Protocols => Stage(<<"page", page>>[1]) = Stage(whos[i])
  BY <1>1 DEF Protocols
<1>6. InOrder(ops, kinds, 6) /\ Whole(ops, kinds, 6)
  BY <1>1 DEF InOrder, Whole, Starts
<1>7. \A i \in 2..6 : whos[i] = "return" => ops[i] = "set" \/ <<"page", page>> = App
  BY <1>1
<1>8. Part(TxBuf(page), {<<<<"page", page>>, k>> : k \in K})
  <2>1. Plain(TxBuf(page), <<"page", page>>, 6, K, ops, kinds, whos)
    <3> HIDE DEF ops, kinds, K, whos
    <3> QED BY <1>1, <1>2, <1>3, <1>4, <1>5, <1>6, <1>7 DEF Plain
  <2> HIDE DEF ops, kinds, K, whos
  <2> QED BY <2>1, PlainPart
<1>9. \A c \in Calls(TxBuf(page)) : \E i \in 1..6 : c.otherwise = whos[i]
  BY <1>4 DEF Calls, Call
<1> QED BY <1>8, <1>9 DEF K

\* main's own objects.
LEMMA AppMade ==
  /\ Part(CreateApp[1], {<<App, k>> : k \in {"dev", "gpu", "flow", "pe"}})
  /\ \A c \in Calls(CreateApp[1]) : c.otherwise \in {"return"}
<1> DEFINE ops   == <<"make", "make", "make", "set", "make">>
           kinds == <<"dev", "gpu", "flow", "flow", "pe">>
           whos  == <<"return", "return", "return", "return", "return">>
           K     == {"dev", "gpu", "flow", "pe"}
<1>1. /\ App \in Owners /\ App[1] = "app" /\ "return" \notin Protocols
      /\ App \in Owners /\ App[1] # "cpu"
  BY OwnersOK DEF App, Protocols
<1>2. K \subseteq KindsOf(App[1])
  BY <1>1 DEF KindsOf
<1>3. /\ ops \in [1..5 -> {"make", "set", "start"}]
      /\ kinds \in [1..5 -> K] /\ K = {kinds[i] : i \in 1..5}
      /\ whos \in [1..5 -> Protocols \cup {"return"}]
  BY <1>1
<1>4. CreateApp[1] = [i \in 1..5 |-> Call(ops[i], <<App, kinds[i]>>, <<>>, whos[i])]
  BY DEF CreateApp
<1>5. \A i \in 1..5 : whos[i] \in Protocols => Stage(App[1]) = Stage(whos[i])
  BY <1>1 DEF Protocols
<1>6. InOrder(ops, kinds, 5) /\ Whole(ops, kinds, 5)
  BY <1>1 DEF InOrder, Whole, Starts
<1>7. \A i \in 2..5 : whos[i] = "return" => ops[i] = "set" \/ App = App
  BY <1>1
<1>8. Part(CreateApp[1], {<<App, k>> : k \in K})
  <2>1. Plain(CreateApp[1], App, 5, K, ops, kinds, whos)
    <3> HIDE DEF ops, kinds, K, whos
    <3> QED BY <1>1, <1>2, <1>3, <1>4, <1>5, <1>6, <1>7 DEF Plain
  <2> HIDE DEF ops, kinds, K, whos
  <2> QED BY <2>1, PlainPart
<1>9. \A c \in Calls(CreateApp[1]) : \E i \in 1..5 : c.otherwise = whos[i]
  BY <1>4 DEF Calls, Call
<1> QED BY <1>8, <1>9 DEF K

\* The functions of every queue, queue by queue.
Bodies(body, M, O, X, stage) ==
  /\ \A o : o \in X <=> \E q \in Queues : o \in O[q]
  /\ M \in Nat \ {0} /\ body \in [Queues -> Seq(Seq(CreateCalls \cup Drops))]
  /\ \A q \in Queues : /\ Len(body[q]) = M /\ Parts(body[q], O[q])
                        /\ \A o \in O[q] : Stage(Family(o)) = stage
  /\ \A q, r \in Queues : q # r => Apart(O[q], O[r])
  /\ \A q \in Queues, a \in 1..M : q # Order[1] \/ a # 1 => Quiet(Calls(body[q][a]))

\* The functions of every queue in turn create the objects of every queue.
LEMMA PartsEach ==
  ASSUME NEW body, NEW M, NEW O, NEW X, NEW stage, Bodies(body, M, O, X, stage)
  PROVE  /\ Parts(ForEach(body), X)
         /\ \A c : c \in AllCalls(ForEach(body)) <=> \E q \in Queues : c \in AllCalls(body[q])
<1>a. /\ \A o : o \in X <=> \E q \in Queues : o \in O[q]
      /\ M \in Nat /\ M > 0 /\ body \in [Queues -> Seq(Seq(CreateCalls \cup Drops))]
      /\ \A q \in Queues : /\ Len(body[q]) = M /\ Parts(body[q], O[q])
                            /\ \A o \in O[q] : Stage(Family(o)) = stage
      /\ \A q, r \in Queues : q # r => Apart(O[q], O[r])
      /\ \A q \in Queues, a \in 1..M : q # Order[1] \/ a # 1 => Quiet(Calls(body[q][a]))
  BY DEF Bodies
<1> DEFINE S == Seq(CreateCalls \cup Drops)
           s == ForEach(body)
<1>1. /\ s \in Seq(S) /\ s # <<>>
      /\ \A k \in DOMAIN s : \E q \in Queues, a \in 1..M : s[k] = body[q][a]
      /\ \A j, k \in DOMAIN s : j < k =>
           \E q, r \in Queues, a, b \in 1..M :
             s[j] = body[q][a] /\ s[k] = body[r][b] /\ (q # r \/ (q = r /\ a < b))
      /\ \A q \in Queues, a \in 1..M : \E k \in DOMAIN s : s[k] = body[q][a]
      /\ \A k \in DOMAIN s : k # 1 => \E q \in Queues, a \in 1..M :
                                        s[k] = body[q][a] /\ (q # Order[1] \/ a # 1)
  <2> PICK T : T = S
    OBVIOUS
  <2>1. body \in [Queues -> Seq(T)] /\ \A q \in Queues : Len(body[q]) = M
    BY <1>a
  <2>2. ForEach(body) \in Seq(T) /\ Looped(ForEach(body), body, M)
    BY <2>1, <1>a, LoopOK
  <2> QED BY <2>2 DEF Looped
<1> HIDE DEF s, S
<1>2. \A q \in Queues : DOMAIN body[q] = 1..M /\ CreatePlan(body[q]) /\ Creation(AllCalls(body[q]), O[q])
  BY <1>a DEF Parts
<1>3. \A c : c \in AllCalls(s) <=> \E q \in Queues : c \in AllCalls(body[q])
  <2>1. ASSUME NEW c \in AllCalls(s) PROVE \E q \in Queues : c \in AllCalls(body[q])
    <3>1. PICK k \in DOMAIN s : c \in Calls(s[k])
      BY DEF AllCalls
    <3>2. PICK q \in Queues, a \in 1..M : s[k] = body[q][a]
      BY <1>1
    <3> QED BY <3>1, <3>2, <1>2 DEF AllCalls
  <2>2. ASSUME NEW q \in Queues, NEW c \in AllCalls(body[q]) PROVE c \in AllCalls(s)
    <3>1. PICK a \in 1..M : c \in Calls(body[q][a])
      BY <2>2, <1>2 DEF AllCalls
    <3>2. PICK k \in DOMAIN s : s[k] = body[q][a]
      BY <1>1
    <3> QED BY <3>1, <3>2 DEF AllCalls
  <2> QED BY <2>1, <2>2
<1>4. Creation(AllCalls(s), X)
  <2>1. ASSUME NEW c \in AllCalls(s)
        PROVE  /\ CreateCall(c) /\ c.on \in X /\ \A k \in DOMAIN c.undo : c.undo[k].on \in X
               /\ c.op = "start" => \E d \in AllCalls(s) : d.op \in {"make", "nest"} /\ d.on = c.on
    <3>1. PICK q \in Queues : c \in AllCalls(body[q])
      BY <2>1, <1>3
    <3>2. AllCalls(body[q]) \subseteq AllCalls(s) /\ O[q] \subseteq X
      BY <1>3, <1>a
    <3> QED BY <3>1, <3>2, <1>2 DEF Creation
  <2>2. ASSUME NEW o \in X PROVE \E c \in AllCalls(s) : Creates(c, o)
    <3>1. PICK q \in Queues : o \in O[q]
      BY <2>2, <1>a
    <3> QED BY <3>1, <1>2, <1>3 DEF Creation
  <2> QED BY <2>1, <2>2 DEF Creation
<1>5. ASSUME NEW k \in DOMAIN s PROVE s[k] # <<>> /\ CreateFunction(s[k])
  <2>1. PICK q \in Queues, a \in 1..M : s[k] = body[q][a]
    BY <1>1
  <2> QED BY <2>1, <1>2 DEF CreatePlan
<1>6. ASSUME NEW j \in DOMAIN s, NEW k \in DOMAIN s, j < k, NEW c \in Calls(s[j]), NEW d \in Calls(s[k])
      PROVE  CreateApart(c, d)
  <2>1. PICK q \in Queues, r \in Queues, a \in 1..M, b \in 1..M :
          s[j] = body[q][a] /\ s[k] = body[r][b] /\ (q # r \/ (q = r /\ a < b))
    BY <1>1, <1>6
  <2>2. CASE q = r /\ a < b
    BY <2>1, <2>2, <1>2, <1>6 DEF CreatePlan
  <2>3. CASE q # r
    <3>1. c \in AllCalls(body[q]) /\ d \in AllCalls(body[r])
      BY <2>1, <1>2, <1>6 DEF AllCalls
    <3>2. /\ CreateCall(c) /\ c.on \in O[q] /\ \A i \in DOMAIN c.undo : c.undo[i].on \in O[q]
          /\ CreateCall(d) /\ d.on \in O[r] /\ \A i \in DOMAIN d.undo : d.undo[i].on \in O[r]
      BY <3>1, <1>2 DEF Creation
    <3>3. k # 1
      <4>1. DOMAIN s = 1..Len(s) /\ Len(s) \in Nat
        BY <1>1
      <4> QED BY <4>1, <1>6
    <3>4. Quiet(Calls(s[k]))
      <4>1. PICK e \in Queues, b1 \in 1..M : s[k] = body[e][b1] /\ (e # Order[1] \/ b1 # 1)
        BY <3>3, <1>1
      <4>2. Quiet(Calls(body[e][b1]))
        BY <4>1, <1>a
      <4> QED BY <4>1, <4>2
    <3>5. Rank(c) <= Rank(d)
      <4>1. c.on \in Objects /\ d.on \in Objects
        BY <3>2, UndoCalls
      <4> QED BY <4>1, <3>2, <3>4, <1>a, <1>6, QuietRank DEF Quiet
    <3>6. Apart(O[q], O[r])
      BY <2>3, <1>a
    <3> QED BY <3>2, <3>5, <3>6, ApartCalls
  <2> QED BY <2>1, <2>2, <2>3
<1>7. CreatePlan(s)
  BY <1>1, <1>5, <1>6 DEF CreatePlan, S
<1> QED BY <1>3, <1>4, <1>7 DEF Parts, s

\* The pipe of a protocol, after its queues.
LEMMA PipeAfter ==
  ASSUME NEW p, NEW O, Parts(p, O), NEW o \in O, o \in Objects,
         NEW f \in Protocols \cup {"return"}, f \in Protocols => Stage(Family(o)) = Stage(f),
         \A x \in O : x \in Objects /\ Stage(Family(x)) <= Stage(Family(o)),
         NEW r, r = <<<<Call("set", o, <<>>, f)>>>>
  PROVE  Parts(p \o r, O) /\ AllCalls(p \o r) = AllCalls(p) \cup {Call("set", o, <<>>, f)}
<1> PICK d : d = Call("set", o, <<>>, f)
  OBVIOUS
<1>1. /\ CreateCall(d) /\ d \in CreateCalls /\ d.op = "set" /\ d.on = o /\ d.undo = <<>> /\ d.otherwise = f
  <2> PICK op : op = "set"
    OBVIOUS
  <2>1. op \in {"make", "set", "start"} /\ d = Call(op, o, <<>>, f) /\ op # "start"
    OBVIOUS
  <2> QED BY <2>1, PlainCall
<1> PICK s : s = <<d>>
  OBVIOUS
<1>2. s \in Seq(CreateCalls) /\ s \in Seq(CreateCalls \cup Drops) /\ DOMAIN s = {1} /\ s[1] = d /\ s # <<>>
  BY <1>1
<1>3. CreateFunction(s) /\ Calls(s) = {d}
  <2>1. f \notin {"leave"}
    BY DEF Protocols
  <2> QED BY <1>1, <1>2, <2>1 DEF CreateFunction, CreateTogether, Calls
<1>4. r = <<s>>
  OBVIOUS
<1>5. CreatePlan(r) /\ AllCalls(r) = {d}
  <2> DEFINE S == CreateCalls \cup Drops
  <2>1. s \in Seq(S)
    BY <1>2
  <2> HIDE DEF S
  <2>2. r \in Seq(Seq(S)) /\ DOMAIN r = {1} /\ r[1] = s
    BY <2>1, <1>4
  <2>3. CreatePlan(r)
    BY <1>2, <1>3, <2>2 DEF CreatePlan, S
  <2> QED BY <2>2, <2>3, <1>3 DEF AllCalls
<1>6. ASSUME NEW c \in AllCalls(p) PROVE CreateApart(c, d)
  <2>1. CreateCall(c) /\ c.on \in O /\ c.on \in Objects
    BY DEF Parts, Creation
  <2>2. Stage(Family(c.on)) <= Stage(Family(d.on)) /\ Stage(Family(c.on)) \in Nat /\ Stage(Family(d.on)) \in Nat
    BY <2>1, <1>1, ObjectOK, StageOK
  <2>3. \A g \in Protocols : ~Opens(d, g)
    BY <1>1 DEF Opens
  <2>4. Rank(c) <= Rank(d)
    BY <2>1, <2>2, <2>3, <1>1, QuietRank
  <2> QED BY <1>1, <2>4 DEF CreateApart, CreateOrder
<1>7. CreatePlan(p) /\ Creation(AllCalls(p), O)
  BY DEF Parts
<1>8. CreatePlan(p \o r) /\ AllCalls(p \o r) = AllCalls(p) \cup {d}
  BY <1>5, <1>6, <1>7, PlanCat
<1>9. Creation(AllCalls(p) \cup {d}, O)
  BY <1>1, <1>7 DEF Creation
<1> QED BY <1>8, <1>9 DEF Parts
-----------------------------------------------------------------------------
(* The CPU RSS queues: a Txq or an Rxq is made from a map (and a pool), and *)
(* undone by its own function when a later call fails.                     *)

CpuOf(q) == <<"cpu", q>>

\* The calls of an error path, by their kinds.
Undo(q, kinds) == [k \in DOMAIN kinds |-> Drop(<<CpuOf(q), kinds[k]>>)]
Group(lead) == IF lead = "txq" THEN {"txq", "pool", "tx_map"} ELSE {"rxq", "rx_map"}

\* Such a function, by the operations, the kinds and the error paths of its
\* calls: call number m starts the main object.
CpuQueue(s, q, lead, n, m, ops, kinds, undos, whos, paths) ==
  /\ q \in Queues /\ lead \in {"txq", "rxq"} /\ n \in Nat \ {0} /\ m \in 1..n
  /\ ops \in [1..n -> {"make", "nest", "set", "start"}] /\ kinds \in [1..n -> Group(lead)]
  /\ undos \in [1..n -> Seq(Group(lead))] /\ whos \in [1..n -> {"tcp", "leave", "ignore"}]
  /\ \A k \in Group(lead) : \E i \in 1..n : kinds[i] = k /\ ops[i] \in {"make", "nest"}
  /\ kinds[m] = lead /\ \A i \in 1..n : ops[i] = "start" <=> i = m
  /\ \A i \in 1..n : i > m => ops[i] = "set" /\ (undos[i] # <<>> => undos[i][1] = lead)
  /\ \A i, j \in 1..n : i < j /\ {ops[i], ops[j]} \subseteq {"make", "nest"} => kinds[i] # kinds[j]
  /\ \A i \in 1..n : \A k \in DOMAIN undos[i] : k # 1 => undos[i][k] # lead
  /\ \A i \in 1..n : /\ ops[i] = "nest" => whos[i] = "tcp"
                     /\ whos[i] = "ignore" => ops[i] = "set"
                     /\ whos[i] = "leave" => undos[i] # <<>> /\ undos[i][1] = lead
  /\ \A i \in 1..n : paths[i] = Undo(q, undos[i])
  /\ s = [i \in 1..n |-> Call(ops[i], <<CpuOf(q), kinds[i]>>, paths[i], whos[i])]

\* The objects of one CPU RSS queue: only the leader is started, and it needs the others.
LEMMA GroupOK ==
  ASSUME NEW q \in Queues, NEW lead \in {"txq", "rxq"}, NEW k \in Group(lead)
  PROVE  /\ CpuOf(q) \in Owners /\ <<CpuOf(q), k>> \in Objects /\ Family(<<CpuOf(q), k>>) = "cpu"
         /\ Leader(<<CpuOf(q), k>>) = <<CpuOf(q), lead>> /\ k # "pe"
         /\ Startable(<<CpuOf(q), k>>) <=> k = lead
         /\ \A j \in Group(lead) : <<CpuOf(q), k>> \in Needs(<<CpuOf(q), j>>) => j = lead /\ k # lead
<1>1. CpuOf(q) \in Owners /\ CpuOf(q)[1] = "cpu"
  BY DEF Owners, CpuOf
<1>2. k \in {"txq", "pool", "tx_map", "rxq", "rx_map"} /\ k \in KindsOf(CpuOf(q)[1])
  BY <1>1 DEF Group, KindsOf
<1>3. <<CpuOf(q), k>> \in Objects /\ Family(<<CpuOf(q), k>>) = "cpu"
  BY <1>1, <1>2, IsObject
<1>4. Leader(<<CpuOf(q), k>>) = <<CpuOf(q), lead>>
  BY DEF Leader, Group
<1>5. Startable(<<CpuOf(q), k>>) <=> k = lead
  BY <1>1 DEF Startable, Group
<1>6. ASSUME NEW j \in Group(lead), <<CpuOf(q), k>> \in Needs(<<CpuOf(q), j>>) PROVE j = lead /\ k # lead
  BY <1>1, <1>6 DEF Needs, Group
<1> QED BY <1>1, <1>2, <1>3, <1>4, <1>5, <1>6

\* The calls of an error path.
LEMMA DropCall ==
  ASSUME NEW o \in Objects
  PROVE  Drop(o) \in Drops /\ Drop(o).on = o
<1> PICK c, u : c = Call("release", o, <<>>, "ignore") /\ u = <<>>
  OBVIOUS
<1> DEFINE R == [op : {"release"}, on : Objects, guard : BOOLEAN, nulls : BOOLEAN, undo : {u},
                 otherwise : {"ignore"}]
           d == [c EXCEPT !.nulls = TRUE]
<1>1. c \in R /\ c.on = o /\ c.guard = FALSE
  BY DEF Call
<1>2. d \in R /\ d.on = o /\ d.guard = FALSE /\ d.nulls = TRUE
  BY <1>1
<1>3. Drop(o) = d
  BY DEF Drop
<1> HIDE DEF d
<1>4. d \in [op : {"release"}, on : Objects, guard : {FALSE}, nulls : {TRUE}, undo : {u}, otherwise : {"ignore"}]
  BY <1>2
<1> QED BY <1>2, <1>3, <1>4 DEF Drops

\* The calls of create_txq_cpu_rss or create_rxq_cpu_rss, one by one.
LEMMA CpuCalls ==
  ASSUME NEW s, NEW q, NEW lead, NEW n, NEW m, NEW ops, NEW kinds, NEW undos, NEW whos, NEW paths,
         CpuQueue(s, q, lead, n, m, ops, kinds, undos, whos, paths)
  PROVE  /\ s \in Seq(CreateCalls) /\ DOMAIN s = 1..n
         /\ \A i \in 1..n :
              /\ CreateCall(s[i]) /\ s[i].op = ops[i] /\ s[i].on = <<CpuOf(q), kinds[i]>> /\ s[i].otherwise = whos[i]
              /\ DOMAIN s[i].undo = DOMAIN undos[i]
              /\ \A k \in DOMAIN undos[i] : s[i].undo[k].on = <<CpuOf(q), undos[i][k]>>
<1>1. ASSUME NEW i \in 1..n
      PROVE  /\ CreateCall(s[i]) /\ s[i] \in CreateCalls
             /\ s[i].op = ops[i] /\ s[i].on = <<CpuOf(q), kinds[i]>> /\ s[i].otherwise = whos[i]
             /\ DOMAIN s[i].undo = DOMAIN undos[i]
             /\ \A k \in DOMAIN undos[i] : s[i].undo[k].on = <<CpuOf(q), undos[i][k]>>
  <2> PICK op, kind, u, who : op = ops[i] /\ kind = kinds[i] /\ u = undos[i] /\ who = whos[i]
    OBVIOUS
  <2> PICK U, c : U = paths[i] /\ c = Call(op, <<CpuOf(q), kind>>, U, who)
    OBVIOUS
  <2>1. /\ q \in Queues /\ lead \in {"txq", "rxq"}
        /\ op \in {"make", "nest", "set", "start"} /\ kind \in Group(lead) /\ u \in Seq(Group(lead))
        /\ who \in {"tcp", "leave", "ignore"}
    BY DEF CpuQueue
  <2>b. /\ op = "start" => kind = lead
        /\ op = "nest" => who = "tcp"
        /\ who = "ignore" => op = "set"
        /\ who = "leave" => u # <<>> /\ u[1] = lead
    BY DEF CpuQueue
  <2>c. \A k \in DOMAIN u : k # 1 => u[k] # lead
    BY DEF CpuQueue
  <2>a. s[i] = c
    BY DEF CpuQueue
  <2>d. U = Undo(q, u)
    BY DEF CpuQueue
  <2>2. \A k \in DOMAIN u : u[k] \in Group(lead)
    BY <2>1
  <2>3. /\ DOMAIN U = DOMAIN u /\ U = [k \in DOMAIN u |-> U[k]]
        /\ \A k \in DOMAIN u : U[k] \in Drops /\ U[k].on = <<CpuOf(q), u[k]>>
    BY <2>1, <2>2, <2>d, GroupOK, DropCall DEF Undo
  <2>4. U \in Seq(Drops)
    <3>1. DOMAIN u = 1..Len(u) /\ Len(u) \in Nat
      BY <2>1
    <3>2. U \in [1..Len(u) -> Drops]
      BY <3>1, <2>3
    <3> QED BY <3>1, <3>2
  <2>5. <<CpuOf(q), kind>> \in Objects /\ Family(<<CpuOf(q), kind>>) = "cpu" /\ Leader(<<CpuOf(q), kind>>) = <<CpuOf(q), lead>> /\ kind # "pe"
        /\ (Startable(<<CpuOf(q), kind>>) <=> kind = lead)
    BY <2>1, GroupOK
  <2>6. /\ c \in CreateCalls /\ c.op = op /\ c.on = <<CpuOf(q), kind>> /\ c.undo = U /\ c.otherwise = who
    BY <2>1, <2>b, <2>4, <2>5 DEF Call, CreateCalls, Protocols
  <2>7. UndoOK(c)
    <3>1. \A k \in DOMAIN U : /\ U[k].on[1] = CpuOf(q) /\ Leader(U[k].on) = <<CpuOf(q), lead>>
      <4> TAKE k \in DOMAIN U
      <4>1. u[k] \in Group(lead) /\ U[k].on = <<CpuOf(q), u[k]>>
        BY <2>2, <2>3
      <4> PICK x : x = u[k]
        OBVIOUS
      <4>2. x \in Group(lead) /\ U[k].on = <<CpuOf(q), x>>
        BY <4>1
      <4>3. Leader(<<CpuOf(q), x>>) = <<CpuOf(q), lead>>
        BY <4>2, <2>1, GroupOK
      <4> QED BY <4>2, <4>3
    <3>2. ASSUME NEW j \in DOMAIN U, NEW k \in DOMAIN U, j < k PROVE U[j].on \notin Needs(U[k].on)
      <4>1. k # 1 /\ u[k] # lead /\ u[k] \in Group(lead) /\ u[j] \in Group(lead)
        <5>1. DOMAIN u = 1..Len(u) /\ Len(u) \in Nat
          BY <2>1
        <5>2. k # 1
          BY <5>1, <2>3, <3>2
        <5> QED BY <5>2, <2>c, <2>2, <2>3, <3>2
      <4>2. <<CpuOf(q), u[j]>> \notin Needs(<<CpuOf(q), u[k]>>)
        BY <4>1, <2>1, GroupOK
      <4> QED BY <4>2, <2>3
    <3>3. Family(c.on) = "cpu" /\ c.on[1] = CpuOf(q) /\ Leader(c.on) = <<CpuOf(q), lead>> /\ c.undo = U
      BY <2>5, <2>6
    <3> QED BY <3>1, <3>2, <3>3 DEF UndoOK
  <2>8. who = "leave" => \E k \in DOMAIN U : U[k].on = <<CpuOf(q), lead>>
    <3>1. u # <<>> => 1 \in DOMAIN u
      BY <2>1
    <3> QED BY <3>1, <2>b, <2>3
  <2>9. CreateCall(c)
    <3>1. who \in Protocols => Stage(Family(c.on)) = Stage(who)
      BY <2>1, <2>5, <2>6, StageOK DEF Protocols
    <3>2. who # "return" /\ c.on[2] = kind
      BY <2>1, <2>6
    <3>3. who = "leave" => \E k \in DOMAIN c.undo : c.undo[k].on = Leader(c.on)
      BY <2>5, <2>6, <2>8
    <3> QED BY <2>1, <2>b, <2>5, <2>6, <2>7, <3>1, <3>2, <3>3 DEF CreateCall
  <2>10. /\ CreateCall(c) /\ c \in CreateCalls /\ c.op = op /\ c.on = <<CpuOf(q), kind>>
         /\ c.otherwise = who /\ DOMAIN c.undo = DOMAIN u
         /\ \A k \in DOMAIN u : c.undo[k].on = <<CpuOf(q), u[k]>>
    BY <2>3, <2>6, <2>9
  <2> QED BY <2>10, <2>a
<1>2. s = [i \in 1..n |-> s[i]] /\ n \in Nat
  BY DEF CpuQueue
<1>3. s \in [1..n -> CreateCalls]
  BY <1>1, <1>2
<1>4. s \in Seq(CreateCalls) /\ DOMAIN s = 1..n
  BY <1>2, <1>3
<1> QED BY <1>1, <1>4

\* They create the objects of the queue, whichever error path is taken.
LEMMA CpuPart ==
  ASSUME NEW s, NEW q, NEW lead, NEW n, NEW m, NEW ops, NEW kinds, NEW undos, NEW whos, NEW paths,
         CpuQueue(s, q, lead, n, m, ops, kinds, undos, whos, paths)
  PROVE  Part(s, {<<CpuOf(q), k>> : k \in Group(lead)}) /\ \A c \in Calls(s) : c.otherwise # "return"
<1> DEFINE G == Group(lead)
           O == {<<CpuOf(q), k>> : k \in G}
<1>1. /\ s \in Seq(CreateCalls) /\ DOMAIN s = 1..n
      /\ \A i \in 1..n :
           /\ CreateCall(s[i]) /\ s[i].op = ops[i] /\ s[i].on = <<CpuOf(q), kinds[i]>> /\ s[i].otherwise = whos[i]
           /\ DOMAIN s[i].undo = DOMAIN undos[i]
           /\ \A k \in DOMAIN undos[i] : s[i].undo[k].on = <<CpuOf(q), undos[i][k]>>
  BY CpuCalls
<1>2. /\ q \in Queues /\ lead \in {"txq", "rxq"} /\ n \in Nat \ {0} /\ m \in 1..n
      /\ \A i \in 1..n : /\ ops[i] \in {"make", "nest", "set", "start"} /\ kinds[i] \in G
                         /\ undos[i] \in Seq(G) /\ whos[i] \in {"tcp", "leave", "ignore"}
      /\ \A i \in 1..n : ops[i] = "start" <=> i = m
      /\ kinds[m] = lead
  BY DEF CpuQueue
<1>3. /\ \A k \in G : \E i \in 1..n : kinds[i] = k /\ ops[i] \in {"make", "nest"}
      /\ \A i \in 1..n : i > m => ops[i] = "set" /\ (undos[i] # <<>> => undos[i][1] = lead)
      /\ \A i, j \in 1..n : i < j /\ {ops[i], ops[j]} \subseteq {"make", "nest"} => kinds[i] # kinds[j]
      /\ \A i \in 1..n : \A k \in DOMAIN undos[i] : k # 1 => undos[i][k] # lead
  BY DEF CpuQueue
<1>4. \A k \in G : /\ <<CpuOf(q), k>> \in Objects /\ Family(<<CpuOf(q), k>>) = "cpu" /\ Leader(<<CpuOf(q), k>>) = <<CpuOf(q), lead>>
                   /\ (Startable(<<CpuOf(q), k>>) <=> k = lead)
                   /\ \A j \in G : <<CpuOf(q), k>> \in Needs(<<CpuOf(q), j>>) => j = lead /\ k # lead
  <2> TAKE k \in G
  <2>1. k \in Group(lead) /\ q \in Queues /\ lead \in {"txq", "rxq"}
    BY <1>2
  <2>2. /\ <<CpuOf(q), k>> \in Objects /\ Family(<<CpuOf(q), k>>) = "cpu"
        /\ Leader(<<CpuOf(q), k>>) = <<CpuOf(q), lead>>
        /\ (Startable(<<CpuOf(q), k>>) <=> k = lead)
    BY <2>1, GroupOK
  <2>3. \A j \in Group(lead) : <<CpuOf(q), k>> \in Needs(<<CpuOf(q), j>>) => j = lead /\ k # lead
    BY <2>1, GroupOK
  <2> QED BY <2>2, <2>3
<1>5. lead \in G
  BY <1>2 DEF Group
<1> HIDE DEF G
<1>6. ASSUME NEW i \in 1..n, NEW j \in 1..n, i < j PROVE CreateOrder(s[i], s[j])
  <2> PICK c, d, k, l : c = s[i] /\ d = s[j] /\ k = kinds[i] /\ l = kinds[j]
    OBVIOUS
  <2>1. /\ CreateCall(c) /\ CreateCall(d)
        /\ c.op = ops[i] /\ c.on = <<CpuOf(q), k>> /\ d.op = ops[j] /\ d.on = <<CpuOf(q), l>> /\ d.otherwise = whos[j]
    BY <1>1
  <2>2. /\ k \in G /\ l \in G /\ ops[i] \in {"make", "nest", "set", "start"} /\ ops[j] \in {"make", "nest", "set", "start"}
    BY <1>2
  <2>3. c.op \in {"make", "nest"} /\ d.op \in {"make", "nest"} => c.on # d.on
    <3> SUFFICES ASSUME c.op \in {"make", "nest"} /\ d.op \in {"make", "nest"} PROVE k # l
      BY <2>1
    <3>1. {ops[i], ops[j]} \subseteq {"make", "nest"}
      BY <2>1
    <3> QED BY <3>1, <1>3, <1>6
  <2>4. c.op = "start" => i = m /\ d.op = "set"
    BY <1>2, <1>3, <1>6, <2>1
  <2>5. ASSUME c.op = "start", NEW x \in DOMAIN d.undo, d.undo[x].on \in Needs(c.on)
        PROVE  \E y \in DOMAIN d.undo : y < x /\ d.undo[y].on = c.on
    <3>1. /\ i = m /\ k = lead /\ j > m
      BY <2>4, <2>5, <1>2, <1>6
    <3>2. /\ DOMAIN d.undo = DOMAIN undos[j] /\ d.undo[x].on = <<CpuOf(q), undos[j][x]>>
      BY <1>1, <2>5
    <3>3. DOMAIN undos[j] = 1..Len(undos[j]) /\ Len(undos[j]) \in Nat /\ undos[j] # <<>> /\ x \in DOMAIN undos[j]
          /\ undos[j][x] \in G
      BY <3>2, <1>2, <2>5
    <3>4. undos[j][1] = lead /\ 1 \in DOMAIN undos[j]
      BY <3>1, <3>3, <1>3
    <3>5. undos[j][x] # lead
      BY <3>2, <3>3, <2>1, <2>5, <3>1, <1>4, <1>5
    <3>6. x # 1 /\ 1 < x
      BY <3>3, <3>4, <3>5
    <3>7. d.undo[1].on = <<CpuOf(q), lead>>
      BY <3>4, <1>1
    <3> QED BY <3>1, <3>2, <3>4, <3>6, <3>7, <2>1
  <2>6. Rank(c) <= Rank(d)
    <3>1. c.on \in Objects /\ d.on \in Objects /\ Family(c.on) = "cpu" /\ Family(d.on) = "cpu"
      BY <2>1, <2>2, <1>4
    <3>2. \A f \in Protocols : ~Opens(d, f)
      BY <3>1, RankOK DEF Protocols
    <3> QED BY <3>1, <3>2, QuietRank
  <2> QED BY <2>1, <2>2, <2>3, <2>4, <2>5, <2>6 DEF CreateOrder
<1>7. \A i \in 1..n : s[i].op # "release" /\ Family(s[i].on) = "cpu" /\ Leader(s[i].on) = <<CpuOf(q), lead>>
  <2> TAKE i \in 1..n
  <2>1. kinds[i] \in G /\ s[i].op = ops[i] /\ s[i].on = <<CpuOf(q), kinds[i]>> /\ ops[i] # "release"
    BY <1>1, <1>2
  <2> QED BY <2>1, <1>4
<1>8. s \in Seq(CreateCalls \cup Drops)
  BY <1>1
<1>9. CreateFunction(s)
  <2>1. \A i, j \in DOMAIN s : CreateTogether(s[i], s[j])
    BY <1>1, <1>7 DEF CreateTogether
  <2> QED BY <1>1, <1>6, <1>7, <1>8, <2>1 DEF CreateFunction
<1>10. Creation(Calls(s), O)
  <2>1. /\ \A c \in Calls(s) : \E i \in 1..n : c = s[i]
        /\ \A i \in 1..n : s[i] \in Calls(s)
    BY <1>1 DEF Calls
  <2>2. ASSUME NEW c \in Calls(s) PROVE CreateCall(c) /\ c.on \in O /\ \A k \in DOMAIN c.undo : c.undo[k].on \in O
    <3>1. PICK i \in 1..n : c = s[i]
      BY <2>1
    <3>2. i \in 1..n /\ kinds[i] \in G /\ undos[i] \in Seq(G)
      BY <1>2
    <3>4. \A k \in DOMAIN undos[i] : undos[i][k] \in G
      BY <3>2
    <3>5. c.on = <<CpuOf(q), kinds[i]>> /\ CreateCall(c) /\ DOMAIN c.undo = DOMAIN undos[i]
          /\ \A k \in DOMAIN undos[i] : c.undo[k].on = <<CpuOf(q), undos[i][k]>>
      BY <3>1, <1>1
    <3> QED BY <3>2, <3>4, <3>5
  <2>3. ASSUME NEW k \in G PROVE \E c \in Calls(s) : c.op \in {"make", "nest"} /\ c.on = <<CpuOf(q), k>>
    <3>1. PICK i \in 1..n : kinds[i] = k /\ ops[i] \in {"make", "nest"}
      BY <1>3
    <3> QED BY <3>1, <2>1, <1>1
  <2>4. ASSUME NEW k \in G PROVE \E c \in Calls(s) : Creates(c, <<CpuOf(q), k>>)
    <3>1. CASE k = lead
      <4>1. s[m].op = "start" /\ s[m].on = <<CpuOf(q), lead>> /\ s[m] \in Calls(s) /\ Startable(<<CpuOf(q), lead>>)
        BY <1>1, <1>2, <1>4, <1>5, <2>1
      <4> QED BY <3>1, <4>1 DEF Creates
    <3>2. CASE k # lead
      BY <3>2, <2>3, <1>4 DEF Creates
    <3> QED BY <3>1, <3>2
  <2>5. ASSUME NEW c \in Calls(s), c.op = "start" PROVE \E d \in Calls(s) : d.op \in {"make", "nest"} /\ d.on = c.on
    <3>1. PICK k \in G : c.on = <<CpuOf(q), k>>
      BY <2>2
    <3> QED BY <3>1, <2>3
  <2> QED BY <2>2, <2>4, <2>5 DEF Creation
<1>11. s # <<>> /\ \A c \in Calls(s) : c.otherwise # "return"
  BY <1>1, <1>2 DEF Calls
<1> QED BY <1>9, <1>10, <1>11 DEF Part, G

\* create_txq_cpu_rss makes the Txq, its pool and its map.
LEMMA CpuTxqOK ==
  ASSUME NEW q \in Queues
  PROVE  /\ Part(CpuTxq(q), {<<CpuOf(q), k>> : k \in {"txq", "pool", "tx_map"}})
         /\ \A c \in Calls(CpuTxq(q)) : c.otherwise # "return"
<1> DEFINE ops   == <<"nest", "nest", "make", "set", "set", "set", "start", "set">>
           kinds == <<"tx_map", "pool", "txq", "txq", "txq", "txq", "txq", "txq">>
           whos  == <<"tcp", "tcp", "tcp", "tcp", "leave", "tcp", "tcp", "tcp">>
           nil   == <<>>
           map   == <<"tx_map">>
           pool  == <<"pool", "tx_map">>
           txq   == <<"txq", "pool", "tx_map">>
           undos == <<nil, map, pool, txq, txq, txq, txq, txq>>
           Map   == <<Drop(<<CpuOf(q), "tx_map">>)>>
           Pool  == <<Drop(<<CpuOf(q), "pool">>)>> \o Map
           Txq   == <<Drop(<<CpuOf(q), "txq">>)>> \o Pool
           paths == <<nil, Map, Pool, Txq, Txq, Txq, Txq, Txq>>
<1>1. /\ nil = Undo(q, nil) /\ Map = Undo(q, map) /\ Pool = Undo(q, pool) /\ Txq = Undo(q, txq)
  BY DEF Undo
<1>2. Group("txq") = {"txq", "pool", "tx_map"}
  BY DEF Group
<1>3. /\ {nil, map, pool, txq} \subseteq Seq(Group("txq"))
      /\ \A u \in {nil, map, pool, txq} : \A k \in DOMAIN u : k # 1 => u[k] # "txq"
      /\ txq # <<>> /\ txq[1] = "txq"
  BY <1>2
<1>4. CpuTxq(q) = << Call("nest",  <<CpuOf(q), "tx_map">>, nil,  "tcp"), Call("nest",  <<CpuOf(q), "pool">>, Map, "tcp"),
                     Call("make",  <<CpuOf(q), "txq">>,    Pool, "tcp"), Call("set",   <<CpuOf(q), "txq">>,  Txq, "tcp"),
                     Call("set",   <<CpuOf(q), "txq">>,  Txq, "leave"),  Call("set",   <<CpuOf(q), "txq">>,  Txq, "tcp"),
                     Call("start", <<CpuOf(q), "txq">>,  Txq, "tcp"),    Call("set",   <<CpuOf(q), "txq">>,  Txq, "tcp") >>
  BY DEF CpuTxq, CpuOf
<1> HIDE DEF nil, map, pool, txq, Map, Pool, Txq
<1>5. CpuTxq(q) = [i \in 1..8 |-> Call(ops[i], <<CpuOf(q), kinds[i]>>, paths[i], whos[i])]
  BY <1>4
<1>6. undos \in [1..8 -> Seq(Group("txq"))] /\ \A i \in 1..8 : paths[i] = Undo(q, undos[i])
  BY <1>1, <1>3
<1>7. /\ ops \in [1..8 -> {"make", "nest", "set", "start"}] /\ kinds \in [1..8 -> Group("txq")]
      /\ whos \in [1..8 -> {"tcp", "leave", "ignore"}]
  BY <1>2
<1>8. /\ \A k \in Group("txq") : \E i \in 1..8 : kinds[i] = k /\ ops[i] \in {"make", "nest"}
      /\ \A i, j \in 1..8 : i < j /\ {ops[i], ops[j]} \subseteq {"make", "nest"} => kinds[i] # kinds[j]
      /\ kinds[7] = "txq" /\ \A i \in 1..8 : ops[i] = "start" <=> i = 7
  BY <1>2
<1>9. /\ \A i \in 1..8 : i > 7 => ops[i] = "set" /\ (undos[i] # <<>> => undos[i][1] = "txq")
      /\ \A i \in 1..8 : \A k \in DOMAIN undos[i] : k # 1 => undos[i][k] # "txq"
      /\ \A i \in 1..8 : /\ ops[i] = "nest" => whos[i] = "tcp"
                         /\ whos[i] = "ignore" => ops[i] = "set"
                         /\ whos[i] = "leave" => undos[i] # <<>> /\ undos[i][1] = "txq"
  BY <1>3
<1> HIDE DEF ops, kinds, undos, whos, paths
<1>10. CpuQueue(CpuTxq(q), q, "txq", 8, 7, ops, kinds, undos, whos, paths)
  BY <1>5, <1>6, <1>7, <1>8, <1>9 DEF CpuQueue
<1>11. /\ Part(CpuTxq(q), {<<CpuOf(q), k>> : k \in Group("txq")})
       /\ \A c \in Calls(CpuTxq(q)) : c.otherwise # "return"
  BY <1>10, CpuPart
<1> QED BY <1>2, <1>11

\* create_rxq_cpu_rss makes the Rxq and its map.
LEMMA CpuRxqOK ==
  ASSUME NEW q \in Queues
  PROVE  Part(CpuRxq(q), {<<CpuOf(q), k>> : k \in {"rxq", "rx_map"}})
<1> DEFINE ops   == <<"nest", "make", "set", "set", "set", "set", "start">>
           kinds == <<"rx_map", "rxq", "rxq", "rxq", "rxq", "rxq", "rxq">>
           whos  == <<"tcp", "tcp", "tcp", "leave", "tcp", "ignore", "tcp">>
           nil   == <<>>
           map   == <<"rx_map">>
           rxq   == <<"rxq", "rx_map">>
           undos == <<nil, map, rxq, rxq, rxq, nil, rxq>>
           Map   == <<Drop(<<CpuOf(q), "rx_map">>)>>
           Rxq   == <<Drop(<<CpuOf(q), "rxq">>)>> \o Map
           paths == <<nil, Map, Rxq, Rxq, Rxq, nil, Rxq>>
<1>1. /\ nil = Undo(q, nil) /\ Map = Undo(q, map) /\ Rxq = Undo(q, rxq)
  BY DEF Undo
<1>2. Group("rxq") = {"rxq", "rx_map"}
  BY DEF Group
<1>3. /\ {nil, map, rxq} \subseteq Seq(Group("rxq"))
      /\ \A u \in {nil, map, rxq} : \A k \in DOMAIN u : k # 1 => u[k] # "rxq"
      /\ rxq # <<>> /\ rxq[1] = "rxq"
  BY <1>2
<1>4. CpuRxq(q) = << Call("nest",  <<CpuOf(q), "rx_map">>, nil, "tcp"), Call("make", <<CpuOf(q), "rxq">>, Map, "tcp"),
                     Call("set",   <<CpuOf(q), "rxq">>, Rxq, "tcp"),    Call("set",  <<CpuOf(q), "rxq">>, Rxq, "leave"),
                     Call("set",   <<CpuOf(q), "rxq">>, Rxq, "tcp"),    Call("set",  <<CpuOf(q), "rxq">>, nil, "ignore"),
                     Call("start", <<CpuOf(q), "rxq">>, Rxq, "tcp") >>
  BY DEF CpuRxq, CpuOf
<1> HIDE DEF nil, map, rxq, Map, Rxq
<1>5. CpuRxq(q) = [i \in 1..7 |-> Call(ops[i], <<CpuOf(q), kinds[i]>>, paths[i], whos[i])]
  BY <1>4
<1>6. undos \in [1..7 -> Seq(Group("rxq"))] /\ \A i \in 1..7 : paths[i] = Undo(q, undos[i])
  BY <1>1, <1>3
<1>7. /\ ops \in [1..7 -> {"make", "nest", "set", "start"}] /\ kinds \in [1..7 -> Group("rxq")]
      /\ whos \in [1..7 -> {"tcp", "leave", "ignore"}]
  BY <1>2
<1>8. /\ \A k \in Group("rxq") : \E i \in 1..7 : kinds[i] = k /\ ops[i] \in {"make", "nest"}
      /\ \A i, j \in 1..7 : i < j /\ {ops[i], ops[j]} \subseteq {"make", "nest"} => kinds[i] # kinds[j]
      /\ kinds[7] = "rxq" /\ \A i \in 1..7 : ops[i] = "start" <=> i = 7
  BY <1>2
<1>9. /\ \A i \in 1..7 : i > 7 => ops[i] = "set" /\ (undos[i] # <<>> => undos[i][1] = "rxq")
      /\ \A i \in 1..7 : \A k \in DOMAIN undos[i] : k # 1 => undos[i][k] # "rxq"
      /\ \A i \in 1..7 : /\ ops[i] = "nest" => whos[i] = "tcp"
                         /\ whos[i] = "ignore" => ops[i] = "set"
                         /\ whos[i] = "leave" => undos[i] # <<>> /\ undos[i][1] = "rxq"
  BY <1>3
<1> HIDE DEF ops, kinds, undos, whos, paths
<1>10. CpuQueue(CpuRxq(q), q, "rxq", 7, 7, ops, kinds, undos, whos, paths)
  BY <1>5, <1>6, <1>7, <1>8, <1>9 DEF CpuQueue
<1>11. Part(CpuRxq(q), {<<CpuOf(q), k>> : k \in Group("rxq")})
  BY <1>10, CpuPart
<1> QED BY <1>2, <1>11

\* Which objects are apart, and which calls open no stage.
LEMMA ApartOwners ==
  ASSUME NEW O, NEW X, O \subseteq Objects, X \subseteq Objects,
         \A o \in O, x \in X : o[1] # x[1],
         \A o \in O, x \in X : ~(Family(o) = "page" /\ Family(x) = "tcp")
  PROVE  Apart(O, X)
<1>1. ASSUME NEW o \in O, NEW x \in X PROVE o # x /\ o \notin Needs(x) /\ (x \in Needs(o) => Family(x) = "page")
  <2>1. o \in Objects /\ x \in Objects /\ o[1] # x[1] /\ ~(Family(o) = "page" /\ Family(x) = "tcp")
    OBVIOUS
  <2> QED BY <2>1, NeedsOK
<1> QED BY <1>1 DEF Apart

\* Only the creation of a first receive queue opens a stage.
LEMMA QuietCalls ==
  ASSUME NEW C, NEW O, Creation(C, O), \A o \in O, f \in Protocols : o # First(f)
  PROVE  Quiet(C)
BY DEF Quiet, Opens, Creation

\* The first receive queue of a protocol.
LEMMA FirstOK ==
  ASSUME NEW f \in Protocols
  PROVE  First(f)[1] = (IF f = "icmp" THEN <<"icmp", "0">> ELSE <<f, Order[1]>>) /\ First(f)[2] = "rxq"
         /\ Family(First(f)) = f
BY DEF First, Family

\* The objects of an owner that a run with, or without, the server uses.
OwnedBy(w) == {o \in Objects : o[1] = w /\ (OfServer(o) => http_server)}

\* The objects of an owner that are in use in this mode.
LEMMA OwnedOK ==
  ASSUME NEW w \in Owners, NEW K, K \subseteq KindsOf(w[1]),
         \A k \in KindsOf(w[1]) : k \in K <=> (OfServer(<<w, k>>) => http_server)
  PROVE  {<<w, k>> : k \in K} = OwnedBy(w)
<1>1. ASSUME NEW k \in K PROVE <<w, k>> \in OwnedBy(w)
  BY IsObject DEF OwnedBy
<1>2. ASSUME NEW o \in OwnedBy(w) PROVE \E k \in K : o = <<w, k>>
  <2>1. o \in Objects /\ o[1] = w /\ (OfServer(o) => http_server)
    BY DEF OwnedBy
  <2>2. o = <<w, o[2]>> /\ o[2] \in KindsOf(w[1])
    BY <2>1, ObjectOK DEF Family
  <2> QED BY <2>1, <2>2
<1> QED BY <1>1, <1>2

\* A function of one call.
LEMMA OneCall ==
  ASSUME NEW o \in Objects, ~Startable(o), NEW f \in Protocols, Stage(Family(o)) = Stage(f)
  PROVE  Part(<<Call("make", o, <<>>, f)>>, {o})
<1> PICK d, op : op = "make" /\ d = Call(op, o, <<>>, f)
  OBVIOUS
<1>1. CreateCall(d) /\ d \in CreateCalls /\ d.op = "make" /\ d.on = o /\ d.undo = <<>> /\ d.otherwise = f
  <2>1. op \in {"make", "set", "start"} /\ op # "start"
    OBVIOUS
  <2> QED BY <2>1, PlainCall
<1> PICK s : s = <<d>>
  OBVIOUS
<1>2. s \in Seq(CreateCalls \cup Drops) /\ DOMAIN s = {1} /\ s[1] = d /\ s # <<>>
  BY <1>1
<1>3. CreateFunction(s) /\ Calls(s) = {d}
  <2>1. f # "leave"
    BY DEF Protocols
  <2> QED BY <1>1, <1>2, <2>1 DEF CreateFunction, CreateTogether, Calls
<1>4. Creation({d}, {o})
  BY <1>1 DEF Creation, Creates
<1> QED BY <1>2, <1>3, <1>4 DEF Part

\* The CPU RSS queues of one index: the progress engine, the Txq and the Rxq.
LEMMA CpuMade ==
  ASSUME NEW q \in Queues, NEW pe, pe = <<Call("make", <<CpuOf(q), "pe">>, <<>>, "tcp")>>,
         NEW p, p = <<pe, CpuTxq(q), CpuRxq(q)>>
  PROVE  /\ Parts(p, {<<CpuOf(q), k>> : k \in {"pe", "txq", "pool", "tx_map", "rxq", "rx_map"}})
         /\ Len(p) = 3 /\ \A a \in 1..3 : Quiet(Calls(p[a]))
<1> DEFINE w == CpuOf(q)
           A == {<<w, "pe">>}
           B == {<<w, k>> : k \in {"txq", "pool", "tx_map"}}
           C == {<<w, k>> : k \in {"rxq", "rx_map"}}
           O == {<<w, k>> : k \in {"pe", "txq", "pool", "tx_map", "rxq", "rx_map"}}
<1>1. w \in Owners /\ w[1] = "cpu"
  BY DEF Owners, CpuOf
<1>2. \A k \in {"pe", "txq", "pool", "tx_map", "rxq", "rx_map"} : <<w, k>> \in Objects /\ Family(<<w, k>>) = "cpu"
  <2>1. \A k \in {"pe", "txq", "pool", "tx_map", "rxq", "rx_map"} : k \in KindsOf(w[1])
    BY <1>1 DEF KindsOf
  <2> QED BY <1>1, <2>1, IsObject
<1>3. Part(pe, A)
  <2>1. ~Startable(<<w, "pe">>)
    BY DEF Startable
  <2>2. "tcp" \in Protocols /\ Stage("tcp") = Stage("cpu")
    BY StageOK DEF Protocols
  <2> QED BY <1>2, <2>1, <2>2, OneCall
<1>4. Part(CpuTxq(q), B) /\ Part(CpuRxq(q), C)
  BY CpuTxqOK, CpuRxqOK
<1>5. Apart(A, B) /\ Apart(A \cup B, C)
  BY <1>1 DEF Apart, Needs
<1>6. A \cup B \cup C = O /\ \A o \in O : o \in Objects /\ Family(o) = "cpu"
  BY <1>2
<1> HIDE DEF w, A, B, C, O
<1>7. \A o \in A \cup B \cup C, f \in Protocols : o # First(f)
  BY <1>6, FirstOK DEF Protocols
<1>8. Quiet(Calls(pe)) /\ Quiet(Calls(CpuTxq(q))) /\ Quiet(Calls(CpuRxq(q)))
  <2>1. Creation(Calls(pe), A) /\ Creation(Calls(CpuTxq(q)), B) /\ Creation(Calls(CpuRxq(q)), C)
    BY <1>3, <1>4 DEF Part
  <2> QED BY <2>1, <1>7, QuietCalls
<1>9. \A o, x \in A \cup B \cup C : Stage(Family(o)) <= Stage(Family(x))
  BY <1>6, StageOK
<1> DEFINE a == <<pe>>   b == <<CpuTxq(q)>>   c == <<CpuRxq(q)>>
<1>10. /\ Parts(a, A) /\ Parts(b, B) /\ Parts(c, C)
       /\ AllCalls(b) = Calls(CpuTxq(q)) /\ AllCalls(c) = Calls(CpuRxq(q))
  BY <1>3, <1>4, OnePart
<1>11. p = (a \o b) \o c /\ Len(p) = 3 /\ p[1] = pe /\ p[2] = CpuTxq(q) /\ p[3] = CpuRxq(q)
  OBVIOUS
<1> HIDE DEF a, b, c
<1>12. Parts(a \o b, A \cup B)
  BY <1>5, <1>8, <1>9, <1>10, PartsCat
<1>13. Parts((a \o b) \o c, (A \cup B) \cup C)
  BY <1>5, <1>8, <1>9, <1>10, <1>12, PartsCat
<1>14. Parts(p, O)
  BY <1>6, <1>11, <1>13
<1>15. \A i \in 1..3 : Quiet(Calls(p[i]))
  BY <1>8, <1>11
<1> QED BY <1>11, <1>14, <1>15 DEF O, w
-----------------------------------------------------------------------------
(* The queues of the protocols.                                            *)

\* A function that makes no receive queue opens no stage.
LEMMA NoReceiveQueue ==
  ASSUME NEW s, NEW O, Part(s, O), \A o \in O : o[2] # "rxq"
  PROVE  Quiet(Calls(s))
<1>1. \A o \in O, f \in Protocols : o # First(f)
  BY FirstOK
<1> QED BY <1>1, QuietCalls DEF Part

\* A receive queue and its semaphore.
LEMMA RxSemOK ==
  ASSUME NEW w \in Owners, NEW f \in {"udp", "tcp"}, w[1] = f,
         NEW s, s = RxQueue(w, f) \o Semaphore(w, "sem", f)
  PROVE  /\ Part(s, {<<w, k>> : k \in {"rxq", "mmap", "mem", "rxctx", "sem"}})
         /\ \A c \in Calls(s) : c.otherwise # "leave"
         /\ Call("make", <<w, "rxq">>, <<>>, "return") \in Calls(s)
<1> DEFINE A == {<<w, k>> : k \in {"rxq", "mmap", "mem", "rxctx"}}
           B == {<<w, k>> : k \in {"sem"}}
           a == RxQueue(w, f)
           b == Semaphore(w, "sem", f)
<1>1. f \in Protocols /\ f # "leave"
  BY DEF Protocols
<1>2. /\ Part(a, A) /\ Call("make", <<w, "rxq">>, <<>>, "return") \in Calls(a)
      /\ \A c \in Calls(a) : c.otherwise # "leave"
  BY <1>1, RxQueueOK
<1>3. Part(b, B) /\ \A c \in Calls(b) : c.otherwise # "leave"
  BY <1>1, SemaphoreOK
<1>4. Apart(A, B)
  BY DEF Apart, Needs
<1>5. Quiet(Calls(b))
  BY <1>3, NoReceiveQueue
<1>6. \A o \in A, x \in B : Stage(Family(o)) = Stage(Family(x))
  BY DEF Family
<1>7. A \cup B = {<<w, k>> : k \in {"rxq", "mmap", "mem", "rxctx", "sem"}}
  OBVIOUS
<1> HIDE DEF A, B, a, b
<1>8. Part(a \o b, A \cup B) /\ Calls(a \o b) = Calls(a) \cup Calls(b)
  <2>1. Halves(a, b, A, B)
    BY <1>2, <1>3, <1>4, <1>5, <1>6 DEF Halves
  <2> QED BY <2>1, HalvesOK
<1>9. s = a \o b
  BY DEF a, b
<1> QED BY <1>2, <1>3, <1>7, <1>8, <1>9

\* The HTTP server's part of a TCP queue: semaphore and send queue.
LEMMA HttpQueueOK ==
  ASSUME NEW w \in Owners, w[1] = "tcp",
         NEW s, s = Semaphore(w, "sem_http", "tcp") \o SendQueue(w, "tcp")
  PROVE  /\ Part(s, {<<w, k>> : k \in {"sem_http", "txq", "txctx"}})
         /\ \A c \in Calls(s) : c.otherwise # "leave"
<1> DEFINE A == {<<w, k>> : k \in {"sem_http"}}
           B == {<<w, k>> : k \in {"txq", "txctx"}}
           a == Semaphore(w, "sem_http", "tcp")
           b == SendQueue(w, "tcp")
<1>1. "tcp" \in Protocols
  BY DEF Protocols
<1>2. Part(a, A) /\ \A c \in Calls(a) : c.otherwise # "leave"
  BY <1>1, SemaphoreOK
<1>3. Part(b, B) /\ \A c \in Calls(b) : c.otherwise # "leave"
  BY SendQueueOK
<1>4. Apart(A, B)
  <2>1. Needs(<<w, "sem_http">>) = {} /\ Needs(<<w, "txq">>) = {}
        /\ Needs(<<w, "txctx">>) = {<<<<"page", p>>, "mem">> : p \in Pages}
    BY DEF Needs
  <2>2. w # <<"page", "index">> /\ \A p \in Pages : w # <<"page", p>>
    OBVIOUS
  <2>3. ASSUME NEW k \in {"txq", "txctx"}
        PROVE  /\ <<w, "sem_http">> # <<w, k>> /\ <<w, "sem_http">> \notin Needs(<<w, k>>)
               /\ <<w, k>> \notin Needs(<<w, "sem_http">>)
    BY <2>1, <2>2
  <2> QED BY <2>3 DEF Apart
<1>5. Quiet(Calls(b))
  BY <1>3, NoReceiveQueue
<1>6. \A o \in A, x \in B : Stage(Family(o)) = Stage(Family(x))
  BY DEF Family
<1>7. A \cup B = {<<w, k>> : k \in {"sem_http", "txq", "txctx"}}
  OBVIOUS
<1> HIDE DEF A, B, a, b
<1>8. Part(a \o b, A \cup B) /\ Calls(a \o b) = Calls(a) \cup Calls(b)
  <2>1. Halves(a, b, A, B)
    BY <1>2, <1>3, <1>4, <1>5, <1>6 DEF Halves
  <2> QED BY <2>1, HalvesOK
<1>9. s = a \o b
  BY DEF a, b
<1> QED BY <1>2, <1>3, <1>7, <1>8, <1>9

\* A queue of create_tcp_queues.
LEMMA TcpQueueOK ==
  ASSUME NEW w \in Owners, w[1] = "tcp",
         NEW s, s = RxQueue(w, "tcp") \o Semaphore(w, "sem", "tcp")
                    \o (IF http_server THEN Semaphore(w, "sem_http", "tcp") \o SendQueue(w, "tcp") ELSE <<>>)
  PROVE  /\ Part(s, OwnedBy(w))
         /\ Call("make", <<w, "rxq">>, <<>>, "return") \in Calls(s)
<1> DEFINE A == {<<w, k>> : k \in {"rxq", "mmap", "mem", "rxctx", "sem"}}
           B == {<<w, k>> : k \in {"sem_http", "txq", "txctx"}}
           a == RxQueue(w, "tcp") \o Semaphore(w, "sem", "tcp")
           b == Semaphore(w, "sem_http", "tcp") \o SendQueue(w, "tcp")
<1>1. /\ Part(a, A) /\ Call("make", <<w, "rxq">>, <<>>, "return") \in Calls(a)
      /\ \A c \in Calls(a) : c.otherwise # "leave"
  BY RxSemOK
<1>2. Part(b, B) /\ \A c \in Calls(b) : c.otherwise # "leave"
  BY HttpQueueOK
<1>3. Apart(A, B)
  <2>1. /\ Needs(<<w, "sem_http">>) = {} /\ Needs(<<w, "txq">>) = {}
        /\ Needs(<<w, "txctx">>) = {<<<<"page", p>>, "mem">> : p \in Pages}
        /\ Needs(<<w, "rxq">>) = {} /\ Needs(<<w, "mem">>) = {} /\ Needs(<<w, "sem">>) = {}
        /\ Needs(<<w, "rxctx">>) = {<<w, "mmap">>, <<w, "mem">>} /\ Needs(<<w, "mmap">>) = {<<w, "mem">>}
    BY DEF Needs
  <2>2. w # <<"page", "index">> /\ \A p \in Pages : w # <<"page", p>>
    OBVIOUS
  <2> QED BY <2>1, <2>2 DEF Apart
<1>4. Quiet(Calls(b))
  BY <1>2, NoReceiveQueue
<1>5. \A o \in A, x \in B : Stage(Family(o)) = Stage(Family(x))
  BY DEF Family
<1>6. KindsOf(w[1]) = {"rxq", "rxctx", "mmap", "mem", "sem", "sem_http", "txq", "txctx"}
  BY DEF KindsOf
<1>7. \A k \in KindsOf(w[1]) : OfServer(<<w, k>>) <=> k \in {"sem_http", "txq", "txctx"}
  BY DEF OfServer
<1>8. CASE http_server
  <2>1. s = a \o b
    BY <1>8
  <2>2. A \cup B = {<<w, k>> : k \in KindsOf(w[1])}
    BY <1>6
  <2>3. {<<w, k>> : k \in KindsOf(w[1])} = OwnedBy(w)
    BY <1>8, OwnedOK
  <2> HIDE DEF A, B, a, b
  <2>4. Part(a \o b, A \cup B) /\ Calls(a \o b) = Calls(a) \cup Calls(b)
    <3>1. Halves(a, b, A, B)
      BY <1>1, <1>2, <1>3, <1>4, <1>5 DEF Halves
    <3> QED BY <3>1, HalvesOK
  <2> QED BY <1>1, <2>1, <2>2, <2>3, <2>4
<1>9. CASE ~http_server
  <2>1. a \in Seq(CreateCalls \cup Drops)
    BY <1>1 DEF Part, CreateFunction
  <2>2. s = a \o <<>>
    BY <1>9
  <2>3. A = OwnedBy(w)
    <3>1. {"rxq", "mmap", "mem", "rxctx", "sem"} \subseteq KindsOf(w[1])
      BY <1>6
    <3>2. \A k \in KindsOf(w[1]) : k \in {"rxq", "mmap", "mem", "rxctx", "sem"} <=> (OfServer(<<w, k>>) => http_server)
      BY <1>6, <1>7, <1>9
    <3> QED BY <3>1, <3>2, OwnedOK
  <2> HIDE DEF A, a
  <2>4. s = a
    BY <2>1, <2>2, ConcatEmptySeq
  <2> QED BY <1>1, <2>3, <2>4
<1> QED BY <1>8, <1>9

\* A queue of create_udp_queues.
LEMMA UdpQueueOK ==
  ASSUME NEW w \in Owners, w[1] = "udp",
         NEW s, s = RxQueue(w, "udp") \o Semaphore(w, "sem", "udp")
  PROVE  /\ Part(s, OwnedBy(w))
         /\ Call("make", <<w, "rxq">>, <<>>, "return") \in Calls(s)
<1> DEFINE K == {"rxq", "mmap", "mem", "rxctx", "sem"}
<1>1. Part(s, {<<w, k>> : k \in K}) /\ Call("make", <<w, "rxq">>, <<>>, "return") \in Calls(s)
  BY RxSemOK
<1>2. KindsOf(w[1]) = K /\ \A k \in K : ~OfServer(<<w, k>>)
  BY DEF KindsOf, OfServer
<1> HIDE DEF K
<1>3. {<<w, k>> : k \in K} = OwnedBy(w)
  BY <1>2, OwnedOK
<1> QED BY <1>1, <1>3

\* The queue of create_icmp_queues.
LEMMA IcmpQueueOK ==
  ASSUME NEW w \in Owners, w[1] = "icmp", NEW s, s = RxQueue(w, "icmp") \o SendQueue(w, "icmp")
  PROVE  /\ Part(s, OwnedBy(w))
         /\ Call("make", <<w, "rxq">>, <<>>, "return") \in Calls(s)
<1> DEFINE A == {<<w, k>> : k \in {"rxq", "mmap", "mem", "rxctx"}}
           B == {<<w, k>> : k \in {"txq", "txctx"}}
           a == RxQueue(w, "icmp")
           b == SendQueue(w, "icmp")
<1>1. "icmp" \in Protocols
  BY DEF Protocols
<1>2. /\ Part(a, A) /\ Call("make", <<w, "rxq">>, <<>>, "return") \in Calls(a)
      /\ \A c \in Calls(a) : c.otherwise # "leave"
  BY <1>1, RxQueueOK
<1>3. Part(b, B) /\ \A c \in Calls(b) : c.otherwise # "leave"
  BY SendQueueOK
<1>4. Apart(A, B)
  BY DEF Apart, Needs
<1>5. Quiet(Calls(b))
  BY <1>3, NoReceiveQueue
<1>6. \A o \in A, x \in B : Stage(Family(o)) = Stage(Family(x))
  BY DEF Family
<1>7. KindsOf(w[1]) = {"rxq", "rxctx", "mmap", "mem", "txq", "txctx"} /\ \A k \in KindsOf(w[1]) : ~OfServer(<<w, k>>)
  BY DEF KindsOf, OfServer
<1>8. A \cup B = {<<w, k>> : k \in KindsOf(w[1])}
  BY <1>7
<1> HIDE DEF A, B, a, b
<1>9. Part(a \o b, A \cup B) /\ Calls(a \o b) = Calls(a) \cup Calls(b)
  <2>1. Halves(a, b, A, B)
    BY <1>2, <1>3, <1>4, <1>5, <1>6 DEF Halves
  <2> QED BY <2>1, HalvesOK
<1>10. {<<w, k>> : k \in KindsOf(w[1])} = OwnedBy(w)
  BY <1>7, OwnedOK
<1>11. s = a \o b
  BY DEF a, b
<1> QED BY <1>2, <1>8, <1>9, <1>10, <1>11

\* The queues of a protocol, each made by one function.
LEMMA QueuesMade ==
  ASSUME NEW f \in {"udp", "tcp"}, NEW fun,
         \A q \in Queues : /\ Part(fun[q], OwnedBy(<<f, q>>))
                           /\ Call("make", <<<<f, q>>, "rxq">>, <<>>, "return") \in Calls(fun[q]),
         NEW body, body = [q \in Queues |-> <<fun[q]>>]
  PROVE  /\ Parts(ForEach(body), InUse({f}, http_server))
         /\ \E c \in AllCalls(ForEach(body)) : Opens(c, f)
<1> DEFINE O == [q \in Queues |-> OwnedBy(<<f, q>>)]
<1>1. \A q \in Queues : /\ body[q] = <<fun[q]>> /\ Parts(body[q], O[q]) /\ AllCalls(body[q]) = Calls(fun[q])
                        /\ Len(body[q]) = 1 /\ body[q][1] = fun[q]
  BY OnePart
<1>2. body \in [Queues -> Seq(Seq(CreateCalls \cup Drops))]
  <2>1. \A q \in Queues : body[q] \in Seq(Seq(CreateCalls \cup Drops))
    BY <1>1 DEF Parts, CreatePlan
  <2> QED BY <2>1
<1>3. \A q \in Queues : \A o \in O[q] : o \in Objects /\ o[1] = <<f, q>> /\ Family(o) = f /\ (OfServer(o) => http_server)
  BY DEF OwnedBy, Family
<1>4. \A o : o \in InUse({f}, http_server) <=> \E q \in Queues : o \in O[q]
  <2>1. ASSUME NEW o \in InUse({f}, http_server) PROVE \E q \in Queues : o \in O[q]
    <3>1. o \in Objects /\ Family(o) = f /\ (OfServer(o) => http_server)
      BY DEF InUse
    <3>2. o[1] = <<f, o[1][2]>> /\ o[1][2] \in Queues
      BY <3>1, ObjectOK
    <3> QED BY <3>1, <3>2 DEF OwnedBy
  <2> HIDE DEF O
  <2> QED BY <2>1, <1>3 DEF InUse
<1>5. \A q \in Queues : Creation(Calls(fun[q]), O[q])
  BY DEF Part
<1> HIDE DEF O
<1>6. \A q, r \in Queues : q # r => Apart(O[q], O[r])
  <2> TAKE q, r \in Queues
  <2> HAVE q # r
  <2>1. O[q] \subseteq Objects /\ O[r] \subseteq Objects
    BY <1>3
  <2>2. \A o \in O[q], x \in O[r] : o[1] # x[1] /\ Family(o) # "page"
    BY <1>3
  <2> QED BY <2>1, <2>2, ApartOwners
<1>7. \A q \in Queues, a \in 1..1 : q # Order[1] \/ a # 1 => Quiet(Calls(body[q][a]))
  <2> TAKE q \in Queues, a \in 1..1
  <2> HAVE q # Order[1] \/ a # 1
  <2>1. q # Order[1] /\ body[q][a] = fun[q]
    BY <1>1
  <2>2. ASSUME NEW o \in O[q], NEW g \in Protocols PROVE o # First(g)
    <3>1. o[1] = <<f, q>>
      BY <1>3
    <3>2. First(g)[1] = IF g = "icmp" THEN <<"icmp", "0">> ELSE <<g, Order[1]>>
      BY FirstOK
    <3>3. First(g)[1] # <<f, q>>
      BY <2>1, <3>2
    <3> QED BY <3>1, <3>3
  <2> QED BY <1>5, <2>1, <2>2, QuietCalls
<1>8. /\ Parts(ForEach(body), InUse({f}, http_server))
      /\ \A c : c \in AllCalls(ForEach(body)) <=> \E q \in Queues : c \in AllCalls(body[q])
  <2>1. \A q \in Queues : \A o \in O[q] : Stage(Family(o)) = Stage(f)
    BY <1>3
  <2>2. \A q \in Queues : /\ Len(body[q]) = 1 /\ Parts(body[q], O[q])
                          /\ \A o \in O[q] : Stage(Family(o)) = Stage(f)
    BY <1>1, <2>1
  <2>3. Bodies(body, 1, O, InUse({f}, http_server), Stage(f))
    <3> PICK M, stage : M = 1 /\ stage = Stage(f)
      OBVIOUS
    <3>1. M \in Nat \ {0}
      OBVIOUS
    <3>2. \A q \in Queues, a \in 1..M : q # Order[1] \/ a # 1 => Quiet(Calls(body[q][a]))
      BY <1>7
    <3>3. \A q \in Queues : /\ Len(body[q]) = M /\ Parts(body[q], O[q])
                            /\ \A o \in O[q] : Stage(Family(o)) = stage
      BY <2>2
    <3> QED BY <1>2, <1>4, <1>6, <3>1, <3>2, <3>3 DEF Bodies
  <2> QED BY <2>3, PartsEach
<1>9. \E c \in AllCalls(ForEach(body)) : Opens(c, f)
  <2> PICK c : c = Call("make", <<<<f, Order[1]>>, "rxq">>, <<>>, "return")
    OBVIOUS
  <2>1. Order[1] \in Queues
    BY OrderOK
  <2>2. c \in AllCalls(ForEach(body))
    BY <1>1, <1>8, <2>1
  <2>3. Opens(c, f)
    BY DEF Opens, First, Call
  <2> QED BY <2>2, <2>3
<1> QED BY <1>4, <1>8, <1>9

\* The last queue of the loops.
LEMMA LastOK == Last(Order) \in Queues
<1>1. Order \in Seq(Queues) /\ Len(Order) > 0
  BY OrderOK
<1> QED BY <1>1 DEF Last

\* create_udp_queues makes the objects of the UDP queues.
LEMMA UdpMade ==
  Parts(CreateUdp, InUse({"udp"}, http_server)) /\ \E c \in AllCalls(CreateUdp) : Opens(c, "udp")
<1> DEFINE fun  == [q \in Queues |-> RxQueue(<<"udp", q>>, "udp") \o Semaphore(<<"udp", q>>, "sem", "udp")]
           body == [q \in Queues |-> <<fun[q]>>]
           o    == <<<<"udp", Last(Order)>>, "rxq">>
           r    == <<Pipe(<<"udp", Last(Order)>>, "return")>>
<1>1. CreateUdp = ForEach(body) \o r
  <2>1. body = [q \in Queues |-> <<RxQueue(<<"udp", q>>, "udp") \o Semaphore(<<"udp", q>>, "sem", "udp")>>]
    OBVIOUS
  <2> HIDE DEF body
  <2> QED BY <2>1 DEF CreateUdp
<1>2. \A q \in Queues : /\ Part(fun[q], OwnedBy(<<"udp", q>>))
                        /\ Call("make", <<<<"udp", q>>, "rxq">>, <<>>, "return") \in Calls(fun[q])
  <2> TAKE q \in Queues
  <2> PICK w : w = <<"udp", q>>
    OBVIOUS
  <2>1. w \in Owners /\ w[1] = "udp" /\ fun[q] = RxQueue(w, "udp") \o Semaphore(w, "sem", "udp")
    BY OwnersOK
  <2> HIDE DEF fun
  <2> QED BY <2>1, UdpQueueOK
<1> HIDE DEF fun
<1>3. /\ Parts(ForEach(body), InUse({"udp"}, http_server)) /\ \E c \in AllCalls(ForEach(body)) : Opens(c, "udp")
  BY <1>2, QueuesMade
<1>4. r = <<<<Call("set", o, <<>>, "return")>>>>
  BY DEF Pipe
<1>5. o \in Objects /\ Family(o) = "udp" /\ ~OfServer(o)
  <2> PICK w : w = <<"udp", Last(Order)>>
    OBVIOUS
  <2>1. w \in Owners /\ w[1] = "udp" /\ "rxq" \in KindsOf(w[1])
    BY LastOK, OwnersOK DEF KindsOf
  <2> QED BY <2>1, IsObject DEF OfServer
<1>6. \A x \in InUse({"udp"}, http_server) : x \in Objects /\ Family(x) = "udp"
  BY DEF InUse
<1> HIDE DEF body, o, r
<1>7. o \in InUse({"udp"}, http_server) /\ "return" \notin Protocols /\ Stage("udp") <= Stage("udp")
  BY <1>5, StageOK DEF InUse, Protocols
<1>8. /\ Parts(ForEach(body) \o r, InUse({"udp"}, http_server))
      /\ AllCalls(ForEach(body) \o r) = AllCalls(ForEach(body)) \cup {Call("set", o, <<>>, "return")}
  BY <1>3, <1>4, <1>5, <1>6, <1>7, PipeAfter
<1> QED BY <1>1, <1>3, <1>8

\* The objects of a page.
LEMMA PageOwned ==
  ASSUME NEW page \in Pages, http_server
  PROVE  {<<<<"page", page>>, k>> : k \in {"mmap", "mem", "arr"}} = OwnedBy(<<"page", page>>)
<1> PICK w : w = <<"page", page>>
  OBVIOUS
<1>1. w \in Owners /\ KindsOf(w[1]) = {"mmap", "mem", "arr"}
  BY OwnersOK DEF KindsOf
<1>2. {<<w, k>> : k \in KindsOf(w[1])} = OwnedBy(w)
  BY <1>1, OwnedOK
<1> QED BY <1>1, <1>2

\* The three calls of create_tx_buf make the pages.
LEMMA PagesMade ==
  ASSUME http_server
  PROVE  Parts(<<TxBuf("index"), TxBuf("contacts"), TxBuf("not_found")>>, InUse({"page"}, http_server))
<1> DEFINE O(page) == OwnedBy(<<"page", page>>)
           a == <<TxBuf("index")>>   b == <<TxBuf("contacts")>>   c == <<TxBuf("not_found")>>
<1>1. \A page \in Pages : Part(TxBuf(page), O(page))
  BY TxBufOK, PageOwned
<1>2. \A page \in Pages : \A o \in O(page) : o \in Objects /\ o[1] = <<"page", page>> /\ Family(o) = "page"
  BY DEF OwnedBy, Family
<1>3. InUse({"page"}, http_server) = (O("index") \cup O("contacts")) \cup O("not_found")
  <2>1. ASSUME NEW o \in Objects, Family(o) = "page" PROVE \E page \in Pages : o \in O(page)
    BY <2>1, ObjectOK DEF OwnedBy
  <2>2. \A o \in InUse({"page"}, http_server) : o \in Objects /\ Family(o) = "page"
    BY DEF InUse
  <2> HIDE DEF O
  <2>3. \A page \in Pages : O(page) \subseteq InUse({"page"}, http_server)
    BY <1>2 DEF InUse
  <2>4. InUse({"page"}, http_server) \subseteq O("index") \cup O("contacts") \cup O("not_found")
    BY <2>1, <2>2 DEF Pages
  <2> QED BY <2>3, <2>4 DEF Pages
<1> HIDE DEF O
<1>4. \A page, other \in Pages : page # other => Apart(O(page), O(other))
  <2> TAKE page, other \in Pages
  <2> HAVE page # other
  <2>1. O(page) \subseteq Objects /\ O(other) \subseteq Objects
    BY <1>2
  <2>2. \A o \in O(page), x \in O(other) : o[1] # x[1] /\ Family(x) # "tcp"
    BY <1>2
  <2> QED BY <2>1, <2>2, ApartOwners
<1>5. Apart(O("index"), O("contacts")) /\ Apart(O("index") \cup O("contacts"), O("not_found"))
  BY <1>4 DEF Apart, Pages
<1>6. \A page \in Pages : Quiet(Calls(TxBuf(page)))
  <2> TAKE page \in Pages
  <2>1. \A o \in O(page), f \in Protocols : o # First(f)
    BY <1>2, FirstOK DEF Protocols
  <2>2. Creation(Calls(TxBuf(page)), O(page))
    BY <1>1 DEF Part
  <2> QED BY <2>1, <2>2, QuietCalls
<1>7. /\ Parts(a, O("index")) /\ Parts(b, O("contacts")) /\ Parts(c, O("not_found"))
      /\ Quiet(AllCalls(b)) /\ Quiet(AllCalls(c))
  <2>1. {"index", "contacts", "not_found"} \subseteq Pages
    BY DEF Pages
  <2> QED BY <2>1, <1>1, <1>6, OnePart
<1>8. <<TxBuf("index"), TxBuf("contacts"), TxBuf("not_found")>> = (a \o b) \o c
  OBVIOUS
<1>9. \A o, x \in (O("index") \cup O("contacts")) \cup O("not_found") : Stage(Family(o)) <= Stage(Family(x))
  BY <1>2, StageOK DEF Pages
<1> HIDE DEF a, b, c
<1>10. Parts(a \o b, O("index") \cup O("contacts"))
  BY <1>5, <1>7, <1>9, PartsCat
<1>11. Parts((a \o b) \o c, (O("index") \cup O("contacts")) \cup O("not_found"))
  BY <1>5, <1>7, <1>9, <1>10, PartsCat
<1> QED BY <1>3, <1>8, <1>11

\* The loop of create_tcp_queues over the CPU RSS queues makes their objects.
LEMMA CpuQueuesMade ==
  ASSUME http_server,
         NEW body, body = [q \in Queues |-> <<<<Call("make", <<CpuOf(q), "pe">>, <<>>, "tcp")>>, CpuTxq(q), CpuRxq(q)>>]
  PROVE  Parts(ForEach(body), InUse({"cpu"}, http_server))
<1> DEFINE O == [q \in Queues |-> OwnedBy(CpuOf(q))]
<1>1. ASSUME NEW q \in Queues
      PROVE  /\ {<<CpuOf(q), k>> : k \in {"pe", "txq", "pool", "tx_map", "rxq", "rx_map"}} = O[q]
             /\ \A o \in O[q] : o \in Objects /\ o[1] = CpuOf(q) /\ Family(o) = "cpu"
  <2> PICK w : w = CpuOf(q)
    OBVIOUS
  <2>1. w \in Owners /\ w[1] = "cpu" /\ KindsOf(w[1]) = {"pe", "txq", "pool", "tx_map", "rxq", "rx_map"}
    BY OwnersOK DEF KindsOf, CpuOf
  <2>2. {<<w, k>> : k \in KindsOf(w[1])} = OwnedBy(w)
    BY <2>1, OwnedOK
  <2>3. \A o \in OwnedBy(w) : o \in Objects /\ o[1] = w /\ Family(o) = "cpu"
    BY <2>1 DEF OwnedBy, Family
  <2> QED BY <2>1, <2>2, <2>3
<1>2. \A q \in Queues : /\ Parts(body[q], O[q]) /\ Len(body[q]) = 3 /\ \A a \in 1..3 : Quiet(Calls(body[q][a]))
  <2> TAKE q \in Queues
  <2> PICK pe, p : pe = <<Call("make", <<CpuOf(q), "pe">>, <<>>, "tcp")>> /\ p = <<pe, CpuTxq(q), CpuRxq(q)>>
    OBVIOUS
  <2>1. body[q] = p
    OBVIOUS
  <2>2. /\ Parts(p, {<<CpuOf(q), k>> : k \in {"pe", "txq", "pool", "tx_map", "rxq", "rx_map"}})
        /\ Len(p) = 3 /\ \A a \in 1..3 : Quiet(Calls(p[a]))
    BY CpuMade
  <2> QED BY <1>1, <2>1, <2>2
<1>3. body \in [Queues -> Seq(Seq(CreateCalls \cup Drops))]
  <2>1. \A q \in Queues : body[q] \in Seq(Seq(CreateCalls \cup Drops))
    BY <1>2 DEF Parts, CreatePlan
  <2>2. body = [q \in Queues |-> body[q]]
    OBVIOUS
  <2> QED BY <2>1, <2>2
<1>4. \A o : o \in InUse({"cpu"}, http_server) <=> \E q \in Queues : o \in O[q]
  <2>1. ASSUME NEW o \in InUse({"cpu"}, http_server) PROVE \E q \in Queues : o \in O[q]
    <3>1. o \in Objects /\ Family(o) = "cpu" /\ (OfServer(o) => http_server)
      BY DEF InUse
    <3>2. o[1] = CpuOf(o[1][2]) /\ o[1][2] \in Queues
      BY <3>1, ObjectOK DEF CpuOf
    <3> QED BY <3>1, <3>2 DEF OwnedBy
  <2> HIDE DEF O
  <2> QED BY <2>1, <1>1 DEF InUse
<1> HIDE DEF O
<1>5. \A q, r \in Queues : q # r => Apart(O[q], O[r])
  <2> TAKE q, r \in Queues
  <2> HAVE q # r
  <2>1. O[q] \subseteq Objects /\ O[r] \subseteq Objects
    BY <1>1
  <2>2. CpuOf(q) # CpuOf(r)
    BY DEF CpuOf
  <2>3. \A o \in O[q], x \in O[r] : o[1] # x[1] /\ Family(o) # "page"
    BY <1>1, <2>2
  <2> QED BY <2>1, <2>3, ApartOwners
<1>6. Bodies(body, 3, O, InUse({"cpu"}, http_server), Stage("cpu"))
  <2> PICK M, stage : M = 3 /\ stage = Stage("cpu")
    OBVIOUS
  <2>1. M \in Nat \ {0}
    OBVIOUS
  <2>2. \A q \in Queues, a \in 1..M : q # Order[1] \/ a # 1 => Quiet(Calls(body[q][a]))
    BY <1>2
  <2>3. \A q \in Queues : /\ Len(body[q]) = M /\ Parts(body[q], O[q])
                          /\ \A o \in O[q] : Stage(Family(o)) = stage
    BY <1>1, <1>2
  <2> QED BY <1>3, <1>4, <1>5, <2>1, <2>2, <2>3 DEF Bodies
<1> QED BY <1>6, PartsEach

\* Objects of different families are apart, the pages created after the TCP queues.
LEMMA InUseApart ==
  ASSUME NEW F, NEW G, F \cap G = {}, ~("page" \in F /\ "tcp" \in G)
  PROVE  Apart(InUse(F, http_server), InUse(G, http_server))
<1> DEFINE O == InUse(F, http_server)   X == InUse(G, http_server)
<1>1. O \subseteq Objects /\ X \subseteq Objects /\ (\A o \in O : Family(o) \in F) /\ (\A x \in X : Family(x) \in G)
  BY DEF InUse
<1> HIDE DEF O, X
<1>2. \A o \in O, x \in X : o[1] # x[1]
  BY <1>1 DEF Family
<1>3. Apart(O, X)
  BY <1>1, <1>2, ApartOwners
<1> QED BY <1>3 DEF O, X

\* The TCP queues, then the pages, then the CPU RSS queues.
LEMMA TcpServerMade ==
  ASSUME http_server, NEW p, Parts(p, InUse({"tcp"}, http_server)),
         NEW r, Parts(r, InUse({"page"}, http_server)), NEW s, Parts(s, InUse({"cpu"}, http_server))
  PROVE  /\ Parts(p \o (r \o s), InUse({"tcp", "cpu", "page"}, http_server))
         /\ AllCalls(p) \subseteq AllCalls(p \o (r \o s))
<1> DEFINE P == InUse({"tcp"}, http_server)   R == InUse({"page"}, http_server)
           S == InUse({"cpu"}, http_server)
<1>1. Apart(R, S) /\ Apart(P, R \cup S)
  <2>1. Apart(R, S) /\ Apart(P, R) /\ Apart(P, S)
    BY InUseApart
  <2> HIDE DEF P, R, S
  <2> QED BY <2>1 DEF Apart
<1>2. /\ \A o \in P : Family(o) = "tcp"
      /\ \A o \in R \cup S : Family(o) \in {"page", "cpu"}
  BY DEF InUse
<1>3. P \cup (R \cup S) = InUse({"tcp", "cpu", "page"}, http_server)
  BY DEF InUse
<1> HIDE DEF P, R, S
<1>4. \A o \in R \cup S, f \in Protocols : o # First(f)
  BY <1>2, FirstOK DEF Protocols
<1>5. \A o, x \in P \cup (R \cup S) : Stage(Family(o)) <= Stage(Family(x))
  BY <1>2, StageOK
<1>6. Parts(p, P) /\ Parts(r, R) /\ Parts(s, S)
  BY DEF P, R, S
<1>7. Quiet(AllCalls(s))
  BY <1>4, <1>6, QuietCalls DEF Parts
<1>8. Parts(r \o s, R \cup S)
  BY <1>1, <1>5, <1>6, <1>7, PartsCat
<1>9. Quiet(AllCalls(r \o s))
  BY <1>4, <1>8, QuietCalls DEF Parts
<1>10. Parts(p \o (r \o s), P \cup (R \cup S)) /\ AllCalls(p \o (r \o s)) = AllCalls(p) \cup AllCalls(r \o s)
  BY <1>1, <1>5, <1>6, <1>8, <1>9, PartsCat
<1> QED BY <1>3, <1>10

\* create_tcp_queues makes the objects of the TCP queues, and of the server if there is one.
LEMMA TcpMade ==
  /\ Parts(CreateTcp, InUse({"tcp", "cpu", "page"}, http_server))
  /\ \E c \in AllCalls(CreateTcp) : Opens(c, "tcp")
<1> DEFINE fun  == [q \in Queues |->
                      RxQueue(<<"tcp", q>>, "tcp") \o Semaphore(<<"tcp", q>>, "sem", "tcp")
                      \o (IF http_server THEN Semaphore(<<"tcp", q>>, "sem_http", "tcp") \o SendQueue(<<"tcp", q>>, "tcp")
                                         ELSE <<>>)]
           body == [q \in Queues |-> <<fun[q]>>]
           cpu  == [q \in Queues |-> <<<<Call("make", <<<<"cpu", q>>, "pe">>, <<>>, "tcp")>>, CpuTxq(q), CpuRxq(q)>>]
           pages == <<TxBuf("index"), TxBuf("contacts"), TxBuf("not_found")>>
           o    == <<<<"tcp", Last(Order)>>, "rxq">>
           r    == <<Pipe(<<"tcp", Last(Order)>>, "tcp")>>
           O    == InUse({"tcp", "cpu", "page"}, http_server)
<1>1. CreateTcp = (ForEach(body) \o (IF http_server THEN pages \o ForEach(cpu) ELSE <<>>)) \o r
  <2>1. body = [q \in Queues |->
                  <<RxQueue(<<"tcp", q>>, "tcp") \o Semaphore(<<"tcp", q>>, "sem", "tcp")
                    \o (IF http_server THEN Semaphore(<<"tcp", q>>, "sem_http", "tcp") \o SendQueue(<<"tcp", q>>, "tcp")
                                       ELSE <<>>)>>]
    OBVIOUS
  <2> HIDE DEF body
  <2> QED BY <2>1 DEF CreateTcp
<1>2. \A q \in Queues : /\ Part(fun[q], OwnedBy(<<"tcp", q>>))
                        /\ Call("make", <<<<"tcp", q>>, "rxq">>, <<>>, "return") \in Calls(fun[q])
  <2> TAKE q \in Queues
  <2> PICK w : w = <<"tcp", q>>
    OBVIOUS
  <2>1. w \in Owners /\ w[1] = "tcp"
        /\ fun[q] = RxQueue(w, "tcp") \o Semaphore(w, "sem", "tcp")
                    \o (IF http_server THEN Semaphore(w, "sem_http", "tcp") \o SendQueue(w, "tcp") ELSE <<>>)
    BY OwnersOK
  <2> HIDE DEF fun
  <2> QED BY <2>1, TcpQueueOK
<1> HIDE DEF fun
<1>3. /\ Parts(ForEach(body), InUse({"tcp"}, http_server)) /\ \E c \in AllCalls(ForEach(body)) : Opens(c, "tcp")
  BY <1>2, QueuesMade
<1>4. r = <<<<Call("set", o, <<>>, "tcp")>>>>
  BY DEF Pipe
<1>5. o \in Objects /\ Family(o) = "tcp" /\ ~OfServer(o)
  <2> PICK w : w = <<"tcp", Last(Order)>>
    OBVIOUS
  <2>1. w \in Owners /\ w[1] = "tcp" /\ "rxq" \in KindsOf(w[1])
    BY LastOK, OwnersOK DEF KindsOf
  <2> QED BY <2>1, IsObject DEF OfServer
<1>6. ASSUME http_server
      PROVE  /\ Parts(ForEach(body) \o (pages \o ForEach(cpu)), O)
             /\ AllCalls(ForEach(body)) \subseteq AllCalls(ForEach(body) \o (pages \o ForEach(cpu)))
  <2>1. cpu = [q \in Queues |-> <<<<Call("make", <<CpuOf(q), "pe">>, <<>>, "tcp")>>, CpuTxq(q), CpuRxq(q)>>]
    BY DEF CpuOf
  <2> HIDE DEF cpu
  <2>2. Parts(ForEach(cpu), InUse({"cpu"}, http_server))
    BY <1>6, <2>1, CpuQueuesMade
  <2>3. Parts(pages, InUse({"page"}, http_server))
    BY <1>6, PagesMade
  <2> HIDE DEF body, pages
  <2> QED BY <1>3, <1>6, <2>2, <2>3, TcpServerMade
<1>7. ASSUME ~http_server PROVE InUse({"tcp"}, http_server) = O
  <2>1. \A x \in Objects : Family(x) \in {"cpu", "page"} => OfServer(x)
    BY DEF OfServer, Family
  <2> QED BY <1>7, <2>1 DEF InUse
<1> DEFINE p == ForEach(body) \o (IF http_server THEN pages \o ForEach(cpu) ELSE <<>>)
<1>8. Parts(p, O) /\ \E c \in AllCalls(p) : Opens(c, "tcp")
  <2>1. CASE http_server
    <3>1. p = ForEach(body) \o (pages \o ForEach(cpu))
      BY <2>1
    <3> HIDE DEF p, body, pages, cpu
    <3> QED BY <2>1, <1>3, <1>6, <3>1
  <2>2. CASE ~http_server
    <3> HIDE DEF body, pages, cpu
    <3>1. ForEach(body) \in Seq(Seq(CreateCalls \cup Drops))
      BY <1>3 DEF Parts, CreatePlan
    <3>2. p = ForEach(body) \o <<>>
      BY <2>2
    <3>3. p = ForEach(body)
      BY <3>1, <3>2, ConcatEmptySeq
    <3> QED BY <2>2, <1>3, <1>7, <3>3
  <2> QED BY <2>1, <2>2
<1>9. /\ o \in O /\ "tcp" \in Protocols
      /\ \A x \in O : x \in Objects /\ Family(x) \in {"tcp", "cpu", "page"}
  BY <1>5 DEF InUse, Protocols
<1>10. CreateTcp = p \o r
  BY <1>1
<1> HIDE DEF body, cpu, pages, o, r, O, p
<1>11. \A x \in O : x \in Objects /\ Stage(Family(x)) <= Stage(Family(o))
  BY <1>5, <1>9, StageOK
<1>12. Parts(p \o r, O) /\ AllCalls(p \o r) = AllCalls(p) \cup {Call("set", o, <<>>, "tcp")}
  BY <1>4, <1>5, <1>8, <1>9, <1>11, PipeAfter
<1> QED BY <1>8, <1>10, <1>12 DEF O

\* create_icmp_queues makes the objects of the ICMP queue.
LEMMA IcmpMade ==
  Parts(CreateIcmp, InUse({"icmp"}, http_server)) /\ \E c \in AllCalls(CreateIcmp) : Opens(c, "icmp")
<1> DEFINE w == <<"icmp", "0">>
           s == RxQueue(w, "icmp") \o SendQueue(w, "icmp")
           o == <<w, "rxq">>
           r == <<<<Call("set", o, <<>>, "return")>>>>
           O == InUse({"icmp"}, http_server)
<1>1. w \in Owners /\ w[1] = "icmp" /\ "rxq" \in KindsOf(w[1])
  BY OwnersOK DEF KindsOf
<1>2. Part(s, OwnedBy(w)) /\ Call("make", o, <<>>, "return") \in Calls(s)
  BY <1>1, IcmpQueueOK
<1>3. OwnedBy(w) = O
  <2>1. \A x \in Objects : x[1] = w <=> Family(x) = "icmp"
    BY ObjectOK DEF Family
  <2> QED BY <2>1 DEF OwnedBy, InUse
<1>4. CreateIcmp = <<s>> \o r
  <2>1. CreateIcmp = <<s, <<Call("set", o, <<>>, "return")>>>>
    BY DEF CreateIcmp, Pipe
  <2> HIDE DEF s
  <2> PICK t : t = <<Call("set", o, <<>>, "return")>>
    OBVIOUS
  <2>2. CreateIcmp = <<s, t>> /\ r = <<t>>
    BY <2>1
  <2> HIDE DEF r
  <2> QED BY <2>2
<1>5. o \in Objects /\ Family(o) = "icmp" /\ ~OfServer(o)
  BY <1>1, IsObject DEF OfServer
<1>6. Opens(Call("make", o, <<>>, "return"), "icmp")
  BY DEF Opens, First, Call
<1> HIDE DEF s, w, O
<1>7. Parts(<<s>>, O) /\ AllCalls(<<s>>) = Calls(s)
  BY <1>2, <1>3, OnePart
<1>8. /\ o \in O /\ "return" \notin Protocols
      /\ \A x \in O : x \in Objects /\ Family(x) = "icmp"
  BY <1>5 DEF InUse, O, Protocols
<1>9. \A x \in O : x \in Objects /\ Stage(Family(x)) <= Stage(Family(o))
  BY <1>5, <1>8, StageOK
<1> HIDE DEF o
<1>10. Parts(<<s>> \o r, O) /\ AllCalls(<<s>> \o r) = AllCalls(<<s>>) \cup {Call("set", o, <<>>, "return")}
  BY <1>5, <1>7, <1>8, <1>9, PipeAfter
<1> QED BY <1>2, <1>4, <1>6, <1>7, <1>10 DEF O

\* The functions main calls to create are in order, and make and start every object in use.
LEMMA CreateCode ==
  LET p == CreateApp \o CreateUdp \o CreateTcp \o CreateIcmp
  IN  /\ CreatePlan(p)
      /\ \A c \in AllCalls(p) : ForMode(c, http_server) /\ c.op # "release"
      /\ \A f \in Protocols : \E c \in AllCalls(p) : Opens(c, f)
      /\ \A o \in Objects : (OfServer(o) => http_server) =>
           \E c \in AllCalls(p) : c.on = o /\ c.op \in IF Startable(o) THEN {"start"} ELSE {"make", "nest"}
      /\ \A c \in AllCalls(p) : c.op = "start" =>
           \E d \in AllCalls(p) : d.op \in {"make", "nest"} /\ d.on = c.on
<1> DEFINE A == InUse({"app"}, http_server)   B == InUse({"udp"}, http_server)
           C == InUse({"tcp", "cpu", "page"}, http_server)   D == InUse({"icmp"}, http_server)
           p == ((CreateApp \o CreateUdp) \o CreateTcp) \o CreateIcmp
<1>1. Parts(CreateApp, A)
  <2>1. CreateApp = <<CreateApp[1]>>
    BY DEF CreateApp
  <2>2. {<<App, k>> : k \in {"dev", "gpu", "flow", "pe"}} = A
    <3>1. \A k \in {"dev", "gpu", "flow", "pe"} : <<App, k>> \in Objects /\ Family(<<App, k>>) = "app" /\ ~OfServer(<<App, k>>)
      BY OwnersOK, IsObject DEF KindsOf, App, OfServer
    <3>2. \A o \in Objects : Family(o) = "app" => o \in {<<App, k>> : k \in {"dev", "gpu", "flow", "pe"}}
      BY ObjectOK, KindsOK
    <3> QED BY <3>1, <3>2 DEF InUse
  <2>3. Part(CreateApp[1], A)
    BY <2>2, AppMade
  <2> HIDE DEF A
  <2> QED BY <2>1, <2>3, OnePart
<1>2. /\ Parts(CreateUdp, B) /\ Parts(CreateTcp, C) /\ Parts(CreateIcmp, D)
  BY UdpMade, TcpMade, IcmpMade
<1>3. Apart(A, B) /\ Apart(A \cup B, C) /\ Apart((A \cup B) \cup C, D)
  <2>1. Apart(A, B) /\ Apart(A, C) /\ Apart(B, C) /\ Apart(A, D) /\ Apart(B, D) /\ Apart(C, D)
    BY InUseApart
  <2> HIDE DEF A, B, C, D
  <2> QED BY <2>1 DEF Apart
<1>4. /\ \A o \in A : Stage(Family(o)) = 0
      /\ \A o \in B : Stage(Family(o)) = 2
      /\ \A o \in C : Stage(Family(o)) = 4
      /\ \A o \in D : Stage(Family(o)) = 6
  BY StageOK DEF InUse
<1>5. \A o : o \in ((A \cup B) \cup C) \cup D <=> o \in Objects /\ (OfServer(o) => http_server)
  BY ObjectOK DEF InUse, AllFamilies
<1> HIDE DEF A, B, C, D
<1>a. /\ \A o \in A, x \in B : Stage(Family(o)) < Stage(Family(x)) /\ Stage(Family(o)) <= Stage(Family(x))
      /\ \A o \in A \cup B, x \in C : Stage(Family(o)) < Stage(Family(x)) /\ Stage(Family(o)) <= Stage(Family(x))
      /\ \A o \in (A \cup B) \cup C, x \in D : Stage(Family(o)) < Stage(Family(x)) /\ Stage(Family(o)) <= Stage(Family(x))
  BY <1>4
<1>6. Parts(CreateApp \o CreateUdp, A \cup B) /\ AllCalls(CreateApp \o CreateUdp) = AllCalls(CreateApp) \cup AllCalls(CreateUdp)
  BY <1>1, <1>2, <1>3, <1>a, PartsCat
<1>7. /\ Parts((CreateApp \o CreateUdp) \o CreateTcp, (A \cup B) \cup C)
      /\ AllCalls((CreateApp \o CreateUdp) \o CreateTcp) = AllCalls(CreateApp \o CreateUdp) \cup AllCalls(CreateTcp)
  BY <1>2, <1>3, <1>a, <1>6, PartsCat
<1>8. /\ Parts(p, ((A \cup B) \cup C) \cup D)
      /\ AllCalls(p) = AllCalls((CreateApp \o CreateUdp) \o CreateTcp) \cup AllCalls(CreateIcmp)
  BY <1>2, <1>3, <1>a, <1>7, PartsCat
<1>9. p = CreateApp \o CreateUdp \o CreateTcp \o CreateIcmp
  OBVIOUS
<1> HIDE DEF p
<1>10. \A f \in Protocols : \E c \in AllCalls(p) : Opens(c, f)
  BY <1>6, <1>7, <1>8, UdpMade, TcpMade, IcmpMade DEF Protocols
<1>11. CreatePlan(p) /\ Creation(AllCalls(p), ((A \cup B) \cup C) \cup D)
  BY <1>8 DEF Parts
<1>12. ASSUME NEW c \in AllCalls(p) PROVE ForMode(c, http_server) /\ c.op # "release"
  <2>1. CreateCall(c) /\ c.on \in ((A \cup B) \cup C) \cup D
    BY <1>11 DEF Creation
  <2>2. c.op # "release"
    BY <2>1 DEF CreateCall, CreateCalls
  <2> QED BY <2>1, <2>2, <1>5 DEF ForMode
<1>13. \A o \in Objects : (OfServer(o) => http_server) =>
         \E c \in AllCalls(p) : c.on = o /\ c.op \in IF Startable(o) THEN {"start"} ELSE {"make", "nest"}
  BY <1>5, <1>11 DEF Creation, Creates
<1>14. \A c \in AllCalls(p) : c.op = "start" => \E d \in AllCalls(p) : d.op \in {"make", "nest"} /\ d.on = c.on
  BY <1>11 DEF Creation
<1> QED BY <1>9, <1>10, <1>11, <1>12, <1>13, <1>14
-----------------------------------------------------------------------------
(* The calls still to be made, when one is made.                           *)

\* A plan in order is a plan in the sense of TypeOK.
LEMMA PlanTyped ==
  ASSUME NEW p, CreatePlan(p) \/ DestroyPlan(p) \/ p = <<>>
  PROVE  \A i \in DOMAIN p : p[i] # <<>> /\ \A j \in DOMAIN p[i] : p[i][j].on \in Objects
<1>1. CASE CreatePlan(p)
  <2>1. ASSUME NEW i \in DOMAIN p, NEW j \in DOMAIN p[i] PROVE p[i] # <<>> /\ p[i][j].on \in Objects
    <3>1. CreateFunction(p[i]) /\ p[i] # <<>>
      BY <1>1, <2>1 DEF CreatePlan
    <3>2. CreateCall(p[i][j]) \/ p[i][j] \in Drops
      BY <3>1, <2>1 DEF CreateFunction
    <3> QED BY <3>1, <3>2, UndoCalls, DropOK
  <2> QED BY <1>1, <2>1 DEF CreatePlan
<1>2. CASE DestroyPlan(p)
  <2>1. ASSUME NEW i \in DOMAIN p, NEW j \in DOMAIN p[i] PROVE p[i] # <<>> /\ p[i][j].on \in Objects
    <3>1. DestroyFunction(p[i]) /\ p[i] # <<>>
      BY <1>2, <2>1 DEF DestroyPlan
    <3>2. DestroyCall(p[i][j])
      BY <3>1, <2>1 DEF DestroyFunction
    <3> QED BY <3>1, <3>2 DEF DestroyCall, DestroyCalls
  <2> QED BY <1>2, <2>1 DEF DestroyPlan
<1>3. CASE p = <<>>
  BY <1>3
<1> QED BY <1>1, <1>2, <1>3

\* The current call, by the phase.
LEMMA Phases ==
  ASSUME PhaseOK, TypeOK, plan # <<>>
  PROVE  /\ queues \in {"creating", "undoing", "destroying"}
         /\ Current \in Pending /\ Current.on \in Objects
         /\ queues = "creating" => CreatePlan(plan) /\ (CreateCall(Current) \/ Current \in Drops)
         /\ queues # "creating" => DestroyPlan(plan) /\ DestroyCall(Current)
<1>1. queues \in {"creating", "undoing", "destroying"}
  BY DEF PhaseOK, TypeOK
<1>2. CASE queues = "creating"
  <2>1. CreatePlan(plan)
    BY <1>2 DEF PhaseOK
  <2>2. Current \in AllCalls(plan) /\ (CreateCall(Current) \/ Current \in Drops)
    BY <2>1, CreateRest DEF Current
  <2> QED BY <1>2, <2>1, <2>2, UndoCalls, DropOK DEF Pending
<1>3. CASE queues # "creating"
  <2>1. DestroyPlan(plan)
    BY <1>1, <1>3 DEF PhaseOK
  <2>2. Current \in AllCalls(plan) /\ DestroyCall(Current)
    BY <2>1, DestroyRest DEF Current
  <2> QED BY <1>1, <1>3, <2>1, <2>2 DEF Pending, DestroyCall, DestroyCalls
<1> QED BY <1>2, <1>3

\* After a call that succeeds or is skipped, all the other calls are left, in order.
LEMMA GoesOn ==
  ASSUME PhaseOK, TypeOK, plan # <<>>, GoOn
  PROVE  /\ 1 \in DOMAIN plan /\ Current \in Calls(plan[1])
         /\ Pending' \subseteq Pending
         /\ \A d \in Pending : d = Current \/ d \in Pending'
         /\ \A i \in DOMAIN plan' : \E j \in DOMAIN plan :
              /\ Calls(plan'[i]) \subseteq Calls(plan[j])
              /\ \A d \in Calls(plan[j]) : d = Current \/ d \in Calls(plan'[i])
         /\ \A i \in DOMAIN plan' : plan'[i] # <<>> /\ \A j \in DOMAIN plan'[i] : plan'[i][j].on \in Objects
         /\ queues = "creating" =>
              /\ CreatePlan(plan')
              /\ \A d \in Pending' : CreateOrder(Current, d)
              /\ \A d \in Calls(plan[1]) : d = Current \/ (Current.op = "release" => Current.on \notin Needs(d.on))
         /\ queues # "creating" =>
              /\ DestroyPlan(plan')
              /\ \A d \in Pending' : DestroyOrder(Current, d)
              /\ \A d \in Calls(plan[1]) : d = Current \/ UsersFirst(Current, d)
<1>1. plan' = Put(Tail(Head(plan)), Tail(plan)) /\ Current = Head(Head(plan))
  BY DEF GoOn, Current
<1>2. Pending = AllCalls(plan) /\ Pending' = AllCalls(plan')
  BY DEF Pending
<1>3. CASE queues = "creating"
  <2>1. CreatePlan(plan)
    BY <1>3, Phases
  <2>2. CreatePlan(plan')
    BY <1>1, <2>1, CreateRest
  <2> QED BY <1>1, <1>2, <1>3, <2>1, <2>2, CreateRest, PlanTyped
<1>4. CASE queues # "creating"
  <2>1. DestroyPlan(plan)
    BY <1>4, Phases
  <2>2. DestroyPlan(plan')
    BY <1>1, <2>1, DestroyRest
  <2> QED BY <1>1, <1>2, <1>4, <2>1, <2>2, DestroyRest, PlanTyped
<1> QED BY <1>3, <1>4
-----------------------------------------------------------------------------
(* The calls that create.                                                  *)

\* While the queues are created, the stages follow the calls.
LEMMA StageOrder ==
  ASSUME NEW c, NEW d, c.on \in Objects, d.on \in Objects, Rank(c) <= Rank(d)
  PROVE  Stage(Family(c.on)) <= Stage(Family(d.on))
<1>1. /\ Family(c.on) \in AllFamilies /\ Family(d.on) \in AllFamilies
  BY ObjectOK
<1>2. /\ Stage(Family(c.on)) \in {0, 2, 4, 6} /\ Stage(Family(d.on)) \in {0, 2, 4, 6}
  BY <1>1, StageOK DEF AllFamilies
<1>3. /\ Rank(c) = Stage(Family(c.on)) \/ Rank(c) = Stage(Family(c.on)) + 1
      /\ Rank(d) = Stage(Family(d.on)) \/ Rank(d) = Stage(Family(d.on)) + 1
  BY RankOK
<1> QED BY <1>2, <1>3

\* A call is on an object.
LEMMA PendingObjects ==
  ASSUME TypeOK, NEW c \in Pending
  PROVE  c.on \in Objects
BY DEF TypeOK, Pending, AllCalls, Calls

\* The objects of the application are not started.
LEMMA StartableOK ==
  ASSUME NEW o \in Objects, Startable(o)
  PROVE  Family(o) # "app"
BY KindsOK DEF Startable, Family

\* The main object of a CPU RSS queue.
LEMMA LeaderOK ==
  ASSUME NEW o \in Objects, Family(o) = "cpu"
  PROVE  /\ Leader(o) \in Objects /\ Family(Leader(o)) = "cpu" /\ Leader(o)[1] = o[1]
         /\ Leader(o)[2] \in {"pe", "txq", "rxq"}
         /\ Leader(o)[2] = "pe" <=> o[2] = "pe"
<1>1. o[1] \in Owners /\ o[1][1] = "cpu" /\ o[2] \in {"pe", "txq", "pool", "tx_map", "rxq", "rx_map"}
  BY ObjectOK, KindsOK DEF Family
<1>2. {"pe", "txq", "rxq"} \subseteq KindsOf(o[1][1])
  BY <1>1 DEF KindsOf
<1>3. /\ Leader(o)[1] = o[1] /\ Leader(o)[2] \in {"pe", "txq", "rxq"}
      /\ Leader(o) = <<o[1], Leader(o)[2]>> /\ (Leader(o)[2] = "pe" <=> o[2] = "pe")
  BY <1>1 DEF Leader
<1> QED BY <1>1, <1>2, <1>3, IsObject DEF Family

\* What a call of a function that creates does to its object, when the
\* function goes on.
States == {"none", "made", "started", "gone"}
CreateEffect(c) ==
  /\ queues = "creating" /\ GoOn
  /\ UNCHANGED <<http_server, queues>>
  /\ obj' \in [Objects -> States] /\ ptr' \in [Objects -> BOOLEAN] /\ abandoned \subseteq abandoned'
  /\ \A x \in Objects : x # c.on => obj'[x] = obj[x] /\ ptr'[x] = ptr[x]
  /\ \/ c.op = "set" /\ obj'[c.on] = obj[c.on] /\ ptr'[c.on] = ptr[c.on]
     \/ c.op \in {"make", "nest"} /\ obj'[c.on] = "made" /\ ptr'[c.on]
     \/ c.op = "start" /\ obj'[c.on] = "started" /\ ptr'[c.on] = ptr[c.on]
     \/ c.op = "release" /\ (obj'[c.on] = "gone" \/ (obj'[c.on] = obj[c.on] /\ c.on \in abandoned'))
                         /\ ~ptr'[c.on]

\* A call of a creation keeps the invariant, whatever CreateEffect it has on its object.
LEMMA CreatingGoesOn ==
  ASSUME ResourceInv, plan # <<>>, CreateEffect(Current)
  PROVE  /\ PhaseOK' /\ PointersOK' /\ MemoryOutlivesQueues' /\ StopsFirst' /\ MakingOK' /\ StagesOK'
         /\ ReadyOK' /\ SettleOK' /\ DevicesOK'
<1> DEFINE c == Current
           o == c.on
<1>0. TypeOK /\ PhaseOK /\ PointersOK /\ MemoryOutlivesQueues /\ StopsFirst
  BY DEF ResourceInv
<1>1. /\ queues = "creating" /\ queues' = "creating" /\ http_server' = http_server
      /\ obj' \in [Objects -> States] /\ ptr' \in [Objects -> BOOLEAN] /\ abandoned \subseteq abandoned'
      /\ \A x \in Objects : x # o => obj'[x] = obj[x] /\ ptr'[x] = ptr[x]
  BY DEF CreateEffect
<1>2. /\ CreateCall(c) \/ c \in Drops
      /\ o \in Objects /\ c \in Pending
      /\ obj \in [Objects -> States] /\ ptr \in [Objects -> BOOLEAN]
  BY <1>0, <1>1, Phases DEF TypeOK, States
<1>3. /\ 1 \in DOMAIN plan /\ c \in Calls(plan[1])
      /\ Pending' \subseteq Pending /\ \A d \in Pending : d = c \/ d \in Pending'
      /\ \A i \in DOMAIN plan' : \E j \in DOMAIN plan :
              /\ Calls(plan'[i]) \subseteq Calls(plan[j])
              /\ \A d \in Calls(plan[j]) : d = c \/ d \in Calls(plan'[i])
      /\ CreatePlan(plan') /\ \A d \in Pending' : CreateOrder(c, d)
      /\ \A d \in Calls(plan[1]) : d = c \/ (c.op = "release" => o \notin Needs(d.on))
  BY <1>0, <1>1, GoesOn DEF CreateEffect
<1>4. \/ c.op = "set" /\ obj'[o] = obj[o] /\ ptr'[o] = ptr[o]
      \/ c.op \in {"make", "nest"} /\ obj'[o] = "made" /\ ptr'[o]
      \/ c.op = "start" /\ obj'[o] = "started" /\ ptr'[o] = ptr[o] /\ Startable(o)
      \/ /\ c.op = "release" /\ ~ptr'[o]
         /\ obj'[o] = "gone" \/ (obj'[o] = obj[o] /\ o \in abandoned')
  BY <1>2, DropOK DEF CreateEffect, CreateCall
<1>5. \A d \in Pending : d.on \in Objects
  BY <1>0, PendingObjects
<1>6. \A x \in Objects : \A m \in Needs(x) : m \in Objects /\ m # x
  BY NeedsOK
<1>7. c.op \in {"make", "nest"} => obj[o] = "none"
  BY <1>1, <1>2 DEF MakingOK, ResourceInv
<1>8. c.op = "start" => ptr[o] /\ obj[o] # "started" /\ \A m \in Needs(o) : obj[m] # "gone"
  <2> SUFFICES ASSUME c.op = "start" PROVE ptr[o] /\ obj[o] # "started" /\ \A m \in Needs(o) : obj[m] # "gone"
    OBVIOUS
  <2>1. /\ obj[o] # "started" /\ \A m \in Needs(o) : obj[m] # "gone"
        /\ ptr[o] \/ \E d \in Pending : d.op \in {"make", "nest"} /\ d.on = o
    BY <1>1, <1>2 DEF MakingOK, ResourceInv
  <2>2. ~\E d \in Pending : d.op \in {"make", "nest"} /\ d.on = o
    BY <1>3 DEF CreateOrder
  <2> QED BY <2>1, <2>2
<1>9. \A d \in Pending : ForMode(d, http_server)
  BY <1>0, <1>1 DEF PhaseOK
<1> HIDE DEF c, o
<1>11. PhaseOK'
  BY <1>1, <1>2, <1>3, <1>9 DEF PhaseOK, ForMode
<1>12. PointersOK'
  <2>1. (OfServer(o) => http_server) /\ (Startable(o) => Family(o) # "app")
    BY <1>2, <1>9, StartableOK DEF ForMode, o
  <2> QED BY <2>1, <1>0, <1>1, <1>2, <1>4, <1>8 DEF PointersOK, States
<1>14. MemoryOutlivesQueues'
  <2>1. ASSUME NEW x \in Objects \ abandoned', obj'[x] = "started", NEW m \in Needs(x), obj'[m] = "gone"
        PROVE  FALSE
    <3>1. m \in Objects /\ m # x /\ x \in Objects \ abandoned
      BY <1>1, <1>6, <2>1
    <3>2. CASE x = o
      BY <3>1, <3>2, <1>1, <1>4, <1>8, <1>0, <2>1 DEF MemoryOutlivesQueues
    <3>3. CASE x # o
      <4>1. obj[x] = "started" /\ obj[m] # "gone"
        BY <3>1, <3>3, <1>0, <1>1, <2>1 DEF MemoryOutlivesQueues
      <4>2. m = o /\ c.op = "release"
        BY <4>1, <3>1, <1>1, <1>4, <2>1
      <4>3. PICK d \in Calls(plan[1]) : d.on = x /\ d.op \in {"stop", "release"}
        BY <4>1, <4>2, <3>1, <1>0, <1>3, <2>1 DEF StopsFirst, o
      <4> QED BY <4>2, <4>3, <1>3, <3>1, <2>1 DEF o
    <3> QED BY <3>2, <3>3
  <2> QED BY <2>1 DEF MemoryOutlivesQueues
<1>15. StopsFirst'
  <2> SUFFICES ASSUME NEW i \in DOMAIN plan', NEW e \in Calls(plan'[i]), e.op = "release",
                      NEW x \in Objects \ abandoned', obj'[x] = "started", e.on \in Needs(x)
               PROVE  \E d \in Calls(plan'[i]) : d.on = x /\ d.op \in {"stop", "release"}
    BY DEF StopsFirst
  <2>1. PICK j \in DOMAIN plan : /\ Calls(plan'[i]) \subseteq Calls(plan[j])
                                 /\ \A d \in Calls(plan[j]) : d = c \/ d \in Calls(plan'[i])
    BY <1>3
  <2>2. e \in Pending'
    BY DEF Pending, AllCalls
  <2>3. c.op # "start" /\ c.op \notin {"make", "nest"}
    BY <2>2, <1>3 DEF CreateOrder
  <2>4. obj[x] = "started" /\ x \notin abandoned
    BY <2>3, <1>1, <1>4
  <2>5. PICK d \in Calls(plan[j]) : d.on = x /\ d.op \in {"stop", "release"}
    BY <2>1, <2>4, <1>0 DEF StopsFirst
  <2>6. d # c
    BY <2>5, <1>4, <1>1 DEF o
  <2> QED BY <2>1, <2>5, <2>6
<1>16. MakingOK'
  <2> SUFFICES ASSUME NEW d \in Pending'
               PROVE  (/\ d.op \in {"make", "nest"} => obj[d.on] = "none"
                       /\ d.op = "start" =>
                            /\ obj[d.on] # "started"
                            /\ ptr[d.on] \/ \E e \in Pending : e.op \in {"make", "nest"} /\ e.on = d.on
                            /\ \A m \in Needs(d.on) : obj[m] # "gone"
                       /\ d.op = "nest" => \A x \in Objects : d.on \in Needs(x) => obj[x] # "started"
                       /\ \A k \in DOMAIN d.undo : \A x \in Objects \ abandoned :
                            obj[x] = "started" /\ d.undo[k].on \in Needs(x) =>
                              \E j \in DOMAIN d.undo : j < k /\ d.undo[j].on = x)'
    BY DEF MakingOK
  <2>1. /\ d \in Pending /\ d.on \in Objects /\ CreateOrder(c, d)
    BY <1>3, <1>5
  <2>2. /\ d.op \in {"make", "nest"} => obj[d.on] = "none"
        /\ d.op = "start" =>
             /\ obj[d.on] # "started"
             /\ ptr[d.on] \/ \E e \in Pending : e.op \in {"make", "nest"} /\ e.on = d.on
             /\ \A m \in Needs(d.on) : obj[m] # "gone"
        /\ d.op = "nest" => \A x \in Objects : d.on \in Needs(x) => obj[x] # "started"
        /\ \A k \in DOMAIN d.undo : \A x \in Objects \ abandoned :
             obj[x] = "started" /\ d.undo[k].on \in Needs(x) =>
               \E j \in DOMAIN d.undo : j < k /\ d.undo[j].on = x
    BY <2>1, <1>1 DEF MakingOK, ResourceInv
  <2>3. d.op \in {"make", "nest"} => obj'[d.on] = "none"
    BY <2>1, <2>2, <1>1, <1>4 DEF CreateOrder, o
  <2>4. d.op = "start" =>
             /\ obj'[d.on] # "started"
             /\ ptr'[d.on] \/ \E e \in Pending' : e.op \in {"make", "nest"} /\ e.on = d.on
             /\ \A m \in Needs(d.on) : obj'[m] # "gone"
    <3> SUFFICES ASSUME d.op = "start"
                 PROVE /\ obj'[d.on] # "started"
                       /\ ptr'[d.on] \/ \E e \in Pending' : e.op \in {"make", "nest"} /\ e.on = d.on
                       /\ \A m \in Needs(d.on) : obj'[m] # "gone"
      OBVIOUS
    <3>1. c.op \in {"start", "release"} => o # d.on
      BY <2>1 DEF CreateOrder, o
    <3>2. obj'[d.on] # "started"
      BY <3>1, <2>1, <2>2, <1>1, <1>4
    <3>3. ptr'[d.on] \/ \E e \in Pending' : e.op \in {"make", "nest"} /\ e.on = d.on
      <4>1. CASE ptr[d.on]
        BY <4>1, <3>1, <2>1, <1>1, <1>4
      <4>2. CASE \E e \in Pending : e.op \in {"make", "nest"} /\ e.on = d.on
        BY <4>2, <1>3, <1>4 DEF o
      <4> QED BY <2>2, <4>1, <4>2
    <3>4. ASSUME NEW m \in Needs(d.on) PROVE obj'[m] # "gone"
      <4>1. m \in Objects /\ obj[m] # "gone"
        BY <2>1, <2>2, <1>6
      <4>2. c.op = "release" => o # m
        BY <2>1 DEF CreateOrder, o
      <4> QED BY <4>1, <4>2, <1>1, <1>4
    <3> QED BY <3>2, <3>3, <3>4
  <2>5. d.op = "nest" => \A x \in Objects : d.on \in Needs(x) => obj'[x] # "started"
    BY <2>1, <2>2, <1>1, <1>4 DEF CreateOrder, o
  <2>6. ASSUME NEW k \in DOMAIN d.undo, NEW x \in Objects \ abandoned', obj'[x] = "started", d.undo[k].on \in Needs(x)
        PROVE  \E j \in DOMAIN d.undo : j < k /\ d.undo[j].on = x
    <3>1. CASE c.op = "start" /\ x = o
      BY <3>1, <2>1, <2>6 DEF CreateOrder, o
    <3>2. CASE ~(c.op = "start" /\ x = o)
      <4>1. obj[x] = "started" /\ x \in Objects \ abandoned
        BY <3>2, <2>6, <1>1, <1>4
      <4> QED BY <4>1, <2>2, <2>6
    <3> QED BY <3>1, <3>2
  <2> QED BY <2>3, <2>4, <2>5, <2>6
<1>17. StagesOK'
  <2>1. ASSUME NEW x \in Objects, obj'[x] # "none", NEW d \in Pending'
        PROVE  Stage(Family(x)) <= Stage(Family(d.on))
    <3>1. CASE x = o
      <4>1. Rank(c) <= Rank(d) /\ d.on \in Objects
        BY <1>3, <1>5 DEF CreateOrder
      <4> QED BY <3>1, <4>1, <1>2, StageOrder DEF o
    <3>2. CASE x # o
      BY <3>2, <2>1, <1>1, <1>3 DEF StagesOK, ResourceInv
    <3> QED BY <3>1, <3>2
  <2>2. ASSUME NEW f \in Protocols PROVE Begun(f)' \/ \E d \in Pending' : Opens(d, f)
    <3>1. CASE Begun(f)
      <4>1. PICK x \in Objects : x[1][1] = f /\ obj[x] # "none"
        BY <3>1 DEF Begun
      <4>2. obj'[x] # "none"
        BY <4>1, <1>1, <1>4
      <4> QED BY <4>1, <4>2 DEF Begun
    <3>2. CASE \E d \in Pending : Opens(d, f)
      <4>1. PICK d \in Pending : Opens(d, f)
        BY <3>2
      <4>2. CASE d = c
        <5>1. c.op = "make" /\ Family(o) = f
          BY <4>1, <4>2, RankOK DEF o
        <5>2. obj'[o] = "made"
          BY <5>1, <1>4
        <5> QED BY <5>1, <5>2, <1>2 DEF Begun, Family
      <4> QED BY <4>1, <4>2, <1>3
    <3> QED BY <3>1, <3>2, <1>1 DEF StagesOK, ResourceInv
  <2> QED BY <2>1, <2>2 DEF StagesOK
<1>18. ReadyOK'
  <2>0. /\ \A x \in Objects : Family(x) # "cpu" /\ (OfServer(x) => http_server) => Ready(x)
        /\ \A x \in Objects : Family(x) = "cpu" /\ http_server => Ready(x) \/ (x[2] # "pe" /\ Lost(Leader(x)))
        /\ \A d \in Pending : d.op = "release" =>
             Family(d.on) = "cpu" /\ d.on[2] # "pe" /\ Lost(Leader(d.on))
    BY <1>1 DEF ReadyOK, ResourceInv
  <2>1. ASSUME NEW x \in Objects, Ready(x), ~(x = o /\ c.op = "release")
        PROVE  Ready(x)'
    <3>1. CASE \E d \in Pending' : d.on = x /\ d.op \in IF Startable(x) THEN {"start"} ELSE {"make", "nest"}
      BY <3>1 DEF Ready
    <3>2. CASE c.on = x /\ c.op \in IF Startable(x) THEN {"start"} ELSE {"make", "nest"}
      BY <3>2, <1>4 DEF Ready, Usable, o
    <3>3. CASE Usable(x)
      BY <3>3, <2>1, <1>1, <1>4, <1>7 DEF Ready, Usable
    <3> QED BY <2>1, <3>1, <3>2, <3>3, <1>3 DEF Ready
  <2>2. ASSUME NEW x, x \in Objects, Lost(x) PROVE Lost(x)'
    <3>1. \A d \in Pending' : d.on = x => d.op \notin {"make", "nest"}
      BY <2>2, <1>3 DEF Lost
    <3>2. CASE ~ptr[x]
      <4>1. ~ptr'[x]
        <5>1. CASE x = o
          <6>1. c.op \notin {"make", "nest"}
            BY <5>1, <2>2, <1>2 DEF Lost, o
          <6> QED BY <5>1, <6>1, <3>2, <1>4
        <5>2. CASE x # o
          BY <5>2, <2>2, <3>2, <1>1
        <5> QED BY <5>1, <5>2
      <4> QED BY <3>1, <4>1 DEF Lost
    <3>3. CASE \E d \in Pending : d.on = x /\ d.op = "release"
      <4>1. CASE c.on = x /\ c.op = "release"
        BY <3>1, <4>1, <1>4 DEF Lost, o
      <4>2. CASE ~(c.on = x /\ c.op = "release")
        BY <3>1, <3>3, <4>2, <1>3 DEF Lost
      <4> QED BY <4>1, <4>2
    <3> QED BY <2>2, <3>2, <3>3 DEF Lost
  <2>3. \A x \in Objects : Family(x) = "cpu" => Leader(x) \in Objects
    BY LeaderOK
  <2>4. ASSUME NEW x \in Objects, Family(x) # "cpu", OfServer(x) => http_server' PROVE Ready(x)'
    <3>1. ~(x = o /\ c.op = "release")
      BY <2>0, <2>4, <1>2 DEF o
    <3> QED BY <2>0, <2>1, <2>4, <3>1, <1>1
  <2>5. ASSUME NEW x \in Objects, Family(x) = "cpu", http_server'
        PROVE  Ready(x)' \/ (x[2] # "pe" /\ Lost(Leader(x))')
    <3>1. CASE x = o /\ c.op = "release"
      BY <3>1, <2>0, <2>2, <2>3, <1>2 DEF o
    <3>2. CASE ~(x = o /\ c.op = "release")
      BY <3>2, <2>0, <2>1, <2>2, <2>3, <2>5, <1>1
    <3> QED BY <3>1, <3>2
  <2>6. ASSUME NEW d \in Pending', d.op = "release"
        PROVE  Family(d.on) = "cpu" /\ d.on[2] # "pe" /\ Lost(Leader(d.on))'
    BY <2>0, <2>2, <2>3, <2>6, <1>3, <1>5
  <2> QED BY <2>4, <2>5, <2>6 DEF ReadyOK
<1>19. SettleOK'
  BY <1>1 DEF SettleOK
<1>20. DevicesOK'
  <2>1. c.op = "release" => Family(o) = "cpu"
    BY <1>1, <1>2 DEF ReadyOK, ResourceInv, o
  <2>2. ASSUME NEW x \in Devices, obj'[x] = "gone" PROVE FALSE
    <3>1. x \in Objects /\ Family(x) = "app"
      BY OwnersOK, IsObject DEF Devices, App, KindsOf, Family
    <3>2. obj[x] = "gone"
      BY <3>1, <2>1, <2>2, <1>1, <1>4
    <3> QED BY <3>2, <1>1 DEF DevicesOK, ResourceInv
  <2> QED BY <2>2 DEF DevicesOK
<1> QED BY <1>11, <1>12, <1>14, <1>15, <1>16, <1>17, <1>18, <1>19, <1>20
-----------------------------------------------------------------------------
(* The calls that destroy.                                                 *)

\* What a call of a function that destroys does to its object, when the function
\* goes on: it succeeds, is skipped, or fails and that is ignored.
DestroyEffect(c) ==
  /\ queues # "creating" /\ GoOn
  /\ UNCHANGED <<http_server, queues>>
  /\ obj' \in [Objects -> States] /\ ptr' \in [Objects -> BOOLEAN] /\ abandoned \subseteq abandoned'
  /\ dangling' = dangling /\ (destroyFailed => destroyFailed')
  /\ \A x \in Objects : x # c.on => obj'[x] = obj[x] /\ ptr'[x] = ptr[x]
  /\ ptr'[c.on] => ptr[c.on]
  /\ \/ /\ c.op = "stop" /\ ptr'[c.on] = ptr[c.on]
        /\ obj'[c.on] = IF obj[c.on] = "started" THEN "made" ELSE obj[c.on]
     \/ /\ c.op \in {"release", "end"} /\ obj'[c.on] = "gone" /\ ptr[c.on] /\ ptr'[c.on] = ~c.nulls
     \/ /\ obj'[c.on] = obj[c.on] /\ ptr'[c.on] = ptr[c.on] /\ ~ptr[c.on]
     \/ /\ c.otherwise = "ignore" /\ destroyFailed' /\ obj'[c.on] = obj[c.on]
        /\ IF c.op = "release" /\ c.nulls /\ ~c.guard THEN ~ptr'[c.on] /\ c.on \in abandoned'
                                                      ELSE ptr'[c.on] = ptr[c.on]

\* A call of a destruction keeps the invariant, whatever DestroyEffect it has on its object.
LEMMA DestroyingGoesOn ==
  ASSUME ResourceInv, plan # <<>>, DestroyEffect(Current)
  PROVE  /\ PhaseOK' /\ PointersOK' /\ MemoryOutlivesQueues' /\ StopsFirst' /\ MakingOK' /\ StagesOK'
         /\ ReadyOK' /\ SettleOK' /\ DevicesOK'
         /\ \A x \in Objects : queues \in {"none", "creating", "up"} \/ Family(x) = "cpu" => Spent(x)'
         /\ \A d \in Pending' : d.op \in {"release", "end"} => Spent(d.on)'
<1> DEFINE c == Current
           o == c.on
<1>0. /\ TypeOK /\ PhaseOK /\ PointersOK /\ GoneOK /\ MemoryOutlivesQueues /\ StopsFirst /\ SettleOK /\ DevicesOK
  BY DEF ResourceInv
<1>1. /\ queues # "creating" /\ queues' = queues /\ http_server' = http_server
      /\ obj' \in [Objects -> States] /\ ptr' \in [Objects -> BOOLEAN] /\ abandoned \subseteq abandoned'
      /\ \A x \in Objects : x # o => obj'[x] = obj[x] /\ ptr'[x] = ptr[x]
      /\ dangling' = dangling /\ (destroyFailed => destroyFailed')
      /\ ptr'[o] => ptr[o]
  BY DEF DestroyEffect
<1>2. /\ DestroyCall(c) /\ o \in Objects /\ c \in Pending /\ queues \in {"undoing", "destroying"}
      /\ obj \in [Objects -> States] /\ ptr \in [Objects -> BOOLEAN]
  BY <1>0, <1>1, Phases DEF TypeOK, States
<1>3. /\ 1 \in DOMAIN plan /\ c \in Calls(plan[1])
      /\ Pending' \subseteq Pending /\ \A d \in Pending : d = c \/ d \in Pending'
      /\ \A i \in DOMAIN plan' : \E j \in DOMAIN plan :
              /\ Calls(plan'[i]) \subseteq Calls(plan[j])
              /\ \A d \in Calls(plan[j]) : d = c \/ d \in Calls(plan'[i])
      /\ DestroyPlan(plan') /\ \A d \in Pending' : DestroyOrder(c, d)
      /\ \A d \in Calls(plan[1]) : d = c \/ UsersFirst(c, d)
  BY <1>0, <1>1, GoesOn DEF DestroyEffect
<1>4. \/ /\ c.op = "stop" /\ ptr'[o] = ptr[o]
         /\ obj'[o] = IF obj[o] = "started" THEN "made" ELSE obj[o]
      \/ /\ c.op \in {"release", "end"} /\ obj'[o] = "gone" /\ ptr[o] /\ ptr'[o] = ~c.nulls
      \/ /\ obj'[o] = obj[o] /\ ptr'[o] = ptr[o] /\ ~ptr[o]
      \/ /\ c.otherwise = "ignore" /\ destroyFailed' /\ obj'[o] = obj[o]
         /\ IF c.op = "release" /\ c.nulls /\ ~c.guard THEN ~ptr'[o] /\ o \in abandoned'
                                                       ELSE ptr'[o] = ptr[o]
  BY DEF DestroyEffect
<1>5. \A d \in Pending : d.on \in Objects
  BY <1>0, PendingObjects
<1>6. \A x \in Objects : \A m \in Needs(x) : m \in Objects /\ m # x
  BY NeedsOK
<1>7. /\ c.otherwise = "ignore" => Needs(o) = {} \/ (c.op = "release" /\ c.nulls /\ ~c.guard)
      /\ c.op = "end" => o = <<App, "flow">>
      /\ Family(o) = "cpu" /\ c.op = "release" => c.nulls
  BY <1>2 DEF DestroyCall
<1>8. \A x \in Objects : obj[x] = "none" <=> obj'[x] = "none"
  <2>1. ptr[o] => obj[o] # "none"
    BY <1>0, <1>2 DEF PointersOK
  <2> QED BY <2>1, <1>1, <1>2, <1>4
<1>9. \A x \in Objects : obj'[x] = "started" => obj[x] = "started"
  BY <1>1, <1>2, <1>4
<1> HIDE DEF c, o
<1>11. PhaseOK'
  BY <1>0, <1>1, <1>2, <1>3 DEF PhaseOK
<1>12. PointersOK'
  BY <1>0, <1>1, <1>2, <1>4, <1>8, <1>9 DEF PointersOK, States
<1>14. MemoryOutlivesQueues'
  <2>1. ASSUME NEW x \in Objects \ abandoned', obj'[x] = "started", NEW m \in Needs(x), obj'[m] = "gone"
        PROVE  FALSE
    <3>1. m \in Objects /\ m # x /\ x \in Objects \ abandoned
      BY <1>1, <1>6, <2>1
    <3>2. obj[x] = "started" /\ obj[m] # "gone"
      BY <3>1, <1>0, <1>9, <2>1 DEF MemoryOutlivesQueues
    <3>3. m = o /\ c.op \in {"release", "end"}
      BY <3>1, <3>2, <1>1, <1>2, <1>4, <2>1
    <3>4. c.op = "release"
      BY <3>3, <1>7, <3>1, <2>1, NeedsOK DEF Family, App
    <3>5. PICK d \in Calls(plan[1]) : d.on = x /\ d.op \in {"stop", "release"}
      BY <3>1, <3>2, <3>3, <3>4, <1>0, <1>3, <2>1 DEF StopsFirst, o
    <3> QED BY <3>3, <3>4, <3>5, <1>3, <3>1, <2>1 DEF o, UsersFirst
  <2> QED BY <2>1 DEF MemoryOutlivesQueues
<1>15. StopsFirst'
  <2> SUFFICES ASSUME NEW i \in DOMAIN plan', NEW e \in Calls(plan'[i]), e.op = "release",
                      NEW x \in Objects \ abandoned', obj'[x] = "started", e.on \in Needs(x)
               PROVE  \E d \in Calls(plan'[i]) : d.on = x /\ d.op \in {"stop", "release"}
    BY DEF StopsFirst
  <2>1. PICK j \in DOMAIN plan : /\ Calls(plan'[i]) \subseteq Calls(plan[j])
                                 /\ \A d \in Calls(plan[j]) : d = c \/ d \in Calls(plan'[i])
    BY <1>3
  <2>4. obj[x] = "started" /\ x \notin abandoned
    BY <1>1, <1>9
  <2>5. PICK d \in Calls(plan[j]) : d.on = x /\ d.op \in {"stop", "release"}
    BY <2>1, <2>4, <1>0 DEF StopsFirst
  <2>6. d # c
    <3> SUFFICES ASSUME d = c PROVE FALSE
      OBVIOUS
    <3>1. o = x /\ obj'[o] = "started" /\ obj[o] = "started" /\ o \notin abandoned'
      BY <2>4, <2>5 DEF o
    <3>2. ptr[o]
      BY <3>1, <1>0, <1>1, <1>2 DEF PointersOK
    <3>3. c.otherwise = "ignore" /\ ~(c.op = "release" /\ c.nulls /\ ~c.guard)
      BY <3>1, <3>2, <1>4, <2>5
    <3> QED BY <3>1, <3>3, <1>7
  <2> QED BY <2>1, <2>5, <2>6
<1>16. MakingOK'
  BY <1>1 DEF MakingOK
<1>17. StagesOK'
  BY <1>1 DEF StagesOK
<1>18. ReadyOK'
  BY <1>1, <1>2 DEF ReadyOK
<1>19. SettleOK'
  <2> SUFFICES ASSUME queues' \in {"undoing", "destroying", "down"}, ~destroyFailed',
                      NEW x \in Objects \ abandoned', Family(x) \in Doomed'
               PROVE  Settled(x)' \/ \E d \in Pending' : Settles(d, x)
    BY DEF SettleOK
  <2>1. Doomed' = Doomed
    <3>1. \A f : Begun(f) <=> Begun(f)'
      BY <1>8 DEF Begun
    <3> QED BY <3>1, <1>1 DEF Doomed, Families
  <2>2. Settled(x) \/ \E d \in Pending : Settles(d, x)
    BY <2>1, <1>0, <1>1 DEF SettleOK
  <2>3. CASE Settled(x)
    BY <2>3, <1>1, <1>2, <1>4 DEF Settled, States
  <2>4. CASE Settles(c, x)
    <3>1. x = o /\ c.op \in IF x[2] \in {"rxctx", "txctx"} THEN {"stop"} ELSE {"release", "end"}
      BY <2>4 DEF Settles, o
    <3>2. ~ptr[o] => obj[o] \in {"none", "gone"}
      BY <3>1, <1>0, <1>1, <1>2 DEF PointersOK, States
    <3> QED BY <3>1, <3>2, <1>1, <1>2, <1>4 DEF Settled
  <2> QED BY <2>2, <2>3, <2>4, <1>3
<1>20. DevicesOK'
  <2> SUFFICES ASSUME NEW x \in Devices, obj'[x] = "gone"
               PROVE  queues' \in {"destroying", "down"} /\ \A d \in Pending' : d.on[1] = App
    BY DEF DevicesOK
  <2>1. x \in Objects /\ Family(x) = "app" /\ x # <<App, "flow">>
    BY OwnersOK, IsObject DEF Devices, App, KindsOf, Family
  <2>2. CASE obj[x] = "gone"
    BY <2>2, <1>0, <1>1, <1>3 DEF DevicesOK
  <2>3. CASE obj[x] # "gone"
    <3>1. x = o /\ c.op = "release"
      BY <2>1, <2>3, <1>1, <1>2, <1>4, <1>7
    <3>2. queues = "destroying"
      BY <3>1, <2>1, <1>0, <1>2 DEF PhaseOK, o
    <3> QED BY <3>1, <3>2, <1>1, <1>3 DEF DestroyOrder, o
  <2> QED BY <2>2, <2>3
<1>21. ASSUME NEW x \in Objects, Family(x) = "cpu" PROVE Spent(x)'
  <2>1. Spent(x)
    BY <1>0, <1>21 DEF GoneOK
  <2>2. c.op = "end" => x # o
    BY <1>7, <1>21 DEF App, Family
  <2> QED BY <2>1, <2>2, <1>1, <1>2, <1>4, <1>7, <1>21 DEF Spent, States
<1>22. ASSUME NEW d \in Pending', d.op \in {"release", "end"} PROVE Spent(d.on)'
  <2>1. Spent(d.on) /\ d.on \in Objects
    BY <1>0, <1>3, <1>5, <1>22 DEF GoneOK
  <2>2. c.op \in {"release", "end"} /\ ~c.nulls => o # d.on
    BY <1>3, <1>22 DEF DestroyOrder, o
  <2> QED BY <2>1, <2>2, <1>1, <1>2, <1>4 DEF Spent
<1> QED BY <1>1, <1>2, <1>11, <1>12, <1>14, <1>15, <1>16, <1>17, <1>18, <1>19, <1>20, <1>21, <1>22
-----------------------------------------------------------------------------
(* The calls that succeed, and those that are skipped.                     *)

\* The types the lemmas on single objects need.
LEMMA ObjectTypes ==
  ASSUME TypeOK
  PROVE  obj \in [Objects -> States] /\ ptr \in [Objects -> BOOLEAN]
BY DEF TypeOK, States

\* During a creation nothing that is gone has a pointer that is released again.
LEMMA SpentAll ==
  ASSUME GoneOK, queues = "creating", NEW x \in Objects
  PROVE  Spent(x)
BY DEF GoneOK

\* Only what was dropped by an error path is gone while the queues are created.
LEMMA CreatingSpends ==
  ASSUME ResourceInv, plan # <<>>, CreateEffect(Current), dangling' = dangling,
         stale' = stale
  PROVE  GoneOK'
<1> DEFINE c == Current
           o == c.on
<1>1. /\ queues = "creating"
      /\ \A x \in Objects : x # o => obj'[x] = obj[x] /\ ptr'[x] = ptr[x]
      /\ \/ c.op = "set" /\ obj'[o] = obj[o] /\ ptr'[o] = ptr[o]
         \/ c.op \in {"make", "nest"} /\ obj'[o] = "made" /\ ptr'[o]
         \/ c.op = "start" /\ obj'[o] = "started" /\ ptr'[o] = ptr[o]
         \/ c.op = "release" /\ ~ptr'[o]
  BY DEF CreateEffect
<1>2. GoneOK /\ TypeOK /\ PhaseOK
  BY DEF ResourceInv
<1>3. \A x \in Objects : Spent(x)'
  BY <1>1, <1>2, SpentAll DEF Spent
<1>4. \A d \in Pending' : d \in Pending /\ d.on \in Objects
  BY <1>2, GoesOn, PendingObjects DEF CreateEffect
<1> QED BY <1>2, <1>3, <1>4 DEF GoneOK

\* An object is made.
LEMMA MakeKeeps ==
  ASSUME ResourceInv, MakeObject
  PROVE  ResourceInv'
<1> DEFINE c == Current
           o == c.on
<1>0. TypeOK /\ PhaseOK
  BY DEF ResourceInv
<1>1. /\ plan # <<>> /\ c.op \in {"make", "nest"} /\ GoOn
      /\ obj' = [obj EXCEPT ![o] = "made"] /\ ptr' = [ptr EXCEPT ![o] = TRUE]
      /\ UNCHANGED <<http_server, queues, dangling, stale, abandoned, destroyFailed, failures>>
  BY DEF MakeObject, Called, failureVars
<1>2. queues = "creating" /\ o \in Objects
  <2>1. ~DestroyCall(c)
    BY <1>1 DEF DestroyCall, DestroyCalls
  <2> QED BY <1>0, <1>1, <2>1, Phases
<1>3. CreateEffect(c)
  <2> HIDE DEF c, o
  <2> QED BY <1>0, <1>1, <1>2, ObjectTypes DEF CreateEffect, States, o
<1>4. TypeOK'
  <2>1. \A i \in DOMAIN plan' : plan'[i] # <<>> /\ \A j \in DOMAIN plan'[i] : plan'[i][j].on \in Objects
    BY <1>0, <1>1, GoesOn
  <2> HIDE DEF c, o
  <2> QED BY <2>1, <1>0, <1>1 DEF TypeOK
<1>5. GoneOK'
  BY <1>1, <1>3, CreatingSpends
<1> QED BY <1>1, <1>3, <1>4, <1>5, CreatingGoesOn DEF ResourceInv

\* An object is configured.
LEMMA SetKeeps ==
  ASSUME ResourceInv, SetObject
  PROVE  ResourceInv'
<1> DEFINE c == Current
           o == c.on
<1>0. TypeOK /\ PhaseOK
  BY DEF ResourceInv
<1>1. /\ plan # <<>> /\ c.op = "set" /\ GoOn
      /\ UNCHANGED <<http_server, queues, obj, ptr, dangling, stale, abandoned, destroyFailed, failures>>
  BY DEF SetObject, Called, failureVars, objectVars
<1>2. queues = "creating" /\ o \in Objects
  <2>1. ~DestroyCall(c)
    BY <1>1 DEF DestroyCall, DestroyCalls
  <2> QED BY <1>0, <1>1, <2>1, Phases
<1>3. CreateEffect(c)
  <2> HIDE DEF c, o
  <2> QED BY <1>0, <1>1, <1>2, ObjectTypes DEF CreateEffect, States, o
<1>4. TypeOK'
  <2>1. \A i \in DOMAIN plan' : plan'[i] # <<>> /\ \A j \in DOMAIN plan'[i] : plan'[i][j].on \in Objects
    BY <1>0, <1>1, GoesOn
  <2> HIDE DEF c, o
  <2> QED BY <2>1, <1>0, <1>1 DEF TypeOK
<1>5. GoneOK'
  BY <1>1, <1>3, CreatingSpends
<1> QED BY <1>1, <1>3, <1>4, <1>5, CreatingGoesOn DEF ResourceInv

\* An object is started.
LEMMA StartKeeps ==
  ASSUME ResourceInv, StartObject
  PROVE  ResourceInv'
<1> DEFINE c == Current
           o == c.on
<1>0. TypeOK /\ PhaseOK
  BY DEF ResourceInv
<1>1. /\ plan # <<>> /\ c.op = "start" /\ GoOn
      /\ obj' = [obj EXCEPT ![o] = "started"]
      /\ UNCHANGED <<http_server, queues, ptr, dangling, stale, abandoned, destroyFailed, failures>>
  BY DEF StartObject, Called, failureVars
<1>2. queues = "creating" /\ o \in Objects
  <2>1. ~DestroyCall(c)
    BY <1>1 DEF DestroyCall, DestroyCalls
  <2> QED BY <1>0, <1>1, <2>1, Phases
<1>3. CreateEffect(c)
  <2> HIDE DEF c, o
  <2> QED BY <1>0, <1>1, <1>2, ObjectTypes DEF CreateEffect, States, o
<1>4. TypeOK'
  <2>1. \A i \in DOMAIN plan' : plan'[i] # <<>> /\ \A j \in DOMAIN plan'[i] : plan'[i][j].on \in Objects
    BY <1>0, <1>1, GoesOn
  <2> HIDE DEF c, o
  <2> QED BY <2>1, <1>0, <1>1 DEF TypeOK
<1>5. GoneOK'
  BY <1>1, <1>3, CreatingSpends
<1> QED BY <1>1, <1>3, <1>4, <1>5, CreatingGoesOn DEF ResourceInv

\* An object is stopped.
LEMMA StopKeeps ==
  ASSUME ResourceInv, StopObject
  PROVE  ResourceInv'
<1> DEFINE c == Current
           o == c.on
<1>0. TypeOK /\ PhaseOK /\ GoneOK
  BY DEF ResourceInv
<1>1. /\ plan # <<>> /\ c.op = "stop" /\ GoOn
      /\ obj' = [obj EXCEPT ![o] = IF @ = "started" THEN "made" ELSE @]
      /\ UNCHANGED <<http_server, queues, ptr, dangling, stale, abandoned, destroyFailed, failures>>
  BY DEF StopObject, Called, failureVars
<1>2. queues # "creating" /\ o \in Objects
  <2>1. ~CreateCall(c) /\ c \notin Drops
    BY <1>1 DEF CreateCall, CreateCalls, Drops
  <2> QED BY <1>0, <1>1, <2>1, Phases
<1>3. DestroyEffect(c)
  <2> HIDE DEF c, o
  <2> QED BY <1>0, <1>1, <1>2, ObjectTypes DEF DestroyEffect, States, o
<1>4. TypeOK'
  <2>1. \A i \in DOMAIN plan' : plan'[i] # <<>> /\ \A j \in DOMAIN plan'[i] : plan'[i][j].on \in Objects
    BY <1>0, <1>1, GoesOn
  <2>2. obj' \in [Objects -> States]
    BY <1>3 DEF DestroyEffect
  <2> HIDE DEF c, o
  <2> QED BY <2>1, <2>2, <1>0, <1>1 DEF TypeOK, States
<1>5. GoneOK'
  BY <1>0, <1>1, <1>3, DestroyingGoesOn DEF GoneOK
<1> QED BY <1>1, <1>3, <1>4, <1>5, DestroyingGoesOn DEF ResourceInv

\* The pointer is null and the call is skipped.
LEMMA SkipKeeps ==
  ASSUME ResourceInv, SkipCall
  PROVE  ResourceInv'
<1> DEFINE c == Current
           o == c.on
<1>0. TypeOK /\ PhaseOK /\ GoneOK
  BY DEF ResourceInv
<1>1. /\ plan # <<>> /\ c.guard /\ ~ptr[o] /\ GoOn
      /\ UNCHANGED <<http_server, queues, obj, ptr, dangling, stale, abandoned, destroyFailed, failures>>
  BY DEF SkipCall, failureVars, objectVars
<1>2. queues # "creating" /\ o \in Objects
  <2>1. ~CreateCall(c) /\ c \notin Drops
    BY <1>1, UndoCalls, DropOK
  <2> QED BY <1>0, <1>1, <2>1, Phases
<1>3. DestroyEffect(c)
  <2> HIDE DEF c, o
  <2> QED BY <1>0, <1>1, <1>2, ObjectTypes DEF DestroyEffect, States, o
<1>4. TypeOK'
  <2>1. \A i \in DOMAIN plan' : plan'[i] # <<>> /\ \A j \in DOMAIN plan'[i] : plan'[i][j].on \in Objects
    BY <1>0, <1>1, GoesOn
  <2> HIDE DEF c, o
  <2> QED BY <2>1, <1>0, <1>1 DEF TypeOK
<1>5. GoneOK'
  BY <1>0, <1>1, <1>3, DestroyingGoesOn DEF GoneOK
<1> QED BY <1>1, <1>3, <1>4, <1>5, DestroyingGoesOn DEF ResourceInv

\* An object is released.
LEMMA ReleaseKeeps ==
  ASSUME ResourceInv, ReleaseObject
  PROVE  ResourceInv'
<1> DEFINE c == Current
           o == c.on
<1>0. TypeOK /\ PhaseOK /\ GoneOK
  BY DEF ResourceInv
<1>1. /\ plan # <<>> /\ c.op \in {"release", "end"} /\ GoOn /\ ptr[o]
      /\ obj' = [obj EXCEPT ![o] = "gone"] /\ ptr' = [ptr EXCEPT ![o] = ~c.nulls]
      /\ stale' = IF obj[o] = "gone" THEN stale \cup {o} ELSE stale
      /\ UNCHANGED <<http_server, queues, dangling, abandoned, destroyFailed, failures>>
  BY DEF ReleaseObject, Called, failureVars
<1>2. o \in Objects /\ c \in Pending
  BY <1>0, <1>1, Phases
<1>3. stale' \subseteq dangling'
  <2>1. obj[o] = "gone" => o \in dangling
    BY <1>0, <1>1, <1>2 DEF GoneOK, Spent
  <2> QED BY <2>1, <1>0, <1>1 DEF GoneOK
<1>4. TypeOK'
  <2>1. \A i \in DOMAIN plan' : plan'[i] # <<>> /\ \A j \in DOMAIN plan'[i] : plan'[i][j].on \in Objects
    BY <1>0, <1>1, GoesOn
  <2>2. stale' \subseteq Objects /\ (~c.nulls) \in BOOLEAN
    BY <1>0, <1>1, <1>2 DEF TypeOK
  <2>3. ptr' \in [Objects -> BOOLEAN]
    BY <2>2, <1>0, <1>1 DEF TypeOK
  <2> HIDE DEF c, o
  <2> QED BY <2>1, <2>2, <2>3, <1>0, <1>1 DEF TypeOK
<1>5. /\ obj' \in [Objects -> States] /\ ptr' \in [Objects -> BOOLEAN]
      /\ obj'[o] = "gone" /\ ptr'[o] = ~c.nulls
      /\ \A x \in Objects : x # o => obj'[x] = obj[x] /\ ptr'[x] = ptr[x]
  BY <1>0, <1>1, <1>2, <1>4 DEF TypeOK, States
<1>6. CASE queues = "creating"
  <2>1. c \in Drops
    <3>1. ~CreateCall(c)
      BY <1>1 DEF CreateCall, CreateCalls
    <3> QED BY <1>0, <1>1, <1>6, <3>1, Phases
  <2>2. c.op = "release" /\ c.nulls
    BY <2>1, DropOK
  <2>3. CreateEffect(c)
    <3>1. ptr'[o] = FALSE
      BY <2>2, <1>5
    <3>2. abandoned \subseteq abandoned' /\ UNCHANGED <<http_server, queues>> /\ GoOn
      BY <1>1
    <3> HIDE DEF c, o
    <3>3. c.op = "release" /\ (obj'[o] = "gone" \/ (obj'[o] = obj[o] /\ o \in abandoned')) /\ ~ptr'[o]
      <4>1. obj'[o] = "gone"
        BY <1>5
      <4>2. c.op = "release"
        BY <2>2
      <4> QED BY <3>1, <4>1, <4>2
    <3> QED BY <3>2, <3>3, <1>5, <1>6 DEF CreateEffect, o
  <2>4. \A x \in Objects : Spent(x)'
    BY <2>2, <1>0, <1>1, <1>5, <1>6, SpentAll DEF Spent
  <2>5. \A d \in Pending' : d.on \in Objects
    BY <1>0, <1>1, GoesOn, PendingObjects
  <2>6. GoneOK'
    BY <1>3, <2>4, <2>5 DEF GoneOK
  <2> QED BY <1>1, <1>4, <2>3, <2>6, CreatingGoesOn DEF ResourceInv
<1>7. CASE queues # "creating"
  <2>1. DestroyEffect(c)
    BY <1>1, <1>5, <1>7 DEF DestroyEffect
  <2>2. GoneOK'
    BY <1>1, <1>3, <2>1, DestroyingGoesOn DEF GoneOK
  <2> QED BY <1>1, <1>4, <2>1, <2>2, DestroyingGoesOn DEF ResourceInv
<1> QED BY <1>6, <1>7
-----------------------------------------------------------------------------
(* The calls that fail.                                                    *)

\* A function that creates is left, and its caller goes on.
LEMMA CreatingLeaves ==
  ASSUME ResourceInv, plan # <<>>, queues = "creating", CreateCall(Current), Current.otherwise = "leave",
         plan' = Put(Current.undo, Tail(plan)),
         UNCHANGED <<http_server, queues, obj, ptr, dangling, stale, abandoned, destroyFailed>>
  PROVE  /\ PhaseOK' /\ PointersOK' /\ GoneOK' /\ MemoryOutlivesQueues' /\ StopsFirst'
         /\ MakingOK' /\ StagesOK' /\ ReadyOK' /\ SettleOK' /\ DevicesOK'
         /\ \A i \in DOMAIN plan' : plan'[i] # <<>> /\ \A j \in DOMAIN plan'[i] : plan'[i][j].on \in Objects
<1> DEFINE c == Current
           later == AllCalls(Tail(plan))
           here == Calls(Head(plan))
           undo == Calls(c.undo)
<1>0. /\ TypeOK /\ PhaseOK /\ PointersOK /\ GoneOK /\ MemoryOutlivesQueues /\ StopsFirst /\ MakingOK
      /\ StagesOK /\ ReadyOK /\ SettleOK /\ DevicesOK /\ CreatePlan(plan)
  BY Phases DEF ResourceInv
<1>1. /\ Current = Head(Head(plan)) /\ CreateCall(Head(Head(plan)))
      /\ plan' = Put(Head(Head(plan)).undo, Tail(plan))
  BY DEF Current
<1> PICK l : l = Leader(c.on)
  OBVIOUS
<1>2. /\ CreatePlan(plan')
      /\ Pending' = undo \cup later /\ Pending = here \cup later /\ c \in here
      /\ \A d \in here : CreateTogether(c, d)
      /\ \A d \in later : CreateApart(c, d)
      /\ \A i \in DOMAIN plan' : plan'[i] = c.undo \/ \E j \in DOMAIN plan : plan'[i] = plan[j]
  <2> DEFINE q == Put(Head(Head(plan)).undo, Tail(plan))
  <2>1. /\ CreatePlan(q)
        /\ AllCalls(q) = Calls(Head(Head(plan)).undo) \cup AllCalls(Tail(plan))
        /\ AllCalls(plan) = Calls(Head(plan)) \cup AllCalls(Tail(plan)) /\ Head(Head(plan)) \in Calls(Head(plan))
        /\ \A d \in Calls(Head(plan)) : CreateTogether(Head(Head(plan)), d)
        /\ \A d \in AllCalls(Tail(plan)) : CreateApart(Head(Head(plan)), d)
        /\ \A i \in DOMAIN q : q[i] = Head(Head(plan)).undo \/ \E j \in DOMAIN plan : q[i] = plan[j]
    BY <1>0, <1>1, CreateLeave
  <2>2. plan' = q /\ Pending = AllCalls(plan) /\ Pending' = AllCalls(plan')
    BY <1>1 DEF Pending
  <2> QED BY <2>1, <2>2, <1>1
<1>3. \A d \in here, e \in later : CreateApart(d, e)
  BY <1>0, CreateHead
<1>4. /\ Family(c.on) = "cpu" /\ c.on[2] # "pe" /\ \E k \in DOMAIN c.undo : c.undo[k].on = l
      /\ c.on \in Objects
  BY UndoCalls DEF CreateCall
<1>5. \A d \in undo : /\ d \in Drops /\ d.op = "release" /\ d.undo = <<>> /\ d.on \in Objects
                      /\ Family(d.on) = "cpu" /\ Leader(d.on) = l /\ d.on \in Touched(c)
                      /\ d.on[2] # "pe"
  <2> TAKE d \in undo
  <2>1. /\ d \in Drops /\ Family(d.on) = "cpu" /\ Leader(d.on) = l /\ d.on \in Touched(c)
    BY UndoCalls
  <2>2. d.op = "release" /\ d.undo = <<>> /\ d.on \in Objects
    BY <2>1, DropOK
  <2>3. d.on[2] # "pe"
    BY <2>1, <2>2, <1>4, LeaderOK
  <2> QED BY <2>1, <2>2, <2>3
<1>6. \E d \in undo : d.on = l
  BY <1>4 DEF Calls
<1>7. \A d \in Pending : d.on \in Objects
  BY <1>0, PendingObjects
<1>8. \A d \in here : Family(d.on) = "cpu" /\ Leader(d.on) = l /\ d.on \in Objects /\ d.on[2] # "pe"
  <2> TAKE d \in here
  <2>1. Family(d.on) = "cpu" /\ Leader(d.on) = l
    BY <1>2 DEF CreateTogether
  <2>2. d.on \in Objects
    BY <1>2, <1>7
  <2> QED BY <2>1, <2>2, <1>4, LeaderOK
<1>9. \A i \in DOMAIN plan' : plan'[i] # <<>> /\ \A j \in DOMAIN plan'[i] : plan'[i][j].on \in Objects
  BY <1>2, PlanTyped
<1> HIDE DEF c, later, here, undo
<1>11. PhaseOK'
  <2>1. ASSUME NEW d \in Pending' PROVE ForMode(d, http_server)
    <3>1. CASE d \in undo
      <4>1. ForMode(c, http_server)
        BY <1>0, <1>2 DEF PhaseOK
      <4> QED BY <3>1, <4>1, <1>4, <1>5 DEF ForMode, OfServer, Family
    <3>2. CASE d \in later
      BY <3>2, <1>0, <1>2 DEF PhaseOK
    <3> QED BY <1>2, <3>1, <3>2
  <2> QED BY <2>1, <1>2 DEF PhaseOK
<1>12. PointersOK'
  BY <1>0 DEF PointersOK
<1>13. GoneOK'
  BY <1>0, <1>2, <1>5, <1>7 DEF GoneOK, Spent
<1>14. MemoryOutlivesQueues'
  BY <1>0 DEF MemoryOutlivesQueues
<1>15. StopsFirst'
  <2> SUFFICES ASSUME NEW i \in DOMAIN plan', NEW e \in Calls(plan'[i]), e.op = "release",
                      NEW x \in Objects \ abandoned, obj[x] = "started", e.on \in Needs(x)
               PROVE  \E d \in Calls(plan'[i]) : d.on = x /\ d.op \in {"stop", "release"}
    BY DEF StopsFirst
  <2>1. CASE plan'[i] = c.undo
    <3>1. PICK k \in DOMAIN c.undo : e = c.undo[k]
      BY <2>1 DEF Calls
    <3>2. PICK j \in DOMAIN c.undo : c.undo[j].on = x
      BY <3>1, <1>0, <1>2 DEF MakingOK
    <3>3. c.undo[j] \in undo
      BY DEF Calls, undo
    <3> QED BY <2>1, <3>2, <3>3, <1>5 DEF undo
  <2>2. CASE \E j \in DOMAIN plan : plan'[i] = plan[j]
    BY <2>2, <1>0 DEF StopsFirst
  <2> QED BY <1>2, <2>1, <2>2
<1>16. MakingOK'
  <2> SUFFICES ASSUME NEW d \in Pending'
               PROVE  /\ d.op \in {"make", "nest"} => obj[d.on] = "none"
                      /\ d.op = "start" =>
                           /\ obj[d.on] # "started"
                           /\ ptr[d.on] \/ \E e \in Pending' : e.op \in {"make", "nest"} /\ e.on = d.on
                           /\ \A m \in Needs(d.on) : obj[m] # "gone"
                      /\ d.op = "nest" => \A x \in Objects : d.on \in Needs(x) => obj[x] # "started"
                      /\ \A k \in DOMAIN d.undo : \A x \in Objects \ abandoned :
                           obj[x] = "started" /\ d.undo[k].on \in Needs(x) =>
                             \E j \in DOMAIN d.undo : j < k /\ d.undo[j].on = x
    BY DEF MakingOK
  <2>1. CASE d \in undo
    BY <2>1, <1>5
  <2>2. CASE d \in later
    <3>1. /\ d.op \in {"make", "nest"} => obj[d.on] = "none"
          /\ d.op = "start" =>
               /\ obj[d.on] # "started"
               /\ ptr[d.on] \/ \E e \in Pending : e.op \in {"make", "nest"} /\ e.on = d.on
               /\ \A m \in Needs(d.on) : obj[m] # "gone"
          /\ d.op = "nest" => \A x \in Objects : d.on \in Needs(x) => obj[x] # "started"
          /\ \A k \in DOMAIN d.undo : \A x \in Objects \ abandoned :
               obj[x] = "started" /\ d.undo[k].on \in Needs(x) =>
                 \E j \in DOMAIN d.undo : j < k /\ d.undo[j].on = x
      BY <2>2, <1>0, <1>2 DEF MakingOK
    <3>2. ASSUME d.op = "start", NEW e \in Pending, e.op \in {"make", "nest"}, e.on = d.on
          PROVE  e \in Pending'
      <4>1. e \notin here
        BY <2>2, <3>2, <1>3 DEF CreateApart, Touched
      <4> QED BY <4>1, <1>2
    <3> QED BY <3>1, <3>2
  <2> QED BY <1>2, <2>1, <2>2
<1>17. StagesOK'
  <2>1. ASSUME NEW x \in Objects, obj[x] # "none", NEW d \in Pending'
        PROVE  Stage(Family(x)) <= Stage(Family(d.on))
    BY <2>1, <1>0, <1>2, <1>4, <1>5 DEF StagesOK
  <2>2. ASSUME NEW f \in Protocols PROVE Begun(f) \/ \E d \in Pending' : Opens(d, f)
    <3>1. \A d \in here : ~Opens(d, f)
      BY <1>8, RankOK DEF Protocols
    <3> QED BY <3>1, <1>0, <1>2 DEF StagesOK
  <2> QED BY <2>1, <2>2 DEF StagesOK, Begun
<1>18. ReadyOK'
  <2>0. /\ \A x \in Objects : Family(x) # "cpu" /\ (OfServer(x) => http_server) => Ready(x)
        /\ \A x \in Objects : Family(x) = "cpu" /\ http_server => Ready(x) \/ (x[2] # "pe" /\ Lost(Leader(x)))
        /\ \A d \in Pending : d.op = "release" =>
             Family(d.on) = "cpu" /\ d.on[2] # "pe" /\ Lost(Leader(d.on))
    BY <1>0 DEF ReadyOK
  <2>1. Lost(l)'
    <3>1. \A d \in Pending' : d.on = l => d.op \notin {"make", "nest"}
      BY <1>2, <1>5, <1>6 DEF CreateApart
    <3>2. \E d \in Pending' : d.on = l /\ d.op = "release"
      BY <1>2, <1>5, <1>6
    <3> QED BY <3>1, <3>2 DEF Lost
  <2>2. ASSUME NEW x \in Objects, Ready(x)
        PROVE  Ready(x)' \/ (Family(x) = "cpu" /\ x[2] # "pe" /\ Leader(x) = l)
    BY <2>2, <1>2, <1>8 DEF Ready, Usable
  <2>3. ASSUME NEW x \in Objects, Family(x) = "cpu", Lost(Leader(x))
        PROVE  Lost(Leader(x))'
    <3>1. Leader(x) \in Objects
      BY <2>3, LeaderOK
    <3>2. CASE Leader(x) = l
      BY <3>2, <2>1
    <3>3. CASE Leader(x) # l
      <4>1. \A d \in Pending' : d.on = Leader(x) => d.op \notin {"make", "nest"}
        BY <2>3, <1>2, <1>5 DEF Lost
      <4>2. ASSUME NEW d \in Pending, d.on = Leader(x) PROVE d \in Pending'
        <5>1. d \notin here
          <6> SUFFICES ASSUME d \in here PROVE FALSE
            OBVIOUS
          <6>1. Leader(Leader(x)) = l
            BY <4>2, <1>8
          <6>2. Leader(Leader(x)) = Leader(x)
            BY <2>3, LeaderOK, KindsOK DEF Leader
          <6> QED BY <3>3, <6>1, <6>2
        <5> QED BY <5>1, <1>2
      <4> QED BY <4>1, <4>2, <2>3 DEF Lost
    <3> QED BY <3>2, <3>3
  <2>4. ASSUME NEW x \in Objects, Family(x) # "cpu", OfServer(x) => http_server' PROVE Ready(x)'
    BY <2>0, <2>2, <2>4
  <2>5. ASSUME NEW x \in Objects, Family(x) = "cpu", http_server'
        PROVE  Ready(x)' \/ (x[2] # "pe" /\ Lost(Leader(x))')
    BY <2>0, <2>1, <2>2, <2>3, <2>5
  <2>6. ASSUME NEW d \in Pending', d.op = "release"
        PROVE  Family(d.on) = "cpu" /\ d.on[2] # "pe" /\ Lost(Leader(d.on))'
    <3>1. CASE d \in undo
      BY <3>1, <2>1, <1>5
    <3>2. CASE d \in later
      BY <3>2, <2>0, <2>3, <2>6, <1>2, <1>7
    <3> QED BY <1>2, <3>1, <3>2
  <2> QED BY <2>4, <2>5, <2>6 DEF ReadyOK
<1>19. SettleOK'
  BY DEF SettleOK
<1>20. DevicesOK'
  BY <1>0 DEF DevicesOK
<1> QED BY <1>9, <1>11, <1>12, <1>13, <1>14, <1>15, <1>16, <1>17, <1>18, <1>19, <1>20

\* A function that destroys is left.
LEMMA DestroyingLeaves ==
  ASSUME ResourceInv, plan # <<>>, queues # "creating",
         plan' = Put(Current.undo, Tail(plan)), destroyFailed', stale' \subseteq dangling',
         UNCHANGED <<http_server, queues, obj, ptr, dangling, abandoned>>
  PROVE  /\ PhaseOK' /\ PointersOK' /\ GoneOK' /\ MemoryOutlivesQueues' /\ StopsFirst'
         /\ MakingOK' /\ StagesOK' /\ ReadyOK' /\ SettleOK' /\ DevicesOK'
         /\ \A i \in DOMAIN plan' : plan'[i] # <<>> /\ \A j \in DOMAIN plan'[i] : plan'[i][j].on \in Objects
<1> DEFINE c == Current
           later == AllCalls(Tail(plan))
           undo == Calls(c.undo)
<1>0. /\ TypeOK /\ PhaseOK /\ PointersOK /\ GoneOK /\ MemoryOutlivesQueues /\ StopsFirst /\ DevicesOK
      /\ DestroyPlan(plan) /\ queues \in {"undoing", "destroying"} /\ DestroyCall(c) /\ c \in Pending /\ c.on \in Objects
  BY Phases DEF ResourceInv
<1>1. Current = Head(Head(plan)) /\ plan' = Put(Head(Head(plan)).undo, Tail(plan))
  BY DEF Current
<1>2. /\ DestroyPlan(plan')
      /\ Pending' = undo \cup later /\ later \subseteq Pending
      /\ \A d \in undo : d \in PeDrops
      /\ \A i \in DOMAIN plan' : plan'[i] = c.undo \/ \E j \in DOMAIN plan : plan'[i] = plan[j]
  <2> DEFINE q == Put(Head(Head(plan)).undo, Tail(plan))
  <2>1. /\ DestroyPlan(q)
        /\ AllCalls(q) = Calls(Head(Head(plan)).undo) \cup AllCalls(Tail(plan))
        /\ AllCalls(plan) = Calls(Head(plan)) \cup AllCalls(Tail(plan))
        /\ \A d \in Calls(Head(Head(plan)).undo) : d \in PeDrops
        /\ \A i \in DOMAIN q : q[i] = Head(Head(plan)).undo \/ \E j \in DOMAIN plan : q[i] = plan[j]
    BY <1>0, DestroyLeave
  <2>2. plan' = q /\ Pending = AllCalls(plan) /\ Pending' = AllCalls(plan')
    BY <1>1 DEF Pending
  <2> QED BY <2>1, <2>2, <1>1
<1>3. \A d \in undo : d.op = "release" /\ d.on \in Objects /\ Family(d.on) = "cpu" /\ d.on[2] = "pe"
  BY <1>2, PeDropOK
<1>4. undo # {} => Family(c.on) = "cpu"
  <2> SUFFICES ASSUME Family(c.on) # "cpu" PROVE undo = {}
    OBVIOUS
  <2>1. c.undo = <<>>
    BY <1>0 DEF DestroyCall
  <2> QED BY <2>1 DEF Calls
<1>5. \A i \in DOMAIN plan' : plan'[i] # <<>> /\ \A j \in DOMAIN plan'[i] : plan'[i][j].on \in Objects
  BY <1>2, PlanTyped
<1> HIDE DEF c, later, undo
<1>11. PhaseOK'
  <2>1. queues = "undoing" => \A d \in Pending' : Family(d.on) # "app"
    BY <1>0, <1>2, <1>3 DEF PhaseOK
  <2> QED BY <2>1, <1>0, <1>2 DEF PhaseOK
<1>12. PointersOK'
  BY <1>0 DEF PointersOK
<1>13. GoneOK'
  <2>1. ASSUME NEW d \in Pending', d.op \in {"release", "end"} PROVE Spent(d.on)'
    <3>1. Spent(d.on)
      BY <2>1, <1>0, <1>2, <1>3 DEF GoneOK
    <3> QED BY <3>1 DEF Spent
  <2> QED BY <2>1, <1>0 DEF GoneOK, Spent
<1>14. MemoryOutlivesQueues'
  BY <1>0 DEF MemoryOutlivesQueues
<1>15. StopsFirst'
  <2> SUFFICES ASSUME NEW i \in DOMAIN plan', NEW e \in Calls(plan'[i]), e.op = "release",
                      NEW x \in Objects \ abandoned, obj[x] = "started", e.on \in Needs(x)
               PROVE  \E d \in Calls(plan'[i]) : d.on = x /\ d.op \in {"stop", "release"}
    BY DEF StopsFirst
  <2>1. plan'[i] # c.undo
    <3> SUFFICES ASSUME plan'[i] = c.undo PROVE FALSE
      OBVIOUS
    <3>1. e.on[2] = "pe"
      BY <1>3 DEF undo
    <3> QED BY <3>1, NeedsOK
  <2>2. CASE \E j \in DOMAIN plan : plan'[i] = plan[j]
    BY <2>2, <1>0 DEF StopsFirst
  <2> QED BY <1>2, <2>1, <2>2
<1>16. MakingOK' /\ StagesOK' /\ ReadyOK' /\ SettleOK'
  BY <1>0 DEF MakingOK, StagesOK, ReadyOK, SettleOK
<1>20. DevicesOK'
  <2> SUFFICES ASSUME NEW x \in Devices, obj[x] = "gone"
               PROVE  queues \in {"destroying", "down"} /\ \A d \in Pending' : d.on[1] = App
    BY DEF DevicesOK
  <2>1. queues \in {"destroying", "down"} /\ \A d \in Pending : d.on[1] = App
    BY <1>0 DEF DevicesOK
  <2>2. Family(c.on) # "cpu"
    BY <2>1, <1>0 DEF Family, App
  <2> QED BY <2>1, <2>2, <1>2, <1>4
<1> QED BY <1>5, <1>11, <1>12, <1>13, <1>14, <1>15, <1>16, <1>20

\* main gives up.
LEMMA CreatingReturns ==
  ASSUME ResourceInv, plan # <<>>, queues = "creating", CreateCall(Current), Current.otherwise = "return",
         plan' = Put(Current.undo, <<>>), queues' = "failed",
         UNCHANGED <<http_server, obj, ptr, dangling, stale, abandoned>>
  PROVE  /\ PhaseOK' /\ PointersOK' /\ GoneOK' /\ MemoryOutlivesQueues' /\ StopsFirst'
         /\ MakingOK' /\ StagesOK' /\ ReadyOK' /\ SettleOK' /\ DevicesOK'
         /\ plan' = <<>>
<1>1. plan' = <<>>
  BY DEF CreateCall, Put
<1>2. Pending' = {}
  BY <1>1 DEF Pending, AllCalls
<1>3. PhaseOK' /\ PointersOK' /\ MemoryOutlivesQueues' /\ StopsFirst'
  BY <1>1, <1>2 DEF ResourceInv, PhaseOK, PointersOK, MemoryOutlivesQueues, StopsFirst
<1>4. GoneOK'
  BY <1>2 DEF ResourceInv, GoneOK, Spent
<1>5. MakingOK' /\ StagesOK' /\ ReadyOK' /\ SettleOK'
  BY DEF MakingOK, StagesOK, ReadyOK, SettleOK
<1>6. DevicesOK'
  BY DEF ResourceInv, DevicesOK
<1> QED BY <1>1, <1>3, <1>4, <1>5, <1>6

\* The stages tell which queues there are when a function fails.
LEMMA WhatIsBegun ==
  ASSUME ResourceInv, plan # <<>>, queues = "creating", CreateCall(Current), Current.otherwise \in Protocols
  PROVE  /\ Begun("udp")
         /\ Current.otherwise = "udp" => ~Begun("tcp") /\ ~Begun("icmp")
         /\ Current.otherwise = "tcp" => Begun("tcp") /\ ~Begun("icmp")
         /\ Current.otherwise = "icmp" => Begun("icmp")
<1> DEFINE c == Current
           f == c.otherwise
<1>0. TypeOK /\ PhaseOK /\ StagesOK /\ c \in Pending /\ CreatePlan(plan) /\ c.on \in Objects
  BY Phases DEF ResourceInv
<1>1. f \in Protocols /\ Stage(Family(c.on)) = Stage(f)
  BY DEF CreateCall
<1>2. Stage("udp") = 2 /\ Stage("tcp") = 4 /\ Stage("icmp") = 6
  BY StageOK
<1>3. \A g \in Protocols : ~Opens(c, g)
  BY <1>1 DEF Opens, Protocols
<1>4. Rank(c) = Stage(f) + 1
  BY <1>1, <1>3, RankOK
<1>5. \A d \in Pending : d = c \/ Rank(c) <= Rank(d)
  <2>1. c = Head(Head(plan)) /\ Pending = AllCalls(plan)
    BY DEF Current, Pending
  <2>2. LET q == Put(Tail(Head(plan)), Tail(plan))
        IN  /\ \A d \in AllCalls(plan) : d = Head(Head(plan)) \/ d \in AllCalls(q)
            /\ \A d \in AllCalls(q) : CreateOrder(Head(Head(plan)), d)
    BY <1>0, CreateRest
  <2> QED BY <2>1, <2>2 DEF CreateOrder
<1> HIDE DEF c, f
<1>6. ASSUME NEW g \in Protocols, Stage(g) <= Stage(f) PROVE Begun(g)
  <2>1. Begun(g) \/ \E d \in Pending : Opens(d, g)
    BY <1>0 DEF StagesOK
  <2>2. ASSUME NEW d \in Pending, Opens(d, g) PROVE FALSE
    <3>1. Rank(d) = Stage(g)
      BY <2>2, RankOK
    <3>2. d # c
      BY <2>2, <1>3
    <3> QED BY <3>1, <3>2, <1>1, <1>2, <1>4, <1>5, <1>6 DEF Protocols
  <2> QED BY <2>1, <2>2
<1>7. ASSUME NEW g \in Protocols, Stage(f) < Stage(g) PROVE ~Begun(g)
  <2> SUFFICES ASSUME NEW o \in Objects, o[1][1] = g, obj[o] # "none" PROVE FALSE
    BY DEF Begun
  <2>1. Stage(g) <= Stage(f)
    BY <1>0, <1>1 DEF StagesOK, Family
  <2> QED BY <2>1, <1>1, <1>2, <1>7 DEF Protocols
<1>8. Begun("udp")
  BY <1>1, <1>2, <1>6 DEF Protocols
<1>9. CASE f = "udp"
  BY <1>2, <1>7, <1>8, <1>9 DEF Protocols, f, c
<1>10. CASE f = "tcp"
  BY <1>2, <1>6, <1>7, <1>8, <1>10 DEF Protocols, f, c
<1>11. CASE f = "icmp"
  BY <1>2, <1>6, <1>8, <1>11 DEF Protocols, f, c
<1> QED BY <1>1, <1>9, <1>10, <1>11 DEF Protocols

\* The function that destroys the queues takes over.
LEMMA CreatingUndoes ==
  ASSUME ResourceInv, plan # <<>>, queues = "creating", CreateCall(Current), Current.otherwise \in Protocols,
         plan' = Put(Current.undo, <<DestroyOf(Current.otherwise)>>), queues' = "undoing",
         UNCHANGED <<http_server, stale, abandoned>>,
         \/ UNCHANGED <<obj, ptr, dangling>>
         \/ /\ Current.op = "nest"
            /\ obj' = [obj EXCEPT ![Current.on] = "gone"]
            /\ ptr' = [ptr EXCEPT ![Current.on] = TRUE]
            /\ dangling' = dangling \cup {Current.on}
  PROVE  /\ PhaseOK' /\ PointersOK' /\ GoneOK' /\ MemoryOutlivesQueues' /\ StopsFirst'
         /\ MakingOK' /\ StagesOK' /\ ReadyOK' /\ SettleOK' /\ DevicesOK'
         /\ \A i \in DOMAIN plan' : plan'[i] # <<>> /\ \A j \in DOMAIN plan'[i] : plan'[i][j].on \in Objects
<1> DEFINE c == Current
           o == c.on
           undo == Calls(c.undo)
<1> PICK f \in Protocols : f = c.otherwise
  OBVIOUS
<1> DEFINE s == DestroyOf(f)
<1>0. /\ TypeOK /\ PhaseOK /\ PointersOK /\ GoneOK /\ MemoryOutlivesQueues /\ StopsFirst /\ MakingOK /\ DevicesOK
      /\ c \in Pending /\ o \in Objects
  BY Phases DEF ResourceInv
<1>1. Frees(s, FamiliesOf(f))
  BY DestroyCode
<1>2. /\ DestroyPlan(plan') /\ Pending' = undo \cup Calls(s)
      /\ \A i \in DOMAIN plan' : plan'[i] = c.undo \/ plan'[i] = s
  BY <1>1, UndoThenDestroy DEF Frees, Pending
<1>3. \A d \in undo : Family(d.on) = "cpu" /\ d.on \in Objects
  BY UndoCalls, DropOK
<1>4. /\ obj \in [Objects -> States] /\ ptr \in [Objects -> BOOLEAN]
      /\ \A x \in Objects : x # o => obj'[x] = obj[x] /\ ptr'[x] = ptr[x]
      /\ \/ obj'[o] = obj[o] /\ ptr'[o] = ptr[o]
         \/ c.op = "nest" /\ obj'[o] = "gone" /\ ptr'[o] /\ o \in dangling'
      /\ dangling \subseteq dangling'
  BY <1>0, ObjectTypes
<1>5. \A x \in Objects : obj'[x] = "started" => obj[x] = "started"
  BY <1>4
<1>6. c.op = "nest" => f = "tcp" /\ Family(o) = "cpu"
  BY DEF CreateCall
<1>7. \A i \in DOMAIN plan' : plan'[i] # <<>> /\ \A j \in DOMAIN plan'[i] : plan'[i][j].on \in Objects
  BY <1>2, PlanTyped
<1>8. Family(o) = "cpu" => OfServer(o)
  BY DEF OfServer, Family
<1>9. OfServer(o) => http_server
  BY <1>0 DEF PhaseOK, ForMode
<1>10. \A d \in Calls(s) : Family(d.on) # "app" /\ d.on \in Objects
  <2>1. "app" \notin FamiliesOf(f)
    BY DEF FamiliesOf, Protocols
  <2>2. ASSUME NEW d \in Calls(s) PROVE d.on \in Objects
    <3> HIDE DEF s
    <3>1. s \in Seq(DestroyCalls)
      BY <1>1 DEF Frees, DestroyFunction
    <3>2. d \in DestroyCalls
      BY <3>1 DEF Calls
    <3> QED BY <3>2 DEF DestroyCalls
  <2>3. \A d \in Calls(s) : Family(d.on) \in FamiliesOf(f)
    BY <1>1 DEF Frees
  <2> QED BY <2>1, <2>2, <2>3
<1> HIDE DEF o, undo, s
<1>11. PhaseOK'
  BY <1>2, <1>3, <1>10 DEF PhaseOK
<1>12. PointersOK'
  BY <1>0, <1>4, <1>6, <1>8, <1>9 DEF PointersOK
<1>13. GoneOK'
  <2>1. \A x \in Objects : Spent(x)'
    BY <1>0, <1>4, SpentAll DEF Spent
  <2> QED BY <2>1, <1>0, <1>2, <1>3, <1>4, <1>10 DEF GoneOK
<1>14. MemoryOutlivesQueues'
  <2> SUFFICES ASSUME NEW x \in Objects \ abandoned, obj'[x] = "started", NEW m \in Needs(x), obj'[m] = "gone"
               PROVE  FALSE
    BY DEF MemoryOutlivesQueues
  <2>1. m \in Objects /\ obj[x] = "started" /\ obj[m] # "gone"
    BY <1>0, <1>5, NeedsOK DEF MemoryOutlivesQueues
  <2>2. m = o /\ c.op = "nest"
    BY <2>1, <1>4
  <2> QED BY <2>1, <2>2, <1>0 DEF MakingOK, o
<1>15. StopsFirst'
  <2> SUFFICES ASSUME NEW i \in DOMAIN plan', NEW e \in Calls(plan'[i]), e.op = "release",
                      NEW x \in Objects \ abandoned, obj'[x] = "started", e.on \in Needs(x)
               PROVE  \E d \in Calls(plan'[i]) : d.on = x /\ d.op \in {"stop", "release"}
    BY DEF StopsFirst
  <2>0. obj[x] = "started"
    BY <1>5
  <2>1. CASE plan'[i] = c.undo
    <3>1. PICK k \in DOMAIN c.undo : e = c.undo[k]
      BY <2>1 DEF Calls
    <3>2. PICK j \in DOMAIN c.undo : c.undo[j].on = x
      BY <2>0, <3>1, <1>0 DEF MakingOK
    <3>3. c.undo[j] \in undo /\ c.undo[j].op = "release"
      BY UndoCalls, DropOK DEF Calls, undo
    <3> QED BY <2>1, <3>2, <3>3 DEF undo
  <2>2. CASE plan'[i] = s
    <3>1. OfServer(x) => http_server
      BY <2>0, <1>0 DEF PointersOK
    <3> QED BY <2>2, <3>1, <1>1 DEF Frees, s
  <2> QED BY <1>2, <2>1, <2>2
<1>16. MakingOK' /\ StagesOK' /\ ReadyOK'
  BY DEF MakingOK, StagesOK, ReadyOK
<1>19. SettleOK'
  <2>1. Families' = FamiliesOf(f)
    <3>1. /\ Begun("udp")
          /\ f = "udp" => ~Begun("tcp") /\ ~Begun("icmp")
          /\ f = "tcp" => Begun("tcp") /\ ~Begun("icmp")
          /\ f = "icmp" => Begun("icmp")
      BY WhatIsBegun
    <3>2. ASSUME NEW g \in Protocols PROVE Begun(g) <=> Begun(g)'
      <4>1. \A x \in Objects : x[1][1] = g => (obj[x] # "none" <=> obj'[x] # "none")
        BY <1>4, <1>6 DEF Protocols, Family
      <4> QED BY <4>1 DEF Begun
    <3> QED BY <3>1, <3>2 DEF Families, FamiliesOf, Protocols
  <2> SUFFICES ASSUME NEW x \in Objects \ abandoned, Family(x) \in FamiliesOf(f)
               PROVE  Settled(x)' \/ \E d \in Pending' : Settles(d, x)
    BY <2>1 DEF SettleOK, Doomed
  <2>2. CASE OfServer(x) => http_server
    BY <2>2, <1>1, <1>2 DEF Frees, s
  <2>3. CASE OfServer(x) /\ ~http_server
    BY <2>3, <1>0, <1>4, <1>6, <1>8, <1>9 DEF PointersOK, Settled
  <2> QED BY <2>2, <2>3
<1>20. DevicesOK'
  <2> SUFFICES ASSUME NEW x \in Devices, obj'[x] = "gone" PROVE FALSE
    BY DEF DevicesOK
  <2>1. x \in Objects /\ Family(x) = "app"
    BY OwnersOK, IsObject DEF Devices, App, KindsOf, Family
  <2> QED BY <2>1, <1>0, <1>4, <1>6 DEF DevicesOK
<1> QED BY <1>7, <1>11, <1>12, <1>13, <1>14, <1>15, <1>16, <1>19, <1>20

\* A call fails: its function goes on, or is left, or main gives up.
LEMMA FailTyped ==
  ASSUME TypeOK, CallFails, plan # <<>>, Current.on \in Objects,
         \A i \in DOMAIN plan' : plan'[i] # <<>> /\ \A j \in DOMAIN plan'[i] : plan'[i][j].on \in Objects,
         queues' \in {queues, "failed", "undoing"}
  PROVE  TypeOK'
<1> DEFINE c == Current
<1>0. LeftByFailure(c) /\ c.on \in Objects
  BY DEF CallFails
<1> HIDE DEF c
<1>1. obj' \in [Objects -> States] /\ ptr' \in [Objects -> BOOLEAN]
  BY <1>0, ObjectTypes DEF LeftByFailure, objectVars, States
<1>2. dangling' \subseteq Objects /\ stale' \subseteq Objects /\ abandoned' \subseteq Objects
  BY <1>0 DEF LeftByFailure, objectVars, TypeOK
<1>3. destroyFailed' \in BOOLEAN /\ http_server' = http_server
  BY DEF CallFails
<1>4. failures' \in 0..MaxFailures
  <2>1. failures' = failures \/ (failures < MaxFailures /\ failures' = failures + 1)
    BY DEF CallFails
  <2>2. failures \in 0..MaxFailures
    BY DEF TypeOK
  <2> QED BY <2>1, <2>2, FailureAssumption
<1> QED BY <1>1, <1>2, <1>3, <1>4 DEF TypeOK, States

\* A call of a destruction fails: its function is left, or goes on.
LEMMA DestroyFails ==
  ASSUME ResourceInv, CallFails, queues # "creating"
  PROVE  ResourceInv'
<1> DEFINE c == Current
           o == c.on
<1>0. TypeOK /\ PhaseOK /\ GoneOK /\ plan # <<>>
  BY DEF ResourceInv, CallFails, Called
<1>1. /\ c.op \in {"stop", "release"}
      /\ LeftByFailure(c) /\ AfterFailure(c) /\ http_server' = http_server
      /\ o \in Objects /\ c \in Pending /\ DestroyCall(c) /\ queues \in {"undoing", "destroying"}
      /\ c.otherwise \in {"leave", "ignore"}
  <2>1. /\ o \in Objects /\ c \in Pending /\ DestroyCall(c) /\ queues \in {"undoing", "destroying"}
    BY <1>0, Phases
  <2>2. c.op \in {"stop", "release"} /\ c.otherwise \in {"leave", "ignore"}
    BY <2>1 DEF DestroyCall, DestroyCalls, CallFails, Called
  <2> QED BY <2>1, <2>2 DEF CallFails
<1>2. destroyFailed'
  BY <1>1 DEF CallFails
<1>3. plan' \in {Put(Tail(Head(plan)), Tail(plan)), Put(c.undo, Tail(plan))} /\ queues' = queues
  BY <1>1 DEF AfterFailure, GoOn
<1> HIDE DEF c, o
<1>4. /\ obj' = obj /\ dangling' = dangling /\ stale' \subseteq dangling'
      /\ abandoned \subseteq abandoned' /\ (c.otherwise = "leave" => abandoned' = abandoned /\ ptr' = ptr)
  <2>1. c.op = "release" /\ ptr[o] /\ obj[o] = "gone" => o \in dangling
    BY <1>0, <1>1 DEF GoneOK, Spent, o
  <2> QED BY <2>1, <1>0, <1>1 DEF LeftByFailure, objectVars, GoneOK, o
<1>5. /\ ptr' \in [Objects -> BOOLEAN]
      /\ \A x \in Objects : x # o => ptr'[x] = ptr[x]
      /\ IF c.op = "release" /\ c.nulls /\ ~c.guard /\ c.otherwise = "ignore"
         THEN ~ptr'[o] /\ o \in abandoned'
         ELSE ptr'[o] = ptr[o]
  BY <1>0, <1>1, ObjectTypes DEF LeftByFailure, objectVars, o
<1>6. CASE c.otherwise = "ignore"
  <2>1. GoOn
    BY <1>1, <1>6 DEF AfterFailure
  <2>2. DestroyEffect(c)
    BY <2>1, <1>0, <1>1, <1>2, <1>3, <1>4, <1>5, <1>6, ObjectTypes DEF DestroyEffect, o
  <2>3. \A i \in DOMAIN plan' : plan'[i] # <<>> /\ \A j \in DOMAIN plan'[i] : plan'[i][j].on \in Objects
    BY <2>1, <1>0, GoesOn
  <2>4. TypeOK'
    BY <2>3, <1>0, <1>1, <1>3, FailTyped DEF o, c
  <2>5. DestroyEffect(Current)
    BY <2>2 DEF c
  <2>6. GoneOK'
    BY <2>5, <1>0, <1>1, <1>3, <1>4, DestroyingGoesOn DEF GoneOK
  <2> QED BY <2>4, <2>5, <2>6, <1>0, DestroyingGoesOn DEF ResourceInv
<1>7. CASE c.otherwise = "leave"
  <2>1. plan' = Put(Current.undo, Tail(plan))
    BY <1>1, <1>7 DEF AfterFailure, c
  <2>2. UNCHANGED <<http_server, queues, obj, ptr, dangling, abandoned>>
    BY <1>1, <1>3, <1>4, <1>7
  <2>3. /\ PhaseOK' /\ PointersOK' /\ GoneOK' /\ MemoryOutlivesQueues' /\ StopsFirst'
        /\ MakingOK' /\ StagesOK' /\ ReadyOK' /\ SettleOK' /\ DevicesOK'
        /\ \A i \in DOMAIN plan' : plan'[i] # <<>> /\ \A j \in DOMAIN plan'[i] : plan'[i][j].on \in Objects
    BY <2>1, <2>2, <1>0, <1>2, <1>4, DestroyingLeaves
  <2>4. TypeOK'
    BY <2>3, <1>0, <1>1, <1>3, FailTyped DEF o, c
  <2> QED BY <2>3, <2>4 DEF ResourceInv
<1> QED BY <1>1, <1>6, <1>7

\* A call of a creation fails: the error path, or the destruction of the protocol begins.
LEMMA CreateFails ==
  ASSUME ResourceInv, CallFails, queues = "creating", CreateCall(Current)
  PROVE  ResourceInv'
<1> DEFINE c == Current
<1>0. TypeOK /\ PhaseOK /\ GoneOK /\ plan # <<>> /\ c.on \in Objects
  BY Phases DEF ResourceInv, CallFails, Called
<1>1. /\ c.op \in {"make", "nest", "set", "start"}
      /\ c.otherwise \in Protocols \cup {"return", "leave", "ignore"}
      /\ c.op = "nest" => c.otherwise = "tcp"
      /\ c.otherwise = "ignore" => c.op = "set"
      /\ LeftByFailure(c) /\ AfterFailure(c) /\ http_server' = http_server
      /\ destroyFailed' = destroyFailed
  <2>1. destroyFailed \in BOOLEAN
    BY <1>0 DEF TypeOK
  <2> QED BY <2>1 DEF CreateCall, CreateCalls, CallFails
<1> HIDE DEF c
<1>2. /\ UNCHANGED <<stale, abandoned>>
      /\ c.op # "nest" => UNCHANGED <<obj, ptr, dangling>>
      /\ \/ UNCHANGED <<obj, ptr, dangling>>
         \/ /\ c.op = "nest"
            /\ obj' = [obj EXCEPT ![c.on] = "gone"]
            /\ ptr' = [ptr EXCEPT ![c.on] = TRUE]
            /\ dangling' = dangling \cup {c.on}
  BY <1>1 DEF LeftByFailure, objectVars
<1>3. CASE c.otherwise = "ignore"
  <2>1. c.op = "set" /\ GoOn /\ UNCHANGED <<queues, obj, ptr, dangling, stale, abandoned>>
    BY <1>1, <1>2, <1>3 DEF AfterFailure
  <2>2. CreateEffect(c)
    BY <2>1, <1>0, <1>1, ObjectTypes DEF CreateEffect
  <2>3. \A i \in DOMAIN plan' : plan'[i] # <<>> /\ \A j \in DOMAIN plan'[i] : plan'[i][j].on \in Objects
    BY <2>1, <1>0, GoesOn
  <2>4. TypeOK'
    BY <2>1, <2>3, <1>0, FailTyped DEF c
  <2>5. CreateEffect(Current)
    BY <2>2 DEF c
  <2>6. GoneOK'
    BY <2>1, <2>5, <1>0, CreatingSpends
  <2> QED BY <2>4, <2>5, <2>6, <1>0, CreatingGoesOn DEF ResourceInv
<1>4. CASE c.otherwise = "leave"
  <2>1. plan' = Put(Current.undo, Tail(plan)) /\ Current.otherwise = "leave" /\ queues' = queues
    BY <1>1, <1>4 DEF AfterFailure, c
  <2>2. UNCHANGED <<http_server, queues, obj, ptr, dangling, stale, abandoned, destroyFailed>>
    BY <2>1, <1>1, <1>2, <1>4
  <2>3. /\ PhaseOK' /\ PointersOK' /\ GoneOK' /\ MemoryOutlivesQueues' /\ StopsFirst'
        /\ MakingOK' /\ StagesOK' /\ ReadyOK' /\ SettleOK' /\ DevicesOK'
        /\ \A i \in DOMAIN plan' : plan'[i] # <<>> /\ \A j \in DOMAIN plan'[i] : plan'[i][j].on \in Objects
    BY <2>1, <2>2, <1>0, CreatingLeaves
  <2>4. TypeOK'
    BY <2>1, <2>3, <1>0, FailTyped DEF c
  <2> QED BY <2>3, <2>4 DEF ResourceInv
<1>5. CASE c.otherwise = "return"
  <2>1. plan' = Put(Current.undo, <<>>) /\ Current.otherwise = "return" /\ queues' = "failed"
    BY <1>1, <1>5 DEF AfterFailure, c
  <2>2. UNCHANGED <<http_server, obj, ptr, dangling, stale, abandoned>>
    BY <1>1, <1>2, <1>5
  <2>3. /\ PhaseOK' /\ PointersOK' /\ GoneOK' /\ MemoryOutlivesQueues' /\ StopsFirst'
        /\ MakingOK' /\ StagesOK' /\ ReadyOK' /\ SettleOK' /\ DevicesOK'
        /\ plan' = <<>>
    BY <2>1, <2>2, <1>0, CreatingReturns
  <2>4. TypeOK'
    BY <2>1, <2>3, <1>0, FailTyped DEF c
  <2> QED BY <2>3, <2>4 DEF ResourceInv
<1>6. CASE c.otherwise \in Protocols
  <2>0. c.otherwise \notin {"ignore", "leave", "return"}
    BY <1>6 DEF Protocols
  <2>1. /\ plan' = Put(Current.undo, <<DestroyOf(Current.otherwise)>>) /\ Current.otherwise \in Protocols
        /\ queues' = "undoing"
    BY <2>0, <1>1, <1>6 DEF AfterFailure, c
  <2>2. /\ UNCHANGED <<http_server, stale, abandoned>>
        /\ \/ UNCHANGED <<obj, ptr, dangling>>
           \/ /\ Current.op = "nest"
              /\ obj' = [obj EXCEPT ![Current.on] = "gone"]
              /\ ptr' = [ptr EXCEPT ![Current.on] = TRUE]
              /\ dangling' = dangling \cup {Current.on}
    BY <1>1, <1>2 DEF c
  <2>3. /\ PhaseOK' /\ PointersOK' /\ GoneOK' /\ MemoryOutlivesQueues' /\ StopsFirst'
        /\ MakingOK' /\ StagesOK' /\ ReadyOK' /\ SettleOK' /\ DevicesOK'
        /\ \A i \in DOMAIN plan' : plan'[i] # <<>> /\ \A j \in DOMAIN plan'[i] : plan'[i][j].on \in Objects
    BY <2>1, <2>2, <1>0, CreatingUndoes
  <2>4. TypeOK'
    BY <2>1, <2>3, <1>0, FailTyped DEF c
  <2> QED BY <2>3, <2>4 DEF ResourceInv
<1> QED BY <1>1, <1>3, <1>4, <1>5, <1>6

\* A call of an error path fails: the object is abandoned.
LEMMA DropFails ==
  ASSUME ResourceInv, CallFails, queues = "creating", Current \in Drops
  PROVE  ResourceInv'
<1> DEFINE c == Current
           o == c.on
<1>0. TypeOK /\ PhaseOK /\ GoneOK /\ plan # <<>> /\ o \in Objects
  BY Phases DEF ResourceInv, CallFails, Called
<1>1. /\ c.op = "release" /\ c.otherwise = "ignore" /\ c.nulls /\ ~c.guard
      /\ LeftByFailure(c) /\ AfterFailure(c) /\ http_server' = http_server
  BY DropOK DEF CallFails
<1> HIDE DEF c, o
<1>2. /\ obj' = obj /\ dangling' = dangling /\ abandoned' = abandoned \cup {o}
      /\ ptr' = [ptr EXCEPT ![o] = FALSE]
      /\ stale' \in {stale, IF ptr[o] /\ obj[o] = "gone" THEN stale \cup {o} ELSE stale}
      /\ GoOn /\ queues' = queues
  BY <1>1 DEF LeftByFailure, objectVars, AfterFailure, o
<1>3. stale' \subseteq dangling'
  <2>1. Spent(o)
    BY <1>0, SpentAll
  <2> QED BY <2>1, <1>0, <1>2 DEF GoneOK, Spent
<1>4. \A x \in Objects : Spent(x)'
  BY <1>0, <1>2, ObjectTypes, SpentAll DEF Spent
<1>5. CreateEffect(Current)
  <2>1. CreateEffect(c)
    BY <1>0, <1>1, <1>2, ObjectTypes DEF CreateEffect, o
  <2> QED BY <2>1 DEF c
<1>6. /\ \A i \in DOMAIN plan' : plan'[i] # <<>> /\ \A j \in DOMAIN plan'[i] : plan'[i][j].on \in Objects
      /\ \A d \in Pending' : d.on \in Objects
  BY <1>0, <1>2, GoesOn, PendingObjects
<1>7. TypeOK'
  BY <1>0, <1>2, <1>6, FailTyped DEF o, c
<1>8. GoneOK'
  BY <1>3, <1>4, <1>6 DEF GoneOK
<1> QED BY <1>0, <1>5, <1>7, <1>8, CreatingGoesOn DEF ResourceInv

\* A call fails.
LEMMA FailKeeps ==
  ASSUME ResourceInv, CallFails
  PROVE  ResourceInv'
<1>1. TypeOK /\ PhaseOK /\ plan # <<>>
  BY DEF ResourceInv, CallFails, Called
<1>2. queues = "creating" => CreateCall(Current) \/ Current \in Drops
  BY <1>1, Phases
<1> QED BY <1>2, DestroyFails, CreateFails, DropFails
-----------------------------------------------------------------------------
(* The steps of main, and the invariant.                                   *)

\* At the end of the plan no call is pending.
LEMMA AllGone ==
  ASSUME plan = <<>>
  PROVE  Pending = {}
BY DEF Pending, AllCalls

\* The invariant holds at the start.
LEMMA InitHolds ==
  ASSUME Init
  PROVE  ResourceInv
<1>1. Pending = {} /\ plan = <<>> /\ queues = "none"
  BY AllGone DEF Init
<1>2. \A o \in Objects : obj[o] = "none" /\ ~ptr[o]
  BY DEF Init
<1>3. TypeOK
  <2>1. plan = <<>> /\ failures \in 0..MaxFailures
    BY FailureAssumption DEF Init
  <2>2. obj \in [Objects -> {"none", "made", "started", "gone"}] /\ ptr \in [Objects -> BOOLEAN]
    BY DEF Init
  <2>3. \A i \in DOMAIN plan : plan[i] # <<>> /\ \A j \in DOMAIN plan[i] : plan[i][j].on \in Objects
    BY <2>1
  <2>4. /\ http_server \in BOOLEAN /\ queues = "none" /\ destroyFailed = FALSE
        /\ dangling = {} /\ stale = {} /\ abandoned = {}
    BY DEF Init
  <2> QED BY <2>1, <2>2, <2>3, <2>4 DEF TypeOK
<1>4. PhaseOK /\ PointersOK /\ GoneOK
  BY <1>1, <1>2 DEF Init, PhaseOK, PointersOK, GoneOK, Spent
<1>5. MemoryOutlivesQueues /\ StopsFirst
  BY <1>1, <1>2 DEF MemoryOutlivesQueues, StopsFirst
<1>6. MakingOK /\ StagesOK /\ ReadyOK /\ SettleOK
  BY <1>1 DEF MakingOK, StagesOK, ReadyOK, SettleOK
<1>7. DevicesOK
  <2>1. Devices \subseteq Objects
    BY OwnersOK, IsObject DEF Devices, App, KindsOf
  <2> QED BY <1>2, <2>1 DEF DevicesOK
<1> QED BY <1>3, <1>4, <1>5, <1>6, <1>7 DEF ResourceInv

\* main begins to create.
LEMMA BeginCreateKeeps ==
  ASSUME ResourceInv, BeginCreate
  PROVE  ResourceInv'
<1> DEFINE p == CreateApp \o CreateUdp \o CreateTcp \o CreateIcmp
<1>1. /\ CreatePlan(p)
      /\ \A c \in AllCalls(p) : ForMode(c, http_server) /\ c.op # "release"
      /\ \A f \in Protocols : \E c \in AllCalls(p) : Opens(c, f)
      /\ \A o \in Objects : (OfServer(o) => http_server) =>
           \E c \in AllCalls(p) : c.on = o /\ c.op \in IF Startable(o) THEN {"start"} ELSE {"make", "nest"}
      /\ \A c \in AllCalls(p) : c.op = "start" =>
           \E d \in AllCalls(p) : d.op \in {"make", "nest"} /\ d.on = c.on
  BY CreateCode
<1>2. plan' = p
  BY DEF BeginCreate
<1> HIDE DEF p
<1>3. /\ queues = "none" /\ queues' = "creating" /\ Pending' = AllCalls(p)
      /\ UNCHANGED <<http_server, obj, ptr, dangling, stale, abandoned, destroyFailed, failures>>
  BY <1>2 DEF BeginCreate, objectVars, failureVars, Pending
<1>4. /\ TypeOK /\ PhaseOK /\ PointersOK /\ GoneOK
      /\ \A o \in Objects : obj[o] = "none" /\ ~ptr[o]
  BY <1>3 DEF ResourceInv, PhaseOK
<1>5. \A i \in DOMAIN plan' : plan'[i] # <<>> /\ \A j \in DOMAIN plan'[i] : plan'[i][j].on \in Objects
  BY <1>1, <1>2, PlanTyped
<1>6. TypeOK'
  BY <1>3, <1>4, <1>5 DEF TypeOK
<1>7. \A c \in Pending' : c.on \in Objects
  BY <1>6 DEF TypeOK, Pending, AllCalls, Calls
<1>8. PhaseOK' /\ PointersOK' /\ GoneOK'
  BY <1>1, <1>2, <1>3, <1>4, <1>7 DEF PhaseOK, PointersOK, GoneOK, Spent
<1>9. MemoryOutlivesQueues' /\ StopsFirst'
  BY <1>3, <1>4 DEF MemoryOutlivesQueues, StopsFirst
<1>10. MakingOK'
  <2> SUFFICES ASSUME NEW c \in Pending'
               PROVE  /\ c.op \in {"make", "nest"} => obj'[c.on] = "none"
                      /\ c.op = "start" =>
                           /\ obj'[c.on] # "started"
                           /\ ptr'[c.on] \/ \E d \in Pending' : d.op \in {"make", "nest"} /\ d.on = c.on
                           /\ \A m \in Needs(c.on) : obj'[m] # "gone"
                      /\ c.op = "nest" => \A o \in Objects : c.on \in Needs(o) => obj'[o] # "started"
                      /\ \A k \in DOMAIN c.undo : \A o \in Objects \ abandoned' :
                           obj'[o] = "started" /\ c.undo[k].on \in Needs(o) =>
                             \E j \in DOMAIN c.undo : j < k /\ c.undo[j].on = o
    BY DEF MakingOK
  <2>1. c.on \in Objects /\ \A m \in Needs(c.on) : m \in Objects
    BY <1>7, NeedsOK
  <2> QED BY <2>1, <1>1, <1>3, <1>4
<1>11. StagesOK'
  BY <1>1, <1>3, <1>4 DEF StagesOK
<1>12. ReadyOK'
  <2>1. \A o \in Objects : (OfServer(o) => http_server) => Ready(o)'
    BY <1>1, <1>3 DEF Ready
  <2>2. \A o \in Objects : Family(o) = "cpu" => OfServer(o)
    BY DEF OfServer, Family
  <2> QED BY <2>1, <2>2, <1>1, <1>3 DEF ReadyOK
<1>13. SettleOK'
  BY <1>3 DEF SettleOK
<1>14. DevicesOK'
  BY <1>3 DEF ResourceInv, DevicesOK
<1> QED BY <1>6, <1>8, <1>9, <1>10, <1>11, <1>12, <1>13, <1>14 DEF ResourceInv

\* Everything is created.
LEMMA CreatedKeeps ==
  ASSUME ResourceInv, Created
  PROVE  ResourceInv'
<1>1. /\ queues = "creating" /\ queues' \in {"up", "failed"} /\ plan = <<>> /\ plan' = <<>>
      /\ UNCHANGED <<http_server, obj, ptr, dangling, stale, abandoned, destroyFailed, failures>>
  BY DEF Created, objectVars, failureVars
<1>2. Pending = {} /\ Pending' = {}
  BY <1>1, AllGone DEF Pending, AllCalls
<1>3. TypeOK' /\ PhaseOK' /\ PointersOK' /\ GoneOK'
  BY <1>1, <1>2 DEF ResourceInv, TypeOK, PhaseOK, PointersOK, GoneOK, Spent
<1>4. MemoryOutlivesQueues' /\ StopsFirst'
  BY <1>1 DEF ResourceInv, MemoryOutlivesQueues, StopsFirst
<1>5. MakingOK' /\ StagesOK' /\ SettleOK'
  BY <1>1 DEF MakingOK, StagesOK, SettleOK
<1>6. ReadyOK'
  BY <1>1, <1>2 DEF ResourceInv, ReadyOK, Ready, Usable, Lost
<1>7. DevicesOK'
  BY <1>1 DEF ResourceInv, DevicesOK
<1> QED BY <1>3, <1>4, <1>5, <1>6, <1>7 DEF ResourceInv

\* main begins to destroy.
LEMMA BeginDestroyKeeps ==
  ASSUME ResourceInv, BeginDestroy
  PROVE  ResourceInv'
<1> DEFINE p == <<DestroyFlow, DestroyIcmp, DestroyUdp, DestroyTcp, DestroyApp>>
<1>1. /\ DestroyPlan(p)
      /\ \A i \in DOMAIN p : \A c \in Calls(p[i]) : c.op = "release" =>
           \A o \in Objects : c.on \in Needs(o) /\ (OfServer(o) => http_server) =>
             \E d \in Calls(p[i]) : d.on = o /\ d.op \in {"stop", "release"}
      /\ \A o \in Objects : (OfServer(o) => http_server) => \E c \in AllCalls(p) : Settles(c, o)
  BY DestroyAllCode
<1>2. plan' = p
  BY DEF BeginDestroy
<1> HIDE DEF p
<1>3. /\ queues = "up" /\ queues' = "destroying" /\ Pending' = AllCalls(p)
      /\ UNCHANGED <<http_server, obj, ptr, dangling, stale, abandoned, destroyFailed, failures>>
  BY <1>2 DEF BeginDestroy, objectVars, failureVars, Pending
<1>4. \A i \in DOMAIN plan' : plan'[i] # <<>> /\ \A j \in DOMAIN plan'[i] : plan'[i][j].on \in Objects
  BY <1>1, <1>2, PlanTyped
<1>5. TypeOK'
  BY <1>3, <1>4 DEF ResourceInv, TypeOK
<1>6. \A c \in Pending' : c.on \in Objects
  BY <1>5 DEF TypeOK, Pending, AllCalls, Calls
<1>7. PointersOK /\ GoneOK /\ DevicesOK
  BY DEF ResourceInv
<1>8. PhaseOK'
  BY <1>1, <1>2, <1>3 DEF PhaseOK
<1>9. PointersOK'
  BY <1>3, <1>7 DEF PointersOK
<1>10. GoneOK'
  BY <1>3, <1>6, <1>7 DEF GoneOK, Spent
<1>11. MemoryOutlivesQueues'
  BY <1>3 DEF ResourceInv, MemoryOutlivesQueues
<1>12. StopsFirst'
  <2> SUFFICES ASSUME NEW i \in DOMAIN plan', NEW c \in Calls(plan'[i]), c.op = "release",
                      NEW o \in Objects \ abandoned, obj[o] = "started", c.on \in Needs(o)
               PROVE  \E d \in Calls(plan'[i]) : d.on = o /\ d.op \in {"stop", "release"}
    BY <1>3 DEF StopsFirst
  <2>1. OfServer(o) => http_server
    BY <1>7 DEF PointersOK
  <2> QED BY <2>1, <1>1, <1>2
<1>13. MakingOK' /\ StagesOK' /\ ReadyOK'
  BY <1>3 DEF MakingOK, StagesOK, ReadyOK
<1>14. SettleOK'
  <2> SUFFICES ASSUME NEW o \in Objects PROVE Settled(o)' \/ \E c \in Pending' : Settles(c, o)
    BY DEF SettleOK
  <2>1. CASE OfServer(o) => http_server
    BY <2>1, <1>1, <1>3
  <2>2. CASE OfServer(o) /\ ~http_server
    BY <2>2, <1>3, <1>7 DEF PointersOK, Settled
  <2> QED BY <2>1, <2>2
<1>15. DevicesOK'
  BY <1>3, <1>7 DEF DevicesOK
<1> QED BY <1>5, <1>8, <1>9, <1>10, <1>11, <1>12, <1>13, <1>14, <1>15 DEF ResourceInv

\* Everything is destroyed.
LEMMA DestroyedKeeps ==
  ASSUME ResourceInv, Destroyed
  PROVE  ResourceInv'
<1>1. /\ queues = "destroying" /\ queues' = "down" /\ plan = <<>> /\ plan' = <<>>
      /\ UNCHANGED <<http_server, obj, ptr, dangling, stale, abandoned, destroyFailed, failures>>
  BY DEF Destroyed, objectVars, failureVars
<1>2. Pending = {} /\ Pending' = {}
  BY <1>1, AllGone DEF Pending, AllCalls
<1>3. TypeOK' /\ PhaseOK' /\ PointersOK' /\ GoneOK'
  BY <1>1, <1>2 DEF ResourceInv, TypeOK, PhaseOK, PointersOK, GoneOK, Spent
<1>4. MemoryOutlivesQueues' /\ StopsFirst'
  BY <1>1 DEF ResourceInv, MemoryOutlivesQueues, StopsFirst
<1>5. MakingOK' /\ StagesOK' /\ ReadyOK'
  BY <1>1 DEF MakingOK, StagesOK, ReadyOK
<1>6. SettleOK'
  <2>1. SettleOK
    BY DEF ResourceInv
  <2>2. ~destroyFailed => \A o \in Objects \ abandoned : Family(o) \in AllFamilies => Settled(o)
    BY <1>1, <1>2, <2>1 DEF SettleOK, Doomed
  <2> QED BY <2>2, <1>1 DEF SettleOK, Doomed, Settled
<1>7. DevicesOK'
  BY <1>1, <1>2 DEF ResourceInv, DevicesOK
<1> QED BY <1>3, <1>4, <1>5, <1>6, <1>7 DEF ResourceInv

\* Every step keeps the invariant.
LEMMA NextKeeps ==
  ASSUME ResourceInv, [Next]_vars
  PROVE  ResourceInv'
<1>1. CASE UNCHANGED vars
  <2>1. UNCHANGED <<http_server, queues, plan, obj, ptr, dangling, stale, abandoned, destroyFailed, failures>>
    BY <1>1 DEF vars
  <2>2. Pending' = Pending
    BY <2>1 DEF Pending
  <2>3. TypeOK' /\ PhaseOK' /\ PointersOK' /\ GoneOK'
    BY <2>1, <2>2 DEF ResourceInv, TypeOK, PhaseOK, PointersOK, GoneOK, Spent
  <2>4. MemoryOutlivesQueues' /\ StopsFirst' /\ MakingOK'
    BY <2>1, <2>2 DEF ResourceInv, MemoryOutlivesQueues, StopsFirst, MakingOK
  <2>5. StagesOK'
    BY <2>1, <2>2 DEF ResourceInv, StagesOK, Begun
  <2>6. ReadyOK'
    BY <2>1, <2>2 DEF ResourceInv, ReadyOK, Ready, Usable, Lost
  <2>7. SettleOK' /\ DevicesOK'
    BY <2>1, <2>2 DEF ResourceInv, SettleOK, Doomed, Families, Begun, Settled, DevicesOK
  <2> QED BY <2>3, <2>4, <2>5, <2>6, <2>7 DEF ResourceInv
<1> QED BY <1>1, BeginCreateKeeps, CreatedKeeps, BeginDestroyKeeps, DestroyedKeeps, MakeKeeps, SetKeeps,
           StartKeeps, StopKeeps, ReleaseKeeps, SkipKeeps, FailKeeps DEF Next

\* The invariant holds in every state.
LEMMA InvariantHolds == Spec => []ResourceInv
BY InitHolds, NextKeeps, PTL DEF Spec

\* Every variable keeps to its type, and no failing call is counted twice.
THEOREM TypeCorrect == Spec => []TypeOK
<1>1. ResourceInv => TypeOK
  BY DEF ResourceInv
<1> QED BY <1>1, InvariantHolds, PTL

\* On every path of the code, the failing ones included, no memory is released
\* while a queue that the NIC serves from it is started.
THEOREM MemoryIsKept == Spec => []MemoryOutlivesQueues
<1>1. ResourceInv => MemoryOutlivesQueues
  BY DEF ResourceInv
<1> QED BY <1>1, InvariantHolds, PTL

\* The error paths, the destruction that follows them and main's do not release
\* an object that another of them has released.
THEOREM NothingReleasedTwice == Spec => []ReleasedOnce
<1>1. ResourceInv => ReleasedOnce
  BY DEF ResourceInv, GoneOK, ReleasedOnce
<1> QED BY <1>1, InvariantHolds, PTL

\* When main releases the GPU, the progress engine or the device, the queues are
\* stopped and their memory is released, unless a destruction has failed.
THEOREM DevicesGoLast == Spec => []DevicesLast
<1>1. ASSUME ResourceInv PROVE DevicesLast
  <2> SUFFICES ASSUME ~destroyFailed, NEW k \in {"gpu", "pe", "dev"}, obj[<<App, k>>] = "gone",
                      NEW o \in Objects \ abandoned
               PROVE  obj[o] # "started" /\ (o[2] = "mem" => obj[o] \in {"none", "gone"})
    BY DEF DevicesLast
  <2>1. queues \in {"destroying", "down"} /\ \A c \in Pending : c.on[1] = App
    BY <1>1 DEF ResourceInv, DevicesOK, Devices
  <2>2. Family(o) \in AllFamilies
    BY ObjectOK
  <2>3. Settled(o) \/ \E c \in Pending : Settles(c, o)
    BY <2>1, <2>2, <1>1 DEF ResourceInv, SettleOK, Doomed
  <2>4. CASE Settled(o)
    BY <2>4 DEF Settled
  <2>5. CASE \E c \in Pending : Settles(c, o)
    <3>1. Family(o) = "app"
      BY <2>1, <2>5 DEF Settles, App, Family
    <3>2. obj[o] # "started" /\ o[2] # "mem"
      BY <3>1, <1>1, KindsOK DEF ResourceInv, PointersOK
    <3> QED BY <3>2
  <2> QED BY <2>3, <2>4, <2>5
<1> QED BY <1>1, InvariantHolds, PTL

\* A destruction of which no call fails leaves nothing of what it is to destroy.
THEOREM AllIsReleased == Spec => []NothingLeft
<1>1. ASSUME ResourceInv PROVE NothingLeft
  <2> SUFFICES ASSUME queues \in {"undoing", "down"}, plan = <<>>, ~destroyFailed,
                      NEW o \in Objects \ abandoned, o[1][1] \in Families
               PROVE  Settled(o)
    BY DEF NothingLeft
  <2>1. Pending = {}
    BY AllGone
  <2>2. Family(o) \in Doomed
    BY ObjectOK DEF Doomed, Family
  <2> QED BY <2>1, <2>2, <1>1 DEF ResourceInv, SettleOK
<1> QED BY <1>1, InvariantHolds, PTL

\* When main launches the kernels, every object they work with exists and is
\* started, but for a CPU RSS queue one of whose pointers is NULL.
THEOREM KernelsFindTheirObjects == Spec => []UpMeansUsable
<1>1. ASSUME ResourceInv PROVE UpMeansUsable
  <2> SUFFICES ASSUME queues = "up" PROVE UpMeansUsable
    BY DEF UpMeansUsable
  <2>1. plan = <<>> /\ Pending = {}
    BY <1>1, AllGone DEF ResourceInv, PhaseOK
  <2>2. \A o \in Objects : Ready(o) => Usable(o)
    BY <2>1 DEF Ready
  <2>3. \A o \in Objects : Family(o) # "cpu" /\ (OfServer(o) => http_server) => Usable(o)
    BY <2>2, <1>1 DEF ResourceInv, ReadyOK
  <2>4. ASSUME NEW q \in Queues, \A k \in {"rxq", "txq", "pe"} : ptr[<<<<"cpu", q>>, k>>],
               NEW k \in KindsOf("cpu")
        PROVE  Usable(<<<<"cpu", q>>, k>>)
    <3> DEFINE o == <<<<"cpu", q>>, k>>
    <3>1. o \in Objects /\ Family(o) = "cpu"
      BY OwnersOK, IsObject
    <3>2. Leader(o) \in {<<<<"cpu", q>>, j>> : j \in {"rxq", "txq", "pe"}}
      BY DEF Leader, KindsOf
    <3>3. ptr[Leader(o)]
      BY <2>4, <3>2
    <3>4. http_server
      <4>1. <<<<"cpu", q>>, "pe">> \in Objects /\ OfServer(<<<<"cpu", q>>, "pe">>)
        BY OwnersOK, IsObject DEF OfServer, KindsOf
      <4> QED BY <4>1, <2>4, <1>1 DEF ResourceInv, PointersOK
    <3>5. ~Lost(Leader(o))
      BY <2>1, <3>3 DEF Lost
    <3> QED BY <3>1, <3>4, <3>5, <2>2, <1>1 DEF ResourceInv, ReadyOK
  <2> QED BY <2>3, <2>4 DEF UpMeansUsable, Family
<1> QED BY <1>1, InvariantHolds, PTL
=============================================================================
