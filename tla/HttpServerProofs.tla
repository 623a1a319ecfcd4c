-------------------------- MODULE HttpServerProofs --------------------------
(***************************************************************************)
(* Theorems about HttpServer, for every number of queues, receive threads, *)
(* lanes, semaphore items, response buffers, requests and pages.           *)
(***************************************************************************)
EXTENDS HttpServer, SequenceTheorems, TLAPS

\* The lane of an item or a buffer is its number modulo the size of the warp.
LanesOK == \A l \in LaneIds : laneItem[l] % WarpSize = l[2] /\ laneBuf[l] % WarpSize = l[2]
\* A receive thread with a ticket has a request at hand.
AtHand == \A t \in RxThreads : rx[t] # "next" => todo[t] # {}
TypeInv == TypeOK /\ LanesOK /\ AtHand

-----------------------------------------------------------------------------
(* What holds as long as nothing was overwritten.                          *)

Busy(l) == lane[l] \in {"fill", "send", "done"}

\* A receive thread with a ticket has the item to itself: no other thread has
\* it, and no lane looks at it before it is READY.  What is in it is of the
\* request at hand.
Holding(t) ==
  rx[t] # "next" =>
    /\ status[t[1]][rxItem[t]] # "READY"
    /\ \A u \in ThreadsOf(t[1]) : rx[u] # "next" /\ rxItem[u] = rxItem[t] => u = t
    /\ rx[t] # "client" => info[t[1]][rxItem[t]].who = Current(t)
    /\ rx[t] = "ready" => info[t[1]][rxItem[t]].page = PageOf[Current(t)]

\* The item a lane is busy with stays as it is.
Serving(l) ==
  Busy(l) => /\ status[l[1]][laneItem[l]] = "READY"
             /\ lanePage[l] = info[l[1]][laneItem[l]].page

\* Every buffer is with one lane, or once in one queue of the NIC.
Filling(l) == lane[l] \in {"fill", "send"}
BuffersOnce ==
  /\ \A q, s \in Queues : \A n \in DOMAIN txq[q], m \in DOMAIN txq[s] :
       txq[q][n] = txq[s][m] => q = s /\ n = m
  /\ \A l \in LaneIds : Filling(l) =>
       \A q \in Queues : \A n \in DOMAIN txq[q] : txq[q][n] # <<lanePage[l], laneBuf[l]>>
  /\ \A l, m \in LaneIds : Filling(l) /\ Filling(m) =>
       lanePage[l] # lanePage[m] \/ laneBuf[l] # laneBuf[m] \/ l = m

\* The places a request can be at before it is answered: on its way to the
\* application, in the burst of a thread, in an item that no lane has answered,
\* in a buffer that is on its way out.
Waiting(q, i) ==
  /\ status[q][i] = "READY"
  /\ \A k \in Lanes : laneItem[<<q, k>>] = i => lane[<<q, k>>] \in {"poll", "fill"}
Sent(p, b) ==
  \/ \E l \in LaneIds : lane[l] = "send" /\ lanePage[l] = p /\ laneBuf[l] = b
  \/ \E q \in Queues : \E n \in DOMAIN txq[q] : txq[q][n] = <<p, b>>

Places == [kind : {"fresh"}] \cup [kind : {"todo"}, of : RxThreads]
          \cup [kind : {"item"}, of : Queues \X Items] \cup [kind : {"buffer"}, of : Pages \X Bufs]
At(x) ==
  CASE x.kind = "fresh"  -> fresh
    [] x.kind = "todo"   -> todo[x.of]
    [] x.kind = "item"   -> {r \in {info[x.of[1]][x.of[2]].who} : Waiting(x.of[1], x.of[2])}
    [] x.kind = "buffer" -> {r \in {buffers[x.of[1]][x.of[2]]} : Sent(x.of[1], x.of[2])}

\* A request is at one place at most, and at none once it is answered.
OnePlace   == \A x, y \in Places : \A r \in At(x) \cap At(y) : x = y
Unanswered == \A x \in Places : \A r \in At(x) : r \in Requests /\ answers[r] = <<>>
RightPage ==
  /\ \A q \in Queues, i \in Items : Waiting(q, i) => info[q][i].page = PageOf[info[q][i].who]
  /\ \A p \in Pages, b \in Bufs : Sent(p, b) => p = PageOf[buffers[p][b]]
Answered == \A r \in Requests : answers[r] \in {<<>>, <<PageOf[r]>>}

CleanInv == /\ \A t \in RxThreads : Holding(t)
            /\ \A l \in LaneIds : Serving(l)
            /\ BuffersOnce
            /\ OnePlace /\ Unanswered /\ RightPage /\ Answered

\* The histories only grow: a clean state comes after clean states.
ServerInv == TypeInv /\ (~lapped /\ ~reused => CleanInv)
-----------------------------------------------------------------------------
(* Types and lanes.                                                        *)

\* Going on by the size of the warp, around a number that is a multiple of it,
\* keeps a lane on its own numbers.
LEMMA NextOfLane ==
  ASSUME NEW w \in Nat \ {0}, NEW n \in Nat \ {0}, n % w = 0, NEW x \in 0..n - 1
  PROVE  (x + w) % n \in 0..n - 1 /\ ((x + w) % n) % w = x % w
<1>1. PICK k \in Nat : n = k * w
  OBVIOUS
<1> DEFINE j == x \div w
           r == x % w
<1>2. j \in Nat /\ r \in 0..w - 1 /\ x = j * w + r
  OBVIOUS
<1>3. \A i \in Nat, y \in 0..w - 1 : (i * w + y) % w = y
  OBVIOUS
<1> HIDE DEF j, r
<1>4. CASE x + w < n
  <2>1. (x + w) % n = x + w
    BY <1>4
  <2>2. x + w = (j + 1) * w + r
    BY <1>2
  <2>3. (x + w) % w = r
    BY <1>2, <1>3, <2>2
  <2>4. QED
    BY <1>2, <1>4, <2>1, <2>3 DEF r
<1>5. CASE x + w >= n
  <2>1. x + w - n \in 0..n - 1
    <3>1. k # 0
      BY <1>1
    <3>2. w <= k * w
      BY <3>1
    <3>3. QED
      BY <1>1, <1>5, <3>2
  <2>2. (x + w) % n = x + w - n
    <3>1. \A y \in 0..n - 1 : (y + n) % n = y
      OBVIOUS
    <3>2. x + w - n + n = x + w
      OBVIOUS
    <3>3. QED
      BY <2>1, <3>1, <3>2
  <2>3. j + 1 - k \in Nat
    <3>1. SUFFICES ASSUME j + 1 < k PROVE FALSE
      BY <1>1, <1>2
    <3>2. (j + 2) * w <= k * w
      BY <1>1, <1>2, <3>1
    <3>3. (j + 2) * w = j * w + w + w
      BY <1>2
    <3>4. QED
      BY <1>1, <1>2, <1>5, <3>2, <3>3
  <2>4. x + w - n = (j + 1 - k) * w + r
    BY <1>1, <1>2
  <2>5. (x + w - n) % w = r
    BY <1>2, <1>3, <2>3, <2>4
  <2>6. QED
    BY <2>1, <2>2, <2>5 DEF r
<1>6. QED
  BY <1>4, <1>5

LEMMA NextOfTicket == ASSUME NEW i \in Items PROVE (i + 1) % Nums \in Items
BY LaneAssumption DEF Items

LEMMA LaneNumbers ==
  /\ \A k \in Lanes : k \in Items /\ k \in Bufs /\ k % WarpSize = k
  /\ 0 \in Items
<1>1. WarpSize <= Nums /\ WarpSize <= BufNum
  BY LaneAssumption
<1>2. \A k \in Lanes : k % WarpSize = k
  BY LaneAssumption DEF Lanes
<1>3. QED
  BY <1>1, <1>2, LaneAssumption DEF Items, Bufs, Lanes

LEMMA CurrentIsTodo == ASSUME NEW t, todo[t] # {} PROVE Current(t) \in todo[t]
BY DEF Current

LEMMA InitTypeInv == Init => TypeInv
<1>1. SUFFICES ASSUME Init PROVE TypeInv
  OBVIOUS
<1>2. AnyPage \in Pages
  BY PageAssumption DEF AnyPage
<1> USE <1>1, <1>2, LaneNumbers DEF Init, LaneIds
<1>3. /\ todo \in [RxThreads -> SUBSET Requests]
      /\ rx \in [RxThreads -> {"next", "client", "page", "ready"}]
      /\ rxItem \in [RxThreads -> Items] /\ ticket \in [Queues -> Items]
      /\ status \in [Queues -> [Items -> {"FREE", "READY", "DONE"}]]
      /\ info \in [Queues -> [Items -> [who : Requests \cup {NoRequest}, page : Pages]]]
  OBVIOUS
<1>4. /\ lane \in [LaneIds -> {"poll", "fill", "send", "done", "exited"}]
      /\ laneItem \in [LaneIds -> Items] /\ laneBuf \in [LaneIds -> Bufs]
      /\ lanePage \in [LaneIds -> Pages]
  OBVIOUS
<1>5. /\ buffers \in [Pages -> [Bufs -> Requests \cup {NoRequest}]]
      /\ txq \in [Queues -> Seq(Pages \X Bufs)] /\ answers \in [Requests -> Seq(Pages)]
  OBVIOUS
<1>6. LanesOK /\ AtHand
  BY DEF LanesOK, AtHand
<1>7. QED
  BY <1>3, <1>4, <1>5, <1>6 DEF TypeInv, TypeOK

Info == [who : Requests \cup {NoRequest}, page : Pages]

\* What the two writes of a receive thread make of the items.
LEMMA WhoWritten ==
  ASSUME TypeInv, NEW t \in RxThreads, WriteClient(t)
  PROVE  /\ info' \in [Queues -> [Items -> Info]]
         /\ \A q \in Queues, i \in Items : q # t[1] \/ i # rxItem[t] => info'[q][i] = info[q][i]
         /\ info'[t[1]][rxItem[t]].who = Current(t)
<1> DEFINE q == t[1]
           i == rxItem[t]
           new == [info[q][i] EXCEPT !.who = Current(t)]
<1>1. q \in Queues /\ i \in Items /\ Current(t) \in Requests
  BY CurrentIsTodo, PageAssumption DEF WriteClient, TypeInv, TypeOK, AtHand, RxThreads
<1>2. info \in [Queues -> [Items -> Info]] /\ info[q][i] \in Info
  BY <1>1 DEF TypeInv, TypeOK, Info
<1>3. new \in Info /\ new.who = Current(t) /\ new.page = info[q][i].page
  BY <1>1, <1>2 DEF Info
<1>4. info' = [info EXCEPT ![q] = [info[q] EXCEPT ![i] = new]]
  BY DEF WriteClient
<1> HIDE DEF new, q, i
<1>5. /\ info' \in [Queues -> [Items -> Info]] /\ info'[q][i] = new
      /\ \A s \in Queues, j \in Items : s # q \/ j # i => info'[s][j] = info[s][j]
  BY <1>1, <1>2, <1>3, <1>4
<1>6. QED
  BY <1>3, <1>5 DEF q, i

LEMMA PageWritten ==
  ASSUME TypeInv, NEW t \in RxThreads, WritePage(t)
  PROVE  /\ info' \in [Queues -> [Items -> Info]]
         /\ \A q \in Queues, i \in Items : q # t[1] \/ i # rxItem[t] => info'[q][i] = info[q][i]
         /\ info'[t[1]][rxItem[t]].page = PageOf[Current(t)]
         /\ info'[t[1]][rxItem[t]].who = info[t[1]][rxItem[t]].who
<1> DEFINE q == t[1]
           i == rxItem[t]
           new == [info[q][i] EXCEPT !.page = PageOf[Current(t)]]
<1>1. q \in Queues /\ i \in Items /\ PageOf[Current(t)] \in Pages
  BY CurrentIsTodo, PageAssumption DEF WritePage, TypeInv, TypeOK, AtHand, RxThreads
<1>2. info \in [Queues -> [Items -> Info]] /\ info[q][i] \in Info
  BY <1>1 DEF TypeInv, TypeOK, Info
<1>3. new \in Info /\ new.page = PageOf[Current(t)] /\ new.who = info[q][i].who
  BY <1>1, <1>2 DEF Info
<1>4. info' = [info EXCEPT ![q] = [info[q] EXCEPT ![i] = new]]
  BY DEF WritePage
<1> HIDE DEF new, q, i
<1>5. /\ info' \in [Queues -> [Items -> Info]] /\ info'[q][i] = new
      /\ \A s \in Queues, j \in Items : s # q \/ j # i => info'[s][j] = info[s][j]
  BY <1>1, <1>2, <1>3, <1>4
<1>6. QED
  BY <1>3, <1>5 DEF q, i

LEMMA RxKeepsTypes ==
  ASSUME TypeInv, NEW t \in RxThreads, RxStep(t)
  PROVE  TypeInv'
<1> USE DEF TypeInv, TypeOK, AtHand, serverVars, laneVars
<1>1. t[1] \in Queues
  BY DEF RxThreads
<1>2. rx[t] # "next" => Current(t) \in Requests
  BY CurrentIsTodo
<1>3. LanesOK'
  BY DEF RxStep, TakeTicket, TicketFails, WriteClient, WritePage, SetReady, LanesOK
<1>4. CASE TakeTicket(t)
  <2>1. ticket' \in [Queues -> Items] /\ rxItem' \in [RxThreads -> Items]
    BY <1>1, <1>4, NextOfTicket DEF TakeTicket
  <2>2. lapped' \in BOOLEAN
    BY <1>4 DEF TakeTicket, InUse
  <2>3. QED
    BY <1>3, <1>4, <2>1, <2>2 DEF TakeTicket
<1>5. CASE TicketFails(t)
  <2>1. ticket' \in [Queues -> Items]
    BY <1>1, <1>5, NextOfTicket DEF TicketFails
  <2>2. QED
    BY <1>3, <1>5, <2>1 DEF TicketFails
<1>6. CASE WriteClient(t)
  <2>1. info' \in [Queues -> [Items -> [who : Requests \cup {NoRequest}, page : Pages]]]
    BY <1>6, WhoWritten DEF Info
  <2>2. QED
    BY <1>3, <1>6, <2>1 DEF WriteClient
<1>7. CASE WritePage(t)
  <2>1. info' \in [Queues -> [Items -> [who : Requests \cup {NoRequest}, page : Pages]]]
    BY <1>7, PageWritten DEF Info
  <2>2. QED
    BY <1>3, <1>7, <2>1 DEF WritePage
<1>8. CASE SetReady(t)
  BY <1>1, <1>3, <1>8 DEF SetReady
<1>9. QED
  BY <1>4, <1>5, <1>6, <1>7, <1>8 DEF RxStep

LEMMA LaneKeepsTypes ==
  ASSUME TypeInv, NEW l \in LaneIds, Serve(l) \/ StatusFails(l) \/ LaneFails(l)
  PROVE  TypeInv'
<1> USE DEF TypeInv, TypeOK, AtHand, rxVars, LaneGoto
<1>1. l[1] \in Queues /\ l[2] \in Lanes
  BY DEF LaneIds
<1>2. CASE LaneExit(l) \/ StatusFails(l) \/ LaneFails(l)
  BY <1>2 DEF LaneExit, StatusFails, LaneFails, LanesOK
<1>3. CASE TakeRequest(l)
  <2>1. lanePage' \in [LaneIds -> Pages]
    BY <1>1, <1>3 DEF TakeRequest
  <2>2. reused' \in BOOLEAN
    BY <1>3 DEF TakeRequest, Pending
  <2>3. QED
    BY <1>3, <2>1, <2>2 DEF TakeRequest, LanesOK
<1>4. CASE FillResponse(l)
  BY <1>1, <1>4 DEF FillResponse, LanesOK
<1>5. CASE Send(l)
  <2>1. txq' \in [Queues -> Seq(Pages \X Bufs)]
    BY <1>1, <1>5 DEF Send
  <2>2. QED
    BY <1>5, <2>1 DEF Send, LanesOK
<1>6. CASE SetDone(l)
  <2>1. /\ (laneItem[l] + WarpSize) % Nums \in Items
        /\ ((laneItem[l] + WarpSize) % Nums) % WarpSize = laneItem[l] % WarpSize
    BY NextOfLane, LaneAssumption DEF Items
  <2>2. /\ (laneBuf[l] + WarpSize) % BufNum \in Bufs
        /\ ((laneBuf[l] + WarpSize) % BufNum) % WarpSize = laneBuf[l] % WarpSize
    BY NextOfLane, LaneAssumption DEF Bufs
  <2>3. /\ laneItem' \in [LaneIds -> Items] /\ laneBuf' \in [LaneIds -> Bufs]
        /\ status' \in [Queues -> [Items -> {"FREE", "READY", "DONE"}]]
    BY <1>1, <1>6, <2>1, <2>2 DEF SetDone
  <2>4. LanesOK'
    BY <1>6, <2>1, <2>2 DEF SetDone, LanesOK
  <2>5. QED
    BY <1>6, <2>3, <2>4 DEF SetDone
<1>7. QED
  BY <1>2, <1>3, <1>4, <1>5, <1>6 DEF Serve

LEMMA NextTypeInv == TypeInv /\ [Next]_vars => TypeInv'
<1>1. SUFFICES ASSUME TypeInv, [Next]_vars PROVE TypeInv'
  OBVIOUS
<1> USE <1>1 DEF TypeInv, TypeOK, AtHand, LanesOK, rxVars, laneVars, serverVars
<1>2. ASSUME NEW q \in Queues, Receive(q)
      PROVE  TypeInv'
  <2>1. PICK burst \in SUBSET fresh \ {{}} : \E turn \in [burst -> Threads] :
          /\ fresh' = fresh \ burst
          /\ todo' = [t \in RxThreads |->
                       IF t[1] = q THEN {r \in burst : turn[r] = t[2]} ELSE todo[t]]
    BY <1>2 DEF Receive
  <2>2. fresh' \subseteq Requests /\ todo' \in [RxThreads -> SUBSET Requests]
    BY <2>1
  <2>3. AtHand'
    BY <1>2, <2>1 DEF Receive, ThreadsOf, RxThreads
  <2>4. QED
    BY <1>2, <2>2, <2>3 DEF Receive
<1>3. ASSUME NEW q \in Queues, Transmit(q)
      PROVE  TypeInv'
  <2>1. Head(txq[q]) \in Pages \X Bufs /\ Tail(txq[q]) \in Seq(Pages \X Bufs)
    BY <1>3, HeadTailProperties DEF Transmit
  <2>2. txq' \in [Queues -> Seq(Pages \X Bufs)]
    BY <1>3, <2>1 DEF Transmit
  <2>3. answers' \in [Requests -> Seq(Pages)]
    <3>1. \A r \in Requests : Append(answers[r], Head(txq[q])[1]) \in Seq(Pages)
      BY <2>1, AppendProperties
    <3>2. QED
      BY <1>3, <3>1 DEF Transmit
  <2>4. QED
    BY <1>3, <2>2, <2>3 DEF Transmit
<1>4. CASE StopKernels \/ UNCHANGED vars
  BY <1>4 DEF StopKernels, vars
<1>5. QED
  BY <1>2, <1>3, <1>4, RxKeepsTypes, LaneKeepsTypes DEF Next
-----------------------------------------------------------------------------
(* Requests and the places they are at.                                    *)

LEMMA KindsOfPlace ==
  ASSUME NEW x \in Places
  PROVE  \/ x.kind = "fresh" /\ At(x) = fresh
         \/ x.kind = "todo" /\ x.of \in RxThreads /\ At(x) = todo[x.of]
         \/ /\ x.kind = "item" /\ x.of[1] \in Queues /\ x.of[2] \in Items
            /\ At(x) = {r \in {info[x.of[1]][x.of[2]].who} : Waiting(x.of[1], x.of[2])}
         \/ /\ x.kind = "buffer" /\ x.of[1] \in Pages /\ x.of[2] \in Bufs
            /\ At(x) = {r \in {buffers[x.of[1]][x.of[2]]} : Sent(x.of[1], x.of[2])}
BY DEF Places, At

LEMMA KindsOfPlaceNext ==
  ASSUME NEW x \in Places
  PROVE  \/ x.kind = "fresh" /\ At(x)' = fresh'
         \/ x.kind = "todo" /\ At(x)' = todo'[x.of]
         \/ /\ x.kind = "item"
            /\ At(x)' = {r \in {info'[x.of[1]][x.of[2]].who} : Waiting(x.of[1], x.of[2])'}
         \/ /\ x.kind = "buffer"
            /\ At(x)' = {r \in {buffers'[x.of[1]][x.of[2]]} : Sent(x.of[1], x.of[2])'}
BY DEF Places, At

LEMMA SamePlace ==
  ASSUME NEW x \in Places, NEW y \in Places, x.kind = y.kind
  PROVE  /\ x.kind = "fresh" => x = y
         /\ x.kind = "todo" /\ x.of = y.of => x = y
         /\ x.kind \in {"item", "buffer"} /\ x.of[1] = y.of[1] /\ x.of[2] = y.of[2] => x = y
BY DEF Places

\* A request that moves on to another place, or none.
LEMMA Moved ==
  ASSUME OnePlace, Unanswered, NEW from \in Places, NEW to \in Places, NEW r \in At(from),
         UNCHANGED answers,
         \A x \in Places : x = to \/ (At(x)' \subseteq At(x) /\ r \notin At(x)'),
         At(to)' \subseteq At(to) \cup {r}
  PROVE  OnePlace' /\ Unanswered'
BY DEF OnePlace, Unanswered

\* Requests that stay where they are, or are dropped.
LEMMA PlacesStand ==
  ASSUME CleanInv, UNCHANGED answers, fresh' \subseteq fresh,
         \A t \in RxThreads : todo'[t] \subseteq todo[t],
         \A q \in Queues, i \in Items :
           Waiting(q, i)' => Waiting(q, i) /\ info'[q][i] = info[q][i],
         \A p \in Pages, b \in Bufs :
           Sent(p, b)' => Sent(p, b) /\ buffers'[p][b] = buffers[p][b]
  PROVE  OnePlace' /\ Unanswered' /\ RightPage' /\ Answered'
<1>1. \A x \in Places : At(x)' \subseteq At(x)
  BY KindsOfPlace, KindsOfPlaceNext
<1>2. OnePlace'
  BY <1>1 DEF OnePlace, CleanInv
<1>3. Unanswered'
  BY <1>1 DEF Unanswered, CleanInv
<1>4. RightPage' /\ Answered'
  BY DEF RightPage, Answered, CleanInv
<1>5. QED
  BY <1>2, <1>3, <1>4
-----------------------------------------------------------------------------
(* The steps of the receive kernel.                                        *)

\* A thread that neither takes an item nor writes into one.
LEMMA HoldingStands ==
  ASSUME NEW t \in RxThreads, Holding(t), rx'[t] = rx[t], rxItem'[t] = rxItem[t],
         todo'[t] = todo[t], UNCHANGED <<info, PageOf>>,
         status'[t[1]][rxItem[t]] = "READY" => status[t[1]][rxItem[t]] = "READY",
         \A u \in ThreadsOf(t[1]) : rx'[u] # "next" => rx[u] # "next" /\ rxItem'[u] = rxItem[u]
  PROVE  Holding(t)'
BY DEF Holding, Current

\* The server kernel does not see what happens in items that are not READY.
LEMMA ServingStands ==
  ASSUME NEW l \in LaneIds, Serving(l), lane'[l] = lane[l], laneItem'[l] = laneItem[l],
         lanePage'[l] = lanePage[l],
         status[l[1]][laneItem[l]] = "READY" =>
           /\ status'[l[1]][laneItem[l]] = "READY"
           /\ info'[l[1]][laneItem[l]] = info[l[1]][laneItem[l]]
  PROVE  Serving(l)'
BY DEF Serving, Busy

LEMMA BuffersStand ==
  ASSUME BuffersOnce, UNCHANGED <<lane, laneBuf, lanePage, txq>>
  PROVE  BuffersOnce' /\ \A p \in Pages, b \in Bufs : Sent(p, b)' <=> Sent(p, b)
BY DEF BuffersOnce, Filling, Sent

LEMMA ReceiveKeepsClean ==
  ASSUME TypeInv, CleanInv, NEW q \in Queues, Receive(q)
  PROVE  CleanInv'
<1>1. PICK burst \in SUBSET fresh \ {{}} : \E turn \in [burst -> Threads] :
        /\ fresh' = fresh \ burst
        /\ todo' = [t \in RxThreads |->
                     IF t[1] = q THEN {r \in burst : turn[r] = t[2]} ELSE todo[t]]
  BY DEF Receive
<1>2. PICK turn \in [burst -> Threads] :
        /\ fresh' = fresh \ burst
        /\ todo' = [t \in RxThreads |->
                     IF t[1] = q THEN {r \in burst : turn[r] = t[2]} ELSE todo[t]]
  BY <1>1
<1>3. /\ \A t \in RxThreads : t[1] = q => rx[t] = "next" /\ todo[t] = {}
      /\ UNCHANGED <<rx, rxItem, status, info, lane, laneItem, laneBuf, lanePage, buffers, txq,
                     answers>>
  BY DEF Receive, ThreadsOf, RxThreads, serverVars, laneVars
<1>4. ASSUME NEW t \in RxThreads
      PROVE  Holding(t)'
  <2>1. CASE t[1] = q
    BY <1>3, <2>1 DEF Holding
  <2>2. CASE t[1] # q
    BY <1>2, <1>3, <2>2, HoldingStands DEF CleanInv
  <2>3. QED
    BY <2>1, <2>2
<1>5. \A l \in LaneIds : Serving(l)'
  BY <1>3, ServingStands DEF CleanInv
<1>6. BuffersOnce' /\ \A p \in Pages, b \in Bufs : Sent(p, b)' <=> Sent(p, b)
  BY <1>3, BuffersStand DEF CleanInv
<1>7. \A s \in Queues, i \in Items : Waiting(s, i)' <=> Waiting(s, i)
  BY <1>3 DEF Waiting
<1>8. RightPage' /\ Answered'
  BY <1>3, <1>6, <1>7 DEF RightPage, Answered, CleanInv
<1>9. \A x \in Places : \/ /\ x.kind = "todo" /\ x.of[1] = q
                           /\ At(x)' = {r \in burst : turn[r] = x.of[2]}
                        \/ At(x)' = At(x) /\ x.kind \in {"todo", "item", "buffer"}
                        \/ At(x)' = At(x) \ burst /\ x.kind = "fresh"
  BY <1>2, <1>3, <1>6, <1>7, KindsOfPlace, KindsOfPlaceNext
<1>10. burst \subseteq fresh /\ \E f \in Places : f.kind = "fresh" /\ At(f) = fresh
  <2>1. [kind |-> "fresh"] \in Places /\ At([kind |-> "fresh"]) = fresh
    BY DEF Places, At
  <2>2. QED
    BY <2>1
<1>11. \A x \in Places : x.kind # "fresh" => At(x) \cap burst = {}
  BY <1>10 DEF OnePlace, CleanInv
<1>12. OnePlace'
  <2>1. SUFFICES ASSUME NEW x \in Places, NEW y \in Places, NEW r \in At(x)', r \in At(y)'
                 PROVE  x = y
    BY DEF OnePlace
  <2>2. CASE r \in burst
    <3>1. /\ x.kind = "todo" /\ x.of[1] = q /\ turn[r] = x.of[2]
          /\ y.kind = "todo" /\ y.of[1] = q /\ turn[r] = y.of[2]
      BY <1>9, <1>11, <2>1, <2>2
    <3>2. x.of \in RxThreads /\ y.of \in RxThreads
      BY <3>1, KindsOfPlace
    <3>3. x.of = y.of
      <4>1. x.of[1] = y.of[1] /\ x.of[2] = y.of[2]
        BY <3>1
      <4>2. \A a, b \in Queues \X Threads : a[1] = b[1] /\ a[2] = b[2] => a = b
        OBVIOUS
      <4>3. QED
        BY <3>2, <4>1, <4>2 DEF RxThreads
    <3>4. QED
      BY <3>1, <3>3, SamePlace
  <2>3. CASE r \notin burst
    BY <1>9, <2>1, <2>3 DEF OnePlace, CleanInv
  <2>4. QED
    BY <2>2, <2>3
<1>13. Unanswered'
  BY <1>3, <1>9, <1>10 DEF Unanswered, CleanInv
<1>14. QED
  BY <1>4, <1>5, <1>6, <1>8, <1>12, <1>13 DEF CleanInv

LEMMA TicketKeepsClean ==
  ASSUME TypeInv, CleanInv, NEW t \in RxThreads,
         (TakeTicket(t) /\ ~lapped') \/ TicketFails(t)
  PROVE  CleanInv'
<1>1. t[1] \in Queues /\ ticket[t[1]] \in Items
  BY DEF RxThreads, TypeInv, TypeOK
<1>2. UNCHANGED <<status, info, lane, laneItem, laneBuf, lanePage, buffers, txq, answers, fresh>>
  BY DEF TakeTicket, TicketFails, serverVars, laneVars
<1>3. /\ rx[t] = "next" /\ \A u \in RxThreads \ {t} : /\ rx'[u] = rx[u] /\ todo'[u] = todo[u]
                                                      /\ rxItem'[u] = rxItem[u]
      /\ todo'[t] \subseteq todo[t]
  BY DEF TakeTicket, TicketFails, TypeInv, TypeOK
<1>4. \A u \in RxThreads : Holding(u)'
  <2>1. CASE TicketFails(t)
    BY <1>2, <1>3, <2>1 DEF Holding, Current, TicketFails, CleanInv, ThreadsOf, RxThreads
  <2>2. CASE TakeTicket(t) /\ ~lapped'
    <3>1. /\ rx'[t] = "client" /\ rxItem'[t] = ticket[t[1]]
          /\ ~InUse(t[1], ticket[t[1]])
      BY <2>2 DEF TakeTicket, TypeInv, TypeOK
    <3>2. /\ status[t[1]][ticket[t[1]]] # "READY"
          /\ \A u \in ThreadsOf(t[1]) : rx[u] = "next" \/ rxItem[u] # ticket[t[1]]
      BY <3>1 DEF InUse, ThreadsOf, RxThreads, TypeInv, TypeOK
    <3>3. Holding(t)'
      BY <1>2, <1>3, <3>1, <3>2 DEF Holding, ThreadsOf, RxThreads
    <3>4. ASSUME NEW u \in RxThreads \ {t}
          PROVE  Holding(u)'
      <4>1. Holding(u)
        BY DEF CleanInv
      <4>2. \A v \in ThreadsOf(u[1]) : rx'[v] # "next" /\ rxItem'[v] = rxItem[u] /\ rx[u] # "next"
                                       => v = u
        BY <1>3, <3>1, <3>2, <4>1 DEF Holding, ThreadsOf, RxThreads
      <4>3. QED
        BY <1>2, <1>3, <4>1, <4>2 DEF Holding, Current
    <3>5. QED
      BY <3>3, <3>4
  <2>3. QED
    BY <2>1, <2>2
<1>5. \A l \in LaneIds : Serving(l)'
  BY <1>2, ServingStands DEF CleanInv
<1>6. BuffersOnce' /\ \A p \in Pages, b \in Bufs : Sent(p, b)' <=> Sent(p, b)
  BY <1>2, BuffersStand DEF CleanInv
<1>7. OnePlace' /\ Unanswered' /\ RightPage' /\ Answered'
  <2>1. \A q \in Queues, i \in Items : Waiting(q, i)' <=> Waiting(q, i)
    BY <1>2 DEF Waiting
  <2>2. QED
    BY <1>2, <1>3, <1>6, <2>1, PlacesStand
<1>8. QED
  BY <1>4, <1>5, <1>6, <1>7 DEF CleanInv

\* A write into the item a thread has a ticket for: nobody else looks at it.
LEMMA WriteSeenByNone ==
  ASSUME TypeInv, CleanInv, NEW t \in RxThreads, rx[t] # "next",
         UNCHANGED <<status, lane, laneItem, laneBuf, lanePage, buffers, txq, answers, fresh, todo,
                     rxItem>>,
         \A u \in RxThreads \ {t} : rx'[u] = rx[u],
         \A q \in Queues, i \in Items : q # t[1] \/ i # rxItem[t] => info'[q][i] = info[q][i]
  PROVE  /\ \A u \in RxThreads \ {t} : Holding(u)'
         /\ \A l \in LaneIds : Serving(l)'
         /\ BuffersOnce' /\ OnePlace' /\ Unanswered' /\ RightPage' /\ Answered'
<1>1. status[t[1]][rxItem[t]] # "READY" /\ rxItem[t] \in Items /\ t[1] \in Queues
  BY DEF CleanInv, Holding, TypeInv, TypeOK, RxThreads
<1>2. ASSUME NEW u \in RxThreads \ {t}
      PROVE  Holding(u)'
  <2>1. SUFFICES ASSUME rx[u] # "next" PROVE Holding(u)'
    BY DEF Holding
  <2>2. u[1] \in Queues /\ rxItem[u] \in Items
    BY DEF TypeInv, TypeOK, RxThreads
  <2>3. u[1] = t[1] => rxItem[u] # rxItem[t]
    BY <2>1 DEF CleanInv, Holding, ThreadsOf, RxThreads
  <2>4. info'[u[1]][rxItem[u]] = info[u[1]][rxItem[u]]
    BY <2>2, <2>3
  <2>5. \A v \in ThreadsOf(u[1]) : rx'[v] # "next" => rx[v] # "next"
    BY DEF ThreadsOf, RxThreads
  <2>6. QED
    BY <2>4, <2>5 DEF CleanInv, Holding, Current
<1>3. ASSUME NEW l \in LaneIds
      PROVE  Serving(l)'
  <2>1. l[1] \in Queues /\ laneItem[l] \in Items
    BY DEF TypeInv, TypeOK, LaneIds
  <2>2. QED
    BY <1>1, <2>1, ServingStands DEF CleanInv
<1>4. BuffersOnce' /\ \A p \in Pages, b \in Bufs : Sent(p, b)' <=> Sent(p, b)
  BY BuffersStand DEF CleanInv
<1>5. OnePlace' /\ Unanswered' /\ RightPage' /\ Answered'
  <2>1. \A q \in Queues, i \in Items : Waiting(q, i)' => Waiting(q, i) /\ info'[q][i] = info[q][i]
    BY <1>1 DEF Waiting
  <2>2. QED
    BY <1>4, <2>1, PlacesStand
<1>6. QED
  BY <1>2, <1>3, <1>4, <1>5

LEMMA WriteKeepsClean ==
  ASSUME TypeInv, CleanInv, NEW t \in RxThreads, WriteClient(t) \/ WritePage(t)
  PROVE  CleanInv'
<1>1. /\ t[1] \in Queues /\ rxItem[t] \in Items /\ rx[t] # "next" /\ Current(t) \in Requests
      /\ PageOf[Current(t)] \in Pages
  BY CurrentIsTodo, PageAssumption DEF WriteClient, WritePage, TypeInv, TypeOK, AtHand, RxThreads
<1>2. UNCHANGED <<status, lane, laneItem, laneBuf, lanePage, buffers, txq, answers, fresh, todo,
                  rxItem>>
  BY DEF WriteClient, WritePage, serverVars, laneVars
<1>3. \A u \in RxThreads \ {t} : rx'[u] = rx[u]
  BY DEF WriteClient, WritePage, TypeInv, TypeOK
<1>5. /\ \A q \in Queues, i \in Items : q # t[1] \/ i # rxItem[t] => info'[q][i] = info[q][i]
      /\ WriteClient(t) => info'[t[1]][rxItem[t]].who = Current(t)
      /\ WritePage(t) => /\ info'[t[1]][rxItem[t]].who = info[t[1]][rxItem[t]].who
                          /\ info'[t[1]][rxItem[t]].page = PageOf[Current(t)]
  <2>1. CASE WriteClient(t)
    BY <2>1, WhoWritten DEF WriteClient, WritePage
  <2>2. CASE WritePage(t)
    BY <2>2, PageWritten DEF WriteClient, WritePage
  <2>3. QED
    BY <2>1, <2>2
<1>6. Holding(t)'
  <2>1. Holding(t) /\ Current(t)' = Current(t)
    BY <1>2 DEF CleanInv, Current
  <2>2. \A u \in ThreadsOf(t[1]) : rx'[u] # "next" => rx[u] # "next"
    BY <1>1, <1>3 DEF ThreadsOf, RxThreads
  <2>3. CASE WriteClient(t)
    <3>1. rx'[t] = "page"
      BY <2>3 DEF WriteClient, TypeInv, TypeOK
    <3>2. QED
      BY <1>1, <1>2, <1>5, <2>1, <2>2, <2>3, <3>1 DEF Holding
  <2>4. CASE WritePage(t)
    <3>1. rx[t] = "page" /\ rx'[t] = "ready"
      BY <2>4 DEF WritePage, TypeInv, TypeOK
    <3>2. QED
      BY <1>1, <1>2, <1>5, <2>1, <2>2, <2>4, <3>1 DEF Holding
  <2>5. QED
    BY <2>3, <2>4
<1>7. QED
  BY <1>1, <1>2, <1>3, <1>5, <1>6, WriteSeenByNone DEF CleanInv

\* The request goes from the thread to the item.
LEMMA ReadyKeepsClean ==
  ASSUME TypeInv, CleanInv, NEW t \in RxThreads, SetReady(t)
  PROVE  CleanInv'
<1> DEFINE r == Current(t)
           from == [kind |-> "todo", of |-> t]
           to == [kind |-> "item", of |-> <<t[1], rxItem[t]>>]
<1>1. /\ t[1] \in Queues /\ rxItem[t] \in Items /\ rx[t] = "ready" /\ rx'[t] = "next"
      /\ todo'[t] = todo[t] \ {r} /\ r \in todo[t]
      /\ \A u \in RxThreads \ {t} : rx'[u] = rx[u] /\ todo'[u] = todo[u]
  BY CurrentIsTodo DEF SetReady, TypeInv, TypeOK, AtHand, RxThreads
<1>2. UNCHANGED <<info, lane, laneItem, laneBuf, lanePage, buffers, txq, answers, fresh, rxItem>>
  BY DEF SetReady, serverVars, laneVars
<1>3. /\ status'[t[1]][rxItem[t]] = "READY"
      /\ \A q \in Queues, i \in Items : q # t[1] \/ i # rxItem[t] => status'[q][i] = status[q][i]
  BY <1>1 DEF SetReady, TypeInv, TypeOK
<1>4. ASSUME NEW u \in RxThreads
      PROVE  Holding(u)'
  <2>1. SUFFICES ASSUME u # t, rx[u] # "next" PROVE Holding(u)'
    BY <1>1 DEF Holding
  <2>2. u[1] \in Queues /\ rxItem[u] \in Items
    BY DEF TypeInv, TypeOK, RxThreads
  <2>3. u[1] = t[1] => rxItem[u] # rxItem[t]
    BY <1>1, <2>1 DEF CleanInv, Holding, ThreadsOf, RxThreads
  <2>4. \A v \in ThreadsOf(u[1]) : rx'[v] # "next" => rx[v] # "next"
    BY <1>1, <2>2 DEF ThreadsOf, RxThreads
  <2>5. status'[u[1]][rxItem[u]] = status[u[1]][rxItem[u]]
    BY <1>3, <2>2, <2>3
  <2>6. QED
    BY <1>1, <1>2, <2>1, <2>4, <2>5 DEF CleanInv, Holding, Current
<1>5. ASSUME NEW l \in LaneIds
      PROVE  Serving(l)'
  <2>1. l[1] \in Queues /\ laneItem[l] \in Items
    BY DEF TypeInv, TypeOK, LaneIds
  <2>2. QED
    BY <1>2, <1>3, <2>1, ServingStands DEF CleanInv
<1>6. BuffersOnce' /\ \A p \in Pages, b \in Bufs : Sent(p, b)' <=> Sent(p, b)
  BY <1>2, BuffersStand DEF CleanInv
<1>7. \A q \in Queues, i \in Items : q # t[1] \/ i # rxItem[t] => (Waiting(q, i)' <=> Waiting(q, i))
  BY <1>2, <1>3 DEF Waiting
<1>8. info[t[1]][rxItem[t]].who = r /\ info[t[1]][rxItem[t]].page = PageOf[r]
  BY <1>1 DEF CleanInv, Holding
<1>9. RightPage' /\ Answered'
  BY <1>2, <1>6, <1>7, <1>8 DEF RightPage, Answered, CleanInv
<1>10. from \in Places /\ to \in Places /\ r \in At(from)
  BY <1>1 DEF Places, At
<1>11. ASSUME NEW x \in Places
       PROVE  At(x)' \subseteq At(x) \cup (IF x = to THEN {r} ELSE {})
  <2>1. CASE x.kind \in {"fresh", "todo", "buffer"}
    BY <1>1, <1>2, <1>6, <2>1, KindsOfPlace, KindsOfPlaceNext
  <2>2. CASE x.kind = "item" /\ x # to
    <3>1. x.of[1] # t[1] \/ x.of[2] # rxItem[t]
      BY <1>10, <2>2, SamePlace
    <3>2. QED
      BY <1>2, <1>7, <2>2, <3>1, KindsOfPlace, KindsOfPlaceNext
  <2>3. CASE x = to
    BY <1>2, <1>8, <2>3, KindsOfPlaceNext
  <2>4. QED
    BY <2>1, <2>2, <2>3, KindsOfPlace
<1>12. \A x \in Places : x # to => r \notin At(x)'
  <2>1. ASSUME NEW x \in Places, x # to, r \in At(x)'
        PROVE  FALSE
    <3>1. x = from
      BY <1>10, <1>11, <2>1 DEF OnePlace, CleanInv
    <3>2. QED
      BY <1>1, <2>1, <3>1, KindsOfPlaceNext
  <2>2. QED
    BY <2>1
<1> HIDE DEF from, to, r
<1>13. OnePlace' /\ Unanswered'
  BY <1>2, <1>10, <1>11, <1>12, Moved DEF CleanInv
<1>14. QED
  BY <1>4, <1>5, <1>6, <1>9, <1>13 DEF CleanInv
-----------------------------------------------------------------------------
(* The steps of the server kernel and of the NIC.                          *)

\* The receive threads are not disturbed by what leaves their variables and the
\* items alone.
LEMMA HoldingUntouched ==
  ASSUME \A t \in RxThreads : Holding(t), UNCHANGED <<rxVars, status, info>>
  PROVE  \A t \in RxThreads : Holding(t)'
BY DEF Holding, Current, rxVars

\* No two lanes of a queue look at the same item.
LEMMA LaneOfItem ==
  ASSUME TypeInv, NEW l \in LaneIds, NEW m \in LaneIds, l[1] = m[1], laneItem[l] = laneItem[m]
  PROVE  l = m
BY DEF TypeInv, LanesOK, LaneIds

LEMMA LaneIdOf ==
  ASSUME NEW q \in Queues, NEW k \in Lanes
  PROVE  <<q, k>> \in LaneIds /\ <<q, k>>[1] = q /\ <<q, k>>[2] = k
BY DEF LaneIds

LEMMA LeaveKeepsClean ==
  ASSUME TypeInv, CleanInv, NEW l \in LaneIds, LaneExit(l) \/ StatusFails(l) \/ LaneFails(l)
  PROVE  CleanInv'
<1>1. /\ UNCHANGED <<rxVars, status, info, laneItem, laneBuf, lanePage, buffers, txq, answers>>
      /\ lane[l] \in {"poll", "done"} /\ lane'[l] = "exited"
      /\ \A m \in LaneIds \ {l} : lane'[m] = lane[m]
  BY DEF LaneExit, StatusFails, LaneFails, LaneGoto, TypeInv, TypeOK
<1>2. \A t \in RxThreads : Holding(t)'
  BY <1>1, HoldingUntouched DEF CleanInv
<1>3. \A m \in LaneIds : Serving(m)'
  BY <1>1 DEF CleanInv, Serving, Busy
<1>4. BuffersOnce'
  BY <1>1 DEF CleanInv, BuffersOnce, Filling
<1>5. \A p \in Pages, b \in Bufs : Sent(p, b)' => Sent(p, b)
  BY <1>1 DEF Sent
<1>6. \A q \in Queues, i \in Items : Waiting(q, i)' => Waiting(q, i)
  BY <1>1, LaneIdOf DEF Waiting
<1>7. OnePlace' /\ Unanswered' /\ RightPage' /\ Answered'
  BY <1>1, <1>5, <1>6, PlacesStand DEF rxVars
<1>8. QED
  BY <1>2, <1>3, <1>4, <1>7 DEF CleanInv

LEMMA TakeRequestKeepsClean ==
  ASSUME TypeInv, CleanInv, NEW l \in LaneIds, TakeRequest(l), ~reused'
  PROVE  CleanInv'
<1>1. /\ UNCHANGED <<rxVars, status, info, laneItem, laneBuf, buffers, txq, answers>>
      /\ lane[l] = "poll" /\ lane'[l] = "fill" /\ status[l[1]][laneItem[l]] = "READY"
      /\ lanePage'[l] = info[l[1]][laneItem[l]].page
      /\ \A m \in LaneIds \ {l} : lane'[m] = lane[m] /\ lanePage'[m] = lanePage[m]
      /\ ~Pending(lanePage'[l], laneBuf[l])
  BY DEF TakeRequest, LaneGoto, TypeInv, TypeOK
<1>2. \A t \in RxThreads : Holding(t)'
  BY <1>1, HoldingUntouched DEF CleanInv
<1>3. \A m \in LaneIds : Serving(m)'
  BY <1>1 DEF CleanInv, Serving, Busy
<1>4. BuffersOnce'
  BY <1>1 DEF CleanInv, BuffersOnce, Filling, Pending
<1>5. \A p \in Pages, b \in Bufs : Sent(p, b)' => Sent(p, b)
  BY <1>1 DEF Sent
<1>6. \A q \in Queues, i \in Items : Waiting(q, i)' => Waiting(q, i)
  BY <1>1, LaneIdOf DEF Waiting
<1>7. OnePlace' /\ Unanswered' /\ RightPage' /\ Answered'
  BY <1>1, <1>5, <1>6, PlacesStand DEF rxVars
<1>8. QED
  BY <1>2, <1>3, <1>4, <1>7 DEF CleanInv

\* The request goes from the item to the buffer.
LEMMA FillKeepsClean ==
  ASSUME TypeInv, CleanInv, NEW l \in LaneIds, FillResponse(l)
  PROVE  CleanInv'
<1> DEFINE q0 == l[1]
           i0 == laneItem[l]
           p0 == lanePage[l]
           b0 == laneBuf[l]
           r == info[q0][i0].who
           from == [kind |-> "item", of |-> <<q0, i0>>]
           to == [kind |-> "buffer", of |-> <<p0, b0>>]
<1>1. q0 \in Queues /\ i0 \in Items /\ p0 \in Pages /\ b0 \in Bufs
  BY DEF LaneIds, TypeInv, TypeOK
<1>2. /\ UNCHANGED <<rxVars, status, info, laneItem, laneBuf, lanePage, txq, answers>>
      /\ lane[l] = "fill" /\ lane'[l] = "send"
      /\ \A m \in LaneIds \ {l} : lane'[m] = lane[m]
      /\ buffers'[p0][b0] = r
      /\ \A p \in Pages, b \in Bufs : p # p0 \/ b # b0 => buffers'[p][b] = buffers[p][b]
  BY <1>1 DEF FillResponse, LaneGoto, TypeInv, TypeOK
<1>3. \A t \in RxThreads : Holding(t)'
  BY <1>2, HoldingUntouched DEF CleanInv
<1>4. \A m \in LaneIds : Serving(m)'
  BY <1>2 DEF CleanInv, Serving, Busy
<1>5. BuffersOnce'
  BY <1>2 DEF CleanInv, BuffersOnce, Filling
<1>6. \A p \in Pages, b \in Bufs : p # p0 \/ b # b0 => (Sent(p, b)' => Sent(p, b))
  BY <1>2 DEF Sent
<1>7. \A q \in Queues, i \in Items : Waiting(q, i)' => Waiting(q, i)
  BY <1>2, LaneIdOf DEF Waiting
<1>8. Waiting(q0, i0) /\ \A q \in Queues, i \in Items : Waiting(q, i)' => q # q0 \/ i # i0
  <2>1. status[q0][i0] = "READY"
    BY <1>2 DEF CleanInv, Serving, Busy
  <2>2. l[2] \in Lanes /\ l = <<q0, l[2]>>
    BY DEF LaneIds
  <2>3. \A k \in Lanes : laneItem[<<q0, k>>] = i0 => <<q0, k>> = l
    BY <1>1, LaneIdOf, LaneOfItem
  <2>4. QED
    BY <1>2, <2>1, <2>2, <2>3 DEF Waiting
<1>9. info[q0][i0].page = p0
  BY <1>2 DEF CleanInv, Serving, Busy
<1>10. RightPage' /\ Answered'
  BY <1>1, <1>2, <1>6, <1>7, <1>8, <1>9 DEF CleanInv, RightPage, Answered
<1>11. from \in Places /\ to \in Places /\ r \in At(from)
  BY <1>1, <1>8 DEF Places, At
<1>12. ASSUME NEW x \in Places
       PROVE  At(x)' \subseteq At(x) \cup (IF x = to THEN {r} ELSE {})
  <2>1. CASE x.kind \in {"fresh", "todo", "item"}
    BY <1>2, <1>7, <2>1, KindsOfPlace, KindsOfPlaceNext DEF rxVars
  <2>2. CASE x.kind = "buffer" /\ x # to
    <3>1. x.of[1] # p0 \/ x.of[2] # b0
      BY <1>11, <2>2, SamePlace
    <3>2. QED
      BY <1>2, <1>6, <2>2, <3>1, KindsOfPlace, KindsOfPlaceNext
  <2>3. CASE x = to
    BY <1>2, <2>3, KindsOfPlaceNext
  <2>4. QED
    BY <2>1, <2>2, <2>3, KindsOfPlace
<1>13. \A x \in Places : x # to => r \notin At(x)'
  <2>1. ASSUME NEW x \in Places, x # to, r \in At(x)'
        PROVE  FALSE
    <3>1. x = from
      BY <1>11, <1>12, <2>1 DEF OnePlace, CleanInv
    <3>2. x.kind = "item" /\ x.of[1] = q0 /\ x.of[2] = i0
      BY <3>1
    <3>3. QED
      BY <1>8, <2>1, <3>2, KindsOfPlace, KindsOfPlaceNext
  <2>2. QED
    BY <2>1
<1> HIDE DEF from, to, r
<1>14. OnePlace' /\ Unanswered'
  BY <1>2, <1>11, <1>12, <1>13, Moved DEF CleanInv
<1>15. QED
  BY <1>3, <1>4, <1>5, <1>10, <1>14 DEF CleanInv

\* The buffer goes from the lane to the queue of the NIC.
LEMMA SendKeepsClean ==
  ASSUME TypeInv, CleanInv, NEW l \in LaneIds, Send(l)
  PROVE  CleanInv'
<1> DEFINE q0 == l[1]
           pair == <<lanePage[l], laneBuf[l]>>
<1>1. /\ UNCHANGED <<rxVars, status, info, laneItem, laneBuf, lanePage, buffers, answers>>
      /\ lane[l] = "send" /\ lane'[l] = "done"
      /\ \A m \in LaneIds \ {l} : lane'[m] = lane[m]
  BY DEF Send, LaneGoto, TypeInv, TypeOK
<1>2. /\ q0 \in Queues /\ txq[q0] \in Seq(Pages \X Bufs) /\ pair \in Pages \X Bufs
      /\ txq'[q0] = Append(txq[q0], pair) /\ \A q \in Queues \ {q0} : txq'[q] = txq[q]
  BY DEF Send, LaneIds, TypeInv, TypeOK
<1>3. /\ DOMAIN txq'[q0] = DOMAIN txq[q0] \cup {Len(txq[q0]) + 1}
      /\ Len(txq[q0]) + 1 \notin DOMAIN txq[q0]
      /\ \A n \in DOMAIN txq[q0] : txq'[q0][n] = txq[q0][n]
      /\ txq'[q0][Len(txq[q0]) + 1] = pair
  BY <1>2, AppendProperties
<1>4. \A t \in RxThreads : Holding(t)'
  BY <1>1, HoldingUntouched DEF CleanInv
<1>5. \A m \in LaneIds : Serving(m)'
  BY <1>1 DEF CleanInv, Serving, Busy
<1> HIDE DEF q0
<1>6. \A q \in Queues : \A n \in DOMAIN txq'[q] :
        \/ n \in DOMAIN txq[q] /\ txq'[q][n] = txq[q][n] /\ txq[q][n] # pair
        \/ q = q0 /\ n = Len(txq[q0]) + 1 /\ txq'[q][n] = pair
  <2>1. \A q \in Queues : \A n \in DOMAIN txq[q] : txq[q][n] # pair
    BY <1>1 DEF CleanInv, BuffersOnce, Filling
  <2>2. ASSUME NEW q \in Queues, NEW n \in DOMAIN txq'[q]
        PROVE  \/ n \in DOMAIN txq[q] /\ txq'[q][n] = txq[q][n] /\ txq[q][n] # pair
               \/ q = q0 /\ n = Len(txq[q0]) + 1 /\ txq'[q][n] = pair
    <3>1. CASE q = q0
      BY <1>3, <2>1, <2>2, <3>1
    <3>2. CASE q # q0
      BY <1>2, <2>1, <2>2, <3>2
    <3>3. QED
      BY <3>1, <3>2
  <2>3. QED
    BY <2>2
<1>7. BuffersOnce'
  <2>1. ASSUME NEW m \in LaneIds, Filling(m)'
        PROVE  Filling(m) /\ <<lanePage[m], laneBuf[m]>> # pair
    BY <1>1, <2>1 DEF CleanInv, BuffersOnce, Filling
  <2>2. \A q, s \in Queues : \A n \in DOMAIN txq'[q], m \in DOMAIN txq'[s] :
          txq'[q][n] = txq'[s][m] => q = s /\ n = m
    BY <1>6 DEF CleanInv, BuffersOnce
  <2>3. \A m \in LaneIds : Filling(m)' =>
          \A q \in Queues : \A n \in DOMAIN txq'[q] : txq'[q][n] # <<lanePage[m], laneBuf[m]>>
    BY <1>6, <2>1 DEF CleanInv, BuffersOnce
  <2>4. \A k, m \in LaneIds : Filling(k)' /\ Filling(m)' =>
          lanePage[k] # lanePage[m] \/ laneBuf[k] # laneBuf[m] \/ k = m
    BY <2>1 DEF CleanInv, BuffersOnce
  <2>5. QED
    BY <1>1, <2>2, <2>3, <2>4 DEF BuffersOnce
<1>8. ASSUME NEW p \in Pages, NEW b \in Bufs, Sent(p, b)'
      PROVE  Sent(p, b)
  <2>1. CASE \E m \in LaneIds : lane'[m] = "send" /\ lanePage[m] = p /\ laneBuf[m] = b
    BY <1>1, <2>1 DEF Sent
  <2>2. CASE \E q \in Queues : \E n \in DOMAIN txq'[q] : txq'[q][n] = <<p, b>>
    <3> PICK q \in Queues : \E n \in DOMAIN txq'[q] : txq'[q][n] = <<p, b>>
      BY <2>2
    <3>1. PICK n \in DOMAIN txq'[q] : txq'[q][n] = <<p, b>>
      OBVIOUS
    <3>2. CASE n \in DOMAIN txq[q] /\ txq[q][n] = <<p, b>>
      BY <3>2 DEF Sent
    <3>3. CASE pair = <<p, b>>
      BY <1>1, <3>3 DEF Sent
    <3>4. QED
      BY <1>6, <3>1, <3>2, <3>3
  <2>3. QED
    BY <1>1, <1>8, <2>1, <2>2 DEF Sent
<1>9. \A q \in Queues, i \in Items : Waiting(q, i)' => Waiting(q, i)
  BY <1>1, LaneIdOf DEF Waiting
<1>10. OnePlace' /\ Unanswered' /\ RightPage' /\ Answered'
  BY <1>1, <1>8, <1>9, PlacesStand DEF rxVars
<1>11. QED
  BY <1>4, <1>5, <1>7, <1>10 DEF CleanInv

LEMMA DoneKeepsClean ==
  ASSUME TypeInv, CleanInv, NEW l \in LaneIds, SetDone(l)
  PROVE  CleanInv'
<1> DEFINE q0 == l[1]
           i0 == laneItem[l]
<1>1. q0 \in Queues /\ i0 \in Items
  BY DEF LaneIds, TypeInv, TypeOK
<1>2. /\ UNCHANGED <<rxVars, info, lanePage, buffers, txq, answers>>
      /\ lane[l] = "done" /\ lane'[l] = "poll"
      /\ \A m \in LaneIds \ {l} : /\ lane'[m] = lane[m] /\ laneItem'[m] = laneItem[m]
                                 /\ laneBuf'[m] = laneBuf[m]
      /\ status'[q0][i0] = "DONE"
      /\ \A q \in Queues, i \in Items : q # q0 \/ i # i0 => status'[q][i] = status[q][i]
  BY <1>1 DEF SetDone, LaneGoto, TypeInv, TypeOK
<1>3. ASSUME NEW t \in RxThreads
      PROVE  Holding(t)'
  <2>1. t[1] \in Queues /\ rxItem[t] \in Items
    BY DEF TypeInv, TypeOK, RxThreads
  <2>2. status'[t[1]][rxItem[t]] = "READY" => status[t[1]][rxItem[t]] = "READY"
    BY <1>2, <2>1
  <2>3. QED
    BY <1>2, <2>2 DEF CleanInv, Holding, Current, rxVars
<1>4. ASSUME NEW m \in LaneIds
      PROVE  Serving(m)'
  <2>1. CASE m = l
    BY <1>2, <2>1 DEF Serving, Busy
  <2>2. CASE m # l
    <3>1. m[1] \in Queues /\ laneItem[m] \in Items
      BY DEF LaneIds, TypeInv, TypeOK
    <3>2. m[1] # q0 \/ laneItem[m] # i0
      BY <2>2, LaneOfItem
    <3>3. QED
      BY <1>2, <2>2, <3>1, <3>2 DEF CleanInv, Serving, Busy
  <2>3. QED
    BY <2>1, <2>2
<1>5. BuffersOnce'
  BY <1>2 DEF CleanInv, BuffersOnce, Filling
<1>6. \A p \in Pages, b \in Bufs : Sent(p, b)' => Sent(p, b)
  BY <1>2 DEF Sent
<1>7. ASSUME NEW q \in Queues, NEW i \in Items, Waiting(q, i)'
      PROVE  Waiting(q, i)
  <2>1. q # q0 \/ i # i0
    BY <1>2, <1>7 DEF Waiting
  <2>2. status[q][i] = "READY"
    BY <1>2, <1>7, <2>1 DEF Waiting
  <2>3. ASSUME NEW k \in Lanes, laneItem[<<q, k>>] = i
        PROVE  lane[<<q, k>>] \in {"poll", "fill"}
    <3>1. <<q, k>> # l
      BY <2>1, <2>3
    <3>2. QED
      BY <1>2, <1>7, <2>3, <3>1, LaneIdOf DEF Waiting
  <2>4. QED
    BY <2>2, <2>3 DEF Waiting
<1>8. OnePlace' /\ Unanswered' /\ RightPage' /\ Answered'
  BY <1>2, <1>6, <1>7, PlacesStand DEF rxVars
<1>9. QED
  BY <1>3, <1>4, <1>5, <1>8 DEF CleanInv

\* The request in the buffer is answered.
LEMMA TransmitKeepsClean ==
  ASSUME TypeInv, CleanInv, NEW q \in Queues, Transmit(q)
  PROVE  CleanInv'
<1> DEFINE p0 == Head(txq[q])[1]
           b0 == Head(txq[q])[2]
           r == buffers[p0][b0]
           from == [kind |-> "buffer", of |-> <<p0, b0>>]
<1>1. txq[q] # <<>> /\ txq[q] \in Seq(Pages \X Bufs)
  BY DEF Transmit, TypeInv, TypeOK
<1>2. /\ UNCHANGED <<rxVars, status, info, laneVars, buffers>>
      /\ txq'[q] = Tail(txq[q]) /\ \A s \in Queues \ {q} : txq'[s] = txq[s]
      /\ answers' = [answers EXCEPT ![r] = Append(@, p0)]
  BY DEF Transmit, TypeInv, TypeOK
<1>3. /\ 1 \in DOMAIN txq[q] /\ txq[q][1] = Head(txq[q]) /\ Head(txq[q]) \in Pages \X Bufs
      /\ \A n \in DOMAIN Tail(txq[q]) : /\ n + 1 \in DOMAIN txq[q] /\ n \in Nat /\ n + 1 # 1
                                      /\ Tail(txq[q])[n] = txq[q][n + 1]
  BY <1>1, HeadTailProperties, LenProperties
<1>4. /\ p0 \in Pages /\ b0 \in Bufs /\ txq[q][1] = <<p0, b0>>
      /\ from \in Places /\ from.kind = "buffer" /\ from.of[1] = p0 /\ from.of[2] = b0
  BY <1>3 DEF Places
<1>5. \A t \in RxThreads : Holding(t)'
  BY <1>2, HoldingUntouched DEF CleanInv
<1>6. \A m \in LaneIds : Serving(m)'
  BY <1>2 DEF CleanInv, Serving, Busy, laneVars
<1>7. \A s \in Queues : \A n \in DOMAIN txq'[s] :
        LET o == IF s = q THEN n + 1 ELSE n
        IN  /\ o \in DOMAIN txq[s] /\ txq'[s][n] = txq[s][o] /\ txq[s][o] # <<p0, b0>>
            /\ s = q => n \in Nat
  <2>1. ASSUME NEW s \in Queues, NEW n \in DOMAIN txq[s], s # q \/ n # 1
        PROVE  txq[s][n] # <<p0, b0>>
    BY <1>3, <1>4, <2>1 DEF CleanInv, BuffersOnce
  <2>2. QED
    BY <1>2, <1>3, <2>1
<1>8. BuffersOnce'
  <2>1. \A s, u \in Queues : \A n \in DOMAIN txq'[s], m \in DOMAIN txq'[u] :
          txq'[s][n] = txq'[u][m] => s = u /\ n = m
    BY <1>7 DEF CleanInv, BuffersOnce
  <2>2. \A l \in LaneIds : Filling(l)' =>
          \A s \in Queues : \A n \in DOMAIN txq'[s] : txq'[s][n] # <<lanePage[l], laneBuf[l]>>
    <3>1. SUFFICES ASSUME NEW l \in LaneIds, Filling(l)', NEW s \in Queues, NEW n \in DOMAIN txq'[s]
                   PROVE  txq'[s][n] # <<lanePage[l], laneBuf[l]>>
      OBVIOUS
    <3>2. \E o \in DOMAIN txq[s] : txq'[s][n] = txq[s][o]
      BY <1>7
    <3>3. Filling(l)
      BY <1>2, <3>1 DEF Filling, laneVars
    <3>4. \A o \in DOMAIN txq[s] : txq[s][o] # <<lanePage[l], laneBuf[l]>>
      BY <3>3 DEF CleanInv, BuffersOnce
    <3>5. QED
      BY <3>2, <3>4
  <2>3. /\ lanePage' = lanePage /\ laneBuf' = laneBuf
        /\ \A l \in LaneIds : Filling(l)' <=> Filling(l)
    BY <1>2 DEF Filling, laneVars
  <2>4. \A l, m \in LaneIds : Filling(l) /\ Filling(m) =>
          lanePage[l] # lanePage[m] \/ laneBuf[l] # laneBuf[m] \/ l = m
    BY DEF CleanInv, BuffersOnce
  <2>5. QED
    BY <2>1, <2>2, <2>3, <2>4 DEF BuffersOnce
<1>9. /\ Sent(p0, b0)
      /\ \A p \in Pages, b \in Bufs : Sent(p, b)' => Sent(p, b) /\ <<p, b>> # <<p0, b0>>
  <2>1. Sent(p0, b0)
    BY <1>3, <1>4 DEF Sent
  <2>2. ~ \E l \in LaneIds : lane[l] = "send" /\ lanePage[l] = p0 /\ laneBuf[l] = b0
    BY <1>3, <1>4 DEF CleanInv, BuffersOnce, Filling
  <2>3. ASSUME NEW p \in Pages, NEW b \in Bufs, Sent(p, b)'
        PROVE  Sent(p, b) /\ <<p, b>> # <<p0, b0>>
    <3>1. CASE \E l \in LaneIds : lane'[l] = "send" /\ lanePage'[l] = p /\ laneBuf'[l] = b
      BY <1>2, <2>2, <3>1 DEF Sent, laneVars
    <3>2. CASE \E s \in Queues : \E n \in DOMAIN txq'[s] : txq'[s][n] = <<p, b>>
      <4>1. PICK s \in Queues : \E n \in DOMAIN txq'[s] : txq'[s][n] = <<p, b>>
        BY <3>2
      <4>2. PICK n \in DOMAIN txq'[s] : txq'[s][n] = <<p, b>>
        BY <4>1
      <4>3. \E o \in DOMAIN txq[s] : txq[s][o] = <<p, b>> /\ txq[s][o] # <<p0, b0>>
        BY <1>7, <4>2
      <4>4. QED
        BY <4>3 DEF Sent
    <3>3. QED
      BY <2>3, <3>1, <3>2 DEF Sent
  <2>4. QED
    BY <2>1, <2>3
<1>10. \A s \in Queues, i \in Items : Waiting(s, i)' <=> Waiting(s, i)
  BY <1>2 DEF Waiting, laneVars
<1>11. r \in At(from)
  BY <1>4, <1>9, KindsOfPlace
<1>12. r \in Requests /\ answers[r] = <<>> /\ p0 = PageOf[r]
  BY <1>4, <1>9, <1>11 DEF CleanInv, Unanswered, RightPage
<1>13. answers'[r] = <<PageOf[r]>> /\ \A s \in Requests \ {r} : answers'[s] = answers[s]
  <2>1. Append(<<>>, p0) = <<p0>>
    OBVIOUS
  <2>2. QED
    BY <1>2, <1>12, <2>1 DEF TypeInv, TypeOK
<1>14. RightPage' /\ Answered'
  BY <1>2, <1>9, <1>10, <1>13 DEF CleanInv, RightPage, Answered
<1>15. \A x \in Places : At(x)' \subseteq At(x)
  BY <1>2, <1>9, <1>10, KindsOfPlace, KindsOfPlaceNext DEF rxVars
<1>16. \A x \in Places : r \notin At(x)'
  <2>1. ASSUME NEW x \in Places, r \in At(x)'
        PROVE  FALSE
    <3>1. x = from
      BY <1>4, <1>11, <1>15, <2>1 DEF OnePlace, CleanInv
    <3>2. x.kind = "buffer" /\ x.of[1] = p0 /\ x.of[2] = b0
      BY <1>4, <3>1
    <3>3. QED
      BY <1>9, <2>1, <3>2, KindsOfPlace, KindsOfPlaceNext
  <2>2. QED
    BY <2>1
<1> HIDE DEF from, r
<1>17. OnePlace'
  BY <1>15 DEF OnePlace, CleanInv
<1>18. Unanswered'
  BY <1>13, <1>15, <1>16 DEF Unanswered, CleanInv
<1>19. QED
  BY <1>5, <1>6, <1>8, <1>14, <1>17, <1>18 DEF CleanInv
-----------------------------------------------------------------------------
(* Theorems.                                                               *)

LEMMA InitCleanInv == Init => CleanInv
<1>1. SUFFICES ASSUME Init PROVE CleanInv
  OBVIOUS
<1>2. /\ \A q \in Queues : txq[q] = <<>> /\ DOMAIN txq[q] = {}
      /\ \A l \in LaneIds : lane[l] = "poll"
      /\ \A q \in Queues, i \in Items : status[q][i] = "FREE"
      /\ \A t \in RxThreads : rx[t] = "next" /\ todo[t] = {}
      /\ fresh = Requests /\ \A r \in Requests : answers[r] = <<>>
  BY <1>1 DEF Init
<1>3. (\A t \in RxThreads : Holding(t)) /\ (\A l \in LaneIds : Serving(l)) /\ BuffersOnce
  BY <1>2 DEF Holding, Serving, Busy, BuffersOnce, Filling
<1>4. /\ \A q \in Queues, i \in Items : ~Waiting(q, i)
      /\ \A p \in Pages, b \in Bufs : ~Sent(p, b)
  BY <1>2 DEF Waiting, Sent
<1>5. \A x \in Places : At(x) = {} \/ (At(x) = Requests /\ x.kind = "fresh")
  BY <1>2, <1>4, KindsOfPlace
<1>6. OnePlace
  BY <1>5, SamePlace DEF OnePlace
<1>7. Unanswered /\ RightPage /\ Answered
  BY <1>2, <1>4, <1>5 DEF Unanswered, RightPage, Answered
<1>8. QED
  BY <1>3, <1>6, <1>7 DEF CleanInv

LEMMA StopKeepsClean == CleanInv /\ (StopKernels \/ UNCHANGED vars) => CleanInv'
<1>1. SUFFICES ASSUME CleanInv, StopKernels \/ UNCHANGED vars PROVE CleanInv'
  OBVIOUS
<1>2. UNCHANGED <<rxVars, status, info, laneVars, buffers, txq, answers>>
  BY <1>1 DEF StopKernels, vars, serverVars
<1>3. \A t \in RxThreads : Holding(t)'
  BY <1>1, <1>2, HoldingUntouched DEF CleanInv
<1>4. \A l \in LaneIds : Serving(l)'
  BY <1>1, <1>2, ServingStands DEF CleanInv, laneVars
<1>5. BuffersOnce' /\ \A p \in Pages, b \in Bufs : Sent(p, b)' <=> Sent(p, b)
  BY <1>1, <1>2, BuffersStand DEF CleanInv, laneVars
<1>6. OnePlace' /\ Unanswered' /\ RightPage' /\ Answered'
  <2>1. \A q \in Queues, i \in Items : Waiting(q, i)' => Waiting(q, i)
    BY <1>2 DEF Waiting, laneVars
  <2>2. QED
    BY <1>1, <1>2, <1>5, <2>1, PlacesStand DEF rxVars
<1>7. QED
  BY <1>3, <1>4, <1>5, <1>6 DEF CleanInv

LEMMA NextServerInv == ServerInv /\ [Next]_vars => ServerInv'
<1>1. SUFFICES ASSUME ServerInv, [Next]_vars, ~lapped', ~reused' PROVE CleanInv'
  BY NextTypeInv DEF ServerInv
<1>2. TypeInv
  BY <1>1 DEF ServerInv
<1>3. (lapped => lapped') /\ (reused => reused')
  <2>1. \A q \in Queues : Receive(q) \/ Transmit(q) => UNCHANGED <<lapped, reused>>
    BY DEF Receive, Transmit, serverVars
  <2>2. \A t \in RxThreads : RxStep(t) => (lapped => lapped') /\ UNCHANGED reused
    <3>1. \A t \in RxThreads : TakeTicket(t) => (lapped => lapped') /\ UNCHANGED reused
      BY Zenon DEF TakeTicket, serverVars
    <3>2. \A t \in RxThreads : TicketFails(t) \/ WriteClient(t) \/ WritePage(t) \/ SetReady(t) =>
            UNCHANGED <<lapped, reused>>
      BY DEF TicketFails, WriteClient, WritePage, SetReady, serverVars
    <3>3. QED
      BY <3>1, <3>2 DEF RxStep
  <2>3. \A l \in LaneIds : Serve(l) \/ StatusFails(l) \/ LaneFails(l) =>
          UNCHANGED lapped /\ (reused => reused')
    <3>1. \A l \in LaneIds : TakeRequest(l) => UNCHANGED lapped /\ (reused => reused')
      BY Zenon DEF TakeRequest
    <3>2. ASSUME NEW l \in LaneIds, FillResponse(l) \/ Send(l) \/ SetDone(l)
                                    \/ LaneExit(l) \/ StatusFails(l) \/ LaneFails(l)
          PROVE  UNCHANGED <<lapped, reused>>
      BY <3>2 DEF FillResponse, Send, SetDone, LaneExit, StatusFails, LaneFails
    <3>3. QED
      BY <3>1, <3>2 DEF Serve
  <2>4. StopKernels \/ UNCHANGED vars => UNCHANGED <<lapped, reused>>
    BY DEF StopKernels, vars, serverVars
  <2>5. QED
    BY <1>1, <2>1, <2>2, <2>3, <2>4 DEF Next
<1>4. CleanInv
  BY <1>1, <1>3 DEF ServerInv
<1>5. ASSUME NEW q \in Queues, Receive(q) \/ Transmit(q)
      PROVE  CleanInv'
  BY <1>2, <1>4, <1>5, ReceiveKeepsClean, TransmitKeepsClean
<1>6. ASSUME NEW t \in RxThreads, RxStep(t)
      PROVE  CleanInv'
  BY <1>1, <1>2, <1>4, <1>6, TicketKeepsClean, WriteKeepsClean, ReadyKeepsClean DEF RxStep
<1>7. ASSUME NEW l \in LaneIds, Serve(l) \/ StatusFails(l) \/ LaneFails(l)
      PROVE  CleanInv'
  BY <1>1, <1>2, <1>4, <1>7, TakeRequestKeepsClean, FillKeepsClean, SendKeepsClean, DoneKeepsClean,
     LeaveKeepsClean DEF Serve
<1>8. QED
  BY <1>1, <1>4, <1>5, <1>6, <1>7, StopKeepsClean DEF Next

LEMMA ServerInvariant == Spec => []ServerInv
<1>1. Init => ServerInv
  BY InitTypeInv, InitCleanInv DEF ServerInv
<1>2. ServerInv /\ [Next]_vars => ServerInv'
  BY NextServerInv
<1>3. QED
  BY <1>1, <1>2, PTL DEF Spec

\* Every variable of the kernels keeps its type; the indices of the items and
\* the buffers stay inside the arrays of SEMAPHORES_PER_QUEUE and TX_BUF_NUM.
THEOREM TypeCorrect == Spec => []TypeOK
<1>1. ServerInv => TypeOK
  BY DEF ServerInv, TypeInv
<1>2. QED
  BY <1>1, ServerInvariant, PTL

\* The strides of http_server.cu: whatever the size of the warp, if it divides
\* the number of items and of buffers, no two lanes of a warp are ever at the
\* same item or the same buffer.
THEOREM LanesAreDisjoint == Spec => []LanesDisjoint
<1>1. TypeInv => LanesDisjoint
  <2>1. SUFFICES ASSUME LanesOK, NEW q \in Queues, NEW k \in Lanes, NEW m \in Lanes, k # m
                 PROVE  /\ laneItem[<<q, k>>] # laneItem[<<q, m>>]
                        /\ laneBuf[<<q, k>>] # laneBuf[<<q, m>>]
    BY DEF LanesDisjoint, TypeInv
  <2>2. /\ laneItem[<<q, k>>] % WarpSize = k /\ laneItem[<<q, m>>] % WarpSize = m
        /\ laneBuf[<<q, k>>] % WarpSize = k /\ laneBuf[<<q, m>>] % WarpSize = m
    BY <2>1, LaneIdOf DEF LanesOK
  <2>3. QED
    BY <2>1, <2>2
<1>2. ServerInv => LanesDisjoint
  BY <1>1 DEF ServerInv
<1>3. QED
  BY <1>2, ServerInvariant, PTL

\* With any number of queues that share the response buffers, receive threads
\* and lanes: until an item or a buffer in use is taken again, each request is
\* answered at most once and with the page it asked for.
THEOREM RightAnswers == Spec => []AnswersRight
<1>1. ServerInv => AnswersRight
  BY DEF ServerInv, CleanInv, Answered, AnswersRight
<1>2. QED
  BY <1>1, ServerInvariant, PTL
=============================================================================
