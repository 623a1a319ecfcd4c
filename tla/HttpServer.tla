----------------------------- MODULE HttpServer -----------------------------
(***************************************************************************)
(* The HTTP server on the GPU.  The threads of the receive kernel that     *)
(* meet a GET take a ticket for an item of the queue's HTTP semaphore,     *)
(* describe the request in it and set it READY (receive_tcp.cu).  In the   *)
(* server kernel one warp serves each queue: lane l polls the items l,     *)
(* l + WarpSize, ..., copies the client's address into a response buffer   *)
(* of the requested page, hands the buffer to the Eth Txq and sets the     *)
(* item DONE (http_server.cu).  The NIC transmits the buffer later.        *)
(*                                                                         *)
(* Neither side checks that what it is about to overwrite is free: the     *)
(* receive kernel the item, the server kernel the response buffer.  The    *)
(* histories lapped and reused record when that happens.                   *)
(*                                                                         *)
(* sem_http_idx is kept modulo Nums (in the code it is an int that is      *)
(* never reset).                                                           *)
(***************************************************************************)
EXTENDS Integers, Sequences, FiniteSets

CONSTANTS
  Queues,     \* TCP receive queues; each has a semaphore, a warp, an Eth Txq
  Threads,    \* threads of the receive kernel's block of a queue
  WarpSize,   \* lanes of the server kernel's warp of a queue
  Nums,       \* items of an HTTP semaphore (SEMAPHORES_PER_QUEUE)
  BufNum,     \* response buffers of each page (TX_BUF_NUM)
  Requests,   \* the GET packets that reach the application
  Pages,      \* index, contacts, not found
  PageOf,     \* the page a request asks for
  NoRequest

ASSUME PageAssumption == /\ Pages # {} /\ PageOf \in [Requests -> Pages]
                         /\ NoRequest \notin Requests
ASSUME LaneAssumption == /\ WarpSize \in Nat \ {0}
                         /\ Nums \in Nat \ {0} /\ Nums % WarpSize = 0
                         /\ BufNum \in Nat \ {0} /\ BufNum % WarpSize = 0

VARIABLES
  exit_cond,  \* the kernels' exit flag
  fresh,      \* requests that have not arrived yet
  todo,       \* per receive thread: requests of the burst it has to handle
  rx,         \* what a receive thread is doing
  rxItem,     \* idx_tmp: the item it holds a ticket for
  ticket,     \* sem_http_idx of the receive block
  status,     \* per queue and item
  info,       \* per queue and item: struct info_http
  lane,       \* what a lane is doing
  laneItem,   \* sem_http_idx of the lane
  laneBuf,    \* doca_gpu_buf_idx of the lane
  lanePage,   \* the page it is answering with
  buffers,    \* per page and buffer: the client in the response's header
  txq,        \* per queue: the buffers the NIC has still to transmit
  answers,    \* history: the pages that went out to the sender of a request
  lapped,     \* history: an item was taken that was not free
  reused      \* history: a buffer was taken that was not transmitted

rxVars   == <<fresh, todo, rx, rxItem, ticket>>
laneVars == <<lane, laneItem, laneBuf, lanePage>>
vars == <<exit_cond, rxVars, status, info, laneVars, buffers, txq, answers,
          lapped, reused>>

Items   == 0..Nums - 1
Lanes   == 0..WarpSize - 1
Bufs    == 0..BufNum - 1
RxThreads == Queues \X Threads
LaneIds   == Queues \X Lanes

TypeOK ==
  /\ exit_cond \in BOOLEAN
  /\ fresh \subseteq Requests
  /\ todo \in [RxThreads -> SUBSET Requests]
  /\ rx \in [RxThreads -> {"next", "client", "page", "ready"}]
  /\ rxItem \in [RxThreads -> Items]
  /\ ticket \in [Queues -> Items]
  /\ status \in [Queues -> [Items -> {"FREE", "READY", "DONE"}]]
  /\ info \in [Queues -> [Items -> [who : Requests \cup {NoRequest}, page : Pages]]]
  /\ lane \in [LaneIds -> {"poll", "fill", "send", "done", "exited"}]
  /\ laneItem \in [LaneIds -> Items]
  /\ laneBuf \in [LaneIds -> Bufs]
  /\ lanePage \in [LaneIds -> Pages]
  /\ buffers \in [Pages -> [Bufs -> Requests \cup {NoRequest}]]
  /\ txq \in [Queues -> Seq(Pages \X Bufs)]
  /\ answers \in [Requests -> Seq(Pages)]
  /\ lapped \in BOOLEAN /\ reused \in BOOLEAN

AnyPage == CHOOSE p \in Pages : TRUE

Init ==
  /\ exit_cond = FALSE
  /\ fresh  = Requests
  /\ todo   = [t \in RxThreads |-> {}]
  /\ rx     = [t \in RxThreads |-> "next"]
  /\ rxItem = [t \in RxThreads |-> 0]
  /\ ticket = [q \in Queues |-> 0]
  /\ status = [q \in Queues |-> [i \in Items |-> "FREE"]]
  /\ info   = [q \in Queues |-> [i \in Items |-> [who |-> NoRequest, page |-> AnyPage]]]
  /\ lane     = [l \in LaneIds |-> "poll"]
  /\ laneItem = [l \in LaneIds |-> l[2]]
  /\ laneBuf  = [l \in LaneIds |-> l[2]]
  /\ lanePage = [l \in LaneIds |-> AnyPage]
  /\ buffers  = [p \in Pages |-> [b \in Bufs |-> NoRequest]]
  /\ txq      = [q \in Queues |-> <<>>]
  /\ answers  = [r \in Requests |-> <<>>]
  /\ lapped = FALSE /\ reused = FALSE

-----------------------------------------------------------------------------
(* The receive kernel, as far as it serves GETs.                           *)

serverVars == <<laneVars, buffers, txq, answers, reused>>

ThreadsOf(q) == {q} \X Threads

\* A burst reaches the block of a queue; its requests fall on the threads.
\* The barriers of the loop let no thread receive before all are done.
Receive(q) ==
  /\ ~exit_cond
  /\ \A t \in ThreadsOf(q) : rx[t] = "next" /\ todo[t] = {}
  /\ \E burst \in SUBSET fresh \ {{}} : \E turn \in [burst -> Threads] :
       /\ fresh' = fresh \ burst
       /\ todo' = [t \in RxThreads |->
                     IF t[1] = q THEN {r \in burst : turn[r] = t[2]} ELSE todo[t]]
  /\ UNCHANGED <<exit_cond, rx, rxItem, ticket, status, info, lapped, serverVars>>

\* The request at hand.
Current(t) == CHOOSE r \in todo[t] : TRUE

\* An item is in use when it is READY, or a thread or a lane works on it.
InUse(q, i) ==
  \/ status[q][i] = "READY"
  \/ \E t \in ThreadsOf(q) : rx[t] \in {"client", "page", "ready"} /\ rxItem[t] = i
  \/ \E k \in Lanes : lane[<<q, k>>] \in {"fill", "send", "done"} /\ laneItem[<<q, k>>] = i

\* atomicAdd on sem_http_idx, and the address of the item.
TakeTicket(t) ==
  LET q == t[1]
  IN  /\ rx[t] = "next" /\ todo[t] # {}
      /\ rxItem' = [rxItem EXCEPT ![t] = ticket[q]]
      /\ ticket' = [ticket EXCEPT ![q] = (@ + 1) % Nums]
      /\ lapped' = (lapped \/ InUse(q, ticket[q]))
      /\ rx' = [rx EXCEPT ![t] = "client"]
      /\ UNCHANGED <<exit_cond, fresh, todo, status, info, serverVars>>

\* The address of the item cannot be had: the thread leaves the packet loop,
\* with the ticket taken, and sets exit_cond.
TicketFails(t) ==
  LET q == t[1]
  IN  /\ rx[t] = "next" /\ todo[t] # {}
      /\ ticket' = [ticket EXCEPT ![q] = (@ + 1) % Nums]
      /\ exit_cond' = TRUE
      /\ todo' = [todo EXCEPT ![t] = {}]
      /\ UNCHANGED <<fresh, rx, rxItem, status, info, lapped, serverVars>>

\* Mutant: the item is READY before the page is written.
WriteClientReady(t) ==
  /\ rx[t] = "client"
  /\ info' = [info EXCEPT ![t[1]][rxItem[t]].who = Current(t)]
  /\ status' = [status EXCEPT ![t[1]][rxItem[t]] = "READY"]
  /\ rx' = [rx EXCEPT ![t] = "page"]
  /\ UNCHANGED <<exit_cond, fresh, todo, rxItem, ticket, lapped, serverVars>>

\* report_http_info: addresses, ports and sequence numbers.
WriteClient(t) ==
  /\ rx[t] = "client"
  /\ info' = [info EXCEPT ![t[1]][rxItem[t]].who = Current(t)]
  /\ rx' = [rx EXCEPT ![t] = "page"]
  /\ UNCHANGED <<exit_cond, fresh, todo, rxItem, ticket, status, lapped, serverVars>>

\* get_http_page_type; __threadfence follows.
WritePage(t) ==
  /\ rx[t] = "page"
  /\ info' = [info EXCEPT ![t[1]][rxItem[t]].page = PageOf[Current(t)]]
  /\ rx' = [rx EXCEPT ![t] = "ready"]
  /\ UNCHANGED <<exit_cond, fresh, todo, rxItem, ticket, status, lapped, serverVars>>

SetReady(t) ==
  /\ rx[t] = "ready"
  /\ status' = [status EXCEPT ![t[1]][rxItem[t]] = "READY"]
  /\ todo' = [todo EXCEPT ![t] = @ \ {Current(t)}]
  /\ rx' = [rx EXCEPT ![t] = "next"]
  /\ UNCHANGED <<exit_cond, fresh, rxItem, ticket, info, lapped, serverVars>>

-----------------------------------------------------------------------------
(* The server kernel: lane l = <<queue, lane_id>>.                         *)

LaneGoto(l, step) == lane' = [lane EXCEPT ![l] = step]

LaneExit(l) ==
  /\ lane[l] = "poll" /\ exit_cond
  /\ LaneGoto(l, "exited")
  /\ UNCHANGED <<exit_cond, rxVars, status, info, laneItem, laneBuf, lanePage,
                 buffers, txq, answers, lapped, reused>>

\* The status cannot be read: every lane leaves its loop, only lane 0 tells.
StatusFails(l) ==
  /\ lane[l] = "poll" /\ ~exit_cond
  /\ exit_cond' = (l[2] = 0)
  /\ LaneGoto(l, "exited")
  /\ UNCHANGED <<rxVars, status, info, laneItem, laneBuf, lanePage, buffers,
                 txq, answers, lapped, reused>>

\* A buffer is pending while the NIC or another lane uses it.
Pending(p, b) ==
  \/ \E q \in Queues : \E n \in DOMAIN txq[q] : txq[q][n] = <<p, b>>
  \/ \E k \in LaneIds : lane[k] \in {"fill", "send"} /\ lanePage[k] = p /\ laneBuf[k] = b

\* The item is READY: read the page and take the next buffer of that page.
TakeRequest(l) ==
  LET p == info[l[1]][laneItem[l]].page
  IN  /\ lane[l] = "poll" /\ ~exit_cond
      /\ status[l[1]][laneItem[l]] = "READY"
      /\ lanePage' = [lanePage EXCEPT ![l] = p]
      /\ reused' = (reused \/ Pending(p, laneBuf[l]))
      /\ LaneGoto(l, "fill")
      /\ UNCHANGED <<exit_cond, rxVars, status, info, laneItem, laneBuf,
                     buffers, txq, answers, lapped>>

\* The address of the item cannot be had, or the status cannot be set.
LaneFails(l) ==
  /\ \/ lane[l] = "poll" /\ ~exit_cond /\ status[l[1]][laneItem[l]] = "READY"
     \/ lane[l] = "done"
  /\ exit_cond' = TRUE
  /\ LaneGoto(l, "exited")
  /\ UNCHANGED <<rxVars, status, info, laneItem, laneBuf, lanePage, buffers,
                 txq, answers, lapped, reused>>

\* The header of the response is made from the item.
FillResponse(l) ==
  /\ lane[l] = "fill"
  /\ buffers' = [buffers EXCEPT ![lanePage[l]][laneBuf[l]] =
                   info[l[1]][laneItem[l]].who]
  /\ LaneGoto(l, "send")
  /\ UNCHANGED <<exit_cond, rxVars, status, info, laneItem, laneBuf, lanePage,
                 txq, answers, lapped, reused>>

\* doca_gpu_dev_eth_txq_send.
Send(l) ==
  /\ lane[l] = "send"
  /\ txq' = [txq EXCEPT ![l[1]] = Append(@, <<lanePage[l], laneBuf[l]>>)]
  /\ LaneGoto(l, "done")
  /\ UNCHANGED <<exit_cond, rxVars, status, info, laneItem, laneBuf, lanePage,
                 buffers, answers, lapped, reused>>

\* Mutant: a lane stays at its item.
SetDoneStays(l) ==
  /\ lane[l] = "done"
  /\ status' = [status EXCEPT ![l[1]][laneItem[l]] = "DONE"]
  /\ laneBuf' = [laneBuf EXCEPT ![l] = (@ + WarpSize) % BufNum]
  /\ LaneGoto(l, "poll")
  /\ UNCHANGED <<exit_cond, rxVars, info, laneItem, lanePage, buffers, txq, answers,
                 lapped, reused>>

\* Mutant: the buffer index does not wrap around.
SetDoneNoWrap(l) ==
  /\ lane[l] = "done"
  /\ status' = [status EXCEPT ![l[1]][laneItem[l]] = "DONE"]
  /\ laneItem' = [laneItem EXCEPT ![l] = (@ + WarpSize) % Nums]
  /\ laneBuf' = [laneBuf EXCEPT ![l] = @ + WarpSize]
  /\ LaneGoto(l, "poll")
  /\ UNCHANGED <<exit_cond, rxVars, info, lanePage, buffers, txq, answers,
                 lapped, reused>>

\* Mutant: a lane goes on to the next item instead of its own next item.
SetDoneNextItem(l) ==
  /\ lane[l] = "done"
  /\ status' = [status EXCEPT ![l[1]][laneItem[l]] = "DONE"]
  /\ laneItem' = [laneItem EXCEPT ![l] = (@ + 1) % Nums]
  /\ laneBuf' = [laneBuf EXCEPT ![l] = (@ + 1) % BufNum]
  /\ LaneGoto(l, "poll")
  /\ UNCHANGED <<exit_cond, rxVars, info, lanePage, buffers, txq, answers,
                 lapped, reused>>

SetDone(l) ==
  /\ lane[l] = "done"
  /\ status' = [status EXCEPT ![l[1]][laneItem[l]] = "DONE"]
  /\ laneItem' = [laneItem EXCEPT ![l] = (@ + WarpSize) % Nums]
  /\ laneBuf' = [laneBuf EXCEPT ![l] = (@ + WarpSize) % BufNum]
  /\ LaneGoto(l, "poll")
  /\ UNCHANGED <<exit_cond, rxVars, info, lanePage, buffers, txq, answers,
                 lapped, reused>>

-----------------------------------------------------------------------------
\* The NIC transmits the oldest buffer of a queue as it is by now.
Transmit(q) ==
  /\ txq[q] # <<>>
  /\ LET p == Head(txq[q])[1]
         r == buffers[p][Head(txq[q])[2]]
     IN  answers' = [answers EXCEPT ![r] = Append(@, p)]
  /\ txq' = [txq EXCEPT ![q] = Tail(@)]
  /\ UNCHANGED <<exit_cond, rxVars, status, info, laneVars, buffers, lapped, reused>>

\* main, or another kernel, stops the kernels.
StopKernels ==
  /\ ~exit_cond
  /\ exit_cond' = TRUE
  /\ UNCHANGED <<rxVars, status, info, lapped, serverVars>>

RxStep(t) ==
  \/ TakeTicket(t) \/ TicketFails(t)
  \/ WriteClient(t) \/ WritePage(t) \/ SetReady(t)

Serve(l) == TakeRequest(l) \/ FillResponse(l) \/ Send(l) \/ SetDone(l) \/ LaneExit(l)

Next == \/ \E q \in Queues : Receive(q) \/ Transmit(q)
        \/ \E t \in RxThreads : RxStep(t)
        \/ \E l \in LaneIds : Serve(l) \/ StatusFails(l) \/ LaneFails(l)
        \/ StopKernels

Spec == Init /\ [][Next]_vars

\* The lanes spin on the GPU, a receive thread finishes the items it has taken,
\* and the NIC works off its queue.  Nothing obliges a request to arrive.
FairSpec == /\ Spec
            /\ \A t \in RxThreads : WF_vars(RxStep(t))
            /\ \A l \in LaneIds : WF_vars(Serve(l))
            /\ \A q \in Queues : WF_vars(Transmit(q))
-----------------------------------------------------------------------------
(* Properties.                                                             *)

(* While no item and no buffer was overwritten, the sender of a request is *)
(* answered at most once, and with the page it asked for: no lane sees a   *)
(* half-written item, no two lanes answer the same request.                *)
AnswersRight ==
  ~lapped /\ ~reused => \A r \in Requests : answers[r] \in {<<>>, <<PageOf[r]>>}

(* The lanes of a warp share the items and the buffers out among them: lane *)
(* l only ever works on those equal to l modulo the warp's size, so that no *)
(* lock is needed between the lanes of one warp.                            *)
LanesDisjoint ==
  \A q \in Queues : \A k, m \in Lanes : k # m =>
    laneItem[<<q, k>>] # laneItem[<<q, m>>] /\ laneBuf[<<q, k>>] # laneBuf[<<q, m>>]

(* Every request that was set READY is answered, unless an item or a       *)
(* buffer was overwritten, the kernels were stopped, or its lane left      *)
(* after a failure.                                                        *)
ReadyIsAnswered ==
  \A q \in Queues : \A i \in Items : \A r \in Requests :
    status[q][i] = "READY" /\ info[q][i].who = r ~>
      \/ answers[r] # <<>>
      \/ lapped \/ reused \/ exit_cond
      \/ lane[<<q, i % WarpSize>>] = "exited"

(* defines.h:88 says that each thread of the server kernel "has it's own   *)
(* subset of 32 buffers": no two lanes ever write the same response buffer *)
(* at the same time.                                                       *)
OwnBuffers ==
  \A l, m \in LaneIds : l # m =>
    ~ /\ lane[l] \in {"fill", "send"} /\ lane[m] \in {"fill", "send"}
      /\ lanePage[l] = lanePage[m] /\ laneBuf[l] = laneBuf[m]
=============================================================================
