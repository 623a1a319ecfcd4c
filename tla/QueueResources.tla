--------------------------- MODULE QueueResources ---------------------------
(***************************************************************************)
(* What main sets up before the kernels run and destroys at the end: the   *)
(* device, the GPU, DOCA Flow and the UDP, TCP, ICMP, HTTP and CPU RSS     *)
(* queues (main; config_queues/device.c, flow.c, *_queues.c, http_txbuf.c; *)
(* the second half of tcp_cpu_rss_func.c).  Each function is a sequence of *)
(* calls to DOCA, any of which may fail; what happens then is written      *)
(* beside the call: which calls undo it so far, and who goes on.           *)
(*                                                                         *)
(* Neighbouring calls that change nothing and fail the same way are one    *)
(* call.  The duplicated file descriptor of a DMABuf is left out: the code *)
(* never closes it.  To AppLifecycle all this is one step of main.         *)
(***************************************************************************)
EXTENDS Naturals, Sequences, SequencesExt

CONSTANTS
  Queues,      \* the receive queues of each protocol, queue_num of them
  MaxFailures  \* bound: calls that fail, but for those on a pointer that is NULL

ASSUME FailureAssumption == MaxFailures \in Nat
\* args.c takes no 0 for the number of queues.
ASSUME QueueAssumption == IsFiniteSet(Queues) /\ Queues # {}

VARIABLES
  http_server,  \* the command-line option
  queues,       \* none, creating, failed, undoing, up, destroying, down
  plan,         \* the functions still to run, or turns of their loops: each the
                \* calls it has to make
  obj,          \* per DOCA object: none, made, started, gone
  ptr,          \* per object: the pointer in the application's structs is set
  dangling,     \* history: a failed call left a pointer to what it released
  stale,        \* history: objects released when they were gone already
  abandoned,    \* history: a failed release was ignored, the pointer dropped
  destroyFailed,\* history: a call failed while queues were undone or destroyed
  failures      \* history: how many calls have failed

vars == <<http_server, queues, plan, obj, ptr, dangling, stale, abandoned,
          destroyFailed, failures>>
failureVars == <<destroyFailed, failures>>
objectVars == <<obj, ptr, dangling, stale, abandoned>>

Pages == {"index", "contacts", "not_found"}
App    == <<"app", "0">>
Owners == ({"udp", "tcp", "cpu"} \X Queues) \cup {<<"icmp", "0">>, App} \cup ({"page"} \X Pages)
KindsOf(owner) ==
  CASE owner = "app"  -> {"dev", "gpu", "flow", "pe"}
    [] owner = "udp"  -> {"rxq", "rxctx", "mmap", "mem", "sem"}
    [] owner = "tcp"  -> {"rxq", "rxctx", "mmap", "mem", "sem", "sem_http", "txq", "txctx"}
    [] owner = "icmp" -> {"rxq", "rxctx", "mmap", "mem", "txq", "txctx"}
    [] owner = "page" -> {"mmap", "mem", "arr"}
    [] owner = "cpu"  -> {"pe", "txq", "pool", "tx_map", "rxq", "rx_map"}
Objects == {o \in Owners \X UNION {KindsOf(w[1]) : w \in Owners} : o[2] \in KindsOf(o[1][1])}

\* A call.  When it fails, the calls of undo are made and then the function
\* returns; otherwise names who goes on:
\*   "udp", "tcp", "icmp"  the function that destroys those queues, then main,
\*                         which gives up
\*   "return"              main, which gives up
\*   "leave"               the caller, as if nothing had happened
\*   "ignore"              the function itself
Call(op, o, undo, otherwise) ==
  [op |-> op, on |-> o, guard |-> FALSE, nulls |-> FALSE, undo |-> undo,
   otherwise |-> otherwise]

TypeOK ==
  /\ http_server \in BOOLEAN
  /\ queues \in {"none", "creating", "failed", "undoing", "up", "destroying", "down"}
  /\ \A i \in DOMAIN plan : plan[i] # <<>> /\ \A j \in DOMAIN plan[i] : plan[i][j].on \in Objects
  /\ obj \in [Objects -> {"none", "made", "started", "gone"}]
  /\ ptr \in [Objects -> BOOLEAN]
  /\ dangling \subseteq Objects /\ stale \subseteq Objects /\ abandoned \subseteq Objects
  /\ destroyFailed \in BOOLEAN /\ failures \in 0..MaxFailures

Init ==
  /\ http_server \in BOOLEAN
  /\ queues = "none" /\ plan = <<>>
  /\ obj = [o \in Objects |-> "none"] /\ ptr = [o \in Objects |-> FALSE]
  /\ dangling = {} /\ stale = {} /\ abandoned = {} /\ destroyFailed = FALSE /\ failures = 0

-----------------------------------------------------------------------------
(* The functions that create.  w is the owner of the objects, f the        *)
(* protocol whose queues are destroyed when a call fails.                  *)

\* main itself: init_doca_device, doca_gpu_create, init_doca_flow (the library,
\* then the port) and the progress engine.  It gives up without a release.
CreateApp ==
  LET Make(k) == Call("make", <<App, k>>, <<>>, "return")
  IN  <<<<Make("dev"), Make("gpu"), Make("flow"), Call("set", <<App, "flow">>, <<>>, "return"),
          Make("pe")>>>>

RxQueue(w, f) ==
  << Call("make",  <<w, "rxq">>,   <<>>, "return"),
     Call("set",   <<w, "rxq">>,   <<>>, "return"),
     Call("make",  <<w, "mmap">>,  <<>>, f),
     Call("make",  <<w, "mem">>,   <<>>, f),
     Call("start", <<w, "mmap">>,  <<>>, f),
     Call("make",  <<w, "rxctx">>, <<>>, f),
     Call("start", <<w, "rxctx">>, <<>>, f) >>

Semaphore(w, sem, f) ==
  << Call("make",  <<w, sem>>, <<>>, f),
     Call("start", <<w, sem>>, <<>>, f),
     Call("set",   <<w, sem>>, <<>>, f) >>

SendQueue(w, f) ==
  << Call("make",  <<w, "txq">>,   <<>>, f),
     Call("make",  <<w, "txctx">>, <<>>, f),
     Call("start", <<w, "txctx">>, <<>>, f),
     Call("set",   <<w, "txctx">>, <<>>, f) >>

\* create_tx_buf and prepare_tx_buf.
TxBuf(page) ==
  LET w == <<"page", page>>
  IN  << Call("make",  <<w, "mmap">>, <<>>, "tcp"),
         Call("make",  <<w, "mem">>,  <<>>, "tcp"),
         Call("start", <<w, "mmap">>, <<>>, "tcp"),
         Call("make",  <<w, "arr">>,  <<>>, "tcp"),
         Call("start", <<w, "arr">>,  <<>>, "tcp"),
         Call("set",   <<w, "arr">>,  <<>>, "tcp") >>

\* Mutant: the pointer is not reset.
DropKeeps(o) == Call("release", o, <<>>, "ignore")

\* A release in the error path of a function: its result is ignored, the
\* pointer is set to NULL.
Drop(o) == [Call("release", o, <<>>, "ignore") EXCEPT !.nulls = TRUE]

\* create_txq_cpu_rss.  A map is an mmap with its memory; create_cpu_mmap and
\* create_txq_cpu_rss_buf_pool ("nest") clean up after themselves.  When the
\* context cannot be had, result still holds DOCA_SUCCESS: the caller goes on.
CpuTxq(q) ==
  LET w    == <<"cpu", q>>
      Map  == <<Drop(<<w, "tx_map">>)>>
      Pool == <<Drop(<<w, "pool">>)>> \o Map
      Txq  == <<Drop(<<w, "txq">>)>> \o Pool
  IN  << Call("nest",  <<w, "tx_map">>, <<>>, "tcp"),
         Call("nest",  <<w, "pool">>,   Map,  "tcp"),
         Call("make",  <<w, "txq">>,    Pool, "tcp"),
         Call("set",   <<w, "txq">>,    Txq,  "tcp"),
         Call("set",   <<w, "txq">>,    Txq,  "leave"),
         Call("set",   <<w, "txq">>,    Txq,  "tcp"),
         Call("start", <<w, "txq">>,    Txq,  "tcp"),
         Call("set",   <<w, "txq">>,    Txq,  "tcp") >>

\* create_rxq_cpu_rss.  That the queue number could not be set is overlooked.
CpuRxq(q) ==
  LET w   == <<"cpu", q>>
      Map == <<Drop(<<w, "rx_map">>)>>
      Rxq == <<Drop(<<w, "rxq">>)>> \o Map
  IN  << Call("nest",  <<w, "rx_map">>, <<>>, "tcp"),
         Call("make",  <<w, "rxq">>,    Map,  "tcp"),
         Call("set",   <<w, "rxq">>,    Rxq,  "tcp"),
         Call("set",   <<w, "rxq">>,    Rxq,  "leave"),
         Call("set",   <<w, "rxq">>,    Rxq,  "tcp"),
         Call("set",   <<w, "rxq">>,    <<>>, "ignore"),
         Call("start", <<w, "rxq">>,    Rxq,  "tcp") >>

\* The loop over the queues: body gives the same number of calls, or functions,
\* for each.
Order == SetToSeq(Queues)
ForEach(body) ==
  LET m == Len(body[Order[1]])
  IN  [k \in 1..Len(Order) * m |-> body[Order[(k - 1) \div m + 1]][((k - 1) % m) + 1]]

\* The pipe of a protocol, whose object is left out: only its failure counts.
Pipe(w, otherwise) == <<Call("set", <<w, "rxq">>, <<>>, otherwise)>>

CreateUdp ==
  LET Queue(q) == RxQueue(<<"udp", q>>, "udp") \o Semaphore(<<"udp", q>>, "sem", "udp")
  IN  ForEach([q \in Queues |-> <<Queue(q)>>]) \o <<Pipe(<<"udp", Last(Order)>>, "return")>>

CreateTcp ==
  LET Queue(q) ==
        LET w == <<"tcp", q>>
        IN  RxQueue(w, "tcp") \o Semaphore(w, "sem", "tcp")
            \o IF http_server THEN Semaphore(w, "sem_http", "tcp") \o SendQueue(w, "tcp") ELSE <<>>
      Pe(q)  == <<Call("make", <<<<"cpu", q>>, "pe">>, <<>>, "tcp")>>
      Cpu(q) == <<Pe(q), CpuTxq(q), CpuRxq(q)>>
  IN  ForEach([q \in Queues |-> <<Queue(q)>>])
      \o (IF http_server
          THEN <<TxBuf("index"), TxBuf("contacts"), TxBuf("not_found")>>
               \o ForEach([q \in Queues |-> Cpu(q)])
          ELSE <<>>)
      \o <<Pipe(<<"tcp", Last(Order)>>, "tcp")>>

CreateIcmp ==
  LET w == <<"icmp", "0">>
  IN  <<RxQueue(w, "icmp") \o SendQueue(w, "icmp"), Pipe(w, "return")>>

-----------------------------------------------------------------------------
(* The functions that destroy.  A call that fails ends them.               *)

\* Mutant: a context that fails to stop is ignored.
StopIgnored(o) == Call("stop", o, <<>>, "ignore")

Stop(o)    == Call("stop", o, <<>>, "leave")
Release(o) == Call("release", o, <<>>, "leave")

\* Only if the pointer is set.
If(c) == [c EXCEPT !.guard = TRUE]

\* Only if the pointer is set, which then becomes NULL.
IfNull(c) == [If(c) EXCEPT !.nulls = TRUE]

DestroyUdp ==
  LET Queue(q) ==
        LET w == <<"udp", q>>
        IN  << If(Stop(<<w, "sem">>)), If(Release(<<w, "sem">>)), Stop(<<w, "rxctx">>),
               Release(<<w, "rxq">>), Release(<<w, "mmap">>), Release(<<w, "mem">>) >>
  IN  ForEach([q \in Queues |-> Queue(q)])

\* Mutant: a semaphore is destroyed, which the ICMP queues do not have.
DestroyIcmpWithSem ==
  LET w == <<"icmp", "0">>
  IN  << If(Stop(<<w, "sem">>)), If(Release(<<w, "sem">>)), Stop(<<w, "rxctx">>),
         Release(<<w, "rxq">>), Release(<<w, "mmap">>), Release(<<w, "mem">>),
         Stop(<<w, "txctx">>), Release(<<w, "txq">>) >>

DestroyIcmp ==
  LET w == <<"icmp", "0">>
  IN  << Stop(<<w, "rxctx">>), Release(<<w, "rxq">>), Release(<<w, "mmap">>),
         Release(<<w, "mem">>), Stop(<<w, "txctx">>), Release(<<w, "txq">>) >>

\* destroy_rxq_cpu_rss.
DestroyCpuRxq(w) ==
  << If(Stop(<<w, "rxq">>)), IfNull(Release(<<w, "rxq">>)), IfNull(Release(<<w, "rx_map">>)) >>

\* destroy_txq_cpu_rss: a Txq that stays busy for a fixed number of polls fails
\* to stop.
DestroyCpuTxq(w) ==
  << If(Stop(<<w, "txq">>)), IfNull(Release(<<w, "txq">>)),
     IfNull(Release(<<w, "pool">>)), IfNull(Release(<<w, "tx_map">>)) >>

\* destroy_pe_cpu_rss is called also when destroy_txq_cpu_rss has failed, and
\* once more when it has not.
DestroyCpu(q) ==
  LET w   == <<"cpu", q>>
      pe  == IfNull(Call("release", <<w, "pe">>, <<>>, "ignore"))
      txq == DestroyCpuTxq(w)
  IN  DestroyCpuRxq(w) \o [i \in DOMAIN txq |-> [txq[i] EXCEPT !.undo = <<pe>>]]
      \o << pe, IfNull(Release(<<w, "pe">>)) >>

\* Mutant: the buffer array is stopped and not destroyed.
DestroyTxBufKeepsArr(page) ==
  LET w == <<"page", page>>
  IN  << Stop(<<w, "mmap">>), Release(<<w, "mmap">>), Release(<<w, "mem">>),
         Stop(<<w, "arr">>) >>

\* destroy_tx_buf.
DestroyTxBuf(page) ==
  LET w == <<"page", page>>
  IN  << Stop(<<w, "mmap">>), Release(<<w, "mmap">>), Release(<<w, "mem">>),
         Stop(<<w, "arr">>), Release(<<w, "arr">>) >>

DestroyTcp ==
  LET Queue(q) ==
        LET w == <<"tcp", q>>
        IN  << If(Stop(<<w, "sem">>)), If(Release(<<w, "sem">>)), If(Stop(<<w, "rxctx">>)),
               If(Stop(<<w, "mmap">>)), If(Release(<<w, "mmap">>)), If(Release(<<w, "mem">>)),
               If(Release(<<w, "rxq">>)) >>
            \o IF http_server
               THEN DestroyCpu(q)
                    \o << If(Stop(<<w, "sem_http">>)), If(Release(<<w, "sem_http">>)),
                          If(Stop(<<w, "txctx">>)), If(Release(<<w, "txq">>)) >>
               ELSE <<>>
  IN  ForEach([q \in Queues |-> Queue(q)])
      \o IF http_server
         THEN DestroyTxBuf("index") \o DestroyTxBuf("contacts") \o DestroyTxBuf("not_found")
         ELSE <<>>

\* The first half of destroy_flow_queue: the port is stopped, which may fail
\* unnoticed, and DOCA Flow destroyed, which has no result.
DestroyFlow == << Call("end", <<App, "flow">>, <<>>, "ignore") >>

\* The end of main.
DestroyApp == << Release(<<App, "gpu">>), Release(<<App, "pe">>), Release(<<App, "dev">>) >>

DestroyOf(f) == CASE f = "udp" -> DestroyUdp [] f = "tcp" -> DestroyTcp [] f = "icmp" -> DestroyIcmp

-----------------------------------------------------------------------------
(* The calls, one by one.                                                  *)

\* main opens the devices, calls create_udp_queues, create_tcp_queues and
\* create_icmp_queues and, when all is created, create_root_pipe.
BeginCreate ==
  /\ queues = "none"
  /\ queues' = "creating" /\ plan' = CreateApp \o CreateUdp \o CreateTcp \o CreateIcmp
  /\ UNCHANGED <<http_server, objectVars, failureVars>>

Created ==
  /\ queues = "creating" /\ plan = <<>>
  /\ queues' \in {"up", "failed"}
  /\ UNCHANGED <<http_server, plan, objectVars, failureVars>>

\* Mutant: main destroys the devices first.
BeginDestroyApp ==
  /\ queues = "up"
  /\ queues' = "destroying" /\ plan' = <<DestroyFlow, DestroyApp, DestroyIcmp, DestroyUdp, DestroyTcp>>
  /\ UNCHANGED <<http_server, objectVars, failureVars>>

\* destroy_flow_queue ignores what the three functions return.
BeginDestroy ==
  /\ queues = "up"
  /\ queues' = "destroying" /\ plan' = <<DestroyFlow, DestroyIcmp, DestroyUdp, DestroyTcp, DestroyApp>>
  /\ UNCHANGED <<http_server, objectVars, failureVars>>

Destroyed ==
  /\ queues = "destroying" /\ plan = <<>>
  /\ queues' = "down"
  /\ UNCHANGED <<http_server, plan, objectVars, failureVars>>

\* A function that has no call left is done.
Put(calls, functions) == IF calls = <<>> THEN functions ELSE <<calls>> \o functions
Current == Head(Head(plan))
GoOn == plan' = Put(Tail(Head(plan)), Tail(plan))

\* The call is made: it has no guard, or the pointer is set.
Called(ops) == plan # <<>> /\ Current.op \in ops /\ (Current.guard => ptr[Current.on])

MakeObject ==
  /\ Called({"make", "nest"})
  /\ obj' = [obj EXCEPT ![Current.on] = "made"]
  /\ ptr' = [ptr EXCEPT ![Current.on] = TRUE]
  /\ GoOn
  /\ UNCHANGED <<http_server, queues, dangling, stale, abandoned, failureVars>>

SetObject ==
  /\ Called({"set"})
  /\ GoOn
  /\ UNCHANGED <<http_server, queues, objectVars, failureVars>>

StartObject ==
  /\ Called({"start"})
  /\ obj' = [obj EXCEPT ![Current.on] = "started"]
  /\ GoOn
  /\ UNCHANGED <<http_server, queues, ptr, dangling, stale, abandoned, failureVars>>

StopObject ==
  /\ Called({"stop"}) /\ ptr[Current.on]
  /\ obj' = [obj EXCEPT ![Current.on] = IF @ = "started" THEN "made" ELSE @]
  /\ GoOn
  /\ UNCHANGED <<http_server, queues, ptr, dangling, stale, abandoned, failureVars>>

ReleaseObject ==
  /\ Called({"release", "end"}) /\ ptr[Current.on]
  /\ obj' = [obj EXCEPT ![Current.on] = "gone"]
  /\ ptr' = [ptr EXCEPT ![Current.on] = ~Current.nulls]
  /\ stale' = IF obj[Current.on] = "gone" THEN stale \cup {Current.on} ELSE stale
  /\ GoOn
  /\ UNCHANGED <<http_server, queues, dangling, abandoned, failureVars>>

SkipCall ==
  /\ plan # <<>> /\ Current.guard /\ ~ptr[Current.on]
  /\ GoOn
  /\ UNCHANGED <<http_server, queues, objectVars, failureVars>>

\* What a call that fails leaves of its object.
LeftByFailure(c) ==
  \/ UNCHANGED objectVars /\ c.op # "release"
  \/ /\ c.op = "nest"
     /\ obj' = [obj EXCEPT ![c.on] = "gone"]
     /\ ptr' = [ptr EXCEPT ![c.on] = TRUE]
     /\ dangling' = dangling \cup {c.on}
     /\ UNCHANGED <<stale, abandoned>>
  \/ /\ c.op = "release"
     /\ stale' = IF ptr[c.on] /\ obj[c.on] = "gone" THEN stale \cup {c.on} ELSE stale
     /\ IF c.otherwise = "ignore" /\ c.nulls /\ ~c.guard
        THEN /\ abandoned' = abandoned \cup {c.on}
             /\ ptr' = [ptr EXCEPT ![c.on] = FALSE]
        ELSE UNCHANGED <<abandoned, ptr>>
     /\ UNCHANGED <<obj, dangling>>

\* Mutant: the function returns at once where it should jump to its error path.
AfterFailureReturns(c) ==
  CASE c.otherwise = "ignore" -> GoOn /\ UNCHANGED queues
    [] c.otherwise = "leave"  -> plan' = Tail(plan) /\ UNCHANGED queues
    [] c.otherwise = "return" -> plan' = <<>> /\ queues' = "failed"
    [] OTHER -> plan' = <<DestroyOf(c.otherwise)>> /\ queues' = "undoing"

\* Who goes on.
AfterFailure(c) ==
  CASE c.otherwise = "ignore" -> GoOn /\ UNCHANGED queues
    [] c.otherwise = "leave"  -> plan' = Put(c.undo, Tail(plan)) /\ UNCHANGED queues
    [] c.otherwise = "return" -> plan' = Put(c.undo, <<>>) /\ queues' = "failed"
    [] OTHER -> plan' = Put(c.undo, <<DestroyOf(c.otherwise)>>) /\ queues' = "undoing"

\* DOCA refuses to stop or to release NULL.
OnNull(c) == c.op \in {"stop", "release"} /\ ~ptr[c.on]

CallFails ==
  /\ Called({"make", "nest", "set", "start", "stop", "release"})
  /\ IF OnNull(Current) THEN UNCHANGED failures
                        ELSE failures < MaxFailures /\ failures' = failures + 1
  /\ LeftByFailure(Current)
  /\ AfterFailure(Current)
  /\ destroyFailed' = (destroyFailed \/ queues \in {"undoing", "destroying"})
  /\ UNCHANGED http_server

Next == \/ BeginCreate \/ Created \/ BeginDestroy \/ Destroyed
        \/ MakeObject \/ SetObject \/ StartObject \/ StopObject \/ ReleaseObject
        \/ SkipCall \/ CallFails

Spec == Init /\ [][Next]_vars
-----------------------------------------------------------------------------
(* Properties.                                                             *)

\* The memory a running context or mapping works on.
Needs(o) ==
  LET w == o[1]
  IN  CASE o[2] = "rxctx" -> {<<w, "mmap">>, <<w, "mem">>}
        [] o[2] = "mmap"  -> {<<w, "mem">>}
        [] o[2] = "txctx" /\ w[1] = "tcp" -> {<<<<"page", p>>, "mem">> : p \in Pages}
        [] w[1] = "cpu" /\ o[2] = "txq" -> {<<w, "pool">>, <<w, "tx_map">>}
        [] w[1] = "cpu" /\ o[2] = "rxq" -> {<<w, "rx_map">>}
        [] OTHER -> {}

(* No memory is released while a queue that the NIC serves from it is      *)
(* started, on any path: the failing ones, and a Txq that did not drain,   *)
(* keep it.  Two exceptions of the code are left out: a CPU RSS queue      *)
(* whose destruction failed in an error path that ignores the failure, and *)
(* the ICMP Txq, which sends from memory that is freed before it stops.    *)
MemoryOutlivesQueues ==
  \A o \in Objects \ abandoned :
    obj[o] = "started" => \A m \in Needs(o) : obj[m] # "gone"

(* The GPU, the progress engine and the device go last: at that time       *)
(* nothing is started any more, and all memory of the GPU is released.     *)
(* Unless a destruction failed: main does not hear of that and goes on.    *)
DevicesLast ==
  ~destroyFailed /\ (\E k \in {"gpu", "pe", "dev"} : obj[<<App, k>>] = "gone") =>
    \A o \in Objects \ abandoned :
      obj[o] # "started" /\ (o[2] = "mem" => obj[o] \in {"none", "gone"})

(* Nothing is released twice, by the error paths, by the destruction that  *)
(* follows them or by main's, but what create_cpu_mmap or                  *)
(* create_txq_cpu_rss_buf_pool released themselves when they failed.       *)
ReleasedOnce == stale \subseteq dangling

(* A destruction of which no call fails leaves nothing of what it is to    *)
(* destroy: main's, of everything; the one a function does when it fails,  *)
(* of what this function has created.  A context has no release.           *)
Settled(o) == IF o[2] \in {"rxctx", "txctx"} THEN obj[o] # "started" ELSE obj[o] \in {"none", "gone"}
Begun(family) == \E o \in Objects : o[1][1] = family /\ obj[o] # "none"
Families == IF queues = "down" \/ ~Begun("udp") THEN {"app", "udp", "tcp", "cpu", "page", "icmp"}
            ELSE IF Begun("icmp") THEN {"icmp"}
            ELSE IF Begun("tcp") THEN {"tcp", "cpu", "page"} ELSE {"udp"}
NothingLeft ==
  queues \in {"undoing", "down"} /\ plan = <<>> /\ ~destroyFailed =>
    \A o \in Objects \ abandoned : o[1][1] \in Families => Settled(o)

(* main launches the kernels only when every object they work with exists, *)
(* and is started if it can be.  The exception is a CPU RSS queue whose    *)
(* context could not be had, which its function reports as a success: then *)
(* one of the pointers that the thread checks is NULL.                     *)
OfServer(o) == o[1][1] \in {"cpu", "page"} \/ (o[1][1] = "tcp" /\ o[2] \in {"sem_http", "txq", "txctx"})
Startable(o) ==
  \/ o[2] \in {"rxctx", "txctx", "mmap", "sem", "sem_http", "arr"}
  \/ o[1][1] = "cpu" /\ o[2] \in {"rxq", "txq"}
Usable(o) == obj[o] = IF Startable(o) THEN "started" ELSE "made"
UpMeansUsable ==
  queues = "up" =>
    /\ \A o \in Objects : o[1][1] # "cpu" /\ (OfServer(o) => http_server) => Usable(o)
    /\ \A q \in Queues :
         (\A k \in {"rxq", "txq", "pe"} : ptr[<<<<"cpu", q>>, k>>]) =>
           \A k \in KindsOf("cpu") : Usable(<<<<"cpu", q>>, k>>)
=============================================================================
