---------------------------- MODULE AppLifecycle ----------------------------
(***************************************************************************)
(* The life of the application as main (gpu_packet_processing.c) conducts  *)
(* it: warm-up launch of the CUDA kernels, the real launch, the threads,   *)
(* the wait for force_quit, the stop of the kernels through exit_cond, the *)
(* joins, and the teardown of the queues.  The kernels and the threads are *)
(* reduced to what main can see of them: that they run, end, or fail.      *)
(***************************************************************************)
EXTENDS Naturals, Sequences

CONSTANTS
  TcpThreads  \* the threads tcp_cpu_rss_func, numq_cpu_rss of them

ASSUME ThreadAssumption == "stats" \notin TcpThreads

VARIABLES
  http_server,  \* the command-line option
  force_quit,   \* seen by main and the threads
  exit_cond,    \* seen by the kernels; freed at the end
  main,         \* what main is doing
  todo,         \* the kernels or threads it has still to treat in this phase
  stream,       \* per kernel: the launches queued and not ended
  running,      \* per kernel: the launch at the head has started
  thread,       \* per thread
  queues,       \* Flow, Eth queues, semaphores, buffers
  kernelFailed, \* history: a kernel reported an error
  createFailed  \* history: pthread_create failed

vars == <<http_server, force_quit, exit_cond, main, todo, stream, running,
          thread, queues, kernelFailed, createFailed>>

Kernels == {"udp", "tcp", "icmp", "http"}
Threads == {"stats"} \cup TcpThreads

\* The HTTP server kernel and the TCP threads exist in HTTP server mode only.
UsedKernels == IF http_server THEN Kernels ELSE Kernels \ {"http"}
UsedThreads == IF http_server THEN Threads ELSE {"stats"}

TypeOK ==
  /\ http_server \in BOOLEAN /\ force_quit \in BOOLEAN
  /\ exit_cond \in {"unset", "0", "1", "freed"}
  /\ main \in {"setup", "warmup", "warmsync", "launch", "create", "wait", "sync",
               "join", "destroy", "ended"}
  /\ todo \subseteq Kernels \cup Threads
  /\ stream \in [Kernels -> Seq({"warmup", "real"})]
  /\ running \in [Kernels -> BOOLEAN]
  /\ thread \in [Threads -> {"none", "runs", "hangs", "ended", "joined"}]
  /\ queues \in {"none", "up", "down"}
  /\ kernelFailed \in BOOLEAN /\ createFailed \in BOOLEAN
  /\ \A k \in Kernels : running[k] => stream[k] # <<>>
  /\ \A k \in Kernels \ UsedKernels : stream[k] = <<>>
  /\ \A t \in Threads \ UsedThreads : thread[t] = "none"

Init ==
  /\ http_server \in BOOLEAN
  /\ force_quit = FALSE /\ exit_cond = "unset"
  /\ main = "setup" /\ todo = {}
  /\ stream = [k \in Kernels |-> <<>>]
  /\ running = [k \in Kernels |-> FALSE]
  /\ thread = [t \in Threads |-> "none"]
  /\ queues = "none"
  /\ kernelFailed = FALSE /\ createFailed = FALSE

-----------------------------------------------------------------------------
(* main, phase by phase.  A phase treats the elements of todo one by one   *)
(* in a fixed order, the stats thread before the TCP threads.              *)

histories == <<kernelFailed, createFailed>>

NextOf(S) == IF "stats" \in S THEN "stats" ELSE CHOOSE x \in S : TRUE

\* Devices, queues, pipes and streams.  Any failure ends the program at once.
Setup ==
  /\ main = "setup"
  /\ \/ queues' = "up" /\ main' = "warmup" /\ todo' = UsedKernels /\ exit_cond' = "1"
     \/ main' = "ended" /\ UNCHANGED <<queues, todo, exit_cond>>
  /\ UNCHANGED <<http_server, force_quit, stream, running, thread, histories>>

\* One kernel is launched; main ignores a launch that fails.
LaunchKernel ==
  LET k == NextOf(todo)
      gen == IF main = "warmup" THEN "warmup" ELSE "real"
  IN  /\ main \in {"warmup", "launch"} /\ todo # {}
      /\ \/ stream' = [stream EXCEPT ![k] = Append(@, gen)]
         \/ stream' = stream
      /\ todo' = todo \ {k}
      /\ UNCHANGED <<http_server, force_quit, exit_cond, main, running, thread,
                     queues, histories>>

\* cudaStreamSynchronize returns: nothing is left on the stream.
SyncStream ==
  LET k == NextOf(todo)
  IN  /\ main \in {"warmsync", "sync"} /\ todo # {}
      /\ stream[k] = <<>>
      /\ todo' = todo \ {k}
      /\ UNCHANGED <<http_server, force_quit, exit_cond, main, stream, running,
                     thread, queues, histories>>

\* Mutant: main does not wait for the warm-up launches.
WarmupNotAwaited ==
  /\ main = "warmup" /\ todo = {}
  /\ exit_cond' = "0"
  /\ main' = "launch" /\ todo' = UsedKernels
  /\ UNCHANGED <<http_server, force_quit, stream, running, thread, queues, histories>>

WarmupLaunched ==
  /\ main = "warmup" /\ todo = {}
  /\ main' = "warmsync" /\ todo' = UsedKernels
  /\ UNCHANGED <<http_server, force_quit, exit_cond, stream, running, thread,
                 queues, histories>>

\* Mutant: the exit flag is not reset after the warm-up.
WarmupKeepsFlag ==
  /\ main = "warmsync" /\ todo = {}
  /\ main' = "launch" /\ todo' = UsedKernels
  /\ UNCHANGED <<http_server, force_quit, exit_cond, stream, running, thread,
                 queues, histories>>

WarmupDone ==
  /\ main = "warmsync" /\ todo = {}
  /\ exit_cond' = "0"
  /\ main' = "launch" /\ todo' = UsedKernels
  /\ UNCHANGED <<http_server, force_quit, stream, running, thread, queues, histories>>

\* Mutant: the TCP threads are created without the HTTP server, too.
LaunchedAll ==
  /\ main = "launch" /\ todo = {}
  /\ main' = "create" /\ todo' = Threads
  /\ UNCHANGED <<http_server, force_quit, exit_cond, stream, running, thread,
                 queues, histories>>

Launched ==
  /\ main = "launch" /\ todo = {}
  /\ main' = "create" /\ todo' = UsedThreads
  /\ UNCHANGED <<http_server, force_quit, exit_cond, stream, running, thread,
                 queues, histories>>

CreateThread ==
  LET t == NextOf(todo)
  IN  /\ main = "create" /\ todo # {}
      /\ thread' = [thread EXCEPT ![t] = "runs"]
      /\ todo' = todo \ {t}
      /\ UNCHANGED <<http_server, force_quit, exit_cond, main, stream, running,
                     queues, histories>>

\* goto exit: the queues are destroyed, whatever runs by now.
CreateFails ==
  /\ main = "create" /\ todo # {}
  /\ createFailed' = TRUE
  /\ main' = "destroy" /\ todo' = {}
  /\ UNCHANGED <<http_server, force_quit, exit_cond, stream, running, thread,
                 queues, kernelFailed>>

Created ==
  /\ main = "create" /\ todo = {}
  /\ main' = "wait"
  /\ UNCHANGED <<http_server, force_quit, exit_cond, todo, stream, running, thread,
                 queues, histories>>

\* Mutant: main leaves its loop and does not tell the kernels.
StopWithoutFlag ==
  /\ main = "wait" /\ force_quit
  /\ main' = "sync" /\ todo' = UsedKernels
  /\ UNCHANGED <<http_server, force_quit, exit_cond, stream, running, thread,
                 queues, histories>>

\* The loop of main sees force_quit, and only force_quit.
StopKernels ==
  /\ main = "wait" /\ force_quit
  /\ exit_cond' = "1"
  /\ main' = "sync" /\ todo' = UsedKernels
  /\ UNCHANGED <<http_server, force_quit, stream, running, thread, queues, histories>>

\* Mutant: the threads are not joined.
StoppedWithoutJoin ==
  /\ main = "sync" /\ todo = {}
  /\ exit_cond' = "freed"
  /\ main' = "destroy"
  /\ UNCHANGED <<http_server, force_quit, todo, stream, running, thread, queues, histories>>

KernelsStopped ==
  /\ main = "sync" /\ todo = {}
  /\ exit_cond' = "freed"
  /\ main' = "join" /\ todo' = UsedThreads
  /\ UNCHANGED <<http_server, force_quit, stream, running, thread, queues, histories>>

\* pthread_join returns.
JoinThread ==
  LET t == NextOf(todo)
  IN  /\ main = "join" /\ todo # {}
      /\ thread[t] = "ended"
      /\ thread' = [thread EXCEPT ![t] = "joined"]
      /\ todo' = todo \ {t}
      /\ UNCHANGED <<http_server, force_quit, exit_cond, main, stream, running,
                     queues, histories>>

Joined ==
  /\ main = "join" /\ todo = {}
  /\ main' = "destroy"
  /\ UNCHANGED <<http_server, force_quit, exit_cond, todo, stream, running, thread,
                 queues, histories>>

\* destroy_flow_queue, doca_gpu_destroy, doca_pe_destroy; a failure of one of
\* the last two ends the program at once.
Destroy ==
  /\ main = "destroy" /\ queues = "up"
  /\ queues' = "down"
  /\ main' \in {"destroy", "ended"}
  /\ UNCHANGED <<http_server, force_quit, exit_cond, todo, stream, running,
                 thread, histories>>

Return ==
  /\ main = "destroy" /\ queues = "down"
  /\ main' = "ended"
  /\ UNCHANGED <<http_server, force_quit, exit_cond, todo, stream, running, thread,
                 queues, histories>>

-----------------------------------------------------------------------------
(* The kernels and the threads; they are gone once main has returned.      *)

mainVars == <<http_server, main, todo, queues, createFailed>>

StartKernel(k) ==
  /\ main # "ended" /\ stream[k] # <<>> /\ ~running[k]
  /\ running' = [running EXCEPT ![k] = TRUE]
  /\ UNCHANGED <<force_quit, exit_cond, stream, thread, kernelFailed, mainVars>>

EndKernel(k) == /\ stream' = [stream EXCEPT ![k] = Tail(@)]
                /\ running' = [running EXCEPT ![k] = FALSE]

\* The kernel reads exit_cond at the top of its loop.
KernelStops(k) ==
  /\ main # "ended" /\ running[k] /\ exit_cond # "0"
  /\ EndKernel(k)
  /\ UNCHANGED <<force_quit, exit_cond, thread, kernelFailed, mainVars>>

\* A receive, a semaphore or a send fails: the kernel tells the other kernels.
KernelFails(k) ==
  /\ main # "ended" /\ running[k] /\ exit_cond = "0"
  /\ exit_cond' = "1"
  /\ kernelFailed' = TRUE
  /\ EndKernel(k)
  /\ UNCHANGED <<force_quit, thread, mainVars>>

ThreadEnds(t) ==
  /\ main # "ended" /\ thread[t] = "runs" /\ force_quit
  /\ thread' = [thread EXCEPT ![t] = "ended"]
  /\ UNCHANGED <<force_quit, exit_cond, stream, running, kernelFailed, mainVars>>

\* An error of a thread, a failed send reported to main, or ctrl-c, whose
\* handler is installed by the time the kernels are launched.
Quit ==
  /\ ~force_quit /\ main \notin {"setup", "ended"}
  /\ force_quit' = TRUE
  /\ UNCHANGED <<exit_cond, stream, running, thread, kernelFailed, mainVars>>

\* A TCP thread is caught in the option walk of create_ack_packet.
ThreadHangs(t) ==
  /\ main # "ended" /\ t \in TcpThreads /\ thread[t] = "runs"
  /\ thread' = [thread EXCEPT ![t] = "hangs"]
  /\ UNCHANGED <<force_quit, exit_cond, stream, running, kernelFailed, mainVars>>

MainStep ==
  \/ Setup \/ LaunchKernel \/ SyncStream \/ WarmupLaunched \/ WarmupDone \/ Launched
  \/ CreateThread \/ CreateFails \/ Created \/ StopKernels \/ KernelsStopped
  \/ JoinThread \/ Joined \/ Destroy \/ Return

KernelStep(k) == StartKernel(k) \/ KernelStops(k)

Next == \/ MainStep \/ Quit
        \/ \E k \in Kernels : KernelStep(k) \/ KernelFails(k)
        \/ \E t \in Threads : ThreadEnds(t) \/ ThreadHangs(t)

Spec == Init /\ [][Next]_vars

\* Everybody runs: main, the GPU, and the threads that do not hang.
FairSpec == /\ Spec /\ WF_vars(MainStep)
            /\ \A k \in Kernels : WF_vars(KernelStep(k))
            /\ \A t \in Threads : WF_vars(ThreadEnds(t))
-----------------------------------------------------------------------------
(* Properties.                                                             *)

(* The queues are destroyed only when no kernel is on the GPU and no       *)
(* thread runs, unless the creation of a thread failed: then main jumps to *)
(* the label exit without stopping anything.                               *)
TeardownQuiet ==
  queues = "down" /\ ~createFailed =>
    /\ \A k \in Kernels : stream[k] = <<>>
    /\ \A t \in Threads : thread[t] \in {"none", "joined"}

(* The kernels' exit flag lives as long as a kernel may read it, and the   *)
(* warm-up launches, which start with the flag at 1, are over before it is *)
(* set to 0: otherwise one would run on as a kernel of its own.            *)
FlagFits ==
  \A k \in Kernels :
    /\ stream[k] # <<>> => exit_cond # "freed"
    /\ exit_cond = "0" => "warmup" \notin {stream[k][i] : i \in DOMAIN stream[k]}

(* A kernel stops receiving only because the application is quitting or    *)
(* because a kernel has reported an error.                                 *)
StopsOnlyWhenAsked ==
  [][\A k \in Kernels :
       stream[k] = <<"real">> /\ stream'[k] = <<>> => force_quit \/ kernelFailed']_vars

(* Once force_quit is set the program ends, unless a TCP thread hangs in   *)
(* the option walk: no join and no synchronization waits for ever.         *)
QuitEndsApp ==
  force_quit ~> main = "ended" \/ \E t \in Threads : thread[t] = "hangs"

(* receive_udp.cu:103 and receive_tcp.cu:163 say that on a receive error   *)
(* "the whole execution stops", and the message "applications needs to     *)
(* exit": once a kernel has failed the program ends.                       *)
KernelErrorEndsApp ==
  kernelFailed ~> main = "ended" \/ \E t \in Threads : thread[t] = "hangs"
=============================================================================
