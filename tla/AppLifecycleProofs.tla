------------------------- MODULE AppLifecycleProofs -------------------------
(***************************************************************************)
(* Theorems about AppLifecycle, for any number of TCP threads.             *)
(***************************************************************************)
EXTENDS AppLifecycle, SequenceTheorems, TLAPS

Early   == {"setup", "warmup", "warmsync"}
Working == {"launch", "create", "wait"}
Late    == {"sync", "join", "destroy"}

\* A phase treats kernels, or threads, and only those in use.
PhaseTodo ==
  /\ main \in {"warmup", "warmsync", "launch", "sync"} => todo \subseteq UsedKernels
  /\ main \in {"create", "join"} => todo \subseteq UsedThreads

\* The launches on the streams are of the warm-up or of the real run; a stream
\* that main has waited for stays empty until main launches again.
StreamsOK ==
  /\ main = "setup" => \A k \in Kernels : stream[k] = <<>>
  /\ main \in Early => \A k \in Kernels : \A i \in DOMAIN stream[k] : stream[k][i] = "warmup"
  /\ main \notin Early => \A k \in Kernels : \A i \in DOMAIN stream[k] : stream[k][i] = "real"
  /\ main \in {"warmsync", "sync"} => \A k \in Kernels \ todo : stream[k] = <<>>
  /\ main \in {"join", "destroy", "ended"} /\ ~createFailed =>
       \A k \in Kernels : stream[k] = <<>>

\* What main has made of the flag, and who else may have set it.
FlagOK ==
  /\ main \in {"warmup", "warmsync", "sync"} => exit_cond = "1"
  /\ main \in Working => exit_cond \in {"0", "1"}
  /\ exit_cond = "0" => main \notin Early
  /\ exit_cond = "freed" => main \in {"join", "destroy", "ended"} /\ ~createFailed
  /\ main \in Working \cup Late /\ exit_cond # "0" => force_quit \/ kernelFailed
  /\ createFailed => main \in {"destroy", "ended"}
  /\ queues = "down" => main \in {"destroy", "ended"}

\* Threads exist from their creation until they are joined.
ThreadsOK ==
  /\ main \in Early => \A t \in Threads : thread[t] = "none"
  /\ main = "join" => \A t \in Threads \ todo : thread[t] \in {"none", "joined"}
  /\ main \in {"destroy", "ended"} /\ ~createFailed =>
       \A t \in Threads : thread[t] \in {"none", "joined"}

LifeInv == TypeOK /\ PhaseTodo /\ StreamsOK /\ FlagOK /\ ThreadsOK
-----------------------------------------------------------------------------
(* Helpers.                                                                *)

LEMMA NextOfIn ==
  ASSUME NEW S, S # {}
  PROVE  NextOf(S) \in S
BY DEF NextOf

\* A stream of launches of one generation stays one when a launch is added ...
LEMMA GenerationGrows ==
  ASSUME NEW s \in Seq({"warmup", "real"}), NEW g \in {"warmup", "real"},
         \A i \in DOMAIN s : s[i] = g
  PROVE  /\ Append(s, g) \in Seq({"warmup", "real"}) /\ Append(s, g) # <<>>
         /\ \A i \in DOMAIN Append(s, g) : Append(s, g)[i] = g
BY AppendProperties, LenProperties

\* ... and when the oldest has ended.
LEMMA GenerationShrinks ==
  ASSUME NEW s \in Seq({"warmup", "real"}), s # <<>>
  PROVE  /\ Tail(s) \in Seq({"warmup", "real"})
         /\ \A g : (\A i \in DOMAIN s : s[i] = g) => \A i \in DOMAIN Tail(s) : Tail(s)[i] = g
BY HeadTailProperties, LenProperties

LEMMA EmptyStream == DOMAIN << >> = {} /\ << >> \in Seq({"warmup", "real"})
OBVIOUS

LEMMA InitLifeInv == Init => LifeInv
<1>1. SUFFICES ASSUME Init PROVE LifeInv
  OBVIOUS
<1>2. TypeOK
  BY <1>1, EmptyStream DEF Init, TypeOK
<1>3. QED
  BY <1>1, <1>2, EmptyStream
     DEF Init, LifeInv, PhaseTodo, StreamsOK, FlagOK, ThreadsOK, Early, Working, Late

\* The steps of main that queue nothing on a stream, and the request to quit.
LEMMA MainKeepsInv ==
  ASSUME LifeInv, MainStep \/ Quit, ~LaunchKernel
  PROVE  LifeInv'
<1> USE DEF LifeInv
<1>1. CASE Setup
  <2>1. TypeOK'
    BY <1>1 DEF Setup, TypeOK, PhaseTodo, UsedKernels, UsedThreads, Kernels, Threads, histories
  <2>2. PhaseTodo'
    BY <1>1 DEF Setup, PhaseTodo, UsedKernels, UsedThreads, histories
  <2>3. StreamsOK'
    BY <1>1, EmptyStream DEF Setup, StreamsOK, TypeOK, PhaseTodo, UsedKernels, Early, histories
  <2>4. FlagOK'
    BY <1>1 DEF Setup, FlagOK, TypeOK, Early, Working, Late, histories
  <2>5. ThreadsOK'
    BY <1>1 DEF Setup, ThreadsOK, TypeOK, PhaseTodo, UsedThreads, Early, histories
  <2>6. QED
    BY <2>1, <2>2, <2>3, <2>4, <2>5
<1>2. CASE SyncStream
  <2>1. TypeOK'
    BY <1>2, NextOfIn DEF SyncStream, TypeOK, PhaseTodo, UsedKernels, UsedThreads, Kernels, Threads, histories
  <2>2. PhaseTodo'
    BY <1>2 DEF SyncStream, PhaseTodo, UsedKernels, UsedThreads, histories
  <2>3. StreamsOK'
    BY <1>2, EmptyStream, NextOfIn DEF SyncStream, StreamsOK, TypeOK, PhaseTodo, UsedKernels, Early, histories
  <2>4. FlagOK'
    BY <1>2 DEF SyncStream, FlagOK, TypeOK, Early, Working, Late, histories
  <2>5. ThreadsOK'
    BY <1>2, NextOfIn DEF SyncStream, ThreadsOK, TypeOK, PhaseTodo, UsedThreads, Early, histories
  <2>6. QED
    BY <2>1, <2>2, <2>3, <2>4, <2>5
<1>3. CASE WarmupLaunched
  BY <1>3
     DEF WarmupLaunched, TypeOK, PhaseTodo, StreamsOK, FlagOK, ThreadsOK, Early, Working, Late,
         UsedKernels, UsedThreads, Kernels, Threads, histories
<1>4. CASE WarmupDone
  BY <1>4
     DEF WarmupDone, TypeOK, PhaseTodo, StreamsOK, FlagOK, ThreadsOK, Early, Working, Late,
         UsedKernels, UsedThreads, Kernels, Threads, histories
<1>5. CASE Launched
  BY <1>5
     DEF Launched, TypeOK, PhaseTodo, StreamsOK, FlagOK, ThreadsOK, Early, Working, Late,
         UsedKernels, UsedThreads, Kernels, Threads, histories
<1>6. CASE CreateThread
  <2>1. TypeOK'
    BY <1>6, NextOfIn DEF CreateThread, TypeOK, PhaseTodo, UsedKernels, UsedThreads, Kernels, Threads, histories
  <2>2. PhaseTodo'
    BY <1>6 DEF CreateThread, PhaseTodo, UsedKernels, UsedThreads, histories
  <2>3. StreamsOK'
    BY <1>6, EmptyStream, NextOfIn DEF CreateThread, StreamsOK, TypeOK, PhaseTodo, UsedKernels, Early, histories
  <2>4. FlagOK'
    BY <1>6 DEF CreateThread, FlagOK, TypeOK, Early, Working, Late, histories
  <2>5. ThreadsOK'
    BY <1>6, NextOfIn DEF CreateThread, ThreadsOK, TypeOK, PhaseTodo, UsedThreads, Early, histories
  <2>6. QED
    BY <2>1, <2>2, <2>3, <2>4, <2>5
<1>7. CASE CreateFails
  BY <1>7
     DEF CreateFails, TypeOK, PhaseTodo, StreamsOK, FlagOK, ThreadsOK, Early, Working, Late,
         UsedKernels, UsedThreads, Kernels, Threads, histories
<1>8. CASE Created
  BY <1>8
     DEF Created, TypeOK, PhaseTodo, StreamsOK, FlagOK, ThreadsOK, Early, Working, Late,
         UsedKernels, UsedThreads, Kernels, Threads, histories
<1>9. CASE StopKernels
  BY <1>9
     DEF StopKernels, TypeOK, PhaseTodo, StreamsOK, FlagOK, ThreadsOK, Early, Working, Late,
         UsedKernels, UsedThreads, Kernels, Threads, histories
<1>10. CASE KernelsStopped
  <2>1. TypeOK'
    BY <1>10 DEF KernelsStopped, TypeOK, PhaseTodo, UsedKernels, UsedThreads, Kernels, Threads, histories
  <2>2. PhaseTodo'
    BY <1>10 DEF KernelsStopped, PhaseTodo, UsedKernels, UsedThreads, histories
  <2>3. StreamsOK'
    BY <1>10, EmptyStream DEF KernelsStopped, StreamsOK, TypeOK, PhaseTodo, UsedKernels, Early, histories
  <2>4. FlagOK'
    BY <1>10 DEF KernelsStopped, FlagOK, TypeOK, Early, Working, Late, histories
  <2>5. ThreadsOK'
    BY <1>10 DEF KernelsStopped, ThreadsOK, TypeOK, PhaseTodo, UsedThreads, Early, histories
  <2>6. QED
    BY <2>1, <2>2, <2>3, <2>4, <2>5
<1>11. CASE JoinThread
  <2>1. TypeOK'
    BY <1>11, NextOfIn DEF JoinThread, TypeOK, PhaseTodo, UsedKernels, UsedThreads, Kernels, Threads, histories
  <2>2. PhaseTodo'
    BY <1>11 DEF JoinThread, PhaseTodo, UsedKernels, UsedThreads, histories
  <2>3. StreamsOK'
    BY <1>11, EmptyStream, NextOfIn DEF JoinThread, StreamsOK, TypeOK, PhaseTodo, UsedKernels, Early, histories
  <2>4. FlagOK'
    BY <1>11 DEF JoinThread, FlagOK, TypeOK, Early, Working, Late, histories
  <2>5. ThreadsOK'
    BY <1>11, NextOfIn DEF JoinThread, ThreadsOK, TypeOK, PhaseTodo, UsedThreads, Early, histories
  <2>6. QED
    BY <2>1, <2>2, <2>3, <2>4, <2>5
<1>12. CASE Joined
  BY <1>12
     DEF Joined, TypeOK, PhaseTodo, StreamsOK, FlagOK, ThreadsOK, Early, Working, Late,
         UsedKernels, UsedThreads, Kernels, Threads, histories
<1>13. CASE Destroy
  BY <1>13
     DEF Destroy, TypeOK, PhaseTodo, StreamsOK, FlagOK, ThreadsOK, Early, Working, Late,
         UsedKernels, UsedThreads, Kernels, Threads, histories
<1>14. CASE Return
  BY <1>14
     DEF Return, TypeOK, PhaseTodo, StreamsOK, FlagOK, ThreadsOK, Early, Working, Late,
         UsedKernels, UsedThreads, Kernels, Threads, histories
<1>15. CASE Quit
  BY <1>15
     DEF Quit, TypeOK, PhaseTodo, StreamsOK, FlagOK, ThreadsOK, Early, Working, Late,
         UsedKernels, UsedThreads, Kernels, Threads, mainVars
<1>16. QED
  BY <1>1, <1>2, <1>3, <1>4, <1>5, <1>6, <1>7, <1>8, <1>9, <1>10, <1>11, <1>12, <1>13, <1>14, <1>15 DEF MainStep

\* A launch on a stream of launches of the same generation.
LEMMA LaunchKeepsInv ==
  ASSUME LifeInv, LaunchKernel
  PROVE  LifeInv'
<1> USE DEF LifeInv
<1> DEFINE k == NextOf(todo)
           g == IF main = "warmup" THEN "warmup" ELSE "real"
<1>1. /\ main \in {"warmup", "launch"} /\ k \in todo /\ k \in UsedKernels /\ k \in Kernels
      /\ \/ stream' = [stream EXCEPT ![k] = Append(stream[k], g)]
         \/ stream' = stream
      /\ todo' = todo \ {k}
      /\ UNCHANGED <<http_server, force_quit, exit_cond, main, running, thread, queues, histories>>
  BY NextOfIn DEF LaunchKernel, PhaseTodo, UsedKernels
<1>2. /\ g \in {"warmup", "real"} /\ stream[k] \in Seq({"warmup", "real"})
      /\ \A i \in DOMAIN stream[k] : stream[k][i] = g
  BY <1>1 DEF TypeOK, StreamsOK, Early
<1>3. /\ Append(stream[k], g) \in Seq({"warmup", "real"}) /\ Append(stream[k], g) # <<>>
      /\ \A i \in DOMAIN Append(stream[k], g) : Append(stream[k], g)[i] = g
  BY <1>2, GenerationGrows
<1> HIDE DEF k, g
<1>4. /\ stream' \in [Kernels -> Seq({"warmup", "real"})]
      /\ \A j \in Kernels \ {k} : stream'[j] = stream[j]
      /\ stream'[k] = stream[k] \/ stream'[k] = Append(stream[k], g)
  BY <1>1, <1>3 DEF TypeOK
<1>5. \A j \in Kernels : stream[j] # <<>> => stream'[j] # <<>>
  BY <1>3, <1>4
<1>6. TypeOK'
  BY <1>1, <1>4, <1>5 DEF TypeOK, UsedKernels, UsedThreads, histories
<1>7. PhaseTodo' /\ FlagOK' /\ ThreadsOK'
  BY <1>1 DEF PhaseTodo, FlagOK, ThreadsOK, TypeOK, UsedKernels, UsedThreads, Early, Working, Late, histories
<1>8. \A i \in DOMAIN stream'[k] : stream'[k][i] = g
  BY <1>2, <1>3, <1>4
<1>9. StreamsOK'
  <2>1. \A j \in Kernels : \A i \in DOMAIN stream'[j] : stream'[j][i] = g
    <3>1. \A j \in Kernels : \A i \in DOMAIN stream[j] : stream[j][i] = g
      BY <1>1 DEF StreamsOK, Early, g
    <3>2. QED
      BY <1>4, <1>8, <3>1
  <2>2. main' \in {"warmup", "launch"} /\ (main' \in Early => g = "warmup")
        /\ (main' \notin Early => g = "real")
    BY <1>1 DEF Early, g
  <2>3. QED
    BY <2>1, <2>2 DEF StreamsOK, Early
<1>10. QED
  BY <1>6, <1>7, <1>9

\* The oldest launch of a stream ends, by the flag or with an error.
LEMMA EndKeepsInv ==
  ASSUME LifeInv, NEW k \in Kernels, KernelStops(k) \/ KernelFails(k)
  PROVE  LifeInv'
<1> USE DEF LifeInv
<1>1. /\ main # "ended" /\ running[k] /\ EndKernel(k)
      /\ UNCHANGED <<force_quit, thread, mainVars>>
      /\ \/ exit_cond' = exit_cond /\ kernelFailed' = kernelFailed /\ exit_cond # "0"
         \/ exit_cond = "0" /\ exit_cond' = "1" /\ kernelFailed' = TRUE
  BY DEF KernelStops, KernelFails
<1>2. stream[k] \in Seq({"warmup", "real"}) /\ stream[k] # <<>>
  BY <1>1 DEF TypeOK
<1>3. /\ Tail(stream[k]) \in Seq({"warmup", "real"})
      /\ \A g : (\A i \in DOMAIN stream[k] : stream[k][i] = g)
               => \A i \in DOMAIN Tail(stream[k]) : Tail(stream[k])[i] = g
  BY <1>2, GenerationShrinks
<1>4. TypeOK'
  BY <1>1, <1>2, <1>3 DEF TypeOK, EndKernel, mainVars, UsedKernels, UsedThreads
<1>5. PhaseTodo' /\ FlagOK' /\ ThreadsOK'
  BY <1>1 DEF PhaseTodo, FlagOK, ThreadsOK, TypeOK, UsedKernels, UsedThreads, Early, Working, Late, mainVars
<1>6. StreamsOK'
  BY <1>1, <1>2, <1>3 DEF StreamsOK, TypeOK, EndKernel, Early, mainVars
<1>7. QED
  BY <1>4, <1>5, <1>6

\* A kernel starts, a thread ends or hangs.
LEMMA OthersKeepInv ==
  ASSUME LifeInv,
         \/ \E k \in Kernels : StartKernel(k)
         \/ \E t \in Threads : ThreadEnds(t) \/ ThreadHangs(t)
  PROVE  LifeInv'
<1> USE DEF LifeInv
<1>1. ASSUME NEW k \in Kernels, StartKernel(k) PROVE LifeInv'
  BY <1>1 DEF StartKernel, TypeOK, PhaseTodo, StreamsOK, FlagOK, ThreadsOK, Early, Working, Late,
              UsedKernels, UsedThreads, mainVars
<1>2. ASSUME NEW t \in Threads, ThreadEnds(t) PROVE LifeInv'
  BY <1>2 DEF ThreadEnds, TypeOK, PhaseTodo, StreamsOK, FlagOK, ThreadsOK, Early, Working, Late,
              UsedKernels, UsedThreads, mainVars
<1>3. ASSUME NEW t \in Threads, ThreadHangs(t) PROVE LifeInv'
  BY <1>3 DEF ThreadHangs, TypeOK, PhaseTodo, StreamsOK, FlagOK, ThreadsOK, Early, Working, Late,
              UsedKernels, UsedThreads, mainVars
<1>4. QED
  BY <1>1, <1>2, <1>3

LEMMA StepLifeInv == LifeInv /\ [Next]_vars => LifeInv'
<1>1. SUFFICES ASSUME LifeInv, [Next]_vars PROVE LifeInv'
  OBVIOUS
<1>2. CASE UNCHANGED vars
  BY <1>1, <1>2 DEF vars, LifeInv, TypeOK, PhaseTodo, StreamsOK, FlagOK, ThreadsOK, UsedKernels, UsedThreads, histories
<1>3. CASE LaunchKernel
  BY <1>1, <1>3, LaunchKeepsInv
<1>4. CASE (MainStep \/ Quit) /\ ~LaunchKernel
  BY <1>1, <1>4, MainKeepsInv
<1>5. CASE \E k \in Kernels : KernelStops(k) \/ KernelFails(k)
  BY <1>1, <1>5, EndKeepsInv
<1>6. CASE (\E k \in Kernels : StartKernel(k)) \/ \E t \in Threads : ThreadEnds(t) \/ ThreadHangs(t)
  BY <1>1, <1>6, OthersKeepInv
<1>7. QED
  BY <1>1, <1>2, <1>3, <1>4, <1>5, <1>6 DEF Next, KernelStep

LEMMA Invariant == Spec => []LifeInv
<1>1. QED
  BY InitLifeInv, StepLifeInv, PTL DEF Spec
-----------------------------------------------------------------------------
(* The theorems.                                                           *)

(* Every variable has its type; in particular nothing is ever queued for   *)
(* the server kernel, and no TCP thread created, without the HTTP server.  *)
THEOREM TypeCorrect == Spec => []TypeOK
<1>1. LifeInv => TypeOK
  BY DEF LifeInv
<1>2. QED
  BY <1>1, Invariant, PTL

(* Main destroys the queues only when the kernels have ended and the       *)
(* threads are joined, unless a thread could not be created.               *)
THEOREM TeardownIsQuiet == Spec => []TeardownQuiet
<1>1. LifeInv => TeardownQuiet
  BY DEF LifeInv, FlagOK, StreamsOK, ThreadsOK, TeardownQuiet
<1>2. QED
  BY <1>1, Invariant, PTL

(* No kernel is queued any more when the exit flag is freed, none of the   *)
(* warm-up when it is set to 0.                                            *)
THEOREM FlagAlwaysFits == Spec => []FlagFits
<1>1. LifeInv => FlagFits
  <2>1. SUFFICES ASSUME LifeInv PROVE FlagFits
    OBVIOUS
  <2>2. ASSUME NEW k \in Kernels PROVE stream[k] # <<>> => exit_cond # "freed"
    BY <2>1, <2>2 DEF LifeInv, FlagOK, StreamsOK
  <2>3. ASSUME NEW k \in Kernels, exit_cond = "0"
        PROVE  "warmup" \notin {stream[k][i] : i \in DOMAIN stream[k]}
    BY <2>1, <2>3 DEF LifeInv, FlagOK, StreamsOK
  <2>4. QED
    BY <2>2, <2>3 DEF FlagFits
<1>2. QED
  BY <1>1, Invariant, PTL

(* A kernel of the real run that ends was told to by a quit or an error.   *)
THEOREM KernelsStopOnlyWhenAsked == Spec => StopsOnlyWhenAsked
<1>1. ASSUME LifeInv, [Next]_vars, NEW k \in Kernels, stream[k] = <<"real">>, stream'[k] = <<>>
      PROVE  force_quit \/ kernelFailed'
  <2>1. stream[k] # <<>> /\ 1 \in DOMAIN stream[k] /\ stream[k][1] = "real" /\ stream'[k] # stream[k]
    BY <1>1
  <2>2. main \notin Early
    BY <1>1, <2>1 DEF LifeInv, StreamsOK
  <2>3. CASE LaunchKernel
    <3>1. stream'[k] = stream[k] \/ \E g \in {"warmup", "real"} : stream'[k] = Append(stream[k], g)
      BY <1>1, <2>3 DEF LaunchKernel, LifeInv, TypeOK
    <3>2. QED
      BY <1>1, <2>1, <3>1, AppendProperties DEF LifeInv, TypeOK
  <2>4. ASSUME NEW j \in Kernels, KernelStops(j)
        PROVE  force_quit \/ kernelFailed'
    <3>1. main # "ended" /\ exit_cond # "0" /\ kernelFailed' = kernelFailed
      BY <2>4 DEF KernelStops
    <3>2. main \in Working \cup Late
      BY <1>1, <2>2, <3>1 DEF LifeInv, TypeOK, Early, Working, Late
    <3>3. QED
      BY <1>1, <3>1, <3>2 DEF LifeInv, FlagOK
  <2>5. ASSUME NEW j \in Kernels, KernelFails(j)
        PROVE  kernelFailed'
    BY <2>5 DEF KernelFails
  <2>6. stream' = stream \/ LaunchKernel \/ \E j \in Kernels : KernelStops(j) \/ KernelFails(j)
    BY <1>1 DEF Next, MainStep, Setup, SyncStream, WarmupLaunched, WarmupDone, Launched, CreateThread,
       CreateFails, Created, StopKernels, KernelsStopped, JoinThread, Joined, Destroy, Return, Quit,
       KernelStep, StartKernel, ThreadEnds, ThreadHangs, vars
  <2>7. QED
    BY <2>1, <2>3, <2>4, <2>5, <2>6
<1>2. LifeInv /\ [Next]_vars =>
        [\A k \in Kernels :
           stream[k] = <<"real">> /\ stream'[k] = <<>> => force_quit \/ kernelFailed']_vars
  BY <1>1
<1>3. QED
  BY <1>2, Invariant, PTL DEF Spec, StopsOnlyWhenAsked
=============================================================================
