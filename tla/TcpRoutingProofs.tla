-------------------------- MODULE TcpRoutingProofs --------------------------
(***************************************************************************)
(* Theorems about TcpRouting: what the pipes of the NIC make of a packet,  *)
(* for every set of connections and every state of the connection tracking.*)
(***************************************************************************)
EXTENDS TcpRouting, TcpSessionProofs

\* The flow of a session is in the hardware and forwards its connection, up to
\* the moment a thread has removed it and is about to delete the session; no two
\* sessions share one.
FlowLive(e) ==
  \/ entryFlow[e] = NoFlow
  \/ flowKey[entryFlow[e]] = heapKey[e]
  \/ \E q \in Queues : sess[q] = e /\ pc[q] = "delete"
OwnFlow ==
  \A e, d \in Entries :
    /\ entryFlow[e] # NoFlow /\ entryFlow[e] = entryFlow[d]
    /\ flowKey[entryFlow[e]] = heapKey[e] /\ heapKey[e] = heapKey[d]
    => e = d
LiveInv == OwnFlow /\ \A e \in Entries : FlowLive(e)
-----------------------------------------------------------------------------
(* The pipe that takes a packet, by mode, protocol and flags.              *)

LEMMA RootPipesDef ==
  ASSUME NEW server \in BOOLEAN, NEW proto \in Protocols, NEW flags \in SUBSET TcpFlags
  PROVE  RootPipes[server][proto][flags] =
           LET matching == {e \in RootEntries(server) : proto = e.proto /\ e.flags \subseteq flags}
           IN  {e.pipe : e \in {x \in matching : \A y \in matching : x.priority <= y.priority}}
BY DEF RootPipes

\* The entries of the root pipe.
LEMMA RootEntriesAre ==
  ASSUME NEW server \in BOOLEAN, NEW e \in RootEntries(server)
  PROVE  \/ e.proto = "udp" /\ e = Entry(0, "udp", {}, "udp")
         \/ e.proto = "icmp" /\ e = Entry(3, "icmp", {}, "icmp")
         \/ /\ e.proto = "tcp" /\ e.priority = 3 /\ e.pipe = "gpu"
            /\ e = Entry(3, "tcp", {}, "gpu")
         \/ /\ server /\ e.proto = "tcp" /\ e.priority = 1 /\ e.pipe = "cpu"
            /\ \E f \in TcpFlags : e = Entry(1, "tcp", {f}, "cpu") /\ e.flags = {f}
BY DEF RootEntries, Entry

LEMMA RootEntriesHold ==
  ASSUME NEW server \in BOOLEAN
  PROVE  /\ Entry(0, "udp", {}, "udp") \in RootEntries(server)
         /\ Entry(3, "icmp", {}, "icmp") \in RootEntries(server)
         /\ Entry(3, "tcp", {}, "gpu") \in RootEntries(server)
         /\ server => \A f \in TcpFlags : Entry(1, "tcp", {f}, "cpu") \in RootEntries(server)
BY DEF RootEntries

\* The entry of a packet's own: it matches, and no entry of another pipe that
\* matches has as low a number.
Decides(best, server, proto, flags, pipe) ==
  /\ best \in RootEntries(server) /\ best.pipe = pipe
  /\ proto = best.proto /\ best.flags \subseteq flags
  /\ \A e \in RootEntries(server) : proto = e.proto /\ e.flags \subseteq flags =>
       /\ best.priority <= e.priority
       /\ e.pipe = pipe \/ ~(e.priority <= best.priority)

LEMMA PipeDecided ==
  ASSUME NEW server \in BOOLEAN, NEW proto \in Protocols, NEW flags \in SUBSET TcpFlags,
         NEW best, NEW pipe, Decides(best, server, proto, flags, pipe)
  PROVE  RootPipes[server][proto][flags] = {pipe}
<1> DEFINE matching == {e \in RootEntries(server) : proto = e.proto /\ e.flags \subseteq flags}
<1>1. best \in matching /\ \A e \in matching : best.priority <= e.priority
  BY DEF Decides
<1>2. \A x \in matching : (\A y \in matching : x.priority <= y.priority) => x.pipe = pipe
  BY <1>1 DEF Decides
<1> HIDE DEF matching
<1>3. {e.pipe : e \in {x \in matching : \A y \in matching : x.priority <= y.priority}} = {pipe}
  BY <1>1, <1>2
<1>4. QED
  BY <1>3, RootPipesDef DEF matching

LEMMA UdpPackets ==
  ASSUME NEW server \in BOOLEAN, NEW flags \in SUBSET TcpFlags
  PROVE  RootPipes[server]["udp"][flags] = {"udp"}
<1> DEFINE best == Entry(0, "udp", {}, "udp")
<1>1. best \in RootEntries(server)
  BY RootEntriesHold
<1>2. best.proto = "udp" /\ best.flags = {} /\ best.pipe = "udp" /\ best.priority = 0
  BY DEF Entry
<1>3. \A e \in RootEntries(server) : e.proto = "udp" => e = best
  BY RootEntriesAre
<1> HIDE DEF best
<1>4. Decides(best, server, "udp", flags, "udp")
  BY <1>1, <1>2, <1>3 DEF Decides
<1>5. QED
  BY <1>4, PipeDecided DEF Protocols

LEMMA IcmpPackets ==
  ASSUME NEW server \in BOOLEAN, NEW flags \in SUBSET TcpFlags
  PROVE  RootPipes[server]["icmp"][flags] = {"icmp"}
<1> DEFINE best == Entry(3, "icmp", {}, "icmp")
<1>1. best \in RootEntries(server)
  BY RootEntriesHold
<1>2. best.proto = "icmp" /\ best.flags = {} /\ best.pipe = "icmp" /\ best.priority = 3
  BY DEF Entry
<1>3. \A e \in RootEntries(server) : e.proto = "icmp" => e = best
  BY RootEntriesAre
<1> HIDE DEF best
<1>4. Decides(best, server, "icmp", flags, "icmp")
  BY <1>1, <1>2, <1>3 DEF Decides
<1>5. QED
  BY <1>4, PipeDecided DEF Protocols

LEMMA OtherPackets ==
  ASSUME NEW server \in BOOLEAN, NEW flags \in SUBSET TcpFlags
  PROVE  RootPipes[server]["other"][flags] = {}
<1>1. \A e \in RootEntries(server) : e.proto # "other"
  BY RootEntriesAre
<1>2. QED
  BY <1>1, RootPipesDef DEF Protocols

\* Without the server, and with it for packets without a flag: the GPU.
LEMMA TcpDataPackets ==
  ASSUME NEW server \in BOOLEAN, NEW flags \in SUBSET TcpFlags, ~server \/ flags = {}
  PROVE  RootPipes[server]["tcp"][flags] = {"gpu"}
<1> DEFINE best == Entry(3, "tcp", {}, "gpu")
<1>1. best \in RootEntries(server)
  BY RootEntriesHold
<1>2. best.proto = "tcp" /\ best.flags = {} /\ best.pipe = "gpu" /\ best.priority = 3
  BY DEF Entry
<1>3. \A e \in RootEntries(server) : e.proto = "tcp" /\ e.flags \subseteq flags => e = best
  BY RootEntriesAre
<1> HIDE DEF best
<1>4. Decides(best, server, "tcp", flags, "gpu")
  BY <1>1, <1>2, <1>3 DEF Decides
<1>5. QED
  BY <1>4, PipeDecided DEF Protocols

\* With the server, packets with a flag: the entries of the CPU pipe come first.
LEMMA TcpControlPackets ==
  ASSUME NEW server \in BOOLEAN, NEW flags \in SUBSET TcpFlags, flags # {}
  PROVE  server => RootPipes[server]["tcp"][flags] = {"cpu"}
<1>1. PICK f \in flags : TRUE
  OBVIOUS
<1> DEFINE best == Entry(1, "tcp", {f}, "cpu")
<1>2. best.proto = "tcp" /\ best.flags = {f} /\ best.pipe = "cpu" /\ best.priority = 1
  BY DEF Entry
<1>3. server => best \in RootEntries(server)
  BY RootEntriesHold
<1>4. \A e \in RootEntries(server) : e.proto = "tcp" =>
        (e.priority = 3 /\ e.pipe = "gpu") \/ (e.priority = 1 /\ e.pipe = "cpu")
  BY RootEntriesAre
<1> HIDE DEF best
<1>5. \A e \in RootEntries(server) : e.proto = "tcp" =>
        /\ best.priority <= e.priority
        /\ e.pipe = "cpu" \/ ~(e.priority <= best.priority)
  <2>1. SUFFICES ASSUME NEW e \in RootEntries(server), e.proto = "tcp"
                 PROVE  /\ best.priority <= e.priority
                        /\ e.pipe = "cpu" \/ ~(e.priority <= best.priority)
    OBVIOUS
  <2>2. CASE e.priority = 3 /\ e.pipe = "gpu"
    BY <1>2, <2>2
  <2>3. CASE e.priority = 1 /\ e.pipe = "cpu"
    BY <1>2, <2>3
  <2>4. QED
    BY <1>4, <2>1, <2>2, <2>3
<1>6. best \in RootEntries(server) => Decides(best, server, "tcp", flags, "cpu")
  BY <1>1, <1>2, <1>5 DEF Decides
<1>7. Decides(best, server, "tcp", flags, "cpu") => RootPipes[server]["tcp"][flags] = {"cpu"}
  BY PipeDecided DEF Protocols
<1>8. QED
  BY <1>3, <1>6, <1>7
-----------------------------------------------------------------------------
(* Where a packet ends up.                                                 *)

LEMMA KindOfFlags ==
  ASSUME NEW flags \in SUBSET TcpFlags
  PROVE  KindOf(flags) = "OTHER" <=> flags = {}
<1>1. CASE "RST" \in flags
  BY <1>1 DEF KindOf
<1>2. CASE "RST" \notin flags /\ "FIN" \in flags
  BY <1>2 DEF KindOf
<1>3. CASE flags = {"SYN"}
  BY <1>3 DEF KindOf
<1>4. CASE flags = {}
  BY <1>4 DEF KindOf
<1>5. QED
  BY <1>1, <1>2, <1>3, <1>4 DEF TcpFlags

LEMMA TcpPipes ==
  ASSUME NEW flags \in SUBSET TcpFlags
  PROVE  /\ RootPipes[FALSE]["tcp"][flags] = {"gpu"}
         /\ RootPipes[TRUE]["tcp"][flags] = IF flags = {} THEN {"gpu"} ELSE {"cpu"}
<1>1. RootPipes[FALSE]["tcp"][flags] = {"gpu"}
  BY TcpDataPackets
<1>2. flags = {} => RootPipes[TRUE]["tcp"][flags] = {"gpu"}
  BY TcpDataPackets
<1>3. flags # {} => RootPipes[TRUE]["tcp"][flags] = {"cpu"}
  BY TcpControlPackets
<1>4. QED
  BY <1>1, <1>2, <1>3

LEMMA OneDestination ==
  ASSUME NEW server, NEW known, NEW p, NEW pipe, RootPipes[server][p.proto][p.flags] = {pipe}
  PROVE  Destinations(server, known, p) =
           {IF Takes(pipe, server, known, p) THEN pipe ELSE "dropped"}
BY DEF Destinations

LEMMA OtherDestination ==
  ASSUME NEW server \in BOOLEAN, NEW known, NEW proto \in Protocols \ {"tcp"}
  PROVE  Destinations(server, known, [proto |-> proto, key |-> NoKey, flags |-> {}]) =
           {IF proto = "other" THEN "kernel" ELSE proto}
<1> DEFINE p == [proto |-> proto, key |-> NoKey, flags |-> {}]
<1>1. p.proto = proto /\ p.flags = {} /\ {} \in SUBSET TcpFlags
  OBVIOUS
<1> HIDE DEF p
<1>2. CASE proto = "udp"
  <2>1. Takes("udp", server, known, p)
    BY <1>1, <1>2 DEF Takes, UdpPipe
  <2>2. RootPipes[server][p.proto][p.flags] = {"udp"}
    BY <1>1, <1>2, UdpPackets
  <2>3. Destinations(server, known, p) = {"udp"}
    BY <2>1, <2>2, OneDestination
  <2>4. QED
    BY <1>2, <2>3 DEF p
<1>3. CASE proto = "icmp"
  <2>1. Takes("icmp", server, known, p)
    BY <1>1, <1>3 DEF Takes, IcmpPipe
  <2>2. RootPipes[server][p.proto][p.flags] = {"icmp"}
    BY <1>1, <1>3, IcmpPackets
  <2>3. Destinations(server, known, p) = {"icmp"}
    BY <2>1, <2>2, OneDestination
  <2>4. QED
    BY <1>3, <2>3 DEF p
<1>4. CASE proto = "other"
  <2>1. RootPipes[server][p.proto][p.flags] = {}
    BY <1>1, <1>4, OtherPackets
  <2>2. Destinations(server, known, p) = {"kernel"}
    BY <2>1 DEF Destinations
  <2>3. QED
    BY <1>4, <2>2 DEF p
<1>5. QED
  BY <1>2, <1>3, <1>4 DEF Protocols

LEMMA AlwaysRoutedRight == RoutedRight
<1>1. ASSUME NEW server \in BOOLEAN, NEW proto \in Protocols \ {"tcp"}
      PROVE  Destinations(server, Known, [proto |-> proto, key |-> NoKey, flags |-> {}]) =
               {IF proto = "other" THEN "kernel" ELSE proto}
  BY OtherDestination, Zenon
<1>2. ASSUME NEW flags \in SUBSET TcpFlags
      PROVE  Destinations(FALSE, Known, Tcp(NoKey, flags)) = {"gpu"}
  BY TcpPipes DEF Destinations, Takes, TcpGpuPipe, Tcp
<1>3. ASSUME NEW flags \in SUBSET TcpFlags, KindOf(flags) # "OTHER", NEW k \in Keys
      PROVE  Destinations(TRUE, Known, Tcp(k, flags)) = {"cpu"}
  <2>1. flags # {}
    BY <1>3, KindOfFlags
  <2>2. RootPipes[TRUE]["tcp"][flags] = {"cpu"}
    BY <2>1, TcpPipes
  <2>3. QED
    BY <2>1, <2>2 DEF Destinations, Takes, TcpCpuPipe, Tcp
<1>4. ASSUME NEW k \in Known
      PROVE  Destinations(TRUE, Known, Tcp(k, {})) = {"gpu"}
  BY TcpPipes DEF Destinations, Takes, TcpGpuPipe, Tcp
<1>5. QED
  BY <1>1, <1>2, <1>3, <1>4, Zenon DEF RoutedRight
-----------------------------------------------------------------------------
(* LiveInv is inductive.                                                   *)

LEMMA InitLiveInv == Init => LiveInv
BY DEF Init, LiveInv, OwnFlow, FlowLive

\* A thread in the middle of a teardown keeps its session to itself.
LEMMA SessionOfOne ==
  ASSUME StateInv, TableInv, NEW p \in Queues, NEW q \in Queues,
         pc[p] \in SessionSteps, pc[q] \in SessionSteps, heapKey[sess[p]] = heapKey[sess[q]]
  PROVE  p = q
<1>1. burst[p] # <<>> /\ burst[q] # <<>>
  BY DEF StateInv, PacketPending, PacketSteps, SessionSteps, TeardownSteps, SetupSteps
<1>2. RssQueue[Pkt(p).key] = p /\ RssQueue[Pkt(q).key] = q
  BY <1>1, OwnConnection DEF TableInv
<1>3. heapKey[sess[p]] = Pkt(p).key /\ heapKey[sess[q]] = Pkt(q).key
  BY DEF TableInv, Hands
<1>4. QED
  BY <1>2, <1>3

\* A session that is being deleted stays so while another thread moves.
LEMMA DeletionStands ==
  ASSUME NEW q \in Queues, OthersStand(q), NEW p \in Queues \ {q}
  PROVE  pc'[p] = pc[p] /\ sess'[p] = sess[p]
BY DEF OthersStand

LEMMA LiveUntouched ==
  ASSUME LiveInv, NEW q \in Queues, OthersStand(q), UNCHANGED offload, pc[q] # "delete"
  PROVE  LiveInv'
<1>1. OwnFlow'
  BY DEF LiveInv, OwnFlow, offload
<1>2. ASSUME NEW e \in Entries
      PROVE  FlowLive(e)'
  <2>1. CASE entryFlow[e] = NoFlow \/ flowKey[entryFlow[e]] = heapKey[e]
    BY <2>1 DEF FlowLive, offload
  <2>2. CASE \E p \in Queues : sess[p] = e /\ pc[p] = "delete"
    BY <2>2, DeletionStands DEF FlowLive
  <2>3. QED
    BY <2>1, <2>2 DEF LiveInv, FlowLive
<1>3. QED
  BY <1>1, <1>2 DEF LiveInv

LEMMA QuietKeepsLive ==
  ASSUME StateInv, LiveInv, NEW q \in Queues, Progress(q) \/ Callback(q) \/ Stop(q),
         ~DisableOffload(q), ~DeleteSession(q), ~AllocSession(q),
         ~EnableOffload(q), ~EnableUnprocessed(q)
  PROVE  LiveInv'
<1> DEFINE Quiet == UNCHANGED offload /\ pc[q] # "delete"
<1>1. CASE Progress(q) \/ Stop(q)
  <2>1. Quiet
    BY <1>1 DEF Progress, Stop, EnterProgress, Idle, Receive, ReceiveError, TxComplete
  <2>2. QED
    BY <2>1, StepOfThread, LiveUntouched
<1>2. CASE SkipPacket(q) \/ LookupMiss(q) \/ LookupHit(q) \/ AllocFails(q) \/ DisableFails(q)
  <2>1. Quiet
    BY <1>2 DEF SkipPacket, LookupMiss, LookupHit, AllocFails, DisableFails, At
  <2>2. QED
    BY <2>1, StepOfThread, LiveUntouched
<1>3. CASE EnableFails(q) \/ PickSlot(q) \/ InsertFails(q) \/ WriteSlot(q)
  <2>1. Quiet
    BY <1>3 DEF EnableFails, PickSlot, InsertFails, WriteSlot
  <2>2. QED
    BY <2>1, StepOfThread, LiveUntouched
<1>4. CASE MakeAck(q) \/ OptionWalkSpins(q) \/ AckFails(q)
  <2>1. Quiet
    BY <1>4 DEF MakeAck, OptionWalkSpins, AckFails
  <2>2. QED
    BY <2>1, StepOfThread, LiveUntouched
<1>5. CASE FinishBurst(q) \/ SubmitBatch(q) \/ \E fatal \in BOOLEAN : DropBatch(q, fatal)
  <2>1. Quiet
    BY <1>5 DEF FinishBurst, SubmitBatch, DropBatch
  <2>2. QED
    BY <2>1, StepOfThread, LiveUntouched
<1>6. QED
  BY <1>1, <1>2, <1>3, <1>4, <1>5 DEF Callback

LEMMA DisableKeepsLive ==
  ASSUME StateInv, TableInv, FlowInv, LiveInv, NEW q \in Queues, DisableOffload(q)
  PROVE  LiveInv'
<1> DEFINE f == entryFlow[sess[q]]
<1>1. /\ pc[q] = "disable" /\ pc'[q] = "delete" /\ UNCHANGED <<heapKey, entryFlow, sess>>
      /\ f # NoFlow /\ flowKey' = [flowKey EXCEPT ![f] = NoKey]
  BY DEF DisableOffload, Goto, StateInv, StateOK
<1>2. sess[q] \in Entries
  BY <1>1 DEF TableInv, Hands, SessionSteps, TeardownSteps
<1>3. f \in Flows /\ \A g \in Flows : flowKey'[g] = IF g = f THEN NoKey ELSE flowKey[g]
  BY <1>1, <1>2 DEF StateInv, StateOK
<1>4. \A e \in Entries : entryFlow[e] \in Flows \cup {NoFlow}
                         /\ (entryFlow[e] # NoFlow => heapKey[e] # NoKey)
  BY DEF StateInv, StateOK, FlowInv
<1>5. OthersStand(q)
  BY StepOfThread DEF Callback
<1>6. flowKey[f] = heapKey[sess[q]]
  <2>1. ASSUME NEW p \in Queues, sess[p] = sess[q], pc[p] = "delete"
        PROVE  FALSE
    BY <1>1, <2>1, SessionOfOne DEF SessionSteps, TeardownSteps
  <2>2. QED
    BY <1>1, <1>2, <2>1 DEF LiveInv, FlowLive
<1> HIDE DEF f
<1>7. ASSUME NEW e \in Entries
      PROVE  FlowLive(e)'
  <2>1. CASE e = sess[q]
    BY <1>1, <2>1 DEF FlowLive
  <2>2. CASE entryFlow[e] = NoFlow
    BY <1>1, <2>2 DEF FlowLive
  <2>3. CASE \E p \in Queues : sess[p] = e /\ pc[p] = "delete"
    <3>1. PICK p \in Queues : sess[p] = e /\ pc[p] = "delete"
      BY <2>3
    <3>2. p # q
      BY <1>1, <3>1
    <3>3. QED
      BY <1>5, <3>1, <3>2, DeletionStands DEF FlowLive
  <2>4. CASE e # sess[q] /\ entryFlow[e] # NoFlow /\ flowKey[entryFlow[e]] = heapKey[e]
    <3>1. entryFlow[e] # f
      BY <1>1, <1>2, <1>6, <2>4 DEF LiveInv, OwnFlow, f
    <3>2. QED
      BY <1>1, <1>3, <1>4, <2>4, <3>1 DEF FlowLive
  <2>5. QED
    BY <2>1, <2>2, <2>3, <2>4 DEF LiveInv, FlowLive
<1>8. OwnFlow'
  BY <1>1, <1>3, <1>4 DEF LiveInv, OwnFlow
<1>9. QED
  BY <1>7, <1>8 DEF LiveInv

LEMMA DeleteKeepsLive ==
  ASSUME StateInv, TableInv, LiveInv, NEW q \in Queues, DeleteSession(q)
  PROVE  LiveInv'
<1>1. sess[q] \in Entries
  BY DEF DeleteSession, TableInv, Hands, SessionSteps, TeardownSteps
<1>2. /\ entryFlow'[sess[q]] = NoFlow /\ UNCHANGED flowKey
      /\ \A e \in Entries \ {sess[q]} : heapKey'[e] = heapKey[e] /\ entryFlow'[e] = entryFlow[e]
  BY <1>1 DEF DeleteSession, StateInv, StateOK
<1>3. OthersStand(q)
  BY StepOfThread DEF Callback
<1>4. ASSUME NEW e \in Entries
      PROVE  FlowLive(e)'
  <2>1. CASE e = sess[q]
    BY <1>2, <2>1 DEF FlowLive
  <2>2. CASE e # sess[q] /\ \E p \in Queues : sess[p] = e /\ pc[p] = "delete"
    <3>1. PICK p \in Queues : sess[p] = e /\ pc[p] = "delete" /\ p # q
      BY <2>2
    <3>2. QED
      BY <1>3, <3>1, DeletionStands DEF FlowLive
  <2>3. CASE e # sess[q] /\ (entryFlow[e] = NoFlow \/ flowKey[entryFlow[e]] = heapKey[e])
    BY <1>2, <2>3 DEF FlowLive
  <2>4. QED
    BY <2>1, <2>2, <2>3 DEF LiveInv, FlowLive
<1>5. OwnFlow'
  BY <1>2 DEF LiveInv, OwnFlow
<1>6. QED
  BY <1>4, <1>5 DEF LiveInv

LEMMA AllocKeepsLive ==
  ASSUME StateInv, FlowInv, LiveInv, NEW q \in Queues, AllocSession(q)
  PROVE  LiveInv'
<1>1. PICK e \in Entries : /\ heapKey[e] = NoKey
                           /\ heapKey' = [heapKey EXCEPT ![e] = Pkt(q).key]
  BY DEF AllocSession
<1>2. /\ UNCHANGED <<entryFlow, flowKey>> /\ entryFlow[e] = NoFlow /\ pc[q] # "delete"
      /\ \A x \in Entries \ {e} : heapKey'[x] = heapKey[x]
  BY <1>1 DEF AllocSession, At, FlowInv, StateInv, StateOK
<1>3. OthersStand(q)
  BY StepOfThread DEF Callback
<1>4. ASSUME NEW x \in Entries
      PROVE  FlowLive(x)'
  <2>1. CASE \E p \in Queues : sess[p] = x /\ pc[p] = "delete"
    BY <1>2, <1>3, <2>1, DeletionStands DEF FlowLive
  <2>2. CASE entryFlow[x] = NoFlow \/ flowKey[entryFlow[x]] = heapKey[x]
    BY <1>2, <2>2 DEF FlowLive
  <2>3. QED
    BY <2>1, <2>2 DEF LiveInv, FlowLive
<1>5. OwnFlow'
  BY <1>2 DEF LiveInv, OwnFlow
<1>6. QED
  BY <1>4, <1>5 DEF LiveInv

\* The flow that is handed out was nobody's, but for sessions whose deletion is
\* under way, and these are of other connections.
LEMMA EnableKeepsLive ==
  ASSUME StateInv, TableInv, FlowInv, LiveInv, NEW q \in Queues,
         EnableOffload(q) \/ EnableUnprocessed(q)
  PROVE  LiveInv'
<1>1. PICK f \in Flows : AddFlow(q, f)
  BY DEF EnableOffload, EnableUnprocessed
<1>2. sess[q] \in Entries /\ heapKey[sess[q]] = Pkt(q).key
  BY <1>1 DEF TableInv, Hands, SessionSteps, SetupSteps, AddFlow
<1>3. /\ flowKey[f] = NoKey /\ pc[q] = "enable"
      /\ flowKey' = [flowKey EXCEPT ![f] = Pkt(q).key]
      /\ entryFlow' = [entryFlow EXCEPT ![sess[q]] = f]
  BY <1>1 DEF AddFlow
<1>4. /\ flowKey'[f] = heapKey[sess[q]] /\ \A g \in Flows \ {f} : flowKey'[g] = flowKey[g]
      /\ entryFlow'[sess[q]] = f /\ \A e \in Entries \ {sess[q]} : entryFlow'[e] = entryFlow[e]
      /\ UNCHANGED heapKey
  BY <1>1, <1>2, <1>3 DEF AddFlow, StateInv, StateOK
<1>5. OthersStand(q)
  BY StepOfThread DEF Callback
<1>6. \A e \in Entries : entryFlow[e] \in Flows \cup {NoFlow}
                         /\ (entryFlow[e] # NoFlow => heapKey[e] # NoKey)
  BY DEF StateInv, StateOK, FlowInv
<1>7. ASSUME NEW e \in Entries \ {sess[q]}, entryFlow[e] = f
      PROVE  \E p \in Queues \ {q} : sess[p] = e /\ pc[p] = "delete"
  BY <1>3, <1>6, <1>7, NullAssumption DEF LiveInv, FlowLive
<1>8. ASSUME NEW e \in Entries
      PROVE  FlowLive(e)'
  <2>1. CASE e = sess[q]
    BY <1>4, <2>1 DEF FlowLive
  <2>2. CASE \E p \in Queues : sess[p] = e /\ pc[p] = "delete"
    BY <1>3, <1>5, <2>2, DeletionStands DEF FlowLive
  <2>3. CASE e # sess[q] /\ entryFlow[e] = f
    BY <1>7, <2>2, <2>3
  <2>4. CASE e # sess[q] /\ entryFlow[e] # f
                         /\ (entryFlow[e] = NoFlow \/ flowKey[entryFlow[e]] = heapKey[e])
    BY <1>4, <1>6, <2>4 DEF FlowLive
  <2>5. QED
    BY <2>1, <2>2, <2>3, <2>4 DEF LiveInv, FlowLive
<1>9. OwnFlow'
  <2>1. SUFFICES ASSUME NEW e \in Entries, NEW d \in Entries,
                        entryFlow'[e] # NoFlow, entryFlow'[e] = entryFlow'[d],
                        flowKey'[entryFlow'[e]] = heapKey[e], heapKey[e] = heapKey[d]
                 PROVE  e = d
    BY <1>4 DEF OwnFlow
  <2>2. CASE entryFlow'[e] # f
    <3>1. e # sess[q] /\ d # sess[q]
      BY <1>4, <2>1, <2>2
    <3>2. QED
      BY <1>4, <1>6, <2>1, <2>2, <3>1 DEF LiveInv, OwnFlow
  <2>3. CASE entryFlow'[e] = f
    <3>1. ASSUME NEW x \in Entries, entryFlow'[x] = f, heapKey[x] = heapKey[sess[q]]
          PROVE  x = sess[q]
      <4>1. SUFFICES ASSUME x # sess[q] PROVE FALSE
        OBVIOUS
      <4>2. entryFlow[x] = f
        BY <1>4, <3>1, <4>1
      <4>3. PICK p \in Queues \ {q} : sess[p] = x /\ pc[p] = "delete"
        BY <1>7, <4>1, <4>2
      <4>4. QED
        BY <1>3, <3>1, <4>3, SessionOfOne DEF SessionSteps, TeardownSteps, SetupSteps
    <3>2. QED
      BY <1>4, <2>1, <2>3, <3>1
  <2>4. QED
    BY <2>2, <2>3
<1>10. QED
  BY <1>8, <1>9 DEF LiveInv

LEMMA NextLiveInv ==
  StateInv /\ TableInv /\ FlowInv /\ LiveInv /\ [Next]_vars => LiveInv'
<1>1. SUFFICES ASSUME StateInv, TableInv, FlowInv, LiveInv, [Next]_vars PROVE LiveInv'
  OBVIOUS
<1>2. ASSUME NEW q \in Queues, Progress(q) \/ Callback(q) \/ Stop(q)
      PROVE  LiveInv'
  BY <1>1, <1>2, QuietKeepsLive, DisableKeepsLive, DeleteKeepsLive, AllocKeepsLive,
     EnableKeepsLive
<1>3. CASE Quit \/ (\E f \in Flows : FlowSettles(f)) \/ UNCHANGED vars
  <2>1. UNCHANGED <<heapKey, entryFlow, flowKey, pc, sess>>
    BY <1>3 DEF Quit, FlowSettles, vars, threadVars, offload
  <2>2. QED
    BY <1>1, <2>1 DEF LiveInv, OwnFlow, FlowLive
<1>4. QED
  BY <1>1, <1>2, <1>3 DEF Next

LEMMA LiveInvariant == Spec => []LiveInv
<1>1. Init => LiveInv
  BY InitLiveInv
<1>2. StateInv /\ TableInv /\ FlowInv /\ LiveInv /\ [Next]_vars => LiveInv'
  BY NextLiveInv
<1>3. QED
  BY <1>1, <1>2, SessionInvariants, PTL DEF Spec
-----------------------------------------------------------------------------
(* Theorems.                                                               *)

\* In every state of the connection tracking the entries of create_root_pipe
\* and of the pipes behind it send a packet where RoutedRight says.
THEOREM RoutedAlwaysRight == Spec => []RoutedRight
<1>1. RoutedRight
  BY AlwaysRoutedRight
<1>2. QED
  BY <1>1, PTL

\* A connection nobody works on and no ignored failure touched.
LEMMA KnownHasSession ==
  ASSUME StateInv, TableInv, FlowInv, AloneInv, LiveInv, NEW k \in Keys \ excused, ~InWork(k)
  PROVE  k \in Known <=> \E s \in SlotsOf(k) : entryFlow[table[s].entry] \in installed
<1>1. k # NoKey
  BY NullAssumption
<1>2. ASSUME k \in Known
      PROVE  \E s \in SlotsOf(k) : entryFlow[table[s].entry] \in installed
  <2>1. PICK f \in installed : flowKey[f] = k
    BY <1>2 DEF Known
  <2>2. f \in Flows
    BY <2>1 DEF StateInv, StateOK
  <2>3. PICK e \in Entries : entryFlow[e] = f /\ heapKey[e] = k
    BY <1>1, <2>1, <2>2 DEF FlowInv, FlowsTracked
  <2>4. \A q \in Queues : sess[q] # e
    BY <2>3, NullAssumption DEF InWork
  <2>5. PICK s \in Slots : table[s].entry = e
    BY <1>1, <2>3, <2>4 DEF AloneInv, SessionsTracked
  <2>6. table[s].key = k
    BY <2>3, <2>5, NullAssumption DEF TableInv, SlotOK, Empty
  <2>7. QED
    BY <2>1, <2>3, <2>5, <2>6 DEF SlotsOf
<1>3. ASSUME NEW s \in SlotsOf(k), entryFlow[table[s].entry] \in installed
      PROVE  k \in Known
  <2>1. table[s].entry \in Entries /\ heapKey[table[s].entry] = k
    BY <1>1 DEF TableInv, SlotOK, Empty, SlotsOf
  <2>2. entryFlow[table[s].entry] # NoFlow
    BY <1>3, NullAssumption DEF StateInv, StateOK
  <2>3. \A q \in Queues : sess[q] # table[s].entry
    BY <2>1, NullAssumption DEF InWork
  <2>4. flowKey[entryFlow[table[s].entry]] = k
    BY <2>1, <2>2, <2>3 DEF LiveInv, FlowLive
  <2>5. QED
    BY <1>3, <2>4 DEF Known
<1>4. QED
  BY <1>2, <1>3

\* With one thread the data of a connection reaches the GPU exactly while
\* tcp_session_table has it with a flow that is in the hardware.
THEOREM DataFollowsTheSession == ASSUME OneThread PROVE Spec => []DataFollowsSession
<1>1. StateInv /\ TableInv /\ FlowInv /\ AloneInv /\ LiveInv => DataFollowsSession
  <2>1. SUFFICES ASSUME StateInv, TableInv, FlowInv, AloneInv, LiveInv,
                        NEW k \in Keys \ excused, ~InWork(k)
                 PROVE  Destinations(TRUE, Known, Tcp(k, {})) = {"gpu"}
                          <=> \E s \in SlotsOf(k) : entryFlow[table[s].entry] \in installed
    BY DEF DataFollowsSession
  <2>2. RootPipes[TRUE]["tcp"][{}] = {"gpu"}
    BY TcpPipes
  <2>3. Destinations(TRUE, Known, Tcp(k, {})) = IF k \in Known THEN {"gpu"} ELSE {"dropped"}
    BY <2>2 DEF Destinations, Takes, TcpGpuPipe, Tcp
  <2>4. Destinations(TRUE, Known, Tcp(k, {})) = {"gpu"} <=> k \in Known
    BY <2>3
  <2>5. QED
    BY <2>1, <2>4, KnownHasSession
<1>2. QED
  BY <1>1, SessionInvariants, AloneInvariant, LiveInvariant, PTL
=============================================================================
