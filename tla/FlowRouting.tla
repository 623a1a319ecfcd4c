---------------------------- MODULE FlowRouting -----------------------------
(***************************************************************************)
(* Where the NIC takes a packet (config_queues/flow.c).  The root pipe     *)
(* hands it to one of four pipes by protocol and TCP flags; that pipe      *)
(* spreads it over the receive queues of its name or drops it.  A packet   *)
(* is an IPv4 packet: its protocol, the TCP flags somebody looks at and    *)
(* the connection.  server stands for the option http_server, known for    *)
(* the connections with an entry in the pipe rxq_pipe_gpu.                 *)
(***************************************************************************)
EXTENDS Naturals

Protocols == {"udp", "tcp", "icmp", "other"}
TcpFlags  == {"SYN", "FIN", "RST"}

Entry(priority, proto, flags, pipe) ==
  [priority |-> priority, proto |-> proto, flags |-> flags, pipe |-> pipe]

\* Mutant: the entries of the CPU pipe get the low priority as well.
RootEntriesAllLow(server) ==
  {Entry(0, "udp", {}, "udp"), Entry(3, "icmp", {}, "icmp"), Entry(3, "tcp", {}, "gpu")}
  \cup {Entry(3, "tcp", {f}, "cpu") : f \in IF server THEN TcpFlags ELSE {}}

\* create_root_pipe.  The CPU pipe exists in server mode only.
RootEntries(server) ==
  {Entry(0, "udp", {}, "udp"), Entry(3, "icmp", {}, "icmp"), Entry(3, "tcp", {}, "gpu")}
  \cup {Entry(1, "tcp", {f}, "cpu") : f \in IF server THEN TcpFlags ELSE {}}

\* The pipes the root pipe hands a packet to.  The mask of a CPU entry leaves
\* only its own flag to be compared.  The lowest number wins; among equals
\* nothing is said.
RootPipes ==
  [server \in BOOLEAN |-> [proto \in Protocols |-> [flags \in SUBSET TcpFlags |->
     LET matching == {e \in RootEntries(server) : proto = e.proto /\ e.flags \subseteq flags}
     IN  {e.pipe : e \in {x \in matching : \A y \in matching : x.priority <= y.priority}}]]]

\* What the other pipes have an entry for: one for all of the protocol, but for
\* the GPU's TCP pipe in server mode, to which enable_tcp_gpu_offload adds one
\* per connection.
UdpPipe(p)    == p.proto = "udp"
TcpCpuPipe(p) == p.proto = "tcp"
IcmpPipe(p)   == p.proto = "icmp"
TcpGpuPipe(server, known, p) == p.proto = "tcp" /\ (server => p.key \in known)

Takes(pipe, server, known, p) ==
  \/ pipe = "udp"  /\ UdpPipe(p)
  \/ pipe = "cpu"  /\ TcpCpuPipe(p)
  \/ pipe = "icmp" /\ IcmpPipe(p)
  \/ pipe = "gpu"  /\ TcpGpuPipe(server, known, p)

\* A pipe drops what it has no entry for.  What the root pipe has none for is
\* left to the kernel: DOCA Flow runs in isolated mode.
Destinations(server, known, p) ==
  LET pipes == RootPipes[server][p.proto][p.flags]
  IN  IF pipes = {} THEN {"kernel"}
      ELSE {IF Takes(pipe, server, known, p) THEN pipe ELSE "dropped" : pipe \in pipes}
=============================================================================
