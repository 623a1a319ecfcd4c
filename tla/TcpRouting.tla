----------------------------- MODULE TcpRouting -----------------------------
(***************************************************************************)
(* The connection tracking together with the pipes it steers: which        *)
(* packets of a connection reach the CPU RSS threads, which the GPU.       *)
(***************************************************************************)
EXTENDS TcpSession, FlowRouting

\* The connections rxq_pipe_gpu forwards.
Known == {flowKey[f] : f \in installed}

Tcp(k, flags) == [proto |-> "tcp", key |-> k, flags |-> flags]

\* What rxq_success_cb takes a packet for: it looks at the flags in this order.
KindOf(flags) ==
  CASE "RST" \in flags -> "RST"
    [] "RST" \notin flags /\ "FIN" \in flags -> "FIN"
    [] flags = {"SYN"} -> "SYN"
    [] flags = {} -> "OTHER"

InWork(k) == \E q \in Queues : sess[q] # NoEntry /\ heapKey[sess[q]] = k

-----------------------------------------------------------------------------
(* Properties.                                                             *)

(* The entries of the root pipe that overlap never leave a packet to       *)
(* chance.  With the HTTP server the packets that open or close a          *)
(* connection reach the threads that track it, even when the GPU pipe      *)
(* knows the connection, whose data is the GPU's; without it all TCP is.   *)
(* Nor does any mode or flow move UDP, ICMP or foreign packets.            *)
RoutedRight ==
  LET known == Known
      To(server, p) == Destinations(server, known, p)
  IN  /\ \A flags \in SUBSET TcpFlags :
           /\ To(FALSE, Tcp(NoKey, flags)) = {"gpu"}
           /\ KindOf(flags) # "OTHER" => \A k \in Keys : To(TRUE, Tcp(k, flags)) = {"cpu"}
      /\ \A k \in known : To(TRUE, Tcp(k, {})) = {"gpu"}
      /\ \A server \in BOOLEAN, proto \in Protocols \ {"tcp"} :
           To(server, [proto |-> proto, key |-> NoKey, flags |-> {}]) =
             {IF proto = "other" THEN "kernel" ELSE proto}

(* Whenever no thread works on a connection, its data reaches the GPU if   *)
(* and only if the session table has it with a flow that has reached the   *)
(* hardware: neither is a closed connection still served nor one that was  *)
(* opened again left out.  Excused is a connection with an ignored failure *)
(* to remove its flow or to insert its session, or a repeated SYN; one     *)
(* whose flow could not be added, or not be processed, is not.             *)
(* The data of a connection without a flow is dropped, as flow.c:354 says; *)
(* it does not reach the CPU, as flow.c:228-230 would have it.             *)
DataFollowsSession ==
  \A k \in Keys \ excused : ~InWork(k) =>
    (Destinations(TRUE, Known, Tcp(k, {})) = {"gpu"}
       <=> \E s \in SlotsOf(k) : entryFlow[table[s].entry] \in installed)
=============================================================================
