---------------------------- MODULE MCTcpSession ----------------------------
(* Instances of TcpSession for TLC. *)
EXTENDS TcpRouting, TLC

CONSTANTS k1, k2, k3, q1, q2

\* One CPU RSS queue takes the packets of both connections.
OneQueue == [k \in Keys |-> q1]

\* RSS spreads the connections over the two queues.
TwoQueues == (k1 :> q1) @@ (k2 :> q2)
Symmetry == Permutations(Keys) \cup Permutations(Entries) \cup Permutations(Flows) \cup Permutations(Slots)
=============================================================================
