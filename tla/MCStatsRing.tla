---------------------------- MODULE MCStatsRing ----------------------------
(* Instances of StatsRing for TLC. *)
EXTENDS StatsRing

\* Of a ring that was lapped nothing is promised but that it is visited: TLC does
\* not go on from states in which all the rings were lapped.
SomeRingSound == \E r \in Rings : ~lapped[r]
=============================================================================
