---------------------------- MODULE MCMiniTrader ----------------------------
(* Instances of MiniTrader for TLC. *)
EXTENDS MiniTrader
MCBatchArgs == 0..3
MCGarbage == {0, 7}
=============================================================================
