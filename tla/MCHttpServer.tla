---------------------------- MODULE MCHttpServer ----------------------------
(* Instances of HttpServer for TLC. *)
EXTENDS HttpServer, TLC

CONSTANTS r1, r2, r3

\* Two requests for one page, one for another.
TwoPages == (r1 :> "index") @@ (r2 :> "index") @@ (r3 :> "contacts")
Pair == (r1 :> "index") @@ (r2 :> "index")
=============================================================================
