--------------------------- MODULE MiniTraderOnce ---------------------------
(***************************************************************************)
(* The first mini trader (mini_trader/mini_trader.cu), which copies all    *)
(* events to the GPU at once, runs decide_orders on them and fetches the   *)
(* number of orders; every call waits for the one before.  The double      *)
(* buffering of MiniTrader is to give the same answer.                     *)
(*                                                                         *)
(* moves says of which events the price moved by more than thr.  Of the    *)
(* orders only their number is kept; the first 20, which main prints,      *)
(* cost a copy that can fail, as when there are fewer than 20 events.      *)
(***************************************************************************)
EXTENDS Integers

CONSTANTS
  MaxTotal,   \* bound on the argument n
  Garbage     \* what memory that was never written can hold

VARIABLES
  moves, n,   \* the input
  pc,         \* what main does next
  left,       \* threads of decide_orders that have still to run
  d_count,    \* *out_order_count on the GPU
  h_count

vars == <<moves, n, pc, left, d_count, h_count>>

Events == 0..MaxTotal - 1

Init ==
  /\ moves \in [Events -> BOOLEAN] /\ n \in 0..MaxTotal
  /\ pc = "prepare" /\ left = {}
  /\ d_count \in Garbage /\ h_count = 0

\* generate_market_data, cudaMalloc.
Prepare ==
  /\ pc = "prepare"
  /\ pc' = "clear"
  /\ UNCHANGED <<moves, n, left, d_count, h_count>>

ClearCount ==
  /\ pc = "clear"
  /\ pc' = "copy" /\ d_count' = 0
  /\ UNCHANGED <<moves, n, left, h_count>>

\* The events are copied, then the kernel is launched, which fails without a
\* block to run.
CopyAndLaunch ==
  /\ pc = "copy" /\ n > 0
  /\ pc' = "kernel" /\ left' = 0..n - 1
  /\ UNCHANGED <<moves, n, d_count, h_count>>

\* The first event has no return.
DecideOrder(i) ==
  /\ pc = "kernel" /\ i \in left
  /\ left' = left \ {i}
  /\ d_count' = IF i # 0 /\ moves[i] THEN d_count + 1 ELSE d_count
  /\ UNCHANGED <<moves, n, pc, h_count>>

FetchCount ==
  /\ pc = "kernel" /\ left = {}
  /\ pc' = "print" /\ h_count' = d_count
  /\ UNCHANGED <<moves, n, left, d_count>>

PrintOrders ==
  /\ pc = "print"
  /\ pc' = "done"
  /\ UNCHANGED <<moves, n, left, d_count, h_count>>

CudaError ==
  /\ pc \notin {"done", "failed"}
  /\ pc' = "failed"
  /\ UNCHANGED <<moves, n, left, d_count, h_count>>

Next == \/ Prepare \/ ClearCount \/ CopyAndLaunch \/ FetchCount \/ PrintOrders \/ CudaError
        \/ \E i \in Events : DecideOrder(i)

Spec == Init /\ [][Next]_vars
=============================================================================
