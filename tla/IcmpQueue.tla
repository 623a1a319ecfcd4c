----------------------------- MODULE IcmpQueue ------------------------------
(***************************************************************************)
(* The ICMP queue over its whole life: the queues are created, the kernel  *)
(* works on them while they are up, main has it end and destroys them.     *)
(***************************************************************************)
EXTENDS QueueResources, IcmpEcho

\* Bound: the kernel is followed in one of the two modes, and when no call
\* failed before.  It makes no difference to it.
Followed == queues = "up" /\ http_server /\ failures = 0

IcmpInit == Init /\ EchoInit

\* The buffers are gone: the kernel's state is that of a kernel not launched.
EchoForgotten ==
  /\ exit_cond' = FALSE /\ arrived' = <<>> /\ sendq' = <<>> /\ sent' = <<>> /\ overrun' = {}
  /\ slot' = EmptySlots /\ extent' = [s \in Ring |-> Leftover]
  /\ first' = 0 /\ num' = 0
  /\ pc' = [l \in Lanes |-> "loop"] /\ buf_idx' = [l \in Lanes |-> 0]

\* Queues and devices go only when the kernel has ended, and with them what
\* the slots hold.  Replies may still wait for their transmission.
QueueStep ==
  /\ Followed => All("exit")
  /\ Next
  /\ IF Followed THEN EchoForgotten ELSE UNCHANGED echoVars

KernelStep == Followed /\ EchoNext /\ UNCHANGED vars

IcmpNext == QueueStep \/ KernelStep

IcmpSpec == IcmpInit /\ [][IcmpNext]_<<vars, echoVars>>
=============================================================================
