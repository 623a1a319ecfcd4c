---------------------------- MODULE StatsLedger ----------------------------
(***************************************************************************)
(* What the filter statistics promise: every burst of packets a receive    *)
(* kernel takes is reported and added to the counters of its queue once,   *)
(* whole and in order, until a report finds all the Capacity reports       *)
(* before it still uncounted.  From then on nothing is promised for that   *)
(* queue.  When the kernels are stopped no burst is taken any more, and    *)
(* only an error that stops them can cut or lose the one at hand.          *)
(***************************************************************************)
EXTENDS Naturals, Sequences

CONSTANTS Rings,     \* one per receive queue
          Capacity,  \* reports that can wait to be counted
          Batches,   \* the counts that a burst of packets can give
          None       \* no burst

VARIABLES current,   \* the burst a receive kernel is working on
          pending,   \* reported and not yet counted
          counted,   \* the report counted last
          lost,      \* the ring of reports has overflown
          stopped    \* the kernels are to end

vars == <<current, pending, counted, lost, stopped>>

Init == /\ current = [r \in Rings |-> None]
        /\ pending = [r \in Rings |-> <<>>]
        /\ counted = [r \in Rings |-> None]
        /\ lost    = [r \in Rings |-> FALSE]
        /\ stopped = FALSE

Receive(r) == /\ ~stopped /\ current[r] = None
              /\ \E b \in Batches : current' = [current EXCEPT ![r] = b]
              /\ UNCHANGED <<pending, counted, lost, stopped>>

Halt == /\ ~stopped
        /\ stopped' = TRUE
        /\ UNCHANGED <<current, pending, counted, lost>>

\* The kernel ends with an error before it has reported the burst.
Drop(r) == /\ current' = [current EXCEPT ![r] = None]
           /\ stopped' = TRUE
           /\ UNCHANGED <<pending, counted, lost>>

\* An error leaves packets of the burst out of their classes.
Parts(b) == {d \in [DOMAIN b -> UNION {0..b[f] : f \in DOMAIN b}] :
               d["total"] = b["total"] /\ \A f \in DOMAIN b : d[f] <= b[f]}
Cut(r) == /\ current[r] # None
          /\ \E d \in Parts(current[r]) : current' = [current EXCEPT ![r] = d]
          /\ stopped' = TRUE
          /\ UNCHANGED <<pending, counted, lost>>

Report(r) ==
  /\ current[r] # None
  /\ current' = [current EXCEPT ![r] = None]
  /\ pending' = IF lost[r] THEN pending
                ELSE [pending EXCEPT ![r] = Append(@, current[r])]
  /\ UNCHANGED <<counted, lost, stopped>>

Count(r) == /\ ~lost[r] /\ pending[r] # <<>>
            /\ counted' = [counted EXCEPT ![r] = Head(pending[r])]
            /\ pending' = [pending EXCEPT ![r] = Tail(@)]
            /\ UNCHANGED <<current, lost, stopped>>

Lapse(r) == /\ ~lost[r] /\ current[r] # None
            /\ Len(pending[r]) = Capacity
            /\ lost' = [lost EXCEPT ![r] = TRUE]
            /\ pending' = [pending EXCEPT ![r] = <<>>]
            /\ counted' = [counted EXCEPT ![r] = None]
            /\ UNCHANGED <<current, stopped>>

Next == Halt \/ \E r \in Rings :
          Receive(r) \/ Drop(r) \/ Cut(r) \/ Report(r) \/ Count(r) \/ Lapse(r)

Spec == Init /\ [][Next]_vars
=============================================================================
