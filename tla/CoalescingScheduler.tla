------------------------- MODULE CoalescingScheduler -------------------------
(***************************************************************************)
(* What internal/worker/pool.go promises its callers, with no worker, lane *)
(* or lock in sight: requests for a key coalesce until its work begins, a  *)
(* request made while the work runs earns one more run, one key is never   *)
(* run twice at a time, and nothing begins once the scheduler is closed.   *)
(***************************************************************************)
CONSTANT Key

VARIABLES wanted,   \* keys whose work was requested and has not begun since
          active,   \* keys whose work is under way
          closed

vars == <<wanted, active, closed>>

TypeOK ==
    /\ wanted \subseteq Key
    /\ active \subseteq Key
    /\ closed \in BOOLEAN

Init ==
    /\ wanted = {}
    /\ active = {}
    /\ closed = FALSE

Request(k) ==
    /\ ~closed
    /\ k \notin wanted
    /\ wanted' = wanted \cup {k}
    /\ UNCHANGED <<active, closed>>

Begin(k) ==
    /\ ~closed
    /\ k \in wanted \ active
    /\ wanted' = wanted \ {k}
    /\ active' = active \cup {k}
    /\ UNCHANGED closed

End(k) ==
    /\ k \in active
    /\ active' = active \ {k}
    /\ UNCHANGED <<wanted, closed>>

\* One run ends and the requested follow-up begins in the same step.
Again(k) ==
    /\ ~closed
    /\ k \in wanted \cap active
    /\ wanted' = wanted \ {k}
    /\ UNCHANGED <<active, closed>>

Close ==
    /\ ~closed
    /\ closed' = TRUE
    /\ UNCHANGED <<wanted, active>>

Next ==
    \/ \E k \in Key : Request(k) \/ Begin(k) \/ End(k) \/ Again(k)
    \/ Close

Spec == Init /\ [][Next]_vars
=============================================================================
