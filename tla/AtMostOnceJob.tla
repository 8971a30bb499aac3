--------------------------- MODULE AtMostOnceJob ---------------------------
(***************************************************************************)
(* What a wake bridge promises its host about one locally approved job,    *)
(* whatever the number of runners, crashes and restarts: the job is        *)
(* attempted at most once, the attempt is recorded before its side effect  *)
(* happens, and the record is never reopened.                              *)
(***************************************************************************)
EXTENDS Naturals

VARIABLES
    record,   \* "ready", "claimed", "completed" or "failed"
    effects   \* how many times the host's callback has been started

vars == <<record, effects>>

Init == record = "ready" /\ effects = 0

\* The attempt becomes durable before anything outside happens.
Claim == record = "ready" /\ record' = "claimed" /\ UNCHANGED effects

\* The one side effect: only under a claim, and only the first time.
Effect == record = "claimed" /\ effects = 0 /\ effects' = 1 /\ UNCHANGED record

\* The outcome of an attempt that really took place.
Settle ==
    /\ record = "claimed" /\ effects = 1
    /\ record' \in {"completed", "failed"}
    /\ UNCHANGED effects

Next == Claim \/ Effect \/ Settle

Spec == Init /\ [][Next]_vars
=============================================================================
