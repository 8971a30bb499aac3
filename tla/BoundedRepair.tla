---------------------------- MODULE BoundedRepair ----------------------------
(***************************************************************************)
(* What a fail-review-repair task promises: work is built, judged, and     *)
(* built again only after a verdict that asks for it and within the        *)
(* authorized number of repairs; the task closes once, either completed on *)
(* a passing verdict of its last artifact or with its rounds spent.        *)
(***************************************************************************)
EXTENDS Integers

VARIABLES limit,     \* the authorized repair rounds
          built,     \* artifacts built so far
          verdict,   \* of the last artifact: "none", "NEEDS_FIXES" or "PASS"
          outcome    \* "open", "completed" or "budget_exhausted"

vars == <<limit, built, verdict, outcome>>

Init == limit \in Int /\ built = 0 /\ verdict = "none" /\ outcome = "open"

Build ==
    /\ outcome = "open" /\ limit >= 0
    /\ built = 0 \/ (verdict = "NEEDS_FIXES" /\ built <= limit)
    /\ built' = built + 1 /\ verdict' = "none"
    /\ UNCHANGED <<limit, outcome>>

Judge ==
    /\ outcome = "open" /\ built > 0 /\ verdict = "none"
    /\ verdict' \in {"NEEDS_FIXES", "PASS"}
    /\ UNCHANGED <<limit, built, outcome>>

Close ==
    /\ outcome = "open"
    /\ \/ verdict = "PASS" /\ outcome' = "completed"
       \/ verdict = "NEEDS_FIXES" /\ built = limit + 1 /\ outcome' = "budget_exhausted"
    /\ UNCHANGED <<limit, built, verdict>>

Next == Build \/ Judge \/ Close

Spec == Init /\ [][Next]_vars
==============================================================================
