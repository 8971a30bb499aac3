------------------------- MODULE PreservationGate -------------------------
(***************************************************************************)
(* What a capability-preservation run promises, without the Git workspace, *)
(* the ledger, the critic and the clock: product-truth evidence is         *)
(* gathered once per artifact and in order, each piece licensing the next, *)
(* and the run reports one final outcome, which is no better than that     *)
(* evidence and never changes.                                             *)
(***************************************************************************)

VARIABLES
    evidence,  \* evidence[t]: what the probe of artifact t showed
    outcome    \* the status of the final receipt and the disposition it
               \* gives the capability, once there is one
gate == <<evidence, outcome>>

Targets == {"baseline", "first", "second"}
Results == {"passed", "failed", "inconclusive"}
Open == <<"open", "none">>
Unknown == [t \in Targets |-> "not_run"]

Init == evidence = Unknown /\ outcome = Open

\* Work starts from a passing baseline; a repair starts from a measured regression.
Licensed(t) ==
    /\ t = "first" => evidence["baseline"] = "passed"
    /\ t = "second" => evidence["first"] = "failed"

Learn(t, result) ==
    /\ outcome = Open
    /\ evidence[t] = "not_run"
    /\ Licensed(t)
    /\ evidence' = [evidence EXCEPT ![t] = result]
    /\ UNCHANGED outcome

\* What is known of the latest integrated artifact.
After ==
    IF evidence["second"] # "not_run" THEN evidence["second"] ELSE evidence["first"]

Disposition ==
    CASE evidence["baseline"] = "passed" /\ After = "passed" -> "preserved"
      [] After = "failed" -> "degraded"
      [] OTHER -> "unproven"

\* The statuses the evidence admits.
Admitted ==
    {"budget_exhausted"}
    \union (IF evidence = Unknown THEN {"mission_mismatch"} ELSE {})
    \union (IF Disposition = "unproven" /\ evidence # Unknown THEN {"capability_unproven"} ELSE {})
    \union (IF evidence["second"] = "passed" THEN {"completed"} ELSE {})

Report ==
    /\ outcome = Open
    /\ \E status \in Admitted: outcome' = <<status, Disposition>>
    /\ UNCHANGED evidence

Next ==
    \/ \E t \in Targets, result \in Results: Learn(t, result)
    \/ Report

Spec == Init /\ [][Next]_gate
=============================================================================
