-------------------------- MODULE MCCapabilityRun --------------------------
(***************************************************************************)
(* Instances of CapabilityRun for TLC.                                     *)
(***************************************************************************)
EXTENDS CapabilityRun

Plain == [rounds |-> 1, declared |-> TRUE, matched |-> TRUE,
          baseline |-> "normal", probe |-> "normal"]

\* Each option of the command line on its own, and one limit above the frozen one.
MCRequests ==
    { Plain, [Plain EXCEPT !.rounds = 0], [Plain EXCEPT !.rounds = 2], [Plain EXCEPT !.rounds = -1],
      [Plain EXCEPT !.declared = FALSE], [Plain EXCEPT !.matched = FALSE],
      [Plain EXCEPT !.baseline = "failed"], [Plain EXCEPT !.baseline = "inconclusive"],
      [Plain EXCEPT !.probe = "inconclusive"] }

PlainRequest == {Plain}
=============================================================================
