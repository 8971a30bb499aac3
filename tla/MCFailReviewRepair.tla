------------------------- MODULE MCFailReviewRepair -------------------------
(***************************************************************************)
(* Instances of FailReviewRepair for TLC.                                  *)
(***************************************************************************)
EXTENDS FailReviewRepair

\* Refused, none, the default, and more than the fixture ever uses.
MCArguments == -1..2
==============================================================================
