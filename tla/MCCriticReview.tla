--------------------------- MODULE MCCriticReview ---------------------------
(***************************************************************************)
(* Instances of CriticReview for TLC: the limits are given in the cfg.     *)
(***************************************************************************)
EXTENDS CriticReview
=============================================================================
