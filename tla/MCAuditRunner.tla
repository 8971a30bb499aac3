---------------------------- MODULE MCAuditRunner ----------------------------
(***************************************************************************)
(* Instances of AuditRunner for TLC: the constants are given in the cfg.   *)
(***************************************************************************)
EXTENDS AuditRunner
=============================================================================
