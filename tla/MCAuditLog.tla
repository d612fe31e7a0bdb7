------------------------------ MODULE MCAuditLog ------------------------------
(***************************************************************************)
(* AuditLog for TLC.                                                       *)
(***************************************************************************)
EXTENDS AuditLog
==============================================================================
