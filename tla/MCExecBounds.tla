----------------------------- MODULE MCExecBounds -----------------------------
(***************************************************************************)
(* ExecBounds for TLC.                                                     *)
(***************************************************************************)
EXTENDS ExecBounds

MCSecs == {-1, 0}
==============================================================================
