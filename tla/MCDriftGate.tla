------------------------------ MODULE MCDriftGate ------------------------------
(***************************************************************************)
(* DriftGate for TLC.                                                      *)
(***************************************************************************)
EXTENDS DriftGate, TLC

\* All that is not small begins alike, and differs behind the first 32 MiB.
MCSha(c) == IF c \in Small THEN c ELSE "begins alike"

Alike == Permutations(Content \ Small) \cup Permutations(Inode)
==============================================================================
