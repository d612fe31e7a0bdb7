----------------------------- MODULE ApprovalGate ----------------------------
(***************************************************************************)
(* What 2fado promises of one petition that must be approved before its    *)
(* command runs, with files, goroutines, restarts and clocks left out:     *)
(*   - the command runs at most once, and only after every approval the    *)
(*     policy asks for has been recorded;                                  *)
(*   - a caller that was told the petition is denied never finds out later *)
(*     that the command ran after all.                                     *)
(***************************************************************************)
EXTENDS Naturals

CONSTANTS Petition

VARIABLES approved,   \* every approval the petition needs is recorded
          executed,   \* how many times the command has run
          closed      \* the caller has been told that it will not run

GateVars == <<approved, executed, closed>>

Init == /\ approved = [p \in Petition |-> FALSE]
        /\ executed = [p \in Petition |-> 0]
        /\ closed = [p \in Petition |-> FALSE]

\* The operator's last missing approval is recorded.
Approve(p) == /\ ~approved[p]
              /\ approved' = [approved EXCEPT ![p] = TRUE]
              /\ UNCHANGED <<executed, closed>>

Execute(p) == /\ approved[p]
              /\ executed[p] = 0
              /\ ~closed[p]
              /\ executed' = [executed EXCEPT ![p] = 1]
              /\ UNCHANGED <<approved, closed>>

\* Denied, timed out, cancelled, aborted, or stopped by a drift gate.
Refuse(p) == /\ executed[p] = 0
             /\ closed' = [closed EXCEPT ![p] = TRUE]
             /\ UNCHANGED <<approved, executed>>

Next == \E p \in Petition : Approve(p) \/ Execute(p) \/ Refuse(p)

Spec == Init /\ [][Next]_GateVars
==============================================================================
