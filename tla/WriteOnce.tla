------------------------------ MODULE WriteOnce ------------------------------
(***************************************************************************)
(* What the store promises of a decision file (.verdict, .cancel, .ack,    *)
(* .selection): "writes the verdict exactly once: one verdict wins".       *)
(* The file is a register that is set at most once.  A writer that is told *)
(* TRUE is the one whose value the register holds; a writer that is told   *)
(* FALSE learns nothing more; the register never changes once set.         *)
(***************************************************************************)
CONSTANTS Writers,   \* the goroutines that call Consume, Cancel, Ack, Select
          NoValue    \* what a reader gets while nothing is recorded

VARIABLES winner,    \* the writer whose value is recorded, NoValue before
          told       \* what each writer's call has returned

WriteOnceVars == <<winner, told>>

Init == /\ winner = NoValue
        /\ told = [w \in Writers |-> "nothing"]

\* The value of w becomes the recorded one.
Set(w) == /\ winner = NoValue
          /\ told[w] = "nothing"
          /\ winner' = w
          /\ UNCHANGED told

\* Only the winner may be told that its value was recorded.
TellWon(w) == /\ told[w] = "nothing"
              /\ winner = w
              /\ told' = [told EXCEPT ![w] = "won"]
              /\ UNCHANGED winner

\* Any call may fail: it lost, or its write or its sync failed.
TellLost(w) == /\ told[w] = "nothing"
               /\ told' = [told EXCEPT ![w] = "lost"]
               /\ UNCHANGED winner

Next == \E w \in Writers : Set(w) \/ TellWon(w) \/ TellLost(w)

Spec == Init /\ [][Next]_WriteOnceVars
==============================================================================
