-------------------------- MODULE AskPetition_proofs --------------------------
(***************************************************************************)
(* Proofs about AskPetition, for any options of each kind of petition, any *)
(* number of crashes, and decision files that may be torn.                 *)
(***************************************************************************)
EXTENDS AskPetition, TLAPS

------------------------------------------------------------------------------
\* Types.

LEMMA MaxCrashesNat == MaxCrashes \in Nat
  BY AskAssumption DEF AskAssumption

LEMMA InitType == Init => TypeOK
<1> SUFFICES ASSUME Init PROVE TypeOK
    OBVIOUS
<1>1. RecordTyped /\ DecisionsTyped
      BY DEF Init, RecordTyped, DecisionsTyped
<1>2. WorldTyped
      BY DEF Init, WorldTyped
<1>3. HandlerTyped
      BY DEF Init, HandlerTyped
<1>4. PumpTyped
      BY DEF Init, PumpTyped
<1>5. crashes \in 0..MaxCrashes
      BY MaxCrashesNat DEF Init
<1>6. DaemonTyped
      BY <1>5 DEF Init, DaemonTyped
<1> QED BY <1>1, <1>2, <1>3, <1>4, <1>6 DEF TypeOK

\* A press names options of the card.
LEMMA PressOpts == \A b \in Presses \cup {NoPress} : b.opts \subseteq Option
  BY DEF Presses, NoPress

\* Every action keeps every variable in its type.
LEMMA TypeStep == TypeOK /\ [Next]_vars => TypeOK'
<1> SUFFICES ASSUME TypeOK, [Next]_vars PROVE TypeOK'
    OBVIOUS
<1> USE DEF TypeOK, RecordTyped, DecisionsTyped,
        WorldTyped, HandlerTyped, PumpTyped, DaemonTyped
<1>1. CASE Create
  <2>1. RecordTyped'
       BY <1>1 DEF Create, decisionVars, cardVars, pumpVars, answerVars, tapVars
  <2>2. WorldTyped'
       BY <1>1 DEF Create, decisionVars, cardVars, pumpVars, answerVars, tapVars
  <2>3. HandlerTyped'
       BY <1>1 DEF Create, decisionVars, cardVars, pumpVars, answerVars, tapVars
  <2> QED BY <1>1, <2>1, <2>2, <2>3 DEF Create, decisionVars, cardVars,
           pumpVars, answerVars, tapVars
<1>2. CASE Page
  <2>1. WorldTyped'
       BY <1>2 DEF Page, Paged, recVars, decisionVars, pumpVars, tapVars
  <2>2. HandlerTyped'
       BY <1>2 DEF Page, Paged, recVars, decisionVars, pumpVars, tapVars
  <2> QED BY <1>2, <2>1, <2>2 DEF Page, recVars, decisionVars, pumpVars, tapVars
<1>3. CASE AttachLoad
  <2>1. HandlerTyped'
       BY <1>3 DEF AttachLoad, Paged, recVars, decisionVars, cardVars,
           pumpVars, tapVars
  <2> QED BY <1>3, <2>1 DEF AttachLoad, recVars, decisionVars, cardVars,
           pumpVars, tapVars
<1>4. CASE AttachSave
  <2>1. RecordTyped'
       BY <1>4 DEF AttachSave, Paged, Written, decisionVars, cardVars,
           pumpVars, tapVars
  <2>2. HandlerTyped'
       BY <1>4 DEF AttachSave, Paged, Written, decisionVars, cardVars,
           pumpVars, tapVars
  <2> QED BY <1>4, <2>1, <2>2 DEF AttachSave, decisionVars, cardVars, pumpVars,
           tapVars
<1>5. CASE AwaitSelection
  <2>1. HandlerTyped'
       BY <1>5 DEF AwaitSelection, Leave, recVars, decisionVars, cardVars,
           pumpVars, tapVars
  <2> QED BY <1>5, <2>1 DEF AwaitSelection, recVars, decisionVars, cardVars,
           pumpVars, tapVars
<1>6. CASE AwaitOtherwise
  <2>1. HandlerTyped'
       BY <1>6 DEF AwaitOtherwise, Leave, DeadlinePassed, recVars,
           decisionVars, cardVars, pumpVars, answerVars, tapVars
  <2> QED BY <1>6, <2>1 DEF AwaitOtherwise, recVars, decisionVars, cardVars,
           pumpVars, answerVars, tapVars
<1>7. CASE Aborted
  <2>1. HandlerTyped'
       BY <1>7 DEF Aborted, Leave, recVars, decisionVars, cardVars, pumpVars,
           answerVars, tapVars
  <2> QED BY <1>7, <2>1 DEF Aborted, recVars, decisionVars, cardVars, pumpVars,
           answerVars, tapVars
<1>8. CASE Finish
  <2>1. WorldTyped'
       BY <1>8 DEF Finish, CloseCard, recVars, decisionVars, pumpVars, tapVars,
           cardVars
  <2>2. HandlerTyped'
       BY <1>8 DEF Finish, CloseCard, recVars, decisionVars, pumpVars, tapVars,
           cardVars
  <2> QED BY <1>8, <2>1, <2>2 DEF Finish, recVars, decisionVars, pumpVars,
           tapVars, cardVars
<1>9. ASSUME NEW b \in Presses, ToggleLoad(b) PROVE TypeOK'
  <2>1. WorldTyped'
       BY <1>9 DEF ToggleLoad, Takes, Handled, ToggleIdx, NoPress, recVars,
           decisionVars, cardVars, handlerVars, answerVars
  <2>2. PumpTyped'
       BY PressOpts, <1>9 DEF ToggleLoad, Takes, Handled, ToggleIdx, NoPress,
           recVars, decisionVars, cardVars, handlerVars, answerVars
  <2> QED BY <1>9, <2>1, <2>2 DEF ToggleLoad, recVars, decisionVars, cardVars,
           handlerVars, answerVars
<1>10. ASSUME NEW b \in Presses, AnswerLoad(b) PROVE TypeOK'
  <2>1. WorldTyped'
       BY <1>10 DEF AnswerLoad, Takes, Handled, NoPress, recVars, decisionVars,
           cardVars, handlerVars, answerVars, tapVars
  <2>2. PumpTyped'
       BY PressOpts, <1>10 DEF AnswerLoad, Takes, Handled, NoPress, recVars,
           decisionVars, cardVars, handlerVars, answerVars, tapVars
  <2> QED BY <1>10, <2>1, <2>2 DEF AnswerLoad, recVars, decisionVars, cardVars,
           handlerVars, answerVars, tapVars
<1>11. ASSUME NEW b \in Presses, PumpAck(b) PROVE TypeOK'
  <2>1. DecisionsTyped'
       BY <1>11 DEF PumpAck, Takes, Ack, Exclusive, NoPress, recVars, cardVars,
           handlerVars, answerVars, tapVars
  <2>2. WorldTyped'
       BY <1>11 DEF PumpAck, Takes, Ack, Exclusive, NoPress, recVars, cardVars,
           handlerVars, answerVars, tapVars
  <2>3. PumpTyped'
       BY <1>11 DEF PumpAck, Takes, Ack, Exclusive, NoPress, recVars, cardVars,
           handlerVars, answerVars, tapVars
  <2> QED BY <1>11, <2>1, <2>2, <2>3 DEF PumpAck, recVars, cardVars,
           handlerVars, answerVars, tapVars
<1>12. CASE ToggleReload
  <2>1. PumpTyped'
       BY <1>12 DEF ToggleReload, Handled, NoPress, recVars, decisionVars,
           cardVars, handlerVars, answerVars, tapVars
  <2> QED BY <1>12, <2>1 DEF ToggleReload, recVars, decisionVars, cardVars,
           handlerVars, answerVars, tapVars
<1>13. CASE ToggleSave
  <2>1. RecordTyped'
       BY <1>13 DEF ToggleSave, Written, decisionVars, cardVars, handlerVars,
           answerVars
  <2>2. PumpTyped'
       BY PressOpts, <1>13 DEF ToggleSave, Written, decisionVars, cardVars,
           handlerVars, answerVars
  <2> QED BY <1>13, <2>1, <2>2 DEF ToggleSave, decisionVars, cardVars,
           handlerVars, answerVars
<1>14. CASE Repaint
  <2>1. WorldTyped'
       BY <1>14 DEF Repaint, Handled, NoPress, recVars, decisionVars, cardVars,
           handlerVars, answerVars, tapVars
  <2>2. PumpTyped'
       BY <1>14 DEF Repaint, Handled, NoPress, recVars, decisionVars, cardVars,
           handlerVars, answerVars, tapVars
  <2> QED BY <1>14, <2>1, <2>2 DEF Repaint, recVars, decisionVars, cardVars,
           handlerVars, answerVars, tapVars
<1>15. CASE AnswerRecord
  <2>1. DecisionsTyped'
       BY <1>15 DEF AnswerRecord, Record, Exclusive, Handled, NoPress, recVars,
           cardVars, handlerVars, answerVars
  <2>2. PumpTyped'
       BY <1>15 DEF AnswerRecord, Record, Exclusive, Handled, NoPress, recVars,
           cardVars, handlerVars, answerVars
  <2> QED BY <1>15, <2>1, <2>2 DEF AnswerRecord, recVars, cardVars,
           handlerVars, answerVars
<1>16. CASE PumpClose
  <2>1. WorldTyped'
       BY <1>16 DEF PumpClose, CloseCard, Handled, NoPress, recVars,
           decisionVars, handlerVars, answerVars, tapVars, cardVars
  <2>2. PumpTyped'
       BY <1>16 DEF PumpClose, CloseCard, Handled, NoPress, recVars,
           decisionVars, handlerVars, answerVars, tapVars, cardVars
  <2> QED BY <1>16, <2>1, <2>2 DEF PumpClose, recVars, decisionVars,
           handlerVars, answerVars, tapVars, cardVars
<1>17. ASSUME NEW b \in Presses, Press(b) PROVE TypeOK'
  <2>1. WorldTyped'
       BY <1>17 DEF Press, Buttons, recVars, decisionVars, cardVars,
           handlerVars, pumpVars, answerVars, tapVars
  <2> QED BY <1>17, <2>1 DEF Press, recVars, decisionVars, cardVars,
           handlerVars, pumpVars, answerVars, tapVars
<1>18. ASSUME NEW set \in SUBSET Option, Select(set) PROVE TypeOK'
  <2>1. DecisionsTyped'
       BY <1>18 DEF Select, Record, Exclusive, recVars, cardVars, handlerVars,
           pumpVars, answerVars
  <2>2. PumpTyped'
       BY <1>18 DEF Select, Record, Exclusive, recVars, cardVars, handlerVars,
           pumpVars, answerVars
  <2> QED BY <1>18, <2>1, <2>2 DEF Select, recVars, cardVars, handlerVars,
           pumpVars, answerVars
<1>19. CASE SocketAck
  <2>1. DecisionsTyped'
       BY <1>19 DEF SocketAck, Ack, Exclusive, CloseCard, recVars, cardVars,
           handlerVars, pumpVars, answerVars, tapVars
  <2>2. WorldTyped'
       BY <1>19 DEF SocketAck, Ack, Exclusive, CloseCard, recVars, cardVars,
           handlerVars, pumpVars, answerVars, tapVars
  <2>3. DaemonTyped'
       BY <1>19 DEF SocketAck, Ack, Exclusive, CloseCard, recVars, cardVars,
           handlerVars, pumpVars, answerVars, tapVars
  <2> QED BY <1>19, <2>1, <2>2, <2>3 DEF SocketAck, recVars, cardVars,
           handlerVars, pumpVars, answerVars, tapVars
<1>20. CASE CancelCheck
  <2>1. DaemonTyped'
       BY <1>20 DEF CancelCheck, recVars, decisionVars, cardVars, handlerVars,
           pumpVars, answerVars, tapVars
  <2> QED BY <1>20, <2>1 DEF CancelCheck, recVars, decisionVars, cardVars,
           handlerVars, pumpVars, answerVars, tapVars
<1>21. CASE CancelWrite
  <2>1. DecisionsTyped'
       BY <1>21 DEF CancelWrite, Exclusive, CloseCard, recVars, cardVars,
           handlerVars, pumpVars, answerVars, tapVars
  <2>2. WorldTyped'
       BY <1>21 DEF CancelWrite, Exclusive, CloseCard, recVars, cardVars,
           handlerVars, pumpVars, answerVars, tapVars
  <2>3. DaemonTyped'
       BY <1>21 DEF CancelWrite, Exclusive, CloseCard, recVars, cardVars,
           handlerVars, pumpVars, answerVars, tapVars
  <2> QED BY <1>21, <2>1, <2>2, <2>3 DEF CancelWrite, recVars, cardVars,
           handlerVars, pumpVars, answerVars, tapVars
<1>22. CASE Disconnect
  <2>1. WorldTyped'
       BY <1>22 DEF Disconnect, recVars, decisionVars, cardVars, handlerVars,
           pumpVars, answerVars, tapVars
  <2> QED BY <1>22, <2>1 DEF Disconnect, recVars, decisionVars, cardVars,
           handlerVars, pumpVars, answerVars, tapVars
<1>23. CASE Tick
  <2>1. WorldTyped'
       BY <1>23 DEF Tick, recVars, decisionVars, cardVars, handlerVars,
           pumpVars, answerVars, tapVars
  <2> QED BY <1>23, <2>1 DEF Tick, recVars, decisionVars, cardVars,
           handlerVars, pumpVars, answerVars, tapVars
<1>24. CASE Crash
  <2>1. WorldTyped'
       BY <1>24 DEF Crash, NoPress, recVars, decisionVars, cardVars,
           answerVars, tapVars
  <2>2. HandlerTyped'
       BY <1>24 DEF Crash, NoPress, recVars, decisionVars, cardVars,
           answerVars, tapVars
  <2>3. PumpTyped'
       BY <1>24 DEF Crash, NoPress, recVars, decisionVars, cardVars,
           answerVars, tapVars
  <2>4. crashes' \in 0..MaxCrashes
       BY <1>24, MaxCrashesNat DEF Crash
  <2>5. DaemonTyped'
       BY <1>24, <2>4 DEF Crash
  <2> QED BY <1>24, <2>1, <2>2, <2>3, <2>5 DEF Crash, recVars, decisionVars,
           cardVars, answerVars, tapVars
<1>25. CASE Restart
  <2>1. DaemonTyped'
       BY <1>25 DEF Restart, recVars, decisionVars, cardVars, handlerVars,
           pumpVars, answerVars, tapVars
  <2> QED BY <1>25, <2>1 DEF Restart, recVars, decisionVars, cardVars,
           handlerVars, pumpVars, answerVars, tapVars
<1>26. CASE AdoptedEnd
  <2>1. WorldTyped'
       BY <1>26 DEF AdoptedEnd, CloseCard, recVars, decisionVars, handlerVars,
           pumpVars, answerVars, tapVars, cardVars
  <2>2. DaemonTyped'
       BY <1>26 DEF AdoptedEnd, CloseCard, recVars, decisionVars, handlerVars,
           pumpVars, answerVars, tapVars, cardVars
  <2> QED BY <1>26, <2>1, <2>2 DEF AdoptedEnd, recVars, decisionVars,
           handlerVars, pumpVars, answerVars, tapVars, cardVars
<1>27. CASE UNCHANGED vars
       BY <1>27 DEF vars, recVars, decisionVars, cardVars, handlerVars,
           pumpVars, answerVars, tapVars
<1> QED
  BY <1>1, <1>2, <1>3, <1>4, <1>5, <1>6, <1>7, <1>8, <1>9, <1>10, <1>11, <1>12,
           <1>13, <1>14, <1>15, <1>16, <1>17, <1>18, <1>19, <1>20, <1>21,
           <1>22, <1>23, <1>24, <1>25, <1>26, <1>27 DEF Next, Handler, Pump

\* Every reachable state has its type, whatever order handler, pump, Cancel and
\* socket requests run in and wherever a crash cuts a Save or a decision short.
THEOREM TypeCorrect == Spec => []TypeOK
<1>1. Init => TypeOK
      BY InitType
<1>2. TypeOK /\ [Next]_vars => TypeOK'
      BY TypeStep
<1> QED BY <1>1, <1>2, PTL DEF Spec

------------------------------------------------------------------------------
\* The inductive invariant.  Nothing is answered before the record exists; what
\* the handler has decided to say, and what it has said, both hold; and a handler
\* that is past its wait without a selection knows that there is a cancellation
\* or that its client is gone.

\* o is a true thing to tell the client.
Holds(o) ==
  /\ o = "selected" => SelectionInfo /\ got = chosen
  /\ o = "cancelled" => CancelInfo
  /\ o = "timeout" => clock = "expired"
  /\ o = "client_aborted" => ~connected

NothingYet == file = "none" => answer = "none" /\ out = "none" /\ apc = "idle"
KnowsWhy == apc = "aborted" => CancelInfo \/ ~connected

AInv == TypeOK /\ NothingYet /\ KnowsWhy /\ Holds(out) /\ Holds(answer)

LEMMA InitAInv == Init => AInv
  BY InitType DEF Init, AInv, NothingYet, KnowsWhy, Holds

\* What is on file stays: a selection with its options, a cancellation; and a
\* deadline stays passed.
Stays == /\ SelectionInfo => SelectionInfo' /\ chosen' = chosen
         /\ CancelInfo => CancelInfo'
         /\ clock = "expired" => clock' = "expired"

LEMMA FilesStay == [Next]_vars => Stays
<1> SUFFICES ASSUME [Next]_vars PROVE Stays
    OBVIOUS
<1> USE DEF Stays, SelectionInfo, CancelInfo, decisionVars
<1>1. CASE Create
       BY <1>1 DEF Create
<1>2. CASE Page
       BY <1>2 DEF Page
<1>3. CASE AttachLoad
       BY <1>3 DEF AttachLoad
<1>4. CASE AttachSave
       BY <1>4 DEF AttachSave
<1>5. CASE AwaitSelection
       BY <1>5 DEF AwaitSelection
<1>6. CASE AwaitOtherwise
       BY <1>6 DEF AwaitOtherwise
<1>7. CASE Aborted
       BY <1>7 DEF Aborted
<1>8. CASE Finish
       BY <1>8 DEF Finish
<1>9. ASSUME NEW b \in Presses, ToggleLoad(b) PROVE Stays
       BY <1>9 DEF ToggleLoad
<1>10. ASSUME NEW b \in Presses, AnswerLoad(b) PROVE Stays
       BY <1>10 DEF AnswerLoad
<1>11. ASSUME NEW b \in Presses, PumpAck(b) PROVE Stays
       BY <1>11 DEF PumpAck, Ack, Exclusive
<1>12. CASE ToggleReload
       BY <1>12 DEF ToggleReload
<1>13. CASE ToggleSave
       BY <1>13 DEF ToggleSave
<1>14. CASE Repaint
       BY <1>14 DEF Repaint
<1>15. CASE AnswerRecord
       BY <1>15 DEF AnswerRecord, Record, Exclusive
<1>16. CASE PumpClose
       BY <1>16 DEF PumpClose
<1>17. ASSUME NEW b \in Presses, Press(b) PROVE Stays
       BY <1>17 DEF Press
<1>18. ASSUME NEW set \in SUBSET Option, Select(set) PROVE Stays
       BY <1>18 DEF Select, Record, Exclusive
<1>19. CASE SocketAck
       BY <1>19 DEF SocketAck, Ack, Exclusive
<1>20. CASE CancelCheck
       BY <1>20 DEF CancelCheck
<1>21. CASE CancelWrite
       BY <1>21 DEF CancelWrite, Exclusive
<1>22. CASE Disconnect
       BY <1>22 DEF Disconnect
<1>23. CASE Tick
       BY <1>23 DEF Tick
<1>24. CASE Crash
       BY <1>24 DEF Crash
<1>25. CASE Restart
       BY <1>25 DEF Restart
<1>26. CASE AdoptedEnd
       BY <1>26 DEF AdoptedEnd
<1>27. CASE UNCHANGED vars
       BY <1>27 DEF vars, recVars, decisionVars, cardVars, handlerVars,
           pumpVars, answerVars, tapVars
<1> QED
  BY <1>1, <1>2, <1>3, <1>4, <1>5, <1>6, <1>7, <1>8, <1>9, <1>10, <1>11, <1>12,
           <1>13, <1>14, <1>15, <1>16, <1>17, <1>18, <1>19, <1>20, <1>21,
           <1>22, <1>23, <1>24, <1>25, <1>26, <1>27 DEF Next, Handler, Pump

\* A step that leaves the handler and its answer alone, and neither connects the
\* client nor takes the record away, keeps the invariant.
LEMMA OthersKeep ==
  ASSUME AInv, [Next]_vars, UNCHANGED <<apc, out, answer, got>>,
         connected' => connected, file' = "none" => file = "none"
  PROVE  AInv'
<1>1. TypeOK' /\ Stays
      BY TypeStep, FilesStay DEF AInv
<1> QED BY <1>1 DEF AInv, NothingYet, KnowsWhy, Holds, Stays

LEMMA AnswerStep == AInv /\ [Next]_vars => AInv'
<1> SUFFICES ASSUME AInv, [Next]_vars PROVE AInv'
    OBVIOUS
<1>i. TypeOK' /\ Stays
      BY TypeStep, FilesStay DEF AInv
<1>s. NothingYet /\ KnowsWhy /\ Holds(out) /\ Holds(answer) /\ HandlerTyped
      BY DEF AInv, TypeOK
<1>1. CASE Create
  <2>1. NothingYet' /\ KnowsWhy'
       BY <1>i, <1>s, <1>1 DEF Create, recVars, answerVars, NothingYet,
           KnowsWhy, Stays, CancelInfo
  <2>2. Holds(out)' /\ Holds(answer)'
       BY <1>i, <1>s, <1>1 DEF Create, Holds, NothingYet, KnowsWhy, Stays,
           answerVars
  <2> QED BY <1>i, <2>1, <2>2 DEF AInv
<1>2. CASE Page
  <2>1. NothingYet' /\ KnowsWhy'
       BY <1>i, <1>s, <1>2 DEF Page, Paged, recVars, answerVars, NothingYet,
           KnowsWhy, Stays, CancelInfo
  <2>2. Holds(out)' /\ Holds(answer)'
       BY <1>i, <1>s, <1>2 DEF Page, Paged, Holds, NothingYet, KnowsWhy, Stays
  <2> QED BY <1>i, <2>1, <2>2 DEF AInv
<1>3. CASE AttachLoad
  <2>1. NothingYet' /\ KnowsWhy'
       BY <1>i, <1>s, <1>3 DEF AttachLoad, Paged, recVars, answerVars,
           NothingYet, KnowsWhy, Stays, CancelInfo
  <2>2. Holds(out)' /\ Holds(answer)'
       BY <1>i, <1>s, <1>3 DEF AttachLoad, Paged, Holds, NothingYet, KnowsWhy,
           Stays
  <2> QED BY <1>i, <2>1, <2>2 DEF AInv
<1>4. CASE AttachSave
  <2>1. NothingYet' /\ KnowsWhy'
       BY <1>i, <1>s, <1>4 DEF AttachSave, Paged, Written, recVars, answerVars,
           NothingYet, KnowsWhy, Stays, CancelInfo
  <2>2. Holds(out)' /\ Holds(answer)'
       BY <1>i, <1>s, <1>4 DEF AttachSave, Paged, Holds, NothingYet, KnowsWhy,
           Stays
  <2> QED BY <1>i, <2>1, <2>2 DEF AInv
<1>5. CASE AwaitSelection
  <2>1. NothingYet' /\ KnowsWhy'
       BY <1>i, <1>s, <1>5 DEF AwaitSelection, Leave, recVars, answerVars,
           NothingYet, KnowsWhy, Stays, CancelInfo
  <2>2. Holds(out)' /\ Holds(answer)'
       BY <1>i, <1>s, <1>5 DEF AwaitSelection, Leave, Holds, NothingYet,
           KnowsWhy, Stays
  <2> QED BY <1>i, <2>1, <2>2 DEF AInv
<1>6. CASE AwaitOtherwise
  <2>1. NothingYet' /\ KnowsWhy'
       BY <1>i, <1>s, <1>6 DEF AwaitOtherwise, Leave, recVars, answerVars,
           NothingYet, KnowsWhy, Stays, CancelInfo
  <2>2. Holds(out)' /\ Holds(answer)'
       BY <1>i, <1>s, <1>6 DEF AwaitOtherwise, Leave, DeadlinePassed, Holds,
           NothingYet, KnowsWhy, Stays, answerVars
  <2> QED BY <1>i, <2>1, <2>2 DEF AInv
<1>7. CASE Aborted
  <2>1. NothingYet' /\ KnowsWhy'
       BY <1>i, <1>s, <1>7 DEF Aborted, Leave, recVars, answerVars, NothingYet,
           KnowsWhy, Stays, CancelInfo
  <2>2. Holds(out)' /\ Holds(answer)'
       BY <1>i, <1>s, <1>7 DEF Aborted, Leave, Holds, NothingYet, KnowsWhy,
           Stays, answerVars
  <2> QED BY <1>i, <2>1, <2>2 DEF AInv
<1>8. CASE Finish
  <2>1. NothingYet' /\ KnowsWhy'
       BY <1>i, <1>s, <1>8 DEF Finish, recVars, answerVars, NothingYet,
           KnowsWhy, Stays, CancelInfo
  <2>2. Holds(out)' /\ Holds(answer)'
       BY <1>i, <1>s, <1>8 DEF Finish, Holds, NothingYet, KnowsWhy, Stays
  <2> QED BY <1>i, <2>1, <2>2 DEF AInv
<1>9. ASSUME NEW b \in Presses, ToggleLoad(b) PROVE AInv'
       BY OthersKeep, <1>9 DEF ToggleLoad, Takes, recVars, handlerVars,
           answerVars
<1>10. ASSUME NEW b \in Presses, AnswerLoad(b) PROVE AInv'
       BY OthersKeep, <1>10 DEF AnswerLoad, Takes, recVars, handlerVars,
           answerVars
<1>11. ASSUME NEW b \in Presses, PumpAck(b) PROVE AInv'
       BY OthersKeep, <1>11 DEF PumpAck, Takes, recVars, handlerVars, answerVars
<1>12. CASE ToggleReload
       BY OthersKeep, <1>12 DEF ToggleReload, recVars, handlerVars, answerVars
<1>13. CASE ToggleSave
       BY OthersKeep, <1>13 DEF ToggleSave, Written, handlerVars, answerVars
<1>14. CASE Repaint
       BY OthersKeep, <1>14 DEF Repaint, recVars, handlerVars, answerVars
<1>15. CASE AnswerRecord
       BY OthersKeep, <1>15 DEF AnswerRecord, recVars, handlerVars, answerVars
<1>16. CASE PumpClose
       BY OthersKeep, <1>16 DEF PumpClose, recVars, handlerVars, answerVars
<1>17. ASSUME NEW b \in Presses, Press(b) PROVE AInv'
       BY OthersKeep, <1>17 DEF Press, recVars, handlerVars, answerVars
<1>18. ASSUME NEW set \in SUBSET Option, Select(set) PROVE AInv'
       BY OthersKeep, <1>18 DEF Select, recVars, handlerVars, answerVars
<1>19. CASE SocketAck
       BY OthersKeep, <1>19 DEF SocketAck, recVars, handlerVars, answerVars
<1>20. CASE CancelCheck
       BY OthersKeep, <1>20 DEF CancelCheck, recVars, handlerVars, answerVars
<1>21. CASE CancelWrite
       BY OthersKeep, <1>21 DEF CancelWrite, recVars, handlerVars, answerVars
<1>22. CASE Disconnect
       BY OthersKeep, <1>22 DEF Disconnect, recVars, handlerVars, answerVars
<1>23. CASE Tick
       BY OthersKeep, <1>23 DEF Tick, recVars, handlerVars, answerVars
<1>24. CASE Crash
  <2>1. NothingYet' /\ KnowsWhy'
       BY <1>i, <1>s, <1>24 DEF Crash, recVars, answerVars, NothingYet,
           KnowsWhy, Stays, CancelInfo
  <2>2. Holds(out)' /\ Holds(answer)'
       BY <1>i, <1>s, <1>24 DEF Crash, Holds, NothingYet, KnowsWhy, Stays,
           answerVars
  <2> QED BY <1>i, <2>1, <2>2 DEF AInv
<1>25. CASE Restart
       BY OthersKeep, <1>25 DEF Restart, recVars, handlerVars, answerVars
<1>26. CASE AdoptedEnd
       BY OthersKeep, <1>26 DEF AdoptedEnd, recVars, handlerVars, answerVars
<1>27. CASE UNCHANGED vars
       BY OthersKeep, <1>27 DEF vars, recVars, handlerVars, answerVars
<1> QED
  BY <1>1, <1>2, <1>3, <1>4, <1>5, <1>6, <1>7, <1>8, <1>9, <1>10, <1>11, <1>12,
           <1>13, <1>14, <1>15, <1>16, <1>17, <1>18, <1>19, <1>20, <1>21,
           <1>22, <1>23, <1>24, <1>25, <1>26, <1>27 DEF Next, Handler, Pump

\* AnswerTrue for every instance: whatever the asking client is told, selected,
\* cancelled, timeout or client_aborted, is on file or did happen, and no later
\* press, select, cancel, save, crash or restart makes it untrue.
THEOREM AnswersAreTrue == Spec => []AnswerTrue
<1>1. Init => AInv
      BY InitAInv
<1>2. AInv /\ [Next]_vars => AInv'
      BY AnswerStep
<1>3. AInv => AnswerTrue
      BY DEF AInv, Holds, AnswerTrue
<1> QED BY <1>1, <1>2, <1>3, PTL DEF Spec
------------------------------------------------------------------------------
\* StatusAgrees needs that only a question is ever answered with a selection.

SelectionsOfAsks == selection # "none" => kind # "notify"

\* Whoever records a selection has looked at the kind, which never changes.
LEMMA SelectionsOfAsksStep ==
  SelectionsOfAsks /\ [Next]_vars => SelectionsOfAsks'
<1> SUFFICES ASSUME SelectionsOfAsks, [Next]_vars PROVE SelectionsOfAsks'
    OBVIOUS
<1> USE DEF SelectionsOfAsks, recVars, decisionVars
<1>1. CASE Create
       BY <1>1 DEF Create
<1>2. CASE Page
       BY <1>2 DEF Page
<1>3. CASE AttachLoad
       BY <1>3 DEF AttachLoad
<1>4. CASE AttachSave
       BY <1>4 DEF AttachSave, Written
<1>5. CASE AwaitSelection
       BY <1>5 DEF AwaitSelection
<1>6. CASE AwaitOtherwise
       BY <1>6 DEF AwaitOtherwise
<1>7. CASE Aborted
       BY <1>7 DEF Aborted
<1>8. CASE Finish
       BY <1>8 DEF Finish
<1>9. ASSUME NEW b \in Presses, ToggleLoad(b) PROVE SelectionsOfAsks'
       BY <1>9 DEF ToggleLoad
<1>10. ASSUME NEW b \in Presses, AnswerLoad(b) PROVE SelectionsOfAsks'
       BY <1>10 DEF AnswerLoad
<1>11. ASSUME NEW b \in Presses, PumpAck(b) PROVE SelectionsOfAsks'
       BY <1>11 DEF PumpAck
<1>12. CASE ToggleReload
       BY <1>12 DEF ToggleReload
<1>13. CASE ToggleSave
       BY <1>13 DEF ToggleSave, Written
<1>14. CASE Repaint
       BY <1>14 DEF Repaint
<1>15. CASE AnswerRecord
       BY <1>15 DEF AnswerRecord, Record
<1>16. CASE PumpClose
       BY <1>16 DEF PumpClose
<1>17. ASSUME NEW b \in Presses, Press(b) PROVE SelectionsOfAsks'
       BY <1>17 DEF Press
<1>18. ASSUME NEW set \in SUBSET Option, Select(set) PROVE SelectionsOfAsks'
       BY <1>18 DEF Select, Record
<1>19. CASE SocketAck
       BY <1>19 DEF SocketAck
<1>20. CASE CancelCheck
       BY <1>20 DEF CancelCheck
<1>21. CASE CancelWrite
       BY <1>21 DEF CancelWrite
<1>22. CASE Disconnect
       BY <1>22 DEF Disconnect
<1>23. CASE Tick
       BY <1>23 DEF Tick
<1>24. CASE Crash
       BY <1>24 DEF Crash
<1>25. CASE Restart
       BY <1>25 DEF Restart
<1>26. CASE AdoptedEnd
       BY <1>26 DEF AdoptedEnd
<1>27. CASE UNCHANGED vars
       BY <1>27 DEF vars, recVars, decisionVars, cardVars, handlerVars,
           pumpVars, answerVars, tapVars
<1> QED
  BY <1>1, <1>2, <1>3, <1>4, <1>5, <1>6, <1>7, <1>8, <1>9, <1>10, <1>11, <1>12,
           <1>13, <1>14, <1>15, <1>16, <1>17, <1>18, <1>19, <1>20, <1>21,
           <1>22, <1>23, <1>24, <1>25, <1>26, <1>27 DEF Next, Handler, Pump

\* StatusAgrees for every instance: Status, which reads the files anew each time,
\* says what the asking client was told, unless there is a cancellation beside the
\* selection.
THEOREM StatusMatchesAnswer == Spec => []StatusAgrees
<1>1. Init => SelectionsOfAsks
      BY DEF Init, SelectionsOfAsks
<1>2. SelectionsOfAsks /\ [Next]_vars => SelectionsOfAsks'
      BY SelectionsOfAsksStep
<1>3. SelectionsOfAsks /\ AnswerTrue => StatusAgrees
      BY DEF SelectionsOfAsks, AnswerTrue, StatusAgrees, Status, SelectionInfo,
             CancelInfo, Unexpired
<1> QED BY <1>1, <1>2, <1>3, AnswersAreTrue, PTL DEF Spec

------------------------------------------------------------------------------
\* SubmittedAsTapped.  The ticks in the record are the ticks the operator made, as
\* long as AttachPager and a tick do not overlap; and the set that a handler or the
\* pump is about to write is still the one that follows from the record.

\* Before the card is sent there is nothing to press.
NoCardYet == apc \in {"idle", "page"} =>
               inbox = NoPress /\ ppc = "idle" /\ card # "live"

Attaching == apc \in {"attach", "truncate", "write"}
Ticking == ppc \in {"reload", "truncate", "write"}

TicksOnFile ==
  /\ idxs = tapped
  /\ apc \in {"truncate", "write"} => acopy = idxs
  /\ Ticking => ~Attaching /\ pnext = ToggleIdx(idxs, press.opts)
  /\ ppc = "record" /\ press.button = "submit" => pnext = idxs
  /\ SelectionInfo /\ submitted => chosen = idxs

\* Once a Submit is on file, no tick is under way.
SubmitEndsTicks == SelectionInfo /\ submitted => ~Ticking

TapInv == NoCardYet /\ SubmitEndsTicks /\ (~early => TicksOnFile)

\* Every step keeps it, one by one.
LEMMA TapStep == NothingYet /\ TapInv /\ [Next]_vars => TapInv'
<1> SUFFICES ASSUME NothingYet, TapInv, [Next]_vars PROVE TapInv'
    OBVIOUS
<1> USE DEF TapInv, NoCardYet, SubmitEndsTicks, TicksOnFile, Attaching, Ticking,
            SelectionInfo, vars, recVars, decisionVars, cardVars, handlerVars,
            pumpVars, answerVars, tapVars
<1>1. CASE Create
       BY <1>1 DEF Create
<1>2. CASE Page
       BY <1>2 DEF Page, Paged
<1>3. CASE AttachLoad
       BY <1>3 DEF AttachLoad, Paged
<1>4. CASE AttachSave
       BY <1>4 DEF AttachSave, Paged, Written
<1>5. CASE AwaitSelection
       BY <1>5 DEF AwaitSelection, Leave
<1>6. CASE AwaitOtherwise
       BY <1>6 DEF AwaitOtherwise, Leave
<1>7. CASE Aborted
       BY <1>7 DEF Aborted, Leave
<1>8. CASE Finish
       BY <1>8 DEF Finish, CloseCard
<1>9. ASSUME NEW b \in Presses, ToggleLoad(b) PROVE TapInv'
  <2>1. ppc = "idle" /\ inbox # NoPress
        BY <1>9 DEF ToggleLoad, Takes, Presses, NoPress
  <2>2. CASE ppc' = "idle"
        BY <1>9, <2>1, <2>2 DEF ToggleLoad
  <2>3. CASE ppc' # "idle"
    <3>1. /\ ppc' = "reload" /\ press' = b /\ pnext' = ToggleIdx(idxs, b.opts)
          /\ early' = (early \/ Attaching) /\ ~SelectionInfo
          BY <1>9, <2>3 DEF ToggleLoad, Handled
    <3> QED BY <1>9, <2>1, <3>1 DEF ToggleLoad
  <2> QED BY <2>2, <2>3
<1>10. ASSUME NEW b \in Presses, AnswerLoad(b) PROVE TapInv'
       BY <1>10 DEF AnswerLoad, Takes, Handled, Presses, NoPress
<1>11. ASSUME NEW b \in Presses, PumpAck(b) PROVE TapInv'
       BY <1>11 DEF PumpAck, Takes, Ack, Presses, NoPress
<1>12. CASE ToggleReload
       BY <1>12 DEF ToggleReload, Handled
<1>13. CASE ToggleSave
       BY <1>13 DEF ToggleSave, Written, ToggleIdx
<1>14. CASE Repaint
       BY <1>14 DEF Repaint, Handled
<1>15. CASE AnswerRecord
       BY <1>15 DEF AnswerRecord, Record, Exclusive, Handled
<1>16. CASE PumpClose
       BY <1>16 DEF PumpClose, CloseCard, Handled
<1>17. ASSUME NEW b \in Presses, Press(b) PROVE TapInv'
       BY <1>17 DEF Press, Buttons
<1>18. ASSUME NEW set \in SUBSET Option, Select(set) PROVE TapInv'
       BY <1>18 DEF Select, Record, Exclusive
<1>19. CASE SocketAck
       BY <1>19 DEF SocketAck, CloseCard
<1>20. CASE CancelCheck
       BY <1>20 DEF CancelCheck
<1>21. CASE CancelWrite
       BY <1>21 DEF CancelWrite, CloseCard
<1>22. CASE Disconnect
       BY <1>22 DEF Disconnect
<1>23. CASE Tick
       BY <1>23 DEF Tick
<1>24. CASE Crash
       BY <1>24 DEF Crash, NothingYet
<1>25. CASE Restart
       BY <1>25 DEF Restart
<1>26. CASE AdoptedEnd
       BY <1>26 DEF AdoptedEnd, CloseCard
<1>27. CASE UNCHANGED vars
       BY <1>27
<1> QED
  BY <1>1, <1>2, <1>3, <1>4, <1>5, <1>6, <1>7, <1>8, <1>9, <1>10, <1>11, <1>12,
           <1>13, <1>14, <1>15, <1>16, <1>17, <1>18, <1>19, <1>20, <1>21,
           <1>22, <1>23, <1>24, <1>25, <1>26, <1>27 DEF Next, Handler, Pump

\* SubmittedAsTapped for every instance: a Submit records the options ticked an
\* odd number of times, whatever else is written to the record meanwhile, except a
\* tick handled while AttachPager is at work.
THEOREM SubmitIsAsTapped == Spec => []SubmittedAsTapped
<1>1. Init => AInv /\ TapInv
      BY InitAInv
      DEF Init, TapInv, NoCardYet, SubmitEndsTicks, TicksOnFile, Ticking, SelectionInfo
<1>2. AInv /\ TapInv /\ [Next]_vars => AInv' /\ TapInv'
      BY AnswerStep, TapStep DEF AInv
<1>3. TapInv => SubmittedAsTapped
      BY DEF TapInv, TicksOnFile, SubmittedAsTapped
<1> QED BY <1>1, <1>2, <1>3, PTL DEF Spec

------------------------------------------------------------------------------
\* What is decided, and what the client was told, is final.  Only the handler in
\* its wait changes the options to report, so it must not wait once it answered.

OneAnswer == answer # "none" => apc = "done"

\* The first selection with its options, the first cancellation and the first
\* acknowledgement stay, torn or whole, and so do the record's kind and the answer
\* the client was given.
FirstStays ==
  /\ selection # "none" => UNCHANGED <<selection, chosen>>
  /\ cancel # "none" => UNCHANGED cancel
  /\ ack # "none" => UNCHANGED ack
  /\ answer # "none" => UNCHANGED <<answer, got>>
  /\ UNCHANGED kind
  /\ file # "none" => file' # "none"

LEMMA FinalStep ==
  NothingYet /\ OneAnswer /\ [Next]_vars => OneAnswer' /\ FirstStays
<1> SUFFICES ASSUME NothingYet, OneAnswer, [Next]_vars PROVE OneAnswer' /\ FirstStays
    OBVIOUS
<1> USE DEF OneAnswer, FirstStays, recVars, decisionVars, handlerVars, answerVars
<1>1. CASE Create
       BY <1>1 DEF Create, NothingYet
<1>2. CASE Page
       BY <1>2 DEF Page, Paged
<1>3. CASE AttachLoad
       BY <1>3 DEF AttachLoad, Paged
<1>4. CASE AttachSave
       BY <1>4 DEF AttachSave, Paged, Written
<1>5. CASE AwaitSelection
       BY <1>5 DEF AwaitSelection, Leave
<1>6. CASE AwaitOtherwise
       BY <1>6 DEF AwaitOtherwise, Leave
<1>7. CASE Aborted
       BY <1>7 DEF Aborted, Leave
<1>8. CASE Finish
       BY <1>8 DEF Finish
<1>9. ASSUME NEW b \in Presses, ToggleLoad(b) PROVE OneAnswer' /\ FirstStays
       BY <1>9 DEF ToggleLoad
<1>10. ASSUME NEW b \in Presses, AnswerLoad(b) PROVE OneAnswer' /\ FirstStays
       BY <1>10 DEF AnswerLoad
<1>11. ASSUME NEW b \in Presses, PumpAck(b) PROVE OneAnswer' /\ FirstStays
       BY <1>11 DEF PumpAck, Ack
<1>12. CASE ToggleReload
       BY <1>12 DEF ToggleReload
<1>13. CASE ToggleSave
       BY <1>13 DEF ToggleSave, Written
<1>14. CASE Repaint
       BY <1>14 DEF Repaint
<1>15. CASE AnswerRecord
       BY <1>15 DEF AnswerRecord, Record
<1>16. CASE PumpClose
       BY <1>16 DEF PumpClose
<1>17. ASSUME NEW b \in Presses, Press(b) PROVE OneAnswer' /\ FirstStays
       BY <1>17 DEF Press
<1>18. ASSUME NEW set \in SUBSET Option, Select(set) PROVE OneAnswer' /\ FirstStays
       BY <1>18 DEF Select, Record
<1>19. CASE SocketAck
       BY <1>19 DEF SocketAck, Ack
<1>20. CASE CancelCheck
       BY <1>20 DEF CancelCheck
<1>21. CASE CancelWrite
       BY <1>21 DEF CancelWrite, Exclusive
<1>22. CASE Disconnect
       BY <1>22 DEF Disconnect
<1>23. CASE Tick
       BY <1>23 DEF Tick
<1>24. CASE Crash
       BY <1>24 DEF Crash, NothingYet
<1>25. CASE Restart
       BY <1>25 DEF Restart
<1>26. CASE AdoptedEnd
       BY <1>26 DEF AdoptedEnd
<1>27. CASE UNCHANGED vars
       BY <1>27 DEF vars
<1> QED
  BY <1>1, <1>2, <1>3, <1>4, <1>5, <1>6, <1>7, <1>8, <1>9, <1>10, <1>11, <1>12,
           <1>13, <1>14, <1>15, <1>16, <1>17, <1>18, <1>19, <1>20, <1>21,
           <1>22, <1>23, <1>24, <1>25, <1>26, <1>27 DEF Next, Handler, Pump

\* The first answer wins: a second press, select or ack, a Submit that arrives
\* behind a select, a late cancellation or a crash never replaces what is decided,
\* and the client is answered at most once.
THEOREM FirstAnswerWins == Spec => [][FirstStays]_vars
<1>1. Init => AInv /\ OneAnswer
      BY InitAInv DEF Init, OneAnswer
<1>2. AInv /\ OneAnswer /\ [Next]_vars => AInv' /\ OneAnswer' /\ FirstStays
      BY AnswerStep, FinalStep DEF AInv
<1> QED BY <1>1, <1>2, PTL DEF Spec

------------------------------------------------------------------------------
\* The safety part of AskReturns: the handler's way is finite apart from the rounds
\* of its wait, there are none after the deadline or a cancellation, nobody sets
\* it back, and at the end of the way the client has its answer.

\* The steps ahead of the handler; a round of the wait does not count.
Ahead == CASE apc = "page" -> 8
           [] apc = "attach" -> 7
           [] apc = "truncate" -> 6
           [] apc = "write" -> 5
           [] apc = "await" -> 4
           [] apc = "poll" -> 3
           [] apc = "aborted" -> 2
           [] apc = "close" -> 1
           [] OTHER -> 0

\* One more round, which only a petition still open gets.
Round == /\ apc = "poll" /\ apc' = "await"
         /\ ~DeadlinePassed /\ ~CancelInfo

AskAdvances == /\ Handler => Ahead' < Ahead \/ Round
               /\ ~Handler /\ ~Create => Ahead' <= Ahead
               /\ Create => apc = "idle" /\ apc' = "page"

\* Whoever is done has answered, unless the daemon died; only a live daemon has a
\* handler under way, an unanswered one; and who leaves knows what to say.
DoneIsAnswered == /\ apc = "done" => answer # "none" \/ crashes > 0
                  /\ apc \notin {"idle", "done"} => up /\ answer = "none"
                  /\ apc = "close" => out # "none"

\* Everybody else leaves the handler where it is.
LEMMA AloneOnItsWay ==
  [Next]_vars /\ ~Handler /\ ~Create /\ ~Crash => UNCHANGED <<apc, out, answer, crashes>>
<1> SUFFICES ASSUME [Next]_vars, ~Handler, ~Create, ~Crash
             PROVE  UNCHANGED <<apc, out, answer, crashes>>
    OBVIOUS
<1> USE DEF handlerVars, answerVars
<1>1. ASSUME NEW b \in Presses, ToggleLoad(b) \/ AnswerLoad(b) \/ PumpAck(b) \/ Press(b)
      PROVE  UNCHANGED <<apc, out, answer, crashes>>
      BY <1>1 DEF ToggleLoad, AnswerLoad, PumpAck, Press
<1>2. CASE ToggleReload \/ ToggleSave \/ Repaint \/ AnswerRecord \/ PumpClose
      BY <1>2 DEF ToggleReload, ToggleSave, Repaint, AnswerRecord, PumpClose
<1>3. ASSUME NEW set \in SUBSET Option, Select(set)
      PROVE  UNCHANGED <<apc, out, answer, crashes>>
      BY <1>3 DEF Select
<1>4. CASE SocketAck \/ CancelCheck \/ CancelWrite \/ Disconnect \/ Tick
      BY <1>4 DEF SocketAck, CancelCheck, CancelWrite, Disconnect, Tick
<1>5. CASE Restart \/ AdoptedEnd
      BY <1>5 DEF Restart, AdoptedEnd
<1>6. CASE UNCHANGED vars
      BY <1>6 DEF vars
<1> QED BY <1>1, <1>2, <1>3, <1>4, <1>5, <1>6 DEF Next, Pump

\* Nobody else takes a living daemon down.
LEMMA UpStays == [Next]_vars /\ up /\ ~Crash => up'
<1> SUFFICES ASSUME [Next]_vars, up, ~Crash PROVE up'
    OBVIOUS
<1>1. CASE Create \/ Handler
      BY <1>1 DEF Create, Handler, Page, AttachLoad, AttachSave, AwaitSelection,
         AwaitOtherwise, Aborted, Finish
<1>2. ASSUME NEW b \in Presses, ToggleLoad(b) \/ AnswerLoad(b) \/ PumpAck(b) \/ Press(b)
      PROVE  up'
      BY <1>2 DEF ToggleLoad, AnswerLoad, PumpAck, Press
<1>3. CASE ToggleReload \/ ToggleSave \/ Repaint \/ AnswerRecord \/ PumpClose
      BY <1>3 DEF ToggleReload, ToggleSave, Repaint, AnswerRecord, PumpClose
<1>4. ASSUME NEW set \in SUBSET Option, Select(set) PROVE up'
      BY <1>4 DEF Select
<1>5. CASE SocketAck \/ CancelCheck \/ CancelWrite \/ Disconnect \/ Tick
      BY <1>5 DEF SocketAck, CancelCheck, CancelWrite, Disconnect, Tick
<1>6. CASE Restart \/ AdoptedEnd
      BY <1>6 DEF Restart, AdoptedEnd
<1>7. CASE UNCHANGED vars
      BY <1>7 DEF vars
<1> QED BY <1>1, <1>2, <1>3, <1>4, <1>5, <1>6, <1>7 DEF Next, Pump

\* A step of the handler takes it forward, and the last one answers.
LEMMA HandlerAdvances ==
  ASSUME TypeOK, DoneIsAnswered, Handler
  PROVE  (Ahead' < Ahead \/ Round) /\ DoneIsAnswered' /\ ~Create /\ ~Crash
<1>h. apc \notin {"idle", "done"} /\ crashes' = crashes
      BY DEF Handler, Page, AttachLoad, AttachSave, AwaitSelection, AwaitOtherwise,
         Aborted, Finish
<1>u. up /\ answer = "none" /\ ~Create
      BY <1>h DEF DoneIsAnswered, Create
<1>v. up' /\ ~Crash
      BY <1>u DEF Handler, Page, AttachLoad, AttachSave, AwaitSelection,
         AwaitOtherwise, Aborted, Finish, Crash
<1> USE DEF Ahead, DoneIsAnswered, answerVars
<1>1. CASE Page
      BY <1>1, <1>u, <1>v DEF Page, Paged
<1>2. CASE AttachLoad
      BY <1>2, <1>u, <1>v DEF AttachLoad, Paged
<1>3. CASE AttachSave
  <2>1. \/ apc = "truncate" /\ apc' = "write" /\ answer' = answer
        \/ apc = "write" /\ apc' = "done" /\ answer' = "pending"
        \/ apc = "write" /\ apc' = "await" /\ answer' = answer
        BY <1>3, Zenon DEF AttachSave, Paged
  <2> QED BY <2>1, <1>u, <1>v
<1>4. CASE AwaitSelection
      BY <1>4, <1>u, <1>v DEF AwaitSelection, Leave
<1>5. CASE AwaitOtherwise
      BY <1>5, <1>u, <1>v DEF AwaitOtherwise, Leave, Round
<1>6. CASE Aborted
      BY <1>6, <1>u, <1>v DEF Aborted, Leave
<1>7. CASE Finish
      BY <1>7, <1>u, <1>v DEF Finish
<1> QED BY <1>1, <1>2, <1>3, <1>4, <1>5, <1>6, <1>7, <1>u, <1>v DEF Handler

LEMMA AdvanceStep ==
  TypeOK /\ NothingYet /\ DoneIsAnswered /\ [Next]_vars => AskAdvances /\ DoneIsAnswered'
<1> SUFFICES ASSUME TypeOK, NothingYet, DoneIsAnswered, [Next]_vars
             PROVE  AskAdvances /\ DoneIsAnswered'
    OBVIOUS
<1>1. CASE Handler
      BY <1>1, HandlerAdvances DEF AskAdvances
<1>2. CASE Create
  <2>1. apc = "idle" /\ apc' = "page" /\ ~Handler
        BY <1>2 DEF Create, Handler, Page, AttachLoad, AttachSave, AwaitSelection,
           AwaitOtherwise, Aborted, Finish
  <2>2. up' /\ answer' = "none"
        BY <1>2 DEF Create, NothingYet, answerVars
  <2> QED BY <1>2, <2>1, <2>2 DEF AskAdvances, DoneIsAnswered
<1>3. CASE Crash
  <2>1. apc' \in {"idle", "done"} /\ (apc' = "idle" => apc = "idle")
        BY <1>3 DEF Crash, NothingYet
  <2>2. Ahead \in Nat /\ Ahead' = 0
        BY <2>1 DEF Ahead
  <2>3. crashes' > 0
        BY <1>3 DEF Crash, TypeOK, DaemonTyped
  <2> QED BY <1>1, <2>1, <2>2, <2>3, <1>2 DEF AskAdvances, DoneIsAnswered
<1>4. CASE ~Handler /\ ~Create /\ ~Crash
  <2>1. UNCHANGED <<apc, out, answer, crashes>> /\ (up => up')
        BY <1>4, AloneOnItsWay, UpStays
  <2>2. Ahead' = Ahead /\ Ahead \in Nat
        BY <2>1 DEF Ahead
  <2> QED BY <1>4, <2>1, <2>2 DEF AskAdvances, DoneIsAnswered
<1> QED BY <1>1, <1>2, <1>3, <1>4

LEMMA AdvanceHolds == Spec => [](AInv /\ DoneIsAnswered) /\ [][AskAdvances]_vars
<1>1. Init => AInv /\ DoneIsAnswered
      BY InitAInv DEF Init, DoneIsAnswered
<1>2. AInv /\ DoneIsAnswered /\ [Next]_vars =>
        AInv' /\ DoneIsAnswered' /\ AskAdvances
      BY AnswerStep, AdvanceStep DEF AInv
<1> QED BY <1>1, <1>2, PTL DEF Spec

\* The handler of an ask has at most eight steps besides the rounds of its wait,
\* every one takes it forward, nobody sets it back, and there is no round after the
\* deadline or behind a cancellation: nothing can keep the asker waiting for ever.
THEOREM AskerNotSetBack == Spec => [][AskAdvances]_vars
  BY AdvanceHolds, PTL

\* No handler ends without an answer: unless a crash took it away, the client of a
\* finished handler was told something.
THEOREM NoSilentEnd == Spec => []DoneIsAnswered
  BY AdvanceHolds, PTL
==============================================================================
