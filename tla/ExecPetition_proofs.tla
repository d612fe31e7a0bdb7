------------------------- MODULE ExecPetition_proofs -------------------------
(***************************************************************************)
(* Proofs about ExecPetition, for any sets of petitions, groups and Cancel *)
(* requests, any number of crashes, and decision files that may be torn.   *)
(*                                                                         *)
(*   IInv        what the files say about each other and what a waiter or  *)
(*               a Cancel request relies on: types and approvals           *)
(*   SoleInv     one waiter per petition and how far it is: one run        *)
(*   EndingInv   what a waiter brings back from the run of its command     *)
(*   OutcomeInv  what was reported of a petition: the answers, Status, the *)
(*               list of recent petitions, and the refinement of           *)
(*               ApprovalGate                                              *)
(*   BarrierInv  who pins a group and who resumes it; with HeldInv: the    *)
(*               group of an open petition is stopped                      *)
(*   Ahead       how far a waiter has to go: the variant behind liveness   *)
(*                                                                         *)
(* All but IInv hold if AdoptOrphans takes its list before a request is    *)
(* saved (AdoptFirst); the run exec_adopt_late shows two waiters of one    *)
(* petition without it.                                                    *)
(***************************************************************************)
EXTENDS ExecPetition, SequenceTheorems, TLAPS

------------------------------------------------------------------------------
\* The inductive invariant: what the files say about each other, and what a
\* waiter or a Cancel request relies on where it stands.

\* A confirmation belongs to an approved petition of a requester.
RecordInv ==
  \A r \in Rid : step[r] = "confirm" =>
    /\ of[r] \in Rid
    /\ step[of[r]] = "initial"
    /\ verdict[of[r]] = "approve"

\* A waiter waits for a petition that has a record: its own, or a confirmation
\* of its own.  Past the verdict it acts on an approval that is stored.
WaiterOK(p) ==
  /\ pc[p] # "idle" => step[cur[p]] # "none" /\ step[p[1]] # "none"
  /\ pc[p] \in {"idle", "suspend", "pin"} => cur[p] = p[1]
  /\ cur[p] # p[1] => step[cur[p]] = "confirm" /\ of[cur[p]] = p[1]
  /\ pc[p] = "consume" => dec[p] \in Decision
  /\ pc[p] = "confirm" => /\ cur[p] = p[1]
                          /\ step[p[1]] = "initial"
                          /\ verdict[p[1]] = "approve"
  /\ pc[p] = "run" => /\ verdict[cur[p]] = "approve"
                      /\ step[cur[p]] = "initial" => ~opt[cur[p]].confirm

WaiterInv == \A p \in Proc : WaiterOK(p)

\* A Cancel request between its writes has a petition left to write to.
CancelInv ==
  \A c \in Canceller :
    cpc[c] # "idle" => ctodo[c] # <<>> /\ crid[c] \in Rid

\* Only petitions with a record are adopted.
OrphanInv == \A r \in orphans : step[r] # "none"

IInv == /\ TypeOK /\ RecordInv /\ WaiterInv /\ CancelInv /\ OrphanInv
        /\ ExecutedOnlyIfApproved

\* The initial state has no records and no waiters.
LEMMA InitInv == Init => IInv
<1> SUFFICES ASSUME Init PROVE IInv
    OBVIOUS
<1> USE ExecAssumption DEF Init
<1>1. TypeOK
      BY DEF TypeOK, Proc, WaiterPC, Result, Decision, NoRequest, RequestType
<1>2. RecordInv /\ CancelInv /\ OrphanInv /\ ExecutedOnlyIfApproved
      BY DEF RecordInv, CancelInv, OrphanInv, ExecutedOnlyIfApproved
<1>3. WaiterInv
      BY DEF WaiterInv, WaiterOK, Proc
<1> QED BY <1>1, <1>2, <1>3 DEF IInv
------------------------------------------------------------------------------
\* What no step ever undoes.

\* A record keeps its step, its parent and its request, and the first verdict
\* stays.
Grows ==
  /\ \A r \in Rid : step[r] # "none" =>
       step'[r] = step[r] /\ of'[r] = of[r] /\ opt'[r] = opt[r]
  /\ \A r \in Rid : verdict[r] # "none" => verdict'[r] = verdict[r]

\* Files of the daemon only grow: a step creates records and verdicts and
\* changes none.
LEMMA StepGrows == TypeOK /\ [Next]_vars => Grows
<1> SUFFICES ASSUME TypeOK, [Next]_vars
             PROVE  Grows
    OBVIOUS
<1> USE DEF TypeOK, Grows, recordVars, decisionVars
<1>1. CASE UNCHANGED <<step, of, opt, verdict>>
      BY <1>1
<1>2. ASSUME NEW r \in Rid, NEW o \in Requests, Request(r, o) PROVE Grows
      BY <1>2 DEF Request
<1>3. ASSUME NEW p \in Proc, Waiter(p) PROVE Grows
  <2>1. CASE ConsumeOwn(p)
        BY <2>1 DEF ConsumeOwn, Consume
  <2>2. CASE Confirm(p)
        BY <2>2 DEF Confirm
  <2> QED BY <1>1, <1>3, <2>1, <2>2
          DEF Waiter, Suspend, Pin, AwaitVerdict, AwaitOtherwise, SaveOwn,
              Execute, CommandEnds, SaveRan, SaveParent, Finish
<1>4. ASSUME NEW r \in Rid, NEW d \in {"approve", "deny"}, Submit(r, d)
      PROVE  Grows
      BY <1>4 DEF Submit, Consume
<1>5. ASSUME NEW c \in Canceller, CancelWrite(c) PROVE Grows
      BY <1>5 DEF CancelWrite, Consume
<1>6. ASSUME NEW r \in Rid, Disconnect(r) \/ Tick(r) \/ AdoptOne(r)
      PROVE  Grows
      BY <1>1, <1>6 DEF Disconnect, Tick, AdoptOne
<1>7. ASSUME NEW c \in Canceller,
             CancelResume(c) \/ \E r \in Rid : CancelCheck(c, r)
      PROVE  Grows
      BY <1>1, <1>7 DEF CancelResume, CancelCheck
<1>8. CASE Crash \/ Restart \/ AdoptScan
      BY <1>1, <1>8 DEF Crash, Restart, AdoptScan
<1>9. CASE UNCHANGED vars
      BY <1>1, <1>9 DEF vars
<1> QED BY <1>2, <1>3, <1>4, <1>5, <1>6, <1>7, <1>8, <1>9 DEF Next

\* An approval that is complete stays complete.
LEMMA ApprovedStays ==
  ASSUME Grows, NEW r \in Rid, Approved(r)
  PROVE  Approved(r)'
BY DEF Grows, Approved, Verdict, Confirmations

------------------------------------------------------------------------------
\* Types

\* What the operators that the actions are built from assign.
LEMMA GotoType ==
  ASSUME TypeOK, NEW p \in Proc, \E l \in WaiterPC : Goto(p, l)
  PROVE  pc' \in [Proc -> WaiterPC]
BY DEF Goto, TypeOK

LEMMA ActType ==
  ASSUME TypeOK, NEW p \in Proc, \E d \in Decision : Act(p, d)
  PROVE  /\ pc' \in [Proc -> WaiterPC]
         /\ dec' \in [Proc -> Decision \cup {"none", "blocked"}]
<1> PICK d \in Decision : Act(p, d)
    OBVIOUS
<1>1. Decided(p, d) \in WaiterPC
      BY DEF Decided, WaiterPC
<1>2. pc' \in [Proc -> WaiterPC]
      BY <1>1, GotoType DEF Act
<1>3. dec' \in [Proc -> Decision \cup {"none", "blocked"}]
      BY DEF Act, TypeOK
<1> QED BY <1>2, <1>3

LEMMA ConsumeType ==
  ASSUME TypeOK, NEW r \in Rid, NEW d \in Decision, Consume(r, d)
  PROVE  verdict' \in [Rid -> Decision \cup {"none", "torn"}]
<1>1. CASE UNCHANGED verdict
      BY <1>1 DEF TypeOK
<1>2. CASE \E v \in {d} \cup Torn : verdict' = [verdict EXCEPT ![r] = v]
  <2>1. PICK v \in {d} \cup Torn : verdict' = [verdict EXCEPT ![r] = v]
        BY <1>2
  <2>2. v \in Decision \cup {"none", "torn"}
        BY <2>1 DEF Torn
  <2> QED BY <2>1, <2>2 DEF TypeOK
<1> QED BY <1>1, <1>2 DEF Consume

\* Every exit and output the daemon or a command gives is a result.
LEMMA ResultsAre ==
  /\ NoResult \in Result
  /\ \A e \in {"minus1", "code"}, o \in Output :
       Res(e, o) \in RunResult /\ Res(e, o) \in Result /\ Res(e, o) # NoResult
BY DEF Result, RunResult, NoResult, Res

LEMMA OutcomeType ==
  ASSUME TypeOK, NEW p \in Proc
  PROVE  Outcome(p) \in RunResult /\ Outcome(p) \in Result /\ Outcome(p) # NoResult
BY ResultsAre DEF Outcome, Output

LEMMA SaveResultType ==
  ASSUME TypeOK, NEW r \in Rid, NEW out \in Result, SaveResult(r, out)
  PROVE  result' \in [Rid -> Result]
BY DEF SaveResult, TypeOK

LEMMA ResumeType ==
  ASSUME NEW r, NEW held, Resume(r, held), stopped \in [Group -> BOOLEAN]
  PROVE  stopped' \in [Group -> BOOLEAN]
BY DEF Resume

\* Every step of a waiter keeps the types.
LEMMA WaiterType ==
  ASSUME IInv, NEW p \in Proc, Waiter(p)
  PROVE  TypeOK'
<1> USE ExecAssumption
    DEF recordVars, decisionVars, worldVars, adoptVars, waiterVars, cancelVars,
        seenVars
<1>i. TypeOK /\ WaiterInv
      BY DEF IInv
<1>c. cur[p] \in Rid /\ Origin(p) \in Rid
      BY <1>i DEF TypeOK, Proc, Origin
<1>1. CASE Suspend(p)
  <2>1. pc' \in [Proc -> WaiterPC]
        BY <1>i, <1>1, GotoType DEF Suspend, WaiterPC
  <2>2. /\ stopped' \in [Group -> BOOLEAN]
        /\ holding' \in [Proc -> BOOLEAN]
        BY <1>i, <1>1, ZenonT(60) DEF Suspend, TypeOK
  <2> QED BY <1>i, <1>1, <2>1, <2>2 DEF Suspend, TypeOK
<1>2. CASE Pin(p)
  <2>1. pc' \in [Proc -> WaiterPC]
        BY <1>i, <1>2, GotoType DEF Pin, WaiterPC
  <2> QED BY <1>i, <1>2, <2>1 DEF Pin, TypeOK
<1>3. CASE AwaitVerdict(p)
  <2>1. Verdict(cur[p]) # "none" => Verdict(cur[p]) \in Decision
        BY <1>i, <1>c DEF Verdict, TypeOK
  <2>2. /\ pc' \in [Proc -> WaiterPC]
        /\ dec' \in [Proc -> Decision \cup {"none", "blocked"}]
    <3>1. CASE Goto(p, "poll") /\ UNCHANGED dec
          BY <1>i, <3>1, GotoType DEF WaiterPC, TypeOK
    <3>2. CASE Act(p, Verdict(cur[p])) /\ Verdict(cur[p]) # "none"
          BY <1>i, <2>1, <3>2, ActType
    <3> QED BY <1>3, <3>1, <3>2 DEF AwaitVerdict
  <2> QED BY <1>i, <1>3, <2>2 DEF AwaitVerdict, TypeOK
<1>4. CASE AwaitOtherwise(p)
  <2>1. /\ pc' \in [Proc -> WaiterPC]
        /\ dec' \in [Proc -> Decision \cup {"none", "blocked"}]
    <3>1. CASE Goto(p, "await") /\ UNCHANGED dec
          BY <1>i, <3>1, GotoType DEF WaiterPC, TypeOK
    <3>2. CASE \E d \in Decision : Act(p, d)
          BY <1>i, <3>2, ActType
    <3> QED BY <1>4, <3>1, <3>2 DEF AwaitOtherwise, Decision
  <2> QED BY <1>i, <1>4, <2>1 DEF AwaitOtherwise, TypeOK
<1>5. CASE ConsumeOwn(p)
  <2>1. verdict' \in [Rid -> Decision \cup {"none", "torn"}]
        BY <1>i, <1>c, <1>5, ConsumeType DEF ConsumeOwn, WaiterInv, WaiterOK
  <2>2. pc' \in [Proc -> WaiterPC]
        BY <1>i, <1>5, GotoType DEF ConsumeOwn, WaiterPC
  <2> QED BY <1>i, <1>5, <2>1, <2>2 DEF ConsumeOwn, TypeOK
<1>6. CASE SaveOwn(p)
  <2>1. result' \in [Rid -> Result]
        BY <1>i, <1>c, <1>6, OutcomeType, SaveResultType DEF SaveOwn
  <2>2. pc' \in [Proc -> WaiterPC]
        BY <1>i, <1>6, GotoType DEF SaveOwn, AfterResult, WaiterPC
  <2> QED BY <1>i, <1>6, <2>1, <2>2 DEF SaveOwn, TypeOK
<1>7. CASE Confirm(p)
  <2>1. pc' \in [Proc -> WaiterPC]
        BY <1>i, <1>7, GotoType DEF Confirm, WaiterPC
  <2>2. PICK k \in Rid :
          /\ step' = [step EXCEPT ![k] = "confirm"]
          /\ of' = [of EXCEPT ![k] = Origin(p)]
          /\ opt' = [opt EXCEPT ![k] = opt[Origin(p)]]
          /\ pinned' = [pinned EXCEPT ![k] = pinned[Origin(p)]]
          /\ cur' = [cur EXCEPT ![p] = k]
        BY <1>7 DEF Confirm
  <2>3. /\ step' \in [Rid -> {"none", "initial", "confirm"}]
        /\ of' \in [Rid -> Rid \cup {NoRid}]
        /\ opt' \in [Rid -> RequestType]
        BY <1>i, <1>c, <2>2 DEF TypeOK
  <2>4. /\ pinned' \in [Rid -> BOOLEAN]
        /\ cur' \in [Proc -> Rid]
        BY <1>i, <1>c, <2>2 DEF TypeOK
  <2> QED BY <1>i, <1>7, <2>1, <2>3, <2>4 DEF Confirm, TypeOK
<1>8. CASE Execute(p)
  <2>1. pc' \in [Proc -> WaiterPC]
        BY <1>i, <1>8, GotoType DEF Execute, AfterResult, WaiterPC
  <2>r. \A e \in {"minus1", "code"}, o \in Output : Res(e, o) \in Result
        BY ResultsAre
  <2>2. /\ result' \in [Rid -> Result]
        /\ res' \in [Proc -> Result]
    <3>1. CASE /\ SaveResult(cur[p], Res("minus1", "drift"))
               /\ res' = [res EXCEPT ![p] = Res("code", "empty")]
          BY <1>i, <1>c, <2>r, <3>1, SaveResultType DEF Output, TypeOK
    <3>2. CASE /\ UNCHANGED result
               /\ res' = [res EXCEPT ![p] = Res("code", "text")]
          BY <1>i, <2>r, <3>2 DEF Output, TypeOK
    <3>3. CASE UNCHANGED <<result, res>>
          BY <1>i, <3>3 DEF TypeOK
    <3> QED BY <1>8, <3>1, <3>2, <3>3 DEF Execute
  <2>3. dec' \in [Proc -> Decision \cup {"none", "blocked"}]
        BY <1>i, <1>8, ZenonT(60) DEF Execute, TypeOK
  <2>4. executed' \in [Rid -> Nat]
    <3>1. CASE UNCHANGED executed
          BY <1>i, <3>1 DEF TypeOK
    <3>2. CASE executed' = [executed EXCEPT ![Root(cur[p])] = @ + 1]
      <4> DEFINE q == Root(cur[p])
      <4>1. q \in Rid => executed[q] + 1 \in Nat
            BY <1>i DEF TypeOK
      <4> HIDE DEF q
      <4> QED BY <1>i, <3>2, <4>1 DEF TypeOK, q
    <3> QED BY <1>8, <3>1, <3>2 DEF Execute
  <2> QED BY <1>i, <1>8, <2>1, <2>2, <2>3, <2>4 DEF Execute, TypeOK
<1>r. CASE CommandEnds(p)
  <2>1. pc' \in [Proc -> WaiterPC]
        BY <1>i, <1>r, GotoType DEF CommandEnds, WaiterPC
  <2>2. PICK e \in Endings : /\ res' = [res EXCEPT ![p] = e]
                            /\ printed' = [printed EXCEPT ![Root(cur[p])] = e]
        BY <1>r DEF CommandEnds
  <2>3. e \in Result
        BY ExecAssumption DEF ExecAssumption, Result
  <2>4. res' \in [Proc -> Result] /\ printed' \in [Rid -> Result]
        BY <1>i, <2>2, <2>3 DEF TypeOK
  <2> QED BY <1>i, <1>r, <2>1, <2>4 DEF CommandEnds, TypeOK
<1>9. CASE SaveRan(p)
  <2>1. result' \in [Rid -> Result]
        BY <1>i, <1>c, <1>9, SaveResultType DEF SaveRan, TypeOK
  <2>2. pc' \in [Proc -> WaiterPC]
        BY <1>i, <1>9, GotoType DEF SaveRan, AfterResult, WaiterPC
  <2> QED BY <1>i, <1>9, <2>1, <2>2 DEF SaveRan, TypeOK
<1>10. CASE SaveParent(p)
  <2>1. result' \in [Rid -> Result]
    <3>1. ParentOutcome(p) \in Result
          BY <1>i, OutcomeType DEF ParentOutcome, TypeOK
    <3> QED BY <1>i, <1>c, <1>10, <3>1, SaveResultType DEF SaveParent
  <2>2. pc' \in [Proc -> WaiterPC]
        BY <1>i, <1>10, GotoType DEF SaveParent, WaiterPC
  <2> QED BY <1>i, <1>10, <2>1, <2>2 DEF SaveParent, TypeOK
<1>11. CASE Finish(p)
  <2>1. pc' \in [Proc -> WaiterPC]
        BY <1>i, <1>11, GotoType DEF Finish, WaiterPC
  <2>2. stopped' \in [Group -> BOOLEAN]
        BY <1>i, <1>11, ResumeType DEF Finish, TypeOK
  <2>3. answer' \in [Rid -> {"none", "pending", "allowed", "denied"}]
        BY <1>i, <1>c, <1>11 DEF Finish, TypeOK
  <2>4. res' \in [Proc -> Result]
        BY <1>i, <1>11, ResultsAre DEF Finish, TypeOK
  <2> QED BY <1>i, <1>c, <1>11, <2>1, <2>2, <2>3, <2>4 DEF Finish, TypeOK
<1> QED BY <1>1, <1>2, <1>3, <1>4, <1>5, <1>6, <1>7, <1>8, <1>9, <1>10, <1>11, <1>r
        DEF Waiter

\* So does every step of a Cancel request.
LEMMA CancelType ==
  ASSUME IInv, NEW c \in Canceller,
         CancelWrite(c) \/ CancelResume(c) \/ \E r \in Rid : CancelCheck(c, r)
  PROVE  TypeOK'
<1> USE ExecAssumption
    DEF recordVars, decisionVars, worldVars, adoptVars, waiterVars, cancelVars,
        seenVars
<1>i. TypeOK /\ CancelInv /\ RecordInv
      BY DEF IInv
<1>1. ASSUME NEW r \in Rid, CancelCheck(c, r) PROVE TypeOK'
  <2>1. ASSUME NEW k \in Rid \cup {NoRid} PROVE CancelPlan(r, k) \in Seq(Rid)
    <3>1. step[r] = "confirm" => of[r] \in Rid
          BY <1>i DEF RecordInv
    <3>2. k # NoRid => k \in Rid
          OBVIOUS
    <3> QED BY <3>1, <3>2 DEF CancelPlan
  <2>2. PICK k \in Rid \cup {NoRid} :
          \/ toldCancelled' = toldCancelled \cup {r} /\ UNCHANGED cancelVars
          \/ /\ ctodo' = [ctodo EXCEPT ![c] = CancelPlan(r, k)]
             /\ crid' = [crid EXCEPT ![c] = r]
             /\ cpc' = [cpc EXCEPT ![c] = "cancel"]
             /\ UNCHANGED toldCancelled
        BY <1>1 DEF CancelCheck, Confirmations
  <2>3. CASE toldCancelled' = toldCancelled \cup {r} /\ UNCHANGED cancelVars
        BY <1>i, <1>1, <2>3 DEF CancelCheck, TypeOK
  <2>4. CASE /\ ctodo' = [ctodo EXCEPT ![c] = CancelPlan(r, k)]
             /\ crid' = [crid EXCEPT ![c] = r]
             /\ cpc' = [cpc EXCEPT ![c] = "cancel"]
             /\ UNCHANGED toldCancelled
    <3>1. /\ ctodo' \in [Canceller -> Seq(Rid)]
          /\ crid' \in [Canceller -> Rid \cup {NoRid}]
          BY <1>i, <2>1, <2>4 DEF TypeOK
    <3>2. cpc' \in [Canceller -> {"idle", "cancel", "consume", "result", "resume"}]
          BY <1>i, <2>4 DEF TypeOK
    <3> QED BY <1>i, <1>1, <2>4, <3>1, <3>2 DEF CancelCheck, TypeOK
  <2> QED BY <2>2, <2>3, <2>4
<1>2. CASE CancelWrite(c)
  <2>h. Head(ctodo[c]) \in Rid
        BY <1>i, <1>2 DEF CancelWrite, CancelInv, TypeOK
  <2>1. CASE /\ WriteCancel(Head(ctodo[c]))
             /\ CancelGoto(c, "consume")
             /\ UNCHANGED <<verdict, result>>
    <3>1. cancel' \in [Rid -> {"none", "torn", "written"}]
      <4>1. CASE UNCHANGED cancel
            BY <1>i, <4>1 DEF TypeOK
      <4>2. ASSUME NEW v \in {"written"} \cup Torn,
                   cancel' = [cancel EXCEPT ![Head(ctodo[c])] = v]
            PROVE  cancel' \in [Rid -> {"none", "torn", "written"}]
            BY <1>i, <4>2 DEF Torn, TypeOK
      <4> QED BY <2>1, <4>1, <4>2 DEF WriteCancel
    <3> QED BY <1>i, <1>2, <2>1, <3>1 DEF CancelWrite, CancelGoto, TypeOK
  <2>2. CASE /\ Consume(Head(ctodo[c]), "cancelled")
             /\ CancelGoto(c, "result")
             /\ UNCHANGED <<cancel, result>>
    <3>1. verdict' \in [Rid -> Decision \cup {"none", "torn"}]
          BY <1>i, <2>h, <2>2, ConsumeType DEF Decision
    <3> QED BY <1>i, <1>2, <2>2, <3>1 DEF CancelWrite, CancelGoto, TypeOK
  <2>3. CASE /\ SaveResult(Head(ctodo[c]), Res("minus1", "cancelled"))
             /\ CancelGoto(c, "resume")
             /\ UNCHANGED <<verdict, cancel>>
    <3>1. result' \in [Rid -> Result]
          BY <1>i, <2>h, <2>3, ResultsAre, SaveResultType DEF Output
    <3> QED BY <1>i, <1>2, <2>3, <3>1 DEF CancelWrite, CancelGoto, TypeOK
  <2> QED BY <1>2, <2>1, <2>2, <2>3 DEF CancelWrite
<1>3. CASE CancelResume(c)
  <2>1. stopped' \in [Group -> BOOLEAN]
        BY <1>i, <1>3, ResumeType DEF CancelResume, TypeOK
  <2>2. ctodo' \in [Canceller -> Seq(Rid)]
        BY <1>i, <1>3 DEF CancelResume, CancelInv, TypeOK
  <2>3. /\ cpc' \in [Canceller -> {"idle", "cancel", "consume", "result", "resume"}]
        /\ crid' \in [Canceller -> Rid \cup {NoRid}]
        BY <1>i, <1>3, ZenonT(60) DEF CancelResume, TypeOK
  <2>4. toldCancelled' \subseteq Rid
        BY <1>i, <1>3 DEF CancelResume, CancelInv, TypeOK
  <2> QED BY <1>i, <1>3, <2>1, <2>2, <2>3, <2>4 DEF CancelResume, TypeOK
<1> QED BY <1>1, <1>2, <1>3

\* And every other step.
LEMMA TypeStep == IInv /\ [Next]_vars => TypeOK'
<1> SUFFICES ASSUME IInv, [Next]_vars
             PROVE  TypeOK'
    OBVIOUS
<1> USE ExecAssumption
    DEF recordVars, decisionVars, worldVars, adoptVars, waiterVars, cancelVars,
        seenVars
<1>i. TypeOK
      BY DEF IInv
<1>1. ASSUME NEW r \in Rid, NEW o \in Requests, Request(r, o) PROVE TypeOK'
  <2>1. pc' \in [Proc -> WaiterPC]
    <3>1. Goto(<<r, "serve">>, "suspend") /\ <<r, "serve">> \in Proc
          BY <1>1 DEF Request, Proc
    <3> QED BY <1>i, <3>1, GotoType DEF WaiterPC
  <2>2. /\ step' \in [Rid -> {"none", "initial", "confirm"}]
        /\ opt' \in [Rid -> RequestType]
        BY <1>i, <1>1 DEF Request, TypeOK
  <2>3. /\ connected' \in [Rid -> BOOLEAN]
        /\ answer' \in [Rid -> {"none", "pending", "allowed", "denied"}]
        BY <1>i, <1>1 DEF Request, RequestType, TypeOK
  <2> QED BY <1>i, <1>1, <2>1, <2>2, <2>3 DEF Request, TypeOK
<1>2. ASSUME NEW p \in Proc, Waiter(p) PROVE TypeOK'
      BY <1>2, WaiterType
<1>3. ASSUME NEW r \in Rid, NEW d \in {"approve", "deny"}, Submit(r, d)
      PROVE  TypeOK'
  <2>1. verdict' \in [Rid -> Decision \cup {"none", "torn"}]
        BY <1>i, <1>3, ConsumeType DEF Submit, Decision
  <2> QED BY <1>i, <1>3, <2>1 DEF Submit, TypeOK
<1>4. ASSUME NEW r \in Rid, Disconnect(r) PROVE TypeOK'
      BY <1>i, <1>4 DEF Disconnect, TypeOK
<1>5. ASSUME NEW r \in Rid, Tick(r) PROVE TypeOK'
  <2>1. PICK v \in {"recExpired", "expired"} : clock' = [clock EXCEPT ![r] = v]
        BY <1>5 DEF Tick
  <2>2. clock' \in [Rid -> {"live", "recExpired", "expired"}]
        BY <1>i, <2>1 DEF TypeOK
  <2> QED BY <1>i, <1>5, <2>2 DEF Tick, TypeOK
<1>6. ASSUME NEW r \in Rid, AdoptOne(r) PROVE TypeOK'
  <2>1. pc' \in [Proc -> WaiterPC]
    <3>1. CASE UNCHANGED pc
          BY <1>i, <3>1 DEF TypeOK
    <3>2. CASE Goto(<<r, "adopt">>, "await")
          BY <1>i, <3>2, GotoType DEF WaiterPC, Proc
    <3> QED BY <1>6, <3>1, <3>2 DEF AdoptOne
  <2> QED BY <1>i, <1>6, <2>1 DEF AdoptOne, TypeOK
<1>7. ASSUME NEW c \in Canceller,
             CancelWrite(c) \/ CancelResume(c) \/ \E r \in Rid : CancelCheck(c, r)
      PROVE  TypeOK'
      BY <1>7, CancelType
<1>8. CASE Crash
  <2>1. /\ pc' \in [Proc -> WaiterPC]
        /\ cur' \in [Proc -> Rid]
        /\ dec' \in [Proc -> Decision \cup {"none", "blocked"}]
        /\ holding' \in [Proc -> BOOLEAN]
        /\ res' \in [Proc -> Result]
        BY <1>8, ResultsAre DEF Crash, WaiterPC, Proc, Origin
  <2>2. /\ cpc' \in [Canceller -> {"idle", "cancel", "consume", "result", "resume"}]
        /\ ctodo' \in [Canceller -> Seq(Rid)]
        /\ crid' \in [Canceller -> Rid \cup {NoRid}]
        BY <1>8 DEF Crash
  <2>3. connected' \in [Rid -> BOOLEAN] /\ crashes' \in 0..MaxCrashes
        BY <1>i, <1>8 DEF Crash, TypeOK
  <2> QED BY <1>i, <1>8, <2>1, <2>2, <2>3 DEF Crash, TypeOK
<1>9. CASE Restart
      BY <1>i, <1>9 DEF Restart, TypeOK
<1>10. CASE AdoptScan
      BY <1>i, <1>10 DEF AdoptScan, TypeOK
<1>11. CASE UNCHANGED vars
      BY <1>i, <1>11 DEF vars, TypeOK
<1> QED BY <1>1, <1>2, <1>3, <1>4, <1>5, <1>6, <1>7, <1>8, <1>9, <1>10, <1>11
        DEF Next

------------------------------------------------------------------------------
\* The files agree

\* A confirmation is only created for a petition that was approved.
LEMMA RecordStep == IInv /\ [Next]_vars => RecordInv'
<1> SUFFICES ASSUME IInv, [Next]_vars
             PROVE  RecordInv'
    OBVIOUS
<1> USE DEF recordVars
<1>i. TypeOK /\ TypeOK' /\ RecordInv /\ WaiterInv /\ Grows
      BY TypeStep, StepGrows DEF IInv
<1>1. ASSUME \A r \in Rid : step'[r] = "confirm" => step[r] = "confirm"
      PROVE  RecordInv'
      BY <1>i, <1>1 DEF RecordInv, Grows
<1>2. CASE UNCHANGED step
      BY <1>1, <1>2
<1>3. ASSUME NEW r \in Rid, NEW o \in Requests, Request(r, o) PROVE RecordInv'
      BY <1>1, <1>3, <1>i DEF Request, TypeOK
<1>4. ASSUME NEW p \in Proc, Confirm(p) PROVE RecordInv'
  <2>1. PICK k \in Rid : /\ step[k] = "none"
                         /\ step' = [step EXCEPT ![k] = "confirm"]
                         /\ of' = [of EXCEPT ![k] = Origin(p)]
        BY <1>4 DEF Confirm
  <2>2. /\ Origin(p) \in Rid
        /\ step[Origin(p)] = "initial"
        /\ verdict[Origin(p)] = "approve"
        BY <1>i, <1>4 DEF Confirm, WaiterInv, WaiterOK, Origin, Proc
  <2> SUFFICES ASSUME NEW r \in Rid, step'[r] = "confirm"
               PROVE  /\ of'[r] \in Rid
                      /\ step'[of'[r]] = "initial"
                      /\ verdict'[of'[r]] = "approve"
      BY DEF RecordInv
  <2>3. CASE r = k
        BY <1>i, <2>1, <2>2, <2>3 DEF Grows, TypeOK
  <2>4. CASE r # k
        BY <1>i, <2>1, <2>4 DEF Grows, RecordInv, TypeOK
  <2> QED BY <2>3, <2>4
<1>5. ASSUME NEW p \in Proc, Waiter(p) PROVE RecordInv'
      BY <1>2, <1>4, <1>5
      DEF Waiter, Suspend, Pin, AwaitVerdict, AwaitOtherwise, ConsumeOwn, SaveOwn,
          Execute, CommandEnds, SaveRan, SaveParent, Finish
<1>6. ASSUME NEW r \in Rid, NEW d \in {"approve", "deny"}, Submit(r, d)
      PROVE  RecordInv'
      BY <1>2, <1>6 DEF Submit
<1>7. ASSUME NEW r \in Rid, Disconnect(r) \/ Tick(r) \/ AdoptOne(r)
      PROVE  RecordInv'
      BY <1>2, <1>7 DEF Disconnect, Tick, AdoptOne
<1>8. ASSUME NEW c \in Canceller,
             CancelWrite(c) \/ CancelResume(c) \/ \E r \in Rid : CancelCheck(c, r)
      PROVE  RecordInv'
      BY <1>2, <1>8 DEF CancelWrite, CancelResume, CancelCheck
<1>9. CASE Crash \/ Restart \/ AdoptScan
      BY <1>2, <1>9 DEF Crash, Restart, AdoptScan
<1>10. CASE UNCHANGED vars
      BY <1>2, <1>10 DEF vars
<1> QED BY <1>3, <1>5, <1>6, <1>7, <1>8, <1>9, <1>10 DEF Next

------------------------------------------------------------------------------
\* The waiters

\* Whatever others do, a waiter that does not move keeps what it relies on.
LEMMA WaiterKeeps ==
  ASSUME TypeOK, Grows, NEW p \in Proc, WaiterOK(p),
         pc'[p] = pc[p], cur'[p] = cur[p], dec'[p] = dec[p]
  PROVE  WaiterOK(p)'
<1>1. cur[p] \in Rid /\ p[1] \in Rid
      BY DEF TypeOK, Proc
<1> QED BY <1>1 DEF WaiterOK, Grows

\* A waiter that has finished or is gone relies on nothing.
LEMMA WaiterIdle ==
  ASSUME NEW p \in Proc, pc'[p] = "idle", cur'[p] = p[1]
  PROVE  WaiterOK(p)'
BY DEF WaiterOK

\* A waiter that goes on to a place that needs no decision.
LEMMA WaiterMoves ==
  ASSUME TypeOK, Grows, NEW p \in Proc, WaiterOK(p), cur'[p] = cur[p],
         pc[p] # "idle",
         pc'[p] \in {"await", "poll", "result", "running", "ran", "parent", "finish"}
  PROVE  WaiterOK(p)'
<1>1. cur[p] \in Rid /\ p[1] \in Rid
      BY DEF TypeOK, Proc
<1> QED BY <1>1 DEF WaiterOK, Grows

\* A waiter acts on a decision that the files hold, or on one of its own that
\* is no approval.
LEMMA WaiterActs ==
  ASSUME TypeOK, Grows, NEW p \in Proc, WaiterOK(p), cur'[p] = cur[p],
         pc[p] # "idle", NEW d \in Decision, Act(p, d),
         d = "approve" => verdict[cur[p]] = "approve"
  PROVE  WaiterOK(p)'
<1>1. cur[p] \in Rid /\ p[1] \in Rid
      BY DEF TypeOK, Proc
<1>2. pc'[p] = Decided(p, d) /\ dec'[p] = d
      BY DEF Act, Goto, TypeOK
<1>3. CASE d = "approve" /\ MustConfirm(p)
      BY <1>1, <1>2, <1>3
         DEF WaiterOK, Grows, Decided, MustConfirm, Confirming, Origin
<1>4. CASE d = "approve" /\ ~MustConfirm(p)
  <2>1. pc'[p] = "run"
        BY <1>2, <1>4 DEF Decided
  <2>2. step[cur[p]] = "initial" => ~opt[cur[p]].confirm
        BY <1>4 DEF WaiterOK, MustConfirm, Confirming, Origin
  <2>3. step[cur[p]] # "none" /\ step[p[1]] # "none"
        BY DEF WaiterOK
  <2> QED BY <1>1, <1>4, <2>1, <2>2, <2>3 DEF WaiterOK, Grows
<1>5. CASE d # "approve"
  <2>1. pc'[p] \in {"consume", "result"}
        BY <1>2, <1>5 DEF Decided
  <2> QED BY <1>1, <1>2, <2>1 DEF WaiterOK, Grows
<1> QED BY <1>3, <1>4, <1>5

\* A step of a waiter keeps what it relies on.
LEMMA OwnStep ==
  ASSUME IInv, TypeOK', Grows, NEW p \in Proc, Waiter(p)
  PROVE  WaiterOK(p)'
<1>i. TypeOK /\ WaiterOK(p)
      BY DEF IInv, WaiterInv
<1>p. ASSUME NEW l, Goto(p, l) PROVE pc'[p] = l
      BY <1>i, <1>p DEF Goto, TypeOK
<1>1. CASE Suspend(p)
  <2>1. pc'[p] \in {"pin", "await"} /\ cur' = cur /\ dec' = dec
        BY <1>1, <1>p DEF Suspend
  <2>2. cur[p] \in Rid /\ p[1] \in Rid
        BY <1>i DEF TypeOK, Proc
  <2> QED BY <1>i, <1>1, <2>1, <2>2 DEF Suspend, WaiterOK, Grows
<1>2. CASE Pin(p)
  <2>1. pc'[p] = "await" /\ cur' = cur
        BY <1>2, <1>p DEF Pin
  <2> QED BY <1>i, <1>2, <2>1, WaiterMoves DEF Pin
<1>3. CASE AwaitVerdict(p)
  <2>1. CASE Goto(p, "poll")
        BY <1>i, <1>3, <1>p, <2>1, WaiterMoves DEF AwaitVerdict
  <2>2. CASE Act(p, Verdict(cur[p])) /\ Verdict(cur[p]) # "none"
    <3>1. Verdict(cur[p]) \in Decision
          BY <1>i, <2>2 DEF Verdict, TypeOK
    <3>2. Verdict(cur[p]) = "approve" => verdict[cur[p]] = "approve"
          BY DEF Verdict
    <3> QED BY <1>i, <1>3, <2>2, <3>1, <3>2, WaiterActs DEF AwaitVerdict
  <2> QED BY <1>3, <2>1, <2>2 DEF AwaitVerdict
<1>4. CASE AwaitOtherwise(p)
  <2>1. CASE Goto(p, "await")
        BY <1>i, <1>4, <1>p, <2>1, WaiterMoves DEF AwaitOtherwise
  <2>2. ASSUME NEW d \in {"cancelled", "timeout", "client_aborted"}, Act(p, d)
        PROVE  WaiterOK(p)'
        BY <1>i, <1>4, <2>2, WaiterActs DEF AwaitOtherwise, Decision
  <2> QED BY <1>4, <2>1, <2>2 DEF AwaitOtherwise
<1>5. CASE \/ ConsumeOwn(p) \/ SaveOwn(p) \/ CommandEnds(p) \/ SaveRan(p)
          \/ SaveParent(p) \/ Execute(p)
  <2>1. /\ pc'[p] \in {"result", "running", "ran", "parent", "finish"}
        /\ cur' = cur
        /\ pc[p] # "idle"
        BY <1>5, <1>p
        DEF ConsumeOwn, SaveOwn, CommandEnds, SaveRan, SaveParent, Execute,
        AfterResult
  <2> QED BY <1>i, <2>1, WaiterMoves
<1>6. CASE Confirm(p)
  <2>1. PICK k \in Rid : /\ step[k] = "none"
                         /\ step' = [step EXCEPT ![k] = "confirm"]
                         /\ of' = [of EXCEPT ![k] = Origin(p)]
                         /\ cur' = [cur EXCEPT ![p] = k]
        BY <1>6 DEF Confirm
  <2>2. pc'[p] = "await"
        BY <1>6, <1>p DEF Confirm
  <2>3. cur'[p] = k /\ step'[k] = "confirm" /\ of'[k] = p[1]
        BY <1>i, <2>1 DEF TypeOK, Origin
  <2>4. step'[p[1]] # "none"
        BY <1>i, <1>6 DEF Confirm, WaiterOK, Grows, Proc
  <2> QED BY <2>2, <2>3, <2>4 DEF WaiterOK
<1>7. CASE Finish(p)
  <2>1. pc'[p] = "idle" /\ cur'[p] = p[1]
        BY <1>i, <1>7, <1>p DEF Finish, TypeOK, Origin
  <2> QED BY <2>1, WaiterIdle
<1> QED BY <1>1, <1>2, <1>3, <1>4, <1>5, <1>6, <1>7 DEF Waiter

\* A waiter's step leaves every other waiter where it is.
LEMMA OthersStay ==
  ASSUME TypeOK, NEW p \in Proc, NEW q \in Proc, p # q, Waiter(q)
  PROVE  pc'[p] = pc[p] /\ cur'[p] = cur[p] /\ dec'[p] = dec[p]
<1> USE DEF waiterVars
<1>1. ASSUME NEW l, Goto(q, l) PROVE pc'[p] = pc[p]
      BY <1>1 DEF Goto, TypeOK
<1>2. ASSUME NEW d, Act(q, d) PROVE pc'[p] = pc[p] /\ dec'[p] = dec[p]
      BY <1>1, <1>2 DEF Act, TypeOK
<1>3. CASE Suspend(q) \/ Pin(q)
      BY <1>1, <1>3 DEF Suspend, Pin
<1>4. CASE AwaitVerdict(q)
      BY <1>1, <1>2, <1>4 DEF AwaitVerdict
<1>5. CASE AwaitOtherwise(q)
      BY <1>1, <1>2, <1>5 DEF AwaitOtherwise
<1>6. CASE ConsumeOwn(q) \/ SaveOwn(q) \/ CommandEnds(q) \/ SaveRan(q) \/ SaveParent(q)
      BY <1>1, <1>6 DEF ConsumeOwn, SaveOwn, CommandEnds, SaveRan, SaveParent
<1>7. CASE Confirm(q)
  <2>1. pc'[p] = pc[p] /\ dec'[p] = dec[p]
        BY <1>1, <1>7 DEF Confirm
  <2>2. cur'[p] = cur[p]
        BY <1>7 DEF Confirm, TypeOK
  <2> QED BY <2>1, <2>2
<1>8. CASE Execute(q)
  <2>1. pc'[p] = pc[p] /\ cur'[p] = cur[p]
        BY <1>1, <1>8 DEF Execute
  <2>2. dec'[p] = dec[p]
        BY <1>8 DEF Execute, TypeOK
  <2> QED BY <2>1, <2>2
<1>9. CASE Finish(q)
  <2>1. pc'[p] = pc[p]
        BY <1>1, <1>9 DEF Finish
  <2>2. cur'[p] = cur[p] /\ dec'[p] = dec[p]
        BY <1>9 DEF Finish, TypeOK
  <2> QED BY <2>1, <2>2
<1> QED BY <1>3, <1>4, <1>5, <1>6, <1>7, <1>8, <1>9 DEF Waiter

\* Every step keeps what every waiter relies on.
LEMMA WaiterStep == IInv /\ [Next]_vars => WaiterInv'
<1> SUFFICES ASSUME IInv, [Next]_vars, NEW p \in Proc
             PROVE  WaiterOK(p)'
    BY DEF WaiterInv
<1> USE DEF waiterVars
<1>i. TypeOK /\ TypeOK' /\ Grows /\ WaiterOK(p)
      BY TypeStep, StepGrows DEF IInv, WaiterInv
<1>1. CASE UNCHANGED <<pc, cur, dec>>
      BY <1>i, <1>1, WaiterKeeps
<1>2. ASSUME NEW r \in Rid, NEW o \in Requests, Request(r, o)
      PROVE  WaiterOK(p)'
  <2>1. CASE p = <<r, "serve">>
    <3>1. cur[p] = r /\ p[1] = r
          BY <1>i, <1>2, <2>1 DEF Request, WaiterOK
    <3>2. pc'[p] = "suspend" /\ cur'[p] = r /\ step'[r] = "initial"
          BY <1>i, <1>2, <2>1, <3>1 DEF Request, Goto, TypeOK
    <3> QED BY <3>1, <3>2 DEF WaiterOK
  <2>2. CASE p # <<r, "serve">>
    <3>1. pc'[p] = pc[p] /\ cur'[p] = cur[p] /\ dec'[p] = dec[p]
          BY <1>i, <1>2, <2>2 DEF Request, Goto, TypeOK
    <3> QED BY <1>i, <3>1, WaiterKeeps
  <2> QED BY <2>1, <2>2
<1>3. ASSUME NEW q \in Proc, Waiter(q) PROVE WaiterOK(p)'
  <2>1. CASE p = q
        BY <1>i, <1>3, <2>1, OwnStep
  <2>2. CASE p # q
    <3>1. pc'[p] = pc[p] /\ cur'[p] = cur[p] /\ dec'[p] = dec[p]
          BY <1>i, <1>3, <2>2, OthersStay
    <3> QED BY <1>i, <3>1, WaiterKeeps
  <2> QED BY <2>1, <2>2
<1>4. ASSUME NEW r \in Rid, NEW d \in {"approve", "deny"}, Submit(r, d)
      PROVE  WaiterOK(p)'
      BY <1>1, <1>4 DEF Submit
<1>5. ASSUME NEW r \in Rid, Disconnect(r) \/ Tick(r) PROVE WaiterOK(p)'
      BY <1>1, <1>5 DEF Disconnect, Tick
<1>6. ASSUME NEW r \in Rid, AdoptOne(r) PROVE WaiterOK(p)'
  <2>1. CASE UNCHANGED pc
        BY <1>1, <1>6, <2>1 DEF AdoptOne
  <2>2. CASE p = <<r, "adopt">> /\ Goto(p, "await")
    <3>1. step[r] # "none" /\ p[1] = r
          BY <1>6, <2>2 DEF AdoptOne, IInv, OrphanInv
    <3>2. pc'[p] = "await" /\ cur'[p] = cur[p]
          BY <1>i, <1>6, <2>2 DEF AdoptOne, Goto, TypeOK
    <3>3. cur[p] \in Rid
          BY <1>i DEF TypeOK
    <3> QED BY <1>i, <1>6, <3>1, <3>2, <3>3 DEF WaiterOK, Grows
  <2>3. CASE p # <<r, "adopt">> /\ Goto(<<r, "adopt">>, "await")
    <3>1. pc'[p] = pc[p] /\ cur'[p] = cur[p] /\ dec'[p] = dec[p]
          BY <1>i, <1>6, <2>3 DEF AdoptOne, Goto, TypeOK
    <3> QED BY <1>i, <3>1, WaiterKeeps
  <2> QED BY <1>6, <2>1, <2>2, <2>3 DEF AdoptOne
<1>7. ASSUME NEW c \in Canceller,
             CancelWrite(c) \/ CancelResume(c) \/ \E r \in Rid : CancelCheck(c, r)
      PROVE  WaiterOK(p)'
      BY <1>1, <1>7 DEF CancelWrite, CancelResume, CancelCheck
<1>8. CASE Crash
      BY <1>8, WaiterIdle DEF Crash, Origin
<1>9. CASE Restart \/ AdoptScan
      BY <1>1, <1>9 DEF Restart, AdoptScan
<1>10. CASE UNCHANGED vars
      BY <1>1, <1>10 DEF vars
<1> QED BY <1>2, <1>3, <1>4, <1>5, <1>6, <1>7, <1>8, <1>9, <1>10 DEF Next

------------------------------------------------------------------------------
\* Cancel requests and adoption

LEMMA CancelStep == IInv /\ [Next]_vars => CancelInv'
<1> SUFFICES ASSUME IInv, [Next]_vars, NEW c \in Canceller
             PROVE  cpc'[c] # "idle" => ctodo'[c] # <<>> /\ crid'[c] \in Rid
    BY DEF CancelInv
<1> USE DEF cancelVars
<1>i. /\ TypeOK /\ TypeOK'
      /\ cpc[c] # "idle" => ctodo[c] # <<>> /\ crid[c] \in Rid
      BY TypeStep DEF IInv, CancelInv
<1>1. CASE UNCHANGED cancelVars
      BY <1>i, <1>1
<1>2. ASSUME NEW r \in Rid, NEW o \in Requests, Request(r, o)
      PROVE  cpc'[c] # "idle" => ctodo'[c] # <<>> /\ crid'[c] \in Rid
      BY <1>1, <1>2 DEF Request
<1>3. ASSUME NEW p \in Proc, Waiter(p)
      PROVE  cpc'[c] # "idle" => ctodo'[c] # <<>> /\ crid'[c] \in Rid
      BY <1>1, <1>3
      DEF Waiter, Suspend, Pin, AwaitVerdict, AwaitOtherwise, ConsumeOwn, SaveOwn,
          Confirm, Execute, CommandEnds, SaveRan, SaveParent, Finish
<1>4. ASSUME NEW r \in Rid, NEW d \in {"approve", "deny"}, Submit(r, d)
      PROVE  cpc'[c] # "idle" => ctodo'[c] # <<>> /\ crid'[c] \in Rid
      BY <1>1, <1>4 DEF Submit
<1>5. ASSUME NEW r \in Rid, Disconnect(r) \/ Tick(r) \/ AdoptOne(r)
      PROVE  cpc'[c] # "idle" => ctodo'[c] # <<>> /\ crid'[c] \in Rid
      BY <1>1, <1>5 DEF Disconnect, Tick, AdoptOne
<1>6. ASSUME NEW b \in Canceller, NEW r \in Rid, CancelCheck(b, r)
      PROVE  cpc'[c] # "idle" => ctodo'[c] # <<>> /\ crid'[c] \in Rid
  <2>1. CASE b = c /\ ~UNCHANGED cancelVars
    <3>1. PICK k \in Rid \cup {NoRid} :
            \/ UNCHANGED cancelVars
            \/ /\ CancelPlan(r, k) # <<>>
               /\ ctodo' = [ctodo EXCEPT ![b] = CancelPlan(r, k)]
               /\ crid' = [crid EXCEPT ![b] = r]
          BY <1>6 DEF CancelCheck, Confirmations
    <3>2. /\ CancelPlan(r, k) # <<>>
          /\ ctodo' = [ctodo EXCEPT ![c] = CancelPlan(r, k)]
          /\ crid' = [crid EXCEPT ![c] = r]
          BY <2>1, <3>1
    <3> QED BY <1>i, <3>2 DEF TypeOK
  <2>2. CASE b # c
        BY <1>i, <1>1, <1>6, <2>2 DEF CancelCheck, TypeOK
  <2> QED BY <1>1, <2>1, <2>2
<1>7. ASSUME NEW b \in Canceller, CancelWrite(b)
      PROVE  cpc'[c] # "idle" => ctodo'[c] # <<>> /\ crid'[c] \in Rid
  <2>1. cpc[b] # "idle" /\ UNCHANGED <<ctodo, crid>>
        BY <1>7 DEF CancelWrite, CancelGoto
  <2>2. b # c => cpc'[c] = cpc[c]
        BY <1>i, <1>7 DEF CancelWrite, CancelGoto, TypeOK
  <2> QED BY <1>i, <2>1, <2>2
<1>8. ASSUME NEW b \in Canceller, CancelResume(b)
      PROVE  cpc'[c] # "idle" => ctodo'[c] # <<>> /\ crid'[c] \in Rid
  <2>1. CASE b # c
        BY <1>i, <1>8, <2>1 DEF CancelResume, TypeOK
  <2>2. CASE b = c /\ Len(ctodo[c]) > 1
    <3>1. ctodo'[c] = Tail(ctodo[c]) /\ crid'[c] = crid[c] /\ cpc[c] # "idle"
          BY <1>i, <1>8, <2>2 DEF CancelResume, TypeOK
    <3>2. ctodo[c] \in Seq(Rid)
          BY <1>i DEF TypeOK
    <3>3. Tail(ctodo[c]) # <<>>
          BY <2>2, <3>2, HeadTailProperties
    <3> QED BY <1>i, <3>1, <3>3
  <2>3. CASE b = c /\ ~(Len(ctodo[c]) > 1)
        BY <1>i, <1>8, <2>3 DEF CancelResume, TypeOK
  <2> QED BY <2>1, <2>2, <2>3
<1>9. CASE Crash
      BY <1>9 DEF Crash
<1>10. CASE Restart \/ AdoptScan
      BY <1>1, <1>10 DEF Restart, AdoptScan
<1>11. CASE UNCHANGED vars
      BY <1>1, <1>11 DEF vars
<1> QED BY <1>2, <1>3, <1>4, <1>5, <1>6, <1>7, <1>8, <1>9, <1>10, <1>11 DEF Next

LEMMA OrphanStep == IInv /\ [Next]_vars => OrphanInv'
<1> SUFFICES ASSUME IInv, [Next]_vars
             PROVE  OrphanInv'
    OBVIOUS
<1> USE DEF adoptVars
<1>i. TypeOK /\ Grows /\ OrphanInv
      BY StepGrows DEF IInv
<1>1. ASSUME orphans' \subseteq orphans PROVE OrphanInv'
      BY <1>i, <1>1 DEF OrphanInv, Grows, TypeOK
<1>2. CASE AdoptScan
      BY <1>2 DEF AdoptScan, Listed, OrphanInv, recordVars
<1>3. ASSUME NEW r \in Rid, Disconnect(r) \/ Tick(r) \/ AdoptOne(r)
      PROVE  OrphanInv'
      BY <1>1, <1>3 DEF Disconnect, Tick, AdoptOne
<1>4. ASSUME NEW p \in Proc, Waiter(p) PROVE OrphanInv'
      BY <1>1, <1>4
      DEF Waiter, Suspend, Pin, AwaitVerdict, AwaitOtherwise, ConsumeOwn, SaveOwn,
          Confirm, Execute, CommandEnds, SaveRan, SaveParent, Finish
<1>5. ASSUME NEW c \in Canceller,
             CancelWrite(c) \/ CancelResume(c) \/ \E r \in Rid : CancelCheck(c, r)
      PROVE  OrphanInv'
      BY <1>1, <1>5 DEF CancelWrite, CancelResume, CancelCheck
<1>6. ASSUME NEW r \in Rid, NEW o \in Requests, Request(r, o) PROVE OrphanInv'
      BY <1>1, <1>6 DEF Request
<1>7. ASSUME NEW r \in Rid, NEW d \in {"approve", "deny"}, Submit(r, d)
      PROVE  OrphanInv'
      BY <1>1, <1>7 DEF Submit
<1>8. CASE Crash \/ Restart
      BY <1>1, <1>8 DEF Crash, Restart
<1>9. CASE UNCHANGED vars
      BY <1>1, <1>9 DEF vars
<1> QED BY <1>2, <1>3, <1>4, <1>5, <1>6, <1>7, <1>8, <1>9 DEF Next

------------------------------------------------------------------------------
\* The approvals

\* A waiter that is about to run a command has the approvals it needs.
LEMMA RunIsApproved ==
  ASSUME IInv, NEW p \in Proc, pc[p] = "run"
  PROVE  Root(cur[p]) \in Rid /\ Approved(Root(cur[p]))
<1>1. /\ cur[p] \in Rid
      /\ step[cur[p]] \in {"initial", "confirm"}
      /\ verdict[cur[p]] = "approve"
      /\ step[cur[p]] = "initial" => ~opt[cur[p]].confirm
      BY DEF IInv, TypeOK, WaiterInv, WaiterOK
<1>2. CASE step[cur[p]] = "initial"
      BY <1>1, <1>2 DEF Root, Approved, Verdict
<1>3. CASE step[cur[p]] = "confirm"
  <2>1. /\ of[cur[p]] \in Rid
        /\ step[of[cur[p]]] = "initial"
        /\ verdict[of[cur[p]]] = "approve"
        BY <1>1, <1>3 DEF IInv, RecordInv
  <2>2. cur[p] \in Confirmations(of[cur[p]]) /\ Verdict(cur[p]) = "approve"
        BY <1>1, <1>3 DEF Confirmations, Verdict
  <2> QED BY <1>3, <2>1, <2>2 DEF Root, Approved, Verdict
<1> QED BY <1>1, <1>2, <1>3

LEMMA ExecutedStep == IInv /\ [Next]_vars => ExecutedOnlyIfApproved'
<1> SUFFICES ASSUME IInv, [Next]_vars, NEW r \in Rid, executed'[r] > 0
             PROVE  Approved(r)'
    BY DEF ExecutedOnlyIfApproved
<1> USE DEF seenVars
<1>i. TypeOK /\ Grows /\ ExecutedOnlyIfApproved
      BY StepGrows DEF IInv
<1>1. ASSUME executed'[r] = executed[r] PROVE Approved(r)'
      BY <1>i, <1>1, ApprovedStays DEF ExecutedOnlyIfApproved
<1>2. ASSUME NEW p \in Proc, Execute(p) PROVE Approved(r)'
  <2>1. CASE UNCHANGED executed
        BY <1>1, <2>1
  <2>2. CASE executed' = [executed EXCEPT ![Root(cur[p])] = @ + 1]
    <3>1. CASE r = Root(cur[p])
      <4>1. Approved(r)
            BY <1>2, <3>1, RunIsApproved DEF Execute
      <4> QED BY <1>i, <4>1, ApprovedStays
    <3>2. CASE r # Root(cur[p])
          BY <1>i, <1>1, <2>2, <3>2 DEF TypeOK
    <3> QED BY <3>1, <3>2
  <2> QED BY <1>2, <2>1, <2>2 DEF Execute
<1>3. ASSUME NEW p \in Proc, Waiter(p) PROVE Approved(r)'
      BY <1>1, <1>2, <1>3
      DEF Waiter, Suspend, Pin, AwaitVerdict, AwaitOtherwise, ConsumeOwn, SaveOwn,
          Confirm, CommandEnds, SaveRan, SaveParent, Finish
<1>4. ASSUME NEW q \in Rid, Disconnect(q) \/ Tick(q) \/ AdoptOne(q)
      PROVE  Approved(r)'
      BY <1>1, <1>4 DEF Disconnect, Tick, AdoptOne
<1>5. ASSUME NEW c \in Canceller,
             CancelWrite(c) \/ CancelResume(c) \/ \E q \in Rid : CancelCheck(c, q)
      PROVE  Approved(r)'
      BY <1>1, <1>5 DEF CancelWrite, CancelResume, CancelCheck
<1>6. ASSUME NEW q \in Rid, NEW o \in Requests, Request(q, o) PROVE Approved(r)'
      BY <1>1, <1>6 DEF Request
<1>7. ASSUME NEW q \in Rid, NEW d \in {"approve", "deny"}, Submit(q, d)
      PROVE  Approved(r)'
      BY <1>1, <1>7 DEF Submit
<1>8. CASE Crash \/ Restart \/ AdoptScan
      BY <1>1, <1>8 DEF Crash, Restart, AdoptScan
<1>9. CASE UNCHANGED vars
      BY <1>1, <1>9 DEF vars
<1> QED BY <1>3, <1>4, <1>5, <1>6, <1>7, <1>8, <1>9 DEF Next

------------------------------------------------------------------------------
\* The invariant, and what follows from it.

LEMMA Invariant == Spec => []IInv
<1>1. IInv /\ [Next]_vars => IInv'
      BY TypeStep, RecordStep, WaiterStep, CancelStep, OrphanStep, ExecutedStep
         DEF IInv
<1> QED BY InitInv, <1>1, PTL DEF Spec

\* The type invariant of ExecPetition.
THEOREM TypeCorrect == Spec => []TypeOK
<1>1. IInv => TypeOK
      BY DEF IInv
<1> QED BY <1>1, Invariant, PTL

\* No command runs without every approval its petition needs.
THEOREM NoRunWithoutApproval == Spec => []ExecutedOnlyIfApproved
<1>1. IInv => ExecutedOnlyIfApproved
      BY DEF IInv
<1> QED BY <1>1, Invariant, PTL
------------------------------------------------------------------------------
\* One driver per petition.  If AdoptOrphans takes its list before requests
\* are saved, a petition, its confirmation included, has at most one waiter or
\* place in that list at any time.

Busy(p) == pc[p] # "idle"

\* A confirmation is the only one of its parent, and the policy asks for it.
ChildInv ==
  /\ \A k \in Rid : step[k] = "confirm" => opt[of[k]].confirm
  /\ \A k, l \in Rid :
       step[k] = "confirm" /\ step[l] = "confirm" /\ of[k] = of[l] => k = l

DriverInv ==
  /\ \A p, q \in Proc : Busy(p) /\ Busy(q) /\ Root(p[1]) = Root(q[1]) => p = q
  /\ \A p \in Proc, x \in orphans : Busy(p) => Root(p[1]) # Root(x)
  /\ \A x, y \in orphans : Root(x) = Root(y) => x = y
  /\ scan = "due" \/ ~up => orphans = {} /\ \A p \in Proc : ~Busy(p)

\* A restarted daemon does not adopt x, or only to find a verdict file that
\* stays unreadable.
Unadoptable(x) == verdict[x] # "none" \/ CancelInfo(x) \/ clock[x] # "live"

Runs(p) == executed[Root(p[1])]

\* A handler serves a petition of a requester; a waiter that has not reached
\* confirm finds no confirmation there.
RootedOK(p) ==
  /\ p[2] = "serve" => step[p[1]] = "initial"
  /\ step[p[1]] = "initial" /\ cur[p] = p[1] => Confirmations(p[1]) = {}

\* How far the command of a petition is, by where its waiter stands.
StageOK(p) ==
  /\ pc[p] \notin {"running", "ran", "parent", "finish"} => Runs(p) = 0
  /\ pc[p] \in {"consume", "result"} => dec[p] # "approve"
  /\ pc[p] \in {"run", "running", "ran"} => dec[p] = "approve"
  /\ pc[p] \in {"running", "ran"} => verdict[cur[p]] = "approve"
  /\ pc[p] \in {"parent", "finish"} /\ dec[p] # "approve" => Runs(p) = 0
  /\ pc[p] = "confirm" => opt[p[1]].confirm
  /\ pc[p] \in {"result", "parent", "finish"} => Unadoptable(cur[p])

ProgressOK(p) == Busy(p) => RootedOK(p) /\ StageOK(p)

ProgressInv == \A p \in Proc : ProgressOK(p)

\* What is listed has not run.
OrphanFresh == \A x \in orphans : executed[Root(x)] = 0

SoleInv == ChildInv /\ DriverInv /\ ProgressInv /\ OrphanFresh /\ AtMostOnce

LEMMA SoleInit == Init => SoleInv
<1> SUFFICES ASSUME Init PROVE SoleInv
    OBVIOUS
<1>1. ChildInv /\ OrphanFresh /\ AtMostOnce
      BY DEF Init, ChildInv, OrphanFresh, AtMostOnce
<1>2. DriverInv /\ ProgressInv
      BY DEF Init, DriverInv, ProgressInv, ProgressOK, Busy
<1> QED BY <1>1, <1>2 DEF SoleInv

------------------------------------------------------------------------------
\* What a step leaves alone.

\* The steps of the operator, the clients, the clock and Cancel: they move no
\* waiter and create no record, and the one result they write is "cancelled".
\* Only Cancel resumes a group.
Quiet ==
  /\ UNCHANGED <<step, of, opt, pinned, pc, cur, dec, holding, res, executed,
                 printed, answer, adoptVars>>
  /\ \A x \in Rid : result'[x] \in {result[x], Res("minus1", "cancelled")}
  /\ UNCHANGED stopped \/ \E c \in Canceller : CancelResume(c)

\* The other steps, one kind each.
LEMMA StepKinds ==
  ASSUME TypeOK, [Next]_vars
  PROVE  \/ Quiet
         \/ \E r \in Rid, o \in Requests : Request(r, o)
         \/ \E p \in Proc : Waiter(p)
         \/ \E r \in Rid : AdoptOne(r)
         \/ Crash \/ Restart \/ AdoptScan
<1> USE DEF recordVars, decisionVars, worldVars, adoptVars, waiterVars, seenVars
<1>1. ASSUME NEW r \in Rid, NEW d \in {"approve", "deny"}, Submit(r, d) PROVE Quiet
      BY <1>1 DEF Submit, Quiet
<1>2. ASSUME NEW r \in Rid, Disconnect(r) \/ Tick(r) PROVE Quiet
      BY <1>2 DEF Disconnect, Tick, Quiet
<1>3. ASSUME NEW c \in Canceller,
             CancelResume(c) \/ \E r \in Rid : CancelCheck(c, r)
      PROVE  Quiet
      BY <1>3 DEF CancelResume, CancelCheck, Quiet
<1>4. ASSUME NEW c \in Canceller, CancelWrite(c) PROVE Quiet
  <2>1. \A x \in Rid : result'[x] \in {result[x], Res("minus1", "cancelled")}
        BY <1>4 DEF CancelWrite, SaveResult, TypeOK
  <2> QED BY <1>4, <2>1 DEF CancelWrite, Quiet
<1>5. CASE UNCHANGED vars
      BY <1>5 DEF vars, Quiet
<1> QED BY <1>1, <1>2, <1>3, <1>4, <1>5 DEF Next

\* A waiter's step wakes nobody and leaves the list of orphans alone.
LEMMA WaiterFrame ==
  ASSUME TypeOK, NEW q \in Proc, Waiter(q)
  PROVE  /\ UNCHANGED <<adoptVars, clock>>
         /\ Busy(q)
         /\ \A p \in Proc \ {q} : pc'[p] = pc[p] /\ cur'[p] = cur[p] /\ dec'[p] = dec[p]
         /\ \A p \in Proc : Busy(p)' => Busy(p)
<1> USE DEF worldVars, adoptVars
<1>1. UNCHANGED <<adoptVars, clock>> /\ Busy(q)
      BY DEF Waiter, Suspend, Pin, AwaitVerdict, AwaitOtherwise, ConsumeOwn, SaveOwn,
             Confirm, Execute, CommandEnds, SaveRan, SaveParent, Finish, Busy
<1>2. \A p \in Proc \ {q} : pc'[p] = pc[p] /\ cur'[p] = cur[p] /\ dec'[p] = dec[p]
      BY OthersStay
<1> QED BY <1>1, <1>2 DEF Busy

\* Only the run of a command counts as one.
LEMMA ExecutedChange ==
  ASSUME TypeOK, NEW q \in Proc, Waiter(q)
  PROVE  \/ UNCHANGED executed
         \/ /\ Execute(q) /\ pc[q] = "run" /\ pc'[q] = "running" /\ dec'[q] = dec[q]
            /\ executed' = [executed EXCEPT ![Root(cur[q])] = @ + 1]
<1> USE DEF seenVars
<1>1. CASE Execute(q)
      BY <1>1 DEF Execute, Goto, TypeOK
<1> QED BY <1>1 DEF Waiter, Suspend, Pin, AwaitVerdict, AwaitOtherwise, ConsumeOwn,
                    SaveOwn, Confirm, CommandEnds, SaveRan, SaveParent, Finish

\* Only confirm saves a record.
LEMMA RecordChange ==
  ASSUME NEW q \in Proc, Waiter(q)
  PROVE  UNCHANGED <<step, of, opt>> \/ Confirm(q)
BY DEF Waiter, Suspend, Pin, AwaitVerdict, AwaitOtherwise, ConsumeOwn, SaveOwn,
       Execute, CommandEnds, SaveRan, SaveParent, Finish, recordVars

\* A cancellation is not undone, torn or not.
LEMMA CancelStays ==
  ASSUME TypeOK, [Next]_vars, NEW x \in Rid, cancel[x] # "none"
  PROVE  cancel'[x] = cancel[x]
<1> USE DEF decisionVars
<1>1. CASE UNCHANGED cancel
      BY <1>1
<1>2. ASSUME NEW q \in Proc, Waiter(q) PROVE UNCHANGED cancel
      BY <1>2 DEF Waiter, Suspend, Pin, AwaitVerdict, AwaitOtherwise, ConsumeOwn,
                  SaveOwn, Confirm, Execute, CommandEnds, SaveRan, SaveParent,
                  Finish
<1>3. ASSUME NEW r \in Rid, NEW o \in Requests, Request(r, o) PROVE UNCHANGED cancel
      BY <1>3 DEF Request
<1>4. ASSUME NEW r \in Rid, NEW d \in {"approve", "deny"}, Submit(r, d)
      PROVE  UNCHANGED cancel
      BY <1>4 DEF Submit
<1>5. ASSUME NEW r \in Rid, Disconnect(r) \/ Tick(r) \/ AdoptOne(r)
      PROVE  UNCHANGED cancel
      BY <1>5 DEF Disconnect, Tick, AdoptOne
<1>6. ASSUME NEW c \in Canceller, CancelWrite(c) PROVE cancel'[x] = cancel[x]
      BY <1>6 DEF CancelWrite, WriteCancel, TypeOK
<1>7. ASSUME NEW c \in Canceller,
             CancelResume(c) \/ \E r \in Rid : CancelCheck(c, r)
      PROVE  UNCHANGED cancel
      BY <1>7 DEF CancelResume, CancelCheck
<1>8. CASE Crash \/ Restart \/ AdoptScan
      BY <1>1, <1>8 DEF Crash, Restart, AdoptScan
<1>9. CASE UNCHANGED vars
      BY <1>1, <1>9 DEF vars
<1> QED BY <1>1, <1>2, <1>3, <1>4, <1>5, <1>6, <1>7, <1>8, <1>9 DEF Next

\* A deadline that has come, a verdict and a cancellation are not undone.
LEMMA UnadoptableStays ==
  ASSUME TypeOK, [Next]_vars, Grows, NEW x \in Rid, Unadoptable(x)
  PROVE  Unadoptable(x)'
<1>1. clock[x] # "live" => clock'[x] # "live"
  <2> USE DEF worldVars
  <2>1. CASE UNCHANGED clock
        BY <2>1
  <2>2. ASSUME NEW r \in Rid, Tick(r) PROVE clock[x] # "live" => clock'[x] # "live"
        BY <2>2 DEF Tick, TypeOK
  <2>3. ASSUME NEW q \in Proc, Waiter(q) PROVE UNCHANGED clock
        BY <2>3, WaiterFrame
  <2>4. ASSUME NEW r \in Rid, NEW o \in Requests, Request(r, o) PROVE UNCHANGED clock
        BY <2>4 DEF Request
  <2>5. ASSUME NEW r \in Rid, NEW d \in {"approve", "deny"}, Submit(r, d)
        PROVE  UNCHANGED clock
        BY <2>5 DEF Submit
  <2>6. ASSUME NEW r \in Rid, Disconnect(r) \/ AdoptOne(r) PROVE UNCHANGED clock
        BY <2>6 DEF Disconnect, AdoptOne
  <2>7. ASSUME NEW c \in Canceller,
               CancelWrite(c) \/ CancelResume(c) \/ \E r \in Rid : CancelCheck(c, r)
        PROVE  UNCHANGED clock
        BY <2>7 DEF CancelWrite, CancelResume, CancelCheck
  <2>8. CASE Crash \/ Restart \/ AdoptScan
        BY <2>1, <2>8 DEF Crash, Restart, AdoptScan
  <2>9. CASE UNCHANGED vars
        BY <2>1, <2>9 DEF vars
  <2> QED BY <2>1, <2>2, <2>3, <2>4, <2>5, <2>6, <2>7, <2>8, <2>9 DEF Next
<1>2. verdict[x] # "none" => verdict'[x] # "none"
      BY DEF Grows
<1>3. cancel[x] = "written" => cancel'[x] = "written"
      BY CancelStays
<1> QED BY <1>1, <1>2, <1>3 DEF Unadoptable, CancelInfo

------------------------------------------------------------------------------
\* Which petition a waiter drives.

\* It has a record, and is the petition itself or the parent of a confirmation.
LEMMA RootHas ==
  ASSUME TypeOK, RecordInv, NEW x \in Rid, step[x] # "none"
  PROVE  /\ Root(x) \in Rid /\ step[Root(x)] = "initial"
         /\ step[x] = "initial" => Root(x) = x
         /\ step[x] = "confirm" => Root(x) = of[x]
BY DEF TypeOK, RecordInv, Root

\* It stays the same.
LEMMA RootStays ==
  ASSUME Grows, NEW x \in Rid, step[x] # "none"
  PROVE  step'[x] = step[x] /\ Root(x)' = Root(x)
BY DEF Grows, Root

\* A waiter drives the petition of its own id, inside confirm too.
LEMMA Drives ==
  ASSUME IInv, NEW p \in Proc, Busy(p)
  PROVE  /\ p[1] \in Rid /\ step[p[1]] # "none"
         /\ cur[p] \in Rid /\ step[cur[p]] # "none"
         /\ Root(cur[p]) = Root(p[1]) /\ Root(p[1]) \in Rid
         /\ step[Root(p[1])] = "initial"
         /\ cur[p] # p[1] => step[p[1]] = "initial" /\ step[cur[p]] = "confirm"
                             /\ of[cur[p]] = p[1]
<1>1. p[1] \in Rid /\ cur[p] \in Rid /\ TypeOK /\ RecordInv
      BY DEF IInv, TypeOK, Proc
<1>2. /\ step[cur[p]] # "none" /\ step[p[1]] # "none"
      /\ cur[p] # p[1] => step[cur[p]] = "confirm" /\ of[cur[p]] = p[1]
      BY DEF IInv, WaiterInv, WaiterOK, Busy
<1>3. cur[p] # p[1] => step[p[1]] = "initial"
      BY <1>1, <1>2 DEF RecordInv
<1>4. Root(cur[p]) = Root(p[1])
      BY <1>1, <1>2, <1>3, RootHas
<1> QED BY <1>1, <1>2, <1>3, <1>4, RootHas

\* Neither does the command of another petition.
LEMMA OwnRuns ==
  ASSUME IInv, NEW q \in Proc, Waiter(q), NEW r \in Rid, r # Root(q[1])
  PROVE  executed'[r] = executed[r]
<1>1. TypeOK /\ Busy(q)
      BY WaiterFrame DEF IInv
<1>2. Root(cur[q]) = Root(q[1]) /\ Root(q[1]) \in Rid
      BY <1>1, Drives
<1> QED BY <1>1, <1>2, ExecutedChange DEF TypeOK

\* What List shows has not run, and has no waiter that could.
LEMMA ListedFresh ==
  ASSUME IInv, ChildInv, NEW x \in Rid, Listed(x)
  PROVE  executed[Root(x)] = 0
<1>1. TypeOK /\ RecordInv /\ ExecutedOnlyIfApproved
      BY DEF IInv
<1>2. step[x] # "none" /\ Verdict(x) = "none"
      BY DEF Listed
<1>3. Root(x) \in Rid /\ executed[Root(x)] \in Nat
      BY <1>1, <1>2, RootHas DEF TypeOK
<1>4. SUFFICES ASSUME executed[Root(x)] > 0 PROVE FALSE
      BY <1>3
<1>5. Approved(Root(x))
      BY <1>1, <1>3, <1>4 DEF ExecutedOnlyIfApproved
<1>6. CASE step[x] = "initial"
      BY <1>1, <1>2, <1>5, <1>6, RootHas DEF Approved
<1>7. CASE step[x] = "confirm"
  <2>1. Root(x) = of[x] /\ opt[of[x]].confirm
        BY <1>1, <1>2, <1>7, RootHas DEF ChildInv
  <2>2. PICK k \in Confirmations(of[x]) : Verdict(k) = "approve"
        BY <1>5, <2>1 DEF Approved
  <2>3. k = x
        BY <1>7, <2>2 DEF Confirmations, ChildInv
  <2> QED BY <1>2, <2>2, <2>3
<1> QED BY <1>1, <1>2, <1>6, <1>7 DEF TypeOK

------------------------------------------------------------------------------
\* Every step keeps SoleInv.

\* A confirmation is saved by the only waiter of its parent, which finds none.
LEMMA ChildStep == IInv /\ SoleInv /\ [Next]_vars => ChildInv'
<1> SUFFICES ASSUME IInv, SoleInv, [Next]_vars PROVE ChildInv'
    OBVIOUS
<1>i. TypeOK /\ RecordInv /\ Grows /\ ChildInv /\ ProgressInv
      BY StepGrows DEF IInv, SoleInv
<1>1. ASSUME \A k \in Rid : step'[k] = "confirm" => step[k] = "confirm"
      PROVE  ChildInv'
  <2>1. ASSUME NEW k \in Rid, step'[k] = "confirm"
        PROVE  /\ step[k] = "confirm" /\ of'[k] = of[k]
               /\ of[k] \in Rid /\ opt'[of[k]] = opt[of[k]]
        BY <1>i, <1>1, <2>1 DEF RecordInv, Grows
  <2> QED BY <1>i, <2>1 DEF ChildInv
<1>2. CASE UNCHANGED step
      BY <1>1, <1>2
<1>3. ASSUME NEW r \in Rid, NEW o \in Requests, Request(r, o) PROVE ChildInv'
      BY <1>i, <1>1, <1>3 DEF Request, TypeOK
<1>4. ASSUME NEW q \in Proc, Waiter(q) PROVE ChildInv'
  <2>1. CASE Confirm(q)
    <3>1. PICK k \in Rid : /\ step[k] = "none"
                           /\ step' = [step EXCEPT ![k] = "confirm"]
                           /\ of' = [of EXCEPT ![k] = q[1]]
          BY <2>1 DEF Confirm, Origin
    <3>2. /\ cur[q] = q[1] /\ q[1] \in Rid /\ step[q[1]] = "initial" /\ Busy(q)
          BY <2>1 DEF Confirm, IInv, WaiterInv, WaiterOK, Busy, Proc
    <3>3. Confirmations(q[1]) = {} /\ opt[q[1]].confirm
          BY <1>i, <2>1, <3>2 DEF ProgressInv, ProgressOK, RootedOK, StageOK, Confirm
    <3>4. ASSUME NEW l \in Rid, step'[l] = "confirm", l # k
          PROVE  /\ step[l] = "confirm" /\ of'[l] = of[l] /\ of[l] # q[1]
                 /\ opt'[of[l]].confirm
      <4>1. step[l] = "confirm"
            BY <1>i, <3>1, <3>4 DEF TypeOK
      <4>2. of'[l] = of[l] /\ of[l] # q[1] /\ of[l] \in Rid
            BY <1>i, <3>3, <4>1 DEF Confirmations, RecordInv, Grows
      <4>3. opt'[of[l]] = opt[of[l]] /\ opt[of[l]].confirm
            BY <1>i, <4>1, <4>2 DEF RecordInv, Grows, ChildInv
      <4> QED BY <4>1, <4>2, <4>3
    <3>5. of'[k] = q[1] /\ opt'[q[1]].confirm
          BY <1>i, <3>1, <3>2, <3>3 DEF TypeOK, Grows
    <3> QED BY <1>i, <3>4, <3>5 DEF ChildInv
  <2> QED BY <1>2, <1>4, <2>1, RecordChange
<1>5. CASE Quiet
      BY <1>2, <1>5 DEF Quiet
<1>6. ASSUME NEW r \in Rid, AdoptOne(r) PROVE ChildInv'
      BY <1>2, <1>6 DEF AdoptOne, recordVars
<1>7. CASE Crash \/ Restart \/ AdoptScan
      BY <1>2, <1>7 DEF Crash, Restart, AdoptScan, recordVars
<1> QED BY <1>i, <1>3, <1>4, <1>5, <1>6, <1>7, StepKinds

\* The waiter that AdoptOne starts, if it starts one.
LEMMA AdoptStarts ==
  ASSUME IInv, DriverInv, NEW r \in Rid, AdoptOne(r), ~UNCHANGED pc
  PROVE  /\ <<r, "adopt">> \in Proc /\ ~Busy(<<r, "adopt">>)
         /\ cur[<<r, "adopt">>] = r
         /\ step[r] # "none" /\ Verdict(r) = "none"
         /\ pc' = [pc EXCEPT ![<<r, "adopt">>] = "await"]
<1>1. <<r, "adopt">> \in Proc /\ <<r, "adopt">>[1] = r
      BY DEF Proc
<1>2. r \in orphans /\ Verdict(r) = "none"
      BY DEF AdoptOne
<1>3. ~Busy(<<r, "adopt">>)
      BY <1>1, <1>2 DEF DriverInv
<1>4. cur[<<r, "adopt">>] = r
      BY <1>1, <1>3 DEF IInv, WaiterInv, WaiterOK, Busy
<1> QED BY <1>1, <1>2, <1>3, <1>4 DEF AdoptOne, Goto, IInv, OrphanInv

\* A request brings a waiter for a new petition only; AdoptScan lists when there
\* are none, and at most one of a petition and its confirmation.
LEMMA DriverStep == AdoptFirst /\ IInv /\ SoleInv /\ [Next]_vars => DriverInv'
<1> SUFFICES ASSUME AdoptFirst, IInv, SoleInv, [Next]_vars PROVE DriverInv'
    OBVIOUS
<1>i. /\ TypeOK /\ RecordInv /\ OrphanInv /\ Grows /\ DriverInv /\ ChildInv
      /\ orphans \subseteq Rid
      BY StepGrows DEF IInv, SoleInv, TypeOK
<1>p. ASSUME NEW p \in Proc, Busy(p)
      PROVE  p[1] \in Rid /\ step[p[1]] # "none" /\ Root(p[1])' = Root(p[1])
      BY <1>i, <1>p, Drives, RootStays
<1>o. ASSUME NEW x \in orphans PROVE step[x] # "none" /\ Root(x)' = Root(x)
      BY <1>i, RootStays DEF OrphanInv
<1>1. ASSUME \A p \in Proc : Busy(p)' => Busy(p), orphans' \subseteq orphans,
             scan' = scan, up' = up
      PROVE  DriverInv'
      BY <1>i, <1>p, <1>o, <1>1 DEF DriverInv
<1>2. CASE Quiet
      BY <1>1, <1>2 DEF Quiet, Busy, adoptVars
<1>3. ASSUME NEW q \in Proc, Waiter(q) PROVE DriverInv'
      BY <1>i, <1>1, <1>3, WaiterFrame DEF adoptVars
<1>4. ASSUME NEW r \in Rid, NEW o \in Requests, Request(r, o) PROVE DriverInv'
  <2> DEFINE n == <<r, "serve">>
  <2>1. /\ n \in Proc /\ n[1] = r /\ step[r] = "none" /\ step'[r] = "initial"
        /\ pc' = [pc EXCEPT ![n] = "suspend"]
        /\ orphans' = orphans /\ scan' = scan /\ up' = up
        /\ scan = "done" /\ up
        BY <1>i, <1>4 DEF Request, Goto, Proc, TypeOK, adoptVars
  <2> HIDE DEF n
  <2>2. Root(r)' = r
        BY <2>1 DEF Root
  <2>3. \A p \in Proc : p # n => (Busy(p)' <=> Busy(p))
        BY <1>i, <2>1 DEF Busy, TypeOK
  <2>4. ASSUME NEW p \in Proc, Busy(p) PROVE Root(p[1])' # r
        BY <1>p, <2>1, <2>4, Drives
  <2>5. ASSUME NEW x \in orphans PROVE Root(x)' # r
        BY <1>i, <1>o, <2>1, RootHas
  <2>6. ASSUME NEW p \in Proc, NEW q \in Proc, Busy(p)', Busy(q)',
               Root(p[1])' = Root(q[1])'
        PROVE  p = q
        BY <1>i, <1>p, <2>1, <2>2, <2>3, <2>4, <2>6 DEF DriverInv
  <2>7. ASSUME NEW p \in Proc, NEW x \in orphans, Busy(p)'
        PROVE  Root(p[1])' # Root(x)'
        BY <1>i, <1>p, <1>o, <2>1, <2>2, <2>3, <2>5, <2>7 DEF DriverInv
  <2>8. ASSUME NEW x \in orphans, NEW y \in orphans, Root(x)' = Root(y)'
        PROVE  x = y
        BY <1>i, <1>o, <2>8 DEF DriverInv
  <2> QED BY <2>1, <2>6, <2>7, <2>8 DEF DriverInv
<1>5. ASSUME NEW r \in Rid, AdoptOne(r) PROVE DriverInv'
  <2>0. r \in orphans /\ orphans' = orphans \ {r} /\ scan' = scan /\ up' = up
        BY <1>5 DEF AdoptOne
  <2>1. CASE UNCHANGED pc
        BY <1>1, <2>0, <2>1 DEF Busy
  <2>2. CASE ~UNCHANGED pc
    <3> DEFINE n == <<r, "adopt">>
    <3>1. /\ n \in Proc /\ n[1] = r /\ ~Busy(n)
          /\ pc' = [pc EXCEPT ![n] = "await"]
          BY <1>i, <1>5, <2>2, AdoptStarts
    <3> HIDE DEF n
    <3>2. \A p \in Proc : p # n => (Busy(p)' <=> Busy(p))
          BY <1>i, <3>1 DEF Busy, TypeOK
    <3>3. ASSUME NEW p \in Proc, Busy(p) PROVE Root(p[1])' # Root(r)'
          BY <1>i, <1>p, <1>o, <2>0, <3>3 DEF DriverInv
    <3>4. ASSUME NEW x \in orphans, x # r PROVE Root(x)' # Root(r)'
          BY <1>i, <1>o, <2>0, <3>4 DEF DriverInv
    <3>5. ASSUME NEW p \in Proc, NEW q \in Proc, Busy(p)', Busy(q)',
                 Root(p[1])' = Root(q[1])'
          PROVE  p = q
          BY <1>i, <1>p, <3>1, <3>2, <3>3, <3>5 DEF DriverInv
    <3>6. ASSUME NEW p \in Proc, NEW x \in orphans \ {r}, Busy(p)'
          PROVE  Root(p[1])' # Root(x)'
          BY <1>i, <1>p, <1>o, <3>1, <3>2, <3>4, <3>6 DEF DriverInv
    <3>7. ASSUME NEW x \in orphans, NEW y \in orphans, Root(x)' = Root(y)'
          PROVE  x = y
          BY <1>i, <1>o, <3>7 DEF DriverInv
    <3>8. ~(scan = "due" \/ ~up)
          BY <1>i, <2>0 DEF DriverInv
    <3> QED BY <2>0, <3>5, <3>6, <3>7, <3>8 DEF DriverInv
  <2> QED BY <2>1, <2>2
<1>6. CASE Crash
      BY <1>6 DEF Crash, DriverInv, Busy
<1>7. CASE Restart
  <2>1. orphans' = {} /\ \A p \in Proc : ~Busy(p)'
        BY <1>i, <1>7 DEF Restart, DriverInv, waiterVars, Busy
  <2> QED BY <2>1 DEF DriverInv
<1>8. CASE AdoptScan
  <2>1. /\ \A p \in Proc : ~Busy(p)'
        /\ orphans' = {x \in Rid : Listed(x)} /\ up' /\ scan' = "done"
        /\ step' = step /\ of' = of
        BY <1>i, <1>8 DEF AdoptScan, ScanDue, DriverInv, waiterVars, recordVars, Busy
  <2>2. ASSUME NEW x \in Rid, NEW y \in Rid, Listed(x), Listed(y), Root(x) = Root(y),
               step[x] = "initial"
        PROVE  x = y
    <3>1. Root(x) = x /\ step[y] # "none" /\ Verdict(x) = "none"
          BY <1>i, <2>2, RootHas DEF Listed
    <3>2. CASE step[y] = "confirm"
      <4>1. verdict[x] = "approve"
        <5>1. Root(y) = of[y] /\ of[y] = x
              BY <2>2, <3>1, <3>2 DEF Root
        <5> QED BY <1>i, <3>2, <5>1 DEF RecordInv
      <4> QED BY <3>1, <4>1 DEF Verdict
    <3>3. CASE step[y] # "confirm"
          BY <2>2, <3>1, <3>3 DEF Root
    <3> QED BY <3>2, <3>3
  <2>3. ASSUME NEW x \in Rid, NEW y \in Rid, Listed(x), Listed(y), Root(x) = Root(y)
        PROVE  x = y
    <3>1. step[x] \in {"initial", "confirm"} /\ step[y] \in {"initial", "confirm"}
          BY <1>i, <2>3 DEF Listed, TypeOK
    <3>2. CASE step[x] = "confirm" /\ step[y] = "confirm"
          BY <1>i, <2>3, <3>2 DEF Root, ChildInv
    <3> QED BY <2>2, <2>3, <3>1, <3>2
  <2>4. \A x \in Rid : Root(x)' = Root(x)
        BY <2>1 DEF Root
  <2>5. \A x, y \in orphans' : Root(x)' = Root(y)' => x = y
        BY <2>1, <2>3, <2>4
  <2> QED BY <2>1, <2>5 DEF DriverInv
<1> QED BY <1>i, <1>2, <1>3, <1>4, <1>5, <1>6, <1>7, <1>8, StepKinds

\* What List shows has not run, and its list is worked off by its own waiters.
LEMMA OrphanFreshStep == IInv /\ SoleInv /\ [Next]_vars => OrphanFresh'
<1> SUFFICES ASSUME IInv, SoleInv, [Next]_vars PROVE OrphanFresh'
    OBVIOUS
<1>i. /\ TypeOK /\ RecordInv /\ OrphanInv /\ Grows /\ DriverInv /\ ChildInv
      /\ OrphanFresh /\ orphans \subseteq Rid
      BY StepGrows DEF IInv, SoleInv, TypeOK
<1>o. ASSUME NEW x \in orphans
      PROVE  Root(x)' = Root(x) /\ Root(x) \in Rid /\ executed[Root(x)] = 0
      BY <1>i, RootStays, RootHas DEF OrphanInv, OrphanFresh
<1>1. ASSUME orphans' \subseteq orphans, UNCHANGED executed PROVE OrphanFresh'
      BY <1>o, <1>1 DEF OrphanFresh
<1>2. CASE Quiet
      BY <1>1, <1>2 DEF Quiet, adoptVars
<1>3. ASSUME NEW q \in Proc, Waiter(q) PROVE OrphanFresh'
  <2>1. orphans' = orphans /\ Busy(q)
        BY <1>i, <1>3, WaiterFrame DEF adoptVars
  <2>2. ASSUME NEW x \in orphans PROVE executed'[Root(x)] = 0
        BY <1>i, <1>o, <1>3, <2>1, OwnRuns DEF DriverInv
  <2> QED BY <1>o, <2>1, <2>2 DEF OrphanFresh
<1>4. ASSUME NEW r \in Rid, NEW o \in Requests, Request(r, o) PROVE OrphanFresh'
      BY <1>1, <1>4 DEF Request, adoptVars
<1>5. ASSUME NEW r \in Rid, AdoptOne(r) PROVE OrphanFresh'
      BY <1>1, <1>5 DEF AdoptOne, seenVars
<1>6. CASE Crash \/ Restart
      BY <1>1, <1>6 DEF Crash, Restart, seenVars
<1>7. CASE AdoptScan
  <2>1. /\ orphans' = {x \in Rid : Listed(x)} /\ step' = step /\ of' = of
        /\ executed' = executed
        BY <1>7 DEF AdoptScan, recordVars, seenVars
  <2>2. \A x \in orphans' : executed[Root(x)] = 0
        BY <1>i, <2>1, ListedFresh
  <2>3. \A x \in Rid : Root(x)' = Root(x)
        BY <2>1 DEF Root
  <2> QED BY <2>1, <2>2, <2>3 DEF OrphanFresh
<1> QED BY <1>i, <1>2, <1>3, <1>4, <1>5, <1>6, <1>7, StepKinds

\* The waiter that runs a command is the only one of a petition that has not run.
LEMMA OnceStep == IInv /\ SoleInv /\ [Next]_vars => AtMostOnce'
<1> SUFFICES ASSUME IInv, SoleInv, [Next]_vars PROVE AtMostOnce'
    OBVIOUS
<1>i. TypeOK /\ AtMostOnce /\ ProgressInv
      BY DEF IInv, SoleInv
<1>1. CASE UNCHANGED executed
      BY <1>i, <1>1 DEF AtMostOnce
<1>2. ASSUME NEW q \in Proc, Waiter(q) PROVE AtMostOnce'
  <2>1. CASE /\ pc[q] = "run"
             /\ executed' = [executed EXCEPT ![Root(cur[q])] = @ + 1]
    <3>1. Root(cur[q]) = Root(q[1]) /\ Root(q[1]) \in Rid
          BY <2>1, Drives DEF Busy
    <3>2. executed[Root(q[1])] = 0
          BY <1>i, <2>1 DEF ProgressInv, ProgressOK, StageOK, Busy, Runs
    <3> QED BY <1>i, <2>1, <3>1, <3>2 DEF AtMostOnce, TypeOK
  <2> QED BY <1>i, <1>1, <1>2, <2>1, ExecutedChange
<1>3. CASE Quiet
      BY <1>1, <1>3 DEF Quiet
<1>4. ASSUME NEW r \in Rid,
             AdoptOne(r) \/ \E o \in Requests : Request(r, o)
      PROVE  AtMostOnce'
      BY <1>1, <1>4 DEF AdoptOne, Request, seenVars
<1>5. CASE Crash \/ Restart \/ AdoptScan
      BY <1>1, <1>5 DEF Crash, Restart, AdoptScan, seenVars
<1> QED BY <1>i, <1>2, <1>3, <1>4, <1>5, StepKinds

\* A waiter that does not move keeps its stage.
LEMMA ProgressStays ==
  ASSUME IInv, [Next]_vars, NEW p \in Proc, ProgressOK(p),
         pc'[p] = pc[p], cur'[p] = cur[p], dec'[p] = dec[p],
         Busy(p) => executed'[Root(p[1])] = executed[Root(p[1])],
         Busy(p) /\ step[p[1]] = "initial" =>
           Confirmations(p[1])' \subseteq Confirmations(p[1])
  PROVE  ProgressOK(p)'
<1> SUFFICES ASSUME Busy(p)' PROVE RootedOK(p)' /\ StageOK(p)'
    BY DEF ProgressOK
<1>i. TypeOK /\ Grows /\ Busy(p) /\ RootedOK(p) /\ StageOK(p)
      BY StepGrows DEF IInv, Busy, ProgressOK
<1>1. /\ step'[p[1]] = step[p[1]] /\ opt'[p[1]] = opt[p[1]]
      /\ Root(p[1])' = Root(p[1])
      BY <1>i, Drives, RootStays DEF Grows
<1>2. Runs(p)' = Runs(p)
      BY <1>i, <1>1 DEF Runs
<1>3. Unadoptable(cur[p]) => Unadoptable(cur[p])'
      BY <1>i, UnadoptableStays, Drives
<1>4. RootedOK(p)'
      BY <1>i, <1>1 DEF RootedOK
<1>5. StageOK(p)'
  <2>1. verdict[cur[p]] = "approve" => verdict'[cur[p]] = "approve"
        BY <1>i, Drives DEF Grows
  <2> QED BY <1>i, <1>1, <1>2, <1>3, <2>1 DEF StageOK
<1> QED BY <1>4, <1>5

\* Each step of a waiter leads it to its next stage.
LEMMA ProgressMoves ==
  ASSUME IInv, SoleInv, [Next]_vars, NEW q \in Proc, Waiter(q)
  PROVE  ProgressOK(q)'
<1> SUFFICES ASSUME Busy(q)' PROVE RootedOK(q)' /\ StageOK(q)'
    BY DEF ProgressOK
<1> DEFINE r == Root(q[1])
<1>i. /\ TypeOK /\ Grows /\ WaiterOK(q) /\ Busy(q) /\ RootedOK(q) /\ StageOK(q)
      BY StepGrows, WaiterFrame
         DEF IInv, SoleInv, WaiterInv, ProgressInv, ProgressOK
<1>d. /\ cur[q] \in Rid /\ step[cur[q]] # "none" /\ q[1] \in Rid /\ r \in Rid
      /\ Root(cur[q]) = r /\ step'[q[1]] = step[q[1]] /\ opt'[q[1]] = opt[q[1]]
      /\ Root(q[1])' = r
      BY <1>i, Drives, RootStays DEF Grows
<1> HIDE DEF r
<1>r. Runs(q) = executed[r] /\ Runs(q)' = executed'[r]
      BY <1>d DEF Runs, r
<1>p. ASSUME NEW l, Goto(q, l) PROVE pc'[q] = l
      BY <1>i, <1>p DEF Goto, TypeOK
<1>f. ASSUME UNCHANGED <<step, of>>, cur'[q] = cur[q] PROVE RootedOK(q)'
      BY <1>i, <1>f DEF RootedOK, Confirmations
<1>v. ASSUME cur'[q] = cur[q], verdict[cur[q]] = "approve"
      PROVE  verdict'[cur'[q]] = "approve"
      BY <1>i, <1>d, <1>v DEF Grows
<1>n. ASSUME cur'[q] = cur[q], Unadoptable(cur[q]) PROVE Unadoptable(cur[q])'
  <2>1. PICK x \in Rid : x = cur[q]
        BY <1>d
  <2> QED BY <1>i, <1>n, <2>1, UnadoptableStays
<1> USE DEF recordVars, seenVars
<1>1. CASE Suspend(q) \/ Pin(q)
  <2>1. pc'[q] \in {"pin", "await"} /\ cur' = cur /\ executed' = executed
        /\ UNCHANGED <<step, of>> /\ pc[q] \in {"suspend", "pin"}
        BY <1>1, <1>p DEF Suspend, Pin
  <2> QED BY <1>i, <1>r, <1>f, <2>1 DEF StageOK
<1>2. CASE AwaitVerdict(q)
  <2>1. cur' = cur /\ executed' = executed /\ UNCHANGED <<step, of>> /\ pc[q] = "await"
        BY <1>2 DEF AwaitVerdict
  <2>2. CASE Goto(q, "poll")
        BY <1>i, <1>p, <1>r, <1>f, <2>1, <2>2 DEF StageOK
  <2>3. CASE Act(q, Verdict(cur[q])) /\ Verdict(cur[q]) # "none"
    <3> DEFINE d == Verdict(cur[q])
    <3>1. pc'[q] = Decided(q, d) /\ dec'[q] = d
          BY <1>i, <1>p, <2>3 DEF Act, TypeOK
    <3>2. Unadoptable(cur[q])
          BY <2>3 DEF Verdict, Unadoptable
    <3> HIDE DEF d
    <3>3. CASE d = "approve"
      <4>1. /\ pc'[q] \in {"confirm", "run"}
            /\ pc'[q] = "confirm" => opt[q[1]].confirm
            BY <3>1, <3>3 DEF Decided, MustConfirm, Origin
      <4> QED BY <1>i, <1>d, <1>r, <1>f, <2>1, <3>1, <3>3, <4>1 DEF StageOK
    <3>4. CASE d # "approve"
      <4>1. pc'[q] \in {"consume", "result"}
            BY <3>1, <3>4 DEF Decided
      <4> QED BY <1>i, <1>r, <1>f, <1>n, <2>1, <3>1, <3>2, <3>4, <4>1 DEF StageOK
    <3> QED BY <3>3, <3>4
  <2> QED BY <1>2, <2>2, <2>3 DEF AwaitVerdict
<1>3. CASE AwaitOtherwise(q)
  <2>1. cur' = cur /\ executed' = executed /\ UNCHANGED <<step, of>> /\ pc[q] = "poll"
        BY <1>3 DEF AwaitOtherwise
  <2>2. CASE Goto(q, "await")
        BY <1>i, <1>p, <1>r, <1>f, <2>1, <2>2 DEF StageOK
  <2>3. ASSUME NEW d \in {"cancelled", "timeout", "client_aborted"}, Act(q, d),
               Unadoptable(cur[q]) \/ RecordsDecision(q, d)
        PROVE  RootedOK(q)' /\ StageOK(q)'
    <3>1. pc'[q] = Decided(q, d) /\ dec'[q] = d
          BY <1>i, <1>p, <2>3 DEF Act, TypeOK
    <3>2. pc'[q] \in {"consume", "result"} /\ (pc'[q] = "result" => Unadoptable(cur[q]))
          BY <2>3, <3>1 DEF Decided
    <3> QED BY <1>i, <1>r, <1>f, <1>n, <2>1, <2>3, <3>1, <3>2 DEF StageOK
  <2>4. CASE CancelInfo(cur[q])
    <3>1. Act(q, "cancelled") /\ Unadoptable(cur[q])
          BY <1>3, <2>4 DEF AwaitOtherwise, Unadoptable
    <3> QED BY <2>3, <3>1
  <2>5. CASE ~CancelInfo(cur[q]) /\ DeadlinePassed(q)
    <3>1. Act(q, "timeout") /\ Unadoptable(cur[q])
          BY <1>3, <2>5 DEF AwaitOtherwise, DeadlinePassed, Unexpired, Unadoptable
    <3> QED BY <2>3, <3>1
  <2>6. CASE ~CancelInfo(cur[q]) /\ ~DeadlinePassed(q)
    <3>1. \/ Goto(q, "await")
          \/ Act(q, "client_aborted") /\ RecordsDecision(q, "client_aborted")
          BY <1>3, <2>6 DEF AwaitOtherwise, RecordsDecision
    <3> QED BY <2>2, <2>3, <3>1
  <2> QED BY <2>4, <2>5, <2>6
<1>4. CASE ConsumeOwn(q)
  <2>1. /\ cur' = cur /\ executed' = executed /\ UNCHANGED <<step, of, dec>>
        /\ pc[q] = "consume" /\ pc'[q] = "result"
        BY <1>4, <1>p DEF ConsumeOwn
  <2>2. verdict'[cur[q]] # "none"
        BY <1>i, <1>d, <1>4 DEF ConsumeOwn, Consume, Torn, WaiterOK, Decision, TypeOK
  <2>3. Unadoptable(cur[q])'
        BY <2>1, <2>2 DEF Unadoptable
  <2> QED BY <1>i, <1>r, <1>f, <2>1, <2>3 DEF StageOK
<1>5. CASE SaveOwn(q) \/ CommandEnds(q) \/ SaveRan(q) \/ SaveParent(q)
  <2>1. /\ cur' = cur /\ executed' = executed /\ UNCHANGED <<step, of, dec>>
        /\ \/ pc[q] \in {"result", "ran", "parent"} /\ pc'[q] \in {"parent", "finish"}
           \/ pc[q] = "running" /\ pc'[q] = "ran"
        BY <1>5, <1>p DEF SaveOwn, CommandEnds, SaveRan, SaveParent, AfterResult
  <2>2. Unadoptable(cur[q])
        BY <1>i, <2>1 DEF StageOK, Unadoptable
  <2>3. Unadoptable(cur[q])' /\ RootedOK(q)'
        BY <1>f, <1>n, <2>1, <2>2
  <2>4. CASE pc[q] = "running"
        BY <1>i, <1>r, <1>v, <2>1, <2>3, <2>4 DEF StageOK
  <2>5. CASE pc[q] # "running"
        BY <1>i, <1>r, <2>1, <2>3, <2>5 DEF StageOK
  <2> QED BY <2>3, <2>4, <2>5
<1>6. CASE Confirm(q)
  <2>1. /\ executed' = executed /\ pc[q] = "confirm" /\ pc'[q] = "await"
        /\ cur[q] = q[1] /\ step[q[1]] = "initial"
        BY <1>i, <1>6, <1>p DEF Confirm, WaiterOK
  <2>2. cur'[q] # q[1]
        BY <1>i, <1>6, <2>1 DEF Confirm, TypeOK
  <2> QED BY <1>i, <1>d, <1>r, <2>1, <2>2 DEF RootedOK, StageOK
<1>7. CASE Execute(q)
  <2>1. /\ cur' = cur /\ UNCHANGED <<step, of>>
        /\ pc[q] = "run" /\ dec[q] = "approve" /\ executed[r] = 0
        /\ verdict[cur[q]] = "approve"
        BY <1>i, <1>r, <1>7 DEF Execute, StageOK, WaiterOK
  <2>2. Unadoptable(cur[q])
        BY <1>i, <2>1 DEF WaiterOK, Unadoptable
  <2>3. CASE executed' = executed
    <3>1. executed[r] + 1 # executed[r]
          BY <2>1
    <3>2. executed' # [executed EXCEPT ![r] = @ + 1]
          BY <1>i, <1>d, <2>1, <2>3 DEF TypeOK
    <3>3. \/ dec'[q] = "blocked" /\ pc'[q] \in {"parent", "finish"}
          \/ dec'[q] = dec[q] /\ pc'[q] = "ran"
          BY <1>i, <1>d, <1>7, <1>p, <3>2 DEF Execute, AfterResult, TypeOK
    <3> QED BY <1>i, <1>r, <1>f, <1>v, <1>n, <2>1, <2>2, <2>3, <3>3 DEF StageOK
  <2>4. CASE pc'[q] = "running" /\ dec'[q] = dec[q]
        BY <1>r, <1>f, <1>v, <2>1, <2>4 DEF StageOK
  <2> QED BY <1>i, <2>3, <2>4, ExecutedChange
<1>8. CASE Finish(q)
  <2>1. pc'[q] = "idle"
        BY <1>8, <1>p DEF Finish
  <2> QED BY <2>1 DEF Busy
<1> QED BY <1>1, <1>2, <1>3, <1>4, <1>5, <1>6, <1>7, <1>8 DEF Waiter

\* Every step keeps the stage of every waiter.
LEMMA ProgressStep == IInv /\ SoleInv /\ [Next]_vars => ProgressInv'
<1> SUFFICES ASSUME IInv, SoleInv, [Next]_vars, NEW p \in Proc
             PROVE  ProgressOK(p)'
    BY DEF ProgressInv
<1>i. /\ TypeOK /\ RecordInv /\ Grows /\ ProgressOK(p) /\ DriverInv /\ OrphanFresh
      /\ ExecutedOnlyIfApproved
      BY StepGrows DEF IInv, SoleInv, ProgressInv
<1>1. ASSUME pc'[p] = pc[p], cur'[p] = cur[p], dec'[p] = dec[p],
             UNCHANGED <<executed, step, of>>
      PROVE  ProgressOK(p)'
      BY <1>i, <1>1, ProgressStays DEF Confirmations
<1>2. CASE Quiet
      BY <1>1, <1>2 DEF Quiet
<1>3. ASSUME NEW q \in Proc, Waiter(q) PROVE ProgressOK(p)'
  <2>1. CASE p = q
        BY <1>3, <2>1, ProgressMoves
  <2>2. CASE p # q
    <3>1. /\ pc'[p] = pc[p] /\ cur'[p] = cur[p] /\ dec'[p] = dec[p]
          /\ Busy(q)
          BY <1>i, <1>3, <2>2, WaiterFrame
    <3>2. ASSUME Busy(p)
          PROVE  /\ Root(p[1]) # Root(q[1])
                 /\ executed'[Root(p[1])] = executed[Root(p[1])]
      <4>1. Root(p[1]) # Root(q[1])
            BY <1>i, <2>2, <3>1, <3>2 DEF DriverInv
      <4> QED BY <1>3, <3>2, <4>1, Drives, OwnRuns
    <3>3. ASSUME Busy(p), step[p[1]] = "initial"
          PROVE  Confirmations(p[1])' \subseteq Confirmations(p[1])
      <4>1. CASE UNCHANGED <<step, of>>
            BY <4>1 DEF Confirmations
      <4>2. CASE Confirm(q)
        <5>1. step[q[1]] = "initial" /\ q[1] \in Rid
              BY <4>2 DEF Confirm, IInv, WaiterInv, WaiterOK, Proc
        <5>2. p[1] # q[1]
              BY <3>2, <3>3
        <5>3. PICK k \in Rid : /\ step[k] = "none"
                               /\ step' = [step EXCEPT ![k] = "confirm"]
                               /\ of' = [of EXCEPT ![k] = q[1]]
              BY <4>2 DEF Confirm, Origin
        <5>4. of'[k] = q[1]
              BY <1>i, <5>3 DEF TypeOK
        <5>5. \A l \in Rid : l # k => step'[l] = step[l] /\ of'[l] = of[l]
              BY <1>i, <5>3 DEF TypeOK
        <5> QED BY <5>2, <5>4, <5>5 DEF Confirmations
      <4> QED BY <1>3, <4>1, <4>2, RecordChange
    <3> QED BY <1>i, <3>1, <3>2, <3>3, ProgressStays
  <2> QED BY <2>1, <2>2
<1>4. ASSUME NEW r \in Rid, NEW o \in Requests, Request(r, o) PROVE ProgressOK(p)'
  <2>1. /\ step[r] = "none" /\ step' = [step EXCEPT ![r] = "initial"]
        /\ of' = of /\ executed' = executed
        /\ pc' = [pc EXCEPT ![<<r, "serve">>] = "suspend"]
        /\ cur' = cur /\ dec' = dec
        BY <1>4 DEF Request, Goto
  <2>2. \A x \in Rid : Confirmations(x)' \subseteq Confirmations(x)
        BY <1>i, <2>1 DEF Confirmations, TypeOK
  <2>3. CASE p # <<r, "serve">>
    <3>1. pc'[p] = pc[p]
          BY <1>i, <2>1, <2>3 DEF TypeOK
    <3>2. p[1] \in Rid
          BY DEF Proc
    <3> QED BY <1>i, <2>1, <2>2, <3>1, <3>2, ProgressStays
  <2>4. CASE p = <<r, "serve">>
    <3>1. p[1] = r /\ pc'[p] = "suspend" /\ step'[r] = "initial"
          BY <1>i, <2>1, <2>4 DEF TypeOK
    <3>2. Confirmations(r)' = {}
          BY <1>i, <2>1, <2>2 DEF Confirmations, RecordInv
    <3>3. executed[r] = 0
      <4>1. ~(executed[r] > 0)
            BY <1>i, <2>1 DEF ExecutedOnlyIfApproved, Approved
      <4> QED BY <1>i, <4>1 DEF TypeOK
    <3>4. Runs(p)' = 0
          BY <2>1, <3>1, <3>3 DEF Runs, Root
    <3>5. RootedOK(p)'
          BY <3>1, <3>2 DEF RootedOK
    <3>6. StageOK(p)'
          BY <3>1, <3>4 DEF StageOK
    <3> QED BY <3>5, <3>6 DEF ProgressOK
  <2> QED BY <2>3, <2>4
<1>5. ASSUME NEW r \in Rid, AdoptOne(r) PROVE ProgressOK(p)'
  <2>1. UNCHANGED <<step, of, opt, executed, cur, dec>> /\ r \in orphans
        BY <1>5 DEF AdoptOne, recordVars, seenVars
  <2>2. CASE UNCHANGED pc
        BY <1>1, <2>1, <2>2
  <2>3. CASE ~UNCHANGED pc
    <3>1. /\ cur[<<r, "adopt">>] = r /\ Verdict(r) = "none" /\ step[r] # "none"
          /\ pc' = [pc EXCEPT ![<<r, "adopt">>] = "await"]
          BY <1>i, <1>5, <2>3, AdoptStarts
    <3>2. CASE p # <<r, "adopt">>
          BY <1>i, <1>1, <2>1, <3>1, <3>2 DEF TypeOK
    <3>3. CASE p = <<r, "adopt">>
      <4>1. p[1] = r /\ p[2] = "adopt" /\ pc'[p] = "await" /\ cur'[p] = r
            BY <1>i, <2>1, <3>1, <3>3 DEF TypeOK
      <4>2. Confirmations(r) = {}
            BY <1>i, <3>1 DEF Confirmations, RecordInv, Verdict
      <4>3. RootedOK(p)'
            BY <2>1, <4>1, <4>2 DEF RootedOK, Confirmations
      <4>4. Runs(p)' = 0
            BY <1>i, <2>1, <4>1 DEF Runs, Root, OrphanFresh
      <4>5. StageOK(p)'
            BY <4>1, <4>4 DEF StageOK
      <4> QED BY <4>3, <4>5 DEF ProgressOK
    <3> QED BY <3>2, <3>3
  <2> QED BY <2>2, <2>3
<1>6. CASE Crash
      BY <1>6 DEF Crash, ProgressOK, Busy
<1>7. CASE Restart \/ AdoptScan
      BY <1>1, <1>7 DEF Restart, AdoptScan, recordVars, waiterVars, seenVars
<1> QED BY <1>i, <1>2, <1>3, <1>4, <1>5, <1>6, <1>7, StepKinds

\* The whole of it, if adoption takes its list before requests are saved.
LEMMA SoleInvariant == AdoptFirst => (Spec => []SoleInv)
<1> SUFFICES ASSUME AdoptFirst PROVE Spec => []SoleInv
    OBVIOUS
<1>1. IInv /\ SoleInv /\ [Next]_vars => SoleInv'
      BY ChildStep, DriverStep, ProgressStep, OrphanFreshStep, OnceStep DEF SoleInv
<1> QED BY SoleInit, <1>1, Invariant, PTL DEF Spec

\* A command runs at most once, across crashes and restarts and whichever
\* waiter gets to it, if AdoptOrphans takes its list before requests are saved.
THEOREM RunsAtMostOnce == AdoptFirst => (Spec => []AtMostOnce)
<1> SUFFICES ASSUME AdoptFirst PROVE Spec => []AtMostOnce
    OBVIOUS
<1>1. SoleInv => AtMostOnce
      BY DEF SoleInv
<1> QED BY <1>1, SoleInvariant, PTL

------------------------------------------------------------------------------
\* What a waiter brings back from the run of a command.

\* It is past the start of a command, or of runPinned at least.
Ran(p) == \/ pc[p] = "ran"
          \/ pc[p] \in {"parent", "finish"} /\ dec[p] = "approve"

\* A result of runApproved is one of its own or what the command printed, and
\* the one the waiter stores for its petition stays until somebody cancels.
EndingOK(p) ==
  /\ pc[p] = "running" \/ Ran(p) => Approved(Root(p[1]))
  /\ pc[p] = "running" => Runs(p) > 0 /\ printed[Root(p[1])] = NoResult
  /\ Ran(p) => /\ res[p] # NoResult
               /\ res[p] \in {Res("code", "text"), printed[Root(p[1])]}
  /\ pc[p] \in {"consume", "result"} => dec[p] # "blocked"
  /\ pc[p] \in {"parent", "finish"} /\ dec[p] = "blocked"
       => res[p] = Res("code", "empty")
  /\ pc[p] = "finish" /\ dec[p] = "approve"
       => result[p[1]] \in {res[p], Res("minus1", "cancelled")}

EndingInv ==
  /\ \A r \in Rid : printed[r] # NoResult => executed[r] > 0
  /\ \A p \in Proc : EndingOK(p)

LEMMA EndingInit == Init => EndingInv
BY DEF Init, EndingInv, EndingOK, Ran

\* A run is not undone.
LEMMA RanStays ==
  ASSUME IInv, [Next]_vars, NEW r \in Rid, executed[r] > 0
  PROVE  executed'[r] > 0
<1>i. TypeOK
      BY DEF IInv
<1>1. CASE UNCHANGED executed
      BY <1>1
<1>2. ASSUME NEW q \in Proc, Waiter(q),
             executed' = [executed EXCEPT ![Root(cur[q])] = @ + 1]
      PROVE  executed'[r] > 0
      BY <1>i, <1>2 DEF TypeOK
<1>3. ASSUME NEW x \in Rid, AdoptOne(x) \/ \E o \in Requests : Request(x, o)
      PROVE  UNCHANGED executed
      BY <1>3 DEF AdoptOne, Request, seenVars
<1>4. CASE Crash \/ Restart \/ AdoptScan
      BY <1>1, <1>4 DEF Crash, Restart, AdoptScan, seenVars
<1> QED BY <1>i, <1>1, <1>2, <1>3, <1>4, StepKinds, ExecutedChange DEF Quiet

\* Only the end of a command prints.
LEMMA PrintedChange ==
  ASSUME TypeOK, [Next]_vars, NEW r \in Rid, printed'[r] # printed[r]
  PROVE  \E q \in Proc : Waiter(q) /\ CommandEnds(q) /\ Root(cur[q]) = r
<1>1. ~UNCHANGED printed
      OBVIOUS
<1>2. ASSUME NEW q \in Proc, Waiter(q)
      PROVE  CommandEnds(q) /\ Root(cur[q]) = r
  <2>1. CommandEnds(q)
        BY <1>1, <1>2 DEF Waiter, Suspend, Pin, AwaitVerdict, AwaitOtherwise,
                          ConsumeOwn, SaveOwn, Confirm, Execute, SaveRan,
                          SaveParent, Finish, seenVars
  <2>2. PICK e \in Endings : printed' = [printed EXCEPT ![Root(cur[q])] = e]
        BY <2>1 DEF CommandEnds
  <2> QED BY <2>1, <2>2 DEF TypeOK
<1>3. ASSUME NEW x \in Rid, AdoptOne(x) \/ \E o \in Requests : Request(x, o)
      PROVE  FALSE
      BY <1>1, <1>3 DEF AdoptOne, Request, seenVars
<1>4. ~(Crash \/ Restart \/ AdoptScan)
      BY <1>1 DEF Crash, Restart, AdoptScan, seenVars
<1> QED BY <1>1, <1>2, <1>3, <1>4, StepKinds DEF Quiet

\* A waiter writes the results of its own petition and its confirmation only.
LEMMA ResultOwner ==
  ASSUME IInv, NEW q \in Proc, Waiter(q), NEW x \in Rid, Root(x) # Root(q[1])
  PROVE  result'[x] = result[x]
<1>i. TypeOK /\ Busy(q)
      BY WaiterFrame DEF IInv
<1>1. x # cur[q] /\ x # q[1]
      BY <1>i, Drives
<1>2. CASE UNCHANGED result
      BY <1>2
<1>3. ASSUME NEW y \in {cur[q], q[1]}, NEW out, SaveResult(y, out)
      PROVE  result'[x] = result[x]
      BY <1>i, <1>1, <1>3 DEF SaveResult, TypeOK
<1>4. CASE Execute(q)
      BY <1>2, <1>3, <1>4 DEF Execute
<1> QED BY <1>2, <1>3, <1>4 DEF Waiter, Suspend, Pin, AwaitVerdict, AwaitOtherwise,
        ConsumeOwn, SaveOwn, Confirm, CommandEnds, SaveRan, SaveParent, Finish,
        decisionVars, Origin

\* A waiter's step leaves the results in the stacks of the others.
LEMMA OthersKeepRes ==
  ASSUME TypeOK, NEW p \in Proc, NEW q \in Proc, p # q, Waiter(q)
  PROVE  res'[p] = res[p]
BY DEF Waiter, Suspend, Pin, AwaitVerdict, AwaitOtherwise, ConsumeOwn, SaveOwn,
       Confirm, Execute, CommandEnds, SaveRan, SaveParent, Finish, TypeOK

\* A waiter that does not move keeps what it brings back.
LEMMA EndingStays ==
  ASSUME IInv, [Next]_vars, NEW p \in Proc, Busy(p), EndingOK(p),
         pc'[p] = pc[p], cur'[p] = cur[p], dec'[p] = dec[p], res'[p] = res[p],
         printed'[Root(p[1])] = printed[Root(p[1])],
         result'[p[1]] \in {result[p[1]], Res("minus1", "cancelled")}
  PROVE  EndingOK(p)'
<1>i. TypeOK /\ Grows
      BY StepGrows DEF IInv
<1>1. Root(p[1])' = Root(p[1]) /\ Root(p[1]) \in Rid
      BY <1>i, Drives, RootStays
<1>2. Approved(Root(p[1])) => Approved(Root(p[1]))'
  <2>1. PICK r \in Rid : r = Root(p[1])
        BY <1>1
  <2>2. Approved(r) => Approved(r)'
        BY <1>i, ApprovedStays
  <2>3. Approved(Root(p[1]))' = Approved(r)'
        BY <1>1, <2>1 DEF Approved, Confirmations, Verdict
  <2> QED BY <2>1, <2>2, <2>3
<1>3. Runs(p) > 0 => Runs(p)' > 0
      BY <1>1, RanStays DEF Runs
<1>4. Ran(p)' = Ran(p)
      BY DEF Ran
<1> QED BY <1>1, <1>2, <1>3, <1>4 DEF EndingOK

\* Each step of a waiter brings back what it should.
LEMMA EndingMoves ==
  ASSUME IInv, SoleInv, EndingInv, [Next]_vars, NEW q \in Proc, Waiter(q)
  PROVE  EndingOK(q)'
<1>i. /\ TypeOK /\ Grows /\ Busy(q) /\ EndingOK(q) /\ WaiterOK(q) /\ StageOK(q)
      /\ cur[q] \in Rid /\ q[1] \in Rid
      BY StepGrows, WaiterFrame DEF IInv, SoleInv, EndingInv, WaiterInv, ProgressInv,
         ProgressOK, TypeOK, Proc
<1>1. /\ Root(q[1])' = Root(q[1]) /\ Root(q[1]) \in Rid /\ Root(cur[q]) = Root(q[1])
      BY <1>i, Drives, RootStays
<1>a. Approved(Root(q[1])) => Approved(Root(q[1]))'
  <2>1. PICK r \in Rid : r = Root(q[1])
        BY <1>1
  <2>2. Approved(r) => Approved(r)'
        BY <1>i, ApprovedStays
  <2>3. Approved(Root(q[1]))' = Approved(r)'
        BY <1>1, <2>1 DEF Approved, Confirmations, Verdict
  <2> QED BY <2>1, <2>2, <2>3
<1>p. ASSUME NEW l, Goto(q, l) PROVE pc'[q] = l
      BY <1>i, <1>p DEF Goto, TypeOK
<1>w. ASSUME NEW y \in Rid, NEW out, SaveResult(y, out) PROVE result'[y] = out
      BY <1>i, <1>w DEF SaveResult, TypeOK
<1>e. AfterResult(q) \in {"parent", "finish"} /\ (AfterResult(q) = "finish" => cur[q] = q[1])
      BY DEF AfterResult, Confirming
<1>2. ASSUME pc'[q] \in {"idle", "pin", "await", "poll", "confirm", "run"}
      PROVE  EndingOK(q)'
      BY <1>2 DEF EndingOK, Ran
<1>3. ASSUME NEW d \in Decision, Act(q, d) PROVE EndingOK(q)'
  <2>1. pc'[q] = Decided(q, d) /\ dec'[q] = d
        BY <1>i, <1>3, <1>p DEF Act, TypeOK
  <2>2. pc'[q] \in {"confirm", "run", "consume", "result"}
        BY <2>1 DEF Decided
  <2> QED BY <2>1, <2>2 DEF EndingOK, Ran, Decision
<1>4. CASE Suspend(q) \/ Pin(q) \/ Confirm(q) \/ Finish(q)
      BY <1>2, <1>4, <1>p DEF Suspend, Pin, Confirm, Finish
<1>5. CASE AwaitVerdict(q)
  <2>1. Verdict(cur[q]) # "none" => Verdict(cur[q]) \in Decision
        BY <1>i DEF Verdict, TypeOK
  <2> QED BY <1>2, <1>3, <1>5, <1>p, <2>1 DEF AwaitVerdict
<1>6. CASE AwaitOtherwise(q)
  <2>1. {"cancelled", "timeout", "client_aborted"} \subseteq Decision
        BY DEF Decision
  <2> QED BY <1>2, <1>3, <1>6, <1>p, <2>1 DEF AwaitOtherwise
<1>7. CASE ConsumeOwn(q)
  <2>1. pc'[q] = "result" /\ dec' = dec /\ dec[q] # "blocked"
        BY <1>i, <1>7, <1>p DEF ConsumeOwn, EndingOK
  <2> QED BY <2>1 DEF EndingOK, Ran
<1>8. CASE SaveOwn(q)
  <2>1. /\ pc'[q] \in {"parent", "finish"} /\ dec' = dec
        /\ dec[q] # "blocked" /\ dec[q] # "approve"
        BY <1>i, <1>8, <1>p, <1>e DEF SaveOwn, EndingOK, StageOK
  <2> QED BY <2>1 DEF EndingOK, Ran
<1>9. CASE Execute(q)
  <2>1. pc[q] = "run" /\ dec[q] = "approve" /\ Approved(Root(q[1])) /\ Runs(q) = 0
        BY <1>i, <1>1, <1>9, RunIsApproved DEF Execute, StageOK
  <2>2. printed' = printed /\ printed[Root(q[1])] = NoResult
        BY <1>1, <1>9, <2>1 DEF Execute, EndingInv, Runs
  <2>3. ASSUME res' = [res EXCEPT ![q] = Res("code", "empty")],
               dec' = [dec EXCEPT ![q] = "blocked"], Goto(q, AfterResult(q))
        PROVE  EndingOK(q)'
    <3>1. /\ res'[q] = Res("code", "empty") /\ dec'[q] = "blocked"
          /\ pc'[q] \in {"parent", "finish"}
          BY <1>i, <1>p, <1>e, <2>3 DEF TypeOK
    <3> QED BY <3>1 DEF EndingOK, Ran
  <2>4. ASSUME res' = [res EXCEPT ![q] = Res("code", "text")], Goto(q, "ran")
        PROVE  EndingOK(q)'
    <3>1. res'[q] = Res("code", "text") /\ pc'[q] = "ran"
          BY <1>i, <1>p, <2>4 DEF TypeOK
    <3>2. Res("code", "text") # NoResult
          BY ResultsAre DEF Output
    <3> QED BY <1>a, <2>1, <3>1, <3>2 DEF EndingOK, Ran
  <2>5. ASSUME executed' = [executed EXCEPT ![Root(cur[q])] = @ + 1],
               Goto(q, "running")
        PROVE  EndingOK(q)'
    <3>1. pc'[q] = "running"
          BY <1>p, <2>5
    <3>2. Runs(q)' > 0
          BY <1>i, <1>1, <2>5 DEF Runs, TypeOK
    <3> QED BY <1>a, <1>1, <2>1, <2>2, <3>1, <3>2 DEF EndingOK, Ran
  <2> QED BY <1>9, <2>3, <2>4, <2>5 DEF Execute
<1>10. CASE CommandEnds(q)
  <2>1. PICK e \in Endings : /\ res' = [res EXCEPT ![q] = e]
                             /\ printed' = [printed EXCEPT ![Root(cur[q])] = e]
        BY <1>10 DEF CommandEnds
  <2>2. res'[q] = e /\ printed'[Root(q[1])] = e /\ pc'[q] = "ran"
        BY <1>i, <1>1, <1>10, <1>p, <2>1 DEF CommandEnds, TypeOK
  <2>3. e # NoResult
        BY <2>1, ExecAssumption, ResultsAre DEF RunResult, NoResult, Res
  <2>4. Approved(Root(q[1]))
        BY <1>i, <1>10 DEF CommandEnds, EndingOK
  <2> QED BY <1>a, <1>1, <2>2, <2>3, <2>4 DEF EndingOK, Ran
<1>11. CASE SaveRan(q)
  <2>1. /\ pc[q] = "ran" /\ dec' = dec /\ res' = res /\ printed' = printed
        /\ pc'[q] \in {"parent", "finish"} /\ result'[cur[q]] = res[q]
        /\ pc'[q] = "finish" => cur[q] = q[1]
        BY <1>i, <1>11, <1>p, <1>e, <1>w DEF SaveRan, seenVars
  <2>2. dec[q] = "approve" /\ Approved(Root(q[1])) /\ Ran(q)
        BY <1>i, <2>1 DEF StageOK, EndingOK, Ran
  <2>3. /\ res[q] # NoResult
        /\ res[q] \in {Res("code", "text"), printed[Root(q[1])]}
        BY <1>i, <2>2 DEF EndingOK
  <2> QED BY <1>a, <1>1, <2>1, <2>2, <2>3 DEF EndingOK, Ran
<1>12. CASE SaveParent(q)
  <2>1. /\ pc[q] = "parent" /\ dec' = dec /\ res' = res /\ printed' = printed
        /\ pc'[q] = "finish" /\ result'[q[1]] = ParentOutcome(q)
        BY <1>i, <1>12, <1>p, <1>w DEF SaveParent, seenVars, Origin
  <2>2. CASE dec[q] = "approve"
    <3>1. Ran(q) /\ ParentOutcome(q) = res[q]
          BY <2>1, <2>2 DEF Ran, ParentOutcome
    <3>2. /\ res[q] # NoResult /\ Approved(Root(q[1]))
          /\ res[q] \in {Res("code", "text"), printed[Root(q[1])]}
          BY <1>i, <3>1 DEF EndingOK
    <3> QED BY <1>a, <1>1, <2>1, <2>2, <3>1, <3>2 DEF EndingOK, Ran
  <2>3. CASE dec[q] # "approve"
        BY <1>i, <2>1, <2>3 DEF EndingOK, Ran
  <2> QED BY <2>2, <2>3
<1> QED BY <1>4, <1>5, <1>6, <1>7, <1>8, <1>9, <1>10, <1>11, <1>12 DEF Waiter

\* Every step keeps what waiters bring back.
LEMMA EndingStep == IInv /\ SoleInv /\ EndingInv /\ [Next]_vars => EndingInv'
<1> SUFFICES ASSUME IInv, SoleInv, EndingInv, [Next]_vars PROVE EndingInv'
    OBVIOUS
<1>i. TypeOK /\ DriverInv /\ RecordInv
      BY DEF IInv, SoleInv
<1>1. ASSUME NEW r \in Rid, printed'[r] # NoResult PROVE executed'[r] > 0
  <2>1. executed[r] > 0
    <3>1. CASE printed'[r] = printed[r]
          BY <1>1, <3>1 DEF EndingInv
    <3>2. CASE printed'[r] # printed[r]
      <4>1. PICK q \in Proc : Waiter(q) /\ CommandEnds(q) /\ Root(cur[q]) = r
            BY <1>i, <3>2, PrintedChange
      <4>2. Busy(q) /\ Root(q[1]) = r /\ pc[q] = "running"
            BY <1>i, <4>1, Drives, WaiterFrame DEF CommandEnds
      <4> QED BY <4>2 DEF EndingInv, EndingOK, Runs
    <3> QED BY <3>1, <3>2
  <2> QED BY <2>1, RanStays
<1>2. ASSUME NEW p \in Proc PROVE EndingOK(p)'
  <2>i. EndingOK(p) /\ p[1] \in Rid
        BY DEF EndingInv, Proc
  <2>1. CASE ~Busy(p)'
        BY <2>1 DEF Busy, EndingOK, Ran
  <2>2. ASSUME Busy(p), pc'[p] = pc[p], cur'[p] = cur[p], dec'[p] = dec[p],
               res'[p] = res[p], printed'[Root(p[1])] = printed[Root(p[1])],
               result'[p[1]] \in {result[p[1]], Res("minus1", "cancelled")}
        PROVE  EndingOK(p)'
        BY <2>i, <2>2, EndingStays
  <2>3. CASE Quiet
        BY <2>1, <2>2, <2>3, <2>i DEF Quiet, Busy
  <2>4. ASSUME NEW q \in Proc, Waiter(q) PROVE EndingOK(p)'
    <3>1. CASE p = q
          BY <2>4, <3>1, EndingMoves
    <3>2. CASE p # q /\ Busy(p)
      <4>1. Root(p[1]) # Root(q[1]) /\ Busy(q) /\ Root(p[1]) \in Rid
            BY <1>i, <2>4, <3>2, WaiterFrame, Drives DEF DriverInv
      <4>2. printed'[Root(p[1])] = printed[Root(p[1])]
        <5>1. ASSUME printed'[Root(p[1])] # printed[Root(p[1])] PROVE FALSE
          <6>1. PICK z \in Proc : /\ Waiter(z) /\ CommandEnds(z)
                                  /\ Root(cur[z]) = Root(p[1])
                BY <1>i, <4>1, <5>1, PrintedChange
          <6>2. z = p
                BY <1>i, <3>2, <6>1, Drives, WaiterFrame DEF DriverInv
          <6>3. pc'[p] = "ran" /\ pc[p] = "running"
                BY <1>i, <6>1, <6>2 DEF CommandEnds, Goto, TypeOK
          <6>4. pc'[p] = pc[p]
                BY <1>i, <2>4, <3>2, OthersStay
          <6> QED BY <6>3, <6>4
        <5> QED BY <5>1
      <4>3. result'[p[1]] = result[p[1]]
            BY <2>i, <2>4, <4>1, ResultOwner
      <4> QED BY <1>i, <2>2, <2>4, <3>2, <4>2, <4>3, OthersStay, OthersKeepRes
    <3>3. CASE ~Busy(p)
          BY <1>i, <2>1, <2>4, <3>3, WaiterFrame
    <3> QED BY <3>1, <3>2, <3>3
  <2>5. ASSUME NEW r \in Rid, NEW o \in Requests, Request(r, o) PROVE EndingOK(p)'
    <3>1. /\ pc' = [pc EXCEPT ![<<r, "serve">>] = "suspend"]
          /\ UNCHANGED <<cur, dec, res, printed, result>>
          BY <2>5 DEF Request, Goto, decisionVars
    <3>2. CASE p = <<r, "serve">>
      <4>1. pc'[p] = "suspend"
            BY <1>i, <3>1, <3>2 DEF TypeOK
      <4> QED BY <4>1 DEF EndingOK, Ran
    <3>3. CASE p # <<r, "serve">>
      <4>1. pc'[p] = pc[p]
            BY <1>i, <3>1, <3>3 DEF TypeOK
      <4> QED BY <2>1, <2>2, <3>1, <4>1 DEF Busy
    <3> QED BY <3>2, <3>3
  <2>6. ASSUME NEW r \in Rid, AdoptOne(r) PROVE EndingOK(p)'
    <3>1. UNCHANGED <<cur, dec, res, printed, result>>
          BY <2>6 DEF AdoptOne, decisionVars, seenVars
    <3>2. CASE pc'[p] = pc[p]
          BY <2>1, <2>2, <3>1, <3>2 DEF Busy
    <3>3. CASE pc'[p] # pc[p]
      <4>1. pc' = [pc EXCEPT ![<<r, "adopt">>] = "await"]
            BY <1>i, <2>6, <3>3, AdoptStarts
      <4>2. pc'[p] = "await"
            BY <1>i, <3>3, <4>1 DEF TypeOK
      <4> QED BY <4>2 DEF EndingOK, Ran
    <3> QED BY <3>2, <3>3
  <2>7. CASE Crash
        BY <2>1, <2>7 DEF Crash, Busy
  <2>8. CASE Restart \/ AdoptScan
        BY <2>1, <2>2, <2>8 DEF Restart, AdoptScan, waiterVars, decisionVars, seenVars,
                               Busy
  <2> QED BY <1>i, <2>3, <2>4, <2>5, <2>6, <2>7, <2>8, StepKinds
<1> QED BY <1>1, <1>2 DEF EndingInv

LEMMA EndingInvariant == AdoptFirst => (Spec => []EndingInv)
<1> SUFFICES ASSUME AdoptFirst PROVE Spec => []EndingInv
    OBVIOUS
<1>1. IInv /\ SoleInv /\ EndingInv /\ [Next]_vars => EndingInv'
      BY EndingStep
<1> QED BY EndingInit, <1>1, Invariant, SoleInvariant, PTL DEF Spec

------------------------------------------------------------------------------
\* What was reported stays true.  A petition is over when its command has not
\* run and nobody is left, or can come back, to run it: a restarted daemon
\* adopts neither its record nor its confirmation, or only to wait for a torn
\* verdict file until the deadline.

Stuck(p) == p[2] = "adopt" /\ cur[p] = p[1] /\ verdict[p[1]] = "torn"

Leaving(p) == pc[p] \in {"result", "parent", "finish"} /\ dec[p] # "approve"

Over(r) ==
  /\ step[r] = "initial" /\ executed[r] = 0
  /\ \A x \in Rid : step[x] # "none" /\ Root(x) = r => Unadoptable(x)
  /\ \A p \in Proc : Busy(p) /\ Root(p[1]) = r => Stuck(p) \/ Leaving(p)
  /\ \A x \in orphans : Root(x) = r => verdict[x] = "torn"

\* A petition is settled when its waiter has returned from an approved run: all
\* that was asked for it is approved, and its result is there.
Settled(r) ==
  /\ Approved(r)
  /\ \A x \in Rid : step[x] # "none" /\ Root(x) = r => Verdict(x) = "approve"
  /\ \A p \in Proc : Busy(p) => Root(p[1]) # r
  /\ \A x \in orphans : Root(x) # r
  /\ result[r] # NoResult
  /\ result[r] \in {Res("code", "text"), printed[r], Res("minus1", "cancelled")}

\* The results that Status and the list of recent petitions read as a refusal.
Refusal(v) == \/ v.out \in {"confirmation_timeout", "client_aborted"}
              \/ v = Res("minus1", "drift")

\* A result that reads as a refusal is one, or was printed by the command.
Told(x) == Over(Root(x)) \/ result[x] = printed[Root(x)]

OutcomeInv ==
  /\ \A r \in Rid : answer[r] = "denied" => Over(r)
  /\ \A r \in Rid : answer[r] = "allowed" => Settled(r)
  /\ \A x \in Rid : Refusal(result[x]) => step[x] # "none" /\ Told(x)
  /\ \A x \in Rid : verdict[x] = "approve" => step[x] # "none"

\* A petition is over as soon as its waiter leaves without an approval to act on.
LeaversOver == \A p \in Proc : Leaving(p) => Over(Root(p[1]))

\* A waiter whose wait has ended leaves nothing that a restart would adopt: its
\* confirmation is decided after its petition.
LEMMA LeavesNothing ==
  ASSUME IInv, SoleInv, NEW p \in Proc, Busy(p), Unadoptable(cur[p]),
         NEW x \in Rid, step[x] # "none", Root(x) = Root(p[1])
  PROVE  Unadoptable(x)
<1> DEFINE r == Root(p[1])
<1>i. /\ TypeOK /\ RecordInv /\ ChildInv /\ WaiterOK(p) /\ RootedOK(p)
      BY DEF IInv, SoleInv, WaiterInv, ProgressInv, ProgressOK
<1>2. /\ p[1] \in Rid /\ cur[p] \in Rid /\ step[cur[p]] # "none" /\ step[p[1]] # "none"
      /\ Root(cur[p]) = r /\ r \in Rid /\ step[r] = "initial" /\ Root(x) = r
      BY Drives
<1> HIDE DEF r
<1>3. CASE step[cur[p]] = "confirm"
  <2>1. of[cur[p]] = r
        BY <1>2, <1>3 DEF Root
  <2>2. CASE step[x] = "confirm"
        BY <1>i, <1>2, <1>3, <2>1, <2>2 DEF Root, ChildInv
  <2>3. CASE step[x] # "confirm"
    <3>1. x = r
          BY <1>2, <2>3 DEF Root
    <3>2. verdict[x] = "approve"
          BY <1>i, <1>2, <1>3, <2>1, <3>1 DEF RecordInv
    <3> QED BY <3>2 DEF Unadoptable
  <2> QED BY <2>2, <2>3
<1>4. CASE step[cur[p]] # "confirm"
  <2>1. cur[p] = r /\ p[1] = r
        BY <1>i, <1>2, <1>4 DEF Root, WaiterOK
  <2>2. Confirmations(r) = {}
        BY <1>i, <1>2, <2>1 DEF RootedOK
  <2>3. x = r
        BY <1>2, <2>2 DEF Root, Confirmations
  <2> QED BY <2>1, <2>3
<1> QED BY <1>3, <1>4

LEMMA LeavingIsOver == IInv /\ SoleInv => LeaversOver
<1> SUFFICES ASSUME IInv, SoleInv, NEW p \in Proc, Leaving(p)
             PROVE  Over(Root(p[1]))
    BY DEF LeaversOver
<1> DEFINE r == Root(p[1])
<1>i. DriverInv
      BY DEF SoleInv
<1>1. Busy(p) /\ StageOK(p)
      BY DEF SoleInv, ProgressInv, ProgressOK, Leaving, Busy
<1>2. r \in Rid /\ step[r] = "initial"
      BY <1>1, Drives
<1>3. executed[r] = 0 /\ Unadoptable(cur[p])
      BY <1>1 DEF Leaving, StageOK, Runs
<1>4. \A x \in Rid : step[x] # "none" /\ Root(x) = r => Unadoptable(x)
      BY <1>1, <1>3, LeavesNothing
<1> HIDE DEF r
<1>5. ASSUME NEW q \in Proc, Busy(q), Root(q[1]) = r PROVE Leaving(q)
      BY <1>i, <1>1, <1>5 DEF DriverInv, r
<1>6. \A x \in orphans : Root(x) # r
      BY <1>i, <1>1 DEF DriverInv, r
<1>7. Over(r)
      BY <1>2, <1>3, <1>4, <1>5, <1>6 DEF Over
<1> QED BY <1>7 DEF r

\* No waiter of a petition that is over runs a command or asks again.
LEMMA OverWaits ==
  ASSUME IInv, SoleInv, NEW q \in Proc, Busy(q), Over(Root(q[1]))
  PROVE  pc[q] \notin {"confirm", "run", "running", "ran"}
<1>1. q[1] \in Rid /\ WaiterOK(q) /\ StageOK(q)
      BY DEF IInv, SoleInv, WaiterInv, ProgressInv, ProgressOK, Proc
<1>2. Stuck(q) \/ Leaving(q)
      BY DEF Over
<1>3. Runs(q) = 0
      BY DEF Over, Runs
<1> QED BY <1>1, <1>2, <1>3 DEF Stuck, Leaving, WaiterOK, StageOK

\* A waiter's step leaves it stuck or takes it closer to the end.
LEMMA OverMoves ==
  ASSUME IInv, SoleInv, Grows, NEW q \in Proc, Waiter(q), Over(Root(q[1])), Busy(q)'
  PROVE  Stuck(q)' \/ Leaving(q)'
<1>i. TypeOK /\ Busy(q) /\ q[1] \in Rid
      BY WaiterFrame DEF IInv, Proc
<1>1. pc[q] \notin {"confirm", "run", "running", "ran"}
      BY <1>i, OverWaits
<1>2. pc'[q] # "idle"
      BY DEF Busy
<1>3. ~Finish(q) /\ ~Confirm(q) /\ ~Execute(q) /\ ~CommandEnds(q) /\ ~SaveRan(q)
      BY <1>i, <1>1, <1>2 DEF Finish, Confirm, Execute, CommandEnds, SaveRan, Goto, TypeOK
<1>4. cur' = cur
      BY <1>3 DEF Waiter, Suspend, Pin, AwaitVerdict, AwaitOtherwise, ConsumeOwn,
                  SaveOwn, SaveParent
<1>5. CASE Stuck(q)
      BY <1>i, <1>4, <1>5 DEF Stuck, Grows
<1>6. CASE Leaving(q)
  <2>1. SaveOwn(q) \/ SaveParent(q)
        BY <1>3, <1>6 DEF Leaving, Waiter, Suspend, Pin, AwaitVerdict, AwaitOtherwise,
                          ConsumeOwn
  <2>2. pc'[q] \in {"parent", "finish"} /\ dec' = dec
        BY <1>i, <2>1 DEF SaveOwn, SaveParent, AfterResult, Goto, TypeOK
  <2> QED BY <1>6, <2>2 DEF Leaving
<1> QED BY <1>i, <1>5, <1>6 DEF Over

\* A step creates at most one record: of a petition of its own, or of a
\* confirmation that a waiter asks for.
LEMMA NewRecord ==
  ASSUME IInv, [Next]_vars, NEW x \in Rid, step[x] = "none", step'[x] # "none"
  PROVE  \/ Root(x)' = x
         \/ \E q \in Proc : Confirm(q) /\ Root(x)' = q[1] /\ Root(q[1]) = q[1]
<1>i. TypeOK
      BY DEF IInv
<1>1. ~UNCHANGED step
      OBVIOUS
<1>2. ASSUME NEW r \in Rid, NEW o \in Requests, Request(r, o)
      PROVE  Root(x)' = x
      BY <1>i, <1>2 DEF Request, Root, TypeOK
<1>3. ASSUME NEW q \in Proc, Waiter(q)
      PROVE  Confirm(q) /\ Root(x)' = q[1] /\ Root(q[1]) = q[1]
  <2>1. Confirm(q)
        BY <1>1, <1>3, RecordChange
  <2>2. Root(q[1]) = q[1]
        BY <2>1 DEF Confirm, IInv, WaiterInv, WaiterOK, Root
  <2>3. PICK k \in Rid : /\ step' = [step EXCEPT ![k] = "confirm"]
                         /\ of' = [of EXCEPT ![k] = q[1]]
        BY <2>1 DEF Confirm, Origin
  <2>4. step'[x] = "confirm" /\ of'[x] = q[1]
        BY <1>i, <2>3 DEF TypeOK
  <2> QED BY <2>1, <2>2, <2>4 DEF Root
<1>4. ASSUME NEW r \in Rid PROVE ~AdoptOne(r)
      BY <1>1 DEF AdoptOne, recordVars
<1>5. ~(Crash \/ Restart \/ AdoptScan)
      BY <1>1 DEF Crash, Restart, AdoptScan, recordVars
<1> QED BY <1>i, <1>1, <1>2, <1>3, <1>4, <1>5, StepKinds DEF Quiet

\* Only AdoptOrphans' listing adds an orphan, and it adds what it lists.
LEMMA OrphansGrow ==
  ASSUME IInv, SoleInv, [Next]_vars, NEW x \in orphans', x \notin orphans
  PROVE  x \in Rid /\ Listed(x) /\ UNCHANGED <<step, of, verdict>>
<1>i. TypeOK /\ DriverInv
      BY DEF IInv, SoleInv
<1>1. AdoptScan
  <2>2. ASSUME NEW q \in Proc, Waiter(q) PROVE orphans' = orphans
        BY <1>i, <2>2, WaiterFrame DEF adoptVars
  <2>3. ASSUME NEW y \in Rid, AdoptOne(y) \/ \E o \in Requests : Request(y, o)
        PROVE  orphans' \subseteq orphans
        BY <2>3 DEF AdoptOne, Request, adoptVars
  <2>4. Crash \/ Restart => orphans' \subseteq orphans
        BY DEF Crash, Restart
  <2>5. Quiet => orphans' = orphans
        BY DEF Quiet, adoptVars
  <2> QED BY <1>i, <2>2, <2>3, <2>4, <2>5, StepKinds
<1> QED BY <1>1 DEF AdoptScan, recordVars, decisionVars

\* Over is for ever.
LEMMA OverStays ==
  ASSUME IInv, SoleInv, [Next]_vars, NEW r \in Rid, Over(r)
  PROVE  Over(r)'
<1>i. /\ TypeOK /\ RecordInv /\ OrphanInv /\ Grows /\ DriverInv
      /\ orphans \subseteq Rid
      BY StepGrows DEF IInv, SoleInv, TypeOK
<1>1. step'[r] = "initial"
      BY <1>i DEF Over, Grows
<1>q. ASSUME NEW q \in Proc, Waiter(q), Root(q[1]) = r
      PROVE  /\ Busy(q) /\ Over(Root(q[1]))
             /\ pc[q] \notin {"confirm", "run", "running", "ran"}
      BY <1>i, <1>q, WaiterFrame, OverWaits
<1>2. executed'[r] = 0
  <2>1. CASE UNCHANGED executed
        BY <2>1 DEF Over
  <2>2. ASSUME NEW q \in Proc, Waiter(q) PROVE executed'[r] = 0
    <3>1. CASE Root(q[1]) = r
      <4>1. UNCHANGED executed
            BY <1>i, <1>q, <2>2, <3>1, ExecutedChange
      <4> QED BY <2>1, <4>1
    <3>2. CASE Root(q[1]) # r
          BY <2>2, <3>2, OwnRuns DEF Over
    <3> QED BY <3>1, <3>2
  <2>3. ASSUME NEW x \in Rid, AdoptOne(x) \/ \E o \in Requests : Request(x, o)
        PROVE  UNCHANGED executed
        BY <2>3 DEF AdoptOne, Request, seenVars
  <2>4. CASE Crash \/ Restart \/ AdoptScan
        BY <2>1, <2>4 DEF Crash, Restart, AdoptScan, seenVars
  <2> QED BY <1>i, <2>1, <2>2, <2>3, <2>4, StepKinds DEF Quiet
<1>3. ASSUME NEW x \in Rid, step'[x] # "none", Root(x)' = r PROVE Unadoptable(x)'
  <2>1. CASE step[x] # "none"
    <3>1. Root(x) = r
          BY <1>i, <1>3, <2>1, RootStays
    <3> QED BY <1>i, <2>1, <3>1, UnadoptableStays DEF Over
  <2>2. CASE step[x] = "none"
    <3>1. x # r
          BY <2>2 DEF Over
    <3>2. PICK q \in Proc : Confirm(q) /\ Root(q[1]) = r
          BY <1>3, <2>2, <3>1, NewRecord
    <3>3. Waiter(q) /\ pc[q] = "confirm"
          BY <3>2 DEF Confirm, Waiter
    <3> QED BY <1>q, <3>2, <3>3
  <2> QED BY <2>1, <2>2
<1>p. ASSUME NEW p \in Proc, Busy(p)
      PROVE  p[1] \in Rid /\ step[p[1]] # "none" /\ Root(p[1])' = Root(p[1])
      BY <1>i, <1>p, Drives, RootStays
<1>s. ASSUME NEW p \in Proc, Busy(p)', Root(p[1])' = r,
             pc'[p] = pc[p], cur'[p] = cur[p], dec'[p] = dec[p]
      PROVE  Stuck(p)' \/ Leaving(p)'
  <2>1. Busy(p) /\ Root(p[1]) = r /\ p[1] \in Rid
        BY <1>p, <1>s DEF Busy
  <2> QED BY <1>i, <1>s, <2>1 DEF Over, Stuck, Leaving, Grows
<1>4. ASSUME NEW p \in Proc, Busy(p)', Root(p[1])' = r
      PROVE  Stuck(p)' \/ Leaving(p)'
  <2>1. CASE UNCHANGED <<pc, cur, dec>>
        BY <1>s, <1>4, <2>1
  <2>2. ASSUME NEW q \in Proc, Waiter(q) PROVE Stuck(p)' \/ Leaving(p)'
    <3>1. CASE p = q
      <4>1. Busy(p) /\ Root(p[1]) = r
            BY <1>i, <1>p, <1>4, <2>2, <3>1, WaiterFrame
      <4> QED BY <1>i, <1>4, <2>2, <3>1, <4>1, OverMoves
    <3>2. CASE p # q
          BY <1>i, <1>s, <1>4, <2>2, <3>2, OthersStay
    <3> QED BY <3>1, <3>2
  <2>3. ASSUME NEW x \in Rid, NEW o \in Requests, Request(x, o)
        PROVE  Stuck(p)' \/ Leaving(p)'
    <3>1. CASE p = <<x, "serve">>
      <4>1. p[1] = x /\ step[x] = "none" /\ step'[x] = "initial"
            BY <1>i, <2>3, <3>1 DEF Request, TypeOK
      <4>2. x = r
            BY <1>4, <4>1 DEF Root
      <4> QED BY <4>1, <4>2 DEF Over
    <3>2. CASE p # <<x, "serve">>
      <4>1. pc'[p] = pc[p] /\ cur'[p] = cur[p] /\ dec'[p] = dec[p]
            BY <1>i, <2>3, <3>2 DEF Request, Goto, TypeOK
      <4> QED BY <1>s, <1>4, <4>1
    <3> QED BY <3>1, <3>2
  <2>4. ASSUME NEW x \in Rid, AdoptOne(x) PROVE Stuck(p)' \/ Leaving(p)'
    <3>1. UNCHANGED <<cur, dec, verdict, step, of>> /\ x \in orphans
          BY <2>4 DEF AdoptOne, recordVars, decisionVars
    <3>2. CASE UNCHANGED pc
          BY <2>1, <3>1, <3>2
    <3>3. CASE ~UNCHANGED pc /\ p = <<x, "adopt">>
      <4>1. cur[p] = x /\ p[1] = x /\ p[2] = "adopt"
            BY <1>i, <2>4, <3>3, AdoptStarts
      <4>2. Root(x) = r
            BY <1>4, <3>1, <4>1 DEF Root
      <4>3. verdict[x] = "torn"
            BY <3>1, <4>2 DEF Over
      <4> QED BY <3>1, <4>1, <4>3 DEF Stuck
    <3>4. CASE ~UNCHANGED pc /\ p # <<x, "adopt">>
      <4>1. pc'[p] = pc[p]
        <5>1. pc' = [pc EXCEPT ![<<x, "adopt">>] = "await"]
              BY <1>i, <2>4, <3>4, AdoptStarts
        <5> QED BY <1>i, <3>4, <5>1 DEF TypeOK
      <4> QED BY <1>s, <1>4, <3>1, <4>1
    <3> QED BY <3>2, <3>3, <3>4
  <2>5. CASE Crash
        BY <1>4, <2>5 DEF Crash, Busy
  <2>6. CASE Restart \/ AdoptScan
        BY <2>1, <2>6 DEF Restart, AdoptScan, waiterVars
  <2> QED BY <1>i, <2>1, <2>2, <2>3, <2>4, <2>5, <2>6, StepKinds DEF Quiet
<1>5. ASSUME NEW x \in orphans', Root(x)' = r PROVE verdict'[x] = "torn"
  <2>1. CASE x \in orphans
    <3>1. Root(x) = r /\ x \in Rid
          BY <1>i, <1>5, <2>1, RootStays DEF OrphanInv
    <3> QED BY <1>i, <2>1, <3>1 DEF Over, Grows
  <2>2. CASE x \notin orphans
    <3>2. /\ x \in Rid /\ Listed(x) /\ UNCHANGED <<step, of, verdict>>
          BY <1>5, <2>2, OrphansGrow
    <3>3. Root(x) = r
          BY <1>5, <3>2 DEF Root
    <3>4. Unadoptable(x)
          BY <3>2, <3>3 DEF Over, Listed
    <3> QED BY <3>2, <3>4 DEF Listed, Unadoptable, Unexpired, Verdict
  <2> QED BY <2>1, <2>2
<1> QED BY <1>1, <1>2, <1>3, <1>4, <1>5 DEF Over

\* Settled is for ever, whatever is submitted or cancelled late.
LEMMA SettledStays ==
  ASSUME IInv, SoleInv, [Next]_vars, NEW r \in Rid, Settled(r)
  PROVE  Settled(r)'
<1>i. /\ TypeOK /\ RecordInv /\ OrphanInv /\ Grows /\ DriverInv
      /\ orphans \subseteq Rid
      BY StepGrows DEF IInv, SoleInv, TypeOK
<1>1. Approved(r)'
      BY <1>i, ApprovedStays DEF Settled
<1>r. step[r] = "initial" /\ Root(r) = r
      BY DEF Settled, Approved, Root
<1>q. ASSUME NEW q \in Proc, Waiter(q)
      PROVE  Busy(q) /\ Root(q[1]) # r
      BY <1>i, <1>q, WaiterFrame DEF Settled
<1>2. ASSUME NEW x \in Rid, step'[x] # "none", Root(x)' = r
      PROVE  Verdict(x)' = "approve"
  <2>1. CASE step[x] # "none"
    <3>1. Root(x) = r
          BY <1>i, <1>2, <2>1, RootStays
    <3>2. verdict[x] = "approve"
          BY <2>1, <3>1 DEF Settled, Verdict
    <3> QED BY <1>i, <3>2 DEF Grows, Verdict
  <2>2. CASE step[x] = "none"
    <3>1. x # r
          BY <1>r, <2>2
    <3>2. PICK q \in Proc : Confirm(q) /\ Root(q[1]) = r
          BY <1>2, <2>2, <3>1, NewRecord
    <3>3. Waiter(q)
          BY <3>2 DEF Waiter
    <3> QED BY <1>q, <3>2, <3>3
  <2> QED BY <2>1, <2>2
<1>3. ASSUME NEW p \in Proc, Busy(p)' PROVE Root(p[1])' # r
  <2>1. ASSUME Busy(p) PROVE Root(p[1])' # r
    <3>1. Root(p[1]) # r /\ p[1] \in Rid /\ step[p[1]] # "none"
          BY <2>1, Drives DEF Settled
    <3> QED BY <1>i, <3>1, RootStays
  <2>2. ASSUME NEW q \in Proc, Waiter(q) PROVE Busy(p)
        BY <1>i, <1>3, <2>2, WaiterFrame
  <2>3. ASSUME NEW x \in Rid, NEW o \in Requests, Request(x, o), ~Busy(p)
        PROVE  Root(p[1])' # r
    <3>1. /\ step[x] = "none" /\ step' = [step EXCEPT ![x] = "initial"]
          /\ pc' = [pc EXCEPT ![<<x, "serve">>] = "suspend"]
          BY <2>3 DEF Request, Goto
    <3>2. p = <<x, "serve">>
          BY <1>i, <1>3, <2>3, <3>1 DEF Busy, TypeOK
    <3>3. p[1] = x /\ step'[x] = "initial" /\ x # r
          BY <1>i, <1>r, <3>1, <3>2 DEF TypeOK
    <3> QED BY <3>3 DEF Root
  <2>4. ASSUME NEW x \in Rid, AdoptOne(x), ~Busy(p) PROVE Root(p[1])' # r
    <3>1. UNCHANGED <<step, of>> /\ x \in orphans
          BY <2>4 DEF AdoptOne, recordVars
    <3>2. ~UNCHANGED pc
          BY <1>3, <2>4 DEF Busy
    <3>3. pc' = [pc EXCEPT ![<<x, "adopt">>] = "await"]
          BY <1>i, <2>4, <3>2, AdoptStarts
    <3>4. p = <<x, "adopt">>
          BY <1>i, <1>3, <2>4, <3>3 DEF Busy, TypeOK
    <3>5. Root(p[1]) # r
          BY <3>1, <3>4 DEF Settled
    <3> QED BY <3>1, <3>5 DEF Root
  <2>5. Crash => FALSE
        BY <1>3 DEF Crash, Busy
  <2>6. Restart \/ AdoptScan \/ Quiet => Busy(p)
        BY <1>3 DEF Restart, AdoptScan, Quiet, waiterVars, Busy
  <2> QED BY <1>i, <2>1, <2>2, <2>3, <2>4, <2>5, <2>6, StepKinds
<1>4. ASSUME NEW x \in orphans' PROVE Root(x)' # r
  <2>1. CASE x \in orphans
    <3>1. Root(x) # r /\ x \in Rid /\ step[x] # "none"
          BY <1>i, <2>1 DEF Settled, OrphanInv
    <3> QED BY <1>i, <3>1, RootStays
  <2>2. CASE x \notin orphans
    <3>1. x \in Rid /\ Listed(x) /\ UNCHANGED <<step, of, verdict>>
          BY <2>2, OrphansGrow
    <3>2. Root(x)' = Root(x) /\ Root(x) # r
          BY <3>1 DEF Settled, Listed, Root
    <3> QED BY <3>2
  <2> QED BY <2>1, <2>2
<1>5. printed'[r] = printed[r]
  <2>1. ASSUME NEW q \in Proc, Waiter(q) PROVE Root(cur[q]) # r
        BY <1>q, <2>1, Drives
  <2> QED BY <1>i, <2>1, PrintedChange
<1>6. result'[r] \in {result[r], Res("minus1", "cancelled")}
  <2>1. ASSUME NEW q \in Proc, Waiter(q) PROVE result'[r] = result[r]
        BY <1>q, <1>r, <2>1, ResultOwner
  <2>2. ASSUME NEW x \in Rid, AdoptOne(x) \/ \E o \in Requests : Request(x, o)
        PROVE  result'[r] = result[r]
        BY <2>2 DEF AdoptOne, Request, decisionVars
  <2>3. Crash \/ Restart \/ AdoptScan => result'[r] = result[r]
        BY DEF Crash, Restart, AdoptScan, decisionVars
  <2> QED BY <1>i, <2>1, <2>2, <2>3, StepKinds DEF Quiet
<1>7. /\ result'[r] # NoResult
      /\ result'[r] \in {Res("code", "text"), printed'[r], Res("minus1", "cancelled")}
      BY <1>5, <1>6, ResultsAre DEF Settled, Output
<1> QED BY <1>1, <1>2, <1>3, <1>4, <1>7 DEF Settled

LEMMA OutcomeInit == Init => OutcomeInv
<1> SUFFICES ASSUME Init PROVE OutcomeInv
    OBVIOUS
<1>1. ~Refusal(NoResult)
      BY DEF Refusal, NoResult, Res
<1> QED BY <1>1 DEF Init, OutcomeInv

\* Who writes an approval, an answer and a result.
LEMMA ApprovalChange ==
  ASSUME IInv, SoleInv, [Next]_vars
  PROVE  \/ \A x \in Rid : verdict'[x] = "approve" => verdict[x] = "approve"
         \/ \E x \in Rid : Submit(x, "approve")
<1>i. TypeOK
      BY DEF IInv
<1> USE DEF decisionVars
<1>1. CASE UNCHANGED verdict
      BY <1>1
<1>2. ASSUME NEW q \in Proc, Waiter(q)
      PROVE  \A x \in Rid : verdict'[x] = "approve" => verdict[x] = "approve"
  <2>1. CASE ConsumeOwn(q)
    <3>1. pc[q] = "consume" /\ Consume(cur[q], dec[q])
          BY <2>1 DEF ConsumeOwn
    <3>2. dec[q] # "approve"
          BY <3>1 DEF SoleInv, ProgressInv, ProgressOK, StageOK, Busy
    <3>3. \A v \in {dec[q]} \cup Torn : v # "approve"
          BY <3>2 DEF Torn
    <3> QED BY <1>i, <3>1, <3>3 DEF Consume, TypeOK
  <2>2. CASE ~ConsumeOwn(q)
        BY <1>2, <2>2 DEF Waiter, Suspend, Pin, AwaitVerdict, AwaitOtherwise, SaveOwn,
                          Confirm, Execute, CommandEnds, SaveRan, SaveParent, Finish
  <2> QED BY <2>1, <2>2
<1>3. ASSUME NEW r \in Rid, Submit(r, "deny")
      PROVE  \A x \in Rid : verdict'[x] = "approve" => verdict[x] = "approve"
      BY <1>i, <1>3 DEF Submit, Consume, Torn, TypeOK
<1>4. ASSUME NEW c \in Canceller, CancelWrite(c)
      PROVE  \A x \in Rid : verdict'[x] = "approve" => verdict[x] = "approve"
      BY <1>i, <1>4 DEF CancelWrite, Consume, Torn, TypeOK
<1>5. ASSUME NEW r \in Rid, NEW o \in Requests, Request(r, o) PROVE UNCHANGED verdict
      BY <1>5 DEF Request
<1>6. ASSUME NEW r \in Rid, Disconnect(r) \/ Tick(r) \/ AdoptOne(r)
      PROVE  UNCHANGED verdict
      BY <1>6 DEF Disconnect, Tick, AdoptOne
<1>7. ASSUME NEW c \in Canceller, CancelResume(c) \/ \E r \in Rid : CancelCheck(c, r)
      PROVE  UNCHANGED verdict
      BY <1>7 DEF CancelResume, CancelCheck
<1>8. CASE Crash \/ Restart \/ AdoptScan
      BY <1>1, <1>8 DEF Crash, Restart, AdoptScan
<1>9. CASE UNCHANGED vars
      BY <1>1, <1>9 DEF vars
<1> QED BY <1>1, <1>2, <1>3, <1>4, <1>5, <1>6, <1>7, <1>8, <1>9 DEF Next

\* The answer of a handler that returns, the only one who gives it.
LEMMA AnswerChange ==
  ASSUME IInv, [Next]_vars, NEW r \in Rid, answer'[r] \in {"allowed", "denied"},
         answer'[r] # answer[r]
  PROVE  \E q \in Proc :
           /\ Waiter(q) /\ pc[q] = "finish" /\ q[1] = r /\ q[2] = "serve"
           /\ executed' = executed
           /\ answer'[r] = IF dec[q] = "approve" THEN "allowed" ELSE "denied"
<1>i. TypeOK
      BY DEF IInv
<1>1. ~UNCHANGED answer
      OBVIOUS
<1>2. ASSUME NEW x \in Rid, NEW o \in Requests, Request(x, o) PROVE FALSE
  <2>1. answer' = [answer EXCEPT ![x] = IF o.detach THEN "pending" ELSE "none"]
        BY <1>2 DEF Request
  <2> QED BY <1>i, <2>1 DEF TypeOK
<1>3. ASSUME NEW q \in Proc, Waiter(q)
      PROVE  /\ pc[q] = "finish" /\ q[1] = r /\ q[2] = "serve" /\ executed' = executed
             /\ answer'[r] = IF dec[q] = "approve" THEN "allowed" ELSE "denied"
  <2>1. Finish(q)
        BY <1>1, <1>3 DEF Waiter, Suspend, Pin, AwaitVerdict, AwaitOtherwise, ConsumeOwn,
                          SaveOwn, Confirm, Execute, CommandEnds, SaveRan,
                          SaveParent, seenVars
  <2>2. /\ pc[q] = "finish" /\ executed' = executed
        /\ answer' = [answer EXCEPT ![q[1]] =
                        IF ~Blocking(q) THEN @
                        ELSE IF dec[q] = "approve" THEN "allowed" ELSE "denied"]
        BY <2>1 DEF Finish, Origin
  <2>3. q[1] = r /\ Blocking(q)
        BY <1>i, <2>2 DEF TypeOK
  <2>4. q[2] = "serve"
        BY <2>3 DEF Blocking, Adopted, Proc
  <2> QED BY <1>i, <2>2, <2>3, <2>4 DEF TypeOK
<1>4. ASSUME NEW x \in Rid PROVE ~AdoptOne(x)
      BY <1>1 DEF AdoptOne, seenVars
<1>5. ~(Crash \/ Restart \/ AdoptScan)
      BY <1>1 DEF Crash, Restart, AdoptScan, seenVars
<1> QED BY <1>i, <1>1, <1>2, <1>3, <1>4, <1>5, StepKinds DEF Quiet

\* A result that reads as a refusal is written by a waiter, for its own petition
\* or the confirmation it waits for: a refusal, or what the command printed.
LEMMA ResultChange ==
  ASSUME IInv, SoleInv, EndingInv, [Next]_vars, NEW x \in Rid,
         Refusal(result'[x]), result'[x] # result[x]
  PROVE  \E q \in Proc :
           /\ Waiter(q) /\ Busy(q) /\ x \in {cur[q], q[1]}
           /\ \/ Leaving(q) \/ Leaving(q)'
              \/ result'[x] = printed[Root(q[1])] /\ printed' = printed
<1>i. TypeOK
      BY DEF IInv
<1>1. ~UNCHANGED result /\ result'[x] # Res("minus1", "cancelled")
      BY DEF Refusal, Res
<1>2. ASSUME NEW q \in Proc, Waiter(q)
      PROVE  /\ Busy(q) /\ x \in {cur[q], q[1]}
             /\ \/ Leaving(q) \/ Leaving(q)'
                \/ result'[x] = printed[Root(q[1])] /\ printed' = printed
  <2>s. ASSUME NEW y \in Rid, NEW out, SaveResult(y, out) PROVE x = y /\ result'[x] = out
        BY <1>i, <1>1, <2>s DEF SaveResult, TypeOK
  <2>b. Busy(q) /\ StageOK(q) /\ EndingOK(q) /\ cur[q] \in Rid /\ q[1] \in Rid
        BY <1>i, <1>2, WaiterFrame
        DEF SoleInv, ProgressInv, ProgressOK, EndingInv, TypeOK, Proc
  <2>t. ASSUME Ran(q), result'[x] = res[q] PROVE result'[x] = printed[Root(q[1])]
    <3>1. res[q] # Res("code", "text")
          BY <2>t DEF Refusal, Res
    <3> QED BY <2>b, <2>t, <3>1 DEF EndingOK
  <2>1. CASE SaveOwn(q)
    <3>1. x = cur[q] /\ pc[q] = "result"
          BY <2>1, <2>b, <2>s DEF SaveOwn
    <3> QED BY <2>b, <3>1 DEF StageOK, Leaving
  <2>2. CASE SaveParent(q)
    <3>1. /\ x = q[1] /\ result'[x] = ParentOutcome(q) /\ pc[q] = "parent"
          /\ printed' = printed
          BY <2>2, <2>b, <2>s DEF SaveParent, Origin, seenVars
    <3>2. CASE dec[q] = "approve"
          BY <2>b, <2>t, <3>1, <3>2 DEF ParentOutcome, Ran
    <3>3. CASE dec[q] # "approve"
          BY <2>b, <3>1, <3>3 DEF Leaving
    <3> QED BY <3>2, <3>3
  <2>3. CASE SaveRan(q)
    <3>1. x = cur[q] /\ result'[x] = res[q] /\ pc[q] = "ran" /\ printed' = printed
          BY <2>3, <2>b, <2>s DEF SaveRan, seenVars
    <3> QED BY <2>b, <2>t, <3>1 DEF Ran
  <2>4. CASE Execute(q)
    <3>1. /\ SaveResult(cur[q], Res("minus1", "drift"))
          /\ dec' = [dec EXCEPT ![q] = "blocked"]
          /\ Goto(q, AfterResult(q))
          BY <1>1, <2>4 DEF Execute
    <3>2. x = cur[q]
          BY <2>b, <2>s, <3>1
    <3>3. dec'[q] = "blocked" /\ pc'[q] \in {"parent", "finish"}
          BY <1>i, <3>1 DEF Goto, AfterResult, TypeOK
    <3> QED BY <2>b, <3>2, <3>3 DEF Leaving
  <2> QED BY <1>1, <1>2, <2>1, <2>2, <2>3, <2>4
          DEF Waiter, Suspend, Pin, AwaitVerdict, AwaitOtherwise, ConsumeOwn, Confirm,
              CommandEnds, Finish, decisionVars
<1>3. ASSUME NEW r \in Rid, AdoptOne(r) \/ \E o \in Requests : Request(r, o)
      PROVE  FALSE
      BY <1>1, <1>3 DEF AdoptOne, Request, decisionVars
<1>4. ~(Crash \/ Restart \/ AdoptScan)
      BY <1>1 DEF Crash, Restart, AdoptScan, decisionVars
<1> QED BY <1>i, <1>1, <1>2, <1>3, <1>4, StepKinds DEF Quiet

\* What a command printed stays what it printed: it ran once.
LEMMA PrintedStays ==
  ASSUME IInv, EndingInv, [Next]_vars, NEW r \in Rid, printed[r] # NoResult
  PROVE  printed'[r] = printed[r]
<1>1. ASSUME NEW q \in Proc, Waiter(q), CommandEnds(q), Root(cur[q]) = r
      PROVE  FALSE
  <2>1. Busy(q) /\ Root(q[1]) = r /\ pc[q] = "running"
        BY <1>1, Drives, WaiterFrame DEF CommandEnds, IInv
  <2> QED BY <2>1 DEF EndingInv, EndingOK
<1> QED BY <1>1, PrintedChange DEF IInv

\* Nobody is left to serve a petition whose handler returns from an approval.
LEMMA ReturnSettles ==
  ASSUME IInv, SoleInv, EndingInv, [Next]_vars, IInv', SoleInv',
         NEW q \in Proc, Waiter(q), pc[q] = "finish", q[2] = "serve",
         dec[q] = "approve"
  PROVE  Settled(q[1])'
<1> DEFINE r == q[1]
<1>i. /\ TypeOK /\ RecordInv /\ Grows /\ DriverInv /\ ChildInv /\ Busy(q)
      /\ EndingOK(q) /\ RootedOK(q) /\ r \in Rid
      BY StepGrows, WaiterFrame DEF IInv, SoleInv, EndingInv, ProgressInv, ProgressOK, Proc
<1>1. Finish(q)
      BY DEF Waiter, Suspend, Pin, AwaitVerdict, AwaitOtherwise, ConsumeOwn, SaveOwn,
             Confirm, Execute, CommandEnds, SaveRan, SaveParent
<1>2. /\ UNCHANGED <<step, of, opt, verdict, result, printed, orphans>>
      /\ pc'[q] = "idle"
      BY <1>i, <1>1 DEF Finish, Goto, TypeOK, recordVars, decisionVars, adoptVars
<1>3. step[r] = "initial" /\ Root(r) = r
      BY <1>i DEF RootedOK, Root
<1>4. /\ Approved(r) /\ res[q] # NoResult
      /\ res[q] \in {Res("code", "text"), printed[r]}
      /\ result[r] \in {res[q], Res("minus1", "cancelled")}
      BY <1>i, <1>3 DEF EndingOK, Ran
<1> HIDE DEF r
<1>5. Approved(r)'
      BY <1>i, <1>4, ApprovedStays
<1>6. ASSUME NEW x \in Rid, step[x] # "none", Root(x) = r
      PROVE  Verdict(x) = "approve"
  <2>1. CASE x = r
        BY <1>4, <2>1 DEF Approved
  <2>2. CASE x # r
    <3>1. step[x] = "confirm" /\ of[x] = r
          BY <1>6, <2>2 DEF Root
    <3>2. opt[r].confirm
          BY <1>i, <3>1 DEF ChildInv
    <3>3. PICK k \in Confirmations(r) : Verdict(k) = "approve"
          BY <1>4, <3>2 DEF Approved
    <3>4. k = x
          BY <1>i, <3>1, <3>3 DEF ChildInv, Confirmations
    <3> QED BY <3>3, <3>4
  <2> QED BY <2>1, <2>2
<1>7. ASSUME NEW p \in Proc, Busy(p)' PROVE Root(p[1])' # r
  <2>1. p # q /\ Busy(p)
        BY <1>i, <1>2, <1>7, WaiterFrame DEF Busy
  <2>2. Root(p[1]) # r
        BY <1>i, <1>3, <2>1 DEF DriverInv, r
  <2> QED BY <1>2, <2>2 DEF Root
<1>8. ASSUME NEW x \in orphans' PROVE Root(x)' # r
  <2>1. Root(x) # r
        BY <1>i, <1>2, <1>3, <1>8 DEF DriverInv, r
  <2> QED BY <1>2, <2>1 DEF Root
<1>9. /\ result'[r] # NoResult
      /\ result'[r] \in {Res("code", "text"), printed'[r], Res("minus1", "cancelled")}
      BY <1>2, <1>4, ResultsAre DEF Output
<1>10. \A x \in Rid : step'[x] # "none" /\ Root(x)' = r => Verdict(x)' = "approve"
      BY <1>2, <1>6 DEF Root, Verdict
<1>11. Settled(r)'
      BY <1>5, <1>7, <1>8, <1>9, <1>10 DEF Settled
<1> QED BY <1>11 DEF r

\* Every step keeps what was reported true.
LEMMA OutcomeStep ==
  ASSUME IInv, SoleInv, EndingInv, OutcomeInv, [Next]_vars, IInv', SoleInv'
  PROVE  OutcomeInv'
<1>i. TypeOK /\ Grows
      BY StepGrows DEF IInv
<1>l. LeaversOver /\ LeaversOver'
      BY LeavingIsOver, PTL
<1>o. ASSUME NEW r \in Rid, Over(r) PROVE Over(r)'
      BY <1>o, OverStays
<1>f. ASSUME NEW r \in Rid, answer'[r] \in {"allowed", "denied"},
             answer'[r] # answer[r]
      PROVE  \/ answer'[r] = "allowed" /\ Settled(r)'
             \/ answer'[r] = "denied" /\ Over(r)
  <2>1. PICK q \in Proc :
           /\ Waiter(q) /\ pc[q] = "finish" /\ q[1] = r /\ q[2] = "serve"
           /\ answer'[r] = IF dec[q] = "approve" THEN "allowed" ELSE "denied"
        BY <1>f, AnswerChange
  <2>2. Busy(q) /\ RootedOK(q)
        BY <2>1 DEF SoleInv, ProgressInv, ProgressOK, Busy
  <2>3. Root(q[1]) = r
        BY <2>1, <2>2 DEF RootedOK, Root
  <2>4. CASE dec[q] = "approve"
    <3>1. Settled(q[1])'
          BY <2>1, <2>4, ReturnSettles
    <3> QED BY <2>1, <2>4, <3>1
  <2>5. CASE dec[q] # "approve"
        BY <1>l, <2>1, <2>3, <2>5 DEF LeaversOver, Leaving
  <2> QED BY <2>4, <2>5
<1>1. ASSUME NEW r \in Rid, answer'[r] = "denied" PROVE Over(r)'
      BY <1>f, <1>o, <1>1 DEF OutcomeInv
<1>2. ASSUME NEW r \in Rid, answer'[r] = "allowed" PROVE Settled(r)'
      BY <1>f, <1>2, SettledStays DEF OutcomeInv
<1>t. ASSUME NEW x \in Rid, NEW r \in Rid, Root(x)' = r,
             Over(r)' \/ result'[x] = printed'[r]
      PROVE  Told(x)'
      BY <1>t DEF Told, Over
<1>g. ASSUME NEW x \in Rid, Refusal(result'[x]), result'[x] # result[x]
      PROVE  step'[x] # "none" /\ Told(x)'
  <2>1. PICK q \in Proc :
           /\ Waiter(q) /\ Busy(q) /\ x \in {cur[q], q[1]}
           /\ \/ Leaving(q) \/ Leaving(q)'
              \/ result'[x] = printed[Root(q[1])] /\ printed' = printed
        BY <1>g, ResultChange
  <2>2. /\ step[x] # "none" /\ Root(x) = Root(q[1]) /\ Root(q[1]) \in Rid
        /\ q[1] \in Rid /\ step[q[1]] # "none"
        BY <2>1, Drives
  <2>3. /\ step'[x] # "none" /\ Root(x)' = Root(q[1]) /\ Root(q[1])' = Root(q[1])
        BY <1>i, <2>2, RootStays
  <2>r. PICK r \in Rid : r = Root(q[1])
        BY <2>2
  <2>4. CASE Leaving(q)
    <3>1. Over(r)'
          BY <1>l, <1>o, <2>4, <2>r DEF LeaversOver
    <3> QED BY <1>t, <2>3, <2>r, <3>1
  <2>5. CASE Leaving(q)'
    <3>1. Over(Root(q[1]))'
          BY <1>l, <2>5 DEF LeaversOver
    <3>2. Over(r)'
          BY <2>3, <2>r, <3>1 DEF Over
    <3> QED BY <1>t, <2>3, <2>r, <3>2
  <2>6. CASE result'[x] = printed[Root(q[1])] /\ printed' = printed
        BY <1>t, <2>3, <2>6, <2>r
  <2> QED BY <2>1, <2>3, <2>4, <2>5, <2>6
<1>3. ASSUME NEW x \in Rid, Refusal(result'[x]) PROVE step'[x] # "none" /\ Told(x)'
  <2>1. CASE result'[x] = result[x]
    <3>1. step[x] # "none" /\ Told(x) /\ Root(x) \in Rid
          BY <1>3, <2>1, RootHas DEF OutcomeInv, IInv
    <3>2. step'[x] # "none" /\ Root(x)' = Root(x)
          BY <1>i, <3>1, RootStays
    <3>3. PICK r \in Rid : r = Root(x)
          BY <3>1
    <3>4. CASE Over(Root(x))
      <4>1. Over(r)'
            BY <1>o, <3>3, <3>4
      <4> QED BY <1>t, <3>2, <3>3, <4>1
    <3>5. CASE result[x] = printed[Root(x)]
      <4>1. printed[r] # NoResult
            BY <1>3, <2>1, <3>3, <3>5 DEF Refusal, NoResult, Res
      <4>2. printed'[r] = printed[r]
            BY <4>1, PrintedStays
      <4> QED BY <1>t, <2>1, <3>2, <3>3, <3>5, <4>2
    <3> QED BY <3>1, <3>2, <3>4, <3>5 DEF Told
  <2>2. CASE result'[x] # result[x]
        BY <1>g, <1>3, <2>2
  <2> QED BY <2>1, <2>2
<1>5. ASSUME NEW x \in Rid, verdict'[x] = "approve" PROVE step'[x] # "none"
  <2>1. step[x] # "none"
    <3>1. CASE verdict[x] = "approve"
          BY <3>1 DEF OutcomeInv
    <3>2. ASSUME NEW y \in Rid, Submit(y, "approve"), verdict[x] # "approve"
          PROVE  step[x] # "none"
      <4>1. x = y
            BY <1>i, <1>5, <3>2 DEF Submit, Consume, TypeOK
      <4> QED BY <3>2, <4>1 DEF Submit
    <3> QED BY <1>5, <3>1, <3>2, ApprovalChange
  <2> QED BY <1>i, <2>1, RootStays
<1> QED BY <1>1, <1>2, <1>3, <1>5 DEF OutcomeInv

LEMMA OutcomeInvariant == AdoptFirst => (Spec => []OutcomeInv)
<1> SUFFICES ASSUME AdoptFirst PROVE Spec => []OutcomeInv
    OBVIOUS
<1>1. Spec => []IInv /\ []SoleInv /\ []EndingInv
      BY Invariant, SoleInvariant, EndingInvariant, PTL
<1>2. /\ IInv /\ SoleInv /\ EndingInv /\ OutcomeInv /\ [Next]_vars /\ IInv' /\ SoleInv'
      => OutcomeInv'
      BY OutcomeStep
<1> QED BY OutcomeInit, <1>1, <1>2, PTL DEF Spec

------------------------------------------------------------------------------
\* What Status, the list and the callers are told.

\* A petition whose command has run is read as approved, and its confirmation
\* too.
LEMMA RanReadsApproved ==
  ASSUME IInv, SoleInv, NEW x \in Rid, step[x] # "none", executed[Root(x)] > 0
  PROVE  /\ Verdict(x) = "approve"
         /\ \A k \in Confirmations(x) : Verdict(k) = "approve"
<1>i. TypeOK /\ RecordInv /\ ExecutedOnlyIfApproved /\ ChildInv
      BY DEF IInv, SoleInv
<1>1. Root(x) \in Rid /\ Approved(Root(x))
      BY <1>i, RootHas DEF ExecutedOnlyIfApproved
<1>2. ASSUME NEW k \in Rid, step[k] = "confirm", of[k] = Root(x)
      PROVE  Verdict(k) = "approve"
  <2>1. opt[Root(x)].confirm
        BY <1>i, <1>2 DEF ChildInv
  <2>2. PICK l \in Confirmations(Root(x)) : Verdict(l) = "approve"
        BY <1>1, <2>1 DEF Approved
  <2>3. k = l
        BY <1>i, <1>2, <2>2 DEF Confirmations, ChildInv
  <2> QED BY <2>2, <2>3
<1>3. CASE step[x] = "initial"
      BY <1>i, <1>1, <1>2, <1>3, RootHas DEF Approved, Confirmations
<1>4. CASE step[x] = "confirm"
  <2>1. of[x] = Root(x)
        BY <1>4 DEF Root
  <2>2. Confirmations(x) = {}
        BY <1>i, <1>4 DEF Confirmations, RecordInv
  <2> QED BY <1>2, <1>4, <2>1, <2>2
<1> QED BY <1>i, <1>3, <1>4 DEF TypeOK

\* Nor has it a result that reads as a refusal, unless it printed that.
LEMMA RanHasNoRefusal ==
  ASSUME OutcomeInv, NEW x \in Rid, executed[Root(x)] > 0, Refusal(result[x])
  PROVE  Misread(x)
<1>1. result[x] = printed[Root(x)]
      BY DEF OutcomeInv, Told, Over
<1>2. result[x].out \in InBand
      BY DEF Refusal, InBand, Res
<1> QED BY <1>1, <1>2 DEF Misread

\* Status.
LEMMA StatusTrue == IInv /\ SoleInv /\ OutcomeInv => StatusNeverDeniesARun
<1> SUFFICES ASSUME IInv, SoleInv, OutcomeInv, NEW r \in Rid,
                    Status(r) \in {"not_found", "pending", "confirming", "deny",
                                   "denied", "timeout", "client_aborted"},
                    executed[Root(r)] # 0, ~Misread(r)
             PROVE  FALSE
    BY DEF StatusNeverDeniesARun
<1>i. TypeOK
      BY DEF IInv
<1>1. CASE step[r] = "none"
  <2>1. Root(r) = r
        BY <1>1 DEF Root
  <2>2. executed[r] > 0
        BY <1>i, <2>1 DEF TypeOK
  <2> QED BY <1>1, <2>2 DEF IInv, ExecutedOnlyIfApproved, Approved
<1>2. CASE step[r] # "none"
  <2>1. executed[Root(r)] > 0
        BY <1>i, <1>2, RootHas DEF TypeOK, IInv
  <2>2. /\ Verdict(r) = "approve" /\ ~Refusal(result[r])
        /\ \A k \in Confirmations(r) : Verdict(k) = "approve"
        BY <1>2, <2>1, RanReadsApproved, RanHasNoRefusal
  <2>3. StatusBeforeResult(r) \in {"cancelled", "running"}
        BY <2>2 DEF StatusBeforeResult
  <2>4. \A k \in Confirmations(r) : StatusOfChild(k) \in {"cancelled", "completed"}
        BY <2>2 DEF StatusOfChild
  <2>5. StatusWithResult(r) \in {"cancelled", "completed"}
    <3> DEFINE k == CHOOSE c \in Confirmations(r) : TRUE
    <3>1. Confirmations(r) # {} => k \in Confirmations(r)
          OBVIOUS
    <3> HIDE DEF k
    <3>2. Confirmations(r) # {} => StatusOfChild(k) \in {"cancelled", "completed"}
          BY <2>4, <3>1
    <3>3. /\ result[r] # Res("minus1", "drift")
          /\ result[r].out \notin {"confirmation_timeout", "client_aborted"}
          BY <2>2 DEF Refusal
    <3> QED BY <2>2, <3>2, <3>3 DEF StatusWithResult, k
  <2>6. Status(r) \in {"cancelled", "running", "completed"}
        BY <1>2, <2>2, <2>3, <2>5 DEF Status
  <2> QED BY <2>6
<1> QED BY <1>1, <1>2

\* The list of recent petitions: a result other than a refusal sends it to the
\* verdicts, which are approvals.
LEMMA RecentTrue == IInv /\ SoleInv /\ OutcomeInv => RecentTellsRuns
<1> SUFFICES ASSUME IInv, SoleInv, OutcomeInv, NEW r \in Rid, InRecent(r),
                    RecentDecision(r) \in {"deny", "timeout", "client_aborted"},
                    executed[Root(r)] # 0,
                    ~(Misread(r) /\ result[r].exit = "minus1")
             PROVE  FALSE
    BY DEF RecentTellsRuns
<1>i. TypeOK /\ step[r] # "none"
      BY DEF IInv, InRecent
<1>1. executed[Root(r)] > 0
      BY <1>i, RootHas DEF TypeOK, IInv
<1>2. /\ Verdict(r) = "approve"
      /\ \A k \in Confirmations(r) : Verdict(k) = "approve"
      BY <1>i, <1>1, RanReadsApproved
<1>3. result[r].exit # "minus1" => result[r].exit = "code" \/ result[r].out = "empty"
      BY <1>i DEF TypeOK, Result, RunResult, NoResult, Res
<1>4. result[r].out \in {"confirmation_timeout", "client_aborted"}
        => result[r].exit = "code"
  <2>1. CASE Misread(r)
        BY <1>3, <2>1
  <2>2. CASE ~Misread(r)
        BY <1>1, <2>2, RanHasNoRefusal DEF Refusal
  <2> QED BY <2>1, <2>2
<1> DEFINE k == CHOOSE c \in Confirmations(r) : TRUE
<1>5. Confirmations(r) # {} => Verdict(k) = "approve"
      BY <1>2
<1> HIDE DEF k
<1>6. RecentDecision(r) \in {"cancelled", "approve"}
      BY <1>2, <1>4, <1>5 DEF RecentDecision, k
<1> QED BY <1>6

\* Status of a petition that is settled.
LEMMA SettledStatus ==
  ASSUME IInv, SoleInv, NEW r \in Rid, Settled(r)
  PROVE  Status(r) \in {"completed", "cancelled"} \/ Misread(r)
<1>1. step[r] = "initial" /\ Verdict(r) = "approve" /\ Root(r) = r
      BY DEF Settled, Approved, Root
<1>2. \A k \in Confirmations(r) : StatusOfChild(k) \in {"cancelled", "completed"}
  <2> SUFFICES ASSUME NEW k \in Confirmations(r) PROVE Verdict(k) = "approve"
      BY DEF StatusOfChild
  <2> QED BY DEF Settled, Confirmations, Root
<1> DEFINE k == CHOOSE c \in Confirmations(r) : TRUE
<1>3. Confirmations(r) # {} => StatusOfChild(k) \in {"cancelled", "completed"}
      BY <1>2
<1> HIDE DEF k
<1>4. Misread(r) \/ ~Refusal(result[r])
  <2>1. CASE result[r] = printed[r]
        BY <1>1, <2>1 DEF Misread, Refusal, InBand, Res
  <2>2. CASE result[r] # printed[r]
        BY <2>2 DEF Settled, Refusal, Res
  <2> QED BY <2>1, <2>2
<1>5. ASSUME ~Refusal(result[r]) PROVE StatusWithResult(r) \in {"completed", "cancelled"}
  <2>1. /\ result[r] # Res("minus1", "drift")
        /\ result[r].out \notin {"confirmation_timeout", "client_aborted"}
        BY <1>5 DEF Refusal
  <2> QED BY <1>1, <1>3, <2>1 DEF StatusWithResult, k
<1>6. Status(r) \in {"cancelled", StatusWithResult(r)}
      BY <1>1 DEF Status, Settled
<1> QED BY <1>4, <1>5, <1>6

LEMMA AnswersTold == IInv /\ SoleInv /\ OutcomeInv => AnswersTrue
<1> SUFFICES ASSUME IInv, SoleInv, OutcomeInv, NEW r \in Rid
             PROVE  /\ answer[r] = "denied" => executed[r] = 0
                    /\ answer[r] = "allowed"
                         => /\ Approved(r)
                            /\ \/ Status(r) \in {"completed", "cancelled"}
                               \/ Misread(r)
    BY DEF AnswersTrue
<1>1. answer[r] = "denied" => executed[r] = 0
      BY DEF OutcomeInv, Over
<1>2. answer[r] = "allowed" => Settled(r) /\ Approved(r)
      BY DEF OutcomeInv, Settled
<1> QED BY <1>1, <1>2, SettledStatus

\* What a blocking client was told is true for ever: a petition it was refused
\* never runs, and one it was allowed was approved and is reported as completed,
\* unless it is cancelled late or its command printed one of the texts that
\* Status takes for an outcome.
THEOREM AnswersStayTrue == AdoptFirst => (Spec => []AnswersTrue)
<1> SUFFICES ASSUME AdoptFirst PROVE Spec => []AnswersTrue
    OBVIOUS
<1> QED BY AnswersTold, Invariant, SoleInvariant, OutcomeInvariant, PTL

\* Status never reports a petition whose command was started as undecided,
\* refused, timed out or given up, unless that command printed such a text.
THEOREM StatusIsTrue == AdoptFirst => (Spec => []StatusNeverDeniesARun)
<1> SUFFICES ASSUME AdoptFirst PROVE Spec => []StatusNeverDeniesARun
    OBVIOUS
<1> QED BY StatusTrue, Invariant, SoleInvariant, OutcomeInvariant, PTL

\* Nor does the list of recent petitions, unless that command ended with exit
\* -1 as well.
THEOREM RecentIsTrue == AdoptFirst => (Spec => []RecentTellsRuns)
<1> SUFFICES ASSUME AdoptFirst PROVE Spec => []RecentTellsRuns
    OBVIOUS
<1> QED BY RecentTrue, Invariant, SoleInvariant, OutcomeInvariant, PTL

------------------------------------------------------------------------------
\* The gate that ExecPetition implements.

\* A step in which nobody records an approval completes none: records and
\* confirmations are created without a verdict.
LEMMA ApprovedFrame ==
  ASSUME IInv, OutcomeInv, [Next]_vars,
         \A x \in Rid : verdict'[x] = "approve" => verdict[x] = "approve"
  PROVE  \A r \in Rid : Approved(r)' = Approved(r)
<1>i. TypeOK /\ Grows
      BY StepGrows DEF IInv
<1>1. ASSUME NEW x \in Rid, Verdict(x)' = "approve"
      PROVE  /\ step[x] # "none" /\ Verdict(x) = "approve"
             /\ step'[x] = step[x] /\ of'[x] = of[x] /\ opt'[x] = opt[x]
  <2>1. verdict[x] = "approve"
        BY <1>1 DEF Verdict
  <2> QED BY <1>i, <2>1 DEF OutcomeInv, Grows, Verdict
<1>2. ASSUME NEW r \in Rid, Approved(r)' PROVE Approved(r)
  <2>1. Verdict(r) = "approve" /\ step[r] = "initial" /\ opt'[r] = opt[r]
        BY <1>1, <1>2 DEF Approved
  <2>2. ASSUME opt[r].confirm PROVE \E k \in Confirmations(r) : Verdict(k) = "approve"
    <3>1. PICK k \in Rid : step'[k] = "confirm" /\ of'[k] = r /\ Verdict(k)' = "approve"
          BY <1>2, <2>1, <2>2 DEF Approved, Confirmations
    <3>2. k \in Confirmations(r) /\ Verdict(k) = "approve"
          BY <1>1, <3>1 DEF Confirmations
    <3> QED BY <3>2
  <2> QED BY <2>1, <2>2 DEF Approved
<1>3. ASSUME NEW r \in Rid, Approved(r) PROVE Approved(r)'
      BY <1>i, <1>3, ApprovedStays
<1>4. ASSUME NEW r \in Rid PROVE Approved(r) \in BOOLEAN /\ Approved(r)' \in BOOLEAN
      BY DEF Approved
<1> QED BY <1>2, <1>3, <1>4

\* An approval completes at most those of the petition it belongs to.
LEMMA ApprovalIsOwn ==
  ASSUME IInv, NEW y \in Rid, Submit(y, "approve"), NEW r \in Rid, r # Root(y)
  PROVE  Approved(r)' = Approved(r)
<1>i. TypeOK
      BY DEF IInv
<1>1. UNCHANGED <<step, of, opt>>
      BY DEF Submit, recordVars
<1>2. \A x \in Rid \ {y} : Verdict(x)' = Verdict(x)
      BY <1>i DEF Submit, Consume, Verdict, TypeOK
<1>3. Confirmations(r)' = Confirmations(r)
      BY <1>1 DEF Confirmations
<1>4. \A k \in Confirmations(r) : k # y
      BY DEF Confirmations, Root
<1>5. step[r] = "initial" => r # y
      BY DEF Root
<1> QED BY <1>1, <1>2, <1>3, <1>4, <1>5 DEF Approved, Confirmations

\* One answer at a time, and an earlier one only for a petition that is new.
LEMMA AnswerOwner ==
  ASSUME IInv, [Next]_vars, ~UNCHANGED answer
  PROVE  \E x \in Rid, v \in {"none", "pending", "allowed", "denied"} :
           /\ answer' = [answer EXCEPT ![x] = v]
           /\ v \in {"none", "pending"} => step[x] = "none"
<1>i. TypeOK
      BY DEF IInv
<1>1. ASSUME NEW x \in Rid, NEW o \in Requests, Request(x, o)
      PROVE  /\ step[x] = "none"
             /\ answer' = [answer EXCEPT ![x] = IF o.detach THEN "pending" ELSE "none"]
      BY <1>1 DEF Request
<1>2. ASSUME NEW q \in Proc, Waiter(q)
      PROVE  \E v \in {"allowed", "denied"} : answer' = [answer EXCEPT ![q[1]] = v]
  <2>1. Finish(q)
        BY <1>2 DEF Waiter, Suspend, Pin, AwaitVerdict, AwaitOtherwise, ConsumeOwn,
                    SaveOwn, Confirm, Execute, CommandEnds, SaveRan,
                    SaveParent, seenVars
  <2>2. answer' = [answer EXCEPT ![q[1]] =
                     IF ~Blocking(q) THEN @
                     ELSE IF dec[q] = "approve" THEN "allowed" ELSE "denied"]
        BY <2>1 DEF Finish, Origin
  <2>3. Blocking(q)
        BY <1>i, <2>2 DEF TypeOK
  <2> QED BY <2>2, <2>3
<1>3. ASSUME NEW x \in Rid PROVE ~AdoptOne(x)
      BY DEF AdoptOne, seenVars
<1>4. ~(Crash \/ Restart \/ AdoptScan)
      BY DEF Crash, Restart, AdoptScan, seenVars
<1>5. \A q \in Proc : q[1] \in Rid
      BY DEF Proc
<1> QED BY <1>i, <1>1, <1>2, <1>3, <1>4, <1>5, StepKinds DEF Quiet

\* Each step is one of the gate.
LEMMA GateStep ==
  ASSUME IInv, SoleInv, OutcomeInv, OutcomeInv', [Next]_vars
  PROVE  [Gate!Next]_(Gate!GateVars)
<1> DEFINE A == [r \in Rid |-> Approved(r)]
           C == [r \in Rid |-> answer[r] = "denied"]
<1>i. /\ TypeOK
      /\ \A r \in Rid : Approved(r) \in BOOLEAN /\ Approved(r)' \in BOOLEAN
      BY DEF IInv, Approved
<1>s. A' = A /\ C' = C /\ executed' = executed => [Gate!Next]_(Gate!GateVars)
      BY DEF Gate!GateVars
<1>n. ASSUME NEW x \in Rid, answer'[x] = "allowed" PROVE answer[x] # "denied"
  <2> SUFFICES ASSUME answer[x] = "denied" PROVE FALSE
      OBVIOUS
  <2>1. PICK q \in Proc : /\ Waiter(q) /\ pc[q] = "finish" /\ q[1] = x
                         /\ q[2] = "serve" /\ dec[q] = "approve"
        BY <1>n, AnswerChange
  <2>2. Over(x) /\ Busy(q) /\ Root(x) = x
        BY <2>1 DEF OutcomeInv, Over, Busy, Root
  <2> QED BY <2>1, <2>2 DEF Over, Stuck, Leaving
\* An approval is recorded.
<1>1. ASSUME NEW y \in Rid, Submit(y, "approve")
      PROVE  [Gate!Next]_(Gate!GateVars)
  <2>1. executed' = executed /\ C' = C
        BY <1>1 DEF Submit, seenVars
  <2>2. PICK q \in Rid : q = Root(y)
        BY <1>i, <1>1, RootHas DEF Submit, IInv
  <2>3. \A r \in Rid : r # q => Approved(r)' = Approved(r)
        BY <1>1, <2>2, ApprovalIsOwn
  <2>4. Approved(q) => Approved(q)'
        BY <1>i, ApprovedStays, StepGrows
  <2>5. CASE Approved(q)' = Approved(q)
    <3>1. A' = A
          BY <2>3, <2>5
    <3> QED BY <1>s, <2>1, <3>1
  <2>6. CASE ~Approved(q) /\ Approved(q)'
    <3>1. A' = [A EXCEPT ![q] = TRUE]
          BY <1>i, <2>3, <2>6
    <3>2. ~A[q]
          BY <2>6
    <3> QED BY <2>1, <3>1, <3>2 DEF Gate!Next, Gate!Approve
  <2> QED BY <1>i, <2>4, <2>5, <2>6
<1>2. ASSUME \A x \in Rid : verdict'[x] = "approve" => verdict[x] = "approve"
      PROVE  [Gate!Next]_(Gate!GateVars)
  <2>1. A' = A
        BY <1>2, ApprovedFrame
\* The command runs.
  <2>2. ASSUME NEW q \in Proc, Execute(q), pc[q] = "run",
               executed' = [executed EXCEPT ![Root(cur[q])] = @ + 1]
        PROVE  [Gate!Next]_(Gate!GateVars)
    <3>1. Busy(q) /\ StageOK(q)
          BY <2>2 DEF SoleInv, ProgressInv, ProgressOK, Busy
    <3>2. PICK r \in Rid : r = Root(cur[q]) /\ Root(q[1]) = r /\ Approved(r)
          BY <2>2, <3>1, Drives, RunIsApproved
    <3>3. executed[r] = 0
          BY <2>2, <3>1, <3>2 DEF StageOK, Runs
    <3>4. ~Over(r)
          BY <2>2, <3>1, <3>2, OverWaits
    <3>5. executed' = [executed EXCEPT ![r] = 1]
          BY <1>i, <2>2, <3>2, <3>3 DEF TypeOK
    <3>6. C' = C
          BY <2>2 DEF Execute
    <3>7. A[r] /\ ~C[r]
          BY <3>2, <3>4 DEF OutcomeInv
    <3> QED BY <2>1, <3>3, <3>5, <3>6, <3>7 DEF Gate!Next, Gate!Execute
\* The caller is refused.
  <2>3. ASSUME executed' = executed, ~UNCHANGED answer
        PROVE  [Gate!Next]_(Gate!GateVars)
    <3>1. PICK x \in Rid, v \in {"none", "pending", "allowed", "denied"} :
            /\ answer' = [answer EXCEPT ![x] = v]
            /\ v \in {"none", "pending"} => step[x] = "none"
          BY <2>3, AnswerOwner
    <3>2. answer'[x] = v
          BY <1>i, <3>1 DEF TypeOK
    <3>3. CASE v = "denied"
      <4>1. executed[x] = 0
            BY <2>3, <3>2, <3>3 DEF OutcomeInv, Over
      <4>2. C' = [C EXCEPT ![x] = TRUE]
            BY <1>i, <3>1, <3>3 DEF TypeOK
      <4> QED BY <2>1, <2>3, <4>1, <4>2 DEF Gate!Next, Gate!Refuse
    <3>4. CASE v # "denied"
      <4>1. answer[x] # "denied"
        <5>1. CASE v = "allowed"
              BY <1>n, <3>2, <5>1
        <5>2. CASE v # "allowed"
              BY <3>1, <3>4, <5>2 DEF OutcomeInv, Over
        <5> QED BY <5>1, <5>2
      <4>2. C' = C
            BY <1>i, <3>1, <3>4, <4>1 DEF TypeOK
      <4> QED BY <1>s, <2>1, <2>3, <4>2
    <3> QED BY <3>3, <3>4
  <2>4. CASE executed' = executed
    <3>1. CASE UNCHANGED answer
      <4>1. C' = C
            BY <3>1
      <4> QED BY <1>s, <2>1, <2>4, <4>1
    <3> QED BY <2>3, <2>4, <3>1
  <2>5. ASSUME NEW q \in Proc, Waiter(q) PROVE [Gate!Next]_(Gate!GateVars)
        BY <1>i, <2>2, <2>4, <2>5, ExecutedChange
  <2>6. ASSUME NEW x \in Rid, AdoptOne(x) \/ \E o \in Requests : Request(x, o)
        PROVE  executed' = executed
        BY <2>6 DEF AdoptOne, Request, seenVars
  <2>7. Crash \/ Restart \/ AdoptScan \/ Quiet => executed' = executed
        BY DEF Crash, Restart, AdoptScan, Quiet, seenVars
  <2> QED BY <1>i, <2>4, <2>5, <2>6, <2>7, StepKinds
<1> QED BY <1>1, <1>2, ApprovalChange

\* The petitions implement the approval gate: of whatever the daemon, the
\* operator, the clients and the clocks do, each step records an approval, runs
\* an approved command for the first time, refuses a petition whose command has
\* not run, or is none that the gate knows.
THEOREM GateImplemented == AdoptFirst => (Spec => ImplementsGate)
<1> SUFFICES ASSUME AdoptFirst PROVE Spec => ImplementsGate
    OBVIOUS
<1>1. Init => Gate!Init
  <2> SUFFICES ASSUME Init PROVE Gate!Init
      OBVIOUS
  <2>1. \A r \in Rid : Approved(r) = FALSE
        BY DEF Init, Approved
  <2>2. [r \in Rid |-> Approved(r)] = [r \in Rid |-> FALSE]
        BY <2>1
  <2>3. [r \in Rid |-> answer[r] = "denied"] = [r \in Rid |-> FALSE]
        BY DEF Init
  <2>4. executed = [r \in Rid |-> 0]
        BY DEF Init
  <2> QED BY <2>2, <2>3, <2>4 DEF Gate!Init
<1>2. IInv /\ SoleInv /\ OutcomeInv /\ OutcomeInv' /\ [Next]_vars
        => [Gate!Next]_(Gate!GateVars)
      BY GateStep
<1> QED BY <1>1, <1>2, Invariant, SoleInvariant, OutcomeInvariant, PTL
        DEF Spec, ImplementsGate, Gate!Spec

------------------------------------------------------------------------------
\* The group of a petition stays stopped while it is open: while somebody waits
\* for its verdict, or a restarted daemon would.

\* A confirmation asks for what its parent asked.
SameRequest == \A k \in Rid : step[k] = "confirm" => opt[k] = opt[of[k]]

\* Only handlers pin, and the pin of a group is in memory until it is on file.
PinOK(p) ==
  /\ pc[p] \in {"suspend", "pin"} => p[2] = "serve"
  /\ pc[p] \in {"idle", "suspend"} => ~holding[p]
  /\ pc[p] = "pin" => holding[p] /\ opt[p[1]].group # NoGroup
  /\ holding[p] => p[2] = "serve" /\ (pc[p] = "pin" \/ pinned[p[1]])

PinnedOK(x) ==
  pinned[x] => /\ step[x] # "none" /\ opt[x].group # NoGroup
               /\ step[x] = "confirm" => pinned[of[x]]

\* A Cancel request resumes the group of a petition after it has written that
\* petition's cancellation.
BegunInv ==
  \A c \in Canceller : cpc[c] \in {"consume", "result", "resume"} =>
                         cancel[Head(ctodo[c])] # "none"

BarrierInv == /\ SameRequest /\ BegunInv
              /\ \A p \in Proc : PinOK(p)
              /\ \A x \in Rid : PinnedOK(x)

Lone(r) == \A s \in Rid : step[s] = "initial" /\ opt[s].group = opt[r].group => s = r

Uncancelled(r) == \A x \in Rid : step[x] # "none" /\ Root(x) = r => cancel[x] = "none"

Open(r) ==
  \/ \E x \in Rid : step[x] # "none" /\ Root(x) = r /\ ~Unadoptable(x)
  \/ \E x \in orphans : Root(x) = r /\ verdict[x] # "torn"
  \/ \E p \in Proc : Busy(p) /\ Root(p[1]) = r /\ verdict[cur[p]] # "torn"

HeldBy(r) == pinned[r] \/ holding[<<r, "serve">>]

HeldInv ==
  \A r \in Rid :
    step[r] = "initial" /\ Lone(r) /\ Uncancelled(r) /\ Open(r) /\ HeldBy(r)
      => stopped[opt[r].group]

\* At first nothing is pinned and nobody cancels.
LEMMA BarrierInit == Init => BarrierInv /\ HeldInv
<1> SUFFICES ASSUME Init PROVE BarrierInv /\ HeldInv
    OBVIOUS
<1>1. SameRequest /\ BegunInv /\ HeldInv
      BY DEF Init, SameRequest, BegunInv, HeldInv
<1>2. ASSUME NEW p \in Proc PROVE PinOK(p)
      BY DEF Init, PinOK
<1>3. ASSUME NEW x \in Rid PROVE PinnedOK(x)
      BY DEF Init, PinnedOK
<1> QED BY <1>1, <1>2, <1>3 DEF BarrierInv

\* The record that confirm creates.
LEMMA ConfirmCreates ==
  ASSUME IInv, NEW q \in Proc, Confirm(q)
  PROVE  /\ Waiter(q) /\ Busy(q) /\ pc[q] = "confirm" /\ q[1] \in Rid
         /\ cur[q] = q[1] /\ step[q[1]] = "initial" /\ verdict[q[1]] = "approve"
         /\ holding' = holding
         /\ \E k \in Rid :
              /\ step[k] = "none" /\ k # q[1]
              /\ step' = [step EXCEPT ![k] = "confirm"]
              /\ of' = [of EXCEPT ![k] = q[1]]
              /\ opt' = [opt EXCEPT ![k] = opt[q[1]]]
              /\ pinned' = [pinned EXCEPT ![k] = pinned[q[1]]]
<1>1. /\ cur[q] = q[1] /\ step[q[1]] = "initial" /\ verdict[q[1]] = "approve"
      /\ Waiter(q) /\ Busy(q) /\ pc[q] = "confirm" /\ q[1] \in Rid
      BY DEF Confirm, IInv, WaiterInv, WaiterOK, Waiter, Busy, Proc
<1> QED BY <1>1 DEF Confirm, Origin

\* What was asked for never changes, and confirm copies it.
LEMMA SameRequestStep == IInv /\ SameRequest /\ [Next]_vars => SameRequest'
<1> SUFFICES ASSUME IInv, SameRequest, [Next]_vars, NEW l \in Rid,
                    step'[l] = "confirm"
             PROVE  opt'[l] = opt'[of'[l]]
    BY DEF SameRequest
<1>i. TypeOK /\ RecordInv /\ Grows
      BY StepGrows DEF IInv
<1>1. CASE step[l] = "confirm"
      BY <1>i, <1>1 DEF RecordInv, Grows, SameRequest
<1>2. CASE step[l] # "confirm"
  <2>1. step[l] = "none"
        BY <1>i, <1>2 DEF Grows
  <2>2. ASSUME NEW q \in Proc, Confirm(q) PROVE opt'[l] = opt'[of'[l]]
    <3>1. PICK k \in Rid :
            /\ step[k] = "none" /\ k # q[1]
            /\ step' = [step EXCEPT ![k] = "confirm"]
            /\ of' = [of EXCEPT ![k] = q[1]]
            /\ opt' = [opt EXCEPT ![k] = opt[q[1]]]
          BY <2>2, ConfirmCreates
    <3>2. l = k
          BY <1>i, <2>1, <3>1 DEF TypeOK
    <3> QED BY <1>i, <3>1, <3>2 DEF TypeOK, Proc
  <2>3. ASSUME NEW r \in Rid, NEW o \in Requests, Request(r, o) PROVE FALSE
        BY <1>i, <2>1, <2>3 DEF Request, TypeOK
  <2>4. ASSUME UNCHANGED step PROVE FALSE
        BY <2>1, <2>4
  <2>5. ASSUME NEW r \in Rid, AdoptOne(r) PROVE FALSE
        BY <2>4, <2>5 DEF AdoptOne, recordVars
  <2>6. ~(Crash \/ Restart \/ AdoptScan \/ Quiet)
        BY <2>4 DEF Crash, Restart, AdoptScan, Quiet, recordVars
  <2> QED BY <1>i, <2>2, <2>3, <2>4, <2>5, <2>6, StepKinds, RecordChange
<1> QED BY <1>1, <1>2

\* Who pins, and who takes hold.
LEMMA PinChange ==
  ASSUME TypeOK, NEW q \in Proc, Waiter(q)
  PROVE  \/ Confirm(q)
         \/ UNCHANGED pinned
         \/ pc[q] = "pin" /\ pinned' = [pinned EXCEPT ![q[1]] = TRUE]
<1>1. CASE Pin(q)
      BY <1>1 DEF Pin, Origin
<1> QED BY <1>1 DEF Waiter, Suspend, AwaitVerdict, AwaitOtherwise, ConsumeOwn, SaveOwn,
                    Execute, CommandEnds, SaveRan, SaveParent, Finish, recordVars

\* A pin on file has a record and a group; the pin of a confirmation, a parent
\* with one.
LEMMA PinnedStep ==
  ASSUME IInv, SoleInv, BarrierInv, [Next]_vars
  PROVE  \A x \in Rid : PinnedOK(x)' /\ (pinned[x] => pinned'[x])
<1>i. TypeOK /\ RecordInv /\ Grows /\ \A x \in Rid : PinnedOK(x)
      BY StepGrows DEF IInv, BarrierInv
<1>1. CASE UNCHANGED pinned
      BY <1>i, <1>1 DEF PinnedOK, Grows
<1>2. ASSUME NEW q \in Proc, Waiter(q)
      PROVE  \A x \in Rid : PinnedOK(x)' /\ (pinned[x] => pinned'[x])
  <2>1. CASE pc[q] = "pin" /\ pinned' = [pinned EXCEPT ![q[1]] = TRUE]
    <3>1. /\ q[1] \in Rid /\ step[q[1]] = "initial" /\ opt[q[1]].group # NoGroup
          BY <2>1 DEF SoleInv, ProgressInv, ProgressOK, RootedOK, BarrierInv, PinOK, Busy,
                      Proc
    <3>2. ASSUME NEW x \in Rid, x = q[1] PROVE PinnedOK(x)' /\ pinned'[x]
      <4>1. pinned'[x]
            BY <1>i, <2>1, <3>2 DEF TypeOK
      <4>2. step'[x] = "initial" /\ opt'[x].group # NoGroup
            BY <1>i, <3>1, <3>2 DEF Grows
      <4> QED BY <4>1, <4>2 DEF PinnedOK
    <3>3. ASSUME NEW x \in Rid, x # q[1]
          PROVE  PinnedOK(x)' /\ (pinned[x] => pinned'[x])
      <4>1. pinned'[x] = pinned[x]
            BY <1>i, <2>1, <3>3 DEF TypeOK
      <4>2. ASSUME NEW y \in Rid, pinned[y] PROVE pinned'[y]
            BY <1>i, <2>1, <4>2 DEF TypeOK
      <4>3. step[x] = "confirm" => of[x] \in Rid
            BY <1>i DEF RecordInv
      <4> QED BY <1>i, <4>1, <4>2, <4>3 DEF PinnedOK, Grows
    <3> QED BY <3>2, <3>3
  <2>2. CASE Confirm(q)
    <3>1. q[1] \in Rid /\ step[q[1]] = "initial"
          BY <2>2, ConfirmCreates
    <3>2. PICK k \in Rid :
            /\ step[k] = "none" /\ k # q[1]
            /\ step' = [step EXCEPT ![k] = "confirm"]
            /\ of' = [of EXCEPT ![k] = q[1]]
            /\ opt' = [opt EXCEPT ![k] = opt[q[1]]]
            /\ pinned' = [pinned EXCEPT ![k] = pinned[q[1]]]
          BY <2>2, ConfirmCreates
    <3>3. ASSUME NEW y \in Rid, pinned[y] PROVE y # k /\ pinned'[y]
          BY <1>i, <3>2, <3>3 DEF PinnedOK, TypeOK
    <3>4. ASSUME NEW x \in Rid, x # k PROVE PinnedOK(x)'
      <4>1. pinned'[x] = pinned[x]
            BY <1>i, <3>2, <3>4 DEF TypeOK
      <4>2. step[x] = "confirm" => of[x] \in Rid
            BY <1>i DEF RecordInv
      <4> QED BY <1>i, <3>3, <4>1, <4>2 DEF PinnedOK, Grows
    <3>5. PinnedOK(k)'
      <4>1. /\ step'[k] = "confirm" /\ of'[k] = q[1] /\ opt'[k] = opt[q[1]]
            /\ pinned'[k] = pinned[q[1]] /\ pinned'[q[1]] = pinned[q[1]]
            BY <1>i, <3>1, <3>2 DEF TypeOK
      <4> QED BY <1>i, <3>1, <4>1 DEF PinnedOK
    <3> QED BY <3>3, <3>4, <3>5
  <2> QED BY <1>i, <1>1, <1>2, <2>1, <2>2, PinChange
<1>3. ASSUME NEW r \in Rid, AdoptOne(r) \/ \E o \in Requests : Request(r, o)
      PROVE  UNCHANGED pinned
      BY <1>3 DEF AdoptOne, Request, recordVars
<1>4. Crash \/ Restart \/ AdoptScan \/ Quiet => UNCHANGED pinned
      BY DEF Crash, Restart, AdoptScan, Quiet, recordVars
<1> QED BY <1>i, <1>1, <1>2, <1>3, <1>4, StepKinds

\* A waiter that does not move keeps its pin.
LEMMA PinStays ==
  ASSUME IInv, SoleInv, BarrierInv, [Next]_vars, NEW p \in Proc,
         pc'[p] = pc[p], holding'[p] = holding[p]
  PROVE  PinOK(p)'
<1>i. PinOK(p) /\ Grows /\ p[1] \in Rid /\ (pinned[p[1]] => pinned'[p[1]])
      BY StepGrows, PinnedStep DEF BarrierInv, Proc, IInv
<1>1. Busy(p) => opt'[p[1]] = opt[p[1]]
      BY <1>i, Drives DEF Grows
<1> QED BY <1>i, <1>1 DEF PinOK, Busy

\* What its own steps do to a waiter's pin.
LEMMA PinMoves ==
  ASSUME IInv, SoleInv, BarrierInv, [Next]_vars, NEW q \in Proc, Waiter(q)
  PROVE  /\ PinOK(q)'
         /\ \A p \in Proc \ {q} : holding'[p] = holding[p]
<1>i. TypeOK /\ PinOK(q) /\ Grows /\ q[1] \in Rid /\ (pinned[q[1]] => pinned'[q[1]])
      BY StepGrows, PinnedStep DEF BarrierInv, Proc, IInv
<1>p. ASSUME NEW l, Goto(q, l) PROVE pc'[q] = l
      BY <1>i, <1>p DEF Goto, TypeOK
<1>1. CASE Suspend(q)
  <2>1. /\ pc[q] = "suspend" /\ opt' = opt /\ q[2] = "serve"
        BY <1>i, <1>1 DEF Suspend, PinOK, recordVars
  <2>2. CASE UNCHANGED holding
    <3>1. pc'[q] \in {"await", "pin"}
          BY <1>1, <1>p DEF Suspend
    <3>2. pc'[q] = "await"
          BY <1>1, <1>i, <1>p, <2>2 DEF Suspend, PinOK, TypeOK
    <3> QED BY <1>i, <2>1, <2>2, <3>2 DEF PinOK
  <2>3. CASE ~UNCHANGED holding
    <3>1. /\ opt[q[1]].group # NoGroup /\ pc'[q] = "pin"
          /\ holding' = [holding EXCEPT ![q] = TRUE]
          BY <1>1, <1>p, <2>3 DEF Suspend, Origin
    <3> QED BY <1>i, <2>1, <3>1 DEF PinOK, TypeOK
  <2> QED BY <2>2, <2>3
<1>2. CASE Pin(q)
  <2>1. /\ pc[q] = "pin" /\ pc'[q] = "await" /\ holding' = holding
        /\ pinned' = [pinned EXCEPT ![q[1]] = TRUE]
        BY <1>2, <1>p DEF Pin, Origin
  <2>2. pinned'[q[1]]
        BY <1>i, <2>1 DEF TypeOK
  <2> QED BY <1>i, <2>1, <2>2 DEF PinOK
<1>3. CASE Finish(q)
  <2>1. pc'[q] = "idle" /\ holding' = [holding EXCEPT ![q] = FALSE]
        BY <1>3, <1>p DEF Finish
  <2> QED BY <1>i, <2>1 DEF PinOK, TypeOK
<1>4. CASE ~Suspend(q) /\ ~Pin(q) /\ ~Finish(q)
  <2>1. holding' = holding /\ pc[q] \notin {"idle", "suspend", "pin"}
        BY <1>4 DEF Waiter, AwaitVerdict, AwaitOtherwise, ConsumeOwn, SaveOwn, Confirm,
                    Execute, CommandEnds, SaveRan, SaveParent
  <2>2. \A d \in Decision : Decided(q, d) \notin {"idle", "suspend", "pin"}
        BY DEF Decided
  <2>3. Verdict(cur[q]) # "none" => Verdict(cur[q]) \in Decision
        BY <1>i DEF Verdict, TypeOK
  <2>4. ASSUME NEW d \in Decision, Act(q, d) PROVE pc'[q] \notin {"idle", "suspend", "pin"}
        BY <1>p, <2>2, <2>4 DEF Act
  <2>5. pc'[q] \notin {"idle", "suspend", "pin"}
    <3>1. CASE AwaitVerdict(q)
          BY <1>p, <2>3, <2>4, <3>1 DEF AwaitVerdict
    <3>2. CASE AwaitOtherwise(q)
          BY <1>p, <2>4, <3>2 DEF AwaitOtherwise, Decision
    <3> QED BY <1>4, <1>p, <3>1, <3>2
            DEF Waiter, ConsumeOwn, SaveOwn, Confirm, Execute, CommandEnds,
            SaveRan, SaveParent,
                AfterResult
  <2> QED BY <1>i, <2>1, <2>5 DEF PinOK
<1> QED BY <1>1, <1>2, <1>3, <1>4

\* Together: every step keeps PinOK.
LEMMA PinStep ==
  ASSUME IInv, SoleInv, BarrierInv, [Next]_vars
  PROVE  \A p \in Proc : PinOK(p)'
<1> SUFFICES ASSUME NEW p \in Proc PROVE PinOK(p)'
    OBVIOUS
<1>i. TypeOK /\ PinOK(p)
      BY DEF IInv, BarrierInv
<1>1. CASE UNCHANGED <<pc, holding>>
      BY <1>1, PinStays
<1>2. ASSUME NEW q \in Proc, Waiter(q) PROVE PinOK(p)'
  <2>1. CASE p = q
        BY <1>2, <2>1, PinMoves
  <2>2. CASE p # q
    <3>1. pc'[p] = pc[p]
          BY <1>i, <1>2, <2>2, OthersStay
    <3>2. holding'[p] = holding[p]
          BY <1>2, <2>2, PinMoves
    <3> QED BY <3>1, <3>2, PinStays
  <2> QED BY <2>1, <2>2
<1>3. ASSUME NEW r \in Rid, NEW o \in Requests, Request(r, o) PROVE PinOK(p)'
  <2>1. /\ pc' = [pc EXCEPT ![<<r, "serve">>] = "suspend"] /\ holding' = holding
        /\ step[r] = "none"
        BY <1>3 DEF Request, Goto
  <2>2. CASE p # <<r, "serve">>
        BY <1>i, <2>1, <2>2, PinStays DEF TypeOK
  <2>3. CASE p = <<r, "serve">>
    <3>1. p[1] = r /\ p[2] = "serve" /\ pc'[p] = "suspend"
          BY <1>i, <2>1, <2>3 DEF TypeOK
    <3>2. pc[p] = "idle"
          BY <2>1, <3>1, Drives DEF Busy
    <3> QED BY <1>i, <2>1, <3>1, <3>2 DEF PinOK
  <2> QED BY <2>2, <2>3
<1>4. ASSUME NEW r \in Rid, AdoptOne(r) PROVE PinOK(p)'
  <2>1. holding' = holding
        BY <1>4 DEF AdoptOne
  <2>2. CASE pc'[p] = pc[p]
        BY <2>1, <2>2, PinStays
  <2>3. CASE pc'[p] # pc[p]
    <3>1. /\ ~Busy(<<r, "adopt">>)
          /\ pc' = [pc EXCEPT ![<<r, "adopt">>] = "await"]
          BY <1>4, <2>3, AdoptStarts DEF SoleInv
    <3>2. p = <<r, "adopt">>
          BY <1>i, <2>3, <3>1 DEF TypeOK
    <3>3. pc[p] = "idle" /\ pc'[p] = "await"
          BY <1>i, <3>1, <3>2 DEF Busy, TypeOK
    <3> QED BY <1>i, <2>1, <3>3 DEF PinOK
  <2> QED BY <2>2, <2>3
<1>5. CASE Crash
      BY <1>5 DEF Crash, PinOK
<1>6. CASE Restart \/ AdoptScan \/ Quiet
      BY <1>1, <1>6 DEF Restart, AdoptScan, Quiet, waiterVars
<1> QED BY <1>i, <1>2, <1>3, <1>4, <1>5, <1>6, StepKinds

\* Only a Cancel request past its first write goes on to resume.
LEMMA BegunStep == IInv /\ BegunInv /\ [Next]_vars => BegunInv'
<1> SUFFICES ASSUME IInv, BegunInv, [Next]_vars, NEW c \in Canceller,
                    cpc'[c] \in {"consume", "result", "resume"}
             PROVE  cancel'[Head(ctodo'[c])] # "none"
    BY DEF BegunInv
<1> DEFINE Going == {"consume", "result", "resume"}
<1>i. TypeOK /\ CancelInv
      BY DEF IInv
<1>h. ASSUME NEW b \in Canceller, cpc[b] # "idle" PROVE Head(ctodo[b]) \in Rid
      BY <1>i, <1>h DEF CancelInv, TypeOK
<1>1. ASSUME cpc[c] \in Going, ctodo'[c] = ctodo[c]
      PROVE  cancel'[Head(ctodo'[c])] # "none"
  <2>1. Head(ctodo[c]) \in Rid /\ cancel[Head(ctodo[c])] # "none"
        BY <1>1, <1>h DEF BegunInv
  <2> QED BY <1>i, <1>1, <2>1, CancelStays
<1>2. CASE UNCHANGED cancelVars
      BY <1>1, <1>2 DEF cancelVars
<1>3. ASSUME NEW b \in Canceller, CancelWrite(b)
      PROVE  cancel'[Head(ctodo'[c])] # "none"
  <2>1. ctodo' = ctodo
        BY <1>3 DEF CancelWrite, CancelGoto
  <2>2. CASE cpc[c] \in Going
        BY <1>1, <2>1, <2>2
  <2>3. CASE cpc[c] \notin Going
    <3>1. b = c /\ cpc[c] = "cancel" /\ WriteCancel(Head(ctodo[c]))
          BY <1>i, <1>3, <2>3 DEF CancelWrite, CancelGoto, TypeOK
    <3>2. Head(ctodo[c]) \in Rid
          BY <1>h, <3>1
    <3>3. \A v \in {"written"} \cup Torn : v # "none"
          BY DEF Torn
    <3> QED BY <1>i, <2>1, <3>1, <3>2, <3>3 DEF WriteCancel, TypeOK
  <2> QED BY <2>2, <2>3
<1>4. ASSUME NEW b \in Canceller, CancelResume(b)
      PROVE  cancel'[Head(ctodo'[c])] # "none"
  <2>1. b # c
        BY <1>i, <1>4 DEF CancelResume, TypeOK
  <2>2. cpc'[c] = cpc[c] /\ ctodo'[c] = ctodo[c]
        BY <1>i, <1>4, <2>1 DEF CancelResume, TypeOK
  <2> QED BY <1>1, <2>2
<1>5. ASSUME NEW b \in Canceller, NEW r \in Rid, CancelCheck(b, r)
      PROVE  cancel'[Head(ctodo'[c])] # "none"
  <2>1. CASE UNCHANGED cancelVars
        BY <1>2, <2>1
  <2>2. CASE ~UNCHANGED cancelVars
    <3>1. PICK w : /\ ctodo' = [ctodo EXCEPT ![b] = w]
                   /\ cpc' = [cpc EXCEPT ![b] = "cancel"]
          BY <1>5, <2>2 DEF CancelCheck
    <3>2. b # c
          BY <1>i, <3>1 DEF TypeOK
    <3>3. cpc'[c] = cpc[c] /\ ctodo'[c] = ctodo[c]
          BY <1>i, <3>1, <3>2 DEF TypeOK
    <3> QED BY <1>1, <3>3
  <2> QED BY <2>1, <2>2
<1>6. ASSUME NEW q \in Proc, Waiter(q) PROVE UNCHANGED cancelVars
      BY <1>6 DEF Waiter, Suspend, Pin, AwaitVerdict, AwaitOtherwise, ConsumeOwn,
                  SaveOwn, Confirm, Execute, CommandEnds, SaveRan, SaveParent,
                  Finish
<1>7. ASSUME NEW r \in Rid, NEW o \in Requests, Request(r, o)
      PROVE  UNCHANGED cancelVars
      BY <1>7 DEF Request
<1>8. ASSUME NEW r \in Rid, NEW d \in {"approve", "deny"}, Submit(r, d)
      PROVE  UNCHANGED cancelVars
      BY <1>8 DEF Submit
<1>9. ASSUME NEW r \in Rid, Disconnect(r) \/ Tick(r) \/ AdoptOne(r)
      PROVE  UNCHANGED cancelVars
      BY <1>9 DEF Disconnect, Tick, AdoptOne
<1>10. CASE Crash
      BY <1>10 DEF Crash
<1>11. Restart \/ AdoptScan \/ UNCHANGED vars => UNCHANGED cancelVars
      BY DEF Restart, AdoptScan, vars
<1> QED BY <1>2, <1>3, <1>4, <1>5, <1>6, <1>7, <1>8, <1>9, <1>10, <1>11 DEF Next

\* Every step keeps what the barrier relies on.
LEMMA BarrierStep ==
  ASSUME IInv, SoleInv, BarrierInv, [Next]_vars
  PROVE  BarrierInv'
<1>1. SameRequest' /\ BegunInv'
      BY SameRequestStep, BegunStep DEF BarrierInv
<1> QED BY <1>1, PinStep, PinnedStep DEF BarrierInv

------------------------------------------------------------------------------
\* A petition does not become open again.
LEMMA OpenShrinks ==
  ASSUME IInv, SoleInv, [Next]_vars, NEW r \in Rid, step[r] = "initial", Open(r)'
  PROVE  Open(r)
<1>i. /\ TypeOK /\ RecordInv /\ OrphanInv /\ Grows /\ DriverInv
      /\ orphans \subseteq Rid
      BY StepGrows DEF IInv, SoleInv, TypeOK
<1>c. ASSUME NEW q \in Proc, Confirm(q), q[1] = r PROVE Open(r)
  <2>1. Busy(q) /\ Root(q[1]) = r /\ verdict[cur[q]] = "approve"
        BY <1>c, ConfirmCreates DEF Root
  <2> QED BY <2>1 DEF Open
<1>1. ASSUME NEW x \in Rid, step'[x] # "none", Root(x)' = r, ~Unadoptable(x)'
      PROVE  Open(r)
  <2>1. CASE step[x] # "none"
    <3>1. Root(x) = r
          BY <1>i, <1>1, <2>1, RootStays
    <3>2. ~Unadoptable(x)
          BY <1>i, <1>1, UnadoptableStays
    <3> QED BY <2>1, <3>1, <3>2 DEF Open
  <2>2. CASE step[x] = "none"
        BY <1>c, <1>1, <2>2, NewRecord
  <2> QED BY <2>1, <2>2
<1>2. ASSUME NEW x \in orphans', Root(x)' = r, verdict'[x] # "torn"
      PROVE  Open(r)
  <2>1. CASE x \in orphans
    <3>1. Root(x) = r /\ verdict[x] # "torn"
          BY <1>i, <1>2, <2>1, RootStays DEF OrphanInv, Grows
    <3> QED BY <2>1, <3>1 DEF Open
  <2>2. CASE x \notin orphans
    <3>2. /\ x \in Rid /\ Listed(x) /\ UNCHANGED <<step, of, verdict>>
          BY <1>2, <2>2, OrphansGrow
    <3>3. Root(x) = r
          BY <1>2, <3>2 DEF Root
    <3>4. ~Unadoptable(x)
          BY <1>2, <3>2 DEF Listed, Verdict, Unexpired, Unadoptable
    <3> QED BY <3>2, <3>3, <3>4 DEF Listed, Open
  <2> QED BY <2>1, <2>2
<1>3. ASSUME NEW p \in Proc, Busy(p)', Root(p[1])' = r, verdict'[cur'[p]] # "torn"
      PROVE  Open(r)
  <2>1. ASSUME Busy(p), cur'[p] = cur[p] PROVE Open(r)
    <3>1. Root(p[1]) = r /\ verdict[cur[p]] # "torn"
          BY <1>i, <1>3, <2>1, Drives, RootStays DEF Grows
    <3> QED BY <2>1, <3>1 DEF Open
  <2>2. ASSUME NEW q \in Proc, Waiter(q) PROVE Open(r)
    <3>1. Busy(p)
          BY <1>i, <1>3, <2>2, WaiterFrame
    <3>2. CASE p = q /\ Confirm(q)
      <4>1. step[q[1]] = "initial" /\ q[1] \in Rid
            BY <3>2, ConfirmCreates
      <4>2. q[1] = r
            BY <1>i, <1>3, <3>2, <4>1, RootStays DEF Root
      <4> QED BY <1>c, <3>2, <4>2
    <3>3. CASE p = q /\ ~Confirm(q)
      <4>1. ~Finish(q)
            BY <1>i, <1>3, <3>3 DEF Finish, Goto, Busy, TypeOK
      <4>2. cur' = cur
            BY <2>2, <3>3, <4>1
            DEF Waiter, Suspend, Pin, AwaitVerdict, AwaitOtherwise, ConsumeOwn, SaveOwn,
                Execute, CommandEnds, SaveRan, SaveParent
      <4> QED BY <2>1, <3>1, <4>2
    <3>4. CASE p # q
          BY <1>i, <2>1, <2>2, <3>1, <3>4, OthersStay
    <3> QED BY <3>2, <3>3, <3>4
  <2>3. ASSUME NEW x \in Rid, NEW o \in Requests, Request(x, o) PROVE Open(r)
    <3>1. /\ step[x] = "none" /\ step'[x] = "initial" /\ cur' = cur
          /\ pc' = [pc EXCEPT ![<<x, "serve">>] = "suspend"]
          BY <1>i, <2>3 DEF Request, Goto, TypeOK
    <3>2. p # <<x, "serve">>
      <4> SUFFICES ASSUME p = <<x, "serve">> PROVE FALSE
          OBVIOUS
      <4>1. p[1] = x
            OBVIOUS
      <4>2. x = r
            BY <1>3, <3>1, <4>1 DEF Root
      <4> QED BY <3>1, <4>2
    <3>3. Busy(p)
          BY <1>i, <1>3, <3>1, <3>2 DEF Busy, TypeOK
    <3> QED BY <2>1, <3>1, <3>3
  <2>4. ASSUME NEW x \in Rid, AdoptOne(x) PROVE Open(r)
    <3>1. UNCHANGED <<cur, verdict, step, of>> /\ x \in orphans
          BY <2>4 DEF AdoptOne, recordVars, decisionVars
    <3>2. CASE Busy(p)
          BY <2>1, <3>1, <3>2
    <3>3. CASE ~Busy(p)
      <4>1. /\ cur[<<x, "adopt">>] = x
            /\ pc' = [pc EXCEPT ![<<x, "adopt">>] = "await"]
            BY <1>i, <1>3, <2>4, <3>3, AdoptStarts DEF Busy
      <4>2. p = <<x, "adopt">>
            BY <1>i, <1>3, <3>3, <4>1 DEF Busy, TypeOK
      <4>3. p[1] = x /\ cur[p] = x
            BY <4>1, <4>2
      <4>4. Root(x) = r /\ verdict[x] # "torn"
            BY <1>3, <3>1, <4>3 DEF Root
      <4> QED BY <3>1, <4>4 DEF Open
    <3> QED BY <3>2, <3>3
  <2>5. CASE Crash
        BY <1>3, <2>5 DEF Crash, Busy
  <2>6. CASE Restart \/ AdoptScan \/ Quiet
        BY <1>3, <2>1, <2>6 DEF Restart, AdoptScan, Quiet, waiterVars, Busy
  <2> QED BY <1>i, <2>2, <2>3, <2>4, <2>5, <2>6, StepKinds
<1> QED BY <1>1, <1>2, <1>3 DEF Open

\* Nor does it become alone in its group again, or uncancelled.
LEMMA GuardsStay ==
  ASSUME IInv, [Next]_vars, NEW r \in Rid, step[r] = "initial"
  PROVE  /\ Lone(r)' => Lone(r)
         /\ Uncancelled(r)' => Uncancelled(r)
<1>i. TypeOK /\ Grows
      BY StepGrows DEF IInv
<1>1. Lone(r)' => Lone(r)
      BY <1>i DEF Lone, Grows
<1>2. ASSUME Uncancelled(r)', NEW x \in Rid, step[x] # "none", Root(x) = r
      PROVE  cancel[x] = "none"
  <2>1. step'[x] # "none" /\ Root(x)' = r
        BY <1>i, <1>2, RootStays
  <2>2. cancel'[x] = "none"
        BY <1>2, <2>1 DEF Uncancelled
  <2> QED BY <1>i, <2>2, CancelStays
<1> QED BY <1>1, <1>2 DEF Uncancelled

\* Whoever takes hold of a group has just stopped it.
LEMMA HeldByStep ==
  ASSUME IInv, SoleInv, BarrierInv, [Next]_vars, NEW r \in Rid, step[r] # "none",
         HeldBy(r)'
  PROVE  HeldBy(r) \/ stopped'[opt[r].group]
<1>i. /\ TypeOK /\ Grows /\ <<r, "serve">> \in Proc
      /\ \A p \in Proc : PinOK(p)
      /\ \A x \in Rid : PinnedOK(x)
      BY StepGrows DEF IInv, BarrierInv, Proc
<1>1. CASE UNCHANGED <<pinned, holding>>
      BY <1>1 DEF HeldBy
<1>2. ASSUME NEW q \in Proc, Waiter(q)
      PROVE  HeldBy(r) \/ stopped'[opt[r].group]
  <2>1. CASE Suspend(q) /\ q = <<r, "serve">>
    <3>1. Busy(q) /\ q[1] = r /\ q[2] = "serve"
          BY <2>1 DEF Suspend, Busy
    <3>3. \/ opt[r].group # NoGroup /\ stopped' = [stopped EXCEPT ![opt[r].group] = TRUE]
          \/ UNCHANGED holding
          BY <2>1, <3>1 DEF Suspend, Origin
    <3>4. UNCHANGED pinned
          BY <2>1 DEF Suspend, recordVars
    <3>5. opt[r].group # NoGroup => opt[r].group \in Group
          BY <1>i DEF TypeOK, RequestType
    <3> QED BY <1>i, <1>1, <3>3, <3>4, <3>5 DEF TypeOK
  <2>2. CASE ~(Suspend(q) /\ q = <<r, "serve">>)
    <3>1. holding'[<<r, "serve">>] => holding[<<r, "serve">>]
      <4>1. CASE q # <<r, "serve">>
            BY <1>i, <1>2, <4>1, PinMoves
      <4>2. CASE q = <<r, "serve">> /\ Finish(q)
            BY <1>i, <4>2 DEF Finish, TypeOK
      <4>3. CASE q = <<r, "serve">> /\ ~Finish(q)
            BY <1>2, <2>2, <4>3
            DEF Waiter, Pin, AwaitVerdict, AwaitOtherwise, ConsumeOwn, SaveOwn, Confirm,
                Execute, CommandEnds, SaveRan, SaveParent
      <4> QED BY <4>1, <4>2, <4>3
    <3>2. CASE UNCHANGED pinned
          BY <3>1, <3>2 DEF HeldBy
    <3>3. CASE pc[q] = "pin" /\ pinned' = [pinned EXCEPT ![q[1]] = TRUE]
      <4>1. CASE q[1] = r
        <5>1. q = <<r, "serve">> /\ holding[q]
              BY <1>i, <3>3, <4>1 DEF PinOK, Proc
        <5> QED BY <5>1 DEF HeldBy
      <4>2. CASE q[1] # r
        <5>1. pinned'[r] = pinned[r]
              BY <1>i, <3>3, <4>2 DEF TypeOK
        <5> QED BY <3>1, <5>1 DEF HeldBy
      <4> QED BY <4>1, <4>2
    <3>4. CASE Confirm(q)
      <4>1. PICK k \in Rid : /\ step[k] = "none"
                             /\ step' = [step EXCEPT ![k] = "confirm"]
                             /\ pinned' = [pinned EXCEPT ![k] = pinned[q[1]]]
            BY <3>4, ConfirmCreates
      <4>2. pinned'[r] = pinned[r]
            BY <1>i, <4>1 DEF TypeOK
      <4> QED BY <3>1, <4>2 DEF HeldBy
    <3> QED BY <1>i, <1>2, <3>2, <3>3, <3>4, PinChange
  <2> QED BY <2>1, <2>2
<1>3. ASSUME NEW x \in Rid, AdoptOne(x) \/ \E o \in Requests : Request(x, o)
      PROVE  UNCHANGED <<pinned, holding>>
      BY <1>3 DEF AdoptOne, Request, recordVars
<1>4. CASE Crash
      BY <1>i, <1>4 DEF Crash, recordVars, HeldBy
<1>5. CASE Restart \/ AdoptScan \/ Quiet
      BY <1>1, <1>5 DEF Restart, AdoptScan, Quiet, recordVars, waiterVars
<1> QED BY <1>i, <1>1, <1>2, <1>3, <1>4, <1>5, StepKinds

\* A petition that its waiter has finished with is not open.
LEMMA FinishCloses ==
  ASSUME IInv, SoleInv, [Next]_vars, NEW q \in Proc, Finish(q), NEW r \in Rid,
         Root(q[1]) = r
  PROVE  ~Open(r)'
<1>i. TypeOK /\ DriverInv /\ Busy(q) /\ StageOK(q) /\ pc[q] = "finish"
      BY DEF IInv, SoleInv, ProgressInv, ProgressOK, Finish, Busy
<1>1. /\ UNCHANGED <<step, of, verdict, cancel, clock, orphans>>
      /\ pc' = [pc EXCEPT ![q] = "idle"]
      BY DEF Finish, Goto, recordVars, decisionVars, adoptVars
<1>2. \A x \in Rid : step[x] # "none" /\ Root(x) = r => Unadoptable(x)
      BY <1>i, LeavesNothing DEF StageOK
<1>3. \A x \in Rid : Root(x)' = Root(x) /\ Unadoptable(x)' = Unadoptable(x)
      BY <1>1 DEF Root, Unadoptable, CancelInfo
<1>4. \A x \in orphans : Root(x) # r /\ x \in Rid
      BY <1>i DEF DriverInv, TypeOK
<1>5. ASSUME NEW p \in Proc, Busy(p)' PROVE Root(p[1])' # r
  <2>1. p # q /\ Busy(p) /\ p[1] \in Rid
        BY <1>i, <1>1, <1>5 DEF Busy, Proc, TypeOK
  <2> QED BY <1>i, <1>3, <2>1 DEF DriverInv
<1> QED BY <1>1, <1>2, <1>3, <1>4, <1>5 DEF Open

\* A group is only resumed for a petition of its own, once that is cancelled or
\* closed.
LEMMA StoppedStays ==
  ASSUME IInv, SoleInv, BarrierInv, [Next]_vars, NEW r \in Rid, step[r] = "initial",
         Lone(r), Uncancelled(r), Open(r)', stopped[opt[r].group],
         opt[r].group \in Group
  PROVE  stopped'[opt[r].group]
<1>i. /\ TypeOK /\ RecordInv /\ SameRequest /\ CancelInv /\ BegunInv
      /\ \A p \in Proc : PinOK(p)
      /\ \A x \in Rid : PinnedOK(x)
      BY DEF IInv, BarrierInv
<1> DEFINE g == opt[r].group
<1>s. ASSUME NEW x \in Rid, step[x] # "none", opt[x].group = g PROVE Root(x) = r
  <2>1. Root(x) \in Rid /\ step[Root(x)] = "initial" /\ opt[Root(x)] = opt[x]
        BY <1>i, <1>s, RootHas DEF SameRequest, Root
  <2> QED BY <1>s, <2>1 DEF Lone
<1>1. CASE UNCHANGED stopped
      BY <1>1
<1>2. ASSUME NEW c \in Canceller, CancelResume(c) PROVE stopped'[g]
  <2>1. PICK x \in Rid : x = Head(ctodo[c]) /\ cancel[x] # "none"
        BY <1>i, <1>2 DEF CancelResume, CancelInv, BegunInv, TypeOK
  <2>2. ~(pinned[x] /\ opt[x].group = g)
    <3> SUFFICES ASSUME pinned[x], opt[x].group = g PROVE FALSE
        OBVIOUS
    <3>1. step[x] # "none"
          BY <1>i DEF PinnedOK
    <3> QED BY <1>s, <2>1, <3>1 DEF Uncancelled
  <2>3. stopped' = [h \in Group |-> stopped[h] /\ ~(pinned[x] /\ opt[x].group = h)]
        BY <1>2, <2>1 DEF CancelResume, Resume
  <2> QED BY <2>2, <2>3
<1>3. ASSUME NEW q \in Proc, Waiter(q) PROVE stopped'[g]
  <2>1. CASE Finish(q)
    <3>1. q[1] \in Rid /\ step[q[1]] # "none"
          BY <2>1, Drives DEF Finish, Busy
    <3>2. Root(q[1]) # r
          BY <2>1, FinishCloses
    <3>3. opt[q[1]].group # g
          BY <1>s, <3>1, <3>2
    <3>4. stopped' = [h \in Group |-> stopped[h] /\ ~(Held(q) /\ opt[q[1]].group = h)]
          BY <2>1 DEF Finish, Resume, Origin
    <3> QED BY <3>3, <3>4
  <2>2. CASE Suspend(q)
    <3>1. \/ stopped' = stopped
          \/ stopped' = [stopped EXCEPT ![opt[Origin(q)].group] = TRUE]
          BY <2>2 DEF Suspend
    <3>2. stopped \in [Group -> BOOLEAN] /\ stopped[g] /\ g \in Group
          BY <1>i DEF TypeOK
    <3> HIDE DEF g
    <3> QED BY <3>1, <3>2
  <2>3. CASE ~Finish(q) /\ ~Suspend(q)
        BY <1>1, <1>3, <2>3
        DEF Waiter, Pin, AwaitVerdict, AwaitOtherwise, ConsumeOwn, SaveOwn, Confirm,
            Execute, CommandEnds, SaveRan, SaveParent, worldVars
  <2> QED BY <2>1, <2>2, <2>3
<1>4. ASSUME NEW x \in Rid, AdoptOne(x) \/ \E o \in Requests : Request(x, o)
      PROVE  UNCHANGED stopped
      BY <1>4 DEF AdoptOne, Request, worldVars
<1>5. Crash \/ Restart \/ AdoptScan => UNCHANGED stopped
      BY DEF Crash, Restart, AdoptScan, worldVars
<1> QED BY <1>i, <1>1, <1>2, <1>3, <1>4, <1>5, StepKinds DEF Quiet

\* An open petition whose group is held has it stopped, after every step.
LEMMA HeldStep ==
  ASSUME IInv, SoleInv, BarrierInv, HeldInv, [Next]_vars
  PROVE  HeldInv'
<1> SUFFICES ASSUME NEW r \in Rid, step'[r] = "initial", Lone(r)', Uncancelled(r)',
                    Open(r)', HeldBy(r)'
             PROVE  stopped'[opt'[r].group]
    BY DEF HeldInv
<1>i. /\ TypeOK /\ Grows /\ \A p \in Proc : PinOK(p)
      /\ \A x \in Rid : PinnedOK(x) /\ <<r, "serve">> \in Proc
      BY StepGrows DEF IInv, BarrierInv, Proc
<1>1. CASE step[r] = "none"
  <2>1. ~pinned[r] /\ ~holding[<<r, "serve">>]
        BY <1>i, <1>1, Drives DEF PinnedOK, PinOK, Busy
  <2>2. ASSUME NEW q \in Proc, Waiter(q) PROVE FALSE
    <3>1. Confirm(q)
          BY <1>1, <2>2, RecordChange
    <3>2. PICK k \in Rid : step' = [step EXCEPT ![k] = "confirm"]
          BY <3>1, ConfirmCreates
    <3> QED BY <1>i, <1>1, <3>2 DEF TypeOK
  <2>3. UNCHANGED <<pinned, holding>> => FALSE
        BY <2>1 DEF HeldBy
  <2>4. ASSUME NEW x \in Rid, AdoptOne(x) \/ \E o \in Requests : Request(x, o)
        PROVE  UNCHANGED <<pinned, holding>>
        BY <2>4 DEF AdoptOne, Request, recordVars
  <2>5. ~Crash
        BY <1>1 DEF Crash, recordVars
  <2>6. Restart \/ AdoptScan \/ Quiet => UNCHANGED <<pinned, holding>>
        BY DEF Restart, AdoptScan, Quiet, recordVars, waiterVars
  <2> QED BY <1>i, <2>2, <2>3, <2>4, <2>5, <2>6, StepKinds
<1>2. CASE step[r] # "none"
  <2>1. step[r] = "initial" /\ opt'[r] = opt[r]
        BY <1>i, <1>2 DEF Grows
  <2>2. Lone(r) /\ Uncancelled(r) /\ Open(r)
        BY <2>1, GuardsStay, OpenShrinks
  <2>3. CASE HeldBy(r)
    <3>1. stopped[opt[r].group]
          BY <2>1, <2>2, <2>3 DEF HeldInv
    <3>2. opt[r].group # NoGroup
          BY <1>i, <2>3, Drives DEF HeldBy, PinOK, PinnedOK, Busy
    <3>3. opt[r].group \in Group
          BY <1>i, <3>2 DEF TypeOK, RequestType
    <3> QED BY <2>1, <2>2, <3>1, <3>3, StoppedStays
  <2>4. CASE ~HeldBy(r)
        BY <1>2, <2>1, <2>4, HeldByStep
  <2> QED BY <2>3, <2>4
<1> QED BY <1>1, <1>2

\* What the invariant says of a waiter that waits for the operator.
LEMMA HeldIsStopped == IInv /\ SoleInv /\ BarrierInv /\ HeldInv => HeldWhileReviewed
<1> SUFFICES ASSUME IInv, SoleInv, BarrierInv, HeldInv, NEW p \in Proc,
                    pc[p] \in {"await", "poll"}, Held(p), Alone(p),
                    cancel[cur[p]] = "none", cancel[Root(cur[p])] = "none",
                    verdict[cur[p]] # "torn"
             PROVE  stopped[opt[p[1]].group]
    BY DEF HeldWhileReviewed, Origin
<1> DEFINE r == Root(p[1])
<1>1. Busy(p) /\ RootedOK(p) /\ PinOK(p) /\ TypeOK /\ SameRequest /\ ChildInv
      BY DEF Busy, SoleInv, ProgressInv, ProgressOK, BarrierInv, IInv
<1>2. /\ p[1] \in Rid /\ step[p[1]] # "none" /\ cur[p] \in Rid /\ step[cur[p]] # "none"
      /\ Root(cur[p]) = r /\ r \in Rid /\ step[r] = "initial"
      /\ cur[p] # p[1] => step[cur[p]] = "confirm"
      BY <1>1, Drives
<1>3. opt[p[1]] = opt[r]
      BY <1>1, <1>2 DEF SameRequest, Root
<1>4. Lone(r)
      BY <1>2, <1>3 DEF Alone, Origin, Lone
<1>5. Open(r)
      BY <1>1, <1>2 DEF Open
<1>6. HeldBy(r)
  <2>1. CASE p[2] = "adopt"
        BY <1>2, <2>1 DEF Held, Adopted, Origin, HeldBy, BarrierInv, PinnedOK, Root
  <2>2. CASE p[2] # "adopt"
    <3>1. p = <<p[1], "serve">> /\ holding[p] /\ step[p[1]] = "initial"
          BY <1>1, <2>2 DEF Held, Adopted, Proc, RootedOK
    <3> QED BY <3>1 DEF HeldBy, Root
  <2> QED BY <2>1, <2>2
<1>7. ASSUME NEW x \in Rid, step[x] # "none", Root(x) = r PROVE cancel[x] = "none"
  <2>1. CASE step[cur[p]] = "confirm"
        BY <1>1, <1>2, <1>7, <2>1 DEF Root, ChildInv, TypeOK
  <2>2. CASE step[cur[p]] # "confirm"
    <3>1. cur[p] = r /\ p[1] = r
          BY <1>2, <2>2 DEF Root
    <3>2. Confirmations(r) = {}
          BY <1>1, <1>2, <3>1 DEF RootedOK
    <3>3. x = r
          BY <1>7, <3>2 DEF Root, Confirmations
    <3> QED BY <3>1, <3>3
  <2> QED BY <2>1, <2>2
<1> QED BY <1>2, <1>3, <1>4, <1>5, <1>6, <1>7 DEF HeldInv, Uncancelled

\* The group of a requester stays stopped while the operator has not answered.
THEOREM GroupStaysHeld == AdoptFirst => (Spec => []HeldWhileReviewed)
<1> SUFFICES ASSUME AdoptFirst PROVE Spec => []HeldWhileReviewed
    OBVIOUS
<1>1. IInv /\ SoleInv /\ BarrierInv /\ HeldInv /\ [Next]_vars
        => BarrierInv' /\ HeldInv'
      BY BarrierStep, HeldStep
<1> QED BY <1>1, BarrierInit, HeldIsStopped, Invariant, SoleInvariant, PTL DEF Spec

------------------------------------------------------------------------------
\* What else follows from these.

\* A daemon that lists the orphans first adopts nothing else: nobody serves a
\* petition, or its parent or confirmation, that an adopted waiter has.
THEOREM AdoptsOrphansOnly == AdoptFirst => (Spec => []AdoptsOnlyOrphans)
<1> SUFFICES ASSUME AdoptFirst PROVE Spec => []AdoptsOnlyOrphans
    OBVIOUS
<1>1. SoleInv => AdoptsOnlyOrphans
  <2> SUFFICES ASSUME DriverInv, NEW r \in Rid, NEW s \in Rid,
                      pc[<<r, "adopt">>] # "idle", pc[<<s, "serve">>] # "idle",
                      Root(r) = Root(s)
               PROVE  FALSE
      BY DEF SoleInv, AdoptsOnlyOrphans
  <2> DEFINE p == <<r, "adopt">>
             q == <<s, "serve">>
  <2>1. /\ p \in Proc /\ q \in Proc /\ p[1] = r /\ q[1] = s
        /\ p[2] = "adopt" /\ q[2] = "serve"
        BY DEF Proc
  <2>2. Busy(p) /\ Busy(q)
        BY DEF Busy
  <2> HIDE DEF p, q
  <2>3. p = q
        BY <2>1, <2>2 DEF DriverInv
  <2> QED BY <2>1, <2>3
<1> QED BY <1>1, SoleInvariant, PTL

\* The operator is asked to confirm a petition once: Store.FindConfirmation
\* has one record to find, and only where the policy asks for it.
THEOREM ConfirmedOnce == AdoptFirst => (Spec => []ChildInv)
<1> SUFFICES ASSUME AdoptFirst PROVE Spec => []ChildInv
    OBVIOUS
<1>1. SoleInv => ChildInv
      BY DEF SoleInv
<1> QED BY <1>1, SoleInvariant, PTL

\* The first verdict wins, and the first cancellation; no later Submit, Cancel,
\* timeout or restart changes or removes one, or the request it is about.
DecisionsFinal ==
  \A r \in Rid :
    /\ verdict[r] # "none" => verdict'[r] = verdict[r]
    /\ cancel[r] # "none" => cancel'[r] = cancel[r]
    /\ step[r] # "none" => step'[r] = step[r] /\ of'[r] = of[r] /\ opt'[r] = opt[r]

THEOREM DecisionsAreFinal == Spec => [][DecisionsFinal]_vars
<1>1. TypeOK /\ [Next]_vars => [DecisionsFinal]_vars
      BY StepGrows, CancelStays DEF Grows, DecisionsFinal
<1> QED BY <1>1, TypeCorrect, PTL DEF Spec

------------------------------------------------------------------------------
\* Every wait ends.

\* How many steps of a waiter are ahead of it at most, but for the rounds of
\* await: those of a second wait too while it is in the first.
Stage(l) == CASE l = "idle" -> 0
              [] l = "finish" -> 1
              [] l = "parent" -> 2
              [] l \in {"result", "ran"} -> 3
              [] l \in {"consume", "running"} -> 4
              [] l = "run" -> 5
              [] l = "confirm" -> 6
              [] l = "poll" -> 7
              [] l = "await" -> 8
              [] l = "pin" -> 9
              [] l = "suspend" -> 10

Ahead(p) == Stage(pc[p]) + (IF Busy(p) /\ cur[p] = p[1] THEN 11 ELSE 0)

\* A round of await that ends where it began: not after the deadline.
Round(p) == /\ pc[p] = "poll" /\ pc'[p] = "await" /\ cur'[p] = cur[p]
            /\ ~DeadlinePassed(p)

\* The variant: nobody goes back but in a round of await.
WaitersAdvance ==
  \A p \in Proc :
    /\ Waiter(p) => Ahead(p)' < Ahead(p) \/ Round(p)
    /\ Busy(p) => Ahead(p)' <= Ahead(p) \/ Round(p)

\* The stages, as numbers.
LEMMA StageIs == /\ \A l \in WaiterPC : Stage(l) \in 0..10
                 /\ Stage("idle") = 0 /\ Stage("finish") = 1 /\ Stage("parent") = 2
                 /\ Stage("result") = 3 /\ Stage("ran") = 3
                 /\ Stage("consume") = 4 /\ Stage("running") = 4
                 /\ Stage("run") = 5 /\ Stage("confirm") = 6
                 /\ Stage("poll") = 7 /\ Stage("await") = 8
                 /\ Stage("pin") = 9 /\ Stage("suspend") = 10
<1>1. /\ Stage("idle") = 0 /\ Stage("finish") = 1 /\ Stage("parent") = 2
      /\ Stage("result") = 3 /\ Stage("ran") = 3
      /\ Stage("consume") = 4 /\ Stage("running") = 4
      BY DEF Stage
<1>2. /\ Stage("run") = 5 /\ Stage("confirm") = 6
      /\ Stage("poll") = 7 /\ Stage("await") = 8
      /\ Stage("pin") = 9 /\ Stage("suspend") = 10
      BY DEF Stage
<1>3. \A l \in WaiterPC : Stage(l) \in 0..10
      BY <1>1, <1>2 DEF WaiterPC
<1> QED BY <1>1, <1>2, <1>3

\* A waiter that goes on with the same petition goes on to a lower stage.
LEMMA StageFalls ==
  ASSUME TypeOK, NEW p \in Proc, Waiter(p), ~Confirm(p), ~Finish(p)
  PROVE  /\ cur' = cur /\ pc[p] \in WaiterPC
         /\ pc[p] # "idle" /\ pc'[p] \in WaiterPC \ {"idle"}
         /\ Stage(pc'[p]) < Stage(pc[p]) \/ Round(p)
<1>p. ASSUME NEW l, Goto(p, l) PROVE pc'[p] = l
      BY <1>p DEF Goto, TypeOK
<1>0. pc[p] \in WaiterPC
      BY DEF TypeOK
<1>a. ASSUME NEW d \in Decision, Act(p, d)
      PROVE  pc'[p] \in {"confirm", "run", "consume", "result"}
      BY <1>p, <1>a DEF Act, Decided
<1>s. \A l \in {"confirm", "run", "consume", "result"} :
         /\ l \in WaiterPC \ {"idle"}
         /\ Stage(l) < 7
      BY StageIs DEF WaiterPC
<1>1. CASE Suspend(p)
  <2>1. pc[p] = "suspend" /\ pc'[p] \in {"pin", "await"} /\ cur' = cur
        BY <1>1, <1>p DEF Suspend
  <2> QED BY <2>1, <1>0, StageIs DEF WaiterPC
<1>2. CASE Pin(p)
  <2>1. pc[p] = "pin" /\ pc'[p] = "await" /\ cur' = cur
        BY <1>2, <1>p DEF Pin
  <2> QED BY <2>1, <1>0, StageIs DEF WaiterPC
<1>3. CASE AwaitVerdict(p)
  <2>1. pc[p] = "await" /\ cur' = cur
        BY <1>3 DEF AwaitVerdict
  <2>2. Verdict(cur[p]) # "none" => Verdict(cur[p]) \in Decision
        BY DEF Verdict, TypeOK
  <2>3. pc'[p] \in {"poll", "confirm", "run", "consume", "result"}
        BY <1>3, <1>p, <1>a, <2>2 DEF AwaitVerdict
  <2> QED BY <2>1, <2>3, <1>0, <1>s, StageIs DEF WaiterPC
<1>4. CASE AwaitOtherwise(p)
  <2>1. pc[p] = "poll" /\ cur' = cur
        BY <1>4 DEF AwaitOtherwise
  <2>2. CASE \E d \in Decision : Act(p, d)
    <3>1. pc'[p] \in {"confirm", "run", "consume", "result"}
          BY <1>a, <2>2
    <3> QED BY <2>1, <3>1, <1>0, <1>s, StageIs
  <2>3. CASE ~\E d \in Decision : Act(p, d)
    <3>1. Goto(p, "await") /\ ~DeadlinePassed(p)
          BY <1>4, <2>3 DEF AwaitOtherwise, Decision
    <3>2. pc'[p] = "await"
          BY <1>p, <3>1
    <3> QED BY <1>0, <2>1, <3>1, <3>2 DEF Round, WaiterPC
  <2> QED BY <2>2, <2>3
<1>5. CASE ConsumeOwn(p)
  <2>1. pc[p] = "consume" /\ pc'[p] = "result" /\ cur' = cur
        BY <1>5, <1>p DEF ConsumeOwn
  <2> QED BY <2>1, <1>0, StageIs DEF WaiterPC
<1>6. CASE SaveOwn(p) \/ SaveRan(p)
  <2>1. pc[p] \in {"result", "ran"} /\ pc'[p] \in {"parent", "finish"} /\ cur' = cur
        BY <1>6, <1>p DEF SaveOwn, SaveRan, AfterResult
  <2> QED BY <2>1, <1>0, StageIs DEF WaiterPC
<1>7. CASE Execute(p) \/ CommandEnds(p)
  <2>1. /\ cur' = cur
        /\ \/ pc[p] = "run" /\ pc'[p] \in {"running", "ran", "parent", "finish"}
           \/ pc[p] = "running" /\ pc'[p] = "ran"
        BY <1>7, <1>p DEF Execute, CommandEnds, AfterResult
  <2> QED BY <2>1, <1>0, StageIs DEF WaiterPC
<1>8. CASE SaveParent(p)
  <2>1. pc[p] = "parent" /\ pc'[p] = "finish" /\ cur' = cur
        BY <1>8, <1>p DEF SaveParent
  <2> QED BY <2>1, <1>0, StageIs DEF WaiterPC
<1> QED BY <1>1, <1>2, <1>3, <1>4, <1>5, <1>6, <1>7, <1>8 DEF Waiter

\* So does one that begins to wait for the confirmation, or returns.
LEMMA AheadFalls ==
  ASSUME IInv, NEW p \in Proc, Waiter(p)
  PROVE  Ahead(p)' < Ahead(p) \/ Round(p)
<1>0. TypeOK /\ p[1] \in Rid /\ WaiterOK(p)
      BY DEF IInv, WaiterInv, Proc
<1>p. ASSUME NEW l, Goto(p, l) PROVE pc'[p] = l
      BY <1>0, <1>p DEF Goto, TypeOK
<1>1. CASE Confirm(p)
  <2>1. pc[p] = "confirm" /\ cur[p] = p[1] /\ pc'[p] = "await"
        BY <1>0, <1>1, <1>p DEF Confirm, WaiterOK
  <2>2. PICK k \in Rid : step[k] = "none" /\ cur' = [cur EXCEPT ![p] = k]
        BY <1>1 DEF Confirm
  <2>3. step[p[1]] # "none"
        BY <1>0, <2>1 DEF WaiterOK
  <2>4. cur'[p] # p[1]
        BY <1>0, <2>2, <2>3 DEF TypeOK
  <2>5. Ahead(p) = 17
        BY <2>1, StageIs DEF Ahead, Busy
  <2>6. Ahead(p)' = 8
        BY <2>1, <2>4, StageIs DEF Ahead, Busy
  <2> QED BY <2>5, <2>6
<1>2. CASE Finish(p)
  <2>1. pc[p] = "finish" /\ pc'[p] = "idle"
        BY <1>2, <1>p DEF Finish
  <2>2. Ahead(p)' = 0
        BY <2>1, StageIs DEF Ahead, Busy
  <2>3. Ahead(p) \in {1, 12}
        BY <2>1, StageIs DEF Ahead
  <2> QED BY <2>2, <2>3
<1>3. CASE ~Confirm(p) /\ ~Finish(p)
  <2>1. /\ cur' = cur /\ pc[p] \in WaiterPC
        /\ pc[p] # "idle" /\ pc'[p] \in WaiterPC \ {"idle"}
        /\ Stage(pc'[p]) < Stage(pc[p]) \/ Round(p)
        BY <1>0, <1>3, StageFalls
  <2>2. Stage(pc[p]) \in Nat /\ Stage(pc'[p]) \in Nat
        BY <2>1, StageIs
  <2>3. Ahead(p) = Stage(pc[p]) + (IF cur[p] = p[1] THEN 11 ELSE 0)
        BY <2>1 DEF Ahead, Busy
  <2>4. Ahead(p)' = Stage(pc'[p]) + (IF cur[p] = p[1] THEN 11 ELSE 0)
        BY <2>1 DEF Ahead, Busy
  <2> QED BY <2>1, <2>2, <2>3, <2>4
<1> QED BY <1>1, <1>2, <1>3

\* Nobody else sets a waiter back.
LEMMA WaiterUnmoved ==
  ASSUME IInv, SoleInv, [Next]_vars, NEW p \in Proc, Busy(p), ~Waiter(p)
  PROVE  (pc'[p] = pc[p] /\ cur'[p] = cur[p]) \/ ~Busy(p)'
<1>i. TypeOK /\ DriverInv
      BY DEF IInv, SoleInv
<1>1. ASSUME NEW q \in Proc, Waiter(q) PROVE pc'[p] = pc[p] /\ cur'[p] = cur[p]
      BY <1>i, <1>1, OthersStay
<1>2. ASSUME NEW r \in Rid, NEW o \in Requests, Request(r, o)
      PROVE  pc'[p] = pc[p] /\ cur'[p] = cur[p]
  <2>1. step[r] = "none" /\ pc' = [pc EXCEPT ![<<r, "serve">>] = "suspend"] /\ cur' = cur
        BY <1>2 DEF Request, Goto
  <2>2. p # <<r, "serve">>
        BY <2>1, Drives
  <2> QED BY <1>i, <2>1, <2>2 DEF TypeOK
<1>3. ASSUME NEW r \in Rid, AdoptOne(r) PROVE pc'[p] = pc[p] /\ cur'[p] = cur[p]
  <2>1. cur' = cur
        BY <1>3 DEF AdoptOne
  <2>2. CASE UNCHANGED pc
        BY <2>1, <2>2
  <2>3. CASE ~UNCHANGED pc
    <3>1. /\ ~Busy(<<r, "adopt">>) /\ pc' = [pc EXCEPT ![<<r, "adopt">>] = "await"]
          BY <1>i, <1>3, <2>3, AdoptStarts
    <3> QED BY <1>i, <2>1, <3>1 DEF TypeOK
  <2> QED BY <2>2, <2>3
<1>4. CASE Crash
      BY <1>4 DEF Crash, Busy
<1>5. CASE Restart \/ AdoptScan \/ Quiet
      BY <1>5 DEF Restart, AdoptScan, Quiet, waiterVars
<1> QED BY <1>i, <1>1, <1>2, <1>3, <1>4, <1>5, StepKinds

\* A waiter takes at most twenty-one steps of its own besides the rounds of its
\* two waits, and none of these begins after its deadline: what WaitersReturn
\* rests on but for the fairness of the scheduler and the clock, and for the end
\* of its command.
THEOREM NoneSetBack == AdoptFirst => (Spec => [][WaitersAdvance]_vars)
<1> SUFFICES ASSUME AdoptFirst PROVE Spec => [][WaitersAdvance]_vars
    OBVIOUS
<1>1. IInv /\ SoleInv /\ [Next]_vars => [WaitersAdvance]_vars
  <2> SUFFICES ASSUME IInv, SoleInv, [Next]_vars, NEW p \in Proc
               PROVE  /\ Waiter(p) => Ahead(p)' < Ahead(p) \/ Round(p)
                      /\ Busy(p) => Ahead(p)' <= Ahead(p) \/ Round(p)
      BY DEF WaitersAdvance
  <2>1. Ahead(p) \in Nat
    <3>1. TypeOK
          BY DEF IInv
    <3>2. pc[p] \in WaiterPC
          BY <3>1 DEF TypeOK
    <3>3. Stage(pc[p]) \in Nat
          BY <3>2, StageIs
    <3> QED BY <3>3 DEF Ahead
  <2>2. Waiter(p) => Ahead(p)' < Ahead(p) \/ Round(p)
        BY AheadFalls
  <2>3. ASSUME Busy(p), ~Waiter(p) PROVE Ahead(p)' <= Ahead(p)
    <3>1. CASE pc'[p] = pc[p] /\ cur'[p] = cur[p]
      <4>1. Ahead(p)' = Ahead(p)
            BY <3>1 DEF Ahead, Busy
      <4> QED BY <2>1, <4>1
    <3>2. CASE ~Busy(p)'
      <4>1. Ahead(p)' = 0
            BY <3>2, StageIs DEF Ahead, Busy
      <4> QED BY <2>1, <4>1
    <3> QED BY <2>3, <3>1, <3>2, WaiterUnmoved
  <2>4. Waiter(p) => Busy(p)
        BY WaiterFrame DEF IInv
  <2>5. Ahead(p)' < Ahead(p) => Ahead(p)' <= Ahead(p)
    <3>1. TypeOK'
          BY TypeStep
    <3>2. pc'[p] \in WaiterPC
          BY <3>1 DEF TypeOK
    <3>4. Stage(pc'[p]) \in Nat
          BY <3>2, StageIs
    <3>3. Ahead(p)' \in Nat
          BY <3>4 DEF Ahead
    <3> QED BY <2>1, <3>3
  <2> QED BY <2>2, <2>3, <2>4, <2>5
<1> QED BY <1>1, Invariant, SoleInvariant, PTL DEF Spec

------------------------------------------------------------------------------
\* A waiter returns with everything settled.

\* A waiter that is about to return has stored a result for its petition.
FiledInv == \A p \in Proc : pc[p] = "finish" => result[p[1]] # NoResult

\* What confirm copies to the parent is a result.
LEMMA ParentFiled ==
  ASSUME IInv, EndingInv, NEW p \in Proc, pc[p] = "parent"
  PROVE  ParentOutcome(p) # NoResult
<1>1. CASE dec[p] = "approve"
      BY <1>1 DEF EndingInv, EndingOK, Ran, ParentOutcome
<1>2. CASE dec[p] = "blocked"
      BY <1>2, ResultsAre DEF EndingInv, EndingOK, ParentOutcome, Output
<1>3. CASE dec[p] \notin {"approve", "blocked"}
      BY <1>3, OutcomeType DEF IInv, ParentOutcome
<1> QED BY <1>1, <1>2, <1>3

\* A result file is overwritten but never removed.
LEMMA ResultStays ==
  ASSUME IInv, SoleInv, EndingInv, [Next]_vars, NEW x \in Rid,
         result[x] # NoResult
  PROVE  result'[x] # NoResult
<1> USE DEF decisionVars
<1>i. TypeOK
      BY DEF IInv
<1>s. ASSUME NEW y \in Rid, NEW out, out # NoResult, SaveResult(y, out)
      PROVE  result'[x] # NoResult
      BY <1>i, <1>s DEF SaveResult, TypeOK
<1>1. ASSUME NEW q \in Proc, Waiter(q) PROVE result'[x] # NoResult
  <2>0. q[1] \in Rid /\ cur[q] \in Rid
        BY <1>i DEF TypeOK, Proc
  <2>1. Outcome(q) # NoResult
        BY <1>i, OutcomeType
  <2>2. CASE SaveOwn(q)
        BY <1>s, <2>0, <2>1, <2>2 DEF SaveOwn
  <2>3. CASE SaveParent(q)
    <3>1. ParentOutcome(q) # NoResult
          BY <2>3, ParentFiled DEF SaveParent
    <3> QED BY <1>s, <2>0, <2>3, <3>1 DEF SaveParent, Origin
  <2>4. CASE SaveRan(q)
    <3>1. res[q] # NoResult
          BY <2>4 DEF SaveRan, EndingInv, EndingOK, Ran
    <3> QED BY <1>s, <2>0, <2>4, <3>1 DEF SaveRan
  <2>5. CASE Execute(q)
    <3>1. Res("minus1", "drift") # NoResult
          BY ResultsAre DEF Output
    <3> QED BY <1>s, <2>0, <2>5, <3>1 DEF Execute
  <2> QED BY <1>1, <2>2, <2>3, <2>4, <2>5
          DEF Waiter, Suspend, Pin, AwaitVerdict, AwaitOtherwise, ConsumeOwn, Confirm,
              CommandEnds, Finish
<1>2. ASSUME NEW r \in Rid, AdoptOne(r) \/ \E o \in Requests : Request(r, o)
      PROVE  result'[x] # NoResult
      BY <1>2 DEF AdoptOne, Request
<1>3. Crash \/ Restart \/ AdoptScan => result'[x] # NoResult
      BY DEF Crash, Restart, AdoptScan
<1>4. Quiet => result'[x] # NoResult
      BY ResultsAre DEF Quiet, Output
<1> QED BY <1>i, <1>1, <1>2, <1>3, <1>4, StepKinds

\* Every way to "finish" goes through a SaveResult for the petition.
LEMMA FiledStep ==
  IInv /\ SoleInv /\ EndingInv /\ FiledInv /\ [Next]_vars => FiledInv'
<1> SUFFICES ASSUME IInv, SoleInv, EndingInv, FiledInv, [Next]_vars, NEW p \in Proc,
                    pc'[p] = "finish"
             PROVE  result'[p[1]] # NoResult
    BY DEF FiledInv
<1>i. TypeOK /\ p[1] \in Rid
      BY DEF IInv, Proc
<1>1. CASE pc[p] = "finish"
      BY <1>i, <1>1, ResultStays DEF FiledInv
<1>2. CASE pc[p] # "finish" /\ Waiter(p)
  <2>p. ASSUME NEW l, Goto(p, l) PROVE pc'[p] = l
        BY <1>i, <2>p DEF Goto, TypeOK
  <2>s. ASSUME NEW y, NEW out, y = p[1], out # NoResult, SaveResult(y, out)
        PROVE  result'[p[1]] # NoResult
        BY <1>i, <2>s DEF SaveResult, TypeOK
  <2>0. Outcome(p) # NoResult
        BY <1>i, OutcomeType
  <2>1. CASE SaveOwn(p)
        BY <2>0, <2>1, <2>p, <2>s DEF SaveOwn, AfterResult, Confirming
  <2>2. CASE SaveRan(p)
    <3>1. res[p] # NoResult
          BY <2>2 DEF SaveRan, EndingInv, EndingOK, Ran
    <3> QED BY <2>2, <2>p, <2>s, <3>1 DEF SaveRan, AfterResult, Confirming
  <2>3. CASE SaveParent(p)
    <3>1. ParentOutcome(p) # NoResult
          BY <2>3, ParentFiled DEF SaveParent
    <3> QED BY <2>3, <2>s, <3>1 DEF SaveParent, Origin
  <2>4. CASE Execute(p)
    <3>1. Res("minus1", "drift") # NoResult
          BY ResultsAre DEF Output
    <3>2. pc'[p] = "finish" => SaveResult(cur[p], Res("minus1", "drift"))
                               /\ AfterResult(p) = "finish"
          BY <2>4, <2>p DEF Execute
    <3>3. AfterResult(p) = "finish" => cur[p] = p[1]
          BY DEF AfterResult, Confirming
    <3> QED BY <2>s, <3>1, <3>2, <3>3
  <2>5. CASE AwaitVerdict(p) \/ AwaitOtherwise(p)
    <3>1. \A d : Decided(p, d) # "finish"
          BY DEF Decided
    <3> QED BY <2>5, <2>p, <3>1 DEF AwaitVerdict, AwaitOtherwise, Act
  <2>6. CASE Suspend(p) \/ Pin(p) \/ ConsumeOwn(p) \/ Confirm(p) \/ CommandEnds(p)
             \/ Finish(p)
        BY <2>6, <2>p DEF Suspend, Pin, ConsumeOwn, Confirm, CommandEnds, Finish
  <2> QED BY <1>2, <2>1, <2>2, <2>3, <2>4, <2>5, <2>6 DEF Waiter
<1>3. CASE pc[p] # "finish" /\ ~Waiter(p)
  <2>1. CASE Busy(p)
        BY <1>3, <2>1, WaiterUnmoved DEF Busy
  <2>2. CASE ~Busy(p)
    <3>1. ASSUME NEW q \in Proc, Waiter(q) PROVE FALSE
          BY <1>i, <1>3, <2>2, <3>1, OthersStay DEF Busy
    <3>2. ASSUME NEW r \in Rid, NEW o \in Requests, Request(r, o) PROVE FALSE
          BY <1>i, <1>3, <3>2 DEF Request, Goto, TypeOK
    <3>3. ASSUME NEW r \in Rid, AdoptOne(r) PROVE FALSE
          BY <1>i, <1>3, <3>3 DEF AdoptOne, Goto, TypeOK
    <3>4. Crash => FALSE
          BY DEF Crash
    <3>5. Restart \/ AdoptScan \/ Quiet => FALSE
          BY <1>3 DEF Restart, AdoptScan, Quiet, waiterVars
    <3> QED BY <1>i, <3>1, <3>2, <3>3, <3>4, <3>5, StepKinds
  <2> QED BY <2>1, <2>2
<1> QED BY <1>1, <1>2, <1>3

\* A waiter returns with a result on file and its group resumed.
ReturnsSettled ==
  \A p \in Proc : Finish(p) =>
    /\ result'[p[1]] # NoResult
    /\ Held(p) => ~stopped'[opt[p[1]].group]

\* However a wait ends - approved, denied, cancelled, abandoned or out of time,
\* before or after a restart - its waiter returns with a result on file and the
\* group it holds resumed ("every exit path resumes"): the safety part of
\* AdoptedSettle.
THEOREM EveryReturnSettles == AdoptFirst => (Spec => [][ReturnsSettled]_vars)
<1> SUFFICES ASSUME AdoptFirst PROVE Spec => [][ReturnsSettled]_vars
    OBVIOUS
<1>1. Init => FiledInv
      BY DEF Init, FiledInv
<1>2. IInv /\ SoleInv /\ BarrierInv /\ FiledInv /\ [Next]_vars => [ReturnsSettled]_vars
  <2> SUFFICES ASSUME IInv, SoleInv, BarrierInv, FiledInv, [Next]_vars,
                      NEW p \in Proc, Finish(p)
               PROVE  /\ result'[p[1]] # NoResult
                      /\ Held(p) => ~stopped'[opt[p[1]].group]
      BY DEF ReturnsSettled
  <2>1. result'[p[1]] # NoResult
        BY DEF Finish, FiledInv, decisionVars
  <2>2. ASSUME Held(p) PROVE ~stopped'[opt[p[1]].group]
    <3>1. p[1] \in Rid /\ opt[p[1]] \in RequestType
          BY DEF IInv, TypeOK, Proc
    <3>2. pinned[p[1]]
          BY <2>2 DEF Held, Origin, BarrierInv, PinOK, Finish
    <3>3. opt[p[1]].group \in Group
          BY <3>1, <3>2 DEF BarrierInv, PinnedOK, RequestType
    <3>4. stopped' = [g \in Group |-> stopped[g] /\ ~(Held(p) /\ opt[p[1]].group = g)]
          BY DEF Finish, Resume, Origin
    <3> QED BY <2>2, <3>3, <3>4
  <2> QED BY <2>1, <2>2
<1> QED BY <1>1, <1>2, FiledStep, BarrierStep, BarrierInit, Invariant, SoleInvariant,
           EndingInvariant, PTL DEF Spec

------------------------------------------------------------------------------
\* A daemon that has not died knows who will resume a group it stopped.
StoppedHasWaiter ==
  \A g \in Group : stopped[g] /\ crashes = 0 =>
    \E p \in Proc : Busy(p) /\ holding[p] /\ opt[p[1]].group = g

\* Only a crash is counted as one.
LEMMA CrashCounted == [Next]_vars => crashes' = crashes \/ Crash
<1> SUFFICES ASSUME [Next]_vars, ~Crash PROVE crashes' = crashes
    OBVIOUS
<1> USE DEF seenVars
<1>1. ASSUME NEW q \in Proc, Waiter(q) PROVE crashes' = crashes
      BY <1>1 DEF Waiter, Suspend, Pin, AwaitVerdict, AwaitOtherwise, ConsumeOwn, SaveOwn,
                  Confirm, Execute, CommandEnds, SaveRan, SaveParent, Finish
<1>2. ASSUME NEW r \in Rid, NEW o \in Requests, Request(r, o) PROVE crashes' = crashes
      BY <1>2 DEF Request
<1>3. ASSUME NEW r \in Rid, NEW d \in {"approve", "deny"}, Submit(r, d)
      PROVE  crashes' = crashes
      BY <1>3 DEF Submit
<1>4. ASSUME NEW r \in Rid, Disconnect(r) \/ Tick(r) \/ AdoptOne(r)
      PROVE  crashes' = crashes
      BY <1>4 DEF Disconnect, Tick, AdoptOne
<1>5. ASSUME NEW c \in Canceller, CancelWrite(c) \/ CancelResume(c)
      PROVE  crashes' = crashes
      BY <1>5 DEF CancelWrite, CancelResume
<1>6. ASSUME NEW c \in Canceller, NEW r \in Rid, CancelCheck(c, r)
      PROVE  crashes' = crashes
      BY <1>6 DEF CancelCheck
<1>7. Restart \/ AdoptScan \/ UNCHANGED vars => crashes' = crashes
      BY DEF Restart, AdoptScan, vars
<1> QED BY <1>1, <1>2, <1>3, <1>4, <1>5, <1>6, <1>7 DEF Next

\* The waiter that stops a group holds it, and resumes it when it lets go.
LEMMA StoppedStep ==
  IInv /\ SoleInv /\ BarrierInv /\ StoppedHasWaiter /\ [Next]_vars => StoppedHasWaiter'
<1> SUFFICES ASSUME IInv, SoleInv, BarrierInv, StoppedHasWaiter, [Next]_vars,
                    NEW g \in Group, stopped'[g], crashes' = 0
             PROVE  \E p \in Proc : Busy(p)' /\ holding'[p] /\ opt'[p[1]].group = g
    BY DEF StoppedHasWaiter
<1>i. TypeOK /\ Grows /\ crashes \in Nat
      BY StepGrows, ExecAssumption DEF IInv, TypeOK, ExecAssumption
<1>k. ASSUME NEW p \in Proc, Busy(p), opt[p[1]].group = g, Busy(p)', holding'[p]
      PROVE  \E q \in Proc : Busy(q)' /\ holding'[q] /\ opt'[q[1]].group = g
  <2>1. opt'[p[1]] = opt[p[1]]
        BY <1>i, <1>k, Drives DEF Grows
  <2> QED BY <1>k, <2>1
<1>0. ~Crash
      BY <1>i DEF Crash
<1>c. crashes = 0
      BY <1>0, CrashCounted
<1>1. ASSUME NEW q \in Proc, Suspend(q), ~stopped[g]
      PROVE  \E p \in Proc : Busy(p)' /\ holding'[p] /\ opt'[p[1]].group = g
  <2>1. /\ opt[q[1]].group = g /\ holding' = [holding EXCEPT ![q] = TRUE]
        /\ pc' = [pc EXCEPT ![q] = "pin"] /\ pc[q] = "suspend"
        BY <1>i, <1>1 DEF Suspend, Origin, TypeOK, Goto
  <2>2. Busy(q) /\ Busy(q)' /\ holding'[q]
        BY <1>i, <2>1 DEF Busy, TypeOK
  <2> QED BY <1>k, <2>1, <2>2
<1>2. CASE stopped[g]
  <2>1. PICK p \in Proc : Busy(p) /\ holding[p] /\ opt[p[1]].group = g
        BY <1>c, <1>2 DEF StoppedHasWaiter
  <2>2. ASSUME NEW q \in Proc, Waiter(q)
        PROVE  Busy(p)' /\ holding'[p]
    <3>1. CASE q # p
      <4>1. pc'[p] = pc[p] /\ holding'[p] = holding[p]
            BY <1>i, <2>2, <3>1, OthersStay, PinMoves
      <4> QED BY <2>1, <4>1 DEF Busy
    <3>2. CASE q = p
      <4>1. CASE Finish(p)
        <5>1. p[2] = "serve"
              BY <2>1 DEF BarrierInv, PinOK
        <5>2. Held(p) /\ stopped' = [h \in Group |->
                              stopped[h] /\ ~(Held(p) /\ opt[p[1]].group = h)]
              BY <2>1, <4>1, <5>1 DEF Finish, Resume, Origin, Held, Adopted
        <5>3. ~stopped'[g]
              BY <2>1, <5>2
        <5> QED BY <5>3
      <4>2. CASE ~Finish(p)
        <5>1. holding'[p]
              BY <1>i, <2>1, <2>2, <3>2, <4>2
              DEF Waiter, Suspend, Pin, AwaitVerdict, AwaitOtherwise, ConsumeOwn,
                  SaveOwn, Confirm, Execute, CommandEnds, SaveRan, SaveParent,
                  TypeOK
        <5>2. PinOK(p)'
              BY <2>2, <3>2, PinMoves
        <5> QED BY <5>1, <5>2 DEF PinOK, Busy
      <4> QED BY <4>1, <4>2
    <3> QED BY <3>1, <3>2
  <2>3. CASE \E q \in Proc : Waiter(q)
        BY <1>k, <2>1, <2>2, <2>3
  <2>4. CASE ~\E q \in Proc : Waiter(q)
    <3>1. ~Waiter(p)
          BY <2>4
    <3>2. holding' = holding
      <4>1. ASSUME NEW r \in Rid, AdoptOne(r) \/ \E o \in Requests : Request(r, o)
            PROVE  holding' = holding
            BY <4>1 DEF AdoptOne, Request
      <4>2. Restart \/ AdoptScan \/ Quiet => holding' = holding
            BY DEF Restart, AdoptScan, Quiet, waiterVars
      <4> QED BY <1>i, <1>0, <2>4, <4>1, <4>2, StepKinds
    <3>3. Busy(p)'
      <4>1. PinOK(p)'
            BY PinStep
      <4> QED BY <2>1, <3>2, <4>1 DEF PinOK, Busy
    <3> QED BY <1>k, <2>1, <3>2, <3>3
  <2> QED BY <2>3, <2>4
<1>3. CASE ~stopped[g]
  <2>1. ASSUME NEW q \in Proc, Waiter(q) PROVE Suspend(q)
        BY <1>3, <2>1
        DEF Waiter, Pin, AwaitVerdict, AwaitOtherwise, ConsumeOwn, SaveOwn, Confirm,
            Execute, CommandEnds, SaveRan, SaveParent, Finish, Resume, worldVars
  <2>2. ASSUME NEW c \in Canceller, CancelResume(c) PROVE FALSE
        BY <1>3, <2>2 DEF CancelResume, Resume
  <2>3. ~UNCHANGED stopped
        BY <1>3
  <2>4. ASSUME NEW r \in Rid, AdoptOne(r) \/ \E o \in Requests : Request(r, o)
        PROVE  FALSE
        BY <2>3, <2>4 DEF AdoptOne, Request, worldVars
  <2>5. Restart \/ AdoptScan => FALSE
        BY <2>3 DEF Restart, AdoptScan, worldVars
  <2>6. Quiet => FALSE
        BY <2>2, <2>3 DEF Quiet
  <2> QED BY <1>i, <1>0, <1>1, <1>3, <2>1, <2>4, <2>5, <2>6, StepKinds
<1> QED BY <1>2, <1>3

\* While the daemon that stopped a group lives, one of its waiters holds the
\* group and will resume it when it returns: the safety part of GroupsResumed.
THEOREM StoppedIsHeld == AdoptFirst => (Spec => []StoppedHasWaiter)
<1> SUFFICES ASSUME AdoptFirst PROVE Spec => []StoppedHasWaiter
    OBVIOUS
<1>1. Init => StoppedHasWaiter
      BY DEF Init, StoppedHasWaiter
<1> QED BY <1>1, StoppedStep, BarrierStep, BarrierInit, Invariant, SoleInvariant, PTL
        DEF Spec

==============================================================================
