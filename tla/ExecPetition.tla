----------------------------- MODULE ExecPetition ----------------------------
(***************************************************************************)
(* The life of an exec petition in the 2fado daemon: a request that the    *)
(* policy sends to a human (tier "ask"), from the moment its record is on  *)
(* disk until its command has run or never will.                           *)
(*                                                                         *)
(* Everything the parties agree on lives in files of the state directory:  *)
(* <rid>.json, <rid>.verdict, <rid>.cancel, <rid>.result.  The daemon runs *)
(* one goroutine per waiting petition (the handler of a blocking client, a *)
(* detached waiter, or a waiter adopted after a restart), one per Cancel   *)
(* request, and AdoptOrphans once per start.  The operator submits         *)
(* verdicts, clients disconnect, clocks run, and the daemon may crash and  *)
(* be restarted between any two steps.                                     *)
(***************************************************************************)
EXTENDS Naturals, Sequences, FiniteSets

CONSTANTS
  Rid,          \* petition ids that newRID may return
  Group,        \* process groups of requesting agents
  Canceller,    \* concurrent Cancel requests
  Requests,     \* what clients may ask for: [detach, confirm, group]
  NoRid, NoGroup,
  Endings,      \* how commands may end: their exit and output as a result
  MaxCrashes,   \* bound on daemon crashes
  TornWrites,   \* TRUE: the write of a decision file may fail half way
  AdoptFirst    \* TRUE: AdoptOrphans takes its list before a request is saved

RequestType == [detach : BOOLEAN, confirm : BOOLEAN, group : Group \cup {NoGroup}]

\* Exit and output of a result file. The exit is "minus1", any other "code", or
\* "none" while there is no file. Of outputs the code tells apart the empty
\* one, three words and the prefixes seal-drift, fd-drift and git-drift
\* ("drift") from any other "text". They are in-band: a command may print them.
Output == {"empty", "text", "cancelled", "client_aborted",
           "confirmation_timeout", "drift"}
Res(e, o) == [exit |-> e, out |-> o]
RunResult == [exit : {"minus1", "code"}, out : Output]
NoResult == Res("none", "empty")
Result == RunResult \cup {NoResult}

ASSUME ExecAssumption ==
  /\ NoRid \notin Rid
  /\ NoGroup \notin Group
  /\ Requests \subseteq RequestType
  /\ Endings \subseteq RunResult
  /\ MaxCrashes \in Nat
  /\ TornWrites \in BOOLEAN
  /\ AdoptFirst \in BOOLEAN

VARIABLES
  \* files of the state directory, kept across restarts
  step,         \* Step of <rid>.json, "none" while there is no record
  of,           \* ConfirmOf of <rid>.json
  opt,          \* the request in <rid>.json (argv, detach flag, peer group)
  pinned,       \* Suspend is stored in <rid>.json
  verdict,      \* <rid>.verdict
  cancel,       \* <rid>.cancel
  result,       \* <rid>.result
  \* the world around the daemon
  clock,        \* of each petition: live, recExpired (Expires <= now in whole
                \* seconds), expired (the waiter's own deadline has passed too)
  stopped,      \* the process group is stopped by SIGSTOP
  connected,    \* the blocking client of a petition still holds its socket
  \* memory of the daemon, lost in a crash
  up,           \* the daemon is running
  scan,         \* whether AdoptOrphans has taken its list
  orphans,      \* the listed petitions it has not handled yet
  pc,           \* where each waiter goroutine stands
  cur,          \* the petition a waiter is waiting for: its own or its child
  dec,          \* the decision a waiter acts on
  holding,      \* the pin of snapshotSuspend in a waiter's stack
  res,          \* exit and output of runApproved in a waiter's stack
  cpc, ctodo, crid,  \* each Cancel request: next write, petitions left, id
  \* what the outside has seen
  executed,     \* how often the command of an initial petition was started
  printed,      \* exit and output of that command, once it has ended
  answer,       \* what the client of an initial petition was told
  toldCancelled,\* petitions for which a Cancel was answered Cancelled: true
  crashes       \* crashes so far

recordVars == <<step, of, opt, pinned>>
decisionVars == <<verdict, cancel, result>>
worldVars == <<clock, stopped, connected>>
adoptVars == <<up, scan, orphans>>
waiterVars == <<pc, cur, dec, holding, res>>
cancelVars == <<cpc, ctodo, crid>>
seenVars == <<executed, printed, answer, toldCancelled, crashes>>
vars == <<recordVars, decisionVars, worldVars, adoptVars, waiterVars,
          cancelVars, seenVars>>

------------------------------------------------------------------------------
\* Values

Proc == Rid \X {"serve", "adopt"}   \* one serving and one adopted waiter each

Decision == {"approve", "deny", "cancelled", "timeout", "client_aborted"}

WaiterPC == {"idle", "suspend", "pin", "await", "poll", "consume", "result",
             "confirm", "run", "running", "ran", "parent", "finish"}

TypeOK ==
  /\ step \in [Rid -> {"none", "initial", "confirm"}]
  /\ of \in [Rid -> Rid \cup {NoRid}]
  /\ opt \in [Rid -> RequestType]
  /\ pinned \in [Rid -> BOOLEAN]
  /\ verdict \in [Rid -> Decision \cup {"none", "torn"}]
  /\ cancel \in [Rid -> {"none", "torn", "written"}]
  /\ result \in [Rid -> Result]
  /\ clock \in [Rid -> {"live", "recExpired", "expired"}]
  /\ stopped \in [Group -> BOOLEAN]
  /\ connected \in [Rid -> BOOLEAN]
  /\ up \in BOOLEAN
  /\ scan \in {"due", "done"}
  /\ orphans \subseteq Rid
  /\ pc \in [Proc -> WaiterPC]
  /\ cur \in [Proc -> Rid]
  /\ dec \in [Proc -> Decision \cup {"none", "blocked"}]
  /\ holding \in [Proc -> BOOLEAN]
  /\ res \in [Proc -> Result]
  /\ cpc \in [Canceller -> {"idle", "cancel", "consume", "result", "resume"}]
  /\ ctodo \in [Canceller -> Seq(Rid)]
  /\ crid \in [Canceller -> Rid \cup {NoRid}]
  /\ executed \in [Rid -> Nat]
  /\ printed \in [Rid -> Result]
  /\ answer \in [Rid -> {"none", "pending", "allowed", "denied"}]
  /\ toldCancelled \subseteq Rid
  /\ crashes \in 0..MaxCrashes

NoRequest == [detach |-> FALSE, confirm |-> FALSE, group |-> NoGroup]

Init ==
  /\ step = [r \in Rid |-> "none"]
  /\ of = [r \in Rid |-> NoRid]
  /\ opt = [r \in Rid |-> NoRequest]
  /\ pinned = [r \in Rid |-> FALSE]
  /\ verdict = [r \in Rid |-> "none"]
  /\ cancel = [r \in Rid |-> "none"]
  /\ result = [r \in Rid |-> NoResult]
  /\ clock = [r \in Rid |-> "live"]
  /\ stopped = [g \in Group |-> FALSE]
  /\ connected = [r \in Rid |-> FALSE]
  /\ up = TRUE
  /\ scan = "due"
  /\ orphans = {}
  /\ pc = [p \in Proc |-> "idle"]
  /\ cur = [p \in Proc |-> p[1]]
  /\ dec = [p \in Proc |-> "none"]
  /\ holding = [p \in Proc |-> FALSE]
  /\ res = [p \in Proc |-> NoResult]
  /\ cpc = [c \in Canceller |-> "idle"]
  /\ ctodo = [c \in Canceller |-> <<>>]
  /\ crid = [c \in Canceller |-> NoRid]
  /\ executed = [r \in Rid |-> 0]
  /\ printed = [r \in Rid |-> NoResult]
  /\ answer = [r \in Rid |-> "none"]
  /\ toldCancelled = {}
  /\ crashes = 0

------------------------------------------------------------------------------
\* Reading the state directory.  Operators whose comment begins with
\* "Mutation:" are altered forms of the definition after them; they show that
\* the properties notice the bug they name and are used nowhere else.

\* Store.Verdict: an unreadable file reads as no verdict.
Verdict(r) == IF verdict[r] = "torn" THEN "none" ELSE verdict[r]

\* Store.CancelInfo.
CancelInfo(r) == cancel[r] = "written"

\* The records Store.FindConfirmation may return for r.
Confirmations(r) == {k \in Rid : step[k] = "confirm" /\ of[k] = r}

\* The petition the requester made: a confirmation belongs to its parent.
Root(r) == IF step[r] = "confirm" THEN of[r] ELSE r

\* Expires > now, as List, Status and Cancel compare it in whole seconds.
Unexpired(r) == clock[r] = "live"

\* Mutation: List forgets to skip expired records.
ListedIgnoringExpiry(r) == /\ step[r] # "none"
                           /\ Verdict(r) = "none"
                           /\ ~CancelInfo(r)

\* Store.List: a record, no verdict, no cancellation, not expired.
Listed(r) == /\ step[r] # "none"
             /\ Verdict(r) = "none"
             /\ ~CancelInfo(r)
             /\ Unexpired(r)

\* Store.Status while a verdict is there but no result file.
StatusBeforeResult(r) ==
  LET kids == IF step[r] = "initial" THEN Confirmations(r) ELSE {} IN
  IF Verdict(r) # "approve" THEN Verdict(r)
  ELSE IF \E k \in kids : CancelInfo(k) THEN "cancelled"
  ELSE IF \E k \in kids : Verdict(k) = "none" THEN "confirming"
  ELSE "running"

\* Store.Status once the result file is there: it compares the output with
\* three words whatever the exit. Service.Status turns exit -1 with an output
\* that begins with seal-drift, fd-drift or git-drift into a denial.
StatusOfChild(k) ==
  IF CancelInfo(k) THEN "cancelled"
  ELSE CASE Verdict(k) = "deny" -> "denied"
         [] Verdict(k) \in {"timeout", "client_aborted", "cancelled"} -> Verdict(k)
         [] OTHER -> "completed"

StatusWithResult(r) ==
  LET out == result[r].out IN
  IF result[r] = Res("minus1", "drift") \/ Verdict(r) = "deny" THEN "denied"
  ELSE IF "cancelled" \in {Verdict(r), out} THEN "cancelled"
  ELSE IF Verdict(r) = "timeout" \/ out = "confirmation_timeout" THEN "timeout"
  ELSE IF "client_aborted" \in {Verdict(r), out} THEN "client_aborted"
  ELSE IF result[r].exit = "minus1" /\ Confirmations(r) # {}
         THEN StatusOfChild(CHOOSE k \in Confirmations(r) : TRUE)
  ELSE "completed"

\* What Service.Status answers for the id r.
Status(r) ==
  IF step[r] = "none" THEN "not_found"
  ELSE IF CancelInfo(r) THEN "cancelled"
  ELSE IF Verdict(r) = "none" THEN (IF Unexpired(r) THEN "pending" ELSE "timeout")
  ELSE IF result[r] = NoResult THEN StatusBeforeResult(r)
  ELSE StatusWithResult(r)

\* What Store.Recent shows as the decision of r: with exit -1 or no result, that
\* of the output or of the confirmation. Undecided petitions are not shown.
InRecent(r) == step[r] # "none" /\ (CancelInfo(r) \/ Verdict(r) # "none")

\* Mutation: a record past its deadline is shown as timed out.
RecentExpired(r) ==
  IF CancelInfo(r) THEN "cancelled"
  ELSE IF ~Unexpired(r) THEN "timeout"
  ELSE Verdict(r)

RecentDecision(r) ==
  LET out == result[r].out IN
  IF CancelInfo(r) THEN "cancelled"
  ELSE IF result[r].exit = "code" THEN Verdict(r)
  ELSE IF out = "confirmation_timeout" THEN "timeout"
  ELSE IF out \in {"client_aborted", "cancelled"} THEN out
  ELSE IF Confirmations(r) = {} THEN Verdict(r)
  ELSE LET k == CHOOSE c \in Confirmations(r) : TRUE
       IN  IF CancelInfo(k) THEN "cancelled"
           ELSE IF Verdict(k) # "none" THEN Verdict(k) ELSE Verdict(r)

------------------------------------------------------------------------------
\* Writing the state directory

Torn == IF TornWrites THEN {"torn"} ELSE {}

\* Mutation: the verdict file is opened without O_EXCL.
ConsumeOverwrites(r, d) == verdict' = [verdict EXCEPT ![r] = d]

\* Store.Consume: the first verdict wins.  Its write may fail after the file
\* was created, and then nobody can decide the petition any more.
Consume(r, d) ==
  \/ /\ verdict[r] = "none"
     /\ \E v \in {d} \cup Torn : verdict' = [verdict EXCEPT ![r] = v]
  \/ /\ verdict[r] # "none"
     /\ UNCHANGED verdict

\* Store.Cancel, with the same exclusive create.
WriteCancel(r) ==
  \/ /\ cancel[r] = "none"
     /\ \E v \in {"written"} \cup Torn : cancel' = [cancel EXCEPT ![r] = v]
  \/ /\ cancel[r] # "none"
     /\ UNCHANGED cancel

\* Store.SaveResult truncates and writes: the last one stays.
SaveResult(r, out) == result' = [result EXCEPT ![r] = out]

\* contPGID of the group of r: SIGCONT does not nest.
Resume(r, held) ==
  stopped' = [g \in Group |-> stopped[g] /\ ~(held /\ opt[r].group = g)]

------------------------------------------------------------------------------
\* The waiters.  p = <<r, "serve">> is the handler of request r or, when r is
\* detached, its background goroutine; <<r, "adopt">> is the goroutine that
\* AdoptOrphans starts for r.

Origin(p) == p[1]
Adopted(p) == p[2] = "adopt"
Detached(p) == ~Adopted(p) /\ opt[p[1]].detach
Blocking(p) == ~Adopted(p) /\ ~opt[p[1]].detach
Confirming(p) == cur[p] # p[1]      \* inside confirm, waiting for the child

Goto(p, l) == pc' = [pc EXCEPT ![p] = l]

\* Bound of the model: a request is taken only while every petition that will
\* need a confirmation, this one included, still finds a fresh id in Rid.
IdsLeft(o) ==
  LET unused  == {r \in Rid : step[r] = "none"}
      awaited == {r \in Rid : /\ step[r] = "initial" /\ opt[r].confirm
                              /\ Confirmations(r) = {}}
  IN Cardinality(unused) > Cardinality(awaited) + (IF o.confirm THEN 1 ELSE 0)

\* RunWithPeerCancel up to page: the record is saved (its pins are modelled by
\* the drift gate in Execute), the operator is paged, a detached caller is
\* answered "pending".  Only then does either path reach snapshotSuspend.
Request(r, o) ==
  /\ up
  /\ step[r] = "none"
  /\ IdsLeft(o)
  /\ AdoptFirst => scan = "done"
  /\ step' = [step EXCEPT ![r] = "initial"]
  /\ opt' = [opt EXCEPT ![r] = o]
  /\ connected' = [connected EXCEPT ![r] = ~o.detach]
  /\ answer' = [answer EXCEPT ![r] = IF o.detach THEN "pending" ELSE "none"]
  /\ Goto(<<r, "serve">>, "suspend")
  /\ UNCHANGED <<of, pinned, decisionVars, clock, stopped, adoptVars, cur, dec,
                 holding, res, cancelVars, executed, printed, toldCancelled,
                 crashes>>

\* snapshotSuspend, first half: SIGSTOP to the peer's group, if it has one
\* the daemon may signal.
Suspend(p) ==
  /\ pc[p] = "suspend"
  /\ LET g == opt[Origin(p)].group IN
     \/ /\ g = NoGroup
        /\ Goto(p, "await")
        /\ UNCHANGED <<stopped, holding>>
     \/ /\ g # NoGroup
        /\ stopped' = [stopped EXCEPT ![g] = TRUE]
        /\ holding' = [holding EXCEPT ![p] = TRUE]
        /\ Goto(p, "pin")
  /\ UNCHANGED <<recordVars, decisionVars, clock, connected, adoptVars, cur,
                 dec, res, cancelVars, seenVars>>

\* snapshotSuspend, second half: Load and Save the record with the pin, so
\* that a later daemon knows which group to resume.
Pin(p) ==
  /\ pc[p] = "pin"
  /\ pinned' = [pinned EXCEPT ![Origin(p)] = TRUE]
  /\ Goto(p, "await")
  /\ UNCHANGED <<step, of, opt, decisionVars, worldVars, adoptVars, cur, dec,
                 holding, res, cancelVars, seenVars>>

\* Where a waiter goes once confirm or runApproved has stored its own result.
AfterResult(p) == IF Confirming(p) THEN "parent" ELSE "finish"

\* Mutation: the policy's confirm list is not consulted after the approval.
ConfirmsNever(p) == FALSE

\* needsConfirm(argv), asked for initial petitions only: adoptOne tests
\* rec.Step, the two serving paths only ever begin with an initial one.
MustConfirm(p) == /\ ~Confirming(p)
                  /\ step[Origin(p)] = "initial"
                  /\ opt[Origin(p)].confirm

\* Mutation: a timeout leaves the waiter as an approval does.
DecidedFailOpen(p, d) ==
  IF d \in {"approve", "timeout"} THEN "run" ELSE "result"

\* The exits that record their own decision before the result: client_aborted
\* and cancelled of a blocking client, and cancelled, client_aborted and
\* timeout of a confirmation.  runDetached and adoptOne record nothing.
RecordsDecision(p, d) ==
  \/ Blocking(p) /\ d \in {"client_aborted", "cancelled"}
  \/ Confirming(p) /\ d \in {"client_aborted", "cancelled", "timeout"}

\* Which branch a waiter takes on decision d.
Decided(p, d) ==
  IF d = "approve" THEN (IF MustConfirm(p) THEN "confirm" ELSE "run")
                   ELSE (IF RecordsDecision(p, d) THEN "consume" ELSE "result")

Act(p, d) == /\ dec' = [dec EXCEPT ![p] = d]
             /\ Goto(p, Decided(p, d))

\* await, first test of a round: the stored verdict.
AwaitVerdict(p) ==
  /\ pc[p] = "await"
  /\ \/ /\ Verdict(cur[p]) = "none"
        /\ Goto(p, "poll")
        /\ UNCHANGED dec
     \/ /\ Verdict(cur[p]) # "none"
        /\ Act(p, Verdict(cur[p]))
  /\ UNCHANGED <<recordVars, decisionVars, worldVars, adoptVars, cur, holding,
                 res, cancelVars, seenVars>>

\* Mutation: the waiter never looks at the clock.
NeverTimesOut(p) == FALSE

\* now.After(expires): a serving waiter and confirm keep the deadline with
\* its fraction of a second, adoptOne rebuilds it from the stored seconds.
DeadlinePassed(p) == IF Adopted(p) /\ ~Confirming(p) THEN ~Unexpired(cur[p])
                                                     ELSE clock[cur[p]] = "expired"

\* await, the rest of the round, on a verdict that was nil a moment ago: the
\* cancellation, the deadline, then the client's disconnect or the next tick.
AwaitOtherwise(p) ==
  /\ pc[p] = "poll"
  /\ CASE CancelInfo(cur[p]) -> Act(p, "cancelled")
       [] ~CancelInfo(cur[p]) /\ DeadlinePassed(p) -> Act(p, "timeout")
       [] OTHER -> \/ /\ Blocking(p) /\ ~connected[Origin(p)]
                      /\ Act(p, "client_aborted")
                   \/ Goto(p, "await") /\ UNCHANGED dec
  /\ UNCHANGED <<recordVars, decisionVars, worldVars, adoptVars, cur, holding,
                 res, cancelVars, seenVars>>

\* Consume of the waiter's own decision; whether it wins is not looked at.
ConsumeOwn(p) ==
  /\ pc[p] = "consume"
  /\ Consume(cur[p], dec[p])
  /\ Goto(p, "result")
  /\ UNCHANGED <<recordVars, cancel, result, worldVars, adoptVars, cur, dec,
                 holding, res, cancelVars, seenVars>>

\* The result of a petition that was not approved.  adoptOne writes the same
\* empty result whatever the decision; only confirm names its timeout.
Outcome(p) ==
  CASE dec[p] = "timeout" /\ Confirming(p) -> Res("minus1", "confirmation_timeout")
    [] /\ dec[p] \in {"cancelled", "client_aborted"}
       /\ Confirming(p) \/ ~Adopted(p) -> Res("minus1", dec[p])
    [] OTHER -> Res("minus1", "empty")

SaveOwn(p) ==
  /\ pc[p] = "result"
  /\ SaveResult(cur[p], Outcome(p))
  /\ Goto(p, AfterResult(p))
  /\ UNCHANGED <<recordVars, verdict, cancel, worldVars, adoptVars, cur, dec,
                 holding, res, cancelVars, seenVars>>

\* confirm: a second petition for the same command is saved under a fresh id,
\* with the pin of the first, and the waiter goes on to wait for that one.
Confirm(p) ==
  /\ pc[p] = "confirm"
  /\ \E k \in Rid :
       /\ step[k] = "none"
       /\ step' = [step EXCEPT ![k] = "confirm"]
       /\ of' = [of EXCEPT ![k] = Origin(p)]
       /\ opt' = [opt EXCEPT ![k] = opt[Origin(p)]]
       /\ pinned' = [pinned EXCEPT ![k] = pinned[Origin(p)]]
       /\ cur' = [cur EXCEPT ![p] = k]
  /\ Goto(p, "await")
  /\ UNCHANGED <<decisionVars, worldVars, adoptVars, dec, holding, res,
                 cancelVars, seenVars>>

\* runApproved up to the start of the command, for the petition the requester
\* made. A gate refuses: a seal, entrypoint or git pin of the record no longer
\* matches what is on disk. Or runPinned returns with nothing run (execIdentity
\* or target_user refused, drift at its own second look, no start, dry run),
\* which runApproved treats as a run. Or the command starts.
Execute(p) ==
  /\ pc[p] = "run"
  /\ \/ /\ SaveResult(cur[p], Res("minus1", "drift"))
        /\ dec' = [dec EXCEPT ![p] = "blocked"]
        /\ res' = [res EXCEPT ![p] = Res("code", "empty")]
        /\ Goto(p, AfterResult(p))
        /\ UNCHANGED executed
     \/ /\ res' = [res EXCEPT ![p] = Res("code", "text")]
        /\ Goto(p, "ran")
        /\ UNCHANGED <<result, dec, executed>>
     \/ /\ executed' = [executed EXCEPT ![Root(cur[p])] = @ + 1]
        /\ Goto(p, "running")
        /\ UNCHANGED <<result, dec, res>>
  /\ UNCHANGED <<recordVars, verdict, cancel, worldVars, adoptVars, cur,
                 holding, cancelVars, printed, answer, toldCancelled, crashes>>

\* The command ends, or is killed at EXEC_TIMEOUT; the exit of one that died of
\* a signal is -1. One without a timeout, or with a descendant that escaped
\* with its output pipe, may never get here.
CommandEnds(p) ==
  /\ pc[p] = "running"
  /\ \E e \in Endings : /\ res' = [res EXCEPT ![p] = e]
                        /\ printed' = [printed EXCEPT ![Root(cur[p])] = e]
  /\ Goto(p, "ran")
  /\ UNCHANGED <<recordVars, decisionVars, worldVars, adoptVars, cur, dec,
                 holding, cancelVars, executed, answer, toldCancelled, crashes>>

\* The result of runPinned, whatever it was; the client will read "allowed".
SaveRan(p) ==
  /\ pc[p] = "ran"
  /\ SaveResult(cur[p], res[p])
  /\ Goto(p, AfterResult(p))
  /\ UNCHANGED <<recordVars, verdict, cancel, worldVars, adoptVars, cur, dec,
                 holding, res, cancelVars, seenVars>>

\* confirm copies the outcome to the parent: SaveResult(rid1, res.Exit,
\* res.Output) after runApproved, whose refusals leave both fields zero.
ParentOutcome(p) == IF dec[p] \in {"approve", "blocked"} THEN res[p] ELSE Outcome(p)

SaveParent(p) ==
  /\ pc[p] = "parent"
  /\ SaveResult(Origin(p), ParentOutcome(p))
  /\ Goto(p, "finish")
  /\ UNCHANGED <<recordVars, verdict, cancel, worldVars, adoptVars, cur, dec,
                 holding, res, cancelVars, seenVars>>

\* Mutation: an adopted waiter forgets the pin stored in its record.
HoldsInMemoryOnly(p) == holding[p]

\* Mutation: only some exits of the handler resume the group.
HoldsUnlessApproved(p) == holding[p] /\ dec[p] = "approve"

\* The pin a returning waiter releases: the one in its stack, or, adopted,
\* the one stored in its own record.
Held(p) == IF Adopted(p) THEN pinned[Origin(p)] ELSE holding[p]

\* The deferred resume, then the answer to a blocking client.
Finish(p) ==
  /\ pc[p] = "finish"
  /\ Resume(Origin(p), Held(p))
  /\ answer' = [answer EXCEPT ![Origin(p)] =
                  IF ~Blocking(p) THEN @
                  ELSE IF dec[p] = "approve" THEN "allowed" ELSE "denied"]
  /\ Goto(p, "idle")
  /\ cur' = [cur EXCEPT ![p] = Origin(p)]
  /\ dec' = [dec EXCEPT ![p] = "none"]
  /\ holding' = [holding EXCEPT ![p] = FALSE]
  /\ res' = [res EXCEPT ![p] = NoResult]
  /\ UNCHANGED <<recordVars, decisionVars, clock, connected, adoptVars,
                 cancelVars, executed, printed, toldCancelled, crashes>>

Waiter(p) == \/ Suspend(p) \/ Pin(p) \/ AwaitVerdict(p) \/ AwaitOtherwise(p)
             \/ ConsumeOwn(p) \/ SaveOwn(p) \/ Confirm(p) \/ Execute(p)
             \/ CommandEnds(p) \/ SaveRan(p) \/ SaveParent(p) \/ Finish(p)

------------------------------------------------------------------------------
\* The operator, the clients and the clocks

\* Submit of an admin, or a button of the Telegram card that TelegramPump
\* passes on: neither looks at the record, its expiry or a cancellation.
Submit(r, d) ==
  /\ up
  /\ step[r] # "none"
  /\ Consume(r, d)
  /\ UNCHANGED <<recordVars, cancel, result, worldVars, adoptVars, waiterVars,
                 cancelVars, seenVars>>

\* The blocking client goes away: its handler's read of one byte returns.
Disconnect(r) ==
  /\ connected[r]
  /\ connected' = [connected EXCEPT ![r] = FALSE]
  /\ UNCHANGED <<recordVars, decisionVars, clock, stopped, adoptVars,
                 waiterVars, cancelVars, seenVars>>

\* A deadline comes nearer.  A confirmation was saved after its parent with
\* the same TIMEOUT, so its clock is never ahead of its parent's.
Tick(r) ==
  /\ step[r] # "none"
  /\ \/ /\ clock[r] = "live"
        /\ step[r] = "confirm" => clock[of[r]] # "live"
        /\ clock' = [clock EXCEPT ![r] = "recExpired"]
     \/ /\ clock[r] = "recExpired"
        /\ step[r] = "confirm" => clock[of[r]] = "expired"
        /\ clock' = [clock EXCEPT ![r] = "expired"]
  /\ UNCHANGED <<recordVars, decisionVars, stopped, connected, adoptVars,
                 waiterVars, cancelVars, seenVars>>

------------------------------------------------------------------------------
\* Cancel, called by an admin or the petition's own uid (anyone else is turned
\* away before anything is read or written).

\* The four tests that make Cancel idempotent; k is the confirmation of r that
\* FindConfirmation returned, NoRid if there is none.
AlreadyCancelled(r, k) ==
  \/ CancelInfo(r)
  \/ Verdict(r) = "cancelled"
  \/ step[r] = "confirm" /\ CancelInfo(of[r])
  \/ step[r] = "initial" /\ k # NoRid /\ CancelInfo(k)

\* Mutation: a parent is cancelled too, whether there is one or not.
CancelPlanWithParent(r, k) ==
  IF Verdict(r) = "none" /\ Unexpired(r) THEN <<r, of[r]>> ELSE <<>>

\* The petitions that a Cancel of r writes to, in order: a confirmation and
\* then its parent, whichever of the two was named.  Empty when Cancel
\* refuses: already decided, denied, executed or expired.
CancelPlan(r, k) ==
  IF step[r] = "confirm"
  THEN IF Verdict(r) = "none" /\ Unexpired(r) THEN <<r, of[r]>> ELSE <<>>
  ELSE CASE Verdict(r) = "approve" ->
              IF /\ k # NoRid
                 /\ Verdict(k) \in {"none", "cancelled"} /\ Unexpired(k)
                THEN <<k, r>> ELSE <<>>
         [] Verdict(r) = "deny" -> <<>>
         [] Verdict(r) = "none" -> IF Unexpired(r) THEN <<r>> ELSE <<>>
         [] OTHER -> <<r>>

\* The checks of Cancel.  They are one step here: what matters is that the
\* writes below come later, when the answers may no longer be true.  A refusal
\* changes nothing and is left out.
CancelCheck(c, r) ==
  /\ up
  /\ cpc[c] = "idle"
  /\ step[r] # "none"
  /\ \E k \in IF Confirmations(r) = {} THEN {NoRid} ELSE Confirmations(r) :
       \/ /\ AlreadyCancelled(r, k)
          /\ toldCancelled' = toldCancelled \cup {r}
          /\ UNCHANGED cancelVars
       \/ /\ ~AlreadyCancelled(r, k)
          /\ CancelPlan(r, k) # <<>>
          /\ ctodo' = [ctodo EXCEPT ![c] = CancelPlan(r, k)]
          /\ crid' = [crid EXCEPT ![c] = r]
          /\ cpc' = [cpc EXCEPT ![c] = "cancel"]
          /\ UNCHANGED toldCancelled
  /\ UNCHANGED <<recordVars, decisionVars, worldVars, adoptVars, waiterVars,
                 executed, printed, answer, crashes>>

CancelGoto(c, l) == cpc' = [cpc EXCEPT ![c] = l] /\ UNCHANGED <<ctodo, crid>>

\* Store.Cancel, Store.Consume("cancelled") and SaveResult for the petition at
\* hand; the booleans that the first two return are dropped.
CancelWrite(c) ==
  /\ \/ /\ cpc[c] = "cancel"
        /\ WriteCancel(Head(ctodo[c]))
        /\ CancelGoto(c, "consume")
        /\ UNCHANGED <<verdict, result>>
     \/ /\ cpc[c] = "consume"
        /\ Consume(Head(ctodo[c]), "cancelled")
        /\ CancelGoto(c, "result")
        /\ UNCHANGED <<cancel, result>>
     \/ /\ cpc[c] = "result"
        /\ SaveResult(Head(ctodo[c]), Res("minus1", "cancelled"))
        /\ CancelGoto(c, "resume")
        /\ UNCHANGED <<verdict, cancel>>
  /\ UNCHANGED <<recordVars, worldVars, adoptVars, waiterVars, seenVars>>

\* resumeStored, then the next petition or the answer.
CancelResume(c) ==
  /\ cpc[c] = "resume"
  /\ Resume(Head(ctodo[c]), pinned[Head(ctodo[c])])
  /\ ctodo' = [ctodo EXCEPT ![c] = Tail(@)]
  /\ IF Len(ctodo[c]) > 1
       THEN /\ cpc' = [cpc EXCEPT ![c] = "cancel"]
            /\ UNCHANGED <<crid, toldCancelled>>
       ELSE /\ cpc' = [cpc EXCEPT ![c] = "idle"]
            /\ crid' = [crid EXCEPT ![c] = NoRid]
            /\ toldCancelled' = toldCancelled \cup {crid[c]}
  /\ UNCHANGED <<recordVars, decisionVars, clock, connected, adoptVars,
                 waiterVars, executed, printed, answer, crashes>>

------------------------------------------------------------------------------
\* Crash, restart and adoption

\* The daemon dies: goroutines and sockets go, files and stopped groups stay.
Crash ==
  /\ up
  /\ crashes < MaxCrashes
  /\ crashes' = crashes + 1
  /\ up' = FALSE
  /\ orphans' = {}
  /\ connected' = [r \in Rid |-> FALSE]
  /\ pc' = [p \in Proc |-> "idle"]
  /\ cur' = [p \in Proc |-> Origin(p)]
  /\ dec' = [p \in Proc |-> "none"]
  /\ holding' = [p \in Proc |-> FALSE]
  /\ res' = [p \in Proc |-> NoResult]
  /\ cpc' = [c \in Canceller |-> "idle"]
  /\ ctodo' = [c \in Canceller |-> <<>>]
  /\ crid' = [c \in Canceller |-> NoRid]
  /\ UNCHANGED <<recordVars, decisionVars, clock, stopped, scan, executed,
                 printed, answer, toldCancelled>>

Restart ==
  /\ ~up
  /\ up' = TRUE
  /\ scan' = "due"
  /\ UNCHANGED <<recordVars, decisionVars, worldVars, orphans, waiterVars,
                 cancelVars, seenVars>>

\* Mutation: adoption runs again while the daemon serves.
ScanAlwaysDue == TRUE

\* Serve starts AdoptOrphans once.
ScanDue == scan = "due"

\* AdoptOrphans takes Store.List of this second.
AdoptScan ==
  /\ up
  /\ ScanDue
  /\ scan' = "done"
  /\ orphans' = {r \in Rid : Listed(r)}
  /\ UNCHANGED <<recordVars, decisionVars, worldVars, up, waiterVars,
                 cancelVars, seenVars>>

\* One turn of its loop: a petition decided since is skipped, any other gets a
\* waiter of its own.  Its branch for expired records is dead code: the same
\* clock reading has already filtered the list.
AdoptOne(r) ==
  /\ r \in orphans
  /\ orphans' = orphans \ {r}
  /\ IF Verdict(r) = "none" THEN Goto(<<r, "adopt">>, "await")
                            ELSE UNCHANGED pc
  /\ UNCHANGED <<recordVars, decisionVars, worldVars, up, scan, cur, dec,
                 holding, res, cancelVars, seenVars>>

------------------------------------------------------------------------------

Next ==
  \/ \E r \in Rid, o \in Requests : Request(r, o)
  \/ \E p \in Proc : Waiter(p)
  \/ \E r \in Rid, d \in {"approve", "deny"} : Submit(r, d)
  \/ \E r \in Rid : Disconnect(r) \/ Tick(r) \/ AdoptOne(r)
  \/ \E c \in Canceller, r \in Rid : CancelCheck(c, r)
  \/ \E c \in Canceller : CancelWrite(c) \/ CancelResume(c)
  \/ Crash \/ Restart \/ AdoptScan

Spec == Init /\ [][Next]_vars

\* The Go scheduler runs every goroutine that can run, time passes, and the
\* supervisor or systemd restarts a dead daemon.  Nothing obliges the operator
\* to answer, a client to disconnect, anyone to cancel or a command to end.
Fairness ==
  /\ \A p \in Proc : WF_vars(Waiter(p) /\ pc[p] # "running")
  /\ \A r \in Rid : WF_vars(Tick(r)) /\ WF_vars(AdoptOne(r))
  /\ \A c \in Canceller : WF_vars(CancelWrite(c) \/ CancelResume(c))
  /\ WF_vars(Restart)
  /\ WF_vars(AdoptScan)

FairSpec == Spec /\ Fairness

------------------------------------------------------------------------------
\* Safety

\* Every approval that petition r needs is recorded: its own, and the one of
\* a confirmation if its command is on the policy's confirm list.
Approved(r) == /\ step[r] = "initial"
               /\ Verdict(r) = "approve"
               /\ opt[r].confirm => \E k \in Confirmations(r) : Verdict(k) = "approve"

\* A command never runs without its approvals, whichever of the waiters gets
\* there, whatever was submitted late or twice, and across restarts (the
\* claim of README.md: "Fail closed on every path").
ExecutedOnlyIfApproved == \A r \in Rid : executed[r] > 0 => Approved(r)

\* A petition's command runs at most once: not again after a crash between the
\* verdict, the run and its result, and not once more by an adopted waiter.
\* (AdoptOrphans must take its list before requests are served.)
AtMostOnce == \A r \in Rid : executed[r] <= 1

\* Texts of a result that Status and Recent take for an outcome, and a result
\* that holds one because the command of r itself printed it.
InBand == {"cancelled", "client_aborted", "confirmation_timeout", "drift"}
Misread(r) == result[r] = printed[Root(r)] /\ result[r].out \in InBand

\* The answer a blocking client got is true for ever.  "denied" means that the
\* command never runs, although the verdict file of a timed-out petition stays
\* open to a late approval.  "allowed" means that it was approved and that
\* Status reports it as completed from then on, unless someone cancels it late
\* or it printed one of the texts itself.
AnswersTrue ==
  \A r \in Rid :
    /\ answer[r] = "denied" => executed[r] = 0
    /\ answer[r] = "allowed" => /\ Approved(r)
                               /\ \/ Status(r) \in {"completed", "cancelled"}
                                  \/ Misread(r)

\* Status never reports a petition as undecided, refused, timed out or given up
\* when its command was started: the states it derives from four files written
\* by several goroutines agree with what happened, unless the command printed
\* what Status takes for an outcome.  ("cancelled" is not in the set: see
\* CancelledNeverRuns.)
StatusNeverDeniesARun ==
  \A r \in Rid :
    Status(r) \in {"not_found", "pending", "confirming", "deny", "denied",
                   "timeout", "client_aborted"}
      => executed[Root(r)] = 0 \/ Misread(r)

\* Nor does the list of recent petitions show a command that was started as
\* refused, timed out or given up, unless that command ended with exit -1 and
\* printed such a text.
RecentTellsRuns ==
  \A r \in Rid :
    InRecent(r) /\ RecentDecision(r) \in {"deny", "timeout", "client_aborted"}
      => executed[Root(r)] = 0 \/ (Misread(r) /\ result[r].exit = "minus1")

\* The requesting group stays stopped while a waiter that holds it waits for
\* the operator, through the confirmation and after a restart, unless someone
\* cancels, another petition of the same group ends, or a half-written verdict
\* has made the petition undecidable.
Alone(p) == \A r \in Rid : (step[r] = "initial" /\ opt[r].group = opt[Origin(p)].group)
                             => r = Root(Origin(p))
HeldWhileReviewed ==
  \A p \in Proc :
    (/\ pc[p] \in {"await", "poll"}
     /\ Held(p) /\ Alone(p)
     /\ cancel[cur[p]] = "none" /\ cancel[Root(cur[p])] = "none"
     /\ verdict[cur[p]] # "torn")
    => stopped[opt[Origin(p)].group]

\* The promise of ApprovalGate, for the petitions that requesters make.
Gate == INSTANCE ApprovalGate WITH
          Petition <- Rid,
          approved <- [r \in Rid |-> Approved(r)],
          closed <- [r \in Rid |-> answer[r] = "denied"]
ImplementsGate == Gate!Spec

------------------------------------------------------------------------------
\* Liveness

\* No waiter waits for ever for anything but the end of its command: with the
\* operator and the client silent the deadline still ends it, and when the
\* command has ended, so does its waiter.
WaitersReturn ==
  \A p \in Proc : (pc[p] # "idle") ~> (pc[p] \in {"idle", "running"})

\* While the daemon lives, every group it stops is resumed (toctou document,
\* item 4: "every exit path resumes"), or waits for a command of its own.
Running(g) == \E p \in Proc : pc[p] = "running" /\ opt[Origin(p)].group = g
GroupsResumed ==
  \A g \in Group : stopped[g] ~> (~stopped[g] \/ Running(g) \/ crashes > 0)

\* A petition that a restarted daemon adopts is driven to a stored result and
\* the group pinned in its record is resumed, unless the daemon dies again or
\* the command it runs does not end.
AdoptedSettle ==
  \A r \in Rid :
    (pc[<<r, "adopt">>] # "idle") ~>
      \/ ~up \/ pc[<<r, "adopt">>] = "running"
      \/ result[r] # NoResult /\ (pinned[r] => ~stopped[opt[r].group])

------------------------------------------------------------------------------
\* What the documents say and the code does not do; each is refuted by a run.

\* service.go:534: "AdoptOrphans re-attaches waiters to petitions persisted on
\* disk that lost their in-memory goroutine across a daemon restart."  Serve
\* runs it beside the accept loop, so it also adopts a petition saved since the
\* start, whose goroutine is alive; both then run its command.
AdoptsOnlyOrphans ==
  \A r, s \in Rid : (pc[<<r, "adopt">>] # "idle" /\ pc[<<s, "serve">>] # "idle")
                       => Root(r) # Root(s)

\* protocol.go:74: "Cancelled is true if the petition was successfully
\* cancelled or already cancelled idempotently."  Cancel drops the results of
\* Store.Cancel and Consume, so an approval that lands after its checks runs
\* the command of a petition it reports as cancelled.
CancelledNeverRuns == \A r \in toldCancelled : executed[Root(r)] = 0
==============================================================================
