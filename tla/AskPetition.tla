----------------------------- MODULE AskPetition -----------------------------
(***************************************************************************)
(* An ask or notify petition: nothing is executed, the operator answers a  *)
(* question (one option, or several options and Submit) or acknowledges a  *)
(* notice.  Besides the decision files the record <rid>.json itself is     *)
(* shared here: AttachPager and SetSelectedIdxs each load it, change their *)
(* field and save all of it, and Save truncates the file before it writes. *)
(*                                                                         *)
(* Goroutines: the handler of the request, TelegramPump (one press after   *)
(* the other), Cancel, and handlers of select and ack from the socket.     *)
(***************************************************************************)
EXTENDS Naturals, FiniteSets

CONSTANTS
  Options,     \* the options of the question, for each kind of petition to consider
  MaxCrashes,  \* bound on daemon crashes
  TornWrites   \* TRUE: the write of a decision file may fail half way

ASSUME AskAssumption ==
  /\ DOMAIN Options \subseteq {"ask", "multi", "notify"}
  /\ MaxCrashes \in Nat
  /\ TornWrites \in BOOLEAN

Kinds == DOMAIN Options
Option == UNION {Options[k] : k \in Kinds}

VARIABLES
  \* files
  kind,        \* Kind and MultiSelect of the record
  file,        \* the record file: none, empty (truncated), whole, or corrupt
  pager,       \* ChatID and MsgID are set in it
  idxs,        \* SelectedIdxs in it
  selection, chosen,   \* <rid>.selection and the options it names
  cancel, ack,         \* <rid>.cancel, <rid>.ack
  \* the world
  clock,       \* live, recExpired (Expires <= now in seconds), expired
  connected,   \* the asking client still holds its socket
  card,        \* the Telegram card: none, live (with buttons), closed
  shown,       \* the options it shows as ticked
  inbox,       \* a press that Poll has passed on and the pump has not taken
  \* memory of the daemon
  up,
  apc, acopy, out,     \* the handler: position, record copy, outcome
  ppc, press, pseen, pcopy, pnext,   \* the pump: position, press, pager at
               \* its first and second load, the set it will write
  cpc,         \* Cancel: position
  kpc,         \* a socket ack: position
  adopted,     \* after a restart a waiter of AdoptOrphans exists
  \* what the outside has seen
  answer, got, \* what the client was told
  tapped,      \* the options ticked an odd number of times
  submitted,   \* the selection on file came from Submit
  early,       \* a tick was handled before AttachPager was done
  crashes

recVars == <<kind, file, pager, idxs>>
decisionVars == <<selection, chosen, cancel, ack>>
cardVars == <<card, shown>>
handlerVars == <<apc, acopy, out>>
pumpVars == <<ppc, press, pseen, pcopy, pnext>>
answerVars == <<answer, got>>
tapVars == <<tapped, submitted, early>>
vars == <<recVars, decisionVars, clock, connected, cardVars, inbox, up,
          handlerVars, pumpVars, cpc, kpc, adopted, answerVars, tapVars, crashes>>

------------------------------------------------------------------------------

NoPress == [button |-> "none", opts |-> {}]

\* The buttons of the three cards: a toggle and Submit, one option, Ack.
Presses == [button : {"toggle", "option"}, opts : {{o} : o \in Option}]
             \cup [button : {"submit", "ack"}, opts : {{}}]

RecordTyped ==
  /\ kind \in Kinds
  /\ file \in {"none", "empty", "whole", "corrupt"}
  /\ pager \in BOOLEAN
  /\ idxs \subseteq Option

DecisionsTyped ==
  /\ {selection, cancel, ack} \subseteq {"none", "torn", "written"}
  /\ chosen \subseteq Option

WorldTyped ==
  /\ clock \in {"live", "recExpired", "expired"}
  /\ connected \in BOOLEAN
  /\ card \in {"none", "live", "closed"}
  /\ shown \subseteq Option
  /\ inbox \in Presses \cup {NoPress}

HandlerTyped ==
  /\ apc \in {"idle", "page", "attach", "truncate", "write", "await", "poll",
              "aborted", "close", "done"}
  /\ acopy \subseteq Option
  /\ out \in {"none", "selected", "timeout", "cancelled", "client_aborted"}
  /\ answer \in {"none", "pending", "selected", "timeout", "cancelled",
                 "client_aborted"}
  /\ got \subseteq Option

PumpTyped ==
  /\ ppc \in {"idle", "reload", "truncate", "write", "repaint", "record", "close"}
  /\ press \in Presses \cup {NoPress}
  /\ pseen \in BOOLEAN /\ pcopy \in BOOLEAN
  /\ pnext \subseteq Option
  /\ tapped \subseteq Option
  /\ submitted \in BOOLEAN /\ early \in BOOLEAN

DaemonTyped ==
  /\ up \in BOOLEAN /\ adopted \in BOOLEAN
  /\ cpc \in {"idle", "write", "close"}
  /\ kpc \in {"idle", "close"}
  /\ crashes \in 0..MaxCrashes

TypeOK == /\ RecordTyped /\ DecisionsTyped /\ WorldTyped
          /\ HandlerTyped /\ PumpTyped /\ DaemonTyped

Init ==
  /\ kind \in Kinds
  /\ file = "none" /\ pager = FALSE /\ idxs = {}
  /\ selection = "none" /\ chosen = {} /\ cancel = "none" /\ ack = "none"
  /\ clock = "live" /\ connected = FALSE
  /\ card = "none" /\ shown = {} /\ inbox = NoPress
  /\ up = TRUE
  /\ apc = "idle" /\ acopy = {} /\ out = "none"
  /\ ppc = "idle" /\ press = NoPress /\ pseen = FALSE /\ pcopy = FALSE /\ pnext = {}
  /\ cpc = "idle" /\ kpc = "idle" /\ adopted = FALSE
  /\ answer = "none" /\ got = {}
  /\ tapped = {} /\ submitted = FALSE /\ early = FALSE
  /\ crashes = 0

------------------------------------------------------------------------------
\* The files.  Operators whose comment begins with "Mutation:" are altered forms
\* of the definition after them; they show that the properties notice the bug
\* they name and are used nowhere else.

Loads == file = "whole"       \* Store.Load succeeds
SelectionInfo == selection = "written"
CancelInfo == cancel = "written"
AckInfo == ack = "written"
Unexpired == clock = "live"

\* The end of Save: the JSON is written at the beginning of the file.  If
\* another Save has written since this one truncated the file, the longer of
\* the two texts may stick out at the end and spoil it.
Written(pg, set) ==
  /\ file' \in IF file = "empty" THEN {"whole"} ELSE {"whole", "corrupt"}
  /\ pager' = pg
  /\ idxs' = set
  /\ UNCHANGED kind

\* Mutation: O_TRUNC instead of O_EXCL: a half done write leaves no content.
Truncating(f) == {"written"} \cup (IF TornWrites THEN {"empty"} ELSE {})

\* O_CREATE|O_EXCL, then a write that may fail.
Exclusive(f) == IF f # "none" THEN {f}
                ELSE {"written"} \cup (IF TornWrites THEN {"torn"} ELSE {})

\* Mutation: the selection file is opened without O_EXCL.
RecordAgain(set, bySubmit) ==
  /\ Loads /\ kind # "notify"
  /\ selection' = "written"
  /\ chosen' = set
  /\ submitted' = bySubmit

\* selectRecord: of an ask petition only; neither its expiry nor its
\* cancellation is looked at.
Record(set, bySubmit) ==
  IF Loads /\ kind # "notify" /\ selection = "none"
  THEN /\ selection' \in Exclusive(selection)
       /\ chosen' = set
       /\ submitted' = bySubmit
  ELSE UNCHANGED <<selection, chosen, submitted>>

\* closeAskCard, closeNotifyCard, closeCard: without a readable record that
\* knows its card they do nothing.
CloseCard ==
  IF Loads /\ pager THEN card' = "closed" /\ shown' = {}
                    ELSE UNCHANGED cardVars

\* Mutation: an expired petition is reported before its answer is looked for.
StatusByClock ==
  IF ~Loads THEN "not_found"
  ELSE IF ~Unexpired THEN "timeout"
  ELSE IF CancelInfo THEN "cancelled"
  ELSE IF kind # "notify" /\ SelectionInfo THEN "selected"
  ELSE IF kind = "notify" /\ AckInfo THEN "acked"
  ELSE "pending"

\* Store.Status of the two kinds.
Status ==
  IF ~Loads THEN "not_found"
  ELSE IF CancelInfo THEN "cancelled"
  ELSE IF kind # "notify" /\ SelectionInfo THEN "selected"
  ELSE IF kind = "notify" /\ AckInfo THEN "acked"
  ELSE IF Unexpired THEN "pending"
  ELSE "timeout"

------------------------------------------------------------------------------
\* The handler of the request.

\* AskWithCancel and Notify save the record; its id is known to nobody yet.
Create ==
  /\ up /\ file = "none" /\ apc = "idle"
  /\ file' = "whole"
  /\ connected' = (kind # "notify")
  /\ apc' = "page"
  /\ UNCHANGED <<kind, pager, idxs, decisionVars, clock, cardVars, inbox, up,
                 acopy, out, pumpVars, cpc, kpc, adopted, answerVars, tapVars,
                 crashes>>

\* An ask waits for its answer; a notice is answered "pending" at once.
Paged == IF kind = "notify"
           THEN apc' = "done" /\ answer' = "pending"
           ELSE apc' = "await" /\ UNCHANGED answer

\* pageAsk, pageNotify: the card is sent, or it cannot be.
Page ==
  /\ apc = "page"
  /\ \/ /\ card' = "live"
        /\ apc' = "attach"
        /\ UNCHANGED answer
     \/ /\ Paged
        /\ UNCHANGED card
  /\ UNCHANGED <<recVars, decisionVars, clock, connected, shown, inbox, up, acopy,
                 out, pumpVars, cpc, kpc, adopted, got, tapVars, crashes>>

\* AttachPager: load, then save the copy with the card's ids in it.
AttachLoad ==
  /\ apc = "attach"
  /\ IF Loads THEN apc' = "truncate" /\ acopy' = idxs /\ UNCHANGED answer
              ELSE Paged /\ UNCHANGED acopy
  /\ UNCHANGED <<recVars, decisionVars, clock, connected, cardVars, inbox, up,
                 out, pumpVars, cpc, kpc, adopted, got, tapVars, crashes>>

AttachSave ==
  /\ \/ /\ apc = "truncate"
        /\ file' = "empty"
        /\ apc' = "write"
        /\ UNCHANGED <<kind, pager, idxs, answer, acopy>>
     \/ /\ apc = "write"
        /\ Written(TRUE, acopy)
        /\ acopy' = {}
        /\ Paged
  /\ UNCHANGED <<decisionVars, clock, connected, cardVars, inbox, up, out,
                 pumpVars, cpc, kpc, adopted, got, tapVars, crashes>>

Leave(o) == apc' = "close" /\ out' = o

\* awaitSelection, first test of a round.
AwaitSelection ==
  /\ apc = "await"
  /\ IF SelectionInfo THEN Leave("selected") /\ got' = chosen
                      ELSE apc' = "poll" /\ UNCHANGED <<out, got>>
  /\ UNCHANGED <<recVars, decisionVars, clock, connected, cardVars, inbox, up,
                 acopy, pumpVars, cpc, kpc, adopted, answer, tapVars, crashes>>

\* Mutation: the waiter never looks at the clock.
NeverTimesOut == FALSE

\* time.Now().After(expires).
DeadlinePassed == clock = "expired"

\* The rest of the round: cancellation, deadline, disconnect or the next tick.
AwaitOtherwise ==
  /\ apc = "poll"
  /\ IF CancelInfo THEN apc' = "aborted" /\ UNCHANGED out
     ELSE IF DeadlinePassed THEN Leave("timeout")
     ELSE \/ /\ ~connected
             /\ apc' = "aborted" /\ UNCHANGED out
          \/ apc' = "await" /\ UNCHANGED out
  /\ UNCHANGED <<recVars, decisionVars, clock, connected, cardVars, inbox, up,
                 acopy, pumpVars, cpc, kpc, adopted, answerVars, tapVars, crashes>>

\* Which of the two ended the wait is found out by a second look.
Aborted ==
  /\ apc = "aborted"
  /\ Leave(IF CancelInfo THEN "cancelled" ELSE "client_aborted")
  /\ UNCHANGED <<recVars, decisionVars, clock, connected, cardVars, inbox, up,
                 acopy, pumpVars, cpc, kpc, adopted, answerVars, tapVars, crashes>>

\* closeAskCard, then the answer.
Finish ==
  /\ apc = "close"
  /\ CloseCard
  /\ answer' = out
  /\ apc' = "done" /\ out' = "none"
  /\ UNCHANGED <<recVars, decisionVars, clock, connected, inbox, up, acopy,
                 pumpVars, cpc, kpc, adopted, got, tapVars, crashes>>

Handler == \/ Page \/ AttachLoad \/ AttachSave \/ AwaitSelection
           \/ AwaitOtherwise \/ Aborted \/ Finish

------------------------------------------------------------------------------
\* The operator's phone and TelegramPump.

\* What the buttons of the card send; Poll answers a Submit with nothing ticked
\* by itself.
Buttons == IF card # "live" THEN {}
           ELSE CASE kind = "ask" -> {b \in Presses : b.button = "option" /\ b.opts \subseteq Options[kind]}
                  [] kind = "notify" -> {b \in Presses : b.button = "ack"}
                  [] kind = "multi" -> {b \in Presses :
                       \/ b.button = "toggle" /\ b.opts \subseteq Options[kind]
                       \/ b.button = "submit" /\ shown # {}}

Press(b) ==
  /\ inbox = NoPress
  /\ b \in Buttons
  /\ inbox' = b
  /\ UNCHANGED <<recVars, decisionVars, clock, connected, cardVars, up,
                 handlerVars, pumpVars, cpc, kpc, adopted, answerVars, tapVars,
                 crashes>>

\* The pump takes the press b from the channel; it holds it until it has
\* handled it, and takes no other meanwhile.
Takes(b) == up /\ ppc = "idle" /\ inbox = b /\ inbox' = NoPress

\* Mutation: a second tick of an option does not take it back.
ToggleAdds(set, opts) == set \cup opts

\* toggleIdx: the set with one option flipped.
ToggleIdx(set, opts) == (set \ opts) \cup (opts \ set)

Handled == /\ ppc' = "idle" /\ press' = NoPress
           /\ pseen' = FALSE /\ pcopy' = FALSE /\ pnext' = {}

\* toggleAsk up to SetSelectedIdxs: load, look whether it is still open, flip.
ToggleLoad(b) ==
  /\ Takes(b) /\ b.button = "toggle"
  /\ IF Loads /\ ~SelectionInfo /\ ~CancelInfo
       THEN /\ ppc' = "reload"
            /\ press' = b
            /\ pseen' = pager
            /\ pnext' = ToggleIdx(idxs, b.opts)
            /\ early' = (early \/ apc \in {"attach", "truncate", "write"})
            /\ UNCHANGED pcopy
       ELSE Handled /\ UNCHANGED early
  /\ UNCHANGED <<recVars, decisionVars, clock, connected, cardVars, up,
                 handlerVars, cpc, kpc, adopted, answerVars, tapped, submitted,
                 crashes>>

\* SetSelectedIdxs loads the record again, and saves that copy with the set.
ToggleReload ==
  /\ ppc = "reload"
  /\ IF Loads THEN /\ ppc' = "truncate" /\ pcopy' = pager
                  /\ UNCHANGED <<press, pseen, pnext>>
              ELSE Handled
  /\ UNCHANGED <<recVars, decisionVars, clock, connected, cardVars, inbox, up,
                 handlerVars, cpc, kpc, adopted, answerVars, tapVars, crashes>>

ToggleSave ==
  /\ \/ /\ ppc = "truncate"
        /\ file' = "empty"
        /\ ppc' = "write"
        /\ UNCHANGED <<kind, pager, idxs, tapped>>
     \/ /\ ppc = "write"
        /\ Written(pcopy, pnext)
        /\ ppc' = "repaint"
        /\ tapped' = (tapped \ press.opts) \cup (press.opts \ tapped)
  /\ UNCHANGED <<decisionVars, clock, connected, cardVars, inbox, up, handlerVars,
                 press, pseen, pcopy, pnext, cpc, kpc, adopted, answerVars,
                 submitted, early, crashes>>

\* EditMarkup, if the first copy knew the card; it paints buttons on whatever
\* the card shows by now.
Repaint ==
  /\ ppc = "repaint"
  /\ IF pseen THEN card' = "live" /\ shown' = pnext ELSE UNCHANGED cardVars
  /\ Handled
  /\ UNCHANGED <<recVars, decisionVars, clock, connected, inbox, up, handlerVars,
                 cpc, kpc, adopted, answerVars, tapVars, crashes>>

\* submitAsk, or the option of a single-select card: the options to record.
AnswerLoad(b) ==
  /\ Takes(b) /\ b.button \in {"submit", "option"}
  /\ LET set == IF b.button = "submit" THEN idxs ELSE b.opts IN
     IF Loads /\ set # {}
       THEN ppc' = "record" /\ press' = b /\ pnext' = set /\ UNCHANGED <<pseen, pcopy>>
       ELSE Handled
  /\ UNCHANGED <<recVars, decisionVars, clock, connected, cardVars, up,
                 handlerVars, cpc, kpc, adopted, answerVars, tapVars, crashes>>

\* SelectMany or Select, which load the record once more.
AnswerRecord ==
  /\ ppc = "record"
  /\ Record(pnext, press.button = "submit")
  /\ Handled
  /\ UNCHANGED <<recVars, cancel, ack, clock, connected, cardVars, inbox, up,
                 handlerVars, cpc, kpc, adopted, answerVars, tapped, early,
                 crashes>>

\* Store.Ack: whether this call recorded the acknowledgement.  A torn write
\* answers false.
Ack(then, else) ==
  IF Loads /\ kind = "notify" /\ ack = "none"
  THEN /\ ack' \in Exclusive(ack)
       /\ IF ack' = "written" THEN then ELSE else
  ELSE else /\ UNCHANGED ack

PumpAck(b) ==
  /\ Takes(b) /\ b.button = "ack"
  /\ Ack(ppc' = "close", ppc' = "idle")
  /\ UNCHANGED <<recVars, selection, chosen, cancel, clock, connected, cardVars,
                 up, handlerVars, press, pseen, pcopy, pnext, cpc, kpc, adopted,
                 answerVars, tapVars, crashes>>

PumpClose ==
  /\ ppc = "close"
  /\ CloseCard
  /\ Handled
  /\ UNCHANGED <<recVars, decisionVars, clock, connected, inbox, up, handlerVars,
                 cpc, kpc, adopted, answerVars, tapVars, crashes>>

Pump == \/ \E b \in Presses : ToggleLoad(b) \/ AnswerLoad(b) \/ PumpAck(b)
        \/ ToggleReload \/ ToggleSave \/ Repaint \/ AnswerRecord \/ PumpClose

------------------------------------------------------------------------------
\* The socket: select, ack and cancel requests, and the client's disconnect.

\* The select request: any text may be sent, the options a surface offers are
\* what matters here.
Select(set) ==
  /\ up /\ set # {} /\ set \subseteq Options[kind]
  /\ kind = "ask" => Cardinality(set) = 1
  /\ Record(set, FALSE)
  /\ UNCHANGED <<recVars, cancel, ack, clock, connected, cardVars, inbox, up,
                 handlerVars, pumpVars, cpc, kpc, adopted, answerVars, tapped,
                 early, crashes>>

SocketAck ==
  /\ up
  /\ \/ /\ kpc = "idle"
        /\ Ack(kpc' = "close", kpc' = "idle")
        /\ UNCHANGED cardVars
     \/ /\ kpc = "close"
        /\ CloseCard
        /\ kpc' = "idle"
        /\ UNCHANGED ack
  /\ UNCHANGED <<recVars, selection, chosen, cancel, clock, connected, inbox, up,
                 handlerVars, pumpVars, cpc, adopted, answerVars, tapVars,
                 crashes>>

\* The checks of Cancel; a refusal, or a petition already cancelled, changes
\* nothing.
CancelCheck ==
  /\ up /\ cpc = "idle"
  /\ Loads /\ ~CancelInfo
  /\ IF kind = "notify" THEN ~AckInfo ELSE ~SelectionInfo
  /\ Unexpired
  /\ cpc' = "write"
  /\ UNCHANGED <<recVars, decisionVars, clock, connected, cardVars, inbox, up,
                 handlerVars, pumpVars, kpc, adopted, answerVars, tapVars,
                 crashes>>

\* Store.Cancel, which needs the record, and the card.
CancelWrite ==
  /\ \/ /\ cpc = "write"
        /\ IF Loads THEN cancel' \in Exclusive(cancel) ELSE UNCHANGED cancel
        /\ cpc' = "close"
        /\ UNCHANGED cardVars
     \/ /\ cpc = "close"
        /\ CloseCard
        /\ cpc' = "idle"
        /\ UNCHANGED cancel
  /\ UNCHANGED <<recVars, selection, chosen, ack, clock, connected, inbox, up,
                 handlerVars, pumpVars, kpc, adopted, answerVars, tapVars,
                 crashes>>

\* The client goes away before it has its answer.
Disconnect ==
  /\ connected /\ answer = "none"
  /\ connected' = FALSE
  /\ UNCHANGED <<recVars, decisionVars, clock, cardVars, inbox, up, handlerVars,
                 pumpVars, cpc, kpc, adopted, answerVars, tapVars, crashes>>

Tick ==
  /\ file # "none"
  /\ \/ clock = "live" /\ clock' = "recExpired"
     \/ clock = "recExpired" /\ clock' = "expired"
  /\ UNCHANGED <<recVars, decisionVars, connected, cardVars, inbox, up,
                 handlerVars, pumpVars, cpc, kpc, adopted, answerVars, tapVars,
                 crashes>>

------------------------------------------------------------------------------
\* Crash and restart.

\* The daemon dies, in the middle of a Save perhaps; a press that was on its
\* way may be lost with it.
Crash ==
  /\ up /\ crashes < MaxCrashes
  /\ crashes' = crashes + 1
  /\ up' = FALSE
  /\ connected' = FALSE
  /\ inbox' \in {inbox, NoPress}
  /\ apc' = (IF file = "none" THEN "idle" ELSE "done")
  /\ acopy' = {} /\ out' = "none"
  /\ ppc' = "idle" /\ press' = NoPress
  /\ pseen' = FALSE /\ pcopy' = FALSE /\ pnext' = {}
  /\ cpc' = "idle" /\ kpc' = "idle" /\ adopted' = FALSE
  /\ UNCHANGED <<recVars, decisionVars, clock, cardVars, answerVars, tapVars>>

\* AdoptOrphans takes up every kind of petition that List shows.
Restart ==
  /\ ~up
  /\ up' = TRUE
  /\ adopted' = (Loads /\ ~SelectionInfo /\ ~AckInfo /\ ~CancelInfo /\ Unexpired)
  /\ UNCHANGED <<recVars, decisionVars, clock, connected, cardVars, inbox,
                 handlerVars, pumpVars, cpc, kpc, answerVars, tapVars, crashes>>

\* adoptOne waits for a verdict, a cancellation or the deadline, not for a
\* selection or an acknowledgement, and closes the card.
AdoptedEnd ==
  /\ adopted
  /\ CancelInfo \/ ~Unexpired
  /\ CloseCard
  /\ adopted' = FALSE
  /\ UNCHANGED <<recVars, decisionVars, clock, connected, inbox, up, handlerVars,
                 pumpVars, cpc, kpc, answerVars, tapVars, crashes>>

------------------------------------------------------------------------------

Next ==
  \/ Create \/ Handler \/ Pump
  \/ \E b \in Presses : Press(b)
  \/ \E set \in SUBSET Option : Select(set)
  \/ SocketAck \/ CancelCheck \/ CancelWrite
  \/ Disconnect \/ Tick \/ Crash \/ Restart \/ AdoptedEnd

Spec == Init /\ [][Next]_vars

\* Goroutines run, time passes, a dead daemon is restarted; the operator, the
\* client and Cancel owe nothing.
FairSpec == /\ Spec
            /\ WF_vars(Handler) /\ WF_vars(Pump) /\ WF_vars(Tick)
            /\ WF_vars(Restart) /\ WF_vars(AdoptedEnd)

------------------------------------------------------------------------------
\* Properties

\* What the asking client is told is true and stays true: the options are the
\* ones on file, a cancellation is on file, and a timeout or a disconnect did
\* happen, whoever else answers or cancels meanwhile.
AnswerTrue ==
  /\ answer = "selected" => SelectionInfo /\ got = chosen
  /\ answer = "cancelled" => CancelInfo
  /\ answer = "timeout" => clock = "expired"
  /\ answer = "client_aborted" => ~connected

\* Status takes back what the asker was told in one case only.  An ask answered
\* selected reads as selected (unless its record is gone), except when there is a
\* cancellation on file beside the selection: Cancel looks for a selection before
\* it writes, a selection does not look for a cancellation at all, and Status reads
\* the cancellation first where the wait reads the selection first.  An ask
\* answered cancelled reads as cancelled, and one that timed out is not pending
\* again.
StatusAgrees ==
  /\ answer = "selected" =>
       \/ Status \in {"selected", "not_found"}
       \/ Status = "cancelled" /\ SelectionInfo /\ CancelInfo
  /\ answer = "cancelled" => Status \in {"cancelled", "not_found"}
  /\ answer = "timeout" => Status # "pending"

\* Submit records exactly the options ticked an odd number of times (ticks that
\* were saved), whatever else is selected, cancelled or closed meanwhile,
\* provided no tick was handled while AttachPager was rewriting the record.
SubmittedAsTapped ==
  (SelectionInfo /\ submitted /\ ~early) => chosen = tapped

\* A blocked asker is answered, though nobody may press anything.
AskReturns == (apc = "await") ~> (answer # "none" \/ crashes > 0)
==============================================================================
