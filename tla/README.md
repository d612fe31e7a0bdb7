# 2fado in TLA+

2fado puts a human between an agent and the commands it wants to run. A client
sends a request over a unix socket; the daemon's policy allows it, denies it, or
makes a *petition* of it, pages an operator, waits for a verdict, and runs the
stored command itself. This directory models the daemon's Go code
(`src/go/internal`) in TLA+, checks it with TLC and proves parts of it with
TLAPS. Paths below are relative to `src/go/internal` unless they begin with
`src/`.

## The system

| Component | State | Operations | Talks to |
|---|---|---|---|
| decision files (`store/store.go`) | `<rid>.verdict`, `.cancel`, `.ack`, `.selection` | `Consume`, `Cancel`, `Ack`, `selectRecord`; readers `Verdict`, `CancelInfo`, `AckInfo`, `SelectionInfo` | every component below; the files are the only meeting point of the goroutines |
| petition records (`store/store.go`) | `<rid>.json` | `Save`, `Load`, `AttachPager`, `SetAuthURL`, `SetPageList`, `SetSelectedIdxs` | written by handlers, the pager and the suspension barrier, without a lock |
| results and status (`store/store.go`) | `<rid>.result` | `SaveResult`, `Status`, `List`, `Recent`, `FindConfirmation` | waiters and Cancel write, everybody reads |
| exec petitions (`service/service.go`) | one goroutine per waiting petition: its decision and deadline | `RunWithPeerCancel`, `runDetached`, `confirm`, `await`, `runApproved`, `Submit`, `Status` | decision files, suspension barrier, drift gates |
| cancellation (`service/service.go`) | one goroutine per request | `Cancel` | decision files, results, suspension barrier |
| suspension barrier (`service/suspend.go`) | the stopped process group, its pin in the record | `snapshotSuspend`, `resumeSuspend`, `resumeStored` | kernel signals |
| crash recovery (`service/service.go`, `daemon/daemon.go`) | the list taken at the start | `Serve`, `AdoptOrphans`, `adoptOne` | all of the above |
| ask and notify petitions (`service/ask.go`, `notify.go`) | `.selection`, `.ack`, toggles in the record | `AskWithCancel`, `toggleAsk`, `submitAsk`, `Notify`, `Ack` | decision files, Telegram |
| Telegram intake (`telegram/telegram.go`, `service.go`) | poll offset file, channel of 64, pump | `Poll`, `StartTelegram`, `TelegramPump`, `TelegramSetConfig` | `Consume`, `Ack`, toggles |
| drift gates (`service/seal.go`, `fdpin.go`, `gitpin.go`) | pins in the record, sealed copies | `snapshot*`, `check*Drift`, `materializeSeal`, `runPinned` | file system, `runApproved` |
| bounded execution (`service/execbounds.go`) | capped output, kill timer | `startBounded`, `runBounded` | the command |
| policy (`policy/policy.go`) | the policy file, a copy per service value | `Tier`, `NeedsConfirm`, `AddRule` | `RunWithPeerCancel` |
| audit log (`store/store.go`) | an append-only file | `Append`, `AuditQuery` | everybody |
| socket (`daemon/daemon.go`) | a goroutine per connection | `serveLoop`, `handle` | everybody |
| supervisor (`src/scripts/daemon-supervisor.mjs`) | the child process | `start`, `stop`, `restart`, `status` | the daemon |

`PROJECT.json` lists the rest (previews, identity, configuration, client,
cards) with the reason each is left out.

What is hard here: there is no lock around a petition. Several goroutines
(handler, detached waiter, adopted waiter, Cancel, pump, submitter) read and write
the same few files one after the other, the operator's verdict may arrive
between any two of those steps, the client may go away, deadlines are kept in two
precisions, the write of a file may fail half way, and the daemon may die at any
point with an agent's process group stopped. `PROJECT.json` lists each hazard at
its line, with the properties that watch it.

## Modules

| Module | Models |
|---|---|
| `WriteOnce` | Abstract: a register that is set at most once. |
| `ExclFile` | One decision file: `open(O_CREATE\|O_EXCL)`, write, sync, readers, crashes and failing writes. Implements `WriteOnce`. |
| `ExclFile_proofs` | Its theorems. |
| `ApprovalGate` | Abstract: a command runs at most once, only when approved, and never after its caller was told "denied". |
| `ExecPetition` | Exec petitions from the saved record to the result, with confirmation, cancellation, suspension, timeouts, disconnects, crashes and adoption. Implements `ApprovalGate`. |
| `ExecPetition_proofs` | Its theorems. |
| `AskPetition` | Ask and notify petitions, the record file that handler and pump both rewrite, the buttons of the card, and the socket's select, ack and cancel. |
| `AskPetition_proofs` | Its theorems. |
| `TelegramPoll` | The way of a button press to the pump: several bots, their updates, one offset file, a bounded channel, several pollers, reconfiguration, crashes. |
| `TelegramPoll_proofs` | Its theorems. |
| `PolicyRules` | The rule matcher, the order of the lists and what `AddRule` accepts, as operators. |
| `PolicyFile` | Extends `PolicyRules`: concurrent `PolicyAddRule` handlers on the policy file and the policy in force. |
| `PolicyFile_proofs` | Theorems about both. |
| `DriftGate` | What is pinned, sealed, compared and executed for one command, while the agent changes files. |
| `DriftGate_proofs` | Its theorems. |
| `ExecBounds` | One bounded execution: process group, kill timer, output ceiling, challenge scanner. |
| `ExecBounds_proofs` | Its theorems. |
| `AuditLog` | Appends that fail or are cut short, machines that go down, and a client that pages back through the log while it grows. |
| `AuditLog_proofs` | Its theorems. |
| `MC*` | An instance of each for TLC. |

How they fit together. `ExecPetition` uses three of the others through their
results: a decision file takes the values `ExclFile` allows, the verdict arrives
as `TelegramPoll` delivers it (perhaps twice, perhaps never), the answer of
`runApproved`'s gates is a choice, and the run of the command is its start and its
end; the insides of these are `DriftGate` and `ExecBounds`. Policy decides whether there is a petition at all. The modules
share no variables because the components share no state but those files.

### ExclFile

`creator` and `written` are the file (absent, created, complete), `pc` and
`told` each call of `Consume`, `Ack`, `selectRecord` or `Store.Cancel`, which
share the sequence `OpenFile`, `Write`, `Sync`. The open may fail because the file is
there, or for any other reason. A failed or interrupted write
leaves a file that readers take for none (they return nil when the JSON does not
unmarshal) but that blocks every later `O_EXCL` create. `Sync` may fail: the
call then answers false although readers see its value.

### ExecPetition

The variables are in three groups. *Files*: `step`, `of`, `opt`, `pinned`
(`<rid>.json`), `verdict`, `cancel`, `result`. *World*: `clock`, `stopped`,
`connected`. *Memory of the daemon*, lost in a `Crash`: `up`, `scan`,
`orphans`, and for every waiter `pc`, `cur`, `dec`, `holding`, `res` (the exit and output
of `runApproved`), for every Cancel request `cpc`, `ctodo`, `crid`. `executed`,
`printed` (exit and output of the command itself), `answer`, `toldCancelled` record
what the outside has seen.

A waiter is `<<r, "serve">>` (the handler of a blocking request or the goroutine
of a detached one) or `<<r, "adopt">>` (started by `AdoptOrphans`). Its steps
follow the code's order, one action per access to shared state:

    Request -> Suspend -> Pin -> AwaitVerdict <-> AwaitOtherwise
      approve: [Confirm -> await the child] -> Execute
                 a gate refuses:                      blocked
                 runPinned returns, nothing was run:  SaveRan
                 the command starts:                  CommandEnds -> SaveRan
      else:    [ConsumeOwn] -> SaveOwn
      -> [SaveParent] -> Finish

`await` is two actions because it reads the verdict, then the cancellation and
the clock: a verdict may land in between. `Cancel` is its checks (`CancelCheck`)
and then, for each petition it writes to, `.cancel`, `.verdict`, `.result` and the
resume, each a step of its own. A confirmation is a second record whose
`of` names its parent; `confirm` keeps waiting in the same goroutine. The clock of
a petition has three readings because `List`, `Status` and `Cancel` compare whole
seconds while a serving waiter keeps the fraction (`recExpired` is the time
between).

Results are what the code makes of them: an exit (-1 or another) and an output,
of which the empty one and the texts that the daemon itself writes are told apart.
These texts are in-band, and a command may print them (`Endings` says how commands
may end): `Status` and `Recent` cannot tell the difference, and the properties
about them except such a command by name (`Misread`).

Abstractions. A decision file is written in one step with the outcomes that
`ExclFile` allows (complete or torn), but for one: an open that fails although the
file is not there (no descriptors, no permission) has no branch. Then a petition that was
timed out, given up or cancelled stays decidable, and could still be adopted and run after a
restart; nothing below speaks of that. Nor does a result fail to be saved. A drift
gate's answer is a choice. The start of the command, its end and its result are three
steps, so that a crash can fall between; the "WARNING:" line that a permitted git drift
puts before the output is left out (with it fewer outputs are misread).
Requests the policy allows or denies outright, and callers without the right to
submit or cancel, write nothing a petition can see and are left out, as are
paging and cards. Records are not lost or truncated here (`AskPetition` has
that). Retention pruning is out: it removes records 30 days old.

`Status` and `RecentDecision` are what `Service.Status` and `Store.Recent` make of the
files. The second derives the decision of a confirmed petition from its
confirmation in another way than the first, so each has its own property.

### AskPetition

One petition, of one of three kinds: a single-select ask, a multi-select ask
(`multi`), a notice (`notify`). *Files*: the record with the two fields that are
rewritten (`pager` for `ChatID` and `MsgID`, `idxs` for `SelectedIdxs`), and the
selection, cancellation and acknowledgement. *World*: the clock, the client's
connection, the card on the operator's phone with the options it `shown` as
ticked, and a press on its way (`inbox`). *Memory*: the handler (`apc`), the pump
(`ppc`), a Cancel (`cpc`), a socket ack (`kpc`) and an adopted waiter.

The record is the interesting file. `Save` truncates and then writes
(`store/secure_unix.go:36,41`), two steps here, so a `Load` in between fails, a
crash in between loses the record, and of two overlapping saves the shorter text
may be left with the tail of the longer one (`corrupt`). `AttachPager` and
`SetSelectedIdxs` load before they save, so the copy they save may be stale.

    handler:  Create -> Page -> [AttachLoad -> AttachSave x2]
                -> AwaitSelection <-> AwaitOtherwise -> [Aborted] -> Finish
    toggle:   ToggleLoad -> ToggleReload -> ToggleSave x2 -> Repaint
    submit or single option:  AnswerLoad -> AnswerRecord
    ack:      PumpAck -> PumpClose

The pump handles one press after the other; `Select`, `SocketAck` and Cancel run in
goroutines of their own. `selectRecord` is one step: it loads the record and then
creates the file, and a record that is lost in between makes no difference to
the file. Taking a press from the channel and the first load are one step, since a
later taking is the same as a later load. Left out: the texts (a question's
length, a link's scheme), the page lists, and a `Save` of the new record that
fails, whose error the code drops. `tapped`, `submitted` and `early` are not in the
code: the options ticked an odd number of times, whether the selection on file
came from Submit, and whether a tick was handled while `AttachPager` was at work.

### TelegramPoll

At Telegram there are, of each bot, the updates in order (`press`) and the mark before
which they are forgotten (`acked`); on disk one offset for all of them (`saved`) and the
configuration (`conf`: the bot, by its token, and the approvers). A poller is a
goroutine of `Poll` with its `bot`, its `offset`, the batch it is in (up to `upto`) and
the approvers it was started with.

    Fetch -> (Skip | Refuse | Deliver)* -> SaveTruncates -> SaveWrites -> Fetch ...
    FetchRefused, FetchLost                 (ok: false; no reply)
    Take -> Handle                          (the pump)
    SaveConfig -> SwapPoller                (TelegramSetConfig)

Four things follow from the code and are easy to overlook. Asking for the next
batch tells Telegram to forget the last one, so a press the pump has not come to
is lost in a crash, although its sender has been told "approved" already.
`SetOffset` truncates before it writes and its error is dropped; an empty file
reads as 0. `TelegramSetConfig` cancels the old poller without waiting for it:
until it notices, both hand over the same presses, and the old one still judges
them by its own approvers. A press refused by one may then be carried out by the
other, and one press may be carried out once per poller. For decisions, which
go into a write-once file, that does no harm; for the toggles of a multi-select
ask it does. Last, the offset on file is whichever bot's poller wrote it last (`owner`),
and a poller of another bot starts from it all the same, past presses that it then never
sees: such bots are in `mixed`, and what the run says of presses
that are skipped, or out of order, or never settle excepts them.

Left out: what a press contains (`AskPetition` and `ExecPetition` have what it
does), and the mixture of digits that two overlapping writes of different length
could leave in the offset file.

### PolicyRules and PolicyFile

A command and a rule are sequences of words; `Base` and `Path` are what `canonExe`
finds for a word. `Tier` tries every rule of a list, so lists are sets. `Meaning` is
the reference definition, written from the comment of `matchRule` and the tests:
the set of commands a rule is for. It agrees with the matcher, oddities included:
an exact rule of one word acts as a base rule, and `["bash"]` is accepted as an
exact rule of the whitelist and then passed over by `Tier`.

`PolicyFile` runs the handlers: load, temporary file and rename, load, assign to
`Service.Policy`. `alone` and `sure` are not in the code: they tell the requests that
no other one overlapped, for which the rule stays in force. The file the daemon starts
with has any mode, any default, and no rule or any one rule (one that cannot be read is
the empty policy of `Load`, which swallows the error). The assignment at
`service/service.go:1373` is not locked against readers; here it is one step.

### DriftGate

The command is `exe arg` in a work tree with one more tracked file, `lib`, that the
program reads by itself. What varies: how `exe` is `named` (a path in the tree, which is
sealed, one outside, or a bare name), what the contents are (`Small` ones fit a seal, of
the others `Sha` is the hash of the first 32 MiB), whether there is a repository,
`gitStrict`, whether the group can be stopped, and whether there is a confirmation.

    PinHead -> PinTree -> PinEntry -> SealExe -> SealArg -> SaveRecord -> StopGroup
      -> Approve [-> the pins again, for the confirmation -> Approve]
      -> LoadRecord -> CheckExe -> CheckArg -> Unpack -> CheckEntry
      -> CheckHead -> CheckTree -> OpenEntry -> StartRun

A bare name is pinned where `PATH` finds it (`service/fdpin.go:32`), but a file of that
name in the work tree (`local`) is what is sealed (`service/seal.go:84-90`), compared,
unpacked and then executed (`service/seal.go:349-363`).

The agent (`EditExe`, `SwapExe`, `EditLocal`, `EditArg`, `EditLib`, `Commit`) acts between any two
of these steps while it is not stopped. An edit in place shows through an open
descriptor, a replacement does not. Each gate loads the record again and lets the
command pass when it cannot; `skipped` remembers that, and the properties except
it. The daemon pins before it stops the group, so what the agent does in between
is what the gates are there for. What they do not see: an edit to a tracked file
of a tree that was dirty at the pin (`service/gitpin.go:128` compares the listing),
a change between the pins of the petition and those of its confirmation when
nobody is stopped, a write into the open inode after the last hash, a change behind
the first 32 MiB of an unsealed entrypoint (`service/fdpin.go:23,57`; the size is recorded
but never compared, `service/fdpin.go:140-149`), and, of a bare name, that the sealed
file is not the pinned one.
The properties claim none of these.

Git is taken at its word: the listing says truly whether the tree differs from HEAD, and its
cut at 32 KiB (`service/gitpin.go:22,49-51`) is left out. A git that gives no listing at the check lets
the command pass, one that gives no HEAD blocks it, as in the code. The interpreter of
a script is not pinned by the code and not in the model.

### ExecBounds

`main` is the command, `desc` a descendant that may stay in the group, give up the
pipe, leave the group with the pipe, or end. Output is a sequence of three tokens
(a link begins, its challenge query, a space), so that a chunk boundary may fall
anywhere. The runner is `startBounded` and `runBounded` (`Start`, `Reap`, `JoinCopier`,
`LoadFlag`, `StopTimer`), the copier is the goroutine of `os/exec` that calls
`cappedWriter` and `challengeWriter`, the timer is the `AfterFunc` with its two steps
(`Expire`, `KillGroup`). A timer that fires between the exit of the command and
`StopTimer` makes the result a timeout although the command ended by itself; that
is allowed by every property here. A descendant that took the pipe into a session
of its own holds `Wait` up for as long as it likes. Which link the scanner takes out of a
challenge is left out: it takes the first it can parse (`service/authchallenge.go:91-93`),
which may be cut short at a chunk boundary; `ChallengeFound` says only that the notice is
sent.

### AuditLog

A line of the log is a sequence of events or parts of events: after a short write
the next event ends up on the same line, and `json.Unmarshal` takes neither. An append
may also leave nothing at all. No append is synced (`store/secure_unix.go:64-72`), so a
machine that goes down may cut the log anywhere (`CutAt`): at the end of a line or in
the middle of one, with all that followed it lost. (`torn` collects what is lost this
way or by a failed write; it is not in the code.)
`AuditQuery` is translated as it counts, from the last line back, with the line
behind the last newline. A read that fails is answered with an empty page without a
cursor (`ReadFails`), which a client cannot tell from the last one. The client takes page
after page while events are added and torn.

## Runs

| Run | Instance | Shows |
|---|---|---|
| `excl_file` | 3 calls, 2 readers | `OneWinner`, `ReadsStable`, refinement of `WriteOnce` |
| `exec_confirm` | 2 ids, one confirmed petition (blocking or detached, held), 1 Cancel, 1 crash, torn writes, 4 ways for a command to end | `ExecutedOnlyIfApproved`, `RecentTellsRuns`, `AnswersTrue`, `StatusNeverDeniesARun`, `HeldWhileReviewed`, refinement of `ApprovalGate` |
| `exec_two` | 2 petitions (one blocking and held, one detached), 1 crash | `AtMostOnce`, `GroupsResumed` |
| `exec_live` | one held, confirmed petition, 1 Cancel, 1 crash | `WaitersReturn`, `AdoptedSettle` |
| `exec_cancel_race` | one petition, 1 Cancel | refutes `CancelledNeverRuns` |
| `exec_adopt_late` | one petition saved before `AdoptOrphans` has listed | refutes `AdoptsOnlyOrphans` |
| `ask` | the three kinds, 2 options (1 in the multi-select ask), 1 crash, torn writes | `AnswerTrue`, `StatusAgrees`, `SubmittedAsTapped`, `AskReturns` |
| `telegram` | 2 bots, 2 presses, 1 reconfiguration, 1 crash, a channel of 1 | `NothingSkipped`, `InOrder`, `OncePerPoller`, `EveryPressSettles` |
| `policy` | 2 requests, overlapping or not, on every file with at most one rule, of any mode and default | `MatchesMeaning`, `RestrictedNeverBare`, `RuleInForce`, `AddDecidesWhatItSays` |
| `drift` | every shape of command, tree and agent, 3 contents, 3 changes | `RunsWhatWasPinned`, `HeldRunHasNoDrift`, `AmbientChangeReported` |
| `bounds` | up to 5 tokens, a ceiling of 2, a window of 3, with and without a timeout | `KillIsReported`, `OutputAccounted`, `ChallengeFound`, `ReturnsInTime` |
| `audit` | 6 events, 2 torn, pages of 2, machines that go down | `WalkFindsAll`, `WholeEventsStay` |

Type invariants are checked along with these.

Bounds. Exec petitions: two ids are a petition and its confirmation, or two
petitions that share a group: petitions interact in no other way. Ids are bounded
by `Rid`; a request is taken only while every open confirmation still finds an id
(`IdsLeft`). One crash reaches every prefix of every file sequence with adoption
after it; one Cancel request beside a waiter, an adopted waiter and any number of
submitted verdicts makes every pair of writers of a file. `MaxCrashes` and `IdsLeft`
are the only bounds in guards. `Endings`: the four of `exec_confirm` are an ordinary
output and a text of the daemon's own, of each kind that `Status` and `Recent` read, with
exit -1 and with another one; elsewhere the output makes no difference and there is one.

Ask: one petition is enough, since petitions share no file; two options tell a
selection from another one, and one option is enough to be ticked, unticked and
submitted (the others of that question are not touched). One press is on its way
at a time and one Cancel and one socket ack run at a time; each may follow the
other.

Telegram: two presses (`MaxSent`), of one bot or of two, are one behind the other in a
batch, or in two; with a channel of one the second finds it full. One configuration (of
the same bot, the other one or none) and one crash make three pollers, two of them at
work at once; a second admin would only show number 9 of
the disagreements below. Policy: two words with a star at
either end, some of three, and all commands of one and two words with some of three
reach every boundary of the matcher; a third request would only repeat the second. Drift: three
changes are one to be hidden, one to hide it, and one later; of the three contents one
fits a seal and two begin alike for 32 MiB. Bounds: five tokens
let a link of up to the window's length begin behind text that has to be trimmed,
and lie wholly beyond the ceiling. Audit: six events are three pages, with a torn
line at any place and two on one line. `MaxTorn` bounds failed appends, not machines
that go down, which may cut the log again and again.

`AdoptFirst`. The passing runs assume that `AdoptOrphans` has taken its list before
a request is saved. The code does not ensure it (`daemon/daemon.go:203` starts it
beside the accept loop), and `exec_adopt_late` shows what happens without it.
`ExecutedOnlyIfApproved` is proved without the assumption.

Fairness. Always that of processes that can run and of things that are bound to
come, never of people:
- `ExecPetition` and `AskPetition` (`FairSpec`): every waiter, Cancel request and
  adoption step, since the Go scheduler runs goroutines that can run, but not the end of
  an approved command (`CommandEnds`), which nothing guarantees: a negative
  `EXEC_TIMEOUT` is none, and a descendant that left with the output pipe holds up the
  wait for it. `WaitersReturn`, `GroupsResumed` and `AdoptedSettle` therefore promise an
  end of everything but that (`running`), and of the rest once it has come; `Tick`, since
  time passes; `Restart`, by `Restart=on-failure` in `src/etc/2fadod.service:29`. None
  for the operator, the clients or crashes. A waiter alternates between two
  polling steps, so fairness is on the whole waiter.
- `TelegramPoll` (`FairSpec`): each poller, the pump, `Restart` and the second half of
  `TelegramSetConfig`. Calls that fail or are refused (`FetchLost`, `FetchRefused`) are not
  counted as steps of the poller, and `Fetch` is strongly fair: Telegram answers in the end. None for presses, configurations and
  crashes.
- `ExecBounds` (`Spec`): the runner, the copier, the timer. None for the command and
  its descendant.

Symmetry (of ids, of requests, of contents and inodes) is used in `exec_confirm`,
`policy` and `drift`, which check no liveness. Deadlock is checked in all runs but
three, where the system comes to an end: a call that has returned (`bounds`), a
command that has run or was refused (`drift`), a bot without a token or presses
(`telegram`).

## Disagreements between the code and what it says

Shown by a run:

1. `exec_cancel_race`. `Cancel` checks the verdict, then writes `.cancel` and
   `.verdict` and drops what both calls return (`service/service.go:913-914`). An
   approval in between wins, the command runs, and the caller is told
   `Cancelled: true`, against `protocol/protocol.go:75-76`.
2. `exec_adopt_late`. A petition saved early after a start gets two waiters, which
   both run its command, against `service/service.go:534-535`.

Read from the code while modelling it, without a run of their own:

3. Only petitions that `List` still shows are adopted, and SIGSTOP precedes the save
   of the pin, so a crash can leave an agent stopped for good, against
   `src/docs/toctou-suspended-execution.md:19-20`. `AdoptedSettle` shows that
   adoption does release the groups it finds. The same document has the group
   stopped before the operator is paged; the code pages first
   (`service/service.go:259`).
4. The parent of a confirmation whose run was refused for drift reads as completed
   with exit 0 (`service/service.go:444`), against `service/service.go:660`.
5. `AttachPager` saves a copy it loaded before the operator's first tick and undoes
   that tick, against `service/ask.go:217`. `SubmittedAsTapped` shows that this is
   the only way to lose a tick that was saved. A card that was closed may get its
   buttons back (`service/ask.go:213` against 174).
6. Two overlapping `AddRule` calls lose a rule, although `policy/policy.go:194` says
   "atomically appends". `RuleInForce` shows that calls that do not overlap lose
   none, whatever restarts come between. On a file it cannot read `AddRule` saves the
   defaults with the new rule (`policy/policy.go:31`).
7. `EXEC_TIMEOUT=0` is documented to switch the timeout off
   (`src/docs/daemon-service.md:210`, `config.go:27-29`, `execbounds.go:30`);
   `config.go:196` ignores a 0 and `execTimeout(0)` is 120 s. In `ExecBounds` only
   negative values are untimed.
8. `next_cursor` is documented as absent on the last page
   (`src/docs/backend-api.md:58`); `AuditQuery` sets it whenever the page is full and
   does not end with line 0. The walk then ends with an empty page, and
   `WalkFindsAll` holds all the same.

9. `TelegramSetConfig` "updates and persists Telegram configuration, live-reloading
   polling" (`service/service.go:1194`), but it saves the file (line 1259) before it
   takes the lock (line 1266). Two requests at once may save in one order and swap the
   poller in the other: the bot on file is then not the one that runs, and
   if the one that runs is none, presses stay unanswered until the next configuration
   or restart. The `telegram` run has one admin, so that its properties, `EveryPressSettles`
   among them, speak of requests one after the other; `ConfigIsInForce` shows that
   those are safe.
10. A change of the token starts the new bot's poller from the offset on file
   (`service/service.go:1213-1229`, `1293`), which is the old bot's: there is one file, it is
   never reset, and the old poller may still write it. Updates of the new bot below
   that offset are confirmed to Telegram unseen, without any crash. `NothingSkipped`,
   `InOrder` and `EveryPressSettles` except the bots this happened to (`mixed`); without
   that exception TLC refutes them.
11. `Status` and `Recent` take outcomes from the output of the result
   (`store/store.go:583-589`, `888-896`; `service/service.go:663-674`). An approved command that
   prints exactly `client_aborted`, `confirmation_timeout` or `cancelled` reads in `Status` as
   given up, timed out or cancelled, whatever its exit (in `Recent` with exit -1), and one that
   dies of a signal (exit -1) after printing `git-drift:`, `fd-drift:` or `seal-drift:` as denied. `StatusNeverDeniesARun` and `RecentTellsRuns` show that
   nothing else makes a run read as none.
12. A blocking client is answered "allowed", and the petition reads as completed, also if
   nothing was run: the account was refused, the entrypoint changed once more, or the
   start failed (`service/fdpin.go:236-284`, `service/service.go:494-511`). The output says
   so, the status does not. `AnswersTrue` promises the approvals and the status, not a run.
13. An asker who was told "selected" may find "cancelled" in `Status`: Cancel looks for a
   selection (`service/service.go:787`) before it writes `.cancel` (line 793), a selection
   never looks for a cancellation, and `Status` reads the cancellation first
   (`store/store.go:640-646`). `StatusAgrees` shows that this is the only contradiction.
14. The pin of an entrypoint is the hash of its first 32 MiB (`service/fdpin.go:23`, `57`), and
   the size that is recorded with it is never compared (`service/fdpin.go:140-149`): an edit
   in place behind that is no drift. And of a command with a bare name a file of the
   work tree may be sealed and executed while the one on `PATH` was pinned
   (`service/seal.go:84-90`, `349-363`; `service/fdpin.go:32`). `RunsWhatWasPinned` and
   `HeldRunHasNoDrift` say what is left.
15. `policy/policy.go:83-85` gives the reason why a restricted tool is never allowed bare:
   "a single-element rule would otherwise allow arbitrary arguments". A rule `["sh","*"]` is
   accepted and allows just that, and a file whose `default` is `allow`
   (`policy/policy.go:33-35`, `80`; `service/service.go:233-238`) allows every command that no
   list speaks of. `RestrictedNeverBare` shows that rules of one word, at least, do not.
16. An `AuditQuery` whose read fails answers with an empty page and no cursor
   (`store/store.go:976-979`), which is how the last page looks; and no append is synced
   (`store/secure_unix.go:64-72`), so that a machine that goes down may lose any number of the
   newest events, written as a whole or not.

## Proofs

Eight modules hold theorems. They hold for every value of the constants under
the assumptions the modules name (`NoValueAssumption`, `ExecAssumption`,
`AskAssumption`, `PollAssumption`, `RuleAssumption`, `PolicyAssumption`,
`GateAssumption`, `BoundsAssumption`, `AuditAssumption`).

`ExclFile_proofs` proves `TypeOK`, `OneWinner`, `ReadsStable`, `TornStaysTorn` and
the refinement of `WriteOnce` for any sets of callers and readers. The inductive
invariant says that the file's creator is past its create, that a complete file
was written by a call past its write, and that only the creator of a complete
file can be told it won; `OneWinner` alone is not inductive because nothing in it
ties an answer to the file.

`ExecPetition_proofs` proves `TypeOK` and `ExecutedOnlyIfApproved` for any ids,
groups, cancellers, requests and number of crashes, torn writes allowed, and
without assuming `AdoptFirst`. `ExecutedOnlyIfApproved` is not inductive: the run
step looks only at the waiter's `pc`. The strengthening has
`RecordInv` (a confirmation's parent is an initial petition with the same
request), `WaiterInv` (what each `pc` implies about the files: whoever is about to
run has read an approval of the petition it waits for, and, inside `confirm`, of
its parent), `CancelInv` and `OrphanInv` (Cancel and adoption only handle saved
petitions). The key lemma, `StepGrows`, is that no step ever changes a verdict
once it is there or a record once it is saved, so an approval that has been read
stays. Every action then has one step of the proof.

The rest of that module assumes `AdoptFirst`, without which `exec_adopt_late` shows
two waiters of one petition, and proves `AtMostOnce`, `AnswersTrue`,
`StatusNeverDeniesARun`, `RecentTellsRuns`, `HeldWhileReviewed` and the refinement of
`ApprovalGate`. It goes in four layers, each on top of the one before.

- `SoleInv`: a petition and its confirmation have one driver, a waiter or a place in
  the list of orphans, never two (`DriverInv`, which also says that nobody drives
  anything before the list of a restarted daemon is taken). How far the waiter is
  says whether the command has run (`ProgressInv`), and what is listed has not run
  (`OrphanFresh`). `AtMostOnce` is not inductive without all three: a second run
  needs a second driver, or one that starts behind the run.
- `EndingInv`: a waiter with a command behind it carries either what that command
  printed or the plain text of a `runPinned` that ran nothing, all its approvals are on
  file, and what it has stored stays unless somebody cancels (`EndingOK`); only of a
  command that was started is there anything printed. With it a text of the daemon's own
  can be told from one that a command printed, which the properties about Status and
  Recent need.
- `OutcomeInv`: what was reported as refused is `Over`, that is, it has not run, no
  record of it is adoptable, and its waiter, if there is one, is leaving without an
  approval or waits for a torn verdict until the deadline. `LeavingIsOver` says that
  a waiter that leaves unapproved leaves nothing behind that would run, `OverStays`
  that no step, a late approval and a restart included, undoes it. What was reported as
  allowed is `Settled`: approved, its result on file, and no waiter left that would write
  another one (`ReturnSettles`, `SettledStays`). Status, the
  recent list and the answers follow; `GateStep` maps each step to one of
  `ApprovalGate` or a stutter.
- `BarrierInv` and `HeldInv`: only a handler pins, a pin on file has a group, and a
  Cancel request resumes after it has written the cancellation. While a petition is
  `Open` (somebody waits for it, or a restarted daemon would), alone in its group,
  uncancelled and held, the group is stopped. The lemma that makes it inductive is
  `OpenShrinks`, that a petition never becomes open again.

Its last section draws on all four. `AdoptsOrphansOnly` and `ConfirmedOnce` follow from
`SoleInv`: with the order the first refutes (`exec_adopt_late`) restored, nothing is
adopted under a living waiter, and a petition is confirmed once. `DecisionsAreFinal`,
which needs no order, says that verdicts, cancellations and records never change.
Three more are safety parts of the liveness properties:
- `NoneSetBack` (of `WaitersReturn`) gives each waiter a number, `Ahead`, from its `pc`
  and whether the wait for a confirmation may still lie ahead of it. Every step of
  its own, the end of its command included, lowers it except a round of a wait before
  the deadline (`Round`), and nobody raises it.
- `EveryReturnSettles` (of `AdoptedSettle`): the step with which a waiter returns leaves a
  result on file and the group it holds resumed. `FiledInv` is the invariant under it:
  whoever is about to return has its result written.
- `StoppedIsHeld` (of `GroupsResumed`): until a crash, a stopped group has a busy waiter
  that holds it. It rests on the pins (`PinMoves`, `PinStep`): a holder gives its group
  up only with the step that resumes it.

`AskPetition_proofs` proves `TypeOK`, `AnswerTrue`, `StatusAgrees` and `SubmittedAsTapped`
for any options and any number of crashes.
`AnswerTrue` speaks of the answer when it is already out; the strengthening says the same of the outcome the handler has decided on and not yet
sent (`Holds(out)`), that nothing is decided before the record exists
(`NothingYet`), and that a handler past its wait without a selection still finds
a cancellation or a gone client (`KnowsWhy`). `FilesStay` is the lemma the rest leans
on: a selection with its options and a cancellation stay on file, a deadline stays
passed. `OthersKeep` then settles every action that is not the handler's.
`StatusMatchesAnswer` (of `StatusAgrees`) adds that only a question is ever answered with a selection.
`SubmittedAsTapped` needs `TapInv`: until a tick and AttachPager overlap (`early`) the
record holds what was ticked, the set that either of them is about to write follows
from it, at most one of them is between its load and its save, and no tick is under
way once a Submit is on file. `FirstAnswerWins` is an action property: what is decided,
whole or torn, and what the client was told is never replaced; `OneAnswer`, that an
answered handler is done, keeps the wait from reporting twice. `AskerNotSetBack` and
`NoSilentEnd` are the safety part of `AskReturns`: the handler's stages are numbered,
each of its steps but a round of the wait goes down, no round follows the deadline or
a cancellation, and at the bottom there is an answer unless the daemon died.

`TelegramPoll_proofs` proves `TypeOK` with the bounds of each offset, `NothingSkipped`,
`InOrder` and `OncePerPoller`, for any number of bots, presses, pollers, reconfigurations and crashes and
a channel of any capacity. `NothingSkipped` becomes inductive once "passed" is said
of every mark of a bot at once, Telegram's, the file's while a poller of the bot wrote it,
and each of its pollers'; a poller that starts from another bot's offset puts its bot in
`mixed`, for which nothing is claimed. The two lemmas
under it are that a press in the queue stays there until it is carried out
(`QueuedStays`, a crash excepted, which counts it as lost) and that one that is
settled stays settled. `InOrder` needs the same of the channel: in front of a press
in it or in the hand of the pump, every earlier one is settled or further ahead
(`ChanInOrder`, `HandInOrder`). It rests on `NothingSkipped`: a poller that starts from
the saved offset cannot have left an open press behind it.

`OncePerPoller` is inductive once it counts everything that has become of a press:
carried out, in the hand of the pump, and in the channel, against the pollers that are
past it or have returned (`Accounted`). A poller that runs only moves forward
(`PollersAdvance`), so that set only grows (`BehindGrows`), and by one for each
delivery (`OnceDeliver`).

`OnePollerAtATime` says that `state.cancelPoll` is never lost: of the pollers that run,
all are cancelled but the one that the next configuration will cancel. It needs
`Enough`, which counts the pollers started, the requests between their save and their
swap and the restart that is due against the configurations and crashes so far; so
the model never runs out of pollers within its bounds. `ConfigIsInForce` adds that
between requests the poller's approvers are those on file, on the assumption
`OneAtATime` that requests do not overlap; without it TLC finds a counterexample of four
steps (see the disagreements above).

`PolicyFile_proofs` proves `TypeOK`, `RuleInForce`, `MatchesMeaning`,
`RestrictedNeverBare` and `AddDecidesWhatItSays`, the last three for rules and
commands of any length. `RuleInForce` is strengthened by `SureInv` (whoever is at
work already holds every reported rule), `AloneInv` (who is alone is the only one at
work) and `OwnInv` (who is alone saves on top of what is on file, and finds its own rule
again after that).
`MatchesMeaning` is a case split on where the stars are, and
`AddDecidesWhatItSays` uses it together with the fact that `AddRule` never changes
the mode or the default.

`DriftGate_proofs` proves `GateTypeOK` and the three properties for any contents,
inodes and number of changes, and for any hash `Sha` that tells a small content from every
other one (`GateAssumption`). The invariant says, of each step of `runApproved`,
which gates are behind it and that what they found still holds if the agent is
stopped (`HeldInv`); `PinInv` says that HEAD only moves on, so that an equal HEAD means
the same commit.

`ExecBounds_proofs` proves `TypeOK`, `KillIsReported`, `OutputAccounted` and
`ChallengeFound` for any ceiling, window and output, however it is cut into chunks.
`KillIsReported` needs `RunInv`: the flag is set before anybody is killed, and the
runner reads it after the command is reaped. The output needs `PipeInv` (what is in
the pipe is the end of what was emitted), `KeptInv` and `ScanInv` (the buffer is the end
of what was read, a window of it if there is as much); `NoneMissed` says that a challenge wholly
within what was read has been seen. `NobodyOutlivesTheKill` and `EveryStepEndsTheCall`
are the safety part of `ReturnsInTime`: once the timer has killed, and unless a
descendant escaped with the pipe, nobody is left to write, to fork or to be waited for
(`Unhindered`), and each step there is, of the runner or the copier, lowers
`Left`, the steps of the runner, the copier's end and the length of the pipe.

`AuditLog_proofs` proves `TypeOK`, `WholeEventsStay` and `WalkFindsAll` for any number of
events, failures and machines that go down, and any page size. A line that does not end
the log never changes again until a machine goes down, and an event that is not torn
behind one that is not torn has its line to itself. Lines are in the order of their events
(`LinesInv`), so that a cut loses the events from the first one on that line on, and no
others (`CutIs`). For the walk, a page is first brought into a form that can be
reasoned about: `RankOnto` shows that the ranks of the matching lines are 1, 2, ... without
a gap, `PageIs` that a page therefore holds the newest of them in descending order, and
`CursorCuts` that its cursor separates what was returned from what is left. `WalkInv` says
that what the client got and what lies ahead of its cursor make up what was due, and
that all it got is newer than all that is ahead; `LinesInv`
carries it over an append (`AheadStays`). Of a walk that a failed read has ended, what was due and not
given takes the place of what lies ahead (`Rest`, `FailureIs`): all of it is still older than
what the client got.

Model-checked only: the liveness properties, since neither fairness nor ENABLED is
within the prover's reach: `WaitersReturn`, `AdoptedSettle`, `GroupsResumed`,
`AskReturns`, `EveryPressSettles` and `ReturnsInTime`. Of all but `EveryPressSettles` a
safety part is proved as said above; for that one, `NothingSkipped` and
`OnePollerAtATime` say that an open press is queued or ahead of every poller, and that
the poller in charge is not stopped. Every other property of the passing runs is
proved.

Operators whose comment begins with "Mutation:" are altered forms of the
definition after them; no specification uses them. `PROJECT.json` names, for each
property, the one that breaks it.

## Not modelled

- `SetAuthURL` and `SetPageList` (`store/store.go`): two more load-and-save pairs on
  the record, beside the two that `AskPetition` has. They add no new kind of
  overlap, and no decision reads what they write.
- The supervisor (`src/scripts/daemon-supervisor.mjs`): JavaScript, outside the
  daemon. Its races are in the list of hazards; for a petition it is no more than
  a crash and a restart, which three modules have.
- The socket's framing and the client: one request, one answer; no state.
- `Prune` and `Purge`: they remove records that are 30 days old or closed, far
  beyond every deadline.
- Previews, cards and page lists: text for the operator; no decision reads it.
- Identity and escalation: system calls that say which uid a process has or gets,
  without state of their own.
- Configuration and anchors: read and validated once at the start, apart from
  the Telegram part, which `TelegramPoll` has.
