----------------------------- MODULE TelegramPoll -----------------------------
(***************************************************************************)
(* The way of a button press from Telegram to the pump.  Poll asks for the *)
(* updates of its bot from its offset on, which tells Telegram to forget   *)
(* those before it, checks the sender of each press, hands it to a bounded *)
(* channel, and saves the offset after the batch.  TelegramPump takes the  *)
(* presses from the channel one by one.  TelegramSetConfig stops the       *)
(* poller and starts another one, perhaps of another bot, from the saved   *)
(* offset, while the old one may still be at work on its batch.  Each bot  *)
(* numbers its own updates; there is one offset file for all of them.  The *)
(* daemon may crash at any point; the saved offset and the configuration   *)
(* are all that survives.                                                  *)
(***************************************************************************)
EXTENDS Naturals, Sequences, FiniteSets, SequencesExt

CONSTANTS Person,       \* senders of updates
          NoDecision,
          Bot, NoBot,   \* the bots, by token; no usable token
          NoPress,
          Admin,        \* requests that change the Telegram configuration
          Cap,          \* capacity of Service.Verdicts (64)
          MaxPresses,   \* bound: updates sent to each bot
          MaxSent,      \* bound: updates sent to all of them
          MaxConfigs,   \* bound: configurations saved
          MaxCrashes    \* bound: crashes of the daemon

\* Every start of the daemon and every new configuration starts a poller.
Poller == 1..(1 + MaxConfigs + MaxCrashes)

\* A press is the bot and the number of its update.
Id == Bot \X (1..MaxPresses)

ASSUME PollAssumption == /\ Cap \in Nat \ {0}
                         /\ MaxPresses \in Nat
                         /\ MaxConfigs \in Nat
                         /\ MaxCrashes \in Nat
                         /\ NoDecision \notin Person
                         /\ NoBot \notin Bot
                         /\ NoPress \notin Id

\* An update is the sender of a decision, or NoDecision: what splitVerdict
\* does not understand, a "noop" button and an empty Submit are answered and
\* dropped, whoever sent them.
Update == Person \cup {NoDecision}

\* A configuration: the bot and its approvers, or none without a usable token.
NoToken == [bot |-> NoBot, approvers |-> {}]
Config  == [bot : Bot, approvers : SUBSET Person] \cup {NoToken}

VARIABLES
    press,      \* at Telegram, for each bot: its updates, numbered from 1
    acked,      \* at Telegram, for each bot: those before this one are forgotten
    saved,      \* file tg_offset; 0 while it is truncated
    owner,      \* the bot whose poller wrote it, if it is not truncated
    conf,       \* file config.json
    up, crashes,
    live,       \* state.cancelPoll: the poller it stops, 0 if none
    started,    \* number of pollers started so far
    pc, bot, offset, upto, approvers, cancelled,   \* each poller
    chan,       \* Service.Verdicts
    hand,       \* the press the pump is at
    acpc, areq, \* each configuration request
    configs,
    handled,    \* how often the pump has carried out each press
    refused,    \* presses answered "not authorized"
    lost,       \* presses that a crash took from the channel for good
    mixed       \* bots that were polled from the offset of another one

telegramVars == <<press, acked>>
offsetFile   == <<saved, owner>>
fileVars     == <<offsetFile, conf>>
pollerVars   == <<pc, bot, offset, upto, approvers, cancelled>>
queueVars    == <<chan, hand>>
adminVars    == <<acpc, areq, configs>>
fateVars     == <<handled, refused, lost>>
daemonVars   == <<up, crashes, live, started, mixed>>

vars == <<telegramVars, fileVars, pollerVars, queueVars, adminVars, fateVars,
          daemonVars>>

TypeOK ==
    /\ press \in [Bot -> Seq(Update)]
    /\ \A b \in Bot : Len(press[b]) <= MaxPresses
    /\ acked \in [Bot -> Nat] /\ saved \in Nat /\ owner \in Bot \cup {NoBot}
    /\ conf \in Config
    /\ up \in BOOLEAN /\ crashes \in 0..MaxCrashes
    /\ live \in Nat
    /\ started \in Nat
    /\ pc \in [Poller -> {"none", "top", "batch", "write", "done"}]
    /\ bot \in [Poller -> Bot \cup {NoBot}]
    /\ offset \in [Poller -> Nat] /\ upto \in [Poller -> Nat]
    /\ approvers \in [Poller -> SUBSET Person]
    /\ cancelled \in [Poller -> BOOLEAN]
    /\ chan \in Seq(Id) /\ Len(chan) <= Cap /\ hand \in Id \cup {NoPress}
    /\ acpc \in [Admin -> {"idle", "saved"}] /\ areq \in [Admin -> Config]
    /\ configs \in 0..MaxConfigs
    /\ handled \in [Id -> Nat]
    /\ refused \in SUBSET Id /\ lost \in SUBSET Id
    /\ mixed \in SUBSET Bot

Init ==
    /\ press = [b \in Bot |-> <<>>] /\ acked = [b \in Bot |-> 0]
    /\ saved = 0 /\ owner = NoBot
    /\ conf \in {c \in Config : c.bot # NoBot}
    /\ up = TRUE /\ crashes = 0
    /\ live = 1 /\ started = 1
    /\ pc = [g \in Poller |-> IF g = 1 THEN "top" ELSE "none"]
    /\ bot = [g \in Poller |-> IF g = 1 THEN conf.bot ELSE NoBot]
    /\ offset = [g \in Poller |-> 0]
    /\ upto = [g \in Poller |-> 0]
    /\ approvers = [g \in Poller |-> IF g = 1 THEN conf.approvers ELSE {}]
    /\ cancelled = [g \in Poller |-> FALSE]
    /\ chan = <<>> /\ hand = NoPress
    /\ acpc = [a \in Admin |-> "idle"]
    /\ areq = [a \in Admin |-> NoToken]
    /\ configs = 0
    /\ handled = [p \in Id |-> 0]
    /\ refused = {} /\ lost = {}
    /\ mixed = {}

------------------------------------------------------------------------------
\* Telegram.

\* The updates sent so far.
Sent == {p \in Id : p[2] <= Len(press[p[1]])}

Later(m, n) == IF m > n THEN m ELSE n
Sooner(m, n) == IF m < n THEN m ELSE n

\* Somebody presses a button of a card.
Press == /\ \E b \in Bot, u \in Update :
               /\ Len(press[b]) < MaxPresses /\ Cardinality(Sent) < MaxSent
               /\ press' = [press EXCEPT ![b] = Append(@, u)]
         /\ UNCHANGED <<acked, fileVars, pollerVars, queueVars, adminVars,
                        fateVars, daemonVars>>

\* The number of the next update of a poller's bot.
Upcoming(g) == Len(press[bot[g]]) + 1

\* getUpdates(offset): Telegram forgets the updates of this bot before the
\* offset...
Confirmed(g) == Later(acked[bot[g]], Sooner(offset[g], Upcoming(g)))
Confirm(g) == acked' = [acked EXCEPT ![bot[g]] = Confirmed(g)]

\* ...and those still known and not before the offset come next. Updates are
\* numbered from 1, so a poller without a saved offset starts there.
First(g) == Later(1, Later(acked[bot[g]], offset[g]))

------------------------------------------------------------------------------
\* Poll.

\* A reply of getUpdates: some of the updates that are left, or none once the
\* long poll is over.
Fetch(g) ==
    /\ pc[g] = "top" /\ ~cancelled[g]
    /\ Confirm(g)
    /\ \/ /\ First(g) < Upcoming(g)
          /\ \E end \in (First(g) + 1)..Upcoming(g) : upto' = [upto EXCEPT ![g] = end]
          /\ offset' = [offset EXCEPT ![g] = First(g)]
       \/ /\ First(g) >= Upcoming(g)
          /\ upto' = [upto EXCEPT ![g] = offset[g]]
          /\ UNCHANGED offset
    /\ pc' = [pc EXCEPT ![g] = "batch"]
    /\ UNCHANGED <<press, fileVars, bot, approvers, cancelled, queueVars,
                   adminVars, fateVars, daemonVars>>

\* A reply with ok: false reads as an empty one, but confirms nothing.
FetchRefused(g) ==
    /\ pc[g] = "top" /\ ~cancelled[g]
    /\ upto' = [upto EXCEPT ![g] = offset[g]]
    /\ pc' = [pc EXCEPT ![g] = "batch"]
    /\ UNCHANGED <<telegramVars, fileVars, bot, offset, approvers, cancelled,
                   queueVars, adminVars, fateVars, daemonVars>>

\* The call reached Telegram and its reply is lost; Poll sleeps and retries.
FetchLost(g) ==
    /\ pc[g] = "top" /\ ~cancelled[g]
    /\ Confirm(g)
    /\ UNCHANGED <<press, fileVars, pollerVars, queueVars, adminVars, fateVars,
                   daemonVars>>

\* The goroutine returns.
Return(g) == /\ pc' = [pc EXCEPT ![g] = "done"]
             /\ bot' = [bot EXCEPT ![g] = NoBot]
             /\ offset' = [offset EXCEPT ![g] = 0]
             /\ upto' = [upto EXCEPT ![g] = 0]
             /\ approvers' = [approvers EXCEPT ![g] = {}]

\* ctx.Done at the top of the loop, or during the call.
Stop(g) ==
    /\ pc[g] = "top" /\ cancelled[g]
    /\ Return(g)
    /\ UNCHANGED <<telegramVars, fileVars, cancelled, queueVars, adminVars,
                   fateVars, daemonVars>>

InBatch(g)    == pc[g] = "batch" /\ offset[g] < upto[g]
At(g)         == <<bot[g], offset[g]>>
Sender(g)     == press[bot[g]][offset[g]]
Decides(g)    == Sender(g) # NoDecision
Authorized(g) == Sender(g) \in approvers[g]

\* offset = u.ID + 1
Advance(g) == offset' = [offset EXCEPT ![g] = @ + 1]

\* No decision in the update.
Skip(g) == /\ InBatch(g) /\ ~Decides(g)
           /\ Advance(g)
           /\ UNCHANGED <<telegramVars, fileVars, pc, bot, upto, approvers,
                          cancelled, queueVars, adminVars, fateVars, daemonVars>>

\* "not authorized"
Refuse(g) == /\ InBatch(g) /\ Decides(g) /\ ~Authorized(g)
             /\ refused' = refused \cup {At(g)}
             /\ Advance(g)
             /\ UNCHANGED <<telegramVars, fileVars, pc, bot, upto, approvers,
                            cancelled, queueVars, adminVars, handled, lost,
                            daemonVars>>

\* Mutation: a press that finds the channel full is dropped.
DeliverOrDrop(g) ==
    /\ InBatch(g) /\ Authorized(g)
    /\ chan' = IF Len(chan) < Cap THEN Append(chan, At(g)) ELSE chan
    /\ Advance(g)
    /\ UNCHANGED <<telegramVars, fileVars, pc, bot, upto, approvers, cancelled,
                   hand, adminVars, fateVars, daemonVars>>

\* Mutation: the queue has no limit.
DeliverAlways(g) ==
    /\ InBatch(g) /\ Authorized(g)
    /\ chan' = Append(chan, At(g))
    /\ Advance(g)
    /\ UNCHANGED <<telegramVars, fileVars, pc, bot, upto, approvers, cancelled,
                   hand, adminVars, fateVars, daemonVars>>

\* out <- Verdict: blocks while the channel is full.
Deliver(g) ==
    /\ InBatch(g) /\ Authorized(g) /\ Len(chan) < Cap
    /\ chan' = Append(chan, At(g))
    /\ Advance(g)
    /\ UNCHANGED <<telegramVars, fileVars, pc, bot, upto, approvers, cancelled,
                   hand, adminVars, fateVars, daemonVars>>

\* The other case of that select: return, without a save.
Abandon(g) ==
    /\ InBatch(g) /\ Authorized(g) /\ cancelled[g]
    /\ Return(g)
    /\ UNCHANGED <<telegramVars, fileVars, cancelled, queueVars, adminVars,
                   fateVars, daemonVars>>

\* Mutation: the offset is that of the whole batch before it is delivered.
SaveTruncatesEarly(g) ==
    /\ pc[g] = "batch"
    /\ saved' = upto[g] /\ owner' = bot[g]
    /\ pc' = [pc EXCEPT ![g] = IF offset[g] = upto[g] THEN "write" ELSE @]
    /\ UNCHANGED <<telegramVars, conf, bot, offset, upto, approvers, cancelled,
                   queueVars, adminVars, fateVars, daemonVars>>

\* SetOffset opens with O_TRUNC (an empty file reads as 0), or fails to...
SaveTruncates(g) ==
    /\ pc[g] = "batch" /\ offset[g] = upto[g]
    /\ \/ saved' = 0 /\ owner' = NoBot /\ pc' = [pc EXCEPT ![g] = "write"]
       \/ UNCHANGED offsetFile /\ pc' = [pc EXCEPT ![g] = "top"]
    /\ UNCHANGED <<telegramVars, conf, bot, offset, upto, approvers, cancelled,
                   queueVars, adminVars, fateVars, daemonVars>>

\* Mutation: Poll goes back to the saved offset, also when the write failed.
SaveRereads(g) ==
    /\ pc[g] = "write"
    /\ \/ saved' = offset[g] /\ owner' = bot[g]
       \/ UNCHANGED offsetFile
    /\ offset' = [offset EXCEPT ![g] = saved']
    /\ pc' = [pc EXCEPT ![g] = "top"]
    /\ UNCHANGED <<telegramVars, conf, bot, upto, approvers, cancelled, queueVars,
                   adminVars, fateVars, daemonVars>>

\* Mutation: Poll gives up when the offset cannot be written.
SaveGivesUp(g) ==
    /\ pc[g] = "write"
    /\ \/ saved' = offset[g] /\ owner' = bot[g] /\ pc' = [pc EXCEPT ![g] = "top"]
       \/ UNCHANGED offsetFile /\ pc' = [pc EXCEPT ![g] = "done"]
    /\ UNCHANGED <<telegramVars, conf, bot, offset, upto, approvers, cancelled,
                   queueVars, adminVars, fateVars, daemonVars>>

\* ...and writes; nobody looks at its error.
SaveWrites(g) ==
    /\ pc[g] = "write"
    /\ \/ saved' = offset[g] /\ owner' = bot[g]
       \/ UNCHANGED offsetFile
    /\ pc' = [pc EXCEPT ![g] = "top"]
    /\ UNCHANGED <<telegramVars, conf, bot, offset, upto, approvers, cancelled,
                   queueVars, adminVars, fateVars, daemonVars>>

------------------------------------------------------------------------------
\* TelegramPump.

Take == /\ up /\ hand = NoPress /\ chan # <<>>
        /\ hand' = Head(chan)
        /\ chan' = Tail(chan)
        /\ UNCHANGED <<telegramVars, fileVars, pollerVars, adminVars, fateVars,
                       daemonVars>>

\* The press takes effect on the store.
Handle == /\ hand # NoPress
          /\ handled' = [handled EXCEPT ![hand] = @ + 1]
          /\ hand' = NoPress
          /\ UNCHANGED <<telegramVars, fileVars, pollerVars, chan, adminVars,
                         refused, lost, daemonVars>>

------------------------------------------------------------------------------
\* Configuration and restarts.

\* go client.Poll(ctx, GetOffset(), approvers, ...), if there is a token. The
\* offset is the one on file, whichever bot it belongs to.
StartPoller(c, stopped) ==
    /\ cancelled' = stopped
    /\ UNCHANGED upto
    /\ IF c.bot # NoBot
       THEN /\ live' = started + 1
            /\ started' = started + 1
            /\ pc' = [pc EXCEPT ![started + 1] = "top"]
            /\ bot' = [bot EXCEPT ![started + 1] = c.bot]
            /\ offset' = [offset EXCEPT ![started + 1] = saved]
            /\ approvers' = [approvers EXCEPT ![started + 1] = c.approvers]
            /\ mixed' = mixed \cup {b \in {c.bot} : saved # 0 /\ owner # b}
       ELSE /\ live' = 0
            /\ UNCHANGED <<started, pc, bot, offset, approvers, mixed>>

\* TelegramSetConfig up to SaveUserConfig. A request that is not from an
\* admin, or whose token Telegram does not know, changes nothing.
SaveConfig(a) ==
    /\ up /\ acpc[a] = "idle" /\ configs < MaxConfigs
    /\ \E c \in Config : conf' = c /\ areq' = [areq EXCEPT ![a] = c]
    /\ acpc' = [acpc EXCEPT ![a] = "saved"]
    /\ configs' = configs + 1
    /\ UNCHANGED <<telegramVars, offsetFile, pollerVars, queueVars, fateVars,
                   daemonVars>>

\* The rest of it, under the lock: cancelPoll, then a new poller.
SwapPoller(a) ==
    /\ acpc[a] = "saved"
    /\ StartPoller(areq[a], [g \in Poller |-> cancelled[g] \/ g = live])
    /\ acpc' = [acpc EXCEPT ![a] = "idle"]
    /\ areq' = [areq EXCEPT ![a] = NoToken]
    /\ UNCHANGED <<telegramVars, fileVars, queueVars, configs, fateVars,
                   up, crashes>>

\* What of the channel will not come again: Telegram has forgotten it, or the
\* next start of its bot asks for what follows it.
Gone == {p \in (ToSet(chan) \cup {hand}) \cap Id :
            /\ p[2] < acked[p[1]] \/ (p[1] = owner /\ p[2] < saved)
            /\ handled[p] = 0}

Crash == /\ up /\ crashes < MaxCrashes
         /\ up' = FALSE
         /\ crashes' = crashes + 1
         /\ live' = 0
         /\ pc' = [g \in Poller |-> IF pc[g] = "none" THEN "none" ELSE "done"]
         /\ bot' = [g \in Poller |-> NoBot]
         /\ offset' = [g \in Poller |-> 0]
         /\ upto' = [g \in Poller |-> 0]
         /\ approvers' = [g \in Poller |-> {}]
         /\ lost' = lost \cup Gone
         /\ chan' = <<>> /\ hand' = NoPress
         /\ acpc' = [a \in Admin |-> "idle"]
         /\ areq' = [a \in Admin |-> NoToken]
         /\ UNCHANGED <<telegramVars, fileVars, cancelled, configs, handled,
                        refused, started, mixed>>

\* New, then StartTelegram.
Restart == /\ ~up
           /\ up' = TRUE
           /\ StartPoller(conf, cancelled)
           /\ UNCHANGED <<telegramVars, fileVars, queueVars, adminVars,
                          fateVars, crashes>>

------------------------------------------------------------------------------

PollStep(g) == Fetch(g) \/ Stop(g) \/ Skip(g) \/ Refuse(g) \/ Deliver(g)
               \/ Abandon(g) \/ SaveTruncates(g) \/ SaveWrites(g)

FetchFails(g) == FetchRefused(g) \/ FetchLost(g)

Pump == Take \/ Handle

Next == \/ Press \/ Pump \/ Crash \/ Restart
        \/ \E g \in Poller : PollStep(g) \/ FetchFails(g)
        \/ \E a \in Admin : SaveConfig(a) \/ SwapPoller(a)

Spec == Init /\ [][Next]_vars

\* The scheduler runs the goroutines, Telegram answers in the end, systemd
\* restarts the daemon. Nothing makes anybody press a button or reconfigure.
FairSpec == /\ Spec
            /\ \A g \in Poller : WF_vars(PollStep(g)) /\ SF_vars(Fetch(g))
            /\ WF_vars(Pump) /\ WF_vars(Restart)
            /\ \A a \in Admin : WF_vars(SwapPoller(a))

------------------------------------------------------------------------------
\* Properties.

Acts(p)    == press[p[1]][p[2]] # NoDecision
Settled(p) == handled[p] > 0 \/ p \in refused \/ p \in lost
Queued(p)  == p \in ToSet(chan) \/ p = hand
Running(g) == pc[g] \in {"top", "batch", "write"}

\* A mark from which somebody will go on lies behind the press: Telegram's, the
\* file's, or that of a poller of the bot.
Passed(p) ==
    \/ p[2] < acked[p[1]]
    \/ p[1] = owner /\ p[2] < saved
    \/ \E g \in Poller : Running(g) /\ bot[g] = p[1] /\ p[2] < offset[g]

\* Nothing from which anybody will go on, be it Telegram's mark, the file or
\* a poller's own offset, lies past a press that is neither queued nor
\* settled: only a crash loses a press, and never one that was not in the
\* channel.  This holds of every bot whose pollers all started from offsets of
\* its own; after a change of the token they may start from the other bot's.
NothingSkipped ==
    \A p \in Sent :
        Acts(p) /\ Passed(p) /\ p[1] \notin mixed => Settled(p) \/ Queued(p)

\* The presses of a bot take effect in the order they were made, whichever
\* pollers carried them: behind a press that was handled nothing is left open,
\* again unless a poller started from another bot's offset.
InOrder ==
    \A p, q \in Sent :
        /\ q[1] = p[1] /\ q[2] < p[2]
        /\ Acts(q) /\ handled[p] > 0 /\ p[1] \notin mixed
        => Settled(q)

\* A press is carried out again only by a poller that was started after it
\* was made or found a file that did not yet count it: once per poller.
OncePerPoller == \A p \in Id : handled[p] <= started

\* While a bot is the one that is configured, every decision somebody presses
\* on its cards is carried out, refused, or lost in a crash in the end, unless it
\* was polled from another bot's offset. (A press that is settled stays so, and
\* there are finitely many: none open at some time, again and again, is all of
\* them settled.)
Open(p) == Acts(p) /\ ~Settled(p) /\ conf.bot = p[1] /\ p[1] \notin mixed

EveryPressSettles == []<>(\A p \in Sent : ~Open(p))

==============================================================================
