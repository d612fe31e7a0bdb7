------------------------- MODULE TelegramPoll_proofs --------------------------
(***************************************************************************)
(* Proofs about the way of a button press, for any senders and             *)
(* configurations, any capacity of the channel, and any number of presses, *)
(* pollers and crashes.                                                    *)
(***************************************************************************)
EXTENDS TelegramPoll, SequenceTheorems, FiniteSetTheorems,
        FunctionTheorems, TLAPS

------------------------------------------------------------------------------
\* Types.

ConfigType == \A c \in Config : c.approvers \in SUBSET Person

LEMMA ConfigTyped == ConfigType
<1> SUFFICES ASSUME NEW c \in Config PROVE c.approvers \in SUBSET Person
    BY DEF ConfigType
<1>1. CASE c \in [on : {TRUE}, approvers : SUBSET Person]
      BY <1>1
<1>2. CASE c = NoToken
      BY <1>2 DEF NoToken
<1> QED BY <1>1, <1>2 DEF Config

\* No poller or file is ahead of Telegram, as long as the offsets are of one bot,
\* and the update that a poller looks at has been sent.
PollerBounds(g) ==
  /\ Running(g) => bot[g] \in Bot
  /\ bot[g] \in Bot \ mixed => offset[g] <= Upcoming(g)
  /\ pc[g] = "batch" /\ offset[g] < upto[g] =>
        offset[g] # 0 /\ upto[g] <= Upcoming(g)

Bounds == /\ \A b \in Bot : acked[b] <= Len(press[b]) + 1
          /\ saved # 0 => owner \in Bot
          /\ owner \in Bot \ mixed => saved <= Len(press[owner]) + 1
          /\ \A g \in Poller : PollerBounds(g)

LEMMA TypeInit == Init => TypeOK /\ Bounds
<1> SUFFICES ASSUME Init PROVE TypeOK /\ Bounds
    OBVIOUS
<1> USE PollAssumption DEF PollAssumption
<1>1. /\ conf \in Config /\ conf.approvers \in SUBSET Person /\ NoToken \in Config
      /\ conf.bot \in Bot
  <2>1. conf \in Config /\ conf.bot # NoBot /\ NoToken \in Config
        BY DEF Init, Config
  <2>2. conf \in [bot : Bot, approvers : SUBSET Person]
        BY <2>1 DEF Config, NoToken
  <2> QED BY <2>1, <2>2
<1>2. /\ press \in [Bot -> Seq(Update)] /\ \A b \in Bot : Len(press[b]) = 0
      /\ chan \in Seq(Id) /\ Len(chan) = 0
  <2>1. press \in [Bot -> Seq(Update)] /\ \A b \in Bot : press[b] = <<>>
        BY DEF Init
  <2>2. chan = <<>>
        BY DEF Init
  <2> QED BY <2>1, <2>2
<1>3. /\ offset \in [Poller -> Nat] /\ upto \in [Poller -> Nat]
      /\ handled \in [Id -> Nat] /\ acked \in [Bot -> Nat]
      BY DEF Init
<1>4. /\ approvers \in [Poller -> SUBSET Person]
      /\ pc \in [Poller -> {"none", "top", "batch", "write", "done"}]
      /\ cancelled \in [Poller -> BOOLEAN]
      /\ bot \in [Poller -> Bot \cup {NoBot}]
      BY <1>1 DEF Init
<1>5. acpc \in [Admin -> {"idle", "saved"}] /\ areq \in [Admin -> Config]
      BY <1>1 DEF Init
<1>6. /\ saved \in Nat /\ owner \in Bot \cup {NoBot} /\ up \in BOOLEAN
      /\ crashes \in 0..MaxCrashes /\ live \in Nat /\ started \in Nat
      /\ hand \in Id \cup {NoPress} /\ configs \in 0..MaxConfigs
      /\ refused \in SUBSET Id /\ lost \in SUBSET Id /\ mixed \in SUBSET Bot
      BY DEF Init
<1>7. TypeOK
      BY <1>1, <1>2, <1>3, <1>4, <1>5, <1>6 DEF TypeOK
<1>8. Bounds
  <2>1. /\ \A b \in Bot : acked[b] = 0
        /\ saved = 0 /\ owner = NoBot
        BY DEF Init
  <2>2. ASSUME NEW g \in Poller PROVE PollerBounds(g)
    <3>1. offset[g] = 0 /\ upto[g] = 0 /\ pc[g] # "batch"
          BY DEF Init
    <3>2. Running(g) => bot[g] \in Bot
          BY <1>1 DEF Init, Running
    <3> QED BY <1>2, <3>1, <3>2 DEF PollerBounds, Upcoming
  <2> QED BY <1>2, <2>1, <2>2 DEF Bounds
<1> QED BY <1>7, <1>8

\* The update at a poller's offset is one that was sent.
LEMMA AtPress ==
  ASSUME TypeOK, Bounds, NEW g \in Poller, InBatch(g)
  PROVE  /\ bot[g] \in Bot /\ offset[g] \in 1..Len(press[bot[g]])
         /\ At(g) \in Id /\ At(g) \in Sent
         /\ Sender(g) \in Update
<1>1. bot[g] \in Bot
      BY DEF InBatch, Bounds, PollerBounds, Running
<1>2. /\ offset[g] \in Nat /\ upto[g] \in Nat
      /\ press[bot[g]] \in Seq(Update) /\ Len(press[bot[g]]) <= MaxPresses
      BY <1>1 DEF TypeOK
<1>3. offset[g] # 0 /\ offset[g] < upto[g] /\ upto[g] <= Len(press[bot[g]]) + 1
      BY DEF InBatch, Bounds, PollerBounds, Upcoming
<1>4. Len(press[bot[g]]) \in Nat
      BY <1>2
<1>5. offset[g] \in 1..Len(press[bot[g]])
      BY <1>2, <1>3, <1>4
<1>6. offset[g] \in 1..MaxPresses
      BY <1>2, <1>4, <1>5, PollAssumption DEF PollAssumption
<1>7. At(g) \in Id /\ At(g)[1] = bot[g] /\ At(g)[2] = offset[g]
      BY <1>1, <1>6 DEF At, Id
<1>8. At(g) \in Sent
      BY <1>5, <1>7 DEF Sent
<1> QED BY <1>1, <1>2, <1>5, <1>7, <1>8 DEF Sender

\* A configuration with a bot names one of them.
LEMMA ConfigBot == \A c \in Config : c.bot # NoBot => c.bot \in Bot
<1> SUFFICES ASSUME NEW c \in Config, c.bot # NoBot PROVE c.bot \in Bot
    OBVIOUS
<1>1. c # NoToken
      BY DEF NoToken
<1> QED BY <1>1 DEF Config

LEMMA TypeStartPoller ==
  ASSUME TypeOK, NEW c \in Config, NEW stopped \in [Poller -> BOOLEAN],
         StartPoller(c, stopped)
  PROVE  /\ live' \in Nat /\ started' \in Nat /\ mixed' \in SUBSET Bot
         /\ pc' \in [Poller -> {"none", "top", "batch", "write", "done"}]
         /\ bot' \in [Poller -> Bot \cup {NoBot}]
         /\ offset' \in [Poller -> Nat] /\ upto' \in [Poller -> Nat]
         /\ approvers' \in [Poller -> SUBSET Person]
         /\ cancelled' \in [Poller -> BOOLEAN]
<1> USE DEF TypeOK, StartPoller
<1>1. c.approvers \in SUBSET Person
      BY ConfigTyped DEF ConfigType
<1>2. live' \in Nat /\ started' \in Nat
      OBVIOUS
<1>3. pc' \in [Poller -> {"none", "top", "batch", "write", "done"}]
      OBVIOUS
<1>4. offset' \in [Poller -> Nat] /\ upto' \in [Poller -> Nat]
      OBVIOUS
<1>5. approvers' \in [Poller -> SUBSET Person]
      BY <1>1
<1>6. cancelled' \in [Poller -> BOOLEAN]
      BY Zenon
<1>7. bot' \in [Poller -> Bot \cup {NoBot}] /\ mixed' \in SUBSET Bot
  <2>1. CASE c.bot = NoBot
        BY <2>1
  <2>2. CASE c.bot # NoBot
    <3>1. c.bot \in Bot
          BY <2>2, ConfigBot
    <3>2. bot' = [bot EXCEPT ![started + 1] = c.bot]
          /\ mixed' = mixed \cup {b \in {c.bot} : saved # 0 /\ owner # b}
          BY <2>2
    <3>3. bot \in [Poller -> Bot \cup {NoBot}] /\ mixed \in SUBSET Bot
          OBVIOUS
    <3> QED BY <3>1, <3>2, <3>3
  <2> QED BY <2>1, <2>2
<1> QED BY <1>2, <1>3, <1>4, <1>5, <1>6, <1>7

\* What starting a poller does to each of them: nothing, or it becomes the new
\* one, at the top of its loop, with the saved offset.
LEMMA StartEach ==
  ASSUME TypeOK, NEW c \in Config, NEW stopped, StartPoller(c, stopped),
         NEW g \in Poller
  PROVE  /\ upto'[g] = upto[g] /\ mixed \subseteq mixed'
         /\ \/ pc'[g] = pc[g] /\ bot'[g] = bot[g] /\ offset'[g] = offset[g]
            \/ /\ pc'[g] = "top" /\ bot'[g] = c.bot /\ c.bot \in Bot
               /\ offset'[g] = saved
               /\ saved # 0 /\ owner # c.bot => c.bot \in mixed'
<1>1. CASE c.bot = NoBot
      BY <1>1 DEF StartPoller
<1>2. CASE c.bot # NoBot /\ g = started + 1
      BY <1>2, ConfigBot DEF StartPoller, TypeOK
<1>3. CASE c.bot # NoBot /\ g # started + 1
      BY <1>3 DEF StartPoller, TypeOK
<1> QED BY <1>1, <1>2, <1>3

\* A new poller starts from the saved offset, at the top of its loop.
LEMMA BoundsStartPoller ==
  ASSUME TypeOK, Bounds, NEW c \in Config, NEW stopped, StartPoller(c, stopped),
         UNCHANGED <<press, acked, saved, owner>>
  PROVE  Bounds'
<1>1. mixed \subseteq mixed'
      BY DEF StartPoller
<1>2. /\ \A b \in Bot : acked'[b] <= Len(press'[b]) + 1
      /\ saved' # 0 => owner' \in Bot
      /\ owner' \in Bot \ mixed' => saved' <= Len(press'[owner']) + 1
      BY <1>1 DEF Bounds
<1>3. ASSUME NEW g \in Poller PROVE PollerBounds(g)'
  <2>1. CASE pc'[g] = pc[g] /\ bot'[g] = bot[g] /\ offset'[g] = offset[g]
    <3>1. PollerBounds(g) /\ upto'[g] = upto[g]
          BY StartEach DEF Bounds
    <3> QED BY <1>1, <2>1, <3>1 DEF PollerBounds, Running, Upcoming
  <2>2. CASE /\ pc'[g] = "top" /\ bot'[g] = c.bot /\ c.bot \in Bot
             /\ offset'[g] = saved
             /\ saved # 0 /\ owner # c.bot => c.bot \in mixed'
    <3>1. Len(press[c.bot]) \in Nat
          BY <2>2 DEF TypeOK
    <3>2. c.bot \notin mixed' => saved <= Len(press[c.bot]) + 1
          BY <1>1, <2>2, <3>1 DEF Bounds
    <3> QED BY <2>2, <3>2 DEF PollerBounds, Running, Upcoming
  <2> QED BY <2>1, <2>2, StartEach
<1> QED BY <1>2, <1>3 DEF Bounds

LEMMA TypeRest ==
  TypeOK /\ Bounds /\ (\/ Press \/ Pump \/ Crash \/ Restart
                       \/ \E a \in Admin : SaveConfig(a) \/ SwapPoller(a)
                       \/ UNCHANGED vars)
    => TypeOK' /\ Bounds'
<1> SUFFICES ASSUME TypeOK, Bounds,
                    \/ Press \/ Pump \/ Crash \/ Restart
                    \/ \E a \in Admin : SaveConfig(a) \/ SwapPoller(a)
                    \/ UNCHANGED vars
             PROVE  TypeOK' /\ Bounds'
    OBVIOUS
<1> USE DEF telegramVars, fileVars, offsetFile, pollerVars, queueVars, adminVars,
            fateVars, daemonVars
<1>1. CASE Press
  <2>1. PICK b \in Bot, u \in Update :
             Len(press[b]) < MaxPresses /\ press' = [press EXCEPT ![b] = Append(@, u)]
        BY <1>1 DEF Press
  <2>2. /\ press \in [Bot -> Seq(Update)] /\ Len(press[b]) \in Nat
        /\ Append(press[b], u) \in Seq(Update)
        /\ Len(Append(press[b], u)) = Len(press[b]) + 1
        BY DEF TypeOK
  <2>3. /\ press' \in [Bot -> Seq(Update)] /\ Len(press'[b]) = Len(press[b]) + 1
        /\ \A d \in Bot \ {b} : press'[d] = press[d]
        BY <2>1, <2>2
  <2>4. /\ \A d \in Bot : Len(press'[d]) <= MaxPresses
        /\ \A d \in Bot : Len(press[d]) \in Nat /\ Len(press[d]) <= Len(press'[d])
    <3>1. \A d \in Bot : Len(press[d]) \in Nat /\ Len(press[d]) <= MaxPresses
          BY DEF TypeOK
    <3> QED BY <2>1, <2>3, <3>1, PollAssumption DEF PollAssumption
  <2>5. TypeOK'
        BY <1>1, <2>3, <2>4 DEF Press, TypeOK
  <2>6. UNCHANGED <<acked, saved, owner, pc, bot, offset, upto, mixed>>
        BY <1>1 DEF Press
  <2>7. ASSUME NEW d \in Bot, NEW n \in Nat, n <= Len(press[d]) + 1
        PROVE  n <= Len(press'[d]) + 1
    <3>1. Len(press[d]) \in Nat /\ Len(press'[d]) \in Nat /\ Len(press[d]) <= Len(press'[d])
          BY <2>3, <2>4
    <3> QED BY <2>7, <3>1
  <2>8. \A d \in Bot : acked'[d] <= Len(press'[d]) + 1
        BY <2>6, <2>7 DEF Bounds, TypeOK
  <2>9. /\ saved' # 0 => owner' \in Bot
        /\ owner' \in Bot \ mixed' => saved' <= Len(press'[owner']) + 1
        BY <2>6, <2>7 DEF Bounds, TypeOK
  <2>10. ASSUME NEW g \in Poller PROVE PollerBounds(g)'
    <3>1. PollerBounds(g) /\ offset[g] \in Nat /\ upto[g] \in Nat
          BY DEF Bounds, TypeOK
    <3>2. Running(g)' => bot'[g] \in Bot
          BY <2>6, <3>1 DEF PollerBounds, Running
    <3>3. bot'[g] \in Bot \ mixed' => offset'[g] <= Upcoming(g)'
          BY <2>6, <2>7, <3>1 DEF PollerBounds, Upcoming
    <3>4. pc'[g] = "batch" /\ offset'[g] < upto'[g] =>
             offset'[g] # 0 /\ upto'[g] <= Upcoming(g)'
          BY <2>6, <2>7, <3>1 DEF PollerBounds, Upcoming, Running
    <3> QED BY <3>2, <3>3, <3>4 DEF PollerBounds
  <2> QED BY <2>5, <2>8, <2>9, <2>10 DEF Bounds
<1>2. CASE Take
  <2>1. /\ Head(chan) \in Id /\ Tail(chan) \in Seq(Id) /\ Len(Tail(chan)) <= Cap
    <3>1. chan \in Seq(Id) /\ chan # <<>> /\ Len(chan) <= Cap
          BY <1>2 DEF Take, TypeOK
    <3>2. Head(chan) \in Id /\ Tail(chan) \in Seq(Id) /\ Len(Tail(chan)) = Len(chan) - 1
          BY <3>1, HeadTailProperties
    <3> QED BY <3>1, <3>2, PollAssumption DEF PollAssumption
  <2>2. TypeOK'
        BY <1>2, <2>1 DEF Take, TypeOK
  <2>3. UNCHANGED <<press, acked, saved, owner, pc, bot, offset, upto, mixed>>
        BY <1>2 DEF Take
  <2>4. Bounds'
        BY <2>3 DEF Bounds, PollerBounds, Running, Upcoming
  <2> QED BY <2>2, <2>4
<1>3. CASE Handle
  <2>1. handled' \in [Id -> Nat] /\ hand' \in Id \cup {NoPress}
        BY <1>3 DEF Handle, TypeOK
  <2>2. TypeOK'
        BY <1>3, <2>1 DEF Handle, TypeOK
  <2>3. UNCHANGED <<press, acked, saved, owner, pc, bot, offset, upto, mixed>>
        BY <1>3 DEF Handle
  <2>4. Bounds'
        BY <2>3 DEF Bounds, PollerBounds, Running, Upcoming
  <2> QED BY <2>2, <2>4
<1>4. CASE Crash
  <2>1. Gone \subseteq Id
        BY DEF Gone
  <2>2. crashes' \in 0..MaxCrashes
        BY <1>4, PollAssumption DEF Crash, TypeOK, PollAssumption
  <2>3. NoToken \in Config
        BY DEF Config
  <2>4. /\ pc' \in [Poller -> {"none", "top", "batch", "write", "done"}]
        /\ offset' \in [Poller -> Nat] /\ upto' \in [Poller -> Nat]
        /\ approvers' \in [Poller -> SUBSET Person]
        /\ bot' \in [Poller -> Bot \cup {NoBot}]
        BY <1>4 DEF Crash, TypeOK
  <2>5. /\ acpc' \in [Admin -> {"idle", "saved"}] /\ areq' \in [Admin -> Config]
        BY <1>4, <2>3 DEF Crash, TypeOK
  <2>6. /\ up' \in BOOLEAN /\ live' \in Nat /\ chan' \in Seq(Id) /\ Len(chan') <= Cap
        /\ hand' \in Id \cup {NoPress} /\ lost' \in SUBSET Id
    <3>1. lost' \in SUBSET Id
          BY <1>4, <2>1 DEF Crash, TypeOK
    <3>2. up' \in BOOLEAN
          BY <1>4, Zenon DEF Crash
    <3>3. chan' \in Seq(Id) /\ Len(chan') <= Cap
          BY <1>4, PollAssumption DEF Crash, PollAssumption
    <3>4. live' \in Nat /\ hand' \in Id \cup {NoPress}
          BY <1>4 DEF Crash
    <3> QED BY <3>1, <3>2, <3>3, <3>4
  <2>7. TypeOK'
        BY <1>4, <2>2, <2>4, <2>5, <2>6 DEF Crash, TypeOK
  <2>8. /\ UNCHANGED <<press, acked, saved, owner, mixed>>
        /\ \A g \in Poller : /\ bot'[g] = NoBot /\ offset'[g] = 0 /\ upto'[g] = 0
                             /\ pc'[g] \in {"none", "done"}
        BY <1>4 DEF Crash
  <2>9. Bounds'
    <3>1. ASSUME NEW g \in Poller PROVE PollerBounds(g)'
          BY <2>8, PollAssumption DEF PollerBounds, Running, PollAssumption
    <3> QED BY <2>8, <3>1 DEF Bounds
  <2> QED BY <2>7, <2>9
<1>5. CASE Restart
  <2>1. StartPoller(conf, cancelled) /\ conf \in Config
        /\ cancelled \in [Poller -> BOOLEAN]
        BY <1>5 DEF Restart, TypeOK
  <2>2. TypeOK'
        BY <1>5, <2>1, TypeStartPoller DEF Restart, TypeOK
  <2>3. Bounds'
        BY <1>5, <2>1, BoundsStartPoller DEF Restart
  <2> QED BY <2>2, <2>3
<1>6. ASSUME NEW a \in Admin, SaveConfig(a) PROVE TypeOK' /\ Bounds'
  <2>1. configs' \in 0..MaxConfigs
        BY <1>6, PollAssumption DEF SaveConfig, TypeOK, PollAssumption
  <2>2. conf' \in Config /\ areq' \in [Admin -> Config]
        BY <1>6 DEF SaveConfig, TypeOK
  <2>3. acpc' \in [Admin -> {"idle", "saved"}]
        BY <1>6 DEF SaveConfig, TypeOK
  <2>4. TypeOK'
        BY <1>6, <2>1, <2>2, <2>3 DEF SaveConfig, TypeOK
  <2>5. UNCHANGED <<press, acked, saved, owner, pc, bot, offset, upto, mixed>>
        BY <1>6 DEF SaveConfig
  <2>6. Bounds'
        BY <2>5 DEF Bounds, PollerBounds, Running, Upcoming
  <2> QED BY <2>4, <2>6
<1>7. ASSUME NEW a \in Admin, SwapPoller(a) PROVE TypeOK' /\ Bounds'
  <2> DEFINE stopped == [g \in Poller |-> cancelled[g] \/ g = live]
  <2>1. StartPoller(areq[a], stopped) /\ areq[a] \in Config
        BY <1>7 DEF SwapPoller, TypeOK
  <2>2. stopped \in [Poller -> BOOLEAN]
        BY Zenon DEF TypeOK
  <2> HIDE DEF stopped
  <2>3. acpc' \in [Admin -> {"idle", "saved"}] /\ areq' \in [Admin -> Config]
        BY <1>7 DEF SwapPoller, TypeOK, Config
  <2>4. TypeOK'
        BY <1>7, <2>1, <2>2, <2>3, TypeStartPoller DEF SwapPoller, TypeOK
  <2>5. Bounds'
        BY <1>7, <2>1, BoundsStartPoller DEF SwapPoller
  <2> QED BY <2>4, <2>5
<1>8. CASE UNCHANGED vars
  <2>1. TypeOK'
        BY <1>8 DEF vars, TypeOK
  <2>2. Bounds'
        BY <1>8 DEF vars, Bounds, PollerBounds, Running, Upcoming
  <2> QED BY <2>1, <2>2
<1> QED BY <1>1, <1>2, <1>3, <1>4, <1>5, <1>6, <1>7, <1>8 DEF Pump

\* What a poller does to the others and to the files' bounds: nothing.
LEMMA BoundsOthers ==
  ASSUME TypeOK, Bounds, NEW g \in Poller,
         UNCHANGED <<press, acked, saved, owner, mixed>>,
         \A h \in Poller \ {g} : /\ pc'[h] = pc[h] /\ bot'[h] = bot[h]
                                 /\ offset'[h] = offset[h] /\ upto'[h] = upto[h],
         PollerBounds(g)'
  PROVE  Bounds'
<1>1. ASSUME NEW h \in Poller PROVE PollerBounds(h)'
      BY <1>1 DEF Bounds, PollerBounds, Running, Upcoming
<1> QED BY <1>1 DEF Bounds

\* One step of a poller.
LEMMA TypePoll ==
  ASSUME TypeOK, Bounds, NEW g \in Poller, PollStep(g) \/ FetchFails(g)
  PROVE  TypeOK' /\ Bounds'
<1> USE DEF telegramVars, fileVars, offsetFile, pollerVars, queueVars, adminVars,
            fateVars, daemonVars
<1>0. /\ offset[g] \in Nat /\ upto[g] \in Nat /\ saved \in Nat
      /\ bot[g] \in Bot /\ Running(g) /\ PollerBounds(g)
      /\ press[bot[g]] \in Seq(Update) /\ Len(press[bot[g]]) \in Nat
      /\ acked[bot[g]] \in Nat /\ acked[bot[g]] <= Upcoming(g) /\ Upcoming(g) \in Nat \ {0}
  <2>1. Running(g)
        BY DEF PollStep, FetchFails, Fetch, FetchRefused, FetchLost, Stop, Skip, Refuse,
           Deliver, Abandon, SaveTruncates, SaveWrites, InBatch, Running
  <2>2. bot[g] \in Bot /\ PollerBounds(g)
        BY <2>1 DEF Bounds, PollerBounds
  <2>3. press[bot[g]] \in Seq(Update) /\ Len(press[bot[g]]) \in Nat
        BY <2>2 DEF TypeOK
  <2> QED BY <2>1, <2>2, <2>3 DEF TypeOK, Bounds, Upcoming
<1>a. /\ Confirmed(g) \in Nat /\ Confirmed(g) <= Upcoming(g)
      /\ First(g) \in Nat \ {0}
      BY <1>0 DEF Confirmed, First, Later, Sooner
<1>b. ASSUME Confirm(g)
      PROVE  /\ acked' \in [Bot -> Nat]
             /\ \A b \in Bot : acked'[b] <= Len(press[b]) + 1
      BY <1>0, <1>a, <1>b DEF Confirm, Bounds, TypeOK, Upcoming
<1>c. ASSUME Confirm(g), UNCHANGED <<press, saved, owner, mixed>>,
             \A h \in Poller \ {g} : /\ pc'[h] = pc[h] /\ bot'[h] = bot[h]
                                     /\ offset'[h] = offset[h] /\ upto'[h] = upto[h],
             PollerBounds(g)'
      PROVE  Bounds'
  <2>1. ASSUME NEW h \in Poller PROVE PollerBounds(h)'
        BY <1>c, <2>1 DEF Bounds, PollerBounds, Running, Upcoming
  <2>2. \A b \in Bot : acked'[b] <= Len(press'[b]) + 1
        BY <1>b, <1>c
  <2> QED BY <1>c, <2>1, <2>2 DEF Bounds
<1>1. CASE Fetch(g)
  <2>1. /\ Confirm(g) /\ UNCHANGED <<press, saved, owner, mixed, bot>>
        /\ pc' = [pc EXCEPT ![g] = "batch"]
        BY <1>1 DEF Fetch
  <2>2. \/ \E end \in (First(g) + 1)..Upcoming(g) :
              /\ upto' = [upto EXCEPT ![g] = end]
              /\ offset' = [offset EXCEPT ![g] = First(g)]
        \/ upto' = [upto EXCEPT ![g] = offset[g]] /\ offset' = offset
        BY <1>1 DEF Fetch
  <2>3. /\ upto' \in [Poller -> Nat] /\ offset' \in [Poller -> Nat]
        /\ \A h \in Poller \ {g} : upto'[h] = upto[h] /\ offset'[h] = offset[h]
        /\ bot[g] \notin mixed => offset'[g] <= Upcoming(g)
        /\ offset'[g] < upto'[g] => offset'[g] # 0 /\ upto'[g] <= Upcoming(g)
    <3>1. CASE \E end \in (First(g) + 1)..Upcoming(g) :
                 /\ upto' = [upto EXCEPT ![g] = end]
                 /\ offset' = [offset EXCEPT ![g] = First(g)]
          BY <1>0, <1>a, <3>1 DEF TypeOK
    <3>2. CASE upto' = [upto EXCEPT ![g] = offset[g]] /\ offset' = offset
          BY <1>0, <3>2 DEF TypeOK, PollerBounds
    <3> QED BY <2>2, <3>1, <3>2
  <2>4. TypeOK'
        BY <1>1, <1>b, <2>1, <2>3 DEF Fetch, TypeOK
  <2>5. PollerBounds(g)'
        BY <1>0, <2>1, <2>3 DEF PollerBounds, Upcoming, Running
  <2>6. \A h \in Poller \ {g} : pc'[h] = pc[h] /\ bot'[h] = bot[h]
        BY <2>1 DEF TypeOK
  <2> QED BY <1>c, <2>1, <2>3, <2>4, <2>5, <2>6
<1>2. CASE FetchLost(g)
  <2>1. /\ Confirm(g)
        /\ UNCHANGED <<press, saved, owner, mixed, pc, bot, offset, upto>>
        BY <1>2 DEF FetchLost
  <2>2. TypeOK'
        BY <1>2, <1>b, <2>1 DEF FetchLost, TypeOK
  <2>3. PollerBounds(g)'
        BY <1>0, <2>1 DEF PollerBounds, Upcoming, Running
  <2> QED BY <1>c, <2>1, <2>2, <2>3
<1>12. CASE FetchRefused(g)
  <2>1. /\ UNCHANGED <<press, acked, saved, owner, mixed, bot, offset>>
        /\ pc' = [pc EXCEPT ![g] = "batch"] /\ upto' = [upto EXCEPT ![g] = offset[g]]
        BY <1>12 DEF FetchRefused
  <2>2. TypeOK'
        BY <1>12, <1>0, <2>1 DEF FetchRefused, TypeOK
  <2>3. upto'[g] = offset'[g] /\ \A h \in Poller \ {g} : pc'[h] = pc[h] /\ upto'[h] = upto[h]
        BY <2>1 DEF TypeOK
  <2>4. PollerBounds(g)'
        BY <1>0, <2>1, <2>3 DEF PollerBounds, Upcoming, Running
  <2> QED BY <2>1, <2>2, <2>3, <2>4, BoundsOthers
<1>3. ASSUME Return(g), UNCHANGED <<telegramVars, fileVars, cancelled, queueVars,
                                    adminVars, fateVars, daemonVars>>
      PROVE  TypeOK' /\ Bounds'
  <2>1. /\ pc' \in [Poller -> {"none", "top", "batch", "write", "done"}]
        /\ offset' \in [Poller -> Nat] /\ upto' \in [Poller -> Nat]
        /\ approvers' \in [Poller -> SUBSET Person]
        /\ bot' \in [Poller -> Bot \cup {NoBot}]
        BY <1>3 DEF Return, TypeOK
  <2>2. TypeOK'
        BY <1>3, <2>1 DEF TypeOK
  <2>3. /\ pc'[g] = "done" /\ bot'[g] = NoBot
        /\ \A h \in Poller \ {g} : /\ pc'[h] = pc[h] /\ bot'[h] = bot[h]
                                   /\ offset'[h] = offset[h] /\ upto'[h] = upto[h]
        BY <1>3 DEF Return, TypeOK
  <2>4. PollerBounds(g)'
        BY <2>3, PollAssumption DEF PollerBounds, Running, PollAssumption
  <2> QED BY <1>3, <2>2, <2>3, <2>4, BoundsOthers
<1>4. CASE Stop(g)
      BY <1>3, <1>4 DEF Stop
<1>5. CASE Abandon(g)
      BY <1>3, <1>5 DEF Abandon
<1>6. ASSUME InBatch(g), Advance(g),
             UNCHANGED <<telegramVars, fileVars, pc, bot, upto, mixed>>
      PROVE  offset' \in [Poller -> Nat] /\ Bounds'
  <2>1. /\ offset' \in [Poller -> Nat] /\ offset'[g] = offset[g] + 1
        /\ \A h \in Poller \ {g} : offset'[h] = offset[h]
        BY <1>0, <1>6 DEF Advance, TypeOK
  <2>2. offset[g] + 1 <= Upcoming(g)
        BY <1>0, <1>6, AtPress DEF Upcoming
  <2>3. PollerBounds(g)'
        BY <1>0, <1>6, <2>1, <2>2 DEF PollerBounds, Upcoming, Running, InBatch
  <2> QED BY <1>6, <2>1, <2>3, BoundsOthers
<1>7. CASE Skip(g)
      BY <1>6, <1>7 DEF Skip, TypeOK
<1>8. CASE Refuse(g)
  <2>1. offset' \in [Poller -> Nat] /\ Bounds'
        BY <1>6, <1>8 DEF Refuse
  <2>2. refused' \in SUBSET Id
        BY <1>8, AtPress DEF Refuse, TypeOK
  <2> QED BY <1>8, <2>1, <2>2 DEF Refuse, TypeOK
<1>9. CASE Deliver(g)
  <2>1. chan' \in Seq(Id) /\ Len(chan') <= Cap
    <3>1. /\ chan \in Seq(Id) /\ At(g) \in Id /\ chan' = Append(chan, At(g))
          /\ Len(chan) < Cap /\ Len(chan) \in Nat
          BY <1>9, AtPress DEF Deliver, TypeOK
    <3> QED BY <3>1, PollAssumption DEF PollAssumption
  <2>2. offset' \in [Poller -> Nat] /\ Bounds'
        BY <1>6, <1>9 DEF Deliver
  <2> QED BY <1>9, <2>1, <2>2 DEF Deliver, TypeOK
<1>10. CASE SaveTruncates(g)
  <2>0. /\ pc \in [Poller -> {"none", "top", "batch", "write", "done"}]
        /\ \E x \in {"write", "top"} : pc' = [pc EXCEPT ![g] = x]
        /\ (saved' = saved /\ owner' = owner) \/ (saved' = 0 /\ owner' = NoBot)
        BY <1>10 DEF SaveTruncates, TypeOK
  <2>1. /\ pc' \in [Poller -> {"none", "top", "batch", "write", "done"}]
        /\ saved' \in Nat /\ owner' \in Bot \cup {NoBot}
        BY <2>0 DEF TypeOK
  <2>2. TypeOK'
        BY <1>10, <2>1 DEF SaveTruncates, TypeOK
  <2>3. /\ UNCHANGED <<press, acked, mixed, bot, offset, upto>>
        /\ \A h \in Poller \ {g} : pc'[h] = pc[h]
        /\ pc'[g] \in {"write", "top"}
        /\ (saved' = saved /\ owner' = owner) \/ (saved' = 0 /\ owner' = NoBot)
    <3>1. UNCHANGED <<press, acked, mixed, bot, offset, upto>>
          BY <1>10 DEF SaveTruncates
    <3> QED BY <2>0, <3>1
  <2>4. /\ saved' # 0 => owner' \in Bot
        /\ owner' \in Bot \ mixed' => saved' <= Len(press'[owner']) + 1
        BY <2>3, PollAssumption DEF Bounds, PollAssumption
  <2>5. ASSUME NEW h \in Poller PROVE PollerBounds(h)'
        BY <1>0, <2>3 DEF Bounds, PollerBounds, Running, Upcoming
  <2> QED BY <2>2, <2>3, <2>4, <2>5 DEF Bounds
<1>11. CASE SaveWrites(g)
  <2>1. /\ pc' \in [Poller -> {"none", "top", "batch", "write", "done"}]
        /\ saved' \in Nat /\ owner' \in Bot \cup {NoBot}
        BY <1>11, <1>0 DEF SaveWrites, TypeOK
  <2>2. TypeOK'
        BY <1>11, <2>1 DEF SaveWrites, TypeOK
  <2>3. /\ UNCHANGED <<press, acked, mixed, bot, offset, upto>>
        /\ \A h \in Poller \ {g} : pc'[h] = pc[h]
        /\ pc'[g] = "top"
        /\ (saved' = saved /\ owner' = owner) \/ (saved' = offset[g] /\ owner' = bot[g])
    <3>1. UNCHANGED <<press, acked, mixed, bot, offset, upto>>
          BY <1>11 DEF SaveWrites
    <3>2. pc' = [pc EXCEPT ![g] = "top"] /\ pc \in [Poller -> {"none", "top", "batch", "write", "done"}]
          BY <1>11 DEF SaveWrites, TypeOK
    <3>3. (saved' = saved /\ owner' = owner) \/ (saved' = offset[g] /\ owner' = bot[g])
          BY <1>11 DEF SaveWrites
    <3> QED BY <3>1, <3>2, <3>3
  <2>4. /\ saved' # 0 => owner' \in Bot
        /\ owner' \in Bot \ mixed' => saved' <= Len(press'[owner']) + 1
        BY <1>0, <2>3 DEF Bounds, PollerBounds, Upcoming
  <2>5. ASSUME NEW h \in Poller PROVE PollerBounds(h)'
        BY <1>0, <2>3 DEF Bounds, PollerBounds, Running, Upcoming
  <2> QED BY <2>2, <2>3, <2>4, <2>5 DEF Bounds
<1> QED BY <1>1, <1>2, <1>4, <1>5, <1>7, <1>8, <1>9, <1>10, <1>11, <1>12
        DEF PollStep, FetchFails

LEMMA TypeNext == TypeOK /\ Bounds /\ [Next]_vars => TypeOK' /\ Bounds'
  BY TypePoll, TypeRest DEF Next

\* Telegram's mark, the saved offset and every poller stay in their types and
\* never get ahead of what was sent.
THEOREM TypeCorrect == Spec => [](TypeOK /\ Bounds)
  BY TypeInit, TypeNext, PTL DEF Spec

------------------------------------------------------------------------------
\* Nothing is skipped.

\* A press that is done with stays so.
LEMMA SettledStays ==
  ASSUME TypeOK, [Next]_vars, NEW p \in Id, Settled(p)
  PROVE  Settled(p)'
<1>1. handled[p] > 0 => handled'[p] > 0
  <2>1. CASE Handle
        BY <2>1 DEF Handle, TypeOK
  <2>2. CASE ~Handle
        BY <2>2 DEF Next, vars, fateVars, Press, Pump, Take, Crash, Restart,
           PollStep, FetchFails, Fetch, FetchRefused, FetchLost, Stop, Skip, Refuse, Deliver, Abandon,
           SaveTruncates, SaveWrites, SaveConfig, SwapPoller
  <2> QED BY <2>1, <2>2
<1>2. refused \subseteq refused' /\ lost \subseteq lost'
      BY DEF Next, vars, fateVars, Press, Pump, Take, Handle, Crash, Restart,
         PollStep, FetchFails, Fetch, FetchRefused, FetchLost, Stop, Skip, Refuse, Deliver, Abandon,
         SaveTruncates, SaveWrites, SaveConfig, SwapPoller
<1> QED BY <1>1, <1>2 DEF Settled

\* What was sent stays as it was.
LEMMA SentStays ==
  ASSUME TypeOK, [Next]_vars
  PROVE  /\ Sent \subseteq Sent' /\ Sent \subseteq Id
         /\ \A p \in Sent : /\ p[1] \in Bot /\ p[2] \in 1..Len(press[p[1]])
                            /\ p = <<p[1], p[2]>> /\ (Acts(p)' <=> Acts(p))
         /\ \A p \in Sent' \ Sent : /\ p[1] \in Bot /\ p[2] = Len(press[p[1]]) + 1
                                    /\ Press
         /\ mixed \subseteq mixed'
<1>1. \A p \in Sent : /\ p[1] \in Bot /\ p[2] \in 1..Len(press[p[1]])
                      /\ p = <<p[1], p[2]>> /\ p \in Id
      BY PollAssumption DEF Sent, Id, PollAssumption
<1>2. CASE Press
  <2>1. PICK b \in Bot, u \in Update : press' = [press EXCEPT ![b] = Append(@, u)]
        BY <1>2 DEF Press
  <2>2. /\ press \in [Bot -> Seq(Update)] /\ press[b] \in Seq(Update)
        /\ Len(press[b]) \in Nat /\ press'[b] = Append(press[b], u)
        /\ \A d \in Bot \ {b} : press'[d] = press[d]
        BY <2>1 DEF TypeOK
  <2>3. /\ Len(press'[b]) = Len(press[b]) + 1
        /\ \A n \in 1..Len(press[b]) : press'[b][n] = press[b][n]
        BY <2>2
  <2>4. ASSUME NEW p \in Sent PROVE p \in Sent' /\ (Acts(p)' <=> Acts(p))
    <3>1. CASE p[1] = b
      <4>1. p[2] \in 1..Len(press[b]) /\ p \in Id
            BY <1>1, <3>1
      <4>2. p[2] <= Len(press'[p[1]])
            BY <2>2, <2>3, <3>1, <4>1
      <4> QED BY <2>3, <3>1, <4>1, <4>2 DEF Sent, Acts
    <3>2. CASE p[1] # b
          BY <1>1, <2>2, <3>2 DEF Sent, Acts
    <3> QED BY <3>1, <3>2
  <2>5. ASSUME NEW p \in Sent' \ Sent
        PROVE  p[1] \in Bot /\ p[2] = Len(press[p[1]]) + 1
    <3>1. p \in Id /\ p[1] \in Bot /\ p[2] \in Nat /\ p[2] <= Len(press'[p[1]])
          BY PollAssumption DEF Sent, Id, PollAssumption
    <3>2. ~(p[2] <= Len(press[p[1]]))
          BY <3>1 DEF Sent
    <3>3. p[1] = b
          BY <2>2, <3>1, <3>2
    <3> QED BY <2>2, <2>3, <3>1, <3>2, <3>3
  <2>6. mixed' = mixed
        BY <1>2 DEF Press, daemonVars
  <2> QED BY <1>1, <1>2, <2>4, <2>5, <2>6
<1>3. CASE ~Press
  <2>1. press' = press
        BY <1>3 DEF Next, vars, telegramVars, Pump, Take, Handle, Crash, Restart,
         PollStep, FetchFails, Fetch, FetchRefused, FetchLost, Stop, Skip, Refuse,
         Deliver, Abandon, SaveTruncates, SaveWrites, SaveConfig, SwapPoller
  <2>2. Sent' = Sent /\ \A p : Acts(p)' <=> Acts(p)
        BY <2>1 DEF Sent, Acts
  <2>3. mixed \subseteq mixed'
        BY <1>3 DEF Next, vars, daemonVars, Pump, Take, Handle, Crash, Restart,
         PollStep, FetchFails, Fetch, FetchRefused, FetchLost, Stop, Skip, Refuse,
         Deliver, Abandon, SaveTruncates, SaveWrites, SaveConfig, SwapPoller, StartPoller
  <2> QED BY <1>1, <2>2, <2>3
<1> QED BY <1>2, <1>3

\* Whatever lies behind a press that is queued or settled stays so: a press
\* leaves the queue only for the pump's effect or for a crash.
LEMMA QueuedStays ==
  ASSUME TypeOK, [Next]_vars, ~Crash, NEW p \in Id, Queued(p)
  PROVE  Settled(p)' \/ Queued(p)'
<1>1. CASE Take
  <2>1. chan \in Seq(Id) /\ chan # <<>> /\ hand = NoPress /\ hand' = Head(chan)
        /\ chan' = Tail(chan)
        BY <1>1 DEF Take, TypeOK
  <2>2. PICK i \in DOMAIN chan : p = chan[i]
        BY <2>1, PollAssumption DEF Queued, ToSet, PollAssumption
  <2>3. i \in 1..Len(chan) /\ DOMAIN chan' = 1..(Len(chan) - 1)
        BY <2>1, <2>2
  <2>4. CASE i = 1
        BY <2>1, <2>2, <2>4 DEF Queued
  <2>5. CASE i # 1
    <3>1. i - 1 \in DOMAIN chan'
          BY <2>1, <2>3, <2>5
    <3>2. chan'[i - 1] = chan[i]
          BY <2>1, <2>3, <2>5
    <3> QED BY <2>2, <3>1, <3>2 DEF Queued, ToSet
  <2> QED BY <2>4, <2>5
<1>2. CASE Handle
  <2>1. CASE p = hand
        BY <1>2, <2>1 DEF Handle, Settled, TypeOK
  <2>2. CASE p # hand
        BY <1>2, <2>2 DEF Handle, Queued
  <2> QED BY <2>1, <2>2
<1>3. ASSUME NEW g \in Poller, Deliver(g) PROVE Queued(p)'
  <2>1. chan \in Seq(Id) /\ chan' = Append(chan, At(g)) /\ hand' = hand
        BY <1>3 DEF Deliver, TypeOK
  <2>2. CASE p = hand
        BY <2>1, <2>2 DEF Queued
  <2>3. CASE p \in ToSet(chan)
    <3>1. PICK i \in 1..Len(chan) : p = chan[i]
          BY <2>1, <2>3 DEF ToSet
    <3>2. i \in DOMAIN chan' /\ chan'[i] = p
          BY <2>1, <3>1
    <3> QED BY <3>2 DEF Queued, ToSet
  <2> QED BY <2>2, <2>3 DEF Queued
<1>4. CASE ~Take /\ ~Handle /\ \A g \in Poller : ~Deliver(g)
  <2>1. UNCHANGED queueVars
        BY <1>4 DEF Next, vars, queueVars, Press, Pump, Crash, Restart,
           PollStep, FetchFails, Fetch, FetchRefused, FetchLost, Stop, Skip, Refuse,
           Abandon, SaveTruncates, SaveWrites, SaveConfig, SwapPoller
  <2> QED BY <2>1 DEF queueVars, Queued
<1> QED BY <1>1, <1>2, <1>3, <1>4

\* A mark moves past a press only if another one already has, or a poller
\* drops, refuses or delivers the press; or its bot is polled from another bot's
\* offset.
LEMMA PassedBy ==
  ASSUME TypeOK, Bounds, [Next]_vars, NEW p \in Sent, p[1] \notin mixed',
         Passed(p)', ~Passed(p)
  PROVE  \E g \in Poller : p = At(g) /\ (Skip(g) \/ Refuse(g) \/ Deliver(g))
<1> USE DEF telegramVars, fileVars, offsetFile, pollerVars, queueVars, adminVars,
            fateVars, daemonVars
<1>0. /\ p[1] \in Bot /\ p[2] \in Nat \ {0} /\ p = <<p[1], p[2]>>
      /\ acked[p[1]] \in Nat /\ saved \in Nat
      /\ \A g \in Poller : offset[g] \in Nat
  <2>1. p[1] \in Bot /\ p[2] \in 1..Len(press[p[1]]) /\ p = <<p[1], p[2]>>
        BY SentStays
  <2>2. Len(press[p[1]]) \in Nat /\ acked[p[1]] \in Nat
        BY <2>1 DEF TypeOK
  <2> QED BY <2>1, <2>2 DEF TypeOK
<1>1. CASE Press
      BY <1>1 DEF Press, Passed, Running
<1>2. CASE Pump
      BY <1>2 DEF Pump, Take, Handle, Passed, Running
<1>3. CASE Crash
  <2>1. UNCHANGED <<acked, saved, owner>> /\ \A g \in Poller : ~Running(g)'
        BY <1>3 DEF Crash, Running, TypeOK
  <2> QED BY <2>1 DEF Passed
<1>4. ASSUME NEW c \in Config, NEW stopped, StartPoller(c, stopped),
             UNCHANGED <<acked, saved, owner>>
      PROVE  FALSE
  <2>1. PICK g \in Poller : Running(g)' /\ bot'[g] = p[1] /\ p[2] < offset'[g]
        BY <1>4 DEF Passed
  <2>2. CASE pc'[g] = pc[g] /\ bot'[g] = bot[g] /\ offset'[g] = offset[g]
        BY <2>1, <2>2 DEF Passed, Running
  <2>3. CASE /\ bot'[g] = c.bot /\ offset'[g] = saved
             /\ saved # 0 /\ owner # c.bot => c.bot \in mixed'
    <3>1. saved # 0
          BY <1>0, <2>1, <2>3
    <3>2. owner = p[1]
          BY <2>1, <2>3, <3>1
    <3> QED BY <2>1, <2>3, <3>2 DEF Passed
  <2> QED BY <1>4, <2>2, <2>3, StartEach
<1>5. CASE Restart
      BY <1>4, <1>5 DEF Restart, TypeOK
<1>6. ASSUME NEW a \in Admin, SaveConfig(a) \/ SwapPoller(a) PROVE FALSE
  <2>1. CASE SaveConfig(a)
        BY <2>1 DEF SaveConfig, Passed, Running
  <2>2. CASE SwapPoller(a)
        BY <1>4, <2>2 DEF SwapPoller, TypeOK
  <2> QED BY <1>6, <2>1, <2>2
<1>7. ASSUME NEW g \in Poller, PollStep(g) \/ FetchFails(g)
      PROVE  p = At(g) /\ (Skip(g) \/ Refuse(g) \/ Deliver(g))
  <2>1. CASE Fetch(g) \/ FetchLost(g) \/ FetchRefused(g)
    <3>1. p[2] >= acked[p[1]] /\ (bot[g] = p[1] => p[2] >= offset[g])
          BY <1>0, <2>1 DEF Passed, Running, Fetch, FetchLost, FetchRefused
    <3>2. bot[g] \in Bot /\ acked[bot[g]] \in Nat /\ offset[g] \in Nat
          /\ Upcoming(g) \in Nat /\ bot'[g] = bot[g]
          BY <2>1 DEF Fetch, FetchLost, FetchRefused, Bounds, PollerBounds, Running,
             TypeOK, Upcoming
    <3>3. bot[g] = p[1] => p[2] >= Confirmed(g) /\ p[2] >= First(g)
          BY <1>0, <3>1, <3>2 DEF Confirmed, First, Later, Sooner
    <3>4. p[2] >= acked'[p[1]]
      <4>1. CASE Confirm(g)
            BY <1>0, <3>1, <3>2, <3>3, <4>1 DEF Confirm, TypeOK
      <4>2. CASE acked' = acked
            BY <3>1, <4>2
      <4> QED BY <2>1, <4>1, <4>2 DEF Fetch, FetchLost, FetchRefused
    <3>5. saved' = saved /\ owner' = owner
          BY <2>1 DEF Fetch, FetchLost, FetchRefused
    <3>6. offset'[g] \in {offset[g], First(g)} /\ First(g) \in Nat
          BY <2>1, <3>2 DEF Fetch, FetchLost, FetchRefused, TypeOK, First, Later
    <3>7. \A h \in Poller \ {g} : /\ pc'[h] = pc[h] /\ bot'[h] = bot[h]
                                  /\ offset'[h] = offset[h]
          BY <2>1 DEF Fetch, FetchLost, FetchRefused, TypeOK
    <3>8. acked'[p[1]] \in Nat
          BY <1>0, <3>2, <2>1 DEF Fetch, FetchLost, FetchRefused, Confirm, TypeOK,
             Confirmed, Later, Sooner
    <3>9. ~(p[2] < acked'[p[1]])
          BY <1>0, <3>4, <3>8
    <3>10. \A h \in Poller : ~(Running(h)' /\ bot'[h] = p[1] /\ p[2] < offset'[h])
      <4>1. ASSUME bot'[g] = p[1] PROVE ~(p[2] < offset'[g])
            BY <1>0, <3>1, <3>2, <3>3, <3>6, <4>1
      <4>2. ASSUME NEW h \in Poller \ {g}
            PROVE  ~(Running(h)' /\ bot'[h] = p[1] /\ p[2] < offset'[h])
            BY <3>7 DEF Passed, Running
      <4> QED BY <4>1, <4>2
    <3> QED BY <3>5, <3>9, <3>10 DEF Passed
  <2>2. CASE Stop(g) \/ Abandon(g)
    <3>1. ~Running(g)' /\ UNCHANGED <<acked, saved, owner>>
          BY <2>2 DEF Stop, Abandon, Return, Running, TypeOK
    <3>2. \A h \in Poller \ {g} : /\ pc'[h] = pc[h] /\ bot'[h] = bot[h]
                                  /\ offset'[h] = offset[h]
          BY <2>2 DEF Stop, Abandon, Return, TypeOK
    <3> QED BY <3>1, <3>2 DEF Passed, Running
  <2>3. CASE Skip(g) \/ Refuse(g) \/ Deliver(g)
    <3>1. /\ UNCHANGED <<acked, saved, owner, pc, bot>> /\ offset'[g] = offset[g] + 1
          /\ \A h \in Poller \ {g} : offset'[h] = offset[h]
          /\ Running(g)
          BY <2>3 DEF Skip, Refuse, Deliver, Advance, InBatch, Running, TypeOK
    <3>2. PICK h \in Poller : Running(h)' /\ bot'[h] = p[1] /\ p[2] < offset'[h]
          BY <3>1 DEF Passed
    <3>3. h = g
          BY <3>1, <3>2 DEF Passed, Running
    <3>4. bot[g] = p[1] /\ p[2] < offset[g] + 1 /\ ~(p[2] < offset[g])
          BY <3>1, <3>2, <3>3 DEF Passed
    <3>5. p[2] = offset[g]
          BY <1>0, <3>4
    <3> QED BY <1>0, <2>3, <3>4, <3>5 DEF At
  <2>4. CASE SaveTruncates(g) \/ SaveWrites(g)
    <3>1. /\ UNCHANGED <<acked, offset, bot>> /\ Running(g)
          /\ \/ UNCHANGED <<saved, owner>>
             \/ saved' = 0
             \/ saved' = offset[g] /\ owner' = bot[g]
      <4>1. CASE SaveTruncates(g)
            BY <4>1 DEF SaveTruncates, Running
      <4>2. CASE SaveWrites(g)
            BY <4>2 DEF SaveWrites, Running
      <4> QED BY <2>4, <4>1, <4>2
    <3>2. \A h \in Poller \ {g} : pc'[h] = pc[h]
          BY <2>4 DEF SaveTruncates, SaveWrites, TypeOK
    <3>3. p[1] = owner' /\ p[2] < saved'
          BY <3>1, <3>2 DEF Passed, Running
    <3>4. CASE UNCHANGED <<saved, owner>>
          BY <3>3, <3>4 DEF Passed
    <3>5. CASE saved' = 0
          BY <1>0, <3>3, <3>5
    <3>6. CASE saved' = offset[g] /\ owner' = bot[g]
          BY <3>1, <3>3, <3>6 DEF Passed
    <3> QED BY <3>1, <3>4, <3>5, <3>6
  <2> QED BY <1>7, <2>1, <2>2, <2>3, <2>4 DEF PollStep, FetchFails
<1>8. CASE UNCHANGED vars
      BY <1>8 DEF vars, Passed, Running
<1> QED BY <1>1, <1>2, <1>3, <1>5, <1>6, <1>7, <1>8 DEF Next

LEMMA NothingSkippedInit == Init => NothingSkipped
<1> SUFFICES ASSUME Init PROVE NothingSkipped
    OBVIOUS
<1>1. \A b \in Bot : press[b] = <<>>
      BY DEF Init
<1>2. Sent = {}
      BY <1>1, PollAssumption DEF Sent, Id, PollAssumption
<1> QED BY <1>2 DEF NothingSkipped

LEMMA NothingSkippedNext ==
  TypeOK /\ Bounds /\ NothingSkipped /\ [Next]_vars => NothingSkipped'
<1> SUFFICES ASSUME TypeOK, Bounds, NothingSkipped, [Next]_vars, NEW p \in Sent',
                    Acts(p)', Passed(p)', p[1] \notin mixed'
             PROVE  Settled(p)' \/ Queued(p)'
    BY DEF NothingSkipped
<1>1. CASE p \notin Sent
  <2>1. Press /\ p[1] \in Bot /\ p[2] = Len(press[p[1]]) + 1
        BY <1>1, SentStays
  <2>2. UNCHANGED <<acked, saved, owner, pc, bot, offset, mixed>>
        BY <2>1 DEF Press, fileVars, offsetFile, pollerVars, daemonVars
  <2>3. Len(press[p[1]]) \in Nat /\ acked[p[1]] \in Nat /\ saved \in Nat
        BY <2>1 DEF TypeOK
  <2>4. ~(p[2] < acked'[p[1]])
        BY <2>1, <2>2, <2>3 DEF Bounds
  <2>5. ~(p[1] = owner' /\ p[2] < saved')
        BY <2>1, <2>2, <2>3 DEF Bounds
  <2>6. ASSUME NEW g \in Poller, bot'[g] = p[1] PROVE ~(p[2] < offset'[g])
        BY <2>1, <2>2, <2>3, <2>6 DEF Bounds, PollerBounds, Upcoming, TypeOK
  <2> QED BY <2>4, <2>5, <2>6 DEF Passed
<1>2. CASE p \in Sent
  <2>0. p \in Id /\ Acts(p) /\ p[1] \notin mixed
        BY <1>2, SentStays
  <2>1. ASSUME Passed(p) PROVE Settled(p)' \/ Queued(p)'
    <3>1. Settled(p) \/ Queued(p)
          BY <1>2, <2>0, <2>1 DEF NothingSkipped
    <3>2. CASE Settled(p) \/ ~Crash
          BY <2>0, <3>1, <3>2, SettledStays, QueuedStays
    <3>3. CASE Queued(p) /\ Crash
      <4>1. p[2] < acked[p[1]] \/ (p[1] = owner /\ p[2] < saved)
            BY <3>3 DEF Crash, Passed, Running, TypeOK, telegramVars, fileVars, offsetFile
      <4>2. handled[p] \in Nat
            BY <2>0 DEF TypeOK
      <4>3. p \in lost \cup Gone \/ handled[p] > 0
            BY <2>0, <3>3, <4>1, <4>2 DEF Gone, Queued
      <4> QED BY <3>3, <4>3 DEF Crash, Settled
    <3> QED BY <3>1, <3>2, <3>3
  <2>2. ASSUME ~Passed(p) PROVE Settled(p)' \/ Queued(p)'
    <3>1. PICK g \in Poller : p = At(g) /\ (Skip(g) \/ Refuse(g) \/ Deliver(g))
          BY <1>2, <2>2, PassedBy
    <3>2. CASE Skip(g)
          BY <2>0, <3>1, <3>2 DEF Skip, Decides, Sender, Acts, At
    <3>3. CASE Refuse(g)
          BY <3>1, <3>3 DEF Refuse, Settled
    <3>4. CASE Deliver(g)
      <4>1. chan \in Seq(Id) /\ chan' = Append(chan, p)
            BY <3>1, <3>4 DEF Deliver, TypeOK
      <4>2. Len(chan) + 1 \in DOMAIN chan' /\ chan'[Len(chan) + 1] = p
            BY <2>0, <4>1
      <4> QED BY <4>2 DEF Queued, ToSet
    <3> QED BY <3>1, <3>2, <3>3, <3>4
  <2> QED BY <2>1, <2>2
<1> QED BY <1>1, <1>2

\* Only a crash loses a press, and only one that was queued: neither
\* Telegram's mark nor the saved offset nor a poller of Poll gets past one
\* that is still open, for every bot that was never polled from the offset of
\* another one.
THEOREM NothingIsSkipped == Spec => []NothingSkipped
  BY TypeInit, TypeNext, NothingSkippedInit, NothingSkippedNext, PTL DEF Spec

------------------------------------------------------------------------------
\* The presses are carried out in order.

\* What is queued or was carried out has been sent.
QueueSent == /\ \A i \in DOMAIN chan : chan[i] \in Sent
             /\ hand \in Sent \cup {NoPress}
             /\ \A p \in Id : handled[p] > 0 => p \in Sent

\* An earlier press of the same bot, on this card or any other.
Before(q, p) == q[1] = p[1] /\ q[2] < p[2] /\ Acts(q) /\ p[1] \notin mixed

\* It is settled or comes first in the channel.
ChanInOrder == \A i \in DOMAIN chan, q \in Sent :
                 Before(q, chan[i]) =>
                    Settled(q) \/ q = hand \/ \E j \in 1..(i - 1) : chan[j] = q

HandInOrder == \A q \in Sent : hand # NoPress /\ Before(q, hand) => Settled(q)

OrderInv == QueueSent /\ ChanInOrder /\ HandInOrder /\ InOrder

LEMMA OrderInit == Init => OrderInv
<1> SUFFICES ASSUME Init PROVE OrderInv
    OBVIOUS
<1>1. \A b \in Bot : press[b] = <<>>
      BY DEF Init
<1>2. Sent = {}
      BY <1>1, PollAssumption DEF Sent, Id, PollAssumption
<1> QED BY <1>2 DEF Init, OrderInv, QueueSent, ChanInOrder, HandInOrder, InOrder

\* A press that nobody has made yet changes nothing of this, and what is said of a
\* bot when it is polled from another one's offset is said no more.
LEMMA BeforeStays ==
  ASSUME TypeOK, [Next]_vars
  PROVE  \A p \in Sent, q \in Sent' : Before(q, p)' => q \in Sent /\ Before(q, p)
<1> SUFFICES ASSUME NEW p \in Sent, NEW q \in Sent', Before(q, p)'
             PROVE  q \in Sent /\ Before(q, p)
    OBVIOUS
<1>1. q[1] = p[1] /\ q[2] < p[2] /\ p[1] \notin mixed /\ Acts(q)'
      BY SentStays DEF Before
<1>2. p[2] \in Nat /\ p[2] <= Len(press[p[1]]) /\ Len(press[p[1]]) \in Nat
      BY SentStays DEF TypeOK
<1>3. q \in Sent
      BY <1>1, <1>2, SentStays
<1> QED BY <1>1, <1>3, SentStays DEF Before

\* A step that neither queues nor carries out can only send and settle.
LEMMA OrderSame ==
  ASSUME TypeOK, OrderInv, [Next]_vars, UNCHANGED <<chan, hand, handled>>
  PROVE  OrderInv'
<1>1. Sent \subseteq Sent' /\ Sent \subseteq Id
      BY SentStays
<1>2. \A q \in Sent : Settled(q) => Settled(q)'
      BY <1>1, SettledStays
<1>3. QueueSent'
      BY <1>1 DEF OrderInv, QueueSent
<1>4. ChanInOrder'
  <2> SUFFICES ASSUME NEW i \in DOMAIN chan, NEW q \in Sent', Before(q, chan[i])'
               PROVE  Settled(q)' \/ q = hand \/ \E j \in 1..(i - 1) : chan[j] = q
      BY DEF ChanInOrder
  <2>1. chan[i] \in Sent /\ q \in Sent /\ Before(q, chan[i])
        BY BeforeStays DEF OrderInv, QueueSent
  <2> QED BY <1>2, <2>1 DEF OrderInv, ChanInOrder
<1>5. HandInOrder'
  <2> SUFFICES ASSUME NEW q \in Sent', hand # NoPress, Before(q, hand)' PROVE Settled(q)'
      BY DEF HandInOrder
  <2>1. hand \in Sent /\ q \in Sent /\ Before(q, hand)
        BY BeforeStays DEF OrderInv, QueueSent
  <2> QED BY <1>2, <2>1 DEF OrderInv, HandInOrder
<1>6. InOrder'
  <2> SUFFICES ASSUME NEW p \in Sent', NEW q \in Sent', Before(q, p)', handled[p] > 0
               PROVE  Settled(q)'
      BY DEF InOrder, Before
  <2>1. p \in Id
        BY DEF Sent
  <2>2. p \in Sent
        BY <2>1 DEF OrderInv, QueueSent
  <2>3. q \in Sent /\ Before(q, p)
        BY <2>2, BeforeStays
  <2> QED BY <1>2, <2>2, <2>3 DEF OrderInv, InOrder, Before
<1> QED BY <1>3, <1>4, <1>5, <1>6 DEF OrderInv

\* The pump takes the first press of the channel.
LEMMA OrderTake ==
  ASSUME TypeOK, OrderInv, Take PROVE OrderInv'
<1>1. /\ chan \in Seq(Id) /\ chan # <<>> /\ hand = NoPress
      /\ hand' = Head(chan) /\ chan' = Tail(chan)
      /\ UNCHANGED <<press, handled, refused, lost, mixed>>
      BY DEF Take, TypeOK, telegramVars, fateVars, daemonVars
<1>2. /\ Len(chan) \in Nat \ {0} /\ DOMAIN chan = 1..Len(chan)
      /\ DOMAIN chan' = 1..(Len(chan) - 1) /\ hand' = chan[1]
      /\ \A i \in 1..(Len(chan) - 1) : chan'[i] = chan[i + 1]
      BY <1>1, EmptySeq
<1>3. /\ Sent' = Sent /\ \A q \in Sent : Settled(q)' <=> Settled(q)
      /\ \A p, q : Before(q, p)' <=> Before(q, p)
      /\ \A q \in Sent : q # hand
      BY <1>1, PollAssumption DEF Sent, Acts, Settled, Before, PollAssumption
<1>4. QueueSent'
      BY <1>1, <1>2, <1>3 DEF OrderInv, QueueSent
<1>5. ChanInOrder'
  <2> SUFFICES ASSUME NEW i \in DOMAIN chan', NEW q \in Sent, Before(q, chan'[i]),
                      ~Settled(q)
               PROVE  q = hand' \/ \E j \in 1..(i - 1) : chan'[j] = q
      BY <1>3 DEF ChanInOrder
  <2>1. i + 1 \in DOMAIN chan /\ chan'[i] = chan[i + 1] /\ i \in Nat
        BY <1>2
  <2>2. PICK j \in 1..i : chan[j] = q
        BY <1>3, <2>1 DEF OrderInv, ChanInOrder
  <2>3. CASE j = 1
        BY <1>2, <2>2, <2>3
  <2>4. CASE j # 1
    <3>1. j - 1 \in 1..(i - 1) /\ chan'[j - 1] = chan[j]
          BY <1>2, <2>1, <2>2, <2>4
    <3> QED BY <2>2, <3>1
  <2> QED BY <2>3, <2>4
<1>6. HandInOrder'
  <2> SUFFICES ASSUME NEW q \in Sent, Before(q, chan[1]) PROVE Settled(q)
      BY <1>2, <1>3 DEF HandInOrder
  <2>1. 1 \in DOMAIN chan
        BY <1>2
  <2>2. Settled(q) \/ q = hand \/ \E j \in 1..(1 - 1) : chan[j] = q
        BY <2>1 DEF OrderInv, ChanInOrder
  <2> QED BY <1>3, <2>2
<1>7. InOrder'
      BY <1>1, <1>3 DEF OrderInv, InOrder, Before, Acts
<1> QED BY <1>4, <1>5, <1>6, <1>7 DEF OrderInv

\* The pump carries a press out.
LEMMA OrderHandle ==
  ASSUME TypeOK, OrderInv, Handle PROVE OrderInv'
<1>1. /\ hand \in Id /\ hand \in Sent /\ hand' = NoPress
      /\ handled' = [handled EXCEPT ![hand] = @ + 1] /\ handled \in [Id -> Nat]
      /\ UNCHANGED <<press, chan, refused, lost, mixed>>
      BY DEF Handle, TypeOK, telegramVars, daemonVars, OrderInv, QueueSent
<1>2. /\ Sent' = Sent /\ Sent \subseteq Id
      /\ \A p, q : Before(q, p)' <=> Before(q, p)
      BY <1>1 DEF Sent, Acts, Before
<1>3. ASSUME NEW q \in Sent, Settled(q) \/ q = hand PROVE Settled(q)'
  <2>1. CASE q = hand
    <3>1. handled'[q] > 0
          BY <1>1, <2>1
    <3> QED BY <3>1 DEF Settled
  <2>2. CASE q # hand
    <3>1. handled'[q] = handled[q]
          BY <1>1, <1>2, <2>2
    <3> QED BY <1>1, <1>3, <2>2, <3>1 DEF Settled
  <2> QED BY <2>1, <2>2
<1>4. QueueSent'
      BY <1>1, <1>2 DEF OrderInv, QueueSent
<1>5. ChanInOrder'
  <2> SUFFICES ASSUME NEW i \in DOMAIN chan, NEW q \in Sent, Before(q, chan[i])
               PROVE  Settled(q)' \/ \E j \in 1..(i - 1) : chan[j] = q
      BY <1>1, <1>2 DEF ChanInOrder
  <2>1. Settled(q) \/ q = hand \/ \E j \in 1..(i - 1) : chan[j] = q
        BY DEF OrderInv, ChanInOrder
  <2> QED BY <1>3, <2>1
<1>6. HandInOrder'
      BY <1>1 DEF HandInOrder
<1>7. InOrder'
  <2> SUFFICES ASSUME NEW p \in Sent, NEW q \in Sent, Before(q, p), handled'[p] > 0
               PROVE  Settled(q)'
    <3>1. \A p, q \in Sent : Before(q, p) /\ handled'[p] > 0 => Settled(q)'
          OBVIOUS
    <3> QED BY <1>2, <3>1 DEF InOrder, Before
  <2>1. CASE p = hand
    <3>1. p # NoPress
          BY <1>2, PollAssumption DEF PollAssumption
    <3> QED BY <1>3, <2>1, <3>1 DEF OrderInv, HandInOrder
  <2>2. CASE p # hand
    <3>1. handled[p] > 0
          BY <1>1, <1>2, <2>2
    <3> QED BY <1>3, <3>1 DEF OrderInv, InOrder, Before
  <2> QED BY <2>1, <2>2
<1> QED BY <1>4, <1>5, <1>6, <1>7 DEF OrderInv

\* A poller delivers a press behind all those it has passed.
LEMMA OrderDeliver ==
  ASSUME TypeOK, Bounds, NothingSkipped, OrderInv, NEW g \in Poller, Deliver(g)
  PROVE  OrderInv'
<1>1. /\ chan \in Seq(Id) /\ chan' = Append(chan, At(g))
      /\ UNCHANGED <<press, hand, handled, refused, lost, mixed>>
      BY DEF Deliver, TypeOK, telegramVars, fateVars, daemonVars
<1>2. At(g) \in Sent /\ At(g) \in Id /\ Running(g)
      BY AtPress DEF Deliver, InBatch, Running
<1>3. /\ Len(chan) \in Nat /\ DOMAIN chan = 1..Len(chan)
      /\ DOMAIN chan' = 1..(Len(chan) + 1) /\ chan'[Len(chan) + 1] = At(g)
      /\ \A i \in 1..Len(chan) : chan'[i] = chan[i]
      BY <1>1, <1>2
<1>4. /\ Sent' = Sent /\ \A q \in Sent : Settled(q)' <=> Settled(q)
      /\ \A p, q : Before(q, p)' <=> Before(q, p)
      BY <1>1 DEF Sent, Acts, Settled, Before
<1>5. QueueSent'
      BY <1>1, <1>2, <1>3, <1>4 DEF OrderInv, QueueSent
<1>6. ChanInOrder'
  <2> SUFFICES ASSUME NEW i \in DOMAIN chan', NEW q \in Sent, Before(q, chan'[i]),
                      ~Settled(q)
               PROVE  q = hand \/ \E j \in 1..(i - 1) : chan'[j] = q
      BY <1>1, <1>4 DEF ChanInOrder
  <2>1. CASE i = Len(chan) + 1
    <3>0. q[1] = bot[g] /\ q[2] < offset[g] /\ Acts(q) /\ q[1] \notin mixed
          BY <1>3, <2>1 DEF Before, At
    <3>1. Queued(q)
          BY <1>2, <3>0 DEF NothingSkipped, Passed
    <3>2. q = hand \/ \E j \in 1..Len(chan) : chan[j] = q
          BY <1>3, <3>1 DEF Queued, ToSet
    <3> QED BY <1>3, <2>1, <3>2
  <2>2. CASE i \in DOMAIN chan
    <3>1. q = hand \/ \E j \in 1..(i - 1) : chan[j] = q
          BY <1>3, <2>2 DEF OrderInv, ChanInOrder
    <3> QED BY <1>3, <2>2, <3>1
  <2> QED BY <1>3, <2>1, <2>2
<1>7. HandInOrder'
      BY <1>1, <1>4 DEF OrderInv, HandInOrder
<1>8. InOrder'
      BY <1>1, <1>4 DEF OrderInv, InOrder, Before, Acts
<1> QED BY <1>5, <1>6, <1>7, <1>8 DEF OrderInv

\* A crash empties the channel.
LEMMA OrderCrash ==
  ASSUME TypeOK, OrderInv, Crash, [Next]_vars PROVE OrderInv'
<1>1. /\ chan' = <<>> /\ hand' = NoPress /\ UNCHANGED <<press, handled, mixed>>
      BY DEF Crash, telegramVars
<1>2. Sent' = Sent /\ Sent \subseteq Id /\ \A q : Acts(q)' <=> Acts(q)
      BY <1>1 DEF Sent, Acts
<1>3. \A q \in Sent : Settled(q) => Settled(q)'
      BY <1>2, SettledStays
<1>4. QueueSent' /\ ChanInOrder' /\ HandInOrder'
      BY <1>1, <1>2 DEF OrderInv, QueueSent, ChanInOrder, HandInOrder
<1>5. InOrder'
      BY <1>1, <1>2, <1>3 DEF OrderInv, InOrder
<1> QED BY <1>4, <1>5 DEF OrderInv

LEMMA OrderNext ==
  TypeOK /\ Bounds /\ NothingSkipped /\ OrderInv /\ [Next]_vars => OrderInv'
<1> SUFFICES ASSUME TypeOK, Bounds, NothingSkipped, OrderInv, [Next]_vars
             PROVE  OrderInv'
    OBVIOUS
<1>1. CASE Take \/ Handle \/ Crash \/ \E g \in Poller : Deliver(g)
      BY <1>1, OrderTake, OrderHandle, OrderCrash, OrderDeliver
<1>2. CASE ~(Take \/ Handle \/ Crash \/ \E g \in Poller : Deliver(g))
  <2>1. UNCHANGED <<chan, hand, handled>>
        BY <1>2 DEF Next, vars, queueVars, fateVars, Press, Pump, Restart,
           PollStep, FetchFails, Fetch, FetchRefused, FetchLost, Stop, Skip, Refuse,
           Abandon, SaveTruncates, SaveWrites, SaveConfig, SwapPoller
  <2> QED BY <2>1, OrderSame
<1> QED BY <1>1, <1>2

\* The pump carries the decisions of a bot out in the order they were made,
\* whichever pollers delivered them and how often they were restarted, as long as
\* none of them started from another bot's offset.
THEOREM OrderKept == Spec => []InOrder
  BY TypeInit, TypeNext, NothingSkippedInit, NothingSkippedNext, OrderInit,
     OrderNext, PTL DEF Spec, OrderInv

------------------------------------------------------------------------------
\* Each poller carries a press once at most.  What has become of a press, in the
\* channel, in the hand of the pump and carried out, is counted against the
\* pollers that are past it or will not come to it any more.

Carried(p) == {i \in DOMAIN chan : chan[i] = p}
InHand(p) == IF hand = p THEN 1 ELSE 0
Behind(p) == {g \in Poller :
                g <= started /\ (Running(g) /\ bot[g] = p[1] => p[2] < offset[g])}

AllStarted == \A g \in Poller : pc[g] # "none" => g <= started
Accounted ==
  \A p \in Id : handled[p] + InHand(p) + Cardinality(Carried(p)) <= Cardinality(Behind(p))

OnceInv == AllStarted /\ Accounted

\* The numbers up to n.
LEMMA UpTo ==
  ASSUME NEW n \in Nat
  PROVE  IsFiniteSet(1..n) /\ Cardinality(1..n) = n
<1>1. 1 \in Int /\ n \in Int
      OBVIOUS
<1>2. IsFiniteSet(1..n) /\ Cardinality(1..n) = IF 1 > n THEN 0 ELSE n - 1 + 1
      BY <1>1, FS_Interval
<1> QED BY <1>2

\* Both counts are of finite sets.
LEMMA Finitely ==
  ASSUME TypeOK, NEW p \in Id
  PROVE  /\ IsFiniteSet(Carried(p)) /\ Cardinality(Carried(p)) \in Nat
         /\ IsFiniteSet(Behind(p)) /\ Cardinality(Behind(p)) \in Nat
         /\ Cardinality(Behind(p)) <= started
<1>1. started \in Nat /\ Len(chan) \in Nat /\ DOMAIN chan = 1..Len(chan)
      BY DEF TypeOK
<1>2. Carried(p) \in SUBSET (1..Len(chan)) /\ Behind(p) \in SUBSET (1..started)
      BY <1>1 DEF Carried, Behind, Poller
<1>3. /\ IsFiniteSet(1..Len(chan))
      /\ IsFiniteSet(1..started) /\ Cardinality(1..started) = started
      BY <1>1, UpTo
<1> QED BY <1>2, <1>3, FS_Subset, FS_CardinalityType

\* At first there is one poller and no press.
LEMMA OnceInit == Init => OnceInv
<1> SUFFICES ASSUME Init PROVE OnceInv
    OBVIOUS
<1>1. TypeOK
      BY TypeInit
<1>2. AllStarted
      BY DEF Init, AllStarted
<1>3. ASSUME NEW p \in Id
      PROVE  handled[p] + InHand(p) + Cardinality(Carried(p)) <= Cardinality(Behind(p))
  <2>1. Carried(p) = {}
        BY DEF Init, Carried
  <2>2. handled[p] = 0 /\ InHand(p) = 0
        BY PollAssumption DEF Init, InHand, PollAssumption
  <2> QED BY <1>1, <2>1, <2>2, FS_EmptySet, Finitely
<1> QED BY <1>2, <1>3 DEF OnceInv, Accounted

\* A new poller is one more that is started.
LEMMA StartOnly ==
  ASSUME TypeOK, AllStarted, NEW c, NEW stopped, StartPoller(c, stopped)
  PROVE  /\ AllStarted' /\ started <= started'
         /\ \A g \in Poller : g <= started =>
               pc'[g] = pc[g] /\ bot'[g] = bot[g] /\ offset'[g] = offset[g]
<1>1. started \in Nat /\ Poller \subseteq Nat
      BY DEF TypeOK, Poller
<1> QED BY <1>1 DEF StartPoller, TypeOK, AllStarted

\* A running poller only moves forward.
LEMMA PollersAdvance ==
  ASSUME TypeOK, Bounds, AllStarted, [Next]_vars
  PROVE  /\ AllStarted' /\ started <= started'
         /\ \A g \in Poller : g <= started /\ Running(g)' =>
               Running(g) /\ bot'[g] = bot[g] /\ offset[g] <= offset'[g]
<1> USE DEF pollerVars, daemonVars, AllStarted
<1>0. /\ started \in Nat
      /\ \A g \in Poller : offset[g] \in Nat
      BY DEF TypeOK
<1>1. CASE UNCHANGED <<pc, bot, offset, started>>
      BY <1>0, <1>1 DEF Running
<1>2. CASE Press \/ Pump \/ \E a \in Admin : SaveConfig(a)
      BY <1>1, <1>2 DEF Press, Pump, Take, Handle, SaveConfig
<1>3. CASE Restart
      BY <1>0, <1>3, StartOnly DEF Restart, Running
<1>4. ASSUME NEW a \in Admin, SwapPoller(a)
      PROVE  /\ AllStarted' /\ started <= started'
             /\ \A g \in Poller : g <= started /\ Running(g)' =>
                   Running(g) /\ bot'[g] = bot[g] /\ offset[g] <= offset'[g]
      BY <1>0, <1>4, StartOnly DEF SwapPoller, Running
<1>5. CASE Crash
      BY <1>0, <1>5 DEF Crash, Running
<1>6. ASSUME NEW h \in Poller, PollStep(h) \/ FetchFails(h)
      PROVE  /\ AllStarted' /\ started <= started'
             /\ \A g \in Poller : g <= started /\ Running(g)' =>
                   Running(g) /\ bot'[g] = bot[g] /\ offset[g] <= offset'[g]
  <2>1. started' = started /\ Running(h)
        BY <1>6 DEF PollStep, Fetch, FetchFails, FetchRefused, FetchLost, Stop, Skip, Refuse, Deliver, Abandon,
           SaveTruncates, SaveWrites, InBatch, Running
  <2>2. \A g \in Poller \ {h} : pc'[g] = pc[g] /\ bot'[g] = bot[g] /\ offset'[g] = offset[g]
        BY <1>6 DEF TypeOK, PollStep, Fetch, FetchFails, FetchRefused, FetchLost, Stop, Skip, Refuse, Deliver,
           Abandon, SaveTruncates, SaveWrites, Advance, Return
  <2>3. CASE Stop(h) \/ Abandon(h)
    <3>1. pc'[h] = "done"
          BY <2>3 DEF Stop, Abandon, Return, TypeOK
    <3> QED BY <1>0, <2>1, <2>2, <3>1 DEF Running
  <2>4. CASE ~(Stop(h) \/ Abandon(h))
    <3>1. offset'[h] \in {offset[h], offset[h] + 1, First(h)} /\ bot' = bot
          BY <1>6, <2>4 DEF TypeOK, PollStep, Fetch, FetchFails, FetchRefused, FetchLost, Skip, Refuse, Deliver,
             SaveTruncates, SaveWrites, Advance
    <3>2. First(h) \in Nat /\ First(h) >= offset[h]
      <4>1. bot[h] \in Bot
            BY <2>1 DEF Bounds, PollerBounds
      <4>2. acked[bot[h]] \in Nat
            BY <4>1 DEF TypeOK
      <4> QED BY <1>0, <4>2 DEF First, Later
    <3> QED BY <1>0, <2>1, <2>2, <3>1, <3>2 DEF Running
  <2> QED BY <2>3, <2>4
<1> QED BY <1>1, <1>2, <1>3, <1>4, <1>5, <1>6 DEF Next, vars

\* So a poller that is past a press stays so.
LEMMA BehindGrows ==
  ASSUME TypeOK, TypeOK', Bounds, AllStarted, [Next]_vars, NEW p \in Id
  PROVE  /\ Behind(p) \subseteq Behind(p)' /\ IsFiniteSet(Behind(p)')
         /\ Cardinality(Behind(p)) <= Cardinality(Behind(p)')
<1>1. /\ started \in Nat /\ started' \in Nat /\ p[2] \in Nat
      /\ \A g \in Poller : g \in Nat \ {0} /\ offset[g] \in Nat /\ offset'[g] \in Nat
  <2>1. started \in Nat /\ offset \in [Poller -> Nat]
        BY DEF TypeOK
  <2>2. started' \in Nat /\ offset' \in [Poller -> Nat]
        BY DEF TypeOK
  <2> QED BY <2>1, <2>2, PollAssumption DEF Id, Poller, PollAssumption
<1>2. Behind(p) \subseteq Behind(p)' /\ Behind(p)' \in SUBSET (1..started')
      BY <1>1, PollersAdvance DEF Behind, Poller
<1>3. IsFiniteSet(Behind(p)')
  <2>1. IsFiniteSet(1..started')
        BY <1>1, UpTo
  <2> QED BY <1>2, <2>1, FS_Subset
<1> QED BY <1>2, <1>3, FS_Subset

\* A poller that hands a press over was not past it before, and is then.
LEMMA OnceDeliver ==
  ASSUME TypeOK, TypeOK', Bounds, OnceInv, [Next]_vars, NEW g \in Poller, Deliver(g)
  PROVE  Accounted'
<1>1. /\ chan \in Seq(Id) /\ chan' = Append(chan, At(g)) /\ offset[g] \in Nat
      /\ offset' = [offset EXCEPT ![g] = @ + 1] /\ offset \in [Poller -> Nat]
      /\ UNCHANGED <<hand, handled, pc, bot, started>> /\ Running(g)
      BY DEF Deliver, TypeOK, Advance, fateVars, daemonVars, InBatch, Running
<1>2. g <= started
      BY <1>1 DEF OnceInv, AllStarted, Running
<1>3. /\ Len(chan) \in Nat /\ DOMAIN chan = 1..Len(chan)
      /\ DOMAIN chan' = DOMAIN chan \cup {Len(chan) + 1}
      /\ chan'[Len(chan) + 1] = At(g) /\ \A i \in DOMAIN chan : chan'[i] = chan[i]
      BY <1>1, AtPress DEF Deliver
<1> SUFFICES ASSUME NEW p \in Id
             PROVE  handled'[p] + InHand(p)' + Cardinality(Carried(p)')
                      <= Cardinality(Behind(p)')
    BY DEF Accounted
<1>4. /\ handled'[p] = handled[p] /\ InHand(p)' = InHand(p)
      /\ handled[p] \in Nat /\ InHand(p) \in Nat
      /\ handled[p] + InHand(p) + Cardinality(Carried(p)) <= Cardinality(Behind(p))
      BY <1>1 DEF InHand, OnceInv, Accounted, TypeOK
<1>5. CASE p # At(g)
  <2>1. Carried(p)' = Carried(p)
        BY <1>3, <1>5 DEF Carried
  <2>2. Cardinality(Behind(p)) <= Cardinality(Behind(p)') /\ IsFiniteSet(Behind(p)')
        BY BehindGrows DEF OnceInv
  <2>3. Cardinality(Behind(p)') \in Nat
        BY <2>2, FS_CardinalityType
  <2> QED BY <1>4, <2>1, <2>2, <2>3, Finitely
<1>6. CASE p = At(g)
  <2>1. Carried(p)' = Carried(p) \cup {Len(chan) + 1} /\ Len(chan) + 1 \notin Carried(p)
        BY <1>3, <1>6 DEF Carried
  <2>2. Cardinality(Carried(p)') = Cardinality(Carried(p)) + 1
        BY <2>1, Finitely, FS_AddElement
  <2>3. g \notin Behind(p) /\ g \in Behind(p)' /\ Behind(p) \subseteq Behind(p)'
    <3>1. p[1] = bot[g] /\ p[2] = offset[g]
          BY <1>6 DEF At
    <3> QED BY <1>1, <1>2, <3>1, BehindGrows DEF Behind, Running, OnceInv
  <2>4. Behind(p) \cup {g} \in SUBSET Behind(p)' /\ IsFiniteSet(Behind(p)')
        BY <2>3, BehindGrows DEF OnceInv
  <2>5. Cardinality(Behind(p) \cup {g}) <= Cardinality(Behind(p)')
        BY <2>4, FS_Subset
  <2>6. Cardinality(Behind(p) \cup {g}) = Cardinality(Behind(p)) + 1
        BY <2>3, Finitely, FS_AddElement
  <2>7. Cardinality(Behind(p)') \in Nat
        BY <2>4, FS_CardinalityType
  <2> QED BY <1>4, <2>2, <2>5, <2>6, <2>7, Finitely
<1> QED BY <1>5, <1>6

\* What the pump takes out of the channel it has in its hand.
LEMMA TakeMoves ==
  ASSUME TypeOK, Take, NEW p \in Id
  PROVE  InHand(p)' + Cardinality(Carried(p)') <= InHand(p) + Cardinality(Carried(p))
<1>1. /\ chan \in Seq(Id) /\ chan # <<>> /\ hand = NoPress
      /\ hand' = Head(chan) /\ chan' = Tail(chan)
      BY DEF Take, TypeOK
<1>2. /\ Len(chan) \in Nat \ {0} /\ DOMAIN chan = 1..Len(chan)
      /\ DOMAIN chan' = 1..(Len(chan) - 1) /\ hand' = chan[1]
      /\ \A i \in 1..(Len(chan) - 1) : chan'[i] = chan[i + 1]
      BY <1>1, EmptySeq
<1> DEFINE Rest == Carried(p) \ {1}
           shift == [i \in Carried(p)' |-> i + 1]
<1>3. shift \in [Carried(p)' -> Rest]
      BY <1>2 DEF Carried
<1>4. \A i, j \in Carried(p)' : shift[i] = shift[j] => i = j
      BY <1>2 DEF Carried
<1>5. shift \in Injection(Carried(p)', Rest)
      BY <1>3, <1>4, Fun_IsInj
<1>6. IsFiniteSet(Rest)
      BY Finitely, FS_RemoveElement
<1>7. IsFiniteSet(Carried(p)') /\ Cardinality(Carried(p)') <= Cardinality(Rest)
      BY <1>5, <1>6, FS_Injection
<1>8. Cardinality(Rest) = Cardinality(Carried(p)) - InHand(p)'
  <2>1. 1 \in Carried(p) <=> hand' = p
        BY <1>2 DEF Carried
  <2>2. Cardinality(Carried(p)) \in Nat /\ IsFiniteSet(Carried(p))
        BY Finitely
  <2>3. Cardinality(Rest) = IF 1 \in Carried(p) THEN Cardinality(Carried(p)) - 1
                                               ELSE Cardinality(Carried(p))
        BY <2>2, FS_RemoveElement
  <2> HIDE DEF Rest
  <2> QED BY <2>1, <2>2, <2>3 DEF InHand
<1>9. InHand(p) = 0 /\ InHand(p)' \in Nat
      BY <1>1, PollAssumption DEF InHand, PollAssumption
<1>10. /\ Cardinality(Carried(p)') \in Nat /\ Cardinality(Rest) \in Nat
       /\ Cardinality(Carried(p)) \in Nat
       BY <1>6, <1>7, Finitely, FS_CardinalityType
<1> HIDE DEF Rest
<1> QED BY <1>7, <1>8, <1>9, <1>10

\* What is in the hand is carried out once.
LEMMA HandleMoves ==
  ASSUME TypeOK, Handle, NEW p \in Id
  PROVE  /\ handled'[p] + InHand(p)' = handled[p] + InHand(p)
         /\ Carried(p)' = Carried(p)
<1>1. /\ handled' = [handled EXCEPT ![hand] = @ + 1] /\ handled \in [Id -> Nat]
      /\ hand \in Id /\ hand' = NoPress /\ chan' = chan /\ p # NoPress
      BY PollAssumption DEF Handle, TypeOK, PollAssumption
<1> QED BY <1>1 DEF InHand, Carried

\* Together: every step keeps the account.
LEMMA OnceNext ==
  TypeOK /\ TypeOK' /\ Bounds /\ OnceInv /\ [Next]_vars => OnceInv'
<1> SUFFICES ASSUME TypeOK, TypeOK', Bounds, OnceInv, [Next]_vars PROVE OnceInv'
    OBVIOUS
<1>1. AllStarted'
      BY PollersAdvance DEF OnceInv
<1>2. CASE \E g \in Poller : Deliver(g)
      BY <1>1, <1>2, OnceDeliver DEF OnceInv
<1>3. CASE ~\E g \in Poller : Deliver(g)
  <2> SUFFICES ASSUME NEW p \in Id
               PROVE  handled'[p] + InHand(p)' + Cardinality(Carried(p)')
                        <= Cardinality(Behind(p)')
      BY <1>1 DEF OnceInv, Accounted
  <2>1. /\ handled[p] \in Nat /\ handled'[p] \in Nat
        /\ InHand(p) \in Nat /\ InHand(p)' \in Nat
        /\ handled[p] + InHand(p) + Cardinality(Carried(p)) <= Cardinality(Behind(p))
        BY DEF InHand, OnceInv, Accounted, TypeOK
  <2>2. /\ Cardinality(Behind(p)) <= Cardinality(Behind(p)')
        /\ Cardinality(Behind(p)') \in Nat
        BY BehindGrows, FS_CardinalityType DEF OnceInv
  <2>3. Cardinality(Carried(p)') \in Nat
    <3>1. chan' \in Seq(Id)
          BY DEF TypeOK
    <3>2. Len(chan') \in Nat /\ Carried(p)' \in SUBSET (1..Len(chan'))
          BY <3>1 DEF Carried
    <3>3. IsFiniteSet(1..Len(chan'))
          BY <3>2, UpTo
    <3> QED BY <3>2, <3>3, FS_Subset, FS_CardinalityType
  <2>4. handled'[p] + InHand(p)' + Cardinality(Carried(p)')
          <= handled[p] + InHand(p) + Cardinality(Carried(p))
    <3>1. CASE Take
      <4>1. handled' = handled
            BY <3>1 DEF Take, fateVars
      <4> QED BY <2>1, <2>3, <3>1, <4>1, TakeMoves, Finitely
    <3>2. CASE Handle
          BY <2>1, <3>2, HandleMoves, Finitely
    <3>3. CASE Crash
      <4>1. handled' = handled /\ hand' = NoPress /\ chan' = <<>> /\ p # NoPress
            BY <3>3, PollAssumption DEF Crash, PollAssumption
      <4>2. Carried(p)' = {} /\ InHand(p)' = 0
            BY <4>1 DEF Carried, InHand
      <4> QED BY <2>1, <4>1, <4>2, FS_EmptySet, Finitely
    <3>4. CASE ~Take /\ ~Handle /\ ~Crash
      <4>1. UNCHANGED <<handled, hand, chan>>
            BY <1>3, <3>4 DEF Next, vars, queueVars, fateVars, Press, Pump, Restart,
               PollStep, FetchFails, Fetch, FetchRefused, FetchLost, Stop, Skip, Refuse, Abandon,
               SaveTruncates, SaveWrites, SaveConfig, SwapPoller
      <4>2. InHand(p)' = InHand(p) /\ Carried(p)' = Carried(p)
            BY <4>1 DEF InHand, Carried
      <4> QED BY <2>1, <2>3, <4>1, <4>2
    <3> QED BY <3>1, <3>2, <3>3, <3>4
  <2> QED BY <2>1, <2>2, <2>3, <2>4, Finitely
<1> QED BY <1>2, <1>3

\* A press takes effect at most once per poller that was started, however often
\* the daemon crashed or was reconfigured, and whatever became of the saved offset.
THEOREM CarriedOncePerPoller == Spec => []OncePerPoller
<1>1. OnceInv /\ TypeOK => OncePerPoller
  <2> SUFFICES ASSUME OnceInv, TypeOK, NEW p \in Id PROVE handled[p] <= started
      BY DEF OncePerPoller
  <2>1. /\ handled[p] \in Nat /\ InHand(p) \in Nat /\ started \in Nat
        /\ handled[p] + InHand(p) + Cardinality(Carried(p)) <= Cardinality(Behind(p))
        BY DEF OnceInv, Accounted, InHand, TypeOK
  <2> QED BY <2>1, Finitely
<1> QED BY <1>1, TypeInit, TypeNext, OnceInit, OnceNext, PTL DEF Spec

------------------------------------------------------------------------------
\* One poller at a time is meant to run.

Pending == {a \in Admin : acpc[a] = "saved"}

\* There is a poller for every configuration and every restart that may still want
\* one: the requests that have saved and not swapped yet, and the next start of a
\* daemon that is down.
Enough == /\ IsFiniteSet(Pending)
          /\ started + Cardinality(Pending) + (IF up THEN 0 ELSE 1)
                <= 1 + configs + crashes

\* Only a living daemon polls. The poller that state.cancelPoll stops runs and is
\* not stopped; every other one that still runs is.
OnlyLive ==
  /\ live <= started
  /\ live # 0 => up /\ live \in Poller /\ Running(live) /\ ~cancelled[live]
  /\ \A g \in Poller : Running(g) => up /\ (~cancelled[g] => g = live)
  /\ \A g \in Poller : g > started => pc[g] = "none" /\ ~cancelled[g]
  /\ ~up => Pending = {}

OneInv == Enough /\ OnlyLive

\* Where nobody starts or stops a poller, nothing changes but its way through its
\* loop.
LoopOnly == /\ UNCHANGED <<started, live, up, cancelled, crashes, configs, acpc>>
            /\ \A g \in Poller : Running(g)' <=> (Running(g) /\ pc'[g] # "done")
            /\ \A g \in Poller : Running(g) /\ ~cancelled[g] => pc'[g] # "done"
            /\ \A g \in Poller : pc[g] = "none" => pc'[g] = "none"

LEMMA PollIsLoop ==
  ASSUME TypeOK, NEW h \in Poller, PollStep(h) \/ FetchFails(h)
  PROVE  LoopOnly
<1> USE DEF pollerVars, daemonVars, adminVars
<1>1. UNCHANGED <<started, live, up, cancelled, crashes, configs, acpc>>
      BY DEF PollStep, Fetch, FetchFails, FetchRefused, FetchLost, Stop, Skip, Refuse, Deliver, Abandon,
         SaveTruncates, SaveWrites
<1>2. \A g \in Poller \ {h} : pc'[g] = pc[g]
      BY DEF TypeOK, PollStep, Fetch, FetchFails, FetchRefused, FetchLost, Stop, Skip, Refuse, Deliver,
         Abandon, SaveTruncates, SaveWrites, Return
<1>3. Running(h)
      BY DEF PollStep, Fetch, FetchFails, FetchRefused, FetchLost, Stop, Skip, Refuse, Deliver, Abandon,
         SaveTruncates, SaveWrites, InBatch, Running
<1>4. CASE Stop(h) \/ Abandon(h)
  <2>1. pc'[h] = "done" /\ cancelled[h]
        BY <1>4 DEF Stop, Abandon, Return, TypeOK
  <2> QED BY <1>1, <1>2, <1>3, <2>1 DEF LoopOnly, Running
<1>5. CASE ~(Stop(h) \/ Abandon(h))
  <2>1. pc'[h] \in {"top", "batch", "write"}
        BY <1>3, <1>5 DEF PollStep, Fetch, FetchFails, FetchRefused, FetchLost, Skip, Refuse, Deliver,
           SaveTruncates, SaveWrites, TypeOK, Running
  <2> QED BY <1>1, <1>2, <1>3, <2>1 DEF LoopOnly, Running
<1> QED BY <1>4, <1>5

LEMMA LoopKeeps == ASSUME TypeOK, OneInv, LoopOnly PROVE OneInv'
<1>1. Pending' = Pending
      BY DEF LoopOnly, Pending
<1>2. Enough'
      BY <1>1 DEF LoopOnly, OneInv, Enough
<1>3. OnlyLive'
  <2>1. live # 0 => Running(live)'
        BY DEF LoopOnly, OneInv, OnlyLive
  <2>2. \A g \in Poller : Running(g)' => Running(g)
        BY DEF LoopOnly
  <2> QED BY <1>1, <2>1, <2>2 DEF LoopOnly, OneInv, OnlyLive
<1> QED BY <1>2, <1>3 DEF OneInv

\* There is a number left for a new poller.
LEMMA RoomForOne ==
  ASSUME TypeOK, started + 1 <= 1 + configs + crashes PROVE started + 1 \in Poller
<1>1. /\ started \in Nat /\ configs \in Nat /\ crashes \in Nat
      /\ configs <= MaxConfigs /\ crashes <= MaxCrashes
      /\ MaxConfigs \in Nat /\ MaxCrashes \in Nat
      BY PollAssumption DEF TypeOK, PollAssumption
<1> QED BY <1>1 DEF Poller

\* A new poller, or none, takes the place of the one that was stopped.
LEMMA SwapLeavesOne ==
  ASSUME TypeOK, OneInv, up', NEW c \in Config, StartPoller(c, cancelled'),
         started + 1 <= 1 + configs + crashes,
         cancelled' \in [Poller -> BOOLEAN],
         \A g \in Poller : cancelled'[g] <=> (cancelled[g] \/ g = live)
  PROVE  OnlyLive'
<1>1. /\ started \in Nat /\ live \in Nat /\ started + 1 \in Poller
      /\ \A g \in Poller : g \in Nat \ {0}
      BY RoomForOne DEF TypeOK, Poller
<1>2. /\ live <= started
      /\ \A g \in Poller : Running(g) => (~cancelled[g] => g = live)
      /\ \A g \in Poller : g > started => pc[g] = "none" /\ ~cancelled[g]
      BY DEF OneInv, OnlyLive
<1>3. CASE c.bot # NoBot
  <2>1. /\ live' = started + 1 /\ started' = started + 1
        /\ pc' = [pc EXCEPT ![started + 1] = "top"]
        BY <1>3 DEF StartPoller
  <2>2. pc'[started + 1] = "top" /\ \A g \in Poller : g # started + 1 => pc'[g] = pc[g]
        BY <1>1, <2>1 DEF TypeOK
  <2>3. ~cancelled'[started + 1]
        BY <1>1, <1>2
  <2>4. \A g \in Poller : Running(g)' => (~cancelled'[g] => g = live')
        BY <1>2, <2>1, <2>2 DEF Running
  <2>5. \A g \in Poller : g > started' => pc'[g] = "none" /\ ~cancelled'[g]
        BY <1>1, <1>2, <2>1, <2>2
  <2>6. Running(live)'
        BY <1>1, <2>1, <2>2 DEF Running
  <2> QED BY <1>1, <2>1, <2>3, <2>4, <2>5, <2>6 DEF OnlyLive
<1>4. CASE c.bot = NoBot
  <2>1. live' = 0 /\ UNCHANGED <<started, pc>>
        BY <1>4 DEF StartPoller
  <2>2. \A g \in Poller : Running(g)' => (~cancelled'[g] => g = live')
        BY <1>2, <2>1 DEF Running
  <2>3. \A g \in Poller : g > started' => pc'[g] = "none" /\ ~cancelled'[g]
        BY <1>1, <1>2, <2>1
  <2> QED BY <1>1, <2>1, <2>2, <2>3 DEF OnlyLive
<1> QED BY <1>3, <1>4

\* How many pollers are started.
LEMMA StartedBy ==
  ASSUME TypeOK, NEW c, NEW stopped, StartPoller(c, stopped)
  PROVE  started' \in Nat /\ started' <= started + 1
  BY DEF TypeOK, StartPoller

LEMMA OneInit == Init => OneInv
<1> SUFFICES ASSUME Init PROVE OneInv
    OBVIOUS
<1>1. Pending = {}
      BY DEF Init, Pending
<1>2. Enough
      BY <1>1, FS_EmptySet DEF Init, Enough
<1>3. 1 \in Poller /\ \A g \in Poller : g \in Nat \ {0}
      BY PollAssumption DEF Poller, PollAssumption
<1>4. OnlyLive
      BY <1>1, <1>3 DEF Init, OnlyLive, Running
<1> QED BY <1>2, <1>4 DEF OneInv

\* The actions that start or stop pollers, or ask for one.
LEMMA OneSave == ASSUME TypeOK, OneInv, NEW a \in Admin, SaveConfig(a) PROVE OneInv'
<1>1. /\ a \notin Pending /\ Pending' = Pending \cup {a}
      /\ configs' = configs + 1 /\ up /\ up'
      /\ UNCHANGED <<started, live, crashes, pc, cancelled>>
      BY DEF SaveConfig, Pending, TypeOK, daemonVars, pollerVars
<1>2. /\ IsFiniteSet(Pending') /\ Cardinality(Pending') = Cardinality(Pending) + 1
      /\ Cardinality(Pending) \in Nat
      BY <1>1, FS_AddElement, FS_CardinalityType DEF OneInv, Enough
<1>3. Enough'
  <2>1. started \in Nat /\ configs \in Nat /\ crashes \in Nat
        BY DEF TypeOK
  <2> QED BY <1>1, <1>2, <2>1 DEF OneInv, Enough
<1>4. OnlyLive'
      BY <1>1 DEF OneInv, OnlyLive, Running
<1> QED BY <1>3, <1>4 DEF OneInv

LEMMA OneSwap ==
  ASSUME TypeOK, TypeOK', OneInv, NEW a \in Admin, SwapPoller(a) PROVE OneInv'
<1>1. /\ a \in Pending /\ Pending' = Pending \ {a}
      /\ UNCHANGED <<up, configs, crashes>>
      BY DEF SwapPoller, Pending, TypeOK
<1>2. up /\ up'
      BY <1>1 DEF OneInv, OnlyLive
<1>3. /\ IsFiniteSet(Pending') /\ Cardinality(Pending') = Cardinality(Pending) - 1
      /\ Cardinality(Pending) \in Nat /\ Cardinality(Pending') \in Nat
      BY <1>1, FS_RemoveElement, FS_CardinalityType DEF OneInv, Enough
<1>4. started \in Nat /\ configs \in Nat /\ crashes \in Nat
      BY DEF TypeOK
<1>5. /\ started + Cardinality(Pending) <= 1 + configs + crashes
      /\ started + 1 <= 1 + configs + crashes
      BY <1>2, <1>3, <1>4 DEF OneInv, Enough
<1> DEFINE stopped == [g \in Poller |-> cancelled[g] \/ g = live]
<1>6. StartPoller(areq[a], stopped) /\ areq[a] \in Config
      BY DEF SwapPoller, TypeOK
<1>7. cancelled' = stopped
      BY <1>6 DEF StartPoller
<1>8. \A g \in Poller : cancelled'[g] <=> (cancelled[g] \/ g = live)
      BY <1>7
<1>9. cancelled' \in [Poller -> BOOLEAN]
      BY DEF TypeOK
<1>10. StartPoller(areq[a], cancelled')
       BY <1>6, <1>7
<1> HIDE DEF stopped
<1>11. OnlyLive'
       BY <1>2, <1>5, <1>6, <1>8, <1>9, <1>10, SwapLeavesOne
<1>12. started' \in Nat /\ started' <= started + 1
       BY <1>6, StartedBy
<1>13. Enough'
       BY <1>1, <1>2, <1>3, <1>4, <1>5, <1>12 DEF Enough
<1> QED BY <1>11, <1>13 DEF OneInv

LEMMA OneRestart == ASSUME TypeOK, TypeOK', OneInv, Restart PROVE OneInv'
<1>1. /\ Pending' = Pending /\ Pending = {} /\ up' /\ ~up
      /\ UNCHANGED <<configs, crashes>>
      BY DEF Restart, Pending, OneInv, OnlyLive, adminVars
<1>2. Cardinality(Pending) = 0 /\ IsFiniteSet(Pending)
      BY <1>1, FS_EmptySet
<1>3. started \in Nat /\ configs \in Nat /\ crashes \in Nat
      BY DEF TypeOK
<1>4. started + 1 <= 1 + configs + crashes
      BY <1>1, <1>2, <1>3 DEF OneInv, Enough
<1>5. StartPoller(conf, cancelled) /\ conf \in Config /\ cancelled' = cancelled
      BY DEF Restart, TypeOK, StartPoller
<1>6. live = 0 /\ 0 \notin Poller
      BY <1>1 DEF OneInv, OnlyLive, Poller
<1>7. cancelled' \in [Poller -> BOOLEAN]
      BY DEF TypeOK
<1>8. \A g \in Poller : cancelled'[g] <=> (cancelled[g] \/ g = live)
      BY <1>5, <1>6
<1>9. OnlyLive'
      BY <1>1, <1>4, <1>5, <1>7, <1>8, SwapLeavesOne
<1>10. started' \in Nat /\ started' <= started + 1
       BY <1>5, StartedBy
<1>11. Enough'
       BY <1>1, <1>2, <1>3, <1>4, <1>10 DEF Enough
<1> QED BY <1>9, <1>11 DEF OneInv

LEMMA OneCrash == ASSUME TypeOK, OneInv, Crash PROVE OneInv'
<1>1. Pending' = {} /\ ~up' /\ live' = 0 /\ crashes' = crashes + 1 /\ up
      BY DEF Crash, Pending
<1>2. UNCHANGED <<configs, started, cancelled>>
      BY DEF Crash
<1>3. started \in Nat /\ configs \in Nat /\ crashes \in Nat
      BY DEF TypeOK
<1>4. Cardinality(Pending) \in Nat
      BY FS_CardinalityType DEF OneInv, Enough
<1>5. Enough'
      BY <1>1, <1>2, <1>3, <1>4, FS_EmptySet DEF OneInv, Enough
<1>6. \A g \in Poller : pc'[g] = IF pc[g] = "none" THEN "none" ELSE "done"
      BY DEF Crash
<1>7. OnlyLive'
      BY <1>1, <1>2, <1>3, <1>6 DEF OneInv, OnlyLive, Running
<1> QED BY <1>5, <1>7 DEF OneInv

LEMMA OneNext == TypeOK /\ TypeOK' /\ OneInv /\ [Next]_vars => OneInv'
<1> SUFFICES ASSUME TypeOK, TypeOK', OneInv, [Next]_vars PROVE OneInv'
    OBVIOUS
<1>1. CASE Press \/ Pump \/ UNCHANGED vars
  <2>1. UNCHANGED <<pc, started, live, up, cancelled, crashes, configs, acpc>>
        BY <1>1 DEF Press, Pump, Take, Handle, vars, pollerVars, daemonVars, adminVars
  <2>2. LoopOnly
        BY <2>1 DEF LoopOnly, Running
  <2> QED BY <2>2, LoopKeeps
<1>2. ASSUME NEW g \in Poller, PollStep(g) \/ FetchFails(g) PROVE OneInv'
      BY <1>2, PollIsLoop, LoopKeeps
<1>3. CASE Crash \/ Restart
      BY <1>3, OneCrash, OneRestart
<1>4. ASSUME NEW a \in Admin, SaveConfig(a) \/ SwapPoller(a) PROVE OneInv'
      BY <1>4, OneSave, OneSwap
<1> QED BY <1>1, <1>2, <1>3, <1>4 DEF Next

\* Whatever reconfigurations and restarts overlap, at most one poller is not
\* stopped, and it is the one that the next configuration will stop: none gets
\* lost, and none polls on behind the daemon's back.
THEOREM OnePollerAtATime == Spec => []OnlyLive
<1>1. OneInv => OnlyLive
      BY DEF OneInv
<1> QED BY <1>1, TypeInit, TypeNext, OneInit, OneNext, PTL DEF Spec

------------------------------------------------------------------------------
\* The configuration on file is the one in force, as long as one request is done
\* before the next one begins.  SaveUserConfig is called before the lock is taken:
\* two requests at once may save in one order and swap in the other.

OneAtATime == \A a, b \in Admin : a = b

\* The poller is the one that conf asks for, of that bot and with its approvers.
InForce == IF conf.bot # NoBot
           THEN live # 0 /\ bot[live] = conf.bot /\ approvers[live] = conf.approvers
           ELSE live = 0

ConfigInForce == /\ \A a \in Admin : acpc[a] = "saved" => areq[a] = conf
                 /\ up /\ Pending = {} => InForce

\* What the pollers do leaves the live one's bot and approvers alone.
LEMMA ApproversStay ==
  ASSUME TypeOK, OnlyLive, live # 0, NEW h \in Poller, PollStep(h) \/ FetchFails(h)
  PROVE  bot'[live] = bot[live] /\ approvers'[live] = approvers[live]
<1>1. live \in Poller /\ ~cancelled[live]
      BY DEF OnlyLive
<1>2. CASE Stop(h) \/ Abandon(h)
  <2>1. /\ cancelled[h] /\ approvers' = [approvers EXCEPT ![h] = {}]
        /\ bot' = [bot EXCEPT ![h] = NoBot]
        BY <1>2 DEF Stop, Abandon, Return
  <2> QED BY <1>1, <2>1 DEF TypeOK
<1>3. CASE ~(Stop(h) \/ Abandon(h))
  <2>1. bot' = bot /\ approvers' = approvers
        BY <1>3 DEF PollStep, Fetch, FetchFails, FetchRefused, FetchLost, Skip, Refuse, Deliver, SaveTruncates,
           SaveWrites, pollerVars
  <2> QED BY <2>1
<1> QED BY <1>2, <1>3

\* A poller is started with the approvers of its configuration.
LEMMA StartsWith ==
  ASSUME TypeOK, NEW c \in Config, NEW stopped, StartPoller(c, stopped),
         started + 1 \in Poller
  PROVE  IF c.bot # NoBot
         THEN live' # 0 /\ bot'[live'] = c.bot /\ approvers'[live'] = c.approvers
         ELSE live' = 0
<1>1. /\ started \in Nat /\ approvers \in [Poller -> SUBSET Person]
      /\ bot \in [Poller -> Bot \cup {NoBot}]
      BY DEF TypeOK
<1>2. CASE c.bot # NoBot
  <2>1. live' = started + 1
        /\ approvers' = [approvers EXCEPT ![started + 1] = c.approvers]
        /\ bot' = [bot EXCEPT ![started + 1] = c.bot]
        BY <1>2 DEF StartPoller
  <2> QED BY <1>1, <1>2, <2>1
<1>3. CASE c.bot = NoBot
      BY <1>3 DEF StartPoller
<1> QED BY <1>2, <1>3

LEMMA InForceInit == Init => ConfigInForce
<1> SUFFICES ASSUME Init PROVE ConfigInForce
    OBVIOUS
<1>1. 1 \in Poller
      BY PollAssumption DEF Poller, PollAssumption
<1>2. conf.bot # NoBot /\ live = 1 /\ bot[1] = conf.bot /\ approvers[1] = conf.approvers
      BY <1>1 DEF Init
<1>3. \A a \in Admin : acpc[a] # "saved"
      BY DEF Init
<1> QED BY <1>2, <1>3 DEF ConfigInForce, InForce

LEMMA InForceNext ==
  OneAtATime /\ TypeOK /\ OneInv /\ ConfigInForce /\ [Next]_vars => ConfigInForce'
<1> SUFFICES ASSUME OneAtATime, TypeOK, OneInv, ConfigInForce, [Next]_vars
             PROVE  ConfigInForce'
    OBVIOUS
<1>0. started \in Nat /\ configs \in Nat /\ crashes \in Nat
      BY DEF TypeOK
<1>1. CASE Press \/ Pump \/ UNCHANGED vars
  <2>1. UNCHANGED <<conf, areq, acpc, up, live, bot, approvers>>
        BY <1>1 DEF Press, Pump, Take, Handle, vars, pollerVars, daemonVars,
           adminVars, fileVars
  <2> QED BY <2>1 DEF ConfigInForce, InForce, Pending
<1>2. ASSUME NEW g \in Poller, PollStep(g) \/ FetchFails(g) PROVE ConfigInForce'
  <2>1. UNCHANGED <<conf, areq, acpc, up, live>>
        BY <1>2 DEF PollStep, Fetch, FetchFails, FetchRefused, FetchLost, Stop, Skip, Refuse, Deliver, Abandon,
           SaveTruncates, SaveWrites, daemonVars, adminVars, fileVars
  <2>2. live # 0 => bot'[live] = bot[live] /\ approvers'[live] = approvers[live]
        BY <1>2, ApproversStay DEF OneInv
  <2> QED BY <2>1, <2>2 DEF ConfigInForce, InForce, Pending
<1>3. CASE Crash
      BY <1>3 DEF Crash, ConfigInForce
<1>4. CASE Restart
  <2>1. /\ StartPoller(conf, cancelled) /\ conf \in Config /\ ~up
        /\ UNCHANGED <<conf, areq, acpc, configs, crashes>>
        BY <1>4 DEF Restart, TypeOK, fileVars, adminVars
  <2>2. Pending = {} /\ \A a \in Admin : acpc[a] # "saved"
        BY <2>1 DEF OneInv, OnlyLive, Pending
  <2>3. started + 1 <= 1 + configs + crashes
        BY <1>0, <2>1, <2>2, FS_EmptySet DEF OneInv, Enough
  <2>4. InForce'
        BY <2>1, <2>3, RoomForOne, StartsWith DEF InForce
  <2> QED BY <2>1, <2>2, <2>4 DEF ConfigInForce
<1>5. ASSUME NEW a \in Admin, SaveConfig(a) PROVE ConfigInForce'
  <2>1. \A b \in Admin : b = a
        BY DEF OneAtATime
  <2>2. /\ acpc'[a] = "saved" /\ areq'[a] = conf'
        BY <1>5 DEF SaveConfig, TypeOK
  <2>3. Pending' # {}
        BY <2>2 DEF Pending
  <2> QED BY <2>1, <2>2, <2>3 DEF ConfigInForce
<1>6. ASSUME NEW a \in Admin, SwapPoller(a) PROVE ConfigInForce'
  <2>1. \A b \in Admin : b = a
        BY DEF OneAtATime
  <2>2. acpc[a] = "saved" /\ areq[a] = conf /\ conf' = conf
        BY <1>6 DEF SwapPoller, ConfigInForce, fileVars
  <2>3. \A b \in Admin : acpc'[b] # "saved"
        BY <1>6, <2>1 DEF SwapPoller, TypeOK
  <2> DEFINE stopped == [g \in Poller |-> cancelled[g] \/ g = live]
  <2>4. StartPoller(conf, stopped) /\ conf \in Config
        BY <1>6, <2>2 DEF SwapPoller, TypeOK
  <2> HIDE DEF stopped
  <2>5. started + 1 <= 1 + configs + crashes
    <3>1. Pending = {a} /\ Cardinality({a}) = 1
          BY <2>1, <2>2, FS_Singleton DEF Pending
    <3>2. up
          BY <3>1 DEF OneInv, OnlyLive
    <3> QED BY <1>0, <3>1, <3>2 DEF OneInv, Enough
  <2>6. InForce'
        BY <2>2, <2>4, <2>5, RoomForOne, StartsWith DEF InForce
  <2> QED BY <2>3, <2>6 DEF ConfigInForce
<1> QED BY <1>1, <1>2, <1>3, <1>4, <1>5, <1>6 DEF Next

\* TelegramSetConfig, requested by one admin at a time: between the requests, and
\* after every crash and restart, a running daemon polls the bot on file with exactly
\* the approvers on file, or none at all if there is no token on file.
THEOREM ConfigIsInForce == OneAtATime => (Spec => []ConfigInForce)
<1> SUFFICES ASSUME OneAtATime PROVE Spec => []ConfigInForce
    OBVIOUS
<1>1. Init => TypeOK /\ Bounds /\ OneInv /\ ConfigInForce
      BY TypeInit, OneInit, InForceInit
<1>2. TypeOK /\ Bounds /\ OneInv /\ ConfigInForce /\ [Next]_vars =>
        TypeOK' /\ Bounds' /\ OneInv' /\ ConfigInForce'
      BY TypeNext, OneNext, InForceNext
<1> QED BY <1>1, <1>2, PTL DEF Spec

==============================================================================
