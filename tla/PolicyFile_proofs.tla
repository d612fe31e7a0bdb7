---------------------------- MODULE PolicyFile_proofs ----------------------------
(***************************************************************************)
(* Proofs about the policy of a running daemon, for any words, rules and   *)
(* commands and any number of requests.                                    *)
(***************************************************************************)
EXTENDS PolicyFile, SequenceTheorems, TLAPS

------------------------------------------------------------------------------
\* Adding a rule.

\* The policy that AddRule saves is a policy.
LEMMA WithRuleType ==
  ASSUME NEW p \in Policy, NEW target \in Target, NEW rule \in Rule
  PROVE  WithRule(p, target, rule) \in Policy
  BY DEF WithRule, Policy, Target

\* It has the new rule, and every rule it had before.
LEMMA WithRuleHas ==
  ASSUME NEW p \in Policy, NEW target \in Target, NEW rule \in Rule
  PROVE  /\ HasRule(WithRule(p, target, rule), target, rule)
         /\ \A u \in Target : \A q :
               HasRule(p, u, q) => HasRule(WithRule(p, target, rule), u, q)
  BY DEF WithRule, HasRule, Policy, Target

------------------------------------------------------------------------------
\* Types.

\* Only a rule that was asked for is on its way to the file.
WantType == \A a \in Admin : pc[a] # "idle" => want[a].pattern \in Rule

LEMMA EmptyType == NoPolicy \in Policy /\ NoRule \in Wish
  BY DEF NoPolicy, Policy, Tiers, NoRule, Wish, Target

LEMMA InitType == Init => TypeOK /\ WantType
<1> SUFFICES ASSUME Init PROVE TypeOK /\ WantType
    OBVIOUS
<1>1. file \in Policy
  <2>1. PICK m \in {"blacklist", "whitelist"}, d \in Tiers,
             target \in Target, rule \in Rule :
          LET empty == [NoPolicy EXCEPT !.mode = m, !.default = d]
          IN  file \in {empty, WithRule(empty, target, rule)}
        BY DEF Init
  <2>2. [NoPolicy EXCEPT !.mode = m, !.default = d] \in Policy
        BY EmptyType DEF Policy
  <2> QED BY <2>1, <2>2, WithRuleType
<1>2. adds \in 0..MaxAdds
      BY PolicyAssumption DEF Init, PolicyAssumption
<1> QED BY <1>1, <1>2, EmptyType DEF Init, TypeOK, WantType

\* A finished handler forgets its request.
LEMMA FinishType ==
  ASSUME TypeOK, WantType, NEW a \in Admin, Finish(a)
  PROVE  /\ pc' \in [Admin -> {"idle", "save", "reload", "reply"}]
         /\ want' \in [Admin -> Wish] /\ copy' \in [Admin -> Policy]
         /\ alone' \in [Admin -> BOOLEAN] /\ WantType'
  BY EmptyType DEF Finish, TypeOK, WantType

LEMMA NextType == TypeOK /\ WantType /\ [Next]_vars => TypeOK' /\ WantType'
<1> SUFFICES ASSUME TypeOK, WantType, [Next]_vars PROVE TypeOK' /\ WantType'
    OBVIOUS
<1>1. ASSUME NEW a \in Admin, LoadPolicy(a) PROVE TypeOK' /\ WantType'
  <2>1. PICK target \in Target, pattern \in Asked :
          /\ want' = [want EXCEPT ![a] = [target |-> target, pattern |-> pattern]]
          /\ pc' = [pc EXCEPT ![a] =
                       IF HasRule(file, target, pattern) THEN "reply" ELSE "save"]
        BY <1>1 DEF LoadPolicy
  <2>2. pattern \in Rule
        BY PolicyAssumption DEF PolicyAssumption
  <2>3. want' \in [Admin -> Wish]
        BY <2>1, <2>2 DEF TypeOK, Wish
  <2>4. adds' \in 0..MaxAdds
        BY <1>1, PolicyAssumption DEF LoadPolicy, TypeOK, PolicyAssumption
  <2>5. alone' \in [Admin -> BOOLEAN]
        BY <1>1, Zenon DEF LoadPolicy, TypeOK
  <2>6. WantType'
        BY <2>1, <2>2 DEF TypeOK, WantType
  <2>7. pc' \in [Admin -> {"idle", "save", "reload", "reply"}]
        BY <2>1 DEF TypeOK
  <2>8. file' \in Policy /\ live' \in Policy /\ copy' \in [Admin -> Policy]
        /\ sure' \subseteq Wish
        BY <1>1 DEF LoadPolicy, TypeOK
  <2> QED BY <2>3, <2>4, <2>5, <2>6, <2>7, <2>8 DEF TypeOK
<1>2. ASSUME NEW a \in Admin, SavePolicy(a) PROVE TypeOK' /\ WantType'
  <2>1. want[a].target \in Target /\ want[a].pattern \in Rule
        BY <1>2 DEF SavePolicy, TypeOK, WantType, Wish
  <2>2. file' \in Policy
        BY <1>2, <2>1, WithRuleType DEF SavePolicy, Extended, TypeOK
  <2> QED BY <1>2, <2>2 DEF SavePolicy, TypeOK, WantType
<1>3. ASSUME NEW a \in Admin, SaveFails(a) PROVE TypeOK' /\ WantType'
      BY <1>3, FinishType DEF SaveFails, TypeOK
<1>4. ASSUME NEW a \in Admin, ReloadPolicy(a) PROVE TypeOK' /\ WantType'
      BY <1>4 DEF ReloadPolicy, TypeOK, WantType
<1>5. ASSUME NEW a \in Admin, ReplyAdded(a) PROVE TypeOK' /\ WantType'
      BY <1>5, FinishType DEF ReplyAdded, TypeOK
<1>6. CASE Restart
      BY <1>6, EmptyType DEF Restart, TypeOK, WantType
<1>7. CASE UNCHANGED vars
      BY <1>7 DEF vars, handlerVars, TypeOK, WantType
<1> QED BY <1>1, <1>2, <1>3, <1>4, <1>5, <1>6, <1>7 DEF Next

\* The file, the policy in force and what the handlers hold are policies at
\* any time, however the requests of PolicyAddRule interleave.
THEOREM TypeCorrect == Spec => [](TypeOK /\ WantType)
  BY InitType, NextType, PTL DEF Spec

------------------------------------------------------------------------------
\* A reported rule stays in force.

Has(p, r) == HasRule(p, r.target, r.pattern)

\* Whoever is at work holds every reported rule, so a save cannot undo one.
SureInv == \A r \in sure :
             /\ Has(file, r) /\ Has(live, r)
             /\ \A a \in Admin : pc[a] # "idle" => Has(copy[a], r)

\* A request that nobody has overlapped is the only one at work.
AloneInv == \A a, b \in Admin :
              alone[a] /\ pc[a] # "idle" /\ pc[b] # "idle" => a = b

\* It saves on top of what is on file, and finds its own rule again after that.
OwnInv == \A a \in Admin : alone[a] =>
            /\ pc[a] = "save" => copy[a] = file
            /\ pc[a] \in {"reload", "reply"} => Has(file, want[a])
            /\ pc[a] = "reply" => Has(copy[a], want[a])

Inv == SureInv /\ AloneInv /\ OwnInv

LEMMA InvInit == Init => Inv
  BY DEF Init, Inv, SureInv, AloneInv, OwnInv

LEMMA FinishInv ==
  ASSUME TypeOK, Inv, NEW a \in Admin, Finish(a), UNCHANGED file
  PROVE  AloneInv' /\ OwnInv'
  BY DEF TypeOK, Inv, AloneInv, OwnInv, Finish, Has

LEMMA InvNext == TypeOK /\ WantType /\ Inv /\ [Next]_vars => Inv'
<1> SUFFICES ASSUME TypeOK, WantType, Inv, [Next]_vars PROVE Inv'
    OBVIOUS
<1> USE DEF Inv
<1>1. ASSUME NEW a \in Admin, LoadPolicy(a) PROVE Inv'
  <2>1. PICK target \in Target, pattern \in Asked :
          /\ want' = [want EXCEPT ![a] = [target |-> target, pattern |-> pattern]]
          /\ pc' = [pc EXCEPT ![a] =
                       IF HasRule(file, target, pattern) THEN "reply" ELSE "save"]
        BY <1>1 DEF LoadPolicy
  <2>2. /\ copy' = [copy EXCEPT ![a] = file] /\ UNCHANGED <<file, live, sure>>
        /\ \A b \in Admin : alone'[b] => IF b = a THEN Active = {}
                                         ELSE alone[b] /\ b \notin Active
        BY <1>1, Zenon DEF LoadPolicy
  <2>3. SureInv'
        BY <2>1, <2>2 DEF SureInv, TypeOK, Has
  <2>4. AloneInv'
        BY <2>1, <2>2 DEF AloneInv, TypeOK, Active
  <2>5. OwnInv'
        BY <2>1, <2>2 DEF OwnInv, TypeOK, Has
  <2> QED BY <2>3, <2>4, <2>5
<1>2. ASSUME NEW a \in Admin, SavePolicy(a) PROVE Inv'
  <2>1. want[a].target \in Target /\ want[a].pattern \in Rule /\ copy[a] \in Policy
        BY <1>2 DEF SavePolicy, TypeOK, WantType, Wish
  <2>2. Has(file', want[a])
        BY <1>2, <2>1, WithRuleHas DEF SavePolicy, Extended, Has
  <2>3. ASSUME NEW r \in sure PROVE Has(file', r)
    <3>1. Has(copy[a], r) /\ r.target \in Target
          BY <1>2 DEF SureInv, SavePolicy, TypeOK, Wish
    <3> QED BY <1>2, <2>1, <3>1, WithRuleHas DEF SavePolicy, Extended, Has
  <2>4. SureInv'
        BY <1>2, <2>3 DEF SureInv, SavePolicy, TypeOK, Has
  <2>5. AloneInv'
        BY <1>2 DEF AloneInv, SavePolicy, TypeOK
  <2>6. OwnInv'
        BY <1>2, <2>2 DEF OwnInv, AloneInv, SavePolicy, TypeOK, Has
  <2> QED BY <2>4, <2>5, <2>6
<1>3. ASSUME NEW a \in Admin, SaveFails(a) PROVE Inv'
  <2>1. SureInv'
        BY <1>3 DEF SureInv, SaveFails, Finish, TypeOK, Has
  <2> QED BY <1>3, <2>1, FinishInv DEF SaveFails
<1>4. ASSUME NEW a \in Admin, ReloadPolicy(a) PROVE Inv'
  <2>1. SureInv'
        BY <1>4 DEF SureInv, ReloadPolicy, TypeOK, Has
  <2>2. AloneInv' /\ OwnInv'
        BY <1>4 DEF AloneInv, OwnInv, ReloadPolicy, TypeOK, Has
  <2> QED BY <2>1, <2>2
<1>5. ASSUME NEW a \in Admin, ReplyAdded(a) PROVE Inv'
  <2>1. sure' \subseteq sure \cup {want[a]} /\ (want[a] \in sure' \ sure => alone[a])
        BY <1>5 DEF ReplyAdded
  <2>2. ASSUME NEW r \in sure' PROVE Has(file', r) /\ Has(live', r)
    <3>1. CASE r \in sure
          BY <1>5, <3>1 DEF SureInv, ReplyAdded, Has
    <3>2. CASE r = want[a] /\ alone[a]
          BY <1>5, <3>2 DEF OwnInv, ReplyAdded, Has
    <3> QED BY <2>1, <3>1, <3>2
  <2>3. ASSUME NEW r \in sure', NEW b \in Admin, pc'[b] # "idle"
        PROVE  Has(copy'[b], r)
    <3>1. b # a /\ pc[b] # "idle" /\ copy'[b] = copy[b]
          BY <1>5, <2>3 DEF ReplyAdded, Finish, TypeOK
    <3>2. ~alone[a]
          BY <1>5, <3>1 DEF AloneInv, ReplyAdded
    <3> QED BY <2>1, <3>1, <3>2 DEF SureInv, Has
  <2>4. SureInv'
        BY <2>2, <2>3 DEF SureInv, Has
  <2> QED BY <1>5, <2>4, FinishInv DEF ReplyAdded
<1>6. CASE Restart
      BY <1>6 DEF Restart, SureInv, AloneInv, OwnInv, Has
<1>7. CASE UNCHANGED vars
      BY <1>7 DEF vars, handlerVars, SureInv, AloneInv, OwnInv, Has
<1> QED BY <1>1, <1>2, <1>3, <1>4, <1>5, <1>6, <1>7 DEF Next

LEMMA InvHolds == Spec => [](TypeOK /\ Inv)
  BY InitType, NextType, InvInit, InvNext, PTL DEF Spec

\* A rule that PolicyAddRule reported is on file and in force from then on,
\* unless another request overlapped the one that added it.
THEOREM AddedStaysInForce == Spec => []RuleInForce
<1>1. Inv => RuleInForce
      BY DEF Inv, SureInv, RuleInForce, Has
<1> QED BY <1>1, InvHolds, PTL

------------------------------------------------------------------------------
\* The matcher.

\* What every rule and every command is.
Words == Seq(Word) \ {<<>>}

LEMMA WordsIs ==
  ASSUME NEW s \in Words
  PROVE  /\ s \in Seq(Word) /\ s # <<>> /\ Len(s) \in Nat \ {0}
         /\ DOMAIN s = 1..Len(s) /\ s[1] \in Word
<1>1. s \in Seq(Word) /\ s # <<>> /\ Len(s) \in Nat /\ DOMAIN s = 1..Len(s)
      BY DEF Words
<1>2. Len(s) # 0
      BY <1>1, EmptySeq
<1> QED BY <1>1, <1>2

LEMMA ExeMatchIsBase ==
  ASSUME NEW v \in Word, NEW w \in Word
  PROVE  ExeMatch(v, w) <=> SameProgram(v, w)
  BY RuleAssumption DEF RuleAssumption, ExeMatch, SameProgram

\* A rule without its last word.
LEMMA PrefixIs ==
  ASSUME NEW rule \in Words
  PROVE  /\ Prefix(rule) \in Seq(Word) /\ Len(Prefix(rule)) = Len(rule) - 1
         /\ \A i \in 1..(Len(rule) - 1) : Prefix(rule)[i] = rule[i]
  BY DEF Prefix, Words

\* The start of a command that goes by the rule's own name.
LEMMA StartIs ==
  ASSUME NEW argv \in Words, NEW w \in Word, NEW n \in 1..Len(argv)
  PROVE  LET start == SubSeq(<<w>> \o Tail(argv), 1, n)
         IN  /\ Len(start) = n
             /\ start[1] = w
             /\ \A i \in 2..n : start[i] = argv[i]
<1> DEFINE named == <<w>> \o Tail(argv)
<1>1. Tail(argv) \in Seq(Word) /\ Len(Tail(argv)) = Len(argv) - 1
      BY DEF Words
<1>2. \A i \in 1..(Len(argv) - 1) : Tail(argv)[i] = argv[i + 1]
      BY DEF Words
<1>3. named \in Seq(Word) /\ Len(named) = Len(argv)
      BY <1>1 DEF Words
<1>4. named[1] = w
      BY <1>1
<1>5. ASSUME NEW i \in 2..Len(argv) PROVE named[i] = argv[i]
  <2>1. named[i] = Tail(argv)[i - 1]
        BY <1>1
  <2> QED BY <1>2, <2>1 DEF Words
<1> HIDE DEF named
<1>6. Len(SubSeq(named, 1, n)) = n
      BY <1>3
<1>7. \A i \in 1..n : SubSeq(named, 1, n)[i] = named[i]
      BY <1>3
<1> QED BY <1>4, <1>5, <1>6, <1>7 DEF named

\* A last "*", behind a prefix that is not all "*".
LEMMA TrailingMeaning ==
  ASSUME NEW rule \in Words, NEW argv \in Words, rule[Len(rule)] = Star,
         \E i \in 1..(Len(rule) - 1) : rule[i] # Star
  PROVE  MatchTrailing(argv, rule) <=>
            /\ rule[1] = Star \/ SameProgram(argv[1], rule[1])
            /\ \E n \in 1..Len(argv) :
                  Fits(SubSeq(<<rule[1]>> \o Tail(argv), 1, n), Prefix(rule))
<1> DEFINE m == Len(rule) - 1
           start(n) == SubSeq(<<rule[1]>> \o Tail(argv), 1, n)
<1>1. m \in Nat \ {0} /\ Len(argv) \in Nat \ {0} /\ rule[1] \in Word
      /\ argv[1] \in Word
      BY WordsIs
<1>2. /\ Len(Prefix(rule)) = m /\ DOMAIN Prefix(rule) = 1..m
      /\ \A i \in 1..m : Prefix(rule)[i] = rule[i]
      BY PrefixIs
<1>3. MatchTrailing(argv, rule) <=>
         /\ Len(argv) >= m
         /\ rule[1] = Star \/ SameProgram(argv[1], rule[1])
         /\ \A k \in 2..m : rule[k] = Star \/ argv[k] = rule[k]
  <2> DEFINE prefix == Prefix(rule)
  <2>1. prefix[1] = rule[1] /\ \E i \in DOMAIN prefix : prefix[i] # Star
        BY <1>1, <1>2
  <2>2. AgreeFrom(2, argv, prefix) <=>
           \A k \in 2..m : rule[k] = Star \/ argv[k] = rule[k]
        BY <1>1, <1>2 DEF AgreeFrom
  <2>3. ExeMatch(argv[1], rule[1]) <=> SameProgram(argv[1], rule[1])
        BY <1>1, ExeMatchIsBase
  <2> HIDE DEF prefix
  <2> QED BY <1>2, <2>1, <2>2, <2>3 DEF MatchTrailing, prefix
<1>4. ASSUME NEW n \in 1..Len(argv)
      PROVE  Fits(start(n), Prefix(rule)) <=>
                /\ n = m
                /\ \A k \in 2..m : rule[k] = Star \/ argv[k] = rule[k]
  <2>1. /\ start(n) \in Seq(Word) /\ Len(start(n)) = n /\ start(n)[1] = rule[1]
        /\ \A i \in 2..n : start(n)[i] = argv[i]
        BY <1>1, StartIs DEF Words
  <2>2. DOMAIN start(n) = 1..n
        BY <2>1
  <2> HIDE DEF start
  <2>3. Fits(start(n), Prefix(rule)) <=>
           n = m /\ \A i \in 1..m : Prefix(rule)[i] \in {Star, start(n)[i]}
        BY <1>2, <2>1, <2>2 DEF Fits
  <2>4. n = m => (Prefix(rule)[1] \in {Star, start(n)[1]})
        BY <1>1, <1>2, <2>1
  <2>5. n = m => \A i \in 2..m :
           Prefix(rule)[i] \in {Star, start(n)[i]} <=>
              (rule[i] = Star \/ argv[i] = rule[i])
        BY <1>1, <1>2, <2>1, SMTT(60)
  <2> QED BY <1>1, <2>3, <2>4, <2>5
<1> HIDE DEF start
<1>5. (\E n \in 1..Len(argv) : Fits(start(n), Prefix(rule))) <=>
         /\ Len(argv) >= m
         /\ \A k \in 2..m : rule[k] = Star \/ argv[k] = rule[k]
  <2> DEFINE agree == \A k \in 2..m : rule[k] = Star \/ argv[k] = rule[k]
  <2>1. \A n \in 1..Len(argv) : Fits(start(n), Prefix(rule)) <=> n = m /\ agree
        BY <1>4
  <2>2. Len(argv) >= m <=> m \in 1..Len(argv)
        BY <1>1
  <2> HIDE DEF agree, m
  <2>3. (\E n \in 1..Len(argv) : Fits(start(n), Prefix(rule))) <=>
           m \in 1..Len(argv) /\ agree
        BY <2>1, Zenon
  <2> QED BY <2>2, <2>3 DEF agree
<1> QED BY <1>3, <1>5 DEF start

\* Any other rule of several words, or "*" alone among them.
LEMMA FixedMeaning ==
  ASSUME NEW rule \in Words, NEW argv \in Words, rule[Len(rule)] # Star,
         Len(rule) # 1
  PROVE  MatchRule(argv, rule) <=> Fits(argv, rule)
<1>1. Fits(argv, rule) <=>
         Len(argv) = Len(rule) /\ AgreeFrom(1, argv, rule)
      BY DEF Fits, AgreeFrom, Words
<1>2. CASE HasWild(rule)
      BY <1>1, <1>2 DEF MatchRule, MatchWild, Words
<1>3. CASE ~HasWild(rule)
  <2>1. \A i \in 1..Len(rule) : rule[i] # Star
        BY <1>3 DEF HasWild, Words
  <2>2. AgreeFrom(1, argv, rule) <=> \A i \in 1..Len(rule) : argv[i] = rule[i]
        BY <2>1 DEF AgreeFrom
  <2>3. argv = rule <=> Fits(argv, rule)
        BY <1>1, <2>2, SeqEqual DEF Words
  <2> QED BY <1>3, <2>3 DEF MatchRule, Words
<1> QED BY <1>2, <1>3

\* The matcher finds what the rule means.
LEMMA RuleMeaning ==
  ASSUME NEW rule \in Words, NEW argv \in Command
  PROVE  MatchRule(argv, rule) <=> argv \in Meaning(rule)
<1> DEFINE last == rule[Len(rule)]
           stars == \A i \in 1..(Len(rule) - 1) : rule[i] = Star
<1>1. argv \in Words
      BY PolicyAssumption DEF PolicyAssumption, Words
<1>2. CASE last = Star /\ stars
  <2>1. Meaning(rule) = {}
        BY <1>2 DEF Meaning
  <2>2. \A i \in DOMAIN Prefix(rule) : Prefix(rule)[i] = Star
        BY <1>2, PrefixIs
  <2>3. HasWild(rule)
        BY <1>2 DEF HasWild, Words
  <2> QED BY <1>2, <2>1, <2>2, <2>3 DEF MatchRule, MatchWild, MatchTrailing
<1>3. CASE last = Star /\ ~stars
  <2>1. HasWild(rule) /\ rule # <<>> /\ argv # <<>>
        BY <1>1, <1>3 DEF HasWild, Words
  <2>2. MatchRule(argv, rule) <=> MatchTrailing(argv, rule)
        BY <1>3, <2>1 DEF MatchRule, MatchWild
  <2>3. argv \in Meaning(rule) <=>
            /\ rule[1] = Star \/ SameProgram(argv[1], rule[1])
            /\ \E n \in 1..Len(argv) :
                  Fits(SubSeq(<<rule[1]>> \o Tail(argv), 1, n), Prefix(rule))
    <3>1. Len(<<rule[1]>> \o Tail(argv)) = Len(argv)
          BY <1>1 DEF Words
    <3> QED BY <1>3, <3>1 DEF Meaning
  <2> QED BY <1>1, <1>3, <2>2, <2>3, TrailingMeaning
<1>4. CASE Len(rule) = 1 /\ last # Star
  <2>1. argv \in Meaning(rule) <=> SameProgram(argv[1], rule[1])
        BY <1>4 DEF Meaning
  <2>2. ~HasWild(rule) /\ rule # <<>> /\ argv # <<>> /\ argv[1] \in Word
        /\ rule[1] \in Word
        BY <1>1, <1>4 DEF HasWild, Words
  <2> QED BY <1>4, <2>1, <2>2, ExeMatchIsBase DEF MatchRule
<1>5. CASE Len(rule) # 1 /\ last # Star
  <2>1. argv \in Meaning(rule) <=> Fits(argv, rule)
        BY <1>5 DEF Meaning
  <2> QED BY <1>1, <1>5, <2>1, FixedMeaning
<1> QED BY <1>2, <1>3, <1>4, <1>5

\* matchRule finds exactly the commands a rule is meant for, for words, rules
\* and commands of any length.
THEOREM MatcherIsRight == Spec => []MatchesMeaning
<1>1. TypeOK => MatchesMeaning
  <2> SUFFICES ASSUME TypeOK, NEW rule \in file.white \cup file.black,
                      NEW argv \in Command
               PROVE  MatchRule(argv, rule) <=> argv \in Meaning(rule)
      BY DEF MatchesMeaning
  <2>1. rule \in Rule
        BY DEF TypeOK, Policy
  <2>2. rule \in Words
        BY <2>1, PolicyAssumption DEF PolicyAssumption, Words
  <2> QED BY <2>2, RuleMeaning
<1> QED BY <1>1, TypeCorrect, PTL

------------------------------------------------------------------------------
\* Restricted tools.

\* What the lists say of a command, by what their rules mean.
LEMMA ListsMean ==
  ASSUME NEW p \in Policy, NEW argv \in Command
  PROVE  /\ Allows(p, argv) <=> Whitelisted(p, argv)
         /\ Denies(p, argv) <=> Blacklisted(p, argv)
<1>1. \A rule \in p.white \cup p.black : rule \in Words
      BY PolicyAssumption DEF PolicyAssumption, Policy, Words
<1>2. \A rule \in p.white \cup p.black : MatchRule(argv, rule) <=> argv \in Meaning(rule)
      BY <1>1, RuleMeaning
<1> QED BY <1>2, Zenon DEF Allows, Denies, Whitelisted, Blacklisted

\* No rule of one word allows a restricted tool: Tier passes over the bare
\* rules of restrictedTools, whatever the requests and the file before them.
THEOREM RestrictedHeld == Spec => []RestrictedNeverBare
<1>1. TypeOK => RestrictedNeverBare
  <2> SUFFICES ASSUME TypeOK, NEW argv \in Command,
                      Tier(live, argv) = "allow", RestrictedBase(argv[1]),
                      ~Open(live, argv)
               PROVE  \E rule \in live.white :
                        /\ Len(rule) > 1 /\ argv \in Meaning(rule)
                        /\ argv = rule \/ HasWild(rule)
      BY DEF RestrictedNeverBare
  <2>0. Allows(live, argv)
    <3>1. live \in Policy
          BY DEF TypeOK
    <3>2. live.mode \in {"blacklist", "whitelist"}
          BY <3>1 DEF Policy
    <3> QED BY <3>1, <3>2, ListsMean DEF Tier, Open
  <2>1. PICK rule \in live.white : ~Skipped(rule) /\ MatchRule(argv, rule)
        BY <2>0 DEF Allows
  <2>2. rule \in Words /\ argv \in Words
    <3>1. rule \in Rule
          BY DEF TypeOK, Policy
    <3> QED BY <3>1, PolicyAssumption DEF PolicyAssumption, Words
  <2>3. argv \in Meaning(rule)
        BY <2>1, <2>2, RuleMeaning
  <2>4. Len(rule) # 1
    <3>1. SUFFICES ASSUME Len(rule) = 1 PROVE FALSE
          OBVIOUS
    <3>2. rule[1] \in Word /\ argv[1] \in Word
          BY <2>2 DEF Words
    <3>3. CASE rule[1] = Star
          BY <2>1, <3>1, <3>3, <2>2, PrefixIs
          DEF MatchRule, MatchWild, MatchTrailing, HasWild, Words
    <3>4. CASE rule[1] # Star
      <4>1. ExeMatch(argv[1], rule[1])
            BY <2>1, <2>2, <3>1, <3>4 DEF MatchRule, HasWild, Words
      <4>2. Base(argv[1]) = Base(rule[1])
            BY <3>2, <4>1, ExeMatchIsBase DEF SameProgram
      <4> QED BY <2>1, <3>1, <4>2 DEF Skipped, RestrictedBase
    <3> QED BY <3>3, <3>4
  <2>5. Len(rule) > 1
    <3>1. Len(rule) \in Nat \ {0}
          BY <2>2, WordsIs
    <3>2. \A n \in Nat \ {0} : n # 1 => n > 1
          OBVIOUS
    <3> QED BY <2>4, <3>1, <3>2, Zenon
  <2>6. argv = rule \/ HasWild(rule)
        BY <2>1, <2>4 DEF MatchRule
  <2> QED BY <2>3, <2>5, <2>6
<1> QED BY <1>1, TypeCorrect, PTL

------------------------------------------------------------------------------
\* What one more rule changes.

\* The verdicts of a policy with one more rule that a command matches or not.
LEMMA TierWith ==
  ASSUME NEW p \in Policy, NEW target \in Target, NEW rule \in Rule, NEW argv
  PROVE  Tier(WithRule(p, target, rule), argv) =
           IF ~MatchRule(argv, rule) \/ (target = "white" /\ Skipped(rule))
           THEN Tier(p, argv)
           ELSE IF target = "white" \/ Allows(p, argv) THEN "allow" ELSE "deny"
<1> DEFINE q == WithRule(p, target, rule)
           match == MatchRule(argv, rule)
<1>1. CASE target = "white"
  <2>1. q.white = p.white \cup {rule} /\ q.black = p.black
        /\ q.mode = p.mode /\ q.default = p.default
        BY <1>1 DEF WithRule, Policy
  <2> HIDE DEF q
  <2>2. Allows(q, argv) <=> Allows(p, argv) \/ (~Skipped(rule) /\ match)
        BY <2>1, Zenon DEF Allows
  <2>3. Denies(q, argv) <=> Denies(p, argv)
        BY <2>1 DEF Denies
  <2>4. Tier(q, argv) = IF ~Skipped(rule) /\ match THEN "allow" ELSE Tier(p, argv)
        BY <2>1, <2>2, <2>3, Zenon DEF Tier
  <2> QED BY <1>1, <2>4 DEF q
<1>2. CASE target = "black"
  <2>1. q.white = p.white /\ q.black = p.black \cup {rule}
        /\ q.mode = p.mode /\ q.default = p.default
        BY <1>2 DEF WithRule, Policy
  <2> HIDE DEF q
  <2>2. Allows(q, argv) <=> Allows(p, argv)
        BY <2>1 DEF Allows
  <2>3. Denies(q, argv) <=> Denies(p, argv) \/ match
        BY <2>1, Zenon DEF Denies
  <2>5. Tier(q, argv) = IF match THEN IF Allows(p, argv) THEN "allow" ELSE "deny"
                                 ELSE Tier(p, argv)
    <3>1. CASE match
          BY <2>2, <2>3, <3>1 DEF Tier
    <3>2. CASE ~match
          BY <2>1, <2>2, <2>3, <3>2 DEF Tier
    <3> QED BY <3>1, <3>2
  <2> QED BY <1>2, <2>5 DEF q
<1> QED BY <1>1, <1>2 DEF Target

\* A rule that PolicyAddRule adds decides the commands it is meant for and no
\* others.
THEOREM AddIsExact == Spec => AddDecidesWhatItSays
<1>1. TypeOK /\ WantType /\ Inv =>
        \A a \in Admin, argv \in Command :
          SavePolicy(a) /\ alone[a] =>
             LET rule   == want[a].pattern
                 before == Tier(file, argv)
             IN  Tier(file', argv) =
                    CASE argv \notin Meaning(rule) -> before
                      [] argv \in Meaning(rule) /\ want[a].target = "white" ->
                           IF Skipped(rule) THEN before ELSE "allow"
                      [] argv \in Meaning(rule) /\ want[a].target = "black" ->
                           IF Whitelisted(file, argv) THEN "allow" ELSE "deny"
  <2> SUFFICES ASSUME TypeOK, WantType, Inv,
                      NEW a \in Admin, NEW argv \in Command,
                      SavePolicy(a), alone[a]
      PROVE  LET rule   == want[a].pattern
                 before == Tier(file, argv)
             IN  Tier(file', argv) =
                    CASE argv \notin Meaning(rule) -> before
                      [] argv \in Meaning(rule) /\ want[a].target = "white" ->
                           IF Skipped(rule) THEN before ELSE "allow"
                      [] argv \in Meaning(rule) /\ want[a].target = "black" ->
                           IF Whitelisted(file, argv) THEN "allow" ELSE "deny"
      OBVIOUS
  <2> DEFINE rule == want[a].pattern
  <2>1. rule \in Rule /\ want[a].target \in Target /\ rule \in Words
    <3>1. rule \in Rule /\ want[a].target \in Target
          BY DEF SavePolicy, WantType, TypeOK, Wish
    <3> QED BY <3>1, PolicyAssumption DEF PolicyAssumption, Words
  <2>2. file' = WithRule(file, want[a].target, rule)
        BY DEF SavePolicy, Extended, Inv, OwnInv
  <2>3. file \in Policy /\ (Allows(file, argv) <=> Whitelisted(file, argv))
        BY ListsMean DEF TypeOK
  <2>4. MatchRule(argv, rule) <=> argv \in Meaning(rule)
        BY <2>1, RuleMeaning
  <2>5. Tier(file', argv) =
           IF ~MatchRule(argv, rule) \/ (want[a].target = "white" /\ Skipped(rule))
           THEN Tier(file, argv)
           ELSE IF want[a].target = "white" \/ Whitelisted(file, argv)
           THEN "allow" ELSE "deny"
        BY <2>1, <2>2, <2>3, TierWith
  <2>6. want[a].target = "white" \/ want[a].target = "black"
        BY <2>1 DEF Target
  <2> HIDE DEF rule
  <2>7. CASE argv \notin Meaning(rule)
        BY <2>4, <2>5, <2>7 DEF rule
  <2>8. CASE argv \in Meaning(rule) /\ want[a].target = "white"
        BY <2>4, <2>5, <2>8 DEF rule
  <2>9. CASE argv \in Meaning(rule) /\ want[a].target = "black"
        BY <2>4, <2>5, <2>9 DEF rule
  <2> QED BY <2>6, <2>7, <2>8, <2>9
<1> QED BY <1>1, InvHolds, TypeCorrect, PTL DEF Spec, AddDecidesWhatItSays

==============================================================================
