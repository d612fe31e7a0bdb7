------------------------------ MODULE PolicyFile ------------------------------
(***************************************************************************)
(* The policy of a running daemon.  PolicyAddRule handlers run side by     *)
(* side, without a lock: each loads the file, appends its rule, writes a   *)
(* temporary file and renames it, loads again, and makes what it loaded    *)
(* the policy of the service, which every later request is judged by.      *)
(***************************************************************************)
EXTENDS PolicyRules

CONSTANTS Admin,        \* concurrent PolicyAddRule requests
          Rule,         \* the rules a file may hold
          Asked,        \* the patterns the requests ask for
          Command,      \* commands that are judged
          MaxAdds       \* bound: rules asked for

ASSUME PolicyAssumption == /\ Asked \subseteq Rule
                           /\ Rule \subseteq Seq(Word) \ {<<>>}
                           /\ Command \subseteq Seq(Word) \ {<<>>}
                           /\ MaxAdds \in Nat

Tiers  == {"allow", "ask", "deny"}
Target == {"white", "black"}
Policy == [mode : {"blacklist", "whitelist"}, default : Tiers,
           white : SUBSET Rule, black : SUBSET Rule]

\* What Load makes of a missing file.
NoPolicy == [mode |-> "blacklist", default |-> "ask", white |-> {}, black |-> {}]

NoRule == [target |-> "white", pattern |-> <<>>]

VARIABLES
    file,       \* the policy file
    live,       \* Service.Policy
    pc, want, copy,   \* each handler: the rule asked for, the policy it holds
    alone,      \* whether no other request has overlapped it so far
    sure,       \* rules reported as added by requests that nobody overlapped
    adds        \* requests so far

handlerVars == <<pc, want, copy, alone>>
vars == <<file, live, handlerVars, sure, adds>>

Wish == [target : Target, pattern : Rule \cup {<<>>}]

TypeOK ==
    /\ file \in Policy /\ live \in Policy
    /\ pc \in [Admin -> {"idle", "save", "reload", "reply"}]
    /\ want \in [Admin -> Wish]
    /\ copy \in [Admin -> Policy]
    /\ alone \in [Admin -> BOOLEAN]
    /\ sure \subseteq Wish
    /\ adds \in 0..MaxAdds

\* The file the operator wrote: any mode and default, and no rule or any one
\* rule in it.
Init ==
    /\ \E m \in {"blacklist", "whitelist"}, d \in Tiers,
          target \in Target, rule \in Rule :
          LET empty == [NoPolicy EXCEPT !.mode = m, !.default = d]
          IN  file \in {empty, WithRule(empty, target, rule)}
    /\ live = file
    /\ pc = [a \in Admin |-> "idle"]
    /\ want = [a \in Admin |-> NoRule]
    /\ copy = [a \in Admin |-> NoPolicy]
    /\ alone = [a \in Admin |-> TRUE]
    /\ sure = {} /\ adds = 0

------------------------------------------------------------------------------
\* PolicyAddRule.

Active == {a \in Admin : pc[a] # "idle"}

\* Checks of AddRule, and its first Load. With the rule in place already,
\* the loaded policy is the answer.
LoadPolicy(a) ==
    /\ pc[a] = "idle" /\ adds < MaxAdds
    /\ \E target \in Target, pattern \in Asked, kind \in {"exact", "base", "custom"} :
          /\ Accepted(target, kind, pattern)
          /\ want' = [want EXCEPT ![a] = [target |-> target, pattern |-> pattern]]
          /\ pc' = [pc EXCEPT ![a] =
                       IF HasRule(file, target, pattern) THEN "reply" ELSE "save"]
    /\ copy' = [copy EXCEPT ![a] = file]
    /\ alone' = [b \in Admin |-> IF b = a THEN Active = {}
                                 ELSE alone[b] /\ b \notin Active]
    /\ adds' = adds + 1
    /\ UNCHANGED <<file, live, sure>>

Extended(a) == WithRule(copy[a], want[a].target, want[a].pattern)

\* saveAtomic: the rename puts the whole new text in place.
SavePolicy(a) ==
    /\ pc[a] = "save"
    /\ file' = Extended(a)
    /\ pc' = [pc EXCEPT ![a] = "reload"]
    /\ UNCHANGED <<live, want, copy, alone, sure, adds>>

\* The handler is done: its request is forgotten.
Finish(a) == /\ pc' = [pc EXCEPT ![a] = "idle"]
             /\ want' = [want EXCEPT ![a] = NoRule]
             /\ copy' = [copy EXCEPT ![a] = NoPolicy]
             /\ alone' = [alone EXCEPT ![a] = TRUE]

\* saveAtomic fails before the rename; the request is answered with an error.
SaveFails(a) == /\ pc[a] = "save"
                /\ Finish(a)
                /\ UNCHANGED <<file, live, sure, adds>>

\* Load after the save.
ReloadPolicy(a) ==
    /\ pc[a] = "reload"
    /\ copy' = [copy EXCEPT ![a] = file]
    /\ pc' = [pc EXCEPT ![a] = "reply"]
    /\ UNCHANGED <<file, live, want, alone, sure, adds>>

\* Mutation: the handler has a value receiver, so it sets a copy's Policy.
ReplyByValue(a) ==
    /\ pc[a] = "reply"
    /\ sure' = IF alone[a] THEN sure \cup {want[a]} ELSE sure
    /\ Finish(a)
    /\ UNCHANGED <<file, live, adds>>

\* s.Policy = p, and Success.
ReplyAdded(a) ==
    /\ pc[a] = "reply"
    /\ live' = copy[a]
    /\ sure' = IF alone[a] THEN sure \cup {want[a]} ELSE sure
    /\ Finish(a)
    /\ UNCHANGED <<file, adds>>

\* The daemon dies and starts again: New loads the file.
Restart == /\ live' = file
           /\ pc' = [a \in Admin |-> "idle"]
           /\ want' = [a \in Admin |-> NoRule]
           /\ copy' = [a \in Admin |-> NoPolicy]
           /\ alone' = [a \in Admin |-> TRUE]
           /\ UNCHANGED <<file, sure, adds>>

Next == \/ \E a \in Admin : \/ LoadPolicy(a) \/ SavePolicy(a) \/ SaveFails(a)
                            \/ ReloadPolicy(a) \/ ReplyAdded(a)
        \/ Restart

Spec == Init /\ [][Next]_vars

------------------------------------------------------------------------------
\* Properties.

SameProgram(v, w) == Base(v) = Base(w)

\* The words of argv fit those of a pattern, word by word.
Fits(argv, pattern) ==
    /\ Len(argv) = Len(pattern)
    /\ \A i \in DOMAIN argv : pattern[i] \in {Star, argv[i]}

\* The commands a rule is meant for, as the comment of matchRule and the
\* tests have it: one word is a program with any arguments; a last "*" is any
\* rest, after a program given by any of its names; any other "*" is exactly
\* one word. A rule of nothing but "*" up to its end is meant for none.
Meaning(rule) ==
    LET named(argv) == <<rule[1]>> \o Tail(argv)   \* by the rule's own name
        ends(argv)  == {SubSeq(argv, 1, n) : n \in 1..Len(argv)}
        stars       == \A i \in 1..(Len(rule) - 1) : rule[i] = Star
    IN  CASE rule[Len(rule)] = Star /\ stars -> {}
          [] rule[Len(rule)] = Star /\ ~stars ->
               {argv \in Command :
                   /\ rule[1] = Star \/ SameProgram(argv[1], rule[1])
                   /\ \E start \in ends(named(argv)) : Fits(start, Prefix(rule))}
          [] Len(rule) = 1 /\ rule[1] # Star ->
               {argv \in Command : SameProgram(argv[1], rule[1])}
          [] OTHER -> {argv \in Command : Fits(argv, rule)}

\* matchRule finds exactly the commands a rule is meant for.
MatchesMeaning ==
    \A rule \in file.white \cup file.black, argv \in Command :
        MatchRule(argv, rule) <=> argv \in Meaning(rule)

\* What the lists of a policy say of a command.
Whitelisted(p, argv) == \E rule \in p.white : ~Skipped(rule) /\ argv \in Meaning(rule)
Blacklisted(p, argv) == \E rule \in p.black : argv \in Meaning(rule)

\* The operator lets everything run that no list speaks of.
Open(p, argv) == /\ p.mode = "blacklist" /\ p.default = "allow"
                 /\ ~Blacklisted(p, argv)

\* No rule of one word allows a shell, an interpreter or a download tool,
\* whatever was asked for and whatever stood in the file before, by whichever
\* of its names it is called: its whole command line is listed, or a rule of
\* several words with a "*" covers it, or the operator's default allows what
\* no list speaks of. (<<"sh", "*">> is such a rule: it allows sh alone, and
\* sh with any arguments.)
RestrictedNeverBare ==
    \A argv \in Command :
        Tier(live, argv) = "allow" /\ RestrictedBase(argv[1]) =>
            \/ Open(live, argv)
            \/ \E rule \in live.white :
                  /\ Len(rule) > 1 /\ argv \in Meaning(rule)
                  /\ argv = rule \/ HasWild(rule)

\* A rule that was reported as added is on file and in force from then on,
\* also after later requests and restarts, unless another request overlapped.
RuleInForce ==
    \A r \in sure : HasRule(file, r.target, r.pattern)
                    /\ HasRule(live, r.target, r.pattern)

\* A rule that is added decides the commands it is meant for and no others,
\* under any mode and default: a whitelist rule allows them, save the bare rule
\* of a restricted tool; a blacklist rule denies them, save those the whitelist
\* allows.
AddDecidesWhatItSays ==
    [][\A a \in Admin, argv \in Command :
          SavePolicy(a) /\ alone[a] =>
             LET rule   == want[a].pattern
                 before == Tier(file, argv)
             IN  Tier(file', argv) =
                    CASE argv \notin Meaning(rule) -> before
                      [] argv \in Meaning(rule) /\ want[a].target = "white" ->
                           IF Skipped(rule) THEN before ELSE "allow"
                      [] argv \in Meaning(rule) /\ want[a].target = "black" ->
                           IF Whitelisted(file, argv) THEN "allow" ELSE "deny"]_file

==============================================================================
