------------------------------ MODULE PolicyRules ------------------------------
(***************************************************************************)
(* How a policy decides on a command: the rule matcher, the order of the   *)
(* lists, and what AddRule accepts.  A command and a rule are sequences of *)
(* words.  Base and Path are what canonExe finds for a word: the base name *)
(* of the cleaned path, and the path itself, looked up in PATH if the word *)
(* has no slash.                                                           *)
(***************************************************************************)
EXTENDS Naturals, Sequences

CONSTANTS Word,         \* the words of commands and rules
          Star,         \* the word "*"
          Base(_),      \* canonExe: base name
          Path(_),      \* canonExe: path
          Restricted    \* the base names in restrictedTools

ASSUME RuleAssumption ==
    /\ Star \in Word
    \* A path that was looked up ends in the name it was looked up for.
    /\ \A v, w \in Word : Path(v) = Path(w) => Base(v) = Base(w)

------------------------------------------------------------------------------
\* matchRule.

ExeMatch(v, w) == Path(v) = Path(w) \/ Base(v) = Base(w)

HasWild(rule) == \E i \in DOMAIN rule : rule[i] = Star

\* From position i on, rule and argv agree as far as the rule goes.
AgreeFrom(i, argv, rule) ==
    \A k \in i..Len(rule) : rule[k] = Star \/ argv[k] = rule[k]

Prefix(rule) == SubSeq(rule, 1, Len(rule) - 1)

\* Mutation: the suffix must not be empty.
MatchTrailingLonger(argv, rule) ==
    LET prefix == Prefix(rule) IN
    /\ \E i \in DOMAIN prefix : prefix[i] # Star
    /\ Len(argv) > Len(prefix)
    /\ prefix[1] = Star \/ ExeMatch(argv[1], prefix[1])
    /\ AgreeFrom(2, argv, prefix)

\* A trailing "*" stands for any suffix, also the empty one, behind a prefix
\* with at least one word that is not "*".
MatchTrailing(argv, rule) ==
    LET prefix == Prefix(rule) IN
    /\ \E i \in DOMAIN prefix : prefix[i] # Star
    /\ Len(argv) >= Len(prefix)
    /\ prefix[1] = Star \/ ExeMatch(argv[1], prefix[1])
    /\ AgreeFrom(2, argv, prefix)

MatchWild(argv, rule) ==
    IF rule[Len(rule)] = Star
    THEN MatchTrailing(argv, rule)
    ELSE Len(argv) = Len(rule) /\ AgreeFrom(1, argv, rule)

MatchRule(argv, rule) ==
    /\ rule # <<>> /\ argv # <<>>
    /\ \/ HasWild(rule) /\ MatchWild(argv, rule)
       \/ /\ ~HasWild(rule)
          /\ \/ Len(rule) = 1 /\ ExeMatch(argv[1], rule[1])
             \/ Len(rule) # 1 /\ argv = rule

------------------------------------------------------------------------------
\* Tier. A policy has a mode, a default and two lists of rules; since every
\* rule of a list is tried, the lists are sets here.

RestrictedBase(w) == Base(w) \in Restricted

\* A whitelist rule that Tier passes over.
Skipped(rule) == Len(rule) = 1 /\ RestrictedBase(rule[1])

\* Mutation: bare rules of restricted tools count.
AllowsBare(p, argv) == \E rule \in p.white : MatchRule(argv, rule)

Allows(p, argv) == \E rule \in p.white : ~Skipped(rule) /\ MatchRule(argv, rule)
Denies(p, argv) == \E rule \in p.black : MatchRule(argv, rule)

\* Mutation: the mode is looked at first.
TierModeFirst(p, argv) ==
    IF p.mode = "whitelist" THEN "deny"
    ELSE IF Allows(p, argv) THEN "allow"
    ELSE IF Denies(p, argv) THEN "deny"
    ELSE p.default

Tier(p, argv) ==
    IF Allows(p, argv) THEN "allow"
    ELSE IF p.mode = "whitelist" \/ Denies(p, argv) THEN "deny"
    ELSE p.default

------------------------------------------------------------------------------
\* AddRule.

\* What the request must satisfy. (Words are not empty here.)
Accepted(target, kind, pattern) ==
    /\ pattern # <<>>
    /\ \/ kind = "exact" /\ ~HasWild(pattern)
       \/ /\ kind = "base" /\ Len(pattern) = 1 /\ pattern[1] # Star
          /\ ~(target = "white" /\ RestrictedBase(pattern[1]))
       \/ kind = "custom"

\* Mutation: the name of the list ends up in the mode.
WithMode(p, target, rule) == [p EXCEPT !.mode = target]

\* The rule at the end of its list; a rule that is there already changes
\* nothing.
WithRule(p, target, rule) ==
    IF target = "white" THEN [p EXCEPT !.white = @ \cup {rule}]
                        ELSE [p EXCEPT !.black = @ \cup {rule}]

HasRule(p, target, rule) ==
    rule \in (IF target = "white" THEN p.white ELSE p.black)

==============================================================================
