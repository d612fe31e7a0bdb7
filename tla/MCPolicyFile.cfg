\* Two requests, side by side or one after the other, on top of any one rule,
\* and the commands they decide on: up to two words, and some of three.
CONSTANTS
    Word <- MCWord
    Star = "*"
    Base <- MCBase
    Path <- MCPath
    Restricted = {"sh"}
    Rule <- MCRule
    Command <- MCCommand
    Asked <- MCAsked
    Admin = {a1, a2}
    MaxAdds = 2
SPECIFICATION Spec
SYMMETRY Admins
INVARIANTS TypeOK MatchesMeaning RestrictedNeverBare RuleInForce
PROPERTIES AddDecidesWhatItSays
