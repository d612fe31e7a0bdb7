\* One reconfiguration, to the same bot, another one or none, and one crash: up
\* to three pollers, two of them at once.
CONSTANTS
    Person = {ann}
    NoDecision = NoDecision
    Bot = {mine, other}
    NoBot = NoBot
    NoPress = NoPress
    Admin = {adm}
    Cap = 1
    MaxPresses = 2
    MaxSent = 2
    MaxConfigs = 1
    MaxCrashes = 1
\* Without a token, and within the bounds, nothing is left to do.
CHECK_DEADLOCK FALSE
SPECIFICATION FairSpec
INVARIANTS TypeOK NothingSkipped InOrder OncePerPoller
PROPERTIES EveryPressSettles
