\* A link of two or three tokens, in one to five chunks, across the ceiling and
\* behind more text than the window holds; with and without a timeout.
CONSTANTS
    Url = u
    Query = q
    Space = s
    Secs <- MCSecs
    CapBytes = 2
    Window = 3
    MaxOut = 5
\* A call that has returned, with nothing of the command left, is the end.
CHECK_DEADLOCK FALSE
SPECIFICATION Spec
INVARIANTS KillIsReported OutputAccounted ChallengeFound
PROPERTIES ReturnsInTime
