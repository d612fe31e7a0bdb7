\* One confirmed petition (or its confirmation adopted after a crash), one
\* Cancel request, one crash, and decision files that may be half written.
CONSTANTS
  Rid = {r1, r2}
  Group = {g1}
  NoRid = NoRid
  NoGroup = NoGroup
  g1 = g1
  Canceller = {c1}
  Requests <- ConfirmedRequests
  Endings <- OddEndings
  MaxCrashes = 1
  TornWrites = TRUE
  AdoptFirst = TRUE
SPECIFICATION Spec
SYMMETRY RidSymmetry
INVARIANTS
  TypeOK
  ExecutedOnlyIfApproved
  RecentTellsRuns
  AnswersTrue
  StatusNeverDeniesARun
  HeldWhileReviewed
PROPERTIES
  ImplementsGate
