\* An approval that lands between the checks and the writes of Cancel.
CONSTANTS
  Rid = {r1, r2}
  Group = {g1}
  NoRid = NoRid
  NoGroup = NoGroup
  g1 = g1
  Canceller = {c1}
  Requests <- PlainRequest
  Endings <- PlainEnding
  MaxCrashes = 0
  TornWrites = FALSE
  AdoptFirst = TRUE
SPECIFICATION Spec
INVARIANTS
  CancelledNeverRuns
