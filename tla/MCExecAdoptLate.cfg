\* A request saved before AdoptOrphans has listed the directory.
CONSTANTS
  Rid = {r1, r2}
  Group = {g1}
  NoRid = NoRid
  NoGroup = NoGroup
  g1 = g1
  Canceller = {}
  Requests <- PlainRequest
  Endings <- PlainEnding
  MaxCrashes = 0
  TornWrites = FALSE
  AdoptFirst = FALSE
SPECIFICATION Spec
INVARIANTS
  AdoptsOnlyOrphans
