\* Two petitions of one process group and one crash, without Cancel.
CONSTANTS
  Rid = {r1, r2}
  Group = {g1}
  NoRid = NoRid
  NoGroup = NoGroup
  g1 = g1
  Canceller = {}
  Requests <- PlainRequests
  Endings <- PlainEnding
  MaxCrashes = 1
  TornWrites = FALSE
  AdoptFirst = TRUE
SPECIFICATION FairSpec
INVARIANTS
  AtMostOnce
PROPERTIES
  GroupsResumed
