\* One confirmed petition, one Cancel request, one crash: everybody returns.
CONSTANTS
  Rid = {r1, r2}
  Group = {g1}
  NoRid = NoRid
  NoGroup = NoGroup
  g1 = g1
  Canceller = {c1}
  Requests <- HeldRequest
  Endings <- PlainEnding
  MaxCrashes = 1
  TornWrites = FALSE
  AdoptFirst = TRUE
SPECIFICATION FairSpec
PROPERTIES
  WaitersReturn
  AdoptedSettle
