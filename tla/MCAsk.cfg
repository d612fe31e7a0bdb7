\* One petition of each kind, a crash, torn decision files.
CONSTANTS
  o1 = o1
  o2 = o2
  Options <- AllKinds
  MaxCrashes = 1
  TornWrites = TRUE
SPECIFICATION FairSpec
INVARIANTS
  TypeOK
  AnswerTrue
  StatusAgrees
  SubmittedAsTapped
PROPERTIES
  AskReturns
