\* Three concurrent callers and two readers of one decision file.
CONSTANTS
  Writers = {w1, w2, w3}
  Readers = {r1, r2}
  NoValue = NoValue
SPECIFICATION Spec
INVARIANTS
  TypeOK
  OneWinner
PROPERTIES
  ReadsStable
  ImplementsRegister
