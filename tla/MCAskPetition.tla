---------------------------- MODULE MCAskPetition ----------------------------
\* Model-checking instance of AskPetition: the options of each kind.  A notice
\* has none; a single option is enough to tick, untick and submit.
EXTENDS AskPetition, TLC

CONSTANTS o1, o2

AllKinds == [ask |-> {o1, o2}, multi |-> {o1}, notify |-> {}]
==============================================================================
