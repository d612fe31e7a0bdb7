--------------------------- MODULE ExclFile_proofs ---------------------------
(***************************************************************************)
(* Proofs about ExclFile, for any number of callers and readers: the type  *)
(* invariant, the safety properties, and that the steps of the file        *)
(* implement the write-once register of WriteOnce.                         *)
(***************************************************************************)
EXTENDS ExclFile, TLAPS

------------------------------------------------------------------------------
\* The inductive invariant.

\* While a call writes or syncs, the file is its own; a call that was told
\* TRUE created the file and completed it.
CallInv ==
  \A w \in Writers :
    /\ pc[w] \in {"create", "write", "sync", "dead"} => told[w] = "nothing"
    /\ pc[w] = "write" => creator = w /\ ~written
    /\ pc[w] = "sync" => creator = w /\ written
    /\ told[w] = "won" => creator = w /\ written

\* A file that is complete was created, and a reader has read what it holds.
FileInv ==
  /\ written => creator # NoValue
  /\ \A r \in Readers : seen[r] \in {NoValue, Content}

IInv == TypeOK /\ CallInv /\ FileInv

\* Init and every step establish and keep the type invariant.
LEMMA InitType == Init => TypeOK
BY DEF Init, TypeOK, Values

LEMMA NextType == TypeOK /\ [Next]_vars => TypeOK'
<1> SUFFICES ASSUME TypeOK, [Next]_vars
             PROVE  TypeOK'
    OBVIOUS
<1> USE DEF TypeOK, Values
<1>1. ASSUME NEW w \in Writers, Create(w) PROVE TypeOK'
      BY <1>1 DEF Create, Return, FileAbsent
<1>2. ASSUME NEW w \in Writers, Write(w) PROVE TypeOK'
      BY <1>2 DEF Write, Return
<1>3. ASSUME NEW w \in Writers, Sync(w) PROVE TypeOK'
      BY <1>3 DEF Sync, Return
<1>4. ASSUME NEW r \in Readers, Read(r) PROVE TypeOK'
      BY <1>4 DEF Read, Content
<1>5. CASE Crash
      BY <1>5 DEF Crash
<1>6. CASE UNCHANGED vars
      BY <1>6 DEF vars
<1> QED BY <1>1, <1>2, <1>3, <1>4, <1>5, <1>6 DEF Next

\* The type invariant of ExclFile holds for every set of callers and readers.
THEOREM TypeCorrect == Spec => []TypeOK
BY InitType, NextType, PTL DEF Spec

------------------------------------------------------------------------------

LEMMA InitInv == Init => IInv
BY InitType, NoValueAssumption DEF Init, IInv, CallInv, FileInv, Content

LEMMA NextInv == IInv /\ [Next]_vars => IInv'
<1> SUFFICES ASSUME IInv, [Next]_vars
             PROVE  IInv'
    OBVIOUS
<1>t. TypeOK /\ TypeOK'
      BY NextType DEF IInv
<1>c. CallInv /\ FileInv
      BY DEF IInv
<1> SUFFICES CallInv' /\ FileInv'
    BY <1>t DEF IInv
<1> USE <1>t, <1>c, NoValueAssumption DEF TypeOK, Values
<1>1. ASSUME NEW w \in Writers, Create(w) PROVE CallInv' /\ FileInv'
  <2>1. CASE FileAbsent /\ creator' = w /\ pc' = [pc EXCEPT ![w] = "write"]
                        /\ UNCHANGED <<told, written, seen>>
        BY <1>1, <2>1 DEF Create, FileAbsent, CallInv, FileInv, Content
  <2>2. CASE Return(w, "lost") /\ UNCHANGED <<creator, written, seen>>
        BY <1>1, <2>2 DEF Create, Return, CallInv, FileInv, Content
  <2> QED BY <1>1, <2>1, <2>2 DEF Create
<1>2. ASSUME NEW w \in Writers, Write(w) PROVE CallInv' /\ FileInv'
  <2>1. CASE written' = TRUE /\ pc' = [pc EXCEPT ![w] = "sync"]
                             /\ UNCHANGED <<told, creator, seen>>
        BY <1>2, <2>1 DEF Write, CallInv, FileInv, Content
  <2>2. CASE Return(w, "lost") /\ UNCHANGED <<creator, written, seen>>
        BY <1>2, <2>2 DEF Write, Return, CallInv, FileInv, Content
  <2> QED BY <1>2, <2>1, <2>2 DEF Write
<1>3. ASSUME NEW w \in Writers, Sync(w) PROVE CallInv' /\ FileInv'
      BY <1>3 DEF Sync, Return, CallInv, FileInv, Content
<1>4. ASSUME NEW r \in Readers, Read(r) PROVE CallInv' /\ FileInv'
      BY <1>4 DEF Read, CallInv, FileInv, Content
<1>5. CASE Crash
      BY <1>5 DEF Crash, CallInv, FileInv, Content
<1>6. CASE UNCHANGED vars
      BY <1>6 DEF vars, CallInv, FileInv, Content
<1> QED BY <1>1, <1>2, <1>3, <1>4, <1>5, <1>6 DEF Next

LEMMA Invariant == Spec => []IInv
BY InitInv, NextInv, PTL DEF Spec

\* One verdict wins: at most one call is told TRUE, and readers have only ever
\* obtained the value of that call.
THEOREM OneWinnerHolds == Spec => []OneWinner
<1>1. IInv => OneWinner
      BY NoValueAssumption
         DEF IInv, TypeOK, Values, CallInv, FileInv, OneWinner, Content
<1> QED BY <1>1, Invariant, PTL

------------------------------------------------------------------------------

\* A decision that was read is never read differently later.
THEOREM ReadsStableHolds == Spec => ReadsStable
<1>1. IInv /\ [Next]_vars
        => [\A r \in Readers : seen[r] # NoValue => seen'[r] = seen[r]]_vars
  <2> SUFFICES ASSUME IInv, Next, NEW r \in Readers, seen[r] # NoValue
               PROVE  seen'[r] = seen[r]
      OBVIOUS
  <2>1. CASE UNCHANGED seen
        BY <2>1
  <2>2. ASSUME NEW q \in Readers, Read(q) PROVE seen'[r] = seen[r]
        BY <2>2 DEF Read, IInv, TypeOK, FileInv
  <2> QED BY <2>1, <2>2 DEF Next, Create, Write, Sync, Crash
<1> QED BY <1>1, Invariant, PTL DEF Spec, ReadsStable

\* A half-written file stays what it is, whoever calls or crashes next.
THEOREM TornStaysTornHolds == Spec => TornStaysTorn
<1> DEFINE Torn(w) == creator = w /\ ~written /\ pc[w] \in {"dead", "returned"}
<1>1. IInv /\ [Next]_vars
        => [\A w \in Writers :
              (creator = w /\ ~written /\ pc[w] \in {"dead", "returned"})
                => (creator' = w /\ ~written')]_vars
  <2> SUFFICES ASSUME IInv, Next, NEW w \in Writers, Torn(w)
               PROVE  creator' = w /\ ~written'
      OBVIOUS
  <2>1. ASSUME NEW v \in Writers, Create(v) PROVE creator' = w /\ ~written'
        BY <2>1, NoValueAssumption DEF Create, FileAbsent
  <2>2. ASSUME NEW v \in Writers, Write(v) PROVE creator' = w /\ ~written'
        BY <2>2 DEF Write, IInv, CallInv
  <2> QED BY <2>1, <2>2 DEF Next, Sync, Read, Crash
<1> QED BY <1>1, Invariant, PTL DEF Spec, TornStaysTorn

------------------------------------------------------------------------------

\* Creating, writing, syncing and crashing implement the write-once register:
\* its value is set by the write that completes the file, and every answer is
\* one the register may give.
THEOREM RegisterImplemented == Spec => ImplementsRegister
<1> USE DEF Register!Next, Register!Set, Register!TellWon, Register!TellLost,
            Register!WriteOnceVars
<1>1. Init => Register!Init
      BY DEF Init, Register!Init, Content
<1>2. IInv /\ [Next]_vars => [Register!Next]_Register!WriteOnceVars
  <2> SUFFICES ASSUME IInv, [Next]_vars
               PROVE  [Register!Next]_Register!WriteOnceVars
      OBVIOUS
  <2> USE NoValueAssumption DEF IInv, TypeOK, Values, CallInv, Content
  <2>1. ASSUME NEW w \in Writers, Create(w)
        PROVE  [Register!Next]_Register!WriteOnceVars
        BY <2>1 DEF Create, Return, FileAbsent, FileInv
  <2>2. ASSUME NEW w \in Writers, Write(w)
        PROVE  [Register!Next]_Register!WriteOnceVars
        BY <2>2 DEF Write, Return
  <2>3. ASSUME NEW w \in Writers, Sync(w)
        PROVE  [Register!Next]_Register!WriteOnceVars
        BY <2>3 DEF Sync, Return
  <2>4. ASSUME NEW r \in Readers, Read(r)
        PROVE  [Register!Next]_Register!WriteOnceVars
        BY <2>4 DEF Read
  <2>5. CASE Crash
        BY <2>5 DEF Crash
  <2>6. CASE UNCHANGED vars
        BY <2>6 DEF vars
  <2> QED BY <2>1, <2>2, <2>3, <2>4, <2>5, <2>6 DEF Next
<1> QED BY <1>1, <1>2, Invariant, PTL DEF Spec, ImplementsRegister, Register!Spec
==============================================================================
