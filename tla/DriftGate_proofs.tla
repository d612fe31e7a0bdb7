--------------------------- MODULE DriftGate_proofs ---------------------------
(***************************************************************************)
(* Proofs about DriftGate, for any contents, inodes and number of changes  *)
(* the agent makes.                                                        *)
(***************************************************************************)
EXTENDS DriftGate, TLAPS

------------------------------------------------------------------------------
\* Types.

LEMMA InitType == GateInit => GateTypeOK
<1> SUFFICES ASSUME GateInit PROVE GateTypeOK
    OBVIOUS
<1>1. edits \in 0..MaxEdits /\ head \in Nat /\ round \in 1..2
      BY GateAssumption DEF GateAssumption, GateInit
<1>2. /\ local \in Content \cup {None} /\ data \in [Inode -> Content]
      /\ arg \in Content /\ lib \in Content
      /\ libThen \in Content /\ committed \in Content /\ exe \in Inode
      BY DEF GateInit
<1>3. step \in Steps /\ seal \in [Sealable -> Content \cup {None}]
      BY DEF GateInit, Steps
<1> QED BY <1>1, <1>2, <1>3 DEF GateInit, GateTypeOK

LEMMA AgentType == GateTypeOK /\ Agent => GateTypeOK'
<1> SUFFICES ASSUME GateTypeOK, Agent PROVE GateTypeOK'
    OBVIOUS
<1> USE GateAssumption DEF GateAssumption, GateTypeOK, AgentActs, shapeVars,
        pinVars, runVars
<1>1. CASE EditExe
      BY <1>1 DEF EditExe
<1>2. CASE SwapExe
      BY <1>2 DEF SwapExe
<1>3. CASE EditArg
      BY <1>3 DEF EditArg
<1>4. CASE EditLib
      BY <1>4 DEF EditLib
<1>5. CASE Commit
      BY <1>5 DEF Commit
<1>6. CASE EditLocal
      BY <1>6 DEF EditLocal
<1> QED BY <1>1, <1>2, <1>3, <1>4, <1>5, <1>6 DEF Agent

LEMMA DaemonType == GateTypeOK /\ Daemon => GateTypeOK'
<1> SUFFICES ASSUME GateTypeOK, Daemon PROVE GateTypeOK'
    OBVIOUS
<1> USE DEF GateTypeOK, At, Go, Block, Steps, Sealable, shapeVars, fileVars,
        pinVars, runVars
<1>1. CASE PinHead
  <2>1. [head |-> head, clean |-> FALSE] \in GitPin
        BY DEF GitPin
  <2>2. gitPin' \in GitPin \cup {None}
        BY <1>1, <2>1 DEF PinHead
  <2>3. step' \in Steps
        BY <1>1 DEF PinHead
  <2> QED BY <1>1, <2>2, <2>3 DEF PinHead
<1>2. CASE PinTree
  <2>1. gitPin # None => [gitPin EXCEPT !.clean = Clean] \in GitPin
        BY DEF GitPin, Clean
  <2> QED BY <1>2, <2>1 DEF PinTree
<1>3. CASE PinEntry
      BY <1>3 DEF PinEntry, EntryNow, ExePin
<1>4. CASE SealExe
  <2>1. Sealed(InTree) \in Content \cup {None}
        BY GateAssumption DEF GateAssumption, Sealed
  <2> QED BY <1>4, <2>1 DEF SealExe
<1>5. CASE SealArg
      BY <1>5 DEF SealArg, Sealed
<1>6. CASE SaveRecord
      BY <1>6 DEF SaveRecord
<1>7. CASE StopGroup
      BY <1>7 DEF StopGroup
<1>8. CASE Approve
      BY <1>8 DEF Approve
<1>9. CASE LoadRecord
      BY <1>9 DEF LoadRecord
<1>10. CASE CheckExe
  <2>1. step' \in Steps
        BY <1>10 DEF CheckExe
  <2>2. skipped' \in BOOLEAN
        BY <1>10 DEF CheckExe
  <2> QED BY <1>10, <2>1, <2>2 DEF CheckExe
<1>11. CASE CheckArg
       BY <1>11 DEF CheckArg
<1>12. CASE Unpack
       BY <1>12 DEF Unpack, EntryNow, ExePin
<1>13. CASE CheckEntry
  <2>1. step' \in Steps
        BY <1>13 DEF CheckEntry
  <2>2. skipped' \in BOOLEAN
        BY <1>13 DEF CheckEntry
  <2> QED BY <1>13, <2>1, <2>2 DEF CheckEntry
<1>14. CASE CheckHead
  <2>1. step' \in Steps
        BY <1>14 DEF CheckHead
  <2>2. skipped' \in BOOLEAN
        BY <1>14 DEF CheckHead
  <2> QED BY <1>14, <2>1, <2>2 DEF CheckHead
<1>15. CASE CheckTree
  <2>1. step' \in Steps
        BY <1>15 DEF CheckTree
  <2>2. warned' \in BOOLEAN
        BY <1>15 DEF CheckTree
  <2> QED BY <1>15, <2>1, <2>2 DEF CheckTree
<1>16. CASE OpenEntry
       BY <1>16 DEF OpenEntry
<1>17. CASE StartRun
       BY <1>17 DEF StartRun, Executed, ExeNow, ReadArg, Run
<1> QED BY <1>1, <1>2, <1>3, <1>4, <1>5, <1>6, <1>7, <1>8, <1>9, <1>10,
        <1>11, <1>12, <1>13, <1>14, <1>15, <1>16, <1>17 DEF Daemon

LEMMA TypeStep == GateTypeOK /\ [GateNext]_gateVars => GateTypeOK'
<1>1. GateTypeOK /\ UNCHANGED gateVars => GateTypeOK'
      BY DEF GateTypeOK, gateVars, shapeVars, fileVars, pinVars, runVars
<1> QED BY <1>1, AgentType, DaemonType DEF GateNext

\* Every variable of the gates stays in its type, for any number of changes
\* to the files.
THEOREM TypeCorrect == GateSpec => []GateTypeOK
  BY InitType, TypeStep, PTL DEF GateSpec

------------------------------------------------------------------------------
\* Safety. Once the agent is stopped the files stay as they are, so what a
\* gate has found holds until the command starts; the invariant says of each
\* step which gates are behind it.

\* A clean tree that was pinned is told by HEAD alone, since HEAD only grows.
PinInv == gitPin # None =>
            /\ gitPin.head <= head
            /\ gitPin.clean /\ gitPin.head = head => committed = libThen

Unpacked == {"checkEntry", "checkHead", "checkTree", "open", "start"}

\* The entrypoint is the unpacked copy if there is one, and a descriptor is
\* kept only by the last step before the start.
ExecInv == /\ step \in Unpacked =>
                 (execPin = SealedCopy <=> seal["exe"] # None)
           /\ fd # None => step \in {"start", "blocked", "ran"}

PastExe   == {"checkArg", "unpack", "ran"} \cup Unpacked
PastArg   == {"unpack", "ran"} \cup Unpacked
PastEntry == {"checkHead", "checkTree", "open", "start", "ran"}
PastHead  == {"checkTree", "open", "start", "ran"}
PastGit   == {"open", "start", "ran"}

\* What the gates that were passed have found still holds.
HeldInv ==
    stopped /\ ~skipped =>
       /\ step \in PastExe => seal["exe"] \in {None, InTree}
       /\ step \in PastArg => seal["arg"] \in {None, arg}
       /\ step \in PastEntry => exePin \in {None, EntryNow}
       /\ step \in PastHead /\ gitPin # None => gitPin.head = head
       /\ step \in PastGit /\ gitPin # None => gitPin.clean = Clean \/ warned
       /\ step = "start" => fd \in {None, exe}

\* Nothing has run before the last step, and what the program found is still
\* there while the agent is stopped.
RanInv == ran # None => step = "ran" /\ (stopped => ran.lib = lib)

Inv == PinInv /\ ExecInv /\ HeldInv /\ RanInv /\ RunsWhatWasPinned

\* The daemon pins what is there, and HEAD is the agent's.
LEMMA PinDaemon ==
  GateTypeOK /\ PinInv /\ Daemon => PinInv'
<1> SUFFICES ASSUME GateTypeOK, PinInv, Daemon PROVE PinInv'
    OBVIOUS
<1> USE GateAssumption DEF GateAssumption, GateTypeOK, PinInv, At, Go, Block,
        shapeVars, fileVars,
        pinVars, runVars
<1>1. CASE PinHead
      BY <1>1 DEF PinHead
<1>2. CASE PinTree
  <2>1. CASE gitPin' = [gitPin EXCEPT !.clean = Clean]
    <3>1. CASE gitPin # None
      <4>1. gitPin'.head = gitPin.head /\ gitPin'.clean = Clean
            BY <2>1, <3>1 DEF GitPin
      <4>2. Clean => committed = lib
            BY DEF Clean
      <4> QED BY <1>2, <3>1, <4>1, <4>2 DEF PinTree
    <3>2. CASE gitPin = None
          BY <1>2, <3>2 DEF PinTree
    <3> QED BY <3>1, <3>2
  <2>2. CASE gitPin' = None
        BY <2>2
  <2> QED BY <1>2, <2>1, <2>2 DEF PinTree
<1>3. CASE PinEntry
      BY <1>3 DEF PinEntry
<1>4. CASE SealExe
      BY <1>4 DEF SealExe
<1>5. CASE SealArg
      BY <1>5 DEF SealArg
<1>6. CASE SaveRecord
      BY <1>6 DEF SaveRecord
<1>7. CASE StopGroup
      BY <1>7 DEF StopGroup
<1>8. CASE Approve
      BY <1>8 DEF Approve
<1>9. CASE LoadRecord
      BY <1>9 DEF LoadRecord
<1>10. CASE CheckExe
       BY <1>10 DEF CheckExe
<1>11. CASE CheckArg
       BY <1>11 DEF CheckArg
<1>12. CASE Unpack
       BY <1>12 DEF Unpack
<1>13. CASE CheckEntry
       BY <1>13 DEF CheckEntry
<1>14. CASE CheckHead
       BY <1>14 DEF CheckHead
<1>15. CASE CheckTree
       BY <1>15 DEF CheckTree
<1>16. CASE OpenEntry
       BY <1>16 DEF OpenEntry
<1>17. CASE StartRun
       BY <1>17 DEF StartRun
<1> QED BY <1>1, <1>2, <1>3, <1>4, <1>5, <1>6, <1>7, <1>8, <1>9, <1>10,
        <1>11, <1>12, <1>13, <1>14, <1>15, <1>16, <1>17 DEF Daemon

\* Unpack is the only step that chooses what to execute.
LEMMA ExecDaemon ==
  GateTypeOK /\ ExecInv /\ Daemon => ExecInv'
<1> SUFFICES ASSUME GateTypeOK, ExecInv, Daemon PROVE ExecInv'
    OBVIOUS
<1> USE GateAssumption DEF GateAssumption, GateTypeOK, ExecInv, Unpacked, At, Go,
        Block, shapeVars, fileVars,
        pinVars, runVars
<1>1. CASE PinHead
      BY <1>1 DEF PinHead
<1>2. CASE PinTree
      BY <1>2 DEF PinTree
<1>3. CASE PinEntry
      BY <1>3 DEF PinEntry
<1>4. CASE SealExe
      BY <1>4 DEF SealExe
<1>5. CASE SealArg
      BY <1>5 DEF SealArg
<1>6. CASE SaveRecord
      BY <1>6 DEF SaveRecord
<1>7. CASE StopGroup
      BY <1>7 DEF StopGroup
<1>8. CASE Approve
      BY <1>8 DEF Approve
<1>9. CASE LoadRecord
      BY <1>9 DEF LoadRecord
<1>10. CASE CheckExe
       BY <1>10 DEF CheckExe
<1>11. CASE CheckArg
       BY <1>11 DEF CheckArg
<1>12. CASE Unpack
       BY <1>12 DEF Unpack, IsSealed, Sealable, EntryNow, ExePin
<1>13. CASE CheckEntry
       BY <1>13 DEF CheckEntry
<1>14. CASE CheckHead
       BY <1>14 DEF CheckHead
<1>15. CASE CheckTree
       BY <1>15 DEF CheckTree
<1>16. CASE OpenEntry
       BY <1>16 DEF OpenEntry
<1>17. CASE StartRun
       BY <1>17 DEF StartRun
<1> QED BY <1>1, <1>2, <1>3, <1>4, <1>5, <1>6, <1>7, <1>8, <1>9, <1>10,
        <1>11, <1>12, <1>13, <1>14, <1>15, <1>16, <1>17 DEF Daemon

\* Each gate adds what it has found.
LEMMA HeldDaemon ==
  GateTypeOK /\ ExecInv /\ HeldInv /\ Daemon => HeldInv'
<1> SUFFICES ASSUME GateTypeOK, ExecInv, HeldInv, Daemon PROVE HeldInv'
    OBVIOUS
<1> USE DEF GateTypeOK, HeldInv, PastExe, PastArg, PastEntry, PastHead, PastGit,
        Unpacked, ExeNow, InTree, EntryNow, Clean, At, Go, Block, shapeVars, fileVars,
        pinVars, runVars
<1>1. CASE PinHead
      BY <1>1 DEF PinHead
<1>2. CASE PinTree
      BY <1>2 DEF PinTree
<1>3. CASE PinEntry
      BY <1>3 DEF PinEntry
<1>4. CASE SealExe
      BY <1>4 DEF SealExe
<1>5. CASE SealArg
      BY <1>5 DEF SealArg
<1>6. CASE SaveRecord
      BY <1>6 DEF SaveRecord
<1>7. CASE StopGroup
      BY <1>7 DEF StopGroup
<1>8. CASE Approve
      BY <1>8 DEF Approve
<1>9. CASE LoadRecord
      BY <1>9 DEF LoadRecord
<1>10. CASE CheckExe
       BY <1>10 DEF CheckExe, Drifted
<1>11. CASE CheckArg
       BY <1>11 DEF CheckArg, Drifted
<1>12. CASE Unpack
       BY <1>12 DEF Unpack
<1>13. CASE CheckEntry
       BY <1>13 DEF CheckEntry, EntryDrifted, Matches
<1>14. CASE CheckHead
       BY <1>14 DEF CheckHead, HeadMoved
<1>15. CASE CheckTree
       BY <1>15 DEF CheckTree, TreeDrifted
<1>16. CASE OpenEntry
  <2>1. SUFFICES ASSUME stopped, ~skipped PROVE HeldInv'
        BY <1>16 DEF OpenEntry
  <2>2. /\ step' \in PastExe => seal'["exe"] \in {None, InTree'}
        /\ step' \in PastArg => seal'["arg"] \in {None, arg'}
        /\ step' \in PastEntry => exePin' \in {None, EntryNow'}
        BY <1>16, <2>1 DEF OpenEntry
  <2>3. /\ step' \in PastHead /\ gitPin' # None => gitPin'.head = head'
        /\ step' \in PastGit /\ gitPin' # None =>
              gitPin'.clean = Clean' \/ warned'
        BY <1>16, <2>1 DEF OpenEntry
  <2>4. fd = None
        BY <1>16 DEF OpenEntry, ExecInv
  <2>5. step' = "start" => fd' \in {None, exe'}
        BY <1>16, <2>4 DEF OpenEntry
  <2> QED BY <2>2, <2>3, <2>5
<1>17. CASE StartRun
       BY <1>17 DEF StartRun
<1> QED BY <1>1, <1>2, <1>3, <1>4, <1>5, <1>6, <1>7, <1>8, <1>9, <1>10,
        <1>11, <1>12, <1>13, <1>14, <1>15, <1>16, <1>17 DEF Daemon

\* Only StartRun runs anything, and it is the last step.
LEMMA RanDaemon ==
  GateTypeOK /\ RanInv /\ Daemon => RanInv'
<1> SUFFICES ASSUME GateTypeOK, RanInv, Daemon PROVE RanInv'
    OBVIOUS
<1> USE DEF GateTypeOK, RanInv, At, Go, Block, shapeVars, fileVars,
        pinVars, runVars
<1>1. CASE PinHead
      BY <1>1 DEF PinHead
<1>2. CASE PinTree
      BY <1>2 DEF PinTree
<1>3. CASE PinEntry
      BY <1>3 DEF PinEntry
<1>4. CASE SealExe
      BY <1>4 DEF SealExe
<1>5. CASE SealArg
      BY <1>5 DEF SealArg
<1>6. CASE SaveRecord
      BY <1>6 DEF SaveRecord
<1>7. CASE StopGroup
      BY <1>7 DEF StopGroup
<1>8. CASE Approve
      BY <1>8 DEF Approve
<1>9. CASE LoadRecord
      BY <1>9 DEF LoadRecord
<1>10. CASE CheckExe
       BY <1>10 DEF CheckExe
<1>11. CASE CheckArg
       BY <1>11 DEF CheckArg
<1>12. CASE Unpack
       BY <1>12 DEF Unpack
<1>13. CASE CheckEntry
       BY <1>13 DEF CheckEntry
<1>14. CASE CheckHead
       BY <1>14 DEF CheckHead
<1>15. CASE CheckTree
       BY <1>15 DEF CheckTree
<1>16. CASE OpenEntry
       BY <1>16 DEF OpenEntry
<1>17. CASE StartRun
       BY <1>17 DEF StartRun
<1> QED BY <1>1, <1>2, <1>3, <1>4, <1>5, <1>6, <1>7, <1>8, <1>9, <1>10,
        <1>11, <1>12, <1>13, <1>14, <1>15, <1>16, <1>17 DEF Daemon

\* What is executed and read is the sealed copy, or what was verified.
LEMMA RunsDaemon ==
  GateTypeOK /\ RunsWhatWasPinned /\ ExecInv /\ HeldInv /\ RanInv /\ Daemon
    => RunsWhatWasPinned'
<1> SUFFICES ASSUME GateTypeOK, RunsWhatWasPinned, ExecInv, HeldInv, RanInv,
                    Daemon
             PROVE  RunsWhatWasPinned'
    OBVIOUS
<1> USE GateAssumption DEF GateAssumption, GateTypeOK, RunsWhatWasPinned, RanInv,
        At, Go, Block, shapeVars, fileVars,
        pinVars, runVars
<1>1. CASE PinHead
      BY <1>1 DEF PinHead
<1>2. CASE PinTree
      BY <1>2 DEF PinTree
<1>3. CASE PinEntry
      BY <1>3 DEF PinEntry
<1>4. CASE SealExe
      BY <1>4 DEF SealExe
<1>5. CASE SealArg
      BY <1>5 DEF SealArg
<1>6. CASE SaveRecord
      BY <1>6 DEF SaveRecord
<1>7. CASE StopGroup
      BY <1>7 DEF StopGroup
<1>8. CASE Approve
      BY <1>8 DEF Approve
<1>9. CASE LoadRecord
      BY <1>9 DEF LoadRecord
<1>10. CASE CheckExe
       BY <1>10 DEF CheckExe
<1>11. CASE CheckArg
       BY <1>11 DEF CheckArg
<1>12. CASE Unpack
       BY <1>12 DEF Unpack
<1>13. CASE CheckEntry
       BY <1>13 DEF CheckEntry
<1>14. CASE CheckHead
       BY <1>14 DEF CheckHead
<1>15. CASE CheckTree
       BY <1>15 DEF CheckTree
<1>16. CASE OpenEntry
       BY <1>16 DEF OpenEntry
<1>17. CASE StartRun
       BY <1>17 DEF StartRun, ExecInv, HeldInv, Unpacked, PastExe, PastArg,
         PastEntry, PastHead, PastGit, Sealable, Executed, ReadArg, ExeNow,
          InTree, EntryNow, ExePin, Names
<1> QED BY <1>1, <1>2, <1>3, <1>4, <1>5, <1>6, <1>7, <1>8, <1>9, <1>10,
        <1>11, <1>12, <1>13, <1>14, <1>15, <1>16, <1>17 DEF Daemon

\* The agent changes neither pins nor what has run, and nothing at all once it is
\* stopped.
LEMMA InvAgent ==
  GateTypeOK /\ Inv /\ Agent => Inv'
<1> SUFFICES ASSUME GateTypeOK, Inv, Agent PROVE Inv'
    OBVIOUS
<1> USE GateAssumption DEF GateAssumption, GateTypeOK, Inv, PinInv, ExecInv, HeldInv, RanInv,
        RunsWhatWasPinned, AgentActs, shapeVars, fileVars,
        pinVars, runVars
<1>1. CASE EditExe
      BY <1>1 DEF EditExe
<1>2. CASE SwapExe
      BY <1>2 DEF SwapExe
<1>3. CASE EditArg
      BY <1>3 DEF EditArg
<1>4. CASE EditLib
      BY <1>4 DEF EditLib
<1>5. CASE Commit
  <2>1. PinInv'
    <3>1. SUFFICES ASSUME gitPin # None
                   PROVE  gitPin.head <= head' /\ gitPin.head # head'
          BY <1>5 DEF Commit
    <3>2. gitPin.head \in Nat /\ head \in Nat /\ gitPin.head <= head
          BY <3>1 DEF GitPin
    <3>3. head' = head + 1
          BY <1>5 DEF Commit
    <3> QED BY <3>2, <3>3
  <2>2. (ExecInv /\ HeldInv /\ RanInv /\ RunsWhatWasPinned)'
        BY <1>5 DEF Commit
  <2> QED BY <2>1, <2>2
<1>6. CASE EditLocal
      BY <1>6 DEF EditLocal
<1> QED BY <1>1, <1>2, <1>3, <1>4, <1>5, <1>6 DEF Agent

LEMMA InvStep == GateTypeOK /\ Inv /\ [GateNext]_gateVars => Inv'
<1>1. GateTypeOK /\ Inv /\ Daemon => Inv'
      BY PinDaemon, ExecDaemon, HeldDaemon, RanDaemon, RunsDaemon DEF Inv
<1>2. Inv /\ UNCHANGED gateVars => Inv'
  <2> SUFFICES ASSUME Inv, UNCHANGED gateVars PROVE Inv'
      OBVIOUS
  <2> USE DEF gateVars, shapeVars, fileVars, pinVars, runVars
  <2>1. InTree' = InTree /\ EntryNow' = EntryNow /\ Clean' = Clean
        BY DEF InTree, ExeNow, EntryNow, Clean
  <2>2. PinInv' /\ ExecInv' /\ RanInv' /\ RunsWhatWasPinned'
        BY DEF Inv, PinInv, ExecInv, RanInv, RunsWhatWasPinned
  <2>3. HeldInv'
        BY <2>1 DEF Inv, HeldInv
  <2> QED BY <2>2, <2>3 DEF Inv
<1> QED BY <1>1, <1>2, InvAgent DEF GateNext

LEMMA InvInit == GateInit => Inv
  BY DEF GateInit, Inv, PinInv, ExecInv, HeldInv, RanInv, RunsWhatWasPinned,
         Unpacked, PastExe, PastArg, PastEntry, PastHead, PastGit

LEMMA InvHolds == GateSpec => [](GateTypeOK /\ Inv)
  BY InitType, TypeStep, InvInit, InvStep, PTL DEF GateSpec

\* A sealed file is executed and read as it was sealed, and a held, checked
\* entrypoint begins with the 32 MiB that were pinned, unless a bare name was
\* sealed: so far the gates of seal.go and fdpin.go reach, however often the
\* agent changes files, and whatever the changes are.
THEOREM PinnedIsRun == GateSpec => []RunsWhatWasPinned
  BY InvHolds, PTL DEF Inv

\* With the agent stopped no change between the pins and the stop of what the
\* gates of runApproved look at gets past them.
THEOREM NoDriftWhenHeld == GateSpec => []HeldRunHasNoDrift
<1>1. Inv => HeldRunHasNoDrift
      BY DEF Inv, RanInv, HeldInv, HeldRunHasNoDrift, PastExe, PastArg,
             PastEntry, PastHead, PastGit
<1> QED BY <1>1, InvHolds, PTL

\* A tracked file that the gates do not name is covered by HEAD and the
\* listing, if the tree was clean when checkGitDrift's pin was taken.
THEOREM AmbientCovered == GateSpec => []AmbientChangeReported
<1>1. GateTypeOK /\ Inv => AmbientChangeReported
      BY DEF GateTypeOK, GitPin, Inv, RanInv, HeldInv, PinInv,
             AmbientChangeReported, PastHead, PastGit, Clean
<1> QED BY <1>1, InvHolds, PTL

==============================================================================
