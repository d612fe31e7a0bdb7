------------------------------- MODULE DriftGate -------------------------------
(***************************************************************************)
(* What an approved command runs.  At the request the daemon pins the git  *)
(* tree, the entrypoint and the input files of the command, keeps a sealed *)
(* copy of the inputs, and stops the agent's process group; a confirmation *)
(* pins everything once more.  At the approval it compares the live files  *)
(* with the pins, one gate after the other, and runs the sealed copies, or *)
(* the entrypoint through a descriptor it has verified.  All the while     *)
(* the agent may edit, replace or remove the files, unless it is stopped.  *)
(*                                                                         *)
(* The command is "exe arg" in a work tree with one more file, lib, that   *)
(* the program reads by itself.  lib stands for the tracked files, exe and *)
(* arg for ignored ones, which git does not see.  A command that is named  *)
(* without a slash is pinned where PATH finds it, but a file of its name   *)
(* in the work tree is what is sealed, and then executed.                  *)
(***************************************************************************)
EXTENDS Naturals, FiniteSets

CONSTANTS Content,      \* what a file may hold
          Small,        \* contents within the size limit of a seal, 2 MiB
          Sha(_),       \* the hash of the first 32 MiB of a content
          Inode,        \* files that may be put in the place of exe
          None,
          SealedCopy,   \* the pin of an unpacked copy, which the agent cannot reach
          MaxEdits      \* bound: changes the agent makes

ExePin == [inode : Inode, sha : {Sha(c) : c \in Content}]
GitPin == [head : Nat, clean : BOOLEAN]
Run    == [exe : Content, arg : Content \cup {None}, lib : Content]

ASSUME GateAssumption ==
    /\ None \notin Content \cup Inode \cup ExePin \cup GitPin \cup Run
    /\ SealedCopy \notin ExePin \cup {None}
    /\ Small \subseteq Content
    \* What is hashed as a whole is told apart from every other content.
    /\ \A c \in Small, d \in Content : Sha(c) = Sha(d) => c = d
    /\ MaxEdits \in Nat

VARIABLES
    named,      \* argv[0]: a path in the work tree, one outside, or a bare name
    repo,       \* whether the work tree is a git repository
    strict,     \* gitStrict
    hold,       \* whether the agent's group can be stopped
    twice,      \* whether a confirmation is asked for
    exe, data,  \* the inode at the path of exe, None if gone; what inodes hold
    local,      \* of a bare name: what the file of that name in the work tree
                \* holds, None if there is none
    arg,        \* what arg holds, None if gone
    lib,        \* what lib holds
    head, committed,    \* HEAD and lib as committed there
    stopped, edits,
    step, round,        \* the waiter; 1 for the petition, 2 for its confirmation
    gitPin, exePin, seal,   \* PendingRecord.Git, FD and Seal
    libThen,    \* what lib held when the tree was pinned
    execPin,    \* the pin runPinned verifies
    fd,         \* the descriptor it executes, None if by path
    warned,     \* the result begins with a WARNING
    skipped,    \* a gate could not load the record and let the command pass
    ran         \* what the command executed and read, None if it did not run

shapeVars == <<named, repo, strict, hold, twice>>
fileVars  == <<exe, data, local, arg, lib, head, committed>>
pinVars   == <<gitPin, exePin, seal, libThen>>
runVars   == <<execPin, fd, warned, skipped, ran>>
gateVars  == <<shapeVars, fileVars, stopped, edits, step, round, pinVars,
               runVars>>

Sealable == {"exe", "arg"}
Names    == {"inside", "outside", "bare"}
Steps    == {"head", "tree", "entry", "sealExe", "sealArg", "save", "stop",
             "wait", "load", "checkExe", "checkArg", "unpack", "checkEntry",
             "checkHead", "checkTree", "open", "start", "blocked", "ran"}

GateTypeOK ==
    /\ named \in Names /\ repo \in BOOLEAN
    /\ strict \in BOOLEAN /\ hold \in BOOLEAN /\ twice \in BOOLEAN
    /\ exe \in Inode \cup {None} /\ data \in [Inode -> Content]
    /\ local \in Content \cup {None}
    /\ arg \in Content \cup {None} /\ lib \in Content
    /\ head \in Nat /\ committed \in Content
    /\ stopped \in BOOLEAN /\ edits \in 0..MaxEdits
    /\ step \in Steps /\ round \in 1..2
    /\ gitPin \in GitPin \cup {None}
    /\ exePin \in ExePin \cup {None}
    /\ seal \in [Sealable -> Content \cup {None}]
    /\ execPin \in ExePin \cup {None, SealedCopy}
    /\ libThen \in Content
    /\ fd \in Inode \cup {None} /\ warned \in BOOLEAN /\ skipped \in BOOLEAN
    /\ ran \in Run \cup {None}

\* A file is only ever compared with what it held before, so all of them may
\* begin with the same content.
GateInit ==
    /\ named \in Names /\ repo \in BOOLEAN
    /\ strict \in BOOLEAN /\ hold \in BOOLEAN /\ twice \in BOOLEAN
    /\ exe \in Inode
    /\ \E c \in Content : /\ data = [i \in Inode |-> c]
                          /\ local \in {c, None}
                          /\ arg = c /\ lib = c /\ libThen = c
    /\ named # "bare" => local = None
    /\ head = 0 /\ committed \in Content
    /\ stopped = FALSE /\ edits = 0
    /\ step = "head" /\ round = 1
    /\ gitPin = None /\ exePin = None
    /\ seal = [f \in Sealable |-> None]
    /\ execPin = None /\ fd = None /\ warned = FALSE /\ skipped = FALSE
    /\ ran = None

------------------------------------------------------------------------------
\* The agent.

AgentActs == /\ ~stopped /\ edits < MaxEdits
             /\ step \notin {"blocked", "ran"}
             /\ edits' = edits + 1
             /\ UNCHANGED <<shapeVars, stopped, step, round, pinVars, runVars>>

\* An edit in place keeps the inode, also of an open descriptor.
EditExe == /\ AgentActs /\ exe # None
           /\ \E c \in Content \ {data[exe]} : data' = [data EXCEPT ![exe] = c]
           /\ UNCHANGED <<exe, local, arg, lib, head, committed>>

SwapExe == /\ AgentActs
           /\ exe' \in (Inode \cup {None}) \ {exe}
           /\ UNCHANGED <<data, local, arg, lib, head, committed>>

EditLocal == /\ AgentActs /\ named = "bare"
             /\ local' \in (Content \cup {None}) \ {local}
             /\ UNCHANGED <<exe, data, arg, lib, head, committed>>

EditArg == /\ AgentActs
           /\ arg' \in (Content \cup {None}) \ {arg}
           /\ UNCHANGED <<exe, data, local, lib, head, committed>>

EditLib == /\ AgentActs
           /\ lib' \in Content \ {lib}
           /\ UNCHANGED <<exe, data, local, arg, head, committed>>

Commit == /\ AgentActs /\ repo
          /\ head' = head + 1 /\ committed' = lib
          /\ UNCHANGED <<exe, data, local, arg, lib>>

Agent == EditExe \/ SwapExe \/ EditLocal \/ EditArg \/ EditLib \/ Commit

------------------------------------------------------------------------------
\* The request: RunWithPeerCancel, and confirm in the second round.

At(s) == step = s
Go(s) == step' = s

Clean == lib = committed

\* snapshotGit asks git for HEAD, and then for the listing; without a
\* repository, or a git that answers, there is no pin.
PinHead == /\ At("head") /\ Go("tree")
           /\ gitPin' \in {None} \cup
                (IF repo THEN {[head |-> head, clean |-> FALSE]} ELSE {})
           /\ UNCHANGED <<shapeVars, fileVars, stopped, edits, round, exePin,
                          seal, libThen, runVars>>

PinTree == /\ At("tree") /\ Go("entry")
           /\ gitPin' \in {None} \cup
                (IF gitPin = None THEN {} ELSE {[gitPin EXCEPT !.clean = Clean]})
           /\ libThen' = lib
           /\ UNCHANGED <<shapeVars, fileVars, stopped, edits, round, exePin,
                          seal, runVars>>

\* pinFromFile of what is at the path now. (The size is recorded, but nothing
\* looks at it.)
EntryNow == IF exe = None THEN None
            ELSE [inode |-> exe, sha |-> Sha(data[exe])]

\* snapshotEntry
PinEntry == /\ At("entry") /\ Go("sealExe")
            /\ exePin' = EntryNow
            /\ UNCHANGED <<shapeVars, fileVars, stopped, edits, round, gitPin,
                           seal, libThen, runVars>>

ExeNow == IF exe = None THEN None ELSE data[exe]

\* What sealCandidates and checkSealDrift find for argv[0]: they take a bare
\* name for a file of the work tree.
InTree == CASE named = "inside"  -> ExeNow
            [] named = "outside" -> None
            [] named = "bare"    -> local

\* What is missing or too large stays out of the seal.
Sealed(content) == IF content \in Small THEN content ELSE None

\* snapshotSeal: each file is read into the archive by itself.
SealExe == /\ At("sealExe") /\ Go("sealArg")
           /\ seal' = [seal EXCEPT !["exe"] = Sealed(InTree)]
           /\ UNCHANGED <<shapeVars, fileVars, stopped, edits, round, gitPin,
                          exePin, libThen, runVars>>

\* Without its archive the command goes unsealed.
SealArg == /\ At("sealArg") /\ Go("save")
           /\ seal' \in {[seal EXCEPT !["arg"] = Sealed(arg)],
                         [f \in Sealable |-> None]}
           /\ UNCHANGED <<shapeVars, fileVars, stopped, edits, round, gitPin,
                          exePin, libThen, runVars>>

\* The record is saved and the operator paged; a confirmation finds the group
\* stopped already.
SaveRecord == /\ At("save") /\ Go(IF round = 1 THEN "stop" ELSE "wait")
              /\ UNCHANGED <<shapeVars, fileVars, stopped, edits, round,
                             pinVars, runVars>>

\* snapshotSuspend
StopGroup == /\ At("stop") /\ Go("wait")
             /\ stopped' = hold
             /\ UNCHANGED <<shapeVars, fileVars, edits, round, pinVars, runVars>>

\* Mutation: a confirmation is confirmed again.
ApproveAgain == /\ At("wait")
                /\ IF twice
                   THEN Go("head") /\ round' = round + 1
                   ELSE Go("load") /\ UNCHANGED round
                /\ UNCHANGED <<shapeVars, fileVars, stopped, edits, pinVars,
                               runVars>>

\* The operator approves. (Other outcomes run nothing.)
Approve == /\ At("wait")
           /\ IF twice /\ round = 1
              THEN Go("head") /\ round' = 2
              ELSE Go("load") /\ UNCHANGED round
           /\ UNCHANGED <<shapeVars, fileVars, stopped, edits, pinVars, runVars>>

------------------------------------------------------------------------------
\* runApproved. Load reads the record once for the run; each check below
\* reads it again and lets the command pass if that fails.

Block == Go("blocked")

LoadRecord == /\ At("load") /\ (Go("checkExe") \/ Block)
              /\ UNCHANGED <<shapeVars, fileVars, stopped, edits, round,
                             pinVars, runVars>>

Drifted(f, now) == seal[f] # None /\ now # seal[f]

\* checkSealDrift, file by file; without a record it finds nothing to check.
CheckExe == /\ At("checkExe")
            /\ \/ Drifted("exe", InTree) /\ Block /\ UNCHANGED skipped
               \/ ~Drifted("exe", InTree) /\ Go("checkArg") /\ UNCHANGED skipped
               \/ Go("unpack") /\ skipped' = TRUE
            /\ UNCHANGED <<shapeVars, fileVars, stopped, edits, round, pinVars,
                           execPin, fd, warned, ran>>

CheckArg == /\ At("checkArg")
            /\ Go(IF Drifted("arg", arg) THEN "blocked" ELSE "unpack")
            /\ UNCHANGED <<shapeVars, fileVars, stopped, edits, round, pinVars,
                           runVars>>

IsSealed == \E f \in Sealable : seal[f] # None

\* materializeSeal checks the archive against the manifest and unpacks it, or
\* fails; sealedArgv names the copies, and snapshotEntry pins what is now
\* argv[0].
Unpack ==
    /\ At("unpack")
    /\ \/ IsSealed /\ Block /\ UNCHANGED execPin
       \/ /\ IsSealed /\ Go("checkEntry")
          /\ execPin' = IF seal["exe"] # None THEN SealedCopy ELSE EntryNow
       \/ ~IsSealed /\ Go("checkEntry") /\ execPin' = exePin
    /\ UNCHANGED <<shapeVars, fileVars, stopped, edits, round, pinVars, fd,
                   warned, skipped, ran>>

\* Mutation: content alone decides, whatever inode it is in.
MatchesContent(pin) == exe # None /\ Sha(data[exe]) = pin.sha

\* openVerified: the same hash in the same inode.
Matches(pin) == EntryNow = pin

\* checkFDDrift
EntryDrifted == exePin # None /\ ~Matches(exePin)

CheckEntry ==
    /\ At("checkEntry")
    /\ \/ EntryDrifted /\ Block /\ UNCHANGED skipped
       \/ ~EntryDrifted /\ Go("checkHead") /\ UNCHANGED skipped
       \/ Go("checkHead") /\ skipped' = TRUE
    /\ UNCHANGED <<shapeVars, fileVars, stopped, edits, round, pinVars,
                   execPin, fd, warned, ran>>

\* Mutation: only the listing of the tree is compared.
HeadIgnored == FALSE

\* HEAD, the branch or the repository itself is another one.
HeadMoved == gitPin # None /\ gitPin.head # head

\* The porcelain listing names the files that differ from HEAD, not how.
TreeDrifted == gitPin # None /\ gitPin.clean # Clean

\* checkGitDrift asks as snapshotGit does. Without a record, or without a
\* listing, it finds nothing; if git does not tell HEAD, the repository is
\* taken to be gone.
CheckHead ==
    /\ At("checkHead")
    /\ \/ gitPin # None /\ Block /\ UNCHANGED skipped
       \/ ~HeadMoved /\ Go("checkTree") /\ UNCHANGED skipped
       \/ Go("open") /\ skipped' = TRUE
    /\ UNCHANGED <<shapeVars, fileVars, stopped, edits, round, pinVars,
                   execPin, fd, warned, ran>>

CheckTree ==
    /\ At("checkTree")
    /\ \/ TreeDrifted /\ strict /\ Block /\ UNCHANGED warned
       \/ TreeDrifted /\ ~strict /\ Go("open") /\ warned' = TRUE
       \/ ~TreeDrifted /\ Go("open") /\ UNCHANGED warned
    /\ UNCHANGED <<shapeVars, fileVars, stopped, edits, round, pinVars,
                   execPin, fd, skipped, ran>>

\* runPinned: openVerified keeps the descriptor it has verified. The sealed
\* copy is the daemon's own and matches.
OpenEntry ==
    /\ At("open")
    /\ \/ execPin \in {None, SealedCopy} /\ Go("start") /\ UNCHANGED fd
       \/ /\ execPin \notin {None, SealedCopy} /\ ~Matches(execPin)
          /\ Block /\ UNCHANGED fd
       \/ /\ execPin \notin {None, SealedCopy} /\ Matches(execPin)
          /\ Go("start") /\ fd' = exe
    /\ UNCHANGED <<shapeVars, fileVars, stopped, edits, round, pinVars,
                   execPin, warned, skipped, ran>>

\* What is executed: the sealed copy, the verified descriptor, or (execPlain)
\* whatever is at the path.
Executed == IF execPin = SealedCopy THEN seal["exe"]
            ELSE IF fd # None THEN data[fd] ELSE ExeNow

\* Mutation: the arguments still name the live files.
ReadArgLive == arg

\* What the program finds under its argument: sealedArgv.
ReadArg == IF seal["arg"] # None THEN seal["arg"] ELSE arg

\* The command starts, unless there is nothing to execute or the start fails.
StartRun ==
    /\ At("start")
    /\ \/ Block /\ UNCHANGED ran
       \/ /\ Executed # None /\ Go("ran")
          /\ ran' = [exe |-> Executed, arg |-> ReadArg, lib |-> lib]
    /\ UNCHANGED <<shapeVars, fileVars, stopped, edits, round, pinVars,
                   execPin, fd, warned, skipped>>

Daemon == \/ PinHead \/ PinTree \/ PinEntry \/ SealExe \/ SealArg \/ SaveRecord
          \/ StopGroup \/ Approve \/ LoadRecord \/ CheckExe \/ CheckArg
          \/ Unpack \/ CheckEntry \/ CheckHead \/ CheckTree \/ OpenEntry
          \/ StartRun

GateNext == Agent \/ Daemon

GateSpec == GateInit /\ [][GateNext]_gateVars

------------------------------------------------------------------------------
\* Properties. All of them speak of the pins of the record that was approved
\* last: a confirmation pins anew what may have changed before the stop.

\* A sealed file is executed and read as it was sealed, even while the agent
\* goes on editing. If the agent was stopped and the gates could look, what is
\* executed, sealed or not, has the first 32 MiB that were pinned, unless a
\* bare name was sealed: the work tree's file runs then, and the pin is of
\* another.
RunsWhatWasPinned ==
    ran # None =>
       /\ \A f \in Sealable : seal[f] # None => ran[f] = seal[f]
       /\ stopped /\ ~skipped /\ exePin # None
          /\ ~(named = "bare" /\ seal["exe"] # None)
             => Sha(ran.exe) = exePin.sha

\* With the agent stopped, what the gates look at has not changed between the
\* pins and the stop: a command runs only if the sealed files, the inode, the
\* first 32 MiB of the entrypoint and HEAD are those of the pins and, but for a
\* warning, the tree is as clean as then.
HeldRunHasNoDrift ==
    ran # None /\ stopped /\ ~skipped =>
       /\ exePin \in {None, EntryNow}
       /\ seal["exe"] \in {None, InTree} /\ seal["arg"] \in {None, arg}
       /\ gitPin # None =>
             /\ gitPin.head = head
             /\ gitPin.clean = Clean \/ warned

\* A file the program reads by itself is covered by the git gate as long as
\* the tree was clean when it was pinned.
AmbientChangeReported ==
    /\ ran # None /\ stopped /\ ~skipped
    /\ gitPin # None /\ gitPin.clean
    => ran.lib = libThen \/ warned

==============================================================================
