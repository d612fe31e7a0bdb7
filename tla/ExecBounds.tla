------------------------------ MODULE ExecBounds ------------------------------
(***************************************************************************)
(* One bounded execution, runCmdBounded: the command runs as the leader of *)
(* a process group of its own, a timer kills the group, a goroutine of     *)
(* os/exec copies what arrives in the output pipe through challengeWriter  *)
(* into cappedWriter, and Wait returns once the command is reaped and the  *)
(* pipe is closed at all its other ends.  The command may leave a          *)
(* descendant behind, in its group or in a session of its own.             *)
(*                                                                         *)
(* Output is a sequence of tokens: Url begins a link, Query is the part    *)
(* that makes a link a challenge, and Space ends it.                       *)
(***************************************************************************)
EXTENDS Integers, Sequences

CONSTANTS Url, Query, Space,
          Secs,         \* values of ExecTimeoutSecs
          CapBytes,     \* capBytes, in tokens
          Window,       \* the 64 KiB of challengeWriter, in tokens
          MaxOut        \* bound: tokens the command puts out

Token == {Url, Query, Space}

ASSUME BoundsAssumption ==
    /\ Url # Query /\ Url # Space /\ Query # Space
    /\ Secs \subseteq Int
    /\ CapBytes \in Nat \ {0} /\ Window \in Nat \ {0} /\ MaxOut \in Nat

VARIABLES
    secs,       \* ExecTimeoutSecs of this daemon
    main,       \* the command
    desc,       \* a descendant: in the group with or without the pipe, escaped
                \* with the pipe, or gone (which includes without either)
    emitted,    \* everything that was put out
    pipe,       \* the part of it that was not yet read
    kept, dropped,      \* cappedWriter
    scan, fired,        \* challengeWriter.buf and .fired
    copier,     \* the goroutine of os/exec
    timer, flag,        \* the AfterFunc and timedOut
    pc,         \* runBounded
    exit        \* what runCmdBounded reports

procVars == <<main, desc, emitted>>
copyVars == <<pipe, kept, dropped, scan, fired, copier>>
timeVars == <<timer, flag>>
vars == <<secs, procVars, copyVars, timeVars, pc, exit>>

TypeOK ==
    /\ secs \in Secs
    /\ main \in {"none", "running", "exited", "killed"}
    /\ desc \in {"none", "group", "quiet", "escaped", "gone"}
    /\ emitted \in Seq(Token) /\ Len(emitted) <= MaxOut
    /\ pipe \in Seq(Token)
    /\ kept \in Seq(Token) /\ Len(kept) <= CapBytes
    /\ dropped \in Nat
    /\ scan \in Seq(Token) /\ fired \in BOOLEAN
    /\ copier \in {"none", "copying", "ended"}
    /\ timer \in {"off", "armed", "expired", "done"} /\ flag \in BOOLEAN
    /\ pc \in {"start", "wait", "reaped", "load", "stop", "returned"}
    /\ exit \in {"none", "own", "signal", "timeout", "error"}

Init ==
    /\ secs \in Secs
    /\ main = "none" /\ desc = "none"
    /\ emitted = <<>> /\ pipe = <<>>
    /\ kept = <<>> /\ dropped = 0
    /\ scan = <<>> /\ fired = FALSE
    /\ copier = "none"
    /\ timer = "off" /\ flag = FALSE
    /\ pc = "start" /\ exit = "none"

------------------------------------------------------------------------------
\* The command and its descendant.

Grouped == {"group", "quiet"}

\* Whoever may still write into the pipe.
Writing == main = "running" \/ desc \in {"group", "escaped"}

PutOut == /\ Writing /\ Len(emitted) < MaxOut
          /\ \E t \in Token : /\ emitted' = Append(emitted, t)
                              /\ pipe' = Append(pipe, t)
          /\ UNCHANGED <<secs, main, desc, kept, dropped, scan, fired, copier,
                         timeVars, pc, exit>>

Others == UNCHANGED <<secs, emitted, copyVars, timeVars, pc, exit>>

Fork == /\ main = "running" /\ desc = "none"
        /\ desc' = "group" /\ UNCHANGED main
        /\ Others

\* setsid, or the output redirected, or both, or the end.
DescLeaves == /\ \/ desc = "group" /\ desc' \in {"quiet", "escaped"}
                 \/ desc \in Grouped \cup {"escaped"} /\ desc' = "gone"
              /\ UNCHANGED main
              /\ Others

MainExits == /\ main = "running"
             /\ main' = "exited" /\ UNCHANGED desc
             /\ Others

------------------------------------------------------------------------------
\* startBounded.

\* execTimeout
Timed == secs >= 0

Start == /\ pc = "start"
         /\ main' = "running" /\ copier' = "copying"
         /\ timer' = IF Timed THEN "armed" ELSE "off"
         /\ pc' = "wait"
         /\ UNCHANGED <<secs, desc, emitted, pipe, kept, dropped, scan, fired,
                        flag, exit>>

StartFails == /\ pc = "start"
              /\ exit' = "error" /\ pc' = "returned"
              /\ UNCHANGED <<secs, procVars, copyVars, timeVars>>

\* Mutation: the timer kills and does not set the flag.
ExpireKills == /\ timer = "armed"
               /\ main' = IF main = "running" THEN "killed" ELSE main
               /\ timer' = "expired"
               /\ UNCHANGED <<secs, desc, emitted, copyVars, flag, pc, exit>>

\* The time is up: the flag first...
Expire == /\ timer = "armed"
          /\ flag' = TRUE /\ timer' = "expired"
          /\ UNCHANGED <<secs, procVars, copyVars, pc, exit>>

\* Mutation: kill(pid) instead of kill(-pid).
KillLeader == /\ timer = "expired"
              /\ main' = IF main = "running" THEN "killed" ELSE main
              /\ timer' = "done"
              /\ UNCHANGED <<secs, desc, emitted, copyVars, flag, pc, exit>>

\* ...then SIGKILL to the whole group. It may be gone by now.
KillGroup == /\ timer = "expired"
             /\ main' = IF main = "running" THEN "killed" ELSE main
             /\ desc' = IF desc \in Grouped THEN "gone" ELSE desc
             /\ timer' = "done"
             /\ UNCHANGED <<secs, emitted, copyVars, flag, pc, exit>>

------------------------------------------------------------------------------
\* The output.

Least(m, n) == IF m < n THEN m ELSE n

\* cappedWriter.Write
CappedWrite(chunk) ==
    LET n == Least(CapBytes - Len(kept), Len(chunk)) IN
    /\ kept' = kept \o SubSeq(chunk, 1, n)
    /\ dropped' = dropped + Len(chunk) - n

\* ExtractAuthURL: a link with a challenge query.
HasChallenge(text) ==
    \E i, j \in DOMAIN text :
        /\ i < j /\ text[i] = Url /\ text[j] = Query
        /\ \A k \in i..j : text[k] # Space

Last(text, n) == SubSeq(text, Len(text) - Least(n, Len(text)) + 1, Len(text))

\* Mutation: the buffer is trimmed before it is scanned.
ScanTrimmed(chunk) ==
    /\ scan' = Last(scan \o chunk, Window)
    /\ fired' = (fired \/ HasChallenge(scan'))

\* challengeWriter.Write: the buffer is scanned, then trimmed; after the first
\* link neither is done any more.
Scan(chunk) ==
    LET text == scan \o chunk IN
    /\ scan' = IF fired THEN text ELSE Last(text, Window)
    /\ fired' = (fired \/ HasChallenge(text))

Copy == /\ copier = "copying" /\ pipe # <<>>
        /\ \E n \in DOMAIN pipe :
              /\ CappedWrite(SubSeq(pipe, 1, n))
              /\ Scan(SubSeq(pipe, 1, n))
              /\ pipe' = SubSeq(pipe, n + 1, Len(pipe))
        /\ UNCHANGED <<secs, procVars, copier, timeVars, pc, exit>>

CopyEnds == /\ copier = "copying" /\ pipe = <<>> /\ ~Writing
            /\ copier' = "ended"
            /\ UNCHANGED <<secs, procVars, pipe, kept, dropped, scan, fired,
                           timeVars, pc, exit>>

------------------------------------------------------------------------------
\* runBounded: Wait reaps the command, then waits for the copier.

Reap == /\ pc = "wait" /\ main \in {"exited", "killed"}
        /\ pc' = "reaped"
        /\ UNCHANGED <<secs, procVars, copyVars, timeVars, exit>>

\* Mutation: Wait does not wait for the copier.
JoinAtOnce == /\ pc = "reaped"
              /\ pc' = "load"
              /\ UNCHANGED <<secs, procVars, copyVars, timeVars, exit>>

JoinCopier == /\ pc = "reaped" /\ copier = "ended"
              /\ pc' = "load"
              /\ UNCHANGED <<secs, procVars, copyVars, timeVars, exit>>

\* flag.Load, and the exit runCmdBounded makes of it.
LoadFlag == /\ pc = "load"
            /\ exit' = IF flag THEN "timeout"
                       ELSE IF main = "killed" THEN "signal" ELSE "own"
            /\ pc' = "stop"
            /\ UNCHANGED <<secs, procVars, copyVars, timeVars>>

\* The deferred stop; a timer that has fired goes on.
StopTimer == /\ pc = "stop"
             /\ timer' = IF timer = "armed" THEN "off" ELSE timer
             /\ pc' = "returned"
             /\ UNCHANGED <<secs, procVars, copyVars, flag, exit>>

------------------------------------------------------------------------------

Runner == Start \/ StartFails \/ Reap \/ JoinCopier \/ LoadFlag \/ StopTimer
Copier == Copy \/ CopyEnds
Timer  == Expire \/ KillGroup
Procs  == PutOut \/ Fork \/ DescLeaves \/ MainExits

Next == Runner \/ Copier \/ Timer \/ Procs

\* The goroutines, the timer and the kernel do their part; nothing makes the
\* command or its descendant put out anything or come to an end.
Spec == Init /\ [][Next]_vars
        /\ WF_vars(Runner) /\ WF_vars(Copier) /\ WF_vars(Timer)

------------------------------------------------------------------------------
\* Properties.

\* A command the timer has killed is never reported with an exit of its own,
\* nor as the victim of some signal, although the result is read from a flag
\* and an exit status that change one after the other.
KillIsReported ==
    pc = "returned" /\ main = "killed" => exit = "timeout"

\* What is returned accounts for every token anybody wrote: the first
\* CapBytes, in order, and the count of all the others.
OutputAccounted ==
    pc = "returned" /\ exit # "error" =>
       /\ kept = SubSeq(emitted, 1, Least(CapBytes, Len(emitted)))
       /\ Len(kept) + dropped = Len(emitted)

\* However the output was cut into chunks, however much of it was dropped,
\* and whatever came before: a challenge no longer than the window is found.
ChallengeFound ==
    \A i, j \in DOMAIN emitted :
        /\ pc = "returned" /\ i < j /\ j - i < Window
        /\ HasChallenge(SubSeq(emitted, i, j))
        => fired

\* With a timeout the call returns, whatever the command and what it leaves
\* behind in its group do; only a descendant that took the pipe into another
\* session can hold it up.
ReturnsInTime ==
    (pc # "start" /\ Timed) ~> (pc = "returned" \/ desc = "escaped")

==============================================================================
