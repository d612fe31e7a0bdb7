---------------------------- MODULE ExecBounds_proofs ----------------------------
(***************************************************************************)
(* Proofs about a bounded execution, for any ceiling, window, timeout and  *)
(* amount of output, in chunks of any size.                                *)
(***************************************************************************)
EXTENDS ExecBounds, SequenceTheorems, TLAPS

------------------------------------------------------------------------------
\* Parts of a text.

LEMMA LeastIs ==
  ASSUME NEW m \in Nat, NEW n \in Nat
  PROVE  /\ Least(m, n) \in Nat /\ Least(m, n) <= m /\ Least(m, n) <= n
         /\ Least(m, n) = m \/ Least(m, n) = n
  BY DEF Least

\* Positions in a window that ends c behind d.
LEMMA Positions ==
  ASSUME NEW d \in Nat, NEW s \in Nat, NEW c \in Nat, NEW l \in Nat
  PROVE  /\ \A k \in Nat : d - s + (s + c - l + k) = d + c - l + k
         /\ \A i, j \in Nat : j <= d + c => j - i + 1 + (i - 1 - (d - s)) <= s + c
  OBVIOUS

LEMMA PartIs ==
  ASSUME NEW s \in Seq(Token), NEW m \in Nat \ {0}, NEW n \in Nat,
         n <= Len(s), m <= n + 1
  PROVE  /\ SubSeq(s, m, n) \in Seq(Token)
         /\ Len(SubSeq(s, m, n)) = n - m + 1
         /\ \A k \in 1..(n - m + 1) : SubSeq(s, m, n)[k] = s[m + k - 1]
<1>1. \A k \in m..n : s[k] \in Token
      BY ElementOfSeq
<1>2. m \in Int /\ n \in Int
      OBVIOUS
<1>3. /\ SubSeq(s, m, n) \in Seq(Token)
      /\ Len(SubSeq(s, m, n)) = IF m <= n THEN n - m + 1 ELSE 0
      /\ \A k \in 1..(n - m + 1) : SubSeq(s, m, n)[k] = s[m + k - 1]
      BY <1>1, <1>2, SubSeqProperties
<1> QED BY <1>3

LEMMA JoinIs ==
  ASSUME NEW s \in Seq(Token), NEW t \in Seq(Token)
  PROVE  /\ s \o t \in Seq(Token) /\ Len(s \o t) = Len(s) + Len(t)
         /\ \A k \in 1..Len(s) : (s \o t)[k] = s[k]
         /\ \A k \in 1..Len(t) : (s \o t)[Len(s) + k] = t[k]
<1>1. /\ s \o t \in Seq(Token) /\ Len(s \o t) = Len(s) + Len(t)
      /\ \A i \in 1..(Len(s) + Len(t)) :
            (s \o t)[i] = IF i <= Len(s) THEN s[i] ELSE t[i - Len(s)]
      BY ConcatProperties
<1>2. Len(s) \in Nat /\ Len(t) \in Nat
      OBVIOUS
<1>3. \A k \in 1..Len(s) : (s \o t)[k] = s[k]
      BY <1>1, <1>2
<1>4. ASSUME NEW k \in 1..Len(t) PROVE (s \o t)[Len(s) + k] = t[k]
  <2>1. Len(s) + k \in 1..(Len(s) + Len(t)) /\ ~(Len(s) + k <= Len(s))
        /\ (Len(s) + k) - Len(s) = k
        BY <1>2
  <2> QED BY <1>1, <2>1
<1> QED BY <1>1, <1>3, <1>4

\* The end of a text.
LEMMA LastIs ==
  ASSUME NEW text \in Seq(Token), NEW w \in Nat
  PROVE  /\ Last(text, w) \in Seq(Token)
         /\ Len(Last(text, w)) = Least(w, Len(text))
         /\ \A k \in 1..Len(Last(text, w)) :
               Last(text, w)[k] = text[Len(text) - Len(Last(text, w)) + k]
<1> DEFINE n == Len(text)
           l == Least(w, n)
<1>0. n \in Nat
      OBVIOUS
<1>1. n \in Nat /\ l \in Nat /\ l <= n
      BY <1>0, LeastIs
<1>2. n - l + 1 \in Nat \ {0} /\ n - l + 1 <= n + 1 /\ n <= Len(text)
      BY <1>1
<1> HIDE DEF l
<1>3. /\ Last(text, w) \in Seq(Token)
      /\ Len(Last(text, w)) = n - (n - l + 1) + 1
      /\ \A k \in 1..(n - (n - l + 1) + 1) :
            Last(text, w)[k] = text[(n - l + 1) + k - 1]
      BY <1>1, <1>2, PartIs DEF Last, l
<1>4. n - (n - l + 1) + 1 = l /\ \A k \in 1..l : (n - l + 1) + k - 1 = n - l + k
      BY <1>1
<1> QED BY <1>3, <1>4 DEF l

\* A part that has a challenge makes the text have one.
LEMMA PartChallenge ==
  ASSUME NEW s \in Seq(Token), NEW t \in Seq(Token), NEW o \in Nat,
         Len(s) + o <= Len(t),
         \A k \in 1..Len(s) : s[k] = t[o + k],
         HasChallenge(s)
  PROVE  HasChallenge(t)
<1>1. /\ Len(s) \in Nat /\ Len(t) \in Nat
      /\ DOMAIN s = 1..Len(s) /\ DOMAIN t = 1..Len(t)
      OBVIOUS
<1>2. PICK i \in 1..Len(s), j \in 1..Len(s) :
        /\ i < j /\ s[i] = Url /\ s[j] = Query
        /\ \A k \in i..j : s[k] # Space
      BY <1>1 DEF HasChallenge
<1>3. /\ o + i \in DOMAIN t /\ o + j \in DOMAIN t /\ o + i < o + j
      /\ t[o + i] = Url /\ t[o + j] = Query
      BY <1>1, <1>2
<1>4. ASSUME NEW k \in (o + i)..(o + j) PROVE t[k] # Space
  <2>1. k - o \in i..j /\ k - o \in 1..Len(s) /\ o + (k - o) = k
        BY <1>1, <1>2
  <2> QED BY <1>2, <2>1
<1> QED BY <1>3, <1>4 DEF HasChallenge

------------------------------------------------------------------------------
\* What one read of the pipe does.

LEMMA CopyEffect ==
  ASSUME TypeOK, NEW c \in DOMAIN pipe, CappedWrite(SubSeq(pipe, 1, c)),
         Scan(SubSeq(pipe, 1, c)), pipe' = SubSeq(pipe, c + 1, Len(pipe))
  PROVE  /\ c \in 1..Len(pipe)
         /\ pipe' \in Seq(Token) /\ Len(pipe') = Len(pipe) - c
         /\ \A k \in 1..Len(pipe') : pipe'[k] = pipe[c + k]
         /\ kept' \in Seq(Token)
         /\ Len(kept') = Least(CapBytes, Len(kept) + c)
         /\ \A k \in 1..Len(kept) : kept'[k] = kept[k]
         /\ \A k \in 1..(Len(kept') - Len(kept)) : kept'[Len(kept) + k] = pipe[k]
         /\ dropped' = dropped + (Len(kept) + c - Len(kept'))
         /\ \E text \in Seq(Token) :
               /\ Len(text) = Len(scan) + c
               /\ \A k \in 1..Len(scan) : text[k] = scan[k]
               /\ \A k \in 1..c : text[Len(scan) + k] = pipe[k]
               /\ fired' = (fired \/ HasChallenge(text))
               /\ scan' = IF fired THEN text ELSE Last(text, Window)
<1> DEFINE chunk == SubSeq(pipe, 1, c)
           m == Least(CapBytes - Len(kept), c)
<1>0. /\ Len(pipe) \in Nat /\ Len(kept) \in Nat /\ Len(scan) \in Nat
      /\ CapBytes \in Nat /\ Len(kept) <= CapBytes
      /\ pipe \in Seq(Token) /\ kept \in Seq(Token) /\ scan \in Seq(Token)
      /\ dropped \in Nat
      BY BoundsAssumption DEF TypeOK, BoundsAssumption
<1>1. c \in 1..Len(pipe)
      BY <1>0
<1>2. /\ chunk \in Seq(Token) /\ Len(chunk) = c
      /\ \A k \in 1..c : chunk[k] = pipe[k]
      BY <1>0, <1>1, PartIs
<1>3. /\ pipe' \in Seq(Token) /\ Len(pipe') = Len(pipe) - c
      /\ \A k \in 1..(Len(pipe) - c) : pipe'[k] = pipe[c + k]
  <2>1. /\ SubSeq(pipe, c + 1, Len(pipe)) \in Seq(Token)
        /\ Len(SubSeq(pipe, c + 1, Len(pipe))) = Len(pipe) - (c + 1) + 1
        /\ \A k \in 1..(Len(pipe) - (c + 1) + 1) :
              SubSeq(pipe, c + 1, Len(pipe))[k] = pipe[(c + 1) + k - 1]
        BY <1>0, <1>1, PartIs, SMTT(60)
  <2>2. /\ Len(pipe) - (c + 1) + 1 = Len(pipe) - c
        /\ \A k \in 1..(Len(pipe) - c) : (c + 1) + k - 1 = c + k
        BY <1>0, <1>1
  <2> QED BY <2>1, <2>2
<1>4. /\ m \in Nat /\ m <= c /\ m <= CapBytes - Len(kept)
      /\ Len(kept) + m = Least(CapBytes, Len(kept) + c)
      BY <1>0, <1>1 DEF Least
<1> HIDE DEF chunk, m
<1>5. /\ kept' = kept \o SubSeq(chunk, 1, m)
      /\ dropped' = dropped + c - m
      BY <1>2 DEF CappedWrite, chunk, m
<1>6. /\ SubSeq(chunk, 1, m) \in Seq(Token) /\ Len(SubSeq(chunk, 1, m)) = m
      /\ \A k \in 1..m : SubSeq(chunk, 1, m)[k] = pipe[k]
  <2>1. /\ SubSeq(chunk, 1, m) \in Seq(Token)
        /\ Len(SubSeq(chunk, 1, m)) = m - 1 + 1
        /\ \A k \in 1..(m - 1 + 1) : SubSeq(chunk, 1, m)[k] = chunk[1 + k - 1]
        BY <1>2, <1>4, PartIs
  <2>2. m - 1 + 1 = m /\ \A k \in 1..m : 1 + k - 1 = k /\ k \in 1..c
        BY <1>1, <1>4
  <2> QED BY <1>2, <2>1, <2>2
<1>7. /\ kept' \in Seq(Token) /\ Len(kept') = Len(kept) + m
      /\ \A k \in 1..Len(kept) : kept'[k] = kept[k]
      /\ \A k \in 1..m : kept'[Len(kept) + k] = pipe[k]
  <2> DEFINE piece == SubSeq(chunk, 1, m)
  <2>1. kept' = kept \o piece /\ piece \in Seq(Token) /\ Len(piece) = m
        /\ \A k \in 1..m : piece[k] = pipe[k]
        BY <1>5, <1>6
  <2> HIDE DEF piece
  <2> QED BY <1>0, <2>1, JoinIs
<1>8. dropped' = dropped + (Len(kept) + c - Len(kept'))
      /\ Len(kept') - Len(kept) = m
  <2>1. Len(kept) + c - (Len(kept) + m) = c - m /\ Len(kept) + m - Len(kept) = m
        /\ dropped + c - m = dropped + (c - m)
        BY <1>0, <1>1, <1>4
  <2> QED BY <1>5, <1>7, <2>1
<1>9. /\ scan \o chunk \in Seq(Token)
      /\ Len(scan \o chunk) = Len(scan) + c
      /\ \A k \in 1..Len(scan) : (scan \o chunk)[k] = scan[k]
      /\ \A k \in 1..c : (scan \o chunk)[Len(scan) + k] = pipe[k]
      BY <1>0, <1>2, JoinIs
<1>10. /\ fired' = (fired \/ HasChallenge(scan \o chunk))
       /\ scan' = IF fired THEN scan \o chunk ELSE Last(scan \o chunk, Window)
       BY Zenon DEF Scan, chunk
<1> HIDE DEF chunk
<1>11. \E text \in Seq(Token) :
         /\ Len(text) = Len(scan) + c
         /\ \A k \in 1..Len(scan) : text[k] = scan[k]
         /\ \A k \in 1..c : text[Len(scan) + k] = pipe[k]
         /\ fired' = (fired \/ HasChallenge(text))
         /\ scan' = IF fired THEN text ELSE Last(text, Window)
       BY <1>9, <1>10, Zenon
<1> QED BY <1>1, <1>3, <1>4, <1>7, <1>8, <1>11

------------------------------------------------------------------------------
\* Types.

LEMMA TypeInit == Init => TypeOK
<1> SUFFICES ASSUME Init PROVE TypeOK
    OBVIOUS
<1>1. /\ emitted \in Seq(Token) /\ Len(emitted) <= MaxOut /\ pipe \in Seq(Token)
      /\ kept \in Seq(Token) /\ Len(kept) <= CapBytes /\ scan \in Seq(Token)
      BY BoundsAssumption DEF Init, BoundsAssumption
<1> QED BY <1>1 DEF Init, TypeOK

LEMMA TypeNext == TypeOK /\ [Next]_vars => TypeOK'
<1> SUFFICES ASSUME TypeOK, [Next]_vars PROVE TypeOK'
    OBVIOUS
<1> USE DEF procVars, copyVars, timeVars
<1>1. CASE Start \/ StartFails \/ Reap \/ JoinCopier
      BY <1>1 DEF Start, StartFails, Reap, JoinCopier, TypeOK
<1>2. CASE LoadFlag \/ StopTimer
      BY <1>2 DEF LoadFlag, StopTimer, TypeOK
<1>3. CASE Copy
  <2>1. PICK c \in DOMAIN pipe :
          /\ CappedWrite(SubSeq(pipe, 1, c)) /\ Scan(SubSeq(pipe, 1, c))
          /\ pipe' = SubSeq(pipe, c + 1, Len(pipe))
        BY <1>3 DEF Copy
  <2>2. /\ pipe' \in Seq(Token) /\ kept' \in Seq(Token)
        /\ Len(kept') = Least(CapBytes, Len(kept) + c)
        /\ dropped' = dropped + (Len(kept) + c - Len(kept'))
        /\ c \in 1..Len(pipe)
        BY <2>1, CopyEffect
  <2>3. PICK text \in Seq(Token) :
          /\ fired' = (fired \/ HasChallenge(text))
          /\ scan' = IF fired THEN text ELSE Last(text, Window)
        BY <2>1, CopyEffect
  <2>4. Len(kept) \in Nat /\ CapBytes \in Nat /\ dropped \in Nat
        BY BoundsAssumption DEF TypeOK, BoundsAssumption
  <2>5. Len(kept') <= CapBytes /\ dropped' \in Nat
    <3>1. c \in Nat /\ Len(kept) + c \in Nat
          BY <2>2, <2>4, SMTT(60)
    <3>2. /\ Least(CapBytes, Len(kept) + c) \in Nat
          /\ Least(CapBytes, Len(kept) + c) <= CapBytes
          /\ Least(CapBytes, Len(kept) + c) <= Len(kept) + c
          BY <2>4, <3>1, LeastIs
    <3> QED BY <2>2, <2>4, <3>1, <3>2, SMTT(60)
  <2>6. scan' \in Seq(Token)
        BY <2>3, LastIs, BoundsAssumption DEF BoundsAssumption
  <2>7. fired' \in BOOLEAN
        BY <2>3, Zenon DEF TypeOK, HasChallenge
  <2> QED BY <1>3, <2>2, <2>5, <2>6, <2>7 DEF Copy, TypeOK
<1>4. CASE CopyEnds
      BY <1>4 DEF CopyEnds, TypeOK
<1>5. CASE Timer
      BY <1>5, ZenonT(60) DEF Timer, Expire, KillGroup, TypeOK
<1>6. CASE PutOut
  <2>1. PICK t \in Token : emitted' = Append(emitted, t) /\ pipe' = Append(pipe, t)
        BY <1>6 DEF PutOut
  <2>2. emitted' \in Seq(Token) /\ pipe' \in Seq(Token)
        /\ Len(emitted') = Len(emitted) + 1
        BY <2>1 DEF TypeOK
  <2>3. Len(emitted') <= MaxOut
        BY <1>6, <2>2, BoundsAssumption DEF PutOut, TypeOK, BoundsAssumption
  <2> QED BY <1>6, <2>2, <2>3 DEF PutOut, TypeOK
<1>7. CASE Fork \/ DescLeaves \/ MainExits
      BY <1>7 DEF Fork, DescLeaves, MainExits, Others, Grouped, TypeOK
<1>8. CASE UNCHANGED vars
      BY <1>8 DEF vars, TypeOK
<1> QED BY <1>1, <1>2, <1>3, <1>4, <1>5, <1>6, <1>7, <1>8
        DEF Next, Runner, Copier, Timer, Procs

\* What runBounded and its writers keep stays in its type, and what it keeps
\* of the output within the ceiling.
THEOREM TypeCorrect == Spec => []TypeOK
  BY TypeInit, TypeNext, PTL DEF Spec

------------------------------------------------------------------------------
\* The runner, the timer and the command.

\* Where runBounded stands, what it knows is final: the command is reaped, the
\* pipe empty and closed, and whoever was killed was killed behind the flag.
RunInv ==
  /\ pc = "start" => main = "none" /\ exit = "none"
  /\ pc \in {"start", "returned"} /\ main = "none" =>
        desc = "none" /\ emitted = <<>> /\ copier = "none" /\ pipe = <<>>
  /\ pc \in {"reaped", "load", "stop"} => main \in {"exited", "killed"}
  /\ pc = "returned" => main # "running" /\ (exit # "error" => main # "none")
  /\ exit = "error" => pc = "returned" /\ main = "none"
  /\ timer \in {"expired", "done"} \/ main = "killed" => flag
  /\ pc \in {"stop", "returned"} /\ main = "killed" => exit = "timeout"
  /\ copier = "ended" => pipe = <<>> /\ ~Writing
  /\ pc \in {"load", "stop"} \/ (pc = "returned" /\ main # "none") => copier = "ended"

LEMMA RunInit == Init => RunInv
  BY DEF Init, RunInv

LEMMA RunNext == TypeOK /\ RunInv /\ [Next]_vars => RunInv'
<1> SUFFICES ASSUME TypeOK, RunInv, [Next]_vars PROVE RunInv'
    OBVIOUS
<1> USE DEF RunInv, Writing, procVars, copyVars, timeVars
<1>1. CASE Start
      BY <1>1 DEF Start
<1>2. CASE StartFails
      BY <1>2 DEF StartFails
<1>3. CASE Reap
      BY <1>3 DEF Reap
<1>4. CASE JoinCopier
      BY <1>4 DEF JoinCopier
<1>5. CASE LoadFlag
      BY <1>5 DEF LoadFlag
<1>6. CASE StopTimer
      BY <1>6 DEF StopTimer
<1>7. CASE Copy
      BY <1>7 DEF Copy
<1>8. CASE CopyEnds
      BY <1>8 DEF CopyEnds
<1>9. CASE Expire
      BY <1>9 DEF Expire
<1>10. CASE KillGroup
      BY <1>10 DEF KillGroup, Grouped
<1>11. CASE PutOut
      BY <1>11 DEF PutOut
<1>12. CASE Fork
      BY <1>12 DEF Fork, Others
<1>13. CASE DescLeaves
      BY <1>13 DEF DescLeaves, Others, Grouped
<1>14. CASE MainExits
      BY <1>14 DEF MainExits, Others
<1>15. CASE UNCHANGED vars
      BY <1>15 DEF vars
<1> QED BY <1>1, <1>2, <1>3, <1>4, <1>5, <1>6, <1>7, <1>8, <1>9, <1>10, <1>11,
        <1>12, <1>13, <1>14, <1>15 DEF Next, Runner, Copier, Timer, Procs

\* A command that the timer of startBounded has killed is reported as timed
\* out, in whatever order the kill, the exit and the result's two halves come.
THEOREM KillReported == Spec => []KillIsReported
<1>1. RunInv => KillIsReported
      BY DEF RunInv, KillIsReported
<1> QED BY <1>1, TypeInit, TypeNext, RunInit, RunNext, PTL DEF Spec

------------------------------------------------------------------------------
\* The output.

\* How much of it was read.
Done == Len(emitted) - Len(pipe)

PipeInv == /\ Len(pipe) <= Len(emitted)
           /\ \A k \in 1..Len(pipe) : pipe[k] = emitted[Done + k]

KeptInv == /\ Len(kept) = Least(CapBytes, Done)
           /\ \A k \in 1..Len(kept) : kept[k] = emitted[k]
           /\ Len(kept) + dropped = Done

\* Until something is found, the buffer is the last window of what was read...
ScanInv == ~fired =>
             /\ Len(scan) = Least(Window, Done)
             /\ \A k \in 1..Len(scan) : scan[k] = emitted[Done - Len(scan) + k]

\* ...and nothing that fits the window was missed.
NoneMissed == ~fired =>
                \A i, j \in 1..Done : i < j /\ j - i < Window =>
                   ~HasChallenge(SubSeq(emitted, i, j))

OutInv == PipeInv /\ KeptInv /\ ScanInv /\ NoneMissed

LEMMA OutInit == Init => OutInv
<1> SUFFICES ASSUME Init PROVE OutInv
    OBVIOUS
<1>1. Len(emitted) = 0 /\ Len(pipe) = 0 /\ Len(kept) = 0 /\ Len(scan) = 0
      /\ dropped = 0 /\ Done = 0
      BY DEF Init, Done
<1>2. Least(CapBytes, 0) = 0 /\ Least(Window, 0) = 0
      BY BoundsAssumption DEF BoundsAssumption, Least
<1> QED BY <1>1, <1>2 DEF OutInv, PipeInv, KeptInv, ScanInv, NoneMissed

LEMMA Lengths ==
  ASSUME TypeOK
  PROVE  /\ Len(emitted) \in Nat /\ Len(pipe) \in Nat /\ Len(kept) \in Nat
         /\ Len(scan) \in Nat /\ dropped \in Nat
         /\ CapBytes \in Nat /\ Window \in Nat \ {0}
         /\ emitted \in Seq(Token) /\ pipe \in Seq(Token)
         /\ kept \in Seq(Token) /\ scan \in Seq(Token)
  BY BoundsAssumption DEF TypeOK, BoundsAssumption

\* New output waits in the pipe.
LEMMA OutPutOut == ASSUME TypeOK, OutInv, PutOut PROVE OutInv'
<1>1. PICK t \in Token : emitted' = Append(emitted, t) /\ pipe' = Append(pipe, t)
      BY DEF PutOut
<1>2. UNCHANGED <<kept, dropped, scan, fired>>
      BY DEF PutOut
<1>3. /\ emitted' \in Seq(Token) /\ Len(emitted') = Len(emitted) + 1
      /\ \A k \in 1..Len(emitted) : emitted'[k] = emitted[k]
      /\ emitted'[Len(emitted) + 1] = t
      /\ Len(pipe') = Len(pipe) + 1
      /\ \A k \in 1..Len(pipe) : pipe'[k] = pipe[k]
      /\ pipe'[Len(pipe) + 1] = t
      BY <1>1, Lengths
<1>4. Done' = Done /\ Done \in Nat /\ Done <= Len(emitted)
      /\ Done + Len(pipe) = Len(emitted)
      BY <1>3, Lengths DEF Done, OutInv, PipeInv
<1>5. PipeInv'
  <2>1. ASSUME NEW k \in 1..Len(pipe) PROVE pipe'[k] = emitted'[Done + k]
    <3>1. pipe'[k] = emitted[Done + k]
          BY <1>3 DEF OutInv, PipeInv
    <3>2. Done + k \in 1..Len(emitted)
          BY <1>4, Lengths
    <3> QED BY <1>3, <3>1, <3>2
  <2>2. pipe'[Len(pipe) + 1] = emitted'[Done + (Len(pipe) + 1)]
        BY <1>3, <1>4, Lengths
  <2>3. \A k \in 1..(Len(pipe) + 1) : k \in 1..Len(pipe) \/ k = Len(pipe) + 1
        BY Lengths
  <2>4. Len(pipe') <= Len(emitted')
        BY <1>3, <1>4, Lengths
  <2> QED BY <1>3, <1>4, <2>1, <2>2, <2>3, <2>4 DEF PipeInv
<1>6. KeptInv'
  <2>1. Len(kept) <= Done
        BY <1>4, LeastIs, Lengths DEF OutInv, KeptInv
  <2>2. \A k \in 1..Len(kept) : k \in 1..Len(emitted)
        BY <1>4, <2>1, Lengths
  <2> QED BY <1>2, <1>3, <1>4, <2>2 DEF OutInv, KeptInv
<1>7. ScanInv'
  <2> SUFFICES ASSUME ~fired
               PROVE /\ Len(scan) = Least(Window, Done)
                     /\ \A k \in 1..Len(scan) : scan[k] = emitted'[Done - Len(scan) + k]
      BY <1>2, <1>4 DEF ScanInv
  <2>1. /\ Len(scan) = Least(Window, Done)
        /\ \A k \in 1..Len(scan) : scan[k] = emitted[Done - Len(scan) + k]
        BY DEF OutInv, ScanInv
  <2>2. Len(scan) <= Done
        BY <1>4, <2>1, LeastIs, Lengths
  <2>3. \A k \in 1..Len(scan) : Done - Len(scan) + k \in 1..Len(emitted)
        BY <1>4, <2>2, Lengths
  <2> QED BY <1>3, <2>1, <2>3
<1>8. NoneMissed'
  <2> SUFFICES ASSUME ~fired, NEW i \in 1..Done, NEW j \in 1..Done, i < j,
                      j - i < Window, HasChallenge(SubSeq(emitted', i, j))
               PROVE  FALSE
      BY <1>2, <1>4 DEF NoneMissed
  <2> DEFINE new == SubSeq(emitted', i, j)
             old == SubSeq(emitted, i, j)
  <2>1. i \in Nat \ {0} /\ j \in Nat /\ j <= Len(emitted) /\ i <= j + 1
        /\ j <= Len(emitted') /\ emitted' \in Seq(Token) /\ emitted \in Seq(Token)
        BY <1>3, <1>4, Lengths
  <2>2. /\ new \in Seq(Token) /\ Len(new) = j - i + 1
        /\ \A k \in 1..(j - i + 1) : new[k] = emitted'[i + k - 1]
        BY <2>1, PartIs
  <2>3. /\ old \in Seq(Token) /\ Len(old) = j - i + 1
        /\ \A k \in 1..(j - i + 1) : old[k] = emitted[i + k - 1]
        BY <2>1, PartIs
  <2>4. \A k \in 1..(j - i + 1) : i + k - 1 \in 1..Len(emitted)
        BY <2>1
  <2>5. HasChallenge(new)
        OBVIOUS
  <2> HIDE DEF new, old
  <2>6. ASSUME NEW k \in 1..Len(new) PROVE new[k] = old[0 + k]
    <3>1. k \in 1..(j - i + 1)
          BY <2>2
    <3>2. i + k - 1 \in 1..Len(emitted) /\ 0 + k = k
          BY <2>4, <3>1
    <3>3. new[k] = emitted'[i + k - 1] /\ old[k] = emitted[i + k - 1]
          BY <2>2, <2>3, <3>1
    <3> QED BY <1>3, <3>2, <3>3
  <2>7. Len(new) + 0 <= Len(old)
        BY <2>1, <2>2, <2>3
  <2>8. HasChallenge(old)
        BY <2>2, <2>3, <2>5, <2>6, <2>7, PartChallenge
  <2> QED BY <2>8 DEF OutInv, NoneMissed, old
<1> QED BY <1>5, <1>6, <1>7, <1>8 DEF OutInv

\* What was read, after a read of c more.
LEMMA CopyCounts ==
  ASSUME TypeOK, PipeInv, Copy, NEW c \in 1..Len(pipe), Len(pipe') = Len(pipe) - c
  PROVE  /\ c \in Nat \ {0} /\ Done \in Nat /\ Done + c \in Nat
         /\ Done' = Done + c /\ Done + Len(pipe) = Len(emitted)
         /\ Done + c <= Len(emitted) /\ emitted' = emitted
         /\ Len(pipe) \in Nat /\ c <= Len(pipe)
<1>1. emitted' = emitted
      BY DEF Copy, procVars
<1>2. /\ Len(emitted) \in Nat /\ Len(pipe) \in Nat /\ Len(pipe) <= Len(emitted)
      /\ c \in Nat \ {0} /\ c <= Len(pipe)
      BY Lengths DEF PipeInv
<1>3. Done' = Len(emitted) - (Len(pipe) - c)
      BY <1>1 DEF Done
<1> QED BY <1>1, <1>2, <1>3 DEF Done

\* A read leaves the rest of the pipe...
LEMMA CopyPipe ==
  ASSUME TypeOK, PipeInv, Copy PROVE PipeInv'
<1>1. PICK c \in DOMAIN pipe :
        /\ CappedWrite(SubSeq(pipe, 1, c)) /\ Scan(SubSeq(pipe, 1, c))
        /\ pipe' = SubSeq(pipe, c + 1, Len(pipe))
      BY DEF Copy
<1>2. /\ c \in 1..Len(pipe) /\ Len(pipe') = Len(pipe) - c
      /\ \A k \in 1..Len(pipe') : pipe'[k] = pipe[c + k]
      BY <1>1, CopyEffect
<1>3. /\ c \in Nat \ {0} /\ Done \in Nat /\ Done' = Done + c /\ emitted' = emitted
      /\ Len(pipe) \in Nat /\ Done + Len(pipe) = Len(emitted)
      BY <1>2, CopyCounts
<1>4. ASSUME NEW k \in 1..Len(pipe') PROVE pipe'[k] = emitted[Done' + k]
  <2>1. k \in 1..(Len(pipe) - c)
        BY <1>2
  <2>2. c + k \in 1..Len(pipe) /\ Done + (c + k) = Done + c + k
        BY <1>3, <2>1
  <2>3. pipe'[k] = pipe[c + k]
        BY <1>2
  <2>4. pipe[c + k] = emitted[Done + (c + k)]
        BY <2>2 DEF PipeInv
  <2> QED BY <1>3, <2>2, <2>3, <2>4
<1>5. Len(pipe) - c <= Done + Len(pipe)
      BY <1>3
<1>6. Len(pipe') <= Len(emitted')
      BY <1>2, <1>3, <1>5
<1> QED BY <1>3, <1>4, <1>6 DEF PipeInv

\* ...fills up what is kept and counts what is not...
LEMMA CopyKept ==
  ASSUME TypeOK, PipeInv, KeptInv, Copy PROVE KeptInv'
<1>1. PICK c \in DOMAIN pipe :
        /\ CappedWrite(SubSeq(pipe, 1, c)) /\ Scan(SubSeq(pipe, 1, c))
        /\ pipe' = SubSeq(pipe, c + 1, Len(pipe))
      BY DEF Copy
<1>2. /\ c \in 1..Len(pipe) /\ Len(pipe') = Len(pipe) - c
      /\ kept' \in Seq(Token)
      /\ Len(kept') = Least(CapBytes, Len(kept) + c)
      /\ dropped' = dropped + (Len(kept) + c - Len(kept'))
      BY <1>1, CopyEffect
<1>3. /\ \A k \in 1..Len(kept) : kept'[k] = kept[k]
      /\ \A k \in 1..(Len(kept') - Len(kept)) : kept'[Len(kept) + k] = pipe[k]
      BY <1>1, CopyEffect
<1>4. /\ c \in Nat \ {0} /\ Done \in Nat /\ Done' = Done + c /\ emitted' = emitted
      /\ Len(pipe) \in Nat /\ c <= Len(pipe)
      BY <1>2, CopyCounts
<1>5. /\ Len(kept) \in Nat /\ CapBytes \in Nat /\ dropped \in Nat
      /\ Len(kept) = Least(CapBytes, Done) /\ Len(kept) + dropped = Done
      BY Lengths DEF KeptInv
<1>6. /\ Least(CapBytes, Len(kept) + c) = Least(CapBytes, Done + c)
      /\ Least(CapBytes, Len(kept) + c) \in Nat
      /\ Least(CapBytes, Len(kept) + c) <= Len(kept) + c
      /\ Least(CapBytes, Len(kept) + c) <= Len(kept) \/ Len(kept) = Done
      BY <1>4, <1>5 DEF Least
<1>7. /\ Len(kept') = Least(CapBytes, Done') /\ Len(kept') \in Nat
      /\ Len(kept') <= Len(kept) + c
      /\ Len(kept') <= Len(kept) \/ Len(kept) = Done
      BY <1>2, <1>4, <1>6
<1>8. Len(kept') + dropped' = Done'
  <2> DEFINE l == Len(kept')
  <2>1. l \in Nat /\ dropped' = dropped + (Len(kept) + c - l)
        BY <1>2, <1>7
  <2> HIDE DEF l
  <2>2. l + (dropped + (Len(kept) + c - l)) = (Len(kept) + dropped) + c
        BY <1>4, <1>5, <2>1, SMTT(60)
  <2> QED BY <1>4, <1>5, <2>1, <2>2 DEF l
<1>9. ASSUME NEW k \in 1..Len(kept') PROVE kept'[k] = emitted[k]
  <2>1. CASE k \in 1..Len(kept)
        BY <1>3, <2>1 DEF KeptInv
  <2>2. CASE k \notin 1..Len(kept)
    <3>1. k \in Nat \ {0} /\ k <= Len(kept') /\ ~(k <= Len(kept))
          BY <1>5, <1>7, <2>2
    <3>2. Len(kept) = Done
          BY <1>5, <1>7, <3>1
    <3>3. /\ k - Done \in 1..(Len(kept') - Len(kept)) /\ k - Done <= c
          BY <1>4, <1>7, <3>1, <3>2
    <3>4. k - Done \in 1..Len(pipe) /\ Done + (k - Done) = k
          BY <1>4, <3>1, <3>3
    <3>5. kept'[Len(kept) + (k - Done)] = pipe[k - Done]
          BY <1>3, <3>3
    <3>6. pipe[k - Done] = emitted[Done + (k - Done)]
          BY <3>4 DEF PipeInv
    <3> QED BY <3>2, <3>4, <3>5, <3>6
  <2> QED BY <2>1, <2>2
<1> QED BY <1>4, <1>7, <1>8, <1>9 DEF KeptInv

\* ...and moves the window on.
LEMMA CopyScan ==
  ASSUME TypeOK, PipeInv, ScanInv, NoneMissed, Copy, ~fired
  PROVE  ScanInv' /\ NoneMissed'
<1>1. PICK c \in DOMAIN pipe :
        /\ CappedWrite(SubSeq(pipe, 1, c)) /\ Scan(SubSeq(pipe, 1, c))
        /\ pipe' = SubSeq(pipe, c + 1, Len(pipe))
      BY DEF Copy
<1>2. c \in 1..Len(pipe) /\ Len(pipe') = Len(pipe) - c
      BY <1>1, CopyEffect
<1>3. PICK text \in Seq(Token) :
        /\ Len(text) = Len(scan) + c
        /\ \A k \in 1..Len(scan) : text[k] = scan[k]
        /\ \A k \in 1..c : text[Len(scan) + k] = pipe[k]
        /\ fired' = (fired \/ HasChallenge(text))
        /\ scan' = IF fired THEN text ELSE Last(text, Window)
      BY <1>1, CopyEffect
<1>4. /\ c \in Nat \ {0} /\ Done \in Nat /\ Done' = Done + c /\ emitted' = emitted
      /\ Len(pipe) \in Nat /\ c <= Len(pipe) /\ Done + c <= Len(emitted)
      BY <1>2, CopyCounts
<1>5. /\ Len(scan) \in Nat /\ Window \in Nat \ {0}
      /\ Len(scan) = Least(Window, Done)
      /\ \A k \in 1..Len(scan) : scan[k] = emitted[Done - Len(scan) + k]
      BY Lengths DEF ScanInv
<1>6. /\ Len(scan) <= Done /\ Len(scan) <= Window
      /\ Len(scan) = Window \/ Len(scan) = Done
      BY <1>4, <1>5, LeastIs
<1>7. ASSUME NEW k \in 1..Len(text) PROVE text[k] = emitted[Done - Len(scan) + k]
  <2>0. k \in 1..(Len(scan) + c)
        BY <1>3
  <2>1. CASE k \in 1..Len(scan)
        BY <1>3, <1>5, <2>1
  <2>2. CASE k \notin 1..Len(scan)
    <3>1. /\ k - Len(scan) \in 1..c /\ k - Len(scan) \in 1..Len(pipe)
          /\ Len(scan) + (k - Len(scan)) = k
          /\ Done + (k - Len(scan)) = Done - Len(scan) + k
          BY <1>4, <1>6, <2>0, <2>2, Lengths, SMTT(60)
    <3>2. text[Len(scan) + (k - Len(scan))] = pipe[k - Len(scan)]
          BY <1>3, <3>1
    <3>3. pipe[k - Len(scan)] = emitted[Done + (k - Len(scan))]
          BY <3>1 DEF PipeInv
    <3> QED BY <3>1, <3>2, <3>3
  <2> QED BY <2>1, <2>2
<1>8. Len(text) \in Nat /\ Len(text) = Len(scan) + c
      BY <1>3
<1>9. ScanInv'
  <2>1. /\ scan' \in Seq(Token) /\ Len(scan') = Least(Window, Len(text))
        /\ \A k \in 1..Len(scan') : scan'[k] = text[Len(text) - Len(scan') + k]
        BY <1>3, <1>5, LastIs
  <2>2. Least(Window, Len(text)) = Least(Window, Done + c)
        BY <1>4, <1>5, <1>6, <1>8 DEF Least
  <2>3. Least(Window, Len(text)) \in Nat /\ Least(Window, Len(text)) <= Len(text)
        BY <1>5, <1>8, LeastIs
  <2> DEFINE l == Len(scan')
  <2>4. l \in Nat /\ l <= Len(text) /\ l = Least(Window, Done + c)
        BY <2>1, <2>2, <2>3
  <2>5. ASSUME NEW k \in 1..l PROVE scan'[k] = emitted[Done + c - l + k]
    <3>1. scan'[k] = text[Len(text) - l + k]
          BY <2>1
    <3> HIDE DEF l
    <3>2. Len(text) - l + k \in 1..Len(text)
          BY <1>8, <2>4
    <3>3. Done - Len(scan) + (Len(text) - l + k) = Done + c - l + k
      <4>1. /\ k \in Nat /\ l \in Nat /\ c \in Nat /\ Done \in Nat
            /\ Len(scan) \in Nat
            BY <1>4, <1>5, <2>4
      <4>2. Done - Len(scan) + (Len(scan) + c - l + k) = Done + c - l + k
            BY <4>1, Positions
      <4> QED BY <1>8, <4>1, <4>2
    <3>4. text[Len(text) - l + k] = emitted[Done - Len(scan) + (Len(text) - l + k)]
          BY <1>7, <3>2
    <3> QED BY <3>1, <3>3, <3>4
  <2> QED BY <1>4, <2>4, <2>5, SMTT(60) DEF ScanInv
<1>10. NoneMissed'
  <2> SUFFICES ASSUME ~fired', NEW i \in 1..(Done + c), NEW j \in 1..(Done + c),
                      i < j, j - i < Window, HasChallenge(SubSeq(emitted, i, j))
               PROVE  FALSE
      BY <1>4 DEF NoneMissed
  <2>1. ~HasChallenge(text)
        BY <1>3, Zenon
  <2>2. i \in Nat \ {0} /\ j \in Nat /\ j <= Done + c /\ j <= Len(emitted) /\ i <= j + 1
        BY <1>4, Lengths, SMTT(60)
  <2>3. CASE j <= Done
    <3>1. i \in 1..Done /\ j \in 1..Done
          BY <1>4, <2>2, <2>3
    <3> QED BY <3>1 DEF NoneMissed
  <2>4. CASE ~(j <= Done)
    <3> DEFINE part == SubSeq(emitted, i, j)
               o == i - 1 - (Done - Len(scan))
    <3>1. o \in Nat
          BY <1>4, <1>5, <1>6, <2>2, <2>4, SMTT(60)
    <3>2. j - i + 1 + o <= Len(text)
          BY <1>4, <1>5, <1>8, <2>2, Positions, SMTT(60)
    <3>3. /\ part \in Seq(Token) /\ Len(part) = j - i + 1
          /\ \A k \in 1..(j - i + 1) : part[k] = emitted[i + k - 1]
      <4>1. emitted \in Seq(Token)
            BY Lengths
      <4> QED BY <2>2, <4>1, PartIs
    <3>4. HasChallenge(part)
          OBVIOUS
    <3>5. \A k \in 1..(j - i + 1) : Done - Len(scan) + (o + k) = i + k - 1
          BY <1>4, <1>5, <2>2, SMTT(60)
    <3> HIDE DEF part, o
    <3>6. \A k \in 1..(j - i + 1) : o + k \in 1..Len(text)
          BY <1>8, <2>2, <3>1, <3>2
    <3>7. ASSUME NEW k \in 1..Len(part) PROVE part[k] = text[o + k]
      <4>1. k \in 1..(j - i + 1)
            BY <3>3
      <4>2. text[o + k] = emitted[Done - Len(scan) + (o + k)]
            BY <1>7, <3>6, <4>1
      <4>3. part[k] = emitted[i + k - 1]
            BY <3>3, <4>1
      <4> QED BY <3>5, <4>1, <4>2, <4>3
    <3>8. Len(part) + o <= Len(text)
          BY <3>2, <3>3
    <3>9. HasChallenge(text)
          BY <3>1, <3>3, <3>4, <3>7, <3>8, PartChallenge
    <3> QED BY <2>1, <3>9
  <2> QED BY <2>3, <2>4
<1> QED BY <1>9, <1>10

LEMMA OutCopy == ASSUME TypeOK, OutInv, Copy PROVE OutInv'
<1>1. PipeInv' /\ KeptInv'
      BY CopyPipe, CopyKept DEF OutInv
<1>2. CASE fired
  <2>1. fired'
        BY <1>2, Zenon DEF Copy, Scan
  <2> QED BY <1>1, <2>1 DEF OutInv, ScanInv, NoneMissed
<1>3. CASE ~fired
      BY <1>1, <1>3, CopyScan DEF OutInv
<1> QED BY <1>2, <1>3

LEMMA OutNext == TypeOK /\ OutInv /\ [Next]_vars => OutInv'
<1> SUFFICES ASSUME TypeOK, OutInv, [Next]_vars PROVE OutInv'
    OBVIOUS
<1>1. CASE PutOut \/ Copy
      BY <1>1, OutPutOut, OutCopy
<1>2. CASE ~PutOut /\ ~Copy
  <2>1. UNCHANGED <<emitted, pipe, kept, dropped, scan, fired>>
        BY <1>2 DEF Next, Runner, Copier, Timer, Procs, Start, StartFails, Reap,
           JoinCopier, LoadFlag, StopTimer, CopyEnds, Expire, KillGroup, Fork,
           DescLeaves, MainExits, Others, vars, procVars, copyVars
  <2> QED BY <2>1 DEF OutInv, PipeInv, KeptInv, ScanInv, NoneMissed, Done
<1> QED BY <1>1, <1>2

\* With a returned call everything was read.
LEMMA AllRead ==
  ASSUME TypeOK, RunInv, pc = "returned"
  PROVE  Done = Len(emitted)
<1>1. pipe = <<>>
      BY DEF RunInv
<1> QED BY <1>1, Lengths DEF Done

LEMMA OutHolds == Spec => [](TypeOK /\ RunInv /\ OutInv)
  BY TypeInit, TypeNext, RunInit, RunNext, OutInit, OutNext, PTL DEF Spec

\* cappedWriter keeps the first bytes up to its ceiling, in order, and counts
\* all the others, whatever the chunks and whoever wrote them.
THEOREM OutputKept == Spec => []OutputAccounted
<1>1. TypeOK /\ RunInv /\ OutInv => OutputAccounted
  <2> SUFFICES ASSUME TypeOK, RunInv, OutInv, pc = "returned"
               PROVE  /\ kept = SubSeq(emitted, 1, Least(CapBytes, Len(emitted)))
                      /\ Len(kept) + dropped = Len(emitted)
      BY DEF OutputAccounted
  <2>1. /\ Len(kept) = Least(CapBytes, Len(emitted))
        /\ \A k \in 1..Len(kept) : kept[k] = emitted[k]
        /\ Len(kept) + dropped = Len(emitted)
        BY AllRead DEF OutInv, KeptInv
  <2>2. Len(kept) \in Nat /\ Len(kept) <= Len(emitted)
        BY <2>1, LeastIs, Lengths
  <2> DEFINE part == SubSeq(emitted, 1, Len(kept))
  <2>3. /\ part \in Seq(Token) /\ Len(part) = Len(kept) - 1 + 1
        /\ \A k \in 1..(Len(kept) - 1 + 1) : part[k] = emitted[1 + k - 1]
        BY <2>2, PartIs, Lengths
  <2>4. Len(kept) - 1 + 1 = Len(kept) /\ \A k \in 1..Len(kept) : 1 + k - 1 = k
        BY <2>2
  <2> HIDE DEF part
  <2>5. kept = part
        BY <2>1, <2>3, <2>4, SeqEqual, Lengths
  <2> QED BY <2>1, <2>5 DEF part
<1> QED BY <1>1, OutHolds, PTL

\* challengeWriter finds a link that fits its window, however the output was
\* cut, dropped and preceded.
THEOREM ChallengeIsFound == Spec => []ChallengeFound
<1>1. TypeOK /\ RunInv /\ OutInv => ChallengeFound
  <2> SUFFICES ASSUME TypeOK, RunInv, OutInv, NEW i \in DOMAIN emitted,
                      NEW j \in DOMAIN emitted, pc = "returned", i < j, j - i < Window,
                      HasChallenge(SubSeq(emitted, i, j)), ~fired
               PROVE  FALSE
      BY DEF ChallengeFound
  <2>1. i \in 1..Done /\ j \in 1..Done
        BY AllRead, Lengths
  <2> QED BY <2>1 DEF OutInv, NoneMissed
<1> QED BY <1>1, OutHolds, PTL

------------------------------------------------------------------------------
\* The safety part of ReturnsInTime.

\* The timer has killed the group, and no descendant has left it with the pipe.
Killed == timer = "done" /\ desc # "escaped"

\* runBounded waits for nothing but what has happened, or what the copier does
\* without anybody's help.
Unhindered == \/ pc = "wait" /\ main \in {"exited", "killed"}
              \/ pc = "reaped" /\ copier \in {"copying", "ended"} /\ ~Writing
              \/ pc \in {"load", "stop"}

\* A timer that was set is not disarmed before the call is over; once it has
\* killed, nobody of the group is left, and a call still under way can go on.
KilledInv ==
  /\ pc = "start" => timer = "off" /\ copier = "none"
  /\ pc \notin {"start", "returned"} => copier \in {"copying", "ended"}
  /\ Timed /\ pc \notin {"start", "returned"} => timer # "off"
  /\ timer # "off" => main # "none"
  /\ timer = "done" => /\ main \in {"exited", "killed"}
                       /\ desc \in {"none", "escaped", "gone"}
  /\ Killed /\ pc # "returned" => Unhindered

\* What is left to do: the steps of runBounded, the end of the copier and, at one
\* token a time, the pipe.
StepsLeft == CASE pc = "start" -> 5
               [] pc = "wait" -> 4
               [] pc = "reaped" -> 3
               [] pc = "load" -> 2
               [] pc = "stop" -> 1
               [] OTHER -> 0
Left == StepsLeft + Len(pipe) + (IF copier = "copying" THEN 1 ELSE 0)

\* Behind the kill every step there is takes the call towards its end.
EndsAfterKill == Killed => Killed' /\ Left' < Left

LEMMA KilledNext == TypeOK /\ RunInv /\ KilledInv /\ [Next]_vars => KilledInv'
<1> SUFFICES ASSUME TypeOK, RunInv, KilledInv, [Next]_vars PROVE KilledInv'
    OBVIOUS
<1> USE DEF KilledInv, RunInv, Killed, Unhindered, Writing, Timed, procVars,
        copyVars, timeVars
<1>1. CASE Start
      BY <1>1 DEF Start
<1>2. CASE StartFails
      BY <1>2 DEF StartFails
<1>3. CASE Reap
      BY <1>3 DEF Reap, TypeOK
<1>4. CASE JoinCopier
      BY <1>4 DEF JoinCopier
<1>5. CASE LoadFlag
      BY <1>5 DEF LoadFlag
<1>6. CASE StopTimer
      BY <1>6 DEF StopTimer
<1>7. CASE Copy
      BY <1>7 DEF Copy
<1>8. CASE CopyEnds
      BY <1>8 DEF CopyEnds
<1>9. CASE Expire
      BY <1>9 DEF Expire
<1>10. CASE KillGroup
  <2>1. /\ main' \in {"exited", "killed"}
        /\ desc' \in {"none", "escaped", "gone"}
        BY <1>10 DEF KillGroup, Grouped, TypeOK
  <2>2. UNCHANGED <<secs, pc, copier>> /\ timer' = "done" /\ timer = "expired"
        BY <1>10 DEF KillGroup
  <2>3. pc # "start" /\ pc \in {"wait", "reaped", "load", "stop", "returned"}
        BY <2>2 DEF TypeOK
  <2>4. (desc' # "escaped" /\ pc' # "returned") => Unhindered'
    <3> SUFFICES ASSUME desc' # "escaped", pc # "returned" PROVE Unhindered'
        BY <2>2
    <3>1. CASE pc = "wait"
          BY <3>1, <2>1, <2>2
    <3>2. CASE pc = "reaped"
      <4>1. main' # "running" /\ desc' \in {"none", "gone"}
            BY <2>1
      <4>2. ~Writing'
            BY <4>1
      <4> QED BY <3>2, <4>2, <2>2, <2>3
    <3> QED BY <3>1, <3>2, <2>2, <2>3
  <2>5. Killed' <=> desc' # "escaped"
        BY <2>2
  <2>6. main' # "none" /\ (Timed' <=> Timed)
        BY <2>1, <2>2
  <2> HIDE DEF Unhindered, Killed, Writing, RunInv, Timed
  <2> QED BY <2>1, <2>2, <2>3, <2>4, <2>5, <2>6
<1>11. CASE PutOut
      BY <1>11 DEF PutOut
<1>12. CASE Fork
      BY <1>12 DEF Fork, Others
<1>13. CASE DescLeaves
  <2>1. /\ UNCHANGED <<secs, main, timer, pc, copier>>
        /\ desc \in {"group", "quiet", "escaped"}
        /\ desc' \in {"quiet", "escaped", "gone"}
        /\ desc # "group" => desc' = "gone"
        BY <1>13 DEF DescLeaves, Others, Grouped
  <2>2. CASE timer = "done"
    <3>1. main \in {"exited", "killed"} /\ desc' = "gone"
          BY <2>1, <2>2
    <3>2. ~Writing'
          BY <2>1, <3>1
    <3>3. pc \in {"start", "wait", "reaped", "load", "stop", "returned"}
          BY DEF TypeOK
    <3>4. pc # "returned" => Unhindered'
          BY <2>1, <2>2, <3>1, <3>2, <3>3
    <3> HIDE DEF Writing, Unhindered, RunInv
    <3> QED BY <2>1, <2>2, <3>1, <3>4
  <2>3. CASE timer # "done"
        BY <2>1, <2>3
  <2> QED BY <2>2, <2>3
<1>14. CASE MainExits
      BY <1>14 DEF MainExits, Others
<1>15. CASE UNCHANGED vars
      BY <1>15 DEF vars
<1> QED BY <1>1, <1>2, <1>3, <1>4, <1>5, <1>6, <1>7, <1>8, <1>9, <1>10, <1>11,
        <1>12, <1>13, <1>14, <1>15 DEF Next, Runner, Copier, Timer, Procs

\* Copy shortens the pipe.
LEMMA CopyShortens ==
  ASSUME TypeOK, Copy PROVE Len(pipe) \in Nat /\ Len(pipe') \in Nat /\ Len(pipe') < Len(pipe)
<1>1. PICK c \in DOMAIN pipe :
        /\ CappedWrite(SubSeq(pipe, 1, c)) /\ Scan(SubSeq(pipe, 1, c))
        /\ pipe' = SubSeq(pipe, c + 1, Len(pipe))
      BY DEF Copy
<1>2. c \in 1..Len(pipe) /\ pipe' \in Seq(Token) /\ Len(pipe') = Len(pipe) - c
      BY <1>1, CopyEffect
<1>3. Len(pipe) \in Nat
      BY Lengths
<1> QED BY <1>2, <1>3

\* Of all the actions only those of runBounded and of the copier are left.
LEMMA OnlyTheCallIsLeft ==
  ASSUME TypeOK, KilledInv, Killed, Next
  PROVE  Reap \/ JoinCopier \/ LoadFlag \/ StopTimer \/ Copy \/ CopyEnds
<1>1. /\ timer = "done" /\ main \in {"exited", "killed"} /\ desc \in {"none", "gone"}
      /\ pc # "start"
      BY DEF Killed, KilledInv
<1>2. ~Start /\ ~StartFails /\ ~Expire /\ ~KillGroup
      BY <1>1 DEF Start, StartFails, Expire, KillGroup
<1>3. ~PutOut /\ ~Fork /\ ~DescLeaves /\ ~MainExits
      BY <1>1 DEF PutOut, Writing, Fork, DescLeaves, Grouped, MainExits
<1> QED BY <1>2, <1>3 DEF Next, Runner, Copier, Timer, Procs

LEMMA EndsNext == TypeOK /\ KilledInv /\ [Next]_vars => [EndsAfterKill]_vars
<1> SUFFICES ASSUME TypeOK, KilledInv, Next, Killed PROVE Killed' /\ Left' < Left
    BY DEF EndsAfterKill
<1>0. Len(pipe) \in Nat /\ StepsLeft \in Nat
      BY Lengths DEF StepsLeft
<1> USE DEF Killed, procVars, copyVars, timeVars
<1>1. CASE Reap \/ JoinCopier \/ LoadFlag
  <2>1. UNCHANGED <<timer, desc, pipe, copier>>
        BY <1>1 DEF Reap, JoinCopier, LoadFlag
  <2>2. StepsLeft' \in Nat /\ StepsLeft' < StepsLeft
        BY <1>1 DEF Reap, JoinCopier, LoadFlag, StepsLeft
  <2> QED BY <2>1, <2>2, <1>0 DEF Left
<1>2. CASE StopTimer
  <2>1. UNCHANGED <<timer, desc, pipe, copier>>
        BY <1>2 DEF StopTimer
  <2>2. StepsLeft' \in Nat /\ StepsLeft' < StepsLeft
        BY <1>2 DEF StopTimer, StepsLeft
  <2> QED BY <2>1, <2>2, <1>0 DEF Left
<1>3. CASE Copy
  <2>1. UNCHANGED <<timer, desc, pc, copier>>
        BY <1>3 DEF Copy
  <2>2. StepsLeft' = StepsLeft
        BY <2>1 DEF StepsLeft
  <2> QED BY <2>1, <2>2, <1>0, <1>3, CopyShortens DEF Left
<1>4. CASE CopyEnds
  <2>1. UNCHANGED <<timer, desc, pc, pipe>> /\ copier = "copying" /\ copier' = "ended"
        BY <1>4 DEF CopyEnds
  <2>2. StepsLeft' = StepsLeft
        BY <2>1 DEF StepsLeft
  <2> QED BY <2>1, <2>2, <1>0 DEF Left
<1> QED BY <1>1, <1>2, <1>3, <1>4, OnlyTheCallIsLeft

LEMMA KilledHolds == Spec => [](TypeOK /\ KilledInv) /\ [][EndsAfterKill]_vars
<1>1. Init => KilledInv
      BY DEF Init, KilledInv, Killed
<1> QED BY <1>1, TypeInit, TypeNext, RunInit, RunNext, KilledNext, EndsNext, PTL
        DEF Spec

\* The kill reaches everybody who stayed in the group, a timer that was set stays
\* set until the call is over or it fires, and behind the kill runBounded never
\* waits for the command or what it left behind, except for a descendant that took
\* the pipe into a session of its own.
THEOREM NobodyOutlivesTheKill == Spec => []KilledInv
  BY KilledHolds, PTL

\* Behind the kill at most four steps of runBounded, one of the copier and one for
\* each token in the pipe are left, and every step that anybody can take is one of
\* them: no output, fork or late exit draws the call out.
THEOREM EveryStepEndsTheCall == Spec => [][EndsAfterKill]_vars
  BY KilledHolds, PTL

==============================================================================
