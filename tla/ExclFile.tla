------------------------------- MODULE ExclFile ------------------------------
(***************************************************************************)
(* One decision file of a petition as store.go writes it: open with        *)
(* O_CREATE|O_EXCL, write the JSON, sync, close (Consume, Ack, the three   *)
(* Select entry points and Cancel share this sequence).  A reader opens    *)
(* the file and unmarshals it; an empty or half-written file does not      *)
(* unmarshal and reads as nil.  The daemon may crash between any two of    *)
(* the steps, and the write or the sync may fail (a full disk).            *)
(***************************************************************************)
EXTENDS Naturals

CONSTANTS Writers,     \* concurrent calls that want to decide the petition
          Readers,     \* waiters, List and Status
          NoValue

ASSUME NoValueAssumption == NoValue \notin Writers

VARIABLES creator,     \* the call that created the file, NoValue if absent
          written,     \* TRUE once the complete JSON is in the file
          pc,          \* where each call stands
          told,        \* what each call has returned to its caller
          seen         \* what each reader has read last

vars == <<creator, written, pc, told, seen>>

\* A writer's value is identified with the writer: two calls with the same
\* decision still carry their own By and UnixNano.
Values == Writers \cup {NoValue}

TypeOK == /\ creator \in Values
          /\ written \in BOOLEAN
          /\ pc \in [Writers -> {"create", "write", "sync", "returned", "dead"}]
          /\ told \in [Writers -> {"nothing", "won", "lost"}]
          /\ seen \in [Readers -> Values]

Init == /\ creator = NoValue
        /\ written = FALSE
        /\ pc = [w \in Writers |-> "create"]
        /\ told = [w \in Writers |-> "nothing"]
        /\ seen = [r \in Readers |-> NoValue]

------------------------------------------------------------------------------

\* What ReadFile followed by Unmarshal returns: nil unless the JSON is whole.
Content == IF written THEN creator ELSE NoValue

\* Operators whose comment begins with "Mutation:" are altered forms of the
\* definition after them; they show that the properties notice the bug they
\* name and are used nowhere else.

\* Mutation: the answer ends up where the position belongs.
ReturnSwapped(w, answer) == /\ pc' = [pc EXCEPT ![w] = answer]
                            /\ UNCHANGED told

Return(w, answer) == /\ pc' = [pc EXCEPT ![w] = "returned"]
                     /\ told' = [told EXCEPT ![w] = answer]

\* Mutation: the file is opened without O_EXCL.
OpensExisting == TRUE

\* Mutation: a file that does not unmarshal is taken for no file.
OpensUnreadable == ~written

\* O_CREATE|O_EXCL succeeds while there is no file, readable or not.
FileAbsent == creator = NoValue

\* OpenFile(O_CREATE|O_EXCL): at most one call creates the file; the others
\* get an error, and so may any call for another reason (a directory that is
\* not writable, no descriptor left), and return false at once.
Create(w) ==
    /\ pc[w] = "create"
    /\ \/ /\ FileAbsent
          /\ creator' = w
          /\ pc' = [pc EXCEPT ![w] = "write"]
          /\ UNCHANGED told
       \/ /\ Return(w, "lost")
          /\ UNCHANGED creator
    /\ UNCHANGED <<written, seen>>

\* f.Write: the JSON lands in the file, or the write fails and the file stays
\* unreadable; nothing removes it.
Write(w) ==
    /\ pc[w] = "write"
    /\ \/ /\ written' = TRUE
          /\ pc' = [pc EXCEPT ![w] = "sync"]
          /\ UNCHANGED told
       \/ /\ Return(w, "lost")
          /\ UNCHANGED written
    /\ UNCHANGED <<creator, seen>>

\* return f.Sync() == nil: a failed sync reports false although readers can
\* already see the value.
Sync(w) ==
    /\ pc[w] = "sync"
    /\ \E answer \in {"won", "lost"} : Return(w, answer)
    /\ UNCHANGED <<creator, written, seen>>

\* Verdict, CancelInfo, AckInfo, SelectionInfo.
Read(r) == /\ seen' = [seen EXCEPT ![r] = Content]
           /\ UNCHANGED <<creator, written, pc, told>>

\* The daemon dies: every call in flight is lost, the file stays as it is.
\* Calls that had not begun belong to later requests and may still come.
Crash == /\ pc' = [w \in Writers |-> IF pc[w] \in {"write", "sync"}
                                       THEN "dead" ELSE pc[w]]
         /\ UNCHANGED <<creator, written, told, seen>>

Next == \/ \E w \in Writers : Create(w) \/ Write(w) \/ Sync(w)
        \/ \E r \in Readers : Read(r)
        \/ Crash

Spec == Init /\ [][Next]_vars

------------------------------------------------------------------------------

\* "One verdict wins" (Consume): at most one call is told true, and the value
\* that any reader has ever obtained is the one of that call.
OneWinner ==
    /\ \A v, w \in Writers : told[v] = "won" /\ told[w] = "won" => v = w
    /\ \A w \in Writers, r \in Readers :
         told[w] = "won" => seen[r] \in {w, NoValue}

\* A reader that has read a decision never reads another one or nil later:
\* await may act on a verdict although the file stays open to other callers.
ReadsStable ==
    [][\A r \in Readers : seen[r] # NoValue => seen'[r] = seen[r]]_vars

\* A file whose creator died or failed before its write finished is never
\* filled in by anyone: the petition stays undecidable until it expires.
TornStaysTorn ==
    [][\A w \in Writers :
          (creator = w /\ ~written /\ pc[w] \in {"dead", "returned"})
             => (creator' = w /\ ~written')]_vars

\* The register the rest of the daemon relies on.
Register == INSTANCE WriteOnce WITH winner <- Content

ImplementsRegister == Register!Spec
==============================================================================
