------------------------------- MODULE AuditLog -------------------------------
(***************************************************************************)
(* The audit trail.  Append writes an event and its newline in one call,   *)
(* whose error nobody looks at; when the disk fills up all of it, part of  *)
(* it, or only the newline, is missing, and the next event ends up on the  *)
(* same line.  Nothing syncs the file: of a machine that goes down any     *)
(* beginning of it may be left.  AuditQuery returns a page of the matching *)
(* events, newest first, and a cursor for the page before it; a client     *)
(* walks back from page to page while events are added.  A page whose read *)
(* fails is empty and looks like the last one.                             *)
(***************************************************************************)
EXTENDS Integers, Sequences, FiniteSets

CONSTANTS Limit,        \* events on a page
          MaxEvents,    \* bound: events appended
          MaxTorn       \* bound: appends that fail, while that many are lost

ASSUME AuditAssumption == /\ Limit \in Nat \ {0}
                          /\ MaxEvents \in Nat /\ MaxTorn \in Nat

VARIABLES
    log,        \* the lines, each a sequence of events or parts of events
    ended,      \* whether the last line ends in a newline
    size,       \* events appended so far
    torn,       \* those of them that were not written as a whole, or were on or
                \* behind the line where a machine that went down cut the log
    walking,    \* whether a client is walking
    cursor,     \* where its next page begins, -1 for the newest event
    got,        \* the events it was given, by number
    due,        \* the matching events when it began
    failed      \* whether a read that failed was the end of the walk

logVars  == <<log, ended, size, torn>>
walkVars == <<walking, cursor, got, due, failed>>
vars == <<logVars, walkVars>>

\* The n-th event; hit: whether the filters of the client match it; cut:
\* whether more than its newline is missing.
Event == [n : 1..MaxEvents, hit : BOOLEAN, cut : BOOLEAN]

TypeOK ==
    /\ log \in Seq(Seq(Event)) /\ ended \in BOOLEAN
    /\ size \in 0..MaxEvents
    /\ torn \subseteq 1..MaxEvents
    /\ walking \in BOOLEAN
    /\ cursor \in -1..(Len(log) - 1)
    /\ got \in Seq(1..MaxEvents)
    /\ due \subseteq 1..MaxEvents /\ failed \in BOOLEAN

Init == /\ log = <<>> /\ ended = TRUE
        /\ size = 0 /\ torn = {}
        /\ walking = FALSE /\ cursor = -1
        /\ got = <<>> /\ due = {} /\ failed = FALSE

------------------------------------------------------------------------------
\* Append.

\* O_APPEND: what is written goes to the end, whatever is there.
AtTheEnd(e) ==
    log' = IF ended THEN Append(log, <<e>>)
                    ELSE [log EXCEPT ![Len(log)] = Append(@, e)]

\* Mutation: the newline comes with the next event.
AddUnended == /\ size < MaxEvents
              /\ \E hit \in BOOLEAN :
                    AtTheEnd([n |-> size + 1, hit |-> hit, cut |-> FALSE])
              /\ ended' = FALSE
              /\ size' = size + 1
              /\ UNCHANGED <<torn, walkVars>>

Add == /\ size < MaxEvents
       /\ \E hit \in BOOLEAN :
             AtTheEnd([n |-> size + 1, hit |-> hit, cut |-> FALSE])
       /\ ended' = TRUE
       /\ size' = size + 1
       /\ UNCHANGED <<torn, walkVars>>

\* A short write: part of the event is in the log, or all but its newline.
AddTorn == /\ size < MaxEvents /\ Cardinality(torn) < MaxTorn
           /\ \E hit, cut \in BOOLEAN :
                 AtTheEnd([n |-> size + 1, hit |-> hit, cut |-> cut])
           /\ ended' = FALSE
           /\ size' = size + 1
           /\ torn' = torn \cup {size + 1}
           /\ UNCHANGED walkVars

\* The log cannot be opened, or not a byte of the event is written.
AddFails == /\ size < MaxEvents /\ Cardinality(torn) < MaxTorn
            /\ size' = size + 1
            /\ torn' = torn \cup {size + 1}
            /\ UNCHANGED <<log, ended, walkVars>>

\* What may be left of a line that is cut.
Beginnings(line) ==
    {[SubSeq(line, 1, m) EXCEPT ![m].cut = @ \/ cut] :
        m \in 1..Len(line), cut \in BOOLEAN}

\* The events on and behind the line c.
LostFrom(c) == log[c][1].n .. size

\* The log ends with the line before c, or with a beginning of c.
CutAt(c) == /\ torn' = torn \cup LostFrom(c)
            /\ \/ log' = SubSeq(log, 1, c - 1) /\ ended' = TRUE
               \/ /\ \E part \in Beginnings(log[c]) :
                        log' = Append(SubSeq(log, 1, c - 1), part)
                  /\ ended' = FALSE
            /\ UNCHANGED size

\* The machine goes down, and the client with it; the log is whole again, or
\* cut at some line.
MachineDown ==
    /\ UNCHANGED logVars \/ \E c \in DOMAIN log : CutAt(c)
    /\ walking' = FALSE /\ cursor' = -1 /\ failed' = FALSE
    /\ got' = <<>> /\ due' = {}

------------------------------------------------------------------------------
\* AuditQuery. Lines are numbered from 0, from the oldest on; behind the last
\* newline there is an empty one.

LineCount == Len(log) + (IF ended THEN 1 ELSE 0)
Line(i)   == IF i < Len(log) THEN log[i + 1] ELSE <<>>

\* What json.Unmarshal takes: one event and nothing else.
Readable(i) == Len(Line(i)) = 1 /\ ~Line(i)[1].cut

\* auditMatches
Matches(i) == Readable(i) /\ Line(i)[1].hit

\* Where the page begins; a cursor past the end is the end.
Start == IF cursor = -1 \/ cursor >= LineCount THEN LineCount - 1 ELSE cursor

\* The matching lines from there on back.
Found == {i \in 0..Start : Matches(i)}

Page == {i \in Found : Cardinality({j \in Found : j > i}) < Limit}

Full == Cardinality(Page) = Limit

Oldest == CHOOSE i \in Page : \A j \in Page : i <= j

NewestFirst(S) ==
    [k \in 1..Cardinality(S) |->
        CHOOSE i \in S : Cardinality({j \in S : j > i}) = k - 1]

Numbers(lines) == [k \in DOMAIN lines |-> Line(lines[k])[1].n]

\* Mutation: the cursor is the line the page ended with.
NextInclusive == IF Full THEN Oldest ELSE -1

\* NextCursor, -1 for none: the line before the page, if it is full and does
\* not end with the first line.
NextCursor == IF Full /\ Oldest > 0 THEN Oldest - 1 ELSE -1

\* The response; without a next cursor the walk is over.
Answer(before) == /\ got' = before \o Numbers(NewestFirst(Page))
                  /\ cursor' = NextCursor
                  /\ walking' = (NextCursor # -1)
                  /\ failed' = FALSE
                  /\ UNCHANGED logVars

\* The log cannot be read: the response is empty and has no next cursor.
ReadFails(before) == /\ got' = before
                     /\ cursor' = -1 /\ walking' = FALSE /\ failed' = TRUE
                     /\ UNCHANGED logVars

\* A client begins with the newest page...
Begin == /\ ~walking
         /\ Answer(<<>>) \/ ReadFails(<<>>)
         /\ due' = {Line(i)[1].n : i \in {j \in 0..(Len(log) - 1) : Matches(j)}}

\* ...and goes on where the page before ended.
Continue == /\ walking
            /\ Answer(got) \/ ReadFails(got)
            /\ UNCHANGED due

Next == Add \/ AddTorn \/ AddFails \/ MachineDown \/ Begin \/ Continue

Spec == Init /\ [][Next]_vars

------------------------------------------------------------------------------
\* Properties.

\* At any time the client has the newest of the events that were there and
\* matched when it began, without a gap, each once and the newest first,
\* although lines were added, and glued together, between the pages. When the
\* walk is over it has all of them, unless a read failed.
WalkFindsAll ==
    LET given == {got[k] : k \in DOMAIN got} IN
    /\ \A j, k \in DOMAIN got : j < k => got[j] > got[k]
    /\ given \subseteq due
    /\ \A n \in due \ given, m \in given : n < m
    /\ ~walking /\ ~failed => given = due

\* A failed append costs its own event and at most the next, and a machine
\* that goes down the line it cuts, what is behind that, and at most the next
\* event: any other one, written as a whole behind one that was, can be read
\* for ever.
WholeEventsStay ==
    \A n \in 1..size :
        n \notin torn /\ (n - 1) \notin torn
            => \E i \in 0..(Len(log) - 1) : Readable(i) /\ Line(i)[1].n = n

==============================================================================
