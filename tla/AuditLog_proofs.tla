----------------------------- MODULE AuditLog_proofs -----------------------------
(***************************************************************************)
(* Proofs about the audit trail, for any number of events and of appends   *)
(* that fail half way.                                                     *)
(***************************************************************************)
EXTENDS AuditLog, SequenceTheorems, FiniteSetTheorems, FunctionTheorems, TLAPS

------------------------------------------------------------------------------
\* The inductive invariant.

\* The event of a line that holds one whole event and nothing else.
Holds(i, n) == Len(log[i]) = 1 /\ ~log[i][1].cut /\ log[i][1].n = n

\* Such a line is behind every whole event that follows a whole one, and no
\* append will touch it: it is not the last one unless that has its newline.
Kept == \A n \in 1..size :
          n \notin torn /\ (n - 1) \notin torn =>
             \E i \in DOMAIN log : Holds(i, n) /\ (i = Len(log) => ended)

\* Without a newline, the last line ends in a failed append.
TailInv == ~ended => log # <<>> /\ size \in torn

LogInv == /\ log \in Seq(Seq(Event)) /\ ended \in BOOLEAN /\ size \in 0..MaxEvents
          /\ torn \subseteq 1..size
          /\ TailInv /\ Kept

\* Every line begins with an event, and the lines are in the order of these.
LinesInv == \A i \in DOMAIN log :
              /\ log[i] # <<>> /\ log[i][1].n \in 1..size
              /\ \A j \in DOMAIN log : i < j => log[i][1].n < log[j][1].n

LEMMA LogInit == Init => LogInv /\ LinesInv
<1> SUFFICES ASSUME Init PROVE LogInv /\ LinesInv
    OBVIOUS
<1>1. log \in Seq(Seq(Event)) /\ size \in 0..MaxEvents /\ torn \subseteq 1..size
      BY AuditAssumption DEF Init, AuditAssumption
<1>2. TailInv /\ ended \in BOOLEAN
      BY Zenon DEF Init, TailInv
<1>3. Kept /\ LinesInv
      BY DEF Init, Kept, LinesInv
<1> QED BY <1>1, <1>2, <1>3 DEF LogInv

\* An append puts the event on a line of its own, or behind what lacks its
\* newline, and leaves every other line alone.
LEMMA AppendIs ==
  ASSUME LogInv, NEW e \in Event, AtTheEnd(e)
  PROVE  /\ log' \in Seq(Seq(Event)) /\ log' # <<>>
         /\ \A i \in DOMAIN log : i # Len(log) \/ ended =>
               i \in DOMAIN log' /\ i # Len(log') /\ log'[i] = log[i]
         /\ ended => /\ Len(log') \in DOMAIN log' /\ log'[Len(log')] = <<e>>
                     /\ Len(log') = Len(log) + 1
         /\ ~ended => /\ Len(log) \in DOMAIN log /\ Len(log') = Len(log)
                      /\ log'[Len(log)] = Append(log[Len(log)], e)
<1>1. log \in Seq(Seq(Event)) /\ Len(log) \in Nat /\ DOMAIN log = 1..Len(log)
      BY DEF LogInv
<1>2. <<e>> \in Seq(Event)
      OBVIOUS
<1>3. CASE ended
  <2>1. log' = Append(log, <<e>>)
        BY <1>3 DEF AtTheEnd
  <2>2. /\ log' \in Seq(Seq(Event)) /\ Len(log') = Len(log) + 1
        /\ DOMAIN log' = 1..(Len(log) + 1) /\ log'[Len(log) + 1] = <<e>>
        /\ \A i \in 1..Len(log) : log'[i] = log[i]
        BY <1>1, <1>2, <2>1, AppendProperties
  <2>3. log' # <<>>
        BY <1>1, <2>2
  <2>4. ASSUME NEW i \in DOMAIN log
        PROVE  i \in DOMAIN log' /\ i # Len(log') /\ log'[i] = log[i]
        BY <1>1, <2>2
  <2> QED BY <1>1, <1>3, <2>2, <2>3, <2>4
<1>4. CASE ~ended
  <2>1. log' = [log EXCEPT ![Len(log)] = Append(@, e)] /\ log # <<>>
        BY <1>4 DEF AtTheEnd, LogInv, TailInv
  <2>2. Len(log) \in 1..Len(log)
        BY <1>1, <2>1, EmptySeq
  <2>3. log[Len(log)] \in Seq(Event)
        BY <1>1, <2>2, ElementOfSeq
  <2>4. Append(log[Len(log)], e) \in Seq(Event)
        BY <2>3, AppendProperties
  <2>5. /\ log' \in Seq(Seq(Event)) /\ Len(log') = Len(log)
        /\ \A i \in 1..Len(log) : i # Len(log) => log'[i] = log[i]
        /\ log'[Len(log)] = Append(log[Len(log)], e)
    <3> DEFINE Lines == Seq(Event)
               line  == Append(log[Len(log)], e)
    <3>1. log \in Seq(Lines) /\ line \in Lines /\ log' = [log EXCEPT ![Len(log)] = line]
          BY <1>1, <2>1, <2>4
    <3> HIDE DEF Lines, line
    <3>2. /\ log' \in Seq(Lines) /\ Len(log') = Len(log)
          /\ \A j \in 1..Len(log) :
                log'[j] = IF j = Len(log) THEN line ELSE log[j]
          BY <2>2, <3>1, ExceptSeq
    <3> QED BY <2>2, <3>2 DEF Lines, line
  <2>6. DOMAIN log' = DOMAIN log /\ log' # <<>>
    <3>1. DOMAIN log' = 1..Len(log')
          BY <2>5, LenProperties
    <3>2. Len(log') # 0
      <4>1. Len(log) \in Nat \ {0}
            BY <1>1, <2>1, EmptySeq
      <4> QED BY <2>5, <4>1
    <3>3. log' # <<>>
          BY <3>2
    <3> QED BY <1>1, <2>5, <3>1, <3>3
  <2> QED BY <1>1, <1>4, <2>2, <2>5, <2>6
<1> QED BY <1>3, <1>4

\* What is left of a line that is cut begins with the event it began with.
LEMMA BeginningIs ==
  ASSUME NEW line \in Seq(Event), NEW part \in Beginnings(line)
  PROVE  part \in Seq(Event) /\ part # <<>> /\ part[1].n = line[1].n
<1>1. PICK m \in 1..Len(line), cut \in BOOLEAN :
        part = [SubSeq(line, 1, m) EXCEPT ![m].cut = @ \/ cut]
      BY DEF Beginnings
<1> DEFINE s == SubSeq(line, 1, m)
<1>2. Len(line) \in Nat /\ m \in Nat /\ 1 <= m /\ m <= Len(line)
      OBVIOUS
<1>3. /\ s \in Seq(Event) /\ Len(s) = m
      /\ \A i \in 1..m : s[i] = line[i]
      BY <1>2, SubSeqProperties
<1>4. m \in 1..Len(s) /\ s[m] \in Event
      BY <1>2, <1>3, ElementOfSeq
<1> DEFINE e == [s[m] EXCEPT !.cut = @ \/ cut]
<1>5. part = [s EXCEPT ![m] = e]
      BY <1>1
<1>6. e \in Event /\ e.n = s[m].n
  <2>1. (s[m].cut \/ cut) \in BOOLEAN
        BY Zenon
  <2> DEFINE b == s[m].cut \/ cut
  <2>2. e = [s[m] EXCEPT !.cut = b] /\ b \in BOOLEAN
        BY <2>1
  <2> HIDE DEF b, e, s
  <2> QED BY <1>4, <2>2 DEF Event
<1> HIDE DEF s, e
<1>7. /\ part \in Seq(Event) /\ Len(part) = Len(s)
      /\ \A j \in 1..Len(s) : part[j] = IF j = m THEN e ELSE s[j]
      BY <1>3, <1>4, <1>5, <1>6, ExceptSeq
<1>8. part # <<>> /\ 1 \in 1..Len(s)
      BY <1>2, <1>3, <1>7
<1>9. part[1].n = s[1].n
      BY <1>6, <1>7, <1>8
<1> QED BY <1>2, <1>3, <1>7, <1>8, <1>9

\* A cut leaves the lines before it alone, and perhaps a beginning of its own.
LEMMA CutIs ==
  ASSUME LogInv, LinesInv, NEW c \in DOMAIN log, CutAt(c)
  PROVE  /\ log' \in Seq(Seq(Event)) /\ DOMAIN log' = 1..Len(log')
         /\ \A i \in 1..(c - 1) : log'[i] = log[i]
         /\ \/ Len(log') = c - 1 /\ ended' = TRUE
            \/ /\ Len(log') = c /\ ended' = FALSE
               /\ log'[c] # <<>> /\ log'[c][1].n = log[c][1].n
<1> DEFINE kept == SubSeq(log, 1, c - 1)
<1>1. log \in Seq(Seq(Event)) /\ Len(log) \in Nat /\ c \in 1..Len(log)
      BY DEF LogInv
<1>2. log[c] \in Seq(Event)
      BY <1>1, ElementOfSeq
<1>3. /\ kept \in Seq(Seq(Event)) /\ Len(kept) = c - 1
      /\ \A i \in 1..(c - 1) : kept[i] = log[i]
  <2> DEFINE Lines == Seq(Event)
  <2>1. log \in Seq(Lines)
        BY <1>1
  <2> HIDE DEF Lines
  <2>2. kept \in Seq(Lines) /\ Len(kept) = c - 1
        /\ \A i \in 1..(c - 1) : kept[i] = log[i]
        BY <1>1, <2>1, SubSeqProperties
  <2> QED BY <2>2 DEF Lines
<1> HIDE DEF kept
<1>4. CASE log' = kept /\ ended' = TRUE
      BY <1>3, <1>4
<1>5. CASE (\E part \in Beginnings(log[c]) : log' = Append(kept, part)) /\ ended' = FALSE
  <2>1. PICK part \in Beginnings(log[c]) : log' = Append(kept, part)
        BY <1>5
  <2>2. part \in Seq(Event) /\ part # <<>> /\ part[1].n = log[c][1].n
        BY <1>2, BeginningIs
  <2>3. /\ log' \in Seq(Seq(Event)) /\ Len(log') = (c - 1) + 1
        /\ log'[(c - 1) + 1] = part
        /\ \A i \in 1..(c - 1) : log'[i] = kept[i]
        BY <1>3, <2>1, <2>2, AppendProperties
  <2>4. (c - 1) + 1 = c
        BY <1>1
  <2>5. DOMAIN log' = 1..Len(log')
        BY <2>3
  <2> QED BY <1>3, <1>5, <2>2, <2>3, <2>4, <2>5
<1> QED BY <1>4, <1>5 DEF CutAt, kept

\* The steps, by what they do to the log.
LEMMA StepIs ==
  ASSUME [Next]_vars
  PROVE  \/ Add \/ AddTorn \/ AddFails \/ UNCHANGED logVars
         \/ \E c \in DOMAIN log : CutAt(c)
<1>1. ASSUME Begin \/ Continue \/ UNCHANGED vars PROVE UNCHANGED logVars
      BY <1>1 DEF Begin, Continue, Answer, ReadFails, vars
<1>2. ASSUME MachineDown PROVE UNCHANGED logVars \/ \E c \in DOMAIN log : CutAt(c)
      BY <1>2 DEF MachineDown
<1> QED BY <1>1, <1>2 DEF Next

LEMMA LogNext == LogInv /\ LinesInv /\ [Next]_vars => LogInv'
<1> SUFFICES ASSUME LogInv, LinesInv, [Next]_vars PROVE LogInv'
    OBVIOUS
<1>0. size \in Nat /\ MaxEvents \in Nat
      BY AuditAssumption DEF LogInv, AuditAssumption
<1>1. ASSUME NEW e \in Event, AtTheEnd(e), size' = size + 1, e.n = size + 1,
             torn' \in {torn, torn \cup {size + 1}},
             torn' = torn => ended' /\ ~e.cut
      PROVE  Kept'
  <2> SUFFICES ASSUME NEW n \in 1..(size + 1), n \notin torn', (n - 1) \notin torn'
               PROVE  \E i \in DOMAIN log' : Holds(i, n)' /\ (i = Len(log') => ended')
      BY <1>1 DEF Kept
  <2>1. CASE n \in 1..size
    <3>1. PICK i \in DOMAIN log : Holds(i, n) /\ (i = Len(log) => ended)
          BY <1>1, <2>1 DEF LogInv, Kept
    <3>2. i \in DOMAIN log' /\ i # Len(log') /\ log'[i] = log[i]
          BY <1>1, <3>1, AppendIs
    <3> QED BY <3>1, <3>2 DEF Holds
  <2>2. CASE n = size + 1
    <3>1. torn' = torn /\ size \notin torn
          BY <1>0, <1>1, <2>2
    <3>2. ended /\ ended' /\ ~e.cut
          BY <1>1, <3>1 DEF LogInv, TailInv
    <3>3. Len(log') \in DOMAIN log' /\ log'[Len(log')] = <<e>>
          BY <1>1, <3>2, AppendIs
    <3>4. Holds(Len(log), n)'
          BY <1>1, <2>2, <3>2, <3>3 DEF Holds
    <3> QED BY <3>2, <3>3, <3>4
  <2>3. n \in 1..size \/ n = size + 1
        BY <1>0
  <2> QED BY <2>1, <2>2, <2>3
<1>2. CASE Add
  <2>1. PICK hit \in BOOLEAN :
          AtTheEnd([n |-> size + 1, hit |-> hit, cut |-> FALSE])
        BY <1>2 DEF Add
  <2>2. [n |-> size + 1, hit |-> hit, cut |-> FALSE] \in Event
        BY <1>0, <1>2 DEF Add, Event
  <2>3. ended' /\ size' = size + 1 /\ torn' = torn /\ size + 1 \in 0..MaxEvents
        BY <1>0, <1>2 DEF Add
  <2>4. log' \in Seq(Seq(Event)) /\ TailInv'
        BY <2>1, <2>2, <2>3, AppendIs DEF TailInv
  <2>5. torn' \subseteq 1..size'
        BY <1>0, <2>3 DEF LogInv
  <2>6. Kept'
        BY <1>1, <2>1, <2>2, <2>3
  <2>7. ended' \in BOOLEAN
        BY <1>2, Zenon DEF Add
  <2> QED BY <2>3, <2>4, <2>5, <2>6, <2>7 DEF LogInv
<1>3. CASE AddTorn
  <2>1. PICK hit \in BOOLEAN, cut \in BOOLEAN :
          AtTheEnd([n |-> size + 1, hit |-> hit, cut |-> cut])
        BY <1>3 DEF AddTorn
  <2>2. [n |-> size + 1, hit |-> hit, cut |-> cut] \in Event
        BY <1>0, <1>3 DEF AddTorn, Event
  <2>3. ~ended' /\ size' = size + 1 /\ torn' = torn \cup {size + 1}
        /\ size + 1 \in 0..MaxEvents
        BY <1>0, <1>3 DEF AddTorn
  <2>4. log' \in Seq(Seq(Event)) /\ log' # <<>>
        BY <2>1, <2>2, AppendIs
  <2>5. torn' \subseteq 1..size'
        BY <1>0, <2>3 DEF LogInv
  <2>6. torn' # torn
        BY <1>0, <2>3 DEF LogInv
  <2>7. Kept'
        BY <1>1, <2>1, <2>2, <2>3, <2>6
  <2>8. ended' \in BOOLEAN
        BY <1>3, Zenon DEF AddTorn
  <2> QED BY <2>3, <2>4, <2>5, <2>7, <2>8 DEF LogInv, TailInv
<1>4. CASE UNCHANGED logVars
      BY <1>4 DEF logVars, LogInv, TailInv, Kept, Holds
<1>5. CASE AddFails
  <2>1. /\ log' = log /\ ended' = ended /\ size' = size + 1
        /\ torn' = torn \cup {size + 1} /\ size + 1 \in 0..MaxEvents
        BY <1>0, <1>5 DEF AddFails
  <2>2. torn' \subseteq 1..size'
        BY <1>0, <2>1 DEF LogInv
  <2>3. ASSUME NEW n \in 1..size', n \notin torn', (n - 1) \notin torn'
        PROVE  n \in 1..size /\ n \notin torn /\ (n - 1) \notin torn
        BY <1>0, <2>1, <2>3
  <2>4. Kept'
        BY <2>1, <2>3 DEF LogInv, Kept, Holds
  <2>5. ~ended => log # <<>> /\ size \in torn
        BY DEF LogInv, TailInv
  <2>6. size + 1 \in torn'
        BY <2>1
  <2>7. TailInv'
        BY <2>1, <2>5, <2>6 DEF TailInv
  <2> QED BY <2>1, <2>2, <2>4, <2>7 DEF LogInv
<1>6. ASSUME NEW c \in DOMAIN log, CutAt(c) PROVE LogInv'
  <2>1. /\ log' \in Seq(Seq(Event)) /\ DOMAIN log' = 1..Len(log')
        /\ \A i \in 1..(c - 1) : log'[i] = log[i]
        /\ \/ Len(log') = c - 1 /\ ended' = TRUE
           \/ Len(log') = c /\ ended' = FALSE
        BY <1>6, CutIs
  <2>2. torn' = torn \cup (log[c][1].n .. size) /\ size' = size
        BY <1>6 DEF CutAt, LostFrom
  <2>3. log[c][1].n \in 1..size /\ c \in 1..Len(log) /\ Len(log) \in Nat
        BY DEF LinesInv, LogInv
  <2>4. torn' \subseteq 1..size' /\ size' \in torn' /\ size' \in 0..MaxEvents
    <3>1. torn \subseteq 1..size /\ size \in 0..MaxEvents
          BY DEF LogInv
    <3> DEFINE head == log[c][1].n
    <3>2. head \in 1..size /\ torn' = torn \cup (head .. size) /\ size' = size
          BY <2>2, <2>3
    <3> HIDE DEF head
    <3> QED BY <1>0, <3>1, <3>2
  <2>5. TailInv'
    <3>1. ~ended' => Len(log') # 0
          BY <2>1, <2>3
    <3> QED BY <2>4, <3>1 DEF TailInv
  <2>6. ASSUME NEW n \in 1..size, n \notin torn', (n - 1) \notin torn'
        PROVE  \E i \in DOMAIN log' : Holds(i, n)' /\ (i = Len(log') => ended')
    <3>1. n \notin torn /\ (n - 1) \notin torn /\ n < log[c][1].n
          BY <1>0, <2>2, <2>3, <2>6
    <3>2. PICK i \in DOMAIN log : Holds(i, n)
          BY <3>1 DEF LogInv, Kept
    <3>3. log[i][1].n = n /\ i \in 1..Len(log)
          BY <2>3, <3>2 DEF Holds, LogInv
    <3>4. ~(c < i) /\ c # i
          BY <1>0, <2>3, <3>1, <3>3 DEF LinesInv
    <3>5. i \in 1..(c - 1)
          BY <2>3, <3>3, <3>4
    <3>6. i \in DOMAIN log' /\ (i = Len(log') => ended')
          BY <2>1, <2>3, <3>5
    <3>7. Holds(i, n)'
          BY <2>1, <3>2, <3>5 DEF Holds
    <3> QED BY <3>6, <3>7
  <2>7. Kept'
        BY <2>2, <2>6 DEF Kept
  <2>8. ended' \in BOOLEAN
        BY <2>1
  <2> QED BY <2>1, <2>4, <2>5, <2>7, <2>8 DEF LogInv
<1> QED BY <1>2, <1>3, <1>4, <1>5, <1>6, StepIs

\* An append begins a line, or goes on with one without touching its head.
LEMMA LinesNext == LogInv /\ LinesInv /\ [Next]_vars => LinesInv'
<1> SUFFICES ASSUME LogInv, LinesInv, [Next]_vars PROVE LinesInv'
    OBVIOUS
<1>0. /\ size \in Nat /\ MaxEvents \in Nat
      /\ log \in Seq(Seq(Event)) /\ Len(log) \in Nat /\ DOMAIN log = 1..Len(log)
      BY AuditAssumption DEF LogInv, AuditAssumption
<1>1. ASSUME NEW e \in Event, AtTheEnd(e), size' = size + 1, e.n = size + 1
      PROVE  LinesInv'
  <2>1. log' \in Seq(Seq(Event))
        BY <1>1, AppendIs
  <2>2. DOMAIN log' = 1..Len(log') /\ Len(log') \in Nat
        BY <2>1
  <2>3. ASSUME NEW i \in DOMAIN log, i # Len(log) \/ ended
        PROVE  log'[i] = log[i]
        BY <1>1, <2>3, AppendIs
  <2>4. ASSUME NEW i \in DOMAIN log' PROVE log'[i] # <<>> /\
               IF i \in DOMAIN log THEN log'[i][1].n = log[i][1].n
                                   ELSE log'[i][1].n = size + 1 /\ i = Len(log')
    <3>1. CASE i \in DOMAIN log /\ (i # Len(log) \/ ended)
          BY <2>3, <3>1 DEF LinesInv
    <3>2. CASE i \in DOMAIN log /\ i = Len(log) /\ ~ended
      <4>1. log'[i] = Append(log[i], e)
            BY <1>1, <3>2, AppendIs
      <4>2. log[i] \in Seq(Event) /\ log[i] # <<>>
            BY <1>0, <3>2 DEF LinesInv
      <4>3. Len(log[i]) \in Nat \ {0}
            BY <4>2, EmptySeq
      <4>4. Append(log[i], e)[1] = log[i][1] /\ Append(log[i], e) # <<>>
            BY <4>2, <4>3, AppendProperties
      <4> QED BY <3>2, <4>1, <4>4
    <3>3. CASE i \notin DOMAIN log
      <4>1. ended
            BY <1>0, <1>1, <2>2, <3>3, AppendIs
      <4>2. Len(log') = Len(log) + 1 /\ log'[Len(log')] = <<e>>
            BY <1>1, <4>1, AppendIs
      <4>3. i = Len(log')
            BY <1>0, <2>2, <3>3, <4>2
      <4> QED BY <1>1, <3>3, <4>2, <4>3
    <3> QED BY <3>1, <3>2, <3>3
  <2>5. ASSUME NEW i \in DOMAIN log' PROVE log'[i][1].n \in 1..(size + 1)
    <3>1. CASE i \in DOMAIN log
      <4>1. log'[i][1].n = log[i][1].n /\ log[i][1].n \in 1..size
            BY <2>4, <3>1 DEF LinesInv
      <4> QED BY <1>0, <4>1
    <3>2. CASE i \notin DOMAIN log
          BY <1>0, <2>4, <3>2
    <3> QED BY <3>1, <3>2
  <2>6. ASSUME NEW i \in DOMAIN log', NEW j \in DOMAIN log', i < j
        PROVE  log'[i][1].n < log'[j][1].n
    <3>1. i \in DOMAIN log
          BY <2>2, <2>4, <2>6
    <3>2. log'[i][1].n = log[i][1].n /\ log[i][1].n \in 1..size
          BY <2>4, <3>1 DEF LinesInv
    <3>3. CASE j \in DOMAIN log
          BY <2>4, <2>6, <3>1, <3>2, <3>3 DEF LinesInv
    <3>4. CASE j \notin DOMAIN log
          BY <1>0, <2>4, <3>2, <3>4
    <3> QED BY <3>3, <3>4
  <2> QED BY <1>1, <2>4, <2>5, <2>6 DEF LinesInv
<1>2. CASE Add
  <2>1. PICK hit \in BOOLEAN :
          AtTheEnd([n |-> size + 1, hit |-> hit, cut |-> FALSE])
        BY <1>2 DEF Add
  <2>2. [n |-> size + 1, hit |-> hit, cut |-> FALSE] \in Event /\ size' = size + 1
        BY <1>0, <1>2 DEF Add, Event
  <2> QED BY <1>1, <2>1, <2>2
<1>3. CASE AddTorn
  <2>1. PICK hit \in BOOLEAN, cut \in BOOLEAN :
          AtTheEnd([n |-> size + 1, hit |-> hit, cut |-> cut])
        BY <1>3 DEF AddTorn
  <2>2. [n |-> size + 1, hit |-> hit, cut |-> cut] \in Event /\ size' = size + 1
        BY <1>0, <1>3 DEF AddTorn, Event
  <2> QED BY <1>1, <2>1, <2>2
<1>4. CASE UNCHANGED logVars
      BY <1>4 DEF logVars, LinesInv
<1>5. CASE AddFails
  <2>1. log' = log /\ size' = size + 1
        BY <1>5 DEF AddFails
  <2>2. \A i \in DOMAIN log : log[i][1].n \in 1..(size + 1)
        BY <1>0 DEF LinesInv
  <2> QED BY <2>1, <2>2 DEF LinesInv
<1>6. ASSUME NEW c \in DOMAIN log, CutAt(c) PROVE LinesInv'
  <2>1. /\ DOMAIN log' = 1..Len(log')
        /\ \A i \in 1..(c - 1) : log'[i] = log[i]
        /\ \/ Len(log') = c - 1
           \/ /\ Len(log') = c
              /\ log'[c] # <<>> /\ log'[c][1].n = log[c][1].n
        BY <1>6, CutIs
  <2>2. size' = size /\ c \in 1..Len(log)
        BY <1>0, <1>6 DEF CutAt
  <2>3. ASSUME NEW i \in DOMAIN log'
        PROVE  i \in DOMAIN log /\ log'[i] # <<>> /\ log'[i][1].n = log[i][1].n
    <3>1. i \in 1..Len(log) /\ (i \in 1..(c - 1) \/ (i = c /\ Len(log') = c))
          BY <1>0, <2>1, <2>2
    <3>2. CASE i \in 1..(c - 1)
          BY <1>0, <2>1, <3>1, <3>2 DEF LinesInv
    <3>3. CASE i = c /\ Len(log') = c
          BY <1>0, <2>1, <2>2, <3>3
    <3> QED BY <3>1, <3>2, <3>3
  <2> QED BY <2>2, <2>3 DEF LinesInv
<1> QED BY <1>2, <1>3, <1>4, <1>5, <1>6, StepIs

\* An append to the audit log costs, if it fails, its own event and at most
\* the next one, and a machine that goes down what is on the line it cuts and
\* behind it, and at most the next one; every other event stays readable for
\* AuditQuery.
THEOREM WholeStays == Spec => []WholeEventsStay
<1>1. LogInv => WholeEventsStay
  <2> SUFFICES ASSUME LogInv, NEW n \in 1..size, n \notin torn, (n - 1) \notin torn
               PROVE  \E i \in 0..(Len(log) - 1) : Readable(i) /\ Line(i)[1].n = n
      BY DEF WholeEventsStay
  <2>1. PICK i \in DOMAIN log : Holds(i, n)
        BY DEF LogInv, Kept
  <2>2. i \in 1..Len(log) /\ Len(log) \in Nat
        BY DEF LogInv
  <2>3. i - 1 \in 0..(Len(log) - 1) /\ i - 1 < Len(log) /\ (i - 1) + 1 = i
        BY <2>2
  <2>4. Line(i - 1) = log[i]
        BY <2>3 DEF Line
  <2>5. Readable(i - 1) /\ Line(i - 1)[1].n = n
        BY <2>1, <2>4 DEF Readable, Holds
  <2> QED BY <2>3, <2>5
<1>2. LogInv /\ LinesInv /\ [Next]_vars => LogInv' /\ LinesInv'
      BY LogNext, LinesNext
<1> QED BY <1>1, <1>2, LogInit, PTL DEF Spec

------------------------------------------------------------------------------
\* The pages.

\* A set of lines, and the lines of it that are newer than a given one.
LineSet(S)   == S \subseteq Nat /\ IsFiniteSet(S)
Newer(S, i) == {j \in S : j > i}
Rank(S, i)  == Cardinality(Newer(S, i))

\* The ranks that a set of n lines has room for.
LEMMA UpTo == ASSUME NEW n \in Nat
              PROVE  IsFiniteSet(0..(n - 1)) /\ Cardinality(0..(n - 1)) = n
<1>1. 0 \in Int /\ n - 1 \in Int
      OBVIOUS
<1>2. /\ IsFiniteSet(0..(n - 1))
      /\ Cardinality(0..(n - 1)) = IF 0 > n - 1 THEN 0 ELSE (n - 1) - 0 + 1
      BY <1>1, FS_Interval
<1> QED BY <1>2

\* Ranks are numbers, and the rank of a member is below the size of the set.
LEMMA RankType ==
  ASSUME NEW S, LineSet(S)
  PROVE  /\ Cardinality(S) \in Nat
         /\ \A i \in Nat : IsFiniteSet(Newer(S, i)) /\ Rank(S, i) \in Nat
         /\ \A i \in S : Rank(S, i) \in 0..(Cardinality(S) - 1)
<1>1. Cardinality(S) \in Nat
      BY FS_CardinalityType DEF LineSet
<1>2. ASSUME NEW i \in Nat
      PROVE  /\ IsFiniteSet(Newer(S, i)) /\ Rank(S, i) \in Nat
             /\ Rank(S, i) <= Cardinality(S)
             /\ Cardinality(S) = Rank(S, i) => S = Newer(S, i)
  <2>1. Newer(S, i) \in SUBSET S
        BY DEF Newer
  <2>2. /\ IsFiniteSet(Newer(S, i)) /\ Rank(S, i) <= Cardinality(S)
        /\ Cardinality(S) = Rank(S, i) => S = Newer(S, i)
        BY <2>1, FS_Subset DEF LineSet, Rank
  <2> QED BY <2>2, FS_CardinalityType DEF Rank
<1>3. ASSUME NEW i \in S PROVE Rank(S, i) \in 0..(Cardinality(S) - 1)
  <2>1. i \in Nat /\ i \notin Newer(S, i)
        BY DEF LineSet, Newer
  <2>2. Rank(S, i) # Cardinality(S)
        BY <1>2, <2>1
  <2> QED BY <1>1, <1>2, <2>1, <2>2
<1> QED BY <1>1, <1>2, <1>3

\* The newer of two lines has the smaller rank.
LEMMA RankDescends ==
  ASSUME NEW S, LineSet(S), NEW i \in S, NEW j \in S, i < j
  PROVE  Rank(S, j) < Rank(S, i)
<1>1. i \in Nat /\ j \in Nat
      BY DEF LineSet
<1>2. Newer(S, j) \in SUBSET Newer(S, i) /\ j \in Newer(S, i) /\ j \notin Newer(S, j)
  <2>1. \A m \in S : m \in Nat
        BY DEF LineSet
  <2>2. ASSUME NEW m \in S, m > j PROVE m > i
        BY <1>1, <2>1, <2>2
  <2>3. Newer(S, j) \subseteq Newer(S, i)
        BY <2>2 DEF Newer
  <2>4. j > i /\ ~(j > j)
        BY <1>1
  <2>5. j \in Newer(S, i) /\ j \notin Newer(S, j)
        BY <2>4 DEF Newer
  <2> QED BY <2>3, <2>5
<1>3. IsFiniteSet(Newer(S, i)) /\ Rank(S, i) \in Nat /\ Rank(S, j) \in Nat
      BY <1>1, RankType
<1>4. /\ Rank(S, j) <= Rank(S, i)
      /\ Rank(S, i) = Rank(S, j) => Newer(S, i) = Newer(S, j)
      BY <1>2, <1>3, FS_Subset DEF Rank
<1> QED BY <1>2, <1>3, <1>4

\* Each rank below the number of lines is that of one of them.
LEMMA RankOnto ==
  ASSUME NEW S, LineSet(S), NEW r \in 0..(Cardinality(S) - 1)
  PROVE  \E i \in S : Rank(S, i) = r
<1> DEFINE T == 0..(Cardinality(S) - 1)
           f == [i \in S |-> Rank(S, i)]
<1>1. Cardinality(S) \in Nat /\ S \subseteq Nat
      BY RankType DEF LineSet
<1>2. IsFiniteSet(T) /\ Cardinality(T) = Cardinality(S)
      BY <1>1, UpTo
<1>3. f \in [S -> T]
      BY RankType
<1>4. ASSUME NEW a \in S, NEW b \in S, f[a] = f[b] PROVE a = b
  <2>1. a \in Nat /\ b \in Nat /\ Rank(S, a) = Rank(S, b)
        BY <1>1, <1>4
  <2>2. Rank(S, a) \in Int
        BY <2>1, RankType
  <2>3. ~(a < b) /\ ~(b < a)
        BY <2>1, <2>2, RankDescends
  <2> QED BY <2>1, <2>3
<1> HIDE DEF f, T
<1>5. f \in Injection(S, T)
      BY <1>3, <1>4, Fun_IsInj
<1>6. f \in Surjection(S, T)
      BY <1>2, <1>5, FS_Injection
<1>7. \E i \in S : f[i] = r
      BY <1>6 DEF Surjection, T
<1> QED BY <1>7 DEF f

\* NewestFirst lists the lines of a set, each once, from the newest down.
LEMMA NewestFirstIs ==
  ASSUME NEW S, LineSet(S)
  PROVE  /\ NewestFirst(S) \in Seq(S)
         /\ \A k \in DOMAIN NewestFirst(S) : NewestFirst(S)[k] \in S
         /\ \A k, l \in DOMAIN NewestFirst(S) :
               k < l => NewestFirst(S)[k] > NewestFirst(S)[l]
         /\ \A i \in S : \E k \in DOMAIN NewestFirst(S) : NewestFirst(S)[k] = i
<1> DEFINE N == NewestFirst(S)
           c == Cardinality(S)
<1>1. c \in Nat /\ S \subseteq Nat
      BY RankType DEF LineSet
<1>2. DOMAIN N = 1..c
      BY DEF NewestFirst
<1>3. ASSUME NEW k \in 1..c PROVE N[k] \in S /\ Rank(S, N[k]) = k - 1
  <2>1. k - 1 \in 0..(c - 1)
        BY <1>1
  <2>2. \E i \in S : Rank(S, i) = k - 1
        BY <2>1, RankOnto
  <2>3. N[k] = CHOOSE i \in S : Rank(S, i) = k - 1
        BY DEF NewestFirst, Rank, Newer
  <2> QED BY <2>2, <2>3
<1>4. N \in Seq(S)
  <2> DEFINE at(k) == CHOOSE i \in S : Rank(S, i) = k - 1
  <2>1. N = [k \in 1..c |-> at(k)]
        BY DEF NewestFirst, Rank, Newer
  <2>2. \A k \in 1..c : at(k) \in S
        BY <1>3, <2>1
  <2> HIDE DEF N, at
  <2> QED BY <1>1, <2>1, <2>2
<1> HIDE DEF N, c
<1>5. ASSUME NEW k \in 1..c, NEW l \in 1..c, k < l PROVE N[k] > N[l]
  <2>1. N[k] \in Nat /\ N[l] \in Nat /\ N[k] \in S /\ N[l] \in S
        BY <1>1, <1>3
  <2>2. Rank(S, N[k]) < Rank(S, N[l])
        BY <1>1, <1>3, <1>5
  <2>3. N[k] # N[l]
        BY <1>1, <1>3, <1>5
  <2>4. ~(N[k] < N[l])
    <3> SUFFICES ASSUME N[k] < N[l] PROVE FALSE
        OBVIOUS
    <3>1. Rank(S, N[l]) < Rank(S, N[k])
          BY <2>1, RankDescends
    <3>2. Rank(S, N[l]) = l - 1 /\ Rank(S, N[k]) = k - 1
          BY <1>3
    <3> QED BY <1>1, <1>5, <3>1, <3>2
  <2> QED BY <2>1, <2>3, <2>4
<1>6. ASSUME NEW i \in S PROVE \E k \in 1..c : N[k] = i
  <2> DEFINE k == Rank(S, i) + 1
  <2>1. Rank(S, i) \in 0..(c - 1)
        BY RankType DEF c
  <2>2. k \in 1..c /\ k - 1 = Rank(S, i)
        BY <1>1, <2>1
  <2>3. N[k] \in S /\ Rank(S, N[k]) = Rank(S, i)
        BY <1>3, <2>2
  <2>4. i \in Nat /\ N[k] \in Nat
        BY <1>1, <2>3
  <2>5. Rank(S, i) \in Int
        BY <1>1, <2>1
  <2>6. ~(N[k] < i) /\ ~(i < N[k])
        BY <2>3, <2>5, RankDescends
  <2>7. N[k] = i
        BY <2>4, <2>6
  <2> QED BY <2>2, <2>7
<1> QED BY <1>2, <1>3, <1>4, <1>5, <1>6 DEF N

\* A page holds the newest of the matching lines: with a line, every newer
\* one; and if any is left over, the page is full.
LEMMA PageIs ==
  ASSUME LineSet(Found)
  PROVE  /\ Page \subseteq Found /\ LineSet(Page)
         /\ \A i \in Page, j \in Found : j > i => j \in Page
         /\ Page # Found => Full
<1>1. Found \subseteq Nat /\ Limit \in Nat \ {0}
      BY AuditAssumption DEF LineSet, AuditAssumption
<1>2. Page = {i \in Found : Rank(Found, i) < Limit}
      BY DEF Page, Rank, Newer
<1>3. Page \subseteq Found /\ LineSet(Page)
  <2>1. Page \in SUBSET Found
        BY <1>2
  <2>2. IsFiniteSet(Page)
        BY <2>1, FS_Subset DEF LineSet
  <2> QED BY <1>1, <2>1, <2>2 DEF LineSet
<1>4. ASSUME NEW i \in Page, NEW j \in Found, j > i PROVE j \in Page
  <2>1. i \in Found /\ Rank(Found, i) < Limit /\ i < j
        BY <1>1, <1>2, <1>4
  <2>2. Rank(Found, j) < Rank(Found, i)
        BY <2>1, RankDescends
  <2>3. Rank(Found, i) \in Int /\ Rank(Found, j) \in Int
        BY <1>1, <2>1, RankType
  <2> QED BY <1>1, <1>2, <2>1, <2>2, <2>3
<1>5. \A i \in Page : Rank(Page, i) = Rank(Found, i)
  <2> TAKE i \in Page
  <2>1. Newer(Page, i) = Newer(Found, i)
        BY <1>3, <1>4 DEF Newer
  <2> QED BY <2>1 DEF Rank
<1>6. Cardinality(Page) \in Nat
      BY <1>3, RankType
<1>7. Cardinality(Page) <= Limit
  <2> SUFFICES ASSUME Cardinality(Page) > Limit PROVE FALSE
      BY <1>1, <1>6
  <2>1. Limit \in 0..(Cardinality(Page) - 1)
        BY <1>1, <1>6
  <2>2. PICK i \in Page : Rank(Page, i) = Limit
        BY <1>3, <2>1, RankOnto
  <2> QED BY <1>1, <1>2, <1>5, <2>2
<1>8. ASSUME Page # Found PROVE Full
  <2>1. PICK i \in Found : ~(Rank(Found, i) < Limit)
        BY <1>2, <1>8
  <2>2. Rank(Found, i) \in 0..(Cardinality(Found) - 1) /\ Cardinality(Found) \in Nat
        BY RankType
  <2>3. Limit - 1 \in 0..(Cardinality(Found) - 1)
        BY <1>1, <2>1, <2>2
  <2>4. PICK m \in Found : Rank(Found, m) = Limit - 1
        BY <2>3, RankOnto
  <2>5. m \in Page
        BY <1>1, <1>2, <2>4
  <2>6. Rank(Page, m) = Limit - 1 /\ Rank(Page, m) \in 0..(Cardinality(Page) - 1)
        BY <1>3, <1>5, <2>4, <2>5, RankType
  <2> QED BY <1>1, <1>6, <1>7, <2>6 DEF Full
<1> QED BY <1>3, <1>4, <1>8

\* A full page has an oldest line.
LEMMA OldestIs ==
  ASSUME LineSet(Page), Full
  PROVE  Oldest \in Page /\ \A j \in Page : Oldest <= j
<1>1. Limit \in Nat \ {0} /\ Cardinality(Page) = Limit /\ Page \subseteq Nat
      BY AuditAssumption DEF AuditAssumption, Full, LineSet
<1>2. Limit - 1 \in 0..(Cardinality(Page) - 1)
      BY <1>1
<1>3. PICK m \in Page : Rank(Page, m) = Limit - 1
      BY <1>2, RankOnto
<1>4. ASSUME NEW j \in Page PROVE m <= j
  <2> SUFFICES ASSUME j < m PROVE FALSE
      BY <1>1
  <2>1. Rank(Page, m) < Rank(Page, j)
        BY RankDescends
  <2>2. Rank(Page, j) \in 0..(Cardinality(Page) - 1)
        BY RankType
  <2> QED BY <1>1, <1>3, <2>1, <2>2
<1> QED BY <1>3, <1>4 DEF Oldest

\* Nothing is lost between two pages: the lines of this one are those behind
\* the next cursor, and all there are if there is none.
LEMMA CursorCuts ==
  ASSUME LineSet(Found)
  PROVE  /\ NextCursor = -1 => Page = Found
         /\ NextCursor # -1 =>
               /\ NextCursor \in Nat /\ NextCursor + 1 \in Page
               /\ \A i \in Found : i \in Page <=> i > NextCursor
<1>1. /\ Page \subseteq Found /\ LineSet(Page)
      /\ Page # Found => Full
      /\ \A i \in Page, j \in Found : j > i => j \in Page
      BY PageIs
<1>2. Found \subseteq Nat
      BY DEF LineSet
<1>3. CASE ~Full
      BY <1>1, <1>3 DEF NextCursor
<1>4. CASE Full
  <2>1. Oldest \in Page /\ \A j \in Page : Oldest <= j
        BY <1>1, <1>4, OldestIs
  <2>2. Oldest \in Nat
        BY <1>1, <1>2, <2>1
  <2>3. \A i \in Found : i \in Page <=> i >= Oldest
    <3> TAKE i \in Found
    <3>1. i \in Nat
          BY <1>2
    <3>2. i >= Oldest => i = Oldest \/ i > Oldest
          BY <2>2, <3>1
    <3>3. i \in Page => i >= Oldest
          BY <2>2, <2>1, <3>1
    <3> QED BY <1>1, <2>1, <3>1, <3>2, <3>3
  <2>4. CASE Oldest > 0
    <3>1. NextCursor = Oldest - 1
          BY <1>4, <2>4 DEF NextCursor
    <3>2. NextCursor \in Nat /\ NextCursor + 1 = Oldest
          BY <2>2, <2>4, <3>1
    <3>3. \A i \in Nat : i > NextCursor <=> i >= Oldest
          BY <2>2, <3>1
    <3> HIDE DEF NextCursor
    <3>4. NextCursor # -1
          BY <3>2
    <3>5. \A i \in Found : i \in Page <=> i > NextCursor
          BY <1>2, <2>3, <3>3
    <3> QED BY <2>1, <3>2, <3>4, <3>5
  <2>5. CASE ~(Oldest > 0)
    <3>1. NextCursor = -1
          BY <2>5 DEF NextCursor
    <3>2. \A i \in Found : i >= Oldest
          BY <1>2, <2>2, <2>5
    <3> QED BY <1>1, <2>3, <3>1, <3>2
  <2> QED BY <2>4, <2>5
<1> QED BY <1>3, <1>4

------------------------------------------------------------------------------
\* The walk.

\* The events of a sequence, and a sequence that goes from the newest down.
Elements(s) == {s[k] : k \in DOMAIN s}
Descends(s) == \A j, k \in DOMAIN s : j < k => s[j] > s[k]

LEMMA ElementsType ==
  ASSUME NEW T, NEW s \in Seq(T) PROVE Elements(s) \subseteq T
BY DEF Elements

LEMMA ConcatDescends ==
  ASSUME NEW m \in Nat, NEW s \in Seq(1..m), NEW t \in Seq(1..m),
         Descends(s), Descends(t),
         \A j \in DOMAIN s, k \in DOMAIN t : s[j] > t[k]
  PROVE  /\ s \o t \in Seq(1..m) /\ Descends(s \o t)
         /\ Elements(s \o t) = Elements(s) \cup Elements(t)
<1> DEFINE st == s \o t
<1>1. /\ Len(s) \in Nat /\ Len(t) \in Nat
      /\ DOMAIN s = 1..Len(s) /\ DOMAIN t = 1..Len(t)
      OBVIOUS
<1>2. /\ st \in Seq(1..m) /\ Len(st) = Len(s) + Len(t)
      /\ \A i \in 1..(Len(s) + Len(t)) :
            st[i] = IF i <= Len(s) THEN s[i] ELSE t[i - Len(s)]
      BY ConcatProperties
<1> HIDE DEF st
<1>3. DOMAIN st = 1..(Len(s) + Len(t))
      BY <1>2
<1>4. ASSUME NEW i \in DOMAIN st
      PROVE  \/ i \in DOMAIN s /\ st[i] = s[i]
             \/ /\ i > Len(s) /\ i - Len(s) \in DOMAIN t
                /\ st[i] = t[i - Len(s)]
      BY <1>1, <1>2, <1>3
<1>5. Descends(st)
  <2> SUFFICES ASSUME NEW j \in DOMAIN st, NEW k \in DOMAIN st, j < k
               PROVE  st[j] > st[k]
      BY DEF Descends
  <2>0. j \in Nat /\ k \in Nat
        BY <1>1, <1>3
  <2>1. CASE j \in DOMAIN s /\ st[j] = s[j] /\ k \in DOMAIN s /\ st[k] = s[k]
        BY <2>1 DEF Descends
  <2>2. CASE /\ j \in DOMAIN s /\ st[j] = s[j]
             /\ k - Len(s) \in DOMAIN t /\ st[k] = t[k - Len(s)]
        BY <2>2
  <2>3. CASE /\ j - Len(s) \in DOMAIN t /\ st[j] = t[j - Len(s)]
             /\ k - Len(s) \in DOMAIN t /\ st[k] = t[k - Len(s)]
        BY <1>1, <2>0, <2>3 DEF Descends
  <2>4. ~(j > Len(s) /\ k \in DOMAIN s)
        BY <1>1, <2>0
  <2> QED BY <1>4, <2>1, <2>2, <2>3, <2>4
<1>6. Elements(st) = Elements(s) \cup Elements(t)
  <2>1. ASSUME NEW i \in DOMAIN s PROVE i \in DOMAIN st /\ st[i] = s[i]
        BY <1>1, <1>2, <1>3
  <2>2. ASSUME NEW i \in DOMAIN t
        PROVE  i + Len(s) \in DOMAIN st /\ st[i + Len(s)] = t[i]
    <3>1. i + Len(s) \in 1..(Len(s) + Len(t)) /\ ~(i + Len(s) <= Len(s))
          BY <1>1
    <3>2. (i + Len(s)) - Len(s) = i
          BY <1>1
    <3> QED BY <1>2, <1>3, <3>1, <3>2
  <2>3. Elements(s) \subseteq Elements(st)
        BY <2>1 DEF Elements
  <2>4. Elements(t) \subseteq Elements(st)
        BY <2>2 DEF Elements
  <2>5. Elements(st) \subseteq Elements(s) \cup Elements(t)
        BY <1>4 DEF Elements
  <2> QED BY <2>3, <2>4, <2>5
<1> QED BY <1>2, <1>5, <1>6 DEF st

\* The matching lines a walk has still to visit.
Ahead == {i \in 0..cursor : Matches(i)}

Number(i) == Line(i)[1].n

\* The events the client has not been given: those ahead, unless a read failed.
Rest == IF failed THEN due \ Elements(got) ELSE {Number(i) : i \in Ahead}

\* What the client has and the rest make up what was due, and all of the rest
\* is older than all it has.  No append reaches what is ahead: the line at the
\* cursor is never the last one.
WalkInv ==
  /\ walking \in BOOLEAN /\ failed \in BOOLEAN
  /\ got \in Seq(1..MaxEvents) /\ Descends(got)
  /\ Rest \subseteq 1..MaxEvents /\ due = Elements(got) \cup Rest
  /\ \A k \in DOMAIN got, n \in Rest : got[k] > n
  /\ walking => ~failed
  /\ IF walking THEN cursor \in 0..(Len(log) - 2) ELSE cursor = -1

\* A matching line is one of the log, and has its place among the others.
LEMMA NumberIs ==
  ASSUME LogInv, LinesInv, NEW i \in Nat, Matches(i)
  PROVE  /\ i < Len(log) /\ Number(i) \in 1..MaxEvents
         /\ \A j \in Nat : Matches(j) /\ i < j => Number(i) < Number(j)
<1>0. /\ size \in 0..MaxEvents /\ MaxEvents \in Nat
      /\ log \in Seq(Seq(Event)) /\ Len(log) \in Nat /\ DOMAIN log = 1..Len(log)
      BY AuditAssumption DEF LogInv, AuditAssumption
<1>1. ASSUME NEW j \in Nat, Matches(j)
      PROVE  j < Len(log) /\ j + 1 \in DOMAIN log /\ Number(j) = log[j + 1][1].n
  <2>1. j < Len(log)
    <3> SUFFICES ASSUME ~(j < Len(log)) PROVE FALSE
        OBVIOUS
    <3>1. Line(j) = <<>>
          BY DEF Line
    <3>2. Len(Line(j)) = 0
          BY <3>1
    <3> QED BY <1>1, <3>2 DEF Matches, Readable
  <2>2. j + 1 \in DOMAIN log
        BY <1>0, <2>1
  <2> QED BY <2>1, <2>2 DEF Number, Line
<1>2. i < Len(log) /\ i + 1 \in DOMAIN log /\ Number(i) = log[i + 1][1].n
      BY <1>1
<1>3. Number(i) \in 1..MaxEvents
  <2>1. Number(i) \in 1..size
        BY <1>2 DEF LinesInv
  <2> QED BY <1>0, <2>1
<1>4. ASSUME NEW j \in Nat, Matches(j), i < j PROVE Number(i) < Number(j)
  <2>1. j + 1 \in DOMAIN log /\ Number(j) = log[j + 1][1].n
        BY <1>1, <1>4
  <2>2. i + 1 < j + 1
        BY <1>4
  <2> QED BY <1>2, <2>1, <2>2 DEF LinesInv
<1> QED BY <1>2, <1>3, <1>4

\* A page is looked for among the lines ahead of a walk, and at its beginning
\* among all there are.
LEMMA FoundIs ==
  ASSUME LogInv, LinesInv, WalkInv
  PROVE  /\ LineSet(Found) /\ Start \in Int
         /\ walking => Found = Ahead
         /\ ~walking => Found = {i \in 0..(Len(log) - 1) : Matches(i)}
<1>1. Len(log) \in Nat /\ LineCount \in Nat /\ LineCount - 1 \in {Len(log) - 1, Len(log)}
      BY DEF LogInv, LineCount
<1>2. cursor \in Int /\ (walking => cursor \in 0..(Len(log) - 2))
      /\ (~walking => cursor = -1)
      BY <1>1 DEF WalkInv
<1>3. Start \in Int
      BY <1>1, <1>2 DEF Start
<1>4. LineSet(Found)
  <2>1. IsFiniteSet(0..Start)
    <3>1. 0 \in Int
          OBVIOUS
    <3> QED BY <1>3, <3>1, FS_Interval
  <2>2. Found \in SUBSET (0..Start)
        BY DEF Found
  <2>3. IsFiniteSet(Found)
        BY <2>1, <2>2, FS_Subset
  <2>4. 0..Start \subseteq Nat
        BY <1>3
  <2> QED BY <2>2, <2>3, <2>4 DEF LineSet
<1>5. ASSUME walking PROVE Found = Ahead
  <2>1. cursor # -1 /\ ~(cursor >= LineCount)
        BY <1>1, <1>2, <1>5
  <2>2. Start = cursor
        BY <2>1 DEF Start
  <2> QED BY <2>2 DEF Found, Ahead
<1>6. ASSUME ~walking PROVE Found = {i \in 0..(Len(log) - 1) : Matches(i)}
  <2>1. Start = LineCount - 1
        BY <1>2, <1>6 DEF Start
  <2>2. ASSUME NEW i \in 0..Start, Matches(i) PROVE i \in 0..(Len(log) - 1)
    <3>1. i \in Nat
          BY <1>3
    <3>2. i < Len(log)
          BY <2>2, <3>1, NumberIs
    <3> QED BY <1>1, <3>1, <3>2
  <2>3. \A i \in 0..(Len(log) - 1) : i \in 0..Start
        BY <1>1, <2>1
  <2> QED BY <2>2, <2>3 DEF Found
<1> QED BY <1>3, <1>4, <1>5, <1>6

\* The numbers of a page: those of its lines, from the newest down.
LEMMA NumbersAre ==
  ASSUME LogInv, LinesInv, NEW S, LineSet(S), \A i \in S : Matches(i)
  PROVE  /\ Numbers(NewestFirst(S)) \in Seq(1..MaxEvents)
         /\ Descends(Numbers(NewestFirst(S)))
         /\ Elements(Numbers(NewestFirst(S))) = {Number(i) : i \in S}
<1> DEFINE f == NewestFirst(S)
           t == Numbers(f)
<1>1. /\ f \in Seq(S)
      /\ \A k \in DOMAIN f : f[k] \in S
      /\ \A k, l \in DOMAIN f : k < l => f[k] > f[l]
      /\ \A i \in S : \E k \in DOMAIN f : f[k] = i
      BY NewestFirstIs
<1>2. S \subseteq Nat
      BY DEF LineSet
<1> HIDE DEF f
<1>3. t = [k \in DOMAIN f |-> Number(f[k])]
      BY DEF Numbers, Number
<1>4. \A k \in DOMAIN f : Number(f[k]) \in 1..MaxEvents
      BY <1>1, <1>2, NumberIs
<1>5. Len(f) \in Nat /\ DOMAIN f = 1..Len(f)
      BY <1>1
<1> HIDE DEF t
<1>6. t \in Seq(1..MaxEvents)
  <2>1. t \in [1..Len(f) -> 1..MaxEvents]
        BY <1>3, <1>4, <1>5
  <2> QED BY <1>5, <2>1, SeqDef
<1>7. ASSUME NEW j \in DOMAIN f, NEW k \in DOMAIN f, j < k PROVE t[j] > t[k]
  <2>1. f[j] \in Nat /\ f[k] \in Nat /\ f[k] < f[j] /\ Matches(f[j]) /\ Matches(f[k])
    <3>1. f[j] \in S /\ f[k] \in S /\ f[j] > f[k]
          BY <1>1, <1>7
    <3> QED BY <1>2, <3>1
  <2>2. Number(f[k]) < Number(f[j])
        BY <2>1, NumberIs
  <2>3. Number(f[j]) \in Nat /\ Number(f[k]) \in Nat
        BY <1>4
  <2> QED BY <1>3, <2>2, <2>3
<1>8. Elements(t) = {Number(i) : i \in S}
      BY <1>1, <1>3 DEF Elements
<1> QED BY <1>3, <1>6, <1>7, <1>8 DEF Descends, t, f

\* A response adds the page and leaves ahead what was found and is not on it.
LEMMA AnswerIs ==
  ASSUME LogInv, LinesInv, WalkInv,
         NEW before \in Seq(1..MaxEvents), Descends(before),
         \A k \in DOMAIN before, i \in Found : before[k] > Number(i),
         Answer(before),
         due' = Elements(before) \cup {Number(i) : i \in Found}
  PROVE  WalkInv'
<1>0. MaxEvents \in Nat /\ Len(log) \in Nat
      BY AuditAssumption DEF AuditAssumption, LogInv
<1>1. LineSet(Found) /\ Start \in Int /\ Found \subseteq Nat
      BY FoundIs DEF LineSet
<1>2. /\ Page \subseteq Found /\ LineSet(Page)
      /\ NextCursor = -1 => Page = Found
      /\ NextCursor # -1 =>
            /\ NextCursor \in Nat /\ NextCursor + 1 \in Page
            /\ \A i \in Found : i \in Page <=> i > NextCursor
      BY <1>1, PageIs, CursorCuts
<1>3. \A i \in Found : Matches(i)
      BY DEF Found
<1> DEFINE t == Numbers(NewestFirst(Page))
<1>4. /\ t \in Seq(1..MaxEvents) /\ Descends(t)
      /\ Elements(t) = {Number(i) : i \in Page}
      BY <1>2, <1>3, NumbersAre
<1>5. /\ got' = before \o t /\ cursor' = NextCursor /\ failed' = FALSE
      /\ walking' = (NextCursor # -1) /\ UNCHANGED logVars
      BY DEF Answer
<1> HIDE DEF t
<1>6. /\ \A i : Number(i)' = Number(i) /\ (Matches(i)' <=> Matches(i))
      /\ log' = log
      BY <1>5 DEF logVars, Number, Matches, Readable, Line
<1>7. Ahead' = Found \ Page
  <2>1. Ahead' = {i \in 0..NextCursor : Matches(i)}
        BY <1>5, <1>6 DEF Ahead
  <2>2. CASE NextCursor = -1
    <3>1. 0..NextCursor = {}
          BY <2>2
    <3> QED BY <1>2, <2>1, <2>2, <3>1
  <2>3. CASE NextCursor # -1
    <3>1. NextCursor \in Nat /\ NextCursor + 1 \in Found
          BY <1>2, <2>3
    <3>2. NextCursor + 1 \in 0..Start
          BY <3>1 DEF Found
    <3>3. \A i \in 0..NextCursor : i \in 0..Start /\ ~(i > NextCursor)
          BY <1>1, <3>1, <3>2
    <3>4. \A i \in Nat : ~(i > NextCursor) => i \in 0..NextCursor
          BY <3>1
    <3>5. Ahead' = {i \in Found : ~(i > NextCursor)}
          BY <1>1, <2>1, <3>3, <3>4 DEF Found
    <3> QED BY <1>2, <2>3, <3>5
  <2> QED BY <2>2, <2>3
<1>8. ASSUME NEW j \in DOMAIN before, NEW k \in DOMAIN t PROVE before[j] > t[k]
  <2>1. t[k] \in Elements(t)
        BY DEF Elements
  <2>2. PICK i \in Page : t[k] = Number(i)
        BY <1>4, <2>1
  <2> QED BY <1>2, <2>2
<1>9. /\ got' \in Seq(1..MaxEvents) /\ Descends(got')
      /\ Elements(got') = Elements(before) \cup Elements(t)
      BY <1>0, <1>4, <1>5, <1>8, ConcatDescends
<1>10. due' = Elements(got') \cup {Number(i) : i \in Found \ Page}
      BY <1>2, <1>4, <1>9
<1>11. ASSUME NEW k \in DOMAIN got', NEW i \in Found \ Page
       PROVE  got'[k] > Number(i)
  <2>1. got'[k] \in Elements(before) \cup {Number(j) : j \in Page}
        BY <1>4, <1>9 DEF Elements
  <2>2. CASE got'[k] \in Elements(before)
        BY <2>2 DEF Elements
  <2>3. CASE got'[k] \in {Number(j) : j \in Page}
    <3>1. PICK j \in Page : got'[k] = Number(j)
          BY <2>3
    <3>2. i \in Nat /\ j \in Nat /\ j \in Found /\ i \in Found
          BY <1>1, <1>2
    <3>3. i < j
          BY <1>2, <3>2
    <3>4. Number(i) < Number(j) /\ Number(i) \in Nat /\ Number(j) \in Nat
          BY <1>3, <3>2, <3>3, NumberIs
    <3> QED BY <3>1, <3>4
  <2> QED BY <2>1, <2>2, <2>3
<1>12. IF walking' THEN cursor' \in 0..(Len(log) - 2) ELSE cursor' = -1
  <2>1. CASE NextCursor = -1
        BY <1>5, <2>1
  <2>2. CASE NextCursor # -1
    <3>1. NextCursor \in Nat /\ NextCursor + 1 \in Found
          BY <1>2, <2>2
    <3>2. NextCursor + 1 < Len(log)
          BY <1>1, <1>3, <3>1, NumberIs
    <3>3. NextCursor \in 0..(Len(log) - 2)
          BY <1>0, <3>1, <3>2
    <3> QED BY <1>5, <2>2, <3>3
  <2> QED BY <2>1, <2>2
<1>13. walking' \in BOOLEAN
      BY <1>5, Zenon
<1>14. Rest' = {Number(i) : i \in Found \ Page}
  <2>1. Rest' = {Number(i)' : i \in Ahead'}
        BY <1>5 DEF Rest
  <2> QED BY <1>6, <1>7, <2>1
<1>15. Rest' \subseteq 1..MaxEvents
      BY <1>1, <1>3, <1>14, NumberIs
<1>16. due' = Elements(got') \cup Rest'
      BY <1>10, <1>14
<1>17. \A k \in DOMAIN got', n \in Rest' : got'[k] > n
      BY <1>11, <1>14
<1> QED BY <1>5, <1>6, <1>9, <1>12, <1>13, <1>15, <1>16, <1>17, Zenon
        DEF WalkInv, Elements, Descends

\* A read that fails leaves the rest of what was due as the rest.
LEMMA FailureIs ==
  ASSUME NEW before \in Seq(1..MaxEvents), Descends(before), ReadFails(before),
         NEW S, S \subseteq 1..MaxEvents,
         \A k \in DOMAIN before, n \in S : before[k] > n,
         due' = Elements(before) \cup S
  PROVE  WalkInv'
<1>1. got' = before /\ cursor' = -1 /\ walking' = FALSE /\ failed' = TRUE
      BY DEF ReadFails
<1>2. Elements(got') = Elements(before)
      BY <1>1 DEF Elements
<1>3. Rest' = due' \ Elements(got')
      BY <1>1 DEF Rest, Elements
<1>4. Rest' \subseteq S /\ due' = Elements(got') \cup Rest'
      BY <1>2, <1>3
<1>5. \A k \in DOMAIN got', n \in Rest' : got'[k] > n
      BY <1>1, <1>4
<1>6. got' \in Seq(1..MaxEvents) /\ Descends(got')
      BY <1>1
<1>7. Rest' \subseteq 1..MaxEvents
      BY <1>4
<1> QED BY <1>1, <1>4, <1>5, <1>6, <1>7, Zenon DEF WalkInv, Elements, Descends

\* An append leaves alone what is ahead of a walk.
LogGrows ==
  /\ log' \in Seq(Seq(Event)) /\ Len(log') >= Len(log)
  /\ \A i \in DOMAIN log : i # Len(log) => log'[i] = log[i]

LEMMA AheadStays ==
  ASSUME LogInv, WalkInv, UNCHANGED walkVars, LogGrows
  PROVE  WalkInv'
<1>0. /\ Len(log) \in Nat /\ DOMAIN log = 1..Len(log)
      /\ Len(log') \in Nat /\ Len(log') >= Len(log)
      BY DEF LogInv, LogGrows
<1>1. UNCHANGED <<walking, cursor, got, due, failed>>
      BY DEF walkVars
<1>2. cursor \in 0..(Len(log) - 2) \/ 0..cursor = {}
  <2>1. cursor \in 0..(Len(log) - 2) \/ cursor = -1
        BY DEF WalkInv
  <2> QED BY <2>1
<1>3. ASSUME NEW i \in 0..cursor
      PROVE  (Matches(i)' <=> Matches(i)) /\ Number(i)' = Number(i)
  <2>1. cursor \in 0..(Len(log) - 2)
        BY <1>2
  <2>2. i \in Nat /\ i + 1 \in 1..Len(log) /\ i + 1 # Len(log) /\ i < Len(log)
    <3>1. Len(log) \in Nat
          BY <1>0
    <3> QED BY <2>1, <3>1
  <2>3. log'[i + 1] = log[i + 1]
        BY <1>0, <2>2 DEF LogGrows
  <2>4. i < Len(log')
    <3>1. Len(log) \in Nat /\ Len(log') \in Nat /\ Len(log') >= Len(log)
          BY <1>0
    <3> QED BY <2>2, <3>1
  <2>5. Line(i)' = Line(i)
        BY <2>2, <2>3, <2>4 DEF Line
  <2> QED BY <2>5 DEF Matches, Readable, Number
<1>4. Ahead' = Ahead
      BY <1>1, <1>3 DEF Ahead
<1>5. \A i \in Ahead : Number(i)' = Number(i)
      BY <1>3 DEF Ahead
<1>6. {Number(i)' : i \in Ahead'} = {Number(i) : i \in Ahead}
      BY <1>4, <1>5
<1>7. IF walking' THEN cursor' \in 0..(Len(log') - 2) ELSE cursor' = -1
  <2>1. walking => cursor \in 0..(Len(log) - 2)
        BY DEF WalkInv
  <2>2. walking => cursor \in 0..(Len(log') - 2)
        BY <1>0, <2>1
  <2>3. ~walking => cursor = -1
        BY DEF WalkInv
  <2> QED BY <1>1, <2>2, <2>3
<1>8. Rest' = Rest /\ Elements(got') = Elements(got)
      BY <1>1, <1>6 DEF Rest, Elements
<1>9. /\ Rest' \subseteq 1..MaxEvents /\ due' = Elements(got') \cup Rest'
      /\ \A k \in DOMAIN got', n \in Rest' : got'[k] > n
      /\ walking' => ~failed'
      BY <1>1, <1>8 DEF WalkInv
<1>10. /\ walking' \in BOOLEAN /\ failed' \in BOOLEAN /\ got' \in Seq(1..MaxEvents)
       /\ \A j, k \in DOMAIN got' : j < k => got'[j] > got'[k]
       BY <1>1, Zenon DEF WalkInv, Descends
<1> QED BY <1>7, <1>9, <1>10, Zenon DEF WalkInv, Elements, Descends

\* A walk that is over, and one that never began, have nothing ahead.
LEMMA NoWalk ==
  ASSUME walking = FALSE, cursor = -1, got = <<>>, due = {}, failed = FALSE
  PROVE  WalkInv
<1>1. 0..cursor = {}
      OBVIOUS
<1>2. Rest = {}
      BY <1>1 DEF Rest, Ahead
<1>3. got \in Seq(1..MaxEvents) /\ DOMAIN got = {}
      OBVIOUS
<1> QED BY <1>2, <1>3 DEF WalkInv, Elements, Descends

\* The inductive invariant of the walk.
IInv == LogInv /\ LinesInv /\ WalkInv

LEMMA WalkInit == Init => IInv
<1> SUFFICES ASSUME Init PROVE IInv
    OBVIOUS
<1>1. LogInv /\ LinesInv
      BY LogInit
<1>2. WalkInv
      BY NoWalk DEF Init
<1> QED BY <1>1, <1>2 DEF IInv

LEMMA SameLog ==
  ASSUME LogInv, WalkInv, log' = log, UNCHANGED walkVars PROVE WalkInv'
<1>1. log \in Seq(Seq(Event)) /\ Len(log) \in Nat
      BY DEF LogInv
<1>2. LogGrows
      BY <1>1 DEF LogGrows
<1> QED BY <1>2, AheadStays

LEMMA WalkNext == IInv /\ [Next]_vars => IInv'
<1> SUFFICES ASSUME IInv, [Next]_vars PROVE IInv'
    OBVIOUS
<1>0. LogInv /\ LinesInv /\ WalkInv
      BY DEF IInv
<1>1. LogInv' /\ LinesInv'
      BY <1>0, LogNext, LinesNext
<1>2. CASE Add \/ AddTorn
  <2>1. size \in Nat /\ MaxEvents \in Nat /\ size < MaxEvents
        BY <1>0, <1>2, AuditAssumption DEF LogInv, AuditAssumption, Add, AddTorn
  <2>2. PICK hit \in BOOLEAN, cut \in BOOLEAN :
          AtTheEnd([n |-> size + 1, hit |-> hit, cut |-> cut])
        BY <1>2 DEF Add, AddTorn
  <2> DEFINE e == [n |-> size + 1, hit |-> hit, cut |-> cut]
  <2>3. e \in Event /\ AtTheEnd(e)
        BY <2>1, <2>2 DEF Event
  <2> HIDE DEF e
  <2>4. /\ log' \in Seq(Seq(Event))
        /\ \A i \in DOMAIN log : i # Len(log) => log'[i] = log[i]
        /\ ended => Len(log') = Len(log) + 1
        /\ ~ended => Len(log') = Len(log)
        BY <1>0, <2>3, AppendIs
  <2>5. Len(log') >= Len(log)
    <3>1. Len(log) \in Nat
          BY <1>0 DEF LogInv
    <3> QED BY <2>4, <3>1
  <2>6. UNCHANGED walkVars
        BY <1>2 DEF Add, AddTorn, walkVars
  <2>7. WalkInv'
        BY <1>0, <2>4, <2>5, <2>6, AheadStays DEF LogGrows
  <2> QED BY <1>1, <2>7 DEF IInv
<1>3. CASE Begin
  <2>1. ~walking /\ (Answer(<<>>) \/ ReadFails(<<>>))
        /\ due' = {Line(i)[1].n : i \in {j \in 0..(Len(log) - 1) : Matches(j)}}
        BY <1>3 DEF Begin
  <2>2. Found = {j \in 0..(Len(log) - 1) : Matches(j)}
        BY <1>0, <2>1, FoundIs
  <2>3. due' = Elements(<<>>) \cup {Number(i) : i \in Found}
        BY <2>1, <2>2 DEF Elements, Number
  <2>4. /\ <<>> \in Seq(1..MaxEvents) /\ Descends(<<>>)
        /\ \A k \in DOMAIN <<>>, i \in Found : <<>>[k] > Number(i)
        BY DEF Descends
  <2>5. CASE Answer(<<>>)
    <3>1. WalkInv'
          BY <1>0, <2>3, <2>4, <2>5, AnswerIs
    <3> QED BY <1>1, <3>1 DEF IInv
  <2>6. CASE ReadFails(<<>>)
    <3>1. /\ {Number(i) : i \in Found} \subseteq 1..MaxEvents
          /\ \A k \in DOMAIN <<>>, n \in {Number(i) : i \in Found} : <<>>[k] > n
          BY <1>0, <2>4, FoundIs, NumberIs DEF Found, LineSet
    <3>2. WalkInv'
          BY <2>3, <2>4, <2>6, <3>1, FailureIs
    <3> QED BY <1>1, <3>2 DEF IInv
  <2> QED BY <2>1, <2>5, <2>6
<1>4. CASE Continue
  <2>1. walking /\ ~failed /\ (Answer(got) \/ ReadFails(got)) /\ due' = due
        BY <1>0, <1>4 DEF Continue, WalkInv
  <2>2. Found = Ahead
        BY <1>0, <2>1, FoundIs
  <2>3. /\ got \in Seq(1..MaxEvents) /\ Descends(got)
        /\ due' = Elements(got) \cup {Number(i) : i \in Found}
        /\ \A k \in DOMAIN got, i \in Found : got[k] > Number(i)
        BY <1>0, <2>1, <2>2 DEF WalkInv, Rest
  <2>4. CASE Answer(got)
    <3>1. WalkInv'
          BY <1>0, <2>3, <2>4, AnswerIs
    <3> QED BY <1>1, <3>1 DEF IInv
  <2>5. CASE ReadFails(got)
    <3>1. /\ Rest \subseteq 1..MaxEvents /\ due' = Elements(got) \cup Rest
          /\ \A k \in DOMAIN got, n \in Rest : got[k] > n
          BY <1>0, <2>1 DEF WalkInv
    <3>2. WalkInv'
          BY <2>3, <2>5, <3>1, FailureIs
    <3> QED BY <1>1, <3>2 DEF IInv
  <2> QED BY <2>1, <2>4, <2>5
<1>5. CASE UNCHANGED vars
  <2>1. log' = log /\ UNCHANGED walkVars
        BY <1>5 DEF vars, logVars
  <2>2. WalkInv'
        BY <1>0, <2>1, SameLog
  <2> QED BY <1>1, <2>2 DEF IInv
<1>6. CASE AddFails
  <2>1. log' = log /\ UNCHANGED walkVars
        BY <1>6 DEF AddFails, walkVars
  <2>2. WalkInv'
        BY <1>0, <2>1, SameLog
  <2> QED BY <1>1, <2>2 DEF IInv
<1>7. CASE MachineDown
  <2>1. walking' = FALSE /\ cursor' = -1 /\ got' = <<>> /\ due' = {} /\ failed' = FALSE
        BY <1>7 DEF MachineDown
  <2>2. 0..cursor' = {}
        BY <2>1
  <2>3. Rest' = {}
        BY <2>1, <2>2 DEF Rest, Ahead
  <2>4. got' \in Seq(1..MaxEvents) /\ DOMAIN got' = {}
        BY <2>1
  <2>5. WalkInv'
        BY <2>1, <2>3, <2>4 DEF WalkInv, Elements, Descends
  <2> QED BY <1>1, <2>5 DEF IInv
<1> QED BY <1>2, <1>3, <1>4, <1>5, <1>6, <1>7 DEF Next

\* A client that follows the cursors of AuditQuery has at any time the newest
\* of the events that matched when it began, without a gap, once and from the
\* newest down, however many events were appended, whole or torn, between its
\* pages; and in the end it has all of them, unless a read of the log failed.
THEOREM WalkIsComplete == Spec => []WalkFindsAll
<1>1. IInv => WalkFindsAll
  <2> SUFFICES ASSUME IInv PROVE
        /\ \A j, k \in DOMAIN got : j < k => got[j] > got[k]
        /\ Elements(got) \subseteq due
        /\ \A n \in due \ Elements(got), m \in Elements(got) : n < m
        /\ ~walking /\ ~failed => Elements(got) = due
      BY DEF WalkFindsAll, Elements
  <2>1. WalkInv /\ MaxEvents \in Nat
        BY AuditAssumption DEF IInv, AuditAssumption
  <2>2. Elements(got) \subseteq 1..MaxEvents
    <3>1. got \in Seq(1..MaxEvents)
          BY <2>1 DEF WalkInv
    <3> QED BY <3>1, ElementsType
  <2>3. ASSUME NEW n \in due \ Elements(got), NEW m \in Elements(got)
        PROVE  n < m
    <3>1. n \in Rest /\ n \in 1..MaxEvents
          BY <2>1 DEF WalkInv
    <3>2. PICK k \in DOMAIN got : m = got[k]
          BY DEF Elements
    <3>3. m > n
          BY <2>1, <3>1, <3>2 DEF WalkInv
    <3> QED BY <2>1, <2>2, <3>1, <3>3
  <2>4. ASSUME ~walking, ~failed PROVE Elements(got) = due
    <3>1. cursor = -1
          BY <2>1, <2>4 DEF WalkInv
    <3>2. 0..cursor = {}
          BY <3>1
    <3>3. Rest = {}
          BY <2>4, <3>2 DEF Rest, Ahead
    <3> QED BY <2>1, <3>3 DEF WalkInv
  <2>5. /\ \A j, k \in DOMAIN got : j < k => got[j] > got[k]
        /\ Elements(got) \subseteq due
        BY <2>1 DEF WalkInv, Descends
  <2> QED BY <2>3, <2>4, <2>5
<1> QED BY <1>1, WalkInit, WalkNext, PTL DEF Spec

\* The log, the cursor, and what the client was given have their types; no
\* cursor points behind the last line.
THEOREM TypeCorrect == Spec => []TypeOK
<1>1. IInv => TypeOK
  <2> SUFFICES ASSUME LogInv, WalkInv PROVE TypeOK
      BY DEF IInv
  <2>1. /\ Len(log) \in Nat /\ size \in 0..MaxEvents /\ MaxEvents \in Nat
        BY AuditAssumption DEF LogInv, AuditAssumption
  <2>2. cursor \in -1..(Len(log) - 1)
        BY <2>1 DEF WalkInv
  <2>3. torn \subseteq 1..MaxEvents
        BY <2>1 DEF LogInv
  <2>4. Elements(got) \subseteq 1..MaxEvents
    <3>1. got \in Seq(1..MaxEvents)
          BY DEF WalkInv
    <3> QED BY <3>1, ElementsType
  <2>5. due \subseteq 1..MaxEvents
        BY <2>4 DEF WalkInv
  <2>6. walking \in BOOLEAN /\ ended \in BOOLEAN /\ failed \in BOOLEAN
        BY Zenon DEF WalkInv, LogInv
  <2> QED BY <2>1, <2>2, <2>3, <2>5, <2>6 DEF TypeOK, LogInv, WalkInv
<1> QED BY <1>1, WalkInit, WalkNext, PTL DEF Spec

==============================================================================
