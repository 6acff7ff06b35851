----------------------------- MODULE Queue_proofs -----------------------------
(***************************************************************************)
(* The write-back core implements VaultQueue: it writes a note on behalf   *)
(* of the oldest pending action only, and resolves the actions in order,   *)
(* once each.                                                              *)
(*                                                                         *)
(* What is not idempotent in it, quick add, is repeated once for every     *)
(* failure at most.                                                        *)
(***************************************************************************)
EXTENDS Writes_proofs

\* The resolved actions are the first m of the queue; the daemon works on the next.
Prefix(m) ==
    /\ m \in 0..Len(queue) /\ Resolved = 1..m
    /\ pc \in {"write", "check", "rename", "finish"} => cur = m + 1

OrderInv == \E m \in Nat : Prefix(m)

LEMMA PrefixPending ==
  ASSUME TypeOK, NEW m \in Nat, Prefix(m)
  PROVE  /\ Pending = (m + 1)..Len(queue)
         /\ Cardinality(Resolved) = m
         /\ Len(queue) \in Nat
<1>1. DOMAIN queue = 1..Len(queue) /\ Len(queue) \in Nat  BY DEF TypeOK, ClientsOK
<1>2. Pending \in SUBSET DOMAIN queue  BY DEF Pending
<1>3. Pending = DOMAIN queue \ Resolved  BY <1>2 DEF Resolved
<1>4. m <= Len(queue) /\ Resolved = 1..m  BY DEF Prefix
<1>5. Cardinality(1..m) = m  BY FS_Interval
<1> QED  BY <1>1, <1>3, <1>4, <1>5

\* The oldest pending action is the one after the resolved ones.
LEMMA OldestIsNext ==
  ASSUME TypeOK, NEW m \in Nat, Prefix(m), Pending # {}
  PROVE  Oldest = m + 1
<1>1. Oldest \in Pending /\ \A j \in Pending : Oldest <= j
  BY OldestIsPending DEF TypeOK, ClientsOK
<1>2. Pending = (m + 1)..Len(queue) /\ Len(queue) \in Nat  BY PrefixPending
<1> QED  BY <1>1, <1>2

LEMMA EnqueuePrefix ==
  ASSUME TypeOK, NEW m \in Nat, Prefix(m), NEW c \in Clients, Enqueue(c)
  PROVE  Prefix(m)' /\ Len(queue') = Len(queue) + 1
<1>2. PICK a \in Gestures(c) : queue' = Append(queue, a)  BY DEF Enqueue
<1>3. a \in Action /\ a.state = "pending"  BY GesturesType DEF TypeOK
<1>4. /\ Len(queue') = Len(queue) + 1 /\ Len(queue) \in Nat
      /\ DOMAIN queue = 1..Len(queue) /\ DOMAIN queue' = 1..Len(queue')
      /\ \A k \in DOMAIN queue : queue'[k] = queue[k]
      /\ queue'[Len(queue) + 1] = a
  BY <1>2, <1>3 DEF TypeOK, ClientsOK
<1>5. Resolved' = Resolved
  <2>1. \A k \in DOMAIN queue' : k \in Resolved' <=> queue'[k].state # "pending"
    BY DEF Resolved, Pending
  <2>2. \A k \in DOMAIN queue : k \in Resolved <=> queue[k].state # "pending"
    BY DEF Resolved, Pending
  <2>3. \A k \in DOMAIN queue' : k \in DOMAIN queue \/ queue'[k] = a  BY <1>4
  <2>4. Resolved' \in SUBSET DOMAIN queue' /\ Resolved \in SUBSET DOMAIN queue
    BY DEF Resolved
  <2>5. DOMAIN queue \in SUBSET DOMAIN queue'  BY <1>4
  <2> QED  BY <1>3, <1>4, <2>1, <2>2, <2>3, <2>4, <2>5
<1>6. UNCHANGED <<pc, cur>>  BY DEF Enqueue, process
<1> QED  BY <1>4, <1>5, <1>6 DEF Prefix

LEMMA ResolvePrefix ==
  ASSUME TypeOK, NEW m \in Nat, Prefix(m), Resolve
  PROVE  Prefix(m + 1)' /\ Len(queue') = Len(queue) /\ m < Len(queue)
<1>1. /\ cur = m + 1 /\ cur \in Pending /\ pc' = "drain"
      /\ queue' = [queue EXCEPT ![cur].state = verdict]
      /\ verdict \in {"done", "failed"}
  BY DEF Resolve, TypeOK, ProcessOK, Prefix
<1>2. cur \in DOMAIN queue /\ queue[cur] \in Action /\ queue \in Seq(Action)
  BY <1>1 DEF Pending, TypeOK, ClientsOK
<1>3. /\ DOMAIN queue' = DOMAIN queue /\ Len(queue') = Len(queue) /\ Len(queue) \in Nat
      /\ \A k \in DOMAIN queue \ {cur} : queue'[k] = queue[k]
      /\ queue'[cur] = [queue[cur] EXCEPT !.state = verdict]
      /\ DOMAIN queue = 1..Len(queue)
  BY <1>1, <1>2
<1>4. queue'[cur].state = verdict  BY <1>2, <1>3 DEF Action
<1>5. Pending' = Pending \ {cur}  BY <1>1, <1>3, <1>4 DEF Pending
<1>6. Pending = (m + 1)..Len(queue)  BY PrefixPending
<1>7. Resolved' = 1..(m + 1)  BY <1>1, <1>2, <1>3, <1>5, <1>6 DEF Resolved
<1>8. m + 1 \in 0..Len(queue')  BY <1>1, <1>2, <1>3
<1> QED  BY <1>1, <1>3, <1>7, <1>8 DEF Prefix

LEMMA OtherPrefix ==
  ASSUME TypeOK, [Next]_vars, NEW m \in Nat, Prefix(m),
         \A c \in Clients : ~Enqueue(c), ~Resolve
  PROVE  Prefix(m)' /\ queue' = queue
<1>1. queue' = queue
  BY NextCases
  DEF vars, Poll, EditorSave, ScanNote, HandleEvent, Launch, Shutdown, StartWatch,
      CacheBody, StartDrain, EndDrain, TakeWrite, TakeSatisfied, TakeRefused, Take,
      WriteTemp, CheckPassed, CheckFailed, Rename, Reindex, TakeError, WriteError,
      IndexError, DrainError, Crash
<1>2. m \in 0..Len(queue') /\ Resolved' = 1..m  BY <1>1 DEF Prefix, Resolved, Pending
<1> DEFINE Busy == pc \in {"write", "check", "rename", "finish"}
<1>3. CASE TakeWrite \/ TakeSatisfied \/ TakeRefused \/ TakeError
  <2>1. Pending # {} /\ cur' = Oldest
    BY <1>3 DEF TakeWrite, TakeSatisfied, TakeRefused, TakeError, Take
  <2> QED  BY <1>1, <1>2, <2>1, OldestIsNext DEF Prefix
<1>4. CASE (Busy' => Busy) /\ (Busy' => cur' = cur)
  BY <1>1, <1>2, <1>4 DEF Prefix
<1>5. CASE ~(TakeWrite \/ TakeSatisfied \/ TakeRefused \/ TakeError)
  <2>1. ASSUME NEW n \in Notes, EditorSave(n) \/ ScanNote(n) \/ HandleEvent(n)
        PROVE  UNCHANGED <<pc, cur>>
    BY <2>1 DEF EditorSave, ScanNote, HandleEvent
  <2>2. ASSUME NEW c \in Clients, Poll(c)  PROVE UNCHANGED <<pc, cur>>
    BY <2>2 DEF Poll, process
  <2>3. (Busy' => Busy) /\ (Busy' => cur' = cur)
    BY <1>5, <2>1, <2>2, NextCases
    DEF vars, process, Launch, Shutdown, StartWatch, CacheBody, StartDrain, EndDrain, Gone,
        WriteTemp, CheckPassed, CheckFailed, GiveUp, Rename, Reindex, WriteError,
        IndexError, DrainError, Crash
  <2> QED  BY <1>4, <2>3
<1> QED  BY <1>1, <1>3, <1>5

LEMMA NextOrderInv == TypeOK /\ OrderInv /\ [Next]_vars => OrderInv'
<1> SUFFICES ASSUME TypeOK, NEW m \in Nat, Prefix(m), [Next]_vars PROVE OrderInv'
  BY DEF OrderInv
<1>1. ASSUME NEW c \in Clients, Enqueue(c)  PROVE OrderInv'
  BY <1>1, EnqueuePrefix DEF OrderInv
<1>2. CASE Resolve
  <2>1. Prefix(m + 1)' /\ m + 1 \in Nat  BY <1>2, ResolvePrefix
  <2> QED  BY <2>1 DEF OrderInv
<1>3. CASE ~Resolve /\ \A c \in Clients : ~Enqueue(c)
  BY <1>3, OtherPrefix DEF OrderInv
<1> QED  BY <1>1, <1>2, <1>3

-----------------------------------------------------------------------------
\* The refinement, state by state and step by step.

LEMMA InitRefines == Init => OrderInv /\ Queue!Init
<1> SUFFICES ASSUME Init PROVE OrderInv /\ Queue!Init  OBVIOUS
<1>1. Len(queue) = 0 /\ DOMAIN queue = {}  BY DEF Init
<1>2. Resolved = {} /\ Resolved = 1..0  BY <1>1 DEF Resolved
<1>3. Prefix(0)  BY <1>1, <1>2 DEF Init, Prefix
<1>4. Cardinality(Resolved) = 0  BY <1>2, FS_EmptySet
<1>5. [n \in Notes |-> writer[n].by] = [n \in Notes |-> 0]  BY DEF Init, Own
<1>6. note \in [Notes -> Contents \cup {Missing}]  BY VaultAssumption DEF Init
<1> QED  BY <1>1, <1>3, <1>4, <1>5, <1>6 DEF OrderInv, Queue!Init

LEMMA NextRefines ==
  TypeOK /\ TypeOK' /\ OrderInv /\ [Next]_vars => [Queue!Next]_(Queue!vars)
<1> SUFFICES ASSUME TypeOK, TypeOK', NEW m \in Nat, Prefix(m), [Next]_vars
             PROVE  [Queue!Next]_(Queue!vars)
  BY DEF OrderInv
<1> DEFINE author == [n \in Notes |-> writer[n].by]
<1>1. Cardinality(Resolved) = m /\ Len(queue) \in Nat  BY PrefixPending
<1>2. note' \in [Notes -> Contents \cup {Missing}] /\ note \in [Notes -> Contents \cup {Missing}]
  BY DEF TypeOK, VaultOK
<1>3. ASSUME NEW c \in Clients, Enqueue(c)  PROVE Queue!Enqueue
  <2>1. Prefix(m)' /\ Len(queue') = Len(queue) + 1  BY <1>3, EnqueuePrefix
  <2>2. Cardinality(Resolved') = m  BY <2>1, FS_Interval DEF Prefix
  <2>3. UNCHANGED <<note, writer>>  BY <1>3 DEF Enqueue, vault, history
  <2> QED  BY <1>1, <2>1, <2>2, <2>3 DEF Queue!Enqueue
<1>4. CASE Resolve
  <2>1. Prefix(m + 1)' /\ Len(queue') = Len(queue) /\ m < Len(queue)
    BY <1>4, ResolvePrefix
  <2>2. Resolved' = 1..(m + 1)  BY <2>1 DEF Prefix
  <2>3. Cardinality(Resolved') = m + 1  BY <2>2, FS_Interval
  <2>4. UNCHANGED <<note, writer>>  BY <1>4 DEF Resolve, vault, history
  <2> QED  BY <1>1, <2>1, <2>3, <2>4 DEF Queue!Resolve, Queue!Next
<1>5. ASSUME ~Resolve, \A c \in Clients : ~Enqueue(c)
      PROVE  /\ Len(queue') = Len(queue) /\ Cardinality(Resolved') = Cardinality(Resolved)
  BY <1>5, OtherPrefix DEF Resolved, Pending
<1>6. ASSUME NEW n \in Notes, EditorSave(n)  PROVE Queue!Edit(n)
  <2>1. \A k \in Notes \ {n} : note'[k] = note[k]
    BY <1>6 DEF EditorSave, TypeOK, VaultOK
  <2>2. author' = [author EXCEPT ![n] = 0]
    BY <1>6 DEF EditorSave, TypeOK, HistoryOK, Own
  <2>3. UNCHANGED queue  BY <1>6 DEF EditorSave
  <2> QED
    BY <1>2, <2>1, <2>2, <2>3 DEF Queue!Edit, Queue!Change, Resolved, Pending
<1>7. CASE Rename
  <2>1. Job.note \in Notes /\ cur = m + 1 /\ cur \in Pending
    BY <1>7, JobType DEF Rename, PlannedWrite, Prefix
  <2>2. m < Len(queue)  BY <1>1, <2>1, PrefixPending
  <2>3. \A k \in Notes \ {Job.note} : note'[k] = note[k]
    BY <1>7 DEF Rename, TypeOK, VaultOK
  <2>4. author' = [author EXCEPT ![Job.note] = m + 1]
    BY <1>7, <2>1 DEF Rename, TypeOK, HistoryOK
  <2>5. UNCHANGED queue  BY <1>7 DEF Rename
  <2> QED
    BY <1>1, <1>2, <2>1, <2>2, <2>3, <2>4, <2>5
    DEF Queue!Next, Queue!Write, Queue!Change, Resolved, Pending
<1>8. ASSUME ~Rename, \A n \in Notes : ~EditorSave(n)
      PROVE  UNCHANGED <<note, writer>>
  BY <1>8, NextCases
  DEF vars, vault, history, Poll, Enqueue, ScanNote, HandleEvent, Launch, Shutdown,
      StartWatch, CacheBody, StartDrain, EndDrain, TakeWrite, TakeSatisfied, TakeRefused,
      Take, WriteTemp, CheckPassed, CheckFailed, Reindex, Resolve, TakeError, WriteError,
      IndexError, DrainError, Crash
<1>9. CASE /\ ~Rename /\ ~Resolve
           /\ \A n \in Notes : ~EditorSave(n)
           /\ \A c \in Clients : ~Enqueue(c)
  <2>1. UNCHANGED <<note, author, Len(queue), Cardinality(Resolved)>>  BY <1>5, <1>8, <1>9
  <2> QED  BY <2>1 DEF Queue!vars
<1> QED  BY <1>3, <1>4, <1>6, <1>7, <1>9 DEF Queue!Next

\* For every vault and queue: scans, checks, failures and restarts amount to a queue
\* whose oldest action alone writes, and is resolved once.
THEOREM QueueImplemented == Spec => InOrderOnce
<1>1. Init => TypeOK /\ OrderInv  BY InitTypeOK, InitRefines
<1>2. TypeOK /\ OrderInv /\ [Next]_vars => (TypeOK /\ OrderInv)'
  BY NextTypeOK, NextOrderInv
<1>3. Init => Queue!Init  BY InitRefines
<1>4. Spec => Queue!Init /\ [][Queue!Next]_(Queue!vars)
  BY <1>1, <1>2, <1>3, NextRefines, PTL DEF Spec
<1> QED  BY <1>4 DEF InOrderOnce, Queue!Spec

-----------------------------------------------------------------------------
\* How often a quick add is made.

Asked(name) == {k \in DOMAIN queue : queue[k].type = "quick_add" /\ queue[k].typed = name}

LEMMA AddedAreSpots ==
  ASSUME NEW c \in Contents, NEW name
  PROVE  /\ Added(name, c) = Cardinality(Spots(c, AddedLines(name, Today)))
         /\ Added(name, c) \in Nat
<1>1. c # Missing  BY VaultAssumption
<1>2. \A i \in DOMAIN c : c[i] \in Line  BY DEF Contents
<1>3. Spots(c, AddedLines(name, Today))
      = {i \in DOMAIN c : c[i].text.name = name /\ c[i].text.added = Today}
  BY <1>2 DEF Spots, AddedLines
<1>4. Cardinality(Spots(c, AddedLines(name, Today))) \in Nat  BY SpotsFinite
<1> QED  BY <1>1, <1>3, <1>4 DEF Added

LEMMA AddedType ==
  ASSUME NEW c \in Contents \cup {Missing}, NEW name
  PROVE  Added(name, c) \in Nat
BY AddedAreSpots DEF Added

\* The write of a quick add adds what is typed once, and no other write adds it.
LEMMA WriteAdds ==
  ASSUME NEW a \in Action, a.type # "archive", NEW w \in PlannedWrite, JudgedOne(w, a), NEW name
  PROVE  /\ Added(name, w.body) <= Added(name, w.base) + 1
         /\ ~(a.type = "quick_add" /\ a.typed = name) => Added(name, w.body) <= Added(name, w.base)
<1> DEFINE L == AddedLines(name, Today)
           c == w.base
           d == w.body
<1>1. d \in Contents /\ c \in Contents \cup {Missing}  BY DEF PlannedWrite
<1>2. /\ Added(name, d) = Cardinality(Spots(d, L)) /\ Added(name, d) \in Nat
      /\ Added(name, c) \in Nat
  BY <1>1, AddedAreSpots, AddedType
<1>3. ASSUME c \in Contents, Cardinality(Spots(d, L)) <= Cardinality(Spots(c, L))
      PROVE  Added(name, d) <= Added(name, c)
  <2>1. Added(name, c) = Cardinality(Spots(c, L))  BY <1>3, AddedAreSpots
  <2> QED  BY <1>2, <1>3, <2>1
<1>4. Today # NoDate  BY RequestAssumption, TokenAssumption
<1>5. CASE a.type \in LineTypes
  <2>1. RewritesLine(w, a)  BY <1>5 DEF JudgedOne
  <2> DEFINE l == d[w.line]
  <2>2. /\ c \in Contents /\ w.line \in DOMAIN c /\ d = SetLine(c, w.line, l)
        /\ RewriteOf(c[w.line], l, a)
    BY <2>1 DEF RewritesLine
  <2>3. l \in Line
    <3>1. w.line \in DOMAIN d  BY <2>2 DEF SetLine
    <3> QED  BY <1>1, <3>1 DEF Contents
  <2>4. c[w.line] \in Line  BY <2>2 DEF Contents
  <2>5. l \in L => c[w.line] \in L  BY <2>2, <2>4 DEF RewriteOf, AddedLines
  <2> HIDE DEF l, L, c, d
  <2>6. Cardinality(Spots(SetLine(c, w.line, l), L)) <= Cardinality(Spots(c, L))
    BY <2>2, <2>3, <2>5, SetLineCount
  <2>7. Added(name, d) <= Added(name, c)  BY <1>3, <2>2, <2>6
  <2> QED  BY <1>2, <2>7 DEF c, d
<1>6. CASE a.type = "reorder"
  <2>1. c \in Contents /\ d = PermuteLines(c, a.lines) /\ a.lines \in Seq(Nat)
    BY <1>6 DEF JudgedOne, ReordersTasks, Action
  <2> HIDE DEF L, c, d
  <2>2. Cardinality(Spots(d, L)) = Cardinality(Spots(c, L))  BY <2>1, PermuteLinesCount
  <2>3. Cardinality(Spots(c, L)) \in Nat  BY <2>1, SpotsFinite
  <2>4. Added(name, d) <= Added(name, c)  BY <1>3, <2>1, <2>2, <2>3
  <2> QED  BY <1>2, <2>4 DEF c, d
<1>7. CASE a.type = "quick_add"
  <2> DEFINE task == NewTask(a.typed, Today)
  <2>1. AddsTask(w, a)  BY <1>7 DEF JudgedOne
  <2>2. task \in Line /\ task.kind = "task" /\ (task \in L => a.typed = name)
    BY <2>1 DEF AddsTask, NewTask, Saying, AddedLines
  <2> HIDE DEF task, L
  <2>3. ASSUME c = Missing
        PROVE  /\ Added(name, d) <= Added(name, c) + 1
               /\ task \notin L => Added(name, d) <= Added(name, c)
    <3>1. d = <<task>> /\ Added(name, c) = 0  BY <2>1, <2>3 DEF AddsTask, Added, task
    <3>2. Spots(d, L) \in SUBSET {1} /\ (task \notin L => Spots(d, L) = {})
      BY <3>1 DEF Spots
    <3>3. Cardinality({1}) = 1 /\ IsFiniteSet({1})  BY FS_Singleton
    <3>4. Cardinality(Spots(d, L)) <= 1  BY <3>2, <3>3, FS_Subset
    <3>5. task \notin L => Cardinality(Spots(d, L)) = 0  BY <3>2, FS_EmptySet
    <3>6. Cardinality(Spots(d, L)) \in Nat  BY <1>2
    <3> QED  BY <1>2, <3>1, <3>4, <3>5, <3>6
  <2>4. ASSUME c # Missing
        PROVE  /\ Added(name, d) <= Added(name, c) + 1
               /\ task \notin L => Added(name, d) <= Added(name, c)
    <3>1. c \in Contents /\ d = WithTask(c, task)  BY <1>1, <2>1, <2>4 DEF AddsTask, task
    <3>2. PICK i \in DOMAIN d : d[i] = task /\ RemoveAt(d, i) = c
      BY <2>2, <3>1, WithTaskAdds
    <3> HIDE DEF c, d
    <3>3. /\ Cardinality(Spots(d, L)) <= Cardinality(Spots(c, L)) + 1
          /\ task \notin L => Cardinality(Spots(d, L)) <= Cardinality(Spots(c, L))
      BY <1>1, <3>2, RemoveAtCount
    <3>4. Added(name, c) = Cardinality(Spots(c, L))  BY <3>1, AddedAreSpots DEF L
    <3>5. Added(name, d) = Cardinality(Spots(d, L))  BY <1>2 DEF c, d, L
    <3> QED  BY <3>3, <3>4, <3>5 DEF c, d
  <2>5. /\ Added(name, d) <= Added(name, c) + 1
        /\ task \notin L => Added(name, d) <= Added(name, c)
    BY <2>3, <2>4
  <2> QED  BY <1>7, <2>2, <2>5
<1>8. CASE a.type = "quick_add_undo"
  <2>1. TakesBack(w, a)  BY <1>8 DEF JudgedOne
  <2>2. PICK i \in DOMAIN c : d = Undone(c, i)  BY <2>1 DEF TakesBack, LastAdded
  <2>3. c \in Contents  BY <2>1 DEF TakesBack
  <2> HIDE DEF c, d
  <2>4. Cardinality(Spots(d, L)) <= Cardinality(Spots(c, L))
    BY <1>4, <2>2, <2>3, UndoneCount
  <2>5. Added(name, d) <= Added(name, c)  BY <1>3, <2>3, <2>4
  <2> QED  BY <1>2, <2>5 DEF c, d
<1>9. CASE a.type = "add_note"
  <2> DEFINE bullet == NoteBullet(a.typed)
  <2>1. AddsNote(w, a)  BY <1>9 DEF JudgedOne
  <2>2. /\ c \in Contents /\ bullet \in Line /\ bullet.kind = "bullet"
        /\ bullet.text.added = NoDate
    BY <2>1 DEF AddsNote, NoteBullet, Saying
  <2>3. PICK i \in TaskLines(c), id \in Links :
          /\ d = Noted(c, i, id, bullet)
          /\ \/ c[i].text.link = id
             \/ Headings(c, id) = {}
    BY <2>1 DEF AddsNote
  <2> HIDE DEF bullet
  <2>4. c[i] \in Line  BY <2>2 DEF Contents, TaskLines
  <2>5. Linked(c[i], id) \in L => c[i] \in L
    BY <2>4 DEF AddedLines, Linked, Line, Text
  <2>6. \A l \in L : l.text.added # NoDate  BY <1>4 DEF AddedLines
  <2> HIDE DEF L, c, d
  <2>7. Cardinality(Spots(d, L)) <= Cardinality(Spots(c, L))
    BY <2>2, <2>3, <2>5, <2>6, NotedCount
  <2>8. Added(name, d) <= Added(name, c)  BY <1>3, <2>2, <2>7
  <2> QED  BY <1>2, <2>8 DEF c, d
<1> QED  BY <1>5, <1>6, <1>7, <1>8, <1>9 DEF Action, Types, LineTypes

\* The ones that are done with, and the one whose write is.
Served(name) == {k \in Asked(name) : k \notin Pending \/ (k = cur /\ pc = "finish")}

\* What a note may hold of name beyond what the editor wrote into it.
Slack(name) == Cardinality(Served(name)) + faults

Bounded(name, c, s) ==
    \E e \in EditorContents[Inbox] \cup {InitialVault[Inbox]} :
       Added(name, c) <= s + Added(name, e)

\* The inbox is within its bounds, and so is every content of it that a write still to
\* make was judged on: that is what the write adds to, whatever the editor has saved since.
RepeatInv ==
    \A name \in Typed :
       /\ Bounded(name, note[Inbox], Slack(name))
       /\ Writing => \A i \in DOMAIN plan :
                        plan[i].note = Inbox => Bounded(name, plan[i].base, Slack(name))

LEMMA AskedFinite ==
  ASSUME NEW q \in Seq(Action), NEW S \in SUBSET DOMAIN q
  PROVE  IsFiniteSet(S) /\ Cardinality(S) \in Nat
<1>1. DOMAIN q = 1..Len(q) /\ Len(q) \in Nat  OBVIOUS
<1>2. IsFiniteSet(DOMAIN q)  BY <1>1, FS_Interval
<1> QED  BY <1>2, FS_Subset, FS_CardinalityType

LEMMA SlackType ==
  ASSUME TypeOK, NEW name
  PROVE  Slack(name) \in Nat /\ Slack(name) <= Cardinality(Asked(name)) + faults
<1>1. Asked(name) \in SUBSET DOMAIN queue /\ Served(name) \in SUBSET Asked(name)
  BY DEF Asked, Served
<1>2. queue \in Seq(Action) /\ faults \in Nat  BY DEF TypeOK, ClientsOK, HistoryOK
<1>3. /\ IsFiniteSet(Asked(name)) /\ Cardinality(Asked(name)) \in Nat
      /\ Cardinality(Served(name)) \in Nat
  BY <1>1, <1>2, AskedFinite
<1>4. Cardinality(Served(name)) <= Cardinality(Asked(name))
  BY <1>1, <1>3, FS_Subset
<1> QED  BY <1>2, <1>3, <1>4 DEF Slack

\* An action that is done with stays so until it is resolved, unless something fails.
LEMMA FinishSteps ==
  ASSUME TypeOK, [Next]_vars, pc = "finish"
  PROVE  \/ pc' = "finish" /\ cur' = cur /\ faults' >= faults
         \/ Resolve
         \/ faults' = faults + 1
<1>0. faults \in Nat  BY DEF TypeOK, HistoryOK
<1>1. ASSUME NEW c \in Clients, Poll(c) \/ Enqueue(c)  PROVE UNCHANGED <<pc, cur, faults>>
  BY <1>1 DEF Poll, Enqueue, process, bounds
<1>2. ASSUME NEW n \in Notes, EditorSave(n) \/ ScanNote(n) \/ HandleEvent(n)
      PROVE  UNCHANGED <<pc, cur, faults>>
  BY <1>2 DEF EditorSave, ScanNote, HandleEvent, bounds
<1>3. ASSUME Shutdown \/ CacheBody \/ Reindex \/ UNCHANGED vars
      PROVE  UNCHANGED <<pc, cur, faults>>
  BY <1>3 DEF Shutdown, CacheBody, Reindex, vars, process, bounds
<1>4. CASE TakeError \/ WriteError \/ IndexError \/ DrainError \/ Crash
  BY <1>4 DEF TakeError, WriteError, IndexError, DrainError, Crash, Failing
<1>5. CASE Launch \/ StartWatch \/ StartDrain \/ EndDrain \/ TakeWrite \/ TakeSatisfied
           \/ TakeRefused \/ WriteTemp \/ CheckPassed \/ CheckFailed \/ Rename
  BY <1>5 DEF Launch, StartWatch, StartDrain, EndDrain, TakeWrite, TakeSatisfied, TakeRefused,
              Take, WriteTemp, CheckPassed, CheckFailed, Rename
<1> QED  BY <1>0, <1>1, <1>2, <1>3, <1>4, <1>5, NextCases

\* An action that was asked for stays asked for, and one that is resolved stays resolved.
LEMMA AskedStays ==
  ASSUME TypeOK, [Next]_vars, NEW name
  PROVE  /\ Asked(name) \subseteq Asked(name)'
         /\ \A k \in DOMAIN queue : k \notin Pending => k \notin Pending'
         /\ Resolve => \A k \in Asked(name) : k = cur => k \notin Pending'
<1>1. Asked(name) \subseteq Asked(name)'  BY QueueGrows DEF Asked
<1>2. ASSUME Resolve
      PROVE  /\ \A k \in DOMAIN queue : k \notin Pending => k \notin Pending'
             /\ cur \notin Pending'
  <2>1. /\ cur \in DOMAIN queue /\ queue \in Seq(Action) /\ verdict \in {"done", "failed"}
        /\ queue' = [queue EXCEPT ![cur].state = verdict]
    BY <1>2 DEF Resolve, TypeOK, ProcessOK, ClientsOK, Pending
  <2>2. /\ DOMAIN queue' = DOMAIN queue
        /\ \A k \in DOMAIN queue \ {cur} : queue'[k] = queue[k]
        /\ queue'[cur] = [queue[cur] EXCEPT !.state = verdict]
        /\ queue[cur] \in Action
    BY <2>1
  <2>3. queue'[cur].state = verdict  BY <2>2 DEF Action
  <2> QED  BY <2>1, <2>2, <2>3 DEF Pending
<1>3. ASSUME NEW c \in Clients, Enqueue(c), NEW k \in DOMAIN queue, k \notin Pending
      PROVE  k \notin Pending'
  <2>1. PICK a \in Gestures(c) : queue' = Append(queue, a)  BY <1>3 DEF Enqueue
  <2>2. queue'[k] = queue[k]  BY <2>1 DEF TypeOK, ClientsOK
  <2> QED  BY <1>3, <2>2 DEF Pending
<1>4. UNCHANGED queue => Pending' = Pending  BY DEF Pending
<1> QED  BY <1>1, <1>2, <1>3, <1>4, QueueSteps

\* Only a failure makes an action that is done with be run again.
LEMMA SlackGrows ==
  ASSUME TypeOK, TypeOK', [Next]_vars, NEW name
  PROVE  Slack(name)' >= Slack(name)
<1> DEFINE A == Served(name)
           B == Served(name)'
<1>1. /\ IsFiniteSet(A) /\ Cardinality(A) \in Nat /\ faults \in Nat
      /\ IsFiniteSet(B) /\ Cardinality(B) \in Nat /\ faults' \in Nat
  <2>1. A \in SUBSET DOMAIN queue /\ B \in SUBSET DOMAIN queue'  BY DEF Served, Asked
  <2>2. queue \in Seq(Action) /\ queue' \in Seq(Action) /\ faults \in Nat /\ faults' \in Nat
    BY DEF TypeOK, ClientsOK, HistoryOK
  <2> HIDE DEF A, B
  <2> QED  BY <2>1, <2>2, AskedFinite
<1>2. \A k \in A : k \notin Pending => k \in B
  <2>1. A \subseteq Asked(name) /\ Asked(name) \subseteq DOMAIN queue  BY DEF Served, Asked
  <2> QED  BY <2>1, AskedStays DEF Served
<1>3. faults' >= faults  BY CounterSteps
<1>4. CASE A \subseteq B
  <2>1. Cardinality(A) <= Cardinality(B)  BY <1>1, <1>4, FS_Subset
  <2> QED  BY <1>1, <1>3, <2>1 DEF Slack
<1>5. CASE ~(A \subseteq B)
  <2>1. A \ {cur} \subseteq B  BY <1>2 DEF Served
  <2>2. pc = "finish" /\ cur \in A /\ cur \notin B
    BY <1>2, <1>5 DEF Served
  <2>3. faults' = faults + 1
    <3>1. Resolve => cur \in B  BY <2>2, AskedStays DEF Served
    <3>2. pc' = "finish" /\ cur' = cur => cur \in B  BY <2>2, AskedStays DEF Served
    <3> QED  BY <2>2, <3>1, <3>2, FinishSteps
  <2>4. Cardinality(A \ {cur}) = Cardinality(A) - 1  BY <1>1, <2>2, FS_RemoveElement
  <2>5. Cardinality(A \ {cur}) <= Cardinality(B)  BY <1>1, <2>1, FS_Subset
  <2> QED  BY <1>1, <2>3, <2>4, <2>5 DEF Slack
<1> QED  BY <1>4, <1>5

LEMMA BoundMore ==
  ASSUME NEW name, NEW c \in Contents \cup {Missing}, NEW s \in Nat, NEW t \in Nat, t >= s
  PROVE  /\ Bounded(name, c, s) => Bounded(name, c, t)
         /\ \A d \in Contents \cup {Missing} :
               Bounded(name, c, s) /\ Added(name, d) <= Added(name, c) + (t - s)
                  => Bounded(name, d, t)
         /\ c \in EditorContents[Inbox] \cup {InitialVault[Inbox]} => Bounded(name, c, t)
<1> DEFINE E == EditorContents[Inbox] \cup {InitialVault[Inbox]}
<1>1. \A e \in E : Added(name, e) \in Nat
  <2>1. E \subseteq Contents \cup {Missing}  BY VaultAssumption, RequestAssumption
  <2> QED  BY <2>1, AddedType
<1>2. \A d \in Contents \cup {Missing} : Added(name, d) \in Nat  BY AddedType
<1> HIDE DEF E
<1>3. ASSUME NEW d \in Contents \cup {Missing}, NEW e \in E,
             Added(name, c) <= s + Added(name, e), Added(name, d) <= Added(name, c) + (t - s)
      PROVE  Added(name, d) <= t + Added(name, e)
  <2>1. Added(name, c) \in Nat /\ Added(name, d) \in Nat /\ Added(name, e) \in Nat
    BY <1>1, <1>2
  <2> QED  BY <1>3, <2>1
<1>4. \A d \in Contents \cup {Missing} :
         Bounded(name, c, s) /\ Added(name, d) <= Added(name, c) + (t - s) => Bounded(name, d, t)
  BY <1>3 DEF Bounded, E
<1>5. Added(name, c) <= Added(name, c) + (t - s) /\ Added(name, c) <= t + Added(name, c)
  BY <1>2
<1>6. Bounded(name, c, s) => Bounded(name, c, t)  BY <1>4, <1>5
<1>7. c \in E => Bounded(name, c, t)  BY <1>5 DEF Bounded, E
<1> QED  BY <1>4, <1>6, <1>7 DEF E

LEMMA InitRepeatInv == Init => RepeatInv
<1> SUFFICES ASSUME Init, NEW name \in Typed
             PROVE  Bounded(name, note[Inbox], Slack(name)) /\ ~Writing
  BY DEF RepeatInv
<1>1. /\ note = InitialVault /\ InitialVault[Inbox] \in Contents \cup {Missing}
      /\ ~Writing
  BY RequestAssumption, VaultAssumption DEF Init, Writing
<1>2. Slack(name) \in Nat  BY InitTypeOK, SlackType
<1> DEFINE s == Slack(name)
<1>3. s \in Nat /\ s >= s  BY <1>2
<1> HIDE DEF s
<1>4. Bounded(name, note[Inbox], s)  BY <1>1, <1>3, BoundMore
<1> QED  BY <1>1, <1>4 DEF s

\* A write makes a quick add at most once, and is then done with.
LEMMA RenameServes ==
  ASSUME TypeOK, TypeOK', PlanInv, [Next]_vars, Rename, NEW name,
         queue[cur].type = "quick_add", queue[cur].typed = name
  PROVE  Slack(name)' = Slack(name) + 1
<1> DEFINE A == Served(name)
<1>1. /\ pc = "rename" /\ cur' = cur /\ UNCHANGED <<queue, faults>>
      /\ Tail(plan) = <<>> => pc' = "finish"
  BY DEF Rename, bounds
<1>2. Len(plan) = 1 /\ plan \in Seq(PlannedWrite) /\ plan # <<>>
  BY <1>1 DEF PlanInv, Writing, Judged, HalfMoved, TypeOK, ProcessOK
<1>3. Tail(plan) = <<>>
  <2>1. Tail(plan) \in Seq(PlannedWrite) /\ Len(Tail(plan)) = 0
    BY <1>2, HeadTailProperties
  <2> QED  BY <2>1, EmptySeq
<1>4. cur \in Asked(name) /\ cur \in Pending
  <2>1. cur \in Pending  BY <1>1 DEF TypeOK
  <2> QED  BY <2>1 DEF Asked, Pending
<1>5. Asked(name)' = Asked(name) /\ Pending' = Pending  BY <1>1 DEF Asked, Pending
<1>6. Served(name)' = A \cup {cur} /\ cur \notin A
  BY <1>1, <1>3, <1>4, <1>5 DEF Served
<1>7. IsFiniteSet(A) /\ Cardinality(A) \in Nat
  <2>1. A \in SUBSET DOMAIN queue  BY DEF Served, Asked
  <2> QED  BY <2>1, AskedFinite DEF TypeOK, ClientsOK
<1> HIDE DEF A
<1>8. Cardinality(A \cup {cur}) = Cardinality(A) + 1  BY <1>6, <1>7, FS_AddElement
<1>9. faults \in Nat  BY DEF TypeOK, HistoryOK
<1> QED  BY <1>1, <1>6, <1>7, <1>8, <1>9 DEF Slack, A

\* What a write to the inbox leaves there is within the bounds.
LEMMA RenameBounded ==
  ASSUME WriteInv, WriteInv', RepeatInv, [Next]_vars, Archive # Inbox, Rename, Job.note = Inbox,
         NEW name \in Typed
  PROVE  Bounded(name, Job.body, Slack(name)')
<1> DEFINE s == Slack(name)
           t == Slack(name)'
           a == queue[cur]
<1>1. TypeOK /\ TypeOK' /\ PlanInv /\ Writing  BY DEF WriteInv, Rename, Writing
<1>2. s \in Nat /\ t >= s  BY <1>1, SlackType, SlackGrows
<1>3. t \in Nat
  <2>1. Served(name)' \in SUBSET DOMAIN queue'  BY DEF Served, Asked
  <2>2. Cardinality(Served(name)') \in Nat /\ faults' \in Nat
    BY <1>1, <2>1, AskedFinite DEF TypeOK, ClientsOK, HistoryOK
  <2> QED  BY <2>2 DEF Slack
<1>4. Job \in PlannedWrite /\ a \in Action /\ Job = plan[1] /\ 1 \in DOMAIN plan
  BY <1>1, JobType DEF Writing, Job, TypeOK, ProcessOK
<1>5. Job.base \in Contents \cup {Missing} /\ Job.body \in Contents \cup {Missing}
  BY <1>4 DEF PlannedWrite
<1>6. Bounded(name, Job.base, s)  BY <1>1, <1>4 DEF RepeatInv
<1>7. Added(name, Job.base) \in Nat /\ Added(name, Job.body) \in Nat  BY <1>5, AddedType
<1>8. ASSUME Added(name, Job.body) <= Added(name, Job.base)
      PROVE  Added(name, Job.body) <= Added(name, Job.base) + (t - s)
  <2> HIDE DEF s, t
  <2> QED  BY <1>2, <1>3, <1>7, <1>8
<1>9. CASE a.type = "archive"
  <2>1. CopiesLines(plan[1], plan[2], a) \/ Removes(plan[1], a)
    BY <1>1, <1>9 DEF PlanInv, Judged, HalfMoved
  <2>2. Job.base \in Contents /\ Job.body = RemoveLines(Job.base, a.lines)
    BY <1>4, <2>1 DEF CopiesLines, Removes
  <2>3. Job.body \in Contents  BY <1>4 DEF PlannedWrite
  <2> DEFINE L == AddedLines(name, Today)
  <2>4. /\ Added(name, Job.base) = Cardinality(Spots(Job.base, L))
        /\ Added(name, Job.body) = Cardinality(Spots(Job.body, L))
    BY <2>2, <2>3, AddedAreSpots
  <2> HIDE DEF L
  <2>5. Cardinality(Spots(Job.body, L)) <= Cardinality(Spots(Job.base, L))
    BY <2>2, RemoveLinesCount
  <2>6. Added(name, Job.body) <= Added(name, Job.base)  BY <2>4, <2>5
  <2> QED  BY <1>2, <1>3, <1>5, <1>6, <1>8, <2>6, BoundMore
<1>10. CASE a.type # "archive"
  <2>1. JudgedOne(Job, a)  BY <1>1, <1>10, OnlyWrite
  <2>2. CASE a.type = "quick_add" /\ a.typed = name
    <3>1. t = s + 1  BY <1>1, <2>2, RenameServes
    <3>2. Added(name, Job.body) <= Added(name, Job.base) + 1
      BY <1>4, <1>10, <2>1, WriteAdds
    <3> HIDE DEF s, t
    <3>3. t - s = 1  BY <1>2, <3>1
    <3>4. Added(name, Job.body) <= Added(name, Job.base) + (t - s)  BY <3>2, <3>3
    <3>5. Bounded(name, Job.body, t)  BY <1>2, <1>3, <1>5, <1>6, <3>4, BoundMore
    <3> QED  BY <3>5 DEF t
  <2>3. CASE ~(a.type = "quick_add" /\ a.typed = name)
    <3>1. Added(name, Job.body) <= Added(name, Job.base)
      BY <1>4, <1>10, <2>1, <2>3, WriteAdds
    <3> QED  BY <1>2, <1>3, <1>5, <1>6, <1>8, <3>1, BoundMore
  <2> QED  BY <2>2, <2>3
<1> QED  BY <1>9, <1>10

LEMMA NextRepeatInv ==
  ASSUME WriteInv, WriteInv', RepeatInv, [Next]_vars, Archive # Inbox
  PROVE  RepeatInv'
<1> SUFFICES ASSUME NEW name \in Typed
             PROVE  /\ Bounded(name, note'[Inbox], Slack(name)')
                    /\ Writing' => \A i \in DOMAIN plan' : plan'[i].note = Inbox =>
                                      Bounded(name, plan'[i].base, Slack(name)')
  BY DEF RepeatInv, Bounded
<1> DEFINE s == Slack(name)
           t == Slack(name)'
<1>1. TypeOK /\ TypeOK'  BY DEF WriteInv
<1>2. s \in Nat /\ t \in Nat /\ t >= s
  <2>1. Served(name)' \in SUBSET DOMAIN queue'  BY DEF Served, Asked
  <2>2. Cardinality(Served(name)') \in Nat /\ faults' \in Nat
    BY <1>1, <2>1, AskedFinite DEF TypeOK, ClientsOK, HistoryOK
  <2> QED  BY <1>1, <2>2, SlackType, SlackGrows DEF Slack
<1>3. /\ note[Inbox] \in Contents \cup {Missing} /\ note'[Inbox] \in Contents \cup {Missing}
      /\ plan \in Seq(PlannedWrite)
  BY <1>1, RequestAssumption DEF TypeOK, VaultOK, ProcessOK
<1>4. Bounded(name, note[Inbox], t)  BY <1>2, <1>3, BoundMore DEF RepeatInv
<1>5. ASSUME Writing, NEW i \in DOMAIN plan, plan[i].note = Inbox
      PROVE  Bounded(name, plan[i].base, t)
  <2>1. Bounded(name, plan[i].base, s)  BY <1>5 DEF RepeatInv
  <2>2. plan[i] \in PlannedWrite  BY <1>3, <1>5
  <2>3. plan[i].base \in Contents \cup {Missing}  BY <2>2 DEF PlannedWrite
  <2> QED  BY <1>2, <2>1, <2>3, BoundMore
<1>6. Bounded(name, note'[Inbox], t)
  <2>1. ASSUME NEW n \in Notes, EditorSave(n)  PROVE Bounded(name, note'[Inbox], t)
    <3>1. CASE n = Inbox
      <4>1. note'[Inbox] \in EditorContents[Inbox]
        BY <1>1, <2>1, <3>1, RequestAssumption DEF EditorSave, TypeOK, VaultOK
      <4> QED  BY <1>2, <1>3, <4>1, BoundMore
    <3>2. CASE n # Inbox
      <4>1. note'[Inbox] = note[Inbox]
        BY <1>1, <2>1, <3>2, RequestAssumption DEF EditorSave, TypeOK, VaultOK
      <4> QED  BY <1>4, <4>1
    <3> QED  BY <3>1, <3>2
  <2>2. CASE Rename
    <3>1. note' = [note EXCEPT ![Job.note] = temp[Job.note]] /\ temp[Job.note] = Job.body
      BY <2>2 DEF Rename, WriteInv, CheckInv
    <3>2. CASE Job.note = Inbox
      <4>1. note'[Inbox] = Job.body
        BY <1>1, <3>1, <3>2, RequestAssumption DEF TypeOK, VaultOK
      <4> QED  BY <2>2, <3>2, <4>1, RenameBounded
    <3>3. CASE Job.note # Inbox
      <4>1. note'[Inbox] = note[Inbox]
        BY <1>1, <3>1, <3>3, RequestAssumption DEF TypeOK, VaultOK
      <4> QED  BY <1>4, <4>1
    <3> QED  BY <3>2, <3>3
  <2>3. CASE UNCHANGED <<note, writer>>  BY <1>4, <2>3
  <2> QED  BY <2>1, <2>2, <2>3, NoteSteps
<1>7. ASSUME Writing', NEW i \in DOMAIN plan', plan'[i].note = Inbox
      PROVE  Bounded(name, plan'[i].base, t)
  <2>1. CASE TakeWrite
    <3>1. plan' \in Writes(queue[Oldest]) /\ Pending # {}  BY <2>1 DEF TakeWrite, Take
    <3>2. queue[Oldest] \in Action
      BY <1>1, <3>1, OldestIsPending DEF TypeOK, ClientsOK, Pending
    <3>3. plan' \in Seq(PlannedWrite) /\ \A k \in 1..Len(plan') : plan'[k].base = note[plan'[k].note]
      BY <1>1, <3>1, <3>2, WritesType DEF TypeOK
    <3>4. plan'[i].base = note[Inbox]  BY <1>7, <3>3
    <3> QED  BY <1>4, <3>4
  <2>2. ASSUME Writing, plan' = plan  PROVE Bounded(name, plan'[i].base, t)
    BY <1>5, <1>7, <2>2
  <2>3. CASE WriteTemp \/ CheckPassed \/ UNCHANGED <<vault, pc, plan, cur, raced>>
    BY <1>7, <2>2, <2>3 DEF WriteTemp, CheckPassed, Writing
  <2>4. ASSUME NEW n \in Notes, EditorSave(n)  PROVE Bounded(name, plan'[i].base, t)
    BY <1>7, <2>2, <2>4 DEF EditorSave, Writing
  <2>5. CASE Rename
    <3>1. plan' = Tail(plan) /\ Writing /\ plan # <<>>
      BY <1>1, <2>5 DEF Rename, Writing, TypeOK
    <3>2. i + 1 \in DOMAIN plan /\ plan'[i] = plan[i + 1]  BY <1>3, <1>7, <3>1
    <3> QED  BY <1>5, <1>7, <3>1, <3>2
  <2> QED  BY <1>1, <1>7, <2>1, <2>3, <2>4, <2>5, WritingSteps
<1> QED  BY <1>6, <1>7

\* For every queue and every history of failures, in a vault whose inbox is not its
\* archive: a quick add is in the inbox no more often than it was asked for, the editor
\* wrote it, and something failed.
THEOREM QuickAddsCounted == Archive # Inbox => (Spec => []QuickAddRepeats)
<1> SUFFICES ASSUME Archive # Inbox  PROVE Spec => []QuickAddRepeats  OBVIOUS
<1>1. Init => WriteInv /\ RepeatInv  BY InitWriteInv, InitRepeatInv
<1>2. WriteInv /\ RepeatInv /\ [Next]_vars => (WriteInv /\ RepeatInv)'
  BY NextWriteInv, NextRepeatInv
<1>3. WriteInv /\ RepeatInv => QuickAddRepeats
  <2> SUFFICES ASSUME WriteInv, RepeatInv, NEW name \in Typed
               PROVE  \E e \in EditorContents[Inbox] \cup {InitialVault[Inbox]} :
                         Added(name, note[Inbox]) <= Cardinality(Asked(name)) + faults + Added(name, e)
    BY DEF QuickAddRepeats, Asked
  <2>1. PICK e \in EditorContents[Inbox] \cup {InitialVault[Inbox]} :
          Added(name, note[Inbox]) <= Slack(name) + Added(name, e)
    BY DEF RepeatInv, Bounded
  <2>2. Slack(name) \in Nat /\ Slack(name) <= Cardinality(Asked(name)) + faults
    BY SlackType DEF WriteInv
  <2>3. Asked(name) \in SUBSET DOMAIN queue  BY DEF Asked
  <2>4. Cardinality(Asked(name)) \in Nat /\ faults \in Nat
    BY <2>3, AskedFinite DEF WriteInv, TypeOK, ClientsOK, HistoryOK
  <2>5. Added(name, e) \in Nat /\ Added(name, note[Inbox]) \in Nat
    BY AddedType, VaultAssumption, RequestAssumption DEF WriteInv, TypeOK, VaultOK
  <2> QED  BY <2>1, <2>2, <2>4, <2>5
<1> QED  BY <1>1, <1>2, <1>3, PTL DEF Spec
===============================================================================
