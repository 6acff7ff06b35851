--------------------------- MODULE WriteBack_proofs ---------------------------
(***************************************************************************)
(* Theorems about the write-back core and about the index it works on, for *)
(* every vault, every set of clients and of editor contents, and every     *)
(* bound.                                                                  *)
(***************************************************************************)
EXTENDS WriteBackProperties, Requests_proofs

-----------------------------------------------------------------------------
\* The queue.

LEMMA OldestIsPending ==
  ASSUME queue \in Seq(Action), Pending # {}
  PROVE  /\ Oldest \in Pending
         /\ \A j \in Pending : Oldest <= j
<1>1. Pending \in SUBSET (1..Len(queue)) /\ Len(queue) \in Nat  BY DEF Pending
<1>2. IsFiniteSet(1..Len(queue))  BY <1>1, FS_Interval
<1>3. Pending \in SUBSET Int /\ IsFiniteSet(Pending)
  <2>1. Pending \in SUBSET Int  BY <1>1
  <2>2. IsFiniteSet(Pending)  BY <1>1, <1>2, FS_Subset
  <2> QED  BY <2>1, <2>2
<1>4. Cardinality(Pending) \in Nat \ {0}  BY <1>3, FS_CardinalityType, FS_EmptySet
<1>5. 1 \in 1..Cardinality(Pending)  BY <1>4
<1>6. PICK k \in Pending : Rank(Pending, k) = 0
  <2>1. Nth(Pending, 1) \in Pending /\ Rank(Pending, Nth(Pending, 1)) = 1 - 1
    BY <1>3, <1>5, NthType
  <2> QED  BY <2>1
<1>7. \A j \in Pending : k <= j
  <2> SUFFICES ASSUME NEW j \in Pending, j < k PROVE FALSE  BY <1>3
  <2>1. Rank(Pending, j) < Rank(Pending, k)  BY <1>3, RankMonotone
  <2>2. Rank(Pending, j) \in Nat  BY <1>3, RankType
  <2> QED  BY <1>6, <2>1, <2>2
<1> QED  BY <1>7 DEF Oldest

\* What a client enqueues is a pending action: on no task, on a row it has seen, or on
\* what an action already in the queue is on.
LEMMA GesturesType ==
  ASSUME ClientsOK, NEW c \in Clients, NEW a \in Gestures(c)
  PROVE  /\ a \in Action /\ a.state = "pending"
         /\ \/ a.task = 0
            \/ \E r \in seen[c] : a.task = r.id /\ a.note = r.note /\ a.saw = r.text
            \/ \E k \in DOMAIN queue :
                  a.task = queue[k].task /\ a.note = queue[k].note /\ a.saw = queue[k].saw
<1>1. ASSUME NEW r \in seen[c], a \in Requests(seen[c], r)
      PROVE  /\ a \in Action /\ a.state = "pending"
             /\ a.task = r.id /\ a.note = r.note /\ a.saw = r.text
  BY <1>1, RequestsType DEF ClientsOK
<1>2. ASSUME NEW k \in DOMAIN queue, a \in Reversals(queue[k])
      PROVE  /\ a \in Action /\ a.state = "pending"
             /\ a.task = queue[k].task /\ a.note = queue[k].note /\ a.saw = queue[k].saw
  <2>1. queue[k] \in Action  BY DEF ClientsOK
  <2> QED  BY <1>2, <2>1, ReversalsType
<1>3. ASSUME a \in QuickAddRequests
      PROVE  a \in Action /\ a.state = "pending" /\ a.task = 0
  <2>1. NoteAction(Inbox, "quick_add") \in Action
    BY NoteActionType, RequestAssumption DEF Types
  <2>2. NoteAction(Inbox, "quick_add").task = 0 /\ NoteAction(Inbox, "quick_add").state = "pending"
    BY DEF NoteAction
  <2>3. PICK name \in Names : a = [NoteAction(Inbox, "quick_add") EXCEPT !.typed = name]
    BY <1>3, RequestAssumption DEF QuickAddRequests
  <2> QED  BY <2>1, <2>2, <2>3 DEF Action
<1>4. \/ \E r \in seen[c] : a \in Requests(seen[c], r)
      \/ a \in QuickAddRequests
      \/ \E k \in DOMAIN queue : a \in Reversals(queue[k])
  <2> DEFINE OnSeen == UNION {Requests(seen[c], r) : r \in seen[c]}
             OnQueue == UNION {Reversals(queue[k]) : k \in DOMAIN queue}
  <2>1. a \in OnSeen \/ a \in QuickAddRequests \/ a \in OnQueue  BY DEF Gestures
  <2>2. CASE a \in OnSeen  BY <2>2
  <2>3. CASE a \in OnQueue  BY <2>3
  <2> HIDE DEF OnSeen, OnQueue
  <2> QED  BY <2>1, <2>2, <2>3
<1>5. CASE \E r \in seen[c] : a \in Requests(seen[c], r)
  BY <1>1, <1>5
<1>6. CASE \E k \in DOMAIN queue : a \in Reversals(queue[k])
  BY <1>2, <1>6
<1> QED  BY <1>3, <1>4, <1>5, <1>6

-----------------------------------------------------------------------------
\* What the daemon makes of an action.

LEMMA RewriteTypes ==
  ASSUME NEW line \in Line, NEW a \in Action
  PROVE  /\ Flipped(line, a.new, Today) \in Line
         /\ Scheduled(line, a.want) \in Line
         /\ Toggled(line) \in Line
<1>1. /\ a.new \in Chars \cup {NoChar} /\ a.want \in Token
      /\ Today \in Token /\ NoDate \in Token
  BY RequestAssumption DEF Action, Token
<1>2. Flipped(line, a.new, Today) \in Line
  BY <1>1 DEF Flipped, Line, Text, Stamps, IsDone, IsCancelled
<1>3. Scheduled(line, a.want) \in Line  BY <1>1 DEF Scheduled, Line, Text
<1>4. Toggled(line) \in Line  BY DEF Toggled, Line, Kinds, Chars
<1> QED  BY <1>2, <1>3, <1>4

LEMMA ReplacementsType ==
  ASSUME NEW line \in Line, NEW char, NEW a \in Action
  PROVE  Replacements(line, char, a) \in SUBSET Line
BY RewriteTypes DEF Replacements

LEMMA HeldType ==
  ASSUME VaultOK, IndexOK, NEW a \in Action, NEW t \in Held(a)
  PROVE  /\ t.note \in Notes /\ t.hash \in Contents /\ t.line \in DOMAIN t.hash
         /\ t.line \in Nat \ {0}
         /\ note[t.note] = t.hash
<1>1. t \in Targets(a) /\ note[t.note] = t.hash /\ t.line \in DOMAIN t.hash  BY DEF Held
<1>2. ASSUME NEW r \in Found(a), t = Target(r.note, r.line, r.char, r.hash)
      PROVE  t.note \in Notes /\ t.hash \in Contents
  <2>1. r \in Row  BY DEF Found, ById, ByPlace, IndexOK
  <2> QED  BY <1>2, <2>1 DEF Target, Row
<1>3. ASSUME cached[a.note] # Missing,
             t = Target(a.note, a.line, NoChar, cached[a.note])
      PROVE  t.note \in Notes /\ t.hash \in Contents
  <2>1. a.note \in Notes  BY DEF Action
  <2>2. cached[a.note] \in Contents  BY <1>3, <2>1 DEF IndexOK
  <2> QED  BY <1>3, <2>1, <2>2 DEF Target
<1>4. t.note \in Notes /\ t.hash \in Contents  BY <1>1, <1>2, <1>3 DEF Targets
<1>5. DOMAIN t.hash \in SUBSET (Nat \ {0})  BY <1>4 DEF Contents
<1> QED  BY <1>1, <1>4, <1>5

\* A plan is one write, or two when the copy of an archive move comes first; each
\* write but the creation of the archive starts from what its note holds.
LEMMA WritesType ==
  ASSUME VaultOK, IndexOK, NEW a \in Action, NEW p \in Writes(a)
  PROVE  /\ p \in Seq(PlannedWrite) /\ p # <<>>
         /\ \A k \in 1..Len(p) : p[k].base = note[p[k].note]
<1>1. ASSUME NEW w \in PlannedWrite, w.base = note[w.note], p = <<w>>
      PROVE  /\ p \in Seq(PlannedWrite) /\ p # <<>>
             /\ \A k \in 1..Len(p) : p[k].base = note[p[k].note]
  BY <1>1
<1>2. CASE p \in LineWrites(a)
  <2>0. PICK t \in Held(a) :
          p \in {<<Write(t.note, t.hash, SetLine(t.hash, t.line, l), t.line)>> :
                  l \in Replacements(t.hash[t.line], t.char, a)}
    BY <1>2 DEF LineWrites
  <2>1. PICK l \in Replacements(t.hash[t.line], t.char, a) :
          p = <<Write(t.note, t.hash, SetLine(t.hash, t.line, l), t.line)>>
    BY <2>0
  <2>2. /\ t.note \in Notes /\ t.hash \in Contents /\ t.line \in DOMAIN t.hash
        /\ t.line \in Nat /\ note[t.note] = t.hash
    BY HeldType
  <2>3. t.hash[t.line] \in Line  BY <2>2 DEF Contents
  <2>4. l \in Line  BY <2>3, ReplacementsType
  <2>5. SetLine(t.hash, t.line, l) \in Contents  BY <2>2, <2>4, SetLineType
  <2> QED  BY <1>1, <2>1, <2>2, <2>5 DEF Write, PlannedWrite
<1>3. CASE p \in ReorderWrites(a)
  <2>1. PICK t \in Held(a) :
          p = <<Write(t.note, t.hash, PermuteLines(t.hash, a.lines), 0)>>
    BY <1>3 DEF ReorderWrites
  <2>2. t.note \in Notes /\ t.hash \in Contents /\ note[t.note] = t.hash  BY HeldType
  <2>3. PermuteLines(t.hash, a.lines) \in Contents  BY <2>2, PermuteLinesType DEF Action
  <2> QED  BY <1>1, <2>1, <2>2, <2>3 DEF Write, PlannedWrite
<1>4. CASE p \in ArchiveWrites(a)
  <2>1. PICK t \in Held(a) :
          p = <<Write(Archive, note[Archive], Archived(t.hash, a.lines), 0),
                Write(t.note, t.hash, RemoveLines(t.hash, a.lines), 0)>>
    BY <1>4 DEF ArchiveWrites
  <2>2. t.note \in Notes /\ t.hash \in Contents /\ note[t.note] = t.hash  BY HeldType
  <2>3. /\ ExtractLines(t.hash, a.lines) \in Contents
        /\ RemoveLines(t.hash, a.lines) \in Contents
    BY <2>2, ExtractLinesType, RemoveLinesType DEF Action
  <2>4. Archive \in Notes /\ note[Archive] \in Contents \cup {Missing}
    BY RequestAssumption DEF VaultOK
  <2>5. <<>> \in Contents  BY DEF Contents
  <2>6. \A c, d \in Contents : c \o d \in Contents  BY DEF Contents
  <2>7. Archived(t.hash, a.lines) \in Contents  BY <2>3, <2>4, <2>5, <2>6 DEF Archived
  <2> DEFINE w1 == Write(Archive, note[Archive], Archived(t.hash, a.lines), 0)
             w2 == Write(t.note, t.hash, RemoveLines(t.hash, a.lines), 0)
  <2>8. w1 \in PlannedWrite /\ w1.base = note[w1.note]
    BY <2>4, <2>7 DEF Write, PlannedWrite
  <2>9. w2 \in PlannedWrite /\ w2.base = note[w2.note]
    BY <2>2, <2>3 DEF Write, PlannedWrite
  <2> HIDE DEF w1, w2
  <2>10. p = <<w1, w2>>  BY <2>1 DEF w1, w2
  <2> QED  BY <2>8, <2>9, <2>10
<1>5. Today \in Token /\ a.note \in Notes /\ a.typed \in Names \cup {NoName}
  BY RequestAssumption DEF Action, Token
<1>6. NewTask(a.typed, Today) \in Line /\ NoteBullet(a.typed) \in Line
  <2>1. NoLink \in Links \cup {NoLink}  OBVIOUS
  <2> QED  BY <1>5, <2>1, NewLineTypes
<1>7. CASE p \in QuickAddWrites(a)
  <2> DEFINE task == NewTask(a.typed, Today)
             body == IF note[a.note] = Missing THEN <<task>> ELSE WithTask(note[a.note], task)
  <2>1. p = <<Write(a.note, note[a.note], body, 0)>>  BY <1>7 DEF QuickAddWrites
  <2>2. note[a.note] \in Contents \cup {Missing}  BY <1>5 DEF VaultOK
  <2>3. <<task>> \in Contents  BY <1>6 DEF Contents
  <2>4. body \in Contents  BY <1>6, <2>2, <2>3, WithTaskType
  <2> QED  BY <1>1, <1>5, <2>1, <2>2, <2>4 DEF Write, PlannedWrite
<1>8. CASE p \in UndoWrites(a)
  <2>1. note[a.note] # Missing  BY <1>8 DEF UndoWrites
  <2>2. note[a.note] \in Contents  BY <1>5, <2>1 DEF VaultOK
  <2>3. PICK i \in LastAdded(note[a.note], NewTask(a.typed, Today)) :
          p = <<Write(a.note, note[a.note], Undone(note[a.note], i), 0)>>
    BY <1>8 DEF UndoWrites
  <2>4. i \in DOMAIN note[a.note]  BY DEF LastAdded
  <2>5. Undone(note[a.note], i) \in Contents  BY <2>2, <2>4, UndoneType
  <2> QED  BY <1>1, <1>5, <2>2, <2>3, <2>5 DEF Write, PlannedWrite
<1>9. CASE p \in NoteWrites(a)
  <2>1. PICK t \in Held(a) :
          p \in {<<Write(t.note, t.hash, Noted(t.hash, t.line, id, NoteBullet(a.typed)), 0)>> :
                  id \in NoteIds(t.hash, t.line)}
    BY <1>9 DEF NoteWrites
  <2>2. PICK id \in NoteIds(t.hash, t.line) :
          p = <<Write(t.note, t.hash, Noted(t.hash, t.line, id, NoteBullet(a.typed)), 0)>>
    BY <2>1
  <2>3. /\ t.note \in Notes /\ t.hash \in Contents /\ t.line \in DOMAIN t.hash
        /\ note[t.note] = t.hash
    BY HeldType
  <2>4. t.hash[t.line] \in Line  BY <2>3 DEF Contents
  <2>5. id \in Links \cup {NoLink}  BY <2>4 DEF NoteIds, Unused, Line, Text
  <2>6. Noted(t.hash, t.line, id, NoteBullet(a.typed)) \in Contents
    BY <1>6, <2>3, <2>5, NotedType
  <2> QED  BY <1>1, <2>2, <2>3, <2>6 DEF Write, PlannedWrite
<1> QED  BY <1>2, <1>3, <1>4, <1>7, <1>8, <1>9 DEF Writes

-----------------------------------------------------------------------------
\* Steps.

\* What every action of Next is built from, for the case splits below.
LEMMA NextCases ==
  ASSUME [Next]_vars
  PROVE  \/ \E c \in Clients : Poll(c) \/ Enqueue(c)
         \/ \E n \in Notes : EditorSave(n) \/ ScanNote(n) \/ HandleEvent(n)
         \/ Launch \/ Shutdown \/ StartWatch \/ CacheBody
         \/ StartDrain \/ EndDrain \/ TakeWrite \/ TakeSatisfied \/ TakeRefused
         \/ WriteTemp \/ CheckPassed \/ CheckFailed \/ Rename \/ Reindex \/ Resolve
         \/ TakeError \/ WriteError \/ IndexError \/ DrainError \/ Crash
         \/ UNCHANGED vars
BY DEF Next, Client, Editor, User, Fault, Daemon, Watcher

-----------------------------------------------------------------------------
\* Typing.

LEMMA EmptySequence == \A S : <<>> \in Seq(S)
OBVIOUS

LEMMA InitTypeOK == Init => TypeOK
<1> SUFFICES ASSUME Init PROVE TypeOK  OBVIOUS
<1>1. VaultOK  BY VaultAssumption DEF Init, VaultOK
<1>2. IndexOK  BY FS_EmptySet DEF Init, IndexOK
<1>3. ClientsOK  BY FS_EmptySet DEF Init, ClientsOK
<1>4. ProcessOK
  <2>1. plan \in Seq(PlannedWrite) /\ reindex \in Seq(Notes)
    BY EmptySequence DEF Init
  <2>2. half \in SUBSET [note : Notes, body : Contents \cup {Missing}]  BY DEF Init
  <2> QED  BY <2>1, <2>2 DEF Init, ProcessOK, PC
<1>5. HistoryOK  BY DEF Init, HistoryOK, Own
<1> QED  BY <1>1, <1>2, <1>3, <1>4, <1>5 DEF Init, TypeOK

\* index_note: whatever the note holds, the index stays well typed.
LEMMA IndexNoteType ==
  ASSUME TypeOK, NEW n \in Notes, IndexNote(n), UNCHANGED cached
  PROVE  IndexOK' /\ half' \in SUBSET [note : Notes, body : Contents \cup {Missing}]
<1>1. CASE note[n] = Missing
  BY <1>1 DEF IndexNote, TypeOK, IndexOK, ProcessOK
<1>2. CASE note[n] # Missing
  <2>1. note[n] \in Contents  BY <1>2 DEF TypeOK, VaultOK
  <2>2. Table(rows, nextId, n, note[n])  BY <2>1 DEF Table, TypeOK, IndexOK
  <2>3. IndexOK'
    BY <1>2, <2>2, ReconciledType DEF IndexNote, Reconcile, TypeOK, IndexOK
  <2>4. half' \in SUBSET [note : Notes, body : Contents \cup {Missing}]
    BY <1>2, <2>1 DEF IndexNote
  <2> QED  BY <2>3, <2>4
<1> QED  BY <1>1, <1>2

LEMMA ForgetNoteType ==
  ASSUME TypeOK, NEW n \in Notes, ForgetNote(n), UNCHANGED cached
  PROVE  IndexOK' /\ half' \in SUBSET [note : Notes, body : Contents \cup {Missing}]
<1>1. IsFiniteSet(rows \ RowsOf(rows, n))  BY FS_Subset DEF TypeOK, IndexOK
<1> QED  BY <1>1 DEF ForgetNote, TypeOK, IndexOK

\* A daemon that is gone leaves nothing in hand.
LEMMA GoneType ==
  ASSUME TypeOK, Gone, UNCHANGED <<vault, index, queue, seen, writer, edits>>,
         faults' \in Nat
  PROVE  TypeOK'
<1>1. plan' \in Seq(PlannedWrite) /\ reindex' \in Seq(Notes)  BY EmptySequence DEF Gone
<1>2. half' \in SUBSET [note : Notes, body : Contents \cup {Missing}]  BY DEF Gone
<1>3. ProcessOK'  BY <1>1, <1>2 DEF Gone, ProcessOK, PC
<1>4. HistoryOK'  BY DEF Gone, HistoryOK, TypeOK
<1> QED  BY <1>3, <1>4 DEF Gone, TypeOK, VaultOK, IndexOK, ClientsOK, vault, index

\* In a write there is a write to make, for an action that is pending.
LEMMA JobType ==
  ASSUME TypeOK, pc \in {"write", "check", "rename"}
  PROVE  /\ Job \in PlannedWrite /\ Tail(plan) \in Seq(PlannedWrite)
         /\ cur \in Pending /\ queue[cur] \in Action
BY DEF Job, TypeOK, ProcessOK, ClientsOK, Pending

LEMMA NextTypeOK == TypeOK /\ [Next]_vars => TypeOK'
<1> SUFFICES ASSUME TypeOK, [Next]_vars PROVE TypeOK'  OBVIOUS
<1> USE DEF vars, vault, index, process, bounds, history
<1>1. ASSUME NEW c \in Clients, Poll(c)  PROVE TypeOK'
  BY <1>1 DEF Poll, TypeOK, VaultOK, IndexOK, ClientsOK, ProcessOK, HistoryOK, Pending
<1>2. ASSUME NEW c \in Clients, Enqueue(c)  PROVE TypeOK'
  <2>2. PICK a \in Gestures(c) : queue' = Append(queue, a)  BY <1>2 DEF Enqueue
  <2>3. a \in Action  BY GesturesType DEF TypeOK
  <2>4. ClientsOK'  BY <1>2, <2>2, <2>3 DEF TypeOK, ClientsOK, Enqueue
  <2>5. Pending \in SUBSET Pending'  BY <2>2, <2>3 DEF Pending, TypeOK, ClientsOK
  <2> QED  BY <1>2, <2>4, <2>5 DEF Enqueue, TypeOK, VaultOK, IndexOK, ProcessOK, HistoryOK
<1>3. ASSUME NEW n \in Notes, EditorSave(n)  PROVE TypeOK'
  <2>1. note'[n] \in Contents \cup {Missing} /\ VaultOK'
    BY <1>3, VaultAssumption DEF EditorSave, TypeOK, VaultOK
  <2>2. HistoryOK'  BY <1>3 DEF EditorSave, TypeOK, HistoryOK, Own
  <2>3. ProcessOK'  BY <1>3 DEF EditorSave, TypeOK, ProcessOK, Heard
  <2> QED  BY <1>3, <2>1, <2>2, <2>3 DEF EditorSave, TypeOK, IndexOK, ClientsOK, Pending
<1>4. ASSUME NEW n \in Notes, ScanNote(n)  PROVE TypeOK'
  <2>1. IndexOK' /\ half' \in SUBSET [note : Notes, body : Contents \cup {Missing}]
    BY <1>4, IndexNoteType DEF ScanNote
  <2>2. ProcessOK'  BY <1>4, <2>1 DEF ScanNote, TypeOK, ProcessOK
  <2> QED
    BY <1>4, <2>1, <2>2 DEF ScanNote, TypeOK, VaultOK, ClientsOK, HistoryOK, Pending
<1>5. ASSUME NEW n \in Notes, HandleEvent(n)  PROVE TypeOK'
  <2>1. IndexOK' /\ half' \in SUBSET [note : Notes, body : Contents \cup {Missing}]
    BY <1>5, IndexNoteType, ForgetNoteType DEF HandleEvent
  <2>2. ProcessOK'  BY <1>5, <2>1 DEF HandleEvent, TypeOK, ProcessOK
  <2> QED
    BY <1>5, <2>1, <2>2 DEF HandleEvent, TypeOK, VaultOK, ClientsOK, HistoryOK, Pending
<1>6. CASE Launch
  BY <1>6 DEF Launch, TypeOK, VaultOK, IndexOK, ClientsOK, ProcessOK, HistoryOK, PC, Pending
<1>7. CASE Shutdown
  BY <1>7 DEF Shutdown, TypeOK, VaultOK, IndexOK, ClientsOK, ProcessOK, HistoryOK, Pending
<1>8. CASE StartWatch
  BY <1>8 DEF StartWatch, TypeOK, VaultOK, IndexOK, ClientsOK, ProcessOK, HistoryOK, PC,
              Pending
<1>9. CASE CacheBody
  <2>1. IndexOK'  BY <1>9 DEF CacheBody, TypeOK, IndexOK, ProcessOK
  <2> QED
    BY <1>9, <2>1 DEF CacheBody, TypeOK, VaultOK, ClientsOK, ProcessOK, HistoryOK, Pending
<1>10. CASE StartDrain
  BY <1>10 DEF StartDrain, TypeOK, VaultOK, IndexOK, ClientsOK, ProcessOK, HistoryOK, PC,
               Pending
<1>11. CASE EndDrain
  <2>1. CASE final
    BY <1>11, <2>1, GoneType DEF EndDrain, TypeOK, HistoryOK
  <2>2. CASE ~final
    BY <1>11, <2>2 DEF EndDrain, TypeOK, VaultOK, IndexOK, ClientsOK, ProcessOK, HistoryOK,
                       PC, Pending
  <2> QED  BY <2>1, <2>2
<1>12. ASSUME Take  PROVE cur' \in Pending /\ cur' \in Nat /\ queue' = queue
  <2>1. cur' \in Pending
    BY <1>12, OldestIsPending DEF Take, TypeOK, ClientsOK
  <2> QED  BY <1>12, <2>1 DEF Pending, Take, TypeOK, ClientsOK
<1>13. CASE TakeWrite
  <2>1. queue[Oldest] \in Action
    BY <1>12, <1>13 DEF TakeWrite, Take, Pending, TypeOK, ClientsOK
  <2>2. plan' \in Seq(PlannedWrite) /\ plan' # <<>>
    BY <1>13, <2>1, WritesType DEF TakeWrite, TypeOK
  <2> QED
    BY <1>12, <1>13, <2>2
    DEF TakeWrite, Take, TypeOK, VaultOK, IndexOK, ClientsOK, ProcessOK, HistoryOK, PC, Pending
<1>14. CASE TakeSatisfied
  <2>1. queue[Oldest] \in Action
    BY <1>12, <1>14 DEF TakeSatisfied, Take, Pending, TypeOK, ClientsOK
  <2>2. reindex' \in Seq(Notes)  BY <1>14, <2>1 DEF TakeSatisfied, Action
  <2> QED
    BY <1>12, <1>14, <2>2
    DEF TakeSatisfied, Take, TypeOK, VaultOK, IndexOK, ClientsOK, ProcessOK, HistoryOK, PC,
        Pending
<1>15. CASE TakeRefused \/ TakeError
  <2>1. Take /\ pc' = "finish" /\ verdict' = "failed" /\ UNCHANGED <<plan, reindex, edits>>
    BY <1>15 DEF TakeRefused, TakeError
  <2>2. faults' \in Nat
    BY <1>15 DEF TakeRefused, TakeError, Failing, TypeOK, HistoryOK
  <2>3. ProcessOK'  BY <1>12, <2>1 DEF Take, TypeOK, ProcessOK, PC
  <2>4. HistoryOK'  BY <2>1, <2>2 DEF Take, TypeOK, HistoryOK
  <2> QED
    BY <1>12, <2>1, <2>3, <2>4 DEF Take, TypeOK, VaultOK, IndexOK, ClientsOK, Pending
<1>16. ASSUME pc \in {"write", "check", "rename"}
       PROVE  /\ Job \in PlannedWrite /\ Tail(plan) \in Seq(PlannedWrite)
              /\ cur \in Pending /\ queue[cur] \in Action
  BY <1>16, JobType
<1>17. CASE WriteTemp
  <2>1. Job \in PlannedWrite  BY <1>16, <1>17 DEF WriteTemp
  <2>2. VaultOK'  BY <1>17, <2>1 DEF WriteTemp, TypeOK, VaultOK, PlannedWrite
  <2> QED
    BY <1>17, <2>2 DEF WriteTemp, TypeOK, IndexOK, ClientsOK, ProcessOK, HistoryOK, PC, Pending
<1>18. CASE CheckPassed
  BY <1>18 DEF CheckPassed, TypeOK, VaultOK, IndexOK, ClientsOK, ProcessOK, HistoryOK, PC,
               Pending
<1>19. ASSUME GiveUp, pc \in {"write", "check", "rename"}, faults' \in Nat,
              UNCHANGED <<note, index, queue, seen, cur, reindex, half, scan, watching,
                          events, stopping, final, edits, writer, gap>>
       PROVE  TypeOK'
  <2>1. VaultOK'  BY <1>16, <1>19 DEF GiveUp, TypeOK, VaultOK, PlannedWrite
  <2>2. plan' \in Seq(PlannedWrite)  BY <1>19, EmptySequence DEF GiveUp
  <2>3. ProcessOK'  BY <1>19, <2>2 DEF GiveUp, TypeOK, ProcessOK, PC
  <2>4. HistoryOK'  BY <1>19 DEF GiveUp, TypeOK, HistoryOK
  <2> QED  BY <1>19, <2>1, <2>3, <2>4 DEF GiveUp, TypeOK, IndexOK, ClientsOK, Pending
<1>20. CASE CheckFailed
  BY <1>19, <1>20 DEF CheckFailed, TypeOK, HistoryOK
<1>21. CASE WriteError
  BY <1>19, <1>21 DEF WriteError, Failing, TypeOK, HistoryOK
<1>22. CASE Rename
  <2>1. /\ Job.note \in Notes /\ Job.line \in Nat /\ Tail(plan) \in Seq(PlannedWrite)
        /\ cur \in Pending /\ queue[cur].note \in Notes
    BY <1>16, <1>22 DEF Rename, PlannedWrite, Action
  <2>2. VaultOK'  BY <1>22, <2>1 DEF Rename, TypeOK, VaultOK
  <2>3. HistoryOK'  BY <1>22, <2>1 DEF Rename, TypeOK, HistoryOK, ProcessOK
  <2>4. AfterWrites(queue[cur]) \in Seq(Notes)  BY <2>1, RequestAssumption DEF AfterWrites
  <2>5. ProcessOK' /\ (pc' = "write" => plan' # <<>>) /\ pc' \in {"write", "finish"}
    BY <1>22, <2>1, <2>4 DEF Rename, TypeOK, ProcessOK, PC, Heard
  <2> QED
    BY <1>22, <2>1, <2>2, <2>3, <2>5 DEF Rename, TypeOK, IndexOK, ClientsOK, Pending
<1>23. CASE Reindex
  <2>1. Head(reindex) \in Notes /\ Tail(reindex) \in Seq(Notes)
    BY <1>23 DEF Reindex, TypeOK, ProcessOK
  <2>2. IndexOK' /\ half' \in SUBSET [note : Notes, body : Contents \cup {Missing}]
    BY <1>23, <2>1, IndexNoteType DEF Reindex
  <2> QED
    BY <1>23, <2>1, <2>2
    DEF Reindex, TypeOK, VaultOK, ClientsOK, ProcessOK, HistoryOK, Pending
<1>24. CASE Resolve
  <2>1. cur \in Pending /\ queue[cur] \in Action /\ verdict \in {"done", "failed"}
    BY <1>24 DEF Resolve, TypeOK, ProcessOK, ClientsOK, Pending
  <2>2. [queue[cur] EXCEPT !.state = verdict] \in Action  BY <2>1 DEF Action
  <2>3. queue' \in Seq(Action)
    BY <1>24, <2>1, <2>2 DEF Resolve, TypeOK, ClientsOK, Pending
  <2> QED
    BY <1>24, <2>3 DEF Resolve, TypeOK, VaultOK, IndexOK, ClientsOK, ProcessOK, HistoryOK, PC
<1>25. CASE IndexError
  <2>1. faults' \in Nat /\ scan' \in SUBSET scan /\ events' \in SUBSET events
    BY <1>25 DEF IndexError, Failing, TypeOK, HistoryOK
  <2>6. half' \in SUBSET [note : Notes, body : Contents \cup {Missing}]
    BY <1>25 DEF IndexError, TypeOK, ProcessOK
  <2>5. reindex' \in Seq(Notes)
    <3>1. CASE reindex # <<>> /\ reindex' = Tail(reindex)  BY <3>1 DEF TypeOK, ProcessOK
    <3>2. CASE reindex' = reindex  BY <3>2 DEF TypeOK, ProcessOK
    <3> QED  BY <1>25, <3>1, <3>2 DEF IndexError
  <2>2. gap' \in SUBSET Notes
    BY <1>25 DEF IndexError, TypeOK, ProcessOK, HistoryOK
  <2>3. ProcessOK'  BY <1>25, <2>1, <2>5, <2>6 DEF IndexError, TypeOK, ProcessOK
  <2>4. HistoryOK'  BY <1>25, <2>1, <2>2 DEF IndexError, TypeOK, HistoryOK
  <2> QED
    BY <1>25, <2>3, <2>4 DEF IndexError, TypeOK, VaultOK, IndexOK, ClientsOK, Pending
<1>26. CASE DrainError \/ Crash
  <2>0. faults' \in Nat
    BY <1>26 DEF DrainError, Crash, Failing, TypeOK, HistoryOK
  <2>1. CASE Crash \/ final
    BY <1>26, <2>0, <2>1, GoneType DEF Crash, DrainError
  <2>2. CASE DrainError /\ ~final
    <3>1. ProcessOK'  BY <2>2 DEF DrainError, TypeOK, ProcessOK, PC
    <3>2. HistoryOK'  BY <2>0, <2>2 DEF DrainError, TypeOK, HistoryOK
    <3> QED
      BY <2>2, <3>1, <3>2 DEF DrainError, TypeOK, VaultOK, IndexOK, ClientsOK, ProcessOK,
                              Pending
  <2> QED  BY <1>26, <2>1, <2>2
<1>27. CASE UNCHANGED vars
  BY <1>27 DEF TypeOK, VaultOK, IndexOK, ClientsOK, ProcessOK, HistoryOK, Pending
<1> QED
  BY <1>1, <1>2, <1>3, <1>4, <1>5, <1>6, <1>7, <1>8, <1>9, <1>10, <1>11, <1>13, <1>14, <1>15,
     <1>17, <1>18, <1>20, <1>21, <1>22, <1>23, <1>24, <1>25, <1>26, <1>27, NextCases

\* Every variable keeps its type, and the daemon in a write has an action that is still
\* pending and a write to make, however its steps mix with clients, editor and faults.
THEOREM Typing == Spec => []TypeOK
<1> QED  BY InitTypeOK, NextTypeOK, PTL DEF Spec

-----------------------------------------------------------------------------
\* What changes the queue and the notes.

\* The queue is written by the clients that enqueue and by the daemon that resolves.
LEMMA QueueSteps ==
  ASSUME [Next]_vars
  PROVE  \/ \E c \in Clients : Enqueue(c)
         \/ Resolve
         \/ UNCHANGED queue
BY NextCases
DEF vars, Poll, EditorSave, ScanNote, HandleEvent, Launch, Shutdown, StartWatch,
    CacheBody, StartDrain, EndDrain, TakeWrite, TakeSatisfied, TakeRefused, Take,
    WriteTemp, CheckPassed, CheckFailed, Rename, Reindex, TakeError, WriteError,
    IndexError, DrainError, Crash

\* An action in the queue stays what it was asked to be; only its state changes.
LEMMA QueueGrows ==
  ASSUME TypeOK, [Next]_vars
  PROVE  /\ DOMAIN queue \subseteq DOMAIN queue'
         /\ \A k \in DOMAIN queue : /\ queue'[k].type = queue[k].type
                                    /\ queue'[k].note = queue[k].note
                                    /\ queue'[k].new = queue[k].new
                                    /\ queue'[k].want = queue[k].want
                                    /\ queue'[k].typed = queue[k].typed
         /\ pc # "finish" => \A k \in DOMAIN queue : queue'[k] = queue[k]
<1>1. ASSUME NEW c \in Clients, Enqueue(c)
      PROVE  DOMAIN queue \subseteq DOMAIN queue' /\ \A k \in DOMAIN queue : queue'[k] = queue[k]
  <2>1. PICK a \in Gestures(c) : queue' = Append(queue, a)  BY <1>1 DEF Enqueue
  <2> QED  BY <2>1 DEF TypeOK, ClientsOK
<1>2. CASE Resolve
  <2>1. cur \in DOMAIN queue /\ queue' = [queue EXCEPT ![cur].state = verdict]
    BY <1>2 DEF Resolve, TypeOK, Pending
  <2>2. queue[cur] \in Action  BY <2>1 DEF TypeOK, ClientsOK
  <2>3. \A k \in DOMAIN queue : queue'[k] = IF k = cur
                                           THEN [queue[cur] EXCEPT !.state = verdict]
                                           ELSE queue[k]
    BY <2>1 DEF TypeOK, ClientsOK
  <2>4. DOMAIN queue' = DOMAIN queue /\ pc = "finish"
    BY <1>2, <2>1 DEF Resolve, TypeOK, ClientsOK
  <2> QED  BY <2>2, <2>3, <2>4 DEF Action
<1> QED  BY <1>1, <1>2, QueueSteps

\* A note changes by the hand of the editor or by a rename.
LEMMA NoteSteps ==
  ASSUME [Next]_vars
  PROVE  \/ \E n \in Notes : EditorSave(n)
         \/ Rename
         \/ UNCHANGED <<note, writer>>
BY NextCases
DEF vars, vault, history, Poll, Enqueue, ScanNote, HandleEvent, Launch, Shutdown, StartWatch,
    CacheBody, StartDrain, EndDrain, TakeWrite, TakeSatisfied, TakeRefused, Take, WriteTemp,
    CheckPassed, CheckFailed, GiveUp, Reindex, Resolve, TakeError, WriteError, IndexError,
    DrainError, Crash

-----------------------------------------------------------------------------
\* The index.
\* The steps that change the tasks table: a reconciliation with what a note holds, and
\* the removal of a note that is gone.
LEMMA IndexSteps ==
  ASSUME TypeOK, [Next]_vars
  PROVE  \/ UNCHANGED <<rows, nextId>>
         \/ \E n \in Notes : /\ Table(rows, nextId, n, note[n])
                             /\ Reconcile(n, note[n])
                             /\ UNCHANGED <<queue, seen>>
         \/ \E n \in Notes : /\ rows' = rows \ RowsOf(rows, n)
                             /\ UNCHANGED <<nextId, queue, seen>>
<1> DEFINE Goal == \/ UNCHANGED <<rows, nextId>>
                   \/ \E n \in Notes : /\ Table(rows, nextId, n, note[n])
                                       /\ Reconcile(n, note[n])
                                       /\ UNCHANGED <<queue, seen>>
                   \/ \E n \in Notes : /\ rows' = rows \ RowsOf(rows, n)
                                       /\ UNCHANGED <<nextId, queue, seen>>
<1>1. ASSUME NEW n \in Notes, IndexNote(n), UNCHANGED <<queue, seen>>  PROVE Goal
  <2>1. CASE note[n] = Missing  BY <1>1, <2>1 DEF IndexNote
  <2>2. CASE note[n] # Missing
    <3>1. note[n] \in Contents  BY <2>2 DEF TypeOK, VaultOK
    <3>2. Table(rows, nextId, n, note[n])  BY <3>1 DEF Table, TypeOK, IndexOK
    <3> QED  BY <1>1, <2>2, <3>2 DEF IndexNote
  <2> QED  BY <2>1, <2>2
<1>2. ASSUME NEW n \in Notes, ForgetNote(n), UNCHANGED <<queue, seen>>  PROVE Goal
  BY <1>2 DEF ForgetNote
<1>3. ASSUME NEW n \in Notes, ScanNote(n) \/ HandleEvent(n)  PROVE Goal
  BY <1>1, <1>2, <1>3 DEF ScanNote, HandleEvent
<1>4. CASE Reindex
  <2>1. Head(reindex) \in Notes  BY <1>4 DEF Reindex, TypeOK, ProcessOK
  <2> QED  BY <1>1, <1>4, <2>1 DEF Reindex
<1> HIDE DEF Goal
<1>5. UNCHANGED <<rows, nextId>> => Goal  BY DEF Goal
<1>6. CASE ~(\E n \in Notes : ScanNote(n) \/ HandleEvent(n)) /\ ~Reindex
  BY <1>5, <1>6, NextCases
  DEF index, vars, Poll, Enqueue, EditorSave, Launch, Shutdown, StartWatch, CacheBody,
      StartDrain, EndDrain, TakeWrite, TakeSatisfied, TakeRefused, Take, WriteTemp,
      CheckPassed, CheckFailed, Rename, Resolve, TakeError, WriteError, IndexError,
      DrainError, Crash
<1> QED  BY <1>3, <1>4, <1>6 DEF Goal

-----------------------------------------------------------------------------

LEMMA InitSnapshot == Init => IndexIsSnapshot
BY DEF Init, IndexIsSnapshot, Snapshot

LEMMA NextSnapshot == TypeOK /\ IndexIsSnapshot /\ [Next]_vars => IndexIsSnapshot'
<1> SUFFICES ASSUME TypeOK, Snapshot(rows, nextId), [Next]_vars
             PROVE  Snapshot(rows', nextId')
  BY DEF IndexIsSnapshot
<1>1. CASE UNCHANGED <<rows, nextId>>  BY <1>1
<1>2. ASSUME NEW n \in Notes, Table(rows, nextId, n, note[n]), Reconcile(n, note[n])
      PROVE  Snapshot(rows', nextId')
  BY <1>2, ReconciledSnapshot DEF Reconcile
<1>3. ASSUME NEW n \in Notes, rows' = rows \ RowsOf(rows, n), UNCHANGED nextId
      PROVE  Snapshot(rows', nextId')
  BY <1>3, ForgottenSnapshot
<1> QED  BY <1>1, <1>2, <1>3, IndexSteps

\* For every vault: whatever scans, restarts, crashes and failed transactions come
\* between, the rows of a note are all the tasks of one content of the note.
THEOREM SnapshotAlways == Spec => []IndexIsSnapshot
<1> QED  BY InitTypeOK, NextTypeOK, InitSnapshot, NextSnapshot, PTL DEF Spec

-----------------------------------------------------------------------------
\* An id in the hands of a client was given out by the AUTOINCREMENT, which never goes
\* back: what a reconciliation inserts cannot be mistaken for it.
IdsGivenOut ==
    /\ \A k \in DOMAIN queue : queue[k].task < nextId
    /\ \A c \in Clients : \A q \in seen[c] : q.id < nextId

IdInv == IndexIsSnapshot /\ IdsGivenOut /\ IdKeepsText

LEMMA InitIdInv == Init => IdInv
BY InitSnapshot DEF Init, IdInv, IdsGivenOut, IdKeepsText

LEMMA NextIdInv == TypeOK /\ IdInv /\ [Next]_vars => IdInv'
<1> SUFFICES ASSUME TypeOK, IdInv, [Next]_vars PROVE IdsGivenOut' /\ IdKeepsText'
  BY NextSnapshot DEF IdInv
<1>0. nextId \in Nat /\ \A r \in rows : r.id \in Nat /\ r.id < nextId
  BY DEF TypeOK, IndexOK, Row, IdInv, IndexIsSnapshot, Snapshot
<1>1. /\ \A k \in DOMAIN queue : queue[k].task \in Nat
      /\ \A c \in Clients : \A q \in seen[c] : q.id \in Nat
  <2>1. \A k \in DOMAIN queue : queue[k] \in Action  BY DEF TypeOK, ClientsOK
  <2>2. \A c \in Clients : \A q \in seen[c] : q \in Row  BY DEF TypeOK, ClientsOK
  <2> QED  BY <2>1, <2>2 DEF Action, Row
<1>2. ASSUME NEW c \in Clients, Poll(c)  PROVE IdsGivenOut' /\ IdKeepsText'
  <2>1. \A d \in Clients : seen'[d] = IF d = c THEN rows ELSE seen[d]
    BY <1>2 DEF Poll, TypeOK, ClientsOK
  <2>2. UNCHANGED <<rows, nextId, queue>>  BY <1>2 DEF Poll, index
  <2> QED
    BY <1>0, <2>1, <2>2 DEF IdInv, IdsGivenOut, IdKeepsText, IndexIsSnapshot, Snapshot
<1>3. ASSUME NEW c \in Clients, Enqueue(c)  PROVE IdsGivenOut' /\ IdKeepsText'
  <2>2. PICK a \in Gestures(c) : queue' = Append(queue, a)  BY <1>3 DEF Enqueue
  <2>3. /\ a \in Action
        /\ \/ a.task = 0
           \/ \E r \in seen[c] : a.task = r.id /\ a.note = r.note /\ a.saw = r.text
           \/ \E k \in DOMAIN queue :
                 a.task = queue[k].task /\ a.note = queue[k].note /\ a.saw = queue[k].saw
    BY GesturesType DEF TypeOK
  <2>4. \A k \in DOMAIN queue' :
          (k \in DOMAIN queue /\ queue'[k] = queue[k]) \/ queue'[k] = a
    BY <2>2, <2>3 DEF TypeOK, ClientsOK
  <2>5. UNCHANGED <<rows, nextId, seen>>  BY <1>3 DEF Enqueue, index
  <2>6. nextId > 0 /\ \A r \in rows : r.id # 0  BY DEF TypeOK, IndexOK, Row
  <2>7. a.task < nextId  BY <2>3, <2>6, <1>0 DEF IdInv, IdsGivenOut
  <2>8. \A r \in rows : a.task = r.id => a.saw = r.text /\ a.note = r.note
    BY <2>3, <2>6 DEF IdInv, IdKeepsText
  <2> QED  BY <2>4, <2>5, <2>7, <2>8 DEF IdInv, IdsGivenOut, IdKeepsText
<1>4. CASE Resolve
  <2>1. cur \in DOMAIN queue /\ queue' = [queue EXCEPT ![cur].state = verdict]
    BY <1>4 DEF Resolve, TypeOK, Pending
  <2>2. /\ DOMAIN queue' = DOMAIN queue
        /\ \A k \in DOMAIN queue : /\ queue'[k].task = queue[k].task
                                   /\ queue'[k].saw = queue[k].saw
                                   /\ queue'[k].note = queue[k].note
    <3>1. queue[cur] \in Action  BY <2>1 DEF TypeOK, ClientsOK
    <3>2. \A k \in DOMAIN queue : queue'[k] = IF k = cur
                                             THEN [queue[cur] EXCEPT !.state = verdict]
                                             ELSE queue[k]
      BY <2>1 DEF TypeOK, ClientsOK
    <3> QED  BY <2>1, <3>1, <3>2 DEF TypeOK, ClientsOK, Action
  <2>3. UNCHANGED <<rows, nextId, seen>>  BY <1>4 DEF Resolve, index
  <2> QED  BY <2>2, <2>3 DEF IdInv, IdsGivenOut, IdKeepsText
<1>5. ASSUME NEW n \in Notes, Table(rows, nextId, n, note[n]), Reconcile(n, note[n]),
             UNCHANGED <<queue, seen>>
      PROVE  IdsGivenOut' /\ IdKeepsText'
  <2>1. nextId' \in Nat /\ nextId <= nextId'  BY <1>5, ReconciledType DEF Reconcile
  <2>2. \A r \in rows' :
          r.id >= nextId \/ \E q \in rows : q.id = r.id /\ q.text = r.text /\ q.note = r.note
    BY <1>5, ReconciledKeepsText DEF Reconcile
  <2>3. IdsGivenOut'  BY <1>0, <1>1, <1>5, <2>1 DEF IdInv, IdsGivenOut
  <2>4. ASSUME NEW r \in rows', r.id >= nextId
        PROVE  /\ \A k \in DOMAIN queue : queue[k].task # r.id
               /\ \A c \in Clients : \A q \in seen[c] : q.id # r.id
    BY <1>0, <1>1, <2>4 DEF IdInv, IdsGivenOut
  <2> QED  BY <1>5, <2>2, <2>3, <2>4 DEF IdInv, IdKeepsText
<1>6. ASSUME NEW n \in Notes, rows' = rows \ RowsOf(rows, n),
             UNCHANGED <<nextId, queue, seen>>
      PROVE  IdsGivenOut' /\ IdKeepsText'
  BY <1>6 DEF IdInv, IdsGivenOut, IdKeepsText
<1>7. CASE UNCHANGED <<rows, nextId, queue, seen>>
  BY <1>7 DEF IdInv, IdsGivenOut, IdKeepsText
<1>8. ASSUME \A c \in Clients : ~Poll(c) /\ ~Enqueue(c), ~Resolve
      PROVE  UNCHANGED <<queue, seen>>
  BY <1>8, NextCases
  DEF vars, EditorSave, ScanNote, HandleEvent, Launch, Shutdown, StartWatch, CacheBody,
      StartDrain, EndDrain, TakeWrite, TakeSatisfied, TakeRefused, Take, WriteTemp,
      CheckPassed, CheckFailed, Rename, Reindex, TakeError, WriteError, IndexError,
      DrainError, Crash
<1> QED  BY <1>2, <1>3, <1>4, <1>5, <1>6, <1>7, <1>8, IndexSteps

\* For every vault and any number of clients and actions: an id that an action or a
\* client's list refers to is never given to a task with another text.
THEOREM IdentityAlways == Spec => []IdKeepsText
<1>1. Init => TypeOK /\ IdInv  BY InitTypeOK, InitIdInv
<1>2. TypeOK /\ IdInv /\ [Next]_vars => (TypeOK /\ IdInv)'  BY NextTypeOK, NextIdInv
<1>3. IdInv => IdKeepsText  BY DEF IdInv
<1> QED  BY <1>1, <1>2, <1>3, PTL DEF Spec

-----------------------------------------------------------------------------
\* From the scan on, and not only once the watcher is registered, every note is fresh,
\* or a scan, an event or the record of a gap stands for it.
Covered(n) == Fresh(n) \/ n \in events \/ n \in gap \/ n \in scan

CoverInv == /\ pc # "down" => \A n \in Notes : Covered(n)
            /\ pc # "boot" => scan = {}

LEMMA IndexedIsFresh ==
  ASSUME NEW n \in Notes, IndexNote(n), UNCHANGED note
  PROVE  /\ note[n] = Missing => UNCHANGED rows
         /\ note[n] # Missing => Fresh(n)'
         /\ \A m \in Notes \ {n} : Fresh(m) => Fresh(m)'
<1>1. CASE note[n] = Missing  BY <1>1 DEF IndexNote, Fresh, RowsOf, LinesOf
<1>2. CASE note[n] # Missing
  <2>1. rows' = Reconciled(rows, nextId, n, note[n])  BY <1>2 DEF IndexNote, Reconcile
  <2>2. LinesOf(rows', n) = IndexedLines(note[n])  BY <2>1, ReconciledLines
  <2>3. \A r \in RowsOf(rows', n) : r.hash = note[n]
    BY <2>1, ReconciledLines DEF RowAt
  <2>4. \A m \in Notes \ {n} : RowsOf(rows', m) = RowsOf(rows, m)
    BY <2>1, ReconciledLines
  <2> QED  BY <1>2, <2>2, <2>3, <2>4 DEF Fresh, LinesOf
<1> QED  BY <1>1, <1>2

LEMMA ForgottenIsFresh ==
  ASSUME NEW n \in Notes, note[n] = Missing, ForgetNote(n), UNCHANGED note
  PROVE  \A m \in Notes : m = n \/ Fresh(m) => Fresh(m)'
<1>1. RowsOf(rows', n) = {}  BY DEF ForgetNote, RowsOf
<1>2. \A m \in Notes \ {n} : RowsOf(rows', m) = RowsOf(rows, m)  BY DEF ForgetNote, RowsOf
<1> QED  BY <1>1, <1>2 DEF Fresh, LinesOf

LEMMA NextCoverInv == TypeOK /\ CoverInv /\ [Next]_vars => CoverInv'
<1> SUFFICES ASSUME TypeOK, CoverInv, [Next]_vars PROVE CoverInv'  OBVIOUS
<1>0. pc \in {"down", "boot"} <=> ~watching  BY DEF TypeOK
<1>1. ASSUME NEW n \in Notes, EditorSave(n)  PROVE CoverInv'
  <2>1. \A m \in Notes \ {n} : note'[m] = note[m]
    BY <1>1 DEF EditorSave, TypeOK, VaultOK
  <2>2. UNCHANGED <<rows, scan, pc>>  BY <1>1 DEF EditorSave, index
  <2>3. \A m \in Notes \ {n} : Fresh(m) => Fresh(m)'  BY <2>1, <2>2 DEF Fresh
  <2>4. events \in SUBSET events' /\ gap \in SUBSET gap'
    BY <1>1 DEF EditorSave, Heard
  <2>5. pc # "down" => n \in events' \/ n \in gap' \/ n \in scan'
    BY <1>0, <1>1 DEF EditorSave, Heard
  <2> QED  BY <2>2, <2>3, <2>4, <2>5 DEF CoverInv, Covered
<1>2. ASSUME NEW n \in Notes, ScanNote(n)  PROVE CoverInv'
  <2>1. /\ pc = "boot" /\ pc' = pc /\ note' = note /\ scan' = scan \ {n} /\ events' = events
        /\ IndexNote(n)
        /\ gap' = IF note[n] = Missing /\ RowsOf(rows, n) # {} THEN gap \cup {n} ELSE gap \ {n}
    BY <1>2 DEF ScanNote, vault
  <2>2. \A m \in Notes \ {n} : Fresh(m) => Fresh(m)'  BY <2>1, IndexedIsFresh
  <2>3. Fresh(n)' \/ n \in gap'
    <3>1. CASE note[n] # Missing  BY <2>1, <3>1, IndexedIsFresh
    <3>2. CASE note[n] = Missing /\ RowsOf(rows, n) = {}
      BY <2>1, <3>2, IndexedIsFresh DEF Fresh, LinesOf
    <3> QED  BY <2>1, <3>1, <3>2
  <2> QED  BY <2>1, <2>2, <2>3 DEF CoverInv, Covered
<1>3. ASSUME NEW n \in Notes, HandleEvent(n)  PROVE CoverInv'
  <2>1. /\ pc = "tick" /\ pc' = pc /\ note' = note /\ scan' = scan
        /\ events' = events \ {n} /\ gap' = gap \ {n}
        /\ IF note[n] = Missing THEN ForgetNote(n) ELSE IndexNote(n)
    BY <1>3 DEF HandleEvent, vault
  <2>2. \A m \in Notes : m = n \/ Fresh(m) => Fresh(m)'
    BY <2>1, IndexedIsFresh, ForgottenIsFresh
  <2> QED  BY <2>1, <2>2 DEF CoverInv, Covered
<1>4. CASE Reindex
  <2> DEFINE n == Head(reindex)
  <2>1. n \in Notes  BY <1>4 DEF Reindex, TypeOK, ProcessOK
  <2>2. IndexNote(n) /\ UNCHANGED <<note, pc, scan, events, gap>>
    BY <1>4 DEF Reindex, vault, history
  <2> HIDE DEF n
  <2>3. \A m \in Notes : Fresh(m) => Fresh(m)'
    <3>1. CASE note[n] = Missing
      <4>1. UNCHANGED <<rows, note>>  BY <2>1, <2>2, <3>1, IndexedIsFresh
      <4> QED  BY <4>1 DEF Fresh
    <3>2. CASE note[n] # Missing  BY <2>1, <2>2, <3>2, IndexedIsFresh
    <3> QED  BY <3>1, <3>2
  <2> QED  BY <2>2, <2>3 DEF CoverInv, Covered
<1>5. CASE Launch
  BY <1>5 DEF Launch, CoverInv, Covered
<1>6. CASE Rename
  <2>1. Job.note \in Notes /\ pc # "down" /\ watching
    BY <1>0, <1>6, JobType DEF Rename, PlannedWrite
  <2>2. \A m \in Notes \ {Job.note} : note'[m] = note[m]
    BY <1>6 DEF Rename, TypeOK, VaultOK
  <2>3. rows' = rows /\ scan' = scan /\ gap' = gap /\ events' = events \cup {Job.note}
        /\ pc' \in {"write", "finish"} /\ pc = "rename"
    BY <1>6, <2>1 DEF Rename, index, Heard
  <2>4. \A m \in Notes \ {Job.note} : Fresh(m) => Fresh(m)'  BY <2>2, <2>3 DEF Fresh
  <2> QED  BY <2>1, <2>3, <2>4 DEF CoverInv, Covered
<1>7. CASE IndexError
  <2>1. /\ UNCHANGED <<note, rows, pc>>
        /\ \A m \in Notes : m \in events => m \in events' \/ m \in gap'
        /\ \A m \in Notes : m \in scan => m \in scan' \/ m \in gap'
        /\ gap \in SUBSET gap' /\ scan' \in SUBSET scan
    BY <1>7 DEF IndexError, vault, index
  <2>2. \A m \in Notes : Fresh(m) => Fresh(m)'  BY <2>1 DEF Fresh
  <2> QED  BY <2>1, <2>2 DEF CoverInv, Covered
<1>8. CASE Gone
  BY <1>8 DEF Gone, CoverInv
<1>9. ASSUME UNCHANGED <<note, rows, scan, events, gap>>,
             pc = "down" => pc' = "down", pc = "boot" /\ scan # {} => pc' = "boot"
      PROVE  CoverInv'
  <2>1. \A m \in Notes : Covered(m) => Covered(m)'  BY <1>9 DEF Covered, Fresh
  <2> QED  BY <1>9, <2>1 DEF CoverInv
<1>10. CASE StartWatch \/ StartDrain \/ TakeWrite \/ TakeSatisfied \/ TakeRefused \/ TakeError
            \/ WriteTemp \/ CheckPassed \/ CheckFailed \/ WriteError \/ Resolve
  BY <1>9, <1>10
  DEF StartWatch, StartDrain, TakeWrite, TakeSatisfied, TakeRefused, TakeError, Take,
      WriteTemp, CheckPassed, CheckFailed, WriteError, GiveUp, Resolve, vault, index, history
<1>11. CASE EndDrain \/ DrainError \/ Crash
  BY <1>8, <1>9, <1>11 DEF EndDrain, DrainError, Crash, vault, index, history
<1>12. CASE Shutdown \/ CacheBody \/ UNCHANGED vars
  BY <1>9, <1>12 DEF Shutdown, CacheBody, vars, vault, index, process, history
<1>13. ASSUME NEW c \in Clients, Poll(c) \/ Enqueue(c)  PROVE CoverInv'
  BY <1>9, <1>13 DEF Poll, Enqueue, vault, index, process, history
<1> QED
  BY <1>1, <1>2, <1>3, <1>4, <1>5, <1>6, <1>7, <1>10, <1>11, <1>12, <1>13, NextCases

\* For every vault: once the daemon watches, an index that is out of date for a note is
\* covered by an event still to come, or by one of the gaps the model records.
THEOREM StalenessCovered == Spec => []StaleIsCovered
<1>1. Init => TypeOK /\ CoverInv  BY InitTypeOK DEF Init, CoverInv
<1>2. TypeOK /\ CoverInv /\ [Next]_vars => (TypeOK /\ CoverInv)'
  BY NextTypeOK, NextCoverInv
<1>3. TypeOK /\ CoverInv => StaleIsCovered
  BY DEF TypeOK, CoverInv, Covered, StaleIsCovered
<1> QED  BY <1>1, <1>2, <1>3, PTL DEF Spec
===============================================================================
