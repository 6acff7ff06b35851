---------------------------- MODULE Writes_proofs ----------------------------
(***************************************************************************)
(* Theorems about what the write-back core writes: a rename lands on the   *)
(* contents the action was judged on, and what it puts there is what the   *)
(* action is for, whatever its type, and nothing else.                     *)
(***************************************************************************)
EXTENDS WriteBack_proofs

Writing == pc \in {"write", "check", "rename"}

\* The steps that change what is in the vault, and the ones that do not.
LEMMA VaultSteps ==
  ASSUME [Next]_vars
  PROVE  \/ \E n \in Notes : EditorSave(n)
         \/ WriteTemp \/ Rename \/ CheckFailed \/ WriteError \/ Launch
         \/ UNCHANGED vault
BY NextCases
DEF vars, Poll, Enqueue, ScanNote, HandleEvent, Shutdown, StartWatch, CacheBody, StartDrain,
    EndDrain, TakeWrite, TakeSatisfied, TakeRefused, Take, CheckPassed, Reindex, Resolve,
    TakeError, IndexError, DrainError, Crash

\* The steps of a write: it is planned, it proceeds, or it is over.
LEMMA WritingSteps ==
  ASSUME TypeOK, [Next]_vars, Writing'
  PROVE  \/ TakeWrite \/ WriteTemp \/ CheckPassed \/ Rename
         \/ \E n \in Notes : EditorSave(n)
         \/ UNCHANGED <<vault, pc, plan, cur, raced>>
<1>1. ASSUME NEW c \in Clients, Poll(c) \/ Enqueue(c)
      PROVE  UNCHANGED <<vault, pc, plan, cur, raced>>
  BY <1>1 DEF Poll, Enqueue, process, history
<1>2. ASSUME Shutdown \/ CacheBody \/ UNCHANGED vars
      PROVE  UNCHANGED <<vault, pc, plan, cur, raced>>
  BY <1>2 DEF Shutdown, CacheBody, vars, process, history
<1>3. ASSUME IndexError  PROVE UNCHANGED <<vault, pc, plan, cur, raced>>
  BY <1>3 DEF IndexError
<1>4. ASSUME NEW n \in Notes, ScanNote(n) \/ HandleEvent(n)  PROVE FALSE
  BY <1>4 DEF Writing, ScanNote, HandleEvent
<1>5. CASE Launch \/ StartWatch \/ StartDrain \/ EndDrain \/ TakeSatisfied \/ TakeRefused
  BY <1>5 DEF Writing, Launch, StartWatch, StartDrain, EndDrain, Gone, TakeSatisfied,
              TakeRefused
<1>6. CASE CheckFailed \/ Reindex \/ Resolve \/ TakeError \/ WriteError \/ DrainError \/ Crash
  BY <1>6 DEF Writing, CheckFailed, GiveUp, Creates, Reindex, Resolve, TakeError, WriteError,
              DrainError, Gone, Crash
<1> QED  BY <1>1, <1>2, <1>3, <1>4, <1>5, <1>6, NextCases

-----------------------------------------------------------------------------
\* The guard of atomic_write.  The temp file holds what was judged right from the time
\* it is written, and the note what it was judged on from the time it is checked.
CheckInv ==
    /\ pc \in {"check", "rename"} => temp[Job.note] = Job.body
    /\ pc = "rename" /\ Job.base # Missing /\ ~raced => note[Job.note] = Job.base

LEMMA NextCheckInv == TypeOK /\ CheckInv /\ [Next]_vars => CheckInv'
<1> SUFFICES ASSUME TypeOK, CheckInv, [Next]_vars, pc' \in {"check", "rename"}
             PROVE  CheckInv'
  BY DEF CheckInv
<1>0. Writing'  BY DEF Writing
<1>1. CASE TakeWrite  BY <1>1 DEF TakeWrite
<1>2. CASE WriteTemp
  <2>1. Job.note \in Notes  BY <1>2, JobType DEF WriteTemp, PlannedWrite
  <2>2. temp'[Job.note] = Job.body /\ Job' = Job
    BY <1>2, <2>1 DEF WriteTemp, TypeOK, VaultOK, Job
  <2>3. pc' = "rename" => Job.base = Missing  BY <1>2 DEF WriteTemp, Creates
  <2> QED  BY <2>2, <2>3 DEF CheckInv
<1>3. CASE CheckPassed
  BY <1>3 DEF CheckPassed, CheckInv, Job, vault
<1>4. CASE Rename
  BY <1>4 DEF Rename
<1>5. ASSUME NEW n \in Notes, EditorSave(n)  PROVE CheckInv'
  <2>1. /\ UNCHANGED <<temp, pc, plan>> /\ Job' = Job
        /\ \A m \in Notes \ {n} : note'[m] = note[m]
        /\ raced' = (raced \/ (pc = "rename" /\ Job.note = n))
    BY <1>5 DEF EditorSave, TypeOK, VaultOK, Job
  <2>2. Job.note \in Notes  BY <1>0, <2>1, JobType DEF Writing, PlannedWrite
  <2> QED  BY <2>1, <2>2 DEF CheckInv
<1>6. CASE UNCHANGED <<vault, pc, plan, cur, raced>>
  BY <1>6 DEF CheckInv, Job, vault
<1> QED  BY <1>0, <1>1, <1>2, <1>3, <1>4, <1>5, <1>6, WritingSteps

\* For every vault and any editor: what is renamed over a note was judged on what the
\* note holds, unless the editor saved after the last check.
THEOREM RenameIsChecked == Spec => []CheckedRename
<1>1. Init => TypeOK /\ CheckInv  BY InitTypeOK DEF Init, CheckInv
<1>2. TypeOK /\ CheckInv /\ [Next]_vars => (TypeOK /\ CheckInv)'
  BY NextTypeOK, NextCheckInv
<1>3. CheckInv => CheckedRename  BY DEF CheckInv, CheckedRename
<1> QED  BY <1>1, <1>2, <1>3, PTL DEF Spec

-----------------------------------------------------------------------------
\* What the daemon plans.

\* What process_action_at, process_metadata_action and process_bullet_action put in
\* place of a line is the rewrite they were asked for.
LEMMA ReplacementsRewrite ==
  ASSUME NEW old \in Line, NEW char, NEW a \in Action, NEW new \in Replacements(old, char, a)
  PROVE  RewriteOf(old, new, a)
<1>1. CASE a.type = "checkbox"
  <2>1. /\ new = Flipped(old, a.new, Today) /\ old.kind = "task" /\ a.expected = old.char
    BY <1>1 DEF Replacements
  <2>2. /\ new.kind = old.kind /\ new.char = a.new /\ new.indent = old.indent
        /\ new.text.name = old.text.name /\ new.text.sched = old.text.sched
        /\ new.text.added = old.text.added
        /\ IsClosed(a.new) => NoDate \in {new.text.done, new.text.cancelled}
    BY <2>1 DEF Flipped, Line, Text, IsClosed, IsDone, IsCancelled, Stamps
  <2> QED  BY <1>1, <2>1, <2>2 DEF RewriteOf
<1>2. CASE a.type = "set_scheduled"
  BY <1>2 DEF Replacements, RewriteOf, Scheduled, Line, Text
<1>3. CASE a.type = "toggle_bullet"
  BY <1>3 DEF Replacements, RewriteOf, Toggled, Line
<1> QED  BY <1>1, <1>2, <1>3 DEF Replacements

\* What a write is that was judged right for an action, whatever has happened to the
\* vault and the index since.  A line that already says what a flip or a reschedule asks
\* for is not written.
Says(line, a) == \/ a.type = "checkbox" /\ line.char = a.new
                 \/ a.type = "set_scheduled" /\ line.text.sched = a.want

RewritesLine(w, a) ==
    /\ w.base \in Contents /\ w.line \in DOMAIN w.base
    /\ w.body = SetLine(w.base, w.line, w.body[w.line])
    /\ RewriteOf(w.base[w.line], w.body[w.line], a)
    /\ a.type # "toggle_bullet" => Says(w.body[w.line], a) /\ ~Says(w.base[w.line], a)

ReordersTasks(w, a) ==
    /\ w.base \in Contents /\ Range(a.lines) \subseteq FlatTaskLines(w.base)
    /\ w.body = PermuteLines(w.base, a.lines)

AddsTask(w, a) ==
    LET task == NewTask(a.typed, Today)
    IN  /\ w.base \in Contents \cup {Missing} /\ w.note = a.note /\ task \in Line
        /\ w.body = IF w.base = Missing THEN <<task>> ELSE WithTask(w.base, task)

TakesBack(w, a) ==
    /\ w.base \in Contents
    /\ \E i \in LastAdded(w.base, NewTask(a.typed, Today)) : w.body = Undone(w.base, i)

AddsNote(w, a) ==
    /\ w.base \in Contents /\ NoteBullet(a.typed) \in Line
    /\ \E i \in TaskLines(w.base), id \in Links :
          /\ w.body = Noted(w.base, i, id, NoteBullet(a.typed))
          /\ \/ w.base[i].text.link = id
             \/ w.base[i].text.link = NoLink /\ Headings(w.base, id) = {}

\* The two writes of an archive move: the copy, and the removal from the note v.
CopiesLines(w, v, a) ==
    /\ w.note = Archive /\ w.base \in Contents \cup {Missing}
    /\ w.body = (IF w.base = Missing THEN <<>> ELSE w.base) \o ExtractLines(v.base, a.lines)

Removes(w, a) ==
    /\ w.note # Archive
    /\ w.base \in Contents /\ Range(a.lines) \subseteq ClosedFlatLines(w.base)
    /\ w.body = RemoveLines(w.base, a.lines)

JudgedOne(w, a) ==
    /\ a.type \in LineTypes => RewritesLine(w, a)
    /\ a.type = "reorder" => ReordersTasks(w, a)
    /\ a.type = "quick_add" => AddsTask(w, a)
    /\ a.type = "quick_add_undo" => TakesBack(w, a)
    /\ a.type = "add_note" => AddsNote(w, a)

Judged(p, a) ==
    IF a.type = "archive"
    THEN Len(p) = 2 /\ CopiesLines(p[1], p[2], a) /\ Removes(p[2], a)
    ELSE Len(p) = 1 /\ JudgedOne(p[1], a)

\* Half of an archive move: the copy is made, and nobody but the editor has touched it.
HalfMoved(p, a) ==
    /\ a.type = "archive" /\ Len(p) = 1 /\ Removes(p[1], a)
    /\ \/ note[Archive] \in EditorContents[Archive]
       \/ /\ note[Archive] # Missing
          /\ \A i \in Range(a.lines) : p[1].base[i] \in Range(note[Archive])


LEMMA LineWritesJudged ==
  ASSUME VaultOK, IndexOK, NEW a \in Action, NEW p \in LineWrites(a)
  PROVE  a.type \in LineTypes /\ Len(p) = 1 /\ RewritesLine(p[1], a)
<1>1. PICK t \in Held(a) :
        p \in {<<Write(t.note, t.hash, SetLine(t.hash, t.line, l), t.line)>> :
                l \in Replacements(t.hash[t.line], t.char, a)}
  BY DEF LineWrites
<1>2. PICK l \in Replacements(t.hash[t.line], t.char, a) :
        p = <<Write(t.note, t.hash, SetLine(t.hash, t.line, l), t.line)>>
  BY <1>1
<1>3. t.hash \in Contents /\ t.line \in DOMAIN t.hash  BY HeldType
<1> DEFINE old == t.hash[t.line]
           w == Write(t.note, t.hash, SetLine(t.hash, t.line, l), t.line)
<1>4. old \in Line  BY <1>3 DEF Contents
<1>5. l \in Line /\ RewriteOf(old, l, a)  BY <1>4, ReplacementsType, ReplacementsRewrite
<1>6. a.type \in LineTypes  BY DEF Replacements, LineTypes
<1>7. a.type # "toggle_bullet" => Says(l, a) /\ ~Says(old, a)
  <2>1. CASE a.type = "checkbox"
    <3>1. old.char # a.new  BY <2>1 DEF Replacements
    <3>2. l.char = a.new  BY <1>5, <2>1 DEF RewriteOf
    <3> QED  BY <2>1, <3>1, <3>2 DEF Says
  <2>2. CASE a.type = "set_scheduled"
    <3>1. l = Scheduled(old, a.want) /\ l # old  BY <2>2 DEF Replacements
    <3>2. l.text.sched = a.want /\ old.text.sched # a.want
      BY <1>4, <3>1 DEF Scheduled, Line, Text
    <3> QED  BY <2>2, <3>2 DEF Says
  <2> QED  BY <1>6, <2>1, <2>2 DEF LineTypes
<1>8. w.base = t.hash /\ w.line = t.line /\ w.body = SetLine(t.hash, t.line, l)  BY DEF Write
<1>9. SetLine(t.hash, t.line, l)[t.line] = l  BY <1>3 DEF SetLine
<1> HIDE DEF w
<1>10. RewritesLine(w, a)  BY <1>3, <1>5, <1>7, <1>8, <1>9 DEF RewritesLine
<1>11. p = <<w>>  BY <1>2 DEF w
<1> QED  BY <1>6, <1>10, <1>11

LEMMA BulkWritesJudged ==
  ASSUME VaultOK, IndexOK, NEW a \in Action, NEW p \in ReorderWrites(a) \cup ArchiveWrites(a)
  PROVE  a.type \in {"reorder", "archive"} /\ Judged(p, a)
<1>1. CASE p \in ReorderWrites(a)
  <2>1. PICK t \in Held(a) :
          /\ Reorders(a, t)
          /\ p = <<Write(t.note, t.hash, PermuteLines(t.hash, a.lines), 0)>>
    BY <1>1 DEF ReorderWrites
  <2>2. t.hash \in Contents  BY HeldType
  <2> DEFINE w == Write(t.note, t.hash, PermuteLines(t.hash, a.lines), 0)
  <2>3. a.type = "reorder" /\ Range(a.lines) \subseteq FlatTaskLines(t.hash)
    BY <2>1 DEF Reorders
  <2>4. ReordersTasks(w, a)  BY <2>2, <2>3 DEF ReordersTasks, Write
  <2> HIDE DEF w
  <2>5. p = <<w>>  BY <2>1 DEF w
  <2>6. Len(p) = 1 /\ p[1] = w  BY <2>5
  <2> QED  BY <2>3, <2>4, <2>6 DEF Judged, JudgedOne, LineTypes
<1>2. CASE p \in ArchiveWrites(a)
  <2>1. PICK t \in Held(a) :
          /\ a.type = "archive" /\ t.note # Archive
          /\ Range(a.lines) \subseteq ClosedFlatLines(t.hash)
          /\ p = <<Write(Archive, note[Archive], Archived(t.hash, a.lines), 0),
                   Write(t.note, t.hash, RemoveLines(t.hash, a.lines), 0)>>
    BY <1>2 DEF ArchiveWrites
  <2>2. t.hash \in Contents  BY HeldType
  <2>3. note[Archive] \in Contents \cup {Missing}  BY RequestAssumption DEF VaultOK
  <2> DEFINE w1 == Write(Archive, note[Archive], Archived(t.hash, a.lines), 0)
             w2 == Write(t.note, t.hash, RemoveLines(t.hash, a.lines), 0)
  <2>4. CopiesLines(w1, w2, a)  BY <2>3 DEF CopiesLines, Archived, Write
  <2>5. Removes(w2, a)  BY <2>1, <2>2 DEF Removes, Write
  <2> HIDE DEF w1, w2
  <2>6. p = <<w1, w2>>  BY <2>1 DEF w1, w2
  <2>7. Len(p) = 2 /\ p[1] = w1 /\ p[2] = w2  BY <2>6
  <2> QED  BY <2>1, <2>4, <2>5, <2>7 DEF Judged
<1> QED  BY <1>1, <1>2

\* The task a note is for is a row's, and a row stands for a task of the contents it was
\* indexed from (IndexIsSnapshot).
LEMMA CaptureWritesJudged ==
  ASSUME VaultOK, IndexOK, IndexIsSnapshot, NEW a \in Action,
         NEW p \in QuickAddWrites(a) \cup UndoWrites(a) \cup NoteWrites(a)
  PROVE  /\ a.type \in {"quick_add", "quick_add_undo", "add_note"}
         /\ Len(p) = 1 /\ JudgedOne(p[1], a)
<1>1. Today \in Token /\ a.note \in Notes /\ a.typed \in Names \cup {NoName}
  BY RequestAssumption DEF Action, Token
<1>2. NewTask(a.typed, Today) \in Line /\ NoteBullet(a.typed) \in Line
  <2>1. NoLink \in Links \cup {NoLink}  OBVIOUS
  <2> QED  BY <1>1, <2>1, NewLineTypes
<1>3. CASE p \in QuickAddWrites(a)
  <2> DEFINE task == NewTask(a.typed, Today)
             body == IF note[a.note] = Missing THEN <<task>> ELSE WithTask(note[a.note], task)
             w == Write(a.note, note[a.note], body, 0)
  <2>1. p = <<w>> /\ a.type = "quick_add"  BY <1>3 DEF QuickAddWrites
  <2>2. note[a.note] \in Contents \cup {Missing}  BY <1>1 DEF VaultOK
  <2>3. AddsTask(w, a)  BY <1>2, <2>2 DEF AddsTask, Write
  <2> HIDE DEF w
  <2>4. Len(p) = 1 /\ p[1] = w  BY <2>1
  <2> QED  BY <2>1, <2>3, <2>4 DEF JudgedOne, LineTypes
<1>4. CASE p \in UndoWrites(a)
  <2>1. a.type = "quick_add_undo" /\ note[a.note] # Missing  BY <1>4 DEF UndoWrites
  <2>2. note[a.note] \in Contents  BY <1>1, <2>1 DEF VaultOK
  <2>3. PICK i \in LastAdded(note[a.note], NewTask(a.typed, Today)) :
          p = <<Write(a.note, note[a.note], Undone(note[a.note], i), 0)>>
    BY <1>4, <2>1 DEF UndoWrites
  <2> DEFINE w == Write(a.note, note[a.note], Undone(note[a.note], i), 0)
  <2>4. w.base = note[a.note] /\ w.body = Undone(note[a.note], i)  BY DEF Write
  <2> HIDE DEF w
  <2>5. TakesBack(w, a)  BY <2>2, <2>4 DEF TakesBack
  <2>6. p = <<w>>  BY <2>3 DEF w
  <2>7. Len(p) = 1 /\ p[1] = w  BY <2>6
  <2> QED  BY <2>1, <2>5, <2>7 DEF JudgedOne, LineTypes
<1>5. CASE p \in NoteWrites(a)
  <2> DEFINE bullet == NoteBullet(a.typed)
  <2>1. PICK t \in Held(a) :
          /\ a.type = "add_note"
          /\ p \in {<<Write(t.note, t.hash, Noted(t.hash, t.line, id, bullet), 0)>> :
                     id \in NoteIds(t.hash, t.line)}
    BY <1>5 DEF NoteWrites
  <2>2. PICK id \in NoteIds(t.hash, t.line) :
          p = <<Write(t.note, t.hash, Noted(t.hash, t.line, id, bullet), 0)>>
    BY <2>1
  <2>3. /\ t.note \in Notes /\ t.hash \in Contents /\ t.line \in DOMAIN t.hash
        /\ note[t.note] = t.hash /\ t \in Targets(a)
    BY HeldType DEF Held
  <2>4. t.line \in TaskLines(t.hash)
    <3>1. PICK r \in Found(a) : t = Target(r.note, r.line, r.char, r.hash)
      BY <2>1, <2>3 DEF Targets
    <3>2. r \in rows  BY DEF Found, ById, ByPlace
    <3>3. r.line \in IndexedLines(r.hash)  BY <3>2 DEF IndexIsSnapshot, Snapshot
    <3> QED  BY <3>1, <3>3 DEF Target, IndexedLines
  <2> DEFINE old == t.hash[t.line]
  <2>5. old \in Line  BY <2>3 DEF Contents
  <2>6. id \in Links /\ (\/ old.text.link = id
                         \/ old.text.link = NoLink /\ Headings(t.hash, id) = {})
    BY <2>5 DEF NoteIds, Unused, Line, Text
  <2> DEFINE w == Write(t.note, t.hash, Noted(t.hash, t.line, id, bullet), 0)
  <2>7. w.base = t.hash /\ w.body = Noted(t.hash, t.line, id, bullet)  BY DEF Write
  <2> HIDE DEF w
  <2>8. AddsNote(w, a)  BY <1>2, <2>3, <2>4, <2>6, <2>7 DEF AddsNote
  <2>9. p = <<w>>  BY <2>2 DEF w
  <2>10. Len(p) = 1 /\ p[1] = w  BY <2>9
  <2> QED  BY <2>1, <2>8, <2>10 DEF JudgedOne, LineTypes
<1> QED  BY <1>3, <1>4, <1>5

LEMMA WritesJudged ==
  ASSUME VaultOK, IndexOK, IndexIsSnapshot, NEW a \in Action, NEW p \in Writes(a)
  PROVE  Judged(p, a)
<1>1. CASE p \in LineWrites(a)
  BY <1>1, LineWritesJudged DEF Judged, JudgedOne, LineTypes
<1>2. CASE p \in ReorderWrites(a) \cup ArchiveWrites(a)
  BY <1>2, BulkWritesJudged
<1>3. CASE p \in QuickAddWrites(a) \cup UndoWrites(a) \cup NoteWrites(a)
  BY <1>3, CaptureWritesJudged DEF Judged
<1> QED  BY <1>1, <1>2, <1>3 DEF Writes

-----------------------------------------------------------------------------
\* The plan of the action under way.

\* A write that is under way was judged right for the action it is for, or it is the
\* second of an archive move whose first has been made: whatever the editor, the
\* clients and the watcher have done since.
PlanInv == Writing => Judged(plan, queue[cur]) \/ HalfMoved(plan, queue[cur])

LEMMA NextPlanInv ==
  TypeOK /\ IndexIsSnapshot /\ CheckInv /\ PlanInv /\ [Next]_vars => PlanInv'
<1> SUFFICES ASSUME TypeOK, IndexIsSnapshot, CheckInv, PlanInv, [Next]_vars, Writing'
             PROVE  PlanInv'
  BY DEF PlanInv
<1>1. CASE TakeWrite
  <2>1. /\ Pending # {} /\ plan' \in Writes(queue[Oldest])
        /\ cur' = Oldest /\ queue' = queue
    BY <1>1 DEF TakeWrite, Take
  <2>2. queue \in Seq(Action)  BY DEF TypeOK, ClientsOK
  <2>3. Oldest \in Pending  BY <2>1, <2>2, OldestIsPending
  <2>4. queue[Oldest] \in Action  BY <2>2, <2>3 DEF Pending
  <2>5. Judged(plan', queue[Oldest])  BY <2>1, <2>4, WritesJudged DEF TypeOK
  <2> QED  BY <2>1, <2>5 DEF PlanInv
<1>2. ASSUME Writing, UNCHANGED <<plan, cur>>,
             note'[Archive] = note[Archive] \/ note'[Archive] \in EditorContents[Archive]
      PROVE  PlanInv'
  <2>1. cur \in DOMAIN queue  BY <1>2 DEF TypeOK, Writing, Pending
  <2>2. queue'[cur] = queue[cur]  BY <1>2, <2>1, QueueGrows DEF Writing
  <2>3. queue'[cur'] = queue[cur] /\ plan' = plan  BY <1>2, <2>2
  <2>4. CASE Judged(plan, queue[cur])  BY <2>3, <2>4 DEF PlanInv
  <2>5. CASE HalfMoved(plan, queue[cur])
    <3>1. /\ \/ note'[Archive] \in EditorContents[Archive]
             \/ /\ note'[Archive] # Missing
                /\ \A i \in Range(queue[cur].lines) : plan[1].base[i] \in Range(note'[Archive])
          /\ queue[cur].type = "archive" /\ Len(plan) = 1 /\ Removes(plan[1], queue[cur])
      BY <1>2, <2>5 DEF HalfMoved
    <3>2. HalfMoved(plan, queue[cur])'  BY <2>3, <3>1 DEF HalfMoved
    <3> QED  BY <3>2 DEF PlanInv
  <2> QED  BY <1>2, <2>4, <2>5 DEF PlanInv
<1>3. CASE WriteTemp \/ CheckPassed \/ UNCHANGED <<vault, pc, plan, cur, raced>>
  BY <1>2, <1>3 DEF WriteTemp, CheckPassed, vault, Writing
<1>4. ASSUME NEW n \in Notes, EditorSave(n)  PROVE PlanInv'
  <2>1. UNCHANGED <<pc, plan, cur>>  BY <1>4 DEF EditorSave
  <2>2. note'[Archive] = note[Archive] \/ note'[Archive] \in EditorContents[Archive]
    BY <1>4, RequestAssumption DEF EditorSave, TypeOK, VaultOK
  <2> QED  BY <1>2, <2>1, <2>2 DEF Writing
<1>5. CASE Rename
  <2>1. /\ pc = "rename" /\ plan' = Tail(plan) /\ UNCHANGED <<queue, cur>>
        /\ note' = [note EXCEPT ![Job.note] = temp[Job.note]]
    BY <1>5 DEF Rename
  <2>2. Tail(plan) # <<>>  BY <1>5 DEF Rename, Writing
  <2>3. /\ Job \in PlannedWrite /\ queue[cur] \in Action /\ plan \in Seq(PlannedWrite)
        /\ plan # <<>>
    BY <2>1, JobType DEF TypeOK, ProcessOK
  <2> DEFINE a == queue[cur]
  <2>4. Len(plan) # 1
    <3>1. Tail(plan) \in Seq(PlannedWrite) /\ Len(Tail(plan)) = Len(plan) - 1
      BY <2>3, HeadTailProperties
    <3>2. Len(Tail(plan)) \in Nat \ {0}  BY <2>2, <3>1, EmptySeq
    <3> QED  BY <3>1, <3>2
  <2>5. a.type = "archive" /\ Len(plan) = 2 /\ CopiesLines(plan[1], plan[2], a) /\ Removes(plan[2], a)
    BY <2>1, <2>4 DEF PlanInv, Writing, Judged, HalfMoved
  <2>6. Job = plan[1] /\ Len(Tail(plan)) = 1 /\ Tail(plan)[1] = plan[2]
    BY <2>3, <2>5 DEF Job
  <2>7. temp[Job.note] = Job.body  BY <2>1 DEF CheckInv
  <2>8. Job.note = Archive /\ note'[Archive] = Job.body
    BY <2>1, <2>3, <2>5, <2>6, <2>7, RequestAssumption DEF CopiesLines, TypeOK, VaultOK
  <2>9. Job.body \in Contents /\ Job.body # Missing
    BY <2>3, VaultAssumption DEF PlannedWrite
  <2>10. ASSUME NEW i \in Range(a.lines)  PROVE plan[2].base[i] \in Range(note'[Archive])
    <3> DEFINE c == plan[2].base
               b == IF Job.base = Missing THEN <<>> ELSE Job.base
    <3>1. c \in Contents /\ i \in DOMAIN c
      BY <2>5 DEF Removes, ClosedFlatLines, FlatTaskLines, TaskLines
    <3>2. a.lines \in Seq(Nat)  BY <2>3 DEF Action
    <3>3. c[i] \in Range(ExtractLines(c, a.lines))  BY <3>1, <3>2, ExtractLinesFinds
    <3>4. ExtractLines(c, a.lines) \in Contents  BY <3>1, <3>2, ExtractLinesType
    <3>5. b \in Contents
      <4>1. <<>> \in Contents  BY EmptySequence DEF Contents
      <4> QED  BY <2>3, <4>1 DEF PlannedWrite
    <3>6. Job.body = b \o ExtractLines(c, a.lines)  BY <2>5, <2>6 DEF CopiesLines
    <3> HIDE DEF b, c
    <3>7. Range(ExtractLines(c, a.lines)) \subseteq Range(b \o ExtractLines(c, a.lines))
      BY <3>4, <3>5, ConcatCount
    <3> QED  BY <2>8, <3>3, <3>6, <3>7 DEF c
  <2>11. HalfMoved(plan, queue[cur])'
    BY <2>1, <2>5, <2>6, <2>8, <2>9, <2>10 DEF HalfMoved
  <2> QED  BY <2>11 DEF PlanInv
<1> QED
  BY <1>1, <1>3, <1>4, <1>5, WritingSteps

-----------------------------------------------------------------------------
\* What is in the vault is still what was written.

\* Between the last check and the rename an editor's save marks the note as its own,
\* and a line that a flip or a reschedule wrote says what was asked, as long as nobody
\* else has written the note.
WrittenInv ==
    /\ raced => pc = "rename" /\ writer[Job.note] = Own
    /\ \A n \in Notes : writer[n].by # 0 =>
          LET a == queue[writer[n].by]
          IN  /\ writer[n].by \in DOMAIN queue
              /\ a.type \in {"checkbox", "set_scheduled"} =>
                    /\ note[n] # Missing /\ writer[n].line \in DOMAIN note[n]
                    /\ Says(note[n][writer[n].line], a)

\* The write under way of an action that is not an archive move is the only one.
LEMMA OnlyWrite ==
  ASSUME TypeOK, PlanInv, Writing, queue[cur].type # "archive"
  PROVE  JudgedOne(Job, queue[cur])
<1>1. Judged(plan, queue[cur])  BY DEF PlanInv, HalfMoved
<1>2. Len(plan) = 1 /\ JudgedOne(plan[1], queue[cur])  BY <1>1 DEF Judged
<1> QED  BY <1>2 DEF Job

LEMMA NextRaced ==
  TypeOK /\ WrittenInv /\ [Next]_vars => (raced => pc = "rename" /\ writer[Job.note] = Own)'
<1> SUFFICES ASSUME TypeOK, WrittenInv, [Next]_vars, raced'
             PROVE  (pc = "rename" /\ writer[Job.note] = Own)'
  OBVIOUS
<1>1. ASSUME UNCHANGED <<pc, plan, raced, writer>>
      PROVE  (pc = "rename" /\ writer[Job.note] = Own)'
  BY <1>1 DEF WrittenInv, Job
<1>2. ASSUME UNCHANGED raced, pc # "rename"  PROVE FALSE
  BY <1>2 DEF WrittenInv
<1>3. ASSUME NEW c \in Clients, Poll(c) \/ Enqueue(c)
      PROVE  UNCHANGED <<pc, plan, raced, writer>>
  BY <1>3 DEF Poll, Enqueue, process, history
<1>4. CASE Shutdown \/ CacheBody \/ UNCHANGED vars
  <2>1. UNCHANGED <<pc, plan, raced, writer>>
    BY <1>4 DEF Shutdown, CacheBody, vars, process, history
  <2> QED  BY <2>1, <1>1
<1>5. CASE IndexError  BY <1>1, <1>5 DEF IndexError
<1>6. ASSUME NEW n \in Notes, EditorSave(n)  PROVE (pc = "rename" /\ writer[Job.note] = Own)'
  <2>1. /\ UNCHANGED <<pc, plan>> /\ writer' = [writer EXCEPT ![n] = Own]
        /\ raced \/ (pc = "rename" /\ Job.note = n)
    BY <1>6 DEF EditorSave, Job
  <2>2. pc = "rename"  BY <2>1 DEF WrittenInv
  <2>3. Job.note \in Notes  BY <2>2, JobType DEF PlannedWrite
  <2>4. Job.note = n \/ writer[Job.note] = Own  BY <2>1 DEF WrittenInv
  <2>5. writer'[Job.note] = Own  BY <2>1, <2>3, <2>4 DEF TypeOK, HistoryOK
  <2> QED  BY <2>1, <2>2, <2>5 DEF Job
<1>7. ASSUME NEW n \in Notes, ScanNote(n) \/ HandleEvent(n)  PROVE FALSE
  BY <1>2, <1>7 DEF ScanNote, HandleEvent
<1>8. CASE Launch \/ StartWatch \/ StartDrain \/ TakeWrite \/ TakeSatisfied \/ TakeRefused
           \/ WriteTemp \/ CheckPassed \/ Reindex \/ Resolve
  BY <1>2, <1>8 DEF Launch, StartWatch, StartDrain, Take, TakeWrite, TakeSatisfied,
     TakeRefused, WriteTemp, CheckPassed, Reindex, Resolve, history
<1>9. CASE CheckFailed \/ Rename \/ WriteError \/ Crash
  BY <1>9 DEF CheckFailed, Rename, WriteError, Crash, GiveUp, Creates, Gone
<1>10. CASE TakeError  BY <1>2, <1>10 DEF TakeError, Take, history
<1>11. CASE EndDrain \/ DrainError
  BY <1>2, <1>11 DEF EndDrain, DrainError, Gone, history
<1> QED
  BY <1>1, <1>3, <1>4, <1>5, <1>6, <1>7, <1>8, <1>9, <1>10, <1>11, NextCases

LEMMA NextWrittenInv ==
  TypeOK /\ CheckInv /\ PlanInv /\ WrittenInv /\ [Next]_vars => WrittenInv'
<1> SUFFICES ASSUME TypeOK, CheckInv, PlanInv, WrittenInv, [Next]_vars,
                    NEW n \in Notes, writer'[n].by # 0
             PROVE  (/\ writer[n].by \in DOMAIN queue
                     /\ queue[writer[n].by].type \in {"checkbox", "set_scheduled"} =>
                           /\ note[n] # Missing /\ writer[n].line \in DOMAIN note[n]
                           /\ Says(note[n][writer[n].line], queue[writer[n].by]))'
  BY NextRaced DEF WrittenInv
<1>1. CASE note'[n] = note[n] /\ writer'[n] = writer[n]
  <2> DEFINE k == writer[n].by
  <2>1. k \in DOMAIN queue  BY <1>1 DEF WrittenInv
  <2>2. /\ k \in DOMAIN queue' /\ queue'[k].type = queue[k].type
        /\ queue'[k].new = queue[k].new /\ queue'[k].want = queue[k].want
    BY <2>1, QueueGrows
  <2> HIDE DEF k
  <2>3. writer'[n].by = k /\ writer[n].by = k /\ writer[n].by # 0  BY <1>1 DEF k
  <2> QED  BY <1>1, <2>2, <2>3 DEF WrittenInv, Says
<1>2. ASSUME NEW m \in Notes, EditorSave(m)
      PROVE  note'[n] = note[n] /\ writer'[n] = writer[n]
  <2>1. writer' = [writer EXCEPT ![m] = Own]
    BY <1>2 DEF EditorSave
  <2>2. n # m  BY <2>1 DEF TypeOK, HistoryOK, Own
  <2> QED  BY <1>2, <2>1, <2>2 DEF EditorSave, TypeOK, VaultOK, HistoryOK
<1>3. CASE Rename /\ n = Job.note
  <2>1. pc = "rename" /\ UNCHANGED <<queue, cur>>  BY <1>3 DEF Rename
  <2>2. /\ Job \in PlannedWrite /\ cur \in DOMAIN queue  BY <2>1, JobType DEF Pending
  <2>3. writer'[n] = [by |-> cur, line |-> Job.line]
    BY <1>3 DEF Rename, TypeOK, HistoryOK
  <2>4. note'[n] = Job.body
    BY <1>3, <2>1 DEF Rename, TypeOK, VaultOK, CheckInv
  <2>5. CASE queue[cur].type \in {"checkbox", "set_scheduled"}
    <3>1. RewritesLine(Job, queue[cur])
      BY <2>1, <2>5, OnlyWrite DEF JudgedOne, LineTypes, Writing
    <3>2. Says(Job.body[Job.line], queue[cur]) /\ Job.line \in DOMAIN Job.body
      BY <2>5, <3>1 DEF RewritesLine, SetLine
    <3>3. Job.body # Missing  BY <2>2, VaultAssumption DEF PlannedWrite
    <3> QED  BY <2>1, <2>2, <2>3, <2>4, <3>2, <3>3 DEF Says
  <2> QED  BY <2>1, <2>2, <2>3, <2>5
<1>4. CASE Rename /\ n # Job.note
  BY <1>1, <1>4 DEF Rename, TypeOK, VaultOK, HistoryOK
<1> QED  BY <1>1, <1>2, <1>3, <1>4, NoteSteps

-----------------------------------------------------------------------------
\* What a rename does to a note.

\* The invariant the theorems about renames rest on.
WriteInv == TypeOK /\ IndexIsSnapshot /\ CheckInv /\ PlanInv /\ WrittenInv

LEMMA InitWriteInv == Init => WriteInv
<1> SUFFICES ASSUME Init  PROVE WriteInv  OBVIOUS
<1>1. TypeOK /\ IndexIsSnapshot  BY InitTypeOK, InitSnapshot
<1>2. CheckInv /\ PlanInv  BY DEF Init, CheckInv, PlanInv, Writing
<1>3. WrittenInv
  <2>1. raced = FALSE /\ \A n \in Notes : writer[n].by = 0  BY DEF Init, Own
  <2> QED  BY <2>1 DEF WrittenInv
<1> QED  BY <1>1, <1>2, <1>3 DEF WriteInv

LEMMA NextWriteInv == WriteInv /\ [Next]_vars => WriteInv'
BY NextTypeOK, NextSnapshot, NextCheckInv, NextPlanInv, NextWrittenInv DEF WriteInv

\* The daemon changes a note by a rename only, and only the note it is working on.
LEMMA RenamedByRename ==
  ASSUME TypeOK, [Next]_vars, NEW n \in Notes, Renamed(n)
  PROVE  Rename /\ n = Job.note /\ note'[n] = temp[n]
<1>1. ASSUME NEW m \in Notes, EditorSave(m)  PROVE FALSE
  <2>1. n = m  BY <1>1 DEF EditorSave, Renamed, TypeOK, VaultOK
  <2>2. writer'[n] = Own  BY <1>1, <2>1 DEF EditorSave, TypeOK, HistoryOK
  <2> QED  BY <2>2 DEF Own, Renamed
<1>2. CASE Rename
  <2>1. note' = [note EXCEPT ![Job.note] = temp[Job.note]]  BY <1>2 DEF Rename
  <2> QED  BY <1>2, <2>1 DEF Renamed, TypeOK, VaultOK
<1>3. ASSUME UNCHANGED note  PROVE FALSE  BY <1>3 DEF Renamed
<1> QED  BY <1>1, <1>2, <1>3, NoteSteps

\* What it puts there is what was judged right, and what it puts it over is what that
\* was judged on, unless the editor came in between or the note was to be created.
LEMMA RenameLands ==
  ASSUME WriteInv, [Next]_vars, NEW n \in Notes, Renamed(n)
  PROVE  /\ n = Job.note /\ note'[n] = Job.body
         /\ ~raced /\ Job.base # Missing => note[n] = Job.base
         /\ writer'[n] = [by |-> cur, line |-> Job.line]
         /\ Job \in PlannedWrite /\ queue[cur] \in Action /\ cur \in Pending
         /\ queue[cur].type # "archive" => JudgedOne(Job, queue[cur])
         /\ queue[cur].type = "archive" =>
               \/ CopiesLines(Job, plan[2], queue[cur]) /\ Removes(plan[2], queue[cur])
               \/ HalfMoved(plan, queue[cur])
<1>1. Rename /\ n = Job.note /\ note'[n] = temp[n]  BY RenamedByRename DEF WriteInv
<1>2. pc = "rename" /\ Writing  BY <1>1 DEF Rename, Writing
<1>3. note'[n] = Job.body /\ (~raced /\ Job.base # Missing => note[n] = Job.base)
  BY <1>1, <1>2 DEF WriteInv, CheckInv
<1>4. writer'[n] = [by |-> cur, line |-> Job.line]
  BY <1>1 DEF Rename, WriteInv, TypeOK, HistoryOK
<1>5. Job \in PlannedWrite /\ queue[cur] \in Action /\ cur \in Pending
  BY <1>2, JobType DEF WriteInv
<1>6. queue[cur].type # "archive" => JudgedOne(Job, queue[cur])
  BY <1>2, OnlyWrite DEF WriteInv
<1>7. queue[cur].type = "archive" =>
        \/ CopiesLines(Job, plan[2], queue[cur]) /\ Removes(plan[2], queue[cur])
        \/ HalfMoved(plan, queue[cur])
  BY <1>2 DEF WriteInv, PlanInv, Judged, Job
<1> QED  BY <1>1, <1>3, <1>4, <1>5, <1>6, <1>7

\* How often a line is in a note is how many spots it has there.
LEMMA CopiesAreSpots ==
  ASSUME NEW c \in Contents, NEW l
  PROVE  Copies(l, c) = Cardinality(Spots(c, {l})) /\ Copies(l, c) \in Nat
<1>1. c # Missing  BY VaultAssumption
<1>2. Spots(c, {l}) = {i \in DOMAIN c : c[i] = l}  BY DEF Spots
<1>3. Cardinality(Spots(c, {l})) \in Nat  BY SpotsFinite
<1> QED  BY <1>1, <1>2, <1>3 DEF Copies

\* For every note: a flip, a reschedule or a bullet toggle changes one line of the note
\* and nothing of it but what it is for.
THEOREM OneLineAlways == Spec => OneLineRewrite
<1>1. WriteInv /\ [Next]_vars => \A n \in Notes : OneLineStep(n)
  <2> SUFFICES ASSUME WriteInv, [Next]_vars, NEW n \in Notes,
                      Renamed(n), ~raced, queue[cur].type \in LineTypes
               PROVE  \E i \in DOMAIN note[n] :
                         /\ note'[n] = SetLine(note[n], i, note'[n][i])
                         /\ RewriteOf(note[n][i], note'[n][i], queue[cur])
    BY DEF OneLineStep
  <2>1. RewritesLine(Job, queue[cur])  BY RenameLands DEF JudgedOne, LineTypes
  <2>2. Job.base # Missing  BY <2>1, VaultAssumption DEF RewritesLine
  <2>3. note[n] = Job.base /\ note'[n] = Job.body  BY <2>2, RenameLands
  <2> QED  BY <2>1, <2>3 DEF RewritesLine
<1>2. Spec => [][\A n \in Notes : OneLineStep(n)]_vars
  BY <1>1, InitWriteInv, NextWriteInv, PTL DEF Spec
<1> QED  BY <1>2 DEF OneLineRewrite

\* For every history of crashes, errors and retries: a flip or a reschedule does not
\* write again the line it has written and nobody has touched since.
THEOREM RetriedLineIsLeft == Spec => SameLineOnce
<1>1. WriteInv /\ [Next]_vars => \A n \in Notes : SameLineStep(n)
  <2> SUFFICES ASSUME WriteInv, [Next]_vars, NEW n \in Notes, Renamed(n),
                      queue[cur].type \in {"checkbox", "set_scheduled"},
                      writer[n] = [by |-> cur, line |-> writer'[n].line]
               PROVE  FALSE
    BY DEF SameLineStep
  <2>1. RewritesLine(Job, queue[cur])  BY RenameLands DEF JudgedOne, LineTypes
  <2>2. Job.base # Missing  BY <2>1, VaultAssumption DEF RewritesLine
  <2>3. writer[n].by = cur /\ writer[n].line = Job.line  BY RenameLands
  <2>4. cur # 0 /\ n = Job.note  BY RenameLands DEF WriteInv, TypeOK, ClientsOK, Pending
  <2>5. ~raced  BY <2>3, <2>4 DEF WriteInv, WrittenInv, Own
  <2>6. note[n] = Job.base  BY <2>2, <2>5, RenameLands
  <2>7. Says(note[n][Job.line], queue[cur])  BY <2>3, <2>4 DEF WriteInv, WrittenInv
  <2>8. ~Says(Job.base[Job.line], queue[cur])  BY <2>1 DEF RewritesLine
  <2> QED  BY <2>6, <2>7, <2>8
<1>2. Spec => [][\A n \in Notes : SameLineStep(n)]_vars
  BY <1>1, InitWriteInv, NextWriteInv, PTL DEF Spec
<1> QED  BY <1>2 DEF SameLineOnce

\* For every note and every order: a reorder moves tasks among the places of tasks.
THEOREM ReorderPermutes == Spec => ReorderKeepsLines
<1>1. WriteInv /\ [Next]_vars => \A n \in Notes : ReorderStep(n)
  <2> SUFFICES ASSUME WriteInv, [Next]_vars, NEW n \in Notes,
                      Renamed(n), ~raced, queue[cur].type = "reorder"
               PROVE  /\ \A l : Copies(l, note[n]) = Copies(l, note'[n])
                      /\ \A i \in DOMAIN note[n] \ FlatTaskLines(note[n]) :
                            note'[n][i] = note[n][i]
    BY DEF ReorderStep
  <2> DEFINE c == Job.base
             order == queue[cur].lines
  <2>1. ReordersTasks(Job, queue[cur])  BY RenameLands DEF JudgedOne
  <2>2. c \in Contents /\ order \in Seq(Nat)
    BY <2>1, RenameLands DEF ReordersTasks, Action
  <2>3. note[n] = c /\ note'[n] = PermuteLines(c, order)
    BY <2>1, <2>2, RenameLands, VaultAssumption DEF ReordersTasks
  <2>4. Range(order) \subseteq FlatTaskLines(c)  BY <2>1 DEF ReordersTasks
  <2> HIDE DEF c, order
  <2>5. ASSUME NEW l  PROVE Copies(l, note[n]) = Copies(l, note'[n])
    <3>1. PermuteLines(c, order) \in Contents  BY <2>2, PermuteLinesType
    <3>2. Cardinality(Spots(PermuteLines(c, order), {l})) = Cardinality(Spots(c, {l}))
      BY <2>2, PermuteLinesCount
    <3> QED  BY <2>2, <2>3, <3>1, <3>2, CopiesAreSpots
  <2>6. ASSUME NEW i \in DOMAIN c \ FlatTaskLines(c)  PROVE note'[n][i] = c[i]
    BY <2>3, <2>4, <2>6 DEF PermuteLines
  <2> QED  BY <2>3, <2>5, <2>6
<1>2. Spec => [][\A n \in Notes : ReorderStep(n)]_vars
  BY <1>1, InitWriteInv, NextWriteInv, PTL DEF Spec
<1> QED  BY <1>2 DEF ReorderKeepsLines

\* For every note and every list of lines: archiving copies before it deletes.
THEOREM ArchiveCopiesFirst == Spec => ArchiveNeverLoses
<1>1. WriteInv /\ [Next]_vars => \A n \in Notes : ArchiveStep(n)
  <2> SUFFICES ASSUME WriteInv, [Next]_vars, NEW n \in Notes,
                      Renamed(n), ~raced, queue[cur].type = "archive"
               PROVE  ArchiveStep(n)
    BY DEF ArchiveStep
  <2> DEFINE a == queue[cur]
  <2>0. a.lines \in Seq(Nat) /\ Job \in PlannedWrite  BY RenameLands DEF Action
  <2>1. CASE CopiesLines(Job, plan[2], a) /\ Removes(plan[2], a)
    <3>1. n = Archive  BY <2>1, RenameLands DEF CopiesLines
    <3>2. ASSUME Job.base # Missing, NEW l
          PROVE  Copies(l, note'[n]) >= Copies(l, note[n])
      <4>1. note[n] = Job.base /\ note'[n] = Job.body  BY <3>2, RenameLands
      <4>2. /\ Job.base \in Contents /\ Job.body \in Contents
            /\ Job.body = Job.base \o ExtractLines(plan[2].base, a.lines)
        BY <2>0, <2>1, <3>2 DEF CopiesLines, PlannedWrite
      <4>3. ExtractLines(plan[2].base, a.lines) \in Contents
        BY <2>0, <2>1, ExtractLinesType DEF Removes
      <4>4. Cardinality(Spots(Job.base, {l})) <= Cardinality(Spots(Job.body, {l}))
        BY <4>2, <4>3, ConcatCount
      <4> QED  BY <4>1, <4>2, <4>4, CopiesAreSpots
    <3> QED  BY <3>1, <3>2 DEF ArchiveStep
  <2>2. CASE HalfMoved(plan, a)
    <3> DEFINE c == Job.base
    <3>1. Removes(Job, a) /\ n # Archive  BY <2>2, RenameLands DEF HalfMoved, Removes, Job
    <3>2. c \in Contents /\ note[n] = c /\ note'[n] = RemoveLines(c, a.lines)
      BY <3>1, RenameLands, VaultAssumption DEF Removes
    <3>3. RemoveLines(c, a.lines) \in Contents  BY <3>2, RemoveLinesType
    <3>4. ASSUME NEW l, Spots(c, {l}) \cap Range(a.lines) = {}
          PROVE  Copies(l, note'[n]) = Copies(l, note[n])
      <4> HIDE DEF c
      <4> QED  BY <3>2, <3>3, <3>4, RemoveLinesCount, CopiesAreSpots
    <3>5. ASSUME NEW l, NEW i \in Spots(c, {l}) \cap Range(a.lines)
          PROVE  /\ l.kind = "task" /\ IsClosed(l.char)
                 /\ \/ Copies(l, note[Archive]) > 0
                    \/ note[Archive] \in EditorContents[Archive]
      <4>1. c[i] = l  BY <3>5 DEF Spots
      <4>2. l.kind = "task" /\ IsClosed(l.char)
        BY <3>1, <3>5, <4>1 DEF Removes, ClosedFlatLines, FlatTaskLines, TaskLines
      <4>3. CASE note[Archive] # Missing /\ l \in Range(note[Archive])
        <5> DEFINE b == note[Archive]
        <5>1. b \in Contents  BY <4>3, RequestAssumption DEF WriteInv, TypeOK, VaultOK
        <5>2. PICK j \in DOMAIN b : b[j] = l  BY <4>3 DEF Range
        <5>3. j \in Spots(b, {l}) /\ IsFiniteSet(Spots(b, {l}))  BY <5>1, <5>2, SpotsFinite DEF Spots
        <5> HIDE DEF b
        <5>4. Cardinality(Spots(b, {l})) # 0  BY <5>3, FS_EmptySet
        <5>5. Copies(l, b) > 0  BY <5>1, <5>4, CopiesAreSpots
        <5> QED  BY <4>2, <5>5 DEF b
      <4>4. CASE note[Archive] \in EditorContents[Archive]
        BY <4>2, <4>4
      <4>5. \/ note[Archive] \in EditorContents[Archive]
            \/ note[Archive] # Missing /\ l \in Range(note[Archive])
        BY <2>2, <3>5, <4>1 DEF HalfMoved, Job
      <4> QED  BY <4>3, <4>4, <4>5
    <3> QED  BY <3>1, <3>4, <3>5 DEF ArchiveStep
  <2> QED  BY <2>1, <2>2, RenameLands
<1>2. Spec => [][\A n \in Notes : ArchiveStep(n)]_vars
  BY <1>1, InitWriteInv, NextWriteInv, PTL DEF Spec
<1> QED  BY <1>2 DEF ArchiveNeverLoses

\* For every note and everything typed: a quick add puts one open task above the notes
\* on the tasks, and leaves all the rest as it was.
THEOREM QuickAddsOneLine == Spec => QuickAddOnlyAdds
<1>1. WriteInv /\ [Next]_vars => \A n \in Notes : QuickAddStep(n)
  <2> SUFFICES ASSUME WriteInv, [Next]_vars, NEW n \in Notes,
                      Renamed(n), ~raced, queue[cur].type = "quick_add"
               PROVE  \E i \in DOMAIN note'[n] :
                         /\ note'[n][i] = NewTask(queue[cur].typed, Today)
                         /\ \A j \in 1..i : note'[n][j].kind # "section"
                         /\ RemoveAt(note'[n], i) = IF Job.base = Missing THEN <<>> ELSE note[n]
    BY DEF QuickAddStep
  <2> DEFINE task == NewTask(queue[cur].typed, Today)
  <2>1. AddsTask(Job, queue[cur])  BY RenameLands DEF JudgedOne
  <2>2. task \in Line /\ task.kind = "task"  BY <2>1 DEF AddsTask, NewTask
  <2> HIDE DEF task
  <2>3. CASE Job.base = Missing
    <3>1. note'[n] = <<task>>  BY <2>1, <2>3, RenameLands DEF AddsTask, task
    <3>2. /\ 1 \in DOMAIN note'[n] /\ note'[n][1] = task
          /\ \A j \in 1..1 : note'[n][j].kind # "section"
      BY <2>2, <3>1
    <3>3. RemoveAt(note'[n], 1) = <<>>
      <4>1. Len(<<task>>) = 1 /\ <<task>> \in Contents  BY <2>2 DEF Contents
      <4>2. 1 \in DOMAIN <<task>>  OBVIOUS
      <4>3. RemoveAt(<<task>>, 1) \in Contents /\ Len(RemoveAt(<<task>>, 1)) = 1 - 1
        BY <4>1, <4>2, RemoveAtType, RemoveAtLines
      <4> QED  BY <3>1, <4>3, EmptySeq DEF Contents
    <3> QED  BY <2>3, <3>2, <3>3 DEF task
  <2>4. CASE Job.base # Missing
    <3> DEFINE c == note[n]
    <3>1. c \in Contents /\ note'[n] = WithTask(c, task)
      BY <2>1, <2>4, RenameLands DEF AddsTask, task
    <3> HIDE DEF c
    <3>2. \E i \in DOMAIN WithTask(c, task) :
            /\ WithTask(c, task)[i] = task
            /\ \A j \in 1..i : WithTask(c, task)[j].kind # "section"
            /\ RemoveAt(WithTask(c, task), i) = c
      BY <2>2, <3>1, WithTaskAdds
    <3> QED  BY <2>4, <3>1, <3>2 DEF task, c
  <2> QED  BY <2>3, <2>4
<1>2. Spec => [][\A n \in Notes : QuickAddStep(n)]_vars
  BY <1>1, InitWriteInv, NextWriteInv, PTL DEF Spec
<1> QED  BY <1>2 DEF QuickAddOnlyAdds

\* For every note: the undo of a quick add takes back the last task of the task list, if
\* that is what was added, and no other.
THEOREM UndoTakesOneLine == Spec => UndoTakesBack
<1>1. WriteInv /\ [Next]_vars => \A n \in Notes : UndoStep(n)
  <2> SUFFICES ASSUME WriteInv, [Next]_vars, NEW n \in Notes,
                      Renamed(n), ~raced, queue[cur].type = "quick_add_undo"
               PROVE  UndoStep(n)
    BY DEF UndoStep
  <2> DEFINE c == note[n]
             task == NewTask(queue[cur].typed, Today)
  <2>1. TakesBack(Job, queue[cur])  BY RenameLands DEF JudgedOne
  <2>2. Job.base # Missing  BY <2>1, VaultAssumption DEF TakesBack
  <2>3. c = Job.base /\ note'[n] = Job.body  BY <2>2, RenameLands
  <2>4. c \in Contents  BY <2>1, <2>3 DEF TakesBack
  <2>5. PICK i \in LastAdded(c, task) : note'[n] = Undone(c, i)
    BY <2>1, <2>3 DEF TakesBack
  <2> HIDE DEF c, task
  <2>6. i \in DOMAIN c /\ i + 1 = TaskPlace(c) /\ EndsWith(c[i], task)
    BY <2>5 DEF LastAdded
  <2>7. ASSUME NEW j \in DOMAIN c, j > i, c[j].kind # "blank"
        PROVE  \E k \in (i + 1)..j : c[k].kind = "section"
    <3>1. i \in Nat /\ j \in Nat  BY <2>4, <2>6, LinesFinite DEF Contents
    <3>2. j >= TaskPlace(c)  BY <2>6, <2>7, <3>1
    <3> QED  BY <2>4, <2>6, <2>7, <3>2, TaskPlaceAbove
  <2>8. i + 1 \in DOMAIN c => c[i + 1].kind \notin {"task", "fence"}
    <3> SUFFICES ASSUME i + 1 \in DOMAIN c, c[i + 1].kind # "blank"
                 PROVE  c[i + 1].kind = "section"
      OBVIOUS
    <3>1. i \in Nat  BY <2>4, <2>6 DEF Contents
    <3>2. PICK k \in (i + 1)..(i + 1) : c[k].kind = "section"  BY <2>7, <3>1
    <3> QED  BY <3>1, <3>2
  <2>9. \/ note'[n] = RemoveAt(c, i)
        \/ /\ c[i].indent > 0 \/ c[i].kind = "plain"
           /\ TaskSeq(note'[n]) = TaskSeq(RemoveAt(c, i))
    BY <2>4, <2>5, <2>6, <2>8, UndoneTasks
  <2> QED  BY <2>6, <2>7, <2>9 DEF UndoStep, c, task
<1>2. Spec => [][\A n \in Notes : UndoStep(n)]_vars
  BY <1>1, InitWriteInv, NextWriteInv, PTL DEF Spec
<1> QED  BY <1>2 DEF UndoTakesBack

\* For every note and everything typed: a note on a task is found from its task, and no
\* task appears, goes or changes beyond its link.
THEOREM NotesAreFound == Spec => NoteIsFound
<1>1. WriteInv /\ [Next]_vars => \A n \in Notes : AddNoteStep(n)
  <2> SUFFICES ASSUME WriteInv, [Next]_vars, NEW n \in Notes,
                      Renamed(n), ~raced, queue[cur].type = "add_note"
               PROVE  AddNoteStep(n)
    BY DEF AddNoteStep
  <2> DEFINE c == note[n]
             d == note'[n]
             bullet == NoteBullet(queue[cur].typed)
  <2>1. AddsNote(Job, queue[cur])  BY RenameLands DEF JudgedOne
  <2>2. Job.base # Missing  BY <2>1, VaultAssumption DEF AddsNote
  <2>3. c = Job.base /\ d = Job.body  BY <2>2, RenameLands
  <2>4. /\ c \in Contents /\ bullet \in Line /\ bullet.kind = "bullet"
        /\ bullet.text.added = NoDate
    BY <2>1, <2>3 DEF AddsNote, NoteBullet, Saying
  <2>5. PICK i \in TaskLines(c), id \in Links :
          /\ d = Noted(c, i, id, bullet)
          /\ \/ c[i].text.link = id
             \/ c[i].text.link = NoLink /\ Headings(c, id) = {}
    BY <2>1, <2>3 DEF AddsNote
  <2> HIDE DEF c, d, bullet
  <2>6. /\ d \in Contents
        /\ \E k \in DOMAIN TaskSeq(c) : /\ TaskSeq(c)[k] = c[i]
                                        /\ TaskSeq(d) = [TaskSeq(c) EXCEPT ![k].text.link = id]
        /\ \E b \in DOMAIN d : d[b] = bullet /\ InBlockOf(d, b, id)
        /\ \A L : c[i] \notin L => Cardinality(Spots(c, L)) <= Cardinality(Spots(d, L))
    <3>1. d = Noted(c, i, id, bullet)  BY <2>5
    <3>2. c[i].text.link = id \/ Headings(c, id) = {}  BY <2>5
    <3>3. i \in TaskLines(c) /\ id \in Links  OBVIOUS
    <3> DEFINE e == Noted(c, i, id, bullet)
    <3>4. /\ e \in Contents
          /\ \E k \in DOMAIN TaskSeq(c) : /\ TaskSeq(c)[k] = c[i]
                                          /\ TaskSeq(e) = [TaskSeq(c) EXCEPT ![k].text.link = id]
          /\ \E b \in DOMAIN e : e[b] = bullet /\ InBlockOf(e, b, id)
          /\ \A L : c[i] \notin L => Cardinality(Spots(c, L)) <= Cardinality(Spots(e, L))
      BY <2>4, <3>2, <3>3, NotedTasks
    <3> QED  BY <3>1, <3>4
  <2>7. \E b \in DOMAIN d : d[b] = bullet /\ Under(d, b, id)
    BY <2>6 DEF InBlockOf, Under
  <2>8. ASSUME NEW l \in Range(c) \ {c[i]}  PROVE Copies(l, d) >= Copies(l, c)
    <3>1. Cardinality(Spots(c, {l})) <= Cardinality(Spots(d, {l}))  BY <2>6
    <3> QED  BY <2>4, <2>6, <3>1, CopiesAreSpots
  <2>9. c[i].text.link \in {NoLink, id}  BY <2>5
  <2>10. PICK k \in DOMAIN TaskSeq(c) : /\ c[i] = TaskSeq(c)[k]
                                        /\ TaskSeq(d) = [TaskSeq(c) EXCEPT ![k].text.link = id]
    BY <2>6
  <2> QED  BY <2>7, <2>8, <2>9, <2>10 DEF AddNoteStep, c, d, bullet
<1>2. Spec => [][\A n \in Notes : AddNoteStep(n)]_vars
  BY <1>1, InitWriteInv, NextWriteInv, PTL DEF Spec
<1> QED  BY <1>2 DEF NoteIsFound

-----------------------------------------------------------------------------
\* The temp files.

\* A temp file beside n that no write accounts for.
Stray(n) == faults > 0 /\ (pc = "down" \/ (pc # "boot" /\ n \in {Inbox, Archive}))

\* Quick adds and their undos are made on the inbox, and a note whose write is checked
\* is there: the daemon creates the inbox and the archive and no other note.
TempInv ==
    /\ \A k \in DOMAIN queue : queue[k].type \in {"quick_add", "quick_add_undo"} => queue[k].note = Inbox
    /\ pc = "check" => Job.base # Missing
    /\ TempsAccountedFor

LEMMA GesturesOnInbox ==
  ASSUME ClientsOK, TempInv, NEW c \in Clients, NEW a \in Gestures(c),
         a.type \in {"quick_add", "quick_add_undo"}
  PROVE  a.note = Inbox
<1>1. ASSUME NEW r \in seen[c], a \in Requests(seen[c], r)  PROVE FALSE
  BY <1>1, RequestsType DEF ClientsOK
<1>2. ASSUME a \in QuickAddRequests  PROVE a.note = Inbox
  BY <1>2 DEF QuickAddRequests, NoteAction
<1>3. ASSUME NEW k \in DOMAIN queue, a \in Reversals(queue[k])  PROVE a.note = Inbox
  <2>1. queue[k] \in Action  BY DEF ClientsOK
  <2>2. queue[k].type = "quick_add" /\ a.note = queue[k].note
    BY <1>3, <2>1, ReversalsType
  <2> QED  BY <2>2 DEF TempInv
<1> QED  BY <1>1, <1>2, <1>3 DEF Gestures

\* A note that is to be created is the inbox or the archive.
LEMMA CreatedNotes ==
  ASSUME TypeOK, PlanInv, TempInv, Writing, Job.base = Missing
  PROVE  Job.note \in {Inbox, Archive}
<1>1. queue[cur] \in Action /\ cur \in DOMAIN queue  BY JobType DEF Writing, Pending
<1>2. Job.base \notin Contents  BY VaultAssumption
<1>3. CASE queue[cur].type = "archive"
  <2>1. \/ CopiesLines(plan[1], plan[2], queue[cur])
        \/ Removes(plan[1], queue[cur])
    BY <1>3 DEF PlanInv, Judged, HalfMoved
  <2>2. Job = plan[1]  BY DEF Job
  <2> QED  BY <1>2, <2>1, <2>2 DEF CopiesLines, Removes
<1>4. CASE queue[cur].type # "archive"
  <2>1. JudgedOne(Job, queue[cur])  BY <1>4, OnlyWrite
  <2>2. queue[cur].type = "quick_add"
    BY <1>1, <1>2, <1>4, <2>1
    DEF JudgedOne, Action, Types, LineTypes, RewritesLine, ReordersTasks, TakesBack, AddsNote
  <2>3. Job.note = queue[cur].note  BY <2>1, <2>2 DEF JudgedOne, AddsTask
  <2> QED  BY <1>1, <2>2, <2>3 DEF TempInv
<1> QED  BY <1>3, <1>4

\* What a step does to the program counter and the faults.
LEMMA CounterSteps ==
  ASSUME TypeOK, [Next]_vars
  PROVE  /\ faults' >= faults
         /\ Launch \/ pc' = pc \/ (pc # "down" /\ pc' # "boot")
<1>0. faults \in Nat /\ faults + 1 >= faults  BY DEF TypeOK, HistoryOK
<1>1. ASSUME NEW c \in Clients, Poll(c) \/ Enqueue(c)  PROVE UNCHANGED <<pc, faults>>
  BY <1>1 DEF Poll, Enqueue, process, bounds
<1>2. ASSUME NEW n \in Notes, EditorSave(n) \/ ScanNote(n) \/ HandleEvent(n)
      PROVE  UNCHANGED <<pc, faults>>
  BY <1>2 DEF EditorSave, ScanNote, HandleEvent, bounds
<1>3. CASE Shutdown \/ CacheBody \/ Reindex \/ UNCHANGED vars
  BY <1>0, <1>3 DEF Shutdown, CacheBody, Reindex, vars, process, bounds
<1>4. CASE Launch \/ StartWatch \/ StartDrain \/ EndDrain
  BY <1>0, <1>4 DEF Launch, StartWatch, StartDrain, EndDrain, Gone, bounds
<1>5. CASE TakeWrite \/ TakeSatisfied \/ TakeRefused
  BY <1>0, <1>5 DEF TakeWrite, TakeSatisfied, TakeRefused, Take, bounds
<1>6. CASE WriteTemp \/ CheckPassed \/ CheckFailed \/ Rename \/ Resolve
  BY <1>0, <1>6 DEF WriteTemp, CheckPassed, CheckFailed, GiveUp, Creates, Rename, Resolve, bounds
<1>7. CASE TakeError \/ WriteError \/ IndexError \/ DrainError \/ Crash
  BY <1>0, <1>7 DEF TakeError, Take, WriteError, GiveUp, Creates, IndexError, DrainError, Crash, Gone, Failing
<1> QED  BY <1>0, <1>1, <1>2, <1>3, <1>4, <1>5, <1>6, <1>7, NextCases

LEMMA NextTemps ==
  TypeOK /\ PlanInv /\ TempInv /\ [Next]_vars => TempsAccountedFor'
<1> SUFFICES ASSUME TypeOK, PlanInv, TempInv, [Next]_vars,
                    NEW n \in Notes, temp'[n] # Missing
             PROVE  (pc \in {"check", "rename"} /\ n = Job.note)' \/ Stray(n)'
  BY DEF TempsAccountedFor, Stray
<1>1. CASE Launch  BY <1>1 DEF Launch
<1>2. CASE Stray(n) /\ ~Launch
  <2>1. faults' >= faults /\ (pc' = pc \/ (pc # "down" /\ pc' # "boot"))
    BY <1>2, CounterSteps
  <2>2. faults \in Nat /\ faults' \in Nat
    BY NextTypeOK DEF TypeOK, HistoryOK
  <2> QED  BY <1>2, <2>1, <2>2 DEF Stray
<1>3. CASE temp[n] = Missing /\ ~Launch
  <2>1. WriteTemp
    BY <1>3, VaultSteps DEF EditorSave, Rename, CheckFailed, WriteError, GiveUp, Creates, TypeOK,
                            VaultOK, vault
  <2>2. n = Job.note  BY <1>3, <2>1 DEF WriteTemp, TypeOK, VaultOK
  <2> QED  BY <2>1, <2>2 DEF WriteTemp, Job
<1>4. CASE pc \in {"check", "rename"} /\ n = Job.note /\ temp[n] # Missing
  <2>1. ASSUME UNCHANGED plan, pc' \in {"check", "rename"}
        PROVE  (pc \in {"check", "rename"} /\ n = Job.note)'
    BY <1>4, <2>1 DEF Job
  <2>2. ASSUME NEW c \in Clients, Poll(c) \/ Enqueue(c)
        PROVE  UNCHANGED plan /\ pc' = pc
    BY <2>2 DEF Poll, Enqueue, process
  <2>3. ASSUME NEW m \in Notes, EditorSave(m)  PROVE UNCHANGED plan /\ pc' = pc
    BY <2>3 DEF EditorSave
  <2>4. CASE Shutdown \/ CacheBody \/ IndexError \/ UNCHANGED vars
    <3>1. UNCHANGED plan /\ pc' = pc
      BY <2>4 DEF Shutdown, CacheBody, IndexError, vars, process
    <3> QED  BY <1>4, <2>1, <3>1
  <2>5. CASE CheckPassed  BY <2>1, <2>5 DEF CheckPassed
  <2>6. CASE Rename
    <3>1. temp'[n] = Missing  BY <1>4, <2>6 DEF Rename, TypeOK, VaultOK
    <3> QED  BY <3>1
  <2>7. CASE CheckFailed
    <3>1. Job.base # Missing  BY <2>7 DEF CheckFailed, TempInv
    <3>2. temp'[n] = Missing  BY <1>4, <2>7, <3>1 DEF CheckFailed, GiveUp, Creates, TypeOK, VaultOK
    <3> QED  BY <3>2
  <2>8. CASE WriteError
    <3>1. faults' > 0 /\ pc' = "finish"
      BY <2>8 DEF WriteError, Failing, GiveUp, Creates, TypeOK, HistoryOK
    <3>2. Job.base = Missing
      <4> SUFFICES ASSUME Job.base # Missing  PROVE FALSE  OBVIOUS
      <4>1. temp'[n] = Missing  BY <1>4, <2>8 DEF WriteError, GiveUp, Creates, TypeOK, VaultOK
      <4> QED  BY <4>1
    <3>3. n \in {Inbox, Archive}  BY <1>4, <3>2, CreatedNotes DEF Writing
    <3> QED  BY <3>1, <3>3 DEF Stray
  <2>9. CASE Crash
    <3>1. faults' > 0 /\ pc' = "down"
      BY <2>9 DEF Crash, Failing, Gone, TypeOK, HistoryOK
    <3> QED  BY <3>1 DEF Stray
  <2>10. ASSUME NEW m \in Notes, ScanNote(m) \/ HandleEvent(m)  PROVE FALSE
    BY <1>4, <2>10 DEF ScanNote, HandleEvent
  <2>11. CASE Launch \/ StartWatch \/ StartDrain \/ EndDrain \/ TakeWrite \/ TakeSatisfied
              \/ TakeRefused \/ WriteTemp \/ Reindex \/ Resolve \/ TakeError \/ DrainError
    BY <1>4, <2>11 DEF Launch, StartWatch, StartDrain, EndDrain, TakeWrite, TakeSatisfied,
       TakeRefused, Take, WriteTemp, Reindex, Resolve, TakeError, DrainError
  <2> QED
    BY <1>4, <2>1, <2>2, <2>3, <2>4, <2>5, <2>6, <2>7, <2>8, <2>9, <2>10, <2>11, NextCases
<1> QED  BY <1>1, <1>2, <1>3, <1>4 DEF TempInv, TempsAccountedFor, Stray

LEMMA NextTempInv ==
  TypeOK /\ PlanInv /\ TempInv /\ [Next]_vars => TempInv'
<1> SUFFICES ASSUME TypeOK, PlanInv, TempInv, [Next]_vars  PROVE TempInv'
  OBVIOUS
<1>1. ASSUME NEW k \in DOMAIN queue',
             queue'[k].type \in {"quick_add", "quick_add_undo"}
      PROVE  queue'[k].note = Inbox
  <2>1. CASE k \in DOMAIN queue
    BY <1>1, <2>1, QueueGrows DEF TempInv
  <2>2. CASE k \notin DOMAIN queue
    <3>0. DOMAIN queue' = DOMAIN queue  \/ \E c \in Clients : Enqueue(c)
      BY QueueSteps DEF Resolve
    <3>1. PICK c \in Clients : Enqueue(c)  BY <1>1, <2>2, <3>0
    <3>2. PICK a \in Gestures(c) : queue' = Append(queue, a)  BY <3>1 DEF Enqueue
    <3>3. a \in Action  BY <3>2, GesturesType DEF TypeOK
    <3>4. queue'[k] = a  BY <1>1, <2>2, <3>2, <3>3 DEF TypeOK, ClientsOK
    <3> QED  BY <1>1, <3>2, <3>4, GesturesOnInbox DEF TypeOK
  <2> QED  BY <2>1, <2>2
<1>2. pc' = "check" => (Job.base # Missing)'
  <2> SUFFICES ASSUME pc' = "check"  PROVE (Job.base # Missing)'  OBVIOUS
  <2>1. CASE WriteTemp  BY <2>1 DEF WriteTemp, Creates, Job
  <2>2. CASE TakeWrite \/ CheckPassed \/ Rename
    BY <2>2 DEF TakeWrite, CheckPassed, Rename
  <2>3. ASSUME NEW n \in Notes, EditorSave(n)  PROVE (Job.base # Missing)'
    BY <2>3 DEF EditorSave, TempInv, Job
  <2>4. CASE UNCHANGED <<vault, pc, plan, cur, raced>>
    BY <2>4 DEF TempInv, Job
  <2> QED  BY <2>1, <2>2, <2>3, <2>4, WritingSteps DEF Writing
<1> QED  BY <1>1, <1>2, NextTemps DEF TempInv

\* For every history of crashes and errors: a temp file stands beside a note while the
\* note is written; what outlives its write is swept at the next launch, or stands beside
\* the inbox or the archive.
THEOREM TempFilesAccounted == Spec => []TempsAccountedFor
<1>1. Init => WriteInv /\ TempInv
  <2>1. Init => TempInv
    <3> SUFFICES ASSUME Init  PROVE TempInv  OBVIOUS
    <3>1. DOMAIN queue = {} /\ pc = "down" /\ \A n \in Notes : temp[n] = Missing
      BY DEF Init
    <3> QED  BY <3>1 DEF TempInv, TempsAccountedFor
  <2> QED  BY <2>1, InitWriteInv
<1>2. WriteInv /\ TempInv /\ [Next]_vars => (WriteInv /\ TempInv)'
  BY NextWriteInv, NextTempInv DEF WriteInv
<1>3. TempInv => TempsAccountedFor  BY DEF TempInv
<1> QED  BY <1>1, <1>2, <1>3, PTL DEF Spec
===============================================================================
