------------------------- MODULE WriteBackProperties -------------------------
(***************************************************************************)
(* What the write-back core promises to the user whose notes it edits.     *)
(***************************************************************************)
EXTENDS WriteBack

PlannedWrite == [note : Notes, base : Contents \cup {Missing}, body : Contents, line : Nat]

VaultOK == /\ note \in [Notes -> Contents \cup {Missing}]
           /\ temp \in [Notes -> Contents \cup {Missing}]

IndexOK == /\ rows \in SUBSET Row
           /\ IsFiniteSet(rows)
           /\ nextId \in Nat \ {0}
           /\ cached \in [Notes -> Contents \cup {Missing}]

ClientsOK == /\ queue \in Seq(Action)
             /\ seen \in [Clients -> SUBSET Row]
             /\ \A c \in Clients : IsFiniteSet(seen[c])

ProcessOK == /\ pc \in PC
             /\ cur \in Nat
             /\ plan \in Seq(PlannedWrite)
             /\ reindex \in Seq(Notes)
             /\ verdict \in {"done", "failed"}
             /\ half \in SUBSET [note : Notes, body : Contents \cup {Missing}]
             /\ scan \in SUBSET Notes /\ events \in SUBSET Notes
             /\ watching \in BOOLEAN /\ stopping \in BOOLEAN /\ final \in BOOLEAN

HistoryOK == /\ writer \in [Notes -> [by : Nat, line : Nat]]
             /\ raced \in BOOLEAN
             /\ gap \in SUBSET Notes
             /\ edits \in Nat /\ faults \in Nat

\* Every variable has its type, and the program counter tells what the daemon has in
\* hand: an action from the moment it is taken (process_pending_actions), a write
\* still to make while it is in atomic_write, the watcher once the scan is over.
TypeOK == /\ VaultOK /\ IndexOK /\ ClientsOK /\ ProcessOK /\ HistoryOK
          /\ pc \in {"write", "check", "rename"} => plan # <<>>
          /\ pc \in {"write", "check", "rename", "finish"} => cur \in Pending
          /\ pc \in {"down", "boot"} <=> ~watching

-----------------------------------------------------------------------------
\* The index.

\* The index is never a mixture of two scans of a note, whatever scans, daemons and
\* crashes came in between: the rows reconcile_note leaves are all the tasks of one
\* content of the note, and an id names one row.
IndexIsSnapshot == Snapshot(rows, nextId)

\* Identity: as long as the id an action or a client's list refers to is in the index,
\* it is a task of that note with exactly the text the user saw.  An id is never given
\* to another text, however the rows are matched, deleted and inserted in between.
IdKeepsText ==
    \A r \in rows :
       /\ \A k \in DOMAIN queue :
             queue[k].task = r.id => queue[k].saw = r.text /\ queue[k].note = r.note
       /\ \A c \in Clients : \A q \in seen[c] :
             q.id = r.id => q.text = r.text /\ q.note = r.note

\* The rows of n are the tasks that are in the note now.
Fresh(n) ==
    /\ \A r \in RowsOf(rows, n) : r.hash = note[n]
    /\ LinesOf(rows, n) = IF note[n] = Missing THEN {} ELSE IndexedLines(note[n])

\* While the daemon watches, a stale index is on its way to be repaired: an event for
\* the note is still to come.  The exceptions are the ones recorded in gap: a change
\* between the initial scan and the watch, a note deleted while no daemon ran, an
\* indexing that failed.  The daemon's own writes are no exception.
StaleIsCovered ==
    watching => \A n \in Notes : Fresh(n) \/ n \in events \/ n \in gap

-----------------------------------------------------------------------------
\* Writing.

\* The TOCTOU guard of atomic_write: when the rename is next, the note still is what
\* the action was judged on, unless the editor saved after the last check; and what
\* is renamed over it is what was judged right.
CheckedRename ==
    pc = "rename" =>
        /\ temp[Job.note] = Job.body
        /\ Job.base # Missing /\ ~raced => note[Job.note] = Job.base

\* A step in which the daemon changes note n.
Renamed(n) == note'[n] # note[n] /\ writer'[n].by # 0

\* What a one-line action may make of a line.
RewriteOf(old, new, a) ==
    /\ <<new.indent, new.text.name, new.text.added>> = <<old.indent, old.text.name, old.text.added>>
    /\ a.type = "checkbox" =>
         /\ new.kind = "task" /\ old.char = a.expected /\ new.char = a.new
         /\ new.text.sched = old.text.sched
         /\ IsClosed(new.char) => NoDate \in {new.text.done, new.text.cancelled}
    /\ a.type = "set_scheduled" => new = [old EXCEPT !.text.sched = a.want]
    /\ a.type = "toggle_bullet" => new.text = old.text /\ new.kind # old.kind

\* A rename for a one-line action.
OneLineStep(n) ==
    Renamed(n) /\ ~raced /\ queue[cur].type \in LineTypes =>
       \E i \in DOMAIN note[n] :
          /\ note'[n] = SetLine(note[n], i, note'[n][i])
          /\ RewriteOf(note[n][i], note'[n][i], queue[cur])

\* A one-line action changes one line of the note and leaves its name, its indent and
\* the day it was added: a flip sets the char asked for and leaves no line both done and
\* cancelled, a reschedule changes the scheduled date only, a bullet toggle the checkbox
\* only.
OneLineRewrite == [][\A n \in Notes : OneLineStep(n)]_vars

\* A rename for a flip or a reschedule.
SameLineStep(n) ==
    Renamed(n) /\ queue[cur].type \in {"checkbox", "set_scheduled"} =>
       writer[n] # [by |-> cur, line |-> writer'[n].line]

\* Retries: a flip or a reschedule that is run again after a crash or an error, the
\* note being as it left it, does not write the line it has already written.
SameLineOnce == [][\A n \in Notes : SameLineStep(n)]_vars

\* How often a line is in the contents of a note.
Copies(l, c) == IF c = Missing THEN 0 ELSE Cardinality({i \in DOMAIN c : c[i] = l})

\* A rename for a reorder.
ReorderStep(n) ==
    Renamed(n) /\ ~raced /\ queue[cur].type = "reorder" =>
       /\ \A l \in Range(note[n]) \cup Range(note'[n]) :
             Copies(l, note[n]) = Copies(l, note'[n])
       /\ \A i \in DOMAIN note[n] \ FlatTaskLines(note[n]) : note'[n][i] = note[n][i]

\* A reorder moves tasks among the places of tasks: no line is lost, doubled or
\* invented, and a line that is not a flat task stays where it is.
ReorderKeepsLines == [][\A n \in Notes : ReorderStep(n)]_vars

\* A rename for an archive move.
ArchiveStep(n) ==
    Renamed(n) /\ ~raced /\ queue[cur].type = "archive" =>
       IF n = Archive
       THEN Job.base # Missing =>
              \A l \in Range(note[n]) : Copies(l, note'[n]) >= Copies(l, note[n])
       ELSE \A l \in Range(note[n]) :
               \/ Copies(l, note'[n]) = Copies(l, note[n])
               \/ /\ l.kind = "task" /\ IsClosed(l.char)
                  /\ \/ Copies(l, note[Archive]) > 0
                     \/ note[Archive] \in EditorContents[Archive]

\* Archiving copies before it deletes: when the lines leave the note, each of them is
\* in the archive, unless the archive is as the editor has saved it meanwhile; no other
\* line leaves, and the copy takes none from an archive that was there to append to.
ArchiveNeverLoses == [][\A n \in Notes : ArchiveStep(n)]_vars

-----------------------------------------------------------------------------
\* Captures from the keyboard.

\* A rename for a quick add.
QuickAddStep(n) ==
    Renamed(n) /\ ~raced /\ queue[cur].type = "quick_add" =>
       \E i \in DOMAIN note'[n] :
          /\ note'[n][i] = NewTask(queue[cur].typed, Today)
          /\ \A j \in 1..i : note'[n][j].kind # "section"
          /\ RemoveAt(note'[n], i) = IF Job.base = Missing THEN <<>> ELSE note[n]

\* A quick add puts one line into the note, what is typed as an open task, and it is not
\* below a section of task notes; every line that was there is still there, in its order.
QuickAddOnlyAdds == [][\A n \in Notes : QuickAddStep(n)]_vars

\* Line b of c is under the first heading of the notes with that id.
Under(c, b, id) ==
    \E h \in 1..(b - 1) : /\ Headings(c, id) \cap 1..h = {h}
                          /\ \A j \in (h + 1)..b : c[j].kind \notin {"section", "loose", "heading"}

\* A rename for a note on a task.
AddNoteStep(n) ==
    Renamed(n) /\ ~raced /\ queue[cur].type = "add_note" =>
       \E i \in TaskLines(note[n]), k \in DOMAIN TaskSeq(note[n]), id \in Links :
          /\ note[n][i] = TaskSeq(note[n])[k]
          /\ note[n][i].text.link \in {NoLink, id}
          /\ TaskSeq(note'[n]) = [TaskSeq(note[n]) EXCEPT ![k].text.link = id]
          /\ \E b \in DOMAIN note'[n] : /\ note'[n][b] = NoteBullet(queue[cur].typed)
                                        /\ Under(note'[n], b, id)
          /\ \A l \in Range(note[n]) \ {note[n][i]} : Copies(l, note'[n]) >= Copies(l, note[n])

\* A note on a task is found from the task: its line, otherwise as it was, links to a
\* heading the note is under.  No task appears or goes, whatever is typed, and no line
\* of the note is lost.
NoteIsFound == [][\A n \in Notes : AddNoteStep(n)]_vars

\* A rename for the undo of a quick add.
UndoStep(n) ==
    Renamed(n) /\ ~raced /\ queue[cur].type = "quick_add_undo" =>
       \E i \in DOMAIN note[n] :
          /\ EndsWith(note[n][i], NewTask(queue[cur].typed, Today))
          /\ \A j \in DOMAIN note[n] : j > i /\ note[n][j].kind # "blank" =>
                \E k \in (i + 1)..j : note[n][k].kind = "section"
          /\ \/ note'[n] = RemoveAt(note[n], i)
             \/ /\ note[n][i].indent > 0 \/ note[n][i].kind = "plain"
                /\ TaskSeq(note'[n]) = TaskSeq(RemoveAt(note[n], i))

\* The undo of a quick add takes one line, or the end of one, out of the note, the last
\* of the task list, and only as long as that says what was added, today; no other task
\* goes with it, and none appears.
UndoTakesBack == [][\A n \in Notes : UndoStep(n)]_vars

\* How many lines of the contents of a note say that name was added today.
Added(name, c) ==
    IF c = Missing
    THEN 0
    ELSE Cardinality({i \in DOMAIN c : c[i].text.name = name /\ c[i].text.added = Today})

\* Quick add is not idempotent: what is run again is added again.  But no more than once
\* for every failure, beyond what the editor wrote itself, whatever else is made of the
\* lines in between.
QuickAddRepeats ==
    \A name \in Typed :
       LET asked == {k \in DOMAIN queue : queue[k].type = "quick_add" /\ queue[k].typed = name}
       IN  \E c \in EditorContents[Inbox] \cup {InitialVault[Inbox]} :
              Added(name, note[Inbox]) <= Cardinality(asked) + faults + Added(name, c)

\* A temp file stands beside a note while the note is written; it outlives the write when
\* the daemon was killed in it, until the next launch, or when creating a note failed.
TempsAccountedFor ==
    \A n \in Notes :
       temp[n] # Missing =>
          \/ pc \in {"check", "rename"} /\ n = Job.note
          \/ faults > 0 /\ (pc = "down" \/ (pc # "boot" /\ n \in {Inbox, Archive}))

-----------------------------------------------------------------------------
\* What the documents promise, and the code does not keep.

\* ADR-0005: after the text of a task is edited, "any pending flip on the old rowid is
\* refused".  A one-line action changes the line of the task the user acted on, or none.
HitsTheTaskMeant ==
    [][\A n \in Notes :
          Renamed(n) /\ ~raced /\ queue[cur].type \in LineTypes =>
             \A i \in DOMAIN note[n] :
                note'[n][i] # note[n][i] => note[n][i].text.name = queue[cur].saw.name]_vars

\* ADR-0020: when the note was edited while the user moved a task, the reorder is
\* refused.  The lines a reorder moves say what the user's list was read from.
ReordersWhatWasSeen ==
    [][\A n \in Notes :
          Renamed(n) /\ ~raced /\ queue[cur].type = "reorder" =>
             \A i \in Range(queue[cur].lines) : note[n][i].text = queue[cur].base[i].text]_vars

\* ADR-0014: when the inbox was edited after a quick add, its undo is refused.  Where no
\* quick add was refused itself, an undo finds the inbox as taski has left it.
UndoRefusesEdited ==
    [][\A n \in Notes :
          Renamed(n) /\ ~raced /\ queue[cur].type = "quick_add_undo" =>
             \/ \E k \in DOMAIN queue : queue[k].type = "quick_add" /\ queue[k].state # "done"
             \/ writer[n].by # 0]_vars

\* ADR-0020: an action that is run again after a crash does not write the
\* note, which is as the action left it, a second time.
AppliedOnce == [][\A n \in Notes : Renamed(n) => writer[n].by # cur]_vars

-----------------------------------------------------------------------------
\* The queue.

Resolved == DOMAIN queue \ Pending

\* The refinement: the scans, checks, temp files, transactions, errors and restarts
\* of the daemon amount to the queue VaultQueue describes.
Queue == INSTANCE VaultQueue WITH
            Vaults   <- [Notes -> Contents \cup {Missing}],
            author   <- [n \in Notes |-> writer[n].by],
            total    <- Len(queue),
            resolved <- Cardinality(Resolved)

\* The daemon writes a note on behalf of the oldest pending action only, never of one
\* that is resolved, and resolves the actions in their order, once each: whatever
\* fails or is restarted in between.
InOrderOnce == Queue!Spec

-----------------------------------------------------------------------------
\* Progress.

\* The drain serves every action: it is resolved, one way or the other, unless the
\* daemon stops first.
EveryActionResolved ==
    \A k \in 1..MaxActions : k \in Pending ~> (k \notin Pending \/ pc = "down")

\* Every change the watcher heard of is handled, however busy the queue keeps the
\* loop, unless the daemon stops first.
EventsHandled == \A n \in Notes : n \in events ~> n \notin events

\* A daemon told to stop stops, whatever it was doing and whatever is enqueued.
ShutdownEnds == stopping ~> pc = "down"
=============================================================================
