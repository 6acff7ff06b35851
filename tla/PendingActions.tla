--------------------------- MODULE PendingActions ---------------------------
(***************************************************************************)
(* The shared state of taski and its queue of pending actions: the vault   *)
(* of notes, the SQLite index, the actions the clients enqueue from their  *)
(* last poll of the index, and what the daemon makes of an action when it  *)
(* judges it against the index and the note it has just read.              *)
(*                                                                         *)
(* Variables listed under "history" exist for the properties only.         *)
(***************************************************************************)
EXTENDS Requests, NoteCapture

CONSTANTS Clients,        \* the processes that enqueue actions
          ActionTypes,    \* the kinds of action they enqueue
          Missing,        \* the "contents" of a note that does not exist
          InitialVault,   \* the notes' contents at the start
          EditorContents, \* what the editor may save, by note
          MaxActions, MaxEdits, MaxFaults   \* bounds

ASSUME VaultAssumption ==
    /\ Missing \notin Contents
    /\ InitialVault \in [Notes -> Contents \cup {Missing}]
    /\ EditorContents \in [Notes -> SUBSET (Contents \cup {Missing})]
    /\ MaxActions \in Nat /\ MaxEdits \in Nat /\ MaxFaults \in Nat

VARIABLES
    \* the vault
    note,      \* the notes, a function from paths to contents
    temp,      \* the <name>.taski.tmp beside each note
    \* the SQLite database
    rows,      \* table tasks
    nextId,    \* its AUTOINCREMENT
    cached,    \* table note_contents
    queue,     \* table pending_actions; the id of an entry is its position
    \* the clients
    seen,      \* the tasks each client read in its last poll
    \* the daemon
    pc,        \* where it is
    cur,       \* the action in process, 0 if none
    plan,      \* the writes still to make for it
    reindex,   \* the notes to index once they are made
    verdict,   \* how the action is to be resolved
    half,      \* the second transaction of an indexing under way, if any
    scan,      \* the notes the initial scan has not reached
    watching,  \* the watcher is registered
    events,    \* notes with an undelivered change event
    stopping,  \* the shutdown signal is set
    final,     \* the drain under way is the last one before the exit
    \* bounds
    edits, faults,
    \* history
    writer,    \* the action whose write is the note's last change, and the line
    raced,     \* the editor saved between the last check and the rename
    gap        \* notes whose state the scan missed and no event covers

vault   == <<note, temp>>
index   == <<rows, nextId, cached>>
process == <<pc, cur, plan, reindex, verdict, half, scan, watching, events, stopping, final>>
bounds  == <<edits, faults>>
history == <<writer, raced, gap>>
vars    == <<vault, index, queue, seen, process, bounds, history>>

-----------------------------------------------------------------------------
\* The queue.

Pending == {k \in DOMAIN queue : queue[k].state = "pending"}

\* Mutant: last in, first out.
Newest == CHOOSE k \in Pending : \A j \in Pending : k >= j

Oldest == CHOOSE k \in Pending : \A j \in Pending : k <= j

\* What client c can enqueue next.
Gestures(c) ==
    LET onTasks == UNION {Requests(seen[c], r) : r \in seen[c]}
        undos   == UNION {Reversals(queue[k]) : k \in DOMAIN queue}
    IN  {a \in onTasks \cup QuickAddRequests \cup undos : a.type \in ActionTypes}

-----------------------------------------------------------------------------
\* What the daemon makes of an action.

\* lookup_task_for_action, and lookup_task_by_location when the id is gone.
ById(a)    == {r \in rows : r.id = a.task}
ByPlace(a) == {r \in rows : r.note = a.note /\ r.line = a.line}
Found(a)   == IF ById(a) # {} THEN ById(a) ELSE ByPlace(a)

Target(n, i, char, c) == [note |-> n, line |-> i, char |-> char, hash |-> c]

\* The line the action is taken to mean and the contents it was indexed from.  A
\* bullet toggle that finds no row trusts the cached note and its own line number.
Targets(a) ==
    {Target(r.note, r.line, r.char, r.hash) : r \in Found(a)}
    \cup IF Found(a) = {} /\ a.type = "toggle_bullet" /\ cached[a.note] # Missing
         THEN {Target(a.note, a.line, NoChar, cached[a.note])}
         ELSE {}

\* The conflict check: the note still is what the index was built from.
Held(a) == {t \in Targets(a) : note[t.note] = t.hash /\ t.line \in DOMAIN t.hash}

\* The checkbox already is, or the line already says, what is asked for.
Satisfies(line, a) ==
    \/ a.type = "checkbox" /\ line.kind = "task" /\ line.char = a.new
    \/ /\ a.type = "set_scheduled" /\ line.kind = "task"
       /\ Schedulable(line, a.want) /\ line.text.sched = a.want

\* Mutant: a flip toggles the line it finds instead of setting the char asked for.
TogglingReplacements(line, rowChar, a) ==
    {l \in {Flipped(line, IF line.char = a.new THEN a.expected ELSE a.new, Today)} :
        line.kind = "task" /\ Flippable(line, a.new)}

\* The lines that may replace a line on behalf of the action: at most one, none if
\* it refuses.  rowChar is the char in the index.
Replacements(line, rowChar, a) ==
    CASE a.type = "checkbox" ->
            {l \in {Flipped(line, a.new, Today)} :
                /\ line.kind = "task" /\ line.char # a.new
                /\ a.expected = rowChar /\ a.expected = line.char
                /\ Flippable(line, a.new)}
      [] a.type = "set_scheduled" ->
            {l \in {Scheduled(line, a.want)} :
                line.kind = "task" /\ Schedulable(line, a.want) /\ l # line}
      [] a.type = "toggle_bullet" ->
            {l \in {Toggled(line)} : Toggleable(line)}
      [] OTHER -> {}

\* A write: the note, the contents the target must still have (Missing: it is
\* created, with no check), the new contents, and the line replaced, 0 for several.
Write(n, base, body, i) == [note |-> n, base |-> base, body |-> body, line |-> i]

LineWrites(a) ==
    UNION {{<<Write(t.note, t.hash, SetLine(t.hash, t.line, l), t.line)>> :
              l \in Replacements(t.hash[t.line], t.char, a)} : t \in Held(a)}

\* Mutant: the order is not compared with the note's task lines.
ReordersAnyLines(a, t) ==
    a.type = "reorder" /\ a.lines # <<>> /\ Range(a.lines) \subseteq DOMAIN t.hash

Reorders(a, t) ==
    a.type = "reorder" /\ a.lines # <<>> /\ Range(a.lines) \subseteq FlatTaskLines(t.hash)

ReorderWrites(a) ==
    {<<Write(t.note, t.hash, PermuteLines(t.hash, a.lines), 0)>> :
        t \in {h \in Held(a) : Reorders(a, h) /\ PermuteLines(h.hash, a.lines) # h.hash}}

Archived(c, lines) == (IF note[Archive] = Missing THEN <<>> ELSE note[Archive])
                      \o ExtractLines(c, lines)

\* Mutant: the lines are removed before they are copied.
DeleteThenCopy(a) ==
    {<<Write(t.note, t.hash, RemoveLines(t.hash, a.lines), 0),
       Write(Archive, note[Archive], Archived(t.hash, a.lines), 0)>> :
        t \in {h \in Held(a) : /\ a.type = "archive" /\ a.lines # <<>>
                               /\ h.note # Archive
                               /\ Range(a.lines) \subseteq ClosedFlatLines(h.hash)}}

\* Phase A copies the lines into the archive, Phase B removes them from the note.
ArchiveWrites(a) ==
    {<<Write(Archive, note[Archive], Archived(t.hash, a.lines), 0),
       Write(t.note, t.hash, RemoveLines(t.hash, a.lines), 0)>> :
        t \in {h \in Held(a) : /\ a.type = "archive" /\ a.lines # <<>>
                               /\ h.note # Archive
                               /\ Range(a.lines) \subseteq ClosedFlatLines(h.hash)}}

\* Captures from the keyboard.  Quick add and its undo ask nothing of the index: they
\* take the note as it is.  The undo looks for what quick add writes today.
QuickAddWrites(a) ==
    LET task == NewTask(a.typed, Today)
        body == IF note[a.note] = Missing THEN <<task>> ELSE WithTask(note[a.note], task)
    IN  IF a.type = "quick_add" THEN {<<Write(a.note, note[a.note], body, 0)>>} ELSE {}

UndoWrites(a) ==
    {<<Write(a.note, note[a.note], Undone(note[a.note], i), 0)>> :
        i \in IF a.type # "quick_add_undo" \/ note[a.note] = Missing THEN {}
              ELSE LastAdded(note[a.note], NewTask(a.typed, Today))}

\* generate_note_id: an id from the clock that heads no block of this note.  Nobody
\* looks at its other lines, or at other notes.
Unused(c) == {id \in Links : Headings(c, id) = {}}

NoteIds(c, i) == IF c[i].kind # "task" THEN {}
                 ELSE IF c[i].text.link # NoLink THEN {c[i].text.link} ELSE Unused(c)

NoteWrites(a) ==
    UNION {{<<Write(t.note, t.hash, Noted(t.hash, t.line, id, NoteBullet(a.typed)), 0)>> :
              id \in NoteIds(t.hash, t.line)} : t \in {h \in Held(a) : a.type = "add_note"}}

Writes(a) == LineWrites(a) \cup ReorderWrites(a) \cup ArchiveWrites(a)
             \cup QuickAddWrites(a) \cup UndoWrites(a) \cup NoteWrites(a)

\* Nothing to write, and yet applied.
Satisfied(a) ==
    \E t \in Held(a) : \/ Satisfies(t.hash[t.line], a)
                       \/ Reorders(a, t) /\ PermuteLines(t.hash, a.lines) = t.hash
=============================================================================
