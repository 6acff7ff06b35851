------------------------------ MODULE Requests ------------------------------
(***************************************************************************)
(* The actions a client can ask of the daemon: what each gesture of the    *)
(* TUI and each command of the CLI enqueues, given the tasks on its screen *)
(* and the task it is made on.                                             *)
(***************************************************************************)
EXTENDS TaskIndex

CONSTANTS Archive,     \* the note completed tasks are archived to
          Inbox,       \* the note quick add appends to
          Today,       \* the local date of the session
          Typed        \* what the user types into the modals

ASSUME RequestAssumption ==
    /\ Archive \in Notes
    /\ Inbox \in Notes
    /\ Today \in Days
    /\ Typed \in SUBSET Names

Types == {"checkbox", "set_scheduled", "toggle_bullet", "reorder", "archive",
          "quick_add", "quick_add_undo", "add_note"}
LineTypes == {"checkbox", "set_scheduled", "toggle_bullet"}

\* The fields a type does not use keep the defaults of NoteAction.  saw and base are
\* history fields: the text of the task the user acted on and, of a bulk action, the
\* contents of the note that the user's list was read from.
Action == [type : Types, task : Nat, note : Notes, line : Nat,
           expected : Chars \cup {NoChar}, new : Chars \cup {NoChar},
           want : Token, lines : Seq(Nat), typed : Names \cup {NoName},
           saw : Text, base : Contents, state : {"pending", "done", "failed"}]

\* An action on no task.
NoteAction(n, type) ==
    [type |-> type, task |-> 0, note |-> n, line |-> 0,
     expected |-> NoChar, new |-> NoChar, want |-> NoDate, lines |-> <<>>,
     typed |-> NoName, saw |-> Saying(NoName), base |-> <<>>, state |-> "pending"]

\* An action on the task of row r, as the client last saw it.
ActionOn(r, type) ==
    [NoteAction(r.note, type) EXCEPT !.task = r.id, !.line = r.line, !.saw = r.text]

-----------------------------------------------------------------------------
\* Gestures on one task.

\* The states the gestures of the TUI and the status commands of the CLI ask for.
TargetChars(char) == {" ", "x", "/", "!", "-"} \ {char}

FlipRequests(r) ==
    {[ActionOn(r, "checkbox") EXCEPT !.expected = r.char, !.new = c] : c \in TargetChars(r.char)}

\* The TUI sets today's date and clears it again, the CLI sets any date.
ScheduleRequests(r) ==
    {[ActionOn(r, "set_scheduled") EXCEPT !.want = date] : date \in Days \cup {NoDate}}

BulletRequests(r) == {ActionOn(r, "toggle_bullet")}

NoteRequests(r) == {[ActionOn(r, "add_note") EXCEPT !.typed = name] : name \in Typed}

-----------------------------------------------------------------------------
\* Bulk actions, offered on a note whose tasks, in the client's view, are all flat.

AllFlat(view, n) == \A r \in RowsOf(view, n) : r.indent = 0

\* The new order of the tasks of the note the user has on the screen; a filter may hide
\* some.  The screen keeps the order of one move until it is refreshed, so the next move
\* may start from any order, and may even put the lines back in theirs.
ReorderRequests(view, r) ==
    {[ActionOn(r, "reorder") EXCEPT !.lines = order, !.base = r.hash] :
        order \in {o \in UNION {[1..Cardinality(S) -> S] : S \in SUBSET LinesOf(view, r.note)} :
            /\ AllFlat(view, r.note)
            /\ IsInjective(o) /\ r.line \in Range(o) /\ Len(o) > 1}}

\* The note's closed tasks, on behalf of the first of them.
ArchiveRequests(view, r) ==
    LET closed == {q \in RowsOf(view, r.note) : IsClosed(q.char)}
    IN  {[ActionOn(q, "archive") EXCEPT !.lines = InOrder({p.line : p \in closed}),
                                        !.base = q.hash] :
            q \in {p \in closed : /\ p = r
                                  /\ r.note # Archive
                                  /\ AllFlat(view, r.note)
                                  /\ \A o \in closed : r.line <= o.line}}

-----------------------------------------------------------------------------

\* Everything that can be asked about the task of row r.
Requests(view, r) ==
    FlipRequests(r) \cup ScheduleRequests(r) \cup BulletRequests(r) \cup NoteRequests(r)
    \cup ReorderRequests(view, r) \cup ArchiveRequests(view, r)

QuickAddRequests == {[NoteAction(Inbox, "quick_add") EXCEPT !.typed = name] : name \in Typed}

\* The undo of an action the client has enqueued: the flip the other way round, the
\* bullet toggle once more, the removal of the added line.  The others have none, and
\* an undo is not undone.
Reversals(a) ==
    CASE a.type = "checkbox" ->
            {[a EXCEPT !.expected = a.new, !.new = a.expected, !.state = "pending"]}
      [] a.type = "toggle_bullet" -> {[a EXCEPT !.state = "pending"]}
      [] a.type = "quick_add" -> {[a EXCEPT !.type = "quick_add_undo", !.state = "pending"]}
      [] OTHER -> {}
=============================================================================
