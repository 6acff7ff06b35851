--------------------------- MODULE TuiProperties ---------------------------
(***************************************************************************)
(* What the TUI promises to the user at the keyboard.                      *)
(***************************************************************************)
EXTENDS Tui

\* Every variable has its type; the cursor is on a row whenever there is one.
TuiTypeOK ==
    /\ rows \in SUBSET Row /\ tasks \in Seq(Row) /\ nextId \in Nat \ {0}
    /\ queue \in Seq({"pending", "done", "failed"})
    /\ sent \in SUBSET Action
    /\ \A i \in DOMAIN view : view[i].is \in {"header", "task", "lane"}
    /\ sel \in 0..Len(view) /\ (sel = 0 <=> view = <<>>)
    /\ opts \in Options
    /\ mode \in Modes /\ notice \in Notice
    /\ move.id \in Nat /\ move.order \in Seq(Nat)
    /\ last \in SUBSET Action /\ Cardinality(last) <= 1
    /\ Range(tracked) \cup told \cup dropped \subseteq own /\ own \subseteq DOMAIN queue
    /\ Len(tracked) <= TrackCap

-----------------------------------------------------------------------------
\* The list.

\* Where a task is to be seen: on the list, or on the board in its lane, which ignores the
\* status filter.
SeenIn(r) ==
    IF ~opts.board THEN {scope \in {"list"} : Passes(r, opts)}
    ELSE {ch \in Range(Lanes) : ch = LaneOf(r.char) /\ Passes(r, [opts EXCEPT !.filter = "all"])}

\* The groups a task is to be seen in.
Places(r) == SeenIn(r) \X GroupKeys(r, opts.axis)

\* Nothing gets lost on the way to the screen: each task that passes the filters is there
\* once in each of its groups, under its header or behind a folded one, and nothing else is.
\* It holds while a task is moved and until the order it got is refreshed.
ScreenIsComplete ==
    LET due  == {q \in UNION {Places(r) \X {r} : r \in Range(tasks)} :
                    opts.board => q[1][1] \notin opts.folded}
        open == {q \in due : q[1] \in opts.expanded}
    IN  /\ HeadersShown = {q[1] : q \in due}
        /\ \A q \in open : \E i \in DOMAIN view :
              view[i] = TaskRow(q[2]) /\ \E h \in HeaderOf(i) : view[h].key = q[1]
        /\ Cardinality({i \in DOMAIN view : view[i].is = "task"}) = Cardinality(open)

SelectedIds == {r.id : r \in Selected}

\* The next key is for the task the user sees under the cursor: whatever is refreshed,
\* filtered, grouped or folded, the cursor stays on it as long as it is on the screen, unless
\* the user moves the cursor.
CursorStays ==
    [][\A id \in SelectedIds :
          id \in VisibleIds' => id \in SelectedIds' \/ MoveCursor(-1) \/ MoveCursor(1)]_vars

-----------------------------------------------------------------------------
\* Actions.

\* The daemon's side relies on what the session asks: each action is one of those the
\* write-back core assumes of its clients, made on a task of the last refresh, however the
\* list is grouped, filtered and permuted when it is asked.
AsksWhatTheCoreAllows ==
    \A a \in sent :
       \/ \E r \in Range(tasks) : a \in Requests(Range(tasks), r)
       \/ a \in QuickAddRequests
       \/ \E b \in last : a \in Reversals(b)

\* A note typed while the list is refreshed underneath goes to the task the modal was opened
\* on, as long as that has stayed on the screen.
NoteKeepsItsTask ==
    [][SubmitNote => \A id \in Range(start) : \A a \in sent' : a.task = id]_vars

\* Esc takes a move back: the list is what it was, with the cursor on the task.
CancelRestores ==
    [][CancelMove => view' = start /\ SelectedIds' = {move.id}]_vars

\* A refused action does not go unnoticed: it has been shown, or a newer one has in its
\* place, unless it is still tracked or was dropped from the tracked ones to make room.
RefusalsSurface ==
    \A k \in own : queue[k] = "failed" =>
       k \in Range(tracked) \cup dropped \/ \E j \in told : j >= k

Unlearned == Range(tracked) \cap Recent

\* The tracked actions that are resolved leave the tracked ones, as long as they are among
\* the recent resolutions when the list is refreshed, unless a task is being moved.
OutcomesLearned == Unlearned # {} ~> (Unlearned = {} \/ mode = "move")
=============================================================================
