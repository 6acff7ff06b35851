-------------------------------- MODULE Tui --------------------------------
(***************************************************************************)
(* The session of the TUI: a list it reads from the index every so often,  *)
(* keys that change the view, open a modal or enqueue an action, and what  *)
(* it learns of the actions it has enqueued.  One thread handles one key   *)
(* or one refresh at a time.                                               *)
(*                                                                         *)
(* The daemon and the other clients are the environment: they change the   *)
(* index, resolve the actions in their order and enqueue others.  An       *)
(* enqueue that fails leaves no trace but the modal it closes.             *)
(***************************************************************************)
EXTENDS TaskView

CONSTANTS InitialRows, InitialNext,   \* the index when the session begins
          Scans,                      \* what the daemon may find in a note
          RecentLimit,                \* how many resolutions a refresh reads
          TrackCap,                   \* how many actions the session keeps track of
          MaxSteps                    \* bound on the keys that do more than move the cursor,
                                      \* unfold or edit in a prompt, and on the scans

ASSUME SessionAssumption ==
    /\ InitialRows \in SUBSET Row /\ IsFiniteSet(InitialRows) /\ InitialNext \in Nat \ {0}
    /\ Snapshot(InitialRows, InitialNext)
    /\ Scans \in [Notes -> SUBSET Contents]
    \* A task has a description.
    /\ \A r \in InitialRows : r.text.name \in Names
    /\ \A n \in Notes : \A c \in Scans[n] : \A i \in TaskLines(c) : c[i].text.name \in Names
    /\ RecentLimit \in Nat \ {0} /\ TrackCap \in Nat \ {0} /\ MaxSteps \in Nat

VARIABLES
    rows, nextId,          \* the index
    queue,                 \* the outcomes of the actions, in the order they are enqueued
    sent,                  \* the action enqueued in the last step, if it was one
    tasks,                 \* the tasks read in the last refresh, in order
    view,                  \* the rows on the screen
    sel,                   \* the row the cursor is on, 0 if there is none
    opts,                  \* what the view shows
    mode,                  \* who gets the keys: the list, a prompt, a modal
    move,                  \* the task being moved, and the order before
    last,                  \* the action u takes back, if any
    tracked,               \* the actions not known to be resolved
    notice,                \* the line above the footer
    \* bound
    steps,
    \* history
    own,                   \* the actions of this session
    told,                  \* the failures that were shown
    dropped,               \* the actions it has stopped tracking to make room
    start                  \* the list when move mode began, or the task the note modal
                           \* was opened on if it has stayed on the screen

db     == <<rows, nextId, queue>>
screen == <<tasks, view, sel, opts>>
asked  == <<last, tracked, notice, own, told, dropped>>
modal  == <<mode, move, start>>
vars   == <<db, sent, screen, asked, modal, steps>>

Modes == {"list", "search", "file search", "quick add", "add note", "move"}

Notice == [says : {"nothing", "not on the board", "one note only", "flat lists only",
                   "nothing to archive", "this is the archive", "archiving", "failed"},
           of : Nat]
Says(what) == [says |-> what, of |-> 0]

Still == [id |-> 0, order |-> <<>>]

InitialOptions == [filter |-> "open", today |-> FALSE, overdue |-> FALSE, query |-> NoQuery,
                   fileQuery |-> NoQuery, axis |-> "folder+note", board |-> FALSE,
                   expanded |-> {}, folded |-> {"x"}]

\* App::new
Init ==
    /\ rows = InitialRows /\ nextId = InitialNext /\ queue = <<>> /\ sent = {}
    /\ tasks = <<>> /\ view = <<>> /\ sel = 0 /\ opts = InitialOptions
    /\ mode = "list" /\ move = Still /\ start = <<>>
    /\ last = {} /\ tracked = <<>> /\ notice = Says("nothing")
    /\ steps = 0 /\ own = {} /\ told = {} /\ dropped = {}

Counted == steps < MaxSteps /\ steps' = steps + 1

\* The task under the cursor, if it is on one.
Selected == {view[i].task : i \in {k \in {sel} : OnTask(view, k)}}

VisibleIds == {view[i].task.id : i \in {k \in DOMAIN view : OnTask(view, k)}}

\* rebuild
Rebuild(ts, o) ==
    /\ tasks' = ts /\ opts' = o
    /\ view' = Screen(tasks', o)
    /\ sel' = Reconcile(view', view, sel)

-----------------------------------------------------------------------------
\* The environment.

Scan(n) ==
    /\ Counted
    /\ \E c \in Scans[n] : /\ rows' = Reconciled(rows, nextId, n, c)
                           /\ nextId' = NextId(rows, nextId, n, c)
    /\ UNCHANGED <<queue, screen, asked, modal>>

Resolved == {k \in DOMAIN queue : queue[k] # "pending"}
Oldest   == {k \in DOMAIN queue \ Resolved : \A j \in DOMAIN queue \ Resolved : k <= j}

Answer(state) ==
    /\ \E k \in Oldest : queue' = [queue EXCEPT ![k] = state]
    /\ UNCHANGED <<rows, nextId, screen, asked, modal, steps>>

OtherClient ==
    /\ Counted
    /\ queue' = Append(queue, "pending")
    /\ UNCHANGED <<rows, nextId, screen, asked, modal>>

-----------------------------------------------------------------------------
\* The refresh, suspended in move mode: the list, then the outcome of the actions.

\* recent_actions, by the time of resolution: the order of the queue, in which actions are
\* resolved, unless the clock is set back.
Recent == {k \in Resolved : Cardinality({j \in Resolved : j > k}) < RecentLimit}

\* Mutant: only success is taken off the list.
SuccessKnown == {k \in Range(tracked) \cap Recent : queue[k] = "done"}

Known == Range(tracked) \cap Recent

\* Those that are known go, the rest stays in its order.
Forget ==
    LET kept == {i \in DOMAIN tracked : tracked[i] \notin Known}
    IN  tracked' = [k \in 1..Cardinality(kept) |-> tracked[Nth(kept, k)]]

\* Mutant: the oldest failure is shown.
FirstFailure == {k \in Known : queue[k] = "failed"
                              /\ \A j \in Known : queue[j] = "failed" => k <= j}

\* Of several failures the newest is shown.
NewestFailure == {k \in Known : queue[k] = "failed"
                               /\ \A j \in Known : queue[j] = "failed" => k >= j}

\* poll_action_resolutions
Poll ==
    /\ Forget
    /\ notice' \in IF NewestFailure = {} THEN {notice}
                   ELSE {[says |-> "failed", of |-> k] : k \in NewestFailure}
    /\ told' = told \cup NewestFailure
    /\ UNCHANGED <<last, own, dropped>>

\* An error of either reading ends the session, like its exit, and is left out.
Refresh ==
    /\ mode # "move"
    /\ Rebuild(Listed(rows), opts)
    /\ Poll
    /\ start' = IF Range(start) \subseteq VisibleIds' THEN start ELSE <<>>
    /\ UNCHANGED <<db, mode, move, steps>>

-----------------------------------------------------------------------------
\* Keys that change the view.

Key(m)   == mode = m
Leave(m) == mode' = m /\ start' = <<>> /\ UNCHANGED move

\* move_selection
MoveCursor(delta) ==
    /\ Key("list") /\ view # <<>>
    /\ sel' \in {i \in DOMAIN view : i = sel + delta}
    /\ UNCHANGED <<db, tasks, view, opts, asked, modal, steps>>

Show(o) == /\ Key("list") /\ Rebuild(tasks, o)
           /\ UNCHANGED <<db, asked, modal>>

CycleFilter   == Counted /\ Show([opts EXCEPT !.filter = After(Filters, @)])
CycleGroup    == Counted /\ Show([opts EXCEPT !.axis = After(Axes, @)])
ToggleToday   == Counted /\ Show([opts EXCEPT !.today = ~@])
ToggleOverdue == Counted /\ Show([opts EXCEPT !.overdue = ~@])
ToggleBoard   == Counted /\ Show([opts EXCEPT !.board = ~@])

\* The header above row i, none in an empty list.
HeaderOf(i) ==
    {h \in 1..i : view[h].is = "header" /\ \A k \in (h + 1)..i : view[k].is # "header"}

\* toggle_at_cursor.  On a task only folding has an effect: on the group it is in.
FoldGroup(open) ==
    /\ Counted
    /\ open => ~OnTask(view, sel)
    /\ sel # 0 /\ view[sel].is # "lane"
    /\ \E h \in HeaderOf(sel) :
          Show([opts EXCEPT !.expanded = IF open THEN @ \cup {view[h].key}
                                                 ELSE @ \ {view[h].key}])

FoldLane(open) ==
    /\ Counted
    /\ sel # 0 /\ view[sel].is = "lane"
    /\ Show([opts EXCEPT !.folded = IF open THEN @ \ {view[sel].key} ELSE @ \cup {view[sel].key}])

HeadersShown == {view[i].key : i \in {k \in DOMAIN view : view[k].is = "header"}}

ExpandAll   == Show([opts EXCEPT !.expanded = @ \cup HeadersShown]) /\ UNCHANGED steps
CollapseAll == Counted /\ Show([opts EXCEPT !.expanded = {}])

\* The prompts: every key searches again; Esc clears the query, Enter keeps it.
StartSearch ==
    /\ Key("list") /\ Counted /\ \E m \in {"search", "file search"} : Leave(m)
    /\ UNCHANGED <<db, screen, asked>>

EditQuery ==
    /\ \/ Key("search") /\ \E q \in Queries \ {opts.query} : Rebuild(tasks, [opts EXCEPT !.query = q])
       \/ Key("file search") /\ \E q \in FileQueries \ {opts.fileQuery} :
             Rebuild(tasks, [opts EXCEPT !.fileQuery = q])
    /\ UNCHANGED <<db, asked, modal, steps>>

ClearSearch ==
    /\ Leave("list")
    /\ \/ /\ Key("search") /\ opts.query # NoQuery
          /\ Rebuild(tasks, [opts EXCEPT !.query = NoQuery])
       \/ /\ Key("file search") /\ opts.fileQuery # NoQuery
          /\ Rebuild(tasks, [opts EXCEPT !.fileQuery = NoQuery])
    /\ UNCHANGED <<db, asked, steps>>

\* Enter in a prompt, Esc in an empty one or in a modal, an enqueue there that fails.
Close ==
    /\ mode \in Modes \ {"list", "move"} /\ Leave("list")
    /\ UNCHANGED <<db, screen, asked, steps>>

-----------------------------------------------------------------------------
\* Enqueuing.

\* Mutant: one too many.
OneMore(s) == IF Len(s) > TrackCap + 1 THEN Tail(s) ELSE s

\* track_enqueued
Latest(s) == IF Len(s) > TrackCap THEN SubSeq(s, Len(s) - TrackCap + 1, Len(s)) ELSE s

Enqueue(a) ==
    LET id == Len(queue) + 1
        to == Latest(Append(tracked, id))
    IN  /\ queue' = Append(queue, "pending") /\ sent' = {a}
        /\ own' = own \cup {id}
        /\ tracked' = to
        /\ dropped' = dropped \cup ((Range(tracked) \cup {id}) \ Range(to))
        /\ UNCHANGED <<rows, nextId, screen, told>>

\* A gesture on the list that can be taken back, and one that cannot.
Ask(a)     == Key("list") /\ Counted /\ Enqueue(a) /\ notice' = Says("nothing") /\ UNCHANGED modal
AskOnce(a) == Ask(a) /\ UNCHANGED last

\* A key that only tells why it does nothing.
Refuse(why) ==
    /\ Counted
    /\ notice' = Says(why)
    /\ UNCHANGED <<db, screen, modal, last, tracked, own, told, dropped>>

\* toggle_target_char, cancel_target_char, in_progress_target_char, lane_target_char
ToggleTarget(char)     == IF char = " " THEN "x" ELSE " "
CancelTarget(char)     == IF char = "-" THEN " " ELSE "-"
InProgressTarget(char) == IF char = "/" THEN " " ELSE "/"
LaneTargets(char) ==
    {Lanes[i] : i \in {k \in DOMAIN Lanes :
                          \E j \in {k - 1, k + 1} \cap DOMAIN Lanes : Lanes[j] = LaneOf(char)}}

Flip ==
    \E r \in Selected :
       \E char \in {ToggleTarget(r.char), CancelTarget(r.char), InProgressTarget(r.char)}
                   \cup LaneTargets(r.char) :
          LET a == [ActionOn(r, "checkbox") EXCEPT !.expected = r.char, !.new = char]
          IN  Ask(a) /\ last' = {a}

ToggleBullet ==
    \E r \in Selected : LET a == ActionOn(r, "toggle_bullet")
                        IN  Ask(a) /\ last' = {a}

\* submit_set_scheduled
MarkForToday ==
    \E r \in Selected :
       AskOnce([ActionOn(r, "set_scheduled") EXCEPT
                  !.want = IF r.text.sched = Today THEN NoDate ELSE Today])

\* submit_undo: the last action stays what it is.
Undo == \E a \in last : \E b \in Reversals(a) : AskOnce(b)

-----------------------------------------------------------------------------
\* The modals.

StartQuickAdd ==
    /\ Key("list") /\ Counted /\ Leave("quick add")
    /\ UNCHANGED <<db, screen, asked>>

SubmitQuickAdd ==
    /\ Key("quick add") /\ Leave("list")
    /\ \E a \in QuickAddRequests : Enqueue(a) /\ last' = {a}
    /\ notice' = Says("nothing") /\ UNCHANGED steps

StartNote ==
    /\ Key("list") /\ Counted
    /\ \E r \in Selected : start' = <<r.id>>
    /\ mode' = "add note"
    /\ UNCHANGED <<db, screen, asked, move>>

\* The note goes to the task that is selected now.
SubmitNote ==
    /\ Key("add note") /\ Leave("list")
    /\ \E r \in Selected : \E a \in NoteRequests(r) : Enqueue(a)
    /\ notice' = Says("nothing") /\ UNCHANGED <<last, steps>>

-----------------------------------------------------------------------------
\* Move mode.

\* group_task_row_range: the rows of tasks around the cursor.
Run == {i \in DOMAIN view :
          \A k \in (IF i < sel THEN i..sel ELSE sel..i) : OnTask(view, k)}

RunTasks == [k \in 1..Cardinality(Run) |-> view[Nth(Run, k)].task]
RunIds   == [k \in DOMAIN RunTasks |-> RunTasks[k].id]
RunLines == [k \in DOMAIN RunTasks |-> RunTasks[k].line]

\* Why the selected task cannot be moved.
MoveRefusals(r) ==
    IF opts.board THEN {"not on the board"}
    ELSE IF \E i \in Run : view[i].task.note # r.note THEN {"one note only"}
    ELSE IF \E q \in RowsOf(Range(tasks), r.note) : q.indent # 0 THEN {"flat lists only"}
    ELSE {}

RefuseMove ==
    /\ Key("list")
    /\ \E r \in Selected : \E why \in MoveRefusals(r) : Refuse(why)

\* Mutant: the group may be of several notes.
StartMoveAnywhere ==
    /\ Key("list") /\ Counted
    /\ \E r \in Selected : /\ MoveRefusals(r) \subseteq {"one note only"}
                           /\ move' = [id |-> r.id, order |-> RunIds]
    /\ mode' = "move" /\ start' = view
    /\ UNCHANGED <<db, screen, asked>>

StartMove ==
    /\ Key("list") /\ Counted
    /\ \E r \in Selected : /\ MoveRefusals(r) = {}
                           /\ move' = [id |-> r.id, order |-> RunIds]
    /\ mode' = "move" /\ start' = view
    /\ UNCHANGED <<db, screen, asked>>

MoveTask(delta) ==
    /\ Key("move") /\ sel + delta \in Run
    /\ view' = [view EXCEPT ![sel] = view[sel + delta], ![sel + delta] = view[sel]]
    /\ sel' = sel + delta
    /\ UNCHANGED <<db, tasks, opts, asked, modal, steps>>

StopMoving == mode' = "list" /\ move' = Still /\ start' = <<>>

\* The lines in the order the tasks are shown in.
CommitMove ==
    /\ Key("move") /\ StopMoving
    /\ RunIds # move.order
    /\ \E r \in Selected :
          Enqueue([ActionOn(r, "reorder") EXCEPT !.lines = RunLines,
                                                 !.base = r.hash])
    /\ notice' = Says("nothing") /\ UNCHANGED <<last, steps>>

\* Nothing to commit, or the enqueue fails: the list stays as it is shown.
EndMove ==
    /\ Key("move") /\ StopMoving
    /\ UNCHANGED <<db, screen, asked, steps>>

\* Mutant: the cursor stays at its row.
CancelInPlace ==
    /\ Key("move") /\ StopMoving
    /\ view' = [i \in DOMAIN view |->
                  IF i \notin Run THEN view[i]
                  ELSE CHOOSE row \in {view[k] : k \in Run} :
                          row.task.id = move.order[Rank(Run, i) + 1]]
    /\ UNCHANGED <<db, tasks, opts, asked, steps, sel>>

\* Back to the order at the start, the cursor on the task.
CancelMove ==
    /\ Key("move") /\ StopMoving
    /\ view' = [i \in DOMAIN view |->
                  IF i \notin Run THEN view[i]
                  ELSE CHOOSE row \in {view[k] : k \in Run} :
                          row.task.id = move.order[Rank(Run, i) + 1]]
    /\ sel' = Nth({i \in DOMAIN view' : OnTask(view', i) /\ view'[i].task.id = move.id}, 1)
    /\ UNCHANGED <<db, tasks, opts, asked, steps>>

-----------------------------------------------------------------------------
\* archive_completed: all closed tasks of the selected task's note, whatever is shown.

ArchiveRefusals(r) ==
    IF ~AllFlat(Range(tasks), r.note) THEN {"flat lists only"}
    ELSE IF \A q \in RowsOf(Range(tasks), r.note) : ~IsClosed(q.char) THEN {"nothing to archive"}
    ELSE IF r.note = Archive THEN {"this is the archive"}
    ELSE {}

RefuseArchive ==
    /\ Key("list")
    /\ \E r \in Selected : \E why \in ArchiveRefusals(r) : Refuse(why)

ArchiveCompleted ==
    /\ Key("list") /\ Counted
    /\ \E r \in Selected :
          /\ ArchiveRefusals(r) = {}
          /\ LET closed == {q \in RowsOf(Range(tasks), r.note) : IsClosed(q.char)}
                 first  == CHOOSE q \in closed : \A p \in closed : q.line <= p.line
             IN  Enqueue([ActionOn(first, "archive") EXCEPT
                            !.lines = InOrder({q.line : q \in closed}), !.base = first.hash])
    /\ notice' = Says("archiving")
    /\ UNCHANGED <<last, modal>>

-----------------------------------------------------------------------------
Environment == (\E n \in Notes : Scan(n)) \/ Answer("done") \/ Answer("failed") \/ OtherClient

ViewKeys == \/ MoveCursor(-1) \/ MoveCursor(1)
            \/ CycleFilter \/ CycleGroup \/ ToggleToday \/ ToggleOverdue \/ ToggleBoard
            \/ \E open \in BOOLEAN : FoldGroup(open) \/ FoldLane(open)
            \/ ExpandAll \/ CollapseAll
            \/ StartSearch \/ EditQuery \/ ClearSearch

ModalKeys == \/ StartQuickAdd \/ StartNote \/ Close
             \/ StartMove \/ RefuseMove \/ MoveTask(-1) \/ MoveTask(1) \/ EndMove \/ CancelMove
             \/ RefuseArchive

Asking == \/ Flip \/ ToggleBullet \/ MarkForToday \/ Undo
          \/ SubmitQuickAdd \/ SubmitNote \/ CommitMove \/ ArchiveCompleted

Next == \/ (Environment \/ Refresh \/ ViewKeys \/ ModalKeys) /\ sent' = {}
        \/ Asking

Spec == Init /\ [][Next]_vars

\* The loop refreshes again and again while it runs, whatever keys come in between, but in
\* move mode.  Said of what a refresh alone does: to forget what is resolved.
FairSpec == Spec /\ WF_tracked(mode # "move" /\ Forget)
=============================================================================
