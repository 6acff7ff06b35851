------------------------------ MODULE TaskView ------------------------------
(***************************************************************************)
(* The list on the screen of the TUI, a function of the tasks it last read *)
(* and of the view options: filters, grouping, the kanban board and what   *)
(* is folded; and where the cursor goes when the list is built anew.       *)
(*                                                                         *)
(* What the view reads from a task's text or path is given by tables on    *)
(* names and notes.  A group is identified by a pair: where it is, on the  *)
(* list or in a lane of the board, and its key.                            *)
(***************************************************************************)
EXTENDS Requests

CONSTANTS Past,              \* the dates before today
          Keys,              \* note paths, file names, folders, tags and priorities
          Alphabetical,      \* all keys in alphabetical order
          ByImportance,      \* the keys for priorities in their order
          Untagged,
          FileOf, FolderOf,  \* the file name and the folder of a note
          TagsOf, PriorityOf, DueOf,      \* metadata in the description of a task
          Queries, NoQuery, Matching,     \* text searches and the names they match
          FileQueries, FilesMatching      \* file searches and the notes they match

ASSUME ViewAssumption ==
    /\ Past \in SUBSET (Days \ {Today})
    /\ Notes \in SUBSET Keys /\ Untagged \in Keys
    /\ Alphabetical \in Seq(Keys) /\ ByImportance \in Seq(Keys)
    /\ IsInjective(Alphabetical) /\ IsInjective(ByImportance)
    /\ Range(Alphabetical) = Keys
    /\ FileOf \in [Notes -> Keys] /\ FolderOf \in [Notes -> Keys]
    /\ TagsOf \in [Names -> SUBSET Keys] /\ PriorityOf \in [Names -> Range(ByImportance)]
    /\ DueOf \in [Names -> Days \cup {NoDate}]
    /\ NoQuery \in Queries /\ Matching \in [Queries -> SUBSET Names]
    /\ NoQuery \in FileQueries /\ FilesMatching \in [FileQueries -> SUBSET Notes]

Filters == <<"all", "open", "done">>
Axes    == <<"folder+note", "note", "tag", "priority", "folder">>
Lanes   == <<"/", "!", " ", "x">>
Scopes  == {"list"} \cup Range(Lanes)

Options == [filter : Range(Filters), today : BOOLEAN, overdue : BOOLEAN,
            query : Queries, fileQuery : FileQueries, axis : Range(Axes), board : BOOLEAN,
            expanded : SUBSET (Scopes \X Keys), folded : SUBSET Range(Lanes)]

Number(s, x) == CHOOSE i \in DOMAIN s : s[i] = x

\* The element after x, the first one after the last.
After(s, x) == s[(Number(s, x) % Len(s)) + 1]

-----------------------------------------------------------------------------
\* Things in the order of their places.  A place is a triple of numbers, the first one
\* counting most.

Before(p, q) == \/ p[1] < q[1]
                \/ p[1] = q[1] /\ p[2] < q[2]
                \/ p[1] = q[1] /\ p[2] = q[2] /\ p[3] < q[3]

\* The thing at number k, of a set of pairs of a place and a thing.
PlacedAt(placed, k) ==
    CHOOSE p \in placed : Cardinality({q \in placed : Before(q[1], p[1])}) = k - 1

Arranged(placed) == [k \in 1..Cardinality(placed) |-> PlacedAt(placed, k)[2]]

\* all_tasks: by note, then by line.
Listed(rows) == Arranged({<<<<0, Number(Alphabetical, r.note), r.line>>, r>> : r \in rows})

-----------------------------------------------------------------------------
\* Filters and groups.

IsOpenLike(char) == char \in {" ", "/", "!"}

Shows(filter, char) == CASE filter = "all"  -> TRUE
                         [] filter = "open" -> IsOpenLike(char)
                         [] filter = "done" -> IsDone(char)

Dates(r) == {r.text.sched, DueOf[r.text.name]}

Passes(r, o) == /\ Shows(o.filter, r.char)
                /\ o.today => Today \in Dates(r)
                /\ o.overdue => Dates(r) \cap Past # {}
                /\ o.query # NoQuery => r.text.name \in Matching[o.query]
                /\ o.fileQuery # NoQuery => r.note \in FilesMatching[o.fileQuery]

\* group_keys: a task is in the group of each of its tags, and in one on the other axes.
GroupKeys(r, axis) ==
    CASE axis = "folder+note" -> {r.note}
      [] axis = "note"        -> {FileOf[r.note]}
      [] axis = "tag"         -> IF TagsOf[r.text.name] = {} THEN {Untagged}
                                                             ELSE TagsOf[r.text.name]
      [] axis = "priority"    -> {PriorityOf[r.text.name]}
      [] axis = "folder"      -> {FolderOf[r.note]}

GroupOrder(axis) == IF axis = "priority" THEN ByImportance ELSE Alphabetical

-----------------------------------------------------------------------------
\* The rows on the screen.

HeaderRow(g, group, open) ==
    [is |-> "header", key |-> g, collapsed |-> ~open, total |-> Cardinality(group),
     open |-> Cardinality({r \in group : IsOpenLike(r.char)})]
TaskRow(r)             == [is |-> "task", task |-> r]
LaneRow(ch, n, folded) == [is |-> "lane", key |-> ch, total |-> n, collapsed |-> folded]

LaneOf(char)  == IF char = "X" THEN "x" ELSE char
Columns(o)    == IF o.board THEN Lanes ELSE <<"list">>
InScope(r, s) == s \in {"list", LaneOf(r.char)}

\* Mutant: the status filter hides what is on the board.
StillFiltered(o) == o

\* build_kanban_view: the lanes are the status axis, so the status filter is off.
Filtered(o) == IF o.board THEN [o EXCEPT !.filter = "all"] ELSE o

\* build_view: the tasks of a group, and those of them the filters let pass, by their
\* numbers in the list.
Members(tasks, o, g) ==
    {i \in DOMAIN tasks : InScope(tasks[i], g[1]) /\ g[2] \in GroupKeys(tasks[i], o.axis)}
Visible(tasks, o, g) == {i \in Members(tasks, o, g) : Passes(tasks[i], Filtered(o))}

\* A group of which nothing is visible is left out.
Groups(tasks, o) ==
    UNION {{s \in Range(Columns(o)) : InScope(r, s)} \X GroupKeys(r, o.axis) :
              r \in {q \in Range(tasks) : Passes(q, Filtered(o))}}

\* A group of a folded lane is not on the screen.
Unfolded(tasks, o) == {g \in Groups(tasks, o) : g[1] \notin o.folded}

\* A lane comes before its groups, a header before its tasks.
LanePlace(o, s)    == <<Number(Columns(o), s), 0, 0>>
RowPlace(o, g, i)  == <<Number(Columns(o), g[1]), Number(GroupOrder(o.axis), g[2]), i>>

PlacedLanes(tasks, o) ==
    {<<LanePlace(o, ch),
       LaneRow(ch, Cardinality({i \in DOMAIN tasks : InScope(tasks[i], ch)}), ch \in o.folded)>> :
        ch \in {g[1] : g \in Groups(tasks, o)} \ {"list"}}

\* The counts are of the whole group, whatever the filters hide.
PlacedHeaders(tasks, o) ==
    {<<RowPlace(o, g, 0),
       HeaderRow(g, {tasks[i] : i \in Members(tasks, o, g)}, g \in o.expanded)>> :
        g \in Unfolded(tasks, o)}

PlacedTasks(tasks, o) ==
    UNION {{<<RowPlace(o, g, i), TaskRow(tasks[i])>> : i \in Visible(tasks, o, g)} :
              g \in Unfolded(tasks, o) \cap o.expanded}

\* rebuild
Screen(tasks, o) ==
    Arranged(PlacedLanes(tasks, o) \cup PlacedHeaders(tasks, o) \cup PlacedTasks(tasks, o))

-----------------------------------------------------------------------------
\* The cursor: 0 stands for none.

OnTask(view, i) == i # 0 /\ view[i].is = "task"

\* note_path: what a row is about.  On the folder+note axis a header shares it with
\* the tasks below it.
PathOf(row) == CASE row.is = "task"   -> <<"list", row.task.note>>
                 [] row.is = "header" -> row.key
                 [] row.is = "lane"   -> <<"lane", row.key>>

\* Mutant: the cursor keeps its place.
KeepPlace(view, old, i) == IF view = <<>> THEN 0
                           ELSE IF i \in DOMAIN view THEN i
                           ELSE IF i = 0 THEN 1 ELSE Len(view)

\* reconcile_view_selection: the cursor follows its task, or else stays with the note,
\* or else keeps its place as far as there is one.
Reconcile(view, old, i) ==
    LET same == {k \in DOMAIN view : /\ OnTask(old, i) /\ OnTask(view, k)
                                     /\ view[k].task.id = old[i].task.id}
        near == {k \in DOMAIN view : i # 0 /\ PathOf(view[k]) = PathOf(old[i])}
    IN  IF view = <<>> THEN 0
        ELSE IF same # {} THEN Nth(same, 1)
        ELSE IF near # {} THEN Nth(near, 1)
        ELSE IF i \in DOMAIN view THEN i
        ELSE IF i = 0 THEN 1 ELSE Len(view)
=============================================================================
