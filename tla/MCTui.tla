------------------------------- MODULE MCTui -------------------------------
(***************************************************************************)
(* A small vault for the TUI: an inbox and an archive with the same file   *)
(* name in two folders, and a task with two tags.                          *)
(***************************************************************************)
EXTENDS TuiProperties, Samples, TLC

CONSTANTS A, B, C,                 \* the descriptions of tasks
          inbox, done,             \* notes
          tasksmd, root, folder,   \* their file name and their folders
          home, work, untagged,    \* tags
          high, unranked,          \* priorities
          today, yesterday,
          someB, someDone          \* searches

TheKeys         == {inbox, done, tasksmd, home, work, untagged, high, unranked, root, folder}
InThisOrder     == <<untagged, high, unranked, root, folder, home, inbox, done, tasksmd, work>>
HighFirst       == <<high, unranked>>
TheFiles        == inbox :> tasksmd @@ done :> tasksmd
TheFolders      == inbox :> root @@ done :> folder
TheTags         == A :> {home, work} @@ B :> {work} @@ C :> {}
ThePriorities   == A :> unranked @@ B :> high @@ C :> high
DueDates        == A :> yesterday @@ B :> today @@ C :> NoDate
FoundByText     == NoQuery :> {A, B, C} @@ someB :> {B}
FoundByFile     == NoQuery :> {inbox, done} @@ someDone :> {done}

\* The inbox has two open tasks and a done one.  The daemon finds a task flipped and the
\* open ones swapped, or gone.  The tasks of the archive are closed, and one is nested.
Inbox1 == <<Open(A), Open(B), Closed(C)>>
Inbox2 == <<Open(B), Closed(A)>>
Inbox3 == <<Closed(C)>>
Done1  == <<Closed(B), [Nested(A) EXCEPT !.char = "-"]>>

FirstRows == LET first == Reconciled({}, 1, inbox, Inbox1)
             IN  Reconciled(first, NextId({}, 1, inbox, Inbox1), done, Done1)
Later     == inbox :> {Inbox2, Inbox3} @@ done :> {}
=============================================================================
