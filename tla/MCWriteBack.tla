----------------------------- MODULE MCWriteBack -----------------------------
(***************************************************************************)
(* Small vaults for the model checker: one note for the one-line actions,  *)
(* a note and its archive for the bulk actions.  Each editor content is    *)
(* there for what it does to an action already enqueued.                   *)
(***************************************************************************)
EXTENDS WriteBackProperties, Samples, TLC

CONSTANTS A, B, C,       \* the descriptions of tasks
          inbox, done,   \* notes
          today, yesterday, tui,   \* days and a client
          l1, l2         \* ids of task notes

Bullet(name) == Line1("bullet", NoChar, name)
Plain        == Line1("plain", NoChar, A)
Fence        == Line1("fence", NoChar, A)
Skip         == Line1("skip", NoChar, A)
Dated(name)  == [Closed(name) EXCEPT !.text.done = today]
Garbled(name) == [Open(name) EXCEPT !.text.sched = BadDate, !.text.done = BadDate]

\* Two tasks.  The editor swaps them and pastes the first once more.
TwoTasks       == inbox :> <<Open(A), Open(B)>>
TwoTasksEdited == inbox :> {<<Open(B), Open(A), Open(A)>>}

\* A task and a line with dates the rewrites refuse.  The editor opts the note out,
\* puts the first task in a code block or turns it into a bullet, next to a task
\* that is closed with a date.
OddLines       == inbox :> <<Open(A), Garbled(B)>>
OddLinesEdited == inbox :> {<<Skip, Open(A)>>, <<Fence, Open(A), Fence>>, <<Bullet(A), Dated(B)>>}

\* The editor deletes the first task, or rewords it.
Reworded == inbox :> {<<Open(C), Open(B)>>, <<Open(B)>>}

\* A note and its archive, which the editor may create before the first move does.
Bulk       == inbox :> <<Closed(A), Plain, Open(B), Cancelled(C)>> @@ done :> Missing
BulkEdited == inbox :> {<<Open(B), Closed(C), Plain, Closed(A)>>} @@ done :> {<<Open(A)>>}
BulkNoEdit == inbox :> {} @@ done :> {}

\* The line of a task note with its heading, and the one after it.
Jotted == <<Blank, Section, Blank, Heading(l1), NoteBullet(B), Heading(NoLink)>>

\* A line that ends with the line of a task.
Behind(line) == [line EXCEPT !.kind = "plain"]

\* An inbox with notes but no task that links to them, yesterday's task at its end, and an
\* archive not there yet.  The editor swaps the tasks and links one to the notes, with one
\* pasted once more or an indented line as quick add adds it below; deletes the inbox; or
\* opts it out and leaves such a line next to one where it stands behind a text.
Captured       == inbox :> <<Open(A), NewTask(C, yesterday)>> \o Jotted @@ done :> Missing
CapturedEdited == inbox :> {<<NewTask(C, yesterday), Linked(Open(A), l1), l>> \o Jotted :
                              l \in {NewTask(C, yesterday), [NewTask(C, today) EXCEPT !.indent = 1]}}
                           \cup
                           {Missing,
                            <<Skip, NewTask(C, today), Behind(NewTask(C, today)), Section>>}
                  @@ done :> {}

\* A task from the keyboard, and an inbox the editor writes it into itself.
OneTask          == inbox :> <<Open(A)>>
OneTaskRewritten == inbox :> {<<Open(B), NewTask(C, today)>>}

\* Daemons that fail only by being killed.
KilledNext == Client \/ Editor \/ User \/ Crash \/ Daemon \/ Watcher
KilledSpec == Init /\ [][KilledNext]_vars
=============================================================================
