------------------------------ MODULE TaskLine ------------------------------
(***************************************************************************)
(* One line of a Markdown note and the pure line rewrites of taski-core    *)
(* that the daemon splices into a note: the checkbox flip with its done    *)
(* and cancelled stamps, the scheduled-date rewrite and the bullet toggle. *)
(*                                                                         *)
(* A line is a record.  Its text stands for the body after the checkbox,   *)
(* dates included: it is exactly what text_hash is computed from.  A name  *)
(* stands for all of the text that no rewrite touches, a link for the      *)
(* [[#notes-<id>|Notes]] in it.  A date token is a day, NoDate (the emoji  *)
(* is absent) or BadDate (the emoji is malformed or occurs more than once, *)
(* the cases in which the code refuses to guess).                          *)
(***************************************************************************)
EXTENDS Naturals

CONSTANTS Names,    \* the descriptions a line can carry; none begins with a bracket
          NoName,   \* the description of a line that is only structure
          Links,    \* the ids of notes attached to tasks
          NoLink,
          Days,     \* calendar dates
          NoDate, BadDate,
          NoChar    \* the "checkbox char" of a line without a checkbox

Token == Days \cup {NoDate, BadDate}

ASSUME TokenAssumption == /\ NoDate # BadDate
                          /\ NoDate \notin Days
                          /\ BadDate \notin Days

\* The checkbox characters taski reads and writes: open, done, in progress,
\* cancelled, blocked.
Chars == {" ", "x", "X", "/", "-", "!"}

Kinds == {"task", "bullet", "plain", "fence", "skip", "blank", "section", "loose", "heading"}

Text == [name : Names \cup {NoName}, link : Links \cup {NoLink},
         sched : Token, done : Token, cancelled : Token, added : Token]

\* A task line carries a checkbox; a bullet is the same line without one; a
\* fence opens or closes a code block; "skip" stands for a frontmatter block
\* that sets taski-skip; "section" is the line "## task-notes", "loose" the same
\* with blanks after it; "heading" is the line "### notes-<link>", or without a
\* link any other line that begins with #; "plain" is every other line.
Line == [kind : Kinds, indent : Nat, char : Chars \cup {NoChar}, text : Text]

Saying(name) == [name |-> name, link |-> NoLink, sched |-> NoDate, done |-> NoDate,
                 cancelled |-> NoDate, added |-> NoDate]

-----------------------------------------------------------------------------

IsDone(char) == char \in {"x", "X"}
IsCancelled(char) == char = "-"
IsClosed(char) == IsDone(char) \/ IsCancelled(char)

\* rewrite_emoji_date refuses a malformed token; from any other it gets to the
\* date it is asked for.
Clean(token) == token # BadDate

\* A flip to done, cancelled or open also rewrites both stamps, so both must be
\* clean; a flip to any other char leaves them alone.
Stamps(char) == IsClosed(char) \/ char = " "

Flippable(line, char) ==
    Stamps(char) => Clean(line.text.done) /\ Clean(line.text.cancelled)

\* Mutant: closing a task one way leaves the stamp of the other.
FlippedOneStamp(line, char, today) ==
    [line EXCEPT !.char = char,
                 !.text.done      = IF IsDone(char) THEN today ELSE @,
                 !.text.cancelled = IF IsCancelled(char) THEN today ELSE @]

Flipped(line, char, today) ==
    LET stamped == [line.text EXCEPT
                      !.done      = IF IsDone(char) THEN today ELSE NoDate,
                      !.cancelled = IF IsCancelled(char) THEN today ELSE NoDate]
    IN  [line EXCEPT !.char = char,
                     !.text = IF Stamps(char) THEN stamped ELSE @]

\* The wished date is validated as well: a malformed one is never written.
Schedulable(line, want) == Clean(line.text.sched) /\ Clean(want)

Scheduled(line, want) == [line EXCEPT !.text.sched = want]

\* Checkbox to bullet drops the checkbox, whatever its char; bullet to checkbox
\* always adds an open one.
Toggleable(line) == line.kind \in {"task", "bullet"}

Toggled(line) ==
    IF line.kind = "task" THEN [line EXCEPT !.kind = "bullet", !.char = NoChar]
                          ELSE [line EXCEPT !.kind = "task", !.char = " "]

-----------------------------------------------------------------------------
\* The lines taski writes itself.

\* inbox_line_for: the task quick add makes of what is typed.
NewTask(name, today) == [kind |-> "task", indent |-> 0, char |-> " ",
                         text |-> [Saying(name) EXCEPT !.added = today]]

\* note_bullet_for: whatever is typed, a note is no task.
NoteBullet(name) == [kind |-> "bullet", indent |-> 0, char |-> NoChar, text |-> Saying(name)]

\* insert_notes_link goes before the dates: the description changes, they do not.
Linked(line, id) == [line EXCEPT !.text.link = id]

Marker(kind, id) == [kind |-> kind, indent |-> 0, char |-> NoChar,
                     text |-> [Saying(NoName) EXCEPT !.link = id]]

Blank       == Marker("blank", NoLink)
Remainder   == Marker("plain", NoLink)   \* what is left of a line cut short
Section     == Marker("section", NoLink)
Heading(id) == Marker("heading", id)
=============================================================================
