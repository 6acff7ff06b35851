----------------------------- MODULE NoteCapture -----------------------------
(***************************************************************************)
(* Where a note receives what is captured from the keyboard: a new task    *)
(* joins the task list, above the section "## task-notes" if the note has  *)
(* one; a note on a task goes to the block of that section whose heading   *)
(* the task links to.  None of this looks at code blocks.                  *)
(***************************************************************************)
EXTENDS NoteText

First(S) == Nth(S, 1)

Sections(c)     == {i \in DOMAIN c : c[i].kind = "section"}
Headings(c, id) == {i \in DOMAIN c : c[i].kind = "heading" /\ c[i].text.link = id}

-----------------------------------------------------------------------------
\* Tasks.

\* insert_offset_above_section: the place above the blank lines that separate the
\* task list from the section, the end of the note if there is no section.
TaskPlace(c) ==
    IF Sections(c) = {}
    THEN Len(c) + 1
    ELSE LET s == First(Sections(c))
         IN  First({i \in 1..s : \A j \in i..(s - 1) : c[j].kind = "blank"})

\* Mutant: a new task goes to the end of the note.
AppendTask(c, line) == Append(c, line)

WithTask(c, line) == InsertAt(c, TaskPlace(c), line)

\* ends_with: the line, indented or behind a text.  A plain line with the char and the
\* text of a task stands for one that has something before the task's own line.
EndsWith(l, line) == /\ l.kind \in {"task", "plain"}
                     /\ [l EXCEPT !.indent = 0, !.kind = "task"] = line

\* Mutant: the line is looked for everywhere.
LastSuch(c, line) == {i \in DOMAIN c : EndsWith(c[i], line)}

\* The line a quick add left there, if the text above TaskPlace still ends with it:
\* something may stand before it by now.
LastAdded(c, line) == {i \in DOMAIN c : i + 1 = TaskPlace(c) /\ EndsWith(c[i], line)}

\* The undo takes the end of the line away and leaves what stands before it: nothing,
\* an indent or a text.  That joins the next line, which is blank or the section, and
\* a section with something before it is none; at the end of the note it stays alone.
Undone(c, i) ==
    LET rest == RemoveAt(c, i)
    IN  IF c[i].kind # "plain" /\ c[i].indent = 0 THEN rest
        ELSE IF i = Len(c) THEN SetLine(c, i, IF c[i].kind = "plain" THEN Remainder ELSE Blank)
        ELSE IF c[i].kind = "plain" \/ rest[i].kind = "section" THEN SetLine(rest, i, Remainder)
        ELSE rest

-----------------------------------------------------------------------------
\* Notes on tasks.

\* has_task_notes_section, less strict than what TaskPlace looks for.
HasSection(c) == \E i \in DOMAIN c : c[i].kind \in {"section", "loose"}

\* notes_block_insert_offset: a block ends at the next line that begins with #.
BlockEnd(c, id) ==
    LET next == {i \in DOMAIN c : /\ i > First(Headings(c, id))
                                  /\ c[i].kind \in {"section", "loose", "heading"}}
    IN  IF next = {} THEN Len(c) + 1 ELSE First(next)

\* append_new_note_block
NewBlock(c, id, bullet) ==
    c \o (IF HasSection(c) THEN <<>> ELSE <<Blank, Section>>)
      \o <<Blank, Heading(id), bullet>>

\* Mutant: the bullet goes right under the section's heading.
BlockTop(c, id, bullet) ==
    IF Headings(c, id) = {} THEN NewBlock(c, id, bullet)
                            ELSE InsertAt(c, First(Sections(c)) + 1, bullet)

InBlock(c, id, bullet) ==
    IF Headings(c, id) = {} THEN NewBlock(c, id, bullet)
                            ELSE InsertAt(c, BlockEnd(c, id), bullet)

\* process_add_note: the first note on the task of line i links it to a new block,
\* the next ones go to the block it is linked to.
Noted(c, i, id, bullet) ==
    IF c[i].text.link = id
    THEN InBlock(c, id, bullet)
    ELSE NewBlock(SetLine(c, i, Linked(c[i], id)), id, bullet)
=============================================================================
