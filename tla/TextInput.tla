----------------------------- MODULE TextInput -----------------------------
(***************************************************************************)
(* The line of text typed into the dialogs of the TUI, quick add and task  *)
(* note: the keys that edit it, and how it is shown, soft-wrapped, with    *)
(* the cursor in it.  Characters are one or two columns wide, or none.     *)
(***************************************************************************)
EXTENDS Integers, SequencesExt

CONSTANTS Keyboard,    \* the characters that are typed
          WidthOf,     \* the columns of a character
          Width,       \* the columns of the dialog
          MaxRows,     \* the rows there is room for
          MaxLength    \* bound on the text

ASSUME InputAssumption ==
    /\ WidthOf \in [Keyboard -> 0..2] /\ " " \in Keyboard
    /\ Width \in Nat \ {0, 1} /\ MaxRows \in Nat \ {0} /\ MaxLength \in Nat

VARIABLES text, cursor    \* the cursor is after that many characters

input == <<text, cursor>>

Columns(s) == FoldLeft(LAMBDA n, c : n + WidthOf[c], 0, s)

-----------------------------------------------------------------------------
\* How it is shown.  Rows and columns are counted from 0.

\* The i-th character goes to the next row.
Wraps(used, i) == used + WidthOf[text[i]] > Width /\ used > 0

\* The columns taken on their row by the last of the first i characters and those before it.
Filled[i \in 0..Len(text)] ==
    IF i = 0 THEN 0
    ELSE LET before == Filled[i - 1] IN WidthOf[text[i]] + IF Wraps(before, i) THEN 0 ELSE before

\* The places before the first character of each row.
RowStarts == {0} \cup {i \in 1..(Len(text) - 1) : Wraps(Filled[i], i + 1)}
Rows      == Cardinality(RowStarts)
RowOf(i)  == Cardinality(RowStarts \cap 0..i) - 1
ColumnOf(i) == Columns(SubSeq(text, Max(RowStarts \cap 0..i) + 1, i))

\* Mutant: the column may be past the last.
UnwrappedPos(i) == <<RowOf(i), ColumnOf(i)>>

\* cursor_pos: after a full last row it is on the next.
CursorPos(i) == IF ColumnOf(i) >= Width THEN <<RowOf(i) + 1, 0>> ELSE <<RowOf(i), ColumnOf(i)>>

\* draw_input_dialog: as many rows as are needed, three at least, if there is room for them.
Shown(row) == Min({MaxRows, Max({3, row + 1, Rows})})
Top(row)   == Max({0, row + 1 - Shown(row)})

-----------------------------------------------------------------------------
\* The keys.

Insert(c) ==
    /\ Len(text) < MaxLength
    /\ text' = InsertAt(text, cursor + 1, c) /\ cursor' = cursor + 1

DeleteFrom(from, to) ==
    /\ text' = SubSeq(text, 1, from) \o SubSeq(text, to + 1, Len(text))
    /\ cursor' = from

\* Before the word that ends at the cursor or left of it.
WordStart == LET end == Max({0} \cup {i \in 1..cursor : text[i] # " "})
             IN  Max({0} \cup {i \in 1..end : text[i] = " "})

KillWord   == DeleteFrom(WordStart, cursor)
KillBefore == DeleteFrom(0, cursor)
KillAfter  == DeleteFrom(cursor, Len(text))
Backspace  == cursor > 0 /\ DeleteFrom(cursor - 1, cursor)
Delete     == cursor < Len(text) /\ DeleteFrom(cursor, cursor + 1)

\* Mutant: past the end of the text.
GoAnywhere(i) == cursor' = i /\ UNCHANGED text

GoTo(i) == cursor' = Min({Max({0, i}), Len(text)}) /\ UNCHANGED text

RowStart(row) == CHOOSE i \in RowStarts : RowOf(i) = row

\* Mutant: the end of a row is the start of the next.
RowEndNext(row) == IF row + 1 < Rows THEN RowStart(row + 1) ELSE Len(text)

RowEnd(row) == IF row + 1 < Rows THEN RowStart(row + 1) - 1 ELSE Len(text)

\* To the same column of the row above or below, or as far as it goes.
MoveVertical(delta) ==
    LET row == CursorPos(cursor)[1] + delta
        fits(i) == Columns(SubSeq(text, RowStart(row) + 1, i)) <= CursorPos(cursor)[2]
    IN  /\ row \in 0..(Rows - 1)
        /\ GoTo(Max({i \in RowStart(row)..RowEnd(row) : fits(i)}))

\* edit_input
Edit == \/ \E c \in Keyboard : Insert(c)
        \/ KillWord \/ KillBefore \/ KillAfter \/ Backspace \/ Delete
        \/ \E i \in {0, cursor - 1, cursor + 1, Len(text)} : GoTo(i)
        \/ MoveVertical(-1) \/ MoveVertical(1)
=============================================================================
