----------------------------- MODULE TaskIndex -----------------------------
(***************************************************************************)
(* The tasks table and its reconciliation with a freshly parsed note.      *)
(* A row keeps its id across a re-scan when a task with the same text is   *)
(* still in the note; equal texts are matched first-in first-out in line   *)
(* order.  The note_hash column is modelled as the contents it was         *)
(* computed from: two different contents never share a hash.               *)
(***************************************************************************)
EXTENDS NoteText

CONSTANT Notes    \* the paths of the vault's notes

Row == [id : Nat \ {0}, note : Notes, line : Nat \ {0}, indent : Nat,
        char : Chars \cup {NoChar}, text : Text, hash : Contents]

RowsOf(rows, n)  == {r \in rows : r.note = n}
LinesOf(rows, n) == {r.line : r \in RowsOf(rows, n)}

\* The rows of a note are the tasks of one content it had, all of them, each with the
\* line, char, text and indent it had there; an id names one row.
Snapshot(rows, next) ==
    /\ \A r \in rows :
         /\ r.id < next
         /\ r.line \in IndexedLines(r.hash)
         /\ LET l == r.hash[r.line]
            IN  r.char = l.char /\ r.text = l.text /\ r.indent = l.indent
         /\ IndexedLines(r.hash) = LinesOf(rows, r.note)
    /\ \A r, q \in rows :
         /\ r.id = q.id => r = q
         /\ r.note = q.note => r.hash = q.hash /\ (r.line = q.line => r = q)

-----------------------------------------------------------------------------

\* The place of a row, and of a line, among those of the same note and text.
RowRank(rows, r) ==
    Cardinality({q \in rows : q.note = r.note /\ q.text = r.text /\ q.line < r.line})

LineRank(c, i) == Rank({j \in IndexedLines(c) : c[j].text = c[i].text}, i)

\* Mutant: rows are matched by their place.
MatchByLine(rows, n, c, i) == {r \in RowsOf(rows, n) : r.line = i}

\* The old row that line i of the new contents c of note n is matched with: a
\* set of at most one row.
Match(rows, n, c, i) ==
    {r \in RowsOf(rows, n) : r.text = c[i].text /\ RowRank(rows, r) = LineRank(c, i)}

\* The lines that get a new id, in line order, from the table's AUTOINCREMENT.
Inserted(rows, n, c) == {i \in IndexedLines(c) : Match(rows, n, c, i) = {}}

IdAt(rows, next, n, c, i) ==
    IF i \in Inserted(rows, n, c)
    THEN next + Rank(Inserted(rows, n, c), i)
    ELSE (CHOOSE r \in Match(rows, n, c, i) : TRUE).id

RowAt(rows, next, n, c, i) ==
    [id   |-> IdAt(rows, next, n, c, i), note |-> n, line |-> i,
     indent |-> c[i].indent, char |-> c[i].char, text |-> c[i].text, hash |-> c]

\* Mutant: the rows that no line matches are left in the table.
ReconciledWithoutDelete(rows, next, n, c) ==
    {r \in rows : r.note = n => \A i \in IndexedLines(c) : r \notin Match(rows, n, c, i)}
    \cup {RowAt(rows, next, n, c, i) : i \in IndexedLines(c)}

\* reconcile_note: matched rows are updated in place, unmatched old rows are
\* deleted, unmatched tasks are inserted, all in one transaction.
Reconciled(rows, next, n, c) ==
    (rows \ RowsOf(rows, n)) \cup {RowAt(rows, next, n, c, i) : i \in IndexedLines(c)}

NextId(rows, next, n, c) == next + Cardinality(Inserted(rows, n, c))
=============================================================================
