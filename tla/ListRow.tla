------------------------------ MODULE ListRow ------------------------------
(***************************************************************************)
(* How the TUI shows a task in its list: links reduced to their label, the *)
(* row wrapped to the width of the list, and the cells of the wrapped row  *)
(* that open a link.                                                       *)
(***************************************************************************)
EXTENDS Integers, SequencesExt

-----------------------------------------------------------------------------
\* split_links.  A segment is a piece of the text: where it begins, its length, whether it
\* is a link and what is shown of it.

Between(text, i, j) == SubSeq(text, i, Min({j - 1, Len(text)}))

\* Where s first occurs in the text from i on, if it does.
Find(text, i, s) ==
    LET places == {k \in i..(Len(text) - Len(s) + 1) : Between(text, k, k + Len(s)) = s}
    IN  {k \in places : \A p \in places : k <= p}

Segment(text, i, j, label, link) ==
    [at |-> i, len |-> j - i, label |-> label, link |-> link]

\* [[target]] or [[target|label]]
LabelOf(inner) == LET bar == Find(inner, 1, <<"|">>)
                  IN  IF bar = {} THEN inner ELSE Between(inner, Min(bar) + 1, Len(inner) + 1)

WikiLink(text, i) ==
    {Segment(text, i, end + 2, LabelOf(Between(text, i + 2, end)), TRUE) :
        end \in {k \in Find(text, i + 2, <<"]", "]">>) :
                    k > i + 2 /\ "[" \notin Range(Between(text, i + 2, k))}}

\* [label](url)
MarkdownLink(text, i) ==
    UNION {{Segment(text, i, end + 1, Between(text, i + 1, close), TRUE) :
               end \in {k \in Find(text, close + 2, <<")">>) :
                           /\ close > i + 1 /\ "[" \notin Range(Between(text, i + 1, close))
                           /\ Between(text, close + 1, close + 2) = <<"(">> /\ k > close + 2
                           /\ " " \notin Range(Between(text, close + 2, k))}} :
              close \in Find(text, i, <<"]">>)}

\* parse_link
ParseLink(text, i) == IF Between(text, i, i + 2) = <<"[", "[">> THEN WikiLink(text, i)
                      ELSE IF text[i] = "[" THEN MarkdownLink(text, i) ELSE {}

\* Mutant: an embed is a link.
LinkOrEmbed(text, i) == ParseLink(text, i)

LinkAt(text, i) == IF i > 1 /\ text[i - 1] = "!" THEN {} ELSE ParseLink(text, i)

Plain(text, i, j) == IF i < j THEN <<Segment(text, i, j, Between(text, i, j), FALSE)>> ELSE <<>>

\* What follows from place i on: where the plain text ends that is pending there, and the
\* segments after it.
SplitLinks(text) ==
    LET from[i \in 1..(Len(text) + 1)] ==
            IF i > Len(text) THEN [plain |-> i, segs |-> <<>>]
            ELSE IF LinkAt(text, i) = {} THEN from[i + 1]
            ELSE LET link == CHOOSE l \in LinkAt(text, i) : TRUE
                     rest == from[i + link.len]
                 IN  [plain |-> i,
                      segs  |-> <<link>> \o Plain(text, i + link.len, rest.plain) \o rest.segs]
    IN  Plain(text, 1, from[1].plain) \o from[1].segs

-----------------------------------------------------------------------------
\* wrap_spans.  A row is a sequence of cells: the character, its width, the link it is part
\* of, if any, and the column it has in the row before wrapping.

Indentation(hang) == [k \in 1..hang |-> [char |-> " ", width |-> 1, link |-> 0, flat |-> -1]]

Used(cells) == FoldLeft(LAMBDA n, c : n + c.width, 0, cells)

\* Where the row can be broken.
Breaks(row, hang) == {i \in (hang + 2)..Len(row) : row[i].char = " "}

Kept(row, hang)    == IF Breaks(row, hang) = {} THEN row
                      ELSE SubSeq(row, 1, Max(Breaks(row, hang)) - 1)
Carried(row, hang) == IF Breaks(row, hang) = {} THEN <<>>
                      ELSE SubSeq(row, Max(Breaks(row, hang)) + 1, Len(row))

\* Mutant: characters are counted, not columns.
ManyCells(row, cell, width, hang) == Len(row) + 1 > width /\ Len(row) > hang

Full(row, cell, width, hang) == Used(row) + cell.width > width /\ Used(row) > hang

\* The next cell: on the row, or dropped where the row ends in it, or on a row of its own
\* with what there is of its word.
Put(rows, cell, width, hang) ==
    LET row == Last(rows)
    IN  IF ~Full(row, cell, width, hang) THEN Front(rows) \o <<Append(row, cell)>>
        ELSE IF cell.char = " " THEN Append(rows, Indentation(hang))
        ELSE Front(rows) \o <<Kept(row, hang),
                              Append(Indentation(hang) \o Carried(row, hang), cell)>>

Hang(prefix, width) == Min({prefix, width \div 2})

WrapSpans(cells, width, prefix) ==
    FoldLeft(LAMBDA rows, cell : Put(rows, cell, width, Hang(prefix, width)), <<<<>>>>, cells)

\* What the cells of a row take that had a column from lo to hi - 1 before wrapping.
Taken(row, lo, hi) ==
    FoldLeft(LAMBDA n, c : IF lo <= c.flat /\ c.flat < hi THEN n + c.width ELSE n, 0, row)

\* Mutant: the indentation is left out.
StartInText(row, col) == Taken(row, 0, col)

StartOf(row, col) == Taken(row, -1, col)

\* Where a link of so many columns from col on is after wrapping: row, column and width.
HitsOf(rows, col, columns) ==
    LET of(row) == Taken(row, col, col + columns)
    IN  {<<r, StartOf(rows[r], col), of(rows[r])>> : r \in {k \in DOMAIN rows : of(rows[k]) > 0}}
=============================================================================
