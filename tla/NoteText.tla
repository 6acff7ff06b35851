------------------------------ MODULE NoteText ------------------------------
(***************************************************************************)
(* The contents of a note as a sequence of lines, what the parser reads    *)
(* from it, and the structural rewrites of whole lines: the permutation a  *)
(* reorder applies and the copy and removal an archive move is made of.    *)
(* Line numbers are 1-based, as in parse_tasks.                            *)
(***************************************************************************)
EXTENDS TaskLine, SequencesExt

Contents == Seq(Line)

\* The number of elements of S below i: the position of i in S, counted from 0.
Rank(S, i) == Cardinality({j \in S : j < i})

\* The k-th smallest element of a finite set of numbers, and all of them in order.
Nth(S, k)  == CHOOSE i \in S : Rank(S, i) = k - 1
InOrder(S) == [k \in 1..Cardinality(S) |-> Nth(S, k)]

-----------------------------------------------------------------------------

\* A line is inside a code block when an odd number of fences precedes it.
InFence(c, i) == Cardinality({j \in DOMAIN c : j < i /\ c[j].kind = "fence"}) % 2 = 1

\* parse_tasks: the numbers of the lines that are tasks.
TaskLines(c) == {i \in DOMAIN c : c[i].kind = "task" /\ ~InFence(c, i)}

\* taski_skip_enabled: a note that opts out in its frontmatter.
Skipped(c) == c # <<>> /\ c[1].kind = "skip"

\* The lines index_note puts in the index: none for a note that opts out.
IndexedLines(c) == IF Skipped(c) THEN {} ELSE TaskLines(c)

FlatTaskLines(c) == {i \in TaskLines(c) : c[i].indent = 0}
ClosedFlatLines(c) == {i \in FlatTaskLines(c) : IsClosed(c[i].char)}

-----------------------------------------------------------------------------

\* The daemon replaces one line and splices the rest of the note back unchanged.
SetLine(c, i, line) == [c EXCEPT ![i] = line]

\* permute_lines: the i-th smallest of the listed numbers receives the content
\* of order[i].  A number out of range or listed twice makes it a no-op.
PermuteLines(c, order) ==
    IF Range(order) \subseteq DOMAIN c /\ IsInjective(order)
    THEN [i \in DOMAIN c |->
            IF i \in Range(order) THEN c[order[Rank(Range(order), i) + 1]] ELSE c[i]]
    ELSE c

\* extract_lines: the listed lines in the order listed; numbers out of range
\* are skipped.
ExtractLines(c, numbers) ==
    LET listed == {k \in DOMAIN numbers : numbers[k] \in DOMAIN c}
    IN  [k \in 1..Cardinality(listed) |-> c[numbers[Nth(listed, k)]]]

\* remove_lines: the survivors in their order.
RemoveLines(c, numbers) ==
    LET kept == DOMAIN c \ Range(numbers)
    IN  [k \in 1..Cardinality(kept) |-> c[Nth(kept, k)]]

\* parse_tasks: the tasks in the order of their lines.
TaskSeq(c) == ExtractLines(c, InOrder(TaskLines(c)))
=============================================================================
