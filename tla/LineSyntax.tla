----------------------------- MODULE LineSyntax -----------------------------
(***************************************************************************)
(* The functions of taski-core that take a line of a note apart, on        *)
(* sequences of characters.  "x" stands for a letter, "-" for the three    *)
(* bullets.                                                                *)
(***************************************************************************)
EXTENDS Integers, SequencesExt

Blanks  == {" ", "\t"}
Bullets == {"-"}

From(line, i) == SubSeq(line, i, Len(line))

\* The first place from i on where there is none of these characters.
Skip(line, i, chars) == Min({k \in i..Len(line) : line[k] \notin chars} \cup {Max({i, Len(line) + 1})})

\* advance_past_leading_markers
AfterMarkers(line) == Skip(line, 1, Blanks \cup {">"})

\* Where the text after the bullet begins, if the line is a bullet with a text.
BulletText(line) == LET b == AfterMarkers(line)
                    IN  {i \in {Skip(line, b + 1, Blanks)} :
                            /\ b \in DOMAIN line /\ line[b] \in Bullets
                            /\ i > b + 1 /\ i \in DOMAIN line}

\* Mutant: the text may follow the checkbox at once.
TextNextToBox(line, i) == {j \in {Skip(line, i + 3, Blanks)} : j \in DOMAIN line}

\* Where the text begins after a checkbox at i, if there is a text.
TextAfterBox(line, i) == {j \in {Skip(line, i + 3, Blanks)} : j > i + 3 /\ j \in DOMAIN line}

\* The checkbox character and the text of a task.
TaskCaptures(line) ==
    UNION {{[char |-> line[i + 1], body |-> From(line, j)] : j \in TextAfterBox(line, i)} :
              i \in {k \in BulletText(line) : line[k] = "[" /\ From(line, k + 2) # <<>>
                                              /\ line[k + 2] = "]"}}

\* What is in brackets is taken out of a bullet that begins with one, and a checkbox put
\* before the text of any other.  Nothing comes of other lines.
ToggleBullet(line) ==
    UNION {IF line[i] # "["
           THEN {SubSeq(line, 1, i - 1) \o <<"[", " ", "]", " ">> \o From(line, i)}
           ELSE {SubSeq(line, 1, i - 1) \o From(line, Skip(line, k + 1, Blanks)) :
                   k \in {e \in (i + 1)..Len(line) : line[e] = "]"
                                                     /\ "]" \notin Range(SubSeq(line, i, e - 1))}} :
             i \in BulletText(line)}

NextStop(col) == (col \div 4 + 1) * 4

CountIndent(line) == FoldLeft(LAMBDA col, c : IF c = "\t" THEN NextStop(col) ELSE col + 1,
                              0, SubSeq(line, 1, Skip(line, 1, Blanks) - 1))

\* "1" stands for what a tag goes on with but does not begin with: digits, hyphens, slashes.
Letters  == {"x"}
TagChars == Letters \cup {"1"}

\* Mutant: a tag may begin within a word.
TagWithin(body, i) == body[i] = "#"

StartsTag(body, i) == body[i] = "#" /\ (i > 1 => body[i - 1] \in Blanks)

TagsAt(body, i) == IF StartsTag(body, i) /\ Skip(body, i + 1, Letters) > i + 1
                   THEN {SubSeq(body, i + 1, Skip(body, i + 1, TagChars) - 1)} ELSE {}

\* extract_tags: each tag once, in the order in which they first occur.
Tags(body) ==
    FoldLeft(LAMBDA tags, i : tags \o SetToSeq(TagsAt(body, i) \ Range(tags)),
             <<>>, [i \in DOMAIN body |-> i])

\* Of the TUI: a line as its pane on the note shows it.
ExpandTabs(line) ==
    FoldLeft(LAMBDA out, c : IF c = "\t" THEN out \o [k \in 1..(4 - (Len(out) % 4)) |-> " "]
                             ELSE Append(out, c), <<>>, line)
=============================================================================
