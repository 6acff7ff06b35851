--------------------------- MODULE TextProperties ---------------------------
(***************************************************************************)
(* What the functions on texts and times are to give, said without the     *)
(* loops they are written with.                                            *)
(***************************************************************************)
EXTENDS Texts

\* The cursor stays in the text.
TextsTypeOK ==
    /\ sample \in Samples /\ clock \in Int /\ elapsed \in 0..Span
    /\ IF sample.kind = "dialog"
       THEN text \in Seq(Keyboard) /\ Len(text) <= MaxLength /\ cursor \in 0..Len(text)
       ELSE text \in Seq(sample.chars)

-----------------------------------------------------------------------------
\* The dialogs.

Before(p, q) == p[1] < q[1] \/ (p[1] = q[1] /\ p[2] < q[2])

\* The cursor is within the rows the dialog shows, however far the text is scrolled, in
\* front of the next character, which has room there, and right of all that come before.
CursorOnScreen ==
    sample.kind = "dialog" =>
        LET at == CursorPos(cursor)
        IN  /\ at[1] - Top(at[1]) \in 0..(Shown(at[1]) - 1) /\ at[2] \in 0..(Width - 1)
            /\ cursor < Len(text) => at[2] + WidthOf[text[cursor + 1]] <= Width
            /\ \A i \in 0..(cursor - 1) :
                  Columns(SubSeq(text, i + 1, cursor)) > 0 => Before(CursorPos(i), at)

\* Up and down go one row up and down, never further to the right, wherever there is a row.
VerticalMoves ==
    [][\A delta \in {-1, 1} : sample.kind = "dialog" /\ MoveVertical(delta) =>
          /\ CursorPos(cursor)[1]' = CursorPos(cursor)[1] + delta
          /\ CursorPos(cursor)[2]' <= CursorPos(cursor)[2]]_vars

-----------------------------------------------------------------------------
\* Lines of a note.

All(s, chars) == Range(s) \subseteq chars

\* The line matches the expression in the comment of task_captures, after any number of >
\* and blanks: ^\s*[-*+]\s+\[(.)\]\s+(.+)$ with the bullet at i, the bracket at j, the text
\* from k on, be it of blanks only.
Matches(line, i, j, k) ==
    /\ i + 1 < j /\ j + 3 < k /\ k <= Len(line)
    /\ All(SubSeq(line, 1, i - 1), Blanks \cup {">"}) /\ line[i] \in Bullets
    /\ All(SubSeq(line, i + 1, j - 1), Blanks)
    /\ line[j] = "[" /\ line[j + 2] = "]"
    /\ All(SubSeq(line, j + 3, k - 1), Blanks)

\* What the expression captures, whose \s+ takes as many blanks as it can.
Readings(line) ==
    UNION {UNION {{[char |-> line[j + 1], body |-> From(line, k)] :
                     k \in {k \in DOMAIN line : Matches(line, i, j, k) /\ ~Matches(line, i, j, k + 1)}} :
                       j \in DOMAIN line} : i \in DOMAIN line}

\* A line is a task if there is a way to read it as one and the text is not just blanks,
\* which the expression would allow and task_captures does not; there is at most one way;
\* and the depth the index has for it is that of the line on the screen, where tabs are
\* spaces.
CapturesAgree ==
    sample.kind = "line" =>
        LET shown == ExpandTabs(text)
        IN  /\ TaskCaptures(text) = {task \in Readings(text) : ~All(task.body, Blanks)}
            /\ Cardinality(Readings(text)) <= 1
            /\ CountIndent(text) =
                   Max({0} \cup {i \in DOMAIN shown : All(SubSeq(shown, 1, i), {" "})})

\* The words of a text, each with what follows it in the text.
Words(s) == {SubSeq(s, i, Len(s)) : i \in {k \in DOMAIN s : s[k] \notin Blanks
                                                       /\ (k = 1 \/ s[k - 1] \in Blanks)}}

Pieces(s) == UNION {{SubSeq(s, i, j) : j \in DOMAIN s} : i \in DOMAIN s}

IsTag(t) == t # <<>> /\ t[1] \in Letters /\ All(t, TagChars)

\* The word w begins with # and the tag t, which goes on no further.
BeginsWith(w, t) == /\ IsPrefix(<<"#">> \o t, w)
                    /\ Len(w) > Len(t) + 1 => w[Len(t) + 2] \notin TagChars

\* The tags of a task are what the words that begin with # and a letter go on with, as far
\* as it can be part of a tag, each once: a tag found twice would put the task twice in its
\* group, and one that is not there in a group of its own.
TagsFound ==
    sample.kind = "tags" =>
        /\ Range(Tags(text)) = {t \in Pieces(text) : IsTag(t) /\ \E w \in Words(text) : BeginsWith(w, t)}
        /\ IsInjective(Tags(text))

\* toggle_bullet is its own inverse, as its comment says: when the toggle of an open task is
\* undone, the line is that task again.
TogglesBack ==
    \A task \in TaskCaptures(text) :
       task.char = " " =>
          \A bullet \in ToggleBullet(text) :
             \A line \in ToggleBullet(bullet) : TaskCaptures(line) = {task}

-----------------------------------------------------------------------------
\* Links.

Brackets == {"[", "]"}

\* What a link looks like: [label](url), [[target]] or [[target|label]].
IsLink(s) ==
    \/ \E k \in 3..(Len(s) - 3) :
          /\ s[1] = "[" /\ s[k] = "]" /\ s[k + 1] = "(" /\ s[Len(s)] = ")"
          /\ Range(SubSeq(s, 2, k - 1)) \cap Brackets = {}
          /\ Range(SubSeq(s, k + 2, Len(s) - 1)) \cap {")", " "} = {}
    \/ /\ Len(s) > 4
       /\ SubSeq(s, 1, 2) = <<"[", "[">> /\ SubSeq(s, Len(s) - 1, Len(s)) = <<"]", "]">>
       /\ "[" \notin Range(SubSeq(s, 3, Len(s) - 2))
       /\ \A k \in 3..(Len(s) - 2) : SubSeq(s, k, k + 1) = <<"]", "]">> => k = Len(s) - 1

\* The segments make up the text, links are what looks like one and does not follow an
\* exclamation mark, and there is none in the plain text, which is shown as it is.
LinksFound ==
    sample.kind = "links" =>
        LET segs   == SplitLinks(text)
            end(k) == segs[k].at + segs[k].len
            piece(i, j) == Between(text, i, j)
        IN  /\ segs = <<>> <=> text = <<>>
            /\ \A k \in DOMAIN segs : /\ segs[k].at = (IF k = 1 THEN 1 ELSE end(k - 1))
                                      /\ k = Len(segs) => end(k) = Len(text) + 1
            /\ \A k \in DOMAIN segs :
                  IF segs[k].link
                  THEN /\ IsLink(piece(segs[k].at, end(k)))
                       /\ segs[k].at > 1 => text[segs[k].at - 1] # "!"
                  ELSE /\ segs[k].label = piece(segs[k].at, end(k))
                       /\ \A i, j \in segs[k].at..end(k) :
                             IsLink(piece(i, j)) => i > 1 /\ text[i - 1] = "!"

-----------------------------------------------------------------------------
\* Rows of the list.

\* The row before wrapping.
Cells == [k \in DOMAIN text |->
            [char |-> text[k].char, width |-> WidthOf[text[k].char], link |-> text[k].link,
             flat |-> Columns([i \in 1..(k - 1) |-> text[i].char])]]

InWord(row, k) == row[k].char # " "

\* The columns of the word that k is in.
WordWidth(row, k) ==
    LET word == {i \in DOMAIN row :
                   \A j \in DOMAIN row : (i <= j /\ j <= k) \/ (k <= j /\ j <= i) => InWord(row, j)}
    IN  Used(SubSeq(row, Min(word), Max(word)))

\* The places of the cells that are on a line, and the part of the row they are, if it is one.
PlacesOn(line, row) == {k \in DOMAIN row : row[k] \in Range(line)}
Part(row, places)   == IF places = {} THEN <<>> ELSE SubSeq(row, Min(places), Max(places))

\* Each line of a wrapped row is a part of it, after the indentation, and fits; the parts
\* come one after the other, and nothing is lost but a blank at the end of a line; and a
\* word is cut only if no line can hold it and the blank before it.
KeepsText(row, lines, width, hang) ==
    LET on == [r \in DOMAIN lines |-> PlacesOn(lines[r], row)]
    IN  /\ \A r \in DOMAIN lines :
              /\ lines[r] = (IF r = 1 THEN <<>> ELSE Indentation(hang)) \o Part(row, on[r])
              /\ Used(lines[r]) <= width
              /\ r < Len(lines) => on[r] # {} /\ \A k \in on[r] : \A l \in on[r + 1] : k < l
              /\ \A k \in on[r] : k < Len(row) /\ k + 1 \notin on[r] /\ InWord(row, k) /\ InWord(row, k + 1)
                                     => 1 + WordWidth(row, k) > width - hang
        /\ \A k \in DOMAIN row : (\A r \in DOMAIN lines : k \notin on[r]) =>
              row[k].char = " " /\ \E r \in 1..(Len(lines) - 1) : k - 1 \in on[r]

RowKeepsText ==
    sample.kind = "row" => \A width \in RowWidths :
        KeepsText(Cells, WrapSpans(Cells, width, Prefix), width, Hang(Prefix, width))

\* A label of the row is a run of cells, from i to j.
IsLabel(row, i, j) == /\ i <= j /\ \A k \in i..j : row[k].link = 1
                      /\ i > 1 => row[i - 1].link = 0
                      /\ j < Len(row) => row[j + 1].link = 0

\* Where one clicks on a link there is the label of it, and one can click on all of it.
HitsAre(row, lines, i, j) ==
    LET cells == {row[k] : k \in i..j}
        hits  == HitsOf(lines, row[i].flat, Used(SubSeq(row, i, j)))
        column(r, k) == Used(SubSeq(lines[r], 1, k - 1))
    IN  /\ \A h \in hits : h[1] \in DOMAIN lines
        /\ \A r \in DOMAIN lines :
              UNION {h[2]..(h[2] + h[3] - 1) : h \in {g \in hits : g[1] = r}}
                = UNION {column(r, k)..(column(r, k) + lines[r][k].width - 1) :
                           k \in {c \in DOMAIN lines[r] : lines[r][c] \in cells}}

HitsAreLabels ==
    sample.kind = "row" => \A width \in RowWidths : \A i, j \in DOMAIN Cells :
        IsLabel(Cells, i, j) => HitsAre(Cells, WrapSpans(Cells, width, Prefix), i, j)

-----------------------------------------------------------------------------
\* Dates.

Leap(year) == year % 4 = 0 /\ (year % 100 = 0 => year % 400 = 0)
DaysOf(month, year) == IF month = 2 THEN IF Leap(year) THEN 29 ELSE 28
                       ELSE IF month \in {4, 6, 9, 11} THEN 30 ELSE 31

DayAfter(d) == IF d.day < DaysOf(d.month, d.year) THEN [d EXCEPT !.day = @ + 1]
               ELSE IF d.month < 12 THEN [year |-> d.year, month |-> d.month + 1, day |-> 1]
               ELSE [year |-> d.year + 1, month |-> 1, day |-> 1]

\* At any time of the day and in any time zone, a day later it is the next date of the
\* calendar.
DaysFollow ==
    sample.kind = "clock" => \A offset \in Offsets :
        LocalDate(clock + DayLength, offset) = DayAfter(LocalDate(clock, offset))
=============================================================================
