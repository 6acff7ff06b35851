------------------------------ MODULE MCTexts ------------------------------
(***************************************************************************)
(* Short texts of few characters: a narrow and a wide one, one of no width *)
(* and a blank for what is shown, and what has a meaning in a line or a    *)
(* link for the others.                                                    *)
(***************************************************************************)
EXTENDS TextProperties, TLC

Widths  == " " :> 1 @@ "x" :> 1 @@ "W" :> 2 @@ "^" :> 0

Sample(kind, start, chars, length) ==
    [kind |-> kind, start |-> start, chars |-> chars, length |-> length]

Cell(char, link) == [char |-> char, link |-> link]
CellChars        == {Cell(char, link) : char \in {" ", "x", "W"}, link \in {0, 1}}
ThePrefix        == [k \in 1..Prefix |-> Cell(" ", 0)]

LineChars == {" ", "\t", ">", "-", "[", "]", "x"}
TagTexts  == {"#", " ", "x", "1", "!"}
LinkChars == {"[", "]", "(", ")", "!", "|", " ", "x"}

\* Texts of the first few characters, and longer ones that begin as a task or a link does.
ShortTexts == {Sample("dialog", <<>>, {}, 0), Sample("clock", <<>>, {}, 0),
               Sample("line", <<>>, LineChars, 5),
               Sample("line", <<"-", " ", "[">>, LineChars, 8),
               Sample("tags", <<>>, TagTexts, 6),
               Sample("links", <<>>, LinkChars, 5),
               Sample("links", <<"!", "[">>, LinkChars, 7),
               Sample("row", ThePrefix, CellChars, Prefix + 5)}

OpenTasks == {Sample("line", <<"-", " ", "[", " ", "]", " ">>, {"-", " ", "[", "]", "x"}, 8)}

\* Days before the end of February of years that are leap years, and are not; of an era of
\* 400 years; before 1970; and the turn of a year.
FirstDays  == {19780, 19410, 11010, 47540, -25510, -5, 19720, -719475}
TheOffsets == {-24, 0, 11, 28}
FirstTimes == {day * DayLength : day \in FirstDays}
=============================================================================
