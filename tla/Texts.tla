------------------------------- MODULE Texts -------------------------------
(***************************************************************************)
(* The inputs of the functions on texts and times: what can be typed into  *)
(* a dialog of the TUI, key by key, and, character by character, the lines *)
(* of a note, texts with links, and rows of the list; and the clock.  One  *)
(* sample at a time.                                                       *)
(***************************************************************************)
EXTENDS TextInput, LineSyntax, ListRow, Calendar

CONSTANTS Samples,     \* what to begin with: a kind of text, its first characters, those
                       \* it goes on with and the length it may have
          Clocks, Span,         \* times to begin with, and how long to go on
          Offsets,              \* time zones
          RowWidths, Prefix     \* widths of the list, and the columns before the text

ASSUME SampleAssumption ==
    /\ \A s \in Samples :
          /\ s.kind \in {"dialog", "line", "tags", "links", "row", "clock"}
          /\ s.start \in Seq(s.chars)
          /\ s.kind = "dialog" => s.chars \subseteq Keyboard /\ Len(s.start) <= MaxLength
          /\ s.kind = "row" =>
                /\ s.chars \subseteq [char : Keyboard, link : {0, 1}]
                /\ \A c \in s.chars : WidthOf[c.char] > 0 /\ (c.char = " " => WidthOf[c.char] = 1)
                /\ Prefix <= Len(s.start) /\ \A k \in 1..Prefix : WidthOf[s.start[k].char] = 1
    /\ Clocks \in SUBSET Int /\ Span \in Nat /\ Offsets \in SUBSET Int
    /\ RowWidths \in SUBSET (Nat \ 0..2) /\ Prefix \in Nat

VARIABLES sample, clock, elapsed

vars == <<input, sample, clock, elapsed>>

Init == /\ sample \in Samples
        /\ text = sample.start /\ cursor = 0
        /\ clock \in (IF sample.kind = "clock" THEN Clocks ELSE {0}) /\ elapsed = 0

Dialog == /\ sample.kind = "dialog" /\ Edit
          /\ UNCHANGED <<sample, clock, elapsed>>

Write == /\ sample.kind \in {"line", "tags", "links", "row"}
         /\ Len(text) < sample.length
         /\ \E c \in sample.chars : text' = Append(text, c)
         /\ UNCHANGED <<cursor, sample, clock, elapsed>>

\* Six hours pass.
Tick == /\ sample.kind = "clock" /\ elapsed < Span
        /\ clock' = clock + DayLength \div 4 /\ elapsed' = elapsed + 1
        /\ UNCHANGED <<input, sample>>

Next == Dialog \/ Write \/ Tick

Spec == Init /\ [][Next]_vars
=============================================================================
