------------------------------ MODULE Samples ------------------------------
(***************************************************************************)
(* Lines the notes of the model-checking modules are made of.              *)
(***************************************************************************)
EXTENDS NoteText

Line1(kind, char, name) ==
    [kind |-> kind, indent |-> 0, char |-> char, text |-> Saying(name)]

Open(name)      == Line1("task", " ", name)
Closed(name)    == Line1("task", "x", name)
Cancelled(name) == Line1("task", "-", name)
Nested(name)    == [Open(name) EXCEPT !.indent = 1]
=============================================================================
