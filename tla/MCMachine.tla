----------------------------- MODULE MCMachine -----------------------------
(***************************************************************************)
(* Model-checking instance of Machine: a command interpreter c, programs p *)
(* and q, libraries a, b and d, of which b and d import each other.        *)
(***************************************************************************)
EXTENDS Machine

at(name) == [name |-> name, key |-> 1]
file(name, key, imports, size) ==
  [file |-> name, name |-> name, key |-> key, imports |-> imports, size |-> size]

Comint == file("c", 1, <<at("a")>>, 1)
LibA == file("a", 1, <<>>, 1)
LibB == file("b", 1, <<at("d"), at("a")>>, 1)
LibD == file("d", 1, <<at("b")>>, 1)
ProgP == file("p", 1, <<at("b"), at("a")>>, 1)
ProgQ == file("q", 1, <<>>, 1)

\* A file that holds another module than its name says; and library b compiled again
\* after its definition changed.
Wrong == [file |-> "w", name |-> "x", key |-> 1, imports |-> <<at("w")>>, size |-> 1]
NewB == file("b", 2, <<at("a")>>, 1)

AllFiles == {Comint, LibA, LibB, LibD, ProgP, ProgQ, Wrong, NewB}
TwoDisks == {AllFiles \ {NewB}, AllFiles \ {LibB}}

ASSUME CompleteAssumption == Complete /\ ~ AgainToo

=============================================================================
