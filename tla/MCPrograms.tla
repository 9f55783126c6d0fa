----------------------------- MODULE MCPrograms -----------------------------
(***************************************************************************)
(* Model-checking instance of Programs: a command interpreter c, programs  *)
(* p and q, and libraries a, b and d, of which b and d import each other.  *)
(***************************************************************************)
EXTENDS Programs

at(name) == [name |-> name, key |-> 1]
file(name, imports, size) ==
  [file |-> name, name |-> name, key |-> 1, imports |-> imports, size |-> size]

Comint == file("c", <<at("a")>>, 2)
LibA == file("a", <<>>, 1)
LibB == file("b", <<at("d"), at("a")>>, 1)
LibD == file("d", <<at("b")>>, 2)
ProgP == file("p", <<at("b"), at("a")>>, 1)
ProgQ == file("q", <<at("d")>>, 0)

AllFiles == {Comint, LibA, LibB, LibD, ProgP, ProgQ}

\* Everything is there, or library d is missing.
AllDisks == {AllFiles, AllFiles \ {LibD}}

=============================================================================
