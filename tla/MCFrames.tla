------------------------------ MODULE MCFrames ------------------------------
(***************************************************************************)
(* Model-checking instance of Frames.                                      *)
(***************************************************************************)
EXTENDS Frames

\* What tells two states apart: the words at gs_S and above are left out, since
\* opcodes write a word of the stack before they read it.
LiveWords == <<[a \in 0 .. gs_S - 1 |-> mem[a]], regs, status, level, callers>>

=============================================================================
