-------------------------------- MODULE Lists --------------------------------
(***************************************************************************)
(* Lists from which some elements are taken, as the loops of MULE do that  *)
(* walk a list and act on the entries that match.                          *)
(*                                                                         *)
(* Only(s, S) is SelectSeq(s, LAMBDA e : e \in S).  It is written with a   *)
(* function that is recursive, one pass of the loop after another, which   *)
(* is what ListProofs reasons about.                                       *)
(***************************************************************************)
EXTENDS Integers, Sequences, SequencesExt

\* What is kept of the first n elements of s, for each n.
Kept(s, S) ==
  LET f[n \in 0 .. Len(s)] ==
        IF n = 0 THEN <<>>
        ELSE IF s[n] \in S THEN Append(f[n - 1], s[n]) ELSE f[n - 1]
  IN f

\* The elements of s that are in S, in their order.
Only(s, S) == Kept(s, S)[Len(s)]

=============================================================================
