------------------------------ MODULE HeapSpec ------------------------------
(***************************************************************************)
(* What the heap promises to programs: storage is handed out in blocks of  *)
(* words that nobody else holds, a block stays where it is until it is     *)
(* released, and one release concerns the blocks of one program.           *)
(***************************************************************************)
EXTENDS Integers

CONSTANTS
  Top,    \* the first address above the storage (NIL)
  Owners  \* those who hold blocks

VARIABLE blocks

Words(b) == b.adr .. b.adr + b.sz - 1

Init == blocks = {}

\* A new block of words that are all in storage and all unused.
Obtain(o) ==
  \E a, n \in 0 .. Top :
    /\ n > 0 /\ a + n <= Top
    /\ \A b \in blocks : Words(b) \intersect (a .. a + n - 1) = {}
    /\ blocks' = blocks \union {[adr |-> a, sz |-> n, owner |-> o]}

\* Some blocks of one owner are given back; the others are untouched.
Return(o) ==
  \E gone \in SUBSET {b \in blocks : b.owner = o} :
    blocks' = blocks \ gone

Next == \E o \in Owners : Obtain(o) \/ Return(o)

Spec == Init /\ [][Next]_blocks

=============================================================================
