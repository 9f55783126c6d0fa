------------------------------- MODULE MCHeap -------------------------------
(***************************************************************************)
(* Model-checking instance of Heap, and the abstraction it implements.     *)
(***************************************************************************)
EXTENDS Heap

Blocks == {heap[i] : i \in Live}

Allocator == INSTANCE HeapSpec WITH Top <- Nil, Owners <- Mods, blocks <- Blocks

\* The heap implements the abstract storage allocator: every pass through the
\* loops of le_heap.c either leaves the blocks programs hold alone, or adds a
\* block of unused words, or removes blocks of one owner.
AllocatorSpec == Allocator!Spec

AllAddresses == 0 .. Nil
HalfAndWhole == {Nil \div 2, Nil}
=============================================================================
