------------------------------- MODULE MCFiles -------------------------------
(***************************************************************************)
(* Files, with the abstract specification it implements.                   *)
(***************************************************************************)
EXTENDS Files, TLC

\* malloc and mkstemp may return anything: their results are interchangeable.
Interchangeable == Permutations(Pointers) \union Permutations(TempNames)

\* What the commands read: not the last command and its result, nor the lengths
\* of files that are neither open nor on the disk.
Live == <<fd_list, cache, disk, [i \in Busy \ {0} |-> size[i]], running, status>>

\* All that is open for m2, newest first.
OpenFor(m2) == Only(fd_list, EntryFor({m2}))

Stacks == [m2 \in Descriptors |-> OpenFor(m2)]

Abstract == INSTANCE FilesSpec WITH stack <- Stacks

\* The file system keeps the File variables apart: no use of one, no file hidden
\* by a second Lookup with the same variable, no Close in any order and no end
\* of a program lets a command reach the file of another (le_filesys.c:78-107).
VariablesApart == Abstract!Spec

=============================================================================
