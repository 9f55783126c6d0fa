------------------------------ MODULE FilesSpec ------------------------------
(***************************************************************************)
(* What the file commands promise: the File variables of programs do not   *)
(* interfere.  Each has a stack of open files; a command uses the top of   *)
(* its own, Create and Lookup put a file on it, Close takes it away, and   *)
(* the end of a program takes away the files it opened, wherever they are. *)
(***************************************************************************)
EXTENDS Lists

CONSTANTS Descriptors, Programs

VARIABLES
  stack,  \* for each File variable its open files, newest first
  by      \* the File variable that the last command named, 0 if there was none

\* What becomes of the stack of the File variable that the command names.
Open(old, new) == new # <<>> /\ Tail(new) = old

Close(old, new) == old # <<>> /\ new = Tail(old)

Use(old, new) ==
  /\ old # <<>> /\ new # <<>>
  /\ Tail(new) = Tail(old)
  /\ Head(new).owner = Head(old).owner

Command(old, new) == Open(old, new) \/ Close(old, new) \/ Use(old, new) \/ new = old

\* The buffer of a file is written.
Written(old, new) ==
  /\ Len(new) = Len(old)
  /\ \A i \in DOMAIN old : new[i] = [old[i] EXCEPT !.dirty = new[i].dirty]

\* What is left of a stack when program p ends.
WithoutFilesOf(p, old) == Only(old, {f \in ToSet(old) : f.owner # p})

End(p) == \A m2 \in Descriptors : stack'[m2] = WithoutFilesOf(p, stack[m2])

Init ==
  /\ stack = [m2 \in Descriptors |-> <<>>]
  /\ by = 0

Next ==
  \/ /\ by' \in Descriptors
     /\ Command(stack[by'], stack'[by'])
     /\ \A m2 \in Descriptors \ {by'} : stack'[m2] = stack[m2]
  \/ /\ by' = 0
     /\ \/ \A m2 \in Descriptors : Written(stack[m2], stack'[m2])
        \/ \E p \in 1 .. Programs : End(p)

Spec == Init /\ [][Next]_<<stack, by>>

=============================================================================
