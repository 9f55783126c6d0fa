------------------------------ MODULE HeapMark ------------------------------
(***************************************************************************)
(* The heap as the programs on the disk use it: a program runs to its end  *)
(* before the one that called it goes on (le_execute runs inside SVC 1),   *)
(* and a program such as the compiler allocates a mark, allocates more,    *)
(* and gives back everything since the mark with ResetHeap                 *)
(* (Storage.MOD; ALLOCATE(lev0, 0) ... ResetHeap(lev0) in M2SRL.MOD).      *)
(*                                                                         *)
(* ResetHeap is hp_free_all with an address for its limit: it knows        *)
(* nothing of time.  stamp, a history variable, gives every allocated      *)
(* address its age so that the two can be compared; before keeps the       *)
(* stamps at the beginning of the hp_free_all that is running.             *)
(***************************************************************************)
EXTENDS Heap, FiniteSets

ASSUME NestingAssumption ==
  IsFiniteSet(Mods) /\ Mods # {} /\ Mods = 1 .. Cardinality(Mods)

VARIABLES
  running,   \* module index of the program that runs, 0 when all have ended
  stamp,     \* age of the block at each allocated address
  before,    \* stamp when the running hp_free_all began
  disposed,  \* whether a single block was ever released
  swept      \* whether hp_free_all was ever called

history == <<disposed, swept>>
mvars == <<vars, running, stamp, before, history>>

-----------------------------------------------------------------------------

LiveAddresses == {heap[i].adr : i \in Live}

Owned(m) == {heap[i].adr : i \in {j \in Live : heap[j].owner = m}}

\* Old blocks keep their order and a new one is younger than all others: the
\* stamps are ranks, so that they stay as small as the number of blocks.
Stamped ==
  LET kept == LiveAddresses' \intersect DOMAIN stamp
  IN stamp' = [a \in LiveAddresses' |->
                 IF a \in kept THEN Cardinality({b \in kept : stamp[b] <= stamp[a]})
                 ELSE Cardinality(kept) + 1]

\* SVC 0 with mode 0, on behalf of exec_mod.
Allocate ==
  /\ running # 0
  /\ \E n \in Sizes :
       AllocGap(running, n) \/ AllocExtend(running, n) \/ AllocOverflow(n)
  /\ UNCHANGED <<running, before, history>>

\* SVC 0 with mode 1
Dispose ==
  /\ running # 0
  /\ \E p \in Disposals : FreeCall(p)
  /\ disposed' = TRUE
  /\ UNCHANGED <<running, before, swept>>

\* SVC 0 with mode 2: the limit is a pointer the program got from ALLOCATE.
ResetHeap ==
  /\ \E a \in Owned(running) : FreeAllCall(running, a)
  /\ before' = stamp
  /\ swept' = TRUE
  /\ UNCHANGED <<running, disposed>>

\* SVC 1: the next program starts inside the running one.
StartProgram ==
  /\ Idle
  /\ running # 0 /\ running + 1 \in Mods
  /\ running' = running + 1
  /\ UNCHANGED <<vars, before, history>>

\* The end of le_execute.
EndProgram ==
  /\ running # 0
  /\ FreeAllCall(running, Nil)
  /\ running' = running - 1
  /\ before' = stamp
  /\ swept' = TRUE
  /\ UNCHANGED disposed

FreeStep ==
  /\ FreeLoop
  /\ before' = IF cur' = 0 THEN <<>> ELSE before
  /\ UNCHANGED <<running, history>>

MoveStackPointer ==
  /\ \E s \in StackTops : MoveStack(s)
  /\ UNCHANGED <<running, before, history>>

MarkInit ==
  /\ Init
  /\ running = 1
  /\ stamp = <<>> /\ before = <<>>
  /\ disposed = FALSE /\ swept = FALSE

MarkNext ==
  /\ \/ Allocate
     \/ Dispose
     \/ ResetHeap
     \/ StartProgram
     \/ EndProgram
     \/ FreeStep
     \/ MoveStackPointer
  /\ Stamped

MarkSpec == MarkInit /\ [][MarkNext]_mvars

-----------------------------------------------------------------------------
(* Properties                                                              *)

\* While programs release single blocks only, free space is always in one
\* piece with its neighbours, and none of it keeps words from the stack.
CoalescedByDispose == ~ swept => Coalesced

\* Between calls of programs that never release a single block the heap grows
\* like a stack: a younger block always lies below an older one.  Comparing
\* addresses is comparing ages, which is what makes a pointer usable as a mark.
\* hp_alloc is first-fit, so one gap left above an older block would break this.
AgesFollowAddresses ==
  (~ disposed /\ cur = 0) => \A a, b \in DOMAIN stamp : a < b => stamp[a] > stamp[b]

\* hp_free_all(mod, mark) gives back the mark and what mod allocated after it;
\* with the limit of a program that ended it gives back all that program has.
ResetReleasesYounger ==
  [][(cur # 0 /\ cur' = 0 /\ ~ call.by_ptr /\ ~ disposed) =>
       LET old == {a \in DOMAIN before : \E i \in Live' :
                     heap'[i].adr = a /\ heap'[i].owner = call.mod}
       IN IF call.limit \in DOMAIN before
          THEN \A a \in old : before[a] < before[call.limit]
          ELSE old = {}]_mvars

\* The other half: a block older than the mark survives the call, from its
\* beginning to its end.
ResetKeepsOlder ==
  [][(cur # 0 /\ ~ call.by_ptr /\ call.limit \in DOMAIN before /\ ~ disposed) =>
       \A a \in DOMAIN stamp :
         before[a] < before[call.limit] => a \in LiveAddresses']_mvars

=============================================================================
