-------------------------------- MODULE Heap --------------------------------
(***************************************************************************)
(* The dynamic heap of the emulator: src/src/le_heap.c, reached from       *)
(* M-code through supervisor call 0 (svc_heap_func in le_syscall.c).       *)
(*                                                                         *)
(* The heap grows downwards from the last word of dsh_mem.  It is one      *)
(* linked list of block headers that starts at heap_top, a block of size   *)
(* zero, and runs towards lower addresses.  Here the list is a sequence:   *)
(* heap[1] is heap_top and heap[i + 1] is the header heap[i].next points   *)
(* to.  A header with owner 0 is free.                                     *)
(*                                                                         *)
(* hp_alloc is one action per outcome.  hp_free_int is a loop over the     *)
(* list that changes the list while it walks it, so each pass through the  *)
(* loop body is a step: cur is the index of the loop's "cur" pointer (0    *)
(* when no call is running); "prev" is always heap[cur - 1] when it is     *)
(* read.                                                                   *)
(***************************************************************************)
EXTENDS Integers, Sequences

CONSTANTS
  MemSize,    \* MACH_DSHMEM_SZ, the words of dsh_mem
  Mods,       \* module indexes that own blocks (0 means free)
  Sizes,      \* sizes passed to hp_alloc
  Disposals,  \* pointers passed to hp_free
  Limits,     \* limits passed to hp_free_all when a program ends or resets
  StackTops   \* values of gs_S the interpreter reaches

ASSUME MemAssumption == MemSize \in Nat \ {0}
ASSUME ModAssumption == Mods \subseteq Nat \ {0}
ASSUME SizeAssumption == Sizes \subseteq Nat
ASSUME LimitAssumption == Limits \subseteq Nat
ASSUME StackAssumption == StackTops \subseteq Nat
ASSUME DisposalAssumption == Disposals \subseteq Nat

VARIABLES
  heap,    \* the list of headers, heap_top first
  gs_H,    \* lowest heap address
  gs_S,    \* stack pointer, moved by the interpreter
  cur,     \* the loop position of the running hp_free_int, 0 if none
  call,    \* the arguments of that call
  status   \* "run", or the fatal error that ended the emulator

vars == <<heap, gs_H, gs_S, cur, call, status>>

-----------------------------------------------------------------------------
(* Blocks and the list                                                     *)

Nil == MemSize - 1      \* the address of heap_top, M-code's NIL pointer
FREE == 0

Block == [adr : Nat, sz : Nat, owner : Mods \union {FREE}]

HeapTop == [adr |-> Nil, sz |-> 0, owner |-> FREE]

\* Replace header i by the two headers a and b.
Split(h, i, a, b) ==
  [j \in 1 .. Len(h) + 1 |->
     IF j < i THEN h[j] ELSE IF j = i THEN a ELSE IF j = i + 1 THEN b ELSE h[j - 1]]

\* Mutant: the address of the successor is not taken over.
ConsolidateSizeOnly(h, i) ==
  [j \in 1 .. Len(h) - 1 |->
     IF j < i THEN h[j]
     ELSE IF j = i THEN [h[i] EXCEPT !.sz = @ + h[i + 1].sz]
     ELSE h[j + 1]]

\* consolidate(): header i takes over its successor, which is freed.
Consolidate(h, i) ==
  [j \in 1 .. Len(h) - 1 |->
     IF j < i THEN h[j]
     ELSE IF j = i THEN [adr |-> h[i + 1].adr, sz |-> h[i].sz + h[i + 1].sz,
                         owner |-> h[i].owner]
     ELSE h[j + 1]]

\* The list without its last header.
DropLast(h) == [j \in 1 .. Len(h) - 1 |-> h[j]]

\* Indexes of the blocks that are allocated.
Live == {i \in 1 .. Len(heap) : heap[i].owner # FREE}

-----------------------------------------------------------------------------
(* hp_alloc                                                                *)

Idle == status = "run" /\ cur = 0

\* hp_alloc never serves a request of zero words.
Rounded(sz) == IF sz = 0 THEN 1 ELSE sz

\* Mutant: a block that somebody owns is taken for a gap.
FitsAnybody(i, sz) == i # 1 /\ heap[i].sz >= sz

Fits(i, sz) == heap[i].owner = FREE /\ heap[i].sz >= sz

\* The gap found by the scan: the first that is large enough.
FirstGap(i, sz) ==
  /\ i \in 1 .. Len(heap)
  /\ Fits(i, sz)
  /\ \A j \in 1 .. i - 1 : ~ Fits(j, sz)

NoGap(sz) == \A i \in 1 .. Len(heap) : ~ Fits(i, sz)

\* Mutant: the low end of a gap is handed out and the header of the rest keeps
\* the same address.
AllocGapLowEnd(mod, size) ==
  LET sz == Rounded(size) IN
  /\ Idle
  /\ \E i \in 1 .. Len(heap) :
       /\ FirstGap(i, sz)
       /\ LET b == heap[i]
              taken == [b EXCEPT !.sz = sz, !.owner = mod]
              left == [b EXCEPT !.sz = b.sz - sz]
          IN heap' = IF b.sz > sz THEN Split(heap, i, taken, left)
                     ELSE [heap EXCEPT ![i] = taken]
  /\ UNCHANGED <<gs_H, gs_S, cur, call, status>>

\* The whole gap is taken, or its high end; the low end stays a free block.
AllocGap(mod, size) ==
  LET sz == Rounded(size) IN
  /\ Idle
  /\ \E i \in 1 .. Len(heap) :
       /\ FirstGap(i, sz)
       /\ LET b == heap[i]
              rest == b.sz - sz
              taken == [adr |-> b.adr + rest, sz |-> sz, owner |-> mod]
              left == [adr |-> b.adr, sz |-> rest, owner |-> FREE]
          IN heap' = IF rest > 0 THEN Split(heap, i, taken, left)
                     ELSE [heap EXCEPT ![i] = taken]
  /\ UNCHANGED <<gs_H, gs_S, cur, call, status>>

\* Mutant: the heap is extended without looking at the stack.
AllocExtendUnchecked(mod, size) ==
  LET sz == Rounded(size) IN
  /\ Idle
  /\ NoGap(sz)
  /\ gs_H' = gs_H - sz
  /\ heap' = Append(heap, [adr |-> gs_H - sz, sz |-> sz, owner |-> mod])
  /\ UNCHANGED <<gs_S, cur, call, status>>

\* No gap: a new block below the others, if it stays clear of the stack.
AllocExtend(mod, size) ==
  LET sz == Rounded(size) IN
  /\ Idle
  /\ NoGap(sz)
  /\ gs_H - gs_S > sz
  /\ gs_H' = gs_H - sz
  /\ heap' = Append(heap, [adr |-> gs_H - sz, sz |-> sz, owner |-> mod])
  /\ UNCHANGED <<gs_S, cur, call, status>>

\* Neither a gap nor room: fatal "Heap overflow".
AllocOverflow(size) ==
  LET sz == Rounded(size) IN
  /\ Idle
  /\ NoGap(sz)
  /\ gs_H - gs_S <= sz
  /\ status' = "heap overflow"
  /\ UNCHANGED <<heap, gs_H, gs_S, cur, call>>

-----------------------------------------------------------------------------
(* hp_free, hp_free_all: the calls of hp_free_int                          *)

NoCall == [by_ptr |-> FALSE, mod |-> 0, ptr |-> 0, limit |-> 0]

Call == [by_ptr : BOOLEAN, mod : Mods \union {0}, ptr : Nat, limit : Nat]

\* hp_free(ptr)
FreeCall(ptr) ==
  /\ Idle
  /\ cur' = 1
  /\ call' = [by_ptr |-> TRUE, mod |-> 0, ptr |-> ptr, limit |-> Nil]
  /\ UNCHANGED <<heap, gs_H, gs_S, status>>

\* hp_free_all(mod, limit)
FreeAllCall(mod, limit) ==
  /\ Idle
  /\ cur' = 1
  /\ call' = [by_ptr |-> FALSE, mod |-> mod, ptr |-> 0, limit |-> limit]
  /\ UNCHANGED <<heap, gs_H, gs_S, status>>

\* Mutant: the module of a block is not compared.
IsMatchAnyOwner(i) == i # 1 /\ (call.by_ptr => heap[i].adr = call.ptr)

\* is_match(): heap_top is never released.
IsMatch(i) ==
  i # 1 /\ IF call.by_ptr THEN heap[i].adr = call.ptr ELSE heap[i].owner = call.mod

\* is_free(): free, or about to be released by the same call.
IsFree(h, i) ==
  i # 1 /\ (h[i].owner = FREE \/ (~ call.by_ptr /\ h[i].owner = call.mod))

\* Mutant: the limit itself is excluded.
ReleasesBelow(i) == heap[i].adr < call.limit /\ heap[i].owner # FREE /\ IsMatch(i)

\* Mutant: the limit is ignored.
ReleasesAll(i) == heap[i].owner # FREE /\ IsMatch(i)

Releases(i) == heap[i].adr <= call.limit /\ heap[i].owner # FREE /\ IsMatch(i)

\* Mutant: the header keeps its owner.
FreedStillOwned(i) == heap

Freed(i) == [heap EXCEPT ![i].owner = FREE]

\* Mutant: a block is never merged with the one above it.
JoinsPrevNever(i) == FALSE

JoinsPrev(i) == i > 1 /\ heap[i - 1].adr <= call.limit /\ IsFree(heap, i - 1)

\* Mutant: a block is never merged with the one below it.
JoinsNextNever(h, i) == FALSE

JoinsNext(h, i) == i < Len(h) /\ IsFree(h, i + 1)

\* Mutant: hp_free_all returns after its first block, as hp_free does.
OnwardNever(i) == 0

\* hp_free stops at its one block; hp_free_all looks at position i again.
Onward(i) == IF call.by_ptr THEN 0 ELSE i

Looping == status = "run" /\ cur # 0

\* The loop body when the block at cur is to be released: it is merged with
\* its free neighbours, and given back to the stack if it is then the last.
Release ==
  /\ Looping
  /\ Releases(cur)
  /\ LET c == IF JoinsPrev(cur) THEN cur - 1 ELSE cur
         h1 == IF JoinsPrev(cur) THEN Consolidate(Freed(cur), c) ELSE Freed(cur)
         h2 == IF JoinsNext(h1, c) THEN Consolidate(h1, c) ELSE h1
     IN IF c = Len(h2)
        THEN /\ gs_H' = h2[c - 1].adr
             /\ heap' = DropLast(h2)
             /\ cur' = 0
        ELSE /\ heap' = h2
             /\ cur' = Onward(c)
             /\ UNCHANGED gs_H
  /\ call' = IF cur' = 0 THEN NoCall ELSE call
  /\ UNCHANGED <<gs_S, status>>

\* The loop body when the block at cur stays: go on to the next.
Skip ==
  /\ Looping
  /\ ~ Releases(cur)
  /\ cur < Len(heap)
  /\ cur' = cur + 1
  /\ UNCHANGED <<heap, gs_H, gs_S, call, status>>

\* The end of the list: an error for hp_free, the normal end of hp_free_all.
EndOfList ==
  /\ Looping
  /\ ~ Releases(cur)
  /\ cur = Len(heap)
  /\ cur' = 0
  /\ call' = NoCall
  /\ status' = IF call.by_ptr THEN "heap pointer invalid" ELSE status
  /\ UNCHANGED <<heap, gs_H, gs_S>>

-----------------------------------------------------------------------------
\* The interpreter moves the stack pointer between supervisor calls.
MoveStack(s) ==
  /\ Idle
  /\ gs_S' = s
  /\ UNCHANGED <<heap, gs_H, cur, call, status>>

\* hp_init()
Init ==
  /\ heap = <<HeapTop>>
  /\ gs_H = Nil
  /\ gs_S \in StackTops
  /\ cur = 0
  /\ call = NoCall
  /\ status = "run"

FreeLoop == Release \/ Skip \/ EndOfList

Next ==
  \/ \E m \in Mods, n \in Sizes : AllocGap(m, n)
  \/ \E m \in Mods, n \in Sizes : AllocExtend(m, n)
  \/ \E n \in Sizes : AllocOverflow(n)
  \/ \E p \in Disposals : FreeCall(p)
  \/ \E m \in Mods, l \in Limits : FreeAllCall(m, l)
  \/ FreeLoop
  \/ \E s \in StackTops : MoveStack(s)

Spec == Init /\ [][Next]_vars

\* The emulator is one thread: a call that has begun runs on.
FairSpec == Spec /\ WF_vars(FreeLoop)

-----------------------------------------------------------------------------
(* Properties                                                              *)

TypeOK ==
  /\ heap \in Seq(Block) /\ heap # <<>>
  /\ gs_H \in Nat
  /\ gs_S \in Nat
  /\ cur \in 0 .. Len(heap)
  /\ call \in Call
  /\ status \in {"run", "heap overflow", "heap pointer invalid"}

\* The list tiles the memory from gs_H to the top: it starts with heap_top,
\* every block ends where its predecessor begins, none is empty, the last one
\* begins at gs_H.  hp_alloc's split and hp_free_int's consolidation must keep
\* this whatever the order of calls; a word lost or counted twice breaks it.
Tiling ==
  /\ heap[1] = HeapTop
  /\ \A i \in 2 .. Len(heap) :
       heap[i].sz > 0 /\ heap[i].adr + heap[i].sz = heap[i - 1].adr
  /\ heap[Len(heap)].adr = gs_H

\* Two programs never own the same word: allocated blocks are disjoint, and
\* none contains the word at NIL.
Disjoint ==
  \A i, j \in Live :
    /\ heap[i].adr + heap[i].sz <= Nil
    /\ i < j => heap[j].adr + heap[j].sz <= heap[i].adr

\* When hp_free_all(mod, limit) has returned, mod owns nothing at or below
\* the limit: consolidating while walking the list skips no block.  This is
\* what le_execute relies on when it releases the memory of a program that
\* ended.
FreeAllFreesAll ==
  [][(cur # 0 /\ cur' = 0 /\ ~ call.by_ptr) =>
       \A i \in Live' : ~ (heap'[i].owner = call.mod /\ heap'[i].adr <= call.limit)]_vars

\* hp_free releases the one block it was given and hp_free_all only blocks of
\* its module at or below its limit; every other block keeps its place, its
\* size and its owner, and merging free neighbours never touches one.
OthersUntouched ==
  [][\A i \in Live :
       \/ \E j \in Live' : heap'[j] = heap[i]
       \/ /\ cur # 0
          /\ heap[i].adr <= call.limit
          /\ IF call.by_ptr THEN heap[i].adr = call.ptr ELSE heap[i].owner = call.mod]_vars

\* Free space is as large as it can be between calls: no two free blocks are
\* neighbours and the last block is never free.  It holds as long as blocks
\* are released one at a time, by hp_free.
Coalesced ==
  cur = 0 =>
    /\ \A i \in 2 .. Len(heap) - 1 : heap[i].owner # FREE \/ heap[i + 1].owner # FREE
    /\ Len(heap) > 1 => heap[Len(heap)].owner # FREE

\* A call of hp_free or hp_free_all returns: the loop that goes round again
\* without advancing after a release does not spin.
FreeReturns == cur # 0 ~> cur = 0

=============================================================================
