--------------------------- MODULE HeapMarkProofs ---------------------------
(***************************************************************************)
(* What makes a pointer usable as a mark, for every size of the memory and *)
(* every number of programs.                                               *)
(*                                                                         *)
(* The properties of HeapMark speak of the moments between two calls.      *)
(* Their invariant follows the list through the loop of hp_free_int: as    *)
(* long as no single block is released, the loop leaves at most one free   *)
(* block, right behind its position, and everything below that block is    *)
(* still to be released (Behind).  So the free block ends up at the end of *)
(* the list, where it goes back to the stack.                              *)
(***************************************************************************)
EXTENDS HeapMark, HeapProofs, FiniteSetTheorems

\* Higher addresses are older.
Antitone(f) == \A a, b \in DOMAIN f : a < b => f[a] > f[b]

\* What the history variables say of the call in progress.
Stamps ==
  /\ running \in Mods \union {0}
  /\ stamp \in [LiveAddresses -> Nat]
  /\ (cur # 0 /\ ~ call.by_ptr) =>
       /\ call.mod = running \/ (call.mod = running + 1 /\ call.limit = Nil)
       /\ DOMAIN stamp \subseteq DOMAIN before /\ before \in [DOMAIN before -> Nat]
       /\ call.limit = Nil \/ call.limit \in DOMAIN before

\* Two neighbours are not both free, and the last block is not.
Merged ==
  /\ \A i \in 2 .. Len(heap) - 1 : heap[i].owner # FREE \/ heap[i + 1].owner # FREE
  /\ Len(heap) > 1 => heap[Len(heap)].owner # FREE

\* The state while single blocks are released only: hp_free leaves its loop with
\* the step that changes the list.
ByDispose == ~ swept => (cur # 0 => call.by_ptr /\ call.limit = Nil) /\ Merged

\* No block is owned by a program that was started later.
Youngest == IF cur = 0 THEN running ELSE call.mod

\* The loop has just merged block i, and goes on to the end of the list.
Behind(i) ==
  /\ i \in {cur - 1, cur} /\ i < Len(heap)
  /\ heap[i].adr <= call.limit
  /\ \A j \in i + 1 .. Len(heap) : heap[j].owner = call.mod

\* The state while no single block was released.
Nested ==
  /\ cur # 0 => ~ call.by_ptr
  /\ \A i, j \in Live : i < j => heap[i].owner <= heap[j].owner
  /\ \A i \in Live : heap[i].owner <= Youngest
  /\ \A i \in 2 .. Len(heap) : heap[i].owner = FREE => cur # 0 /\ Behind(i)
  /\ Antitone(stamp)
  /\ cur # 0 => Antitone(before)

\* The inductive invariant.
MInv == RInv /\ Stamps /\ ByDispose /\ (~ disposed => Nested)

-----------------------------------------------------------------------------
(* Addresses and stamps                                                    *)

\* No block begins above NIL.
LEMMA AddressBound ==
  ASSUME NEW h, Good(h), NEW i \in 1 .. Len(h)
  PROVE  h[i].adr \in Nat /\ h[i].adr <= Nil
  <1>1. h[i].adr \in Nat /\ h[i].sz \in Nat /\ Nil \in Nat /\ Len(h) \in Nat
    BY GoodList, BlockFields, MemAssumption DEF Nil
  <1>2. h[1] = HeapTop /\ h[1].adr = Nil
    BY DEF Good, Tiles, HeapTop
  <1>3. CASE i = 1
    BY <1>1, <1>2, <1>3
  <1>4. CASE i > 1
    <2>1. h[i].adr + h[i].sz <= h[1].adr
      BY <1>1, <1>4 DEF Good, Descending
    <2> QED BY <1>1, <1>2, <2>1
  <1> QED BY <1>1, <1>3, <1>4

\* The allocated addresses are finitely many.
LEMMA LiveFinite ==
  ASSUME IInv
  PROVE  /\ LiveAddresses \subseteq Nat /\ IsFiniteSet(LiveAddresses)
         /\ \A i \in Live : heap[i].adr \in Nat
  <1>1. Good(heap) /\ Nil \in Nat
    BY InvGood, MemAssumption DEF Nil
  <1>2. \A i \in Live : heap[i].adr \in Nat /\ heap[i].adr <= Nil
    BY <1>1, AddressBound DEF Live
  <1>3. LiveAddresses \in SUBSET Nat /\ \A a \in LiveAddresses : a <= Nil
    BY <1>2 DEF LiveAddresses
  <1>4. IsFiniteSet(LiveAddresses)
    BY <1>1, <1>3, FS_BoundedSetOfNaturals
  <1> QED BY <1>2, <1>3, <1>4

\* The stamps are numbers.
LEMMA StampedType ==
  ASSUME IInv, IInv', stamp \in [LiveAddresses -> Nat], Stamped
  PROVE  stamp' \in [LiveAddresses' -> Nat]
  <1> DEFINE kept == LiveAddresses' \intersect DOMAIN stamp
             below(a) == {b \in kept : stamp[b] <= stamp[a]}
  <1>1. IsFiniteSet(LiveAddresses)
    BY LiveFinite
  <1>2. kept \in SUBSET LiveAddresses
    OBVIOUS
  <1>3. IsFiniteSet(kept)
    BY <1>1, <1>2, FS_Subset
  <1>4. ASSUME NEW a PROVE Cardinality(below(a)) \in Nat
    <2> HIDE DEF kept
    <2>1. below(a) \in SUBSET kept
      OBVIOUS
    <2> HIDE DEF below
    <2>2. IsFiniteSet(below(a))
      BY <2>1, <1>3, FS_Subset
    <2> QED BY <2>2, FS_CardinalityType
  <1>5. Cardinality(kept) \in Nat
    BY <1>3, FS_CardinalityType
  <1>6. stamp' = [a \in LiveAddresses' |-> IF a \in kept THEN Cardinality(below(a))
                                           ELSE Cardinality(kept) + 1]
    BY DEF Stamped
  <1> HIDE DEF kept, below
  <1> QED BY <1>4, <1>5, <1>6

\* New stamps keep the order of the old ones, and what is new and lowest is youngest.
LEMMA StampedAntitone ==
  ASSUME IInv, IInv', stamp \in [LiveAddresses -> Nat], Stamped, Antitone(stamp),
         \A a \in LiveAddresses' \ LiveAddresses : \A b \in LiveAddresses' : a <= b
  PROVE  Antitone(stamp)'
  <1> DEFINE kept == LiveAddresses' \intersect DOMAIN stamp
             below(a) == {b \in kept : stamp[b] <= stamp[a]}
  <1>0. LiveAddresses' \subseteq Nat /\ IsFiniteSet(LiveAddresses) /\ DOMAIN stamp = LiveAddresses
    <2>1. Good(heap')
      BY DEF IInv, TypeOK, Tiling, Good, Tiles
    <2>2. \A i \in 1 .. Len(heap') : heap'[i].adr \in Nat
      BY <2>1, GoodList, BlockFields
    <2>3. LiveAddresses' \subseteq Nat
      BY <2>2 DEF LiveAddresses, Live
    <2> QED BY <2>3, LiveFinite
  <1>1. kept \in SUBSET LiveAddresses /\ kept \subseteq LiveAddresses'
        /\ \A a \in kept : stamp[a] \in Nat
    BY <1>0
  <1>2. IsFiniteSet(kept) /\ Cardinality(kept) \in Nat
    BY <1>0, <1>1, FS_Subset, FS_CardinalityType
  <1>3. stamp' = [a \in LiveAddresses' |-> IF a \in kept THEN Cardinality(below(a))
                                           ELSE Cardinality(kept) + 1]
    BY DEF Stamped
  <1>4. \A a, b \in kept : a < b => stamp[a] > stamp[b]
    BY <1>0 DEF Antitone
  <1>5. \A a \in LiveAddresses' : a \notin kept => \A b \in LiveAddresses' : a <= b
    BY <1>0
  <1> HIDE DEF kept
  <1>6. ASSUME NEW a \in kept
        PROVE  IsFiniteSet(below(a)) /\ Cardinality(below(a)) \in Nat
               /\ Cardinality(below(a)) <= Cardinality(kept)
    <2>1. below(a) \in SUBSET kept
      OBVIOUS
    <2> HIDE DEF below
    <2>2. IsFiniteSet(below(a)) /\ Cardinality(below(a)) <= Cardinality(kept)
      BY <2>1, <1>2, FS_Subset
    <2> QED BY <2>2, FS_CardinalityType
  <1>7. ASSUME NEW a \in kept, NEW b \in kept, a < b
        PROVE  Cardinality(below(b)) < Cardinality(below(a))
    <2>1. stamp[a] > stamp[b] /\ stamp[a] \in Nat /\ stamp[b] \in Nat
      BY <1>1, <1>4, <1>7
    <2>2. below(b) \in SUBSET below(a)
      BY <1>1, <2>1
    <2>3. a \in below(a) /\ a \notin below(b)
      BY <2>1
    <2> HIDE DEF below
    <2>4. /\ Cardinality(below(b)) <= Cardinality(below(a))
          /\ Cardinality(below(a)) = Cardinality(below(b)) => below(a) = below(b)
      BY <1>6, <2>2, FS_Subset
    <2>5. below(a) # below(b)
      BY <2>3
    <2> QED BY <1>6, <2>4, <2>5
  <1> HIDE DEF below
  <1> SUFFICES ASSUME NEW a \in LiveAddresses', NEW b \in LiveAddresses', a < b
               PROVE  stamp'[a] > stamp'[b]
    BY <1>3 DEF Antitone
  <1>8. b \in kept
    <2>1. a \in Nat /\ b \in Nat
      BY <1>0
    <2>2. ~ (b <= a)
      BY <2>1
    <2> QED BY <1>5, <2>2
  <1>9. stamp'[b] = Cardinality(below(b))
    BY <1>3, <1>8
  <1>10. CASE a \in kept
    <2>1. stamp'[a] = Cardinality(below(a))
      BY <1>3, <1>10
    <2>2. Cardinality(below(b)) < Cardinality(below(a))
      BY <1>7, <1>8, <1>10
    <2> QED BY <1>6, <1>8, <1>9, <1>10, <2>1, <2>2
  <1>11. CASE a \notin kept
    <2>1. stamp'[a] = Cardinality(kept) + 1
      BY <1>3, <1>11
    <2>2. Cardinality(below(b)) \in Nat /\ Cardinality(below(b)) <= Cardinality(kept)
      BY <1>6, <1>8
    <2> QED BY <1>2, <1>9, <2>1, <2>2
  <1> QED BY <1>10, <1>11

\* hp_free_int allocates nothing.
LEMMA LoopAddresses ==
  ASSUME RInv, FreeLoop
  PROVE  LiveAddresses' \subseteq LiveAddresses
  <1>1. CASE Release
    <2>1. PICK c, e \in Nat : Shape(c, e)
      BY <1>1, ReleaseShape
    <2>2. IInv'
      BY FreeLoopInv DEF RInv
    <2>3. Good(heap')
      BY <2>2 DEF IInv, TypeOK, Tiling, Good, Tiles
    <2>4. Blocks' = {heap[k] : k \in Live \ (c .. e)}
      BY <2>1, <2>3, ReleaseBlocks
    <2> QED BY <2>4 DEF Blocks, LiveAddresses
  <1>2. CASE Skip \/ EndOfList
    BY <1>2 DEF Skip, EndOfList, LiveAddresses, Live
  <1> QED BY <1>1, <1>2 DEF FreeLoop

-----------------------------------------------------------------------------
(* Steps                                                                   *)

\* Every step of a program is one of the heap, or leaves the heap alone.
LEMMA MarkRInv ==
  ASSUME MInv, [MarkNext]_mvars
  PROVE  RInv'
  <1>1. IInv /\ LoopInv /\ running \in Mods \union {0}
    BY DEF MInv, RInv, Stamps
  <1>2. ASSUME UNCHANGED vars PROVE RInv'
    <2>1. IInv'
      BY <1>1, <1>2, InvParts, SameListInv DEF vars
    <2> QED BY <1>1, <1>2, <2>1 DEF RInv, LoopInv, vars
  <1>3. CASE Allocate
    <2>1. running \in Mods
      BY <1>1, <1>3 DEF Allocate
    <2>2. PICK n \in Sizes : AllocGap(running, n) \/ AllocExtend(running, n) \/ AllocOverflow(n)
      BY <1>3 DEF Allocate
    <2>3. IInv'
      <3>1. CASE AllocGap(running, n)
        BY <1>1, <2>1, <3>1, AllocGapInv
      <3>2. CASE AllocExtend(running, n)
        BY <1>1, <2>1, <3>2, AllocExtendInv
      <3>3. CASE AllocOverflow(n)
        BY <1>1, <3>3, InvParts, SameListInv DEF AllocOverflow
      <3> QED BY <2>2, <3>1, <3>2, <3>3
    <2>4. cur' = 0
      BY <2>2 DEF AllocGap, AllocExtend, AllocOverflow, Idle
    <2> QED BY <2>3, <2>4 DEF RInv, LoopInv
  <1>4. CASE Dispose
    <2>1. PICK p \in Disposals : FreeCall(p)
      BY <1>4 DEF Dispose
    <2>2. IInv'
      BY <1>1, <2>1, DisposalAssumption, FreeCallInv
    <2> QED BY <2>1, <2>2 DEF RInv, LoopInv, FreeCall
  <1>5. ASSUME NEW m \in Mods, NEW l \in Nat, FreeAllCall(m, l) PROVE RInv'
    <2>1. IInv'
      BY <1>1, <1>5, FreeAllCallInv
    <2> QED BY <1>5, <2>1 DEF RInv, LoopInv, FreeAllCall
  <1>6. CASE ResetHeap
    <2>1. PICK a \in Owned(running) : FreeAllCall(running, a)
      BY <1>6 DEF ResetHeap
    <2>2. PICK i \in Live : a = heap[i].adr /\ heap[i].owner = running
      BY DEF Owned
    <2>3. a \in Nat /\ running \in Mods
      BY <1>1, <2>2, LiveFinite DEF Live, FREE
    <2> QED BY <1>5, <2>1, <2>3
  <1>7. CASE StartProgram
    BY <1>2, <1>7 DEF StartProgram
  <1>8. CASE EndProgram
    <2>1. running \in Mods /\ Nil \in Nat
      BY <1>1, <1>8, MemAssumption DEF EndProgram, Nil
    <2> QED BY <1>5, <1>8, <2>1 DEF EndProgram
  <1>9. CASE FreeStep
    <2>1. FreeLoop
      BY <1>9 DEF FreeStep
    <2>2. IInv' /\ LoopInv'
      BY <1>1, <2>1, FreeLoopInv, FreeLoopLoopInv DEF RInv
    <2> QED BY <2>2 DEF RInv
  <1>10. CASE MoveStackPointer
    <2>1. PICK s \in StackTops : MoveStack(s)
      BY <1>10 DEF MoveStackPointer
    <2>2. IInv'
      BY <1>1, <2>1, InvParts, StackAssumption, SameListInv DEF MoveStack
    <2> QED BY <2>1, <2>2 DEF RInv, LoopInv, MoveStack, Idle
  <1>11. CASE UNCHANGED mvars
    BY <1>2, <1>11 DEF mvars
  <1> QED
    BY <1>3, <1>4, <1>6, <1>7, <1>8, <1>9, <1>10, <1>11 DEF MarkNext

\* The running program stays one of the programs, or there is none.
LEMMA RunningType ==
  ASSUME MInv, [MarkNext]_mvars
  PROVE  running' \in Mods \union {0}
  <1>1. running \in Mods \union {0} /\ Cardinality(Mods) \in Nat /\ Mods = 1 .. Cardinality(Mods)
    BY NestingAssumption, FS_CardinalityType DEF MInv, Stamps
  <1>2. CASE StartProgram
    BY <1>2 DEF StartProgram
  <1>3. CASE EndProgram
    <2>1. running' = running - 1 /\ running # 0
      BY <1>3 DEF EndProgram
    <2> QED BY <1>1, <2>1
  <1>4. CASE ~ StartProgram /\ ~ EndProgram
    BY <1>1, <1>4 DEF MarkNext, mvars, Allocate, Dispose, ResetHeap, FreeStep, MoveStackPointer
  <1> QED BY <1>2, <1>3, <1>4

\* What is said of the call in progress stays true.
LEMMA MarkStamps ==
  ASSUME MInv, [MarkNext]_mvars
  PROVE  Stamps'
  <1>1. IInv /\ RInv /\ Stamps /\ IInv'
    BY MarkRInv DEF MInv, RInv
  <1>2. DOMAIN stamp = LiveAddresses /\ stamp \in [DOMAIN stamp -> Nat]
    BY <1>1 DEF Stamps
  <1>3. CASE MarkNext
    <2>1. stamp' \in [LiveAddresses' -> Nat]
      BY <1>1, <1>3, StampedType DEF Stamps, MarkNext
    <2>2. running' \in Mods \union {0}
      BY <1>3, RunningType
    <2>3. DOMAIN stamp' = LiveAddresses'
      BY <2>1
    <2> SUFFICES ASSUME cur' # 0, ~ call'.by_ptr
                 PROVE  /\ \/ call'.mod = running'
                           \/ call'.mod = running' + 1 /\ call'.limit = Nil
                        /\ DOMAIN stamp' \subseteq DOMAIN before'
                        /\ before' \in [DOMAIN before' -> Nat]
                        /\ call'.limit = Nil \/ call'.limit \in DOMAIN before'
      BY <2>1, <2>2 DEF Stamps
    <2>4. CASE ResetHeap
      <3>1. PICK a \in Owned(running) : FreeAllCall(running, a)
        BY <2>4 DEF ResetHeap
      <3>2. call'.mod = running /\ call'.limit = a /\ heap' = heap
        BY <3>1 DEF FreeAllCall
      <3>3. before' = stamp /\ running' = running
        BY <2>4 DEF ResetHeap
      <3>4. a \in LiveAddresses
        BY DEF Owned, LiveAddresses
      <3>5. LiveAddresses' = LiveAddresses
        BY <3>2 DEF LiveAddresses, Live
      <3> QED BY <1>2, <2>3, <3>2, <3>3, <3>4, <3>5
    <2>5. CASE EndProgram
      <3>1. FreeAllCall(running, Nil) /\ running' = running - 1 /\ before' = stamp
        BY <2>5 DEF EndProgram
      <3>2. call'.mod = running /\ call'.limit = Nil /\ heap' = heap
        BY <3>1 DEF FreeAllCall
      <3>3. running \in Nat
        BY <1>1, ModAssumption DEF Stamps
      <3>4. running' + 1 = running
        BY <3>1, <3>3
      <3>5. LiveAddresses' = LiveAddresses
        BY <3>2 DEF LiveAddresses, Live
      <3> QED BY <1>2, <2>3, <3>1, <3>2, <3>4, <3>5
    <2>6. CASE FreeStep
      <3>1. FreeLoop /\ before' = before /\ running' = running /\ cur # 0 /\ call' = call
        BY <2>6 DEF FreeStep, FreeLoop, Release, Skip, EndOfList, Looping
      <3>2. LiveAddresses' \subseteq LiveAddresses
        BY <1>1, <3>1, LoopAddresses
      <3> QED BY <1>1, <1>2, <2>3, <3>1, <3>2 DEF Stamps
    <2>7. ~ Allocate /\ ~ StartProgram /\ ~ MoveStackPointer
      BY DEF Allocate, AllocGap, AllocExtend, AllocOverflow, StartProgram, MoveStackPointer,
             MoveStack, Idle, vars
    <2>8. ~ Dispose
      BY DEF Dispose, FreeCall
    <2> QED BY <1>3, <2>4, <2>5, <2>6, <2>7, <2>8 DEF MarkNext
  <1>4. CASE UNCHANGED mvars
    BY <1>1, <1>4 DEF Stamps, mvars, vars, LiveAddresses, Live
  <1> QED BY <1>3, <1>4

-----------------------------------------------------------------------------
(* Programs that release no single block                                   *)

\* While no call is in progress there is no gap, so that a block is always put below
\* all others.
LEMMA AllocNested ==
  ASSUME MInv, Nested, Allocate, Stamped
  PROVE  Nested'
  <1>1. IInv /\ RInv /\ Stamps /\ IInv' /\ running \in Mods
    <2>1. [MarkNext]_mvars
      BY DEF MarkNext
    <2>2. RInv'
      BY <2>1, MarkRInv
    <2> QED BY <2>2 DEF MInv, RInv, Stamps, Allocate
  <1>2. PICK n \in Sizes : AllocGap(running, n) \/ AllocExtend(running, n) \/ AllocOverflow(n)
    BY DEF Allocate
  <1>3. cur = 0 /\ cur' = 0 /\ running' = running
    BY <1>2 DEF Allocate, AllocGap, AllocExtend, AllocOverflow, Idle
  <1>4. Len(heap) \in Nat \ {0} /\ heap[1] = HeapTop /\ Rounded(n) \in Nat /\ Rounded(n) > 0
    BY <1>1, InvParts, RoundedPositive DEF IInv, Tiling
  <1>5. \A i \in 2 .. Len(heap) : heap[i].owner # FREE
    BY <1>3 DEF Nested
  <1>6. ~ AllocGap(running, n)
    <2> SUFFICES ASSUME AllocGap(running, n) PROVE FALSE
      OBVIOUS
    <2>1. PICK i \in 1 .. Len(heap) : heap[i].owner = FREE /\ heap[i].sz >= Rounded(n)
      BY DEF AllocGap, FirstGap, Fits
    <2>2. i = 1
      BY <1>4, <1>5, <2>1
    <2> QED BY <1>4, <2>1, <2>2 DEF HeapTop
  <1>7. stamp \in [LiveAddresses -> Nat] /\ Antitone(stamp)
    BY <1>1 DEF Stamps, Nested
  <1>8. CASE AllocOverflow(n)
    <2>1. heap' = heap
      BY <1>8 DEF AllocOverflow
    <2>2. LiveAddresses' = LiveAddresses
      BY <2>1 DEF LiveAddresses, Live
    <2>3. Antitone(stamp)'
      BY <1>1, <1>7, <2>2, StampedAntitone
    <2> QED BY <1>3, <2>1, <2>3 DEF Nested, Youngest, Live
  <1>9. CASE AllocExtend(running, n)
    <2> DEFINE b == [adr |-> gs_H - Rounded(n), sz |-> Rounded(n), owner |-> running]
               last == Len(heap) + 1
    <2>1. heap' = Append(heap, b) /\ gs_H' = gs_H - Rounded(n)
      BY <1>9 DEF AllocExtend
    <2>2. b.owner = running /\ b.adr = gs_H' /\ running # FREE /\ running \in Nat
      BY <1>1, <2>1, ModAssumption DEF FREE
    <2> HIDE DEF b
    <2>3. heap \in Seq(Block)
      BY <1>1 DEF IInv, TypeOK
    <2>4. /\ Len(heap') = last /\ heap'[last] = b /\ last \in 1 .. last /\ last \in Nat
          /\ \A i \in 1 .. Len(heap) : heap'[i] = heap[i]
      BY <1>4, <2>1, <2>3
    <2>5. \A i \in 1 .. last : i = last \/ (i \in 1 .. Len(heap) /\ i < last)
      BY <1>4
    <2> HIDE DEF last
    <2>6. \A i \in Live' : i = last \/ (i \in Live /\ heap'[i] = heap[i] /\ i < last)
      BY <2>4, <2>5 DEF Live
    <2>7. last \in Live' /\ heap'[last].owner = running
      BY <2>2, <2>4 DEF Live
    <2>8. \A i \in Live' : heap'[i].owner <= running
      BY <1>3, <2>2, <2>6, <2>7 DEF Nested, Youngest
    <2>9. ASSUME NEW i \in Live', NEW j \in Live', i < j
          PROVE  heap'[i].owner <= heap'[j].owner
      <3>1. CASE j = last
        BY <2>7, <2>8, <3>1
      <3>2. CASE j # last
        <4>1. i # last
          <5>1. j < last /\ j \in Nat /\ i \in Nat
            BY <2>4, <2>6, <3>2 DEF Live
          <5> QED BY <2>4, <2>9, <5>1
        <4> QED BY <2>6, <2>9, <3>2, <4>1 DEF Nested
      <3> QED BY <3>1, <3>2
    <2>10. \A i \in 2 .. Len(heap') : heap'[i].owner # FREE
      <3>1. \A i \in 2 .. last : i = last \/ i \in 2 .. Len(heap)
        BY <1>4 DEF last
      <3>2. \A i \in 2 .. Len(heap) : heap'[i] = heap[i]
        BY <2>4
      <3> QED BY <1>5, <2>2, <2>4, <3>1, <3>2
    <2>11. \A a \in LiveAddresses' \ LiveAddresses : \A c \in LiveAddresses' : a <= c
      <3> SUFFICES ASSUME NEW i \in Live', NEW j \in Live', heap'[i].adr \notin LiveAddresses
                   PROVE  heap'[i].adr <= heap'[j].adr
        BY DEF LiveAddresses
      <3>1. i = last
        BY <2>6 DEF LiveAddresses
      <3>2. Good(heap') /\ heap'[last].adr = gs_H'
        BY <1>1, <2>2, <2>4 DEF IInv, TypeOK, Tiling, Good, Tiles
      <3>3. j \in 1 .. last
        BY <2>4 DEF Live
      <3>4. /\ heap'[j].adr \in Nat /\ heap'[last].adr \in Nat /\ heap'[last].sz \in Nat
        BY <2>4, <3>2, <3>3, GoodList, BlockFields
      <3>5. CASE j = last
        BY <3>1, <3>4, <3>5
      <3>6. CASE j # last
        <4>1. j < last
          BY <2>5, <3>3, <3>6
        <4>2. heap'[last].adr + heap'[last].sz <= heap'[j].adr
          BY <2>4, <3>2, <3>3, <4>1 DEF Good, Descending
        <4> QED BY <3>1, <3>4, <4>2
      <3> QED BY <3>5, <3>6
    <2>12. Antitone(stamp)'
      BY <1>1, <1>7, <2>11, StampedAntitone
    <2> QED BY <1>3, <2>8, <2>9, <2>10, <2>12 DEF Nested, Youngest
  <1> QED BY <1>2, <1>6, <1>8, <1>9

\* A pass of the loop leaves at most one free block, right behind it.
LEMMA LoopNested ==
  ASSUME MInv, Nested, FreeLoop, RInv', running' = running
  PROVE  /\ cur' # 0 => ~ call'.by_ptr
         /\ \A i, j \in Live' : i < j => heap'[i].owner <= heap'[j].owner
         /\ \A i \in Live' : heap'[i].owner <= Youngest'
         /\ \A i \in 2 .. Len(heap') : heap'[i].owner = FREE => cur' # 0 /\ Behind(i)'
  <1>0. /\ IInv /\ IInv' /\ RInv /\ Good(heap) /\ Good(heap') /\ cur # 0 /\ ~ call.by_ptr
        /\ call.mod \in Mods /\ call.mod \in Nat /\ call.mod # FREE
    <2>1. IInv /\ IInv' /\ RInv /\ cur # 0
      BY DEF MInv, RInv, FreeLoop, Release, Skip, EndOfList, Looping
    <2>2. Good(heap) /\ Good(heap')
      BY <2>1 DEF IInv, TypeOK, Tiling, Good, Tiles
    <2>3. ~ call.by_ptr /\ call.mod \in Mods
      BY <2>1 DEF Nested, RInv, LoopInv
    <2> QED BY <2>1, <2>2, <2>3, ModAssumption DEF FREE
  <1>1. /\ Len(heap) \in Nat /\ Len(heap') \in Nat /\ cur \in Nat /\ cur \in 1 .. Len(heap)
    <2>1. Len(heap) \in Nat /\ Len(heap') \in Nat /\ cur \in 0 .. Len(heap)
      BY <1>0, GoodList DEF IInv, TypeOK
    <2> QED BY <1>0, <2>1
  <1>2. /\ \A i \in 1 .. Len(heap) : heap[i] \in Block /\ heap[i].adr \in Nat
                                     /\ heap[i].sz \in Nat
        /\ call.limit \in Nat
    BY <1>0, GoodList, BlockFields DEF IInv, TypeOK, Call
  <1>3. \A i, j \in Live : i < j => heap[i].owner <= heap[j].owner
    BY DEF Nested
  <1>4. \A i \in Live : heap[i].owner <= call.mod /\ heap[i].owner \in Nat
    <2>1. \A i \in Live : heap[i].owner \in Mods
      BY <1>2, BlockFields DEF Live
    <2> QED BY <1>0, <2>1, ModAssumption DEF Nested, Youngest
  <1>5. \A i \in 2 .. Len(heap) : heap[i].owner = FREE => Behind(i)
    BY DEF Nested
  \* What is free behind the position is followed by a block to be released.
  <1>6. ASSUME NEW i \in 2 .. Len(heap), heap[i].owner = FREE, i # cur
        PROVE  /\ i = cur - 1 /\ heap[i].adr <= call.limit
               /\ Releases(cur)
    <2>1. /\ i = cur - 1 /\ heap[i].adr <= call.limit
          /\ \A j \in i + 1 .. Len(heap) : heap[j].owner = call.mod
      BY <1>5, <1>6 DEF Behind
    <2>2. cur \in i + 1 .. Len(heap) /\ cur # 1 /\ i < cur /\ i \in 1 .. Len(heap)
      BY <1>1, <2>1
    <2>3. heap[cur].adr + heap[cur].sz <= heap[i].adr
      BY <1>0, <1>1, <2>2 DEF Good, Descending
    <2>4. heap[cur].adr <= call.limit
      <3>1. heap[cur].adr \in Nat /\ heap[cur].sz \in Nat /\ heap[i].adr \in Nat
        BY <1>1, <1>2, <2>2
      <3>2. call.limit \in Nat /\ heap[i].adr <= call.limit
        BY <1>2, <2>1
      <3> QED BY <2>3, <3>1, <3>2
    <2>5. heap[cur].owner = call.mod
      BY <2>1, <2>2
    <2> QED BY <1>0, <2>1, <2>2, <2>4, <2>5 DEF Releases, IsMatch
  \* A call that ends has released what its module had.
  <1>7. ASSUME cur' = 0, \A i \in Live' : heap'[i].owner <= call.mod
        PROVE  \A i \in Live' : heap'[i].owner <= Youngest'
    <2> SUFFICES ASSUME NEW i \in Live' PROVE heap'[i].owner <= running
      BY <1>7 DEF Youngest
    <2>1. call.mod = running \/ (call.mod = running + 1 /\ call.limit = Nil)
      BY <1>0 DEF MInv, Stamps
    <2>2. CASE call.mod = running
      BY <1>7, <2>2
    <2>3. CASE call.mod = running + 1 /\ call.limit = Nil
      <3>1. heap'[i].adr <= Nil
        BY <1>0, AddressBound DEF Live
      <3>2. heap'[i].owner # call.mod
        BY <1>0, <1>7, <2>3, <3>1, FreeAllDone
      <3>3. heap'[i].owner \in Nat /\ running \in Nat
        <4>1. i \in 1 .. Len(heap') /\ heap'[i].owner # FREE
          BY DEF Live
        <4>2. heap'[i].owner \in Mods
          BY <1>0, <4>1, GoodList, BlockFields
        <4>3. running \in Mods \union {0}
          BY DEF MInv, Stamps
        <4>4. \A x \in Mods : x \in Nat
          BY ModAssumption
        <4> QED BY <4>2, <4>3, <4>4
      <3> QED BY <1>7, <2>3, <3>2, <3>3
    <2> QED BY <2>1, <2>2, <2>3
  <1>8. CASE Release
    <2>1. PICK c, e \in Nat : Shape(c, e)
      BY <1>0, <1>8, ReleaseShape
    <2>2. /\ Releases(cur) /\ heap[cur].owner = call.mod /\ heap[cur].adr <= call.limit
          /\ cur \in Live /\ cur \in 2 .. Len(heap)
      BY <1>0, <1>1, <1>8 DEF Release, Releases, IsMatch, Live
    <2>3. /\ c \in 2 .. cur /\ e \in cur .. Len(heap)
          /\ \A k \in 1 .. c - 1 : heap'[k] = heap[k]
      BY <2>1 DEF Shape
    <2>4. \A k \in cur + 1 .. Len(heap) : heap[k].owner = call.mod
      <3> SUFFICES ASSUME NEW k \in cur + 1 .. Len(heap) PROVE heap[k].owner = call.mod
        OBVIOUS
      <3>1. k \in 2 .. Len(heap) /\ k # cur /\ k # cur - 1 /\ cur < k /\ k \in 1 .. Len(heap)
        BY <1>1
      <3>2. heap[k].owner # FREE
        BY <1>6, <3>1
      <3>3. k \in Live
        BY <3>1, <3>2 DEF Live
      <3> QED BY <1>0, <1>3, <1>4, <2>2, <3>1, <3>3
    <2>5. ASSUME NEW i \in 2 .. c - 1 PROVE heap[i].owner # FREE
      <3> SUFFICES ASSUME heap[i].owner = FREE PROVE FALSE
        OBVIOUS
      <3>1. i \in 2 .. Len(heap) /\ i # cur /\ i < c /\ c <= cur
        BY <1>1, <2>3
      <3>2. i = cur - 1 /\ heap[i].adr <= call.limit
        BY <1>6, <3>1
      <3>3. JoinsPrev(cur)
        BY <1>1, <3>1, <3>2 DEF JoinsPrev, IsFree
      <3>4. c = cur - 1
        BY <2>1, <3>3 DEF Shape
      <3> QED BY <1>1, <3>1, <3>2, <3>4
    <2>6. CASE e = Len(heap)
      <3>1. Len(heap') = c - 1 /\ cur' = 0
        BY <2>1, <2>6 DEF Shape
      <3>2. \A i \in Live' : i \in Live /\ heap'[i] = heap[i]
        <4> SUFFICES ASSUME NEW i \in Live' PROVE i \in Live /\ heap'[i] = heap[i]
          OBVIOUS
        <4>1. i \in 1 .. c - 1 /\ i \in 1 .. Len(heap) /\ heap'[i].owner # FREE
          BY <1>1, <2>3, <3>1 DEF Live
        <4> QED BY <2>3, <4>1 DEF Live
      <3>3. \A i \in Live' : heap'[i].owner <= Youngest'
        BY <1>4, <1>7, <3>1, <3>2
      <3>4. \A i \in 2 .. Len(heap') : heap'[i].owner # FREE
        <4>1. \A i \in 2 .. Len(heap') : i \in 2 .. c - 1 /\ i \in 1 .. c - 1
          BY <3>1
        <4> QED BY <2>3, <2>5, <4>1
      <3> QED BY <1>3, <3>1, <3>2, <3>3, <3>4
    <2>7. CASE e # Len(heap)
      <3>1. /\ Len(heap') = Len(heap) - (e - c) /\ heap'[c].owner = FREE /\ cur' = Onward(c)
            /\ \A k \in c + 1 .. Len(heap') : heap'[k] = heap[k + (e - c)]
        BY <2>1, <2>7 DEF Shape
      <3>2. cur' = c /\ call' = call
        <4>1. cur' = c /\ c # 0
          BY <1>0, <2>3, <3>1 DEF Onward
        <4> QED BY <1>8, <4>1 DEF Release
      <3>3. c + 1 \in c + 1 .. Len(heap') /\ c < Len(heap') /\ c \in 1 .. Len(heap')
            /\ c + 1 + (e - c) = e + 1 /\ e + 1 \in 2 .. Len(heap) /\ e \in 1 .. Len(heap)
            /\ c + 1 \in 2 .. Len(heap')
        BY <1>1, <2>2, <2>3, <2>7, <3>1
      <3>4. ASSUME NEW j \in c + 1 .. Len(heap') PROVE heap'[j].owner = call.mod
        <4>1. j + (e - c) \in cur + 1 .. Len(heap)
          BY <1>1, <2>3, <3>1
        <4> QED BY <2>4, <3>1, <4>1
      <3>5. heap'[c].adr <= call.limit
        <4>1. heap'[c + 1] = heap[e + 1]
          BY <3>1, <3>3
        <4>2. heap'[c + 1].adr + heap'[c + 1].sz = heap'[c].adr
          <5>1. (c + 1) - 1 = c
            BY <3>3
          <5> QED BY <1>0, <3>3, <5>1 DEF Good, Tiles
        <4>3. heap[e + 1].adr + heap[e + 1].sz = heap[e].adr
          <5>1. (e + 1) - 1 = e
            BY <3>3
          <5> QED BY <1>0, <3>3, <5>1 DEF Good, Tiles
        <4>4. heap[e].adr <= heap[cur].adr
          <5>1. /\ heap[e].adr \in Nat /\ heap[cur].adr \in Nat /\ heap[e].sz \in Nat
            BY <1>1, <1>2, <3>3
          <5>2. CASE e = cur
            BY <5>1, <5>2
          <5>3. CASE e # cur
            <6>1. cur < e
              BY <1>1, <2>3, <5>3
            <6>2. heap[e].adr + heap[e].sz <= heap[cur].adr
              BY <1>0, <1>1, <3>3, <6>1 DEF Good, Descending
            <6> QED BY <5>1, <6>2
          <5> QED BY <5>2, <5>3
        <4>5. heap[e].adr \in Nat /\ heap[cur].adr \in Nat
          BY <1>1, <1>2, <3>3
        <4> QED BY <1>2, <2>2, <4>1, <4>2, <4>3, <4>4, <4>5
      <3>6. Behind(c)'
        BY <3>2, <3>3, <3>4, <3>5 DEF Behind
      <3>7. ASSUME NEW i \in 1 .. Len(heap')
            PROVE  \/ i \in 1 .. c - 1 /\ heap'[i] = heap[i] /\ i \in 1 .. Len(heap)
                   \/ i = c
                   \/ i \in c + 1 .. Len(heap') /\ heap'[i].owner = call.mod
        <4>1. i \in 1 .. c - 1 \/ i = c \/ i \in c + 1 .. Len(heap')
          BY <1>1, <2>3
        <4>2. i \in 1 .. c - 1 => i \in 1 .. Len(heap)
          BY <1>1, <2>3
        <4> QED BY <2>3, <3>4, <4>1, <4>2
      <3>8. ASSUME NEW i \in 2 .. Len(heap'), heap'[i].owner = FREE PROVE i = c
        <4>1. i \in 1 .. Len(heap') /\ (i \in 1 .. c - 1 => i \in 2 .. c - 1)
          BY <2>3
        <4> QED BY <1>0, <2>5, <3>7, <3>8, <4>1
      <3>9. ASSUME NEW i \in Live'
            PROVE  \/ i \in Live /\ heap'[i] = heap[i] /\ i < c
                   \/ heap'[i].owner = call.mod /\ i > c
        <4>1. i \in 1 .. Len(heap') /\ heap'[i].owner # FREE
          BY DEF Live
        <4>2. i # c
          BY <3>1, <4>1
        <4>3. (i \in 1 .. c - 1 => i < c) /\ (i \in c + 1 .. Len(heap') => i > c)
          BY <2>3
        <4> QED BY <3>7, <4>1, <4>2, <4>3 DEF Live
      <3>10. \A i \in Live' : heap'[i].owner <= call.mod
        BY <1>0, <1>4, <3>9
      <3>11. ASSUME NEW i \in Live', NEW j \in Live', i < j
             PROVE  heap'[i].owner <= heap'[j].owner
        <4>1. CASE heap'[j].owner = call.mod
          BY <3>10, <4>1
        <4>2. CASE j \in Live /\ heap'[j] = heap[j] /\ j < c
          <5>1. i \in Nat /\ j \in Nat /\ c \in Nat
            BY <1>1 DEF Live
          <5>2. i < c
            BY <3>11, <4>2, <5>1
          <5>3. i \in Live /\ heap'[i] = heap[i]
            BY <3>9, <5>1, <5>2
          <5> QED BY <1>3, <3>11, <4>2, <5>3
        <4> QED BY <3>9, <4>1, <4>2
      <3>12. Youngest' = call.mod /\ cur' # 0 /\ ~ call'.by_ptr
        BY <1>0, <2>3, <3>2 DEF Youngest
      <3> QED BY <3>6, <3>8, <3>10, <3>11, <3>12
    <2> QED BY <2>6, <2>7
  <1>9. CASE Skip
    <2>1. ~ Releases(cur) /\ cur < Len(heap) /\ cur' = cur + 1 /\ heap' = heap /\ call' = call
      BY <1>9 DEF Skip
    <2>2. ASSUME NEW i \in 2 .. Len(heap), heap[i].owner = FREE PROVE cur' # 0 /\ Behind(i)'
      <3>1. i = cur /\ Behind(i)
        BY <1>5, <1>6, <2>1, <2>2
      <3>2. i = cur' - 1 /\ cur' # 0
        BY <1>1, <2>1, <3>1
      <3> QED BY <2>1, <3>1, <3>2 DEF Behind
    <2>3. Youngest' = call.mod /\ cur' # 0 /\ Live' = Live
      BY <1>1, <2>1 DEF Youngest, Live
    <2> QED BY <1>0, <1>3, <1>4, <2>1, <2>2, <2>3
  <1>10. CASE EndOfList
    <2>1. ~ Releases(cur) /\ cur = Len(heap) /\ cur' = 0 /\ heap' = heap
      BY <1>10 DEF EndOfList
    <2>2. Live' = Live
      BY <2>1 DEF Live
    <2>3. \A i \in 2 .. Len(heap) : heap[i].owner # FREE
      <3> SUFFICES ASSUME NEW i \in 2 .. Len(heap), heap[i].owner = FREE PROVE FALSE
        OBVIOUS
      <3>1. i = cur /\ Behind(i)
        BY <1>5, <1>6, <2>1
      <3> QED BY <1>1, <2>1, <3>1 DEF Behind
    <2>4. \A i \in Live' : heap'[i].owner <= Youngest'
      BY <1>4, <1>7, <2>1, <2>2
    <2> QED BY <1>3, <2>1, <2>2, <2>3, <2>4
  <1> QED BY <1>8, <1>9, <1>10 DEF FreeLoop

\* The other steps only change what is in progress, or which program runs.
LEMMA MarkNested ==
  ASSUME MInv, [MarkNext]_mvars
  PROVE  (~ disposed => Nested)'
  <1> SUFFICES ASSUME ~ disposed' PROVE Nested'
    OBVIOUS
  <1>1. RInv' /\ IInv /\ IInv' /\ Stamps
    BY MarkRInv DEF MInv, RInv
  <1>2. CASE UNCHANGED mvars
    BY <1>2 DEF MInv, mvars, vars, history, Nested, Live, Youngest, Behind, Antitone
  <1>3. CASE MarkNext
    <2>1. disposed' = disposed /\ ~ Dispose
      BY <1>3 DEF MarkNext, Allocate, Dispose, ResetHeap, StartProgram, EndProgram, FreeStep,
                  MoveStackPointer, history
    <2>2. Nested
      BY <2>1 DEF MInv
    <2>3. Stamped
      BY <1>3 DEF MarkNext
    <2>4. stamp \in [LiveAddresses -> Nat] /\ Antitone(stamp)
      BY <1>1, <2>2 DEF Stamps, Nested
    <2>5. ASSUME LiveAddresses' \subseteq LiveAddresses PROVE Antitone(stamp)'
      BY <1>1, <2>3, <2>4, <2>5, StampedAntitone
    <2>6. ASSUME heap' = heap PROVE Antitone(stamp)' /\ Live' = Live
      BY <2>5, <2>6 DEF LiveAddresses, Live
    <2>7. ASSUME cur = 0 PROVE \A i \in 2 .. Len(heap) : heap[i].owner # FREE
      BY <2>2, <2>7 DEF Nested
    <2>8. ASSUME cur = 0, cur' = 0, heap' = heap, \A n \in Nat : n <= running => n <= running'
          PROVE  Nested'
      <3>1. \A i \in Live : heap[i].owner <= running /\ heap[i].owner \in Nat
        <4>1. \A i \in Live : heap[i].owner \in Mods
          <5>1. Good(heap)
            BY <1>1, InvGood
          <5> QED BY <5>1, GoodList, BlockFields DEF Live
        <4> QED BY <2>2, <2>8, <4>1, ModAssumption DEF Nested, Youngest
      <3>2. \A i \in Live : heap[i].owner <= running'
        BY <2>8, <3>1
      <3>3. Youngest' = running'
        BY <2>8 DEF Youngest
      <3> QED BY <2>2, <2>6, <2>7, <2>8, <3>2, <3>3 DEF Nested
    <2>9. ASSUME NEW m \in Mods, NEW l \in Nat, FreeAllCall(m, l), m = running, before' = stamp
          PROVE  Nested'
      <3>1. cur = 0 /\ cur' = 1 /\ heap' = heap /\ ~ call'.by_ptr /\ call'.mod = running
        BY <2>9 DEF FreeAllCall, Idle
      <3>2. Antitone(before)'
        BY <2>4, <2>9 DEF Antitone
      <3>3. Youngest' = running /\ Youngest = running
        BY <3>1 DEF Youngest
      <3> QED BY <2>2, <2>6, <2>7, <3>1, <3>2, <3>3 DEF Nested
    <2>10. CASE Allocate
      BY <2>2, <2>3, <2>10, AllocNested
    <2>11. CASE ResetHeap
      <3>1. PICK a \in Owned(running) : FreeAllCall(running, a)
        BY <2>11 DEF ResetHeap
      <3>2. PICK i \in Live : a = heap[i].adr /\ heap[i].owner = running
        BY DEF Owned
      <3>3. a \in Nat /\ running \in Mods
        BY <1>1, <3>2, LiveFinite DEF Live, FREE, Stamps
      <3> QED BY <2>9, <2>11, <3>1, <3>3 DEF ResetHeap
    <2>12. CASE StartProgram
      <3>1. cur = 0 /\ cur' = 0 /\ heap' = heap /\ running' = running + 1
        BY <2>12 DEF StartProgram, Idle, vars
      <3>2. running \in Nat
        BY <1>1, ModAssumption DEF Stamps
      <3> QED BY <2>8, <3>1, <3>2
    <2>13. CASE EndProgram
      <3>1. running \in Mods /\ Nil \in Nat
        BY <1>1, <2>13, MemAssumption DEF EndProgram, Nil, Stamps
      <3> QED BY <2>9, <2>13, <3>1 DEF EndProgram
    <2>14. CASE FreeStep
      <3>1. FreeLoop /\ running' = running /\ before' = (IF cur' = 0 THEN <<>> ELSE before)
        BY <2>14 DEF FreeStep
      <3>2. cur # 0
        BY <3>1 DEF FreeLoop, Release, Skip, EndOfList, Looping
      <3>3. cur' # 0 => Antitone(before)'
        BY <2>2, <3>1, <3>2 DEF Nested, Antitone
      <3>4. Antitone(stamp)'
        BY <1>1, <2>5, <3>1, LoopAddresses DEF MInv
      <3>5. /\ cur' # 0 => ~ call'.by_ptr
            /\ \A i, j \in Live' : i < j => heap'[i].owner <= heap'[j].owner
            /\ \A i \in Live' : heap'[i].owner <= Youngest'
            /\ \A i \in 2 .. Len(heap') : heap'[i].owner = FREE => cur' # 0 /\ Behind(i)'
        BY <1>1, <2>2, <3>1, LoopNested
      <3> QED BY <3>3, <3>4, <3>5 DEF Nested
    <2>15. CASE MoveStackPointer
      <3>1. cur = 0 /\ cur' = 0 /\ heap' = heap /\ running' = running
        BY <2>15 DEF MoveStackPointer, MoveStack, Idle
      <3> QED BY <2>8, <3>1
    <2> QED BY <1>3, <2>1, <2>10, <2>11, <2>12, <2>13, <2>14, <2>15 DEF MarkNext
  <1> QED BY <1>2, <1>3

-----------------------------------------------------------------------------
(* Programs that release single blocks only                                *)

\* hp_alloc takes the high end of a gap, whose low end borders on what the gap
\* bordered on.
LEMMA AllocGapMerged ==
  ASSUME IInv, Merged, NEW n \in Sizes, NEW m \in Mods, AllocGap(m, n)
  PROVE  Merged'
  <1> DEFINE sz == Rounded(n)
  <1>1. PICK i \in 1 .. Len(heap) :
          /\ heap[i].owner = FREE /\ heap[i].sz >= sz
          /\ LET b == heap[i]
                 rest == b.sz - sz
                 taken == [adr |-> b.adr + rest, sz |-> sz, owner |-> m]
                 left == [adr |-> b.adr, sz |-> rest, owner |-> FREE]
             IN heap' = IF rest > 0 THEN Split(heap, i, taken, left)
                        ELSE [heap EXCEPT ![i] = taken]
    BY DEF AllocGap, FirstGap, Fits, sz
  <1> DEFINE rest == heap[i].sz - sz
             taken == [adr |-> heap[i].adr + rest, sz |-> sz, owner |-> m]
             left == [adr |-> heap[i].adr, sz |-> rest, owner |-> FREE]
  <1>2. taken.owner = m /\ m # FREE
    BY ModAssumption DEF FREE
  <1>3. /\ Good(heap) /\ Len(heap) \in Nat \ {0} /\ heap \in [1 .. Len(heap) -> Block]
        /\ sz \in Nat /\ sz > 0
    BY InvGood, GoodList, RoundedPositive
  <1>4. i \in 2 .. Len(heap) - 1
    <2>1. heap[1].sz = 0
      BY <1>3 DEF Good, Tiles, HeapTop
    <2>2. heap[i].owner = FREE /\ heap[i].sz >= sz
      BY <1>1
    <2> HIDE DEF sz
    <2>3. i # 1
      BY <1>3, <2>1, <2>2
    <2>4. Len(heap) > 1 => heap[Len(heap)].owner # FREE
      BY DEF Merged
    <2>5. Len(heap) > 1
      BY <1>3, <2>3
    <2>6. i # Len(heap)
      BY <2>2, <2>4, <2>5
    <2>7. Len(heap) \in Nat
      BY <1>3
    <2> QED BY <2>3, <2>6, <2>7
  <1>5. heap[i + 1].owner # FREE /\ \A k \in 2 .. Len(heap) - 1 : heap[k].owner # FREE \/ heap[k + 1].owner # FREE
    BY <1>1, <1>4 DEF Merged
  <1>6. heap[Len(heap)].owner # FREE
    BY <1>3, <1>4 DEF Merged
  <1>7. CASE rest > 0
    <2>1. heap' = Split(heap, i, taken, left)
      BY <1>1, <1>7
    <2> HIDE DEF taken, left, rest, sz
    <2>2. heap' \in [1 .. Len(heap) + 1 -> {heap[k] : k \in 1 .. Len(heap)} \union {taken, left}]
      BY <1>3, <1>4, <2>1 DEF Split
    <2>3. Len(heap') = Len(heap) + 1
      BY <1>3, <2>2, FunctionIsSeq
    <2>4. /\ \A k \in 1 .. i - 1 : heap'[k] = heap[k]
          /\ heap'[i] = taken
          /\ \A k \in i + 2 .. Len(heap) + 1 : heap'[k] = heap[k - 1]
      BY <1>3, <1>4, <2>1 DEF Split
    <2>5. ASSUME NEW k \in 2 .. Len(heap)
          PROVE  heap'[k].owner # FREE \/ heap'[k + 1].owner # FREE
      <3>1. CASE k = i \/ k + 1 = i
        BY <1>2, <2>4, <3>1
      <3>2. CASE k = i + 1
        <4>1. k + 1 \in i + 2 .. Len(heap) + 1 /\ (k + 1) - 1 = i + 1
          BY <1>3, <1>4, <3>2
        <4> QED BY <1>5, <2>4, <4>1
      <3>3. CASE k + 1 < i
        <4>1. k \in 1 .. i - 1 /\ k + 1 \in 1 .. i - 1 /\ k \in 2 .. Len(heap) - 1
          BY <1>3, <1>4, <3>3
        <4> QED BY <1>5, <2>4, <4>1
      <3>4. CASE k > i + 1
        <4>1. /\ k \in i + 2 .. Len(heap) + 1 /\ k + 1 \in i + 2 .. Len(heap) + 1
              /\ (k + 1) - 1 = (k - 1) + 1 /\ k - 1 \in 2 .. Len(heap) - 1
          BY <1>3, <1>4, <3>4
        <4> QED BY <1>5, <2>4, <4>1
      <3>5. k = i \/ k + 1 = i \/ k = i + 1 \/ k + 1 < i \/ k > i + 1
        BY <1>3, <1>4
      <3> QED BY <3>1, <3>2, <3>3, <3>4, <3>5
    <2>6. heap'[Len(heap) + 1] = heap[Len(heap)]
      <3>1. Len(heap) + 1 \in i + 2 .. Len(heap) + 1 /\ (Len(heap) + 1) - 1 = Len(heap)
        BY <1>3, <1>4
      <3> QED BY <2>4, <3>1
    <2>7. (Len(heap) + 1) - 1 = Len(heap)
      BY <1>3
    <2> QED BY <1>6, <2>3, <2>5, <2>6, <2>7 DEF Merged
  <1>8. CASE ~ (rest > 0)
    <2>1. heap' = [heap EXCEPT ![i] = taken]
      BY <1>1, <1>8
    <2> HIDE DEF taken, left, rest, sz
    <2>2. heap' \in [1 .. Len(heap) -> {heap[k] : k \in 1 .. Len(heap)} \union {taken}]
      BY <1>3, <2>1
    <2>3. Len(heap') = Len(heap)
      BY <1>3, <2>2, FunctionIsSeq
    <2>4. \A k \in 1 .. Len(heap) : heap'[k].owner # FREE \/ heap'[k] = heap[k]
      BY <1>2, <1>3, <2>1
    <2>5. \A k \in 2 .. Len(heap) - 1 : k \in 1 .. Len(heap) /\ k + 1 \in 1 .. Len(heap)
      BY <1>3
    <2>6. Len(heap) \in 1 .. Len(heap)
      BY <1>3
    <2> QED BY <1>5, <1>6, <2>3, <2>4, <2>5, <2>6 DEF Merged
  <1> QED BY <1>7, <1>8

\* A new block below the others is not free.
LEMMA AllocExtendMerged ==
  ASSUME IInv, Merged, NEW n \in Sizes, NEW m \in Mods, AllocExtend(m, n)
  PROVE  Merged'
  <1> DEFINE b == [adr |-> gs_H - Rounded(n), sz |-> Rounded(n), owner |-> m]
  <1>1. heap' = Append(heap, b) /\ heap \in Seq(Block) /\ Len(heap) \in Nat \ {0}
    BY InvGood, GoodList DEF AllocExtend, IInv, TypeOK
  <1>2. b.owner # FREE
    BY ModAssumption DEF FREE
  <1> HIDE DEF b
  <1>3. /\ Len(heap') = Len(heap) + 1 /\ heap'[Len(heap) + 1] = b
        /\ \A k \in 1 .. Len(heap) : heap'[k] = heap[k]
    BY <1>1
  <1>4. ASSUME NEW k \in 2 .. Len(heap)
        PROVE  heap'[k].owner # FREE \/ heap'[k + 1].owner # FREE
    <2>1. CASE k = Len(heap)
      BY <1>2, <1>3, <2>1
    <2>2. CASE k # Len(heap)
      <3>1. k \in 2 .. Len(heap) - 1 /\ k \in 1 .. Len(heap) /\ k + 1 \in 1 .. Len(heap)
        BY <1>1, <2>2
      <3> QED BY <1>3, <3>1 DEF Merged
    <2> QED BY <2>1, <2>2
  <1>5. Len(heap') - 1 = Len(heap)
    BY <1>1, <1>3
  <1> QED BY <1>2, <1>3, <1>4, <1>5 DEF Merged

\* hp_free merges the block with both its neighbours, and takes a free block off
\* the end of the list.
LEMMA ReleaseMerged ==
  ASSUME RInv, Merged, Release, call.by_ptr, call.limit = Nil
  PROVE  Merged' /\ cur' = 0
  <1>1. Good(heap) /\ Nil \in Nat
    BY InvGood, MemAssumption DEF RInv, Nil
  <1>2. Len(heap) \in Nat /\ cur \in Nat /\ Releases(cur) /\ heap[1].adr = Nil
    BY <1>1, CurNat DEF RInv, Release, Good, Tiles, HeapTop
  <1>3. PICK c, e \in Nat : Shape(c, e)
    BY ReleaseShape
  <1>4. /\ c \in 2 .. cur /\ e \in cur .. Len(heap)
        /\ c = (IF JoinsPrev(cur) THEN cur - 1 ELSE cur)
        /\ e = (IF JoinsNext(heap, cur) THEN cur + 1 ELSE cur)
        /\ \A k \in 1 .. c - 1 : heap'[k] = heap[k]
    BY <1>3 DEF Shape
  <1>5. \A k \in 2 .. Len(heap) - 1 : heap[k].owner # FREE \/ heap[k + 1].owner # FREE
    BY DEF Merged
  <1>6. ASSUME NEW k \in 2 .. Len(heap) PROVE heap[k].adr <= call.limit
    <2>1. heap[k].adr \in Nat /\ heap[k].sz \in Nat
      BY <1>1, GoodList, BlockFields
    <2>2. heap[k].adr + heap[k].sz <= heap[1].adr
      BY <1>1, <1>2 DEF Good, Descending
    <2> QED BY <1>1, <1>2, <2>1, <2>2
  \* The block below the merged one is not free.
  <1>7. ASSUME c - 1 # 1 PROVE heap[c - 1].owner # FREE
    <2>1. c - 1 \in 2 .. Len(heap) /\ cur - 1 \in Int
      BY <1>2, <1>4, <1>7
    <2>2. CASE JoinsPrev(cur)
      <3>1. c = cur - 1 /\ heap[cur - 1].owner = FREE
        BY <1>4, <2>2 DEF JoinsPrev, IsFree
      <3>2. c - 1 \in 2 .. Len(heap) - 1 /\ (c - 1) + 1 = cur - 1
        BY <1>2, <1>4, <2>1, <3>1
      <3> QED BY <1>5, <3>1, <3>2
    <2>3. CASE ~ JoinsPrev(cur)
      <3>1. c = cur
        BY <1>4, <2>3
      <3> QED BY <1>2, <1>6, <1>7, <2>1, <2>3, <3>1 DEF JoinsPrev, IsFree
    <2> QED BY <2>2, <2>3
  <1>8. c # 0
    BY <1>4
  <1>9. CASE e = Len(heap)
    <2>1. Len(heap') = c - 1 /\ cur' = 0
      BY <1>3, <1>9 DEF Shape
    <2>2. ASSUME NEW k \in 2 .. Len(heap') - 1
          PROVE  heap'[k].owner # FREE \/ heap'[k + 1].owner # FREE
      <3>1. k \in 1 .. c - 1 /\ k + 1 \in 1 .. c - 1 /\ k \in 2 .. Len(heap) - 1
        BY <1>2, <1>4, <2>1
      <3> QED BY <1>4, <1>5, <3>1
    <2>3. c - 1 \in 1 .. c - 1
      BY <1>4
    <2>4. Len(heap') > 1 => heap'[Len(heap')].owner # FREE
      BY <1>4, <1>7, <2>1, <2>3
    <2> QED BY <2>1, <2>2, <2>4 DEF Merged
  <1>10. CASE e # Len(heap)
    <2>1. /\ Len(heap') = Len(heap) - (e - c) /\ cur' = Onward(c)
          /\ \A k \in c + 1 .. Len(heap') : heap'[k] = heap[k + (e - c)]
      BY <1>3, <1>10 DEF Shape
    <2>2. cur' = 0
      BY <2>1 DEF Onward
    \* Nor is the one above it.
    <2>3. heap'[c + 1].owner # FREE
      <3>1. c + 1 \in c + 1 .. Len(heap') /\ (c + 1) + (e - c) = e + 1
        BY <1>2, <1>4, <1>10, <2>1
      <3>2. heap[e + 1].owner # FREE
        <4>1. CASE JoinsNext(heap, cur)
          <5>1. e = cur + 1 /\ heap[cur + 1].owner = FREE
            BY <1>4, <4>1 DEF JoinsNext, IsFree
          <5>2. e \in 2 .. Len(heap) - 1
            BY <1>2, <1>4, <1>10
          <5> QED BY <1>5, <5>1, <5>2
        <4>2. CASE ~ JoinsNext(heap, cur)
          <5>1. e = cur
            BY <1>4, <4>2
          <5>2. cur < Len(heap) /\ cur + 1 # 1
            BY <1>2, <1>4, <1>10, <5>1
          <5> QED BY <4>2, <5>1, <5>2 DEF JoinsNext, IsFree
        <4> QED BY <4>1, <4>2
      <3> QED BY <2>1, <3>1, <3>2
    <2>7. c \in Nat /\ e \in Nat /\ cur <= e /\ e < Len(heap) /\ c <= cur
      BY <1>2, <1>4, <1>10
    <2>4. Len(heap') \in Nat /\ c < Len(heap')
      BY <1>2, <2>1, <2>7
    <2>5. ASSUME NEW k \in 2 .. Len(heap') - 1
          PROVE  heap'[k].owner # FREE \/ heap'[k + 1].owner # FREE
      <3>1. CASE k = c
        BY <2>3, <3>1
      <3>2. CASE k + 1 = c
        <4>1. k = c - 1 /\ c - 1 # 1 /\ k \in 1 .. c - 1
          BY <1>4, <3>2
        <4> QED BY <1>4, <1>7, <4>1
      <3>3. CASE k + 1 < c
        <4>1. k \in 1 .. c - 1 /\ k + 1 \in 1 .. c - 1 /\ k \in 2 .. Len(heap) - 1
          BY <1>2, <1>4, <3>3
        <4> QED BY <1>4, <1>5, <4>1
      <3>4. CASE k > c
        <4> DEFINE x == k + (e - c)
        <4>1. /\ k \in c + 1 .. Len(heap') /\ k + 1 \in c + 1 .. Len(heap')
              /\ x \in 2 .. Len(heap) - 1 /\ (k + 1) + (e - c) = x + 1
          BY <1>2, <1>4, <2>1, <2>4, <3>4
        <4>2. heap'[k] = heap[x]
          BY <2>1, <4>1
        <4>3. heap'[k + 1] = heap[(k + 1) + (e - c)]
          BY <2>1, <4>1
        <4>4. heap'[k + 1] = heap[x + 1]
          BY <4>1, <4>3
        <4> HIDE DEF x
        <4> QED BY <1>5, <4>1, <4>2, <4>4
      <3>5. k = c \/ k + 1 = c \/ k + 1 < c \/ k > c
        BY <1>4
      <3> QED BY <3>1, <3>2, <3>3, <3>4, <3>5
    <2>6. heap'[Len(heap')].owner # FREE
      <3>1. Len(heap') \in c + 1 .. Len(heap')
        BY <2>4, <2>7
      <3>3. Len(heap') + (e - c) = Len(heap) /\ Len(heap) > 1
        BY <1>2, <1>4, <2>1, <2>7
      <3>2. heap'[Len(heap')] = heap[Len(heap)]
        BY <2>1, <3>1, <3>3
      <3> QED BY <3>2, <3>3 DEF Merged
    <2> QED BY <2>2, <2>5, <2>6 DEF Merged
  <1> QED BY <1>9, <1>10

\* As long as hp_free_all was not called, free blocks have no free neighbours.
LEMMA MarkMerged ==
  ASSUME MInv, [MarkNext]_mvars
  PROVE  ByDispose'
  <1> SUFFICES ASSUME ~ swept'
               PROVE  (cur' # 0 => call'.by_ptr /\ call'.limit = Nil) /\ Merged'
    BY DEF ByDispose
  <1>1. IInv /\ RInv /\ running \in Mods \union {0}
    BY DEF MInv, RInv, Stamps
  <1>2. ~ swept /\ ~ ResetHeap /\ ~ EndProgram
    BY DEF MarkNext, mvars, Allocate, Dispose, ResetHeap, StartProgram, EndProgram, FreeStep,
           MoveStackPointer, history
  <1>3. Merged /\ (cur # 0 => call.by_ptr /\ call.limit = Nil)
    BY <1>2 DEF MInv, ByDispose
  <1>4. ASSUME heap' = heap PROVE Merged'
    BY <1>3, <1>4 DEF Merged
  <1>5. CASE Allocate
    <2>1. running \in Mods
      BY <1>1, <1>5 DEF Allocate
    <2>2. PICK n \in Sizes : AllocGap(running, n) \/ AllocExtend(running, n) \/ AllocOverflow(n)
      BY <1>5 DEF Allocate
    <2>3. cur' = 0
      BY <2>2 DEF AllocGap, AllocExtend, AllocOverflow, Idle
    <2>4. CASE AllocGap(running, n)
      BY <1>1, <1>3, <2>1, <2>3, <2>4, AllocGapMerged
    <2>5. CASE AllocExtend(running, n)
      BY <1>1, <1>3, <2>1, <2>3, <2>5, AllocExtendMerged
    <2>6. CASE AllocOverflow(n)
      BY <1>4, <2>3, <2>6 DEF AllocOverflow
    <2> QED BY <2>2, <2>4, <2>5, <2>6
  <1>6. CASE Dispose
    <2>1. heap' = heap /\ call'.by_ptr /\ call'.limit = Nil
      BY <1>6 DEF Dispose, FreeCall
    <2> QED BY <1>4, <2>1
  <1>7. CASE StartProgram \/ UNCHANGED mvars
    <2>1. UNCHANGED vars
      BY <1>7 DEF StartProgram, mvars
    <2> QED BY <1>3, <1>4, <2>1 DEF vars
  <1>8. CASE FreeStep
    <2>1. cur # 0 /\ call.by_ptr /\ call.limit = Nil /\ FreeLoop
      BY <1>3, <1>8 DEF FreeStep, FreeLoop, Release, Skip, EndOfList, Looping
    <2>2. CASE Release
      BY <1>1, <1>3, <2>1, <2>2, ReleaseMerged
    <2>3. CASE Skip
      BY <1>4, <2>1, <2>3 DEF Skip
    <2>4. CASE EndOfList
      BY <1>4, <2>4 DEF EndOfList
    <2> QED BY <2>1, <2>2, <2>3, <2>4 DEF FreeLoop
  <1>9. CASE MoveStackPointer
    <2>1. heap' = heap /\ cur' = 0
      BY <1>9 DEF MoveStackPointer, MoveStack, Idle
    <2> QED BY <1>4, <2>1
  <1> QED BY <1>2, <1>5, <1>6, <1>7, <1>8, <1>9 DEF MarkNext

-----------------------------------------------------------------------------
(* The properties                                                          *)

\* Before the first program asks for anything.
LEMMA MarkInitInv == MarkInit => MInv
  <1> SUFFICES ASSUME MarkInit PROVE MInv
    OBVIOUS
  <1>1. Init /\ heap = <<HeapTop>> /\ cur = 0
    BY DEF MarkInit, Init
  <1>2. RInv
    BY <1>1, RInvInit
  <1>3. Live = {}
    BY <1>1 DEF Live, HeapTop
  <1>4. LiveAddresses = {}
    BY <1>3 DEF LiveAddresses
  <1>5. 1 \in Mods
    <2>1. Cardinality(Mods) \in Nat
      BY NestingAssumption, FS_CardinalityType
    <2> QED BY <2>1, NestingAssumption
  <1> QED BY <1>1, <1>2, <1>3, <1>4, <1>5
      DEF MInv, Stamps, ByDispose, Merged, Nested, Antitone, Youngest, MarkInit

\* The invariant is inductive.
LEMMA MarkStepInv == MInv /\ [MarkNext]_mvars => MInv'
  BY MarkRInv, MarkStamps, MarkMerged, MarkNested DEF MInv

\* While programs release single blocks only, free space between calls is in one
\* piece with its neighbours, and none of it keeps words from the stack.
THEOREM DisposeCoalesces == MarkSpec => []CoalescedByDispose
  <1>1. MInv => CoalescedByDispose
    BY DEF MInv, ByDispose, Merged, CoalescedByDispose, Coalesced
  <1> QED BY <1>1, MarkInitInv, MarkStepInv, PTL DEF MarkSpec

\* Between calls of programs that release no single block a younger block always
\* lies below an older one, so that ResetHeap may compare addresses.
THEOREM AddressesTellAges == MarkSpec => []AgesFollowAddresses
  <1>1. MInv => AgesFollowAddresses
    BY DEF MInv, Nested, Antitone, AgesFollowAddresses
  <1> QED BY <1>1, MarkInitInv, MarkStepInv, PTL DEF MarkSpec

\* In the loop of hp_free_all, what is above the limit is older than the mark.
LEMMA OlderAbove ==
  ASSUME MInv, Nested, cur # 0, NEW a \in DOMAIN before, a \in Nat, call.limit \in DOMAIN before
  PROVE  before[a] < before[call.limit] <=> a > call.limit
  <1>1. ~ call.by_ptr /\ Antitone(before)
    BY DEF Nested
  <1>2. before \in [DOMAIN before -> Nat]
    BY <1>1 DEF MInv, Stamps
  <1>3. before[a] \in Nat /\ before[call.limit] \in Nat
    BY <1>2
  <1>4. call.limit \in Nat
    BY InvParts DEF MInv, RInv, Call
  <1>5. a > call.limit => before[a] < before[call.limit]
    BY <1>1, <1>4 DEF Antitone
  <1>6. a < call.limit => before[a] > before[call.limit]
    BY <1>1, <1>4 DEF Antitone
  <1> QED BY <1>3, <1>4, <1>5, <1>6

\* ResetHeap gives back the mark and what its program allocated after it; the end of
\* a program gives back all it has.
THEOREM ResetsRelease == MarkSpec => ResetReleasesYounger
  <1> DEFINE Done ==
        (cur # 0 /\ cur' = 0 /\ ~ call.by_ptr /\ ~ disposed) =>
          LET old == {a \in DOMAIN before : \E i \in Live' :
                        heap'[i].adr = a /\ heap'[i].owner = call.mod}
          IN IF call.limit \in DOMAIN before
             THEN \A a \in old : before[a] < before[call.limit]
             ELSE old = {}
  <1>1. MInv /\ [MarkNext]_mvars => [Done]_mvars
    <2> SUFFICES ASSUME MInv, MarkNext, cur # 0, cur' = 0, ~ call.by_ptr, ~ disposed
                 PROVE  Done
      OBVIOUS
    <2>1. FreeLoop
      BY DEF MarkNext, Allocate, AllocGap, AllocExtend, AllocOverflow, Dispose, FreeCall,
             ResetHeap, EndProgram, FreeAllCall, StartProgram, MoveStackPointer, MoveStack,
             FreeStep, Idle
    <2>2. RInv /\ Nested /\ Good(heap')
      <3>1. RInv'
        BY MarkRInv
      <3> QED BY <3>1 DEF MInv, RInv, IInv, TypeOK, Tiling, Good, Tiles
    <2>3. ASSUME NEW a \in DOMAIN before, NEW i \in Live', heap'[i].adr = a,
                 heap'[i].owner = call.mod
          PROVE  a \in Nat /\ a <= Nil /\ ~ (a <= call.limit)
      <3>1. ~ (heap'[i].adr <= call.limit)
        BY <2>1, <2>2, <2>3, FreeAllDone
      <3>2. heap'[i].adr \in Nat /\ heap'[i].adr <= Nil
        BY <2>2, AddressBound DEF Live
      <3> QED BY <2>3, <3>1, <3>2
    <2>4. call.limit = Nil \/ call.limit \in DOMAIN before
      BY DEF MInv, Stamps
    <2>5. call.limit \in Nat
      BY <2>2, InvParts DEF RInv, Call
    <2>6. CASE call.limit \in DOMAIN before
      <3>1. ASSUME NEW a \in DOMAIN before, NEW i \in Live', heap'[i].adr = a,
                   heap'[i].owner = call.mod
            PROVE  before[a] < before[call.limit]
        <4>1. a \in Nat /\ a > call.limit
          BY <2>3, <2>5, <3>1
        <4> QED BY <2>2, <2>6, <4>1, OlderAbove
      <3> QED BY <2>6, <3>1
    <2>7. CASE call.limit \notin DOMAIN before
      BY <2>3, <2>4, <2>7
    <2> QED BY <2>6, <2>7
  <1> QED BY <1>1, MarkInitInv, MarkStepInv, PTL DEF MarkSpec, ResetReleasesYounger

\* ResetHeap leaves what is older than the mark, of whatever program.
THEOREM ResetsKeep == MarkSpec => ResetKeepsOlder
  <1> DEFINE Kept ==
        (cur # 0 /\ ~ call.by_ptr /\ call.limit \in DOMAIN before /\ ~ disposed) =>
          \A a \in DOMAIN stamp :
            before[a] < before[call.limit] => a \in LiveAddresses'
  <1>1. MInv /\ [MarkNext]_mvars => [Kept]_mvars
    <2> SUFFICES ASSUME MInv, MarkNext, cur # 0, ~ call.by_ptr, call.limit \in DOMAIN before,
                        ~ disposed, NEW a \in DOMAIN stamp, before[a] < before[call.limit]
                 PROVE  a \in LiveAddresses'
      OBVIOUS
    <2>1. FreeLoop
      BY DEF MarkNext, Allocate, AllocGap, AllocExtend, AllocOverflow, Dispose, FreeCall,
             ResetHeap, EndProgram, FreeAllCall, StartProgram, MoveStackPointer, MoveStack,
             FreeStep, Idle
    <2>2. RInv /\ Nested /\ Stamps /\ IInv /\ IInv'
      <3>1. RInv'
        BY MarkRInv
      <3> QED BY <3>1 DEF MInv, RInv
    <2>3. a \in LiveAddresses /\ a \in DOMAIN before /\ a \in Nat
      BY <2>2, LiveFinite DEF Stamps
    <2>4. PICK i \in Live : heap[i].adr = a
      BY <2>3 DEF LiveAddresses
    <2>5. a > call.limit /\ call.limit \in Nat
      BY <2>2, <2>3, OlderAbove, InvParts DEF Call
    <2>6. CASE Release
      <3>1. PICK c, e \in Nat : Shape(c, e)
        BY <2>2, <2>6, ReleaseShape
      <3>2. Good(heap')
        BY <2>2 DEF IInv, TypeOK, Tiling, Good, Tiles
      <3>3. Blocks' = {heap[k] : k \in Live \ (c .. e)}
        BY <2>2, <3>1, <3>2, ReleaseBlocks
      <3>4. i \notin c .. e
        <4>1. \A k \in c .. e : heap[k].owner # FREE => heap[k].adr <= call.limit
          BY <3>1 DEF Shape
        <4> QED BY <2>3, <2>4, <2>5, <4>1 DEF Live
      <3>5. heap[i] \in Blocks'
        BY <3>3, <3>4
      <3> QED BY <2>4, <3>5 DEF Blocks, LiveAddresses
    <2>7. CASE Skip \/ EndOfList
      BY <2>3, <2>7 DEF Skip, EndOfList, LiveAddresses, Live
    <2> QED BY <2>1, <2>6, <2>7 DEF FreeLoop
  <1> QED BY <1>1, MarkInitInv, MarkStepInv, PTL DEF MarkSpec, ResetKeepsOlder
=============================================================================
