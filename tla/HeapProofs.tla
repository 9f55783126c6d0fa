----------------------------- MODULE HeapProofs -----------------------------
(***************************************************************************)
(* What holds of the heap for every memory size and every set of programs, *)
(* sizes and pointers, with proofs that TLAPS checks.                      *)
(*                                                                         *)
(* Tiling relates a block to its neighbour only.  That two blocks far      *)
(* apart are disjoint would need an induction along the list; the          *)
(* invariant states the order of every pair instead (Descending), and each *)
(* change of the list is shown to keep it.                                 *)
(***************************************************************************)
EXTENDS MCHeap, Functions, TLAPS

-----------------------------------------------------------------------------
(* Lists of blocks                                                         *)

Tiles(h) ==
  /\ h[1] = HeapTop
  /\ \A i \in 2 .. Len(h) : h[i].sz > 0 /\ h[i].adr + h[i].sz = h[i - 1].adr

Descending(h) ==
  \A i, j \in 1 .. Len(h) : i < j => h[j].adr + h[j].sz <= h[i].adr

Good(h) == h \in Seq(Block) /\ h # <<>> /\ Tiles(h) /\ Descending(h)

\* The inductive invariant.
IInv ==
  /\ TypeOK
  /\ Tiling
  /\ Descending(heap)

-----------------------------------------------------------------------------
\* A function on 1 .. n with values in S is a sequence over S of length n.
LEMMA FunctionIsSeq ==
  ASSUME NEW S, NEW n \in Nat, NEW f \in [1 .. n -> S]
  PROVE  f \in Seq(S) /\ Len(f) = n
  OBVIOUS

\* A good list is a function on its indexes with a first element.
LEMMA GoodList ==
  ASSUME NEW h, Good(h)
  PROVE  /\ Len(h) \in Nat \ {0}
         /\ h \in [1 .. Len(h) -> Block]
         /\ DOMAIN h = 1 .. Len(h)
         /\ \A i \in 1 .. Len(h) : h[i] \in Block
  BY DEF Good

\* The fields of a header.
LEMMA BlockFields ==
  ASSUME NEW b \in Block
  PROVE  b.adr \in Nat /\ b.sz \in Nat /\ b.owner \in Mods \union {FREE}
  BY DEF Block

\* hp_init's list is good.
LEMMA InitGood == Good(<<HeapTop>>)
  <1>1. HeapTop \in Block
    BY MemAssumption DEF HeapTop, Block, Nil, FREE
  <1> QED
    BY <1>1 DEF Good, Tiles, Descending

\* Changing the owner of a header leaves a good list good.
LEMMA OwnerGood ==
  ASSUME NEW h, Good(h), NEW i \in 2 .. Len(h), NEW b \in Block,
         b.adr = h[i].adr, b.sz = h[i].sz,
         NEW g, g = [h EXCEPT ![i] = b]
  PROVE  Good(g) /\ Len(g) = Len(h) /\ g[Len(g)].adr = h[Len(h)].adr
  <1>1. /\ Len(h) \in Nat \ {0} /\ h \in [1 .. Len(h) -> Block]
        /\ DOMAIN h = 1 .. Len(h)
    BY GoodList
  <1>2. g \in [1 .. Len(h) -> Block]
    BY <1>1
  <1>3. g \in Seq(Block) /\ Len(g) = Len(h)
    BY <1>1, <1>2, FunctionIsSeq
  <1>4. \A j \in 1 .. Len(h) : g[j].adr = h[j].adr /\ g[j].sz = h[j].sz
    BY <1>1
  <1>5. g[1] = HeapTop
    BY <1>1 DEF Good, Tiles
  <1>6. Tiles(g)
    BY <1>1, <1>3, <1>4, <1>5 DEF Good, Tiles
  <1>7. Descending(g)
    BY <1>1, <1>3, <1>4 DEF Good, Descending
  <1>8. g # <<>>
    BY <1>1, <1>3
  <1>9. g[Len(g)].adr = h[Len(h)].adr
    <2>1. Len(h) \in 1 .. Len(h)
      BY <1>1
    <2> QED BY <2>1, <1>3, <1>4
  <1> QED
    BY <1>3, <1>6, <1>7, <1>8, <1>9 DEF Good

\* Splitting a block in two parts that make up the whole.
LEMMA SplitGood ==
  ASSUME NEW h, Good(h), NEW i \in 2 .. Len(h), NEW a \in Block, NEW b \in Block,
         a.sz > 0, b.sz > 0,
         b.adr = h[i].adr, b.adr + b.sz = a.adr, a.sz + b.sz = h[i].sz,
         NEW g, g = Split(h, i, a, b)
  PROVE  Good(g) /\ Len(g) = Len(h) + 1 /\ g[Len(g)].adr = h[Len(h)].adr
  <1>1. /\ Len(h) \in Nat \ {0} /\ h \in [1 .. Len(h) -> Block]
        /\ \A j \in 1 .. Len(h) : h[j] \in Block
    BY GoodList
  <1>2. g \in [1 .. Len(h) + 1 -> Block]
    BY <1>1 DEF Split
  <1>3. g \in Seq(Block) /\ Len(g) = Len(h) + 1
    BY <1>1, <1>2, FunctionIsSeq
  <1>4. /\ \A j \in 1 .. i - 1 : g[j] = h[j]
        /\ g[i] = a
        /\ g[i + 1] = b
        /\ \A j \in i + 2 .. Len(h) + 1 : g[j] = h[j - 1]
    BY <1>1 DEF Split
  <1>5. /\ \A j \in 1 .. Len(h) : h[j].adr \in Nat /\ h[j].sz \in Nat
        /\ a.adr \in Nat /\ a.sz \in Nat /\ b.adr \in Nat /\ b.sz \in Nat
    BY <1>1, BlockFields
  <1>6. Tiles(g)
    <2>1. g[1] = HeapTop
      BY <1>1, <1>4 DEF Good, Tiles
    <2>2. ASSUME NEW j \in 2 .. Len(h) + 1
          PROVE  g[j].sz > 0 /\ g[j].adr + g[j].sz = g[j - 1].adr
      <3>1. CASE j < i
        <4>1. g[j] = h[j] /\ g[j - 1] = h[j - 1] /\ j \in 2 .. Len(h)
          BY <3>1, <1>1, <1>4
        <4> QED BY <4>1 DEF Good, Tiles
      <3>2. CASE j = i
        <4>1. g[j] = a /\ g[j - 1] = h[i - 1]
          BY <3>2, <1>1, <1>4
        <4>2. h[i].adr + h[i].sz = h[i - 1].adr
          BY DEF Good, Tiles
        <4>3. a.adr + a.sz = h[i].adr + h[i].sz
          BY <1>1, <1>5
        <4> QED BY <4>1, <4>2, <4>3
      <3>3. CASE j = i + 1
        <4>1. g[j] = b /\ g[j - 1] = a
          BY <3>3, <1>1, <1>4
        <4> QED BY <4>1
      <3>4. CASE j = i + 2
        <4>1. g[j] = h[i + 1] /\ g[j - 1] = b /\ i + 1 \in 2 .. Len(h)
          BY <3>4, <1>1, <1>4
        <4>2. h[i + 1].sz > 0 /\ h[i + 1].adr + h[i + 1].sz = h[i].adr
          BY <4>1, <1>1 DEF Good, Tiles
        <4> QED BY <4>1, <4>2
      <3>5. CASE j > i + 2
        <4>1. g[j] = h[j - 1] /\ g[j - 1] = h[(j - 1) - 1] /\ j - 1 \in 2 .. Len(h)
          BY <3>5, <1>1, <1>4
        <4> QED BY <4>1 DEF Good, Tiles
      <3> QED BY <3>1, <3>2, <3>3, <3>4, <3>5, <1>1
    <2> QED BY <2>1, <2>2, <1>3 DEF Tiles
  <1>7. Descending(g)
    <2> SUFFICES ASSUME NEW j \in 1 .. Len(h) + 1, NEW k \in 1 .. Len(h) + 1, j < k
                 PROVE  g[k].adr + g[k].sz <= g[j].adr
      BY <1>3 DEF Descending
    <2>0. \A x, y \in 1 .. Len(h) : x < y => h[y].adr + h[y].sz <= h[x].adr
      BY DEF Good, Descending
    <2>1. CASE k < i
      <3>1. g[k] = h[k] /\ g[j] = h[j] /\ k \in 1 .. Len(h) /\ j \in 1 .. Len(h)
        BY <2>1, <1>1, <1>4
      <3> QED BY <3>1, <2>0
    <2>2. CASE k = i
      <3>1. g[k] = a /\ g[j] = h[j] /\ j \in 1 .. Len(h) /\ j < i
        BY <2>2, <1>1, <1>4
      <3>2. h[i].adr + h[i].sz <= h[j].adr
        BY <3>1, <2>0
      <3> QED BY <3>1, <3>2, <1>1, <1>5
    <2>3. CASE k = i + 1 /\ j = i
      BY <2>3, <1>4, <1>5
    <2>4. CASE k = i + 1 /\ j < i
      <3>1. g[k] = b /\ g[j] = h[j] /\ j \in 1 .. Len(h)
        BY <2>4, <1>1, <1>4
      <3>2. h[i].adr + h[i].sz <= h[j].adr
        BY <3>1, <2>4, <2>0
      <3>3. b.adr + b.sz <= h[i].adr + h[i].sz
        BY <1>1, <1>5
      <3>4. h[j].adr \in Nat /\ h[i].adr + h[i].sz \in Nat /\ b.adr + b.sz \in Nat
        <4>1. h[j] \in Block /\ h[i] \in Block
          BY <3>1, <1>1
        <4>2. \A x \in Block : x.adr \in Nat /\ x.adr + x.sz \in Nat
          BY DEF Block
        <4> QED BY <4>1, <4>2
      <3> QED BY <3>1, <3>2, <3>3, <3>4
    <2>5. CASE k > i + 1
      <3>1. g[k] = h[k - 1] /\ k - 1 \in 1 .. Len(h)
        BY <2>5, <1>1, <1>4
      <3>2. CASE j < i
        <4>1. g[j] = h[j] /\ j \in 1 .. Len(h) /\ j < k - 1
          BY <3>2, <2>5, <1>1, <1>4
        <4> QED BY <3>1, <4>1, <2>0
      <3>3. CASE j = i \/ j = i + 1
        <4>1. h[i].adr <= g[j].adr
          <5>1. CASE j = i
            BY <5>1, <1>4, <1>5
          <5>2. CASE j = i + 1
            BY <5>2, <1>4, <1>5
          <5> QED BY <3>3, <5>1, <5>2
        <4>2. h[k - 1].adr + h[k - 1].sz <= h[i].adr
          BY <2>5, <3>1, <2>0
        <4>3. g[j] \in Block /\ h[k - 1] \in Block /\ h[i].adr \in Nat
          BY <1>1, <1>2, <1>5, <3>1
        <4>4. h[k - 1].adr + h[k - 1].sz \in Nat /\ g[j].adr \in Nat
          <5>1. \A x \in Block : x.adr \in Nat /\ x.adr + x.sz \in Nat
            BY DEF Block
          <5> QED BY <4>3, <5>1
        <4> QED BY <3>1, <4>1, <4>2, <4>3, <4>4
      <3>4. CASE j > i + 1
        <4>1. g[j] = h[j - 1] /\ j - 1 \in 1 .. Len(h) /\ j - 1 < k - 1
          BY <3>4, <1>1, <1>4
        <4> QED BY <3>1, <4>1, <2>0
      <3> QED BY <3>2, <3>3, <3>4, <1>1
    <2> QED BY <2>1, <2>2, <2>3, <2>4, <2>5, <1>1
  <1>8. g[Len(g)].adr = h[Len(h)].adr
    <2>1. CASE i = Len(h)
      <3>1. Len(g) = i + 1 /\ g[i + 1] = b
        BY <2>1, <1>3, <1>4
      <3> QED BY <3>1, <2>1
    <2>2. CASE i < Len(h)
      <3>1. Len(h) + 1 \in i + 2 .. Len(h) + 1 \/ i + 1 = Len(h) + 1
        BY <2>2, <1>1
      <3>2. g[Len(h) + 1] = h[Len(h)]
        <4>1. CASE i + 1 = Len(h)
          BY <4>1, <3>1, <1>1, <1>4
        <4>2. CASE i + 1 < Len(h)
          BY <4>2, <3>1, <1>1, <1>4
        <4> QED BY <4>1, <4>2, <2>2, <1>1
      <3> QED BY <3>2, <1>1, <1>3
    <2>3. i = Len(h) \/ i < Len(h)
      <3>1. Len(h) \in Nat
        BY <1>1
      <3> QED BY <3>1
    <2> QED BY <2>1, <2>2, <2>3
  <1>9. g # <<>>
    BY <1>1, <1>3
  <1> QED
    BY <1>3, <1>6, <1>7, <1>8, <1>9 DEF Good

\* Merging a header with its successor.
LEMMA ConsolidateGood ==
  ASSUME NEW h, Good(h), NEW i \in 2 .. Len(h) - 1,
         NEW g, g = Consolidate(h, i)
  PROVE  /\ Good(g) /\ Len(g) = Len(h) - 1
         /\ g[Len(g)].adr = h[Len(h)].adr
         /\ \A j \in 1 .. i - 1 : g[j] = h[j]
         /\ g[i].owner = h[i].owner
         /\ \A j \in i + 1 .. Len(h) - 1 : g[j] = h[j + 1]
  <1>1. /\ Len(h) \in Nat \ {0} /\ h \in [1 .. Len(h) -> Block]
        /\ \A j \in 1 .. Len(h) : h[j] \in Block
    BY GoodList
  <1> DEFINE m == [adr |-> h[i + 1].adr, sz |-> h[i].sz + h[i + 1].sz,
                   owner |-> h[i].owner]
  <1>2. /\ i \in 1 .. Len(h) /\ i + 1 \in 1 .. Len(h)
        /\ Len(h) \in Nat /\ Len(h) - 1 \in Nat
    BY <1>1
  <1>3. /\ m \in Block
        /\ m.adr = h[i + 1].adr /\ m.sz = h[i].sz + h[i + 1].sz
        /\ m.owner = h[i].owner
    <2>1. h[i] \in Block /\ h[i + 1] \in Block
      BY <1>1, <1>2
    <2>2. h[i].sz + h[i + 1].sz \in Nat /\ h[i + 1].adr \in Nat
      BY <2>1, BlockFields
    <2> QED BY <2>1, <2>2 DEF Block
  <1> HIDE DEF m
  <1>4. g = [j \in 1 .. Len(h) - 1 |->
               IF j < i THEN h[j] ELSE IF j = i THEN m ELSE h[j + 1]]
    BY DEF Consolidate, m
  <1>5. g \in [1 .. Len(h) - 1 -> Block]
    BY <1>1, <1>3, <1>4
  <1>6. g \in Seq(Block) /\ Len(g) = Len(h) - 1
    BY <1>2, <1>5, FunctionIsSeq
  <1>7. /\ \A j \in 1 .. i - 1 : g[j] = h[j]
        /\ g[i] = m
        /\ \A j \in i + 1 .. Len(h) - 1 : g[j] = h[j + 1]
    BY <1>2, <1>4
  <1>8. \A j \in 1 .. Len(h) : h[j].adr \in Nat /\ h[j].sz \in Nat
    BY <1>1, BlockFields
  <1>9. \A j \in 2 .. Len(h) : h[j].sz > 0 /\ h[j].adr + h[j].sz = h[j - 1].adr
    BY DEF Good, Tiles
  <1>10. Tiles(g)
    <2>1. g[1] = HeapTop
      BY <1>2, <1>7 DEF Good, Tiles
    <2>2. ASSUME NEW j \in 2 .. Len(h) - 1
          PROVE  g[j].sz > 0 /\ g[j].adr + g[j].sz = g[j - 1].adr
      <3>1. CASE j < i
        <4>1. g[j] = h[j] /\ g[j - 1] = h[j - 1] /\ j \in 2 .. Len(h)
          BY <3>1, <1>2, <1>7
        <4> QED BY <4>1, <1>9
      <3>2. CASE j = i
        <4>1. g[j] = m /\ g[j - 1] = h[i - 1]
          BY <3>2, <1>2, <1>7
        <4>2. h[i].sz > 0 /\ h[i].adr + h[i].sz = h[i - 1].adr
          BY <1>2, <1>9
        <4>3. h[i + 1].adr + h[i + 1].sz = h[i].adr
          <5>1. i + 1 \in 2 .. Len(h) /\ (i + 1) - 1 = i
            BY <1>2
          <5> QED BY <5>1, <1>9
        <4> QED BY <4>1, <4>2, <4>3, <1>2, <1>3, <1>8
      <3>3. CASE j = i + 1
        <4>1. g[j] = h[i + 2] /\ g[j - 1] = m /\ i + 2 \in 2 .. Len(h)
              /\ (i + 2) - 1 = i + 1
          BY <3>3, <1>2, <1>7
        <4> QED BY <4>1, <1>3, <1>9
      <3>4. CASE j > i + 1
        <4>1. g[j] = h[j + 1] /\ g[j - 1] = h[j] /\ j + 1 \in 2 .. Len(h)
              /\ (j + 1) - 1 = j
          BY <3>4, <1>2, <1>7
        <4> QED BY <4>1, <1>9
      <3> QED BY <3>1, <3>2, <3>3, <3>4, <1>2
    <2> QED BY <2>1, <2>2, <1>6 DEF Tiles
  <1>11. Descending(g)
    <2> SUFFICES ASSUME NEW j \in 1 .. Len(h) - 1, NEW k \in 1 .. Len(h) - 1, j < k
                 PROVE  g[k].adr + g[k].sz <= g[j].adr
      BY <1>6 DEF Descending
    <2>0. \A x, y \in 1 .. Len(h) : x < y => h[y].adr + h[y].sz <= h[x].adr
      BY DEF Good, Descending
    <2>1. CASE k < i
      <3>1. g[k] = h[k] /\ g[j] = h[j] /\ k \in 1 .. Len(h) /\ j \in 1 .. Len(h)
        BY <2>1, <1>2, <1>7
      <3> QED BY <3>1, <2>0
    <2>2. CASE k = i
      <3>1. g[k] = m /\ g[j] = h[j] /\ j \in 1 .. Len(h) /\ j < i
        BY <2>2, <1>2, <1>7
      <3>2. h[i].adr + h[i].sz <= h[j].adr
        BY <3>1, <1>2, <2>0
      <3>3. h[i + 1].adr + h[i + 1].sz = h[i].adr
        <4>1. i + 1 \in 2 .. Len(h) /\ (i + 1) - 1 = i
          BY <1>2
        <4> QED BY <4>1, <1>9
      <3> QED BY <3>1, <3>2, <3>3, <1>2, <1>3, <1>8
    <2>3. CASE k > i
      <3>1. g[k] = h[k + 1] /\ k + 1 \in 1 .. Len(h)
        BY <2>3, <1>2, <1>7
      <3>2. CASE j < i
        <4>1. g[j] = h[j] /\ j \in 1 .. Len(h) /\ j < k + 1
          BY <3>2, <1>2, <1>7
        <4> QED BY <3>1, <4>1, <2>0
      <3>3. CASE j = i
        <4>1. g[j].adr = h[i + 1].adr /\ i + 1 < k + 1
          BY <3>3, <2>3, <1>2, <1>3, <1>7
        <4> QED BY <3>1, <4>1, <1>2, <2>0
      <3>4. CASE j > i
        <4>1. g[j] = h[j + 1] /\ j + 1 \in 1 .. Len(h) /\ j + 1 < k + 1
          BY <3>4, <1>2, <1>7
        <4> QED BY <3>1, <4>1, <2>0
      <3> QED BY <3>2, <3>3, <3>4, <1>2
    <2> QED BY <2>1, <2>2, <2>3, <1>2
  <1>12. g[Len(g)].adr = h[Len(h)].adr
    <2>1. CASE i = Len(h) - 1
      <3>1. g[Len(g)] = m /\ Len(h) = i + 1
        BY <2>1, <1>2, <1>6, <1>7
      <3> QED BY <3>1, <1>3
    <2>2. CASE i < Len(h) - 1
      <3>1. Len(h) - 1 \in i + 1 .. Len(h) - 1 /\ (Len(h) - 1) + 1 = Len(h)
        BY <2>2, <1>2
      <3> QED BY <3>1, <1>6, <1>7
    <2>3. i = Len(h) - 1 \/ i < Len(h) - 1
      BY <1>2
    <2> QED BY <2>1, <2>2, <2>3
  <1>13. g # <<>>
    BY <1>2, <1>6
  <1> QED
    BY <1>3, <1>6, <1>7, <1>10, <1>11, <1>12, <1>13 DEF Good

\* Taking the last header off.
LEMMA DropLastGood ==
  ASSUME NEW h, Good(h), Len(h) >= 2, NEW g, g = DropLast(h)
  PROVE  /\ Good(g) /\ Len(g) = Len(h) - 1
         /\ g[Len(g)].adr = h[Len(h) - 1].adr
  <1>1. /\ Len(h) \in Nat /\ h \in [1 .. Len(h) -> Block]
        /\ \A j \in 1 .. Len(h) : h[j] \in Block
    BY GoodList
  <1>2. g \in [1 .. Len(h) - 1 -> Block] /\ Len(h) - 1 \in Nat
    BY <1>1 DEF DropLast
  <1>3. g \in Seq(Block) /\ Len(g) = Len(h) - 1
    BY <1>2, FunctionIsSeq
  <1>4. \A j \in 1 .. Len(h) - 1 : g[j] = h[j]
    BY DEF DropLast
  <1>5. Tiles(g)
    BY <1>1, <1>3, <1>4 DEF Good, Tiles
  <1>6. Descending(g)
    BY <1>1, <1>3, <1>4 DEF Good, Descending
  <1>7. Len(h) - 1 \in 1 .. Len(h) - 1
    BY <1>1
  <1>8. g # <<>>
    BY <1>3, <1>7
  <1> QED
    BY <1>3, <1>4, <1>5, <1>6, <1>7, <1>8 DEF Good

\* A new block directly below the last one.
LEMMA AppendGood ==
  ASSUME NEW h, Good(h), NEW b \in Block,
         b.sz > 0, b.adr + b.sz = h[Len(h)].adr, NEW g, g = Append(h, b)
  PROVE  Good(g) /\ Len(g) = Len(h) + 1 /\ g[Len(g)] = b
  <1>1. /\ Len(h) \in Nat \ {0} /\ h \in [1 .. Len(h) -> Block]
        /\ \A j \in 1 .. Len(h) : h[j] \in Block
    BY GoodList
  <1>2. g \in Seq(Block) /\ Len(g) = Len(h) + 1
    BY DEF Good
  <1>3. (\A j \in 1 .. Len(h) : g[j] = h[j]) /\ g[Len(h) + 1] = b
    BY <1>1 DEF Good
  <1>4. Len(h) \in 1 .. Len(h) /\ 1 \in 1 .. Len(h) /\ Len(h) \in Nat
    BY <1>1
  <1>5. \A j \in 1 .. Len(h) : h[j].adr \in Nat /\ h[j].sz \in Nat
    BY <1>1, BlockFields
  <1>6. Tiles(g)
    <2>1. g[1] = HeapTop
      BY <1>3, <1>4 DEF Good, Tiles
    <2>2. ASSUME NEW j \in 2 .. Len(h) + 1
          PROVE  g[j].sz > 0 /\ g[j].adr + g[j].sz = g[j - 1].adr
      <3>1. CASE j = Len(h) + 1
        <4>1. g[j] = b /\ g[j - 1] = h[Len(h)]
          BY <3>1, <1>3, <1>4
        <4> QED BY <4>1
      <3>2. CASE j \in 2 .. Len(h)
        <4>1. g[j] = h[j] /\ g[j - 1] = h[j - 1]
          BY <3>2, <1>3, <1>4
        <4> QED BY <3>2, <4>1 DEF Good, Tiles
      <3> QED BY <3>1, <3>2, <1>4
    <2> QED BY <2>1, <2>2, <1>2 DEF Tiles
  <1>7. Descending(g)
    <2> SUFFICES ASSUME NEW j \in 1 .. Len(h) + 1, NEW k \in 1 .. Len(h) + 1, j < k
                 PROVE  g[k].adr + g[k].sz <= g[j].adr
      BY <1>2 DEF Descending
    <2>0. \A x, y \in 1 .. Len(h) : x < y => h[y].adr + h[y].sz <= h[x].adr
      BY DEF Good, Descending
    <2>1. CASE k \in 1 .. Len(h)
      <3>1. g[k] = h[k] /\ g[j] = h[j] /\ j \in 1 .. Len(h)
        BY <2>1, <1>3, <1>4
      <3> QED BY <2>1, <3>1, <2>0
    <2>2. CASE k = Len(h) + 1
      <3>1. g[k] = b /\ g[j] = h[j] /\ j \in 1 .. Len(h)
        BY <2>2, <1>3, <1>4
      <3>2. h[Len(h)].adr <= h[j].adr
        <4>1. CASE j = Len(h)
          BY <4>1, <1>4, <1>5
        <4>2. CASE j < Len(h)
          <5>1. h[Len(h)].adr + h[Len(h)].sz <= h[j].adr
            BY <3>1, <4>2, <1>4, <2>0
          <5> QED BY <3>1, <5>1, <1>4, <1>5
        <4> QED BY <3>1, <4>1, <4>2, <1>4
      <3> QED BY <3>1, <3>2
    <2> QED BY <2>1, <2>2, <1>4
  <1>8. g # <<>>
    BY <1>2, <1>4
  <1> QED
    BY <1>2, <1>3, <1>6, <1>7, <1>8 DEF Good

-----------------------------------------------------------------------------
(* The invariant                                                           *)

\* The invariant says that the list is good.
LEMMA InvGood ==
  ASSUME IInv
  PROVE  Good(heap) /\ heap[Len(heap)].adr = gs_H
  BY DEF IInv, TypeOK, Tiling, Good, Tiles

\* A good list whose last block begins at gs_H tiles the memory.
LEMMA GoodTiling ==
  ASSUME Good(heap)', (heap[Len(heap)].adr = gs_H)'
  PROVE  Tiling' /\ Descending(heap)' /\ (heap \in Seq(Block) /\ heap # <<>>)'
  BY DEF Tiling, Good, Tiles

\* The list of hp_init.
LEMMA InitInv == Init => IInv
  <1> SUFFICES ASSUME Init PROVE IInv
    OBVIOUS
  <1>1. Good(heap)
    BY InitGood DEF Init
  <1>2. heap[Len(heap)].adr = gs_H
    BY DEF Init, HeapTop
  <1>3. TypeOK
    BY <1>1, MemAssumption, StackAssumption
    DEF Init, TypeOK, Good, Nil, NoCall, Call
  <1> QED
    BY <1>1, <1>2, <1>3 DEF IInv, Tiling, Good, Tiles

\* A rounded size is at least one word.
LEMMA RoundedPositive ==
  ASSUME NEW n \in Sizes
  PROVE  Rounded(n) \in Nat /\ Rounded(n) > 0
  BY SizeAssumption DEF Rounded

\* hp_alloc takes a gap or a part of one.
LEMMA AllocGapInv ==
  ASSUME IInv, NEW mod \in Mods, NEW n \in Sizes, AllocGap(mod, n)
  PROVE  IInv'
  <1> DEFINE sz == Rounded(n)
  <1>1. sz \in Nat /\ sz > 0
    BY RoundedPositive
  <1> HIDE DEF sz
  <1>2. PICK i \in 1 .. Len(heap) :
          /\ heap[i].owner = FREE /\ heap[i].sz >= sz
          /\ LET b == heap[i]
                 rest == b.sz - sz
                 taken == [adr |-> b.adr + rest, sz |-> sz, owner |-> mod]
                 left == [adr |-> b.adr, sz |-> rest, owner |-> FREE]
             IN heap' = IF rest > 0 THEN Split(heap, i, taken, left)
                        ELSE [heap EXCEPT ![i] = taken]
    BY DEF AllocGap, FirstGap, Fits, sz
  <1>3. Good(heap) /\ heap[Len(heap)].adr = gs_H
    BY InvGood
  <1>4. Len(heap) \in Nat \ {0} /\ heap[i] \in Block
    BY <1>3, GoodList
  <1>5. heap[i].adr \in Nat /\ heap[i].sz \in Nat
    BY <1>4, BlockFields
  <1>6. i \in 2 .. Len(heap)
    <2>1. heap[1].sz = 0
      BY <1>3 DEF Good, Tiles, HeapTop
    <2> QED BY <2>1, <1>1, <1>2, <1>4
  <1> DEFINE rest == heap[i].sz - sz
             taken == [adr |-> heap[i].adr + rest, sz |-> sz, owner |-> mod]
             left == [adr |-> heap[i].adr, sz |-> rest, owner |-> FREE]
  <1>7. rest \in Nat
    BY <1>1, <1>2, <1>5
  <1>8. taken \in Block /\ left \in Block
    BY <1>1, <1>5, <1>7 DEF Block
  <1>9. Good(heap') /\ Len(heap') >= Len(heap)
        /\ heap'[Len(heap')].adr = heap[Len(heap)].adr
    <2>1. CASE rest > 0
      <3>1. heap' = Split(heap, i, taken, left)
        BY <2>1, <1>2
      <3>2. /\ taken.sz > 0 /\ left.sz > 0
            /\ left.adr = heap[i].adr /\ left.adr + left.sz = taken.adr
            /\ taken.sz + left.sz = heap[i].sz
        BY <2>1, <1>1, <1>5, <1>7
      <3> HIDE DEF taken, left
      <3>3. Good(heap') /\ Len(heap') = Len(heap) + 1
            /\ heap'[Len(heap')].adr = heap[Len(heap)].adr
        BY <3>1, <3>2, <1>3, <1>6, <1>8, SplitGood
      <3> QED BY <3>3, <1>4
    <2>2. CASE ~ (rest > 0)
      <3>1. heap' = [heap EXCEPT ![i] = taken]
        BY <2>2, <1>2
      <3>2. rest = 0
        BY <2>2, <1>7
      <3>3. taken.adr = heap[i].adr /\ taken.sz = heap[i].sz
        BY <3>2, <1>1, <1>5
      <3> HIDE DEF taken
      <3> DEFINE g == [heap EXCEPT ![i] = taken]
      <3>4. Good(g) /\ Len(g) = Len(heap) /\ g[Len(g)].adr = heap[Len(heap)].adr
        BY <3>3, <1>3, <1>6, <1>8, OwnerGood, Zenon
      <3> HIDE DEF g
      <3>5. heap' = g
        BY <3>1 DEF g
      <3> QED BY <3>4, <3>5, <1>4
    <2> QED BY <2>1, <2>2
  <1>10. UNCHANGED <<gs_H, gs_S, cur, call, status>>
    BY DEF AllocGap
  <1>11. cur = 0
    BY DEF AllocGap, Idle
  <1>12. Tiling' /\ Descending(heap)' /\ (heap \in Seq(Block) /\ heap # <<>>)'
    BY <1>3, <1>9, <1>10, GoodTiling
  <1>13. TypeOK'
    <2>1. 0 \in 0 .. Len(heap')
      BY <1>4, <1>9, GoodList
    <2> QED BY <2>1, <1>10, <1>11, <1>12 DEF IInv, TypeOK
  <1> QED BY <1>12, <1>13 DEF IInv

\* hp_alloc extends the heap downwards; the check against gs_S keeps it clear
\* of the stack and of address 0.
LEMMA AllocExtendInv ==
  ASSUME IInv, NEW mod \in Mods, NEW n \in Sizes, AllocExtend(mod, n)
  PROVE  IInv'
  <1> DEFINE sz == Rounded(n)
             b == [adr |-> gs_H - sz, sz |-> sz, owner |-> mod]
  <1>1. sz \in Nat /\ sz > 0
    BY RoundedPositive
  <1>2. /\ gs_H - gs_S > sz /\ gs_H' = gs_H - sz /\ heap' = Append(heap, b)
        /\ UNCHANGED <<gs_S, cur, call, status>> /\ cur = 0
    BY DEF AllocExtend, Idle
  <1> HIDE DEF sz
  <1>3. Good(heap) /\ heap[Len(heap)].adr = gs_H
    BY InvGood
  <1>4. gs_H \in Nat /\ gs_S \in Nat
    BY DEF IInv, TypeOK
  <1>5. gs_H - sz \in Nat
    BY <1>1, <1>2, <1>4
  <1>6. b \in Block /\ b.sz > 0 /\ b.adr + b.sz = gs_H /\ b.adr = gs_H'
    BY <1>1, <1>2, <1>4, <1>5 DEF Block
  <1> HIDE DEF b
  <1>7. Good(heap') /\ Len(heap') = Len(heap) + 1 /\ heap'[Len(heap')] = b
    BY <1>2, <1>3, <1>6, AppendGood
  <1>8. Tiling' /\ Descending(heap)' /\ (heap \in Seq(Block) /\ heap # <<>>)'
    BY <1>6, <1>7, GoodTiling
  <1>9. TypeOK'
    <2>1. 0 \in 0 .. Len(heap')
      BY <1>7, GoodList
    <2> QED BY <2>1, <1>2, <1>5, <1>8 DEF IInv, TypeOK
  <1> QED BY <1>8, <1>9 DEF IInv

\* Steps that leave the list and gs_H alone.
LEMMA SameListInv ==
  ASSUME IInv, UNCHANGED <<heap, gs_H>>, gs_S' \in Nat, cur' \in 0 .. Len(heap),
         call' \in Call,
         status' \in {"run", "heap overflow", "heap pointer invalid"}
  PROVE  IInv'
  BY DEF IInv, TypeOK, Tiling, Descending

\* The loop body of hp_free_int when a block is released.  The list passes
\* through two intermediate forms, after the release and after the merge with
\* the previous block, and each of them is good.
LEMMA ReleaseInv ==
  ASSUME IInv, Release
  PROVE  IInv'
  <1> DEFINE prev == JoinsPrev(cur)
             c == IF prev THEN cur - 1 ELSE cur
             h1 == IF prev THEN Consolidate(Freed(cur), c) ELSE Freed(cur)
             next == JoinsNext(h1, c)
             h2 == IF next THEN Consolidate(h1, c) ELSE h1
  <1>1. Good(heap) /\ heap[Len(heap)].adr = gs_H
    BY InvGood
  <1>2. /\ Releases(cur)
        /\ IF c = Len(h2)
           THEN gs_H' = h2[c - 1].adr /\ heap' = DropLast(h2) /\ cur' = 0
           ELSE heap' = h2 /\ cur' = Onward(c) /\ UNCHANGED gs_H
        /\ call' = IF cur' = 0 THEN NoCall ELSE call
        /\ UNCHANGED <<gs_S, status>>
    BY DEF Release
  <1>3. cur \in 2 .. Len(heap) /\ Len(heap) \in Nat
    <2>1. Len(heap) \in Nat \ {0}
      BY <1>1, GoodList
    <2>2. cur \in 0 .. Len(heap) /\ cur # 0
      BY DEF IInv, TypeOK, Release, Looping
    <2>3. cur # 1
      BY <1>2 DEF Releases, IsMatch
    <2> QED BY <2>1, <2>2, <2>3
  <1>4. Good(Freed(cur)) /\ Len(Freed(cur)) = Len(heap)
        /\ Freed(cur)[Len(heap)].adr = gs_H
    <2> DEFINE b == [heap[cur] EXCEPT !.owner = FREE]
    <2>1. heap[cur] \in Block
      BY <1>1, <1>3, GoodList
    <2>2. b \in Block /\ b.adr = heap[cur].adr /\ b.sz = heap[cur].sz
      BY <2>1 DEF Block
    <2>3. Freed(cur) = [heap EXCEPT ![cur] = b]
      BY DEF Freed
    <2> HIDE DEF b
    <2>4. /\ Good(Freed(cur)) /\ Len(Freed(cur)) = Len(heap)
          /\ Freed(cur)[Len(Freed(cur))].adr = heap[Len(heap)].adr
      BY <1>1, <1>3, <2>2, <2>3, OwnerGood, Zenon
    <2> QED BY <2>4, <1>1
  <1>5. /\ Good(h1) /\ Len(h1) \in Nat /\ c \in 2 .. Len(h1)
        /\ h1[Len(h1)].adr = gs_H
    <2>1. CASE prev
      <3>1. cur - 1 # 1
        BY <2>1 DEF JoinsPrev, IsFree
      <3>2. c = cur - 1 /\ cur - 1 \in 2 .. Len(Freed(cur)) - 1
        BY <2>1, <3>1, <1>3, <1>4
      <3>3. h1 = Consolidate(Freed(cur), cur - 1)
        BY <2>1
      <3> HIDE DEF prev, c, h1, next, h2
      <3>4. /\ Good(h1) /\ Len(h1) = Len(Freed(cur)) - 1
            /\ h1[Len(h1)].adr = Freed(cur)[Len(Freed(cur))].adr
        BY <3>2, <3>3, <1>4, ConsolidateGood
      <3>5. Len(h1) = Len(heap) - 1
        BY <3>4, <1>4
      <3>6. Len(h1) \in Nat /\ c \in 2 .. Len(h1)
        BY <3>2, <3>5, <1>3, <1>4
      <3> QED BY <3>4, <3>6, <1>4
    <2>2. CASE ~ prev
      <3>1. h1 = Freed(cur) /\ c = cur
        BY <2>2
      <3> HIDE DEF prev, c, h1, next, h2
      <3> QED BY <3>1, <1>3, <1>4
    <2> QED BY <2>1, <2>2
  <1> HIDE DEF prev, c, h1
  <1>6. /\ Good(h2) /\ Len(h2) \in Nat /\ c \in 2 .. Len(h2)
        /\ h2[Len(h2)].adr = gs_H
    <2>1. CASE next
      <3>1. c \in 2 .. Len(h1) - 1
        BY <2>1, <1>5 DEF JoinsNext
      <3>2. h2 = Consolidate(h1, c)
        BY <2>1
      <3> HIDE DEF next, h2
      <3>3. /\ Good(h2) /\ Len(h2) = Len(h1) - 1
            /\ h2[Len(h2)].adr = h1[Len(h1)].adr
        BY <3>1, <3>2, <1>5, ConsolidateGood
      <3> QED BY <3>1, <3>3, <1>5
    <2>2. CASE ~ next
      <3>1. h2 = h1
        BY <2>2
      <3> HIDE DEF next, h2
      <3> QED BY <3>1, <1>5
    <2> QED BY <2>1, <2>2
  <1> HIDE DEF next, h2
  <1>7. Good(heap') /\ heap'[Len(heap')].adr = gs_H' /\ cur' \in 0 .. Len(heap')
    <2>1. CASE c = Len(h2)
      <3>1. gs_H' = h2[c - 1].adr /\ heap' = DropLast(h2) /\ cur' = 0
        BY <2>1, <1>2
      <3>2. Len(h2) >= 2
        BY <2>1, <1>6
      <3>3. /\ Good(heap') /\ Len(heap') = Len(h2) - 1
            /\ heap'[Len(heap')].adr = h2[Len(h2) - 1].adr
        BY <3>1, <3>2, <1>6, DropLastGood
      <3>4. cur' \in 0 .. Len(heap')
        BY <3>1, <3>2, <3>3, <1>6
      <3> QED BY <3>1, <3>3, <3>4, <2>1
    <2>2. CASE c # Len(h2)
      <3>1. heap' = h2 /\ cur' = Onward(c) /\ gs_H' = gs_H
        BY <2>2, <1>2
      <3>2. Onward(c) \in 0 .. Len(h2)
        BY <1>6 DEF Onward
      <3> QED BY <3>1, <3>2, <1>6
    <2> QED BY <2>1, <2>2
  <1>8. gs_H' \in Nat
    <2>1. Len(heap') \in 1 .. Len(heap')
      BY <1>7, GoodList
    <2>2. heap'[Len(heap')] \in Block
      BY <2>1, <1>7, GoodList
    <2> QED BY <2>2, <1>7, BlockFields
  <1>9. call' \in Call
    BY <1>2, MemAssumption DEF IInv, TypeOK, NoCall, Call
  <1>10. Tiling' /\ Descending(heap)' /\ (heap \in Seq(Block) /\ heap # <<>>)'
    BY <1>7, GoodTiling
  <1>11. TypeOK'
    BY <1>2, <1>7, <1>8, <1>9, <1>10 DEF IInv, TypeOK
  <1> QED BY <1>10, <1>11 DEF IInv

\* What the steps that leave the list alone rely on.
LEMMA InvParts ==
  ASSUME IInv
  PROVE  /\ Len(heap) \in Nat \ {0} /\ 0 \in 0 .. Len(heap) /\ 1 \in 0 .. Len(heap)
         /\ gs_H \in Nat /\ gs_S \in Nat /\ cur \in 0 .. Len(heap) /\ cur \in Nat
         /\ call \in Call
         /\ status \in {"run", "heap overflow", "heap pointer invalid"}
  <1>1. Len(heap) \in Nat \ {0}
    BY InvGood, GoodList
  <1>2. cur \in 0 .. Len(heap)
    BY DEF IInv, TypeOK
  <1>3. 0 \in 0 .. Len(heap) /\ 1 \in 0 .. Len(heap) /\ cur \in Nat
    BY <1>1, <1>2
  <1> QED BY <1>1, <1>2, <1>3 DEF IInv, TypeOK

\* A call of hp_free or hp_free_all starts at the top of the list.
LEMMA FreeCallInv ==
  ASSUME IInv, NEW p \in Nat, FreeCall(p)
  PROVE  IInv'
  <1>1. /\ call' = [by_ptr |-> TRUE, mod |-> 0, ptr |-> p, limit |-> Nil]
        /\ cur' = 1 /\ UNCHANGED <<heap, gs_H, gs_S, status>>
    BY DEF FreeCall
  <1>2. call' \in Call
    BY <1>1, MemAssumption DEF Call, Nil
  <1>3. cur' \in 0 .. Len(heap)
    BY <1>1, InvParts
  <1> QED BY <1>1, <1>2, <1>3, InvParts, SameListInv

\* The same for hp_free_all, whatever the limit.
LEMMA FreeAllCallInv ==
  ASSUME IInv, NEW m \in Mods, NEW l \in Nat, FreeAllCall(m, l)
  PROVE  IInv'
  <1>1. /\ call' = [by_ptr |-> FALSE, mod |-> m, ptr |-> 0, limit |-> l]
        /\ cur' = 1 /\ UNCHANGED <<heap, gs_H, gs_S, status>>
    BY DEF FreeAllCall
  <1>2. call' \in Call
    BY <1>1 DEF Call
  <1>3. cur' \in 0 .. Len(heap)
    BY <1>1, InvParts
  <1> QED BY <1>1, <1>2, <1>3, InvParts, SameListInv

\* The loop of hp_free_int.
LEMMA FreeLoopInv ==
  ASSUME IInv, FreeLoop
  PROVE  IInv'
  <1>1. CASE Release
    BY <1>1, ReleaseInv
  <1>2. CASE Skip
    <2>1. cur' = cur + 1 /\ cur < Len(heap) /\ UNCHANGED <<heap, gs_H, gs_S, call, status>>
      BY <1>2 DEF Skip
    <2>2. Len(heap) \in Nat /\ cur \in Nat
      BY InvParts
    <2>3. cur' \in 0 .. Len(heap)
      BY <2>1, <2>2
    <2> QED BY <2>1, <2>3, InvParts, SameListInv
  <1>3. CASE EndOfList
    <2>1. call' = NoCall /\ cur' = 0 /\ UNCHANGED <<heap, gs_H, gs_S>>
      BY <1>3 DEF EndOfList
    <2>2. status' \in {"run", "heap overflow", "heap pointer invalid"}
      BY <1>3, InvParts DEF EndOfList
    <2>3. call' \in Call
      BY <2>1 DEF NoCall, Call
    <2>4. cur' \in 0 .. Len(heap)
      BY <2>1, InvParts
    <2> QED BY <2>1, <2>2, <2>3, <2>4, InvParts, SameListInv
  <1> QED BY <1>1, <1>2, <1>3 DEF FreeLoop

\* Every step keeps the invariant.
LEMMA StepInv == IInv /\ [Next]_vars => IInv'
  <1> SUFFICES ASSUME IInv, [Next]_vars PROVE IInv'
    OBVIOUS
  <1>1. ASSUME NEW m \in Mods, NEW n \in Sizes, AllocGap(m, n) PROVE IInv'
    BY <1>1, AllocGapInv
  <1>2. ASSUME NEW m \in Mods, NEW n \in Sizes, AllocExtend(m, n) PROVE IInv'
    BY <1>2, AllocExtendInv
  <1>3. ASSUME NEW n \in Sizes, AllocOverflow(n) PROVE IInv'
    BY <1>3, InvParts, SameListInv DEF AllocOverflow
  <1>4. ASSUME NEW p \in Disposals, FreeCall(p) PROVE IInv'
    BY <1>4, DisposalAssumption, FreeCallInv
  <1>5. ASSUME NEW m \in Mods, NEW l \in Limits, FreeAllCall(m, l) PROVE IInv'
    BY <1>5, LimitAssumption, FreeAllCallInv
  <1>6. CASE FreeLoop
    BY <1>6, FreeLoopInv
  <1>7. ASSUME NEW s \in StackTops, MoveStack(s) PROVE IInv'
    BY <1>7, InvParts, StackAssumption, SameListInv DEF MoveStack
  <1>8. CASE UNCHANGED vars
    BY <1>8, InvParts, SameListInv DEF vars
  <1> QED BY <1>1, <1>2, <1>3, <1>4, <1>5, <1>6, <1>7, <1>8 DEF Next

\* The list, the registers and the call in progress always have their types:
\* in particular gs_H never falls below address 0.
THEOREM TypeCorrect == Spec => []TypeOK
  <1>1. IInv => TypeOK
    BY DEF IInv
  <1> QED BY <1>1, InitInv, StepInv, PTL DEF Spec

\* The list tiles the memory between gs_H and NIL: no word is lost and none is
\* counted twice, however blocks are split and merged.
THEOREM ListTilesMemory == Spec => []Tiling
  <1>1. IInv => Tiling
    BY DEF IInv
  <1> QED BY <1>1, InitInv, StepInv, PTL DEF Spec

\* Two programs never own the same word, nor the word at NIL.
THEOREM BlocksDisjoint == Spec => []Disjoint
  <1>1. IInv => Disjoint
    <2> SUFFICES ASSUME IInv, NEW i \in Live, NEW j \in Live
                 PROVE  /\ heap[i].adr + heap[i].sz <= Nil
                        /\ i < j => heap[j].adr + heap[j].sz <= heap[i].adr
      BY DEF Disjoint
    <2>1. i \in 1 .. Len(heap) /\ j \in 1 .. Len(heap) /\ heap[i].owner # FREE
      BY DEF Live
    <2>2. heap[1].adr = Nil /\ heap[1].owner = FREE /\ Len(heap) \in Nat \ {0}
      BY InvGood, GoodList DEF IInv, Tiling, HeapTop
    <2>3. 1 < i /\ 1 \in 1 .. Len(heap)
      BY <2>1, <2>2
    <2> QED BY <2>1, <2>2, <2>3 DEF IInv, Descending
  <1> QED BY <1>1, InitInv, StepInv, PTL DEF Spec

-----------------------------------------------------------------------------
(***************************************************************************)
(* The heap implements the abstract allocator HeapSpec, and hp_free_all    *)
(* releases all it was asked to release.                                   *)
(*                                                                         *)
(* Both rest on one fact about the loop of hp_free_int: the blocks it has  *)
(* walked over hold nothing more of the module it releases.  Without it    *)
(* "consolidate with previous block" could merge the block with one that   *)
(* is still marked as owned.                                               *)
(***************************************************************************)

\* What the loop has done so far.
LoopInv ==
  (cur # 0 /\ ~ call.by_ptr) =>
    /\ call.mod \in Mods
    /\ \A i \in 1 .. cur - 1 :
         heap[i].adr <= call.limit => heap[i].owner # call.mod

RInv == IInv /\ LoopInv

-----------------------------------------------------------------------------
\* One pass of the loop that releases the block at cur replaces the blocks
\* c .. e, those at cur and the neighbours merged with it, by one free block,
\* or by nothing if they end the list.  Everything else is kept.
Shape(c, e) ==
  /\ c \in 2 .. cur /\ e \in cur .. Len(heap)
  /\ c = IF JoinsPrev(cur) THEN cur - 1 ELSE cur
  /\ e = IF JoinsNext(heap, cur) THEN cur + 1 ELSE cur
  /\ \A k \in c .. e :
       heap[k].owner # FREE =>
         /\ heap[k].adr <= call.limit
         /\ heap[k].owner = heap[cur].owner
         /\ IF call.by_ptr THEN heap[k].adr = call.ptr ELSE heap[k].owner = call.mod
  /\ IF e = Len(heap)
     THEN Len(heap') = c - 1 /\ cur' = 0
     ELSE /\ Len(heap') = Len(heap) - (e - c)
          /\ heap'[c].owner = FREE
          /\ cur' = Onward(c)
          /\ \A k \in c + 1 .. Len(heap') : heap'[k] = heap[k + (e - c)]
  /\ \A k \in 1 .. c - 1 : heap'[k] = heap[k]

\* A release has this shape, whether the block is merged with neighbours or not.
LEMMA ReleaseShape ==
  ASSUME RInv, Release
  PROVE  \E c, e \in Nat : Shape(c, e)
  <1> DEFINE prev == JoinsPrev(cur)
             c == IF prev THEN cur - 1 ELSE cur
             h1 == IF prev THEN Consolidate(Freed(cur), c) ELSE Freed(cur)
             next == JoinsNext(h1, c)
             h2 == IF next THEN Consolidate(h1, c) ELSE h1
             d == IF prev THEN 1 ELSE 0
             e == IF next THEN cur + 1 ELSE cur
  <1>1. Good(heap)
    BY InvGood DEF RInv
  <1>2. /\ Releases(cur)
        /\ IF c = Len(h2)
           THEN heap' = DropLast(h2) /\ cur' = 0
           ELSE heap' = h2 /\ cur' = Onward(c)
    BY DEF Release
  <1>3. cur \in 2 .. Len(heap) /\ Len(heap) \in Nat
    <2>1. Len(heap) \in Nat \ {0}
      BY <1>1, GoodList
    <2>2. cur \in 0 .. Len(heap) /\ cur # 0
      BY DEF RInv, IInv, TypeOK, Release, Looping
    <2>3. cur # 1
      BY <1>2 DEF Releases, IsMatch
    <2> QED BY <2>1, <2>2, <2>3
  <1>4. /\ Good(Freed(cur)) /\ Len(Freed(cur)) = Len(heap)
        /\ \A k \in 1 .. Len(heap) : k # cur => Freed(cur)[k] = heap[k]
        /\ Freed(cur)[cur].owner = FREE
    <2> DEFINE b == [heap[cur] EXCEPT !.owner = FREE]
    <2>1. heap[cur] \in Block /\ DOMAIN heap = 1 .. Len(heap)
      BY <1>1, <1>3, GoodList
    <2>2. b \in Block /\ b.adr = heap[cur].adr /\ b.sz = heap[cur].sz /\ b.owner = FREE
      BY <2>1 DEF Block
    <2>3. Freed(cur) = [heap EXCEPT ![cur] = b]
      BY DEF Freed
    <2> HIDE DEF b
    <2>4. Good(Freed(cur)) /\ Len(Freed(cur)) = Len(heap)
      BY <1>1, <1>3, <2>2, <2>3, OwnerGood, Zenon
    <2>5. cur \in DOMAIN heap
      BY <2>1, <1>3
    <2>6. Freed(cur)[cur] = b /\ \A k \in DOMAIN heap : k # cur => Freed(cur)[k] = heap[k]
      BY <2>3, <2>5
    <2> QED BY <2>1, <2>2, <2>4, <2>6
  <1>5. prev => heap[cur - 1].owner = FREE /\ cur - 1 \in 2 .. Len(heap) - 1
    <2> SUFFICES ASSUME prev
                 PROVE  heap[cur - 1].owner = FREE /\ cur - 1 \in 2 .. Len(heap) - 1
      OBVIOUS
    <2>1. /\ cur - 1 # 1 /\ heap[cur - 1].adr <= call.limit
          /\ \/ heap[cur - 1].owner = FREE
             \/ ~ call.by_ptr /\ heap[cur - 1].owner = call.mod
      BY DEF JoinsPrev, IsFree
    <2>2. cur - 1 \in 1 .. cur - 1 /\ cur # 0
      BY <1>3
    <2>3. ~ call.by_ptr => heap[cur - 1].owner # call.mod
      BY <2>1, <2>2 DEF RInv, LoopInv
    <2> QED BY <2>1, <2>3, <1>3
  <1>6. /\ Good(h1) /\ Len(h1) = Len(heap) - d /\ c = cur - d /\ c \in 2 .. Len(h1)
        /\ \A k \in 1 .. c - 1 : h1[k] = heap[k]
        /\ h1[c].owner = FREE
        /\ \A k \in c + 1 .. Len(h1) : h1[k] = heap[k + d]
    <2>1. CASE prev
      <3>1. c = cur - 1 /\ d = 1 /\ h1 = Consolidate(Freed(cur), cur - 1)
        BY <2>1
      <3>2. cur - 1 \in 2 .. Len(Freed(cur)) - 1
        BY <2>1, <1>4, <1>5
      <3> HIDE DEF prev, c, h1, next, h2, d, e
      <3>0. Good(Freed(cur))
        BY <1>4
      <3>3. /\ Good(h1) /\ Len(h1) = Len(Freed(cur)) - 1
            /\ \A k \in 1 .. cur - 1 - 1 : h1[k] = Freed(cur)[k]
            /\ h1[cur - 1].owner = Freed(cur)[cur - 1].owner
            /\ \A k \in cur - 1 + 1 .. Len(Freed(cur)) - 1 : h1[k] = Freed(cur)[k + 1]
        <4> DEFINE f == Freed(cur)
                   i == cur - 1
        <4>1. Good(f) /\ i \in 2 .. Len(f) - 1 /\ h1 = Consolidate(f, i)
          BY <3>0, <3>1, <3>2
        <4> HIDE DEF f, i
        <4>2. /\ Good(h1) /\ Len(h1) = Len(f) - 1
              /\ \A k \in 1 .. i - 1 : h1[k] = f[k]
              /\ h1[i].owner = f[i].owner
              /\ \A k \in i + 1 .. Len(f) - 1 : h1[k] = f[k + 1]
          BY <4>1, ConsolidateGood
        <4> QED BY <4>2 DEF f, i
      <3>4. /\ cur - 1 \in 2 .. Len(h1) /\ Len(h1) = Len(heap) - 1
            /\ cur - 1 \in 1 .. Len(heap) /\ cur - 1 # cur
        BY <3>2, <3>3, <1>3, <1>4
      <3>5. \A k \in 1 .. cur - 2 : h1[k] = heap[k]
        BY <3>3, <1>3, <1>4
      <3>6. \A k \in cur .. Len(h1) : h1[k] = heap[k + 1]
        BY <3>3, <1>3, <1>4
      <3>7. h1[cur - 1].owner = FREE
        BY <3>3, <3>4, <1>4, <1>5, <2>1
      <3> QED BY <3>1, <3>3, <3>4, <3>5, <3>6, <3>7, <1>3
    <2>2. CASE ~ prev
      <3>1. c = cur /\ d = 0 /\ h1 = Freed(cur)
        BY <2>2
      <3> HIDE DEF prev, c, h1, next, h2, d, e
      <3> QED BY <3>1, <1>3, <1>4
    <2> QED BY <2>1, <2>2
  <1>7. d \in {0, 1}
    OBVIOUS
  <1>14. c = IF JoinsPrev(cur) THEN cur - 1 ELSE cur
    OBVIOUS
  <1> HIDE DEF prev, c, h1, d
  <1>12. next <=> JoinsNext(heap, cur)
    <2>1. c + 1 # 1 /\ cur + 1 # 1 /\ (c < Len(h1) <=> cur < Len(heap))
      BY <1>3, <1>6, <1>7
    <2>2. c < Len(h1) => h1[c + 1] = heap[cur + 1]
      <3>1. c < Len(h1) => c + 1 \in c + 1 .. Len(h1)
        BY <1>6
      <3>2. c + 1 + d = cur + 1
        BY <1>3, <1>6, <1>7
      <3> QED BY <1>6, <3>1, <3>2
    <2> QED BY <2>1, <2>2 DEF JoinsNext, IsFree
  <1>13. e = IF JoinsNext(heap, cur) THEN cur + 1 ELSE cur
    BY <1>12
  <1>8. /\ Good(h2) /\ Len(h2) = Len(heap) - (e - c) /\ c \in 2 .. Len(h2)
        /\ e \in cur .. Len(heap)
        /\ \A k \in 1 .. c - 1 : h2[k] = heap[k]
        /\ h2[c].owner = FREE
        /\ \A k \in c + 1 .. Len(h2) : h2[k] = heap[k + (e - c)]
    <2>1. CASE next
      <3>1. c \in 2 .. Len(h1) - 1 /\ e = cur + 1 /\ h2 = Consolidate(h1, c)
        BY <2>1, <1>3, <1>6, <1>7 DEF JoinsNext
      <3> HIDE DEF next, h2, e
      <3>2. /\ Good(h2) /\ Len(h2) = Len(h1) - 1
            /\ \A k \in 1 .. c - 1 : h2[k] = h1[k]
            /\ h2[c].owner = h1[c].owner
            /\ \A k \in c + 1 .. Len(h1) - 1 : h2[k] = h1[k + 1]
        <4>1. Good(h1) /\ c \in 2 .. Len(h1) - 1 /\ h2 = Consolidate(h1, c)
          BY <3>1, <1>6
        <4> QED BY <4>1, ConsolidateGood
      <3>3. /\ Len(h2) = Len(heap) - (e - c) /\ c \in 2 .. Len(h2)
            /\ e \in cur .. Len(heap) /\ e - c = d + 1
        BY <3>1, <3>2, <1>3, <1>6, <1>7
      <3>4. \A k \in c + 1 .. Len(h2) : h2[k] = heap[k + (e - c)]
        <4> SUFFICES ASSUME NEW k \in c + 1 .. Len(h2) PROVE h2[k] = heap[k + (e - c)]
          OBVIOUS
        <4>1. /\ k \in c + 1 .. Len(h1) - 1 /\ k + 1 \in c + 1 .. Len(h1)
              /\ k + 1 + d = k + (e - c)
          BY <3>1, <3>2, <3>3, <1>3, <1>6, <1>7
        <4>2. h2[k] = h1[k + 1] /\ h1[k + 1] = heap[k + 1 + d]
          BY <4>1, <3>2, <1>6
        <4> QED BY <4>1, <4>2
      <3> QED BY <3>2, <3>3, <3>4, <1>6
    <2>2. CASE ~ next
      <3>1. e = cur /\ h2 = h1
        BY <2>2
      <3> HIDE DEF next, h2, e
      <3>2. e - c = d /\ e \in cur .. Len(heap)
        BY <3>1, <1>3, <1>6, <1>7
      <3>3. \A k \in c + 1 .. Len(h2) : h2[k] = heap[k + (e - c)]
        BY <3>1, <3>2, <1>6
      <3> QED BY <3>1, <3>2, <3>3, <1>6
    <2> QED BY <2>1, <2>2
  <1>9. ASSUME NEW k \in c .. e, heap[k].owner # FREE
        PROVE  /\ heap[k].adr <= call.limit
               /\ heap[k].owner = heap[cur].owner
               /\ IF call.by_ptr THEN heap[k].adr = call.ptr ELSE heap[k].owner = call.mod
    <2>1. CASE k = cur
      BY <2>1, <1>2 DEF Releases, IsMatch
    <2>2. CASE k < cur
      <3>1. d = 1 /\ k = cur - 1
        BY <2>2, <1>3, <1>6, <1>7
      <3>2. prev
        BY <3>1 DEF d
      <3> QED BY <3>1, <3>2, <1>5, <1>9
    <2>3. CASE k > cur
      <3>1. k = cur + 1 /\ next
        <4>1. CASE next
          <5>1. e = cur + 1
            BY <4>1
          <5> HIDE DEF e, next
          <5> QED BY <4>1, <5>1, <2>3, <1>3, <1>6, <1>7
        <4>2. CASE ~ next
          <5>1. e = cur
            BY <4>2
          <5> HIDE DEF e, next
          <5> QED BY <5>1, <2>3, <1>3, <1>6, <1>7
        <4> QED BY <4>1, <4>2
      <3>2. c + 1 \in c + 1 .. Len(h1) /\ c + 1 + d = cur + 1 /\ c + 1 # 1
        BY <3>1, <1>3, <1>6, <1>7 DEF JoinsNext
      <3>3. h1[c + 1] = heap[cur + 1]
        BY <3>2, <1>6
      <3>4. ~ call.by_ptr /\ heap[cur + 1].owner = call.mod
        BY <3>1, <3>3, <1>9 DEF JoinsNext, IsFree
      <3>5. heap[cur].owner = call.mod /\ heap[cur].adr <= call.limit
        BY <3>4, <1>2 DEF Releases, IsMatch
      <3>6. heap[cur + 1].adr <= call.limit
        <4>1. cur + 1 \in 1 .. Len(heap) /\ cur \in 1 .. Len(heap)
          BY <3>1, <1>3, <1>6, <1>7, <1>8
        <4>2. heap[cur + 1].adr + heap[cur + 1].sz <= heap[cur].adr
          BY <4>1, <1>3 DEF RInv, IInv, Descending
        <4>3. /\ heap[cur + 1].adr \in Nat /\ heap[cur + 1].sz \in Nat
              /\ heap[cur].adr \in Nat /\ call.limit \in Nat
          BY <4>1, <1>1, GoodList, BlockFields DEF RInv, IInv, TypeOK, Call
        <4> QED BY <4>2, <4>3, <3>5
      <3> QED BY <3>1, <3>4, <3>5, <3>6
    <2> QED BY <2>1, <2>2, <2>3, <1>3, <1>6, <1>7
  <1> HIDE DEF next, h2, e
  <1>10. CASE e = Len(heap)
    <2>1. c = Len(h2) /\ Len(h2) \in Nat
      BY <1>10, <1>3, <1>6, <1>7, <1>8
    <2>2. heap' = DropLast(h2) /\ cur' = 0
      BY <2>1, <1>2
    <2>3. Len(heap') = c - 1
      <3>1. Good(h2) /\ Len(h2) >= 2
        BY <2>1, <1>8
      <3>2. Len(DropLast(h2)) = Len(h2) - 1
        BY <3>1, DropLastGood
      <3> QED BY <2>1, <2>2, <3>2
    <2>4. \A k \in 1 .. c - 1 : heap'[k] = h2[k]
      BY <2>1, <2>2 DEF DropLast
    <2>5. \A k \in 1 .. c - 1 : heap'[k] = heap[k]
      BY <2>4, <1>8
    <2>6. c \in 2 .. cur /\ c \in Nat /\ e \in Nat
      BY <1>3, <1>6, <1>7, <1>8
    <2>7. Shape(c, e)
      BY <1>8, <1>9, <1>10, <1>13, <1>14, <2>2, <2>3, <2>5, <2>6 DEF Shape
    <2> QED BY <2>6, <2>7
  <1>11. CASE e # Len(heap)
    <2>1. c # Len(h2)
      BY <1>11, <1>3, <1>6, <1>7, <1>8
    <2>2. heap' = h2 /\ cur' = Onward(c)
      BY <2>1, <1>2
    <2>3. c \in 2 .. cur /\ c \in Nat /\ e \in Nat
      BY <1>3, <1>6, <1>7, <1>8
    <2>4. Shape(c, e)
      BY <1>8, <1>9, <1>11, <1>13, <1>14, <2>2, <2>3 DEF Shape
    <2> QED BY <2>3, <2>4
  <1> QED BY <1>10, <1>11

-----------------------------------------------------------------------------
(* The loop invariant                                                      *)

\* The loop position is a position of the list.
LEMMA CurNat ==
  ASSUME IInv
  PROVE  Len(heap) \in Nat /\ cur \in Nat
  <1>1. Len(heap) \in Nat
    BY InvGood, GoodList
  <1>2. cur \in 0 .. Len(heap)
    BY DEF IInv, TypeOK
  <1> QED BY <1>1, <1>2

\* A block that the loop passes does not belong to the module it releases.
LEMMA PassedOver ==
  ASSUME RInv, Looping, ~ Releases(cur), ~ call.by_ptr
  PROVE  /\ call.mod \in Mods
         /\ \A i \in 1 .. cur : heap[i].adr <= call.limit => heap[i].owner # call.mod
  <1>1. /\ call.mod \in Mods
        /\ \A i \in 1 .. cur - 1 : heap[i].adr <= call.limit => heap[i].owner # call.mod
    BY DEF RInv, LoopInv, Looping
  <1>2. cur \in Nat /\ cur # 0
    BY DEF RInv, IInv, TypeOK, Looping
  <1>3. heap[cur].adr <= call.limit => heap[cur].owner # call.mod
    <2>1. CASE cur = 1
      <3>1. heap[cur].owner = FREE /\ call.mod # FREE
        BY <2>1, <1>1, ModAssumption DEF RInv, IInv, Tiling, HeapTop, FREE
      <3> QED BY <3>1
    <2>2. CASE cur # 1
      <3>1. call.mod # FREE
        BY <1>1, ModAssumption DEF FREE
      <3> QED BY <2>2, <3>1 DEF Releases, IsMatch
    <2> QED BY <2>1, <2>2
  <1>4. \A i \in 1 .. cur : i = cur \/ i \in 1 .. cur - 1
    BY <1>2
  <1> QED BY <1>1, <1>3, <1>4

\* The loop itself keeps the loop invariant.
LEMMA FreeLoopLoopInv ==
  ASSUME RInv, FreeLoop
  PROVE  LoopInv'
  <1>0. cur \in Nat
    BY CurNat DEF RInv
  <1>1. CASE Release
    <2> SUFFICES ASSUME cur' # 0, ~ call'.by_ptr
                 PROVE  /\ call'.mod \in Mods
                        /\ \A i \in 1 .. cur' - 1 :
                             heap'[i].adr <= call'.limit => heap'[i].owner # call'.mod
      BY DEF LoopInv
    <2>1. call' = call /\ cur # 0
      BY <1>1 DEF Release, Looping
    <2>2. PICK c, e \in Nat : Shape(c, e)
      BY <1>1, ReleaseShape
    <2>3. cur' = Onward(c) /\ c \in 2 .. cur
      BY <2>2 DEF Shape
    <2>4. cur' = c
      BY <2>1, <2>3 DEF Onward
    <2>5. \A i \in 1 .. cur' - 1 : heap'[i] = heap[i] /\ i \in 1 .. cur - 1
      BY <2>2, <2>3, <2>4, <1>0 DEF Shape
    <2> QED BY <2>1, <2>5 DEF RInv, LoopInv
  <1>2. CASE Skip
    <2> SUFFICES ASSUME ~ call'.by_ptr
                 PROVE  /\ call'.mod \in Mods
                        /\ \A i \in 1 .. cur' - 1 :
                             heap'[i].adr <= call'.limit => heap'[i].owner # call'.mod
      BY DEF LoopInv
    <2>1. UNCHANGED <<heap, call>> /\ cur' - 1 = cur
      BY <1>0, <1>2 DEF Skip
    <2> QED BY <1>2, <2>1, PassedOver DEF Skip
  <1>3. CASE EndOfList
    BY <1>3 DEF EndOfList, LoopInv
  <1> QED BY <1>1, <1>2, <1>3 DEF FreeLoop

\* So does every other step.
LEMMA LoopInvStep == RInv /\ [Next]_vars => LoopInv'
  <1> SUFFICES ASSUME RInv, [Next]_vars PROVE LoopInv'
    OBVIOUS
  <1>1. ASSUME NEW m \in Mods, NEW n \in Sizes, AllocGap(m, n) PROVE LoopInv'
    BY <1>1 DEF AllocGap, Idle, LoopInv
  <1>2. ASSUME NEW m \in Mods, NEW n \in Sizes, AllocExtend(m, n) PROVE LoopInv'
    BY <1>2 DEF AllocExtend, Idle, LoopInv
  <1>3. ASSUME NEW n \in Sizes, AllocOverflow(n) PROVE LoopInv'
    BY <1>3 DEF AllocOverflow, Idle, LoopInv
  <1>4. ASSUME NEW p \in Disposals, FreeCall(p) PROVE LoopInv'
    BY <1>4 DEF FreeCall, LoopInv
  <1>5. ASSUME NEW m \in Mods, NEW l \in Limits, FreeAllCall(m, l) PROVE LoopInv'
    BY <1>5 DEF FreeAllCall, LoopInv
  <1>6. CASE FreeLoop
    BY <1>6, FreeLoopLoopInv
  <1>7. ASSUME NEW s \in StackTops, MoveStack(s) PROVE LoopInv'
    BY <1>7 DEF MoveStack, Idle, LoopInv
  <1>8. CASE UNCHANGED vars
    BY <1>8 DEF vars, RInv, LoopInv
  <1> QED
    BY <1>1, <1>2, <1>3, <1>4, <1>5, <1>6, <1>7, <1>8 DEF Next

\* Before the first call there is no loop.
LEMMA RInvInit == Init => RInv
  BY InitInv DEF RInv, LoopInv, Init

\* Both invariants together are inductive.
LEMMA RInvStep == RInv /\ [Next]_vars => RInv'
  BY StepInv, LoopInvStep DEF RInv

-----------------------------------------------------------------------------
(* What a step does to the allocated blocks                                *)

\* No two headers have the same address.
LEMMA DistinctAddresses ==
  ASSUME IInv, NEW i \in 1 .. Len(heap), NEW j \in 1 .. Len(heap), i # j
  PROVE  heap[i].adr # heap[j].adr
  <1>1. Good(heap)
    BY InvGood
  <1>2. ASSUME NEW x \in 1 .. Len(heap), NEW y \in 1 .. Len(heap), x < y
        PROVE  heap[x].adr # heap[y].adr
    <2>1. heap[y].adr + heap[y].sz <= heap[x].adr
      BY <1>2 DEF IInv, Descending
    <2>2. heap[y].sz > 0
      BY <1>2 DEF IInv, Tiling
    <2>3. /\ heap[x].adr \in Nat /\ heap[y].adr \in Nat /\ heap[y].sz \in Nat
      BY <1>1, GoodList, BlockFields
    <2> QED BY <2>1, <2>2, <2>3
  <1>3. i < j \/ j < i
    <2>1. Len(heap) \in Nat
      BY <1>1, GoodList
    <2> QED BY <2>1
  <1> QED BY <1>2, <1>3

\* A release takes the blocks of c .. e away and keeps the others.
LEMMA ReleaseBlocks ==
  ASSUME RInv, NEW c \in Nat, NEW e \in Nat, Shape(c, e), Good(heap')
  PROVE  Blocks' = {heap[k] : k \in Live \ (c .. e)}
  <1>1. Len(heap) \in Nat /\ Len(heap') \in Nat /\ cur \in Nat
    BY CurNat, GoodList DEF RInv
  <1>2. c \in 2 .. cur /\ e \in cur .. Len(heap)
    BY DEF Shape
  <1>3. ASSUME NEW k \in Live \ (c .. e) PROVE heap[k] \in Blocks'
    <2>1. k \in 1 .. Len(heap) /\ heap[k].owner # FREE
      BY <1>3 DEF Live
    <2>2. CASE k < c
      <3>1. k \in 1 .. c - 1 /\ k \in 1 .. Len(heap')
        BY <2>1, <2>2, <1>1, <1>2 DEF Shape
      <3>2. heap'[k] = heap[k]
        BY <3>1 DEF Shape
      <3> QED BY <2>1, <3>1, <3>2 DEF Blocks, Live
    <2>3. CASE k > e
      <3>1. e # Len(heap)
        BY <2>1, <2>3, <1>1, <1>2
      <3>2. k - (e - c) \in c + 1 .. Len(heap') /\ (k - (e - c)) + (e - c) = k
            /\ k - (e - c) \in 1 .. Len(heap')
        BY <2>1, <2>3, <3>1, <1>1, <1>2 DEF Shape
      <3>3. heap'[k - (e - c)] = heap[k]
        BY <3>1, <3>2 DEF Shape
      <3> QED BY <2>1, <3>2, <3>3 DEF Blocks, Live
    <2> QED BY <2>1, <2>2, <2>3, <1>1, <1>2
  <1>4. ASSUME NEW k \in Live'
        PROVE  \E j \in Live \ (c .. e) : heap'[k] = heap[j]
    <2>1. k \in 1 .. Len(heap') /\ heap'[k].owner # FREE
      BY <1>4 DEF Live
    <2>2. CASE k < c
      <3>1. k \in 1 .. c - 1 /\ k \in 1 .. Len(heap) /\ k \notin c .. e
        BY <2>1, <2>2, <1>1, <1>2
      <3>2. heap'[k] = heap[k]
        BY <3>1 DEF Shape
      <3> QED BY <2>1, <3>1, <3>2 DEF Live
    <2>3. CASE k = c
      <3>1. e # Len(heap)
        BY <2>1, <2>3, <1>1, <1>2 DEF Shape
      <3> QED BY <2>1, <2>3, <3>1 DEF Shape
    <2>4. CASE k > c
      <3>1. e # Len(heap)
        BY <2>1, <2>4, <1>1, <1>2 DEF Shape
      <3>2. k \in c + 1 .. Len(heap') /\ k + (e - c) \in 1 .. Len(heap)
            /\ k + (e - c) \notin c .. e
        BY <2>1, <2>4, <3>1, <1>1, <1>2 DEF Shape
      <3>3. heap'[k] = heap[k + (e - c)]
        BY <3>1, <3>2 DEF Shape
      <3> QED BY <2>1, <3>2, <3>3 DEF Live
    <2> QED BY <2>1, <2>2, <2>3, <2>4, <1>1, <1>2
  <1> QED BY <1>3, <1>4 DEF Blocks

\* Blocks is a set of headers.
LEMMA BlocksAreBlocks ==
  ASSUME IInv, NEW x \in Blocks
  PROVE  x \in Block
  <1>1. PICK k \in Live : x = heap[k]
    BY DEF Blocks
  <1> QED BY <1>1, InvGood, GoodList DEF Live

\* A new block that keeps clear of the others is a step of the allocator.
LEMMA ObtainStep ==
  ASSUME IInv, NEW a \in Nat, NEW n \in Nat, NEW o \in Mods,
         n > 0, a + n <= Nil,
         \A x \in Blocks : x.adr + x.sz <= a \/ a + n <= x.adr,
         Blocks' = Blocks \union {[adr |-> a, sz |-> n, owner |-> o]}
  PROVE  Allocator!Obtain(o)
  <1>1. Nil \in Nat
    BY MemAssumption DEF Nil
  <1>2. a \in 0 .. Nil /\ n \in 0 .. Nil
    BY <1>1
  <1>3. ASSUME NEW x \in Blocks
        PROVE  Allocator!Words(x) \intersect (a .. a + n - 1) = {}
    <2>1. x.adr \in Nat /\ x.sz \in Nat
      BY BlocksAreBlocks, BlockFields
    <2>2. x.adr + x.sz <= a \/ a + n <= x.adr
      OBVIOUS
    <2> QED BY <2>1, <2>2 DEF Allocator!Words
  <1> QED BY <1>2, <1>3 DEF Allocator!Obtain

\* hp_alloc obtains a block inside a gap.
LEMMA AllocGapRefines ==
  ASSUME IInv, NEW mod \in Mods, NEW size \in Sizes, AllocGap(mod, size)
  PROVE  Allocator!Obtain(mod)
  <1> DEFINE sz == Rounded(size)
  <1>1. sz \in Nat /\ sz > 0
    BY RoundedPositive
  <1> HIDE DEF sz
  <1>2. PICK i \in 1 .. Len(heap) :
          /\ heap[i].owner = FREE /\ heap[i].sz >= sz
          /\ LET b == heap[i]
                 rest == b.sz - sz
                 taken == [adr |-> b.adr + rest, sz |-> sz, owner |-> mod]
                 left == [adr |-> b.adr, sz |-> rest, owner |-> FREE]
             IN heap' = IF rest > 0 THEN Split(heap, i, taken, left)
                        ELSE [heap EXCEPT ![i] = taken]
    BY DEF AllocGap, FirstGap, Fits, sz
  <1>3. Good(heap) /\ Len(heap) \in Nat
    BY InvGood, CurNat
  <1>4. heap[i].adr \in Nat /\ heap[i].sz \in Nat /\ DOMAIN heap = 1 .. Len(heap)
    BY <1>3, GoodList, BlockFields
  <1>5. i # 1 /\ 1 \in 1 .. Len(heap) /\ heap[1].adr = Nil
    <2>1. heap[1].sz = 0 /\ heap[1].adr = Nil
      BY <1>3 DEF Good, Tiles, HeapTop
    <2> QED BY <2>1, <1>1, <1>2, <1>3
  <1> DEFINE rest == heap[i].sz - sz
             taken == [adr |-> heap[i].adr + rest, sz |-> sz, owner |-> mod]
             left == [adr |-> heap[i].adr, sz |-> rest, owner |-> FREE]
  <1>6. rest \in Nat /\ sz + rest = heap[i].sz
    BY <1>1, <1>2, <1>4
  <1>7. mod # FREE /\ taken.owner = mod /\ left.owner = FREE
    BY ModAssumption DEF FREE
  <1> HIDE DEF taken, left
  <1>8. Blocks' = Blocks \union {taken}
    <2>1. CASE rest > 0
      <3>1. heap' = Split(heap, i, taken, left)
        BY <2>1, <1>2 DEF taken, left
      <3>2. Len(heap') = Len(heap) + 1
        <4> DEFINE f == Split(heap, i, taken, left)
        <4>1. f \in [1 .. Len(heap) + 1 -> Range(heap) \union {taken, left}]
          BY <1>3, <1>4 DEF Split, Range
        <4>2. Len(f) = Len(heap) + 1
          BY <4>1, <1>3, FunctionIsSeq
        <4> QED BY <3>1, <4>2
      <3>3. /\ \A k \in 1 .. i - 1 : heap'[k] = heap[k]
            /\ heap'[i] = taken /\ heap'[i + 1] = left
            /\ \A k \in i + 2 .. Len(heap) + 1 : heap'[k] = heap[k - 1]
        BY <3>1, <1>3 DEF Split
      <3>4. ASSUME NEW k \in Live PROVE heap[k] \in Blocks'
        <4>1. k \in 1 .. Len(heap) /\ heap[k].owner # FREE /\ k # i
          BY <1>2 DEF Live
        <4>2. CASE k < i
          <5>1. k \in 1 .. i - 1 /\ k \in 1 .. Len(heap')
            BY <4>1, <4>2, <3>2, <1>3
          <5>2. heap'[k] = heap[k]
            BY <5>1, <3>3
          <5> QED BY <4>1, <5>1, <5>2 DEF Blocks, Live
        <4>3. CASE k > i
          <5>1. k + 1 \in i + 2 .. Len(heap) + 1 /\ k + 1 \in 1 .. Len(heap')
                /\ (k + 1) - 1 = k
            BY <4>1, <4>3, <3>2, <1>3
          <5>2. heap'[k + 1] = heap[k]
            BY <5>1, <3>3
          <5> QED BY <4>1, <5>1, <5>2 DEF Blocks, Live
        <4> QED BY <4>1, <4>2, <4>3, <1>3
      <3>5. taken \in Blocks'
        <4>1. i \in 1 .. Len(heap')
          BY <3>2, <1>3
        <4> QED BY <4>1, <3>3, <1>7 DEF Blocks, Live
      <3>6. ASSUME NEW k \in Live' PROVE heap'[k] \in Blocks \union {taken}
        <4>1. k \in 1 .. Len(heap) + 1 /\ heap'[k].owner # FREE
          BY <3>2 DEF Live
        <4>2. CASE k < i
          <5>1. k \in 1 .. i - 1 /\ k \in 1 .. Len(heap)
            BY <4>1, <4>2, <1>3
          <5>2. heap'[k] = heap[k]
            BY <5>1, <3>3
          <5> QED BY <4>1, <5>1, <5>2 DEF Blocks, Live
        <4>3. CASE k = i
          BY <4>3, <3>3
        <4>4. CASE k = i + 1
          BY <4>1, <4>4, <3>3, <1>7
        <4>5. CASE k > i + 1
          <5>1. k \in i + 2 .. Len(heap) + 1 /\ k - 1 \in 1 .. Len(heap)
            BY <4>1, <4>5, <1>3
          <5>2. heap'[k] = heap[k - 1]
            BY <5>1, <3>3
          <5> QED BY <4>1, <5>1, <5>2 DEF Blocks, Live
        <4> QED BY <4>1, <4>2, <4>3, <4>4, <4>5, <1>3
      <3> QED BY <3>4, <3>5, <3>6 DEF Blocks
    <2>2. CASE ~ (rest > 0)
      <3>1. heap' = [heap EXCEPT ![i] = taken]
        BY <2>2, <1>2 DEF taken
      <3>2. /\ \A k \in 1 .. Len(heap) : k # i => heap'[k] = heap[k]
            /\ heap'[i] = taken /\ Len(heap') = Len(heap)
        <4>1. DOMAIN heap' = 1 .. Len(heap)
          BY <3>1, <1>4
        <4>2. heap' \in [1 .. Len(heap) -> Range(heap) \union {taken}]
          BY <3>1, <1>3, <1>4 DEF Range
        <4>3. Len(heap') = Len(heap)
          BY <4>2, <1>3, FunctionIsSeq
        <4> QED BY <3>1, <4>3, <1>4
      <3>3. ASSUME NEW k \in Live PROVE heap[k] \in Blocks'
        BY <3>2, <1>2 DEF Blocks, Live
      <3>4. taken \in Blocks'
        BY <3>2, <1>7 DEF Blocks, Live
      <3>5. ASSUME NEW k \in Live' PROVE heap'[k] \in Blocks \union {taken}
        BY <3>2 DEF Blocks, Live
      <3> QED BY <3>3, <3>4, <3>5 DEF Blocks
    <2> QED BY <2>1, <2>2
  <1> HIDE DEF rest
  <1> DEFINE a == heap[i].adr + rest
  <1>9. a \in Nat /\ a + sz = heap[i].adr + heap[i].sz /\ heap[i].adr <= a
    BY <1>1, <1>4, <1>6
  <1> HIDE DEF a
  <1>10. a + sz <= Nil
    <2>1. heap[i].adr + heap[i].sz <= heap[1].adr
      BY <1>3, <1>5 DEF IInv, Descending
    <2> QED BY <2>1, <1>5, <1>9
  <1>11. ASSUME NEW x \in Blocks PROVE x.adr + x.sz <= a \/ a + sz <= x.adr
    <2>1. PICK k \in Live : x = heap[k]
      BY DEF Blocks
    <2>2. k \in 1 .. Len(heap) /\ k # i
      BY <1>2 DEF Live
    <2>3. x.adr \in Nat /\ x.sz \in Nat
      BY BlocksAreBlocks, BlockFields
    <2>4. CASE k < i
      <3>1. heap[i].adr + heap[i].sz <= heap[k].adr
        BY <2>2, <2>4 DEF IInv, Descending
      <3> QED BY <3>1, <2>1, <1>9
    <2>5. CASE i < k
      <3>1. heap[k].adr + heap[k].sz <= heap[i].adr
        BY <2>2, <2>5 DEF IInv, Descending
      <3> QED BY <3>1, <2>1, <2>3, <1>4, <1>9
    <2>6. k < i \/ i < k
      BY <2>2, <1>3
    <2> QED BY <2>4, <2>5, <2>6
  <1>12. Blocks' = Blocks \union {[adr |-> a, sz |-> sz, owner |-> mod]}
    BY <1>8 DEF taken, a
  <1> QED BY <1>1, <1>9, <1>10, <1>11, <1>12, ObtainStep

\* gs_H is the lowest address of the list.
LEMMA LowestAddress ==
  ASSUME IInv, NEW k \in 1 .. Len(heap)
  PROVE  heap[k].adr \in Nat /\ gs_H \in Nat /\ gs_H <= heap[k].adr
  <1>1. Good(heap) /\ heap[Len(heap)].adr = gs_H
    BY InvGood
  <1>2. Len(heap) \in Nat \ {0} /\ \A j \in 1 .. Len(heap) : heap[j] \in Block
    BY <1>1, GoodList
  <1>3. Len(heap) \in 1 .. Len(heap)
    BY <1>2
  <1>4. CASE k = Len(heap)
    BY <1>1, <1>2, <1>3, <1>4, BlockFields
  <1>5. CASE k < Len(heap)
    <2>1. heap[Len(heap)].adr + heap[Len(heap)].sz <= heap[k].adr
      BY <1>3, <1>5 DEF IInv, Descending
    <2>2. heap[Len(heap)].adr \in Nat /\ heap[Len(heap)].sz \in Nat /\ heap[k].adr \in Nat
      BY <1>2, <1>3, BlockFields
    <2> QED BY <2>1, <2>2, <1>1
  <1>6. k = Len(heap) \/ k < Len(heap)
    BY <1>2
  <1> QED BY <1>4, <1>5, <1>6

\* hp_alloc obtains a block below all others.
LEMMA AllocExtendRefines ==
  ASSUME IInv, NEW mod \in Mods, NEW size \in Sizes, AllocExtend(mod, size)
  PROVE  Allocator!Obtain(mod)
  <1> DEFINE sz == Rounded(size)
             a == gs_H - sz
             b == [adr |-> a, sz |-> sz, owner |-> mod]
  <1>1. sz \in Nat /\ sz > 0
    BY RoundedPositive
  <1>2. gs_H - gs_S > sz /\ heap' = Append(heap, b)
    BY DEF AllocExtend
  <1> HIDE DEF sz
  <1>3. gs_H \in Nat /\ gs_S \in Nat /\ heap[Len(heap)].adr = gs_H
    BY DEF IInv, TypeOK, Tiling
  <1>4. a \in Nat /\ a + sz = gs_H
    BY <1>1, <1>2, <1>3
  <1>5. Good(heap) /\ Len(heap) \in Nat
    BY InvGood, CurNat
  <1>6. b.owner = mod /\ mod # FREE
    BY ModAssumption DEF FREE
  <1> HIDE DEF a, b
  <1>7. /\ Len(heap') = Len(heap) + 1
        /\ \A k \in 1 .. Len(heap) : heap'[k] = heap[k]
        /\ heap'[Len(heap) + 1] = b
    BY <1>2, <1>5 DEF Good
  <1>8. /\ 1 \in 1 .. Len(heap) /\ Len(heap) \in 1 .. Len(heap)
        /\ Len(heap) + 1 \in 1 .. Len(heap')
        /\ \A k \in 1 .. Len(heap') : k \in 1 .. Len(heap) \/ k = Len(heap) + 1
        /\ \A k \in 1 .. Len(heap) : k \in 1 .. Len(heap')
    <2>1. Len(heap) \in Nat /\ Len(heap) # 0
      BY <1>5, GoodList
    <2> QED BY <2>1, <1>7
  <1>9. Blocks' = Blocks \union {b}
    <2>1. ASSUME NEW k \in Live PROVE heap[k] \in Blocks'
      BY <1>7, <1>8 DEF Blocks, Live
    <2>2. b \in Blocks'
      BY <1>6, <1>7, <1>8 DEF Blocks, Live
    <2>3. ASSUME NEW k \in Live' PROVE heap'[k] \in Blocks \union {b}
      <3>1. k \in 1 .. Len(heap') /\ heap'[k].owner # FREE
        BY DEF Live
      <3>2. CASE k \in 1 .. Len(heap)
        BY <3>1, <3>2, <1>7 DEF Blocks, Live
      <3>3. CASE k = Len(heap) + 1
        BY <3>3, <1>7
      <3> QED BY <3>1, <3>2, <3>3, <1>8
    <2> QED BY <2>1, <2>2, <2>3 DEF Blocks
  <1>10. ASSUME NEW k \in 1 .. Len(heap)
         PROVE  gs_H <= heap[k].adr
    BY LowestAddress
  <1>11. a + sz <= Nil
    <2>1. heap[1].adr = Nil
      BY <1>5 DEF Good, Tiles, HeapTop
    <2> QED BY <2>1, <1>4, <1>8, <1>10
  <1>12. ASSUME NEW x \in Blocks PROVE x.adr + x.sz <= a \/ a + sz <= x.adr
    <2>1. PICK k \in 1 .. Len(heap) : x = heap[k]
      BY DEF Blocks, Live
    <2> QED BY <2>1, <1>4, <1>10
  <1>13. Blocks' = Blocks \union {[adr |-> a, sz |-> sz, owner |-> mod]}
    BY <1>9 DEF b
  <1> QED BY <1>1, <1>4, <1>11, <1>12, <1>13, ObtainStep

\* hp_free and hp_free_all return blocks of one program.
LEMMA ReleaseRefines ==
  ASSUME RInv, Release
  PROVE  heap[cur].owner \in Mods /\ Allocator!Return(heap[cur].owner)
  <1>1. PICK c, e \in Nat : Shape(c, e)
    BY ReleaseShape
  <1>2. IInv' /\ Good(heap')
    <2>1. IInv'
      BY ReleaseInv DEF RInv
    <2> QED BY <2>1 DEF IInv, TypeOK, Tiling, Good, Tiles
  <1>3. Blocks' = {heap[k] : k \in Live \ (c .. e)}
    BY <1>1, <1>2, ReleaseBlocks
  <1> DEFINE o == heap[cur].owner
             gone == {heap[k] : k \in Live \intersect (c .. e)}
  <1>4. o \in Mods
    <2>1. o # FREE
      BY DEF Release, Releases
    <2>2. cur \in 1 .. Len(heap)
      <3>1. cur # 0 /\ cur \in 0 .. Len(heap) /\ cur \in Nat /\ Len(heap) \in Nat
        BY CurNat DEF Release, Looping, RInv, IInv, TypeOK
      <3> QED BY <3>1
    <2>3. heap[cur] \in Block
      BY <2>2, InvGood, GoodList DEF RInv
    <2> QED BY <2>1, <2>3, BlockFields
  <1>5. gone \in SUBSET {b \in Blocks : b.owner = o}
    <2>1. ASSUME NEW k \in Live \intersect (c .. e)
          PROVE  heap[k] \in Blocks /\ heap[k].owner = o
      BY <1>1 DEF Live, Shape, Blocks
    <2> QED BY <2>1
  <1>6. Blocks' = Blocks \ gone
    <2>1. ASSUME NEW k \in Live \ (c .. e), NEW j \in Live \intersect (c .. e)
          PROVE  heap[k] # heap[j]
      <3>1. k \in 1 .. Len(heap) /\ j \in 1 .. Len(heap) /\ k # j
        BY DEF Live
      <3> QED BY <3>1, DistinctAddresses DEF RInv
    <2> QED BY <2>1, <1>3 DEF Blocks
  <1> HIDE DEF gone, o
  <1>7. Allocator!Return(o)
    BY <1>5, <1>6 DEF Allocator!Return
  <1> QED BY <1>4, <1>7 DEF o

\* Every other step leaves the allocated blocks alone.
LEMMA SameBlocks ==
  ASSUME UNCHANGED heap
  PROVE  [Allocator!Next]_Blocks
  BY DEF Blocks, Live

\* hp_alloc adds one block, which belongs to the caller.
LEMMA AllocBlocks ==
  ASSUME IInv, NEW mod \in Mods, NEW size \in Sizes,
         AllocGap(mod, size) \/ AllocExtend(mod, size)
  PROVE  \E b : b.owner = mod /\ Blocks' = Blocks \union {b}
  <1>1. Allocator!Obtain(mod)
    BY AllocGapRefines, AllocExtendRefines
  <1>2. PICK a, n \in 0 .. Nil : Blocks' = Blocks \union {[adr |-> a, sz |-> n, owner |-> mod]}
    BY <1>1 DEF Allocator!Obtain
  <1> QED BY <1>2

\* A pass of the loop takes away no more than what the call asks for.
LEMMA LoopBlocks ==
  ASSUME RInv, FreeLoop
  PROVE  /\ Blocks' \subseteq Blocks
         /\ \A x \in Blocks \ Blocks' :
              /\ cur # 0 /\ x.adr <= call.limit
              /\ IF call.by_ptr THEN x.adr = call.ptr ELSE x.owner = call.mod
  <1>1. CASE Release
    <2>1. PICK c, e \in Nat : Shape(c, e)
      BY <1>1, ReleaseShape
    <2>2. Good(heap')
      BY <1>1, ReleaseInv DEF RInv, IInv, TypeOK, Tiling, Good, Tiles
    <2>3. Blocks' = {heap[k] : k \in Live \ (c .. e)}
      BY <2>1, <2>2, ReleaseBlocks
    <2>4. ASSUME NEW k \in Live, k \in c .. e
          PROVE  /\ heap[k].adr <= call.limit
                 /\ IF call.by_ptr THEN heap[k].adr = call.ptr ELSE heap[k].owner = call.mod
      BY <2>1, <2>4 DEF Shape, Live
    <2>5. cur # 0
      BY <1>1 DEF Release, Looping
    <2> QED BY <2>3, <2>4, <2>5 DEF Blocks
  <1>2. CASE Skip \/ EndOfList
    <2>1. Blocks' = Blocks
      BY <1>2 DEF Skip, EndOfList, Blocks, Live
    <2> QED BY <2>1
  <1> QED BY <1>1, <1>2 DEF FreeLoop

\* Releasing never moves the lowest address down.
LEMMA LoopRaises ==
  ASSUME RInv, FreeLoop
  PROVE  gs_H <= gs_H'
  <1>0. IInv /\ gs_H \in Nat
    BY DEF RInv, IInv, TypeOK
  <1>1. CASE Release
    <2>1. PICK c, e \in Nat : Shape(c, e)
      BY <1>1, ReleaseShape
    <2>2. IInv'
      BY <1>1, ReleaseInv DEF RInv
    <2>3. Good(heap') /\ heap'[Len(heap')].adr = gs_H'
      BY <2>2 DEF IInv, TypeOK, Tiling, Good, Tiles
    <2>4. Len(heap) \in Nat /\ cur \in Nat
      BY CurNat DEF RInv
    <2>5. c \in 2 .. cur /\ e \in cur .. Len(heap)
      BY <2>1 DEF Shape
    <2>6. PICK k \in 1 .. Len(heap) : heap'[Len(heap')] = heap[k]
      <3>1. CASE e = Len(heap)
        <4>1. Len(heap') = c - 1 /\ \A k \in 1 .. c - 1 : heap'[k] = heap[k]
          BY <2>1, <3>1 DEF Shape
        <4>2. c - 1 \in 1 .. c - 1 /\ c - 1 \in 1 .. Len(heap)
          BY <2>4, <2>5
        <4> QED BY <4>1, <4>2
      <3>2. CASE e # Len(heap)
        <4>1. /\ Len(heap') = Len(heap) - (e - c)
              /\ \A k \in c + 1 .. Len(heap') : heap'[k] = heap[k + (e - c)]
          BY <2>1, <3>2 DEF Shape
        <4>2. Len(heap') \in c + 1 .. Len(heap') /\ Len(heap') + (e - c) = Len(heap)
              /\ Len(heap) \in 1 .. Len(heap)
          BY <2>4, <2>5, <3>2, <4>1
        <4> QED BY <4>1, <4>2
      <3> QED BY <3>1, <3>2
    <2> QED BY <2>3, <2>6, <1>0, LowestAddress
  <1>2. CASE Skip \/ EndOfList
    <2>1. gs_H' = gs_H
      BY <1>2 DEF Skip, EndOfList
    <2> QED BY <2>1, <1>0
  <1> QED BY <1>1, <1>2 DEF FreeLoop

\* The heap of le_heap.c implements the abstract allocator: programs obtain
\* blocks of words nobody holds, a release concerns blocks of one program, and
\* splitting and merging never show.
THEOREM ImplementsAllocator == Spec => AllocatorSpec
  <1>1. Init => Allocator!Init
    BY DEF Init, Allocator!Init, Blocks, Live, HeapTop
  <1>2. RInv /\ [Next]_vars => [Allocator!Next]_Blocks
    <2> SUFFICES ASSUME RInv, [Next]_vars PROVE [Allocator!Next]_Blocks
      OBVIOUS
    <2>0. IInv
      BY DEF RInv
    <2>1. ASSUME NEW m \in Mods, NEW n \in Sizes, AllocGap(m, n)
          PROVE  [Allocator!Next]_Blocks
      BY <2>0, <2>1, AllocGapRefines DEF Allocator!Next
    <2>2. ASSUME NEW m \in Mods, NEW n \in Sizes, AllocExtend(m, n)
          PROVE  [Allocator!Next]_Blocks
      BY <2>0, <2>2, AllocExtendRefines DEF Allocator!Next
    <2>3. ASSUME NEW n \in Sizes, AllocOverflow(n) PROVE [Allocator!Next]_Blocks
      BY <2>3, SameBlocks DEF AllocOverflow
    <2>4. ASSUME NEW p \in Disposals, FreeCall(p) PROVE [Allocator!Next]_Blocks
      BY <2>4, SameBlocks DEF FreeCall
    <2>5. ASSUME NEW m \in Mods, NEW l \in Limits, FreeAllCall(m, l)
          PROVE  [Allocator!Next]_Blocks
      BY <2>5, SameBlocks DEF FreeAllCall
    <2>6. CASE Release
      BY <2>6, ReleaseRefines DEF Allocator!Next
    <2>7. CASE Skip \/ EndOfList
      BY <2>7, SameBlocks DEF Skip, EndOfList
    <2>8. ASSUME NEW s \in StackTops, MoveStack(s) PROVE [Allocator!Next]_Blocks
      BY <2>8, SameBlocks DEF MoveStack
    <2>9. CASE UNCHANGED vars
      BY <2>9, SameBlocks DEF vars
    <2> QED
      BY <2>1, <2>2, <2>3, <2>4, <2>5, <2>6, <2>7, <2>8, <2>9 DEF Next, FreeLoop
  <1> QED
    BY <1>1, <1>2, RInvInit, RInvStep, PTL DEF Spec, AllocatorSpec, Allocator!Spec

\* The loop of hp_free_all ends only when it has released all it was asked to.
LEMMA FreeAllDone ==
  ASSUME RInv, FreeLoop, cur' = 0, ~ call.by_ptr, NEW i \in Live'
  PROVE  ~ (heap'[i].owner = call.mod /\ heap'[i].adr <= call.limit)
  <1>1. i \in 1 .. Len(heap')
    BY DEF Live
  <1>2. CASE Release
    <2>1. PICK c, e \in Nat : Shape(c, e)
      BY <1>2, ReleaseShape
    <2>2. cur \in Nat
      BY CurNat DEF RInv
    <2>3. e = Len(heap)
      <3>1. c # 0 /\ c \in 2 .. cur
        BY <2>1, <2>2 DEF Shape
      <3> QED BY <3>1, <2>1 DEF Shape, Onward
    <2>4. i \in 1 .. c - 1 /\ i \in 1 .. cur - 1
      BY <1>1, <2>1, <2>2, <2>3 DEF Shape
    <2>5. heap'[i] = heap[i]
      BY <2>1, <2>4 DEF Shape
    <2> QED BY <1>2, <2>4, <2>5 DEF RInv, LoopInv, Release, Looping
  <1>3. CASE EndOfList
    <2>1. heap' = heap /\ cur = Len(heap) /\ Looping /\ ~ Releases(cur)
      BY <1>3 DEF EndOfList
    <2> QED BY <1>1, <2>1, PassedOver
  <1>4. CASE Skip
    <2>1. cur' = cur + 1 /\ cur \in Nat
      BY <1>4, CurNat DEF Skip, RInv
    <2> QED BY <2>1
  <1> QED BY <1>2, <1>3, <1>4 DEF FreeLoop

\* When hp_free_all returns, its module owns nothing at or below the limit:
\* the loop skips no block although it merges blocks while it walks over them.
THEOREM FreeAllIsComplete == Spec => FreeAllFreesAll
  <1> DEFINE Done ==
        (cur # 0 /\ cur' = 0 /\ ~ call.by_ptr) =>
          \A i \in Live' : ~ (heap'[i].owner = call.mod /\ heap'[i].adr <= call.limit)
  <1>1. RInv /\ [Next]_vars => [Done]_vars
    <2> SUFFICES ASSUME RInv, Next, cur # 0, cur' = 0, ~ call.by_ptr,
                        NEW i \in Live'
                 PROVE  ~ (heap'[i].owner = call.mod /\ heap'[i].adr <= call.limit)
      BY DEF Done
    <2>1. FreeLoop
      BY DEF Next, Idle, AllocGap, AllocExtend, AllocOverflow, FreeCall, FreeAllCall, MoveStack
    <2> QED BY <2>1, FreeAllDone
  <1> QED
    BY <1>1, RInvInit, RInvStep, PTL DEF Spec, FreeAllFreesAll

\* hp_free releases the one block it was given, hp_free_all only blocks of its
\* module at or below its limit; splitting and merging touch no other.
THEOREM OthersStay == Spec => OthersUntouched
  <1> DEFINE Kept == \A i \in Live :
                       \/ \E j \in Live' : heap'[j] = heap[i]
                       \/ /\ cur # 0
                          /\ heap[i].adr <= call.limit
                          /\ IF call.by_ptr THEN heap[i].adr = call.ptr
                                            ELSE heap[i].owner = call.mod
  <1>1. RInv /\ [Next]_vars => [Kept]_vars
    <2> SUFFICES ASSUME RInv, Next, NEW i \in Live
                 PROVE  \/ heap[i] \in Blocks'
                        \/ /\ cur # 0
                           /\ heap[i].adr <= call.limit
                           /\ IF call.by_ptr THEN heap[i].adr = call.ptr
                                             ELSE heap[i].owner = call.mod
      BY DEF Blocks
    <2>1. heap[i] \in Blocks /\ IInv
      BY DEF Blocks, RInv
    <2>2. ASSUME NEW m \in Mods, NEW n \in Sizes, AllocGap(m, n) \/ AllocExtend(m, n)
          PROVE  heap[i] \in Blocks'
      BY <2>1, <2>2, AllocBlocks
    <2>3. CASE FreeLoop
      BY <2>1, <2>3, LoopBlocks
    <2>4. CASE UNCHANGED heap
      BY <2>1, <2>4 DEF Blocks, Live
    <2>5. \/ UNCHANGED heap \/ FreeLoop
          \/ \E m \in Mods, n \in Sizes : AllocGap(m, n) \/ AllocExtend(m, n)
      BY DEF Next, AllocOverflow, FreeCall, FreeAllCall, MoveStack
    <2> QED BY <2>2, <2>3, <2>4, <2>5
  <1> QED BY <1>1, RInvInit, RInvStep, PTL DEF Spec, OthersUntouched

=============================================================================
