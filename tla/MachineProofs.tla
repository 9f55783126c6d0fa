---------------------------- MODULE MachineProofs ----------------------------
(***************************************************************************)
(* What holds when no load fails half-way (Complete) and no program asks   *)
(* for a module that is in the table: first of Programs, then of programs  *)
(* with their modules, blocks, files and stacks in one memory (Machine).   *)
(*                                                                         *)
(* The table is a stack of programs, each with the entries from its own up *)
(* to the next one's.  Up to the entries of a program that waits, or runs, *)
(* the table is Closed: everything is loaded, linked, and imports nothing  *)
(* from above.  During a load only the entries from first on are not, and  *)
(* the load ends with all of them loaded or with an error.                 *)
(*                                                                         *)
(* Each step of Machine is one of Programs, one of Heap, or neither, so    *)
(* that the invariants of Programs and of HeapProofs hold here too.        *)
(* OwnInv adds who owns what: blocks and files belong to programs in       *)
(* progress, and when the loop of hp_free_all ends its module has none     *)
(* left.  MemInv adds where everything lies: the data of entries and the   *)
(* stacks of waiting programs follow one another from 0 to data_top, the   *)
(* stack of the running program lies above, the heap above that.  At the   *)
(* end the machine is shown to implement Heap, and so HeapSpec.            *)
(***************************************************************************)
EXTENDS Machine, ListProofs

\* The links of entry i are what it imports, among the first n entries of t.
Matches(t, i, n) ==
  /\ Len(t[i].links) = Len(t[i].ids)
  /\ \A k \in 1 .. Len(t[i].ids) :
       /\ t[i].links[k] \in 1 .. n
       /\ t[t[i].links[k]].name = t[i].ids[k].name
       /\ t[t[i].links[k]].key = t[i].ids[k].key

\* The first n entries of t need no others.
Closed(t, n) ==
  n <= Len(t) /\ \A i \in 1 .. n : t[i].loaded /\ t[i].fixed /\ Matches(t, i, n)

\* The data of the entries from lo + 1 to hi take what lies between base and top.
Sums(t, lo, hi, base, top) ==
  \E s \in [lo .. hi -> Nat] :
    /\ s[lo] = base /\ s[hi] = top
    /\ \A i \in lo + 1 .. hi : s[i] = s[i - 1] + t[i].size

\* Program p has the entries up to n, and data from base to top.
Stands(t, p, n, base, top) ==
  /\ p.calls # <<>>
  /\ p.exec \in 1 .. n
  /\ Closed(t, n)
  /\ \A c \in DOMAIN p.calls : p.calls[c].mod \in 1 .. n
  /\ Sums(t, p.exec - 1, n, base, top)

\* Where the data of the kth program begins: at the stack of the one that waits.
Floor(ps, k) == IF k = 1 THEN 0 ELSE ps[k - 1].S

\* The first w programs wait, one on top of the other, and have n entries together.
Waits(t, ps, w, n) ==
  \A k \in 1 .. w :
    /\ Stands(t, ps[k], ps[k].num - 1, Floor(ps, k), ps[k].data)
    /\ ps[k].num = IF k < w THEN ps[k + 1].exec ELSE n + 1
    /\ ps[k].num - 1 <= n
    /\ \A j \in k + 1 .. w : ps[k].num <= ps[j].exec

Distinct(t) == \A i, j \in DOMAIN t : t[i].name = t[j].name => i = j

\* What the entry waits for is an import of a file that can be found.
Known(d, name) == \E f \in d : \E id \in ToSet(f.imports) : id.name = name

\* The load can only end with an error: no file holds the module that is missing.
Doomed(t) == \E i \in DOMAIN t : ~ t[i].loaded /\ \A h \in Files : h.name # t[i].name

InLoad ==
  mode \in {"load", "scan", "fix"} =>
    /\ first <= Len(tab) + 1 /\ Len(progs) < MaxNest
    /\ \A i \in DOMAIN tab :
         /\ tab[i].loaded => Matches(tab, i, Len(tab))
         /\ ~ tab[i].loaded => first <= i /\ tab[i].size = 0 /\ Known(disk, tab[i].name)
    /\ mode = "load" /\ loads = <<>> =>
         /\ Len(tab) = first - 1
         /\ \A f \in disk : f.file = want => f.name \notin Names(tab)
    /\ mode = "load" /\ loads # <<>> =>
         \E i \in DOMAIN tab : ~ tab[i].loaded /\ tab[i].name = want
    /\ mode # "load" => first <= Len(tab)
    /\ mode = "scan" => loads # <<>>
    /\ Doomed(tab) \/
         /\ Closed(tab, first - 1)
         /\ Waits(tab, progs, Len(progs), first - 1)
         /\ Sums(tab, first - 1, Len(tab), Floor(progs, Len(progs) + 1), data_top)
         /\ progs # <<>> => gs_G \in {tab[modn].ofs, SystemData}

InStart ==
  mode = "start" =>
    /\ first <= Len(tab) /\ Len(progs) < MaxNest
    /\ Closed(tab, Len(tab))
    /\ Waits(tab, progs, Len(progs), first - 1)
    /\ Sums(tab, first - 1, Len(tab), Floor(progs, Len(progs) + 1), data_top)

InRun ==
  mode = "run" =>
    /\ Stands(tab, Now, Len(tab), Floor(progs, Len(progs)), data_top)
    /\ Waits(tab, progs, Len(progs) - 1, Now.exec - 1)
    /\ gs_G \in {tab[modn].ofs, SystemData}

InEnd ==
  mode = "end" =>
    /\ Now.exec - 1 <= Len(tab)
    /\ \A i \in Now.exec .. Len(tab) : tab[i].fixed
    /\ Sums(tab, Now.exec - 1, Len(tab), Floor(progs, Len(progs)), data_top)
    /\ Waits(tab, progs, Len(progs) - 1, Now.exec - 1)
    /\ gs_G = SystemData

InResume ==
  mode \in {"resume", "failed"} =>
    /\ Waits(tab, progs, Len(progs), Len(tab))
    /\ data_top = Floor(progs, Len(progs) + 1)
    /\ gs_G \in {tab[modn].ofs, SystemData}

Inv == TypeOK /\ Defined /\ Distinct(tab) /\ InLoad /\ InStart /\ InRun /\ InEnd /\ InResume

-----------------------------------------------------------------------------
(* What does not depend on the entries above                               *)

\* t and u have the same first n entries.
Same(t, u, n) == n <= Len(t) /\ n <= Len(u) /\ \A i \in 1 .. n : u[i] = t[i]

\* Entry i goes on matching its imports while names, keys and its own links stay.
LEMMA MatchesKept ==
  ASSUME NEW t, NEW u, NEW i, NEW n \in Int, NEW m \in Int, Matches(t, i, n), n <= m,
         u[i].links = t[i].links, u[i].ids = t[i].ids,
         \A j \in 1 .. n : u[j].name = t[j].name /\ u[j].key = t[j].key
  PROVE  Matches(u, i, m)
  <1>1. Len(u[i].links) = Len(u[i].ids)
    BY DEF Matches
  <1>2. ASSUME NEW k \in 1 .. Len(u[i].ids)
        PROVE  /\ u[i].links[k] \in 1 .. m
               /\ u[u[i].links[k]].name = u[i].ids[k].name
               /\ u[u[i].links[k]].key = u[i].ids[k].key
    <2> DEFINE j == t[i].links[k]
    <2>1. j \in 1 .. n /\ t[j].name = t[i].ids[k].name /\ t[j].key = t[i].ids[k].key
      BY <1>2 DEF Matches
    <2>2. u[i].links[k] = j
      OBVIOUS
    <2> HIDE DEF j
    <2>3. u[j].name = t[j].name /\ u[j].key = t[j].key /\ j \in 1 .. m
      BY <2>1
    <2> QED
      BY <2>1, <2>2, <2>3
  <1> QED
    BY <1>1, <1>2 DEF Matches

\* The first n entries stay closed as long as they stay.
LEMMA ClosedKept ==
  ASSUME NEW t, NEW u, NEW n \in Int, Closed(t, n), Same(t, u, n)
  PROVE  Closed(u, n)
  <1>1. ASSUME NEW i \in 1 .. n PROVE u[i].loaded /\ u[i].fixed /\ Matches(u, i, n)
    <2>1. t[i].loaded /\ t[i].fixed /\ Matches(t, i, n) /\ u[i] = t[i]
      BY DEF Closed, Same
    <2>2. \A j \in 1 .. n : u[j].name = t[j].name /\ u[j].key = t[j].key
      BY DEF Same
    <2>3. Matches(u, i, n)
      BY <2>1, <2>2, MatchesKept
    <2> QED
      BY <2>1, <2>3
  <1> QED
    BY <1>1 DEF Closed, Same

\* The data stay piled up as long as the sizes stay.
LEMMA SumsKept ==
  ASSUME NEW t, NEW u, NEW lo \in Nat, NEW hi \in Int, NEW base, NEW top,
         Sums(t, lo, hi, base, top), \A i \in lo + 1 .. hi : u[i].size = t[i].size
  PROVE  Sums(u, lo, hi, base, top)
  BY DEF Sums

\* A program stands as long as its entries stay.
LEMMA StandsKept ==
  ASSUME NEW t, NEW u, NEW p, NEW n \in Int, NEW base, NEW top,
         Stands(t, p, n, base, top), Same(t, u, n)
  PROVE  Stands(u, p, n, base, top)
  <1>1. Closed(u, n)
    BY ClosedKept DEF Stands
  <1>2. p.exec - 1 \in Nat /\ Sums(t, p.exec - 1, n, base, top)
    BY DEF Stands
  <1>3. \A i \in p.exec - 1 + 1 .. n : u[i].size = t[i].size
    BY DEF Same, Stands
  <1>4. Sums(u, p.exec - 1, n, base, top)
    BY <1>2, <1>3, SumsKept
  <1> QED
    BY <1>1, <1>4 DEF Stands

\* The programs that wait do so as long as their entries stay.
LEMMA WaitsKept ==
  ASSUME NEW t, NEW u, NEW ps, NEW qs, NEW w \in Nat, NEW n \in Int,
         Waits(t, ps, w, n), Same(t, u, n),
         \A k \in 1 .. w : qs[k] = ps[k] /\ ps[k].num \in Nat
  PROVE  Waits(u, qs, w, n)
  <1> SUFFICES ASSUME NEW k \in 1 .. w
               PROVE  /\ Stands(u, qs[k], qs[k].num - 1, Floor(qs, k), qs[k].data)
                      /\ qs[k].num = IF k < w THEN qs[k + 1].exec ELSE n + 1
                      /\ qs[k].num - 1 <= n
                      /\ \A j \in k + 1 .. w : qs[k].num <= qs[j].exec
    BY DEF Waits
  <1>1. /\ Stands(t, ps[k], ps[k].num - 1, Floor(ps, k), ps[k].data)
        /\ ps[k].num = IF k < w THEN ps[k + 1].exec ELSE n + 1
        /\ ps[k].num - 1 <= n
        /\ \A j \in k + 1 .. w : ps[k].num <= ps[j].exec
    BY DEF Waits
  <1>2. qs[k] = ps[k] /\ ps[k].num - 1 \in Int
    OBVIOUS
  <1>3. Floor(qs, k) = Floor(ps, k)
    BY DEF Floor
  <1>4. Same(t, u, ps[k].num - 1)
    BY <1>1, <1>2 DEF Same
  <1>5. Stands(u, ps[k], ps[k].num - 1, Floor(ps, k), ps[k].data)
    BY <1>1, <1>2, <1>4, StandsKept
  <1>6. k < w => qs[k + 1] = ps[k + 1]
    OBVIOUS
  <1>7. \A j \in k + 1 .. w : qs[j] = ps[j]
    OBVIOUS
  <1> QED
    BY <1>1, <1>2, <1>3, <1>5, <1>6, <1>7

-----------------------------------------------------------------------------
(* The data of the entries                                                 *)

\* No entry has data: they end where they begin.
LEMMA SumsNone ==
  ASSUME NEW t, NEW lo \in Int, NEW base, NEW top
  PROVE  Sums(t, lo, lo, base, top) <=> base = top /\ top \in Nat
  <1>1. ASSUME Sums(t, lo, lo, base, top) PROVE base = top /\ top \in Nat
    BY <1>1 DEF Sums
  <1>2. ASSUME base = top, top \in Nat PROVE Sums(t, lo, lo, base, top)
    <2> DEFINE s == [i \in lo .. lo |-> top]
    <2>1. s \in [lo .. lo -> Nat] /\ s[lo] = base /\ s[lo] = top
          /\ \A i \in lo + 1 .. lo : s[i] = s[i - 1] + t[i].size
      BY <1>2
    <2> QED
      BY <2>1 DEF Sums
  <1> QED
    BY <1>1, <1>2

\* Where data begin and end.
LEMMA SumsType ==
  ASSUME NEW t, NEW lo \in Int, NEW hi \in Int, lo <= hi, NEW base, NEW top,
         Sums(t, lo, hi, base, top)
  PROVE  base \in Nat /\ top \in Nat
  BY DEF Sums

\* An entry e without data, or a new one, gets some; the other new ones have none.
LEMMA SumsLoaded ==
  ASSUME NEW t, NEW u, NEW lo \in Nat, NEW n \in Nat, NEW m \in Nat, NEW base, NEW top,
         lo <= n, n <= m, NEW e \in lo + 1 .. m, NEW sz \in Nat,
         Sums(t, lo, n, base, top),
         \A i \in lo + 1 .. n : t[i].size \in Nat,
         e <= n => t[e].size = 0,
         u[e].size = sz,
         \A i \in lo + 1 .. n : i # e => u[i].size = t[i].size,
         \A i \in n + 1 .. m : i # e => u[i].size = 0
  PROVE  Sums(u, lo, m, base, top + sz)
  <1>1. PICK s \in [lo .. n -> Nat] :
          /\ s[lo] = base /\ s[n] = top
          /\ \A i \in lo + 1 .. n : s[i] = s[i - 1] + t[i].size
    BY DEF Sums
  <1> DEFINE r == [i \in lo .. m |-> (IF i <= n THEN s[i] ELSE top) + (IF i < e THEN 0 ELSE sz)]
  <1>2. top \in Nat /\ \A i \in lo .. n : s[i] \in Nat
    <2>1. \A i \in lo .. n : s[i] \in Nat
      BY <1>1
    <2>2. n \in lo .. n
      OBVIOUS
    <2> QED
      BY <2>1, <2>2, <1>1
  <1>3. r \in [lo .. m -> Nat]
    BY <1>2
  <1>4. r[lo] = base
    BY <1>1, <1>2
  <1>5. r[m] = top + sz
    BY <1>1, <1>2
  <1>6. ASSUME NEW i \in lo + 1 .. m PROVE r[i] = r[i - 1] + u[i].size
    <2>1. r[i] = (IF i <= n THEN s[i] ELSE top) + (IF i < e THEN 0 ELSE sz)
      OBVIOUS
    <2>2. i - 1 \in lo .. m
      OBVIOUS
    <2>3. r[i - 1] = (IF i - 1 <= n THEN s[i - 1] ELSE top) + (IF i - 1 < e THEN 0 ELSE sz)
      BY <2>2
    <2> HIDE DEF r
    <2>4. CASE i <= n
      <3>1. s[i] = s[i - 1] + t[i].size /\ s[i] \in Nat /\ s[i - 1] \in Nat
        BY <1>1, <1>2, <2>4
      <3>2. CASE i = e
        BY <3>1, <3>2, <2>1, <2>3, <2>4
      <3>3. CASE i # e
        <4>1. u[i].size = t[i].size
          BY <3>3, <2>4
        <4>2. (IF i - 1 < e THEN 0 ELSE sz) = (IF i < e THEN 0 ELSE sz)
          BY <3>3
        <4>3. (IF i <= n THEN s[i] ELSE top) = s[i] /\ (IF i - 1 <= n THEN s[i - 1] ELSE top) = s[i - 1]
          BY <2>4
        <4>4. r[i] = s[i] + (IF i < e THEN 0 ELSE sz) /\ r[i - 1] = s[i - 1] + (IF i < e THEN 0 ELSE sz)
          BY <4>2, <4>3, <2>1, <2>3
        <4>5. (IF i < e THEN 0 ELSE sz) \in Nat
          OBVIOUS
        <4>6. t[i].size \in Int
          BY <2>4
        <4> QED
          BY <4>1, <4>4, <4>5, <3>1, <4>6
      <3> QED
        BY <3>2, <3>3
    <2>5. CASE i > n
      <3>1. (IF i <= n THEN s[i] ELSE top) = top /\ (IF i - 1 <= n THEN s[i - 1] ELSE top) = top
        BY <2>5, <1>1
      <3>2. u[i].size = IF i = e THEN sz ELSE 0
        BY <2>5
      <3> QED
        BY <3>1, <3>2, <2>1, <2>3, <1>2
    <2> QED
      BY <2>4, <2>5
  <1> QED
    BY <1>3, <1>4, <1>5, <1>6 DEF Sums

\* The topmost entry goes away.
LEMMA SumsTop ==
  ASSUME NEW t, NEW u, NEW lo \in Nat, NEW hi \in Nat, NEW base, NEW top, lo < hi,
         Sums(t, lo, hi, base, top), t[hi].size \in Nat, Same(t, u, hi - 1)
  PROVE  top - t[hi].size \in Nat /\ Sums(u, lo, hi - 1, base, top - t[hi].size)
  <1>1. PICK s \in [lo .. hi -> Nat] :
          /\ s[lo] = base /\ s[hi] = top
          /\ \A i \in lo + 1 .. hi : s[i] = s[i - 1] + t[i].size
    BY DEF Sums
  <1> DEFINE r == [i \in lo .. hi - 1 |-> s[i]]
  <1>2. s[hi] = s[hi - 1] + t[hi].size /\ s[hi - 1] \in Nat /\ s[hi] \in Nat
    BY <1>1
  <1>3. s[hi - 1] = top - t[hi].size
    BY <1>1, <1>2
  <1>4. r \in [lo .. hi - 1 -> Nat] /\ r[lo] = base /\ r[hi - 1] = top - t[hi].size
    BY <1>1, <1>3
  <1>5. ASSUME NEW i \in lo + 1 .. hi - 1 PROVE r[i] = r[i - 1] + u[i].size
    <2>1. u[i] = t[i] /\ i \in lo + 1 .. hi /\ i - 1 \in lo .. hi - 1 /\ i \in lo .. hi - 1
      BY DEF Same
    <2> QED
      BY <2>1, <1>1
  <1>6. Sums(u, lo, hi - 1, base, top - t[hi].size)
    BY <1>4, <1>5 DEF Sums
  <1> QED
    BY <1>2, <1>3, <1>6

-----------------------------------------------------------------------------
(* The table after a file is parsed                                        *)

\* Names are distinct, so that an entry is found by its name.
LEMMA IndexFound ==
  ASSUME NEW t, Distinct(t), NEW i \in DOMAIN t
  PROVE  IndexIn(t, t[i].name) = i
  <1>1. \E j \in DOMAIN t : t[j].name = t[i].name
    OBVIOUS
  <1>2. \A j \in DOMAIN t : t[j].name = t[i].name => j = i
    BY DEF Distinct
  <1> QED
    BY <1>1, <1>2 DEF IndexIn

\* The name and the key of a file are those of an identification.
LEMMA IdOfFile ==
  ASSUME NEW f \in Files
  PROVE  /\ [name |-> f.name, key |-> f.key] \in Id
         /\ f.name \in {id.name : id \in Id} /\ f.key \in {id.key : id \in Id}
  <1> DEFINE x == [name |-> f.name, key |-> f.key]
  <1>1. f.name \in {g.name : g \in Files} /\ f.key \in {g.key : g \in Files}
    OBVIOUS
  <1>2. x \in Id
    BY <1>1 DEF Id
  <1>3. x.name = f.name /\ x.key = f.key
    OBVIOUS
  <1> QED
    BY <1>2, <1>3

\* The entry of a file that is parsed.
LEMMA LoadedType ==
  ASSUME NEW f \in Files, data_top \in Nat
  PROVE  Loaded(f) \in Entry
  <1>1. f.imports \in Seq(Id) /\ f.size \in Nat
    BY FileAssumption
  <1>2. <<>> \in Seq(Nat)
    OBVIOUS
  <1> QED
    BY <1>1, <1>2, IdOfFile DEF Loaded, Entry

\* The entry of a module that is missing.
LEMMA MissingType ==
  ASSUME NEW id \in Id
  PROVE  Missing(id) \in Entry
  <1>1. <<>> \in Seq(Nat) /\ <<>> \in Seq(Id)
    OBVIOUS
  <1> QED
    BY <1>1 DEF Missing, Entry

\* A missing module has a name and a key and no data.
LEMMA MissingIs ==
  ASSUME NEW id
  PROVE  /\ Missing(id).name = id.name /\ Missing(id).key = id.key
         /\ ~ Missing(id).loaded /\ Missing(id).size = 0 /\ Missing(id).ofs = 0
  BY DEF Missing

\* The entry that f gets.
Place(f) == IF f.name \in Names(tab) THEN IndexIn(tab, f.name) ELSE Len(tab) + 1

\* The place of a module that is in the table already.
LEMMA PlaceKnown ==
  ASSUME tab \in Seq(Entry), Distinct(tab), NEW f, f.name \in Names(tab)
  PROVE  Place(f) \in 1 .. Len(tab) /\ tab[Place(f)].name = f.name
  <1>1. PICK i \in DOMAIN tab : tab[i].name = f.name
    BY DEF Names
  <1>2. IndexIn(tab, f.name) = i
    BY <1>1, IndexFound
  <1>3. DOMAIN tab = 1 .. Len(tab)
    OBVIOUS
  <1> QED
    BY <1>1, <1>2, <1>3 DEF Place

\* The module section changes or adds one entry.
LEMMA OwnEntry ==
  ASSUME tab \in Seq(Entry), Distinct(tab), data_top \in Nat, NEW f \in Files
  PROVE  LET own == WithOwn(f)
         IN /\ own \in Seq(Entry) /\ Distinct(own)
            /\ Len(own) = IF f.name \in Names(tab) THEN Len(tab) ELSE Len(tab) + 1
            /\ Place(f) \in 1 .. Len(own) /\ own[Place(f)] = Loaded(f)
            /\ \A i \in 1 .. Len(tab) : i # Place(f) => own[i] = tab[i]
  <1> DEFINE own == WithOwn(f)
  <1>1. Loaded(f) \in Entry /\ Len(tab) \in Nat /\ DOMAIN tab = 1 .. Len(tab)
    BY LoadedType
  <1>2. Loaded(f).name = f.name
    BY DEF Loaded
  <1>3. CASE f.name \in Names(tab)
    <2>1. Place(f) \in 1 .. Len(tab) /\ tab[Place(f)].name = f.name
      BY <1>3, PlaceKnown
    <2>2. own = [tab EXCEPT ![Place(f)] = Loaded(f)]
      BY <1>3 DEF WithOwn, Place
    <2>3. own \in Seq(Entry) /\ Len(own) = Len(tab)
      BY <2>1, <2>2, <1>1
    <2>4. own[Place(f)] = Loaded(f) /\ \A i \in 1 .. Len(tab) : i # Place(f) => own[i] = tab[i]
      BY <2>1, <2>2, <1>1
    <2>5. DOMAIN own = 1 .. Len(tab)
      BY <2>3
    <2> HIDE DEF own
    <2>6. \A i \in 1 .. Len(tab) : own[i].name = tab[i].name
      BY <2>1, <2>4, <1>2
    <2>7. Distinct(own)
      BY <2>5, <2>6, <1>1 DEF Distinct
    <2> QED
      BY <1>3, <2>1, <2>3, <2>4, <2>7 DEF own
  <1>4. CASE f.name \notin Names(tab)
    <2>1. Place(f) = Len(tab) + 1 /\ own = Append(tab, Loaded(f))
      BY <1>4 DEF Place, WithOwn
    <2>2. own \in Seq(Entry) /\ Len(own) = Len(tab) + 1
      BY <2>1, <1>1
    <2>3. own[Place(f)] = Loaded(f) /\ \A i \in 1 .. Len(tab) : own[i] = tab[i]
      BY <2>1, <1>1
    <2>4. DOMAIN own = 1 .. Len(tab) + 1
      BY <2>2
    <2> HIDE DEF own
    <2>5. \A i \in 1 .. Len(tab) : tab[i].name # f.name
      BY <1>4, <1>1 DEF Names
    <2>6. Distinct(own)
      <3> SUFFICES ASSUME NEW i \in 1 .. Len(tab) + 1, NEW j \in 1 .. Len(tab) + 1,
                          own[i].name = own[j].name
                   PROVE  i = j
        BY <2>4 DEF Distinct
      <3>1. CASE i \in 1 .. Len(tab) /\ j \in 1 .. Len(tab)
        BY <3>1, <2>3, <1>1 DEF Distinct
      <3>2. CASE i = Len(tab) + 1 /\ j \in 1 .. Len(tab)
        BY <3>2, <2>1, <2>3, <2>5, <1>2
      <3>3. CASE i \in 1 .. Len(tab) /\ j = Len(tab) + 1
        BY <3>3, <2>1, <2>3, <2>5, <1>2
      <3> QED
        BY <1>1, <3>1, <3>2, <3>3
    <2>7. Place(f) \in 1 .. Len(own)
      BY <2>1, <2>2, <1>1
    <2> QED
      BY <1>4, <2>2, <2>3, <2>6, <2>7 DEF own
  <1> QED
    BY <1>3, <1>4

\* The import section adds one entry for each module that is not known, in any version.
LEMMA ImportEntries ==
  ASSUME tab \in Seq(Entry), Distinct(tab), data_top \in Nat, NEW f \in Files
  PROVE  LET own == WithOwn(f)
             all == WithImports(f)
         IN /\ all \in Seq(Entry) /\ Distinct(all) /\ Len(own) <= Len(all)
            /\ \A i \in 1 .. Len(own) : all[i] = own[i]
            /\ \A i \in Len(own) + 1 .. Len(all) :
                 \E id \in ToSet(f.imports) : all[i] = Missing(id)
            /\ \A id \in ToSet(f.imports) : id.name \in Names(all)
  <1> DEFINE own == WithOwn(f)
             S == {id \in Id : id.name \notin Names(own)}
             fresh == Only(f.imports, S)
             more == [i \in DOMAIN fresh |-> Missing(fresh[i])]
             all == WithImports(f)
             R == {p \in Id \X Id : p[1].name = p[2].name}
  <1>1. own \in Seq(Entry) /\ Distinct(own)
    BY OwnEntry
  <1>2. f.imports \in Seq(Id) /\ Apart(f.imports, R)
    BY FileAssumption DEF Apart
  <1>3. fresh \in Seq(Id) /\ Apart(fresh, R) /\ ToSet(fresh) = ToSet(f.imports) \intersect S
    <2> HIDE DEF S, R
    <2> QED
      BY <1>2, OnlyType, OnlyApart, OnlyElements
  <1>4. all = own \o more
    BY DEF WithImports
  <1> HIDE DEF fresh, own, all, R
  <1>5. Len(fresh) \in Nat /\ DOMAIN fresh = 1 .. Len(fresh) /\ \A i \in 1 .. Len(fresh) : fresh[i] \in Id
    BY <1>3
  <1>6. more \in Seq(Entry) /\ Len(more) = Len(fresh)
    BY <1>5, MissingType
  <1>7. \A i \in 1 .. Len(fresh) : more[i] = Missing(fresh[i])
    BY <1>5
  <1> HIDE DEF more
  <1>8. Len(own) \in Nat /\ DOMAIN own = 1 .. Len(own)
    BY <1>1
  <1>9. all \in Seq(Entry) /\ Len(all) = Len(own) + Len(fresh)
    <2>1. own \o more \in Seq(Entry) /\ Len(own \o more) = Len(own) + Len(more)
      BY <1>1, <1>6
    <2> QED
      BY <2>1, <1>4, <1>6
  <1>10. \A i \in 1 .. Len(own) : all[i] = own[i]
    BY <1>1, <1>4, <1>6, <1>8
  <1>11. ASSUME NEW i \in 1 .. Len(fresh)
         PROVE  all[Len(own) + i] = Missing(fresh[i])
    <2>1. all[Len(own) + i] = more[i]
      BY <1>1, <1>4, <1>6, Concatenated
    <2> QED
      BY <2>1, <1>7
  <1>12. ASSUME NEW i \in Len(own) + 1 .. Len(all)
         PROVE  i - Len(own) \in 1 .. Len(fresh) /\ all[i] = Missing(fresh[i - Len(own)])
    <2>1. i - Len(own) \in 1 .. Len(fresh) /\ Len(own) + (i - Len(own)) = i
      BY <1>5, <1>8, <1>9
    <2> QED
      BY <2>1, <1>11
  <1>13. \A i \in 1 .. Len(fresh) : fresh[i] \in ToSet(f.imports) /\ fresh[i] \in S
    BY <1>3, <1>5 DEF ToSet
  <1>14. \A i \in Len(own) + 1 .. Len(all) : \E id \in ToSet(f.imports) : all[i] = Missing(id)
    BY <1>12, <1>13
  <1>15. Distinct(all)
    <2> SUFFICES ASSUME NEW i \in 1 .. Len(all), NEW j \in 1 .. Len(all), all[i].name = all[j].name
                 PROVE  i = j
      BY <1>9 DEF Distinct
    <2>1. ASSUME NEW k \in 1 .. Len(own), NEW l \in Len(own) + 1 .. Len(all)
          PROVE  all[k].name # all[l].name
      <3>1. all[l].name = fresh[l - Len(own)].name /\ fresh[l - Len(own)] \in S
        BY <1>12, <1>13, MissingIs
      <3>2. all[k].name \in Names(own)
        BY <1>8, <1>10 DEF Names
      <3> QED
        BY <3>1, <3>2
    <2>2. ASSUME i \in Len(own) + 1 .. Len(all), j \in Len(own) + 1 .. Len(all)
          PROVE  i = j
      <3>1. all[i].name = fresh[i - Len(own)].name /\ i - Len(own) \in DOMAIN fresh
        BY <2>2, <1>12, <1>5, MissingIs
      <3>2. all[j].name = fresh[j - Len(own)].name /\ j - Len(own) \in DOMAIN fresh
        BY <2>2, <1>12, <1>5, MissingIs
      <3>3. <<fresh[i - Len(own)], fresh[j - Len(own)]>> \in R
        BY <3>1, <3>2, <1>5 DEF R
      <3>4. i - Len(own) = j - Len(own)
        BY <3>1, <3>2, <3>3, <1>3 DEF Apart
      <3> QED
        BY <3>4, <1>8
    <2>3. CASE i \in 1 .. Len(own) /\ j \in 1 .. Len(own)
      BY <2>3, <1>1, <1>8, <1>10 DEF Distinct
    <2> QED
      BY <2>1, <2>2, <2>3, <1>8, <1>9
  <1>16. ASSUME NEW id \in ToSet(f.imports) PROVE id.name \in Names(all)
    <2>1. id \in Id
      BY <1>2 DEF ToSet
    <2>2. CASE id.name \in Names(own)
      <3>1. PICK i \in 1 .. Len(own) : own[i].name = id.name
        BY <2>2, <1>8 DEF Names
      <3>2. i \in DOMAIN all /\ all[i].name = id.name
        BY <3>1, <1>8, <1>9, <1>10, <1>5
      <3> QED
        BY <3>2 DEF Names
    <2>3. CASE id.name \notin Names(own)
      <3>1. id \in ToSet(fresh)
        BY <2>1, <2>3, <1>3
      <3>2. PICK i \in 1 .. Len(fresh) : fresh[i] = id
        BY <3>1, <1>5 DEF ToSet
      <3>3. Len(own) + i \in DOMAIN all
        BY <1>5, <1>8, <1>9
      <3>4. all[Len(own) + i].name = id.name
        BY <3>2, <1>11, MissingIs
      <3> QED
        BY <3>3, <3>4 DEF Names
    <2> QED
      BY <2>2, <2>3
  <1> QED
    BY <1>5, <1>8, <1>9, <1>10, <1>14, <1>15, <1>16 DEF own, all

\* The entry of f is complete, with its data at data_top, an old one keeps name and
\* key, the others that are old are as they were, and those that are new wait.
Extends(t, u, f, e) ==
  /\ u \in Seq(Entry) /\ Distinct(u) /\ Len(t) <= Len(u)
  /\ e \in 1 .. Len(u)
  /\ u[e].name = f.name /\ u[e].loaded /\ u[e].size = f.size /\ u[e].ofs = data_top
  /\ Matches(u, e, Len(u))
  /\ \A i \in 1 .. Len(t) : u[i].name = t[i].name /\ u[i].key = t[i].key /\ (i # e => u[i] = t[i])
  /\ \A i \in Len(t) + 1 .. Len(u) : i # e =>
       /\ ~ u[i].loaded /\ u[i].size = 0 /\ u[i].ofs = 0
       /\ \E id \in ToSet(f.imports) : u[i].name = id.name

\* A file whose keys do not clash extends the table.
LEMMA Parsed ==
  ASSUME tab \in Seq(Entry), Distinct(tab), data_top \in Nat, NEW f \in Files,
         \A id \in Ids(f) : ~ Clash(id)
  PROVE  Extends(tab, WithModule(f), f, Place(f))
  <1> DEFINE own == WithOwn(f)
             all == WithImports(f)
             e == Place(f)
             links == [i \in DOMAIN f.imports |-> IndexIn(all, f.imports[i].name)]
             u == [all EXCEPT ![e].links = links]
  <1>1. /\ own \in Seq(Entry)
        /\ Len(own) = IF f.name \in Names(tab) THEN Len(tab) ELSE Len(tab) + 1
        /\ e \in 1 .. Len(own) /\ own[e] = Loaded(f)
        /\ \A i \in 1 .. Len(tab) : i # e => own[i] = tab[i]
    BY OwnEntry
  <1>2. /\ all \in Seq(Entry) /\ Distinct(all) /\ Len(own) <= Len(all)
        /\ \A i \in 1 .. Len(own) : all[i] = own[i]
        /\ \A i \in Len(own) + 1 .. Len(all) : \E id \in ToSet(f.imports) : all[i] = Missing(id)
        /\ \A id \in ToSet(f.imports) : id.name \in Names(all)
    BY ImportEntries
  <1>3. f.name \notin Names(tab) => e = Len(tab) + 1
    BY DEF Place
  <1>4. f.name \in Names(tab) => e \in 1 .. Len(tab) /\ tab[e].name = f.name
    BY PlaceKnown
  <1>5. /\ f.imports \in Seq(Id) /\ DOMAIN f.imports = 1 .. Len(f.imports)
        /\ \A i \in DOMAIN f.imports : f.imports[i].name # f.name
        /\ \A i, j \in DOMAIN f.imports : f.imports[i].name = f.imports[j].name => i = j
    BY FileAssumption
  <1>6. /\ Loaded(f).name = f.name /\ Loaded(f).loaded /\ Loaded(f).size = f.size
        /\ Loaded(f).ids = f.imports /\ Loaded(f).key = f.key /\ Loaded(f).ofs = data_top
    BY DEF Loaded
  <1> HIDE DEF own, all, e
  <1>7. Len(tab) \in Nat /\ Len(own) \in Nat /\ Len(all) \in Nat /\ e \in 1 .. Len(all)
        /\ DOMAIN all = 1 .. Len(all)
    BY <1>1, <1>2
  <1>8. all[e] = Loaded(f)
    BY <1>1, <1>2
  <1>9. IndexIn(all, f.name) = e
    BY <1>2, <1>6, <1>7, <1>8, IndexFound
  <1>10. WithModule(f) = u
    BY <1>9 DEF WithModule, all
  <1>11. ASSUME NEW k \in 1 .. Len(f.imports)
         PROVE  links[k] \in 1 .. Len(all) /\ all[links[k]].name = f.imports[k].name
    <2>1. f.imports[k] \in ToSet(f.imports)
      BY <1>5 DEF ToSet
    <2>2. PICK i \in 1 .. Len(all) : all[i].name = f.imports[k].name
      BY <2>1, <1>2, <1>7 DEF Names
    <2>3. links[k] = i
      BY <2>2, <1>2, <1>5, <1>7, IndexFound
    <2> QED
      BY <2>2, <2>3
  <1> HIDE DEF links
  <1>12. links \in Seq(Nat) /\ Len(links) = Len(f.imports)
    <2>1. links = [i \in 1 .. Len(f.imports) |-> links[i]]
      BY <1>5 DEF links
    <2>2. \A k \in 1 .. Len(f.imports) : links[k] \in Nat
      BY <1>11, <1>7
    <2>3. Len(f.imports) \in Nat
      BY <1>5
    <2>4. DOMAIN links = 1 .. Len(f.imports) /\ links \in [1 .. Len(f.imports) -> Nat]
      BY <2>1, <2>2
    <2> QED
      BY <2>3, <2>4
  <1>13. u[e] = [Loaded(f) EXCEPT !.links = links] /\ \A i \in 1 .. Len(all) : i # e => u[i] = all[i]
    BY <1>7, <1>8
  <1>14. /\ u[e] \in Entry /\ u[e].name = f.name /\ u[e].key = f.key /\ u[e].loaded /\ u[e].size = f.size
         /\ u[e].ids = f.imports /\ u[e].links = links /\ u[e].ofs = data_top
    <2>1. Loaded(f) \in Entry
      BY LoadedType
    <2>2. [Loaded(f) EXCEPT !.links = links] \in Entry
      BY <1>12, <2>1 DEF Entry
    <2>3. /\ u[e].name = Loaded(f).name /\ u[e].key = Loaded(f).key /\ u[e].loaded = Loaded(f).loaded
          /\ u[e].size = Loaded(f).size /\ u[e].ids = Loaded(f).ids /\ u[e].links = links
          /\ u[e].ofs = Loaded(f).ofs
      <3>1. u[e] = [Loaded(f) EXCEPT !.links = links]
        BY <1>13
      <3>2. \A x \in Entry : LET y == [x EXCEPT !.links = links]
                             IN /\ y.name = x.name /\ y.key = x.key /\ y.loaded = x.loaded
                                /\ y.size = x.size /\ y.ids = x.ids /\ y.links = links /\ y.ofs = x.ofs
        BY DEF Entry
      <3> QED
        BY <2>1, <3>1, <3>2, Zenon
    <2> QED
      BY <1>13, <1>6, <2>2, <2>3
  <1>15. u \in Seq(Entry) /\ Len(u) = Len(all)
    <2>1. DOMAIN u = 1 .. Len(all)
      BY <1>7
    <2>2. ASSUME NEW i \in 1 .. Len(all) PROVE u[i] \in Entry
      <3>1. all[i] \in Entry
        BY <1>2
      <3> HIDE DEF u
      <3> QED
        BY <3>1, <1>13, <1>14
    <2>3. u = [i \in 1 .. Len(all) |-> u[i]]
      BY <1>7
    <2> HIDE DEF u
    <2> QED
      BY <2>1, <2>2, <2>3, <1>7
  <1> HIDE DEF u
  <1>16. \A i \in 1 .. Len(all) : u[i].name = all[i].name /\ u[i].key = all[i].key
    BY <1>6, <1>8, <1>13, <1>14
  <1>17. Distinct(u)
    BY <1>2, <1>7, <1>15, <1>16 DEF Distinct
  <1>18. ASSUME NEW i \in 1 .. Len(tab)
         PROVE  u[i].name = tab[i].name /\ u[i].key = tab[i].key /\ (i # e => u[i] = tab[i])
    <2>1. i \in 1 .. Len(own) /\ i \in 1 .. Len(all)
      BY <1>1, <1>2, <1>7
    <2>2. CASE i # e
      BY <2>1, <2>2, <1>1, <1>2, <1>13
    <2>3. CASE i = e
      <3>1. f.name \in Names(tab) /\ tab[e].name = f.name
        BY <2>3, <1>3, <1>4, <1>7
      <3>2. ~ Clash([name |-> f.name, key |-> f.key])
        BY DEF Ids
      <3>3. tab[e].key = f.key
        BY <2>3, <3>1, <3>2 DEF Clash
      <3> QED
        BY <2>3, <3>1, <3>3, <1>14
    <2> QED
      BY <2>2, <2>3
  <1>19. ASSUME NEW i \in Len(tab) + 1 .. Len(u), i # e
         PROVE  /\ ~ u[i].loaded /\ u[i].size = 0 /\ u[i].ofs = 0
                /\ \E id \in ToSet(f.imports) : u[i] = Missing(id)
    <2>1. i \in Len(own) + 1 .. Len(all)
      BY <1>19, <1>1, <1>3, <1>7, <1>15
    <2>2. u[i] = all[i]
      BY <2>1, <1>19, <1>7, <1>13
    <2>3. PICK id \in ToSet(f.imports) : all[i] = Missing(id)
      BY <2>1, <1>2
    <2> QED
      BY <2>2, <2>3, MissingIs
  <1>20. Matches(u, e, Len(u))
    <2> SUFFICES ASSUME NEW k \in 1 .. Len(f.imports)
                 PROVE  /\ u[e].links[k] \in 1 .. Len(u)
                        /\ u[u[e].links[k]].name = f.imports[k].name
                        /\ u[u[e].links[k]].key = f.imports[k].key
      BY <1>12, <1>14 DEF Matches
    <2> DEFINE l == links[k]
    <2>1. l \in 1 .. Len(all) /\ all[l].name = f.imports[k].name
      BY <1>11
    <2> HIDE DEF l
    <2>2. l # e
      BY <2>1, <1>5, <1>6, <1>8
    <2>3. f.imports[k] \in ToSet(f.imports)
      BY <1>5 DEF ToSet
    <2>4. CASE l \in 1 .. Len(tab)
      <3>1. tab[l].name = f.imports[k].name
        BY <2>1, <2>4, <1>16, <1>18
      <3>2. ~ Clash(f.imports[k])
        BY <2>3 DEF Ids
      <3>3. tab[l].key = f.imports[k].key
        BY <2>4, <3>1, <3>2 DEF Clash
      <3> QED
        BY <2>1, <2>4, <3>3, <1>14, <1>15, <1>16, <1>18 DEF l
    <2>5. CASE l \notin 1 .. Len(tab)
      <3>1. PICK id \in ToSet(f.imports) : u[l] = Missing(id)
        BY <2>1, <2>2, <2>5, <1>7, <1>15, <1>19
      <3>2. u[l].name = id.name /\ u[l].key = id.key
        BY <3>1, MissingIs
      <3>3. PICK j \in DOMAIN f.imports : f.imports[j] = id
        BY <1>5 DEF ToSet
      <3>4. j = k
        BY <2>1, <3>2, <3>3, <1>5, <1>16
      <3> QED
        BY <2>1, <3>2, <3>3, <3>4, <1>14, <1>15 DEF l
    <2> QED
      BY <2>4, <2>5
  <1>21. \A i \in Len(tab) + 1 .. Len(u) : i # e =>
           /\ ~ u[i].loaded /\ u[i].size = 0 /\ u[i].ofs = 0
           /\ \E id \in ToSet(f.imports) : u[i].name = id.name
    BY <1>19, MissingIs
  <1>22. Len(tab) <= Len(u)
    BY <1>1, <1>2, <1>7, <1>15
  <1>23. Extends(tab, u, f, e)
    BY <1>7, <1>14, <1>15, <1>17, <1>18, <1>20, <1>21, <1>22 DEF Extends
  <1> QED
    BY <1>10, <1>23 DEF e

-----------------------------------------------------------------------------
(* The invariant, one action after the other                               *)

\* The emulator starts with an empty table.
LEMMA InitInv ==
  ASSUME Init
  PROVE  Inv
  <1>1. tab = <<>> /\ Len(tab) = 0 /\ DOMAIN tab = {} /\ Len(progs) = 0 /\ first = 1
    BY DEF Init
  <1>2. Closed(tab, first - 1)
    BY <1>1 DEF Closed
  <1>3. Waits(tab, progs, Len(progs), first - 1)
    BY <1>1 DEF Waits
  <1>4. Floor(progs, Len(progs) + 1) = 0
    BY <1>1 DEF Floor
  <1>5. Sums(tab, first - 1, Len(tab), 0, data_top)
    <2>1. first - 1 = 0 /\ data_top = 0
      BY <1>1 DEF Init
    <2> QED
      BY <1>1, <2>1, SumsNone
  <1>6. TypeOK
    BY <1>1, BoundAssumption DEF Init, TypeOK, module_num, Modes
  <1>7. Names(tab) = {}
    BY <1>1 DEF Names
  <1>8. InLoad
    BY <1>1, <1>2, <1>3, <1>4, <1>5, <1>7, BoundAssumption DEF Init, InLoad
  <1>9. Distinct(tab)
    BY <1>1 DEF Distinct
  <1> QED
    BY <1>6, <1>8, <1>9 DEF Init, Inv, Defined, InStart, InRun, InEnd, InResume

\* Waiting programs have their numbers.
LEMMA NumType ==
  ASSUME TypeOK
  PROVE  /\ Len(tab) \in Nat /\ DOMAIN tab = 1 .. Len(tab) /\ module_num = Len(tab) + 1
         /\ Len(progs) \in Nat /\ DOMAIN progs = 1 .. Len(progs)
         /\ \A k \in 1 .. Len(progs) : progs[k] \in Program /\ progs[k].num \in Nat
         /\ Now = progs[Len(progs)]
         /\ \A i \in 1 .. Len(tab) : tab[i] \in Entry /\ tab[i].size \in Nat /\ tab[i].ofs \in Nat
         /\ progs # <<>> <=> Len(progs) # 0
         /\ first \in Nat /\ first >= 1
  <1>1. tab \in Seq(Entry) /\ progs \in Seq(Program) /\ first \in 1 .. ModTabMax
    BY DEF TypeOK
  <1>2. \A i \in 1 .. Len(tab) : tab[i] \in Entry
    BY <1>1
  <1>3. \A k \in 1 .. Len(progs) : progs[k] \in Program
    BY <1>1
  <1>4. \A i \in 1 .. Len(tab) : tab[i].size \in Nat /\ tab[i].ofs \in Nat
    BY <1>2 DEF Entry
  <1>5. \A k \in 1 .. Len(progs) : progs[k].num \in Nat
    BY <1>3 DEF Program
  <1>6. progs # <<>> <=> Len(progs) # 0
    BY <1>1
  <1>7. /\ Len(tab) \in Nat /\ DOMAIN tab = 1 .. Len(tab)
        /\ Len(progs) \in Nat /\ DOMAIN progs = 1 .. Len(progs)
    BY <1>1
  <1>8. first \in Nat /\ first >= 1
    BY <1>1, BoundAssumption
  <1> QED
    BY <1>2, <1>3, <1>4, <1>5, <1>6, <1>7, <1>8 DEF Now, Last, module_num

\* An error leaves only the types to be kept.
LEMMA ErrorInv ==
  ASSUME Inv, mode' \in {"done", "error"}, first' = first, loads' \in Seq(0 .. ModTabMax),
         UNCHANGED <<disk, tab, gs_S, gs_G, want>>, data_top' \in Nat,
         progs' \in Seq(Program), Len(progs') <= MaxNest
  PROVE  Inv'
  <1>1. TypeOK'
    BY DEF Inv, TypeOK, Modes, module_num
  <1> QED
    BY <1>1 DEF Inv, Defined, InLoad, InStart, InRun, InEnd, InResume

\* SVC 1: the running program joins those that wait, its entries complete.
LEMMA CallProgramInv ==
  ASSUME Inv, ~ AgainToo, NEW name \in Guests, CallProgram(name)
  PROVE  Inv'
  <1> DEFINE L == Len(progs)
  <1>1. /\ Len(tab) \in Nat /\ DOMAIN tab = 1 .. Len(tab) /\ module_num = Len(tab) + 1
        /\ L \in Nat /\ L # 0 /\ Now = progs[L] /\ progs[L] \in Program
    BY NumType DEF Inv, TypeOK, CallProgram
  <1>2. /\ Stands(tab, progs[L], Len(tab), Floor(progs, L), data_top)
        /\ Waits(tab, progs, L - 1, progs[L].exec - 1)
        /\ gs_G \in {tab[modn].ofs, SystemData}
    BY <1>1 DEF Inv, InRun, CallProgram
  <1> DEFINE q == progs'[L]
  <1>3. /\ progs' \in Seq(Program) /\ Len(progs') = L
        /\ q.S = gs_S /\ q.data = data_top /\ q.num = Len(tab) + 1
        /\ q.exec = progs[L].exec /\ q.calls = progs[L].calls
        /\ \A k \in 1 .. L - 1 : progs'[k] = progs[k]
    <2>1. gs_S \in Nat /\ data_top \in Nat /\ progs \in Seq(Program)
      BY DEF Inv, TypeOK
    <2>2. progs' = [progs EXCEPT ![L] = [progs[L] EXCEPT !.S = gs_S, !.data = data_top,
                                                         !.num = Len(tab) + 1]]
      BY <1>1, <2>1 DEF CallProgram
    <2> DEFINE e == [progs[L] EXCEPT !.S = gs_S, !.data = data_top, !.num = Len(tab) + 1]
    <2>3. /\ e \in Program /\ e.S = gs_S /\ e.data = data_top /\ e.num = Len(tab) + 1
          /\ e.exec = progs[L].exec /\ e.calls = progs[L].calls
      <3> DEFINE n == Len(tab) + 1
      <3>1. n \in Nat /\ progs[L] \in Program
        BY <1>1
      <3> HIDE DEF n
      <3>2. [progs[L] EXCEPT !.S = gs_S, !.data = data_top, !.num = n] \in Program
        BY <2>1, <3>1 DEF Program
      <3>3. e = [progs[L] EXCEPT !.S = gs_S, !.data = data_top, !.num = n]
        BY DEF n
      <3> HIDE DEF e
      <3>4. /\ e.S = gs_S /\ e.data = data_top /\ e.num = n
            /\ e.exec = progs[L].exec /\ e.calls = progs[L].calls
        BY <3>1, <3>3 DEF Program
      <3> QED
        BY <3>2, <3>3, <3>4 DEF n
    <2> HIDE DEF e
    <2>4. progs' = [progs EXCEPT ![L] = e]
      BY <2>2 DEF e
    <2>5. progs' \in Seq(Program) /\ Len(progs') = L /\ progs'[L] = e
          /\ \A k \in 1 .. L - 1 : progs'[k] = progs[k]
      BY <1>1, <2>1, <2>3, <2>4
    <2> QED
      BY <2>3, <2>5
  <1>4. Stands(tab, q, q.num - 1, Floor(progs', L), q.data)
    <2>1. Floor(progs', L) = Floor(progs, L)
      BY <1>1, <1>3 DEF Floor
    <2>2. q.num - 1 = Len(tab)
      BY <1>1, <1>3
    <2> QED
      BY <1>2, <1>3, <2>1, <2>2 DEF Stands
  <1>5. Waits(tab, progs', L, Len(tab))
    <2> SUFFICES ASSUME NEW k \in 1 .. L
                 PROVE  /\ Stands(tab, progs'[k], progs'[k].num - 1, Floor(progs', k), progs'[k].data)
                        /\ progs'[k].num = IF k < L THEN progs'[k + 1].exec ELSE Len(tab) + 1
                        /\ progs'[k].num - 1 <= Len(tab)
                        /\ \A j \in k + 1 .. L : progs'[k].num <= progs'[j].exec
      BY DEF Waits
    <2>1. CASE k = L
      BY <2>1, <1>1, <1>3, <1>4
    <2>2. CASE k # L
      <3>1. k \in 1 .. L - 1 /\ progs'[k] = progs[k]
        BY <2>2, <1>1, <1>3
      <3>2. /\ Stands(tab, progs[k], progs[k].num - 1, Floor(progs, k), progs[k].data)
            /\ progs[k].num = IF k < L - 1 THEN progs[k + 1].exec ELSE progs[L].exec - 1 + 1
            /\ progs[k].num - 1 <= progs[L].exec - 1
            /\ \A j \in k + 1 .. L - 1 : progs[k].num <= progs[j].exec
        BY <3>1, <1>2 DEF Waits
      <3>3. Floor(progs', k) = Floor(progs, k)
        BY <3>1, <1>3 DEF Floor
      <3>4. progs[L].exec \in 1 .. Len(tab) /\ progs[k].num \in Nat
        BY <1>2, NumType DEF Stands, Inv
      <3>5. progs'[k].num = progs'[k + 1].exec
        BY <3>1, <3>2, <3>4, <1>1, <1>3
      <3>6. \A j \in k + 1 .. L : progs'[k].num <= progs'[j].exec
        <4> SUFFICES ASSUME NEW j \in k + 1 .. L PROVE progs'[k].num <= progs'[j].exec
          OBVIOUS
        <4>1. progs[k].num <= progs[L].exec
          BY <3>2, <3>4
        <4>2. CASE j = L
          BY <4>1, <4>2, <3>1, <1>3
        <4>3. CASE j # L
          <5>1. j \in k + 1 .. L - 1 /\ j \in 1 .. L - 1
            BY <4>3, <3>1, <1>1
          <5> QED
            BY <5>1, <3>1, <3>2, <1>3
        <4> QED
          BY <4>2, <4>3
      <3>7. progs'[k].num - 1 <= Len(tab)
        BY <3>1, <3>2, <3>4, <1>1
      <3> QED
        BY <3>1, <3>2, <3>3, <3>5, <3>6, <3>7, <1>1
    <2> QED
      BY <2>1, <2>2
  <1>6. first' = Len(tab) + 1 /\ first' - 1 = Len(tab) /\ tab' = tab /\ mode' = "load" /\ loads' = <<>>
        /\ want' = name /\ data_top' = gs_S /\ gs_G' = gs_G /\ disk' = disk
    BY <1>1 DEF CallProgram, InitTop
  <1>7. Floor(progs', L + 1) = gs_S
    BY <1>1, <1>3 DEF Floor
  <1>8. Sums(tab, Len(tab), Len(tab), gs_S, gs_S)
    BY <1>1, SumsNone DEF Inv, TypeOK
  <1>9. Closed(tab, Len(tab))
    BY <1>2 DEF Stands
  <1>10. modn' = modn
    BY <1>1, <1>3 DEF modn, Now, Last
  <1>11. Len(progs') < MaxNest
    BY <1>3 DEF CallProgram
  <1>12. \A f \in disk' : f.file = want' => f.name \notin Names(tab')
    BY <1>6 DEF CallProgram
  <1>13. InLoad'
    <2>1. \A i \in DOMAIN tab' : tab'[i].loaded /\ Matches(tab', i, Len(tab'))
      BY <1>1, <1>6, <1>9 DEF Closed
    <2>2. Closed(tab', first' - 1) /\ Waits(tab', progs', Len(progs'), first' - 1)
          /\ Sums(tab', first' - 1, Len(tab'), Floor(progs', Len(progs') + 1), data_top')
      BY <1>3, <1>5, <1>6, <1>7, <1>8, <1>9
    <2>3. gs_G' \in {tab'[modn'].ofs, SystemData}
      BY <1>2, <1>6, <1>10
    <2> QED
      BY <2>1, <2>2, <2>3, <1>1, <1>6, <1>11, <1>12 DEF InLoad
  <1>14. TypeOK'
    <2>1. first' \in 1 .. ModTabMax
      BY <1>1, <1>6, BoundAssumption DEF Inv, TypeOK
    <2>2. loads' \in Seq(0 .. ModTabMax) /\ gs_S' = gs_S
      BY <1>6 DEF CallProgram
    <2> QED
      BY <2>1, <2>2, <1>3, <1>6 DEF Inv, TypeOK, module_num, Modes
  <1> QED
    BY <1>6, <1>13, <1>14 DEF Inv, Defined, InStart, InRun, InEnd, InResume

\* While no entry waits to be loaded the load may still succeed.
LEMMA FoundSoFar ==
  ASSUME Inv, mode \in {"load", "scan", "fix"}, \A i \in DOMAIN tab : i >= first => tab[i].loaded
  PROVE  ~ Doomed(tab)
  <1> SUFFICES ASSUME NEW i \in DOMAIN tab, ~ tab[i].loaded PROVE FALSE
    BY DEF Doomed
  <1>1. first <= i
    BY DEF Inv, InLoad
  <1>2. i \in Int /\ first \in Int
    BY NumType DEF Inv
  <1> QED
    BY <1>1, <1>2

\* A file that is not found is the one asked for, as files are complete: nothing was loaded for it.
LEMMA NotFoundInv ==
  ASSUME Inv, Complete, NotFound
  PROVE  Inv'
  <1> DEFINE L == Len(progs)
  <1>0. TypeOK
    BY DEF Inv
  <1>1. mode = "load" /\ \A f \in disk : f.file # want
    BY DEF NotFound
  <1>2. loads = <<>>
    <2> SUFFICES ASSUME loads # <<>> PROVE FALSE
      OBVIOUS
    <2>1. PICK i \in DOMAIN tab : ~ tab[i].loaded /\ tab[i].name = want
      BY <1>1 DEF Inv, InLoad
    <2>2. Known(disk, want)
      BY <1>1, <2>1 DEF Inv, InLoad
    <2>3. PICK f \in disk : \E id \in ToSet(f.imports) : id.name = want
      BY <2>2 DEF Known
    <2>4. disk \in Disks
      BY <1>0 DEF TypeOK
    <2> QED
      BY <1>1, <2>3, <2>4 DEF Complete
  <1>3. Len(tab) = first - 1 /\ first - 1 \in Nat /\ L \in Nat
    BY <1>0, <1>1, <1>2, NumType DEF Inv, InLoad
  <1>4. ~ Doomed(tab)
    <2>1. \A i \in DOMAIN tab : i >= first => tab[i].loaded
      BY <1>0, <1>3, NumType
    <2> QED
      BY <1>1, <2>1, FoundSoFar
  <1>5. /\ Waits(tab, progs, L, first - 1)
        /\ Sums(tab, first - 1, first - 1, Floor(progs, L + 1), data_top)
        /\ progs # <<>> => gs_G \in {tab[modn].ofs, SystemData}
    BY <1>1, <1>3, <1>4 DEF Inv, InLoad
  <1>6. data_top = Floor(progs, L + 1)
    BY <1>3, <1>5, SumsNone
  <1>7. loads' = <<>> /\ UNCHANGED <<disk, tab, data_top, gs_S, gs_G, want, first, progs>>
        /\ mode' = IF progs = <<>> THEN "done" ELSE "failed"
    BY DEF NotFound
  <1>8. modn' = modn
    BY <1>7 DEF modn, Now, Last
  <1>9. TypeOK'
    BY <1>0, <1>7 DEF TypeOK, Modes, module_num
  <1>10. InResume'
    BY <1>3, <1>5, <1>6, <1>7, <1>8 DEF InResume
  <1> QED
    BY <1>7, <1>9, <1>10 DEF Inv, Defined, InLoad, InStart, InRun, InEnd

\* A key mismatch or a full table ends the emulator.
LEMMA ParseErrorInv ==
  ASSUME Inv, ParseError \/ FixError
  PROVE  Inv'
  <1>1. TypeOK
    BY DEF Inv
  <1> QED
    BY <1>1, ErrorInv DEF ParseError, FixError, load, TypeOK

\* The file that a load asks for holds the module of an entry that waits, or there
\* is no hope.
LEMMA Wanted ==
  ASSUME Inv, Complete, mode = "load", NEW f \in disk, f.file = want
  PROVE  /\ f \in Files
         /\ ~ Doomed(tab) => first <= Place(f) /\ (Place(f) <= Len(tab) => ~ tab[Place(f)].loaded)
         /\ Place(f) = first \/ first <= Len(tab)
  <1>0. TypeOK /\ Distinct(tab) /\ tab \in Seq(Entry)
    BY DEF Inv, TypeOK
  <1>1. f \in Files /\ disk \in Disks /\ \A g \in disk : g.file = want => g = f
    BY <1>0, DiskAssumption DEF TypeOK
  <1>2. Len(tab) \in Nat /\ DOMAIN tab = 1 .. Len(tab) /\ first \in Nat
    BY <1>0, NumType
  <1>3. CASE loads = <<>>
    <2>1. Len(tab) = first - 1 /\ f.name \notin Names(tab)
      BY <1>3 DEF Inv, InLoad
    <2>2. Place(f) = first
      BY <2>1, <1>2 DEF Place
    <2> QED
      BY <1>1, <1>2, <2>1, <2>2
  <1>4. CASE loads # <<>>
    <2>1. PICK i \in DOMAIN tab : ~ tab[i].loaded /\ tab[i].name = want
      BY <1>4 DEF Inv, InLoad
    <2>2. first <= i /\ Known(disk, want)
      BY <2>1 DEF Inv, InLoad
    <2>3. PICK h \in disk : \E id \in ToSet(h.imports) : id.name = want
      BY <2>2 DEF Known
    <2>4. f.name = want \/ \A h2 \in Files : h2.name # want
      BY <1>1, <2>3 DEF Complete
    <2>5. ASSUME ~ Doomed(tab) PROVE Place(f) = i
      <3>1. f.name = want
        BY <2>1, <2>4, <2>5 DEF Doomed
      <3>2. f.name \in Names(tab)
        BY <2>1, <3>1 DEF Names
      <3>3. Place(f) \in DOMAIN tab /\ tab[Place(f)].name = f.name
        BY <1>0, <1>2, <3>2, PlaceKnown
      <3> QED
        BY <1>0, <2>1, <3>1, <3>3 DEF Distinct
    <2> QED
      BY <1>1, <1>2, <2>1, <2>2, <2>5
  <1> QED
    BY <1>3, <1>4

\* The entries below those of the load are as they were, if it may succeed.
LEMMA ParseKeeps ==
  ASSUME Inv, mode = "load", ~ Doomed(tab), NEW f \in Files, NEW u, NEW e \in Nat,
         Extends(tab, u, f, e), first <= e, e <= Len(tab) => ~ tab[e].loaded
  PROVE  /\ Closed(u, first - 1)
         /\ Waits(u, progs, Len(progs), first - 1)
         /\ Sums(u, first - 1, Len(u), Floor(progs, Len(progs) + 1), data_top + f.size)
         /\ progs # <<>> => gs_G \in {u[modn].ofs, SystemData}
  <1> DEFINE L == Len(progs)
  <1>0. TypeOK
    BY DEF Inv
  <1>1. /\ Len(tab) \in Nat /\ DOMAIN tab = 1 .. Len(tab) /\ first \in Nat /\ first >= 1
        /\ L \in Nat /\ Now = progs[L] /\ (progs # <<>> <=> L # 0)
        /\ \A k \in 1 .. L : progs[k].num \in Nat
        /\ \A i \in 1 .. Len(tab) : tab[i].size \in Nat
    BY <1>0, NumType
  <1>2. /\ first <= Len(tab) + 1
        /\ Closed(tab, first - 1)
        /\ Waits(tab, progs, L, first - 1)
        /\ Sums(tab, first - 1, Len(tab), Floor(progs, L + 1), data_top)
        /\ progs # <<>> => gs_G \in {tab[modn].ofs, SystemData}
        /\ \A i \in 1 .. Len(tab) : ~ tab[i].loaded => tab[i].size = 0
    BY <1>1 DEF Inv, InLoad
  <1>3. /\ u \in Seq(Entry) /\ Len(tab) <= Len(u) /\ e \in 1 .. Len(u) /\ u[e].size = f.size
        /\ \A i \in 1 .. Len(tab) : i # e => u[i] = tab[i]
        /\ \A i \in Len(tab) + 1 .. Len(u) : i # e => u[i].size = 0
    BY DEF Extends
  <1>4. Len(u) \in Nat /\ f.size \in Nat
    BY <1>3, FileAssumption
  <1>5. Same(tab, u, first - 1)
    BY <1>1, <1>2, <1>3, <1>4 DEF Same
  <1>6. Closed(u, first - 1)
    BY <1>1, <1>2, <1>5, ClosedKept
  <1>7. Waits(u, progs, L, first - 1)
    BY <1>1, <1>2, <1>5, WaitsKept
  <1>8. Sums(u, first - 1, Len(u), Floor(progs, L + 1), data_top + f.size)
    <2>1. first - 1 \in Nat /\ first - 1 <= Len(tab) /\ e \in first - 1 + 1 .. Len(u)
      BY <1>1, <1>2, <1>3, <1>4
    <2>2. e <= Len(tab) => tab[e].size = 0
      BY <1>2, <1>3, <1>4, <1>1
    <2>3. \A i \in first - 1 + 1 .. Len(tab) : i # e => u[i].size = tab[i].size
      BY <1>1, <1>3
    <2>4. \A i \in first - 1 + 1 .. Len(tab) : tab[i].size \in Nat
      BY <1>1
    <2> DEFINE lo == first - 1
               base == Floor(progs, L + 1)
    <2> HIDE DEF lo, base
    <2>5. /\ lo \in Nat /\ lo <= Len(tab) /\ e \in lo + 1 .. Len(u)
          /\ \A i \in lo + 1 .. Len(tab) : i # e => u[i].size = tab[i].size
          /\ \A i \in lo + 1 .. Len(tab) : tab[i].size \in Nat
          /\ Sums(tab, lo, Len(tab), base, data_top)
      BY <2>1, <2>3, <2>4, <1>2 DEF lo, base
    <2>6. Sums(u, lo, Len(u), base, data_top + f.size)
      BY <2>5, <2>2, <1>1, <1>3, <1>4, SumsLoaded
    <2> QED
      BY <2>6 DEF lo, base
  <1>9. progs # <<>> => gs_G \in {u[modn].ofs, SystemData}
    <2> SUFFICES ASSUME progs # <<>> PROVE u[modn] = tab[modn]
      BY <1>2
    <2>1. L \in 1 .. L
      BY <1>1
    <2>2. Stands(tab, progs[L], progs[L].num - 1, Floor(progs, L), progs[L].data)
          /\ progs[L].num - 1 <= first - 1
      BY <1>2, <2>1 DEF Waits
    <2>3. progs[L] \in Program
      BY <1>0, <2>1, NumType
    <2>4. progs[L].calls \in Seq(Frame) /\ progs[L].calls # <<>>
      BY <2>2, <2>3 DEF Program, Stands
    <2>5. Len(progs[L].calls) \in DOMAIN progs[L].calls
      BY <2>4
    <2>6. modn \in 1 .. progs[L].num - 1
      BY <1>1, <2>2, <2>5 DEF modn, Stands, Last
    <2>7. progs[L].num \in Nat
      BY <1>1, <2>1
    <2>8. modn \in 1 .. first - 1
      BY <1>1, <2>2, <2>6, <2>7
    <2> QED
      BY <1>5, <2>8 DEF Same
  <1> QED
    BY <1>6, <1>7, <1>8, <1>9

\* The file that is parsed gets an entry, of this load if there is hope, and if there
\* is none that does not help.
LEMMA ParseIs ==
  ASSUME Inv, Complete, Parse
  PROVE  \E f \in disk, e \in Nat :
           /\ f \in Files /\ Len(tab') < ModTabMax
           /\ Extends(tab, tab', f, e)
           /\ data_top' = data_top + f.size /\ f.size \in Nat
           /\ ~ Doomed(tab) => first <= e /\ (e <= Len(tab) => ~ tab[e].loaded)
           /\ e = first \/ first <= Len(tab)
           /\ Doomed(tab) => Doomed(tab')
  <1> DEFINE u == tab'
  <1>0. TypeOK /\ Distinct(tab) /\ tab \in Seq(Entry) /\ data_top \in Nat
    BY DEF Inv, TypeOK
  <1>1. PICK f \in disk : /\ f.file = want /\ \A id \in Ids(f) : ~ Clash(id)
                          /\ Len(WithModule(f)) < ModTabMax
                          /\ tab' = WithModule(f) /\ data_top' = DataAfter(f)
    BY DEF Parse
  <1>2. mode = "load"
    BY DEF Parse
  <1> DEFINE e == Place(f)
  <1>3. /\ f \in Files
        /\ ~ Doomed(tab) => first <= e /\ (e <= Len(tab) => ~ tab[e].loaded)
        /\ e = first \/ first <= Len(tab)
    BY <1>1, <1>2, Wanted
  <1>4. Extends(tab, u, f, e)
    BY <1>0, <1>1, <1>3, Parsed
  <1> HIDE DEF e
  <1>5. Len(tab) \in Nat /\ DOMAIN tab = 1 .. Len(tab)
    BY <1>0
  <1>6. /\ u \in Seq(Entry) /\ Len(tab) <= Len(u) /\ e \in 1 .. Len(u) /\ u[e].name = f.name
        /\ \A i \in 1 .. Len(tab) : u[i].name = tab[i].name /\ (i # e => u[i] = tab[i])
    BY <1>4 DEF Extends
  <1>7. Len(u) \in Nat /\ DOMAIN u = 1 .. Len(u) /\ e \in Nat
    BY <1>6
  <1>8. Doomed(tab) => Doomed(u)
    <2> SUFFICES ASSUME NEW i \in DOMAIN tab, ~ tab[i].loaded, \A h \in Files : h.name # tab[i].name
                 PROVE  Doomed(u)
      BY DEF Doomed
    <2>1. i \in 1 .. Len(tab) /\ i \in DOMAIN u /\ u[i].name = tab[i].name
      BY <1>5, <1>6, <1>7
    <2>2. i # e
      BY <2>1, <1>3, <1>6
    <2>3. ~ u[i].loaded
      BY <2>1, <2>2, <1>6
    <2> QED
      BY <2>1, <2>3 DEF Doomed
  <1>9. data_top' = data_top + f.size /\ f.size \in Nat
    BY <1>1, <1>3, FileAssumption DEF DataAfter
  <1> QED
    BY <1>1, <1>3, <1>4, <1>7, <1>8, <1>9

\* A file is parsed.
LEMMA ParseInv ==
  ASSUME Inv, Complete, Parse
  PROVE  Inv'
  <1> DEFINE u == tab'
  <1>0. TypeOK /\ Distinct(tab) /\ tab \in Seq(Entry) /\ data_top \in Nat /\ loads \in Seq(0 .. ModTabMax)
    BY DEF Inv, TypeOK
  <1>1. PICK f \in disk, e \in Nat :
          /\ f \in Files /\ Len(u) < ModTabMax
          /\ Extends(tab, u, f, e)
          /\ data_top' = data_top + f.size /\ f.size \in Nat
          /\ ~ Doomed(tab) => first <= e /\ (e <= Len(tab) => ~ tab[e].loaded)
          /\ e = first \/ first <= Len(tab)
          /\ Doomed(tab) => Doomed(u)
    BY ParseIs
  <1>2. /\ mode = "load" /\ mode' = "scan"
        /\ loads' = Append(loads, (module_num + 1) % (ModTabMax + 1))
        /\ UNCHANGED <<disk, gs_S, gs_G, want, first, progs>>
    BY DEF Parse
  <1>5. /\ Len(tab) \in Nat /\ DOMAIN tab = 1 .. Len(tab) /\ first \in Nat /\ first >= 1
        /\ module_num = Len(tab) + 1
    BY <1>0, NumType
  <1>6. /\ u \in Seq(Entry) /\ Distinct(u) /\ Len(tab) <= Len(u) /\ e \in 1 .. Len(u)
        /\ u[e].name = f.name /\ u[e].loaded /\ Matches(u, e, Len(u))
        /\ \A i \in 1 .. Len(tab) : u[i].name = tab[i].name /\ u[i].key = tab[i].key
                                    /\ (i # e => u[i] = tab[i])
        /\ \A i \in Len(tab) + 1 .. Len(u) : i # e =>
             ~ u[i].loaded /\ u[i].size = 0 /\ \E id \in ToSet(f.imports) : u[i].name = id.name
    BY <1>1 DEF Extends
  <1>7. Len(u) \in Nat /\ DOMAIN u = 1 .. Len(u)
    BY <1>6
  <1>8. /\ first <= Len(tab) + 1 /\ Len(progs) < MaxNest
        /\ \A i \in 1 .. Len(tab) :
             /\ tab[i].loaded => Matches(tab, i, Len(tab))
             /\ ~ tab[i].loaded => first <= i /\ tab[i].size = 0 /\ Known(disk, tab[i].name)
    BY <1>2, <1>5 DEF Inv, InLoad
  <1>9. first <= Len(u)
    BY <1>1, <1>5, <1>6, <1>7
  <1>10. ASSUME NEW i \in 1 .. Len(u)
         PROVE  /\ u[i].loaded => Matches(u, i, Len(u))
                /\ ~ u[i].loaded => first <= i /\ u[i].size = 0 /\ Known(disk, u[i].name)
    <2>1. CASE i = e
      BY <2>1, <1>6
    <2>2. CASE i # e /\ i \in 1 .. Len(tab)
      <3>1. u[i] = tab[i]
        BY <2>2, <1>6
      <3>2. tab[i].loaded => Matches(u, i, Len(u))
        <4> SUFFICES ASSUME Matches(tab, i, Len(tab)) PROVE Matches(u, i, Len(u))
          BY <2>2, <1>8
        <4>1. \A j \in 1 .. Len(tab) : u[j].name = tab[j].name /\ u[j].key = tab[j].key
          BY <1>6
        <4>2. u[i].links = tab[i].links /\ u[i].ids = tab[i].ids
          BY <3>1
        <4>3. Len(tab) \in Int /\ Len(u) \in Int /\ Len(tab) <= Len(u)
          BY <1>5, <1>6, <1>7
        <4> QED
          BY <4>1, <4>2, <4>3, MatchesKept
      <3> QED
        BY <2>2, <3>1, <3>2, <1>8
    <2>3. CASE i # e /\ i \in Len(tab) + 1 .. Len(u)
      <3>1. ~ u[i].loaded /\ u[i].size = 0 /\ \E id \in ToSet(f.imports) : u[i].name = id.name
        BY <2>3, <1>6
      <3>2. Known(disk, u[i].name)
        BY <3>1 DEF Known
      <3>3. first <= i
        BY <2>3, <1>5, <1>7, <1>8
      <3> QED
        BY <3>1, <3>2, <3>3
    <2> QED
      BY <2>1, <2>2, <2>3, <1>5, <1>7
  <1>12. ~ Doomed(tab) =>
           /\ Closed(u, first - 1)
           /\ Waits(u, progs, Len(progs), first - 1)
           /\ Sums(u, first - 1, Len(u), Floor(progs, Len(progs) + 1), data_top + f.size)
           /\ progs # <<>> => gs_G \in {u[modn].ofs, SystemData}
    <2> SUFFICES ASSUME ~ Doomed(tab)
                 PROVE  /\ Closed(u, first - 1)
                        /\ Waits(u, progs, Len(progs), first - 1)
                        /\ Sums(u, first - 1, Len(u), Floor(progs, Len(progs) + 1), data_top + f.size)
                        /\ progs # <<>> => gs_G \in {u[modn].ofs, SystemData}
      OBVIOUS
    <2>1. first <= e /\ (e <= Len(tab) => ~ tab[e].loaded) /\ e \in Nat
      BY <1>1
    <2> HIDE DEF u
    <2> QED
      BY <2>1, <1>0, <1>1, <1>2, ParseKeeps
  <1>13. data_top' = data_top + f.size /\ f.size \in Nat
    BY <1>1
  <1>14. loads' \in Seq(0 .. ModTabMax) /\ loads' # <<>>
    <2>1. (module_num + 1) % (ModTabMax + 1) \in 0 .. ModTabMax
      BY <1>5, BoundAssumption
    <2> QED
      BY <2>1, <1>0, <1>2
  <1>15. Len(u) + 1 <= ModTabMax
    BY <1>1, <1>7, BoundAssumption
  <1>16. TypeOK'
    <2>1. module_num' <= ModTabMax
      BY <1>15 DEF module_num
    <2>2. data_top' \in Nat
      BY <1>0, <1>13
    <2> QED
      BY <2>1, <2>2, <1>0, <1>2, <1>6, <1>14 DEF TypeOK, Modes
  <1>17. modn' = modn
    BY <1>2 DEF modn, Now, Last
  <1>18. Doomed(tab') \/
           /\ Closed(tab', first' - 1)
           /\ Waits(tab', progs', Len(progs'), first' - 1)
           /\ Sums(tab', first' - 1, Len(tab'), Floor(progs', Len(progs') + 1), data_top')
           /\ progs' # <<>> => gs_G' \in {tab'[modn'].ofs, SystemData}
    BY <1>1, <1>2, <1>12, <1>13, <1>17
  <1>19. \A i \in DOMAIN tab' :
           /\ tab'[i].loaded => Matches(tab', i, Len(tab'))
           /\ ~ tab'[i].loaded => first' <= i /\ tab'[i].size = 0 /\ Known(disk', tab'[i].name)
    BY <1>2, <1>7, <1>10
  <1>20. first' <= Len(tab') /\ first' <= Len(tab') + 1 /\ Len(progs') < MaxNest
    BY <1>2, <1>5, <1>7, <1>8, <1>9
  <1>21. InLoad'
    BY <1>2, <1>14, <1>18, <1>19, <1>20 DEF InLoad
  <1> QED
    BY <1>2, <1>6, <1>16, <1>21 DEF Inv, Defined, InStart, InRun, InEnd, InResume

\* The loop over the new entries finds one that waits, or goes on.
LEMMA ScanInv ==
  ASSUME Inv, Scan
  PROVE  Inv'
  <1>0. TypeOK /\ loads \in Seq(0 .. ModTabMax) /\ tab \in Seq(Entry)
    BY DEF Inv, TypeOK
  <1> DEFINE n == Last(loads)
  <1>1. /\ mode = "scan" /\ n < module_num
        /\ IF n = 0 \/ tab[n].loaded THEN UNCHANGED <<mode, want>>
                                     ELSE mode' = "load" /\ want' = tab[n].name
        /\ loads' = [loads EXCEPT ![Len(loads)] = @ + 1]
        /\ UNCHANGED <<disk, tab, data_top, gs_S, gs_G, first, progs>>
    BY DEF Scan, MoreToLoad
  <1>2. loads # <<>>
    BY <1>1 DEF Inv, InLoad
  <1>3. Len(loads) \in 1 .. Len(loads) /\ n = loads[Len(loads)] /\ n \in 0 .. ModTabMax
    BY <1>0, <1>2, FrontIs
  <1>4. module_num = Len(tab) + 1 /\ Len(tab) \in Nat /\ DOMAIN tab = 1 .. Len(tab)
        /\ module_num <= ModTabMax
    BY <1>0, NumType DEF TypeOK
  <1> HIDE DEF n
  <1>5. loads' \in Seq(0 .. ModTabMax) /\ loads' # <<>>
    <2>1. n + 1 \in 0 .. ModTabMax
      BY <1>1, <1>3, <1>4, BoundAssumption
    <2>2. loads' = [loads EXCEPT ![Len(loads)] = n + 1]
      BY <1>0, <1>1, <1>3
    <2>3. loads' \in Seq(0 .. ModTabMax) /\ Len(loads') = Len(loads)
      BY <2>1, <2>2, <1>0, <1>3
    <2> QED
      BY <2>3, <1>0, <1>2
  <1>6. CASE n = 0 \/ tab[n].loaded
    <2>1. UNCHANGED <<disk, tab, data_top, gs_S, gs_G, mode, want, first, progs>>
      BY <1>1, <1>6
    <2>2. modn' = modn
      BY <2>1 DEF modn, Now, Last
    <2>3. TypeOK'
      BY <2>1, <1>0, <1>5 DEF TypeOK, module_num, Now
    <2>4. InLoad'
      BY <2>1, <2>2, <1>1, <1>5 DEF Inv, InLoad
    <2> QED
      BY <2>1, <2>3, <2>4, <1>1 DEF Inv, Defined, InStart, InRun, InEnd, InResume
  <1>7. CASE n # 0 /\ ~ tab[n].loaded
    <2>1. /\ mode' = "load" /\ want' = tab[n].name /\ n \in DOMAIN tab
          /\ UNCHANGED <<disk, tab, data_top, gs_S, gs_G, first, progs>>
      BY <1>1, <1>3, <1>4, <1>7
    <2>2. modn' = modn
      BY <2>1 DEF modn, Now, Last
    <2>3. tab[n].name \in {id.name : id \in Id}
      <3>1. tab[n] \in Entry
        BY <2>1, <1>0, <1>4
      <3> QED
        BY <3>1 DEF Entry
    <2>4. TypeOK'
      BY <2>1, <2>3, <1>0, <1>5 DEF TypeOK, Modes, module_num
    <2>5. InLoad'
      BY <2>1, <2>2, <1>1, <1>5, <1>7 DEF Inv, InLoad
    <2> QED
      BY <2>1, <2>4, <2>5 DEF Inv, Defined, InStart, InRun, InEnd, InResume
  <1> QED
    BY <1>6, <1>7

\* The loop over the new entries ends.
LEMMA ScanEndsInv ==
  ASSUME Inv, ScanEnds
  PROVE  Inv'
  <1>0. TypeOK /\ loads \in Seq(0 .. ModTabMax)
    BY DEF Inv, TypeOK
  <1>1. /\ mode = "scan" /\ mode' = IF Len(loads) = 1 THEN "fix" ELSE "scan"
        /\ loads' = Front(loads)
        /\ UNCHANGED <<disk, tab, data_top, gs_S, gs_G, want, first, progs>>
    BY DEF ScanEnds
  <1>2. loads # <<>>
    BY <1>1 DEF Inv, InLoad
  <1>3. loads' \in Seq(0 .. ModTabMax) /\ Len(loads') = Len(loads) - 1
    BY <1>0, <1>1, <1>2, FrontIs
  <1>4. mode' = "scan" => loads' # <<>>
    BY <1>0, <1>1, <1>2, <1>3
  <1>5. modn' = modn
    BY <1>1 DEF modn, Now, Last
  <1>6. TypeOK'
    BY <1>0, <1>1, <1>3 DEF TypeOK, Modes, module_num
  <1>7. InLoad'
    BY <1>1, <1>4, <1>5 DEF Inv, InLoad
  <1> QED
    BY <1>1, <1>6, <1>7 DEF Inv, Defined, InStart, InRun, InEnd, InResume

\* With all entries loaded those of the new program are closed among themselves and the old ones.
LEMMA FixExtCallsInv ==
  ASSUME Inv, FixExtCalls
  PROVE  Inv'
  <1> DEFINE L == Len(progs)
             u == tab'
  <1>0. TypeOK /\ tab \in Seq(Entry)
    BY DEF Inv, TypeOK
  <1>1. /\ mode = "fix" /\ mode' = "start"
        /\ \A i \in DOMAIN tab : i >= first => tab[i].loaded
        /\ u = [i \in DOMAIN tab |-> IF i >= first THEN [tab[i] EXCEPT !.fixed = TRUE] ELSE tab[i]]
        /\ UNCHANGED <<disk, data_top, gs_S, gs_G, want, first, loads, progs>>
    BY DEF FixExtCalls, FixedNow, load
  <1>2. /\ Len(tab) \in Nat /\ DOMAIN tab = 1 .. Len(tab) /\ first \in Nat /\ first >= 1
        /\ L \in Nat /\ \A k \in 1 .. L : progs[k].num \in Nat
    BY <1>0, NumType
  <1>3. ~ Doomed(tab)
    BY <1>1, FoundSoFar
  <1>4. /\ first <= Len(tab) /\ L < MaxNest
        /\ Closed(tab, first - 1)
        /\ Waits(tab, progs, L, first - 1)
        /\ Sums(tab, first - 1, Len(tab), Floor(progs, L + 1), data_top)
        /\ \A i \in 1 .. Len(tab) : tab[i].loaded => Matches(tab, i, Len(tab))
    BY <1>1, <1>2, <1>3 DEF Inv, InLoad
  <1>5. ASSUME NEW i \in 1 .. Len(tab)
        PROVE  /\ u[i] \in Entry /\ u[i].name = tab[i].name /\ u[i].key = tab[i].key
               /\ u[i].loaded = tab[i].loaded /\ u[i].size = tab[i].size
               /\ u[i].links = tab[i].links /\ u[i].ids = tab[i].ids
               /\ i >= first => u[i].fixed
               /\ i < first => u[i] = tab[i]
    <2>1. tab[i] \in Entry
      BY <1>0
    <2>2. u[i] = IF i >= first THEN [tab[i] EXCEPT !.fixed = TRUE] ELSE tab[i]
      BY <1>1, <1>2
    <2> DEFINE v == [tab[i] EXCEPT !.fixed = TRUE]
    <2>3. /\ v \in Entry /\ v.name = tab[i].name /\ v.key = tab[i].key
          /\ v.loaded = tab[i].loaded /\ v.size = tab[i].size
          /\ v.links = tab[i].links /\ v.ids = tab[i].ids /\ v.fixed
      BY <2>1 DEF Entry
    <2> HIDE DEF v, u
    <2>4. CASE i >= first
      <3>1. u[i] = v
        BY <2>2, <2>4 DEF v
      <3> QED
        BY <3>1, <2>3, <2>4, <1>2
    <2>5. CASE i < first
      <3>1. u[i] = tab[i]
        BY <2>2, <2>5, <1>2
      <3> QED
        BY <3>1, <2>1, <2>5, <1>2
    <2> QED
      BY <2>4, <2>5, <1>2
  <1>6. u \in Seq(Entry) /\ Len(u) = Len(tab) /\ DOMAIN u = 1 .. Len(tab)
    <2>1. DOMAIN u = 1 .. Len(tab) /\ u \in [1 .. Len(tab) -> Entry]
      <3>1. u = [i \in 1 .. Len(tab) |-> u[i]]
        BY <1>1, <1>2
      <3> HIDE DEF u
      <3> QED
        BY <3>1, <1>5
    <2> HIDE DEF u
    <2> QED
      BY <2>1, <1>2
  <1> HIDE DEF u
  <1>7. Same(tab, u, first - 1)
    BY <1>2, <1>4, <1>5, <1>6 DEF Same
  <1>8. Waits(u, progs, L, first - 1)
    BY <1>2, <1>4, <1>7, WaitsKept
  <1>9. Sums(u, first - 1, Len(tab), Floor(progs, L + 1), data_top)
    <2>1. \A i \in first - 1 + 1 .. Len(tab) : u[i].size = tab[i].size
      BY <1>2, <1>5
    <2>2. first - 1 \in Nat
      BY <1>2
    <2> QED
      BY <2>1, <2>2, <1>2, <1>4, SumsKept
  <1>10. Closed(u, Len(tab))
    <2> SUFFICES ASSUME NEW i \in 1 .. Len(tab)
                 PROVE  u[i].loaded /\ u[i].fixed /\ Matches(u, i, Len(tab))
      BY <1>2, <1>6 DEF Closed
    <2>1. tab[i].loaded /\ u[i].fixed
      <3>1. CASE i >= first
        BY <3>1, <1>1, <1>2, <1>5
      <3>2. CASE i < first
        BY <3>2, <1>2, <1>4, <1>5 DEF Closed
      <3> QED
        BY <3>1, <3>2, <1>2
    <2>2. Matches(tab, i, Len(tab))
      BY <2>1, <1>4
    <2>3. \A j \in 1 .. Len(tab) : u[j].name = tab[j].name /\ u[j].key = tab[j].key
      BY <1>5
    <2>4. u[i].links = tab[i].links /\ u[i].ids = tab[i].ids
      BY <1>5
    <2>5. Len(tab) \in Int /\ Len(tab) <= Len(tab)
      BY <1>2
    <2>6. Matches(u, i, Len(tab))
      BY <2>2, <2>3, <2>4, <2>5, MatchesKept
    <2> QED
      BY <2>1, <2>6, <1>5
  <1>11. Distinct(u)
    BY <1>2, <1>5, <1>6 DEF Inv, Distinct
  <1>12. TypeOK'
    BY <1>0, <1>1, <1>6 DEF TypeOK, Modes, module_num, u
  <1>13. InStart'
    BY <1>1, <1>4, <1>6, <1>8, <1>9, <1>10 DEF InStart, u
  <1> QED
    BY <1>1, <1>11, <1>12, <1>13 DEF Inv, Defined, InLoad, InRun, InEnd, InResume, u

\* The program that was loaded starts.
LEMMA ExecuteInv ==
  ASSUME Inv, Execute
  PROVE  Inv'
  <1> DEFINE L == Len(progs)
             q == [exec |-> first, S |-> 0, data |-> 0, num |-> 0,
                   calls |-> <<[mod |-> first, S |-> data_top]>>]
  <1>0. TypeOK /\ tab \in Seq(Entry) /\ progs \in Seq(Program) /\ data_top \in Nat
        /\ first \in 1 .. ModTabMax
    BY DEF Inv, TypeOK
  <1>1. mode = "start" /\ UNCHANGED <<disk, tab, data_top, want, first, loads>>
    BY DEF Execute, load
  <1>2. /\ Len(tab) \in Nat /\ DOMAIN tab = 1 .. Len(tab) /\ first \in Nat /\ first >= 1
        /\ module_num = Len(tab) + 1
        /\ L \in Nat /\ \A k \in 1 .. L : progs[k].num \in Nat
        /\ \A i \in 1 .. Len(tab) : tab[i].ofs \in Nat
    BY <1>0, NumType
  <1>3. /\ first <= Len(tab) /\ L < MaxNest
        /\ Closed(tab, Len(tab))
        /\ Waits(tab, progs, L, first - 1)
        /\ Sums(tab, first - 1, Len(tab), Floor(progs, L + 1), data_top)
    BY <1>1 DEF Inv, InStart
  <1>4. mode' = "run" /\ gs_G' = tab[first].ofs /\ gs_S' = data_top + 4 /\ progs' = Append(progs, q)
    BY <1>2, <1>3 DEF Execute, Base
  <1>5. q \in Program /\ q.calls # <<>> /\ q.exec = first /\ Len(q.calls) = 1
        /\ q.calls[1] = [mod |-> first, S |-> data_top] /\ DOMAIN q.calls = {1}
    <2>1. [mod |-> first, S |-> data_top] \in Frame
      BY <1>0 DEF Frame
    <2>2. <<[mod |-> first, S |-> data_top]>> \in Seq(Frame)
      BY <2>1
    <2> QED
      BY <2>2, <1>0 DEF Program
  <1> HIDE DEF q
  <1>6. progs' \in Seq(Program) /\ Len(progs') = L + 1 /\ progs'[L + 1] = q
        /\ \A k \in 1 .. L : progs'[k] = progs[k]
    BY <1>0, <1>4, <1>5
  <1>7. Now' = q /\ modn' = first
    BY <1>2, <1>5, <1>6 DEF Now, modn, Last
  <1>8. Same(tab, tab, first - 1)
    BY <1>2, <1>3 DEF Same
  <1>9. Waits(tab, progs', L, first - 1)
    <2>1. \A k \in 1 .. L : progs'[k] = progs[k] /\ progs[k].num \in Nat
      BY <1>2, <1>6
    <2>2. first - 1 \in Int
      BY <1>2
    <2> QED
      BY <2>1, <2>2, <1>2, <1>3, <1>8, WaitsKept
  <1>10. Stands(tab, q, Len(tab), Floor(progs', L + 1), data_top)
    <2>1. Floor(progs', L + 1) = Floor(progs, L + 1)
      BY <1>2, <1>6 DEF Floor
    <2>2. first \in 1 .. Len(tab)
      BY <1>2, <1>3
    <2> QED
      BY <2>1, <2>2, <1>3, <1>5 DEF Stands
  <1>11. InRun'
    <2>1. Len(progs') - 1 = L
      BY <1>2, <1>6
    <2> QED
      BY <2>1, <1>1, <1>4, <1>5, <1>6, <1>7, <1>9, <1>10 DEF InRun
  <1>12. TypeOK'
    <2>1. gs_S' \in Nat /\ gs_G' \in Nat
      BY <1>0, <1>2, <1>3, <1>4
    <2>2. Len(progs') <= MaxNest /\ progs' # <<>>
      BY <1>2, <1>3, <1>6, BoundAssumption
    <2> QED
      BY <2>1, <2>2, <1>0, <1>1, <1>4, <1>5, <1>6, <1>7 DEF TypeOK, Modes, module_num
  <1> QED
    BY <1>1, <1>4, <1>11, <1>12 DEF Inv, Defined, InLoad, InStart, InEnd, InResume

\* The module that a program runs is one of its entries.
LEMMA Running ==
  ASSUME TypeOK, progs # <<>>, NEW n \in Int, NEW base, NEW top, Stands(tab, Now, n, base, top)
  PROVE  /\ Now.calls \in Seq(Frame) /\ Now.calls # <<>> /\ Len(Now.calls) \in Nat
         /\ Len(Now.calls) >= 1 /\ modn = Now.calls[Len(Now.calls)].mod /\ modn \in 1 .. n
         /\ Last(Now.calls) \in Frame /\ Last(Now.calls).S \in Nat
         /\ \A c \in 1 .. Len(Now.calls) : Now.calls[c].mod \in 1 .. n
  <1>1. Now \in Program
    BY NumType
  <1>2. Now.calls \in Seq(Frame) /\ Now.calls # <<>>
    BY <1>1 DEF Program, Stands
  <1>3. /\ Len(Now.calls) \in Nat /\ Len(Now.calls) >= 1 /\ Len(Now.calls) \in DOMAIN Now.calls
        /\ Last(Now.calls) = Now.calls[Len(Now.calls)] /\ Last(Now.calls) \in Frame
    BY <1>2, FrontIs
  <1>4. modn = Now.calls[Len(Now.calls)].mod
    BY <1>3 DEF modn
  <1>5. \A c \in DOMAIN Now.calls : Now.calls[c].mod \in 1 .. n
    BY DEF Stands
  <1>6. DOMAIN Now.calls = 1 .. Len(Now.calls)
    BY <1>2
  <1>7. Last(Now.calls).S \in Nat
    BY <1>3 DEF Frame
  <1> QED
    BY <1>2, <1>3, <1>4, <1>5, <1>6, <1>7

\* A call or a return: only the calls of the running program change.
LEMMA CallsInv ==
  ASSUME Inv, mode = "run", NEW calls \in Seq(Frame), calls # <<>>,
         NEW q \in Program, q.exec = Now.exec, q.calls = calls,
         progs' \in Seq(Program), Len(progs') = Len(progs), progs'[Len(progs)] = q,
         \A k \in 1 .. Len(progs) - 1 : progs'[k] = progs[k],
         \A c \in DOMAIN calls : calls[c].mod \in 1 .. Len(tab),
         gs_G' = tab[calls[Len(calls)].mod].ofs, gs_S' \in Nat,
         UNCHANGED <<disk, tab, data_top, mode, load>>
  PROVE  Inv'
  <1> DEFINE L == Len(progs)
  <1>0. TypeOK /\ progs \in Seq(Program) /\ progs # <<>>
    BY DEF Inv, TypeOK
  <1>1. /\ Len(tab) \in Nat /\ DOMAIN tab = 1 .. Len(tab)
        /\ L \in Nat /\ L # 0 /\ Now = progs[L] /\ progs[L] \in Program
        /\ \A k \in 1 .. L : progs[k].num \in Nat
        /\ \A i \in 1 .. Len(tab) : tab[i].ofs \in Nat
    BY <1>0, NumType
  <1>2. /\ Stands(tab, progs[L], Len(tab), Floor(progs, L), data_top)
        /\ Waits(tab, progs, L - 1, progs[L].exec - 1)
    BY <1>1 DEF Inv, InRun
  <1>3. q \in Program /\ q.exec = progs[L].exec /\ q.calls = calls
    BY <1>1
  <1>5. /\ progs' \in Seq(Program) /\ Len(progs') = L /\ progs'[L] = q
        /\ \A k \in 1 .. L - 1 : progs'[k] = progs[k]
    OBVIOUS
  <1>6. Now' = q /\ modn' = calls[Len(calls)].mod
    BY <1>3, <1>5 DEF Now, modn, Last
  <1>7. Floor(progs', L) = Floor(progs, L)
    BY <1>1, <1>5 DEF Floor
  <1>8. Stands(tab, q, Len(tab), Floor(progs', L), data_top)
    BY <1>2, <1>3, <1>7 DEF Stands
  <1>9. progs[L].exec \in 1 .. Len(tab)
    BY <1>2 DEF Stands
  <1>10. Waits(tab, progs', L - 1, progs[L].exec - 1)
    <2>1. Same(tab, tab, progs[L].exec - 1)
      BY <1>1, <1>9 DEF Same
    <2>2. \A k \in 1 .. L - 1 : progs'[k] = progs[k] /\ progs[k].num \in Nat
      BY <1>1, <1>5
    <2>3. L - 1 \in Nat /\ progs[L].exec - 1 \in Int
      BY <1>1, <1>9
    <2> QED
      BY <2>1, <2>2, <2>3, <1>2, WaitsKept
  <1>11. InRun'
    BY <1>2, <1>3, <1>5, <1>6, <1>8, <1>10 DEF InRun, load
  <1>12. TypeOK'
    <2>1. calls[Len(calls)].mod \in 1 .. Len(tab)
      <3>1. Len(calls) \in DOMAIN calls
        BY FrontIs
      <3> QED
        BY <3>1
    <2>2. gs_G' \in Nat
      BY <2>1, <1>1
    <2>3. progs' # <<>>
      BY <1>1, <1>5
    <2> QED
      BY <2>2, <2>3, <1>0, <1>3, <1>5, <1>6 DEF TypeOK, load, module_num
  <1> QED
    BY <1>11, <1>12 DEF Inv, Defined, InLoad, InStart, InEnd, InResume, load

\* CLX enters an entry below the end of the table, which is linked.
LEMMA CallModuleInv ==
  ASSUME Inv, CallModule
  PROVE  Inv'
  <1> DEFINE L == Len(progs)
  <1>0. TypeOK /\ mode = "run" /\ progs # <<>> /\ progs \in Seq(Program)
    BY DEF Inv, TypeOK, CallModule
  <1>1. /\ Len(tab) \in Nat /\ DOMAIN tab = 1 .. Len(tab) /\ module_num = Len(tab) + 1
        /\ L \in Nat /\ L # 0 /\ Now = progs[L] /\ progs[L] \in Program
        /\ \A i \in 1 .. Len(tab) : tab[i] \in Entry
        /\ module_num <= ModTabMax /\ gs_S \in Nat
    BY <1>0, NumType DEF TypeOK
  <1>2. Stands(tab, Now, Len(tab), Floor(progs, L), data_top)
    BY <1>0 DEF Inv, InRun
  <1>3. Closed(tab, Len(tab))
    BY <1>2 DEF Stands
  <1>4. /\ Now.calls \in Seq(Frame) /\ modn \in 1 .. Len(tab)
        /\ \A c \in 1 .. Len(Now.calls) : Now.calls[c].mod \in 1 .. Len(tab)
    BY <1>0, <1>1, <1>2, Running
  <1>5. PICK m \in ToSet(tab[modn].links) :
          /\ progs' = [progs EXCEPT ![Len(progs)].calls = Append(@, [mod |-> m, S |-> gs_S])]
          /\ IF m < module_num /\ tab[m].fixed
             THEN gs_G' = Base(m) /\ UNCHANGED mode
             ELSE mode' = "undefined" /\ UNCHANGED gs_G
    BY DEF CallModule
  <1>6. m \in 1 .. Len(tab)
    <2>1. Matches(tab, modn, Len(tab))
      BY <1>3, <1>4 DEF Closed
    <2>2. tab[modn].links \in Seq(Nat) /\ tab[modn].ids \in Seq(Id)
      BY <1>1, <1>4 DEF Entry
    <2>3. PICK k \in DOMAIN tab[modn].links : m = tab[modn].links[k]
      BY <1>5 DEF ToSet
    <2>4. k \in 1 .. Len(tab[modn].ids)
      BY <2>1, <2>2, <2>3 DEF Matches
    <2> QED
      BY <2>1, <2>3, <2>4 DEF Matches
  <1>7. gs_G' = tab[m].ofs /\ UNCHANGED mode
    <2>1. tab[m].fixed /\ m < module_num /\ m # 0
      BY <1>1, <1>3, <1>6 DEF Closed
    <2> QED
      BY <2>1, <1>5 DEF Base
  <1> DEFINE fr == [mod |-> m, S |-> gs_S]
             calls == Append(Now.calls, fr)
  <1>8. fr \in Frame /\ fr.mod = m
    BY <1>1, <1>6, BoundAssumption DEF Frame
  <1> HIDE DEF fr
  <1>9. /\ calls \in Seq(Frame) /\ calls # <<>> /\ Len(calls) = Len(Now.calls) + 1
        /\ DOMAIN calls = 1 .. Len(Now.calls) + 1
        /\ calls[Len(calls)] = fr /\ \A c \in 1 .. Len(Now.calls) : calls[c] = Now.calls[c]
    BY <1>4, <1>8
  <1> DEFINE q == [progs[L] EXCEPT !.calls = calls]
  <1>10. progs' = [progs EXCEPT ![L] = q]
    BY <1>0, <1>1, <1>5 DEF fr
  <1> HIDE DEF calls
  <1>14. q \in Program /\ q.exec = Now.exec /\ q.calls = calls
    BY <1>1, <1>9 DEF Program
  <1> HIDE DEF q
  <1>15. /\ progs' \in Seq(Program) /\ Len(progs') = L /\ progs'[L] = q
         /\ \A k \in 1 .. L - 1 : progs'[k] = progs[k]
    BY <1>0, <1>1, <1>10, <1>14
  <1>11. \A c \in DOMAIN calls : calls[c].mod \in 1 .. Len(tab)
    <2> SUFFICES ASSUME NEW c \in 1 .. Len(Now.calls) + 1 PROVE calls[c].mod \in 1 .. Len(tab)
      BY <1>9
    <2>1. CASE c \in 1 .. Len(Now.calls)
      BY <2>1, <1>4, <1>9
    <2>2. CASE c = Len(Now.calls) + 1
      BY <2>2, <1>6, <1>8, <1>9
    <2>3. Len(Now.calls) \in Nat
      BY <1>4
    <2> QED
      BY <2>1, <2>2, <2>3
  <1>12. gs_S' \in Nat /\ UNCHANGED <<disk, tab, data_top, mode, load>>
    BY <1>1, <1>7 DEF CallModule
  <1>13. gs_G' = tab[calls[Len(calls)].mod].ofs
    BY <1>7, <1>8, <1>9
  <1> QED
    BY <1>0, <1>9, <1>10, <1>11, <1>12, <1>13, <1>14, <1>15, CallsInv

\* RTN, to another module of the program or to its end.
LEMMA ReturnInv ==
  ASSUME Inv, Return
  PROVE  Inv'
  <1> DEFINE L == Len(progs)
             calls == Front(Now.calls)
  <1>0. TypeOK /\ mode = "run" /\ progs # <<>> /\ progs \in Seq(Program)
    BY DEF Inv, TypeOK, Return
  <1>1. /\ Len(tab) \in Nat /\ DOMAIN tab = 1 .. Len(tab) /\ module_num = Len(tab) + 1
        /\ L \in Nat /\ L # 0 /\ Now = progs[L] /\ progs[L] \in Program
        /\ \A k \in 1 .. L : progs[k].num \in Nat
    BY <1>0, NumType
  <1>2. /\ Stands(tab, Now, Len(tab), Floor(progs, L), data_top)
        /\ Waits(tab, progs, L - 1, Now.exec - 1)
    BY <1>0 DEF Inv, InRun
  <1>3. /\ Now.calls \in Seq(Frame) /\ Now.calls # <<>> /\ Last(Now.calls).S \in Nat
        /\ Len(Now.calls) \in Nat /\ Len(Now.calls) >= 1
        /\ \A c \in 1 .. Len(Now.calls) : Now.calls[c].mod \in 1 .. Len(tab)
    BY <1>0, <1>1, <1>2, Running
  <1>4. /\ calls \in Seq(Frame) /\ Len(calls) = Len(Now.calls) - 1
        /\ \A c \in 1 .. Len(Now.calls) - 1 : calls[c] = Now.calls[c]
    BY <1>3, FrontIs
  <1>5. /\ gs_S' = Last(Now.calls).S /\ UNCHANGED <<disk, tab, data_top, load>>
        /\ IF Len(Now.calls) > 1
           THEN gs_G' = Base(Now.calls[Len(Now.calls) - 1].mod) /\ UNCHANGED mode
           ELSE gs_G' = Base(0) /\ mode' = "end"
    BY DEF Return
  <1> DEFINE q == [progs[L] EXCEPT !.calls = calls]
  <1>6. progs' = [progs EXCEPT ![L] = q]
    <2>1. progs' = [progs EXCEPT ![L].calls = Front(@)]
      BY DEF Return
    <2> QED
      BY <2>1, <1>0, <1>1
  <1> HIDE DEF calls
  <1>9. q \in Program /\ q.exec = Now.exec /\ q.calls = calls
    BY <1>1, <1>4 DEF Program
  <1> HIDE DEF q
  <1>10. /\ progs' \in Seq(Program) /\ Len(progs') = L /\ progs'[L] = q
         /\ \A k \in 1 .. L - 1 : progs'[k] = progs[k]
    BY <1>0, <1>1, <1>6, <1>9
  <1>7. CASE Len(Now.calls) > 1
    <2>1. calls # <<>> /\ DOMAIN calls = 1 .. Len(Now.calls) - 1
      BY <1>3, <1>4, <1>7
    <2>2. \A c \in DOMAIN calls : calls[c].mod \in 1 .. Len(tab)
      <3> SUFFICES ASSUME NEW c \in 1 .. Len(Now.calls) - 1 PROVE calls[c].mod \in 1 .. Len(tab)
        BY <2>1
      <3>1. calls[c] = Now.calls[c] /\ c \in 1 .. Len(Now.calls)
        BY <1>3, <1>4
      <3> QED
        BY <3>1, <1>3
    <2> DEFINE m == Now.calls[Len(Now.calls) - 1].mod
    <2>3. calls[Len(calls)].mod = m /\ m \in 1 .. Len(tab)
      <3>1. Len(Now.calls) - 1 \in 1 .. Len(Now.calls) /\ Len(Now.calls) - 1 \in 1 .. Len(Now.calls) - 1
        BY <1>3, <1>7
      <3> QED
        BY <3>1, <1>3, <1>4
    <2> HIDE DEF m
    <2>4. gs_G' = tab[m].ofs /\ UNCHANGED mode
      <3>1. m # 0
        BY <2>3
      <3>2. gs_G' = Base(m) /\ UNCHANGED mode
        BY <1>5, <1>7 DEF m
      <3> QED
        BY <3>1, <3>2 DEF Base
    <2>5. gs_S' \in Nat
      BY <1>3, <1>5
    <2> QED
      BY <2>1, <2>2, <2>3, <2>4, <2>5, <1>0, <1>4, <1>5, <1>9, <1>10, CallsInv
  <1>8. CASE ~ (Len(Now.calls) > 1)
    <2>1. q.exec = progs[L].exec
      BY <1>1, <1>9
    <2>4. Now' = q /\ Now'.exec = Now.exec
      BY <2>1, <1>10, <1>1 DEF Now, Last
    <2>5. Floor(progs', L) = Floor(progs, L)
      BY <1>10, <1>1 DEF Floor
    <2>6. Now.exec \in 1 .. Len(tab) /\ Sums(tab, Now.exec - 1, Len(tab), Floor(progs, L), data_top)
          /\ Closed(tab, Len(tab))
      BY <1>2 DEF Stands
    <2>7. \A i \in Now.exec .. Len(tab) : tab[i].fixed
      BY <2>6, <1>1 DEF Closed
    <2>8. Waits(tab, progs', L - 1, Now.exec - 1)
      <3>1. Same(tab, tab, Now.exec - 1)
        BY <2>6, <1>1 DEF Same
      <3>2. \A k \in 1 .. L - 1 : progs'[k] = progs[k] /\ progs[k].num \in Nat
        BY <1>10, <1>1
      <3>3. L - 1 \in Nat /\ Now.exec - 1 \in Int
        BY <2>6, <1>1
      <3> QED
        BY <3>1, <3>2, <3>3, <1>2, WaitsKept
    <2>9. mode' = "end" /\ gs_G' = SystemData
      BY <1>5, <1>8 DEF Base
    <2>10. InEnd'
      <3>1. Now.exec - 1 <= Len(tab)
        BY <2>6, <1>1
      <3> QED
        BY <3>1, <1>10, <2>4, <2>5, <2>6, <2>7, <2>8, <2>9, <1>5 DEF InEnd
    <2>11. TypeOK'
      <3>1. progs' # <<>> /\ gs_S' \in Nat
        BY <1>10, <1>1, <1>3, <1>5
      <3> QED
        BY <3>1, <1>10, <2>9, <1>0, <1>5 DEF TypeOK, Modes, module_num, load
    <2> QED
      BY <2>9, <2>10, <2>11, <1>5 DEF Inv, Defined, InLoad, InStart, InRun, InResume, load
  <1> QED
    BY <1>7, <1>8

\* The topmost entry of the program that ended goes, with its data.
LEMMA UnloadTopInv ==
  ASSUME Inv, UnloadTop
  PROVE  Inv'
  <1> DEFINE L == Len(progs)
             n == Len(tab)
             x == Now.exec
  <1>0. /\ TypeOK /\ mode = "end" /\ progs # <<>> /\ tab \in Seq(Entry) /\ Len(tab) >= Now.exec
        /\ tab' = Front(tab) /\ UNCHANGED <<disk, gs_S, gs_G, load, progs>>
    BY DEF Inv, TypeOK, UnloadTop, Stays
  <1>1. /\ n \in Nat /\ DOMAIN tab = 1 .. n /\ L \in Nat /\ L # 0
        /\ Now = progs[L] /\ Now \in Program
        /\ \A k \in 1 .. L : progs[k].num \in Nat
        /\ \A i \in 1 .. n : tab[i].size \in Nat
    BY <1>0, NumType
  <1>2. x \in Nat /\ x >= 1
    BY <1>1, BoundAssumption DEF Program
  <1>3. /\ \A i \in x .. n : tab[i].fixed
        /\ Sums(tab, x - 1, n, Floor(progs, L), data_top)
        /\ Waits(tab, progs, L - 1, x - 1)
        /\ gs_G = SystemData
    BY <1>0 DEF Inv, InEnd
  <1>4. tab # <<>>
    BY <1>0, <1>1, <1>2
  <1>5. /\ Last(tab) = tab[n] /\ n >= 1 /\ tab' \in Seq(Entry) /\ Len(tab') = n - 1
        /\ \A i \in 1 .. n - 1 : tab'[i] = tab[i]
    BY <1>0, <1>4, FrontIs
  <1>6. data_top' = data_top - tab[n].size /\ UNCHANGED mode
    <2>1. tab[n].fixed
      BY <1>0, <1>1, <1>2, <1>3
    <2> QED
      BY <2>1, <1>5 DEF UnloadTop
  <1>7. Same(tab, tab', n - 1)
    BY <1>1, <1>5 DEF Same
  <1>8. data_top' \in Nat /\ Sums(tab', x - 1, n - 1, Floor(progs, L), data_top')
    <2>1. x - 1 \in Nat /\ x - 1 < n /\ tab[n].size \in Nat
      BY <1>0, <1>1, <1>2, <1>5
    <2> QED
      BY <2>1, <1>1, <1>3, <1>6, <1>7, SumsTop
  <1>9. Waits(tab', progs, L - 1, x - 1)
    <2>1. Same(tab, tab', x - 1)
      BY <1>0, <1>1, <1>2, <1>5, <1>7 DEF Same
    <2>2. L - 1 \in Nat /\ x - 1 \in Int /\ \A k \in 1 .. L - 1 : progs[k].num \in Nat
      BY <1>1, <1>2
    <2> QED
      BY <2>1, <2>2, <1>3, WaitsKept
  <1>10. Now' = Now /\ progs' = progs /\ mode' = "end"
    BY <1>0, <1>6 DEF Now
  <1>11. InEnd'
    <2>1. x - 1 <= Len(tab') /\ Len(tab') = n - 1
      BY <1>0, <1>1, <1>2, <1>5
    <2>2. ASSUME NEW i \in x .. n - 1 PROVE tab'[i].fixed
      <3>1. i \in 1 .. n - 1 /\ i \in x .. n
        BY <1>1, <1>2
      <3>2. tab'[i] = tab[i] /\ tab[i].fixed
        BY <3>1, <1>3, <1>5
      <3> QED
        BY <3>2
    <2> QED
      BY <2>1, <2>2, <1>0, <1>3, <1>8, <1>9, <1>10 DEF InEnd
  <1>12. Distinct(tab')
    <2>1. DOMAIN tab' = 1 .. n - 1
      BY <1>5
    <2>2. \A i \in 1 .. n - 1 : tab'[i] = tab[i] /\ i \in DOMAIN tab
      BY <1>1, <1>5
    <2> QED
      BY <2>1, <2>2 DEF Inv, Distinct
  <1>13. TypeOK'
    <2>1. Len(tab') + 1 <= ModTabMax
      BY <1>0, <1>1, <1>5, BoundAssumption DEF TypeOK, module_num
    <2> QED
      BY <2>1, <1>0, <1>5, <1>8, <1>10 DEF TypeOK, module_num, load
  <1> QED
    BY <1>10, <1>11, <1>12, <1>13 DEF Inv, Defined, InLoad, InStart, InRun, InResume

\* All entries of the program are gone; those below are of the programs that wait.
LEMMA ExecuteReturnsInv ==
  ASSUME Inv, ExecuteReturns
  PROVE  Inv'
  <1> DEFINE L == Len(progs)
             x == Now.exec
  <1>0. /\ TypeOK /\ mode = "end" /\ progs # <<>> /\ progs \in Seq(Program) /\ ~ (Len(tab) >= Now.exec)
        /\ progs' = Front(progs) /\ mode' = IF Len(progs) = 1 THEN "done" ELSE "resume"
        /\ UNCHANGED <<disk, tab, data_top, gs_S, gs_G, load>>
    BY DEF Inv, TypeOK, ExecuteReturns, Stays
  <1>1. /\ Len(tab) \in Nat /\ L \in Nat /\ L # 0
        /\ Now = progs[L] /\ Now \in Program
        /\ \A k \in 1 .. L : progs[k].num \in Nat
    BY <1>0, NumType
  <1>2. x \in Nat /\ x >= 1
    BY <1>1, BoundAssumption DEF Program
  <1>3. /\ x - 1 <= Len(tab)
        /\ Sums(tab, x - 1, Len(tab), Floor(progs, L), data_top)
        /\ Waits(tab, progs, L - 1, x - 1)
        /\ gs_G = SystemData
    BY <1>0 DEF Inv, InEnd
  <1>4. Len(tab) = x - 1
    BY <1>0, <1>1, <1>2, <1>3
  <1>5. progs' \in Seq(Program) /\ Len(progs') = L - 1 /\ \A k \in 1 .. L - 1 : progs'[k] = progs[k]
    BY <1>0, FrontIs
  <1>6. Floor(progs', L) = Floor(progs, L)
    BY <1>1, <1>5 DEF Floor
  <1>7. data_top = Floor(progs', Len(progs') + 1)
    <2>1. Sums(tab, Len(tab), Len(tab), Floor(progs, L), data_top)
      BY <1>3, <1>4
    <2>2. Len(progs') + 1 = L
      BY <1>1, <1>5
    <2> QED
      BY <2>1, <2>2, <1>1, <1>6, SumsNone
  <1>8. Waits(tab, progs', L - 1, Len(tab))
    <2>1. Same(tab, tab, Len(tab))
      BY <1>1 DEF Same
    <2>2. L - 1 \in Nat /\ \A k \in 1 .. L - 1 : progs'[k] = progs[k] /\ progs[k].num \in Nat
      BY <1>1, <1>5
    <2> QED
      BY <2>1, <2>2, <1>1, <1>3, <1>4, WaitsKept
  <1>9. InResume'
    BY <1>0, <1>3, <1>5, <1>7, <1>8 DEF InResume
  <1>10. TypeOK'
    <2>1. Len(progs') <= MaxNest
      BY <1>0, <1>1, <1>5, BoundAssumption DEF TypeOK
    <2>2. L # 1 => progs' # <<>>
      BY <1>1, <1>5
    <2> QED
      BY <2>1, <2>2, <1>0, <1>5 DEF TypeOK, Modes, module_num, load
  <1> QED
    BY <1>0, <1>9, <1>10 DEF Inv, Defined, InLoad, InStart, InRun, InEnd

\* The program that waited on top runs again with the table it left.
LEMMA ResumeInv ==
  ASSUME Inv, Resume
  PROVE  Inv'
  <1> DEFINE L == Len(progs)
  <1>0. /\ TypeOK /\ mode \in {"resume", "failed"} /\ progs # <<>> /\ progs \in Seq(Program)
        /\ gs_S' = data_top /\ data_top' = Now.data /\ mode' = "run"
        /\ UNCHANGED <<disk, tab, gs_G, load, progs>>
    BY DEF Inv, TypeOK, Resume
  <1>1. /\ Len(tab) \in Nat /\ L \in Nat /\ L # 0 /\ L \in 1 .. L
        /\ Now = progs[L] /\ Now \in Program
        /\ \A k \in 1 .. L : progs[k].num \in Nat
    BY <1>0, NumType
  <1>2. Waits(tab, progs, L, Len(tab)) /\ gs_G \in {tab[modn].ofs, SystemData}
    BY <1>0 DEF Inv, InResume
  <1>3. Stands(tab, Now, Now.num - 1, Floor(progs, L), Now.data) /\ Now.num = Len(tab) + 1
    BY <1>1, <1>2 DEF Waits
  <1>4. Stands(tab, Now, Len(tab), Floor(progs, L), Now.data)
    <2>1. Now.num - 1 = Len(tab)
      BY <1>1, <1>3
    <2> QED
      BY <2>1, <1>3
  <1>5. Waits(tab, progs, L - 1, Now.exec - 1)
    <2> SUFFICES ASSUME NEW k \in 1 .. L - 1
                 PROVE  /\ Stands(tab, progs[k], progs[k].num - 1, Floor(progs, k), progs[k].data)
                        /\ progs[k].num = IF k < L - 1 THEN progs[k + 1].exec ELSE Now.exec - 1 + 1
                        /\ progs[k].num - 1 <= Now.exec - 1
                        /\ \A j \in k + 1 .. L - 1 : progs[k].num <= progs[j].exec
      BY DEF Waits
    <2>1. /\ Stands(tab, progs[k], progs[k].num - 1, Floor(progs, k), progs[k].data)
          /\ progs[k].num = IF k < L THEN progs[k + 1].exec ELSE Len(tab) + 1
          /\ \A j \in k + 1 .. L : progs[k].num <= progs[j].exec
      BY <1>1, <1>2 DEF Waits
    <2>2. k < L /\ L \in k + 1 .. L
      BY <1>1
    <2>3. progs[k].num \in Nat /\ progs[k].num <= Now.exec /\ Now.exec \in Nat
      <3>1. Now.exec \in 1 .. Len(tab)
        BY <1>4 DEF Stands
      <3>2. progs[k].num \in Nat /\ progs[k].num <= progs[L].exec
        BY <2>1, <2>2, <1>1
      <3> QED
        BY <3>1, <3>2, <1>1
    <2>4. progs[k].num = progs[k + 1].exec
      BY <2>1, <2>2
    <2>5. ~ (k < L - 1) => k + 1 = L
      BY <1>1
    <2>6. progs[k].num = IF k < L - 1 THEN progs[k + 1].exec ELSE Now.exec - 1 + 1
      BY <2>3, <2>4, <2>5, <1>1
    <2>7. \A j \in k + 1 .. L - 1 : progs[k].num <= progs[j].exec
      BY <2>1, <1>1
    <2> QED
      BY <2>1, <2>3, <2>6, <2>7
  <1>6. Now' = Now /\ modn' = modn /\ progs' = progs /\ tab' = tab
    BY <1>0 DEF Now, modn, Last
  <1>7. InRun'
    BY <1>0, <1>2, <1>4, <1>5, <1>6 DEF InRun
  <1>8. TypeOK'
    <2>1. Now.calls # <<>>
      BY <1>4 DEF Stands
    <2>2. Now.data \in Nat
      BY <1>1 DEF Program
    <2> QED
      BY <2>1, <2>2, <1>0, <1>6 DEF TypeOK, Modes, module_num, load
  <1> QED
    BY <1>0, <1>7, <1>8 DEF Inv, Defined, InLoad, InStart, InEnd, InResume

\* The disk changes, or the stack within a program.
LEMMA OtherInv ==
  ASSUME Inv, mode = "run", disk' \in Disks, gs_S' \in Nat,
         UNCHANGED <<tab, data_top, gs_G, mode, load, progs>>
  PROVE  Inv'
  <1>1. Now' = Now /\ modn' = modn
    BY DEF Now, modn, Last
  <1>2. TypeOK'
    BY <1>1 DEF Inv, TypeOK, module_num, load
  <1>3. InRun'
    BY <1>1 DEF Inv, InRun
  <1> QED
    BY <1>2, <1>3 DEF Inv, Defined, InLoad, InStart, InEnd, InResume

\* Nothing changes.
LEMMA StutterInv ==
  ASSUME Inv, UNCHANGED vars
  PROVE  Inv'
  <1>1. Now' = Now /\ modn' = modn
    BY DEF vars, Now, modn, Last
  <1> QED
    BY <1>1 DEF vars, load, Inv, TypeOK, module_num, Defined, InLoad, InStart, InRun, InEnd, InResume

\* Every step keeps the invariant.
LEMMA StepInv ==
  ASSUME Inv, Complete, ~ AgainToo, [Next]_vars
  PROVE  Inv'
  <1>1. ASSUME NEW name \in Guests, CallProgram(name) PROVE Inv'
    BY <1>1, CallProgramInv
  <1>2. CASE Loading
    BY <1>2, NotFoundInv, ParseInv, ParseErrorInv, ScanInv, ScanEndsInv, FixExtCallsInv DEF Loading
  <1>3. CASE Execute
    BY <1>3, ExecuteInv
  <1>4. CASE CallModule
    BY <1>4, CallModuleInv
  <1>5. CASE Return
    BY <1>5, ReturnInv
  <1>6. CASE Ending
    BY <1>6, UnloadTopInv, ExecuteReturnsInv, ResumeInv DEF Ending
  <1>7. CASE ChangeDisk
    <2>1. gs_S' \in Nat
      BY <1>7 DEF Inv, TypeOK, ChangeDisk
    <2> QED
      BY <2>1, <1>7, OtherInv DEF ChangeDisk
  <1>8. CASE UNCHANGED vars
    BY <1>8, StutterInv
  <1> QED
    BY <1>1, <1>2, <1>3, <1>4, <1>5, <1>6, <1>7, <1>8 DEF Next

-----------------------------------------------------------------------------
(* The theorems                                                            *)

\* The invariant holds as long as object files are complete and no program is loaded over itself.
LEMMA InvHolds ==
  ASSUME Complete, ~ AgainToo
  PROVE  Spec => []Inv
  <1>1. Inv /\ [Next]_vars => Inv'
    BY StepInv
  <1> QED
    BY <1>1, InitInv, PTL DEF Spec

\* What the invariant says of a program that runs.
LEMMA InvLoaded ==
  ASSUME Inv
  PROVE  DependenciesLoaded /\ GlobalsOfRunning
  <1> SUFFICES ASSUME mode = "run" PROVE DependenciesLoaded /\ GlobalsOfRunning
    BY DEF DependenciesLoaded, GlobalsOfRunning
  <1>1. /\ Stands(tab, Now, Len(tab), Floor(progs, Len(progs)), data_top)
        /\ gs_G \in {tab[modn].ofs, SystemData}
    BY DEF Inv, InRun
  <1>2. TypeOK /\ progs # <<>> /\ tab \in Seq(Entry)
    BY DEF Inv, TypeOK
  <1>3. Len(tab) \in Nat /\ DOMAIN tab = 1 .. Len(tab)
    BY <1>2, NumType
  <1>4. modn \in 1 .. Len(tab)
    BY <1>1, <1>2, <1>3, Running
  <1>5. Closed(tab, Len(tab))
    BY <1>1 DEF Stands
  <1>6. Matches(tab, modn, Len(tab))
    BY <1>4, <1>5 DEF Closed
  <1>7. DOMAIN tab[modn].ids = 1 .. Len(tab[modn].ids)
    <2>1. tab[modn] \in Entry
      BY <1>2, <1>4
    <2>2. tab[modn].ids \in Seq(Id)
      BY <2>1 DEF Entry
    <2> QED
      BY <2>2
  <1>8. DependenciesLoaded
    <2> SUFFICES ASSUME NEW k \in 1 .. Len(tab[modn].ids)
                 PROVE  LET i == tab[modn].links[k]
                        IN /\ i \in DOMAIN tab /\ tab[i].loaded /\ tab[i].fixed
                           /\ tab[i].name = tab[modn].ids[k].name
                           /\ tab[i].key = tab[modn].ids[k].key
      BY <1>7 DEF DependenciesLoaded
    <2> DEFINE i == tab[modn].links[k]
    <2>1. i \in 1 .. Len(tab) /\ tab[i].name = tab[modn].ids[k].name /\ tab[i].key = tab[modn].ids[k].key
      BY <1>6 DEF Matches
    <2>2. tab[i].loaded /\ tab[i].fixed
      BY <2>1, <1>5 DEF Closed
    <2> QED
      BY <2>1, <2>2, <1>3
  <1> QED
    BY <1>1, <1>8 DEF GlobalsOfRunning

\* Table, programs and pointers keep their types; in particular data_top, from which
\* the unloading of a program takes what its loading had added, never goes below 0.
THEOREM ProgramsTypeOK ==
  ASSUME Complete, ~ AgainToo
  PROVE  Spec => []TypeOK
  <1>1. Inv => TypeOK
    BY DEF Inv
  <1> QED
    BY <1>1, InvHolds, PTL

\* le_execute, CLX and mach_unload_top only ever meet entries that are loaded and
\* linked, however programs and libraries are nested.
THEOREM AlwaysDefined ==
  ASSUME Complete, ~ AgainToo
  PROVE  Spec => []Defined
  <1>1. Inv => Defined
    BY DEF Inv
  <1> QED
    BY <1>1, InvHolds, PTL

\* A program runs with all it imports, directly or not, loaded and linked, in the
\* versions it was compiled against.
THEOREM LoadedWithDependencies ==
  ASSUME Complete, ~ AgainToo
  PROVE  Spec => []DependenciesLoaded
  <1>1. Inv => DependenciesLoaded
    BY InvLoaded
  <1> QED
    BY <1>1, InvHolds, PTL

\* gs_G is the data base of the module that runs, or the one of entry 0 after SVC 1.
THEOREM GlobalsStay ==
  ASSUME Complete, ~ AgainToo
  PROVE  Spec => []GlobalsOfRunning
  <1>1. Inv => GlobalsOfRunning
    BY InvLoaded
  <1> QED
    BY <1>1, InvHolds, PTL

-----------------------------------------------------------------------------
(* The machine                                                             *)

\* The heap, with what is proved about it.
HP == INSTANCE HeapProofs WITH
        Mods <- 1 .. ModTabMax, Disposals <- 0 .. MemSize, Limits <- {MemSize},
        StackTops <- Nat

\* The heap of the machine meets the assumptions under which Heap is proved about.
LEMMA HeapAssumptions ==
  /\ HP!MemAssumption /\ HP!ModAssumption /\ HP!SizeAssumption
  /\ HP!LimitAssumption /\ HP!StackAssumption /\ HP!DisposalAssumption
  BY MemorySizeAssumption, RequestAssumption, BoundAssumption
  DEF HP!MemAssumption, HP!ModAssumption, HP!SizeAssumption,
      HP!LimitAssumption, HP!StackAssumption, HP!DisposalAssumption

\* The heap starts empty.
LEMMA HeapInit ==
  ASSUME MachineInit
  PROVE  HP!RInv
  <1>1. HP!Init
    BY DEF MachineInit, Init, HP!Init, H!HeapTop, HP!HeapTop, H!Nil, HP!Nil, H!NoCall, HP!NoCall,
           H!FREE, HP!FREE
  <1> QED
    BY <1>1, HeapAssumptions, HP!RInvInit

\* The operations of the heap in Machine (H) are those that HeapProofs is about (HP).
LEMMA HeapGap ==
  ASSUME NEW m, NEW n, H!AllocGap(m, n)
  PROVE  HP!AllocGap(m, n)
  BY DEF H!AllocGap, HP!AllocGap, H!FirstGap, HP!FirstGap, H!Fits, HP!Fits, H!FREE, HP!FREE,
         H!Rounded, HP!Rounded, H!Split, HP!Split, H!Idle, HP!Idle

\* The same for a block below the others.
LEMMA HeapExtend ==
  ASSUME NEW m, NEW n, H!AllocExtend(m, n)
  PROVE  HP!AllocExtend(m, n)
  BY DEF H!AllocExtend, HP!AllocExtend, H!NoGap, HP!NoGap, H!Fits, HP!Fits, H!FREE, HP!FREE,
         H!Rounded, HP!Rounded, H!Idle, HP!Idle

\* The same for the loop of hp_free_int.
LEMMA HeapFree ==
  ASSUME H!FreeLoop
  PROVE  HP!FreeLoop
  BY DEF H!FreeLoop, HP!FreeLoop, H!Release, HP!Release, H!Skip, HP!Skip,
         H!EndOfList, HP!EndOfList, H!Looping, HP!Looping, H!Releases, HP!Releases,
         H!IsMatch, HP!IsMatch, H!Freed, HP!Freed, H!Consolidate, HP!Consolidate,
         H!JoinsNext, HP!JoinsNext, H!JoinsPrev, HP!JoinsPrev, H!IsFree, HP!IsFree,
         H!FREE, HP!FREE, H!Onward, HP!Onward, H!NoCall, HP!NoCall, H!DropLast, HP!DropLast

\* The same for hp_free.
LEMMA HeapFreeCall ==
  ASSUME NEW p, H!FreeCall(p)
  PROVE  HP!FreeCall(p)
  BY DEF H!FreeCall, HP!FreeCall, H!Idle, HP!Idle, H!Nil, HP!Nil

\* The same for hp_free_all.
LEMMA HeapFreeAllCall ==
  ASSUME NEW m, NEW l, H!FreeAllCall(m, l)
  PROVE  HP!FreeAllCall(m, l)
  BY DEF H!FreeAllCall, HP!FreeAllCall, H!Idle, HP!Idle

\* Nothing of the heap changes but the stack pointer, or the status.
LEMMA HeapQuiet ==
  ASSUME HP!RInv, gs_S' \in Nat, UNCHANGED <<heap, gs_H, cur, call>>,
         status' \in {"run", "heap overflow", "heap pointer invalid"}
  PROVE  HP!RInv'
  <1>1. HP!IInv /\ HP!LoopInv
    BY DEF HP!RInv
  <1>2. cur' \in 0 .. Len(heap) /\ call' \in HP!Call
    BY <1>1, HeapAssumptions, HP!InvParts
  <1>3. HP!IInv'
    BY <1>1, <1>2, HeapAssumptions, HP!SameListInv
  <1>4. HP!LoopInv'
    BY <1>1 DEF HP!LoopInv
  <1> QED
    BY <1>3, <1>4 DEF HP!RInv

\* hp_alloc keeps the invariant of the heap.
LEMMA HeapAllocate ==
  ASSUME HP!RInv, NEW m \in 1 .. ModTabMax, NEW n \in Sizes,
         HP!AllocGap(m, n) \/ HP!AllocExtend(m, n)
  PROVE  HP!RInv'
  <1>1. HP!IInv /\ HP!LoopInv
    BY DEF HP!RInv
  <1>2. HP!IInv'
    BY <1>1, HeapAssumptions, HP!AllocGapInv, HP!AllocExtendInv
  <1>3. cur' = 0
    BY DEF HP!AllocGap, HP!AllocExtend, HP!Idle
  <1>4. HP!LoopInv'
    BY <1>3 DEF HP!LoopInv
  <1> QED
    BY <1>2, <1>4 DEF HP!RInv

\* hp_free and hp_free_all begin.
LEMMA HeapCall ==
  ASSUME HP!RInv, NEW m \in 1 .. ModTabMax, NEW p \in Nat,
         HP!FreeCall(p) \/ HP!FreeAllCall(m, p)
  PROVE  HP!RInv'
  <1>1. HP!IInv /\ HP!LoopInv
    BY DEF HP!RInv
  <1>2. HP!IInv'
    BY <1>1, HeapAssumptions, HP!FreeCallInv, HP!FreeAllCallInv
  <1>3. HP!LoopInv'
    BY DEF HP!LoopInv, HP!FreeCall, HP!FreeAllCall
  <1> QED
    BY <1>2, <1>3 DEF HP!RInv

\* Their loop goes on.
LEMMA HeapLoop ==
  ASSUME HP!RInv, HP!FreeLoop
  PROVE  HP!RInv'
  <1>1. HP!IInv /\ HP!LoopInv
    BY DEF HP!RInv
  <1>2. HP!IInv'
    BY <1>1, HeapAssumptions, HP!FreeLoopInv
  <1>3. HP!LoopInv'
    BY HeapAssumptions, HP!FreeLoopLoopInv
  <1> QED
    BY <1>2, <1>3 DEF HP!RInv

\* Blocks lie between gs_H and the end of the memory.
LEMMA BlocksInside ==
  ASSUME HP!RInv, NEW b \in HP!Blocks
  PROVE  /\ b.adr \in Nat /\ b.sz \in Nat /\ gs_H \in Nat
         /\ gs_H <= b.adr /\ b.adr + b.sz <= MemSize
  <1>1. HP!IInv
    BY DEF HP!RInv
  <1>2. HP!Good(heap) /\ heap[Len(heap)].adr = gs_H
    BY <1>1, HeapAssumptions, HP!InvGood
  <1>3. /\ Len(heap) \in Nat /\ Len(heap) >= 1
        /\ \A k \in 1 .. Len(heap) : heap[k].adr \in Nat /\ heap[k].sz \in Nat
    <2>1. Len(heap) \in Nat \ {0} /\ \A k \in 1 .. Len(heap) : heap[k] \in HP!Block
      BY <1>2, HeapAssumptions, HP!GoodList
    <2> QED
      BY <2>1 DEF HP!Block
  <1>4. PICK i \in 1 .. Len(heap) : b = heap[i] /\ heap[i].owner # HP!FREE
    BY DEF HP!Blocks, HP!Live
  <1>5. \A j, k \in 1 .. Len(heap) : j < k => heap[k].adr + heap[k].sz <= heap[j].adr
    BY <1>1 DEF HP!IInv, HP!Descending
  <1>6. heap[1].adr = MemSize - 1 /\ heap[1].sz = 0
    BY <1>2 DEF HP!Good, HP!Tiles, HP!HeapTop, HP!Nil
  <1>7. gs_H <= b.adr
    BY <1>1, <1>4, HeapAssumptions, HP!LowestAddress
  <1>8. b.adr + b.sz <= MemSize
    <2>1. CASE i = 1
      BY <2>1, <1>4, <1>6, MemorySizeAssumption
    <2>2. CASE i > 1
      <3>1. heap[i].adr + heap[i].sz <= heap[1].adr
        BY <2>2, <1>3, <1>5
      <3> QED
        BY <3>1, <1>3, <1>4, <1>6, MemorySizeAssumption
    <2> QED
      BY <2>1, <2>2, <1>3
  <1> QED
    BY <1>2, <1>3, <1>4, <1>7, <1>8

-----------------------------------------------------------------------------
(* Owners                                                                  *)

\* The owners there may be.
Alive(ps) == {ps[k].exec : k \in DOMAIN ps}

\* A block is released because the running program disposes of it, or because
\* the module of a program that ends is unloaded.
InCall ==
  cur # 0 =>
    IF call.by_ptr
    THEN /\ mode = "run"
         /\ \A b \in HP!Blocks : b.adr = call.ptr => b.owner = Now.exec
    ELSE /\ mode = "end"
         /\ call.mod = Len(tab) + 1 /\ Now.exec <= call.mod
         /\ call.limit = MemSize

Owned ==
  /\ \A b \in HP!Blocks : b.owner \in Alive(progs)
  /\ ToSet(files) \subseteq Alive(progs)

\* Once the entry of a program is unloaded nothing belongs to it.
Gone ==
  mode = "end" /\ Len(tab) < Now.exec =>
    /\ Now.exec \notin ToSet(files)
    /\ cur = 0 => \A b \in HP!Blocks : b.owner # Now.exec

OwnInv ==
  /\ Inv
  /\ HP!RInv
  /\ files \in Seq(1 .. ModTabMax)
  /\ spilled \in BOOLEAN
  /\ InCall
  /\ Owned
  /\ Gone


-----------------------------------------------------------------------------
(* The programs in progress after a step of Programs                       *)

\* One element of a sequence is replaced.
LEMMA OneChanges ==
  ASSUME NEW T, NEW s \in Seq(T), NEW t \in Seq(T), NEW i \in 1 .. Len(s), NEW q,
         t = [s EXCEPT ![i] = q]
  PROVE  Len(t) = Len(s) /\ t[i] = q /\ \A k \in 1 .. Len(s) : k # i => t[k] = s[k]
  <1>1. DOMAIN s = 1 .. Len(s) /\ Len(s) \in Nat /\ DOMAIN t = 1 .. Len(t) /\ Len(t) \in Nat
    OBVIOUS
  <1>2. DOMAIN t = DOMAIN s
    OBVIOUS
  <1>3. Len(t) = Len(s)
    <2>1. 1 .. Len(t) = 1 .. Len(s)
      BY <1>1, <1>2
    <2>2. ASSUME NEW m \in Nat, NEW n \in Nat, 1 .. m = 1 .. n PROVE m = n
      <3>1. m # 0 => m \in 1 .. n
        BY <2>2
      <3>2. n # 0 => n \in 1 .. m
        BY <2>2
      <3> QED
        BY <3>1, <3>2
    <2> QED
      BY <2>1, <2>2, <1>1
  <1>4. t[i] = q /\ \A k \in 1 .. Len(s) : k # i => t[k] = s[k]
    BY <1>1
  <1> QED
    BY <1>3, <1>4

\* Only the topmost program changes, and it keeps its entry.
TopChanges(ps, qs) ==
  /\ Len(qs) = Len(ps)
  /\ \A k \in 1 .. Len(ps) - 1 : qs[k] = ps[k]
  /\ qs[Len(ps)].exec = ps[Len(ps)].exec

\* SVC 1 notes stack, data and table in the frame of the program.
LEMMA CallProgramIs ==
  ASSUME TypeOK, TypeOK', NEW name \in Guests, CallProgram(name)
  PROVE  /\ TopChanges(progs, progs')
         /\ progs'[Len(progs)].calls = Now.calls
         /\ progs'[Len(progs)].S = gs_S /\ progs'[Len(progs)].data = data_top
         /\ progs'[Len(progs)].num = Len(tab) + 1
  <1> DEFINE L == Len(progs)
             q == [Now EXCEPT !.S = gs_S, !.data = data_top, !.num = module_num]
  <1>1. L \in Nat /\ L # 0 /\ Now = progs[L] /\ Now \in Program /\ DOMAIN progs = 1 .. L
        /\ module_num = Len(tab) + 1
    BY NumType DEF TypeOK, CallProgram
  <1>2. progs' = [progs EXCEPT ![L] = q]
    BY <1>1 DEF CallProgram
  <1>3. q.exec = Now.exec /\ q.calls = Now.calls /\ q.S = gs_S /\ q.data = data_top
        /\ q.num = module_num
    BY <1>1 DEF Program
  <1> HIDE DEF q
  <1>4. progs \in Seq(Program) /\ progs' \in Seq(Program)
    BY DEF TypeOK
  <1>5. Len(progs') = L /\ progs'[L] = q /\ \A k \in 1 .. L - 1 : progs'[k] = progs[k]
    <2>1. L \in 1 .. Len(progs)
      BY <1>1
    <2>2. Len(progs') = L /\ progs'[L] = q /\ \A k \in 1 .. L : k # L => progs'[k] = progs[k]
      BY <2>1, <1>1, <1>2, <1>4, OneChanges
    <2> QED
      BY <2>2, <1>1
  <1> QED
    BY <1>1, <1>3, <1>5 DEF TopChanges

\* The frame that CLX or RTN adds or takes away.
LEMMA CallModuleIs ==
  ASSUME TypeOK, TypeOK', CallModule
  PROVE  /\ TopChanges(progs, progs')
         /\ \E m : progs'[Len(progs)].calls = Append(Now.calls, [mod |-> m, S |-> gs_S])
  <1> DEFINE L == Len(progs)
  <1>1. L \in Nat /\ L # 0 /\ Now = progs[L] /\ Now \in Program /\ DOMAIN progs = 1 .. L
        /\ progs \in Seq(Program) /\ progs' \in Seq(Program)
    BY NumType DEF TypeOK, CallModule
  <1>2. PICK m : progs' = [progs EXCEPT ![L].calls = Append(@, [mod |-> m, S |-> gs_S])]
    BY DEF CallModule
  <1> DEFINE calls == Append(Now.calls, [mod |-> m, S |-> gs_S])
             q == [Now EXCEPT !.calls = calls]
  <1>3. progs' = [progs EXCEPT ![L] = q]
    BY <1>1, <1>2
  <1> HIDE DEF calls
  <1>4. q.exec = Now.exec /\ q.calls = calls
    BY <1>1 DEF Program
  <1> HIDE DEF q
  <1>5. Len(progs') = L /\ progs'[L] = q /\ \A k \in 1 .. L - 1 : progs'[k] = progs[k]
    <2>1. L \in 1 .. Len(progs)
      BY <1>1
    <2>2. Len(progs') = L /\ progs'[L] = q /\ \A k \in 1 .. L : k # L => progs'[k] = progs[k]
      BY <2>1, <1>1, <1>3, OneChanges
    <2> QED
      BY <2>2, <1>1
  <1> QED
    BY <1>1, <1>4, <1>5 DEF TopChanges, calls

\* RTN takes the last call away.
LEMMA ReturnIs ==
  ASSUME TypeOK, TypeOK', Return
  PROVE  TopChanges(progs, progs') /\ progs'[Len(progs)].calls = Front(Now.calls)
  <1> DEFINE L == Len(progs)
             calls == Front(Now.calls)
             q == [Now EXCEPT !.calls = calls]
  <1>1. L \in Nat /\ L # 0 /\ Now = progs[L] /\ Now \in Program /\ DOMAIN progs = 1 .. L
        /\ progs \in Seq(Program) /\ progs' \in Seq(Program)
    BY NumType DEF TypeOK, Return
  <1>2. progs' = [progs EXCEPT ![L] = q]
    BY <1>1 DEF Return
  <1> HIDE DEF calls
  <1>3. q.exec = Now.exec /\ q.calls = calls
    BY <1>1 DEF Program
  <1> HIDE DEF q
  <1>4. Len(progs') = L /\ progs'[L] = q /\ \A k \in 1 .. L - 1 : progs'[k] = progs[k]
    <2>1. L \in 1 .. Len(progs)
      BY <1>1
    <2>2. Len(progs') = L /\ progs'[L] = q /\ \A k \in 1 .. L : k # L => progs'[k] = progs[k]
      BY <2>1, <1>1, <1>2, OneChanges
    <2> QED
      BY <2>2, <1>1
  <1> QED
    BY <1>1, <1>3, <1>4 DEF TopChanges, calls

\* le_execute adds a program.
LEMMA ExecuteIs ==
  ASSUME TypeOK, Execute
  PROVE  /\ Len(progs') = Len(progs) + 1
         /\ \A k \in 1 .. Len(progs) : progs'[k] = progs[k]
         /\ progs'[Len(progs) + 1].calls = <<[mod |-> first, S |-> data_top]>>
         /\ progs'[Len(progs) + 1].exec = first
  BY DEF TypeOK, Execute

\* The end of le_execute takes it away.
LEMMA ExecuteReturnsIs ==
  ASSUME TypeOK, ExecuteReturns
  PROVE  /\ Len(progs') = Len(progs) - 1 /\ Len(progs) # 0
         /\ \A k \in 1 .. Len(progs) - 1 : progs'[k] = progs[k]
  <1>1. progs \in Seq(Program) /\ progs # <<>> /\ progs' = Front(progs)
    BY DEF TypeOK, ExecuteReturns
  <1> QED
    BY <1>1, FrontIs, NumType

-----------------------------------------------------------------------------
(* Owners, through every step                                              *)

\* A program that goes on with its entry owns what it did.
LEMMA AliveKept ==
  ASSUME NEW ps, NEW qs, NEW n \in Nat, DOMAIN ps = 1 .. n, n \in Nat,
         1 .. n \subseteq DOMAIN qs, \A k \in 1 .. n : qs[k].exec = ps[k].exec
  PROVE  Alive(ps) \subseteq Alive(qs)
  BY DEF Alive

\* When only the topmost program changes the owners stay.
LEMMA TopAlive ==
  ASSUME TypeOK, TypeOK', TopChanges(progs, progs'), progs # <<>>
  PROVE  Alive(progs) \subseteq Alive(progs') /\ Now'.exec = Now.exec
  <1> DEFINE L == Len(progs)
  <1>1. L \in Nat /\ DOMAIN progs = 1 .. L /\ L # 0 /\ Now = progs[L]
    BY NumType
  <1>2. Len(progs') = L /\ DOMAIN progs' = 1 .. L /\ Now' = progs'[L]
    BY <1>1 DEF TopChanges, TypeOK, Now, Last
  <1>3. \A k \in 1 .. L : progs'[k].exec = progs[k].exec
    BY <1>1 DEF TopChanges
  <1> QED
    BY <1>1, <1>2, <1>3, AliveKept

\* A step of Programs, other than the clean-up, that takes no program away.
LEMMA QuietOwned ==
  ASSUME OwnInv, Inv', cur = 0, UNCHANGED <<heapVars, files>>, spilled' \in BOOLEAN,
         Alive(progs) \subseteq Alive(progs'), mode' = "end" => Now'.exec \in 1 .. Len(tab')
  PROVE  OwnInv'
  <1>1. gs_S' \in Nat /\ HP!TypeOK
    BY DEF OwnInv, Inv, TypeOK, HP!RInv, HP!IInv
  <1>2. HP!RInv'
    BY <1>1, HeapQuiet DEF OwnInv, heapVars, HP!TypeOK
  <1>3. InCall' /\ Owned' /\ (files \in Seq(1 .. ModTabMax))'
    BY DEF OwnInv, InCall, Owned, heapVars, HP!Blocks, HP!Live
  <1>4. Gone'
    BY DEF Gone, Inv, TypeOK
  <1> QED
    BY <1>2, <1>3, <1>4 DEF OwnInv

\* A program that starts, ends, calls or is called.
LEMMA AloneOwned ==
  ASSUME OwnInv, Complete, ~ AgainToo, cur = 0, UNCHANGED <<heapVars, files>>,
         spilled' \in BOOLEAN,
         \/ Loading \/ Execute \/ ExecuteReturns \/ Resume
         \/ CallModule \/ Return \/ ChangeDisk
         \/ \E name \in Guests : CallProgram(name)
  PROVE  OwnInv'
  <1>1. Inv /\ TypeOK /\ InRun
    BY DEF OwnInv, Inv
  <1>2. Inv' /\ TypeOK' /\ InEnd'
    <2>1. Next
      BY DEF Next, Ending
    <2>2. Inv'
      BY <2>1, <1>1, StepInv
    <2> QED
      BY <2>2 DEF Inv
  <1>3. CASE Loading \/ Resume \/ ChangeDisk
    <2>1. progs' = progs
      BY <1>3 DEF Loading, Resume, ChangeDisk, NotFound, Parse, ParseError, Scan, ScanEnds,
                  FixExtCalls, FixError
    <2>2. mode' # "end"
      BY <1>3, <1>1 DEF Loading, Resume, ChangeDisk, NotFound, Parse, ParseError, Scan, ScanEnds,
                  FixExtCalls, FixError
    <2> QED
      BY <2>1, <2>2, <1>2, QuietOwned
  <1>4. CASE Execute
    <2>1. mode' # "end"
      BY <1>4 DEF Execute
    <2>2. Alive(progs) \subseteq Alive(progs')
      <3>1. DOMAIN progs' = 1 .. Len(progs') /\ Len(progs) \in Nat /\ DOMAIN progs = 1 .. Len(progs)
        BY <1>1, <1>2, NumType DEF TypeOK
      <3> QED
        BY <3>1, <1>1, <1>4, ExecuteIs, AliveKept
    <2> QED
      BY <2>1, <2>2, <1>2, QuietOwned
  <1>5. CASE CallModule \/ \E name \in Guests : CallProgram(name)
    <2>1. TopChanges(progs, progs')
      BY <1>1, <1>2, <1>5, CallModuleIs, CallProgramIs
    <2>2. Alive(progs) \subseteq Alive(progs')
      BY <2>1, <1>1, <1>2, <1>5, TopAlive DEF TypeOK, CallModule, CallProgram
    <2>3. mode' # "end"
      BY <1>5 DEF CallModule, CallProgram
    <2> QED
      BY <2>2, <2>3, <1>2, QuietOwned
  <1>6. CASE Return
    <2>0. mode = "run" /\ progs # <<>>
      BY <1>1, <1>6 DEF Return, TypeOK
    <2>1. TopChanges(progs, progs')
      BY <1>1, <1>2, <1>6, ReturnIs
    <2>2. Alive(progs) \subseteq Alive(progs') /\ Now'.exec = Now.exec
      BY <2>0, <2>1, <1>1, <1>2, TopAlive
    <2>3. Now.exec \in 1 .. Len(tab) /\ tab' = tab
      BY <2>0, <1>1, <1>6 DEF InRun, Stands, Return
    <2> QED
      BY <2>2, <2>3, <1>2, QuietOwned
  <1>7. CASE ExecuteReturns
    <2> DEFINE L == Len(progs)
    <2>0. /\ mode = "end" /\ progs # <<>> /\ mode' # "end" /\ Len(tab) < Now.exec
          /\ L \in Nat /\ L # 0 /\ DOMAIN progs = 1 .. L /\ Now = progs[L] /\ Now \in Program
      <3>1. /\ mode = "end" /\ progs # <<>> /\ mode' # "end" /\ ~ (Len(tab) >= Now.exec)
        BY <1>1, <1>7 DEF ExecuteReturns, TypeOK, Stays
      <3>2. /\ L \in Nat /\ L # 0 /\ DOMAIN progs = 1 .. L /\ Now = progs[L] /\ Now \in Program
            /\ Len(tab) \in Nat
        BY <3>1, <1>1, NumType
      <3>3. Now.exec \in Nat
        BY <3>2, BoundAssumption DEF Program
      <3> QED
        BY <3>1, <3>2, <3>3
    <2>1. /\ DOMAIN progs' = 1 .. L - 1 /\ \A k \in 1 .. L - 1 : progs'[k] = progs[k]
      <3>1. DOMAIN progs' = 1 .. Len(progs')
        BY <1>2 DEF TypeOK
      <3> QED
        BY <3>1, <1>1, <1>7, ExecuteReturnsIs
    <2>2. Alive(progs) \subseteq Alive(progs') \union {Now.exec}
      <3> SUFFICES ASSUME NEW k \in 1 .. L
                   PROVE  progs[k].exec \in Alive(progs') \union {Now.exec}
        BY <2>0 DEF Alive
      <3>1. CASE k = L
        BY <3>1, <2>0
      <3>2. CASE k # L
        <4>0. k \in 1 .. L - 1
          <5>1. L \in Nat
            BY <2>0
          <5> QED
            BY <5>1, <3>2
        <4>1. k \in DOMAIN progs' /\ progs'[k] = progs[k]
          BY <4>0, <2>1
        <4> QED
          BY <4>1 DEF Alive
      <3> QED
        BY <3>1, <3>2
    <2>3. /\ \A b \in HP!Blocks : b.owner \in Alive(progs) /\ b.owner # Now.exec
          /\ ToSet(files) \subseteq Alive(progs) /\ Now.exec \notin ToSet(files)
      BY <2>0 DEF OwnInv, Owned, Gone
    <2>4. Owned'
      BY <2>2, <2>3 DEF Owned, heapVars, HP!Blocks, HP!Live
    <2>5. HP!RInv'
      <3>1. gs_S' \in Nat /\ HP!TypeOK
        BY <1>2 DEF OwnInv, TypeOK, HP!RInv, HP!IInv
      <3> QED
        BY <3>1, HeapQuiet DEF OwnInv, heapVars, HP!TypeOK
    <2> QED
      BY <2>0, <2>4, <2>5, <1>2 DEF OwnInv, InCall, Gone, heapVars
  <1> QED
    BY <1>3, <1>4, <1>5, <1>6, <1>7

\* The last module of a program that ends is unloaded.
LEMMA CleanUpOwned ==
  ASSUME OwnInv, Complete, ~ AgainToo, CleanUp, spilled' \in BOOLEAN
  PROVE  OwnInv'
  <1> DEFINE n == Len(tab)
  <1>1. Inv /\ TypeOK
    BY DEF OwnInv, Inv
  <1>2. Inv' /\ TypeOK' /\ Defined'
    <2>1. Next
      BY DEF Next, Ending, CleanUp
    <2>2. Inv'
      BY <2>1, <1>1, StepInv
    <2> QED
      BY <2>2 DEF Inv
  <1>3. /\ cur = 0 /\ mode = "end" /\ tab' = Front(tab) /\ n >= Now.exec
        /\ UNCHANGED <<gs_S, progs>> /\ progs # <<>>
        /\ files' = Only(files, (1 .. ModTabMax) \ {n})
        /\ H!FreeAllCall(n, MemSize)
    BY <1>1 DEF CleanUp, UnloadTop, Stays, ClosedFor, NoLimit, TypeOK
  <1>4. mode' = "end"
    BY <1>2, <1>3 DEF CleanUp, UnloadTop, Defined
  <1>5. Now.exec \in Nat /\ Now.exec >= 1 /\ n \in Nat /\ tab \in Seq(Entry) /\ n + 1 <= ModTabMax
        /\ Now' = Now
    <2>1. /\ Now \in Program /\ n \in Nat
      BY <1>1, <1>3, NumType
    <2>2. Now.exec \in 1 .. ModTabMax
      BY <2>1 DEF Program
    <2>3. n + 1 <= ModTabMax
      BY <1>1 DEF TypeOK, module_num
    <2> QED
      BY <2>1, <2>2, <2>3, <1>1, <1>3, BoundAssumption DEF TypeOK, Now
  <1>6. Len(tab') = n - 1 /\ n \in 1 .. ModTabMax
    <2>1. n # 0 /\ n >= 1
      BY <1>3, <1>5
    <2>2. tab # <<>>
      BY <2>1, <1>5
    <2> QED
      BY <2>1, <2>2, <1>3, <1>5, BoundAssumption, FrontIs
  <1>7. /\ cur' = 1 /\ UNCHANGED heap
        /\ call' = [by_ptr |-> FALSE, mod |-> n, ptr |-> 0, limit |-> MemSize]
    BY <1>3 DEF H!FreeAllCall
  <1>8. HP!RInv'
    <2>1. HP!FreeAllCall(n, MemSize)
      BY <1>3, HeapFreeAllCall
    <2> QED
      BY <2>1, <1>6, HeapCall, MemorySizeAssumption DEF OwnInv
  <1>9. /\ files' \in Seq(1 .. ModTabMax)
        /\ ToSet(files') = ToSet(files) \intersect ((1 .. ModTabMax) \ {n})
    BY <1>3, OnlyType, OnlyElements DEF OwnInv
  <1>10. Owned'
    BY <1>3, <1>7, <1>9 DEF OwnInv, Owned, HP!Blocks, HP!Live
  <1>11. InCall'
    <2>1. Len(tab') + 1 = n
      BY <1>5, <1>6
    <2> QED
      BY <2>1, <1>3, <1>4, <1>5, <1>7 DEF InCall
  <1>12. Gone'
    <2> SUFFICES ASSUME Len(tab') < Now'.exec
                 PROVE  Now'.exec \notin ToSet(files') /\ cur' # 0
      BY DEF Gone
    <2>1. Now'.exec = n
      BY <1>3, <1>5, <1>6
    <2> QED
      BY <2>1, <1>7, <1>9
  <1> QED
    BY <1>2, <1>8, <1>9, <1>10, <1>11, <1>12 DEF OwnInv

\* Nothing of Programs changes.
LEMMA SameVars ==
  ASSUME OwnInv, UNCHANGED vars
  PROVE  Inv' /\ Now' = Now /\ Alive(progs') = Alive(progs)
  BY StutterInv DEF OwnInv, vars, Now, Alive

\* A pass of the loop of hp_free_int; when hp_free_all is done its module owns no block.
LEMMA FreeOwned ==
  ASSUME OwnInv, Free
  PROVE  OwnInv'
  <1>1. Inv' /\ Now' = Now /\ Alive(progs') = Alive(progs)
    BY SameVars DEF Free
  <1>2. H!FreeLoop /\ HP!FreeLoop /\ UNCHANGED <<mode, tab, files, spilled>>
    BY HeapFree DEF Free, vars
  <1>3. HP!RInv /\ HP!RInv'
    BY <1>2, HeapLoop DEF OwnInv
  <1>4. HP!Blocks' \subseteq HP!Blocks
    BY <1>2, <1>3, HeapAssumptions, HP!LoopBlocks
  <1>5. cur # 0
    BY <1>2 DEF HP!FreeLoop, HP!Release, HP!Skip, HP!EndOfList, HP!Looping
  <1>6. Owned'
    BY <1>1, <1>2, <1>4 DEF OwnInv, Owned
  <1>7. InCall'
    <2>1. cur' # 0 => call' = call
      BY <1>2 DEF HP!FreeLoop, HP!Release, HP!Skip, HP!EndOfList
    <2> QED
      BY <2>1, <1>1, <1>2, <1>4, <1>5 DEF OwnInv, InCall
  <1>8. Gone'
    <2> SUFFICES ASSUME mode = "end", Len(tab) < Now.exec, cur' = 0, NEW b \in HP!Blocks'
                 PROVE  b.owner # Now.exec
      BY <1>1, <1>2 DEF OwnInv, Gone
    <2>1. ~ call.by_ptr /\ call.mod = Len(tab) + 1 /\ Now.exec <= call.mod /\ call.limit = MemSize
      BY <1>5 DEF OwnInv, InCall
    <2>2. call.mod = Now.exec
      <3>1. Len(tab) \in Nat /\ Now \in Program
        BY NumType DEF OwnInv, Inv, TypeOK
      <3>2. Now.exec \in Nat
        BY <3>1, BoundAssumption DEF Program
      <3> QED
        BY <3>1, <3>2, <2>1
    <2>3. PICK i \in HP!Live' : b = heap'[i]
      BY DEF HP!Blocks
    <2>4. ~ (heap'[i].owner = call.mod /\ heap'[i].adr <= call.limit)
      BY <2>1, <2>3, <1>2, <1>3, HeapAssumptions, HP!FreeAllDone
    <2>5. heap'[i].adr <= MemSize
      <3>1. b \in HP!Blocks
        BY <1>4
      <3>2. b.adr \in Nat /\ b.sz \in Nat /\ b.adr + b.sz <= MemSize
        BY <3>1, <1>3, BlocksInside
      <3> QED
        BY <3>2, <2>3, MemorySizeAssumption
    <2> QED
      BY <2>1, <2>2, <2>3, <2>4, <2>5
  <1> QED
    BY <1>1, <1>2, <1>3, <1>6, <1>7, <1>8 DEF OwnInv

\* An error ends the emulator.
LEMMA MachineErrorInv ==
  ASSUME Inv, mode' = "error",
         UNCHANGED <<disk, tab, data_top, gs_S, gs_G, load, progs>>
  PROVE  Inv' /\ gs_S' \in Nat
  <1>1. TypeOK
    BY DEF Inv
  <1>2. Inv'
    BY <1>1, ErrorInv DEF load, TypeOK
  <1> QED
    BY <1>2 DEF Inv, TypeOK

\* The program that runs is one of those in progress.
LEMMA RunningAlive ==
  ASSUME OwnInv, mode = "run"
  PROVE  Now.exec \in 1 .. ModTabMax /\ Now.exec \in Alive(progs)
  <1>1. TypeOK /\ progs # <<>>
    BY DEF OwnInv, Inv, TypeOK
  <1>2. Len(progs) \in 1 .. Len(progs) /\ DOMAIN progs = 1 .. Len(progs)
        /\ Now = progs[Len(progs)] /\ Now \in Program
    BY <1>1, NumType
  <1> QED
    BY <1>2 DEF Alive, Program

\* A list with one more element in front.
LEMMA PrependElements ==
  ASSUME NEW T, NEW s \in Seq(T), NEW e \in T
  PROVE  <<e>> \o s \in Seq(T) /\ ToSet(<<e>> \o s) \subseteq ToSet(s) \union {e}
  <1> DEFINE t == <<e>> \o s
  <1>1. t \in Seq(T) /\ Len(t) = Len(s) + 1 /\ t[1] = e /\ \A i \in 1 .. Len(s) : t[i + 1] = s[i]
    OBVIOUS
  <1> HIDE DEF t
  <1>2. ASSUME NEW j \in 1 .. Len(t) PROVE t[j] \in ToSet(s) \union {e}
    <2>1. j = 1 \/ (j - 1 \in 1 .. Len(s) /\ (j - 1) + 1 = j)
      BY <1>1
    <2>2. CASE j - 1 \in 1 .. Len(s) /\ (j - 1) + 1 = j
      <3>1. t[j] = s[j - 1]
        BY <2>2, <1>1
      <3>2. j - 1 \in DOMAIN s
        BY <2>2
      <3> QED
        BY <3>1, <3>2 DEF ToSet
    <2> QED
      BY <2>1, <2>2, <1>1
  <1>3. DOMAIN t = 1 .. Len(t)
    BY <1>1
  <1> QED
    BY <1>1, <1>2, <1>3 DEF ToSet, t

\* A list without one of its elements.
LEMMA RemoveElements ==
  ASSUME NEW T, NEW s \in Seq(T), NEW i \in DOMAIN s
  PROVE  RemoveAt(s, i) \in Seq(T) /\ ToSet(RemoveAt(s, i)) \subseteq ToSet(s)
  <1>1. i \in 1 .. Len(s) /\ Len(s) \in Nat /\ DOMAIN s = 1 .. Len(s)
    OBVIOUS
  <1> DEFINE R == ToSet(s)
             a == SubSeq(s, 1, i - 1)
             b == SubSeq(s, i + 1, Len(s))
  <1>2. s \in Seq(R)
    BY <1>1 DEF ToSet
  <1>3. a \in Seq(R) /\ b \in Seq(R)
    BY <1>1, <1>2
  <1>4. a \o b \in Seq(R)
    BY <1>3
  <1>5. RemoveAt(s, i) = a \o b
    BY DEF RemoveAt
  <1>6. R \subseteq T
    BY <1>1 DEF ToSet
  <1> HIDE DEF R, a, b
  <1>7. \A j \in DOMAIN (a \o b) : (a \o b)[j] \in R
    BY <1>4
  <1>8. a \o b \in Seq(T)
    BY <1>4, <1>6
  <1> QED
    BY <1>5, <1>7, <1>8 DEF ToSet, R


\* The new block belongs to the program that runs.
LEMMA AllocateOwned ==
  ASSUME OwnInv, NEW n \in Sizes, Allocate(n)
  PROVE  OwnInv'
  <1>1. /\ mode = "run" /\ cur = 0 /\ UNCHANGED <<vars, files, spilled>>
        /\ H!AllocGap(Now.exec, n) \/ H!AllocExtend(Now.exec, n)
    BY DEF Allocate, Asks, Owner
  <1>2. Inv' /\ Now' = Now /\ Alive(progs') = Alive(progs)
    BY <1>1, SameVars
  <1>3. Now.exec \in 1 .. ModTabMax /\ Now.exec \in Alive(progs)
    BY <1>1, RunningAlive
  <1>4. HP!AllocGap(Now.exec, n) \/ HP!AllocExtend(Now.exec, n)
    BY <1>1, HeapGap, HeapExtend
  <1>5. HP!RInv /\ HP!RInv' /\ HP!IInv
    BY <1>3, <1>4, HeapAllocate DEF OwnInv, HP!RInv
  <1>6. PICK b : b.owner = Now.exec /\ HP!Blocks' = HP!Blocks \union {b}
    BY <1>3, <1>4, <1>5, HeapAssumptions, HP!AllocBlocks
  <1>7. Owned'
    BY <1>1, <1>2, <1>3, <1>6 DEF OwnInv, Owned
  <1>8. InCall' /\ Gone'
    BY <1>1, <1>4 DEF InCall, Gone, vars, HP!AllocGap, HP!AllocExtend
  <1> QED
    BY <1>1, <1>2, <1>5, <1>7, <1>8 DEF OwnInv

\* "Heap overflow".
LEMMA AllocateFailsOwned ==
  ASSUME OwnInv, NEW n \in Sizes, AllocateFails(n), spilled' \in BOOLEAN
  PROVE  OwnInv'
  <1>1. /\ cur = 0 /\ mode' = "error" /\ status' = "heap overflow"
        /\ UNCHANGED <<disk, tab, data_top, gs_S, gs_G, load, progs, files>>
        /\ UNCHANGED <<heap, gs_H, cur, call>>
    BY DEF AllocateFails, Asks, H!AllocOverflow
  <1>2. Inv' /\ gs_S' \in Nat
    BY <1>1, MachineErrorInv DEF OwnInv
  <1>3. HP!RInv'
    BY <1>1, <1>2, HeapQuiet DEF OwnInv
  <1>4. InCall' /\ Gone' /\ Owned'
    BY <1>1 DEF OwnInv, InCall, Gone, Owned, Alive, HP!Blocks, HP!Live
  <1> QED
    BY <1>1, <1>2, <1>3, <1>4 DEF OwnInv

\* SVC 0, deallocate: the block with this address is one of the running program.
LEMMA DeallocateOwned ==
  ASSUME OwnInv, Deallocate
  PROVE  OwnInv'
  <1>1. mode = "run" /\ cur = 0 /\ UNCHANGED <<vars, files, spilled>>
    BY DEF Deallocate, Asks
  <1>2. PICK i \in H!Live : heap[i].owner = Now.exec /\ H!FreeCall(heap[i].adr)
    BY DEF Deallocate, Owner
  <1>3. Inv' /\ Now' = Now /\ Alive(progs') = Alive(progs)
    BY <1>1, SameVars
  <1>4. heap[i] \in HP!Blocks /\ i \in 1 .. Len(heap)
    BY DEF HP!Blocks, HP!Live, H!Live, HP!FREE, H!FREE
  <1>5. HP!FreeCall(heap[i].adr) /\ heap[i].adr \in Nat /\ HP!RInv
    BY <1>2, <1>4, HeapFreeCall, BlocksInside DEF OwnInv
  <1>6. HP!RInv'
    BY <1>3, <1>5, <1>1, HeapCall, RunningAlive
  <1>7. heap' = heap /\ call'.by_ptr /\ call'.ptr = heap[i].adr /\ cur' = 1
    BY <1>5 DEF HP!FreeCall
  <1>8. ASSUME NEW b \in HP!Blocks, b.adr = heap[i].adr PROVE b.owner = Now.exec
    <2>1. PICK j \in 1 .. Len(heap) : b = heap[j]
      BY DEF HP!Blocks, HP!Live
    <2>2. j = i
      BY <1>4, <1>5, <1>8, <2>1, HeapAssumptions, HP!DistinctAddresses DEF HP!RInv
    <2> QED
      BY <2>1, <2>2, <1>2
  <1>9. InCall'
    BY <1>1, <1>3, <1>7, <1>8 DEF InCall, vars, HP!Blocks, HP!Live
  <1>10. Owned' /\ Gone'
    BY <1>1, <1>3, <1>7 DEF OwnInv, Owned, Gone, vars, HP!Blocks, HP!Live
  <1> QED
    BY <1>1, <1>3, <1>6, <1>9, <1>10 DEF OwnInv

\* The open files of the running program change, and nothing else.
LEMMA FilesOwned ==
  ASSUME OwnInv, mode = "run", cur = 0, UNCHANGED <<vars, heapVars, spilled>>,
         files' \in Seq(1 .. ModTabMax), ToSet(files') \subseteq ToSet(files) \union {Now.exec}
  PROVE  OwnInv'
  <1>1. Inv' /\ Now' = Now /\ Alive(progs') = Alive(progs)
    BY SameVars
  <1>2. HP!RInv'
    <2>1. gs_S' \in Nat /\ HP!TypeOK
      BY <1>1 DEF OwnInv, Inv, TypeOK, HP!RInv, HP!IInv
    <2> QED
      BY <2>1, HeapQuiet DEF OwnInv, heapVars, HP!TypeOK
  <1>3. Owned'
    BY <1>1, RunningAlive DEF OwnInv, Owned, heapVars, HP!Blocks, HP!Live
  <1>4. InCall' /\ Gone'
    BY DEF InCall, Gone, heapVars, vars
  <1> QED
    BY <1>1, <1>2, <1>3, <1>4 DEF OwnInv

\* A file is opened by the running program.
LEMMA OpenFileOwned ==
  ASSUME OwnInv, OpenFile
  PROVE  OwnInv'
  <1>1. /\ mode = "run" /\ cur = 0 /\ UNCHANGED <<vars, heapVars, spilled>>
        /\ files' = <<Now.exec>> \o files
    BY DEF OpenFile, Asks, Owner
  <1>2. Now.exec \in 1 .. ModTabMax /\ files \in Seq(1 .. ModTabMax)
    BY <1>1, RunningAlive DEF OwnInv
  <1>3. files' \in Seq(1 .. ModTabMax) /\ ToSet(files') \subseteq ToSet(files) \union {Now.exec}
    BY <1>1, <1>2, PrependElements
  <1> QED
    BY <1>1, <1>3, FilesOwned

\* A file is closed.
LEMMA CloseFileOwned ==
  ASSUME OwnInv, CloseFile
  PROVE  OwnInv'
  <1>1. PICK i \in DOMAIN files : files' = RemoveAt(files, i)
    BY DEF CloseFile
  <1>2. mode = "run" /\ cur = 0 /\ UNCHANGED <<vars, heapVars, spilled>>
    BY DEF CloseFile, Asks
  <1>3. files' \in Seq(1 .. ModTabMax) /\ ToSet(files') \subseteq ToSet(files)
    BY <1>1, RemoveElements DEF OwnInv
  <1> QED
    BY <1>2, <1>3, FilesOwned

\* The stack grows, or the stack and the heap have met.
LEMMA EnterOwned ==
  ASSUME OwnInv, NEW n \in Locals, Enter(n) \/ EnterTrap(n), spilled' \in BOOLEAN
  PROVE  OwnInv'
  <1>1. /\ mode = "run" /\ cur = 0 /\ UNCHANGED <<heapVars, files, progs>>
        /\ mode' = "error" \/ mode' = "run"
    BY DEF Enter, EnterTrap, Asks
  <1>2. Inv'
    <2>1. CASE Enter(n)
      <3>1. gs_S \in Nat /\ n \in Nat
        BY RequestAssumption DEF OwnInv, Inv, TypeOK
      <3>2. gs_S' \in Nat
        BY <3>1, <2>1 DEF Enter
      <3>3. disk' \in Disks
        BY <2>1 DEF Enter, OwnInv, Inv, TypeOK
      <3> QED
        BY <3>2, <3>3, <2>1, <1>1, OtherInv DEF Enter, OwnInv
    <2>2. CASE EnterTrap(n)
      BY <2>2, MachineErrorInv DEF EnterTrap, OwnInv
    <2> QED
      BY <2>1, <2>2
  <1>3. Alive(progs) \subseteq Alive(progs')
    BY <1>1
  <1> QED
    BY <1>1, <1>2, <1>3, QuietOwned

\* What a step of the emulator can be.
LEMMA StepCases ==
  ASSUME MachineNext
  PROVE  /\ ~ spilled
         /\ \/ /\ cur = 0 /\ UNCHANGED <<heapVars, files>> /\ Spills
               /\ \/ Loading \/ Execute \/ ExecuteReturns \/ Resume
                  \/ CallModule \/ Return \/ ChangeDisk
                  \/ \E name \in Guests : CallProgram(name)
            \/ CleanUp /\ Spills
            \/ Free
            \/ \E n \in Sizes : Allocate(n) \/ AllocateFails(n)
            \/ Deallocate
            \/ OpenFile
            \/ CloseFile
            \/ \E n \in Locals : (Enter(n) \/ EnterTrap(n)) /\ Spills
  <1>1. CASE Emulator
    BY <1>1 DEF Emulator, Loads, Starts, Continues, Alone
  <1>2. CASE Guest
    BY <1>2 DEF Guest, Runs, Calls, Alone
  <1> QED
    BY <1>1, <1>2 DEF MachineNext

\* At first nothing is owned.
LEMMA OwnInit ==
  ASSUME MachineInit
  PROVE  OwnInv
  <1>1. Inv /\ HP!RInv
    BY InitInv, HeapInit DEF MachineInit
  <1>2. /\ heap = <<HP!HeapTop>> /\ HP!HeapTop.owner = HP!FREE /\ files = <<>> /\ cur = 0
        /\ spilled = FALSE /\ mode = "load"
    BY DEF MachineInit, Init, H!HeapTop, HP!HeapTop, H!Nil, HP!Nil, H!FREE, HP!FREE
  <1>3. HP!Blocks = {}
    BY <1>2 DEF HP!Blocks, HP!Live
  <1>4. ToSet(files) = {} /\ files \in Seq(1 .. ModTabMax)
    BY <1>2 DEF ToSet
  <1> QED
    BY <1>1, <1>2, <1>3, <1>4 DEF OwnInv, InCall, Owned, Gone

\* Every step keeps blocks and files with programs in progress.
LEMMA OwnStep ==
  ASSUME OwnInv, Complete, ~ AgainToo, [MachineNext]_machineVars
  PROVE  OwnInv'
  <1>1. CASE MachineNext
    <2>1. Spills => spilled' \in BOOLEAN
      BY DEF Spills
    <2>3. ASSUME NEW n \in Sizes, Allocate(n) \/ AllocateFails(n) PROVE OwnInv'
      <3>1. CASE Allocate(n)
        BY <3>1, AllocateOwned
      <3>2. CASE AllocateFails(n)
        <4>1. spilled' \in BOOLEAN
          BY <3>2 DEF AllocateFails, OwnInv
        <4> QED
          BY <4>1, <3>2, AllocateFailsOwned
      <3> QED
        BY <2>3, <3>1, <3>2
    <2>4. ASSUME NEW n \in Locals, Enter(n) \/ EnterTrap(n), Spills PROVE OwnInv'
      BY <2>1, <2>4, EnterOwned
    <2>5. CASE CleanUp /\ Spills
      BY <2>1, <2>5, CleanUpOwned
    <2>6. CASE Free \/ Deallocate \/ OpenFile \/ CloseFile
      BY <2>6, FreeOwned, DeallocateOwned, OpenFileOwned, CloseFileOwned
    <2>7. CASE /\ cur = 0 /\ UNCHANGED <<heapVars, files>> /\ Spills
               /\ \/ Loading \/ Execute \/ ExecuteReturns \/ Resume
                  \/ CallModule \/ Return \/ ChangeDisk
                  \/ \E name \in Guests : CallProgram(name)
      BY <2>1, <2>7, AloneOwned
    <2> QED
      BY <1>1, <2>3, <2>4, <2>5, <2>6, <2>7, StepCases
  <1>2. CASE UNCHANGED machineVars
    <2>1. UNCHANGED <<vars, heapVars, files, spilled>>
      BY <1>2 DEF machineVars
    <2>2. Inv' /\ Now' = Now /\ Alive(progs') = Alive(progs)
      BY <2>1, SameVars
    <2>3. HP!RInv'
      <3>1. gs_S' \in Nat /\ HP!TypeOK
        BY <2>2 DEF OwnInv, Inv, TypeOK, HP!RInv, HP!IInv
      <3> QED
        BY <3>1, <2>1, HeapQuiet DEF OwnInv, heapVars, HP!TypeOK
    <2> QED
      BY <2>1, <2>2, <2>3 DEF OwnInv, InCall, Owned, Gone, vars, heapVars, HP!Blocks, HP!Live
  <1> QED
    BY <1>1, <1>2

-----------------------------------------------------------------------------
(* The memory map                                                          *)

DataEnd(e) == e.ofs + e.size

\* Data, and the stacks of the programs W that wait, end at or below h.
Under(t, ps, W, h) ==
  /\ \A i \in DOMAIN t : DataEnd(t[i]) <= h
  /\ \A k \in W : ps[k].S <= h

DataApart(t) ==
  \A i, j \in DOMAIN t : i # j => DataEnd(t[i]) <= t[j].ofs \/ DataEnd(t[j]) <= t[i].ofs

\* The stack of the program, up to s, begins at base, where its main module was entered.
StackFrom(p, base, s) ==
  /\ p.calls[1].S = base /\ base <= s
  /\ \A c \in DOMAIN p.calls : base <= p.calls[c].S

\* The stacks that wait lie between data, each above the ones before.
StacksApart(t, ps, W) ==
  \A k \in W :
    /\ StackFrom(ps[k], ps[k].data, ps[k].S)
    /\ \A i \in DOMAIN t : DataEnd(t[i]) <= ps[k].data \/ ps[k].S <= t[i].ofs
    /\ \A j \in W : k < j => ps[k].S <= ps[j].data

\* What was loaded before a program began to wait is below its stack.
Before(t, ps, W) ==
  \A k \in W : \A i \in DOMAIN t : i < ps[k].num => DataEnd(t[i]) <= ps[k].data

Unlinked == {"load", "scan", "fix"}
Growing == Unlinked \union {"start", "run"}

Mem ==
  /\ gs_S <= gs_H /\ data_top <= gs_H
  /\ Under(tab, progs, Waiting, gs_H)
  /\ DataApart(tab)
  /\ StacksApart(tab, progs, Waiting)
  /\ mode \in Growing => Under(tab, progs, Waiting, data_top)
  /\ (mode \in Unlinked /\ Doomed(tab)) \/ Before(tab, progs, Waiting)
  /\ mode = "run" => StackFrom(Now, data_top, gs_S)

MemInv == ~ spilled /\ mode # "error" => Mem

\* What ends below h ends below what is higher.
LEMMA UnderHigher ==
  ASSUME NEW t, NEW ps, NEW W, NEW h \in Int, NEW g \in Int, h <= g, Under(t, ps, W, h),
         \A i \in DOMAIN t : DataEnd(t[i]) \in Int, \A k \in W : ps[k].S \in Int
  PROVE  Under(t, ps, W, g)
  BY DEF Under

\* Entries and programs that go away, and those that stay where they are, disturb nothing.
LEMMA MapKept ==
  ASSUME NEW t, NEW u, NEW ps, NEW qs, NEW W, NEW V, V \subseteq W,
         DOMAIN u \subseteq DOMAIN t,
         \A i \in DOMAIN u : u[i].ofs = t[i].ofs /\ u[i].size = t[i].size,
         \A k \in V : qs[k] = ps[k]
  PROVE  /\ \A h : Under(t, ps, W, h) => Under(u, qs, V, h)
         /\ DataApart(t) => DataApart(u)
         /\ StacksApart(t, ps, W) => StacksApart(u, qs, V)
         /\ Before(t, ps, W) => Before(u, qs, V)
  <1>1. \A i \in DOMAIN u : i \in DOMAIN t /\ DataEnd(u[i]) = DataEnd(t[i])
    BY DEF DataEnd
  <1>2. ASSUME NEW h, Under(t, ps, W, h) PROVE Under(u, qs, V, h)
    BY <1>1, <1>2 DEF Under
  <1>3. ASSUME DataApart(t) PROVE DataApart(u)
    BY <1>1, <1>3 DEF DataApart
  <1>4. ASSUME StacksApart(t, ps, W) PROVE StacksApart(u, qs, V)
    BY <1>1, <1>4 DEF StacksApart
  <1>5. ASSUME Before(t, ps, W) PROVE Before(u, qs, V)
    BY <1>1, <1>5 DEF Before
  <1> QED
    BY <1>2, <1>3, <1>4, <1>5

\* Addresses are numbers.
LEMMA MapTypes ==
  ASSUME OwnInv
  PROVE  /\ TypeOK /\ gs_S \in Nat /\ gs_H \in Nat /\ data_top \in Nat
         /\ \A i \in DOMAIN tab : tab[i].ofs \in Nat /\ tab[i].size \in Nat /\ DataEnd(tab[i]) \in Nat
         /\ \A k \in DOMAIN progs : /\ progs[k].S \in Nat /\ progs[k].data \in Nat
                                    /\ progs[k].num \in Nat
         /\ Waiting \subseteq DOMAIN progs
  <1>1. TypeOK /\ HP!TypeOK
    BY DEF OwnInv, Inv, HP!RInv, HP!IInv
  <1>2. gs_S \in Nat /\ gs_H \in Nat /\ data_top \in Nat
    BY <1>1 DEF TypeOK, HP!TypeOK
  <1>3. \A i \in DOMAIN tab : tab[i].ofs \in Nat /\ tab[i].size \in Nat /\ DataEnd(tab[i]) \in Nat
    BY <1>1, NumType DEF DataEnd
  <1>4. \A k \in DOMAIN progs : progs[k] \in Program
    BY <1>1, NumType
  <1>5. Waiting \subseteq DOMAIN progs
    <2>1. DOMAIN progs = 1 .. Len(progs) /\ Len(progs) \in Nat
      BY <1>1, NumType
    <2> QED
      BY <2>1 DEF Waiting
  <1> QED
    BY <1>1, <1>2, <1>3, <1>4, <1>5 DEF Program

\* A step that only takes entries and programs away.
LEMMA MemKept ==
  ASSUME Mem, Waiting' \subseteq Waiting, \A k \in Waiting' : progs'[k] = progs[k],
         DOMAIN tab' \subseteq DOMAIN tab,
         \A i \in DOMAIN tab' : tab'[i].ofs = tab[i].ofs /\ tab'[i].size = tab[i].size,
         gs_H' = gs_H, gs_S' <= gs_H', data_top' <= gs_H',
         mode' \in Growing => mode \in Growing /\ data_top' = data_top,
         mode \in Unlinked /\ Doomed(tab) => mode' \in Unlinked /\ Doomed(tab'),
         mode' = "run" => StackFrom(Now', data_top', gs_S')
  PROVE  Mem'
  <1>1. /\ \A h : Under(tab, progs, Waiting, h) => Under(tab', progs', Waiting', h)
        /\ DataApart(tab) => DataApart(tab')
        /\ StacksApart(tab, progs, Waiting) => StacksApart(tab', progs', Waiting')
        /\ Before(tab, progs, Waiting) => Before(tab', progs', Waiting')
    BY MapKept
  <1>2. Under(tab', progs', Waiting', gs_H') /\ DataApart(tab') /\ StacksApart(tab', progs', Waiting')
    BY <1>1 DEF Mem
  <1>3. mode' \in Growing => Under(tab', progs', Waiting', data_top')
    BY <1>1 DEF Mem
  <1>4. (mode' \in Unlinked /\ Doomed(tab')) \/ Before(tab', progs', Waiting')
    BY <1>1 DEF Mem
  <1> QED
    BY <1>2, <1>3, <1>4 DEF Mem

\* Loading, but for the files that are read.
LEMMA LoadingMem ==
  ASSUME OwnInv, Complete, Mem, gs_H' = gs_H, gs_S' <= gs_H', data_top' <= gs_H',
         NotFound \/ Scan \/ ScanEnds \/ FixExtCalls
  PROVE  Mem'
  <1>1. Inv /\ TypeOK /\ DOMAIN tab = 1 .. Len(tab)
    BY NumType DEF OwnInv, Inv
  <1>2. mode \in Unlinked /\ mode \in Growing /\ progs' = progs /\ data_top' = data_top
    BY DEF NotFound, Scan, ScanEnds, FixExtCalls, Unlinked, Growing
  <1>3. mode' \notin {"run", "end"} /\ Waiting' = Waiting
    <2>1. mode' \notin {"run", "end"} /\ mode \notin {"run", "end"}
      BY <1>2 DEF NotFound, Scan, ScanEnds, FixExtCalls, Unlinked
    <2> QED
      BY <2>1, <1>2 DEF Waiting
  <1>4. /\ DOMAIN tab' = DOMAIN tab
        /\ \A i \in DOMAIN tab' : tab'[i].ofs = tab[i].ofs /\ tab'[i].size = tab[i].size
    <2>1. CASE FixExtCalls
      <3>1. tab' = [i \in DOMAIN tab |-> IF FixedNow(i) THEN [tab[i] EXCEPT !.fixed = TRUE] ELSE tab[i]]
        BY <2>1 DEF FixExtCalls
      <3>2. \A i \in DOMAIN tab : tab[i] \in Entry
        BY <1>1, NumType
      <3> QED
        BY <3>1, <3>2 DEF Entry
    <2>2. CASE tab' = tab
      BY <2>2
    <2> QED
      BY <2>1, <2>2 DEF NotFound, Scan, ScanEnds
  <1>5. Doomed(tab) => mode' \in Unlinked /\ Doomed(tab')
    <2>1. CASE NotFound
      <3>1. mode = "load" /\ \A f \in disk : f.file # want
        BY <2>1 DEF NotFound
      <3>2. CASE loads = <<>>
        <4>1. Len(tab) = first - 1 /\ Len(tab) \in Nat /\ first \in Nat
          BY <3>1, <3>2, <1>1, NumType DEF Inv, InLoad
        <4>2. \A i \in DOMAIN tab : i >= first => tab[i].loaded
          BY <4>1, <1>1
        <4> QED
          BY <4>2, <3>1, <1>1, FoundSoFar
      <3>3. CASE loads # <<>>
        <4>1. PICK i \in DOMAIN tab : ~ tab[i].loaded /\ tab[i].name = want
          BY <3>1, <3>3, <1>1 DEF Inv, InLoad
        <4>2. Known(disk, want)
          BY <4>1, <3>1, <1>1 DEF Inv, InLoad
        <4>3. PICK f \in disk : \E id \in ToSet(f.imports) : id.name = want
          BY <4>2 DEF Known
        <4>4. PICK id \in ToSet(f.imports) : id.name = want
          BY <4>3
        <4>5. \E g \in disk : g.file = id.name
          BY <4>4, <1>1 DEF Complete, TypeOK
        <4> QED
          BY <4>4, <4>5, <3>1
      <3> QED
        BY <3>2, <3>3
    <2>2. CASE Scan \/ ScanEnds
      <3>1. tab' = tab /\ mode' \in Unlinked
        BY <2>2 DEF Scan, ScanEnds, Unlinked
      <3> QED
        BY <3>1
    <2>3. CASE FixExtCalls
      <3>1. ~ Doomed(tab)
        BY <2>3, <1>1, FoundSoFar DEF FixExtCalls
      <3> QED
        BY <3>1
    <2> QED
      BY <2>1, <2>2, <2>3
  <1>6. \A k \in Waiting' : progs'[k] = progs[k]
    BY <1>2
  <1>7. mode' # "run"
    BY <1>3
  <1> QED
    BY <1>2, <1>3, <1>4, <1>5, <1>6, <1>7, MemKept

\* The data of a file go to data_top, above all that is there, and the entries that
\* wait have none.
LEMMA ParseMem ==
  ASSUME OwnInv, Complete, Mem, gs_H' = gs_H, gs_S' <= gs_H', data_top' <= gs_H', Parse
  PROVE  Mem'
  <1> DEFINE u == tab'
             W == Waiting
  <1>1. Inv /\ TypeOK /\ DOMAIN tab = 1 .. Len(tab) /\ Len(tab) \in Nat /\ first \in Nat
    BY NumType DEF OwnInv, Inv
  <1>2. /\ data_top \in Nat
        /\ \A i \in DOMAIN tab : tab[i].ofs \in Nat /\ tab[i].size \in Nat /\ DataEnd(tab[i]) \in Nat
        /\ \A k \in W : progs[k].S \in Nat /\ progs[k].data \in Nat /\ progs[k].num \in Nat
    BY MapTypes
  <1>3. mode = "load" /\ mode' = "scan" /\ progs' = progs
    BY DEF Parse
  <1>4. Waiting' = W
    BY <1>3 DEF Waiting
  <1>5. PICK f \in disk, e \in Nat :
          /\ f \in Files /\ Extends(tab, u, f, e)
          /\ data_top' = data_top + f.size /\ f.size \in Nat
          /\ ~ Doomed(tab) => first <= e
          /\ Doomed(tab) => Doomed(u)
    BY <1>1, ParseIs
  <1> HIDE DEF u, W
  <1>6. /\ DOMAIN u = 1 .. Len(u) /\ Len(u) \in Nat /\ u[e].ofs = data_top /\ u[e].size = f.size
        /\ \A i \in 1 .. Len(tab) : i # e => u[i] = tab[i]
        /\ \A i \in Len(tab) + 1 .. Len(u) : i # e => u[i].ofs = 0 /\ u[i].size = 0
    <2>1. u \in Seq(Entry)
      BY <1>5 DEF Extends
    <2> QED
      BY <2>1, <1>5 DEF Extends
  <1>7. /\ Under(tab, progs, W, data_top) /\ DataApart(tab) /\ StacksApart(tab, progs, W)
        /\ Doomed(tab) \/ Before(tab, progs, W)
    BY <1>3 DEF Mem, Growing, Unlinked, W
  <1>8. DataEnd(u[e]) = data_top'
    BY <1>5, <1>6 DEF DataEnd
  <1>9. ASSUME NEW i \in DOMAIN u, i # e
        PROVE  \/ i \in DOMAIN tab /\ u[i] = tab[i] /\ DataEnd(tab[i]) <= data_top
               \/ u[i].ofs = 0 /\ DataEnd(u[i]) = 0
    <2>1. CASE i \in 1 .. Len(tab)
      BY <2>1, <1>1, <1>6, <1>7, <1>9 DEF Under
    <2>2. CASE i \in Len(tab) + 1 .. Len(u)
      BY <2>2, <1>6, <1>9 DEF DataEnd
    <2> QED
      BY <2>1, <2>2, <1>1, <1>6
  <1>10. \A i \in DOMAIN u : i # e => DataEnd(u[i]) \in Nat /\ DataEnd(u[i]) <= data_top
    BY <1>2, <1>9
  <1>11. Under(u, progs, W, data_top')
    <2>1. \A i \in DOMAIN u : DataEnd(u[i]) <= data_top'
      BY <1>2, <1>5, <1>8, <1>10
    <2>2. \A k \in W : progs[k].S <= data_top'
      BY <1>2, <1>5, <1>7 DEF Under
    <2> QED
      BY <2>1, <2>2 DEF Under
  <1>12. Under(u, progs, W, gs_H')
    <2>1. data_top' \in Nat /\ gs_H' \in Nat
      BY <1>2, <1>5, MapTypes
    <2>2. \A i \in DOMAIN u : DataEnd(u[i]) \in Int
      BY <2>1, <1>8, <1>10
    <2> QED
      BY <2>1, <2>2, <1>2, <1>11, UnderHigher
  <1>13. DataApart(u)
    <2> SUFFICES ASSUME NEW i \in DOMAIN u, NEW j \in DOMAIN u, i # j
                 PROVE  DataEnd(u[i]) <= u[j].ofs \/ DataEnd(u[j]) <= u[i].ofs
      BY DEF DataApart
    <2>1. CASE i = e
      BY <2>1, <1>6, <1>10
    <2>2. CASE j = e
      BY <2>2, <1>6, <1>10
    <2>3. CASE i # e /\ j # e
      <3>1. CASE u[i].ofs = 0 /\ DataEnd(u[i]) = 0
        BY <3>1, <2>3, <1>2, <1>9
      <3>2. CASE u[j].ofs = 0 /\ DataEnd(u[j]) = 0
        BY <3>2, <2>3, <1>2, <1>9
      <3>3. CASE i \in DOMAIN tab /\ u[i] = tab[i] /\ j \in DOMAIN tab /\ u[j] = tab[j]
        BY <3>3, <1>7 DEF DataApart
      <3> QED
        BY <3>1, <3>2, <3>3, <2>3, <1>9
    <2> QED
      BY <2>1, <2>2, <2>3
  <1>14. StacksApart(u, progs, W)
    <2> SUFFICES ASSUME NEW k \in W
                 PROVE  \A i \in DOMAIN u : DataEnd(u[i]) <= progs[k].data \/ progs[k].S <= u[i].ofs
      BY <1>7 DEF StacksApart
    <2> TAKE i \in DOMAIN u
    <2>1. CASE i = e
      BY <2>1, <1>6, <1>7 DEF Under
    <2>2. CASE i # e
      BY <2>2, <1>2, <1>7, <1>9 DEF StacksApart
    <2> QED
      BY <2>1, <2>2
  <1>15. Doomed(u) \/ Before(u, progs, W)
    <2> SUFFICES ASSUME ~ Doomed(tab), NEW k \in W, NEW i \in DOMAIN u, i < progs[k].num
                 PROVE  DataEnd(u[i]) <= progs[k].data
      BY <1>5 DEF Before
    <2>1. first <= e /\ Before(tab, progs, W) /\ Waits(tab, progs, Len(progs), first - 1)
          /\ first <= Len(tab) + 1
      BY <1>1, <1>3, <1>5, <1>7 DEF Inv, InLoad
    <2>2. k \in 1 .. Len(progs)
      BY <1>3 DEF W, Waiting
    <2>3. progs[k].num - 1 <= first - 1
      BY <2>1, <2>2 DEF Waits
    <2>4. i \in DOMAIN tab /\ i # e
      <3>1. progs[k].num \in Nat /\ first \in Int /\ Len(tab) \in Nat /\ DOMAIN tab = 1 .. Len(tab)
        BY <1>1, <1>2
      <3>2. i \in Nat /\ 1 <= i
        BY <1>6
      <3>3. i < first
        BY <3>1, <3>2, <2>3
      <3> QED
        BY <3>1, <3>2, <3>3, <2>1
    <2> QED
      BY <2>1, <2>4, <1>1, <1>6 DEF Before
  <1> QED
    BY <1>3, <1>4, <1>11, <1>12, <1>13, <1>14, <1>15 DEF Mem, Growing, Unlinked, u

\* The program that calls another one leaves its stack below that of the other.
LEMMA CallProgramMem ==
  ASSUME OwnInv, OwnInv', Mem, gs_H' = gs_H, gs_S' <= gs_H', data_top' <= gs_H',
         NEW name \in Guests, CallProgram(name)
  PROVE  Mem'
  <1> DEFINE L == Len(progs)
  <1>1. /\ TypeOK /\ TypeOK' /\ mode = "run" /\ mode' = "load" /\ tab' = tab
        /\ gs_S' = gs_S /\ data_top' = gs_S /\ progs # <<>>
    BY DEF OwnInv, Inv, TypeOK, CallProgram
  <1>2. /\ L \in Nat /\ L # 0 /\ Now = progs[L] /\ DOMAIN tab = 1 .. Len(tab) /\ Len(tab) \in Nat
        /\ Now.calls \in Seq(Frame)
    <2>1. /\ L \in Nat /\ L # 0 /\ Now = progs[L] /\ DOMAIN tab = 1 .. Len(tab) /\ Len(tab) \in Nat
      BY <1>1, NumType
    <2>2. Now \in Program
      BY <2>1, <1>1, NumType
    <2> QED
      BY <2>1, <2>2 DEF Program
  <1>3. /\ Len(progs') = L /\ \A k \in 1 .. L - 1 : progs'[k] = progs[k]
        /\ progs'[L].calls = Now.calls
        /\ progs'[L].S = gs_S /\ progs'[L].data = data_top /\ progs'[L].num = Len(tab) + 1
    BY <1>1, CallProgramIs DEF TopChanges
  <1> HIDE DEF L
  <1>4. Waiting = 1 .. L - 1 /\ Waiting' = 1 .. L
    BY <1>1, <1>3 DEF Waiting, L
  <1>5. /\ gs_S \in Nat /\ gs_H \in Nat /\ data_top \in Nat
        /\ \A i \in DOMAIN tab : tab[i].ofs \in Nat /\ DataEnd(tab[i]) \in Nat
        /\ \A k \in 1 .. L - 1 : progs[k].S \in Nat
    BY <1>4, MapTypes
  <1>6. /\ StackFrom(Now, data_top, gs_S) /\ data_top <= gs_S /\ gs_S <= gs_H
        /\ \A i \in DOMAIN tab : DataEnd(tab[i]) <= data_top
        /\ \A k \in 1 .. L - 1 : progs[k].S <= data_top
        /\ DataApart(tab) /\ StacksApart(tab, progs, 1 .. L - 1) /\ Before(tab, progs, 1 .. L - 1)
    BY <1>1, <1>4 DEF Mem, Growing, Unlinked, Under, StackFrom
  <1>7. ASSUME NEW k \in 1 .. L PROVE k \in 1 .. L - 1 \/ k = L
    BY <1>2
  <1>8. /\ \A i \in DOMAIN tab : DataEnd(tab[i]) <= gs_S
        /\ \A k \in 1 .. L : progs'[k].S <= gs_S
    BY <1>3, <1>5, <1>6, <1>7
  <1>9. Under(tab, progs', 1 .. L, gs_S) /\ Under(tab, progs', 1 .. L, gs_H)
    <2>1. \A k \in 1 .. L : progs'[k].S \in Int
      BY <1>3, <1>5, <1>7
    <2>2. Under(tab, progs', 1 .. L, gs_S)
      BY <1>8 DEF Under
    <2>3. gs_S \in Int /\ gs_H \in Int /\ gs_S <= gs_H /\ \A i \in DOMAIN tab : DataEnd(tab[i]) \in Int
      BY <1>5, <1>6
    <2>4. Under(tab, progs', 1 .. L, gs_H)
      BY <2>1, <2>2, <2>3, UnderHigher
    <2> QED
      BY <2>2, <2>4
  <1>10. StacksApart(tab, progs', 1 .. L)
    <2>1. StackFrom(progs'[L], data_top, gs_S)
      BY <1>3, <1>6 DEF StackFrom
    <2> SUFFICES ASSUME NEW k \in 1 .. L
                 PROVE  /\ StackFrom(progs'[k], progs'[k].data, progs'[k].S)
                        /\ \A i \in DOMAIN tab : DataEnd(tab[i]) <= progs'[k].data
                                                 \/ progs'[k].S <= tab[i].ofs
                        /\ \A j \in 1 .. L : k < j => progs'[k].S <= progs'[j].data
      BY DEF StacksApart
    <2>2. CASE k = L
      <3>1. \A j \in 1 .. L : ~ (k < j)
        BY <2>2, <1>2
      <3> QED
        BY <2>1, <2>2, <3>1, <1>3, <1>6
    <2>3. CASE k \in 1 .. L - 1
      <3>1. \A j \in 1 .. L : k < j => progs[k].S <= progs'[j].data
        BY <2>3, <1>3, <1>6, <1>7 DEF StacksApart
      <3> QED
        BY <2>3, <3>1, <1>3, <1>6 DEF StacksApart
    <2> QED
      BY <2>2, <2>3, <1>7
  <1>11. Before(tab, progs', 1 .. L)
    BY <1>3, <1>6, <1>7 DEF Before
  <1>12. mode' \in Growing /\ mode' # "run" /\ mode' # "error"
    BY <1>1 DEF Growing, Unlinked
  <1> QED
    BY <1>1, <1>4, <1>6, <1>9, <1>10, <1>11, <1>12 DEF Mem

\* The running program calls or leaves a procedure, or its stack grows.
LEMMA RunMem ==
  ASSUME OwnInv, OwnInv', Mem, gs_H' = gs_H, gs_S' <= gs_H', mode = "run", mode' \in {"run", "end"},
         UNCHANGED <<tab, data_top>>, Len(progs') = Len(progs),
         \A k \in 1 .. Len(progs) - 1 : progs'[k] = progs[k],
         mode' = "run" => StackFrom(Now', data_top, gs_S')
  PROVE  Mem'
  <1>1. Waiting = 1 .. Len(progs) - 1 /\ Waiting' = Waiting
    BY DEF Waiting
  <1>2. data_top' <= gs_H'
    BY DEF Mem
  <1>3. mode' \in Growing => mode \in Growing
    BY DEF Growing
  <1>4. mode \notin Unlinked
    BY DEF Unlinked
  <1> QED
    BY <1>1, <1>2, <1>3, <1>4, MemKept

\* CLX pushes a mark on the stack.
LEMMA CallModuleMem ==
  ASSUME OwnInv, OwnInv', Mem, gs_H' = gs_H, gs_S' <= gs_H', CallModule
  PROVE  Mem'
  <1>1. TypeOK /\ TypeOK' /\ mode = "run" /\ gs_S' = gs_S + 4 /\ UNCHANGED <<tab, data_top>>
        /\ progs # <<>> /\ progs' # <<>> /\ Now.calls # <<>> /\ mode' \in {"run", "end"}
    <2>1. TypeOK /\ TypeOK' /\ mode = "run" /\ gs_S' = gs_S + 4 /\ UNCHANGED <<tab, data_top>>
          /\ mode' \in {"run", "undefined"} /\ mode' # "undefined"
      BY DEF OwnInv, Inv, Defined, CallModule
    <2> QED
      BY <2>1 DEF TypeOK
  <1>2. PICK m : progs'[Len(progs)].calls = Append(Now.calls, [mod |-> m, S |-> gs_S])
    BY <1>1, CallModuleIs
  <1>3. Len(progs') = Len(progs) /\ \A k \in 1 .. Len(progs) - 1 : progs'[k] = progs[k]
    BY <1>1, CallModuleIs DEF TopChanges
  <1>4. Now' = progs'[Len(progs)]
    BY <1>3 DEF Now, Last
  <1>5. Now.calls \in Seq(Frame) /\ Len(Now.calls) >= 1
    <2>1. Now \in Program
      BY <1>1, NumType
    <2>2. Now.calls \in Seq(Frame)
      BY <2>1 DEF Program
    <2> QED
      BY <2>2, <1>1
  <1>6. gs_S \in Nat /\ data_top \in Nat /\ StackFrom(Now, data_top, gs_S)
    BY <1>1, MapTypes DEF Mem
  <1>7. StackFrom(Now', data_top, gs_S')
    <2> DEFINE new == [mod |-> m, S |-> gs_S]
               calls == Append(Now.calls, new)
    <2>1. new.S = gs_S
      OBVIOUS
    <2> HIDE DEF new
    <2>2. /\ DOMAIN calls = 1 .. Len(Now.calls) + 1 /\ calls[Len(Now.calls) + 1] = new
          /\ \A c \in 1 .. Len(Now.calls) : calls[c] = Now.calls[c]
          /\ DOMAIN Now.calls = 1 .. Len(Now.calls) /\ Len(Now.calls) \in Nat
      BY <1>5
    <2>3. Now'.calls = calls
      BY <1>2, <1>4 DEF new
    <2> HIDE DEF calls
    <2>4. \A c \in 1 .. Len(Now.calls) : data_top <= Now.calls[c].S
      BY <2>2, <1>6 DEF StackFrom
    <2>5. \A c \in DOMAIN calls : data_top <= calls[c].S
      <3> SUFFICES ASSUME NEW c \in DOMAIN calls PROVE data_top <= calls[c].S
        OBVIOUS
      <3>1. c \in 1 .. Len(Now.calls) \/ c = Len(Now.calls) + 1
        BY <2>2
      <3> QED
        BY <3>1, <2>1, <2>2, <2>4, <1>6 DEF StackFrom
    <2>6. calls[1].S = data_top
      <3>1. 1 \in 1 .. Len(Now.calls)
        BY <1>5
      <3> QED
        BY <3>1, <2>2, <1>6 DEF StackFrom
    <2>7. data_top <= gs_S'
      BY <1>1, <1>6 DEF StackFrom
    <2> QED
      BY <2>3, <2>5, <2>6, <2>7 DEF StackFrom
  <1> QED
    BY <1>1, <1>3, <1>7, RunMem

\* RTN pops what ENTR and CLX pushed, down to where the program began.
LEMMA ReturnMem ==
  ASSUME OwnInv, OwnInv', Mem, gs_H' = gs_H, gs_S' <= gs_H', Return
  PROVE  Mem'
  <1>1. /\ TypeOK /\ TypeOK' /\ mode = "run" /\ gs_S' = Last(Now.calls).S
        /\ UNCHANGED <<tab, data_top>> /\ progs # <<>> /\ Now.calls # <<>>
        /\ mode' \in {"run", "end"} /\ (mode' = "run" => Len(Now.calls) > 1)
    BY DEF OwnInv, Inv, TypeOK, Return
  <1>2. Len(progs') = Len(progs) /\ \A k \in 1 .. Len(progs) - 1 : progs'[k] = progs[k]
    BY <1>1, ReturnIs DEF TopChanges
  <1>3. Now'.calls = Front(Now.calls)
    BY <1>1, <1>2, ReturnIs DEF Now, Last
  <1>4. Now.calls \in Seq(Frame)
    <2>1. Now \in Program
      BY <1>1, NumType
    <2> QED
      BY <2>1 DEF Program
  <1>5. StackFrom(Now, data_top, gs_S)
    BY <1>1 DEF Mem
  <1>6. /\ Len(Now.calls) \in DOMAIN Now.calls /\ Last(Now.calls) = Now.calls[Len(Now.calls)]
        /\ Len(Front(Now.calls)) = Len(Now.calls) - 1
        /\ \A c \in 1 .. Len(Now.calls) - 1 : Front(Now.calls)[c] = Now.calls[c]
        /\ Front(Now.calls) \in Seq(Frame)
    BY <1>1, <1>4, FrontIs
  <1>7. data_top <= gs_S'
    BY <1>1, <1>5, <1>6 DEF StackFrom
  <1>8. mode' = "run" => StackFrom(Now', data_top, gs_S')
    <2> SUFFICES ASSUME Len(Now.calls) > 1 PROVE StackFrom(Now', data_top, gs_S')
      BY <1>1
    <2>1. /\ DOMAIN Front(Now.calls) = 1 .. Len(Now.calls) - 1
          /\ DOMAIN Now.calls = 1 .. Len(Now.calls) /\ Len(Now.calls) \in Nat
      BY <1>4, <1>6
    <2>2. 1 \in 1 .. Len(Now.calls) - 1
      BY <2>1
    <2>3. \A c \in 1 .. Len(Now.calls) - 1 : c \in 1 .. Len(Now.calls)
      BY <2>1
    <2> QED
      BY <2>1, <2>2, <2>3, <1>3, <1>5, <1>6, <1>7 DEF StackFrom
  <1> QED
    BY <1>1, <1>2, <1>8, RunMem

\* A program starts on top of what is loaded.
LEMMA ExecuteMem ==
  ASSUME OwnInv, OwnInv', Mem, gs_H' = gs_H, gs_S' <= gs_H', Execute
  PROVE  Mem'
  <1>1. /\ TypeOK /\ TypeOK' /\ mode = "start" /\ mode' = "run" /\ gs_S' = data_top + 4
        /\ UNCHANGED <<tab, data_top>>
    BY DEF OwnInv, Inv, Defined, Execute
  <1>2. Len(progs) \in Nat /\ data_top \in Nat
    BY <1>1, NumType, MapTypes
  <1>3. /\ Len(progs') = Len(progs) + 1 /\ \A k \in 1 .. Len(progs) : progs'[k] = progs[k]
        /\ progs'[Len(progs) + 1].calls = <<[mod |-> first, S |-> data_top]>>
    BY <1>1, ExecuteIs
  <1>4. Waiting = 1 .. Len(progs) /\ Waiting' = Waiting
    BY <1>1, <1>2, <1>3 DEF Waiting
  <1>5. Now'.calls = <<[mod |-> first, S |-> data_top]>>
    BY <1>3 DEF Now, Last
  <1>6. StackFrom(Now', data_top', gs_S')
    BY <1>1, <1>2, <1>5 DEF StackFrom
  <1>7. mode \in Growing /\ mode \notin Unlinked /\ data_top' <= gs_H'
    BY <1>1 DEF Growing, Unlinked, Mem
  <1> QED
    BY <1>1, <1>3, <1>4, <1>6, <1>7, MemKept

\* A program has ended.
LEMMA ExecuteReturnsMem ==
  ASSUME OwnInv, OwnInv', Mem, gs_H' = gs_H, gs_S' <= gs_H', ExecuteReturns
  PROVE  Mem'
  <1>1. /\ TypeOK /\ mode = "end" /\ mode' \in {"done", "resume"} /\ UNCHANGED <<tab, data_top>>
    BY DEF OwnInv, Inv, ExecuteReturns
  <1>2. Len(progs') = Len(progs) - 1 /\ \A k \in 1 .. Len(progs) - 1 : progs'[k] = progs[k]
    BY <1>1, ExecuteReturnsIs
  <1>3. Waiting = 1 .. Len(progs) - 1 /\ Waiting' = Waiting
    BY <1>1, <1>2 DEF Waiting
  <1>4. mode' \notin Growing /\ mode \notin Unlinked /\ mode' # "run" /\ data_top' <= gs_H'
    BY <1>1 DEF Growing, Unlinked, Mem
  <1> QED
    BY <1>1, <1>2, <1>3, <1>4, MemKept

\* The program that waited on top gets its stack back, above all that is left.
LEMMA ResumeMem ==
  ASSUME OwnInv, OwnInv', Mem, gs_H' = gs_H, gs_S' <= gs_H', data_top' <= gs_H', Resume
  PROVE  Mem'
  <1> DEFINE L == Len(progs)
  <1>1. /\ Inv /\ TypeOK /\ mode \in {"resume", "failed"} /\ mode' = "run" /\ progs # <<>>
        /\ gs_S' = data_top /\ data_top' = Now.data /\ UNCHANGED <<tab, progs>>
    BY DEF OwnInv, Inv, TypeOK, Resume
  <1>2. /\ L \in Nat /\ L # 0 /\ Now = progs[L] /\ DOMAIN tab = 1 .. Len(tab) /\ Len(tab) \in Nat
    BY <1>1, NumType
  <1> HIDE DEF L
  <1>3. Waiting = 1 .. L /\ Waiting' = 1 .. L - 1 /\ Now' = Now
    BY <1>1 DEF Waiting, L, Now
  <1>4. Waits(tab, progs, L, Len(tab)) /\ data_top = Floor(progs, L + 1)
    BY <1>1 DEF Inv, InResume, L
  <1>5. /\ Under(tab, progs, 1 .. L, gs_H) /\ DataApart(tab) /\ StacksApart(tab, progs, 1 .. L)
        /\ Before(tab, progs, 1 .. L)
    <2>1. mode \notin Unlinked
      BY <1>1 DEF Unlinked
    <2> QED
      BY <2>1, <1>3 DEF Mem
  <1>6. L \in 1 .. L /\ 1 .. L - 1 \subseteq 1 .. L
    BY <1>2
  <1>7. progs[L].num = Len(tab) + 1 /\ data_top = progs[L].S
    BY <1>2, <1>4, <1>6 DEF Waits, Floor
  <1>8. StackFrom(Now', data_top', gs_S')
    BY <1>1, <1>2, <1>3, <1>5, <1>6, <1>7 DEF StacksApart
  <1>9. /\ Under(tab, progs, 1 .. L - 1, gs_H) /\ StacksApart(tab, progs, 1 .. L - 1)
        /\ Before(tab, progs, 1 .. L - 1)
    <2> DEFINE V == 1 .. L - 1
               W == 1 .. L
    <2>1. V \subseteq W
      BY <1>6
    <2> HIDE DEF V, W
    <2>2. /\ \A h : Under(tab, progs, W, h) => Under(tab, progs, V, h)
          /\ StacksApart(tab, progs, W) => StacksApart(tab, progs, V)
          /\ Before(tab, progs, W) => Before(tab, progs, V)
      BY <2>1, MapKept
    <2> QED
      BY <2>2, <1>5 DEF V, W
  <1>10. Under(tab, progs, 1 .. L - 1, data_top')
    <2>1. \A i \in DOMAIN tab : DataEnd(tab[i]) <= progs[L].data
      BY <1>2, <1>5, <1>6, <1>7 DEF Before
    <2>2. \A k \in 1 .. L - 1 : progs[k].S <= progs[L].data
      BY <1>2, <1>5, <1>6 DEF StacksApart
    <2> QED
      BY <2>1, <2>2, <1>1, <1>2 DEF Under
  <1> QED
    BY <1>1, <1>3, <1>5, <1>8, <1>9, <1>10 DEF Mem, Growing

\* A module is unloaded.
LEMMA CleanUpMem ==
  ASSUME OwnInv, OwnInv', Mem, gs_S' <= gs_H', data_top' <= gs_H', CleanUp
  PROVE  Mem'
  <1>1. /\ TypeOK /\ mode = "end" /\ mode' \in {"end", "undefined"} /\ mode' # "undefined"
        /\ tab' = Front(tab) /\ progs' = progs /\ gs_H' = gs_H /\ tab \in Seq(Entry)
    BY DEF OwnInv, Inv, Defined, TypeOK, CleanUp, UnloadTop, H!FreeAllCall
  <1>2. tab # <<>>
    <2>1. Len(tab) >= Now.exec /\ Now.exec \in 1 .. ModTabMax
      <3>1. progs # <<>>
        BY <1>1 DEF TypeOK
      <3>2. Now \in Program
        BY <3>1, <1>1, NumType
      <3> QED
        BY <3>2 DEF CleanUp, UnloadTop, Stays, Program
    <2> QED
      BY <2>1, <1>1, BoundAssumption
  <1>3. /\ Len(tab') = Len(tab) - 1 /\ tab' \in Seq(Entry)
        /\ \A i \in 1 .. Len(tab) - 1 : tab'[i] = tab[i]
    BY <1>1, <1>2, FrontIs
  <1>4. /\ DOMAIN tab' = 1 .. Len(tab) - 1 /\ DOMAIN tab' \subseteq DOMAIN tab
    BY <1>1, <1>3
  <1>5. Waiting' = Waiting
    BY <1>1 DEF Waiting
  <1>6. mode' \notin Growing /\ mode \notin Unlinked /\ mode' # "run"
    BY <1>1 DEF Growing, Unlinked
  <1> QED
    BY <1>1, <1>3, <1>4, <1>5, <1>6, MemKept

\* What the guests do with blocks, and the loops that release them: the heap grows
\* downwards no further than the stack.
LEMMA HeapMem ==
  ASSUME OwnInv, OwnInv', Mem, UNCHANGED vars,
         (mode = "run" /\ gs_S <= gs_H') \/ gs_H <= gs_H'
  PROVE  Mem'
  <1>1. /\ gs_S \in Nat /\ gs_H \in Nat /\ data_top \in Nat
        /\ \A i \in DOMAIN tab : DataEnd(tab[i]) \in Int
        /\ \A k \in Waiting : progs[k].S \in Int
    BY MapTypes
  <1>2. gs_H' \in Nat
    BY DEF OwnInv, HP!RInv, HP!IInv, HP!TypeOK
  <1>3. /\ Waiting' = Waiting /\ Now' = Now
        /\ UNCHANGED <<tab, data_top, gs_S, mode, progs>>
    BY DEF vars, Waiting, Now
  <1>4. gs_S <= gs_H' /\ data_top <= gs_H' /\ Under(tab, progs, Waiting, gs_H')
    <2>1. CASE mode = "run" /\ gs_S <= gs_H'
      <3>1. Under(tab, progs, Waiting, data_top) /\ data_top <= gs_S
        BY <2>1 DEF Mem, Growing, StackFrom
      <3>2. data_top <= gs_H'
        BY <2>1, <3>1, <1>1, <1>2
      <3> QED
        BY <2>1, <3>1, <3>2, <1>1, <1>2, UnderHigher
    <2>2. CASE gs_H <= gs_H'
      <3>1. Under(tab, progs, Waiting, gs_H) /\ gs_S <= gs_H /\ data_top <= gs_H
        BY DEF Mem
      <3> QED
        BY <2>2, <3>1, <1>1, <1>2, UnderHigher
    <2> QED
      BY <2>1, <2>2
  <1> QED
    BY <1>3, <1>4 DEF Mem

\* Every step of Programs.
LEMMA AloneMem ==
  ASSUME OwnInv, OwnInv', Complete, Mem, gs_H' = gs_H, gs_S' <= gs_H', data_top' <= gs_H',
         mode' # "error",
         \/ Loading \/ Execute \/ ExecuteReturns \/ Resume
         \/ CallModule \/ Return \/ ChangeDisk
         \/ \E name \in Guests : CallProgram(name)
  PROVE  Mem'
  <1>1. CASE Loading
    <2>1. ~ ParseError /\ ~ FixError
      BY DEF ParseError, FixError
    <2> QED
      BY <2>1, <1>1, LoadingMem, ParseMem DEF Loading
  <1>2. CASE ChangeDisk
    <2>1. /\ mode = "run" /\ UNCHANGED <<tab, data_top, gs_S, mode, progs>>
      BY <1>2 DEF ChangeDisk
    <2>2. StackFrom(Now', data_top, gs_S')
      BY <2>1 DEF Mem, Now
    <2> QED
      BY <2>1, <2>2, RunMem
  <1>3. CASE Execute \/ ExecuteReturns \/ Resume \/ CallModule \/ Return
    BY <1>3, ExecuteMem, ExecuteReturnsMem, ResumeMem, CallModuleMem, ReturnMem
  <1>4. CASE \E name \in Guests : CallProgram(name)
    BY <1>4, CallProgramMem
  <1> QED
    BY <1>1, <1>2, <1>3, <1>4

\* A frame is made where there is room for it, as seen from the end of the memory.
LEMMA EnterMem ==
  ASSUME OwnInv, OwnInv', Mem, gs_S' <= gs_H', mode' # "error",
         NEW n \in Locals, Enter(n) \/ EnterTrap(n)
  PROVE  Mem'
  <1>1. /\ mode = "run" /\ gs_S' = gs_S + n /\ UNCHANGED <<tab, data_top, progs, mode>> /\ gs_H' = gs_H
    BY DEF Enter, EnterTrap, Asks, heapVars
  <1>2. gs_S \in Nat /\ n \in Nat /\ data_top \in Nat /\ StackFrom(Now, data_top, gs_S)
    BY <1>1, RequestAssumption, MapTypes DEF Mem
  <1>3. StackFrom(Now', data_top, gs_S')
    BY <1>1, <1>2 DEF StackFrom, Now
  <1> QED
    BY <1>1, <1>3, RunMem

\* At first nothing is in use.
LEMMA MemInit ==
  ASSUME MachineInit
  PROVE  MemInv
  <1>1. /\ tab = <<>> /\ progs = <<>> /\ mode = "load" /\ data_top = 0 /\ gs_S = 0
        /\ gs_H = MemSize - 1
    BY DEF MachineInit, Init, H!Nil
  <1>2. DOMAIN tab = {} /\ Waiting = {}
    BY <1>1 DEF Waiting
  <1>3. gs_H >= 0
    BY <1>1, MemorySizeAssumption
  <1> QED
    BY <1>1, <1>2, <1>3 DEF MemInv, Mem, Under, DataApart, StacksApart, Before

\* Every step that does not spill keeps the memory map.
LEMMA MemStep ==
  ASSUME OwnInv, OwnInv', MemInv, Complete, [MachineNext]_machineVars
  PROVE  MemInv'
  <1> SUFFICES ASSUME ~ spilled', mode' # "error" PROVE Mem'
    BY DEF MemInv
  <1>1. CASE MachineNext
    <2>1. ~ spilled
      BY <1>1, StepCases
    <2>2. mode # "error"
      BY <1>1, StepCases
      DEF Loading, NotFound, Parse, ParseError, Scan, ScanEnds, FixExtCalls, FixError, Execute,
          ExecuteReturns, Resume, CallModule, Return, ChangeDisk, CallProgram, CleanUp, UnloadTop,
          Free, vars, Allocate, AllocateFails, Deallocate, OpenFile, CloseFile, Enter, EnterTrap,
          Asks
    <2>3. Mem
      BY <2>1, <2>2 DEF MemInv
    <2>4. gs_S \in Nat /\ gs_H \in Nat /\ data_top \in Nat
          /\ gs_S' \in Nat /\ gs_H' \in Nat /\ data_top' \in Nat
      BY MapTypes DEF OwnInv, Inv, TypeOK, HP!RInv, HP!IInv, HP!TypeOK
    <2>5. Spills => gs_S' <= gs_H' /\ data_top' <= gs_H'
      <3>1. Spills => ~ (gs_S' > gs_H') /\ ~ (data_top' > gs_H')
        BY Zenon DEF Spills
      <3> QED
        BY <3>1, <2>4
    <2>6. CASE /\ cur = 0 /\ UNCHANGED <<heapVars, files>> /\ Spills
               /\ \/ Loading \/ Execute \/ ExecuteReturns \/ Resume
                  \/ CallModule \/ Return \/ ChangeDisk
                  \/ \E name \in Guests : CallProgram(name)
      BY <2>3, <2>5, <2>6, AloneMem DEF heapVars
    <2>7. CASE CleanUp /\ Spills
      BY <2>3, <2>5, <2>7, CleanUpMem
    <2>8. CASE Free
      <3>1. UNCHANGED vars /\ HP!FreeLoop
        BY <2>8, HeapFree DEF Free
      <3>2. gs_H <= gs_H'
        BY <3>1, HeapAssumptions, HP!LoopRaises DEF OwnInv
      <3> QED
        BY <3>1, <3>2, <2>3, HeapMem
    <2>9. ASSUME NEW n \in Sizes, Allocate(n) PROVE Mem'
      <3>1. UNCHANGED vars /\ mode = "run" /\ (H!AllocGap(Owner, n) \/ H!AllocExtend(Owner, n))
        BY <2>9 DEF Allocate, Asks
      <3>2. CASE H!AllocGap(Owner, n)
        <4>1. gs_H' = gs_H
          BY <3>2 DEF H!AllocGap
        <4> QED
          BY <4>1, <3>1, <2>3, <2>4, HeapMem
      <3>3. CASE H!AllocExtend(Owner, n)
        <4>1. gs_H - gs_S > H!Rounded(n) /\ gs_H' = gs_H - H!Rounded(n)
          BY <3>3 DEF H!AllocExtend
        <4>2. H!Rounded(n) \in Nat
          BY RequestAssumption DEF H!Rounded
        <4>3. gs_S <= gs_H'
          BY <4>1, <4>2, <2>4
        <4> QED
          BY <4>3, <3>1, <2>3, HeapMem
      <3> QED
        BY <3>1, <3>2, <3>3
    <2>10. ASSUME NEW n \in Sizes PROVE ~ AllocateFails(n)
      BY DEF AllocateFails
    <2>11. CASE Deallocate \/ OpenFile \/ CloseFile
      <3>1. UNCHANGED vars /\ gs_H' = gs_H
        BY <2>11 DEF Deallocate, OpenFile, CloseFile, heapVars, H!FreeCall
      <3> QED
        BY <3>1, <2>3, <2>4, HeapMem
    <2>12. ASSUME NEW n \in Locals, Enter(n) \/ EnterTrap(n), Spills PROVE Mem'
      BY <2>3, <2>5, <2>12, EnterMem
    <2> QED
      BY <1>1, <2>6, <2>7, <2>8, <2>9, <2>10, <2>11, <2>12, StepCases
  <1>2. CASE UNCHANGED machineVars
    <2>1. UNCHANGED vars /\ UNCHANGED <<gs_H, spilled>>
      BY <1>2 DEF machineVars, heapVars
    <2>2. Mem /\ gs_H \in Nat
      BY <2>1, MapTypes DEF MemInv, vars
    <2> QED
      BY <2>1, <2>2, HeapMem
  <1> QED
    BY <1>1, <1>2

\* Blocks share no word.
LEMMA BlocksApart ==
  ASSUME HP!RInv, NEW i \in HP!Live, NEW j \in HP!Live, i # j
  PROVE  heap[i].adr + heap[i].sz <= heap[j].adr \/ heap[j].adr + heap[j].sz <= heap[i].adr
  <1>1. \A m, k \in 1 .. Len(heap) : m < k => heap[k].adr + heap[k].sz <= heap[m].adr
    BY DEF HP!RInv, HP!IInv, HP!Descending
  <1>2. i \in 1 .. Len(heap) /\ j \in 1 .. Len(heap)
    BY DEF HP!Live
  <1>3. i < j \/ j < i
    BY <1>2
  <1> QED
    BY <1>1, <1>2, <1>3

\* Data end where stacks begin, and stacks end where blocks begin.
LEMMA MapOfMem ==
  ASSUME OwnInv, Mem
  PROVE  MemoryMap
  <1> DEFINE Data(i) == [of |-> <<"data", i>>, lo |-> tab[i].ofs, hi |-> tab[i].ofs + tab[i].size]
             Stack(k) == [of |-> <<"stack", k>>, lo |-> progs[k].calls[1].S, hi |-> progs[k].S]
             Top == [of |-> <<"stack", Len(progs)>>, lo |-> Now.calls[1].S, hi |-> gs_S]
             Heap(i) == [of |-> <<"block", i>>, lo |-> heap[i].adr, hi |-> heap[i].adr + heap[i].sz]
             Clear(a, b) == a.hi <= b.lo \/ b.hi <= a.lo
  <1>1. /\ gs_S \in Nat /\ gs_H \in Nat /\ data_top \in Nat
        /\ \A i \in DOMAIN tab : tab[i].ofs \in Nat /\ tab[i].size \in Nat
        /\ \A k \in Waiting : progs[k].S \in Nat /\ progs[k].data \in Nat
    BY MapTypes
  <1>2. /\ DataApart(tab) /\ StacksApart(tab, progs, Waiting) /\ Under(tab, progs, Waiting, gs_H)
        /\ gs_S <= gs_H
        /\ mode = "run" => Under(tab, progs, Waiting, data_top) /\ StackFrom(Now, data_top, gs_S)
    BY DEF Mem, Growing
  <1>3. \A i \in DOMAIN tab : /\ Data(i).lo = tab[i].ofs /\ Data(i).hi = DataEnd(tab[i])
                              /\ Data(i).lo \in Nat /\ Data(i).hi \in Nat
    BY <1>1 DEF DataEnd
  <1>4. \A k \in Waiting : Stack(k).lo = progs[k].data /\ Stack(k).hi = progs[k].S
    BY <1>2 DEF StacksApart, StackFrom
  <1>5. mode = "run" => Top.lo = data_top /\ Top.hi = gs_S
    BY <1>2 DEF StackFrom
  <1>6. \A i \in H!Live : /\ Heap(i).lo = heap[i].adr /\ Heap(i).hi = heap[i].adr + heap[i].sz
    OBVIOUS
  <1>7. ASSUME NEW i \in H!Live
        PROVE  /\ i \in HP!Live
               /\ heap[i].adr \in Nat /\ heap[i].sz \in Nat
               /\ gs_H <= heap[i].adr /\ heap[i].adr + heap[i].sz <= MemSize
    <2>1. i \in HP!Live /\ heap[i] \in HP!Blocks
      BY DEF HP!Live, H!Live, HP!FREE, H!FREE, HP!Blocks
    <2> QED
      BY <2>1, BlocksInside DEF OwnInv
  <1>8. gs_H <= MemSize
    <2>1. HP!IInv /\ HP!Good(heap)
      BY HeapAssumptions, HP!InvGood DEF OwnInv, HP!RInv
    <2>2. Len(heap) \in Nat \ {0} /\ heap[1].adr = MemSize - 1
      BY <2>1, HeapAssumptions, HP!GoodList DEF HP!Good, HP!Tiles, HP!HeapTop, HP!Nil
    <2>3. 1 \in 1 .. Len(heap)
      BY <2>2
    <2>4. gs_H <= heap[1].adr
      BY <2>1, <2>3, HeapAssumptions, HP!LowestAddress
    <2> QED
      BY <2>2, <2>4, <1>1, MemorySizeAssumption
  <1>9. ASSUME NEW a \in Areas
        PROVE  \/ \E i \in DOMAIN tab : a = Data(i)
               \/ \E k \in Waiting : a = Stack(k)
               \/ mode = "run" /\ a = Top
               \/ \E i \in H!Live : a = Heap(i)
    BY DEF Areas
  <1> HIDE DEF Data, Stack, Top, Heap
  <1>10. ASSUME NEW i \in DOMAIN tab, NEW j \in DOMAIN tab, Data(i) # Data(j)
         PROVE  Clear(Data(i), Data(j))
    BY <1>2, <1>3, <1>10 DEF DataApart
  <1>11. ASSUME NEW i \in DOMAIN tab, NEW k \in Waiting
         PROVE  Clear(Data(i), Stack(k)) /\ Clear(Stack(k), Data(i))
    BY <1>2, <1>3, <1>4 DEF StacksApart
  <1>12. ASSUME NEW i \in DOMAIN tab, mode = "run" PROVE Clear(Data(i), Top) /\ Clear(Top, Data(i))
    BY <1>2, <1>3, <1>5, <1>12 DEF Under
  <1>13. ASSUME NEW k \in Waiting, NEW j \in Waiting, Stack(k) # Stack(j)
         PROVE  Clear(Stack(k), Stack(j))
    <2>1. k < j \/ j < k
      <3>1. k # j /\ k \in Int /\ j \in Int
        <4>1. DOMAIN progs = 1 .. Len(progs) /\ Waiting \subseteq DOMAIN progs
          BY MapTypes, NumType
        <4> QED
          BY <4>1, <1>13
      <3> QED
        BY <3>1
    <2> QED
      BY <2>1, <1>2, <1>4 DEF StacksApart
  <1>14. ASSUME NEW k \in Waiting, mode = "run" PROVE Clear(Stack(k), Top) /\ Clear(Top, Stack(k))
    BY <1>2, <1>4, <1>5, <1>14 DEF Under
  <1>15. ASSUME NEW i \in H!Live
         PROVE  /\ \A j \in DOMAIN tab : Data(j).hi <= Heap(i).lo
                /\ \A k \in Waiting : Stack(k).hi <= Heap(i).lo
                /\ mode = "run" => Top.hi <= Heap(i).lo
    <2>1. gs_H <= Heap(i).lo /\ Heap(i).lo \in Nat
      BY <1>6, <1>7
    <2>2. \A j \in DOMAIN tab : Data(j).hi <= gs_H
      BY <1>2, <1>3 DEF Under
    <2>3. \A k \in Waiting : Stack(k).hi <= gs_H /\ Stack(k).hi \in Nat
      BY <1>1, <1>2, <1>4 DEF Under
    <2> QED
      BY <2>1, <2>2, <2>3, <1>1, <1>2, <1>3, <1>5
  <1>16. ASSUME NEW i \in H!Live, NEW j \in H!Live, Heap(i) # Heap(j)
         PROVE  Clear(Heap(i), Heap(j))
    <2>1. i # j
      BY <1>16
    <2>2. heap[i].adr + heap[i].sz <= heap[j].adr \/ heap[j].adr + heap[j].sz <= heap[i].adr
      BY <2>1, <1>7, BlocksApart DEF OwnInv
    <2> QED
      BY <2>2, <1>6
  <1>17. ASSUME NEW a \in Areas PROVE a.hi <= MemSize
    <2>1. ASSUME NEW i \in DOMAIN tab, a = Data(i) PROVE a.hi <= MemSize
      <3>1. a.hi <= gs_H /\ a.hi \in Nat
        BY <2>1, <1>2, <1>3 DEF Under
      <3> QED
        BY <3>1, <1>1, <1>8, MemorySizeAssumption
    <2>2. ASSUME NEW k \in Waiting, a = Stack(k) PROVE a.hi <= MemSize
      <3>1. a.hi <= gs_H /\ a.hi \in Nat
        BY <2>2, <1>1, <1>2, <1>4 DEF Under
      <3> QED
        BY <3>1, <1>1, <1>8, MemorySizeAssumption
    <2>3. ASSUME mode = "run", a = Top PROVE a.hi <= MemSize
      BY <2>3, <1>1, <1>2, <1>5, <1>8, MemorySizeAssumption
    <2>4. ASSUME NEW i \in H!Live, a = Heap(i) PROVE a.hi <= MemSize
      BY <2>4, <1>6, <1>7
    <2> QED
      BY <2>1, <2>2, <2>3, <2>4, <1>9
  <1>18. ASSUME NEW a \in Areas, NEW b \in Areas, b # a PROVE Clear(a, b)
    <2>1. ASSUME NEW i \in DOMAIN tab, a = Data(i) PROVE Clear(a, b)
      BY <2>1, <1>9, <1>10, <1>11, <1>12, <1>15, <1>18
    <2>2. ASSUME NEW k \in Waiting, a = Stack(k) PROVE Clear(a, b)
      BY <2>2, <1>9, <1>11, <1>13, <1>14, <1>15, <1>18
    <2>3. ASSUME mode = "run", a = Top PROVE Clear(a, b)
      BY <2>3, <1>9, <1>12, <1>14, <1>15, <1>18
    <2>4. ASSUME NEW i \in H!Live, a = Heap(i) PROVE Clear(a, b)
      BY <2>4, <1>9, <1>15, <1>16, <1>18
    <2> QED
      BY <2>1, <2>2, <2>3, <2>4, <1>9
  <1> QED
    BY <1>17, <1>18 DEF MemoryMap

-----------------------------------------------------------------------------
(* The theorems                                                            *)

\* Programs, heap and owners: the invariant of the whole machine.
LEMMA OwnHolds ==
  ASSUME Complete, ~ AgainToo
  PROVE  MachineSpec => []OwnInv
  <1>1. OwnInv /\ [MachineNext]_machineVars => OwnInv'
    BY OwnStep
  <1> QED
    BY <1>1, OwnInit, PTL DEF MachineSpec

\* Table, programs, heap and open files keep their types.
THEOREM MachineTypes ==
  ASSUME Complete, ~ AgainToo
  PROVE  MachineSpec => []MachineTypeOK
  <1>1. OwnInv => MachineTypeOK
    <2> SUFFICES ASSUME OwnInv PROVE MachineTypeOK
      OBVIOUS
    <2>1. HP!TypeOK /\ TypeOK
      BY DEF OwnInv, HP!RInv, HP!IInv, Inv
    <2>2. H!TypeOK
      BY <2>1 DEF HP!TypeOK, H!TypeOK, HP!Block, H!Block, HP!FREE, H!FREE, HP!Call, H!Call
    <2> QED
      BY <2>1, <2>2 DEF OwnInv, MachineTypeOK
  <1> QED
    BY <1>1, OwnHolds, PTL

\* le_execute, CLX and mach_unload_top only ever meet entries that are loaded and
\* linked, however programs and libraries are nested.
THEOREM MachineDefined ==
  ASSUME Complete, ~ AgainToo
  PROVE  MachineSpec => []Defined
  <1>1. OwnInv => Defined
    BY DEF OwnInv, Inv
  <1> QED
    BY <1>1, OwnHolds, PTL

\* A program runs with all it imports, directly or not, loaded and linked, in the
\* versions it was compiled against.
THEOREM MachineLoaded ==
  ASSUME Complete, ~ AgainToo
  PROVE  MachineSpec => []DependenciesLoaded
  <1>1. OwnInv => DependenciesLoaded
    BY InvLoaded DEF OwnInv
  <1> QED
    BY <1>1, OwnHolds, PTL

\* gs_G is the data base of the module that runs, or the one of entry 0 after SVC 1.
THEOREM MachineGlobals ==
  ASSUME Complete, ~ AgainToo
  PROVE  MachineSpec => []GlobalsOfRunning
  <1>1. OwnInv => GlobalsOfRunning
    BY InvLoaded DEF OwnInv
  <1> QED
    BY <1>1, OwnHolds, PTL

\* Every block and every open file belongs to a program in progress.
THEOREM OwnersLive ==
  ASSUME Complete, ~ AgainToo
  PROVE  MachineSpec => []OwnersAlive
  <1>1. OwnInv => OwnersAlive
    <2> SUFFICES ASSUME OwnInv PROVE OwnersAlive
      OBVIOUS
    <2>1. \A i \in H!Live : heap[i].owner \in Alive(progs)
      BY DEF OwnInv, Owned, HP!Blocks, HP!Live, H!Live, HP!FREE, H!FREE
    <2>2. \A i \in DOMAIN files : files[i] \in Alive(progs)
      BY DEF OwnInv, Owned, ToSet
    <2> QED
      BY <2>1, <2>2 DEF OwnersAlive, Alive
  <1> QED
    BY <1>1, OwnHolds, PTL

\* The programs that wait have their entries below those of the one that runs.
LEMMA WaitingBelow ==
  ASSUME Inv, mode \in {"run", "end"}, NEW k \in 1 .. Len(progs) - 1
  PROVE  progs[k].exec \in Nat /\ Now.exec \in Nat /\ progs[k].exec < Now.exec
  <1>1. TypeOK /\ progs # <<>>
    BY DEF Inv, TypeOK
  <1>2. /\ Now \in Program /\ progs[k].num \in Nat
    BY <1>1, NumType
  <1>3. Now.exec \in Nat
    BY <1>2, BoundAssumption DEF Program
  <1>4. Waits(tab, progs, Len(progs) - 1, Now.exec - 1)
    BY DEF Inv, InRun, InEnd
  <1>5. /\ Stands(tab, progs[k], progs[k].num - 1, Floor(progs, k), progs[k].data)
        /\ progs[k].num - 1 <= Now.exec - 1
    BY <1>4 DEF Waits
  <1>6. progs[k].exec \in 1 .. progs[k].num - 1
    BY <1>5 DEF Stands
  <1> QED
    BY <1>2, <1>3, <1>5, <1>6

\* Neither hp_free by another program nor the clean-up after one releases a block of a
\* program that waits.
THEOREM WaitingKeepTheirs ==
  ASSUME Complete, ~ AgainToo
  PROVE  MachineSpec => WaitingKeep
  <1> DEFINE Keep == \A i \in H!Live :
                       (\E k \in 1 .. Len(progs) - 1 : progs[k].exec = heap[i].owner)
                         => \E j \in DOMAIN heap' : heap'[j] = heap[i]
  <1>1. OwnInv /\ OwnInv' /\ [MachineNext]_machineVars => [Keep]_machineVars
    <2> SUFFICES ASSUME OwnInv, OwnInv', MachineNext, NEW i \in H!Live,
                        NEW k \in 1 .. Len(progs) - 1, progs[k].exec = heap[i].owner
                 PROVE  \E j \in DOMAIN heap' : heap'[j] = heap[i]
      OBVIOUS
    <2>1. heap[i] \in HP!Blocks
      BY DEF HP!Blocks, HP!Live, H!Live, HP!FREE, H!FREE
    <2>2. HP!RInv /\ HP!IInv /\ DOMAIN heap' = 1 .. Len(heap')
      <3>1. heap' \in Seq(HP!Block)
        BY DEF OwnInv, HP!RInv, HP!IInv, HP!TypeOK
      <3> QED
        BY <3>1 DEF OwnInv, HP!RInv
    <2>3. SUFFICES heap[i] \in HP!Blocks'
      BY <2>2, <2>3 DEF HP!Blocks, HP!Live
    <2>4. CASE Free
      <3>1. HP!FreeLoop
        BY <2>4, HeapFree DEF Free
      <3>2. cur # 0
        BY <3>1 DEF HP!FreeLoop, HP!Release, HP!Skip, HP!EndOfList, HP!Looping
      <3>3. mode \in {"run", "end"}
        BY <3>2 DEF OwnInv, InCall
      <3>4. progs[k].exec \in Nat /\ Now.exec \in Nat /\ progs[k].exec < Now.exec
        BY <3>3, WaitingBelow DEF OwnInv
      <3> SUFFICES ASSUME heap[i] \notin HP!Blocks' PROVE FALSE
        OBVIOUS
      <3>5. IF call.by_ptr THEN heap[i].adr = call.ptr ELSE heap[i].owner = call.mod
        BY <2>1, <2>2, <3>1, HeapAssumptions, HP!LoopBlocks
      <3>6. CASE call.by_ptr
        <4>1. heap[i].owner = Now.exec
          BY <3>2, <3>5, <3>6, <2>1 DEF OwnInv, InCall
        <4> QED
          BY <4>1, <3>4
      <3>7. CASE ~ call.by_ptr
        <4>1. heap[i].owner = call.mod /\ Now.exec <= call.mod
          BY <3>2, <3>5, <3>7 DEF OwnInv, InCall
        <4> QED
          BY <4>1, <3>4
      <3> QED
        BY <3>6, <3>7
    <2>5. ASSUME NEW n \in Sizes, Allocate(n) PROVE heap[i] \in HP!Blocks'
      <3>1. mode = "run" /\ (H!AllocGap(Now.exec, n) \/ H!AllocExtend(Now.exec, n))
        BY <2>5 DEF Allocate, Asks, Owner
      <3>2. HP!AllocGap(Now.exec, n) \/ HP!AllocExtend(Now.exec, n)
        BY <3>1, HeapGap, HeapExtend
      <3>3. HP!Blocks \subseteq HP!Blocks'
        BY <3>1, <3>2, <2>2, RunningAlive, HeapAssumptions, HP!AllocBlocks
      <3> QED
        BY <3>3, <2>1
    <2>6. CASE UNCHANGED heap
      BY <2>1, <2>6 DEF HP!Blocks, HP!Live
    <2>7. Free \/ (\E n \in Sizes : Allocate(n)) \/ UNCHANGED heap
      BY StepCases DEF heapVars, CleanUp, H!FreeAllCall, AllocateFails, H!AllocOverflow,
                       Deallocate, H!FreeCall, OpenFile, CloseFile, Enter, EnterTrap
    <2> QED
      BY <2>4, <2>5, <2>6, <2>7
  <1> QED
    BY <1>1, OwnHolds, PTL DEF MachineSpec, WaitingKeep

\* SVC 1 gives the calling program its stack and the module table back.
THEOREM CallersRestored ==
  ASSUME Complete, ~ AgainToo
  PROVE  MachineSpec => CallerRestored
  <1> DEFINE Restored == mode' = "run" /\ mode \in {"resume", "failed"} =>
                           gs_S' = Now.S /\ Len(tab') + 1 = Now.num
  <1>1. OwnInv /\ [MachineNext]_machineVars => [Restored]_machineVars
    <2> SUFFICES ASSUME OwnInv, MachineNext, mode' = "run", mode \in {"resume", "failed"}
                 PROVE  gs_S' = Now.S /\ Len(tab') + 1 = Now.num
      OBVIOUS
    <2>1. Resume
      BY StepCases DEF Loading, NotFound, Parse, ParseError, Scan, ScanEnds, FixExtCalls, FixError,
                       Execute, ExecuteReturns, CallModule, Return, ChangeDisk, CallProgram,
                       CleanUp, UnloadTop, Free, vars, Allocate, AllocateFails, Deallocate,
                       OpenFile, CloseFile, Enter, EnterTrap, Asks
    <2>2. Inv /\ TypeOK /\ progs # <<>>
      BY DEF OwnInv, Inv, TypeOK
    <2>3. /\ Waits(tab, progs, Len(progs), Len(tab))
          /\ data_top = Floor(progs, Len(progs) + 1)
      BY <2>2 DEF Inv, InResume
    <2>4. Len(progs) \in Nat /\ Len(progs) # 0 /\ Now = progs[Len(progs)]
      BY <2>2, NumType
    <2>5. Floor(progs, Len(progs) + 1) = Now.S
      BY <2>4 DEF Floor
    <2>6. Now.num = Len(tab) + 1
      BY <2>3, <2>4 DEF Waits
    <2> QED
      BY <2>1, <2>3, <2>5, <2>6 DEF Resume
  <1> QED
    BY <1>1, OwnHolds, PTL DEF MachineSpec, CallerRestored

\* Data of modules, stacks and blocks share no word and lie inside the memory, until the
\* stack or the data of a module go into the heap.
THEOREM MemoryMapped ==
  ASSUME Complete, ~ AgainToo
  PROVE  MachineSpec => []MemoryMap
  <1>1. OwnInv /\ OwnInv' /\ MemInv /\ [MachineNext]_machineVars => MemInv'
    BY MemStep
  <1>2. OwnInv /\ MemInv => MemoryMap
    <2> SUFFICES ASSUME OwnInv, MemInv PROVE MemoryMap
      OBVIOUS
    <2>1. CASE spilled \/ mode = "error"
      BY <2>1 DEF MemoryMap
    <2>2. CASE Mem
      BY <2>2, MapOfMem
    <2> QED
      BY <2>1, <2>2 DEF MemInv
  <1> QED
    BY <1>1, <1>2, MemInit, OwnHolds, PTL DEF MachineSpec

-----------------------------------------------------------------------------
(* The heap of the machine is the one of Heap                              *)

\* hp_alloc and hp_free never end the emulator but with "Heap overflow": a call of
\* hp_free has the block it looks for still before it.
Sane ==
  /\ status = "run" \/ mode = "error"
  /\ (cur # 0 /\ call.by_ptr) =>
       /\ call.limit = HP!Nil
       /\ \E i \in cur .. Len(heap) : heap[i].owner # HP!FREE /\ heap[i].adr = call.ptr

\* "Heap overflow" is the same in Machine and HeapProofs.
LEMMA HeapOverflow ==
  ASSUME NEW n, H!AllocOverflow(n)
  PROVE  HP!AllocOverflow(n)
  BY DEF H!AllocOverflow, HP!AllocOverflow, H!NoGap, HP!NoGap, H!Fits, HP!Fits, H!FREE, HP!FREE,
         H!Rounded, HP!Rounded, H!Idle, HP!Idle

\* After an error no program goes on.
LEMMA NotAfterError ==
  ASSUME \/ Loading \/ Execute \/ ExecuteReturns \/ Resume
         \/ CallModule \/ Return \/ ChangeDisk
         \/ \E name \in Guests : CallProgram(name)
  PROVE  mode # "error"
  <1>1. CASE Loading
    BY <1>1 DEF Loading, NotFound, Parse, ParseError, Scan, ScanEnds, FixExtCalls, FixError
  <1>2. CASE Execute \/ ExecuteReturns \/ Resume
    BY <1>2 DEF Execute, ExecuteReturns, Resume
  <1>3. CASE CallModule \/ Return \/ ChangeDisk
    BY <1>3 DEF CallModule, Return, ChangeDisk
  <1>4. CASE \E name \in Guests : CallProgram(name)
    BY <1>4 DEF CallProgram
  <1> QED
    BY <1>1, <1>2, <1>3, <1>4

\* The loop of hp_free_int meets the block that hp_free was given.
LEMMA FreeSane ==
  ASSUME OwnInv, Sane, Free
  PROVE  Sane'
  <1>1. HP!FreeLoop /\ UNCHANGED mode
    BY HeapFree DEF Free, vars
  <1>2. /\ Len(heap) \in Nat /\ cur \in Nat
        /\ \A k \in 1 .. Len(heap) : heap[k] \in HP!Block /\ heap[k].adr <= HP!Nil
        /\ heap[1].owner = HP!FREE
    <2>1. HP!IInv
      BY DEF OwnInv, HP!RInv
    <2>2. HP!Good(heap) /\ cur \in Nat
      BY <2>1, HeapAssumptions, HP!InvGood, HP!InvParts
    <2>3. Len(heap) \in Nat \ {0} /\ \A k \in 1 .. Len(heap) : heap[k] \in HP!Block
      BY <2>2, HeapAssumptions, HP!GoodList
    <2>4. heap[1] = HP!HeapTop /\ \A i, j \in 1 .. Len(heap) :
                                    i < j => heap[j].adr + heap[j].sz <= heap[i].adr
      BY <2>2 DEF HP!Good, HP!Tiles, HP!Descending
    <2>5. heap[1].adr = HP!Nil /\ heap[1].owner = HP!FREE /\ HP!Nil \in Nat
      BY <2>4, MemorySizeAssumption DEF HP!HeapTop, HP!Nil
    <2>6. ASSUME NEW k \in 1 .. Len(heap) PROVE heap[k].adr <= HP!Nil
      <3>1. heap[k].adr \in Nat /\ heap[k].sz \in Nat
        BY <2>3 DEF HP!Block
      <3>2. k = 1 \/ heap[k].adr + heap[k].sz <= heap[1].adr
        BY <2>3, <2>4
      <3> QED
        BY <2>5, <3>1, <3>2
    <2> QED
      BY <2>2, <2>3, <2>5, <2>6
  <1>3. cur # 0 /\ status = "run"
    BY <1>1 DEF HP!FreeLoop, HP!Release, HP!Skip, HP!EndOfList, HP!Looping
  <1>4. CASE HP!Release
    <2>1. status' = "run"
      BY <1>3, <1>4 DEF HP!Release
    <2>2. call'.by_ptr => cur' = 0
      BY <1>4 DEF HP!Release, HP!Onward
    <2> QED
      BY <2>1, <2>2 DEF Sane
  <1>5. ASSUME call.by_ptr, ~ HP!Releases(cur)
        PROVE  /\ call.limit = HP!Nil
               /\ \E i \in cur + 1 .. Len(heap) : heap[i].owner # HP!FREE /\ heap[i].adr = call.ptr
    <2>1. PICK i \in cur .. Len(heap) : heap[i].owner # HP!FREE /\ heap[i].adr = call.ptr
      BY <1>3, <1>5 DEF Sane
    <2>2. call.limit = HP!Nil
      BY <1>3, <1>5 DEF Sane
    <2>3. i \in 1 .. Len(heap) /\ i # 1
      BY <1>2, <1>3, <2>1
    <2>4. heap[i].adr <= call.limit
      BY <1>2, <2>2, <2>3
    <2>5. i # cur
      BY <1>5, <2>1, <2>3, <2>4 DEF HP!Releases, HP!IsMatch
    <2> QED
      BY <1>2, <2>1, <2>2, <2>5
  <1>6. CASE HP!Skip
    <2>1. /\ ~ HP!Releases(cur) /\ cur' = cur + 1
          /\ UNCHANGED <<heap, call, status>>
      BY <1>6 DEF HP!Skip
    <2> QED
      BY <1>3, <1>5, <2>1 DEF Sane
  <1>7. CASE HP!EndOfList
    <2>1. /\ ~ HP!Releases(cur) /\ cur = Len(heap) /\ cur' = 0
          /\ status' = IF call.by_ptr THEN "heap pointer invalid" ELSE status
      BY <1>7 DEF HP!EndOfList
    <2>2. ~ call.by_ptr
      <3> SUFFICES ASSUME call.by_ptr PROVE FALSE
        OBVIOUS
      <3>1. PICK i \in cur + 1 .. Len(heap) : heap[i].adr = call.ptr
        BY <1>5, <2>1
      <3>2. Len(heap) \in Nat /\ cur = Len(heap)
        BY <1>2, <2>1
      <3>3. i \in Len(heap) + 1 .. Len(heap)
        BY <3>1, <3>2
      <3> QED
        BY <3>2, <3>3
    <2> QED
      BY <1>3, <2>1, <2>2 DEF Sane
  <1> QED
    BY <1>1, <1>4, <1>6, <1>7 DEF HP!FreeLoop

\* Every step stays sane.
LEMMA SaneStep ==
  ASSUME OwnInv, Sane, [MachineNext]_machineVars
  PROVE  Sane'
  <1>1. CASE UNCHANGED machineVars
    <2>1. UNCHANGED <<heap, cur, call, status, mode>>
      BY <1>1 DEF machineVars, heapVars, vars
    <2> QED
      BY <2>1 DEF Sane
  <1>2. ASSUME cur = 0, mode # "error", UNCHANGED heapVars PROVE Sane'
    BY <1>2 DEF Sane, heapVars
  <1>3. CASE MachineNext
    <2>1. CASE /\ cur = 0 /\ UNCHANGED <<heapVars, files>>
               /\ \/ Loading \/ Execute \/ ExecuteReturns \/ Resume
                  \/ CallModule \/ Return \/ ChangeDisk
                  \/ \E name \in Guests : CallProgram(name)
      BY <2>1, <1>2, NotAfterError
    <2>2. CASE CleanUp
      <3>1. HP!FreeAllCall(Len(tab), NoLimit)
        BY <2>2, HeapFreeAllCall DEF CleanUp
      <3> QED
        BY <3>1 DEF Sane, HP!FreeAllCall, HP!Idle
    <2>3. CASE Free
      BY <2>3, FreeSane
    <2>4. ASSUME NEW n \in Sizes, Allocate(n) PROVE Sane'
      <3>1. H!AllocGap(Owner, n) \/ H!AllocExtend(Owner, n)
        BY <2>4 DEF Allocate
      <3>2. cur' = 0 /\ status' = "run"
        BY <3>1 DEF H!AllocGap, H!AllocExtend, H!Idle
      <3> QED
        BY <3>2 DEF Sane
    <2>5. ASSUME NEW n \in Sizes, AllocateFails(n) PROVE Sane'
      <3>1. mode' = "error" /\ cur' = 0
        BY <2>5 DEF AllocateFails, Asks, H!AllocOverflow
      <3> QED
        BY <3>1 DEF Sane
    <2>6. CASE Deallocate
      <3>1. PICK i \in H!Live : H!FreeCall(heap[i].adr)
        BY <2>6 DEF Deallocate
      <3>2. i \in 1 .. Len(heap) /\ heap[i].owner # HP!FREE
        BY DEF H!Live, H!FREE, HP!FREE
      <3>3. /\ status' = "run" /\ cur' = 1 /\ heap' = heap
            /\ call'.limit = HP!Nil /\ call'.ptr = heap[i].adr
        <4>1. HP!FreeCall(heap[i].adr)
          BY <3>1, HeapFreeCall
        <4> QED
          BY <4>1 DEF HP!FreeCall, HP!Idle
      <3> QED
        BY <3>2, <3>3 DEF Sane
    <2>7. CASE OpenFile \/ CloseFile
      BY <2>7, <1>2 DEF OpenFile, CloseFile, Asks
    <2>8. ASSUME NEW n \in Locals, Enter(n) \/ EnterTrap(n) PROVE Sane'
      BY <2>8, <1>2 DEF Enter, EnterTrap, Asks
    <2> QED
      BY <1>3, <2>1, <2>2, <2>3, <2>4, <2>5, <2>6, <2>7, <2>8, StepCases
  <1> QED
    BY <1>1, <1>3

\* Every step is one of the heap, or leaves the heap alone.
LEMMA StepOfHeap ==
  ASSUME OwnInv, OwnInv', Sane, [MachineNext]_machineVars
  PROVE  [HP!Next]_HP!vars
  <1>0. gs_S' \in Nat
    BY DEF OwnInv, Inv, TypeOK
  <1>1. CASE UNCHANGED machineVars
    BY <1>1 DEF machineVars, heapVars, vars, HP!vars
  <1>2. ASSUME cur = 0, mode # "error", UNCHANGED heapVars PROVE HP!Next
    <2>1. HP!MoveStack(gs_S')
      BY <1>2 DEF Sane, heapVars, HP!MoveStack, HP!Idle
    <2> QED
      BY <1>0, <2>1 DEF HP!Next
  <1>3. CASE MachineNext
    <2>1. CASE /\ cur = 0 /\ UNCHANGED <<heapVars, files>>
               /\ \/ Loading \/ Execute \/ ExecuteReturns \/ Resume
                  \/ CallModule \/ Return \/ ChangeDisk
                  \/ \E name \in Guests : CallProgram(name)
      BY <2>1, <1>2, NotAfterError
    <2>2. CASE CleanUp
      <3>1. HP!FreeAllCall(Len(tab), MemSize)
        BY <2>2, HeapFreeAllCall DEF CleanUp, NoLimit
      <3>2. Len(tab) \in 1 .. ModTabMax
        <4>1. TypeOK /\ Len(tab) >= Now.exec /\ mode = "end"
          BY <2>2 DEF CleanUp, UnloadTop, Stays, OwnInv, Inv
        <4>2. Now \in Program /\ Len(tab) \in Nat
          BY <4>1, NumType DEF TypeOK
        <4>3. Now.exec \in 1 .. ModTabMax
          BY <4>2 DEF Program
        <4>4. Len(tab) + 1 <= ModTabMax
          BY <4>1 DEF TypeOK, module_num
        <4> QED
          BY <4>1, <4>2, <4>3, <4>4, BoundAssumption
      <3> QED
        BY <3>1, <3>2 DEF HP!Next
    <2>3. CASE Free
      BY <2>3, HeapFree DEF Free, HP!Next
    <2>4. ASSUME NEW n \in Sizes, Allocate(n) PROVE HP!Next
      <3>1. Owner \in 1 .. ModTabMax
        BY <2>4, RunningAlive DEF Allocate, Asks, Owner
      <3>2. HP!AllocGap(Owner, n) \/ HP!AllocExtend(Owner, n)
        BY <2>4, HeapGap, HeapExtend DEF Allocate
      <3> QED
        BY <3>1, <3>2 DEF HP!Next
    <2>5. ASSUME NEW n \in Sizes, AllocateFails(n) PROVE HP!Next
      <3>1. HP!AllocOverflow(n)
        BY <2>5, HeapOverflow DEF AllocateFails
      <3> QED
        BY <3>1 DEF HP!Next
    <2>6. CASE Deallocate
      <3>1. PICK i \in H!Live : H!FreeCall(heap[i].adr)
        BY <2>6 DEF Deallocate
      <3>2. heap[i] \in HP!Blocks
        BY DEF HP!Blocks, HP!Live, H!Live, HP!FREE, H!FREE
      <3>3. heap[i].adr \in 0 .. MemSize
        <4>1. /\ heap[i].adr \in Nat /\ heap[i].sz \in Nat /\ heap[i].adr + heap[i].sz <= MemSize
          BY <3>2, BlocksInside DEF OwnInv
        <4> QED
          BY <4>1, MemorySizeAssumption
      <3>4. HP!FreeCall(heap[i].adr)
        BY <3>1, HeapFreeCall
      <3> QED
        BY <3>3, <3>4 DEF HP!Next
    <2>7. CASE OpenFile \/ CloseFile
      BY <2>7, <1>2 DEF OpenFile, CloseFile, Asks
    <2>8. ASSUME NEW n \in Locals, Enter(n) \/ EnterTrap(n) PROVE HP!Next
      BY <2>8, <1>2 DEF Enter, EnterTrap, Asks
    <2> QED
      BY <1>3, <2>1, <2>2, <2>3, <2>4, <2>5, <2>6, <2>7, <2>8, StepCases
  <1> QED
    BY <1>1, <1>3

\* Whatever is loaded, called and unloaded around it, the heap of the machine does what
\* Heap says: le_heap.c is entered only between its calls, with owners that are modules
\* and pointers of blocks, and nothing else changes the list.
THEOREM MachineRunsHeap ==
  ASSUME Complete, ~ AgainToo
  PROVE  MachineSpec => HP!Spec
  <1>1. MachineInit => HP!Init /\ Sane
    <2> SUFFICES ASSUME MachineInit PROVE HP!Init /\ Sane
      OBVIOUS
    <2>1. HP!Init
      BY DEF MachineInit, Init, HP!Init, H!HeapTop, HP!HeapTop, H!Nil, HP!Nil, H!NoCall, HP!NoCall,
             H!FREE, HP!FREE
    <2>2. Sane
      BY DEF MachineInit, Sane
    <2> QED
      BY <2>1, <2>2
  <1>2. OwnInv /\ Sane /\ [MachineNext]_machineVars => Sane'
    BY SaneStep
  <1>3. OwnInv /\ OwnInv' /\ Sane /\ [MachineNext]_machineVars => [HP!Next]_HP!vars
    BY StepOfHeap
  <1> QED
    BY <1>1, <1>2, <1>3, OwnHolds, PTL DEF MachineSpec, HP!Spec

\* So the programs of the machine, nested and unloaded as they are, share the allocator
\* of HeapSpec: what one obtains is nobody else's, and only a release takes it away.
THEOREM MachineAllocates ==
  ASSUME Complete, ~ AgainToo
  PROVE  MachineSpec => HP!AllocatorSpec
  <1>1. HP!Spec => HP!AllocatorSpec
    BY HeapAssumptions, HP!ImplementsAllocator
  <1> QED
    BY <1>1, MachineRunsHeap, PTL

\* And when the loop of hp_free_all for a module ends, no block of the module is left.
THEOREM MachineFreesAll ==
  ASSUME Complete, ~ AgainToo
  PROVE  MachineSpec => HP!FreeAllFreesAll
  <1>1. HP!Spec => HP!FreeAllFreesAll
    BY HeapAssumptions, HP!FreeAllIsComplete
  <1> QED
    BY <1>1, MachineRunsHeap, PTL

=============================================================================
