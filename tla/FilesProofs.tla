----------------------------- MODULE FilesProofs -----------------------------
(***************************************************************************)
(* What holds of the files of programs for every set of File variables,    *)
(* names and pointers and every nesting of programs, with proofs that      *)
(* TLAPS checks.                                                           *)
(*                                                                         *)
(* That the cache is sound needs that no two entries have the same         *)
(* address (Distinct): malloc gives an address again only after free.      *)
(***************************************************************************)
EXTENDS MCFiles, ListProofs, FiniteSetTheorems

\* Entries of a list have addresses of their own.
DistinctIn(list) ==
  \A i, j \in DOMAIN list : list[i].ptr = list[j].ptr => i = j

Distinct == DistinctIn(fd_list)

\* The inductive invariant.
IInv == TypeOK /\ Distinct /\ CacheSound

-----------------------------------------------------------------------------
(* Searching a list                                                        *)

\* A list of entries as a function on its indexes.
LEMMA ListType ==
  ASSUME NEW list \in Seq(Entry)
  PROVE  /\ Len(list) \in Nat
         /\ DOMAIN list = 1 .. Len(list)
         /\ list \in [1 .. Len(list) -> Entry]
  OBVIOUS

\* The fields of an entry.
LEMMA EntryFields ==
  ASSUME NEW e \in Entry
  PROVE  /\ e.ptr \in Pointers /\ e.m2file \in Descriptors /\ e.fname \in AllNames
         /\ e.temp \in BOOLEAN /\ e.owner \in 1 .. Programs /\ e.write \in BOOLEAN
         /\ e.ino \in Inodes /\ e.pos \in 0 .. MaxLen /\ e.dirty \in BOOLEAN
  BY DEF Entry, EntryFor

\* The first entry for m2 is what Newest chooses.
LEMMA FirstIsNewest ==
  ASSUME NEW list \in Seq(Entry), NEW m2, NEW k \in DOMAIN list, list[k].m2file = m2,
         \A j \in 1 .. k - 1 : list[j].m2file # m2
  PROVE  IsOpen(list, m2) /\ Newest(list, m2) = k /\ Search(list, m2) = list[k].ptr
  <1> DEFINE First(i) == list[i].m2file = m2 /\ \A j \in 1 .. i - 1 : list[j].m2file # m2
  <1>1. \A i \in DOMAIN list : First(i) => i = k
    <2> SUFFICES ASSUME NEW i \in DOMAIN list, First(i), i # k PROVE FALSE
      OBVIOUS
    <2>1. i \in Nat \ {0} /\ k \in Nat \ {0}
      BY ListType
    <2>2. CASE i < k
      BY <2>1, <2>2
    <2>3. CASE k < i
      BY <2>1, <2>3
    <2> QED BY <2>1, <2>2, <2>3
  <1>2. First(k)
    OBVIOUS
  <1>3. Newest(list, m2) = CHOOSE i \in DOMAIN list : First(i)
    BY DEF Newest
  <1> HIDE DEF First
  <1>4. Newest(list, m2) = k
    BY <1>1, <1>2, <1>3
  <1> QED BY <1>4 DEF IsOpen, Search

\* Where there is an entry for m2 there is a first.
LEMMA NewestExists ==
  ASSUME NEW list \in Seq(Entry), NEW m2, IsOpen(list, m2)
  PROVE  /\ Newest(list, m2) \in DOMAIN list
         /\ list[Newest(list, m2)].m2file = m2
         /\ \A j \in 1 .. Newest(list, m2) - 1 : list[j].m2file # m2
  <1> DEFINE N == {i \in DOMAIN list : list[i].m2file = m2}
  <1>1. N \in SUBSET Nat /\ N # {}
    BY ListType DEF IsOpen
  <1>2. PICK k \in N : \A i \in N : k <= i
    BY <1>1, Least
  <1>3. \A j \in 1 .. k - 1 : list[j].m2file # m2
    BY <1>1, <1>2, ListType
  <1> QED BY <1>2, <1>3, FirstIsNewest

\* Lists with the same addresses and variables are searched alike.
LEMMA SearchedAlike ==
  ASSUME NEW list \in Seq(Entry), NEW new \in Seq(Entry), Len(new) = Len(list),
         \A i \in DOMAIN list : new[i].ptr = list[i].ptr /\ new[i].m2file = list[i].m2file,
         NEW m2
  PROVE  Search(new, m2) = Search(list, m2)
  <1>1. DOMAIN new = DOMAIN list
    BY ListType
  <1>2. CASE IsOpen(list, m2)
    <2> DEFINE k == Newest(list, m2)
    <2>1. k \in DOMAIN list /\ list[k].m2file = m2 /\ \A j \in 1 .. k - 1 : list[j].m2file # m2
      BY <1>2, NewestExists
    <2>2. Search(list, m2) = list[k].ptr
      BY <1>2 DEF Search
    <2> HIDE DEF k
    <2>3. \A j \in 1 .. k - 1 : j \in DOMAIN list
      BY <2>1, ListType
    <2>5. new[k].m2file = m2 /\ \A j \in 1 .. k - 1 : new[j].m2file # m2
      BY <2>1, <2>3
    <2>4. Search(new, m2) = new[k].ptr
      BY <1>1, <2>1, <2>5, FirstIsNewest
    <2> QED BY <2>1, <2>2, <2>4
  <1>3. CASE ~ IsOpen(list, m2)
    BY <1>1, <1>3 DEF IsOpen, Search
  <1> QED BY <1>2, <1>3

\* While the cache is sound it makes no difference.
LEMMA FindIsSearch ==
  ASSUME IInv, NEW m2 \in Descriptors
  PROVE  Find(m2) = Search(fd_list, m2)
  BY DescriptorAssumption DEF IInv, CacheSound, Find

\* An address stands for one entry.
LEMMA PositionIs ==
  ASSUME NEW k \in DOMAIN fd_list, Distinct
  PROVE  Position(fd_list[k].ptr) = k
  <1>1. \A i \in DOMAIN fd_list : fd_list[i].ptr = fd_list[k].ptr => i = k
    BY DEF Distinct, DistinctIn
  <1> QED BY <1>1 DEF Position

\* What a command for m2 works on is the newest entry for m2.
LEMMA FoundIsNewest ==
  ASSUME IInv, NEW m2 \in Descriptors
  PROVE  /\ Found(m2) <=> IsOpen(fd_list, m2)
         /\ m2 = last_m2file => Found(m2)
         /\ Found(m2) => LET k == Position(Find(m2))
                         IN /\ k \in DOMAIN fd_list
                            /\ k = Newest(fd_list, m2)
                            /\ fd_list[k].m2file = m2
                            /\ fd_list[k].ptr = Find(m2)
                            /\ \A j \in 1 .. k - 1 : fd_list[j].m2file # m2
  <1> DEFINE n == Newest(fd_list, m2)
  <1>0. fd_list \in Seq(Entry)
    BY DEF IInv, TypeOK
  <1>1. CASE IsOpen(fd_list, m2)
    <2>1. /\ n \in DOMAIN fd_list
          /\ fd_list[n].m2file = m2
          /\ \A j \in 1 .. n - 1 : fd_list[j].m2file # m2
      BY <1>0, <1>1, NewestExists
    <2>2. Find(m2) = fd_list[n].ptr
      BY <1>1, FindIsSearch DEF Search
    <2> HIDE DEF n
    <2>3. Position(Find(m2)) = n
      BY <2>1, <2>2, PositionIs DEF IInv
    <2>4. Found(m2)
      BY <2>1, <2>2 DEF Found
    <2> QED BY <1>1, <2>1, <2>2, <2>3, <2>4 DEF n
  <1>2. CASE ~ IsOpen(fd_list, m2)
    <2>1. Find(m2) = NULL
      BY <1>2, FindIsSearch DEF Search
    <2>2. \A i \in DOMAIN fd_list : fd_list[i].ptr # NULL
      BY <1>0, ListType, EntryFields, BoundAssumption
    <2>3. ~ Found(m2)
      BY <2>1, <2>2 DEF Found
    <2>4. m2 # last_m2file
      BY <1>2, DescriptorAssumption DEF IInv, CacheSound, Search
    <2> QED BY <1>2, <2>3, <2>4
  <1> QED BY <1>1, <1>2

-----------------------------------------------------------------------------
(* Inodes                                                                  *)

\* There is an inode for each file that is open or on the disk, and for one more
\* when there is an address that is free and a name that stands for no file.
LEMMA FreshExists ==
  ASSUME TypeOK, Distinct, NEW p \in Pointers, NEW t \in AllNames, disk[t] = 0,
         \A i \in DOMAIN fd_list : fd_list[i].ptr # p
  PROVE  FreshInode \in Inodes /\ FreshInode \notin Busy
  <1> DEFINE U == {fd_list[i].ptr : i \in DOMAIN fd_list}
             A == {fd_list[i].ino : i \in DOMAIN fd_list}
             N == AllNames \ {t}
             D == {disk[n] : n \in N}
             nP == Cardinality(Pointers)
             nN == Cardinality(AllNames)
  <1>0. /\ fd_list \in Seq(Entry) /\ DOMAIN fd_list = 1 .. Len(fd_list)
        /\ \A i \in DOMAIN fd_list : fd_list[i] \in Entry
    BY ListType DEF TypeOK
  <1>1. IsFiniteSet(Pointers) /\ IsFiniteSet(AllNames) /\ nP \in Nat /\ nN \in Nat
    BY FiniteAssumption, FS_CardinalityType DEF AllNames
  <1>2. IsFiniteSet(Pointers \ {p}) /\ Cardinality(Pointers \ {p}) = nP - 1
        /\ IsFiniteSet(N) /\ Cardinality(N) = nN - 1
    BY <1>1, FS_RemoveElement
  <1>3. U \in SUBSET (Pointers \ {p})
    BY <1>0, EntryFields
  <1>4. IsFiniteSet(U) /\ Cardinality(U) <= nP - 1 /\ Cardinality(U) \in Nat
    <2> HIDE DEF U
    <2> QED BY <1>2, <1>3, FS_Subset, FS_CardinalityType
  <1>5. IsFiniteSet(A) /\ Cardinality(A) <= Cardinality(U) /\ Cardinality(A) \in Nat
    <2> DEFINE f == [x \in U |-> fd_list[Position(x)].ino]
    <2>1. ASSUME NEW i \in DOMAIN fd_list PROVE f[fd_list[i].ptr] = fd_list[i].ino
      <3>1. Position(fd_list[i].ptr) = i
        BY PositionIs
      <3>2. fd_list[i].ptr \in U
        OBVIOUS
      <3> QED BY <3>1, <3>2
    <2>2. f \in [U -> A]
      <3>1. ASSUME NEW x \in U PROVE f[x] \in A
        <4>1. PICK i \in DOMAIN fd_list : x = fd_list[i].ptr
          OBVIOUS
        <4>2. f[x] = fd_list[i].ino
          <5> HIDE DEF f
          <5> QED BY <2>1, <4>1
        <4> HIDE DEF f
        <4> QED BY <4>2
      <3>2. f = [x \in U |-> f[x]]
        OBVIOUS
      <3> HIDE DEF U, A, f
      <3> QED BY <3>1, <3>2
    <2>3. \A a \in A : \E x \in U : f[x] = a
      BY <2>1
    <2>4. f \in Surjection(U, A)
      BY <2>2, <2>3 DEF Surjection
    <2> HIDE DEF f, U, A
    <2> QED BY <1>4, <2>4, FS_Surjection, FS_CardinalityType
  <1>6. IsFiniteSet(D) /\ Cardinality(D) <= nN - 1 /\ Cardinality(D) \in Nat
    <2> DEFINE f == [n \in N |-> disk[n]]
    <2>1. f \in Surjection(N, D)
      BY DEF Surjection
    <2> HIDE DEF f, N, D
    <2> QED BY <1>2, <2>1, FS_Surjection, FS_CardinalityType
  <1>7. IsFiniteSet(A \union D) /\ Cardinality(A \union D) <= nP + nN - 2
    <2> HIDE DEF A, D, U
    <2>1. /\ IsFiniteSet(A \union D)
          /\ Cardinality(A \union D) = Cardinality(A) + Cardinality(D) - Cardinality(A \cap D)
      BY <1>5, <1>6, FS_Union
    <2>2. Cardinality(A \cap D) \in Nat
      BY <1>5, FS_Intersection, FS_CardinalityType
    <2> QED BY <1>1, <1>4, <1>5, <1>6, <2>1, <2>2
  <1>8. IsFiniteSet(Inodes) /\ Cardinality(Inodes) = nN + nP
    <2>1. nN + nP \in Nat /\ nP # 0
      BY <1>1, FS_EmptySet
    <2> QED BY <2>1, FS_Interval DEF Inodes
  <1>9. \E i \in Inodes : i \notin A \union D
    <2> HIDE DEF A, D
    <2> SUFFICES ASSUME Inodes \in SUBSET (A \union D) PROVE FALSE
      OBVIOUS
    <2>1. Cardinality(Inodes) <= Cardinality(A \union D) /\ Cardinality(A \union D) \in Nat
      BY <1>7, FS_Subset, FS_CardinalityType
    <2> QED BY <1>1, <1>7, <1>8, <2>1
  <1>10. PICK i \in Inodes : i \notin A \union D
    BY <1>9
  <1>11. Busy \subseteq A \union D \union {0}
    BY DEF Busy
  <1>12. i \notin Busy
    <2>1. i # 0
      BY <1>1 DEF Inodes
    <2> QED BY <1>10, <1>11, <2>1
  <1> QED BY <1>12 DEF FreshInode

-----------------------------------------------------------------------------
(* Changes of the list and of the cache                                    *)

\* fd_list and the cache, as IInv wants them.
ListInv == fd_list \in Seq(Entry) /\ Distinct

CacheInv ==
  /\ last_m2file \in Descriptors \union {0} /\ last_fd \in Pointers \union {NULL}
  /\ last_fd = NULL <=> last_m2file = 0
  /\ last_fd # NULL => last_fd = Search(fd_list, last_m2file)

\* fs_open: a new entry, at an address that is free, becomes the newest.
LEMMA OpenedKeeps ==
  ASSUME IInv, Running, NEW m2 \in Descriptors, NEW name \in AllNames, NEW temp \in BOOLEAN,
         NEW write \in BOOLEAN, NEW ino \in Inodes, Opened(m2, name, temp, write, ino)
  PROVE  ListInv' /\ CacheInv' /\ res' \in 0 .. 1
  <1>1. PICK p \in Pointers :
          /\ \A i \in DOMAIN fd_list : fd_list[i].ptr # p
          /\ fd_list' = <<[ptr |-> p, m2file |-> m2, fname |-> name, temp |-> temp,
                           owner |-> running, write |-> write, ino |-> ino,
                           pos |-> 0, dirty |-> FALSE]>> \o fd_list
          /\ Cache(p, m2)
          /\ res' = 0
    BY DEF Opened
  <1> DEFINE e == [ptr |-> p, m2file |-> m2, fname |-> name, temp |-> temp,
                   owner |-> running, write |-> write, ino |-> ino,
                   pos |-> 0, dirty |-> FALSE]
  <1>2. e \in Entry /\ e.ptr = p /\ e.m2file = m2
    BY BoundAssumption DEF IInv, TypeOK, Running, Entry, EntryFor
  <1>3. fd_list' = <<e>> \o fd_list
    BY <1>1
  <1> HIDE DEF e
  <1>4. fd_list \in Seq(Entry) /\ fd_list' \in Seq(Entry) /\ Len(fd_list') = Len(fd_list) + 1
    BY <1>2, <1>3 DEF IInv, TypeOK
  <1>5. /\ DOMAIN fd_list' = 1 .. Len(fd_list) + 1 /\ DOMAIN fd_list = 1 .. Len(fd_list)
        /\ fd_list'[1] = e
        /\ \A i \in 2 .. Len(fd_list) + 1 : i - 1 \in DOMAIN fd_list /\ fd_list'[i] = fd_list[i - 1]
    BY <1>2, <1>3, <1>4
  <1>6. DistinctIn(fd_list')
    <2> SUFFICES ASSUME NEW i \in DOMAIN fd_list', NEW j \in DOMAIN fd_list',
                        fd_list'[i].ptr = fd_list'[j].ptr
                 PROVE  i = j
      BY DEF DistinctIn
    <2>1. CASE i = 1 \/ j = 1
      BY <1>1, <1>2, <1>5, <2>1
    <2>2. CASE i # 1 /\ j # 1
      <3>1. i - 1 = j - 1
        BY <1>5, <2>2 DEF IInv, Distinct, DistinctIn
      <3> QED BY <3>1, <1>5, <2>2
    <2> QED BY <2>1, <2>2
  <1>7. Search(fd_list', m2) = p
    <2>1. 1 \in DOMAIN fd_list' /\ \A j \in 1 .. 1 - 1 : fd_list'[j].m2file # m2
      BY <1>4, <1>5
    <2> QED BY <1>2, <1>4, <1>5, <2>1, FirstIsNewest
  <1>8. p # NULL /\ m2 # 0
    BY BoundAssumption, DescriptorAssumption
  <1> QED BY <1>1, <1>4, <1>6, <1>7, <1>8 DEF ListInv, Distinct, CacheInv, Cache

\* Changing an entry, but not its address or variable, leaves the order.
LEMMA ChangeKeeps ==
  ASSUME NEW list \in Seq(Entry), DistinctIn(list), NEW k \in DOMAIN list, NEW e \in Entry,
         e.ptr = list[k].ptr, e.m2file = list[k].m2file, NEW m2
  PROVE  LET new == [list EXCEPT ![k] = e]
         IN new \in Seq(Entry) /\ DistinctIn(new) /\ Search(new, m2) = Search(list, m2)
  <1> DEFINE new == [list EXCEPT ![k] = e]
  <1>1. new \in Seq(Entry) /\ Len(new) = Len(list) /\ DOMAIN new = DOMAIN list
    BY ListType
  <1>2. \A i \in DOMAIN list : new[i].ptr = list[i].ptr /\ new[i].m2file = list[i].m2file
    BY ListType
  <1> HIDE DEF new
  <1>3. DistinctIn(new)
    BY <1>1, <1>2 DEF DistinctIn
  <1>4. Search(new, m2) = Search(list, m2)
    BY <1>1, <1>2, SearchedAlike
  <1> QED BY <1>1, <1>3, <1>4 DEF new

\* The commands that change the entry they find.
LEMMA UseKeeps ==
  ASSUME IInv, NEW m2 \in Descriptors, Found(m2), NEW e \in Entry,
         e.ptr = Used(m2).ptr, e.m2file = Used(m2).m2file, Use(m2, e)
  PROVE  ListInv' /\ CacheInv'
  <1> DEFINE k == Position(Find(m2))
  <1>0. fd_list \in Seq(Entry) /\ DistinctIn(fd_list)
    BY DEF IInv, TypeOK, Distinct
  <1>1. /\ k \in DOMAIN fd_list /\ fd_list[k].m2file = m2 /\ fd_list[k].ptr = Find(m2)
        /\ Used(m2) = fd_list[k]
    BY FoundIsNewest DEF Used, EntryAt
  <1>2. fd_list' = [fd_list EXCEPT ![k] = e]
    BY DEF Use
  <1> HIDE DEF k
  <1>3. /\ fd_list' \in Seq(Entry) /\ DistinctIn(fd_list')
        /\ Search(fd_list', m2) = Search(fd_list, m2)
    <2>1. e.ptr = fd_list[k].ptr /\ e.m2file = fd_list[k].m2file /\ k \in DOMAIN fd_list
      BY <1>1
    <2> QED BY <1>0, <1>2, <2>1, ChangeKeeps
  <1>4. Find(m2) \in Pointers /\ Find(m2) # NULL /\ m2 # 0
    BY <1>0, <1>1, ListType, EntryFields, BoundAssumption, DescriptorAssumption
  <1>5. Find(m2) = Search(fd_list, m2)
    BY FindIsSearch
  <1> QED BY <1>3, <1>4, <1>5 DEF ListInv, Distinct, CacheInv, Use, Cache

\* The entry that a command finds.
LEMMA UsedEntry ==
  ASSUME IInv, NEW m2 \in Descriptors, Found(m2)
  PROVE  Used(m2) \in Entry /\ Used(m2) \in ToSet(fd_list)
  <1>1. fd_list \in Seq(Entry)
    BY DEF IInv, TypeOK
  <1> QED BY <1>1, FoundIsNewest, ListType DEF Used, EntryAt, ToSet

\* What RemoveAt leaves, element by element.
LEMMA Removed ==
  ASSUME NEW list \in Seq(Entry), NEW k \in DOMAIN list
  PROVE  LET new == RemoveAt(list, k)
         IN /\ new \in Seq(Entry) /\ Len(new) = Len(list) - 1
            /\ \A i \in DOMAIN new : LET j == IF i < k THEN i ELSE i + 1
                                     IN j \in DOMAIN list /\ j # k /\ new[i] = list[j]
            /\ \A j \in DOMAIN list \ {k} : LET i == IF j < k THEN j ELSE j - 1
                                            IN i \in DOMAIN new /\ new[i] = list[j]
  <1> DEFINE a == SubSeq(list, 1, k - 1)
             b == SubSeq(list, k + 1, Len(list))
  <1>0. k \in 1 .. Len(list) /\ Len(list) \in Nat
    BY ListType
  <1>1. /\ a \in Seq(Entry) /\ Len(a) = k - 1 /\ \A i \in 1 .. k - 1 : a[i] = list[i]
        /\ b \in Seq(Entry) /\ Len(b) = Len(list) - k
        /\ \A i \in 1 .. Len(list) - k : b[i] = list[k + i]
    BY <1>0
  <1>2. RemoveAt(list, k) = a \o b
    BY DEF RemoveAt
  <1> HIDE DEF a, b
  <1> DEFINE new == a \o b
  <1>3. /\ new \in Seq(Entry) /\ Len(new) = Len(list) - 1
        /\ \A i \in 1 .. k - 1 : new[i] = list[i]
        /\ \A i \in k .. Len(list) - 1 : new[i] = list[i + 1]
    <2>1. new \in Seq(Entry) /\ Len(new) = Len(list) - 1
      BY <1>0, <1>1
    <2>2. ASSUME NEW i \in 1 .. k - 1 PROVE new[i] = list[i]
      <3>1. i \in 1 .. Len(a)
        BY <1>0, <1>1
      <3>2. new[i] = a[i]
        BY <1>1, <3>1
      <3> QED BY <1>1, <3>2
    <2>3. ASSUME NEW i \in k .. Len(list) - 1 PROVE new[i] = list[i + 1]
      <3> DEFINE j == i - (k - 1)
      <3>1. j \in 1 .. Len(list) - k /\ (k - 1) + j = i /\ k + j = i + 1
        BY <1>0
      <3> HIDE DEF j
      <3>2. j \in 1 .. Len(b) /\ Len(a) + j = i
        BY <1>1, <3>1
      <3>3. new[Len(a) + j] = b[j]
        <4>1. a \in Seq(Entry) /\ b \in Seq(Entry)
          BY <1>1
        <4>2. (a \o b)[Len(a) + j] = b[j]
          BY <3>2, <4>1, Concatenated
        <4> QED BY <4>2
      <3>4. b[j] = list[k + j]
        BY <1>1, <3>1
      <3> QED BY <3>1, <3>2, <3>3, <3>4
    <2> QED BY <2>1, <2>2, <2>3
  <1> HIDE DEF new
  <1>4. DOMAIN new = 1 .. Len(list) - 1 /\ DOMAIN list = 1 .. Len(list)
    BY <1>3, ListType
  <1>5. ASSUME NEW i \in DOMAIN new
        PROVE  LET j == IF i < k THEN i ELSE i + 1
               IN j \in DOMAIN list /\ j # k /\ new[i] = list[j]
    BY <1>0, <1>3, <1>4
  <1>6. ASSUME NEW j \in DOMAIN list \ {k}
        PROVE  LET i == IF j < k THEN j ELSE j - 1
               IN i \in DOMAIN new /\ new[i] = list[j]
    <2>1. CASE j < k
      BY <1>0, <1>3, <1>4, <2>1
    <2>2. CASE ~ (j < k)
      <3>1. j - 1 \in k .. Len(list) - 1 /\ (j - 1) + 1 = j
        BY <1>0, <1>4, <2>2
      <3> QED BY <1>3, <1>4, <3>1, <2>2, <1>0
    <2> QED BY <2>1, <2>2
  <1> QED BY <1>2, <1>3, <1>5, <1>6 DEF new

\* What a removal leaves was there before.
LEMMA RemovedFrom ==
  ASSUME NEW list \in Seq(Entry), NEW k \in DOMAIN list, NEW i \in DOMAIN RemoveAt(list, k)
  PROVE  \E j \in DOMAIN list : j # k /\ RemoveAt(list, k)[i] = list[j]
  <1> DEFINE j == IF i < k THEN i ELSE i + 1
  <1>1. j \in DOMAIN list /\ j # k /\ RemoveAt(list, k)[i] = list[j]
    BY Removed
  <1> QED BY <1>1

\* All entries but the one that is removed are still there.
LEMMA RemovedKeeps ==
  ASSUME NEW list \in Seq(Entry), NEW k \in DOMAIN list, NEW j \in DOMAIN list \ {k}
  PROVE  \E h \in DOMAIN RemoveAt(list, k) : RemoveAt(list, k)[h] = list[j]
  <1> DEFINE new == RemoveAt(list, k)
  <1>1. \A i \in DOMAIN list \ {k} : LET h == IF i < k THEN i ELSE i - 1
                                    IN h \in DOMAIN new /\ new[h] = list[i]
    BY Removed
  <1> HIDE DEF new
  <1>2. \E h \in DOMAIN new : new[h] = list[j]
    BY <1>1
  <1> QED BY <1>2 DEF new

\* Removing one element of a list without repetitions leaves none of it.
LEMMA RemovedDistinct ==
  ASSUME NEW list \in Seq(Entry), DistinctIn(list), NEW k \in DOMAIN list
  PROVE  DistinctIn(RemoveAt(list, k))
  <1> DEFINE new == RemoveAt(list, k)
             old(i) == IF i < k THEN i ELSE i + 1
  <1>1. \A i \in DOMAIN new : old(i) \in DOMAIN list /\ new[i] = list[old(i)]
    BY Removed
  <1>2. DOMAIN new \subseteq Nat /\ k \in Nat
    <2>1. new \in Seq(Entry)
      BY Removed
    <2> QED BY <2>1, ListType
  <1> HIDE DEF new
  <1>3. \A i, j \in DOMAIN new : old(i) = old(j) => i = j
    BY <1>2
  <1>4. \A i, j \in DOMAIN new : new[i].ptr = new[j].ptr => old(i) = old(j)
    BY <1>1 DEF DistinctIn
  <1> QED BY <1>3, <1>4 DEF DistinctIn, new

\* Taking entries out leaves the others their addresses.
LEMMA OnlyDistinct ==
  ASSUME NEW list \in Seq(Entry), DistinctIn(list), NEW S
  PROVE  DistinctIn(Only(list, S))
  <1> DEFINE Q == {t \in Seq(Entry) : DistinctIn(t) => DistinctIn(Only(t, S))}
  <1>1. <<>> \in Q
    BY OnlyEmpty DEF DistinctIn
  <1>2. ASSUME NEW t \in Q, NEW e \in Entry PROVE Append(t, e) \in Q
    <2>0. t \in Seq(Entry) /\ Append(t, e) \in Seq(Entry) /\ Len(Append(t, e)) = Len(t) + 1
          /\ DOMAIN t = 1 .. Len(t) /\ DOMAIN Append(t, e) = 1 .. Len(t) + 1
          /\ Append(t, e)[Len(t) + 1] = e /\ \A i \in 1 .. Len(t) : Append(t, e)[i] = t[i]
      OBVIOUS
    <2> SUFFICES ASSUME DistinctIn(Append(t, e)) PROVE DistinctIn(Only(Append(t, e), S))
      BY <2>0
    <2>1. DistinctIn(t) /\ \A i \in DOMAIN t : t[i].ptr # e.ptr
      BY <2>0 DEF DistinctIn
    <2> DEFINE r == Only(t, S)
    <2>2. r \in Seq(Entry) /\ DistinctIn(r) /\ ToSet(r) \subseteq ToSet(t)
      <3>1. r \in Seq(Entry)
        BY <2>0, OnlyType
      <3>2. ToSet(r) = ToSet(t) \intersect S
        BY <2>0, OnlyElements
      <3> QED BY <2>1, <3>1, <3>2
    <2>3. \A i \in DOMAIN r : r[i].ptr # e.ptr
      BY <2>1, <2>2 DEF ToSet
    <2>4. Only(Append(t, e), S) = IF e \in S THEN Append(r, e) ELSE r
      BY <2>0, OnlyAppend
    <2> HIDE DEF r
    <2>5. DOMAIN r = 1 .. Len(r) /\ DOMAIN Append(r, e) = 1 .. Len(r) + 1
          /\ Append(r, e)[Len(r) + 1] = e /\ \A i \in 1 .. Len(r) : Append(r, e)[i] = r[i]
      BY <2>2
    <2>6. DistinctIn(Append(r, e))
      BY <2>2, <2>3, <2>5 DEF DistinctIn
    <2> QED BY <2>2, <2>4, <2>6
  <1>3. Q \in SUBSET Seq(Entry)
    OBVIOUS
  <1>4. list \in Q
    <2> HIDE DEF Q
    <2> QED BY <1>1, <1>2, <1>3, SeqInduction
  <1> QED BY <1>4

-----------------------------------------------------------------------------
(* Lengths of files                                                        *)

\* The larger of two numbers.
LEMMA MaxOfTwo ==
  ASSUME NEW a \in Int, NEW b \in Int
  PROVE  Max({a, b}) = IF a >= b THEN a ELSE b
  BY DEF Max

\* The smaller of two numbers.
LEMMA MinOfTwo ==
  ASSUME NEW a \in Int, NEW b \in Int
  PROVE  Min({a, b}) = IF a <= b THEN a ELSE b
  BY DEF Min

\* A set of positions has a greatest one.
LEMMA MaxOfSet ==
  ASSUME NEW n \in Nat, NEW S \in SUBSET (0 .. n), S # {}
  PROVE  Max(S) \in S
  <1> DEFINE N == {k \in Nat : n - k \in S}
  <1>1. \A x \in S : x \in 0 .. n /\ n - x \in Nat /\ n - (n - x) = x
    OBVIOUS
  <1>2. N \in SUBSET Nat /\ N # {}
    BY <1>1
  <1>3. PICK k \in N : \A j \in N : k <= j
    BY <1>2, Least
  <1>4. n - k \in S
    BY <1>3
  <1>5. \A y \in S : n - y \in N
    BY <1>1
  <1>6. \A y \in S : n - k >= y
    BY <1>1, <1>3, <1>5
  <1> QED BY <1>4, <1>6 DEF Max

\* A stream without its buffer is a stream.
LEMMA FlushedType ==
  ASSUME NEW sz \in [Inodes -> 0 .. MaxLen], NEW e \in Entry
  PROVE  Flushed(sz, e) \in [Inodes -> 0 .. MaxLen]
  <1>1. e.ino \in Inodes /\ e.pos \in 0 .. MaxLen /\ sz[e.ino] \in 0 .. MaxLen
    BY EntryFields
  <1>2. sz[e.ino] \in Int /\ e.pos \in Int
    BY <1>1
  <1>3. Max({sz[e.ino], e.pos}) \in 0 .. MaxLen
    BY <1>1, <1>2, MaxOfTwo
  <1> QED BY <1>3 DEF Flushed

\* What fread gets leaves the stream inside the bound of lengths.
LEMMA GotType ==
  ASSUME TypeOK, NEW e \in Entry, NEW n \in 1 .. 2
  PROVE  e.pos + Got(e, n) \in 0 .. MaxLen
  <1>1. e.ino \in Inodes /\ e.pos \in 0 .. MaxLen /\ size[e.ino] \in 0 .. MaxLen
    BY EntryFields DEF TypeOK
  <1>2. Max({0, size[e.ino] - e.pos}) = IF 0 >= size[e.ino] - e.pos THEN 0 ELSE size[e.ino] - e.pos
    BY <1>1, MaxOfTwo
  <1> DEFINE left == Max({0, size[e.ino] - e.pos})
  <1>3. left \in Nat /\ e.pos + left <= IF e.pos >= size[e.ino] THEN e.pos ELSE size[e.ino]
    BY <1>1, <1>2
  <1> HIDE DEF left
  <1>4. Min({n, left}) = IF n <= left THEN n ELSE left
    BY <1>3, MinOfTwo
  <1>5. Got(e, n) \in Nat /\ (Got(e, n) = 0 \/ Got(e, n) <= left)
    BY <1>3, <1>4 DEF Got, left
  <1> QED BY <1>1, <1>3, <1>5, BoundAssumption

-----------------------------------------------------------------------------
(* The inductive invariant                                                 *)

StoreInv == disk \in [AllNames -> Inodes \union {0}] /\ size \in [Inodes -> 0 .. MaxLen]

RestInv == running \in 0 .. Programs /\ res \in 0 .. 1 /\ status \in {"run", "error"}

\* The invariant in four parts.
LEMMA Parts ==
  IInv <=> ListInv /\ CacheInv /\ StoreInv /\ RestInv /\ by \in Descriptors \union {0}
  BY DEF IInv, TypeOK, CacheSound, ListInv, CacheInv, StoreInv, RestInv

\* The emulator starts with no file open.
LEMMA InitInv == Init => IInv
  <1> SUFFICES ASSUME Init PROVE IInv
    OBVIOUS
  <1>1. Cardinality(AllNames) \in Nat /\ Cardinality(Pointers) \in Nat
    BY FiniteAssumption, FS_CardinalityType DEF AllNames
  <1>2. StoreInv
    BY BoundAssumption DEF Init, StoreInv
  <1>3. ListInv
    BY DEF Init, ListInv, Distinct, DistinctIn
  <1> QED BY <1>2, <1>3, Parts, BoundAssumption DEF Init, CacheInv, RestInv

\* Create and Lookup.
LEMMA OpenKeeps ==
  ASSUME IInv, NEW m2 \in Descriptors,
         \/ Create(m2)
         \/ \E name \in Names : \/ \E new \in BOOLEAN : LookupOld(m2, name, new)
                               \/ LookupNew(m2, name)
                               \/ LookupFails(m2, name)
  PROVE  ListInv' /\ CacheInv' /\ StoreInv' /\ RestInv'
  <1>0. ListInv /\ CacheInv /\ StoreInv /\ RestInv /\ TypeOK /\ Distinct
    BY Parts DEF IInv
  <1>1. ASSUME NEW t \in AllNames, disk[t] = 0, NEW temp \in BOOLEAN,
               disk' = [disk EXCEPT ![t] = FreshInode], size' = [size EXCEPT ![FreshInode] = 0],
               Opened(m2, t, temp, TRUE, FreshInode), Running, UNCHANGED <<running, status>>
        PROVE  ListInv' /\ CacheInv' /\ StoreInv' /\ RestInv'
    <2>1. FreshInode \in Inodes
      BY <1>0, <1>1, FreshExists DEF Opened
    <2>2. ListInv' /\ CacheInv' /\ res' \in 0 .. 1
      BY <1>1, <2>1, OpenedKeeps
    <2>3. StoreInv'
      BY <1>0, <1>1, <2>1, BoundAssumption DEF StoreInv
    <2> QED BY <1>0, <1>1, <2>2, <2>3 DEF RestInv
  <1>2. CASE Create(m2)
    BY <1>1, <1>2 DEF Create, AllNames
  <1>3. ASSUME NEW name \in Names, NEW new \in BOOLEAN, LookupOld(m2, name, new)
        PROVE  ListInv' /\ CacheInv' /\ StoreInv' /\ RestInv'
    <2>1. name \in AllNames /\ disk[name] \in Inodes
      BY <1>0, <1>3 DEF LookupOld, StoreInv, AllNames
    <2>2. ListInv' /\ CacheInv' /\ res' \in 0 .. 1
      BY <1>3, <2>1, OpenedKeeps DEF LookupOld
    <2>3. StoreInv'
      BY <1>0, <1>3, <2>1, BoundAssumption DEF StoreInv, LookupOld
    <2> QED BY <1>0, <1>3, <2>2, <2>3 DEF RestInv, LookupOld
  <1>4. ASSUME NEW name \in Names, LookupNew(m2, name)
        PROVE  ListInv' /\ CacheInv' /\ StoreInv' /\ RestInv'
    BY <1>1, <1>4 DEF LookupNew, AllNames
  <1>5. ASSUME NEW name \in Names, LookupFails(m2, name)
        PROVE  ListInv' /\ CacheInv' /\ StoreInv' /\ RestInv'
    BY <1>0, <1>5
    DEF LookupFails, ListInv, Distinct, CacheInv, StoreInv, RestInv, cache, store
  <1> QED BY <1>2, <1>3, <1>4, <1>5

\* Closing, one file or all of a program: the cache is forgotten.
LEMMA CloseKeeps ==
  ASSUME IInv, NEW m2 \in Descriptors, Close(m2)
  PROVE  ListInv' /\ CacheInv' /\ StoreInv' /\ RestInv'
  <1>0. ListInv /\ CacheInv /\ StoreInv /\ RestInv
    BY Parts
  <1>1. CacheInv'
    BY DEF Close, Forget, Cache, CacheInv
  <1>2. CASE ~ Found(m2)
    BY <1>0, <1>1, <1>2 DEF Close, ListInv, Distinct, StoreInv, RestInv, store
  <1>3. CASE Found(m2)
    <2> DEFINE k == Position(Find(m2))
               e == EntryAt(Find(m2))
    <2>1. k \in DOMAIN fd_list /\ e \in Entry
      BY <1>3, FoundIsNewest, UsedEntry DEF Used
    <2>2. /\ fd_list' = RemoveAt(fd_list, k) /\ size' = Flushed(size, e)
          /\ disk' = Unlinked({e}) /\ res' = IF e.temp /\ disk[e.fname] = 0 THEN 1 ELSE 0
          /\ UNCHANGED <<running, status>>
      BY <1>3 DEF Close
    <2> HIDE DEF k, e
    <2>3. ListInv'
      BY <1>0, <2>1, <2>2, Removed, RemovedDistinct DEF ListInv, Distinct
    <2>4. StoreInv'
      BY <1>0, <2>1, <2>2, FlushedType DEF StoreInv, Unlinked
    <2> QED BY <1>0, <1>1, <2>2, <2>3, <2>4 DEF RestInv
  <1> QED BY <1>2, <1>3

\* The end of a program keeps the invariant, part by part.
LEMMA EndKeeps ==
  ASSUME IInv, EndProgram
  PROVE  ListInv' /\ CacheInv' /\ StoreInv' /\ RestInv'
  <1> DEFINE own == OwnedBy(running)
  <1>0. ListInv /\ CacheInv /\ StoreInv /\ RestInv
    BY Parts
  <1>1. CacheInv'
    BY DEF EndProgram, Forget, Cache, CacheInv
  <1>2. fd_list' = Only(fd_list, ToSet(fd_list) \ own)
    BY DEF EndProgram
  <1>3. ListInv'
    BY <1>0, <1>2, OnlyType, OnlyDistinct DEF ListInv, Distinct
  <1>4. disk' \in [AllNames -> Inodes \union {0}]
    BY <1>0 DEF EndProgram, Unlinked, StoreInv
  <1>5. size' \in [Inodes -> 0 .. MaxLen]
    <2> DEFINE P(i) == {size[i]} \union {e.pos : e \in {f \in own : f.ino = i /\ f.dirty}}
    <2>1. size' = [i \in Inodes |-> Max(P(i))]
      BY DEF EndProgram
    <2>2. \A e \in own : e \in Entry
      BY <1>0, ListType DEF OwnedBy, ToSet, ListInv
    <2>3. ASSUME NEW i \in Inodes PROVE Max(P(i)) \in 0 .. MaxLen
      <3>1. P(i) \in SUBSET (0 .. MaxLen) /\ P(i) # {}
        BY <1>0, <2>2, EntryFields DEF StoreInv
      <3> HIDE DEF P
      <3> QED BY <3>1, MaxOfSet, BoundAssumption
    <2> QED BY <2>1, <2>3
  <1>6. RestInv'
    BY <1>0, BoundAssumption DEF EndProgram, RestInv, Running
  <1> QED BY <1>1, <1>3, <1>4, <1>5, <1>6 DEF StoreInv

\* The commands that use an entry leave its address, variable and program.
Alike(f, e) == f.ptr = e.ptr /\ f.m2file = e.m2file /\ f.owner = e.owner

\* A command on an open file changes its entry, but neither pointer nor variable nor owner.
LEMMA UsedAlike ==
  ASSUME IInv, NEW m2 \in Descriptors,
         \/ \E name \in Names : Rename(m2, name)
         \/ MakeTemporary(m2)
         \/ SetMode(m2)
         \/ \E pos \in 0 .. MaxLen : SetPos(m2, pos)
         \/ \E n \in 1 .. 2 : Read(m2, n) \/ Write(m2, n)
  PROVE  /\ Found(m2)
         /\ \E f \in Entry : Use(m2, f) /\ Alike(f, Used(m2))
  <1> DEFINE e == Used(m2)
             Like(f) == f \in Entry /\ Alike(f, e)
  <1>1. Found(m2)
    BY DEF Rename, MakeTemporary, SetMode, SetPos, Read, Write
  <1>2. e \in Entry /\ e.m2file = m2
    BY <1>1, UsedEntry, FoundIsNewest DEF Used, EntryAt
  <1>3. ASSUME NEW f, Use(m2, f), Like(f)
        PROVE  \E g \in Entry : Use(m2, g) /\ Alike(g, e)
    BY <1>3
  <1>4. ASSUME NEW name \in Names, Rename(m2, name)
        PROVE  \E g \in Entry : Use(m2, g) /\ Alike(g, e)
    <2> DEFINE f == [e EXCEPT !.fname = name, !.temp = FALSE]
    <2>1. Like(f)
      BY <1>2 DEF Entry, EntryFor, Alike, AllNames
    <2>2. Use(m2, f)
      BY <1>4 DEF Rename
    <2> HIDE DEF f
    <2> QED BY <1>3, <2>1, <2>2
  <1>5. CASE MakeTemporary(m2)
    <2> DEFINE f == [e EXCEPT !.temp = TRUE]
    <2>1. Like(f)
      BY <1>2 DEF Entry, EntryFor, Alike
    <2>2. Use(m2, f)
      BY <1>5 DEF MakeTemporary
    <2> HIDE DEF f
    <2> QED BY <1>1, <1>3, <2>1, <2>2
  <1>6. CASE SetMode(m2)
    BY <1>1, <1>2, <1>3, <1>6 DEF SetMode, Alike
  <1>7. ASSUME NEW pos \in 0 .. MaxLen, SetPos(m2, pos)
        PROVE  \E g \in Entry : Use(m2, g) /\ Alike(g, e)
    <2> DEFINE f == [e EXCEPT !.pos = pos, !.dirty = FALSE]
    <2>1. Like(f)
      BY <1>2 DEF Entry, EntryFor, Alike
    <2>2. Use(m2, f)
      BY <1>7 DEF SetPos
    <2> HIDE DEF f
    <2> QED BY <1>3, <2>1, <2>2
  <1>8. ASSUME NEW n \in 1 .. 2, Read(m2, n)
        PROVE  \E g \in Entry : Use(m2, g) /\ Alike(g, e)
    <2> DEFINE f == [e EXCEPT !.pos = @ + Got(e, n)]
    <2>0. e.pos + Got(e, n) \in 0 .. MaxLen
      BY <1>2, GotType DEF IInv
    <2>1. Like(f)
      BY <1>2, <2>0 DEF Entry, EntryFor, Alike
    <2>2. Use(m2, f)
      BY <1>8 DEF Read
    <2> HIDE DEF f
    <2> QED BY <1>3, <2>1, <2>2
  <1>9. ASSUME NEW n \in 1 .. 2, Write(m2, n)
        PROVE  \E g \in Entry : Use(m2, g) /\ Alike(g, e)
    <2> DEFINE f == [e EXCEPT !.pos = @ + n, !.dirty = TRUE]
    <2>1. ASSUME e.pos + n <= MaxLen PROVE Like(f)
      <3>1. e.pos + n \in 0 .. MaxLen
        BY <1>2, <2>1, EntryFields, BoundAssumption
      <3> QED BY <1>2, <3>1 DEF Entry, EntryFor, Alike
    <2>2. (e.pos + n <= MaxLen /\ Use(m2, f)) \/ Use(m2, e)
      BY <1>9 DEF Write
    <2>3. Like(e)
      BY <1>2 DEF Alike
    <2> HIDE DEF f, Like
    <2> QED BY <1>3, <2>1, <2>2, <2>3
  <1> QED BY <1>1, <1>4, <1>5, <1>6, <1>7, <1>8, <1>9

\* The commands that leave the list as long as it is.
LEMMA ChangesKeep ==
  ASSUME IInv, NEW m2 \in Descriptors,
         \/ \E name \in Names : Rename(m2, name)
         \/ MakeTemporary(m2)
         \/ SetMode(m2)
         \/ \E pos \in 0 .. MaxLen : SetPos(m2, pos)
         \/ \E n \in 1 .. 2 : Read(m2, n) \/ Write(m2, n)
  PROVE  ListInv' /\ CacheInv' /\ StoreInv' /\ RestInv'
  <1>0. ListInv /\ CacheInv /\ StoreInv /\ RestInv /\ TypeOK /\ Distinct
    BY Parts DEF IInv
  <1> DEFINE e == Used(m2)
  <1>1. Found(m2)
    BY DEF Rename, MakeTemporary, SetMode, SetPos, Read, Write
  <1>2. e \in Entry
    BY <1>1, UsedEntry
  <1>3. /\ e.ptr \in Pointers /\ e.m2file \in Descriptors /\ e.fname \in AllNames
        /\ e.temp \in BOOLEAN /\ e.owner \in 1 .. Programs /\ e.write \in BOOLEAN
        /\ e.ino \in Inodes /\ e.pos \in 0 .. MaxLen /\ e.dirty \in BOOLEAN
    BY <1>2, EntryFields
  <1>4. ListInv' /\ CacheInv' /\ UNCHANGED <<running, status>>
    <2>1. PICK f \in Entry : Use(m2, f) /\ Alike(f, e)
      BY UsedAlike
    <2> QED BY <1>1, <2>1, UseKeeps DEF Alike, Use
  <1>5. ASSUME NEW name \in Names, Rename(m2, name) PROVE StoreInv' /\ res' \in 0 .. 1
    <2>1. disk' \in [AllNames -> Inodes \union {0}] /\ size' = size
      BY <1>0, <1>3, <1>5 DEF Rename, StoreInv
    <2>2. res' = 0 \/ res' = 1
      BY <1>5, Zenon DEF Rename
    <2> QED BY <1>0, <2>1, <2>2 DEF StoreInv
  <1>6. ASSUME MakeTemporary(m2) \/ SetMode(m2) PROVE StoreInv' /\ res' \in 0 .. 1
    <2>1. res' = 0 \/ res' = 1
      BY <1>6, Zenon DEF MakeTemporary, SetMode
    <2>2. UNCHANGED store
      BY <1>6, Zenon DEF MakeTemporary, SetMode
    <2> QED BY <1>0, <2>1, <2>2 DEF StoreInv, store
  <1>7. ASSUME NEW pos \in 0 .. MaxLen, SetPos(m2, pos) PROVE StoreInv' /\ res' \in 0 .. 1
    <2>1. Flushed(size, e) \in [Inodes -> 0 .. MaxLen]
      BY <1>0, <1>2, FlushedType DEF StoreInv
    <2>2. StoreInv'
      BY <1>0, <1>7, <2>1 DEF SetPos, StoreInv
    <2>3. res' = 0
      BY <1>7, Zenon DEF SetPos
    <2> QED BY <2>2, <2>3
  <1>8. ASSUME NEW n \in 1 .. 2, Read(m2, n) \/ Write(m2, n) PROVE StoreInv' /\ res' \in 0 .. 1
    BY <1>0, <1>8 DEF Read, Write, StoreInv, store
  <1> QED BY <1>0, <1>4, <1>5, <1>6, <1>7, <1>8 DEF RestInv

\* What happens beside the commands, and commands for what is not open.
LEMMA OthersKeep ==
  ASSUME IInv,
         (\E m2 \in Descriptors : NotOpen(m2)) \/ StartProgram \/ Flush
  PROVE  ListInv' /\ CacheInv' /\ StoreInv' /\ RestInv'
  <1>0. ListInv /\ CacheInv /\ StoreInv /\ RestInv
    BY Parts
  <1>1. ASSUME NEW m2 \in Descriptors, NotOpen(m2)
        PROVE  ListInv' /\ CacheInv' /\ StoreInv' /\ RestInv'
    <2>1. status' = "error"
      BY <1>1, FoundIsNewest DEF NotOpen
    <2> QED BY <1>0, <1>1, <2>1
        DEF NotOpen, ListInv, Distinct, CacheInv, StoreInv, RestInv, cache, store
  <1>2. CASE StartProgram
    BY <1>0, <1>2, BoundAssumption
    DEF StartProgram, Running, ListInv, Distinct, CacheInv, StoreInv, RestInv, cache, store
  <1>3. CASE Flush
    <2>1. PICK i \in DOMAIN fd_list : /\ size' = Flushed(size, fd_list[i])
                                      /\ fd_list' = [fd_list EXCEPT ![i].dirty = FALSE]
      BY <1>3 DEF Flush
    <2> DEFINE e == [fd_list[i] EXCEPT !.dirty = FALSE]
    <2>2. fd_list \in Seq(Entry) /\ DistinctIn(fd_list) /\ fd_list[i] \in Entry
      BY <1>0, ListType DEF ListInv, Distinct
    <2>3. e \in Entry /\ e.ptr = fd_list[i].ptr /\ e.m2file = fd_list[i].m2file
      BY <2>2 DEF Entry, EntryFor
    <2>4. fd_list' = [fd_list EXCEPT ![i] = e]
      BY <2>1
    <2> HIDE DEF e
    <2>5. fd_list' \in Seq(Entry) /\ DistinctIn(fd_list')
          /\ \A m2 : Search(fd_list', m2) = Search(fd_list, m2)
      BY <2>2, <2>3, <2>4, ChangeKeeps
    <2>6. size' \in [Inodes -> 0 .. MaxLen]
      BY <1>0, <2>1, <2>2, FlushedType DEF StoreInv
    <2>7. UNCHANGED <<last_m2file, last_fd, disk, running, res, status>>
      BY <1>3 DEF Flush, cache
    <2> QED BY <1>0, <2>5, <2>6, <2>7 DEF ListInv, Distinct, CacheInv, StoreInv, RestInv
  <1> QED BY <1>1, <1>2, <1>3

\* Every command, and the start and the end of a program, keep the invariant.
LEMMA StepInv == IInv /\ [Next]_vars => IInv'
  <1> SUFFICES ASSUME IInv, [Next]_vars PROVE IInv'
    OBVIOUS
  <1>0. ListInv /\ CacheInv /\ StoreInv /\ RestInv /\ by \in Descriptors \union {0}
    BY Parts
  <1>1. (ListInv' /\ CacheInv' /\ StoreInv' /\ RestInv' /\ by' \in Descriptors \union {0}) => IInv'
    BY DEF IInv, TypeOK, CacheSound, ListInv, CacheInv, StoreInv, RestInv
  <1>2. ASSUME NEW m2 \in Descriptors, Command(m2), by' = m2 PROVE IInv'
    <2>1. CASE \/ Create(m2)
               \/ \E name \in Names : \/ \E new \in BOOLEAN : LookupOld(m2, name, new)
                                     \/ LookupNew(m2, name)
                                     \/ LookupFails(m2, name)
      BY <1>1, <1>2, <2>1, OpenKeeps
    <2>2. CASE Close(m2)
      BY <1>1, <1>2, <2>2, CloseKeeps
    <2>3. CASE NotOpen(m2)
      BY <1>1, <1>2, <2>3, OthersKeep
    <2>4. CASE \/ \E name \in Names : Rename(m2, name)
               \/ MakeTemporary(m2)
               \/ SetMode(m2)
               \/ \E pos \in 0 .. MaxLen : SetPos(m2, pos)
               \/ \E n \in 1 .. 2 : Read(m2, n) \/ Write(m2, n)
      BY <1>1, <1>2, <2>4, ChangesKeep
    <2> QED BY <1>2, <2>1, <2>2, <2>3, <2>4 DEF Command
  <1>3. CASE (StartProgram \/ EndProgram \/ Flush) /\ by' = 0
    BY <1>1, <1>3, EndKeeps, OthersKeep
  <1>4. CASE UNCHANGED vars
    BY <1>0, <1>1, <1>4
    DEF vars, cache, store, ListInv, Distinct, CacheInv, StoreInv, RestInv
  <1> QED BY <1>2, <1>3, <1>4 DEF Next

\* TypeOK of Files: every variable keeps its type.
THEOREM FilesTypeOK == Spec => []TypeOK
  <1>1. IInv => TypeOK
    BY DEF IInv
  <1> QED BY <1>1, InitInv, StepInv, PTL DEF Spec

\* CacheSound: fs_find_fd (le_filesys.c:78) finds through its cache what it
\* would find in the list, in any order of opening, closing and ending.
THEOREM FilesCacheSound == Spec => []CacheSound
  <1>1. IInv => CacheSound
    BY DEF IInv
  <1> QED BY <1>1, InitInv, StepInv, PTL DEF Spec

-----------------------------------------------------------------------------
(* Temporary files and the owners of files                                 *)

\* A name from mkstemp is on the disk only while an entry holds it, and entries
\* belong to programs that run.
Held == TempsDeleted /\ NoOrphanFiles

\* What Create and Lookup do to the list.
LEMMA OpenedHeld ==
  ASSUME IInv, Held, Running, NEW m2 \in Descriptors, NEW name \in AllNames,
         NEW temp \in BOOLEAN, NEW write \in BOOLEAN, NEW ino,
         Opened(m2, name, temp, write, ino), running' = running,
         \A t \in TempNames : disk'[t] # 0 => disk[t] # 0 \/ (temp = TRUE /\ name = t)
  PROVE  Held'
  <1>1. PICK p \in Pointers :
          fd_list' = <<[ptr |-> p, m2file |-> m2, fname |-> name, temp |-> temp,
                        owner |-> running, write |-> write, ino |-> ino,
                        pos |-> 0, dirty |-> FALSE]>> \o fd_list
    BY DEF Opened
  <1> DEFINE e == [ptr |-> p, m2file |-> m2, fname |-> name, temp |-> temp,
                   owner |-> running, write |-> write, ino |-> ino,
                   pos |-> 0, dirty |-> FALSE]
  <1>2. fd_list' = <<e>> \o fd_list
    BY <1>1
  <1>3. e.fname = name /\ e.temp = temp /\ e.owner = running
    OBVIOUS
  <1>4. fd_list \in Seq(Entry)
    BY DEF IInv, TypeOK
  <1> HIDE DEF e
  <1>5. /\ DOMAIN fd_list' = 1 .. Len(fd_list) + 1 /\ DOMAIN fd_list = 1 .. Len(fd_list)
        /\ Len(fd_list) \in Nat
        /\ fd_list'[1] = e
        /\ \A i \in 1 .. Len(fd_list) : fd_list'[i + 1] = fd_list[i]
    BY <1>2, <1>4
  <1>6. \A i \in DOMAIN fd_list : i + 1 \in DOMAIN fd_list' /\ fd_list'[i + 1] = fd_list[i]
    BY <1>5
  <1>7. \A i \in DOMAIN fd_list' : i = 1 \/ (i - 1 \in DOMAIN fd_list /\ fd_list'[i] = fd_list[i - 1])
    BY <1>5
  <1>8. ASSUME NEW t \in TempNames, disk'[t] # 0
        PROVE  \E i \in DOMAIN fd_list' : fd_list'[i].temp /\ fd_list'[i].fname = t
    <2>1. CASE temp = TRUE /\ name = t
      <3>1. e.temp /\ e.fname = t
        BY <1>3, <2>1, Zenon
      <3>2. 1 \in DOMAIN fd_list'
        BY <1>5
      <3> QED BY <1>5, <3>1, <3>2, Zenon
    <2>2. CASE disk[t] # 0
      BY <1>6, <2>2 DEF Held, TempsDeleted
    <2> QED BY <1>8, <2>1, <2>2
  <1>9. running \in 1 .. Programs
    BY BoundAssumption DEF IInv, TypeOK, Running
  <1>10. ASSUME NEW i \in DOMAIN fd_list' PROVE fd_list'[i].owner \in 1 .. running'
    BY <1>3, <1>5, <1>7, <1>9 DEF Held, NoOrphanFiles
  <1> QED BY <1>8, <1>10 DEF Held, TempsDeleted, NoOrphanFiles

\* What the commands do that change one entry of the list, k, to e.
LEMMA ChangedHeld ==
  ASSUME IInv, Held, NEW k \in DOMAIN fd_list, NEW e,
         fd_list' = [fd_list EXCEPT ![k] = e], running' = running,
         e.owner = fd_list[k].owner,
         \A t \in TempNames : disk'[t] # 0
           => disk[t] # 0 /\ (fd_list[k].temp /\ fd_list[k].fname = t => e.temp /\ e.fname = t)
  PROVE  Held'
  <1>1. fd_list \in Seq(Entry)
    BY DEF IInv, TypeOK
  <1>2. DOMAIN fd_list' = DOMAIN fd_list
        /\ \A i \in DOMAIN fd_list : fd_list'[i] = IF i = k THEN e ELSE fd_list[i]
    BY <1>1
  <1>3. ASSUME NEW t \in TempNames, disk'[t] # 0
        PROVE  \E i \in DOMAIN fd_list' : fd_list'[i].temp /\ fd_list'[i].fname = t
    <2>1. PICK i \in DOMAIN fd_list : fd_list[i].temp /\ fd_list[i].fname = t
      BY <1>3 DEF Held, TempsDeleted
    <2> QED BY <1>2, <1>3, <2>1
  <1>4. ASSUME NEW i \in DOMAIN fd_list' PROVE fd_list'[i].owner \in 1 .. running'
    BY <1>2 DEF Held, NoOrphanFiles
  <1> QED BY <1>3, <1>4 DEF Held, TempsDeleted, NoOrphanFiles

\* Every command keeps temporary and orphan files where they belong (Held).
LEMMA CommandHeld ==
  ASSUME IInv, Held, NEW m2 \in Descriptors, Command(m2)
  PROVE  Held'
  <1>0. fd_list \in Seq(Entry) /\ disk \in [AllNames -> Inodes \union {0}]
        /\ \A n \in Names : n \in AllNames /\ n \notin TempNames
    BY NameAssumption DEF IInv, TypeOK, AllNames
  <1>1. CASE Create(m2)
    <2>1. PICK name \in TempNames : disk' = [disk EXCEPT ![name] = FreshInode]
                                    /\ Opened(m2, name, TRUE, TRUE, FreshInode)
      BY <1>1 DEF Create
    <2>2. \A u \in TempNames : disk'[u] # 0 => disk[u] # 0 \/ (TRUE = TRUE /\ name = u)
      BY <1>0, <2>1 DEF AllNames
    <2>3. Running /\ running' = running
      BY <1>1 DEF Create
    <2>4. name \in AllNames
      BY DEF AllNames
    <2> QED BY <2>1, <2>2, <2>3, <2>4, OpenedHeld
  <1>2. ASSUME NEW name \in Names, NEW new \in BOOLEAN, LookupOld(m2, name, new) PROVE Held'
    BY <1>0, <1>2, OpenedHeld DEF LookupOld
  <1>3. ASSUME NEW name \in Names, LookupNew(m2, name) PROVE Held'
    <2>1. \A u \in TempNames : disk'[u] # 0 => disk[u] # 0 \/ (FALSE = TRUE /\ name = u)
      BY <1>0, <1>3 DEF LookupNew, AllNames
    <2> QED BY <1>0, <1>3, <2>1, OpenedHeld DEF LookupNew
  <1>4. CASE (\E name \in Names : LookupFails(m2, name)) \/ NotOpen(m2)
    BY <1>4 DEF LookupFails, NotOpen, Held, TempsDeleted, NoOrphanFiles, store
  <1>5. CASE Close(m2)
    <2>1. CASE ~ Found(m2)
      BY <1>5, <2>1 DEF Close, Held, TempsDeleted, NoOrphanFiles, store
    <2>2. CASE Found(m2)
      <3> DEFINE k == Position(Find(m2))
                 e == fd_list[k]
      <3>1. k \in DOMAIN fd_list
        BY <2>2, FoundIsNewest
      <3>2. fd_list' = RemoveAt(fd_list, k) /\ disk' = Unlinked({e}) /\ running' = running
        BY <1>5, <2>2 DEF Close, EntryAt
      <3> HIDE DEF k
      <3>3. ASSUME NEW t \in TempNames, disk'[t] # 0
            PROVE  \E i \in DOMAIN fd_list' : fd_list'[i].temp /\ fd_list'[i].fname = t
        <4>1. disk[t] # 0 /\ ~ (e.temp /\ e.fname = t)
          BY <3>2, <3>3 DEF Unlinked, AllNames
        <4>2. PICK i \in DOMAIN fd_list : fd_list[i].temp /\ fd_list[i].fname = t
          BY <4>1 DEF Held, TempsDeleted
        <4>3. i \in DOMAIN fd_list \ {k}
          BY <4>1, <4>2
        <4>4. \A j \in DOMAIN fd_list \ {k} : \E h \in DOMAIN fd_list' : fd_list'[h] = fd_list[j]
          BY <1>0, <3>1, <3>2, RemovedKeeps
        <4> QED BY <4>2, <4>3, <4>4
      <3>4. ASSUME NEW i \in DOMAIN fd_list' PROVE fd_list'[i].owner \in 1 .. running'
        <4>1. PICK j \in DOMAIN fd_list : fd_list'[i] = fd_list[j]
          BY <1>0, <3>1, <3>2, RemovedFrom
        <4> QED BY <3>2, <4>1 DEF Held, NoOrphanFiles
      <3> QED BY <3>3, <3>4 DEF Held, TempsDeleted, NoOrphanFiles
    <2> QED BY <2>1, <2>2
  <1> DEFINE k == Position(Find(m2))
             e == Used(m2)
  <1>6. Found(m2) => k \in DOMAIN fd_list /\ e = fd_list[k] /\ e \in Entry
    BY FoundIsNewest, UsedEntry DEF Used, EntryAt
  <1>7. ASSUME NEW f, Found(m2), Use(m2, f), f.owner = e.owner, disk' = disk, e.temp => f.temp,
               f.fname = e.fname
        PROVE  Held'
    <2>1. fd_list' = [fd_list EXCEPT ![k] = f] /\ running' = running
      BY <1>7 DEF Use
    <2> HIDE DEF k, e
    <2>2. \A t \in TempNames : disk'[t] # 0
            => disk[t] # 0 /\ (fd_list[k].temp /\ fd_list[k].fname = t => f.temp /\ f.fname = t)
      BY <1>6, <1>7, Zenon
    <2> QED BY <1>6, <1>7, <2>1, <2>2, ChangedHeld
  <1>8. ASSUME NEW name \in Names, Rename(m2, name) PROVE Held'
    <2> DEFINE f == [e EXCEPT !.fname = name, !.temp = FALSE]
    <2>1. Found(m2) /\ Use(m2, f)
      BY <1>8 DEF Rename
    <2>2. fd_list' = [fd_list EXCEPT ![k] = f] /\ running' = running
      BY <2>1 DEF Use
    <2>3. f.owner = e.owner /\ e.fname \in AllNames
      BY <1>6, <2>1, EntryFields DEF Entry, EntryFor
    <2>4. \A t \in TempNames : disk'[t] # 0 => disk[t] # 0 /\ e.fname # t
      BY <1>0, <1>8, <2>3 DEF Rename, AllNames
    <2> HIDE DEF k, e, f
    <2> QED BY <1>6, <2>1, <2>2, <2>3, <2>4, ChangedHeld
  <1>9. CASE MakeTemporary(m2)
    <2> DEFINE f == [e EXCEPT !.temp = TRUE]
    <2>1. Found(m2) /\ Use(m2, f) /\ disk' = disk
      BY <1>9 DEF MakeTemporary, store
    <2>2. f.owner = e.owner /\ f.temp = TRUE /\ f.fname = e.fname
      BY <1>6, <2>1 DEF Entry, EntryFor
    <2> QED BY <1>7, <2>1, <2>2
  <1>10. CASE SetMode(m2)
    BY <1>7, <1>10 DEF SetMode, store
  <1>11. ASSUME NEW pos \in 0 .. MaxLen, SetPos(m2, pos) PROVE Held'
    <2> DEFINE f == [e EXCEPT !.pos = pos, !.dirty = FALSE]
    <2>1. Found(m2) /\ Use(m2, f) /\ disk' = disk
      BY <1>11 DEF SetPos
    <2>2. f.owner = e.owner /\ f.temp = e.temp /\ f.fname = e.fname
      BY <1>6, <2>1 DEF Entry, EntryFor
    <2> QED BY <1>7, <2>1, <2>2
  <1>12. ASSUME NEW n \in 1 .. 2, Read(m2, n) PROVE Held'
    <2> DEFINE f == [e EXCEPT !.pos = @ + Got(e, n)]
    <2>1. Found(m2) /\ Use(m2, f) /\ disk' = disk
      BY <1>12 DEF Read, store
    <2>2. f.owner = e.owner /\ f.temp = e.temp /\ f.fname = e.fname
      BY <1>6, <2>1 DEF Entry, EntryFor
    <2> QED BY <1>7, <2>1, <2>2
  <1>13. ASSUME NEW n \in 1 .. 2, Write(m2, n) PROVE Held'
    <2> DEFINE f == [e EXCEPT !.pos = @ + n, !.dirty = TRUE]
    <2>1. Found(m2) /\ (Use(m2, f) \/ Use(m2, e)) /\ disk' = disk
      BY <1>13 DEF Write, store
    <2>2. f.owner = e.owner /\ f.temp = e.temp /\ f.fname = e.fname
      BY <1>6, <2>1 DEF Entry, EntryFor
    <2> QED BY <1>7, <2>1, <2>2
  <1> QED BY <1>1, <1>2, <1>3, <1>4, <1>5, <1>8, <1>9, <1>10, <1>11, <1>12, <1>13 DEF Command

\* The same for every step.
LEMMA StepHeld == IInv /\ Held /\ [Next]_vars => Held'
  <1> SUFFICES ASSUME IInv, Held, [Next]_vars PROVE Held'
    OBVIOUS
  <1>0. fd_list \in Seq(Entry) /\ running \in Nat
    BY BoundAssumption DEF IInv, TypeOK
  <1>1. ASSUME NEW m2 \in Descriptors, Command(m2) PROVE Held'
    BY <1>1, CommandHeld
  <1>2. CASE StartProgram
    BY <1>0, <1>2 DEF StartProgram, Held, TempsDeleted, NoOrphanFiles, store
  <1>3. CASE Flush
    <2>1. PICK i \in DOMAIN fd_list : fd_list' = [fd_list EXCEPT ![i].dirty = FALSE]
      BY <1>3 DEF Flush
    <2> DEFINE e == [fd_list[i] EXCEPT !.dirty = FALSE]
    <2>2. e.owner = fd_list[i].owner /\ e.temp = fd_list[i].temp /\ e.fname = fd_list[i].fname
      BY <1>0, ListType DEF Entry, EntryFor
    <2>3. fd_list' = [fd_list EXCEPT ![i] = e] /\ UNCHANGED <<disk, running>>
      BY <1>3, <2>1 DEF Flush
    <2> HIDE DEF e
    <2> QED BY <2>2, <2>3, ChangedHeld
  <1>4. CASE EndProgram
    <2> DEFINE own == OwnedBy(running)
               S == ToSet(fd_list) \ own
    <2>1. fd_list' = Only(fd_list, S) /\ disk' = Unlinked(own) /\ running' = running - 1
      BY <1>4 DEF EndProgram
    <2>2. ToSet(fd_list') = S
      BY <1>0, <2>1, OnlyElements
    <2>3. ASSUME NEW t \in TempNames, disk'[t] # 0
          PROVE  \E i \in DOMAIN fd_list' : fd_list'[i].temp /\ fd_list'[i].fname = t
      <3>1. disk[t] # 0 /\ ~ \E e \in own : e.temp /\ e.fname = t
        BY <2>1, <2>3 DEF Unlinked, AllNames
      <3>2. PICK i \in DOMAIN fd_list : fd_list[i].temp /\ fd_list[i].fname = t
        BY <3>1 DEF Held, TempsDeleted
      <3>3. fd_list[i] \in S
        BY <3>1, <3>2 DEF ToSet
      <3> QED BY <2>2, <3>2, <3>3 DEF ToSet
    <2>4. ASSUME NEW i \in DOMAIN fd_list' PROVE fd_list'[i].owner \in 1 .. running'
      <3>1. fd_list'[i] \in S
        BY <2>2 DEF ToSet
      <3>2. PICK j \in DOMAIN fd_list : fd_list[j] = fd_list'[i]
        BY <3>1 DEF ToSet
      <3>3. fd_list[j].owner # running /\ fd_list[j].owner \in 1 .. running
        BY <3>1, <3>2 DEF OwnedBy, Held, NoOrphanFiles
      <3> QED BY <1>0, <2>1, <3>2, <3>3
    <2> QED BY <2>3, <2>4 DEF Held, TempsDeleted, NoOrphanFiles
  <1>5. CASE UNCHANGED vars
    BY <1>5 DEF vars, store, Held, TempsDeleted, NoOrphanFiles
  <1> QED BY <1>1, <1>2, <1>3, <1>4, <1>5 DEF Next

\* At first no file is open.
LEMMA InitHeld == Init => Held
  BY DEF Init, Held, TempsDeleted, NoOrphanFiles, AllNames

\* TempsDeleted: "a temporary file will hereby be destroyed"
\* (FileSystem.DEF:90), however it is renamed and whoever closes it.
THEOREM FilesTempsDeleted == Spec => []TempsDeleted
  <1>1. Held => TempsDeleted
    BY DEF Held
  <1> QED BY <1>1, InitInv, StepInv, InitHeld, StepHeld, PTL DEF Spec

\* NoOrphanFiles: fs_close_all leaves no file of a program that has ended, at
\* any depth of programs that start programs.
THEOREM FilesNoOrphans == Spec => []NoOrphanFiles
  <1>1. Held => NoOrphanFiles
    BY DEF Held
  <1> QED BY <1>1, InitInv, StepInv, InitHeld, StepHeld, PTL DEF Spec

-----------------------------------------------------------------------------
(* Files implements FilesSpec: the File variables do not interfere         *)

\* A list around its entry k: with another entry there, and without it.
LEMMA Around ==
  ASSUME NEW list \in Seq(Entry), NEW k \in DOMAIN list, NEW e \in Entry
  PROVE  LET a == SubSeq(list, 1, k - 1)
             b == SubSeq(list, k + 1, Len(list))
         IN /\ a \in Seq(Entry) /\ b \in Seq(Entry)
            /\ \A i \in DOMAIN a : i \in 1 .. k - 1 /\ a[i] = list[i]
            /\ list = a \o <<list[k]>> \o b
            /\ [list EXCEPT ![k] = e] = a \o <<e>> \o b
            /\ RemoveAt(list, k) = a \o b
  <1> DEFINE a == SubSeq(list, 1, k - 1)
             b == SubSeq(list, k + 1, Len(list))
  <1>0. k \in 1 .. Len(list) /\ Len(list) \in Nat /\ list[k] \in Entry
    BY ListType
  <1>1. /\ a \in Seq(Entry) /\ Len(a) = k - 1 /\ \A i \in 1 .. k - 1 : a[i] = list[i]
        /\ b \in Seq(Entry) /\ Len(b) = Len(list) - k
        /\ \A i \in 1 .. Len(list) - k : b[i] = list[k + i]
    BY <1>0
  <1>2. RemoveAt(list, k) = a \o b
    BY DEF RemoveAt
  <1> HIDE DEF a, b
  <1>3. ASSUME NEW x \in Entry, NEW new \in Seq(Entry), Len(new) = Len(list), new[k] = x,
               \A i \in 1 .. Len(list) : i # k => new[i] = list[i]
        PROVE  new = a \o <<x>> \o b
    <2> DEFINE t == a \o <<x>> \o b
    <2>1. t \in Seq(Entry) /\ Len(t) = Len(list)
      BY <1>0, <1>1
    <2>2. ASSUME NEW i \in 1 .. Len(list) PROVE new[i] = t[i]
      <3>1. CASE i < k
        <4>1. i \in 1 .. k - 1 /\ i # k
          BY <1>0, <3>1
        <4>2. t[i] = a[i]
          BY <1>0, <1>1, <4>1
        <4> QED BY <1>1, <1>3, <4>1, <4>2
      <3>2. CASE i = k
        BY <1>0, <1>1, <1>3, <3>2
      <3>3. CASE i > k
        <4>1. i - k \in 1 .. Len(list) - k /\ k + (i - k) = i
          BY <1>0, <3>3
        <4>2. t[i] = b[i - k]
          <5> DEFINE c == a \o <<x>>
                     j == i - k
          <5>1. c \in Seq(Entry) /\ Len(c) = k
            BY <1>0, <1>1
          <5>2. t = c \o b
            OBVIOUS
          <5>3. j \in 1 .. Len(b) /\ Len(c) + j = i
            BY <1>1, <4>1, <5>1
          <5> HIDE DEF c, t, j
          <5>4. c \in Seq(Entry) /\ b \in Seq(Entry)
            BY <1>1, <5>1
          <5>5. (c \o b)[Len(c) + j] = b[j]
            BY <5>3, <5>4, Concatenated
          <5> QED BY <5>2, <5>3, <5>5 DEF j
        <4>3. b[i - k] = list[i]
          BY <1>1, <4>1
        <4>4. i # k
          BY <1>0, <3>3
        <4> QED BY <1>3, <4>2, <4>3, <4>4
      <3>4. i < k \/ i = k \/ i > k
        BY <1>0
      <3> QED BY <3>1, <3>2, <3>3, <3>4
    <2> HIDE DEF t
    <2>3. new = t
      BY <1>3, <2>1, <2>2, SameSequence
    <2> QED BY <2>3 DEF t
  <1>4. list = a \o <<list[k]>> \o b
    BY <1>0, <1>3
  <1>5. [list EXCEPT ![k] = e] = a \o <<e>> \o b
    <2> DEFINE new == [list EXCEPT ![k] = e]
    <2>1. /\ new \in Seq(Entry) /\ Len(new) = Len(list) /\ new[k] = e
          /\ \A i \in 1 .. Len(list) : i # k => new[i] = list[i]
      BY <1>0
    <2> HIDE DEF new
    <2>2. new = a \o <<e>> \o b
      BY <1>3, <2>1
    <2> QED BY <2>2 DEF new
  <1>6. \A i \in DOMAIN a : i \in 1 .. k - 1 /\ a[i] = list[i]
    BY <1>0, <1>1
  <1> QED BY <1>1, <1>2, <1>4, <1>5, <1>6 DEF a, b

\* The entries for a variable.
For(m) == EntryFor({m})

\* The entries of one File variable.
LEMMA ForVariable ==
  ASSUME NEW e \in Entry, NEW m
  PROVE  e \in For(m) <=> e.m2file = m
  BY DEF For, Entry, EntryFor

\* What is open for a variable is a part of the list.
LEMMA OpenForIs ==
  ASSUME NEW m
  PROVE  OpenFor(m) = Only(fd_list, For(m)) /\ OpenFor(m)' = Only(fd_list', For(m))
  BY DEF OpenFor, For

\* What is kept of a list with x inside.
LEMMA OnlyThree ==
  ASSUME NEW before \in Seq(Entry), NEW after \in Seq(Entry), NEW x \in Entry, NEW S
  PROVE  Only(before \o <<x>> \o after, S)
           = IF x \in S THEN Only(before, S) \o <<x>> \o Only(after, S)
             ELSE Only(before \o after, S)
  <1> DEFINE o == <<x>>
             c == before \o o
  <1>1. o \in Seq(Entry) /\ c \in Seq(Entry)
    OBVIOUS
  <1>2. Only(o, S) = IF x \in S THEN <<x>> ELSE <<>>
    BY OnlyOne
  <1> HIDE DEF o
  <1>3. Only(c, S) = Only(before, S) \o Only(o, S)
    <2>1. Only(before \o o, S) = Only(before, S) \o Only(o, S)
      BY <1>1, OnlyConcat
    <2> QED BY <2>1
  <1> HIDE DEF c
  <1>4. Only(c \o after, S) = Only(c, S) \o Only(after, S)
    <2>1. c \in Seq(Entry)
      BY <1>1
    <2> QED BY <2>1, OnlyConcat
  <1>5. Only(before \o after, S) = Only(before, S) \o Only(after, S)
    BY OnlyConcat
  <1>6. Only(before, S) \in Seq(Entry) /\ Only(after, S) \in Seq(Entry)
    BY OnlyType
  <1>7. CASE x \in S
    BY <1>2, <1>3, <1>4, <1>7 DEF c, o
  <1>8. CASE x \notin S
    <2>1. Only(before, S) \o <<>> = Only(before, S)
      BY <1>6
    <2> QED BY <1>2, <1>3, <1>4, <1>5, <1>8, <2>1 DEF c, o
  <1> QED BY <1>7, <1>8

\* An entry for the variable is kept, one for another is not.
LEMMA OnlyWith ==
  ASSUME NEW before \in Seq(Entry), NEW after \in Seq(Entry), NEW x \in Entry
  PROVE  Only(before \o <<x>> \o after, For(x.m2file))
           = Only(before, For(x.m2file)) \o <<x>> \o Only(after, For(x.m2file))
  <1> DEFINE S == For(x.m2file)
  <1>1. x \in S
    BY ForVariable
  <1> HIDE DEF S
  <1>2. Only(before \o <<x>> \o after, S)
          = IF x \in S THEN Only(before, S) \o <<x>> \o Only(after, S)
            ELSE Only(before \o after, S)
    BY OnlyThree
  <1>3. Only(before \o <<x>> \o after, S) = Only(before, S) \o <<x>> \o Only(after, S)
    BY <1>1, <1>2, Zenon
  <1> QED BY <1>3 DEF S

\* An entry of another variable is not seen.
LEMMA OnlyWithout ==
  ASSUME NEW before \in Seq(Entry), NEW after \in Seq(Entry), NEW x \in Entry,
         NEW m, x.m2file # m
  PROVE  Only(before \o <<x>> \o after, For(m)) = Only(before \o after, For(m))
  <1>1. x \notin For(m)
    BY ForVariable
  <1> QED BY <1>1, OnlyThree

\* Nothing is kept of entries for other variables.
LEMMA OnlyAfter ==
  ASSUME NEW before \in Seq(Entry), NEW after \in Seq(Entry), NEW m,
         \A i \in DOMAIN before : before[i].m2file # m
  PROVE  Only(before, For(m)) = <<>> /\ Only(before \o after, For(m)) = Only(after, For(m))
  <1>1. ASSUME NEW e \in ToSet(before) PROVE e \notin For(m)
    <2>1. e \in Entry /\ e.m2file # m
      BY <1>1 DEF ToSet
    <2> QED BY <2>1, ForVariable
  <1> DEFINE S == For(m)
  <1>2. ToSet(before) \intersect S = {}
    BY <1>1
  <1> HIDE DEF S
  <1>3. Only(before, S) = <<>>
    BY <1>2, OnlyNone
  <1>4. Only(before \o after, S) = Only(before, S) \o Only(after, S)
    BY OnlyConcat
  <1>5. Only(after, S) \in Seq(Entry)
    BY OnlyType
  <1> QED BY <1>3, <1>4, <1>5 DEF S

\* Only and ToSet of FilesSpec are those of Files.
LEMMA SameOnly ==
  ASSUME NEW s, NEW S
  PROVE  Abstract!Only(s, S) = Only(s, S) /\ Abstract!ToSet(s) = ToSet(s)
  BY DEF Abstract!Only, Abstract!Kept, Only, Kept, Abstract!ToSet, ToSet

\* At first every stack is empty.
LEMMA StackInit == Init => Abstract!Init
  <1> SUFFICES ASSUME Init PROVE Abstract!Init
    OBVIOUS
  <1>1. \A m \in Descriptors : OpenFor(m) = <<>>
    BY OnlyEmpty DEF Init, OpenFor
  <1> QED BY <1>1 DEF Init, Abstract!Init, Stacks

\* A step for one variable, as FilesSpec has it.
LEMMA CommandStep ==
  ASSUME NEW m2 \in Descriptors, by' = m2,
         Abstract!Command(OpenFor(m2), OpenFor(m2)'),
         \A m \in Descriptors \ {m2} : OpenFor(m)' = OpenFor(m)
  PROVE  Abstract!Next
  BY DEF Abstract!Next, Stacks

\* The stack of a File variable is a list of entries.
LEMMA OpenForType ==
  ASSUME IInv, NEW m
  PROVE  OpenFor(m) \in Seq(Entry)
  BY OnlyType, OpenForIs DEF IInv, TypeOK

\* Create and Lookup put an entry on the stack of their variable.
LEMMA OpenedStep ==
  ASSUME IInv, Running, NEW m2 \in Descriptors, NEW name \in AllNames, NEW temp \in BOOLEAN,
         NEW write \in BOOLEAN, NEW ino \in Inodes, Opened(m2, name, temp, write, ino)
  PROVE  /\ Abstract!Command(OpenFor(m2), OpenFor(m2)')
         /\ \A m \in Descriptors \ {m2} : OpenFor(m)' = OpenFor(m)
  <1>1. PICK p \in Pointers :
          fd_list' = <<[ptr |-> p, m2file |-> m2, fname |-> name, temp |-> temp,
                        owner |-> running, write |-> write, ino |-> ino,
                        pos |-> 0, dirty |-> FALSE]>> \o fd_list
    BY DEF Opened
  <1> DEFINE e == [ptr |-> p, m2file |-> m2, fname |-> name, temp |-> temp,
                   owner |-> running, write |-> write, ino |-> ino,
                   pos |-> 0, dirty |-> FALSE]
  <1>2. e \in Entry /\ e.m2file = m2
    BY BoundAssumption DEF IInv, TypeOK, Running, Entry, EntryFor
  <1>3. fd_list' = <<>> \o <<e>> \o fd_list
    BY <1>1 DEF IInv, TypeOK
  <1> HIDE DEF e
  <1>4. fd_list \in Seq(Entry) /\ <<>> \in Seq(Entry) /\ Only(<<>>, For(m2)) = <<>>
    BY OnlyEmpty DEF IInv, TypeOK
  <1>5. OpenFor(m2)' = <<>> \o <<e>> \o OpenFor(m2)
    <2>1. Only(<<>> \o <<e>> \o fd_list, For(m2))
            = Only(<<>>, For(m2)) \o <<e>> \o Only(fd_list, For(m2))
      BY <1>2, <1>4, OnlyWith
    <2> QED BY <1>3, <1>4, <2>1, OpenForIs
  <1>6. OpenFor(m2) \in Seq(Entry)
    BY OpenForType
  <1>7. OpenFor(m2)' # <<>> /\ Tail(OpenFor(m2)') = OpenFor(m2)
    BY <1>2, <1>5, <1>6
  <1>8. ASSUME NEW m \in Descriptors \ {m2} PROVE OpenFor(m)' = OpenFor(m)
    <2>1. Only(<<>> \o <<e>> \o fd_list, For(m)) = Only(<<>> \o fd_list, For(m))
      <3>1. e \in Entry /\ e.m2file # m
        BY <1>2
      <3> QED BY <1>4, <3>1, OnlyWithout
    <2>2. <<>> \o fd_list = fd_list
      BY <1>4
    <2> QED BY <1>3, <2>1, <2>2, OpenForIs
  <1> QED BY <1>7, <1>8 DEF Abstract!Command, Abstract!Open

\* The list around the newest entry for m2: what OpenFor makes of it.
LEMMA AroundNewest ==
  ASSUME IInv, NEW m2 \in Descriptors, Found(m2), NEW e \in Entry, e.m2file = m2
  PROVE  LET k == Position(Find(m2))
         IN \E rest \in Seq(Entry) :
              /\ OpenFor(m2) = <<fd_list[k]>> \o rest
              /\ Only([fd_list EXCEPT ![k] = e], For(m2)) = <<e>> \o rest
              /\ Only(RemoveAt(fd_list, k), For(m2)) = rest
              /\ \A m \in Descriptors \ {m2} :
                   /\ Only([fd_list EXCEPT ![k] = e], For(m)) = OpenFor(m)
                   /\ Only(RemoveAt(fd_list, k), For(m)) = OpenFor(m)
  <1> DEFINE k == Position(Find(m2))
             a == SubSeq(fd_list, 1, k - 1)
             b == SubSeq(fd_list, k + 1, Len(fd_list))
             rest == Only(b, For(m2))
  <1>1. /\ k \in DOMAIN fd_list /\ fd_list[k].m2file = m2
        /\ \A i \in 1 .. k - 1 : fd_list[i].m2file # m2
    BY FoundIsNewest
  <1>2. fd_list \in Seq(Entry) /\ fd_list[k] \in Entry
    BY <1>1, ListType DEF IInv, TypeOK
  <1> HIDE DEF k
  <1>3. /\ a \in Seq(Entry) /\ b \in Seq(Entry)
        /\ \A i \in DOMAIN a : i \in 1 .. k - 1 /\ a[i] = fd_list[i]
        /\ fd_list = a \o <<fd_list[k]>> \o b
        /\ [fd_list EXCEPT ![k] = e] = a \o <<e>> \o b
        /\ RemoveAt(fd_list, k) = a \o b
    BY <1>1, <1>2, Around
  <1> HIDE DEF a, b
  <1>4. /\ rest \in Seq(Entry)
        /\ Only(a, For(m2)) = <<>> /\ Only(a \o b, For(m2)) = rest
    <2>1. \A i \in DOMAIN a : a[i].m2file # m2
      BY <1>1, <1>3
    <2>2. Only(a, For(m2)) = <<>> /\ Only(a \o b, For(m2)) = rest
      BY <1>3, <2>1, OnlyAfter
    <2> QED BY <1>3, <2>2, OnlyType
  <1>5. ASSUME NEW x \in Entry, x.m2file = m2
        PROVE  /\ Only(a \o <<x>> \o b, For(m2)) = <<>> \o <<x>> \o rest
               /\ \A m \in Descriptors \ {m2} :
                    Only(a \o <<x>> \o b, For(m)) = Only(a \o b, For(m))
    <2>1. Only(a \o <<x>> \o b, For(x.m2file))
            = Only(a, For(x.m2file)) \o <<x>> \o Only(b, For(x.m2file))
      BY <1>3, OnlyWith
    <2>2. \A m \in Descriptors \ {m2} :
            Only(a \o <<x>> \o b, For(m)) = Only(a \o b, For(m))
      BY <1>3, <1>5, OnlyWithout
    <2> QED BY <1>4, <1>5, <2>1, <2>2
  <1> HIDE DEF rest
  <1>7. <<>> \o <<fd_list[k]>> \o rest = <<fd_list[k]>> \o rest /\ <<>> \o <<e>> \o rest = <<e>> \o rest
    BY <1>2, <1>4
  <1>8. /\ OpenFor(m2) = <<fd_list[k]>> \o rest
        /\ \A m \in Descriptors \ {m2} : OpenFor(m) = Only(a \o b, For(m))
    <2>1. \A m : OpenFor(m) = Only(a \o <<fd_list[k]>> \o b, For(m))
      BY <1>3, OpenForIs
    <2>2. fd_list[k] \in Entry /\ fd_list[k].m2file = m2
      BY <1>1, <1>2
    <2> QED BY <1>5, <1>7, <2>1, <2>2
  <1>9. /\ Only([fd_list EXCEPT ![k] = e], For(m2)) = <<e>> \o rest
        /\ \A m \in Descriptors \ {m2} :
             Only([fd_list EXCEPT ![k] = e], For(m)) = Only(a \o b, For(m))
    BY <1>3, <1>5, <1>7
  <1>10. \E r \in Seq(Entry) :
           /\ OpenFor(m2) = <<fd_list[k]>> \o r
           /\ Only([fd_list EXCEPT ![k] = e], For(m2)) = <<e>> \o r
           /\ Only(RemoveAt(fd_list, k), For(m2)) = r
           /\ \A m \in Descriptors \ {m2} :
                /\ Only([fd_list EXCEPT ![k] = e], For(m)) = OpenFor(m)
                /\ Only(RemoveAt(fd_list, k), For(m)) = OpenFor(m)
    BY <1>3, <1>4, <1>8, <1>9
  <1> QED BY <1>10 DEF k

\* The commands that change the entry on top of the stack of their variable.
LEMMA UseStep ==
  ASSUME IInv, NEW m2 \in Descriptors, Found(m2), NEW e \in Entry, Use(m2, e),
         e.m2file = m2, e.owner = Used(m2).owner
  PROVE  /\ Abstract!Command(OpenFor(m2), OpenFor(m2)')
         /\ \A m \in Descriptors \ {m2} : OpenFor(m)' = OpenFor(m)
  <1> DEFINE k == Position(Find(m2))
             x == fd_list[k]
  <1>1. fd_list' = [fd_list EXCEPT ![k] = e]
    BY DEF Use
  <1>2. x \in Entry /\ e.owner = x.owner
    BY UsedEntry DEF Used, EntryAt
  <1>3. PICK rest \in Seq(Entry) :
          /\ OpenFor(m2) = <<x>> \o rest
          /\ Only([fd_list EXCEPT ![k] = e], For(m2)) = <<e>> \o rest
          /\ \A m \in Descriptors \ {m2} :
               Only([fd_list EXCEPT ![k] = e], For(m)) = OpenFor(m)
    BY AroundNewest
  <1> HIDE DEF k, x
  <1>4. OpenFor(m2)' = <<e>> \o rest /\ \A m \in Descriptors \ {m2} : OpenFor(m)' = OpenFor(m)
    BY <1>1, <1>3, OpenForIs
  <1> DEFINE old == <<x>> \o rest
             new == <<e>> \o rest
  <1>5. /\ old # <<>> /\ Tail(old) = rest /\ Head(old) = x
        /\ new # <<>> /\ Tail(new) = rest /\ Head(new) = e
    BY <1>2
  <1> HIDE DEF old, new
  <1>6. Abstract!Use(old, new)
    BY <1>2, <1>5 DEF Abstract!Use
  <1> QED BY <1>3, <1>4, <1>6 DEF Abstract!Command, old, new

\* Close takes the top of the stack of its variable away.
LEMMA CloseStep ==
  ASSUME IInv, NEW m2 \in Descriptors, Close(m2)
  PROVE  /\ Abstract!Command(OpenFor(m2), OpenFor(m2)')
         /\ \A m \in Descriptors \ {m2} : OpenFor(m)' = OpenFor(m)
  <1>1. CASE ~ Found(m2)
    <2>1. fd_list' = fd_list
      BY <1>1 DEF Close
    <2> QED BY <2>1, OpenForIs DEF Abstract!Command
  <1>2. CASE Found(m2)
    <2> DEFINE k == Position(Find(m2))
               x == fd_list[k]
    <2>1. fd_list' = RemoveAt(fd_list, k)
      BY <1>2 DEF Close
    <2>2. x \in Entry /\ x.m2file = m2
      BY <1>2, UsedEntry, FoundIsNewest DEF Used, EntryAt
    <2>3. PICK rest \in Seq(Entry) :
            /\ OpenFor(m2) = <<x>> \o rest
            /\ Only(RemoveAt(fd_list, k), For(m2)) = rest
            /\ \A m \in Descriptors \ {m2} : Only(RemoveAt(fd_list, k), For(m)) = OpenFor(m)
      BY <1>2, <2>2, AroundNewest
    <2> HIDE DEF k, x
    <2>4. OpenFor(m2)' = rest /\ \A m \in Descriptors \ {m2} : OpenFor(m)' = OpenFor(m)
      BY <2>1, <2>3, OpenForIs
    <2> DEFINE old == <<x>> \o rest
    <2>5. old # <<>> /\ Tail(old) = rest
      BY <2>2
    <2> HIDE DEF old
    <2>6. Abstract!Close(old, rest)
      BY <2>5 DEF Abstract!Close
    <2> QED BY <2>3, <2>4, <2>6 DEF Abstract!Command, old
  <1> QED BY <1>1, <1>2

\* A full buffer is written: one entry of one stack is no longer dirty.
LEMMA FlushStep ==
  ASSUME IInv, Flush
  PROVE  \A m \in Descriptors : Abstract!Written(OpenFor(m), OpenFor(m)')
  <1>0. fd_list \in Seq(Entry)
    BY DEF IInv, TypeOK
  <1>1. PICK k \in DOMAIN fd_list : fd_list' = [fd_list EXCEPT ![k].dirty = FALSE]
    BY DEF Flush
  <1> DEFINE x == fd_list[k]
             e == [x EXCEPT !.dirty = FALSE]
             before == SubSeq(fd_list, 1, k - 1)
             after == SubSeq(fd_list, k + 1, Len(fd_list))
  <1>2. x \in Entry /\ e \in Entry /\ e.m2file = x.m2file
    <2>1. x \in Entry
      BY <1>0, ListType
    <2> HIDE DEF x
    <2> QED BY <2>1 DEF Entry, EntryFor
  <1>3. fd_list' = [fd_list EXCEPT ![k] = e]
    BY <1>1
  <1>4. x = [x EXCEPT !.dirty = x.dirty] /\ e = [x EXCEPT !.dirty = e.dirty]
    BY <1>2 DEF Entry, EntryFor
  <1>5. /\ before \in Seq(Entry) /\ after \in Seq(Entry)
        /\ fd_list = before \o <<x>> \o after
        /\ fd_list' = before \o <<e>> \o after
    <2> HIDE DEF e
    <2> QED BY <1>0, <1>2, <1>3, Around
  <1> HIDE DEF x, e, before, after
  <1>6. ASSUME NEW m \in Descriptors
        PROVE  Abstract!Written(OpenFor(m), OpenFor(m)')
    <2>1. CASE x.m2file # m
      <3>1. OpenFor(m) = Only(before \o after, For(m)) /\ OpenFor(m)' = Only(before \o after, For(m))
        BY <1>2, <1>5, <2>1, OnlyWithout, OpenForIs
      <3>2. OpenFor(m) \in Seq(Entry) /\ OpenFor(m)' = OpenFor(m)
        BY <3>1, OpenForType
      <3>3. \A i \in DOMAIN OpenFor(m) :
              OpenFor(m)[i] = [OpenFor(m)[i] EXCEPT !.dirty = OpenFor(m)[i].dirty]
        BY <3>2, ListType DEF Entry, EntryFor
      <3> QED BY <3>2, <3>3 DEF Abstract!Written
    <2>2. CASE x.m2file = m
      <3> DEFINE a == Only(before, For(m))
                 b == Only(after, For(m))
      <3>1. a \in Seq(Entry) /\ b \in Seq(Entry)
        BY <1>5, OnlyType
      <3>2. OpenFor(m) = a \o <<x>> \o b /\ OpenFor(m)' = a \o <<e>> \o b
        BY <1>2, <1>5, <2>2, OnlyWith, OpenForIs
      <3> HIDE DEF a, b
      <3> DEFINE old == a \o <<x>> \o b
                 new == a \o <<e>> \o b
      <3>3. Len(new) = Len(old) /\ DOMAIN old = 1 .. Len(a) + 1 + Len(b)
        BY <1>2, <3>1
      <3>4. ASSUME NEW i \in DOMAIN old PROVE new[i] = [old[i] EXCEPT !.dirty = new[i].dirty]
        <4>1. CASE i = Len(a) + 1
          <5>1. old[i] = x /\ new[i] = e
            BY <1>2, <3>1, <4>1
          <5> QED BY <1>4, <5>1
        <4>2. CASE i # Len(a) + 1
          <5>1. old[i] = new[i] /\ old[i] \in Entry
            BY <1>2, <3>1, <3>3, <4>2
          <5> HIDE DEF old, new
          <5> QED BY <5>1 DEF Entry, EntryFor
        <4> QED BY <4>1, <4>2
      <3> HIDE DEF old, new
      <3> QED BY <3>2, <3>3, <3>4 DEF Abstract!Written, old, new
    <2> QED BY <2>1, <2>2
  <1> QED BY <1>6

\* The end of a program takes away the entries it owns, of every variable.
LEMMA EndStep ==
  ASSUME IInv, EndProgram
  PROVE  \A m \in Descriptors :
           OpenFor(m)' = Abstract!WithoutFilesOf(running, OpenFor(m))
  <1> DEFINE own == OwnedBy(running)
             left == ToSet(fd_list) \ own
  <1>0. fd_list \in Seq(Entry)
    BY DEF IInv, TypeOK
  <1>1. fd_list' = Only(fd_list, left)
    BY DEF EndProgram
  <1>2. \A f \in ToSet(fd_list) : f \in left <=> f.owner # running
    BY DEF OwnedBy
  <1> HIDE DEF own, left
  <1>3. ASSUME NEW m \in Descriptors
        PROVE  OpenFor(m)' = Abstract!WithoutFilesOf(running, OpenFor(m))
    <2> DEFINE S == For(m)
               others == {f \in ToSet(OpenFor(m)) : f.owner # running}
               A == left \intersect S
               B == S \intersect others
    <2> HIDE DEF S
    <2>1. OpenFor(m)' = Only(Only(fd_list, left), S) /\ OpenFor(m) = Only(fd_list, S)
      BY <1>1, OpenForIs DEF S
    <2>2. Only(Only(fd_list, left), S) = Only(fd_list, A)
      BY <1>0, OnlyTwice
    <2>3. ToSet(OpenFor(m)) = ToSet(fd_list) \intersect S
      BY <1>0, <2>1, OnlyElements
    <2>4. A \intersect ToSet(fd_list) = B \intersect ToSet(fd_list)
      BY <1>2, <2>3
    <2> HIDE DEF A, others
    <2>5. Only(Only(fd_list, S), others) = Only(fd_list, B)
      BY <1>0, OnlyTwice
    <2> HIDE DEF B
    <2>6. Only(fd_list, A) = Only(fd_list, B)
      BY <1>0, <2>4, OnlySame
    <2>7. OpenFor(m)' = Only(OpenFor(m), others)
      BY <2>1, <2>2, <2>5, <2>6
    <2>8. Abstract!WithoutFilesOf(running, OpenFor(m)) = Only(OpenFor(m), others)
      BY SameOnly DEF Abstract!WithoutFilesOf, others
    <2> QED BY <2>7, <2>8
  <1> QED BY <1>3

\* Every step is one of FilesSpec, or leaves its stacks alone.
LEMMA RefinementStep == IInv /\ [Next]_vars => [Abstract!Next]_<<Stacks, by>>
  <1> SUFFICES ASSUME IInv, [Next]_vars PROVE [Abstract!Next]_<<Stacks, by>>
    OBVIOUS
  <1>0. fd_list \in Seq(Entry) /\ disk \in [AllNames -> Inodes \union {0}]
        /\ (\A n \in Names : n \in AllNames) /\ (\A n \in TempNames : n \in AllNames)
        /\ TypeOK /\ Distinct
    BY DEF IInv, TypeOK, AllNames
  <1>1. ASSUME NEW m2 \in Descriptors, Command(m2), by' = m2 PROVE Abstract!Next
    <2> SUFFICES /\ Abstract!Command(OpenFor(m2), OpenFor(m2)')
                 /\ \A m \in Descriptors \ {m2} : OpenFor(m)' = OpenFor(m)
      BY <1>1, CommandStep
    <2>0. ASSUME fd_list' = fd_list
          PROVE  /\ Abstract!Command(OpenFor(m2), OpenFor(m2)')
                 /\ \A m \in Descriptors \ {m2} : OpenFor(m)' = OpenFor(m)
      BY <2>0, OpenForIs DEF Abstract!Command
    <2>1. ASSUME NEW name \in AllNames, disk[name] = 0, Running, NEW temp \in BOOLEAN,
                 Opened(m2, name, temp, TRUE, FreshInode)
          PROVE  /\ Abstract!Command(OpenFor(m2), OpenFor(m2)')
                 /\ \A m \in Descriptors \ {m2} : OpenFor(m)' = OpenFor(m)
      <3>1. FreshInode \in Inodes
        BY <1>0, <2>1, FreshExists DEF Opened
      <3> QED BY <2>1, <3>1, OpenedStep
    <2>2. CASE Create(m2)
      BY <1>0, <2>1, <2>2 DEF Create
    <2>3. CASE \E name \in Names : LookupNew(m2, name)
      BY <1>0, <2>1, <2>3 DEF LookupNew
    <2>4. ASSUME NEW name \in Names, NEW new \in BOOLEAN, LookupOld(m2, name, new)
          PROVE  /\ Abstract!Command(OpenFor(m2), OpenFor(m2)')
                 /\ \A m \in Descriptors \ {m2} : OpenFor(m)' = OpenFor(m)
      <3>1. name \in AllNames /\ disk[name] \in Inodes
        BY <1>0, <2>4 DEF LookupOld
      <3> QED BY <2>4, <3>1, OpenedStep DEF LookupOld
    <2>5. CASE (\E name \in Names : LookupFails(m2, name)) \/ NotOpen(m2)
      BY <2>0, <2>5 DEF LookupFails, NotOpen
    <2>6. CASE Close(m2)
      BY <2>6, CloseStep
    <2> DEFINE e == Used(m2)
    <2>7. Found(m2) => e \in Entry /\ e.m2file = m2
      BY UsedEntry, FoundIsNewest DEF Used, EntryAt
    <2>8. ASSUME NEW f \in Entry, Found(m2), Use(m2, f), f.m2file = m2, f.owner = e.owner
          PROVE  /\ Abstract!Command(OpenFor(m2), OpenFor(m2)')
                 /\ \A m \in Descriptors \ {m2} : OpenFor(m)' = OpenFor(m)
      BY <2>8, UseStep
    <2>9. CASE \/ \E name \in Names : Rename(m2, name)
               \/ MakeTemporary(m2)
               \/ SetMode(m2)
               \/ \E pos \in 0 .. MaxLen : SetPos(m2, pos)
               \/ \E n \in 1 .. 2 : Read(m2, n) \/ Write(m2, n)
      <3>1. Found(m2) /\ \E f \in Entry : Use(m2, f) /\ f.m2file = m2 /\ f.owner = e.owner
        BY <2>7, <2>9, UsedAlike DEF Alike
      <3> QED BY <2>8, <3>1
    <2> QED BY <1>1, <2>2, <2>3, <2>4, <2>5, <2>6, <2>9 DEF Command
  <1>2. CASE Flush /\ by' = 0
    BY <1>2, FlushStep DEF Abstract!Next, Stacks
  <1>3. CASE EndProgram /\ by' = 0
    <2>1. running \in 1 .. Programs
      BY <1>3, BoundAssumption DEF EndProgram, Running, IInv, TypeOK
    <2>2. Abstract!End(running)
      BY <1>3, EndStep DEF Abstract!End, Stacks
    <2> QED BY <1>3, <2>1, <2>2 DEF Abstract!Next, Stacks
  <1>4. CASE StartProgram /\ by' = 0
    <2>1. \A m \in Descriptors : OpenFor(m)' = OpenFor(m) /\ OpenFor(m) \in Seq(Entry)
      BY <1>4, OpenForIs, OpenForType DEF StartProgram
    <2>2. \A m \in Descriptors : Abstract!Written(OpenFor(m), OpenFor(m)')
      <3> SUFFICES ASSUME NEW m \in Descriptors
                   PROVE  Abstract!Written(OpenFor(m), OpenFor(m)')
        OBVIOUS
      <3>1. \A i \in DOMAIN OpenFor(m) :
              OpenFor(m)[i] = [OpenFor(m)[i] EXCEPT !.dirty = OpenFor(m)[i].dirty]
        BY <2>1, ListType DEF Entry, EntryFor
      <3> QED BY <2>1, <3>1 DEF Abstract!Written
    <2> QED BY <1>4, <2>2 DEF Abstract!Next, Stacks
  <1>5. CASE UNCHANGED vars
    BY <1>5, OpenForIs DEF vars, Stacks
  <1> QED BY <1>1, <1>2, <1>3, <1>4, <1>5 DEF Next

\* VariablesApart, for any number of variables, files and programs: the file
\* system implements a stack of open files for each File variable, on which
\* the commands for it work and no others.
THEOREM FilesApart == Spec => VariablesApart
  <1> QED BY RefinementStep, InitInv, StepInv, StackInit, PTL DEF Spec, VariablesApart, Abstract!Spec

=============================================================================
