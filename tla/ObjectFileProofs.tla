-------------------------- MODULE ObjectFileProofs --------------------------
(***************************************************************************)
(* Proofs about ObjectFile: every table keeps its type, and section by     *)
(* section the loader implements that of Programs.                         *)
(*                                                                         *)
(* complete keeps the table as the last complete file left it.  While a    *)
(* file is read, Progress says how many of its sections were read: what is *)
(* left of the file is the rest of them, and the table is the complete one *)
(* Staged with the module and, after its import section, with an entry for *)
(* each module that it imports.  FileIs and Ahead turn the grammar of the  *)
(* files into what the parser finds next, a ...Inv lemma for each action   *)
(* shows that the next section extends the staged table, and AtEnd what is *)
(* known at the end of the file, which is when Programs takes its step.    *)
(***************************************************************************)
EXTENDS ObjectFile, ListProofs

\* Entries of one name, with the same data and the same imports.
Alike(e, f) ==
  /\ e.name = f.name /\ e.key = f.key /\ e.loaded = f.loaded
  /\ e.data_ofs = f.data_ofs /\ e.data_sz = f.data_sz /\ e.import = f.import

Distinct(t) == \A i, j \in DOMAIN t : t[i].name = t[j].name => i = j

\* The import table of entry i refers to the modules that ids name.
Imported(t, i, ids) ==
  /\ Len(t[i].import) = Len(ids)
  /\ \A k \in DOMAIN ids :
       /\ t[i].import[k] \in DOMAIN t
       /\ t[t[i].import[k]].name = ids[k].name /\ t[t[i].import[k]].key = ids[k].key

\* Each module has one entry, and a loaded one the imports of a file with that module.
Consistent(t) ==
  /\ Distinct(t)
  /\ \A i \in DOMAIN t :
       IF t[i].loaded
       THEN \E f \in DiskOf(paths) :
              f.name = t[i].name /\ f.key = t[i].key /\ Imported(t, i, f.imports)
       ELSE t[i].import = <<>>

\* The entry that m has in t, or will get, and what it imports that has none.
Place(t, m) == IF Known(t, m.name) THEN IndexIn(t, m.name) ELSE Len(t) + 1
Width(t, m) == IF Known(t, m.name) THEN Len(t) ELSE Len(t) + 1
Fresh(t, m, ids) == Only(ids, {id \in ModId : ~ Known(t, id.name) /\ id.name # m.name})

\* Table u is t with m, whose data begins at base, and an entry for all of ids.
Staged(t, m, ids, base, u) ==
  LET i == Place(t, m)
      fresh == Fresh(t, m, ids)
  IN /\ Len(u) = Width(t, m) + Len(fresh)
     /\ \A j \in DOMAIN t : j # i => Alike(u[j], t[j])
     /\ Known(t, m.name) => t[i].key = m.key
     /\ u[i].name = m.name /\ u[i].key = m.key /\ u[i].loaded
     /\ u[i].data_ofs = base /\ u[i].data_sz = m.globals + Len(m.strings)
     /\ \A j \in DOMAIN fresh : Alike(u[Width(t, m) + j], Missing(fresh[j]))

\* The file that is being read, and its module.
Found == Search(paths, want, PrefixOf(want))
Text == Written(Found[1])
Module == Found[1].module

\* The section of the module, and the last one before those of other kinds.
ModuleAt == Main(Text)
ImportsAt == Main(Text) + Len(Imports(Module))

\* The first k sections were read: the start, the module, the imports, and others.
Progress(k) ==
  /\ file = Rest(Text, k)
  /\ k < ModuleAt => tab = complete.tab /\ data_top = complete.data_top
  /\ k >= ModuleAt =>
       /\ IsFile(Text, Module) \/ (CutInImports(Text, Module) /\ k = ModuleAt)
       /\ mod = Place(complete.tab, Module)
       /\ data_top = complete.data_top + Module.globals + Len(Module.strings)
       /\ Staged(complete.tab, Module, IF k < ImportsAt THEN <<>> ELSE Module.imports,
                 complete.data_top, tab)
       /\ k >= ImportsAt => Imported(tab, mod, Module.imports)

InParse ==
  mode = "parse" =>
    /\ loads # <<>> /\ Last(loads) = (Len(complete.tab) + 2) % (ModTabMax + 1)
    /\ Found # <<>>
    /\ \E k \in 0 .. Len(Text) : Progress(k)

\* Between files, the table is the one that the last file left.
Between ==
  /\ mode \in {"load", "scan"} => tab = complete.tab /\ data_top = complete.data_top
  /\ mode \in {"fix", "start"} =>
       /\ Len(tab) = Len(complete.tab) /\ data_top = complete.data_top
       /\ \A i \in DOMAIN tab : Alike(tab[i], complete.tab[i])

\* The program comes first, and is never missing later.
HasBoot(t) == \E i \in DOMAIN t : t[i].name = Boot /\ t[i].loaded
BootFirst ==
  /\ mode = "load" => (loads = <<>> <=> want = Boot)
  /\ mode \in {"load", "parse"} => want = Boot \/ HasBoot(complete.tab)
  /\ mode = "scan" => loads # <<>> /\ HasBoot(complete.tab)

\* What is linked was loaded.
Linkable ==
  /\ mode \in {"load", "parse", "scan"} => top = 1
  /\ mode \in {"fix", "start"} => \A i \in 1 .. top - 1 : tab[i].loaded

Inv ==
  /\ TypeOK /\ paths \in Setups /\ Consistent(complete.tab)
  /\ InParse /\ Between /\ BootFirst /\ Linkable

-----------------------------------------------------------------------------
(* Finding a file                                                          *)

\* Min takes the least.
LEMMA MinIs ==
  ASSUME NEW N \in SUBSET Nat, N # {}
  PROVE  Min(N) \in N /\ \A k \in N : Min(N) <= k
  <1>1. \E m \in N : \A k \in N : m <= k
    BY Least
  <1> QED BY <1>1 DEF Min

\* What is found lies in one of the directories, under the name it was looked for,
\* and the directories before that one have nothing of either name.
LEMMA SearchIs ==
  ASSUME NEW dirs \in Setups, NEW name, NEW prefix, Search(dirs, name, prefix) # <<>>
  PROVE  \E i \in DOMAIN dirs : \E n \in {<<NoPrefix, name>>, <<prefix, name>>} :
           /\ n \in DOMAIN dirs[i] /\ Search(dirs, name, prefix) = <<dirs[i][n]>>
           /\ <<NoPrefix, name>> \in DOMAIN dirs[i] => n = <<NoPrefix, name>>
           /\ \A j \in 1 .. i - 1 : {<<NoPrefix, name>>, <<prefix, name>>} \intersect DOMAIN dirs[j] = {}
  <1> DEFINE tried == {<<NoPrefix, name>>, <<prefix, name>>}
             I == {i \in 1 .. Len(dirs) : tried \intersect DOMAIN dirs[i] # {}}
             i == IF I # {} THEN Min(I) ELSE 0
  <1>1. /\ SelectInSeq(dirs, LAMBDA d : tried \intersect DOMAIN d # {}) = i
    BY DEF SelectInSeq
  <1>2. Search(dirs, name, prefix) =
          IF i = 0 THEN <<>>
          ELSE IF <<NoPrefix, name>> \in DOMAIN dirs[i] THEN <<dirs[i][<<NoPrefix, name>>]>>
          ELSE <<dirs[i][<<prefix, name>>]>>
    BY <1>1 DEF Search
  <1>3. dirs \in Seq(ToSet(dirs)) /\ DOMAIN dirs = 1 .. Len(dirs) /\ Len(dirs) \in Nat
    BY SetupAssumption
  <1>4. I \in SUBSET Nat
    BY <1>3
  <1>5. i # 0
    BY <1>2
  <1>6. I # {} /\ i = Min(I)
    BY <1>5
  <1>7. i \in I /\ \A k \in I : i <= k
    <2> HIDE DEF I
    <2> QED BY <1>4, <1>6, MinIs
  <1>8. i \in DOMAIN dirs /\ tried \intersect DOMAIN dirs[i] # {}
    BY <1>3, <1>7
  <1>9. ASSUME NEW j \in 1 .. i - 1 PROVE tried \intersect DOMAIN dirs[j] = {}
    <2>1. j \in 1 .. Len(dirs) /\ ~ (i <= j) /\ i \in Nat
      BY <1>3, <1>8
    <2>2. j \notin I
      <3> HIDE DEF I
      <3> QED BY <2>1, <1>7
    <2> QED BY <2>1, <2>2
  <1> HIDE DEF i, I
  <1>10. CASE <<NoPrefix, name>> \in DOMAIN dirs[i]
    <2>1. Search(dirs, name, prefix) = <<dirs[i][<<NoPrefix, name>>]>>
      BY <1>2, <1>5, <1>10
    <2> QED BY <2>1, <1>8, <1>9, <1>10
  <1>11. CASE <<NoPrefix, name>> \notin DOMAIN dirs[i]
    <2>1. Search(dirs, name, prefix) = <<dirs[i][<<prefix, name>>]>>
      BY <1>2, <1>5, <1>11
    <2>2. <<prefix, name>> \in DOMAIN dirs[i]
      BY <1>8, <1>11
    <2> QED BY <2>1, <2>2, <1>8, <1>9, <1>11
  <1> QED BY <1>10, <1>11

\* Nothing is found where there is nothing of either name.
LEMMA SearchFinds ==
  ASSUME NEW dirs \in Setups, NEW name, NEW prefix, NEW i \in DOMAIN dirs,
         {<<NoPrefix, name>>, <<prefix, name>>} \intersect DOMAIN dirs[i] # {}
  PROVE  Search(dirs, name, prefix) # <<>>
  <1> DEFINE tried == {<<NoPrefix, name>>, <<prefix, name>>}
             I == {k \in 1 .. Len(dirs) : tried \intersect DOMAIN dirs[k] # {}}
             j == IF I # {} THEN Min(I) ELSE 0
  <1>1. /\ SelectInSeq(dirs, LAMBDA d : tried \intersect DOMAIN d # {}) = j
    BY DEF SelectInSeq
  <1>2. Search(dirs, name, prefix) =
          IF j = 0 THEN <<>>
          ELSE IF <<NoPrefix, name>> \in DOMAIN dirs[j] THEN <<dirs[j][<<NoPrefix, name>>]>>
          ELSE <<dirs[j][<<prefix, name>>]>>
    BY <1>1 DEF Search
  <1>3. dirs \in Seq(ToSet(dirs)) /\ DOMAIN dirs = 1 .. Len(dirs) /\ Len(dirs) \in Nat
    BY SetupAssumption
  <1>4. I \in SUBSET (1 .. Len(dirs)) /\ i \in I
    BY <1>3
  <1>5. j \in I
    <2>1. I \in SUBSET Nat /\ I # {}
      BY <1>3, <1>4
    <2> HIDE DEF I
    <2> QED BY <2>1, MinIs
  <1>6. j # 0
    <2> HIDE DEF j
    <2> QED BY <1>4, <1>5
  <1> HIDE DEF j
  <1> QED BY <1>2, <1>6

\* Whatever is found is a file of a module, readable or not.
LEMMA FoundIs ==
  ASSUME NEW dirs \in Setups, NEW name, NEW prefix, Search(dirs, name, prefix) # <<>>
  PROVE  LET f == Search(dirs, name, prefix)[1]
             s == Written(f)
         IN /\ Search(dirs, name, prefix) = <<f>> /\ name \in STRING
            /\ IsModule(f.module)
            /\ s \in Seq(Seq(Item)) /\ s # <<>>
            /\ IsFile(s, f.module) \/ IsRejected(s, f.module)
  <1>1. PICK i \in DOMAIN dirs, n \in {<<NoPrefix, name>>, <<prefix, name>>} :
          n \in DOMAIN dirs[i] /\ Search(dirs, name, prefix) = <<dirs[i][n]>>
    BY SearchIs
  <1>2. n[2] = name
    OBVIOUS
  <1>3. Search(dirs, name, prefix)[1] = dirs[i][n]
    BY <1>1
  <1>4. name \in STRING /\ IsModule(dirs[i][n].module)
    BY <1>1, <1>2, SetupAssumption
  <1>5. LET s == Written(dirs[i][n])
            m == dirs[i][n].module
        IN s \in Seq(Seq(Item)) /\ s # <<>> /\ (IsFile(s, m) \/ IsRejected(s, m))
    BY <1>1, WrittenAssumption
  <1> QED BY <1>1, <1>3, <1>4, <1>5

-----------------------------------------------------------------------------
(* The module table                                                        *)

LEMMA Joined ==
  ASSUME NEW T, NEW s \in Seq(T), NEW t \in Seq(T)
  PROVE  /\ s \o t \in Seq(T) /\ Len(s \o t) = Len(s) + Len(t)
         /\ DOMAIN (s \o t) = 1 .. Len(s) + Len(t)
         /\ \A i \in 1 .. Len(s) : (s \o t)[i] = s[i]
  OBVIOUS

LEMMA IndexFound ==
  ASSUME NEW t, NEW name, Known(t, name)
  PROVE  IndexIn(t, name) \in DOMAIN t /\ t[IndexIn(t, name)].name = name
  BY DEF Known, IndexIn

LEMMA IndexOf ==
  ASSUME NEW t, Distinct(t), NEW i \in DOMAIN t
  PROVE  Known(t, t[i].name) /\ IndexIn(t, t[i].name) = i
  <1>1. Known(t, t[i].name)
    BY DEF Known
  <1>2. IndexIn(t, t[i].name) \in DOMAIN t /\ t[IndexIn(t, t[i].name)].name = t[i].name
    BY <1>1, IndexFound
  <1> QED BY <1>1, <1>2 DEF Distinct

LEMMA MissingType ==
  ASSUME NEW id \in ModId
  PROVE  /\ Missing(id) \in Entry
         /\ Missing(id).name = id.name /\ Missing(id).key = id.key
         /\ ~ Missing(id).loaded /\ Missing(id).import = <<>>
  <1>1. id.name \in STRING /\ id.key \in Nat
    BY DEF ModId
  <1>2. <<>> \in Seq(Byte) /\ <<>> \in Seq(1 .. ModTabMax) /\ <<>> \in Seq(Procedure)
        /\ <<>> \in Seq(Nat)
    OBVIOUS
  <1> QED BY <1>1, <1>2 DEF Missing, Entry

LEMMA WithType ==
  ASSUME NEW t \in Seq(Entry), NEW id \in ModId
  PROVE  With(t, id) \in Seq(Entry)
  BY MissingType DEF With

\* The table after each of ids.
LEMMA WithFirstIs ==
  ASSUME NEW t \in Seq(Entry), NEW ids \in Seq(ModId)
  PROVE  /\ WithFirst(t, ids) \in [0 .. Len(ids) -> Seq(Entry)]
         /\ WithFirst(t, ids)[0] = t
         /\ \A k \in 1 .. Len(ids) : WithFirst(t, ids)[k] = With(WithFirst(t, ids)[k - 1], ids[k])
  <1> DEFINE n == Len(ids)
             step == [x \in Seq(Entry) \X (1 .. n) |-> With(x[1], ids[x[2]])]
             Eq(h) == h = [k \in 0 .. n |-> IF k = 0 THEN t ELSE With(h[k - 1], ids[k])]
  <1>1. n \in Nat
    OBVIOUS
  <1>2. step \in [Seq(Entry) \X (1 .. n) -> Seq(Entry)]
    <2>1. ASSUME NEW x \in Seq(Entry) \X (1 .. n) PROVE step[x] \in Seq(Entry)
      <3>1. x[1] \in Seq(Entry) /\ x[2] \in 1 .. n /\ ids[x[2]] \in ModId
        OBVIOUS
      <3>2. step[x] = With(x[1], ids[x[2]])
        OBVIOUS
      <3> HIDE DEF step
      <3> QED BY <3>1, <3>2, WithType
    <2> QED BY <2>1
  <1>3. PICK f : IsRecursive(f, Seq(Entry), t, n, step)
    <2> HIDE DEF n, step
    <2> QED BY <1>1, <1>2, Recursion
  <1>4. /\ f \in [0 .. n -> Seq(Entry)] /\ f[0] = t
        /\ \A k \in 1 .. n : f[k] = step[<<f[k - 1], k>>]
    BY <1>3 DEF IsRecursive
  <1>5. ASSUME NEW k \in 1 .. n PROVE f[k] = With(f[k - 1], ids[k])
    <2>1. <<f[k - 1], k>> \in Seq(Entry) \X (1 .. n)
      <3>1. k - 1 \in 0 .. n
        BY <1>1
      <3> QED BY <3>1, <1>4
    <2> QED BY <2>1, <1>4
  <1>6. Eq(f)
    <2>1. \A k \in 0 .. n : f[k] = IF k = 0 THEN t ELSE With(f[k - 1], ids[k])
      BY <1>1, <1>4, <1>5
    <2>2. f = [k \in 0 .. n |-> f[k]]
      BY <1>4
    <2> QED BY <2>1, <2>2
  <1>7. WithFirst(t, ids) = CHOOSE h : Eq(h)
    BY DEF WithFirst
  <1> DEFINE g == WithFirst(t, ids)
  <1>8. Eq(g)
    <2> HIDE DEF Eq
    <2> QED BY <1>6, <1>7
  <1> HIDE DEF g
  <1>9. /\ DOMAIN g = 0 .. n /\ g[0] = t
        /\ \A k \in 1 .. n : g[k] = With(g[k - 1], ids[k])
    <2>1. \A k \in 1 .. n : k \in 0 .. n /\ k # 0
      BY <1>1
    <2> QED BY <2>1, <1>1, <1>8
  <1>10. \A k \in 0 .. n : g[k] \in Seq(Entry)
    <2> DEFINE N == {k \in Nat : k <= n => g[k] \in Seq(Entry)}
    <2>1. 0 \in N
      BY <1>9
    <2>2. ASSUME NEW k \in N PROVE k + 1 \in N
      <3> SUFFICES ASSUME k + 1 <= n PROVE g[k + 1] \in Seq(Entry)
        OBVIOUS
      <3>1. k + 1 \in 1 .. n /\ (k + 1) - 1 = k /\ g[k] \in Seq(Entry)
        BY <1>1
      <3>2. ids[k + 1] \in ModId
        BY <3>1
      <3> HIDE DEF N
      <3> QED BY <3>1, <3>2, <1>9, WithType
    <2>3. N = Nat
      <3> HIDE DEF N
      <3>1. N \in SUBSET Nat
        BY DEF N
      <3> QED BY <3>1, <2>1, <2>2, Induction
    <2> QED BY <2>3, <1>1
  <1>11. g \in [0 .. n -> Seq(Entry)]
    <2>1. g = [k \in 0 .. n |-> g[k]]
      BY <1>8
    <2> QED BY <2>1, <1>10
  <1> QED BY <1>9, <1>11 DEF g

\* One name.
LEMMA WithOne ==
  ASSUME NEW t \in Seq(Entry), NEW id \in ModId
  PROVE  WithAll(t, <<id>>) = With(t, id)
  <1>1. <<id>> \in Seq(ModId) /\ Len(<<id>>) = 1 /\ <<id>>[1] = id
    OBVIOUS
  <1>2. WithFirst(t, <<id>>)[1] = With(WithFirst(t, <<id>>)[0], id)
    <2>1. 1 \in 1 .. Len(<<id>>) /\ 1 - 1 = 0
      BY <1>1
    <2>2. WithFirst(t, <<id>>)[1] = With(WithFirst(t, <<id>>)[1 - 1], <<id>>[1])
      BY <1>1, <2>1, WithFirstIs
    <2> QED BY <1>1, <2>1, <2>2
  <1>3. WithFirst(t, <<id>>)[0] = t
    BY <1>1, WithFirstIs
  <1> QED BY <1>1, <1>2, <1>3 DEF WithAll

\* One name more.
LEMMA WithMore ==
  ASSUME NEW t \in Seq(Entry), NEW ids \in Seq(ModId), NEW id \in ModId
  PROVE  WithAll(t, Append(ids, id)) = With(WithAll(t, ids), id)
  <1> DEFINE more == Append(ids, id)
             n == Len(ids)
             f == WithFirst(t, ids)
             g == WithFirst(t, more)
             N == {k \in Nat : k <= n => f[k] = g[k]}
  <1>1. /\ more \in Seq(ModId) /\ Len(more) = n + 1 /\ n \in Nat
        /\ more[n + 1] = id /\ \A k \in 1 .. n : more[k] = ids[k]
    OBVIOUS
  <1> HIDE DEF more
  <1>2. f[0] = t /\ \A k \in 1 .. n : f[k] = With(f[k - 1], ids[k])
    BY WithFirstIs
  <1>3. g[0] = t /\ \A k \in 1 .. n + 1 : g[k] = With(g[k - 1], more[k])
    BY <1>1, WithFirstIs
  <1> HIDE DEF f, g
  <1>4. 0 \in N
    BY <1>2, <1>3
  <1>5. ASSUME NEW k \in N PROVE k + 1 \in N
    <2> SUFFICES ASSUME k + 1 <= n PROVE f[k + 1] = g[k + 1]
      OBVIOUS
    <2>1. k + 1 \in 1 .. n /\ k + 1 \in 1 .. n + 1 /\ (k + 1) - 1 = k /\ f[k] = g[k]
      BY <1>1
    <2>2. more[k + 1] = ids[k + 1]
      BY <2>1, <1>1
    <2> HIDE DEF N
    <2> QED BY <2>1, <2>2, <1>2, <1>3
  <1>6. N = Nat
    <2> HIDE DEF N
    <2>1. N \in SUBSET Nat
      BY DEF N
    <2> QED BY <2>1, <1>4, <1>5, Induction
  <1>7. f[n] = g[n]
    BY <1>1, <1>6
  <1>8. g[n + 1] = With(g[n], id)
    <2>1. n + 1 \in 1 .. n + 1 /\ (n + 1) - 1 = n
      BY <1>1
    <2> QED BY <2>1, <1>1, <1>3
  <1> QED BY <1>1, <1>7, <1>8 DEF WithAll, f, g, more

NoRepeat(ids) == \A i, j \in DOMAIN ids : ids[i].name = ids[j].name => i = j
NewEntries(ids) == [i \in DOMAIN ids |-> Missing(ids[i])]

LEMMA NewEntriesType ==
  ASSUME NEW ids \in Seq(ModId)
  PROVE  /\ NewEntries(ids) \in Seq(Entry) /\ Len(NewEntries(ids)) = Len(ids)
         /\ \A i \in DOMAIN ids : NewEntries(ids)[i] = Missing(ids[i])
  BY MissingType DEF NewEntries

\* Which names a table knows with new entries at its end.
LEMMA KnownMore ==
  ASSUME NEW t \in Seq(Entry), NEW ids \in Seq(ModId), NEW name
  PROVE  Known(t \o NewEntries(ids), name) <=> Known(t, name) \/ \E id \in ToSet(ids) : id.name = name
  <1> DEFINE u == t \o NewEntries(ids)
  <1>1. /\ Len(t) \in Nat /\ Len(ids) \in Nat /\ DOMAIN t = 1 .. Len(t)
        /\ DOMAIN u = 1 .. Len(t) + Len(ids) /\ DOMAIN ids = 1 .. Len(ids)
        /\ \A i \in 1 .. Len(t) : u[i] = t[i]
    BY NewEntriesType
  <1>2. ASSUME NEW k \in 1 .. Len(ids)
        PROVE  u[Len(t) + k].name = ids[k].name /\ Len(t) + k \in DOMAIN u
    <2>1. NewEntries(ids) \in Seq(Entry) /\ k \in 1 .. Len(NewEntries(ids)) /\ ids[k] \in ModId
      BY NewEntriesType
    <2>2. u[Len(t) + k] = NewEntries(ids)[k]
      BY <2>1, Concatenated
    <2>3. NewEntries(ids)[k] = Missing(ids[k])
      BY <1>1, NewEntriesType
    <2>4. Len(t) + k \in DOMAIN u
      BY <1>1
    <2> HIDE DEF u
    <2> QED BY <2>1, <2>2, <2>3, <2>4, MissingType
  <1> HIDE DEF u
  <1>3. ASSUME Known(u, name) PROVE Known(t, name) \/ \E id \in ToSet(ids) : id.name = name
    <2>1. PICK i \in DOMAIN u : u[i].name = name
      BY <1>3 DEF Known
    <2>2. CASE i \in 1 .. Len(t)
      BY <2>1, <2>2, <1>1 DEF Known
    <2>3. CASE i \notin 1 .. Len(t)
      <3>1. i - Len(t) \in 1 .. Len(ids) /\ Len(t) + (i - Len(t)) = i
        BY <2>3, <1>1
      <3>2. ids[i - Len(t)].name = name
        BY <3>1, <2>1, <1>2
      <3> QED BY <3>1, <3>2, <1>1 DEF ToSet
    <2> QED BY <2>2, <2>3
  <1>4. ASSUME Known(t, name) PROVE Known(u, name)
    <2>1. PICK i \in DOMAIN t : t[i].name = name
      BY <1>4 DEF Known
    <2>2. i \in DOMAIN u /\ u[i] = t[i]
      BY <1>1
    <2> QED BY <2>1, <2>2 DEF Known
  <1>5. ASSUME NEW id \in ToSet(ids), id.name = name PROVE Known(u, name)
    <2>1. PICK k \in DOMAIN ids : ids[k] = id
      BY DEF ToSet
    <2> QED BY <2>1, <1>1, <1>2, <1>5 DEF Known
  <1> QED BY <1>3, <1>4, <1>5 DEF u

\* New entries at the end, one for each name that has none.
LEMMA WithAllIs ==
  ASSUME NEW t \in Seq(Entry), NEW ids \in Seq(ModId), NoRepeat(ids)
  PROVE  WithAll(t, ids) = t \o NewEntries(Only(ids, {id \in ModId : ~ Known(t, id.name)}))
  <1> DEFINE S == {id \in ModId : ~ Known(t, id.name)}
             Q == {r \in Seq(ModId) :
                     NoRepeat(r) => WithAll(t, r) = t \o NewEntries(Only(r, S))}
  <1> HIDE DEF S
  <1>1. <<>> \in Q
    <2>1. <<>> \in Seq(ModId) /\ Len(<<>>) = 0
      OBVIOUS
    <2>2. WithAll(t, <<>>) = t
      <3>1. WithFirst(t, <<>>)[0] = t
        BY <2>1, WithFirstIs
      <3> QED BY <2>1, <3>1 DEF WithAll
    <2>3. NewEntries(Only(<<>>, S)) = <<>>
      BY OnlyEmpty DEF NewEntries
    <2>4. t \o <<>> = t
      OBVIOUS
    <2> QED BY <2>1, <2>2, <2>3, <2>4
  <1>2. ASSUME NEW r \in Q, NEW e \in ModId PROVE Append(r, e) \in Q
    <2>1. r \in Seq(ModId) /\ Append(r, e) \in Seq(ModId)
      OBVIOUS
    <2> SUFFICES ASSUME NoRepeat(Append(r, e))
                 PROVE  WithAll(t, Append(r, e)) = t \o NewEntries(Only(Append(r, e), S))
      BY <2>1
    <2>2. /\ DOMAIN r = 1 .. Len(r) /\ DOMAIN Append(r, e) = 1 .. Len(r) + 1 /\ Len(r) \in Nat
          /\ Append(r, e)[Len(r) + 1] = e /\ \A i \in 1 .. Len(r) : Append(r, e)[i] = r[i]
      BY <2>1
    <2>3. NoRepeat(r) /\ \A i \in 1 .. Len(r) : r[i].name # e.name
      <3>1. \A i, j \in 1 .. Len(r) : r[i].name = r[j].name => i = j
        BY <2>2 DEF NoRepeat
      <3>2. ASSUME NEW i \in 1 .. Len(r), r[i].name = e.name PROVE FALSE
        <4>1. i \in 1 .. Len(r) + 1 /\ Len(r) + 1 \in 1 .. Len(r) + 1 /\ i # Len(r) + 1
          BY <2>2
        <4> QED BY <4>1, <3>2, <2>2 DEF NoRepeat
      <3> QED BY <3>1, <3>2, <2>2 DEF NoRepeat
    <2> DEFINE fresh == Only(r, S)
               u == WithAll(t, r)
    <2>4. u = t \o NewEntries(fresh)
      BY <2>3
    <2>5. fresh \in Seq(ModId) /\ ToSet(fresh) = ToSet(r) \intersect S
      BY <2>1, OnlyType, OnlyElements
    <2>6. Only(Append(r, e), S) = IF e \in S THEN Append(fresh, e) ELSE fresh
      BY <2>1, OnlyAppend
    <2>7. WithAll(t, Append(r, e)) = With(u, e)
      BY <2>1, WithMore
    <2> HIDE DEF fresh, u, Q
    <2>8. Known(u, e.name) <=> e \notin S
      <3>1. Known(u, e.name) <=> Known(t, e.name) \/ \E id \in ToSet(fresh) : id.name = e.name
        BY <2>4, <2>5, KnownMore
      <3>2. ASSUME NEW id \in ToSet(fresh) PROVE id.name # e.name
        <4>1. id \in ToSet(r)
          BY <2>5
        <4> QED BY <4>1, <2>2, <2>3 DEF ToSet
      <3> QED BY <3>1, <3>2 DEF S
    <2>9. CASE e \notin S
      BY <2>4, <2>6, <2>7, <2>8, <2>9 DEF With
    <2>10. CASE e \in S
      <3>1. With(u, e) = Append(t \o NewEntries(fresh), Missing(e))
        BY <2>4, <2>8, <2>10 DEF With
      <3>2. NewEntries(Append(fresh, e)) = Append(NewEntries(fresh), Missing(e))
        <4>1. Append(fresh, e) \in Seq(ModId)
          BY <2>5
        <4>2. /\ NewEntries(Append(fresh, e)) \in Seq(Entry)
              /\ Len(NewEntries(Append(fresh, e))) = Len(Append(fresh, e))
              /\ \A i \in DOMAIN Append(fresh, e) :
                    NewEntries(Append(fresh, e))[i] = Missing(Append(fresh, e)[i])
          BY <4>1, NewEntriesType
        <4>3. /\ NewEntries(fresh) \in Seq(Entry) /\ Len(NewEntries(fresh)) = Len(fresh)
              /\ \A i \in DOMAIN fresh : NewEntries(fresh)[i] = Missing(fresh[i])
              /\ Missing(e) \in Entry
          BY <2>5, NewEntriesType, MissingType
        <4>4. /\ Len(fresh) \in Nat /\ DOMAIN fresh = 1 .. Len(fresh)
              /\ Len(Append(fresh, e)) = Len(fresh) + 1
              /\ DOMAIN Append(fresh, e) = 1 .. Len(fresh) + 1
              /\ Append(fresh, e)[Len(fresh) + 1] = e
              /\ \A i \in 1 .. Len(fresh) : Append(fresh, e)[i] = fresh[i]
          BY <2>5
        <4> DEFINE a == NewEntries(Append(fresh, e))
                   b == NewEntries(fresh)
                   c == Append(b, Missing(e))
        <4>5. /\ a \in Seq(Entry) /\ c \in Seq(Entry) /\ Len(a) = Len(fresh) + 1
              /\ Len(c) = Len(fresh) + 1 /\ c[Len(fresh) + 1] = Missing(e)
              /\ \A i \in 1 .. Len(fresh) : c[i] = b[i]
          <5> HIDE DEF b
          <5>1. b \in Seq(Entry) /\ Len(b) = Len(fresh)
            BY <4>3 DEF b
          <5> QED BY <5>1, <4>2, <4>3, <4>4
        <4>6. ASSUME NEW i \in 1 .. Len(a) PROVE a[i] = c[i]
          <5>1. i \in 1 .. Len(fresh) + 1 /\ a[i] = Missing(Append(fresh, e)[i])
            BY <4>2, <4>4, <4>5
          <5>2. CASE i = Len(fresh) + 1
            BY <5>1, <5>2, <4>4, <4>5
          <5>3. CASE i # Len(fresh) + 1
            <6>1. i \in 1 .. Len(fresh)
              BY <5>1, <5>3, <4>4
            <6>2. c[i] = b[i] /\ Append(fresh, e)[i] = fresh[i] /\ b[i] = Missing(fresh[i])
              BY <6>1, <4>3, <4>4, <4>5
            <6> QED BY <6>2, <5>1
          <5> QED BY <5>2, <5>3
        <4> HIDE DEF a, c
        <4>7. a = c
          BY <4>5, <4>6, SameSequence
        <4> QED BY <4>7 DEF a, c
      <3>3. t \o Append(NewEntries(fresh), Missing(e)) = Append(t \o NewEntries(fresh), Missing(e))
        BY <2>5, NewEntriesType, MissingType, ConcatAppend
      <3> QED BY <3>1, <3>2, <3>3, <2>6, <2>7, <2>10
    <2> QED BY <2>9, <2>10
  <1>3. Q = Seq(ModId)
    <2> HIDE DEF Q
    <2>1. Q \in SUBSET Seq(ModId)
      BY DEF Q
    <2> QED BY <2>1, <1>1, <1>2, SeqInduction
  <1> QED BY <1>3 DEF S

-----------------------------------------------------------------------------
(* The table while a file is read                                          *)

\* The names of new entries are not repeated.
LEMMA OnlyNoRepeat ==
  ASSUME NEW ids \in Seq(ModId), NoRepeat(ids), NEW S
  PROVE  NoRepeat(Only(ids, S))
  <1> DEFINE Q == {r \in Seq(ModId) : NoRepeat(r) => NoRepeat(Only(r, S))}
  <1>1. <<>> \in Q
    BY OnlyEmpty DEF NoRepeat
  <1>2. ASSUME NEW r \in Q, NEW e \in ModId PROVE Append(r, e) \in Q
    <2>1. r \in Seq(ModId) /\ Append(r, e) \in Seq(ModId)
      OBVIOUS
    <2> SUFFICES ASSUME NoRepeat(Append(r, e)) PROVE NoRepeat(Only(Append(r, e), S))
      BY <2>1
    <2>2. /\ DOMAIN r = 1 .. Len(r) /\ DOMAIN Append(r, e) = 1 .. Len(r) + 1 /\ Len(r) \in Nat
          /\ Append(r, e)[Len(r) + 1] = e /\ \A i \in 1 .. Len(r) : Append(r, e)[i] = r[i]
      BY <2>1
    <2>3. NoRepeat(r) /\ \A i \in 1 .. Len(r) : r[i].name # e.name
      <3>1. \A i, j \in 1 .. Len(r) : r[i].name = r[j].name => i = j
        BY <2>2 DEF NoRepeat
      <3>2. ASSUME NEW i \in 1 .. Len(r), r[i].name = e.name PROVE FALSE
        <4>1. i \in 1 .. Len(r) + 1 /\ Len(r) + 1 \in 1 .. Len(r) + 1 /\ i # Len(r) + 1
          BY <2>2
        <4> QED BY <4>1, <3>2, <2>2 DEF NoRepeat
      <3> QED BY <3>1, <3>2, <2>2 DEF NoRepeat
    <2> DEFINE f == Only(r, S)
    <2>4. NoRepeat(f) /\ f \in Seq(ModId) /\ ToSet(f) = ToSet(r) \intersect S
      BY <2>1, <2>3, OnlyType, OnlyElements
    <2>5. Only(Append(r, e), S) = IF e \in S THEN Append(f, e) ELSE f
      BY <2>1, OnlyAppend
    <2>6. ASSUME NEW k \in DOMAIN f PROVE f[k].name # e.name
      <3>1. f[k] \in ToSet(f)
        BY DEF ToSet
      <3>2. PICK i \in DOMAIN r : r[i] = f[k]
        BY <3>1, <2>4 DEF ToSet
      <3> QED BY <3>2, <2>2, <2>3
    <2> HIDE DEF f
    <2>7. NoRepeat(Append(f, e))
      <3>1. /\ DOMAIN f = 1 .. Len(f) /\ DOMAIN Append(f, e) = 1 .. Len(f) + 1 /\ Len(f) \in Nat
            /\ Append(f, e)[Len(f) + 1] = e /\ \A i \in 1 .. Len(f) : Append(f, e)[i] = f[i]
        BY <2>4
      <3> SUFFICES ASSUME NEW i \in DOMAIN Append(f, e), NEW j \in DOMAIN Append(f, e),
                          Append(f, e)[i].name = Append(f, e)[j].name
                   PROVE  i = j
        BY DEF NoRepeat
      <3>2. CASE i = Len(f) + 1 /\ j # Len(f) + 1
        BY <3>1, <3>2, <2>6
      <3>3. CASE i # Len(f) + 1 /\ j = Len(f) + 1
        BY <3>1, <3>3, <2>6
      <3>4. CASE i # Len(f) + 1 /\ j # Len(f) + 1
        <4>1. i \in DOMAIN f /\ j \in DOMAIN f
          BY <3>1, <3>4
        <4> QED BY <4>1, <3>1, <2>4 DEF NoRepeat
      <3> QED BY <3>2, <3>3, <3>4
    <2> QED BY <2>4, <2>5, <2>7
  <1>3. Q = Seq(ModId)
    <2> HIDE DEF Q
    <2>1. Q \in SUBSET Seq(ModId)
      BY DEF Q
    <2> QED BY <2>1, <1>1, <1>2, SeqInduction
  <1> QED BY <1>3

\* What the loader can rely on in any module.
LEMMA ModuleIs ==
  ASSUME NEW m, IsModule(m)
  PROVE  /\ Id(m) \in ModId /\ Id(m).name = m.name /\ Id(m).key = m.key
         /\ m.imports \in Seq(ModId) /\ NoRepeat(m.imports)
         /\ \A i \in DOMAIN m.imports : m.imports[i].name # m.name
         /\ m.globals \in Nat /\ Len(m.strings) \in Nat
         /\ m.globals + Len(m.strings) \in Nat
  BY DEF IsModule, Id, ModId, NoRepeat

\* The entries of a table that was extended: old ones, that of m, and new ones.
LEMMA Places ==
  ASSUME NEW t \in Seq(Entry), NEW m, IsModule(m), NEW ids \in Seq(ModId), NEW base,
         NEW u \in Seq(Entry), Staged(t, m, ids, base, u)
  PROVE  LET i == Place(t, m)
             w == Width(t, m)
             fresh == Fresh(t, m, ids)
         IN /\ Len(t) \in Nat /\ DOMAIN t = 1 .. Len(t) /\ w \in Nat /\ i \in 1 .. w
            /\ fresh \in Seq(ModId) /\ Len(fresh) \in Nat /\ DOMAIN fresh = 1 .. Len(fresh)
            /\ DOMAIN u = 1 .. w + Len(fresh) /\ i \in DOMAIN u
            /\ IF Known(t, m.name) THEN i \in DOMAIN t /\ w = Len(t) /\ t[i].name = m.name
                                   ELSE i = Len(t) + 1 /\ w = Len(t) + 1
            /\ \A j \in DOMAIN u : \/ j \in DOMAIN t /\ j # i
                                   \/ j = i
                                   \/ j - w \in DOMAIN fresh /\ w + (j - w) = j
            /\ \A k \in DOMAIN fresh : w + k \in DOMAIN u /\ w + k \notin DOMAIN t /\ w + k # i
            /\ \A j \in DOMAIN t : j \in DOMAIN u /\ u[j].name = t[j].name /\ u[j].key = t[j].key
  <1> DEFINE i == Place(t, m)
             w == Width(t, m)
             fresh == Fresh(t, m, ids)
  <1>1. fresh \in Seq(ModId)
    BY OnlyType DEF Fresh
  <1>2. /\ Len(t) \in Nat /\ DOMAIN t = 1 .. Len(t)
        /\ Len(fresh) \in Nat /\ DOMAIN fresh = 1 .. Len(fresh)
    BY <1>1
  <1>3. IF Known(t, m.name) THEN i \in DOMAIN t /\ w = Len(t) /\ t[i].name = m.name
                           ELSE i = Len(t) + 1 /\ w = Len(t) + 1
    BY IndexFound DEF Place, Width
  <1>4. w \in Nat /\ i \in 1 .. w /\ Len(t) <= w
    BY <1>2, <1>3
  <1>5. Len(u) = w + Len(fresh) /\ DOMAIN u = 1 .. Len(u)
    BY DEF Staged
  <1>6. i \in DOMAIN u
    BY <1>2, <1>4, <1>5
  <1>7. ASSUME NEW j \in DOMAIN t
        PROVE  j \in DOMAIN u /\ u[j].name = t[j].name /\ u[j].key = t[j].key
    <2>1. j \in DOMAIN u
      BY <1>2, <1>4, <1>5
    <2>2. CASE j # i
      BY <2>1, <2>2 DEF Staged, Alike
    <2>3. CASE j = i
      <3>1. Known(t, m.name) /\ t[i].name = m.name
        BY <2>3, <1>2, <1>3
      <3> QED BY <2>1, <2>3, <3>1 DEF Staged
    <2> QED BY <2>2, <2>3
  <1> HIDE DEF i, w, fresh
  <1>8. ASSUME NEW j \in DOMAIN u
        PROVE  \/ j \in DOMAIN t /\ j # i
               \/ j = i
               \/ j - w \in DOMAIN fresh /\ w + (j - w) = j
    BY <1>2, <1>3, <1>4, <1>5
  <1>9. ASSUME NEW k \in DOMAIN fresh
        PROVE  w + k \in DOMAIN u /\ w + k \notin DOMAIN t /\ w + k # i
    BY <1>2, <1>4, <1>5
  <1> QED BY <1>1, <1>2, <1>3, <1>4, <1>5, <1>6, <1>7, <1>8, <1>9 DEF i, w, fresh

LEMMA StagedNames ==
  ASSUME NEW t \in Seq(Entry), NEW m, IsModule(m), NEW ids \in Seq(ModId), NEW base,
         NEW u \in Seq(Entry), Staged(t, m, ids, base, u), NEW j \in DOMAIN t
  PROVE  j \in DOMAIN u /\ u[j].name = t[j].name /\ u[j].key = t[j].key
  BY Places, SMTT(30)

\* No name gets a second entry.
LEMMA StagedDistinct ==
  ASSUME NEW t \in Seq(Entry), Distinct(t), NEW m, IsModule(m),
         NEW ids \in Seq(ModId), NoRepeat(ids), NEW base,
         NEW u \in Seq(Entry), Staged(t, m, ids, base, u)
  PROVE  Distinct(u)
  <1> DEFINE i == Place(t, m)
             w == Width(t, m)
             fresh == Fresh(t, m, ids)
             Old(j) == j \in DOMAIN t /\ j # i
             New(j) == j - w \in DOMAIN fresh /\ w + (j - w) = j
  <1>1. /\ \A j \in DOMAIN u : Old(j) \/ j = i \/ New(j)
        /\ fresh \in Seq(ModId)
    BY Places
  <1>2. ASSUME NEW j \in DOMAIN u, Old(j)
        PROVE  u[j].name = t[j].name /\ u[j].name # m.name /\ Known(t, u[j].name)
    <2>1. u[j].name = t[j].name
      BY <1>2 DEF Staged, Alike
    <2>2. Known(t, u[j].name)
      BY <1>2, <2>1 DEF Known
    <2>3. ASSUME t[j].name = m.name PROVE FALSE
      <3>1. Known(t, m.name) /\ i = IndexIn(t, m.name)
        BY <1>2, <2>3 DEF Known, Place
      <3>2. i = j
        BY <3>1, <1>2, <2>3, IndexOf
      <3> QED BY <3>2, <1>2
    <2> QED BY <2>1, <2>2, <2>3
  <1>3. u[i].name = m.name
    BY DEF Staged
  <1>4. ASSUME NEW j \in DOMAIN u, New(j)
        PROVE  u[j].name = fresh[j - w].name /\ u[j].name # m.name /\ ~ Known(t, u[j].name)
    <2>1. fresh[j - w] \in ToSet(fresh) /\ fresh[j - w] \in ModId
      BY <1>1, <1>4 DEF ToSet
    <2>2. fresh[j - w] \in {id \in ModId : ~ Known(t, id.name) /\ id.name # m.name}
      BY <2>1, OnlyElements DEF Fresh
    <2>3. Alike(u[w + (j - w)], Missing(fresh[j - w]))
      BY <1>4 DEF Staged
    <2>4. u[j].name = fresh[j - w].name
      BY <2>1, <2>3, <1>4, MissingType DEF Alike
    <2> QED BY <2>2, <2>4
  <1>5. NoRepeat(fresh)
    BY OnlyNoRepeat DEF Fresh
  <1> HIDE DEF i, w, fresh
  <1> SUFFICES ASSUME NEW j \in DOMAIN u, NEW k \in DOMAIN u, u[j].name = u[k].name
               PROVE  j = k
    BY DEF Distinct
  <1>6. CASE Old(j) /\ Old(k)
    BY <1>2, <1>6 DEF Distinct
  <1>7. CASE New(j) /\ New(k)
    <2>1. fresh[j - w].name = fresh[k - w].name
      BY <1>4, <1>7
    <2>2. j - w = k - w
      BY <2>1, <1>5, <1>7 DEF NoRepeat
    <2> QED BY <2>2, <1>7
  <1>8. CASE j = i \/ k = i
    BY <1>1, <1>2, <1>3, <1>4, <1>8
  <1>9. CASE (Old(j) /\ New(k)) \/ (New(j) /\ Old(k))
    BY <1>2, <1>4, <1>9
  <1>10. (Old(j) \/ j = i \/ New(j)) /\ (Old(k) \/ k = i \/ New(k))
    BY <1>1
  <1> HIDE DEF Old, New
  <1> QED BY <1>6, <1>7, <1>8, <1>9, <1>10

\* What the section of the module makes of table t, and that of the imports of w.
OwnRead(t, m, base, u) ==
  /\ Len(u) = Len(With(t, Id(m)))
  /\ \A j \in DOMAIN u :
       IF j = IndexIn(With(t, Id(m)), m.name)
       THEN /\ u[j].name = With(t, Id(m))[j].name /\ u[j].key = With(t, Id(m))[j].key
            /\ u[j].loaded /\ u[j].data_ofs = base
            /\ u[j].data_sz = m.globals + Len(m.strings)
       ELSE u[j] = With(t, Id(m))[j]
ImportsRead(w, m, i, v) ==
  /\ Len(v) = Len(w)
  /\ \A j \in DOMAIN v :
       IF j = i
       THEN /\ v[j].name = w[j].name /\ v[j].key = w[j].key /\ v[j].loaded = w[j].loaded
            /\ v[j].data_ofs = w[j].data_ofs /\ v[j].data_sz = w[j].data_sz
            /\ v[j].import = [k \in DOMAIN m.imports |-> IndexIn(w, m.imports[k].name)]
       ELSE v[j] = w[j]

\* ReadModule: the entry of m is there, and loaded.
LEMMA StagedOwn ==
  ASSUME NEW t \in Seq(Entry), NEW m, IsModule(m), ~ Refused(t, <<Id(m)>>), NEW base,
         NEW u \in Seq(Entry), OwnRead(t, m, base, u)
  PROVE  /\ Staged(t, m, <<>>, base, u) /\ Len(u) < ModTabMax
         /\ IndexIn(With(t, Id(m)), m.name) = Place(t, m)
         /\ ~ Known(t, m.name) => With(t, Id(m))[Place(t, m)] = Missing(Id(m))
         /\ Known(t, m.name) => With(t, Id(m)) = t
  <1> USE DEF OwnRead
  <1> DEFINE id == Id(m)
             v == With(t, id)
             i == IndexIn(v, m.name)
  <1>1. /\ id \in ModId /\ id.name = m.name /\ id.key = m.key
        /\ Len(t) \in Nat /\ DOMAIN t = 1 .. Len(t)
    BY ModuleIs
  <1>2. WithAll(t, <<id>>) = v
    BY <1>1, WithOne
  <1>3. ~ (Len(v) >= ModTabMax) /\ \A j \in DOMAIN t : t[j].name = m.name => t[j].key = m.key
    <2>1. id \in ToSet(<<id>>)
      <3>1. 1 \in DOMAIN <<id>> /\ <<id>>[1] = id
        OBVIOUS
      <3> QED BY <3>1 DEF ToSet
    <2> HIDE DEF id, v
    <2> QED BY <1>1, <1>2, <2>1 DEF Refused, id
  <1>4. v \in Seq(Entry)
    BY <1>1, WithType
  <1>5. Fresh(t, m, <<>>) = <<>>
    BY OnlyEmpty DEF Fresh
  <1>6. CASE Known(t, m.name)
    <2>1. v = t
      BY <1>1, <1>6 DEF With
    <2>2. i = Place(t, m) /\ Width(t, m) = Len(t) /\ i \in DOMAIN t /\ t[i].name = m.name
      BY <1>6, <2>1, IndexFound DEF Place, Width
    <2> HIDE DEF v, i, id
    <2>3. /\ Len(u) = Len(t) /\ DOMAIN u = DOMAIN t /\ Len(u) \in Nat
          /\ u[i].name = t[i].name /\ u[i].key = t[i].key
          /\ u[i].loaded /\ u[i].data_ofs = base /\ u[i].data_sz = m.globals + Len(m.strings)
          /\ \A j \in DOMAIN t : j # i => u[j] = t[j]
      BY <2>1, <2>2 DEF v, i, id
    <2>4. Staged(t, m, <<>>, base, u)
      <3>1. Len(u) = Width(t, m) + Len(Fresh(t, m, <<>>)) /\ DOMAIN Fresh(t, m, <<>>) = {}
        <4>1. Len(Fresh(t, m, <<>>)) = 0 /\ DOMAIN Fresh(t, m, <<>>) = {}
          BY <1>5
        <4>2. Len(t) = Len(t) + 0
          BY <1>1
        <4> QED BY <4>1, <4>2, <2>2, <2>3
      <3>2. t[i].key = m.key /\ u[i].name = m.name /\ u[i].key = m.key
        BY <2>2, <2>3, <1>3
      <3> QED BY <2>2, <2>3, <3>1, <3>2 DEF Staged, Alike
    <2> QED BY <2>1, <2>2, <2>3, <2>4, <1>3, <1>6, ModTabAssumption DEF v, i, id
  <1>7. CASE ~ Known(t, m.name)
    <2>1. v = Append(t, Missing(id)) /\ Missing(id) \in Entry /\ Missing(id).name = m.name
          /\ Missing(id).key = m.key
      BY <1>1, <1>7, MissingType DEF With
    <2> DEFINE n == Len(t) + 1
    <2>2. /\ DOMAIN v = 1 .. n /\ Len(v) = n /\ v[n] = Missing(id)
          /\ \A j \in DOMAIN t : v[j] = t[j] /\ j \in DOMAIN v /\ j # n
      BY <2>1, <1>1
    <2>3. i = n
      <3>1. n \in DOMAIN v /\ v[n].name = m.name
        BY <2>1, <2>2, <1>1
      <3>2. Known(v, m.name)
        BY <3>1 DEF Known
      <3>3. i \in DOMAIN v /\ v[i].name = m.name
        BY <3>2, IndexFound
      <3>4. ASSUME i # n PROVE FALSE
        <4>1. i \in DOMAIN t /\ v[i] = t[i]
          BY <3>3, <3>4, <2>2, <1>1
        <4> QED BY <4>1, <3>3, <1>7 DEF Known
      <3> QED BY <3>4
    <2>4. i = Place(t, m) /\ Width(t, m) = n
      BY <1>7, <2>3 DEF Place, Width
    <2> HIDE DEF v, i, id, n
    <2>5. DOMAIN u = DOMAIN v /\ Len(u) = Len(v) /\ n \in Nat
      BY <2>2, <1>1, <1>4 DEF v, id, n
    <2>6. /\ u[i].name = m.name /\ u[i].key = m.key
          /\ u[i].loaded /\ u[i].data_ofs = base /\ u[i].data_sz = m.globals + Len(m.strings)
      <3>1. i \in DOMAIN u /\ v[i] = Missing(id)
        BY <2>2, <2>3, <2>5, <1>1 DEF n
      <3> QED BY <3>1, <2>1 DEF v, i, id
    <2>7. \A j \in DOMAIN t : j # i => u[j] = t[j]
      BY <2>2, <2>3, <2>5 DEF v, i, id
    <2>8. Staged(t, m, <<>>, base, u)
      BY <2>2, <2>4, <2>5, <2>6, <2>7, <1>5, <1>7 DEF Staged, Alike
    <2>9. Len(u) < ModTabMax /\ v[n] = Missing(id)
      BY <2>2, <2>5, <1>3, ModTabAssumption
    <2> QED BY <2>3, <2>4, <2>8, <2>9, <1>7 DEF v, i, id
  <1> QED BY <1>6, <1>7

\* A table that was extended by an entry for m alone.
LEMMA StagedOnly ==
  ASSUME NEW t \in Seq(Entry), NEW m, IsModule(m), NEW base,
         NEW u \in Seq(Entry), Staged(t, m, <<>>, base, u)
  PROVE  LET i == Place(t, m)
             n == Width(t, m)
         IN /\ Len(t) \in Nat /\ DOMAIN t = 1 .. Len(t) /\ n \in Nat /\ i \in 1 .. n /\ i \in DOMAIN u
            /\ Len(u) = n /\ DOMAIN u = 1 .. n /\ u[i].name = m.name
            /\ \A j \in DOMAIN u : (j \in DOMAIN t /\ j # i) \/ j = i
            /\ \A j \in DOMAIN t : j \in DOMAIN u /\ u[j].name = t[j].name /\ u[j].key = t[j].key
  <1>1. PICK none \in Seq(ModId) : none = <<>>
    <2>1. \A T : <<>> \in Seq(T)
      OBVIOUS
    <2> QED BY <2>1, Zenon
  <1>2. Fresh(t, m, none) = <<>>
    BY <1>1, OnlyEmpty DEF Fresh
  <1>3. PICK fresh : fresh = Fresh(t, m, none) /\ Len(fresh) = 0 /\ DOMAIN fresh = {}
    BY <1>2
  <1>4. PICK i, n : i = Place(t, m) /\ n = Width(t, m)
    OBVIOUS
  <1>5. Staged(t, m, none, base, u)
    BY <1>1
  <1>6. /\ Len(t) \in Nat /\ DOMAIN t = 1 .. Len(t) /\ n \in Nat /\ i \in 1 .. n
        /\ DOMAIN u = 1 .. n + Len(fresh) /\ i \in DOMAIN u
        /\ \A j \in DOMAIN u : \/ j \in DOMAIN t /\ j # i
                               \/ j = i
                               \/ j - n \in DOMAIN fresh /\ n + (j - n) = j
    BY <1>3, <1>4, <1>5, Places
  <1>7. \A j \in DOMAIN t : j \in DOMAIN u /\ u[j].name = t[j].name /\ u[j].key = t[j].key
    BY <1>5, StagedNames
  <1>8. Len(u) = n /\ DOMAIN u = 1 .. n
    BY <1>3, <1>6
  <1>9. u[i].name = m.name
    BY <1>4 DEF Staged
  <1> QED BY <1>3, <1>4, <1>6, <1>7, <1>8, <1>9

\* An entry for m, and then for what it imports.
LEMMA StagedWith ==
  ASSUME NEW t \in Seq(Entry), NEW m, IsModule(m), NEW base,
         NEW u \in Seq(Entry), Staged(t, m, <<>>, base, u)
  PROVE  /\ Len(u) = Width(t, m)
         /\ \A name : Known(u, name) <=> Known(t, name) \/ name = m.name
         /\ WithAll(u, m.imports) = u \o NewEntries(Fresh(t, m, m.imports))
         /\ Len(WithAll(u, m.imports)) = Width(t, m) + Len(Fresh(t, m, m.imports))
  <1> DEFINE ids == m.imports
             i == Place(t, m)
             n == Width(t, m)
             fresh == Fresh(t, m, ids)
  <1>1. ids \in Seq(ModId) /\ NoRepeat(ids) /\ <<>> \in Seq(ModId)
    BY ModuleIs
  <1>2. /\ Len(t) \in Nat /\ DOMAIN t = 1 .. Len(t) /\ n \in Nat /\ i \in 1 .. n /\ i \in DOMAIN u
        /\ Len(u) = n /\ DOMAIN u = 1 .. n /\ u[i].name = m.name
        /\ \A j \in DOMAIN u : (j \in DOMAIN t /\ j # i) \/ j = i
        /\ \A j \in DOMAIN t : j \in DOMAIN u /\ u[j].name = t[j].name /\ u[j].key = t[j].key
    BY StagedOnly
  <1>3. /\ Len(t) \in Nat /\ DOMAIN t = 1 .. Len(t) /\ n \in Nat /\ i \in 1 .. n /\ i \in DOMAIN u
        /\ \A j \in DOMAIN u : (j \in DOMAIN t /\ j # i) \/ j = i
        /\ \A j \in DOMAIN t : j \in DOMAIN u /\ u[j].name = t[j].name /\ u[j].key = t[j].key
    BY <1>2
  <1>4. Len(u) = n /\ DOMAIN u = 1 .. n /\ u[i].name = m.name
    BY <1>2
  <1>5. \A name : Known(u, name) <=> Known(t, name) \/ name = m.name
    <2> TAKE name
    <2>1. ASSUME Known(u, name) PROVE Known(t, name) \/ name = m.name
      <3>1. PICK j \in DOMAIN u : u[j].name = name
        BY <2>1 DEF Known
      <3>2. CASE j = i
        BY <3>1, <3>2, <1>4
      <3>3. CASE j # i
        <4>1. j \in DOMAIN t /\ t[j].name = name
          BY <3>1, <3>3, <1>3
        <4> QED BY <4>1 DEF Known
      <3> QED BY <3>2, <3>3
    <2>2. ASSUME Known(t, name) PROVE Known(u, name)
      <3>1. PICK j \in DOMAIN t : t[j].name = name
        BY <2>2 DEF Known
      <3> QED BY <3>1, <1>3 DEF Known
    <2>3. ASSUME name = m.name PROVE Known(u, name)
      BY <2>3, <1>3, <1>4 DEF Known
    <2> QED BY <2>1, <2>2, <2>3
  <1>6. WithAll(u, ids) = u \o NewEntries(fresh)
    <2>1. {id \in ModId : ~ Known(u, id.name)} = {id \in ModId : ~ Known(t, id.name) /\ id.name # m.name}
      BY <1>5
    <2> QED BY <2>1, <1>1, WithAllIs DEF Fresh
  <1>7. Len(u \o NewEntries(fresh)) = n + Len(fresh)
    <2> DEFINE new == NewEntries(fresh)
    <2>1. fresh \in Seq(ModId)
      BY <1>1, OnlyType DEF Fresh
    <2>2. new \in Seq(Entry) /\ Len(new) = Len(fresh)
      <3> HIDE DEF fresh
      <3> QED BY <2>1, NewEntriesType
    <2> HIDE DEF new
    <2>3. Len(u \o new) = Len(u) + Len(new)
      BY <2>2, Joined
    <2> QED BY <2>2, <2>3, <1>4 DEF new
  <1> HIDE DEF fresh, n
  <1> QED BY <1>4, <1>5, <1>6, <1>7 DEF fresh, n

\* ReadImports: entries for what m imports, and its import table.
LEMMA StagedImports ==
  ASSUME NEW t \in Seq(Entry), NEW m, IsModule(m), NEW base,
         NEW u \in Seq(Entry), Staged(t, m, <<>>, base, u), ~ Refused(u, m.imports),
         NEW w, w = WithAll(u, m.imports),
         NEW v \in Seq(Entry), ImportsRead(w, m, Place(t, m), v)
  PROVE  /\ Staged(t, m, m.imports, base, v) /\ Imported(v, Place(t, m), m.imports)
         /\ Len(v) < ModTabMax
  <1> USE DEF ImportsRead
  <1> DEFINE ids == m.imports
             i == Place(t, m)
             n == Width(t, m)
             fresh == Fresh(t, m, ids)
  <1>1. ids \in Seq(ModId) /\ NoRepeat(ids) /\ <<>> \in Seq(ModId)
    BY ModuleIs
  <1>2. /\ Len(t) \in Nat /\ DOMAIN t = 1 .. Len(t) /\ n \in Nat /\ i \in 1 .. n /\ i \in DOMAIN u
        /\ Len(u) = n /\ DOMAIN u = 1 .. n /\ u[i].name = m.name
        /\ \A j \in DOMAIN u : (j \in DOMAIN t /\ j # i) \/ j = i
        /\ \A j \in DOMAIN t : j \in DOMAIN u /\ u[j].name = t[j].name /\ u[j].key = t[j].key
    BY StagedOnly
  <1>3. /\ Len(t) \in Nat /\ DOMAIN t = 1 .. Len(t) /\ n \in Nat /\ i \in 1 .. n /\ i \in DOMAIN u
        /\ \A j \in DOMAIN u : (j \in DOMAIN t /\ j # i) \/ j = i
        /\ \A j \in DOMAIN t : j \in DOMAIN u /\ u[j].name = t[j].name /\ u[j].key = t[j].key
    BY <1>2
  <1>4. Len(u) = n /\ DOMAIN u = 1 .. n /\ u[i].name = m.name
    BY <1>2
  <1>5. \A name : Known(u, name) <=> Known(t, name) \/ name = m.name
    BY StagedWith
  <1>6. w = u \o NewEntries(fresh)
    BY StagedWith
  <1>7. /\ fresh \in Seq(ModId) /\ ToSet(fresh) \subseteq ToSet(ids)
        /\ \A id \in ToSet(ids) : Known(u, id.name) \/ id \in ToSet(fresh)
    <2> DEFINE S == {id \in ModId : ~ Known(t, id.name) /\ id.name # m.name}
    <2>1. fresh \in Seq(ModId) /\ ToSet(fresh) = ToSet(ids) \intersect S
      BY <1>1, OnlyType, OnlyElements DEF Fresh
    <2>2. ASSUME NEW id \in ToSet(ids) PROVE id \in ModId
      BY <1>1 DEF ToSet
    <2>3. ASSUME NEW id \in ToSet(ids), ~ Known(u, id.name) PROVE id \in S
      BY <2>2, <2>3, <1>5
    <2> HIDE DEF S
    <2> QED BY <2>1, <2>3
  <1> HIDE DEF fresh, i, n
  <1> DEFINE new == NewEntries(fresh)
  <1>8. /\ new \in Seq(Entry) /\ Len(new) = Len(fresh) /\ Len(fresh) \in Nat
        /\ DOMAIN fresh = 1 .. Len(fresh) /\ \A k \in DOMAIN fresh : new[k] = Missing(fresh[k])
    BY <1>7, NewEntriesType
  <1> HIDE DEF new
  <1>9. /\ Len(w) = n + Len(fresh) /\ DOMAIN w = 1 .. n + Len(fresh) /\ w \in Seq(Entry)
        /\ \A j \in 1 .. n : w[j] = u[j] /\ j \in DOMAIN w
        /\ \A k \in DOMAIN fresh : n + k \in DOMAIN w /\ w[n + k] = Missing(fresh[k])
                                     /\ n + k \notin 1 .. n
    <2>1. w = u \o new
      BY <1>6 DEF new
    <2>2. /\ Len(w) = n + Len(fresh) /\ DOMAIN w = 1 .. n + Len(fresh) /\ w \in Seq(Entry)
          /\ \A j \in 1 .. n : w[j] = u[j]
      <3>1. /\ Len(u \o new) = Len(u) + Len(new) /\ DOMAIN (u \o new) = 1 .. Len(u) + Len(new)
            /\ u \o new \in Seq(Entry) /\ \A j \in 1 .. Len(u) : (u \o new)[j] = u[j]
        <4>1. new \in Seq(Entry)
          BY <1>8
        <4> QED BY <4>1, Joined, Zenon
      <3> QED BY <3>1, <2>1, <1>4, <1>8
    <2>3. ASSUME NEW k \in DOMAIN fresh
          PROVE  n + k \in DOMAIN w /\ w[n + k] = Missing(fresh[k]) /\ n + k \notin 1 .. n
      <3>1. k \in 1 .. Len(new) /\ new[k] = Missing(fresh[k])
        BY <1>8
      <3>2. w[n + k] = new[k]
        BY <2>1, <3>1, <1>4, <1>8, Concatenated
      <3>3. n + k \in DOMAIN w /\ n + k \notin 1 .. n
        BY <2>2, <1>3, <1>8
      <3> QED BY <3>1, <3>2, <3>3
    <2>4. \A j \in 1 .. n : j \in DOMAIN w
      BY <2>2, <1>3, <1>8
    <2> QED BY <2>2, <2>3, <2>4
  <1>10. DOMAIN v = DOMAIN w
    BY <1>9
  <1>11. \A j \in DOMAIN v : v[j].name = w[j].name /\ v[j].key = w[j].key
    BY DEF i
  <1>12. Staged(t, m, ids, base, v)
    <2>1. Len(v) = n + Len(fresh)
      BY <1>9
    <2>2. ASSUME NEW j \in DOMAIN t, j # i PROVE Alike(v[j], t[j])
      <3>1. j \in DOMAIN u /\ j \in DOMAIN v /\ w[j] = u[j]
        BY <1>3, <1>4, <1>9, <1>10
      <3>2. v[j] = u[j]
        BY <3>1, <2>2 DEF i
      <3>3. Alike(u[j], t[j])
        BY <2>2 DEF Staged, i
      <3> QED BY <3>2, <3>3
    <2>3. Known(t, m.name) => t[i].key = m.key
      BY DEF Staged, i
    <2>4. /\ v[i].name = m.name /\ v[i].key = m.key /\ v[i].loaded
          /\ v[i].data_ofs = base /\ v[i].data_sz = m.globals + Len(m.strings)
      <3>1. i \in DOMAIN v /\ w[i] = u[i]
        BY <1>3, <1>4, <1>9, <1>10
      <3>2. /\ v[i].name = w[i].name /\ v[i].key = w[i].key /\ v[i].loaded = w[i].loaded
            /\ v[i].data_ofs = w[i].data_ofs /\ v[i].data_sz = w[i].data_sz
        BY <3>1 DEF i
      <3>3. /\ u[i].name = m.name /\ u[i].key = m.key /\ u[i].loaded
            /\ u[i].data_ofs = base /\ u[i].data_sz = m.globals + Len(m.strings)
        BY DEF Staged, i
      <3> QED BY <3>1, <3>2, <3>3
    <2>5. ASSUME NEW k \in DOMAIN fresh PROVE Alike(v[n + k], Missing(fresh[k]))
      <3>1. n + k \in DOMAIN v /\ n + k # i /\ w[n + k] = Missing(fresh[k])
        BY <1>3, <1>9, <1>10
      <3>2. v[n + k] = Missing(fresh[k])
        BY <3>1 DEF i
      <3> QED BY <3>2 DEF Alike
    <2> QED BY <2>1, <2>2, <2>3, <2>4, <2>5 DEF Staged, i, n, fresh
  <1>13. Imported(v, i, ids)
    <2>1. v[i].import = [k \in DOMAIN ids |-> IndexIn(w, ids[k].name)]
      <3>1. i \in DOMAIN v
        BY <1>3, <1>4, <1>9, <1>10
      <3> QED BY <3>1 DEF i
    <2>2. Len(v[i].import) = Len(ids)
      <3>1. Len(ids) \in Nat /\ DOMAIN ids = 1 .. Len(ids)
        BY <1>1
      <3> QED BY <2>1, <3>1
    <2>3. ASSUME NEW k \in DOMAIN ids
          PROVE  /\ v[i].import[k] \in DOMAIN v
                 /\ v[v[i].import[k]].name = ids[k].name /\ v[v[i].import[k]].key = ids[k].key
      <3> DEFINE x == IndexIn(w, ids[k].name)
      <3>1. v[i].import[k] = x
        BY <2>1
      <3>2. ids[k] \in ToSet(ids)
        BY DEF ToSet
      <3>3. Known(w, ids[k].name)
        <4>1. Known(w, ids[k].name) <=>
                Known(u, ids[k].name) \/ \E id \in ToSet(fresh) : id.name = ids[k].name
          <5>1. Known(u \o NewEntries(fresh), ids[k].name) <=>
                  Known(u, ids[k].name) \/ \E id \in ToSet(fresh) : id.name = ids[k].name
            BY <1>7, KnownMore
          <5> QED BY <5>1, <1>6
        <4> QED BY <4>1, <3>2, <1>7
      <3>4. x \in DOMAIN w /\ w[x].name = ids[k].name
        BY <3>3, IndexFound
      <3> HIDE DEF x
      <3>5. w[x].key = ids[k].key
        <4>1. CASE x \in 1 .. n
          <5>1. x \in DOMAIN u /\ u[x] = w[x]
            BY <4>1, <1>4, <1>9
          <5> QED BY <5>1, <3>2, <3>4 DEF Refused
        <4>2. CASE x \notin 1 .. n
          <5>1. x - n \in DOMAIN fresh /\ n + (x - n) = x
            BY <4>2, <3>4, <1>3, <1>8, <1>9
          <5>2. w[x] = Missing(fresh[x - n]) /\ fresh[x - n] \in ModId /\ fresh[x - n] \in ToSet(fresh)
            BY <5>1, <1>7, <1>9 DEF ToSet
          <5>3. w[x].name = fresh[x - n].name /\ w[x].key = fresh[x - n].key
            BY <5>2, MissingType
          <5>4. PICK q \in DOMAIN ids : ids[q] = fresh[x - n]
            BY <5>2, <1>7 DEF ToSet
          <5>5. q = k
            BY <5>3, <5>4, <3>4, <1>1 DEF NoRepeat
          <5> QED BY <5>3, <5>4, <5>5
        <4> QED BY <4>1, <4>2
      <3> QED BY <3>1, <3>4, <3>5, <1>10, <1>11
    <2> QED BY <2>2, <2>3 DEF Imported
  <1>14. Len(v) < ModTabMax
    <2>1. ~ (Len(w) >= ModTabMax)
      BY DEF Refused
    <2> QED BY <2>1, <1>3, <1>8, <1>9, ModTabAssumption
  <1> QED BY <1>12, <1>13, <1>14 DEF i

\* At the end of its file m is loaded like all others.
LEMMA StagedConsistent ==
  ASSUME NEW t \in Seq(Entry), Consistent(t), NEW m, IsModule(m), NEW base,
         NEW u \in Seq(Entry), Staged(t, m, m.imports, base, u),
         Imported(u, Place(t, m), m.imports),
         NEW f \in DiskOf(paths), f.name = m.name, f.key = m.key, f.imports = m.imports
  PROVE  Consistent(u)
  <1> DEFINE i == Place(t, m)
             w == Width(t, m)
             fresh == Fresh(t, m, m.imports)
  <1>1. m.imports \in Seq(ModId) /\ NoRepeat(m.imports)
    BY ModuleIs
  <1>2. Distinct(t)
    BY DEF Consistent
  <1>3. Distinct(u)
    BY <1>1, <1>2, StagedDistinct
  <1>4. /\ \A j \in DOMAIN u : (j \in DOMAIN t /\ j # i) \/ j = i
                                 \/ (j - w \in DOMAIN fresh /\ w + (j - w) = j)
        /\ \A j \in DOMAIN t : j \in DOMAIN u /\ u[j].name = t[j].name /\ u[j].key = t[j].key
        /\ fresh \in Seq(ModId)
    BY <1>1, Places, ZenonT(30)
  <1>5. ASSUME NEW j \in DOMAIN u
        PROVE  IF u[j].loaded
               THEN \E g \in DiskOf(paths) :
                      g.name = u[j].name /\ g.key = u[j].key /\ Imported(u, j, g.imports)
               ELSE u[j].import = <<>>
    <2>1. CASE j \in DOMAIN t /\ j # i
      <3>1. Alike(u[j], t[j])
        BY <2>1 DEF Staged
      <3>2. CASE u[j].loaded
        <4>1. PICK g \in DiskOf(paths) :
                g.name = t[j].name /\ g.key = t[j].key /\ Imported(t, j, g.imports)
          BY <2>1, <3>1, <3>2 DEF Consistent, Alike
        <4>2. Imported(u, j, g.imports)
          <5>1. u[j].import = t[j].import
            BY <3>1 DEF Alike
          <5>2. Len(u[j].import) = Len(g.imports)
            BY <5>1, <4>1 DEF Imported
          <5>3. ASSUME NEW k \in DOMAIN g.imports
                PROVE  /\ u[j].import[k] \in DOMAIN u
                       /\ u[u[j].import[k]].name = g.imports[k].name
                       /\ u[u[j].import[k]].key = g.imports[k].key
            <6>1. /\ t[j].import[k] \in DOMAIN t
                  /\ t[t[j].import[k]].name = g.imports[k].name
                  /\ t[t[j].import[k]].key = g.imports[k].key
              BY <4>1 DEF Imported
            <6> QED BY <6>1, <5>1, <1>4
          <5> QED BY <5>2, <5>3 DEF Imported
        <4>3. g.name = u[j].name /\ g.key = u[j].key
          BY <4>1, <3>1 DEF Alike
        <4> QED BY <4>2, <4>3, <3>2
      <3>3. CASE ~ u[j].loaded
        BY <2>1, <3>1, <3>3 DEF Consistent, Alike
      <3> QED BY <3>2, <3>3
    <2>2. CASE j = i
      <3>1. u[j].name = m.name /\ u[j].key = m.key /\ u[j].loaded
        BY <2>2 DEF Staged
      <3> QED BY <2>2, <3>1
    <2>3. CASE j - w \in DOMAIN fresh /\ w + (j - w) = j
      <3>1. Alike(u[j], Missing(fresh[j - w])) /\ fresh[j - w] \in ModId
        <4>1. Alike(u[w + (j - w)], Missing(fresh[j - w]))
          BY <2>3 DEF Staged
        <4> QED BY <4>1, <2>3, <1>4
      <3> QED BY <3>1, MissingType DEF Alike
    <2> QED BY <2>1, <2>2, <2>3, <1>4
  <1> QED BY <1>3, <1>5 DEF Consistent

-----------------------------------------------------------------------------
(* The section that is read next                                           *)

\* The section q lies ahead.
AtStart(q) ==
  \/ Word(1) = \o301 /\ Len(q) = 2
  \/ Word(1) = \o200 /\ Word(2) = 1 /\ Len(q) = 3
AtModule(q, m) ==
  /\ Word(1) = \o201 /\ Has("id", 2, 1) /\ file[3].val = Id(m)
  /\ Skipped + 3 = Len(q) /\ Word(Skipped + 1) = m.globals + Len(m.strings)
  /\ Word(Skipped + 2) \in Nat
AtImports(q, m) ==
  /\ Word(1) = \o202 /\ ImportNum = Len(m.imports) /\ Len(q) = 2 + ImportNum
  /\ Has("id", 2, ImportNum) /\ Values(2, ImportNum) = m.imports
AtOther(q) ==
  /\ Word(1) \in \o203 .. \o205 /\ Word(2) = Len(q) - 2
AtFault ==
  \/ Word(1) = \o200 /\ Word(2) # 1
  \/ Word(1) = \o201 /\ ~ Has("id", 2, 1)
  \/ Word(1) = \o202 /\ ~ Has("id", 2, ImportNum)

LEMMA ReadFront ==
  ASSUME NEW q \in Seq(Item), NEW r \in Seq(Item), file = q \o r
  PROVE  /\ \A j \in 1 .. Len(q) : j \in DOMAIN file /\ file[j] = q[j]
         /\ SubSeq(file, Len(q) + 1, Len(file)) = r /\ file \in Seq(Item)
  <1> DEFINE T == Item
             u == SubSeq(file, Len(q) + 1, Len(file))
  <1>1. q \in Seq(T) /\ r \in Seq(T) /\ Len(q) \in Nat /\ Len(r) \in Nat
    OBVIOUS
  <1> HIDE DEF T
  <1>2. file \in Seq(T) /\ Len(file) = Len(q) + Len(r)
    BY <1>1
  <1>3. \A j \in 1 .. Len(q) : j \in DOMAIN file /\ file[j] = q[j]
    BY <1>1
  <1>4. u \in Seq(T) /\ Len(u) = Len(r) /\ \A j \in 1 .. Len(r) : u[j] = file[Len(q) + j]
    BY <1>1, <1>2
  <1>5. \A j \in 1 .. Len(r) : file[Len(q) + j] = r[j]
    BY <1>1, Concatenated
  <1> HIDE DEF u
  <1>6. u = r
    BY <1>1, <1>4, <1>5, SameSequence
  <1> QED BY <1>2, <1>3, <1>6 DEF u, T

LEMMA WordType ==
  ASSUME file \in Seq(Item), NEW k
  PROVE  Word(k) \in Nat
  <1>1. CASE k \in DOMAIN file /\ file[k].kind = "word"
    <2>1. file[k] \in Item
      BY <1>1
    <2>2. file[k].val \in Nat
      BY <2>1, <1>1 DEF Item
    <2> QED BY <2>2, <1>1 DEF Word
  <1>2. CASE ~ (k \in DOMAIN file /\ file[k].kind = "word")
    BY <1>2 DEF Word
  <1> QED BY <1>1, <1>2

LEMMA ReadWord ==
  ASSUME NEW q \in Seq(Item), NEW r \in Seq(Item), file = q \o r, NEW k, IsWord(q, k)
  PROVE  Word(k) = q[k].val
  <1>1. k \in 1 .. Len(q) /\ q[k].kind = "word"
    BY DEF IsWord
  <1>2. k \in DOMAIN file /\ file[k] = q[k]
    BY <1>1, ReadFront
  <1> QED BY <1>1, <1>2 DEF Word

LEMMA StartAhead ==
  ASSUME NEW q \in Seq(Item), NEW r \in Seq(Item), file = q \o r, IsStart(q)
  PROVE  AtStart(q)
  BY ReadWord DEF IsStart, Begins, AtStart

LEMMA ModuleAhead ==
  ASSUME NEW q \in Seq(Item), NEW r \in Seq(Item), file = q \o r, NEW m, IsModuleSection(q, m)
  PROVE  AtModule(q, m)
  <1>1. Word(1) = \o201 /\ Word(2) = q[2].val /\ (Word(2) = 17 <=> Len(q) = 9)
    <2>1. IsWord(q, 1) /\ q[1].val = \o201 /\ IsWord(q, 2)
      BY DEF IsModuleSection, Begins
    <2>2. \A k : IsWord(q, k) => Word(k) = q[k].val
      BY ReadWord
    <2>3. q[2].val = 17 <=> Len(q) = 9
      BY DEF IsModuleSection
    <2> QED BY <2>1, <2>2, <2>3
  <1>2. Len(q) \in {6, 9}
    BY DEF IsModuleSection
  <1>3. Skipped + 3 = Len(q) /\ Skipped + 1 = Len(q) - 2 /\ Skipped + 2 = Len(q) - 1
    BY <1>1, <1>2 DEF Skipped
  <1>4. Word(Len(q) - 2) = m.globals + Len(m.strings)
    BY ReadWord DEF IsModuleSection
  <1>5. Word(Skipped + 2) \in Nat
    BY ReadFront, WordType
  <1>6. 3 \in DOMAIN file /\ file[3] = q[3]
    <2>1. 3 \in 1 .. 6 /\ 3 \in 1 .. 9
      OBVIOUS
    <2>2. 3 \in 1 .. Len(q)
      BY <2>1, <1>2
    <2> QED BY <2>2, ReadFront
  <1>7. file[3].kind = "id" /\ file[3].val = Id(m)
    BY <1>6 DEF IsModuleSection
  <1>8. Has("id", 2, 1)
    BY <1>6, <1>7 DEF Has
  <1> QED BY <1>1, <1>3, <1>4, <1>5, <1>7, <1>8 DEF AtModule

\* What an import section consists of.
LEMMA ImportSectionIs ==
  ASSUME NEW m, IsModule(m)
  PROVE  LET q == ImportSection(m)
             n == Len(m.imports)
         IN /\ q \in Seq(Item) /\ Len(q) = 2 + n /\ n \in Nat /\ DOMAIN m.imports = 1 .. n
            /\ IsWord(q, 1) /\ q[1].val = \o202 /\ IsWord(q, 2) /\ q[2].val = 11 * n
            /\ \A i \in 1 .. n : q[2 + i] = NameAndKey(m.imports[i])
  <1> DEFINE ids == Ids(m.imports)
             n == Len(m.imports)
             head == <<W(\o202), W(11 * n)>>
             q == ImportSection(m)
  <1>1. m.imports \in Seq(ModId) /\ n \in Nat /\ DOMAIN m.imports = 1 .. n
    BY ModuleIs
  <1>2. ids \in Seq(Item) /\ Len(ids) = n /\ \A i \in 1 .. n : ids[i] = NameAndKey(m.imports[i])
    <2>1. \A i \in 1 .. n : NameAndKey(m.imports[i]) \in Item
      BY <1>1 DEF NameAndKey, Item
    <2> QED BY <1>1, <2>1 DEF Ids
  <1>3. head \in Seq(Item) /\ Len(head) = 2 /\ head[1] = W(\o202) /\ head[2] = W(11 * n)
    <2>1. W(\o202) \in Item /\ W(11 * n) \in Item
      BY <1>1 DEF W, Item
    <2> QED BY <2>1
  <1>4. q = head \o ids
    BY DEF ImportSection
  <1> HIDE DEF ids, head, q
  <1>5. q \in Seq(Item) /\ Len(q) = 2 + n /\ q[1] = head[1] /\ q[2] = head[2] /\ DOMAIN q = 1 .. 2 + n
    <2>1. 1 \in 1 .. Len(head) /\ 2 \in 1 .. Len(head)
      BY <1>3
    <2>2. head \in Seq(Item) /\ ids \in Seq(Item)
      BY <1>2, <1>3
    <2>3. /\ head \o ids \in Seq(Item) /\ Len(head \o ids) = Len(head) + Len(ids)
          /\ DOMAIN (head \o ids) = 1 .. Len(head) + Len(ids)
          /\ \A i \in 1 .. Len(head) : (head \o ids)[i] = head[i]
      BY <2>2, Joined, Zenon
    <2> HIDE DEF n
    <2> QED BY <2>1, <2>3, <1>2, <1>3, <1>4
  <1>6. ASSUME NEW i \in 1 .. n PROVE q[2 + i] = ids[i]
    <2>1. head \in Seq(Item) /\ ids \in Seq(Item) /\ i \in 1 .. Len(ids)
      BY <1>2, <1>3
    <2>2. (head \o ids)[Len(head) + i] = ids[i]
      BY <2>1, Concatenated, Zenon
    <2> QED BY <2>2, <1>3, <1>4
  <1>7. 1 \in DOMAIN q /\ 2 \in DOMAIN q
    BY <1>1, <1>5
  <1> QED BY <1>1, <1>2, <1>3, <1>5, <1>6, <1>7 DEF IsWord, W, q

LEMMA ImportsAhead ==
  ASSUME NEW r \in Seq(Item), NEW m, IsModule(m), file = ImportSection(m) \o r
  PROVE  AtImports(ImportSection(m), m)
  <1> DEFINE q == ImportSection(m)
             n == Len(m.imports)
  <1>1. /\ q \in Seq(Item) /\ Len(q) = 2 + n /\ n \in Nat /\ DOMAIN m.imports = 1 .. n
        /\ IsWord(q, 1) /\ q[1].val = \o202 /\ IsWord(q, 2) /\ q[2].val = 11 * n
        /\ \A i \in 1 .. n : q[2 + i] = NameAndKey(m.imports[i])
    BY ImportSectionIs
  <1>0. file = q \o r
    OBVIOUS
  <1> HIDE DEF q, n
  <1>2. Word(1) = \o202 /\ Word(2) = 11 * n
    <2>1. q \in Seq(Item)
      BY <1>1
    <2>2. \A k : IsWord(q, k) => Word(k) = q[k].val
      BY <1>0, <2>1, ReadWord
    <2> QED BY <2>2, <1>1
  <1>3. ImportNum = n
    <2>1. (11 * n) \div 11 = n
      BY <1>1
    <2> QED BY <2>1, <1>2 DEF ImportNum
  <1>4. ASSUME NEW i \in 1 .. n
        PROVE  2 + i \in DOMAIN file /\ file[2 + i].kind = "id" /\ file[2 + i].val = m.imports[i]
    <2>1. 2 + i \in 1 .. Len(q)
      BY <1>1
    <2>2. 2 + i \in DOMAIN file /\ file[2 + i] = q[2 + i]
      BY <2>1, <1>0, <1>1, ReadFront
    <2>3. q[2 + i] = NameAndKey(m.imports[i])
      BY <1>1
    <2> QED BY <2>2, <2>3 DEF NameAndKey
  <1>5. Has("id", 2, ImportNum)
    <2> SUFFICES ASSUME NEW k \in 2 + 1 .. 2 + n PROVE k \in DOMAIN file /\ file[k].kind = "id"
      BY <1>3 DEF Has
    <2>1. k - 2 \in 1 .. n /\ 2 + (k - 2) = k
      BY <1>1
    <2> QED BY <2>1, <1>4
  <1>6. Values(2, ImportNum) = m.imports
    <2>1. m.imports \in Seq(ModId)
      BY ModuleIs
    <2>2. m.imports = [i \in 1 .. n |-> m.imports[i]]
      BY <2>1 DEF n
    <2>3. Values(2, ImportNum) = [i \in 1 .. n |-> file[2 + i].val]
      BY <1>3 DEF Values
    <2> QED BY <2>2, <2>3, <1>4
  <1> QED BY <1>1, <1>2, <1>3, <1>5, <1>6 DEF AtImports, q, n

LEMMA OtherAhead ==
  ASSUME NEW q \in Seq(Item), NEW r \in Seq(Item), file = q \o r, IsOther(q)
  PROVE  AtOther(q)
  <1>1. PICK w \in \o203 .. \o205 : Begins(q, w)
    BY DEF IsOther
  <1>2. Word(1) = w
    BY <1>1, ReadWord DEF Begins
  <1>3. Word(2) = Len(q) - 2
    BY ReadWord DEF IsOther
  <1> QED BY <1>2, <1>3 DEF AtOther

\* A section that was cut off is not readable.
LEMMA NameCut ==
  ASSUME NEW m, IsModule(m), NEW j \in {1, 2}, file = SubSeq(ModuleSection(m), 1, j)
  PROVE  AtFault
  <1> DEFINE q == ModuleSection(m)
  <1>1. Len(q) = 6 /\ q[1] = W(\o201) /\ DOMAIN q = 1 .. 6
    BY DEF ModuleSection
  <1>2. DOMAIN file = 1 .. j /\ file[1] = q[1]
    <2> HIDE DEF q
    <2>1. DOMAIN SubSeq(q, 1, j) = 1 .. j /\ SubSeq(q, 1, j)[1] = q[1 + 1 - 1]
      BY <1>1 DEF SubSeq
    <2> QED BY <2>1 DEF q
  <1>3. Word(1) = \o201
    <2>1. 1 \in DOMAIN file
      BY <1>2
    <2> HIDE DEF q
    <2> QED BY <2>1, <1>1, <1>2 DEF Word, W
  <1>4. ~ Has("id", 2, 1)
    <2>1. 3 \notin DOMAIN file /\ 3 \in 2 + 1 .. 2 + 1
      BY <1>2
    <2> QED BY <2>1 DEF Has
  <1> QED BY <1>3, <1>4 DEF AtFault

LEMMA ImportsCut ==
  ASSUME NEW m, IsModule(m), NEW j \in 1 .. Len(m.imports) + 1,
         file = SubSeq(ImportSection(m), 1, j)
  PROVE  AtFault
  <1> DEFINE q == ImportSection(m)
             n == Len(m.imports)
  <1>1. /\ q \in Seq(Item) /\ Len(q) = 2 + n /\ n \in Nat
        /\ IsWord(q, 1) /\ q[1].val = \o202 /\ IsWord(q, 2) /\ q[2].val = 11 * n
    BY ImportSectionIs
  <1>0. file = SubSeq(q, 1, j) /\ j \in 1 .. n + 1
    OBVIOUS
  <1> HIDE DEF q, n
  <1>2. DOMAIN file = 1 .. j /\ \A i \in 1 .. j : file[i] = q[i]
    <2> DEFINE T == Item
    <2>1. q \in Seq(T)
      BY <1>1
    <2> HIDE DEF T
    <2>2. 1 \in 1 .. Len(q) + 1 /\ j \in 0 .. Len(q)
      BY <1>0, <1>1
    <2>3. SubSeq(q, 1, j) \in Seq(T) /\ Len(SubSeq(q, 1, j)) = j
          /\ \A i \in 1 .. j : SubSeq(q, 1, j)[i] = q[i]
      BY <1>0, <2>1, <2>2
    <2> QED BY <2>3, <1>0
  <1>3. Word(1) = \o202
    <2>1. 1 \in DOMAIN file /\ file[1] = q[1]
      BY <1>0, <1>1, <1>2
    <2> QED BY <2>1, <1>1 DEF Word, IsWord
  <1>4. ~ Has("id", 2, ImportNum)
    <2>1. CASE j = 1
      <3>1. Word(2) = 65535 /\ 3 \notin DOMAIN file
        BY <2>1, <1>2 DEF Word
      <3>2. ImportNum = 5957
        BY <3>1 DEF ImportNum
      <3>3. 3 \in 2 + 1 .. 2 + ImportNum
        BY <3>2
      <3> SUFFICES ASSUME Has("id", 2, ImportNum) PROVE FALSE
        OBVIOUS
      <3> QED BY <3>1, <3>3 DEF Has
    <2>2. CASE j # 1
      <3>1. 2 \in DOMAIN file /\ file[2] = q[2]
        BY <2>2, <1>0, <1>1, <1>2
      <3>2. Word(2) = 11 * n
        BY <3>1, <1>1 DEF Word, IsWord
      <3>3. ImportNum = n
        <4>1. (11 * n) \div 11 = n
          BY <1>1
        <4> QED BY <4>1, <3>2 DEF ImportNum
      <3>4. 2 + n \notin DOMAIN file /\ 2 + n \in 2 + 1 .. 2 + n
        BY <2>2, <1>0, <1>1, <1>2
      <3> QED BY <3>3, <3>4 DEF Has
    <2> QED BY <2>1, <2>2
  <1> QED BY <1>3, <1>4 DEF AtFault

LEMMA VersionAhead ==
  ASSUME NEW s \in Seq(Seq(Item)), s # <<>>, NEW r \in Seq(Item), file = s[1] \o r, OtherVersion(s)
  PROVE  AtFault
  <1> DEFINE q == s[1]
  <1>1. q \in Seq(Item)
    OBVIOUS
  <1>2. IsWord(q, 1) /\ q[1].val = \o200 /\ IsWord(q, 2) /\ q[2].val # 1
    BY DEF OtherVersion, Begins
  <1>3. file = q \o r
    OBVIOUS
  <1> HIDE DEF q
  <1>4. \A k : IsWord(q, k) => Word(k) = q[k].val
    BY <1>1, <1>3, ReadWord
  <1> QED BY <1>2, <1>4 DEF AtFault

\* What is being read.
LEMMA FileIs ==
  ASSUME paths \in Setups, Found # <<>>
  PROVE  /\ IsModule(Module) /\ Text \in Seq(Seq(Item)) /\ Len(Text) \in Nat /\ Text # <<>>
         /\ IsFile(Text, Module) \/ IsRejected(Text, Module)
         /\ ModuleAt \in {1, 2} /\ ImportsAt \in Nat
         /\ IF Module.imports = <<>> THEN ImportsAt = ModuleAt ELSE ImportsAt = ModuleAt + 1
         /\ Digest(Module, want) \in DiskOf(paths)
  <1>1. /\ IsModule(Module) /\ Text \in Seq(Seq(Item)) /\ Text # <<>>
        /\ IsFile(Text, Module) \/ IsRejected(Text, Module)
    BY FoundIs DEF Found, Text, Module
  <1>2. Len(Text) \in Nat
    BY <1>1
  <1>3. Main(Text) \in {1, 2}
    BY DEF Main
  <1>4. IF Module.imports = <<>> THEN Len(Imports(Module)) = 0 ELSE Len(Imports(Module)) = 1
    BY DEF Imports
  <1>5. Digest(Module, want) \in DiskOf(paths)
    <2>1. PICK i \in DOMAIN paths, n \in {<<NoPrefix, want>>, <<PrefixOf(want), want>>} :
            n \in DOMAIN paths[i]
      BY SearchIs DEF Found
    <2>2. n[2] = want
      OBVIOUS
    <2>3. want \in NamesIn(paths)
      BY <2>1, <2>2 DEF NamesIn
    <2> QED BY <2>3 DEF DiskOf, Found, Module
  <1>6. IF Module.imports = <<>> THEN Main(Text) + Len(Imports(Module)) = Main(Text)
                               ELSE Main(Text) + Len(Imports(Module)) = Main(Text) + 1
    <2> DEFINE n == Len(Imports(Module))
               k == Main(Text)
    <2>1. k \in {1, 2}
      BY <1>3
    <2>2. IF Module.imports = <<>> THEN n = 0 ELSE n = 1
      BY <1>4
    <2> HIDE DEF n, k
    <2>3. IF Module.imports = <<>> THEN k + n = k ELSE k + n = k + 1
      BY <2>1, <2>2
    <2> QED BY <2>3 DEF n, k
  <1>7. ModuleAt \in {1, 2} /\ (IF Module.imports = <<>> THEN ImportsAt = ModuleAt
                                                      ELSE ImportsAt = ModuleAt + 1)
    BY <1>3, <1>6 DEF ModuleAt, ImportsAt
  <1>8. ImportsAt \in Nat
    BY <1>7
  <1> HIDE DEF Module
  <1> QED BY <1>1, <1>2, <1>5, <1>7, <1>8

\* After k of the sections s, of a file of m whose module is section a and whose other
\* sections follow section b.
EndIs(s, m, b, k) == Word(1) = 65535 /\ k >= b /\ IsFile(s, m)
SectionIs(s, m, a, b, k, q) ==
  \/ k + 1 < a /\ AtStart(q)
  \/ /\ k + 1 = a /\ AtModule(q, m)
     /\ IsFile(s, m) \/ CutInImports(s, m)
  \/ k = a /\ k + 1 = b /\ IsFile(s, m) /\ AtImports(q, m)
  \/ k >= b /\ IsFile(s, m) /\ AtOther(q)
  \/ AtFault

LEMMA EndAhead ==
  ASSUME NEW s \in Seq(Seq(Item)), s # <<>>, NEW m, IsModule(m),
         IsFile(s, m) \/ IsRejected(s, m),
         NEW a \in {1, 2}, a = Main(s), NEW b \in Nat, b = a + Len(Imports(m)),
         file = Rest(s, Len(s)),
         Len(s) >= a => IsFile(s, m) \/ (CutInImports(s, m) /\ Len(s) = a)
  PROVE  EndIs(s, m, b, Len(s)) /\ file = <<>>
  <1>1. file = <<>>
    BY RestNone
  <1>2. Word(1) = 65535
    BY <1>1 DEF Word
  <1>3. Len(s) \in Nat /\ Len(s) # 0
    OBVIOUS
  <1>4. Len(s) >= a
    <2>1. CASE IsFile(s, m)
      <3>1. Len(s) >= b /\ b >= a
        BY <2>1 DEF IsFile, Imports
      <3> QED BY <3>1, <1>3
    <2>2. CASE CutInName(s, m) \/ CutInImports(s, m)
      BY <2>2, <1>3 DEF CutInName, CutInImports
    <2>3. CASE OtherVersion(s)
      <3>1. ~ IsStart(s[1])
        BY <2>3 DEF OtherVersion, IsStart, Begins
      <3>2. a = 1
        BY <3>1 DEF Main
      <3> QED BY <3>2, <1>3
    <2> QED BY <2>1, <2>2, <2>3 DEF IsRejected
  <1>5. IsFile(s, m)
    <2>1. CASE CutInImports(s, m) /\ Len(s) = a
      <3>1. Len(s) = a + 1
        BY <2>1 DEF CutInImports
      <3> QED BY <3>1, <2>1, <1>3
    <2> QED BY <2>1, <1>4
  <1>6. Len(s) >= b
    BY <1>5 DEF IsFile
  <1> QED BY <1>1, <1>2, <1>5, <1>6 DEF EndIs

LEMMA SectionAhead ==
  ASSUME NEW s \in Seq(Seq(Item)), s # <<>>, NEW m, IsModule(m),
         IsFile(s, m) \/ IsRejected(s, m),
         NEW a \in {1, 2}, a = Main(s), NEW b \in Nat, b = a + Len(Imports(m)),
         NEW k \in 0 .. Len(s) - 1, NEW q \in Seq(Item), q = s[k + 1],
         NEW r \in Seq(Item), r = Rest(s, k + 1), file = q \o r,
         k >= a => IsFile(s, m) \/ (CutInImports(s, m) /\ k = a)
  PROVE  SectionIs(s, m, a, b, k, q)
  <1>1. Len(s) \in Nat /\ k \in Nat
    OBVIOUS
  <1>2. IF m.imports = <<>> THEN b = a ELSE b = a + 1
    BY DEF Imports
  <1>3. a = 2 <=> IsStart(s[1])
    BY DEF Main
  <1>4. Len(s) = k + 1 => file = q
    <2> SUFFICES ASSUME Len(s) = k + 1 PROVE file = q
      OBVIOUS
    <2>1. r = <<>>
      BY RestNone
    <2>2. q \o <<>> = q
      OBVIOUS
    <2> QED BY <2>1, <2>2
  <1>5. CASE k + 1 < a
    <2>1. k = 0 /\ a = 2 /\ IsStart(q)
      BY <1>1, <1>3, <1>5
    <2>2. AtStart(q)
      BY <2>1, StartAhead
    <2> QED BY <2>2, <1>5 DEF SectionIs
  <1>6. CASE k + 1 = a
    <2>1. CASE IsFile(s, m) \/ CutInImports(s, m)
      <3>1. IsModuleSection(q, m)
        BY <2>1, <1>6 DEF IsFile, CutInImports
      <3>2. AtModule(q, m)
        BY <3>1, ModuleAhead
      <3> QED BY <3>2, <2>1, <1>6 DEF SectionIs
    <2>2. CASE CutInName(s, m)
      <3>1. Len(s) = k + 1 /\ \E j \in {1, 2} : q = SubSeq(ModuleSection(m), 1, j)
        BY <2>2, <1>6 DEF CutInName
      <3>2. AtFault
        BY <3>1, <1>4, NameCut
      <3> QED BY <3>2 DEF SectionIs
    <2>3. CASE OtherVersion(s)
      <3>1. ~ IsStart(s[1])
        BY <2>3 DEF OtherVersion, IsStart, Begins
      <3>2. k = 0
        BY <3>1, <1>1, <1>3, <1>6
      <3>3. file = s[1] \o r
        BY <3>2
      <3>4. AtFault
        BY <3>3, <2>3, VersionAhead
      <3> QED BY <3>4 DEF SectionIs
    <2> QED BY <2>1, <2>2, <2>3 DEF IsRejected
  <1>7. CASE k >= a
    <2>1. CASE CutInImports(s, m) /\ k = a
      <3>1. Len(s) = k + 1 /\ \E j \in 1 .. Len(m.imports) + 1 : q = SubSeq(ImportSection(m), 1, j)
        BY <2>1 DEF CutInImports
      <3>2. AtFault
        BY <3>1, <1>4, ImportsCut
      <3> QED BY <3>2 DEF SectionIs
    <2>2. CASE IsFile(s, m) /\ k < b
      <3>1. k = a /\ k + 1 = b /\ m.imports # <<>>
        BY <2>2, <1>1, <1>2, <1>7
      <3>2. q = ImportSection(m)
        BY <2>2, <3>1 DEF IsFile
      <3>3. AtImports(q, m)
        BY <3>2, ImportsAhead
      <3> QED BY <3>1, <3>3, <2>2 DEF SectionIs
    <2>3. CASE IsFile(s, m) /\ k >= b
      <3>1. k + 1 \in b + 1 .. Len(s)
        BY <2>3, <1>1
      <3>2. IsOther(q)
        BY <2>3, <3>1 DEF IsFile
      <3>3. AtOther(q)
        BY <3>2, OtherAhead
      <3> QED BY <3>3, <2>3 DEF SectionIs
    <2>4. k < b \/ k >= b
      BY <1>1
    <2> QED BY <2>1, <2>2, <2>3, <2>4, <1>7
  <1> QED BY <1>1, <1>5, <1>6, <1>7

\* The file is at its end, or at the next of its sections.
NextIs(k, q) ==
  /\ k + 1 \in 0 .. Len(Text)
  /\ SubSeq(file, Len(q) + 1, Len(file)) = Rest(Text, k + 1)
  /\ SectionIs(Text, Module, ModuleAt, ImportsAt, k, q)

LEMMA Ahead ==
  ASSUME paths \in Setups, Found # <<>>, NEW k \in 0 .. Len(Text), Progress(k)
  PROVE  /\ file \in Seq(Item)
         /\ k = Len(Text) => EndIs(Text, Module, ImportsAt, k)
         /\ k < Len(Text) => NextIs(k, Text[k + 1])
  <1>1. /\ IsModule(Module) /\ Text \in Seq(Seq(Item)) /\ Len(Text) \in Nat /\ Text # <<>>
        /\ IsFile(Text, Module) \/ IsRejected(Text, Module)
        /\ ModuleAt \in {1, 2} /\ ImportsAt \in Nat
    BY FileIs
  <1>2. /\ file = Rest(Text, k)
        /\ k >= ModuleAt => IsFile(Text, Module) \/ (CutInImports(Text, Module) /\ k = ModuleAt)
    BY DEF Progress
  <1>3. ModuleAt = Main(Text) /\ ImportsAt = ModuleAt + Len(Imports(Module))
    BY DEF ModuleAt, ImportsAt
  <1>4. CASE k = Len(Text)
    <2>1. EndIs(Text, Module, ImportsAt, k) /\ file = <<>>
      BY <1>1, <1>2, <1>3, <1>4, EndAhead
    <2>2. ~ (k < Len(Text)) /\ <<>> \in Seq(Item)
      BY <1>1, <1>4
    <2> QED BY <2>1, <2>2
  <1>5. CASE k # Len(Text)
    <2>1. k \in 0 .. Len(Text) - 1 /\ k + 1 \in 0 .. Len(Text)
      BY <1>1, <1>5
    <2>2. /\ Text[k + 1] \in Seq(Item) /\ Rest(Text, k + 1) \in Seq(Item)
          /\ file = Text[k + 1] \o Rest(Text, k + 1)
      BY <2>1, <1>1, <1>2, RestNext
    <2>3. /\ SubSeq(file, Len(Text[k + 1]) + 1, Len(file)) = Rest(Text, k + 1)
          /\ file \in Seq(Item)
      BY <2>2, ReadFront
    <2>4. SectionIs(Text, Module, ModuleAt, ImportsAt, k, Text[k + 1])
      BY <2>1, <2>2, <1>1, <1>2, <1>3, SectionAhead
    <2>5. NextIs(k, Text[k + 1])
      BY <2>1, <2>3, <2>4 DEF NextIs
    <2> QED BY <2>3, <2>5, <1>5
  <1> QED BY <1>4, <1>5

-----------------------------------------------------------------------------
(* Reading a file                                                          *)

LEMMA SameFile ==
  ASSUME UNCHANGED <<paths, want>>
  PROVE  Found' = Found /\ Text' = Text /\ Module' = Module
  <1>1. Found' = Found
    BY DEF Found, PrefixOf
  <1> QED BY <1>1 DEF Text, Module

LEMMA Updated ==
  ASSUME NEW t \in Seq(Entry), NEW i \in DOMAIN t, NEW e \in Entry,
         NEW u, u = [t EXCEPT ![i] = e]
  PROVE  /\ u \in Seq(Entry) /\ Len(u) = Len(t) /\ DOMAIN u = DOMAIN t
         /\ u[i] = e /\ \A j \in DOMAIN t : j # i => u[j] = t[j]
  <1> DEFINE T == Entry
  <1>1. t \in Seq(T) /\ e \in T
    OBVIOUS
  <1> HIDE DEF T
  <1>2. /\ u \in Seq(T) /\ Len(u) = Len(t) /\ DOMAIN u = DOMAIN t
        /\ u[i] = e /\ \A j \in DOMAIN t : j # i => u[j] = t[j]
    BY <1>1
  <1> QED BY <1>2 DEF T

LEMMA CodeType ==
  ASSUME NEW e \in Entry, NEW c \in Seq(Byte)
  PROVE  /\ [e EXCEPT !.code = c] \in Entry /\ Alike([e EXCEPT !.code = c], e)
         /\ [e EXCEPT !.code = c].code = c /\ [e EXCEPT !.code = c].proc_tmp = e.proc_tmp
         /\ [e EXCEPT !.code = c].proc = e.proc
  BY DEF Entry, Alike

LEMMA ProcTmpType ==
  ASSUME NEW e \in Entry, NEW p \in Seq(Procedure)
  PROVE  /\ [e EXCEPT !.proc_tmp = p] \in Entry /\ Alike([e EXCEPT !.proc_tmp = p], e)
         /\ [e EXCEPT !.proc_tmp = p].proc_tmp = p /\ [e EXCEPT !.proc_tmp = p].code = e.code
         /\ [e EXCEPT !.proc_tmp = p].proc = e.proc
  BY DEF Entry, Alike

LEMMA ImportType ==
  ASSUME NEW e \in Entry, NEW p \in Seq(1 .. ModTabMax), NEW f, f = [e EXCEPT !.import = p]
  PROVE  /\ f \in Entry /\ f.import = p /\ f.name = e.name /\ f.key = e.key
         /\ f.loaded = e.loaded /\ f.data_ofs = e.data_ofs /\ f.data_sz = e.data_sz
         /\ f.code = e.code /\ f.proc_tmp = e.proc_tmp /\ f.proc = e.proc
  BY DEF Entry

LEMMA OwnType ==
  ASSUME NEW e \in Entry, NEW ofs \in Nat, NEW sz \in Nat, NEW c \in Seq(Byte),
         NEW f, f = [e EXCEPT !.loaded = TRUE, !.data_ofs = ofs, !.data_sz = sz, !.code = c]
  PROVE  /\ f \in Entry /\ f.name = e.name /\ f.key = e.key /\ f.loaded
         /\ f.data_ofs = ofs /\ f.data_sz = sz /\ f.code = c /\ f.import = e.import
         /\ f.proc_tmp = e.proc_tmp /\ f.proc = e.proc
  BY DEF Entry

\* What Staged says does not depend on code and procedures.
LEMMA StagedAlike ==
  ASSUME NEW t \in Seq(Entry), NEW m, IsModule(m), NEW ids \in Seq(ModId), NEW base,
         NEW u \in Seq(Entry), Staged(t, m, ids, base, u),
         NEW v \in Seq(Entry), Len(v) = Len(u), \A j \in DOMAIN u : Alike(v[j], u[j])
  PROVE  /\ Staged(t, m, ids, base, v)
         /\ \A e : Imported(u, Place(t, m), e) => Imported(v, Place(t, m), e)
  <1> DEFINE i == Place(t, m)
             w == Width(t, m)
             fresh == Fresh(t, m, ids)
  <1>1. /\ i \in DOMAIN u /\ \A j \in DOMAIN t : j \in DOMAIN u
        /\ \A k \in DOMAIN fresh : w + k \in DOMAIN u
    BY Places
  <1>2. DOMAIN v = DOMAIN u
    OBVIOUS
  <1>3. Staged(t, m, ids, base, v)
    <2>1. Len(v) = w + Len(fresh)
      BY DEF Staged
    <2>2. ASSUME NEW j \in DOMAIN t, j # i PROVE Alike(v[j], t[j])
      <3>1. Alike(v[j], u[j]) /\ Alike(u[j], t[j])
        BY <1>1, <2>2 DEF Staged
      <3> QED BY <3>1 DEF Alike
    <2>3. Known(t, m.name) => t[i].key = m.key
      BY DEF Staged
    <2>4. /\ v[i].name = m.name /\ v[i].key = m.key /\ v[i].loaded
          /\ v[i].data_ofs = base /\ v[i].data_sz = m.globals + Len(m.strings)
      <3>1. Alike(v[i], u[i])
        BY <1>1
      <3>2. /\ u[i].name = m.name /\ u[i].key = m.key /\ u[i].loaded
            /\ u[i].data_ofs = base /\ u[i].data_sz = m.globals + Len(m.strings)
        BY DEF Staged
      <3> QED BY <3>1, <3>2 DEF Alike
    <2>5. ASSUME NEW k \in DOMAIN fresh PROVE Alike(v[w + k], Missing(fresh[k]))
      <3>1. Alike(v[w + k], u[w + k]) /\ Alike(u[w + k], Missing(fresh[k]))
        BY <1>1 DEF Staged
      <3> QED BY <3>1 DEF Alike
    <2> QED BY <2>1, <2>2, <2>3, <2>4, <2>5 DEF Staged
  <1>4. ASSUME NEW e, Imported(u, i, e) PROVE Imported(v, i, e)
    <2>1. v[i].import = u[i].import
      BY <1>1 DEF Alike
    <2>2. \A k \in DOMAIN e : v[i].import[k] \in DOMAIN v /\ v[v[i].import[k]].name = e[k].name
                                /\ v[v[i].import[k]].key = e[k].key
      BY <1>2, <1>4, <2>1 DEF Imported, Alike
    <2> QED BY <1>4, <2>1, <2>2 DEF Imported
  <1> QED BY <1>3, <1>4

\* While a file is read only a few parts of the invariant can change.
LEMMA Reading1 ==
  ASSUME Inv, mode = "parse", mode' = "parse", UNCHANGED <<paths, want, loads, top, complete>>,
         tab' \in Seq(Entry), Len(tab') < ModTabMax, Len(tab') >= Len(tab), data_top' \in Nat,
         \A x \in DOMAIN dsh_mem' : x \in 0 .. data_top' - 1,
         mod' \in 0 .. Len(tab'), proc_section' \in BOOLEAN,
         NEW k \in 0 .. Len(Text), Progress(k)'
  PROVE  Inv'
  <1>1. TypeOK'
    <2>1. /\ want \in STRING /\ loads \in Seq(0 .. ModTabMax)
          /\ complete \in [tab : Seq(Entry), data_top : Nat] /\ top \in 1 .. Len(tab) + 1
      BY DEF Inv, TypeOK, module_num
    <2>2. Len(tab') \in Nat /\ Len(tab) \in Nat
      BY DEF Inv, TypeOK
    <2>3. top' \in 1 .. Len(tab') + 1 /\ Len(tab') + 1 <= ModTabMax
      BY <2>1, <2>2, ModTabAssumption
    <2> QED BY <2>1, <2>3 DEF TypeOK, module_num
  <1>2. Consistent(complete.tab)' /\ paths' \in Setups
    <2>1. Consistent(complete.tab) /\ paths \in Setups
      BY DEF Inv
    <2> QED BY <2>1 DEF Consistent, Distinct, Imported
  <1>3. InParse'
    <2>1. Found' = Found /\ Text' = Text
      BY SameFile
    <2>2. /\ loads # <<>> /\ Last(loads) = (Len(complete.tab) + 2) % (ModTabMax + 1)
          /\ Found # <<>>
      BY DEF Inv, InParse
    <2>3. \E j \in 0 .. Len(Text') : Progress(j)'
      BY <2>1
    <2> QED BY <2>1, <2>2, <2>3 DEF InParse
  <1>4. Between'
    BY DEF Between
  <1>5. BootFirst'
    BY DEF Inv, BootFirst, HasBoot
  <1>6. Linkable'
    BY DEF Inv, Linkable
  <1> QED BY <1>1, <1>2, <1>3, <1>4, <1>5, <1>6 DEF Inv

\* Unless the file is at its end, one of its sections is next.
LEMMA InFile ==
  ASSUME Inv, mode = "parse", Word(1) # 65535
  PROVE  /\ \E k \in 0 .. Len(Text) : Progress(k) /\ NextIs(k, Text[k + 1])
         /\ paths \in Setups /\ Found # <<>> /\ IsModule(Module)
         /\ ModuleAt \in {1, 2} /\ Len(Text) \in Nat /\ file \in Seq(Item)
         /\ IF Module.imports = <<>> THEN ImportsAt = ModuleAt ELSE ImportsAt = ModuleAt + 1
         /\ tab \in Seq(Entry) /\ Len(tab) < ModTabMax /\ data_top \in Nat
         /\ complete.tab \in Seq(Entry) /\ complete.data_top \in Nat /\ Consistent(complete.tab)
  <1>1. PICK k \in 0 .. Len(Text) : Progress(k)
    BY DEF Inv, InParse
  <1>2. paths \in Setups /\ Found # <<>>
    BY DEF Inv, InParse
  <1>3. /\ ModuleAt \in {1, 2} /\ Len(Text) \in Nat /\ IsModule(Module)
        /\ IF Module.imports = <<>> THEN ImportsAt = ModuleAt ELSE ImportsAt = ModuleAt + 1
    BY <1>2, FileIs
  <1>4. /\ file \in Seq(Item)
        /\ k = Len(Text) => EndIs(Text, Module, ImportsAt, k)
        /\ k < Len(Text) => NextIs(k, Text[k + 1])
    BY <1>1, <1>2, Ahead
  <1>5. k < Len(Text)
    <2>1. k # Len(Text)
      BY <1>4 DEF EndIs
    <2> QED BY <2>1, <1>3
  <1>6. /\ tab \in Seq(Entry) /\ Len(tab) + 1 <= ModTabMax /\ data_top \in Nat
        /\ complete.tab \in Seq(Entry) /\ complete.data_top \in Nat
    BY DEF Inv, TypeOK, module_num
  <1>7. Len(tab) < ModTabMax
    BY <1>6, ModTabAssumption
  <1>8. Consistent(complete.tab)
    BY DEF Inv
  <1> QED BY <1>1, <1>2, <1>3, <1>4, <1>5, <1>6, <1>7, <1>8

\* What is left after the section.
LEMMA Dropped ==
  ASSUME NEW k, NEW q, NextIs(k, q), Drop(Len(q))
  PROVE  file' = Rest(Text, k + 1)
  BY DEF NextIs, Drop

LEMMA ReadStartInv ==
  ASSUME Inv, ReadStart
  PROVE  Inv'
  <1>1. /\ mode = "parse" /\ mode' = "parse"
        /\ UNCHANGED <<paths, tab, data_top, dsh_mem, want, loads, mod, proc_section, top, complete>>
        /\ \/ Word(1) = \o301 /\ Drop(2)
           \/ Word(1) = \o200 /\ Word(2) = 1 /\ Drop(3)
    BY DEF ReadStart, Section
  <1>2. Word(1) # 65535
    BY <1>1
  <1>3. /\ ModuleAt \in {1, 2} /\ tab \in Seq(Entry) /\ Len(tab) < ModTabMax /\ data_top \in Nat
        /\ \E k \in 0 .. Len(Text) : Progress(k) /\ NextIs(k, Text[k + 1])
    BY <1>1, <1>2, InFile
  <1>4. PICK k \in 0 .. Len(Text) : Progress(k) /\ NextIs(k, Text[k + 1])
    BY <1>3
  <1>5. k + 1 < ModuleAt /\ AtStart(Text[k + 1]) /\ k + 1 \in 0 .. Len(Text)
    BY <1>1, <1>4 DEF NextIs, SectionIs, AtModule, AtImports, AtOther, AtFault
  <1>6. Drop(Len(Text[k + 1]))
    <2>1. CASE Word(1) = \o301
      <3>1. Len(Text[k + 1]) = 2
        BY <2>1, <1>5 DEF AtStart
      <3>2. Drop(2)
        BY <2>1, <1>1
      <3> QED BY <3>1, <3>2, Zenon DEF Drop
    <2>2. CASE Word(1) = \o200
      <3>1. Len(Text[k + 1]) = 3
        BY <2>2, <1>5 DEF AtStart
      <3>2. Drop(3)
        BY <2>2, <1>1
      <3> QED BY <3>1, <3>2, Zenon DEF Drop
    <2> QED BY <2>1, <2>2, <1>1
  <1>7. file' = Rest(Text, k + 1)
    BY <1>4, <1>6, Dropped
  <1>8. Progress(k + 1)'
    <2>1. Text' = Text /\ Module' = Module
      BY <1>1, SameFile
    <2>2. tab = complete.tab /\ data_top = complete.data_top
      BY <1>3, <1>4, <1>5 DEF Progress
    <2>3. ~ (k + 1 >= ModuleAt) /\ ModuleAt' = ModuleAt
      BY <2>1, <1>3, <1>5 DEF ModuleAt
    <2> QED BY <2>1, <2>2, <2>3, <1>1, <1>7 DEF Progress
  <1>9. /\ \A x \in DOMAIN dsh_mem : x \in 0 .. data_top - 1
        /\ mod \in 0 .. Len(tab) /\ proc_section \in BOOLEAN /\ Len(tab) >= Len(tab)
    BY DEF Inv, TypeOK
  <1> QED BY <1>1, <1>3, <1>5, <1>8, <1>9, Reading1

\* The table after the section of m was read, and an entry of the directories for m.
OwnTable(t, m, base, code) ==
  LET w == With(t, Id(m))
      i == IndexIn(w, m.name)
  IN [w EXCEPT ![i] = [w[i] EXCEPT !.loaded = TRUE, !.data_ofs = base,
                                   !.data_sz = m.globals + Len(m.strings), !.code = code]]
OnDisk(m) ==
  \E d \in DiskOf(paths) : d.name = m.name /\ d.key = m.key /\ d.imports = m.imports

\* The entry of the module itself.
LEMMA OwnEntry ==
  ASSUME NEW t \in Seq(Entry), Consistent(t), paths \in Setups, NEW m, IsModule(m), OnDisk(m),
         ~ Refused(t, <<Id(m)>>), NEW base \in Nat, NEW code \in Seq(Byte),
         NEW u, u = OwnTable(t, m, base, code)
  PROVE  /\ u \in Seq(Entry) /\ Staged(t, m, <<>>, base, u) /\ Len(u) < ModTabMax
         /\ Len(u) >= Len(t) /\ IndexIn(With(t, Id(m)), m.name) = Place(t, m)
         /\ Place(t, m) \in 0 .. Len(u)
         /\ m.imports = <<>> => Imported(u, Place(t, m), m.imports)
  <1>a. PICK w : w = With(t, Id(m))
    OBVIOUS
  <1>b. PICK i : i = IndexIn(w, m.name)
    OBVIOUS
  <1>c. PICK sz : sz = m.globals + Len(m.strings)
    OBVIOUS
  <1>d. u = [w EXCEPT ![i] = [w[i] EXCEPT !.loaded = TRUE, !.data_ofs = base,
                                          !.data_sz = sz, !.code = code]]
    BY <1>a, <1>b, <1>c DEF OwnTable
  <1>e. PICK d \in DiskOf(paths) : d.name = m.name /\ d.key = m.key /\ d.imports = m.imports
    BY DEF OnDisk
  <1>1. sz \in Nat /\ Id(m) \in ModId /\ Id(m).name = m.name
    BY <1>c, ModuleIs
  <1>2. w \in Seq(Entry) /\ i \in DOMAIN w /\ w[i] \in Entry
    <2>1. w \in Seq(Entry)
      BY <1>1, <1>a, WithType
    <2>2. Known(w, m.name)
      <3>1. CASE Known(t, m.name)
        <4>1. w = t
          BY <3>1, <1>1, <1>a DEF With
        <4> QED BY <3>1, <4>1
      <3>2. CASE ~ Known(t, m.name)
        <4>1. w = Append(t, Missing(Id(m))) /\ Missing(Id(m)).name = m.name
          BY <3>2, <1>1, <1>a, MissingType DEF With
        <4>2. Len(t) + 1 \in DOMAIN w /\ w[Len(t) + 1] = Missing(Id(m))
          BY <4>1
        <4> QED BY <4>1, <4>2 DEF Known
      <3> QED BY <3>1, <3>2
    <2>3. i \in DOMAIN w
      BY <2>2, <1>b, IndexFound
    <2> QED BY <2>1, <2>3
  <1>3. PICK e : e = [w[i] EXCEPT !.loaded = TRUE, !.data_ofs = base, !.data_sz = sz, !.code = code]
    OBVIOUS
  <1>4. /\ e \in Entry /\ e.name = w[i].name /\ e.key = w[i].key /\ e.loaded
        /\ e.data_ofs = base /\ e.data_sz = sz /\ e.import = w[i].import
    <2>1. PICK e0 \in Entry : e0 = w[i]
      BY <1>2
    <2>2. e = [e0 EXCEPT !.loaded = TRUE, !.data_ofs = base, !.data_sz = sz, !.code = code]
      BY <2>1, <1>3
    <2>3. /\ e \in Entry /\ e.name = e0.name /\ e.key = e0.key /\ e.loaded
          /\ e.data_ofs = base /\ e.data_sz = sz /\ e.import = e0.import
      BY <2>2, <1>1 DEF Entry
    <2> QED BY <2>1, <2>3
  <1>5. /\ u \in Seq(Entry) /\ Len(u) = Len(w) /\ DOMAIN u = DOMAIN w
        /\ u[i] = e /\ \A j \in DOMAIN w : j # i => u[j] = w[j]
    <2>1. u = [w EXCEPT ![i] = e]
      BY <1>3, <1>d
    <2> QED BY <2>1, <1>2, <1>4, Updated
  <1>6. \A j \in DOMAIN u :
          IF j = i
          THEN /\ u[j].name = w[j].name /\ u[j].key = w[j].key
               /\ u[j].loaded /\ u[j].data_ofs = base /\ u[j].data_sz = sz
          ELSE u[j] = w[j]
    BY <1>4, <1>5
  <1>7. /\ Staged(t, m, <<>>, base, u) /\ Len(u) < ModTabMax /\ i = Place(t, m)
        /\ ~ Known(t, m.name) => w[Place(t, m)] = Missing(Id(m))
        /\ Known(t, m.name) => w = t
    <2>1. i = IndexIn(With(t, Id(m)), m.name)
      BY <1>a, <1>b
    <2>2. OwnRead(t, m, base, u)
      BY <1>5, <1>6, <2>1, <1>a, <1>c DEF OwnRead
    <2>3. /\ Staged(t, m, <<>>, base, u) /\ Len(u) < ModTabMax
          /\ IndexIn(With(t, Id(m)), m.name) = Place(t, m)
          /\ ~ Known(t, m.name) => With(t, Id(m))[Place(t, m)] = Missing(Id(m))
          /\ Known(t, m.name) => With(t, Id(m)) = t
      BY <2>2, <1>5, StagedOwn
    <2> QED BY <2>1, <2>3, <1>a
  <1>8. m.imports = <<>> => Imported(u, i, m.imports)
    <2> SUFFICES ASSUME m.imports = <<>> PROVE Len(u[i].import) = 0
      BY DEF Imported
    <2>1. u[i].import = w[i].import
      BY <1>4, <1>5
    <2>2. CASE ~ Known(t, m.name)
      <3>1. w[i].import = <<>>
        BY <2>2, <1>1, <1>7, MissingType
      <3> QED BY <3>1, <2>1
    <2>3. CASE Known(t, m.name)
      <3>1. w = t /\ t[i].name = m.name /\ t[i].key = m.key /\ i \in DOMAIN t
        <4>1. t[i].key = m.key
          BY <2>3, <1>7 DEF Staged
        <4>2. w = t /\ i \in DOMAIN t /\ t[i].name = m.name
          <5>1. w = t /\ i = IndexIn(t, m.name)
            BY <2>3, <1>7, <1>b
          <5> QED BY <5>1, <2>3, IndexFound
        <4> QED BY <4>1, <4>2
      <3>2. CASE t[i].loaded
        <4>1. PICK f \in DiskOf(paths) :
                f.name = t[i].name /\ f.key = t[i].key /\ Imported(t, i, f.imports)
          BY <3>1, <3>2 DEF Consistent
        <4>2. f.imports = m.imports
          BY <4>1, <3>1, <1>e, DiskAssumption
        <4> QED BY <4>1, <4>2, <3>1, <2>1 DEF Imported
      <3>3. CASE ~ t[i].loaded
        BY <3>1, <3>3, <2>1 DEF Consistent
      <3> QED BY <3>2, <3>3
    <2> QED BY <2>2, <2>3
  <1>9. Len(u) >= Len(t) /\ i \in 0 .. Len(u)
    <2>1. Len(w) >= Len(t) /\ Len(w) \in Nat /\ DOMAIN w = 1 .. Len(w)
      <3>1. w = t \/ w = Append(t, Missing(Id(m)))
        BY <1>a DEF With
      <3> QED BY <3>1, <1>2
    <2> QED BY <2>1, <1>2, <1>5
  <1> QED BY <1>5, <1>7, <1>8, <1>9, <1>a, <1>b

\* After the section of the module, or that of its imports.
LEMMA ProgressModule ==
  ASSUME paths \in Setups, Found # <<>>, UNCHANGED <<paths, want, complete>>,
         NEW k, k = ModuleAt - 1, file' = Rest(Text, k + 1),
         IsFile(Text, Module) \/ CutInImports(Text, Module),
         mod' = Place(complete.tab, Module),
         data_top' = complete.data_top + (Module.globals + Len(Module.strings)),
         complete.data_top \in Nat,
         Staged(complete.tab, Module, <<>>, complete.data_top, tab'),
         Module.imports = <<>> => Imported(tab', mod', Module.imports)
  PROVE  Progress(k + 1)'
  <1>1. /\ ModuleAt \in {1, 2} /\ IsModule(Module) /\ k + 1 = ModuleAt
        /\ IF Module.imports = <<>> THEN ImportsAt = ModuleAt ELSE ImportsAt = ModuleAt + 1
    BY FileIs
  <1>2. Text' = Text /\ Module' = Module /\ ModuleAt' = ModuleAt /\ ImportsAt' = ImportsAt
    <2>1. Text' = Text /\ Module' = Module
      BY SameFile
    <2> QED BY <2>1 DEF ModuleAt, ImportsAt
  <1>3. ~ (ModuleAt < ModuleAt) /\ (ModuleAt < ImportsAt => Module.imports # <<>>)
        /\ (ModuleAt >= ImportsAt => Module.imports = <<>>)
    BY <1>1
  <1>4. Staged(complete.tab, Module, IF ModuleAt < ImportsAt THEN <<>> ELSE Module.imports,
               complete.data_top, tab')
    <2>1. CASE Module.imports = <<>>
      BY <2>1
    <2>2. CASE Module.imports # <<>>
      BY <2>2, <1>1
    <2> QED BY <2>1, <2>2
  <1>5. data_top' = complete.data_top + Module.globals + Len(Module.strings)
    <2>1. Module.globals \in Nat /\ Len(Module.strings) \in Nat
      BY <1>1, ModuleIs
    <2> QED BY <2>1
  <1>6. file' = Rest(Text, ModuleAt)
    BY <1>1
  <1>7. /\ IsFile(Text', Module') \/ (CutInImports(Text', Module') /\ ModuleAt = ModuleAt')
        /\ file' = Rest(Text', ModuleAt) /\ ~ (ModuleAt < ModuleAt')
        /\ mod' = Place(complete.tab', Module')
        /\ data_top' = complete.data_top' + Module'.globals + Len(Module'.strings)
        /\ Staged(complete.tab', Module',
                  IF ModuleAt < ImportsAt' THEN <<>> ELSE Module'.imports,
                  complete.data_top', tab')
        /\ ModuleAt >= ImportsAt' => Imported(tab', mod', Module'.imports)
    BY <1>2, <1>3, <1>4, <1>5, <1>6
  <1> QED BY <1>1, <1>7 DEF Progress

LEMMA ReadModuleInv ==
  ASSUME Inv, ReadModule
  PROVE  Inv'
  <1>1. /\ mode = "parse" /\ mode' = "parse" /\ Word(1) = \o201 /\ Has("id", 2, 1)
        /\ UNCHANGED <<paths, dsh_mem, want, loads, proc_section, top, complete>>
    BY DEF ReadModule, Section
  <1>2. Word(1) # 65535
    BY <1>1
  <1>3. /\ \E k \in 0 .. Len(Text) : Progress(k) /\ NextIs(k, Text[k + 1])
        /\ paths \in Setups /\ Found # <<>> /\ IsModule(Module)
        /\ ModuleAt \in {1, 2} /\ Len(Text) \in Nat /\ complete.data_top \in Nat
        /\ IF Module.imports = <<>> THEN ImportsAt = ModuleAt ELSE ImportsAt = ModuleAt + 1
        /\ complete.tab \in Seq(Entry) /\ Consistent(complete.tab)
    BY <1>1, <1>2, InFile
  <1>4. PICK k \in 0 .. Len(Text) : Progress(k) /\ NextIs(k, Text[k + 1])
    BY <1>3
  <1>5. /\ k + 1 = ModuleAt /\ AtModule(Text[k + 1], Module) /\ k + 1 \in 0 .. Len(Text)
        /\ IsFile(Text, Module) \/ CutInImports(Text, Module)
    BY <1>1, <1>4 DEF NextIs, SectionIs, AtStart, AtImports, AtOther, AtFault
  <1>6. tab = complete.tab /\ data_top = complete.data_top
    <2>1. k < ModuleAt
      BY <1>3, <1>5
    <2> QED BY <2>1, <1>4 DEF Progress
  <1>7. PICK sz \in Nat : sz = Module.globals + Len(Module.strings)
    BY <1>3, ModuleIs
  <1>8. PICK code \in Seq(Byte) : code = [x \in 1 .. 2 * Word(Skipped + 2) |-> 0]
    <2> DEFINE n == 2 * Word(Skipped + 2)
    <2>1. n \in Nat /\ 0 \in Byte
      BY <1>5 DEF Byte, AtModule
    <2> HIDE DEF n
    <2>2. [x \in 1 .. n |-> 0] \in Seq(Byte)
      BY <2>1
    <2> QED BY <2>2 DEF n
  <1>9. /\ file[3].val = Id(Module) /\ Word(Skipped + 1) = sz /\ Skipped + 3 = Len(Text[k + 1])
    BY <1>5, <1>7 DEF AtModule
  <1>10. /\ ~ Refused(complete.tab, <<Id(Module)>>)
         /\ tab' = OwnTable(complete.tab, Module, complete.data_top, code)
         /\ data_top' = complete.data_top + sz
         /\ mod' = IndexIn(With(complete.tab, Id(Module)), Module.name)
         /\ Drop(Len(Text[k + 1]))
    <2>1. Id(Module).name = Module.name
      BY DEF Id
    <2> QED BY <2>1, <1>6, <1>7, <1>8, <1>9 DEF ReadModule, OwnTable
  <1>11. file' = Rest(Text, k + 1)
    BY <1>4, <1>10, Dropped
  <1>12. OnDisk(Module)
    <2>1. Digest(Module, want) \in DiskOf(paths)
      BY <1>3, FileIs
    <2> QED BY <2>1 DEF Digest, OnDisk
  <1>13. /\ tab' \in Seq(Entry) /\ Staged(complete.tab, Module, <<>>, complete.data_top, tab')
         /\ Len(tab') < ModTabMax /\ Len(tab') >= Len(complete.tab)
         /\ mod' = Place(complete.tab, Module) /\ mod' \in 0 .. Len(tab')
         /\ Module.imports = <<>> => Imported(tab', mod', Module.imports)
    <2>1. PICK t \in Seq(Entry) : t = complete.tab
      BY <1>3
    <2>2. PICK m : m = Module
      OBVIOUS
    <2>3. PICK base \in Nat : base = complete.data_top
      BY <1>3
    <2>4. Consistent(t) /\ paths \in Setups /\ IsModule(m) /\ OnDisk(m) /\ ~ Refused(t, <<Id(m)>>)
      BY <1>3, <1>10, <1>12, <2>1, <2>2
    <2>5. PICK u : u = OwnTable(t, m, base, code)
      OBVIOUS
    <2>6. /\ u \in Seq(Entry) /\ Staged(t, m, <<>>, base, u) /\ Len(u) < ModTabMax
          /\ Len(u) >= Len(t) /\ IndexIn(With(t, Id(m)), m.name) = Place(t, m)
          /\ Place(t, m) \in 0 .. Len(u)
          /\ m.imports = <<>> => Imported(u, Place(t, m), m.imports)
      BY <2>4, <2>5, OwnEntry, Zenon
    <2>7. tab' = u /\ mod' = Place(t, m)
      BY <1>10, <2>1, <2>2, <2>3, <2>5, <2>6
    <2> QED BY <2>1, <2>2, <2>3, <2>6, <2>7
  <1>14. Progress(k + 1)'
    <2>1. k = ModuleAt - 1
      BY <1>3, <1>5
    <2> QED BY <2>1, <1>1, <1>3, <1>5, <1>7, <1>10, <1>11, <1>13, ProgressModule
  <1>15. data_top' \in Nat /\ \A x \in DOMAIN dsh_mem' : x \in 0 .. data_top' - 1
    <2>1. \A x \in DOMAIN dsh_mem : x \in 0 .. data_top - 1
      BY DEF Inv, TypeOK
    <2>2. data_top' = data_top + sz /\ data_top \in Nat /\ dsh_mem' = dsh_mem
      BY <1>1, <1>3, <1>6, <1>7, <1>10
    <2> QED BY <2>1, <2>2
  <1>16. proc_section' \in BOOLEAN
    BY <1>1 DEF Inv, TypeOK
  <1> QED BY <1>1, <1>5, <1>6, <1>13, <1>14, <1>15, <1>16, Reading1

\* The table after the section of what m imports was read, for the entry i of m.
ImportsTable(u, m, i) ==
  LET w == WithAll(u, m.imports)
  IN [w EXCEPT ![i].import = [k \in DOMAIN m.imports |-> IndexIn(w, m.imports[k].name)]]

LEMMA ImportsEntry ==
  ASSUME NEW t \in Seq(Entry), NEW m, IsModule(m), NEW base,
         NEW u \in Seq(Entry), Staged(t, m, <<>>, base, u), ~ Refused(u, m.imports),
         NEW v, v = ImportsTable(u, m, Place(t, m))
  PROVE  /\ v \in Seq(Entry) /\ Staged(t, m, m.imports, base, v) /\ Len(v) < ModTabMax
         /\ Len(v) >= Len(u) /\ Imported(v, Place(t, m), m.imports)
         /\ Place(t, m) \in 0 .. Len(v)
  <1>1. PICK ids : ids = m.imports
    OBVIOUS
  <1>2. ids \in Seq(ModId) /\ NoRepeat(ids) /\ <<>> \in Seq(ModId)
    BY <1>1, ModuleIs
  <1>3. PICK w : w = WithAll(u, ids)
    OBVIOUS
  <1>4. PICK i : i = Place(t, m)
    OBVIOUS
  <1>5. PICK new : new = Only(ids, {id \in ModId : ~ Known(u, id.name)})
    OBVIOUS
  <1>6. /\ new \in Seq(ModId)
        /\ ToSet(new) = ToSet(ids) \intersect {id \in ModId : ~ Known(u, id.name)}
    BY <1>2, <1>5, OnlyType, OnlyElements
  <1>7. w = u \o NewEntries(new) /\ NewEntries(new) \in Seq(Entry)
    BY <1>2, <1>3, <1>5, <1>6, WithAllIs, NewEntriesType
  <1>8. /\ w \in Seq(Entry) /\ Len(w) \in Nat /\ Len(w) >= Len(u) /\ DOMAIN w = 1 .. Len(w)
        /\ DOMAIN u \subseteq DOMAIN w
    <2>1. Len(u) \in Nat /\ Len(NewEntries(new)) \in Nat /\ DOMAIN u = 1 .. Len(u)
      BY <1>7
    <2>2. w \in Seq(Entry) /\ Len(w) = Len(u) + Len(NewEntries(new))
      BY <1>7, Joined
    <2>3. DOMAIN w = 1 .. Len(w)
      BY <2>2
    <2> QED BY <2>1, <2>2, <2>3
  <1>9. i \in DOMAIN w /\ Len(w) < ModTabMax
    <2>1. i \in DOMAIN u
      BY <1>2, <1>4, Places
    <2>2. ~ (Len(w) >= ModTabMax)
      BY <1>1, <1>3 DEF Refused
    <2> QED BY <2>1, <2>2, <1>8, ModTabAssumption
  <1>10. ASSUME NEW k \in DOMAIN ids PROVE IndexIn(w, ids[k].name) \in 1 .. ModTabMax
    <2>1. ids[k] \in ModId /\ ids[k] \in ToSet(ids)
      BY <1>2 DEF ToSet
    <2>2. Known(u, ids[k].name) \/ ids[k] \in ToSet(new)
      BY <2>1, <1>6
    <2>3. Known(w, ids[k].name)
      BY <2>2, <1>6, <1>7, KnownMore
    <2>4. IndexIn(w, ids[k].name) \in DOMAIN w
      BY <2>3, IndexFound
    <2> QED BY <2>4, <1>8, <1>9, ModTabAssumption
  <1>11. PICK im \in Seq(1 .. ModTabMax) : im = [k \in DOMAIN ids |-> IndexIn(w, ids[k].name)]
    <2>1. DOMAIN ids = 1 .. Len(ids) /\ Len(ids) \in Nat
      BY <1>2
    <2>2. PICK n \in Nat : n = Len(ids)
      BY <2>1
    <2>3. PICK f : f = [k \in 1 .. n |-> IndexIn(w, ids[k].name)]
      OBVIOUS
    <2>4. \A k \in 1 .. n : f[k] \in 1 .. ModTabMax
      BY <2>1, <2>2, <2>3, <1>10
    <2>5. f = [k \in 1 .. n |-> f[k]]
      BY <2>3
    <2>6. [k \in 1 .. n |-> f[k]] \in Seq(1 .. ModTabMax)
      BY <2>4
    <2> QED BY <2>1, <2>2, <2>3, <2>5, <2>6
  <1>12. v = [w EXCEPT ![i] = [w[i] EXCEPT !.import = im]]
    BY <1>1, <1>3, <1>4, <1>11 DEF ImportsTable
  <1>13. PICK e \in Entry : e = w[i]
    BY <1>8, <1>9
  <1>14. PICK f : f = [e EXCEPT !.import = im]
    OBVIOUS
  <1>15. /\ f \in Entry /\ f.import = im /\ f.name = e.name /\ f.key = e.key
         /\ f.loaded = e.loaded /\ f.data_ofs = e.data_ofs /\ f.data_sz = e.data_sz
    BY <1>14, ImportType
  <1>16. /\ v \in Seq(Entry) /\ Len(v) = Len(w) /\ DOMAIN v = DOMAIN w
         /\ v[i] = f /\ \A j \in DOMAIN w : j # i => v[j] = w[j]
    <2>1. v = [w EXCEPT ![i] = f]
      BY <1>12, <1>13, <1>14
    <2> QED BY <2>1, <1>8, <1>9, <1>15, Updated
  <1>17. ImportsRead(w, m, i, v)
    BY <1>1, <1>11, <1>13, <1>15, <1>16 DEF ImportsRead
  <1>18. /\ Staged(t, m, m.imports, base, v) /\ Imported(v, Place(t, m), m.imports)
         /\ Len(v) < ModTabMax
    <2>1. w = WithAll(u, m.imports) /\ ImportsRead(w, m, Place(t, m), v)
      BY <1>1, <1>3, <1>4, <1>17
    <2> QED BY <2>1, <1>16, StagedImports
  <1>19. i \in 0 .. Len(v)
    BY <1>8, <1>9, <1>16
  <1> QED BY <1>4, <1>8, <1>16, <1>18, <1>19

\* Past the imports: sections of other kinds change neither names nor imports.
LEMMA ProgressBody ==
  ASSUME paths \in Setups, Found # <<>>, UNCHANGED <<paths, want, complete>>,
         NEW k \in Nat, k >= ImportsAt, file' = Rest(Text, k),
         IsFile(Text, Module), mod' = Place(complete.tab, Module),
         data_top' = complete.data_top + Module.globals + Len(Module.strings),
         Staged(complete.tab, Module, Module.imports, complete.data_top, tab'),
         Imported(tab', mod', Module.imports)
  PROVE  Progress(k)'
  <1>1. /\ ModuleAt \in {1, 2} /\ IsModule(Module) /\ ImportsAt \in Nat
        /\ IF Module.imports = <<>> THEN ImportsAt = ModuleAt ELSE ImportsAt = ModuleAt + 1
    BY FileIs
  <1>2. Text' = Text /\ Module' = Module /\ ModuleAt' = ModuleAt /\ ImportsAt' = ImportsAt
    <2>1. Text' = Text /\ Module' = Module
      BY SameFile
    <2> QED BY <2>1 DEF ModuleAt, ImportsAt
  <1>3. ~ (k < ModuleAt) /\ ~ (k < ImportsAt)
    BY <1>1
  <1>4. Staged(complete.tab, Module, IF k < ImportsAt THEN <<>> ELSE Module.imports,
               complete.data_top, tab')
    BY <1>3
  <1>5. /\ IsFile(Text', Module') /\ file' = Rest(Text', k) /\ ~ (k < ModuleAt')
        /\ mod' = Place(complete.tab', Module')
        /\ data_top' = complete.data_top' + Module'.globals + Len(Module'.strings)
        /\ Staged(complete.tab', Module', IF k < ImportsAt' THEN <<>> ELSE Module'.imports,
                  complete.data_top', tab')
        /\ Imported(tab', mod', Module'.imports)
    BY <1>2, <1>3, <1>4
  <1> QED BY <1>5 DEF Progress

LEMMA ReadImportsInv ==
  ASSUME Inv, ReadImports
  PROVE  Inv'
  <1>1. /\ mode = "parse" /\ mode' = "parse" /\ Word(1) = \o202
        /\ UNCHANGED <<paths, data_top, dsh_mem, want, loads, mod, proc_section, top, complete>>
    BY DEF ReadImports, Section
  <1>2. Word(1) # 65535
    BY <1>1
  <1>3. /\ \E k \in 0 .. Len(Text) : Progress(k) /\ NextIs(k, Text[k + 1])
        /\ paths \in Setups /\ Found # <<>> /\ IsModule(Module)
        /\ ModuleAt \in {1, 2} /\ Len(Text) \in Nat /\ complete.data_top \in Nat
        /\ IF Module.imports = <<>> THEN ImportsAt = ModuleAt ELSE ImportsAt = ModuleAt + 1
        /\ tab \in Seq(Entry) /\ data_top \in Nat /\ complete.tab \in Seq(Entry)
    BY <1>1, <1>2, InFile
  <1>4. PICK k \in 0 .. Len(Text) : Progress(k) /\ NextIs(k, Text[k + 1])
    BY <1>3
  <1>5. /\ k = ModuleAt /\ k + 1 = ImportsAt /\ AtImports(Text[k + 1], Module)
        /\ k + 1 \in 0 .. Len(Text) /\ IsFile(Text, Module)
    BY <1>1, <1>4 DEF NextIs, SectionIs, AtStart, AtModule, AtOther, AtFault, ReadImports
  <1>6. /\ mod = Place(complete.tab, Module)
        /\ data_top = complete.data_top + Module.globals + Len(Module.strings)
        /\ Staged(complete.tab, Module, <<>>, complete.data_top, tab)
    <2>1. k >= ModuleAt /\ k < ImportsAt
      BY <1>3, <1>5
    <2> QED BY <2>1, <1>4 DEF Progress
  <1>7. /\ ~ Refused(tab, Module.imports) /\ tab' = ImportsTable(tab, Module, mod)
        /\ Drop(Len(Text[k + 1]))
    BY <1>5 DEF ReadImports, ImportsTable, AtImports
  <1>8. file' = Rest(Text, k + 1)
    BY <1>4, <1>7, Dropped
  <1>9. /\ tab' \in Seq(Entry) /\ Len(tab') < ModTabMax /\ Len(tab') >= Len(tab)
        /\ Staged(complete.tab, Module, Module.imports, complete.data_top, tab')
        /\ Imported(tab', mod, Module.imports) /\ mod \in 0 .. Len(tab')
    <2>1. PICK t \in Seq(Entry) : t = complete.tab
      BY <1>3
    <2>2. PICK m : m = Module
      OBVIOUS
    <2>3. PICK base : base = complete.data_top
      OBVIOUS
    <2>4. PICK u \in Seq(Entry) : u = tab
      BY <1>3
    <2>5. IsModule(m) /\ Staged(t, m, <<>>, base, u) /\ ~ Refused(u, m.imports)
      BY <1>3, <1>6, <1>7, <2>1, <2>2, <2>3, <2>4
    <2>6. PICK v : v = ImportsTable(u, m, Place(t, m))
      OBVIOUS
    <2>7. /\ v \in Seq(Entry) /\ Staged(t, m, m.imports, base, v) /\ Len(v) < ModTabMax
          /\ Len(v) >= Len(u) /\ Imported(v, Place(t, m), m.imports)
          /\ Place(t, m) \in 0 .. Len(v)
      BY <2>5, <2>6, ImportsEntry, Zenon
    <2>8. tab' = v /\ mod = Place(t, m)
      BY <1>6, <1>7, <2>1, <2>2, <2>4, <2>6
    <2> QED BY <2>1, <2>2, <2>3, <2>4, <2>7, <2>8
  <1>10. Progress(k + 1)'
    <2>1. k + 1 >= ImportsAt /\ k + 1 \in Nat
      BY <1>3, <1>5
    <2> QED BY <2>1, <1>1, <1>3, <1>5, <1>6, <1>8, <1>9, ProgressBody
  <1>11. data_top' \in Nat /\ \A x \in DOMAIN dsh_mem' : x \in 0 .. data_top' - 1
    BY <1>1 DEF Inv, TypeOK
  <1>12. mod' \in 0 .. Len(tab') /\ proc_section' \in BOOLEAN
    BY <1>1, <1>9 DEF Inv, TypeOK
  <1> QED BY <1>1, <1>5, <1>9, <1>10, <1>11, <1>12, Reading1

\* The sections of other kinds belong to the module that is read, and fit in its data.
LEMMA InBody ==
  ASSUME Inv, mode = "parse", Word(1) \in \o203 .. \o205
  PROVE  /\ paths \in Setups /\ Found # <<>> /\ IsModule(Module) /\ file \in Seq(Item)
         /\ tab \in Seq(Entry) /\ complete.tab \in Seq(Entry) /\ Len(tab) < ModTabMax
         /\ mod \in DOMAIN tab /\ tab[mod] \in Entry
         /\ tab[mod].data_ofs \in Nat /\ tab[mod].data_sz \in Nat
         /\ data_top = tab[mod].data_ofs + tab[mod].data_sz
         /\ mod = Place(complete.tab, Module)
         /\ data_top = complete.data_top + Module.globals + Len(Module.strings)
         /\ Staged(complete.tab, Module, Module.imports, complete.data_top, tab)
         /\ Imported(tab, mod, Module.imports)
         /\ \E k \in Nat :
              /\ k >= ImportsAt /\ k + 1 \in 0 .. Len(Text) /\ IsFile(Text, Module)
              /\ AtOther(Text[k + 1]) /\ NextIs(k, Text[k + 1])
  <1>1. Word(1) # 65535
    OBVIOUS
  <1>2. /\ \E k \in 0 .. Len(Text) : Progress(k) /\ NextIs(k, Text[k + 1])
        /\ paths \in Setups /\ Found # <<>> /\ IsModule(Module)
        /\ ModuleAt \in {1, 2} /\ Len(Text) \in Nat /\ complete.data_top \in Nat
        /\ IF Module.imports = <<>> THEN ImportsAt = ModuleAt ELSE ImportsAt = ModuleAt + 1
        /\ tab \in Seq(Entry) /\ Len(tab) < ModTabMax /\ data_top \in Nat
        /\ complete.tab \in Seq(Entry) /\ file \in Seq(Item)
    BY <1>1, InFile
  <1>3. PICK k \in 0 .. Len(Text) : Progress(k) /\ NextIs(k, Text[k + 1])
    BY <1>2
  <1>4. /\ k >= ImportsAt /\ AtOther(Text[k + 1]) /\ IsFile(Text, Module)
        /\ k + 1 \in 0 .. Len(Text)
    BY <1>3 DEF NextIs, SectionIs, AtStart, AtModule, AtImports, AtFault
  <1>5. /\ mod = Place(complete.tab, Module)
        /\ data_top = complete.data_top + Module.globals + Len(Module.strings)
        /\ Staged(complete.tab, Module, Module.imports, complete.data_top, tab)
        /\ Imported(tab, mod, Module.imports)
    <2>1. k >= ModuleAt /\ ~ (k < ImportsAt) /\ k \in Nat
      BY <1>2, <1>4
    <2> QED BY <2>1, <1>3, <1>4 DEF Progress
  <1>6. Module.imports \in Seq(ModId) /\ Module.globals \in Nat /\ Len(Module.strings) \in Nat
    BY <1>2, ModuleIs
  <1>7. mod \in DOMAIN tab
    BY <1>2, <1>5, <1>6, Places
  <1>8. /\ tab[mod].data_ofs = complete.data_top
        /\ tab[mod].data_sz = Module.globals + Len(Module.strings)
    BY <1>5 DEF Staged
  <1>9. tab[mod] \in Entry
    BY <1>2, <1>7
  <1>10. data_top = tab[mod].data_ofs + tab[mod].data_sz
    <2>1. complete.data_top \in Nat
      BY <1>2
    <2> QED BY <2>1, <1>5, <1>6, <1>8
  <1>11. tab[mod].data_ofs \in Nat /\ tab[mod].data_sz \in Nat
    <2>1. complete.data_top \in Nat
      BY <1>2
    <2> QED BY <2>1, <1>6, <1>8
  <1>12. k \in Nat
    BY <1>2
  <1> QED BY <1>2, <1>3, <1>4, <1>5, <1>7, <1>9, <1>10, <1>11, <1>12

\* They change neither names nor imports.
LEMMA BodyInv ==
  ASSUME Inv, mode = "parse", mode' = "parse", Word(1) \in \o203 .. \o205,
         UNCHANGED <<paths, data_top, want, loads, mod, top, complete>>,
         Drop(2 + Word(2)), proc_section' \in BOOLEAN,
         tab' \in Seq(Entry), Len(tab') = Len(tab), \A j \in DOMAIN tab : Alike(tab'[j], tab[j]),
         \A x \in DOMAIN dsh_mem' : x \in 0 .. data_top - 1
  PROVE  Inv'
  <1>1. /\ paths \in Setups /\ Found # <<>> /\ IsModule(Module) /\ file \in Seq(Item)
        /\ tab \in Seq(Entry) /\ complete.tab \in Seq(Entry) /\ Len(tab) < ModTabMax
        /\ mod = Place(complete.tab, Module)
        /\ data_top = complete.data_top + Module.globals + Len(Module.strings)
        /\ Staged(complete.tab, Module, Module.imports, complete.data_top, tab)
        /\ Imported(tab, mod, Module.imports)
        /\ \E k \in Nat :
             /\ k >= ImportsAt /\ k + 1 \in 0 .. Len(Text) /\ IsFile(Text, Module)
             /\ AtOther(Text[k + 1]) /\ NextIs(k, Text[k + 1])
    BY InBody
  <1>2. PICK k \in Nat :
          /\ k >= ImportsAt /\ k + 1 \in 0 .. Len(Text) /\ IsFile(Text, Module)
          /\ AtOther(Text[k + 1]) /\ NextIs(k, Text[k + 1])
    BY <1>1
  <1>3. Drop(Len(Text[k + 1]))
    <2>1. Word(2) \in Nat /\ Word(2) = Len(Text[k + 1]) - 2
      BY <1>1, <1>2, WordType DEF AtOther
    <2>2. Text[k + 1] \in Seq(Item)
      <3>1. Text \in Seq(Seq(Item)) /\ Len(Text) \in Nat
        BY <1>1, FileIs
      <3>2. k + 1 \in 1 .. Len(Text)
        BY <3>1, <1>2
      <3> QED BY <3>1, <3>2
    <2>3. Len(Text[k + 1]) \in Nat
      BY <2>2
    <2>4. 2 + Word(2) = Len(Text[k + 1])
      BY <2>1, <2>3
    <2> QED BY <2>4, Zenon DEF Drop
  <1>4. file' = Rest(Text, k + 1)
    BY <1>2, <1>3, Dropped
  <1>5. /\ Staged(complete.tab, Module, Module.imports, complete.data_top, tab')
        /\ Imported(tab', mod, Module.imports)
    <2>1. PICK t \in Seq(Entry) : t = complete.tab
      BY <1>1
    <2>2. PICK u \in Seq(Entry) : u = tab
      BY <1>1
    <2>3. PICK v \in Seq(Entry) : v = tab'
      OBVIOUS
    <2>4. PICK m : m = Module
      OBVIOUS
    <2>5. PICK base : base = complete.data_top
      OBVIOUS
    <2>6. PICK ids \in Seq(ModId) : ids = Module.imports
      BY <1>1, ModuleIs
    <2>7. /\ IsModule(m) /\ Staged(t, m, ids, base, u) /\ Len(v) = Len(u)
          /\ \A j \in DOMAIN u : Alike(v[j], u[j])
      BY <1>1, <2>1, <2>2, <2>3, <2>4, <2>5, <2>6
    <2>8. /\ Staged(t, m, ids, base, v)
          /\ \A e : Imported(u, Place(t, m), e) => Imported(v, Place(t, m), e)
      BY <2>7, StagedAlike, Zenon
    <2> QED BY <1>1, <2>1, <2>2, <2>3, <2>4, <2>5, <2>6, <2>8
  <1>6. Progress(k + 1)'
    <2>1. k + 1 >= ImportsAt /\ k + 1 \in Nat
      <3>1. ImportsAt \in Nat
        BY <1>1, FileIs
      <3> QED BY <3>1, <1>2
    <2> QED BY <2>1, <1>1, <1>2, <1>4, <1>5, ProgressBody
  <1>7. Len(tab') >= Len(tab) /\ Len(tab') < ModTabMax
    BY <1>1
  <1>8. mod' \in 0 .. Len(tab') /\ data_top' \in Nat
    BY DEF Inv, TypeOK
  <1> QED BY <1>2, <1>6, <1>7, <1>8, Reading1

\* A change of the entry that is read, and of nothing else.
LEMMA ChangeEntry ==
  ASSUME NEW t \in Seq(Entry), NEW i \in DOMAIN t, NEW f \in Entry, Alike(f, t[i]),
         NEW u, u = [t EXCEPT ![i] = f]
  PROVE  u \in Seq(Entry) /\ Len(u) = Len(t) /\ \A j \in DOMAIN t : Alike(u[j], t[j])
  <1>1. /\ u \in Seq(Entry) /\ Len(u) = Len(t)
        /\ u[i] = f /\ \A j \in DOMAIN t : j # i => u[j] = t[j]
    BY Updated
  <1> QED BY <1>1 DEF Alike

LEMMA ReadDataInv ==
  ASSUME Inv, ReadData
  PROVE  Inv'
  <1>1. /\ mode = "parse" /\ mode' = "parse" /\ Word(1) = \o204 /\ DataFits
        /\ UNCHANGED <<paths, tab, data_top, want, loads, mod, proc_section, top, complete>>
        /\ Drop(2 + Word(2))
    BY DEF ReadData, Section
  <1>2. Word(1) \in \o203 .. \o205
    BY <1>1
  <1>3. /\ file \in Seq(Item) /\ tab \in Seq(Entry) /\ tab[mod].data_ofs \in Nat
        /\ tab[mod].data_sz \in Nat /\ data_top = tab[mod].data_ofs + tab[mod].data_sz
    BY <1>1, <1>2, InBody
  <1>4. Word(2) \in Nat /\ Word(3) \in Nat
    BY <1>3, WordType
  <1>5. ASSUME NEW x \in DOMAIN dsh_mem' PROVE x \in 0 .. data_top - 1
    <2>1. PICK written : /\ written = DataPlace(Word(3)) .. DataPlace(Word(3)) + Word(2) - 2
                         /\ DOMAIN dsh_mem' = written \union DOMAIN dsh_mem
      BY DEF ReadData
    <2>2. x \in written \/ x \in DOMAIN dsh_mem
      BY <2>1
    <2>3. CASE x \in DOMAIN dsh_mem
      BY <2>3 DEF Inv, TypeOK
    <2>4. CASE x \in written
      <3>1. x \in DataPlace(Word(3)) .. DataPlace(Word(3)) + Word(2) - 2
        BY <2>1, <2>4
      <3>2. PICK ofs \in Nat, sz \in Nat, n \in Nat, a \in Nat :
              ofs = tab[mod].data_ofs /\ sz = tab[mod].data_sz /\ n = Word(2) /\ a = Word(3)
        BY <1>3, <1>4
      <3>3. /\ x \in ofs + a .. ofs + a + n - 2 /\ a + n - 1 <= sz /\ data_top = ofs + sz
        BY <3>1, <3>2, <1>1, <1>3 DEF DataPlace, DataFits
      <3>4. x \in 0 .. ofs + sz - 1
        BY <3>3
      <3> QED BY <3>3, <3>4
    <2> QED BY <2>2, <2>3, <2>4
  <1>6. \A j \in DOMAIN tab : Alike(tab'[j], tab[j])
    BY <1>1 DEF Alike
  <1>7. proc_section' \in BOOLEAN
    BY <1>1 DEF Inv, TypeOK
  <1> QED BY <1>1, <1>2, <1>3, <1>5, <1>6, <1>7, BodyInv

LEMMA Elements ==
  ASSUME NEW T, NEW s \in Seq(T)
  PROVE  Len(s) \in Nat /\ DOMAIN s = 1 .. Len(s) /\ \A i \in 1 .. Len(s) : s[i] \in T
  OBVIOUS

\* n of something, also when the size of the section leaves less than nothing.
LEMMA ListOf ==
  ASSUME NEW T, NEW n \in Int, NEW s, s = [i \in 1 .. n |-> s[i]], \A i \in 1 .. n : s[i] \in T
  PROVE  s \in Seq(T)
  <1>1. CASE n >= 0
    <2>1. n \in Nat
      BY <1>1
    <2>2. [i \in 1 .. n |-> s[i]] \in Seq(T)
      BY <2>1
    <2> QED BY <2>2
  <1>2. CASE ~ (n >= 0)
    <2>1. 1 .. n = 1 .. 0
      BY <1>2
    <2>2. s = [i \in 1 .. 0 |-> s[i]]
      BY <2>1
    <2>3. [i \in 1 .. 0 |-> s[i]] \in Seq(T)
      BY <2>1
    <2> QED BY <2>2, <2>3
  <1> QED BY <1>1, <1>2

LEMMA ReverseType ==
  ASSUME NEW T, NEW s \in Seq(T)
  PROVE  Reverse(s) \in Seq(T)
  <1>1. PICK n \in Nat : n = Len(s)
    OBVIOUS
  <1>2. \A i \in 1 .. n : s[n - i + 1] \in T
    BY <1>1
  <1>3. [i \in 1 .. n |-> s[n - i + 1]] \in Seq(T)
    BY <1>2
  <1> QED BY <1>1, <1>3 DEF Reverse

LEMMA ReadEntriesInv ==
  ASSUME Inv, ReadEntries
  PROVE  Inv'
  <1>1. /\ mode = "parse" /\ mode' = "parse" /\ Word(1) = \o203 /\ proc_section' \in BOOLEAN
        /\ UNCHANGED <<paths, data_top, dsh_mem, want, loads, mod, top, complete>>
    BY DEF ReadEntries, Section
  <1>2. Word(1) \in \o203 .. \o205
    BY <1>1
  <1>3. file \in Seq(Item) /\ tab \in Seq(Entry) /\ mod \in DOMAIN tab /\ tab[mod] \in Entry
    BY <1>1, <1>2, InBody
  <1>4. Word(2) \in Nat /\ Word(3) \in Nat /\ \A i : Word(3 + i) \in Nat
    BY <1>3, WordType
  <1>5. PICK new : /\ new = [i \in 1 .. Word(2) - 1 |->
                             [idx |-> IF Word(3) # 0 THEN Word(3) ELSE i - 1,
                              entry |-> Word(3 + i), fixup |-> <<>>]]
                   /\ tab' = [tab EXCEPT ![mod].proc_tmp = Reverse(new) \o @]
    BY DEF ReadEntries
  <1>6. Drop(2 + Word(2))
    <2>1. Drop(3 + (Word(2) - 1))
      BY DEF ReadEntries
    <2>2. 3 + (Word(2) - 1) = 2 + Word(2)
      BY <1>4
    <2> QED BY <2>1, <2>2, Zenon DEF Drop
  <1>7. Reverse(new) \in Seq(Procedure)
    <2>1. PICK n \in Int : n = Word(2) - 1
      BY <1>4
    <2>2. ASSUME NEW i \in 1 .. n PROVE new[i] \in Procedure
      <3>1. i - 1 \in Nat /\ <<>> \in Seq(Nat)
        BY <2>1
      <3>2. PICK idx \in Nat : idx = IF Word(3) # 0 THEN Word(3) ELSE i - 1
        BY <3>1, <1>4
      <3>3. PICK none \in Seq(Nat) : none = <<>>
        BY <3>1
      <3>4. PICK entry \in Nat : entry = Word(3 + i)
        BY <1>4
      <3>5. new[i] = [idx |-> idx, entry |-> entry, fixup |-> none]
        BY <2>1, <3>2, <3>3, <3>4, <1>5
      <3> QED BY <3>5 DEF Procedure
    <2>3. new = [i \in 1 .. n |-> new[i]]
      BY <1>5, <2>1
    <2>4. new \in Seq(Procedure)
      BY <2>2, <2>3, ListOf
    <2> QED BY <2>4, ReverseType
  <1>8. PICK e \in Entry : e = tab[mod]
    BY <1>3
  <1>9. PICK p \in Seq(Procedure) : p = Reverse(new) \o e.proc_tmp
    <2>1. e.proc_tmp \in Seq(Procedure)
      BY DEF Entry
    <2> QED BY <2>1, <1>7, Joined
  <1>10. PICK f \in Entry : f = [e EXCEPT !.proc_tmp = p] /\ Alike(f, e)
    BY ProcTmpType
  <1>11. tab' \in Seq(Entry) /\ Len(tab') = Len(tab) /\ \A j \in DOMAIN tab : Alike(tab'[j], tab[j])
    <2>1. tab' = [tab EXCEPT ![mod] = f]
      BY <1>5, <1>8, <1>9, <1>10
    <2> QED BY <2>1, <1>3, <1>8, <1>10, ChangeEntry
  <1>12. \A x \in DOMAIN dsh_mem' : x \in 0 .. data_top - 1
    BY <1>1 DEF Inv, TypeOK
  <1> QED BY <1>1, <1>2, <1>6, <1>11, <1>12, BodyInv

\* Two bytes of each word.
LEMMA BytesType ==
  ASSUME NEW n \in Int, NEW words, words = [i \in 1 .. n |-> words[i]],
         \A i \in 1 .. n : words[i] \in Byte \X Byte
  PROVE  BytesOf(words) \in Seq(Byte)
  <1>1. PICK T : T = Byte \X Byte
    OBVIOUS
  <1>a. words \in Seq(T)
    BY <1>1, ListOf
  <1>2. PICK k \in Nat : k = Len(words) /\ \A y \in 1 .. k : words[y] \in T
    BY <1>a, Elements, Zenon
  <1>3. ASSUME NEW x \in 1 .. 2 * k PROVE words[(x + 1) \div 2][2 - (x % 2)] \in Byte
    <2>1. PICK y \in 1 .. k, z \in {1, 2} : y = (x + 1) \div 2 /\ z = 2 - (x % 2)
      <3>1. (x + 1) \div 2 \in 1 .. k /\ 2 - (x % 2) \in {1, 2}
        BY <1>3
      <3> QED BY <3>1
    <2>2. words[y] \in Byte \X Byte
      BY <1>1, <1>2
    <2>3. words[y][z] \in Byte
      BY <2>2
    <2> QED BY <2>1, <2>3
  <1>4. 2 * k \in Int
    OBVIOUS
  <1>5. PICK s : s = BytesOf(words)
    OBVIOUS
  <1>6. s = [x \in 1 .. 2 * k |-> s[x]] /\ \A x \in 1 .. 2 * k : s[x] \in Byte
    <2>1. s = [x \in 1 .. 2 * k |-> words[(x + 1) \div 2][2 - (x % 2)]]
      BY <1>2, <1>5 DEF BytesOf
    <2> QED BY <2>1, <1>3
  <1>7. s \in Seq(Byte)
    BY <1>4, <1>6, ListOf
  <1> QED BY <1>5, <1>7

LEMMA ReadCodeInv ==
  ASSUME Inv, ReadCode
  PROVE  Inv'
  <1>1. /\ mode = "parse" /\ mode' = "parse" /\ Word(1) = \o203 /\ proc_section' \in BOOLEAN
        /\ CodeFits /\ Drop(2 + Word(2))
        /\ UNCHANGED <<paths, data_top, dsh_mem, want, loads, mod, top, complete>>
    BY DEF ReadCode, Section
  <1>2. Word(1) \in \o203 .. \o205
    BY <1>1
  <1>3. file \in Seq(Item) /\ tab \in Seq(Entry) /\ mod \in DOMAIN tab /\ tab[mod] \in Entry
    BY <1>1, <1>2, InBody
  <1>4. Word(2) \in Nat /\ Word(3) \in Nat
    BY <1>3, WordType
  <1>5. PICK block : block = BytesOf(Values(3, Word(2) - 1))
    OBVIOUS
  <1>6. block \in Seq(Byte)
    <2>1. PICK n \in Int : n = Word(2) - 1
      BY <1>4
    <2>2. PICK v : v = Values(3, n)
      OBVIOUS
    <2>3. ASSUME NEW i \in 1 .. n PROVE v[i] \in Byte \X Byte
      <3>1. 3 + i \in 3 + 1 .. 3 + n
        BY <2>1
      <3>2. 3 + i \in DOMAIN file /\ file[3 + i].kind = "bytes"
        BY <3>1, <2>1, <1>1 DEF CodeFits, Has
      <3>3. file[3 + i] \in Item
        BY <3>2, <1>3
      <3>4. file[3 + i].val \in Byte \X Byte
        BY <3>2, <3>3 DEF Item
      <3> QED BY <3>4, <2>2 DEF Values
    <2>4. v = [i \in 1 .. n |-> v[i]]
      BY <2>2 DEF Values
    <2>5. BytesOf(v) \in Seq(Byte)
      BY <2>3, <2>4, BytesType
    <2> QED BY <2>1, <2>2, <2>5, <1>5
  <1>7. PICK e \in Entry : e = tab[mod]
    BY <1>3
  <1>8. PICK c \in Seq(Byte) :
          c = [x \in DOMAIN e.code |-> IF x - 2 * Word(3) \in DOMAIN block
                                       THEN block[x - 2 * Word(3)] ELSE e.code[x]]
    <2>1. PICK old \in Seq(Byte) : old = e.code
      BY DEF Entry
    <2>2. PICK n \in Nat : n = Len(old) /\ DOMAIN old = 1 .. n
      OBVIOUS
    <2>3. PICK c : c = [x \in 1 .. n |-> IF x - 2 * Word(3) \in DOMAIN block
                                        THEN block[x - 2 * Word(3)] ELSE old[x]]
      OBVIOUS
    <2>4. ASSUME NEW x \in 1 .. n PROVE c[x] \in Byte
      <3>1. CASE x - 2 * Word(3) \in DOMAIN block
        BY <3>1, <2>3, <1>6
      <3>2. CASE x - 2 * Word(3) \notin DOMAIN block
        BY <3>2, <2>2, <2>3
      <3> QED BY <3>1, <3>2
    <2>5. c = [x \in 1 .. n |-> c[x]]
      BY <2>3
    <2>6. c \in Seq(Byte)
      BY <2>4, <2>5, ListOf
    <2> QED BY <2>1, <2>2, <2>3, <2>6
  <1>9. PICK f \in Entry : f = [e EXCEPT !.code = c] /\ Alike(f, e)
    BY CodeType
  <1>10. tab' \in Seq(Entry) /\ Len(tab') = Len(tab) /\ \A j \in DOMAIN tab : Alike(tab'[j], tab[j])
    <2>1. tab' = [tab EXCEPT ![mod] = f]
      BY <1>5, <1>7, <1>8, <1>9 DEF ReadCode
    <2> QED BY <2>1, <1>3, <1>7, <1>9, ChangeEntry
  <1>11. \A x \in DOMAIN dsh_mem' : x \in 0 .. data_top - 1
    BY <1>1 DEF Inv, TypeOK
  <1> QED BY <1>1, <1>2, <1>10, <1>11, BodyInv

LEMMA ReadRelocationsInv ==
  ASSUME Inv, ReadRelocations
  PROVE  Inv'
  <1>1. /\ mode = "parse" /\ mode' = "parse" /\ Word(1) = \o205 /\ Drop(2 + Word(2))
        /\ UNCHANGED <<paths, data_top, dsh_mem, want, loads, mod, proc_section, top, complete>>
    BY DEF ReadRelocations, Section
  <1>2. Word(1) \in \o203 .. \o205
    BY <1>1
  <1>3. file \in Seq(Item) /\ tab \in Seq(Entry) /\ mod \in DOMAIN tab /\ tab[mod] \in Entry
    BY <1>1, <1>2, InBody
  <1>4. Word(2) \in Nat /\ \A i : Word(2 + i) \in Nat
    BY <1>3, WordType
  <1>5. PICK fix \in Seq(Nat) : fix = [i \in 1 .. Word(2) |-> Word(2 + i)]
    <2>1. PICK n \in Int : n = Word(2)
      BY <1>4
    <2>2. PICK s : s = [i \in 1 .. n |-> Word(2 + i)]
      OBVIOUS
    <2>3. s = [i \in 1 .. n |-> s[i]] /\ \A i \in 1 .. n : s[i] \in Nat
      BY <2>2, <1>4
    <2>4. s \in Seq(Nat)
      BY <2>3, ListOf
    <2> QED BY <2>1, <2>2, <2>4
  <1>6. PICK e \in Entry : e = tab[mod]
    BY <1>3
  <1>7. PICK old \in Seq(Procedure) : old = e.proc_tmp
    BY DEF Entry
  <1>8. PICK p \in Seq(Procedure) : p = [old EXCEPT ![1].fixup = fix]
    <2>1. CASE old = <<>>
      <3>1. PICK p : p = [old EXCEPT ![1].fixup = fix]
        OBVIOUS
      <3>2. DOMAIN old = 1 .. 0
        BY <2>1
      <3>3. p = [i \in 1 .. 0 |-> p[i]]
        BY <3>1, <3>2
      <3>4. p \in Seq(Procedure)
        <4>1. \A i \in 1 .. 0 : p[i] \in Procedure
          OBVIOUS
        <4> QED BY <4>1, <3>3, ListOf
      <3> QED BY <3>1, <3>4
    <2>2. CASE old # <<>>
      <3>1. 1 \in DOMAIN old /\ old[1] \in Procedure
        BY <2>2
      <3>2. PICK q \in Procedure : q = [old[1] EXCEPT !.fixup = fix]
        BY <3>1 DEF Procedure
      <3>3. [old EXCEPT ![1] = q] \in Seq(Procedure)
        <4> DEFINE T == Procedure
        <4>1. old \in Seq(T) /\ q \in T
          OBVIOUS
        <4> HIDE DEF T
        <4>2. [old EXCEPT ![1] = q] \in Seq(T)
          BY <4>1, <3>1
        <4> QED BY <4>2 DEF T
      <3> QED BY <3>2, <3>3
    <2> QED BY <2>1, <2>2
  <1>9. PICK f \in Entry : f = [e EXCEPT !.proc_tmp = p] /\ Alike(f, e)
    BY ProcTmpType
  <1>10. tab' \in Seq(Entry) /\ Len(tab') = Len(tab) /\ \A j \in DOMAIN tab : Alike(tab'[j], tab[j])
    <2>1. tab' = [tab EXCEPT ![mod] = f]
      BY <1>5, <1>6, <1>7, <1>8, <1>9 DEF ReadRelocations
    <2> QED BY <2>1, <1>3, <1>6, <1>9, ChangeEntry
  <1>11. (\A x \in DOMAIN dsh_mem' : x \in 0 .. data_top - 1) /\ proc_section' \in BOOLEAN
    BY <1>1 DEF Inv, TypeOK
  <1> QED BY <1>1, <1>2, <1>10, <1>11, BodyInv

-----------------------------------------------------------------------------
(* Between files                                                           *)

\* What the end of a file leaves: its module was read with all it imports.
LEMMA AtEnd ==
  ASSUME Inv, mode = "parse", Word(1) \notin \o200 .. \o205 \union {\o301}
  PROVE  /\ paths \in Setups /\ Found # <<>> /\ IsModule(Module) /\ IsFile(Text, Module)
         /\ tab \in Seq(Entry) /\ complete.tab \in Seq(Entry) /\ Consistent(complete.tab)
         /\ mod = Place(complete.tab, Module)
         /\ data_top = complete.data_top + Module.globals + Len(Module.strings)
         /\ Staged(complete.tab, Module, Module.imports, complete.data_top, tab)
         /\ Imported(tab, mod, Module.imports) /\ OnDisk(Module)
  <1>1. PICK k \in 0 .. Len(Text) : Progress(k)
    BY DEF Inv, InParse
  <1>2. paths \in Setups /\ Found # <<>>
    BY DEF Inv, InParse
  <1>3. /\ ModuleAt \in {1, 2} /\ Len(Text) \in Nat /\ IsModule(Module)
        /\ IF Module.imports = <<>> THEN ImportsAt = ModuleAt ELSE ImportsAt = ModuleAt + 1
        /\ Digest(Module, want) \in DiskOf(paths)
    BY <1>2, FileIs
  <1>4. /\ file \in Seq(Item)
        /\ k = Len(Text) => EndIs(Text, Module, ImportsAt, k)
        /\ k < Len(Text) => NextIs(k, Text[k + 1])
    BY <1>1, <1>2, Ahead
  <1>5. ~ (k < Len(Text))
    <2> SUFFICES ASSUME k < Len(Text) PROVE FALSE
      OBVIOUS
    <2>1. SectionIs(Text, Module, ModuleAt, ImportsAt, k, Text[k + 1])
      BY <1>4 DEF NextIs
    <2> QED BY <2>1 DEF SectionIs, AtStart, AtModule, AtImports, AtOther, AtFault
  <1>6. k >= ImportsAt /\ IsFile(Text, Module)
    <2>1. k = Len(Text)
      BY <1>3, <1>5
    <2> QED BY <2>1, <1>4 DEF EndIs
  <1>7. /\ mod = Place(complete.tab, Module)
        /\ data_top = complete.data_top + Module.globals + Len(Module.strings)
        /\ Staged(complete.tab, Module, Module.imports, complete.data_top, tab)
        /\ Imported(tab, mod, Module.imports)
    <2>1. k >= ModuleAt /\ ~ (k < ImportsAt)
      BY <1>3, <1>6
    <2> QED BY <2>1, <1>1, <1>6 DEF Progress
  <1>8. tab \in Seq(Entry) /\ complete.tab \in Seq(Entry) /\ Consistent(complete.tab)
    BY DEF Inv, TypeOK
  <1>9. OnDisk(Module)
    BY <1>3 DEF Digest, OnDisk
  <1> QED BY <1>2, <1>3, <1>6, <1>7, <1>8, <1>9

\* The table that a file leaves.
LEMMA EndConsistent ==
  ASSUME Inv, mode = "parse", Word(1) \notin \o200 .. \o205 \union {\o301}
  PROVE  Consistent(tab) /\ HasBoot(tab)
  <1>1. /\ paths \in Setups /\ Found # <<>> /\ IsModule(Module)
        /\ tab \in Seq(Entry) /\ complete.tab \in Seq(Entry) /\ Consistent(complete.tab)
        /\ mod = Place(complete.tab, Module)
        /\ Staged(complete.tab, Module, Module.imports, complete.data_top, tab)
        /\ Imported(tab, mod, Module.imports) /\ OnDisk(Module)
    BY AtEnd
  <1>2. PICK t \in Seq(Entry) : t = complete.tab
    BY <1>1
  <1>3. PICK m : m = Module
    OBVIOUS
  <1>4. PICK u \in Seq(Entry) : u = tab
    BY <1>1
  <1>5. PICK base : base = complete.data_top
    OBVIOUS
  <1>6. PICK d \in DiskOf(paths) : d.name = m.name /\ d.key = m.key /\ d.imports = m.imports
    BY <1>1, <1>3 DEF OnDisk
  <1>7. /\ IsModule(m) /\ Consistent(t) /\ Staged(t, m, m.imports, base, u)
        /\ Imported(u, Place(t, m), m.imports)
    BY <1>1, <1>2, <1>3, <1>4, <1>5
  <1>8. Consistent(u)
    BY <1>6, <1>7, StagedConsistent
  <1>9. PICK ids \in Seq(ModId) : ids = m.imports
    BY <1>7, ModuleIs
  <1>10. /\ Place(t, m) \in DOMAIN u
         /\ \A j \in DOMAIN t : j \in DOMAIN u /\ u[j].name = t[j].name
    <2>1. Staged(t, m, ids, base, u)
      BY <1>7, <1>9
    <2>2. \A j \in DOMAIN t : j \in DOMAIN u /\ u[j].name = t[j].name
      BY <2>1, <1>7, StagedNames
    <2>3. Place(t, m) \in DOMAIN u
      BY <2>1, <1>7, Places
    <2> QED BY <2>2, <2>3
  <1>11. /\ u[Place(t, m)].name = m.name /\ u[Place(t, m)].loaded
         /\ \A j \in DOMAIN t : j # Place(t, m) => Alike(u[j], t[j])
    BY <1>7 DEF Staged
  <1>12. CASE want = Boot
    <2>1. Digest(Module, want) \in DiskOf(paths)
      BY <1>1, FileIs
    <2>2. Digest(Module, want).file = want /\ Digest(Module, want).name = Module.name
      BY DEF Digest
    <2>3. m.name = Boot
      BY <2>1, <2>2, <1>1, <1>3, <1>12, DiskAssumption
    <2> QED BY <2>3, <1>4, <1>8, <1>10, <1>11 DEF HasBoot
  <1>13. CASE HasBoot(complete.tab)
    <2>1. PICK j \in DOMAIN t : t[j].name = Boot /\ t[j].loaded
      BY <1>2, <1>13 DEF HasBoot
    <2>2. u[j].loaded
      BY <2>1, <1>11 DEF Alike
    <2> QED BY <2>1, <2>2, <1>4, <1>8, <1>10 DEF HasBoot
  <1> QED BY <1>12, <1>13 DEF Inv, BootFirst

LEMMA ConsistentKept ==
  ASSUME UNCHANGED paths, NEW t, Consistent(t)
  PROVE  Consistent(t)'
  <1>1. DiskOf(paths)' = DiskOf(paths)
    BY DEF DiskOf, NamesIn, PrefixOf
  <1> QED BY <1>1 DEF Consistent, Distinct, Imported

LEMMA EndOfFileInv ==
  ASSUME Inv, EndOfFile
  PROVE  Inv'
  <1>1. /\ mode = "parse" /\ mode' = "scan" /\ Word(1) \notin \o200 .. \o205 \union {\o301}
        /\ file' = <<>> /\ complete' = [tab |-> tab, data_top |-> data_top]
        /\ UNCHANGED <<paths, tab, data_top, dsh_mem, want, loads, mod, proc_section, top>>
    BY DEF EndOfFile
  <1>2. Consistent(tab) /\ HasBoot(tab)
    BY <1>1, EndConsistent
  <1>3. TypeOK'
    BY <1>1 DEF Inv, TypeOK, module_num
  <1>4. Consistent(complete.tab)'
    <2>1. PICK t : t = tab
      OBVIOUS
    <2>2. Consistent(t)'
      BY <2>1, <1>1, <1>2, ConsistentKept
    <2>3. complete'.tab = t
      BY <2>1, <1>1
    <2> QED BY <2>2, <2>3 DEF Consistent
  <1>5. InParse' /\ Between'
    BY <1>1 DEF InParse, Between
  <1>6. BootFirst'
    BY <1>1, <1>2 DEF BootFirst, HasBoot, Inv, InParse
  <1>7. Linkable'
    BY <1>1 DEF Linkable, Inv
  <1> QED BY <1>1, <1>3, <1>4, <1>5, <1>6, <1>7 DEF Inv

\* Where the loader gives up.
LEMMA StoppedInv ==
  ASSUME Inv, mode' \in {"failed", "error", "mismatch", "unreadable", "unfixable"},
         UNCHANGED <<paths, tab, data_top, dsh_mem, want, reading, top, complete>>,
         loads' = loads \/ loads' = <<>>
  PROVE  Inv'
  <1>1. TypeOK'
    <2>1. loads' \in Seq(0 .. ModTabMax)
      <3>1. loads \in Seq(0 .. ModTabMax) /\ <<>> \in Seq(0 .. ModTabMax)
        BY DEF Inv, TypeOK
      <3> QED BY <3>1
    <2>2. mod' = mod /\ proc_section' = proc_section
      BY DEF reading
    <2> QED BY <2>1, <2>2 DEF Inv, TypeOK, module_num
  <1>2. Consistent(complete.tab)' /\ paths' \in Setups
    <2>1. PICK t : t = complete.tab
      OBVIOUS
    <2>2. Consistent(t)' /\ complete'.tab = t
      BY <2>1, ConsistentKept DEF Inv
    <2> QED BY <2>2 DEF Inv, Consistent
  <1>3. InParse' /\ Between' /\ BootFirst' /\ Linkable'
    BY DEF InParse, Between, BootFirst, Linkable
  <1> QED BY <1>1, <1>2, <1>3 DEF Inv

LEMMA OpenInv ==
  ASSUME Inv, Open
  PROVE  Inv'
  <1>1. /\ mode = "load" /\ mode' = "parse" /\ mod' = 0 /\ proc_section' = TRUE
        /\ Search(paths, want, Prefix) # <<>>
        /\ file' = FlattenSeq(Written(Search(paths, want, Prefix)[1]))
        /\ loads' = Append(loads, (module_num + 1) % (ModTabMax + 1))
        /\ UNCHANGED <<paths, tab, data_top, dsh_mem, want, top, complete>>
    BY DEF Open
  <1>2. Prefix = PrefixOf(want)
    BY <1>1 DEF Prefix, PrefixOf, Inv, BootFirst
  <1>3. Found # <<>> /\ file' = FlattenSeq(Text) /\ paths \in Setups
    BY <1>1, <1>2 DEF Found, Text, Inv
  <1>4. /\ tab \in Seq(Entry) /\ loads \in Seq(0 .. ModTabMax)
        /\ tab = complete.tab /\ data_top = complete.data_top
    BY <1>1 DEF Inv, TypeOK, Between
  <1>5. PICK n \in 0 .. ModTabMax :
          n = (Len(complete.tab) + 2) % (ModTabMax + 1) /\ loads' = Append(loads, n)
    <2>1. Len(tab) \in Nat /\ ModTabMax \in Nat
      BY <1>4, ModTabAssumption
    <2>2. (Len(tab) + 2) % (ModTabMax + 1) \in 0 .. ModTabMax /\ Len(tab) + 1 + 1 = Len(tab) + 2
      BY <2>1
    <2> QED BY <2>1, <2>2, <1>1, <1>4 DEF module_num
  <1>6. loads' \in Seq(0 .. ModTabMax) /\ loads' # <<>> /\ Last(loads') = n
    BY <1>4, <1>5 DEF Last
  <1>7. TypeOK'
    <2>1. 0 \in 0 .. Len(tab)
      BY <1>4
    <2> QED BY <2>1, <1>1, <1>6 DEF Inv, TypeOK, module_num
  <1>8. Consistent(complete.tab)' /\ paths' \in Setups
    <2>1. PICK t : t = complete.tab
      OBVIOUS
    <2>2. Consistent(t)' /\ complete'.tab = t
      BY <2>1, <1>1, ConsistentKept DEF Inv
    <2> QED BY <2>2, <1>1 DEF Inv, Consistent
  <1>9. Progress(0)'
    <2>1. Text' = Text /\ Module' = Module /\ ModuleAt' = ModuleAt
      <3>1. Text' = Text /\ Module' = Module
        BY <1>1, SameFile
      <3> QED BY <3>1 DEF ModuleAt
    <2>2. ModuleAt \in {1, 2} /\ Text \in Seq(Seq(Item)) /\ Len(Text) \in Nat
      BY <1>3, FileIs
    <2>3. FlattenSeq(Text) = Rest(Text, 0)
      <3>1. PICK T : T = Seq(Item)
        OBVIOUS
      <3>2. Text \in Seq(T)
        BY <2>2, <3>1
      <3>3. SubSeq(Text, 0 + 1, Len(Text)) = Text
        BY <3>2
      <3> QED BY <3>3 DEF Rest
    <2>4. ~ (0 >= ModuleAt)
      BY <2>2
    <2> QED BY <2>1, <2>3, <2>4, <1>1, <1>3, <1>4 DEF Progress
  <1>10. InParse'
    <2>1. Found' = Found /\ Text' = Text
      BY <1>1, SameFile
    <2>2. 0 \in 0 .. Len(Text)
      BY <1>3, FileIs
    <2> QED BY <2>1, <2>2, <1>1, <1>3, <1>5, <1>6, <1>9 DEF InParse
  <1>11. Between' /\ Linkable'
    BY <1>1 DEF Between, Linkable, Inv
  <1>12. BootFirst'
    BY <1>1 DEF BootFirst, HasBoot, Inv
  <1> QED BY <1>7, <1>8, <1>10, <1>11, <1>12 DEF Inv

\* What is missing is searched among the entries of one table.
LEMMA ScanInv ==
  ASSUME Inv, Scan
  PROVE  Inv'
  <1>1. /\ mode = "scan" /\ Last(loads) < module_num
        /\ IF Last(loads) = 0 \/ tab[Last(loads)].loaded THEN UNCHANGED <<mode, want>>
           ELSE mode' = "load" /\ want' = tab[Last(loads)].name
        /\ loads' = [loads EXCEPT ![Len(loads)] = @ + 1]
        /\ UNCHANGED <<paths, tab, data_top, dsh_mem, mod, proc_section, file, top, complete>>
    BY DEF Scan, reading
  <1>2. /\ tab \in Seq(Entry) /\ module_num <= ModTabMax /\ loads \in Seq(0 .. ModTabMax)
        /\ loads # <<>> /\ HasBoot(tab) /\ Distinct(tab) /\ want \in STRING
        /\ tab = complete.tab /\ data_top = complete.data_top
    <2>1. tab = complete.tab /\ data_top = complete.data_top
      BY <1>1 DEF Inv, Between
    <2> QED BY <2>1, <1>1 DEF Inv, TypeOK, BootFirst, Consistent
  <1>3. /\ Last(loads) \in 0 .. ModTabMax /\ Last(loads) = loads[Len(loads)]
        /\ Len(loads) \in DOMAIN loads
    BY <1>2, FrontIs
  <1>4. Len(tab) \in Nat /\ DOMAIN tab = 1 .. Len(tab) /\ module_num = Len(tab) + 1
    BY <1>2 DEF module_num
  <1>5. PICK n \in 0 .. ModTabMax : n = loads[Len(loads)] + 1
    BY <1>1, <1>2, <1>3, <1>4, ModTabAssumption
  <1>6. loads' \in Seq(0 .. ModTabMax) /\ loads' # <<>>
    <2>1. PICK T : T = 0 .. ModTabMax
      OBVIOUS
    <2>2. loads \in Seq(T) /\ n \in T /\ loads' = [loads EXCEPT ![Len(loads)] = n]
      BY <2>1, <1>1, <1>2, <1>5
    <2>3. [loads EXCEPT ![Len(loads)] = n] \in Seq(T) /\ DOMAIN loads' = DOMAIN loads
      BY <2>2, <1>3
    <2>4. loads' # <<>>
      BY <2>3, <1>3
    <2> QED BY <2>1, <2>2, <2>3, <2>4
  <1>7. ASSUME Last(loads) # 0, ~ tab[Last(loads)].loaded
        PROVE  /\ mode' = "load" /\ want' = tab[Last(loads)].name
               /\ want' \in STRING /\ want' # Boot
    <2>1. Last(loads) \in DOMAIN tab
      BY <1>1, <1>3, <1>4, <1>7, ModTabAssumption
    <2>2. tab[Last(loads)] \in Entry
      BY <2>1, <1>2
    <2>3. tab[Last(loads)].name \in STRING
      BY <2>2 DEF Entry
    <2>4. tab[Last(loads)].name # Boot
      BY <2>1, <1>2, <1>7 DEF HasBoot, Distinct
    <2> QED BY <2>3, <2>4, <1>1, <1>7
  <1>8. /\ want' \in STRING
        /\ mode' \in {"scan", "load"} /\ (mode' = "load" => want' # Boot)
    BY <1>1, <1>2, <1>7
  <1>9. TypeOK'
    BY <1>1, <1>6, <1>8 DEF Inv, TypeOK, module_num
  <1>10. Consistent(complete.tab)' /\ paths' \in Setups
    <2>1. PICK t : t = complete.tab
      OBVIOUS
    <2>2. Consistent(t)' /\ complete'.tab = t
      BY <2>1, <1>1, ConsistentKept DEF Inv
    <2> QED BY <2>2, <1>1 DEF Inv, Consistent
  <1>11. InParse' /\ Between' /\ Linkable'
    BY <1>1, <1>2, <1>8 DEF InParse, Between, Linkable, Inv
  <1>12. BootFirst'
    BY <1>1, <1>2, <1>6, <1>8 DEF BootFirst, HasBoot
  <1> QED BY <1>9, <1>10, <1>11, <1>12 DEF Inv

LEMMA ScanEndsInv ==
  ASSUME Inv, ScanEnds
  PROVE  Inv'
  <1>1. /\ mode = "scan" /\ loads' = Front(loads)
        /\ mode' = IF Len(loads) = 1 THEN "fix" ELSE "scan"
        /\ UNCHANGED <<paths, tab, data_top, dsh_mem, want, mod, proc_section, file, top, complete>>
    BY DEF ScanEnds, reading
  <1>2. /\ loads \in Seq(0 .. ModTabMax) /\ loads # <<>> /\ HasBoot(complete.tab)
        /\ tab = complete.tab /\ data_top = complete.data_top /\ top = 1
    BY <1>1 DEF Inv, TypeOK, BootFirst, Between, Linkable
  <1>3. /\ Front(loads) \in Seq(0 .. ModTabMax) /\ Len(Front(loads)) = Len(loads) - 1
        /\ Len(loads) \in Nat
    BY <1>2, FrontIs
  <1>4. mode' \in {"scan", "fix"} /\ (mode' = "scan" => loads' # <<>>)
    <2>1. mode' = "scan" => Len(Front(loads)) # 0
      BY <1>1, <1>3
    <2> QED BY <2>1, <1>1
  <1>5. TypeOK'
    BY <1>1, <1>3, <1>4 DEF Inv, TypeOK, module_num
  <1>6. Consistent(complete.tab)' /\ paths' \in Setups
    <2>1. PICK t : t = complete.tab
      OBVIOUS
    <2>2. Consistent(t)' /\ complete'.tab = t
      BY <2>1, <1>1, ConsistentKept DEF Inv
    <2> QED BY <2>2, <1>1 DEF Inv, Consistent
  <1>7. InParse' /\ BootFirst'
    BY <1>1, <1>2, <1>4 DEF InParse, BootFirst, HasBoot
  <1>8. Between'
    BY <1>1, <1>2, <1>4 DEF Between, Alike
  <1>9. Linkable'
    <2>1. 1 .. 1 - 1 = {}
      OBVIOUS
    <2> QED BY <2>1, <1>1, <1>2, <1>4 DEF Linkable
  <1> QED BY <1>5, <1>6, <1>7, <1>8, <1>9 DEF Inv

LEMMA LinkEndsInv ==
  ASSUME Inv, LinkEnds
  PROVE  Inv'
  <1>1. /\ mode = "fix" /\ mode' = "start"
        /\ UNCHANGED <<paths, tab, data_top, dsh_mem, want, loads, file, mod, proc_section, top,
                       complete>>
    BY DEF LinkEnds, reading
  <1>2. TypeOK'
    BY <1>1 DEF Inv, TypeOK, module_num
  <1>3. Consistent(complete.tab)' /\ paths' \in Setups
    <2>1. PICK t : t = complete.tab
      OBVIOUS
    <2>2. Consistent(t)' /\ complete'.tab = t
      BY <2>1, <1>1, ConsistentKept DEF Inv
    <2> QED BY <2>2, <1>1 DEF Inv, Consistent
  <1>4. InParse' /\ Between' /\ BootFirst' /\ Linkable'
    BY <1>1 DEF InParse, Between, BootFirst, Linkable, Inv
  <1> QED BY <1>2, <1>3, <1>4 DEF Inv

-----------------------------------------------------------------------------
(* Linking                                                                 *)

\* Max takes the greatest, where there is one.
LEMMA MaxIs ==
  ASSUME NEW N \in SUBSET Nat, N # {}, NEW b \in Nat, \A k \in N : k <= b
  PROVE  Max(N) \in N /\ \A k \in N : k <= Max(N)
  <1> DEFINE M == {n \in Nat : \A k \in N : k <= n}
  <1>1. PICK m \in M : \A k \in M : m <= k
    <2>1. b \in M /\ M \in SUBSET Nat
      OBVIOUS
    <2> HIDE DEF M
    <2> QED BY <2>1, Least
  <1>2. m \in N
    <2> SUFFICES ASSUME m \notin N PROVE FALSE
      OBVIOUS
    <2>1. \A k \in N : k <= m - 1
      BY <1>1
    <2>2. m - 1 \in M
      <3>1. PICK k \in N : k <= m - 1
        BY <2>1
      <3>2. m - 1 \in Nat
        BY <3>1, <1>1
      <3> QED BY <2>1, <3>2
    <2> QED BY <2>2, <1>1
  <1>3. \A k \in N : k <= m
    BY <1>1
  <1>4. \E n \in N : \A k \in N : k <= n
    BY <1>2, <1>3
  <1>5. Max(N) = CHOOSE n \in N : \A k \in N : n >= k
    BY DEF Max
  <1>6. \E n \in N : \A k \in N : n >= k
    BY <1>2, <1>3
  <1> QED BY <1>5, <1>6

\* Some number is above all those of the procedures.
LEMMA Bounded ==
  ASSUME NEW s \in Seq(Procedure)
  PROVE  \E b \in Nat : \A i \in DOMAIN s : s[i].idx <= b
  <1> DEFINE T == Procedure
             Q == {r \in Seq(T) : \E b \in Nat : \A i \in DOMAIN r : r[i].idx <= b}
  <1> HIDE DEF T
  <1>1. <<>> \in Q
    <2>1. <<>> \in Seq(T) /\ DOMAIN <<>> = {} /\ 0 \in Nat
      OBVIOUS
    <2>2. \A i \in DOMAIN <<>> : <<>>[i].idx <= 0
      BY <2>1
    <2> QED BY <2>1, <2>2
  <1>2. ASSUME NEW r \in Q, NEW e \in T PROVE Append(r, e) \in Q
    <2>1. PICK b \in Nat : \A i \in DOMAIN r : r[i].idx <= b
      OBVIOUS
    <2>2. e.idx \in Nat
      BY DEF T, Procedure
    <2>3. /\ Append(r, e) \in Seq(T) /\ DOMAIN Append(r, e) = 1 .. Len(r) + 1 /\ Len(r) \in Nat
          /\ Append(r, e)[Len(r) + 1] = e /\ DOMAIN r = 1 .. Len(r)
          /\ \A i \in 1 .. Len(r) : Append(r, e)[i] = r[i] /\ r[i] \in T
      OBVIOUS
    <2>4. \A i \in DOMAIN r : r[i].idx \in Nat
      BY <2>3 DEF T, Procedure
    <2>5. b + e.idx \in Nat
      BY <2>1, <2>2
    <2>6. ASSUME NEW i \in DOMAIN Append(r, e) PROVE Append(r, e)[i].idx <= b + e.idx
      <3>1. CASE i = Len(r) + 1
        <4>1. Append(r, e)[i].idx = e.idx
          BY <3>1, <2>3
        <4> QED BY <4>1, <2>1, <2>2
      <3>2. CASE i # Len(r) + 1
        <4>1. i \in DOMAIN r /\ Append(r, e)[i].idx = r[i].idx
          BY <3>2, <2>3
        <4>2. PICK x \in Nat : x = r[i].idx /\ x <= b
          BY <4>1, <2>1, <2>4
        <4> QED BY <4>1, <4>2, <2>1, <2>2
      <3> QED BY <3>1, <3>2
    <2> QED BY <2>3, <2>5, <2>6
  <1>3. Q = Seq(T)
    <2>1. Q \in SUBSET Seq(T)
      OBVIOUS
    <2> HIDE DEF Q
    <2> QED BY <2>1, <1>1, <1>2, SeqInduction
  <1>4. s \in Q
    BY <1>3 DEF T
  <1> QED BY <1>4

LEMMA ProcTableType ==
  ASSUME NEW e \in Entry
  PROVE  ProcTable(e) \in Seq(Nat)
  <1>1. PICK s \in Seq(Procedure) : s = e.proc_tmp
    BY DEF Entry
  <1>2. DOMAIN s = 1 .. Len(s) /\ Len(s) \in Nat /\ \A i \in DOMAIN s : s[i] \in Procedure
    BY <1>1, Elements
  <1>3. \A p \in Procedure : p.idx \in Nat /\ p.entry \in Nat
    BY DEF Procedure
  <1> DEFINE N == {0} \union {p.idx + 1 : p \in ToSet(s)}
             of(i) == SelectLastInSeq(s, LAMBDA p : p.idx = i - 1)
  <1>4. PICK n \in Nat : n = Max(N)
    <2>1. PICK b \in Nat : \A i \in DOMAIN s : s[i].idx <= b
      BY Bounded
    <2>2. \A p \in ToSet(s) : p.idx \in Nat /\ p.idx + 1 <= b + 1
      <3> TAKE p \in ToSet(s)
      <3>1. PICK i \in DOMAIN s : p = s[i]
        BY DEF ToSet
      <3>2. PICK x \in Nat : x = p.idx /\ x <= b
        BY <3>1, <2>1, <1>2, <1>3
      <3> QED BY <3>2, <2>1
    <2>3. N \in SUBSET Nat /\ N # {} /\ b + 1 \in Nat /\ \A k \in N : k <= b + 1
      BY <2>1, <2>2
    <2> HIDE DEF N
    <2>4. Max(N) \in N
      BY <2>3, MaxIs
    <2> QED BY <2>3, <2>4
  <1>5. ASSUME NEW i PROVE (IF of(i) = 0 THEN 0 ELSE s[of(i)].entry) \in Nat
    <2> DEFINE I == {k \in 1 .. Len(s) : s[k].idx = i - 1}
               j == IF I # {} THEN Max(I) ELSE 0
    <2>1. of(i) = j
      BY DEF SelectLastInSeq
    <2>2. CASE I = {}
      BY <2>1, <2>2
    <2>3. CASE I # {}
      <3>1. I \in SUBSET Nat /\ \A k \in I : k <= Len(s) /\ k \in DOMAIN s
        BY <1>2
      <3>2. Max(I) \in I
        <4> HIDE DEF I
        <4> QED BY <3>1, <2>3, <1>2, MaxIs
      <3>3. j \in DOMAIN s
        <4> HIDE DEF I
        <4> QED BY <3>1, <3>2, <2>3
      <3> HIDE DEF j, I
      <3>4. s[j].entry \in Nat
        BY <3>3, <1>2, <1>3
      <3> HIDE DEF of
      <3> QED BY <3>4, <2>1
    <2> QED BY <2>2, <2>3
  <1>6. PICK t : t = [i \in 1 .. n |-> IF of(i) = 0 THEN 0 ELSE s[of(i)].entry]
    OBVIOUS
  <1>7. t = [i \in 1 .. n |-> t[i]] /\ \A i \in 1 .. n : t[i] \in Nat
    <2> HIDE DEF of
    <2> QED BY <1>5, <1>6
  <1>8. t \in Seq(Nat)
    BY <1>7, ListOf, SMTT(30)
  <1>9. ProcTable(e) = t
    BY <1>1, <1>4, <1>6 DEF ProcTable
  <1> QED BY <1>8, <1>9

\* A module number fits in a byte.
LEMMA LinkedCode ==
  ASSUME NEW e \in Entry, \A loc \in Fixups(e) : Fixable(e, loc), NEW own \in Byte
  PROVE  [x \in DOMAIN e.code |-> IF x - 1 \notin Fixed(e) THEN e.code[x]
                                  ELSE IF x - 1 \in Own(e) THEN own ELSE Import(e, e.code[x])]
           \in Seq(Byte)
  <1>1. PICK code \in Seq(Byte) : code = e.code
    BY DEF Entry
  <1>2. PICK n \in Nat : n = Len(code) /\ DOMAIN code = 1 .. n /\ \A x \in 1 .. n : code[x] \in Byte
    BY Elements
  <1>3. PICK import \in Seq(1 .. ModTabMax) : import = e.import
    BY DEF Entry
  <1>4. /\ Len(import) \in Nat /\ DOMAIN import = 1 .. Len(import)
        /\ \A k \in 1 .. Len(import) : import[k] \in 1 .. ModTabMax
    BY Elements
  <1>5. 1 .. ModTabMax \subseteq Byte /\ Byte \subseteq Nat
    BY ModTabAssumption DEF Byte
  <1>6. PICK c : c = [x \in 1 .. n |-> IF x - 1 \notin Fixed(e) THEN code[x]
                                      ELSE IF x - 1 \in Own(e) THEN own ELSE Import(e, code[x])]
    OBVIOUS
  <1>7. ASSUME NEW x \in 1 .. n PROVE c[x] \in Byte
    <2>1. CASE x - 1 \notin Fixed(e) \/ x - 1 \in Own(e)
      BY <2>1, <1>2, <1>6
    <2>2. CASE x - 1 \in Fixed(e) /\ x - 1 \notin Own(e)
      <3>1. (x - 1) + 1 = x
        BY <1>2
      <3>2. Fixable(e, x - 1) /\ code[x] # 0 /\ code[x] <= Len(import)
        BY <3>1, <2>2, <1>1, <1>3 DEF Fixed, Own, Fixable
      <3>3. code[x] \in 1 .. Len(import)
        <4>1. code[x] \in Nat
          BY <1>2, <1>5
        <4> QED BY <4>1, <3>2, <1>4
      <3>4. c[x] = import[code[x]]
        BY <2>2, <1>3, <1>6 DEF Import
      <3> QED BY <3>3, <3>4, <1>4, <1>5
    <2> QED BY <2>1, <2>2
  <1>8. c = [x \in 1 .. n |-> c[x]]
    BY <1>6
  <1>9. c \in Seq(Byte)
    BY <1>7, <1>8, ListOf
  <1> QED BY <1>1, <1>2, <1>6, <1>9

LEMMA LinkedEntry ==
  ASSUME NEW e \in Entry, NEW c \in Seq(Byte), NEW p \in Seq(Nat),
         NEW f, f = [e EXCEPT !.code = c, !.proc = p, !.proc_tmp = <<>>]
  PROVE  f \in Entry /\ Alike(f, e)
  <1>1. PICK none \in Seq(Procedure) : none = <<>>
    <2>1. \A T : <<>> \in Seq(T)
      OBVIOUS
    <2> QED BY <2>1, Zenon
  <1>2. f = [e EXCEPT !.code = c, !.proc = p, !.proc_tmp = none]
    BY <1>1
  <1> QED BY <1>2 DEF Entry, Alike

LEMMA LinkInv ==
  ASSUME Inv, Link
  PROVE  Inv'
  <1>1. /\ mode = "fix" /\ mode' = "fix" /\ top < module_num /\ top' = top + 1
        /\ tab[top].loaded /\ \A loc \in Fixups(tab[top]) : Fixable(tab[top], loc)
        /\ UNCHANGED <<paths, data_top, dsh_mem, want, loads, file, mod, proc_section, complete>>
    BY DEF Link, reading
  <1>2. /\ tab \in Seq(Entry) /\ top \in 1 .. module_num
        /\ Len(tab) = Len(complete.tab) /\ data_top = complete.data_top
        /\ \A i \in DOMAIN tab : Alike(tab[i], complete.tab[i])
        /\ \A i \in 1 .. top - 1 : tab[i].loaded
    BY <1>1 DEF Inv, TypeOK, Between, Linkable
  <1>3. top \in DOMAIN tab /\ top \in Nat /\ DOMAIN tab = 1 .. Len(tab) /\ Len(tab) \in Nat
    BY <1>1, <1>2 DEF module_num
  <1>4. PICK e \in Entry : e = tab[top]
    BY <1>2, <1>3
  <1>5. PICK own \in Byte :
          tab' = [tab EXCEPT
                   ![top].code = [x \in DOMAIN @ |->
                      IF x - 1 \notin Fixed(e) THEN @[x]
                      ELSE IF x - 1 \in Own(e) THEN own ELSE Import(e, @[x])],
                   ![top].proc = ProcTable(e),
                   ![top].proc_tmp = <<>>]
    <2>1. PICK own \in (IF Own(e) = {} THEN {0} ELSE 0 .. ModTabMax) :
          tab' = [tab EXCEPT
                   ![top].code = [x \in DOMAIN @ |->
                      IF x - 1 \notin Fixed(e) THEN @[x]
                      ELSE IF x - 1 \in Own(e) THEN own ELSE Import(e, @[x])],
                   ![top].proc = ProcTable(e),
                   ![top].proc_tmp = <<>>]
      BY <1>4 DEF Link
    <2>2. own \in Byte
      <3>1. 0 \in Byte /\ 0 .. ModTabMax \subseteq Byte
        BY ModTabAssumption DEF Byte
      <3>2. own \in {0} \/ own \in 0 .. ModTabMax
        OBVIOUS
      <3> QED BY <3>1, <3>2
    <2> QED BY <2>1, <2>2
  <1>6. PICK c \in Seq(Byte) :
          c = [x \in DOMAIN e.code |-> IF x - 1 \notin Fixed(e) THEN e.code[x]
                                       ELSE IF x - 1 \in Own(e) THEN own ELSE Import(e, e.code[x])]
    BY <1>1, <1>4, LinkedCode
  <1>7. PICK p \in Seq(Nat) : p = ProcTable(e)
    BY ProcTableType
  <1>8. PICK f : f = [e EXCEPT !.code = c, !.proc = p, !.proc_tmp = <<>>]
    OBVIOUS
  <1>9. f \in Entry /\ Alike(f, e)
    BY <1>8, LinkedEntry
  <1>10. tab' \in Seq(Entry) /\ Len(tab') = Len(tab) /\ \A j \in DOMAIN tab : Alike(tab'[j], tab[j])
    <2>1. tab' = [tab EXCEPT ![top] = f]
      BY <1>4, <1>5, <1>6, <1>7, <1>8
    <2> QED BY <2>1, <1>2, <1>3, <1>4, <1>9, ChangeEntry
  <1>11. DOMAIN tab' = DOMAIN tab
    BY <1>10, <1>3
  <1>12. TypeOK'
    <2>1. top' \in 1 .. module_num /\ module_num' = module_num
      BY <1>1, <1>3, <1>10 DEF module_num
    <2> QED BY <2>1, <1>1, <1>10 DEF Inv, TypeOK, module_num
  <1>13. Consistent(complete.tab)' /\ paths' \in Setups
    <2>1. PICK t : t = complete.tab
      OBVIOUS
    <2>2. Consistent(t)' /\ complete'.tab = t
      BY <2>1, <1>1, ConsistentKept DEF Inv
    <2> QED BY <2>2, <1>1 DEF Inv, Consistent
  <1>14. InParse' /\ BootFirst'
    BY <1>1 DEF InParse, BootFirst
  <1>15. Between'
    BY <1>1, <1>2, <1>10, <1>11 DEF Between, Alike
  <1>16. Linkable'
    <2>1. ASSUME NEW i \in 1 .. top' - 1 PROVE tab'[i].loaded
      <3>1. i \in DOMAIN tab /\ (i \in 1 .. top - 1 \/ i = top)
        BY <1>1, <1>3
      <3> QED BY <3>1, <1>1, <1>2, <1>10 DEF Alike
    <2> QED BY <2>1, <1>1 DEF Linkable
  <1> QED BY <1>12, <1>13, <1>14, <1>15, <1>16 DEF Inv

-----------------------------------------------------------------------------
(* The invariant                                                           *)

LEMMA InitInv == Init => Inv
  <1> SUFFICES ASSUME Init PROVE Inv
    OBVIOUS
  <1>1. /\ paths \in Setups /\ tab = <<>> /\ data_top = 0 /\ dsh_mem = <<>> /\ mode = "load"
        /\ want = Boot /\ loads = <<>> /\ file = <<>> /\ mod = 0 /\ proc_section = TRUE /\ top = 1
        /\ complete = [tab |-> <<>>, data_top |-> 0]
    BY DEF Init
  <1>2. /\ <<>> \in Seq(Entry) /\ Len(<<>>) = 0 /\ DOMAIN <<>> = {} /\ 0 \in Nat
        /\ <<>> \in Seq(0 .. ModTabMax)
    OBVIOUS
  <1>3. TypeOK
    <2>1. want \in STRING /\ 0 + 1 <= ModTabMax /\ 1 \in 1 .. 0 + 1 /\ 0 \in 0 .. 0
      BY <1>1, SetupAssumption, ModTabAssumption
    <2> QED BY <2>1, <1>1, <1>2 DEF TypeOK, module_num
  <1>4. Consistent(complete.tab)
    BY <1>1, <1>2 DEF Consistent, Distinct
  <1>5. InParse /\ Between /\ BootFirst /\ Linkable
    BY <1>1 DEF InParse, Between, BootFirst, Linkable
  <1> QED BY <1>1, <1>3, <1>4, <1>5 DEF Inv

LEMMA StutterInv ==
  ASSUME Inv, UNCHANGED vars
  PROVE  Inv'
  <1>1. UNCHANGED <<paths, tab, data_top, dsh_mem, mode, want, loads, file, mod, proc_section, top,
                    complete>>
    BY DEF vars, reading
  <1>2. TypeOK'
    BY <1>1 DEF Inv, TypeOK, module_num
  <1>3. Consistent(complete.tab)' /\ paths' \in Setups
    <2>1. PICK t : t = complete.tab
      OBVIOUS
    <2>2. Consistent(t)' /\ complete'.tab = t
      BY <2>1, <1>1, ConsistentKept DEF Inv
    <2> QED BY <2>2, <1>1 DEF Inv, Consistent
  <1>4. InParse'
    <2>1. Found' = Found /\ Text' = Text /\ Module' = Module
      BY <1>1, SameFile
    <2>2. ASSUME NEW k, Progress(k) PROVE Progress(k)'
      <3>1. ModuleAt' = ModuleAt /\ ImportsAt' = ImportsAt
        BY <2>1 DEF ModuleAt, ImportsAt
      <3> QED BY <2>1, <2>2, <3>1, <1>1 DEF Progress
    <2> QED BY <2>1, <2>2, <1>1 DEF Inv, InParse
  <1>5. Between' /\ BootFirst' /\ Linkable'
    BY <1>1 DEF Inv, Between, BootFirst, Linkable, HasBoot
  <1> QED BY <1>2, <1>3, <1>4, <1>5 DEF Inv

LEMMA NextInv == Inv /\ [Next]_vars => Inv'
  <1> SUFFICES ASSUME Inv, [Next]_vars PROVE Inv'
    OBVIOUS
  <1>1. CASE Open
    BY <1>1, OpenInv
  <1>2. CASE NotFound
    BY <1>2, StoppedInv DEF NotFound
  <1>3. CASE ReadStart
    BY <1>3, ReadStartInv
  <1>4. CASE ReadModule
    BY <1>4, ReadModuleInv
  <1>5. CASE ReadImports
    BY <1>5, ReadImportsInv
  <1>6. CASE ReadData
    BY <1>6, ReadDataInv
  <1>7. CASE ReadEntries
    BY <1>7, ReadEntriesInv
  <1>8. CASE ReadCode
    BY <1>8, ReadCodeInv
  <1>9. CASE ReadRelocations
    BY <1>9, ReadRelocationsInv
  <1>10. CASE EndOfFile
    BY <1>10, EndOfFileInv
  <1>11. CASE Mismatch \/ Unreadable \/ LinkError \/ Unfixable
    <2>1. /\ mode' \in {"failed", "error", "mismatch", "unreadable", "unfixable"}
          /\ UNCHANGED <<paths, tab, data_top, dsh_mem, want, loads, reading, top, complete>>
      BY <1>11 DEF Mismatch, Unreadable, LinkError, Unfixable
    <2> QED BY <2>1, StoppedInv
  <1>12. CASE Scan
    BY <1>12, ScanInv
  <1>13. CASE ScanEnds
    BY <1>13, ScanEndsInv
  <1>14. CASE Link
    BY <1>14, LinkInv
  <1>15. CASE LinkEnds
    BY <1>15, LinkEndsInv
  <1>16. CASE UNCHANGED vars
    BY <1>16, StutterInv
  <1> QED BY <1>1, <1>2, <1>3, <1>4, <1>5, <1>6, <1>7, <1>8, <1>9, <1>10, <1>11, <1>12, <1>13,
             <1>14, <1>15, <1>16 DEF Next, Reading, Linking

\* Whatever sections come in whatever file, the table is what the modules read so far
\* say; each module has one entry, and a loaded one the imports of a file on the disk.
THEOREM Invariant == Spec => []Inv
  BY InitInv, NextInv, PTL DEF Spec

\* Whatever the directories hold, as long as each file was written for a module or was
\* cut off in the names: every table keeps its type, and no module number outgrows a byte.
THEOREM TypeCorrect == Spec => []TypeOK
  <1>1. Inv => TypeOK
    BY DEF Inv
  <1> QED BY <1>1, Invariant, PTL

-----------------------------------------------------------------------------
(* The loader of Programs                                                  *)

\* Where the loader of Programs is, and its calls in progress.
LoaderMode ==
  CASE mode \in {"parse", "unreadable"} -> "load"
    [] mode = "unfixable" -> "fix"
    [] mode = "failed" -> "done"
    [] mode = "mismatch" -> "error"
    [] OTHER -> mode
LoaderLoads == IF mode \in {"parse", "mismatch", "unreadable"} THEN Front(loads) ELSE loads

\* Table t, as the loader of Programs has it.
AsEntry(t, i, fixed) ==
  [name |-> t[i].name, key |-> t[i].key, loaded |-> t[i].loaded, fixed |-> fixed,
   ofs |-> t[i].data_ofs, size |-> t[i].data_sz, links |-> t[i].import, ids |-> IdsOf(t, i)]
AsTable(t, fixed) == [i \in DOMAIN t |-> AsEntry(t, i, fixed)]
LoaderTab == [i \in DOMAIN complete.tab |-> EntryOf(complete.tab, i)]

\* The table between files.
LEMMA LoaderTabIs ==
  ASSUME Inv
  PROVE  /\ complete.tab \in Seq(Entry) /\ LoaderTab = AsTable(complete.tab, mode = "start")
         /\ Len(LoaderTab) = Len(complete.tab) /\ DOMAIN LoaderTab = DOMAIN complete.tab
  <1>1. complete.tab \in Seq(Entry)
    BY DEF Inv, TypeOK
  <1>2. LoaderTab = AsTable(complete.tab, mode = "start")
    BY DEF LoaderTab, AsTable, EntryOf, AsEntry
  <1>3. DOMAIN LoaderTab = 1 .. Len(complete.tab) /\ Len(complete.tab) \in Nat
    BY <1>1 DEF LoaderTab
  <1>4. Len(LoaderTab) = Len(complete.tab)
    <2> HIDE DEF LoaderTab
    <2> QED BY <1>3
  <1> QED BY <1>1, <1>2, <1>3, <1>4

LEMMA TableKept ==
  ASSUME UNCHANGED <<paths, complete>>, mode = "start" <=> mode' = "start"
  PROVE  UNCHANGED <<DiskOf(paths), LoaderTab>>
  <1>1. UNCHANGED DiskOf(paths)
    BY DEF DiskOf, NamesIn, PrefixOf
  <1>2. UNCHANGED LoaderTab
    BY DEF LoaderTab, EntryOf, IdsOf
  <1> QED BY <1>1, <1>2

\* A step that the loader of Programs does not take.
LEMMA Unseen ==
  ASSUME UNCHANGED <<paths, want, complete, LoaderMode, LoaderLoads>>,
         mode = "start" <=> mode' = "start"
  PROVE  UNCHANGED Loader!vars
  <1>1. UNCHANGED <<DiskOf(paths), LoaderTab>>
    BY TableKept
  <1> QED BY <1>1 DEF Loader!vars, Loader!load, LoaderTab, LoaderMode, LoaderLoads

LEMMA InitRefines == Init => Loader!Init
  <1> SUFFICES ASSUME Init PROVE Loader!Init
    OBVIOUS
  <1>1. DiskOf(paths) \in {DiskOf(s) : s \in Setups}
    BY DEF Init
  <1>2. \A t : [i \in DOMAIN <<>> |-> EntryOf(<<>>, i)] = <<>>
    OBVIOUS
  <1> QED BY <1>1, <1>2 DEF Init, Loader!Init

LEMMA OpenUnseen ==
  ASSUME Inv, Open
  PROVE  UNCHANGED Loader!vars
  <1>1. mode = "load" /\ mode' = "parse" /\ UNCHANGED <<paths, want, complete>>
    BY DEF Open
  <1>2. PICK x \in 0 .. ModTabMax : loads' = Append(loads, x)
    <2>1. (module_num + 1) % (ModTabMax + 1) \in 0 .. ModTabMax
      BY ModTabAssumption DEF Inv, TypeOK, module_num
    <2> QED BY <2>1 DEF Open
  <1>3. Front(loads') = loads
    <2>1. loads \in Seq(0 .. ModTabMax)
      BY DEF Inv, TypeOK
    <2>2. PICK p \in Seq(0 .. ModTabMax) : p = Append(loads, x)
      <3>1. Append(loads, x) \in Seq(0 .. ModTabMax)
        BY <2>1
      <3> QED BY <3>1
    <2>3. p # <<>> /\ Len(p) = Len(loads) + 1 /\ \A i \in 1 .. Len(loads) : p[i] = loads[i]
      BY <2>1, <2>2
    <2>4. Front(p) \in Seq(0 .. ModTabMax) /\ Len(Front(p)) = Len(loads)
          /\ \A i \in 1 .. Len(loads) : Front(p)[i] = loads[i]
      BY <2>1, <2>3, FrontIs
    <2>5. Front(p) = loads
      BY <2>1, <2>4, SameSequence
    <2> QED BY <1>2, <2>2, <2>5
  <1>4. UNCHANGED <<LoaderMode, LoaderLoads>>
    BY <1>1, <1>3 DEF LoaderMode, LoaderLoads
  <1> QED BY <1>1, <1>4, Unseen

LEMMA ReadingUnseen ==
  ASSUME \/ ReadStart \/ ReadModule \/ ReadImports \/ ReadData \/ ReadEntries \/ ReadCode
         \/ ReadRelocations \/ Unreadable
  PROVE  UNCHANGED Loader!vars
  <1>1. mode = "parse" /\ mode' \in {"parse", "unreadable"}
    BY DEF ReadStart, ReadModule, ReadImports, ReadData, ReadEntries, ReadCode, ReadRelocations,
           Unreadable, Section
  <1>2. UNCHANGED <<paths, want, complete, loads>>
    BY DEF ReadStart, ReadModule, ReadImports, ReadData, ReadEntries, ReadCode, ReadRelocations,
           Unreadable
  <1>3. UNCHANGED <<LoaderMode, LoaderLoads>>
    BY <1>1, <1>2 DEF LoaderMode, LoaderLoads
  <1> QED BY <1>1, <1>2, <1>3, Unseen

LEMMA LinkingUnseen ==
  ASSUME Link \/ Unfixable \/ UNCHANGED vars
  PROVE  UNCHANGED Loader!vars
  <1>1. UNCHANGED <<paths, want, complete, loads>>
    BY DEF Link, Unfixable, vars
  <1>2. UNCHANGED mode \/ (mode = "fix" /\ mode' = "unfixable")
    <2>1. CASE Link
      BY <2>1 DEF Link
    <2>2. CASE Unfixable
      BY <2>2 DEF Unfixable
    <2>3. CASE UNCHANGED vars
      BY <2>3 DEF vars
    <2> QED BY <2>1, <2>2, <2>3
  <1>3. UNCHANGED <<LoaderMode, LoaderLoads>>
    BY <1>1, <1>2 DEF LoaderMode, LoaderLoads
  <1> QED BY <1>1, <1>2, <1>3, Unseen

LEMMA NotFoundRefines ==
  ASSUME Inv, NotFound
  PROVE  Loader!NotFound
  <1>1. /\ mode = "load" /\ mode' = "failed" /\ loads' = <<>>
        /\ UNCHANGED <<paths, want, complete>> /\ Search(paths, want, Prefix) = <<>>
    BY DEF NotFound
  <1>2. Prefix = PrefixOf(want)
    BY <1>1 DEF Prefix, PrefixOf, Inv, BootFirst
  <1>3. \A f \in DiskOf(paths) : f.file # want
    BY <1>1, <1>2 DEF DiskOf, Digest
  <1>4. UNCHANGED <<DiskOf(paths), LoaderTab>>
    BY <1>1, TableKept
  <1> QED BY <1>1, <1>3, <1>4 DEF Loader!NotFound, LoaderTab

LEMMA ScanRefines ==
  ASSUME Inv, Scan
  PROVE  Loader!Scan
  <1>1. /\ mode = "scan" /\ Last(loads) < module_num
        /\ UNCHANGED <<paths, tab, complete>>
        /\ loads' = [loads EXCEPT ![Len(loads)] = @ + 1]
        /\ IF Last(loads) = 0 \/ tab[Last(loads)].loaded THEN UNCHANGED <<mode, want>>
           ELSE mode' = "load" /\ want' = tab[Last(loads)].name
    BY DEF Scan
  <1>2. UNCHANGED <<DiskOf(paths), LoaderTab>>
    BY <1>1, TableKept
  <1>3. tab = complete.tab /\ loads # <<>> /\ loads \in Seq(0 .. ModTabMax)
    BY <1>1 DEF Inv, Between, BootFirst, TypeOK
  <1>4. Last(loads) \in Nat
    <2>1. Last(loads) \in 0 .. ModTabMax
      BY <1>3, FrontIs
    <2> QED BY <2>1
  <1>5. Last(loads) # 0 => Last(loads) \in DOMAIN complete.tab
    BY <1>1, <1>3, <1>4, LoaderTabIs DEF module_num
  <1>6. Last(loads) # 0 => /\ LoaderTab[Last(loads)].loaded = tab[Last(loads)].loaded
                           /\ LoaderTab[Last(loads)].name = tab[Last(loads)].name
    BY <1>3, <1>5 DEF LoaderTab, EntryOf
  <1>7. Last(loads) < Len(LoaderTab) + 1
    BY <1>1, <1>3, LoaderTabIs DEF module_num
  <1>8. /\ LoaderMode = "scan" /\ LoaderLoads = loads /\ LoaderLoads' = loads'
        /\ LoaderMode' = mode'
    BY <1>1 DEF LoaderMode, LoaderLoads
  <1> QED BY <1>1, <1>2, <1>6, <1>7, <1>8
      DEF Loader!Scan, Loader!MoreToLoad, Loader!module_num, LoaderTab, LoaderMode, LoaderLoads,
          Loader!Last, Last

LEMMA ScanEndsRefines ==
  ASSUME Inv, ScanEnds
  PROVE  Loader!ScanEnds
  <1>1. /\ mode = "scan" /\ Last(loads) >= module_num
        /\ UNCHANGED <<paths, tab, complete, want>>
        /\ loads' = Front(loads)
        /\ mode' = IF Len(loads) = 1 THEN "fix" ELSE "scan"
    BY DEF ScanEnds
  <1>2. UNCHANGED <<DiskOf(paths), LoaderTab>>
    BY <1>1, TableKept
  <1>3. tab = complete.tab /\ loads # <<>> /\ loads \in Seq(0 .. ModTabMax)
    BY <1>1 DEF Inv, Between, BootFirst, TypeOK
  <1>4. Last(loads) \in Nat /\ Len(tab) \in Nat
    <2>1. Last(loads) \in 0 .. ModTabMax
      BY <1>3, FrontIs
    <2> QED BY <2>1, <1>3, LoaderTabIs
  <1>5. ~ (Last(loads) < Len(LoaderTab) + 1)
    BY <1>1, <1>3, <1>4, LoaderTabIs DEF module_num
  <1> QED BY <1>1, <1>2, <1>5
      DEF Loader!ScanEnds, Loader!MoreToLoad, Loader!module_num, LoaderTab, Loader!Last, Last,
          Loader!Front, Front

LEMMA EntryFixed ==
  ASSUME NEW t, NEW i, NEW x, NEW y
  PROVE  [AsEntry(t, i, x) EXCEPT !.fixed = y] = AsEntry(t, i, y)
  BY DEF AsEntry

LEMMA LinkEndsRefines ==
  ASSUME Inv, LinkEnds
  PROVE  Loader!FixExtCalls
  <1>1. /\ mode = "fix" /\ top >= module_num /\ mode' = "start"
        /\ UNCHANGED <<paths, complete, want, loads>>
    BY DEF LinkEnds
  <1>2. UNCHANGED DiskOf(paths)
    BY <1>1 DEF DiskOf, NamesIn, PrefixOf
  <1>3. /\ top \in Nat /\ Len(tab) \in Nat /\ Len(tab) = Len(complete.tab)
        /\ tab \in Seq(Entry) /\ complete.tab \in Seq(Entry)
        /\ \A i \in DOMAIN tab : Alike(tab[i], complete.tab[i])
        /\ \A i \in 1 .. top - 1 : tab[i].loaded
    BY <1>1 DEF Inv, TypeOK, Between, Linkable
  <1>4. \A i \in DOMAIN LoaderTab : LoaderTab[i].loaded
    <2> SUFFICES ASSUME NEW i \in DOMAIN complete.tab PROVE complete.tab[i].loaded
      BY DEF LoaderTab, EntryOf
    <2>1. i \in DOMAIN tab /\ i \in 1 .. top - 1
      BY <1>1, <1>3 DEF module_num
    <2> QED BY <2>1, <1>3 DEF Alike
  <1>5. LoaderTab' = [i \in DOMAIN LoaderTab |-> [LoaderTab[i] EXCEPT !.fixed = TRUE]]
    <2>1. \A i \in DOMAIN complete.tab :
            EntryOf(complete.tab, i)' = [EntryOf(complete.tab, i) EXCEPT !.fixed = TRUE]
      <3> TAKE i \in DOMAIN complete.tab
      <3>1. UNCHANGED IdsOf(complete.tab, i)
        BY <1>1 DEF IdsOf
      <3>2. PICK no : no = FALSE
        OBVIOUS
      <3>3. PICK yes : yes = TRUE
        OBVIOUS
      <3>4. (mode = "start") = no /\ (mode' = "start") = yes
        BY <1>1, <3>2, <3>3
      <3>5. EntryOf(complete.tab, i) = AsEntry(complete.tab, i, no)
        BY <3>4, Zenon DEF EntryOf, AsEntry
      <3>6. EntryOf(complete.tab, i)' = AsEntry(complete.tab, i, yes)
        BY <3>1, <3>4, <1>1, Zenon DEF EntryOf, AsEntry
      <3>7. [AsEntry(complete.tab, i, no) EXCEPT !.fixed = yes] = AsEntry(complete.tab, i, yes)
        BY EntryFixed
      <3> QED BY <3>3, <3>5, <3>6, <3>7
    <2> QED BY <2>1, <1>1 DEF LoaderTab
  <1>6. \A i \in DOMAIN LoaderTab : i >= 1
    BY LoaderTabIs
  <1>7. LoaderTab' = [i \in DOMAIN LoaderTab |->
                       IF Loader!FixedNow(i) THEN [LoaderTab[i] EXCEPT !.fixed = TRUE]
                                             ELSE LoaderTab[i]]
    BY <1>5, <1>6 DEF Loader!FixedNow
  <1> QED BY <1>1, <1>2, <1>4, <1>7 DEF Loader!FixExtCalls, Loader!load, LoaderTab

LEMMA LinkErrorRefines ==
  ASSUME Inv, LinkError
  PROVE  Loader!FixError
  <1>1. /\ mode = "fix" /\ top < module_num /\ ~ tab[top].loaded /\ mode' = "error"
        /\ UNCHANGED <<paths, complete, want, loads>>
    BY DEF LinkError
  <1>2. UNCHANGED <<DiskOf(paths), LoaderTab>>
    BY <1>1, TableKept
  <1>3. /\ top \in 1 .. Len(tab) + 1 /\ Len(tab) \in Nat /\ Len(tab) = Len(complete.tab)
        /\ tab \in Seq(Entry) /\ complete.tab \in Seq(Entry)
        /\ \A i \in DOMAIN tab : Alike(tab[i], complete.tab[i])
    BY <1>1 DEF Inv, TypeOK, Between, module_num
  <1>4. top \in DOMAIN LoaderTab /\ top >= 1
    BY <1>1, <1>3, LoaderTabIs DEF module_num
  <1>5. ~ LoaderTab[top].loaded
    <2>1. top \in DOMAIN tab /\ top \in DOMAIN complete.tab
      BY <1>3, <1>4, LoaderTabIs
    <2>2. ~ complete.tab[top].loaded
      BY <2>1, <1>1, <1>3 DEF Alike
    <2> QED BY <2>1, <2>2 DEF LoaderTab, EntryOf
  <1> QED BY <1>1, <1>2, <1>4, <1>5 DEF Loader!FixError, Loader!load, LoaderTab

-----------------------------------------------------------------------------
(* What Programs makes of a file                                           *)

\* A list with e at the first entry of that name, or at the end, and then the elements of r.
Merged(l, name, e) ==
  IF Known(l, name) THEN [l EXCEPT ![IndexIn(l, name)] = e] ELSE Append(l, e)

LEMMA MergedIs ==
  ASSUME NEW T, NEW l \in Seq(T), NEW name, NEW e \in T, NEW r \in Seq(T)
  PROVE  LET i == IF Known(l, name) THEN IndexIn(l, name) ELSE Len(l) + 1
             w == IF Known(l, name) THEN Len(l) ELSE Len(l) + 1
             a == Merged(l, name, e)
         IN /\ w \in Nat /\ a \in Seq(T) /\ Len(a) = w /\ i \in 1 .. w /\ a[i] = e
            /\ \A j \in DOMAIN l : j \in 1 .. w /\ (j # i => a[j] = l[j])
            /\ \A j \in 1 .. w : j # i => j \in DOMAIN l
            /\ a \o r \in Seq(T) /\ Len(a \o r) = w + Len(r) /\ (a \o r)[i] = e
            /\ \A j \in DOMAIN l : j # i => (a \o r)[j] = l[j]
            /\ \A k \in DOMAIN r : (a \o r)[w + k] = r[k]
  <1> DEFINE i == IF Known(l, name) THEN IndexIn(l, name) ELSE Len(l) + 1
             w == IF Known(l, name) THEN Len(l) ELSE Len(l) + 1
             a == Merged(l, name, e)
  <1>1. /\ w \in Nat /\ a \in Seq(T) /\ Len(a) = w /\ i \in 1 .. w /\ a[i] = e
        /\ \A j \in DOMAIN l : j \in 1 .. w /\ (j # i => a[j] = l[j])
        /\ \A j \in 1 .. w : j # i => j \in DOMAIN l
    <2>1. CASE Known(l, name)
      <3>1. PICK k \in DOMAIN l : k = IndexIn(l, name)
        BY <2>1, IndexFound
      <3>2. a = [l EXCEPT ![k] = e] /\ i = k /\ w = Len(l)
        BY <2>1, <3>1 DEF Merged
      <3> HIDE DEF a, i, w
      <3> QED BY <3>1, <3>2
    <2>2. CASE ~ Known(l, name)
      <3>1. a = Append(l, e) /\ i = Len(l) + 1 /\ w = Len(l) + 1
        BY <2>2 DEF Merged
      <3> HIDE DEF a, i, w
      <3> QED BY <3>1
    <2> QED BY <2>1, <2>2
  <1> HIDE DEF a, i, w
  <1>2. /\ a \o r \in Seq(T) /\ Len(a \o r) = w + Len(r)
        /\ \A j \in 1 .. w : (a \o r)[j] = a[j]
        /\ \A k \in DOMAIN r : (a \o r)[w + k] = r[k]
    <2> HIDE <1>1
    <2>1. a \in Seq(T) /\ Len(a) = w /\ w \in Nat
      BY <1>1
    <2>2. a \o r \in Seq(T) /\ Len(a \o r) = w + Len(r)
      BY <2>1
    <2>3. \A j \in 1 .. w : (a \o r)[j] = a[j]
      BY <2>1
    <2>4. ASSUME NEW k \in DOMAIN r PROVE (a \o r)[w + k] = r[k]
      <3>1. k \in 1 .. Len(r) /\ Len(r) \in Nat /\ k + w = w + k
        BY <2>1
      <3>2. w + k \in 1 .. Len(a) + Len(r) /\ w + k > Len(a) /\ w + k - Len(a) = k
        BY <2>1, <3>1
      <3> QED BY <2>1, <3>1, <3>2
    <2> QED BY <2>2, <2>3, <2>4
  <1> QED BY <1>1, <1>2 DEF a, i, w

\* Programs says the same with its own operators.
LEMMA LoaderNames ==
  ASSUME NEW l, NEW name
  PROVE  /\ name \in Loader!Names(l) <=> Known(l, name)
         /\ Loader!IndexIn(l, name) = IndexIn(l, name)
  BY DEF Loader!Names, Loader!IndexIn, Known, IndexIn

LEMMA LoaderOnly ==
  ASSUME NEW s, NEW S
  PROVE  Loader!Only(s, S) = Only(s, S)
  BY DEF Loader!Only, Loader!Kept, Only, Kept

LEMMA LoaderOwn ==
  ASSUME NEW f
  PROVE  Loader!WithOwn(f) = Merged(LoaderTab, f.name, Loader!Loaded(f))
  BY LoaderNames DEF Loader!WithOwn, Merged, LoaderTab

LEMMA LoaderTable ==
  ASSUME Inv, mode = "parse"
  PROVE  /\ Distinct(LoaderTab)
         /\ \A name : Known(LoaderTab, name) <=> Known(complete.tab, name)
         /\ \A name : Known(complete.tab, name) =>
                       IndexIn(LoaderTab, name) = IndexIn(complete.tab, name)
         /\ \A i \in DOMAIN complete.tab : LoaderTab[i] = AsEntry(complete.tab, i, FALSE)
  <1>1. DOMAIN LoaderTab = DOMAIN complete.tab /\ LoaderTab = AsTable(complete.tab, mode = "start")
    BY LoaderTabIs
  <1>2. LoaderTab = AsTable(complete.tab, FALSE)
    <2>1. (mode = "start") = FALSE
      OBVIOUS
    <2> QED BY <1>1, <2>1, Zenon
  <1>3. \A i \in DOMAIN complete.tab : LoaderTab[i] = AsEntry(complete.tab, i, FALSE)
    BY <1>2 DEF AsTable
  <1>4. PICK t : t = complete.tab
    OBVIOUS
  <1>5. PICK l : l = LoaderTab
    OBVIOUS
  <1>6. DOMAIN l = DOMAIN t /\ \A i \in DOMAIN t : l[i].name = t[i].name
    <2>1. \A T, i, x : AsEntry(T, i, x).name = T[i].name
      BY DEF AsEntry
    <2>2. DOMAIN l = DOMAIN t /\ \A i \in DOMAIN t : l[i] = AsEntry(t, i, FALSE)
      BY <1>1, <1>3, <1>4, <1>5
    <2>3. ASSUME NEW i \in DOMAIN t PROVE l[i].name = t[i].name
      <3>1. l[i] = AsEntry(t, i, FALSE)
        BY <2>2
      <3>2. AsEntry(t, i, FALSE).name = t[i].name
        BY <2>1, Zenon
      <3> QED BY <3>1, <3>2, Zenon
    <2> QED BY <2>2, <2>3
  <1>7. Distinct(t)
    BY <1>4 DEF Inv, Consistent
  <1>8. Distinct(l) /\ \A name : Known(l, name) <=> Known(t, name)
    BY <1>6, <1>7 DEF Distinct, Known
  <1>9. ASSUME NEW name, Known(t, name) PROVE IndexIn(l, name) = IndexIn(t, name)
    <2>1. PICK i \in DOMAIN t : t[i].name = name
      BY <1>9 DEF Known
    <2>2. IndexIn(t, name) = i
      BY <2>1, <1>7, IndexOf
    <2>3. IndexIn(l, name) = i
      <3>1. i \in DOMAIN l /\ l[i].name = name
        BY <2>1, <1>6
      <3> QED BY <3>1, <1>8, IndexOf
    <2> QED BY <2>2, <2>3
  <1> QED BY <1>3, <1>4, <1>5, <1>8, <1>9

\* The imports that get an entry.
LEMMA LoaderFresh ==
  ASSUME Inv, mode = "parse", NEW f, f = Digest(Module, want)
  PROVE  Loader!Only(f.imports, {id \in Loader!Id : id.name \notin Loader!Names(Loader!WithOwn(f))})
           = Fresh(complete.tab, Module, Module.imports)
  <1>1. /\ paths \in Setups /\ Found # <<>>
    BY DEF Inv, InParse
  <1>2. IsModule(Module) /\ f \in DiskOf(paths) /\ f.imports = Module.imports /\ f.name = Module.name
    BY <1>1, FileIs DEF Digest
  <1>3. PICK ids \in Seq(ModId) : ids = Module.imports
    BY <1>2, ModuleIs
  <1>4. PICK o : o = Loader!WithOwn(f)
    OBVIOUS
  <1>5. PICK t : t = complete.tab
    OBVIOUS
  <1>6. PICK name : name = Module.name
    OBVIOUS
  <1> DEFINE S == {id \in Loader!Id : id.name \notin Loader!Names(Loader!WithOwn(f))}
             R == {id \in ModId : ~ Known(t, id.name) /\ id.name # name}
  <1>7. ASSUME NEW n PROVE n \in Loader!Names(Loader!WithOwn(f)) <=> Known(t, n) \/ n = name
    <2>1. PICK l : l = LoaderTab
      OBVIOUS
    <2>2. PICK e : e = Loader!Loaded(f)
      OBVIOUS
    <2>3. o = Merged(l, name, e) /\ e.name = name
      <3>1. Loader!Loaded(f).name = f.name
        BY DEF Loader!Loaded
      <3> QED BY <3>1, <2>1, <2>2, <1>2, <1>4, <1>6, LoaderOwn
    <2>4. PICK T : l \in Seq(T) /\ e \in T
      <3>1. DOMAIN l = 1 .. Len(complete.tab) /\ Len(complete.tab) \in Nat /\ l = [i \in 1 .. Len(complete.tab) |-> l[i]]
        BY <2>1, LoaderTabIs DEF AsTable
      <3>2. PICK T : T = {l[i] : i \in DOMAIN l} \union {e}
        OBVIOUS
      <3>3. \A i \in 1 .. Len(complete.tab) : l[i] \in T
        BY <3>1, <3>2
      <3>4. l \in Seq(T)
        BY <3>1, <3>3, ListOf
      <3> QED BY <3>2, <3>4
    <2>5. Known(o, n) <=> Known(l, n) \/ n = name
      <3> DEFINE i == IF Known(l, name) THEN IndexIn(l, name) ELSE Len(l) + 1
                 w == IF Known(l, name) THEN Len(l) ELSE Len(l) + 1
      <3>1. /\ w \in Nat /\ o \in Seq(T) /\ Len(o) = w /\ i \in 1 .. w /\ o[i] = e
            /\ \A j \in DOMAIN l : j \in 1 .. w /\ (j # i => o[j] = l[j])
            /\ \A j \in 1 .. w : j # i => j \in DOMAIN l
        <4>1. PICK r : r = <<>> /\ r \in Seq(T)
          <5>1. \A U : <<>> \in Seq(U)
            OBVIOUS
          <5> QED BY <5>1, Zenon
        <4> QED BY <4>1, <2>3, <2>4, MergedIs
      <3>2. i \in DOMAIN l => l[i].name = name
        <4>1. CASE Known(l, name)
          BY <4>1, IndexFound
        <4>2. CASE ~ Known(l, name)
          BY <4>2, <2>4
        <4> QED BY <4>1, <4>2
      <3>3. DOMAIN o = 1 .. w
        BY <3>1
      <3> HIDE DEF i, w
      <3>4. ASSUME Known(o, n) PROVE Known(l, n) \/ n = name
        <4>1. PICK j \in 1 .. w : o[j].name = n
          BY <3>3, <3>4 DEF Known
        <4> QED BY <4>1, <3>1, <2>3 DEF Known
      <3>5. ASSUME Known(l, n) \/ n = name PROVE Known(o, n)
        <4>1. CASE n = name
          BY <4>1, <3>1, <3>3, <2>3 DEF Known
        <4>2. CASE Known(l, n)
          <5>1. PICK j \in DOMAIN l : l[j].name = n
            BY <4>2 DEF Known
          <5>2. CASE j = i
            BY <5>1, <5>2, <3>2, <4>1
          <5>3. CASE j # i
            BY <5>1, <5>3, <3>1, <3>3 DEF Known
          <5> QED BY <5>2, <5>3
        <4> QED BY <4>1, <4>2, <3>5
      <3> QED BY <3>4, <3>5
    <2>6. Known(l, n) <=> Known(t, n)
      BY <2>1, <1>5, LoaderTable
    <2> QED BY <2>5, <2>6, <1>4, LoaderNames
  <1>8. ASSUME NEW id \in ToSet(ids) PROVE id \in Loader!Id /\ id \in ModId
    <2>1. id \in ModId
      BY <1>3 DEF ToSet
    <2>2. f \in UNION {DiskOf(s) : s \in Setups}
      BY <1>1, <1>2
    <2>3. id \in ToSet(f.imports)
      BY <1>2, <1>3
    <2>4. id = [name |-> id.name, key |-> id.key]
      BY <2>1 DEF ModId
    <2>5. id \in Loader!Id
      <3>1. Loader!ToSet(f.imports) = ToSet(f.imports)
        BY DEF Loader!ToSet, ToSet
      <3> QED BY <2>2, <2>3, <2>4, <3>1 DEF Loader!Id
    <2> QED BY <2>1, <2>5
  <1>9. S \intersect ToSet(ids) = R \intersect ToSet(ids)
    BY <1>7, <1>8
  <1>10. Only(ids, S) = Only(ids, R)
    <2> HIDE DEF S, R
    <2> QED BY <1>9, OnlySame
  <1>11. Loader!Only(ids, S) = Only(ids, S)
    BY LoaderOnly
  <1> QED BY <1>2, <1>3, <1>5, <1>6, <1>10, <1>11 DEF Fresh

\* The table of Programs with the module and an entry for all it imports.
LEMMA LoaderImports ==
  ASSUME Inv, mode = "parse", NEW f, f = Digest(Module, want)
  PROVE  LET t == complete.tab
             i == Place(t, Module)
             w == Width(t, Module)
             fresh == Fresh(t, Module, Module.imports)
             all == Loader!WithImports(f)
         IN /\ w \in Nat /\ i \in 1 .. w /\ Len(fresh) \in Nat
            /\ DOMAIN all = 1 .. w + Len(fresh) /\ all[i] = Loader!Loaded(f)
            /\ \A j \in DOMAIN t : j # i => all[j] = LoaderTab[j]
            /\ \A k \in DOMAIN fresh : all[w + k] = Loader!Missing(fresh[k])
  <1>1. PICK l : l = LoaderTab
    OBVIOUS
  <1>2. PICK e : e = Loader!Loaded(f)
    OBVIOUS
  <1>3. PICK name : name = f.name
    OBVIOUS
  <1>4. PICK fresh : fresh = Fresh(complete.tab, Module, Module.imports)
    OBVIOUS
  <1>5. PICK r : r = [k \in DOMAIN fresh |-> Loader!Missing(fresh[k])]
    OBVIOUS
  <1>6. Loader!WithImports(f) = Merged(l, name, e) \o r
    BY <1>1, <1>2, <1>3, <1>4, <1>5, LoaderFresh, LoaderOwn DEF Loader!WithImports
  <1>7. fresh \in Seq(ModId) /\ Len(fresh) \in Nat /\ DOMAIN fresh = 1 .. Len(fresh)
    <2>1. IsModule(Module)
      BY FileIs DEF Inv, InParse
    <2>2. Module.imports \in Seq(ModId)
      BY <2>1, ModuleIs
    <2>3. fresh \in Seq(ModId)
      BY <2>2, <1>4, OnlyType DEF Fresh
    <2> QED BY <2>3
  <1>8. PICK T : l \in Seq(T) /\ e \in T /\ r \in Seq(T)
    <2>1. PICK n \in Nat : n = Len(complete.tab) /\ DOMAIN l = 1 .. n /\ l = [i \in 1 .. n |-> l[i]]
      BY <1>1, LoaderTabIs DEF AsTable
    <2>2. PICK T : T = {l[i] : i \in DOMAIN l} \union {e} \union {r[i] : i \in DOMAIN r}
      OBVIOUS
    <2>3. l \in Seq(T)
      <3>1. \A i \in 1 .. n : l[i] \in T
        BY <2>1, <2>2
      <3>2. n \in Int /\ l = [i \in 1 .. n |-> l[i]]
        BY <2>1
      <3> QED BY <3>1, <3>2, ListOf
    <2>4. r \in Seq(T)
      <3>1. PICK q \in Nat : q = Len(fresh) /\ DOMAIN r = 1 .. q /\ r = [i \in 1 .. q |-> r[i]]
        BY <1>5, <1>7
      <3>2. \A i \in 1 .. q : r[i] \in T
        BY <3>1, <2>2
      <3> QED BY <3>1, <3>2, ListOf
    <2> QED BY <2>2, <2>3, <2>4
  <1>9. PICK t : t = complete.tab
    OBVIOUS
  <1>10. /\ Place(t, Module) = IF Known(l, name) THEN IndexIn(l, name) ELSE Len(l) + 1
         /\ Width(t, Module) = IF Known(l, name) THEN Len(l) ELSE Len(l) + 1
         /\ DOMAIN t = DOMAIN l
    <2>1. name = Module.name
      BY <1>3 DEF Digest
    <2>2. Len(l) = Len(t) /\ DOMAIN t = DOMAIN l
      BY <1>1, <1>9, LoaderTabIs
    <2>3. /\ Known(l, name) <=> Known(t, name)
          /\ Known(t, name) => IndexIn(l, name) = IndexIn(t, name)
      BY <1>1, <1>9, LoaderTable
    <2> QED BY <2>1, <2>2, <2>3 DEF Place, Width
  <1>11. PICK i, w :
           /\ i = (IF Known(l, name) THEN IndexIn(l, name) ELSE Len(l) + 1)
           /\ w = (IF Known(l, name) THEN Len(l) ELSE Len(l) + 1)
    OBVIOUS
  <1>12. PICK a : a = Merged(l, name, e) \o r
    OBVIOUS
  <1>13. /\ w \in Nat /\ i \in 1 .. w
         /\ a \in Seq(T) /\ Len(a) = w + Len(r) /\ a[i] = e
         /\ \A j \in DOMAIN l : j # i => a[j] = l[j]
         /\ \A k \in DOMAIN r : a[w + k] = r[k]
    BY <1>8, <1>11, <1>12, MergedIs
  <1>14. Len(r) = Len(fresh) /\ DOMAIN r = DOMAIN fresh
    BY <1>5, <1>7, <1>8
  <1>15. DOMAIN a = 1 .. w + Len(fresh)
    BY <1>13, <1>14
  <1>16. \A k \in DOMAIN fresh : a[w + k] = Loader!Missing(fresh[k])
    BY <1>5, <1>13, <1>14
  <1>17. i = Place(t, Module) /\ w = Width(t, Module) /\ a = Loader!WithImports(f)
    BY <1>6, <1>10, <1>11, <1>12
  <1> QED BY <1>1, <1>2, <1>4, <1>7, <1>9, <1>10, <1>13, <1>15, <1>16, <1>17

\* How long the table of Programs gets.
LEMMA LoaderLength ==
  ASSUME Inv, mode = "parse", NEW f, f = Digest(Module, want)
  PROVE  Len(Loader!WithModule(f))
           = Width(complete.tab, Module) + Len(Fresh(complete.tab, Module, Module.imports))
  <1>1. PICK all : all = Loader!WithImports(f)
    OBVIOUS
  <1>2. PICK n \in Nat : n = Width(complete.tab, Module)
                             + Len(Fresh(complete.tab, Module, Module.imports))
    BY LoaderImports
  <1>3. DOMAIN all = 1 .. n
    BY <1>1, <1>2, LoaderImports
  <1>4. PICK b : b = Loader!WithModule(f)
    OBVIOUS
  <1>5. DOMAIN b = 1 .. n
    BY <1>1, <1>3, <1>4 DEF Loader!WithModule
  <1> QED BY <1>2, <1>4, <1>5

\* What the parser reports is what Programs reports for the whole file.
LEMMA MismatchIs ==
  ASSUME Inv, Mismatch
  PROVE  LET t == complete.tab
         IN \/ \E id \in {Id(Module)} \union ToSet(Module.imports) : \E i \in DOMAIN t :
                 t[i].name = id.name /\ t[i].key # id.key
            \/ Width(t, Module) + Len(Fresh(t, Module, Module.imports)) >= ModTabMax
  <1>1. mode = "parse" /\ Word(1) # 65535
    BY DEF Mismatch, Section
  <1>2. /\ \E k \in 0 .. Len(Text) : Progress(k) /\ NextIs(k, Text[k + 1])
        /\ paths \in Setups /\ Found # <<>> /\ IsModule(Module)
        /\ ModuleAt \in {1, 2} /\ Len(Text) \in Nat
        /\ IF Module.imports = <<>> THEN ImportsAt = ModuleAt ELSE ImportsAt = ModuleAt + 1
        /\ tab \in Seq(Entry) /\ complete.tab \in Seq(Entry)
    BY <1>1, InFile
  <1>3. PICK k \in 0 .. Len(Text) : Progress(k) /\ NextIs(k, Text[k + 1])
    BY <1>2
  <1>4. PICK t \in Seq(Entry) : t = complete.tab
    BY <1>2
  <1>5. PICK m : m = Module
    OBVIOUS
  <1>6. PICK fresh \in Seq(ModId) : fresh = Fresh(t, m, m.imports)
    <2>1. m.imports \in Seq(ModId)
      BY <1>2, <1>5, ModuleIs
    <2> QED BY <2>1, OnlyType DEF Fresh
  <1>7. IsModule(m) /\ Id(m) \in ModId /\ Id(m).name = m.name
    BY <1>2, <1>5, ModuleIs
  <1>8. Width(t, m) \in Nat /\ Len(fresh) \in Nat /\ ModTabMax \in Nat
    BY ModTabAssumption DEF Width
  <1> DEFINE Clash(id) == \E i \in DOMAIN t : t[i].name = id.name /\ t[i].key # id.key
  <1>9. CASE Word(1) = \o201
    <2>1. Has("id", 2, 1) /\ Refused(tab, Values(2, 1))
      BY <1>9 DEF Mismatch, Section
    <2>2. k + 1 = ModuleAt /\ AtModule(Text[k + 1], Module)
      BY <1>9, <2>1, <1>3 DEF NextIs, SectionIs, AtStart, AtImports, AtOther, AtFault
    <2>3. tab = t
      <3>1. k < ModuleAt
        BY <2>2, <1>2
      <3> QED BY <3>1, <1>3, <1>4 DEF Progress
    <2>4. Values(2, 1) = <<Id(m)>>
      BY <2>2, <1>5 DEF AtModule, Values
    <2>5. Refused(t, <<Id(m)>>)
      BY <2>1, <2>3, <2>4
    <2>6. \A id : id \in ToSet(<<Id(m)>>) => id = Id(m)
      BY DEF ToSet
    <2>7. WithAll(t, <<Id(m)>>) = With(t, Id(m))
      BY <1>7, WithOne
    <2>8. Len(With(t, Id(m))) = Width(t, m)
      BY <1>7, WithType DEF With, Width
    <2>9. Clash(Id(m)) \/ Width(t, m) >= ModTabMax
      BY <2>5, <2>6, <2>7, <2>8 DEF Refused
    <2> QED BY <2>9, <1>4, <1>5, <1>6, <1>8
  <1>10. CASE Word(1) = \o202
    <2>1. Has("id", 2, ImportNum) /\ Refused(tab, Values(2, ImportNum))
      BY <1>10 DEF Mismatch, Section
    <2>2. k = ModuleAt /\ k + 1 = ImportsAt /\ AtImports(Text[k + 1], Module)
      BY <1>10, <2>1, <1>3 DEF NextIs, SectionIs, AtStart, AtModule, AtOther, AtFault
    <2>3. Staged(t, m, <<>>, complete.data_top, tab)
      <3>1. k >= ModuleAt /\ k < ImportsAt
        BY <2>2, <1>2
      <3> QED BY <3>1, <1>3, <1>4, <1>5 DEF Progress
    <2>4. PICK u \in Seq(Entry) : u = tab
      BY <1>2
    <2>5. PICK base : base = complete.data_top
      OBVIOUS
    <2>6. PICK ids \in Seq(ModId) : ids = m.imports /\ \A j \in DOMAIN ids : ids[j].name # m.name
      BY <1>7, ModuleIs
    <2>7. Staged(t, m, <<>>, base, u) /\ Refused(u, ids)
      BY <2>1, <2>2, <2>3, <2>4, <2>5, <2>6, <1>5 DEF AtImports
    <2>8. Len(WithAll(u, ids)) = Width(t, m) + Len(fresh) /\ Len(u) = Width(t, m)
      BY <2>6, <2>7, <1>6, <1>7, StagedWith
    <2>9. ASSUME NEW id \in ToSet(ids), NEW i \in DOMAIN u, u[i].name = id.name, u[i].key # id.key
          PROVE  Clash(id)
      <3>1. id.name # m.name
        BY <2>6 DEF ToSet
      <3>2. /\ \A j \in DOMAIN u : (j \in DOMAIN t /\ j # Place(t, m)) \/ j = Place(t, m)
            /\ \A j \in DOMAIN t : j \in DOMAIN u /\ u[j].name = t[j].name /\ u[j].key = t[j].key
        BY <2>7, <1>7, StagedOnly
      <3>3. u[Place(t, m)].name = m.name
        BY <2>7 DEF Staged
      <3>4. i \in DOMAIN t
        BY <2>9, <3>1, <3>2, <3>3
      <3> QED BY <3>2, <3>4, <2>9
    <2>10. (\E id \in ToSet(ids) : Clash(id)) \/ Width(t, m) + Len(fresh) >= ModTabMax
      BY <2>7, <2>8, <2>9 DEF Refused
    <2> QED BY <2>6, <2>10, <1>4, <1>5, <1>6
  <1> QED BY <1>9, <1>10 DEF Mismatch, Section

LEMMA MismatchRefines ==
  ASSUME Inv, Mismatch
  PROVE  Loader!ParseError
  <1>1. mode = "parse" /\ mode' = "mismatch" /\ UNCHANGED <<paths, complete, want, loads>>
    BY DEF Mismatch, Section
  <1>2. UNCHANGED <<DiskOf(paths), LoaderTab>>
    BY <1>1, TableKept
  <1>3. PICK f \in DiskOf(paths) : f = Digest(Module, want)
    BY FileIs, <1>1 DEF Inv, InParse
  <1>4. /\ f.file = want /\ f.name = Module.name /\ f.key = Module.key
        /\ f.imports = Module.imports
    BY <1>3 DEF Digest
  <1>5. Loader!Ids(f) = {Id(Module)} \union ToSet(Module.imports)
    BY <1>4 DEF Loader!Ids, Id, Loader!ToSet, ToSet
  <1>6. DOMAIN LoaderTab = DOMAIN complete.tab
        /\ \A i \in DOMAIN complete.tab : /\ LoaderTab[i].name = complete.tab[i].name
                                          /\ LoaderTab[i].key = complete.tab[i].key
    BY LoaderTabIs DEF LoaderTab, EntryOf
  <1>7. \A id : (\E i \in DOMAIN complete.tab :
                  complete.tab[i].name = id.name /\ complete.tab[i].key # id.key)
               <=> Loader!Clash(id)
    BY <1>6 DEF Loader!Clash, LoaderTab
  <1>8. (\E id \in Loader!Ids(f) : Loader!Clash(id)) \/ Len(Loader!WithModule(f)) >= ModTabMax
    BY <1>1, <1>3, <1>5, <1>7, MismatchIs, LoaderLength
  <1> QED BY <1>1, <1>2, <1>3, <1>4, <1>8 DEF Loader!ParseError, Loader!load, LoaderTab

-----------------------------------------------------------------------------
(* The end of a file                                                       *)

\* Table u is t after a file of m was read to its end.
WasRead(t, m, base, u) ==
  /\ t \in Seq(Entry) /\ Consistent(t) /\ IsModule(m)
  /\ u \in Seq(Entry) /\ Distinct(u)
  /\ Staged(t, m, m.imports, base, u) /\ Imported(u, Place(t, m), m.imports)

\* What is in a file that was read to its end clashes with nothing.
LEMMA NoClash ==
  ASSUME NEW t, NEW m, NEW base, NEW u, WasRead(t, m, base, u),
         NEW i \in DOMAIN t, NEW id \in {Id(m)} \union ToSet(m.imports), t[i].name = id.name
  PROVE  t[i].key = id.key
  <1> /\ t \in Seq(Entry) /\ Consistent(t) /\ IsModule(m)
      /\ u \in Seq(Entry) /\ Distinct(u)
      /\ Staged(t, m, m.imports, base, u) /\ Imported(u, Place(t, m), m.imports)
    BY DEF WasRead
  <1>1. PICK p : p = Place(t, m)
    OBVIOUS
  <1>2. PICK ids \in Seq(ModId) : ids = m.imports /\ \A j \in DOMAIN ids : ids[j].name # m.name
    BY ModuleIs
  <1>3. i \in DOMAIN u /\ u[i].name = t[i].name /\ u[i].key = t[i].key
    <2>1. Staged(t, m, ids, base, u)
      BY <1>2
    <2> QED BY <2>1, StagedNames
  <1>4. u[p].name = m.name /\ u[p].key = m.key /\ p \in DOMAIN u
    <2>1. p \in DOMAIN u
      <3>1. Staged(t, m, ids, base, u)
        BY <1>2
      <3> QED BY <3>1, <1>1, Places
    <2> QED BY <2>1, <1>1 DEF Staged
  <1>5. CASE id = Id(m)
    <2>1. id.name = m.name /\ id.key = m.key
      BY <1>5, ModuleIs
    <2>2. i = p
      BY <2>1, <1>3, <1>4 DEF Distinct
    <2> QED BY <2>1, <2>2, <1>3, <1>4
  <1>6. CASE id \in ToSet(m.imports)
    <2>1. PICK k \in DOMAIN ids : id = ids[k]
      BY <1>2, <1>6 DEF ToSet
    <2>2. PICK j \in DOMAIN u : u[j].name = id.name /\ u[j].key = id.key
      BY <2>1, <1>1, <1>2 DEF Imported
    <2>3. i = j
      BY <2>2, <1>3 DEF Distinct
    <2> QED BY <2>2, <2>3, <1>3
  <1> QED BY <1>5, <1>6

\* TRUE and FALSE under a name: as values of a record, they are not told from formulas.
IsTrue(yes) == yes = TRUE
IsFalse(no) == no = FALSE

\* The entry that Programs gives m.
OwnRecord(m, base, yes, no, links) ==
  [name |-> m.name, key |-> m.key, loaded |-> yes, fixed |-> no, ofs |-> base,
   size |-> m.globals + Len(m.strings), links |-> links, ids |-> m.imports]
NewRecord(id, no) ==
  [name |-> id.name, key |-> id.key, loaded |-> no, fixed |-> no, ofs |-> 0, size |-> 0,
   links |-> <<>>, ids |-> <<>>]

LEMMA OwnLinked ==
  ASSUME NEW m, NEW base, NEW yes, NEW no, NEW links, NEW more
  PROVE  [OwnRecord(m, base, yes, no, links) EXCEPT !.links = more]
           = OwnRecord(m, base, yes, no, more)
  BY DEF OwnRecord

\* The entry of an old module, of m, and of one that is new.
LEMMA OldAsEntry ==
  ASSUME NEW t, NEW m, NEW base, NEW u, WasRead(t, m, base, u), NEW no,
         NEW j \in DOMAIN t, j # Place(t, m)
  PROVE  AsEntry(u, j, no) = AsEntry(t, j, no)
  <1> /\ t \in Seq(Entry) /\ Consistent(t) /\ IsModule(m)
      /\ u \in Seq(Entry) /\ Distinct(u)
      /\ Staged(t, m, m.imports, base, u) /\ Imported(u, Place(t, m), m.imports)
    BY DEF WasRead
  <1>1. /\ u[j].name = t[j].name /\ u[j].key = t[j].key /\ u[j].loaded = t[j].loaded
        /\ u[j].data_ofs = t[j].data_ofs /\ u[j].data_sz = t[j].data_sz
        /\ u[j].import = t[j].import
    BY DEF Staged, Alike
  <1>2. \A k \in DOMAIN t[j].import : t[j].import[k] \in DOMAIN t
    <2>1. CASE t[j].loaded
      <3>1. PICK f \in DiskOf(paths) : Imported(t, j, f.imports)
        BY <2>1 DEF Consistent
      <3> QED BY <3>1 DEF Imported
    <2>2. CASE ~ t[j].loaded
      BY <2>2 DEF Consistent
    <2> QED BY <2>1, <2>2
  <1>3. \A q \in DOMAIN t : u[q].name = t[q].name /\ u[q].key = t[q].key
    <2>1. PICK ids \in Seq(ModId) : ids = m.imports
      BY ModuleIs
    <2>2. Staged(t, m, ids, base, u)
      BY <2>1
    <2> QED BY <2>2, StagedNames
  <1>4. IdsOf(u, j) = IdsOf(t, j)
    BY <1>1, <1>2, <1>3 DEF IdsOf
  <1> QED BY <1>1, <1>4, Zenon DEF AsEntry

LEMMA OwnAsEntry ==
  ASSUME NEW t, NEW m, NEW base, NEW u, WasRead(t, m, base, u), NEW no, NEW yes, IsTrue(yes)
  PROVE  /\ AsEntry(u, Place(t, m), no) = OwnRecord(m, base, yes, no, u[Place(t, m)].import)
         /\ DOMAIN u[Place(t, m)].import = DOMAIN m.imports
  <1> /\ t \in Seq(Entry) /\ Consistent(t) /\ IsModule(m)
      /\ u \in Seq(Entry) /\ Distinct(u)
      /\ Staged(t, m, m.imports, base, u) /\ Imported(u, Place(t, m), m.imports)
    BY DEF WasRead
  <1>1. PICK p : p = Place(t, m)
    OBVIOUS
  <1>2. PICK ids \in Seq(ModId) : ids = m.imports
    BY ModuleIs
  <1>3. u[p] \in Entry
    <2>1. Staged(t, m, ids, base, u)
      BY <1>2
    <2>2. Place(t, m) \in DOMAIN u
      BY <2>1, Places
    <2> QED BY <2>2, <1>1
  <1>4. PICK links \in Seq(1 .. ModTabMax) : links = u[p].import
    BY <1>3 DEF Entry
  <1>5. /\ Len(links) = Len(ids)
        /\ \A k \in DOMAIN ids : u[links[k]].name = ids[k].name /\ u[links[k]].key = ids[k].key
    BY <1>1, <1>2, <1>4 DEF Imported
  <1>6. DOMAIN links = DOMAIN ids
    BY <1>5
  <1>7. IdsOf(u, p) = ids
    <2>1. ASSUME NEW k \in DOMAIN ids PROVE ids[k] = [name |-> ids[k].name, key |-> ids[k].key]
      <3>1. \A id \in ModId : id = [name |-> id.name, key |-> id.key]
        BY DEF ModId
      <3>2. ids[k] \in ModId
        OBVIOUS
      <3> QED BY <3>1, <3>2
    <2>2. IdsOf(u, p) = [k \in DOMAIN ids |-> [name |-> u[links[k]].name, key |-> u[links[k]].key]]
      BY <1>4, <1>6 DEF IdsOf
    <2>3. \A k \in DOMAIN ids : IdsOf(u, p)[k] = ids[k]
      BY <2>1, <2>2, <1>5
    <2>4. IdsOf(u, p) = [k \in DOMAIN ids |-> ids[k]]
      BY <2>2, <2>3
    <2> QED BY <2>4
  <1>8. /\ u[p].name = m.name /\ u[p].key = m.key /\ u[p].loaded = yes
        /\ u[p].data_ofs = base /\ u[p].data_sz = m.globals + Len(m.strings)
    <2>1. u[p].loaded \in BOOLEAN /\ u[p].loaded
      BY <1>1, <1>3 DEF Staged, Entry
    <2> QED BY <2>1, <1>1 DEF Staged, IsTrue
  <1>9. AsEntry(u, p, no) = OwnRecord(m, base, yes, no, links)
    BY <1>2, <1>4, <1>7, <1>8, Zenon DEF AsEntry, OwnRecord
  <1> QED BY <1>1, <1>2, <1>4, <1>6, <1>9

LEMMA NewAsEntry ==
  ASSUME NEW t, NEW m, NEW base, NEW u, WasRead(t, m, base, u), NEW no, IsFalse(no),
         NEW k \in DOMAIN Fresh(t, m, m.imports)
  PROVE  AsEntry(u, Width(t, m) + k, no) = NewRecord(Fresh(t, m, m.imports)[k], no)
  <1> /\ t \in Seq(Entry) /\ Consistent(t) /\ IsModule(m)
      /\ u \in Seq(Entry) /\ Distinct(u)
      /\ Staged(t, m, m.imports, base, u) /\ Imported(u, Place(t, m), m.imports)
    BY DEF WasRead
  <1>1. PICK j : j = Width(t, m) + k
    OBVIOUS
  <1>2. PICK ids \in Seq(ModId) : ids = m.imports
    BY ModuleIs
  <1>3. PICK fresh \in Seq(ModId) : fresh = Fresh(t, m, ids)
    BY OnlyType DEF Fresh
  <1>4. PICK id \in ModId : id = fresh[k]
    BY <1>2, <1>3
  <1>5. Alike(u[j], Missing(id)) /\ u[j] \in Entry
    <2>1. j \in DOMAIN u
      BY <1>1, <1>2, Places
    <2> QED BY <2>1, <1>1, <1>2, <1>3, <1>4 DEF Staged
  <1>6. /\ u[j].name = id.name /\ u[j].key = id.key /\ u[j].loaded = no
        /\ u[j].data_ofs = 0 /\ u[j].data_sz = 0 /\ u[j].import = <<>>
    <2>1. u[j].loaded \in BOOLEAN
      BY <1>5 DEF Entry
    <2> QED BY <2>1, <1>5 DEF Alike, Missing, IsFalse
  <1>7. IdsOf(u, j) = <<>>
    BY <1>6 DEF IdsOf
  <1> QED BY <1>1, <1>2, <1>3, <1>4, <1>6, <1>7, Zenon DEF AsEntry, NewRecord

\* All that Programs has in the table before the import table of m is set.
Assembled(t, m, base, yes, no, all) ==
  /\ DOMAIN all = 1 .. Width(t, m) + Len(Fresh(t, m, m.imports))
  /\ all[Place(t, m)] = OwnRecord(m, base, yes, no, <<>>)
  /\ \A j \in DOMAIN t : j # Place(t, m) => all[j] = AsEntry(t, j, no)
  /\ \A k \in DOMAIN Fresh(t, m, m.imports) :
       all[Width(t, m) + k] = NewRecord(Fresh(t, m, m.imports)[k], no)

\* The table that Programs makes of t and m is the one that was staged.
LEMMA StagedAsTable ==
  ASSUME NEW t, NEW m, NEW base, NEW u, WasRead(t, m, base, u),
         NEW no, IsFalse(no), NEW yes, IsTrue(yes), NEW all,
         Assembled(t, m, base, yes, no, all)
  PROVE  [all EXCEPT ![IndexIn(all, m.name)].links =
            [k \in DOMAIN m.imports |-> IndexIn(all, m.imports[k].name)]] = AsTable(u, no)
  <1> /\ t \in Seq(Entry) /\ Consistent(t) /\ IsModule(m)
      /\ u \in Seq(Entry) /\ Distinct(u)
      /\ Staged(t, m, m.imports, base, u) /\ Imported(u, Place(t, m), m.imports)
    BY DEF WasRead
  <1>1. PICK p : p = Place(t, m)
    OBVIOUS
  <1>2. PICK ids \in Seq(ModId) : ids = m.imports
    BY ModuleIs
  <1>3. Staged(t, m, ids, base, u)
    BY <1>2
  <1>4. PICK w, fresh : w = Width(t, m) /\ fresh = Fresh(t, m, ids)
    OBVIOUS
  <1>5. /\ DOMAIN u = 1 .. w + Len(fresh) /\ p \in DOMAIN u
        /\ \A j \in DOMAIN u : \/ j \in DOMAIN t /\ j # p
                               \/ j = p
                               \/ j - w \in DOMAIN fresh /\ w + (j - w) = j
    BY <1>1, <1>3, <1>4, Places
  <1>6. DOMAIN all = DOMAIN u
    BY <1>2, <1>4, <1>5 DEF Assembled
  <1>7. PICK links : links = u[p].import
    OBVIOUS
  <1>8. AsEntry(u, p, no) = OwnRecord(m, base, yes, no, links) /\ DOMAIN links = DOMAIN ids
    <2>1. /\ AsEntry(u, Place(t, m), no) = OwnRecord(m, base, yes, no, u[Place(t, m)].import)
          /\ DOMAIN u[Place(t, m)].import = DOMAIN m.imports
      BY OwnAsEntry
    <2> QED BY <2>1, <1>1, <1>2, <1>7
  <1>9. ASSUME NEW j \in DOMAIN u, j # p PROVE all[j] = AsEntry(u, j, no)
    <2>1. CASE j \in DOMAIN t
      <3>1. all[j] = AsEntry(t, j, no)
        BY <2>1, <1>1, <1>9 DEF Assembled
      <3>2. AsEntry(u, j, no) = AsEntry(t, j, no)
        <4>1. j # Place(t, m)
          BY <1>1, <1>9
        <4> QED BY <4>1, <2>1, OldAsEntry
      <3> QED BY <3>1, <3>2
    <2>2. CASE j \notin DOMAIN t
      <3>1. PICK k \in DOMAIN fresh : w + k = j
        BY <2>2, <1>5, <1>9
      <3>2. all[j] = NewRecord(fresh[k], no)
        BY <3>1, <1>2, <1>4 DEF Assembled
      <3>3. AsEntry(u, j, no) = NewRecord(fresh[k], no)
        <4>1. \A i \in DOMAIN Fresh(t, m, m.imports) :
                AsEntry(u, Width(t, m) + i, no) = NewRecord(Fresh(t, m, m.imports)[i], no)
          BY NewAsEntry
        <4> QED BY <4>1, <3>1, <1>2, <1>4
      <3> QED BY <3>2, <3>3
    <2> QED BY <2>1, <2>2
  <1>10. all[p] = OwnRecord(m, base, yes, no, <<>>)
    BY <1>1 DEF Assembled
  <1>11. \A j \in DOMAIN u : all[j].name = u[j].name
    <2>1. \A j : AsEntry(u, j, no).name = u[j].name
      BY DEF AsEntry
    <2>2. OwnRecord(m, base, yes, no, <<>>).name = m.name /\ u[p].name = m.name
      BY <1>1 DEF OwnRecord, Staged
    <2> QED BY <2>1, <2>2, <1>9, <1>10
  <1>12. Distinct(all)
    BY <1>6, <1>11 DEF Distinct
  <1>13. IndexIn(all, m.name) = p
    <2>1. u[p].name = m.name
      BY <1>1 DEF Staged
    <2>2. p \in DOMAIN all /\ all[p].name = m.name
      BY <2>1, <1>5, <1>6, <1>11
    <2>3. IndexIn(all, all[p].name) = p
      BY <2>2, <1>12, IndexOf
    <2> QED BY <2>2, <2>3
  <1>14. ASSUME NEW k \in DOMAIN ids PROVE IndexIn(all, ids[k].name) = links[k]
    <2>1. links[k] \in DOMAIN u /\ u[links[k]].name = ids[k].name
      BY <1>1, <1>2, <1>7 DEF Imported
    <2>2. links[k] \in DOMAIN all /\ all[links[k]].name = ids[k].name
      BY <2>1, <1>6, <1>11
    <2> QED BY <2>2, <1>12, IndexOf
  <1>15. [k \in DOMAIN ids |-> IndexIn(all, ids[k].name)] = links
    <2>1. u[p] \in Entry
      <3>1. p \in DOMAIN u
        BY <1>5
      <3> QED BY <3>1
    <2>2. links \in Seq(1 .. ModTabMax)
      BY <2>1, <1>7 DEF Entry
    <2>3. links = [k \in DOMAIN ids |-> links[k]]
      BY <2>2, <1>8
    <2> QED BY <2>3, <1>14
  <1>16. PICK b : b = [all EXCEPT ![p].links = links]
    OBVIOUS
  <1>17. DOMAIN b = DOMAIN u /\ \A j \in DOMAIN u : j # p => b[j] = all[j]
    BY <1>6, <1>16
  <1>18. b[p] = AsEntry(u, p, no)
    <2>1. b[p] = [all[p] EXCEPT !.links = links]
      BY <1>5, <1>6, <1>16
    <2>2. PICK none : none = <<>>
      OBVIOUS
    <2>3. [OwnRecord(m, base, yes, no, none) EXCEPT !.links = links]
            = OwnRecord(m, base, yes, no, links)
      BY OwnLinked
    <2> QED BY <2>1, <2>2, <2>3, <1>8, <1>10
  <1>19. b = AsTable(u, no)
    <2>1. \A j \in DOMAIN u : b[j] = AsEntry(u, j, no)
      BY <1>9, <1>17, <1>18
    <2>2. b = [j \in DOMAIN u |-> b[j]]
      BY <1>16, <1>17
    <2> QED BY <2>1, <2>2 DEF AsTable
  <1> QED BY <1>2, <1>13, <1>15, <1>16, <1>19

\* What AtEnd says, for the table that was read.
LEMMA EndRead ==
  ASSUME Inv, mode = "parse", Word(1) \notin \o200 .. \o205 \union {\o301}
  PROVE  WasRead(complete.tab, Module, complete.data_top, tab)
  <1>1. Distinct(tab)
    BY EndConsistent DEF Consistent
  <1>2. /\ IsModule(Module) /\ tab \in Seq(Entry) /\ complete.tab \in Seq(Entry)
        /\ Consistent(complete.tab) /\ mod = Place(complete.tab, Module)
        /\ Staged(complete.tab, Module, Module.imports, complete.data_top, tab)
        /\ Imported(tab, mod, Module.imports)
    BY AtEnd
  <1> QED BY <1>1, <1>2 DEF WasRead

\* Programs assembles the table from the same parts.
LEMMA LoaderAssembles ==
  ASSUME Inv, mode = "parse", NEW f, f = Digest(Module, want),
         NEW no, IsFalse(no), NEW yes, IsTrue(yes)
  PROVE  Assembled(complete.tab, Module, complete.data_top, yes, no, Loader!WithImports(f))
  <1>1. Loader!Loaded(f) = OwnRecord(Module, complete.data_top, yes, no, <<>>)
    <2>1. /\ f.name = Module.name /\ f.key = Module.key /\ f.imports = Module.imports
          /\ f.size = Module.globals + Len(Module.strings)
      BY DEF Digest
    <2> QED BY <2>1, Zenon DEF Loader!Loaded, OwnRecord, IsTrue, IsFalse
  <1>2. \A id : Loader!Missing(id) = NewRecord(id, no)
    BY Zenon DEF Loader!Missing, NewRecord, IsFalse
  <1>3. \A i \in DOMAIN complete.tab : LoaderTab[i] = AsEntry(complete.tab, i, no)
    BY LoaderTable DEF IsFalse
  <1>4. PICK all : all = Loader!WithImports(f)
    OBVIOUS
  <1>5. PICK i, w, fresh : /\ i = Place(complete.tab, Module) /\ w = Width(complete.tab, Module)
                          /\ fresh = Fresh(complete.tab, Module, Module.imports)
    OBVIOUS
  <1>6. /\ DOMAIN all = 1 .. w + Len(fresh) /\ all[i] = Loader!Loaded(f)
        /\ \A j \in DOMAIN complete.tab : j # i => all[j] = LoaderTab[j]
        /\ \A k \in DOMAIN fresh : all[w + k] = Loader!Missing(fresh[k])
    BY <1>4, <1>5, LoaderImports
  <1> QED BY <1>1, <1>2, <1>3, <1>4, <1>5, <1>6 DEF Assembled

LEMMA LoaderReads ==
  ASSUME Inv, mode = "parse", Word(1) \notin \o200 .. \o205 \union {\o301},
         NEW f, f = Digest(Module, want)
  PROVE  Loader!WithModule(f) = AsTable(tab, FALSE)
  <1>1. PICK no : IsFalse(no)
    BY DEF IsFalse
  <1>2. PICK yes : IsTrue(yes)
    BY DEF IsTrue
  <1>3. PICK t, m, base, u : /\ t = complete.tab /\ m = Module /\ base = complete.data_top
                             /\ u = tab
    OBVIOUS
  <1>4. PICK all : all = Loader!WithImports(f)
    OBVIOUS
  <1>5. WasRead(t, m, base, u)
    BY <1>3, EndRead
  <1>6. Assembled(t, m, base, yes, no, all)
    <2>1. Assembled(complete.tab, Module, complete.data_top, yes, no, Loader!WithImports(f))
      BY <1>1, <1>2, LoaderAssembles
    <2> QED BY <2>1, <1>3, <1>4
  <1>7. [all EXCEPT ![IndexIn(all, m.name)].links =
           [k \in DOMAIN m.imports |-> IndexIn(all, m.imports[k].name)]] = AsTable(u, no)
    BY <1>1, <1>2, <1>5, <1>6, StagedAsTable
  <1>8. f.name = m.name /\ f.imports = m.imports
    BY <1>3 DEF Digest
  <1>9. Loader!WithModule(f) = [all EXCEPT ![IndexIn(all, m.name)].links =
           [k \in DOMAIN m.imports |-> IndexIn(all, m.imports[k].name)]]
    <2>1. \A n : Loader!IndexIn(all, n) = IndexIn(all, n)
      BY LoaderNames
    <2>2. [k \in DOMAIN f.imports |-> Loader!IndexIn(all, f.imports[k].name)]
            = [k \in DOMAIN m.imports |-> IndexIn(all, m.imports[k].name)]
      BY <2>1, <1>8
    <2>3. Loader!IndexIn(all, f.name) = IndexIn(all, m.name)
      BY <2>1, <1>8
    <2>4. Loader!WithModule(f) = [all EXCEPT ![Loader!IndexIn(all, f.name)].links =
            [k \in DOMAIN f.imports |-> Loader!IndexIn(all, f.imports[k].name)]]
      BY <1>4, Zenon DEF Loader!WithModule
    <2> QED BY <2>2, <2>3, <2>4
  <1>10. AsTable(u, no) = AsTable(tab, FALSE)
    BY <1>1, <1>3, Zenon DEF IsFalse
  <1> QED BY <1>7, <1>9, <1>10

LEMMA EndOfFileRefines ==
  ASSUME Inv, EndOfFile
  PROVE  Loader!Parse
  <1>1. /\ mode = "parse" /\ mode' = "scan" /\ Word(1) \notin \o200 .. \o205 \union {\o301}
        /\ complete' = [tab |-> tab, data_top |-> data_top]
        /\ UNCHANGED <<paths, tab, data_top, want, loads>>
    BY DEF EndOfFile
  <1>2. UNCHANGED DiskOf(paths)
    BY <1>1 DEF DiskOf, NamesIn, PrefixOf
  <1>3. PICK f \in DiskOf(paths) : f = Digest(Module, want)
    BY FileIs, <1>1 DEF Inv, InParse
  <1>4. /\ f.file = want /\ f.name = Module.name /\ f.key = Module.key
        /\ f.imports = Module.imports /\ f.size = Module.globals + Len(Module.strings)
    BY <1>3 DEF Digest
  <1>5. PICK t, m, base, u : /\ t = complete.tab /\ m = Module /\ base = complete.data_top
                             /\ u = tab
    OBVIOUS
  <1>6. WasRead(t, m, base, u)
    BY <1>1, <1>5, EndRead
  <1>7. Loader!WithModule(f) = AsTable(tab, FALSE)
    BY <1>1, <1>3, LoaderReads
  <1>8. LoaderTab' = Loader!WithModule(f)
    <2>1. (mode' = "start") = FALSE
      BY <1>1
    <2>2. complete'.tab = tab
      BY <1>1
    <2>3. \A i : EntryOf(tab, i)' = AsEntry(tab, i, FALSE)
      <3>1. \A i : IdsOf(tab, i)' = IdsOf(tab, i)
        BY <1>1 DEF IdsOf
      <3> QED BY <3>1, <2>1, <1>1, Zenon DEF EntryOf, AsEntry
    <2>4. LoaderTab' = [i \in DOMAIN tab |-> EntryOf(tab, i)']
      BY <2>2, <1>1 DEF LoaderTab
    <2> QED BY <2>3, <2>4, <1>7, Zenon DEF AsTable
  <1>9. \A id \in Loader!Ids(f) : ~ Loader!Clash(id)
    <2>1. ASSUME NEW id \in Loader!Ids(f), NEW i \in DOMAIN t, t[i].name = id.name
          PROVE  t[i].key = id.key
      <3>1. id \in {Id(m)} \union ToSet(m.imports)
        BY <2>1, <1>4, <1>5 DEF Loader!Ids, Id, Loader!ToSet, ToSet
      <3> QED BY <3>1, <2>1, <1>6, NoClash
    <2>2. DOMAIN LoaderTab = DOMAIN t
          /\ \A i \in DOMAIN t : LoaderTab[i].name = t[i].name /\ LoaderTab[i].key = t[i].key
      BY <1>5, LoaderTabIs DEF LoaderTab, EntryOf
    <2>3. PICK l : l = LoaderTab
      OBVIOUS
    <2>4. \A id : Loader!Clash(id) <=> \E i \in DOMAIN l : l[i].name = id.name /\ l[i].key # id.key
      BY <2>3 DEF Loader!Clash, LoaderTab
    <2> QED BY <2>1, <2>2, <2>3, <2>4
  <1>10. Len(Loader!WithModule(f)) < ModTabMax
    <2>1. tab \in Seq(Entry) /\ Len(tab) + 1 <= ModTabMax
      BY DEF Inv, TypeOK, module_num
    <2>2. PICK b : b = AsTable(tab, FALSE)
      OBVIOUS
    <2>3. PICK n \in Nat : n = Len(tab) /\ DOMAIN b = 1 .. n
      BY <2>1, <2>2 DEF AsTable
    <2>4. Len(b) = n
      BY <2>3
    <2>5. n < ModTabMax
      BY <2>1, <2>3, ModTabAssumption
    <2> QED BY <2>2, <2>4, <2>5, <1>7
  <1>11. complete'.data_top = complete.data_top + f.size
    <2>1. data_top = complete.data_top + Module.globals + Len(Module.strings)
      BY <1>1, AtEnd
    <2>2. Module.globals \in Nat /\ Len(Module.strings) \in Nat /\ complete.data_top \in Nat
      BY <1>5, <1>6, ModuleIs DEF WasRead, Inv, TypeOK
    <2> QED BY <2>1, <2>2, <1>1, <1>4
  <1>12. loads = Append(Front(loads), (Len(LoaderTab) + 1 + 1) % (ModTabMax + 1))
    <2>1. loads \in Seq(0 .. ModTabMax) /\ loads # <<>>
      BY <1>1 DEF Inv, InParse, TypeOK
    <2>2. /\ Len(loads) \in Nat /\ Len(loads) >= 1 /\ Last(loads) = loads[Len(loads)]
          /\ Last(loads) \in 0 .. ModTabMax /\ Front(loads) \in Seq(0 .. ModTabMax)
          /\ Len(Front(loads)) = Len(loads) - 1
          /\ \A i \in 1 .. Len(loads) - 1 : Front(loads)[i] = loads[i]
      BY <2>1, FrontIs
    <2>3. PICK r \in Seq(0 .. ModTabMax) : r = Append(Front(loads), Last(loads))
      <3>1. PICK x \in 0 .. ModTabMax : x = Last(loads)
        BY <2>2
      <3>2. PICK q \in Seq(0 .. ModTabMax) : q = Front(loads)
        BY <2>2
      <3>3. Append(q, x) \in Seq(0 .. ModTabMax)
        OBVIOUS
      <3> QED BY <3>1, <3>2, <3>3
    <2>4. Len(r) = Len(loads) /\ \A i \in 1 .. Len(loads) : r[i] = loads[i]
      BY <2>2, <2>3
    <2>5. r = loads
      BY <2>1, <2>4, SameSequence
    <2>6. Last(loads) = (Len(complete.tab) + 2) % (ModTabMax + 1)
      BY <1>1 DEF Inv, InParse
    <2>7. Len(LoaderTab) + 1 + 1 = Len(complete.tab) + 2
      <3>1. complete.tab \in Seq(Entry) /\ Len(LoaderTab) = Len(complete.tab)
        BY LoaderTabIs
      <3> QED BY <3>1
    <2> QED BY <2>3, <2>5, <2>6, <2>7
  <1>13. /\ LoaderLoads = Front(loads) /\ LoaderLoads' = loads
         /\ LoaderMode = "load" /\ LoaderMode' = "scan"
    BY <1>1 DEF LoaderLoads, LoaderMode
  <1>14. /\ complete'.tab = tab /\ complete'.data_top = data_top
    BY <1>1
  <1> QED BY <1>1, <1>2, <1>3, <1>4, <1>8, <1>9, <1>10, <1>11, <1>12, <1>13
      DEF Loader!Parse, Loader!DataAfter, Loader!module_num, LoaderTab, LoaderLoads, LoaderMode

\* Section by section, the loader does what Programs says a file does in one step,
\* whatever the directories hold: LoaderSpec.
THEOREM ImplementsLoader == Spec => LoaderSpec
  <1>1. Inv /\ [Next]_vars => [Loader!Next]_(Loader!vars)
    <2> SUFFICES ASSUME Inv, [Next]_vars PROVE Loader!Loading \/ UNCHANGED Loader!vars
      BY DEF Loader!Next
    <2>1. CASE Open
      BY <2>1, OpenUnseen
    <2>2. CASE NotFound
      BY <2>2, NotFoundRefines DEF Loader!Loading
    <2>3. CASE ReadStart \/ ReadModule \/ ReadImports \/ ReadData \/ ReadEntries \/ ReadCode
               \/ ReadRelocations \/ Unreadable
      BY <2>3, ReadingUnseen
    <2>4. CASE EndOfFile
      BY <2>4, EndOfFileRefines DEF Loader!Loading
    <2>5. CASE Mismatch
      BY <2>5, MismatchRefines DEF Loader!Loading
    <2>6. CASE Scan
      BY <2>6, ScanRefines DEF Loader!Loading
    <2>7. CASE ScanEnds
      BY <2>7, ScanEndsRefines DEF Loader!Loading
    <2>8. CASE Link \/ Unfixable \/ UNCHANGED vars
      BY <2>8, LinkingUnseen
    <2>9. CASE LinkEnds
      BY <2>9, LinkEndsRefines DEF Loader!Loading
    <2>10. CASE LinkError
      BY <2>10, LinkErrorRefines DEF Loader!Loading
    <2> QED BY <2>1, <2>2, <2>3, <2>4, <2>5, <2>6, <2>7, <2>8, <2>9, <2>10 DEF Next, Reading, Linking
  <1> QED BY <1>1, InitInv, NextInv, InitRefines, PTL DEF Spec, LoaderSpec, Loader!Spec

=============================================================================
