----------------------------- MODULE ObjectFile -----------------------------
(***************************************************************************)
(* Object files: how the compiler writes them (OutCodeFile of M2SGL.MOD)   *)
(* and how the loader finds, reads and links them (le_loader.c).           *)
(*                                                                         *)
(* Here one step is one section read, and one module linked; in Programs   *)
(* a file is one step and has no code.  A file is written section by       *)
(* section, and read item by item: a word, the name and key of a module    *)
(* (11 words), or a word of code (two bytes).  The compiled module says    *)
(* what its author means, and is never read by the loader.                 *)
(***************************************************************************)
EXTENDS Integers, Sequences, SequencesExt, TLC

CONSTANTS
  Setups,      \* include paths: directories, from <<prefix, name>> to [module, format]
  Written(_),  \* the sections of such a file, each a sequence of items
  Boot,        \* the name of the program
  ModTabMax    \* MOD_TAB_MAX, the last index that fits in a byte

NoPrefix == ""
Byte == 0 .. 255

\* What tells modules and their versions apart.
ModId == [name : STRING, key : Nat]

(* A compiled module.  code holds bytes, procs the offsets of the procedures,
   refs the offsets of the module numbers in the code: 0 is the module itself,
   n its n-th import.  globals counts the words of variables.  A module is
   imported once, and never by itself. *)
IsModule(m) ==
  /\ m.name \in STRING /\ m.key \in Nat /\ m.imports \in Seq(ModId)
  /\ \A i \in DOMAIN m.imports :
       /\ m.imports[i].name # m.name
       /\ \A j \in DOMAIN m.imports : m.imports[i].name = m.imports[j].name => i = j
  /\ m.globals \in Nat \ (0 .. 2) /\ m.strings \in Seq(Nat)
  /\ m.code \in Seq(Byte) /\ Len(m.code) > 0 /\ Len(m.code) % 2 = 0
  /\ m.procs \in Seq(0 .. Len(m.code) - 1) /\ m.procs # <<>>
  /\ m.refs \in Seq(1 .. Len(m.code) - 1)
  /\ \A i \in DOMAIN m.refs : m.code[m.refs[i] + 1] <= Len(m.imports)

ASSUME SetupAssumption ==
  /\ Boot \in STRING
  /\ \A dirs \in Setups :
       /\ dirs \in Seq(ToSet(dirs))
       /\ \A i \in DOMAIN dirs : \A n \in DOMAIN dirs[i] :
            n[2] \in STRING /\ IsModule(dirs[i][n].module)
ASSUME ModTabAssumption == ModTabMax \in 1 .. 255

VARIABLES
  paths,         \* patharray
  tab,           \* module_tab from entry 1 on
  data_top,      \* end of the module data
  dsh_mem,       \* words that were written
  mode,          \* where the loader is
  want,          \* name and prefix given to le_load_objfile
  loads,         \* top of each le_load_objfile in progress, innermost last
  file,          \* what is left of the file that is read
  mod,           \* index of its module, 0 before the module section
  proc_section,  \* whether the next section 203B holds entry points
  top,           \* top of le_fix_extcalls
  complete       \* history: tab and data_top when a file was last read to its end

reading == <<file, mod, proc_section>>
vars == <<paths, tab, data_top, dsh_mem, mode, want, loads, reading, top, complete>>

-----------------------------------------------------------------------------
(* The files                                                               *)

W(n) == [kind |-> "word", val |-> n]
NameAndKey(id) == [kind |-> "id", val |-> id]
Bytes(a, b) == [kind |-> "bytes", val |-> <<a, b>>]

Words(s) == [i \in DOMAIN s |-> W(s[i])]
Ids(s) == [i \in DOMAIN s |-> NameAndKey(s[i])]
CodeWords(code) == [i \in 1 .. Len(code) \div 2 |-> Bytes(code[2 * i - 1], code[2 * i])]
Shifted(s, n) == [i \in DOMAIN s |-> s[i] + n]

Id(m) == [name |-> m.name, key |-> m.key]

\* Mutant: the table of entry points that precedes the code is forgotten.
FrameAtZero(m) == 0

\* The bytes of the code frame before the code: one word for each procedure.
Frame(m) == 2 * Len(m.procs)

ModuleSection(m) ==
  <<W(\o201), W(14), NameAndKey(Id(m)), W(m.globals + Len(m.strings)),
    W(Len(m.procs) + Len(m.code) \div 2), W(0)>>
ImportSection(m) == <<W(\o202), W(11 * Len(m.imports))>> \o Ids(m.imports)
Imports(m) == IF m.imports = <<>> THEN <<>> ELSE <<ImportSection(m)>>
Data(m) ==
  <<<<W(\o204), W(3), W(1), W(0), W(0)>>>> \o
  (IF m.strings = <<>> THEN <<>>
   ELSE <<<<W(\o204), W(Len(m.strings) + 1), W(m.globals)>> \o Words(m.strings)>>)
EntrySection(m) == <<W(\o203), W(Len(m.procs) + 1), W(0)>> \o Words(Shifted(m.procs, Frame(m)))
CodeSection(m) == <<W(\o203), W(Len(m.code) \div 2 + 1), W(Len(m.procs))>> \o CodeWords(m.code)
RelocationSection(refs) == <<W(\o205), W(Len(refs))>> \o Words(refs)
Relocations(refs) == IF refs = <<>> THEN <<>> ELSE <<RelocationSection(refs)>>

\* OutCodeFile of the single pass compiler.
OutCodeFile(m) ==
  <<<<W(\o200), W(1), W(4)>>, ModuleSection(m)>> \o Imports(m) \o Data(m)
    \o <<EntrySection(m), CodeSection(m)>> \o Relocations(Shifted(m.refs, Frame(m)))

\* The older compilers, as le_parse_objfile expects their files: another start, a
\* longer module section, and the sections of each procedure by itself.
OfProcedure(m, k) ==
  LET from == m.procs[k]
      later == {q \in ToSet(m.procs) \union {Len(m.code)} : q > from}
      to == CHOOSE q \in later : \A r \in later : q <= r
  IN <<<<W(\o203), W(2), W(k - 1), W(from)>>,
       <<W(\o203), W((to - from) \div 2 + 1), W(from \div 2)>>
         \o CodeWords(SubSeq(m.code, from + 1, to))>>
       \o Relocations(SelectSeq(m.refs, LAMBDA r : r \in from .. to - 1))
OldModuleSection(m) ==
  <<W(\o201), W(17), NameAndKey(Id(m)), W(0), W(0), W(0),
    W(m.globals + Len(m.strings)), W(Len(m.code) \div 2), W(0)>>
OldFile(m) ==
  <<<<W(\o301), W(0)>>, OldModuleSection(m)>> \o Imports(m) \o Data(m)
    \o FlattenSeq([k \in DOMAIN m.procs |-> OfProcedure(m, k)])

\* What the loader can rely on in any file of m: perhaps a start, then the module, its
\* imports, and sections of other kinds as long as they say.
Item == [kind : {"word"}, val : Nat] \union [kind : {"id"}, val : ModId]
          \union [kind : {"bytes"}, val : Byte \X Byte]
IsWord(s, k) == k \in DOMAIN s /\ s[k].kind = "word"
Begins(s, w) == IsWord(s, 1) /\ s[1].val = w

IsStart(s) ==
  \/ Len(s) = 2 /\ Begins(s, \o301)
  \/ Len(s) = 3 /\ Begins(s, \o200) /\ IsWord(s, 2) /\ s[2].val = 1
IsModuleSection(s, m) ==
  /\ Len(s) \in {6, 9} /\ Begins(s, \o201)
  /\ IsWord(s, 2)
  /\ s[2].val = 17 <=> Len(s) = 9
  /\ s[3].kind = "id" /\ s[3].val = Id(m)
  /\ IsWord(s, Len(s) - 2) /\ s[Len(s) - 2].val = m.globals + Len(m.strings)
  /\ IsWord(s, Len(s) - 1)
IsOther(s) ==
  /\ \E w \in \o203 .. \o205 : Begins(s, w)
  /\ IsWord(s, 2) /\ s[2].val = Len(s) - 2

\* The index of the module section.
Main(s) == IF IsStart(s[1]) THEN 2 ELSE 1

IsFile(s, m) ==
  /\ Len(s) >= Main(s) + Len(Imports(m))
  /\ IsModuleSection(s[Main(s)], m)
  /\ m.imports # <<>> => s[Main(s) + 1] = ImportSection(m)
  /\ \A i \in Main(s) + Len(Imports(m)) + 1 .. Len(s) : IsOther(s[i])

\* A file for another loader, or cut off inside the modules it names.
OtherVersion(s) == Begins(s[1], \o200) /\ IsWord(s[1], 2) /\ s[1][2].val # 1
CutInName(s, m) ==
  Len(s) = Main(s) /\ \E k \in {1, 2} : s[Main(s)] = SubSeq(ModuleSection(m), 1, k)
CutInImports(s, m) ==
  /\ Len(s) = Main(s) + 1 /\ IsModuleSection(s[Main(s)], m)
  /\ \E k \in 1 .. Len(m.imports) + 1 : s[Main(s) + 1] = SubSeq(ImportSection(m), 1, k)
IsRejected(s, m) == OtherVersion(s) \/ CutInName(s, m) \/ CutInImports(s, m)

ASSUME WrittenAssumption ==
  \A dirs \in Setups : \A i \in DOMAIN dirs : \A n \in DOMAIN dirs[i] :
    LET s == Written(dirs[i][n])
        m == dirs[i][n].module
    IN s \in Seq(Seq(Item)) /\ s # <<>> /\ (IsFile(s, m) \/ IsRejected(s, m))

-----------------------------------------------------------------------------
(* The module table                                                        *)

module_num == Len(tab) + 1
Known(t, name) == \E i \in DOMAIN t : t[i].name = name
IndexIn(t, name) == CHOOSE i \in DOMAIN t : t[i].name = name

\* init_mod_entry: a name that is new gets the next entry.
Missing(id) ==
  [name |-> id.name, key |-> id.key, loaded |-> FALSE, data_ofs |-> 0, data_sz |-> 0,
   code |-> <<>>, import |-> <<>>, proc_tmp |-> <<>>, proc |-> <<>>]
With(t, id) == IF Known(t, id.name) THEN t ELSE Append(t, Missing(id))

\* The same for each of ids, one after the other.
WithFirst(t, ids) ==
  LET f[n \in 0 .. Len(ids)] == IF n = 0 THEN t ELSE With(f[n - 1], ids[n])
  IN f
WithAll(t, ids) == WithFirst(t, ids)[Len(ids)]

\* find_mod_entry stops at another key, init_mod_entry at a full table.
Refused(t, ids) ==
  \/ \E id \in ToSet(ids) : \E i \in DOMAIN t : t[i].name = id.name /\ t[i].key # id.key
  \/ Len(WithAll(t, ids)) >= ModTabMax

-----------------------------------------------------------------------------
(* Finding a file                                                          *)

\* alt_prefix: SYS for the program, LIB for what it imports.
Prefix == IF loads = <<>> THEN "SYS" ELSE "LIB"

\* le_load_search: in each directory the name itself, then the one with the prefix.
Search(dirs, name, prefix) ==
  LET tried == {<<NoPrefix, name>>, <<prefix, name>>}
      i == SelectInSeq(dirs, LAMBDA d : tried \intersect DOMAIN d # {})
  IN IF i = 0 THEN <<>>
     ELSE IF <<NoPrefix, name>> \in DOMAIN dirs[i] THEN <<dirs[i][<<NoPrefix, name>>]>>
     ELSE <<dirs[i][<<prefix, name>>]>>

\* le_load_objfile opens the file.
Open ==
  /\ mode = "load"
  /\ Search(paths, want, Prefix) # <<>>
  /\ file' = FlattenSeq(Written(Search(paths, want, Prefix)[1]))
  /\ mod' = 0
  /\ proc_section' = TRUE
  /\ loads' = Append(loads, (module_num + 1) % (ModTabMax + 1))
  /\ mode' = "parse"
  /\ UNCHANGED <<paths, tab, data_top, dsh_mem, want, top, complete>>

\* No file: every le_load_objfile in progress returns FALSE.
NotFound ==
  /\ mode = "load"
  /\ Search(paths, want, Prefix) = <<>>
  /\ loads' = <<>>
  /\ mode' = "failed"
  /\ UNCHANGED <<paths, tab, data_top, dsh_mem, want, reading, top, complete>>

-----------------------------------------------------------------------------
(* le_parse_objfile                                                        *)

\* le_rword of the k-th item; 0xffff at the end of the file.
Word(k) == IF k \in DOMAIN file /\ file[k].kind = "word" THEN file[k].val ELSE 65535

Drop(n) == file' = SubSeq(file, n + 1, Len(file))

\* The items i + 1 .. i + n, if they are of that kind.
Has(kind, i, n) == \A k \in i + 1 .. i + n : k \in DOMAIN file /\ file[k].kind = kind
Values(i, n) == [k \in 1 .. n |-> file[i + k].val]

Section(w) == mode = "parse" /\ Word(1) = w

\* The alternate start, or the version.
ReadStart ==
  /\ \/ Section(\o301) /\ Drop(2)
     \/ Section(\o200) /\ Word(2) = 1 /\ Drop(3)
  /\ UNCHANGED <<paths, tab, data_top, dsh_mem, mode, want, loads, mod, proc_section, top,
                 complete>>

\* Mutant: later versions are read like the first.
NothingSkipped == 3

\* The items before the size of the data.
Skipped == IF Word(2) = 17 THEN 6 ELSE 3

\* The name and key, three more words in later versions, and the sizes.
ReadModule ==
  /\ Section(\o201) /\ Has("id", 2, 1)
  /\ LET id == file[3].val
         data_sz == Word(Skipped + 1)
         t == With(tab, id)
         i == IndexIn(t, id.name)
     IN /\ ~ Refused(tab, <<id>>)
        /\ tab' = [t EXCEPT ![i].loaded = TRUE, ![i].data_ofs = data_top, ![i].data_sz = data_sz,
                            ![i].code = [a \in 1 .. 2 * Word(Skipped + 2) |-> 0]]
        /\ data_top' = data_top + data_sz
        /\ mod' = i
        /\ Drop(Skipped + 3)
  /\ UNCHANGED <<paths, dsh_mem, mode, want, loads, proc_section, top, complete>>

ImportNum == Word(2) \div 11

ReadImports ==
  /\ Section(\o202) /\ Has("id", 2, ImportNum)
  /\ LET ids == Values(2, ImportNum)
         t == WithAll(tab, ids)
     IN /\ ~ Refused(tab, ids)
        /\ tab' = [t EXCEPT ![mod].import = [k \in DOMAIN ids |-> IndexIn(t, ids[k].name)]]
  /\ Drop(2 + ImportNum)
  /\ UNCHANGED <<paths, data_top, dsh_mem, mode, want, loads, mod, proc_section, top, complete>>

\* Mutant: offsets of data count from the start of the memory.
DataAtZero(a) == a

\* Where the words of a data section go.
DataPlace(a) == tab[mod].data_ofs + a

\* Mutant: a data section may go beyond the data of the module.
DataAlways == TRUE

DataFits == Word(3) + Word(2) - 1 <= tab[mod].data_sz

ReadData ==
  /\ Section(\o204) /\ DataFits
  /\ LET first == DataPlace(Word(3))
         written == first .. first + Word(2) - 2
     IN dsh_mem' = [a \in written \union DOMAIN dsh_mem |->
                      IF a \in written THEN Word(4 + a - first) ELSE dsh_mem[a]]
  /\ Drop(2 + Word(2))
  /\ UNCHANGED <<paths, tab, data_top, mode, want, loads, mod, proc_section, top, complete>>

\* Entry points, one by one onto the list of the module.
ReadEntries ==
  /\ Section(\o203) /\ proc_section
  /\ LET n == Word(2) - 1
         idx(i) == IF Word(3) # 0 THEN Word(3) ELSE i - 1
         new == [i \in 1 .. n |-> [idx |-> idx(i), entry |-> Word(3 + i), fixup |-> <<>>]]
     IN /\ tab' = [tab EXCEPT ![mod].proc_tmp = Reverse(new) \o @]
        /\ Drop(3 + n)
  /\ proc_section' = FALSE
  /\ UNCHANGED <<paths, data_top, dsh_mem, mode, want, loads, mod, top, complete>>

CodeFits ==
  /\ Has("bytes", 3, Word(2) - 1)
  /\ 2 * Word(3) + 2 * Word(2) - 2 <= Len(tab[mod].code)

\* Both bytes of each word.
BytesOf(words) == [x \in 1 .. 2 * Len(words) |-> words[(x + 1) \div 2][2 - (x % 2)]]

ReadCode ==
  /\ Section(\o203) /\ ~ proc_section /\ CodeFits
  /\ LET block == BytesOf(Values(3, Word(2) - 1))
         a == 2 * Word(3)
     IN tab' = [tab EXCEPT ![mod].code =
                  [x \in DOMAIN @ |-> IF x - a \in DOMAIN block THEN block[x - a] ELSE @[x]]]
  /\ Drop(2 + Word(2))
  /\ proc_section' = TRUE
  /\ UNCHANGED <<paths, data_top, dsh_mem, mode, want, loads, mod, top, complete>>

\* The relocations go to the procedure read last.
ReadRelocations ==
  /\ Section(\o205)
  /\ tab' = [tab EXCEPT ![mod].proc_tmp[1].fixup = [i \in 1 .. Word(2) |-> Word(2 + i)]]
  /\ Drop(2 + Word(2))
  /\ UNCHANGED <<paths, data_top, dsh_mem, mode, want, loads, mod, proc_section, top, complete>>

\* "No more readable sections"
EndOfFile ==
  /\ mode = "parse"
  /\ Word(1) \notin \o200 .. \o205 \union {\o301}
  /\ file' = <<>>
  /\ mode' = "scan"
  /\ complete' = [tab |-> tab, data_top |-> data_top]
  /\ UNCHANGED <<paths, tab, data_top, dsh_mem, want, loads, mod, proc_section, top>>

\* le_error: key mismatch, or module table overflow.
Mismatch ==
  /\ \/ Section(\o201) /\ Has("id", 2, 1) /\ Refused(tab, Values(2, 1))
     \/ Section(\o202) /\ Has("id", 2, ImportNum) /\ Refused(tab, Values(2, ImportNum))
  /\ mode' = "mismatch"
  /\ UNCHANGED <<paths, tab, data_top, dsh_mem, want, loads, reading, top, complete>>

\* le_error for a file that no compiler wrote so.
Unreadable ==
  /\ \/ Section(\o200) /\ Word(2) # 1
     \/ Section(\o201) /\ ~ Has("id", 2, 1)
     \/ Section(\o202) /\ ~ Has("id", 2, ImportNum)
     \/ Section(\o204) /\ ~ DataFits
     \/ Section(\o203) /\ ~ proc_section /\ ~ CodeFits
  /\ mode' = "unreadable"
  /\ UNCHANGED <<paths, tab, data_top, dsh_mem, want, loads, reading, top, complete>>

-----------------------------------------------------------------------------
(* The rest of le_load_objfile, and le_fix_extcalls                        *)

\* Load a module that is missing among the entries after the one being read.
Scan ==
  /\ mode = "scan"
  /\ Last(loads) < module_num
  /\ IF Last(loads) = 0 \/ tab[Last(loads)].loaded THEN UNCHANGED <<mode, want>>
     ELSE mode' = "load" /\ want' = tab[Last(loads)].name
  /\ loads' = [loads EXCEPT ![Len(loads)] = @ + 1]
  /\ UNCHANGED <<paths, tab, data_top, dsh_mem, reading, top, complete>>

ScanEnds ==
  /\ mode = "scan"
  /\ Last(loads) >= module_num
  /\ loads' = Front(loads)
  /\ mode' = IF Len(loads) = 1 THEN "fix" ELSE "scan"
  /\ UNCHANGED <<paths, tab, data_top, dsh_mem, want, reading, top, complete>>

\* LIW, LED, SED, LEA, LEW, SEW, CLX
Referring == {\o22, \o43, \o63, \o27, \o42, \o62, \o355}

Fixups(e) == UNION {ToSet(e.proc_tmp[p].fixup) : p \in DOMAIN e.proc_tmp}

\* The operand at address loc follows an opcode that refers to a module, and is not
\* above the number of imports.
Fixable(e, loc) ==
  /\ loc \in 1 .. Len(e.code) - 1
  /\ e.code[loc] \in Referring
  /\ e.code[loc + 1] <= Len(e.import)

Own(e) == {loc \in Fixups(e) : Fixable(e, loc) /\ e.code[loc + 1] = 0}

\* Mutant: the import table is taken to begin with number 0.
ImportFromZero(e, b1) == e.import[(b1 % Len(e.import)) + 1]

\* mod->import[b1 - 1].idx
Import(e, b1) == e.import[b1]

\* Mutant: of the procedures of the list only the one read last is fixed.
FixupsOfLast(e) == ToSet(e.proc_tmp[1].fixup)

\* The locations that le_fix_extcalls changes.
Fixed(e) == Fixups(e)

\* The list holds the procedures in reverse order.
ProcTable(e) ==
  LET n == Max({0} \union {p.idx + 1 : p \in ToSet(e.proc_tmp)})
      of(i) == SelectLastInSeq(e.proc_tmp, LAMBDA p : p.idx = i - 1)
  IN [i \in 1 .. n |-> IF of(i) = 0 THEN 0 ELSE e.proc_tmp[of(i)].entry]

\* One pass of le_fix_extcalls.  The module itself, number 0, is not in its import
\* table: what lies before the table is any byte, here own.
Link ==
  /\ mode = "fix" /\ top < module_num
  /\ LET e == tab[top]
     IN /\ e.loaded
        /\ \A loc \in Fixups(e) : Fixable(e, loc)
        /\ Own(e) # {} => e.import # <<>>
        /\ \E own \in IF Own(e) = {} THEN {0} ELSE 0 .. ModTabMax :
             tab' = [tab EXCEPT
                      ![top].code = [x \in DOMAIN @ |->
                         IF x - 1 \notin Fixed(e) THEN @[x]
                         ELSE IF x - 1 \in Own(e) THEN own ELSE Import(e, @[x])],
                      ![top].proc = ProcTable(e),
                      ![top].proc_tmp = <<>>]
  /\ top' = top + 1
  /\ UNCHANGED <<paths, data_top, dsh_mem, mode, want, loads, reading, complete>>

\* le_load_initfile returns its top.
LinkEnds ==
  /\ mode = "fix" /\ top >= module_num
  /\ mode' = "start"
  /\ UNCHANGED <<paths, tab, data_top, dsh_mem, want, loads, reading, top, complete>>

\* "Module missing after load": the file held another module.
LinkError ==
  /\ mode = "fix" /\ top < module_num /\ ~ tab[top].loaded
  /\ mode' = "error"
  /\ UNCHANGED <<paths, tab, data_top, dsh_mem, want, loads, reading, top, complete>>

\* le_error at a relocation; or, without any imports, import is NULL.
Unfixable ==
  /\ mode = "fix" /\ top < module_num /\ tab[top].loaded
  /\ \/ \E loc \in Fixups(tab[top]) : ~ Fixable(tab[top], loc)
     \/ Own(tab[top]) # {} /\ tab[top].import = <<>>
  /\ mode' = "unfixable"
  /\ UNCHANGED <<paths, tab, data_top, dsh_mem, want, loads, reading, top, complete>>

Init ==
  /\ paths \in Setups
  /\ tab = <<>>
  /\ data_top = 0
  /\ dsh_mem = <<>>
  /\ mode = "load"
  /\ want = Boot
  /\ loads = <<>>
  /\ file = <<>>
  /\ mod = 0
  /\ proc_section = TRUE
  /\ top = 1
  /\ complete = [tab |-> <<>>, data_top |-> 0]

Reading ==
  \/ ReadStart \/ ReadModule \/ ReadImports \/ ReadData \/ ReadEntries \/ ReadCode
  \/ ReadRelocations \/ EndOfFile \/ Mismatch \/ Unreadable

Linking == Link \/ LinkEnds \/ LinkError \/ Unfixable

Next == Open \/ NotFound \/ Reading \/ Scan \/ ScanEnds \/ Linking

Spec == Init /\ [][Next]_vars

-----------------------------------------------------------------------------
(* Properties                                                              *)

Procedure == [idx : Nat, entry : Nat, fixup : Seq(Nat)]
Entry == [name : STRING, key : Nat, loaded : BOOLEAN, data_ofs : Nat,
          data_sz : Nat, code : Seq(Byte), import : Seq(1 .. ModTabMax),
          proc_tmp : Seq(Procedure), proc : Seq(Nat)]

TypeOK ==
  /\ tab \in Seq(Entry) /\ module_num <= ModTabMax
  /\ data_top \in Nat
  /\ \A a \in DOMAIN dsh_mem : a \in 0 .. data_top - 1
  /\ mode \in {"load", "parse", "scan", "fix", "start", "failed", "error", "mismatch",
               "unreadable", "unfixable"}
  /\ want \in STRING
  /\ loads \in Seq(0 .. ModTabMax)
  /\ mod \in 0 .. Len(tab)
  /\ proc_section \in BOOLEAN
  /\ top \in 1 .. module_num
  /\ complete \in [tab : Seq(Entry), data_top : Nat]

PrefixOf(name) == IF name = Boot THEN "SYS" ELSE "LIB"
FileNames(name) == {<<NoPrefix, name>>, <<PrefixOf(name), name>>}

\* The module that name stands for: "will search for Hello.OBJ and SYS.Hello.OBJ in
\* the directories [...] (in this order)" (README.md:80).
Meant(name) ==
  LET has(i) == FileNames(name) \intersect DOMAIN paths[i]
      first == CHOOSE i \in DOMAIN paths : has(i) # {} /\ \A j \in 1 .. i - 1 : has(j) = {}
      n == CHOOSE n \in has(first) : n[1] = NoPrefix \/ has(first) = {n}
  IN paths[first][n].module

\* The code byte at offset a of m, as the compiler meant it: a module number in a
\* reference becomes the index of that module in the table.
Linked(m, a) ==
  IF a \in ToSet(m.refs) THEN IndexIn(tab, m.imports[m.code[a + 1]].name) ELSE m.code[a + 1]

OwnRef(m, a) == a \in ToSet(m.refs) /\ m.code[a + 1] = 0

\* "M-Code Loader fully functional (can load and stage modules and their
\* dependencies)" (README.md:8): when the program starts, each procedure of each
\* module can be entered at its number and finds there the code that the compiler
\* generated, with all references to other modules resolved, and the strings of the
\* module are where that code expects them; in whatever order the modules were
\* found, in both file formats, and from the directories that come first.
LoadedAsCompiled ==
  mode = "start" =>
    \A i \in DOMAIN tab :
      LET m == Meant(tab[i].name)
          byte(p, k) == tab[i].code[tab[i].proc[p] + k + 1]
      IN /\ \A p \in DOMAIN m.procs : \A k \in 0 .. Len(m.code) - 1 - m.procs[p] :
              OwnRef(m, m.procs[p] + k) \/ byte(p, k) = Linked(m, m.procs[p] + k)
         /\ \A k \in DOMAIN m.strings :
              dsh_mem[tab[i].data_ofs + m.globals + k - 1] = m.strings[k]

\* "Change first opbyte to absolute index of module" (le_loader.c:343): also where
\* the compiler writes 0 for the module itself, in a procedure assigned to a variable
\* (M2SGL.MOD:883).
OwnReferences ==
  mode = "start" =>
    \A i \in DOMAIN tab :
      LET m == Meant(tab[i].name)
      IN \A a \in ToSet(m.refs) :
           OwnRef(m, a) => tab[i].code[tab[i].proc[1] - m.procs[1] + a + 1] = i

-----------------------------------------------------------------------------
(* Refinement: sections and code apart, this is the loader of Programs     *)

Digest(m, name) == [file |-> name, name |-> m.name, key |-> m.key, imports |-> m.imports,
                    size |-> m.globals + Len(m.strings)]
NamesIn(dirs) == UNION {{n[2] : n \in DOMAIN dirs[i]} : i \in DOMAIN dirs}
DiskOf(dirs) ==
  {Digest(Search(dirs, n, PrefixOf(n))[1].module, n) :
     n \in {x \in NamesIn(dirs) : Search(dirs, x, PrefixOf(x)) # <<>>}}

\* The program's file holds the program, and the key, which is the time of the
\* compilation, tells versions apart.
ASSUME DiskAssumption ==
  \A dirs \in Setups :
    /\ \A f \in DiskOf(dirs) : f.file = Boot => f.name = Boot
    /\ \A f, g \in DiskOf(dirs) :
         f.name = g.name /\ f.key = g.key => f.imports = g.imports

IdsOf(t, i) == [k \in DOMAIN t[i].import |->
                  [name |-> t[t[i].import[k]].name, key |-> t[t[i].import[k]].key]]
EntryOf(t, i) ==
  [name |-> t[i].name, key |-> t[i].key, loaded |-> t[i].loaded, fixed |-> mode = "start",
   ofs |-> t[i].data_ofs, size |-> t[i].data_sz, links |-> t[i].import, ids |-> IdsOf(t, i)]

Loader == INSTANCE Programs WITH
  Files <- UNION {DiskOf(s) : s \in Setups}, Disks <- {DiskOf(s) : s \in Setups},
  Guests <- {}, AgainToo <- FALSE, MaxNest <- 1, MaxCalls <- 1,
  disk <- DiskOf(paths),
  tab <- [i \in DOMAIN complete.tab |-> EntryOf(complete.tab, i)],
  data_top <- complete.data_top,
  gs_S <- 0, gs_G <- 0, first <- 1, progs <- <<>>,
  loads <- IF mode \in {"parse", "mismatch", "unreadable"} THEN Front(loads) ELSE loads,
  mode <- CASE mode \in {"parse", "unreadable"} -> "load"
            [] mode = "unfixable" -> "fix"
            [] mode = "failed" -> "done"
            [] mode = "mismatch" -> "error"
            [] OTHER -> mode

\* Section by section, the loader does to the table what Programs says a file does
\* in one step: nothing is seen of a file before it was read to its end, and an error
\* inside a file leaves the emulator where Programs stops too, or stops it earlier.
LoaderSpec == Loader!Spec
=============================================================================
