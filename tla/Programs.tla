------------------------------ MODULE Programs ------------------------------
(***************************************************************************)
(* Loading, running and unloading programs: the module table (le_mach.c),  *)
(* the recursive loader (le_loader.c), and in le_mcode.c the start of      *)
(* le_execute, the calls between modules, SVC 1 (load and run another      *)
(* program inside the running one) and the clean-up at the end.            *)
(*                                                                         *)
(* le_load_objfile calls itself for every import that is still missing;    *)
(* loads holds, for each call in progress, its variable top.  One step is  *)
(* one file parsed, one pass through a loop, or one opcode.  An object     *)
(* file is its module, the imports with the keys they had at compile time, *)
(* and the size of the data; code and procedure numbers are left out.      *)
(***************************************************************************)
EXTENDS Integers, Sequences, SequencesExt, Lists

CONSTANTS
  Files,      \* object files: [file, name, key, imports, size]
  Disks,      \* what may be found along the include paths: subsets of Files
  Boot,       \* the file given on the command line
  Guests,     \* the files that programs ask SVC 1 for
  AgainToo,   \* whether they also ask for one whose module is in the table
  ModTabMax,  \* MOD_TAB_MAX, the entries of the module table
  MaxNest,    \* bound: programs running one inside another
  MaxCalls    \* bound: calls in progress in a program

Id == [name : {f.name : f \in Files} \union UNION {{i.name : i \in ToSet(f.imports)} : f \in Files},
       key : {f.key : f \in Files} \union UNION {{i.key : i \in ToSet(f.imports)} : f \in Files}]

\* A module is imported once, and never by itself: the compiler sees to that.
ASSUME FileAssumption ==
  \A f \in Files :
    /\ f.imports \in Seq(Id) /\ f.size \in Nat
    /\ \A i \in DOMAIN f.imports :
         /\ f.imports[i].name # f.name
         /\ \A j \in DOMAIN f.imports : f.imports[i].name = f.imports[j].name => i = j
ASSUME DiskAssumption ==
  \A d \in Disks : d \subseteq Files /\ \A f, g \in d : f.file = g.file => f = g
ASSUME BoundAssumption ==
  ModTabMax \in Nat \ {0} /\ MaxNest \in Nat \ {0} /\ MaxCalls \in Nat \ {0}

VARIABLES
  disk,      \* the object files that le_load_search can find
  tab,       \* module_tab from entry 1 on; module_num is Len(tab) + 1
  data_top,  \* end of the module data
  gs_S,      \* stack pointer
  gs_G,      \* data base of the current module
  mode,      \* where the emulator is
  want,      \* file name given to le_load_objfile
  first,     \* top of le_load_initfile
  loads,     \* top of each le_load_objfile in progress, innermost last
  progs      \* the le_execute in progress, innermost last

load == <<want, first, loads>>
vars == <<disk, tab, data_top, gs_S, gs_G, mode, load, progs>>

Modes == {"load", "scan", "fix", "start", "run", "end", "resume", "failed",
          "done", "error", "undefined"}

\* Base of the data of entry 0, System, which nothing ever sets.
SystemData == -1

\* No load fails half-way for want of a file: whatever an object file on the disk
\* imports is there, in a file of that name.  The file may hold another module, as
\* long as no file holds the one that its name says.
Complete ==
  \A d \in Disks : \A f \in d : \A id \in ToSet(f.imports) :
    \E g \in d : g.file = id.name /\ (g.name = id.name \/ \A h \in Files : h.name # id.name)

-----------------------------------------------------------------------------
(* The module table                                                        *)

module_num == Len(tab) + 1
Names(t) == {t[i].name : i \in DOMAIN t}
IndexIn(t, name) == CHOOSE i \in DOMAIN t : t[i].name = name

\* find_mod_entry: the name is there with another key.
Clash(id) == \E i \in DOMAIN tab : tab[i].name = id.name /\ tab[i].key # id.key

\* init_mod_entry: an entry that waits to be loaded.
Missing(id) ==
  [name |-> id.name, key |-> id.key, loaded |-> FALSE, fixed |-> FALSE,
   ofs |-> 0, size |-> 0, links |-> <<>>, ids |-> <<>>]

\* The module section of f; the data goes to data_top.
Loaded(f) ==
  [name |-> f.name, key |-> f.key, loaded |-> TRUE, fixed |-> FALSE,
   ofs |-> data_top, size |-> f.size, links |-> <<>>, ids |-> f.imports]

\* The table after the module section of f: a known module keeps its entry.
WithOwn(f) ==
  IF f.name \in Names(tab) THEN [tab EXCEPT ![IndexIn(tab, f.name)] = Loaded(f)]
                           ELSE Append(tab, Loaded(f))

\* An import that is not known gets the next entry.
WithImports(f) ==
  LET fresh == Only(f.imports, {id \in Id : id.name \notin Names(WithOwn(f))})
  IN WithOwn(f) \o [i \in DOMAIN fresh |-> Missing(fresh[i])]

\* The table after the module section and the import section of f.
WithModule(f) ==
  LET all == WithImports(f)
  IN [all EXCEPT ![IndexIn(all, f.name)].links =
        [i \in DOMAIN f.imports |-> IndexIn(all, f.imports[i].name)]]

-----------------------------------------------------------------------------
(* Programs                                                                *)

Now == Last(progs)
modn == Last(Now.calls).mod

\* Mutant: the loader leaves data_top where it was.
DataAfterNever(f) == data_top

\* data_top after the module section of f.
DataAfter(f) == data_top + f.size

\* top of le_load_initfile: "the new module will be loaded here if successful".
InitTop == module_num

\* Mutant: gs_G stays what it is.
BaseKept(i) == gs_G

\* The gs_G that set_module_ptr sets for entry i.
Base(i) == IF i = 0 THEN SystemData ELSE tab[i].ofs

\* SVC 1: the stack of the program is put out of reach by raising data_top.
CallProgram(name) ==
  /\ mode = "run"
  /\ Len(progs) < MaxNest
  /\ AgainToo \/ \A f \in disk : f.file = name => f.name \notin Names(tab)
  /\ progs' = [progs EXCEPT ![Len(progs)].S = gs_S, ![Len(progs)].data = data_top,
                            ![Len(progs)].num = module_num]
  /\ data_top' = gs_S
  /\ want' = name
  /\ first' = InitTop
  /\ loads' = <<>>
  /\ mode' = "load"
  /\ UNCHANGED <<disk, tab, gs_S, gs_G>>

\* le_load_objfile without a file: every call in progress returns FALSE, and
\* le_load_initfile returns 0.
NotFound ==
  /\ mode = "load"
  /\ \A f \in disk : f.file # want
  /\ mode' = IF progs = <<>> THEN "done" ELSE "failed"
  /\ loads' = <<>>
  /\ UNCHANGED <<disk, tab, data_top, gs_S, gs_G, want, first, progs>>

Ids(f) == {[name |-> f.name, key |-> f.key]} \union ToSet(f.imports)

\* le_parse_objfile.  The loop that follows starts after the next free entry,
\* taking that one for the module itself; with a full table, in 8 bits, at 0.
Parse ==
  /\ mode = "load"
  /\ \E f \in disk :
       /\ f.file = want
       /\ \A id \in Ids(f) : ~ Clash(id)
       /\ Len(WithModule(f)) < ModTabMax
       /\ tab' = WithModule(f)
       /\ data_top' = DataAfter(f)
  /\ loads' = Append(loads, (module_num + 1) % (ModTabMax + 1))
  /\ mode' = "scan"
  /\ UNCHANGED <<disk, gs_S, gs_G, want, first, progs>>

\* le_error: key mismatch, or module table overflow.
ParseError ==
  /\ mode = "load"
  /\ \E f \in disk :
       /\ f.file = want
       /\ (\E id \in Ids(f) : Clash(id)) \/ Len(WithModule(f)) >= ModTabMax
  /\ mode' = "error"
  /\ UNCHANGED <<disk, tab, data_top, gs_S, gs_G, load, progs>>

\* Condition of the loop over the entries that the file may have added.
MoreToLoad(top) == top < module_num

\* One pass of that loop, which loads what is missing.
Scan ==
  /\ mode = "scan"
  /\ MoreToLoad(Last(loads))
  /\ LET p == tab[Last(loads)]
     IN IF Last(loads) = 0 \/ p.loaded THEN UNCHANGED <<mode, want>>
                    ELSE mode' = "load" /\ want' = p.name
  /\ loads' = [loads EXCEPT ![Len(loads)] = @ + 1]
  /\ UNCHANGED <<disk, tab, data_top, gs_S, gs_G, first, progs>>

\* le_load_objfile returns TRUE, to itself or to le_load_initfile.
ScanEnds ==
  /\ mode = "scan"
  /\ ~ MoreToLoad(Last(loads))
  /\ loads' = Front(loads)
  /\ mode' = IF Len(loads) = 1 THEN "fix" ELSE "scan"
  /\ UNCHANGED <<disk, tab, data_top, gs_S, gs_G, want, first, progs>>

\* Mutant: only the first of the new modules is linked.
FixFromFirstOnly(i) == i = first

\* The entries that le_fix_extcalls(first) works on.
FixedNow(i) == i >= first

\* le_fix_extcalls: external references become indices of the table.
FixExtCalls ==
  /\ mode = "fix"
  /\ \A i \in DOMAIN tab : i >= first => tab[i].loaded
  /\ tab' = [i \in DOMAIN tab |-> IF FixedNow(i) THEN [tab[i] EXCEPT !.fixed = TRUE]
                                                 ELSE tab[i]]
  /\ mode' = "start"
  /\ UNCHANGED <<disk, data_top, gs_S, gs_G, load, progs>>

\* "Module missing after load": the file held another module.
FixError ==
  /\ mode = "fix"
  /\ \E i \in DOMAIN tab : i >= first /\ ~ tab[i].loaded
  /\ mode' = "error"
  /\ UNCHANGED <<disk, tab, data_top, gs_S, gs_G, load, progs>>

\* le_execute(first), up to the first instruction.  Beyond the entries in use
\* the table holds what malloc or an unloaded module left there.
Execute ==
  /\ mode = "start"
  /\ IF first < module_num
     THEN mode' = "run" /\ gs_G' = Base(first)
     ELSE mode' = "undefined" /\ UNCHANGED gs_G
  /\ gs_S' = data_top + 4
  /\ progs' = Append(progs, [exec |-> first, S |-> 0, data |-> 0, num |-> 0,
                             calls |-> <<[mod |-> first, S |-> data_top]>>])
  /\ UNCHANGED <<disk, tab, data_top, load>>

\* CLX: call a procedure of an imported module.
CallModule ==
  /\ mode = "run"
  /\ Len(Now.calls) < MaxCalls
  /\ \E m \in ToSet(tab[modn].links) :
       /\ progs' = [progs EXCEPT ![Len(progs)].calls =
                      Append(@, [mod |-> m, S |-> gs_S])]
       /\ IF m < module_num /\ tab[m].fixed
          THEN gs_G' = Base(m) /\ UNCHANGED mode
          ELSE mode' = "undefined" /\ UNCHANGED gs_G
  /\ gs_S' = gs_S + 4
  /\ UNCHANGED <<disk, tab, data_top, load>>

\* RTN.  The one of the main module brings back module 0 and ends the program.
Return ==
  /\ mode = "run"
  /\ gs_S' = Last(Now.calls).S
  /\ progs' = [progs EXCEPT ![Len(progs)].calls = Front(@)]
  /\ IF Len(Now.calls) > 1
     THEN gs_G' = Base(Now.calls[Len(Now.calls) - 1].mod) /\ UNCHANGED mode
     ELSE gs_G' = Base(0) /\ mode' = "end"
  /\ UNCHANGED <<disk, tab, data_top, load>>

\* Mutant: the entry of the program itself is left in the table.
StaysAboveExec(exec) == Len(tab) > exec

\* Condition of the loop that unloads what was loaded for a program.
Stays(exec) == Len(tab) >= exec

\* One pass of that loop: mach_unload_top frees the procedure table, which only
\* le_fix_extcalls allocates.
UnloadTop ==
  /\ mode = "end"
  /\ Stays(Now.exec)
  /\ IF Last(tab).fixed
     THEN data_top' = data_top - Last(tab).size /\ UNCHANGED mode
     ELSE mode' = "undefined" /\ UNCHANGED data_top
  /\ tab' = Front(tab)
  /\ UNCHANGED <<disk, gs_S, gs_G, load, progs>>

\* le_execute returns, to le_main or to SVC 1.
ExecuteReturns ==
  /\ mode = "end"
  /\ ~ Stays(Now.exec)
  /\ progs' = Front(progs)
  /\ mode' = IF Len(progs) = 1 THEN "done" ELSE "resume"
  /\ UNCHANGED <<disk, tab, data_top, gs_S, gs_G, load>>

\* The end of SVC 1, after a program or after none.
Resume ==
  /\ mode \in {"resume", "failed"}
  /\ gs_S' = data_top
  /\ data_top' = Now.data
  /\ mode' = "run"
  /\ UNCHANGED <<disk, tab, gs_G, load, progs>>

\* A program, say a compiler, writes object files, or removes some.
ChangeDisk ==
  /\ mode = "run"
  /\ disk' \in Disks
  /\ UNCHANGED <<tab, data_top, gs_S, gs_G, mode, load, progs>>

Init ==
  /\ disk \in Disks
  /\ tab = <<>>
  /\ data_top = 0
  /\ gs_S = 0
  /\ gs_G = 0
  /\ mode = "load"
  /\ want = Boot
  /\ first = 1
  /\ loads = <<>>
  /\ progs = <<>>

Loading == NotFound \/ Parse \/ ParseError \/ Scan \/ ScanEnds \/ FixExtCalls \/ FixError
Ending == UnloadTop \/ ExecuteReturns \/ Resume

Next ==
  \/ \E name \in Guests : CallProgram(name)
  \/ Loading
  \/ Execute
  \/ CallModule
  \/ Return
  \/ Ending
  \/ ChangeDisk

Spec == Init /\ [][Next]_vars

-----------------------------------------------------------------------------
(* Properties                                                              *)

Entry == [name : {id.name : id \in Id}, key : {id.key : id \in Id}, loaded : BOOLEAN,
          fixed : BOOLEAN, ofs : Nat, size : Nat, links : Seq(Nat), ids : Seq(Id)]
Frame == [mod : 1 .. ModTabMax, S : Nat]
Program == [exec : 1 .. ModTabMax, S : Nat, data : Nat, num : Nat, calls : Seq(Frame)]

TypeOK ==
  /\ disk \in Disks
  /\ tab \in Seq(Entry) /\ module_num <= ModTabMax
  /\ data_top \in Nat /\ gs_S \in Nat /\ gs_G \in Nat \union {SystemData}
  /\ mode \in Modes
  /\ want \in Guests \union {Boot} \union {id.name : id \in Id}
  /\ first \in 1 .. ModTabMax
  /\ loads \in Seq(0 .. ModTabMax)
  /\ progs \in Seq(Program) /\ Len(progs) <= MaxNest
  /\ mode \in {"run", "end", "resume", "failed"} => progs # <<>>
  /\ mode = "run" => Now.calls # <<>>

\* "Load executable and its dependencies" (le_loader.c:482): when a program runs,
\* every import of the module it is in has become the index of a module that is
\* loaded, linked itself, and of the version that was compiled against.
DependenciesLoaded ==
  mode = "run" =>
    \A k \in DOMAIN tab[modn].ids :
      LET i == tab[modn].links[k]
      IN /\ i \in DOMAIN tab /\ tab[i].loaded /\ tab[i].fixed
         /\ tab[i].name = tab[modn].ids[k].name /\ tab[i].key = tab[modn].ids[k].key

\* The emulator never runs, calls or unloads what the table does not hold.
Defined == mode # "undefined"

\* "Set code and data pointers to specified module index" (le_mcode.c:70): gs_G,
\* from which global variables are addressed, is the base of the module that
\* runs, through all calls, programs and failed loads.  After SVC 1 it is the one
\* of entry 0, which nothing restores, until the calling module is left.
GlobalsOfRunning == mode = "run" => gs_G \in {tab[modn].ofs, SystemData}

=============================================================================
