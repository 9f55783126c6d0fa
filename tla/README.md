# A TLA+ model of MULE, the Lilith M-code emulator

MULE runs object files of the Modula-2 computer Lilith.  It is a program of one
thread: an interpreter with a stack, a heap and a table of modules, a loader, and
supervisor calls for what the Lilith's operating system did.  What is hard about
it is not concurrency but long sequences of legal operations on data structures
that share one memory of 2^16 words: blocks and gaps of the heap, marks on the
stack, programs loaded inside programs, files hidden by other files.

Sources are under `src/src` (the emulator, C) and `src/disk` (the disk image, in
Modula-2).

## 1. Inventory

| Component | State | Operations | Used by | Hard behaviour, and what correctness means |
|---|---|---|---|---|
| Heap `le_heap.c` | list of block headers from `heap_top` downwards, `gs_H` | `hp_init`, `hp_alloc`, `hp_free`, `hp_free_all` | SVC 0, end of `le_execute` | first fit, splitting, merging inside the loop that walks the list. Blocks tile the heap and are disjoint, a release concerns its owner only, an ended program leaves nothing |
| Stack and calls `le_stack.c`, opcodes CLL CLI CLX CLF RTN ENTR GB of `le_mcode.c` | `dsh_mem`, `gs_S`, `gs_CS`, `gs_L`, `gs_PC`, current module; expression stack `gs_SP` | `stk_mark`, RTN, `es_push`, `es_pop`, `es_save`, `es_restore` | every opcode | one word of a mark tells local from external calls, static links. RTN restores the caller; the end of the main module, and nothing else, ends the program |
| Interpreter `le_mcode.c` | the registers above | about 200 opcodes | `le_main`, SVC 1 | 16-bit arithmetic, in C; FOR and CASE, which keep words on the stack and addresses relative to themselves; operands that wait while a function runs. The code of a program does what the program means in Modula-2 |
| Module table `le_mach.c` | `module_tab`, `module_num` | `find_mod_entry`, `init_mod_entry`, `mach_unload_top` | loader, end of `le_execute` | entries that wait to be loaded; keys; what a failed load leaves |
| Loader `le_loader.c` | `data_top`, include paths | `le_load_initfile`, `le_load_objfile`, `le_parse_objfile`, `le_fix_extcalls` | `le_main`, SVC 1 | recursion over imports that may be circular. A program runs with its imports, of the right versions, linked; data frames do not overlap |
| Programs: SVC 1 and the frame of `le_execute` | saved registers on the C stack, `data_top` | start, nested call, clean-up | `Program.Call` on the disk | a program inside a program. The caller gets its stack, table and data base back |
| Supervisor calls `le_syscall.c` | none | SVC 0 heap, 2 time, 3 files | opcode SVC | parameters from the expression stack; results |
| File system `le_filesys.c` | list of open files, cache of the last used | `fs_open` ... `fs_close_all`, `fs_swapcpy` | SVC 3, end of `le_execute` | the cache, hidden files, temporary files, files of ended programs. A File variable always means the file opened last with it |
| Monitor `le_trace.c` | breakpoint, trace and register flags | `le_monitor`, `le_decode`, `le_trap` | interpreter loop | breakpoints and single steps |
| Terminal `le_io.c` | character read ahead | channels, `le_error` | opcodes READ, DCH | none to speak of |
| Command line `le_main.c`, `le_usage.c` | options | `main` | | none |
| Disk: `Storage`, `Program`, `Monitor`, `FileSystem`, `Comint` | | stubs around SVC | guest programs | how the calls above are used |
| Disk: compiler `M2S*` | object file in the making | one generator per construct (`M2SGL.MOD`) | | a guest program; what it emits is what the interpreter has to execute |
| Disk: other libraries | | | | guest programs of the Lilith; not MULE's logic |

Components call one another directly; they share `dsh_mem`, `data_top`, `gs_S`
and `gs_H`.  The end of `le_execute` is where they meet: for every module from the
top of the table down to the program's own it unloads the module, closes its files
and releases its blocks.

The hazards, each at its line with the properties that would catch it, are the
list `hazards` of `PROJECT.json`.

## 2. Modules

Every definition that models code says in a comment which function it is;
`PROJECT.json` gives the lines.  Where a definition is called a *mutant* it is the
definition after it with a plausible mistake, which the property it is listed for
must detect.

| Module | Models | Runs |
|---|---|---|
| `Heap` | `le_heap.c`; one action per outcome of `hp_alloc`, one per pass through the loop of `hp_free_int` | |
| `HeapSpec`, `MCHeap` | the allocator programs rely on; the instance of `Heap` that implements it | `HeapUnload` |
| `HeapMark` | `Heap` used by programs: owners, nested programs, ResetHeap | `HeapMark` |
| `HeapProofs` | theorems about `Heap` and its refinement of `HeapSpec` | |
| `HeapMarkProofs` | theorems about `HeapMark` | |
| `Frames`, `MCFrames` | `stk_mark`, calls, RTN, ENTR, GB, pushes and drops | `FramesCalls` |
| `FramesProofs` | theorems about `Frames` | |
| `Programs`, `MCPrograms` | module table, recursive loader, SVC 1, CLX/RTN between modules, clean-up | `ProgramsStale` |
| `Machine`, `MCMachine` | `Programs`, `Heap`, the open files and the stack in one memory | `Machine` |
| `MachineProofs` | theorems about `Programs` and `Machine` | |
| `ObjectFile`, `MCObjectFile` | the object file as the compiler writes it; search, sections, fix-ups: `le_loader.c` | `ObjectFile`, `ObjectFileOwn` |
| `ObjectFileProofs` | theorems about `ObjectFile` and its refinement of `Programs` | |
| `Monitor`, `MCMonitor` | breakpoints and single steps: `le_monitor` and `le_opcode_len` of `le_trace.c` | `Monitor` |
| `MonitorProofs` | theorems about `Monitor` | |
| `Files`, `FilesSpec`, `MCFiles` | `le_filesys.c` and the commands of SVC 3; what File variables promise | `FilesOpen` |
| `FilesProofs` | theorems about `Files` and its refinement of `FilesSpec` | |
| `Lists`, `ListProofs` | what loops keep of a list; induction over numbers and lists, lemmas | |
| `Words` | what arithmetic, comparison, set, shift and field opcodes compute from words | |
| `MCode` | the loop of `le_execute` and the expression stack: one action per group of opcodes | |
| `CodeGen` | the compiler's scheme: the code it makes of expressions, statements, procedures and modules | |
| `Meaning` | what a program means in Modula-2, with integers and sets instead of words | |
| `Samples`, `MCModula` | sample programs with their inputs; `MCode` on their code, compared with `Meaning` | `Modula`, `ModulaNames`, `ModulaMasks` |

### Heap
`heap` is the linked list as a sequence, `heap_top` first.  `cur` is the pointer of
the loop in `hp_free_int` as an index (0 when no call runs), `call` its arguments.
`prev` needs no variable: whenever it is read it is the header before `cur`.
`AllocGap`, `AllocExtend` and `AllocOverflow` are the ways out of `hp_alloc`,
`Release`, `Skip` and `EndOfList` the ways through the loop body.  `gs_S` is moved by
the environment among `StackTops`: the heap only reads it.

`HeapMark` runs programs 1, 2, ... one inside another, each owning what it
allocates.  History variables give blocks their age, and remember whether a block
was ever disposed of or a program's blocks were ever released.  `NestingAssumption` says
that the programs are numbered from 1, without gaps.

### Frames
Memory is an array of words, and RTN reads the marks from it, as the code does: the
call history in `callers` exists only for the properties.  Code is abstracted to a
procedure that may at any time push or drop words above its mark, reserve local
variables, and call any procedure that exists; a procedure at level `l` may call
those of levels up to `l + 1`, which is what the compiler can produce.  Words at
`gs_S` and above are not part of the view `LiveWords` that tells states apart: all
opcodes modelled write a word there before they read it, so two states that differ
only there have the same successors up to such words.

### Programs
A disk is a set of object files, each a module with a name, a key, imports and a
size.  The recursion of `le_load_objfile` is the sequence `loads` of the values of its
`top`.  A program may change the disk (`ChangeDisk`), as a compiler does.  An index
of an entry that is not in use, or a linked procedure table that does not exist, is
undefined behaviour: `mode = "undefined"`.  `SystemData` stands for the data base of
entry 0, which no code sets.  `FileAssumption` is what the compiler sees to: a module
imports another one once, and never itself.  `le_parse_objfile` adds an entry for the
module (`WithOwn`) and then for every import that has none (`WithImports`).

`AgainToo` tells whether programs also call one whose module is in the table
already; it is `FALSE` in the runs, see *other differences* below.

### Machine
`Machine` extends `Programs` and takes `Heap` with `H == INSTANCE Heap`, the same
`gs_S` and the list of blocks pass by pass; of the open files it keeps the owners, in
the order of `fd_list`.  Each action of `Programs` is one of `Machine`, `UnloadTop` as a
part of `CleanUp`: one pass of the loop at the end of `le_execute` takes the data back,
closes the files and begins the loop of `hp_free_all`, and the next pass waits for that
loop to end (`cur = 0`).  Supervisor calls act for `Owner`, the `exec_mod` of the
innermost `le_execute`, whatever module makes them.  `spilled` is set when the stack or
the data of a module go beyond `gs_H`, which no opcode checks: from there on it depends on
the programs what is destroyed, and the behaviour ends.

### ObjectFile
Here the loader reads sections, where `Programs` has a file in one step.  A file is a
sequence of items: a word, a module's name and key, or a word of code.  `OutCodeFile`
writes the files of the compiler on the disk; `OldFile` is the other format the loader
knows, with a section for each procedure, which most of the files on the disk have.
Nobody's source writes it: it is derived from what the loader reads.  `Setups` are
directories with files, sound ones and damaged ones.  The compiled module
(`IsModule`) says what each byte means, and is not read by the loader: so
`LoadedAsCompiled` can compare.  `complete`, a history variable, is the table when
a file was last read to its end; it is what `Programs` sees.  Left out: the
extension `.OBJ` and a prefix that is part of the name, bytes that are read one at a
time, and running out of host memory.

The module names its assumptions about files, all of which TLC evaluates.
`WrittenAssumption` is a grammar: a file has perhaps a start, then the section of a
module, its imports if it has any, and after them data, code and relocations in any
order and number, each as long as its length says and with any contents (`IsFile`); or
it is one that the loader must refuse for its beginning, written for another loader or
cut off inside the names (`IsRejected`).  Both formats satisfy it, and most damaged
files too: a frame that is overrun, code where entry points are due, relocations that
lead nowhere.  `SetupAssumption` is that a module imports another one once, and never
itself, and that the code of a module refers to its own imports; `DiskAssumption` that
the file of the program holds the program, and that a key belongs to one version of a
module.

### Monitor
A guest is its code, an opcode with its targets at each address; data are left out, so
that a jump may go either way.  `here` is the module and `gs_PC`.  The length that s
takes an opcode for comes from the last characters of `mnem_tab` (`Plus` ... `Slash`), the
length that counts from the operands that `le_execute` fetches (`Fetched`): they were
read from two different places of the code, and the run compares them for every
opcode.  `CodeAssumption`: no code ends with an opcode that continues behind itself;
the emulator would execute whatever lies there.  `since` and `asked`, history
variables, are the last command and the breakpoint the user believes in.

### Files
`fd_list` is the list of open files, newest first; `last_m2file` and `last_fd` are the
cache.  An entry is known by its address, which `malloc` may give again after
`free`: that is what makes a stale cache dangerous.  A File variable is its address.
Files have a length; contents are left out.  A stream has a position and may be
dirty; the C library may write it at any time (`Flush`).  Left out: names that the
host refuses, hard links, and a File variable at address 0.  `by`, a history variable,
is the File variable the last command named.  `FilesSpec` has a stack of open files for
each File variable (`Stacks` of `MCFiles` is the mapping); it allows a command to change
the stack of that one only, at its top, and the end of a program to take its own files
out of all of them.  `Only` of `Lists` is what such loops keep of a list: it is
`SelectSeq`, written as a recursive function so that it can be reasoned about.

### MCode, CodeGen and Meaning
An opcode alone has little to be wrong about: what matters is that the code which
the compiler emits does what its author wrote.  `CodeGen` translates a program, given
as a syntax tree, into the opcodes that `M2SPL.MOD` and `M2SGL.MOD` emit for it, with
the compiler's own offsets, tables and order.  `MCode` executes them from memory, one
instruction per step.  `Meaning` evaluates the same tree without words, stacks or
addresses: a CARDINAL is a natural number, a BITSET a set, a variable parameter a
name.  Its outcome is a trap, the final values of the globals, or `"any"` where
Modula-2 defines nothing (overflow of a type, division
by zero, MOD of a negative number, an element outside the range of a set, FOR bounds
above MAX(INTEGER) or a limit from which the next value leaves the type): then
`ComputesMeaning` asks nothing of the machine.

The machine is scaled down: words of 8 bits, bytes of 4, an int of C of 16, a memory
of 256 words.  `Words` states each opcode for any even width, as C computes it on the
processors MULE runs on, also where the C standard leaves the result open (negative
shift counts, shifts of negative values).  Code lies outside the data memory, as in
MULE.  `LocalMark`, 0x100 in the code, is 16.

Left out of `MCode` are opcodes that stop the emulator (`_HALT`), REAL arithmetic,
priorities, string and external addresses, the monitor, and what `Frames` and
`Programs` model.  The compiler emits three of those that stop it: UCHK for a subrange
that begins above 0, SXD for an element of an array of LONGINT, STOFV for a call through
a variable inside an expression.  No sample uses them.  `CodeGen` folds no constants,
and has no LOOP, EXIT and WITH, whose code is that of WHILE and of a variable
parameter.

## 3. What the runs show

Passing runs; all are exhaustive within their bounds.

| Run | Properties | Bounds |
|---|---|---|
| `HeapUnload` | `Tiling`, `Disjoint`, the refinement `AllocatorSpec`, `OthersUntouched`, `FreeAllFreesAll`, `FreeReturns` | 6 words, 2 owners, blocks of 1 and 2 words, any pointer, limits in the middle and at the top |
| `HeapMark` | `AgesFollowAddresses`, `ResetReleasesYounger`, `ResetKeepsOlder`, `CoalescedByDispose` | 6 words, 3 nested programs |
| `FramesCalls` | `MarksIntact`, `EndsWithMain`, `StaticLinks`, `ReturnRestoresCaller` | 22 words, 4 calls in progress, 2 modules |
| `Machine` | `MemoryMap`, `DependenciesLoaded`, `Defined`, `GlobalsOfRunning`, `OwnersAlive`, `WaitingKeep`, `CallerRestored`, `CallsAnswered` | 24 words, 3 programs nested, 3 libraries of which two import each other, a table of 6 entries, 3 blocks of 2 words, 1 open file, 2 calls in progress in a program |
| `ObjectFile` | `LoadedAsCompiled`, the refinement `LoaderSpec` | a program and 3 libraries, each in either format and in either of 2 directories (256 disks), and 13 disks with something special or wrong |
| `Monitor` | `StepsStop`, `BreakpointMet` | every opcode alone, all kinds of calls, a loop over two modules, recursion, CASE in FOR, a program inside a program; 3 calls in progress |
| `FilesOpen` | `CacheSound`, `TempsDeleted`, `NoOrphanFiles`, the refinement `VariablesApart` | 2 File variables, 2 files open at a time, 2 nested programs, lengths of 0 and 1 |
| `Modula` | `ComputesMeaning`, `StatementsNeutral`, `Stops` | 39 programs of one operator each, on all pairs of 8 boundary values; 18 sample programs with loops, CASE, recursion, calls inside arguments, formal procedures, arrays, LONGINTs, records and subranges; 8-bit words |

`Modula` meets every opcode of `MCode` and each way out of it; `ComputesMeaning` leaves
aside stack overflow, since `Meaning` has no end of memory, but the samples
`Deep` and `Large` reach it, so that `TypeOK` is checked there.  `ROR` is given sets without
element 0 only: for the others C repeats the sign, which the standard does not define.
`StatementsNeutral` uses the addresses between statements, which `CodeGen` records
beside the code.

The other bounds are small but meet the cases that matter: six words hold up to six
blocks, so that a block has two free neighbours, a gap is split and the end of the
list is freed in all orders; three calls above the main module let a nested
procedure call one at an outer level through another module; the table of modules
overflows; two open files suffice for one to hide the other on the same variable, to
belong to different programs, and to share a file on the disk.  `FilesOpen` treats
results of `malloc` and `mkstemp` as interchangeable, and does not distinguish
states by the result of the last command (view `Live`).

Runs that find a disagreement of the code with its own documentation:

| Run | What TLC finds |
|---|---|
| `ProgramsStale` | after a load that failed, a program that needs the same library starts without it |
| `ObjectFileOwn` | a module that assigns one of its own procedures to a variable is linked with a byte from before its import table: number 0 is not refused |
| `ModulaNames` | after IN, which leaves the weight of a bit, NOT looks at bit 0 only: `Identifiers` of `FileNames` counts wrongly for "ab.c" |
| `ModulaMasks` | MSK(n) is the empty set for every n. The compiler on the disk, run by MULE, relies on it for `x MOD 8` and for set constructors |

Other differences are visible in the model and named at the definitions:

- Heap: after both single disposals and the release of whole programs a free block may
  remain below `heap_top`.  `hp_free_all` releases up to and including its limit where the
  comment says *above*.
- Stack: a local call from a frame in the last 0x100 words of memory is taken by RTN for
  an external one, since `gs_CS + 0x100` is computed in 16 bits.  `FramesCalls` and the
  theorems keep below that.  No opcode compares `gs_S`, and the loader not `data_top`,
  with `gs_H`: `Machine` ends there (`spilled`).
- Programs: `gs_G` is wrong between the end of SVC 1 and the next return from the calling
  module (`GlobalsOfRunning` has that exception).  A load that fails half-way leaves
  `data_top` raised, so that `CallerRestored` is checked on disks where every import can
  be found.  A module that is in the table already and is called as a program is loaded
  into its old entry, and the entry after the last one is started: with
  `AgainToo = TRUE` `Defined` fails.
- Files: Lookup with `new` empties a file that exists (`LookupNew`).  Rename reports an
  error when it succeeded, and SetRead and its kin report one always.
- Object files: a file cut off between two sections is taken for a complete one.
- Monitor: a breakpoint stays set once met, where the comment at `le_trace.c:299` says
  that it is disabled.  s replaces the user's breakpoint by its own; on EXC it never
  stops, since that opcode goes elsewhere; over a call in a recursive procedure it may stop
  in an inner activation.  `StepsStop` and `BreakpointMet` name these exceptions.

### Fairness
The emulator never waits inside a call: it is a single thread, and one that is in a loop
of its own executes on.  `FreeReturns` assumes weak fairness of the loop body of
`hp_free_int` (`FairSpec` of `Heap`); `CallsAnswered` of `Emulator` in `Machine`, which is
the loader, the start and clean-up of programs and that same loop.  Nothing is
assumed of guest programs there: they may run for ever, so that a call is answered, or
executes a program that does not end, or the machine is `spilled`.
`Stops` assumes weak fairness of `Execute` in `MCode`: the loop of `le_execute` takes the
next instruction as long as `gs_PC` is not 0 and no trap ended the emulator.

## 4. Proofs

All theorems hold for every value of the constants that meets the named assumptions,
which TLC evaluates in the runs; where a theorem has hypotheses besides, they are
stated with it and below.  Every inductive invariant was checked by TLC before it was
proved.

| Module | Proved | Hypotheses |
|---|---|---|
| `HeapProofs` | `TypeOK`, `Tiling`, `Disjoint`, the refinement `AllocatorSpec`, `FreeAllFreesAll`, `OthersUntouched` | |
| `HeapMarkProofs` | `AgesFollowAddresses`, `ResetReleasesYounger`, `ResetKeepsOlder`, `CoalescedByDispose` | |
| `FramesProofs` | `TypeOK`, `MarksIntact`, `EndsWithMain`, `StaticLinks`, `ReturnRestoresCaller` | `BelowTop` |
| `FilesProofs` | `TypeOK`, `CacheSound`, `TempsDeleted`, `NoOrphanFiles`, the refinement `VariablesApart` | |
| `MonitorProofs` | `TypeOK`, `StepsStop`, `BreakpointMet` | |
| `ObjectFileProofs` | `TypeOK`, the refinement `LoaderSpec` | |
| `MachineProofs` | of `Programs`: `TypeOK`, `Defined`, `DependenciesLoaded`, `GlobalsOfRunning`; of `Machine`: `MachineTypeOK`, `MemoryMap`, `OwnersAlive`, `WaitingKeep`, `CallerRestored`, those of `Programs`; that `MachineSpec` implements `Heap`, and with it the allocator of `HeapSpec` and `FreeAllFreesAll` | `Complete`, `~ AgainToo` |

### Heap
`Tiling` relates neighbours only; the inductive invariant states the order of
every pair:

    IInv == TypeOK /\ Tiling /\ Descending(heap)

A lemma for each way in which the list changes (split, owner, consolidation,
dropping the last header, appending) shows that a good list stays good.

The refinement and the two action properties need what the loop of `hp_free_int` has
done so far, `LoopInv`: the blocks it has passed hold nothing more of the module it
releases.  Without it "consolidate with previous block" could merge with a block that
is still owned.  `ReleaseShape` says what one pass does to the list in a form that all
conclusions share.

### HeapMark
The properties speak of the moments between two calls, so the invariant follows the
list through the loop.  As long as no single block was ever released, the loop leaves
at most one free block, directly behind its position, and all blocks below it are still
to be released (`Behind`): the gap moves to the end of the list and goes back to the
stack there.  While only single blocks are released, no two neighbours are free
(`Merged`).  `Nested` says that owners and ages are in the order of the addresses, and
`Stamps` what the history variables mean during the call.

### Frames
The hypothesis

    BelowTop == StackLimit + LocalMark <= MemSize

is needed: above it the word that marks a local call wraps around, and RTN takes it for
a module number.  The inductive invariant adds to `MarksIntact` that only the mark of
the main module holds a `gs_PC` of 0 (`EndMark`), so that a return to 0 can only be the
last.  `StaticLinks` follows the chain of links from the top frame down; it is proved by
induction along that chain (`DownTo`, `BaseDownIs`), from what a mark says of the
procedure it belongs to.

### Files
The invariant adds `Distinct` to the types and to `CacheSound`: no two entries have the
same address, because `malloc` gives an address again only after `free`.  An entry that is
taken out of the list therefore is the one that the cache has, and
`fs_close_all`, which frees in the middle of its loop, cannot leave the cache on an entry
that is gone.  The refinement goes command by command: each is one of the steps of
`FilesSpec` on the variable it names, and leaves what the list holds of every other
variable as it is (`OnlyWith`, `OnlyWithout`).  `FiniteAssumption` (there
are finitely many names and addresses) is used to count: an inode is left for a new file
(`FreshExists`).

### Monitor
After s the guest is at the instruction it was given for (`Start`), or in a call
that this instruction made and that returns to the breakpoint (`Inside`), or at
the end of the instruction (`End`).  That the return leads there is the agreement of two tables,
`LengthsAgree`, proved for all 256 opcodes: the lengths that `le_opcode_len` takes
from the mnemonics, and the operands that `le_execute` fetches.

### Programs and Machine
The table of modules is a stack of programs.  Up to the entries of a program that runs
or waits it is `Closed`: all are loaded, linked, and import nothing from above, and the
sizes of their data add up to what lies between the program's data base and
`data_top` (`Sums`).  `Stands` and `Waits` say this of one program; `InLoad` ... `InResume` say it of
each phase of a call.  The hypotheses are

- `Complete`: whatever an object file on the disk imports can be found there.  Without
  it a load fails half-way and leaves entries that are neither loaded nor removed:
  `ProgramsStale` shows how the next program starts without its library.
  `Doomed` marks the loads that end in "incompatible modules" all the same.
- `~ AgainToo`: no program asks for a module that is in the table.  With it `Defined` fails,
  see *other differences*.

The states of `Machine` that these allow are those of the run `Machine`, which assumes
both (`CompleteAssumption` of `MCMachine`).

Each step of `Machine` is one of `Programs`, one of `Heap`, or neither: the instance `HP`
of `HeapProofs` brings the heap's lemmas into `MachineProofs`.  `OwnInv` adds the owners: blocks and
files belong to programs in progress, and when the loop of `hp_free_all` ends nothing
of its module is left (`Gone`).  `MemInv` adds where things lie: the data of entries are
apart from each other (`DataApart`), the stack of a waiting program lies between the
data below and all that came later (`StacksApart`, `Before`), and all of them lie below `gs_H`
(`Under`).  `spilled` ends the behaviour where the emulator checks nothing, so
`MemoryMap` says that up to there memory is shared out properly.

`MachineRunsHeap` states the composition as an implementation: every step of `Machine` is a
step of `Heap` or leaves the heap alone.  It needs that no call of `hp_free` ends with
"heap pointer invalid", hence `Sane`: the block that the loop looks for is still before
it.  The abstract allocator of `HeapSpec` then follows for all programs together.

### Object files
The loader reads a file section by section into the table that it shares with every load
still in progress; in `Programs` a file changes the table in one step.  The inductive
invariant `Inv` of `ObjectFileProofs` therefore speaks of two tables, the one that is and the one
that the last complete file left (`complete`):

- `Consistent`: in the complete table each module has one entry, and a loaded one has the
  imports of a file on the disk, each at the index of an entry of that name and key.
- `Progress(k)`: while a file is read, there is a `k` such that what is left is the
  sections after the `k`-th, and `tab` is the complete table `Staged` with what the first `k`
  sections say: nothing, the module, or the module and an entry for every import that has
  none, in order.  The sections after the imports leave it `Staged`, whatever they hold.
- `Between`, `BootFirst`, `Linkable`: outside files the two tables agree, but for code and
  procedures; the program is entry 1 and never missing; only loaded entries are linked.

`TypeOK` alone is not inductive: that a section is what the parser takes it for rests
on `k` and the grammar (`FileIs`, `Ahead`), and that an import table holds numbers of entries on
`Staged`.

`ImplementsLoader` maps the end of a file (`EndOfFile`) to `Parse` of `Programs`, the end of
linking to `FixExtCalls`, a name with another key or a full table to "incompatible modules"; all
other sections are stutters.  At the end of a file `AtEnd` gives `Staged`, which is the table
`Parse` computes with its own functions (`LoaderAssembles`, entry by entry); keys that differ
inside the file being read are those that `Parse` refuses (`MismatchIs`).  A file that cannot be
read stops the loader before the step that `Programs` would take.

### Induction
The library's induction theorems take an operator as a parameter, which the provers
cannot instantiate.  `ListProofs` derives from the well-foundedness of the natural
numbers that a set of numbers with 0 and each successor is `Nat` (`Induction`), and
that a set of lists with the empty one, closed under `Append`, has all (`SeqInduction`).
The step of an induction is then a fact about a set, and functions recursive over
numbers can be reasoned about (`Only`, `Sums`, the chain of links).

### Only model-checked
- Liveness: `FreeReturns`, `CallsAnswered`, `Stops`.
- `ObjectFile.LoadedAsCompiled`: it compares code and procedure tables with what the
  compiler meant.  The assumption that the proofs rest on leaves open what the sections
  after the imports hold, and does not imply it; it needs `OutCodeFile` and `OldFile` themselves, and
  of those the second is written by a fold over the procedures.
- `MCode.TypeOK`, `ComputesMeaning` and `StatementsNeutral`.  `CodeGen` and `Meaning` are
  RECURSIVE operators over syntax trees, which the prover does not support; and `Words` rests on
  `2^Bits`, of which the provers know nothing, not even that 2^(n+1) is twice 2^n, so
  that nothing about words of every width can be proved.

## 5. Not modelled

- REAL arithmetic and the time: the host's.
- Of `le_trace.c` the disassembler and the display of registers, memory and call chain;
  `le_io.c`; options, include paths and messages of `le_main.c` and `le_usage.c`; tables of
  names: formatting and I/O, without state that anything else depends on.  Reading them
  shows that the disassembler prints the targets of JP, JPC and ENTC one too high, and
  that `le_show_callchain` (`le_trace.c:80`) takes the words of local calls for
  module numbers and those of external calls for none.
- The characters that `fs_swapcpy` copies, contents of files, names the host refuses.
- The guest programs on the disk, except for the way they use the supervisor calls and
  for the compiler's code generation and object files.
- Opcodes that stop the emulator.

## 6. Plan

Done: every component whose state others depend on has a module; `Machine` composes heap,
programs, files and stack; the safety properties of all of them but the opcodes and the
contents of code are theorems, and so are all refinements.  Left, the first having the most to lose:

1. `LoadedAsCompiled` for all files that `OutCodeFile` writes, by following its sections one by one.
2. In `MCode`: external variables and several modules; static links, GB and CLI, with
   nested procedures in `CodeGen`.
3. `fs_swapcpy` compared with a plain copy.
