------------------------------ MODULE Machine ------------------------------
(***************************************************************************)
(* The emulator as a whole: programs that run one inside another           *)
(* (Programs) share one memory with the heap (Heap) and the list of open   *)
(* files.  Data of modules and stacks of programs grow upwards from        *)
(* address 0, a program that is called on top of the one that waits; the   *)
(* heap grows downwards from the end.                                      *)
(*                                                                         *)
(* le_execute passes exec_mod, the entry of the program that runs, to each *)
(* supervisor call, whatever module the call comes from: that is the owner *)
(* of the block or the file.  When the program ends it goes through the    *)
(* entries from the top of the table down to its own, and for each takes   *)
(* back the data, closes the files and releases the blocks.                *)
(*                                                                         *)
(* Nothing stops the stack, or the data of a module that is loaded, where  *)
(* the heap begins.  What follows then depends on which words the programs *)
(* use: spilled, a history variable, ends the behaviour there.             *)
(***************************************************************************)
EXTENDS Programs

CONSTANTS
  MemSize,   \* MACH_DSHMEM_SZ, the words of dsh_mem
  Sizes,     \* sizes of blocks that programs ask for
  Locals,    \* sizes of the frames that ENTR makes
  MaxBlocks, \* bound: blocks in the list of the heap, heap_top among them
  MaxFiles   \* bound: open files

ASSUME MemorySizeAssumption == MemSize \in Nat \ {0}
ASSUME RequestAssumption == Sizes \subseteq Nat /\ Locals \subseteq Nat
ASSUME OpenBoundAssumption == MaxBlocks \in Nat /\ MaxFiles \in Nat

VARIABLES
  heap, gs_H, cur, call, status,  \* as in Heap
  files,    \* fd_list: the owner of each open file, newest first
  spilled   \* history: the stack or the data of modules went into the heap

H == INSTANCE Heap WITH
       Mods <- 1 .. ModTabMax, Disposals <- 0 .. MemSize, Limits <- {MemSize},
       StackTops <- {0}

heapVars == <<heap, gs_H, cur, call, status>>
machineVars == <<vars, heapVars, files, spilled>>

\* hp_free_all(..., UINT16_MAX)
NoLimit == MemSize

-----------------------------------------------------------------------------
(* What the running program asks for                                       *)

\* Mutant: the module that runs, maybe a library of another program, owns it.
OwnerRunning == modn

\* le_supervisor_call(exec_mod, ...)
Owner == Now.exec

Asks == mode = "run" /\ cur = 0

\* Mutant: a block is put below the others wherever the stack is.
AllocateAnywhere(n) ==
  /\ Asks
  /\ Len(heap) < MaxBlocks
  /\ H!AllocGap(Owner, n) \/ H!AllocExtendUnchecked(Owner, n)
  /\ UNCHANGED <<vars, files, spilled>>

\* SVC 0, allocate
Allocate(n) ==
  /\ Asks
  /\ Len(heap) < MaxBlocks
  /\ H!AllocGap(Owner, n) \/ H!AllocExtend(Owner, n)
  /\ UNCHANGED <<vars, files, spilled>>

\* "Heap overflow" ends the emulator.
AllocateFails(n) ==
  /\ Asks
  /\ H!AllocOverflow(n)
  /\ mode' = "error"
  /\ UNCHANGED <<disk, tab, data_top, gs_S, gs_G, load, progs, files, spilled>>

\* SVC 0, deallocate: programs give back what they obtained.
Deallocate ==
  /\ Asks
  /\ \E i \in H!Live : heap[i].owner = Owner /\ H!FreeCall(heap[i].adr)
  /\ UNCHANGED <<vars, files, spilled>>

\* SVC 3, fs_open and fs_close; a library may close what another program opened.
OpenFile ==
  /\ Asks
  /\ Len(files) < MaxFiles
  /\ files' = <<Owner>> \o files
  /\ UNCHANGED <<vars, heapVars, spilled>>

CloseFile ==
  /\ Asks
  /\ \E i \in DOMAIN files : files' = RemoveAt(files, i)
  /\ UNCHANGED <<vars, heapVars, spilled>>

\* ENTR, ALLOC and the opcodes that push onto the stack
Enter(n) ==
  /\ Asks
  /\ gs_S < MemSize - n
  /\ gs_S' = gs_S + n
  /\ UNCHANGED <<disk, tab, data_top, gs_G, mode, load, progs, heapVars, files>>

EnterTrap(n) ==
  /\ Asks
  /\ gs_S >= MemSize - n
  /\ mode' = "error"
  /\ UNCHANGED <<disk, tab, data_top, gs_S, gs_G, load, progs, heapVars, files>>

-----------------------------------------------------------------------------
(* The end of a program                                                    *)

\* fs_close_all
ClosedFor(m) == Only(files, (1 .. ModTabMax) \ {m})

\* One pass of the loop at the end of le_execute, up to the loop of hp_free_int.
CleanUp ==
  /\ cur = 0
  /\ UnloadTop
  /\ files' = ClosedFor(Len(tab))
  /\ H!FreeAllCall(Len(tab), NoLimit)

\* The loop of hp_free_int, for hp_free or hp_free_all.
Free ==
  /\ H!FreeLoop
  /\ UNCHANGED <<vars, files, spilled>>

-----------------------------------------------------------------------------

\* A step of Programs that has nothing to do with blocks and files.
Alone(step) == cur = 0 /\ step /\ UNCHANGED <<heapVars, files>>

Loads == Alone(Loading)
Starts == Alone(Execute)
Continues == Alone(ExecuteReturns \/ Resume)

Calls(name) == Alone(CallProgram(name))
Runs == Alone(CallModule \/ Return \/ ChangeDisk)

\* The stack or the data reach beyond the lowest block.
Spills == spilled' = (gs_S' > gs_H' \/ data_top' > gs_H')

MachineInit ==
  /\ Init
  /\ heap = <<H!HeapTop>> /\ gs_H = H!Nil
  /\ cur = 0 /\ call = H!NoCall /\ status = "run"
  /\ files = <<>>
  /\ spilled = FALSE

Emulator ==
  /\ ~ spilled
  /\ \/ (Loads \/ Starts \/ Continues \/ CleanUp) /\ Spills
     \/ Free

Guest ==
  /\ ~ spilled
  /\ \/ \E n \in Sizes : Allocate(n) \/ AllocateFails(n)
     \/ Deallocate
     \/ OpenFile
     \/ CloseFile
     \/ \E n \in Locals : (Enter(n) \/ EnterTrap(n)) /\ Spills
     \/ (Runs \/ \E name \in Guests : Calls(name)) /\ Spills

MachineNext == Emulator \/ Guest

MachineSpec ==
  /\ MachineInit /\ [][MachineNext]_machineVars
  /\ WF_machineVars(Emulator)

-----------------------------------------------------------------------------
(* Properties                                                              *)

MachineTypeOK ==
  /\ TypeOK
  /\ H!TypeOK
  /\ files \in Seq(1 .. ModTabMax)
  /\ spilled \in BOOLEAN

\* The programs whose stack is in memory, without the one that runs.
Waiting ==
  IF mode \in {"run", "end"} THEN 1 .. Len(progs) - 1 ELSE 1 .. Len(progs)

\* What is in use: from lo, up to but without hi.
Areas ==
  {[of |-> <<"data", i>>, lo |-> tab[i].ofs, hi |-> tab[i].ofs + tab[i].size] :
     i \in DOMAIN tab}
  \union {[of |-> <<"stack", k>>, lo |-> progs[k].calls[1].S, hi |-> progs[k].S] :
            k \in Waiting}
  \union (IF mode = "run" THEN {[of |-> <<"stack", Len(progs)>>,
                                 lo |-> Now.calls[1].S, hi |-> gs_S]}
          ELSE {})
  \union {[of |-> <<"block", i>>, lo |-> heap[i].adr, hi |-> heap[i].adr + heap[i].sz] :
            i \in H!Live}

\* Data of modules, stacks of the program that runs and of those that wait
\* (le_mcode.c:757), and blocks of the heap never share a word and lie inside
\* the memory, through all loads, calls, allocations and clean-ups, up to the
\* point where the stack or the data of a module go into the heap.
MemoryMap ==
  ~ spilled /\ mode # "error" =>
    \A a \in Areas : a.lo < a.hi =>
      /\ a.hi <= MemSize
      /\ \A b \in Areas : b # a /\ b.lo < b.hi => a.hi <= b.lo \/ b.hi <= a.lo

\* "Clean up loaded modules, heap and file descriptors" (le_mcode.c:1507): each
\* block and each open file belongs to a program in progress, so that one that has
\* ended, with whatever libraries were loaded for it, leaves none.
OwnersAlive ==
  cur = 0 =>
    LET alive == {progs[k].exec : k \in DOMAIN progs}
    IN /\ \A i \in H!Live : heap[i].owner \in alive
       /\ \A i \in DOMAIN files : files[i] \in alive

\* No other program, and no clean-up after one, releases a block of a program that
\* waits.
WaitingKeep ==
  [][\A i \in H!Live :
       (\E k \in 1 .. Len(progs) - 1 : progs[k].exec = heap[i].owner)
         => \E j \in DOMAIN heap' : heap'[j] = heap[i]]_machineVars

\* SVC 1 (le_mcode.c:743) leaves the calling program its stack ("Restore the
\* stack", le_mcode.c:774) and the module table as they were, whatever modules,
\* blocks and files the program that was called had.
CallerRestored ==
  [][mode' = "run" /\ mode \in {"resume", "failed"} =>
       gs_S' = Now.S /\ Len(tab') + 1 = Now.num]_machineVars

\* Loading ends, although modules import one another in a circle, and so does
\* the clean-up with its loops over table and heap: a program that calls another
\* one goes on, unless an error ends the emulator.
CallsAnswered ==
  mode \in {"load", "end"} ~> mode \in {"run", "done", "error"} \/ spilled

=============================================================================
