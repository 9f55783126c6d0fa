------------------------------- MODULE Frames -------------------------------
(***************************************************************************)
(* Procedure calls of the M-code interpreter: stk_mark (le_stack.c) and    *)
(* the opcodes CLL, CLI, CLX, CLF, RTN, ENTR, GB, STOT and DECS of         *)
(* le_execute (le_mcode.c), for one program that runs.                     *)
(*                                                                         *)
(* A call writes a mark of four words at gs_S.  Its first word tells RTN   *)
(* where to go back: a number below 0x100 is the module of the caller, and *)
(* then the second word is the caller's base; anything else is the         *)
(* caller's base plus 0x100, the caller being in the same module.          *)
(*                                                                         *)
(* The code of a procedure is abstracted to what concerns the stack: it    *)
(* pushes and drops words above its own mark and calls procedures that     *)
(* exist.  callers is a history variable: for each call in progress, where *)
(* the caller was.                                                         *)
(***************************************************************************)
EXTENDS Integers, Sequences

CONSTANTS
  MemSize,     \* MACH_DSHMEM_SZ = 2^16: words of memory, and values of a word
  LocalMark,   \* 0x100, the first number that is not a module number
  DataTop,     \* data_top, where the stack of the program begins
  StackLimit,  \* bound: programs keep their stack below this address
  Main,        \* the module that le_execute was called for
  Modules,     \* the modules of the program
  Values,      \* words a program pushes, the values of its procedure variables
  CodeAddrs,   \* values of gs_PC while the program runs
  Entry,       \* where procedures begin: one address will do for all
  Sizes        \* operands of ENTR

ASSUME MemoryAssumption == MemSize \in Nat /\ LocalMark \in Nat /\ DataTop \in Nat
ASSUME LimitAssumption ==
  StackLimit \in Nat /\ DataTop + 4 <= StackLimit /\ StackLimit < MemSize
ASSUME ModuleAssumption ==
  Modules \subseteq 1 .. LocalMark - 1 /\ Main \in Modules
ASSUME ValueAssumption == Values \subseteq 0 .. MemSize - 1
ASSUME CodeAssumption == CodeAddrs \subseteq 1 .. MemSize - 1 /\ Entry \in CodeAddrs
ASSUME SizeAssumption == Sizes \subseteq Nat

VARIABLES
  mem,      \* dsh_mem
  gs_S,     \* stack pointer
  gs_CS,    \* base of the running procedure
  gs_L,     \* base of its local data
  gs_PC,
  modn,     \* index of the current module
  status,   \* "run", or the trap that ended the emulator
  level,    \* history: nesting level of the running procedure, 1 if global
  callers   \* history: what RTN must restore, innermost last

regs == <<gs_S, gs_CS, gs_L, gs_PC, modn>>
vars == <<mem, regs, status, level, callers>>

-----------------------------------------------------------------------------
(* The mark                                                                *)

Word == 0 .. MemSize - 1

\* Mutants: the number the comment at le_stack.c:128 gives, and none at all.
LocalWordFF(cs) == (cs + LocalMark - 1) % MemSize
LocalWordPlain(cs) == cs

\* First word of the mark for the calls CLL and CLI, in 16 bits.
LocalWord(cs) == (cs + LocalMark) % MemSize

\* Mutant: the mark forgets gs_PC.
MarkNoPC(s, first, link, pc) == [mem EXCEPT ![s] = first, ![s + 1] = link]

\* The three words stk_mark writes at s; it leaves the fourth alone.
Mark(s, first, link, pc) ==
  [mem EXCEPT ![s] = first, ![s + 1] = link, ![s + 2] = pc]

\* Mutant: RTN takes every call for an external one.
IsLocalNever(first) == FALSE

\* What RTN makes of the first word.
IsLocal(first) == first >= LocalMark

\* GB: the base n levels down, found along the second words of the marks.
BaseDown[n \in Nat] == IF n = 0 THEN gs_L ELSE mem[BaseDown[n - 1] + 1]

-----------------------------------------------------------------------------
(* The opcodes                                                             *)

Running == status = "run" /\ gs_PC # 0

\* What every call has in common: the mark, the new frame, the jump.
Call(first, link, m, lev) ==
  /\ gs_S + 4 <= StackLimit
  /\ mem' = Mark(gs_S, first, link, gs_PC)
  /\ gs_S' = gs_S + 4
  /\ gs_CS' = gs_S
  /\ gs_L' = gs_S
  /\ modn' = m
  /\ gs_PC' = Entry
  /\ level' = lev
  /\ callers' = Append(callers, [S |-> gs_S, base |-> gs_CS, mod |-> modn,
                                 PC |-> gs_PC, level |-> level])
  /\ UNCHANGED status

\* CLL: a global procedure, or one declared inside the running one.
CallLocal ==
  /\ Running
  /\ \E lev \in {1, level + 1} : Call(LocalWord(gs_CS), gs_L, modn, lev)

\* Mutant: CLI leaves its own frame as the link, as CLL does.
CallLevelOwnLink ==
  /\ Running
  /\ \E n \in 1 .. level - 1 : Call(LocalWord(gs_CS), gs_L, modn, level - n + 1)

\* GB n, CLI: a procedure declared inside one n levels further out.  The base
\* passes from GB to CLI as a word of the expression stack.
CallLevel ==
  /\ Running
  /\ \E n \in 1 .. level - 1, base \in Word :
       /\ base = BaseDown[n]
       /\ Call(LocalWord(gs_CS), base, modn, level - n + 1)

\* CLX
CallExternal ==
  /\ Running
  /\ \E m \in Modules : Call(modn, gs_L, m, 1)

\* Mutant: CLF marks its calls as CLL does.
CallFormalLocal ==
  /\ Running
  /\ gs_S > gs_CS + 4
  /\ LET m == mem[gs_S - 1] \div LocalMark
     IN m \in Modules /\ Call(LocalWord(gs_CS), gs_L, m, 1)

\* CLF: the procedure is given by the word on top of the stack.
CallFormal ==
  /\ Running
  /\ gs_S > gs_CS + 4
  /\ LET m == mem[gs_S - 1] \div LocalMark
     IN m \in Modules /\ Call(modn, gs_L, m, 1)

\* RTN.  The program ends when RTN brings back a gs_PC of 0, the one
\* le_execute put in the first mark.
Return ==
  /\ Running
  /\ LET first == mem[gs_CS]
         local == IsLocal(first)
     IN /\ gs_CS' = IF local THEN first - LocalMark ELSE mem[gs_CS + 1]
        /\ gs_L' = gs_CS'
        /\ modn' = IF local THEN modn ELSE first
  /\ gs_S' = gs_CS
  /\ gs_PC' = mem[gs_CS + 2]
  /\ level' = callers[Len(callers)].level
  /\ callers' = SubSeq(callers, 1, Len(callers) - 1)
  /\ UNCHANGED <<mem, status>>

\* ENTR: room for local variables.  The check is against the memory size.
Enter(n) ==
  /\ Running
  /\ gs_S < MemSize - n
  /\ gs_S + n <= StackLimit
  /\ gs_S' = gs_S + n
  /\ UNCHANGED <<mem, gs_CS, gs_L, gs_PC, modn, status, level, callers>>

EnterTrap(n) ==
  /\ Running
  /\ gs_S >= MemSize - n
  /\ status' = "stack overflow"
  /\ UNCHANGED <<mem, regs, level, callers>>

\* STOT: here of a procedure value, for CLF.
Push(v) ==
  /\ Running
  /\ gs_S + 1 <= StackLimit
  /\ mem' = [mem EXCEPT ![gs_S] = v]
  /\ gs_S' = gs_S + 1
  /\ UNCHANGED <<gs_CS, gs_L, gs_PC, modn, status, level, callers>>

\* DECS: a procedure drops no more than what lies above its mark.
Drop ==
  /\ Running
  /\ gs_S > gs_CS + 4
  /\ gs_S' = gs_S - 1
  /\ UNCHANGED <<mem, gs_CS, gs_L, gs_PC, modn, status, level, callers>>

\* Other instructions move on.
Step ==
  /\ Running
  /\ gs_PC' \in CodeAddrs
  /\ UNCHANGED <<mem, gs_S, gs_CS, gs_L, modn, status, level, callers>>

-----------------------------------------------------------------------------
\* le_execute: the mark that lets the main module return, then its procedure 0.
Init ==
  /\ mem = [a \in 0 .. MemSize - 1 |-> 0]
  /\ gs_S = DataTop + 4
  /\ gs_CS = DataTop
  /\ gs_L = DataTop
  /\ gs_PC = Entry
  /\ modn = Main
  /\ status = "run"
  /\ level = 1
  /\ callers = <<[S |-> DataTop, base |-> 0, mod |-> 0, PC |-> 0, level |-> 1]>>

Next ==
  \/ CallLocal
  \/ CallLevel
  \/ CallExternal
  \/ CallFormal
  \/ Return
  \/ \E n \in Sizes : Enter(n) \/ EnterTrap(n)
  \/ \E v \in Values : Push(v)
  \/ Drop
  \/ Step

Spec == Init /\ [][Next]_vars

-----------------------------------------------------------------------------
(* Properties                                                              *)

Context ==
  [S : Nat, base : Word, mod : 0 .. LocalMark - 1, PC : CodeAddrs \union {0}, level : Nat]

TypeOK ==
  /\ mem \in [Word -> Word]
  /\ gs_S \in 0 .. StackLimit
  /\ gs_CS \in Word
  /\ gs_L \in Word
  /\ gs_PC \in CodeAddrs \union {0}
  /\ modn \in 0 .. LocalMark - 1
  /\ status \in {"run", "stack overflow"}
  /\ level \in Nat
  /\ callers \in Seq(Context)

Depth == Len(callers)

\* The frame of call k: its base, its module and its level.
Base(k) == callers[k].S
Module(k) == IF k = Depth THEN modn ELSE callers[k + 1].mod
Level(k) == IF k = Depth THEN level ELSE callers[k + 1].level

\* The mark of call k tells RTN what the caller was.
MarkOK(k) ==
  /\ mem[Base(k) + 2] = callers[k].PC
  /\ \/ mem[Base(k)] = callers[k].base + LocalMark /\ callers[k].mod = Module(k)
     \/ mem[Base(k)] = callers[k].mod /\ mem[Base(k) + 1] = callers[k].base

\* The marks in memory are those of the calls in progress: each frame lies
\* above the ones that called it and its mark still says where to return.  RTN
\* reads nothing else, so no sequence of calls, pushes and drops may leave a
\* mark that a later RTN (le_mcode.c:1428) would misread.
MarksIntact ==
  gs_PC # 0 =>
    /\ Depth > 0
    /\ gs_CS = Base(Depth) /\ gs_L = gs_CS /\ gs_CS + 4 <= gs_S
    /\ \A k \in 2 .. Depth : callers[k].base = Base(k - 1)
    /\ \A j, k \in 1 .. Depth : j < k => Base(j) + 4 <= Base(k)
    /\ \A k \in 1 .. Depth : MarkOK(k)

\* "Restore caller status from stack" (le_mcode.c:1432): after RTN the caller
\* goes on where it was, in its module, with its frame and its stack.
ReturnRestoresCaller ==
  [][Len(callers') < Len(callers) =>
       LET c == callers[Depth]
       IN /\ gs_S' = c.S /\ gs_CS' = c.base /\ gs_L' = c.base
          /\ gs_PC' = c.PC /\ modn' = c.mod]_vars

\* le_execute ends (le_mcode.c:1504) when the main module has returned, and
\* never on the return of a procedure it called.
EndsWithMain == gs_PC = 0 <=> callers = <<>>

\* A variable of an enclosing procedure is found by GB (le_mcode.c:1386): the
\* second word of the mark of a procedure at level n > 1 is the base of a
\* procedure in progress at level n - 1 of the same module.
StaticLinks ==
  gs_PC # 0 =>
    \A k \in 1 .. Depth :
      Level(k) > 1 =>
        \E j \in 1 .. k - 1 :
          /\ mem[Base(k) + 1] = Base(j)
          /\ Level(j) = Level(k) - 1
          /\ Module(j) = Module(k)

=============================================================================
