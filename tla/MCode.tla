-------------------------------- MODULE MCode --------------------------------
(***************************************************************************)
(* The interpreter loop of le_execute (le_mcode.c), with the expression    *)
(* stack of le_stack.c, for the code of one module: loads and stores,      *)
(* arithmetic, jumps, FOR and CASE, and calls between its procedures.      *)
(*                                                                         *)
(* Code is a function from addresses to decoded instructions: op is the    *)
(* opcode, size the bytes it takes, a and b its operands.  Operands lie at *)
(* the addresses between gs_PC and gs_PC + size, as in the code, since     *)
(* jumps are relative to the address of an operand.  The short forms of an *)
(* opcode (LI0 - LI15, LLW4 - LLW15, ...) have its name and another size.  *)
(*                                                                         *)
(* An address of dsh_mem is taken modulo the size of a word throughout;    *)
(* where C adds in int an address beyond the memory is undefined, and no   *)
(* program uses one.  Opcodes that stop the emulator (_HALT) are left out, *)
(* as are REAL arithmetic, priorities, NOP (which fills a byte between     *)
(* procedures), the monitor, the check of gs_PC against the code size, and *)
(* what other modules model: SVC, CLX, CLI and GB.                         *)
(***************************************************************************)
EXTENDS Words, Sequences

CONSTANTS
  ExsSize,     \* MACH_EXSMEM_SZ
  LocalMark,   \* 0x100: the first number of a mark that is no module number
  Memory,      \* addresses of dsh_mem that the programs use
  Module,      \* modn, the index of the module
  GlobalBase,  \* gs_G
  DataTop,     \* data_top
  Programs,    \* the programs
  Image(_),    \* what the loader makes of each: code, and table of procedures
  Started(_)   \* the globals it may start with

ASSUME MCodeAssumption ==
  /\ ExsSize \in Nat /\ LocalMark \in Nat /\ GlobalBase \in Nat
  /\ Module \in 1 .. LocalMark - 1
  /\ Memory \subseteq Word
  /\ DataTop \in Nat /\ DataTop .. DataTop + 3 \subseteq Memory

VARIABLES
  gs_PC,
  gs_S,    \* stack pointer
  gs_CS,   \* base of the running procedure
  gs_L,    \* base of its local data
  exs,     \* exs_mem up to gs_SP
  mem,     \* dsh_mem
  trap,    \* number of the trap that stopped the emulator, or NoTrap
  prog,    \* the program
  image,   \* its image
  input    \* its globals when it started

vars == <<gs_PC, gs_S, gs_CS, gs_L, exs, mem, trap, prog, image, input>>

NoTrap == 0
StackOverflow == 3   \* TRAP_STACK_OVF
IndexTrap == 4       \* TRAP_INDEX
Crash == 99          \* a signal of the host: integer division by zero

-----------------------------------------------------------------------------
(* Instructions                                                            *)

Code == image.code
I == Code[gs_PC]

\* Neither the return of the main module nor a trap has ended the emulator.
Alive == gs_PC # 0 /\ trap = NoTrap

At(ops) == Alive /\ gs_PC \in DOMAIN Code /\ I.op \in ops

After == gs_PC + I.size

\* The expression stack: its elements from the top, and the stack with the n
\* elements at the top replaced by others (es_pop, es_push).
Top(k) == exs[Len(exs) - k]
Replace(n, ws) == SubSeq(exs, 1, Len(exs) - n) \o ws

\* dsh_mem with the words ws from address a on, and with n words copied.
Put(m, a, ws) ==
  [x \in DOMAIN m |-> IF x \in a .. a + Len(ws) - 1 THEN ws[x - a + 1] ELSE m[x]]
Copied(m, to, from, n) ==
  [x \in DOMAIN m |-> IF x \in to .. to + n - 1 THEN m[from + x - to] ELSE m[x]]

\* An instruction that goes on at pc and leaves the stack pointer at s.
Step(pc, e, m, s) ==
  /\ gs_PC' = ToWord(pc)
  /\ exs' = e
  /\ mem' = m
  /\ gs_S' = s
  /\ UNCHANGED <<gs_CS, gs_L, trap, prog, image, input>>

Compute(e) == Step(After, e, mem, gs_S)
Jump(pc, e) == Step(pc, e, mem, gs_S)

\* le_trap ends the emulator.
Trapped(n) ==
  /\ trap' = n
  /\ UNCHANGED <<gs_PC, gs_S, gs_CS, gs_L, exs, mem, prog, image, input>>

-----------------------------------------------------------------------------
(* Constants, addresses, loads and stores                                  *)

Immediate == At({"LI"}) /\ Compute(Append(exs, I.a))

ImmediateNil == At({"LIN"}) /\ Compute(Append(exs, W - 1))

ImmediateDouble == At({"LID"}) /\ Compute(exs \o <<I.a, I.b>>)

\* The word an opcode names: local, global, or relative to a popped address.
Local == ToWord(gs_L + I.a)
Global == ToWord(GlobalBase + I.a)
Stacked(k) == ToWord(Top(k) + I.a)

\* LLA, LGA, LSA
LoadAddress ==
  \/ At({"LLA"}) /\ Compute(Append(exs, Local))
  \/ At({"LGA"}) /\ Compute(Append(exs, Global))
  \/ At({"LSA"}) /\ Compute(Replace(1, <<Stacked(0)>>))

\* LLW, LGW, LSW
LoadWord ==
  \/ At({"LLW"}) /\ Compute(Append(exs, mem[Local]))
  \/ At({"LGW"}) /\ Compute(Append(exs, mem[Global]))
  \/ At({"LSW"}) /\ Compute(Replace(1, <<mem[Stacked(0)]>>))

Pair(a) == <<mem[a], mem[a + 1]>>

\* LGD keeps its address in a byte.
GlobalByte == Global % Byte

\* LLD, LGD, LSD
LoadDouble ==
  \/ At({"LLD"}) /\ Compute(exs \o Pair(Local))
  \/ At({"LGD"}) /\ Compute(exs \o Pair(GlobalByte))
  \/ At({"LSD"}) /\ Compute(Replace(1, Pair(Stacked(0))))

\* SLW, SGW, SSW
StoreWord ==
  \/ At({"SLW"}) /\ Step(After, Replace(1, <<>>), Put(mem, Local, <<Top(0)>>), gs_S)
  \/ At({"SGW"}) /\ Step(After, Replace(1, <<>>), Put(mem, Global, <<Top(0)>>), gs_S)
  \/ At({"SSW"}) /\ Step(After, Replace(2, <<>>), Put(mem, Stacked(1), <<Top(0)>>), gs_S)

\* SLD, SGD, SSD
StoreDouble ==
  LET pair == <<Top(1), Top(0)>>
  IN \/ At({"SLD"}) /\ Step(After, Replace(2, <<>>), Put(mem, Local, pair), gs_S)
     \/ At({"SGD"}) /\ Step(After, Replace(2, <<>>), Put(mem, Global, pair), gs_S)
     \/ At({"SSD"}) /\ Step(After, Replace(3, <<>>), Put(mem, Stacked(2), pair), gs_S)

\* LXB, LXW, LXD: elements of an array, the base pushed before the index.
LoadIndexed ==
  LET i == Top(0)
      j == Top(1)
  IN \/ At({"LXB"}) /\ Compute(Replace(2, <<ByteOf(mem[j + i \div 2], i)>>))
     \/ At({"LXW"}) /\ Compute(Replace(2, <<mem[ToWord(j + i)]>>))
     \/ At({"LXD"}) /\ Compute(Replace(2, Pair(ToWord(2 * i + j))))

\* SXB, SXW
StoreIndexed ==
  LET k == Top(0)
      i == Top(1)
      j == ToWord(Top(2) + i \div 2)
  IN \/ /\ At({"SXB"})
        /\ Step(After, Replace(3, <<>>), Put(mem, j, <<WithByte(mem[j], i, k)>>), gs_S)
     \/ /\ At({"SXW"})
        /\ Step(After, Replace(3, <<>>), Put(mem, ToWord(Top(2) + i), <<k>>), gs_S)

\* MOV: count on top, then the source.
MoveBlock ==
  /\ At({"MOV"})
  /\ Step(After, Replace(3, <<>>), Copied(mem, Top(2), Top(1), Top(0)), gs_S)

\* PACK: the field of a word in memory.
PackField ==
  /\ At({"PACK"})
  /\ LET a == Top(3)
     IN Step(After, Replace(4, <<>>),
             Put(mem, a, <<Pack(mem[a], Top(2), Top(1), Top(0))>>), gs_S)

\* TS
TestAndSet ==
  At({"TS"}) /\ Step(After, Replace(1, <<mem[Top(0)]>>), Put(mem, Top(0), <<1>>), gs_S)

\* COPT
CopyTop == At({"COPT"}) /\ Compute(Append(exs, Top(0)))

-----------------------------------------------------------------------------
(* Arithmetic                                                              *)

ComputeUnary == At(UnaryOps) /\ Compute(Replace(1, <<Unary(I.op, Top(0))>>))

ComputeBinary ==
  /\ At(UnsignedOps \union SignedOps \union BitOps)
  /\ I.op \in Divisions => Top(0) # 0
  /\ Compute(Replace(2, <<Binary(I.op, Top(1), Top(0))>>))

DivideByZero ==
  /\ At(Divisions \union {"DDIV"})
  /\ Top(0) = 0
  /\ I.op = "DDIV" => Top(1) = 0
  /\ Trapped(Crash)

\* es_dpop pops the lower word first, es_dpush pushes it last.
ComputeLong ==
  \/ /\ At(LongOps)
     /\ LET x == Long(Top(3), Top(2))
            y == Long(Top(1), Top(0))
        IN (I.op = "DDIV" => y # 0) /\ Compute(Replace(4, Words(LongBinary(I.op, x, y))))
  \/ /\ At(LongUnaryOps)
     /\ Compute(Replace(2, Words(LongUnary(I.op, Long(Top(1), Top(0))))))

Unpack == At({"UNPK"}) /\ Compute(Replace(3, <<Unpk(Top(2), Top(1), Top(0))>>))

\* CHK, CHKZ, CHKS: what is checked lies under the bounds, and stays.
Bounds == CASE I.op = "CHK" -> 2 [] I.op = "CHKZ" -> 1 [] I.op = "CHKS" -> 0
Checked == Signed(Top(Bounds))

InBounds ==
  /\ (IF I.op = "CHK" THEN Signed(Top(1)) ELSE 0) <= Checked
  /\ I.op # "CHKS" => Checked <= Signed(Top(0))

Check == At({"CHK", "CHKZ", "CHKS"}) /\ InBounds /\ Compute(Replace(Bounds, <<>>))

CheckTrap == At({"CHK", "CHKZ", "CHKS"}) /\ ~InBounds /\ Trapped(IndexTrap)

RaiseTrap == At({"TRAP"}) /\ Trapped(Top(0))

-----------------------------------------------------------------------------
(* Jumps: forward ones from the address of the operand, backward ones to   *)
(* it.                                                                     *)

Operand == gs_PC + 1

JumpAlways ==
  \/ At({"JP", "JPF"}) /\ Jump(Operand + I.a, exs)
  \/ At({"JPB"}) /\ Jump(Operand - I.a, exs)

JumpConditional ==
  \/ At({"JPC", "JPFC"}) /\ Top(0) = 0 /\ Jump(Operand + I.a, Replace(1, <<>>))
  \/ At({"JPBC"}) /\ Top(0) = 0 /\ Jump(Operand - I.a, Replace(1, <<>>))
  \/ At({"JPC", "JPFC", "JPBC"}) /\ Top(0) # 0 /\ Jump(After, Replace(1, <<>>))

\* ORJP and ANDJP leave 1 and 0 when they jump.
ShortCircuit ==
  \/ At({"ORJP"}) /\ Top(0) # 0 /\ Jump(Operand + I.a, Replace(1, <<1>>))
  \/ At({"ANDJP"}) /\ Top(0) = 0 /\ Jump(Operand + I.a, Replace(1, <<0>>))
  \/ /\ \/ At({"ORJP"}) /\ Top(0) = 0
        \/ At({"ANDJP"}) /\ Top(0) # 0
     /\ Jump(After, Replace(1, <<>>))

-----------------------------------------------------------------------------
(* FOR and CASE                                                            *)

\* Both keep the address of the offset, one byte after the first operand.
ForOffset == gs_PC + 2

\* FOR1: the operands are the sign of the step and the offset.
Enters(low, hi) == IF I.a = 0 THEN low <= hi ELSE low >= hi

ForEnter ==
  LET adr == Top(2)
      low == Top(1)
      hi == Top(0)
  IN /\ At({"FOR1"})
     /\ IF Enters(Signed(low), Signed(hi))
        THEN Step(After, Replace(3, <<>>),
                  Put(Put(mem, adr, <<low>>), gs_S, <<adr, hi>>), ToWord(gs_S + 2))
        ELSE Jump(ForOffset + I.b, Replace(3, <<>>))

\* Mutants: the loop ends only upwards; the limit and the address of the variable
\* stay on the stack.
EndsUpwards(i, hi, step) == step >= 0 /\ i > hi
ForPopNothing == gs_S

\* FOR2: i is the next value, in 16 bits.
Ends(i, hi, step) == (step >= 0 /\ i > hi) \/ (step <= 0 /\ i < hi)
ForPop == gs_S - 2

ForNext ==
  LET adr == mem[gs_S - 2]
      i == ToWord(mem[adr] + I.a)
  IN /\ At({"FOR2"})
     /\ IF Ends(Signed(i), Signed(mem[gs_S - 1]), I.a)
        THEN Step(After, exs, mem, ForPop)
        ELSE Step(ForOffset + I.b, exs, Put(mem, adr, <<i>>), gs_S)

\* ENTC.  The table has the limits of the labels, the entry of ELSE, and the
\* entries of the labels; each is relative to its own address.
AfterTable(table, low, hi) == ToWord(table + 2 * (hi - low) + 4)
EntryOf(table, k, low, hi) ==
  IF low <= k /\ k <= hi THEN table + 2 * (k - low + 1) ELSE table

CaseEnter ==
  /\ At({"ENTC"})
  /\ LET limits == Operand + I.a
         table == limits + 4
         low == Code[limits].a
         hi == Code[limits + 2].a
         entry == EntryOf(table, Top(0), low, hi)
     IN Step(entry + Code[entry].a, Replace(1, <<>>),
             Put(mem, gs_S, <<AfterTable(table, low, hi)>>), ToWord(gs_S + 1))

\* EXC
CaseExit == At({"EXC"}) /\ Step(mem[gs_S - 1], exs, mem, gs_S - 1)

-----------------------------------------------------------------------------
(* Procedures                                                              *)

\* es_save: the stack from the top, then their number.
Saved == [k \in 1 .. Len(exs) + 1 |-> IF k > Len(exs) THEN Len(exs) ELSE Top(k - 1)]

SaveStack ==
  At({"STORE"}) /\ Step(After, <<>>, Put(mem, gs_S, Saved), ToWord(gs_S + Len(Saved)))

\* es_restore: what was saved last comes back first.
Restored(n) == [k \in 1 .. n |-> mem[gs_S - 1 - k]]

\* LODFW, LODFD: a result of one or two words goes on top.
RestoreStack ==
  LET count == mem[gs_S - 1]
      size == IF I.op = "LODFW" THEN 1 ELSE 2
      result == SubSeq(exs, Len(exs) - size + 1, Len(exs))
  IN /\ At({"LODFW", "LODFD"})
     /\ Step(After, Replace(size, Restored(count) \o result), mem, gs_S - 1 - count)

\* STOT, DECS
PushWord ==
  At({"STOT"}) /\ Step(After, Replace(1, <<>>), Put(mem, gs_S, <<Top(0)>>), ToWord(gs_S + 1))
DropWord == At({"DECS"}) /\ Step(After, exs, mem, ToWord(gs_S - 1))

\* PCOP: a copy on the stack of a parameter, the local word points to it.
CopyParameter ==
  LET size == Top(0)
  IN /\ At({"PCOP"})
     /\ Step(After, Replace(2, <<>>),
             Copied(Put(mem, Local, <<gs_S>>), gs_S, Top(1), size), ToWord(gs_S + size))

\* The checks of ALLOC and ENTR are against the size of memory.
Reserves(n) == gs_S < W - n

Allocate ==
  /\ At({"ALLOC"})
  /\ Reserves(Top(0))
  /\ Step(After, Replace(1, <<gs_S>>), mem, gs_S + Top(0))

EnterProcedure == At({"ENTR"}) /\ Reserves(I.a) /\ Step(After, exs, mem, gs_S + I.a)

ReserveTrap ==
  \/ At({"ALLOC"}) /\ ~Reserves(Top(0)) /\ Trapped(StackOverflow)
  \/ At({"ENTR"}) /\ ~Reserves(I.a) /\ Trapped(StackOverflow)

\* stk_mark and the jump to a procedure.
Call(first, number) ==
  /\ mem' = Put(mem, gs_S, <<first, gs_L, After>>)
  /\ gs_S' = ToWord(gs_S + 4)
  /\ gs_CS' = gs_S
  /\ gs_L' = gs_S
  /\ gs_PC' = image.proc[number + 1]
  /\ UNCHANGED <<exs, trap, prog, image, input>>

\* CLL; CLF, of a procedure of the same module, the value being on the stack
\* as module and number.
CallLocal == At({"CLL"}) /\ Call(ToWord(gs_CS + LocalMark), I.a)
CallFormal == At({"CLF"}) /\ mem[gs_S - 1] \div Byte = Module
              /\ Call(Module, mem[gs_S - 1] % Byte)

\* RTN
Return ==
  /\ At({"RTN"})
  /\ LET first == mem[gs_CS]
     IN gs_CS' = IF first >= LocalMark THEN first - LocalMark ELSE mem[gs_CS + 1]
  /\ gs_L' = gs_CS'
  /\ gs_S' = gs_CS
  /\ gs_PC' = mem[gs_CS + 2]
  /\ UNCHANGED <<exs, mem, trap, prog, image, input>>

-----------------------------------------------------------------------------
\* le_execute: the mark that lets the main module return, then its procedure 0.
Init ==
  /\ prog \in Programs
  /\ image = Image(prog)
  /\ input \in Started(prog)
  /\ gs_PC = image.proc[1]
  /\ gs_S = DataTop + 4
  /\ gs_CS = DataTop
  /\ gs_L = DataTop
  /\ exs = <<>>
  /\ mem = [a \in Memory |->
              IF a - GlobalBase \in DOMAIN input THEN input[a - GlobalBase] ELSE 0]
  /\ trap = NoTrap

TypeOK ==
  /\ {gs_PC, gs_S, gs_CS, gs_L} \subseteq Word
  /\ exs \in Seq(Word) /\ Len(exs) <= ExsSize
  /\ mem \in [Memory -> Word]

Ended == ~Alive /\ UNCHANGED vars

Loads == Immediate \/ ImmediateNil \/ ImmediateDouble \/ LoadAddress \/ LoadWord
         \/ LoadDouble \/ LoadIndexed \/ CopyTop
Stores == StoreWord \/ StoreDouble \/ StoreIndexed \/ MoveBlock \/ PackField \/ TestAndSet
Computes == ComputeUnary \/ ComputeBinary \/ DivideByZero \/ ComputeLong \/ Unpack
            \/ Check \/ CheckTrap \/ RaiseTrap
Controls == JumpAlways \/ JumpConditional \/ ShortCircuit \/ ForEnter \/ ForNext
            \/ CaseEnter \/ CaseExit
Procedures == SaveStack \/ RestoreStack \/ PushWord \/ DropWord \/ CopyParameter
              \/ Allocate \/ EnterProcedure \/ ReserveTrap \/ CallLocal \/ CallFormal \/ Return

Execute == Loads \/ Stores \/ Computes \/ Controls \/ Procedures
Next == Execute \/ Ended

Spec == Init /\ [][Next]_vars

\* The loop of le_execute goes on as long as gs_PC is not 0.
FairSpec == Spec /\ WF_vars(Execute)

=============================================================================
