------------------------------ MODULE Monitor ------------------------------
(***************************************************************************)
(* The monitor of MULE (le_trace.c): breakpoints and single steps.  The    *)
(* loop of le_execute calls le_monitor before every instruction; it goes   *)
(* on, or asks the user for commands.                                      *)
(*                                                                         *)
(* A guest is its code: which opcode lies at which address of which        *)
(* module, and where it may lead.  Data are left out, so that a jump goes  *)
(* either way.  Addresses count bytes: the length that the monitor takes   *)
(* an opcode for comes from the table of mnemonics, the one that counts    *)
(* from the operands that le_execute fetches.                              *)
(***************************************************************************)
EXTENDS Integers, Sequences, SequencesExt

CONSTANTS
  Programs,  \* guests: [boot, code], code from <<module, pc>> to [op, to]
  MaxCalls   \* bound: calls in progress

NoPlace == <<0, 0>>

Opcode == 0 .. \o377

ASSUME ProgramAssumption ==
  \A p \in Programs :
    /\ DOMAIN p.code \subseteq (Nat \ {0}) \X Nat
    /\ p.boot \in DOMAIN p.code
    /\ \A at \in DOMAIN p.code :
         p.code[at].op \in Opcode /\ p.code[at].to \subseteq DOMAIN p.code
ASSUME BoundAssumption == MaxCalls \in Nat

VARIABLES
  program,     \* the guest
  here,        \* module and gs_PC of the next instruction
  calls,       \* where the calls in progress return to, innermost last
  mode,        \* where the emulator is
  le_trace,    \* "Enables trace mode"
  breakpoint,  \* "Enables breakpoint"
  bp,          \* <<bp_module, bp_PC>>
  since,       \* history: the last command that let the guest go on
  asked        \* history: the breakpoint that the user set, until s sets its own

guest == <<program, here, calls>>
vars == <<guest, mode, le_trace, breakpoint, bp, since, asked>>

-----------------------------------------------------------------------------
(* Opcodes                                                                 *)

\* JPC to ANDJP, FOR1, FOR2 and ENTC
Jumps == \o30 .. \o37 \union \o300 .. \o302
EXC == \o303
RTN == \o354

\* CLX, CLI, CLF, CLL; SVC runs a program if its argument is 1
Calls == \o355 .. \o377 \union {\o246}

\* Opcodes that le_execute stops at: _HALT, "not implemented", and traps.
Stops == {\o21, \o63, \o203, \o214, \o215, \o220, \o223, \o227, \o241, \o242, \o243,
          \o244, \o245, \o256, \o257, \o263, \o304, \o335, \o337, \o341, \o342, \o343,
          \o344}

\* le_next and le_next2: the bytes of operands that le_execute fetches.
Fetched(op) ==
  CASE op = \o23 -> 4
    [] op \in {\o300, \o301} -> 3
    [] op \in {\o22, \o27, \o30, \o31, \o42, \o43, \o62, \o302, \o355} -> 2
    [] op \in {\o20} \union \o24 .. \o26 \union \o32 .. \o37
              \union {\o40, \o41, \o60, \o61, \o100, \o101, \o120, \o121, \o200, \o201,
                      \o204, \o221, \o237, \o246, \o247, \o250, \o267, \o350, \o353,
                      \o356, \o360} -> 1
    [] OTHER -> 0

\* The last character of an entry of mnem_tab.
Plus == {\o20} \union \o24 .. \o26 \union \o32 .. \o37
        \union {\o40, \o41, \o60, \o61, \o100, \o101, \o120, \o121, \o200, \o201, \o204,
                \o220, \o221, \o237, \o246, \o247, \o250, \o256, \o257, \o267, \o350,
                \o353, \o356, \o360}
Minus == {\o42, \o43, \o62, \o63, \o355}
Star == {\o22, \o27, \o30, \o31, \o302}
Question == {\o300, \o301}
Slash == {\o23}

\* Mutant: the two operands that '-' announces are counted as one.
LengthOneOperand(op) ==
  IF op \in Plus \union Minus THEN 2
  ELSE IF op \in Star THEN 3
  ELSE IF op \in Question THEN 4
  ELSE IF op \in Slash THEN 5 ELSE 1

\* le_opcode_len
le_opcode_len(op) ==
  IF op \in Plus THEN 2
  ELSE IF op \in Minus \union Star THEN 3
  ELSE IF op \in Question THEN 4
  ELSE IF op \in Slash THEN 5 ELSE 1

\* The address after n more bytes.
Beyond(at, n) == <<at[1], at[2] + n>>

\* No code ends with an opcode that goes on behind itself, or is returned to there.
ASSUME CodeAssumption ==
  \A p \in Programs : \A at \in DOMAIN p.code :
    p.code[at].op \notin Jumps \union {EXC, RTN} \union Stops =>
      Beyond(at, 1 + Fetched(p.code[at].op)) \in DOMAIN p.code

Instruction == program.code[here]
depth == Len(calls)

-----------------------------------------------------------------------------
(* The loop of le_execute                                                  *)

\* Mutant: only gs_PC is compared.
AtSamePC == bp[2] = here[2]

\* Condition of le_monitor: "Not at breakpoint; continue execution".
AtBreakpoint == bp = here

\* le_monitor up to its command loop.  A breakpoint that was met stays set.
Monitor ==
  /\ mode = "check"
  /\ le_trace' = (le_trace \/ (breakpoint /\ AtBreakpoint))
  /\ mode' = IF le_trace' /\ (breakpoint => AtBreakpoint) THEN "prompt" ELSE "execute"
  /\ UNCHANGED <<guest, breakpoint, bp, since, asked>>

\* One instruction that neither calls, returns nor stops; EXC leaves a CASE.
Step ==
  /\ mode = "execute"
  /\ Instruction.op \notin {RTN} \union Stops
  /\ Instruction.op \in Calls => Instruction.to = {}
  /\ here' \in (IF Instruction.op \in Jumps \union {EXC} THEN Instruction.to
                ELSE {Beyond(here, 1 + Fetched(Instruction.op))})
  /\ mode' = "check"
  /\ UNCHANGED <<program, calls, le_trace, breakpoint, bp, since, asked>>

\* Mutant: the operands of the call are not behind gs_PC yet.
OperandsAfterCall == Beyond(here, 1)

\* The gs_PC that a call leaves on the stack.
AfterCall == Beyond(here, 1 + Fetched(Instruction.op))

\* A procedure, or by SVC 1 a program.
Call ==
  /\ mode = "execute"
  /\ Instruction.op \in Calls
  /\ depth < MaxCalls
  /\ here' \in Instruction.to
  /\ calls' = Append(calls, AfterCall)
  /\ mode' = "check"
  /\ UNCHANGED <<program, le_trace, breakpoint, bp, since, asked>>

\* RTN; that of the main module ends le_execute.
Return ==
  /\ mode = "execute"
  /\ Instruction.op = RTN
  /\ IF calls = <<>> THEN mode' = "ended" /\ UNCHANGED <<here, calls>>
     ELSE /\ here' = Last(calls)
          /\ calls' = Front(calls)
          /\ mode' = "check"
  /\ UNCHANGED <<program, le_trace, breakpoint, bp, since, asked>>

\* _HALT or a trap: le_error ends the emulator.
Stop ==
  /\ mode = "execute"
  /\ Instruction.op \in Stops
  /\ mode' = "ended"
  /\ UNCHANGED <<guest, le_trace, breakpoint, bp, since, asked>>

-----------------------------------------------------------------------------
(* Commands; r, d, c and h only show something                             *)

GoesOn(cmd) ==
  /\ mode = "prompt"
  /\ mode' = "execute"
  /\ since' = [cmd |-> cmd, op |-> Instruction.op, at |-> here, depth |-> depth]
  /\ UNCHANGED <<guest, le_trace>>

\* b m:pc "Set breakpoint to program counter pc in module number m"
SetBreakpoint(at) ==
  /\ mode = "prompt"
  /\ bp' = at
  /\ asked' = at
  /\ breakpoint' = TRUE
  /\ UNCHANGED <<guest, mode, le_trace, since>>

\* Mutant: the breakpoint stays as the last step left it.
EnabledBefore == breakpoint

\* breakpoint after g
Enabled == TRUE

\* g "Execute until next breakpoint or end of program"
Go ==
  /\ bp[1] # 0
  /\ GoesOn("g")
  /\ breakpoint' = Enabled
  /\ UNCHANGED <<bp, asked>>

\* Mutant: RTN is stepped over like any other opcode.
NotSkippedNoReturn == Jumps

\* "Don't skip through RTN because of possible module change. Don't skip
\* through jumps."
NotSkipped == Jumps \union {RTN}

\* s "Execute one instruction, but skip through proc calls": the breakpoint of
\* the user is lost.
StepOver ==
  /\ GoesOn("s")
  /\ IF Instruction.op \in NotSkipped
     THEN breakpoint' = FALSE /\ UNCHANGED <<bp, asked>>
     ELSE /\ asked' = NoPlace
          /\ bp' = Beyond(here, le_opcode_len(Instruction.op))
          /\ breakpoint' = TRUE

\* t "Execute one instruction"
StepInto ==
  /\ GoesOn("t")
  /\ breakpoint' = FALSE
  /\ UNCHANGED <<bp, asked>>

\* q
Quit ==
  /\ mode = "prompt"
  /\ mode' = "ended"
  /\ UNCHANGED <<guest, le_trace, breakpoint, bp, since, asked>>

\* Option -t sets le_trace.
Init ==
  /\ program \in Programs
  /\ here = program.boot
  /\ calls = <<>>
  /\ mode = "check"
  /\ le_trace \in BOOLEAN
  /\ breakpoint = FALSE
  /\ bp = NoPlace
  /\ since = [cmd |-> "none", op |-> 0, at |-> NoPlace, depth |-> 0]
  /\ asked = NoPlace

Command ==
  \/ \E at \in DOMAIN program.code : SetBreakpoint(at)
  \/ Go
  \/ StepOver
  \/ StepInto
  \/ Quit

Next == Monitor \/ Step \/ Call \/ Return \/ Stop \/ Command

Spec == Init /\ [][Next]_vars

-----------------------------------------------------------------------------
(* Properties                                                              *)

Place == DOMAIN program.code

TypeOK ==
  /\ program \in Programs
  /\ here \in Place
  /\ calls \in Seq(Place) /\ depth <= MaxCalls
  /\ mode \in {"check", "prompt", "execute", "ended"}
  /\ le_trace \in BOOLEAN /\ breakpoint \in BOOLEAN
  /\ bp \in Nat \X Nat
  /\ since.cmd \in {"none", "g", "s", "t"}
  /\ asked \in Place \union {NoPlace}

\* The command s reached its breakpoint in another activation of the procedure.
InnerActivation == depth > since.depth /\ here = Beyond(since.at, 1 + Fetched(since.op))

\* "Execute one instruction" and "Execute one instruction, but skip through proc
\* calls" (le_usage.c:54, 55): the emulator asks again before the next instruction,
\* after s before the next one that no call deeper executes, whatever breakpoints
\* were set, through all calls, modules and programs.  Two kinds of s are left out:
\* EXC is neither a jump for the monitor nor followed by the next address, and a
\* recursive call is stopped at the same place of an inner activation.
StepsStop ==
  [][mode = "check" /\ since.cmd \in {"s", "t"} /\ ~ (since.cmd = "s" /\ since.op = EXC) =>
       IF mode' = "prompt" THEN since.cmd = "t" \/ depth <= since.depth \/ InnerActivation
                           ELSE since.cmd = "s" /\ depth > since.depth]_vars

\* "Execute until next breakpoint or end of program" (le_usage.c:56): after g the
\* emulator asks again exactly where the user set the breakpoint, however often it
\* was met and whatever was stepped through with t since.  A step with s replaces
\* it by the end of that step, without a word.
BreakpointMet ==
  [][mode = "check" /\ since.cmd = "g" /\ asked # NoPlace =>
       (mode' = "prompt" <=> here = asked)]_vars

=============================================================================
