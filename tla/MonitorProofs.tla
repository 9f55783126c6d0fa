--------------------------- MODULE MonitorProofs ---------------------------
(***************************************************************************)
(* Single steps and breakpoints stop where they should, in every guest     *)
(* whose code does not run out of its end.                                 *)
(*                                                                         *)
(* After s the guest is at the instruction that was asked for (Start),     *)
(* or inside a call it makes, which will return to the breakpoint          *)
(* (Inside), or at the breakpoint.  That the return leads there is the     *)
(* agreement of two tables: the length that le_opcode_len takes from the   *)
(* mnemonics and the operands that le_execute fetches (LengthsAgree).      *)
(***************************************************************************)
EXTENDS Monitor, ListProofs

Going == mode \in {"check", "execute"}

Start == mode = "execute" /\ here = since.at /\ depth = since.depth /\ Instruction.op = since.op

\* Where the instruction ends at which s was given.
End == Beyond(since.at, 1 + Fetched(since.op))

Inside == depth > since.depth /\ calls[since.depth + 1] = End

\* s on RTN or a jump is a t.
Plain ==
  /\ ~ breakpoint
  /\ mode = "execute" => Start
  /\ mode = "check" => depth <= since.depth

\* s on any other opcode waits for the end of the instruction.
Skipping ==
  /\ breakpoint
  /\ since.op \in Stops => Start
  /\ since.op \notin Stops => bp = End
  /\ Start \/ Inside \/ (mode = "check" /\ depth = since.depth /\ here = End)

\* What the last command has set up.
Traced == since.cmd # "none" \/ mode = "prompt" => le_trace
AskedKept == asked # NoPlace => bp = asked
AfterGo == since.cmd = "g" /\ Going => breakpoint
AfterInto == since.cmd = "t" /\ Going => ~ breakpoint
AfterOver ==
  since.cmd = "s" /\ Going =>
    /\ since.op \in NotSkipped => Plain
    /\ since.op \notin NotSkipped \union {EXC} => Skipping

\* The inductive invariant.
IInv ==
  /\ TypeOK
  /\ since.depth \in Nat /\ since.op \in Opcode
  /\ Traced /\ AskedKept /\ AfterGo /\ AfterInto /\ AfterOver

-----------------------------------------------------------------------------
\* le_opcode_len counts the opcode and the operands that le_execute fetches, for all
\* opcodes that it does not stop at.
LEMMA LengthsAgree ==
  ASSUME NEW op \in Opcode \ Stops
  PROVE  le_opcode_len(op) = 1 + Fetched(op)
  <1>1. op \in 0 .. 255
    BY DEF Opcode
  <1> QED BY <1>1 DEF Stops, le_opcode_len, Fetched, Plus, Minus, Star, Question, Slash

\* A call goes on behind itself when its procedure returns.
LEMMA CallsGoOn ==
  ASSUME NEW op \in Calls
  PROVE  op \notin Stops \union Jumps \union {EXC, RTN}
  <1>1. op \in \o355 .. \o377 \/ op = \o246
    BY DEF Calls
  <1>2. op \notin Stops
    BY <1>1 DEF Stops
  <1>3. op \notin Jumps /\ op # EXC /\ op # RTN
    BY <1>1 DEF Jumps, EXC, RTN
  <1> QED BY <1>2, <1>3

\* Where the instructions are, and what the one at here leads to.
LEMMA Code ==
  ASSUME IInv
  PROVE  /\ here \in Place /\ calls \in Seq(Place) /\ depth \in Nat
         /\ Place \subseteq Nat \X Nat
         /\ Instruction.op \in Opcode /\ Instruction.to \subseteq Place
         /\ Instruction.op \notin Jumps \union {EXC, RTN} \union Stops =>
              Beyond(here, 1 + Fetched(Instruction.op)) \in Place
  <1>1. program \in Programs /\ here \in Place /\ calls \in Seq(Place)
    BY DEF IInv, TypeOK
  <1>2. depth \in Nat
    BY <1>1 DEF depth
  <1>3. Place \subseteq (Nat \ {0}) \X Nat
    BY <1>1, ProgramAssumption DEF Place
  <1>4. Instruction.op \in Opcode /\ Instruction.to \subseteq Place
    BY <1>1, ProgramAssumption DEF Place, Instruction
  <1>5. Instruction.op \notin Jumps \union {EXC, RTN} \union Stops =>
          Beyond(here, 1 + Fetched(Instruction.op)) \in Place
    BY <1>1, CodeAssumption DEF Place, Instruction
  <1> QED BY <1>1, <1>2, <1>3, <1>4, <1>5

\* The emulator starts at the first instruction, without a breakpoint.
LEMMA InitInv ==
  ASSUME Init
  PROVE  IInv
  <1>1. program \in Programs /\ here \in Place /\ here \in Nat \X Nat
    BY ProgramAssumption DEF Init, Place
  <1>2. calls \in Seq(Place) /\ depth <= MaxCalls
    BY BoundAssumption DEF Init, depth
  <1>3. TypeOK
    BY <1>1, <1>2 DEF Init, TypeOK, NoPlace
  <1>4. since.depth \in Nat /\ since.op \in Opcode
    BY DEF Init, Opcode
  <1>5. Traced /\ AskedKept /\ AfterGo /\ AfterInto /\ AfterOver
    BY DEF Init, Traced, AskedKept, AfterGo, AfterInto, AfterOver
  <1> QED BY <1>3, <1>4, <1>5 DEF IInv

\* Before each instruction: the emulator goes on, or asks.
LEMMA MonitorInv ==
  ASSUME IInv, Monitor
  PROVE  IInv'
  <1>1. /\ mode = "check" /\ Going /\ ~ Start
        /\ program' = program /\ here' = here /\ calls' = calls /\ depth' = depth
        /\ breakpoint' = breakpoint /\ bp' = bp /\ since' = since /\ asked' = asked
    BY DEF Monitor, guest, Going, Start, depth
  <1>2. TypeOK'
    <2>1. le_trace' \in BOOLEAN /\ mode' \in {"check", "prompt", "execute", "ended"}
      BY DEF Monitor
    <2> QED BY <1>1, <2>1 DEF IInv, TypeOK, Place
  <1>3. mode' \in {"prompt", "execute"} /\ (le_trace => le_trace') /\ (mode' = "prompt" => le_trace')
    BY DEF Monitor
  <1>4. mode' = "execute" => ~ (le_trace' /\ (breakpoint => AtBreakpoint))
    BY DEF Monitor
  <1>5. since'.depth \in Nat /\ since'.op \in Opcode
    BY <1>1 DEF IInv
  <1>6. Traced' /\ AskedKept'
    BY <1>1, <1>3 DEF IInv, Traced, AskedKept
  <1>7. AfterGo' /\ AfterInto'
    BY <1>1 DEF IInv, AfterGo, AfterInto
  <1>8. AfterOver'
    <2> SUFFICES ASSUME since.cmd = "s", mode' = "execute"
                 PROVE  /\ since.op \in NotSkipped => Plain'
                        /\ since.op \notin NotSkipped \union {EXC} => Skipping'
      BY <1>1, <1>3 DEF AfterOver, Going
    <2>1. le_trace
      BY DEF IInv, Traced
    <2>2. le_trace'
      BY <2>1, <1>3
    <2>3. breakpoint /\ ~ AtBreakpoint
      BY <2>2, <1>4
    <2>4. since.op \notin NotSkipped
      BY <1>1, <2>3 DEF IInv, AfterOver, Plain
    <2>5. ASSUME since.op \notin NotSkipped \union {EXC} PROVE Skipping'
      <3>1. Skipping
        BY <1>1, <2>5 DEF IInv, AfterOver
      <3>2. since.op \notin Stops /\ bp = End /\ ~ Start
        BY <1>1, <3>1 DEF Skipping
      <3>3. Inside
        BY <3>1, <3>2, <2>3 DEF Skipping, AtBreakpoint
      <3>4. End' = End /\ Inside'
        BY <3>3, <1>1 DEF End, Inside
      <3> QED BY <3>2, <3>4, <2>3, <1>1 DEF Skipping
    <2> QED BY <2>4, <2>5
  <1> QED BY <1>2, <1>5, <1>6, <1>7, <1>8 DEF IInv

\* What an instruction leaves to the monitor as it was.
LEMMA Executed ==
  ASSUME IInv, mode = "execute", mode' \in {"check", "ended"},
         UNCHANGED <<program, le_trace, breakpoint, bp, since, asked>>,
         here' \in Place, calls' \in Seq(Place), depth' \in Nat, depth' <= MaxCalls,
         mode' = "check" /\ since.cmd = "s" =>
           /\ since.op \in NotSkipped => Plain'
           /\ since.op \notin NotSkipped \union {EXC} => Skipping'
  PROVE  IInv'
  <1>1. TypeOK'
    BY DEF IInv, TypeOK, Place
  <1>2. since'.depth \in Nat /\ since'.op \in Opcode
    BY DEF IInv
  <1>3. Traced' /\ AskedKept'
    BY DEF IInv, Traced, AskedKept
  <1>4. AfterGo' /\ AfterInto'
    BY DEF IInv, AfterGo, AfterInto, Going
  <1>5. AfterOver'
    BY DEF AfterOver, Going
  <1> QED BY <1>1, <1>2, <1>3, <1>4, <1>5 DEF IInv

\* The command s before an instruction that is executed now: what it waits for.
LEMMA SkippingNow ==
  ASSUME IInv, mode = "execute", since.cmd = "s", Instruction.op \notin Stops
  PROVE  /\ since.op \in NotSkipped => ~ breakpoint /\ Start
         /\ since.op \notin NotSkipped \union {EXC} =>
              breakpoint /\ bp = End /\ since.op \notin Stops /\ (Start \/ Inside)
  <1>1. Going /\ mode # "check"
    BY DEF Going
  <1>2. ASSUME since.op \in NotSkipped PROVE ~ breakpoint /\ Start
    BY <1>1, <1>2 DEF IInv, AfterOver, Plain
  <1>3. ASSUME since.op \notin NotSkipped \union {EXC}
        PROVE  breakpoint /\ bp = End /\ since.op \notin Stops /\ (Start \/ Inside)
    <2>1. Skipping
      BY <1>1, <1>3 DEF IInv, AfterOver
    <2>2. since.op \notin Stops
      BY <2>1 DEF Skipping, Start
    <2> QED BY <2>1, <2>2, <1>1 DEF Skipping
  <1> QED BY <1>2, <1>3

\* An instruction that neither calls nor returns.
LEMMA StepInv ==
  ASSUME IInv, Step
  PROVE  IInv'
  <1>1. /\ mode = "execute" /\ mode' = "check" /\ calls' = calls /\ depth' = depth
        /\ UNCHANGED <<program, le_trace, breakpoint, bp, since, asked>>
        /\ Instruction.op \notin Stops /\ Instruction.op # RTN
    BY DEF Step, depth
  <1>2. here' \in Place
    <2>1. CASE Instruction.op \in Jumps \union {EXC}
      BY <2>1, Code DEF Step
    <2>2. CASE Instruction.op \notin Jumps \union {EXC}
      BY <2>2, <1>1, Code DEF Step
    <2> QED BY <2>1, <2>2
  <1>3. calls \in Seq(Place) /\ depth \in Nat /\ depth <= MaxCalls
    BY Code DEF IInv, TypeOK
  <1>4. ASSUME since.cmd = "s", since.op \in NotSkipped PROVE Plain'
    <2>1. ~ breakpoint /\ depth = since.depth
      BY <1>4, <1>1, SkippingNow DEF Start
    <2> QED BY <2>1, <1>1, <1>3 DEF Plain
  <1>5. ASSUME since.cmd = "s", since.op \notin NotSkipped \union {EXC} PROVE Skipping'
    <2>1. breakpoint /\ bp = End /\ since.op \notin Stops /\ (Start \/ Inside)
      BY <1>5, <1>1, SkippingNow
    <2>2. End' = End
      BY <1>1 DEF End
    <2>3. CASE Start
      <3>1. here' = End
        BY <2>3, <1>5 DEF Start, Step, End, NotSkipped
      <3> QED BY <2>1, <2>2, <2>3, <3>1, <1>1 DEF Skipping, Start
    <2>4. CASE Inside
      <3>1. Inside'
        BY <2>4, <2>2, <1>1 DEF Inside
      <3> QED BY <2>1, <2>2, <3>1, <1>1 DEF Skipping
    <2> QED BY <2>1, <2>3, <2>4
  <1> QED BY <1>1, <1>2, <1>3, <1>4, <1>5, Executed

\* A call leaves the end of the instruction on the stack.
LEMMA CallInv ==
  ASSUME IInv, Call
  PROVE  IInv'
  <1>1. /\ mode = "execute" /\ mode' = "check" /\ calls' = Append(calls, AfterCall)
        /\ UNCHANGED <<program, le_trace, breakpoint, bp, since, asked>>
        /\ Instruction.op \in Calls /\ depth < MaxCalls /\ here' \in Instruction.to
    BY DEF Call
  <1>2. Instruction.op \notin Stops \union Jumps \union {EXC, RTN}
    <2>1. Instruction.op \in Opcode
      BY Code
    <2> QED BY <2>1, <1>1, CallsGoOn
  <1>3. here' \in Place /\ calls \in Seq(Place) /\ depth \in Nat /\ AfterCall \in Place
    BY <1>1, <1>2, Code DEF AfterCall
  <1>4. /\ calls' \in Seq(Place) /\ depth' = depth + 1 /\ calls'[depth + 1] = AfterCall
        /\ \A k \in 1 .. depth : calls'[k] = calls[k]
    BY <1>1, <1>3 DEF depth
  <1>5. depth' \in Nat /\ depth' <= MaxCalls
    BY <1>1, <1>3, <1>4, BoundAssumption
  <1>6. ASSUME since.cmd = "s" PROVE since.op \notin NotSkipped
    <2>1. since.op \in NotSkipped => Instruction.op = since.op
      BY <1>6, <1>1, <1>2, SkippingNow DEF Start
    <2> QED BY <2>1, <1>2 DEF NotSkipped
  <1>7. ASSUME since.cmd = "s", since.op \notin NotSkipped \union {EXC} PROVE Skipping'
    <2>1. breakpoint /\ bp = End /\ since.op \notin Stops /\ (Start \/ Inside)
      BY <1>7, <1>1, <1>2, SkippingNow
    <2>2. End' = End /\ since.depth \in Nat
      BY <1>1 DEF End, IInv
    <2>3. Inside'
      <3>1. CASE Start
        <4>1. AfterCall = End /\ depth = since.depth
          BY <3>1 DEF Start, AfterCall, End
        <4> QED BY <4>1, <2>2, <1>1, <1>3, <1>4 DEF Inside
      <3>2. CASE Inside
        <4>1. since.depth + 1 \in 1 .. depth /\ since.depth < depth + 1
          BY <3>2, <2>2, <1>3 DEF Inside
        <4> QED BY <4>1, <3>2, <2>2, <1>1, <1>4 DEF Inside
      <3> QED BY <2>1, <3>1, <3>2
    <2> QED BY <2>1, <2>2, <2>3, <1>1 DEF Skipping
  <1> QED BY <1>1, <1>3, <1>4, <1>5, <1>6, <1>7, Executed

\* RTN takes the last call away.
LEMMA ReturnInv ==
  ASSUME IInv, Return
  PROVE  IInv'
  <1>1. /\ mode = "execute" /\ Instruction.op = RTN
        /\ UNCHANGED <<program, le_trace, breakpoint, bp, since, asked>>
    BY DEF Return
  <1>2. Instruction.op \notin Stops /\ RTN \in NotSkipped
    BY <1>1 DEF RTN, Stops, NotSkipped
  <1>3. here \in Place /\ calls \in Seq(Place) /\ depth \in Nat /\ depth <= MaxCalls
    BY Code DEF IInv, TypeOK
  <1>4. CASE calls = <<>>
    <2>1. mode' = "ended" /\ here' = here /\ calls' = calls /\ depth' = depth
      BY <1>4 DEF Return, depth
    <2> QED BY <2>1, <1>1, <1>3, Executed
  <1>5. CASE calls # <<>>
    <2>1. mode' = "check" /\ here' = Last(calls) /\ calls' = Front(calls)
      BY <1>5 DEF Return
    <2>2. /\ depth >= 1 /\ Last(calls) = calls[depth]
          /\ Last(calls) \in Place /\ Front(calls) \in Seq(Place)
          /\ Len(Front(calls)) = depth - 1
          /\ \A k \in 1 .. depth - 1 : Front(calls)[k] = calls[k]
      BY <1>3, <1>5, FrontIs DEF depth
    <2>3. /\ here' \in Place /\ calls' \in Seq(Place) /\ depth' = depth - 1
          /\ here' = calls[depth] /\ \A k \in 1 .. depth - 1 : calls'[k] = calls[k]
      BY <2>1, <2>2 DEF depth
    <2>4. depth' \in Nat /\ depth' <= MaxCalls
      BY <2>2, <2>3, <1>3, BoundAssumption
    <2>5. ASSUME since.cmd = "s", since.op \in NotSkipped PROVE Plain'
      <3>1. ~ breakpoint /\ depth = since.depth
        BY <2>5, <1>1, <1>2, SkippingNow DEF Start
      <3>2. depth' <= since'.depth
        BY <3>1, <2>3, <1>1, <1>3
      <3> QED BY <3>1, <3>2, <2>1, <1>1 DEF Plain
    <2>6. ASSUME since.cmd = "s", since.op \notin NotSkipped \union {EXC} PROVE Skipping'
      <3>1. breakpoint /\ bp = End /\ since.op \notin Stops /\ (Start \/ Inside)
        BY <2>6, <1>1, <1>2, SkippingNow
      <3>2. Inside /\ since.depth \in Nat
        BY <3>1, <2>6, <1>1, <1>2 DEF Start, IInv
      <3>3. End' = End
        BY <1>1 DEF End
      <3>4. CASE depth = since.depth + 1
        <4>1. here' = End /\ depth' = since.depth
          BY <3>2, <3>4, <2>1, <2>3, <1>3 DEF Inside
        <4> QED BY <4>1, <3>1, <3>3, <2>1, <1>1 DEF Skipping
      <3>5. CASE depth # since.depth + 1
        <4>1. since.depth + 1 \in 1 .. depth - 1 /\ depth - 1 > since.depth
          BY <3>2, <3>5, <1>3 DEF Inside
        <4>2. Inside'
          BY <4>1, <3>2, <3>3, <2>3, <1>1 DEF Inside
        <4> QED BY <4>2, <3>1, <3>3, <1>1 DEF Skipping
      <3> QED BY <3>4, <3>5
    <2> QED BY <2>1, <2>3, <2>4, <2>5, <2>6, <1>1, Executed
  <1> QED BY <1>4, <1>5

\* An instruction that ends the emulator.
LEMMA StopInv ==
  ASSUME IInv, Stop
  PROVE  IInv'
  <1>1. /\ mode = "execute" /\ mode' = "ended" /\ here' = here /\ calls' = calls
        /\ depth' = depth /\ UNCHANGED <<program, le_trace, breakpoint, bp, since, asked>>
    BY DEF Stop, guest, depth
  <1>2. here \in Place /\ calls \in Seq(Place) /\ depth \in Nat /\ depth <= MaxCalls
    BY Code DEF IInv, TypeOK
  <1> QED BY <1>1, <1>2, Executed

\* Commands that let the guest go on.
LEMMA GoesOnInv ==
  ASSUME IInv, NEW cmd \in {"g", "s", "t"}, GoesOn(cmd),
         breakpoint' \in BOOLEAN, bp' \in Nat \X Nat, asked' \in Place \union {NoPlace},
         AskedKept', cmd = "g" => breakpoint', cmd = "t" => ~ breakpoint',
         cmd = "s" => IF Instruction.op \in NotSkipped THEN ~ breakpoint'
                      ELSE breakpoint' /\ bp' = Beyond(here, le_opcode_len(Instruction.op))
  PROVE  IInv'
  <1>1. /\ mode = "prompt" /\ mode' = "execute" /\ le_trace' = le_trace
        /\ program' = program /\ here' = here /\ calls' = calls /\ depth' = depth
        /\ Instruction' = Instruction
        /\ since' = [cmd |-> cmd, op |-> Instruction.op, at |-> here, depth |-> depth]
    BY DEF GoesOn, guest, depth, Instruction
  <1>2. /\ since'.cmd = cmd /\ since'.op = Instruction.op /\ since'.at = here
        /\ since'.depth = depth
    BY <1>1
  <1>3. depth \in Nat /\ Instruction.op \in Opcode
    BY Code
  <1>4. TypeOK'
    BY <1>1, <1>2 DEF IInv, TypeOK, Place
  <1>5. le_trace'
    BY <1>1 DEF IInv, Traced
  <1>6. Traced' /\ AfterGo' /\ AfterInto'
    BY <1>2, <1>5 DEF Traced, AfterGo, AfterInto
  <1>7. Start'
    BY <1>1, <1>2 DEF Start
  <1>8. AfterOver'
    <2> SUFFICES ASSUME cmd = "s"
                 PROVE  /\ Instruction.op \in NotSkipped => Plain'
                        /\ Instruction.op \notin NotSkipped \union {EXC} => Skipping'
      BY <1>2 DEF AfterOver
    <2>1. ASSUME Instruction.op \in NotSkipped PROVE Plain'
      BY <2>1, <1>1, <1>7 DEF Plain
    <2>2. ASSUME Instruction.op \notin NotSkipped PROVE Skipping'
      <3>1. ASSUME Instruction.op \notin Stops PROVE bp' = End'
        <4>1. le_opcode_len(Instruction.op) = 1 + Fetched(Instruction.op)
          BY <3>1, <1>3, LengthsAgree
        <4> QED BY <4>1, <2>2, <1>2 DEF End
      <3> QED BY <3>1, <2>2, <1>2, <1>7 DEF Skipping
    <2> QED BY <2>1, <2>2
  <1> QED BY <1>2, <1>3, <1>4, <1>6, <1>8 DEF IInv

\* The commands.
LEMMA CommandInv ==
  ASSUME IInv, Command
  PROVE  IInv'
  <1>1. here \in Place /\ Place \subseteq Nat \X Nat /\ Instruction.op \in Opcode
    BY Code
  <1>2. breakpoint \in BOOLEAN /\ bp \in Nat \X Nat /\ asked \in Place \union {NoPlace} /\ AskedKept
    BY DEF IInv, TypeOK
  <1>3. ASSUME NEW at \in DOMAIN program.code, SetBreakpoint(at) PROVE IInv'
    <2>1. /\ mode = "prompt" /\ bp' = at /\ asked' = at /\ breakpoint' = TRUE
          /\ UNCHANGED <<program, here, calls, mode, le_trace, since>> /\ depth' = depth
      BY <1>3 DEF SetBreakpoint, guest, depth
    <2>2. TypeOK'
      BY <2>1, <1>1 DEF IInv, TypeOK, Place
    <2>3. Traced' /\ AskedKept'
      BY <2>1 DEF IInv, Traced, AskedKept
    <2>4. AfterGo' /\ AfterInto' /\ AfterOver'
      BY <2>1 DEF AfterGo, AfterInto, AfterOver, Going
    <2> QED BY <2>1, <2>2, <2>3, <2>4 DEF IInv
  <1>4. CASE Go
    <2>1. GoesOn("g") /\ breakpoint' = TRUE /\ bp' = bp /\ asked' = asked
      BY <1>4 DEF Go, Enabled
    <2>2. AskedKept'
      BY <2>1, <1>2 DEF AskedKept
    <2> QED BY <2>1, <2>2, <1>2, GoesOnInv
  <1>5. CASE StepOver
    <2>1. CASE Instruction.op \in NotSkipped
      <3>1. GoesOn("s") /\ breakpoint' = FALSE /\ bp' = bp /\ asked' = asked
        BY <1>5, <2>1 DEF StepOver
      <3>2. AskedKept'
        BY <3>1, <1>2 DEF AskedKept
      <3> QED BY <2>1, <3>1, <3>2, <1>2, GoesOnInv
    <2>2. CASE Instruction.op \notin NotSkipped
      <3>1. /\ GoesOn("s") /\ breakpoint' = TRUE /\ asked' = NoPlace
            /\ bp' = Beyond(here, le_opcode_len(Instruction.op))
        BY <1>5, <2>2 DEF StepOver
      <3>2. AskedKept'
        BY <3>1 DEF AskedKept
      <3>3. le_opcode_len(Instruction.op) \in Nat
        BY DEF le_opcode_len
      <3>4. bp' \in Nat \X Nat
        BY <3>1, <3>3, <1>1 DEF Beyond
      <3> QED BY <2>2, <3>1, <3>2, <3>4, GoesOnInv
    <2> QED BY <2>1, <2>2
  <1>6. CASE StepInto
    <2>1. GoesOn("t") /\ breakpoint' = FALSE /\ bp' = bp /\ asked' = asked
      BY <1>6 DEF StepInto
    <2>2. AskedKept'
      BY <2>1, <1>2 DEF AskedKept
    <2> QED BY <2>1, <2>2, <1>2, GoesOnInv
  <1>7. CASE Quit
    <2>1. /\ mode' = "ended" /\ depth' = depth
          /\ UNCHANGED <<program, here, calls, le_trace, breakpoint, bp, since, asked>>
      BY <1>7 DEF Quit, guest, depth
    <2>2. TypeOK'
      BY <2>1 DEF IInv, TypeOK, Place
    <2>3. Traced' /\ AskedKept'
      BY <2>1 DEF IInv, Traced, AskedKept
    <2>4. AfterGo' /\ AfterInto' /\ AfterOver'
      BY <2>1 DEF AfterGo, AfterInto, AfterOver, Going
    <2> QED BY <2>1, <2>2, <2>3, <2>4 DEF IInv
  <1> QED BY <1>3, <1>4, <1>5, <1>6, <1>7 DEF Command

\* Every step keeps the invariant.
LEMMA NextInv ==
  ASSUME IInv, [Next]_vars
  PROVE  IInv'
  <1>1. CASE UNCHANGED vars
    BY <1>1 DEF vars, guest, IInv, TypeOK, Place, Traced, AskedKept, AfterGo, AfterInto, AfterOver,
       Going, Plain, Skipping, Start, Inside, End, Instruction, depth
  <1> QED
    BY <1>1, MonitorInv, StepInv, CallInv, ReturnInv, StopInv, CommandInv DEF Next

-----------------------------------------------------------------------------
(* The theorems                                                            *)

\* Breakpoint, commands and the place of the guest keep their types; le_execute never
\* leaves the code.
THEOREM MonitorTypeOK == Spec => []TypeOK
  <1>1. IInv => TypeOK
    BY DEF IInv
  <1> QED
    BY <1>1, InitInv, NextInv, PTL DEF Spec

\* s and t (le_usage.c:54, 55) come back to the monitor where they should, whatever
\* instructions, calls and breakpoints the guest has.
THEOREM StepsComeBack == Spec => StepsStop
  <1> DEFINE Stopped ==
        mode = "check" /\ since.cmd \in {"s", "t"} /\ ~ (since.cmd = "s" /\ since.op = EXC) =>
          IF mode' = "prompt" THEN since.cmd = "t" \/ depth <= since.depth \/ InnerActivation
                              ELSE since.cmd = "s" /\ depth > since.depth
  <1>1. IInv /\ [Next]_vars => [Stopped]_vars
    <2> SUFFICES ASSUME IInv, Next, mode = "check", since.cmd \in {"s", "t"},
                        ~ (since.cmd = "s" /\ since.op = EXC)
                 PROVE  IF mode' = "prompt" THEN since.cmd = "t" \/ depth <= since.depth \/ InnerActivation
                        ELSE since.cmd = "s" /\ depth > since.depth
      OBVIOUS
    <2>1. Monitor
      BY DEF Next, Step, Call, Return, Stop, Command, SetBreakpoint, Go, StepOver, StepInto,
             Quit, GoesOn
    <2>2. Going /\ ~ Start /\ le_trace
      BY DEF Going, Start, IInv, Traced
    <2>3. mode' = IF breakpoint => AtBreakpoint THEN "prompt" ELSE "execute"
      BY <2>1, <2>2 DEF Monitor
    <2>4. since.depth \in Nat /\ depth \in Nat
      BY Code DEF IInv
    <2>5. CASE since.cmd = "t"
      <3>1. ~ breakpoint
        BY <2>2, <2>5 DEF IInv, AfterInto
      <3>2. mode' = "prompt"
        BY <2>3, <3>1
      <3> QED BY <2>5, <3>2
    <2>6. CASE since.cmd = "s" /\ since.op \in NotSkipped
      <3>1. ~ breakpoint /\ depth <= since.depth
        BY <2>2, <2>6 DEF IInv, AfterOver, Plain
      <3>2. mode' = "prompt"
        BY <2>3, <3>1
      <3> QED BY <3>1, <3>2
    <2>7. CASE since.cmd = "s" /\ since.op \notin NotSkipped
      <3>1. Skipping
        BY <2>2, <2>7 DEF IInv, AfterOver
      <3>2. bp = End /\ (Inside \/ (depth = since.depth /\ here = End))
        BY <2>2, <3>1 DEF Skipping
      <3>3. CASE here = End
        <4>1. mode' = "prompt"
          BY <2>3, <3>2, <3>3 DEF AtBreakpoint
        <4>2. depth <= since.depth \/ depth > since.depth
          BY <2>4
        <4> QED BY <4>1, <4>2, <3>3 DEF InnerActivation, End
      <3>4. CASE here # End
        <4>1. breakpoint /\ ~ AtBreakpoint /\ depth > since.depth
          BY <3>1, <3>2, <3>4 DEF Skipping, AtBreakpoint, Inside
        <4>2. mode' = "execute"
          BY <4>1, <2>3
        <4> QED BY <4>1, <4>2, <2>7
      <3> QED BY <3>3, <3>4
    <2> QED BY <2>5, <2>6, <2>7
  <1> QED
    BY <1>1, InitInv, NextInv, PTL DEF Spec, StepsStop

\* g (le_usage.c:56) comes back where the user set the breakpoint, and nowhere else.
THEOREM BreakpointsMet == Spec => BreakpointMet
  <1> DEFINE Met ==
        mode = "check" /\ since.cmd = "g" /\ asked # NoPlace => (mode' = "prompt" <=> here = asked)
  <1>1. IInv /\ [Next]_vars => [Met]_vars
    <2> SUFFICES ASSUME IInv, Next, mode = "check", since.cmd = "g", asked # NoPlace
                 PROVE  mode' = "prompt" <=> here = asked
      OBVIOUS
    <2>1. Monitor
      BY DEF Next, Step, Call, Return, Stop, Command, SetBreakpoint, Go, StepOver, StepInto,
             Quit, GoesOn
    <2>2. breakpoint /\ le_trace /\ bp = asked
      BY DEF IInv, AfterGo, Traced, AskedKept, Going
    <2>3. mode' = IF AtBreakpoint THEN "prompt" ELSE "execute"
      BY <2>1, <2>2 DEF Monitor
    <2> QED BY <2>2, <2>3 DEF AtBreakpoint
  <1> QED
    BY <1>1, InitInv, NextInv, PTL DEF Spec, BreakpointMet

=============================================================================
