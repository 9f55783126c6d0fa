---------------------------- MODULE FramesProofs ----------------------------
(***************************************************************************)
(* Proofs about Frames: as long as the stack stays out of the last         *)
(* LocalMark words of memory, where the first word of a mark would wrap to *)
(* a module number, every RTN restores its caller.                         *)
(***************************************************************************)
EXTENDS Frames, ListProofs, SequenceTheorems

\* The programs that keep their stack out of the last LocalMark words.
BelowTop == StackLimit + LocalMark <= MemSize

\* Only the mark of the main module holds the gs_PC that ends le_execute.
EndMark == \A k \in 1 .. Depth : callers[k].PC = 0 <=> k = 1

IInv == TypeOK /\ MarksIntact /\ EndsWithMain /\ EndMark

-----------------------------------------------------------------------------
(* Facts about lists of contexts                                           *)

\* A list of calls with one more.
LEMMA AppendContext ==
  ASSUME NEW s \in Seq(Context), NEW c \in Context
  PROVE  /\ Append(s, c) \in Seq(Context)
         /\ Len(Append(s, c)) = Len(s) + 1
         /\ Append(s, c)[Len(s) + 1] = c
         /\ \A k \in 1 .. Len(s) : Append(s, c)[k] = s[k]
OBVIOUS

\* A list of calls without the last.
LEMMA DropContext ==
  ASSUME NEW s \in Seq(Context), s # <<>>,
         NEW t, t = SubSeq(s, 1, Len(s) - 1)
  PROVE  /\ t \in Seq(Context)
         /\ Len(t) = Len(s) - 1
         /\ \A k \in 1 .. Len(s) - 1 : t[k] = s[k]
<1>1. Len(s) \in Nat /\ Len(s) > 0 /\ \A k \in 1 .. Len(s) - 1 : s[k] \in Context
  BY EmptySeq, LenProperties
<1> DEFINE n == Len(s) - 1
<1>2. n \in Int /\ 1 \in Int /\ n >= 0 /\ Len(s) = n + 1
  BY <1>1
<1>6. \A k \in 1 .. n : s[k] \in Context
  BY <1>1
<1> HIDE DEF n
<1>3. /\ SubSeq(s, 1, n) \in Seq(Context)
      /\ Len(SubSeq(s, 1, n)) = IF 1 <= n THEN n - 1 + 1 ELSE 0
      /\ \A k \in 1 .. n - 1 + 1 : SubSeq(s, 1, n)[k] = s[1 + k - 1]
  BY <1>2, <1>6, SubSeqProperties
<1>4. t = SubSeq(s, 1, n)
  BY DEF n
<1>5. Len(t) = n /\ \A k \in 1 .. n : t[k] = s[k]
  BY <1>2, <1>3, <1>4
<1> QED
  BY <1>3, <1>4, <1>5 DEF n

\* The addresses of a mark are words.
LEMMA WordFacts ==
  /\ \A a \in Nat : a + 4 <= StackLimit => a \in Word /\ a + 1 \in Word /\ a + 2 \in Word
  /\ \A a \in Word : a \in Nat
  /\ \A a \in 0 .. StackLimit : a \in Nat
  /\ \A a \in CodeAddrs \union {0} : a \in Word
BY MemoryAssumption, LimitAssumption, CodeAssumption DEF Word

-----------------------------------------------------------------------------
(* The initial state                                                       *)

\* le_execute starts with the mark of the main module.
LEMMA InitIInv == Init => IInv
<1> SUFFICES ASSUME Init PROVE IInv
  OBVIOUS
<1> USE MemoryAssumption, LimitAssumption, ModuleAssumption, CodeAssumption
<1>1. LocalMark \in Nat /\ 0 \in 0 .. LocalMark - 1 /\ Main \in 0 .. LocalMark - 1
  OBVIOUS
<1>2. [S |-> DataTop, base |-> 0, mod |-> 0, PC |-> 0, level |-> 1] \in Context
  BY <1>1 DEF Context, Word
<1>3. callers \in Seq(Context) /\ Len(callers) = 1
      /\ callers[1] = [S |-> DataTop, base |-> 0, mod |-> 0, PC |-> 0, level |-> 1]
  BY <1>2 DEF Init
<1>4. TypeOK
  BY <1>1, <1>3 DEF Init, TypeOK, Word
<1>5. MarksIntact
  BY <1>3 DEF Init, MarksIntact, MarkOK, Base, Module, Depth
<1>6. EndsWithMain /\ EndMark
  BY <1>3 DEF Init, EndsWithMain, EndMark, Depth
<1> QED
  BY <1>4, <1>5, <1>6 DEF IInv

-----------------------------------------------------------------------------
(* Calls                                                                   *)

\* A call adds a context and writes its mark, all above what there was.
LEMMA CallShape ==
  ASSUME IInv, Running,
         NEW first \in Word, NEW link \in Word, NEW m, NEW lev,
         Call(first, link, m, lev)
  PROVE  /\ Depth \in Nat /\ Depth' = Depth + 1 /\ callers' \in Seq(Context)
         /\ \A k \in 1 .. Depth : callers'[k] = callers[k]
         /\ callers'[Depth + 1] =
              [S |-> gs_S, base |-> gs_CS, mod |-> modn, PC |-> gs_PC, level |-> level]
         /\ mem' \in [Word -> Word]
         /\ mem'[gs_S] = first /\ mem'[gs_S + 1] = link /\ mem'[gs_S + 2] = gs_PC
         /\ \A a \in Word : a < gs_S => mem'[a] = mem[a]
<1> DEFINE c == [S |-> gs_S, base |-> gs_CS, mod |-> modn, PC |-> gs_PC, level |-> level]
<1>1. /\ mem \in [Word -> Word] /\ gs_S \in Nat
      /\ gs_S \in Word /\ gs_S + 1 \in Word /\ gs_S + 2 \in Word
      /\ gs_CS \in Word /\ gs_PC \in Word /\ gs_PC \in CodeAddrs \union {0}
      /\ modn \in 0 .. LocalMark - 1 /\ level \in Nat /\ callers \in Seq(Context)
  <2>1. gs_S + 4 <= StackLimit
    BY DEF Call
  <2>2. /\ mem \in [Word -> Word] /\ gs_S \in 0 .. StackLimit /\ gs_CS \in Word
        /\ modn \in 0 .. LocalMark - 1 /\ gs_PC \in CodeAddrs \union {0}
        /\ level \in Nat /\ callers \in Seq(Context)
    BY DEF IInv, TypeOK
  <2>3. gs_PC \in Word /\ gs_S \in Nat
    BY <2>2, WordFacts
  <2>4. gs_S \in Word /\ gs_S + 1 \in Word /\ gs_S + 2 \in Word
    BY <2>1, <2>3, WordFacts
  <2> QED
    BY <2>2, <2>3, <2>4
<1>2. c \in Context
  BY <1>1 DEF Context
<1> HIDE DEF c
<1>3. /\ callers' \in Seq(Context) /\ Len(callers') = Len(callers) + 1
      /\ callers'[Len(callers) + 1] = c
      /\ \A k \in 1 .. Len(callers) : callers'[k] = callers[k]
  BY <1>1, <1>2, AppendContext DEF Call, c
<1>4. mem' = [mem EXCEPT ![gs_S] = first, ![gs_S + 1] = link, ![gs_S + 2] = gs_PC]
  BY DEF Call, Mark
<1>5. gs_S # gs_S + 1 /\ gs_S # gs_S + 2 /\ gs_S + 1 # gs_S + 2
  BY <1>1
<1>6. mem' \in [Word -> Word]
  BY <1>1, <1>4
<1>7. mem'[gs_S] = first /\ mem'[gs_S + 1] = link /\ mem'[gs_S + 2] = gs_PC
  BY <1>1, <1>4, <1>5
<1>8. ASSUME NEW a \in Word, a < gs_S PROVE mem'[a] = mem[a]
  <2>1. a # gs_S /\ a # gs_S + 1 /\ a # gs_S + 2
    BY <1>1, <1>8, WordFacts
  <2> QED
    BY <1>1, <1>4, <2>1
<1>9. Len(callers) \in Nat
  BY <1>1, LenProperties
<1> QED
  BY <1>3, <1>6, <1>7, <1>8, <1>9 DEF Depth, c

\* A call puts a frame above all others, with a mark that tells its caller,
\* and leaves the marks below as they are.
LEMMA CallIInv ==
  ASSUME IInv, Running,
         NEW first \in Word, NEW link \in Word,
         NEW m \in 0 .. LocalMark - 1, NEW lev \in Nat,
         \/ first = gs_CS + LocalMark /\ m = modn
         \/ first = modn /\ link = gs_CS,
         Call(first, link, m, lev)
  PROVE  IInv'
<1> USE MemoryAssumption, LimitAssumption, CodeAssumption
<1> DEFINE n == Len(callers)
           c == [S |-> gs_S, base |-> gs_CS, mod |-> modn, PC |-> gs_PC, level |-> level]
<1>1. /\ mem \in [Word -> Word] /\ gs_S \in Nat /\ gs_S + 4 <= StackLimit
      /\ gs_S \in Word /\ gs_S + 1 \in Word /\ gs_S + 2 \in Word
      /\ gs_CS \in Word /\ gs_CS \in Nat /\ gs_PC \in Word /\ modn \in 0 .. LocalMark - 1
      /\ status \in {"run", "stack overflow"} /\ level \in Nat
      /\ callers \in Seq(Context) /\ gs_PC # 0
  <2>1. gs_S + 4 <= StackLimit /\ gs_PC # 0
    BY DEF Call, Running
  <2>2. /\ mem \in [Word -> Word] /\ gs_S \in 0 .. StackLimit /\ gs_CS \in Word
        /\ modn \in 0 .. LocalMark - 1 /\ gs_PC \in CodeAddrs \union {0}
        /\ status \in {"run", "stack overflow"} /\ level \in Nat
        /\ callers \in Seq(Context)
    BY DEF IInv, TypeOK
  <2>3. gs_PC \in Word /\ gs_CS \in Nat /\ gs_S \in Nat
    BY <2>2, WordFacts
  <2>4. gs_S \in Word /\ gs_S + 1 \in Word /\ gs_S + 2 \in Word
    BY <2>1, <2>3, WordFacts
  <2> QED
    BY <2>1, <2>2, <2>3, <2>4
<1>2. n \in Nat /\ n > 0 /\ \A k \in 1 .. n : callers[k] \in Context
  BY <1>1, LenProperties DEF IInv, MarksIntact, Depth
<1>4. /\ callers' \in Seq(Context) /\ Len(callers') = n + 1
      /\ callers'[n + 1] = c /\ \A k \in 1 .. n : callers'[k] = callers[k]
  BY CallShape DEF Depth
<1>5. /\ mem' \in [Word -> Word]
      /\ mem'[gs_S] = first /\ mem'[gs_S + 1] = link /\ mem'[gs_S + 2] = gs_PC
      /\ \A a \in Word : a < gs_S => mem'[a] = mem[a]
  BY CallShape
<1> HIDE DEF c
<1>6. gs_S' = gs_S + 4 /\ gs_CS' = gs_S /\ gs_L' = gs_S /\ modn' = m
      /\ gs_PC' = Entry /\ level' = lev /\ status' = status
  BY DEF Call
<1>7. TypeOK'
  <2>1. gs_S' \in 0 .. StackLimit /\ gs_CS' \in Word /\ gs_L' \in Word
    <3>1. gs_S \in Nat /\ gs_S + 4 <= StackLimit
      BY <1>1
    <3>2. gs_S + 4 \in 0 .. StackLimit
      BY <3>1
    <3> QED
      BY <1>1, <1>6, <3>2
  <2>2. gs_PC' \in CodeAddrs \union {0} /\ modn' \in 0 .. LocalMark - 1
    BY <1>6
  <2> QED
    BY <1>1, <1>4, <1>5, <1>6, <2>1, <2>2 DEF TypeOK
<1>8. c.S = gs_S /\ c.base = gs_CS /\ c.mod = modn /\ c.PC = gs_PC
  BY DEF c
<1>9. /\ gs_CS = callers[n].S /\ gs_CS + 4 <= gs_S
      /\ \A k \in 2 .. n : callers[k].base = callers[k - 1].S
      /\ \A j, k \in 1 .. n : j < k => callers[j].S + 4 <= callers[k].S
      /\ \A k \in 1 .. n : MarkOK(k)
  BY <1>1 DEF IInv, MarksIntact, Depth, Base
<1>10. \A k \in 1 .. n : callers[k].S \in Nat /\ callers[k].S + 4 <= gs_S
  <2> TAKE k \in 1 .. n
  <2>1. callers[k].S \in Nat /\ gs_CS \in Nat
    BY <1>1, <1>2 DEF Context
  <2>2. k = n \/ callers[k].S + 4 <= callers[n].S
    BY <1>2, <1>9
  <2> QED
    <3>1. gs_S \in Nat /\ gs_CS \in Nat
      BY <1>1
    <3>2. callers[n].S = gs_CS /\ gs_CS + 4 <= gs_S
      BY <1>9
    <3>3. CASE k = n
      BY <2>1, <3>2, <3>3
    <3>4. CASE callers[k].S + 4 <= callers[n].S
      BY <2>1, <3>1, <3>2, <3>4
    <3> QED
      BY <2>2, <3>3, <3>4
<1>11. MarksIntact'
  <2>1. Depth' = n + 1 /\ Depth' > 0 /\ (\A k : Base(k)' = callers'[k].S)
    BY <1>2, <1>4 DEF Depth, Base
  <2>2. gs_CS' = Base(Depth)' /\ gs_L' = gs_CS' /\ gs_CS' + 4 <= gs_S'
    <3>1. Base(Depth)' = callers'[n + 1].S
      BY <2>1 DEF Base
    <3> QED
      <4>1. gs_S \in Nat
        BY <1>1
      <4>2. gs_S + 4 <= gs_S + 4
        BY <4>1
      <4> QED
        BY <3>1, <4>2, <1>4, <1>6, <1>8
  <2>3. \A k \in 2 .. n + 1 : callers'[k].base = callers'[k - 1].S
    <3> TAKE k \in 2 .. n + 1
    <3>1. CASE k = n + 1
      BY <3>1, <1>2, <1>4, <1>8, <1>9
    <3>2. CASE k # n + 1
      <4>1. k \in 2 .. n /\ k \in 1 .. n /\ k - 1 \in 1 .. n
        BY <3>2, <1>2
      <4> QED
        BY <4>1, <1>4, <1>9
    <3> QED
      BY <3>1, <3>2
  <2>4. \A j, k \in 1 .. n + 1 : j < k => callers'[j].S + 4 <= callers'[k].S
    <3> SUFFICES ASSUME NEW j \in 1 .. n + 1, NEW k \in 1 .. n + 1, j < k
                 PROVE  callers'[j].S + 4 <= callers'[k].S
      OBVIOUS
    <3>1. j \in 1 .. n /\ (k = n + 1 \/ k \in 1 .. n)
      BY <1>2
    <3> QED
      BY <3>1, <1>4, <1>8, <1>9, <1>10
  <2>5. \A k \in 1 .. n + 1 : MarkOK(k)'
    <3> TAKE k \in 1 .. n + 1
    <3>1. CASE k = n + 1
      <4>1. Module(k)' = m
        BY <3>1, <1>6, <2>1 DEF Module
      <4> QED
        BY <4>1, <3>1, <1>4, <1>5, <1>8, <2>1 DEF MarkOK
    <3>2. CASE k # n + 1
      <4>1. k \in 1 .. n /\ k + 1 \in 1 .. n + 1
        BY <3>2, <1>2
      <4>2. Module(k)' = Module(k)
        <5>1. CASE k = n
          BY <5>1, <1>2, <1>4, <1>8, <2>1 DEF Module, Depth
        <5>2. CASE k # n
          <6>1. k + 1 \in 1 .. n
            BY <5>2, <4>1, <1>2
          <6> QED
            BY <6>1, <5>2, <3>2, <1>4, <2>1 DEF Module, Depth
        <5> QED
          BY <5>1, <5>2
      <4>3. /\ callers[k].S \in Nat
            /\ mem'[callers[k].S] = mem[callers[k].S]
            /\ mem'[callers[k].S + 1] = mem[callers[k].S + 1]
            /\ mem'[callers[k].S + 2] = mem[callers[k].S + 2]
        <5>1. callers[k].S \in Nat /\ callers[k].S + 4 <= gs_S
          BY <4>1, <1>10
        <5>2. /\ callers[k].S \in Word /\ callers[k].S < gs_S
              /\ callers[k].S + 1 \in Word /\ callers[k].S + 1 < gs_S
              /\ callers[k].S + 2 \in Word /\ callers[k].S + 2 < gs_S
          <6>1. gs_S \in Nat /\ gs_S + 4 <= StackLimit
            BY <1>1
          <6>2. callers[k].S + 4 <= StackLimit
            BY <5>1, <6>1
          <6>3. /\ callers[k].S < gs_S /\ callers[k].S + 1 < gs_S
                /\ callers[k].S + 2 < gs_S
            BY <5>1, <6>1
          <6> QED
            BY <5>1, <6>2, <6>3, WordFacts
        <5> QED
          BY <5>1, <5>2, <1>5
      <4>4. MarkOK(k) /\ callers'[k] = callers[k]
        BY <4>1, <1>4, <1>9
      <4> QED
        BY <4>2, <4>3, <4>4, <2>1 DEF MarkOK, Base
    <3> QED
      BY <3>1, <3>2
  <2> QED
    BY <2>1, <2>2, <2>3, <2>4, <2>5 DEF MarksIntact
<1>12. EndsWithMain' /\ EndMark'
  <2>1. callers' # <<>> /\ gs_PC' # 0
    BY <1>2, <1>4, <1>6, EmptySeq
  <2>2. \A k \in 1 .. n + 1 : callers'[k].PC = 0 <=> k = 1
    <3> TAKE k \in 1 .. n + 1
    <3>1. CASE k = n + 1
      <4>1. callers'[k].PC = gs_PC
        BY <3>1, <1>4, <1>8
      <4> QED
        <5>1. n \in Nat /\ n > 0 /\ k # 1
          BY <3>1, <1>2
        <5> QED
          BY <4>1, <5>1, <1>1
    <3>2. CASE k # n + 1
      <4>1. k \in 1 .. n
        BY <3>2, <1>2
      <4> QED
        BY <4>1, <1>4 DEF IInv, EndMark, Depth
    <3> QED
      BY <3>1, <3>2
  <2> QED
    BY <2>1, <2>2, <1>4 DEF EndsWithMain, EndMark, Depth
<1> QED
  BY <1>7, <1>11, <1>12 DEF IInv

-----------------------------------------------------------------------------
(* Returns                                                                 *)

\* RTN restores the caller that the mark tells of.
LEMMA ReturnRestores ==
  ASSUME IInv, Return
  PROVE  /\ gs_S' = callers[Depth].S /\ gs_PC' = callers[Depth].PC
         /\ gs_CS' = callers[Depth].base /\ gs_L' = gs_CS'
         /\ modn' = callers[Depth].mod
<1> DEFINE n == Len(callers)
           c == callers[n]
<1>1. gs_PC # 0 /\ callers \in Seq(Context)
  BY DEF IInv, TypeOK, Return, Running
<1>2. n \in Nat /\ n > 0 /\ c \in Context
  BY <1>1, LenProperties DEF IInv, MarksIntact, Depth
<1>3. gs_CS = c.S /\ MarkOK(n)
  BY <1>1, <1>2 DEF IInv, MarksIntact, Depth, Base
<1>4. /\ mem[gs_CS + 2] = c.PC
      /\ \/ mem[gs_CS] = c.base + LocalMark /\ c.mod = modn
         \/ mem[gs_CS] = c.mod /\ mem[gs_CS + 1] = c.base
  BY <1>3 DEF MarkOK, Module, Base, Depth
<1>5. c.base \in Word /\ c.mod \in 0 .. LocalMark - 1
  BY <1>2 DEF Context
<1> HIDE DEF c
<1>6. c.base \in Nat /\ c.mod < LocalMark /\ c.mod \in Int /\ LocalMark \in Nat
  BY <1>5, WordFacts, MemoryAssumption
<1>7. /\ gs_S' = gs_CS /\ gs_PC' = mem[gs_CS + 2] /\ gs_L' = gs_CS'
      /\ mem[gs_CS] >= LocalMark => gs_CS' = mem[gs_CS] - LocalMark /\ modn' = modn
      /\ ~ (mem[gs_CS] >= LocalMark) => gs_CS' = mem[gs_CS + 1] /\ modn' = mem[gs_CS]
  BY DEF Return, IsLocal
<1>8. gs_CS' = c.base /\ modn' = c.mod
  <2>1. CASE mem[gs_CS] = c.base + LocalMark /\ c.mod = modn
    <3>1. mem[gs_CS] >= LocalMark /\ mem[gs_CS] - LocalMark = c.base
      BY <2>1, <1>6
    <3> QED
      BY <3>1, <2>1, <1>7
  <2>2. CASE mem[gs_CS] = c.mod /\ mem[gs_CS + 1] = c.base
    <3>1. ~ (mem[gs_CS] >= LocalMark)
      BY <2>2, <1>6
    <3> QED
      BY <3>1, <2>2, <1>7
  <2> QED
    BY <2>1, <2>2, <1>4
<1> QED
  BY <1>3, <1>4, <1>7, <1>8 DEF c, Depth

\* The marks below the one that RTN takes away are still there.
LEMMA ReturnIInv ==
  ASSUME IInv, Return
  PROVE  IInv'
<1> DEFINE n == Len(callers)
<1>1. gs_PC # 0 /\ callers \in Seq(Context) /\ mem \in [Word -> Word]
  BY DEF IInv, TypeOK, Return, Running
<1>2. n \in Nat /\ n > 0 /\ (\A k \in 1 .. n : callers[k] \in Context) /\ callers # <<>>
  BY <1>1, LenProperties, EmptySeq DEF IInv, MarksIntact, Depth
<1>3. /\ gs_S' = callers[n].S /\ gs_PC' = callers[n].PC
      /\ gs_CS' = callers[n].base /\ gs_L' = gs_CS' /\ modn' = callers[n].mod
  BY ReturnRestores DEF Depth
<1>4. /\ level' = callers[n].level
      /\ callers' = SubSeq(callers, 1, n - 1) /\ mem' = mem /\ status' = status
  BY DEF Return
<1>5. /\ callers' \in Seq(Context) /\ Len(callers') = n - 1
      /\ \A k \in 1 .. n - 1 : callers'[k] = callers[k]
  BY <1>1, <1>2, <1>4, DropContext
<1>6. /\ gs_CS = callers[n].S /\ gs_CS + 4 <= gs_S
      /\ \A k \in 2 .. n : callers[k].base = callers[k - 1].S
      /\ \A j, k \in 1 .. n : j < k => callers[j].S + 4 <= callers[k].S
      /\ \A k \in 1 .. n : MarkOK(k)
  BY <1>1 DEF IInv, MarksIntact, Depth, Base
<1>7. \A k \in 1 .. n : callers[k].PC = 0 <=> k = 1
  BY DEF IInv, EndMark, Depth
<1>8. /\ callers[n].S \in Nat /\ callers[n].base \in Word /\ callers[n].PC \in CodeAddrs \union {0}
      /\ callers[n].mod \in 0 .. LocalMark - 1 /\ callers[n].level \in Nat
  BY <1>2 DEF Context
<1>9. TypeOK'
  <2>1. gs_S' \in 0 .. StackLimit
    <3>1. gs_S \in 0 .. StackLimit /\ gs_CS \in Word
      BY DEF IInv, TypeOK
    <3>2. gs_S \in Nat /\ gs_CS \in Nat
      BY <3>1, WordFacts
    <3>3. gs_CS \in 0 .. StackLimit
      BY <3>1, <3>2, <1>6, LimitAssumption
    <3> QED
      BY <3>3, <1>3, <1>6
  <2>2. gs_PC' \in CodeAddrs \union {0}
    BY <1>3, <1>8
  <2>3. status \in {"run", "stack overflow"}
    BY DEF IInv, TypeOK
  <2> QED
    BY <1>1, <1>3, <1>4, <1>5, <1>8, <2>1, <2>2, <2>3 DEF TypeOK
<1>10. EndsWithMain' /\ EndMark'
  <2>1. callers' = <<>> <=> n = 1
    BY <1>2, <1>5, EmptySeq
  <2>2. gs_PC' = 0 <=> n = 1
    <3>1. n \in 1 .. n
      BY <1>2
    <3> QED
      BY <3>1, <1>3, <1>7
  <2>3. \A k \in 1 .. n - 1 : k \in 1 .. n
    BY <1>2
  <2> QED
    BY <2>1, <2>2, <2>3, <1>5, <1>7 DEF EndsWithMain, EndMark, Depth
<1>11. ASSUME gs_PC' # 0 PROVE MarksIntact'
  <2>1. n > 1 /\ n - 1 \in 1 .. n /\ n \in 2 .. n
    BY <1>2, <1>3, <1>7, <1>11
  <2>2. Depth' = n - 1 /\ (\A k : Base(k)' = callers'[k].S)
    BY <1>5 DEF Depth, Base
  <2>3. gs_CS' = callers[n - 1].S /\ callers[n - 1].S + 4 <= callers[n].S
    BY <2>1, <1>3, <1>6
  <2>4. callers'[n - 1] = callers[n - 1]
    BY <2>1, <1>2, <1>5
  <2>5. \A k \in 1 .. n - 1 : MarkOK(k)'
    <3> TAKE k \in 1 .. n - 1
    <3>1. k \in 1 .. n /\ k # n /\ k + 1 \in 1 .. n
      BY <1>2
    <3>2. Module(k)' = Module(k)
      <4>1. CASE k = n - 1
        <5>1. Module(k)' = modn'
          BY <4>1, <2>2 DEF Module
        <5>2. Module(k) = callers[n].mod
          BY <4>1, <3>1, <1>2 DEF Module, Depth
        <5> QED
          BY <5>1, <5>2, <1>3
      <4>2. CASE k # n - 1
        <5>1. k + 1 \in 1 .. n - 1
          BY <4>2, <1>2
        <5> QED
          BY <5>1, <4>2, <3>1, <1>5, <2>2 DEF Module, Depth
      <4> QED
        BY <4>1, <4>2
    <3>3. MarkOK(k) /\ callers'[k] = callers[k] /\ mem' = mem
      BY <3>1, <1>4, <1>5, <1>6
    <3> QED
      BY <3>2, <3>3, <2>2 DEF MarkOK, Base
  <2>6. \A k \in 2 .. n - 1 : k \in 2 .. n /\ k \in 1 .. n - 1 /\ k - 1 \in 1 .. n - 1
    BY <1>2
  <2>7. \A k \in 2 .. n - 1 : callers'[k].base = callers'[k - 1].S
    BY <2>6, <1>5, <1>6
  <2>8. \A j, k \in 1 .. n - 1 : j < k => callers'[j].S + 4 <= callers'[k].S
    <3>1. \A k \in 1 .. n - 1 : k \in 1 .. n
      BY <1>2
    <3> QED
      BY <3>1, <1>5, <1>6
  <2>9. gs_CS' = callers'[n - 1].S /\ gs_CS' + 4 <= gs_S' /\ gs_L' = gs_CS' /\ n - 1 > 0
    BY <2>1, <2>3, <2>4, <1>2, <1>3
  <2> QED
    BY <2>2, <2>5, <2>7, <2>8, <2>9 DEF MarksIntact
<1>12. MarksIntact'
  BY <1>11 DEF MarksIntact
<1> QED
  BY <1>9, <1>10, <1>12 DEF IInv

-----------------------------------------------------------------------------
(* The other opcodes                                                       *)

\* What leaves the marks of the calls in progress alone, the running frame
\* included, keeps the invariant.
LEMMA SameFramesIInv ==
  ASSUME IInv, gs_PC # 0,
         TypeOK', gs_PC' # 0, gs_CS' = gs_CS, gs_L' = gs_L, modn' = modn,
         callers' = callers, gs_CS + 4 <= gs_S',
         \A k \in 1 .. Depth, i \in 0 .. 2 : mem'[Base(k) + i] = mem[Base(k) + i]
  PROVE  IInv'
<1>1. Depth' = Depth /\ (\A k : Base(k)' = Base(k)) /\ (\A k : Module(k)' = Module(k))
  BY DEF Depth, Base, Module
<1>2. MarksIntact
  BY DEF IInv
<1>3. \A k \in 1 .. Depth : MarkOK(k)'
  <2> TAKE k \in 1 .. Depth
  <2>1. Base(k) \in Nat
    <3>1. callers[k] \in Context
      BY LenProperties DEF IInv, TypeOK, Depth
    <3> QED
      BY <3>1 DEF Base, Context
  <2>2. Base(k) + 0 = Base(k) /\ 0 \in 0 .. 2 /\ 1 \in 0 .. 2 /\ 2 \in 0 .. 2
    BY <2>1
  <2>3. /\ mem'[Base(k)] = mem[Base(k)] /\ mem'[Base(k) + 1] = mem[Base(k) + 1]
        /\ mem'[Base(k) + 2] = mem[Base(k) + 2]
    BY <2>2
  <2>4. MarkOK(k)
    BY <1>2 DEF MarksIntact
  <2> QED
    BY <1>1, <2>3, <2>4 DEF MarkOK
<1>4. MarksIntact'
  BY <1>1, <1>2, <1>3 DEF MarksIntact
<1>5. EndsWithMain' /\ EndMark'
  BY <1>1 DEF IInv, EndsWithMain, EndMark
<1> QED
  BY <1>4, <1>5 DEF IInv

\* Frames end at or below gs_CS + 4.
LEMMA BelowRunning ==
  ASSUME IInv, gs_PC # 0
  PROVE  /\ gs_CS \in Nat /\ gs_S \in Nat /\ gs_CS + 4 <= gs_S
         /\ \A k \in 1 .. Depth : Base(k) \in Nat /\ Base(k) <= gs_CS
<1>1. callers \in Seq(Context) /\ gs_CS \in Word /\ gs_S \in 0 .. StackLimit
  BY DEF IInv, TypeOK
<1>2. gs_CS \in Nat /\ gs_S \in Nat
  BY <1>1, WordFacts
<1>3. /\ gs_CS = Base(Depth) /\ gs_CS + 4 <= gs_S
      /\ \A j, k \in 1 .. Depth : j < k => Base(j) + 4 <= Base(k)
  BY DEF IInv, MarksIntact
<1>4. Depth \in Nat
  BY <1>1, LenProperties DEF Depth
<1>5. ASSUME NEW k \in 1 .. Depth PROVE Base(k) \in Nat /\ Base(k) <= gs_CS
  <2>1. callers[k] \in Context
    BY <1>1, LenProperties DEF Depth
  <2>2. Base(k) \in Nat
    BY <2>1 DEF Base, Context
  <2>3. CASE k = Depth
    BY <2>2, <2>3, <1>2, <1>3
  <2>4. CASE k # Depth
    <3>1. k < Depth /\ Depth \in 1 .. Depth
      BY <2>4, <1>4
    <3>2. Base(k) + 4 <= gs_CS
      BY <3>1, <1>3
    <3> QED
      BY <3>2, <2>2, <1>2
  <2> QED
    BY <2>3, <2>4
<1> QED
  BY <1>2, <1>3, <1>5

\* Every opcode keeps the marks.
LEMMA NextIInv ==
  ASSUME BelowTop, IInv, [Next]_vars
  PROVE  IInv'
<1>1. /\ mem \in [Word -> Word] /\ gs_S \in 0 .. StackLimit /\ gs_CS \in Word /\ gs_L \in Word
      /\ gs_PC \in CodeAddrs \union {0} /\ modn \in 0 .. LocalMark - 1
      /\ status \in {"run", "stack overflow"} /\ level \in Nat
      /\ callers \in Seq(Context)
  BY DEF IInv, TypeOK
<1>2. ASSUME Running PROVE gs_PC # 0 /\ gs_CS = gs_L
  BY <1>2 DEF Running, IInv, MarksIntact
<1>3. ASSUME Running, gs_S + 4 <= StackLimit
      PROVE  LocalWord(gs_CS) = gs_CS + LocalMark /\ LocalWord(gs_CS) \in Word
  <2>1. gs_CS \in Nat /\ gs_S \in Nat /\ gs_CS + 4 <= gs_S
    BY <1>2, <1>3, BelowRunning
  <2>2. gs_CS + LocalMark \in 0 .. MemSize - 1
    BY <2>1, <1>3, MemoryAssumption, LimitAssumption DEF BelowTop
  <2>3. (gs_CS + LocalMark) % MemSize = gs_CS + LocalMark
    BY <2>2, MemoryAssumption
  <2> QED
    BY <2>2, <2>3 DEF LocalWord, Word
<1>4. modn \in Word /\ \A m \in Modules : m \in 0 .. LocalMark - 1
  <2>1. LocalMark <= MemSize
    BY MemoryAssumption, LimitAssumption DEF BelowTop
  <2> QED
    <3>1. \A m \in 0 .. LocalMark - 1 : m \in Word
      BY <2>1, MemoryAssumption DEF Word
    <3>2. \A m \in Modules : m \in 0 .. LocalMark - 1
      BY MemoryAssumption, ModuleAssumption
    <3> QED
      BY <1>1, <3>1, <3>2
<1>5. CASE CallLocal
  <2>1. PICK lev \in {1, level + 1} : Call(LocalWord(gs_CS), gs_L, modn, lev)
    BY <1>5 DEF CallLocal
  <2>2. lev \in Nat /\ Running /\ gs_S + 4 <= StackLimit
    <3>1. level \in Nat
      BY <1>1
    <3>2. lev \in Nat
      BY <3>1
    <3> QED
      BY <3>2, <1>5, <2>1 DEF CallLocal, Call
  <2> QED
    BY <1>1, <1>3, <2>1, <2>2, CallIInv
<1>6. CASE CallLevel
  <2>1. PICK n \in 1 .. level - 1, base \in Word :
          Call(LocalWord(gs_CS), base, modn, level - n + 1)
    BY <1>6 DEF CallLevel
  <2>2. level - n + 1 \in Nat /\ Running /\ gs_S + 4 <= StackLimit
    <3>1. level \in Nat
      BY <1>1
    <3>2. level - n + 1 \in Nat
      BY <3>1
    <3> QED
      BY <3>2, <1>6, <2>1 DEF CallLevel, Call
  <2> QED
    BY <1>1, <1>3, <2>1, <2>2, CallIInv
<1>7. CASE CallExternal
  <2>1. PICK m \in Modules : Call(modn, gs_L, m, 1)
    BY <1>7 DEF CallExternal
  <2>2. Running /\ gs_L = gs_CS
    BY <1>2, <1>7 DEF CallExternal
  <2> QED
    BY <1>1, <1>4, <2>1, <2>2, CallIInv
<1>8. CASE CallFormal
  <2>1. PICK m \in Modules : Call(modn, gs_L, m, 1)
    BY <1>8 DEF CallFormal
  <2>2. Running /\ gs_L = gs_CS
    BY <1>2, <1>8 DEF CallFormal
  <2> QED
    BY <1>1, <1>4, <2>1, <2>2, CallIInv
<1>9. CASE Return
  BY <1>9, ReturnIInv
<1>10. ASSUME NEW n \in Sizes, Enter(n) PROVE IInv'
  <2>1. /\ Running /\ gs_S' = gs_S + n /\ gs_S + n <= StackLimit
        /\ UNCHANGED <<mem, gs_CS, gs_L, gs_PC, modn, status, level, callers>>
    BY <1>10 DEF Enter
  <2>2. gs_CS \in Nat /\ gs_S \in Nat /\ gs_CS + 4 <= gs_S /\ gs_PC # 0 /\ n \in Nat
    BY <1>2, <2>1, BelowRunning, SizeAssumption
  <2>3. gs_S' \in 0 .. StackLimit /\ gs_CS + 4 <= gs_S'
    BY <2>1, <2>2, LimitAssumption
  <2>4. TypeOK'
    BY <1>1, <2>1, <2>3 DEF TypeOK
  <2> QED
    BY <2>1, <2>2, <2>3, <2>4, SameFramesIInv
<1>11. ASSUME NEW n \in Sizes, EnterTrap(n) PROVE IInv'
  <2>1. /\ Running /\ status' = "stack overflow"
        /\ UNCHANGED <<mem, gs_S, gs_CS, gs_L, gs_PC, modn, level, callers>>
    BY <1>11 DEF EnterTrap, regs
  <2>2. gs_CS + 4 <= gs_S' /\ gs_PC # 0
    BY <1>2, <2>1, BelowRunning
  <2>3. TypeOK'
    BY <1>1, <2>1 DEF TypeOK
  <2> QED
    BY <2>1, <2>2, <2>3, SameFramesIInv
<1>12. ASSUME NEW v \in Values, Push(v) PROVE IInv'
  <2>1. /\ Running /\ gs_S' = gs_S + 1 /\ gs_S + 1 <= StackLimit
        /\ mem' = [mem EXCEPT ![gs_S] = v]
        /\ UNCHANGED <<gs_CS, gs_L, gs_PC, modn, status, level, callers>>
    BY <1>12 DEF Push
  <2>2. /\ gs_CS \in Nat /\ gs_S \in Nat /\ gs_CS + 4 <= gs_S /\ gs_PC # 0
        /\ \A k \in 1 .. Depth : Base(k) \in Nat /\ Base(k) <= gs_CS
    BY <1>2, <2>1, BelowRunning
  <2>3. gs_S' \in 0 .. StackLimit /\ gs_CS + 4 <= gs_S'
    BY <2>1, <2>2, LimitAssumption
  <2>4. mem' \in [Word -> Word]
    BY <1>1, <2>1, ValueAssumption DEF Word
  <2>5. TypeOK'
    BY <1>1, <2>1, <2>3, <2>4 DEF TypeOK
  <2>6. ASSUME NEW k \in 1 .. Depth, NEW i \in 0 .. 2
        PROVE  mem'[Base(k) + i] = mem[Base(k) + i]
    <3>1. Base(k) + i \in Nat /\ Base(k) + i < gs_S
      BY <2>2
    <3>2. Base(k) + i \in Word /\ Base(k) + i # gs_S
      <4>1. gs_S + 1 <= StackLimit
        BY <2>1
      <4> QED
        BY <3>1, <4>1, <2>2, MemoryAssumption, LimitAssumption DEF Word
    <3>3. mem \in [Word -> Word]
      BY <1>1
    <3> QED
      BY <3>2, <3>3, <2>1
  <2> QED
    BY <2>1, <2>2, <2>3, <2>5, <2>6, SameFramesIInv
<1>13. CASE Drop
  <2>1. /\ Running /\ gs_S > gs_CS + 4 /\ gs_S' = gs_S - 1
        /\ UNCHANGED <<mem, gs_CS, gs_L, gs_PC, modn, status, level, callers>>
    BY <1>13 DEF Drop
  <2>2. gs_CS \in Nat /\ gs_S \in Nat /\ gs_PC # 0
    BY <1>2, <2>1, BelowRunning
  <2>3. gs_S' \in 0 .. StackLimit /\ gs_CS + 4 <= gs_S'
    <3>1. gs_S \in 0 .. StackLimit
      BY <1>1
    <3> QED
      BY <3>1, <2>1, <2>2, LimitAssumption
  <2>4. TypeOK'
    BY <1>1, <2>1, <2>3 DEF TypeOK
  <2> QED
    BY <2>1, <2>2, <2>3, <2>4, SameFramesIInv
<1>14. CASE Step
  <2>1. /\ Running /\ gs_PC' \in CodeAddrs
        /\ UNCHANGED <<mem, gs_S, gs_CS, gs_L, modn, status, level, callers>>
    BY <1>14 DEF Step
  <2>2. gs_CS + 4 <= gs_S' /\ gs_PC # 0 /\ gs_PC' # 0
    BY <1>2, <2>1, BelowRunning, CodeAssumption
  <2>3. TypeOK'
    BY <1>1, <2>1 DEF TypeOK
  <2> QED
    BY <2>1, <2>2, <2>3, SameFramesIInv
<1>15. CASE UNCHANGED vars
  BY <1>15 DEF vars, regs, IInv, TypeOK, MarksIntact, EndsWithMain, EndMark, MarkOK,
               Module, Base, Depth
<1> QED
  BY <1>5, <1>6, <1>7, <1>8, <1>9, <1>10, <1>11, <1>12, <1>13, <1>14, <1>15 DEF Next

-----------------------------------------------------------------------------
(* Static links                                                            *)

\* f is BaseDown as far as n.
DownTo(f, n) ==
  /\ DOMAIN f = 0 .. n
  /\ f[0] = gs_L
  /\ \A k \in 1 .. n : f[k] = mem[f[k - 1] + 1]

\* GB n follows n links.
LEMMA BaseDownIs ==
  BaseDown[0] = gs_L /\ \A n \in Nat : BaseDown[n + 1] = mem[BaseDown[n] + 1]
<1>1. ASSUME NEW n \in Nat PROVE \E f : DownTo(f, n)
  <2> DEFINE N == {k \in Nat : \E f : DownTo(f, k)}
  <2>1. 0 \in N
    <3>1. DownTo([k \in 0 .. 0 |-> gs_L], 0)
      BY DEF DownTo
    <3> QED
      BY <3>1
  <2>2. ASSUME NEW k \in N PROVE k + 1 \in N
    <3>1. PICK f : DownTo(f, k)
      OBVIOUS
    <3> DEFINE g == [i \in 0 .. k + 1 |-> IF i = k + 1 THEN mem[f[k] + 1] ELSE f[i]]
    <3>2. DOMAIN g = 0 .. k + 1 /\ g[0] = gs_L
      BY <3>1 DEF DownTo
    <3>3. ASSUME NEW i \in 1 .. k + 1 PROVE g[i] = mem[g[i - 1] + 1]
      <4>1. i - 1 \in 0 .. k /\ i \in 0 .. k + 1 /\ g[i - 1] = f[i - 1]
        OBVIOUS
      <4>2. CASE i = k + 1
        BY <4>1, <4>2
      <4>3. CASE i # k + 1
        <5>1. i \in 1 .. k /\ g[i] = f[i]
          BY <4>1, <4>3
        <5> QED
          BY <5>1, <4>1, <3>1 DEF DownTo
      <4> QED
        BY <4>2, <4>3
    <3>4. DownTo(g, k + 1)
      BY <3>2, <3>3 DEF DownTo
    <3> QED
      BY <3>4
  <2> HIDE DEF N
  <2>3. N \in SUBSET Nat
    BY DEF N
  <2>4. N = Nat
    BY <2>1, <2>2, <2>3, Induction
  <2> QED
    BY <2>4 DEF N
<1>2. ASSUME NEW f, NEW g, NEW m \in Nat, NEW n \in Nat, m <= n, DownTo(f, m), DownTo(g, n)
      PROVE  \A k \in 0 .. m : f[k] = g[k]
  <2> DEFINE N == {k \in Nat : k <= m => f[k] = g[k]}
  <2>1. 0 \in N
    BY <1>2 DEF DownTo
  <2>2. ASSUME NEW k \in N PROVE k + 1 \in N
    <3> SUFFICES ASSUME k + 1 <= m PROVE f[k + 1] = g[k + 1]
      OBVIOUS
    <3>1. k + 1 \in 1 .. m /\ k + 1 \in 1 .. n /\ (k + 1) - 1 = k /\ f[k] = g[k]
      BY <1>2
    <3> QED
      BY <3>1, <1>2 DEF DownTo
  <2> HIDE DEF N
  <2>3. N \in SUBSET Nat
    BY DEF N
  <2>4. N = Nat
    BY <2>1, <2>2, <2>3, Induction
  <2> QED
    BY <2>4 DEF N
<1> DEFINE To(n) == CHOOSE f : DownTo(f, n)
           F == [n \in Nat |-> To(n)[n]]
           Eq(h) == h = [n \in Nat |-> IF n = 0 THEN gs_L ELSE mem[h[n - 1] + 1]]
<1>3. \A n \in Nat : DownTo(To(n), n)
  BY <1>1
<1> HIDE DEF To
<1>4. F[0] = gs_L
  BY <1>3 DEF DownTo
<1>5. ASSUME NEW n \in Nat, n # 0 PROVE F[n] = mem[F[n - 1] + 1]
  <2>1. n - 1 \in Nat /\ n - 1 <= n /\ n - 1 \in 0 .. n - 1 /\ n \in 1 .. n
    BY <1>5
  <2>2. To(n - 1)[n - 1] = To(n)[n - 1]
    BY <2>1, <1>2, <1>3
  <2>3. To(n)[n] = mem[To(n)[n - 1] + 1]
    BY <2>1, <1>3 DEF DownTo
  <2> QED
    BY <2>1, <2>2, <2>3
<1>6. F = [n \in Nat |-> F[n]]
  OBVIOUS
<1> HIDE DEF F
<1>7. Eq(F)
  BY <1>4, <1>5, <1>6
<1>8. BaseDown = CHOOSE h : Eq(h)
  BY DEF BaseDown
<1>9. Eq(BaseDown)
  BY <1>7, <1>8
<1>10. ASSUME NEW h, Eq(h), NEW n \in Nat PROVE h[0] = gs_L /\ h[n + 1] = mem[h[n] + 1]
  <2>1. 0 \in Nat /\ n + 1 \in Nat /\ n + 1 # 0 /\ (n + 1) - 1 = n
    OBVIOUS
  <2>2. \A k \in Nat : h[k] = IF k = 0 THEN gs_L ELSE mem[h[k - 1] + 1]
    BY <1>10
  <2> QED
    BY <2>1, <2>2
<1> HIDE DEF Eq
<1> QED
  BY <1>9, <1>10

\* n links down there is the enclosing procedure n levels further out.
LEMMA EnclosingFound ==
  ASSUME IInv, StaticLinks, gs_PC # 0, NEW n \in 0 .. level - 1
  PROVE  \E j \in 1 .. Depth : BaseDown[n] = Base(j) /\ Level(j) = level - n /\ Module(j) = modn
<1> DEFINE Found(k) ==
      \E j \in 1 .. Depth : BaseDown[k] = Base(j) /\ Level(j) = level - k /\ Module(j) = modn
<1> DEFINE N == {k \in Nat : k < level => Found(k)}
<1>1. level \in Nat /\ callers \in Seq(Context) /\ gs_L = Base(Depth) /\ Depth > 0
  BY DEF IInv, TypeOK, MarksIntact
<1>2. Depth \in 1 .. Depth
  BY <1>1, LenProperties DEF Depth
<1>3. 0 \in N
  <2>1. BaseDown[0] = Base(Depth)
    BY <1>1, BaseDownIs
  <2>2. Level(Depth) = level - 0 /\ Module(Depth) = modn
    BY <1>1 DEF Level, Module
  <2> QED
    BY <2>1, <2>2, <1>2
<1>4. ASSUME NEW k \in N PROVE k + 1 \in N
  <2> SUFFICES ASSUME k + 1 < level PROVE Found(k + 1)
    OBVIOUS
  <2>1. PICK j \in 1 .. Depth : BaseDown[k] = Base(j) /\ Level(j) = level - k /\ Module(j) = modn
    BY <1>1
  <2>2. Level(j) > 1
    BY <2>1, <1>1
  <2>3. PICK i \in 1 .. j - 1 :
          mem[Base(j) + 1] = Base(i) /\ Level(i) = Level(j) - 1 /\ Module(i) = Module(j)
    BY <2>2 DEF StaticLinks
  <2>4. i \in 1 .. Depth
    BY <1>2
  <2>5. BaseDown[k + 1] = Base(i)
    BY <2>1, <2>3, BaseDownIs
  <2>6. Level(i) = level - (k + 1) /\ Module(i) = modn
    <3>1. level \in Nat /\ Level(i) = (level - k) - 1
      BY <1>1, <2>1, <2>3
    <3> QED
      BY <3>1, <2>1, <2>3
  <2> QED
    BY <2>4, <2>5, <2>6
<1>5. N = Nat
  <2> HIDE DEF N
  <2>1. N \in SUBSET Nat
    BY DEF N
  <2> QED
    BY <2>1, <1>3, <1>4, Induction
<1>6. n \in N /\ n < level
  BY <1>5, <1>1
<1> QED
  BY <1>6

\* A call whose link is the base of the procedure around the called one.
LEMMA CallLinks ==
  ASSUME IInv, StaticLinks, Running,
         NEW first \in Word, NEW link \in Word, NEW m, NEW lev \in Nat,
         lev > 1 => \E j \in 1 .. Depth : link = Base(j) /\ Level(j) = lev - 1 /\ Module(j) = m,
         Call(first, link, m, lev)
  PROVE  StaticLinks'
<1>1. gs_PC # 0 /\ level' = lev /\ modn' = m
  BY DEF Running, Call
<1>2. /\ Depth \in Nat /\ Depth' = Depth + 1
      /\ \A k \in 1 .. Depth : callers'[k] = callers[k]
      /\ callers'[Depth + 1] =
           [S |-> gs_S, base |-> gs_CS, mod |-> modn, PC |-> gs_PC, level |-> level]
      /\ mem'[gs_S + 1] = link /\ \A a \in Word : a < gs_S => mem'[a] = mem[a]
  BY CallShape
<1>3. /\ gs_CS \in Nat /\ gs_S \in Nat /\ gs_CS + 4 <= gs_S
      /\ \A k \in 1 .. Depth : Base(k) \in Nat /\ Base(k) <= gs_CS
  BY <1>1, BelowRunning
<1>4. ASSUME NEW k \in 1 .. Depth
      PROVE  Base(k)' = Base(k) /\ Level(k)' = Level(k) /\ Module(k)' = Module(k)
  <2>1. k # Depth + 1 /\ k \in 1 .. Depth + 1
    BY <1>2
  <2>2. CASE k = Depth
    BY <2>1, <2>2, <1>2 DEF Base, Level, Module
  <2>3. CASE k # Depth
    <3>1. k + 1 \in 1 .. Depth
      BY <2>3, <1>2
    <3> QED
      BY <2>1, <2>3, <3>1, <1>2 DEF Base, Level, Module
  <2> QED
    BY <2>2, <2>3
<1>5. ASSUME NEW k, k = Depth + 1
      PROVE  Base(k)' = gs_S /\ Level(k)' = lev /\ Module(k)' = m
  BY <1>1, <1>2, <1>5 DEF Base, Level, Module
<1>6. ASSUME NEW k \in 1 .. Depth PROVE mem'[Base(k) + 1] = mem[Base(k) + 1]
  <2>1. Base(k) + 1 < gs_S /\ Base(k) + 1 \in Nat
    BY <1>3
  <2>2. gs_S + 4 <= StackLimit
    BY DEF Call
  <2>3. Base(k) + 1 \in Word
    BY <2>1, <2>2, <1>3, MemoryAssumption, LimitAssumption DEF Word
  <2> QED
    BY <2>1, <2>3, <1>2
<1>7. SUFFICES ASSUME NEW k \in 1 .. Depth + 1, Level(k)' > 1
               PROVE  \E j \in 1 .. k - 1 :
                        /\ mem'[Base(k)' + 1] = Base(j)'
                        /\ Level(j)' = Level(k)' - 1
                        /\ Module(j)' = Module(k)'
  BY <1>2 DEF StaticLinks
<1>8. CASE k = Depth + 1
  <2>1. PICK j \in 1 .. Depth : link = Base(j) /\ Level(j) = lev - 1 /\ Module(j) = m
    BY <1>5, <1>7, <1>8
  <2>2. j \in 1 .. k - 1
    BY <1>2, <1>8
  <2>3. mem'[gs_S + 1] = Base(j)' /\ Level(j)' = lev - 1 /\ Module(j)' = m
    BY <2>1, <1>2, <1>4
  <2>4. Base(k)' = gs_S /\ Level(k)' = lev /\ Module(k)' = m
    BY <1>5, <1>8
  <2> QED
    BY <2>2, <2>3, <2>4
<1>9. CASE k # Depth + 1
  <2>1. k \in 1 .. Depth
    BY <1>2, <1>9
  <2>2. PICK j \in 1 .. k - 1 :
          mem[Base(k) + 1] = Base(j) /\ Level(j) = Level(k) - 1 /\ Module(j) = Module(k)
    BY <2>1, <1>1, <1>4, <1>7 DEF StaticLinks
  <2>3. j \in 1 .. Depth
    BY <2>1, <1>2
  <2> QED
    BY <2>1, <2>2, <2>3, <1>4, <1>6
<1> QED
  BY <1>8, <1>9

\* RTN takes the last call away, and no link but its own leads from there.
LEMMA ReturnLinks ==
  ASSUME IInv, StaticLinks, Return
  PROVE  StaticLinks'
<1>1. callers \in Seq(Context) /\ gs_PC # 0 /\ Depth > 0
  BY DEF IInv, TypeOK, Return, Running, MarksIntact
<1>2. Depth \in Nat /\ callers # <<>>
  BY <1>1, LenProperties, EmptySeq DEF Depth
<1>3. /\ callers' = SubSeq(callers, 1, Depth - 1) /\ mem' = mem
      /\ level' = callers[Depth].level /\ modn' = callers[Depth].mod
  BY ReturnRestores DEF Return, Depth
<1>4. Depth' = Depth - 1 /\ \A k \in 1 .. Depth - 1 : callers'[k] = callers[k]
  BY <1>1, <1>2, <1>3, DropContext DEF Depth
<1>5. ASSUME NEW k \in 1 .. Depth - 1
      PROVE  Base(k)' = Base(k) /\ Level(k)' = Level(k) /\ Module(k)' = Module(k)
  <2>1. k # Depth
    BY <1>2
  <2>2. CASE k = Depth - 1
    <3>1. k + 1 = Depth
      BY <2>2, <1>2
    <3> QED
      BY <2>1, <2>2, <3>1, <1>3, <1>4 DEF Base, Level, Module
  <2>3. CASE k # Depth - 1
    <3>1. k + 1 \in 1 .. Depth - 1
      BY <2>3, <1>2
    <3> QED
      BY <2>1, <2>3, <3>1, <1>4 DEF Base, Level, Module
  <2> QED
    BY <2>2, <2>3
<1>6. SUFFICES ASSUME NEW k \in 1 .. Depth - 1, Level(k)' > 1
               PROVE  \E j \in 1 .. k - 1 :
                        /\ mem'[Base(k)' + 1] = Base(j)'
                        /\ Level(j)' = Level(k)' - 1
                        /\ Module(j)' = Module(k)'
  BY <1>4 DEF StaticLinks
<1>7. k \in 1 .. Depth
  BY <1>2
<1>8. PICK j \in 1 .. k - 1 :
        mem[Base(k) + 1] = Base(j) /\ Level(j) = Level(k) - 1 /\ Module(j) = Module(k)
  BY <1>1, <1>5, <1>6, <1>7 DEF StaticLinks
<1>9. j \in 1 .. Depth - 1
  BY <1>2
<1> QED
  BY <1>3, <1>5, <1>8, <1>9

\* What leaves the calls in progress and their links alone.
LEMMA SameLinks ==
  ASSUME StaticLinks, gs_PC # 0, modn' = modn, level' = level, callers' = callers,
         \A k \in 1 .. Depth : mem'[Base(k) + 1] = mem[Base(k) + 1]
  PROVE  StaticLinks'
<1>1. /\ Depth' = Depth /\ (\A k : Base(k)' = Base(k))
      /\ (\A k : Level(k)' = Level(k)) /\ (\A k : Module(k)' = Module(k))
  BY DEF Depth, Base, Level, Module
<1> QED
  BY <1>1 DEF StaticLinks

\* Every opcode keeps the links.
LEMMA NextLinks ==
  ASSUME BelowTop, IInv, StaticLinks, [Next]_vars
  PROVE  StaticLinks'
<1>1. /\ mem \in [Word -> Word] /\ gs_S \in 0 .. StackLimit /\ gs_CS \in Word
      /\ gs_L \in Word /\ modn \in 0 .. LocalMark - 1 /\ level \in Nat
      /\ callers \in Seq(Context)
  BY DEF IInv, TypeOK
<1>2. Depth \in Nat
  BY <1>1, LenProperties DEF Depth
<1>3. ASSUME Running
      PROVE  gs_PC # 0 /\ gs_L = Base(Depth) /\ Depth \in 1 .. Depth
  <2>1. gs_PC # 0 /\ gs_L = Base(Depth) /\ Depth > 0
    BY <1>3 DEF Running, IInv, MarksIntact
  <2> QED
    BY <2>1, <1>2
<1>4. LocalWord(gs_CS) \in Word /\ modn \in Word
  <2>1. gs_CS \in Nat /\ MemSize \in Nat /\ MemSize > 0 /\ LocalMark \in Nat
    BY <1>1, WordFacts, MemoryAssumption, LimitAssumption
  <2>2. (gs_CS + LocalMark) % MemSize \in 0 .. MemSize - 1
    BY <2>1
  <2>3. LocalMark <= MemSize
    BY MemoryAssumption, LimitAssumption DEF BelowTop
  <2>4. modn \in Word
    BY <1>1, <2>1, <2>3 DEF Word
  <2> QED
    BY <2>2, <2>4 DEF LocalWord, Word
<1>5. CASE CallLocal
  <2>1. PICK lev \in {1, level + 1} : Call(LocalWord(gs_CS), gs_L, modn, lev)
    BY <1>5 DEF CallLocal
  <2>2. Running /\ lev \in Nat
    BY <1>1, <1>5 DEF CallLocal
  <2>3. lev > 1 => gs_L = Base(Depth) /\ Level(Depth) = lev - 1 /\ Module(Depth) = modn
    BY <2>2, <1>1, <1>3 DEF Level, Module
  <2> QED
    BY <2>1, <2>2, <2>3, <1>1, <1>3, <1>4, CallLinks
<1>6. CASE CallLevel
  <2>1. PICK n \in 1 .. level - 1, base \in Word :
          base = BaseDown[n] /\ Call(LocalWord(gs_CS), base, modn, level - n + 1)
    BY <1>6 DEF CallLevel
  <2>2. Running /\ level - n + 1 \in Nat /\ n \in 0 .. level - 1 /\ (level - n + 1) - 1 = level - n
    <3>1. level \in Nat /\ n \in Int
      BY <1>1
    <3> QED
      BY <3>1, <1>6 DEF CallLevel
  <2>3. PICK j \in 1 .. Depth : base = Base(j) /\ Level(j) = level - n /\ Module(j) = modn
    BY <2>1, <2>2, <1>3, EnclosingFound
  <2> QED
    BY <2>1, <2>2, <2>3, <1>4, CallLinks
<1>7. CASE CallExternal
  <2>1. PICK m \in Modules : Call(modn, gs_L, m, 1)
    BY <1>7 DEF CallExternal
  <2> QED
    BY <2>1, <1>1, <1>4, <1>7, CallLinks DEF CallExternal
<1>8. CASE CallFormal
  <2>1. PICK m \in Modules : Call(modn, gs_L, m, 1)
    BY <1>8 DEF CallFormal
  <2> QED
    BY <2>1, <1>1, <1>4, <1>8, CallLinks DEF CallFormal
<1>9. CASE Return
  BY <1>9, ReturnLinks
<1>10. ASSUME NEW n \in Sizes, Enter(n) \/ EnterTrap(n) PROVE StaticLinks'
  BY <1>10, SameLinks DEF Enter, EnterTrap, Running, regs
<1>11. ASSUME NEW v \in Values, Push(v) PROVE StaticLinks'
  <2>1. /\ Running /\ gs_S + 1 <= StackLimit /\ mem' = [mem EXCEPT ![gs_S] = v]
        /\ modn' = modn /\ level' = level /\ callers' = callers
    BY <1>11 DEF Push
  <2>2. /\ gs_CS \in Nat /\ gs_S \in Nat /\ gs_CS + 4 <= gs_S /\ gs_PC # 0
        /\ \A k \in 1 .. Depth : Base(k) \in Nat /\ Base(k) <= gs_CS
    BY <2>1, <1>3, BelowRunning
  <2>3. ASSUME NEW k \in 1 .. Depth PROVE mem'[Base(k) + 1] = mem[Base(k) + 1]
    <3>1. Base(k) + 1 \in Nat /\ Base(k) + 1 < gs_S
      BY <2>2
    <3>2. Base(k) + 1 \in Word /\ Base(k) + 1 # gs_S
      BY <3>1, <2>1, <2>2, MemoryAssumption, LimitAssumption DEF Word
    <3> QED
      BY <3>2, <1>1, <2>1
  <2> QED
    BY <2>1, <2>2, <2>3, SameLinks
<1>12. CASE Drop \/ Step
  BY <1>12, SameLinks DEF Drop, Step, Running
<1>13. CASE UNCHANGED vars
  BY <1>13 DEF vars, regs, StaticLinks, Level, Module, Base, Depth
<1> QED
  BY <1>5, <1>6, <1>7, <1>8, <1>9, <1>10, <1>11, <1>12, <1>13 DEF Next

-----------------------------------------------------------------------------
(* The theorems                                                            *)

\* For every program and every memory size, the marks of the calls in progress
\* stay as they were written (stk_mark, le_stack.c:124), as long as the stack
\* keeps out of the last LocalMark words.
THEOREM MarksStayIntact == ASSUME BelowTop PROVE Spec => []MarksIntact
<1>1. Init => IInv
  BY InitIInv
<1>2. IInv /\ [Next]_vars => IInv'
  BY NextIInv
<1>3. IInv => MarksIntact
  BY DEF IInv
<1> QED
  BY <1>1, <1>2, <1>3, PTL DEF Spec

\* Every RTN (le_mcode.c:1427) gives the caller its frame, its stack, its module
\* and its gs_PC back.
THEOREM ReturnsRestore == ASSUME BelowTop PROVE Spec => ReturnRestoresCaller
<1> DEFINE Restores ==
      Len(callers') < Len(callers) =>
        LET c == callers[Depth]
        IN /\ gs_S' = c.S /\ gs_CS' = c.base /\ gs_L' = c.base
           /\ gs_PC' = c.PC /\ modn' = c.mod
<1>1. Init => IInv
  BY InitIInv
<1>2. IInv /\ [Next]_vars => IInv'
  BY NextIInv
<1>3. IInv /\ [Next]_vars => [Restores]_vars
  <2> SUFFICES ASSUME IInv, Next, Len(callers') < Len(callers)
               PROVE  Restores
    OBVIOUS
  <2>1. callers \in Seq(Context)
    BY DEF IInv, TypeOK
  <2>2. Len(callers) \in Nat
    BY <2>1, LenProperties
  <2>3. callers' # callers
    BY <2>2
  <2>4. ASSUME NEW first, NEW link, NEW m, NEW lev, Call(first, link, m, lev) PROVE FALSE
    <3>1. Len(callers') = Len(callers) + 1
      BY <2>1, <2>4 DEF Call
    <3> QED
      BY <3>1, <2>2
  <2>5. Return
    BY <2>3, <2>4 DEF Next, CallLocal, CallLevel, CallExternal, CallFormal, Enter,
                      EnterTrap, Push, Drop, Step
  <2> QED
    BY <2>5, ReturnRestores
<1> QED
  BY <1>1, <1>2, <1>3, PTL DEF Spec, ReturnRestoresCaller

\* le_execute ends with the main module, in every program.
THEOREM EndIsMain == ASSUME BelowTop PROVE Spec => []EndsWithMain
<1>1. Init => IInv
  BY InitIInv
<1>2. IInv /\ [Next]_vars => IInv'
  BY NextIInv
<1>3. IInv => EndsWithMain
  BY DEF IInv
<1> QED
  BY <1>1, <1>2, <1>3, PTL DEF Spec

\* The second word of the mark of a nested procedure leads to the procedure around it
\* (CLL, CLI; GB, le_mcode.c:1386), however the calls of nested, global, external and
\* formal procedures follow one another.
THEOREM LinksLeadOut == ASSUME BelowTop PROVE Spec => []StaticLinks
<1>1. Init => IInv /\ StaticLinks
  <2>1. ASSUME Init PROVE StaticLinks
    <3>1. Depth = 1 /\ level = 1
      BY <2>1 DEF Init, Depth
    <3> QED
      BY <3>1 DEF StaticLinks, Level
  <2> QED
    BY <2>1, InitIInv
<1>2. IInv /\ StaticLinks /\ [Next]_vars => IInv' /\ StaticLinks'
  BY NextIInv, NextLinks
<1> QED
  BY <1>1, <1>2, PTL DEF Spec

\* Addresses, registers and calls in progress keep their types.
THEOREM FramesTypeOK == ASSUME BelowTop PROVE Spec => []TypeOK
<1>1. Init => IInv
  BY InitIInv
<1>2. IInv /\ [Next]_vars => IInv'
  BY NextIInv
<1>3. IInv => TypeOK
  BY DEF IInv
<1> QED
  BY <1>1, <1>2, <1>3, PTL DEF Spec

=============================================================================
