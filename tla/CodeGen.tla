------------------------------- MODULE CodeGen -------------------------------
(***************************************************************************)
(* The code that the compiler on the disk (M2SPL.MOD, M2SGL.MOD) makes of  *)
(* Modula-2: what the interpreter MCode has to give a meaning to.          *)
(*                                                                         *)
(* A node of a program is a record whose field k is its kind.  Variables   *)
(* are [at, adr], at being "global" or "local"; one that is larger than    *)
(* two words holds the address of its data.  Types are checked already,    *)
(* and nothing is folded: operands are variables where the compiler would  *)
(* do so.                                                                  *)
(***************************************************************************)
EXTENDS Words, Sequences, SequencesExt

CodeBase == 2   \* where code begins: le_execute ends at address 0

Own == 3        \* the number the loader gives the module

Ins(op, size, a, b) == [op |-> op, size |-> size, a |-> a, b |-> b]
Op(op) == Ins(op, 1, 0, 0)
OpByte(op, a) == Ins(op, 2, a, 0)
OpWord(op, a) == Ins(op, 3, a, 0)
TableWord(a) == Ins("word", 2, a, 0)

Size(code) == FoldLeft(LAMBDA n, ins : n + ins.size, 0, code)

-----------------------------------------------------------------------------
(* Loads and stores                                                        *)

\* PutLit, PutOpArg
Lit(n) == IF n < 16 THEN <<Ins("LI", 1, n, 0)>>
          ELSE IF n = W - 1 THEN <<Op("LIN")>> ELSE <<OpByte("LI", n)>>
Short(op, a) == IF a < 16 THEN Ins(op, 1, a, 0) ELSE OpByte(op, a)

\* PutLd, PutSto, loadAdr
Load(v, size) ==
  IF size = 2 THEN <<OpByte(IF v.at = "global" THEN "LGD" ELSE "LLD", v.adr)>>
  ELSE <<Short(IF v.at = "global" THEN "LGW" ELSE "LLW", v.adr)>>
Store(v, size) ==
  IF size = 2 THEN <<OpByte(IF v.at = "global" THEN "SGD" ELSE "SLD", v.adr)>>
  ELSE <<Short(IF v.at = "global" THEN "SGW" ELSE "SLW", v.adr)>>
Address(v) == <<OpByte(IF v.at = "global" THEN "LGA" ELSE "LLA", v.adr)>>

Indirect(size) == IF size = 2 THEN <<Op("LSD")>> ELSE <<Short("LSW", 0)>>

\* GenIndex leaves the base of the array and the checked index.
Bounded(high) == Lit(high) \o <<Op("CHKZ")>>

ElemSize(type) == IF type = "long" THEN 2 ELSE 1
LoadElem == [word |-> <<Op("LXW")>>, char |-> <<Op("LXB")>>, long |-> <<Op("LXD")>>]
StoreElem == [word |-> <<Op("SXW")>>, char |-> <<Op("SXB")>>]

-----------------------------------------------------------------------------
(* Operators: GenOp, GenNeg, GenNot, GenIn, the standard functions ABS and *)
(* ODD, and code procedures of the library.                                *)

OpsOf == [
  card |-> [add |-> <<"UADD">>, sub |-> <<"USUB">>, mul |-> <<"UMUL">>, div |-> <<"UDIV">>,
            mod |-> <<"UMOD">>, lss |-> <<"ULSS">>, leq |-> <<"ULEQ">>, gtr |-> <<"UGTR">>,
            geq |-> <<"UGEQ">>, eql |-> <<"EQL">>, neq |-> <<"NEQ">>,
            mulpow |-> <<"SHL">>, divpow |-> <<"SHR">>, neg |-> <<"CHKS", "NEG">>],
  int  |-> [add |-> <<"IADD">>, sub |-> <<"ISUB">>, mul |-> <<"IMUL">>, div |-> <<"IDIV">>,
            mod |-> <<"CHKS", "UMOD">>, lss |-> <<"LSS">>, leq |-> <<"LEQ">>,
            gtr |-> <<"GTR">>, geq |-> <<"GEQ">>, abs |-> <<"ABS">>, neg |-> <<"NEG">>,
            rem |-> <<"MOD">>],
  set  |-> [add |-> <<"OR">>, sub |-> <<"COM", "AND">>, mul |-> <<"AND">>,
            div |-> <<"XOR">>, leq |-> <<"COM", "AND", "LI0", "EQL">>,
            geq |-> <<"COM", "OR", "LIN", "EQL">>, in |-> <<"IN">>, com |-> <<"COM">>,
            ror |-> <<"ROR">>, msk |-> <<"MSK">>, unpk |-> <<"UNPK">>],
  bool |-> [not |-> <<"NOT">>],
  long |-> [add |-> <<"DADD">>, sub |-> <<"DSUB">>, mul |-> <<"DMUL">>, div |-> <<"DDIV">>,
            shl |-> <<"DSHL">>, shr |-> <<"DSHR">>]]

Operator(type, op) ==
  LET names == OpsOf[type][op]
  IN [k \in 1 .. Len(names) |->
        IF names[k] = "LI0" THEN Ins("LI", 1, 0, 0) ELSE Op(names[k])]

WordsOf(e) == IF e.type = "long" THEN 2 ELSE 1

-----------------------------------------------------------------------------
(* Expressions.  sp is the number of words on the expression stack.        *)

RECURSIVE Expr(_, _), Exprs(_, _)

\* PrepCall and adjustStack: what waits on the expression stack is kept on the
\* stack while a function runs.
Around(sp, type, call) ==
  IF sp = 0 THEN call
  ELSE <<Op("STORE")>> \o call \o <<Op(IF type = "long" THEN "LODFD" ELSE "LODFW")>>

Exprs(es, sp) ==
  IF es = <<>> THEN <<>>
  ELSE Expr(Head(es), sp) \o Exprs(Tail(es), sp + WordsOf(Head(es)))

\* GenCall: a procedure by its number, or by the value of a variable, which here is
\* a statement: PrepCall of a function in an expression may need STOFV, which stops
\* the emulator.
CallOf(e) ==
  IF e.k = "call" THEN Exprs(e.args, 0) \o <<Short("CLL", e.proc)>>
  ELSE Load(e.v, 1) \o <<Op("STOT")>> \o Exprs(e.args, 0) \o <<Op("CLF"), Op("DECS")>>

Expr(e, sp) ==
  CASE e.k = "con" -> IF e.type = "long" THEN <<Ins("LID", 5, e.n \div W, e.n % W)>>
                      ELSE Lit(e.n)
    [] e.k = "set" -> Lit(WordOf({Bits - 1 - i : i \in e.n}))
    [] e.k = "proc" -> Lit(Own * Byte + e.n)
    [] e.k = "var" -> Load(e.v, WordsOf(e))
    [] e.k = "ref" -> Load(e.v, 1) \o Indirect(WordsOf(e))
    [] e.k = "adr" -> IF e.large THEN Load(e.v, 1) ELSE Address(e.v)
    [] e.k = "elem" -> Load(e.v, 1) \o Expr(e.i, sp + 1) \o Bounded(e.high)
                       \o LoadElem[e.elem]
    [] e.k = "op" -> Exprs(e.args, sp) \o Operator(e.of, e.op)
    [] e.k = "and" -> LET y == Expr(e.y, sp)
                      IN Expr(e.x, sp) \o <<OpByte("ANDJP", Size(y) + 1)>> \o y
    [] e.k = "or" -> LET y == Expr(e.y, sp)
                     IN Expr(e.x, sp) \o <<OpByte("ORJP", Size(y) + 1)>> \o y
    [] e.k = "call" -> Around(sp, e.type, CallOf(e))

-----------------------------------------------------------------------------
(* Statements                                                              *)

\* GenFJ, GenCFJ: forward over n bytes; GenBJ, GenCBJ: back over n bytes.
Forward(op, n) == <<OpWord(op, n + 2)>>
Back(short, long, n) ==
  IF n < Byte - 1 THEN <<OpByte(short, n + 1)>> ELSE <<OpWord(long, -(n + 1))>>

\* GenAssign: checks of a subrange, which begins at 0 or below (UCHK, for the
\* others, stops the emulator).
InRange(s) ==
  IF s.range = <<>> THEN <<>>
  ELSE IF s.range[1] = 0 THEN Bounded(s.range[2])
  ELSE Lit(ToWord(s.range[1])) \o Lit(s.range[2]) \o <<Op("CHK")>>

\* GenFor1 - GenFor4
ForLoop(s, body) ==
  Address(s.v) \o Expr(s.from, 1) \o Expr(s.to, 2)
  \o <<Ins("FOR1", 4, IF s.by > 0 THEN 0 ELSE 1, Size(body) + 6)>>
  \o body \o <<Ins("FOR2", 4, s.by, -(Size(body) + 2))>>

\* GenCase1 - GenCase3.  bodies are the alternatives, each with its EXC, and
\* other the ELSE part; the labels of alternative k are s.labels[k].
CaseOf(s, bodies, other) ==
  LET all == FlattenSeq(bodies)
      start == [k \in 1 .. Len(bodies) |-> Size(FlattenSeq(SubSeq(bodies, 1, k - 1)))]
      labels == UNION {s.labels[k] : k \in DOMAIN s.labels}
      low == Min(labels)
      high == Max(labels)
      else == Size(all)
      table == else + Size(other) + 4
      target(n) == IF n \in labels
                   THEN start[CHOOSE k \in DOMAIN s.labels : n \in s.labels[k]] ELSE else
  IN Expr(s.e, 0) \o <<OpWord("ENTC", 2 + else + Size(other))>> \o all \o other
     \o <<TableWord(low), TableWord(high), TableWord(else - table)>>
     \o [k \in 1 .. high - low + 1 |-> TableWord(target(low + k - 1) - (table + 2 * k))]

RECURSIVE Stmt(_), Stmts(_)

Stmts(ss) == IF ss = <<>> THEN <<>> ELSE Stmt(Head(ss)) \o Stmts(Tail(ss))

Stmt(s) ==
  CASE s.k = "assign" -> Expr(s.e, 0) \o InRange(s) \o Store(s.v, WordsOf(s.e))
    [] s.k = "assignref" ->
         Load(s.v, 1) \o Expr(s.e, 1)
         \o (IF WordsOf(s.e) = 2 THEN <<Op("SSD")>> ELSE <<Short("SSW", 0)>>)
    [] s.k = "assignfield" ->
         Load(s.v, 1) \o Expr(s.e, 1)
         \o (IF WordsOf(s.e) = 2 THEN <<OpByte("SSD", 2 * s.n)>> ELSE <<Short("SSW", s.n)>>)
    [] s.k = "assignelem" -> Load(s.v, 1) \o Expr(s.i, 1) \o Bounded(s.high)
                             \o Expr(s.e, 2) \o StoreElem[s.elem]
    [] s.k = "copy" -> Load(s.v, 1) \o Load(s.from, 1) \o Lit(s.n) \o <<Op("MOV")>>
    [] s.k = "pack" -> Address(s.v) \o Exprs(s.args, 1) \o <<Op("PACK")>>
    [] s.k = "inc" -> Address(s.v) \o <<Op("COPT"), Short("LSW", 0)>> \o Expr(s.e, 2)
                      \o Operator(s.type, s.op) \o <<Short("SSW", 0)>>
    [] s.k = "if" ->
         LET then == Stmts(s.then)
             else == Stmts(s.else)
         IN IF else = <<>> THEN Expr(s.e, 0) \o Forward("JPC", Size(then)) \o then
            ELSE Expr(s.e, 0) \o Forward("JPC", Size(then) + 3) \o then
                 \o Forward("JP", Size(else)) \o else
    [] s.k = "while" ->
         LET e == Expr(s.e, 0)
             body == Stmts(s.body)
             back == Back("JPB", "JP", Size(e) + 3 + Size(body))
         IN e \o Forward("JPC", Size(body) + Size(back)) \o body \o back
    [] s.k = "repeat" ->
         LET code == Stmts(s.body) \o Expr(s.e, 0)
         IN code \o Back("JPBC", "JPC", Size(code))
    [] s.k = "for" -> ForLoop(s, Stmts(s.body))
    [] s.k = "case" ->
         CaseOf(s, [k \in DOMAIN s.bodies |-> Stmts(s.bodies[k]) \o <<Op("EXC")>>],
                IF s.trap THEN Lit(4) \o <<Op("TRAP")>> ELSE Stmts(s.else) \o <<Op("EXC")>>)
    [] s.k \in {"call", "callvar"} -> CallOf(s)
    [] s.k = "return" -> (IF s.e = <<>> THEN <<>> ELSE Expr(s.e[1], 0)) \o <<Op("RTN")>>

-----------------------------------------------------------------------------
(* Procedures and modules.  A procedure has parameters [k, adr, size], the *)
(* size of its frame, and local arrays [adr, size].                        *)

\* unstack: parameters are popped in reverse; arrays are copied.
Unstack(p) ==
  CASE p.k = "value" -> Store([at |-> "local", adr |-> p.adr], p.size)
    [] p.k = "var" -> Store([at |-> "local", adr |-> p.adr], 1)
    [] p.k = "array" -> Lit(p.size) \o <<OpByte("PCOP", p.adr)>>

Unstacked(params) == FlattenSeq([k \in DOMAIN params |-> Unstack(params[Len(params) + 1 - k])])

\* scanlist1: arrays of a procedure, and of the module.
LocalArray(a) == Lit(a.size) \o <<Op("ALLOC"), Short("SLW", a.adr)>>
GlobalArray(a) == <<Op("COPT"), Short("SGW", a.adr), OpByte("LSA", a.size)>>

Arrays(code(_), arrays) == FlattenSeq([k \in DOMAIN arrays |-> code(arrays[k])])

\* GenEnter: where the statements of a procedure begin.
Prologue(p) == <<OpByte("ENTR", p.size - 4)>> \o Unstacked(p.params)
               \o Arrays(LocalArray, p.arrays)

\* InitGenerator: the body of a module runs once.  Data are allocated above the
\* m.size words of its variables.
InitModule(m) ==
  <<OpByte("LGA", 1), Op("TS"), OpByte("JPFC", 2), Op("RTN"), OpByte("LGA", m.size)>>
  \o Arrays(GlobalArray, m.arrays) \o <<Short("SGW", 2)>>

\* ProcedureDeclaration: a function ends with trap 9, unless it returned.
Leave(function) == IF function THEN Lit(9) \o <<Op("TRAP")>> ELSE <<Op("RTN")>>

\* Words that a procedure has on the stack between its statements, above its mark.
Frame(p) == p.size - 4 + FoldLeft(LAMBDA n, x : n + x.size, 0,
                                  SelectSeq(p.params, LAMBDA x : x.k = "array") \o p.arrays)

\* The routines of a module: its own body, and its procedures.
Body(m) == [enter |-> InitModule(m), body |-> m.body, leave |-> Leave(FALSE), frame |-> 0]
Routine(p) ==
  [enter |-> Prologue(p), body |-> p.body, leave |-> Leave(p.function), frame |-> Frame(p)]
Routines(m) == <<Body(m)>> \o [k \in DOMAIN m.procs |-> Routine(m.procs[k])]

RECURSIVE Placed(_, _), Linked(_, _)

\* Code at the address n.
Placed(n, code) ==
  IF code = <<>> THEN <<>>
  ELSE (n :> Head(code)) @@ Placed(n + Head(code).size, Tail(code))

\* The addresses between the statements of a routine that begins at n.
Between(n, r) ==
  {n + Size(r.enter) + Size(Stmts(SubSeq(r.body, 1, k))) : k \in 0 .. Len(r.body)}

\* The object file, from address n on: the code, the table of procedures, and for
\* the addresses between statements the words that their routine has on the stack.
\* GenEnter and GenEnterMod begin at an even address.
Linked(n, routines) ==
  IF routines = <<>> THEN [code |-> <<>>, proc |-> <<>>, rest |-> <<>>]
  ELSE LET r == Head(routines)
           start == n + (n % 2)
           code == r.enter \o Stmts(r.body) \o r.leave
           others == Linked(start + Size(code), Tail(routines))
       IN [code |-> Placed(n, (IF start = n THEN <<>> ELSE <<Op("NOP")>>) \o code) @@ others.code,
           proc |-> <<start>> \o others.proc,
           rest |-> [a \in Between(start, r) |-> r.frame] @@ others.rest]

ImageOf(m) == Linked(CodeBase, Routines(m))

=============================================================================
