------------------------------ MODULE Samples ------------------------------
(***************************************************************************)
(* Modula-2 programs, as the trees of CodeGen: one for each operator, and  *)
(* one for each way in which loops, CASE, calls and parameters meet.       *)
(* Words are small, so that the values of their inputs include the         *)
(* boundaries of arithmetic.                                               *)
(***************************************************************************)
EXTENDS CodeGen, FiniteSets

-----------------------------------------------------------------------------
(* Trees                                                                   *)

Glob(a) == [at |-> "global", adr |-> a]
Loc(a) == [at |-> "local", adr |-> a]

Con(n) == [k |-> "con", type |-> "card", n |-> n]
LongCon(n) == [k |-> "con", type |-> "long", n |-> n]
Var(type, v) == [k |-> "var", type |-> type, v |-> v]
Card(v) == Var("card", v)
Ref(type, v) == [k |-> "ref", type |-> type, v |-> v]
AddressOf(v) == [k |-> "adr", type |-> "card", v |-> v, large |-> FALSE]
LargeAddress(v) == [k |-> "adr", type |-> "card", v |-> v, large |-> TRUE]   \* an array
AddressOfPar(v) == LargeAddress(v)                    \* of what a VAR parameter is
Elem(elem, v, i, high) ==
  [k |-> "elem", type |-> IF elem = "long" THEN "long" ELSE "card", elem |-> elem,
   v |-> v, i |-> i, high |-> high]
Apply(of, op, type, args) == [k |-> "op", of |-> of, op |-> op, type |-> type, args |-> args]
Card2(op, x, y) == Apply("card", op, "card", <<x, y>>)
Test(op, x, y) == Apply("card", op, "bool", <<x, y>>)
Int2(op, x, y) == Apply("int", op, IF op \in {"lss", "gtr"} THEN "bool" ELSE "int", <<x, y>>)
Both(x, y) == [k |-> "and", type |-> "bool", x |-> x, y |-> y]
Either(x, y) == [k |-> "or", type |-> "bool", x |-> x, y |-> y]
FunctionCall(type, proc, args) == [k |-> "call", type |-> type, proc |-> proc, args |-> args]

Assign(v, e) == [k |-> "assign", v |-> v, e |-> e, range |-> <<>>]
AssignIn(v, e, low, high) == [k |-> "assign", v |-> v, e |-> e, range |-> <<low, high>>]
AssignRef(v, e) == [k |-> "assignref", v |-> v, e |-> e]
AssignElem(elem, v, i, high, e) ==
  [k |-> "assignelem", elem |-> elem, v |-> v, i |-> i, high |-> high, e |-> e]
AssignField(v, n, e) == [k |-> "assignfield", v |-> v, n |-> n, e |-> e]
Copy(v, from, n) == [k |-> "copy", v |-> v, from |-> from, n |-> n]
PackInto(v, args) == [k |-> "pack", v |-> v, args |-> args]
Inc(v, e) == [k |-> "inc", v |-> v, type |-> "card", op |-> "add", e |-> e]
If(e, then, else) == [k |-> "if", e |-> e, then |-> then, else |-> else]
While(e, body) == [k |-> "while", e |-> e, body |-> body]
Repeat(body, e) == [k |-> "repeat", e |-> e, body |-> body]
For(v, from, to, by, body) ==
  [k |-> "for", v |-> v, from |-> from, to |-> to, by |-> by, body |-> body]
CaseElse(e, labels, bodies, else) ==
  [k |-> "case", e |-> e, labels |-> labels, bodies |-> bodies, trap |-> FALSE, else |-> else]
CaseOnly(e, labels, bodies) ==
  [k |-> "case", e |-> e, labels |-> labels, bodies |-> bodies, trap |-> TRUE, else |-> <<>>]
Do(proc, args) == [k |-> "call", proc |-> proc, args |-> args]
DoVar(v, args) == [k |-> "callvar", v |-> v, args |-> args]
ReturnOf(e) == [k |-> "return", e |-> <<e>>]

ValuePar(adr, size) == [k |-> "value", adr |-> adr, size |-> size]
VarPar(adr) == [k |-> "var", adr |-> adr, size |-> 1]
ArrayPar(adr, size) == [k |-> "array", adr |-> adr, size |-> size]
Proc(function, params, size, arrays, body) ==
  [function |-> function, params |-> params, size |-> size, arrays |-> arrays, body |-> body]

-----------------------------------------------------------------------------
(* Programs.  Variables begin at word 3 of the globals, the first two words *)
(* of a module and the address of its strings being before them.           *)

VarWords == 3 .. 12

\* The inputs that have the words of fs, functions, and 0 in the others.
Inputs(fs) == {[a \in VarWords |-> IF a \in DOMAIN f THEN f[a] ELSE 0] : f \in fs}
NoInput == {[a \in {} |-> 0]}

\* A module with variables of given types, arrays behind word 12, and a body.
Module2(types, arrays, procs, body, inputs) ==
  [size |-> 13, types |-> types, arrays |-> arrays, procs |-> procs, body |-> body,
   inputs |-> Inputs(inputs)]

Half == W \div 2
Boundary == {0, 1, Bits - 1, 99, Half - 1, Half, Half + 1, W - 1}
Few == {0, 1, 3, Half - 1, W - 1}

\* The type of the operands and of the result, by operator.
RelationOps == {"lss", "leq", "gtr", "geq", "eql", "neq"}
ResultOf(type, op) ==
  IF op \in RelationOps THEN "bool" ELSE IF <<type, op>> = <<"card", "neg">> THEN "int" ELSE type

\* r := a op b, or r := op(a): a at 3, b at 5, r at 7.
OneOperand == {"neg", "abs", "com", "not", "shl", "shr"}
OperatorProgram(type, op) ==
  LET r == ResultOf(type, op)
      args == IF op \in OneOperand THEN <<Var(type, Glob(3))>>
              ELSE <<Var(type, Glob(3)), Var(IF op = "ror" THEN "card" ELSE type, Glob(5))>>
      values == CASE type = "bool" -> {0, 1} [] op = "ror" -> {0, 1, 45, Half - 1} [] OTHER -> Boundary
      counts == CASE op \in {"mulpow", "divpow"} -> 0 .. Bits - 1
                  [] op = "ror" -> {0, 1, Bits - 1}
                  [] op \in OneOperand -> {0} [] OTHER -> Boundary
  IN Module2((3 :> type) @@ (5 :> IF op = "ror" THEN "card" ELSE type) @@ (7 :> r), <<>>, <<>>,
             <<Assign(Glob(7), Apply(type, op, r, args))>>,
             IF type = "long"
             THEN [{3, 4, 5, 6} -> {0, 1, W - 1}]
             ELSE {(3 :> x) @@ (5 :> y) : x \in values, y \in counts})

OperatorNames ==
  {<<type, op>> : type \in {"card", "int"},
                  op \in {"add", "sub", "mul", "div", "mod", "lss", "leq", "gtr", "geq", "neg"}}
  \union ({"card"} \X {"eql", "neq", "mulpow", "divpow"}) \union {<<"int", "abs">>}
  \union ({"set"} \X {"add", "sub", "mul", "div", "leq", "geq", "com", "ror"})
  \union {<<"bool", "not">>} \union ({"long"} \X {"add", "sub", "div", "shl", "shr"})

-----------------------------------------------------------------------------
\* WHILE with AND: the greatest common divisor by subtraction.
\*   WHILE (a # 0) AND (b # 0) DO IF a < b THEN b := b - a ELSE a := a - b END END
Gcd ==
  Module2(3 :> "card" @@ 5 :> "card", <<>>, <<>>,
    <<While(Both(Test("neq", Card(Glob(3)), Con(0)), Test("neq", Card(Glob(5)), Con(0))),
        <<If(Test("lss", Card(Glob(3)), Card(Glob(5))),
             <<Assign(Glob(5), Card2("sub", Card(Glob(5)), Card(Glob(3))))>>,
             <<Assign(Glob(3), Card2("sub", Card(Glob(3)), Card(Glob(5))))>>)>>)>>,
    {3 :> x @@ 5 :> y : x \in {0, 6, 35}, y \in {0, 1, 21}})

\* REPEAT with OR, and INC: how often a can be halved.
\*   REPEAT a := a DIV 2; INC(b) UNTIL (a = 0) OR (b = 9)
Halves ==
  Module2([a \in {3, 5, 7, 9} |-> "card"], <<>>, <<>>,
    <<Repeat(<<Assign(Glob(3), Card2("divpow", Card(Glob(3)), Con(1))), Inc(Glob(5), Con(1))>>,
             Either(Test("eql", Card(Glob(3)), Con(0)), Test("eql", Card(Glob(5)), Con(9)))),
      Repeat(<<Inc(Glob(7), Con(1))>>, Test("gtr", Card(Glob(7)), Con(2))),
      While(Test("lss", Card(Glob(9)), Con(2)), <<Inc(Glob(9), Con(1))>>)>>,
    {3 :> x : x \in Boundary})

\* FOR up and down, one in the other, the limits being variables.
\*   FOR c := a TO b BY 2 DO FOR d := b TO a BY -1 DO INC(e) END END
Loops ==
  Module2([a \in {3, 5, 7, 9} |-> "int"] @@ 11 :> "card", <<>>, <<>>,
    <<For(Glob(7), Var("int", Glob(3)), Var("int", Glob(5)), 2,
        <<For(Glob(9), Var("int", Glob(5)), Var("int", Glob(3)), -1,
            <<Inc(Glob(11), Con(1))>>)>>)>>,
    {3 :> x @@ 5 :> y : x \in {0, 1, W - 2, W - 1}, y \in {0, 1, 3, W - 1}})

\* A loop up to the greatest numbers.
\*   FOR c := a TO b DO INC(e) END
Limits ==
  Module2([a \in {3, 5, 7} |-> "int"] @@ 11 :> "card", <<>>, <<>>,
    <<For(Glob(7), Var("int", Glob(3)), Var("int", Glob(5)), 1, <<Inc(Glob(11), Con(1))>>)>>,
    {3 :> x @@ 5 :> y : x \in {Half - 3, Half - 2, Half + 1}, y \in {Half - 2, Half, Half + 2}})

\* RETURN out of a FOR in a CASE in a FOR, called within an expression.
\*   PROCEDURE f(n: CARDINAL): CARDINAL; VAR i, j: CARDINAL;
\*   BEGIN FOR i := 0 TO 3 DO
\*     CASE n OF 0: FOR j := 1 TO 2 DO IF i = j THEN RETURN i + 40 END END
\*     | 1, 3: IF i = n THEN RETURN i END | 4: ELSE RETURN 9 END END
\*   END f;      b := a + 2 * f(a)
Leaving ==
  LET n == Card(Loc(4))   i == Card(Loc(5))   j == Card(Loc(6))
      f == Proc(TRUE, <<ValuePar(4, 1)>>, 7, <<>>,
             <<For(Loc(5), Con(0), Con(3), 1,
                 <<CaseElse(n, <<{0}, {1, 3}, {4}>>,
                     <<<<For(Loc(6), Con(1), Con(2), 1,
                           <<If(Test("eql", i, j), <<ReturnOf(Card2("add", i, Con(40)))>>, <<>>)>>)>>,
                       <<If(Test("eql", i, n), <<ReturnOf(i)>>, <<>>)>>,
                       <<>>>>,
                     <<ReturnOf(Con(9))>>)>>)>>)
  IN Module2(3 :> "card" @@ 5 :> "card", <<>>, <<f>>,
       <<Assign(Glob(5), Card2("add", Card(Glob(3)),
           Card2("mul", Con(2), FunctionCall("card", 1, <<Card(Glob(3))>>))))>>,
       {3 :> x : x \in 0 .. 5})

\* CASE without ELSE.
Choose ==
  Module2(3 :> "card" @@ 5 :> "card", <<>>, <<>>,
    <<CaseOnly(Card(Glob(3)), <<{2}, {5, 6}>>,
        <<<<Assign(Glob(5), Con(20))>>, <<Assign(Glob(5), Con(50))>>>>)>>,
    {3 :> x : x \in 0 .. 7})

\* Recursion in the middle of an expression.
\*   PROCEDURE s(n): CARDINAL; BEGIN IF n = 0 THEN RETURN 0 END; RETURN n + s(n - 1) END s
Sum ==
  LET n == Card(Loc(4))
      s == Proc(TRUE, <<ValuePar(4, 1)>>, 5, <<>>,
             <<If(Test("eql", n, Con(0)), <<ReturnOf(Con(0))>>, <<>>),
               ReturnOf(Card2("add", n, FunctionCall("card", 1, <<Card2("sub", n, Con(1))>>)))>>)
  IN Module2(3 :> "card" @@ 5 :> "card", <<>>, <<s>>,
       <<Assign(Glob(5), Card2("sub", Card2("mul", Con(3), Con(7)),
                               FunctionCall("card", 1, <<Card(Glob(3))>>)))>>,
       {3 :> x : x \in 0 .. 6})

\* Calls as arguments of calls, with two words waiting: b := a - m(a, m(a, 1) - 1).
Nested ==
  LET m == Proc(TRUE, <<ValuePar(4, 1), ValuePar(5, 1)>>, 6, <<>>,
             <<ReturnOf(Card2("sub", Card2("mul", Card(Loc(4)), Con(3)), Card(Loc(5))))>>)
      a == Card(Glob(3))
      M(x, y) == FunctionCall("card", 1, <<x, y>>)
  IN Module2(3 :> "card" @@ 5 :> "card", <<>>, <<m>>,
       <<Assign(Glob(5), Card2("sub", Con(90), Card2("mul", a,
                               M(a, Card2("sub", M(a, Con(1)), Con(1))))))>>,
       {3 :> x : x \in 0 .. 5})

\* A function that ends without RETURN, unless a is 2.
NoReturn ==
  LET f == Proc(TRUE, <<ValuePar(4, 1)>>, 5, <<>>,
             <<If(Test("eql", Card(Loc(4)), Con(2)), <<ReturnOf(Con(7))>>, <<>>)>>)
  IN Module2(3 :> "card" @@ 5 :> "card", <<>>, <<f>>,
       <<Assign(Glob(5), FunctionCall("card", 1, <<Card(Glob(3))>>))>>, {3 :> x : x \in 0 .. 3})

\* Variables as parameters, of a procedure that is the value of a variable.
\*   PROCEDURE swap(VAR x, y: CARDINAL); VAR t: CARDINAL; PROCEDURE both(VAR x, y: ...)
\*   IF a < b THEN p := swap ELSE p := both END; p(a, b); p(b, a)
Formal ==
  LET x == Loc(4)   y == Loc(5)
      swap == Proc(FALSE, <<VarPar(4), VarPar(5)>>, 7, <<>>,
                <<Assign(Loc(6), Ref("card", x)), AssignRef(x, Ref("card", y)),
                  AssignRef(y, Card(Loc(6)))>>)
      both == Proc(FALSE, <<VarPar(4), VarPar(5)>>, 6, <<>>,
                <<AssignRef(x, Card2("div", Ref("card", x), Con(2))),
                  Do(1, <<AddressOfPar(x), AddressOfPar(y)>>)>>)
      Numbered(n) == [k |-> "proc", type |-> "proc", n |-> n]
      a == AddressOf(Glob(3))   b == AddressOf(Glob(5))
  IN Module2(3 :> "card" @@ 5 :> "card" @@ 7 :> "proc", <<>>, <<swap, both>>,
       <<If(Test("lss", Card(Glob(3)), Card(Glob(5))),
            <<Assign(Glob(7), Numbered(1))>>, <<Assign(Glob(7), Numbered(2))>>),
         DoVar(Glob(7), <<a, b>>), DoVar(Glob(7), <<b, a>>)>>,
       {3 :> i @@ 5 :> j @@ 7 :> Own * Byte : i \in Few, j \in Few})

-----------------------------------------------------------------------------
\* Sorting with a VAR array and a local one.  v: ARRAY [0..3] at 9, filled from a.
\*   PROCEDURE sort(VAR v); VAR i, j, t; BEGIN
\*     FOR i := 3 TO 1 BY -1 DO FOR j := 0 TO i - 1 DO
\*       IF v[j] > v[j+1] THEN t := v[j]; v[j] := v[j+1]; v[j+1] := t END END END END sort
Sort ==
  LET v == Loc(4)   i == Card(Loc(5))   j == Card(Loc(6))
      next == Card2("add", j, Con(1))
      At(k) == Elem("word", v, k, 3)
      sort == Proc(FALSE, <<VarPar(4)>>, 8, <<>>,
        <<For(Loc(5), Con(3), Con(1), -1,
            <<For(Loc(6), Con(0), Card2("sub", i, Con(1)), 1,
                <<If(Test("gtr", At(j), At(next)),
                     <<Assign(Loc(7), At(j)), AssignElem("word", v, j, 3, At(next)),
                       AssignElem("word", v, next, 3, Card(Loc(7)))>>, <<>>)>>)>>)>>)
  IN Module2([a \in {3, 5, 7, 11} |-> "card"] @@ 9 :> "array", <<[adr |-> 9, size |-> 4]>>, <<sort>>,
       <<AssignField(Glob(9), 0, Card(Glob(3))), AssignField(Glob(9), 1, Card(Glob(5))),
         AssignField(Glob(9), 2, Con(4)), AssignField(Glob(9), 3, Card(Glob(7))),
         Do(1, <<LargeAddress(Glob(9))>>),
         Assign(Glob(11), Elem("word", Glob(9), Card(Glob(3)), 3)),
         Assign(Glob(3), Elem("word", Glob(9), Con(0), 3)),
         Assign(Glob(5), Elem("word", Glob(9), Con(1), 3)),
         Assign(Glob(7), Elem("word", Glob(9), Con(3), 3))>>,
       {3 :> x @@ 5 :> y @@ 7 :> z : x \in {0, 3, 9}, y \in {1, 7}, z \in {2, 4, W - 1}})

\* Characters, a parameter that is an array by value, and an array copied.
\*   PROCEDURE first(s: ARRAY [0..3] OF CHAR): CARDINAL;
\*     VAR i: CARDINAL; r: ARRAY [0..3] OF CHAR;
\*   BEGIN i := s[3]; r := s; s[3] := r[0]; RETURN i + (s[3] - r[1]) END first
\*   s[0] := a; s[1] := b; t := s; s[3] := 5; t[3] := 2; c := first(s); d := s[3]; e := t[1]
Chars ==
  LET s == Loc(4)
      r == Loc(6)
      first == Proc(TRUE, <<ArrayPar(4, 2)>>, 7, <<[adr |-> 6, size |-> 2]>>,
        <<Assign(Loc(5), Elem("char", s, Con(3), 3)), Copy(r, s, 2),
          AssignElem("char", s, Con(3), 3, Elem("char", r, Con(0), 3)),
          ReturnOf(Card2("add", Card(Loc(5)),
            Card2("sub", Elem("char", s, Con(3), 3), Elem("char", r, Con(1), 3))))>>)
      Put(v, i, e) == AssignElem("char", Glob(v), Con(i), 3, e)
      Get(v, i) == Elem("char", Glob(v), Con(i), 3)
  IN Module2([a \in {3, 5, 7, 9} |-> "card"] @@ [a \in {11, 12} |-> "array"],
       <<[adr |-> 11, size |-> 2], [adr |-> 12, size |-> 2]>>, <<first>>,
       <<Put(11, 0, Card(Glob(3))), Put(11, 1, Card(Glob(5))), Copy(Glob(12), Glob(11), 2),
         Put(11, 3, Con(5)), Put(12, 3, Con(2)),
         Assign(Glob(7), FunctionCall("card", 1, <<LargeAddress(Glob(11))>>)),
         Assign(Glob(9), Card2("add", Get(11, 3), Card2("mul", Con(3), Get(11, 1)))),
         Assign(Glob(5), Card2("add", Get(12, 1), Get(12, 0))), Assign(Glob(3), Get(12, 3))>>,
       {3 :> x @@ 5 :> y : x \in {0, 1, Byte - 1}, y \in {0, Byte - 1}})

\* Two words at a time: a function, a parameter by reference, an array.
\*   PROCEDURE f(VAR x: LONG; y: LONG): LONG; VAR t: LONG;
\*   BEGIN t := x; x := y; RETURN t - y END f
\*   v[1] := a;  v[0] := b;  e := b + f(a, v[c]) ;  c at 7 is a CARDINAL
Longs ==
  LET f == Proc(TRUE, <<VarPar(4), ValuePar(5, 2)>>, 9, <<>>,
        <<Assign(Loc(7), Ref("long", Loc(4))), AssignRef(Loc(4), Var("long", Loc(5))),
          ReturnOf(Apply("long", "sub", "long", <<Var("long", Loc(7)), Var("long", Loc(5))>>))>>)
      a == Var("long", Glob(3))   b == Var("long", Glob(5))
  IN Module2([x \in {3, 5, 10} |-> "long"] @@ 7 :> "card" @@ 9 :> "array",
       <<[adr |-> 9, size |-> 4]>>, <<f>>,
       <<AssignField(Glob(9), 1, a), AssignField(Glob(9), 0, b),
         Assign(Glob(10), Apply("long", "add", "long",
           <<Apply("long", "mul", "long", <<LongCon(2), b>>),
             FunctionCall("long", 1, <<AddressOf(Glob(3)),
                                       Elem("long", Glob(9), Card(Glob(7)), 1)>>)>>)),
         Assign(Glob(5), Apply("long", "add", "long", <<b, LongCon(3 * W + W - 1)>>))>>,
       {3 :> x @@ 4 :> W - 1 @@ 5 :> 1 @@ 6 :> y @@ 7 :> i :
          x \in {0, 2}, y \in {0, W - 1}, i \in 0 .. 2})

\* Fields of a word: b := field of a, and c gets a field.
Fields ==
  LET i == Card(Glob(9))   n == Card(Glob(11))
  IN Module2([x \in {3, 5, 7, 9, 11} |-> "card"], <<>>, <<>>,
       <<Assign(Glob(5), Apply("set", "unpk", "card", <<i, n, Card(Glob(3))>>)),
         PackInto(Glob(7), <<i, n, Card(Glob(3))>>)>>,
       {3 :> x @@ 7 :> y @@ 9 :> k @@ 11 :> 3 :
          x \in {5, 90, W - 1}, y \in {0, 90, W - 1}, k \in {0, 2, Bits - 3}})

\* Ranges: a checked when it is assigned, elements of a set in a condition.
\*   c: [-3..5]; c := a; e: [0..6]; e := b; IF b IN d THEN b := 1 ELSE b := 0 END
Ranges ==
  Module2(3 :> "int" @@ 5 :> "card" @@ 7 :> "int" @@ 9 :> "set" @@ 11 :> "card", <<>>, <<>>,
    <<AssignIn(Glob(7), Var("int", Glob(3)), -3, 5), AssignIn(Glob(11), Card(Glob(5)), 0, 6),
      If(Apply("set", "in", "bool", <<Card(Glob(5)), Var("set", Glob(9))>>),
         <<Assign(Glob(5), Con(1))>>, <<Assign(Glob(5), Con(0))>>)>>,
    {3 :> x @@ 5 :> y @@ 9 :> s :
       x \in {0, 5, 6, W - 3, W - 4}, y \in {0, 3, 6, 7, W - 1}, s \in {Half, 18, W - 1}})

\* The end of the memory: recursion without end, and an array that is too large.
Deep ==
  Module2(3 :> "card", <<>>,
    <<Proc(FALSE, <<>>, 20, <<>>, <<Inc(Glob(3), Con(1)), Do(1, <<>>)>>)>>,
    <<Do(1, <<>>)>>, {3 :> 0})

Large ==
  Module2(3 :> "card", <<>>,
    <<Proc(FALSE, <<>>, 5, <<[adr |-> 4, size |-> 210]>>, <<Inc(Glob(3), Con(1))>>)>>,
    <<Inc(Glob(3), Con(1)), Do(1, <<>>)>>, {3 :> 0})

\* As many words waiting as the expression stack holds.
RECURSIVE Tower(_)
Tower(n) == IF n = 1 THEN Card(Glob(3)) ELSE Card2("sub", Con(n), Tower(n - 1))
Towering == Module2(3 :> "card" @@ 5 :> "card", <<>>, <<>>,
                    <<Assign(Glob(5), Card2("add", Tower(9), Con(100)))>>, {3 :> x : x \in 0 .. 1})

-----------------------------------------------------------------------------
\* Identifiers of FileNames.MOD, for a name of the characters a, b, c, d, of which
\* only the class counts.  GetChar stays at the end of the name.
Letter == 1   Digit == 2   Dot == 3   Terminator == 4   \* of CC
LetterOrDigit == {Letter, Digit}

Names ==
  LET pos == Glob(10)   cc == Glob(11)   ids == Glob(12)
      GetChar == <<Assign(cc, Elem("word", Glob(9), Card(pos), 4)),
                   If(Test("neq", Card(cc), Con(Terminator)), <<Inc(pos, Con(1))>>, <<>>)>>
      more == Apply("set", "in", "bool",
                    <<Card(cc), [k |-> "set", type |-> "set", n |-> LetterOrDigit]>>)
  IN Module2([x \in {3, 4, 5, 6, 10, 11, 12} |-> "card"] @@ 9 :> "array",
       <<[adr |-> 9, size |-> 5]>>, <<>>,
       [k \in 1 .. 4 |-> AssignField(Glob(9), k - 1, Card(Glob(k + 2)))]
       \o <<AssignField(Glob(9), 4, Con(Terminator))>> \o GetChar
       \o <<While(Test("eql", Card(cc), Con(Letter)),
            <<Inc(ids, Con(1)), Repeat(GetChar, Apply("bool", "not", "bool", <<more>>)),
              If(Test("eql", Card(cc), Con(Dot)), GetChar,
                 <<Assign(cc, Con(Terminator))>>)>>)>>,
       {f \in [3 .. 6 -> {Letter, Digit, Dot, Terminator}] :
          /\ f[3] = Letter
          /\ \A k \in 4 .. 6 : /\ f[k - 1] = Dot => f[k] = Letter
                               /\ f[k - 1] = Terminator => f[k] = Terminator
          /\ f[6] # Dot})

\* A set of MSK, a code procedure of M2SGL.MOD.   s := MSK(n)
Masks ==
  Module2(3 :> "card" @@ 7 :> "set", <<>>, <<>>,
          <<Assign(Glob(7), Apply("set", "msk", "set", <<Card(Glob(3))>>))>>,
          {3 :> n : n \in 0 .. Bits - 1})

SampleNames == {"Gcd", "Halves", "Loops", "Limits", "Leaving", "Choose", "Sum", "Nested", "NoReturn",
                "Formal", "Sort", "Chars", "Longs", "Fields", "Ranges", "Deep", "Large", "Towering"}
Sample(name) ==
  CASE name = "Gcd" -> Gcd [] name = "Halves" -> Halves [] name = "Loops" -> Loops
    [] name = "Limits" -> Limits [] name = "Leaving" -> Leaving [] name = "Choose" -> Choose
    [] name = "Sum" -> Sum [] name = "Nested" -> Nested [] name = "NoReturn" -> NoReturn
    [] name = "Formal" -> Formal [] name = "Sort" -> Sort [] name = "Chars" -> Chars
    [] name = "Longs" -> Longs [] name = "Fields" -> Fields [] name = "Ranges" -> Ranges
    [] name = "Deep" -> Deep [] name = "Large" -> Large [] name = "Towering" -> Towering
    [] name = "Names" -> Names [] name = "Masks" -> Masks

=============================================================================
