------------------------------- MODULE Meaning -------------------------------
(***************************************************************************)
(* What a program of CodeGen means, as Modula-2 defines it: numbers, sets  *)
(* and truth values instead of words, an environment instead of a stack.   *)
(* Nothing here is taken from the emulator.                                *)
(*                                                                         *)
(* A state has the globals g, the locals l of the running procedure, out,  *)
(* which is "go", "return", "trap", or "any" once the language leaves the  *)
(* rest undefined, and r, the value computed, or the number of the trap.   *)
(***************************************************************************)
EXTENDS Words, Sequences, SequencesExt

\* A local holds a value, or refers to a global (a parameter by reference).
Value(x) == [ref |-> FALSE, of |-> x]
Reference(adr) == [ref |-> TRUE, of |-> adr]

Going(st) == st.out = "go"
Result(st, x) == [st EXCEPT !.r = x]
Trapping(st, n) == [st EXCEPT !.out = "trap", !.r = n]
Undefined(st) == [st EXCEPT !.out = "any"]

RefersTo(st, v) == IF v.at = "global" THEN v.adr ELSE st.l[v.adr].of

Get(st, v) ==
  IF v.at = "local" /\ ~st.l[v.adr].ref THEN st.l[v.adr].of ELSE st.g[RefersTo(st, v)]

Set(st, v, x) ==
  IF v.at = "local" /\ (v.adr \in DOMAIN st.l => ~st.l[v.adr].ref)
  THEN [st EXCEPT !.l = (v.adr :> Value(x)) @@ @]
  ELSE [st EXCEPT !.g = (RefersTo(st, v) :> x) @@ @]

-----------------------------------------------------------------------------
(* Types and operators                                                     *)

Elements == 0 .. Bits - 1
Numbers(type) ==
  CASE type = "card" -> 0 .. W - 1
    [] type = "int" -> -(W \div 2) .. MaxInt
    [] type = "long" -> 0 .. W * W - 1

\* The quotient that Modula-2 asks for: towards zero.
Truncated(a, b) ==
  IF a < 0 THEN IF b < 0 THEN (-a) \div (-b) ELSE -((-a) \div b)
  ELSE IF b < 0 THEN -(a \div (-b)) ELSE a \div b

\* The number that an operator makes of numbers, whatever its size.
Number(op, xs) ==
  CASE op = "add" -> xs[1] + xs[2]
    [] op = "sub" -> xs[1] - xs[2]
    [] op = "mul" -> xs[1] * xs[2]
    [] op = "div" -> Truncated(xs[1], xs[2])
    [] op = "mod" -> xs[1] % xs[2]
    [] op = "rem" -> xs[1] - xs[2] * Truncated(xs[1], xs[2])
    [] op = "mulpow" -> xs[1] * 2 ^ xs[2]
    [] op = "divpow" -> xs[1] \div 2 ^ xs[2]
    [] op = "neg" -> -xs[1]
    [] op = "abs" -> Magnitude(xs[1])
    [] op = "shl" -> 2 * xs[1]
    [] op = "shr" -> xs[1] \div 2

Relations == {"lss", "leq", "gtr", "geq", "eql", "neq"}

Related(op, a, b) ==
  CASE op = "lss" -> a < b [] op = "leq" -> a <= b [] op = "gtr" -> a > b
    [] op = "geq" -> a >= b [] op = "eql" -> a = b [] op = "neq" -> a # b

OfSets(op, xs) ==
  CASE op = "add" -> xs[1] \union xs[2]
    [] op = "sub" -> xs[1] \ xs[2]
    [] op = "mul" -> xs[1] \intersect xs[2]
    [] op = "div" -> (xs[1] \ xs[2]) \union (xs[2] \ xs[1])
    [] op = "leq" -> xs[1] \subseteq xs[2]
    [] op = "geq" -> xs[2] \subseteq xs[1]
    [] op = "in" -> xs[1] \in xs[2]
    [] op = "com" -> Elements \ xs[1]
    [] op = "ror" -> {(e + xs[2]) % Bits : e \in xs[1]}
    [] op = "msk" -> 0 .. xs[1] - 1

\* Bits i .. i + n - 1 of a word, as a number, and a word with such a field.
Part(i, n, x) == (x \div 2 ^ (Bits - i - n)) % 2 ^ n
WithPart(w, i, n, x) ==
  w + ((x % 2 ^ n) - Part(i, n, w)) * 2 ^ (Bits - i - n)

\* An operator on the values xs of a type, the result being of another.
Apply(st, e, xs) ==
  LET divides == e.op \in {"div", "mod", "rem"} /\ e.of # "set"
      n == Number(e.op, xs)
  IN CASE e.of = "bool" -> Result(st, ~xs[1])
       [] e.of = "set" /\ e.op = "unpk" -> Result(st, Part(xs[1], xs[2], xs[3]))
       [] e.of = "set" /\ e.op # "unpk" ->
            IF e.op = "in" /\ xs[1] \notin Elements THEN Undefined(st)
            ELSE Result(st, OfSets(e.op, xs))
       [] e.op \in Relations /\ e.of # "set" -> Result(st, Related(e.op, xs[1], xs[2]))
       [] e.of = "int" /\ e.op = "mod" /\ xs[2] < 0 -> Trapping(st, 4)
       [] e.of = "card" /\ e.op = "neg" /\ xs[1] > MaxInt -> Trapping(st, 4)
       [] OTHER ->
            IF divides /\ (xs[2] = 0 \/ (e.op = "mod" /\ xs[1] < 0)) THEN Undefined(st)
            ELSE IF n \notin Numbers(e.type) THEN Undefined(st)
            ELSE Result(st, n)

-----------------------------------------------------------------------------
(* Programs                                                                *)

\* The tree t, in state st, where the program goes on.
RECURSIVE Run(_, _, _)

RunIf(m, t, st) == IF Going(st) THEN Run(m, t, st) ELSE st

\* Statements in sequence; and the values of expressions, from the left.
RunAll(m, ts, st) == FoldLeft(LAMBDA s, t : RunIf(m, t, s), st, ts)

Values(m, es, st) ==
  FoldLeft(LAMBDA s, e : IF ~Going(s) THEN s
                         ELSE LET t == Run(m, e, s)
                              IN IF Going(t) THEN Result(t, Append(s.r, t.r)) ELSE t,
           Result(st, <<>>), es)

\* The cell of a parameter that gets the argument e.
Parameter(m, p, e, st) ==
  CASE p.k = "value" -> LET s == Run(m, e, st) IN Result(s, IF Going(s) THEN Value(s.r) ELSE s.r)
    [] p.k = "array" -> Result(st, Value(Get(st, e.v)))
    [] p.k = "var" -> Result(st, Reference(RefersTo(st, e.v)))

\* The locals of a procedure that gets the arguments es.
Enter(m, p, es, st) ==
  FoldLeft(LAMBDA s, k : IF ~Going(s) THEN s
                         ELSE LET t == Parameter(m, p.params[k], es[k], s)
                              IN IF Going(t) THEN Result(t, (p.params[k].adr :> t.r) @@ s.r) ELSE t,
           Result(st, [a \in {p.arrays[k].adr : k \in DOMAIN p.arrays} |-> Value(<<>>)]),
           [k \in 1 .. Len(es) |-> k])

\* A function that does not return stops with a trap.
Left(p, st, l) ==
  IF st.out = "return" THEN [st EXCEPT !.l = l, !.out = "go"]
  ELSE IF Going(st) /\ p.function THEN Trapping(st, 9)
  ELSE [st EXCEPT !.l = l]

Called(m, p, args, st) ==
  LET s == Enter(m, p, args, st)
  IN IF Going(s) THEN Left(p, RunAll(m, p.body, [s EXCEPT !.l = s.r]), st.l) ELSE s

\* An index is in bounds, a value in the range of the variable that gets it.
InBounds(st, low, high) ==
  IF ~Going(st) \/ (low <= st.r /\ st.r <= high) THEN st ELSE Trapping(st, 4)

\* FOR, from one value to another.  The variable keeps the last one.
Turns(from, to, by) ==
  LET n == IF by > 0 THEN (to - from) \div by ELSE (from - to) \div (-by)
  IN [k \in 1 .. n + 1 |-> from + (k - 1) * by]

Loop(m, s, limits, st) ==
  LET from == limits[1]
      to == limits[2]
      turns == Turns(from, to, s.by)
  IN IF from > MaxInt \/ to > MaxInt THEN Undefined(st)
     ELSE IF turns # <<>> /\ Last(turns) + s.by \notin Numbers("int") THEN Undefined(st)
     ELSE FoldLeft(LAMBDA u, i : IF Going(u) THEN RunAll(m, s.body, Set(u, s.v, i)) ELSE u,
                   st, turns)

Chosen(s, n) == {k \in DOMAIN s.labels : n \in s.labels[k]}

\* What follows once the value that a statement begins with is in st.r.
Assigned(s, st) == IF Going(st) THEN Set(st, s.v, st.r) ELSE st

Stored(s, i, st) == IF Going(st) THEN Set(st, s.v, (i :> st.r) @@ Get(st, s.v)) ELSE st

Run(m, t, st) ==
  CASE t.k \in {"con", "set", "proc"} -> Result(st, t.n)
    [] t.k \in {"var", "ref"} -> Result(st, Get(st, t.v))
    [] t.k = "elem" ->
         LET s == InBounds(Run(m, t.i, st), 0, t.high)
         IN IF Going(s) THEN Result(s, Get(s, t.v)[s.r]) ELSE s
    [] t.k = "op" ->
         LET s == Values(m, t.args, st) IN IF Going(s) THEN Apply(s, t, s.r) ELSE s
    [] t.k \in {"and", "or"} ->
         LET s == Run(m, t.x, st)
         IN IF Going(s) /\ s.r = (t.k = "and") THEN Run(m, t.y, s) ELSE s
    [] t.k = "call" -> Called(m, m.procs[t.proc], t.args, st)
    [] t.k = "callvar" -> Called(m, m.procs[Get(st, t.v)], t.args, st)
    [] t.k = "return" ->
         LET s == RunAll(m, t.e, st) IN IF Going(s) THEN [s EXCEPT !.out = "return"] ELSE s
    [] t.k = "assign" ->
         LET s == Run(m, t.e, st)
         IN Assigned(t, IF t.range = <<>> THEN s ELSE InBounds(s, t.range[1], t.range[2]))
    [] t.k = "assignref" -> Assigned(t, Run(m, t.e, st))
    [] t.k = "assignfield" -> Stored(t, t.n, Run(m, t.e, st))
    [] t.k = "assignelem" ->
         LET s == InBounds(Run(m, t.i, st), 0, t.high) IN Stored(t, s.r, RunIf(m, t.e, s))
    [] t.k = "copy" -> Set(st, t.v, Get(st, t.from))
    [] t.k = "pack" ->
         LET s == Values(m, t.args, st)
         IN IF Going(s) THEN Set(s, t.v, WithPart(Get(s, t.v), s.r[1], s.r[2], s.r[3])) ELSE s
    [] t.k = "inc" ->
         LET s == Run(m, t.e, st)
             e == [op |-> t.op, of |-> t.type, type |-> t.type]
         IN IF Going(s) THEN Assigned(t, Apply(s, e, <<Get(s, t.v), s.r>>)) ELSE s
    [] t.k = "if" ->
         LET s == Run(m, t.e, st)
         IN IF Going(s) THEN RunAll(m, IF s.r THEN t.then ELSE t.else, s) ELSE s
    [] t.k = "while" ->
         LET s == Run(m, t.e, st)
         IN IF Going(s) /\ s.r THEN RunIf(m, t, RunAll(m, t.body, s)) ELSE s
    [] t.k = "repeat" ->
         LET s == RunIf(m, t.e, RunAll(m, t.body, st))
         IN IF Going(s) /\ ~s.r THEN Run(m, t, s) ELSE s
    [] t.k = "for" ->
         LET s == Values(m, <<t.from, t.to>>, st) IN IF Going(s) THEN Loop(m, t, s.r, s) ELSE s
    [] t.k = "case" ->
         LET s == Run(m, t.e, st)
         IN IF ~Going(s) THEN s
            ELSE IF Chosen(t, s.r) # {}
                 THEN RunAll(m, t.bodies[CHOOSE k \in Chosen(t, s.r) : TRUE], s)
            ELSE IF t.trap THEN Trapping(s, 4) ELSE RunAll(m, t.else, s)

-----------------------------------------------------------------------------
(* Values and their words                                                  *)

\* The value of a type that the words at adr stand for.
ValueAt(type, words, adr) ==
  LET w == words[adr]
  IN CASE type \in {"card", "char"} -> w
       [] type = "int" -> Signed(w)
       [] type = "bool" -> w = 1
       [] type = "set" -> {e \in Elements : (w \div 2 ^ (Bits - 1 - e)) % 2 = 1}
       [] type = "long" -> w * W + words[adr + 1]
       [] type = "proc" -> w % Byte
       [] type = "array" -> <<>>

\* What is left of a program m when it started with the words input: its
\* globals, the kind of its end and the number of its trap.
Outcome(m, input) ==
  LET start == [g |-> [a \in DOMAIN m.types |->
                         IF m.types[a] = "array" THEN <<>> ELSE ValueAt(m.types[a], input, a)],
                l |-> <<>>, out |-> "go", r |-> 0]
  IN RunAll(m, m.body, start)

=============================================================================
