---------------------------- MODULE MCObjectFile ----------------------------
(***************************************************************************)
(* Files for ObjectFile: a program p and libraries a, b and d, of which b  *)
(* and d import each other, written by both compilers and spread over two  *)
(* directories; and disks on which something is wrong.                     *)
(***************************************************************************)
EXTENDS ObjectFile

LIW == \o22
LEW == \o42
CLX == \o355
RTN == \o354
NOP == \o336

at(name) == [name |-> name, key |-> 1]
compiled(name, imports, strings, procs, code, refs) ==
  [name |-> name, key |-> 1, imports |-> imports, globals |-> 3, strings |-> strings,
   procs |-> procs, code |-> code, refs |-> refs]

P == compiled("p", <<at("b"), at("a")>>, <<65, 66>>, <<0, 8>>,
              <<CLX, 1, 0, CLX, 2, 1, RTN, NOP, LEW, 1, 3, RTN>>, <<1, 4, 9>>)
A == compiled("a", <<>>, <<67>>, <<4, 0>>, <<1, 2, RTN, NOP, 3, RTN>>, <<>>)
B == compiled("b", <<at("d"), at("a")>>, <<>>, <<4, 0>>, <<CLX, 2, 1, RTN, CLX, 1, 1, RTN>>,
              <<1, 5>>)
D == compiled("d", <<at("b")>>, <<68>>, <<0, 4, 8>>,
              <<CLX, 1, 0, RTN, LIW, 1, 1, RTN, 4, RTN>>, <<1, 5>>)

\* Another library of the same name, an instance of b that was compiled again, and
\* modules that assign one of their own procedures to a variable.
OtherB == compiled("b", <<at("a")>>, <<69>>, <<0, 4>>, <<CLX, 1, 1, RTN, 5, RTN>>, <<1>>)
NewB == [B EXCEPT !.key = 2]
OwnB == compiled("b", <<at("a")>>, <<>>, <<0, 4>>, <<LIW, 0, 1, RTN, CLX, 1, 1, RTN>>, <<1, 5>>)
OwnA == compiled("a", <<>>, <<>>, <<0, 4>>, <<LIW, 0, 1, RTN, 3, RTN>>, <<1>>)

\* Damaged files of b: another version, cut off inside the name or the imports, data or
\* code beyond their frame, a relocation outside the code or at no reference.
Start == <<ModuleSection(B), ImportSection(B)>>
Body == <<EntrySection(B), CodeSection(B)>>
Damage ==
  [version |-> <<<<W(\o200), W(2), W(4)>>>>,
   name |-> <<SubSeq(ModuleSection(B), 1, 2)>>,
   cut |-> <<ModuleSection(B), SubSeq(ImportSection(B), 1, 3)>>,
   data |-> Start \o <<<<W(\o204), W(3), W(B.globals - 1), W(0), W(0)>>>>,
   code |-> Start \o <<EntrySection(B), <<W(\o203), W(2), W(Len(B.procs) + 4), Bytes(RTN, RTN)>>>>,
   outside |-> Start \o Body \o Relocations(<<1, Frame(B) + 1>>),
   place |-> Start \o Body \o Relocations(<<Frame(B)>>)]

MCWritten(f) ==
  CASE f.format = "single" -> OutCodeFile(f.module)
    [] f.format = "old" -> OldFile(f.module)
    [] OTHER -> Damage[f.format]

single(m) == [module |-> m, format |-> "single"]
All == [p |-> P, a |-> A, b |-> B, d |-> D]

plain(name) == <<NoPrefix, name>>
prefixed(name) == <<IF name = "p" THEN "SYS" ELSE "LIB", name>>

\* Every module from either compiler, some in the first directory with a prefix, where
\* they hide what the second has under the plain name.
TwoDirectories(olds, firsts) ==
  LET from(n) == [module |-> All[n], format |-> IF n \in olds THEN "old" ELSE "single"]
  IN <<[x \in {prefixed(n) : n \in firsts} |-> from(x[2])],
       [x \in {plain(n) : n \in DOMAIN All} |->
          IF x[2] = "b" /\ "b" \in firsts THEN single(OtherB) ELSE from(x[2])]>>

Sound == {TwoDirectories(o, f) : o \in SUBSET DOMAIN All, f \in SUBSET DOMAIN All}

\* One directory in which the file of n is another one.
With1(n, f) ==
  <<[x \in {plain(k) : k \in DOMAIN All} |-> IF x = plain(n) THEN f ELSE single(All[x[2]])]>>

\* Both names in one directory; and a library that is missing.
Both == <<[x \in {plain("p"), plain("a"), plain("b"), prefixed("b")} |->
             IF x = plain("b") THEN single(OtherB) ELSE single(All[x[2]])]>>
Without == <<[x \in {plain("p"), plain("a"), plain("b")} |-> single(All[x[2]])]>>

\* The library TerminalBase of the disk refers to a procedure of its own in this way.
OwnReference == {With1("b", single(OwnB)), With1("a", single(OwnA))}

AllSetups ==
  Sound \union OwnReference \union {Both, Without}
        \union {With1("b", single(NewB)), With1("d", single(A))}
        \union {With1("b", [module |-> B, format |-> d]) : d \in DOMAIN Damage}
=============================================================================
