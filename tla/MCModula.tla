------------------------------ MODULE MCModula ------------------------------
(***************************************************************************)
(* The interpreter of MCode on the code that CodeGen makes of the programs *)
(* of Samples, against what they mean (Meaning).  Words have 8 bits, so    *)
(* that the boundaries of arithmetic and the end of the memory are near.   *)
(***************************************************************************)
EXTENDS MCode, Samples

M == INSTANCE Meaning

Source(p) == IF p[1] = "sample" THEN Sample(p[2]) ELSE OperatorProgram(p[1], p[2])

MCPrograms == ({"sample"} \X SampleNames) \union OperatorNames
NamesProgram == <<"sample", "Names">>
MCNames == {NamesProgram}
MasksProgram == <<"sample", "Masks">>
MCMasks == {MasksProgram}
MCImage(p) == ImageOf(Source(p))
MCStarted(p) == Source(p).inputs
MCMemory == Word

-----------------------------------------------------------------------------
\* What the program means, and what its globals stand for at the end.
Meant == M!Outcome(Source(prog), input)
Types == Source(prog).types
Scalars == {a \in DOMAIN Types : Types[a] # "array"}
ValueOf(a) == M!ValueAt(Types[a], [x \in DOMAIN input |-> mem[GlobalBase + x]], a)

\* When the emulator stops, it has computed what the program means: its
\* variables have the values, and the trap is the one, that Modula-2 asks for.
\* Left aside are programs that leave something undefined, and the end of memory.
ComputesMeaning ==
  \/ Alive
  \/ Meant.out = "any"
  \/ trap = StackOverflow
  \/ /\ trap = IF Meant.out = "trap" THEN Meant.r ELSE NoTrap
     /\ \A a \in Scalars : ValueOf(a) = Meant.g[a]

\* Between two statements of a routine the expression stack is empty, and the
\* stack holds the frame of the routine and nothing else: every statement, loops,
\* CASE and calls included, takes off what it put there.
StatementsNeutral ==
  LET rest == image.rest
  IN gs_PC \in DOMAIN rest => exs = <<>> /\ gs_S = gs_CS + 4 + rest[gs_PC]

\* The emulator stops: loops and recursion come to their ends.
Stops == <>~Alive

\* FileNames.DEF: "Identifiers returns the number of identifiers in the filename".
IdentifiersCounted ==
  LET Starts == {k \in 3 .. 6 : input[k] = Letter /\ (k = 3 \/ input[k - 1] = Dot)}
  IN ~Alive /\ prog = NamesProgram => mem[GlobalBase + 12] = Cardinality(Starts)

\* M2SGL.MOD says of MSK(n): "(* {0 .. n-1} *)".
MasksFilled ==
  ~Alive /\ prog = MasksProgram =>
    mem[GlobalBase + 7] = WordOf({Bits - 1 - i : i \in 0 .. input[3] - 1})

=============================================================================
