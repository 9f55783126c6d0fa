-------------------------------- MODULE Words --------------------------------
(***************************************************************************)
(* Words and what the arithmetic, comparison, set and shift opcodes of     *)
(* le_execute (le_mcode.c) compute from them, as the C code computes it on *)
(* the processors it runs on.  A word has Bits bits (16 in the code), a    *)
(* byte half as many, an int of C twice as many.  The word as a BITSET has *)
(* element 0 in the most significant bit.                                  *)
(***************************************************************************)
EXTENDS Integers, FiniteSetsExt

CONSTANT Bits

ASSUME BitsAssumption == Bits \in Nat /\ Bits % 2 = 0 /\ Bits > 0

W == 2 ^ Bits
Word == 0 .. W - 1
Byte == 2 ^ (Bits \div 2)

\* int16_t of a word, and the word of an integer.
Signed(w) == IF w < W \div 2 THEN w ELSE w - W
ToWord(n) == n % W

MaxInt == W \div 2 - 1

-----------------------------------------------------------------------------
(* Arithmetic                                                              *)

Magnitude(n) == IF n < 0 THEN -n ELSE n

\* Mutant: the quotient of IDIV rounds down.
QuotientFloor(a, b) == IF b > 0 THEN a \div b ELSE (-a) \div (-b)

\* / and % of C, which truncate.
Quotient(a, b) ==
  IF (a < 0) = (b < 0) THEN Magnitude(a) \div Magnitude(b)
                       ELSE -(Magnitude(a) \div Magnitude(b))
Remainder(a, b) == a - b * Quotient(a, b)

Truth(b) == IF b THEN 1 ELSE 0

-----------------------------------------------------------------------------
(* Bits                                                                    *)

\* Weights 2^b of the bits that are set, and the word that has given bits.
BitsOf(w) == {b \in 0 .. Bits - 1 : (w \div 2 ^ b) % 2 = 1}
WordOf(bs) == MapThenSumSet(LAMBDA b : 2 ^ b, bs)

Or(i, j) == WordOf(BitsOf(i) \union BitsOf(j))
And(i, j) == WordOf(BitsOf(i) \intersect BitsOf(j))
Xor(i, j) == WordOf((BitsOf(i) \ BitsOf(j)) \union (BitsOf(j) \ BitsOf(i)))
Com(i) == W - 1 - i

\* SHL and SHR use the low bits of the count only.
Shl(j, i) == (j * 2 ^ (i % Bits)) % W
Shr(j, i) == j \div 2 ^ (i % Bits)

\* ROR.  (j << 16) is an int, negative when the first bit of j is set, and >>
\* repeats its sign.
Ror(j, i) ==
  LET k == (Signed(j) * W) \div 2 ^ (i % Bits)
  IN Or((k \div W) % W, k % W)

\* IN.  Processors take the count of a shift modulo the size of int.
In(i, j) == And((W \div 2) \div 2 ^ (i % (2 * Bits)), j)

\* MSK shifts by a negative number, i - 16: as above, modulo the size of int.
Msk(i) == ((W - 1) * 2 ^ (((i % Bits) - Bits) % (2 * Bits))) % W

\* UNPK and PACK: n bits from bit i on, in the numbering of BITSET.
Field(i, n) == (2 ^ n - 1) * 2 ^ (Bits - i - n)
Unpk(i, n, x) == And(x, Field(i, n)) \div 2 ^ (Bits - i - n)
Pack(w, i, n, x) ==
  Or(And(w, Com(Field(i, n))), And(x, 2 ^ n - 1) * 2 ^ (Bits - i - n))

\* LXB and SXB: byte i of an array, the even ones in the upper half.
ByteOf(w, i) == IF i % 2 = 1 THEN w % Byte ELSE w \div Byte
WithByte(w, i, k) ==
  IF i % 2 = 1 THEN Or(And(w, W - Byte), k) ELSE Or(And(w, Byte - 1), (k * Byte) % W)

-----------------------------------------------------------------------------
(* What an opcode with two operands leaves: i was pushed before j.  The    *)
(* divisor of a division is not 0.                                         *)

UnsignedOps == {"UADD", "USUB", "UMUL", "UDIV", "UMOD", "ULSS", "ULEQ", "UGTR", "UGEQ",
                "EQL", "NEQ"}
SignedOps == {"IADD", "ISUB", "IMUL", "IDIV", "MOD", "LSS", "LEQ", "GTR", "GEQ"}
BitOps == {"OR", "XOR", "AND", "IN", "ROR", "SHL", "SHR"}
Divisions == {"UDIV", "UMOD", "IDIV", "MOD"}

Arithmetic(op, a, b) ==
  CASE op \in {"UADD", "IADD"} -> ToWord(a + b)
    [] op \in {"USUB", "ISUB"} -> ToWord(a - b)
    [] op \in {"UMUL", "IMUL"} -> ToWord(a * b)
    [] op \in {"UDIV", "IDIV"} -> ToWord(Quotient(a, b))
    [] op \in {"UMOD", "MOD"} -> ToWord(Remainder(a, b))
    [] op \in {"ULSS", "LSS"} -> Truth(a < b)
    [] op \in {"ULEQ", "LEQ"} -> Truth(a <= b)
    [] op \in {"UGTR", "GTR"} -> Truth(a > b)
    [] op \in {"UGEQ", "GEQ"} -> Truth(a >= b)
    [] op = "EQL" -> Truth(a = b)
    [] op = "NEQ" -> Truth(a # b)

Binary(op, i, j) ==
  CASE op \in UnsignedOps -> Arithmetic(op, i, j)
    [] op \in SignedOps -> Arithmetic(op, Signed(i), Signed(j))
    [] op = "OR" -> Or(i, j)
    [] op = "XOR" -> Xor(i, j)
    [] op = "AND" -> And(i, j)
    [] op = "IN" -> In(i, j)
    [] op = "ROR" -> Ror(i, j)
    [] op = "SHL" -> Shl(i, j)
    [] op = "SHR" -> Shr(i, j)

UnaryOps == {"ABS", "NEG", "COM", "MSK", "NOT"}

\* Mutant: NEG pushes what it computed in int.
UnaryWide(op, i) ==
  IF op = "NEG" THEN -Signed(i)
  ELSE IF op = "ABS" THEN ToWord(Magnitude(Signed(i))) ELSE IF op = "COM" THEN Com(i)
  ELSE IF op = "MSK" THEN Msk(i) ELSE Truth(i % 2 = 0)

Unary(op, i) ==
  CASE op = "ABS" -> ToWord(Magnitude(Signed(i)))
    [] op = "NEG" -> ToWord(-Signed(i))
    [] op = "COM" -> Com(i)
    [] op = "MSK" -> Msk(i)
    [] op = "NOT" -> Truth(i % 2 = 0)

\* Two words as one long, the more significant one pushed first.
Long(hi, lo) == hi * W + lo
Words(long) == <<long \div W, long % W>>

LongOps == {"DADD", "DSUB", "DMUL", "DDIV"}

LongBinary(op, x, y) ==
  CASE op = "DADD" -> (x + y) % (W * W)
    [] op = "DSUB" -> (x - y) % (W * W)
    [] op = "DMUL" -> (x * y) % (W * W)
    [] op = "DDIV" -> x \div y

LongUnaryOps == {"DSHL", "DSHR"}

LongUnary(op, x) == IF op = "DSHL" THEN (2 * x) % (W * W) ELSE x \div 2

=============================================================================
