------------------------------- MODULE MathUnit -------------------------------
(* The multiplier and divider of the 65816 (memory.c, Mem_GIOWrite8 and      *)
(* Mem_GIOWrite16 at 0x4202 to 0x4206): both units share their two results,  *)
(* and a game may write the operands by bytes or by words, in any order.     *)
EXTENDS Integers

CONSTANT Bits   \* bits of a byte (8)

Radix == 2^Bits
Bytes == 0 .. Radix - 1
Words == 0 .. Radix * Radix - 1

VARIABLES
  mulA, divA,       \* Mem_MulA, Mem_DivA
  mulRes, divRes,   \* Mem_MulRes, Mem_DivRes
  asked             \* history: the operation asked for last, and its operands

vars == <<mulA, divA, mulRes, divRes, asked>>

Operations == {"none", "multiply", "divide"}

TypeOK ==
  /\ mulA \in Bytes /\ divA \in Words
  /\ mulRes \in Words /\ divRes \in Words
  /\ asked \in [what : Operations, a : Words, b : Bytes]

Init ==
  /\ mulA = 0 /\ divA = 0 /\ mulRes = 0 /\ divRes = 0
  /\ asked = [what |-> "none", a |-> 0, b |-> 0]

(* Variant: the highest bit of the dividend is passed over. *)
SNES_Divide_Short(num, den) ==
  LET DivideFrom[k \in 0 .. 2 * Bits - 1] ==
        IF k = 2 * Bits - 1 THEN <<0, num>>
        ELSE LET quo == DivideFrom[k + 1][1]
                 rest == DivideFrom[k + 1][2]
                 v == den * 2^k
             IN IF rest < v THEN <<quo, rest>> ELSE <<quo + 2^k, rest - v>>
  IN IF den = 0 THEN <<Radix * Radix - 1, num>> ELSE DivideFrom[0]

\* SNES_Divide: the divisor is taken off from the highest bit down. DivideFrom[i]
\* is the quotient and the remainder once the bits from i on are done.
SNES_Divide(num, den) ==
  LET DivideFrom[k \in 0 .. 2 * Bits] ==
        IF k = 2 * Bits THEN <<0, num>>
        ELSE LET quo == DivideFrom[k + 1][1]
                 rest == DivideFrom[k + 1][2]
                 v == den * 2^k
             IN IF rest < v THEN <<quo, rest>> ELSE <<quo + 2^k, rest - v>>
  IN IF den = 0 THEN <<Radix * Radix - 1, num>> ELSE DivideFrom[0]

\* 0x4202, 0x4203, and both as a word.
WriteMulA(val) == mulA' = val /\ UNCHANGED <<divA, mulRes, divRes, asked>>

Multiply(a, b, quotient) ==
  /\ mulA' = a
  /\ mulRes' = a * b
  /\ divRes' = quotient
  /\ asked' = [what |-> "multiply", a |-> a, b |-> b]
  /\ UNCHANGED divA

WriteMulB(val) == Multiply(mulA, val, val)
WriteMul16(a, b) == Multiply(a, b, a + b * Radix)

\* 0x4204, 0x4205, and both as a word.
WriteDivA(a) == divA' = a /\ UNCHANGED <<mulA, mulRes, divRes, asked>>
WriteDivLow(val) == WriteDivA((divA \div Radix) * Radix + val)
WriteDivHigh(val) == WriteDivA((divA % Radix) + val * Radix)

\* 0x4206, by itself or as the second half of a word at 0x4205.
Divide(a, den) ==
  /\ divA' = a
  /\ divRes' = SNES_Divide(a, den)[1]
  /\ mulRes' = SNES_Divide(a, den)[2]
  /\ asked' = [what |-> "divide", a |-> a, b |-> den]
  /\ UNCHANGED mulA

WriteDivB(val) == Divide(divA, val)
WriteDiv16(high, den) == Divide((divA % Radix) + high * Radix, den)

Next ==
  \/ \E val \in Bytes :
       WriteMulA(val) \/ WriteMulB(val) \/ WriteDivLow(val) \/ WriteDivHigh(val)
       \/ WriteDivB(val)
  \/ \E a \in Bytes, b \in Bytes : WriteMul16(a, b) \/ WriteDiv16(a, b)
  \/ \E a \in Words : WriteDivA(a)

Spec == Init /\ [][Next]_vars

(****************************** Properties ********************************)

\* The results read are those of the operation asked for last: a quotient and
\* a remainder for every dividend and divisor, all ones and the dividend for
\* the divisor 0, and a product, whatever operands were written since.
ResultsRight ==
  CASE asked.what = "multiply" -> mulRes = asked.a * asked.b
    [] asked.what = "divide" ->
         IF asked.b = 0 THEN divRes = Radix * Radix - 1 /\ mulRes = asked.a
         ELSE /\ divRes = asked.a \div asked.b
              /\ mulRes = asked.a % asked.b
    [] OTHER -> mulRes = 0 /\ divRes = 0
=============================================================================
