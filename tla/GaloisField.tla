----------------------------- MODULE GaloisField -----------------------------
(***************************************************************************)
(* src/src/crypto/FiniteField.ts, class GF256: arithmetic in GF(2^8).      *)
(* A byte is the set of its one bits, so that `^` is symmetric difference, *)
(* a shift moves every bit, and a mask is a membership test.               *)
(***************************************************************************)
EXTENDS Naturals

Bits == 0 .. 7
Byte == SUBSET Bits

\* The byte of a number.
ToByte(n) == {i \in Bits : (n \div 2^i) % 2 = 1}

Add(a, b) == (a \ b) \cup (b \ a)

\* 0x1b, what a carry out of the high bit is worth.
Reduction == {0, 1, 3, 4}

\* (a << 1) & 0xff, reduced, and b >> 1.
XTime(a) ==
    LET shifted == {i + 1 : i \in a \ {7}}
    IN  IF 7 \in a THEN Add(shifted, Reduction) ELSE shifted
Halve(b) == {i - 1 : i \in b \ {0}}

\* One round of multiply's loop, and the product after eight of them.
Round(s) ==
    [a |-> XTime(s.a), b |-> Halve(s.b), p |-> IF 0 \in s.b THEN Add(s.p, s.a) ELSE s.p]

Multiply(a, b) ==
    LET after[n \in 0 .. 8] == IF n = 0 THEN [a |-> a, b |-> b, p |-> {}] ELSE Round(after[n - 1])
    IN  after[8].p

\* Square and multiply, while the exponent e is not zero.  It is of eight bits.
PowerRound(s) ==
    IF s.e = 0 THEN s
    ELSE [e      |-> s.e \div 2,
          base   |-> Multiply(s.base, s.base),
          result |-> IF s.e % 2 = 1 THEN Multiply(s.result, s.base) ELSE s.result]

Power(a, exp) ==
    LET after[n \in 0 .. 8] ==
            IF n = 0 THEN [e |-> exp, base |-> a, result |-> {0}] ELSE PowerRound(after[n - 1])
    IN  after[8].result

\* Mutated form: one multiplication too many.
FieldInverseTimesOne(a) == Power(a, 255)

\* For a # {}: the code throws on zero.
FieldInverse(a) == Power(a, 254)

Divide(a, b) == IF a = {} THEN {} ELSE Multiply(a, FieldInverse(b))
=============================================================================
