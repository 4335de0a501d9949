------------------------- MODULE KeyManager_proofs -------------------------
(***************************************************************************)
(* Proofs about KeyManager.tla, for any parties, models, configurations    *)
(* and keys: that enough shares give the key back, that verified shares    *)
(* agree, that fewer say nothing, and who can read what.  The first        *)
(* half is the mathematics of GaloisField.tla and SecretSharing.tla: the   *)
(* bytes are a field, polynomials over it have no more roots than          *)
(* coefficients, and interpolation goes through its points.                *)
(***************************************************************************)
EXTENDS KeyManager, FiniteSetTheorems, WellFoundedInduction, TLAPS

-----------------------------------------------------------------------------
\* The field.  Multiplication is read off its loop: it respects addition and XTime on either side,
\* so it is commutative and associative; squaring respects both operations, and the inverse is a product
\* of squares.

\* Induction, for a set.
LEMMA NatSetInduction ==
    ASSUME NEW T, 0 \in T, \A n \in Nat : n \in T => n + 1 \in T
    PROVE  Nat \subseteq T
<1> DEFINE B == Nat \ T
<1> SUFFICES ASSUME B # {} PROVE FALSE
  OBVIOUS
<1>1. PICK x \in B : \A y \in B : ~(<<y, x>> \in OpToRel(<, Nat))
  <2>1. B \subseteq Nat
    OBVIOUS
  <2> HIDE DEF B
  <2> QED
    BY <2>1, NatLessThanWellFounded, WFMin
<1>2. x \in Nat /\ x # 0 /\ x \notin T
  OBVIOUS
<1>3. x - 1 \in Nat /\ x - 1 < x /\ (x - 1) + 1 = x
  BY <1>2
<1>4. <<x - 1, x>> \in OpToRel(<, Nat)
  BY <1>2, <1>3 DEF OpToRel
<1>5. x - 1 \in T
  BY <1>1, <1>3, <1>4
<1> QED
  BY <1>2, <1>3, <1>5

\* f starts with a and goes on by step.
Goes(f, S, a, step) == f \in [Nat -> S] /\ f[0] = a /\ \A k \in Nat : f[k + 1] = step[k][f[k]]

\* A value for 0 and a step from each number to the next make a function on Nat.
LEMMA Recursion ==
    ASSUME NEW S, NEW a \in S, NEW step \in [Nat -> [S -> S]]
    PROVE  \E f : Goes(f, S, a, step)
<1> DEFINE Upto(n, g) == g \in [0 .. n -> S] /\ g[0] = a /\ \A k \in 0 .. n - 1 : g[k + 1] = step[k][g[k]]
<1>1. \A n \in Nat : \E g : Upto(n, g)
  <2> DEFINE T == {n \in Nat : \E g : Upto(n, g)}
  <2>1. 0 \in T
    <3>1. Upto(0, [k \in 0 .. 0 |-> a])
      OBVIOUS
    <3> QED
      BY <3>1
  <2>2. ASSUME NEW n \in Nat, n \in T PROVE n + 1 \in T
    <3>1. PICK g : Upto(n, g)
      BY <2>2
    <3> DEFINE h == [k \in 0 .. n + 1 |-> IF k = n + 1 THEN step[n][g[n]] ELSE g[k]]
    <3>2. g[n] \in S /\ step[n][g[n]] \in S
      BY <3>1
    <3>3. h \in [0 .. n + 1 -> S] /\ h[0] = a
      BY <3>1, <3>2
    <3>4. ASSUME NEW k \in 0 .. n PROVE h[k + 1] = step[k][h[k]]
      BY <3>1
    <3> HIDE DEF h
    <3>5. Upto(n + 1, h)
      <4>1. 0 .. (n + 1) - 1 = 0 .. n
        OBVIOUS
      <4> QED
        BY <3>3, <3>4, <4>1
    <3> HIDE DEF Upto
    <3> QED
      BY <3>5
  <2> HIDE DEF T
  <2>3. Nat \subseteq T
    BY <2>1, <2>2, NatSetInduction
  <2> QED
    BY <2>3 DEF T
<1>2. ASSUME NEW n \in Nat, NEW m \in Nat, NEW g, NEW h, Upto(n, g), Upto(m, h)
      PROVE  \A k \in Nat : k <= n /\ k <= m => g[k] = h[k]
  <2> DEFINE T == {k \in Nat : k <= n /\ k <= m => g[k] = h[k]}
  <2>1. 0 \in T
    BY <1>2
  <2>2. ASSUME NEW k \in Nat, k \in T PROVE k + 1 \in T
    BY <1>2, <2>2
  <2> HIDE DEF T
  <2>3. Nat \subseteq T
    BY <2>1, <2>2, NatSetInduction
  <2> QED
    BY <2>3 DEF T
<1> DEFINE G(n) == CHOOSE g : Upto(n, g)
           f    == [n \in Nat |-> G(n)[n]]
<1>3. ASSUME NEW n \in Nat PROVE Upto(n, G(n))
  <2> HIDE DEF Upto
  <2> QED
    BY <1>1
<1> HIDE DEF G
<1>4. f \in [Nat -> S]
  BY <1>3
<1>5. f[0] = a
  BY <1>3
<1>6. ASSUME NEW k \in Nat PROVE f[k + 1] = step[k][f[k]]
  <2>1. Upto(k + 1, G(k + 1)) /\ Upto(k, G(k))
    BY <1>3
  <2>2. k + 1 \in Nat /\ k <= k + 1 /\ k <= k
    OBVIOUS
  <2>3. G(k + 1)[k] = G(k)[k]
    <3> HIDE DEF Upto
    <3> QED
      BY <2>1, <2>2, <1>2
  <2>4. G(k + 1)[k + 1] = step[k][G(k + 1)[k]]
    BY <2>1
  <2> QED
    BY <2>3, <2>4
<1> QED
  BY <1>4, <1>5, <1>6 DEF Goes


\* The sum of two bytes is a byte.
LEMMA AddType == ASSUME NEW a \in Byte, NEW b \in Byte PROVE Add(a, b) \in Byte
BY DEF Add, Byte

\* Addition is commutative and associative, and every byte is its own negative.
LEMMA AddLaws ==
    ASSUME NEW a \in Byte, NEW b \in Byte, NEW c \in Byte
    PROVE  /\ Add(a, b) = Add(b, a)
           /\ Add(Add(a, b), c) = Add(a, Add(b, c))
           /\ Add(a, {}) = a /\ Add({}, a) = a /\ Add(a, a) = {}
BY DEF Add

\* Bit by bit, what a round makes of a and b.
LEMMA XTimeBits ==
    ASSUME NEW a \in Byte
    PROVE  /\ XTime(a) \in Byte
           /\ 0 \in XTime(a) <=> 7 \in a
           /\ 1 \in XTime(a) <=> ((7 \in a) # (0 \in a))
           /\ 2 \in XTime(a) <=> 1 \in a
           /\ 3 \in XTime(a) <=> ((7 \in a) # (2 \in a))
           /\ 4 \in XTime(a) <=> ((7 \in a) # (3 \in a))
           /\ 5 \in XTime(a) <=> 4 \in a
           /\ 6 \in XTime(a) <=> 5 \in a
           /\ 7 \in XTime(a) <=> 6 \in a
BY DEF XTime, Add, Reduction, Byte, Bits

\* A shift to the right, bit by bit.
LEMMA HalveBits ==
    ASSUME NEW b \in Byte
    PROVE  /\ Halve(b) \in Byte
           /\ \A i \in 0 .. 6 : i \in Halve(b) <=> i + 1 \in b
           /\ 7 \notin Halve(b)
BY DEF Halve, Byte, Bits

\* Bytes of the same bits are the same.
LEMMA SameBits ==
    ASSUME NEW a \in Byte, NEW b \in Byte, \A i \in 0 .. 7 : i \in a <=> i \in b
    PROVE  a = b
BY DEF Byte, Bits

\* Addition is exclusive or.
LEMMA AddBits ==
    ASSUME NEW a \in Byte, NEW b \in Byte, NEW i
    PROVE  i \in Add(a, b) <=> ((i \in a) # (i \in b))
BY DEF Add

\* XTime distributes over addition.
LEMMA XTimeAdds ==
    ASSUME NEW a \in Byte, NEW b \in Byte
    PROVE  XTime(Add(a, b)) = Add(XTime(a), XTime(b))
<1>1. Add(a, b) \in Byte /\ XTime(a) \in Byte /\ XTime(b) \in Byte /\ Add(XTime(a), XTime(b)) \in Byte
  BY AddType, XTimeBits
<1>2. XTime(Add(a, b)) \in Byte
  BY <1>1, XTimeBits
<1> DEFINE c == Add(a, b)
           d == Add(XTime(a), XTime(b))
<1>3. /\ \A i \in 0 .. 7 : i \in c <=> ((i \in a) # (i \in b))
      /\ \A i \in 0 .. 7 : i \in d <=> ((i \in XTime(a)) # (i \in XTime(b)))
  BY <1>1, AddBits
<1> HIDE DEF c, d
<1>4. \A i \in 0 .. 7 : i \in XTime(c) <=> i \in d
  <2>0. c \in Byte
    BY <1>1 DEF c
  <2>1. 0 \in XTime(c) <=> 0 \in d
    BY <1>3, <2>0, XTimeBits
  <2>2. 1 \in XTime(c) <=> 1 \in d
    BY <1>3, <2>0, XTimeBits
  <2>3. 2 \in XTime(c) <=> 2 \in d
    BY <1>3, <2>0, XTimeBits
  <2>4. 3 \in XTime(c) <=> 3 \in d
    BY <1>3, <2>0, XTimeBits
  <2>5. 4 \in XTime(c) <=> 4 \in d
    BY <1>3, <2>0, XTimeBits
  <2>6. 5 \in XTime(c) <=> 5 \in d
    BY <1>3, <2>0, XTimeBits
  <2>7. 6 \in XTime(c) <=> 6 \in d
    BY <1>3, <2>0, XTimeBits
  <2>8. 7 \in XTime(c) <=> 7 \in d
    BY <1>3, <2>0, XTimeBits
  <2> QED
    BY <2>1, <2>2, <2>3, <2>4, <2>5, <2>6, <2>7, <2>8
<1> QED
  BY <1>1, <1>2, <1>4, SameBits DEF c, d

\* A number is its half and its last bit.
LEMMA HalfAndBit ==
    ASSUME NEW n \in Nat, NEW m \in Nat, n \div 2 = m \div 2, n % 2 = 1 <=> m % 2 = 1
    PROVE  n = m
OBVIOUS

\* The byte of a number is a byte.
LEMMA ToByteIsByte == ASSUME NEW n PROVE ToByte(n) \in Byte
BY DEF ToByte, Byte

\* Different numbers up to 255 are different bytes.
LEMMA ToByteDiffers ==
    ASSUME NEW n \in 0 .. 255, NEW m \in 0 .. 255, ToByte(n) = ToByte(m)
    PROVE  n = m
<1>1. \A i \in 0 .. 7 : (n \div 2^i) % 2 = 1 <=> (m \div 2^i) % 2 = 1
  BY DEF ToByte, Bits
<1>2. 2^0 = 1 /\ 2^1 = 2 /\ 2^2 = 4 /\ 2^3 = 8 /\ 2^4 = 16 /\ 2^5 = 32 /\ 2^6 = 64 /\ 2^7 = 128
  OBVIOUS
<1>3. /\ (n \div 1) % 2 = 1 <=> (m \div 1) % 2 = 1
      /\ (n \div 2) % 2 = 1 <=> (m \div 2) % 2 = 1
      /\ (n \div 4) % 2 = 1 <=> (m \div 4) % 2 = 1
      /\ (n \div 8) % 2 = 1 <=> (m \div 8) % 2 = 1
      /\ (n \div 16) % 2 = 1 <=> (m \div 16) % 2 = 1
      /\ (n \div 32) % 2 = 1 <=> (m \div 32) % 2 = 1
      /\ (n \div 64) % 2 = 1 <=> (m \div 64) % 2 = 1
      /\ (n \div 128) % 2 = 1 <=> (m \div 128) % 2 = 1
  BY <1>1, <1>2
<1>4. ASSUME NEW l \in Nat
      PROVE  /\ {l \div 2, l \div 4, l \div 8, l \div 16, l \div 32, l \div 64, l \div 128} \subseteq Nat
             /\ (l \div 2) \div 2 = l \div 4 /\ (l \div 4) \div 2 = l \div 8 /\ (l \div 8) \div 2 = l \div 16
             /\ (l \div 16) \div 2 = l \div 32 /\ (l \div 32) \div 2 = l \div 64 /\ (l \div 64) \div 2 = l \div 128
  OBVIOUS
<1>5. n \div 128 = m \div 128
  BY <1>3
<1>6. n \div 64 = m \div 64
  BY ONLY <1>3, <1>4, <1>5, HalfAndBit, n \in Nat, m \in Nat
<1>7. n \div 32 = m \div 32
  BY ONLY <1>3, <1>4, <1>6, HalfAndBit, n \in Nat, m \in Nat
<1>8. n \div 16 = m \div 16
  BY ONLY <1>3, <1>4, <1>7, HalfAndBit, n \in Nat, m \in Nat
<1>9. n \div 8 = m \div 8
  BY ONLY <1>3, <1>4, <1>8, HalfAndBit, n \in Nat, m \in Nat
<1>10. n \div 4 = m \div 4
  BY ONLY <1>3, <1>4, <1>9, HalfAndBit, n \in Nat, m \in Nat
<1>11. n \div 2 = m \div 2
  BY ONLY <1>3, <1>4, <1>10, HalfAndBit, n \in Nat, m \in Nat
<1> QED
  BY <1>3, <1>11, HalfAndBit

\* A shift to the right distributes over addition.
LEMMA HalveAdds ==
    ASSUME NEW a \in Byte, NEW b \in Byte
    PROVE  Halve(Add(a, b)) = Add(Halve(a), Halve(b))
<1>1. Add(a, b) \in Byte /\ Halve(a) \in Byte /\ Halve(b) \in Byte /\ Add(Halve(a), Halve(b)) \in Byte
  BY AddType, HalveBits
<1> DEFINE c == Add(a, b)
           d == Add(Halve(a), Halve(b))
<1>2. /\ \A i \in 0 .. 7 : i \in c <=> ((i \in a) # (i \in b))
      /\ \A i \in 0 .. 7 : i \in d <=> ((i \in Halve(a)) # (i \in Halve(b)))
      /\ c \in Byte /\ d \in Byte
  BY <1>1, AddBits
<1> HIDE DEF c, d
<1>3. \A i \in 0 .. 7 : i \in Halve(c) <=> i \in d
  <2>1. ASSUME NEW i \in 0 .. 6 PROVE i \in Halve(c) <=> i \in d
    <3>1. i + 1 \in 0 .. 7
      OBVIOUS
    <3> QED
      BY <1>2, <3>1, HalveBits
  <2>2. 7 \in Halve(c) <=> 7 \in d
    BY <1>2, HalveBits
  <2> QED
    BY <2>1, <2>2
<1> QED
  BY <1>1, <1>2, <1>3, HalveBits, SameBits DEF c, d

\* The rounds of a multiplication, one by one.
Loops == [a : Byte, b : Byte, p : Byte]
Rounds(f, a, b) ==
    /\ \A n \in 0 .. 8 : f[n] \in Loops
    /\ f[0] = [a |-> a, b |-> b, p |-> {}]
    /\ \A n \in 0 .. 7 : f[n + 1] = Round(f[n])
    /\ Multiply(a, b) = f[8].p

\* A round keeps the types.
LEMMA RoundType == ASSUME NEW s \in Loops PROVE Round(s) \in Loops
BY XTimeBits, HalveBits, AddType DEF Round, Loops

\* A product is what eight rounds of the loop come to.
LEMMA MultiplyRounds ==
    ASSUME NEW a \in Byte, NEW b \in Byte
    PROVE  \E f : Rounds(f, a, b)
<1> DEFINE start == [a |-> a, b |-> b, p |-> {}]
           step  == [k \in Nat |-> [s \in Loops |-> Round(s)]]
           Value(f) == f = [n \in 0 .. 8 |-> IF n = 0 THEN start ELSE Round(f[n - 1])]
<1>1. start \in Loops /\ step \in [Nat -> [Loops -> Loops]]
  BY RoundType DEF Loops, Byte
<1>2. \E f : Goes(f, Loops, start, step)
  <2> HIDE DEF start, step
  <2> QED
    BY <1>1, Recursion
<1>3. PICK g : g \in [Nat -> Loops] /\ g[0] = start /\ \A k \in Nat : g[k + 1] = Round(g[k])
  <2> HIDE DEF start
  <2> QED
    BY <1>2 DEF Goes
<1> HIDE DEF start
<1>4. Value([n \in 0 .. 8 |-> g[n]])
  <2>1. ASSUME NEW n \in 0 .. 8, n # 0 PROVE n - 1 \in 0 .. 8 /\ g[n] = Round(g[n - 1])
    <3>1. n - 1 \in Nat /\ (n - 1) + 1 = n
      BY <2>1
    <3> QED
      BY <1>3, <3>1
  <2> QED
    BY <1>3, <2>1
<1> DEFINE after == CHOOSE f : Value(f)
<1>5. Value(after)
  BY ONLY <1>4, Zenon
<1>6. Multiply(a, b) = after[8].p
  BY Zenon DEF Multiply, start
<1> HIDE DEF after
<1>7. after[0] = start /\ \A n \in 0 .. 7 : after[n + 1] = Round(after[n])
  <2>1. ASSUME NEW n \in 0 .. 7 PROVE after[n + 1] = Round(after[n])
    <3>1. n + 1 \in 0 .. 8 /\ n + 1 # 0 /\ (n + 1) - 1 = n
      OBVIOUS
    <3>2. after[n + 1] = IF n + 1 = 0 THEN start ELSE Round(after[(n + 1) - 1])
      BY ONLY <1>5, <3>1, Zenon
    <3> QED
      BY <3>1, <3>2
  <2> QED
    BY <1>5, <2>1
<1>8. \A n \in 0 .. 8 : after[n] \in Loops
  <2> DEFINE T == {n \in Nat : n <= 8 => after[n] \in Loops}
  <2>1. 0 \in T
    BY <1>1, <1>7
  <2>2. ASSUME NEW n \in Nat, n \in T PROVE n + 1 \in T
    BY <1>7, <2>2, RoundType
  <2> HIDE DEF T
  <2>3. Nat \subseteq T
    BY <2>1, <2>2, NatSetInduction
  <2> QED
    BY <2>3 DEF T
<1> QED
  BY <1>6, <1>7, <1>8 DEF Rounds, start

\* The fields after a round.
LEMMA RoundIs ==
    ASSUME NEW s \in Loops
    PROVE  /\ s.a \in Byte /\ s.b \in Byte /\ s.p \in Byte
           /\ Round(s).a = XTime(s.a) /\ Round(s).b = Halve(s.b)
           /\ Round(s).p = IF 0 \in s.b THEN Add(s.p, s.a) ELSE s.p
BY DEF Loops, Round

\* The product of two bytes is a byte.
LEMMA MultiplyType ==
    ASSUME NEW a \in Byte, NEW b \in Byte PROVE Multiply(a, b) \in Byte
<1>1. PICK f : Rounds(f, a, b)
  BY MultiplyRounds
<1> QED
  BY <1>1 DEF Rounds, Loops

\* A sum of four may be reordered.
LEMMA FourSum ==
    ASSUME NEW a \in Byte, NEW b \in Byte, NEW c \in Byte, NEW d \in Byte
    PROVE  Add(Add(a, b), Add(c, d)) = Add(Add(a, c), Add(b, d))
BY DEF Add

\* Multiplication distributes over addition on the left: the two loops, side by side.
LEMMA MultiplyAddsLeft ==
    ASSUME NEW a \in Byte, NEW c \in Byte, NEW b \in Byte
    PROVE  Multiply(Add(a, c), b) = Add(Multiply(a, b), Multiply(c, b))
<1>1. Add(a, c) \in Byte
  BY AddType
<1>2. PICK f : Rounds(f, a, b)
  BY MultiplyRounds
<1>3. PICK g : Rounds(g, c, b)
  BY MultiplyRounds
<1>4. PICK h : Rounds(h, Add(a, c), b)
  BY <1>1, MultiplyRounds
<1> DEFINE Same(n) == /\ h[n].a = Add(f[n].a, g[n].a) /\ h[n].b = f[n].b /\ g[n].b = f[n].b
                      /\ h[n].p = Add(f[n].p, g[n].p)
           T == {n \in Nat : n <= 8 => Same(n)}
<1>5. 0 \in T
  <2>1. Add({}, {}) = {}
    BY DEF Add
  <2> QED
    BY <1>2, <1>3, <1>4, <2>1 DEF Rounds
<1>6. ASSUME NEW n \in Nat, n \in T PROVE n + 1 \in T
  <2> SUFFICES ASSUME n <= 7 PROVE Same(n + 1)
    OBVIOUS
  <2>1. n \in 0 .. 7 /\ n \in 0 .. 8 /\ Same(n)
    BY <1>6
  <2>2. /\ f[n] \in Loops /\ g[n] \in Loops /\ h[n] \in Loops
        /\ f[n + 1] = Round(f[n]) /\ g[n + 1] = Round(g[n]) /\ h[n + 1] = Round(h[n])
    BY <1>2, <1>3, <1>4, <2>1 DEF Rounds
  <2>3. h[n + 1].a = Add(f[n + 1].a, g[n + 1].a) /\ h[n + 1].b = f[n + 1].b /\ g[n + 1].b = f[n + 1].b
    BY <2>1, <2>2, RoundIs, XTimeAdds
  <2>4. h[n + 1].p = Add(f[n + 1].p, g[n + 1].p)
    <3>1. CASE 0 \in f[n].b
      <4>1. /\ h[n + 1].p = Add(Add(f[n].p, g[n].p), Add(f[n].a, g[n].a))
            /\ f[n + 1].p = Add(f[n].p, f[n].a) /\ g[n + 1].p = Add(g[n].p, g[n].a)
        BY <2>1, <2>2, <3>1, RoundIs
      <4>2. f[n].p \in Byte /\ g[n].p \in Byte /\ f[n].a \in Byte /\ g[n].a \in Byte
        BY <2>2 DEF Loops
      <4> QED
        BY ONLY <4>1, <4>2, FourSum
    <3>2. CASE 0 \notin f[n].b
      BY <2>1, <2>2, <3>2, RoundIs
    <3> QED
      BY <3>1, <3>2
  <2> QED
    BY <2>3, <2>4
<1> HIDE DEF T
<1>7. Nat \subseteq T
  BY <1>5, <1>6, NatSetInduction
<1> QED
  BY <1>2, <1>3, <1>4, <1>7 DEF T, Rounds

\* Multiplication distributes over addition on the right.
LEMMA MultiplyAddsRight ==
    ASSUME NEW a \in Byte, NEW b \in Byte, NEW c \in Byte
    PROVE  Multiply(a, Add(b, c)) = Add(Multiply(a, b), Multiply(a, c))
<1>1. Add(b, c) \in Byte
  BY AddType
<1>2. PICK f : Rounds(f, a, b)
  BY MultiplyRounds
<1>3. PICK g : Rounds(g, a, c)
  BY MultiplyRounds
<1>4. PICK h : Rounds(h, a, Add(b, c))
  BY <1>1, MultiplyRounds
<1> DEFINE Same(n) == /\ h[n].b = Add(f[n].b, g[n].b) /\ h[n].a = f[n].a /\ g[n].a = f[n].a
                      /\ h[n].p = Add(f[n].p, g[n].p)
           T == {n \in Nat : n <= 8 => Same(n)}
<1>5. 0 \in T
  <2>1. Add({}, {}) = {}
    BY DEF Add
  <2> QED
    BY <1>2, <1>3, <1>4, <2>1 DEF Rounds
<1>6. ASSUME NEW n \in Nat, n \in T PROVE n + 1 \in T
  <2> SUFFICES ASSUME n <= 7 PROVE Same(n + 1)
    OBVIOUS
  <2>1. n \in 0 .. 7 /\ n \in 0 .. 8 /\ Same(n)
    BY <1>6
  <2>2. /\ f[n] \in Loops /\ g[n] \in Loops /\ h[n] \in Loops
        /\ f[n + 1] = Round(f[n]) /\ g[n + 1] = Round(g[n]) /\ h[n + 1] = Round(h[n])
    BY <1>2, <1>3, <1>4, <2>1 DEF Rounds
  <2>3. h[n + 1].b = Add(f[n + 1].b, g[n + 1].b) /\ h[n + 1].a = f[n + 1].a /\ g[n + 1].a = f[n + 1].a
    BY <2>1, <2>2, RoundIs, HalveAdds
  <2>4. h[n + 1].p = Add(f[n + 1].p, g[n + 1].p)
    <3> DEFINE p == f[n].p
               q == g[n].p
               e == f[n].a
    <3>1. p \in Byte /\ q \in Byte /\ e \in Byte
      BY <2>2, RoundIs
    <3>2. /\ Add(Add(p, e), Add(q, e)) = Add(p, q)
          /\ Add(Add(p, e), q) = Add(Add(p, q), e)
          /\ Add(p, Add(q, e)) = Add(Add(p, q), e)
      BY DEF Add
    <3>3. /\ h[n].p = Add(p, q) /\ h[n].a = e /\ g[n].a = e
          /\ 0 \in h[n].b <=> ((0 \in f[n].b) # (0 \in g[n].b))
      BY <2>1, <2>2, RoundIs, AddBits
    <3>4. /\ f[n + 1].p = IF 0 \in f[n].b THEN Add(p, e) ELSE p
          /\ g[n + 1].p = IF 0 \in g[n].b THEN Add(q, e) ELSE q
          /\ h[n + 1].p = IF 0 \in h[n].b THEN Add(Add(p, q), e) ELSE Add(p, q)
      BY <2>2, <3>3, RoundIs
    <3> QED
      BY ONLY <3>2, <3>3, <3>4
  <2> QED
    BY <2>3, <2>4
<1> HIDE DEF T
<1>7. Nat \subseteq T
  BY <1>5, <1>6, NatSetInduction
<1> QED
  BY <1>2, <1>3, <1>4, <1>7 DEF T, Rounds

\* XTime of the first factor is XTime of the product.
LEMMA MultiplyXTimeLeft ==
    ASSUME NEW a \in Byte, NEW b \in Byte
    PROVE  Multiply(XTime(a), b) = XTime(Multiply(a, b))
<1>2. PICK f : Rounds(f, a, b)
  BY MultiplyRounds
<1>3. PICK g : Rounds(g, XTime(a), b)
  BY MultiplyRounds, XTimeBits
<1> DEFINE Same(n) == g[n].a = XTime(f[n].a) /\ g[n].b = f[n].b /\ g[n].p = XTime(f[n].p)
           T == {n \in Nat : n <= 8 => Same(n)}
<1>5. 0 \in T
  <2>1. XTime({}) = {}
    BY DEF XTime
  <2> QED
    BY <1>2, <1>3, <2>1 DEF Rounds
<1>6. ASSUME NEW n \in Nat, n \in T PROVE n + 1 \in T
  <2> SUFFICES ASSUME n <= 7 PROVE Same(n + 1)
    OBVIOUS
  <2>1. n \in 0 .. 7 /\ n \in 0 .. 8 /\ Same(n)
    BY <1>6
  <2>2. /\ f[n] \in Loops /\ g[n] \in Loops
        /\ f[n + 1] = Round(f[n]) /\ g[n + 1] = Round(g[n])
    BY <1>2, <1>3, <2>1 DEF Rounds
  <2> QED
    BY <2>1, <2>2, RoundIs, XTimeAdds
<1> HIDE DEF T
<1>7. Nat \subseteq T
  BY <1>5, <1>6, NatSetInduction
<1> QED
  BY <1>2, <1>3, <1>7 DEF T, Rounds

\* One is {0}.
LEMMA MultiplyByOne ==
    ASSUME NEW a \in Byte
    PROVE  Multiply(a, {0}) = a
<1>1. {0} \in Byte /\ {} \in Byte
  BY DEF Byte, Bits
<1>2. PICK f : Rounds(f, a, {0})
  BY <1>1, MultiplyRounds
<1> DEFINE T == {n \in Nat : n <= 7 => f[n + 1].b = {} /\ f[n + 1].p = a}
<1>3. 0 \in T
  <2>1. f[0] \in Loops /\ f[0].a = a /\ f[0].b = {0} /\ f[0].p = {} /\ f[0 + 1] = Round(f[0])
    BY <1>2 DEF Rounds
  <2>2. Halve({0}) = {} /\ Add({}, a) = a
    BY DEF Halve, Add
  <2> QED
    BY <2>1, <2>2, RoundIs
<1>4. ASSUME NEW n \in Nat, n \in T PROVE n + 1 \in T
  <2> SUFFICES ASSUME n + 1 <= 7 PROVE f[(n + 1) + 1].b = {} /\ f[(n + 1) + 1].p = a
    OBVIOUS
  <2>1. f[n + 1] \in Loops /\ f[(n + 1) + 1] = Round(f[n + 1]) /\ f[n + 1].b = {} /\ f[n + 1].p = a
    BY <1>2, <1>4 DEF Rounds
  <2>2. Halve({}) = {}
    BY DEF Halve
  <2> QED
    BY <2>1, <2>2, RoundIs
<1> HIDE DEF T
<1>5. Nat \subseteq T
  BY <1>3, <1>4, NatSetInduction
<1> QED
  BY <1>2, <1>5 DEF T, Rounds

\* A bit moved up in the second factor is XTime of the first.
LEMMA MultiplyByNext ==
    ASSUME NEW a \in Byte, NEW i \in 0 .. 6
    PROVE  Multiply(a, {i + 1}) = Multiply(XTime(a), {i})
<1>1. {i} \in Byte /\ {i + 1} \in Byte /\ XTime(a) \in Byte
  BY XTimeBits DEF Byte, Bits
<1>2. PICK f : Rounds(f, a, {i + 1})
  BY <1>1, MultiplyRounds
<1>3. PICK g : Rounds(g, XTime(a), {i})
  BY <1>1, MultiplyRounds
<1> DEFINE T == {n \in Nat : n <= 7 => f[n + 1] = g[n]}
           U == {n \in Nat : n <= 8 => g[n].b = IF n <= i THEN {i - n} ELSE {}}
<1>4. 0 \in T
  <2>1. f[0] \in Loops /\ f[0] = [a |-> a, b |-> {i + 1}, p |-> {}] /\ f[0 + 1] = Round(f[0])
    BY <1>2 DEF Rounds
  <2>2. Halve({i + 1}) = {i} /\ 0 \notin {i + 1}
    BY DEF Halve
  <2>3. Round(f[0]) = [a |-> XTime(a), b |-> {i}, p |-> {}]
    BY <2>1, <2>2 DEF Round
  <2>4. f[0 + 1] = g[0]
    BY <1>3, <2>1, <2>3, Zenon DEF Rounds
  <2> QED
    BY <2>4
<1>5. ASSUME NEW n \in Nat, n \in T PROVE n + 1 \in T
  BY <1>2, <1>3, <1>5 DEF Rounds
<1>6. 0 \in U
  BY <1>3 DEF Rounds
<1>7. ASSUME NEW n \in Nat, n \in U PROVE n + 1 \in U
  <2> SUFFICES ASSUME n + 1 <= 8 PROVE g[n + 1].b = IF n + 1 <= i THEN {i - (n + 1)} ELSE {}
    OBVIOUS
  <2>1. g[n] \in Loops /\ g[n + 1] = Round(g[n]) /\ g[n].b = IF n <= i THEN {i - n} ELSE {}
    BY <1>3, <1>7 DEF Rounds
  <2>2. g[n + 1].b = Halve(g[n].b)
    BY <2>1, RoundIs
  <2>3. CASE n < i
    <3>1. Halve({i - n}) = {i - (n + 1)}
      BY <2>3 DEF Halve
    <3> QED
      BY <2>1, <2>2, <2>3, <3>1
  <2>4. CASE ~(n < i)
    <3>1. g[n].b \subseteq {0}
      BY <2>1, <2>4
    <3>2. Halve(g[n].b) = {}
      BY <3>1 DEF Halve
    <3> QED
      BY <2>2, <2>4, <3>2
  <2> QED
    BY <2>3, <2>4
<1> HIDE DEF T, U
<1>8. Nat \subseteq T /\ Nat \subseteq U
  BY <1>4, <1>5, <1>6, <1>7, NatSetInduction
<1>9. f[8] = g[7] /\ g[7].b = {} /\ g[8] = Round(g[7]) /\ g[7] \in Loops
  <2>1. 7 \in T /\ 7 \in U
    BY <1>8
  <2>2. f[7 + 1] = g[7] /\ g[7].b = {}
    BY <2>1 DEF T, U
  <2>3. 7 \in 0 .. 7 /\ 7 \in 0 .. 8 /\ 7 + 1 = 8
    OBVIOUS
  <2>4. g[7 + 1] = Round(g[7]) /\ g[7] \in Loops
    BY <1>3, <2>3 DEF Rounds
  <2> QED
    BY <2>2, <2>3, <2>4
<1>10. g[8].p = g[7].p
  BY <1>9, RoundIs
<1> QED
  BY <1>2, <1>3, <1>9, <1>10 DEF Rounds

\* Eight times XTime adds what a carry out of the high bit is worth.
LEMMA EightTimes ==
    ASSUME NEW a \in Byte, NEW a1, NEW a2, NEW a3, NEW a4, NEW a5, NEW a6, NEW a7, NEW a8,
           a1 = XTime(a), a2 = XTime(a1), a3 = XTime(a2), a4 = XTime(a3),
           a5 = XTime(a4), a6 = XTime(a5), a7 = XTime(a6), a8 = XTime(a7)
    PROVE  a8 = Add(Add(a, a1), Add(a3, a4))
<1>1. a1 \in Byte /\ a2 \in Byte /\ a3 \in Byte /\ a4 \in Byte
  BY XTimeBits
<1>2. a5 \in Byte /\ a6 \in Byte /\ a7 \in Byte /\ a8 \in Byte
  BY <1>1, XTimeBits
<1>3. Add(a, a1) \in Byte /\ Add(a3, a4) \in Byte /\ Add(Add(a, a1), Add(a3, a4)) \in Byte
  BY <1>1, AddType
<1> DEFINE s == Add(Add(a, a1), Add(a3, a4))
<1>4. \A i \in 0 .. 7 : i \in s <=> (((i \in a) # (i \in a1)) # ((i \in a3) # (i \in a4)))
  BY <1>1, <1>3, AddBits
<1> DEFINE Then(x, y) == /\ 0 \in y <=> 7 \in x
                         /\ 1 \in y <=> ((7 \in x) # (0 \in x))
                         /\ 2 \in y <=> 1 \in x
                         /\ 3 \in y <=> ((7 \in x) # (2 \in x))
                         /\ 4 \in y <=> ((7 \in x) # (3 \in x))
                         /\ 5 \in y <=> 4 \in x
                         /\ 6 \in y <=> 5 \in x
                         /\ 7 \in y <=> 6 \in x
<1>5. /\ Then(a, a1) /\ Then(a1, a2) /\ Then(a2, a3) /\ Then(a3, a4)
      /\ Then(a4, a5) /\ Then(a5, a6) /\ Then(a6, a7) /\ Then(a7, a8)
  BY <1>1, <1>2, XTimeBits
<1> HIDE DEF s
<1>6. \A i \in 0 .. 7 : i \in a8 <=> i \in s
  <2>0. 0 \in a8 <=> 0 \in s
    BY ONLY <1>4, <1>5
  <2>1. 1 \in a8 <=> 1 \in s
    BY ONLY <1>4, <1>5
  <2>2. 2 \in a8 <=> 2 \in s
    BY ONLY <1>4, <1>5
  <2>3. 3 \in a8 <=> 3 \in s
    BY ONLY <1>4, <1>5
  <2>4. 4 \in a8 <=> 4 \in s
    BY ONLY <1>4, <1>5
  <2>5. 5 \in a8 <=> 5 \in s
    BY ONLY <1>4, <1>5
  <2>6. 6 \in a8 <=> 6 \in s
    BY ONLY <1>4, <1>5
  <2>7. 7 \in a8 <=> 7 \in s
    BY ONLY <1>4, <1>5
  <2> QED
    BY <2>0, <2>1, <2>2, <2>3, <2>4, <2>5, <2>6, <2>7
<1> QED
  BY <1>2, <1>3, <1>6, SameBits DEF s

\* f respects addition.
Additive(f) == f \in [Byte -> Byte] /\ \A a, b \in Byte : f[Add(a, b)] = Add(f[a], f[b])

\* Functions that respect addition are determined by their values at the single bits.
LEMMA AdditiveExtension ==
    ASSUME NEW f, NEW g, Additive(f), Additive(g), \A i \in 0 .. 7 : f[{i}] = g[{i}]
    PROVE  f = g
<1>1. f[{}] = {} /\ g[{}] = {}
  <2>1. {} \in Byte /\ Add({}, {}) = {}
    BY DEF Byte, Add
  <2>2. f[{}] \in Byte /\ g[{}] \in Byte
    BY <2>1 DEF Additive
  <2>3. f[Add({}, {})] = Add(f[{}], f[{}]) /\ g[Add({}, {})] = Add(g[{}], g[{}])
    BY ONLY <2>1, Additive(f), Additive(g), Zenon DEF Additive
  <2>4. Add(f[{}], f[{}]) = {} /\ Add(g[{}], g[{}]) = {}
    BY ONLY <2>2, AddLaws
  <2> QED
    BY ONLY <2>1, <2>3, <2>4
<1> DEFINE T == {n \in Nat : \A a \in Byte : a \subseteq 0 .. n - 1 => f[a] = g[a]}
<1>2. 0 \in T
  <2>1. \A a \in Byte : a \subseteq 0 .. 0 - 1 => a = {}
    OBVIOUS
  <2> QED
    BY <1>1, <2>1
<1>3. ASSUME NEW n \in Nat, n \in T PROVE n + 1 \in T
  <2> SUFFICES ASSUME NEW a \in Byte, a \subseteq 0 .. (n + 1) - 1 PROVE f[a] = g[a]
    OBVIOUS
  <2>1. CASE n \notin a
    <3>1. a \subseteq 0 .. n - 1
      BY <2>1
    <3> QED
      BY <1>3, <3>1
  <2>2. CASE n \in a
    <3> DEFINE rest == a \ {n}
    <3>1. rest \in Byte /\ {n} \in Byte /\ rest \subseteq 0 .. n - 1 /\ n \in 0 .. 7
      BY <2>2 DEF Byte, Bits
    <3>2. Add(rest, {n}) = a
      BY <2>2 DEF Add
    <3> HIDE DEF rest
    <3>3. f[rest] = g[rest]
      BY <1>3, <3>1
    <3>4. f[{n}] = g[{n}]
      BY <3>1
    <3>5. f[Add(rest, {n})] = Add(f[rest], f[{n}]) /\ g[Add(rest, {n})] = Add(g[rest], g[{n}])
      BY ONLY <3>1, Additive(f), Additive(g), Zenon DEF Additive
    <3> QED
      BY ONLY <3>2, <3>3, <3>4, <3>5
  <2> QED
    BY <2>1, <2>2
<1> HIDE DEF T
<1>4. Nat \subseteq T
  BY <1>2, <1>3, NatSetInduction
<1>5. ASSUME NEW a \in Byte PROVE f[a] = g[a]
  <2>1. a \subseteq 0 .. 8 - 1
    BY DEF Byte, Bits
  <2>2. 8 \in T
    BY <1>4
  <2> QED
    BY <2>1, <2>2 DEF T
<1> QED
  BY <1>5 DEF Additive

\* Below the high bit, XTime moves a bit up.
LEMMA XTimeOfBits == \A i \in 0 .. 6 : XTime({i}) = {i + 1}
BY DEF XTime

\* Functions that respect addition and XTime are determined by their value at {0}.
LEMMA CyclicExtension ==
    ASSUME NEW f, NEW g, Additive(f), Additive(g), f[{0}] = g[{0}],
           \A a \in Byte : f[XTime(a)] = XTime(f[a]) /\ g[XTime(a)] = XTime(g[a])
    PROVE  f = g
<1> DEFINE T == {n \in Nat : n <= 7 => f[{n}] = g[{n}]}
<1>1. 0 \in T
  OBVIOUS
<1>2. ASSUME NEW n \in Nat, n \in T PROVE n + 1 \in T
  <2> SUFFICES ASSUME n + 1 <= 7 PROVE f[{n + 1}] = g[{n + 1}]
    OBVIOUS
  <2>1. n \in 0 .. 6 /\ {n} \in Byte /\ f[{n}] = g[{n}]
    BY <1>2 DEF Byte, Bits
  <2> QED
    BY <2>1, XTimeOfBits
<1> HIDE DEF T
<1>3. Nat \subseteq T
  BY <1>1, <1>2, NatSetInduction
<1>4. \A i \in 0 .. 7 : f[{i}] = g[{i}]
  BY <1>3 DEF T
<1> QED
  BY <1>4, AdditiveExtension

\* XTime of the second factor is XTime of the product.
LEMMA MultiplyXTimeRight ==
    ASSUME NEW a \in Byte, NEW b \in Byte
    PROVE  Multiply(a, XTime(b)) = XTime(Multiply(a, b))
<1> DEFINE f == [c \in Byte |-> Multiply(a, XTime(c))]
           g == [c \in Byte |-> XTime(Multiply(a, c))]
<1>0. \A c \in Byte : XTime(c) \in Byte /\ Multiply(a, c) \in Byte
  BY XTimeBits, MultiplyType
<1>1. Additive(f)
  <2>1. f \in [Byte -> Byte]
    BY <1>0
  <2>2. ASSUME NEW c \in Byte, NEW d \in Byte PROVE f[Add(c, d)] = Add(f[c], f[d])
    BY <1>0, AddType, XTimeAdds, MultiplyAddsRight
  <2> QED
    BY <2>1, <2>2 DEF Additive
<1>2. Additive(g)
  <2>1. g \in [Byte -> Byte]
    BY <1>0
  <2>2. ASSUME NEW c \in Byte, NEW d \in Byte PROVE g[Add(c, d)] = Add(g[c], g[d])
    BY <1>0, AddType, XTimeAdds, MultiplyAddsRight
  <2> QED
    BY <2>1, <2>2 DEF Additive
<1>3. \A i \in 0 .. 7 : {i} \in Byte
  BY DEF Byte, Bits
<1>4. ASSUME NEW i \in 0 .. 6 PROVE Multiply(a, {i + 1}) = XTime(Multiply(a, {i}))
  <2>1. {i} \in Byte
    BY <1>3
  <2>2. Multiply(a, {i + 1}) = Multiply(XTime(a), {i})
    BY MultiplyByNext
  <2>3. Multiply(XTime(a), {i}) = XTime(Multiply(a, {i}))
    BY <2>1, MultiplyXTimeLeft
  <2> QED
    BY <2>2, <2>3
<1>5. ASSUME NEW i \in 0 .. 6 PROVE f[{i}] = g[{i}]
  <2>1. i \in 0 .. 7
    OBVIOUS
  <2> QED
    BY <1>3, <1>4, <2>1, XTimeOfBits
<1>6. f[{7}] = g[{7}]
  <2> DEFINE m(i) == Multiply(a, {i})
  <2>1. XTime({7}) = Add(Add({0}, {1}), Add({3}, {4}))
    BY DEF XTime, Reduction, Add
  <2>2. {0} \in Byte /\ {1} \in Byte /\ {3} \in Byte /\ {4} \in Byte /\ {7} \in Byte
    BY DEF Byte, Bits
  <2>3. f[{7}] = Add(Add(m(0), m(1)), Add(m(3), m(4)))
    <3>1. Add({0}, {1}) \in Byte /\ Add({3}, {4}) \in Byte
      BY <2>2, AddType
    <3> QED
      BY <2>1, <2>2, <3>1, MultiplyAddsRight
  <2>4. m(0) = a /\ m(0) \in Byte
    BY MultiplyByOne
  <2>5. /\ m(0 + 1) = XTime(m(0)) /\ m(1 + 1) = XTime(m(1)) /\ m(2 + 1) = XTime(m(2)) /\ m(3 + 1) = XTime(m(3))
        /\ m(4 + 1) = XTime(m(4)) /\ m(5 + 1) = XTime(m(5)) /\ m(6 + 1) = XTime(m(6))
    BY <1>4
  <2>6. 0 + 1 = 1 /\ 1 + 1 = 2 /\ 2 + 1 = 3 /\ 3 + 1 = 4 /\ 4 + 1 = 5 /\ 5 + 1 = 6 /\ 6 + 1 = 7
    OBVIOUS
  <2>7. g[{7}] = XTime(m(7))
    BY <2>2
  <2> HIDE DEF m
  <2>8. /\ m(1) = XTime(m(0)) /\ m(2) = XTime(m(1)) /\ m(3) = XTime(m(2)) /\ m(4) = XTime(m(3))
        /\ m(5) = XTime(m(4)) /\ m(6) = XTime(m(5)) /\ m(7) = XTime(m(6))
    BY ONLY <2>5, <2>6
  <2>9. XTime(m(7)) = Add(Add(m(0), m(1)), Add(m(3), m(4)))
    BY ONLY <2>4, <2>8, EightTimes
  <2> QED
    BY ONLY <2>3, <2>7, <2>9
<1>7. \A i \in 0 .. 7 : f[{i}] = g[{i}]
  BY <1>5, <1>6
<1> HIDE DEF f, g
<1>8. f = g
  BY <1>1, <1>2, <1>7, AdditiveExtension
<1> QED
  BY <1>8 DEF f, g

\* The bytes are a commutative ring.
LEMMA MultiplyCommutes ==
    ASSUME NEW a \in Byte, NEW b \in Byte
    PROVE  Multiply(a, b) = Multiply(b, a)
<1>0. {0} \in Byte
  BY DEF Byte, Bits
<1> DEFINE one == [c \in Byte |-> c]
           oneTimes == [c \in Byte |-> Multiply({0}, c)]
<1>1. Additive(one) /\ Additive(oneTimes)
  BY <1>0, AddType, MultiplyType, MultiplyAddsRight DEF Additive
<1>2. \A c \in Byte : one[XTime(c)] = XTime(one[c]) /\ oneTimes[XTime(c)] = XTime(oneTimes[c])
  BY <1>0, XTimeBits, MultiplyXTimeRight
<1>3. one[{0}] = oneTimes[{0}]
  BY <1>0, MultiplyByOne
<1> HIDE DEF one, oneTimes
<1>4. one = oneTimes
  BY <1>1, <1>2, <1>3, CyclicExtension
<1>5. Multiply({0}, b) = b
  BY <1>4 DEF one, oneTimes
<1> DEFINE left == [c \in Byte |-> Multiply(c, b)]
           right == [c \in Byte |-> Multiply(b, c)]
<1>6. Additive(left) /\ Additive(right)
  <2>1. left \in [Byte -> Byte] /\ right \in [Byte -> Byte]
    BY MultiplyType
  <2>2. ASSUME NEW c \in Byte, NEW d \in Byte
        PROVE  left[Add(c, d)] = Add(left[c], left[d]) /\ right[Add(c, d)] = Add(right[c], right[d])
    <3>1. left[Add(c, d)] = Add(left[c], left[d])
      BY AddType, MultiplyAddsLeft
    <3>2. right[Add(c, d)] = Add(right[c], right[d])
      <4>1. Multiply(b, Add(c, d)) = Add(Multiply(b, c), Multiply(b, d))
        BY MultiplyAddsRight
      <4>2. Add(c, d) \in Byte
        BY AddType
      <4> QED
        BY <4>1, <4>2
    <3> QED
      BY <3>1, <3>2
  <2> HIDE DEF left, right
  <2> QED
    BY <2>1, <2>2 DEF Additive
<1>7. \A c \in Byte : left[XTime(c)] = XTime(left[c]) /\ right[XTime(c)] = XTime(right[c])
  BY XTimeBits, MultiplyXTimeLeft, MultiplyXTimeRight
<1>8. left[{0}] = right[{0}]
  BY <1>0, <1>5, MultiplyByOne
<1> HIDE DEF left, right
<1>9. left = right
  BY <1>6, <1>7, <1>8, CyclicExtension
<1> QED
  BY <1>9 DEF left, right

\* And multiplication is associative.
LEMMA MultiplyAssociates ==
    ASSUME NEW a \in Byte, NEW b \in Byte, NEW c \in Byte
    PROVE  Multiply(Multiply(a, b), c) = Multiply(a, Multiply(b, c))
<1>0. {0} \in Byte /\ Multiply(b, c) \in Byte
  BY MultiplyType DEF Byte, Bits
<1> DEFINE left == [d \in Byte |-> Multiply(Multiply(d, b), c)]
           right == [d \in Byte |-> Multiply(d, Multiply(b, c))]
<1>1. Additive(left)
  <2>1. left \in [Byte -> Byte]
    BY MultiplyType
  <2>2. ASSUME NEW d \in Byte, NEW e \in Byte PROVE left[Add(d, e)] = Add(left[d], left[e])
    BY AddType, MultiplyType, MultiplyAddsLeft
  <2> QED
    BY <2>1, <2>2 DEF Additive
<1>2. Additive(right)
  <2>1. right \in [Byte -> Byte]
    BY <1>0, MultiplyType
  <2>2. ASSUME NEW d \in Byte, NEW e \in Byte PROVE right[Add(d, e)] = Add(right[d], right[e])
    BY <1>0, AddType, MultiplyAddsLeft
  <2> QED
    BY <2>1, <2>2 DEF Additive
<1>3. \A d \in Byte : left[XTime(d)] = XTime(left[d]) /\ right[XTime(d)] = XTime(right[d])
  BY <1>0, XTimeBits, MultiplyType, MultiplyXTimeLeft
<1>4. left[{0}] = right[{0}]
  BY <1>0, MultiplyCommutes, MultiplyByOne
<1> HIDE DEF left, right
<1>5. left = right
  BY <1>1, <1>2, <1>3, <1>4, CyclicExtension
<1> QED
  BY <1>5 DEF left, right

Square(a) == Multiply(a, a)

\* Bit by bit, b is the square of a.
SquareIs(a, b) ==
    /\ 0 \in b <=> (((0 \in a) # (4 \in a)) # (6 \in a))
    /\ 1 \in b <=> (((4 \in a) # (6 \in a)) # (7 \in a))
    /\ 2 \in b <=> ((1 \in a) # (5 \in a))
    /\ 3 \in b <=> (((4 \in a) # (5 \in a)) # ((6 \in a) # (7 \in a)))
    /\ 4 \in b <=> (((2 \in a) # (4 \in a)) # (7 \in a))
    /\ 5 \in b <=> ((5 \in a) # (6 \in a))
    /\ 6 \in b <=> ((3 \in a) # (5 \in a))
    /\ 7 \in b <=> ((6 \in a) # (7 \in a))

\* Nothing times anything is nothing.
LEMMA MultiplyZero ==
    ASSUME NEW a \in Byte
    PROVE  Multiply(a, {}) = {} /\ Multiply({}, a) = {}
<1>1. {} \in Byte /\ Add({}, {}) = {}
  BY DEF Byte, Add
<1>2. Multiply(a, {}) \in Byte
  BY <1>1, MultiplyType
<1>3. Multiply(a, Add({}, {})) = Add(Multiply(a, {}), Multiply(a, {}))
  BY ONLY <1>1, MultiplyAddsRight
<1>4. Add(Multiply(a, {}), Multiply(a, {})) = {}
  BY ONLY <1>2, AddLaws
<1> QED
  BY <1>1, <1>3, <1>4, MultiplyCommutes

\* Squaring distributes over addition.
LEMMA SquareAdds ==
    ASSUME NEW a \in Byte, NEW b \in Byte
    PROVE  Square(a) \in Byte /\ Square(Add(a, b)) = Add(Square(a), Square(b))
<1> DEFINE c  == Add(a, b)
           aa == Multiply(a, a)
           ab == Multiply(a, b)
           ba == Multiply(b, a)
           bb == Multiply(b, b)
<1>1. c \in Byte /\ aa \in Byte /\ ab \in Byte /\ bb \in Byte /\ ab = ba
  BY AddType, MultiplyType, MultiplyCommutes
<1>2. Multiply(c, c) = Add(Multiply(a, c), Multiply(b, c))
  BY <1>1, MultiplyAddsLeft
<1>3. Multiply(a, c) = Add(aa, ab) /\ Multiply(b, c) = Add(ba, bb)
  BY MultiplyAddsRight
<1>4. Add(Add(aa, ab), Add(ab, bb)) = Add(aa, bb)
  BY DEF Add
<1> QED
  BY <1>1, <1>2, <1>3, <1>4 DEF Square

\* The square of a product is the product of the squares.
LEMMA SquareOfProduct ==
    ASSUME NEW a \in Byte, NEW b \in Byte
    PROVE  Square(Multiply(a, b)) = Multiply(Square(a), Square(b))
<1> DEFINE c == Multiply(a, b)
<1>1. c \in Byte /\ Multiply(b, b) \in Byte /\ Multiply(b, c) \in Byte
  BY MultiplyType
<1>2. Multiply(c, c) = Multiply(a, Multiply(b, c))
  BY <1>1, MultiplyAssociates
<1>3. Multiply(b, c) = Multiply(a, Multiply(b, b))
  <2>1. Multiply(b, c) = Multiply(c, b) /\ Multiply(c, b) = Multiply(a, Multiply(b, b))
    BY <1>1, MultiplyCommutes, MultiplyAssociates
  <2> QED
    BY <2>1
<1>4. Multiply(a, Multiply(a, Multiply(b, b))) = Multiply(Multiply(a, a), Multiply(b, b))
  BY <1>1, MultiplyAssociates
<1> QED
  BY <1>2, <1>3, <1>4 DEF Square

\* The squares of the single bits.
LEMMA SquareOfBits ==
    \A i \in 0 .. 7 : \E b \in Byte : b = Square({i}) /\ SquareIs({i}, b)
<1>0. \A i \in 0 .. 7 : {i} \in Byte
  BY DEF Byte, Bits
<1>1. ASSUME NEW i \in 0 .. 7, NEW j \in 0 .. 6
      PROVE  Multiply({i}, {j + 1}) = XTime(Multiply({i}, {j}))
  <2>1. j \in 0 .. 7
    OBVIOUS
  <2> QED
    BY <1>0, <2>1, MultiplyByNext, MultiplyXTimeLeft
<1>2. ASSUME NEW i \in 0 .. 7
      PROVE  /\ Multiply({i}, {0}) = {i} /\ Multiply({i}, {1}) = XTime(Multiply({i}, {0}))
             /\ Multiply({i}, {2}) = XTime(Multiply({i}, {1})) /\ Multiply({i}, {3}) = XTime(Multiply({i}, {2}))
             /\ Multiply({i}, {4}) = XTime(Multiply({i}, {3})) /\ Multiply({i}, {5}) = XTime(Multiply({i}, {4}))
             /\ Multiply({i}, {6}) = XTime(Multiply({i}, {5})) /\ Multiply({i}, {7}) = XTime(Multiply({i}, {6}))
  <2>1. /\ Multiply({i}, {0 + 1}) = XTime(Multiply({i}, {0})) /\ Multiply({i}, {1 + 1}) = XTime(Multiply({i}, {1}))
        /\ Multiply({i}, {2 + 1}) = XTime(Multiply({i}, {2})) /\ Multiply({i}, {3 + 1}) = XTime(Multiply({i}, {3}))
        /\ Multiply({i}, {4 + 1}) = XTime(Multiply({i}, {4})) /\ Multiply({i}, {5 + 1}) = XTime(Multiply({i}, {5}))
        /\ Multiply({i}, {6 + 1}) = XTime(Multiply({i}, {6}))
    BY <1>1
  <2>2. 0 + 1 = 1 /\ 1 + 1 = 2 /\ 2 + 1 = 3 /\ 3 + 1 = 4 /\ 4 + 1 = 5 /\ 5 + 1 = 6 /\ 6 + 1 = 7
    OBVIOUS
  <2>3. Multiply({i}, {0}) = {i}
    BY <1>0, MultiplyByOne
  <2> QED
    BY ONLY <2>1, <2>2, <2>3
<1>3. /\ XTime({0}) = {1} /\ XTime({1}) = {2} /\ XTime({2}) = {3} /\ XTime({3}) = {4}
      /\ XTime({4}) = {5} /\ XTime({5}) = {6} /\ XTime({6}) = {7}
  <2>1. /\ XTime({0}) = {0 + 1} /\ XTime({1}) = {1 + 1} /\ XTime({2}) = {2 + 1} /\ XTime({3}) = {3 + 1}
        /\ XTime({4}) = {4 + 1} /\ XTime({5}) = {5 + 1} /\ XTime({6}) = {6 + 1}
    BY XTimeOfBits
  <2> QED
    BY <2>1
<1>4. XTime({7}) = {0, 1, 3, 4}
  BY DEF XTime, Add, Reduction
<1>5. XTime({0, 1, 3, 4}) = {1, 2, 4, 5}
  BY DEF XTime, Add, Reduction
<1>6. XTime({1, 2, 4, 5}) = {2, 3, 5, 6}
  BY DEF XTime, Add, Reduction
<1>7. XTime({2, 3, 5, 6}) = {3, 4, 6, 7}
  BY DEF XTime, Add, Reduction
<1>8. XTime({3, 4, 6, 7}) = {0, 1, 3, 5, 7}
  BY DEF XTime, Add, Reduction
<1>9. XTime({0, 1, 3, 5, 7}) = {0, 2, 3, 6}
  BY DEF XTime, Add, Reduction
<1>10. XTime({0, 2, 3, 6}) = {1, 3, 4, 7}
  BY DEF XTime, Add, Reduction
<1>11. Square({0}) = {0} /\ Square({1}) = {2} /\ Square({2}) = {4} /\ Square({3}) = {6}
  BY <1>2, <1>3 DEF Square
<1>12. Square({4}) = {0, 1, 3, 4}
  BY <1>2, <1>3, <1>4 DEF Square
<1>13. Square({5}) = {2, 3, 5, 6}
  <2>1. /\ Multiply({5}, {0}) = {5} /\ Multiply({5}, {1}) = XTime(Multiply({5}, {0}))
        /\ Multiply({5}, {2}) = XTime(Multiply({5}, {1})) /\ Multiply({5}, {3}) = XTime(Multiply({5}, {2}))
        /\ Multiply({5}, {4}) = XTime(Multiply({5}, {3})) /\ Multiply({5}, {5}) = XTime(Multiply({5}, {4}))
    BY <1>2
  <2>2. Multiply({5}, {3}) = {0, 1, 3, 4}
    BY ONLY <2>1, <1>3, <1>4
  <2>3. Multiply({5}, {5}) = {2, 3, 5, 6}
    BY ONLY <2>1, <2>2, <1>5, <1>6
  <2> QED
    BY <2>3 DEF Square
<1>14. Square({6}) = {0, 1, 3, 5, 7}
  <2>1. /\ Multiply({6}, {0}) = {6} /\ Multiply({6}, {1}) = XTime(Multiply({6}, {0}))
        /\ Multiply({6}, {2}) = XTime(Multiply({6}, {1})) /\ Multiply({6}, {3}) = XTime(Multiply({6}, {2}))
        /\ Multiply({6}, {4}) = XTime(Multiply({6}, {3})) /\ Multiply({6}, {5}) = XTime(Multiply({6}, {4}))
        /\ Multiply({6}, {6}) = XTime(Multiply({6}, {5}))
    BY <1>2
  <2>2. Multiply({6}, {3}) = {1, 2, 4, 5}
    BY ONLY <2>1, <1>3, <1>4, <1>5
  <2>3. Multiply({6}, {6}) = {0, 1, 3, 5, 7}
    BY ONLY <2>1, <2>2, <1>6, <1>7, <1>8
  <2> QED
    BY <2>3 DEF Square
<1>15. Square({7}) = {1, 3, 4, 7}
  <2>1. /\ Multiply({7}, {0}) = {7} /\ Multiply({7}, {1}) = XTime(Multiply({7}, {0}))
        /\ Multiply({7}, {2}) = XTime(Multiply({7}, {1})) /\ Multiply({7}, {3}) = XTime(Multiply({7}, {2}))
        /\ Multiply({7}, {4}) = XTime(Multiply({7}, {3})) /\ Multiply({7}, {5}) = XTime(Multiply({7}, {4}))
        /\ Multiply({7}, {6}) = XTime(Multiply({7}, {5})) /\ Multiply({7}, {7}) = XTime(Multiply({7}, {6}))
    BY <1>2
  <2>2. Multiply({7}, {4}) = {3, 4, 6, 7}
    BY ONLY <2>1, <1>4, <1>5, <1>6, <1>7
  <2>3. Multiply({7}, {7}) = {1, 3, 4, 7}
    BY ONLY <2>1, <2>2, <1>8, <1>9, <1>10
  <2> QED
    BY <2>3 DEF Square
<1>16. \A i \in 0 .. 7 : Square({i}) \in Byte
  BY <1>0, MultiplyType DEF Square
<1>17. ASSUME NEW i \in 0 .. 7 PROVE SquareIs({i}, Square({i}))
  <2>1. i = 0 \/ i = 1 \/ i = 2 \/ i = 3 \/ i = 4 \/ i = 5 \/ i = 6 \/ i = 7
    OBVIOUS
  <2>2. SquareIs({0}, {0}) /\ SquareIs({1}, {2}) /\ SquareIs({2}, {4}) /\ SquareIs({3}, {6})
    BY DEF SquareIs
  <2>3. SquareIs({4}, {0, 1, 3, 4}) /\ SquareIs({5}, {2, 3, 5, 6})
    BY DEF SquareIs
  <2>4. SquareIs({6}, {0, 1, 3, 5, 7}) /\ SquareIs({7}, {1, 3, 4, 7})
    BY DEF SquareIs
  <2> QED
    BY ONLY <1>11, <1>12, <1>13, <1>14, <1>15, <2>1, <2>2, <2>3, <2>4
<1> QED
  BY <1>16, <1>17

\* The square of any byte, from those of its bits.
LEMMA SquareBits ==
    ASSUME NEW a \in Byte
    PROVE  SquareIs(a, Square(a))
<1> DEFINE f == [b \in Byte |-> Square(b)]
           g == [b \in Byte |-> CHOOSE c \in Byte : SquareIs(b, c)]
<1>1. ASSUME NEW b \in Byte PROVE \E c \in Byte : SquareIs(b, c)
  <2> DEFINE In(i) == \/ i = 0 /\ (((0 \in b) # (4 \in b)) # (6 \in b))
                      \/ i = 1 /\ (((4 \in b) # (6 \in b)) # (7 \in b))
                      \/ i = 2 /\ ((1 \in b) # (5 \in b))
                      \/ i = 3 /\ (((4 \in b) # (5 \in b)) # ((6 \in b) # (7 \in b)))
                      \/ i = 4 /\ (((2 \in b) # (4 \in b)) # (7 \in b))
                      \/ i = 5 /\ ((5 \in b) # (6 \in b))
                      \/ i = 6 /\ ((3 \in b) # (5 \in b))
                      \/ i = 7 /\ ((6 \in b) # (7 \in b))
             c == {i \in 0 .. 7 : In(i)}
  <2>1. c \in Byte
    BY DEF Byte, Bits
  <2>2. SquareIs(b, c)
    <3>1. \A i \in 0 .. 7 : i \in c <=> In(i)
      OBVIOUS
    <3> HIDE DEF c
    <3> QED
      BY <3>1 DEF SquareIs
  <2> QED
    BY <2>1, <2>2
<1>2. ASSUME NEW b \in Byte, NEW c \in Byte, NEW d \in Byte, SquareIs(b, c), SquareIs(b, d) PROVE c = d
  <2>1. \A i \in 0 .. 7 : i \in c <=> i \in d
    BY <1>2 DEF SquareIs
  <2> QED
    BY <2>1, SameBits
<1>3. Additive(f)
  <2>1. f \in [Byte -> Byte]
    BY SquareAdds
  <2> QED
    BY <2>1, AddType, SquareAdds DEF Additive
<1>4. \A b \in Byte : g[b] \in Byte /\ SquareIs(b, g[b])
  BY <1>1
<1> HIDE DEF g
<1>5. Additive(g)
  <2>1. ASSUME NEW b \in Byte, NEW c \in Byte PROVE g[Add(b, c)] = Add(g[b], g[c])
    <3>1. /\ Add(b, c) \in Byte /\ g[b] \in Byte /\ g[c] \in Byte /\ g[Add(b, c)] \in Byte
          /\ Add(g[b], g[c]) \in Byte
      BY <1>4, AddType
    <3>2. SquareIs(b, g[b]) /\ SquareIs(c, g[c])
      BY <1>4
    <3> DEFINE d == Add(b, c)
               e == Add(g[b], g[c])
    <3>3. \A i : (i \in d <=> ((i \in b) # (i \in c))) /\ (i \in e <=> ((i \in g[b]) # (i \in g[c])))
      BY <3>1, AddBits
    <3> HIDE DEF d, e
    <3>4. SquareIs(d, e)
      BY ONLY <3>2, <3>3 DEF SquareIs
    <3>5. SquareIs(d, g[d])
      BY <1>4, <3>1 DEF d
    <3> QED
      BY <1>2, <3>1, <3>4, <3>5 DEF d, e
  <2>2. g \in [Byte -> Byte]
    BY <1>4 DEF g
  <2> QED
    BY <2>1, <2>2 DEF Additive
<1>6. \A i \in 0 .. 7 : f[{i}] = g[{i}]
  <2>1. ASSUME NEW i \in 0 .. 7 PROVE f[{i}] = g[{i}]
    <3>1. {i} \in Byte
      BY DEF Byte, Bits
    <3>2. Square({i}) \in Byte /\ SquareIs({i}, Square({i}))
      BY SquareOfBits
    <3> QED
      BY <1>2, <1>4, <3>1, <3>2
  <2> QED
    BY <2>1
<1>7. f = g
  BY <1>3, <1>5, <1>6, AdditiveExtension
<1> QED
  BY <1>4, <1>7

\* Squared eight times, a byte is itself again.
LEMMA EightSquares ==
    ASSUME NEW a \in Byte, NEW a1, NEW a2, NEW a3, NEW a4, NEW a5, NEW a6, NEW a7, NEW a8,
           a1 = Square(a), a2 = Square(a1), a3 = Square(a2), a4 = Square(a3),
           a5 = Square(a4), a6 = Square(a5), a7 = Square(a6), a8 = Square(a7)
    PROVE  a8 = a
<1>1. a1 \in Byte /\ a2 \in Byte /\ a3 \in Byte /\ a4 \in Byte
  BY SquareAdds
<1>2. a5 \in Byte /\ a6 \in Byte /\ a7 \in Byte /\ a8 \in Byte
  BY <1>1, SquareAdds
<1>3. /\ SquareIs(a, a1) /\ SquareIs(a1, a2) /\ SquareIs(a2, a3) /\ SquareIs(a3, a4)
      /\ SquareIs(a4, a5) /\ SquareIs(a5, a6) /\ SquareIs(a6, a7) /\ SquareIs(a7, a8)
  BY <1>1, <1>2, SquareBits
<1>4. \A i \in 0 .. 7 : i \in a8 <=> i \in a
  <2>0. 0 \in a8 <=> 0 \in a
    BY ONLY <1>3 DEF SquareIs
  <2>1. 1 \in a8 <=> 1 \in a
    BY ONLY <1>3 DEF SquareIs
  <2>2. 2 \in a8 <=> 2 \in a
    BY ONLY <1>3 DEF SquareIs
  <2>3. 3 \in a8 <=> 3 \in a
    BY ONLY <1>3 DEF SquareIs
  <2>4. 4 \in a8 <=> 4 \in a
    BY ONLY <1>3 DEF SquareIs
  <2>5. 5 \in a8 <=> 5 \in a
    BY ONLY <1>3 DEF SquareIs
  <2>6. 6 \in a8 <=> 6 \in a
    BY ONLY <1>3 DEF SquareIs
  <2>7. 7 \in a8 <=> 7 \in a
    BY ONLY <1>3 DEF SquareIs
  <2> QED
    BY <2>0, <2>1, <2>2, <2>3, <2>4, <2>5, <2>6, <2>7
<1> QED
  BY <1>2, <1>4, SameBits

\* The only bytes that are their own squares are zero and one.
LEMMA OwnSquare ==
    ASSUME NEW a \in Byte, Square(a) = a, a # {}
    PROVE  a = {0}
<1>1. SquareIs(a, a)
  BY SquareBits
<1>2. \A i \in 1 .. 7 : i \notin a
  <2>1. 4 \notin a /\ 6 \notin a
    BY ONLY <1>1 DEF SquareIs
  <2>2. 1 \notin a /\ 2 \notin a /\ 3 \notin a /\ 5 \notin a /\ 7 \notin a
    BY ONLY <1>1, <2>1 DEF SquareIs
  <2> QED
    BY <2>1, <2>2
<1>3. \A i \in a : i = 0
  BY <1>2 DEF Byte, Bits
<1> QED
  BY <1>3

\* What the loop of a power goes through.
PowerLoops == [e : Nat, base : Byte, result : Byte]

\* The rounds of a power, one by one.
LEMMA PowerRounds ==
    ASSUME NEW a \in Byte, NEW exp \in Nat
    PROVE  \E f : /\ f[0] = [e |-> exp, base |-> a, result |-> {0}]
                  /\ \A n \in 0 .. 7 : f[n] \in PowerLoops /\ f[n + 1] = PowerRound(f[n])
                  /\ Power(a, exp) = f[8].result
<1> DEFINE start == [e |-> exp, base |-> a, result |-> {0}]
           step  == [k \in Nat |-> [s \in PowerLoops |-> PowerRound(s)]]
           Value(f) == f = [n \in 0 .. 8 |-> IF n = 0 THEN start ELSE PowerRound(f[n - 1])]
<1>0. ASSUME NEW s \in PowerLoops PROVE PowerRound(s) \in PowerLoops
  <2>1. s.e \in Nat /\ s.base \in Byte /\ s.result \in Byte /\ s.e \div 2 \in Nat
    BY DEF PowerLoops
  <2>2. Multiply(s.base, s.base) \in Byte /\ Multiply(s.result, s.base) \in Byte
    BY <2>1, MultiplyType
  <2> QED
    BY <2>1, <2>2 DEF PowerLoops, PowerRound
<1>1. start \in PowerLoops /\ step \in [Nat -> [PowerLoops -> PowerLoops]]
  BY <1>0 DEF PowerLoops, Byte, Bits
<1>2. \E f : Goes(f, PowerLoops, start, step)
  <2> HIDE DEF start, step
  <2> QED
    BY <1>1, Recursion
<1>3. PICK g : g \in [Nat -> PowerLoops] /\ g[0] = start /\ \A k \in Nat : g[k + 1] = PowerRound(g[k])
  <2> HIDE DEF start
  <2> QED
    BY <1>2 DEF Goes
<1> HIDE DEF start
<1>4. Value([n \in 0 .. 8 |-> g[n]])
  <2>1. ASSUME NEW n \in 0 .. 8, n # 0 PROVE n - 1 \in 0 .. 8 /\ g[n] = PowerRound(g[n - 1])
    <3>1. n - 1 \in Nat /\ (n - 1) + 1 = n
      BY <2>1
    <3> QED
      BY <1>3, <3>1
  <2> QED
    BY <1>3, <2>1
<1> DEFINE after == CHOOSE f : Value(f)
<1>5. Value(after)
  BY ONLY <1>4, Zenon
<1>6. Power(a, exp) = after[8].result
  BY Zenon DEF Power, start
<1> HIDE DEF after
<1>7. after[0] = start /\ \A n \in 0 .. 7 : after[n + 1] = PowerRound(after[n])
  <2>1. ASSUME NEW n \in 0 .. 7 PROVE after[n + 1] = PowerRound(after[n])
    <3>1. n + 1 \in 0 .. 8 /\ n + 1 # 0 /\ (n + 1) - 1 = n
      OBVIOUS
    <3>2. after[n + 1] = IF n + 1 = 0 THEN start ELSE PowerRound(after[(n + 1) - 1])
      BY ONLY <1>5, <3>1, Zenon
    <3> QED
      BY <3>1, <3>2
  <2> QED
    BY <1>5, <2>1
<1>8. \A n \in 0 .. 7 : after[n] \in PowerLoops
  <2> DEFINE T == {n \in Nat : n <= 7 => after[n] \in PowerLoops}
  <2>1. 0 \in T
    BY <1>1, <1>7
  <2>2. ASSUME NEW n \in Nat, n \in T PROVE n + 1 \in T
    BY <1>0, <1>7, <2>2
  <2> HIDE DEF T
  <2>3. Nat \subseteq T
    BY <2>1, <2>2, NatSetInduction
  <2> QED
    BY <2>3 DEF T
<1> QED
  BY <1>6, <1>7, <1>8 DEF start

\* The inverse is the product of seven squares.
LEMMA InverseIsProduct ==
    ASSUME NEW a \in Byte, NEW a1, NEW a2, NEW a3, NEW a4, NEW a5, NEW a6, NEW a7,
           a1 = Square(a), a2 = Square(a1), a3 = Square(a2), a4 = Square(a3),
           a5 = Square(a4), a6 = Square(a5), a7 = Square(a6)
    PROVE  FieldInverse(a) =
             Multiply(Multiply(Multiply(Multiply(Multiply(Multiply(Multiply({0}, a1), a2), a3), a4), a5), a6), a7)
<1>1. PICK f : /\ f[0] = [e |-> 254, base |-> a, result |-> {0}]
               /\ \A n \in 0 .. 7 : f[n] \in PowerLoops /\ f[n + 1] = PowerRound(f[n])
               /\ Power(a, 254) = f[8].result
  BY PowerRounds
<1>2. ASSUME NEW s \in PowerLoops, s.e # 0
      PROVE  /\ PowerRound(s).e = s.e \div 2 /\ PowerRound(s).base = Square(s.base)
             /\ s.e % 2 = 1 => PowerRound(s).result = Multiply(s.result, s.base)
             /\ s.e % 2 # 1 => PowerRound(s).result = s.result
  BY <1>2 DEF PowerRound, Square
<1>3. /\ f[0] \in PowerLoops /\ f[1] \in PowerLoops /\ f[2] \in PowerLoops /\ f[3] \in PowerLoops
      /\ f[4] \in PowerLoops /\ f[5] \in PowerLoops /\ f[6] \in PowerLoops /\ f[7] \in PowerLoops
      /\ f[1] = PowerRound(f[0]) /\ f[2] = PowerRound(f[1]) /\ f[3] = PowerRound(f[2]) /\ f[4] = PowerRound(f[3])
      /\ f[5] = PowerRound(f[4]) /\ f[6] = PowerRound(f[5]) /\ f[7] = PowerRound(f[6]) /\ f[8] = PowerRound(f[7])
  <2>1. \A n \in 0 .. 7 : f[n] \in PowerLoops /\ f[n + 1] = PowerRound(f[n])
    BY <1>1
  <2>2. 0 + 1 = 1 /\ 1 + 1 = 2 /\ 2 + 1 = 3 /\ 3 + 1 = 4 /\ 4 + 1 = 5 /\ 5 + 1 = 6 /\ 6 + 1 = 7 /\ 7 + 1 = 8
    OBVIOUS
  <2>3. {0, 1, 2, 3, 4, 5, 6, 7} \subseteq 0 .. 7
    OBVIOUS
  <2>4. /\ f[0 + 1] = PowerRound(f[0]) /\ f[1 + 1] = PowerRound(f[1]) /\ f[2 + 1] = PowerRound(f[2])
        /\ f[3 + 1] = PowerRound(f[3]) /\ f[4 + 1] = PowerRound(f[4]) /\ f[5 + 1] = PowerRound(f[5])
        /\ f[6 + 1] = PowerRound(f[6]) /\ f[7 + 1] = PowerRound(f[7])
    BY <2>1, <2>3
  <2>5. \A n \in {0, 1, 2, 3, 4, 5, 6, 7} : f[n] \in PowerLoops
    BY <2>1, <2>3
  <2> QED
    BY ONLY <2>2, <2>4, <2>5
<1>4. f[1].e = 127 /\ f[1].base = a1 /\ f[1].result = {0}
  <2>1. f[0].e = 254 /\ f[0].base = a /\ f[0].result = {0} /\ 254 \div 2 = 127 /\ 254 % 2 # 1
    BY <1>1
  <2> QED
    BY ONLY <1>2, <1>3, <2>1, a1 = Square(a)
<1> DEFINE r2 == Multiply({0}, a1)
           r3 == Multiply(r2, a2)
           r4 == Multiply(r3, a3)
           r5 == Multiply(r4, a4)
           r6 == Multiply(r5, a5)
           r7 == Multiply(r6, a6)
           r8 == Multiply(r7, a7)
<1>5. f[2].e = 63 /\ f[2].base = a2 /\ f[2].result = r2
  <2>1. 127 \div 2 = 63 /\ 127 % 2 = 1 /\ f[1].e # 0
    BY <1>4
  <2>2. /\ f[2].e = f[1].e \div 2 /\ f[2].base = Square(f[1].base)
        /\ f[1].e % 2 = 1 => f[2].result = Multiply(f[1].result, f[1].base)
    BY ONLY <1>2, <1>3, <2>1
  <2> QED
    BY ONLY <1>4, <2>1, <2>2, a2 = Square(a1)
<1>6. f[3].e = 31 /\ f[3].base = a3 /\ f[3].result = r3
  <2>1. 63 \div 2 = 31 /\ 63 % 2 = 1
    OBVIOUS
  <2> QED
    BY ONLY <1>2, <1>3, <1>5, <2>1, a3 = Square(a2)
<1>7. f[4].e = 15 /\ f[4].base = a4 /\ f[4].result = r4
  <2>1. 31 \div 2 = 15 /\ 31 % 2 = 1
    OBVIOUS
  <2> QED
    BY ONLY <1>2, <1>3, <1>6, <2>1, a4 = Square(a3)
<1>8. f[5].e = 7 /\ f[5].base = a5 /\ f[5].result = r5
  <2>1. 15 \div 2 = 7 /\ 15 % 2 = 1
    OBVIOUS
  <2> QED
    BY ONLY <1>2, <1>3, <1>7, <2>1, a5 = Square(a4)
<1>9. f[6].e = 3 /\ f[6].base = a6 /\ f[6].result = r6
  <2>1. 7 \div 2 = 3 /\ 7 % 2 = 1
    OBVIOUS
  <2> QED
    BY ONLY <1>2, <1>3, <1>8, <2>1, a6 = Square(a5)
<1>10. f[7].e = 1 /\ f[7].base = a7 /\ f[7].result = r7
  <2>1. 3 \div 2 = 1 /\ 3 % 2 = 1
    OBVIOUS
  <2> QED
    BY ONLY <1>2, <1>3, <1>9, <2>1, a7 = Square(a6)
<1>11. f[8].result = r8
  <2>1. 1 % 2 = 1 /\ 1 # 0
    OBVIOUS
  <2> QED
    BY ONLY <1>2, <1>3, <1>10, <2>1
<1> QED
  BY <1>1, <1>11 DEF FieldInverse

\* FieldInverse is what its name says: GF256.inverse returns, for every byte but zero, the byte whose
\* product with it is one.
THEOREM InverseWorks ==
    ASSUME NEW a \in Byte
    PROVE  /\ FieldInverse(a) \in Byte
           /\ a # {} => Multiply(a, FieldInverse(a)) = {0}
<1> DEFINE a1 == Square(a)
           a2 == Square(a1)
           a3 == Square(a2)
           a4 == Square(a3)
           a5 == Square(a4)
           a6 == Square(a5)
           a7 == Square(a6)
           a8 == Square(a7)
           r2 == Multiply({0}, a1)
           r3 == Multiply(r2, a2)
           r4 == Multiply(r3, a3)
           r5 == Multiply(r4, a4)
           r6 == Multiply(r5, a5)
           r7 == Multiply(r6, a6)
           r8 == Multiply(r7, a7)
           e  == Multiply(a, r8)
<1>1. a1 \in Byte /\ a2 \in Byte /\ a3 \in Byte /\ a4 \in Byte
  BY SquareAdds
<1>2. a5 \in Byte /\ a6 \in Byte /\ a7 \in Byte
  BY <1>1, SquareAdds
<1>3. a8 = a
  BY EightSquares
<1>4. r8 = FieldInverse(a)
  BY InverseIsProduct
<1>5. r2 = a1
  <2>1. {0} \in Byte
    BY DEF Byte, Bits
  <2> QED
    BY <1>1, <2>1, MultiplyByOne, MultiplyCommutes
<1>6. /\ a2 = Square(a1) /\ a3 = Square(a2) /\ a4 = Square(a3) /\ a5 = Square(a4)
      /\ a6 = Square(a5) /\ a7 = Square(a6) /\ a8 = Square(a7)
      /\ r3 = Multiply(r2, a2) /\ r4 = Multiply(r3, a3) /\ r5 = Multiply(r4, a4)
      /\ r6 = Multiply(r5, a5) /\ r7 = Multiply(r6, a6) /\ r8 = Multiply(r7, a7) /\ e = Multiply(a, r8)
      /\ a1 = Square(a)
  OBVIOUS
<1> HIDE DEF a1, a2, a3, a4, a5, a6, a7, a8, r2, r3, r4, r5, r6, r7, r8, e
<1>7. r2 \in Byte /\ r3 \in Byte /\ r4 \in Byte /\ r5 \in Byte
  BY ONLY <1>1, <1>5, <1>6, MultiplyType
<1>8. r6 \in Byte /\ r7 \in Byte /\ r8 \in Byte /\ e \in Byte
  BY ONLY <1>1, <1>2, <1>6, <1>7, a \in Byte, MultiplyType
<1>9. ASSUME NEW r \in Byte, NEW b \in Byte, NEW s \in Byte, NEW c \in Byte,
             Multiply(a1, Square(r)) = s, c = Square(b)
      PROVE  Multiply(a1, Square(Multiply(r, b))) = Multiply(s, c)
  <2>1. Square(Multiply(r, b)) = Multiply(Square(r), c)
    BY <1>9, SquareOfProduct
  <2> QED
    BY ONLY <1>1, <1>9, <2>1, MultiplyAssociates, SquareAdds
<1>10. Multiply(a1, Square(r2)) = r3
  BY ONLY <1>5, <1>6
<1>11. Multiply(a1, Square(r3)) = r4
  BY ONLY <1>1, <1>6, <1>7, <1>9, <1>10
<1>12. Multiply(a1, Square(r4)) = r5
  BY ONLY <1>1, <1>6, <1>7, <1>9, <1>11
<1>13. Multiply(a1, Square(r5)) = r6
  BY ONLY <1>1, <1>2, <1>6, <1>7, <1>8, <1>9, <1>12
<1>14. Multiply(a1, Square(r6)) = r7
  BY ONLY <1>1, <1>2, <1>6, <1>7, <1>8, <1>9, <1>13
<1>15. Multiply(a1, Square(r7)) = r8
  BY ONLY <1>1, <1>2, <1>6, <1>7, <1>8, <1>9, <1>14
<1>16. Multiply(a1, Square(r8)) = Multiply(r8, a)
  BY ONLY <1>1, <1>2, <1>3, <1>6, <1>7, <1>8, <1>9, <1>15, a \in Byte
<1>17. Square(e) = e
  <2>1. Square(e) = Multiply(a1, Square(r8))
    BY ONLY <1>6, <1>8, SquareOfProduct, a \in Byte
  <2>2. Multiply(r8, a) = e
    BY ONLY <1>6, <1>8, MultiplyCommutes, a \in Byte
  <2> QED
    BY ONLY <1>16, <2>1, <2>2
<1>18. ASSUME NEW r \in Byte, NEW b \in Byte, Multiply(a1, r) = b
       PROVE  Multiply(a1, Multiply(r, b)) = Square(b)
  BY ONLY <1>1, <1>18, MultiplyAssociates DEF Square
<1>19. Multiply(a1, r2) = a2
  BY ONLY <1>5, <1>6 DEF Square
<1>20. Multiply(a1, r3) = a3
  BY ONLY <1>1, <1>6, <1>7, <1>18, <1>19
<1>21. Multiply(a1, r4) = a4
  BY ONLY <1>1, <1>6, <1>7, <1>18, <1>20
<1>22. Multiply(a1, r5) = a5
  BY ONLY <1>1, <1>2, <1>6, <1>7, <1>18, <1>21
<1>23. Multiply(a1, r6) = a6
  BY ONLY <1>1, <1>2, <1>6, <1>7, <1>8, <1>18, <1>22
<1>24. Multiply(a1, r7) = a7
  BY ONLY <1>1, <1>2, <1>6, <1>7, <1>8, <1>18, <1>23
<1>25. Multiply(a1, r8) = a
  BY ONLY <1>1, <1>2, <1>3, <1>6, <1>7, <1>8, <1>18, <1>24
<1>26. Multiply(a, e) = a
  <2>1. Multiply(Multiply(a, a), r8) = Multiply(a, Multiply(a, r8))
    BY ONLY <1>8, a \in Byte, MultiplyAssociates
  <2>2. Multiply(a, a) = a1 /\ e = Multiply(a, r8)
    BY ONLY <1>6 DEF Square
  <2> QED
    BY ONLY <1>25, <2>1, <2>2
<1>27. a # {} => e = {0}
  <2>1. Multiply(a, {}) = {}
    BY MultiplyZero
  <2> QED
    BY ONLY <1>8, <1>17, <1>26, <2>1, OwnSquare
<1> QED
  BY ONLY <1>4, <1>6, <1>8, <1>27

-----------------------------------------------------------------------------
\* Folds over finite sets, in any order.

\* Induction over the subsets of a finite set.
LEMMA SubsetInduction ==
    ASSUME NEW S, IsFiniteSet(S), NEW Good,
           \A s \in SUBSET S : (\A u \in s : s \ {u} \in Good) => s \in Good
    PROVE  SUBSET S \subseteq Good
<1> DEFINE T == {n \in Nat : \A s \in SUBSET S : Cardinality(s) = n => s \in Good}
<1>1. \A s \in SUBSET S : IsFiniteSet(s) /\ Cardinality(s) \in Nat
  BY FS_Subset, FS_CardinalityType
<1>2. 0 \in T
  <2>1. ASSUME NEW s \in SUBSET S, Cardinality(s) = 0 PROVE s \in Good
    <3>1. s = {}
      BY <1>1, <2>1, FS_EmptySet
    <3> QED
      BY <3>1
  <2> QED
    BY <2>1
<1>3. ASSUME NEW n \in Nat, n \in T PROVE n + 1 \in T
  <2>1. ASSUME NEW s \in SUBSET S, Cardinality(s) = n + 1 PROVE s \in Good
    <3>1. ASSUME NEW u \in s PROVE s \ {u} \in Good
      <4>1. Cardinality(s \ {u}) = Cardinality(s) - 1
        BY <1>1, FS_RemoveElement
      <4>2. s \ {u} \in SUBSET S /\ Cardinality(s \ {u}) = n
        BY <2>1, <4>1
      <4> QED
        BY <1>3, <4>2
    <3> QED
      BY <3>1
  <2> QED
    BY <2>1
<1> HIDE DEF T
<1>4. Nat \subseteq T
  BY <1>2, <1>3, NatSetInduction
<1> QED
  BY <1>1, <1>4 DEF T

\* A binary operation is a function of pairs.
App(op, a, b) == op[<<a, b>>]

\* h folds op over the values of the elements of every subset of S, as MapThenFoldSet does.
FoldsTo(h, S, T, op, base, val) ==
    /\ h \in [SUBSET S -> T]
    /\ \A s \in SUBSET S :
         h[s] = IF s = {} THEN base ELSE App(op, val[AnyOf(s)], h[s \ {AnyOf(s)}])

\* The choice from a set is in it.
LEMMA AnyOfIsIn == ASSUME NEW s, s # {} PROVE AnyOf(s) \in s
BY DEF AnyOf

\* An operation on T stays in T.
LEMMA AppType == ASSUME NEW T, NEW op \in [T \X T -> T], NEW a \in T, NEW b \in T PROVE App(op, a, b) \in T
BY DEF App

\* The recursion that defines a fold has a solution.
LEMMA FoldExists ==
    ASSUME NEW S, IsFiniteSet(S), NEW T, NEW base \in T,
           NEW op \in [T \X T -> T], NEW val \in [S -> T]
    PROVE  \E h : FoldsTo(h, S, T, op, base, val)
<1> DEFINE F    == [SUBSET S -> T]
           step == [n \in Nat |-> [g \in F |->
                       [s \in SUBSET S |-> IF s = {} THEN base ELSE App(op, val[AnyOf(s)], g[s \ {AnyOf(s)}])]]]
           a    == [s \in SUBSET S |-> base]
<1>1. a \in F
  OBVIOUS
<1>2. step \in [Nat -> [F -> F]]
  <2>1. ASSUME NEW g \in F, NEW s \in SUBSET S, s # {}
        PROVE  App(op, val[AnyOf(s)], g[s \ {AnyOf(s)}]) \in T
    <3>1. AnyOf(s) \in S /\ s \ {AnyOf(s)} \in SUBSET S
      BY <2>1, AnyOfIsIn
    <3>2. val[AnyOf(s)] \in T /\ g[s \ {AnyOf(s)}] \in T
      BY <3>1
    <3> QED
      BY <3>2, AppType
  <2> QED
    BY <2>1
<1>3. PICK f : Goes(f, F, a, step)
  <2> HIDE DEF F, step, a
  <2> QED
    BY <1>1, <1>2, Recursion
<1>4. \A n \in Nat : f[n] \in F
  BY <1>3 DEF Goes
<1>5. \A s \in SUBSET S : IsFiniteSet(s) /\ Cardinality(s) \in Nat
  BY FS_Subset, FS_CardinalityType
<1> DEFINE h == [s \in SUBSET S |-> f[Cardinality(s)][s]]
<1>6. h \in F
  BY <1>4, <1>5
<1>7. h[{}] = base
  <2>1. h[{}] = f[0][{}] /\ f[0] = a
    BY <1>3, FS_EmptySet DEF Goes
  <2> QED
    BY <2>1
<1>8. ASSUME NEW s \in SUBSET S, s # {} PROVE h[s] = App(op, val[AnyOf(s)], h[s \ {AnyOf(s)}])
  <2> DEFINE r == s \ {AnyOf(s)}
  <2>1. r \in SUBSET S /\ AnyOf(s) \in s
    BY <1>8, AnyOfIsIn
  <2>2. PICK n \in Nat : Cardinality(r) = n /\ Cardinality(s) = n + 1
    <3>1. Cardinality(r) = Cardinality(s) - 1
      BY <1>5, <2>1, FS_RemoveElement
    <3> HIDE DEF r
    <3> QED
      BY <1>5, <2>1, <3>1
  <2>3. f[n + 1] = step[n][f[n]]
    BY <1>3 DEF Goes
  <2>4. f[n] \in F
    BY <1>4
  <2>5. f[n + 1][s] = App(op, val[AnyOf(s)], f[n][r])
    BY <1>8, <2>3, <2>4
  <2>6. h[s] = f[n + 1][s] /\ h[r] = f[n][r]
    BY <2>1, <2>2
  <2> QED
    BY <2>5, <2>6
<1> HIDE DEF h
<1> QED
  BY <1>6, <1>7, <1>8 DEF FoldsTo

\* The order of two operands does not matter.
Swaps(op, T) == \A a, b, c \in T : App(op, a, App(op, b, c)) = App(op, b, App(op, a, c))

\* If the order of two operands does not matter, any element may be taken first.
LEMMA AnyFirst ==
    ASSUME NEW S, IsFiniteSet(S), NEW T, NEW base, NEW op, NEW val \in [S -> T], Swaps(op, T),
           NEW h, FoldsTo(h, S, T, op, base, val),
           NEW s \in SUBSET S, NEW u \in s
    PROVE  h[s] = App(op, val[u], h[s \ {u}])
<1> DEFINE Good == {r \in SUBSET S : \A v \in r : h[r] = App(op, val[v], h[r \ {v}])}
<1>1. ASSUME NEW r \in SUBSET S, \A v \in r : r \ {v} \in Good, NEW v \in r
      PROVE  h[r] = App(op, val[v], h[r \ {v}])
  <2> DEFINE w == AnyOf(r)
  <2>1. w \in r /\ h[r] = App(op, val[w], h[r \ {w}])
    BY AnyOfIsIn DEF FoldsTo
  <2> HIDE DEF w
  <2>2. CASE w = v
    BY <2>1, <2>2
  <2>3. CASE w # v
    <3>1. h[r \ {w}] = App(op, val[v], h[(r \ {w}) \ {v}])
      BY <1>1, <2>1, <2>3
    <3>2. h[r \ {v}] = App(op, val[w], h[(r \ {v}) \ {w}])
      BY <1>1, <2>1, <2>3
    <3>3. (r \ {w}) \ {v} = (r \ {v}) \ {w} /\ (r \ {v}) \ {w} \in SUBSET S
      OBVIOUS
    <3>4. val[v] \in T /\ val[w] \in T /\ h[(r \ {v}) \ {w}] \in T
      BY <2>1, <3>3 DEF FoldsTo
    <3>5. App(op, val[w], App(op, val[v], h[(r \ {v}) \ {w}])) = App(op, val[v], App(op, val[w], h[(r \ {v}) \ {w}]))
      BY <3>4 DEF Swaps
    <3> QED
      BY <2>1, <3>1, <3>2, <3>3, <3>5
  <2> QED
    BY <2>2, <2>3
<1>2. \A r \in SUBSET S : (\A v \in r : r \ {v} \in Good) => r \in Good
  BY <1>1
<1> HIDE DEF Good
<1>3. SUBSET S \subseteq Good
  BY <1>2, SubsetInduction
<1> QED
  BY <1>3 DEF Good

\* A fold depends on the values of the elements only.
LEMMA SameFold ==
    ASSUME NEW S, NEW R \in SUBSET S, IsFiniteSet(S), NEW T, NEW base, NEW op, NEW val \in [S -> T], NEW some \in [R -> T],
           \A i \in R : some[i] = val[i],
           NEW h, FoldsTo(h, S, T, op, base, val), NEW g, FoldsTo(g, R, T, op, base, some)
    PROVE  h[R] = g[R]
<1> DEFINE Good == {r \in SUBSET R : h[r] = g[r]}
<1>1. ASSUME NEW r \in SUBSET R, \A v \in r : r \ {v} \in Good PROVE h[r] = g[r]
  <2>1. CASE r = {}
    BY <2>1 DEF FoldsTo
  <2>2. CASE r # {}
    <3>1. AnyOf(r) \in r
      BY <2>2, AnyOfIsIn
    <3>2. h[r] = App(op, val[AnyOf(r)], h[r \ {AnyOf(r)}]) /\ g[r] = App(op, some[AnyOf(r)], g[r \ {AnyOf(r)}])
      BY <2>2 DEF FoldsTo
    <3>3. h[r \ {AnyOf(r)}] = g[r \ {AnyOf(r)}]
      BY <1>1, <3>1
    <3> QED
      BY <3>1, <3>2, <3>3
  <2> QED
    BY <2>1, <2>2
<1>2. \A r \in SUBSET R : (\A v \in r : r \ {v} \in Good) => r \in Good
  BY <1>1
<1>3. IsFiniteSet(R)
  BY FS_Subset
<1> HIDE DEF Good
<1>4. SUBSET R \subseteq Good
  BY <1>2, <1>3, SubsetInduction
<1> QED
  BY <1>4 DEF Good

-----------------------------------------------------------------------------
\* Sums and products of bytes.

AddOp      == [p \in Byte \X Byte |-> Add(p[1], p[2])]
MultiplyOp == [p \in Byte \X Byte |-> Multiply(p[1], p[2])]

\* Both operations of the field may be folded with.
LEMMA OpTypes ==
    /\ AddOp \in [Byte \X Byte -> Byte] /\ Swaps(AddOp, Byte)
    /\ MultiplyOp \in [Byte \X Byte -> Byte] /\ Swaps(MultiplyOp, Byte)
    /\ {} \in Byte /\ {0} \in Byte
    /\ \A a, b \in Byte : App(AddOp, a, b) = Add(a, b) /\ App(MultiplyOp, a, b) = Multiply(a, b)
<1>1. \A a, b \in Byte : App(AddOp, a, b) = Add(a, b) /\ App(MultiplyOp, a, b) = Multiply(a, b)
  BY DEF App, AddOp, MultiplyOp
<1>2. AddOp \in [Byte \X Byte -> Byte] /\ MultiplyOp \in [Byte \X Byte -> Byte]
  BY AddType, MultiplyType DEF AddOp, MultiplyOp
<1>3. ASSUME NEW a \in Byte, NEW b \in Byte, NEW c \in Byte
      PROVE  /\ App(AddOp, a, App(AddOp, b, c)) = App(AddOp, b, App(AddOp, a, c))
             /\ App(MultiplyOp, a, App(MultiplyOp, b, c)) = App(MultiplyOp, b, App(MultiplyOp, a, c))
  <2>1. Add(b, c) \in Byte /\ Add(a, c) \in Byte /\ Multiply(b, c) \in Byte /\ Multiply(a, c) \in Byte
    BY AddType, MultiplyType
  <2>2. Add(a, Add(b, c)) = Add(b, Add(a, c))
    BY DEF Add
  <2>3. Multiply(a, Multiply(b, c)) = Multiply(Multiply(a, b), c)
    BY ONLY a \in Byte, b \in Byte, c \in Byte, MultiplyAssociates
  <2>4. Multiply(a, b) = Multiply(b, a)
    BY ONLY a \in Byte, b \in Byte, MultiplyCommutes
  <2>5. Multiply(Multiply(b, a), c) = Multiply(b, Multiply(a, c))
    BY ONLY a \in Byte, b \in Byte, c \in Byte, MultiplyAssociates
  <2>6. App(AddOp, a, App(AddOp, b, c)) = App(AddOp, b, App(AddOp, a, c))
    <3>1. App(AddOp, b, c) = Add(b, c) /\ App(AddOp, a, c) = Add(a, c)
      BY <1>1
    <3>2. App(AddOp, a, Add(b, c)) = Add(a, Add(b, c)) /\ App(AddOp, b, Add(a, c)) = Add(b, Add(a, c))
      BY <1>1, <2>1
    <3> QED
      BY <2>2, <3>1, <3>2
  <2>7. App(MultiplyOp, a, App(MultiplyOp, b, c)) = App(MultiplyOp, b, App(MultiplyOp, a, c))
    <3>1. App(MultiplyOp, b, c) = Multiply(b, c) /\ App(MultiplyOp, a, c) = Multiply(a, c)
      BY <1>1
    <3>2. /\ App(MultiplyOp, a, Multiply(b, c)) = Multiply(a, Multiply(b, c))
          /\ App(MultiplyOp, b, Multiply(a, c)) = Multiply(b, Multiply(a, c))
      BY <1>1, <2>1
    <3> QED
      BY <2>3, <2>4, <2>5, <3>1, <3>2
  <2> QED
    BY <2>6, <2>7
<1>4. {} \in Byte /\ {0} \in Byte
  BY DEF Byte, Bits
<1>5. Swaps(AddOp, Byte) /\ Swaps(MultiplyOp, Byte)
  BY ONLY <1>3 DEF Swaps
<1> QED
  BY <1>1, <1>2, <1>4, <1>5

\* Sum is a fold of the addition.
LEMMA SumFolds ==
    ASSUME NEW S, IsFiniteSet(S), NEW f \in [S -> Byte]
    PROVE  \E h : FoldsTo(h, S, Byte, AddOp, {}, f) /\ Sum(f) = h[S]
<1> DEFINE Value(h) == h = [s \in SUBSET DOMAIN f |->
                              IF s = {} THEN {} ELSE Add(f[AnyOf(s)], h[s \ {AnyOf(s)}])]
<1>0. DOMAIN f = S
  OBVIOUS
<1>1. PICK g : FoldsTo(g, S, Byte, AddOp, {}, f)
  BY FoldExists, OpTypes
<1>2. Value(g)
  <2>1. ASSUME NEW s \in SUBSET S, s # {} PROVE g[s] = Add(f[AnyOf(s)], g[s \ {AnyOf(s)}])
    <3>1. AnyOf(s) \in S /\ s \ {AnyOf(s)} \in SUBSET S
      BY <2>1, AnyOfIsIn
    <3>2. f[AnyOf(s)] \in Byte /\ g[s \ {AnyOf(s)}] \in Byte
      BY <1>1, <3>1 DEF FoldsTo
    <3>3. g[s] = App(AddOp, f[AnyOf(s)], g[s \ {AnyOf(s)}])
      BY <1>1, <2>1 DEF FoldsTo
    <3> QED
      BY <3>2, <3>3, OpTypes
  <2> QED
    BY <1>0, <1>1, <2>1 DEF FoldsTo
<1> DEFINE iter == CHOOSE h : Value(h)
<1>3. Value(iter)
  BY ONLY <1>2, Zenon
<1>4. Sum(f) = iter[DOMAIN f]
  BY Zenon DEF Sum, MapThenFoldSet
<1> HIDE DEF iter
<1>5. iter[{}] = {} /\ \A s \in SUBSET S : s # {} => iter[s] = Add(f[AnyOf(s)], iter[s \ {AnyOf(s)}])
  BY <1>0, <1>3
<1>6. DOMAIN iter = SUBSET S
  BY <1>0, <1>3
<1> DEFINE Good == {s \in SUBSET S : iter[s] \in Byte}
<1>7. SUBSET S \subseteq Good
  <2>1. ASSUME NEW s \in SUBSET S, \A u \in s : s \ {u} \in Good PROVE iter[s] \in Byte
    <3>1. CASE s = {}
      BY <1>5, <3>1, OpTypes
    <3>2. CASE s # {}
      <4>1. AnyOf(s) \in s /\ f[AnyOf(s)] \in Byte
        BY <3>2, AnyOfIsIn
      <4>2. iter[s \ {AnyOf(s)}] \in Byte
        BY <2>1, <4>1
      <4> QED
        BY <1>5, <3>2, <4>1, <4>2, AddType
    <3> QED
      BY <3>1, <3>2
  <2>2. \A s \in SUBSET S : (\A u \in s : s \ {u} \in Good) => s \in Good
    BY <2>1
  <2> HIDE DEF Good
  <2> QED
    BY <2>2, SubsetInduction
<1>8. iter \in [SUBSET S -> Byte]
  <2>1. iter = [s \in SUBSET S |-> iter[s]]
    BY <1>0, <1>3
  <2> QED
    BY <1>7, <2>1
<1>9. ASSUME NEW s \in SUBSET S, s # {} PROVE iter[s] = App(AddOp, f[AnyOf(s)], iter[s \ {AnyOf(s)}])
  <2>1. AnyOf(s) \in S /\ s \ {AnyOf(s)} \in SUBSET S
    BY <1>9, AnyOfIsIn
  <2>2. f[AnyOf(s)] \in Byte /\ iter[s \ {AnyOf(s)}] \in Byte
    BY <1>8, <2>1
  <2> QED
    BY <1>5, <1>9, <2>2, OpTypes
<1> HIDE DEF Good
<1>10. FoldsTo(iter, S, Byte, AddOp, {}, f)
  BY <1>5, <1>8, <1>9 DEF FoldsTo
<1> QED
  BY <1>0, <1>4, <1>10

\* Product is a fold of the multiplication.
LEMMA ProductFolds ==
    ASSUME NEW S, IsFiniteSet(S), NEW f \in [S -> Byte]
    PROVE  \E h : FoldsTo(h, S, Byte, MultiplyOp, {0}, f) /\ Product(f) = h[S]
<1> DEFINE Value(h) == h = [s \in SUBSET DOMAIN f |->
                              IF s = {} THEN {0} ELSE Multiply(f[AnyOf(s)], h[s \ {AnyOf(s)}])]
<1>0. DOMAIN f = S
  OBVIOUS
<1>1. PICK g : FoldsTo(g, S, Byte, MultiplyOp, {0}, f)
  BY FoldExists, OpTypes
<1>2. Value(g)
  <2>1. ASSUME NEW s \in SUBSET S, s # {} PROVE g[s] = Multiply(f[AnyOf(s)], g[s \ {AnyOf(s)}])
    <3>1. AnyOf(s) \in S /\ s \ {AnyOf(s)} \in SUBSET S
      BY <2>1, AnyOfIsIn
    <3>2. f[AnyOf(s)] \in Byte /\ g[s \ {AnyOf(s)}] \in Byte
      BY <1>1, <3>1 DEF FoldsTo
    <3>3. g[s] = App(MultiplyOp, f[AnyOf(s)], g[s \ {AnyOf(s)}])
      BY <1>1, <2>1 DEF FoldsTo
    <3> QED
      BY <3>2, <3>3, OpTypes
  <2> QED
    BY <1>0, <1>1, <2>1 DEF FoldsTo
<1> DEFINE iter == CHOOSE h : Value(h)
<1>3. Value(iter)
  BY ONLY <1>2, Zenon
<1>4. Product(f) = iter[DOMAIN f]
  BY Zenon DEF Product, MapThenFoldSet
<1> HIDE DEF iter
<1>5. iter[{}] = {0} /\ \A s \in SUBSET S : s # {} => iter[s] = Multiply(f[AnyOf(s)], iter[s \ {AnyOf(s)}])
  BY <1>0, <1>3
<1>6. DOMAIN iter = SUBSET S
  BY <1>0, <1>3
<1> DEFINE Good == {s \in SUBSET S : iter[s] \in Byte}
<1>7. SUBSET S \subseteq Good
  <2>1. ASSUME NEW s \in SUBSET S, \A u \in s : s \ {u} \in Good PROVE iter[s] \in Byte
    <3>1. CASE s = {}
      BY <1>5, <3>1, OpTypes
    <3>2. CASE s # {}
      <4>1. AnyOf(s) \in s /\ f[AnyOf(s)] \in Byte
        BY <3>2, AnyOfIsIn
      <4>2. iter[s \ {AnyOf(s)}] \in Byte
        BY <2>1, <4>1
      <4> QED
        BY <1>5, <3>2, <4>1, <4>2, MultiplyType
    <3> QED
      BY <3>1, <3>2
  <2>2. \A s \in SUBSET S : (\A u \in s : s \ {u} \in Good) => s \in Good
    BY <2>1
  <2> HIDE DEF Good
  <2> QED
    BY <2>2, SubsetInduction
<1>8. iter \in [SUBSET S -> Byte]
  <2>1. iter = [s \in SUBSET S |-> iter[s]]
    BY <1>0, <1>3
  <2> QED
    BY <1>7, <2>1
<1>9. ASSUME NEW s \in SUBSET S, s # {} PROVE iter[s] = App(MultiplyOp, f[AnyOf(s)], iter[s \ {AnyOf(s)}])
  <2>1. AnyOf(s) \in S /\ s \ {AnyOf(s)} \in SUBSET S
    BY <1>9, AnyOfIsIn
  <2>2. f[AnyOf(s)] \in Byte /\ iter[s \ {AnyOf(s)}] \in Byte
    BY <1>8, <2>1
  <2> QED
    BY <1>5, <1>9, <2>2, OpTypes
<1> HIDE DEF Good
<1>10. FoldsTo(iter, S, Byte, MultiplyOp, {0}, f)
  BY <1>5, <1>8, <1>9 DEF FoldsTo
<1> QED
  BY <1>0, <1>4, <1>10

\* What is left of a function when an index is taken out of its domain.
Without(f, u) == [i \in DOMAIN f \ {u} |-> f[i]]

\* A sum is any of its terms and the sum of the others.
LEMMA SumSplits ==
    ASSUME NEW S, IsFiniteSet(S), NEW f \in [S -> Byte]
    PROVE  /\ Sum(f) \in Byte
           /\ S = {} => Sum(f) = {}
           /\ \A u \in S : Sum(f) = Add(f[u], Sum(Without(f, u)))
<1>1. PICK h : FoldsTo(h, S, Byte, AddOp, {}, f) /\ Sum(f) = h[S]
  BY SumFolds
<1>2. h \in [SUBSET S -> Byte] /\ h[{}] = {}
  BY <1>1 DEF FoldsTo
<1>3. ASSUME NEW u \in S PROVE Sum(f) = Add(f[u], Sum(Without(f, u)))
  <2>0. AddOp \in [Byte \X Byte -> Byte] /\ Swaps(AddOp, Byte) /\ {} \in Byte
    BY OpTypes
  <2>1. Without(f, u) \in [S \ {u} -> Byte] /\ \A i \in S \ {u} : Without(f, u)[i] = f[i]
    BY DEF Without
  <2>2. S \ {u} \in SUBSET S /\ IsFiniteSet(S \ {u})
    BY FS_Subset
  <2> DEFINE w == Without(f, u)
  <2> HIDE DEF w
  <2>3. PICK g : FoldsTo(g, S \ {u}, Byte, AddOp, {}, w) /\ Sum(w) = g[S \ {u}]
    BY <2>1, <2>2, SumFolds DEF w
  <2>4. h[S \ {u}] = g[S \ {u}]
    BY ONLY <1>1, <2>0, <2>1, <2>2, <2>3, IsFiniteSet(S), f \in [S -> Byte], SameFold, SMTT(30) DEF w
  <2>5. h[S] = App(AddOp, f[u], h[S \ {u}])
    <3>1. FoldsTo(h, S, Byte, AddOp, {}, f) /\ Swaps(AddOp, Byte)
      BY <1>1, <2>0
    <3>2. ASSUME NEW s \in SUBSET S, NEW v \in s PROVE h[s] = App(AddOp, f[v], h[s \ {v}])
      BY ONLY <3>1, IsFiniteSet(S), f \in [S -> Byte], AnyFirst
    <3> QED
      BY <3>2
  <2>6. h[S \ {u}] \in Byte /\ f[u] \in Byte
    BY <1>2
  <2>7. App(AddOp, f[u], h[S \ {u}]) = Add(f[u], h[S \ {u}])
    BY <2>6, OpTypes
  <2> QED
    BY <1>1, <2>3, <2>4, <2>5, <2>7 DEF w
<1> QED
  BY <1>1, <1>2, <1>3

\* A product is any of its factors times the product of the others.
LEMMA ProductSplits ==
    ASSUME NEW S, IsFiniteSet(S), NEW f \in [S -> Byte]
    PROVE  /\ Product(f) \in Byte
           /\ S = {} => Product(f) = {0}
           /\ \A u \in S : Product(f) = Multiply(f[u], Product(Without(f, u)))
<1>1. PICK h : FoldsTo(h, S, Byte, MultiplyOp, {0}, f) /\ Product(f) = h[S]
  BY ProductFolds
<1>2. h \in [SUBSET S -> Byte] /\ h[{}] = {0}
  BY <1>1 DEF FoldsTo
<1>3. ASSUME NEW u \in S PROVE Product(f) = Multiply(f[u], Product(Without(f, u)))
  <2>0. MultiplyOp \in [Byte \X Byte -> Byte] /\ Swaps(MultiplyOp, Byte) /\ {0} \in Byte
    BY OpTypes
  <2>1. Without(f, u) \in [S \ {u} -> Byte] /\ \A i \in S \ {u} : Without(f, u)[i] = f[i]
    BY DEF Without
  <2>2. S \ {u} \in SUBSET S /\ IsFiniteSet(S \ {u})
    BY FS_Subset
  <2> DEFINE w == Without(f, u)
  <2> HIDE DEF w
  <2>3. PICK g : FoldsTo(g, S \ {u}, Byte, MultiplyOp, {0}, w) /\ Product(w) = g[S \ {u}]
    BY <2>1, <2>2, ProductFolds DEF w
  <2>4. h[S \ {u}] = g[S \ {u}]
    BY ONLY <1>1, <2>0, <2>1, <2>2, <2>3, IsFiniteSet(S), f \in [S -> Byte], SameFold, SMTT(30) DEF w
  <2>5. h[S] = App(MultiplyOp, f[u], h[S \ {u}])
    <3> DEFINE one == {0}
    <3>1. FoldsTo(h, S, Byte, MultiplyOp, one, f) /\ Swaps(MultiplyOp, Byte)
      BY <1>1, <2>0
    <3> HIDE DEF one
    <3>2. ASSUME NEW s \in SUBSET S, NEW v \in s PROVE h[s] = App(MultiplyOp, f[v], h[s \ {v}])
      BY ONLY <3>1, IsFiniteSet(S), f \in [S -> Byte], AnyFirst
    <3> QED
      BY <3>2
  <2>6. h[S \ {u}] \in Byte /\ f[u] \in Byte
    BY <1>2
  <2>7. App(MultiplyOp, f[u], h[S \ {u}]) = Multiply(f[u], h[S \ {u}])
    BY <2>6, OpTypes
  <2> QED
    BY <1>1, <2>3, <2>4, <2>5, <2>7 DEF w
<1> QED
  BY <1>1, <1>2, <1>3

-----------------------------------------------------------------------------
\* Polynomials, as the functions they compute.

\* A product is zero only if a factor is.
LEMMA NoZeroDivisors ==
    ASSUME NEW a \in Byte, NEW b \in Byte, Multiply(a, b) = {}
    PROVE  a = {} \/ b = {}
<1> SUFFICES ASSUME a # {} PROVE b = {}
  OBVIOUS
<1> DEFINE i == FieldInverse(a)
<1>1. i \in Byte /\ Multiply(a, i) = {0}
  BY InverseWorks
<1> HIDE DEF i
<1>2. Multiply(i, Multiply(a, b)) = Multiply(Multiply(i, a), b)
  BY <1>1, MultiplyAssociates
<1>3. Multiply(i, a) = {0}
  BY <1>1, MultiplyCommutes
<1>4. Multiply({0}, b) = b
  BY MultiplyByOne, MultiplyCommutes, OpTypes
<1> QED
  BY <1>1, <1>2, <1>3, <1>4, MultiplyZero

\* A difference is zero only between equals.
LEMMA AddCancels ==
    ASSUME NEW a \in Byte, NEW b \in Byte PROVE Add(a, b) = {} <=> a = b
BY DEF Add

-----------------------------------------------------------------------------
\* The functions that a polynomial of n coefficients computes: Poly(n + 1) are those of the form
\* c + x g(x), with g of n.
Zero     == [x \in Byte |-> {}]
Above(Q) == {f \in [Byte -> Byte] :
                \E c \in Byte, g \in Q : \A x \in Byte : f[x] = Add(c, Multiply(x, g[x]))}
Polys    == CHOOSE P : Goes(P, SUBSET [Byte -> Byte], {Zero},
                            [n \in Nat |-> [Q \in SUBSET [Byte -> Byte] |-> Above(Q)]])
Poly(n)  == Polys[n]

\* The polynomials of no coefficient, and those of one more than n.
LEMMA PolyLevels ==
    /\ Poly(0) = {Zero}
    /\ \A n \in Nat : Poly(n) \in SUBSET [Byte -> Byte] /\ Poly(n + 1) = Above(Poly(n))
<1> DEFINE S    == SUBSET [Byte -> Byte]
           step == [n \in Nat |-> [Q \in S |-> Above(Q)]]
<1>1. {Zero} \in S
  BY OpTypes DEF Zero
<1>2. \A Q \in S : Above(Q) \in S
  BY DEF Above
<1>3. step \in [Nat -> [S -> S]]
  BY <1>2
<1>4. \E P : Goes(P, S, {Zero}, step)
  <2> HIDE DEF S, step
  <2> QED
    BY <1>1, <1>3, Recursion
<1>5. Goes(Polys, S, {Zero}, step)
  BY <1>4, Zenon DEF Polys
<1>6. Polys \in [Nat -> S] /\ Polys[0] = {Zero} /\ \A n \in Nat : Polys[n + 1] = step[n][Polys[n]]
  BY <1>5, Zenon DEF Goes
<1>7. ASSUME NEW n \in Nat PROVE step[n][Polys[n]] = Above(Polys[n])
  <2>1. Polys[n] \in S
    BY <1>6
  <2> QED
    BY <2>1
<1> QED
  BY <1>6, <1>7 DEF Poly

\* A polynomial has a lowest coefficient, and the rest is x times one of a coefficient less.
LEMMA PolyIs ==
    ASSUME NEW n \in Nat, NEW f \in Poly(n + 1)
    PROVE  /\ f \in [Byte -> Byte]
           /\ \E c \in Byte, g \in Poly(n) : \A x \in Byte : f[x] = Add(c, Multiply(x, g[x]))
BY PolyLevels DEF Above

\* Whatever is of that form is a polynomial.
LEMMA IsPoly ==
    ASSUME NEW n \in Nat, NEW f \in [Byte -> Byte], NEW c \in Byte, NEW g \in Poly(n),
           \A x \in Byte : f[x] = Add(c, Multiply(x, g[x]))
    PROVE  f \in Poly(n + 1)
BY PolyLevels DEF Above

\* A polynomial is a function on bytes.
LEMMA PolyType == ASSUME NEW n \in Nat, NEW f \in Poly(n), NEW x \in Byte PROVE f \in [Byte -> Byte] /\ f[x] \in Byte
BY PolyLevels

\* Zero is a polynomial of any number of coefficients.
LEMMA ZeroIsPoly == \A n \in Nat : Zero \in Poly(n)
<1> DEFINE T == {n \in Nat : Zero \in Poly(n)}
<1>1. 0 \in T
  BY PolyLevels
<1>2. ASSUME NEW n \in Nat, n \in T PROVE n + 1 \in T
  <2>1. {} \in Byte /\ Zero \in [Byte -> Byte]
    BY OpTypes DEF Zero
  <2>2. \A x \in Byte : Zero[x] = {} /\ Multiply(x, {}) = {} /\ Add({}, {}) = {}
    BY <2>1, MultiplyZero, AddLaws DEF Zero
  <2>3. \A x \in Byte : Zero[x] = Add({}, Multiply(x, Zero[x]))
    BY <2>2
  <2>4. Zero \in Poly(n)
    BY <1>2
  <2>5. Zero \in Poly(n + 1)
    BY ONLY <2>1, <2>3, <2>4, n \in Nat, IsPoly
  <2> QED
    BY <2>5
<1> HIDE DEF T
<1>3. Nat \subseteq T
  BY <1>1, <1>2, NatSetInduction
<1> QED
  BY <1>3 DEF T

\* The sum of two polynomials is one.
LEMMA PolyAdds ==
    ASSUME NEW n \in Nat, NEW f \in Poly(n), NEW g \in Poly(n), NEW h \in [Byte -> Byte],
           \A x \in Byte : h[x] = Add(f[x], g[x])
    PROVE  h \in Poly(n)
<1> DEFINE Plus(a, b) == [x \in Byte |-> Add(a[x], b[x])]
           T == {k \in Nat : \A a, b \in Poly(k) : Plus(a, b) \in Poly(k)}
<1>1. 0 \in T
  <2>1. ASSUME NEW a \in Poly(0), NEW b \in Poly(0) PROVE Plus(a, b) \in Poly(0)
    <3>1. a = Zero /\ b = Zero
      BY PolyLevels
    <3>2. \A x \in Byte : Add(Zero[x], Zero[x]) = {}
      BY DEF Zero, Add
    <3>3. Plus(a, b) = Zero
      BY <3>1, <3>2 DEF Zero
    <3> QED
      BY <3>3, PolyLevels
  <2> QED
    BY <2>1
<1>2. ASSUME NEW k \in Nat, k \in T PROVE k + 1 \in T
  <2>1. ASSUME NEW a \in Poly(k + 1), NEW b \in Poly(k + 1) PROVE Plus(a, b) \in Poly(k + 1)
    <3>1. PICK c \in Byte, p \in Poly(k) : \A x \in Byte : a[x] = Add(c, Multiply(x, p[x]))
      BY PolyIs
    <3>2. PICK d \in Byte, q \in Poly(k) : \A x \in Byte : b[x] = Add(d, Multiply(x, q[x]))
      BY PolyIs
    <3>3. Plus(p, q) \in Poly(k) /\ Add(c, d) \in Byte
      BY <1>2, AddType
    <3>4. ASSUME NEW x \in Byte
          PROVE  /\ Plus(a, b)[x] = Add(Add(c, d), Multiply(x, Plus(p, q)[x]))
                 /\ Plus(a, b)[x] \in Byte
      <4>1. p[x] \in Byte /\ q[x] \in Byte
        BY PolyType
      <4>2. Multiply(x, p[x]) \in Byte /\ Multiply(x, q[x]) \in Byte
        BY <4>1, MultiplyType
      <4>3. Multiply(x, Add(p[x], q[x])) = Add(Multiply(x, p[x]), Multiply(x, q[x]))
        BY <4>1, MultiplyAddsRight
      <4>4. /\ Add(Add(c, Multiply(x, p[x])), Add(d, Multiply(x, q[x])))
                 = Add(Add(c, d), Add(Multiply(x, p[x]), Multiply(x, q[x])))
            /\ Add(Multiply(x, p[x]), Multiply(x, q[x])) \in Byte
        BY <4>2, FourSum, AddType
      <4>5. Add(Add(c, d), Add(Multiply(x, p[x]), Multiply(x, q[x]))) \in Byte
        BY <3>3, <4>4, AddType
      <4>6. Plus(a, b)[x] = Add(a[x], b[x]) /\ Plus(p, q)[x] = Add(p[x], q[x])
        OBVIOUS
      <4> HIDE DEF Plus
      <4> QED
        BY <3>1, <3>2, <4>3, <4>4, <4>5, <4>6
    <3>5. Plus(a, b) \in [Byte -> Byte]
      BY <3>4
    <3> HIDE DEF Plus
    <3> QED
      BY <3>3, <3>4, <3>5, IsPoly
  <2> QED
    BY <2>1
<1> HIDE DEF T
<1>3. Nat \subseteq T
  BY <1>1, <1>2, NatSetInduction
<1>4. Plus(f, g) \in Poly(n)
  BY <1>3 DEF T
<1>5. h = Plus(f, g)
  OBVIOUS
<1> QED
  BY <1>4, <1>5

\* A polynomial times a constant is one.
LEMMA PolyScales ==
    ASSUME NEW n \in Nat, NEW f \in Poly(n), NEW s \in Byte, NEW h \in [Byte -> Byte],
           \A x \in Byte : h[x] = Multiply(s, f[x])
    PROVE  h \in Poly(n)
<1> DEFINE Times(a) == [x \in Byte |-> Multiply(s, a[x])]
           T == {k \in Nat : \A a \in Poly(k) : Times(a) \in Poly(k)}
<1>1. 0 \in T
  <2>1. ASSUME NEW a \in Poly(0) PROVE Times(a) \in Poly(0)
    <3>1. a = Zero
      BY PolyLevels
    <3>2. \A x \in Byte : Multiply(s, Zero[x]) = {}
      BY MultiplyZero DEF Zero
    <3>3. Times(a) = Zero
      BY <3>1, <3>2 DEF Zero
    <3> QED
      BY <3>3, PolyLevels
  <2> QED
    BY <2>1
<1>2. ASSUME NEW k \in Nat, k \in T PROVE k + 1 \in T
  <2>1. ASSUME NEW a \in Poly(k + 1) PROVE Times(a) \in Poly(k + 1)
    <3>1. PICK c \in Byte, p \in Poly(k) : \A x \in Byte : a[x] = Add(c, Multiply(x, p[x]))
      BY PolyIs
    <3>2. Times(p) \in Poly(k) /\ Multiply(s, c) \in Byte
      BY <1>2, MultiplyType
    <3>3. ASSUME NEW x \in Byte
          PROVE  /\ Times(a)[x] = Add(Multiply(s, c), Multiply(x, Times(p)[x]))
                 /\ Times(a)[x] \in Byte
      <4>1. p[x] \in Byte
        BY PolyType
      <4>2. Multiply(x, p[x]) \in Byte
        BY ONLY <4>1, x \in Byte, MultiplyType
      <4>2a. k + 1 \in Nat
        OBVIOUS
      <4>2b. a[x] \in Byte
        BY ONLY <4>2a, a \in Poly(k + 1), x \in Byte, PolyType
      <4>3. Multiply(s, Add(c, Multiply(x, p[x]))) = Add(Multiply(s, c), Multiply(s, Multiply(x, p[x])))
        BY <4>2, MultiplyAddsRight
      <4>4. Multiply(s, Multiply(x, p[x])) = Multiply(x, Multiply(s, p[x]))
        <5>1. Multiply(Multiply(s, x), p[x]) = Multiply(s, Multiply(x, p[x]))
          BY ONLY <4>1, s \in Byte, x \in Byte, MultiplyAssociates
        <5>2. Multiply(Multiply(x, s), p[x]) = Multiply(x, Multiply(s, p[x]))
          BY ONLY <4>1, s \in Byte, x \in Byte, MultiplyAssociates
        <5>3. Multiply(s, x) = Multiply(x, s)
          BY ONLY s \in Byte, x \in Byte, MultiplyCommutes
        <5> QED
          BY <5>1, <5>2, <5>3
      <4>5. Times(a)[x] = Multiply(s, a[x]) /\ Times(p)[x] = Multiply(s, p[x])
        OBVIOUS
      <4>6. Multiply(s, a[x]) \in Byte
        BY <4>2b, MultiplyType
      <4> HIDE DEF Times
      <4> QED
        BY <3>1, <4>3, <4>4, <4>5, <4>6
    <3>4. Times(a) \in [Byte -> Byte]
      BY <3>3
    <3> HIDE DEF Times
    <3> QED
      BY <3>2, <3>3, <3>4, IsPoly
  <2> QED
    BY <2>1
<1> HIDE DEF T
<1>3. Nat \subseteq T
  BY <1>1, <1>2, NatSetInduction
<1>4. Times(f) \in Poly(n)
  BY <1>3 DEF T
<1>5. h = Times(f)
  OBVIOUS
<1> QED
  BY <1>4, <1>5

\* A polynomial of n coefficients is one of n + 1.
LEMMA PolyGrows == \A n \in Nat : Poly(n) \subseteq Poly(n + 1)
<1> DEFINE T == {n \in Nat : Poly(n) \subseteq Poly(n + 1)}
<1>1. 0 \in T
  BY PolyLevels, ZeroIsPoly
<1>2. ASSUME NEW n \in Nat, n \in T PROVE n + 1 \in T
  <2>1. ASSUME NEW f \in Poly(n + 1) PROVE f \in Poly((n + 1) + 1)
    <3>1. f \in [Byte -> Byte]
      BY PolyIs
    <3>2. PICK c \in Byte, g \in Poly(n) : \A x \in Byte : f[x] = Add(c, Multiply(x, g[x]))
      BY PolyIs
    <3>3. g \in Poly(n + 1) /\ n + 1 \in Nat
      BY <1>2
    <3> QED
      BY <3>1, <3>2, <3>3, IsPoly
  <2> QED
    BY <2>1
<1> HIDE DEF T
<1>3. Nat \subseteq T
  BY <1>1, <1>2, NatSetInduction
<1> QED
  BY <1>3 DEF T

\* One factor more makes one coefficient more.
LEMMA PolyTimesX ==
    ASSUME NEW n \in Nat, NEW f \in Poly(n), NEW h \in [Byte -> Byte],
           \A x \in Byte : h[x] = Multiply(x, f[x])
    PROVE  h \in Poly(n + 1)
<1>1. \A x \in Byte : h[x] = Add({}, Multiply(x, f[x]))
  BY PolyType, MultiplyType, AddLaws, OpTypes
<1> QED
  BY <1>1, IsPoly, OpTypes

\* A factor x - a makes one coefficient more.
LEMMA PolyTimesFactor ==
    ASSUME NEW n \in Nat, NEW f \in Poly(n), NEW a \in Byte, NEW h \in [Byte -> Byte],
           \A x \in Byte : h[x] = Multiply(Add(x, a), f[x])
    PROVE  h \in Poly(n + 1)
<1> DEFINE p == [x \in Byte |-> Multiply(x, f[x])]
           q == [x \in Byte |-> Multiply(a, f[x])]
<1>1. \A x \in Byte : f[x] \in Byte /\ Multiply(x, f[x]) \in Byte /\ Multiply(a, f[x]) \in Byte
  BY PolyType, MultiplyType
<1>2. p \in [Byte -> Byte] /\ q \in [Byte -> Byte]
  BY <1>1
<1>3. p \in Poly(n + 1)
  BY <1>2, PolyTimesX
<1>4. q \in Poly(n + 1)
  BY <1>2, PolyScales, PolyGrows
<1>5. \A x \in Byte : Multiply(Add(x, a), f[x]) = Add(Multiply(x, f[x]), Multiply(a, f[x]))
  <2>1. ASSUME NEW x \in Byte PROVE Multiply(Add(x, a), f[x]) = Add(Multiply(x, f[x]), Multiply(a, f[x]))
    <3>1. f[x] \in Byte
      BY <1>1
    <3> QED
      BY ONLY <3>1, x \in Byte, a \in Byte, MultiplyAddsLeft
  <2> QED
    BY <2>1
<1>6. \A x \in Byte : h[x] = Add(p[x], q[x])
  BY <1>5
<1> HIDE DEF p, q
<1> QED
  BY <1>3, <1>4, <1>6, PolyAdds

\* Division by a factor: f(x) = f(u) + (x - u) g(x), with g of one coefficient less.
LEMMA PolyDivides ==
    ASSUME NEW n \in Nat, NEW f \in Poly(n + 1), NEW u \in Byte
    PROVE  \E g \in Poly(n) : \A x \in Byte : f[x] = Add(f[u], Multiply(Add(x, u), g[x]))
<1> DEFINE Divides(g, p) == \A x \in Byte : p[x] = Add(p[u], Multiply(Add(x, u), g[x]))
           T == {k \in Nat : \A p \in Poly(k + 1) : \E g \in Poly(k) : Divides(g, p)}
<1>1. 0 \in T
  <2>1. ASSUME NEW p \in Poly(0 + 1) PROVE Divides(Zero, p)
    <3>1. PICK c \in Byte, g \in Poly(0) : \A x \in Byte : p[x] = Add(c, Multiply(x, g[x]))
      BY PolyIs
    <3>2. \A x \in Byte : g[x] = {} /\ Zero[x] = {}
      BY PolyLevels DEF Zero
    <3>3. \A x \in Byte : Multiply(x, {}) = {} /\ Add(x, {}) = x
      BY MultiplyZero, AddLaws
    <3>4. \A x \in Byte : p[x] = c
      BY <3>1, <3>2, <3>3
    <3>5. ASSUME NEW x \in Byte PROVE p[x] = Add(p[u], Multiply(Add(x, u), Zero[x]))
      <4>1. Multiply(Add(x, u), {}) = {}
        BY AddType, <3>3
      <4> QED
        BY <3>2, <3>3, <3>4, <4>1
    <3> QED
      BY <3>5
  <2> HIDE DEF Divides
  <2> QED
    BY <2>1, PolyLevels
<1>2. ASSUME NEW k \in Nat, k \in T PROVE k + 1 \in T
  <2>1. ASSUME NEW p \in Poly((k + 1) + 1) PROVE \E g \in Poly(k + 1) : Divides(g, p)
    <3>1. PICK c \in Byte, h \in Poly(k + 1) : \A x \in Byte : p[x] = Add(c, Multiply(x, h[x]))
      BY PolyIs
    <3>2. PICK g \in Poly(k) : \A x \in Byte : h[x] = Add(h[u], Multiply(Add(x, u), g[x]))
      BY <1>2
    <3> DEFINE r == [x \in Byte |-> Add(h[u], Multiply(x, g[x]))]
    <3>3. h[u] \in Byte /\ \A x \in Byte : h[x] \in Byte /\ g[x] \in Byte /\ Multiply(x, g[x]) \in Byte
      BY PolyType, MultiplyType
    <3>4. r \in [Byte -> Byte] /\ \A x \in Byte : r[x] = Add(h[u], Multiply(x, g[x]))
      BY <3>3, AddType
    <3>5. r \in Poly(k + 1)
      <4> HIDE DEF r
      <4> QED
        BY <3>3, <3>4, IsPoly
    <3>6. ASSUME NEW x \in Byte PROVE p[x] = Add(p[u], Multiply(Add(x, u), r[x]))
      <4> DEFINE d  == Add(x, u)
                 w  == h[u]
                 y  == g[x]
                 xy == Multiply(x, y)
      <4>1. d \in Byte /\ w \in Byte /\ y \in Byte /\ xy \in Byte
        BY <3>3, AddType
      <4>2. p[x] = Add(c, Multiply(x, Add(w, Multiply(d, y)))) /\ p[u] = Add(c, Multiply(u, w)) /\ r[x] = Add(w, xy)
        BY <3>1, <3>2, <3>4
      <4>3. Multiply(d, w) = Add(Multiply(x, w), Multiply(u, w))
        BY <4>1, MultiplyAddsLeft
      <4> HIDE DEF d, w, y
      <4>4. Multiply(d, y) \in Byte /\ Multiply(x, w) \in Byte /\ Multiply(u, w) \in Byte
        BY <4>1, MultiplyType
      <4>5. Multiply(x, Add(w, Multiply(d, y))) = Add(Multiply(x, w), Multiply(x, Multiply(d, y)))
        BY <4>1, <4>4, MultiplyAddsRight
      <4>6. Multiply(x, Multiply(d, y)) = Multiply(d, xy)
        <5>1. Multiply(Multiply(x, d), y) = Multiply(x, Multiply(d, y))
          BY ONLY <4>1, x \in Byte, MultiplyAssociates
        <5>2. Multiply(Multiply(d, x), y) = Multiply(d, Multiply(x, y))
          BY ONLY <4>1, x \in Byte, MultiplyAssociates
        <5>3. Multiply(d, x) = Multiply(x, d)
          BY ONLY <4>1, x \in Byte, MultiplyCommutes
        <5> QED
          BY <5>1, <5>2, <5>3
      <4>7. Multiply(d, Add(w, xy)) = Add(Multiply(d, w), Multiply(d, xy)) /\ Multiply(d, xy) \in Byte
        BY <4>1, MultiplyAddsRight, MultiplyType
      <4>8. ASSUME NEW a \in Byte, NEW b \in Byte, NEW e \in Byte
            PROVE  Add(c, Add(a, e)) = Add(Add(c, b), Add(Add(a, b), e))
        BY DEF Add
      <4> HIDE DEF xy
      <4>9. Add(c, Add(Multiply(x, w), Multiply(d, xy)))
              = Add(Add(c, Multiply(u, w)), Add(Add(Multiply(x, w), Multiply(u, w)), Multiply(d, xy)))
        BY <4>4, <4>7, <4>8
      <4> QED
        BY <4>2, <4>3, <4>5, <4>6, <4>7, <4>9 DEF d
    <3> HIDE DEF r
    <3> QED
      BY <3>5, <3>6
  <2> HIDE DEF Divides
  <2> QED
    BY <2>1
<1> HIDE DEF T
<1>3. Nat \subseteq T
  BY <1>1, <1>2, NatSetInduction
<1> QED
  BY <1>3 DEF T

-----------------------------------------------------------------------------
\* Roots, sums and products of polynomials.

\* A polynomial with as many roots as coefficients is zero.
LEMMA Roots ==
    ASSUME NEW D, IsFiniteSet(D), NEW at \in [D -> Byte], \A i, j \in D : at[i] = at[j] => i = j,
           NEW f \in Poly(Cardinality(D)), \A i \in D : f[at[i]] = {}
    PROVE  \A x \in Byte : f[x] = {}
<1> DEFINE Rooted(s, p) == p \in Poly(Cardinality(s)) /\ \A i \in s : p[at[i]] = {}
           Good == {s \in SUBSET D : \A p : Rooted(s, p) => \A x \in Byte : p[x] = {}}
<1>1. ASSUME NEW s \in SUBSET D, \A u \in s : s \ {u} \in Good PROVE s \in Good
  <2>1. SUFFICES ASSUME NEW p, Rooted(s, p), NEW x \in Byte PROVE p[x] = {}
    OBVIOUS
  <2>2. CASE s = {}
    BY <2>1, <2>2, FS_EmptySet, PolyLevels DEF Zero
  <2>3. CASE s # {}
    <3>1. PICK u \in s : TRUE
      BY <2>3
    <3>2. PICK n \in Nat : Cardinality(s) = n + 1 /\ Cardinality(s \ {u}) = n
      <4>1. IsFiniteSet(s)
        BY FS_Subset
      <4>2. Cardinality(s) \in Nat /\ Cardinality(s \ {u}) \in Nat /\ Cardinality(s \ {u}) = Cardinality(s) - 1
        BY <4>1, <3>1, FS_RemoveElement, FS_CardinalityType
      <4> QED
        BY <4>2
    <3>3. p \in Poly(n + 1) /\ at[u] \in Byte /\ p[at[u]] = {}
      BY <2>1, <3>2
    <3>4. PICK g \in Poly(n) : \A y \in Byte : p[y] = Add(p[at[u]], Multiply(Add(y, at[u]), g[y]))
      BY ONLY <3>3, n \in Nat, PolyDivides
    <3>5. ASSUME NEW y \in Byte PROVE p[y] = Multiply(Add(y, at[u]), g[y])
      <4>1. Add(y, at[u]) \in Byte /\ g[y] \in Byte
        BY <3>3, AddType, PolyType
      <4>2. Multiply(Add(y, at[u]), g[y]) \in Byte
        BY <4>1, MultiplyType
      <4> QED
        BY <3>3, <3>4, <4>2, AddLaws
    <3>6. ASSUME NEW i \in s \ {u} PROVE g[at[i]] = {}
      <4>1. at[i] \in Byte /\ at[i] # at[u] /\ p[at[i]] = {}
        BY <2>1, <3>1
      <4>2. Add(at[i], at[u]) \in Byte /\ Add(at[i], at[u]) # {} /\ g[at[i]] \in Byte
        BY <3>3, <4>1, AddType, AddCancels, PolyType
      <4>3. Multiply(Add(at[i], at[u]), g[at[i]]) = {}
        BY <3>5, <4>1
      <4> QED
        BY <4>2, <4>3, NoZeroDivisors
    <3>7. Rooted(s \ {u}, g) /\ s \ {u} \in Good
      BY <1>1, <3>2, <3>6
    <3>8. g[x] = {}
      BY <3>7
    <3>9. Multiply(Add(x, at[u]), {}) = {}
      BY <3>3, AddType, MultiplyZero
    <3> QED
      BY <3>5, <3>8, <3>9
  <2> QED
    BY <2>2, <2>3
<1>2. \A s \in SUBSET D : (\A u \in s : s \ {u} \in Good) => s \in Good
  BY <1>1
<1>3. D \in Good
  <2> HIDE DEF Good
  <2>1. SUBSET D \subseteq Good
    BY <1>2, SubsetInduction
  <2> QED
    BY <2>1
<1> QED
  BY <1>3

\* Two polynomials that agree at as many points as they have coefficients are the same.
LEMMA PolyAgree ==
    ASSUME NEW D, IsFiniteSet(D), NEW at \in [D -> Byte], \A i, j \in D : at[i] = at[j] => i = j,
           NEW f \in Poly(Cardinality(D)), NEW g \in Poly(Cardinality(D)),
           \A i \in D : f[at[i]] = g[at[i]]
    PROVE  \A x \in Byte : f[x] = g[x]
<1> DEFINE n == Cardinality(D)
           h == [x \in Byte |-> Add(f[x], g[x])]
<1>1. n \in Nat
  BY FS_CardinalityType
<1>2. \A x \in Byte : f[x] \in Byte /\ g[x] \in Byte
  BY <1>1, PolyType
<1>3. h \in [Byte -> Byte]
  BY <1>2, AddType
<1>4. h \in Poly(n)
  <2> HIDE DEF n
  <2>1. f \in Poly(n) /\ g \in Poly(n)
    BY DEF n
  <2> QED
    BY <1>1, <1>3, <2>1, PolyAdds
<1>5. \A i \in D : h[at[i]] = {}
  BY <1>2, AddCancels
<1>6. \A x \in Byte : h[x] = {}
  <2> HIDE DEF h
  <2> QED
    BY <1>4, <1>5, Roots
<1> QED
  BY <1>2, <1>6, AddCancels

-----------------------------------------------------------------------------
\* A product of n factors x - a has n + 1 coefficients.
LEMMA ProductIsPoly ==
    ASSUME NEW D, IsFiniteSet(D), NEW at \in [D -> Byte]
    PROVE  [x \in Byte |-> Product([j \in D |-> Add(x, at[j])])] \in Poly(Cardinality(D) + 1)
<1> DEFINE Factors(s, x) == [j \in s |-> Add(x, at[j])]
           F(s) == [x \in Byte |-> Product(Factors(s, x))]
           Good == {s \in SUBSET D : F(s) \in Poly(Cardinality(s) + 1)}
<1>0. ASSUME NEW s \in SUBSET D, NEW x \in Byte
      PROVE  /\ IsFiniteSet(s) /\ Factors(s, x) \in [s -> Byte] /\ Product(Factors(s, x)) \in Byte
             /\ s = {} => Product(Factors(s, x)) = {0}
             /\ \A u \in s : Product(Factors(s, x)) = Multiply(Add(x, at[u]), Product(Factors(s \ {u}, x)))
  <2>1. IsFiniteSet(s) /\ Factors(s, x) \in [s -> Byte]
    BY FS_Subset, AddType
  <2>2. \A u \in s : Factors(s, x)[u] = Add(x, at[u]) /\ Without(Factors(s, x), u) = Factors(s \ {u}, x)
    BY DEF Without
  <2> HIDE DEF Factors
  <2> QED
    BY <2>1, <2>2, ProductSplits
<1> HIDE DEF Factors
<1>1. ASSUME NEW s \in SUBSET D, \A u \in s : s \ {u} \in Good PROVE s \in Good
  <2>1. F(s) \in [Byte -> Byte]
    BY <1>0
  <2>2. CASE s = {}
    <3>1. \A x \in Byte : F(s)[x] = Add({0}, Multiply(x, Zero[x]))
      <4>1. \A x \in Byte : F(s)[x] = {0} /\ Zero[x] = {} /\ Multiply(x, {}) = {} /\ Add({0}, {}) = {0}
        BY <1>0, <2>2, MultiplyZero, AddLaws, OpTypes DEF Zero
      <4> QED
        BY <4>1
    <3> HIDE DEF F
    <3>2. Zero \in Poly(0) /\ {0} \in Byte
      BY ZeroIsPoly, OpTypes
    <3>3. F(s) \in Poly(0 + 1)
      BY <2>1, <3>1, <3>2, IsPoly
    <3> QED
      BY <2>2, <3>3, FS_EmptySet
  <2>3. CASE s # {}
    <3>1. PICK u \in s : TRUE
      BY <2>3
    <3>2. PICK n \in Nat : Cardinality(s) = n + 1 /\ Cardinality(s \ {u}) = n
      <4>1. IsFiniteSet(s)
        BY FS_Subset
      <4>2. Cardinality(s) \in Nat /\ Cardinality(s \ {u}) \in Nat /\ Cardinality(s \ {u}) = Cardinality(s) - 1
        BY <4>1, <3>1, FS_RemoveElement, FS_CardinalityType
      <4> QED
        BY <4>2
    <3>3. F(s \ {u}) \in Poly(n + 1)
      BY <1>1, <3>2
    <3>4. \A x \in Byte : F(s)[x] = Multiply(Add(x, at[u]), F(s \ {u})[x])
      BY <1>0
    <3>5. at[u] \in Byte /\ n + 1 \in Nat
      OBVIOUS
    <3> HIDE DEF F
    <3>6. F(s) \in Poly((n + 1) + 1)
      BY ONLY <2>1, <3>3, <3>4, <3>5, PolyTimesFactor
    <3> QED
      BY <3>2, <3>6
  <2> QED
    BY <2>2, <2>3
<1>2. \A s \in SUBSET D : (\A u \in s : s \ {u} \in Good) => s \in Good
  BY <1>1
<1>3. D \in Good
  <2> HIDE DEF Good
  <2>1. SUBSET D \subseteq Good
    BY <1>2, SubsetInduction
  <2> QED
    BY <2>1
<1> QED
  BY <1>3 DEF Factors

\* A sum of polynomials is one.
LEMMA SumIsPoly ==
    ASSUME NEW D, IsFiniteSet(D), NEW n \in Nat, NEW term \in [D -> Poly(n)]
    PROVE  [x \in Byte |-> Sum([i \in D |-> term[i][x]])] \in Poly(n)
<1> DEFINE Terms(s, x) == [i \in s |-> term[i][x]]
           F(s) == [x \in Byte |-> Sum(Terms(s, x))]
           Good == {s \in SUBSET D : F(s) \in Poly(n)}
<1>0. ASSUME NEW s \in SUBSET D, NEW x \in Byte
      PROVE  /\ Sum(Terms(s, x)) \in Byte
             /\ s = {} => Sum(Terms(s, x)) = {}
             /\ \A u \in s : Sum(Terms(s, x)) = Add(term[u][x], Sum(Terms(s \ {u}, x)))
  <2>1. IsFiniteSet(s) /\ Terms(s, x) \in [s -> Byte]
    BY FS_Subset, PolyType
  <2>2. \A u \in s : Terms(s, x)[u] = term[u][x] /\ Without(Terms(s, x), u) = Terms(s \ {u}, x)
    BY DEF Without
  <2> HIDE DEF Terms
  <2> QED
    BY <2>1, <2>2, SumSplits
<1> HIDE DEF Terms
<1>1. ASSUME NEW s \in SUBSET D, \A u \in s : s \ {u} \in Good PROVE s \in Good
  <2>1. F(s) \in [Byte -> Byte]
    BY <1>0
  <2>2. CASE s = {}
    <3>1. F(s) = Zero
      BY <1>0, <2>2 DEF Zero
    <3> QED
      BY <3>1, ZeroIsPoly
  <2>3. CASE s # {}
    <3>1. PICK u \in s : TRUE
      BY <2>3
    <3>2. F(s \ {u}) \in Poly(n) /\ term[u] \in Poly(n)
      BY <1>1
    <3>3. \A x \in Byte : F(s)[x] = Add(term[u][x], F(s \ {u})[x])
      BY <1>0
    <3> HIDE DEF F
    <3>4. F(s) \in Poly(n)
      BY <2>1, <3>2, <3>3, PolyAdds
    <3> QED
      BY <3>4
  <2> QED
    BY <2>2, <2>3
<1>2. \A s \in SUBSET D : (\A u \in s : s \ {u} \in Good) => s \in Good
  BY <1>1
<1>3. D \in Good
  <2> HIDE DEF Good
  <2>1. SUBSET D \subseteq Good
    BY <1>2, SubsetInduction
  <2> QED
    BY <2>1
<1> QED
  BY <1>3 DEF Terms

\* A product of factors that are not zero is not zero.
LEMMA ProductNotZero ==
    ASSUME NEW D, IsFiniteSet(D), NEW f \in [D -> Byte], \A i \in D : f[i] # {}
    PROVE  Product(f) # {}
<1> DEFINE On(s) == [i \in s |-> f[i]]
           Good == {s \in SUBSET D : Product(On(s)) # {}}
<1>1. ASSUME NEW s \in SUBSET D, \A u \in s : s \ {u} \in Good PROVE s \in Good
  <2>1. IsFiniteSet(s) /\ On(s) \in [s -> Byte]
    BY FS_Subset
  <2>2. \A u \in s : On(s)[u] = f[u] /\ Without(On(s), u) = On(s \ {u})
    BY DEF Without
  <2>3. CASE s = {}
    <3> HIDE DEF On
    <3> QED
      BY <2>1, <2>3, ProductSplits
  <2>4. CASE s # {}
    <3>1. PICK u \in s : TRUE
      BY <2>4
    <3>2. Product(On(s \ {u})) # {} /\ f[u] # {} /\ f[u] \in Byte
      BY <1>1
    <3>3. IsFiniteSet(s \ {u}) /\ On(s \ {u}) \in [s \ {u} -> Byte]
      BY FS_Subset
    <3> HIDE DEF On
    <3>4. Product(On(s)) = Multiply(f[u], Product(On(s \ {u})))
      BY <2>1, <2>2, ProductSplits
    <3>5. Product(On(s \ {u})) \in Byte
      BY <3>3, ProductSplits
    <3> QED
      BY <3>2, <3>4, <3>5, NoZeroDivisors
  <2> QED
    BY <2>3, <2>4
<1>2. \A s \in SUBSET D : (\A u \in s : s \ {u} \in Good) => s \in Good
  BY <1>1
<1>3. D \in Good
  <2> HIDE DEF Good
  <2>1. SUBSET D \subseteq Good
    BY <1>2, SubsetInduction
  <2> QED
    BY <2>1
<1>4. On(D) = f
  OBVIOUS
<1> QED
  BY <1>3, <1>4

-----------------------------------------------------------------------------
\* Interpolation.

\* Division is multiplication by the inverse, and a byte divided by itself is one.
LEMMA DivideIs ==
    ASSUME NEW a \in Byte, NEW b \in Byte
    PROVE  /\ FieldInverse(b) \in Byte
           /\ Divide(a, b) = Multiply(FieldInverse(b), a)
           /\ Divide(a, b) \in Byte
           /\ a # {} => Divide(a, a) = {0}
<1>1. FieldInverse(b) \in Byte /\ (a # {} => Multiply(a, FieldInverse(a)) = {0})
  BY InverseWorks
<1>2. Multiply({}, FieldInverse(b)) = {}
  BY <1>1, MultiplyZero
<1>3. Divide(a, b) = Multiply(a, FieldInverse(b))
  BY <1>2 DEF Divide
<1>4. Multiply(a, FieldInverse(b)) = Multiply(FieldInverse(b), a) /\ Multiply(a, FieldInverse(b)) \in Byte
  BY <1>1, MultiplyCommutes, MultiplyType
<1>5. a # {} => Divide(a, a) = {0}
  BY <1>1 DEF Divide
<1> QED
  BY <1>1, <1>3, <1>4, <1>5

\* The i-th of the Lagrange basis is a polynomial, 1 at the i-th point and 0 at the others.
LEMMA BasisIs ==
    ASSUME NEW D, IsFiniteSet(D), NEW at \in [D -> Byte], \A i, j \in D : at[i] = at[j] => i = j, NEW i \in D
    PROVE  /\ [x \in Byte |-> Basis(at, i, x)] \in Poly(Cardinality(D))
           /\ \A j \in D : Basis(at, i, at[j]) = IF j = i THEN {0} ELSE {}
<1> DEFINE others == D \ {i}
           Factors(x) == [j \in others |-> Add(x, at[j])]
           rest == [j \in others |-> at[j]]
           P == [x \in Byte |-> Product(Factors(x))]
           inv == FieldInverse(Product(Factors(at[i])))
           B == [x \in Byte |-> Basis(at, i, x)]
<1>1. IsFiniteSet(others) /\ rest \in [others -> Byte] /\ DOMAIN at = D
  BY FS_RemoveElement
<1>2. PICK n \in Nat : Cardinality(D) = n + 1 /\ Cardinality(others) = n
  <2>1. Cardinality(D) \in Nat /\ Cardinality(others) \in Nat /\ Cardinality(others) = Cardinality(D) - 1
    BY <1>1, FS_RemoveElement, FS_CardinalityType
  <2> QED
    BY <2>1
<1>3. \A x \in Byte : /\ Factors(x) \in [others -> Byte]
                      /\ Factors(x) = [j \in others |-> Add(x, rest[j])]
                      /\ \A j \in others : Factors(x)[j] = Add(x, at[j])
  BY AddType
<1>4. P \in Poly(n + 1)
  <2>1. P = [x \in Byte |-> Product([j \in others |-> Add(x, rest[j])])]
    BY <1>3
  <2> HIDE DEF P, others, rest
  <2> QED
    BY <1>1, <1>2, <2>1, ProductIsPoly
<1>5. \A x \in Byte : Basis(at, i, x) = Divide(Product(Factors(x)), Product(Factors(at[i])))
  BY <1>1 DEF Basis
<1> HIDE DEF Factors
<1>6. \A x \in Byte : Product(Factors(x)) \in Byte
  BY <1>1, <1>3, ProductSplits
<1>7. at[i] \in Byte
  OBVIOUS
<1>8. inv \in Byte /\ \A x \in Byte : Basis(at, i, x) = Multiply(inv, P[x]) /\ Basis(at, i, x) \in Byte
  BY <1>5, <1>6, <1>7, DivideIs
<1>9. B \in Poly(n + 1)
  <2>1. B \in [Byte -> Byte] /\ \A x \in Byte : B[x] = Multiply(inv, P[x])
    BY <1>8
  <2>2. n + 1 \in Nat /\ inv \in Byte
    BY <1>8
  <2> HIDE DEF P, B, inv
  <2> QED
    BY ONLY <1>4, <2>1, <2>2, PolyScales
<1>10. Basis(at, i, at[i]) = {0}
  <2>1. \A j \in others : Factors(at[i])[j] # {}
    <3>1. ASSUME NEW j \in others PROVE Add(at[i], at[j]) # {}
      <4>1. at[j] \in Byte /\ at[j] # at[i]
        OBVIOUS
      <4> QED
        BY <1>7, <4>1, AddCancels
    <3> QED
      BY <1>3, <1>7, <3>1
  <2>2. Product(Factors(at[i])) # {}
    <3> HIDE DEF others
    <3> QED
      BY <1>1, <1>3, <1>7, <2>1, ProductNotZero
  <2> QED
    BY <1>5, <1>6, <1>7, <2>2, DivideIs
<1>11. ASSUME NEW j \in D, j # i PROVE Basis(at, i, at[j]) = {}
  <2>1. at[j] \in Byte /\ j \in others
    BY <1>11
  <2>2. Factors(at[j]) \in [others -> Byte] /\ Factors(at[j])[j] = {}
    <3>1. Factors(at[j]) \in [others -> Byte] /\ Factors(at[j])[j] = Add(at[j], at[j])
      <4> HIDE DEF others, rest
      <4> QED
        BY ONLY <1>3, <2>1
    <3> HIDE DEF others
    <3> QED
      BY <2>1, <3>1, AddLaws
  <2> DEFINE r == Product(Without(Factors(at[j]), j))
  <2>3. Product(Factors(at[j])) = Multiply({}, r)
    <3> DEFINE g == Factors(at[j])
    <3>1. IsFiniteSet(others) /\ j \in others /\ g \in [others -> Byte]
      BY <1>1, <2>1, <2>2
    <3> HIDE DEF others, g
    <3>2. Product(g) = Multiply(g[j], Product(Without(g, j)))
      BY ONLY <3>1, ProductSplits
    <3> USE DEF g
    <3> QED
      BY <2>2, <3>2
  <2>4. r \in Byte
    <3>1. Without(Factors(at[j]), j) \in [others \ {j} -> Byte] /\ IsFiniteSet(others \ {j})
      BY <1>1, <2>2, FS_RemoveElement DEF Without
    <3> HIDE DEF others
    <3> QED
      BY <3>1, ProductSplits
  <2>5. Product(Factors(at[j])) = {}
    <3> HIDE DEF r
    <3> QED
      BY <2>3, <2>4, MultiplyZero
  <2> QED
    BY <1>5, <2>1, <2>5 DEF Divide
<1> QED
  BY <1>2, <1>9, <1>10, <1>11

\* The sum of values of which at most one is not zero is that one.
LEMMA SumOfOne ==
    ASSUME NEW D, IsFiniteSet(D), NEW f \in [D -> Byte], NEW u \in D, \A i \in D \ {u} : f[i] = {}
    PROVE  Sum(f) = f[u]
<1> DEFINE On(s) == [i \in s |-> f[i]]
           Good == {s \in SUBSET (D \ {u}) : Sum(On(s)) = {}}
<1>1. ASSUME NEW s \in SUBSET (D \ {u}), \A v \in s : s \ {v} \in Good PROVE s \in Good
  <2>1. IsFiniteSet(s) /\ On(s) \in [s -> Byte]
    BY FS_Subset
  <2>2. \A v \in s : On(s)[v] = {} /\ Without(On(s), v) = On(s \ {v})
    BY DEF Without
  <2>3. CASE s = {}
    <3>1. Sum(On(s)) = {}
      <4> HIDE DEF On
      <4> QED
        BY <2>1, <2>3, SumSplits
    <3> QED
      BY <3>1
  <2>4. CASE s # {}
    <3>1. PICK v \in s : TRUE
      BY <2>4
    <3>2. Sum(On(s \ {v})) = {}
      BY <1>1
    <3>3. Sum(On(s)) = Add({}, Sum(On(s \ {v})))
      <4>1. On(s)[v] = {} /\ Without(On(s), v) = On(s \ {v})
        BY <2>2
      <4> DEFINE g == On(s)
      <4>2. IsFiniteSet(s) /\ g \in [s -> Byte]
        BY <2>1
      <4> HIDE DEF g
      <4>3. Sum(g) = Add(g[v], Sum(Without(g, v)))
        BY ONLY <4>2, v \in s, SumSplits
      <4> HIDE DEF On
      <4> QED
        BY ONLY <4>1, <4>3 DEF g
    <3>4. Sum(On(s)) = {}
      <4> HIDE DEF On
      <4> QED
        BY <3>2, <3>3, AddLaws, OpTypes
    <3> QED
      BY <3>4
  <2> QED
    BY <2>3, <2>4
<1>2. \A s \in SUBSET (D \ {u}) : (\A v \in s : s \ {v} \in Good) => s \in Good
  BY <1>1
<1>3. Sum(On(D \ {u})) = {}
  <2>1. IsFiniteSet(D \ {u})
    BY FS_RemoveElement
  <2> DEFINE R == D \ {u}
  <2>2. SUBSET R \subseteq Good
    <3>1. \A s \in SUBSET R : (\A v \in s : s \ {v} \in Good) => s \in Good
      BY <1>2
    <3>2. IsFiniteSet(R)
      BY <2>1
    <3> HIDE DEF Good, R
    <3> QED
      BY ONLY <3>1, <3>2, SubsetInduction
  <2> QED
    BY <2>2
<1>4. Without(f, u) = On(D \ {u}) /\ f[u] \in Byte
  BY DEF Without
<1>5. Sum(f) = Add(f[u], Sum(Without(f, u)))
  BY SumSplits
<1> HIDE DEF On
<1>6. Sum(f) = Add(f[u], {})
  BY <1>3, <1>4, <1>5
<1> QED
  BY <1>4, <1>6, AddLaws

\* Lagrange: what interpolation computes is a polynomial of as many coefficients as there are
\* points, and it goes through the points.
THEOREM Lagrange ==
    ASSUME NEW D, IsFiniteSet(D), NEW at \in [D -> Byte], \A i, j \in D : at[i] = at[j] => i = j,
           NEW y \in [D -> Byte]
    PROVE  /\ [x \in Byte |-> LagrangeInterpolation(at, y, x)] \in Poly(Cardinality(D))
           /\ \A j \in D : LagrangeInterpolation(at, y, at[j]) = y[j]
<1> DEFINE n == Cardinality(D)
           B(i) == [x \in Byte |-> Basis(at, i, x)]
           term == [i \in D |-> [x \in Byte |-> Multiply(y[i], Basis(at, i, x))]]
<1>1. n \in Nat /\ DOMAIN at = D
  BY FS_CardinalityType
<1>2. ASSUME NEW i \in D
      PROVE  /\ B(i) \in Poly(n)
             /\ \A j \in D : Basis(at, i, at[j]) = IF j = i THEN {0} ELSE {}
  BY BasisIs
<1>3. \A i \in D, x \in Byte : Basis(at, i, x) \in Byte
  <2>1. ASSUME NEW i \in D, NEW x \in Byte PROVE B(i)[x] \in Byte
    <3> HIDE DEF n, B
    <3> QED
      BY <1>1, <1>2, PolyType
  <2>2. \A i \in D, x \in Byte : B(i)[x] = Basis(at, i, x)
    OBVIOUS
  <2> HIDE DEF B
  <2> QED
    BY <2>1, <2>2
<1>4. term \in [D -> Poly(n)]
  <2>1. ASSUME NEW i \in D PROVE term[i] \in Poly(n)
    <3>1. term[i] \in [Byte -> Byte] /\ \A x \in Byte : term[i][x] = Multiply(y[i], B(i)[x])
      BY <1>3, MultiplyType
    <3>2. B(i) \in Poly(n) /\ y[i] \in Byte
      BY <1>2
    <3> HIDE DEF n, B, term
    <3> QED
      BY <1>1, <3>1, <3>2, PolyScales
  <2> HIDE DEF n
  <2> QED
    BY <2>1
<1>5. [x \in Byte |-> Sum([i \in D |-> term[i][x]])] \in Poly(n)
  <2> HIDE DEF n, term
  <2> QED
    BY <1>1, <1>4, SumIsPoly
<1>6. ASSUME NEW x \in Byte PROVE LagrangeInterpolation(at, y, x) = Sum([i \in D |-> Multiply(y[i], Basis(at, i, x))])
  BY <1>1 DEF LagrangeInterpolation
<1>7. [x \in Byte |-> LagrangeInterpolation(at, y, x)] \in Poly(n)
  <2>1. ASSUME NEW x \in Byte
        PROVE  [i \in D |-> term[i][x]] = [i \in D |-> Multiply(y[i], Basis(at, i, x))]
    OBVIOUS
  <2>2. [x \in Byte |-> LagrangeInterpolation(at, y, x)] = [x \in Byte |-> Sum([i \in D |-> term[i][x]])]
    <3> HIDE DEF term
    <3> QED
      BY <1>6, <2>1
  <2> HIDE DEF n, term
  <2> QED
    BY <1>5, <2>2
<1>8. ASSUME NEW j \in D PROVE LagrangeInterpolation(at, y, at[j]) = y[j]
  <2> DEFINE f == [i \in D |-> Multiply(y[i], Basis(at, i, at[j]))]
  <2>1. at[j] \in Byte /\ y[j] \in Byte
    OBVIOUS
  <2>2. f \in [D -> Byte] /\ \A i \in D \ {j} : f[i] = {}
    BY <1>2, <1>3, <2>1, MultiplyType, MultiplyZero
  <2>3. f[j] = y[j]
    <3>1. f[j] = Multiply(y[j], {0})
      BY <1>2
    <3> HIDE DEF f
    <3> QED
      BY <2>1, <3>1, MultiplyByOne
  <2>4. LagrangeInterpolation(at, y, at[j]) = Sum(f)
    BY <1>6, <2>1
  <2> HIDE DEF f
  <2> QED
    BY <2>2, <2>3, <2>4, SumOfOne
<1> QED
  BY <1>7, <1>8

-----------------------------------------------------------------------------
\* evaluatePolynomial computes a polynomial.

\* What the loop of evaluatePolynomial goes through, at x.
Steps == [result : Byte, xPower : Byte]
Runs(f, cs, x) ==
    /\ \A n \in 0 .. Len(cs) : f[n] \in Steps
    /\ f[0].result = {} /\ f[0].xPower = {0}
    /\ \A n \in 0 .. Len(cs) - 1 :
         /\ f[n + 1].result = Add(f[n].result, Multiply(cs[n + 1], f[n].xPower))
         /\ f[n + 1].xPower = Multiply(f[n].xPower, x)
    /\ Evaluate(cs, x) = f[Len(cs)].result

\* An evaluation goes through such steps.
LEMMA EvaluateRuns ==
    ASSUME NEW cs \in Seq(Byte), NEW x \in Byte
    PROVE  \E f : Runs(f, cs, x)
<1> DEFINE N == Len(cs)
           start == [result |-> {}, xPower |-> {0}]
           Go(k, s) == [result |-> Add(s.result, Multiply(cs[k], s.xPower)), xPower |-> Multiply(s.xPower, x)]
           step == [k \in Nat |-> [s \in Steps |-> IF k < N THEN Go(k + 1, s) ELSE s]]
           Value(f) == f = [n \in 0 .. Len(cs) |-> IF n = 0 THEN start ELSE Go(n, f[n - 1])]
<1>0. N \in Nat /\ \A k \in 1 .. N : cs[k] \in Byte
  OBVIOUS
<1>1. \A k \in 1 .. N, s \in Steps : Go(k, s) \in Steps
  <2>1. ASSUME NEW k \in 1 .. N, NEW s \in Steps PROVE Go(k, s) \in Steps
    <3>1. cs[k] \in Byte /\ s.result \in Byte /\ s.xPower \in Byte
      BY <1>0 DEF Steps
    <3>2. Multiply(cs[k], s.xPower) \in Byte /\ Multiply(s.xPower, x) \in Byte
      BY <3>1, MultiplyType
    <3>3. Add(s.result, Multiply(cs[k], s.xPower)) \in Byte
      BY <3>1, <3>2, AddType
    <3> QED
      BY <3>2, <3>3 DEF Steps
  <2> QED
    BY <2>1
<1>2. start \in Steps
  BY OpTypes DEF Steps
<1> HIDE DEF N
<1>3. \A k \in Nat : k < N => k + 1 \in 1 .. N
  BY <1>0
<1>4. step \in [Nat -> [Steps -> Steps]]
  <2> HIDE DEF Go
  <2> QED
    BY <1>1, <1>3
<1>5. \E f : Goes(f, Steps, start, step)
  <2> HIDE DEF start, step
  <2> QED
    BY <1>2, <1>4, Recursion
<1>6. PICK g : /\ g \in [Nat -> Steps] /\ g[0] = start
               /\ \A k \in Nat : k < N => g[k + 1] = Go(k + 1, g[k])
  <2> HIDE DEF start, Go
  <2> QED
    BY <1>5 DEF Goes
<1> DEFINE h == [n \in 0 .. Len(cs) |-> g[n]]
<1>7. Value(h)
  <2>1. ASSUME NEW n \in 0 .. N, n # 0 PROVE n - 1 \in 0 .. N /\ g[n] = Go(n, g[n - 1])
    <3>1. n - 1 \in Nat /\ (n - 1) + 1 = n /\ n - 1 < N
      BY <1>0, <2>1
    <3> HIDE DEF Go
    <3> QED
      BY <1>0, <1>6, <3>1
  <2> HIDE DEF start, Go
  <2> QED
    BY <1>6, <2>1 DEF N
<1> DEFINE after == CHOOSE f : Value(f)
<1>8. Value(after)
  <2> HIDE DEF h
  <2> QED
    BY ONLY <1>7, Zenon
<1>9. Evaluate(cs, x) = after[Len(cs)].result
  BY Zenon DEF Evaluate
<1> HIDE DEF after
<1>10. after[0] = start /\ \A n \in 0 .. N - 1 : after[n + 1] = Go(n + 1, after[n])
  <2>1. ASSUME NEW n \in 0 .. N - 1 PROVE after[n + 1] = Go(n + 1, after[n])
    <3>1. n + 1 \in 0 .. Len(cs) /\ n + 1 # 0 /\ (n + 1) - 1 = n
      BY <1>0 DEF N
    <3>2. after[n + 1] = IF n + 1 = 0 THEN start ELSE Go(n + 1, after[(n + 1) - 1])
      BY ONLY <1>8, <3>1, Zenon
    <3> QED
      BY <3>1, <3>2
  <2>2. 0 \in 0 .. Len(cs)
    BY <1>0 DEF N
  <2> QED
    BY <1>8, <2>1, <2>2
<1>11. \A n \in 0 .. N : after[n] \in Steps
  <2> DEFINE T == {n \in Nat : n <= N => after[n] \in Steps}
  <2>1. 0 \in T
    BY <1>2, <1>10
  <2>2. ASSUME NEW n \in Nat, n \in T PROVE n + 1 \in T
    <3>1. SUFFICES ASSUME n + 1 <= N PROVE after[n + 1] \in Steps
      OBVIOUS
    <3>2. after[n] \in Steps /\ n \in 0 .. N - 1 /\ n + 1 \in 1 .. N
      BY <1>0, <2>2, <3>1
    <3> HIDE DEF Go
    <3> QED
      BY <1>1, <1>10, <3>2
  <2> HIDE DEF T
  <2>3. Nat \subseteq T
    BY <2>1, <2>2, NatSetInduction
  <2> QED
    BY <1>0, <2>3 DEF T
<1> HIDE DEF Go
<1>12. /\ after[0].result = {} /\ after[0].xPower = {0}
       /\ \A n \in 0 .. N - 1 :
            /\ after[n + 1].result = Add(after[n].result, Multiply(cs[n + 1], after[n].xPower))
            /\ after[n + 1].xPower = Multiply(after[n].xPower, x)
  <2>1. \A k, s : /\ Go(k, s).result = Add(s.result, Multiply(cs[k], s.xPower))
                  /\ Go(k, s).xPower = Multiply(s.xPower, x)
    BY DEF Go
  <2>2. start.result = {} /\ start.xPower = {0}
    OBVIOUS
  <2> HIDE DEF start
  <2> QED
    BY <1>10, <2>1, <2>2
<1>13. Runs(after, cs, x)
  BY ONLY <1>9, <1>11, <1>12, Zenon DEF Runs, N
<1> QED
  BY <1>13

\* Evaluation is that of a polynomial of as many coefficients as there are.
LEMMA EvaluateIsPoly ==
    ASSUME NEW cs \in Seq(Byte)
    PROVE  [x \in Byte |-> Evaluate(cs, x)] \in Poly(Len(cs))
<1> DEFINE A == [x \in Byte |-> CHOOSE f : Runs(f, cs, x)]
           R(n) == [x \in Byte |-> A[x][n].result]
           X(n) == [x \in Byte |-> A[x][n].xPower]
           N == Len(cs)
           T == {n \in Nat : n <= N => R(n) \in Poly(n) /\ X(n) \in Poly(n + 1)}
<1>1. \A x \in Byte : Runs(A[x], cs, x)
  BY EvaluateRuns
<1> HIDE DEF A
<1>2. N \in Nat /\ \A k \in 1 .. N : cs[k] \in Byte
  OBVIOUS
<1>3. ASSUME NEW n \in 0 .. N PROVE R(n) \in [Byte -> Byte] /\ X(n) \in [Byte -> Byte]
  <2>1. \A x \in Byte : A[x][n] \in Steps
    BY <1>1 DEF Runs
  <2> QED
    BY <2>1 DEF Steps
<1>4. ASSUME NEW n \in 0 .. N - 1, NEW x \in Byte
      PROVE  /\ R(n + 1)[x] = Add(R(n)[x], Multiply(cs[n + 1], X(n)[x]))
             /\ X(n + 1)[x] = Multiply(x, X(n)[x])
  <2>1. /\ R(n + 1)[x] = Add(R(n)[x], Multiply(cs[n + 1], X(n)[x]))
        /\ X(n + 1)[x] = Multiply(X(n)[x], x)
    BY <1>1 DEF Runs
  <2>2. X(n)[x] \in Byte
    <3>1. X(n) \in [Byte -> Byte]
      BY <1>2, <1>3
    <3> QED
      BY <3>1
  <2> QED
    BY <2>1, <2>2, MultiplyCommutes
<1>5. 0 \in T
  <2>1. 0 \in 0 .. N
    BY <1>2
  <2>2. \A x \in Byte : A[x][0].result = {} /\ A[x][0].xPower = {0}
    BY <1>1 DEF Runs
  <2>3. R(0) = Zero
    BY <2>2 DEF Zero
  <2>4. \A x \in Byte : X(0)[x] = Add({0}, Multiply(x, Zero[x]))
    <3>1. \A x \in Byte : Zero[x] = {} /\ Multiply(x, {}) = {} /\ Add({0}, {}) = {0}
      BY MultiplyZero, AddLaws, OpTypes DEF Zero
    <3> QED
      BY <2>2, <3>1
  <2>5. X(0) \in [Byte -> Byte] /\ Zero \in Poly(0) /\ {0} \in Byte
    BY <1>3, <2>1, ZeroIsPoly, OpTypes
  <2> HIDE DEF X, R
  <2>6. X(0) \in Poly(0 + 1)
    BY <2>4, <2>5, IsPoly
  <2> QED
    BY <2>3, <2>5, <2>6
<1>6. ASSUME NEW n \in Nat, n \in T PROVE n + 1 \in T
  <2>1. SUFFICES ASSUME n + 1 <= N PROVE R(n + 1) \in Poly(n + 1) /\ X(n + 1) \in Poly((n + 1) + 1)
    OBVIOUS
  <2>2. n \in 0 .. N - 1 /\ n \in 0 .. N /\ n + 1 \in 0 .. N /\ cs[n + 1] \in Byte /\ n + 1 \in Nat
    BY <1>2, <2>1
  <2>3. R(n) \in Poly(n) /\ X(n) \in Poly(n + 1) /\ Poly(n) \subseteq Poly(n + 1)
    BY <1>2, <1>6, <2>1, PolyGrows
  <2> DEFINE s == [x \in Byte |-> Multiply(cs[n + 1], X(n)[x])]
  <2>4. X(n) \in [Byte -> Byte] /\ R(n + 1) \in [Byte -> Byte] /\ X(n + 1) \in [Byte -> Byte]
    BY <1>3, <2>2
  <2>5. \A x \in Byte : /\ R(n + 1)[x] = Add(R(n)[x], s[x])
                        /\ X(n + 1)[x] = Multiply(x, X(n)[x])
                        /\ s[x] = Multiply(cs[n + 1], X(n)[x])
    <3> HIDE DEF R, X
    <3> QED
      BY <1>4, <2>2
  <2>6. s \in [Byte -> Byte]
    <3> HIDE DEF X
    <3> QED
      BY <2>2, <2>4, MultiplyType
  <2> HIDE DEF R, X, s
  <2>7. s \in Poly(n + 1)
    BY ONLY <2>2, <2>3, <2>5, <2>6, PolyScales
  <2>8. R(n + 1) \in Poly(n + 1)
    BY ONLY <2>2, <2>3, <2>4, <2>5, <2>7, PolyAdds
  <2>9. X(n + 1) \in Poly((n + 1) + 1)
    BY ONLY <2>2, <2>3, <2>4, <2>5, PolyTimesX
  <2> QED
    BY <2>8, <2>9
<1>7. R(N) \in Poly(N)
  <2> HIDE DEF T
  <2>1. Nat \subseteq T
    BY <1>5, <1>6, NatSetInduction
  <2>2. N \in T
    BY <1>2, <2>1
  <2> HIDE DEF R, X
  <2> QED
    BY <1>2, <2>2 DEF T
<1>8. [x \in Byte |-> Evaluate(cs, x)] = R(N)
  BY <1>1 DEF Runs
<1> QED
  BY <1>7, <1>8

\* The value at zero is the lowest coefficient.
LEMMA EvaluateAtZero ==
    ASSUME NEW cs \in Seq(Byte), Len(cs) > 0
    PROVE  Evaluate(cs, {}) = cs[1]
<1>1. PICK f : Runs(f, cs, {})
  BY EvaluateRuns, OpTypes
<1> DEFINE N == Len(cs)
           T == {n \in Nat : n + 1 <= N => f[n + 1].result = cs[1] /\ f[n + 1].xPower = {}}
<1>2. N \in Nat /\ 0 < N /\ \A k \in 1 .. N : cs[k] \in Byte
  OBVIOUS
<1>3. \A n \in 0 .. N : f[n].result \in Byte /\ f[n].xPower \in Byte
  BY <1>1 DEF Runs, Steps
<1>4. /\ f[0].result = {} /\ f[0].xPower = {0} /\ Evaluate(cs, {}) = f[N].result
      /\ \A n \in 0 .. N - 1 : /\ f[n + 1].result = Add(f[n].result, Multiply(cs[n + 1], f[n].xPower))
                               /\ f[n + 1].xPower = Multiply(f[n].xPower, {})
  BY <1>1 DEF Runs
<1> HIDE DEF N
<1>5. \A n \in 0 .. N - 1 : f[n + 1].xPower = {}
  <2>1. ASSUME NEW n \in 0 .. N - 1 PROVE f[n + 1].xPower = {}
    <3>1. f[n].xPower \in Byte
      BY <1>2, <1>3
    <3> QED
      BY <1>4, <3>1, MultiplyZero
  <2> QED
    BY <2>1
<1>6. 0 \in T
  <2>1. cs[1] \in Byte /\ 0 \in 0 .. N - 1
    BY <1>2
  <2>2. Multiply(cs[1], {0}) = cs[1] /\ Add({}, cs[1]) = cs[1]
    BY <2>1, MultiplyByOne, AddLaws
  <2>3. f[0 + 1].result = cs[1] /\ f[0 + 1].xPower = {}
    <3>1. f[0 + 1].result = Add(f[0].result, Multiply(cs[0 + 1], f[0].xPower)) /\ f[0 + 1].xPower = {}
      BY <1>4, <1>5, <2>1
    <3>2. 0 + 1 = 1
      OBVIOUS
    <3> QED
      BY <1>4, <2>2, <3>1, <3>2
  <2> QED
    BY <2>3
<1>7. ASSUME NEW n \in Nat, n \in T PROVE n + 1 \in T
  <2>1. SUFFICES ASSUME (n + 1) + 1 <= N PROVE f[(n + 1) + 1].result = cs[1] /\ f[(n + 1) + 1].xPower = {}
    OBVIOUS
  <2>2. n + 1 \in 0 .. N - 1 /\ (n + 1) + 1 \in 1 .. N /\ n + 1 <= N
    BY <1>2, <2>1
  <2>3. f[n + 1].result = cs[1] /\ f[n + 1].xPower = {} /\ cs[1] \in Byte /\ cs[(n + 1) + 1] \in Byte
    BY <1>2, <1>7, <2>2
  <2>4. Multiply(cs[(n + 1) + 1], {}) = {} /\ Add(cs[1], {}) = cs[1]
    BY <2>3, MultiplyZero, AddLaws
  <2> QED
    BY <1>4, <1>5, <2>2, <2>3, <2>4
<1>8. N - 1 \in T
  <2> HIDE DEF T
  <2>1. Nat \subseteq T
    BY <1>6, <1>7, NatSetInduction
  <2> QED
    BY <1>2, <2>1
<1>9. (N - 1) + 1 = N
  BY <1>2
<1> QED
  BY <1>2, <1>4, <1>8, <1>9

\* Coefficients of zero add nothing: the lowest two decide.
LEMMA EvaluateLinear ==
    ASSUME NEW cs \in Seq(Byte), Len(cs) > 1, NEW x \in Byte, \A i \in 3 .. Len(cs) : cs[i] = {}
    PROVE  Evaluate(cs, x) = Add(cs[1], Multiply(cs[2], x))
<1>1. PICK f : Runs(f, cs, x)
  BY EvaluateRuns
<1> DEFINE N == Len(cs)
           v == Add(cs[1], Multiply(cs[2], x))
           T == {n \in Nat : n + 2 <= N => f[n + 2].result = v}
<1>2. N \in Nat /\ 1 < N /\ \A k \in 1 .. N : cs[k] \in Byte
  OBVIOUS
<1>3. \A n \in 0 .. N : f[n].result \in Byte /\ f[n].xPower \in Byte
  BY <1>1 DEF Runs, Steps
<1>4. /\ f[0].result = {} /\ f[0].xPower = {0} /\ Evaluate(cs, x) = f[N].result
      /\ \A n \in 0 .. N - 1 : /\ f[n + 1].result = Add(f[n].result, Multiply(cs[n + 1], f[n].xPower))
                               /\ f[n + 1].xPower = Multiply(f[n].xPower, x)
  BY <1>1 DEF Runs
<1>5. v \in Byte
  <2>1. cs[1] \in Byte /\ cs[2] \in Byte
    BY <1>2
  <2> QED
    BY <2>1, AddType, MultiplyType
<1>5a. \A i \in 3 .. N : cs[i] = {}
  OBVIOUS
<1> HIDE DEF N
<1>6. 0 \in T
  <2>1. cs[1] \in Byte /\ cs[2] \in Byte /\ 0 \in 0 .. N - 1 /\ 1 \in 0 .. N - 1
    BY <1>2
  <2>2. Multiply(cs[1], {0}) = cs[1] /\ Add({}, cs[1]) = cs[1] /\ Multiply({0}, x) = x
    BY <2>1, MultiplyByOne, MultiplyCommutes, AddLaws, OpTypes
  <2>3. f[0 + 1].result = cs[1] /\ f[0 + 1].xPower = x
    <3>1. /\ f[0 + 1].result = Add(f[0].result, Multiply(cs[0 + 1], f[0].xPower))
          /\ f[0 + 1].xPower = Multiply(f[0].xPower, x)
      BY <1>4, <2>1
    <3>2. 0 + 1 = 1
      OBVIOUS
    <3> QED
      BY <1>4, <2>2, <3>1, <3>2
  <2>4. f[1 + 1].result = v
    <3>1. f[1].result = cs[1] /\ f[1].xPower = x
      BY <2>3
    <3>2. f[1 + 1].result = Add(f[1].result, Multiply(cs[1 + 1], f[1].xPower))
      BY <1>4, <2>1
    <3> QED
      BY <3>1, <3>2
  <2> HIDE DEF v
  <2> QED
    BY <2>4
<1>7. ASSUME NEW n \in Nat, n \in T PROVE n + 1 \in T
  <2>1. SUFFICES ASSUME (n + 1) + 2 <= N PROVE f[(n + 1) + 2].result = v
    OBVIOUS
  <2>2. n + 2 \in 0 .. N - 1 /\ (n + 2) + 1 \in 3 .. N /\ n + 2 <= N /\ (n + 1) + 2 = (n + 2) + 1 /\ n + 2 \in 0 .. N
    BY <1>2, <2>1
  <2>3. f[n + 2].result = v /\ cs[(n + 2) + 1] = {} /\ f[n + 2].xPower \in Byte
    BY <1>3, <1>5a, <1>7, <2>2
  <2> HIDE DEF v
  <2>4. Multiply({}, f[n + 2].xPower) = {} /\ Add(v, {}) = v
    BY <1>5, <2>3, MultiplyZero, AddLaws
  <2>5. f[(n + 2) + 1].result = Add(f[n + 2].result, Multiply(cs[(n + 2) + 1], f[n + 2].xPower))
    BY <1>4, <2>2
  <2> QED
    BY <2>2, <2>3, <2>4, <2>5
<1>8. N - 2 \in T
  <2> HIDE DEF T
  <2>1. Nat \subseteq T
    BY <1>6, <1>7, NatSetInduction
  <2>2. N - 2 \in Nat
    BY <1>2
  <2> QED
    BY <2>1, <2>2
<1>9. (N - 2) + 2 = N
  BY <1>2
<1> HIDE DEF v
<1> QED
  BY <1>2, <1>4, <1>8, <1>9 DEF v

-----------------------------------------------------------------------------
\* Reconstruction from shares, and their verification.

Point == [x : Nat, y : Seq(Byte)]

\* Shares that validateShares accepts are points at different bytes, none of them zero.
LEMMA PointsAre ==
    ASSUME NEW shares \in Seq(Point), ValidShares(shares)
    PROVE  /\ Len(shares) \in Nat /\ 1 <= Len(shares) /\ Len(shares) <= 255
           /\ \A i \in 1 .. Len(shares) :
                /\ shares[i] \in Point /\ shares[i].x \in 1 .. 255
                /\ shares[i].y \in [DOMAIN shares[1].y -> Byte]
           /\ \A i, j \in 1 .. Len(shares) : shares[i].x = shares[j].x => i = j
           /\ \A i, j \in 1 .. Len(shares) : ToByte(shares[i].x) = ToByte(shares[j].x) => i = j
<1>1. Len(shares) \in Nat /\ 1 <= Len(shares) /\ DOMAIN shares = 1 .. Len(shares)
  BY DEF ValidShares
<1>2. \A i \in 1 .. Len(shares) : shares[i] \in Point /\ shares[i].x \in 1 .. 255 /\ Len(shares[i].y) = Len(shares[1].y)
  <2>1. ASSUME NEW i \in 1 .. Len(shares) PROVE shares[i] \in Point
    OBVIOUS
  <2>2. \A i \in DOMAIN shares : shares[i].x \in 1 .. 255 /\ Len(shares[i].y) = Len(shares[1].y)
    BY Zenon DEF ValidShares
  <2> QED
    BY ONLY <1>1, <2>1, <2>2
<1>3. ASSUME NEW i \in 1 .. Len(shares) PROVE shares[i].y \in [DOMAIN shares[1].y -> Byte]
  <2>1. 1 \in 1 .. Len(shares)
    BY <1>1
  <2>2. shares[i].y \in Seq(Byte) /\ shares[1].y \in Seq(Byte) /\ Len(shares[i].y) = Len(shares[1].y)
    BY <1>2, <2>1 DEF Point
  <2>3. ASSUME NEW s \in Seq(Byte), NEW r \in Seq(Byte), Len(s) = Len(r) PROVE s \in [DOMAIN r -> Byte]
    BY <2>3
  <2> QED
    BY <2>2, <2>3
<1>4. ASSUME NEW i \in 1 .. Len(shares), NEW j \in 1 .. Len(shares), shares[i].x = shares[j].x PROVE i = j
  <2>1. \A k \in 1 .. Len(shares) : \A l \in 1 .. k - 1 : shares[l].x # shares[k].x
    BY <1>1 DEF ValidShares
  <2>2. i < j => i \in 1 .. j - 1
    BY <1>1
  <2>3. j < i => j \in 1 .. i - 1
    BY <1>1
  <2> QED
    BY <1>4, <2>1, <2>2, <2>3
<1>5. ASSUME NEW i \in 1 .. Len(shares), NEW j \in 1 .. Len(shares), ToByte(shares[i].x) = ToByte(shares[j].x)
      PROVE  i = j
  <2>1. shares[i].x \in 0 .. 255 /\ shares[j].x \in 0 .. 255
    <3>1. shares[i].x \in 1 .. 255 /\ shares[j].x \in 1 .. 255
      BY <1>2
    <3> QED
      BY ONLY <3>1
  <2> QED
    BY <1>4, <1>5, <2>1, ToByteDiffers
<1>6. Len(shares) <= 255
  <2> DEFINE f == [i \in 1 .. Len(shares) |-> shares[i].x]
  <2>1. f \in [1 .. Len(shares) -> 1 .. 255] /\ \A i, j \in 1 .. Len(shares) : i # j => f[i] # f[j]
    BY <1>2, <1>4
  <2>2. IsFiniteSet(1 .. Len(shares)) /\ IsFiniteSet(1 .. 255) /\ Cardinality(1 .. Len(shares)) = Len(shares) /\ Cardinality(1 .. 255) = 255
    <3> DEFINE n == Len(shares)
    <3>1. n \in Int /\ 1 <= n
      BY <1>1
    <3> HIDE DEF n
    <3>2. ASSUME NEW k \in Int, 1 <= k PROVE IsFiniteSet(1 .. k) /\ Cardinality(1 .. k) = k
      <4>1. IsFiniteSet(1 .. k) /\ Cardinality(1 .. k) = IF 1 > k THEN 0 ELSE k - 1 + 1
        BY ONLY k \in Int, 1 \in Int, FS_Interval, Zenon
      <4> QED
        BY <3>2, <4>1
    <3>3. 255 \in Int /\ 1 <= 255
      OBVIOUS
    <3> QED
      BY <3>1, <3>2, <3>3 DEF n
  <2> HIDE DEF f
  <2>3. ~(Cardinality(1 .. 255) < Cardinality(1 .. Len(shares)))
    <3> DEFINE S == 1 .. Len(shares)
               R == 1 .. 255
    <3>1. f \in [S -> R] /\ IsFiniteSet(S) /\ IsFiniteSet(R) /\ \A i, j \in S : i # j => f[i] # f[j]
      BY <2>1, <2>2
    <3> HIDE DEF S, R
    <3>2. ~(Cardinality(R) < Cardinality(S))
      BY ONLY <3>1, FS_PigeonHole
    <3> QED
      BY <3>2 DEF S, R
  <2> QED
    BY <1>1, <2>2, <2>3
<1> QED
  BY <1>1, <1>2, <1>3, <1>4, <1>5, <1>6

\* Interpolation gives the one polynomial of t coefficients that goes through the first t shares.
LEMMA InterpolateIs ==
    ASSUME NEW shares \in Seq(Point), ValidShares(shares), NEW t \in 1 .. Len(shares),
           NEW b \in DOMAIN shares[1].y
    PROVE  LET first == SubSeq(shares, 1, t)
           IN  /\ [x \in Byte |-> Interpolate(first, b, x)] \in Poly(t)
               /\ \A i \in 1 .. t : Interpolate(first, b, ToByte(shares[i].x)) = shares[i].y[b]
               /\ \A f \in Poly(t) : (\A i \in 1 .. t : f[ToByte(shares[i].x)] = shares[i].y[b])
                                       => \A x \in Byte : Interpolate(first, b, x) = f[x]
<1> DEFINE first == SubSeq(shares, 1, t)
           D  == 1 .. t
           at == [i \in D |-> ToByte(shares[i].x)]
           y  == [i \in D |-> shares[i].y[b]]
           F  == [x \in Byte |-> LagrangeInterpolation(at, y, x)]
<1>1. Len(shares) \in Nat /\ D \subseteq 1 .. Len(shares)
  BY PointsAre
<1>2. DOMAIN first = D /\ \A i \in D : first[i] = shares[i]
  BY <1>1
<1>3. \A x : Interpolate(first, b, x) = LagrangeInterpolation(at, y, x)
  <2> HIDE DEF first
  <2>1. [i \in DOMAIN first |-> ToByte(first[i].x)] = at /\ [i \in DOMAIN first |-> first[i].y[b]] = y
    BY <1>2
  <2> HIDE DEF at, y
  <2> QED
    BY <2>1 DEF Interpolate
<1>4. at \in [D -> Byte] /\ y \in [D -> Byte]
  <2>1. \A i \in D : ToByte(shares[i].x) \in Byte
    BY ToByteIsByte
  <2>2. \A i \in D : shares[i].y[b] \in Byte
    BY <1>1, PointsAre
  <2> QED
    BY <2>1, <2>2
<1>5. \A i, j \in D : at[i] = at[j] => i = j
  BY <1>1, PointsAre
<1>6. IsFiniteSet(D) /\ Cardinality(D) = t /\ t \in Nat
  BY <1>1, FS_Interval
<1> HIDE DEF D
<1>7. F \in Poly(t) /\ \A i \in D : LagrangeInterpolation(at, y, at[i]) = y[i]
  <2> HIDE DEF at, y
  <2>1. F \in Poly(Cardinality(D)) /\ \A i \in D : LagrangeInterpolation(at, y, at[i]) = y[i]
    BY ONLY <1>4, <1>5, <1>6, Lagrange
  <2> HIDE DEF F
  <2> QED
    BY <1>6, <2>1
<1>8. \A i \in D : at[i] = ToByte(shares[i].x) /\ y[i] = shares[i].y[b]
  OBVIOUS
<1>9. [x \in Byte |-> Interpolate(first, b, x)] = F
  <2> HIDE DEF first, at, y
  <2> QED
    BY <1>3
<1> HIDE DEF first, at, y
<1>10. \A x \in Byte : F[x] = LagrangeInterpolation(at, y, x)
  OBVIOUS
<1>11. ASSUME NEW f \in Poly(t), \A i \in D : f[ToByte(shares[i].x)] = shares[i].y[b], NEW x \in Byte
       PROVE  Interpolate(first, b, x) = f[x]
  <2>1. \A i \in D : F[at[i]] = f[at[i]]
    <3>1. ASSUME NEW i \in D PROVE F[at[i]] = f[at[i]]
      <4>1. F[at[i]] = LagrangeInterpolation(at, y, at[i])
        BY <1>4, <1>10
      <4>2. f[at[i]] = y[i]
        BY <1>8, <1>11
      <4> QED
        BY <1>7, <4>1, <4>2
    <3> QED
      BY <3>1
  <2>2. F \in Poly(Cardinality(D)) /\ f \in Poly(Cardinality(D))
    BY <1>6, <1>7
  <2> HIDE DEF F
  <2>3. F[x] = f[x]
    BY ONLY <1>4, <1>5, <1>6, <2>1, <2>2, x \in Byte, PolyAgree
  <2> QED
    BY <1>3, <1>10, <2>3
<1> HIDE DEF F
<1>12. \A i \in 1 .. t : Interpolate(first, b, ToByte(shares[i].x)) = shares[i].y[b]
  BY <1>3, <1>7, <1>8 DEF D
<1> QED
  BY <1>7, <1>9, <1>11, <1>12 DEF first, D

\* What reconstruction returns for shares that are valid and enough.
LEMMA ReconstructIs ==
    ASSUME NEW shares \in Seq(Point), ValidShares(shares), NEW t \in 1 .. Len(shares)
    PROVE  ReconstructSecret(shares, t) = [b \in DOMAIN shares[1].y |-> Interpolate(SubSeq(shares, 1, t), b, {})]
BY PointsAre DEF ReconstructSecret

\* If all the shares lie on polynomials of t coefficients, reconstruction gives their values at zero.
THEOREM ReconstructsFrom ==
    ASSUME NEW shares \in Seq(Point), ValidShares(shares), NEW t \in 1 .. Len(shares),
           NEW F \in [DOMAIN shares[1].y -> Poly(t)],
           \A i \in 1 .. Len(shares), b \in DOMAIN shares[1].y : F[b][ToByte(shares[i].x)] = shares[i].y[b]
    PROVE  /\ ReconstructSecret(shares, t) = [b \in DOMAIN shares[1].y |-> F[b][{}]]
           /\ VerifyShares(shares, t)
<1>1. Len(shares) \in Nat /\ 1 .. t \subseteq 1 .. Len(shares) /\ {} \in Byte
  BY PointsAre, OpTypes
<1>2. ASSUME NEW b \in DOMAIN shares[1].y, NEW x \in Byte PROVE Interpolate(SubSeq(shares, 1, t), b, x) = F[b][x]
  <2>1. F[b] \in Poly(t) /\ \A i \in 1 .. t : F[b][ToByte(shares[i].x)] = shares[i].y[b]
    BY <1>1
  <2> QED
    BY <2>1, InterpolateIs
<1>3. ReconstructSecret(shares, t) = [b \in DOMAIN shares[1].y |-> F[b][{}]]
  BY <1>1, <1>2, ReconstructIs
<1>4. VerifyShares(shares, t)
  <2>1. ASSUME NEW i \in t + 1 .. Len(shares), NEW b \in DOMAIN shares[1].y
        PROVE  Interpolate(SubSeq(shares, 1, t), b, ToByte(shares[i].x)) = shares[i].y[b]
    <3>1. i \in 1 .. Len(shares) /\ ToByte(shares[i].x) \in Byte
      BY <1>1, ToByteIsByte
    <3> QED
      BY <1>2, <3>1
  <2> QED
    BY <1>1, <2>1 DEF VerifyShares
<1> QED
  BY <1>3, <1>4

\* Any t of the shares that verifyShares accepts reconstruct what all of them do.
LEMMA PicksAgree ==
    ASSUME NEW shares \in Seq(Point), NEW t \in 1 .. Len(shares), VerifyShares(shares, t),
           NEW pick \in [1 .. t -> 1 .. Len(shares)], \A i, j \in 1 .. t : pick[i] = pick[j] => i = j
    PROVE  ReconstructSecret([i \in 1 .. t |-> shares[pick[i]]], t) = ReconstructSecret(shares, t)
<1> DEFINE picked == [i \in 1 .. t |-> shares[pick[i]]]
           B == DOMAIN shares[1].y
           F == [b \in B |-> [x \in Byte |-> Interpolate(SubSeq(shares, 1, t), b, x)]]
<1>1. ValidShares(shares)
  BY DEF VerifyShares
<1>2. Len(shares) \in Nat /\ t \in Nat /\ 1 <= t /\ {} \in Byte
  BY <1>1, PointsAre, OpTypes
<1>3. picked \in Seq(Point) /\ Len(picked) = t /\ picked # <<>> /\ DOMAIN picked = 1 .. t
  <2>1. ASSUME NEW i \in 1 .. t PROVE shares[pick[i]] \in Point
    BY <1>1, PointsAre
  <2>2. picked \in [1 .. t -> Point]
    BY <2>1
  <2> HIDE DEF picked
  <2> QED
    BY <1>2, <2>2
<1>4. \A i \in 1 .. t : picked[i] = shares[pick[i]] /\ pick[i] \in 1 .. Len(shares)
  OBVIOUS
<1> HIDE DEF picked
<1>5. \A i \in 1 .. t : picked[i].x \in 1 .. 255 /\ Len(picked[i].y) = Len(shares[1].y) /\ DOMAIN picked[i].y = B
  <2>1. \A j \in 1 .. Len(shares) : /\ shares[j].x \in 1 .. 255
                                   /\ Len(shares[j].y) = Len(shares[1].y)
                                   /\ DOMAIN shares[j].y = B
    <3>1. \A j \in DOMAIN shares : shares[j].x \in 1 .. 255 /\ Len(shares[j].y) = Len(shares[1].y)
      BY <1>1, Zenon DEF ValidShares
    <3>2. \A j \in 1 .. Len(shares) : shares[j].y \in [B -> Byte]
      BY <1>1, PointsAre
    <3> HIDE DEF B
    <3> QED
      BY <3>1, <3>2
  <2> HIDE DEF B
  <2> SUFFICES ASSUME NEW i \in 1 .. t
               PROVE  picked[i].x \in 1 .. 255 /\ Len(picked[i].y) = Len(shares[1].y) /\ DOMAIN picked[i].y = B
    OBVIOUS
  <2>2. PICK j \in 1 .. Len(shares) : picked[i] = shares[j]
    BY <1>4
  <2>3. shares[j].x \in 1 .. 255 /\ Len(shares[j].y) = Len(shares[1].y) /\ DOMAIN shares[j].y = B
    BY ONLY <2>1
  <2> QED
    BY ONLY <2>2, <2>3
<1>6. ValidShares(picked)
  <2>1. ASSUME NEW i \in 1 .. t, NEW j \in 1 .. i - 1 PROVE picked[j].x # picked[i].x
    <3>1. j \in 1 .. t /\ j # i
      BY <1>2
    <3>2. pick[i] # pick[j]
      BY <3>1
    <3> QED
      BY <1>1, <1>4, <3>1, <3>2, PointsAre
  <2>2. 1 \in 1 .. t
    BY <1>2
  <2>3. shares[1].y # <<>> /\ shares[1].y \in Seq(Byte)
    <3>1. shares[1].y # <<>>
      BY <1>1, Zenon DEF ValidShares
    <3>2. shares[1] \in Point
      BY <1>1, <1>2, PointsAre
    <3> QED
      BY <3>1, <3>2 DEF Point
  <2>4. picked[1].y # <<>>
    <3>1. picked[1].y \in Seq(Byte) /\ Len(picked[1].y) = Len(shares[1].y)
      <4>1. picked[1] \in Point
        BY <1>3, <2>2
      <4>2. Len(picked[1].y) = Len(shares[1].y)
        BY ONLY <1>5, <2>2
      <4> QED
        BY <4>1, <4>2 DEF Point
    <3> QED
      BY <2>3, <3>1
  <2>5. DOMAIN picked = 1 .. t
    BY <1>3
  <2>6. picked # <<>>
    BY ONLY <2>2, <2>5
  <2>7. \A i \in 1 .. t : Len(picked[i].y) = Len(picked[1].y)
    BY ONLY <1>5, <2>2
  <2> QED
    BY ONLY <1>5, <2>1, <2>4, <2>5, <2>6, <2>7, Zenon DEF ValidShares
<1>7. ASSUME NEW b \in B
      PROVE  /\ F[b] \in Poly(t)
             /\ \A j \in 1 .. Len(shares) : F[b][ToByte(shares[j].x)] = shares[j].y[b]
  <2>1. F[b] \in Poly(t) /\ \A i \in 1 .. t : Interpolate(SubSeq(shares, 1, t), b, ToByte(shares[i].x)) = shares[i].y[b]
    BY <1>1, InterpolateIs
  <2>2. \A j \in t + 1 .. Len(shares) : Interpolate(SubSeq(shares, 1, t), b, ToByte(shares[j].x)) = shares[j].y[b]
    BY DEF VerifyShares
  <2>3. \A j \in 1 .. Len(shares) : j \in 1 .. t \/ j \in t + 1 .. Len(shares)
    BY <1>2
  <2>4. \A j \in 1 .. Len(shares) : Interpolate(SubSeq(shares, 1, t), b, ToByte(shares[j].x)) = shares[j].y[b]
    BY <2>1, <2>2, <2>3
  <2>5. \A j \in 1 .. Len(shares) : ToByte(shares[j].x) \in Byte
    BY ToByteIsByte
  <2>6. \A x \in Byte : F[b][x] = Interpolate(SubSeq(shares, 1, t), b, x)
    OBVIOUS
  <2> HIDE DEF F
  <2> QED
    BY <2>1, <2>4, <2>5, <2>6
<1>8. F \in [B -> Poly(t)]
  BY <1>7
<1>9. DOMAIN picked[1].y = B /\ t \in 1 .. Len(picked)
  BY <1>2, <1>3, <1>5
<1> HIDE DEF F
<1>10. \A i \in 1 .. Len(picked), b \in DOMAIN picked[1].y : F[b][ToByte(picked[i].x)] = picked[i].y[b]
  BY <1>3, <1>4, <1>7, <1>9
<1> HIDE DEF B
<1>11. ReconstructSecret(picked, t) = [b \in B |-> F[b][{}]]
  <2>1. F \in [DOMAIN picked[1].y -> Poly(t)]
    BY <1>8, <1>9
  <2>2. ReconstructSecret(picked, t) = [b \in DOMAIN picked[1].y |-> F[b][{}]]
    BY ONLY <1>3, <1>6, <1>9, <1>10, <2>1, ReconstructsFrom
  <2> QED
    BY <1>9, <2>2
<1>12. ReconstructSecret(shares, t) = [b \in B |-> F[b][{}]]
  <2>1. F \in [DOMAIN shares[1].y -> Poly(t)]
    BY <1>8 DEF B
  <2>2. \A i \in 1 .. Len(shares), b \in DOMAIN shares[1].y : F[b][ToByte(shares[i].x)] = shares[i].y[b]
    BY <1>7 DEF B
  <2> QED
    BY ONLY <1>1, <2>1, <2>2, shares \in Seq(Point), t \in 1 .. Len(shares), ReconstructsFrom DEF B
<1> QED
  BY <1>11, <1>12 DEF picked

-----------------------------------------------------------------------------
\* Who can read what.

\* A plan that was accepted names as many holders as it has shares, no two of them one party, and
\* needs two shares or more unless the owner asked for less.
PlanOK(p) ==
    /\ p.threshold \in Nat \ {0} /\ p.allowSingle \in BOOLEAN
    /\ p.threshold = 1 => p.allowSingle
    /\ p.holders \in Seq(Parties)
    /\ \A i, j \in DOMAIN p.holders : p.holders[i] = p.holders[j] => i = j

\* planKeySharing accepts only such plans.
LEMMA AcceptedPlans ==
    ASSUME NEW c \in Configs, SharePlan(c) \notin {None, Refused}
    PROVE  PlanOK(SharePlan(c))
<1>1. /\ c.threshold \in Nat /\ c.holders \in Seq(PublicKeys) /\ c.allowSingle \in BOOLEAN
      /\ c.threshold # 0
      /\ c.threshold = 1 => c.allowSingle
      /\ \A i \in DOMAIN c.holders : c.holders[i].party # None
      /\ Distinct(c.holders)
      /\ SharePlan(c) = [threshold |-> c.threshold, allowSingle |-> c.allowSingle,
                         holders |-> [i \in DOMAIN c.holders |-> c.holders[i].party]]
  BY KeyManagerAssumption DEF KeyManagerAssumption, SharePlan
<1> DEFINE holders == [i \in DOMAIN c.holders |-> c.holders[i].party]
<1>2. holders \in Seq(Parties)
  <2>1. Len(c.holders) \in Nat /\ DOMAIN c.holders = 1 .. Len(c.holders)
    BY <1>1
  <2>2. ASSUME NEW i \in DOMAIN c.holders PROVE c.holders[i].party \in Parties
    <3>1. c.holders[i] \in PublicKeys
      BY <1>1, <2>1
    <3> QED
      BY <1>1, <3>1 DEF PublicKeys
  <2>3. holders \in [1 .. Len(c.holders) -> Parties]
    BY <2>1, <2>2
  <2> QED
    BY <2>1, <2>3
<1>3. \A i, j \in DOMAIN holders : holders[i] = holders[j] => i = j
  BY <1>1 DEF Distinct
<1>4. /\ SharePlan(c).threshold = c.threshold /\ SharePlan(c).allowSingle = c.allowSingle
      /\ SharePlan(c).holders = holders
  BY <1>1
<1> HIDE DEF holders
<1> QED
  BY <1>1, <1>2, <1>3, <1>4 DEF PlanOK

\* One envelope for each holder, numbered as the holders are.
LEMMA Wrapped ==
    ASSUME NEW m, NEW k, NEW p, PlanOK(p), NEW random
    PROVE  /\ \A s \in WrapKeyShares(m, k, p, random) :
                s.of = m /\ s.x \in DOMAIN p.holders /\ s.holder = p.holders[s.x]
           /\ \A s, t \in WrapKeyShares(m, k, p, random) : s.x = t.x => s = t
<1> DEFINE shares     == Shares(k, p, random)
           wrapped(x) == [x |-> x, threshold |-> p.threshold, holder |-> p.holders[x], of |-> m,
                          envelope |-> EncryptData(Owner[m], p.holders[x], shares[x].y, <<m, x>>)]
<1>1. DOMAIN shares = DOMAIN p.holders
  <2>1. DOMAIN shares = 1 .. Len(p.holders)
    BY DEF Shares, SplitSecret
  <2>2. DOMAIN p.holders = 1 .. Len(p.holders)
    BY DEF PlanOK
  <2> QED
    BY <2>1, <2>2
<1>2. WrapKeyShares(m, k, p, random) = {wrapped(x) : x \in DOMAIN shares}
  BY DEF WrapKeyShares
<1> HIDE DEF shares
<1>3. \A x : wrapped(x).x = x /\ wrapped(x).of = m /\ wrapped(x).holder = p.holders[x]
  OBVIOUS
<1> HIDE DEF wrapped
<1> QED
  BY <1>1, <1>2, <1>3

\* Each envelope is for the holder its number stands for in the plan of its model, and no model
\* has envelopes before it has been encrypted.
EnvelopesOK ==
    /\ plan = [m \in Models |-> plan[m]]
    /\ metadata = [m \in Models |-> metadata[m]]
    /\ \A m \in Shared : PlanOK(plan[m])
    /\ \A s \in envelopes : s.of \in Models /\ metadata[s.of] # None
    /\ \A s, t \in envelopes : s.of = t.of /\ s.holder = t.holder => s = t

\* EnvelopesOK is inductive: encryptModel adds one envelope per holder, once per model.
LEMMA EnvelopesHold == Spec => []EnvelopesOK
<1>1. Init => EnvelopesOK
  BY DEF Init, EnvelopesOK, Shared
<1>2. EnvelopesOK /\ [Next]_vars => EnvelopesOK'
  <2> SUFFICES ASSUME EnvelopesOK, [Next]_vars PROVE EnvelopesOK'
    OBVIOUS
  <2>1. ASSUME NEW m \in Models, NEW c \in Configs, EncryptModel(m, c) PROVE EnvelopesOK'
    <3>1. metadata[m] = None /\ plan' = [plan EXCEPT ![m] = SharePlan(c)]
      BY <2>1 DEF EncryptModel
    <3>2. plan' = [n \in Models |-> plan'[n]] /\ \A n \in Shared' : PlanOK(plan'[n])
      BY <3>1, AcceptedPlans DEF EnvelopesOK, Shared
    <3>3. \A s \in envelopes : s.of # m
      BY <3>1 DEF EnvelopesOK
    <3>4. CASE SharePlan(c) = Refused
      <4>1. UNCHANGED <<metadata, envelopes>>
        BY <2>1, <3>4 DEF EncryptModel
      <4> QED
        BY <3>2, <4>1 DEF EnvelopesOK
    <3>5. CASE SharePlan(c) # Refused
      <4>1. PICK k \in Keys :
              /\ metadata' = [metadata EXCEPT ![m] =
                     [encryptedKey |-> EncryptKeyForOwner(Owner[m], k, <<m, 0>>),
                      threshold |-> IF SharePlan(c) = None THEN 0 ELSE SharePlan(c).threshold]]
              /\ IF SharePlan(c) = None
                 THEN UNCHANGED envelopes
                 ELSE \E random \in Random :
                        envelopes' = envelopes \cup WrapKeyShares(m, k, SharePlan(c), random)
        BY <2>1, <3>5 DEF EncryptModel
      <4>2. metadata'[m] # None
        <5>1. (IF SharePlan(c) = None THEN 0 ELSE SharePlan(c).threshold) \in Nat
          BY <3>5, AcceptedPlans DEF PlanOK
        <5>2. Owner[m] \in Parties
          BY KeyManagerAssumption DEF KeyManagerAssumption
        <5>3. EncryptKeyForOwner(Owner[m], k, <<m, 0>>) \in
                  {EncryptKeyForOwner(p, q, <<n, 0>>) : p \in Parties, q \in Keys, n \in Models}
          BY <5>2
        <5>4. metadata'[m] = [encryptedKey |-> EncryptKeyForOwner(Owner[m], k, <<m, 0>>),
                              threshold |-> IF SharePlan(c) = None THEN 0 ELSE SharePlan(c).threshold]
          BY <4>1 DEF EnvelopesOK
        <5>5. metadata'[m] \in Metadata
          BY <5>1, <5>3, <5>4 DEF Metadata
        <5> QED
          BY <5>5, MetadataAssumption DEF MetadataAssumption
      <4>3. metadata' = [n \in Models |-> metadata'[n]] /\ \A n \in Models \ {m} : metadata'[n] = metadata[n]
        BY <4>1 DEF EnvelopesOK
      <4>4. CASE SharePlan(c) = None
        BY <3>2, <4>1, <4>2, <4>3, <4>4 DEF EnvelopesOK
      <4>5. CASE SharePlan(c) # None
        <5>1. PICK random \in Random : envelopes' = envelopes \cup WrapKeyShares(m, k, SharePlan(c), random)
          BY <4>1, <4>5
        <5> DEFINE new == WrapKeyShares(m, k, SharePlan(c), random)
                   holders == SharePlan(c).holders
        <5>2. \A i, j \in DOMAIN holders : holders[i] = holders[j] => i = j
          BY <3>5, <4>5, AcceptedPlans DEF PlanOK
        <5>3. /\ \A s \in new : s.of = m /\ s.x \in DOMAIN holders /\ s.holder = holders[s.x]
              /\ \A s, t \in new : s.x = t.x => s = t
          BY <3>5, <4>5, AcceptedPlans, Wrapped
        <5>5. \A s, t \in new : s.holder = t.holder => s = t
          BY <5>2, <5>3
        <5> HIDE DEF new
        <5>6. \A s \in envelopes' : s.of \in Models /\ metadata'[s.of] # None
          BY <3>3, <4>2, <4>3, <5>1, <5>3 DEF EnvelopesOK, new
        <5>7. \A s, t \in envelopes' : s.of = t.of /\ s.holder = t.holder => s = t
          BY <3>3, <5>1, <5>3, <5>5 DEF EnvelopesOK, new
        <5> QED
          BY <3>2, <4>3, <5>6, <5>7 DEF EnvelopesOK
      <4> QED
        BY <4>4, <4>5
    <3> QED
      BY <3>4, <3>5
  <2>2. CASE UNCHANGED <<plan, metadata, envelopes>>
    BY <2>2 DEF EnvelopesOK, Shared
  <2> QED
    BY <2>1, <2>2 DEF Next, HandOver, vars
<1> QED
  BY <1>1, <1>2, PTL DEF Spec

\* However the holders' keys are written, and whatever was encrypted side by side: unless the owner
\* allowed it, no other party can open as many shares of a key as recover it.
THEOREM NobodyRecoversAlone == Spec => []NobodyAlone
<1>1. EnvelopesOK => NobodyAlone
  <2> SUFFICES ASSUME EnvelopesOK, NEW m \in Shared, NEW p \in Parties, ~plan[m].allowSingle
               PROVE  Cardinality({s \in envelopes : s.of = m /\ UnwrapKeyShare(p, s, Owner[m]) # Error})
                          < plan[m].threshold
    BY DEF NobodyAlone
  <2> DEFINE readable == {s \in envelopes : s.of = m /\ UnwrapKeyShare(p, s, Owner[m]) # Error}
  <2>1. plan[m].threshold \in Nat /\ plan[m].threshold > 1
    <3>1. PlanOK(plan[m])
      BY DEF EnvelopesOK
    <3>2. plan[m].threshold # 1
      BY <3>1, Zenon DEF PlanOK
    <3> QED
      BY <3>1, <3>2 DEF PlanOK
  <2>2. \A s \in readable : s.of = m /\ s.holder = p
    BY DEF UnwrapKeyShare
  <2>3. \A s, t \in readable : s = t
    BY <2>2 DEF EnvelopesOK
  <2> HIDE DEF readable
  <2>4. Cardinality(readable) \in {0, 1}
    <3>1. CASE readable = {}
      BY <3>1, FS_EmptySet
    <3>2. CASE readable # {}
      <4>1. PICK s : readable = {s}
        BY <2>3, <3>2
      <4> QED
        BY <4>1, FS_Singleton
    <3> QED
      BY <3>1, <3>2
  <2> QED
    BY <2>1, <2>4 DEF readable
<1> QED
  BY <1>1, EnvelopesHold, PTL

-----------------------------------------------------------------------------
\* An envelope as wrapKeyShares makes it, around a share that is not an exception.
Sealed(s) ==
    /\ s.of \in Models /\ s.holder \in Parties /\ s.x \in Nat
    /\ \E y : /\ Error \notin {y, [x |-> s.x, y |-> y]}
              /\ s.envelope = EncryptData(Owner[s.of], s.holder, y, <<s.of, s.x>>)

SealedForOwner(m) ==
    \E k \in Keys :
        /\ metadata[m].encryptedKey = EncryptKeyForOwner(Owner[m], k, <<m, 0>>)
        /\ data[m] = Seal(k, m)

SealingOK ==
    /\ metadata = [m \in Models |-> metadata[m]] /\ data = [m \in Models |-> data[m]]
    /\ \A s \in envelopes : Sealed(s)
    /\ \A m \in Models : metadata[m] # None => SealedForOwner(m)

\* wrapKeyShares seals every share for its holder.
LEMMA WrappedAreSealed ==
    ASSUME NEW m \in Models, NEW k \in Keys, NEW c \in Configs, NEW random \in Random,
           SharePlan(c) \notin {None, Refused},
           NEW s \in WrapKeyShares(m, k, SharePlan(c), random)
    PROVE  Sealed(s)
<1> DEFINE p      == SharePlan(c)
           shares == Shares(k, p, random)
<1>1. PlanOK(p)
  BY AcceptedPlans
<1>2. shares = [x \in 1 .. Len(p.holders) |->
                   [x |-> x, y |-> [b \in DOMAIN k |-> Evaluate(Polynomials(k, p.threshold, random)[b], ToByte(x))]]]
  BY DEF Shares, SplitSecret
<1>3. DOMAIN shares = DOMAIN p.holders /\ DOMAIN shares \subseteq Nat
  <2>1. DOMAIN shares = 1 .. Len(p.holders)
    BY <1>2
  <2> QED
    BY <1>1, <2>1 DEF PlanOK
<1>4. \A x \in DOMAIN shares : shares[x] = [x |-> x, y |-> shares[x].y]
  BY <1>2
<1>5. \A x \in DOMAIN shares : Error \notin {shares[x], shares[x].y}
  BY ErrorAssumption DEF ErrorAssumption
<1> HIDE DEF shares, p
<1>6. PICK x \in DOMAIN shares :
          s = [x |-> x, threshold |-> p.threshold, holder |-> p.holders[x], of |-> m,
               envelope |-> EncryptData(Owner[m], p.holders[x], shares[x].y, <<m, x>>)]
  BY DEF WrapKeyShares, shares, p
<1>7. /\ s.of = m /\ s.x = x /\ s.holder = p.holders[x]
      /\ s.envelope = EncryptData(Owner[m], p.holders[x], shares[x].y, <<m, x>>)
  BY <1>6
<1>8. p.holders[x] \in Parties
  BY <1>1, <1>3 DEF PlanOK
<1> QED
  BY <1>3, <1>4, <1>5, <1>7, <1>8 DEF Sealed

\* SealingOK is inductive.
LEMMA SealingHolds == Spec => []SealingOK
<1>1. Init => SealingOK
  BY DEF Init, SealingOK
<1>2. SealingOK /\ [Next]_vars => SealingOK'
  <2> SUFFICES ASSUME SealingOK, [Next]_vars PROVE SealingOK'
    OBVIOUS
  <2>1. ASSUME NEW m \in Models, NEW c \in Configs, EncryptModel(m, c) PROVE SealingOK'
    <3>1. CASE SharePlan(c) = Refused
      <4>1. UNCHANGED <<metadata, data, envelopes>>
        BY <2>1, <3>1 DEF EncryptModel
      <4> QED
        BY <4>1 DEF SealingOK, SealedForOwner
    <3>2. CASE SharePlan(c) # Refused
      <4>1. PICK k \in Keys :
              /\ data' = [data EXCEPT ![m] = Seal(k, m)]
              /\ metadata' = [metadata EXCEPT ![m] =
                     [encryptedKey |-> EncryptKeyForOwner(Owner[m], k, <<m, 0>>),
                      threshold |-> IF SharePlan(c) = None THEN 0 ELSE SharePlan(c).threshold]]
              /\ IF SharePlan(c) = None
                 THEN UNCHANGED envelopes
                 ELSE \E random \in Random :
                        envelopes' = envelopes \cup WrapKeyShares(m, k, SharePlan(c), random)
        BY <2>1, <3>2 DEF EncryptModel
      <4>2. \A s \in envelopes' : Sealed(s)
        BY <3>2, <4>1, WrappedAreSealed DEF SealingOK
      <4>3. /\ metadata' = [n \in Models |-> metadata'[n]] /\ data' = [n \in Models |-> data'[n]]
            /\ \A n \in Models \ {m} : metadata'[n] = metadata[n] /\ data'[n] = data[n]
            /\ metadata'[m].encryptedKey = EncryptKeyForOwner(Owner[m], k, <<m, 0>>)
            /\ data'[m] = Seal(k, m)
        BY <4>1 DEF SealingOK
      <4> QED
        BY <4>2, <4>3 DEF SealingOK, SealedForOwner
    <3> QED
      BY <3>1, <3>2
  <2>2. CASE UNCHANGED <<metadata, data, envelopes>>
    BY <2>2 DEF SealingOK, SealedForOwner
  <2> QED
    BY <2>1, <2>2 DEF Next, HandOver, vars
<1> QED
  BY <1>1, <1>2, PTL DEF Spec

\* A box opens with its own key and with no other.
LEMMA OpenSealed ==
    ASSUME NEW k, NEW content
    PROVE  Open(Seal(k, content), k) = content /\ \A j : j # k => Open(Seal(k, content), j) = Error
BY DEF Open, Seal

\* Opening an envelope takes the parties and the salt it was sealed with.
LEMMA SealedTo ==
    ASSUME NEW s, Sealed(s), NEW p \in Parties, NEW q \in Parties
    PROVE  UnwrapKeyShare(p, s, q) # Error <=> p = s.holder /\ q = Owner[s.of]
<1> USE KeyManagerAssumption DEF KeyManagerAssumption
<1>1. PICK y : /\ Error \notin {y, [x |-> s.x, y |-> y]}
              /\ s.envelope = EncryptData(Owner[s.of], s.holder, y, <<s.of, s.x>>)
  BY DEF Sealed
<1> DEFINE e    == s.envelope
           name == <<s.of, s.x>>
<1>2. /\ e.scheme = "V2" /\ e.cleartextKey = FALSE /\ e.complete = TRUE
      /\ e.sender = Owner[s.of] /\ e.recipient = s.holder /\ e.salt = name
      /\ e.wrappedKey = Seal(SharedKey(Owner[s.of], s.holder, name, Owner[s.of], s.holder), <<"key of", name>>)
      /\ e.box = Seal(<<"key of", name>>, y)
  <2> DEFINE lock == Seal(SharedKey(Owner[s.of], s.holder, name, Owner[s.of], s.holder), <<"key of", name>>)
             box  == Seal(<<"key of", name>>, y)
             from == Owner[s.of]
             to   == s.holder
  <2>1. e = [scheme |-> "V2", cleartextKey |-> FALSE, complete |-> TRUE,
             sender |-> from, recipient |-> to, salt |-> name, wrappedKey |-> lock, box |-> box]
    BY <1>1 DEF EncryptData
  <2> HIDE DEF e, name, lock, box, from, to
  <2>2. /\ e.scheme = "V2" /\ e.cleartextKey = FALSE /\ e.complete = TRUE
        /\ e.sender = from /\ e.recipient = to /\ e.salt = name /\ e.wrappedKey = lock /\ e.box = box
    BY <2>1
  <2> QED
    BY <2>2 DEF from, to, lock, box
<1>3. <<"key of", name>> # Error
  <2>1. <<"key of", name>> \in {"key of"} \X (Models \X Nat)
    BY DEF Sealed
  <2> QED
    BY <2>1, ErrorAssumption DEF ErrorAssumption
<1> HIDE DEF e, name
<1>4. q # None
  OBVIOUS
<1>5. CASE p # s.holder \/ q # Owner[s.of]
  <2>1. CASE p # s.holder
    BY <2>1 DEF UnwrapKeyShare
  <2>2. CASE q # Owner[s.of]
    <3>1. DecryptData(p, s.envelope, q) = Error
      BY <1>2, <1>4, <2>2 DEF DecryptData, SenderIsExpected, e
    <3> QED
      BY <2>2, <3>1 DEF UnwrapKeyShare
  <2> QED
    BY <1>5, <2>1, <2>2
<1>6. CASE p = s.holder /\ q = Owner[s.of]
  <2>1. SharedKey(p, e.sender, e.salt, e.sender, e.recipient)
            = SharedKey(Owner[s.of], s.holder, name, Owner[s.of], s.holder)
    BY <1>2, <1>6 DEF SharedKey
  <2>2. Open(e.wrappedKey, SharedKey(p, e.sender, e.salt, e.sender, e.recipient)) = <<"key of", name>>
    <3> DEFINE k == SharedKey(Owner[s.of], s.holder, name, Owner[s.of], s.holder)
    <3>1. e.wrappedKey = Seal(k, <<"key of", name>>)
      BY <1>2
    <3>2. Open(Seal(k, <<"key of", name>>), k) = <<"key of", name>>
      BY OpenSealed
    <3> HIDE DEF k
    <3> QED
      BY <2>1, <3>1, <3>2, Zenon DEF k
  <2>3. Open(e.box, <<"key of", name>>) = y
    BY <1>2, OpenSealed, Zenon
  <2>4. DecryptData(p, s.envelope, q) = y
    BY <1>2, <1>3, <1>6, <2>2, <2>3 DEF DecryptData, SenderIsExpected, e
  <2> QED
    BY <1>1, <1>6, <2>4 DEF UnwrapKeyShare
<1> QED
  BY <1>5, <1>6

\* The fields of a derived key.
LEMMA KeyFields ==
    ASSUME NEW p, NEW peer, NEW salt, NEW sender, NEW recipient
    PROVE  /\ SharedKey(p, peer, salt, sender, recipient).salt = salt
           /\ SharedKey(p, peer, salt, sender, recipient).info = <<sender, recipient>>
<1>1. SharedKey(p, peer, salt, sender, recipient).salt = salt
  BY DEF SharedKey
<1>2. SharedKey(p, peer, salt, sender, recipient).info = <<sender, recipient>>
  BY DEF SharedKey
<1> QED
  BY <1>1, <1>2

\* A derived key names its salt and both parties, in order.
LEMMA KeyBinds ==
    ASSUME NEW p, NEW peer, NEW salt, NEW sender, NEW recipient,
           NEW q, NEW other, NEW name, NEW from, NEW to,
           SharedKey(p, peer, salt, sender, recipient) = SharedKey(q, other, name, from, to)
    PROVE  salt = name /\ sender = from /\ recipient = to
<1> DEFINE a == SharedKey(p, peer, salt, sender, recipient)
           b == SharedKey(q, other, name, from, to)
<1>1. a.salt = salt /\ a.info = <<sender, recipient>> /\ b.salt = name /\ b.info = <<from, to>>
  BY KeyFields
<1>2. a = b
  OBVIOUS
<1> HIDE DEF a, b
<1>3. salt = name /\ <<sender, recipient>> = <<from, to>>
  BY <1>1, <1>2, Zenon
<1> QED
  BY <1>3

\* To write into a field what is there already changes nothing.
LEMMA SameField ==
    ASSUME NEW scheme, NEW cleartextKey, NEW complete, NEW sender, NEW recipient, NEW salt, NEW lock, NEW box,
           NEW old, old = [scheme |-> scheme, cleartextKey |-> cleartextKey, complete |-> complete, sender |-> sender,
                           recipient |-> recipient, salt |-> salt, wrappedKey |-> lock, box |-> box]
    PROVE  /\ \A e : e = [old EXCEPT !.salt = salt] => e = old
           /\ \A e : e = [old EXCEPT !.sender = sender] => e = old
           /\ \A e : e = [old EXCEPT !.recipient = recipient] => e = old
<1>1. \A e : e = [old EXCEPT !.salt = salt] => e = old
  OBVIOUS
<1>2. \A e : e = [old EXCEPT !.sender = sender] => e = old
  OBVIOUS
<1>3. \A e : e = [old EXCEPT !.recipient = recipient] => e = old
  OBVIOUS
<1> QED
  BY <1>1, <1>2, <1>3

\* An envelope whose salt or parties are not those it was sealed with.
LEMMA SealedApart ==
    ASSUME NEW e, NEW from, NEW to, NEW name, NEW content, NEW p, NEW q,
           e.wrappedKey = Seal(SharedKey(from, to, name, from, to), content),
           e.salt # name \/ e.sender # from \/ e.recipient # to
    PROVE  DecryptData(p, e, q) = Error
<1>1. SharedKey(p, e.sender, e.salt, e.sender, e.recipient) # SharedKey(from, to, name, from, to)
  <2> SUFFICES ASSUME SharedKey(p, e.sender, e.salt, e.sender, e.recipient) = SharedKey(from, to, name, from, to)
               PROVE  FALSE
    OBVIOUS
  <2>1. e.salt = name /\ e.sender = from /\ e.recipient = to
    BY KeyBinds
  <2> QED
    BY <2>1
<1>2. Open(e.wrappedKey, SharedKey(p, e.sender, e.salt, e.sender, e.recipient)) = Error
  <2> DEFINE sealing == SharedKey(from, to, name, from, to)
  <2>1. \A j : j # sealing => Open(Seal(sealing, content), j) = Error
    BY OpenSealed
  <2>2. e.wrappedKey = Seal(sealing, content)
    OBVIOUS
  <2>3. SharedKey(p, e.sender, e.salt, e.sender, e.recipient) # sealing
    BY <1>1
  <2> HIDE DEF sealing
  <2> QED
    BY <2>1, <2>2, <2>3, Zenon
<1> QED
  BY <1>2 DEF DecryptData

\* An envelope with any field changed opens for nobody.
LEMMA ChangedIsUseless ==
    ASSUME NEW old, NEW from, NEW to, NEW content, NEW name, old = EncryptData(from, to, content, name),
           NEW e \in Changed(old), e # old, NEW p, NEW q
    PROVE  DecryptData(p, e, q) = Error
<1> DEFINE lock == Seal(SharedKey(from, to, name, from, to), <<"key of", name>>)
           box  == Seal(<<"key of", name>>, content)
<1>1. old = [scheme |-> "V2", cleartextKey |-> FALSE, complete |-> TRUE,
             sender |-> from, recipient |-> to, salt |-> name, wrappedKey |-> lock, box |-> box]
  BY DEF EncryptData
<1>2. e.wrappedKey = lock => (e.salt # name \/ e.sender # from \/ e.recipient # to => DecryptData(p, e, q) = Error)
  BY SealedApart, Zenon
<1> HIDE DEF lock, box
<1>same. /\ \A x : x = [old EXCEPT !.salt = name] => x = old
         /\ \A x : x = [old EXCEPT !.sender = from] => x = old
         /\ \A x : x = [old EXCEPT !.recipient = to] => x = old
  <2>1. PICK v2, no, yes : v2 = "V2" /\ no = FALSE /\ yes = TRUE
    OBVIOUS
  <2>2. old = [scheme |-> v2, cleartextKey |-> no, complete |-> yes,
               sender |-> from, recipient |-> to, salt |-> name, wrappedKey |-> lock, box |-> box]
    BY <1>1, <2>1, Zenon
  <2> QED
    BY ONLY <2>2, SameField
<1>3. ASSUME NEW v, e = [old EXCEPT !.salt = v] PROVE e.wrappedKey = lock /\ e.salt # name
  <2>1. e.wrappedKey = lock /\ e.salt = v
    BY ONLY <1>1, <1>3, SMT
  <2>2. ASSUME v = name PROVE e = old
    <3>1. e = [old EXCEPT !.salt = name]
      BY <1>3, <2>2, Zenon
    <3> QED
      BY <1>same, <3>1, Zenon
  <2> QED
    BY <2>1, <2>2
<1>4. ASSUME NEW v, e = [old EXCEPT !.sender = v] PROVE e.wrappedKey = lock /\ e.sender # from
  <2>1. e.wrappedKey = lock /\ e.sender = v
    BY ONLY <1>1, <1>4, SMT
  <2>2. ASSUME v = from PROVE e = old
    <3>1. e = [old EXCEPT !.sender = from]
      BY <1>4, <2>2, Zenon
    <3> QED
      BY <1>same, <3>1, Zenon
  <2> QED
    BY <2>1, <2>2
<1>5. ASSUME NEW v, e = [old EXCEPT !.recipient = v] PROVE e.wrappedKey = lock /\ e.recipient # to
  <2>1. e.wrappedKey = lock /\ e.recipient = v
    BY ONLY <1>1, <1>5, SMT
  <2>2. ASSUME v = to PROVE e = old
    <3>1. e = [old EXCEPT !.recipient = to]
      BY <1>5, <2>2, Zenon
    <3> QED
      BY <1>same, <3>1, Zenon
  <2> QED
    BY <2>1, <2>2
<1>6. ASSUME e = [old EXCEPT !.sender = old.recipient, !.recipient = old.sender]
      PROVE  e.wrappedKey = lock /\ (e.sender # from \/ e.recipient # to)
  <2>1. e.wrappedKey = lock /\ e.sender = to /\ e.recipient = from
    BY ONLY <1>1, <1>6, SMT
  <2>2. ASSUME from = to PROVE e = old
    <3>1. PICK half : half = [old EXCEPT !.sender = from]
      OBVIOUS
    <3>2. half = old
      BY <1>same, <3>1, Zenon
    <3>3. old.sender = from /\ old.recipient = to
      BY ONLY <1>1, SMT
    <3>4. e = [half EXCEPT !.recipient = to]
      BY <1>6, <2>2, <3>1, <3>3, Zenon
    <3>5. e = [old EXCEPT !.recipient = to]
      BY <3>2, <3>4, Zenon
    <3> QED
      BY <1>same, <3>5, Zenon
  <2> QED
    BY <2>1, <2>2
<1>7. ASSUME e = [old EXCEPT !.scheme = "V1"] PROVE e.scheme # "V2"
  <2>1. e.scheme = "V1"
    BY ONLY <1>1, <1>7, SMT
  <2> QED
    BY <2>1
<1>8. ASSUME e = [old EXCEPT !.cleartextKey = TRUE] PROVE e.cleartextKey
  BY ONLY <1>1, <1>8, SMT
<1>9. ASSUME e = [old EXCEPT !.complete = FALSE] PROVE ~e.complete
  BY ONLY <1>1, <1>9, SMT
<1>10. \/ e = [old EXCEPT !.scheme = "V1"]
       \/ e = [old EXCEPT !.cleartextKey = TRUE]
       \/ e = [old EXCEPT !.complete = FALSE]
       \/ \E v : \/ e = [old EXCEPT !.salt = v] \/ e = [old EXCEPT !.sender = v]
               \/ e = [old EXCEPT !.recipient = v]
       \/ e = [old EXCEPT !.sender = old.recipient, !.recipient = old.sender]
  BY Zenon DEF Changed
<1>11. CASE e.scheme # "V2" \/ e.cleartextKey \/ ~e.complete
  BY <1>11, Zenon DEF DecryptData
<1> QED
  BY <1>2, <1>3, <1>4, <1>5, <1>6, <1>7, <1>8, <1>9, <1>10, <1>11, Zenon

\* A model opens for its owner, with its own key.
LEMMA SealedModel ==
    ASSUME NEW m \in Models, SealedForOwner(m), NEW p \in Parties
    PROVE  DecryptModel(p, m) = IF p = Owner[m] THEN m ELSE Error
<1>1. PICK k \in Keys : /\ metadata[m].encryptedKey = EncryptKeyForOwner(Owner[m], k, <<m, 0>>)
                        /\ data[m] = Seal(k, m)
  BY DEF SealedForOwner
<1>2. k # Error
  BY ErrorAssumption DEF ErrorAssumption
<1>3. OwnerKey(p, <<m, 0>>) = OwnerKey(Owner[m], <<m, 0>>) <=> p = Owner[m]
  BY DEF OwnerKey
<1>4. DecryptKeyFromOwner(p, metadata[m].encryptedKey) = IF p = Owner[m] THEN k ELSE Error
  BY <1>1, <1>3 DEF DecryptKeyFromOwner, EncryptKeyForOwner, Open, Seal
<1>5. Open(data[m], k) = m
  BY <1>1 DEF Open, Seal
<1> QED
  BY <1>2, <1>4, <1>5 DEF DecryptModel

\* Whatever was encrypted side by side: a share opens for its holder, as coming from its owner, and
\* for nobody else; an envelope that was changed opens for nobody; a model opens for its owner only.
THEOREM NamedReadersOnly == Spec => []ReadersAreNamed
<1>1. SealingOK => ReadersAreNamed
  <2> SUFFICES ASSUME SealingOK PROVE ReadersAreNamed
    OBVIOUS
  <2>1. ASSUME NEW s \in envelopes, NEW p \in Parties, NEW q \in Parties
        PROVE  UnwrapKeyShare(p, s, q) # Error <=> p = s.holder /\ q = Owner[s.of]
    BY SealedTo DEF SealingOK
  <2>2. ASSUME NEW s \in envelopes, NEW p \in Parties, NEW q \in Parties,
               NEW e \in Changed(s.envelope) \ {s.envelope}
        PROVE  DecryptData(p, e, q) = Error
    <3>1. PICK from, to, content, name : s.envelope = EncryptData(from, to, content, name)
      <4>1. PICK y : s.envelope = EncryptData(Owner[s.of], s.holder, y, <<s.of, s.x>>)
        BY DEF SealingOK, Sealed
      <4> QED
        BY <4>1, Zenon
    <3>2. e \in Changed(s.envelope) /\ e # s.envelope
      OBVIOUS
    <3> DEFINE old == s.envelope
    <3>3. old = EncryptData(from, to, content, name) /\ e \in Changed(old) /\ e # old
      BY <3>1, <3>2
    <3>4. \A e1 \in Changed(old) : e1 # old => DecryptData(p, e1, q) = Error
      BY <3>3, ChangedIsUseless
    <3> HIDE DEF old
    <3> QED
      BY <3>3, <3>4, Zenon
  <2>3. ASSUME NEW m \in Models, NEW p \in Parties, metadata[m] # None
        PROVE  DecryptModel(p, m) = IF p = Owner[m] THEN m ELSE Error
    BY <2>3, SealedModel DEF SealingOK
  <2> QED
    BY <2>1, <2>2, <2>3 DEF ReadersAreNamed
<1> QED
  BY <1>1, SealingHolds, PTL

-----------------------------------------------------------------------------
\* The shares of the models: whoever has enough of them has the key, and one alone says nothing.

\* The shares of a secret are points of polynomials, whose values at zero are its bytes.
Hides(k, threshold, F) ==
    /\ F \in [DOMAIN k -> Poly(threshold)]
    /\ \A b \in DOMAIN k : F[b][{}] = k[b]
PointOf(k, F, x) == [x |-> x, y |-> [b \in DOMAIN k |-> F[b][ToByte(x)]]]
RandomFor(random, k, threshold) == \A b \in DOMAIN k, i \in 1 .. threshold - 1 : random[b][i] \in Byte
Splits(k, threshold, total, random, F) ==
    /\ Hides(k, threshold, F)
    /\ SplitSecret(k, threshold, total, random) = [x \in 1 .. total |-> PointOf(k, F, x)]

\* Every secret is split that way.
LEMMA SplitIs ==
    ASSUME NEW k \in Seq(Byte), NEW threshold \in Nat, threshold > 0, NEW total, NEW random, RandomFor(random, k, threshold)
    PROVE  \E F : Splits(k, threshold, total, random, F)
<1> DEFINE P == Polynomials(k, threshold, random)
           F == [b \in DOMAIN k |-> [x \in Byte |-> Evaluate(P[b], x)]]
<1>1. ASSUME NEW b \in DOMAIN k
      PROVE  P[b] \in Seq(Byte) /\ Len(P[b]) = threshold /\ P[b][1] = k[b]
  <2> DEFINE above == [i \in 1 .. threshold - 1 |-> random[b][i]]
  <2>1. above \in [1 .. threshold - 1 -> Byte] /\ threshold - 1 \in Nat
    BY DEF RandomFor
  <2>2. P[b] = <<k[b]>> \o above
    BY DEF Polynomials
  <2>3. k[b] \in Byte
    OBVIOUS
  <2> HIDE DEF above, P
  <2>4. above \in Seq(Byte) /\ Len(above) = threshold - 1
    BY <2>1
  <2> QED
    BY <2>2, <2>3, <2>4
<1> HIDE DEF P
<1>2. ASSUME NEW b \in DOMAIN k PROVE F[b] \in Poly(threshold) /\ F[b][{}] = k[b]
  <2>1. [x \in Byte |-> Evaluate(P[b], x)] \in Poly(Len(P[b]))
    BY <1>1, EvaluateIsPoly
  <2>2. F[b] = [x \in Byte |-> Evaluate(P[b], x)]
    OBVIOUS
  <2>3. F[b][{}] = Evaluate(P[b], {})
    BY OpTypes
  <2>4. Evaluate(P[b], {}) = P[b][1]
    BY <1>1, EvaluateAtZero
  <2> HIDE DEF F
  <2> QED
    BY <1>1, <2>1, <2>2, <2>3, <2>4
<1>3. Hides(k, threshold, F)
  BY <1>2 DEF Hides
<1>4. SplitSecret(k, threshold, total, random) = [x \in 1 .. total |-> PointOf(k, F, x)]
  <2>1. \A x : [b \in DOMAIN k |-> Evaluate(P[b], ToByte(x))] = [b \in DOMAIN k |-> F[b][ToByte(x)]]
    BY ToByteIsByte
  <2>2. SplitSecret(k, threshold, total, random)
          = [x \in 1 .. total |-> [x |-> x, y |-> [b \in DOMAIN k |-> Evaluate(P[b], ToByte(x))]]]
    BY DEF SplitSecret, P
  <2> HIDE DEF F
  <2> QED
    BY <2>1, <2>2 DEF PointOf
<1> HIDE DEF F
<1> QED
  BY <1>3, <1>4 DEF Splits

\* How many shares an accepted plan makes and how many it takes.
LEMMA AcceptedSizes ==
    ASSUME NEW c \in Configs, SharePlan(c) \notin {None, Refused}
    PROVE  /\ SharePlan(c).threshold = c.threshold
           /\ SharePlan(c).threshold <= Len(SharePlan(c).holders)
           /\ Len(SharePlan(c).holders) <= 255
<1>1. /\ c.threshold \in Nat /\ c.total \in Nat /\ c.holders \in Seq(PublicKeys)
      /\ ValidParameters(c.threshold, c.total) /\ Len(c.holders) = c.total
      /\ SharePlan(c) = [threshold |-> c.threshold, allowSingle |-> c.allowSingle,
                         holders |-> [i \in DOMAIN c.holders |-> c.holders[i].party]]
  BY KeyManagerAssumption DEF KeyManagerAssumption, SharePlan
<1>2. DOMAIN SharePlan(c).holders = 1 .. c.total /\ SharePlan(c).threshold = c.threshold
  BY <1>1
<1>3. SharePlan(c).holders \in Seq(Parties)
  BY AcceptedPlans DEF PlanOK
<1>4. Len(SharePlan(c).holders) = c.total
  BY <1>1, <1>2, <1>3
<1> QED
  BY <1>1, <1>2, <1>4 DEF ValidParameters

\* Each share of a model, in its envelope or handed over, is a point of polynomials that hide its key.
SharedBy(m, F) ==
    /\ key[m] \in Keys
    /\ plan[m].threshold <= Len(plan[m].holders) /\ Len(plan[m].holders) <= 255
    /\ Hides(key[m], plan[m].threshold, F)
    /\ \A s \in envelopes : s.of = m =>
         /\ s.x \in 1 .. Len(plan[m].holders)
         /\ s.envelope = EncryptData(Owner[m], s.holder, PointOf(key[m], F, s.x).y, <<m, s.x>>)
    /\ \A i \in DOMAIN collected : collected[i].of = m =>
         \E x \in 1 .. Len(plan[m].holders) : collected[i].share = PointOf(key[m], F, x)

SharesOK ==
    /\ key = [m \in Models |-> key[m]]
    /\ collected \in Seq([share : Point, of : Shared])
    /\ \A i \in DOMAIN collected : metadata[collected[i].of] # None
    /\ \A s \in envelopes : s.of \in Shared
    /\ \A m \in Shared : \E F : SharedBy(m, F)

\* Such a share is a point.
LEMMA PointOfIs ==
    ASSUME NEW k \in Seq(Byte), NEW threshold \in Nat, NEW F, Hides(k, threshold, F), NEW x \in Nat
    PROVE  /\ PointOf(k, F, x) \in Point /\ PointOf(k, F, x).x = x
           /\ DOMAIN PointOf(k, F, x).y = DOMAIN k
           /\ \A b \in DOMAIN k : PointOf(k, F, x).y[b] = F[b][ToByte(x)] /\ F[b][ToByte(x)] \in Byte
<1>1. \A b \in DOMAIN k : F[b][ToByte(x)] \in Byte
  <2>1. ASSUME NEW b \in DOMAIN k PROVE F[b][ToByte(x)] \in Byte
    <3>1. F[b] \in Poly(threshold) /\ ToByte(x) \in Byte
      BY ToByteIsByte DEF Hides
    <3> QED
      BY <3>1, PolyType
  <2> QED
    BY <2>1
<1> DEFINE y == [b \in DOMAIN k |-> F[b][ToByte(x)]]
<1>2. y \in Seq(Byte)
  <2>1. DOMAIN k = 1 .. Len(k) /\ Len(k) \in Nat
    OBVIOUS
  <2>2. y \in [1 .. Len(k) -> Byte]
    BY <1>1, <2>1
  <2> HIDE DEF y
  <2> QED
    BY <2>1, <2>2
<1>3. PointOf(k, F, x).x = x /\ PointOf(k, F, x).y = y /\ PointOf(k, F, x) = [x |-> x, y |-> y]
  BY DEF PointOf
<1> QED
  BY <1>1, <1>2, <1>3 DEF Point

\* What an envelope opens to, if it opens, is what was sealed in it.
LEMMA OpensAsSealed ==
    ASSUME NEW s, NEW from, NEW to, NEW y, NEW name, s.envelope = EncryptData(from, to, y, name),
           NEW p, NEW q, UnwrapKeyShare(p, s, q) # Error
    PROVE  UnwrapKeyShare(p, s, q) = [x |-> s.x, y |-> y]
<1> DEFINE e == s.envelope
<1>1. e.box = Seal(<<"key of", name>>, y)
  <2> DEFINE lock == Seal(SharedKey(from, to, name, from, to), <<"key of", name>>)
             box  == Seal(<<"key of", name>>, y)
  <2>1. e = [scheme |-> "V2", cleartextKey |-> FALSE, complete |-> TRUE,
             sender |-> from, recipient |-> to, salt |-> name, wrappedKey |-> lock, box |-> box]
    BY DEF EncryptData
  <2> HIDE DEF e, lock, box
  <2>2. e.box = box
    BY <2>1
  <2> QED
    BY <2>2 DEF box
<1>2. DecryptData(p, e, q) # Error /\ UnwrapKeyShare(p, s, q) = [x |-> s.x, y |-> DecryptData(p, e, q)]
  BY DEF UnwrapKeyShare
<1> HIDE DEF e
<1>3. PICK k : DecryptData(p, e, q) = Open(e.box, k)
  BY <1>2, Zenon DEF DecryptData
<1>4. Open(e.box, k) = y
  <2> DEFINE sealing == <<"key of", name>>
  <2>2. e.box = Seal(sealing, y) /\ Open(e.box, k) # Error
    BY <1>1, <1>2, <1>3
  <2> HIDE DEF sealing
  <2>1. Open(Seal(sealing, y), sealing) = y /\ \A j : j # sealing => Open(Seal(sealing, y), j) = Error
    BY ONLY OpenSealed
  <2> QED
    BY ONLY <2>1, <2>2
<1> QED
  BY <1>2, <1>3, <1>4

\* SharesOK is inductive: encryptModel seals points, and whoever opens an envelope finds what was sealed.
LEMMA SharesHold == Spec => []SharesOK
<1>1. Init => SharesOK
  BY DEF Init, SharesOK, Shared
<1>2. EnvelopesOK /\ EnvelopesOK' /\ SharesOK /\ [Next]_vars => SharesOK'
  <2> SUFFICES ASSUME EnvelopesOK, EnvelopesOK', SharesOK, [Next]_vars PROVE SharesOK'
    OBVIOUS
  <2>0. /\ key = [m \in Models |-> key[m]] /\ plan = [m \in Models |-> plan[m]]
        /\ metadata = [m \in Models |-> metadata[m]]
        /\ collected \in Seq([share : Point, of : Shared])
        /\ Shared \subseteq Models
    BY DEF SharesOK, EnvelopesOK, Shared
  <2>t. \A i \in DOMAIN collected : collected[i] \in [share : Point, of : Shared]
    <3> DEFINE R == [share : Point, of : Shared]
    <3>1. collected \in Seq(R)
      BY <2>0
    <3> HIDE DEF R
    <3>2. \A i \in DOMAIN collected : collected[i] \in R
      BY <3>1
    <3> QED
      BY <3>2 DEF R
  <2>1. ASSUME NEW m \in Models, NEW c \in Configs, EncryptModel(m, c) PROVE SharesOK'
    <3>1. /\ metadata[m] = None /\ plan' = [plan EXCEPT ![m] = SharePlan(c)] /\ collected' = collected
          /\ \/ key' = key
             \/ \E k \in Keys : key' = [key EXCEPT ![m] = k]
          /\ \/ metadata' = metadata
             \/ \E v : metadata' = [metadata EXCEPT ![m] = v]
      BY <2>1 DEF EncryptModel
    <3>2. /\ key' = [n \in Models |-> key'[n]] /\ plan'[m] = SharePlan(c)
          /\ \A n \in Models : n # m => key'[n] = key[n] /\ plan'[n] = plan[n] /\ metadata'[n] = metadata[n]
      BY <2>0, <3>1
    <3>3. \A s \in envelopes : s.of \in Shared /\ s.of # m
      BY <3>1 DEF EnvelopesOK, SharesOK
    <3>4. \A i \in DOMAIN collected : collected[i].of \in Shared /\ collected[i].of # m
      <4>1. \A i \in DOMAIN collected : collected[i].of \in Shared
        BY <2>t
      <4> QED
        BY <3>1, <4>1 DEF SharesOK
    <3>5. \A n \in Shared : n # m => n \in Shared'
      BY <3>2, <2>0 DEF Shared
    <3>6. collected' \in Seq([share : Point, of : Shared'])
      <4>1. ASSUME NEW i \in 1 .. Len(collected) PROVE collected[i] \in [share : Point, of : Shared']
        <5>1. collected[i] \in [share : Point, of : Shared]
          BY <2>0, <2>t
        <5>2. collected[i].of \in Shared'
          BY <2>0, <3>4, <3>5
        <5> QED
          BY <5>1, <5>2
      <4>2. collected \in [1 .. Len(collected) -> [share : Point, of : Shared']] /\ Len(collected) \in Nat
        BY <2>0, <4>1
      <4> DEFINE R == [share : Point, of : Shared']
      <4>3. collected \in [1 .. Len(collected) -> R]
        BY <4>2
      <4> HIDE DEF R
      <4>4. collected \in Seq(R)
        BY <4>2, <4>3
      <4> QED
        BY <3>1, <4>4 DEF R
    <3>7. \A i \in DOMAIN collected' : metadata'[collected'[i].of] # None
      BY <2>0, <3>1, <3>2, <3>4 DEF SharesOK
    <3>8. CASE SharePlan(c) \in {None, Refused}
      <4>1. envelopes' = envelopes
        BY <2>1, <3>8 DEF EncryptModel
      <4>2. ASSUME NEW n \in Shared' PROVE \E F : SharedBy(n, F)'
        <5>1. n \in Shared /\ n # m
          BY <2>0, <3>2, <3>8 DEF Shared
        <5>2. PICK F : SharedBy(n, F)
          BY <5>1 DEF SharesOK
        <5>3. key'[n] = key[n] /\ plan'[n] = plan[n]
          BY <2>0, <3>2, <5>1
        <5>4. SharedBy(n, F)'
          BY <3>1, <4>1, <5>2, <5>3 DEF SharedBy
        <5> QED
          BY <5>4
      <4> QED
        BY <3>2, <3>3, <3>5, <3>6, <3>7, <4>1, <4>2 DEF SharesOK
    <3>9. CASE SharePlan(c) \notin {None, Refused}
      <4> DEFINE p == SharePlan(c)
      <4>1. PICK k \in Keys, random \in Random :
              /\ key' = [key EXCEPT ![m] = k]
              /\ envelopes' = envelopes \cup WrapKeyShares(m, k, p, random)
        BY <2>1, <3>9 DEF EncryptModel
      <4>2. PlanOK(p) /\ p.threshold = c.threshold /\ p.threshold <= Len(p.holders) /\ Len(p.holders) <= 255
        BY <3>9, AcceptedPlans, AcceptedSizes
      <4>3. k \in Seq(Byte) /\ \A b \in DOMAIN k, i \in 1 .. c.threshold - 1 : random[b][i] \in Byte
        BY <3>9, SecretsAssumption DEF SecretsAssumption
      <4>4. key'[m] = k /\ plan'[m] = p
        BY <2>0, <3>2, <4>1
      <4> HIDE DEF p
      <4>5. p.threshold \in Nat /\ p.threshold > 0
        BY <4>2 DEF PlanOK
      <4>6. PICK F : /\ Hides(k, p.threshold, F)
                     /\ Shares(k, p, random) = [x \in 1 .. Len(p.holders) |-> PointOf(k, F, x)]
        <5> DEFINE t == p.threshold
                   total == Len(p.holders)
        <5>1. k \in Seq(Byte) /\ t \in Nat /\ t > 0 /\ RandomFor(random, k, t)
          BY <4>2, <4>3, <4>5 DEF RandomFor
        <5>2. Shares(k, p, random) = SplitSecret(k, t, total, random)
          BY DEF Shares
        <5> HIDE DEF t, total
        <5>3. \E F : Splits(k, t, total, random, F)
          BY ONLY <5>1, SplitIs
        <5> QED
          BY <5>2, <5>3 DEF t, total, Splits
      <4>7. \A s \in WrapKeyShares(m, k, p, random) :
              /\ s.of = m /\ s.x \in 1 .. Len(p.holders)
              /\ s.envelope = EncryptData(Owner[m], s.holder, PointOf(k, F, s.x).y, <<m, s.x>>)
        <5>1. ASSUME NEW s \in WrapKeyShares(m, k, p, random)
              PROVE  /\ s.of = m /\ s.x \in 1 .. Len(p.holders)
                     /\ s.envelope = EncryptData(Owner[m], s.holder, PointOf(k, F, s.x).y, <<m, s.x>>)
          <6> DEFINE shares == Shares(k, p, random)
          <6>1. DOMAIN shares = 1 .. Len(p.holders) /\ \A x \in DOMAIN shares : shares[x] = PointOf(k, F, x)
            BY <4>6
          <6> HIDE DEF shares
          <6>2. PICK x \in DOMAIN shares :
                  s = [x |-> x, threshold |-> p.threshold, holder |-> p.holders[x], of |-> m,
                       envelope |-> EncryptData(Owner[m], p.holders[x], shares[x].y, <<m, x>>)]
            BY DEF WrapKeyShares, shares
          <6>3. /\ s.of = m /\ s.x = x /\ s.holder = p.holders[x]
                /\ s.envelope = EncryptData(Owner[m], p.holders[x], shares[x].y, <<m, x>>)
            BY <6>2
          <6> QED
            BY <6>1, <6>3
        <5> QED
          BY <5>1
      <4>8. SharedBy(m, F)'
        <5>1. /\ key'[m] \in Keys
              /\ plan'[m].threshold <= Len(plan'[m].holders) /\ Len(plan'[m].holders) <= 255
              /\ Hides(key'[m], plan'[m].threshold, F)
          BY <4>2, <4>4, <4>6
        <5>2. \A s \in envelopes' : s.of = m =>
                /\ s.x \in 1 .. Len(plan'[m].holders)
                /\ s.envelope = EncryptData(Owner[m], s.holder, PointOf(key'[m], F, s.x).y, <<m, s.x>>)
          BY <3>3, <4>1, <4>4, <4>7
        <5>3. \A i \in DOMAIN collected' : collected'[i].of # m
          BY <3>1, <3>4
        <5> QED
          BY <5>1, <5>2, <5>3 DEF SharedBy
      <4>9. ASSUME NEW n \in Shared' PROVE \E G : SharedBy(n, G)'
        <5>1. CASE n = m
          BY <4>8, <5>1
        <5>2. CASE n # m
          <6>1. n \in Shared
            BY <2>0, <3>2, <5>2 DEF Shared
          <6>2. PICK G : SharedBy(n, G)
            BY <6>1 DEF SharesOK
          <6>3. key'[n] = key[n] /\ plan'[n] = plan[n]
            BY <2>0, <3>2, <5>2, <6>1
          <6>4. \A s \in envelopes' : s.of = n => s \in envelopes
            BY <4>1, <4>7, <5>2
          <6>5. SharedBy(n, G)'
            BY <3>1, <6>2, <6>3, <6>4 DEF SharedBy
          <6> QED
            BY <6>5
        <5> QED
          BY <5>1, <5>2
      <4>10. \A s \in envelopes' : s.of \in Shared'
        <5>1. m \in Shared'
          BY <3>2, <3>9 DEF Shared
        <5> QED
          BY <3>3, <3>5, <4>1, <4>7, <5>1
      <4> QED
        BY <3>2, <3>6, <3>7, <4>9, <4>10 DEF SharesOK
    <3> QED
      BY <3>8, <3>9
  <2>2. ASSUME NEW p \in Parties, NEW s \in envelopes, NEW owner \in Parties, HandOver(p, s, owner)
        PROVE  SharesOK'
    <3> DEFINE got == [share |-> UnwrapKeyShare(p, s, owner), of |-> s.of]
               m   == s.of
    <3>1. /\ UnwrapKeyShare(p, s, owner) # Error /\ collected' = Append(collected, got)
          /\ UNCHANGED <<plan, metadata, data, key, envelopes>>
      BY <2>2 DEF HandOver
    <3>2. m \in Shared /\ metadata[m] # None /\ m \in Models
      BY <2>0 DEF SharesOK, EnvelopesOK
    <3>3. PICK F : SharedBy(m, F)
      BY <3>2 DEF SharesOK
    <3>4. /\ s.x \in 1 .. Len(plan[m].holders)
          /\ s.envelope = EncryptData(Owner[m], s.holder, PointOf(key[m], F, s.x).y, <<m, s.x>>)
      BY <3>3 DEF SharedBy
    <3>5. UnwrapKeyShare(p, s, owner) = PointOf(key[m], F, s.x)
      <4>1. UnwrapKeyShare(p, s, owner) = [x |-> s.x, y |-> PointOf(key[m], F, s.x).y]
        BY <3>1, <3>4, OpensAsSealed
      <4> QED
        BY <4>1 DEF PointOf
    <3>6. PointOf(key[m], F, s.x) \in Point
      <4>1. key[m] \in Seq(Byte)
        BY <3>3, SecretsAssumption DEF SecretsAssumption, SharedBy
      <4>2. Hides(key[m], plan[m].threshold, F) /\ s.x \in Nat
        BY <3>3, <3>4 DEF SharedBy
      <4>3. plan[m].threshold \in Nat
        BY <3>2 DEF EnvelopesOK, PlanOK
      <4> QED
        BY <4>1, <4>2, <4>3, PointOfIs
    <3> DEFINE R == [share : Point, of : Shared]
    <3>7. got \in R
      BY <3>2, <3>5, <3>6
    <3>8. got.share = PointOf(key[m], F, s.x) /\ got.of = m
      BY <3>5
    <3> HIDE DEF got, R, m
    <3>9. /\ collected' \in Seq(R)
          /\ \A i \in DOMAIN collected' : \/ i \in DOMAIN collected /\ collected'[i] = collected[i]
                                          \/ collected'[i] = got
      <4>1. collected \in Seq(R)
        BY <2>0 DEF R
      <4> QED
        BY <3>1, <3>7, <4>1
    <3>10. Shared' = Shared
      BY <3>1 DEF Shared
    <3>11. \A i \in DOMAIN collected' : metadata'[collected'[i].of] # None
      BY <3>1, <3>2, <3>8, <3>9 DEF SharesOK
    <3>12. ASSUME NEW n \in Shared PROVE \E G : SharedBy(n, G)'
      <4>1. CASE n = m
        <5>1. SharedBy(m, F)'
          <6>1. \A i \in DOMAIN collected' : collected'[i].of = m =>
                  \E x \in 1 .. Len(plan[m].holders) : collected'[i].share = PointOf(key[m], F, x)
            BY <3>3, <3>4, <3>8, <3>9 DEF SharedBy
          <6> QED
            BY <3>1, <3>3, <6>1 DEF SharedBy
        <5> QED
          BY <4>1, <5>1
      <4>2. CASE n # m
        <5>1. PICK G : SharedBy(n, G)
          BY DEF SharesOK
        <5>2. \A i \in DOMAIN collected' : collected'[i].of = n =>
                \E x \in 1 .. Len(plan[n].holders) : collected'[i].share = PointOf(key[n], G, x)
          BY <3>8, <3>9, <4>2, <5>1 DEF SharedBy
        <5>3. SharedBy(n, G)'
          BY <3>1, <5>1, <5>2 DEF SharedBy
        <5> QED
          BY <5>3
      <4> QED
        BY <4>1, <4>2
    <3> QED
      BY <3>1, <3>9, <3>10, <3>11, <3>12 DEF SharesOK, R
  <2>3. CASE UNCHANGED vars
    BY <2>3 DEF vars, SharesOK, SharedBy, Shared
  <2> QED
    BY <2>1, <2>2, <2>3 DEF Next
<1> QED
  BY <1>1, <1>2, EnvelopesHold, PTL DEF Spec

\* The shares handed over, in their order.
LEMMA GivenIs ==
    ASSUME SharesOK
    PROVE  /\ Given \in Seq(Point) /\ Len(Given) = Len(collected) /\ DOMAIN Given = 1 .. Len(collected)
           /\ \A i \in 1 .. Len(collected) : Given[i] = collected[i].share
<1> DEFINE R == [share : Point, of : Shared]
<1>1. collected \in Seq(R)
  BY DEF SharesOK
<1>2. \A r \in R : r.share \in Point
  OBVIOUS
<1> HIDE DEF R
<1>3. Len(collected) \in Nat /\ DOMAIN collected = 1 .. Len(collected) /\ \A i \in 1 .. Len(collected) : collected[i] \in R
  BY <1>1
<1>4. Given = [i \in 1 .. Len(collected) |-> collected[i].share]
  BY <1>3 DEF Given
<1>5. Given \in [1 .. Len(collected) -> Point]
  BY <1>2, <1>3, <1>4
<1>6. Given \in Seq(Point)
  BY <1>3, <1>5
<1> QED
  BY <1>3, <1>4, <1>5, <1>6

\* Any holders of one model that are as many as its threshold recover its key.
THEOREM QuorumsRecover == Spec => []QuorumRecovers
<1>1. SharesOK /\ EnvelopesOK => QuorumRecovers
  <2> SUFFICES ASSUME SharesOK, EnvelopesOK, NEW m \in Shared,
                      ValidShares(Given), Len(Given) >= plan[m].threshold,
                      \A i \in DOMAIN collected : collected[i].of = m
               PROVE  /\ ReconstructKeyFromShares(Given, plan[m].threshold) = key[m]
                      /\ VerifyShares(Given, plan[m].threshold)
    BY DEF QuorumRecovers
  <2> DEFINE t == plan[m].threshold
             k == key[m]
  <2>1. PICK F : SharedBy(m, F)
    BY DEF SharesOK
  <2>2. k \in Seq(Byte)
    BY <2>1, SecretsAssumption DEF SecretsAssumption, SharedBy
  <2>3. t \in Nat /\ t > 0
    <3>1. t \in Nat \ {0}
      BY DEF EnvelopesOK, PlanOK
    <3> HIDE DEF t
    <3> QED
      BY <3>1
  <2>4. Given \in Seq(Point) /\ Len(Given) = Len(collected) /\ \A i \in 1 .. Len(Given) : Given[i] = collected[i].share
    BY GivenIs
  <2>5. Len(Given) \in Nat /\ Len(Given) <= 255 /\ 1 <= Len(Given)
    BY <2>4, PointsAre
  <2>6. t \in 1 .. Len(Given) /\ t \in 1 .. 255
    <3>1. Len(Given) >= t
      OBVIOUS
    <3> HIDE DEF t
    <3> QED
      BY <2>3, <2>5, <3>1
  <2>7. Hides(k, t, F)
    BY <2>1 DEF SharedBy
  <2>8. ASSUME NEW i \in 1 .. Len(Given)
        PROVE  /\ DOMAIN Given[i].y = DOMAIN k
               /\ \A b \in DOMAIN k : Given[i].y[b] = F[b][ToByte(Given[i].x)]
    <3>1. PICK x \in 1 .. Len(plan[m].holders) : Given[i] = PointOf(k, F, x)
      <4>1. i \in DOMAIN collected
        BY <2>4 DEF SharesOK
      <4> QED
        BY <2>1, <2>4, <4>1 DEF SharedBy
    <3>2. x \in Nat
      OBVIOUS
    <3> HIDE DEF k, t
    <3> QED
      BY <2>2, <2>3, <2>7, <3>1, <3>2, PointOfIs
  <2>9. DOMAIN Given[1].y = DOMAIN k
    BY <2>5, <2>8
  <2> HIDE DEF k, t
  <2>10. F \in [DOMAIN Given[1].y -> Poly(t)]
    BY <2>7, <2>9 DEF Hides
  <2>11. \A i \in 1 .. Len(Given), b \in DOMAIN Given[1].y : F[b][ToByte(Given[i].x)] = Given[i].y[b]
    BY <2>8, <2>9
  <2>12. /\ ReconstructSecret(Given, t) = [b \in DOMAIN Given[1].y |-> F[b][{}]]
         /\ VerifyShares(Given, t)
    BY ONLY <2>4, <2>6, <2>10, <2>11, ValidShares(Given), ReconstructsFrom
  <2>13. [b \in DOMAIN Given[1].y |-> F[b][{}]] = k
    <3>1. [b \in DOMAIN k |-> F[b][{}]] = [b \in DOMAIN k |-> k[b]]
      BY <2>7 DEF Hides
    <3>2. [b \in DOMAIN k |-> k[b]] = k
      BY <2>2
    <3> QED
      BY <2>9, <3>1, <3>2
  <2> QED
    BY <2>6, <2>12, <2>13 DEF ReconstructKeyFromShares, k, t
<1> QED
  BY <1>1, SharesHold, EnvelopesHold, PTL

\* Whichever of the shares that verifyShares accepts are taken, the key is the same.
THEOREM VerifiedSharesAgree == Spec => []VerifiedIsUnambiguous
<1>1. SharesOK => VerifiedIsUnambiguous
  <2> SUFFICES ASSUME SharesOK, NEW t \in 1 .. Len(Given) - 1, VerifyShares(Given, t),
                      NEW pick \in [1 .. t -> DOMAIN Given], \A i, j \in 1 .. t : pick[i] = pick[j] => i = j
               PROVE  ReconstructSecret([i \in 1 .. t |-> Given[pick[i]]], t) = ReconstructSecret(Given, t)
    BY DEF VerifiedIsUnambiguous
  <2> DEFINE shares == Given
  <2>1. shares \in Seq(Point) /\ DOMAIN shares = 1 .. Len(shares) /\ Len(shares) \in Nat
    BY GivenIs
  <2>2. t \in 1 .. Len(shares)
    BY <2>1
  <2>3. pick \in [1 .. t -> 1 .. Len(shares)] /\ VerifyShares(shares, t)
    BY <2>1
  <2> HIDE DEF shares
  <2>4. ReconstructSecret([i \in 1 .. t |-> shares[pick[i]]], t) = ReconstructSecret(shares, t)
    BY ONLY <2>1, <2>2, <2>3, \A i, j \in 1 .. t : pick[i] = pick[j] => i = j, PicksAgree
  <2> QED
    BY <2>4 DEF shares
<1> QED
  BY <1>1, SharesHold, PTL

\* The byte of zero is empty.
LEMMA ByteOfZero == ToByte(0) = {}
<1>1. 2^0 = 1 /\ 2^1 = 2 /\ 2^2 = 4 /\ 2^3 = 8 /\ 2^4 = 16 /\ 2^5 = 32 /\ 2^6 = 64 /\ 2^7 = 128
  OBVIOUS
<1>2. ASSUME NEW i \in 0 .. 7 PROVE (0 \div 2^i) % 2 # 1
  <2>1. CASE i = 0
    BY <1>1, <2>1
  <2>2. CASE i = 1
    BY <1>1, <2>2
  <2>3. CASE i = 2
    BY <1>1, <2>3
  <2>4. CASE i = 3
    BY <1>1, <2>4
  <2>5. CASE i = 4
    BY <1>1, <2>5
  <2>6. CASE i = 5
    BY <1>1, <2>6
  <2>7. CASE i = 6
    BY <1>1, <2>7
  <2>8. CASE i = 7
    BY <1>1, <2>8
  <2> QED
    BY <2>1, <2>2, <2>3, <2>4, <2>5, <2>6, <2>7, <2>8
<1> QED
  BY <1>2 DEF ToByte, Bits

\* The byte of a number from 1 to 255 is not zero.
LEMMA NotZero == ASSUME NEW x \in 1 .. 255 PROVE ToByte(x) # {}
<1>1. x \in 0 .. 255 /\ 0 \in 0 .. 255 /\ x # 0
  OBVIOUS
<1> QED
  BY <1>1, ByteOfZero, ToByteDiffers

\* One share of a key that takes two or more says nothing about the key.
THEOREM OneShareIsNotEnough == Spec => []OneShareSaysNothing
<1>1. SharesOK /\ EnvelopesOK => OneShareSaysNothing
  <2> SUFFICES ASSUME SharesOK, EnvelopesOK, NEW m \in Shared,
                      plan[m].threshold > 1, Len(collected) = 1, collected[1].of = m,
                      NEW k \in Keys, NEW b \in DOMAIN key[m]
               PROVE  \E c \in Byte :
                        LET random == [i \in DOMAIN k |-> [j \in 1 .. 254 |-> IF j = 1 THEN c ELSE {}]]
                            shares == SplitSecret(k, plan[m].threshold, Len(plan[m].holders), random)
                        IN  shares[Given[1].x].y[b] = Given[1].y[b]
    BY DEF OneShareSaysNothing
  <2> DEFINE t == plan[m].threshold
             total == Len(plan[m].holders)
             x == Given[1].x
             v == Given[1].y[b]
             X == ToByte(x)
             c == Multiply(Add(k[b], v), FieldInverse(X))
             random == [i \in DOMAIN k |-> [j \in 1 .. 254 |-> IF j = 1 THEN c ELSE {}]]
             shares == SplitSecret(k, t, total, random)
  <2>1. PICK F : SharedBy(m, F)
    BY DEF SharesOK
  <2>2. key[m] \in Seq(Byte) /\ k \in Seq(Byte) /\ Len(k) = Len(key[m])
    BY <2>1, SecretsAssumption DEF SecretsAssumption, SharedBy
  <2>3. b \in DOMAIN k /\ k[b] \in Byte
    BY <2>2
  <2>4. t \in Nat /\ total \in Nat /\ 1 < t /\ t <= total /\ total <= 255
    <3>1. PlanOK(plan[m])
      BY DEF EnvelopesOK
    <3>2. t \in Nat /\ plan[m].holders \in Seq(Parties)
      BY <3>1 DEF PlanOK
    <3>3. t <= total /\ total <= 255
      BY <2>1 DEF SharedBy
    <3>4. t > 1
      OBVIOUS
    <3>5. total \in Nat
      BY <3>2
    <3> HIDE DEF t, total
    <3> QED
      BY <3>2, <3>3, <3>4, <3>5
  <2>5. x \in 1 .. total /\ v \in Byte
    <3>1. Given[1] = collected[1].share /\ 1 \in DOMAIN collected
      BY GivenIs DEF SharesOK
    <3>2. PICK z \in 1 .. total : Given[1] = PointOf(key[m], F, z)
      BY <2>1, <3>1 DEF SharedBy
    <3>3. Hides(key[m], t, F) /\ z \in Nat
      BY <2>1 DEF SharedBy
    <3>4. /\ PointOf(key[m], F, z).x = z
          /\ \A i \in DOMAIN key[m] : PointOf(key[m], F, z).y[i] = F[i][ToByte(z)] /\ F[i][ToByte(z)] \in Byte
      <4> HIDE DEF t
      <4> QED
        BY <2>2, <2>4, <3>3, PointOfIs
    <3> HIDE DEF total
    <3> QED
      BY <3>2, <3>4
  <2>6. X \in Byte /\ X # {}
    <3>1. x \in 1 .. 255
      <4> HIDE DEF x, total
      <4> QED
        BY <2>4, <2>5
    <3> HIDE DEF x
    <3> QED
      BY <3>1, NotZero, ToByteIsByte
  <2>7. c \in Byte /\ Add(k[b], Multiply(c, X)) = v
    <3> DEFINE d == Add(k[b], v)
               i == FieldInverse(X)
    <3>1. d \in Byte /\ Add(k[b], d) = v
      <4>1. \A a, e \in Byte : Add(a, Add(a, e)) = e
        BY DEF Add
      <4> HIDE DEF v
      <4> QED
        BY <2>3, <2>5, <4>1, AddType
    <3>2. i \in Byte /\ Multiply(X, i) = {0}
      <4> HIDE DEF X
      <4> QED
        BY <2>6, InverseWorks
    <3> HIDE DEF d, i, X
    <3>3. Multiply(Multiply(d, i), X) = Multiply(d, Multiply(i, X)) /\ Multiply(d, i) \in Byte
      BY <2>6, <3>1, <3>2, MultiplyAssociates, MultiplyType
    <3>4. Multiply(i, X) = {0}
      BY <2>6, <3>2, MultiplyCommutes
    <3>5. Multiply(d, {0}) = d
      BY <3>1, MultiplyByOne
    <3>6. c = Multiply(d, i)
      BY DEF d, i
    <3> HIDE DEF c
    <3> QED
      BY <3>1, <3>3, <3>4, <3>5, <3>6
  <2> HIDE DEF c
  <2> DEFINE above == [i \in 1 .. t - 1 |-> random[b][i]]
             cs    == <<k[b]>> \o above
  <2>8. \A i \in 1 .. t - 1 : above[i] = IF i = 1 THEN c ELSE {}
    <3>1. \A i \in 1 .. 254 : random[b][i] = IF i = 1 THEN c ELSE {}
      BY <2>3
    <3> HIDE DEF random, t, total
    <3>2. 1 .. t - 1 \subseteq 1 .. 254
      BY <2>4
    <3> QED
      BY <3>1, <3>2
  <2>9. shares[x].y[b] = Evaluate(cs, X)
    <3>1. Polynomials(k, t, random)[b] = cs
      BY <2>3 DEF Polynomials
    <3>2. shares = [z \in 1 .. total |-> [x |-> z, y |-> [i \in DOMAIN k |-> Evaluate(Polynomials(k, t, random)[i], ToByte(z))]]]
      BY DEF SplitSecret
    <3> HIDE DEF shares, cs, x, total, random
    <3> QED
      BY <2>3, <2>5, <3>1, <3>2
  <2>10. above \in Seq(Byte) /\ Len(above) = t - 1
    <3>1. above \in [1 .. t - 1 -> Byte] /\ t - 1 \in Nat
      <4>1. DOMAIN above = 1 .. t - 1 /\ above = [i \in 1 .. t - 1 |-> above[i]]
        OBVIOUS
      <4> HIDE DEF above, t
      <4>2. t - 1 \in Nat
        BY <2>4
      <4>3. \A i \in 1 .. t - 1 : above[i] \in Byte
        BY <2>7, <2>8, OpTypes
      <4> QED
        BY <4>1, <4>2, <4>3
    <3> HIDE DEF above, t
    <3> QED
      BY <3>1
  <2>11. /\ cs \in Seq(Byte) /\ Len(cs) > 1 /\ cs[1] = k[b] /\ cs[2] = c
         /\ \A i \in 3 .. Len(cs) : cs[i] = {}
    <3> HIDE DEF above, t
    <3>1. cs \in Seq(Byte) /\ Len(cs) = t /\ cs[1] = k[b] /\ \A i \in 2 .. t : cs[i] = above[i - 1]
      BY <2>3, <2>4, <2>10
    <3> HIDE DEF cs
    <3>2. 2 \in 2 .. t /\ 1 \in 1 .. t - 1
      BY <2>4
    <3>3. cs[2] = c
      BY <2>8, <3>1, <3>2
    <3>4. ASSUME NEW i \in 3 .. t PROVE cs[i] = {}
      <4>1. i \in 2 .. t /\ i - 1 \in 1 .. t - 1 /\ i - 1 # 1
        BY <2>4
      <4> QED
        BY <2>8, <3>1, <4>1
    <3> QED
      BY <2>4, <3>1, <3>3, <3>4
  <2> HIDE DEF cs, X, v
  <2>12. Evaluate(cs, X) = v
    BY <2>6, <2>7, <2>11, EvaluateLinear
  <2>13. shares[x].y[b] = v
    BY <2>9, <2>12
  <2> QED
    BY <2>7, <2>13 DEF v
<1> QED
  BY <1>1, SharesHold, EnvelopesHold, PTL

-----------------------------------------------------------------------------
\* Nor do more, below the threshold: through any fewer points and any value at zero goes a polynomial.

\* A coefficient put below the others shifts them up: c + x f(x).
LEMMA EvaluateAbove ==
    ASSUME NEW cs \in Seq(Byte), NEW c \in Byte, NEW x \in Byte
    PROVE  Evaluate(<<c>> \o cs, x) = Add(c, Multiply(x, Evaluate(cs, x)))
<1> DEFINE ds == <<c>> \o cs
           N  == Len(cs)
<1>1. /\ N \in Nat /\ \A k \in 1 .. N : cs[k] \in Byte
      /\ ds \in Seq(Byte) /\ Len(ds) = N + 1 /\ ds[1] = c /\ \A k \in 1 .. N : ds[k + 1] = cs[k]
  OBVIOUS
<1> HIDE DEF ds
<1>2. PICK f : Runs(f, cs, x)
  BY EvaluateRuns
<1>3. PICK g : Runs(g, ds, x)
  BY <1>1, EvaluateRuns
<1>4. /\ f[0].result = {} /\ f[0].xPower = {0} /\ Evaluate(cs, x) = f[N].result
      /\ \A n \in 0 .. N - 1 : /\ f[n + 1].result = Add(f[n].result, Multiply(cs[n + 1], f[n].xPower))
                               /\ f[n + 1].xPower = Multiply(f[n].xPower, x)
      /\ \A n \in 0 .. N : f[n].result \in Byte /\ f[n].xPower \in Byte
  BY <1>2 DEF Runs, Steps
<1>5. /\ g[0].result = {} /\ g[0].xPower = {0} /\ Evaluate(ds, x) = g[N + 1].result
      /\ \A n \in 0 .. N : /\ g[n + 1].result = Add(g[n].result, Multiply(ds[n + 1], g[n].xPower))
                           /\ g[n + 1].xPower = Multiply(g[n].xPower, x)
  <2>1. Len(ds) - 1 = N /\ Len(ds) = N + 1
    BY <1>1
  <2> HIDE DEF N
  <2> QED
    BY <1>3, <2>1 DEF Runs
<1> HIDE DEF N
<1> DEFINE Ahead(n) == /\ g[n + 1].result = Add(c, Multiply(x, f[n].result))
                       /\ g[n + 1].xPower = Multiply(x, f[n].xPower)
           T == {n \in Nat : n <= N => Ahead(n)}
<1>6. 0 \in T
  <2>1. 0 \in 0 .. N /\ 0 + 1 = 1
    BY <1>1
  <2>2. Multiply(c, {0}) = c /\ Add({}, c) = c /\ Multiply(x, {}) = {} /\ Add(c, {}) = c
    BY MultiplyByOne, MultiplyZero, AddLaws, OpTypes
  <2>3. Multiply({0}, x) = x /\ Multiply(x, {0}) = x
    BY MultiplyByOne, MultiplyCommutes, OpTypes
  <2>4. /\ g[0 + 1].result = Add(g[0].result, Multiply(ds[0 + 1], g[0].xPower))
        /\ g[0 + 1].xPower = Multiply(g[0].xPower, x)
    BY <1>5, <2>1
  <2>5. g[1].result = c /\ g[1].xPower = x
    BY ONLY <1>1, <1>5, <2>1, <2>2, <2>3, <2>4
  <2>6. f[0].result = {} /\ f[0].xPower = {0}
    BY <1>4
  <2>7. Ahead(0)
    BY ONLY <2>1, <2>2, <2>3, <2>5, <2>6
  <2> HIDE DEF Ahead
  <2> QED
    BY <2>7
<1>7. ASSUME NEW n \in Nat, n \in T PROVE n + 1 \in T
  <2>1. SUFFICES ASSUME n + 1 <= N PROVE Ahead(n + 1)
    OBVIOUS
  <2>2. n \in 0 .. N - 1 /\ n \in 0 .. N /\ n + 1 \in 0 .. N /\ n + 1 \in 1 .. N
    BY <1>1, <2>1
  <2>3. Ahead(n)
    BY <1>7, <2>2
  <2> DEFINE r == f[n].result
             p == f[n].xPower
             k == cs[n + 1]
  <2>4. r \in Byte /\ p \in Byte /\ k \in Byte
    BY <1>1, <1>4, <2>2
  <2>5. /\ f[n + 1].result = Add(r, Multiply(k, p)) /\ f[n + 1].xPower = Multiply(p, x)
        /\ g[(n + 1) + 1].result = Add(g[n + 1].result, Multiply(k, g[n + 1].xPower))
        /\ g[(n + 1) + 1].xPower = Multiply(g[n + 1].xPower, x)
    BY <1>1, <1>4, <1>5, <2>2
  <2>6. g[n + 1].result = Add(c, Multiply(x, r)) /\ g[n + 1].xPower = Multiply(x, p)
    BY <2>3
  <2> HIDE DEF r, p, k
  <2>7. Multiply(x, r) \in Byte /\ Multiply(k, p) \in Byte /\ Multiply(x, Multiply(k, p)) \in Byte
    BY <2>4, MultiplyType
  <2>8. Multiply(k, Multiply(x, p)) = Multiply(x, Multiply(k, p))
    <3>1. Multiply(Multiply(k, x), p) = Multiply(k, Multiply(x, p))
      BY <2>4, MultiplyAssociates
    <3>2. Multiply(Multiply(x, k), p) = Multiply(x, Multiply(k, p))
      BY <2>4, MultiplyAssociates
    <3>3. Multiply(k, x) = Multiply(x, k)
      BY <2>4, MultiplyCommutes
    <3> QED
      BY <3>1, <3>2, <3>3
  <2>9. Multiply(x, Add(r, Multiply(k, p))) = Add(Multiply(x, r), Multiply(x, Multiply(k, p)))
    BY <2>4, <2>7, MultiplyAddsRight
  <2>10. Add(Add(c, Multiply(x, r)), Multiply(x, Multiply(k, p)))
           = Add(c, Add(Multiply(x, r), Multiply(x, Multiply(k, p))))
    BY <2>7, AddLaws
  <2>11. Multiply(Multiply(x, p), x) = Multiply(x, Multiply(p, x))
    BY <2>4, MultiplyAssociates
  <2> QED
    BY <2>5, <2>6, <2>8, <2>9, <2>10, <2>11
<1>8. Ahead(N)
  <2> HIDE DEF T
  <2>1. Nat \subseteq T
    BY <1>6, <1>7, NatSetInduction
  <2>2. N \in T
    BY <1>1, <2>1
  <2> HIDE DEF Ahead
  <2> QED
    BY <1>1, <2>2 DEF T
<1> QED
  BY <1>4, <1>5, <1>8 DEF ds

\* Every polynomial is the evaluation of some coefficients.
LEMMA PolyHasCoefficients ==
    ASSUME NEW n \in Nat, NEW f \in Poly(n)
    PROVE  \E cs \in Seq(Byte) : Len(cs) = n /\ \A x \in Byte : Evaluate(cs, x) = f[x]
<1> DEFINE Has(k, p, cs) == cs \in Seq(Byte) /\ Len(cs) = k /\ \A x \in Byte : Evaluate(cs, x) = p[x]
           T == {k \in Nat : \A p \in Poly(k) : \E cs : Has(k, p, cs)}
<1>1. 0 \in T
  <2>1. Has(0, Zero, <<>>)
    <3>1. <<>> \in Seq(Byte) /\ Len(<<>>) = 0
      OBVIOUS
    <3>2. [x \in Byte |-> Evaluate(<<>>, x)] \in Poly(0)
      BY <3>1, EvaluateIsPoly
    <3>3. [x \in Byte |-> Evaluate(<<>>, x)] = Zero
      BY <3>2, PolyLevels
    <3>4. \A x \in Byte : [y \in Byte |-> Evaluate(<<>>, y)][x] = Evaluate(<<>>, x)
      OBVIOUS
    <3> QED
      BY <3>1, <3>3, <3>4
  <2> HIDE DEF Has
  <2> QED
    BY <2>1, PolyLevels
<1>2. ASSUME NEW k \in Nat, k \in T PROVE k + 1 \in T
  <2>1. SUFFICES ASSUME NEW p \in Poly(k + 1) PROVE \E cs : Has(k + 1, p, cs)
    OBVIOUS
  <2>2. PICK c \in Byte, q \in Poly(k) : \A x \in Byte : p[x] = Add(c, Multiply(x, q[x]))
    BY PolyIs
  <2>3. PICK cs : Has(k, q, cs)
    <3> HIDE DEF Has
    <3> QED
      BY <1>2
  <2> DEFINE ds == <<c>> \o cs
  <2>4. ds \in Seq(Byte) /\ Len(ds) = k + 1
    BY <2>3
  <2>5. ASSUME NEW x \in Byte PROVE Evaluate(ds, x) = p[x]
    <3>1. Evaluate(ds, x) = Add(c, Multiply(x, Evaluate(cs, x)))
      BY <2>3, EvaluateAbove
    <3> HIDE DEF ds
    <3> QED
      BY <2>2, <2>3, <3>1
  <2> HIDE DEF ds
  <2>6. Has(k + 1, p, ds)
    BY <2>4, <2>5
  <2> HIDE DEF Has
  <2> QED
    BY <2>6
<1>3. n \in T
  <2> HIDE DEF T
  <2>1. Nat \subseteq T
    BY <1>1, <1>2, NatSetInduction
  <2> QED
    BY <2>1
<1> HIDE DEF Has
<1>4. \E cs : Has(n, f, cs)
  BY <1>3
<1> QED
  BY <1>4 DEF Has

\* The more coefficients, the more polynomials.
LEMMA PolyMonotone == ASSUME NEW n \in Nat, NEW m \in Nat, n <= m PROVE Poly(n) \subseteq Poly(m)
<1> DEFINE T == {k \in Nat : Poly(n) \subseteq Poly(n + k)}
<1>1. 0 \in T
  OBVIOUS
<1>2. ASSUME NEW k \in Nat, k \in T PROVE k + 1 \in T
  <2>1. n + k \in Nat /\ n + (k + 1) = (n + k) + 1
    OBVIOUS
  <2>2. Poly(n + k) \subseteq Poly((n + k) + 1)
    BY <2>1, PolyGrows
  <2> QED
    BY <1>2, <2>1, <2>2
<1>3. m - n \in T
  <2> HIDE DEF T
  <2>1. Nat \subseteq T
    BY <1>1, <1>2, NatSetInduction
  <2> QED
    BY <2>1
<1>4. n + (m - n) = m
  OBVIOUS
<1> QED
  BY <1>3, <1>4

\* Whatever the lowest coefficient and the values at fewer than t points, t coefficients have them.
LEMMA CoefficientsThrough ==
    ASSUME NEW t \in Nat, NEW D \in SUBSET (1 .. 255), Cardinality(D) < t,
           NEW c \in Byte, NEW v \in [D -> Byte]
    PROVE  \E cs \in Seq(Byte) : Len(cs) = t /\ cs[1] = c /\ \A x \in D : Evaluate(cs, ToByte(x)) = v[x]
<1> DEFINE E  == D \cup {0}
           at == [x \in E |-> ToByte(x)]
           y  == [x \in E |-> IF x = 0 THEN c ELSE v[x]]
           f  == [z \in Byte |-> LagrangeInterpolation(at, y, z)]
<1>1. IsFiniteSet(D) /\ Cardinality(D) \in Nat
  <2>1. IsFiniteSet(1 .. 255)
    BY ONLY 1 \in Int, 255 \in Int, FS_Interval, Zenon
  <2>2. IsFiniteSet(D)
    BY <2>1, FS_Subset
  <2> QED
    BY <2>2, FS_CardinalityType
<1>2. IsFiniteSet(E) /\ Cardinality(E) = Cardinality(D) + 1
  <2>1. 0 \notin D
    OBVIOUS
  <2> QED
    BY <1>1, <2>1, FS_AddElement
<1>3. at \in [E -> Byte] /\ y \in [E -> Byte]
  BY ToByteIsByte
<1>4. \A i, j \in E : at[i] = at[j] => i = j
  <2>1. E \subseteq 0 .. 255 /\ \A i \in E : at[i] = ToByte(i)
    OBVIOUS
  <2> HIDE DEF E, at
  <2> QED
    BY <2>1, ToByteDiffers
<1>5. /\ at[0] = {} /\ y[0] = c /\ 0 \in E
      /\ \A x \in D : x \in E /\ at[x] = ToByte(x) /\ y[x] = v[x] /\ ToByte(x) \in Byte
  BY ByteOfZero, ToByteIsByte
<1>6. \A z \in Byte : f[z] = LagrangeInterpolation(at, y, z)
  OBVIOUS
<1>7. f \in Poly(Cardinality(E)) /\ \A j \in E : LagrangeInterpolation(at, y, at[j]) = y[j]
  <2> HIDE DEF E, at, y
  <2> QED
    BY ONLY <1>2, <1>3, <1>4, Lagrange
<1> HIDE DEF E, at, y, f
<1>8. f \in Poly(t)
  <2>1. Cardinality(E) \in Nat /\ Cardinality(E) <= t
    BY <1>1, <1>2
  <2> QED
    BY <1>7, <2>1, PolyMonotone
<1>9. PICK cs \in Seq(Byte) : Len(cs) = t /\ \A z \in Byte : Evaluate(cs, z) = f[z]
  BY <1>8, PolyHasCoefficients
<1>10. \A j \in E : Evaluate(cs, at[j]) = y[j]
  BY <1>3, <1>6, <1>7, <1>9
<1>11. cs[1] = c
  <2>1. Len(cs) > 0
    BY <1>1, <1>9
  <2>2. Evaluate(cs, {}) = cs[1]
    BY <2>1, EvaluateAtZero
  <2> QED
    BY <1>5, <1>10, <2>2
<1>12. \A x \in D : Evaluate(cs, ToByte(x)) = v[x]
  BY <1>5, <1>10
<1> QED
  BY <1>9, <1>11, <1>12

\* With these random bytes, the shares in D have the values v.
Draws(random, k, threshold, total, D, v) ==
    /\ RandomFor(random, k, threshold)
    /\ \A x \in D : SplitSecret(k, threshold, total, random)[x] = [x |-> x, y |-> [b \in DOMAIN k |-> v[b][x]]]

\* Any values at fewer points than the threshold are the shares of any secret, for some random bytes.
LEMMA SplitsAsGiven ==
    ASSUME NEW k \in Seq(Byte), NEW threshold \in Nat, NEW total \in 0 .. 255,
           NEW D \in SUBSET (1 .. total), Cardinality(D) < threshold,
           NEW v \in [DOMAIN k -> [D -> Byte]]
    PROVE  \E random : Draws(random, k, threshold, total, D, v)
<1> DEFINE Through(b, cs) == /\ cs \in Seq(Byte) /\ Len(cs) = threshold /\ cs[1] = k[b]
                             /\ \A x \in D : Evaluate(cs, ToByte(x)) = v[b][x]
           C == [b \in DOMAIN k |-> CHOOSE cs : Through(b, cs)]
           random == [b \in DOMAIN k |-> [i \in 1 .. threshold - 1 |-> C[b][i + 1]]]
<1>1. ASSUME NEW b \in DOMAIN k PROVE \E cs : Through(b, cs)
  <2>1. k[b] \in Byte /\ v[b] \in [D -> Byte] /\ D \in SUBSET (1 .. 255)
    OBVIOUS
  <2>2. \E cs \in Seq(Byte) : /\ Len(cs) = threshold /\ cs[1] = k[b]
                              /\ \A x \in D : Evaluate(cs, ToByte(x)) = v[b][x]
    BY <2>1, CoefficientsThrough
  <2> QED
    BY <2>2
<1>2. \A b \in DOMAIN k : Through(b, C[b])
  <2> HIDE DEF Through
  <2> QED
    BY <1>1
<1> HIDE DEF C
<1>3. ASSUME NEW b \in DOMAIN k
      PROVE  /\ \A i \in 1 .. threshold - 1 : random[b][i] \in Byte
             /\ Polynomials(k, threshold, random)[b] = C[b]
  <2>1. C[b] \in Seq(Byte) /\ Len(C[b]) = threshold /\ C[b][1] = k[b]
    BY <1>2
  <2> DEFINE cs == C[b]
             above == [i \in 1 .. threshold - 1 |-> cs[i + 1]]
  <2>2. random[b] = above
    OBVIOUS
  <2> HIDE DEF random
  <2>3. Polynomials(k, threshold, random)[b] = <<k[b]>> \o above
    BY <2>2 DEF Polynomials
  <2>4. cs \in Seq(Byte) /\ Len(cs) = threshold /\ cs[1] = k[b]
    BY <2>1
  <2> HIDE DEF cs
  <2>5. 0 < threshold
    <3>1. IsFiniteSet(1 .. total)
      BY ONLY 1 \in Int, total \in Int, FS_Interval, Zenon
    <3>2. Cardinality(D) \in Nat
      BY <3>1, FS_Subset, FS_CardinalityType
    <3> QED
      BY <3>2
  <2>6. \A i \in 1 .. threshold - 1 : above[i] \in Byte
    BY <2>4
  <2>7. <<k[b]>> \o above = cs
    <3>1. above \in Seq(Byte) /\ Len(above) = threshold - 1
      BY <2>5, <2>6
    <3>3. \A i \in 1 .. threshold - 1 : above[i] = cs[i + 1]
      OBVIOUS
    <3> HIDE DEF above
    <3> DEFINE c  == k[b]
               ds == <<c>> \o above
    <3>4. c \in Byte /\ cs[1] = c
      BY <2>4
    <3> HIDE DEF c
    <3>5. /\ ds \in Seq(Byte) /\ Len(ds) = threshold /\ ds[1] = c
          /\ \A i \in 2 .. threshold : ds[i] = above[i - 1]
      BY <2>5, <3>1, <3>4
    <3> HIDE DEF ds
    <3>6. ASSUME NEW i \in 2 .. threshold PROVE ds[i] = cs[i]
      <4>1. i - 1 \in 1 .. threshold - 1 /\ (i - 1) + 1 = i
        BY <2>5
      <4> QED
        BY <3>3, <3>5, <4>1
    <3>7. \A i \in 1 .. threshold : ds[i] = cs[i]
      BY <3>4, <3>5, <3>6
    <3>8. ds = cs
      BY <2>4, <3>5, <3>7
    <3> QED
      BY <3>8 DEF ds, c
  <2> QED
    BY <2>2, <2>3, <2>6, <2>7 DEF cs
<1> HIDE DEF random
<1>4. RandomFor(random, k, threshold)
  BY <1>3 DEF RandomFor
<1>5. ASSUME NEW x \in D
      PROVE  SplitSecret(k, threshold, total, random)[x] = [x |-> x, y |-> [b \in DOMAIN k |-> v[b][x]]]
  <2>1. \A b \in DOMAIN k : Evaluate(Polynomials(k, threshold, random)[b], ToByte(x)) = v[b][x]
    BY <1>2, <1>3
  <2>2. SplitSecret(k, threshold, total, random)[x]
          = [x |-> x, y |-> [b \in DOMAIN k |-> Evaluate(Polynomials(k, threshold, random)[b], ToByte(x))]]
    BY DEF SplitSecret
  <2> QED
    BY <2>1, <2>2
<1> QED
  BY <1>4, <1>5 DEF Draws

\* Shares of one model, fewer than its threshold, say nothing about its key: every key is still
\* possible, for some random bytes that the owner may have drawn.
FewerSayNothing ==
    \A m \in Shared, k \in Keys :
        Cardinality({s.share.x : s \in {collected[i] : i \in {j \in DOMAIN collected : collected[j].of = m}}})
            < plan[m].threshold
        => \E random :
             /\ RandomFor(random, k, plan[m].threshold)
             /\ \A i \in DOMAIN collected : collected[i].of = m =>
                  SplitSecret(k, plan[m].threshold, Len(plan[m].holders), random)[collected[i].share.x]
                    = collected[i].share

\* Fewer shares of a model than its threshold say nothing about its key.
THEOREM FewerSharesSayNothing == Spec => []FewerSayNothing
<1>1. SharesOK /\ EnvelopesOK => FewerSayNothing
  <2> DEFINE Of(m)   == {collected[i] : i \in {j \in DOMAIN collected : collected[j].of = m}}
             Seen(m) == {s.share.x : s \in Of(m)}
  <2> SUFFICES ASSUME SharesOK, EnvelopesOK, NEW m \in Shared, NEW k \in Keys,
                      Cardinality(Seen(m)) < plan[m].threshold
               PROVE  \E random :
                        /\ RandomFor(random, k, plan[m].threshold)
                        /\ \A i \in DOMAIN collected : collected[i].of = m =>
                             SplitSecret(k, plan[m].threshold, Len(plan[m].holders), random)[collected[i].share.x]
                               = collected[i].share
    BY DEF FewerSayNothing
  <2> DEFINE t == plan[m].threshold
             total == Len(plan[m].holders)
             D == Seen(m)
  <2>1. PICK F : SharedBy(m, F)
    BY DEF SharesOK
  <2>2. key[m] \in Seq(Byte) /\ k \in Seq(Byte) /\ Len(k) = Len(key[m]) /\ DOMAIN k = DOMAIN key[m]
    BY <2>1, SecretsAssumption DEF SecretsAssumption, SharedBy
  <2>3. t \in Nat /\ total \in 0 .. 255
    <3>1. PlanOK(plan[m])
      BY DEF EnvelopesOK
    <3>2. t \in Nat /\ plan[m].holders \in Seq(Parties)
      BY <3>1 DEF PlanOK
    <3>3. total <= 255
      BY <2>1 DEF SharedBy
    <3>4. total \in Nat
      BY <3>2
    <3> HIDE DEF t, total
    <3> QED
      BY <3>2, <3>3, <3>4
  <2>4. Hides(key[m], t, F)
    BY <2>1 DEF SharedBy
  <2>5. ASSUME NEW i \in DOMAIN collected, collected[i].of = m
        PROVE  /\ collected[i].share.x \in 1 .. total /\ collected[i].share.x \in D
               /\ collected[i].share = [x |-> collected[i].share.x,
                                        y |-> [b \in DOMAIN k |-> F[b][ToByte(collected[i].share.x)]]]
    <3>1. PICK z \in 1 .. total : collected[i].share = PointOf(key[m], F, z)
      BY <2>1, <2>5 DEF SharedBy
    <3>2. collected[i].share = [x |-> z, y |-> [b \in DOMAIN k |-> F[b][ToByte(z)]]]
      BY <2>2, <3>1 DEF PointOf
    <3>3. collected[i].share.x = z
      BY <3>2
    <3>4. collected[i].share.x \in D
      BY <2>5
    <3> HIDE DEF total, D
    <3> QED
      BY <3>2, <3>3, <3>4
  <2>6. D \in SUBSET (1 .. total)
    <3>1. ASSUME NEW x \in D PROVE x \in 1 .. total
      <4>1. PICK i \in DOMAIN collected : collected[i].of = m /\ x = collected[i].share.x
        OBVIOUS
      <4> HIDE DEF D, total
      <4> QED
        BY <2>5, <4>1
    <3> HIDE DEF D, total
    <3> QED
      BY <3>1
  <2> DEFINE v == [b \in DOMAIN k |-> [x \in D |-> F[b][ToByte(x)]]]
  <2>7. v \in [DOMAIN k -> [D -> Byte]]
    <3>1. ASSUME NEW b \in DOMAIN k, NEW x \in D PROVE F[b][ToByte(x)] \in Byte
      <4>1. F[b] \in Poly(t) /\ ToByte(x) \in Byte
        BY <2>2, <2>4, ToByteIsByte DEF Hides
      <4> HIDE DEF t
      <4> QED
        BY <2>3, <4>1, PolyType
    <3> HIDE DEF D
    <3> QED
      BY <3>1
  <2>8. Cardinality(D) < t
    OBVIOUS
  <2>9. \A b \in DOMAIN k, x \in D : v[b][x] = F[b][ToByte(x)]
    OBVIOUS
  <2> HIDE DEF t, total, D, v
  <2>10. PICK random : Draws(random, k, t, total, D, v)
    <3>1. k \in Seq(Byte) /\ t \in Nat /\ total \in 0 .. 255
      BY <2>2, <2>3
    <3> QED
      BY ONLY <2>6, <2>7, <2>8, <3>1, SplitsAsGiven, Zenon
  <2>11. ASSUME NEW i \in DOMAIN collected, collected[i].of = m
         PROVE  SplitSecret(k, t, total, random)[collected[i].share.x] = collected[i].share
    <3> DEFINE z == collected[i].share.x
    <3>1. z \in D /\ collected[i].share = [x |-> z, y |-> [b \in DOMAIN k |-> F[b][ToByte(z)]]]
      BY <2>5, <2>11
    <3>2. SplitSecret(k, t, total, random)[z] = [x |-> z, y |-> [b \in DOMAIN k |-> v[b][z]]]
      BY <2>10, <3>1 DEF Draws
    <3>3. \A b \in DOMAIN k : v[b][z] = F[b][ToByte(z)]
      BY <2>9, <3>1
    <3> HIDE DEF z
    <3>4. SplitSecret(k, t, total, random)[z] = collected[i].share
      BY <3>1, <3>2, <3>3
    <3> QED
      BY <3>4 DEF z
  <2> QED
    BY <2>10, <2>11 DEF Draws, t, total
<1> QED
  BY <1>1, SharesHold, EnvelopesHold, PTL
=============================================================================
