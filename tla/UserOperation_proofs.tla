------------------------ MODULE UserOperation_proofs ------------------------
(***************************************************************************)
(* Proofs about UserOperation.tla and AccountModules.tla, for every width  *)
(* of fields, addresses and words: the layout of nonces, the wire form of  *)
(* operations, the signatures of passkeys, the recovery of an account; and *)
(* the bounds of a wait for every interval, timeout and delay.  What the   *)
(* encoders compute digit by digit is proved by induction over a set.      *)
(***************************************************************************)
EXTENDS AccountModules, FiniteSetTheorems, WellFoundedInduction, TLAPS

Phases == {"idle", "built", "signed", "sent", "asking", "answered", "sleeping", "receipt", "timeout", "failed"}

\* Two fields, one above the other, come apart again.
LEMMA Fields ==
    ASSUME NEW high \in Nat, NEW width \in Nat \ {0}, NEW low \in 0 .. width - 1
    PROVE  /\ (high * width + low) \div width = high
           /\ (high * width + low) % width = low
           /\ high * width + low \in Nat
<1>1. high * width \in Nat /\ high * width + low \in Nat
  BY SMT
<1> QED
  BY <1>1, SMT

\* A quotient by a product, one factor at a time.
LEMMA DivideTwice ==
    ASSUME NEW n \in Nat, NEW a \in Nat \ {0}, NEW b \in Nat \ {0}
    PROVE  n \div (a * b) = (n \div b) \div a
<1> QED
  BY SMT
-----------------------------------------------------------------------------
\* Induction, for a set.
LEMMA NatSetInduction ==
    ASSUME NEW T, 0 \in T, \A n \in Nat : n \in T => n + 1 \in T
    PROVE  Nat \subseteq T
<1> DEFINE B == Nat \ T
<1> SUFFICES ASSUME B # {} PROVE FALSE
  OBVIOUS
<1>1. PICK x \in B : \A y \in B : ~(<<y, x>> \in OpToRel(<, Nat))
  <2>1. B \subseteq Nat
    OBVIOUS
  <2> HIDE DEF B
  <2> QED
    BY <2>1, NatLessThanWellFounded, WFMin
<1>2. x \in Nat /\ x # 0 /\ x \notin T
  OBVIOUS
<1>3. x - 1 \in Nat /\ x - 1 < x /\ (x - 1) + 1 = x
  BY <1>2
<1>4. <<x - 1, x>> \in OpToRel(<, Nat)
  BY <1>2, <1>3 DEF OpToRel
<1>5. x - 1 \in T
  BY <1>1, <1>3, <1>4
<1> QED
  BY <1>2, <1>3, <1>5

\* f starts with a and goes on by step.
Goes(f, S, a, step) == f \in [Nat -> S] /\ f[0] = a /\ \A k \in Nat : f[k + 1] = step[k][f[k]]

\* A value for 0 and a step from each number to the next make a function on Nat.
LEMMA Recursion ==
    ASSUME NEW S, NEW a \in S, NEW step \in [Nat -> [S -> S]]
    PROVE  \E f : Goes(f, S, a, step)
<1> DEFINE Upto(n, g) == g \in [0 .. n -> S] /\ g[0] = a /\ \A k \in 0 .. n - 1 : g[k + 1] = step[k][g[k]]
<1>1. \A n \in Nat : \E g : Upto(n, g)
  <2> DEFINE T == {n \in Nat : \E g : Upto(n, g)}
  <2>1. 0 \in T
    <3>1. Upto(0, [k \in 0 .. 0 |-> a])
      OBVIOUS
    <3> QED
      BY <3>1
  <2>2. ASSUME NEW n \in Nat, n \in T PROVE n + 1 \in T
    <3>1. PICK g : Upto(n, g)
      BY <2>2
    <3> DEFINE h == [k \in 0 .. n + 1 |-> IF k = n + 1 THEN step[n][g[n]] ELSE g[k]]
    <3>2. g[n] \in S /\ step[n][g[n]] \in S
      BY <3>1
    <3>3. h \in [0 .. n + 1 -> S] /\ h[0] = a
      BY <3>1, <3>2
    <3>4. ASSUME NEW k \in 0 .. n PROVE h[k + 1] = step[k][h[k]]
      BY <3>1
    <3> HIDE DEF h
    <3>5. Upto(n + 1, h)
      <4>1. 0 .. (n + 1) - 1 = 0 .. n
        OBVIOUS
      <4> QED
        BY <3>3, <3>4, <4>1
    <3> HIDE DEF Upto
    <3> QED
      BY <3>5
  <2> HIDE DEF T
  <2>3. Nat \subseteq T
    BY <2>1, <2>2, NatSetInduction
  <2> QED
    BY <2>3 DEF T
<1>2. ASSUME NEW n \in Nat, NEW m \in Nat, NEW g, NEW h, Upto(n, g), Upto(m, h)
      PROVE  \A k \in Nat : k <= n /\ k <= m => g[k] = h[k]
  <2> DEFINE T == {k \in Nat : k <= n /\ k <= m => g[k] = h[k]}
  <2>1. 0 \in T
    BY <1>2
  <2>2. ASSUME NEW k \in Nat, k \in T PROVE k + 1 \in T
    BY <1>2, <2>2
  <2> HIDE DEF T
  <2>3. Nat \subseteq T
    BY <2>1, <2>2, NatSetInduction
  <2> QED
    BY <2>3 DEF T
<1> DEFINE G(n) == CHOOSE g : Upto(n, g)
           f    == [n \in Nat |-> G(n)[n]]
<1>3. ASSUME NEW n \in Nat PROVE Upto(n, G(n))
  <2> HIDE DEF Upto
  <2> QED
    BY <1>1
<1> HIDE DEF G
<1>4. f \in [Nat -> S]
  BY <1>3
<1>5. f[0] = a
  BY <1>3
<1>6. ASSUME NEW k \in Nat PROVE f[k + 1] = step[k][f[k]]
  <2>1. Upto(k + 1, G(k + 1)) /\ Upto(k, G(k))
    BY <1>3
  <2>2. k + 1 \in Nat /\ k <= k + 1 /\ k <= k
    OBVIOUS
  <2>3. G(k + 1)[k] = G(k)[k]
    <3> HIDE DEF Upto
    <3> QED
      BY <2>1, <2>2, <1>2
  <2>4. G(k + 1)[k + 1] = step[k][G(k + 1)[k]]
    BY <2>1
  <2> QED
    BY <2>3, <2>4
<1> QED
  BY <1>4, <1>5, <1>6 DEF Goes

LEMMA PowerIs ==
    Power \in [Nat -> Nat \ {0}] /\ Power[0] = 1 /\ \A k \in Nat : Power[k + 1] = Radix * Power[k]
<1>0. Radix \in Nat \ {0, 1}
  BY WidthAssumption DEF WidthAssumption
<1> DEFINE S    == Nat \ {0}
           step == [k \in Nat |-> [v \in S |-> Radix * v]]
<1>1. step \in [Nat -> [S -> S]] /\ 1 \in S
  <2>1. \A v \in S : Radix * v \in S
    BY <1>0, SMT
  <2> QED
    BY <2>1
<1>2. \E f : Goes(f, S, 1, step)
  <2> HIDE DEF S, step
  <2> QED
    BY <1>1, Recursion
<1>3. PICK f : f \in [Nat -> S] /\ f[0] = 1 /\ \A k \in Nat : f[k + 1] = Radix * f[k]
  BY <1>2 DEF Goes
<1>4. f = [k \in Nat |-> IF k = 0 THEN 1 ELSE Radix * f[k - 1]]
  <2>1. ASSUME NEW k \in Nat, k # 0 PROVE f[k] = Radix * f[k - 1]
    <3>1. k - 1 \in Nat /\ (k - 1) + 1 = k
      BY <2>1
    <3>2. f[(k - 1) + 1] = Radix * f[k - 1]
      BY <1>3, <3>1
    <3> QED
      BY <3>1, <3>2
  <2> QED
    BY <1>3, <2>1
<1>5. Power = [k \in Nat |-> IF k = 0 THEN 1 ELSE Radix * Power[k - 1]]
  BY <1>4, Zenon DEF Power
<1>6. Power[0] = 1 /\ \A k \in Nat : Power[k + 1] = Radix * Power[k]
  <2>1. ASSUME NEW k \in Nat PROVE Power[k + 1] = Radix * Power[k]
    <3>1. k + 1 \in Nat /\ k + 1 # 0 /\ (k + 1) - 1 = k
      OBVIOUS
    <3>2. Power[k + 1] = IF k + 1 = 0 THEN 1 ELSE Radix * Power[(k + 1) - 1]
      BY ONLY <1>5, <3>1, Zenon
    <3> QED
      BY <3>1, <3>2
  <2> QED
    BY <1>5, <2>1
<1>7. \A k \in Nat : Power[k] \in Nat \ {0}
  <2> DEFINE T == {k \in Nat : Power[k] \in Nat \ {0}}
  <2>1. 0 \in T
    BY <1>6
  <2>2. ASSUME NEW n \in Nat, n \in T PROVE n + 1 \in T
    BY <1>0, <1>6, <2>2, SMT
  <2> HIDE DEF T
  <2>3. Nat \subseteq T
    BY <2>1, <2>2, NatSetInduction
  <2> QED
    BY <2>3 DEF T
<1>8. Power = [k \in Nat |-> Power[k]]
  BY ONLY <1>5
<1> QED
  BY <1>6, <1>7, <1>8

\* A quotient is made of the next one and a digit.
LEMMA LastDigit ==
    ASSUME NEW n \in Nat, NEW a \in Nat \ {0}, NEW p \in Nat \ {0}
    PROVE  (n \div (a * p)) * a + ((n \div p) % a) = n \div p
<1> DEFINE m == n \div p
<1>1. n \div (a * p) = m \div a
  BY DivideTwice, Zenon
<1>0. m \in Nat
  BY SMT
<1> HIDE DEF m
<1>2. m = (m \div a) * a + (m % a)
  BY <1>0, SMT
<1> QED
  BY <1>1, <1>2 DEF m

\* The value of a byte string, one digit after the other.
LEMMA DigitByDigit ==
    ASSUME NEW bytes \in Seq(Nat)
    PROVE  \E value : /\ value[0] = 0
                      /\ \A i \in 1 .. Len(bytes) : value[i] = value[i - 1] * Radix + bytes[i]
                      /\ ToNumber(bytes) = value[Len(bytes)]
<1>0. Radix \in Nat \ {0, 1} /\ Len(bytes) \in Nat
  BY WidthAssumption DEF WidthAssumption
<1> DEFINE digit(k) == IF k + 1 \in 1 .. Len(bytes) THEN bytes[k + 1] ELSE 0
           step     == [k \in Nat |-> [v \in Nat |-> v * Radix + digit(k)]]
           Value(f) == f = [i \in 0 .. Len(bytes) |-> IF i = 0 THEN 0 ELSE f[i - 1] * Radix + bytes[i]]
<1>1. step \in [Nat -> [Nat -> Nat]]
  <2>1. \A k \in Nat : digit(k) \in Nat
    OBVIOUS
  <2> HIDE DEF digit
  <2>2. ASSUME NEW k \in Nat, NEW v \in Nat PROVE v * Radix + digit(k) \in Nat
    <3>1. PICK d \in Nat : d = digit(k)
      BY <2>1
    <3>2. v * Radix + d \in Nat
      BY <1>0, SMT
    <3> QED
      BY <3>1, <3>2, Zenon
  <2> QED
    BY <2>2
<1>2. \E f : Goes(f, Nat, 0, step)
  <2> HIDE DEF step
  <2> QED
    BY <1>1, Recursion
<1>3. PICK f : /\ f \in [Nat -> Nat] /\ f[0] = 0
               /\ \A k \in Nat : f[k + 1] = f[k] * Radix + digit(k)
  BY <1>2 DEF Goes
<1> DEFINE g == [i \in 0 .. Len(bytes) |-> f[i]]
<1>4. Value(g)
  <2>1. ASSUME NEW i \in 1 .. Len(bytes) PROVE f[i] = f[i - 1] * Radix + bytes[i]
    <3>1. i - 1 \in Nat /\ (i - 1) + 1 = i
      BY <2>1, <1>0
    <3>2. f[(i - 1) + 1] = f[i - 1] * Radix + digit(i - 1)
      BY <1>3, <3>1
    <3> QED
      BY <3>1, <3>2
  <2>2. ASSUME NEW i \in 0 .. Len(bytes)
        PROVE  f[i] = IF i = 0 THEN 0 ELSE g[i - 1] * Radix + bytes[i]
    <3>1. CASE i = 0
      BY <1>3, <3>1
    <3>2. CASE i # 0
      <4>1. i \in 1 .. Len(bytes) /\ i - 1 \in 0 .. Len(bytes)
        BY <1>0, <3>2
      <4>2. g[i - 1] = f[i - 1]
        BY <4>1
      <4> QED
        BY <2>1, <3>2, <4>1, <4>2, Zenon
    <3> QED
      BY <3>1, <3>2
  <2> QED
    BY <2>2, Zenon
<1> DEFINE value == CHOOSE h : Value(h)
<1>5. Value(value)
  <2> HIDE DEF Value, g
  <2> QED
    BY <1>4
<1>6. ToNumber(bytes) = value[Len(bytes)]
  BY DEF ToNumber
<1> HIDE DEF value
<1>7. value[0] = 0 /\ \A i \in 1 .. Len(bytes) : value[i] = value[i - 1] * Radix + bytes[i]
  <2>1. value = [i \in 0 .. Len(bytes) |-> IF i = 0 THEN 0 ELSE value[i - 1] * Radix + bytes[i]]
    BY <1>5
  <2>2. \A i \in 0 .. Len(bytes) : value[i] = IF i = 0 THEN 0 ELSE value[i - 1] * Radix + bytes[i]
    BY ONLY <2>1, Zenon
  <2>3. 0 \in 0 .. Len(bytes) /\ \A i \in 1 .. Len(bytes) : i \in 0 .. Len(bytes) /\ i # 0
    BY <1>0
  <2> QED
    BY ONLY <2>2, <2>3, Zenon
<1> QED
  BY <1>6, <1>7

LEMMA BytesAreDigits ==
    ASSUME NEW n \in Nat, NEW k \in Nat
    PROVE  ToBytes(n, k) \in Seq(Nat) /\ Len(ToBytes(n, k)) = k
<1>1. ASSUME NEW i \in 1 .. k PROVE (n \div Power[k - i]) % Radix \in Nat
  <2>1. k - i \in Nat
    OBVIOUS
  <2>2. Power[k - i] \in Nat \ {0} /\ Radix \in Nat \ {0}
    BY <2>1, PowerIs, WidthAssumption DEF WidthAssumption
  <2> QED
    BY <2>2, SMT
<1> QED
  BY <1>1 DEF ToBytes

\* A number that fits is the number its bytes write.
LEMMA BytesRoundTrip ==
    ASSUME NEW k \in Nat, NEW n \in 0 .. Power[k] - 1
    PROVE  ToNumber(ToBytes(n, k)) = n
<1>0. /\ Radix \in Nat \ {0} /\ n \in Nat
      /\ \A i \in Nat : Power[i] \in Nat \ {0}
      /\ Power[0] = 1 /\ \A i \in Nat : Power[i + 1] = Radix * Power[i]
  BY PowerIs, WidthAssumption DEF WidthAssumption
<1> DEFINE bytes == ToBytes(n, k)
<1>1. bytes \in Seq(Nat) /\ Len(bytes) = k
  BY <1>0, BytesAreDigits
<1>2. \A i \in 1 .. k : bytes[i] = (n \div Power[k - i]) % Radix
  BY DEF ToBytes
<1> HIDE DEF bytes
<1>3. PICK value : /\ value[0] = 0
                   /\ \A i \in 1 .. k : value[i] = value[i - 1] * Radix + bytes[i]
                   /\ ToNumber(bytes) = value[k]
  BY <1>1, DigitByDigit
<1> DEFINE T == {i \in Nat : i <= k => value[i] = n \div Power[k - i]}
<1>4. 0 \in T
  <2>1. Power[k] \in Nat \ {0} /\ n \div Power[k] = 0
    <3>1. PICK p \in Nat \ {0} : p = Power[k]
      BY <1>0
    <3>2. n \in 0 .. p - 1
      BY <3>1
    <3>3. n \div p = 0
      BY <3>2, SMT
    <3> QED
      BY <3>1, <3>3
  <2> QED
    BY <1>3, <2>1
<1>5. ASSUME NEW i \in Nat, i \in T PROVE i + 1 \in T
  <2> SUFFICES ASSUME i + 1 <= k PROVE value[i + 1] = n \div Power[k - (i + 1)]
    OBVIOUS
  <2> DEFINE p == Power[k - (i + 1)]
             m == n \div p
  <2>1. /\ k - (i + 1) \in Nat /\ (k - (i + 1)) + 1 = k - i /\ i + 1 \in 1 .. k
        /\ (i + 1) - 1 = i /\ k - i \in Nat
    OBVIOUS
  <2>2. p \in Nat \ {0} /\ Power[k - i] = Radix * p
    <3>1. Power[(k - (i + 1)) + 1] = Radix * p
      BY <1>0, <2>1
    <3> QED
      BY <1>0, <2>1, <3>1
  <2>3. value[i] = n \div Power[k - i]
    BY <1>5
  <2>4. value[i + 1] = value[(i + 1) - 1] * Radix + bytes[i + 1]
    BY <1>3, <2>1
  <2>5. bytes[i + 1] = m % Radix
    BY <1>2, <2>1
  <2> HIDE DEF p
  <2>6. (n \div (Radix * p)) * Radix + (m % Radix) = m
    BY <1>0, <2>2, LastDigit
  <2> HIDE DEF m
  <2>7. value[i + 1] = (n \div (Radix * p)) * Radix + (m % Radix)
    BY ONLY <2>1, <2>2, <2>3, <2>4, <2>5
  <2>8. value[i + 1] = m
    BY ONLY <2>6, <2>7
  <2> QED
    BY <2>8 DEF m, p
<1> HIDE DEF T
<1>6. Nat \subseteq T
  BY <1>4, <1>5, NatSetInduction
<1>7. value[k] = n \div Power[k - k]
  BY <1>6 DEF T
<1>8. value[k] = n
  BY <1>0, <1>7
<1> QED
  BY <1>3, <1>8 DEF bytes

\* In s, behind its first m bytes, comes b.
At(s, m, b) == m \in Nat /\ m + Len(b) <= Len(s) /\ \A i \in 1 .. Len(b) : s[m + i] = b[i]

LEMMA TwoParts ==
    ASSUME NEW a \in Seq(Nat), NEW b \in Seq(Nat)
    PROVE  a \o b \in Seq(Nat) /\ Len(a \o b) = Len(a) + Len(b) /\ At(a \o b, 0, a) /\ At(a \o b, Len(a), b)
BY DEF At

LEMMA PartOfPart ==
    ASSUME NEW s \in Seq(Nat), NEW t \in Seq(Nat), NEW b \in Seq(Nat), NEW l, NEW m, At(t, l, s), At(s, m, b)
    PROVE  At(t, l + m, b)
<1>0. Len(b) \in Nat /\ Len(s) \in Nat /\ Len(t) \in Nat /\ l \in Nat /\ m \in Nat
  BY DEF At
<1>1. ASSUME NEW i \in 1 .. Len(b) PROVE t[(l + m) + i] = b[i]
  <2>1. m + i \in 1 .. Len(s) /\ (l + m) + i = l + (m + i)
    BY <1>0 DEF At
  <2> QED
    BY <2>1 DEF At
<1> QED
  BY <1>0, <1>1 DEF At

LEMMA Slice ==
    ASSUME NEW s \in Seq(Nat), NEW b \in Seq(Nat), NEW m, At(s, m, b)
    PROVE  SubSeq(s, m + 1, m + Len(b)) = b
<1>1. SubSeq(s, m + 1, m + Len(b)) = [i \in 1 .. Len(b) |-> s[m + i]]
  BY DEF At
<1>2. b = [i \in 1 .. Len(b) |-> b[i]]
  OBVIOUS
<1> QED
  BY <1>1, <1>2 DEF At

\* s is these four, one behind the other.
IsFourParts(s, a, b, c, d) ==
    /\ s \in Seq(Nat) /\ Len(s) = Len(a) + Len(b) + Len(c) + Len(d)
    /\ At(s, 0, a) /\ At(s, Len(a), b) /\ At(s, Len(a) + Len(b), c) /\ At(s, Len(a) + Len(b) + Len(c), d)

LEMMA FourParts ==
    ASSUME NEW a \in Seq(Nat), NEW b \in Seq(Nat), NEW c \in Seq(Nat), NEW d \in Seq(Nat)
    PROVE  IsFourParts(a \o b \o c \o d, a, b, c, d)
<1> DEFINE ab  == a \o b
           abc == ab \o c
           s   == abc \o d
<1>0. Len(a) \in Nat /\ Len(b) \in Nat /\ Len(c) \in Nat /\ Len(d) \in Nat
  OBVIOUS
<1>1. ab \in Seq(Nat) /\ Len(ab) = Len(a) + Len(b) /\ At(ab, 0, a) /\ At(ab, Len(a), b)
  BY TwoParts, Zenon
<1> HIDE DEF ab
<1>2. abc \in Seq(Nat) /\ Len(abc) = Len(ab) + Len(c) /\ At(abc, 0, ab) /\ At(abc, Len(ab), c)
  BY <1>1, TwoParts, Zenon
<1> HIDE DEF abc
<1>3. s \in Seq(Nat) /\ Len(s) = Len(abc) + Len(d) /\ At(s, 0, abc) /\ At(s, Len(abc), d)
  BY <1>2, TwoParts, Zenon
<1> HIDE DEF s
<1>4. At(s, 0 + 0, ab) /\ At(s, 0 + Len(ab), c)
  BY <1>1, <1>2, <1>3, PartOfPart, Zenon
<1>5. At(s, 0 + 0 + 0, a) /\ At(s, 0 + 0 + Len(a), b)
  BY <1>1, <1>3, <1>4, PartOfPart, Zenon
<1>6. At(s, 0, a) /\ At(s, Len(a), b) /\ At(s, Len(a) + Len(b), c)
      /\ At(s, Len(a) + Len(b) + Len(c), d) /\ Len(s) = Len(a) + Len(b) + Len(c) + Len(d)
  BY <1>0, <1>1, <1>2, <1>3, <1>4, <1>5
<1> QED
  BY <1>3, <1>6 DEF IsFourParts, s, abc, ab
-----------------------------------------------------------------------------
\* A route through an installed validator: what is read back is what went in.
LEMMA ValidatorNonceDecodes ==
    ASSUME NEW v \in 0 .. AddressSpace - 1, NEW k \in 0 .. NonceKeySpace - 1,
           NEW n \in 0 .. SequenceSpace - 1,
           ComposeNonce(ValidatorNonceKey(v, k), n) # Error
    PROVE  DecodeNonce(ComposeNonce(ValidatorNonceKey(v, k), n)) =
               [mode |-> DefaultMode, type |-> ValidatorType, validator |-> v, nonceKey |-> k,
                sequence |-> n]
<1> DEFINE prefix == (DefaultMode * ByteSpace + ValidatorType) * AddressSpace + v
           key    == prefix * NonceKeySpace + k
           nonce  == key * SequenceSpace + n
<1>0. /\ AddressSpace \in Nat \ {0} /\ NonceKeySpace \in Nat \ {0} /\ SequenceSpace \in Nat \ {0}
      /\ ByteSpace \in Nat /\ ByteSpace > 1
  BY WidthAssumption DEF WidthAssumption
<1>1. /\ prefix \in Nat /\ prefix \div AddressSpace = 1 /\ prefix % AddressSpace = v
  <2>1. prefix = 1 * AddressSpace + v
    BY <1>0 DEF DefaultMode, ValidatorType
  <2> HIDE DEF prefix
  <2> QED
    BY <1>0, <2>1, Fields
<1> HIDE DEF prefix
<1>2. /\ key \in Nat /\ key \div NonceKeySpace = prefix /\ key % NonceKeySpace = k
  BY <1>0, <1>1, Fields
<1> HIDE DEF key
<1>3. /\ nonce \in Nat /\ nonce \div SequenceSpace = key /\ nonce % SequenceSpace = n
  BY <1>0, <1>2, Fields
<1> HIDE DEF nonce
<1>4. (key \div (AddressSpace * NonceKeySpace)) % ByteSpace = ValidatorType
  <2>1. key \div (AddressSpace * NonceKeySpace) = 1
    <3>1. key \in Nat /\ AddressSpace \in Nat \ {0} /\ NonceKeySpace \in Nat \ {0}
      BY <1>0, <1>2
    <3>2. key \div (AddressSpace * NonceKeySpace) = (key \div NonceKeySpace) \div AddressSpace
      BY ONLY <3>1, DivideTwice, Zenon
    <3> QED
      BY <1>1, <1>2, <3>2, Zenon
  <2>2. 1 % ByteSpace = 1
    BY <1>0
  <2> QED
    BY <2>1, <2>2 DEF ValidatorType
<1>5. key \div (ByteSpace * AddressSpace * NonceKeySpace) = DefaultMode
  <2>1. ByteSpace * AddressSpace \in Nat \ {0}
    BY <1>0, SMT
  <2>2. key \div ((ByteSpace * AddressSpace) * NonceKeySpace) = prefix \div (ByteSpace * AddressSpace)
    <3>1. key \in Nat /\ NonceKeySpace \in Nat \ {0}
      BY <1>0, <1>2
    <3>2. key \div ((ByteSpace * AddressSpace) * NonceKeySpace)
              = (key \div NonceKeySpace) \div (ByteSpace * AddressSpace)
      BY ONLY <2>1, <3>1, DivideTwice, Zenon
    <3> QED
      BY <1>2, <3>2, Zenon
  <2>3. prefix \div (ByteSpace * AddressSpace) = 1 \div ByteSpace
    <3>1. prefix \in Nat /\ ByteSpace \in Nat \ {0} /\ AddressSpace \in Nat \ {0}
      BY <1>0, <1>1
    <3>2. prefix \div (ByteSpace * AddressSpace) = (prefix \div AddressSpace) \div ByteSpace
      BY ONLY <3>1, DivideTwice, Zenon
    <3> QED
      BY <1>1, <3>2, Zenon
  <2>4. 1 \div ByteSpace = 0
    BY <1>0
  <2> QED
    BY <2>2, <2>3, <2>4 DEF DefaultMode
<1>6. ValidatorNonceKey(v, k) = key
  BY DEF ValidatorNonceKey, key, prefix
<1>7. ComposeNonce(key, n) \in {nonce, Error}
  BY DEF ComposeNonce, nonce
<1>8. DecodeNonce(nonce) = [mode |-> DefaultMode, type |-> ValidatorType, validator |-> v,
                            nonceKey |-> k, sequence |-> n]
  BY <1>1, <1>2, <1>3, <1>4, <1>5 DEF DecodeNonce
<1> QED
  BY <1>6, <1>7, <1>8

\* The root validator's route has all its fields at zero.
LEMMA RootNonceDecodes ==
    ASSUME NEW n \in 0 .. SequenceSpace - 1
    PROVE  DecodeNonce(RootValidatorNonce(n)) =
               [mode |-> DefaultMode, type |-> RootType, validator |-> 0, nonceKey |-> 0, sequence |-> n]
<1>0. /\ AddressSpace \in Nat \ {0} /\ NonceKeySpace \in Nat \ {0} /\ SequenceSpace \in Nat \ {0}
      /\ ByteSpace \in Nat \ {0}
  BY WidthAssumption DEF WidthAssumption
<1>1. n \div SequenceSpace = 0 /\ n % SequenceSpace = n
  BY <1>0, SMT
<1>2. AddressSpace * NonceKeySpace \in Nat \ {0} /\ ByteSpace * AddressSpace \in Nat \ {0}
  BY <1>0, SMT
<1>3. ByteSpace * AddressSpace * NonceKeySpace \in Nat \ {0}
  BY <1>0, <1>2, SMT
<1>4. \A d \in Nat \ {0} : 0 \div d = 0 /\ 0 % d = 0
  BY SMT
<1> QED
  BY <1>0, <1>1, <1>2, <1>3, <1>4 DEF DecodeNonce, RootValidatorNonce, DefaultMode, RootType

\* What RoutedAsMeant says of an operation packed for w at sequence n.
Routed(packed, w, n) ==
    DecodeNonce(packed.nonce) =
        [mode |-> DefaultMode, sequence |-> n,
         type      |-> IF w.validator = None THEN RootType ELSE ValidatorType,
         validator |-> IF w.validator = None THEN 0 ELSE w.validator,
         nonceKey  |-> IF w.validator = None THEN 0 ELSE w.nonceKey]

LEMMA PackedIsRouted ==
    ASSUME NEW w, NEW n, Packed(w, n) # Error
    PROVE  Routed(Packed(w, n), w, n)
<1>1. Packed(w, n).nonce = Nonce(w, n) /\ Nonce(w, n) # Error
  BY DEF Packed, BuildPackedUserOp
<1>2. CASE w.validator = None
  <2>1. n \in 0 .. SequenceSpace - 1 /\ Nonce(w, n) = RootValidatorNonce(n)
    BY <1>1, <1>2 DEF Nonce, RootValidatorNonce
  <2> QED
    BY <1>1, <1>2, <2>1, RootNonceDecodes DEF Routed
<1>3. CASE w.validator # None
  <2>1. /\ w.validator \in 0 .. AddressSpace - 1 /\ w.nonceKey \in 0 .. NonceKeySpace - 1
        /\ Nonce(w, n) = ComposeNonce(ValidatorNonceKey(w.validator, w.nonceKey), n)
    BY <1>1, <1>3 DEF Nonce, ValidatorNonceKey
  <2>2. n \in 0 .. SequenceSpace - 1
    BY <1>1, <2>1 DEF ComposeNonce
  <2> QED
    BY <1>1, <1>3, <2>1, <2>2, ValidatorNonceDecodes DEF Routed
<1> QED
  BY <1>2, <1>3

\* An operation that is not built yet has none: a step that fails to build one leaves it so.
NonceInv ==
    /\ phase = [f \in Flows |-> phase[f]]
    /\ want = [f \in Flows |-> want[f]]
    /\ op = [f \in Flows |-> op[f]]
    /\ \A f \in Flows : phase[f] = "idle" => op[f] = None
    /\ \A f \in Flows : op[f] # None => Routed(op[f], want[f].w, want[f].sequence)

LEMMA NonceInvHolds == Spec => []NonceInv
<1>1. Init => NonceInv
  BY DEF Init, NonceInv
<1>2. NonceInv /\ [Next]_vars => NonceInv'
  <2> SUFFICES ASSUME NonceInv, [Next]_vars PROVE NonceInv'
    OBVIOUS
  <2>1. ASSUME NEW f \in Flows, NEW w \in Wants, NEW ahead \in 0 .. 1, Build(f, w, ahead) PROVE NonceInv'
    <3> DEFINE n == sequence[Route(w)] + ahead
    <3>1. /\ phase[f] = "idle" /\ op[f] = None
          /\ want' = [want EXCEPT ![f] = [w |-> w, sequence |-> n]]
      BY <2>1 DEF Build, NonceInv
    <3>2. CASE Packed(w, n) = Error
      <4>1. phase' = [phase EXCEPT ![f] = "failed"] /\ op' = op
        BY <2>1, <3>2 DEF Build, Goto
      <4> QED
        BY <3>1, <4>1 DEF NonceInv
    <3>3. CASE Packed(w, n) # Error
      <4>1. phase' = [phase EXCEPT ![f] = "built"] /\ op' = [op EXCEPT ![f] = Packed(w, n)]
        BY <2>1, <3>3 DEF Build, Goto
      <4>2. Routed(Packed(w, n), w, n)
        BY <3>3, PackedIsRouted
      <4> HIDE DEF n
      <4> QED
        BY <3>1, <4>1, <4>2 DEF NonceInv
    <3> QED
      BY <3>2, <3>3
  <2>2. ASSUME UNCHANGED <<want, op>>,
               \/ UNCHANGED phase
               \/ \E f \in Flows, p \in Phases \ {"idle"} : phase' = [phase EXCEPT ![f] = p]
        PROVE  NonceInv'
    BY <2>2 DEF NonceInv
  <2>3. ASSUME NEW f \in Flows, NEW g \in Flows, NEW rs \in Scalars, NEW longForm \in BOOLEAN,
               SignWithPasskey(f, rs[1], rs[2], longForm, op[g])
        PROVE  NonceInv'
    BY <2>3, <2>2 DEF SignWithPasskey, Goto, Phases
  <2>4. ASSUME NEW f \in Flows, SignOtherwise(f) PROVE NonceInv'
    BY <2>4, <2>2 DEF SignOtherwise, Goto, Phases
  <2>5. ASSUME NEW f \in Flows, StartWait(f) PROVE NonceInv'
    BY <2>5, <2>2 DEF StartWait, Ask, Goto, building, Phases
  <2>6. ASSUME NEW f \in Flows, Look(f) PROVE NonceInv'
    BY <2>6, <2>2 DEF Look, Goto, building, Phases
  <2>7. ASSUME NEW f \in Flows, Receive(f) PROVE NonceInv'
    BY <2>7, <2>2 DEF Receive, Goto, building, Phases
  <2>8. ASSUME NEW f \in Flows, PollFails(f) PROVE NonceInv'
    BY <2>8, <2>2 DEF PollFails, Goto, building, Phases
  <2>9. ASSUME NEW f \in Flows, Wake(f) PROVE NonceInv'
    BY <2>9, <2>2 DEF Wake, Ask, Goto, building, Phases
  <2>10. ASSUME NEW f \in Flows, NEW arrives \in BOOLEAN, NEW outcome \in {"sent", "signed", "failed"},
                Send(f, arrives, outcome)
         PROVE  NonceInv'
    BY <2>10, <2>2 DEF Send, Goto, building, Phases
  <2>11. ASSUME NEW p \in pool, Mine(p) PROVE NonceInv'
    BY <2>11, <2>2 DEF Mine, building
  <2>12. CASE Tick
    BY <2>12, <2>2 DEF Tick, building
  <2>13. CASE UNCHANGED vars
    BY <2>13, <2>2 DEF vars, building
  <2> QED
    BY <2>1, <2>3, <2>4, <2>5, <2>6, <2>7, <2>8, <2>9, <2>10, <2>11, <2>12, <2>13 DEF Next
<1> QED
  BY <1>1, <1>2, PTL DEF Spec

\* For every width of the fields, and every sequence the EntryPoint may have come to: an operation
\* the code builds is executed under the validator, key and sequence it was built for.
THEOREM NoncesRouteAsMeant == Spec => []RoutedAsMeant
<1>1. NonceInv => RoutedAsMeant
  BY DEF NonceInv, RoutedAsMeant, Routed
<1> QED
  BY <1>1, NonceInvHolds, PTL
-----------------------------------------------------------------------------
\* Where a wait stands, by its phase: a request is never out for longer than MaxDelay, a sleep never
\* passes the deadline, and what was executed when the bundler looked was seen.
WaitOK(f) ==
    /\ phase[f] \in {"asking", "answered"} =>
         timer[f] <= clock /\ clock <= timer[f] + MaxDelay /\ timer[f] <= deadline[f]
    /\ phase[f] = "sleeping" => clock <= timer[f] /\ timer[f] <= deadline[f]
    /\ phase[f] = "answered" /\ ~receipt[f] /\ minedAt[f] # None => timer[f] <= minedAt[f]
    /\ phase[f] = "timeout" =>
         /\ clock + PollInterval > deadline[f]
         /\ minedAt[f] # None => minedAt[f] > deadline[f] - PollInterval - MaxDelay

WaitTypeOK ==
    /\ clock \in Nat
    /\ phase \in [Flows -> Phases]
    /\ timer \in [Flows -> Nat] /\ deadline \in [Flows -> Nat]
    /\ receipt \in [Flows -> BOOLEAN]
    /\ minedAt \in [Flows -> Nat \cup {None}]

WaitInv == WaitTypeOK /\ \A f \in Flows : WaitOK(f)

LEMMA WaitTypeCorrect == Spec => []WaitTypeOK
<1>1. Init => WaitTypeOK
  BY DEF Init, WaitTypeOK, Phases
<1>2. WaitTypeOK /\ [Next]_vars => WaitTypeOK'
  <2> SUFFICES ASSUME WaitTypeOK, [Next]_vars PROVE WaitTypeOK'
    OBVIOUS
  <2> USE TimeAssumption DEF WaitTypeOK, Phases, TimeAssumption
  <2>1. ASSUME NEW f \in Flows, NEW w \in Wants, NEW ahead \in 0 .. 1, Build(f, w, ahead) PROVE WaitTypeOK'
    <3>1. UNCHANGED <<minedAt, clock, waiting>> /\ \E p \in Phases : phase' = [phase EXCEPT ![f] = p]
      BY <2>1 DEF Build, Goto
    <3> QED
      BY <3>1 DEF waiting
  <2>2. ASSUME NEW f \in Flows, NEW g \in Flows, NEW rs \in Scalars, NEW longForm \in BOOLEAN,
               SignWithPasskey(f, rs[1], rs[2], longForm, op[g])
        PROVE  WaitTypeOK'
    <3>1. UNCHANGED <<minedAt, clock, waiting>> /\ \E p \in Phases : phase' = [phase EXCEPT ![f] = p]
      BY <2>2 DEF SignWithPasskey, Goto
    <3> QED
      BY <3>1 DEF waiting
  <2>3. ASSUME NEW f \in Flows, SignOtherwise(f) PROVE WaitTypeOK'
    BY <2>3 DEF SignOtherwise, Goto, waiting
  <2>4. ASSUME NEW f \in Flows, StartWait(f) PROVE WaitTypeOK'
    BY <2>4 DEF StartWait, Ask, Goto
  <2>5. ASSUME NEW f \in Flows, Look(f) PROVE WaitTypeOK'
    BY <2>5 DEF Look, Goto
  <2>6. ASSUME NEW f \in Flows, Receive(f) PROVE WaitTypeOK'
    BY <2>6 DEF Receive, Goto
  <2>7. ASSUME NEW f \in Flows, PollFails(f) PROVE WaitTypeOK'
    BY <2>7 DEF PollFails, Goto, waiting
  <2>8. ASSUME NEW f \in Flows, Wake(f) PROVE WaitTypeOK'
    BY <2>8 DEF Wake, Ask, Goto
  <2>9. ASSUME NEW f \in Flows, NEW arrives \in BOOLEAN, NEW outcome \in {"sent", "signed", "failed"},
               Send(f, arrives, outcome)
        PROVE  WaitTypeOK'
    BY <2>9 DEF Send, Goto, waiting
  <2>10. ASSUME NEW p \in pool, Mine(p) PROVE WaitTypeOK'
    BY <2>10 DEF Mine, waiting
  <2>11. CASE Tick
    BY <2>11 DEF Tick, waiting
  <2>12. CASE UNCHANGED vars
    BY <2>12 DEF vars, waiting
  <2> QED
    BY <2>1, <2>2, <2>3, <2>4, <2>5, <2>6, <2>7, <2>8, <2>9, <2>10, <2>11, <2>12 DEF Next
<1> QED
  BY <1>1, <1>2, PTL DEF Spec

LEMMA WaitInvHolds == Spec => []WaitInv
<1>1. Init => \A f \in Flows : WaitOK(f)
  BY DEF Init, WaitOK
<1>2. WaitTypeOK /\ (\A f \in Flows : WaitOK(f)) /\ [Next]_vars => (\A f \in Flows : WaitOK(f))'
  <2> SUFFICES ASSUME WaitTypeOK, \A f \in Flows : WaitOK(f), [Next]_vars, NEW g \in Flows
               PROVE  WaitOK(g)'
    OBVIOUS
  <2>0. /\ MaxDelay \in Nat /\ PollInterval \in Nat /\ WaitBudget \in Nat
        /\ clock \in Nat /\ timer[g] \in Nat /\ deadline[g] \in Nat
        /\ receipt[g] \in BOOLEAN /\ WaitOK(g)
    BY TimeAssumption DEF TimeAssumption, WaitTypeOK
  \* Another flow's step, or one that moves g between phases in which nobody waits.
  <2>1. ASSUME UNCHANGED <<minedAt, clock>>,
               timer'[g] = timer[g], deadline'[g] = deadline[g], receipt'[g] = receipt[g],
               \/ phase'[g] = phase[g]
               \/ phase'[g] \notin {"asking", "answered", "sleeping", "timeout"}
        PROVE  WaitOK(g)'
    BY <2>0, <2>1 DEF WaitOK
  <2>2. ASSUME NEW f \in Flows, NEW w \in Wants, NEW ahead \in 0 .. 1, Build(f, w, ahead) PROVE WaitOK(g)'
    BY <2>1, <2>2 DEF Build, Goto, waiting, WaitTypeOK
  <2>3. ASSUME NEW f \in Flows, NEW h \in Flows, NEW rs \in Scalars, NEW longForm \in BOOLEAN,
               SignWithPasskey(f, rs[1], rs[2], longForm, op[h])
        PROVE  WaitOK(g)'
    BY <2>1, <2>3 DEF SignWithPasskey, Goto, waiting, WaitTypeOK
  <2>4. ASSUME NEW f \in Flows, SignOtherwise(f) PROVE WaitOK(g)'
    BY <2>1, <2>4 DEF SignOtherwise, Goto, waiting, WaitTypeOK
  <2>5. ASSUME NEW f \in Flows, StartWait(f) PROVE WaitOK(g)'
    <3>1. CASE f = g
      BY <2>0, <2>5, <3>1 DEF StartWait, Ask, Goto, WaitTypeOK, WaitOK
    <3>2. CASE f # g
      BY <2>1, <2>5, <3>2 DEF StartWait, Ask, Goto, WaitTypeOK
    <3> QED
      BY <3>1, <3>2
  <2>6. ASSUME NEW f \in Flows, Look(f) PROVE WaitOK(g)'
    <3>1. CASE f = g
      BY <2>0, <2>6, <3>1 DEF Look, Goto, WaitTypeOK, WaitOK
    <3>2. CASE f # g
      BY <2>1, <2>6, <3>2 DEF Look, Goto, WaitTypeOK
    <3> QED
      BY <3>1, <3>2
  <2>7. ASSUME NEW f \in Flows, Receive(f) PROVE WaitOK(g)'
    <3>1. CASE f = g
      <4>1. phase[g] = "answered" /\ UNCHANGED <<minedAt, clock, deadline, receipt>>
        BY <2>7, <3>1 DEF Receive
      <4>2. CASE phase'[g] = "receipt"
        BY <4>2 DEF WaitOK
      <4>3. CASE ~receipt[g] /\ phase'[g] = "timeout" /\ NoTimeLeft(g) /\ UNCHANGED timer
        <5>1. minedAt[g] # None => minedAt[g] \in Nat /\ minedAt[g] >= clock - MaxDelay
          BY <2>0, <4>1, <4>3 DEF WaitOK, WaitTypeOK
        <5> QED
          BY <2>0, <4>1, <4>3, <5>1 DEF WaitOK, NoTimeLeft
      <4>4. CASE phase'[g] = "sleeping" /\ ~NoTimeLeft(g) /\ timer'[g] = clock + PollInterval
        BY <2>0, <4>1, <4>4 DEF WaitOK, NoTimeLeft
      <4> QED
        BY <2>7, <3>1, <4>2, <4>3, <4>4 DEF Receive, Goto, WaitTypeOK
    <3>2. CASE f # g
      BY <2>1, <2>7, <3>2 DEF Receive, Goto, WaitTypeOK
    <3> QED
      BY <3>1, <3>2
  <2>8. ASSUME NEW f \in Flows, PollFails(f) PROVE WaitOK(g)'
    BY <2>1, <2>8 DEF PollFails, Goto, waiting, WaitTypeOK
  <2>9. ASSUME NEW f \in Flows, Wake(f) PROVE WaitOK(g)'
    <3>1. CASE f = g
      BY <2>0, <2>9, <3>1 DEF Wake, Ask, Goto, WaitTypeOK, WaitOK
    <3>2. CASE f # g
      BY <2>1, <2>9, <3>2 DEF Wake, Ask, Goto, WaitTypeOK
    <3> QED
      BY <3>1, <3>2
  <2>10. ASSUME NEW f \in Flows, NEW arrives \in BOOLEAN, NEW outcome \in {"sent", "signed", "failed"},
                Send(f, arrives, outcome)
         PROVE  WaitOK(g)'
    BY <2>1, <2>10 DEF Send, Goto, waiting, WaitTypeOK
  <2>11. ASSUME NEW p \in pool, Mine(p) PROVE WaitOK(g)'
    <3>1. /\ phase' = phase /\ clock' = clock /\ timer' = timer /\ deadline' = deadline /\ receipt' = receipt
          /\ minedAt'[g] \in {minedAt[g], clock}
      BY <2>11 DEF Mine, waiting, WaitTypeOK
    <3> QED
      BY <2>0, <3>1 DEF WaitOK
  <2>12. CASE Tick
    BY <2>0, <2>12 DEF Tick, waiting, WaitOK
  <2>13. CASE UNCHANGED vars
    BY <2>1, <2>13 DEF vars, waiting
  <2> QED
    BY <2>2, <2>3, <2>4, <2>5, <2>6, <2>7, <2>8, <2>9, <2>10, <2>11, <2>12, <2>13 DEF Next
<1> QED
  BY <1>1, <1>2, WaitTypeCorrect, PTL DEF Spec, WaitInv

\* For every interval, timeout and delay, and any number of operations side by side: a wait does not
\* miss what was executed in time, and ends in time.
THEOREM WaitsKeepTheirBudget == Spec => []WaitKeepsItsBudget
<1>1. WaitInv => WaitKeepsItsBudget
  BY TimeAssumption DEF WaitInv, WaitTypeOK, WaitOK, WaitKeepsItsBudget, TimeAssumption
<1> QED
  BY <1>1, WaitInvHolds, PTL
-----------------------------------------------------------------------------
\* packUint128Pair and the splitting of toRpcUserOperation, for every width of a half: the two
\* numbers packed are the two that come out, none in the other's place.
THEOREM HalvesComeApart ==
    ASSUME NEW hi, NEW lo, PackUint128Pair(hi, lo) # Error
    PROVE  SplitUint128Pair(PackUint128Pair(hi, lo)) = [hi |-> hi, lo |-> lo]
<1>1. /\ hi \in 0 .. Half - 1 /\ lo \in 0 .. Half - 1
      /\ PackUint128Pair(hi, lo) = hi * Half + lo
  BY DEF PackUint128Pair
<1>2. hi \in Nat /\ Half \in Nat \ {0}
  BY <1>1, WidthAssumption DEF WidthAssumption
<1>3. (hi * Half + lo) \div Half = hi /\ (hi * Half + lo) % Half = lo
  BY ONLY <1>1, <1>2, Fields, Zenon
<1> QED
  BY <1>1, <1>3, Zenon DEF SplitUint128Pair

\* normalizeP256S, for every odd order: the result is in the lower half, verifies for the same
\* message, and is left alone by another pass.
THEOREM LowSIsCanonical ==
    ASSUME NEW s \in 1 .. Order - 1
    PROVE  /\ NormalizeP256S(s) \in 1 .. Order \div 2
           /\ NormalizeP256S(s) \in {s, Order - s}
           /\ NormalizeP256S(s) = NormalizeP256S(Order - s)
           /\ NormalizeP256S(NormalizeP256S(s)) = NormalizeP256S(s)
<1>1. Order \in Nat /\ Order > 2 /\ Order % 2 = 1
  BY WidthAssumption DEF WidthAssumption
<1>2. Order = 2 * (Order \div 2) + 1 /\ Order \div 2 \in Nat
  BY <1>1, SMT
<1> QED
  BY <1>1, <1>2, SMT DEF NormalizeP256S
-----------------------------------------------------------------------------
\* What the wire form of a factory or a paymaster is packed to again is what it was made from.
LEMMA FactoryComesBack ==
    ASSUME NEW w \in Wants
    PROVE  /\ Factory(InitCode(w)).factory = w.factory
           /\ w.factory # None =>
                PackInitCode(w.factory, Factory(InitCode(w)).factoryData) = InitCode(w)
           /\ w.factory = None => InitCode(w) = <<>>
<1>0. AddressBytes \in Nat \ {0} /\ AddressSpace = Power[AddressBytes]
  BY WidthAssumption DEF WidthAssumption
<1>1. CASE w.factory = None
  BY <1>0, <1>1 DEF InitCode, Factory
<1>2. CASE w.factory # None
  <2> DEFINE address == ToBytes(w.factory, AddressBytes)
             data    == <<7, 9>>
  <2>1. w.factory \in 0 .. Power[AddressBytes] - 1 /\ w.factory \in Nat
    <3>1. w.factory \in 0 .. AddressSpace - 1
      BY <1>2, WantsAssumption DEF WantsAssumption
    <3> QED
      BY <1>0, <3>1
  <2>2. ToNumber(address) = w.factory
    BY <1>0, <2>1, BytesRoundTrip
  <2>3. address \in Seq(Nat) /\ Len(address) = AddressBytes /\ data \in Seq(Nat)
    BY <1>0, <2>1, BytesAreDigits
  <2>4. InitCode(w) = address \o data
    BY <1>2 DEF InitCode, PackInitCode
  <2> HIDE DEF address, data
  <2>5. /\ SubSeq(address \o data, 1, AddressBytes) = address
        /\ SubSeq(address \o data, AddressBytes + 1, Len(address \o data)) = data
        /\ Len(address \o data) >= AddressBytes
    <3> DEFINE s == address \o data
    <3>1. s \in Seq(Nat) /\ Len(s) = Len(address) + Len(data) /\ At(s, 0, address) /\ At(s, Len(address), data)
      BY <2>3, TwoParts, Zenon
    <3>0. Len(data) \in Nat
      BY <2>3
    <3> HIDE DEF s
    <3>2. SubSeq(s, 0 + 1, 0 + Len(address)) = address
      BY <2>3, <3>1, Slice, Zenon
    <3>3. SubSeq(s, Len(address) + 1, Len(address) + Len(data)) = data
      BY <2>3, <3>1, Slice, Zenon
    <3> QED
      BY <1>0, <2>3, <3>0, <3>1, <3>2, <3>3 DEF s
  <2>6. Factory(address \o data) = [factory |-> w.factory, factoryData |-> data]
    <3> DEFINE s == address \o data
    <3>1. /\ SubSeq(s, 1, AddressBytes) = address /\ SubSeq(s, AddressBytes + 1, Len(s)) = data
          /\ ~(Len(s) < AddressBytes)
      BY <1>0, <2>3, <2>5
    <3> HIDE DEF s
    <3>2. Factory(s) = [factory |-> ToNumber(address), factoryData |-> data]
      BY ONLY <3>1 DEF Factory
    <3> QED
      BY <2>2, <3>2 DEF s
  <2> QED
    BY <1>2, <2>4, <2>6 DEF PackInitCode, address
<1> QED
  BY <1>1, <1>2

LEMMA PaymasterFieldsComeBack ==
    ASSUME NEW p \in 0 .. AddressSpace - 1, NEW v \in 0 .. Half - 1, NEW q \in 0 .. Half - 1, NEW c \in Nat
    PROVE  Paymaster(PackPaymasterAndData(p, v, q, c)) \in
               {Error, [paymaster |-> p, verificationGas |-> v, postOpGas |-> q, paymasterData |-> <<c>>]}
<1>0. /\ AddressBytes \in Nat \ {0} /\ AddressSpace = Power[AddressBytes]
      /\ HalfBytes \in Nat \ {0} /\ Half = Power[HalfBytes]
      /\ p \in Nat /\ v \in Nat /\ q \in Nat
  BY WidthAssumption DEF WidthAssumption
<1> DEFINE P == ToBytes(p, AddressBytes)
           V == ToBytes(v, HalfBytes)
           Q == ToBytes(q, HalfBytes)
           C == <<c>>
           s == P \o V \o Q \o C
<1>1. ToNumber(P) = p /\ ToNumber(V) = v /\ ToNumber(Q) = q
  BY <1>0, BytesRoundTrip
<1>2. /\ P \in Seq(Nat) /\ Len(P) = AddressBytes /\ V \in Seq(Nat) /\ Len(V) = HalfBytes
      /\ Q \in Seq(Nat) /\ Len(Q) = HalfBytes /\ C \in Seq(Nat) /\ Len(C) = 1
  <2>1. \A n \in Nat, k \in Nat : ToBytes(n, k) \in Seq(Nat) /\ Len(ToBytes(n, k)) = k
    BY BytesAreDigits
  <2>2. <<c>> \in Seq(Nat) /\ Len(<<c>>) = 1
    OBVIOUS
  <2>3. AddressBytes \in Nat /\ HalfBytes \in Nat
    BY <1>0
  <2> QED
    BY ONLY <1>0, <2>1, <2>2, <2>3, Zenon
<1>3. PackPaymasterAndData(p, v, q, c) = s
  BY DEF PackPaymasterAndData
<1> HIDE DEF P, V, Q, C
<1>4. /\ s \in Seq(Nat) /\ Len(s) = Len(P) + Len(V) + Len(Q) + Len(C)
      /\ At(s, 0, P) /\ At(s, Len(P), V) /\ At(s, Len(P) + Len(V), Q) /\ At(s, Len(P) + Len(V) + Len(Q), C)
  <2>1. IsFourParts(s, P, V, Q, C)
    BY ONLY <1>2, FourParts, Zenon
  <2> HIDE DEF s
  <2> QED
    BY ONLY <2>1, Zenon DEF IsFourParts
<1> HIDE DEF s
<1>5. /\ SubSeq(s, 0 + 1, 0 + Len(P)) = P
      /\ SubSeq(s, Len(P) + 1, Len(P) + Len(V)) = V
      /\ SubSeq(s, Len(P) + Len(V) + 1, Len(P) + Len(V) + Len(Q)) = Q
      /\ SubSeq(s, Len(P) + Len(V) + Len(Q) + 1, Len(P) + Len(V) + Len(Q) + Len(C)) = C
  BY <1>2, <1>4, Slice, Zenon
<1>6. /\ SubSeq(s, 1, AddressBytes) = P
      /\ SubSeq(s, AddressBytes + 1, AddressBytes + HalfBytes) = V
      /\ SubSeq(s, AddressBytes + HalfBytes + 1, AddressBytes + 2 * HalfBytes) = Q
      /\ SubSeq(s, AddressBytes + 2 * HalfBytes + 1, Len(s)) = C
  <2>1. /\ 0 + 1 = 1 /\ 0 + Len(P) = AddressBytes
        /\ Len(P) + Len(V) + Len(Q) = AddressBytes + 2 * HalfBytes
    BY <1>0, <1>2
  <2> QED
    BY ONLY <1>2, <1>4, <1>5, <2>1
<1>7. s # <<>> /\ ~(Len(s) < AddressBytes + 2 * HalfBytes)
  BY <1>0, <1>2, <1>4
<1> QED
  BY <1>1, <1>3, <1>6, <1>7 DEF Paymaster, C

LEMMA PaymasterComesBack ==
    ASSUME NEW w \in Wants, PaymasterAndData(w) # Error, Paymaster(PaymasterAndData(w)) # Error
    PROVE  LET back == Paymaster(PaymasterAndData(w))
           IN  /\ back.paymaster = w.paymaster
               /\ w.paymaster = None => PaymasterAndData(w) = <<>>
               /\ w.paymaster # None =>
                    /\ back.paymasterData = <<1>>
                    /\ ToBytes(back.paymaster, AddressBytes) \o ToBytes(back.verificationGas, HalfBytes)
                          \o ToBytes(back.postOpGas, HalfBytes) \o back.paymasterData = PaymasterAndData(w)
<1>1. CASE w.paymaster = None
  BY <1>1 DEF PaymasterAndData, Paymaster
<1>2. CASE w.paymaster # None
  <2> DEFINE p == w.paymaster
             v == w.paymasterGas
             q == w.paymasterGas + 1
  <2>1. PaymasterAndData(w) = PackPaymasterAndData(p, v, q, 1)
    BY <1>2 DEF PaymasterAndData
  <2>2. v \in 0 .. Half - 1 /\ q \in 0 .. Half - 1 /\ p \in 0 .. AddressSpace - 1
    BY <1>2, <2>1, WantsAssumption DEF PackPaymasterAndData, WantsAssumption
  <2> HIDE DEF p, v, q
  <2>3. 1 \in Nat
    OBVIOUS
  <2>4. Paymaster(PackPaymasterAndData(p, v, q, 1)) \in
            {Error, [paymaster |-> p, verificationGas |-> v, postOpGas |-> q, paymasterData |-> <<1>>]}
    BY ONLY <2>2, <2>3, PaymasterFieldsComeBack, Zenon
  <2>5. Paymaster(PaymasterAndData(w)) =
            [paymaster |-> p, verificationGas |-> v, postOpGas |-> q, paymasterData |-> <<1>>]
    BY <2>1, <2>4
  <2>6. PaymasterAndData(w) = ToBytes(p, AddressBytes) \o ToBytes(v, HalfBytes) \o ToBytes(q, HalfBytes) \o <<1>>
    BY <2>1, <2>2 DEF PackPaymasterAndData
  <2> QED
    BY <1>2, <2>5, <2>6 DEF p
<1> QED
  BY <1>1, <1>2

\* What the bundler gets of an operation that was built says all there was in it, each in its place.
WireOK(wire, packed, w) ==
    /\ Repacked(wire) = packed
    /\ wire.gas = [hi |-> w.verificationGas, lo |-> w.callGas]
    /\ wire.fees = [hi |-> 1, lo |-> w.maxFee]
    /\ w.paymaster # None => wire.paymaster.paymaster = w.paymaster /\ wire.paymaster.paymasterData = <<1>>

LEMMA WireComesBack ==
    ASSUME NEW w \in Wants, NEW n, Packed(w, n) # Error, ToRpcUserOperation(Packed(w, n)) # Error
    PROVE  WireOK(ToRpcUserOperation(Packed(w, n)), Packed(w, n), w)
<1> DEFINE gas  == PackUint128Pair(w.verificationGas, w.callGas)
           fees == PackUint128Pair(1, w.maxFee)
           init == InitCode(w)
           pmd  == PaymasterAndData(w)
           packed == Packed(w, n)
           wire   == ToRpcUserOperation(packed)
<1>1. /\ packed = [nonce |-> Nonce(w, n), initCode |-> init, callData |-> w.validator,
                   accountGasLimits |-> gas, preVerificationGas |-> 5, gasFees |-> fees,
                   paymasterAndData |-> pmd]
      /\ gas # Error /\ fees # Error /\ pmd # Error
  BY DEF Packed, BuildPackedUserOp
<1>2. SplitUint128Pair(gas) = [hi |-> w.verificationGas, lo |-> w.callGas]
  BY <1>1, HalvesComeApart
<1>3. SplitUint128Pair(fees) = [hi |-> 1, lo |-> w.maxFee]
  BY <1>1, HalvesComeApart
<1> HIDE DEF packed
<1>4. /\ wire = [nonce |-> packed.nonce, callData |-> packed.callData,
                 gas |-> SplitUint128Pair(packed.accountGasLimits), fees |-> SplitUint128Pair(packed.gasFees),
                 preVerificationGas |-> packed.preVerificationGas,
                 factory |-> Factory(packed.initCode), paymaster |-> Paymaster(packed.paymasterAndData)]
      /\ Paymaster(packed.paymasterAndData) # Error
  BY DEF ToRpcUserOperation, packed
<1>5. /\ Factory(init).factory = w.factory
      /\ w.factory # None => PackInitCode(w.factory, Factory(init).factoryData) = init
      /\ w.factory = None => init = <<>>
  BY FactoryComesBack
<1>6. LET back == Paymaster(pmd)
      IN  /\ back.paymaster = w.paymaster
          /\ w.paymaster = None => pmd = <<>>
          /\ w.paymaster # None =>
               /\ back.paymasterData = <<1>>
               /\ ToBytes(back.paymaster, AddressBytes) \o ToBytes(back.verificationGas, HalfBytes)
                     \o ToBytes(back.postOpGas, HalfBytes) \o back.paymasterData = pmd
  BY <1>1, <1>4, PaymasterComesBack
<1> HIDE DEF gas, fees, init, pmd, wire
<1>7. /\ wire.nonce = Nonce(w, n) /\ wire.callData = w.validator /\ wire.preVerificationGas = 5
      /\ wire.gas = [hi |-> w.verificationGas, lo |-> w.callGas]
      /\ wire.fees = [hi |-> 1, lo |-> w.maxFee]
      /\ wire.factory = Factory(init) /\ wire.paymaster = Paymaster(pmd)
  BY <1>1, <1>2, <1>3, <1>4
<1>8. /\ PackUint128Pair(wire.gas.hi, wire.gas.lo) = gas
      /\ PackUint128Pair(wire.fees.hi, wire.fees.lo) = fees
  BY <1>7 DEF gas, fees
<1>9. Repacked(wire) =
          [nonce |-> Nonce(w, n), callData |-> w.validator, preVerificationGas |-> 5, initCode |-> init,
           accountGasLimits |-> gas, gasFees |-> fees, paymasterAndData |-> pmd]
  BY <1>5, <1>6, <1>7, <1>8 DEF Repacked
<1>10. Repacked(wire) = packed
  BY <1>1, <1>9
<1>11. w.paymaster # None => wire.paymaster.paymaster = w.paymaster /\ wire.paymaster.paymasterData = <<1>>
  BY <1>6, <1>7
<1> QED
  BY <1>7, <1>10, <1>11 DEF WireOK, wire, packed

\* o is the operation that was wanted, as it was built.
IsBuilt(o, wanted) ==
    wanted.w \in Wants /\ Packed(wanted.w, wanted.sequence) # Error /\ o = Packed(wanted.w, wanted.sequence)

\* What has been sent is what was signed, and both are what was built.
IsSent(p, o, wanted, sig) ==
    IsBuilt(o, wanted) /\ sig.challenge = o /\ p.wire = ToRpcUserOperation(o) /\ p.wire # Error

WireInv ==
    /\ phase = [f \in Flows |-> phase[f]]
    /\ want = [f \in Flows |-> want[f]]
    /\ op = [f \in Flows |-> op[f]]
    /\ signature = [f \in Flows |-> signature[f]]
    /\ \A f \in Flows : phase[f] \notin {"idle", "failed"} => IsBuilt(op[f], want[f])
    /\ \A f \in Flows : phase[f] \notin {"idle", "built", "failed"} => signature[f].challenge = op[f]
    /\ \A p \in pool :
         /\ p.of \in Flows /\ phase[p.of] \notin {"idle", "built"}
         /\ IsSent(p, op[p.of], want[p.of], signature[p.of])

LEMMA WireInvHolds == Spec => []WireInv
<1>1. Init => WireInv
  BY DEF Init, WireInv
<1>2. WireInv /\ [Next]_vars => WireInv'
  <2> SUFFICES ASSUME WireInv, [Next]_vars PROVE WireInv'
    OBVIOUS
  <2> USE DEF WireInv
  \* A flow that has signed goes on, and nothing it has changes.
  <2>0. ASSUME UNCHANGED <<want, op, signature, pool>>,
               \/ UNCHANGED phase
               \/ \E f \in Flows, q \in Phases \ {"idle", "built"} :
                    phase[f] \notin {"idle", "built", "failed"} /\ phase' = [phase EXCEPT ![f] = q]
        PROVE  WireInv'
    BY <2>0
  <2>1. ASSUME NEW f \in Flows, NEW w \in Wants, NEW ahead \in 0 .. 1, Build(f, w, ahead) PROVE WireInv'
    <3> DEFINE wanted == [w |-> w, sequence |-> sequence[Route(w)] + ahead]
               built  == Packed(w, sequence[Route(w)] + ahead)
    <3>1. phase[f] = "idle" /\ want' = [want EXCEPT ![f] = wanted] /\ UNCHANGED <<signature, pool>>
      BY <2>1 DEF Build
    <3>2. CASE built = Error
      <4>1. phase' = [phase EXCEPT ![f] = "failed"] /\ op' = op
        BY <2>1, <3>2 DEF Build, Goto
      <4> HIDE DEF wanted, built
      <4> QED
        BY <3>1, <4>1
    <3>3. CASE built # Error
      <4>1. phase' = [phase EXCEPT ![f] = "built"] /\ op' = [op EXCEPT ![f] = built]
        BY <2>1, <3>3 DEF Build, Goto
      <4>2. IsBuilt(built, wanted)
        BY <3>3 DEF IsBuilt
      <4> HIDE DEF wanted, built
      <4> QED
        BY <3>1, <4>1, <4>2
    <3> QED
      BY <3>2, <3>3
  <2>2. ASSUME NEW f \in Flows, phase[f] = "built", UNCHANGED <<want, op, pool>>,
               \/ phase' = [phase EXCEPT ![f] = "failed"] /\ UNCHANGED signature
               \/ phase' = [phase EXCEPT ![f] = "signed"]
                  /\ \E sig : sig.challenge = op[f] /\ signature' = [signature EXCEPT ![f] = sig]
        PROVE  WireInv'
    BY <2>2
  <2>3. ASSUME NEW f \in Flows, NEW g \in Flows, NEW rs \in Scalars, NEW longForm \in BOOLEAN,
               SignWithPasskey(f, rs[1], rs[2], longForm, op[g])
        PROVE  WireInv'
    <3>1. \/ phase' = [phase EXCEPT ![f] = "failed"] /\ UNCHANGED signature
          \/ phase' = [phase EXCEPT ![f] = "signed"]
             /\ \E sig : sig.challenge = op[f] /\ signature' = [signature EXCEPT ![f] = sig]
      BY <2>3 DEF SignWithPasskey, Goto
    <3>2. phase[f] = "built" /\ UNCHANGED <<want, op, pool>>
      BY <2>3 DEF SignWithPasskey
    <3> QED
      BY ONLY <2>2, <3>1, <3>2
  <2>4. ASSUME NEW f \in Flows, SignOtherwise(f) PROVE WireInv'
    <3>1. phase' = [phase EXCEPT ![f] = "signed"]
          /\ \E sig : sig.challenge = op[f] /\ signature' = [signature EXCEPT ![f] = sig]
      BY <2>4 DEF SignOtherwise, Goto
    <3>2. phase[f] = "built" /\ UNCHANGED <<want, op, pool>>
      BY <2>4 DEF SignOtherwise
    <3> QED
      BY ONLY <2>2, <3>1, <3>2
  <2>5. ASSUME NEW f \in Flows, StartWait(f) PROVE WireInv'
    BY <2>5, <2>0 DEF StartWait, Ask, Goto, building, Phases
  <2>6. ASSUME NEW f \in Flows, Look(f) PROVE WireInv'
    BY <2>6, <2>0 DEF Look, Goto, building, Phases
  <2>7. ASSUME NEW f \in Flows, Receive(f) PROVE WireInv'
    BY <2>7, <2>0 DEF Receive, Goto, building, Phases
  <2>8. ASSUME NEW f \in Flows, PollFails(f) PROVE WireInv'
    BY <2>8, <2>0 DEF PollFails, Goto, building, Phases
  <2>9. ASSUME NEW f \in Flows, Wake(f) PROVE WireInv'
    BY <2>9, <2>0 DEF Wake, Ask, Goto, building, Phases
  <2>10. ASSUME NEW f \in Flows, NEW arrives \in BOOLEAN, NEW outcome \in {"sent", "signed", "failed"},
                Send(f, arrives, outcome)
         PROVE  WireInv'
    <3> DEFINE wire == ToRpcUserOperation(op[f])
               p    == [wire |-> wire, of |-> f]
    <3>1. /\ phase[f] = "signed" /\ UNCHANGED <<want, op, signature>>
          /\ \E q \in Phases \ {"idle", "built"} : phase' = [phase EXCEPT ![f] = q]
          /\ pool' = pool \/ (wire # Error /\ pool' = pool \cup {p})
      BY <2>10 DEF Send, Goto, building, Phases
    <3>2. IsBuilt(op[f], want[f]) /\ signature[f].challenge = op[f]
      BY <3>1
    <3>3. CASE pool' = pool
      BY <3>1, <3>3, <2>0
    <3>4. CASE wire # Error /\ pool' = pool \cup {p}
      <4>1. p.of = f /\ IsSent(p, op[f], want[f], signature[f])
        BY <3>2, <3>4 DEF IsSent
      <4> HIDE DEF p, wire
      <4> QED
        BY <3>1, <3>4, <4>1
    <3> QED
      BY <3>1, <3>3, <3>4
  <2>11. ASSUME NEW p \in pool, Mine(p) PROVE WireInv'
    BY <2>11, <2>0 DEF Mine, building
  <2>12. CASE Tick
    BY <2>12, <2>0 DEF Tick, building
  <2>13. CASE UNCHANGED vars
    BY <2>13, <2>0 DEF vars, building
  <2> QED
    BY <2>1, <2>3, <2>4, <2>5, <2>6, <2>7, <2>8, <2>9, <2>10, <2>11, <2>12, <2>13 DEF Next
<1> QED
  BY <1>1, <1>2, PTL DEF Spec

\* For every width of addresses and halves: what the bundler receives is, packed again, what was
\* signed, and asks for the gas, the fees and the sponsor the application wanted.
THEOREM WireFormsAreFaithful == Spec => []WireIsWhatWasSigned
<1>1. WireInv => WireIsWhatWasSigned
  <2> SUFFICES ASSUME WireInv, NEW p \in pool
               PROVE  WireOK(p.wire, signature[p.of].challenge, want[p.of].w)
    BY DEF WireIsWhatWasSigned, WireOK
  <2>1. IsSent(p, op[p.of], want[p.of], signature[p.of])
    BY DEF WireInv
  <2> QED
    BY <2>1, WireComesBack DEF IsSent, IsBuilt
<1> QED
  BY <1>1, WireInvHolds, PTL
-----------------------------------------------------------------------------
\* An INTEGER of a DER signature: its length fits, and its digits write the number.
LEMMA DerIntegerFits ==
    ASSUME NEW n \in 1 .. Order - 1
    PROVE  \E k \in 1 .. 33 : n \in 0 .. Power[k] - 1 /\ DerInteger(n) = <<2, k>> \o ToBytes(n, k)
<1> DEFINE Fits(k) == 2 * n < Power[k] /\ (k > 1 => 2 * n >= Power[k - 1])
<1>0. \A k \in Nat : Power[k] \in Nat
  BY PowerIs
<1>1. Order \in Nat
  BY WidthAssumption DEF WidthAssumption
<1>2. \E k \in 1 .. 33 : Fits(k)
  <2> SUFFICES ASSUME \A k \in 1 .. 33 : ~Fits(k) PROVE FALSE
    OBVIOUS
  <2> DEFINE T == {k \in Nat : k \in 1 .. 33 => ~(2 * n < Power[k])}
  <2>1. 0 \in T
    OBVIOUS
  <2>2. ASSUME NEW k \in Nat, k \in T PROVE k + 1 \in T
    <3> SUFFICES ASSUME k + 1 \in 1 .. 33 PROVE ~(2 * n < Power[k + 1])
      OBVIOUS
    <3>1. ~Fits(k + 1) /\ (k + 1) - 1 = k
      OBVIOUS
    <3>2. CASE k = 0
      BY <3>1, <3>2
    <3>3. CASE k # 0
      <4>1. k \in 1 .. 33 /\ Power[k] \in Nat
        BY <1>0, <3>3
      <4>2. 2 * n >= Power[k]
        BY <2>2, <4>1
      <4> QED
        BY <3>1, <4>2
    <3> QED
      BY <3>2, <3>3
  <2> HIDE DEF T
  <2>3. Nat \subseteq T
    BY <2>1, <2>2, NatSetInduction
  <2>4. PICK k \in 1 .. 33 : 2 * Order <= Power[k]
    BY ScalarsAssumption DEF ScalarsAssumption
  <2>5. ~(2 * n < Power[k]) /\ Power[k] \in Nat
    BY <1>0, <2>3 DEF T
  <2> QED
    BY <1>1, <2>4, <2>5
<1> DEFINE length == CHOOSE k \in 1 .. 33 : Fits(k)
<1>3. length \in 1 .. 33 /\ Fits(length)
  <2> HIDE DEF Fits
  <2> QED
    BY <1>2
<1>4. DerInteger(n) = <<2, length>> \o ToBytes(n, length)
  BY DEF DerInteger
<1>5. n \in 0 .. Power[length] - 1
  <2> HIDE DEF length
  <2>1. Power[length] \in Nat /\ 2 * n < Power[length]
    BY <1>0, <1>3
  <2> QED
    BY <2>1
<1> HIDE DEF length
<1> QED
  BY <1>3, <1>4, <1>5

LEMMA ReadIntReads ==
    ASSUME NEW der \in Seq(Nat), NEW m \in Nat, NEW k \in 1 .. 33, NEW n \in 0 .. Power[k] - 1,
           At(der, m, <<2, k>> \o ToBytes(n, k))
    PROVE  ReadInt(der, m + 1) \in {Error, [value |-> n, next |-> m + 3 + k]}
<1> DEFINE head == <<2, k>>
           B    == ToBytes(n, k)
           part == head \o B
<1>0. n \in Nat /\ k \in Nat
  OBVIOUS
<1>1. head \in Seq(Nat) /\ Len(head) = 2 /\ head[1] = 2 /\ head[2] = k
  BY <1>0
<1>2. B \in Seq(Nat) /\ Len(B) = k /\ ToNumber(B) = n
  BY <1>0, BytesAreDigits, BytesRoundTrip
<1>3. At(der, m, part)
  OBVIOUS
<1> HIDE DEF B, head
<1>4. part \in Seq(Nat) /\ At(part, 0, head) /\ At(part, Len(head), B)
  BY <1>1, <1>2, TwoParts, Zenon
<1> HIDE DEF part
<1>5. At(der, m + 0, head) /\ At(der, m + Len(head), B)
  BY <1>1, <1>2, <1>3, <1>4, PartOfPart, Zenon
<1>6. SubSeq(der, m + Len(head) + 1, m + Len(head) + Len(B)) = B
  BY <1>2, <1>5, Slice, Zenon
<1>7. /\ der[m + 1] = 2 /\ der[(m + 1) + 1] = k
      /\ (m + 1) + 1 <= Len(der) /\ m + 2 + k <= Len(der) /\ Len(der) \in Nat
  BY <1>1, <1>2, <1>5 DEF At
<1>8. SubSeq(der, (m + 1) + 2, ((m + 1) + 2 + k) - 1) = B
  <2>1. m + Len(head) + 1 = (m + 1) + 2 /\ m + Len(head) + Len(B) = ((m + 1) + 2 + k) - 1
    BY <1>1, <1>2
  <2> QED
    BY ONLY <1>6, <2>1
<1>9. ReadInt(der, m + 1) = [value |-> ToNumber(B), next |-> (m + 1) + 2 + k]
  <2>1. ~((m + 1) + 1 > Len(der)) /\ ~((m + 1) + 2 + k > Len(der) + 1) /\ k # 0
    BY <1>0, <1>7
  <2> QED
    BY ONLY <1>7, <1>8, <2>1 DEF ReadInt
<1>10. (m + 1) + 2 + k = m + 3 + k
  BY <1>0
<1> QED
  BY <1>2, <1>9, <1>10

\* Whatever the lengths of its numbers, and in either form of its own length, a signature is parsed
\* into the numbers it was made of.
LEMMA SignatureComesBack ==
    ASSUME NEW r \in 1 .. Order - 1, NEW s \in 1 .. Order - 1, NEW longForm \in BOOLEAN,
           ParseDerEcdsaSignature(DerSignature(r, s, longForm)) # Error
    PROVE  ParseDerEcdsaSignature(DerSignature(r, s, longForm)) = [r |-> r, s |-> s]
<1>1. PICK k \in 1 .. 33 : r \in 0 .. Power[k] - 1 /\ DerInteger(r) = <<2, k>> \o ToBytes(r, k)
  BY DerIntegerFits
<1>2. PICK l \in 1 .. 33 : s \in 0 .. Power[l] - 1 /\ DerInteger(s) = <<2, l>> \o ToBytes(s, l)
  BY DerIntegerFits
<1> DEFINE R    == DerInteger(r)
           S    == DerInteger(s)
           body == R \o S
           tag  == <<48>>
           form == IF longForm THEN <<129>> ELSE <<>>
           size == <<Len(body)>>
           der  == tag \o form \o size \o body
           h    == IF longForm THEN 1 ELSE 0
<1>3. R \in Seq(Nat) /\ Len(R) = 2 + k
  <2>0. r \in Nat /\ k \in Nat
    OBVIOUS
  <2>1. ToBytes(r, k) \in Seq(Nat) /\ Len(ToBytes(r, k)) = k
    BY ONLY <2>0, BytesAreDigits
  <2> HIDE DEF R
  <2>2. R = <<2, k>> \o ToBytes(r, k)
    BY <1>1 DEF R
  <2> QED
    BY <2>1, <2>2
<1>4. S \in Seq(Nat) /\ Len(S) = 2 + l
  <2>0. s \in Nat /\ l \in Nat
    OBVIOUS
  <2>1. ToBytes(s, l) \in Seq(Nat) /\ Len(ToBytes(s, l)) = l
    BY ONLY <2>0, BytesAreDigits
  <2> HIDE DEF S
  <2>2. S = <<2, l>> \o ToBytes(s, l)
    BY <1>2 DEF S
  <2> QED
    BY <2>1, <2>2
<1>5. DerSignature(r, s, longForm) = der
  BY DEF DerSignature
<1> HIDE DEF R, S
<1>6. body \in Seq(Nat) /\ Len(body) = Len(R) + Len(S) /\ At(body, 0, R) /\ At(body, Len(R), S)
  BY <1>3, <1>4, TwoParts, Zenon
<1> HIDE DEF body
<1>7. /\ tag \in Seq(Nat) /\ Len(tag) = 1 /\ tag[1] = 48
      /\ form \in Seq(Nat) /\ Len(form) = h /\ h \in {0, 1} /\ (h = 1 <=> longForm)
      /\ (longForm => form[1] = 129)
      /\ size \in Seq(Nat) /\ Len(size) = 1 /\ size[1] = Len(body)
      /\ Len(body) = 4 + k + l
  BY <1>3, <1>4, <1>6
<1> HIDE DEF tag, form, size, h
<1>8. IsFourParts(der, tag, form, size, body)
  BY ONLY <1>6, <1>7, FourParts, Zenon
<1> HIDE DEF der
<1>9. /\ der \in Seq(Nat) /\ Len(der) = Len(tag) + Len(form) + Len(size) + Len(body)
      /\ At(der, 0, tag) /\ At(der, Len(tag), form) /\ At(der, Len(tag) + Len(form), size)
      /\ At(der, Len(tag) + Len(form) + Len(size), body)
  BY ONLY <1>8, Zenon DEF IsFourParts
<1> DEFINE m == Len(tag) + Len(form) + Len(size)
<1>10. m \in Nat /\ m = 2 + h /\ h \in Nat
  BY <1>7
<1>11. At(der, m + 0, R) /\ At(der, m + Len(R), S)
  BY <1>3, <1>4, <1>6, <1>9, PartOfPart, Zenon
<1> HIDE DEF m
<1>12. ~(Len(der) < 8) /\ der[1] = 48
  BY <1>7, <1>9 DEF At
<1>13. der[2] = (IF longForm THEN 129 ELSE 4 + k + l)
  BY <1>7, <1>9 DEF At
<1>14. (IF der[2] >= 128 THEN 3 + (der[2] % 128) ELSE 3) = m + 1
  <2>1. CASE longForm
    BY <1>7, <1>10, <1>13, <2>1
  <2>2. CASE ~longForm
    BY <1>7, <1>10, <1>13, <2>2
  <2> QED
    BY <2>1, <2>2
<1>15. ReadInt(der, m + 1) \in {Error, [value |-> r, next |-> m + 3 + k]}
  <2>1. At(der, m, <<2, k>> \o ToBytes(r, k))
    BY <1>1, <1>10, <1>11 DEF R
  <2> QED
    BY ONLY <1>1, <1>9, <1>10, <2>1, ReadIntReads
<1>16. ReadInt(der, m + 3 + k) \in {Error, [value |-> s, next |-> m + Len(R) + 3 + l]}
  <2>1. At(der, m + Len(R), <<2, l>> \o ToBytes(s, l)) /\ m + Len(R) \in Nat
    BY <1>2, <1>3, <1>10, <1>11 DEF S
  <2>2. ReadInt(der, (m + Len(R)) + 1) \in {Error, [value |-> s, next |-> m + Len(R) + 3 + l]}
    BY ONLY <1>2, <1>9, <2>1, ReadIntReads
  <2>3. (m + Len(R)) + 1 = m + 3 + k
    BY <1>3, <1>10
  <2> QED
    BY ONLY <2>2, <2>3
<1>17. ParseDerEcdsaSignature(der) # Error
  BY <1>5
<1> QED
  BY ONLY <1>5, <1>12, <1>14, <1>15, <1>16, <1>17 DEF ParseDerEcdsaSignature

\* sig was made by an authenticator for o, and verifies.
IsPasskeys(sig, o) ==
    /\ sig.challenge = o
    /\ sig.s \in 1 .. Order \div 2
    /\ sig.r = sig.made[1]
    /\ sig.made[2] \in {sig.s, Order - sig.s}

PasskeyInv ==
    /\ phase = [f \in Flows |-> phase[f]]
    /\ op = [f \in Flows |-> op[f]]
    /\ signature = [f \in Flows |-> signature[f]]
    /\ \A f \in Flows : phase[f] \in {"idle", "built"} => signature[f] = None
    /\ \A f \in Flows :
         signature[f] # None /\ "made" \in DOMAIN signature[f] => IsPasskeys(signature[f], op[f])

LEMMA PasskeyInvHolds == Spec => []PasskeyInv
<1>1. Init => PasskeyInv
  BY DEF Init, PasskeyInv
<1>2. PasskeyInv /\ [Next]_vars => PasskeyInv'
  <2> SUFFICES ASSUME PasskeyInv, [Next]_vars PROVE PasskeyInv'
    OBVIOUS
  <2> USE DEF PasskeyInv
  <2>0. ASSUME UNCHANGED <<op, signature>>,
               \/ UNCHANGED phase
               \/ \E f \in Flows, q \in Phases \ {"idle", "built"} : phase' = [phase EXCEPT ![f] = q]
        PROVE  PasskeyInv'
    BY <2>0
  <2>1. ASSUME NEW f \in Flows, NEW w \in Wants, NEW ahead \in 0 .. 1, Build(f, w, ahead) PROVE PasskeyInv'
    <3>1. /\ phase[f] = "idle" /\ UNCHANGED signature
          /\ \/ op' = op /\ phase' = [phase EXCEPT ![f] = "failed"]
             \/ \E o : op' = [op EXCEPT ![f] = o] /\ phase' = [phase EXCEPT ![f] = "built"]
      BY <2>1 DEF Build, Goto
    <3> QED
      BY <3>1
  <2>2. ASSUME NEW f \in Flows, UNCHANGED op, phase' = [phase EXCEPT ![f] = "signed"], NEW sig,
               signature' = [signature EXCEPT ![f] = sig], "made" \in DOMAIN sig => IsPasskeys(sig, op[f])
        PROVE  PasskeyInv'
    BY <2>2
  <2>3. ASSUME NEW f \in Flows, NEW g \in Flows, NEW rs \in Scalars, NEW longForm \in BOOLEAN,
               SignWithPasskey(f, rs[1], rs[2], longForm, op[g])
        PROVE  PasskeyInv'
    <3> DEFINE parsed == ParseDerEcdsaSignature(DerSignature(rs[1], rs[2], longForm))
               sig    == [challenge |-> op[g], r |-> parsed.r, s |-> NormalizeP256S(parsed.s),
                          made |-> <<rs[1], rs[2]>>]
    <3>1. CASE parsed = Error \/ op[g] # op[f] \/ NormalizeP256S(parsed.s) = Error
      <4>1. phase' = [phase EXCEPT ![f] = "failed"] /\ UNCHANGED <<op, signature>>
        BY <2>3, <3>1 DEF SignWithPasskey, Goto
      <4> QED
        BY <2>0, <4>1 DEF Phases
    <3>2. CASE ~(parsed = Error \/ op[g] # op[f] \/ NormalizeP256S(parsed.s) = Error)
      <4>1. /\ phase' = [phase EXCEPT ![f] = "signed"] /\ UNCHANGED op
            /\ signature' = [signature EXCEPT ![f] = sig]
        BY <2>3, <3>2 DEF SignWithPasskey, Goto
      <4>2. rs[1] \in 1 .. Order - 1 /\ rs[2] \in 1 .. Order - 1
        BY ScalarsAssumption DEF ScalarsAssumption
      <4>3. parsed = [r |-> rs[1], s |-> rs[2]]
        BY <3>2, <4>2, SignatureComesBack
      <4> HIDE DEF parsed
      <4>4. IsPasskeys(sig, op[f])
        <5> DEFINE low == NormalizeP256S(rs[2])
        <5>1. low \in 1 .. Order \div 2 /\ low \in {rs[2], Order - rs[2]}
          BY <4>2, LowSIsCanonical
        <5>2. /\ sig.challenge = op[f] /\ sig.r = rs[1] /\ sig.s = low
              /\ sig.made[1] = rs[1] /\ sig.made[2] = rs[2]
          BY <3>2, <4>3
        <5>3. Order \in Nat
          BY WidthAssumption DEF WidthAssumption
        <5> HIDE DEF low, sig
        <5>4. rs[2] \in {low, Order - low}
          BY <4>2, <5>1, <5>3
        <5> QED
          BY <5>1, <5>2, <5>4 DEF IsPasskeys
      <4> HIDE DEF sig
      <4> QED
        BY ONLY <2>2, <4>1, <4>4
    <3> QED
      BY <3>1, <3>2
  <2>4. ASSUME NEW f \in Flows, SignOtherwise(f) PROVE PasskeyInv'
    <3> DEFINE sig == [challenge |-> op[f]]
    <3>1. /\ phase' = [phase EXCEPT ![f] = "signed"] /\ UNCHANGED op
          /\ signature' = [signature EXCEPT ![f] = sig]
      BY <2>4 DEF SignOtherwise, Goto
    <3>2. "made" \notin DOMAIN sig
      OBVIOUS
    <3> HIDE DEF sig
    <3> QED
      BY ONLY <2>2, <3>1, <3>2
  <2>5. ASSUME NEW f \in Flows, StartWait(f) PROVE PasskeyInv'
    BY <2>5, <2>0 DEF StartWait, Ask, Goto, building, Phases
  <2>6. ASSUME NEW f \in Flows, Look(f) PROVE PasskeyInv'
    BY <2>6, <2>0 DEF Look, Goto, building, Phases
  <2>7. ASSUME NEW f \in Flows, Receive(f) PROVE PasskeyInv'
    BY <2>7, <2>0 DEF Receive, Goto, building, Phases
  <2>8. ASSUME NEW f \in Flows, PollFails(f) PROVE PasskeyInv'
    BY <2>8, <2>0 DEF PollFails, Goto, building, Phases
  <2>9. ASSUME NEW f \in Flows, Wake(f) PROVE PasskeyInv'
    BY <2>9, <2>0 DEF Wake, Ask, Goto, building, Phases
  <2>10. ASSUME NEW f \in Flows, NEW arrives \in BOOLEAN, NEW outcome \in {"sent", "signed", "failed"},
                Send(f, arrives, outcome)
         PROVE  PasskeyInv'
    BY <2>10, <2>0 DEF Send, Goto, building, Phases
  <2>11. ASSUME NEW p \in pool, Mine(p) PROVE PasskeyInv'
    BY <2>11, <2>0 DEF Mine, building
  <2>12. CASE Tick
    BY <2>12, <2>0 DEF Tick, building
  <2>13. CASE UNCHANGED vars
    BY <2>13, <2>0 DEF vars, building
  <2> QED
    BY <2>1, <2>3, <2>4, <2>5, <2>6, <2>7, <2>8, <2>9, <2>10, <2>11, <2>12, <2>13 DEF Next
<1> QED
  BY <1>1, <1>2, PTL DEF Spec

\* For every order and every pair of numbers an authenticator may return: what is sent verifies, and
\* is the signature that was made.
THEOREM PasskeySignaturesVerify == Spec => []PasskeyVerifies
<1>1. PasskeyInv => PasskeyVerifies
  BY DEF PasskeyInv, PasskeyVerifies, IsPasskeys
<1> QED
  BY <1>1, PasskeyInvHolds, PTL
-----------------------------------------------------------------------------
\* A list names as many as it is long exactly if it names nobody twice.
LEMMA DistinctCount ==
    ASSUME NEW n \in Nat, NEW f
    PROVE  Cardinality({f[i] : i \in 1 .. n}) = n <=> \A i, j \in 1 .. n : f[i] = f[j] => i = j
<1> DEFINE T == {f[i] : i \in 1 .. n}
           g == [i \in 1 .. n |-> f[i]]
<1>1. g \in Surjection(1 .. n, T)
  BY DEF Surjection
<1>2. IsFiniteSet(1 .. n) /\ Cardinality(1 .. n) = n
  BY FS_Interval
<1>3. Cardinality(T) = n <=> g \in Injection(1 .. n, T)
  BY <1>1, <1>2, FS_Surjection
<1>4. g \in Injection(1 .. n, T) <=> \A i, j \in 1 .. n : f[i] = f[j] => i = j
  <2>1. g \in [1 .. n -> T] /\ \A i \in 1 .. n : g[i] = f[i]
    OBVIOUS
  <2> HIDE DEF g, T
  <2>2. g \in Injection(1 .. n, T) <=> \A i, j \in 1 .. n : g[i] = g[j] => i = j
    BY <2>1 DEF Injection, IsInjective
  <2> QED
    BY <2>1, <2>2
<1> QED
  BY <1>3, <1>4

LEMMA MultipleOrder ==
    ASSUME NEW a \in Nat, NEW b \in Nat, NEW w \in Nat, a <= b
    PROVE  a * w \in Nat /\ a * w <= b * w
<1>1. b = a + (b - a) /\ b - a \in Nat
  OBVIOUS
<1>2. PICK d \in Nat : b = a + d
  BY <1>1
<1>3. (a + d) * w = a * w + d * w /\ d * w \in Nat /\ a * w \in Nat
  BY SMT
<1> QED
  BY <1>2, <1>3

\* Rows of w, one behind the other: a row lies within them, and a place within a row.
LEMMA RowWithin ==
    ASSUME NEW n \in Nat, NEW w \in Nat, NEW i \in 1 .. n
    PROVE  (i - 1) * w \in Nat /\ (i - 1) * w + w <= n * w
<1>1. (i - 1) * w \in Nat /\ (i - 1) * w + w = i * w
  <2>1. PICK h \in Nat : i = h + 1
    <3>1. i - 1 \in Nat /\ i = (i - 1) + 1
      OBVIOUS
    <3> QED
      BY <3>1
  <2>2. h * w \in Nat /\ h * w + w = (h + 1) * w /\ (h + 1) - 1 = h
    BY SMT
  <2> QED
    BY <2>1, <2>2
<1>2. i * w <= n * w
  BY MultipleOrder
<1> QED
  BY <1>1, <1>2

LEMMA PlaceWithin ==
    ASSUME NEW n \in Nat, NEW w \in Nat \ {0}, NEW k \in 1 .. n * w
    PROVE  ((k - 1) \div w) + 1 \in 1 .. n /\ ((k - 1) % w) + 1 \in 1 .. w
<1> DEFINE q == (k - 1) \div w
<1>0. n * w \in Nat /\ k - 1 \in Nat /\ k - 1 < n * w
  BY SMT
<1>1. q \in Nat /\ q * w <= k - 1 /\ (k - 1) % w \in 0 .. w - 1
  BY <1>0, SMT
<1> HIDE DEF q
<1>2. q < n
  <2> SUFFICES ASSUME n <= q PROVE FALSE
    BY <1>1
  <2>1. n * w <= q * w /\ q * w \in Nat
    BY <1>1, MultipleOrder
  <2> QED
    BY <1>0, <1>1, <2>1
<1> QED
  BY <1>1, <1>2 DEF q

\* Where an address lies in the list of addresses that is packed.
LEMMA ConcatHolds ==
    ASSUME NEW n \in Nat, NEW list \in [1 .. n -> Seq(Nat)], \A i \in 1 .. n : Len(list[i]) = AddressBytes
    PROVE  /\ Concat(list) \in Seq(Nat) /\ Len(Concat(list)) = n * AddressBytes
           /\ \A i \in 1 .. n : At(Concat(list), (i - 1) * AddressBytes, list[i])
<1> DEFINE A == AddressBytes
           at(k) == list[((k - 1) \div A) + 1][((k - 1) % A) + 1]
<1>0. A \in Nat \ {0} /\ Len(list) = n /\ n * A \in Nat
  <2>1. A \in Nat \ {0}
    BY WidthAssumption DEF WidthAssumption
  <2> HIDE DEF A
  <2> QED
    BY <2>1, SMT
<1>1. Concat(list) = [k \in 1 .. n * A |-> at(k)]
  BY <1>0 DEF Concat
<1> HIDE DEF A
<1>2. ASSUME NEW i \in 1 .. n, NEW j \in 1 .. A
      PROVE  (i - 1) * A + j \in 1 .. n * A /\ at((i - 1) * A + j) = list[i][j]
  <2>1. /\ ((i - 1) * A + (j - 1)) \div A = i - 1
        /\ ((i - 1) * A + (j - 1)) % A = j - 1
    <3>1. i - 1 \in Nat /\ j - 1 \in 0 .. A - 1
      BY <1>0
    <3> QED
      BY ONLY <1>0, <3>1, Fields, Zenon
  <2>2. ((i - 1) * A + j) - 1 = (i - 1) * A + (j - 1)
    BY <1>0, SMT
  <2>3. (i - 1) * A \in Nat /\ (i - 1) * A + A <= n * A
    BY <1>0, RowWithin
  <2>4. (i - 1) + 1 = i /\ (j - 1) + 1 = j
    BY <1>0
  <2>5. (i - 1) * A + j \in 1 .. n * A
    <3>1. PICK e \in Nat : e = (i - 1) * A
      BY <2>3
    <3>2. PICK all \in Nat : all = n * A
      BY <1>0
    <3>3. e + A <= all
      BY ONLY <2>3, <3>1, <3>2
    <3>4. e + j \in 1 .. all
      BY ONLY <1>0, <3>3
    <3> QED
      BY ONLY <3>1, <3>2, <3>4
  <2> QED
    BY <2>1, <2>2, <2>4, <2>5, Zenon
<1>3. ASSUME NEW k \in 1 .. n * A PROVE at(k) \in Nat
  <2> DEFINE row   == ((k - 1) \div A) + 1
             place == ((k - 1) % A) + 1
  <2>1. row \in 1 .. n /\ place \in 1 .. A
    BY <1>0, PlaceWithin
  <2> HIDE DEF row, place
  <2>2. list[row] \in Seq(Nat) /\ Len(list[row]) = A
    BY <2>1 DEF A
  <2>3. list[row][place] \in Nat
    BY ONLY <1>0, <2>1, <2>2
  <2> QED
    BY ONLY <2>3, Zenon DEF row, place
<1> HIDE DEF at
<1>4. Concat(list) \in Seq(Nat) /\ Len(Concat(list)) = n * A
  BY <1>0, <1>1, <1>3
<1>5. ASSUME NEW i \in 1 .. n PROVE At(Concat(list), (i - 1) * A, list[i])
  <2>1. (i - 1) * A \in Nat /\ (i - 1) * A + A <= n * A
    BY <1>0, RowWithin
  <2>2. \A j \in 1 .. A : Concat(list)[(i - 1) * A + j] = list[i][j]
    BY <1>1, <1>2, Zenon
  <2>3. Len(list[i]) = A
    BY DEF A
  <2> QED
    BY <1>4, <2>1, <2>2, <2>3 DEF At
<1> QED
  BY <1>4, <1>5 DEF A

LEMMA Addresses ==
    ASSUME NEW a \in 0 .. 30
    PROVE  /\ ToBytes(a, AddressBytes) \in Seq(Nat) /\ Len(ToBytes(a, AddressBytes)) = AddressBytes
           /\ ToNumber(ToBytes(a, AddressBytes)) = a
<1>1. AddressBytes \in Nat /\ a \in Nat /\ a \in 0 .. Power[AddressBytes] - 1
  BY WidthAssumption, AccountAssumption DEF WidthAssumption, AccountAssumption
<1> QED
  BY <1>1, BytesAreDigits, BytesRoundTrip

LEMMA AddressesDiffer ==
    ASSUME NEW a \in 0 .. 30, NEW b \in 0 .. 30, ToBytes(a, AddressBytes) = ToBytes(b, AddressBytes)
    PROVE  a = b
BY Addresses

LEMMA ModulesDiffer == Webauthn # Ecdsa /\ Webauthn # Recovery /\ Ecdsa # Recovery
<1>1. 1 \in 0 .. 30 /\ 2 \in 0 .. 30 /\ 3 \in 0 .. 30 /\ 1 # 2 /\ 1 # 3 /\ 2 # 3
  OBVIOUS
<1> QED
  BY ONLY <1>1, AddressesDiffer, Zenon DEF Webauthn, Ecdsa, Recovery

\* A list of n guardians: each an address.
IsGuardianList(guardians, n) ==
    /\ n \in Nat /\ Len(guardians) = n /\ DOMAIN guardians = 1 .. n
    /\ \A i \in 1 .. n : guardians[i].address \in Seq(Nat) /\ Len(guardians[i].address) = AddressBytes

Named(guardians, n) == {guardians[i].address : i \in 1 .. n}

RecoveryWith(threshold, guardians) == [threshold |-> threshold, guardians |-> guardians]

Distinct(guardians, n) == \A i, j \in 1 .. n : guardians[i].address = guardians[j].address => i = j

\* Guardians that can be installed are different ones, as many as the threshold asks for, and the ones
\* the module on chain has then, for any list of addresses and any threshold.
LEMMA GuardiansAreRead ==
    ASSUME NEW threshold, NEW n, NEW guardians, IsGuardianList(guardians, n),
           GuardianInstallData(threshold, guardians) # Error
    PROVE  /\ n \in 2 .. 7 /\ threshold \in 1 .. n /\ Distinct(guardians, n)
           /\ GuardianInstallData(threshold, guardians) \in Seq(Nat)
           /\ OnInstall(Recovery, GuardianInstallData(threshold, guardians)) =
                RecoveryWith(threshold, Named(guardians, n))
<1> USE DEF IsGuardianList
<1> DEFINE list == [i \in 1 .. n |-> guardians[i].address]
           head == <<threshold, n>>
           all  == Concat(list)
           data == head \o all
           A    == AddressBytes
<1>1. MayInstallGuardians(threshold, n) /\ IsInjective(list) /\ GuardianInstallData(threshold, guardians) = data
  BY DEF GuardianInstallData
<1>2. n \in 2 .. 7 /\ threshold \in 1 .. n /\ threshold \in Nat
  BY <1>1 DEF MayInstallGuardians
<1>3. \A i, j \in 1 .. n : guardians[i].address = guardians[j].address => i = j
  BY <1>1 DEF IsInjective
<1>4. list \in [1 .. n -> Seq(Nat)] /\ \A i \in 1 .. n : Len(list[i]) = AddressBytes
  OBVIOUS
<1>5. /\ all \in Seq(Nat) /\ Len(all) = n * A
      /\ \A i \in 1 .. n : At(all, (i - 1) * A, list[i])
  <2> HIDE DEF list
  <2> QED
    BY <1>4, ConcatHolds
<1>6. head \in Seq(Nat) /\ Len(head) = 2 /\ head[1] = threshold /\ head[2] = n
  BY <1>2
<1> HIDE DEF head, all
<1>7. data \in Seq(Nat) /\ Len(data) = Len(head) + Len(all) /\ At(data, 0, head) /\ At(data, Len(head), all)
  BY <1>5, <1>6, TwoParts, Zenon
<1> HIDE DEF data
<1>8. A \in Nat \ {0} /\ n * A \in Nat
  <2>1. A \in Nat \ {0}
    BY WidthAssumption DEF WidthAssumption
  <2> HIDE DEF A
  <2> QED
    BY <2>1, SMT
<1>9. /\ Len(data) = 2 + n * A /\ Len(data) >= 2 /\ data[1] = threshold /\ data[2] = n
  BY <1>5, <1>6, <1>7, <1>8 DEF At
<1>10. ASSUME NEW i \in 1 .. n
       PROVE  Part(data, 3 + (i - 1) * A, A) = guardians[i].address
  <2> DEFINE m == (i - 1) * A
  <2>1. m \in Nat
    BY <1>8, RowWithin
  <2>2. At(all, m, list[i]) /\ list[i] \in Seq(Nat) /\ Len(list[i]) = A /\ list[i] = guardians[i].address
    BY <1>4, <1>5
  <2> HIDE DEF m, list
  <2>3. At(data, Len(head) + m, list[i])
    BY <1>5, <1>7, <2>2, PartOfPart, Zenon
  <2>4. SubSeq(data, Len(head) + m + 1, Len(head) + m + Len(list[i])) = list[i]
    BY <1>7, <2>2, <2>3, Slice, Zenon
  <2>5. Len(head) + m + 1 = 3 + m /\ Len(head) + m + Len(list[i]) = (3 + m) + A - 1
    BY <1>6, <1>8, <2>1, <2>2
  <2> QED
    BY ONLY <2>2, <2>4, <2>5 DEF m, Part
<1> DEFINE named == {guardians[i].address : i \in 1 .. n}
<1>11. GuardiansIn(data) = named
  BY <1>9, <1>10 DEF GuardiansIn
<1>12. Cardinality(named) = n
  <2>1. named = {list[i] : i \in 1 .. n} /\ \A i, j \in 1 .. n : list[i] = list[j] => i = j
    BY <1>3
  <2> HIDE DEF list
  <2>2. Cardinality({list[i] : i \in 1 .. n}) = n
    BY ONLY n \in Nat, <2>1, DistinctCount, Zenon
  <2> QED
    BY <2>1, <2>2
<1> HIDE DEF named
<1>13. OnInstall(Recovery, data) = [threshold |-> threshold, guardians |-> named]
  <2>1. Recovery # Webauthn /\ Recovery # Ecdsa
    BY ModulesDiffer
  <2>2. Len(data) = 2 + data[2] * A /\ data[2] \in 2 .. 7 /\ data[1] \in 1 .. data[2]
    BY <1>2, <1>9
  <2> QED
    BY ONLY <1>9, <1>11, <1>12, <2>1, <2>2 DEF OnInstall
<1> QED
  BY <1>1, <1>2, <1>3, <1>7, <1>13 DEF named, Named, RecoveryWith, Distinct

\* The other two modules read their own data.
LEMMA OwnersAreRead ==
    ASSUME NEW owner \in Seq(Nat), NEW source \in Nat, Len(owner) = AddressBytes
    PROVE  /\ EcdsaInstallData(owner, source) \in Seq(Nat)
           /\ OnInstall(Ecdsa, EcdsaInstallData(owner, source)) = [owner |-> owner, source |-> source]
<1> DEFINE tail == <<source>>
           data == owner \o tail
<1>1. tail \in Seq(Nat) /\ Len(tail) = 1 /\ tail[1] = source /\ AddressBytes \in Nat
  BY WidthAssumption DEF WidthAssumption
<1>2. EcdsaInstallData(owner, source) = data
  BY DEF EcdsaInstallData
<1> HIDE DEF tail
<1>3. data \in Seq(Nat) /\ Len(data) = Len(owner) + Len(tail) /\ At(data, 0, owner) /\ At(data, Len(owner), tail)
  BY <1>1, TwoParts, Zenon
<1> HIDE DEF data
<1>4. SubSeq(data, 0 + 1, 0 + Len(owner)) = owner
  BY <1>3, Slice, Zenon
<1>5. Len(data) = AddressBytes + 1 /\ data[Len(data)] = source /\ SubSeq(data, 1, 1 + AddressBytes - 1) = owner
  <2>1. 0 + 1 = 1 /\ 0 + Len(owner) = 1 + AddressBytes - 1
    BY <1>1
  <2> QED
    BY <1>1, <1>3, <1>4, <2>1 DEF At
<1>6. OnInstall(Ecdsa, data) = [owner |-> owner, source |-> source]
  <2>1. Ecdsa # Webauthn
    BY ModulesDiffer
  <2>2. OnInstall(Ecdsa, data) = OwnerIn(data)
    BY ONLY <1>5, <2>1 DEF OnInstall
  <2>3. Part(data, 1, AddressBytes) = owner
    BY ONLY <1>5 DEF Part
  <2> QED
    BY ONLY <1>5, <2>2, <2>3 DEF OwnerIn
<1> QED
  BY <1>2, <1>3, <1>6

LEMMA PasskeysAreRead ==
    ASSUME NEW key, key = [credentialIdHash |-> key.credentialIdHash, x |-> key.x, y |-> key.y,
                           requireUserVerification |-> TRUE],
           key.credentialIdHash \in Seq(Nat), key.x \in Seq(Nat), key.y \in Seq(Nat),
           Len(key.credentialIdHash) = WordBytes, Len(key.x) = WordBytes, Len(key.y) = WordBytes
    PROVE  /\ WebauthnInstallData(key) \in Seq(Nat)
           /\ OnInstall(Webauthn, WebauthnInstallData(key)) = key
<1> DEFINE a == key.credentialIdHash
           b == key.x
           c == key.y
           d == <<1>>
           data == a \o b \o c \o d
           W == WordBytes
<1>1. /\ W \in Nat \ {0} /\ d \in Seq(Nat) /\ Len(d) = 1 /\ d[1] = 1
      /\ a \in Seq(Nat) /\ b \in Seq(Nat) /\ c \in Seq(Nat)
      /\ Len(a) = W /\ Len(b) = W /\ Len(c) = W
  BY WidthAssumption DEF WidthAssumption, WordBytes
<1>2. WebauthnInstallData(key) = data
  <2>1. key.requireUserVerification
    OBVIOUS
  <2> QED
    BY <2>1 DEF WebauthnInstallData
<1>3. key = [credentialIdHash |-> a, x |-> b, y |-> c, requireUserVerification |-> TRUE]
  OBVIOUS
<1> HIDE DEF a, b, c, d, W
<1>4. IsFourParts(data, a, b, c, d)
  BY ONLY <1>1, FourParts, Zenon
<1> HIDE DEF data
<1>5. /\ data \in Seq(Nat) /\ Len(data) = Len(a) + Len(b) + Len(c) + Len(d)
      /\ At(data, 0, a) /\ At(data, Len(a), b) /\ At(data, Len(a) + Len(b), c)
      /\ At(data, Len(a) + Len(b) + Len(c), d)
  BY ONLY <1>4, Zenon DEF IsFourParts
<1>6. /\ SubSeq(data, 0 + 1, 0 + Len(a)) = a
      /\ SubSeq(data, Len(a) + 1, Len(a) + Len(b)) = b
      /\ SubSeq(data, Len(a) + Len(b) + 1, Len(a) + Len(b) + Len(c)) = c
  BY ONLY <1>1, <1>5, Slice, Zenon
<1>7. /\ SubSeq(data, 1, 1 + W - 1) = a
      /\ SubSeq(data, 1 + W, (1 + W) + W - 1) = b
      /\ SubSeq(data, 1 + 2 * W, (1 + 2 * W) + W - 1) = c
  <2>1. /\ 0 + 1 = 1 /\ 0 + Len(a) = 1 + W - 1
        /\ Len(a) + 1 = 1 + W /\ Len(a) + Len(b) = (1 + W) + W - 1
        /\ Len(a) + Len(b) + 1 = 1 + 2 * W /\ Len(a) + Len(b) + Len(c) = (1 + 2 * W) + W - 1
    BY <1>1
  <2> QED
    BY ONLY <1>6, <2>1
<1>8. Len(data) = 3 * W + 1 /\ data[Len(data)] = 1
  BY <1>1, <1>5 DEF At
<1>9. OnInstall(Webauthn, data) = [credentialIdHash |-> a, x |-> b, y |-> c, requireUserVerification |-> TRUE]
  <2>1. (data[Len(data)] = 1) = TRUE
    BY <1>8, Zenon
  <2>2. OnInstall(Webauthn, data) = PasskeyIn(data)
    BY ONLY <1>8 DEF OnInstall, W
  <2>3. PasskeyIn(data) = [credentialIdHash |-> a, x |-> b, y |-> c, requireUserVerification |-> data[Len(data)] = 1]
    <3>1. Part(data, 1, W) = a /\ Part(data, 1 + W, W) = b /\ Part(data, 1 + 2 * W, W) = c
      BY ONLY <1>7 DEF Part
    <3> QED
      BY ONLY <3>1, Zenon DEF PasskeyIn, W
  <2> QED
    BY ONLY <2>1, <2>2, <2>3, Zenon
<1> QED
  BY <1>2, <1>3, <1>5, <1>9

\* One call, and two, one after the other.
LEMMA OneCall ==
    ASSUME NEW account, NEW self, NEW call
    PROVE  ApplyAll(account, self, <<call>>) = Called(account, self, call)
<1> DEFINE calls == <<call>>
           Value(f) == f = [n \in 0 .. Len(calls) |-> IF n = 0 THEN account ELSE Called(f[n - 1], self, calls[n])]
           g == [n \in 0 .. 1 |-> IF n = 0 THEN account ELSE Called(account, self, call)]
           after == CHOOSE f : Value(f)
<1>1. Len(calls) = 1 /\ calls[1] = call
  OBVIOUS
<1>2. Value(g)
  <2> HIDE DEF calls
  <2>1. g[0] = account
    OBVIOUS
  <2>2. ASSUME NEW n \in 0 .. 1
        PROVE  g[n] = IF n = 0 THEN account ELSE Called(g[n - 1], self, calls[n])
    <3>1. CASE n = 0
      BY <2>1, <3>1
    <3>2. CASE n = 1
      <4>1. n - 1 = 0 /\ n # 0
        BY <3>2
      <4>2. g[n] = Called(account, self, call)
        BY <3>2
      <4> HIDE DEF g
      <4> QED
        BY ONLY <1>1, <2>1, <3>2, <4>1, <4>2, Zenon
    <3> QED
      BY <3>1, <3>2
  <2>3. g = [n \in 0 .. 1 |-> g[n]]
    OBVIOUS
  <2> HIDE DEF g
  <2> QED
    BY ONLY <1>1, <2>2, <2>3, Zenon
<1>3. Value(after)
  <2> HIDE DEF Value, g
  <2> QED
    BY <1>2
<1>4. ApplyAll(account, self, calls) = after[Len(calls)]
  BY DEF ApplyAll
<1> HIDE DEF after, calls
<1>5. \A n \in 0 .. 1 : after[n] = IF n = 0 THEN account ELSE Called(after[n - 1], self, calls[n])
  BY ONLY <1>1, <1>3, Zenon
<1>6. after[0] = account /\ after[1] = Called(after[1 - 1], self, calls[1])
  <2>1. 0 \in 0 .. 1 /\ 1 \in 0 .. 1 /\ 1 # 0
    OBVIOUS
  <2> QED
    BY ONLY <1>5, <2>1, Zenon
<1>7. 1 - 1 = 0
  OBVIOUS
<1> QED
  BY ONLY <1>1, <1>4, <1>6, <1>7, Zenon DEF calls

LEMMA TwoCalls ==
    ASSUME NEW account, NEW self, NEW first, NEW second
    PROVE  ApplyAll(account, self, <<first, second>>) = Called(Called(account, self, first), self, second)
<1> DEFINE calls == <<first, second>>
           one == Called(account, self, first)
           two == Called(one, self, second)
           Value(f) == f = [n \in 0 .. Len(calls) |-> IF n = 0 THEN account ELSE Called(f[n - 1], self, calls[n])]
           g == [n \in 0 .. 2 |-> IF n = 0 THEN account ELSE IF n = 1 THEN one ELSE two]
           after == CHOOSE f : Value(f)
<1>1. Len(calls) = 2 /\ calls[1] = first /\ calls[2] = second
  OBVIOUS
<1>0. 1 - 1 = 0 /\ 2 - 1 = 1 /\ 1 # 0 /\ 2 # 0 /\ 0 .. 2 = {0, 1, 2}
  OBVIOUS
<1>2. Value(g)
  <2> HIDE DEF calls
  <2>1. g[0] = account /\ g[1] = one /\ g[2] = two
    OBVIOUS
  <2>3. g = [n \in 0 .. 2 |-> g[n]]
    OBVIOUS
  <2> HIDE DEF g
  <2>4. g[1] = Called(g[1 - 1], self, calls[1]) /\ g[2] = Called(g[2 - 1], self, calls[2])
    BY ONLY <1>0, <1>1, <2>1, Zenon DEF one, two
  <2>2. ASSUME NEW n \in 0 .. 2
        PROVE  g[n] = IF n = 0 THEN account ELSE Called(g[n - 1], self, calls[n])
    BY ONLY <1>0, <2>1, <2>2, <2>4, Zenon
  <2> QED
    BY ONLY <1>1, <2>2, <2>3, Zenon
<1>3. Value(after)
  <2> HIDE DEF Value, g
  <2> QED
    BY <1>2
<1>4. ApplyAll(account, self, calls) = after[Len(calls)]
  BY DEF ApplyAll
<1> HIDE DEF after, calls
<1>5. \A n \in 0 .. 2 : after[n] = IF n = 0 THEN account ELSE Called(after[n - 1], self, calls[n])
  BY ONLY <1>1, <1>3, Zenon
<1>6. /\ after[0] = account /\ after[1] = Called(after[1 - 1], self, calls[1])
      /\ after[2] = Called(after[2 - 1], self, calls[2])
  BY ONLY <1>0, <1>5, Zenon
<1> QED
  BY ONLY <1>0, <1>1, <1>4, <1>6, Zenon DEF calls

\* An encoder's first part and its last element.
LEMMA FrontAndLast ==
    ASSUME NEW S, NEW a \in Seq(S), NEW b \in Seq(S), NEW x \in S
    PROVE  /\ a \o b \o <<x>> \in Seq(S)
           /\ SubSeq(a \o b \o <<x>>, 1, Len(a)) = a
           /\ (a \o b \o <<x>>)[Len(a \o b \o <<x>>)] = x
<1> DEFINE s == a \o b \o <<x>>
<1>1. s \in Seq(S) /\ Len(s) = Len(a) + Len(b) + 1 /\ s[Len(s)] = x /\ Len(a) \in Nat /\ Len(b) \in Nat
  OBVIOUS
<1>2. \A i \in 1 .. Len(a) : s[i] = a[i]
  OBVIOUS
<1> HIDE DEF s
<1>3. SubSeq(s, 1, Len(a)) = [i \in 1 .. Len(a) |-> s[i]]
  BY <1>1
<1>4. a = [i \in 1 .. Len(a) |-> a[i]]
  OBVIOUS
<1>5. SubSeq(s, 1, Len(a)) = a
  BY ONLY <1>2, <1>3, <1>4
<1> QED
  BY <1>1, <1>5 DEF s

LEMMA ErrorIsNone ==
    /\ \A d \in Seq(Nat) : d # Error
    /\ \A c \in Calls : c # Error
    /\ \A e \in Executes : e # Error
    /\ \A c \in Configs : c # Error
    /\ \A s \in States : s # Error
    /\ None # Error
BY AccountAssumption, Zenon DEF AccountAssumption

\* An account with this root validator and these guardians.
AccountWith(root, recovery) == [root |-> root, recovery |-> recovery]
RootWith(validator, config) == [validator |-> validator, config |-> config]

\* A call that makes a validator the root of an account does, if the validator takes its data.
LEMMA RootIsSet ==
    ASSUME NEW root, NEW recovery, AccountWith(root, recovery) \in States,
           NEW validator \in Seq(Nat), Len(validator) = AddressBytes, NEW data \in Seq(Nat),
           NEW function \in {"initialize", "changeRootValidator"},
           OnInstall(validator, data) # Error
    PROVE  /\ WithRoot(function, ValidatorType, validator, data) \in Calls
           /\ Apply(AccountWith(root, recovery), WithRoot(function, ValidatorType, validator, data)) =
                AccountWith(RootWith(validator, OnInstall(validator, data)), recovery)
<1> DEFINE id == <<ValidatorType>> \o validator
           call == [function |-> function, id |-> id, data |-> data]
<1>1. id \in Seq(Nat) /\ id[1] = ValidatorType
  BY DEF ValidatorType
<1>2. Tail(id) = validator
  <2>1. Tail(id) = [i \in 1 .. Len(validator) |-> id[i + 1]] /\ \A i \in 1 .. Len(validator) : id[i + 1] = validator[i]
    BY DEF ValidatorType
  <2>2. validator = [i \in 1 .. Len(validator) |-> validator[i]]
    OBVIOUS
  <2> HIDE DEF id
  <2> QED
    BY ONLY <2>1, <2>2
<1>3. PackValidationId(ValidatorType, validator) = id
  <2>1. ValidatorType \in 0 .. ByteSpace - 1
    BY WidthAssumption DEF WidthAssumption, ValidatorType
  <2> QED
    BY <2>1, Zenon DEF PackValidationId
<1> HIDE DEF id
<1>4. WithRoot(function, ValidatorType, validator, data) = call
  <2>1. Error \notin {id, data}
    BY <1>1, ErrorIsNone
  <2> QED
    BY ONLY <1>3, <2>1, Zenon DEF WithRoot
<1>5. call \in Calls
  BY <1>1 DEF Calls
<1>6. Apply(AccountWith(root, recovery), call) =
        AccountWith(RootWith(validator, OnInstall(validator, data)), recovery)
  <2> DEFINE account == AccountWith(root, recovery)
             now     == RootWith(validator, OnInstall(validator, data))
  <2>1. account # Error
    BY ErrorIsNone
  <2>2. call.function # "installModule" /\ call.id = id /\ call.data = data
    OBVIOUS
  <2>3. [account EXCEPT !.root = now] = AccountWith(now, recovery)
    <3> HIDE DEF now
    <3> QED
      BY DEF AccountWith
  <2> HIDE DEF call, account
  <2>4. Apply(account, call) = [account EXCEPT !.root = now]
    BY ONLY <1>1, <1>2, <2>1, <2>2, OnInstall(validator, data) # Error, Zenon DEF Apply, now, RootWith
  <2> QED
    BY ONLY <2>3, <2>4, Zenon DEF account, call
<1> QED
  BY <1>4, <1>5, <1>6

\* A call that installs a recovery module does.
LEMMA RecoveryIsInstalled ==
    ASSUME NEW root, NEW recovery, AccountWith(root, recovery) \in States,
           NEW type \in Nat, NEW module \in Seq(Nat), NEW data \in Seq(Nat), OnInstall(module, data) # Error
    PROVE  /\ EncodeInstallModule(type, module, data) \in Calls
           /\ Apply(AccountWith(root, recovery), EncodeInstallModule(type, module, data)) =
                AccountWith(root, OnInstall(module, data))
<1> DEFINE call == [function |-> "installModule", type |-> type, module |-> module, data |-> data]
           account == AccountWith(root, recovery)
           now == OnInstall(module, data)
<1>1. EncodeInstallModule(type, module, data) = call
  BY ErrorIsNone DEF EncodeInstallModule
<1>2. call \in Calls
  BY DEF Calls
<1>3. account # Error
  BY ErrorIsNone
<1>4. call.function = "installModule" /\ call.module = module /\ call.data = data
  OBVIOUS
<1>5. [account EXCEPT !.recovery = now] = AccountWith(root, now)
  <2> HIDE DEF now
  <2> QED
    BY DEF AccountWith
<1> HIDE DEF call, account
<1>6. Apply(account, call) = [account EXCEPT !.recovery = now]
  BY ONLY <1>3, <1>4, OnInstall(module, data) # Error, Zenon DEF Apply, now
<1> QED
  BY ONLY <1>1, <1>2, <1>5, <1>6, Zenon DEF account, call

OwnersRoot == RootWith(Ecdsa, [owner |-> ToBytes(9, AddressBytes), source |-> 1])

LEMMA ModulesAreAddresses ==
    /\ Ecdsa \in Seq(Nat) /\ Len(Ecdsa) = AddressBytes
    /\ Webauthn \in Seq(Nat) /\ Len(Webauthn) = AddressBytes
    /\ Recovery \in Seq(Nat) /\ Len(Recovery) = AddressBytes
<1>1. 1 \in 0 .. 30 /\ 2 \in 0 .. 30 /\ 3 \in 0 .. 30
  OBVIOUS
<1> QED
  BY ONLY <1>1, Addresses, Zenon DEF Ecdsa, Webauthn, Recovery

LEMMA AccountIsCreated ==
    /\ Created(KernelInitializeCalldata(Ecdsa, EcdsaInstallData(ToBytes(9, AddressBytes), 1))) =
         AccountWith(OwnersRoot, None)
    /\ AccountWith(OwnersRoot, None) \in States
<1> DEFINE owner  == ToBytes(9, AddressBytes)
           data   == EcdsaInstallData(owner, 1)
           config == [owner |-> owner, source |-> 1]
<1>1. owner \in Seq(Nat) /\ Len(owner) = AddressBytes /\ 1 \in Nat
  <2>1. 9 \in 0 .. 30
    OBVIOUS
  <2> QED
    BY <2>1, Addresses
<1> HIDE DEF owner
<1>2. data \in Seq(Nat) /\ OnInstall(Ecdsa, data) = config
  BY ONLY <1>1, OwnersAreRead, Zenon
<1>3. config \in Configs
  BY <1>1 DEF Configs
<1> HIDE DEF config, data
<1>4. OnInstall(Ecdsa, data) # Error
  BY <1>2, <1>3, ErrorIsNone
<1>5. AccountWith(None, None) \in States
  BY DEF States, AccountWith
<1>6. Apply(AccountWith(None, None), WithRoot("initialize", ValidatorType, Ecdsa, data)) =
        AccountWith(RootWith(Ecdsa, config), None)
  <2>1. "initialize" \in {"initialize", "changeRootValidator"}
    OBVIOUS
  <2>2. Apply(AccountWith(None, None), WithRoot("initialize", ValidatorType, Ecdsa, data)) =
          AccountWith(RootWith(Ecdsa, OnInstall(Ecdsa, data)), None)
    BY ONLY <1>2, <1>4, <1>5, <2>1, ModulesAreAddresses, RootIsSet
  <2> QED
    BY ONLY <1>2, <2>2, Zenon
<1>7. AccountWith(RootWith(Ecdsa, config), None) \in States
  BY <1>3, ModulesAreAddresses DEF States, AccountWith, RootWith
<1>8. OwnersRoot = RootWith(Ecdsa, config)
  BY DEF OwnersRoot, config, owner
<1>9. Created(KernelInitializeCalldata(Ecdsa, data)) = AccountWith(OwnersRoot, None)
  BY ONLY <1>6, <1>8, Zenon DEF Created, KernelInitializeCalldata, AccountWith
<1> QED
  BY ONLY <1>7, <1>8, <1>9, Zenon DEF data, owner

\* The installation leaves the account with these guardians, and they were fit for it.
IsInstalled(account, guardians, n, threshold, root) ==
    LET after == AccountWith(root, RecoveryWith(threshold, Named(guardians, n)))
    IN  /\ n \in 2 .. 7 /\ threshold \in 1 .. n /\ Distinct(guardians, n) /\ after \in States
        /\ Execute(AccountWith(root, None), account, Install(account, guardians, threshold)) = after

LEMMA GuardiansAreInstalled ==
    ASSUME NEW account, account # ToBytes(30, AddressBytes),
           NEW guardians, NEW n, IsGuardianList(guardians, n), NEW threshold,
           NEW root, AccountWith(root, None) \in States,
           Install(account, guardians, threshold) # Error
    PROVE  IsInstalled(account, guardians, n, threshold, root)
<1> DEFINE data   == GuardianInstallData(threshold, guardians)
           call   == EncodeInstallModule(ModuleTypeValidator, Recovery, data)
           other  == [to |-> ToBytes(30, AddressBytes), value |-> 1, data |-> None]
           own    == [to |-> account, value |-> 0, data |-> call]
           calls  == <<other, own>>
           config == RecoveryWith(threshold, Named(guardians, n))
           before == AccountWith(root, None)
<1>1. Install(account, guardians, threshold) = EncodeExecuteBatch(calls)
  BY DEF Install
<1>2. DOMAIN calls = {1, 2} /\ calls[1] = other /\ calls[2] = own /\ calls # <<>>
  OBVIOUS
<1>3. other.to = ToBytes(30, AddressBytes) /\ own.to = account /\ own.data = call
  OBVIOUS
<1> HIDE DEF calls, own, other
<1>4. call # Error /\ EncodeExecuteBatch(calls) = [function |-> "execute", mode |-> Batch, calldata |-> calls]
  <2>1. ~\E i \in DOMAIN calls : calls[i].data = Error \/ calls[i].value \notin 0 .. Half * Half - 1
    BY ONLY <1>1, Install(account, guardians, threshold) # Error, Zenon DEF EncodeExecuteBatch
  <2>2. own.data # Error
    <3>1. 2 \in DOMAIN calls
      BY <1>2
    <3> QED
      BY ONLY <1>2, <2>1, <3>1, Zenon
  <2> HIDE DEF call
  <2> QED
    BY ONLY <1>2, <1>3, <2>1, <2>2, Zenon DEF EncodeExecuteBatch
<1>5. data # Error
  BY ONLY <1>4, Zenon DEF EncodeInstallModule
<1>6. /\ n \in 2 .. 7 /\ threshold \in 1 .. n /\ data \in Seq(Nat) /\ OnInstall(Recovery, data) = config
      /\ Distinct(guardians, n)
  BY ONLY <1>5, IsGuardianList(guardians, n), GuardiansAreRead, Zenon
<1>7. Named(guardians, n) \in SUBSET Seq(Nat)
  BY DEF IsGuardianList, Named
<1>8. config \in Configs
  <2>1. threshold \in Nat
    BY <1>6
  <2> QED
    BY <1>7, <2>1 DEF Configs, RecoveryWith
<1>9. AccountWith(root, config) \in States
  BY <1>8 DEF States, AccountWith
<1> HIDE DEF config, data
<1>10. Apply(before, call) = AccountWith(root, config)
  <2>1. OnInstall(Recovery, data) # Error
    BY <1>6, <1>8, ErrorIsNone
  <2>2. ModuleTypeValidator \in Nat
    BY DEF ModuleTypeValidator
  <2>3. Apply(AccountWith(root, None), EncodeInstallModule(ModuleTypeValidator, Recovery, data)) =
          AccountWith(root, OnInstall(Recovery, data))
    BY ONLY <1>6, <2>1, <2>2, AccountWith(root, None) \in States, ModulesAreAddresses, RecoveryIsInstalled
  <2> QED
    BY ONLY <1>6, <2>3, Zenon DEF before, call
<1> HIDE DEF call, before
<1>11. ApplyAll(before, account, calls) = Called(Called(before, account, other), account, own)
  BY TwoCalls DEF calls
<1>12. Called(before, account, other) = before /\ Called(before, account, own) = Apply(before, call)
  BY ONLY <1>3, account # ToBytes(30, AddressBytes), Zenon DEF Called
<1>13. Execute(before, account, Install(account, guardians, threshold)) = ApplyAll(before, account, calls)
  <2> DEFINE execute == [function |-> "execute", mode |-> Batch, calldata |-> calls]
  <2>1. execute.mode = Batch /\ execute.calldata = calls /\ Install(account, guardians, threshold) = execute
    BY ONLY <1>1, <1>4
  <2> HIDE DEF execute
  <2> QED
    BY ONLY <2>1, Zenon DEF Execute
<1> QED
  BY ONLY <1>6, <1>9, <1>10, <1>11, <1>12, <1>13, Zenon DEF IsInstalled, before, config

LEMMA PasskeyIs ==
    ASSUME NEW length
    PROVE  Passkey(5, length) =
               [credentialIdHash |-> ToBytes(5, WordBytes), x |-> ToBytes(6, WordBytes), y |-> ToBytes(7, length),
                requireUserVerification |-> TRUE]
<1>1. 5 + 1 = 6 /\ 5 + 2 = 7
  OBVIOUS
<1>2. (5 = 5) = TRUE
  OBVIOUS
<1> QED
  BY ONLY <1>1, <1>2, Zenon DEF Passkey

\* The passkey of a rotation, with a y of the right length or a longer one.
LEMMA RotationIsMade ==
    ASSUME NEW account \in Seq(Nat), Len(account) = AddressBytes,
           NEW root, NEW recovery, AccountWith(root, recovery) \in States
    PROVE  LET key  == Passkey(5, WordBytes)
               call == EncodeExecuteSingle([to |-> account, value |-> 0, data |->
                           EncodeChangeRootValidator(Webauthn, WebauthnInstallData(key))])
           IN  /\ call # Error
               /\ Execute(AccountWith(root, recovery), account, call) = AccountWith(RootWith(Webauthn, key), recovery)
<1> DEFINE key    == Passkey(5, WordBytes)
           data   == WebauthnInstallData(key)
           change == EncodeChangeRootValidator(Webauthn, data)
           wanted == [to |-> account, value |-> 0, data |-> change]
           zero   == ToBytes(0, WordBytes)
           S      == Nat \cup Calls
           inner  == account \o zero \o <<change>>
           call   == [function |-> "execute", mode |-> Single, calldata |-> inner]
           before == AccountWith(root, recovery)
<1>1. WordBytes \in Nat /\ Half \in Nat \ {0} /\ AddressBytes \in Nat
  BY WidthAssumption DEF WidthAssumption, WordBytes
<1>2. data \in Seq(Nat) /\ OnInstall(Webauthn, data) = key /\ key \in Configs
  <2> DEFINE a == ToBytes(5, WordBytes)
             b == ToBytes(6, WordBytes)
             c == ToBytes(7, WordBytes)
  <2>1. key = [credentialIdHash |-> a, x |-> b, y |-> c, requireUserVerification |-> TRUE]
    BY PasskeyIs
  <2>2. /\ a \in Seq(Nat) /\ b \in Seq(Nat) /\ c \in Seq(Nat)
        /\ Len(a) = WordBytes /\ Len(b) = WordBytes /\ Len(c) = WordBytes
    BY <1>1, BytesAreDigits
  <2> HIDE DEF key, a, b, c
  <2>3. key.credentialIdHash = a /\ key.x = b /\ key.y = c
    BY <2>1
  <2>4. key \in [credentialIdHash : Seq(Nat), x : Seq(Nat), y : Seq(Nat), requireUserVerification : BOOLEAN]
    BY <2>1, <2>2, Zenon
  <2>5. key = [credentialIdHash |-> key.credentialIdHash, x |-> key.x, y |-> key.y, requireUserVerification |-> TRUE]
    BY <2>1, <2>3, Zenon
  <2>6. data \in Seq(Nat) /\ OnInstall(Webauthn, data) = key
    BY <2>2, <2>3, <2>5, PasskeysAreRead
  <2> QED
    BY <2>4, <2>6, Zenon DEF Configs
<1> HIDE DEF key
<1>3. OnInstall(Webauthn, data) # Error
  BY <1>2, ErrorIsNone
<1>4. change \in Calls /\ Apply(before, change) = AccountWith(RootWith(Webauthn, key), recovery)
  <2>1. "changeRootValidator" \in {"initialize", "changeRootValidator"}
    OBVIOUS
  <2> HIDE DEF data
  <2>2. /\ WithRoot("changeRootValidator", ValidatorType, Webauthn, data) \in Calls
        /\ Apply(AccountWith(root, recovery), WithRoot("changeRootValidator", ValidatorType, Webauthn, data)) =
             AccountWith(RootWith(Webauthn, OnInstall(Webauthn, data)), recovery)
    BY ONLY <1>2, <1>3, <2>1, AccountWith(root, recovery) \in States, ModulesAreAddresses, RootIsSet
  <2> QED
    BY ONLY <1>2, <2>2, Zenon DEF EncodeChangeRootValidator
<1> HIDE DEF change, before
<1>5. account \in Seq(S) /\ zero \in Seq(S) /\ change \in S
  <2>1. zero \in Seq(Nat)
    BY <1>1, BytesAreDigits
  <2> HIDE DEF zero
  <2>2. \A s \in Seq(Nat) : s \in Seq(S)
    OBVIOUS
  <2> QED
    BY <1>4, <2>1, <2>2
<1> HIDE DEF S, zero
<1>6. inner \in Seq(S) /\ SubSeq(inner, 1, Len(account)) = account /\ inner[Len(inner)] = change
  BY ONLY <1>5, FrontAndLast
<1> HIDE DEF inner
<1>7. call.mode = Single /\ call.calldata = inner /\ call \in Executes
  BY <1>6 DEF Executes, S
<1>8. EncodeExecuteSingle(wanted) = call
  <2>1. wanted.to = account /\ wanted.value = 0 /\ wanted.data = change
    OBVIOUS
  <2>2. change # Error
    BY <1>4, ErrorIsNone
  <2>3. 0 \in 0 .. Half * Half - 1
    <3>1. Half * Half \in Nat \ {0}
      BY <1>1, SMT
    <3> QED
      BY <3>1
  <2> HIDE DEF wanted
  <2> QED
    BY ONLY <2>1, <2>2, <2>3, Zenon DEF EncodeExecuteSingle, call, inner, zero
<1> DEFINE own == [to |-> SubSeq(inner, 1, AddressBytes), data |-> inner[Len(inner)]]
<1>9. Called(before, account, own) = Apply(before, change)
  <2>1. own.to = account /\ own.data = change
    BY <1>6
  <2> HIDE DEF own
  <2> QED
    BY ONLY <2>1, Zenon DEF Called
<1>10. Execute(before, account, call) = ApplyAll(before, account, <<own>>)
  <2>1. Single # Batch
    BY DEF Single, Batch
  <2> HIDE DEF call
  <2> QED
    BY ONLY <1>7, <2>1, Zenon DEF Execute, own
<1> HIDE DEF own, call, wanted
<1>11. ApplyAll(before, account, <<own>>) = Called(before, account, own)
  BY OneCall
<1>12. call # Error
  BY <1>7, ErrorIsNone
<1>13. Execute(before, account, call) = AccountWith(RootWith(Webauthn, key), recovery)
  BY ONLY <1>4, <1>9, <1>10, <1>11, Zenon
<1> QED
  BY ONLY <1>8, <1>12, <1>13, Zenon DEF key, data, change, wanted, before

LEMMA LongKeysAreRefused ==
    ASSUME NEW account
    PROVE  EncodeExecuteSingle([to |-> account, value |-> 0, data |->
               EncodeChangeRootValidator(Webauthn, WebauthnInstallData(Passkey(5, WordBytes + 1)))]) = Error
<1> DEFINE key == Passkey(5, WordBytes + 1)
           change == EncodeChangeRootValidator(Webauthn, WebauthnInstallData(key))
           wanted == [to |-> account, value |-> 0, data |-> change]
<1>1. WordBytes \in Nat
  BY WidthAssumption DEF WidthAssumption, WordBytes
<1>2. Len(key.y) # WordBytes
  <2>1. key.y = ToBytes(7, WordBytes + 1)
    BY PasskeyIs
  <2>2. Len(ToBytes(7, WordBytes + 1)) = WordBytes + 1
    BY <1>1, BytesAreDigits
  <2> HIDE DEF key
  <2> QED
    BY <1>1, <2>1, <2>2
<1> HIDE DEF key
<1>3. WebauthnInstallData(key) = Error
  BY ONLY <1>2, Zenon DEF WebauthnInstallData
<1>4. change = Error
  BY ONLY <1>3, Zenon DEF EncodeChangeRootValidator, WithRoot
<1> HIDE DEF change
<1>5. wanted.data = Error
  BY <1>4
<1> HIDE DEF wanted
<1>6. EncodeExecuteSingle(wanted) = Error
  BY ONLY <1>5, Zenon DEF EncodeExecuteSingle
<1> QED
  BY ONLY <1>6, Zenon DEF wanted, change, key

\* Every list that is tried is one of guardians, and every account is neither of the other addresses.
LEMMA ListsAreOfGuardians ==
    ASSUME NEW guardians \in GuardianLists
    PROVE  \E n \in Nat : IsGuardianList(guardians, n)
<1>1. ASSUME NEW m \in 1 .. 8
      PROVE  /\ ToBytes(10 + m, AddressBytes) \in Seq(Nat)
             /\ Len(ToBytes(10 + m, AddressBytes)) = AddressBytes
  <2>1. 10 + m \in 0 .. 30
    OBVIOUS
  <2> QED
    BY ONLY <2>1, Addresses
<1>2. ASSUME NEW m \in 1 .. 8, NEW capitals
      PROVE  Guardian(m, capitals).address = ToBytes(10 + m, AddressBytes)
  BY DEF Guardian
<1>3. PICK n, number, written :
        /\ n \in 0 .. 8
        /\ guardians = [i \in 1 .. n |-> Guardian(number[i], written[i])]
        /\ \A i \in 1 .. n : number[i] \in 1 .. 8
  <2>1. CASE guardians \in {[i \in 1 .. count |-> Guardian(i, FALSE)] : count \in 0 .. 8}
    <3>1. PICK n \in 0 .. 8 : guardians = [i \in 1 .. n |-> Guardian(i, FALSE)]
      BY <2>1
    <3> DEFINE number == [i \in 1 .. n |-> i]
               written == [i \in 1 .. n |-> FALSE]
    <3>2. guardians = [i \in 1 .. n |-> Guardian(number[i], written[i])] /\ \A i \in 1 .. n : number[i] \in 1 .. 8
      BY <3>1
    <3> HIDE DEF number, written
    <3> QED
      BY <3>2
  <2>2. CASE guardians \in {[i \in 1 .. count |-> Guardian(IF i = count THEN 1 ELSE i, i = count)] : count \in 2 .. 8}
    <3>1. PICK n \in 2 .. 8 : guardians = [i \in 1 .. n |-> Guardian(IF i = n THEN 1 ELSE i, i = n)]
      BY <2>2
    <3> DEFINE number == [i \in 1 .. n |-> IF i = n THEN 1 ELSE i]
               written == [i \in 1 .. n |-> i = n]
    <3>2. \A i \in 1 .. n : number[i] \in 1 .. 8
      OBVIOUS
    <3>3. \A i \in 1 .. n : number[i] = (IF i = n THEN 1 ELSE i) /\ written[i] = (i = n)
      BY Zenon
    <3> HIDE DEF number, written
    <3>4. guardians = [i \in 1 .. n |-> Guardian(number[i], written[i])]
      BY <3>1, <3>3, Zenon
    <3>5. n \in 0 .. 8
      OBVIOUS
    <3> QED
      BY ONLY <3>2, <3>4, <3>5, Zenon
  <2> QED
    BY <2>1, <2>2, Zenon DEF GuardianLists
<1>4. \A i \in 1 .. n : guardians[i] = Guardian(number[i], written[i])
  BY <1>3, Zenon
<1>5. ASSUME NEW i \in 1 .. n
      PROVE  guardians[i].address \in Seq(Nat) /\ Len(guardians[i].address) = AddressBytes
  BY <1>1, <1>2, <1>3, <1>4
<1>6. n \in Nat /\ Len(guardians) = n /\ DOMAIN guardians = 1 .. n
  BY <1>3
<1> QED
  BY <1>5, <1>6 DEF IsGuardianList

LEMMA AccountsAreOthers ==
    ASSUME NEW account \in Accounts
    PROVE  account \in Seq(Nat) /\ Len(account) = AddressBytes /\ account # ToBytes(30, AddressBytes)
<1>1. 20 \in 0 .. 30 /\ 21 \in 0 .. 30 /\ 30 \in 0 .. 30 /\ 20 # 30 /\ 21 # 30
  OBVIOUS
<1>2. ASSUME NEW a \in {20, 21}
      PROVE  /\ ToBytes(a, AddressBytes) \in Seq(Nat) /\ Len(ToBytes(a, AddressBytes)) = AddressBytes
             /\ ToBytes(a, AddressBytes) # ToBytes(30, AddressBytes)
  <2>1. a \in 0 .. 30 /\ a # 30
    OBVIOUS
  <2> QED
    BY ONLY <1>1, <2>1, Addresses, AddressesDiffer
<1> QED
  BY <1>2, Zenon DEF Accounts

\* The nonce of a rotation names the recovery module and the sequence it was composed for.
LEMMA RecoveryNonce ==
    ASSUME NEW seq \in 0 .. SequenceSpace, ComposeNonce(ValidatorNonceKey(ToNumber(Recovery), 0), seq) # Error
    PROVE  /\ DecodeNonce(ComposeNonce(ValidatorNonceKey(ToNumber(Recovery), 0), seq)).validator = ToNumber(Recovery)
           /\ DecodeNonce(ComposeNonce(ValidatorNonceKey(ToNumber(Recovery), 0), seq)).sequence = seq
<1>1. ToNumber(Recovery) \in 0 .. AddressSpace - 1 /\ 0 \in 0 .. NonceKeySpace - 1
  <2>1. 3 \in 0 .. 30
    OBVIOUS
  <2>2. ToNumber(Recovery) = 3
    BY ONLY <2>1, Addresses DEF Recovery
  <2> QED
    BY <2>2, WidthAssumption, AccountAssumption DEF WidthAssumption, AccountAssumption
<1>2. seq \in 0 .. SequenceSpace - 1
  BY Zenon DEF ComposeNonce
<1> DEFINE v == ToNumber(Recovery)
           nonce == ComposeNonce(ValidatorNonceKey(v, 0), seq)
<1>3. DecodeNonce(nonce) =
        [mode |-> DefaultMode, type |-> ValidatorType, validator |-> v, nonceKey |-> 0, sequence |-> seq]
  <2> HIDE DEF v
  <2> QED
    BY ONLY <1>1, <1>2, nonce # Error, ValidatorNonceDecodes DEF v
<1> HIDE DEF nonce, v
<1> QED
  BY <1>3 DEF nonce, v

\* The threshold of distinct guardians, for this account: that and nothing else goes.
LEMMA ThresholdSigns ==
    ASSUME NEW guardians, NEW n, IsGuardianList(guardians, n), Distinct(guardians, n),
           NEW threshold \in 1 .. n, NEW root, NEW self, NEW other, NEW last \in Named(guardians, n)
    PROVE  LET first == {guardians[i].address : i \in 1 .. threshold - 1}
               sigs  == [i \in 1 .. threshold |->
                           [by |-> IF i = threshold THEN last ELSE guardians[i].address,
                            over |-> GuardianRecoveryDigest("hash", other)]]
           IN  Validates(AccountWith(root, RecoveryWith(threshold, Named(guardians, n))), self, "hash",
                         PackGuardianSignatures(sigs)) <=> other = self /\ last \notin first
<1> DEFINE account == AccountWith(root, RecoveryWith(threshold, Named(guardians, n)))
           first   == {guardians[i].address : i \in 1 .. threshold - 1}
           by      == [i \in 1 .. threshold |-> IF i = threshold THEN last ELSE guardians[i].address]
           digest(a) == GuardianRecoveryDigest("hash", a)
           sigs    == [i \in 1 .. threshold |->
                         [by |-> IF i = threshold THEN last ELSE guardians[i].address, over |-> digest(other)]]
           signers == {sigs[i].by : i \in DOMAIN sigs}
<1>0. n \in Nat /\ threshold \in Nat /\ threshold \in 1 .. threshold
  BY DEF IsGuardianList
<1>1. account.recovery.threshold = threshold /\ account.recovery.guardians = Named(guardians, n)
  BY DEF AccountWith, RecoveryWith
<1> HIDE DEF account
<1>2. DOMAIN sigs = 1 .. threshold /\ Len(sigs) = threshold
  BY <1>0
<1>3. \A i \in 1 .. threshold : sigs[i].by = by[i] /\ sigs[i].over = digest(other)
  BY Zenon
<1>4. by[threshold] = last /\ \A i \in 1 .. threshold - 1 : by[i] = guardians[i].address
  BY <1>0
<1>5. \A i \in 1 .. threshold : by[i] \in Named(guardians, n)
  <2>1. ASSUME NEW i \in 1 .. threshold PROVE by[i] \in Named(guardians, n)
    <3>1. CASE i = threshold
      BY <1>4, <3>1
    <3>2. CASE i # threshold
      <4>1. i \in 1 .. threshold - 1 /\ i \in 1 .. n
        BY <1>0, <3>2
      <4> HIDE DEF by
      <4> QED
        BY <1>4, <4>1 DEF Named
    <3> QED
      BY <3>1, <3>2
  <2> QED
    BY <2>1
<1>6. sigs # <<>>
  BY <1>0, <1>2
<1> HIDE DEF sigs, by
<1>7. PackGuardianSignatures(sigs) = sigs
  BY <1>6 DEF PackGuardianSignatures
<1>8. signers = {by[i] : i \in 1 .. threshold}
  BY <1>2, <1>3
<1>9. signers \subseteq Named(guardians, n)
  BY <1>5, <1>8
<1>10. Cardinality({by[i] : i \in 1 .. threshold}) = threshold
          <=> \A i, j \in 1 .. threshold : by[i] = by[j] => i = j
  BY ONLY <1>0, DistinctCount, Zenon
<1>11. (\A i, j \in 1 .. threshold : by[i] = by[j] => i = j) <=> last \notin first
  <2>1. ASSUME \A i, j \in 1 .. threshold : by[i] = by[j] => i = j, last \in first PROVE FALSE
    <3>1. PICK i \in 1 .. threshold - 1 : last = guardians[i].address
      BY <2>1
    <3>2. i \in 1 .. threshold /\ i # threshold
      BY <1>0
    <3> QED
      BY <1>0, <1>4, <2>1, <3>1, <3>2
  <2>2. ASSUME last \notin first, NEW i \in 1 .. threshold, NEW j \in 1 .. threshold, by[i] = by[j] PROVE i = j
    <3>0. \A k \in 1 .. threshold : k # threshold => k \in 1 .. threshold - 1 /\ k \in 1 .. n
      BY <1>0
    <3>1. CASE i = threshold /\ j # threshold
      BY <1>4, <2>2, <3>0, <3>1
    <3>2. CASE j = threshold /\ i # threshold
      BY <1>4, <2>2, <3>0, <3>2
    <3>3. CASE i # threshold /\ j # threshold
      <4>1. guardians[i].address = guardians[j].address /\ i \in 1 .. n /\ j \in 1 .. n
        BY <1>4, <2>2, <3>0, <3>3
      <4> QED
        BY <4>1 DEF Distinct
    <3> QED
      BY <3>1, <3>2, <3>3
  <2> HIDE DEF first
  <2> QED
    BY <2>1, <2>2
<1>12. (\A i \in 1 .. threshold : sigs[i].over = digest(self)) <=> other = self
  <2>1. digest(other) = digest(self) <=> other = self
    BY DEF GuardianRecoveryDigest
  <2> HIDE DEF digest
  <2> QED
    BY <1>0, <1>3, <2>1
<1> HIDE DEF first
<1>13. Validates(account, self, "hash", sigs) <=>
          /\ Len(sigs) = account.recovery.threshold /\ Cardinality(signers) = Len(sigs)
          /\ signers \subseteq account.recovery.guardians
          /\ \A i \in DOMAIN sigs : sigs[i].over = digest(self)
  BY Zenon DEF Validates
<1> HIDE DEF digest, signers
<1>14. Validates(account, self, "hash", PackGuardianSignatures(sigs)) <=> other = self /\ last \notin first
  BY ONLY <1>1, <1>2, <1>7, <1>8, <1>9, <1>10, <1>11, <1>12, <1>13
<1> QED
  BY ONLY <1>14, Zenon DEF account, sigs, first, digest

LEMMA LivesRecover ==
    ASSUME NEW account \in Accounts, NEW guardians \in GuardianLists, NEW threshold \in 0 .. 8,
           NEW length \in {WordBytes, WordBytes + 1}, NEW seq \in 0 .. SequenceSpace
    PROVE  Recovers(account, guardians, threshold, length, seq)
<1> DEFINE init      == KernelInitializeCalldata(Ecdsa, EcdsaInstallData(ToBytes(9, AddressBytes), 1))
           install   == Install(account, guardians, threshold)
           installed == Execute(Created(init), account, install)
           rotate    == BuildRotateSignerCall(account, Webauthn, Passkey(5, length), Recovery)
           nonce     == ComposeNonce(rotate.nonceKey, seq)
           named     == {guardians[i].address : i \in DOMAIN guardians}
           rotated   == [installed EXCEPT !.root = [validator |-> Webauthn, config |-> Passkey(5, length)]]
           first     == {guardians[i].address : i \in 1 .. threshold - 1}
           sigs(last, other) ==
               [i \in 1 .. threshold |-> [by |-> IF i = threshold THEN last ELSE guardians[i].address,
                                          over |-> GuardianRecoveryDigest("hash", other)]]
           goes(last, other) == Validates(installed, account, "hash", PackGuardianSignatures(sigs(last, other)))
           after == AccountWith(OwnersRoot, RecoveryWith(threshold, named))
<1>1. PICK n \in Nat : IsGuardianList(guardians, n)
  BY ListsAreOfGuardians
<1>2. account \in Seq(Nat) /\ Len(account) = AddressBytes /\ account # ToBytes(30, AddressBytes)
  BY AccountsAreOthers
<1>3. Created(init) = AccountWith(OwnersRoot, None) /\ AccountWith(OwnersRoot, None) \in States
  BY AccountIsCreated
<1>4. Created(init).root.config.owner = ToBytes(9, AddressBytes)
  <2> HIDE DEF init
  <2>1. Created(init).root.config.owner = ToBytes(9, AddressBytes)
    <3>1. AccountWith(OwnersRoot, None).root = OwnersRoot
      BY DEF AccountWith
    <3>2. OwnersRoot.config.owner = ToBytes(9, AddressBytes)
      BY Zenon DEF OwnersRoot, RootWith
    <3> QED
      BY ONLY <1>3, <3>1, <3>2, Zenon
  <2> QED
    BY <2>1
<1>5. /\ rotate.callData = EncodeExecuteSingle([to |-> account, value |-> 0, data |->
             EncodeChangeRootValidator(Webauthn, WebauthnInstallData(Passkey(5, length)))])
      /\ rotate.nonceKey = ValidatorNonceKey(ToNumber(Recovery), 0)
  <2> DEFINE key == Passkey(5, length)
  <2> HIDE DEF key
  <2>1. BuildRotateSignerCall(account, Webauthn, key, Recovery) =
          [callData |-> EncodeExecuteSingle([to |-> account, value |-> 0, data |->
                            EncodeChangeRootValidator(Webauthn, WebauthnInstallData(key))]),
           nonceKey |-> ValidatorNonceKey(ToNumber(Recovery), 0)]
    BY ONLY Zenon DEF BuildRotateSignerCall
  <2> QED
    BY ONLY <2>1 DEF key
<1>6. nonce # Error => DecodeNonce(nonce).validator = ToNumber(Recovery) /\ DecodeNonce(nonce).sequence = seq
  <2> HIDE DEF rotate
  <2> QED
    BY ONLY <1>5, seq \in 0 .. SequenceSpace, RecoveryNonce, Zenon
<1>7. named = Named(guardians, n)
  BY <1>1 DEF IsGuardianList, Named
<1> HIDE DEF init, rotate, named, install
\* A key of the right length is rotated to, and another is not.
<1>8. \A root, recovery : AccountWith(root, recovery) \in States =>
          /\ rotate.callData = Error <=> length # WordBytes
          /\ rotate.callData # Error =>
               Execute(AccountWith(root, recovery), account, rotate.callData) =
                   AccountWith(RootWith(Webauthn, Passkey(5, length)), recovery)
  <2> SUFFICES ASSUME NEW root, NEW recovery, AccountWith(root, recovery) \in States
               PROVE  /\ rotate.callData = Error <=> length # WordBytes
                      /\ rotate.callData # Error =>
                           Execute(AccountWith(root, recovery), account, rotate.callData) =
                               AccountWith(RootWith(Webauthn, Passkey(5, length)), recovery)
    OBVIOUS
  <2>1. CASE length = WordBytes
    BY ONLY <1>2, <1>5, <2>1, AccountWith(root, recovery) \in States, RotationIsMade, Zenon
  <2>2. CASE length # WordBytes
    <3>1. length = WordBytes + 1
      BY <2>2
    <3>2. rotate.callData = Error
      BY ONLY <1>5, <3>1, LongKeysAreRefused, Zenon
    <3> QED
      BY <2>2, <3>2
  <2> QED
    BY <2>1, <2>2
<1>9. rotate.callData = Error <=> length # WordBytes
  BY <1>3, <1>8
<1>10. ASSUME install # Error
       PROVE  /\ installed # Error /\ installed.recovery = [threshold |-> threshold, guardians |-> named]
              /\ \A other \in Accounts, last \in named :
                   /\ goes(last, other) <=> other = account /\ last \notin first
                   /\ goes(last, other) /\ rotate.callData # Error =>
                        Execute(installed, account, rotate.callData) = rotated
  <2>1. n \in 2 .. 7 /\ threshold \in 1 .. n /\ Distinct(guardians, n) /\ installed = after /\ after \in States
    <3>1. Install(account, guardians, threshold) # Error
      BY <1>10 DEF install
    <3>2. /\ n \in 2 .. 7 /\ threshold \in 1 .. n /\ Distinct(guardians, n)
          /\ Execute(AccountWith(OwnersRoot, None), account, Install(account, guardians, threshold)) =
               AccountWith(OwnersRoot, RecoveryWith(threshold, Named(guardians, n)))
          /\ AccountWith(OwnersRoot, RecoveryWith(threshold, Named(guardians, n))) \in States
      <4>1. IsInstalled(account, guardians, n, threshold, OwnersRoot)
        BY ONLY <1>1, <1>2, <1>3, <3>1, GuardiansAreInstalled, Zenon
      <4> QED
        BY ONLY <4>1, Zenon DEF IsInstalled
    <3> QED
      BY ONLY <1>3, <1>7, <3>2, Zenon DEF install
  <2>2. installed # Error
    BY <2>1, ErrorIsNone
  <2>3. installed.recovery = [threshold |-> threshold, guardians |-> named]
    <3>1. after.recovery = RecoveryWith(threshold, named)
      BY ONLY Zenon DEF AccountWith
    <3> HIDE DEF installed, after
    <3> QED
      BY ONLY <2>1, <3>1, Zenon DEF RecoveryWith
  <2>4. ASSUME NEW other \in Accounts, NEW last \in named
        PROVE  goes(last, other) <=> other = account /\ last \notin first
    <3>1. Validates(after, account, "hash", PackGuardianSignatures(sigs(last, other)))
             <=> other = account /\ last \notin first
      BY ONLY <1>1, <1>7, <2>1, <2>4, ThresholdSigns
    <3> HIDE DEF after, installed, sigs, first
    <3> QED
      BY ONLY <2>1, <3>1, Zenon
  <2>5. rotated = AccountWith(RootWith(Webauthn, Passkey(5, length)), RecoveryWith(threshold, named))
    <3> DEFINE root == RootWith(Webauthn, Passkey(5, length))
               recovery == RecoveryWith(threshold, named)
    <3>1. rotated = [AccountWith(OwnersRoot, recovery) EXCEPT !.root = root]
      <4> HIDE DEF installed
      <4> QED
        BY ONLY <2>1, Zenon DEF RootWith
    <3> HIDE DEF root, recovery, rotated
    <3>2. rotated = AccountWith(root, recovery)
      BY ONLY <3>1 DEF AccountWith
    <3> QED
      BY ONLY <3>2, Zenon DEF root, recovery
  <2>6. rotate.callData # Error => Execute(installed, account, rotate.callData) = rotated
    <3> HIDE DEF rotated, installed
    <3> QED
      BY ONLY <1>8, <2>1, <2>5
  <2> HIDE DEF goes, rotated, installed
  <2> QED
    BY <2>2, <2>3, <2>4, <2>6, Zenon
<1> HIDE DEF installed, nonce, rotated, first
<1> QED
  BY ONLY <1>4, <1>6, <1>9, <1>10, Zenon
     DEF Recovers, init, install, installed, rotate, nonce, named, rotated, first

\* What can be built is for a sequence number there is.
LEMMA PackedFits ==
    ASSUME NEW w, NEW n, Packed(w, n) # Error
    PROVE  n \in 0 .. SequenceSpace - 1
<1>1. Nonce(w, n) # Error
  BY DEF Packed, BuildPackedUserOp
<1> QED
  BY <1>1, Zenon DEF Nonce, RootValidatorNonce, ComposeNonce

SequenceInv == sequence \in [Routes -> 0 .. SequenceSpace]

\* The EntryPoint never counts past what a nonce can hold: an operation that could be built carries a
\* number below that, and it is executed only when the count has come to it.
LEMMA SequenceInvHolds == Spec => []SequenceInv
<1>0. SequenceSpace \in Nat /\ FirstSequence \in 0 .. SequenceSpace
  BY WidthAssumption, TimeAssumption DEF WidthAssumption, TimeAssumption
<1>1. Init => SequenceInv
  BY <1>0 DEF Init, SequenceInv
<1>2. SequenceInv /\ WireInv /\ [Next]_vars => SequenceInv'
  <2> SUFFICES ASSUME SequenceInv, WireInv, [Next]_vars PROVE SequenceInv'
    OBVIOUS
  <2>1. CASE UNCHANGED sequence
    BY <2>1 DEF SequenceInv
  <2>2. ASSUME NEW p \in pool, Mine(p) PROVE SequenceInv'
    <3> DEFINE wanted == want[p.of]
               r == Route(wanted.w)
    <3>1. /\ IsSent(p, op[p.of], wanted, signature[p.of])
          /\ sequence' = [sequence EXCEPT ![r] = @ + 1]
          /\ DecodeNonce(p.wire.nonce).sequence = sequence[r]
      BY <2>2 DEF Mine, WireInv
    <3>2. /\ op[p.of] = Packed(wanted.w, wanted.sequence) /\ op[p.of] # Error
          /\ p.wire = ToRpcUserOperation(op[p.of]) /\ p.wire # Error
      BY <3>1 DEF IsSent, IsBuilt
    <3>3. p.wire.nonce = op[p.of].nonce
      BY <3>2 DEF ToRpcUserOperation
    <3>4. wanted.sequence \in 0 .. SequenceSpace - 1
      BY <3>2, PackedFits
    <3>5. Routed(op[p.of], wanted.w, wanted.sequence)
      BY <3>2, PackedIsRouted
    <3>6. sequence[r] = wanted.sequence
      BY <3>1, <3>3, <3>5 DEF Routed
    <3> HIDE DEF r, wanted
    <3>7. sequence[r] + 1 \in 0 .. SequenceSpace
      BY <1>0, <3>4, <3>6
    <3> QED
      BY <3>1, <3>7 DEF SequenceInv
  <2>3. UNCHANGED sequence \/ \E p \in pool : Mine(p)
    BY DEF Next, vars, Build, SignWithPasskey, SignOtherwise, Send, StartWait, Look, Receive, PollFails, Wake, Tick
  <2> QED
    BY <2>1, <2>2, <2>3
<1> QED
  BY <1>1, <1>2, WireInvHolds, PTL DEF Spec

\* For every width and at every sequence number: the guardians a caller names and can install restore
\* access to the account, and they alone.
THEOREM GuardiansRestoreAccess == Spec => []RecoveryRestoresAccess
<1>1. SequenceInv => RecoveryRestoresAccess
  <2> SUFFICES ASSUME SequenceInv, NEW r \in Routes PROVE RecoversAt[sequence[r]]
    BY DEF RecoveryRestoresAccess
  <2>1. sequence[r] \in 0 .. SequenceSpace
    BY DEF SequenceInv
  <2>2. \A seq \in 0 .. SequenceSpace : RecoversAt[seq]
    BY LivesRecover, Zenon DEF RecoversAt
  <2> QED
    BY <2>1, <2>2
<1> QED
  BY <1>1, SequenceInvHolds, PTL
=============================================================================
