---------------------------- MODULE SecretSharing ----------------------------
(***************************************************************************)
(* src/src/crypto/FiniteField.ts, class ShamirSecretSharing: a secret of   *)
(* several bytes is split byte by byte, each byte on a polynomial of its   *)
(* own, and read back by Lagrange interpolation at zero.  What the code    *)
(* throws is Error.                                                        *)
(***************************************************************************)
EXTENDS GaloisField, Sequences, Folds

CONSTANT Error

ValidParameters(threshold, total) == 0 < threshold /\ threshold <= total /\ total <= 255

\* evaluatePolynomial: the coefficients are given low order first.
Evaluate(coefficients, x) ==
    LET after[n \in 0 .. Len(coefficients)] ==
            IF n = 0 THEN [result |-> {}, xPower |-> {0}]
            ELSE [result |-> Add(after[n - 1].result, Multiply(coefficients[n], after[n - 1].xPower)),
                  xPower |-> Multiply(after[n - 1].xPower, x)]
    IN  after[Len(coefficients)].result

\* Mutated form: a polynomial one degree short.
PolynomialsTooShort(secret, threshold, random) ==
    [b \in DOMAIN secret |->
        <<secret[b]>> \o [i \in 1 .. threshold - 1 |-> IF i < threshold - 1 THEN random[b][i] ELSE {}]]

\* One polynomial per byte, with threshold - 1 random coefficients above the secret.
Polynomials(secret, threshold, random) ==
    [b \in DOMAIN secret |-> <<secret[b]>> \o [i \in 1 .. threshold - 1 |-> random[b][i]]]

SplitSecret(secret, threshold, total, random) ==
    LET polynomials == Polynomials(secret, threshold, random)
    IN  [x \in 1 .. total |->
            [x |-> x, y |-> [b \in DOMAIN secret |-> Evaluate(polynomials[b], ToByte(x))]]]

\* validateShares: every share, not only those that will be used.
ValidShares(shares) ==
    /\ shares # <<>>
    /\ \A i \in DOMAIN shares :
         /\ shares[i].x \in 1 .. 255
         /\ Len(shares[i].y) = Len(shares[1].y)
         /\ \A j \in 1 .. i - 1 : shares[j].x # shares[i].x
    /\ shares[1].y # <<>>

AnyOf(S) == CHOOSE i \in S : TRUE
Sum(f) == MapThenFoldSet(Add, {}, LAMBDA i : f[i], AnyOf, DOMAIN f)
Product(f) == MapThenFoldSet(Multiply, {0}, LAMBDA i : f[i], AnyOf, DOMAIN f)

\* The Lagrange basis: 1 at the i-th of some points, 0 at the others.
Basis(at, i, x) ==
    LET others == DOMAIN at \ {i}
    IN  Divide(Product([j \in others |-> Add(x, at[j])]), Product([j \in others |-> Add(at[i], at[j])]))

LagrangeInterpolation(at, y, x) == Sum([i \in DOMAIN at |-> Multiply(y[i], Basis(at, i, x))])

\* The value at x of the polynomial through byte b of the shares.
Interpolate(shares, b, x) ==
    LagrangeInterpolation([i \in DOMAIN shares |-> ToByte(shares[i].x)],
                          [i \in DOMAIN shares |-> shares[i].y[b]], x)

\* reconstructSecret and reconstructSecretBytes: the first threshold shares decide.
ReconstructSecret(shares, threshold) ==
    IF ValidShares(shares) /\ 0 < threshold /\ threshold <= Len(shares) /\ Len(shares) <= 255
    THEN [b \in DOMAIN shares[1].y |-> Interpolate(SubSeq(shares, 1, threshold), b, {})]
    ELSE Error

\* Mutated form: only the first of the surplus shares is compared.
VerifySharesOnce(shares, threshold) ==
    /\ ValidShares(shares)
    /\ threshold <= Len(shares)
    /\ \A i \in threshold + 1 .. Len(shares), b \in DOMAIN shares[1].y :
         i = threshold + 1 =>
             Interpolate(SubSeq(shares, 1, threshold), b, ToByte(shares[i].x)) = shares[i].y[b]

\* Every surplus share lies on the polynomial of the first threshold ones.
VerifyShares(shares, threshold) ==
    /\ ValidShares(shares)
    /\ threshold <= Len(shares)
    /\ \A i \in threshold + 1 .. Len(shares), b \in DOMAIN shares[1].y :
         Interpolate(SubSeq(shares, 1, threshold), b, ToByte(shares[i].x)) = shares[i].y[b]
=============================================================================
