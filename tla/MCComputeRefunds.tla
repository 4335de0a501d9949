--------------------------- MODULE MCComputeRefunds ---------------------------
EXTENDS ComputeRefunds

CONSTANTS c1, c2, v1, r1, r2

\* Two claims of one refund, and a view of another.
TwoDebts == [o \in Callers |-> IF o = v1 THEN r2 ELSE r1]
=============================================================================
