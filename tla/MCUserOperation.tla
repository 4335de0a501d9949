--------------------------- MODULE MCUserOperation ---------------------------
EXTENDS AccountModules, TLC

Wanted(validator, nonceKey, verificationGas, callGas, maxFee, factory, paymaster, paymasterGas) ==
    [validator |-> validator, nonceKey |-> nonceKey, verificationGas |-> verificationGas,
     callGas |-> callGas, maxFee |-> maxFee, factory |-> factory,
     paymaster |-> paymaster, paymasterGas |-> paymasterGas]

\* The root validator and an installed one; every field at a limit; and, last, each too large.
MCWants ==
    {Wanted(None, 0, 3, 255, 200, None, None, 0),
     Wanted(65535, 3, 255, 0, 1, 300, 65535, 254),
     Wanted(65536, 0, 1, 2, 3, None, None, 0),
     Wanted(None, 0, 256, 2, 3, None, None, 0),
     Wanted(None, 0, 1, 2, 3, None, 1, 255)}

\* The limits of r, the numbers around the half order, and of one byte and two.
MCScalars == {<<1, 254>>, <<508, 255>>}

MCSymmetry == Permutations(Flows)
=============================================================================
