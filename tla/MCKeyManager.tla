---------------------------- MODULE MCKeyManager ----------------------------
EXTENDS KeyManager, TLC

CONSTANTS o1, h1, h2, h3, m1, m2

MCOwner == m1 :> o1 @@ m2 :> h1

Raw(p) == [party |-> p, form |-> "04"]
Prefixed(p) == [party |-> p, form |-> "0x"]

Config(threshold, total, holders, allowSingle) ==
    [threshold |-> threshold, total |-> total, holders |-> holders, allowSingle |-> allowSingle]

\* Sharings of every kind and, after them, one for every way a plan is refused.
MCConfigs ==
    {Config(0, 0, <<>>, FALSE),
     Config(1, 1, <<Raw(h2)>>, TRUE),
     Config(2, 3, <<Raw(h1), Prefixed(h2), Raw(h3)>>, FALSE),
     Config(3, 3, <<Raw(o1), Raw(h2), Raw(h3)>>, FALSE),
     Config(1, 1, <<Raw(h2)>>, FALSE),
     Config(2, 2, <<Raw(h2), Prefixed(h2)>>, FALSE),
     Config(2, 1, <<Raw(h2)>>, FALSE),
     Config(2, 3, <<Raw(h1), Raw(h2)>>, FALSE),
     Config(2, 2, <<Raw(h1), Raw(None)>>, FALSE)}

\* The high bit, the low bit, zero: where reduction and inverses could go wrong.  Coefficients
\* that all happen to be zero put the key itself into every share.
MCKeys == {<<{}, {0, 7}>>, <<{3, 7}, {0}>>}
MCRandom == {<<<<{0, 1}, {7}>>, <<{4, 7}, {3}>>>>, <<<<{}, {}>>, <<{}, {}>>>>}
=============================================================================
