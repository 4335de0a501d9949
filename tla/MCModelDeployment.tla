--------------------------- MODULE MCModelDeployment ---------------------------
EXTENDS ModelDeployment, TLC

CONSTANTS n1, n2, n3, n4

MCLimits ==
    [size |-> 3, name |-> 3, description |-> 3, accessList |-> 2, tags |-> 2, tag |-> 2, batch |-> 3,
     seconds |-> 3, lowMb |-> 2, highMb |-> 4, shares |-> 3]

\* Everything at its limit.
Largest ==
    [size |-> 3, name |-> 3, description |-> 3, knownTypes |-> TRUE, accessList |-> 2, tags |-> <<2, 1>>,
     maxBatchSize |-> 3, timeoutSeconds |-> 3, memoryLimitMb |-> 4, revenueShares |-> <<1000, 1>>,
     encrypted |-> TRUE, plan |-> [threshold |-> 3, total |-> 3, holders |-> <<1, 2, 3>>, single |-> FALSE]]

Smallest ==
    [size |-> 1, name |-> 1, description |-> 0, knownTypes |-> TRUE, accessList |-> 0, tags |-> <<>>,
     maxBatchSize |-> 0, timeoutSeconds |-> 0, memoryLimitMb |-> 0, revenueShares |-> None,
     encrypted |-> FALSE, plan |-> None]

MCConfigs ==
    {Largest, Smallest,
     [Largest EXCEPT !.plan = [@ EXCEPT !.holders = <<1, 2, 1>>]],
     [Largest EXCEPT !.revenueShares = <<1000, 2>>],
     [Smallest EXCEPT !.memoryLimitMb = 1]}

\* Up to one level above the limit, with the share at every depth and in every guise.  Inside a
\* JSON string there are neither byte arrays nor bigints.
MetadataWays ==
    {<<>>, <<"field">>, <<"json">>, <<"toJSON">>, <<"twice">>, <<"denied">>, <<"field", "field">>,
     <<"json", "field">>, <<"toJSON", "json">>, <<"json", "json">>}
MetadataEnds == {<<"plain">>, <<"share">>, <<"field", "share">>, <<"bytes">>, <<"bigint">>}
MCContents ==
    {w \o e : w \in MetadataWays, e \in MetadataEnds}
        \ {w \o e : w \in {v \in MetadataWays : \E i \in DOMAIN v : v[i] \in {"json", "twice"}}, e \in {<<"bytes">>, <<"bigint">>}}

\* One endpoint; two; nested; nested with one endpoint in two places; without getBlock; empty; an
\* entry without provider; a cycle; nested too deep.
Node(a, b, c, d) == (n1 :> a) @@ (n2 :> b) @@ (n3 :> c) @@ (n4 :> d)
MCProviders ==
    {Node(Endpoint, Endpoint, Endpoint, Endpoint), Node({n2, n3}, Endpoint, Endpoint, Endpoint),
     Node({n2, n3}, Endpoint, {n4}, Endpoint), Node({n2, n3}, {n4}, {n4}, Endpoint),
     Node({n2, n3}, Endpoint, Mute, Endpoint), Node({n2, n3}, Endpoint, {}, Endpoint),
     Node({n2, None}, Endpoint, Endpoint, Endpoint), Node({n2, n3}, Endpoint, {n1}, Endpoint),
     Node({n2}, {n3}, {n4}, Endpoint)}
=============================================================================
