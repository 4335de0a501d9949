--------------------------- MODULE MCCitrateClient ---------------------------
EXTENDS CitrateClient

CONSTANTS d1, i1, i2, i3

\* Two chunks of BatchSize 2, the second one short.
Batch3 == <<i1, i2, i3>>
=============================================================================
