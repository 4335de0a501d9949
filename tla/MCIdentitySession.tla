-------------------------- MODULE MCIdentitySession --------------------------
EXTENDS IdentitySession, TLC

MCSkews == {-1, 1}
\* Bound: what a client does with tokens once it has been led away from the issuer is not explored.
Explored == strayed => \A c \in Calls : token[c] = NoToken
Symmetry == Permutations(Calls) \cup Permutations(Subjects)

\* Every tier and an unknown one, no role, one that may be registered and an inherited name, an
\* expiry at every side of the clock or none, a relying party that overrides a tier, public included,
\* and the table of roles empty, as it is, or with an entry.
MCClaims ==
    [tier : Tiers \cup {"enterprise"}, citrateRole : {{}, {"admin"}, {"constructor"}},
     expiresAt : {{}} \cup {{t} : t \in 0 .. MaxTime}]
MCOverrides ==
    LET one[t \in Tiers] == [u \in {t} |-> {"confidentialDocs"}]
    IN  {[u \in {} |-> {}]} \cup {one[t] : t \in Tiers}
MCRoleTables == {[r \in {} |-> {}], [r \in {"admin"} |-> {"academicData"}]}
=============================================================================
