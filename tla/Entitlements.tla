----------------------------- MODULE Entitlements -----------------------------
(***************************************************************************)
(* src/src/entitlements/capabilities.ts, through which userInfo of the     *)
(* identity client and every relying party read an entitlement claim.  A   *)
(* claim is a record; its expiresAt is a set, empty when the field is      *)
(* absent or NaN, which no comparison finds past; its citrateRole likewise *)
(* is empty when it is no string.  An override map gives capabilities to   *)
(* some tiers, and a table to the roles registered in ROLE_CAPABILITIES.   *)
(***************************************************************************)
EXTENDS Naturals

CONSTANTS
    Claims,      \* the entitlement claims in use
    NoClaim,     \* null or undefined in a claim's place
    Overrides,   \* the override maps relying parties may pass
    RoleTables,  \* what ROLE_CAPABILITIES may hold; at this commit it holds nothing
    MaxTime      \* bound: the times at which a claim is looked at

Capabilities == {"ecosystemTx", "gatewayKeys", "academicData", "confidentialDocs"}
Tiers == {"public", "commercial", "commercial.kyc", "academic", "confidential"}

EntitlementClaimLike == [tier : STRING, citrateRole : SUBSET STRING, expiresAt : SUBSET Nat]

ASSUME EntitlementsAssumption ==
    /\ Claims \subseteq EntitlementClaimLike /\ NoClaim \notin EntitlementClaimLike
    /\ Tiers \subseteq STRING
    /\ MaxTime \in Nat

DefaultCapabilities ==
    [t \in Tiers |->
        {c \in Capabilities :
            \/ t = "confidential"
            \/ t # "public" /\ c \in {"ecosystemTx", "gatewayKeys"}
            \/ t = "academic" /\ c = "academicData"}]

\* Beside its own entries ROLE_CAPABILITIES has, as every object, a value under the names it
\* inherits, and none of those values has a capability.
InheritedNames == {"constructor", "toString"}

NormalizeTier(tier) == IF tier \in Tiers THEN tier ELSE "public"

CapabilitiesOf(tier, overrides) ==
    LET t == NormalizeTier(tier)
    IN  IF t \in DOMAIN overrides THEN overrides[t] ELSE DefaultCapabilities[t]

CapabilitiesForClaim(claim, table, overrides) ==
    LET found == claim.citrateRole \cap (DOMAIN table \cup InheritedNames)
    IN  IF found = {} THEN CapabilitiesOf(claim.tier, overrides)
        ELSE UNION {table[r] : r \in found \cap DOMAIN table}

\* Mutated form: the claim is good at the very instant it expires.
ResolveCapabilitiesLate(claim, now, table, overrides) ==
    IF claim = NoClaim \/ \E t \in claim.expiresAt : t < now THEN DefaultCapabilities["public"]
    ELSE CapabilitiesForClaim(claim, table, overrides)

ResolveCapabilities(claim, now, table, overrides) ==
    IF claim = NoClaim \/ \E t \in claim.expiresAt : t <= now THEN DefaultCapabilities["public"]
    ELSE CapabilitiesForClaim(claim, table, overrides)

Can(claim, capability, now, table, overrides) == capability \in ResolveCapabilities(claim, now, table, overrides)
-----------------------------------------------------------------------------
May(claim, now, table, overrides) == {c \in Capabilities : Can(claim, c, now, table, overrides)}

Registered(claim, table) == claim.citrateRole \cap DOMAIN table # {}

Declared(claim, table) == UNION {table[r] : r \in claim.citrateRole \cap DOMAIN table}

\* A registered role gives what it declares whatever the tier; any other gives nothing.
RoleFailsSafe(claim, now, table, overrides) ==
    May(claim, now, table, overrides) \subseteq
        IF Registered(claim, table) THEN Declared(claim, table)
        ELSE May([claim EXCEPT !.citrateRole = {}], now, table, overrides)

\* Only the tier, the relying party's word on that tier or the role's entry opens the documents.
DocumentsFailSafe(claim, now, table, overrides) ==
    "confidentialDocs" \in May(claim, now, table, overrides) =>
        \/ claim.tier = "confidential" \/ NormalizeTier(claim.tier) \in DOMAIN overrides
        \/ "confidentialDocs" \in Declared(claim, table)

FailsSafe(claim, now, table, overrides) ==
    LET may == May(claim, now, table, overrides)
    IN  /\ \A later \in now .. MaxTime : May(claim, later, table, overrides) \subseteq may
        /\ now \in claim.expiresAt => may = {}
        /\ claim.tier \notin Tiers => may \subseteq May([claim EXCEPT !.tier = "public"], now, table, overrides)
        /\ RoleFailsSafe(claim, now, table, overrides)
        /\ DocumentsFailSafe(claim, now, table, overrides)

FailsSafeAt ==
    [now \in 0 .. MaxTime |->
        \A table \in RoleTables, overrides \in Overrides :
          /\ May(NoClaim, now, table, overrides) = {}
          /\ \A claim \in Claims : FailsSafe(claim, now, table, overrides)]
=============================================================================
