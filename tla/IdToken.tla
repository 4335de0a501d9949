------------------------------- MODULE IdToken -------------------------------
(***************************************************************************)
(* Verification of an ID token: src/src/identity/jwt.ts.  A token is a     *)
(* record of what the checks look at:                                      *)
(*   class    "id": three segments, RS256, a signature, typ JWT or none;   *)
(*            "other": anything else that is signed                        *)
(*   kid      the key its header names, NoKid where it names none          *)
(*   signer   the key it was signed with                                   *)
(*   ours     iss is the pinned issuer and aud contains this client        *)
(*   iat, exp, nbf   times in seconds, NoTime where no number is given     *)
(*   nonce, sub                                                            *)
(* Keys of a kind other than RSA are dropped by the code before use; a set *)
(* of keys here holds the RSA ones.  A key is named by its kid.            *)
(***************************************************************************)
EXTENDS Integers, FiniteSets

CONSTANTS
    Tolerance,   \* the clock tolerance in seconds
    NoTime, NoKid, NoNonce

ASSUME IdTokenAssumption ==
    /\ Tolerance \in Nat
    /\ NoTime \notin Int

\* The keys the header selects from the set: at most one.
Selected(t, jwks) ==
    {k \in jwks : k = t.kid \/ (t.kid = NoKid /\ jwks = {k})}

\* Mutated form: no tolerance for a clock that is behind the authority's.
ValidAtStrict(t, now) ==
    /\ t.exp # NoTime /\ t.iat # NoTime
    /\ t.iat <= now
    /\ now <= t.exp + Tolerance
    /\ t.nbf # NoTime => now + Tolerance >= t.nbf

ValidAt(t, now) ==
    /\ t.exp # NoTime /\ t.iat # NoTime
    /\ t.iat <= now + Tolerance
    /\ now <= t.exp + Tolerance
    /\ t.nbf # NoTime => now + Tolerance >= t.nbf

\* A nonce is compared only where the caller passes one.
Verifies(t, jwks, now, nonce) ==
    /\ t.class = "id"
    /\ t.signer \in Selected(t, jwks)
    /\ t.ours
    /\ ValidAt(t, now)
    /\ nonce = NoNonce \/ t.nonce = nonce
=============================================================================
