----------------------------- MODULE KeyManager -----------------------------
(***************************************************************************)
(* src/src/crypto/KeyManager.ts over CryptoManager.ts: an owner encrypts a *)
(* model and wraps the shares of its key to named holders; the holders     *)
(* open their shares and hand them to whoever recovers the key.            *)
(*                                                                         *)
(* Cryptography is symbolic.  A sealed box is a record of its key and its  *)
(* data; opening it with another key fails, as the AES-GCM tag makes it.   *)
(* A key pair is the party that has it, the ECDH point of two parties is   *)
(* the set of the two, and a derived key is a record of what went into it. *)
(* Shamir's arithmetic is the real one (SecretSharing).                    *)
(***************************************************************************)
EXTENDS SecretSharing, FiniteSets

CONSTANTS
    Parties,       \* the key pairs: owners and holders
    Models,        \* the models encrypted; a model is also its plaintext
    Owner,         \* [Models -> Parties]
    Configs,       \* the EncryptionConfigs in use
    Keys,          \* the model keys generateRandomBytes may return (sequences of bytes)
    Random,        \* what secureRandomBytes may return, for each byte of a key
    MaxCollected,  \* bound: shares handed to the one who recovers
    None,          \* undefined, null
    Refused        \* a plan that planKeySharing throws on

\* A public key is written in several forms: with or without 0x, compressed or not.
PublicKeys == [party : Parties \cup {None}, form : {"04", "0x"}]

ASSUME KeyManagerAssumption ==
    /\ None \notin Parties
    /\ Owner \in [Models -> Parties]
    /\ \A c \in Configs : /\ c.threshold \in Nat /\ c.total \in Nat
                          /\ c.holders \in Seq(PublicKeys)
                          /\ c.allowSingle \in BOOLEAN

VARIABLES
    plan,       \* per model: None, Refused, or the sharing it was encrypted with
    metadata,   \* per model: what encryptModel returned for deploy calldata
    data,       \* per model: encryptedData
    key,        \* per model: its key (history)
    envelopes,  \* the KeyShareEnvelopes returned for delivery
    collected   \* the shares holders have unwrapped, in the order they were handed over

vars == <<plan, metadata, data, key, envelopes, collected>>

Seal(k, content) == [key |-> k, content |-> content]
Open(box, k) == IF box.key = k THEN box.content ELSE Error

\* deriveSharedKey: the x coordinate through HKDF, salted, bound to both endpoints in order.
SharedKey(p, peer, salt, sender, recipient) ==
    [dh |-> {p, peer}, salt |-> salt, info |-> <<sender, recipient>>]

\* wrapPasswordBytes through PBKDF2, and the unsalted derivation of older releases.
OwnerKey(p, salt) == IF salt = None THEN [sha256 |-> p] ELSE [pbkdf2 |-> p, salt |-> salt]

EncryptKeyForOwner(p, k, salt) == [salt |-> salt, box |-> Seal(OwnerKey(p, salt), k)]
DecryptKeyFromOwner(p, package) == Open(package.box, OwnerKey(p, package.salt))

\* What encryptModel may return for deploy calldata.
Metadata ==
    [encryptedKey : {EncryptKeyForOwner(p, k, <<m, 0>>) : p \in Parties, k \in Keys, m \in Models},
     threshold    : Nat]

ASSUME MetadataAssumption == None \notin Metadata

\* The message key and the salt of an envelope are fresh: its name stands for both.
EncryptData(p, recipient, content, name) ==
    [scheme |-> "V2", cleartextKey |-> FALSE, complete |-> TRUE,
     sender |-> p, recipient |-> recipient, salt |-> name,
     wrappedKey |-> Seal(SharedKey(p, recipient, name, p, recipient), <<"key of", name>>),
     box |-> Seal(<<"key of", name>>, content)]

\* Mutated form: anybody may be the sender.
AnySender(e, expectedSender) == TRUE

SenderIsExpected(e, expectedSender) == expectedSender = None \/ e.sender = expectedSender

DecryptData(p, e, expectedSender) ==
    IF e.cleartextKey \/ e.scheme # "V2" \/ ~e.complete \/ ~SenderIsExpected(e, expectedSender)
    THEN Error
    ELSE LET k == Open(e.wrappedKey, SharedKey(p, e.sender, e.salt, e.sender, e.recipient))
         IN  IF k = Error THEN Error ELSE Open(e.box, k)

\* Mutated form: the holders are compared as they are written.
DistinctAsWritten(holders) == \A i, j \in DOMAIN holders : holders[i] = holders[j] => i = j

\* canonicalPubHex makes one spelling, here the party, of every form of a public key.
Distinct(holders) == \A i, j \in DOMAIN holders : holders[i].party = holders[j].party => i = j

\* planKeySharing.
SharePlan(c) ==
    IF c.threshold = 0 THEN None
    ELSE IF /\ ValidParameters(c.threshold, c.total)
            /\ c.threshold = 1 => c.allowSingle
            /\ Len(c.holders) = c.total
            /\ \A i \in DOMAIN c.holders : c.holders[i].party # None
            /\ Distinct(c.holders)
         THEN [threshold |-> c.threshold, allowSingle |-> c.allowSingle,
               holders |-> [i \in DOMAIN c.holders |-> c.holders[i].party]]
         ELSE Refused

Shares(k, p, random) == SplitSecret(k, p.threshold, Len(p.holders), random)

\* wrapKeyShares: share i to holder i.  `of` is history.
WrapKeyShares(m, k, p, random) ==
    LET shares == Shares(k, p, random)
    IN  {[x |-> x, threshold |-> p.threshold, holder |-> p.holders[x], of |-> m,
          envelope |-> EncryptData(Owner[m], p.holders[x], shares[x].y, <<m, x>>)] : x \in DOMAIN shares}

\* Keys are of one length, 32 bytes in the code, and there is a random byte for each coefficient
\* above the secret.
ASSUME SecretsAssumption ==
    /\ \A k, l \in Keys : k \in Seq(Byte) /\ Len(k) = Len(l)
    /\ \A k \in Keys, c \in Configs, random \in Random : SharePlan(c) \notin {None, Refused} =>
         \A b \in DOMAIN k, i \in 1 .. c.threshold - 1 : random[b][i] \in Byte

\* What is thrown is none of the values that are returned.
ASSUME ErrorAssumption ==
    /\ Error \notin Models \cup Keys
    /\ Error \notin {"key of"} \X (Models \X Nat)
    /\ \A k \in Keys, c \in Configs, random \in Random : SharePlan(c) \notin {None, Refused} =>
         LET shares == Shares(k, SharePlan(c), random)
         IN  \A x \in DOMAIN shares : Error \notin {shares[x], shares[x].y}

Init ==
    /\ plan = [m \in Models |-> None]
    /\ metadata = [m \in Models |-> None]
    /\ data = [m \in Models |-> None]
    /\ key = [m \in Models |-> None]
    /\ envelopes = {}
    /\ collected = <<>>

\* A refused plan fails before a key exists.
EncryptModel(m, c) ==
    /\ metadata[m] = None
    /\ plan' = [plan EXCEPT ![m] = SharePlan(c)]
    /\ IF SharePlan(c) = Refused
       THEN UNCHANGED <<metadata, data, key, envelopes>>
       ELSE \E k \in Keys :
              /\ key' = [key EXCEPT ![m] = k]
              /\ data' = [data EXCEPT ![m] = Seal(k, m)]
              /\ metadata' = [metadata EXCEPT ![m] =
                     [encryptedKey |-> EncryptKeyForOwner(Owner[m], k, <<m, 0>>),
                      threshold |-> IF SharePlan(c) = None THEN 0 ELSE SharePlan(c).threshold]]
              /\ IF SharePlan(c) = None
                 THEN UNCHANGED envelopes
                 ELSE \E random \in Random :
                        envelopes' = envelopes \cup WrapKeyShares(m, k, SharePlan(c), random)
    /\ UNCHANGED collected

DecryptModel(p, m) ==
    LET k == DecryptKeyFromOwner(p, metadata[m].encryptedKey)
    IN  IF k = Error THEN Error ELSE Open(data[m], k)

UnwrapKeyShare(p, s, owner) ==
    IF s.holder # p THEN Error
    ELSE LET y == DecryptData(p, s.envelope, owner)
         IN  IF y = Error THEN Error ELSE [x |-> s.x, y |-> y]

\* A holder opens a share and hands it over; nothing keeps it from doing so twice.
HandOver(p, s, owner) ==
    /\ Len(collected) < MaxCollected
    /\ UnwrapKeyShare(p, s, owner) # Error
    /\ collected' = Append(collected, [share |-> UnwrapKeyShare(p, s, owner), of |-> s.of])
    /\ UNCHANGED <<plan, metadata, data, key, envelopes>>

Next ==
    \/ \E m \in Models, c \in Configs : EncryptModel(m, c)
    \/ \E p \in Parties, s \in envelopes, owner \in Parties : HandOver(p, s, owner)

Spec == Init /\ [][Next]_vars
-----------------------------------------------------------------------------
\* reconstructKeyFromShares: the threshold is the caller's, not the shares'.
ReconstructKeyFromShares(shares, threshold) ==
    IF threshold \in 1 .. 255 THEN ReconstructSecret(shares, threshold) ELSE Error

Given == [i \in DOMAIN collected |-> collected[i].share]

Shared == {m \in Models : plan[m] \notin {None, Refused}}

\* Any holders of one model, as many as its threshold or more and in whatever order they answer,
\* recover its key, and the check for consistency accepts what they hand over.
QuorumRecovers ==
    \A m \in Shared :
        /\ ValidShares(Given) /\ Len(Given) >= plan[m].threshold
        /\ \A i \in DOMAIN collected : collected[i].of = m
        => /\ ReconstructKeyFromShares(Given, plan[m].threshold) = key[m]
           /\ VerifyShares(Given, plan[m].threshold)

\* Shares of two models look alike, and reconstruction takes the first ones it is given.  A set
\* that verifyShares accepts yields the same key whichever of its shares are taken, in any order.
VerifiedIsUnambiguous ==
    \A t \in 1 .. Len(Given) - 1 : VerifyShares(Given, t) =>
        \A pick \in [1 .. t -> DOMAIN Given] : (\A i, j \in 1 .. t : pick[i] = pick[j] => i = j) =>
            ReconstructSecret([i \in 1 .. t |-> Given[pick[i]]], t) = ReconstructSecret(Given, t)

\* One share of a key that needs two or more says nothing about it: every byte of every key is
\* still possible, for some coefficient that the owner may have drawn.
OneShareSaysNothing ==
    \A m \in Shared :
        plan[m].threshold > 1 /\ Len(collected) = 1 /\ collected[1].of = m =>
            \A k \in Keys, b \in DOMAIN key[m] : \E c \in Byte :
                LET random == [i \in DOMAIN k |-> [j \in 1 .. 254 |-> IF j = 1 THEN c ELSE {}]]
                    shares == SplitSecret(k, plan[m].threshold, Len(plan[m].holders), random)
                IN  shares[Given[1].x].y[b] = Given[1].y[b]

\* Unless the owner asked for it, nobody else holds enough to recover a key alone, whatever forms
\* the holders' public keys were written in.
NobodyAlone ==
    \A m \in Shared, p \in Parties : p # Owner[m] /\ ~plan[m].allowSingle =>
        Cardinality({s \in envelopes : s.of = m /\ UnwrapKeyShare(p, s, Owner[m]) # Error})
            < plan[m].threshold

\* What may have happened to an envelope on its way, or been written by an older release.
Changed(e) ==
    {[e EXCEPT !.scheme = "V1"], [e EXCEPT !.cleartextKey = TRUE], [e EXCEPT !.complete = FALSE],
     [e EXCEPT !.salt = None], [e EXCEPT !.sender = e.recipient, !.recipient = e.sender]}
    \cup {[e EXCEPT !.sender = p] : p \in Parties} \cup {[e EXCEPT !.recipient = p] : p \in Parties}

\* A share opens for its holder, as coming from its owner, and for nobody else or as anybody
\* else's; an envelope with any field changed opens for nobody; a model opens for its owner.
ReadersAreNamed ==
    /\ \A s \in envelopes, p, q \in Parties :
         /\ UnwrapKeyShare(p, s, q) # Error <=> p = s.holder /\ q = Owner[s.of]
         /\ \A e \in Changed(s.envelope) \ {s.envelope} : DecryptData(p, e, q) = Error
    /\ \A m \in Models, p \in Parties : metadata[m] # None =>
         DecryptModel(p, m) = IF p = Owner[m] THEN m ELSE Error
=============================================================================
