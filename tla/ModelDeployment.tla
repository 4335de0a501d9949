---------------------------- MODULE ModelDeployment ----------------------------
(***************************************************************************)
(* What deployModel of src/src/client/CitrateClient.ts publishes: calls    *)
(* that overlap at their awaits and share the metadata objects the         *)
(* application passes, with the validators in front (validation.ts), the   *)
(* share guard (ShareGuard.tla) and the endpoints behind the provider      *)
(* (network.ts).  The order of transactions and the overlap of network     *)
(* checks are the matter of CitrateClient.tla and NetworkGuard.tla.        *)
(***************************************************************************)
EXTENDS ShareGuard, Folds, Functions

CONSTANTS
    Deploys,
    Configs,      \* the configurations the application may pass
    Objects,      \* the metadata objects it may pass with them, None: none
    Contents,     \* what it may have put there: paths below config.metadata
    Providers,    \* the providers it may have made: per node, what is behind it
    Root,         \* the node that is this.provider
    MaxNesting,   \* MAX_PROVIDER_NESTING
    Endpoint, Mute, \* nodes that are no FallbackProvider, with and without getBlock
    Limits,       \* MODEL_LIMITS and the bounds of the validators
    Refused, None

ASSUME DeploymentAssumption == None \notin Deploys \cup Objects /\ MaxNesting \in Nat

ASSUME ContentsAssumption == Contents \subseteq Paths

ASSUME ProvidersAssumption ==
    \A p \in Providers :
        /\ Root \in DOMAIN p
        /\ \A n \in DOMAIN p : p[n] \in {Endpoint, Mute} \/ p[n] \subseteq DOMAIN p \cup {None}

VARIABLES
    provider,    \* this.provider (fixed)
    content,     \* per metadata object: what the application has put there (fixed)
    encryption,  \* per metadata object: its field `encryption`, by the deployment that wrote it
    pc,          \* per deployment: progress
    config, metadata,   \* per deployment: its arguments
    uploaded,    \* per deployment: the key its data are sealed with, by deployment; None: plaintext
    payload,     \* per deployment: what it has serialised
    networkCheck,   \* the endpoints of a network check that has passed; {}: none has
    broadcast    \* the deployments whose transaction has left the client

arguments == <<config, metadata>>
vars == <<provider, content, encryption, pc, arguments, uploaded, payload, networkCheck, broadcast>>

Init ==
    /\ provider \in Providers
    /\ content \in [Objects -> Contents]
    /\ encryption = [o \in Objects |-> None]
    /\ pc = [d \in Deploys |-> "idle"]
    /\ config = [d \in Deploys |-> None]
    /\ metadata = [d \in Deploys |-> None]
    /\ uploaded = [d \in Deploys |-> None]
    /\ payload = [d \in Deploys |-> None]
    /\ networkCheck = {}
    /\ broadcast = {}

Goto(d, from, to) == pc[d] = from /\ pc' = [pc EXCEPT ![d] = to]
-----------------------------------------------------------------------------
\* validateModelConfig and validateModelData.  Prices and shares are integers here; an optional
\* number that is 0 counts as absent.

WithinOrAbsent(n, low, high) == n = 0 \/ (low <= n /\ n <= high)

\* Of every share of the revenue, in thousandths, and of their sum.
ValidRevenue(shares) ==
    LET total == MapThenFoldSet(+, 0, LAMBDA i : shares[i], LAMBDA S : CHOOSE i \in S : TRUE, DOMAIN shares)
    IN  (\A i \in DOMAIN shares : shares[i] <= 1000) /\ 999 <= total /\ total <= 1001

ValidPlan(plan) == plan.threshold <= plan.total /\ plan.total <= Limits.shares

Valid(c) ==
    /\ 0 < c.size /\ c.size <= Limits.size
    /\ 0 < c.name /\ c.name <= Limits.name
    /\ c.description <= Limits.description
    /\ c.knownTypes
    /\ c.accessList <= Limits.accessList
    /\ Len(c.tags) <= Limits.tags /\ \A i \in DOMAIN c.tags : c.tags[i] \in 1 .. Limits.tag
    /\ WithinOrAbsent(c.maxBatchSize, 1, Limits.batch)
    /\ WithinOrAbsent(c.timeoutSeconds, 1, Limits.seconds)
    /\ WithinOrAbsent(c.memoryLimitMb, Limits.lowMb, Limits.highMb)
    /\ c.revenueShares # None => ValidRevenue(c.revenueShares)
    /\ c.encrypted /\ c.plan # None => ValidPlan(c.plan)

\* planKeySharing, which encryptModel runs before it makes a key.
CanPlan(plan) ==
    plan = None \/ plan.threshold = 0
        \/ (plan.threshold <= plan.total /\ plan.total <= Limits.shares /\ Len(plan.holders) = plan.total
              /\ IsInjective(plan.holders) /\ (plan.threshold = 1 => plan.single))

\* Up to the hash, the first await.
Call(d, c, object) ==
    /\ Goto(d, "idle", IF Valid(c) THEN "hashed" ELSE "failed")
    /\ config' = [config EXCEPT ![d] = c]
    /\ metadata' = [metadata EXCEPT ![d] = object]
    /\ UNCHANGED <<provider, content, encryption, uploaded, payload, networkCheck, broadcast>>

Encrypts(d) == config[d].encrypted

\* encryptModel, and the upload to IPFS; both may fail.
Upload(d) ==
    /\ \/ /\ pc[d] = "hashed" /\ (Encrypts(d) => CanPlan(config[d].plan))
          /\ Goto(d, "hashed", "uploaded")
          /\ uploaded' = [uploaded EXCEPT ![d] = IF Encrypts(d) THEN d ELSE None]
       \/ Goto(d, "hashed", "failed") /\ UNCHANGED uploaded
    /\ UNCHANGED <<provider, content, encryption, arguments, payload, networkCheck, broadcast>>

\* Mutated form: metadata that are there already are kept.
EncryptionFieldKept(d) ==
    IF metadata[d] # None /\ encryption[metadata[d]] # None THEN encryption[metadata[d]]
    ELSE IF Encrypts(d) THEN d ELSE None

\* txData.metadata.encryption: what this deployment writes, or what the object had before.
EncryptionField(d) ==
    IF Encrypts(d) THEN d
    ELSE IF metadata[d] = None THEN None ELSE encryption[metadata[d]]

\* The path from txData through its metadata.
PayloadPath(d) == <<"field", "field">> \o (IF metadata[d] = None THEN <<"plain">> ELSE content[metadata[d]])

\* From the upload to the next await: the transaction data, both guards, and the bytes to be sent.
Serialise(d) ==
    /\ pc[d] = "uploaded"
    /\ LET path  == PayloadPath(d)
           clean == AssertNoKeyShareMaterial(path) /\ AssertPayloadHasNoKeyShareMaterial(path)
           wire  == [encrypted |-> Encrypts(d), data |-> uploaded[d],
                     encryption |-> EncryptionField(d), path |-> path]
       IN  /\ Goto(d, "uploaded", IF clean THEN "serialised" ELSE "failed")
           /\ payload' = IF clean THEN [payload EXCEPT ![d] = wire] ELSE payload
    /\ encryption' = IF metadata[d] = None THEN encryption
                     ELSE [encryption EXCEPT ![metadata[d]] = EncryptionField(d)]
    /\ UNCHANGED <<provider, content, arguments, uploaded, networkCheck, broadcast>>
-----------------------------------------------------------------------------
\* Mutated form: a node is asked itself before what is behind it.
EndpointsOfFirst(p) == IF p[Root] \in {Endpoint, Mute} THEN {Root} ELSE {CHOOSE n \in p[Root] : TRUE}

\* A node is Endpoint or Mute or the set of its providers, among them None for an entry that has no
\* provider.  walk() goes down every way from this.provider; a way is a node and its ancestors.
Ways(p) ==
    {way \in UNION {[1 .. k -> DOMAIN p] : k \in 1 .. MaxNesting + 2} :
        /\ way[1] = Root
        /\ \A i \in 1 .. Len(way) - 1 : p[way[i]] \notin {Endpoint, Mute} /\ way[i + 1] \in p[way[i]]}

Reaches(way) == way[Len(way)]

Throws(p, way) ==
    LET node == Reaches(way)
    IN  \/ \E i \in 1 .. Len(way) - 1 : way[i] = node
        \/ Len(way) - 1 > MaxNesting
        \/ p[node] \in {Mute, {}}
        \/ p[node] # Endpoint /\ None \in p[node]

EndpointsOf(p) ==
    IF \E way \in Ways(p) : Throws(p, way) THEN Refused
    ELSE {Reaches(way) : way \in {w \in Ways(p) : p[Reaches(w)] = Endpoint}}

\* A table, for TLC to make once.
EndpointsBehind == [p \in Providers |-> EndpointsOf(p)]

\* verifyNetwork: a check that has passed is kept; otherwise every endpoint behind the provider is
\* asked, of which `bad` do not report the expected block 0.
Verify(d, bad) ==
    /\ pc[d] = "serialised"
    /\ LET endpoints == EndpointsBehind[provider]
           passes    == endpoints # Refused /\ (networkCheck = endpoints \/ endpoints \cap bad = {})
       IN  /\ networkCheck' = IF passes THEN endpoints ELSE networkCheck
           /\ Goto(d, "serialised", IF passes THEN "cleared" ELSE "failed")
    /\ UNCHANGED <<provider, content, encryption, arguments, uploaded, payload, broadcast>>

Send(d) ==
    /\ Goto(d, "cleared", "done")
    /\ broadcast' = broadcast \cup {d}
    /\ UNCHANGED <<provider, content, encryption, arguments, uploaded, payload, networkCheck>>

Next ==
    \E d \in Deploys :
        \/ \E c \in Configs, object \in Objects \cup {None} : Call(d, c, object)
        \/ Upload(d) \/ Serialise(d) \/ Send(d)
        \/ \E bad \in SUBSET {n \in DOMAIN provider : provider[n] = Endpoint} : Verify(d, bad)

Spec == Init /\ [][Next]_vars
-----------------------------------------------------------------------------
\* No share can be read out of what is published, at any depth, inside JSON strings, under keys
\* that occur twice, or where it comes into being only when the payload is serialised.
NoShareIsPublished == \A d \in broadcast : ~HoldsShare(payload[d].path)

\* What is published as encrypted is encrypted, with the key its own metadata seal, whatever an
\* earlier deployment has left in the same object; and a plaintext deployment carries the metadata
\* of another one only when the application has passed both the same object.
MetadataFitData ==
    \A d \in broadcast :
        LET p == payload[d]
        IN  IF p.encrypted THEN p.data = d /\ p.encryption = d
            ELSE /\ p.data = None
                 /\ p.encryption # None => metadata[p.encryption] = metadata[d] /\ metadata[d] # None

\* A transaction goes to every endpoint behind the provider, however it is nested: once one has been
\* sent, no node that takes it was left out of the network check that passed.  (Some set of nodes
\* has the provider in it and all that is behind its own members.)
SentToVerified ==
    broadcast # {} =>
        \E nodes \in SUBSET DOMAIN provider :
            /\ Root \in nodes
            /\ \A n \in nodes : provider[n] \notin {Endpoint, Mute} => provider[n] \ {None} \subseteq nodes
            /\ {n \in nodes : provider[n] \in {Endpoint, Mute}} \subseteq networkCheck
=============================================================================
