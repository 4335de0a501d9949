---------------------------- MODULE CitrateClient ----------------------------
(***************************************************************************)
(* The operations of src/src/client/CitrateClient.ts that send             *)
(* transactions: deployModel, inference and batchInference, all of one     *)
(* client and one wallet, interleaved at their awaits, behind the network  *)
(* guard of NetworkGuard.tla (with a timeout: timeoutMs is always set).    *)
(*                                                                         *)
(* An operation moves "idle" -> "started" -> "ready" (validated,           *)
(* encrypted, uploaded), through the guard, -> "signed" -> "mining" ->     *)
(* "done", or to "failed" from any of these.                               *)
(***************************************************************************)
EXTENDS NetworkGuard, Sequences, SequencesExt

CONSTANTS
    Deploys,     \* the operations that are deployModel calls; the others are inferences
    Batch,       \* the inputs of one batchInference call, in order
    BatchSize,   \* request.batchSize || 10
    MaxInvalid   \* bound: how many operations carry data the validators refuse

Inputs == ToSet(Batch)
Direct == Callers \ Inputs

ASSUME CitrateClientAssumption ==
    /\ Deploys \subseteq Callers
    /\ Batch \in Seq(Callers \ Deploys) /\ IsInjective(Batch)
    /\ BatchSize \in Nat \ {0}
    /\ MaxInvalid \in Nat

VARIABLES
    invalid,        \* the operations whose arguments the validators refuse (fixed)
    confidential,   \* the operations that ask for encryption (fixed)
    hasWallet,      \* the client has a private key, and with it a wallet and a KeyManager (fixed)
    hasKey,         \* recipientPublicKey is given (fixed)
    pc,             \* per operation: its progress, as above
    sealed,         \* the operations whose payload has been encrypted
    broadcast,      \* the operations whose signed transaction has left the client
    nonce,          \* per operation: the nonce its transaction was populated with
    accountNonce,   \* the nonce the chain expects next from the wallet
    batch,          \* batchInference: "idle", "running", "returned" or "threw"
    next,           \* the loop variable i: inputs before it belong to chunks already started
    results,        \* the inputs pushed to results, in that order
    errors,         \* the inputs pushed to errors, in that order
    progress        \* the last `completed` passed to onProgress

fixedVars == <<invalid, confidential, hasWallet, hasKey>>
sendVars == <<sealed, broadcast, nonce, accountNonce>>
batchVars == <<batch, next, results, errors, progress>>
vars == <<guardVars, fixedVars, pc, sendVars, batchVars>>

States == {"idle", "started", "ready", "signed", "mining", "done", "failed"}
Settled(o) == pc[o] \in {"done", "failed"}

TypeOK ==
    /\ GuardTypeOK
    /\ invalid \subseteq Callers /\ confidential \subseteq Callers
    /\ hasWallet \in BOOLEAN /\ hasKey \in BOOLEAN
    /\ pc \in [Callers -> States]
    /\ sealed \subseteq Callers /\ broadcast \subseteq Callers
    /\ nonce \in [Callers -> Nat] /\ accountNonce \in Nat
    /\ batch \in {"idle", "running", "returned", "threw"}
    /\ next \in 0 .. Len(Batch) + BatchSize
    /\ results \in Seq(Inputs) /\ errors \in Seq(Inputs)
    /\ progress \in 0 .. Len(Batch)

\* A batch asks for encryption for all of its inputs or for none.  deployModel encrypts with the
\* client's own key; an inference needs the recipient's.
Init ==
    /\ GuardInit
    /\ invalid \in {S \in SUBSET Callers : Cardinality(S) <= MaxInvalid}
    /\ confidential \in {S \in SUBSET Callers : Inputs \subseteq S \/ Inputs \cap S = {}}
    /\ hasWallet \in BOOLEAN
    /\ hasKey \in BOOLEAN
    /\ pc = [o \in Callers |-> "idle"]
    /\ sealed = {}
    /\ broadcast = {}
    /\ nonce = [o \in Callers |-> 0]
    /\ accountNonce = 0
    /\ batch = "idle"
    /\ next = 0
    /\ results = <<>>
    /\ errors = <<>>
    /\ progress = 0
-----------------------------------------------------------------------------
\* An input of the batch is pushed to results or errors as its own promise settles.
Record(o, state) ==
    /\ results' = IF o \in Inputs /\ state = "done" THEN Append(results, o) ELSE results
    /\ errors' = IF o \in Inputs /\ state = "failed" THEN Append(errors, o) ELSE errors
    /\ UNCHANGED <<batch, next, progress>>

Step(o, from, to) ==
    /\ pc[o] = from
    /\ pc' = [pc EXCEPT ![o] = to]
    /\ Record(o, to)

\* No wallet, or arguments the validators refuse.
Unusable(o) == ~hasWallet \/ o \in invalid

\* deployModel or inference called directly: both throw before anything else happens.
Start(o) ==
    /\ o \in Direct
    /\ Step(o, "idle", IF Unusable(o) THEN "failed" ELSE "started")
    /\ UNCHANGED <<guardVars, fixedVars, sendVars>>

\* Mutated form: a batch forgets to hand `encrypted` on to its inferences.
WantsSealDirect(o) == o \in confidential \cap Direct

WantsSeal(o) == o \in confidential

\* encryptData fails without a recipient key; encryptModel uses the client's own.
CanSeal(o) == o \in Deploys \/ hasKey

\* Encryption, refused rather than skipped, and for a deployment the hash, the upload and the
\* check for key shares, which may fail.  An input of a batch passes the tests of inference here.
Prepare(o) ==
    \/ /\ ~Unusable(o)
       /\ WantsSeal(o) => CanSeal(o)
       /\ Step(o, "started", "ready")
       /\ sealed' = IF WantsSeal(o) THEN sealed \cup {o} ELSE sealed
       /\ UNCHANGED <<guardVars, fixedVars, broadcast, nonce, accountNonce>>
    \/ /\ Unusable(o) \/ (WantsSeal(o) /\ ~CanSeal(o)) \/ o \in Deploys
       /\ Step(o, "started", "failed")
       /\ UNCHANGED <<guardVars, fixedVars, sendVars>>

\* await this.verifyNetwork()
Guard(o) ==
    /\ pc[o] = "ready"
    /\ VerifyNetwork(o)
    /\ UNCHANGED <<fixedVars, pc, sendVars, batchVars>>

GuardRefuses(o) ==
    /\ caller[o] = "refused"
    /\ Step(o, "ready", "failed")
    /\ UNCHANGED <<guardVars, fixedVars, sendVars>>

\* Mutated form: the transaction does not wait for the guard.
MaySendUnguarded(o) == TRUE

MaySend(o) == caller[o] = "cleared"

\* wallet.sendTransaction reads the nonce, or fails to, ...
Populate(o) ==
    /\ MaySend(o)
    /\ \/ /\ Step(o, "ready", "signed")
          /\ nonce' = [nonce EXCEPT ![o] = accountNonce]
       \/ /\ Step(o, "ready", "failed")
          /\ UNCHANGED nonce
    /\ UNCHANGED <<guardVars, fixedVars, sealed, broadcast, accountNonce>>

\* ... and broadcasts: the chain accepts the next nonce only, and two operations in flight may
\* hold the same one.  The reply may get lost after the chain accepted.
Broadcast(o) ==
    /\ broadcast' = broadcast \cup {o}
    /\ \/ /\ nonce[o] = accountNonce
          /\ accountNonce' = accountNonce + 1
          /\ Step(o, "signed", "mining") \/ Step(o, "signed", "failed")
       \/ /\ Step(o, "signed", "failed")
          /\ UNCHANGED accountNonce
    /\ UNCHANGED <<guardVars, fixedVars, sealed, nonce>>

\* tx.wait() and the extraction of the model id or the output: no receipt, a reverted transaction
\* and a missing log are failures.
Mined(o) ==
    /\ Step(o, "mining", "done") \/ Step(o, "mining", "failed")
    /\ UNCHANGED <<guardVars, fixedVars, sendVars>>

GuardAnswers ==
    /\ GuardStep
    /\ UNCHANGED <<fixedVars, pc, sendVars, batchVars>>
-----------------------------------------------------------------------------
\* The inputs of the chunk that starts at i (0-based, as in the code).
Chunk(i) == {Batch[k] : k \in {n \in DOMAIN Batch : i < n /\ n <= i + BatchSize}}

StartChunk(i) ==
    /\ pc' = [o \in Callers |-> IF o \in Chunk(i) THEN "started" ELSE pc[o]]
    /\ next' = i + BatchSize

\* Encryption that cannot be applied, or an input the validators refuse.
RejectBatch ==
    \/ Inputs # {} /\ Inputs \subseteq confidential /\ ~(hasWallet /\ hasKey)
    \/ Inputs \cap invalid # {}

BatchInference ==
    /\ batch = "idle"
    /\ IF RejectBatch
       THEN batch' = "threw" /\ UNCHANGED <<pc, next>>
       ELSE IF Batch = <<>> THEN batch' = "returned" /\ UNCHANGED <<pc, next>>
       ELSE batch' = "running" /\ StartChunk(0)
    /\ UNCHANGED <<guardVars, fixedVars, sendVars, results, errors, progress>>

\* Mutated form: the chunk is over when one of its promises has settled.
ChunkOverEarly == \E o \in Chunk(next - BatchSize) : Settled(o)

\* Promise.all, and the sequential awaits alike: every promise of the chunk, all of which were
\* started together whatever `parallel` says, has settled.
ChunkOver == \A o \in Chunk(next - BatchSize) : Settled(o)

\* Math.min(i + batchSize, request.inputs.length)
Completed == IF next < Len(Batch) THEN next ELSE Len(Batch)

\* onProgress, and then the next round of the loop or the return.
EndChunk ==
    /\ batch = "running"
    /\ ChunkOver
    /\ progress' = Completed
    /\ IF next < Len(Batch)
       THEN StartChunk(next) /\ UNCHANGED batch
       ELSE batch' = "returned" /\ UNCHANGED <<pc, next>>
    /\ UNCHANGED <<guardVars, fixedVars, sendVars, results, errors>>
-----------------------------------------------------------------------------
Proceed(o) == Prepare(o) \/ Guard(o) \/ GuardRefuses(o) \/ Populate(o) \/ Broadcast(o) \/ Mined(o)

Done == (\A o \in Callers : Settled(o) \/ (o \in Inputs /\ pc[o] = "idle")) /\ batch \in {"returned", "threw"}

\* Everything the application asked for has ended.
Terminated == Done /\ UNCHANGED vars

Next ==
    \/ \E o \in Callers : Start(o) \/ Proceed(o)
    \/ BatchInference
    \/ EndChunk
    \/ GuardAnswers
    \/ Terminated

Spec == Init /\ [][Next]_vars

\* The timers of the guard fire; requests to the node, mining included, end one way or the other;
\* the event loop resumes whoever can go on.
Fairness ==
    /\ \A o \in Callers : WF_vars(Proceed(o))
    /\ WF_vars(EndChunk)
    /\ \A e \in Endpoints : WF_vars(EndpointTimesOut(e) /\ UNCHANGED <<fixedVars, pc, sendVars, batchVars>>)

FairSpec == Spec /\ Fairness
-----------------------------------------------------------------------------
\* No transaction leaves the client before every endpoint it is broadcast to has shown the
\* expected genesis, whoever ran the check and however the operations overlap.
NothingSentUnverified == Checked /\ broadcast # {} => reported = Endpoints

\* What was asked to be encrypted never leaves in plaintext, direct call or batch.
ConfidentialIsSealed == broadcast \cap confidential \subseteq sealed

\* A batch with an input the validators refuse sends nothing at all.
InvalidBatchSendsNothing == Inputs \cap invalid # {} => broadcast \cap Inputs = {}

\* A batch that returns accounts for every input exactly once, as a result or as an error.
BatchAccounts ==
    batch = "returned" => IsInjective(results \o errors) /\ ToSet(results \o errors) = Inputs

\* The inputs in flight all belong to one chunk, so never more than BatchSize of them.
OneChunkInFlight ==
    {o \in Inputs : pc[o] \notin {"idle", "done", "failed"}} \subseteq Chunk(next - BatchSize)

\* What onProgress has reported as completed has settled.
ProgressIsSettled == \A k \in 1 .. progress : Settled(Batch[k])

\* Every batch returns or throws: no input waits for good on the guard or on its siblings.
BatchEnds == batch = "running" ~> batch = "returned"

=============================================================================
