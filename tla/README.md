# Verification of the Citrate JavaScript SDK

TLA+ models of `@citrate` SDK code (`src/src/**`), TLC configurations that check them on small
instances, and TLAPS proofs of what matters most for every size. Paths below are relative to the
repository; `PROJECT.json` lists every run, mutant, mapped line, finding, hazard and theorem.

    tlc -workers 4 -config WebSocketClient_contract.cfg MCWebSocketClient
    tlapm NetworkGuard_proofs.tla

## 1. The system and its parts

The SDK is a library: it runs inside its application's JavaScript event loop. A handler or the
code between two `await`s runs to completion; what interleaves is the order of socket events,
timers, network answers and the application's own calls. Nothing is persisted, so there is no
crash recovery; what replaces it is reconnecting, retrying and caches that outlive a failure.

| Part | State it keeps | Operations | Interacts with | What is hard |
|---|---|---|---|---|
| `client/WebSocketClient.ts` | socket, `isConnecting`, reconnect counter and timer, ping timer, pending requests | connect, disconnect, sendMessage, subscriptions, streaming | runtime WebSocket, timers, server | events of replaced sockets, shared flags, timers that are never cleared, late replies |
| `utils/network.ts` and the `networkCheck` cache of its two clients | one promise: none, running, passed | verifyNetwork | every RPC endpoint | callers that share a check, one bad endpoint of several, endpoints that hang, failures that must not be cached |
| `client/CitrateClient.ts`, transactions | wallet, the progress of overlapping calls, a batch's chunk, results and errors | deployModel, inference, batchInference | guard, IPFS, wallet, chain | overlap at every `await`, nonces, fail-closed encryption, all-or-nothing validation |
| `client/CitrateClient.ts`, `rpcCall` | axios pool | rpcCall and the reads on it | RPC endpoints | telling an answer from an outage |
| `compute/refunds.ts` | `networkCheck` | three views, three claims | guard (no timeout), contracts | read and send are separate calls |
| `identity/client.ts`, `pkce.ts` | discovery and JWKS caches | authorizeUrl, exchangeCode, refresh, SIWE, userInfo, logout | authority, `jwt.ts`, `entitlements` | rotating refresh tokens, key rotation, single-use nonces |
| `identity/jwt.ts` | none | verifyIdToken | JWKS | order of checks, clock tolerance |
| `identity/wallet.ts` | none | message and calldata builders | | text only |
| `entitlements/capabilities.ts` | none | resolveCapabilities, can | identity, relying parties | expiry instant, unknown tiers and roles |
| `crypto/FiniteField.ts` | none | GF(2^8) arithmetic, split, reconstruct | KeyManager | zero, high bit, duplicate and mixed shares |
| `crypto/KeyManager.ts` | key pair | plan, encrypt, share, wrap, unwrap, reconstruct, decrypt | FiniteField, CryptoManager, deployModel | spellings of one holder, shares of two models, envelopes that name their own sender |
| `crypto/CryptoManager.ts` | none | ciphers and hashes | WebCrypto | library calls |
| `crypto/shareGuard.ts` | none | scan of outgoing payloads | deployModel | depth limit, JSON inside strings, duplicate keys |
| `aa/userop.ts`, `aa/bundler.ts` | request id | pack, hash, send, poll for a receipt | bundler, EntryPoint | deadline against interval, 128-bit halves, lost answers |
| `aa/kernel.ts`, `recovery.ts`, `webauthn.ts`, `address.ts`, `eoa.ts` | none | encodings, nonces, signatures, install data | Kernel and its modules on chain | field widths, low-s, one guardian written twice |
| `react/hooks.ts` | component state | connect, disconnect, fetch, deploy, execute | CitrateClient | late answers, overlap with disconnect |
| `memory/client.ts`, `gateway/client.ts` | request id | one HTTP request per call | service | none of note |
| `utils/validation.ts`, `transport.ts` | none | predicates | all clients | bounds |

What makes each part correct: a WebSocket call settles once, with its own reply, and a lost
connection is replaced while attempts remain; nothing is sent or read from a contract before every
endpoint has shown the expected genesis; what was to be encrypted never leaves in plaintext; a batch
accounts for each input; an RPC call ends with the first answer there is; a refund claim reverts
only for a reason the caller could not see; a session stays its user's and is not lost without a
cause, and a claim never gives more than it did before it expired; a quorum of holders recovers a model key, fewer
learn nothing, and only the holder named opens a share; no share is published; a user operation runs under
the validator and sequence it was built for and reaches the chain as it was signed; a component shows what belongs to
the client and model it was last rendered with.

## 2. Modules

| Module | Models |
|---|---|
| `CallContract` | abstract: what `sendMessage` promises its callers, without sockets, timers or tables |
| `WebSocketClient` | the connection and RPC part of `WebSocketClient.ts`; implements `CallContract` |
| `NetworkGuard` | `assertGenesis` and the single-flight cache; extended by its two clients |
| `CitrateClient` | deployModel, inference, batchInference behind the guard |
| `ComputeRefunds` | views and claims behind the guard, with the contracts as environment |
| `IdToken` | `verifyIdToken` as a decision on a token, a set of keys and a clock |
| `IdentitySession` | overlapping calls of an `IdentityClient`, with the authority and the application's session as environment |
| `RpcFailover` | `rpcCall` and the axios response interceptor |
| `Entitlements` | `capabilities.ts` as functions of a claim, a clock and the overrides; extended by `IdentitySession` |
| `GaloisField`, `SecretSharing` | `FiniteField.ts`: arithmetic in GF(2^8), splitting, reconstruction and verification of shares |
| `KeyManager` | models encrypted and their keys shared, over `SecretSharing` and symbolic ciphers |
| `ShareGuard` | the scan of `shareGuard.ts` |
| `ModelDeployment` | what `deployModel` publishes: validators, metadata objects, share guard, endpoints behind the provider |
| `KernelEncoding` | nonces, packed operations, wire form, signatures, for any width of their fields |
| `UserOperation` | operations built, signed, sent, executed and waited for, over `KernelEncoding` |
| `AccountModules` | the calldata of `kernel.ts` and `recovery.ts`, and what Kernel's modules read from it; extends `UserOperation` |
| `ReactHooks` | `useCitrateClient`, `useModelInfo` and `useInference` in one component |
| `MC*` | model values, symmetry and the batches, inputs and functions the `.cfg` files use |
| `*_proofs` | the theorems: `NetworkGuard_proofs` those of the guard and of its two clients, `KeyManager_proofs` also those of `GaloisField` and `SecretSharing`, `UserOperation_proofs` those of the three modules of account abstraction, the others those of the module they are named after |

### WebSocketClient

Each `WebSocket` object is one element of `Sockets`, with the handlers `connect` attached to it for
life, also after `this.ws` has moved on. `readyState` follows the runtime's rules (an error is
followed by an unclean close; closing a socket during its handshake fails it). One action per
handler: `OnOpen`, `OnError`, `OnClose`, `ConnectTimeout`, `ReconnectTimer`, `RequestTimeout`,
`Response`; and per call of the application: `Connect`, `Disconnect`, `SendMessage` and, where
serialisation fails, `SendThrows`. The ping interval is a flag, plus one for an interval whose
handle was overwritten. The server may answer twice or never; replies reach the client over any open
socket. A constructor that throws does so for the URL, and then at every call: such a client
keeps the state it was made with and is left out. `Disciplined` restricts the application: it calls `connect()` only when no socket is left
and no reconnect is scheduled, never disconnects, and its handshakes end within the timeout.
The invariants of the ping and reconnect timers hold for that application and no other; section 6 says what
the general one meets. `Contract` at the end of the module instantiates `CallContract` with the client's own
`callState` and `answer`.

### NetworkGuard

`networkCheck` is the promise in the slot by its state; `caller` says where each operation stands
(idle, waiting, cleared, refused); `block0` is the read of each endpoint in the latest check. As with
`Promise.allSettled`, the check ends when the last read has settled, and then for everybody at
once. `reported` is history: who has ever shown the right genesis. The state `failed` is there
so that the code's `catch`, which empties the slot, is a choice that can be got wrong. `ReadTimeout`
distinguishes `CitrateClient`, which passes `timeoutMs`, from `ComputeRefunds`, which does not.

### CitrateClient

An operation's `pc` is the `await` it has passed. `Start` and `BatchInference` are the synchronous
beginnings (wallet, validators, encryption possible), `Prepare` covers hashing, encryption,
upload and the share check, `Guard` is `await this.verifyNetwork()`, `Populate` and `Broadcast`
are the two halves of ethers' `sendTransaction` (nonce read, then broadcast), `Mined` is
`tx.wait()` and the reading of the receipt. The chain accepts only the next nonce. A
batch's inputs run as operations of their own; `EndChunk` is the end of one round of the loop.
Contents of payloads, gas and times are left out: `sealed` says whether a payload was encrypted.

### ComputeRefunds, RpcFailover

A claim goes through signer test, guard, `getAddress`, the owed view, the test for zero and the
send, each a step; `Execute` and `Credit` are the contracts. They pay what they owe, a training job's refund only to the
job's requester (`Entitled`), who need not be the signer: the client looks at the amount alone. In `RpcFailover` what an
endpoint does with the call is fixed at the start, from seven kinds of reply.

### IdToken, IdentitySession

A token is a record of what `verifyIdToken` looks at; whether it is signed by a key is its `signer`, and
iss and aud together are one flag. The client's state is its two caches. A discovery document
is the issuer it names and, independently, the place of its endpoints: `home` (the pinned issuer's hosts), `plain` (remote
http://) or `away` (any other host the transport policy lets through). The code compares the issuer it names and the scheme, and no hosts, so a document
that names the pinned issuer with endpoints away is cached and followed; `strayed` records that, and `ServeAway` is what the host it names may answer,
keys of its own included. A call's `pc` is the
`await` it has reached: `discover`, `request`, then, where an ID token came, `keyDiscover` and `keys`
(the fetches inside `getJwks`). Code between two awaits is one action, so what is found in a cache is
used in the same step, while an overlapping fetch overwrites it later. `Finish` is `verifyIdToken` with
what follows up to the caller; the application holds one session and adopts what a sign-in or a refresh
returns. The authority serves a request in a step of its own: refresh tokens rotate there, and the answer
may get lost after that (`RequestFails`, `KeysFail`). It may answer with tokens that are wrong in one respect or were
minted for another call. `owner` is the user behind each refresh token, so the chain back to the
sign-in is in the state. `siweChallenge` and the three `aa/` routes are one kind of call, without discovery.

`Entitlements` takes a claim or none (`NoClaim`), a clock, the relying party's overrides and the table of registered roles.
At this commit `ROLE_CAPABILITIES` is empty; a table with an entry is tried beside it, as its comment invites relying parties to register roles.

### GaloisField, SecretSharing, KeyManager

A byte is the set of its one bits, so `^` is symmetric difference and a mask a membership test; the loops of
`multiply`, `power` and `evaluatePolynomial` are functions of the round, and `power` ends after eight, its exponent being 254.
The sums and products of `lagrangeInterpolation` are folds over the points. Shares are computed, not assumed. Ciphers are symbolic: a sealed box
is a record of key and content, the ECDH point of two parties the set of the two, a derived key a record of what
went into it, so binding a key to both endpoints in order is visible. `EncryptModel` plans first, as the code does;
`HandOver` is a holder who unwraps a share and passes it on, perhaps twice; `collected` is what the one who
recovers holds. `reconstructKeyFromShares`, `decryptModel` and `verifyShares` change no state and appear in the properties.

### ShareGuard, ModelDeployment

A payload is the path that leads through it to what matters: the guard throws on a payload if it throws on one path.
The steps of a path are the ones the scan treats differently; what the scan meets is said of the positions of a path. `ModelDeployment` leaves the wallet to
`CitrateClient` and follows contents instead: `Call` is `deployModel` up to the hash, `Upload` encryption and
IPFS, `Serialise` all that lies between that await and the next (the write into the caller's metadata object included),
`Verify` and `Send` the rest. The provider is a graph, and `Ways` are the walks of `endpointsOf` through it, up to one past the nesting limit.

### KernelEncoding, UserOperation, AccountModules

A word is a number and a byte string a sequence of digits; the widths are constants, small in TLC and arbitrary in the
proofs, and tied to one another as in the code: an address is `AddressBytes` digits, half a word `HalfBytes`. Two flows build, sign and send operations; the bundler may lose a request or its answer, `Mine` executes
what has its turn, and the wait of `bundler.ts` polls it: `Look` is the bundler reading, `Receive` the client
getting the answer, so an operation executed in between is seen a poll later. `Tick` lets time pass unless a timer is due
or a request has reached its timeout. `AccountModules` reads calldata back as Kernel's modules do. Its sets
`Calls`, `Executes`, `Configs` and `States` are the shapes of what the encoders return and the chain stores; they are
there to say that `Error`, which stands for what is thrown or reverts, is none of these.

### ReactHooks

A client is named by the `connect()` that made it and a result by the client and model it was asked for. Effects are
actions enabled when their dependencies differ from those they last ran for. Each continuation after an await is an
action; nothing cancels it, as in the code. `inOrder`, fixed at the start, says whether the requests of a kind (chain id, balance,
model, inference) are answered in the order they were made; answers of different kinds overtake each other either way.

## 3. Runs

| Run | Instance | Shows |
|---|---|---|
| `ws_disciplined` | 3 sockets, 3 reconnects | one socket, one ping interval, a retry loop that ends connected or exhausted |
| `ws_settles` | 2 sockets, any application | `connect()` settles once the network ends every handshake |
| `ws_contract` | 2 sockets, 2 calls, any application | no wrong reply, disconnect leaves nobody waiting; `CallContract` is implemented, liveness included |
| `ws_disconnect` | 2 sockets | violation, section 6 |
| `citrate_sends` | deployment and batch of 3 in chunks of 2, 2 endpoints, at most 1 refused operation | safety of sending; the batch's accounts; every batch ends |
| `failover_answers` | 3 endpoints, 5 kinds of reply | first answer wins, the call ends |
| `refund_claims` | 2 claims of one refund, a view of another, 2 endpoints | guard covers every use; a claim reverts only for a rival, or a signer who is not the job's requester |
| `identity_calls` | 2 calls of any kind, 2 users, 2 signing keys, clocks apart by the tolerance | where credentials go; of a client not led away, whose session it is and what strands it; what a claim allows; when a right token is refused |
| `key_shares` | 2 models, 4 parties, 9 plans, 2 keys of 2 bytes, 3 shares handed over | a quorum recovers, verified shares are unambiguous, one share says nothing, nobody is a quorum alone, readers are named |
| `user_operations` | 2 flows, 5 kinds of operation at and beyond every limit, sequence space of 4 | routes, wire form, signature, budget of the wait, recovery by guardians |
| `react_hooks` | 2 option objects, 2 models, 3 connects, 3 calls | with the answers of each kind in order, what is shown belongs together and is the latest; in any order, spinners stop |
| `deployments` | 2 deployments, 5 configurations, 37 payloads, 9 providers, depth limit 3 | no share is published, metadata fit the data, nothing goes to an endpoint that was not checked |

Bounds. Two sockets are what a stale event needs (one replaced, one current); three let a disciplined
client go through drops in a row. Two calls suffice for a reply to reach the wrong one. Two
endpoints give a check with one good and one bad read; a batch of three in chunks of two has a full
and a short chunk; `MaxInvalid` 1 gives each single refused operation. `MaxTimers` bounds reconnect
timers outstanding at once, `MaxCredits` the contracts' credits. In `identity_calls` two calls give each overlap
of cache, rotation and refresh; the clocks differ by exactly the tolerance, either way, which is where the comparisons bite.
The constraint `Explored` stops where a client led away from the issuer has got a token: what it does then only the theorems cover. Its
tables of roles are the empty one and one with an entry.
In `key_shares` the keys have bytes with the high bit, the low bit and none, and coefficients with and without them;
`MaxCollected` 3 is a quorum and a surplus share of a two-of-three plan, or shares of two models mixed. The widths of
`user_operations` put every field within a step of its limit: `FirstSequence` 2 of 4 lets sequences run out, the odd
order 509 has an r of one byte and of two, and with interval 2, budget 3 and delay 1 the second poll falls before the deadline
or on it, and its answer perhaps behind it; `MaxTime` 5 lies beyond the last instant a wait may end at. In `react_hooks` `MaxConnects` 3 lets a client be replaced twice while its
first connection is still being made, `MaxCalls` bounds what the application does, effects apart. The payloads of `deployments` reach one level past the depth limit,
its providers the nesting limit; `Limits` stands for `MODEL_LIMITS`, with configurations at each bound and one beyond.
No other counter is cut: ids and nonces are bounded by the number of calls, each made once. Symmetry is used where only
safety is checked, for calls and users in `identity_calls` and for flows in `user_operations`.

Fairness. `WebSocketClient!Fairness` is what the event loop gives: a set timer fires, a failed socket
delivers its close. `NetworkFairness` adds that handshakes end; only `ConnectSettles` and `Recovers`
use it. `ImplementsCallContract` needs timers alone. `CitrateClient!Fairness` assumes the guard's
timers, the event loop, and that the node ends each request it was sent, `tx.wait()`
included: the code sets no limit on mining. `BatchEnds` needs no answer from an endpoint in the
guard. `RpcFailover` assumes each post ends, which the axios timeout ensures. There is no liveness
property of `ComputeRefunds` or `IdentitySession`: without a timeout none holds. `SpinnersStop` and
`WaitKeepsItsBudget` say the same of hooks and waits by what they wait for and by the clock.

Deadlock is checked in the runs of the WebSocket, Citrate, failover, refund and identity clients: where the application's
calls are finished (`Terminated`) they stutter explicitly. It is not in `key_shares`, `user_operations`, `react_hooks` and
`deployments`, where an application that makes no further call, or has used up its bound, simply stops.

Every property of a passing run has a mutant in `PROJECT.json`: a plausible wrong form of one mapped
definition, kept beside it in the module, under which TLC finds the property violated.

## 4. Proofs

All theorems are proved by TLAPS (SMT, Zenon, LS4) for every value of the constants, from the named
assumptions beside them, which say no more than that sets and numbers are what they should be.

* `WebSocketClient_proofs`. `CallInv` strengthens the call invariants: ids are fresh, an id on the
  wire and in the table names the same call, and the table is empty without a socket. It is
  needed because `OwnAnswer` alone does not survive a reply to an id that was reused. From it follow
  `NoCallerIsLost`, `AnswersMatchCalls` and `DisconnectSettlesCalls`. `DisciplinedInv` does the same for
  the disciplined application (at most one timer or one live socket, and which of them pings).
  `ClientImplementsContract` is the safety part of the refinement: each step is a step of
  `CallContract` or leaves the calls alone.
* `NetworkGuard_proofs`. `GuardInv` ties the slot to the reads (running exactly
  while a read is out, passed only after all endpoints reported) and to the callers; each of the
  three guard steps keeps it, and no other step of either client touches it.
  For `CitrateClient`, `SendInv` says what holds of an operation
  by the time it signs: cleared, sealed if it had to be, its batch accepted. Together they give
  `NeverSentUnverified`, `ConfidentialStaysSealed`, `InvalidBatchIsSilent`; `ChunksDoNotOverlap` and
  `TypeCorrect` carry the arithmetic of the chunks for any batch and chunk size. `LoopInv`: what is behind
  the loop has settled, what is ahead of it is idle. `ListsInv`: the two lists hold, once each, exactly the inputs that
  have settled. The first is needed because a chunk that started an input a second time would break the second. From both
  follow `ProgressTellsTheTruth` and `BatchesAccount`.
  For `ComputeRefunds`: who has used a contract was cleared (`NeverUsedUnverified`); a claim that has
  read its refund still finds it unless a rival was paid, so one that reverts was overtaken or not entitled (`RevertsHaveCause`).
* `IdentitySession_proofs`. `IInv` ties the application's session to the authority's books: a session ever held was brought by
  a call that ended well (`Adopted`) and its owner no longer changes; a token with a call's nonce is for that call's
  user (`TokenOK`); what was handed out is valid or has been spent by a request that can be named (`SpentOK`).
  `DocsOK` says that what the cache holds is away only if a document has led there (`OnlyTheIssuerRedirects`); the books are tied to the session
  for a client that was not led away, and nothing is claimed of the session of one that was.
  `StepCases` reduces the steps to five kinds, and each part of `IInv` is kept by each kind. `RefusalHasCause` is an
  action property: there the arithmetic of iat, exp, nbf, skew and tolerance is done for all values.
  `CapabilitiesFailSafe` is about `Entitlements` alone and needs no induction: for any set of claims, any overrides and any
  tables of roles, tiers and roles being arbitrary strings (`EntitlementsAssumption`), at every instant.
* `RpcFailover_proofs`. `WalkInv`: the endpoints passed over gave no answer. `FirstAnswer` assumes, as its
  hypothesis `PlainNodes`, that no node begins a message with the client's own prefix; section 6 says what happens otherwise.
* `KeyManager_proofs`. `EnvelopesOK`: an envelope of a model is determined by its holder, and no model has any before it is
  encrypted. `Wrapped` numbers the envelopes as the plan names the holders, `AcceptedPlans` says these are different
  parties however their keys are written; so another party opens one share at most, and an accepted plan needs two (`NobodyRecoversAlone`).
  `MetadataAssumption` only keeps None apart from what encryptModel returns.
  `NamedReadersOnly` rests on `SealingOK`: every envelope is what `EncryptData` makes of some share for the
  holder it names, and every model's data and key are sealed for its owner. As a derived key names its salt and both parties in order (`KeyBinds`),
  an envelope with a field changed is opened by nobody (`ChangedIsUseless`). `ErrorAssumption` keeps
  what is thrown apart from keys, models and shares.
* `KeyManager_proofs`, secret sharing. Four layers, each a section of the module. *Field*: the rounds of `multiply` respect addition and
  `XTime` on either side, and functions that do are determined by their value at one (`CyclicExtension`), so multiplication
  commutes and associates. Squaring respects both operations and comes back after eight times (`EightSquares`, bit by bit);
  a to the 254 is the product of seven squares, whence `InverseWorks`. No table of the 256 bytes is enumerated. *Folds*: `Sum` and `Product` may
  take their elements in any order (`AnyFirst`; the recursion behind `MapThenFoldSet` is shown to have a solution, `FoldExists`).
  *Polynomials*: `Poly(n)` are the functions that n coefficients compute; a root divides off (`PolyDivides`), so one with as
  many roots as coefficients is zero (`Roots`) and two that agree at that many points are the same (`PolyAgree`). `Lagrange` says that
  interpolation is such a polynomial and goes through its points. *Shares*: `SharesOK` is the inductive invariant, that all shares of a model,
  sealed or handed over, lie on one polynomial per byte of its key. From it follow `QuorumsRecover`
  and `OneShareIsNotEnough`; `VerifiedSharesAgree` needs only that what is handed over are points, wherever they lie. `FewerSharesSayNothing` goes beyond
  what TLC could enumerate: below any threshold, the shares handed over are what any other key would have given, for coefficients that
  interpolation through zero finds (`PolyHasCoefficients`). `SecretsAssumption` says that keys are bytes, of one length, and
  that there is a random byte for every coefficient.
* `ModelDeployment_proofs`. `PayloadInv`: from upload on a deployment's encryption is its own, an object's encryption metadata
  are of a deployment that was given this object, and what was serialised has been scanned (`ScannedIsClean`: a payload the
  guard lets through holds no share, however deep and whatever the limit, since what lies too deep is refused and not skipped). `SharesStaySecret` and `MetadataFit` follow; the
  middle part is needed because two deployments may share an object. `CheckInv`: who is past the network check was let
  through by one that covered every endpoint of the provider; `EndpointsCover`, about the walks through any provider graph, cycles included,
  makes it `NobodyIsLeftOut`. `ProvidersAssumption` says that edges lead to nodes, `ContentsAssumption` that payloads are paths.
* `ReactHooks_proofs`. While nothing was interrupted, a run of `connect()` that waits for the balance is the only one and its chain
  answer is the one shown, and a run that ended well has shown all its answers (`ConnectionInv`): `ConnectionsAreWhole` alone
  says nothing of the await in between. `LatestInv`: the last request in flight, or else the last answer, is what
  the effect last asked for; from it `LatestIsWhatShows`, for queues of any length. `SpinnersAreStopped` is inductive next to the types.
* `UserOperation_proofs`, arithmetic. Two fields, one above the other, come apart again (`Fields`, `DivideTwice`); five of them make
  a nonce (`ValidatorNonceDecodes`), for every width. With `NonceInv` (an operation that is not built has none,
  although a failed build has changed `want`) this is `NoncesRouteAsMeant`. `WaitInv` bounds request, sleep and deadline by the clock
  in each phase, whence `WaitsKeepTheirBudget` for every interval, timeout and delay. `HalvesComeApart` and
  `LowSIsCanonical` state the arithmetic of `packUint128Pair` and `normalizeP256S`.
* `UserOperation_proofs`, bytes. `Power` and `ToNumber` are recursive functions on Nat, so what they compute is proved by induction over a
  set: `NatSetInduction` (a set of numbers with 0 and successors is Nat) and `Recursion` (such a function exists) are first-order and
  follow from the well-foundedness of < on Nat. They give `BytesRoundTrip`, that a number and its bytes determine each other, for every radix
  and length. On it rest `WireComesBack` (factory, paymaster and halves are read back from the wire form) and
  `SignatureComesBack` (r and s survive DER and the reduction to low s). `WireInv` says that everything in the pool is the packed form of
  its flow's operation with the signature made over it, `PasskeyInv` the like of a signature and its challenge: together
  `WireFormsAreFaithful` and `PasskeySignaturesVerify`. `ScalarsAssumption` says that r and s lie in the group and that the
  order is at most as long as P-256's, which is what lets DER write lengths in one byte.
* `UserOperation_proofs`, recovery. `GuardiansAreRead`: the module reads back exactly the guardians and the threshold the data were made of,
  for any list of addresses and any threshold, or building them throws. `RootIsSet`, `RecoveryIsInstalled`
  and `GuardiansAreInstalled` carry this through the calldata of one call and of two, `RotationIsMade` through the rotation, and
  `ThresholdSigns` through the guardians' approvals (`DistinctCount`: no guardian counts twice, however written). Hence
  `GuardiansRestoreAccess`, at every sequence number the EntryPoint can have come to (`SequenceInv`, kept because an operation past the last one cannot
  be built). The guardians, accounts and keys it tries are those of `AccountModules`, up to eight guardians; the
  widths of their fields are arbitrary. `AccountAssumption` keeps `Error` apart and asks that the addresses it tries fit an address.

Only model-checked:

* All liveness (`Recovers`, `ConnectSettles`, `BatchEnds`, `CallEnds`, the fairness half of the refinement): the prover
  reasons neither about fairness nor about ENABLED.

Every invariant and every action property that a run checks is stated by a theorem. What the theorems about secrecy say is what remains
possible, not how likely it is.

## 5. Not modelled, and the plan

Left out for good: ciphers and hashes themselves, ABI and text encodings, the derivation of addresses, HTTP details, generated data,
scripts, tests, examples: they keep no state a model would tell apart. `gateway/client.ts` and `memory/client.ts` send one request
per call; `identity/wallet.ts` builds texts. Reads that only reshape an answer (`getBalance`, `getModelInfo`, `chainId`,
`estimateUserOperationGas`) are not actions.

Left out so far, in the order in which they would be worth having:

1. The streams and subscriptions of `WebSocketClient.ts`, listeners on top of `CallContract`: the hazard at
   line 219 has no property yet.
2. `validateInferenceRequest` with the bounds of its fields, as `Valid` is for deployments.

## 6. What the checks found

* `ws_disconnect`: after `disconnect()` an outstanding reconnect timer, or the unclean close of a socket
  closed during its handshake, opens a connection again.

The following came up while modelling; no run reports them. All are behaviour the models have, and the properties are stated
so as to allow it, with two exceptions: the kinds of reply of `failover_answers` leave the retried JSON-RPC error out, and the
configurations tried in `user_operations` the malformed guardians.

* `isConnecting` belongs to the client, not to an attempt (`WebSocketClient.ts:109`). The timeout of one `connect()` can be
  spent on another attempt's flag, and then the other's own timeout rejects nothing: its promise stays pending
  while the handshake hangs. (For the same reason events of an old socket let a second handshake start.)
* Without `parallel` the inputs of a chunk still run concurrently (`CitrateClient.ts:481`), and so compete for one nonce.
* A node's JSON-RPC error that starts with "Network error:" is retried elsewhere (`CitrateClient.ts:627`).
* Two overlapping claims of one refund can send a transaction that reverts (`refunds.ts:188`). So does the claim of a training
  refund by a signer who is not the job's requester: the client looks at the amount owed, which is the requester's, and leaves the rest to the contract
  (`refunds.ts:231-232`, `tests/integration/r2_compute_refunds_anvil.test.ts:95`). `RevertHasCause` names these two and excludes any other.
* `README.md:148` says that, the issuer being pinned, "a spoofed discovery document can't redirect tokens elsewhere". The code compares
  `doc.issuer` (`identity/client.ts:167`), which the document itself states, and takes its endpoints as they are; `transport.ts` looks at
  their scheme. What protects them is that the document is fetched from a pinned https URL. `CredentialsFollowIssuer` therefore says only that a document naming another issuer
  redirects nothing, and `SessionKeepsSubject` and `SpentOnlyByRefresh` speak of a client that was not led away.
* The comment at `capabilities.ts:89` says that a role-bearing principal (admin, auditor, exec) "bypasses the KYC/content gates". The code, the
  comments at lines 62-76 and 107 and the tests (`tests/unit/entitlements_capabilities.test.ts:52`) have it otherwise: a role counts only when it is
  registered in `ROLE_CAPABILITIES`, which is empty, and then gives its entry in place of what the tier gives. The comment describes the rule before that; `EntitlementsFailSafe` follows the code.
* An unencrypted deployment that is given the metadata object of an encrypted one publishes that one's encryption metadata
  (`CitrateClient.ts:312`); `MetadataFitData` allows it for the same object only.
* A role named like an inherited property of objects ("constructor") takes away what the tier gives (`capabilities.ts:120`).
* `isConnected` stays true when the options change and connecting with the new ones fails, and a balance of the earlier client stays with it
  (`hooks.ts`, `useCitrateClient`); `disconnect()` during `connect()` is undone when the awaited answers arrive.
* Nothing tells a late answer from the current one (`hooks.ts:245`; `:148` and `:196` alike): a fetch for an earlier model or client that ends last
  overwrites the result of the current one, and its `finally` clears `isLoading` while the current one still runs. `LatestIsShown` and the
  first half of `ConnectionIsWhole` are about answers in order, and `SpinnersStop` does not ask that a spinner runs for as long as something is pending.
* A later client without a wallet leaves the balance of the earlier one in place (`hooks.ts:76`): `ConnectionIsWhole` asks for the balance only where there is a wallet.
* One failed poll ends `waitForUserOperationReceipt`, although the operation may be mined (`bundler.ts:151`): the error is the caller's.
  `WaitKeepsItsBudget` allows it.
* The close event of a WebSocket the client has replaced clears `isConnecting`, stops the ping of the current connection and schedules a reconnect
  (`WebSocketClient.ts:85`), and two sockets that open without a close in between leave a ping interval without a handle (`:332`). Only an application that is not
  `Disciplined` meets either.
* `results` of a batch come in the order in which the inputs settled and do not name their input (`CitrateClient.ts:496`).
* `guardianInstallData` tests neither the length of an address nor that the threshold is an integer (`kernel.ts:294`).

The cause `RefusedForCause` names is reachable and lasts. The JWKS
are cached for the life of the `IdentityClient`, so after the authority retires a key every right token is refused until a
new client is made; and since the authority has rotated the refresh token by then, the session is lost with it
(`SpentOnlyByRefresh` lists that case).
