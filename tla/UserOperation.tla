---------------------------- MODULE UserOperation ----------------------------
(***************************************************************************)
(* src/src/aa: an application builds user operations for one account,      *)
(* signs them, hands them to the bundler and waits for their receipts      *)
(* (bundler.ts).  The EntryPoint, the bundler's pool and the authenticator *)
(* are external.  Time is counted in the unit of the constants.            *)
(***************************************************************************)
EXTENDS KernelEncoding

CONSTANTS
    Flows,          \* the operations the application makes, side by side
    Wants,          \* what it may want of one: route, gas, factory, paymaster
    Scalars,        \* the pairs r, s an authenticator may return
    FirstSequence,  \* how many operations the account has behind it on every route
    PollInterval,   \* pollIntervalMs
    WaitBudget,     \* timeoutMs of waitForUserOperationReceipt
    MaxDelay,       \* the timeout of one HTTP request
    MaxTime         \* bound on the clock

\* The EntryPoint counts in the 64 bits of a nonce.
ASSUME TimeAssumption ==
    /\ {PollInterval, WaitBudget, MaxDelay, MaxTime} \subseteq Nat
    /\ FirstSequence \in 0 .. SequenceSpace

\* Factories and paymasters are addresses.
ASSUME WantsAssumption ==
    \A w \in Wants : {w.factory, w.paymaster} \subseteq (0 .. AddressSpace - 1) \cup {None}

\* The length of a DER signature of this order fits one byte, whatever its form; 33 is P-256's.
ASSUME ScalarsAssumption ==
    /\ Scalars \subseteq (1 .. Order - 1) \X (1 .. Order - 1)
    /\ \E k \in 1 .. 33 : 2 * Order <= Power[k]

VARIABLES
    phase,      \* per flow: how far it is
    want,       \* per flow: what was wanted, and at which sequence
    op,         \* per flow: the PackedUserOperation, unsigned
    signature,  \* per flow: op.signature
    sequence,   \* EntryPoint: the next sequence, per route
    pool,       \* bundler: the wire forms received
    minedAt,    \* EntryPoint: when the operation of a flow was executed
    clock,
    deadline,   \* per flow: of its wait
    timer,      \* per flow: when its request was sent, or when its sleep ends
    receipt     \* per flow: what the bundler saw when it answered the last poll

building == <<want, op, signature>>
waiting == <<deadline, timer, receipt>>
vars == <<phase, building, sequence, pool, minedAt, clock, waiting>>

Route(w) == <<w.validator, w.nonceKey>>
Routes == {Route(w) : w \in Wants}

Init ==
    /\ phase = [f \in Flows |-> "idle"]
    /\ want = [f \in Flows |-> None]
    /\ op = [f \in Flows |-> None]
    /\ signature = [f \in Flows |-> None]
    /\ sequence = [r \in Routes |-> FirstSequence]
    /\ pool = {}
    /\ minedAt = [f \in Flows |-> None]
    /\ clock = 0
    /\ deadline = [f \in Flows |-> 0]
    /\ timer = [f \in Flows |-> 0]
    /\ receipt = [f \in Flows |-> FALSE]

Goto(f, p) == phase' = [phase EXCEPT ![f] = p]
-----------------------------------------------------------------------------
Nonce(w, n) ==
    IF w.validator = None THEN RootValidatorNonce(n)
    ELSE LET key == ValidatorNonceKey(w.validator, w.nonceKey)
         IN  IF key = Error THEN Error ELSE ComposeNonce(key, n)

InitCode(w) == IF w.factory = None THEN <<>> ELSE PackInitCode(w.factory, <<7, 9>>)

PaymasterAndData(w) ==
    IF w.paymaster = None THEN <<>>
    ELSE PackPaymasterAndData(w.paymaster, w.paymasterGas, w.paymasterGas + 1, 1)

\* The operation for w at sequence n, or Error if any of its parts does not fit.
Packed(w, n) ==
    LET built == BuildPackedUserOp(
            [nonce |-> Nonce(w, n), initCode |-> InitCode(w), callData |-> w.validator,
             callGasLimit |-> w.callGas, verificationGasLimit |-> w.verificationGas,
             preVerificationGas |-> 5, maxFeePerGas |-> w.maxFee, maxPriorityFeePerGas |-> 1,
             paymasterAndData |-> PaymasterAndData(w)])
    IN  IF Error \in {built.nonce, built.accountGasLimits, built.gasFees}
             \/ built.paymasterAndData = Error
        THEN Error ELSE built

\* The application reads the sequence of a route, or counts on from one it has used before.
Build(f, w, ahead) ==
    LET n == sequence[Route(w)] + ahead
    IN  /\ phase[f] = "idle"
        /\ want' = [want EXCEPT ![f] = [w |-> w, sequence |-> n]]
        /\ IF Packed(w, n) = Error
           THEN Goto(f, "failed") /\ UNCHANGED op
           ELSE Goto(f, "built") /\ op' = [op EXCEPT ![f] = Packed(w, n)]
        /\ UNCHANGED <<signature, sequence, pool, minedAt, clock, waiting>>

\* What an authenticator returns: both numbers as short as DER allows, without a sign bit.
DerInteger(n) ==
    LET length == CHOOSE k \in 1 .. 33 : 2 * n < Power[k] /\ (k > 1 => 2 * n >= Power[k - 1])
    IN  <<2, length>> \o ToBytes(n, length)

DerSignature(r, s, longForm) ==
    LET body == DerInteger(r) \o DerInteger(s)
    IN  <<48>> \o (IF longForm THEN <<129>> ELSE <<>>) \o <<Len(body)>> \o body

\* signUserOpWithPasskey: the client data carry a challenge, and must carry this operation's.
SignWithPasskey(f, r, s, longForm, challenge) ==
    LET parsed == ParseDerEcdsaSignature(DerSignature(r, s, longForm))
    IN  /\ phase[f] = "built"
        /\ IF parsed = Error \/ challenge # op[f] \/ NormalizeP256S(parsed.s) = Error
           THEN Goto(f, "failed") /\ UNCHANGED signature
           ELSE /\ Goto(f, "signed")
                /\ signature' = [signature EXCEPT ![f] =
                       [challenge |-> challenge, r |-> parsed.r, s |-> NormalizeP256S(parsed.s),
                        made |-> <<r, s>>]]
        /\ UNCHANGED <<want, op, sequence, pool, minedAt, clock, waiting>>

\* signUserOpWithEoa, and the signatures of guardians.
SignOtherwise(f) ==
    /\ phase[f] = "built"
    /\ Goto(f, "signed")
    /\ signature' = [signature EXCEPT ![f] = [challenge |-> op[f]]]
    /\ UNCHANGED <<want, op, sequence, pool, minedAt, clock, waiting>>

\* The request may be lost, and so may its answer; then the caller may send the same operation
\* again.  The bundler may also refuse it.
Send(f, arrives, outcome) ==
    LET wire == ToRpcUserOperation(op[f])
    IN  /\ phase[f] = "signed"
        /\ Goto(f, IF wire = Error THEN "failed" ELSE outcome)
        /\ outcome = "sent" => arrives
        /\ pool' = IF wire # Error /\ arrives THEN pool \cup {[wire |-> wire, of |-> f]} ELSE pool
        /\ UNCHANGED <<building, sequence, minedAt, clock, waiting>>

\* A bundler executes what it has when the EntryPoint's sequence has come to it.
Mine(p) ==
    LET route == Route(want[p.of].w)
    IN  /\ minedAt[p.of] = None
        /\ DecodeNonce(p.wire.nonce).sequence = sequence[route]
        /\ sequence' = [sequence EXCEPT ![route] = @ + 1]
        /\ minedAt' = [minedAt EXCEPT ![p.of] = clock]
        /\ UNCHANGED <<phase, building, pool, clock, waiting>>
-----------------------------------------------------------------------------
Ask(f) == Goto(f, "asking") /\ timer' = [timer EXCEPT ![f] = clock]

StartWait(f) ==
    /\ phase[f] = "sent"
    /\ Ask(f)
    /\ deadline' = [deadline EXCEPT ![f] = clock + WaitBudget]
    /\ UNCHANGED <<building, sequence, pool, minedAt, clock, receipt>>

\* The bundler looks for the receipt; its answer is on the way.
Look(f) ==
    /\ phase[f] = "asking"
    /\ Goto(f, "answered")
    /\ receipt' = [receipt EXCEPT ![f] = minedAt[f] # None]
    /\ UNCHANGED <<building, sequence, pool, minedAt, clock, deadline, timer>>

\* Mutated form: gives up when the next poll would fall on the deadline.
NoTimeLeftEarly(f) == clock + PollInterval >= deadline[f]

NoTimeLeft(f) == clock + PollInterval > deadline[f]

\* One turn of the loop of waitForUserOperationReceipt.
Receive(f) ==
    /\ phase[f] = "answered"
    /\ \/ receipt[f] /\ Goto(f, "receipt") /\ UNCHANGED timer
       \/ ~receipt[f] /\ NoTimeLeft(f) /\ Goto(f, "timeout") /\ UNCHANGED timer
       \/ /\ ~receipt[f] /\ ~NoTimeLeft(f)
          /\ Goto(f, "sleeping")
          /\ timer' = [timer EXCEPT ![f] = clock + PollInterval]
    /\ UNCHANGED <<building, sequence, pool, minedAt, clock, deadline, receipt>>

\* An error of one poll, of HTTP or of JSON-RPC, ends the wait.
PollFails(f) ==
    /\ phase[f] \in {"asking", "answered"}
    /\ Goto(f, "failed")
    /\ UNCHANGED <<building, sequence, pool, minedAt, clock, waiting>>

Wake(f) ==
    /\ phase[f] = "sleeping" /\ clock = timer[f]
    /\ Ask(f)
    /\ UNCHANGED <<building, sequence, pool, minedAt, clock, deadline, receipt>>

\* Timers fire when they are due, and no request outlasts its timeout.  Time that passes while
\* nobody waits is of no account.
Tick ==
    /\ clock < MaxTime
    /\ \E f \in Flows : phase[f] \in {"asking", "answered", "sleeping"}
    /\ \A f \in Flows :
         /\ phase[f] = "sleeping" => clock < timer[f]
         /\ phase[f] \in {"asking", "answered"} => clock < timer[f] + MaxDelay
    /\ clock' = clock + 1
    /\ UNCHANGED <<phase, building, sequence, pool, minedAt, waiting>>

Next ==
    \/ \E f \in Flows, w \in Wants, ahead \in 0 .. 1 : Build(f, w, ahead)
    \/ \E f, g \in Flows, rs \in Scalars, longForm \in BOOLEAN :
         op[g] # None /\ SignWithPasskey(f, rs[1], rs[2], longForm, op[g])
    \/ \E f \in Flows : SignOtherwise(f) \/ StartWait(f) \/ Look(f) \/ Receive(f) \/ PollFails(f) \/ Wake(f)
    \/ \E f \in Flows, arrives \in BOOLEAN, outcome \in {"sent", "signed", "failed"} : Send(f, arrives, outcome)
    \/ \E p \in pool : Mine(p)
    \/ Tick

Spec == Init /\ [][Next]_vars
-----------------------------------------------------------------------------
\* What Kernel and the EntryPoint read out of an operation's nonce is the validator, the key and
\* the sequence it was built for, at the limits of every field too.
RoutedAsMeant ==
    \A f \in Flows : op[f] # None =>
        LET w == want[f].w
        IN  DecodeNonce(op[f].nonce) =
                [mode |-> DefaultMode, sequence |-> want[f].sequence,
                 type      |-> IF w.validator = None THEN RootType ELSE ValidatorType,
                 validator |-> IF w.validator = None THEN 0 ELSE w.validator,
                 nonceKey  |-> IF w.validator = None THEN 0 ELSE w.nonceKey]

\* What the EntryPoint makes of a wire form, to hash it.
Repacked(wire) ==
    [nonce |-> wire.nonce, callData |-> wire.callData, preVerificationGas |-> wire.preVerificationGas,
     initCode |-> IF wire.factory.factory = None THEN <<>>
                  ELSE PackInitCode(wire.factory.factory, wire.factory.factoryData),
     accountGasLimits |-> PackUint128Pair(wire.gas.hi, wire.gas.lo),
     gasFees          |-> PackUint128Pair(wire.fees.hi, wire.fees.lo),
     paymasterAndData |->
        IF wire.paymaster.paymaster = None THEN <<>>
        ELSE ToBytes(wire.paymaster.paymaster, AddressBytes)
                \o ToBytes(wire.paymaster.verificationGas, HalfBytes)
                \o ToBytes(wire.paymaster.postOpGas, HalfBytes) \o wire.paymaster.paymasterData]

\* The bundler's unpacked form of an operation hashes to what was signed, and asks for the gas,
\* fees and sponsor the application wanted, none of them in another's place.
WireIsWhatWasSigned ==
    \A p \in pool :
        LET w == want[p.of].w
        IN  /\ Repacked(p.wire) = signature[p.of].challenge
            /\ p.wire.gas = [hi |-> w.verificationGas, lo |-> w.callGas]
            /\ p.wire.fees = [hi |-> 1, lo |-> w.maxFee]
            /\ w.paymaster # None => p.wire.paymaster.paymaster = w.paymaster
                                     /\ p.wire.paymaster.paymasterData = <<1>>

\* A signature that was made by an authenticator passes the verifier on chain, which refuses the
\* upper half of the order, and is still the signature that was made.
PasskeyVerifies ==
    \A f \in Flows : signature[f] # None /\ "made" \in DOMAIN signature[f] =>
        /\ signature[f].challenge = op[f]
        /\ signature[f].s \in 1 .. Order \div 2
        /\ signature[f].r = signature[f].made[1]
        /\ signature[f].made[2] \in {signature[f].s, Order - signature[f].s}

\* The wait neither gives up on an operation that was executed one interval and one request before
\* its deadline or earlier, nor goes on for longer than one request after it.
WaitKeepsItsBudget ==
    \A f \in Flows :
        /\ phase[f] = "timeout" /\ minedAt[f] # None =>
             minedAt[f] > deadline[f] - PollInterval - MaxDelay
        /\ phase[f] \in {"asking", "answered", "sleeping"} => clock <= deadline[f] + MaxDelay
=============================================================================
