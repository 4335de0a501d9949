---------------------------- MODULE NetworkGuard ----------------------------
(***************************************************************************)
(* The network guard of src/src/utils/network.ts and the single-flight     *)
(* cache in front of it: verifyNetwork of CitrateClient and of             *)
(* ComputeRefunds.  A caller may use the network only after every endpoint *)
(* behind the provider has reported the expected block 0, because a signed *)
(* transaction is broadcast to all of them.                                *)
(*                                                                         *)
(* The check runs once for all callers: this.networkCheck holds its        *)
(* promise while it runs and for good once it has passed; a failure clears *)
(* it.  CitrateClient.tla and ComputeRefunds.tla extend this module with   *)
(* what a caller does before and after the guard.                          *)
(***************************************************************************)
EXTENDS FiniteSets, Naturals

CONSTANTS
    Callers,      \* the operations that call verifyNetwork
    Endpoints,    \* the leaves endpointsOf(provider) finds; none: a provider it refuses
    Checked,      \* expectedGenesis is not null
    ReadTimeout   \* a timeoutMs is passed (CitrateClient), or not (ComputeRefunds)

ASSUME NetworkGuardAssumption == Checked \in BOOLEAN /\ ReadTimeout \in BOOLEAN

VARIABLES
    networkCheck,   \* this.networkCheck: "none", "running", "passed" or "failed"
    block0,         \* per endpoint: the block 0 read of the latest check
    caller,         \* per caller: where it is relative to the guard
    reported        \* the endpoints that have ever reported the expected genesis (history)

guardVars == <<networkCheck, block0, caller, reported>>

GuardTypeOK ==
    /\ networkCheck \in {"none", "running", "passed", "failed"}
    /\ block0 \in [Endpoints -> {"none", "asked", "expected", "bad"}]
    /\ caller \in [Callers -> {"idle", "waiting", "cleared", "refused"}]
    /\ reported \subseteq Endpoints

GuardInit ==
    /\ networkCheck = "none"
    /\ block0 = [e \in Endpoints |-> "none"]
    /\ caller = [c \in Callers |-> "idle"]
    /\ reported = {}

WaitingCallers == {c \in Callers : caller[c] = "waiting"}

SettleWaiting(outcome) ==
    caller' = [c \in Callers |-> IF c \in WaitingCallers THEN outcome ELSE caller[c]]

\* What awaiting the promise in this.networkCheck comes to, by its state.
Await == [running |-> "waiting", passed |-> "cleared", failed |-> "refused"]

\* verifyNetwork(): nothing to check, join the check in the slot, or start one.  A provider without
\* endpoints fails the check before anything is read.
VerifyNetwork(c) ==
    /\ caller[c] = "idle"
    /\ \/ /\ Checked => networkCheck # "none"
          /\ caller' = [caller EXCEPT ![c] = IF Checked THEN Await[networkCheck] ELSE "cleared"]
          /\ UNCHANGED <<networkCheck, block0>>
       \/ /\ Checked /\ networkCheck = "none"
          /\ IF Endpoints = {}
             THEN /\ caller' = [caller EXCEPT ![c] = "refused"]
                  /\ UNCHANGED <<networkCheck, block0>>
             ELSE /\ caller' = [caller EXCEPT ![c] = "waiting"]
                  /\ networkCheck' = "running"
                  /\ block0' = [e \in Endpoints |-> "asked"]
    /\ UNCHANGED reported

AllExpected(b) == \A e \in Endpoints : b[e] = "expected"

\* Mutated form: the slot keeps the promise of a check that failed.
AfterFailureKept == "failed"

AfterFailure == "none"

\* allSettled: the check ends with the last read, and everybody who waits ends with it.
EndCheck(b) ==
    IF \E e \in Endpoints : b[e] = "asked" THEN UNCHANGED <<networkCheck, caller>>
    ELSE IF AllExpected(b) THEN networkCheck' = "passed" /\ SettleWaiting("cleared")
    ELSE networkCheck' = AfterFailure /\ SettleWaiting("refused")

\* One endpoint's read settles; another genesis, no block, no hash and an error are all refusals.
ReadBlock0(e, outcome) ==
    /\ block0[e] = "asked"
    /\ block0' = [block0 EXCEPT ![e] = outcome]
    /\ reported' = IF outcome = "expected" THEN reported \cup {e} ELSE reported
    /\ EndCheck(block0')

EndpointAnswers(e) == \E outcome \in {"expected", "bad"} : ReadBlock0(e, outcome)

\* Mutated form: the reads run without their timer.
EndpointHangs(e) == FALSE

\* The race in readBlock0: no answer within timeoutMs.
EndpointTimesOut(e) == ReadTimeout /\ ReadBlock0(e, "bad")

GuardStep == \E e \in Endpoints : EndpointAnswers(e) \/ EndpointTimesOut(e)
-----------------------------------------------------------------------------
\* Whoever is let through, alone or by joining a check somebody else started, finds that every
\* endpoint has reported the expected genesis.
ClearedIsVerified ==
    Checked /\ (\E c \in Callers : caller[c] = "cleared") => reported = Endpoints

\* Nobody waits for a check that is not running.
WaitersHaveACheck ==
    WaitingCallers # {} => networkCheck = "running" /\ \E e \in Endpoints : block0[e] = "asked"

\* A failed check is not cached: whoever is refused has waited for a check that was running
\* when it asked (or the provider has no endpoints at all).
FailureIsNotCached ==
    [][\A c \in Callers : caller[c] = "idle" /\ caller'[c] = "refused" => Endpoints = {}]_guardVars

\* The inductive strengthening of the two.
GuardInv ==
    /\ networkCheck = "running" <=> \E e \in Endpoints : block0[e] = "asked"
    /\ networkCheck # "failed"
    /\ networkCheck = "passed" => reported = Endpoints
    /\ \A e \in Endpoints : block0[e] = "expected" => e \in reported
    /\ ClearedIsVerified
    /\ WaitersHaveACheck
=============================================================================
