---------------------------- MODULE ComputeRefunds ----------------------------
(***************************************************************************)
(* Refund claims: src/src/compute/refunds.ts.  A claim reads what the      *)
(* contract owes and sends a transaction only when that is not zero; a     *)
(* view only reads.  Both pass the network guard of NetworkGuard.tla, here *)
(* without a timeout.  Amounts are abstracted to "something" and "nothing".*)
(***************************************************************************)
EXTENDS NetworkGuard

CONSTANTS
    Claims,       \* the callers that are claims; the others are views
    Debts,        \* an account's refund at a contract, or a training job's
    debtOf,       \* per caller: the debt it is about
    Jobs,         \* the debts that are a training job's; the others are an account's own
    MaxCredits    \* bound: how often the contracts credit a refund

ASSUME ComputeRefundsAssumption ==
    /\ Claims \subseteq Callers
    /\ debtOf \in [Callers -> Debts]
    /\ Jobs \subseteq Debts
    /\ MaxCredits \in Nat

VARIABLES
    refused,     \* the callers that pass a bad jobId (fixed)
    signer,      \* the runner has getAddress and sendTransaction (fixed)
    requesters,  \* the jobs the signer is the requester of (fixed)
    stage,          \* per caller: its progress
    used,        \* the callers that have called a contract (history)
    owed,        \* per debt: the contract owes it
    credits,     \* how often a contract has credited a refund
    overtaken    \* claims whose debt was paid to another claim after they read it (history)

ownVars == <<refused, signer, requesters, stage, used, owed, credits, overtaken>>
refundsVars == <<guardVars, ownVars>>

ViewStates == {"idle", "started", "returned", "failed"}
ClaimStates == {"idle", "started", "addressed", "owed", "nothing", "sent", "claimed", "reverted", "failed"}

RefundsTypeOK ==
    /\ GuardTypeOK
    /\ refused \subseteq Callers /\ used \subseteq Callers /\ overtaken \subseteq Claims
    /\ signer \in BOOLEAN /\ requesters \subseteq Jobs
    /\ stage \in [Callers -> ViewStates \cup ClaimStates]
    /\ \A o \in Callers : stage[o] \in IF o \in Claims THEN ClaimStates ELSE ViewStates
    /\ owed \in [Debts -> BOOLEAN]
    /\ credits \in 0 .. MaxCredits

RefundsInit ==
    /\ GuardInit
    /\ refused \in SUBSET Callers
    /\ signer \in BOOLEAN /\ requesters \in SUBSET Jobs
    /\ stage = [o \in Callers |-> "idle"]
    /\ used = {}
    /\ owed \in [Debts -> BOOLEAN]
    /\ credits = 0
    /\ overtaken = {}
-----------------------------------------------------------------------------
Advance(o, from, to) ==
    /\ stage[o] = from
    /\ stage' = [stage EXCEPT ![o] = to]

\* checkJobId, and for a claim the test for a signer.
Begin(o) ==
    /\ Advance(o, "idle", IF o \in refused \/ (o \in Claims /\ ~signer) THEN "failed" ELSE "started")
    /\ UNCHANGED <<guardVars, refused, signer, requesters, used, owed, credits, overtaken>>

CheckNetwork(o) ==
    /\ stage[o] = "started"
    /\ VerifyNetwork(o)
    /\ UNCHANGED ownVars

NetworkRefused(o) ==
    /\ caller[o] = "refused"
    /\ Advance(o, "started", "failed")
    /\ UNCHANGED <<guardVars, refused, signer, requesters, used, owed, credits, overtaken>>

\* Mutated form: the view does not wait for the guard.
MayUseUnguarded(o) == TRUE

MayUse(o) == caller[o] = "cleared"

GetAddress(o) ==
    /\ o \in Claims /\ MayUse(o)
    /\ Advance(o, "started", "addressed") \/ Advance(o, "started", "failed")
    /\ UNCHANGED <<guardVars, refused, signer, requesters, used, owed, credits, overtaken>>

\* Mutated form: the amount is not looked at.
ReadOutcomeAlways(o) == IF o \in Claims THEN "owed" ELSE "returned"
ReadOutcome(o) ==
    IF o \notin Claims THEN "returned" ELSE IF owed[debtOf[o]] THEN "owed" ELSE "nothing"

\* view(): its second pass through the guard finds the check passed, or nothing to check.  The
\* call may fail; a claim that finds nothing throws NothingToClaimError.
ReadOwed(o) ==
    /\ MayUse(o)
    /\ LET from == IF o \in Claims THEN "addressed" ELSE "started"
       IN  Advance(o, from, ReadOutcome(o)) \/ Advance(o, from, "failed")
    /\ used' = used \cup {o}
    /\ UNCHANGED <<guardVars, refused, signer, requesters, owed, credits, overtaken>>

SendClaim(o) ==
    /\ Advance(o, "owed", "sent") \/ Advance(o, "owed", "failed")
    /\ UNCHANGED <<guardVars, refused, signer, requesters, used, owed, credits, overtaken>>

\* An account's refund is its own; a job's belongs to the requester, whoever reads it.
Entitled(o) == debtOf[o] \in Jobs => debtOf[o] \in requesters

\* The contract pays what it owes to whom it owes it, and reverts otherwise.
Execute(o) ==
    /\ LET d == debtOf[o]
           pays == owed[d] /\ Entitled(o)
           rivals == {p \in Claims \ {o} : debtOf[p] = d /\ stage[p] \in {"owed", "sent"}}
       IN  /\ Advance(o, "sent", IF pays THEN "claimed" ELSE "reverted")
           /\ owed' = [owed EXCEPT ![d] = @ /\ ~pays]
           /\ overtaken' = IF pays THEN overtaken \cup rivals ELSE overtaken
    /\ UNCHANGED <<guardVars, refused, signer, requesters, used, credits>>

Credit(d) ==
    /\ ~owed[d] /\ credits < MaxCredits
    /\ owed' = [owed EXCEPT ![d] = TRUE]
    /\ credits' = credits + 1
    /\ UNCHANGED <<guardVars, refused, signer, requesters, stage, used, overtaken>>

EndpointsAnswer == GuardStep /\ UNCHANGED ownVars

Ended(o) == stage[o] \in {"returned", "nothing", "claimed", "reverted", "failed"}
AllEnded == (\A o \in Callers : Ended(o)) /\ UNCHANGED refundsVars

RefundsNext ==
    \/ \E o \in Callers :
          \/ Begin(o) \/ CheckNetwork(o) \/ NetworkRefused(o) \/ GetAddress(o)
          \/ ReadOwed(o) \/ SendClaim(o) \/ Execute(o)
    \/ \E d \in Debts : Credit(d)
    \/ EndpointsAnswer
    \/ AllEnded

RefundsSpec == RefundsInit /\ [][RefundsNext]_refundsVars
-----------------------------------------------------------------------------
\* No contract address is used before every endpoint has shown the expected genesis.
UsedIsVerified == Checked /\ used # {} => reported = Endpoints

\* A claim is reverted for one of two reasons: another claim took its refund after it had read the
\* amount, or the signer is not the requester of the training job, which claim() does not look at
\* and the contract does (claim, claimRequesterRefund).
RevertHasCause ==
    \A o \in Callers : stage[o] = "reverted" => o \in overtaken \/ ~Entitled(o)

=============================================================================
