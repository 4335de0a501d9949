------------------------ MODULE NetworkGuard_proofs ------------------------
(***************************************************************************)
(* Proofs about the guard of NetworkGuard.tla and about its two clients,   *)
(* ComputeRefunds.tla and CitrateClient.tla: four lemmas about the guard   *)
(* that both rest on, then the theorems of each, for any callers,          *)
(* endpoints, refunds, batch and chunk size.                               *)
(***************************************************************************)
EXTENDS CitrateClient, ComputeRefunds, TLAPS

\* A check that starts: everybody who waits waits for it.
LEMMA VerifyKeepsGuard ==
    ASSUME GuardTypeOK, GuardInv, NEW c \in Callers, VerifyNetwork(c)
    PROVE  GuardInv'
<1> USE NetworkGuardAssumption DEF GuardTypeOK, GuardInv, ClearedIsVerified, WaitersHaveACheck, WaitingCallers
<1>1. CASE Checked => networkCheck # "none"
  <2>1. /\ UNCHANGED <<networkCheck, block0, reported>>
        /\ caller' = [caller EXCEPT ![c] = IF Checked THEN Await[networkCheck] ELSE "cleared"]
    BY <1>1 DEF VerifyNetwork
  <2>2. CASE ~Checked
    BY <2>1, <2>2
  <2>3. CASE Checked /\ networkCheck = "running"
    BY <2>1, <2>3 DEF Await
  <2>4. CASE Checked /\ networkCheck = "passed"
    BY <2>1, <2>4 DEF Await
  <2>5. QED
    BY <1>1, <2>2, <2>3, <2>4
<1>2. CASE Checked /\ networkCheck = "none" /\ Endpoints = {}
  BY <1>2 DEF VerifyNetwork
<1>3. CASE Checked /\ networkCheck = "none" /\ Endpoints # {}
  BY <1>3 DEF VerifyNetwork
<1>4. QED
  BY <1>1, <1>2, <1>3

\* A read that settles: the last one ends the check for everybody.
LEMMA ReadKeepsGuard ==
    ASSUME GuardTypeOK, GuardInv, NEW e \in Endpoints, NEW outcome \in {"expected", "bad"}, ReadBlock0(e, outcome)
    PROVE  GuardInv'
<1> USE DEF GuardTypeOK, GuardInv, ClearedIsVerified, WaitersHaveACheck, WaitingCallers, ReadBlock0
<1>1. networkCheck = "running"
  OBVIOUS
<1>2. \A f \in Endpoints : block0'[f] = "expected" => f \in reported'
  OBVIOUS
<1>3. CASE \E f \in Endpoints : block0'[f] = "asked"
  BY <1>1, <1>2, <1>3 DEF EndCheck
<1>4. CASE ~(\E f \in Endpoints : block0'[f] = "asked") /\ AllExpected(block0')
  <2>1. networkCheck' = "passed" /\ SettleWaiting("cleared")
    BY <1>4 DEF EndCheck
  <2>2. reported' = Endpoints
    BY <1>2, <1>4 DEF AllExpected
  <2>3. \A c \in Callers : caller'[c] # "waiting"
    BY <2>1 DEF SettleWaiting
  <2>4. QED
    BY <1>2, <1>4, <2>1, <2>2, <2>3
<1>5. CASE ~(\E f \in Endpoints : block0'[f] = "asked") /\ ~AllExpected(block0')
  <2>1. networkCheck' = "none" /\ SettleWaiting("refused")
    BY <1>5 DEF EndCheck, AfterFailure
  <2>2. \A c \in Callers : caller'[c] # "waiting" /\ (caller'[c] = "cleared" => caller[c] = "cleared")
    BY <2>1 DEF SettleWaiting
  <2>3. reported \subseteq reported' /\ reported' \subseteq Endpoints
    OBVIOUS
  <2>4. QED
    BY <1>2, <1>5, <2>1, <2>2, <2>3
<1>6. QED
  BY <1>3, <1>4, <1>5

\* Who has been let through stays so.
LEMMA GuardKeepsCleared ==
    ASSUME GuardTypeOK, NEW o \in Callers, caller[o] = "cleared",
           (\E c \in Callers : VerifyNetwork(c)) \/ GuardStep \/ UNCHANGED guardVars
    PROVE  caller'[o] = "cleared"
<1> USE DEF GuardTypeOK
<1>1. CASE \E c \in Callers : VerifyNetwork(c)
  BY <1>1 DEF VerifyNetwork
<1>2. CASE GuardStep
  BY <1>2 DEF GuardStep, EndpointAnswers, EndpointTimesOut, ReadBlock0, EndCheck, SettleWaiting, WaitingCallers
<1>3. CASE UNCHANGED guardVars
  BY <1>3 DEF guardVars
<1>4. QED
  BY <1>1, <1>2, <1>3

\* Every step of a client, as the guard sees it, keeps GuardInv.
LEMMA GuardInvKept ==
    ASSUME GuardTypeOK, GuardInv,
           (\E c \in Callers : VerifyNetwork(c)) \/ GuardStep \/ UNCHANGED guardVars
    PROVE  GuardInv'
<1>1. CASE \E c \in Callers : VerifyNetwork(c)
  BY <1>1, VerifyKeepsGuard
<1>2. CASE GuardStep
  <2>1. PICK e \in Endpoints, outcome \in {"expected", "bad"} : ReadBlock0(e, outcome)
    BY <1>2 DEF GuardStep, EndpointAnswers, EndpointTimesOut
  <2>2. QED
    BY <2>1, ReadKeepsGuard
<1>3. CASE UNCHANGED guardVars
  BY <1>3 DEF guardVars, GuardInv, ClearedIsVerified, WaitersHaveACheck, WaitingCallers
<1>4. QED
  BY <1>1, <1>2, <1>3
-----------------------------------------------------------------------------
LEMMA RefundsMoveGuard ==
    ASSUME [RefundsNext]_refundsVars
    PROVE  (\E o \in Callers : VerifyNetwork(o)) \/ GuardStep \/ UNCHANGED guardVars
BY DEF RefundsNext, Begin, CheckNetwork, NetworkRefused, GetAddress, ReadOwed, SendClaim, Execute, Credit, EndpointsAnswer,
   AllEnded, refundsVars

LEMMA RefundsKeepGuardType == GuardTypeOK /\ [RefundsNext]_refundsVars => GuardTypeOK'
<1> SUFFICES ASSUME GuardTypeOK, [RefundsNext]_refundsVars PROVE GuardTypeOK'
  OBVIOUS
<1> USE DEF GuardTypeOK
<1>1. CASE \E o \in Callers : VerifyNetwork(o)
  BY <1>1 DEF VerifyNetwork, Await
<1>2. CASE GuardStep
  BY <1>2 DEF GuardStep, EndpointAnswers, EndpointTimesOut, ReadBlock0, EndCheck, SettleWaiting, AfterFailure
<1>3. CASE UNCHANGED guardVars
  BY <1>3 DEF guardVars
<1>4. QED
  BY <1>1, <1>2, <1>3, RefundsMoveGuard

OwnTypeOK ==
    /\ refused \subseteq Callers /\ used \subseteq Callers /\ overtaken \subseteq Claims
    /\ stage \in [Callers -> ViewStates \cup ClaimStates]
    /\ \A o \in Callers : stage[o] \in IF o \in Claims THEN ClaimStates ELSE ViewStates
    /\ owed \in [Debts -> BOOLEAN]

\* Type correctness of the claims.
THEOREM RefundsTypeCorrect == RefundsSpec => []RefundsTypeOK
<1> USE ComputeRefundsAssumption DEF ComputeRefundsAssumption
<1>1. RefundsInit => RefundsTypeOK
  BY DEF RefundsInit, GuardInit, RefundsTypeOK, GuardTypeOK, ViewStates, ClaimStates
<1>2. RefundsTypeOK /\ [RefundsNext]_refundsVars => RefundsTypeOK'
  <2> SUFFICES ASSUME RefundsTypeOK, [RefundsNext]_refundsVars PROVE RefundsTypeOK'
    OBVIOUS
  <2>1. GuardTypeOK'
    BY RefundsKeepGuardType DEF RefundsTypeOK
  <2>2. OwnTypeOK
    BY DEF RefundsTypeOK, OwnTypeOK
  <2>3. signer' \in BOOLEAN /\ requesters' \subseteq Jobs
    BY DEF RefundsTypeOK, RefundsNext, Begin, CheckNetwork, NetworkRefused, GetAddress, ReadOwed, SendClaim, Execute, Credit,
       EndpointsAnswer, AllEnded, refundsVars, ownVars
  <2>4. credits' \in 0 .. MaxCredits
    BY DEF RefundsTypeOK, RefundsNext, Begin, CheckNetwork, NetworkRefused, GetAddress, ReadOwed, SendClaim, Execute, Credit,
       EndpointsAnswer, AllEnded, refundsVars, ownVars
  <2>5. OwnTypeOK'
    <3> USE <2>2 DEF OwnTypeOK, ViewStates, ClaimStates
    <3>1. ASSUME NEW o \in Callers, Begin(o) \/ NetworkRefused(o) \/ GetAddress(o) PROVE OwnTypeOK'
      BY <3>1 DEF Begin, NetworkRefused, GetAddress, Advance
    <3>2. ASSUME NEW o \in Callers, CheckNetwork(o) PROVE OwnTypeOK'
      BY <3>2 DEF CheckNetwork, ownVars
    <3>3. ASSUME NEW o \in Callers, ReadOwed(o) PROVE OwnTypeOK'
      BY <3>3 DEF ReadOwed, ReadOutcome, Advance
    <3>4. ASSUME NEW o \in Callers, SendClaim(o) PROVE OwnTypeOK'
      BY <3>4 DEF SendClaim, Advance
    <3>5. ASSUME NEW o \in Callers, Execute(o) PROVE OwnTypeOK'
      BY <3>5 DEF Execute, Advance
    <3>6. ASSUME NEW d \in Debts, Credit(d) PROVE OwnTypeOK'
      BY <3>6 DEF Credit
    <3>7. CASE EndpointsAnswer \/ UNCHANGED refundsVars
      BY <3>7 DEF EndpointsAnswer, refundsVars, ownVars
    <3>8. QED
      BY <3>1, <3>2, <3>3, <3>4, <3>5, <3>6, <3>7 DEF RefundsNext, AllEnded
  <2>6. QED
    BY <2>1, <2>3, <2>4, <2>5 DEF RefundsTypeOK, OwnTypeOK
<1>3. QED
  BY <1>1, <1>2, PTL DEF RefundsSpec

\* The guard admits nobody on the word of a check that did not cover every endpoint.
LEMMA RefundsGuardInvariant == RefundsSpec => []GuardInv
<1>1. RefundsInit => GuardInv
  BY DEF RefundsInit, GuardInit, GuardInv, ClearedIsVerified, WaitersHaveACheck, WaitingCallers
<1>2. RefundsTypeOK /\ GuardInv /\ [RefundsNext]_refundsVars => GuardInv'
  BY RefundsMoveGuard, GuardInvKept DEF RefundsTypeOK
<1>3. QED
  BY <1>1, <1>2, RefundsTypeCorrect, PTL DEF RefundsSpec

UsersAreCleared == \A o \in used : o \in Callers /\ caller[o] = "cleared"

\* No contract is called before every endpoint has shown the expected genesis.
THEOREM NeverUsedUnverified == RefundsSpec => []UsedIsVerified
<1>1. RefundsInit => UsersAreCleared
  BY DEF RefundsInit, UsersAreCleared
<1>2. RefundsTypeOK /\ UsersAreCleared /\ [RefundsNext]_refundsVars => UsersAreCleared'
  <2> SUFFICES ASSUME RefundsTypeOK, UsersAreCleared, [RefundsNext]_refundsVars PROVE UsersAreCleared'
    OBVIOUS
  <2>1. \A o \in Callers : caller[o] = "cleared" => caller'[o] = "cleared"
    BY RefundsMoveGuard, GuardKeepsCleared DEF RefundsTypeOK
  <2>2. \A o \in used' : o \in used \/ (o \in Callers /\ caller[o] = "cleared")
    BY DEF RefundsNext, Begin, CheckNetwork, NetworkRefused, GetAddress, ReadOwed, MayUse, SendClaim, Execute, Credit,
       EndpointsAnswer, AllEnded, refundsVars, ownVars
  <2>3. QED
    BY <2>1, <2>2 DEF UsersAreCleared
<1>3. GuardInv /\ UsersAreCleared => UsedIsVerified
  BY DEF GuardInv, ClearedIsVerified, UsersAreCleared, UsedIsVerified
<1>4. QED
  BY <1>1, <1>2, <1>3, RefundsTypeCorrect, RefundsGuardInvariant, PTL DEF RefundsSpec

\* A claim that has read its refund still finds it, unless a rival was paid.
RefundIsThere ==
    \A o \in Claims : stage[o] \in {"owed", "sent"} => owed[debtOf[o]] \/ o \in overtaken

\* A claim that was sent reverts for one of two causes: a rival was paid first, or the client's
\* account is not the one the contract pays for the job.
THEOREM RevertsHaveCause == RefundsSpec => []RevertHasCause
<1> USE ComputeRefundsAssumption DEF ComputeRefundsAssumption
<1>1. RefundsInit => RefundIsThere /\ RevertHasCause
  BY DEF RefundsInit, RefundIsThere, RevertHasCause
<1>2. RefundsTypeOK /\ RefundIsThere /\ RevertHasCause /\ [RefundsNext]_refundsVars => RefundIsThere' /\ RevertHasCause'
  <2> SUFFICES ASSUME RefundsTypeOK, RefundIsThere, RevertHasCause, [RefundsNext]_refundsVars
               PROVE  RefundIsThere' /\ RevertHasCause'
    OBVIOUS
  <2>0. OwnTypeOK
    BY DEF RefundsTypeOK, OwnTypeOK
  <2> USE <2>0 DEF OwnTypeOK, RefundIsThere, RevertHasCause, Entitled, ViewStates, ClaimStates
  <2>1. ASSUME NEW o \in Callers, Begin(o) \/ NetworkRefused(o) \/ GetAddress(o) \/ SendClaim(o)
        PROVE RefundIsThere' /\ RevertHasCause'
    BY <2>1 DEF Begin, NetworkRefused, GetAddress, SendClaim, Advance
  <2>2. ASSUME NEW o \in Callers, CheckNetwork(o) PROVE RefundIsThere' /\ RevertHasCause'
    BY <2>2 DEF CheckNetwork, ownVars
  <2>3. ASSUME NEW o \in Callers, ReadOwed(o) PROVE RefundIsThere' /\ RevertHasCause'
    BY <2>3 DEF ReadOwed, ReadOutcome, Advance
  <2>4. ASSUME NEW o \in Callers, Execute(o) PROVE RefundIsThere' /\ RevertHasCause'
    BY <2>4 DEF Execute, Advance
  <2>5. ASSUME NEW d \in Debts, Credit(d) PROVE RefundIsThere' /\ RevertHasCause'
    BY <2>5 DEF Credit
  <2>6. CASE EndpointsAnswer \/ UNCHANGED refundsVars
    BY <2>6 DEF EndpointsAnswer, refundsVars, ownVars
  <2>7. QED
    BY <2>1, <2>2, <2>3, <2>4, <2>5, <2>6 DEF RefundsNext, AllEnded
<1>3. QED
  BY <1>1, <1>2, RefundsTypeCorrect, PTL DEF RefundsSpec
-----------------------------------------------------------------------------
\* The part of TypeOK the arguments below need.
FlowTypeOK ==
    /\ GuardTypeOK
    /\ invalid \subseteq Callers /\ confidential \subseteq Callers
    /\ pc \in [Callers -> States]
    /\ sealed \subseteq Callers /\ broadcast \subseteq Callers

THEOREM FlowTypeCorrect == Spec => []FlowTypeOK
<1>1. Init => FlowTypeOK
  BY DEF Init, GuardInit, FlowTypeOK, GuardTypeOK, States
<1>2. FlowTypeOK /\ [Next]_vars => FlowTypeOK'
  <2> SUFFICES ASSUME FlowTypeOK, [Next]_vars PROVE FlowTypeOK'
    OBVIOUS
  <2> USE DEF FlowTypeOK, States
  <2>1. ASSUME NEW o \in Callers, Start(o) PROVE FlowTypeOK'
    BY <2>1 DEF Start, Step, guardVars, fixedVars, sendVars, GuardTypeOK
  <2>2. ASSUME NEW o \in Callers, Prepare(o) PROVE FlowTypeOK'
    BY <2>2 DEF Prepare, Step, guardVars, fixedVars, sendVars, GuardTypeOK
  <2>3. ASSUME NEW o \in Callers, Guard(o) PROVE FlowTypeOK'
    BY <2>3 DEF Guard, VerifyNetwork, Await, fixedVars, sendVars, GuardTypeOK
  <2>4. ASSUME NEW o \in Callers, GuardRefuses(o) PROVE FlowTypeOK'
    BY <2>4 DEF GuardRefuses, Step, guardVars, fixedVars, sendVars, GuardTypeOK
  <2>5. ASSUME NEW o \in Callers, Populate(o) PROVE FlowTypeOK'
    BY <2>5 DEF Populate, Step, guardVars, fixedVars, GuardTypeOK
  <2>6. ASSUME NEW o \in Callers, Broadcast(o) PROVE FlowTypeOK'
    BY <2>6 DEF Broadcast, Step, guardVars, fixedVars, GuardTypeOK
  <2>7. ASSUME NEW o \in Callers, Mined(o) PROVE FlowTypeOK'
    BY <2>7 DEF Mined, Step, guardVars, fixedVars, sendVars, GuardTypeOK
  <2>8. CASE BatchInference
    BY <2>8 DEF BatchInference, StartChunk, guardVars, fixedVars, sendVars, GuardTypeOK
  <2>9. CASE EndChunk
    BY <2>9 DEF EndChunk, StartChunk, guardVars, fixedVars, sendVars, GuardTypeOK
  <2>10. CASE GuardAnswers
    BY <2>10 DEF GuardAnswers, GuardStep, EndpointAnswers, EndpointTimesOut, ReadBlock0, EndCheck,
       SettleWaiting, AfterFailure, fixedVars, sendVars, GuardTypeOK
  <2>11. CASE UNCHANGED vars
    BY <2>11 DEF vars, guardVars, fixedVars, sendVars, GuardTypeOK
  <2>12. QED
    BY <2>1, <2>2, <2>3, <2>4, <2>5, <2>6, <2>7, <2>8, <2>9, <2>10, <2>11 DEF Next, Proceed, Terminated
<1>3. QED
  BY <1>1, <1>2, PTL DEF Spec
-----------------------------------------------------------------------------
\* Whatever happens around it, the guard's own part of the state is changed by its own steps only.
LEMMA GuardMoves ==
    ASSUME [Next]_vars
    PROVE  \/ \E o \in Callers : VerifyNetwork(o)
           \/ GuardStep
           \/ UNCHANGED guardVars
<1>1. ASSUME NEW o \in Callers, Start(o) \/ Proceed(o)
      PROVE VerifyNetwork(o) \/ UNCHANGED guardVars
  BY <1>1 DEF Start, Proceed, Prepare, Guard, GuardRefuses, Populate, Broadcast, Mined
<1>2. QED
  BY <1>1 DEF Next, BatchInference, EndChunk, GuardAnswers, Terminated, vars

\* The guard never lets anybody through, or leaves anybody waiting, on the word of a check that
\* did not cover every endpoint.
THEOREM GuardInvariant == Spec => []GuardInv
<1>1. Init => GuardInv
  BY DEF Init, GuardInit, GuardInv, ClearedIsVerified, WaitersHaveACheck, WaitingCallers
<1>2. FlowTypeOK /\ GuardInv /\ [Next]_vars => GuardInv'
  BY GuardMoves, GuardInvKept DEF FlowTypeOK
<1>3. QED
  BY <1>1, <1>2, FlowTypeCorrect, PTL DEF Spec
-----------------------------------------------------------------------------
\* What holds of an operation by the time it signs, or has sent: it was let through, its payload
\* is sealed if it had to be, and if it belongs to a batch the batch was accepted.
Sending(o) == pc[o] \in {"signed", "mining"} \/ o \in broadcast

SendInv ==
    /\ \A o \in Callers : Sending(o) => caller[o] = "cleared"
    /\ \A o \in Callers : pc[o] = "ready" \/ Sending(o) => (o \in confidential => o \in sealed)
    /\ \A o \in Inputs : pc[o] # "idle" \/ o \in broadcast => batch \in {"running", "returned"}
    /\ batch \in {"running", "returned"} => Inputs \cap invalid = {}

LEMMA InputsAreCallers == Inputs \subseteq Callers
BY CitrateClientAssumption DEF CitrateClientAssumption, Inputs, ToSet

\* A step of one operation, seen from the batch.
LEMMA StepKeepsBatch ==
    ASSUME NEW o \in Callers, NEW from, NEW to, Step(o, from, to)
    PROVE  pc[o] = from /\ pc' = [pc EXCEPT ![o] = to] /\ UNCHANGED batch
BY DEF Step, Record

LEMMA SendInvariant == Spec => []SendInv
<1> USE InputsAreCallers
<1>1. Init => SendInv
  <2> SUFFICES ASSUME Init PROVE SendInv
    OBVIOUS
  <2>1. pc = [o \in Callers |-> "idle"] /\ broadcast = {} /\ batch = "idle"
    BY DEF Init
  <2>2. QED
    BY <2>1 DEF SendInv, Sending
<1>2. FlowTypeOK /\ SendInv /\ [Next]_vars => SendInv'
  <2> SUFFICES ASSUME FlowTypeOK, SendInv, [Next]_vars PROVE SendInv'
    OBVIOUS
  <2> USE DEF FlowTypeOK, SendInv, Sending
  <2>0. \A o \in Callers : caller[o] = "cleared" => caller'[o] = "cleared"
    BY GuardMoves, GuardKeepsCleared
  <2>1. ASSUME NEW o \in Callers, Start(o) PROVE SendInv'
    <3>1. o \notin Inputs
      BY <2>1 DEF Start, Direct
    <3>2. pc[o] = "idle" /\ pc'[o] \in {"failed", "started"} /\ pc' = [pc EXCEPT ![o] = pc'[o]] /\ UNCHANGED batch
      BY <2>1, StepKeepsBatch DEF Start
    <3>3. QED
      BY <2>0, <2>1, <3>1, <3>2 DEF Start, fixedVars, sendVars
  <2>2. ASSUME NEW o \in Callers, Prepare(o) PROVE SendInv'
    <3>1. CASE Step(o, "started", "ready") /\ sealed' = (IF WantsSeal(o) THEN sealed \cup {o} ELSE sealed)
               /\ UNCHANGED <<fixedVars, broadcast>>
      BY <2>0, <3>1, StepKeepsBatch DEF WantsSeal, fixedVars
    <3>2. CASE Step(o, "started", "failed") /\ UNCHANGED <<fixedVars, sendVars>>
      BY <2>0, <3>2, StepKeepsBatch DEF fixedVars, sendVars
    <3>3. QED
      BY <2>2, <3>1, <3>2 DEF Prepare
  <2>3. ASSUME NEW o \in Callers, Guard(o) PROVE SendInv'
    BY <2>0, <2>3 DEF Guard, fixedVars, sendVars, batchVars
  <2>4. ASSUME NEW o \in Callers, GuardRefuses(o) PROVE SendInv'
    BY <2>0, <2>4, StepKeepsBatch DEF GuardRefuses, fixedVars, sendVars
  <2>5. ASSUME NEW o \in Callers, Populate(o) PROVE SendInv'
    <3>1. Step(o, "ready", "signed") \/ Step(o, "ready", "failed")
      BY <2>5 DEF Populate
    <3>2. caller[o] = "cleared" /\ UNCHANGED <<fixedVars, broadcast, sealed>>
      BY <2>5 DEF Populate, MaySend
    <3>3. QED
      BY <2>0, <3>1, <3>2, StepKeepsBatch DEF fixedVars
  <2>6. ASSUME NEW o \in Callers, Broadcast(o) PROVE SendInv'
    <3>1. Step(o, "signed", "mining") \/ Step(o, "signed", "failed")
      BY <2>6 DEF Broadcast
    <3>2. broadcast' = broadcast \cup {o} /\ UNCHANGED <<fixedVars, sealed>>
      BY <2>6 DEF Broadcast
    <3>3. QED
      BY <2>0, <3>1, <3>2, StepKeepsBatch DEF fixedVars
  <2>7. ASSUME NEW o \in Callers, Mined(o) PROVE SendInv'
    <3>1. Step(o, "mining", "done") \/ Step(o, "mining", "failed")
      BY <2>7 DEF Mined
    <3>2. QED
      BY <2>0, <2>7, <3>1, StepKeepsBatch DEF Mined, fixedVars, sendVars
  <2>8. CASE BatchInference
    <3>1. Batch = <<>> => Inputs = {}
      BY DEF Inputs, ToSet
    <3>2. CASE RejectBatch \/ Batch = <<>>
      BY <2>0, <2>8, <3>1, <3>2 DEF BatchInference, guardVars, fixedVars, sendVars
    <3>3. CASE ~RejectBatch /\ Batch # <<>>
      BY <2>0, <2>8, <3>3 DEF BatchInference, RejectBatch, StartChunk, guardVars, fixedVars, sendVars
    <3>4. QED
      BY <3>2, <3>3
  <2>9. CASE EndChunk
    BY <2>0, <2>9 DEF EndChunk, StartChunk, guardVars, fixedVars, sendVars
  <2>10. CASE GuardAnswers
    BY <2>0, <2>10 DEF GuardAnswers, fixedVars, sendVars, batchVars
  <2>11. CASE UNCHANGED vars
    BY <2>0, <2>11 DEF vars, fixedVars, sendVars, batchVars
  <2>12. QED
    BY <2>1, <2>2, <2>3, <2>4, <2>5, <2>6, <2>7, <2>8, <2>9, <2>10, <2>11 DEF Next, Proceed, Terminated
<1>3. QED
  BY <1>1, <1>2, FlowTypeCorrect, PTL DEF Spec

\* No transaction leaves before every endpoint has shown the expected genesis.
THEOREM NeverSentUnverified == Spec => []NothingSentUnverified
<1>1. FlowTypeOK /\ GuardInv /\ SendInv => NothingSentUnverified
  BY DEF FlowTypeOK, GuardInv, ClearedIsVerified, SendInv, Sending, NothingSentUnverified
<1>2. QED
  BY <1>1, FlowTypeCorrect, GuardInvariant, SendInvariant, PTL

\* What was to be encrypted never leaves in plaintext.
THEOREM ConfidentialStaysSealed == Spec => []ConfidentialIsSealed
<1>1. FlowTypeOK /\ SendInv => ConfidentialIsSealed
  BY DEF FlowTypeOK, SendInv, Sending, ConfidentialIsSealed
<1>2. QED
  BY <1>1, FlowTypeCorrect, SendInvariant, PTL

\* A batch with an input the validators refuse sends nothing, not even its valid inputs.
THEOREM InvalidBatchIsSilent == Spec => []InvalidBatchSendsNothing
<1>1. SendInv => InvalidBatchSendsNothing
  BY DEF SendInv, InvalidBatchSendsNothing
<1>2. QED
  BY <1>1, SendInvariant, PTL

\* A failed check is never found in the slot by a later caller.
THEOREM FailuresAreRetried == Spec => FailureIsNotCached
<1>1. FlowTypeOK /\ GuardInv /\ [Next]_vars
        => [\A c \in Callers : caller[c] = "idle" /\ caller'[c] = "refused" => Endpoints = {}]_guardVars
  <2> SUFFICES ASSUME FlowTypeOK, GuardInv, [Next]_vars, NEW c \in Callers,
                      caller[c] = "idle", caller'[c] = "refused", Endpoints # {}
               PROVE FALSE
    OBVIOUS
  <2> USE DEF FlowTypeOK, GuardTypeOK
  <2>1. CASE \E o \in Callers : VerifyNetwork(o)
    <3>1. PICK o \in Callers : VerifyNetwork(o)
      BY <2>1
    <3>2. caller'[c] \in {"idle", "waiting", "cleared"}
      BY <3>1 DEF VerifyNetwork, Await, GuardInv
    <3>3. QED
      BY <3>2
  <2>2. CASE GuardStep
    BY <2>2 DEF GuardStep, EndpointAnswers, EndpointTimesOut, ReadBlock0, EndCheck, SettleWaiting, WaitingCallers
  <2>3. CASE UNCHANGED guardVars
    BY <2>3 DEF guardVars
  <2>4. QED
    BY <2>1, <2>2, <2>3, GuardMoves
<1>2. QED
  BY <1>1, FlowTypeCorrect, GuardInvariant, PTL DEF Spec, FailureIsNotCached
-----------------------------------------------------------------------------
\* The rest of TypeOK: the flags, the nonces and what the batch counts and collects.
RestOK ==
    /\ hasWallet \in BOOLEAN /\ hasKey \in BOOLEAN
    /\ nonce \in [Callers -> Nat] /\ accountNonce \in Nat
    /\ batch \in {"idle", "running", "returned", "threw"}
    /\ results \in Seq(Inputs) /\ errors \in Seq(Inputs)

CountersOK == next \in 0 .. Len(Batch) + BatchSize /\ progress \in 0 .. Len(Batch)

LEMMA BatchSizes == Len(Batch) \in Nat /\ BatchSize \in Nat \ {0}
BY CitrateClientAssumption DEF CitrateClientAssumption

LEMMA CountersCorrect == Spec => []CountersOK
<1> USE BatchSizes DEF CountersOK
<1>1. Init => CountersOK
  BY DEF Init
<1>2. CountersOK /\ [Next]_vars => CountersOK'
  <2> SUFFICES ASSUME CountersOK, [Next]_vars PROVE CountersOK'
    OBVIOUS
  <2>1. ASSUME NEW o \in Callers, Start(o) \/ Proceed(o) PROVE UNCHANGED <<next, progress>>
    BY <2>1 DEF Start, Proceed, Prepare, Guard, GuardRefuses, Populate, Broadcast, Mined, Step, Record, batchVars
  <2>2. CASE BatchInference
    <3>1. next' \in {next, 0 + BatchSize} /\ progress' = progress
      BY <2>2 DEF BatchInference, StartChunk
    <3>2. QED
      BY <3>1
  <2>3. CASE EndChunk
    <3>1. progress' = Completed /\ (next' = next \/ (next < Len(Batch) /\ next' = next + BatchSize))
      BY <2>3 DEF EndChunk, StartChunk
    <3>2. QED
      BY <3>1 DEF Completed
  <2>4. CASE GuardAnswers \/ UNCHANGED vars
    BY <2>4 DEF GuardAnswers, batchVars, vars
  <2>5. QED
    BY <2>1, <2>2, <2>3, <2>4 DEF Next, Terminated
<1>3. QED
  BY <1>1, <1>2, PTL DEF Spec

LEMMA RestCorrect == Spec => []RestOK
<1> USE InputsAreCallers
<1>1. Init => RestOK
  BY DEF Init, RestOK
<1>2. RestOK /\ [Next]_vars => RestOK'
  <2> SUFFICES ASSUME RestOK, [Next]_vars PROVE RestOK'
    OBVIOUS
  <2> USE DEF RestOK
  <2>1. ASSUME NEW o \in Callers, NEW from, NEW to, Step(o, from, to)
        PROVE /\ results' \in Seq(Inputs) /\ errors' \in Seq(Inputs)
              /\ UNCHANGED batch
    BY <2>1 DEF Step, Record
  <2>2. ASSUME NEW o \in Callers, Start(o) \/ Prepare(o) \/ GuardRefuses(o) \/ Mined(o) PROVE RestOK'
    <3>1. UNCHANGED <<hasWallet, hasKey, nonce, accountNonce>>
      BY <2>2 DEF Start, Prepare, GuardRefuses, Mined, fixedVars, sendVars
    <3>2. \E from, to : Step(o, from, to)
      BY <2>2 DEF Start, Prepare, GuardRefuses, Mined
    <3>3. QED
      BY <2>1, <3>1, <3>2
  <2>3. ASSUME NEW o \in Callers, Guard(o) PROVE RestOK'
    BY <2>3 DEF Guard, fixedVars, sendVars, batchVars
  <2>4. ASSUME NEW o \in Callers, Populate(o) PROVE RestOK'
    <3>1. /\ UNCHANGED <<hasWallet, hasKey, accountNonce>>
          /\ nonce' \in {nonce, [nonce EXCEPT ![o] = accountNonce]}
      BY <2>4 DEF Populate, fixedVars
    <3>2. \E from, to : Step(o, from, to)
      BY <2>4 DEF Populate
    <3>3. QED
      BY <2>1, <3>1, <3>2
  <2>5. ASSUME NEW o \in Callers, Broadcast(o) PROVE RestOK'
    <3>1. /\ UNCHANGED <<hasWallet, hasKey, nonce>>
          /\ accountNonce' \in {accountNonce, accountNonce + 1}
      BY <2>5 DEF Broadcast, fixedVars
    <3>2. \E from, to : Step(o, from, to)
      BY <2>5 DEF Broadcast
    <3>3. QED
      BY <2>1, <3>1, <3>2
  <2>6. CASE BatchInference \/ EndChunk
    BY <2>6 DEF BatchInference, EndChunk, fixedVars, sendVars
  <2>7. CASE GuardAnswers \/ UNCHANGED vars
    BY <2>7 DEF GuardAnswers, fixedVars, sendVars, batchVars, vars
  <2>8. QED
    BY <2>2, <2>3, <2>4, <2>5, <2>6, <2>7 DEF Next, Proceed, Terminated
<1>3. QED
  BY <1>1, <1>2, PTL DEF Spec

\* Type correctness of the client.
THEOREM TypeCorrect == Spec => []TypeOK
<1>1. FlowTypeOK /\ RestOK /\ CountersOK => TypeOK
  BY DEF FlowTypeOK, RestOK, CountersOK, TypeOK
<1>2. QED
  BY <1>1, FlowTypeCorrect, RestCorrect, CountersCorrect, PTL
-----------------------------------------------------------------------------
InFlight(o) == pc[o] \notin {"idle", "done", "failed"}

\* The inputs in flight all belong to one chunk.
THEOREM ChunksDoNotOverlap == Spec => []OneChunkInFlight
<1> USE InputsAreCallers, BatchSizes
<1>1. Init => OneChunkInFlight
  BY DEF Init, OneChunkInFlight
<1>2. FlowTypeOK /\ SendInv /\ CountersOK /\ OneChunkInFlight /\ [Next]_vars => OneChunkInFlight'
  <2> SUFFICES ASSUME FlowTypeOK, SendInv, CountersOK, [Next]_vars,
                      \A o \in Inputs : InFlight(o) => o \in Chunk(next - BatchSize)
               PROVE  \A o \in Inputs : InFlight(o)' => o \in Chunk(next' - BatchSize)
    BY DEF OneChunkInFlight, InFlight
  <2> USE DEF InFlight
  <2>1. ASSUME NEW o \in Callers, NEW from, NEW to, Step(o, from, to), from # "idle" \/ o \notin Inputs, from \notin {"done", "failed"}
        PROVE  \A p \in Inputs : InFlight(p)' => p \in Chunk(next' - BatchSize)
    BY <2>1 DEF Step, Record, FlowTypeOK
  <2>2. ASSUME NEW o \in Callers, Start(o) \/ Proceed(o), ~Guard(o)
        PROVE  \A p \in Inputs : InFlight(p)' => p \in Chunk(next' - BatchSize)
    <3>1. \E from, to : Step(o, from, to) /\ (from # "idle" \/ o \notin Inputs) /\ from \notin {"done", "failed"}
      BY <2>2 DEF Start, Proceed, Prepare, GuardRefuses, Populate, Broadcast, Mined, Direct
    <3>2. QED
      BY <2>1, <3>1
  <2>3. CASE \E o \in Callers : Guard(o)
    BY <2>3 DEF Guard, batchVars
  <2>4. CASE BatchInference
    <3>1. \A o \in Inputs : pc[o] = "idle"
      BY <2>4 DEF BatchInference, SendInv
    <3>2. CASE UNCHANGED <<pc, next>>
      BY <3>1, <3>2
    <3>3. CASE StartChunk(0)
      BY <3>1, <3>3, (0 + BatchSize) - BatchSize = 0 DEF StartChunk
    <3>4. QED
      BY <2>4, <3>2, <3>3 DEF BatchInference
  <2>5. CASE EndChunk
    <3>1. \A o \in Inputs : ~InFlight(o)
      BY <2>5 DEF EndChunk, ChunkOver, Settled
    <3>2. CASE UNCHANGED <<pc, next>>
      BY <3>1, <3>2
    <3>3. CASE StartChunk(next)
      <4>1. next' - BatchSize = next
        BY <3>3 DEF StartChunk, CountersOK
      <4>2. QED
        BY <3>1, <3>3, <4>1 DEF StartChunk
    <3>4. QED
      BY <2>5, <3>2, <3>3 DEF EndChunk
  <2>6. CASE GuardAnswers \/ UNCHANGED vars
    BY <2>6 DEF GuardAnswers, batchVars, vars
  <2>7. QED
    BY <2>2, <2>3, <2>4, <2>5, <2>6 DEF Next, Terminated
<1>3. QED
  BY <1>1, <1>2, FlowTypeCorrect, SendInvariant, CountersCorrect, PTL DEF Spec
-----------------------------------------------------------------------------
LEMMA Appended ==
    ASSUME NEW S, NEW s \in Seq(S), NEW o \in S, o \notin ToSet(s), IsInjective(s)
    PROVE  IsInjective(Append(s, o)) /\ ToSet(Append(s, o)) = ToSet(s) \cup {o}
<1>1. DOMAIN s = 1 .. Len(s) /\ Len(s) \in Nat /\ DOMAIN Append(s, o) = 1 .. Len(s) + 1
  OBVIOUS
<1>2. /\ \A i \in 1 .. Len(s) : Append(s, o)[i] = s[i] /\ s[i] # o
      /\ Append(s, o)[Len(s) + 1] = o
  BY <1>1 DEF ToSet
<1>3. \A i, j \in 1 .. Len(s) + 1 : Append(s, o)[i] = Append(s, o)[j] => i = j
  BY <1>1, <1>2 DEF IsInjective
<1>4. ToSet(Append(s, o)) = ToSet(s) \cup {o}
  BY <1>1, <1>2 DEF ToSet
<1> QED
  BY <1>1, <1>3, <1>4 DEF IsInjective

LEMMA Joined ==
    ASSUME NEW S, NEW s \in Seq(S), NEW t \in Seq(S), IsInjective(s), IsInjective(t),
           ToSet(s) \cap ToSet(t) = {}
    PROVE  IsInjective(s \o t) /\ ToSet(s \o t) = ToSet(s) \cup ToSet(t)
<1> DEFINE u == s \o t
<1>1. /\ DOMAIN s = 1 .. Len(s) /\ Len(s) \in Nat /\ DOMAIN t = 1 .. Len(t) /\ Len(t) \in Nat
      /\ DOMAIN u = 1 .. Len(s) + Len(t)
  OBVIOUS
<1>2. /\ \A i \in 1 .. Len(s) : u[i] = s[i]
      /\ \A i \in Len(s) + 1 .. Len(s) + Len(t) : u[i] = t[i - Len(s)] /\ i - Len(s) \in 1 .. Len(t)
  BY <1>1
<1>3. \A i \in 1 .. Len(t) : u[i + Len(s)] = t[i]
  BY <1>1
<1> HIDE DEF u
<1>4. \A i \in 1 .. Len(s), j \in 1 .. Len(t) : s[i] # t[j]
  BY <1>1 DEF ToSet
<1>5. \A i, j \in 1 .. Len(s) + Len(t) : u[i] = u[j] => i = j
  <2> SUFFICES ASSUME NEW i \in 1 .. Len(s) + Len(t), NEW j \in 1 .. Len(s) + Len(t), u[i] = u[j]
               PROVE  i = j
    OBVIOUS
  <2>1. CASE i <= Len(s) /\ j <= Len(s)
    BY <1>1, <1>2, <2>1 DEF IsInjective
  <2>2. CASE i > Len(s) /\ j > Len(s)
    BY <1>1, <1>2, <2>2 DEF IsInjective
  <2>3. CASE i <= Len(s) /\ j > Len(s)
    BY <1>1, <1>2, <1>4, <2>3
  <2>4. CASE i > Len(s) /\ j <= Len(s)
    BY <1>1, <1>2, <1>4, <2>4
  <2> QED
    BY <1>1, <2>1, <2>2, <2>3, <2>4
<1>6. ToSet(u) = ToSet(s) \cup ToSet(t)
  <2>1. ToSet(u) \subseteq ToSet(s) \cup ToSet(t)
    BY <1>1, <1>2 DEF ToSet
  <2>2. ToSet(s) \subseteq ToSet(u)
    BY <1>1, <1>2 DEF ToSet
  <2>3. ToSet(t) \subseteq ToSet(u)
    <3> SUFFICES ASSUME NEW i \in 1 .. Len(t) PROVE t[i] \in ToSet(u)
      BY <1>1 DEF ToSet
    <3>1. i + Len(s) \in DOMAIN u /\ u[i + Len(s)] = t[i]
      BY <1>1, <1>3
    <3> QED
      BY <3>1 DEF ToSet
  <2> QED
    BY <2>1, <2>2, <2>3
<1> QED
  BY <1>1, <1>5, <1>6 DEF IsInjective, u

\* What an operation's own step may do, as far as the batch is concerned.
OwnStep(o) ==
    \E from, to : /\ Step(o, from, to) /\ from \notin {"done", "failed"}
                  /\ from # "idle" \/ o \notin Inputs

LEMMA StepsOfABatch ==
    ASSUME [Next]_vars
    PROVE  \/ \E o \in Callers : OwnStep(o)
           \/ BatchInference \/ EndChunk
           \/ UNCHANGED <<pc, batchVars>>
<1>1. ASSUME NEW o \in Callers, Start(o) \/ Proceed(o), ~Guard(o) PROVE OwnStep(o)
  BY <1>1 DEF OwnStep, Start, Proceed, Prepare, GuardRefuses, Populate, Broadcast, Mined, Direct
<1>2. ASSUME NEW o \in Callers, Guard(o) PROVE UNCHANGED <<pc, batchVars>>
  BY <1>2 DEF Guard, batchVars
<1>3. CASE GuardAnswers \/ UNCHANGED vars
  BY <1>3 DEF GuardAnswers, batchVars, vars
<1> QED
  BY <1>1, <1>2, <1>3 DEF Next, Terminated

\* The loop: what is behind it has settled, what is ahead of it has not begun.
LoopInv ==
    /\ \A k \in DOMAIN Batch : k > next => pc[Batch[k]] = "idle"
    /\ batch = "idle" => \A k \in DOMAIN Batch : pc[Batch[k]] = "idle"
    /\ batch = "running" => /\ next >= BatchSize
                            /\ \A k \in DOMAIN Batch : k <= next - BatchSize => Settled(Batch[k])
    /\ batch = "returned" => \A k \in DOMAIN Batch : Settled(Batch[k])
    /\ \A k \in DOMAIN Batch : k <= progress => Settled(Batch[k])

\* The lists: exactly the inputs that have settled, each once, in the list of its outcome.
ListsInv ==
    /\ IsInjective(results) /\ IsInjective(errors)
    /\ \A o \in Inputs : /\ o \in ToSet(results) <=> pc[o] = "done"
                         /\ o \in ToSet(errors) <=> pc[o] = "failed"

LEMMA BatchIsSequence ==
    /\ Batch \in Seq(Inputs) /\ IsInjective(Batch) /\ DOMAIN Batch = 1 .. Len(Batch)
    /\ \A k \in DOMAIN Batch : Batch[k] \in Inputs
    /\ \A o \in Inputs : \E k \in DOMAIN Batch : Batch[k] = o
<1>1. Batch \in Seq(Callers) /\ IsInjective(Batch)
  BY CitrateClientAssumption DEF CitrateClientAssumption
<1>2. DOMAIN Batch = 1 .. Len(Batch) /\ Len(Batch) \in Nat
  BY <1>1
<1>3. /\ \A k \in DOMAIN Batch : Batch[k] \in Inputs
      /\ \A o \in Inputs : \E k \in DOMAIN Batch : Batch[k] = o
  BY DEF Inputs, ToSet
<1>4. Batch \in Seq(Inputs)
  BY <1>1, <1>2, <1>3
<1> QED
  BY <1>1, <1>2, <1>3, <1>4

LEMMA LoopHolds == Spec => []LoopInv
<1> USE InputsAreCallers, BatchSizes, BatchIsSequence
<1>1. Init => LoopInv
  BY DEF Init, LoopInv, Settled
<1>2. FlowTypeOK /\ CountersOK /\ LoopInv /\ [Next]_vars => LoopInv'
  <2> SUFFICES ASSUME FlowTypeOK, CountersOK, LoopInv, [Next]_vars PROVE LoopInv'
    OBVIOUS
  <2>0. pc \in [Callers -> States] /\ next \in Nat /\ progress \in Nat
    BY DEF FlowTypeOK, CountersOK
  <2>1. ASSUME NEW o \in Callers, OwnStep(o) PROVE LoopInv'
    <3>1. UNCHANGED <<batch, next, progress>>
      BY <2>1 DEF OwnStep, Step, Record
    <3>2. \A k \in DOMAIN Batch : /\ Settled(Batch[k]) => Settled(Batch[k])'
                                  /\ pc[Batch[k]] = "idle" => pc'[Batch[k]] = "idle"
      BY <2>0, <2>1 DEF OwnStep, Step, Settled
    <3> QED
      BY <3>1, <3>2 DEF LoopInv
  <2>2. CASE BatchInference
    <3>1. batch = "idle" /\ progress' = progress
      BY <2>2 DEF BatchInference
    <3>2. \A k \in DOMAIN Batch : pc[Batch[k]] = "idle"
      BY <3>1 DEF LoopInv
    <3>3. CASE batch' = "threw" /\ UNCHANGED <<pc, next>>
      BY <3>1, <3>2, <3>3 DEF LoopInv, Settled
    <3>4. CASE Batch = <<>> /\ batch' = "returned" /\ UNCHANGED <<pc, next>>
      BY <3>1, <3>2, <3>4 DEF LoopInv, Settled
    <3>5. CASE batch' = "running" /\ StartChunk(0)
      <4>1. next' = BatchSize
        BY <3>5 DEF StartChunk
      <4>2. \A k \in DOMAIN Batch : k > next' => pc'[Batch[k]] = "idle"
        <5> SUFFICES ASSUME NEW k \in DOMAIN Batch, k > BatchSize PROVE pc'[Batch[k]] = "idle"
          BY <4>1
        <5>1. Batch[k] \notin Chunk(0)
          BY DEF Chunk, IsInjective
        <5> QED
          BY <2>0, <3>2, <3>5, <5>1 DEF StartChunk
      <4>3. \A k \in DOMAIN Batch : ~(k <= progress)
        BY <3>2 DEF LoopInv, Settled
      <4> QED
        BY <3>1, <3>5, <4>1, <4>2, <4>3 DEF LoopInv
    <3> QED
      BY <2>2, <3>3, <3>4, <3>5 DEF BatchInference
  <2>3. CASE EndChunk
    <3>1. batch = "running" /\ next >= BatchSize /\ progress' = Completed
      BY <2>3 DEF EndChunk, LoopInv
    <3>2. \A k \in DOMAIN Batch : k <= next => Settled(Batch[k])
      <4> SUFFICES ASSUME NEW k \in DOMAIN Batch, k <= next PROVE Settled(Batch[k])
        OBVIOUS
      <4>1. CASE k <= next - BatchSize
        BY <3>1, <4>1 DEF LoopInv
      <4>2. CASE k > next - BatchSize
        <5>1. Batch[k] \in Chunk(next - BatchSize)
          BY <2>0, <4>2 DEF Chunk
        <5> QED
          BY <2>3, <5>1 DEF EndChunk, ChunkOver
      <4> QED
        BY <2>0, <4>1, <4>2
    <3>3. \A k \in DOMAIN Batch : k <= progress' => k <= next
      BY <2>0, <3>1 DEF Completed
    <3>4. CASE batch' = "returned" /\ UNCHANGED <<pc, next>> /\ ~(next < Len(Batch))
      <4>1. \A k \in DOMAIN Batch : k <= next /\ Settled(Batch[k])'
        BY <2>0, <3>2, <3>4 DEF Settled
      <4> QED
        BY <2>0, <3>3, <3>4, <4>1 DEF LoopInv
    <3>5. CASE batch' = batch /\ StartChunk(next)
      <4>1. next' = next + BatchSize /\ next' - BatchSize = next
        BY <2>0, <3>5 DEF StartChunk
      <4>2. \A k \in DOMAIN Batch : ~(next < k /\ k <= next + BatchSize) => Batch[k] \notin Chunk(next)
        BY DEF Chunk, IsInjective
      <4>3. \A k \in DOMAIN Batch : ~(next < k /\ k <= next + BatchSize) => pc'[Batch[k]] = pc[Batch[k]]
        BY <2>0, <3>5, <4>2 DEF StartChunk
      <4>4. \A k \in DOMAIN Batch : k <= next => Settled(Batch[k])'
        BY <2>0, <3>2, <4>3 DEF Settled
      <4>5. \A k \in DOMAIN Batch : k > next' => pc'[Batch[k]] = "idle"
        BY <2>0, <4>1, <4>3 DEF LoopInv
      <4> QED
        BY <2>0, <3>1, <3>3, <3>5, <4>1, <4>4, <4>5 DEF LoopInv
    <3> QED
      BY <2>3, <3>4, <3>5 DEF EndChunk
  <2>4. CASE UNCHANGED <<pc, batchVars>>
    BY <2>4 DEF batchVars, LoopInv, Settled
  <2> QED
    BY <2>1, <2>2, <2>3, <2>4, StepsOfABatch
<1> QED
  BY <1>1, <1>2, FlowTypeCorrect, CountersCorrect, PTL DEF Spec

LEMMA ListsHold == Spec => []ListsInv
<1> USE InputsAreCallers, BatchIsSequence
<1>1. Init => ListsInv
  BY DEF Init, ListsInv, IsInjective, ToSet
<1>2. FlowTypeOK /\ RestOK /\ CountersOK /\ LoopInv /\ ListsInv /\ [Next]_vars => ListsInv'
  <2> SUFFICES ASSUME FlowTypeOK, RestOK, CountersOK, LoopInv, ListsInv, [Next]_vars PROVE ListsInv'
    OBVIOUS
  <2>0. pc \in [Callers -> States] /\ results \in Seq(Inputs) /\ errors \in Seq(Inputs)
    BY DEF FlowTypeOK, RestOK
  <2>1. ASSUME NEW o \in Callers, OwnStep(o) PROVE ListsInv'
    <3>1. PICK from, to : /\ Step(o, from, to) /\ from \notin {"done", "failed"}
      BY <2>1 DEF OwnStep
    <3>2. pc[o] = from /\ pc' = [pc EXCEPT ![o] = to]
      BY <3>1 DEF Step
    <3>3. o \in Inputs => o \notin ToSet(results) /\ o \notin ToSet(errors)
      BY <3>1, <3>2 DEF ListsInv
    <3>4. CASE o \in Inputs /\ to = "done"
      <4>1. results' = Append(results, o) /\ errors' = errors
        BY <3>1, <3>4 DEF Step, Record
      <4> QED
        BY <2>0, <3>1, <3>2, <3>3, <3>4, <4>1, Appended DEF ListsInv
    <3>5. CASE o \in Inputs /\ to = "failed"
      <4>1. errors' = Append(errors, o) /\ results' = results
        BY <3>1, <3>5 DEF Step, Record
      <4> QED
        BY <2>0, <3>1, <3>2, <3>3, <3>5, <4>1, Appended DEF ListsInv
    <3>6. CASE ~(o \in Inputs /\ to \in {"done", "failed"})
      <4>1. errors' = errors /\ results' = results
        BY <3>1, <3>6 DEF Step, Record
      <4> QED
        BY <2>0, <3>1, <3>2, <3>6, <4>1 DEF ListsInv
    <3> QED
      BY <3>4, <3>5, <3>6
  \* A chunk starts with inputs that were idle.
  <2>2. ASSUME UNCHANGED <<results, errors>>,
               \A o \in Inputs : pc'[o] = pc[o] \/ (pc[o] = "idle" /\ pc'[o] = "started")
        PROVE  ListsInv'
    BY <2>2 DEF ListsInv
  <2>3. ASSUME NEW i \in Nat, StartChunk(i), \A k \in DOMAIN Batch : k > i => pc[Batch[k]] = "idle"
        PROVE  \A o \in Inputs : pc'[o] = pc[o] \/ (pc[o] = "idle" /\ pc'[o] = "started")
    <3>1. \A o \in Chunk(i) : pc[o] = "idle"
      BY <2>3 DEF Chunk
    <3> QED
      BY <2>0, <2>3, <3>1 DEF StartChunk
  <2>4. CASE BatchInference
    <3>1. UNCHANGED <<results, errors>> /\ batch = "idle"
      BY <2>4 DEF BatchInference
    <3>2. \A k \in DOMAIN Batch : k > 0 => pc[Batch[k]] = "idle"
      BY <3>1 DEF LoopInv
    <3>3. UNCHANGED pc \/ StartChunk(0)
      BY <2>4 DEF BatchInference
    <3> QED
      BY <2>2, <2>3, <3>1, <3>2, <3>3
  <2>5. CASE EndChunk
    <3>1. UNCHANGED <<results, errors>> /\ (UNCHANGED pc \/ StartChunk(next))
      BY <2>5 DEF EndChunk
    <3>2. next \in Nat /\ \A k \in DOMAIN Batch : k > next => pc[Batch[k]] = "idle"
      BY BatchSizes DEF CountersOK, LoopInv
    <3> QED
      BY <2>2, <2>3, <3>1, <3>2
  <2>6. CASE UNCHANGED <<pc, batchVars>>
    BY <2>2, <2>6 DEF batchVars
  <2> QED
    BY <2>1, <2>4, <2>5, <2>6, StepsOfABatch
<1> QED
  BY <1>1, <1>2, FlowTypeCorrect, RestCorrect, CountersCorrect, LoopHolds, PTL DEF Spec

\* However the inputs of a chunk settle, and for every batch and chunk size: what onProgress reports
\* as completed is, and a batch that returns has each input exactly once in one of its two lists.
THEOREM ProgressTellsTheTruth == Spec => []ProgressIsSettled
<1>1. CountersOK /\ LoopInv => ProgressIsSettled
  <2> SUFFICES ASSUME CountersOK, LoopInv, NEW k \in 1 .. progress PROVE Settled(Batch[k])
    BY DEF ProgressIsSettled
  <2>1. k \in DOMAIN Batch /\ k <= progress
    BY BatchSizes, BatchIsSequence DEF CountersOK
  <2> QED
    BY <2>1 DEF LoopInv
<1> QED
  BY <1>1, CountersCorrect, LoopHolds, PTL

THEOREM BatchesAccount == Spec => []BatchAccounts
<1>1. RestOK /\ LoopInv /\ ListsInv => BatchAccounts
  <2> SUFFICES ASSUME RestOK, LoopInv, ListsInv, batch = "returned"
               PROVE  IsInjective(results \o errors) /\ ToSet(results \o errors) = Inputs
    BY DEF BatchAccounts
  <2>1. results \in Seq(Inputs) /\ errors \in Seq(Inputs)
    BY DEF RestOK
  <2>2. ToSet(results) \subseteq Inputs /\ ToSet(errors) \subseteq Inputs
    BY <2>1 DEF ToSet
  <2>3. ToSet(results) \cap ToSet(errors) = {}
    BY <2>2 DEF ListsInv
  <2>4. Inputs \subseteq ToSet(results) \cup ToSet(errors)
    BY BatchIsSequence DEF LoopInv, ListsInv, Settled
  <2>5. /\ IsInjective(results \o errors)
        /\ ToSet(results \o errors) = ToSet(results) \cup ToSet(errors)
    <3>1. IsInjective(results) /\ IsInjective(errors)
      BY DEF ListsInv
    <3>2. \A s, t \in Seq(Inputs) :
            IsInjective(s) /\ IsInjective(t) /\ ToSet(s) \cap ToSet(t) = {}
                => IsInjective(s \o t) /\ ToSet(s \o t) = ToSet(s) \cup ToSet(t)
      BY Joined
    <3> QED
      BY ONLY <2>1, <2>3, <3>1, <3>2
  <2> QED
    BY <2>2, <2>4, <2>5, Zenon
<1> QED
  BY <1>1, RestCorrect, LoopHolds, ListsHold, PTL
=============================================================================
