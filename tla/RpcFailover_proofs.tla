-------------------------- MODULE RpcFailover_proofs --------------------------
(***************************************************************************)
(* Proof about RpcFailover.tla, for any number of endpoints.               *)
(***************************************************************************)
EXTENDS RpcFailover, TLAPS

\* No node starts the message of a JSON-RPC error with "Network error:".
PlainNodes == Replies \cap {"errorNet", "httpNet"} = {}

\* The endpoints passed over gave no answer, and an outcome is that of the endpoint at i.
WalkInv ==
    /\ reply \in [1 .. N -> Replies]
    /\ i \in 1 .. N + 1
    /\ \A k \in 1 .. N : k < i => k \notin Answers
    /\ outcome = "returned" => i <= N /\ reply[i] = "result"
    /\ outcome = "threw" => i = N + 1 \/ reply[i] \in {"error", "http"}
    /\ outcome \in {"none", "returned", "threw"}

LEMMA ThrownByAnswers ==
    ASSUME NEW r \in AllReplies
    PROVE  /\ Thrown(r) = "nothing" <=> r = "result"
           /\ Surfaces(r) <=> r \in {"error", "http"}
BY DEF Thrown, Surfaces, AllReplies

\* Between nodes that keep "Network error:" out of their messages, the call ends with the answer
\* of the first endpoint that gives one, and fails for want of an endpoint only when none does.
THEOREM FirstAnswer == ASSUME PlainNodes PROVE Spec => []FirstAnswerWins
<1> USE RpcFailoverAssumption DEF RpcFailoverAssumption
<1>1. Init => WalkInv
  BY DEF Init, WalkInv
<1>2. WalkInv /\ [Next]_vars => WalkInv'
  <2> SUFFICES ASSUME WalkInv, [Next]_vars PROVE WalkInv'
    OBVIOUS
  <2> USE DEF WalkInv
  <2>1. CASE Post
    <3>1. i \in 1 .. N /\ reply[i] \in Replies /\ reply[i] \in AllReplies /\ reply[i] \notin {"errorNet", "httpNet"}
      BY <2>1, PlainNodes DEF Post, MoreEndpoints, PlainNodes
    <3>2. /\ Thrown(reply[i]) = "nothing" <=> reply[i] = "result"
          /\ Surfaces(reply[i]) <=> reply[i] \in {"error", "http"}
      BY <3>1, ThrownByAnswers
    <3>3. CASE Return
      BY <3>1, <3>2, <3>3 DEF Return, Answers
    <3>4. CASE Surface
      BY <3>1, <3>2, <3>4 DEF Surface, Answers
    <3>5. CASE FailOver
      <4>1. outcome = "none" /\ i' = i + 1 /\ reply' = reply /\ outcome' = "none"
        BY <2>1, <3>5 DEF Post, FailOver
      <4>2. i \notin Answers
        BY <3>1, <3>2, <3>5 DEF FailOver, Answers, Reachable, RpcErrors
      <4>3. \A k \in 1 .. N : k < i + 1 => k \notin Answers
        BY <4>2
      <4>4. QED
        BY <3>1, <4>1, <4>3 DEF Answers
    <3>6. QED
      BY <2>1, <3>3, <3>4, <3>5 DEF Post
  <2>2. CASE AllFailed
    BY <2>2 DEF AllFailed, MoreEndpoints, Answers
  <2>3. CASE Terminated \/ UNCHANGED vars
    BY <2>3 DEF Terminated, vars, Answers
  <2>4. QED
    BY <2>1, <2>2, <2>3 DEF Next
<1>3. WalkInv => FirstAnswerWins
  BY DEF WalkInv, FirstAnswerWins, Answers, Reachable, RpcErrors
<1>4. QED
  BY <1>1, <1>2, <1>3, PTL DEF Spec
=============================================================================
