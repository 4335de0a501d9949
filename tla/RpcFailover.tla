------------------------------ MODULE RpcFailover ------------------------------
(***************************************************************************)
(* rpcCall of src/src/client/CitrateClient.ts with the axios interceptors  *)
(* it relies on: a call walks the pool of endpoints until one gives an     *)
(* answer.  What an endpoint does with the call is fixed at the start.     *)
(***************************************************************************)
EXTENDS Naturals

CONSTANTS
    N,         \* this.axiosPool.length
    Replies    \* what endpoints do; a subset of AllReplies

AllReplies == {
    "result",       \* 2xx with a result, or with neither result nor error
    "noBody",       \* 2xx without a body: reading response.data.error throws a TypeError
    "error",        \* 2xx with a JSON-RPC error
    "errorNet",     \*   ... whose message starts with "Network error:"
    "http",         \* another status, with a JSON-RPC error in the body
    "httpNet",      \*   ... whose message starts with "Network error:"
    "transport"}    \* no response, a timeout, or another status without an error in the body

ASSUME RpcFailoverAssumption == N \in Nat \ {0} /\ Replies \subseteq AllReplies

VARIABLES
    reply,      \* per endpoint: what it does with this call (fixed)
    i,          \* the loop variable, from 1
    lastError,  \* the endpoint lastError comes from, 0: undefined
    outcome     \* "none", "returned" or "threw"

vars == <<reply, i, lastError, outcome>>

TypeOK ==
    /\ reply \in [1 .. N -> Replies]
    /\ i \in 1 .. N + 1
    /\ lastError \in 0 .. N
    /\ outcome \in {"none", "returned", "threw"}

Init ==
    /\ reply \in [1 .. N -> Replies]
    /\ i = 1
    /\ lastError = 0
    /\ outcome = "none"

\* What the try block ends with: the response interceptor turns a JSON-RPC error in the body into
\* a CitrateError with its message and everything else into one that starts with "Network error:".
Thrown(r) ==
    CASE r = "result" -> "nothing"
      [] r = "noBody" -> "TypeError"
      [] r \in {"error", "http"} -> "CitrateError"
      [] r \in {"errorNet", "httpNet", "transport"} -> "CitrateError: Network error"

\* Mutated form: every error moves on to the next endpoint.
SurfacesNever(r) == FALSE

\* The test of the catch block.
Surfaces(r) == Thrown(r) = "CitrateError"

Return ==
    /\ Thrown(reply[i]) = "nothing"
    /\ outcome' = "returned"
    /\ UNCHANGED <<reply, i, lastError>>

Surface ==
    /\ Surfaces(reply[i])
    /\ outcome' = "threw"
    /\ UNCHANGED <<reply, i, lastError>>

\* Mutated form: the catch repeats the same endpoint.
FailOverSame ==
    /\ Thrown(reply[i]) # "nothing" /\ ~Surfaces(reply[i])
    /\ lastError' = i
    /\ UNCHANGED <<reply, i, outcome>>

FailOver ==
    /\ Thrown(reply[i]) # "nothing" /\ ~Surfaces(reply[i])
    /\ lastError' = i
    /\ i' = i + 1
    /\ UNCHANGED <<reply, outcome>>

MoreEndpoints == i <= N

Post == outcome = "none" /\ MoreEndpoints /\ (Return \/ Surface \/ FailOver)

\* After the loop: lastError, or the error that says so.
AllFailed ==
    /\ outcome = "none" /\ ~MoreEndpoints
    /\ outcome' = "threw"
    /\ UNCHANGED <<reply, i, lastError>>

Terminated == outcome # "none" /\ UNCHANGED vars

Next == Post \/ AllFailed \/ Terminated

Spec == Init /\ [][Next]_vars /\ WF_vars(Post \/ AllFailed)
-----------------------------------------------------------------------------
RpcErrors == {"error", "errorNet", "http", "httpNet"}
Reachable == RpcErrors \cup {"result"}
Answers == {k \in 1 .. N : reply[k] \in Reachable}

\* (Between the nodes of the passing run, none of which starts a message with "Network error:".)
\* The call fails for want of an endpoint only when no endpoint gives an answer, and what it
\* ends with otherwise is the answer of the first endpoint that gives one.
FirstAnswerWins ==
    outcome # "none" =>
        IF Answers = {} THEN outcome = "threw" /\ i = N + 1
        ELSE /\ i \in Answers
             /\ \A k \in Answers : i <= k
             /\ outcome = "returned" <=> reply[i] = "result"

\* Every call ends.
CallEnds == <>(outcome # "none")
=============================================================================
