---------------------------- MODULE CallContract ----------------------------
(***************************************************************************)
(* What WebSocketClient.sendMessage promises its callers, with no socket,  *)
(* timer or table in sight: a call that was made settles exactly once, and *)
(* a call that is answered is answered with the reply made for that call.  *)
(* WebSocketClient implements this (Contract in WebSocketClient.tla).      *)
(***************************************************************************)
CONSTANTS
    Calls,   \* the calls the application makes; each is made at most once
    None     \* "no answer yet"

VARIABLES
    callState,   \* "idle", "waiting", "answered" or "rejected", per call
    answer       \* the call whose reply settled this one, or None

vars == <<callState, answer>>

CallStates == {"idle", "waiting", "answered", "rejected"}

TypeOK ==
    /\ callState \in [Calls -> CallStates]
    /\ answer \in [Calls -> Calls \cup {None}]

Init ==
    /\ callState = [c \in Calls |-> "idle"]
    /\ answer = [c \in Calls |-> None]

\* The promise is handed out: pending, or already rejected because the request could not be sent.
Issue(c) ==
    /\ callState[c] = "idle"
    /\ \E outcome \in {"waiting", "rejected"} : callState' = [callState EXCEPT ![c] = outcome]
    /\ UNCHANGED answer

Answer(c) ==
    /\ callState[c] = "waiting"
    /\ callState' = [callState EXCEPT ![c] = "answered"]
    /\ answer' = [answer EXCEPT ![c] = c]

\* A remote error or a timeout rejects one call; a disconnect rejects all that wait.
Reject(S) ==
    /\ S # {}
    /\ \A c \in S : callState[c] = "waiting"
    /\ callState' = [c \in Calls |-> IF c \in S THEN "rejected" ELSE callState[c]]
    /\ UNCHANGED answer

Settle(c) ==
    \/ Answer(c)
    \/ \E S \in SUBSET Calls : c \in S /\ Reject(S)

Next ==
    \/ \E c \in Calls : Issue(c) \/ Answer(c)
    \/ \E S \in SUBSET Calls : Reject(S)

Spec == Init /\ [][Next]_vars

\* Every call settles: each one carries a timer of its own.
FairSpec == Spec /\ \A c \in Calls : WF_vars(Settle(c))
=============================================================================
