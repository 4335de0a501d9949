------------------------ MODULE WebSocketClient_proofs ------------------------
(***************************************************************************)
(* The invariants of WebSocketClient, for any number of sockets and calls  *)
(* and any value of the other constants, and the step simulation of        *)
(* CallContract.                                                           *)
(***************************************************************************)
EXTENDS WebSocketClient, TLAPS

\* Every variable keeps its type; in particular reconnectAttempts never exceeds the configured
\* number, whichever sockets open, fail and close in between.
THEOREM TypeCorrect == Spec => []TypeOK
<1>1. Init => TypeOK
  <2>1. Init => CountersOK
    BY WebSocketAssumption DEF WebSocketAssumption, Init, CountersOK
  <2>2. QED
    BY <2>1 DEF Init, TypeOK, ReadyStates
<1>2. TypeOK /\ [Next]_vars => TypeOK'
  <2> SUFFICES ASSUME TypeOK, [Next]_vars PROVE TypeOK'
    OBVIOUS
  <2> USE DEF TypeOK, ReadyStates, Entries, socketVars, reconnectVars, pingVars, callVars
  <2>0. CountersOK'
    <3> USE WebSocketAssumption DEF WebSocketAssumption, CountersOK
    <3>1. ASSUME NEW s \in Sockets, OnOpen(s) PROVE CountersOK'
      BY <3>1 DEF OnOpen
    <3>2. ASSUME NEW s \in Sockets, NEW wasClean \in BOOLEAN, OnClose(s, wasClean) PROVE CountersOK'
      BY <3>2 DEF OnClose, ScheduleReconnect, MayRetry
    <3>3. CASE ReconnectTimer
      BY <3>3 DEF ReconnectTimer
    <3>4. ASSUME NEW c \in Calls, SendMessage(c) \/ SendThrows(c) PROVE CountersOK'
      BY <3>4 DEF SendMessage, SendThrows, NextId
    <3>5. CASE UNCHANGED <<reconnectVars, messageId>>
      BY <3>5
    <3>6. QED
      BY <3>1, <3>2, <3>3, <3>4, <3>5
         DEF Next, vars, Connect, Disconnect, SocketEvent, OnError, ConnectTimeout, RequestTimeout, Response
  <2>1. CASE Connect
    BY <2>0, <2>1 DEF Connect, NewSocket
  <2>2. CASE Disconnect
    BY <2>0, <2>2 DEF Disconnect, RejectAllPending, StopPing, CloseSocket, SettleCalls, Waiting
  <2>3. ASSUME NEW s \in Sockets, OnOpen(s) PROVE TypeOK'
    BY <2>0, <2>3 DEF OnOpen, StartPing, SettlePromise
  <2>4. ASSUME NEW s \in Sockets, OnError(s) PROVE TypeOK'
    BY <2>0, <2>4 DEF OnError, SettlePromise
  <2>5. ASSUME NEW s \in Sockets, NEW wasClean \in BOOLEAN, OnClose(s, wasClean) PROVE TypeOK'
    BY <2>0, <2>5 DEF OnClose, StopPing
  <2>6. ASSUME NEW s \in Sockets, ConnectTimeout(s) PROVE TypeOK'
    BY <2>0, <2>6 DEF ConnectTimeout, SettlePromise
  <2>7. CASE ReconnectTimer
    BY <2>0, <2>7 DEF ReconnectTimer, NewSocket
  <2> NextId \in Nat
    BY DEF NextId, CountersOK
  <2>8. ASSUME NEW c \in Calls, SendMessage(c) PROVE TypeOK'
    BY <2>0, <2>8 DEF SendMessage, SetPending, IsConnected
  <2>9. ASSUME NEW c \in Calls, SendThrows(c) PROVE TypeOK'
    BY <2>0, <2>9 DEF SendThrows, SetPending
  <2>10. ASSUME NEW c \in Calls, RequestTimeout(c) PROVE TypeOK'
    BY <2>0, <2>10 DEF RequestTimeout, SettleCalls, Waiting
  <2>11. ASSUME NEW r \in wire, NEW ok \in BOOLEAN, Response(r, ok) PROVE TypeOK'
    BY <2>0, <2>11 DEF Response, SettleCalls, Waiting
  <2>12. CASE UNCHANGED vars
    BY <2>0, <2>12 DEF vars
  <2>13. QED
    BY <2>1, <2>2, <2>3, <2>4, <2>5, <2>6, <2>7, <2>8, <2>9, <2>10, <2>11, <2>12 DEF Next, SocketEvent
<1>3. QED
  BY <1>1, <1>2, PTL DEF Spec
-----------------------------------------------------------------------------
\* The steps that leave the calls, the table and this.ws alone, or only replace ws by a socket
\* or drop requests from the wire.
LEMMA ConnectionStepKeepsCallInv ==
    ASSUME TypeOK, CallInv, UNCHANGED callVars, wire' \subseteq wire, ws' = None => ws = None
    PROVE CallInv'
BY DEF CallInv, WaitingIsPending, OwnAnswer, Waiting, callVars

\* CallInv is inductive: it holds initially and every step preserves it.
THEOREM CallInvariant == Spec => []CallInv
<1>1. Init => CallInv
  BY WebSocketAssumption DEF Init, CallInv, WaitingIsPending, OwnAnswer, Waiting
<1>2. TypeOK /\ CallInv /\ [Next]_vars => CallInv'
  <2> SUFFICES ASSUME TypeOK, CallInv, [Next]_vars PROVE CallInv'
    OBVIOUS
  <2>1. CASE Connect
    BY <2>1, ConnectionStepKeepsCallInv, WebSocketAssumption DEF Connect, NewSocket
  <2>2. CASE Disconnect
    BY <2>2 DEF Disconnect, RejectAllPending, SettleCalls, Waiting, CallInv, WaitingIsPending, OwnAnswer, TypeOK
  <2>3. ASSUME NEW s \in Sockets, OnOpen(s) \/ OnError(s) PROVE CallInv'
    BY <2>3, ConnectionStepKeepsCallInv DEF OnOpen, OnError, callVars
  <2>4. ASSUME NEW s \in Sockets, NEW wasClean \in BOOLEAN, OnClose(s, wasClean) PROVE CallInv'
    BY <2>4, ConnectionStepKeepsCallInv DEF OnClose
  <2>5. ASSUME NEW s \in Sockets, ConnectTimeout(s) PROVE CallInv'
    BY <2>5, ConnectionStepKeepsCallInv DEF ConnectTimeout
  <2>6. CASE ReconnectTimer
    BY <2>6, ConnectionStepKeepsCallInv, WebSocketAssumption DEF ReconnectTimer, NewSocket, socketVars
  <2>7. ASSUME NEW c \in Calls, SendMessage(c) \/ SendThrows(c) PROVE CallInv'
    <3> USE <2>7 DEF SendMessage, SendThrows, SetPending, NextId
    <3>1. pendingRequests' = pendingRequests \cup {[id |-> messageId + 1, call |-> c]}
      BY DEF CallInv, TypeOK, CountersOK, Entries
    <3>2. wire' \subseteq wire \cup {[id |-> messageId + 1, call |-> c, sock |-> ws]}
      OBVIOUS
    <3>3. /\ messageId' = messageId + 1
          /\ messageId \in Nat
          /\ ws' = ws /\ ws # None
          /\ answer' = answer
          /\ callState[c] = "idle"
      BY DEF TypeOK, CountersOK, socketVars, IsConnected
    <3>4. /\ \A p \in pendingRequests : p.id \in Nat /\ p.id <= messageId
          /\ \A r \in wire : r.id \in Nat /\ r.id <= messageId
      BY DEF TypeOK, Entries, CallInv
    <3>5. /\ \A p \in pendingRequests' : p.id <= messageId'
          /\ \A r \in wire' : r.id <= messageId'
          /\ \A r \in wire', p \in pendingRequests' : r.id = p.id => r.call = p.call
      BY <3>1, <3>2, <3>3, <3>4 DEF CallInv
    <3>6. WaitingIsPending'
      <4>1. \A d \in Calls : d # c => callState'[d] = callState[d]
        BY DEF TypeOK
      <4>2. [id |-> messageId + 1, call |-> c].call = c
        OBVIOUS
      <4>3. QED
        BY <3>1, <4>1, <4>2 DEF CallInv, WaitingIsPending, Waiting
    <3>7. OwnAnswer'
      BY <3>3 DEF CallInv, OwnAnswer, TypeOK
    <3>8. QED
      BY <3>3, <3>5, <3>6, <3>7 DEF CallInv
  <2>8. ASSUME NEW c \in Calls, RequestTimeout(c) PROVE CallInv'
    BY <2>8 DEF RequestTimeout, SettleCalls, Waiting, CallInv, WaitingIsPending, OwnAnswer, TypeOK, socketVars
  <2>9. ASSUME NEW r \in wire, NEW ok \in BOOLEAN, Response(r, ok) PROVE CallInv'
    <3>1. PICK p \in pendingRequests :
            /\ p.id = r.id
            /\ pendingRequests' = pendingRequests \ {p}
            /\ SettleCalls({p.call}, IF ok THEN "answered" ELSE "rejected")
            /\ answer' = IF ok /\ p.call \in Waiting THEN [answer EXCEPT ![p.call] = r.call] ELSE answer
      BY <2>9 DEF Response
    <3>2. p.call \in Calls /\ r.call = p.call
      BY <3>1 DEF CallInv, TypeOK, Entries
    <3>3. wire' = wire /\ ws' = ws /\ messageId' = messageId
      BY <2>9 DEF Response, socketVars
    <3>4. WaitingIsPending'
      BY <3>1, <3>2 DEF SettleCalls, Waiting, CallInv, WaitingIsPending, TypeOK
    <3>5. OwnAnswer'
      BY <3>1, <3>2 DEF SettleCalls, Waiting, CallInv, OwnAnswer, TypeOK
    <3>6. QED
      BY <3>1, <3>3, <3>4, <3>5 DEF CallInv
  <2>10. CASE UNCHANGED vars
    BY <2>10, ConnectionStepKeepsCallInv DEF vars, socketVars
  <2>11. QED
    BY <2>1, <2>2, <2>3, <2>4, <2>5, <2>6, <2>7, <2>8, <2>9, <2>10 DEF Next, SocketEvent
<1>3. QED
  BY <1>1, <1>2, TypeCorrect, PTL DEF Spec

\* No caller is lost: a call that still waits has its entry, and so its timeout, in the table.
THEOREM NoCallerIsLost == Spec => []WaitingIsPending
<1>1. CallInv => WaitingIsPending
  BY DEF CallInv
<1>2. QED
  BY <1>1, CallInvariant, PTL

\* A resolved call was resolved with the reply to that very call, over any number of reconnects
\* and of sockets that stay open behind the client's back.
THEOREM AnswersMatchCalls == Spec => []OwnAnswer
<1>1. CallInv => OwnAnswer
  BY DEF CallInv
<1>2. QED
  BY <1>1, CallInvariant, PTL

\* disconnect() leaves nobody waiting, and nobody starts to wait before the next connect().
THEOREM DisconnectSettlesCalls == Spec => []NoCallOutlivesDisconnect
<1>1. CallInv => NoCallOutlivesDisconnect
  BY DEF CallInv, WaitingIsPending, NoCallOutlivesDisconnect
<1>2. QED
  BY <1>1, CallInvariant, PTL
-----------------------------------------------------------------------------
\* DisciplinedInv is inductive.
THEOREM DisciplinedInvariant == Spec => []DisciplinedInv
<1>1. Init => DisciplinedInv
  BY DEF Init, DisciplinedInv, RetryIsAhead
<1>2. TypeOK /\ DisciplinedInv /\ [Next]_vars => DisciplinedInv'
  <2> SUFFICES ASSUME TypeOK, DisciplinedInv, [Next]_vars, Disciplined PROVE DisciplinedInv'
    BY DEF DisciplinedInv
  <2> USE WebSocketAssumption
      DEF WebSocketAssumption, TypeOK, CountersOK, ReadyStates, DisciplinedInv, RetryIsAhead, socketVars, reconnectVars, pingVars
  <2>1. CASE Connect
    BY <2>1 DEF Connect, NewSocket, Quiet
  <2>2. ASSUME NEW s \in Sockets, OnOpen(s) PROVE DisciplinedInv'
    BY <2>2 DEF OnOpen, StartPing
  <2>3. ASSUME NEW s \in Sockets, OnError(s) PROVE DisciplinedInv'
    BY <2>3 DEF OnError
  <2>4. ASSUME NEW s \in Sockets, NEW wasClean \in BOOLEAN, OnClose(s, wasClean) PROVE DisciplinedInv'
    BY <2>4 DEF OnClose, StopPing, ScheduleReconnect, MayRetry
  <2>5. ASSUME NEW s \in Sockets, ConnectTimeout(s) PROVE DisciplinedInv'
    BY <2>5 DEF ConnectTimeout
  <2>6. CASE ReconnectTimer
    <3>1. \A s \in Sockets : readyState[s] = "closed"
      BY <2>6 DEF ReconnectTimer
    <3>2. MayConnect
      BY <3>1 DEF MayConnect, IsConnected
    <3>3. PICK s \in Sockets : NewSocket(s)
      BY <2>6, <3>2 DEF ReconnectTimer
    <3>4. reconnectTimers' = 0 /\ UNCHANGED <<reconnectAttempts, pingVars>>
      BY <2>6 DEF ReconnectTimer
    <3>5. QED
      BY <3>1, <3>3, <3>4 DEF NewSocket
  <2>7. CASE UNCHANGED <<socketVars, reconnectVars, pingVars>>
    BY <2>7
  <2>8. QED
    BY <2>1, <2>2, <2>3, <2>4, <2>5, <2>6, <2>7
       DEF Next, vars, SocketEvent, Disconnect, SendMessage, SendThrows, RequestTimeout, Response
<1>3. QED
  BY <1>1, <1>2, TypeCorrect, PTL DEF Spec

\* A disciplined application never has a second socket alive beside this.ws, however many drops,
\* failed handshakes and automatic reconnects it lives through.
THEOREM DisciplinedKeepsOneSocket == Spec => []OneSocket
<1>1. DisciplinedInv => OneSocket
  BY DEF DisciplinedInv, OneSocket
<1>2. QED
  BY <1>1, DisciplinedInvariant, PTL

\* ... it pings exactly while it is connected, and leaks no interval ...
THEOREM DisciplinedPings == Spec => []PingFollowsConnection
<1>1. TypeOK /\ DisciplinedInv => PingFollowsConnection
  BY DEF TypeOK, DisciplinedInv, PingFollowsConnection, IsConnected
<1>2. QED
  BY <1>1, TypeCorrect, DisciplinedInvariant, PTL

\* ... and it never stops retrying with attempts to spare.
THEOREM DisciplinedRetries == Spec => []RetryIsAhead
<1>1. DisciplinedInv => RetryIsAhead
  BY DEF DisciplinedInv, RetryIsAhead
<1>2. QED
  BY <1>1, DisciplinedInvariant, PTL
-----------------------------------------------------------------------------
\* Every step of the client is a step of CallContract or leaves the calls alone.
LEMMA StepSimulates ==
    ASSUME TypeOK, CallInv, [Next]_vars
    PROVE [Contract!Next]_(Contract!vars)
<1> USE DEF Contract!vars
<1>1. ASSUME NEW c \in Calls, SendMessage(c) \/ SendThrows(c) PROVE Contract!Next
  <2>1. Contract!Issue(c)
    BY <1>1 DEF SendMessage, SendThrows, Contract!Issue
  <2>2. QED
    BY <2>1 DEF Contract!Next
<1>2. ASSUME NEW S \in SUBSET Calls, SettleCalls(S, "rejected"), answer' = answer
      PROVE Contract!Next \/ UNCHANGED Contract!vars
  <2>1. CASE S \cap Waiting = {}
    <3>1. callState' = callState
      BY <1>2, <2>1 DEF SettleCalls, TypeOK
    <3>2. QED
      BY <1>2, <3>1
  <2>2. CASE S \cap Waiting # {}
    <3>1. Contract!Reject(S \cap Waiting)
      BY <1>2, <2>2 DEF SettleCalls, Waiting, Contract!Reject
    <3>2. QED
      BY <3>1 DEF Contract!Next, Waiting
  <2>3. QED
    BY <2>1, <2>2
<1>3. ASSUME NEW r \in wire, NEW ok \in BOOLEAN, Response(r, ok)
      PROVE Contract!Next \/ UNCHANGED Contract!vars
  <2>1. PICK p \in pendingRequests :
          /\ p.id = r.id
          /\ SettleCalls({p.call}, IF ok THEN "answered" ELSE "rejected")
          /\ answer' = IF ok /\ p.call \in Waiting THEN [answer EXCEPT ![p.call] = r.call] ELSE answer
    BY <1>3 DEF Response
  <2>2. p.call \in Calls /\ r.call = p.call
    BY <2>1 DEF CallInv, TypeOK, Entries
  <2>3. CASE ok /\ p.call \in Waiting
    <3>1. Contract!Answer(p.call)
      BY <2>1, <2>2, <2>3 DEF SettleCalls, Waiting, TypeOK, Contract!Answer
    <3>2. QED
      BY <2>2, <3>1 DEF Contract!Next
  <2>4. CASE ~ok
    BY <1>2, <2>1, <2>2, <2>4
  <2>5. CASE p.call \notin Waiting
    <3>1. callState' = callState
      BY <2>1, <2>5 DEF SettleCalls, TypeOK
    <3>2. QED
      BY <2>1, <2>5, <3>1
  <2>6. QED
    BY <2>3, <2>4, <2>5
<1>4. ASSUME NEW c \in Calls, RequestTimeout(c) PROVE Contract!Next \/ UNCHANGED Contract!vars
  BY <1>2, <1>4 DEF RequestTimeout
<1>5. CASE Disconnect
  <2>1. {p.call : p \in pendingRequests} \subseteq Calls
    BY DEF TypeOK, Entries
  <2>2. QED
    BY <1>2, <1>5, <2>1 DEF Disconnect, RejectAllPending
<1>6. CASE UNCHANGED callVars
  BY <1>6 DEF callVars
<1>7. QED
  BY <1>1, <1>2, <1>3, <1>4, <1>5, <1>6
     DEF Next, vars, SocketEvent, Connect, OnOpen, OnError, OnClose, ConnectTimeout, ReconnectTimer

\* The client implements the contract of sendMessage: each call settles at most once, and is
\* answered only with its own reply.  (That it settles is checked by TLC, under fairness.)
THEOREM ClientImplementsContract == Spec => Contract!Spec
<1>1. Init => Contract!Init
  BY DEF Init, Contract!Init
<1>2. QED
  BY <1>1, StepSimulates, TypeCorrect, CallInvariant, PTL DEF Spec, Contract!Spec
=============================================================================
