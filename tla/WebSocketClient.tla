--------------------------- MODULE WebSocketClient ---------------------------
(***************************************************************************)
(* src/src/client/WebSocketClient.ts: one client object, the WebSocket     *)
(* objects it has created, its timers and its table of pending requests.   *)
(* JavaScript runs each handler to completion, so a handler is one action; *)
(* what interleaves is the order of the handlers: socket events, timers    *)
(* and the calls the application makes.                                    *)
(*                                                                         *)
(* Every socket keeps the handlers connect() attached to it even after the *)
(* client has moved on to another one, so the actions of a socket are not  *)
(* limited to the socket this.ws names.  A socket that is closed and no    *)
(* longer referenced may be reused for a later `new WebSocket`.            *)
(***************************************************************************)
EXTENDS Naturals, FiniteSets

CONSTANTS
    Sockets,         \* the WebSocket objects that can be alive at once
    Calls,           \* the sendMessage calls the application makes
    None,            \* null
    MaxReconnects,   \* config.reconnectAttempts
    MaxTimers,       \* bound: scheduled reconnect timers that are outstanding at once
    Disciplined      \* the application behaves as Disciplined below says

ASSUME WebSocketAssumption ==
    /\ None \notin Sockets \cup Calls
    /\ MaxReconnects \in Nat
    /\ MaxTimers \in Nat
    /\ Disciplined \in BOOLEAN

VARIABLES
    readyState,         \* per socket: where it is in its life
    ws,                 \* this.ws
    isConnecting,       \* this.isConnecting
    promise,            \* per socket: the promise of the connect() that created it
    connectTimers,      \* the sockets whose connect() timeout has not fired yet
    reconnectAttempts,  \* this.reconnectAttempts
    reconnectTimers,    \* how many scheduleReconnect timers have not fired yet
    pingTimer,          \* this.pingTimer is set
    orphanPings,        \* some ping interval runs that this.pingTimer no longer names
    closedByUser,       \* disconnect() was called, and connect() not since (history)
    messageId,          \* this.messageId
    pendingRequests,    \* this.pendingRequests: entries of request id and call
    wire,               \* the requests a server has received and may reply to
    callState,          \* per call: the promise sendMessage returned
    answer              \* per call: the call whose reply resolved it (history)

socketVars == <<readyState, ws, isConnecting, promise, connectTimers>>
reconnectVars == <<reconnectAttempts, reconnectTimers>>
pingVars == <<pingTimer, orphanPings>>
callVars == <<messageId, pendingRequests, callState, answer>>
vars == <<socketVars, reconnectVars, pingVars, closedByUser, callVars, wire>>

\* "aborting": close() was called before the handshake ended, which makes it fail.
\* "failed": the error event has fired and the close event has not.
ReadyStates == {"connecting", "open", "closing", "aborting", "failed", "closed"}

Entries == [id : Nat, call : Calls]

CountersOK ==
    /\ reconnectAttempts \in 0 .. MaxReconnects
    /\ reconnectTimers \in 0 .. MaxTimers
    /\ messageId \in Nat

TypeOK ==
    /\ readyState \in [Sockets -> ReadyStates]
    /\ ws \in Sockets \cup {None}
    /\ isConnecting \in BOOLEAN
    /\ promise \in [Sockets -> {"none", "pending", "resolved", "rejected"}]
    /\ connectTimers \subseteq Sockets
    /\ CountersOK
    /\ pingTimer \in BOOLEAN
    /\ orphanPings \in BOOLEAN
    /\ closedByUser \in BOOLEAN
    /\ pendingRequests \subseteq Entries
    /\ wire \subseteq [id : Nat, call : Calls, sock : Sockets]
    /\ callState \in [Calls -> {"idle", "waiting", "answered", "rejected"}]
    /\ answer \in [Calls -> Calls \cup {None}]

Init ==
    /\ readyState = [s \in Sockets |-> "closed"]
    /\ ws = None
    /\ isConnecting = FALSE
    /\ promise = [s \in Sockets |-> "none"]
    /\ connectTimers = {}
    /\ reconnectAttempts = 0
    /\ reconnectTimers = 0
    /\ pingTimer = FALSE
    /\ orphanPings = FALSE
    /\ closedByUser = FALSE
    /\ messageId = 0
    /\ pendingRequests = {}
    /\ wire = {}
    /\ callState = [c \in Calls |-> "idle"]
    /\ answer = [c \in Calls |-> None]
-----------------------------------------------------------------------------
IsConnected == ws # None /\ readyState[ws] = "open"

\* No socket is alive and no reconnect is scheduled.
Quiet ==
    /\ \A s \in Sockets : readyState[s] = "closed"
    /\ reconnectTimers = 0

\* Mutated form: the handlers ignore a socket that is no longer this.ws.
SettlePromiseOfCurrent(s, outcome) ==
    promise' = [promise EXCEPT ![s] = IF @ = "pending" /\ s = ws THEN outcome ELSE @]

\* A promise settles once; settling it again does nothing.
SettlePromise(s, outcome) ==
    promise' = [promise EXCEPT ![s] = IF @ = "pending" THEN outcome ELSE @]

\* `new WebSocket(url)` in the executor of connect(), on an object nothing refers to any more.
NewSocket(s) ==
    /\ readyState[s] = "closed" /\ promise[s] # "pending" /\ s \notin connectTimers
    /\ readyState' = [readyState EXCEPT ![s] = "connecting"]
    /\ ws' = s
    /\ isConnecting' = TRUE
    /\ promise' = [promise EXCEPT ![s] = "pending"]
    /\ connectTimers' = connectTimers \cup {s}

\* connect() returns at once on an open socket, throws 'Connection already in progress' while
\* isConnecting is set, and rejects where the constructor of WebSocket throws at the URL, which it
\* then does at every call; none of these changes anything.
MayConnect == ~IsConnected /\ ~isConnecting

Connect ==
    /\ MayConnect
    /\ Disciplined => Quiet
    /\ \E s \in Sockets : NewSocket(s)
    /\ closedByUser' = FALSE
    /\ UNCHANGED <<reconnectVars, pingVars, callVars, wire>>

\* startPing overwrites this.pingTimer: an interval it still named runs on without a handle.
StartPing ==
    /\ orphanPings' = (orphanPings \/ pingTimer)
    /\ pingTimer' = TRUE

\* Mutated form: the interval is left running.
StopPingForgets == UNCHANGED pingVars

StopPing ==
    /\ pingTimer' = FALSE
    /\ UNCHANGED orphanPings

OnOpen(s) ==
    /\ readyState[s] = "connecting"
    /\ readyState' = [readyState EXCEPT ![s] = "open"]
    /\ isConnecting' = FALSE
    /\ reconnectAttempts' = 0
    /\ StartPing
    /\ SettlePromise(s, "resolved")
    /\ UNCHANGED <<ws, connectTimers, reconnectTimers, closedByUser, callVars, wire>>

\* The handshake fails, or an established connection does; the close event follows.
OnError(s) ==
    /\ readyState[s] \in {"connecting", "aborting", "open", "closing"}
    /\ readyState' = [readyState EXCEPT ![s] = "failed"]
    /\ isConnecting' = FALSE
    /\ SettlePromise(s, "rejected")
    /\ UNCHANGED <<ws, connectTimers, reconnectVars, pingVars, closedByUser, callVars, wire>>

\* Mutated forms of the guard of onclose: one attempt too many, one too few.
MayRetryOnceMore == reconnectAttempts <= MaxReconnects
MayRetryOnceLess == reconnectAttempts + 1 < MaxReconnects

MayRetry == reconnectAttempts < MaxReconnects

ScheduleReconnect ==
    /\ reconnectTimers < MaxTimers
    /\ reconnectAttempts' = reconnectAttempts + 1
    /\ reconnectTimers' = reconnectTimers + 1

\* A handshake that never completed, and a failed connection, never close cleanly.
OnClose(s, wasClean) ==
    /\ readyState[s] \in IF wasClean THEN {"open", "closing"} ELSE {"open", "closing", "failed"}
    /\ readyState' = [readyState EXCEPT ![s] = "closed"]
    /\ isConnecting' = FALSE
    /\ StopPing
    /\ IF ~wasClean /\ MayRetry
       THEN ScheduleReconnect
       ELSE UNCHANGED reconnectVars
    /\ wire' = {r \in wire : r.sock # s}
    /\ UNCHANGED <<ws, promise, connectTimers, closedByUser, callVars>>

\* The timeout of one connect() looks at the isConnecting of whichever attempt is current.
ConnectTimeout(s) ==
    /\ s \in connectTimers
    /\ Disciplined => readyState[s] # "connecting"
    /\ connectTimers' = connectTimers \ {s}
    /\ IF isConnecting
       THEN isConnecting' = FALSE /\ SettlePromise(s, "rejected")
       ELSE UNCHANGED <<isConnecting, promise>>
    /\ UNCHANGED <<readyState, ws, reconnectVars, pingVars, closedByUser, callVars, wire>>

\* Mutated form: setInterval in place of setTimeout.
ReconnectTimerRepeats ==
    /\ reconnectTimers > 0
    /\ IF reconnectAttempts <= MaxReconnects /\ MayConnect
       THEN \E s \in Sockets : NewSocket(s)
       ELSE UNCHANGED socketVars
    /\ UNCHANGED <<reconnectVars, pingVars, closedByUser, callVars, wire>>

\* The callback of scheduleReconnect; what connect() throws is swallowed.
ReconnectTimer ==
    /\ reconnectTimers > 0
    /\ reconnectTimers' = reconnectTimers - 1
    /\ IF reconnectAttempts <= MaxReconnects /\ MayConnect
       THEN \E s \in Sockets : NewSocket(s)
       ELSE UNCHANGED socketVars
    /\ UNCHANGED <<reconnectAttempts, pingVars, closedByUser, callVars, wire>>
-----------------------------------------------------------------------------
Waiting == {c \in Calls : callState[c] = "waiting"}

\* Settles those of S whose promise is still pending.
SettleCalls(S, outcome) ==
    callState' = [c \in Calls |-> IF c \in S \cap Waiting THEN outcome ELSE callState[c]]

\* Mutated form: the id is taken from the size of the table.
NextIdFromTable == Cardinality(pendingRequests) + 1

NextId == messageId + 1

\* Map.set: replaces an entry with the same id.
SetPending(id, c) ==
    pendingRequests' = {p \in pendingRequests : p.id # id} \cup {[id |-> id, call |-> c]}

SendMessage(c) ==
    /\ IsConnected
    /\ callState[c] = "idle"
    /\ messageId' = NextId
    /\ SetPending(NextId, c)
    /\ callState' = [callState EXCEPT ![c] = "waiting"]
    /\ wire' = wire \cup {[id |-> NextId, call |-> c, sock |-> ws]}
    /\ UNCHANGED <<socketVars, reconnectVars, pingVars, closedByUser, answer>>

\* JSON.stringify throws on the parameters, after the entry and its timer were created.
SendThrows(c) ==
    /\ IsConnected
    /\ callState[c] = "idle"
    /\ messageId' = NextId
    /\ SetPending(NextId, c)
    /\ callState' = [callState EXCEPT ![c] = "rejected"]
    /\ UNCHANGED <<socketVars, reconnectVars, pingVars, closedByUser, answer, wire>>

\* The id of a reply picks the call it settles.  A reply whose id is not in the table changes
\* nothing.  The request stays on the wire: a server may reply twice.
Response(r, ok) ==
    /\ readyState[r.sock] = "open"
    /\ \E p \in pendingRequests :
         /\ p.id = r.id
         /\ pendingRequests' = pendingRequests \ {p}
         /\ SettleCalls({p.call}, IF ok THEN "answered" ELSE "rejected")
         /\ answer' = IF ok /\ p.call \in Waiting THEN [answer EXCEPT ![p.call] = r.call] ELSE answer
    /\ UNCHANGED <<socketVars, reconnectVars, pingVars, closedByUser, messageId, wire>>

RequestTimeout(c) ==
    /\ \E p \in pendingRequests :
         /\ p.call = c
         /\ pendingRequests' = pendingRequests \ {p}
    /\ SettleCalls({c}, "rejected")
    /\ UNCHANGED <<socketVars, reconnectVars, pingVars, closedByUser, messageId, answer, wire>>

\* ws.close() on this.ws, whatever its state.
CloseSocket ==
    readyState' = [s \in Sockets |->
        IF s = ws /\ readyState[s] = "open" THEN "closing"
        ELSE IF s = ws /\ readyState[s] = "connecting" THEN "aborting"
        ELSE readyState[s]]

\* Mutated form: the entries are left to time out.
KeepAllPending == UNCHANGED <<pendingRequests, callState>>

RejectAllPending ==
    /\ SettleCalls({p.call : p \in pendingRequests}, "rejected")
    /\ pendingRequests' = {}

Disconnect ==
    /\ ~Disciplined
    /\ StopPing
    /\ CloseSocket
    /\ ws' = None
    /\ RejectAllPending
    /\ closedByUser' = TRUE
    /\ UNCHANGED <<isConnecting, promise, connectTimers, reconnectVars, messageId, answer, wire>>
-----------------------------------------------------------------------------
SocketEvent(s) == OnOpen(s) \/ OnError(s) \/ OnClose(s, TRUE) \/ OnClose(s, FALSE)

Next ==
    \/ Connect
    \/ Disconnect
    \/ \E s \in Sockets : SocketEvent(s) \/ ConnectTimeout(s)
    \/ ReconnectTimer
    \/ \E c \in Calls : SendMessage(c) \/ SendThrows(c) \/ RequestTimeout(c)
    \/ \E r \in wire : Response(r, TRUE) \/ Response(r, FALSE)

Spec == Init /\ [][Next]_vars

\* Timers of the event loop fire; a failed socket delivers its close event.
Fairness ==
    /\ \A s \in Sockets : WF_vars(ConnectTimeout(s)) /\ WF_vars(readyState[s] = "failed" /\ OnClose(s, FALSE))
    /\ WF_vars(ReconnectTimer)
    /\ \A c \in Calls : WF_vars(RequestTimeout(c))

FairSpec == Spec /\ Fairness

\* The network ends every handshake, and every closing handshake, one way or the other.
NetworkFairness ==
    \A s \in Sockets :
        /\ WF_vars(OnOpen(s) \/ (readyState[s] \in {"connecting", "aborting"} /\ OnError(s)))
        /\ WF_vars(readyState[s] = "closing" /\ SocketEvent(s))

LiveSpec == FairSpec /\ NetworkFairness
-----------------------------------------------------------------------------
\* A call whose promise is pending has an entry in the table, and so a timer that will end it:
\* no path through responses, timeouts, drops, reconnects and disconnects loses a caller.
WaitingIsPending == \A c \in Waiting : \E p \in pendingRequests : p.call = c

\* A resolved call was resolved with the server's reply to that call, never with the late reply
\* to another one that reaches the client over an earlier socket.
OwnAnswer == \A c \in Calls : callState[c] = "answered" => answer[c] = c

\* After disconnect(), and until a later connect(), no caller is left waiting.
NoCallOutlivesDisconnect == ws = None => Waiting = {}

\* For an application that calls connect() only when nothing is left of an earlier connection,
\* never disconnects, and whose handshakes end within the timeout, the client keeps at most one
\* socket alive, and that one is this.ws.
OneSocket ==
    Disciplined => \A s \in Sockets : readyState[s] # "closed" => s = ws

\* The same application has exactly one ping interval while it is connected, and none that lost
\* its handle: not after any number of drops, failed attempts and reconnects.
PingFollowsConnection ==
    Disciplined => ~orphanPings /\ (IsConnected => pingTimer)

\* ... and after a connection was lost it always has the next attempt ahead of it, or has used
\* them up, or lost the connection to a clean close.
RetryIsAhead ==
    Disciplined /\ reconnectAttempts \in 1 .. MaxReconnects - 1 =>
        reconnectTimers > 0 \/ \E s \in Sockets : readyState[s] \in {"connecting", "failed"}

\* A scheduled reconnect ends in an open connection or in all attempts used up; it never leaves
\* the client down with attempts to spare.
Recovers ==
    reconnectTimers > 0 ~> IsConnected \/ (Quiet /\ reconnectAttempts = MaxReconnects)

\* connect() always settles when the network ends every handshake.
ConnectSettles == \A s \in Sockets : promise[s] = "pending" ~> promise[s] # "pending"

\* disconnect() is final: until the application connects again no socket is created.
DisconnectIsFinal ==
    [][closedByUser /\ closedByUser' => \A s \in Sockets : readyState[s] = "closed" => readyState'[s] = "closed"]_vars

\* The inductive strengthening of the three call invariants: ids are fresh, the id of an entry
\* names one call, and a request on the wire carries the call its entry has.
CallInv ==
    /\ \A p \in pendingRequests : p.id <= messageId
    /\ \A r \in wire : r.id <= messageId
    /\ \A r \in wire, p \in pendingRequests : r.id = p.id => r.call = p.call
    /\ ws = None => pendingRequests = {}
    /\ WaitingIsPending
    /\ OwnAnswer

\* The inductive strengthening of the invariants of a disciplined application.
DisciplinedInv ==
    Disciplined =>
        /\ reconnectTimers <= 1
        /\ \A s \in Sockets : readyState[s] # "closed" => s = ws /\ reconnectTimers = 0
        /\ isConnecting => ws # None /\ readyState[ws] = "connecting"
        /\ pingTimer => ws # None /\ readyState[ws] \in {"open", "failed"}
        /\ \A s \in Sockets : readyState[s] = "open" => reconnectAttempts = 0 /\ pingTimer
        /\ \A s \in Sockets : readyState[s] \notin {"closing", "aborting"}
        /\ ~orphanPings
        /\ RetryIsAhead

\* The calls, as their callers see them.
Contract ==
    INSTANCE CallContract WITH Calls <- Calls, None <- None, callState <- callState, answer <- answer

ImplementsCallContract == Contract!FairSpec
=============================================================================
