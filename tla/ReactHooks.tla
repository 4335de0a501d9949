------------------------------ MODULE ReactHooks ------------------------------
(***************************************************************************)
(* src/src/react/hooks.ts in one mounted component: useCitrateClient, and  *)
(* on the client it shows useModelInfo ("info") and useInference ("run").  *)
(* useModelList has the form of the former, useModelDeployment that of the *)
(* latter.  A setter after an await runs whatever has happened since.      *)
(*                                                                         *)
(* A client is named by the number of the connect() that made it, and what *)
(* was read through a client by that client; 0 is null.                    *)
(***************************************************************************)
EXTENDS Naturals, Sequences, SequencesExt

CONSTANTS
    Options,      \* the option objects the component is rendered with, each a stable one
    Wallets,      \* those with a private key
    Manual,       \* those with autoConnect: false
    Models, None,
    MaxConnects,  \* bound: calls of connect()
    MaxCalls      \* bound: what the application does, the effects apart

ASSUME ReactHooksAssumption == MaxConnects \in Nat

VARIABLES
    calls,        \* what the application has done so far (bound)
    inOrder,      \* requests of a kind are answered in the order they were made (fixed)
    options, modelId,   \* of the latest render
    connectDeps,  \* the options the effect of useCitrateClient has last run for
    made,         \* per client: its options
    step,         \* per client: what its connect() waits for
    client, isConnected, isConnecting, error, chainId, address, balance,
    interrupted,  \* disconnect() was called while connect() ran, and no client made since (history)
    fetchDeps,    \* the client and model the effect of useModelInfo has last run for
    pending,      \* per hook: the requests in flight, oldest first
    shown,        \* per hook: modelInfo, result
    busy,         \* per hook: isLoading, isExecuting
    failed        \* per hook: error is set

rendered == <<calls, inOrder, options, modelId>>
runs == <<made, step>>
connection == <<client, isConnected, isConnecting, error, chainId, address, balance>>
requests == <<pending, shown, busy, failed>>
vars == <<rendered, connectDeps, runs, connection, interrupted, fetchDeps, requests>>

Hooks == {"info", "run"}
Runs == 1 .. MaxConnects
Nothing == <<0, None>>

Init ==
    /\ calls = 0
    /\ inOrder \in BOOLEAN
    /\ options \in Options /\ modelId \in Models \cup {None}
    /\ connectDeps = None
    /\ made = <<>> /\ step = [r \in Runs |-> "none"]
    /\ client = 0 /\ chainId = 0 /\ address = 0 /\ balance = 0
    /\ isConnected = FALSE /\ isConnecting = FALSE /\ error = FALSE
    /\ interrupted = FALSE
    /\ fetchDeps = Nothing
    /\ pending = [h \in Hooks |-> <<>>]
    /\ shown = [h \in Hooks |-> Nothing]
    /\ busy = [h \in Hooks |-> FALSE]
    /\ failed = [h \in Hooks |-> FALSE]

\* The application does something of its own.
Called == calls < MaxCalls /\ calls' = calls + 1

\* The parent renders the component with something else.
Render ==
    /\ Called
    /\ \/ options' \in Options \ {options} /\ UNCHANGED modelId
       \/ modelId' \in (Models \cup {None}) \ {modelId} /\ UNCHANGED options
    /\ UNCHANGED <<inOrder, connectDeps, runs, connection, interrupted, fetchDeps, requests>>
-----------------------------------------------------------------------------
\* useCitrateClient

\* The runs of connect() in flight; a later one has a greater number.
Connecting == {r \in Runs : step[r] \in {"chain", "balance"}}

\* connect() up to its first await; the constructor of CitrateClient may throw.
Connect ==
    /\ Len(made) < MaxConnects
    /\ \/ /\ made' = Append(made, options)
          /\ client' = Len(made')
          /\ step' = [step EXCEPT ![client'] = "chain"]
          /\ isConnecting' = TRUE /\ error' = FALSE
          /\ interrupted' = FALSE
       \/ /\ isConnecting' = FALSE /\ error' = TRUE
          /\ UNCHANGED <<client, runs, interrupted>>
    /\ UNCHANGED <<isConnected, chainId, address, balance>>

\* The effect, after a render with other options.
ConnectEffect ==
    /\ connectDeps # options
    /\ connectDeps' = options
    /\ IF options \in Manual THEN UNCHANGED <<runs, connection, interrupted>> ELSE Connect
    /\ UNCHANGED <<rendered, fetchDeps, requests>>

ConnectCalled ==
    /\ Called
    /\ connectDeps = options
    /\ Connect
    /\ UNCHANGED <<inOrder, options, modelId, connectDeps, fetchDeps, requests>>

HasWallet(r) == made[r] \in Wallets

\* The end of connect(): setIsConnected or setError, and finally.
End(r, ok) ==
    /\ step' = [step EXCEPT ![r] = "ended"]
    /\ isConnected' = (ok \/ isConnected)
    /\ error' = (error \/ ~ok)
    /\ isConnecting' = FALSE

ChainIdArrives(r) ==
    /\ step[r] = "chain"
    /\ chainId' = r
    /\ address' = IF HasWallet(r) THEN r ELSE 0
    /\ IF HasWallet(r)
       THEN /\ step' = [step EXCEPT ![r] = "balance"]
            /\ UNCHANGED <<isConnected, error, isConnecting>>
       ELSE End(r, TRUE)
    /\ UNCHANGED balance

BalanceArrives(r) ==
    /\ step[r] = "balance"
    /\ balance' = r
    /\ End(r, TRUE)
    /\ UNCHANGED <<chainId, address>>

ReadFails(r) == End(r, FALSE) /\ UNCHANGED <<chainId, address, balance>>

\* Requests of a kind go out in the order of the runs, so that is the order of their answers.
Resume(r) ==
    /\ r \in Connecting
    /\ inOrder => \A q \in Connecting : step[q] = step[r] => r <= q
    /\ ChainIdArrives(r) \/ BalanceArrives(r) \/ ReadFails(r)
    /\ UNCHANGED <<rendered, connectDeps, made, client, interrupted, fetchDeps, requests>>

\* Mutated form: the balance stays.
ResetForgetsBalance ==
    /\ client' = 0 /\ chainId' = 0 /\ address' = 0 /\ balance' = balance
    /\ isConnected' = FALSE /\ error' = FALSE

Reset ==
    /\ client' = 0 /\ chainId' = 0 /\ address' = 0 /\ balance' = 0
    /\ isConnected' = FALSE /\ error' = FALSE

Disconnect ==
    /\ Called
    /\ Reset
    /\ interrupted' = (Connecting # {})
    /\ UNCHANGED <<inOrder, options, modelId, connectDeps, runs, isConnecting, fetchDeps, requests>>
-----------------------------------------------------------------------------
\* The hooks on a client.

\* A request is named by the client and the model it is for.
Ask(h, request) ==
    /\ pending' = [pending EXCEPT ![h] = Append(@, request)]
    /\ busy' = [busy EXCEPT ![h] = TRUE]
    /\ failed' = [failed EXCEPT ![h] = FALSE]
    /\ UNCHANGED shown

\* Mutated form: refetch does not depend on the model.
FetchDepsClientOnly == <<client, fetchDeps[2]>>

\* What refetch, and with it the effect, depends on.
FetchDeps == <<client, modelId>>

\* refetch() returns at once without a client or a model.
Refetch ==
    IF client # 0 /\ modelId # None THEN Ask("info", <<client, modelId>>) ELSE UNCHANGED requests

FetchEffect ==
    /\ fetchDeps # FetchDeps
    /\ fetchDeps' = FetchDeps
    /\ Refetch
    /\ UNCHANGED <<rendered, connectDeps, runs, connection, interrupted>>

RefetchCalled ==
    /\ Called
    /\ fetchDeps = FetchDeps
    /\ Refetch
    /\ UNCHANGED <<inOrder, options, modelId, connectDeps, runs, connection, interrupted, fetchDeps>>

\* execute() throws without a client; what it is asked for is of no account.
Execute ==
    /\ Called
    /\ client # 0
    /\ Ask("run", <<client, None>>)
    /\ UNCHANGED <<inOrder, options, modelId, connectDeps, runs, connection, interrupted, fetchDeps>>

\* Mutated form: only a success ends the wait.
StillBusyOnFailure(ok) == ~ok

StillBusy(ok) == FALSE

Settle(h, k, ok) ==
    /\ inOrder => k = 1
    /\ pending' = [pending EXCEPT ![h] = RemoveAt(@, k)]
    /\ shown' = IF ok THEN [shown EXCEPT ![h] = pending[h][k]] ELSE shown
    /\ failed' = [failed EXCEPT ![h] = @ \/ ~ok]
    /\ busy' = [busy EXCEPT ![h] = StillBusy(ok)]
    /\ UNCHANGED <<rendered, connectDeps, runs, connection, interrupted, fetchDeps>>

Answer(h) == \E k \in DOMAIN pending[h], ok \in BOOLEAN : Settle(h, k, ok)

Next ==
    \/ Render \/ ConnectEffect \/ ConnectCalled \/ Disconnect
    \/ \E r \in Runs : Resume(r)
    \/ FetchEffect \/ RefetchCalled \/ Execute
    \/ \E h \in Hooks : Answer(h)

Spec == Init /\ [][Next]_vars
-----------------------------------------------------------------------------
\* With answers in order, what is shown when nothing runs belongs together: a connection is that
\* of the client, read through it, unless a disconnect came in between; and with no client no
\* connection shows.
ConnectionIsWhole ==
    /\ inOrder /\ Connecting = {} /\ isConnected /\ ~error /\ ~interrupted =>
         chainId = client /\ (HasWallet(client) => address = client /\ balance = client)
    /\ client = 0 /\ ~interrupted =>
         ~isConnected /\ chainId = 0 /\ address = 0 /\ balance = 0

\* With answers in order, modelInfo is in the end that of the model the component is rendered
\* with, read through the client it shows, however often both have changed under the requests.
LatestIsShown ==
    inOrder /\ pending["info"] = <<>>
            /\ fetchDeps = FetchDeps /\ client # 0 /\ modelId # None /\ ~failed["info"]
        => shown["info"] = <<client, modelId>>

\* A spinner that runs has something to wait for that will stop it, also when requests overlap,
\* fail or belong to a client that is gone.
SpinnersStop ==
    /\ isConnecting => Connecting # {}
    /\ \A h \in Hooks : busy[h] => pending[h] # <<>>
=============================================================================
