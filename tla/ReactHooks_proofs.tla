-------------------------- MODULE ReactHooks_proofs --------------------------
(***************************************************************************)
(* Proofs about ReactHooks.tla: what a component shows when its requests   *)
(* have settled, for any options, wallets, models and numbers of calls.    *)
(***************************************************************************)
EXTENDS ReactHooks, TLAPS

StepStates == {"none", "chain", "balance", "ended"}
Requests == (0 .. MaxConnects) \X (Models \cup {None})

\* The runs of connect() are numbered as they start, and the client shown is the last one made.
RunsOK ==
    /\ made \in Seq(Options) /\ Len(made) <= MaxConnects
    /\ step \in [Runs -> StepStates]
    /\ \A r \in Runs : step[r] = "none" <=> r > Len(made)
    /\ client \in {0, Len(made)}

RequestsOK ==
    /\ modelId \in Models \cup {None}
    /\ fetchDeps \in Requests
    /\ pending \in [Hooks -> Seq(Requests)]
    /\ shown \in [Hooks -> Requests]
    /\ busy \in [Hooks -> BOOLEAN]
    /\ failed \in [Hooks -> BOOLEAN]

TypeOK ==
    /\ options \in Options
    /\ inOrder \in BOOLEAN /\ isConnecting \in BOOLEAN /\ isConnected \in BOOLEAN
    /\ error \in BOOLEAN /\ interrupted \in BOOLEAN
    /\ RunsOK
    /\ RequestsOK

\* What a step may do to the runs of connect() and what comes of them.
LEMMA ConnectSteps ==
    ASSUME [Next]_vars
    PROVE  \/ Connect
           \/ \E r \in Runs : Resume(r)
           \/ Disconnect
           \/ UNCHANGED <<runs, connection, interrupted>>
BY DEF Next, Render, ConnectEffect, ConnectCalled, FetchEffect, RefetchCalled, Execute, Answer, Settle, vars

\* What a step may do to the requests.
LEMMA RequestSteps ==
    ASSUME [Next]_vars
    PROVE  \/ client # 0 /\ modelId # None /\ fetchDeps' = FetchDeps /\ Ask("info", <<client, modelId>>)
                /\ UNCHANGED <<client, modelId>>
           \/ (client = 0 \/ modelId = None) /\ fetchDeps' = FetchDeps /\ UNCHANGED <<client, modelId, requests>>
           \/ client # 0 /\ Ask("run", <<client, None>>) /\ UNCHANGED <<client, modelId, fetchDeps>>
           \/ \E h \in Hooks : Answer(h) /\ UNCHANGED <<client, modelId, fetchDeps>>
           \/ UNCHANGED <<fetchDeps, requests>>
<1>1. CASE FetchEffect \/ RefetchCalled
  BY <1>1 DEF FetchEffect, RefetchCalled, Refetch, FetchDeps, rendered, connection
<1>2. CASE Execute
  BY <1>2 DEF Execute, connection
<1>3. CASE \E h \in Hooks : Answer(h)
  BY <1>3 DEF Answer, Settle, rendered, connection
<1>4. CASE Render \/ ConnectEffect \/ ConnectCalled \/ Disconnect \/ \E r \in Runs : Resume(r)
  BY <1>4 DEF Render, ConnectEffect, ConnectCalled, Disconnect, Resume
<1>5. CASE UNCHANGED vars
  BY <1>5 DEF vars
<1> QED
  BY <1>1, <1>2, <1>3, <1>4, <1>5 DEF Next

LEMMA RunsTyped == ReactHooksAssumption /\ options \in Options /\ RunsOK /\ [Next]_vars => RunsOK'
<1> SUFFICES ASSUME ReactHooksAssumption, options \in Options, RunsOK, [Next]_vars PROVE RunsOK'
  OBVIOUS
<1> USE DEF ReactHooksAssumption, RunsOK, StepStates, Runs
<1>1. CASE Connect
  <2>1. CASE UNCHANGED <<client, runs>>
    BY <2>1 DEF runs
  <2>2. CASE ~UNCHANGED <<client, runs>>
    <3>1. /\ Len(made) < MaxConnects /\ made' = Append(made, options)
          /\ client' = Len(made') /\ step' = [step EXCEPT ![client'] = "chain"]
      BY <1>1, <2>2 DEF Connect
    <3>2. made' \in Seq(Options) /\ Len(made') = Len(made) + 1 /\ Len(made) \in Nat
      BY <3>1
    <3> QED
      BY <3>1, <3>2
  <2> QED
    BY <2>1, <2>2
<1>2. ASSUME NEW r \in Runs, Resume(r) PROVE RunsOK'
  <2>1. step[r] \in {"chain", "balance"} /\ UNCHANGED <<made, client>>
    BY <1>2 DEF Resume, Connecting
  <2>2. step' = [step EXCEPT ![r] = "ended"] \/ step' = [step EXCEPT ![r] = "balance"]
    BY <1>2 DEF Resume, ChainIdArrives, BalanceArrives, ReadFails, End
  <2> QED
    BY <2>1, <2>2
<1>3. CASE Disconnect
  BY <1>3 DEF Disconnect, Reset, runs
<1>4. CASE UNCHANGED <<runs, connection, interrupted>>
  BY <1>4 DEF runs, connection
<1> QED
  BY <1>1, <1>2, <1>3, <1>4, ConnectSteps

LEMMA QueueShortened ==
    ASSUME NEW S, NEW q \in Seq(S), NEW k \in DOMAIN q
    PROVE  /\ RemoveAt(q, k) \in Seq(S)
           /\ Len(RemoveAt(q, k)) = Len(q) - 1
           /\ k = 1 /\ Len(q) > 1 => RemoveAt(q, k)[Len(q) - 1] = q[Len(q)]
<1> DEFINE before == SubSeq(q, 1, k - 1)
           after  == SubSeq(q, k + 1, Len(q))
<1>1. Len(q) \in Nat /\ k \in 1 .. Len(q)
  OBVIOUS
<1>2. before \in Seq(S) /\ Len(before) = k - 1
  BY <1>1
<1>3. after \in Seq(S) /\ Len(after) = Len(q) - k
  BY <1>1
<1>4. k = 1 /\ Len(q) > 1 => after[Len(q) - 1] = q[Len(q)]
  BY <1>1
<1>5. RemoveAt(q, k) = before \o after
  BY DEF RemoveAt
<1> HIDE DEF before, after
<1>6. (before \o after) \in Seq(S) /\ Len(before \o after) = Len(before) + Len(after)
  <2>1. before \in Seq(S) /\ after \in Seq(S)
    BY <1>2, <1>3
  <2> QED
    BY ONLY <2>1
<1>7. ASSUME k = 1, Len(q) > 1 PROVE (before \o after)[Len(q) - 1] = after[Len(q) - 1]
  <2>1. Len(before) = 0 /\ Len(after) = Len(q) - 1 /\ Len(q) - 1 \in 1 .. Len(before \o after)
    BY <1>1, <1>2, <1>3, <1>6, <1>7
  <2>2. (before \o after)[Len(q) - 1] = after[Len(q) - 1 - Len(before)]
    BY <1>2, <1>3, <2>1
  <2> QED
    BY <1>1, <2>1, <2>2
<1>8. Len(before \o after) = Len(q) - 1
  BY <1>1, <1>2, <1>3, <1>6
<1> QED
  BY <1>4, <1>5, <1>6, <1>7, <1>8

LEMMA RequestsTyped ==
    ReactHooksAssumption /\ RunsOK /\ RequestsOK /\ [Next]_vars => RequestsOK'
<1> SUFFICES ASSUME ReactHooksAssumption, RunsOK, RequestsOK, [Next]_vars PROVE RequestsOK'
  OBVIOUS
<1> USE DEF RequestsOK
<1>1. modelId' \in Models \cup {None}
  BY DEF Next, Render, ConnectEffect, ConnectCalled, Disconnect, Resume, FetchEffect, RefetchCalled,
     Execute, Answer, Settle, rendered, vars
<1>2. client \in 0 .. MaxConnects
  <2>1. Len(made) \in Nat
    BY DEF RunsOK
  <2> QED
    BY <2>1 DEF RunsOK, ReactHooksAssumption
<1>3. ASSUME NEW h \in Hooks, NEW request \in Requests, Ask(h, request), fetchDeps' \in Requests
      PROVE RequestsOK'
  <2>1. pending' \in [Hooks -> Seq(Requests)]
    BY <1>3 DEF Ask
  <2>2. shown' \in [Hooks -> Requests]
    BY <1>3 DEF Ask
  <2>3. busy' \in [Hooks -> BOOLEAN] /\ failed' \in [Hooks -> BOOLEAN]
    BY <1>3 DEF Ask
  <2> QED
    BY <1>1, <1>3, <2>1, <2>2, <2>3
<1>4. FetchDeps \in Requests /\ <<client, None>> \in Requests
  BY <1>2 DEF FetchDeps, Requests
<1>5. ASSUME NEW h \in Hooks, Answer(h) PROVE RequestsOK'
  <2>1. PICK k \in DOMAIN pending[h], ok \in BOOLEAN : Settle(h, k, ok)
    BY <1>5 DEF Answer
  <2>2. pending[h] \in Seq(Requests)
    OBVIOUS
  <2>3. RemoveAt(pending[h], k) \in Seq(Requests) /\ pending[h][k] \in Requests
    BY <2>2, QueueShortened
  <2>4. pending' \in [Hooks -> Seq(Requests)]
    BY <2>1, <2>3 DEF Settle
  <2>5. shown' \in [Hooks -> Requests]
    BY <2>1, <2>3 DEF Settle
  <2>6. failed' \in [Hooks -> BOOLEAN]
    BY <2>1, Zenon DEF Settle
  <2>7. busy' \in [Hooks -> BOOLEAN]
    BY <2>1 DEF Settle, StillBusy
  <2>8. fetchDeps' = fetchDeps
    BY <2>1 DEF Settle
  <2> QED
    BY <1>1, <2>4, <2>5, <2>6, <2>7, <2>8
<1>6. CASE client # 0 /\ modelId # None /\ fetchDeps' = FetchDeps /\ Ask("info", <<client, modelId>>)
  BY <1>3, <1>4, <1>6 DEF Hooks, FetchDeps
<1>7. CASE fetchDeps' = FetchDeps /\ UNCHANGED requests
  BY <1>1, <1>4, <1>7 DEF requests
<1>8. CASE Ask("run", <<client, None>>) /\ UNCHANGED fetchDeps
  BY <1>3, <1>4, <1>8 DEF Hooks
<1>9. CASE UNCHANGED <<fetchDeps, requests>>
  BY <1>1, <1>9 DEF requests
<1> QED
  BY <1>5, <1>6, <1>7, <1>8, <1>9, RequestSteps

LEMMA FlagsTyped == TypeOK /\ [Next]_vars => (options \in Options /\ inOrder \in BOOLEAN)'
BY DEF TypeOK, Next, Render, ConnectEffect, ConnectCalled, Disconnect, Resume, FetchEffect, RefetchCalled,
   Execute, Answer, Settle, rendered, vars

\* Type correctness, and the numbering of the runs of connect().
THEOREM TypeCorrect == Spec => []TypeOK
<1> USE ReactHooksAssumption
<1>1. Init => TypeOK
  <2> SUFFICES ASSUME Init PROVE TypeOK
    OBVIOUS
  <2>1. RunsOK
    BY DEF Init, RunsOK, StepStates, Runs, ReactHooksAssumption
  <2>2. Nothing \in Requests
    BY DEF Nothing, Requests, ReactHooksAssumption
  <2>3. RequestsOK
    BY <2>2 DEF Init, RequestsOK
  <2> QED
    BY <2>1, <2>3 DEF Init, TypeOK
<1>2. TypeOK /\ [Next]_vars => TypeOK'
  <2> SUFFICES ASSUME TypeOK, [Next]_vars PROVE TypeOK'
    OBVIOUS
  <2>1. RunsOK' /\ RequestsOK'
    BY RunsTyped, RequestsTyped DEF TypeOK
  <2>2. CASE Connect
    BY <2>1, <2>2, FlagsTyped DEF TypeOK, Connect
  <2>3. ASSUME NEW r \in Runs, Resume(r) PROVE TypeOK'
    BY <2>1, <2>3, FlagsTyped DEF TypeOK, Resume, ChainIdArrives, BalanceArrives, ReadFails, End
  <2>4. CASE Disconnect
    BY <2>1, <2>4, FlagsTyped DEF TypeOK, Disconnect, Reset
  <2>5. CASE UNCHANGED <<runs, connection, interrupted>>
    BY <2>1, <2>5, FlagsTyped DEF TypeOK, connection
  <2> QED
    BY <2>2, <2>3, <2>4, <2>5, ConnectSteps
<1> QED
  BY <1>1, <1>2, PTL DEF Spec
-----------------------------------------------------------------------------
\* The inductive invariant behind what a connection shows.  Once the client shown has its chain id,
\* no earlier run waits for one, so nothing comes that could overwrite what was read; and once it has
\* its balance, no earlier run waits for anything.
Arrived(r) == chainId = r /\ (HasWallet(r) => address = r)

ConnectionInv ==
    ~interrupted =>
        /\ client = 0 => /\ Connecting = {} /\ ~isConnected
                         /\ chainId = 0 /\ address = 0 /\ balance = 0
        /\ inOrder /\ client # 0 =>
            /\ step[client] \in {"balance", "ended"} => \A q \in Runs : step[q] # "chain"
            /\ step[client] = "balance" => Arrived(client)
            /\ step[client] = "ended" /\ ~error =>
                 Arrived(client) /\ (HasWallet(client) => balance = client /\ Connecting = {})

\* The inductive invariant behind the model shown: the last request in flight, or else the last
\* answer, is the one the effect has last asked for.
LatestInv ==
    inOrder /\ fetchDeps[1] # 0 /\ fetchDeps[2] # None =>
        LET queue == pending["info"]
        IN  IF queue = <<>> THEN failed["info"] \/ shown["info"] = fetchDeps
            ELSE queue[Len(queue)] = fetchDeps

\* A run of connect() that starts has a number of its own.
LEMMA ClientMade ==
    ASSUME options \in Options, RunsOK, Len(made) < MaxConnects, made' = Append(made, options),
           client' = Len(made'), step' = [step EXCEPT ![client'] = "chain"]
    PROVE  client' \in Runs /\ step'[client'] = "chain" /\ client' # 0
<1>1. made \in Seq(Options) /\ step \in [Runs -> StepStates]
  BY DEF RunsOK
<1>2. Len(made) \in Nat /\ client' = Len(made) + 1
  BY <1>1
<1>3. client' \in Runs
  BY <1>2, ReactHooksAssumption DEF Runs, ReactHooksAssumption
<1> QED
  BY <1>1, <1>2, <1>3

LEMMA ConnectionStep == TypeOK /\ ConnectionInv /\ [Next]_vars => ConnectionInv'
<1> SUFFICES ASSUME TypeOK, ConnectionInv, [Next]_vars PROVE ConnectionInv'
  OBVIOUS
<1> USE ReactHooksAssumption DEF ReactHooksAssumption
<1>1. /\ Len(made) \in Nat /\ Len(made) <= MaxConnects
      /\ step \in [Runs -> StepStates]
      /\ \A r \in Runs : step[r] = "none" <=> r > Len(made)
      /\ client \in {0, Len(made)}
  BY DEF TypeOK, RunsOK
<1>0. inOrder' = inOrder
  BY DEF Next, Render, ConnectEffect, ConnectCalled, Disconnect, Resume, FetchEffect, RefetchCalled,
     Execute, Answer, Settle, rendered, vars
<1>2. CASE Connect
  <2>1. CASE error' /\ UNCHANGED <<client, runs, interrupted>>
    <3>1. UNCHANGED <<isConnected, chainId, address, balance>>
      BY <1>2 DEF Connect
    <3>2. Connecting' = Connecting /\ \A r : HasWallet(r)' <=> HasWallet(r)
      BY <2>1 DEF Connecting, HasWallet, runs
    <3> QED
      BY <1>0, <2>1, <3>1, <3>2 DEF ConnectionInv, Arrived, runs
  <2>2. ASSUME Len(made) < MaxConnects, made' = Append(made, options), client' = Len(made'),
               step' = [step EXCEPT ![client'] = "chain"]
        PROVE  ConnectionInv'
    <3>1. client' \in Runs /\ step'[client'] = "chain" /\ client' # 0
      BY <2>2, ClientMade DEF TypeOK
    <3> QED
      BY <3>1 DEF ConnectionInv
  <2> QED
    BY <1>2, <2>1, <2>2 DEF Connect
<1>3. ASSUME NEW r \in Runs, Resume(r) PROVE ConnectionInv'
  <2>1. /\ r \in Connecting /\ (inOrder => \A q \in Connecting : step[q] = step[r] => r <= q)
        /\ UNCHANGED <<made, client, interrupted>>
    BY <1>3 DEF Resume
  <2> SUFFICES ASSUME ~interrupted PROVE ConnectionInv'
    BY <2>1 DEF ConnectionInv
  <2>2. client # 0 /\ client = Len(made) /\ client \in Runs
    <3>1. client # 0
      BY <2>1 DEF ConnectionInv
    <3> QED
      BY <1>1, <3>1 DEF Runs
  <2>3. \A q \in Connecting : q \in Runs /\ q \in Nat /\ q <= client
    BY <1>1, <2>2 DEF Connecting, Runs
  <2>4. \A q : HasWallet(q)' <=> HasWallet(q)
    BY <2>1 DEF HasWallet
  <2>5. CASE ~inOrder
    BY <1>0, <2>1, <2>2, <2>5 DEF ConnectionInv
  <2>6. CASE inOrder /\ r # client
    <3>1. step' = [step EXCEPT ![r] = "ended"] \/ step' = [step EXCEPT ![r] = "balance"]
      BY <1>3 DEF Resume, ChainIdArrives, BalanceArrives, ReadFails, End
    <3>2. step'[client] = step[client] /\ \A q \in Runs : step'[q] = "chain" => step[q] = "chain"
      BY <1>1, <2>2, <2>3, <2>6, <3>1
    <3>3. CASE step[client] \notin {"balance", "ended"}
      BY <2>1, <2>2, <3>2, <3>3 DEF ConnectionInv
    <3>4. CASE step[client] \in {"balance", "ended"}
      <4>1. step[r] = "balance" /\ \A q \in Runs : step[q] # "chain"
        BY <2>1, <2>2, <2>3, <2>6, <3>4 DEF ConnectionInv, Connecting
      <4>2. UNCHANGED <<chainId, address>> /\ (error => error')
        BY <1>3, <4>1 DEF Resume, ChainIdArrives, BalanceArrives, ReadFails, End
      <4>3. Arrived(client) => Arrived(client)'
        BY <2>1, <2>4, <4>2 DEF Arrived
      <4>4. step[client] = "ended" /\ ~error => ~HasWallet(client)
        BY <2>1, <2>2, <2>6 DEF ConnectionInv
      <4> QED
        BY <2>1, <2>2, <2>4, <2>6, <3>2, <4>1, <4>2, <4>3, <4>4 DEF ConnectionInv
    <3> QED
      BY <3>3, <3>4
  <2>7. CASE inOrder /\ r = client
    <3>1. \A q \in Runs : q # client /\ q \in Connecting => step[q] # step[client]
      <4>1. \A q \in Connecting : step[q] = step[client] => q <= client /\ client <= q
        BY <2>1, <2>3, <2>7
      <4> QED
        BY <1>1, <2>2, <2>3, <4>1
    <3>2. ASSUME NEW ok \in BOOLEAN, End(client, ok)
          PROVE  /\ step'[client] = "ended" /\ (~error' => ok)
                 /\ \A q \in Runs \ {client} : step'[q] = step[q]
      BY <1>1, <2>2, <3>2 DEF End
    <3>3. CASE ChainIdArrives(client)
      <4>1. chainId' = client /\ (HasWallet(client) => address' = client) /\ step[client] = "chain"
        BY <3>3 DEF ChainIdArrives
      <4>2. \A q \in Runs \ {client} : step[q] # "chain"
        BY <3>1, <4>1 DEF Connecting
      <4>3. CASE HasWallet(client)
        <5>1. step' = [step EXCEPT ![client] = "balance"]
          BY <3>3, <4>3 DEF ChainIdArrives
        <5>2. step'[client] = "balance" /\ \A q \in Runs \ {client} : step'[q] = step[q]
          BY <1>1, <2>2, <5>1
        <5> QED
          BY <2>1, <2>2, <2>4, <4>1, <4>2, <5>2 DEF ConnectionInv, Arrived
      <4>4. CASE ~HasWallet(client)
        <5>1. step'[client] = "ended" /\ \A q \in Runs \ {client} : step'[q] = step[q]
          BY <3>2, <3>3, <4>4 DEF ChainIdArrives
        <5> QED
          BY <2>1, <2>2, <2>4, <4>1, <4>2, <4>4, <5>1 DEF ConnectionInv, Arrived
      <4> QED
        BY <4>3, <4>4
    <3>4. CASE BalanceArrives(client)
      <4>1. step[client] = "balance" /\ balance' = client /\ UNCHANGED <<chainId, address>>
        BY <3>4 DEF BalanceArrives
      <4>2. step'[client] = "ended" /\ \A q \in Runs \ {client} : step'[q] = step[q]
        BY <3>2, <3>4 DEF BalanceArrives
      <4>3. Arrived(client) /\ \A q \in Runs : step[q] # "chain"
        BY <2>2, <2>7, <4>1 DEF ConnectionInv
      <4>4. \A q \in Runs \ {client} : step[q] # "balance"
        BY <3>1, <4>1 DEF Connecting
      <4>5. Connecting' = {}
        BY <4>2, <4>3, <4>4 DEF Connecting
      <4> QED
        BY <2>1, <2>2, <2>4, <4>1, <4>2, <4>3, <4>5 DEF ConnectionInv, Arrived
    <3>5. CASE ReadFails(client)
      <4>1. step'[client] = "ended" /\ error' /\ \A q \in Runs \ {client} : step'[q] = step[q]
        BY <3>2, <3>5 DEF ReadFails
      <4>2. \A q \in Runs \ {client} : step[q] # "chain"
        BY <2>1, <2>2, <2>7, <3>1 DEF ConnectionInv, Connecting
      <4> QED
        BY <2>1, <2>2, <4>1, <4>2 DEF ConnectionInv
    <3> QED
      BY <1>3, <2>7, <3>3, <3>4, <3>5 DEF Resume
  <2> QED
    BY <2>5, <2>6, <2>7
<1>4. CASE Disconnect
  BY <1>4 DEF Disconnect, Reset, ConnectionInv, Connecting, runs
<1>5. CASE UNCHANGED <<runs, connection, interrupted>>
  BY <1>0, <1>5 DEF ConnectionInv, Connecting, Arrived, HasWallet, runs, connection
<1> QED
  BY <1>2, <1>3, <1>4, <1>5, ConnectSteps

\* What a connection shows, when nothing runs and no disconnect came in between, was all read
\* through the client shown; without a client nothing shows.
THEOREM ConnectionsAreWhole == Spec => []ConnectionIsWhole
<1>1. Init => ConnectionInv
  BY DEF Init, ConnectionInv, Connecting
<1>2. TypeOK /\ ConnectionInv => ConnectionIsWhole
  <2> SUFFICES ASSUME TypeOK, ConnectionInv PROVE ConnectionIsWhole
    OBVIOUS
  <2>1. client # 0 => client \in Runs /\ step[client] \in {"chain", "balance", "ended"}
    BY ReactHooksAssumption DEF TypeOK, RunsOK, Runs, StepStates, ReactHooksAssumption
  <2>2. client # 0 /\ Connecting = {} => step[client] = "ended"
    BY <2>1 DEF Connecting
  <2> QED
    BY <2>2 DEF ConnectionInv, ConnectionIsWhole, Arrived
<1> QED
  BY <1>1, <1>2, ConnectionStep, TypeCorrect, PTL DEF Spec

\* After the last of any overlapping requests has settled in order, modelInfo is that of the model
\* and the client of the latest render.
THEOREM LatestIsWhatShows == Spec => []LatestIsShown
<1>1. Init => LatestInv
  BY DEF Init, LatestInv, Nothing
<1>2. TypeOK /\ LatestInv /\ [Next]_vars => LatestInv'
  <2> SUFFICES ASSUME TypeOK, LatestInv, [Next]_vars PROVE LatestInv'
    OBVIOUS
  <2> DEFINE queue == pending["info"]
  <2>1. inOrder' = inOrder
    BY DEF Next, Render, ConnectEffect, ConnectCalled, Disconnect, Resume, FetchEffect, RefetchCalled,
       Execute, Answer, Settle, rendered, vars
  <2>2. /\ pending \in [Hooks -> Seq(Requests)] /\ shown \in [Hooks -> Requests]
        /\ failed \in [Hooks -> BOOLEAN] /\ queue \in Seq(Requests) /\ Hooks = {"info", "run"}
    BY DEF TypeOK, RequestsOK, Hooks
  <2>3. CASE fetchDeps' = FetchDeps /\ Ask("info", <<client, modelId>>)
    <3>1. pending'["info"] = Append(queue, fetchDeps')
      BY <2>2, <2>3 DEF Ask, FetchDeps
    <3>2. pending'["info"] # <<>> /\ pending'["info"][Len(pending'["info"])] = fetchDeps'
      BY <2>2, <3>1
    <3> QED
      BY <3>2 DEF LatestInv
  <2>4. CASE (client = 0 \/ modelId = None) /\ fetchDeps' = FetchDeps
    BY <2>4 DEF LatestInv, FetchDeps
  <2>5. CASE Ask("run", <<client, None>>) /\ UNCHANGED fetchDeps
    <3>1. pending'["info"] = queue /\ failed'["info"] = failed["info"] /\ shown' = shown
      BY <2>2, <2>5 DEF Ask
    <3> QED
      BY <2>1, <2>5, <3>1 DEF LatestInv
  <2>6. ASSUME NEW h \in Hooks, Answer(h), fetchDeps' = fetchDeps PROVE LatestInv'
    <3>1. PICK k \in DOMAIN pending[h], ok \in BOOLEAN : Settle(h, k, ok)
      BY <2>6 DEF Answer
    <3>2. CASE h # "info"
      <4>1. pending'["info"] = queue /\ failed'["info"] = failed["info"] /\ shown'["info"] = shown["info"]
        BY <2>2, <3>1, <3>2 DEF Settle
      <4> QED
        BY <2>1, <2>6, <4>1 DEF LatestInv
    <3>3. CASE h = "info"
      <4> SUFFICES ASSUME inOrder, fetchDeps[1] # 0, fetchDeps[2] # None PROVE LatestInv'
        BY <2>1, <2>6 DEF LatestInv
      <4>1. k = 1 /\ queue # <<>> /\ Len(queue) \in Nat /\ Len(queue) >= 1
        BY <2>2, <3>1, <3>3 DEF Settle
      <4>2. queue[Len(queue)] = fetchDeps
        BY <4>1 DEF LatestInv
      <4>3. pending'["info"] = RemoveAt(queue, 1)
        BY <2>2, <3>1, <3>3, <4>1 DEF Settle
      <4>4. /\ RemoveAt(queue, 1) \in Seq(Requests) /\ Len(RemoveAt(queue, 1)) = Len(queue) - 1
            /\ Len(queue) > 1 => RemoveAt(queue, 1)[Len(queue) - 1] = queue[Len(queue)]
        BY <2>2, <4>1, QueueShortened
      <4>5. CASE Len(queue) = 1
        <5>1. ok => shown'["info"] = queue[1]
          BY <2>2, <3>1, <3>3, <4>1 DEF Settle
        <5>2. ~ok => failed'["info"]
          BY <2>2, <3>1, <3>3 DEF Settle
        <5>3. pending'["info"] = <<>>
          BY <4>3, <4>4, <4>5
        <5> QED
          BY <2>6, <4>2, <4>5, <5>1, <5>2, <5>3 DEF LatestInv
      <4>6. CASE Len(queue) > 1
        <5>1. pending'["info"] # <<>> /\ pending'["info"][Len(pending'["info"])] = fetchDeps
          BY <4>2, <4>3, <4>4, <4>6
        <5> QED
          BY <2>6, <5>1 DEF LatestInv
      <4>7. Len(queue) = 1 \/ Len(queue) > 1
        <5>1. \A n \in Nat : n >= 1 => n = 1 \/ n > 1
          OBVIOUS
        <5> QED
          BY <4>1, <5>1
      <4> QED
        BY <4>5, <4>6, <4>7
    <3> QED
      BY <3>2, <3>3
  <2>7. CASE UNCHANGED <<fetchDeps, requests>>
    BY <2>1, <2>7 DEF LatestInv, requests
  <2> QED
    BY <2>3, <2>4, <2>5, <2>6, <2>7, RequestSteps
<1>3. LatestInv => LatestIsShown
  BY DEF LatestInv, LatestIsShown, FetchDeps
<1> QED
  BY <1>1, <1>2, <1>3, TypeCorrect, PTL DEF Spec

\* No spinner runs with nothing in flight that would stop it.
THEOREM SpinnersAreStopped == Spec => []SpinnersStop
<1>1. Init => SpinnersStop
  BY DEF Init, SpinnersStop
<1>2. TypeOK /\ SpinnersStop /\ [Next]_vars => SpinnersStop'
  <2> SUFFICES ASSUME TypeOK, SpinnersStop, [Next]_vars PROVE SpinnersStop'
    OBVIOUS
  <2> USE ReactHooksAssumption DEF ReactHooksAssumption
  <2>1. isConnecting' => Connecting' # {}
    <3>1. CASE Connect
      <4>1. CASE ~isConnecting'
        BY <4>1
      <4>2. CASE isConnecting'
        <5>1. /\ Len(made) < MaxConnects /\ made' = Append(made, options)
              /\ client' = Len(made') /\ step' = [step EXCEPT ![client'] = "chain"]
          BY <3>1, <4>2 DEF Connect
        <5>2. client' \in Runs /\ step'[client'] = "chain"
          BY <5>1, ClientMade DEF TypeOK
        <5> QED
          BY <5>2 DEF Connecting
      <4> QED
        BY <4>1, <4>2
    <3>2. ASSUME NEW r \in Runs, Resume(r) PROVE isConnecting' => Connecting' # {}
      <4>1. CASE ~isConnecting'
        BY <4>1
      <4>2. CASE isConnecting'
        <5>1. step' = [step EXCEPT ![r] = "balance"]
          BY <3>2, <4>2 DEF Resume, ChainIdArrives, BalanceArrives, ReadFails, End
        <5>2. step'[r] = "balance"
          BY <5>1 DEF TypeOK, RunsOK
        <5> QED
          BY <5>2 DEF Connecting
      <4> QED
        BY <4>1, <4>2
    <3>3. CASE Disconnect
      BY <3>3 DEF Disconnect, SpinnersStop, Connecting, runs
    <3>4. CASE UNCHANGED <<runs, connection, interrupted>>
      BY <3>4 DEF SpinnersStop, Connecting, runs, connection
    <3> QED
      BY <3>1, <3>2, <3>3, <3>4, ConnectSteps
  <2>2. \A h \in Hooks : busy'[h] => pending'[h] # <<>>
    <3>1. /\ pending \in [Hooks -> Seq(Requests)] /\ busy \in [Hooks -> BOOLEAN]
          /\ \A h \in Hooks : busy[h] => pending[h] # <<>>
      BY DEF TypeOK, RequestsOK, SpinnersStop
    <3>2. ASSUME NEW h \in Hooks, NEW request, Ask(h, request)
          PROVE  \A g \in Hooks : busy'[g] => pending'[g] # <<>>
      <4>1. pending'[h] = Append(pending[h], request)
        BY <3>1, <3>2 DEF Ask
      <4>2. pending'[h] # <<>>
        BY <3>1, <4>1
      <4>3. \A g \in Hooks \ {h} : pending'[g] = pending[g] /\ busy'[g] = busy[g]
        BY <3>1, <3>2 DEF Ask
      <4> QED
        BY <3>1, <4>2, <4>3
    <3>3. ASSUME NEW h \in Hooks, Answer(h)
          PROVE  \A g \in Hooks : busy'[g] => pending'[g] # <<>>
      <4>1. PICK k \in DOMAIN pending[h], ok \in BOOLEAN : Settle(h, k, ok)
        BY <3>3 DEF Answer
      <4>2. ~busy'[h] /\ \A g \in Hooks \ {h} : pending'[g] = pending[g] /\ busy'[g] = busy[g]
        BY <3>1, <4>1 DEF Settle, StillBusy
      <4> QED
        BY <3>1, <4>2
    <3>4. CASE UNCHANGED requests
      BY <3>1, <3>4 DEF requests
    <3> QED
      BY <3>2, <3>3, <3>4, RequestSteps DEF Hooks, requests
  <2> QED
    BY <2>1, <2>2 DEF SpinnersStop
<1> QED
  BY <1>1, <1>2, TypeCorrect, PTL DEF Spec
=============================================================================
