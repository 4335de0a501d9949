----------------------- MODULE ModelDeployment_proofs -----------------------
(***************************************************************************)
(* Proofs about ModelDeployment.tla: what is published and to whom, for    *)
(* any deployments, configurations, metadata, providers and limits.        *)
(***************************************************************************)
EXTENDS ModelDeployment, WellFoundedInduction, TLAPS

\* Every set of numbers has a least one.
LEMMA LeastNumber ==
    ASSUME NEW S \in SUBSET Nat, S # {}
    PROVE  \E n \in S : \A m \in S : n <= m
<1> DEFINE R == {pair \in Nat \X Nat : pair[1] < pair[2]}
<1>1. OpToRel(<, Nat) = R
  BY DEF OpToRel
<1>2. IsWellFoundedOn(R, Nat)
  BY NatLessThanWellFounded DEF OpToRel
<1>3. PICK n \in S : \A m \in S : ~(<<m, n>> \in R)
  BY <1>2, WFMin
<1>4. \A m \in S : <<m, n>> \in R <=> m < n
  OBVIOUS
<1> HIDE DEF R
<1>5. \A m \in S : ~(m < n)
  BY <1>3, <1>4
<1> QED
  BY <1>5
-----------------------------------------------------------------------------
\* What the scan passes holds no share: it stops short of a step only at the end of the path or
\* where it throws.
LEMMA ScannedIsClean ==
    ASSUME NEW path \in Paths, ~Scan(path, Wire(path))
    PROVE  ~HoldsShare(path)
<1> SUFFICES ASSUME HoldsShare(path) PROVE FALSE
  OBVIOUS
<1> DEFINE Stops == {i \in Wire(path) : path[i] \notin {"field", "json"}}
<1>1. /\ Len(path) \in Nat /\ DOMAIN path = 1 .. Len(path)
      /\ \A i \in DOMAIN path : path[i] \in Steps /\ (path[i] \in Ends => i = Len(path))
  BY DEF Paths
<1>2. PICK share \in Stops : path[share] \in {"denied", "share"}
  BY DEF HoldsShare
<1>3. Stops \in SUBSET Nat /\ Stops # {}
  BY <1>1, <1>2 DEF Wire
<1>4. PICK first \in Stops : \A i \in Stops : first <= i
  BY <1>3, LeastNumber
<1>5. Reached(path, first, Wire(path))
  BY <1>1, <1>4 DEF Reached, Wire
<1>6. path[first] \in {"denied", "share", "twice"} \cup Ends
  BY <1>1 DEF Wire, Steps, ObjectSteps
<1>7. path[first] \notin Ends
  BY <1>1, <1>2, <1>4 DEF Wire, Ends
<1> QED
  BY <1>5, <1>6, <1>7 DEF Scan
-----------------------------------------------------------------------------
\* Where the node at the end of a way takes others, each of them ends a way of its own.
LEMMA WaysGoOn ==
    ASSUME NEW p, Root \in DOMAIN p, NEW way \in Ways(p), ~Throws(p, way),
           p[Reaches(way)] # Endpoint, NEW node \in DOMAIN p, node \in p[Reaches(way)]
    PROVE  \E more \in Ways(p) : Reaches(more) = node
<1> USE DeploymentAssumption DEF DeploymentAssumption
<1>1. PICK k \in 1 .. MaxNesting + 2 : way \in [1 .. k -> DOMAIN p]
  BY DEF Ways
<1>2. Len(way) = k /\ k \in Nat
  BY <1>1
<1>3. /\ way[1] = Root
      /\ \A i \in 1 .. k - 1 : p[way[i]] \notin {Endpoint, Mute} /\ way[i + 1] \in p[way[i]]
  BY <1>2 DEF Ways
<1>4. k - 1 <= MaxNesting /\ p[way[k]] \notin {Endpoint, Mute} /\ node \in p[way[k]]
  BY <1>2 DEF Throws, Reaches
<1> DEFINE more == [i \in 1 .. k + 1 |-> IF i = k + 1 THEN node ELSE way[i]]
<1>5. more \in [1 .. k + 1 -> DOMAIN p] /\ k + 1 \in 1 .. MaxNesting + 2
  BY <1>1, <1>2, <1>4
<1>6. more[1] = Root /\ more[k + 1] = node
  BY <1>1, <1>2, <1>3
<1>7. Len(more) = k + 1
  BY <1>2
<1>8. ASSUME NEW i \in 1 .. k PROVE p[more[i]] \notin {Endpoint, Mute} /\ more[i + 1] \in p[more[i]]
  <2>1. CASE i = k
    <3>1. more[i] = way[k] /\ more[i + 1] = node
      BY <1>2, <2>1
    <3> QED
      BY <1>4, <3>1
  <2>2. CASE i # k
    <3>1. i \in 1 .. k - 1 /\ more[i] = way[i] /\ more[i + 1] = way[i + 1]
      BY <1>2, <2>2
    <3> QED
      BY <1>3, <3>1
  <2> QED
    BY <2>1, <2>2
<1> HIDE DEF more
<1>9. Len(more) - 1 = k
  BY <1>2, <1>7
<1>10. more \in Ways(p)
  BY <1>5, <1>6, <1>8, <1>9 DEF Ways
<1> QED
  BY <1>6, <1>7, <1>10 DEF Reaches

\* When the walk throws nowhere, the endpoints it has found are all that is behind the provider.
LEMMA EndpointsCover ==
    ASSUME NEW p \in Providers, EndpointsOf(p) # Refused
    PROVE  \E nodes \in SUBSET DOMAIN p :
               /\ Root \in nodes
               /\ \A n \in nodes : p[n] \notin {Endpoint, Mute} => p[n] \ {None} \subseteq nodes
               /\ {n \in nodes : p[n] \in {Endpoint, Mute}} \subseteq EndpointsOf(p)
<1> DEFINE nodes == {Reaches(way) : way \in Ways(p)}
<1>1. \A way \in Ways(p) : ~Throws(p, way)
  BY DEF EndpointsOf
<1>2. EndpointsOf(p) = {Reaches(way) : way \in {w \in Ways(p) : p[Reaches(w)] = Endpoint}}
  BY <1>1 DEF EndpointsOf
<1>3. /\ Root \in DOMAIN p
      /\ \A n \in DOMAIN p : p[n] \in {Endpoint, Mute} \/ p[n] \subseteq DOMAIN p \cup {None}
  BY ProvidersAssumption DEF ProvidersAssumption
<1>4. \A way \in Ways(p) : Reaches(way) \in DOMAIN p
  <2> SUFFICES ASSUME NEW way \in Ways(p) PROVE Reaches(way) \in DOMAIN p
    OBVIOUS
  <2>1. PICK k \in 1 .. MaxNesting + 2 : way \in [1 .. k -> DOMAIN p]
    BY DEF Ways
  <2>2. Len(way) = k /\ k \in 1 .. k
    BY <2>1, DeploymentAssumption DEF DeploymentAssumption
  <2> QED
    BY <2>1, <2>2 DEF Reaches
<1>5. Root \in nodes
  <2> DEFINE way == [i \in 1 .. 1 |-> Root]
  <2>1. way \in [1 .. 1 -> DOMAIN p] /\ Len(way) = 1 /\ way[1] = Root
    BY <1>3
  <2> HIDE DEF way
  <2>2. 1 \in 1 .. MaxNesting + 2
    BY DeploymentAssumption DEF DeploymentAssumption
  <2>3. way \in UNION {[1 .. k -> DOMAIN p] : k \in 1 .. MaxNesting + 2}
    BY <2>1, <2>2
  <2>4. \A i : i \notin 1 .. Len(way) - 1
    BY <2>1
  <2>5. way \in Ways(p)
    BY <2>1, <2>3, <2>4 DEF Ways
  <2> QED
    BY <2>1, <2>5 DEF Reaches
<1>6. ASSUME NEW n \in nodes, p[n] \notin {Endpoint, Mute}, NEW node \in p[n] \ {None} PROVE node \in nodes
  <2>1. PICK way \in Ways(p) : Reaches(way) = n
    OBVIOUS
  <2>2. node \in DOMAIN p
    BY <1>3, <1>4, <1>6, <2>1
  <2>3. PICK more \in Ways(p) : Reaches(more) = node
    <3>1. ~Throws(p, way) /\ p[Reaches(way)] # Endpoint /\ node \in p[Reaches(way)]
      BY <1>1, <1>6, <2>1
    <3> QED
      BY <1>3, <2>2, <3>1, WaysGoOn
  <2> QED
    BY <2>3
<1>7. ASSUME NEW n \in nodes, p[n] \in {Endpoint, Mute} PROVE n \in EndpointsOf(p)
  <2>1. PICK way \in Ways(p) : Reaches(way) = n
    OBVIOUS
  <2>2. p[n] = Endpoint
    BY <1>1, <1>7, <2>1 DEF Throws
  <2> QED
    BY <1>2, <2>1, <2>2
<1>8. nodes \in SUBSET DOMAIN p
  BY <1>4
<1> HIDE DEF nodes
<1> QED
  BY <1>5, <1>6, <1>7, <1>8
-----------------------------------------------------------------------------
Scanned == {"serialised", "cleared", "done"}

\* The arguments of a deployment are set once, when it leaves "idle", and encryption is chosen by them.
ArgumentsOK ==
    /\ provider \in Providers /\ content \in [Objects -> Contents]
    /\ pc \in [Deploys -> {"idle", "hashed", "uploaded", "failed"} \cup Scanned]
    /\ config = [d \in Deploys |-> config[d]]
    /\ metadata \in [Deploys -> Objects \cup {None}]
    /\ uploaded = [d \in Deploys |-> uploaded[d]]
    /\ payload = [d \in Deploys |-> payload[d]]
    /\ encryption \in [Objects -> Deploys \cup {None}]
    /\ broadcast \subseteq Deploys

\* A scanned payload holds no share and what was chosen for its deployment.
PayloadHolds(d) ==
    /\ ~HoldsShare(payload[d].path)
    /\ IF payload[d].encrypted THEN payload[d].data = d /\ payload[d].encryption = d
       ELSE /\ payload[d].data = None
            /\ payload[d].encryption # None =>
                 /\ payload[d].encryption \in Deploys /\ pc[payload[d].encryption] # "idle"
                 /\ metadata[payload[d].encryption] = metadata[d] /\ metadata[d] # None

\* What was uploaded is the deployment's own, and an object is marked by a deployment that was
\* given it.
PayloadInv ==
    /\ ArgumentsOK
    /\ \A d \in Deploys : pc[d] \in {"uploaded"} \cup Scanned => uploaded[d] = IF Encrypts(d) THEN d ELSE None
    /\ \A o \in Objects : encryption[o] # None => metadata[encryption[o]] = o /\ pc[encryption[o]] # "idle"
    /\ \A d \in Deploys : pc[d] \in Scanned => PayloadHolds(d)
    /\ \A d \in broadcast : pc[d] = "done"

\* Who is past the network check was let through by one that covered the endpoints of the provider.
CheckInv ==
    (\E d \in Deploys : pc[d] \in {"cleared", "done"}) =>
        EndpointsOf(provider) # Refused /\ networkCheck = EndpointsOf(provider)

LEMMA PayloadPaths ==
    ASSUME ArgumentsOK, NEW d \in Deploys
    PROVE  PayloadPath(d) \in Paths
<1>1. ASSUME NEW rest \in Paths PROVE (<<"field", "field">> \o rest) \in Paths
  <2> DEFINE path == <<"field", "field">> \o rest
  <2>1. rest \in Seq(Steps) /\ Len(rest) \in Nat
    BY DEF Paths
  <2>2. <<"field", "field">> \in Seq(Steps) /\ Len(<<"field", "field">>) = 2
    BY DEF Steps, ObjectSteps
  <2>3. path \in Seq(Steps) /\ Len(path) = Len(rest) + 2
    BY <2>1, <2>2
  <2>4. ASSUME NEW i \in DOMAIN path, path[i] \in Ends PROVE i = Len(path)
    <3>1. i \in 1 .. Len(rest) + 2
      BY <2>3
    <3>2. i > 2
      BY <2>4, <3>1 DEF Ends
    <3>3. path[i] = rest[i - 2] /\ i - 2 \in DOMAIN rest
      BY <2>1, <3>1, <3>2
    <3>4. i - 2 = Len(rest)
      BY <2>4, <3>3 DEF Paths
    <3> QED
      BY <2>1, <2>3, <3>1, <3>4
  <2> QED
    BY <2>3, <2>4 DEF Paths
<1>2. <<"plain">> \in Paths
  BY DEF Paths, Steps, Ends
<1>3. metadata[d] # None => content[metadata[d]] \in Paths
  BY ContentsAssumption DEF ArgumentsOK, ContentsAssumption
<1> QED
  BY <1>1, <1>2, <1>3 DEF PayloadPath

LEMMA ArgumentsStep == ArgumentsOK /\ [Next]_vars => ArgumentsOK'
<1> SUFFICES ASSUME ArgumentsOK, [Next]_vars PROVE ArgumentsOK'
  OBVIOUS
<1> USE DEF ArgumentsOK, Scanned
<1>1. ASSUME NEW d \in Deploys, NEW c \in Configs, NEW object \in Objects \cup {None}, Call(d, c, object)
      PROVE  ArgumentsOK'
  BY <1>1 DEF Call, Goto
<1>2. ASSUME NEW d \in Deploys, Upload(d) PROVE ArgumentsOK'
  BY <1>2 DEF Upload, Goto, arguments
<1>3. ASSUME NEW d \in Deploys, Serialise(d) PROVE ArgumentsOK'
  <2>1. encryption' \in [Objects -> Deploys \cup {None}]
    BY <1>3 DEF Serialise, EncryptionField
  <2> QED
    BY <1>3, <2>1 DEF Serialise, Goto, arguments
<1>4. ASSUME NEW d \in Deploys, NEW bad, Verify(d, bad) PROVE ArgumentsOK'
  BY <1>4 DEF Verify, Goto, arguments
<1>5. ASSUME NEW d \in Deploys, Send(d) PROVE ArgumentsOK'
  BY <1>5 DEF Send, Goto, arguments
<1>6. CASE UNCHANGED vars
  BY <1>6 DEF vars, arguments
<1> QED
  BY <1>1, <1>2, <1>3, <1>4, <1>5, <1>6 DEF Next

LEMMA PayloadStep == PayloadInv /\ [Next]_vars => PayloadInv'
<1> SUFFICES ASSUME PayloadInv, [Next]_vars PROVE PayloadInv'
  OBVIOUS
<1>0. ArgumentsOK /\ ArgumentsOK'
  BY ArgumentsStep DEF PayloadInv
<1> USE DeploymentAssumption DEF DeploymentAssumption, Scanned
<1>1. ASSUME NEW d \in Deploys, NEW c \in Configs, NEW object \in Objects \cup {None}, Call(d, c, object)
      PROVE  PayloadInv'
  <2>1. /\ pc[d] = "idle" /\ pc'[d] \in {"hashed", "failed"}
        /\ \A e \in Deploys \ {d} : pc'[e] = pc[e] /\ config'[e] = config[e] /\ metadata'[e] = metadata[e]
        /\ UNCHANGED <<encryption, uploaded, payload, broadcast>>
    BY <1>0, <1>1 DEF Call, Goto, ArgumentsOK
  <2>2. \A e \in Deploys : pc[e] # "idle" =>
            e # d /\ pc'[e] = pc[e] /\ config'[e] = config[e] /\ metadata'[e] = metadata[e]
    BY <2>1
  <2>3. \A o \in Objects : encryption[o] # None => encryption[o] \in Deploys
    BY <1>0 DEF ArgumentsOK
  <2>4. \A e \in Deploys : pc'[e] \in {"uploaded"} \cup Scanned => pc[e] # "idle" /\ pc[e] = pc'[e]
    BY <2>1
  <2>5. \A e \in Deploys : pc'[e] \in {"uploaded"} \cup Scanned => uploaded'[e] = IF Encrypts(e)' THEN e ELSE None
    BY <2>1, <2>2, <2>4 DEF PayloadInv, Encrypts
  <2>6. \A o \in Objects : encryption'[o] # None =>
            metadata'[encryption'[o]] = o /\ pc'[encryption'[o]] # "idle"
    BY <2>1, <2>2, <2>3 DEF PayloadInv
  <2>7. \A e \in Deploys : pc'[e] \in Scanned => PayloadHolds(e)'
    BY <2>1, <2>2, <2>4 DEF PayloadInv, PayloadHolds
  <2>8. \A e \in broadcast' : pc'[e] = "done"
    BY <1>0, <2>1, <2>2 DEF PayloadInv, ArgumentsOK
  <2> QED
    BY <1>0, <2>5, <2>6, <2>7, <2>8 DEF PayloadInv
<1>2. ASSUME NEW d \in Deploys, Upload(d) PROVE PayloadInv'
  <2>1. /\ pc[d] = "hashed" /\ pc'[d] \in {"uploaded", "failed"}
        /\ \A e \in Deploys \ {d} : pc'[e] = pc[e] /\ uploaded'[e] = uploaded[e]
        /\ pc'[d] = "uploaded" => uploaded'[d] = IF Encrypts(d) THEN d ELSE None
        /\ UNCHANGED <<config, metadata, encryption, payload, broadcast>>
    BY <1>0, <1>2 DEF Upload, Goto, ArgumentsOK, arguments
  <2>2. \A e \in Deploys : pc'[e] = "idle" <=> pc[e] = "idle"
    BY <2>1
  <2>3. \A o \in Objects : encryption[o] # None => encryption[o] \in Deploys
    BY <1>0 DEF ArgumentsOK
  <2>4. \A e \in Deploys : pc'[e] \in Scanned => e # d /\ pc[e] = pc'[e]
    BY <2>1
  <2>5. \A e \in Deploys : pc'[e] \in {"uploaded"} \cup Scanned => uploaded'[e] = IF Encrypts(e)' THEN e ELSE None
    BY <2>1 DEF PayloadInv, Encrypts
  <2>6. \A o \in Objects : encryption'[o] # None =>
            metadata'[encryption'[o]] = o /\ pc'[encryption'[o]] # "idle"
    BY <2>1, <2>2, <2>3 DEF PayloadInv
  <2>7. \A e \in Deploys : pc'[e] \in Scanned => PayloadHolds(e)'
    <3>1. ASSUME NEW e \in Deploys, pc'[e] \in Scanned PROVE PayloadHolds(e)'
      <4>1. PayloadHolds(e)
        BY <2>4, <3>1 DEF PayloadInv
      <4> QED
        BY <2>1, <2>2, <4>1 DEF PayloadHolds
    <3> QED
      BY <3>1
  <2>8. \A e \in broadcast' : pc'[e] = "done"
    BY <1>0, <2>1 DEF PayloadInv, ArgumentsOK
  <2> QED
    BY <1>0, <2>5, <2>6, <2>7, <2>8 DEF PayloadInv
<1>3. ASSUME NEW d \in Deploys, Serialise(d) PROVE PayloadInv'
  <2> DEFINE path  == PayloadPath(d)
             clean == AssertNoKeyShareMaterial(path) /\ AssertPayloadHasNoKeyShareMaterial(path)
             wire  == [encrypted |-> Encrypts(d), data |-> uploaded[d],
                       encryption |-> EncryptionField(d), path |-> path]
  <2>1. /\ pc[d] = "uploaded" /\ pc' = [pc EXCEPT ![d] = IF clean THEN "serialised" ELSE "failed"]
        /\ payload' = IF clean THEN [payload EXCEPT ![d] = wire] ELSE payload
        /\ encryption' = IF metadata[d] = None THEN encryption
                         ELSE [encryption EXCEPT ![metadata[d]] = EncryptionField(d)]
        /\ UNCHANGED <<config, metadata, uploaded, broadcast>>
    BY <1>3 DEF Serialise, Goto, arguments
  <2>2. clean => ~HoldsShare(path)
    BY <1>0, PayloadPaths, ScannedIsClean DEF AssertPayloadHasNoKeyShareMaterial
  <2>3. /\ wire.encrypted = Encrypts(d) /\ wire.data = uploaded[d]
        /\ wire.encryption = EncryptionField(d) /\ wire.path = path
    OBVIOUS
  <2> HIDE DEF clean, wire, path
  <2>4. /\ pc'[d] = "serialised" => clean /\ payload'[d] = wire
        /\ pc'[d] \in {"serialised", "failed"}
        /\ \A e \in Deploys \ {d} : pc'[e] = pc[e] /\ payload'[e] = payload[e]
    BY <1>0, <2>1 DEF ArgumentsOK
  <2>5. \A e \in Deploys : pc'[e] = "idle" <=> pc[e] = "idle"
    BY <2>1, <2>4
  <2>6. uploaded[d] = IF Encrypts(d) THEN d ELSE None
    BY <2>1 DEF PayloadInv
  <2>7. EncryptionField(d) # None /\ metadata[d] # None =>
            EncryptionField(d) \in Deploys /\ pc[EncryptionField(d)] # "idle"
              /\ metadata[EncryptionField(d)] = metadata[d]
    <3>1. CASE Encrypts(d)
      BY <2>1, <3>1 DEF EncryptionField
    <3>2. CASE ~Encrypts(d) /\ metadata[d] # None
      <4>1. metadata[d] \in Objects
        BY <1>0, <3>2 DEF ArgumentsOK
      <4>2. encryption[metadata[d]] \in Deploys \cup {None}
        BY <1>0, <4>1 DEF ArgumentsOK
      <4> QED
        BY <3>2, <4>1, <4>2 DEF EncryptionField, PayloadInv
    <3> QED
      BY <3>1, <3>2
  <2>8. ~Encrypts(d) /\ EncryptionField(d) # None => metadata[d] # None
    BY DEF EncryptionField
  <2>9. \A o \in Objects : encryption'[o] # None => metadata[encryption'[o]] = o /\ pc'[encryption'[o]] # "idle"
    <3> SUFFICES ASSUME NEW o \in Objects, encryption'[o] # None
                 PROVE  metadata[encryption'[o]] = o /\ pc'[encryption'[o]] # "idle"
      OBVIOUS
    <3>1. CASE o = metadata[d]
      <4>1. encryption'[o] = EncryptionField(d) /\ metadata[d] # None
        BY <1>0, <2>1, <3>1 DEF ArgumentsOK
      <4> QED
        BY <2>5, <2>7, <3>1, <4>1
    <3>2. CASE o # metadata[d]
      <4>1. encryption'[o] = encryption[o]
        BY <1>0, <2>1, <3>2 DEF ArgumentsOK
      <4>2. encryption[o] \in Deploys
        BY <1>0, <4>1 DEF ArgumentsOK
      <4> QED
        BY <2>5, <4>1, <4>2 DEF PayloadInv
    <3> QED
      BY <3>1, <3>2
  <2>10. \A e \in Deploys : pc'[e] \in Scanned =>
            /\ ~HoldsShare(payload'[e].path)
            /\ IF payload'[e].encrypted THEN payload'[e].data = e /\ payload'[e].encryption = e
               ELSE /\ payload'[e].data = None
                    /\ payload'[e].encryption # None =>
                         /\ payload'[e].encryption \in Deploys /\ pc'[payload'[e].encryption] # "idle"
                         /\ metadata[payload'[e].encryption] = metadata[e] /\ metadata[e] # None
    <3> SUFFICES ASSUME NEW e \in Deploys, pc'[e] \in Scanned
                 PROVE  /\ ~HoldsShare(payload'[e].path)
                        /\ IF payload'[e].encrypted THEN payload'[e].data = e /\ payload'[e].encryption = e
                           ELSE /\ payload'[e].data = None
                                /\ payload'[e].encryption # None =>
                                     /\ payload'[e].encryption \in Deploys /\ pc'[payload'[e].encryption] # "idle"
                                     /\ metadata[payload'[e].encryption] = metadata[e] /\ metadata[e] # None
      OBVIOUS
    <3>1. CASE e = d
      <4>1. clean /\ payload'[e] = wire
        BY <2>4, <3>1
      <4>2. ~HoldsShare(payload'[e].path)
        BY <2>2, <2>3, <4>1
      <4>3. CASE Encrypts(d)
        <5>1. EncryptionField(d) = d
          BY <4>3 DEF EncryptionField
        <5> QED
          BY <2>3, <2>6, <3>1, <4>1, <4>2, <4>3, <5>1
      <4>4. CASE ~Encrypts(d)
        BY <2>3, <2>5, <2>6, <2>7, <2>8, <3>1, <4>1, <4>2, <4>4
      <4> QED
        BY <4>3, <4>4
    <3>2. CASE e # d
      <4>1. pc'[e] = pc[e] /\ payload'[e] = payload[e]
        BY <2>4, <3>2
      <4> QED
        BY <2>5, <4>1 DEF PayloadInv, PayloadHolds
    <3> QED
      BY <3>1, <3>2
  <2>11. /\ \A e \in Deploys : pc'[e] \in {"uploaded"} \cup Scanned => pc[e] \in {"uploaded"} \cup Scanned
         /\ \A e \in Deploys : Encrypts(e)' = Encrypts(e)
    BY <2>1, <2>4 DEF Encrypts
  <2>12. \A e \in broadcast' : pc'[e] = "done"
    BY <1>0, <2>1, <2>4 DEF PayloadInv, ArgumentsOK
  <2> QED
    BY <1>0, <2>1, <2>9, <2>10, <2>11, <2>12 DEF PayloadInv, PayloadHolds
<1>4. ASSUME NEW d \in Deploys, NEW bad, Verify(d, bad) \/ Send(d) PROVE PayloadInv'
  <2>1. /\ pc[d] \in {"serialised", "cleared"}
        /\ pc'[d] \in {"cleared", "failed", "done"}
        /\ \A e \in Deploys \ {d} : pc'[e] = pc[e]
        /\ UNCHANGED <<config, metadata, encryption, uploaded, payload>>
        /\ broadcast' = broadcast \/ (broadcast' = broadcast \cup {d} /\ pc'[d] = "done")
    BY <1>0, <1>4 DEF Verify, Send, Goto, ArgumentsOK, arguments
  <2>2. \A e \in Deploys : pc'[e] = "idle" <=> pc[e] = "idle"
    BY <2>1
  <2>3. \A e \in Deploys : pc'[e] \in {"uploaded"} \cup Scanned => pc[e] = pc'[e] \/ pc[e] \in Scanned
    BY <2>1
  <2>4. \A e \in Deploys : pc'[e] \in Scanned => pc[e] \in Scanned
    BY <2>1
  <2>5. \A o \in Objects : encryption[o] # None => encryption[o] \in Deploys
    BY <1>0 DEF ArgumentsOK
  <2>6. \A e \in broadcast' : pc'[e] = "done"
    BY <1>0, <2>1 DEF PayloadInv, ArgumentsOK
  <2> QED
    BY <1>0, <2>1, <2>2, <2>3, <2>4, <2>5, <2>6 DEF PayloadInv, PayloadHolds, Encrypts
<1>5. CASE UNCHANGED vars
  BY <1>0, <1>5 DEF PayloadInv, PayloadHolds, Encrypts, vars, arguments
<1> QED
  BY <1>1, <1>2, <1>3, <1>4, <1>5 DEF Next

LEMMA PayloadsHold == Spec => []PayloadInv
<1>1. Init => PayloadInv
  <2> SUFFICES ASSUME Init PROVE PayloadInv
    OBVIOUS
  <2>1. ArgumentsOK
    BY DEF Init, ArgumentsOK
  <2> QED
    BY <2>1 DEF Init, PayloadInv, Scanned
<1> QED
  BY <1>1, PayloadStep, PTL DEF Spec

\* Whatever the application puts into the metadata, in whatever guise and at whatever depth, no
\* share of a key is in what any deployment publishes.
THEOREM SharesStaySecret == Spec => []NoShareIsPublished
<1>1. PayloadInv => NoShareIsPublished
  BY DEF PayloadInv, PayloadHolds, ArgumentsOK, NoShareIsPublished, Scanned
<1> QED
  BY <1>1, PayloadsHold, PTL

\* Whatever deployments share an object for their metadata, what one publishes fits its data.
THEOREM MetadataFit == Spec => []MetadataFitData
<1>1. PayloadInv => MetadataFitData
  BY DEF PayloadInv, PayloadHolds, ArgumentsOK, MetadataFitData, Scanned
<1> QED
  BY <1>1, PayloadsHold, PTL

\* However providers are nested, a transaction goes to nobody whom the network check left out.
THEOREM NobodyIsLeftOut == Spec => []SentToVerified
<1>1. Init => CheckInv
  BY DEF Init, CheckInv
<1>2. PayloadInv /\ CheckInv /\ [Next]_vars => CheckInv'
  <2> SUFFICES ASSUME PayloadInv, CheckInv, [Next]_vars PROVE CheckInv'
    OBVIOUS
  <2>1. ArgumentsOK
    BY DEF PayloadInv
  <2>2. ASSUME NEW d \in Deploys, NEW bad, Verify(d, bad) PROVE CheckInv'
    <3>1. EndpointsBehind[provider] = EndpointsOf(provider)
      BY <2>1 DEF ArgumentsOK, EndpointsBehind
    <3> DEFINE endpoints == EndpointsOf(provider)
               passes    == endpoints # Refused /\ (networkCheck = endpoints \/ endpoints \cap bad = {})
    <3>2. /\ networkCheck' = IF passes THEN endpoints ELSE networkCheck
          /\ pc' = [pc EXCEPT ![d] = IF passes THEN "cleared" ELSE "failed"]
          /\ provider' = provider
      BY <2>2, <3>1 DEF Verify, Goto
    <3>3. EndpointsOf(provider)' = EndpointsOf(provider)
      BY <3>2 DEF EndpointsOf, Ways, Throws
    <3> HIDE DEF endpoints
    <3>4. CASE passes
      BY <3>2, <3>3, <3>4 DEF CheckInv, endpoints
    <3>5. CASE ~passes
      <4>1. \A e \in Deploys : pc'[e] \in {"cleared", "done"} => pc[e] \in {"cleared", "done"}
        BY <2>1, <3>2, <3>5 DEF ArgumentsOK
      <4> QED
        BY <3>2, <3>3, <3>5, <4>1 DEF CheckInv
    <3> QED
      BY <3>4, <3>5
  <2>3. ASSUME UNCHANGED <<provider, networkCheck>>,
               \A d \in Deploys : pc'[d] \in {"cleared", "done"} => pc[d] \in {"cleared", "done"}
        PROVE CheckInv'
    <3>1. EndpointsOf(provider)' = EndpointsOf(provider)
      BY <2>3 DEF EndpointsOf, Ways, Throws
    <3> QED
      BY <2>3, <3>1 DEF CheckInv
  <2>4. ASSUME NEW d \in Deploys, NEW c \in Configs, NEW object \in Objects \cup {None}, Call(d, c, object)
        PROVE  CheckInv'
    <3>1. /\ UNCHANGED <<provider, networkCheck>>
          /\ \A e \in Deploys : pc'[e] \in {"cleared", "done"} => pc[e] \in {"cleared", "done"}
      BY <2>1, <2>4 DEF Call, Goto, ArgumentsOK
    <3> QED
      BY <2>3, <3>1
  <2>5. CASE UNCHANGED vars
    BY <2>3, <2>5 DEF vars
  <2>6. CASE Next
    <3>1. PICK d \in Deploys :
            \/ \E c \in Configs, object \in Objects \cup {None} : Call(d, c, object)
            \/ Upload(d) \/ Serialise(d) \/ Send(d)
            \/ \E bad : Verify(d, bad)
      BY <2>6, Zenon DEF Next
    <3>2. CASE \E bad : Verify(d, bad)
      BY <2>2, <3>2, Zenon
    <3>3. CASE Upload(d) \/ Serialise(d) \/ Send(d)
      <4>1. ASSUME NEW e \in Deploys, Upload(e) \/ Serialise(e) \/ Send(e)
            PROVE  /\ UNCHANGED <<provider, networkCheck>>
                   /\ \A f \in Deploys : pc'[f] \in {"cleared", "done"} => pc[f] \in {"cleared", "done"}
        BY <2>1, <4>1 DEF Upload, Serialise, Send, Goto, ArgumentsOK
      <4> QED
        BY <2>3, <3>3, <4>1
    <3>4. CASE \E c \in Configs, object \in Objects \cup {None} : Call(d, c, object)
      BY <2>4, <3>4, Zenon
    <3> QED
      BY <3>1, <3>2, <3>3, <3>4
  <2> QED
    BY <2>5, <2>6
<1>3. PayloadInv /\ CheckInv => SentToVerified
  <2> SUFFICES ASSUME PayloadInv, CheckInv, broadcast # {} PROVE SentToVerified
    BY DEF SentToVerified
  <2>1. provider \in Providers /\ EndpointsOf(provider) # Refused /\ networkCheck = EndpointsOf(provider)
    BY DEF PayloadInv, PayloadHolds, ArgumentsOK, CheckInv
  <2> QED
    BY <2>1, EndpointsCover DEF SentToVerified
<1> QED
  BY <1>1, <1>2, <1>3, PayloadsHold, PTL DEF Spec
=============================================================================
