------------------------------ MODULE ShareGuard ------------------------------
(***************************************************************************)
(* src/src/crypto/shareGuard.ts: the scan that keeps key shares out of     *)
(* public calldata.  It throws if it throws on one path from the root of a *)
(* payload to a leaf, so a path stands for the payloads that contain it:   *)
(*   "field"   into an object or an array, by an ordinary key              *)
(*   "denied"  into an object, by a name of SHARE_FIELD_DENYLIST           *)
(*   "json"    into a string that is JSON itself                           *)
(*   "twice"   into such a string, by a key that occurs a second time      *)
(*   "toJSON"  into what an object is serialised as, and does not hold     *)
(* and at its end "share", an object that looks like one; "bytes", a typed *)
(* array; "bigint", which cannot be serialised; "plain", anything else.    *)
(***************************************************************************)
EXTENDS Naturals, Sequences, FiniteSets

CONSTANT MaxDepth

ASSUME ShareGuardAssumption == MaxDepth \in Nat

ObjectSteps == {"field", "denied", "share", "toJSON"}
Ends == {"bytes", "bigint", "plain"}
Steps == ObjectSteps \cup {"json", "twice"} \cup Ends

\* Behind what is neither an object nor an array nor JSON there is nothing.
Paths == {path \in Seq(Steps) : \A i \in DOMAIN path : path[i] \in Ends => i = Len(path)}

\* What JSON.stringify keeps of a path, by position.
Wire(path) == {i \in DOMAIN path : path[i] # "toJSON"}

Depth(i, steps) == Cardinality({j \in steps : j < i})

\* scan() goes down through objects, arrays and strings that are JSON.
Reached(path, i, steps) == \A j \in steps : j < i => path[j] \in {"field", "json"}

\* Mutated form: what is nested too deep is not looked at, and passes.
ScanToLimit(path, steps) ==
    \E i \in steps :
        /\ Reached(path, i, steps)
        /\ \A j \in steps : j <= i /\ path[j] \in ObjectSteps => Depth(j, steps) <= MaxDepth
        /\ path[i] \in {"twice", "denied", "share"}

\* scan(value, 0) throws, for the value that has these steps of the path.
Scan(path, steps) ==
    \E i \in steps :
        /\ Reached(path, i, steps)
        /\ \/ path[i] \in {"twice", "denied", "share"}
           \/ path[i] \in ObjectSteps /\ Depth(i, steps) > MaxDepth

Serialisable(path) == "bigint" \notin {path[i] : i \in DOMAIN path}

AssertNoKeyShareMaterial(path) ==
    (Serialisable(path) => ~Scan(path, Wire(path))) /\ ~Scan(path, DOMAIN path)

\* What is sent is parsed again; JSON.stringify repeats no keys of its own.
AssertPayloadHasNoKeyShareMaterial(path) == Serialisable(path) /\ ~Scan(path, Wire(path))

\* A reader of the payload finds a share behind the path, whatever decoder it uses.
HoldsShare(path) == \E i \in Wire(path) : path[i] \in {"denied", "share"}
=============================================================================
