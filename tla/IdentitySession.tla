--------------------------- MODULE IdentitySession ---------------------------
(***************************************************************************)
(* Overlapping calls of one IdentityClient: src/src/identity/client.ts.    *)
(* A call's pc is the await it has reached.  The client's own state is two *)
(* caches; the application is a holder of one session, which adopts what a *)
(* sign-in or a refresh returns.  The authority serves a request and its   *)
(* answer arrives later or never, so what it has spent may be unknown to   *)
(* the client.  A refresh token is named by the call that brought it, and  *)
(* the nonce of a sign-in by the call itself.                              *)
(***************************************************************************)
EXTENDS IdToken, Entitlements

CONSTANTS
    Calls,
    Restored,       \* the refresh token of a session from before the client was made
    NoSession,      \* no refresh token
    Subjects, NoSubject,
    NoToken,
    Skews,          \* the authority's clock minus the client's
    Lifetime,       \* of an ID token
    AllowInsecure,  \* allowInsecureHttp
    MaxKey,         \* bound: the signing keys are 1 .. MaxKey
    MaxClock        \* bound of the clock

ASSUME IdentitySessionAssumption ==
    /\ Restored \notin Calls /\ NoSession \notin Calls \cup {Restored}
    /\ NoSubject \notin Subjects
    /\ NoNonce \notin Calls
    /\ NoKid \notin 1 .. MaxKey
    /\ Skews \subseteq Int
    /\ \A s \in Skews : -Tolerance <= s /\ s <= Tolerance
    /\ Lifetime \in Nat /\ MaxKey \in Nat \ {0} /\ MaxClock \in Nat
    /\ AllowInsecure \in BOOLEAN
    /\ MaxClock <= MaxTime

VARIABLES
    discovery,   \* this.discovery, by where its endpoints are
    jwksCache,   \* this.jwksCache, {} where there is none
    pc, kind,    \* per call: progress, and the operation
    presented,   \* per call: the refresh token, or the session whose bearer it presents
    expectedSub, \* per call: refresh's second argument
    sentTo,      \* per call: where its request went (history)
    strayed,     \* a document that names the pinned issuer has led away from it (history)
    answer,      \* per call: the authority's answer to the request
    token,       \* per call: the ID token in that answer
    keysAnswer,  \* per call: the keys on their way to it
    held, heldSub,               \* the application's session: refresh token and sub
    live, owner,                 \* the authority: valid refresh tokens, the user behind each
    signingKey, published,       \* the authority: the key it signs with, and its JWKS
    clock, skew                  \* the client's clock, and how far the authority's is ahead

clientVars == <<discovery, jwksCache>>
callVars == <<kind, presented, expectedSub>>
appVars == <<held, heldSub>>
authorityVars == <<live, owner, signingKey, published>>
timeVars == <<clock, skew>>
vars == <<clientVars, pc, callVars, sentTo, strayed, answer, token, keysAnswer, appVars, authorityVars, timeVars>>

\* Of an endpoint: at the pinned issuer, remote http://, or anywhere else that transport.ts lets through.
Places == {"home", "plain", "away"}
\* A discovery document: the issuer it names, and where its endpoints are, whoever that issuer is.
Docs == [issuer : {"pinned", "other"}, place : Places]
\* siweChallenge and the three aa/ routes are "direct": one request to the pinned issuer.
Kinds == {"exchange", "refresh", "siwe", "userInfo", "logout", "direct"}
Brings == {"exchange", "refresh"}
Settled == {"done", "refused", "failed"}
Keys == 1 .. MaxKey
Sessions == Calls \cup {Restored}
Times == Int \cup {NoTime}
Tokens == [class : {"id", "other"}, kid : Keys \cup {NoKid}, signer : Keys, ours : BOOLEAN,
           iat : Times, exp : Times, nbf : Times, nonce : Calls \cup {NoNonce}, sub : Subjects]

TypeOK ==
    /\ discovery \in Places \cup {"none"}
    /\ jwksCache \subseteq Keys
    /\ pc \in [Calls -> {"idle", "discover", "request", "keyDiscover", "keys"} \cup Settled]
    /\ kind \in [Calls -> Kinds \cup {"none"}]
    /\ presented \in [Calls -> Sessions \cup {NoSession}]
    /\ expectedSub \in [Calls -> Subjects \cup {NoSubject}]
    /\ sentTo \in [Calls -> Places \cup {"none"}]
    /\ strayed \in BOOLEAN
    /\ answer \in [Calls -> {"none", "error", "ok", "redirect", "token"}]
    /\ token \in [Calls -> Tokens \cup {NoToken}]
    /\ keysAnswer \in [Calls -> SUBSET Keys]
    /\ \A c \in Calls : answer[c] = "token" \/ pc[c] \in {"keyDiscover", "keys"} => token[c] \in Tokens
    /\ held \in Sessions \cup {NoSession} /\ heldSub \in Subjects \cup {NoSubject}
    /\ held = NoSession <=> heldSub = NoSubject
    /\ live \subseteq Sessions
    /\ owner \in [Sessions -> Subjects \cup {NoSubject}]
    /\ signingKey \in Keys /\ published \subseteq Keys
    /\ clock \in 0 .. MaxClock /\ skew \in Skews

Init ==
    /\ discovery = "none" /\ jwksCache = {}
    /\ pc = [c \in Calls |-> "idle"]
    /\ kind = [c \in Calls |-> "none"]
    /\ presented = [c \in Calls |-> NoSession]
    /\ expectedSub = [c \in Calls |-> NoSubject]
    /\ sentTo = [c \in Calls |-> "none"]
    /\ strayed = FALSE
    /\ answer = [c \in Calls |-> "none"]
    /\ token = [c \in Calls |-> NoToken]
    /\ keysAnswer = [c \in Calls |-> {}]
    /\ \/ held = NoSession /\ heldSub = NoSubject /\ live = {}
       \/ held = Restored /\ heldSub \in Subjects /\ live = {Restored}
    /\ owner = [r \in Sessions |-> IF r = Restored THEN heldSub ELSE NoSubject]
    /\ signingKey = 1 /\ published = {1}
    /\ clock = 0 /\ skew \in Skews
-----------------------------------------------------------------------------
\* The client.

Goto(c, p) == pc' = [pc EXCEPT ![c] = p]

Secure(place) == place # "plain" \/ AllowInsecure

\* enforceTransportSecurity and the fetch: a plaintext endpoint throws before anything is sent.
Send(c, place) ==
    /\ Goto(c, IF Secure(place) THEN "request" ELSE "failed")
    /\ sentTo' = IF Secure(place) THEN [sentTo EXCEPT ![c] = place] ELSE sentTo

\* Where a request goes under a document; end_session_endpoint is optional, with a pinned default.
Endpoints(k, place) == {place} \cup (IF k = "logout" THEN {"home"} ELSE {})

\* Mutated form: the document is cached before its issuer is compared.
CachesUnchecked(doc) == TRUE

\* The issuer a document names is compared, and nothing else in it.
Caches(doc) == doc.issuer = "pinned"

\* The application calls an operation; what needs no discovery sends its request at once.
Start(c, k) ==
    /\ pc[c] = "idle"
    /\ kind' = [kind EXCEPT ![c] = k]
    /\ k = "refresh" => held # NoSession
    /\ presented' = [presented EXCEPT ![c] = IF k \in {"refresh", "userInfo", "logout"} THEN held ELSE NoSession]
    /\ expectedSub' = [expectedSub EXCEPT ![c] = IF k = "refresh" THEN heldSub ELSE NoSubject]
    /\ \/ k \in {"siwe", "direct"} /\ Send(c, "home")
       \/ k \notin {"siwe", "direct"} /\ discovery # "none" /\ \E d \in Endpoints(k, discovery) : Send(c, d)
       \/ k \notin {"siwe", "direct"} /\ discovery = "none" /\ Goto(c, "discover") /\ UNCHANGED sentTo
    /\ UNCHANGED <<clientVars, strayed, answer, token, keysAnswer, appVars, authorityVars, timeVars>>

\* discover() once the document is there.
Discover(doc) ==
    /\ discovery' = IF Caches(doc) THEN doc.place ELSE discovery
    /\ strayed' = (strayed \/ doc = [issuer |-> "pinned", place |-> "away"])

\* The document arrives; logout alone goes on without one.
Discovered(c, doc) ==
    /\ pc[c] = "discover"
    /\ Discover(doc)
    /\ \/ doc.issuer = "pinned" /\ \E p \in Endpoints(kind[c], doc.place) : Send(c, p)
       \/ doc.issuer = "other" /\ kind[c] = "logout" /\ Send(c, "home")
       \/ doc.issuer = "other" /\ kind[c] # "logout" /\ Goto(c, "failed") /\ UNCHANGED sentTo
    /\ UNCHANGED <<jwksCache, callVars, answer, token, keysAnswer, appVars, authorityVars, timeVars>>

DiscoverFails(c) ==
    /\ pc[c] = "discover"
    /\ IF kind[c] = "logout" THEN Send(c, "home") ELSE Goto(c, "failed") /\ UNCHANGED sentTo
    /\ UNCHANGED <<clientVars, strayed, callVars, answer, token, keysAnswer, appVars, authorityVars, timeVars>>

\* Mutated form: exchangeCode drops the nonce.
AskedNonceDropped(c) == NoNonce

\* The nonce verifyIdToken is given: exchangeCode's, and none for the others.
AskedNonce(c) == IF kind[c] = "exchange" THEN c ELSE NoNonce

\* Mutated form: refresh adopts whatever identity the answer names.
AcceptsAnySubject(c, keys) == Verifies(token[c], keys, clock, AskedNonce(c))

Accepts(c, keys) ==
    /\ Verifies(token[c], keys, clock, AskedNonce(c))
    /\ kind[c] = "refresh" => token[c].sub = expectedSub[c]

\* Mutated form: a refresh returns the refresh token it was given.
ReturnedOld(c) == IF kind[c] = "refresh" THEN presented[c] ELSE c

\* The refresh token of the returned TokenSet.
Returned(c) == c

\* verifyIdToken and what follows it up to the caller, who adopts the session.
Finish(c, keys) ==
    /\ Goto(c, IF Accepts(c, keys) THEN "done" ELSE "refused")
    /\ IF Accepts(c, keys) /\ kind[c] \in Brings
       THEN held' = Returned(c) /\ heldSub' = token[c].sub
       ELSE UNCHANGED appVars

\* getJwks: the cached keys, else the keys of the cached document, else discovery first.
VerifyToken(c) ==
    \/ jwksCache # {} /\ Finish(c, jwksCache)
    \/ /\ jwksCache = {}
       /\ Goto(c, IF discovery = "none" THEN "keyDiscover" ELSE IF Secure(discovery) THEN "keys" ELSE "failed")
       /\ UNCHANGED appVars

\* The answer to the request arrives.
Receive(c) ==
    /\ pc[c] = "request"
    /\ \/ answer[c] = "error" /\ Goto(c, "failed") /\ UNCHANGED appVars
       \/ answer[c] \in {"ok", "redirect"} /\ Goto(c, "done") /\ UNCHANGED appVars
       \/ answer[c] = "token" /\ VerifyToken(c)
    /\ UNCHANGED <<clientVars, callVars, sentTo, strayed, answer, token, keysAnswer, authorityVars, timeVars>>

\* The fetch rejects: the request never arrived, or its answer was lost.
RequestFails(c) ==
    /\ pc[c] = "request"
    /\ Goto(c, "failed")
    /\ UNCHANGED <<clientVars, callVars, sentTo, strayed, answer, token, keysAnswer, appVars, authorityVars, timeVars>>

\* Discovery inside getJwks: its failures are swallowed, and the pinned JWKS used instead.
KeyDiscovered(c, doc) ==
    /\ pc[c] = "keyDiscover"
    /\ Discover(doc)
    /\ Goto(c, IF doc.issuer = "other" \/ Secure(doc.place) THEN "keys" ELSE "failed")
    /\ UNCHANGED <<jwksCache, callVars, sentTo, answer, token, keysAnswer, appVars, authorityVars, timeVars>>

KeyDiscoverFails(c) ==
    /\ pc[c] = "keyDiscover"
    /\ Goto(c, "keys")
    /\ UNCHANGED <<clientVars, callVars, sentTo, strayed, answer, token, keysAnswer, appVars, authorityVars, timeVars>>

\* The keys arrive; whoever is last determines the cache.
ReceiveKeys(c) ==
    /\ pc[c] = "keys"
    /\ keysAnswer[c] # {}
    /\ jwksCache' = keysAnswer[c]
    /\ Finish(c, keysAnswer[c])
    /\ UNCHANGED <<discovery, callVars, sentTo, strayed, answer, token, keysAnswer, authorityVars, timeVars>>

\* The fetch rejects, or the set holds no keys.
KeysFail(c) ==
    /\ pc[c] = "keys"
    /\ Goto(c, "failed")
    /\ UNCHANGED <<clientVars, callVars, sentTo, strayed, answer, token, keysAnswer, appVars, authorityVars, timeVars>>
-----------------------------------------------------------------------------
\* The authority (external).

\* What it signs for a user at this moment.
Fresh(c, s) ==
    [class |-> "id", kid |-> signingKey, signer |-> signingKey, ours |-> TRUE,
     iat |-> clock + skew, exp |-> clock + skew + Lifetime, nbf |-> NoTime,
     nonce |-> IF kind[c] = "exchange" THEN c ELSE NoNonce, sub |-> s]

\* The tokens it, or a cache before it, may answer with: the right one, one with nbf, one without
\* kid, one of another kind, audience or (refresh only) user, one without expiry, or an earlier answer.
Answerable(c, s) ==
    LET f == Fresh(c, s) IN
    {f, [f EXCEPT !.nbf = f.iat], [f EXCEPT !.kid = NoKid], [f EXCEPT !.class = "other"],
     [f EXCEPT !.ours = FALSE], [f EXCEPT !.exp = NoTime]}
      \cup {[f EXCEPT !.sub = u] : u \in IF kind[c] = "refresh" THEN Subjects ELSE {}}
      \cup {token[o] : o \in {o \in Calls : token[o] # NoToken}}

AnswerToken(c, s) ==
    /\ answer' = [answer EXCEPT ![c] = "token"]
    /\ owner' = [owner EXCEPT ![c] = s]
    /\ \E t \in Answerable(c, s) : token' = [token EXCEPT ![c] = t]

AnswerPlain(c, a) ==
    /\ answer' = [answer EXCEPT ![c] = a]
    /\ UNCHANGED <<owner, token>>

\* The authority where it is asked; another host answers as it likes, and neither knows nor changes
\* the authority's books.
ServeAway(c) ==
    /\ answer' = [answer EXCEPT ![c] = IF kind[c] \in Brings THEN "token" ELSE "ok"]
    /\ IF kind[c] \in Brings
       THEN \E s \in Subjects : \E t \in Answerable(c, s) : token' = [token EXCEPT ![c] = t]
       ELSE UNCHANGED token
    /\ UNCHANGED <<owner, live>>

ServeExchange(c) ==
    /\ kind[c] = "exchange"
    /\ \E s \in Subjects : AnswerToken(c, s)
    /\ live' = live \cup {c}

\* Rotation: the token presented is spent, whatever becomes of the answer.
ServeRefresh(c) ==
    /\ kind[c] = "refresh"
    /\ presented[c] \in live
    /\ AnswerToken(c, owner[presented[c]])
    /\ live' = (live \ {presented[c]}) \cup {c}

ServeSiwe(c) ==
    /\ kind[c] = "siwe"
    /\ (\E s \in Subjects : AnswerToken(c, s)) \/ AnswerPlain(c, "redirect")
    /\ UNCHANGED live

\* Logout revokes every session of the user.
ServeOther(c) ==
    /\ kind[c] \in {"userInfo", "logout", "direct"}
    /\ AnswerPlain(c, "ok")
    /\ live' = IF kind[c] = "logout" /\ presented[c] # NoSession
               THEN {r \in live : owner[r] # owner[presented[c]]} ELSE live

Deny(c) == AnswerPlain(c, "error") /\ UNCHANGED live

Serve(c) ==
    /\ pc[c] = "request" /\ answer[c] = "none"
    /\ \/ sentTo[c] # "away" /\ (ServeExchange(c) \/ ServeRefresh(c) \/ ServeSiwe(c) \/ ServeOther(c))
       \/ sentTo[c] = "away" /\ ServeAway(c)
       \/ Deny(c)
    /\ UNCHANGED <<clientVars, pc, callVars, sentTo, strayed, keysAnswer, appVars, signingKey, published, timeVars>>

ServeKeys(c) ==
    /\ pc[c] = "keys" /\ keysAnswer[c] = {}
    /\ \E keys \in IF strayed THEN SUBSET Keys ELSE {published} : keysAnswer' = [keysAnswer EXCEPT ![c] = keys]
    /\ UNCHANGED <<clientVars, pc, callVars, sentTo, strayed, answer, token, appVars, authorityVars, timeVars>>

\* The key is rotated, the old one staying published for a while or not.
RotateKey ==
    /\ signingKey < MaxKey
    /\ signingKey' = signingKey + 1
    /\ published' \in {{signingKey + 1}, {signingKey, signingKey + 1}}
    /\ UNCHANGED <<clientVars, pc, callVars, sentTo, strayed, answer, token, keysAnswer, appVars, live, owner, timeVars>>

Tick ==
    /\ clock < MaxClock
    /\ clock' = clock + 1
    /\ UNCHANGED <<clientVars, pc, callVars, sentTo, strayed, answer, token, keysAnswer, appVars, authorityVars, skew>>

Terminated ==
    /\ \A c \in Calls : pc[c] \in Settled
    /\ UNCHANGED vars
-----------------------------------------------------------------------------
CallStep(c) ==
    \/ \E k \in Kinds : Start(c, k)
    \/ \E doc \in Docs : Discovered(c, doc) \/ KeyDiscovered(c, doc)
    \/ DiscoverFails(c) \/ KeyDiscoverFails(c)
    \/ Receive(c) \/ RequestFails(c)
    \/ ReceiveKeys(c) \/ KeysFail(c)

Next ==
    \/ \E c \in Calls : CallStep(c) \/ Serve(c) \/ ServeKeys(c)
    \/ RotateKey \/ Tick \/ Terminated

Spec == Init /\ [][Next]_vars
-----------------------------------------------------------------------------
(* Properties *)

\* What carries a code, a refresh token or a bearer goes encrypted unless opted out, and anywhere
\* but to the pinned issuer only after a document naming that issuer has listed the endpoint: also
\* when an earlier call, itself or for its keys, discovered it (discover, enforceTransportSecurity).
CredentialsFollowIssuer ==
    \A c \in Calls :
      /\ sentTo[c] = "plain" => AllowInsecure
      /\ sentTo[c] = "away" => strayed

\* Unless such a document led the client away, the subject of a session stays the user who signed
\* in: an exchange is not satisfied by the token of another sign-in, nor a chain of refreshes by
\* another user's, in whatever order their answers arrive (exchangeCode's nonce, refresh's
\* expectedSub).
SessionKeepsSubject ==
    ~strayed =>
      /\ held # NoSession => heldSub = owner[held]
      /\ \A c \in Calls : pc[c] = "done" /\ kind[c] \in Brings => token[c].sub = owner[c]

\* Unless such a document led the client away, the application is left with a spent refresh token
\* only by a logout, or while a refresh that the authority has served has not returned its
\* successor: it is under way, or it ended without one (refresh, finishTokens).
SpentOnlyByRefresh ==
    ~strayed /\ held # NoSession /\ held \notin live =>
      \E c \in Calls :
        /\ answer[c] # "none"
        /\ \/ kind[c] = "refresh" /\ presented[c] = held /\ pc[c] # "done"
           \/ kind[c] = "logout" /\ presented[c] # NoSession /\ owner[presented[c]] = owner[held]

\* The token answers this call rightly, and has not expired by the authority's clock.
Genuine(c) ==
    /\ token[c].class = "id" /\ token[c].ours
    /\ token[c].exp # NoTime /\ clock + skew <= token[c].exp
    /\ kind[c] = "exchange" => token[c].nonce = c
    /\ kind[c] = "refresh" => token[c].sub = owner[c]

\* With the clocks apart by no more than the tolerance, a right answer is refused for one
\* reason: the keys at hand do not single out its key, which they were fetched too early or
\* too late to contain, or which it does not name (verifyIdToken, getJwks).
RefusedForCause ==
    [][\A c \in Calls :
         pc[c] # "refused" /\ pc'[c] = "refused" /\ Genuine(c) =>
           \/ token[c].signer \notin jwksCache'
           \/ token[c].kid = NoKid /\ jwksCache' # {token[c].signer}]_vars

\* What userInfo makes of a claim by the client's clock, and can() of any relying party, whatever it
\* overrides and registers: no claim gives nothing; time takes capabilities and never gives any, and
\* has taken all of them at the instant of expiry; a role that is not registered adds nothing to the
\* tier, and one that is gives no more than its entry; an unknown tier gives what public gives; and
\* confidential documents are for the confidential tier, or a tier or role the relying party has
\* opened them to (resolveCapabilities, capabilitiesForClaim).
EntitlementsFailSafe == FailsSafeAt[clock]
=============================================================================
