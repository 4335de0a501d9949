------------------------ MODULE IdentitySession_proofs ------------------------
(***************************************************************************)
(* Proofs about IdentitySession.  The inductive invariant relates the      *)
(* application's session, the answers on their way and the authority's     *)
(* books; the properties the run checks follow from it.  What the          *)
(* authority has answered is what its books name a user for: a client led  *)
(* away from it holds other answers, of which little is said.              *)
(***************************************************************************)
EXTENDS IdentitySession, TLAPS

\* A session the application has had: brought by a call that ended well, or restored.
Adopted(r) ==
    /\ r \in Sessions
    /\ owner[r] \in Subjects \/ strayed
    /\ r \in Calls => pc[r] = "done" /\ kind[r] \in Brings

ProgressOK ==
    \A c \in Calls :
      /\ pc[c] = "idle" <=> kind[c] = "none"
      /\ pc[c] \in {"idle", "discover"} => answer[c] = "none"
      /\ pc[c] \in {"keyDiscover", "keys", "refused"} => answer[c] = "token"
      /\ kind[c] \in Brings => answer[c] \in {"none", "error", "token"}
      /\ kind[c] \in Brings /\ pc[c] = "done" => answer[c] = "token"
      /\ owner[c] \in Subjects => answer[c] = "token"

LineageOK ==
    /\ held # NoSession => Adopted(held) /\ (owner[held] \in Subjects => heldSub = owner[held])
    /\ \A r \in live : owner[r] \in Subjects
    /\ \A c \in Calls :
         /\ presented[c] # NoSession => Adopted(presented[c])
         /\ kind[c] = "refresh" => presented[c] # NoSession
         /\ kind[c] = "refresh" /\ owner[presented[c]] \in Subjects => expectedSub[c] = owner[presented[c]]
         /\ kind[c] = "refresh" /\ owner[c] \in Subjects => owner[c] = owner[presented[c]]
         /\ answer[c] = "token" => owner[c] \in Subjects \/ strayed
         /\ kind[c] \in Brings /\ pc[c] = "done" /\ owner[c] \in Subjects => token[c].sub = owner[c]

\* What is true of every token a call has been answered with.
TokenOK(t) ==
    /\ t.nonce \in Calls => answer[t.nonce] = "token" /\ (owner[t.nonce] \in Subjects => t.sub = owner[t.nonce])
    /\ t.kid \in {t.signer, NoKid}
    /\ t.iat \in Int /\ t.iat <= clock + skew
    /\ t.nbf \in {NoTime, t.iat}

TokensOK ==
    \A c \in Calls :
      /\ token[c] # NoToken => answer[c] = "token"
      /\ answer[c] = "token" => TokenOK(token[c])

Spent(r) ==
    \E c \in Calls :
      /\ answer[c] # "none"
      /\ \/ kind[c] = "refresh" /\ presented[c] = r
         \/ kind[c] = "logout" /\ presented[c] # NoSession /\ owner[presented[c]] = owner[r]

SpentOK ==
    /\ \A r \in Calls : owner[r] \in Subjects /\ kind[r] \in Brings => r \in live \/ Spent(r)
    /\ held = Restored => Restored \in live \/ Spent(Restored)
    /\ \A c \in Calls : kind[c] = "refresh" /\ pc[c] = "done" => held # presented[c]

DocsOK == (discovery = "away" => strayed) /\ CredentialsFollowIssuer

IInv == TypeOK /\ ProgressOK /\ LineageOK /\ TokensOK /\ SpentOK /\ DocsOK
-----------------------------------------------------------------------------
(* The steps, by what they do to the state the invariant is about *)

booksVars == <<kind, presented, expectedSub, answer, token, held, heldSub, live, owner>>

\* A step of a call that only moves on.
Moves(c) ==
    /\ \E p \in {"request", "keyDiscover", "keys", "failed", "done"} :
         /\ pc' = [pc EXCEPT ![c] = p]
         /\ p \in {"keyDiscover", "keys"} => answer[c] = "token"
         /\ p = "done" => answer[c] \in {"ok", "redirect"}
    /\ pc[c] \in {"discover", "request", "keyDiscover", "keys"}
    /\ strayed => strayed'
    /\ UNCHANGED <<booksVars, timeVars>>

\* A step in which a call's token is verified.
Verified(c, keys) ==
    /\ pc[c] \in {"request", "keys"}
    /\ answer[c] = "token"
    /\ Finish(c, keys)
    /\ UNCHANGED <<kind, presented, expectedSub, strayed, answer, token, live, owner, timeVars>>

\* The steps of the authority's key and of time leave the books alone.
Elapses ==
    /\ UNCHANGED <<booksVars, pc, strayed, skew>>
    /\ clock' \in Nat /\ clock <= clock'

LEMMA MoveSteps ==
    ASSUME TypeOK, ProgressOK, NEW c \in Calls,
           \/ \E doc \in Docs : Discovered(c, doc) \/ KeyDiscovered(c, doc)
           \/ DiscoverFails(c) \/ KeyDiscoverFails(c) \/ RequestFails(c) \/ KeysFail(c)
    PROVE  Moves(c)
<1>1. ASSUME NEW doc \in Docs, Discovered(c, doc) PROVE Moves(c)
  BY <1>1 DEF Discovered, Discover, Send, Goto, Moves, booksVars, callVars, appVars, authorityVars, timeVars
<1>2. ASSUME NEW doc \in Docs, KeyDiscovered(c, doc) PROVE Moves(c)
  BY <1>2 DEF KeyDiscovered, Discover, Goto, Moves, booksVars, callVars, appVars, authorityVars, timeVars, ProgressOK
<1>3. ASSUME DiscoverFails(c) PROVE Moves(c)
  BY <1>3 DEF DiscoverFails, Send, Goto, Moves, booksVars, callVars, appVars, authorityVars, timeVars
<1>4. ASSUME KeyDiscoverFails(c) \/ RequestFails(c) \/ KeysFail(c) PROVE Moves(c)
  BY <1>4 DEF KeyDiscoverFails, RequestFails, KeysFail, Goto, Moves, booksVars, callVars, appVars, authorityVars,
              timeVars, ProgressOK
<1> QED BY <1>1, <1>2, <1>3, <1>4

LEMMA ReceiveStep ==
    ASSUME TypeOK, ProgressOK, NEW c \in Calls, Receive(c)
    PROVE  Moves(c) \/ (jwksCache' = jwksCache /\ Verified(c, jwksCache))
<1>1. CASE answer[c] = "error"
  BY <1>1 DEF Receive, Goto, Moves, booksVars, callVars, appVars, authorityVars, timeVars
<1>2. CASE answer[c] \in {"ok", "redirect"}
  BY <1>2 DEF Receive, Goto, Moves, booksVars, callVars, appVars, authorityVars, timeVars
<1>3. CASE answer[c] = "token" /\ jwksCache # {}
  BY <1>3 DEF Receive, VerifyToken, Verified, callVars, authorityVars, clientVars, timeVars
<1>4. CASE answer[c] = "token" /\ jwksCache = {}
  BY <1>4 DEF Receive, VerifyToken, Goto, Moves, booksVars, callVars, appVars, authorityVars, timeVars
<1> QED BY <1>1, <1>2, <1>3, <1>4 DEF Receive

LEMMA ReceiveKeysStep ==
    ASSUME ProgressOK, NEW c \in Calls, ReceiveKeys(c)
    PROVE  Verified(c, keysAnswer[c])
BY DEF ReceiveKeys, Verified, ProgressOK, callVars, authorityVars, timeVars

\* The cases of Next the invariant distinguishes.
LEMMA StepCases ==
    ASSUME TypeOK, ProgressOK, [Next]_vars
    PROVE  \/ \E c \in Calls : \/ \E k \in Kinds : Start(c, k)
                               \/ Moves(c)
                               \/ \E keys \in SUBSET Keys : Verified(c, keys)
                               \/ Serve(c)
           \/ Elapses
<1>1. ASSUME NEW c \in Calls, CallStep(c)
      PROVE  \/ \E k \in Kinds : Start(c, k)
             \/ Moves(c)
             \/ \E keys \in SUBSET Keys : Verified(c, keys)
  BY <1>1, MoveSteps, ReceiveStep, ReceiveKeysStep DEF CallStep, TypeOK
<1>2. ASSUME NEW c \in Calls, ServeKeys(c) PROVE Elapses
  BY <1>2 DEF ServeKeys, Elapses, booksVars, callVars, appVars, authorityVars, timeVars, TypeOK
<1>3. ASSUME RotateKey \/ Tick PROVE Elapses
  BY <1>3 DEF RotateKey, Tick, Elapses, booksVars, callVars, appVars, authorityVars, timeVars, TypeOK
<1>4. ASSUME UNCHANGED vars PROVE Elapses
  BY <1>4 DEF vars, Elapses, booksVars, callVars, appVars, authorityVars, timeVars, TypeOK
<1> QED BY <1>1, <1>2, <1>3, <1>4 DEF Next, Terminated
-----------------------------------------------------------------------------
(* What the authority answers *)

LEMMA TimesAreIntegers ==
    ASSUME TypeOK
    PROVE  clock \in Nat /\ skew \in Int /\ clock + skew \in Int /\ clock + skew + Lifetime \in Int
BY IdentitySessionAssumption DEF IdentitySessionAssumption, TypeOK

LEMMA FreshToken ==
    ASSUME TypeOK, NEW c \in Calls, NEW s \in Subjects
    PROVE  Fresh(c, s) \in Tokens
BY TimesAreIntegers DEF Fresh, Tokens, Times, TypeOK

\* A token it answers with is an earlier one, or is like the fresh one but for some fields.
LEMMA AnswerableToken ==
    ASSUME TypeOK, TokensOK, NEW c \in Calls, NEW s \in Subjects, NEW t \in Answerable(c, s)
    PROVE  /\ t \in Tokens
           /\ \/ TokenOK(t)
              \/ /\ t.nonce = IF kind[c] = "exchange" THEN c ELSE NoNonce
                 /\ kind[c] = "exchange" => t.sub = s
                 /\ t.kid \in {t.signer, NoKid}
                 /\ t.iat = clock + skew
                 /\ t.nbf \in {NoTime, t.iat}
<1> DEFINE f == Fresh(c, s)
<1>1. f \in Tokens
  BY FreshToken
<1>2. /\ f.nonce = IF kind[c] = "exchange" THEN c ELSE NoNonce
      /\ f.sub = s /\ f.kid = f.signer /\ f.iat = clock + skew /\ f.nbf = NoTime
  BY DEF Fresh
<1>3. CASE \E o \in Calls : token[o] # NoToken /\ t = token[o]
  BY <1>3 DEF TokensOK, TypeOK
<1>4. CASE \/ t = f \/ t = [f EXCEPT !.nbf = f.iat] \/ t = [f EXCEPT !.kid = NoKid]
           \/ t = [f EXCEPT !.class = "other"] \/ t = [f EXCEPT !.ours = FALSE] \/ t = [f EXCEPT !.exp = NoTime]
           \/ kind[c] = "refresh" /\ \E u \in Subjects : t = [f EXCEPT !.sub = u]
  <2> HIDE DEF f
  <2> QED BY <1>1, <1>2, <1>4 DEF Tokens, Times
<1> QED BY <1>3, <1>4 DEF Answerable
-----------------------------------------------------------------------------
(* Types *)

LEMMA FinishTypes ==
    ASSUME TypeOK, NEW c \in Calls, NEW keys, answer[c] = "token", Finish(c, keys)
    PROVE  /\ pc' \in [Calls -> {"idle", "discover", "request", "keyDiscover", "keys"} \cup Settled]
           /\ held' \in Sessions \cup {NoSession} /\ heldSub' \in Subjects \cup {NoSubject}
           /\ held' = NoSession <=> heldSub' = NoSubject
           /\ \A o \in Calls : pc'[o] \in {"keyDiscover", "keys"} => pc[o] \in {"keyDiscover", "keys"}
<1>1. token[c] \in Tokens
  BY DEF TypeOK
<1>2. token[c].sub \in Subjects
  BY <1>1 DEF Tokens
<1>3. Sessions = Calls \cup {Restored} /\ c # NoSession /\ NoSubject \notin Subjects
  BY IdentitySessionAssumption DEF IdentitySessionAssumption, Sessions
<1> QED BY <1>2, <1>3 DEF Finish, Goto, Returned, appVars, Settled, TypeOK

LEMMA ClientTypes ==
    ASSUME IInv, NEW c \in Calls, CallStep(c)
    PROVE  TypeOK'
<1> USE DEF IInv
<1>1. ASSUME NEW k \in Kinds, Start(c, k) PROVE TypeOK'
  BY <1>1 DEF Start, Send, Goto, Endpoints, Places, TypeOK, Settled, clientVars, appVars, authorityVars, timeVars
<1>2. ASSUME NEW doc \in Docs, Discovered(c, doc) PROVE TypeOK'
  BY <1>2 DEF Discovered, Discover, Send, Goto, Endpoints, Places, TypeOK, Settled, Docs, callVars, appVars, authorityVars, timeVars
<1>3. ASSUME NEW doc \in Docs, KeyDiscovered(c, doc) PROVE TypeOK'
  BY <1>3 DEF KeyDiscovered, Discover, Goto, TypeOK, Settled, Docs, callVars, appVars, authorityVars, timeVars
<1>4. CASE DiscoverFails(c)
  BY <1>4 DEF DiscoverFails, Send, Goto, Places, TypeOK, Settled, clientVars, callVars, appVars, authorityVars, timeVars
<1>5. CASE KeyDiscoverFails(c) \/ RequestFails(c) \/ KeysFail(c)
  BY <1>5 DEF KeyDiscoverFails, RequestFails, KeysFail, Goto, TypeOK, Settled, clientVars, callVars, appVars,
              authorityVars, timeVars
<1>6. CASE Receive(c)
  <2>1. CASE answer[c] = "token" /\ jwksCache # {}
    <3>1. Finish(c, jwksCache)
      BY <1>6, <2>1 DEF Receive, VerifyToken
    <3> QED BY <1>6, <2>1, <3>1, FinishTypes DEF Receive, TypeOK, clientVars, callVars, authorityVars, timeVars
  <2>2. CASE ~(answer[c] = "token" /\ jwksCache # {})
    BY <1>6, <2>2 DEF Receive, VerifyToken, Goto, TypeOK, Settled, clientVars, callVars, appVars, authorityVars, timeVars
  <2> QED BY <2>1, <2>2
<1>7. CASE ReceiveKeys(c)
  BY <1>7, FinishTypes DEF ReceiveKeys, ProgressOK, TypeOK, callVars, authorityVars, timeVars
<1> QED BY <1>1, <1>2, <1>3, <1>4, <1>5, <1>6, <1>7 DEF CallStep

LEMMA AnswerTypes ==
    ASSUME TypeOK, TokensOK, NEW c \in Calls, NEW s \in Subjects, AnswerToken(c, s)
    PROVE  /\ answer' \in [Calls -> {"none", "error", "ok", "redirect", "token"}]
           /\ owner' \in [Sessions -> Subjects \cup {NoSubject}]
           /\ token' \in [Calls -> Tokens \cup {NoToken}]
BY AnswerableToken DEF AnswerToken, TypeOK, Sessions

LEMMA ServeTypes ==
    ASSUME IInv, NEW c \in Calls, Serve(c)
    PROVE  TypeOK'
<1> USE DEF IInv
<1>1. /\ answer' \in [Calls -> {"none", "error", "ok", "redirect", "token"}]
      /\ owner' \in [Sessions -> Subjects \cup {NoSubject}]
      /\ token' \in [Calls -> Tokens \cup {NoToken}]
      /\ live' \subseteq Sessions
  <2>1. CASE ServeExchange(c)
    BY <2>1, AnswerTypes DEF ServeExchange, TypeOK, Sessions
  <2>2. CASE ServeRefresh(c)
    <3>1. owner[presented[c]] \in Subjects
      BY <2>2 DEF ServeRefresh, LineageOK
    <3> QED BY <2>2, <3>1, AnswerTypes DEF ServeRefresh, TypeOK, Sessions
  <2>3. CASE ServeSiwe(c)
    BY <2>3, AnswerTypes DEF ServeSiwe, AnswerPlain, TypeOK
  <2>4. CASE ServeOther(c) \/ Deny(c)
    BY <2>4 DEF ServeOther, Deny, AnswerPlain, TypeOK
  <2>5. CASE ServeAway(c)
    BY <2>5, AnswerableToken DEF ServeAway, TypeOK
  <2> QED BY <2>1, <2>2, <2>3, <2>4, <2>5 DEF Serve
<1>2. \A o \in Calls : answer'[o] = "token" \/ pc'[o] \in {"keyDiscover", "keys"} => token'[o] \in Tokens
  <2>1. pc' = pc
    BY DEF Serve
  <2>2. ASSUME NEW s \in Subjects, AnswerToken(c, s)
        PROVE  \A o \in Calls : answer'[o] = "token" \/ pc[o] \in {"keyDiscover", "keys"} => token'[o] \in Tokens
    BY <2>2, AnswerableToken DEF AnswerToken, TypeOK
  <2>3. ASSUME NEW a \in {"ok", "redirect", "error"}, AnswerPlain(c, a)
        PROVE  \A o \in Calls : answer'[o] = "token" \/ pc[o] \in {"keyDiscover", "keys"} => token'[o] \in Tokens
    BY <2>3 DEF AnswerPlain, TypeOK
  <2>4. ASSUME ServeAway(c)
        PROVE  \A o \in Calls : answer'[o] = "token" \/ pc[o] \in {"keyDiscover", "keys"} => token'[o] \in Tokens
    BY <2>4, AnswerableToken DEF ServeAway, TypeOK
  <2>5. \/ \E s \in Subjects : AnswerToken(c, s)
        \/ \E a \in {"ok", "redirect", "error"} : AnswerPlain(c, a)
        \/ ServeAway(c)
    <3>1. ServeRefresh(c) => owner[presented[c]] \in Subjects
      BY DEF ServeRefresh, LineageOK
    <3> QED BY <3>1 DEF Serve, ServeExchange, ServeRefresh, ServeSiwe, ServeOther, Deny
  <2> QED BY <2>1, <2>2, <2>3, <2>4, <2>5
<1> QED BY <1>1, <1>2 DEF Serve, TypeOK, clientVars, callVars, appVars, timeVars

LEMMA TypeStep ==
    ASSUME IInv, [Next]_vars
    PROVE  TypeOK'
<1>1. ASSUME NEW c \in Calls, ServeKeys(c) PROVE TypeOK'
  BY <1>1 DEF IInv, ServeKeys, TypeOK, clientVars, callVars, appVars, authorityVars, timeVars
<1>2. CASE RotateKey
  <2>1. signingKey' \in Keys /\ published' \subseteq Keys
    BY <1>2, IdentitySessionAssumption DEF IdentitySessionAssumption, IInv, RotateKey, TypeOK, Keys
  <2> QED BY <1>2, <2>1 DEF IInv, RotateKey, TypeOK, clientVars, callVars, appVars, timeVars
<1>3. CASE Tick
  BY <1>3, IdentitySessionAssumption
     DEF IdentitySessionAssumption, IInv, Tick, TypeOK, clientVars, callVars, appVars, authorityVars
<1>4. CASE UNCHANGED vars
  BY <1>4 DEF IInv, vars, TypeOK, clientVars, callVars, appVars, authorityVars, timeVars
<1> QED BY <1>1, <1>2, <1>3, <1>4, ClientTypes, ServeTypes DEF Next, Terminated
-----------------------------------------------------------------------------
(* The invariant: each part over each kind of step *)

\* What a served request changes: the books of this call only, and nothing else it had.
LEMMA ServeCases ==
    ASSUME IInv, NEW c \in Calls, Serve(c)
    PROVE  /\ pc[c] = "request" /\ answer[c] = "none" /\ pc' = pc
           /\ UNCHANGED <<kind, presented, expectedSub, strayed, held, heldSub, timeVars>>
           /\ \/ /\ kind[c] \in {"exchange", "refresh", "siwe"}
                 /\ answer' = [answer EXCEPT ![c] = "token"]
                 /\ \E s \in Subjects, t \in Tokens :
                      /\ t \in Answerable(c, s)
                      /\ token' = [token EXCEPT ![c] = t]
                      /\ \/ /\ owner' = [owner EXCEPT ![c] = s]
                            /\ kind[c] = "refresh" => s = owner[presented[c]]
                         \/ strayed /\ owner' = owner
              \/ /\ \E a \in {"ok", "redirect", "error"} : /\ answer' = [answer EXCEPT ![c] = a]
                                                           /\ kind[c] \in Brings => a = "error"
                 /\ UNCHANGED <<owner, token>>
<1>1. ASSUME NEW s \in Subjects, AnswerToken(c, s)
      PROVE  /\ answer' = [answer EXCEPT ![c] = "token"]
             /\ owner' = [owner EXCEPT ![c] = s]
             /\ \E t \in Tokens : t \in Answerable(c, s) /\ token' = [token EXCEPT ![c] = t]
  BY <1>1, AnswerableToken DEF AnswerToken, IInv
<1>2. CASE ServeExchange(c)
  BY <1>1, <1>2 DEF Serve, ServeExchange, callVars, appVars
<1>3. CASE ServeRefresh(c)
  <2>1. owner[presented[c]] \in Subjects
    BY <1>3 DEF ServeRefresh, IInv, LineageOK
  <2> QED BY <1>1, <1>3, <2>1 DEF Serve, ServeRefresh, callVars, appVars
<1>4. CASE ServeSiwe(c)
  BY <1>1, <1>4 DEF Serve, ServeSiwe, AnswerPlain, Brings, callVars, appVars
<1>5. CASE ServeOther(c) \/ Deny(c)
  BY <1>5 DEF Serve, ServeOther, Deny, AnswerPlain, Brings, callVars, appVars
<1>6. CASE sentTo[c] = "away" /\ ServeAway(c)
  <2>1. strayed
    BY <1>6 DEF IInv, DocsOK, CredentialsFollowIssuer
  <2>2. CASE kind[c] \in Brings
    BY <1>6, <2>1, <2>2, AnswerableToken DEF Serve, ServeAway, Brings, IInv, callVars, appVars
  <2>3. CASE kind[c] \notin Brings
    BY <1>6, <2>3 DEF Serve, ServeAway, callVars, appVars
  <2> QED BY <2>2, <2>3
<1> QED BY <1>2, <1>3, <1>4, <1>5, <1>6 DEF Serve

LEMMA ServeEffect ==
    ASSUME IInv, NEW c \in Calls, Serve(c)
    PROVE  /\ pc[c] = "request" /\ answer[c] = "none" /\ pc' = pc
           /\ UNCHANGED <<kind, presented, expectedSub, strayed, held, heldSub, timeVars>>
           /\ \A d \in Calls \ {c} : answer'[d] = answer[d] /\ owner'[d] = owner[d] /\ token'[d] = token[d]
           /\ owner'[Restored] = owner[Restored]
           /\ answer'[c] \in {"ok", "redirect", "error", "token"}
           /\ kind[c] \in Brings => answer'[c] \in {"error", "token"}
           /\ owner'[c] \in Subjects => answer'[c] = "token"
           /\ answer'[c] = "token" =>
                /\ owner'[c] \in Subjects \/ strayed
                /\ kind[c] = "refresh" /\ owner'[c] \in Subjects => owner'[c] = owner[presented[c]]
                /\ token'[c] \in Tokens
                /\ \E s \in Subjects : token'[c] \in Answerable(c, s) /\ (owner'[c] \in Subjects => s = owner'[c])
           /\ answer'[c] # "token" => token' = token /\ owner' = owner
<1>0. Restored \notin Calls /\ Sessions = Calls \cup {Restored}
  BY IdentitySessionAssumption DEF IdentitySessionAssumption, Sessions
<1>1. /\ answer \in [Calls -> {"none", "error", "ok", "redirect", "token"}]
      /\ owner \in [Sessions -> Subjects \cup {NoSubject}]
      /\ token \in [Calls -> Tokens \cup {NoToken}]
  BY DEF IInv, TypeOK
<1>2. owner[c] \notin Subjects
  BY DEF Serve, IInv, ProgressOK
<1>3. CASE answer' = [answer EXCEPT ![c] = "token"]
  <2>1. PICK s \in Subjects, t \in Tokens : /\ t \in Answerable(c, s)
                                            /\ token' = [token EXCEPT ![c] = t]
                                            /\ \/ /\ owner' = [owner EXCEPT ![c] = s]
                                                  /\ kind[c] = "refresh" => s = owner[presented[c]]
                                               \/ strayed /\ owner' = owner
    <3>1. ~ \E a \in {"ok", "redirect", "error"} : answer' = [answer EXCEPT ![c] = a]
      BY <1>1, <1>3
    <3> QED BY <3>1, ServeCases
  <2>2. /\ answer'[c] = "token" /\ token'[c] = t
        /\ \/ owner'[c] = s /\ (kind[c] = "refresh" => s = owner[presented[c]])
           \/ strayed /\ owner'[c] \notin Subjects
    BY <1>0, <1>1, <1>2, <1>3, <2>1
  <2>3. \A d \in Calls \ {c} : answer'[d] = answer[d] /\ owner'[d] = owner[d] /\ token'[d] = token[d]
    BY <1>0, <1>1, <1>3, <2>1
  <2>4. owner'[Restored] = owner[Restored]
    BY <1>0, <1>1, <2>1
  <2> QED BY <2>1, <2>2, <2>3, <2>4, ServeCases
<1>4. CASE answer' # [answer EXCEPT ![c] = "token"]
  <2>1. PICK a \in {"ok", "redirect", "error"} : /\ answer' = [answer EXCEPT ![c] = a]
                                                 /\ kind[c] \in Brings => a = "error"
    BY <1>4, ServeCases
  <2>2. answer'[c] = a /\ \A d \in Calls \ {c} : answer'[d] = answer[d]
    BY <1>1, <2>1
  <2>3. owner' = owner /\ token' = token
    BY <1>4, ServeCases
  <2> QED BY <1>2, <2>1, <2>2, <2>3, ServeCases
<1> QED BY <1>3, <1>4

LEMMA ProgressStep ==
    ASSUME IInv, [Next]_vars
    PROVE  ProgressOK'
<1> USE DEF IInv, ProgressOK, Brings, Kinds
<1>0. \A c \in Calls : pc[c] \in {"idle", "discover", "request", "keyDiscover", "keys"} \cup Settled
  BY DEF TypeOK
<1>1. ASSUME NEW c \in Calls, NEW k \in Kinds, Start(c, k) PROVE ProgressOK'
  BY <1>1 DEF Start, Send, Goto, TypeOK, authorityVars
<1>2. ASSUME NEW c \in Calls, Moves(c) PROVE ProgressOK'
  BY <1>2 DEF Moves, booksVars, TypeOK
<1>3. ASSUME NEW c \in Calls, NEW keys \in SUBSET Keys, Verified(c, keys) PROVE ProgressOK'
  BY <1>3 DEF Verified, Finish, Goto, TypeOK
<1>4. ASSUME NEW c \in Calls, Serve(c) PROVE ProgressOK'
  BY <1>4, ServeEffect
<1>5. CASE Elapses
  BY <1>5 DEF Elapses, booksVars
<1> QED BY <1>1, <1>2, <1>3, <1>4, <1>5, StepCases

\* Who has ended well keeps what it brought.
LEMMA AdoptedStays ==
    ASSUME IInv, [Next]_vars, NEW r, Adopted(r)
    PROVE  Adopted(r)' /\ owner'[r] = owner[r]
<1> USE DEF IInv, Adopted, Sessions
<1>0. Restored \notin Calls
  BY IdentitySessionAssumption DEF IdentitySessionAssumption
<1>1. ASSUME NEW c \in Calls, NEW k \in Kinds, Start(c, k) PROVE Adopted(r)' /\ owner'[r] = owner[r]
  BY <1>1 DEF Start, Send, Goto, TypeOK, authorityVars
<1>2. ASSUME NEW c \in Calls, Moves(c) PROVE Adopted(r)' /\ owner'[r] = owner[r]
  BY <1>2 DEF Moves, booksVars, TypeOK
<1>3. ASSUME NEW c \in Calls, NEW keys \in SUBSET Keys, Verified(c, keys) PROVE Adopted(r)' /\ owner'[r] = owner[r]
  BY <1>3 DEF Verified, Finish, Goto, TypeOK
<1>4. ASSUME NEW c \in Calls, Serve(c) PROVE Adopted(r)' /\ owner'[r] = owner[r]
  <2>1. r # c
    BY <1>0, <1>4, ServeEffect
  <2> QED BY <1>4, <2>1, ServeEffect
<1>5. CASE Elapses
  BY <1>5 DEF Elapses, booksVars
<1> QED BY <1>1, <1>2, <1>3, <1>4, <1>5, StepCases

\* The user behind a call that was answered stays the same.
LEMMA OwnerStays ==
    ASSUME IInv, [Next]_vars, NEW r \in Calls, answer[r] # "none"
    PROVE  answer'[r] = answer[r] /\ owner'[r] = owner[r] /\ kind'[r] = kind[r] /\ presented'[r] = presented[r]
<1> USE DEF IInv
<1>1. ASSUME NEW c \in Calls, NEW k \in Kinds, Start(c, k)
      PROVE  answer'[r] = answer[r] /\ owner'[r] = owner[r] /\ kind'[r] = kind[r] /\ presented'[r] = presented[r]
  BY <1>1 DEF Start, TypeOK, ProgressOK, authorityVars
<1>2. ASSUME NEW c \in Calls, Serve(c)
      PROVE  answer'[r] = answer[r] /\ owner'[r] = owner[r] /\ kind'[r] = kind[r] /\ presented'[r] = presented[r]
  BY <1>2, ServeEffect
<1> QED BY <1>1, <1>2, StepCases DEF Moves, Verified, Elapses, booksVars

\* What the authority takes away it takes for this request, and what it hands out is valid.
LEMMA ServeLive ==
    ASSUME IInv, NEW c \in Calls, Serve(c)
    PROVE  /\ \A r \in live \ live' : \/ kind[c] = "refresh" /\ presented[c] = r
                                      \/ kind[c] = "logout" /\ presented[c] # NoSession /\ owner[presented[c]] = owner[r]
           /\ \A r \in live' \ live : r = c /\ owner'[c] \in Subjects
           /\ owner'[c] \in Subjects /\ kind[c] \in Brings => c \in live'
<1> USE DEF Brings
<1>0. owner \in [Sessions -> Subjects \cup {NoSubject}] /\ c \in Sessions /\ owner[c] \notin Subjects
  BY DEF Serve, IInv, ProgressOK, TypeOK, Sessions
<1>1. CASE ServeExchange(c)
  BY <1>0, <1>1 DEF ServeExchange, AnswerToken
<1>2. CASE ServeRefresh(c)
  BY <1>0, <1>2 DEF ServeRefresh, AnswerToken, IInv, LineageOK
<1>3. CASE ServeSiwe(c)
  BY <1>3 DEF ServeSiwe
<1>4. CASE ServeOther(c)
  BY <1>4 DEF ServeOther
<1>5. CASE Deny(c)
  BY <1>0, <1>5 DEF Deny, AnswerPlain
<1>6. CASE ServeAway(c)
  BY <1>0, <1>6 DEF ServeAway
<1> QED BY <1>1, <1>2, <1>3, <1>4, <1>5, <1>6 DEF Serve

LEMMA LineageStep ==
    ASSUME IInv, [Next]_vars
    PROVE  LineageOK'
<1> DEFINE Kept(c) == /\ presented[c] # NoSession => Adopted(presented[c])
                      /\ kind[c] = "refresh" => presented[c] # NoSession
                      /\ kind[c] = "refresh" /\ owner[presented[c]] \in Subjects =>
                           expectedSub[c] = owner[presented[c]]
                      /\ kind[c] = "refresh" /\ owner[c] \in Subjects => owner[c] = owner[presented[c]]
                      /\ answer[c] = "token" => owner[c] \in Subjects \/ strayed
                      /\ kind[c] \in Brings /\ pc[c] = "done" /\ owner[c] \in Subjects => token[c].sub = owner[c]
      LiveOwned == \A r \in live : owner[r] \in Subjects
<1>0. \A c \in Calls : Kept(c)
  BY DEF IInv, LineageOK
<1>1. \A r : Adopted(r) => Adopted(r)' /\ owner'[r] = owner[r]
  BY AdoptedStays
<1>2. \A r \in Calls : answer[r] # "none" => answer'[r] = answer[r] /\ owner'[r] = owner[r]
  BY OwnerStays
<1>3. (held # NoSession => Adopted(held) /\ (owner[held] \in Subjects => heldSub = owner[held])) /\ LiveOwned
  BY DEF IInv, LineageOK
<1>4. ASSUME NEW c \in Calls, NEW k \in Kinds, Start(c, k) PROVE LineageOK'
  <2>1. pc[c] = "idle" /\ answer[c] = "none" /\ pc'[c] # "done" /\ answer' = answer /\ held' = held /\ heldSub' = heldSub
    BY <1>4 DEF Start, Send, Goto, IInv, ProgressOK, TypeOK, appVars
  <2>2. \A d \in Calls \ {c} : /\ presented'[d] = presented[d] /\ kind'[d] = kind[d] /\ pc'[d] = pc[d]
                               /\ expectedSub'[d] = expectedSub[d]
    BY <1>4 DEF Start, Send, Goto, IInv, TypeOK
  <2>3. owner' = owner /\ token' = token /\ live' = live /\ strayed' = strayed /\ owner[c] \notin Subjects
    BY <1>4 DEF Start, authorityVars, IInv, ProgressOK
  <2>4. /\ presented'[c] # NoSession => presented'[c] = held
        /\ kind'[c] = "refresh" => presented'[c] # NoSession /\ expectedSub'[c] = heldSub
    BY <1>4 DEF Start, IInv, TypeOK
  <2>5. ASSUME NEW d \in Calls PROVE Kept(d)'
    <3>1. CASE d = c
      BY <1>1, <1>3, <2>1, <2>3, <2>4, <3>1
    <3>2. CASE d # c
      BY <1>0, <1>1, <2>1, <2>2, <2>3, <3>2
    <3> QED BY <3>1, <3>2
  <2> QED BY <1>1, <1>3, <2>1, <2>3, <2>5 DEF LineageOK
<1>5. ASSUME NEW c \in Calls, Moves(c) PROVE LineageOK'
  <2>1. /\ UNCHANGED booksVars
        /\ strayed => strayed'
        /\ \A d \in Calls : kind[d] \in Brings /\ pc'[d] = "done" => pc[d] = "done"
    BY <1>5 DEF Moves, booksVars, IInv, ProgressOK, TypeOK, Brings
  <2> QED BY <1>0, <1>1, <1>3, <2>1 DEF booksVars, LineageOK
<1>6. ASSUME NEW c \in Calls, NEW keys \in SUBSET Keys, Verified(c, keys) PROVE LineageOK'
  <2>1. /\ UNCHANGED <<kind, presented, expectedSub, strayed, answer, token, live, owner>>
        /\ answer[c] = "token"
        /\ pc' = [pc EXCEPT ![c] = IF Accepts(c, keys) THEN "done" ELSE "refused"]
    BY <1>6 DEF Verified, Finish, Goto
  <2>2. Accepts(c, keys) /\ kind[c] \in Brings /\ owner[c] \in Subjects => token[c].sub = owner[c]
    <3>1. CASE kind[c] = "exchange"
      <4>1. token[c] \in Tokens /\ TokenOK(token[c])
        BY <2>1 DEF IInv, TypeOK, TokensOK
      <4>2. Accepts(c, keys) => token[c].nonce = c
        BY <3>1, IdentitySessionAssumption DEF IdentitySessionAssumption, Accepts, Verifies, AskedNonce
      <4> QED BY <4>1, <4>2 DEF TokenOK
    <3>2. CASE kind[c] = "refresh"
      BY <1>0, <2>1, <3>2 DEF Accepts
    <3> QED BY <3>1, <3>2 DEF Brings
  <2>3. ASSUME NEW d \in Calls PROVE Kept(d)'
    <3>1. CASE d = c
      BY <1>0, <1>1, <2>1, <2>2, <3>1 DEF IInv, TypeOK
    <3>2. CASE d # c
      BY <1>0, <1>1, <2>1, <3>2 DEF IInv, TypeOK
    <3> QED BY <3>1, <3>2
  <2>4. held' # NoSession => Adopted(held)' /\ (owner'[held'] \in Subjects => heldSub' = owner'[held'])
    <3>1. CASE Accepts(c, keys) /\ kind[c] \in Brings
      <4>1. held' = c /\ heldSub' = token[c].sub
        BY <1>6, <3>1 DEF Verified, Finish, Returned
      <4>2. (owner[c] \in Subjects \/ strayed) /\ pc'[c] = "done"
        BY <1>0, <2>1, <3>1 DEF IInv, TypeOK
      <4> QED BY <2>1, <2>2, <3>1, <4>1, <4>2 DEF Adopted, Sessions
    <3>2. CASE ~(Accepts(c, keys) /\ kind[c] \in Brings)
      BY <1>1, <1>3, <1>6, <3>2 DEF Verified, Finish, appVars
    <3> QED BY <3>1, <3>2
  <2> QED BY <1>3, <2>1, <2>3, <2>4 DEF LineageOK
<1>7. ASSUME NEW c \in Calls, Serve(c) PROVE LineageOK'
  <2>1. /\ pc[c] = "request" /\ answer[c] = "none" /\ pc' = pc
        /\ UNCHANGED <<kind, presented, expectedSub, strayed, held, heldSub>>
    BY <1>7, ServeEffect
  <2>2. \A d \in Calls \ {c} : answer'[d] = answer[d] /\ owner'[d] = owner[d] /\ token'[d] = token[d]
    BY <1>7, ServeEffect
  <2>3. /\ owner'[c] \in Subjects => answer'[c] = "token"
        /\ answer'[c] = "token" => owner'[c] \in Subjects \/ strayed
        /\ kind[c] = "refresh" /\ owner'[c] \in Subjects => owner'[c] = owner[presented[c]]
    BY <1>7, ServeEffect
  <2>4. ASSUME NEW d \in Calls PROVE Kept(d)'
    <3>1. CASE d = c
      BY <1>0, <1>1, <2>1, <2>3, <3>1
    <3>2. CASE d # c
      BY <1>0, <1>1, <2>1, <2>2, <3>2
    <3> QED BY <3>1, <3>2
  <2>5. LiveOwned'
    <3>1. \A r \in live' : r \in live \/ (r = c /\ owner'[c] \in Subjects)
      BY <1>7, ServeLive
    <3>2. \A r \in live \ {c} : owner'[r] \in Subjects
      <4>1. \A r \in live : r \in Calls \/ r = Restored
        BY DEF IInv, TypeOK, Sessions
      <4> QED BY <1>3, <1>7, <2>2, <4>1, ServeEffect
    <3>3. c \notin live
      BY <1>3, <2>1 DEF IInv, ProgressOK
    <3> QED BY <3>1, <3>2, <3>3
  <2> QED BY <1>1, <1>3, <2>1, <2>4, <2>5 DEF LineageOK
<1>8. CASE Elapses
  BY <1>0, <1>1, <1>3, <1>8 DEF Elapses, booksVars, LineageOK
<1> QED BY <1>4, <1>5, <1>6, <1>7, <1>8, StepCases DEF IInv

LEMMA TokensStep ==
    ASSUME IInv, [Next]_vars
    PROVE  TokensOK'
<1>0. \A c \in Calls : (token[c] # NoToken => answer[c] = "token") /\ (answer[c] = "token" => TokenOK(token[c]))
  BY DEF IInv, TokensOK
<1>1. \A r \in Calls : answer[r] # "none" => answer'[r] = answer[r] /\ owner'[r] = owner[r]
  BY OwnerStays
<1>2. clock \in Int /\ skew \in Int /\ clock' \in Int /\ skew' = skew /\ clock <= clock'
  <2>1. ASSUME NEW c \in Calls, NEW k \in Kinds, Start(c, k) PROVE clock' = clock /\ skew' = skew
    BY <2>1 DEF Start, timeVars
  <2>2. ASSUME NEW c \in Calls, Serve(c) PROVE clock' = clock /\ skew' = skew
    BY <2>2, ServeEffect DEF timeVars
  <2> QED BY <2>1, <2>2, StepCases, TimesAreIntegers DEF IInv, Moves, Verified, Elapses, timeVars
\* What holds of a token keeps holding.
<1>3. ASSUME NEW t, TokenOK(t) PROVE TokenOK(t)'
  BY <1>1, <1>2, <1>3 DEF TokenOK
<1>4. ASSUME UNCHANGED <<answer, token>> PROVE TokensOK'
  BY <1>0, <1>3, <1>4 DEF TokensOK
<1>5. ASSUME NEW c \in Calls, Serve(c) PROVE TokensOK'
  <2>1. \A d \in Calls \ {c} : answer'[d] = answer[d] /\ token'[d] = token[d]
    BY <1>5, ServeEffect
  <2>2. CASE answer'[c] # "token"
    <3>1. token' = token /\ answer[c] = "none"
      BY <1>5, <2>2, ServeEffect
    <3> QED BY <1>0, <1>3, <2>1, <2>2, <3>1 DEF TokensOK
  <2>3. CASE answer'[c] = "token"
    <3>1. PICK s \in Subjects : token'[c] \in Answerable(c, s) /\ (owner'[c] \in Subjects => s = owner'[c])
      BY <1>5, <2>3, ServeEffect
    <3>2. clock' = clock /\ skew' = skew
      BY <1>5, ServeEffect DEF timeVars
    <3>3. \/ TokenOK(token'[c])
          \/ /\ token'[c].nonce = IF kind[c] = "exchange" THEN c ELSE NoNonce
             /\ kind[c] = "exchange" => token'[c].sub = s
             /\ token'[c].kid \in {token'[c].signer, NoKid}
             /\ token'[c].iat = clock + skew
             /\ token'[c].nbf \in {NoTime, token'[c].iat}
      BY <3>1, AnswerableToken DEF IInv
    <3>4. TokenOK(token[c])'
      <4>1. CASE TokenOK(token'[c])
        BY <1>1, <1>2, <4>1 DEF TokenOK
      <4>2. CASE ~TokenOK(token'[c])
        BY <2>3, <3>1, <3>2, <3>3, <4>2, TimesAreIntegers, IdentitySessionAssumption
           DEF IdentitySessionAssumption, IInv, TokenOK
      <4> QED BY <4>1, <4>2
    <3> QED BY <1>0, <1>3, <2>1, <2>3, <3>4 DEF TokensOK
  <2> QED BY <2>2, <2>3
<1> QED BY <1>4, <1>5, StepCases DEF IInv, Start, Moves, Verified, Elapses, booksVars

\* A spent session of the past stays spent.
LEMMA SpentStays ==
    ASSUME IInv, [Next]_vars, NEW r \in Sessions, Spent(r), r \in Calls => answer[r] # "none"
    PROVE  Spent(r)'
<1>1. PICK c \in Calls : /\ answer[c] # "none"
                         /\ \/ kind[c] = "refresh" /\ presented[c] = r
                            \/ kind[c] = "logout" /\ presented[c] # NoSession /\ owner[presented[c]] = owner[r]
  BY DEF Spent
<1>2. answer'[c] = answer[c] /\ kind'[c] = kind[c] /\ presented'[c] = presented[c]
  BY <1>1, OwnerStays
<1>3. owner'[r] = owner[r]
  <2>1. CASE r \in Calls
    BY <2>1, OwnerStays
  <2>2. CASE r = Restored
    <3>1. ASSUME NEW d \in Calls, Serve(d) PROVE owner'[Restored] = owner[Restored]
      BY <3>1, ServeEffect
    <3> QED BY <2>2, <3>1, StepCases DEF IInv, Start, Moves, Verified, Elapses, booksVars, authorityVars
  <2> QED BY <2>1, <2>2 DEF Sessions
<1>4. presented[c] # NoSession => owner'[presented[c]] = owner[presented[c]]
  BY AdoptedStays DEF IInv, LineageOK
<1> QED BY <1>1, <1>2, <1>3, <1>4 DEF Spent

LEMMA SpentStep ==
    ASSUME IInv, [Next]_vars
    PROVE  SpentOK'
<1> DEFINE Covered(r) == r \in live \/ Spent(r)
<1>1. \A r \in Calls : owner[r] \in Subjects /\ kind[r] \in Brings => Covered(r)
  BY DEF IInv, SpentOK
<1>2. held = Restored => Covered(Restored)
  BY DEF IInv, SpentOK
\* What is covered stays so.
<1>3. ASSUME NEW r \in Sessions, Covered(r), r \in Calls => answer[r] # "none" PROVE Covered(r)'
  <2>1. CASE Spent(r)
    BY <1>3, <2>1, SpentStays
  <2>2. CASE r \in live
    <3>1. ASSUME NEW c \in Calls, Serve(c), r \notin live' PROVE Spent(r)'
      <4>1. Spent(r) \/ answer'[c] # "none"
        BY <3>1, ServeEffect
      <4>2. /\ kind' = kind /\ presented' = presented
            /\ owner'[r] = owner[r]
            /\ presented[c] # NoSession => owner'[presented[c]] = owner[presented[c]]
        BY <1>3, <3>1, ServeEffect, OwnerStays, AdoptedStays DEF Sessions, IInv, LineageOK
      <4> QED BY <1>3, <2>2, <3>1, <4>1, <4>2, ServeEffect, ServeLive DEF Spent
    <3>2. ASSUME live' = live PROVE Covered(r)'
      BY <2>2, <3>2
    <3> QED BY <3>1, <3>2, StepCases DEF IInv, Start, Moves, Verified, Elapses, booksVars, authorityVars
  <2> QED BY <1>3, <2>1, <2>2
<1>4. \A r \in Calls : owner'[r] \in Subjects /\ kind'[r] \in Brings => Covered(r)'
  <2> SUFFICES ASSUME NEW r \in Calls, owner'[r] \in Subjects, kind'[r] \in Brings PROVE Covered(r)'
    OBVIOUS
  <2>1. CASE answer[r] # "none"
    BY <1>1, <1>3, <2>1, OwnerStays DEF Sessions
  <2>2. CASE answer[r] = "none"
    <3>1. \E c \in Calls : Serve(c)
      <4>1. owner'[r] # owner[r]
        BY <2>2 DEF IInv, ProgressOK
      <4> QED BY <4>1, StepCases DEF IInv, Start, Moves, Verified, Elapses, booksVars, authorityVars
    <3>2. PICK c \in Calls : Serve(c)
      BY <3>1
    <3>3. c = r
      BY <2>2, <3>2, ServeEffect DEF IInv, ProgressOK
    <3> QED BY <3>2, <3>3, ServeEffect, ServeLive
  <2> QED BY <2>1, <2>2
<1>5. held' \in Calls \/ held' = held
  BY StepCases, ServeEffect DEF IInv, Start, Moves, Verified, Finish, Returned, Elapses, booksVars, appVars
<1>6. held' = Restored => Covered(Restored)'
  BY <1>2, <1>3, <1>5, IdentitySessionAssumption DEF IdentitySessionAssumption, Sessions
<1>7. \A c \in Calls : kind'[c] = "refresh" /\ pc'[c] = "done" => held' # presented'[c]
  <2>0. \A d \in Calls : kind[d] = "refresh" /\ pc[d] = "done" => held # presented[d]
    BY DEF IInv, SpentOK
  <2>1. ASSUME NEW c \in Calls, NEW k \in Kinds, Start(c, k)
        PROVE  \A d \in Calls : kind'[d] = "refresh" /\ pc'[d] = "done" => held' # presented'[d]
    BY <2>0, <2>1 DEF Start, Send, Goto, IInv, TypeOK, appVars
  <2>2. ASSUME NEW c \in Calls, Moves(c)
        PROVE  \A d \in Calls : kind'[d] = "refresh" /\ pc'[d] = "done" => held' # presented'[d]
    BY <2>0, <2>2 DEF Moves, IInv, ProgressOK, TypeOK, Brings, booksVars
  <2>3. ASSUME NEW c \in Calls, NEW keys \in SUBSET Keys, Verified(c, keys)
        PROVE  \A d \in Calls : kind'[d] = "refresh" /\ pc'[d] = "done" => held' # presented'[d]
    <3>1. \A d \in Calls : kind[d] = "refresh" => presented[d] # c
      BY <2>3 DEF Verified, IInv, LineageOK, Adopted
    <3>2. kind' = kind /\ presented' = presented /\ pc' = [pc EXCEPT ![c] = IF Accepts(c, keys) THEN "done" ELSE "refused"]
      BY <2>3 DEF Verified, Finish, Goto
    <3>3. IF Accepts(c, keys) /\ kind[c] \in Brings THEN held' = c ELSE held' = held
      BY <2>3 DEF Verified, Finish, Returned, appVars
    <3> QED BY <2>0, <3>1, <3>2, <3>3 DEF IInv, TypeOK, Brings
  <2>4. ASSUME NEW c \in Calls, Serve(c)
        PROVE  \A d \in Calls : kind'[d] = "refresh" /\ pc'[d] = "done" => held' # presented'[d]
    BY <2>0, <2>4, ServeEffect
  <2> QED BY <2>0, <2>1, <2>2, <2>3, <2>4, StepCases DEF IInv, Elapses, booksVars
<1> QED BY <1>4, <1>6, <1>7 DEF SpentOK

LEMMA DocsStep ==
    ASSUME IInv, [Next]_vars
    PROVE  DocsOK'
<1> USE DEF DocsOK, CredentialsFollowIssuer, Places, Docs
<1>1. ASSUME NEW c \in Calls, NEW k \in Kinds, Start(c, k) PROVE DocsOK'
  BY <1>1 DEF Start, Send, Secure, Endpoints, clientVars, IInv, TypeOK
<1>2. ASSUME NEW c \in Calls, NEW doc \in Docs, Discovered(c, doc) PROVE DocsOK'
  BY <1>2 DEF Discovered, Discover, Send, Secure, Endpoints, Caches, IInv, TypeOK
<1>3. ASSUME NEW c \in Calls, DiscoverFails(c) PROVE DocsOK'
  BY <1>3 DEF DiscoverFails, Send, Secure, clientVars, IInv, TypeOK
<1>4. ASSUME NEW c \in Calls, NEW doc \in Docs, KeyDiscovered(c, doc) PROVE DocsOK'
  BY <1>4 DEF KeyDiscovered, Discover, Caches, IInv, TypeOK
<1>5. CASE UNCHANGED <<discovery, sentTo, strayed>>
  BY <1>5 DEF IInv
<1> QED BY <1>1, <1>2, <1>3, <1>4, <1>5
        DEF Next, CallStep, KeyDiscoverFails, Receive, RequestFails, ReceiveKeys, KeysFail, Serve, ServeKeys,
            RotateKey, Tick, Terminated, vars, clientVars

LEMMA InitInvariant ==
    ASSUME Init
    PROVE  IInv
<1> USE IdentitySessionAssumption DEF IdentitySessionAssumption
<1>1. TypeOK
  <2>1. 1 \in Keys /\ 0 \in 0 .. MaxClock
    BY DEF Keys
  <2>2. NoSession \notin Sessions
    BY DEF Sessions
  <2>3. heldSub \in Subjects \cup {NoSubject} /\ Restored \in Sessions
    BY DEF Init, Sessions
  <2> QED BY <2>1, <2>2, <2>3 DEF Init, TypeOK
<1>2. ProgressOK
  BY DEF Init, ProgressOK, Brings, Sessions
<1>3. LineageOK
  BY DEF Init, LineageOK, Adopted, Sessions
<1>4. TokensOK
  BY DEF Init, TokensOK
<1>5. SpentOK
  BY <1>2 DEF Init, ProgressOK, SpentOK
<1>6. DocsOK
  BY DEF Init, DocsOK, CredentialsFollowIssuer
<1> QED BY <1>1, <1>2, <1>3, <1>4, <1>5, <1>6 DEF IInv

LEMMA Invariance == Spec => []IInv
<1>1. IInv /\ [Next]_vars => IInv'
  BY TypeStep, ProgressStep, LineageStep, TokensStep, SpentStep, DocsStep DEF IInv
<1> QED BY <1>1, InitInvariant, PTL DEF Spec
-----------------------------------------------------------------------------
(* Theorems *)

\* The caches, the calls, the application's session and the authority's books keep their types, and
\* a call that verifies has a token to verify.
THEOREM TypeCorrect == Spec => []TypeOK
<1>1. IInv => TypeOK
  BY DEF IInv
<1> QED BY <1>1, Invariance, PTL

\* Whatever documents are discovered, cached and shared by overlapping calls, no request goes in
\* plaintext, and none away from the pinned issuer unless a document naming that issuer said so: the
\* documents of other issuers never count.
THEOREM OnlyTheIssuerRedirects == Spec => []CredentialsFollowIssuer
<1>1. IInv => CredentialsFollowIssuer
  BY DEF IInv, DocsOK
<1> QED BY <1>1, Invariance, PTL

\* However calls overlap and whichever tokens are answered, a client that no document naming the
\* issuer led away keeps the subject of its session: the user who signed in at the head of the chain.
THEOREM SubjectIsKept == Spec => []SessionKeepsSubject
<1>1. IInv => SessionKeepsSubject
  BY DEF IInv, ProgressOK, LineageOK, Adopted, SessionKeepsSubject
<1> QED BY <1>1, Invariance, PTL

\* A spent refresh token in the application's hands, with the client never led away, is explained
\* by a logout or by a served refresh that has not returned.
THEOREM SpentHasCause == Spec => []SpentOnlyByRefresh
<1>1. ASSUME IInv PROVE SpentOnlyByRefresh
  <2> SUFFICES ASSUME ~strayed, held # NoSession, held \notin live
               PROVE \E c \in Calls :
                       /\ answer[c] # "none"
                       /\ \/ kind[c] = "refresh" /\ presented[c] = held /\ pc[c] # "done"
                          \/ kind[c] = "logout" /\ presented[c] # NoSession /\ owner[presented[c]] = owner[held]
    BY DEF SpentOnlyByRefresh
  <2>1. Spent(held)
    <3>1. CASE held = Restored
      BY <1>1, <3>1 DEF IInv, SpentOK
    <3>2. CASE held \in Calls
      BY <1>1, <3>2 DEF IInv, SpentOK, ProgressOK, LineageOK, Adopted
    <3> QED BY <1>1, <3>1, <3>2 DEF IInv, TypeOK, Sessions
  <2>2. \A c \in Calls : kind[c] = "refresh" /\ presented[c] = held => pc[c] # "done"
    BY <1>1 DEF IInv, SpentOK
  <2> QED BY <2>1, <2>2 DEF Spent
<1> QED BY <1>1, Invariance, PTL

\* A call that comes to be refused has just verified its token, against what is then the cache.
LEMMA RefusalVerifies ==
    ASSUME IInv, Next, NEW c \in Calls, pc[c] # "refused", pc'[c] = "refused"
    PROVE  Verified(c, jwksCache')
<1>1. pc \in [Calls -> {"idle", "discover", "request", "keyDiscover", "keys"} \cup Settled]
  BY DEF IInv, TypeOK
<1>2. ~ UNCHANGED pc
  OBVIOUS
<1>3. PICK d \in Calls : CallStep(d)
  BY <1>2 DEF Next, Serve, ServeKeys, RotateKey, Tick, Terminated, vars
<1>4. ASSUME NEW k \in Kinds, Start(d, k) PROVE FALSE
  BY <1>1, <1>4 DEF Start, Send, Goto
<1>5. ASSUME NEW p \in {"request", "keyDiscover", "keys", "failed", "done"}, pc' = [pc EXCEPT ![d] = p] PROVE FALSE
  BY <1>1, <1>5
<1>6. ~Moves(d)
  BY <1>5 DEF Moves
<1>7. Verified(d, jwksCache')
  <2>1. CASE Receive(d)
    BY <1>6, <2>1, ReceiveStep DEF IInv
  <2>2. CASE ReceiveKeys(d)
    <3>1. jwksCache' = keysAnswer[d]
      BY <2>2 DEF ReceiveKeys
    <3> QED BY <2>2, <3>1, ReceiveKeysStep DEF IInv
  <2> QED BY <1>3, <1>4, <1>6, <2>1, <2>2, MoveSteps DEF CallStep, IInv
<1>8. d = c
  BY <1>1, <1>7 DEF Verified, Finish, Goto
<1> QED BY <1>7, <1>8

\* With the clocks no further apart than the tolerance, a right answer is refused only because
\* the keys at hand do not single out the key that signed it.
THEOREM RefusalHasCause == Spec => RefusedForCause
<1>1. ASSUME IInv, Next, NEW c \in Calls, pc[c] # "refused", pc'[c] = "refused", Genuine(c)
      PROVE  token[c].signer \notin jwksCache' \/ (token[c].kid = NoKid /\ jwksCache' # {token[c].signer})
  <2> DEFINE t == token[c]
  <2>1. Verified(c, jwksCache')
    BY <1>1, RefusalVerifies
  <2>2. ~Accepts(c, jwksCache')
    BY <1>1, <2>1 DEF Verified, Finish, Goto, IInv, TypeOK
  <2>3. t \in Tokens /\ TokenOK(t)
    BY <1>1, <2>1 DEF Verified, IInv, TypeOK, TokensOK
  <2>4. ValidAt(t, clock)
    <3>1. t.iat \in Int /\ t.exp \in Int /\ t.iat <= clock + skew /\ clock + skew <= t.exp /\ t.nbf \in {NoTime, t.iat}
      BY <1>1, <2>3 DEF Genuine, TokenOK, Tokens, Times
    <3>2. clock \in Int /\ skew \in Int /\ -Tolerance <= skew /\ skew <= Tolerance /\ Tolerance \in Int
      BY <1>1, TimesAreIntegers, IdentitySessionAssumption, IdTokenAssumption
         DEF IdentitySessionAssumption, IdTokenAssumption, IInv, TypeOK
    <3>3. t.iat # NoTime /\ t.exp # NoTime
      BY <3>1, IdTokenAssumption DEF IdTokenAssumption
    <3> HIDE DEF t
    <3> QED BY <3>1, <3>2, <3>3 DEF ValidAt
  <2>5. t.class = "id" /\ t.ours /\ (AskedNonce(c) = NoNonce \/ t.nonce = AskedNonce(c))
    BY <1>1 DEF Genuine, AskedNonce
  <2>6. kind[c] = "refresh" => t.sub = expectedSub[c]
    BY <1>1, <2>1, <2>3 DEF Genuine, Verified, IInv, LineageOK, Tokens
  <2>7. t.signer \notin Selected(t, jwksCache')
    BY <2>2, <2>4, <2>5, <2>6 DEF Accepts, Verifies
  <2> QED BY <2>3, <2>7 DEF Selected, TokenOK
<1>2. IInv /\ [Next]_vars =>
        [\A c \in Calls :
           pc[c] # "refused" /\ pc'[c] = "refused" /\ Genuine(c) =>
             \/ token[c].signer \notin jwksCache'
             \/ token[c].kid = NoKid /\ jwksCache' # {token[c].signer}]_vars
  BY <1>1
<1> QED BY <1>2, Invariance, PTL DEF Spec, RefusedForCause

-----------------------------------------------------------------------------
(* Entitlements.tla: what a claim allows, whatever a relying party overrides *)

LEMMA Confined ==
    ASSUME NEW claim \in EntitlementClaimLike, NEW now, NEW table, NEW overrides,
           NEW c, c \in May(claim, now, table, overrides)
    PROVE  /\ c \in Capabilities
           /\ \A t \in claim.expiresAt : ~(t <= now)
           /\ c \in CapabilitiesForClaim(claim, table, overrides)
<1>1. DefaultCapabilities["public"] = {}
  BY DEF DefaultCapabilities, Tiers
<1>2. claim # NoClaim
  BY EntitlementsAssumption DEF EntitlementsAssumption
<1> QED
  BY <1>1, <1>2 DEF May, Can, ResolveCapabilities

LEMMA Allowed ==
    ASSUME NEW claim \in EntitlementClaimLike, NEW now, NEW table, NEW overrides, NEW c \in Capabilities,
           \A t \in claim.expiresAt : ~(t <= now),
           c \in CapabilitiesForClaim(claim, table, overrides)
    PROVE  c \in May(claim, now, table, overrides)
<1>1. claim # NoClaim
  BY EntitlementsAssumption DEF EntitlementsAssumption
<1> QED
  BY <1>1 DEF May, Can, ResolveCapabilities

\* A role in the table speaks for itself, an inherited name for nobody, and any other leaves it to the tier.
LEMMA RoleDecides ==
    ASSUME NEW claim, NEW table, NEW overrides, NEW c \in CapabilitiesForClaim(claim, table, overrides)
    PROVE  \/ Registered(claim, table) /\ c \in Declared(claim, table)
           \/ /\ ~Registered(claim, table)
              /\ claim.citrateRole \cap (DOMAIN table \cup InheritedNames) = {}
              /\ c \in CapabilitiesOf(claim.tier, overrides)
BY DEF CapabilitiesForClaim, Registered, Declared

\* The capabilities of two claims whose roles are alike and whose tiers are read alike.
LEMMA SameReading ==
    ASSUME NEW claim, NEW other, NEW table, NEW overrides,
           other.citrateRole = claim.citrateRole, NormalizeTier(other.tier) = NormalizeTier(claim.tier)
    PROVE  CapabilitiesForClaim(other, table, overrides) = CapabilitiesForClaim(claim, table, overrides)
BY DEF CapabilitiesForClaim, CapabilitiesOf

LEMMA ClaimsFailSafe ==
    ASSUME NEW claim \in Claims, NEW now \in Nat, NEW table, NEW overrides
    PROVE  FailsSafe(claim, now, table, overrides)
<1> DEFINE may == May(claim, now, table, overrides)
<1>0. claim \in EntitlementClaimLike
  BY EntitlementsAssumption DEF EntitlementsAssumption
<1>1. ASSUME NEW later \in now .. MaxTime, NEW c \in May(claim, later, table, overrides)
      PROVE  c \in may
  <2>1. \A t \in claim.expiresAt : ~(t <= now)
    <3>1. \A t \in claim.expiresAt : t \in Nat /\ ~(t <= later)
      BY <1>0, <1>1, Confined DEF EntitlementClaimLike
    <3>2. later \in Int /\ now <= later
      BY EntitlementsAssumption DEF EntitlementsAssumption
    <3> QED
      BY <3>1, <3>2
  <2> QED
    BY <1>0, <1>1, <2>1, Confined, Allowed
<1>2. now \in claim.expiresAt => may = {}
  BY <1>0, Confined
<1>3. RoleFailsSafe(claim, now, table, overrides)
  <2>1. SUFFICES ASSUME NEW c \in may, NEW other, other = [claim EXCEPT !.citrateRole = {}]
                 PROVE  c \in IF Registered(claim, table) THEN Declared(claim, table)
                              ELSE May(other, now, table, overrides)
    <3>1. PICK other : other = [claim EXCEPT !.citrateRole = {}]
      OBVIOUS
    <3> QED
      BY <3>1 DEF RoleFailsSafe
  <2>2. /\ other \in EntitlementClaimLike
        /\ other.tier = claim.tier /\ other.expiresAt = claim.expiresAt /\ other.citrateRole = {}
    BY ONLY <1>0, <2>1 DEF EntitlementClaimLike
  <2>3. CASE Registered(claim, table)
    BY <1>0, <2>3, Confined, RoleDecides
  <2>4. CASE ~Registered(claim, table)
    <3>1. c \in CapabilitiesOf(claim.tier, overrides)
      BY <1>0, <2>4, Confined, RoleDecides
    <3>2. CapabilitiesForClaim(other, table, overrides) = CapabilitiesOf(claim.tier, overrides)
      BY <2>2 DEF CapabilitiesForClaim
    <3> QED
      BY <1>0, <2>2, <2>4, <3>1, <3>2, Confined, Allowed
  <2> QED
    BY <2>3, <2>4
<1>4. ASSUME claim.tier \notin Tiers, NEW c \in may, NEW other, other = [claim EXCEPT !.tier = "public"]
      PROVE  c \in May(other, now, table, overrides)
  <2>1. /\ other \in EntitlementClaimLike
        /\ other.tier = "public" /\ other.expiresAt = claim.expiresAt /\ other.citrateRole = claim.citrateRole
    <3>1. other = [claim EXCEPT !.tier = "public"]
      BY <1>4
    <3>2. "public" \in STRING
      BY EntitlementsAssumption DEF EntitlementsAssumption, Tiers
    <3> QED
      BY ONLY <1>0, <3>1, <3>2 DEF EntitlementClaimLike
  <2>2. NormalizeTier(other.tier) = NormalizeTier(claim.tier)
    BY <1>4, <2>1 DEF NormalizeTier, Tiers
  <2>3. CapabilitiesForClaim(other, table, overrides) = CapabilitiesForClaim(claim, table, overrides)
    BY <2>1, <2>2, SameReading
  <2> QED
    BY <1>0, <2>1, <2>3, Confined, Allowed
<1>5. DocumentsFailSafe(claim, now, table, overrides)
  <2> SUFFICES ASSUME "confidentialDocs" \in CapabilitiesOf(claim.tier, overrides),
                      NormalizeTier(claim.tier) \notin DOMAIN overrides
               PROVE  claim.tier = "confidential"
    BY <1>0, Confined, RoleDecides DEF DocumentsFailSafe
  <2>1. "confidentialDocs" \in DefaultCapabilities[NormalizeTier(claim.tier)]
    BY DEF CapabilitiesOf
  <2>2. NormalizeTier(claim.tier) \in Tiers
    BY DEF NormalizeTier, Tiers
  <2>3. NormalizeTier(claim.tier) = "confidential"
    BY <2>1, <2>2 DEF DefaultCapabilities
  <2> QED
    BY <2>3 DEF NormalizeTier
<1> QED
  <2>1. PICK public : public = [claim EXCEPT !.tier = "public"]
    OBVIOUS
  <2>2. claim.tier \notin Tiers => may \subseteq May([claim EXCEPT !.tier = "public"], now, table, overrides)
    BY <1>4, <2>1, Zenon
  <2>3. \A later \in now .. MaxTime : May(claim, later, table, overrides) \subseteq may
    BY <1>1
  <2> QED
    BY <1>2, <1>3, <1>5, <2>2, <2>3, Zenon DEF FailsSafe

\* Whatever claims are made and whatever relying parties override and register, at every time of the
\* clock: time takes capabilities and gives none, a role gives its entry or nothing, an unknown tier
\* gives what public gives, and no claim gives nothing.
THEOREM CapabilitiesFailSafe == Spec => []EntitlementsFailSafe
<1>1. TypeOK => EntitlementsFailSafe
  <2> SUFFICES ASSUME TypeOK PROVE EntitlementsFailSafe
    OBVIOUS
  <2>1. clock \in 0 .. MaxTime /\ clock \in Nat
    BY EntitlementsAssumption, IdentitySessionAssumption
    DEF EntitlementsAssumption, IdentitySessionAssumption, TypeOK
  <2>2. \A claim \in Claims, table \in RoleTables, overrides \in Overrides : FailsSafe(claim, clock, table, overrides)
    BY <2>1, ClaimsFailSafe
  <2>3. \A table \in RoleTables, overrides \in Overrides : May(NoClaim, clock, table, overrides) = {}
    BY DEF May, Can, ResolveCapabilities, DefaultCapabilities, Tiers
  <2> QED
    BY <2>1, <2>2, <2>3 DEF EntitlementsFailSafe, FailsSafeAt
<1> QED
  BY <1>1, TypeCorrect, PTL
=============================================================================
