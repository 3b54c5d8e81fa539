----------------------------- MODULE OpenBanking -----------------------------
(***************************************************************************)
(* The whole path of a customer's consent: the authorization server and    *)
(* the gateway over one database, from the authorization request to the    *)
(* banking API call that the consent lets through or stops.                *)
(***************************************************************************)
EXTENDS AuthServer, Gateway

allVars == <<serverVars, gatewayVars>>

BankInit == ServerInit /\ GatewayInit

BankNext ==
  \/ ServerNext /\ UNCHANGED gatewayVars
  \/ GatewayNext /\ UNCHANGED <<decisions, revocations, tokenVars>>

BankSpec == BankInit /\ [][BankNext]_allVars

\* A query that was sent is answered, so a request in flight goes on.
BankFairness ==
  \A g \in Requests :
    WF_allVars(RequestStep(g) /\ UNCHANGED <<decisions, revocations, tokenVars>>)

FairBankSpec == BankSpec /\ BankFairness

BankTypeOK == ServerTypeOK /\ GatewayTypeOK

-----------------------------------------------------------------------------
(* Correctness                                                             *)

\* docs/consent-revocation.md:222-225: revocation takes effect immediately.
\* A request that arrives after its consent was revoked or expired never
\* reaches the banking API, whatever the token cache holds and whichever
\* decisions, revocations and exchanges are half-way.
NoAccessWithoutConsent ==
  \A g \in Requests : requests[g] # None /\ requests[g].late => requests[g].status # 200

\* A cached refusal that says revoked or expired is of such a token, and stays
\* so until it is forgotten (docs/gateway-introspection.md:161-164).  A refusal
\* cached after a failed query says neither: InvalidTokensDead is about those.
RefusalsDeserved ==
  \A t \in TokenIds : Hit(t) =>
    /\ cache[t].result = "revoked" => accessTokens[t].revoked
    /\ cache[t].result = "expired" => now >= accessTokens[t].expires_at

\* docs/gateway-introspection.md:134-140: a request is told that its token is
\* invalid when the token is revoked or expired; an error of the database is
\* an error of the server.  The code keeps this as long as no query throws,
\* whoever filled the cache and however long ago; an error is answered 401
\* invalid_token all the same, and cached (token-introspection.js:81, 164-178).
InvalidTokensDead ==
  \A g \in Requests : requests[g] # None /\ requests[g].reason = "invalid_token" =>
    LET token == accessTokens[requests[g].token] IN
    token.revoked \/ now >= token.expires_at

\* Of the reasons in the audit log (docs/audit-logging.md:41-60), those about
\* the consent are true.  Who reads that it was revoked finds it revoked, or
\* overwritten by its expiry; that it expired, finds its time up.  And as every
\* token carries the scopes of an approved consent of its own customer and
\* client, no request is told that its consent is missing, denied or too
\* narrow.  (InvalidTokensDead is about the reason invalid_token, which an
\* expired token is given too: token-introspection.js:167.)
ReasonsTrue ==
  \A g \in Requests : requests[g] # None =>
    LET r == requests[g] IN
    /\ r.reason = "revoked_consent" => consents[r.consent].status \in {"revoked", "expired"}
    /\ r.reason = "expired_consent" => ~SqlLive(consents[r.consent])
    /\ r.reason \notin {"missing_consent", "denied_consent", "scope_mismatch"}

\* An endpoint that takes a scope serves a request only if the consent grants
\* one of the scopes it takes, in either chain (consent-validation.js:213-246,
\* scope-enforcement.js:73-79, 114-168).  An endpoint in no map takes none.
ServedAsGranted ==
  \A g \in Requests : requests[g] # None /\ requests[g].status = 200 =>
    LET required == Required[requests[g].endpoint] IN
    required # <<>> =>
      \E i \in DOMAIN required : required[i] \in consents[requests[g].consent].granted

CachedActive(t) == Hit(t) /\ cache[t].result = "active"

\* The cache holds t as active, or a request with t is at one of `pcs`.
Taken(t, pcs) == \/ CachedActive(t)
                 \/ \E g \in Requests : /\ requests[g] # None
                                        /\ requests[g].token = t
                                        /\ requests[g].pc \in pcs

\* Where a request is that has found its token not revoked; one that has only
\* found its JWT not expired is at "verify".
Introspected == {"touch", "limit", "consent", "scope", "handed"}

\* The cache is not told of revocations and does not compare a token's exp
\* (token-introspection.js:24-34, 63-68), but what it forgets it forgets for
\* good: once no cache entry and no request in flight takes a revoked or an
\* expired token for active, none ever does again.
DeadTokenStaysOut ==
  [][\A t \in TokenIds : accessTokens[t] # None =>
       /\ accessTokens[t].revoked /\ ~Taken(t, Introspected) => ~Taken(t, Introspected)'
       /\ now >= accessTokens[t].expires_at /\ ~Taken(t, Introspected \cup {"verify"})
            => ~Taken(t, Introspected \cup {"verify"})']_allVars

\* docs/audit-logging.md:9: "every protected API request generates exactly one
\* audit event".  What the code keeps of it: as long as no query throws, every
\* request is answered and has its entry, except where requireConsentScope
\* refused it, which answers 403 without a word to the log
\* (consent-validation.js:301).
RequestsAudited ==
  \A g \in Requests :
    requests[g] # None /\ requests[g].pc \notin {"expire", "answered"}
      ~> InRequest(g, "answered") /\ (\/ requests[g].entry \in {"allowed", "denied"}
                                      \/ /\ requests[g].status = 403
                                         /\ requests[g].reason = "none")
-----------------------------------------------------------------------------
(* The inductive invariant behind NoAccessWithoutConsent, RefusalsDeserved,*)
(* ReasonsTrue and ServedAsGranted                                         *)

\* A consent is marked expired, or about to be, only when its time is up:
\* approveConsent looks first, and so does the batch job's WHERE clause.
ExpiredOverdue ==
  /\ \A c \in ConsentIds :
       consents[c] # None /\ consents[c].status = "expired" => ~SqlLive(consents[c])
  /\ \A d \in Deciders : InDecision(d, "expire") => ~SqlLive(consents[decisions[d].consent])

\* Whether or not it still counts, a cached refusal is of a token no good.
CacheDeserved ==
  \A t \in TokenIds : cache[t] # None /\ cache[t].result \in {"revoked", "expired"} =>
    /\ accessTokens[t] # None
    /\ cache[t].result = "revoked" => accessTokens[t].revoked
    /\ cache[t].result = "expired" => now >= accessTokens[t].expires_at

\* A request is about a stored token and the consent behind it, or asks about
\* a consent alone; and who is about to expire a consent saw its time up.
RequestsOfTokens ==
  \A g \in Requests : requests[g] # None =>
    LET r == requests[g] IN
    /\ r.token # None => /\ accessTokens[r.token] # None
                         /\ accessTokens[r.token].consent = r.consent
    /\ r.token = None => r.pc \in {"expire", "log", "answered"} /\ r.status # 200
    /\ r.consent # None => WasApproved(r.consent)
    /\ r.pc = "expire" => r.consent # None /\ ~SqlLive(consents[r.consent])
    /\ r.reason \in {"revoked_consent", "expired_consent"} => r.consent # None

\* A consent that was no longer good when the request came is not good now,
\* and the request is not past validateConsent.
LateForGood ==
  \A g \in Requests : requests[g] # None /\ requests[g].late =>
    /\ requests[g].consent # None
    /\ ~GoodConsent(requests[g].consent)
    /\ requests[g].pc \notin {"scope", "handed"}

\* What every step of the authorization server and of the gateway keeps: the
\* types, tokens and codes backed by what they came from (ServerInv), consents
\* expired only when overdue, cached refusals deserved for good, requests about
\* the token and the consent they came with, and the answers and reasons that
\* the properties above are about.
BankInv ==
  /\ ServerInv
  /\ GatewayTypeOK
  /\ ExpiredOverdue
  /\ CacheDeserved
  /\ RequestsOfTokens
  /\ LateForGood
  /\ NoAccessWithoutConsent
  /\ ReasonsTrue
  /\ ServedAsGranted
=============================================================================
