------------------------------- MODULE Gateway -------------------------------
(***************************************************************************)
(* The gateway's authorization of an API request, in the order of          *)
(* gateway/policies/complete-authorization.js:                             *)
(*   token-introspection.js   TokenCache, gatewayTokenIntrospection,       *)
(*   token-exchange.js        verifyAccessToken (in auth/oauth),           *)
(*   rate-limiter.js          rateLimitMiddleware,                         *)
(*   consent-validation.js    validateConsent, requireConsentScope,        *)
(*   scope-enforcement.js     enforceEndpointScopes, requireEndpointScope, *)
(*   audit-logger.js          logDeniedRequest, auditAllowedRequest.       *)
(*                                                                         *)
(* A request is a worker that yields at every query.  A refusal is first   *)
(* written to the audit log and then answered; a request handed to the     *)
(* banking API is written there when the API answers.  The cache is the    *)
(* one piece of state in memory; it is lost when the process restarts.  A  *)
(* JWT carries the columns of its access_tokens row that never change.     *)
(* How the limiter counts is the matter of RateLimiter: here it may let    *)
(* any request through or refuse it.                                       *)
(***************************************************************************)
EXTENDS Tables, Sequences

CONSTANTS
  Requests,   \* concurrent API requests
  Endpoints,  \* endpoints of the banking API
  Required,   \* endpoint -> the list of scopes one of which it takes;
              \* empty for one that is not in ENDPOINT_SCOPE_MAP
  Explicit,   \* endpoints behind completeAuthorizationWithScope
  CacheTTL    \* TokenCache's ttl: 5 minutes

VARIABLES
  cache,      \* tokenCache: token -> entry, or None
  requests    \* request -> its state, or None

gatewayVars == <<cache, requests>>

\* `active: true`, or what an inactive result's error_description says
Results == {"active", "expired", "revoked", "failed"}

CacheEntry == [result : Results, expires_at : Nat]

\* DENIAL_REASONS, as far as the chain uses them
Reasons == {"none", "missing_token", "expired_token", "invalid_token",
            "rate_limit_exceeded", "missing_consent", "revoked_consent",
            "denied_consent", "expired_consent", "scope_mismatch",
            "insufficient_scope", "unauthorized"}

\* `late` is history: the consent was no longer good when the request came.
\* `status` is the HTTP status of the answer; 200 stands for the call of
\* next() that hands the request to the banking API, whatever that answers.
\* `entry` is what became of the request's INSERT INTO audit_logs.
ApiRequest ==
  [pc : {"verify", "touch", "limit", "consent", "expire", "scope", "log",
         "handed", "answered"},
   token : TokenIds \cup {None}, consent : ConsentIds \cup {None},
   endpoint : Endpoints \cup {None}, late : BOOLEAN,
   status : {0, 200, 401, 403, 429, 500}, reason : Reasons,
   entry : {"none", "allowed", "denied", "lost"}]

ASSUME GatewayAssumption ==
  /\ CacheTTL \in Nat
  /\ Required \in [Endpoints -> Seq(Scopes)]
  /\ Explicit \subseteq {e \in Endpoints : Required[e] # <<>>}
  /\ None \notin Endpoints
  /\ None \notin CacheEntry
  /\ None \notin ApiRequest

GatewayTypeOK ==
  /\ cache \in [TokenIds -> CacheEntry \cup {None}]
  /\ requests \in [Requests -> ApiRequest \cup {None}]

GatewayInit ==
  /\ cache = [t \in TokenIds |-> None]
  /\ requests = [g \in Requests |-> None]

-----------------------------------------------------------------------------
(* TokenCache                                                              *)

\* get: an entry past its time counts as absent, and is dropped
Hit(t) == cache[t] # None /\ ~JsExpired(cache[t])

\* set
Cached(t, result) ==
  [cache EXCEPT ![t] = [result |-> result, expires_at |-> now + CacheTTL]]

-----------------------------------------------------------------------------
\* A slip: a tolerance for clock skew with the wrong sign
JwtExpiredEarly(token) == now + 1 >= token.expires_at

\* jwt.verify refuses a token from the instant of its `exp` on.
JwtExpired(token) == now >= token.expires_at

\* The consent an access token names is good at this moment.
GoodConsent(c) == consents[c].status = "approved" /\ ~JsExpired(consents[c])

InRequest(g, pc) == requests[g] # None /\ requests[g].pc = pc

\* The refusal is on its way to the audit log and then to the client.
Refuse(g, status, reason) ==
  requests' = [requests EXCEPT ![g] =
                 [@ EXCEPT !.pc = "log", !.status = status, !.reason = reason]]

\* verifyAccessToken's error: the same for an expired and a revoked token
ErrorOf(result) == IF result = "failed" THEN "server_error" ELSE "invalid_token"

\* The denial reason of an inactive result: expired_token waits for an error
\* that verifyAccessToken never gives.
DenialReason(result) ==
  IF ErrorOf(result) = "token_expired" THEN "expired_token" ELSE "invalid_token"

\* A request comes with a token, or without one.
Opened(t, c, pc, status, reason) ==
  [pc |-> pc, token |-> t, consent |-> c, endpoint |-> None,
   late |-> c # None /\ ~GoodConsent(c), status |-> status, reason |-> reason,
   entry |-> "none"]

Open(g, t, pc) ==
  requests' = [requests EXCEPT ![g] = Opened(t, accessTokens[t].consent, pc, 0, "none")]

OpenRefused(g, t, result) ==
  requests' = [requests EXCEPT ![g] =
                 Opened(t, accessTokens[t].consent, "log", 401, DenialReason(result))]

\* A request with the token t reaches gatewayTokenIntrospection.  A cached
\* result settles it; otherwise the JWT is verified before the first query,
\* and its result, good or bad, is what the cache will hold.
Arrive(g, t) ==
  /\ requests[g] = None
  /\ accessTokens[t] # None
  /\ \/ /\ Hit(t)
        /\ IF cache[t].result = "active" THEN Open(g, t, "limit")
                                         ELSE OpenRefused(g, t, cache[t].result)
        /\ UNCHANGED cache
     \/ /\ ~Hit(t) /\ JwtExpired(accessTokens[t])
        /\ OpenRefused(g, t, "expired")
        /\ cache' = Cached(t, "expired")
     \/ /\ ~Hit(t) /\ ~JwtExpired(accessTokens[t])
        /\ Open(g, t, "verify")
        /\ cache' = [cache EXCEPT ![t] = None]
  /\ UNCHANGED <<now, tables, redirected>>

\* No Authorization header, or one without a bearer token
ArriveWithoutToken(g) ==
  /\ requests[g] = None
  /\ requests' = [requests EXCEPT ![g] = Opened(None, None, "log", 401, "missing_token")]
  /\ UNCHANGED <<now, tables, redirected, cache>>

\* A slip: the column not looked at
NeverRevoked(token) == FALSE

Revoked(token) == token.revoked

\* The SELECT of verifyAccessToken: a revoked token is refused.
VerifyToken(g) ==
  LET t == requests[g].token IN
  /\ InRequest(g, "verify")
  /\ \/ /\ Revoked(accessTokens[t])
        /\ cache' = Cached(t, "revoked")
        /\ Refuse(g, 401, DenialReason("revoked"))
     \/ /\ ~Revoked(accessTokens[t])
        /\ requests' = [requests EXCEPT ![g].pc = "touch"]
        /\ UNCHANGED cache
  /\ UNCHANGED <<now, tables, redirected>>

\* UPDATE use_count; then the token counts as active and is cached so.
TouchToken(g) ==
  /\ InRequest(g, "touch")
  /\ cache' = Cached(requests[g].token, "active")
  /\ requests' = [requests EXCEPT ![g].pc = "limit"]
  /\ UNCHANGED <<now, tables, redirected>>

\* verifyAccessToken turns an error into valid: false, which introspectToken
\* caches like any other refusal.
FailVerify(g) ==
  /\ Faults
  /\ InRequest(g, "verify") \/ InRequest(g, "touch")
  /\ cache' = Cached(requests[g].token, "failed")
  /\ Refuse(g, 401, DenialReason("failed"))
  /\ UNCHANGED <<now, tables, redirected>>

\* rateLimitMiddleware: below the limit, or in error
WithinLimit(g) ==
  /\ InRequest(g, "limit")
  /\ requests' = [requests EXCEPT ![g].pc = "consent"]
  /\ UNCHANGED <<now, tables, redirected, cache>>

\* A slip: the answer sent without a word to the audit log
OverLimitUnlogged(g) ==
  /\ InRequest(g, "limit")
  /\ requests' = [requests EXCEPT ![g].pc = "answered", ![g].status = 429]
  /\ UNCHANGED <<now, tables, redirected, cache>>

OverLimit(g) ==
  /\ InRequest(g, "limit")
  /\ Refuse(g, 429, "rate_limit_exceeded")
  /\ UNCHANGED <<now, tables, redirected, cache>>

-----------------------------------------------------------------------------
(* gateway/policies/consent-validation.js                                  *)

\* A slip: only the revoked status looked at
NotRevoked(consent) == consent.status # "revoked"

\* The status tests of validateConsent; the expiry test comes next.
Approved(consent) == consent.status = "approved"

\* A slip: the branches in the wrong order
ExpiredInAnyCase(status) == "expired_consent"

\* The denial reason of a consent in another status
ReasonOf(status) ==
  CASE status = "revoked" -> "revoked_consent"
    [] status = "denied" -> "denied_consent"
    [] status = "expired" -> "expired_consent"
    [] OTHER -> "missing_consent"

\* The SELECT of validateConsent, by consent, customer and client, and the
\* tests that follow it
ValidateConsent(g) ==
  LET token == accessTokens[requests[g].token]
      consent == consents[token.consent]
      mine == consent.customer = token.customer /\ consent.client = token.client
  IN
  /\ InRequest(g, "consent")
  /\ \/ /\ ~mine
        /\ Refuse(g, 403, "missing_consent")
     \/ /\ mine /\ ~Approved(consent)
        /\ Refuse(g, 403, ReasonOf(consent.status))
     \/ /\ mine /\ Approved(consent) /\ JsExpired(consent)
        /\ requests' = [requests EXCEPT ![g].pc = "expire"]
     \/ /\ mine /\ Approved(consent) /\ ~JsExpired(consent)
        /\ IF token.scope \subseteq consent.granted
             THEN requests' = [requests EXCEPT ![g].pc = "scope"]
             ELSE Refuse(g, 403, "scope_mismatch")
  /\ UNCHANGED <<now, tables, redirected, cache>>

\* checkConsentStatus, for whoever asks about the consent c, finds it past
\* its time; in every other case it only answers.
CheckConsentStatus(g, c) ==
  /\ requests[g] = None
  /\ consents[c] # None
  /\ Approved(consents[c]) /\ JsExpired(consents[c])
  /\ requests' = [requests EXCEPT ![g] = Opened(None, c, "expire", 0, "none")]
  /\ UNCHANGED <<now, tables, redirected, cache>>

\* The UPDATE of a consent found past its time, by consent_id alone
ExpireConsent(g) ==
  /\ InRequest(g, "expire")
  /\ consents' = [consents EXCEPT ![requests[g].consent].status = "expired"]
  /\ IF requests[g].token = None THEN requests' = [requests EXCEPT ![g] = None]
                                  ELSE Refuse(g, 403, "expired_consent")
  /\ UNCHANGED <<now, authRequests, authCodes, accessTokens, redirected, cache>>

\* The catch block of validateConsent, and that of checkConsentStatus
FailValidate(g) ==
  /\ Faults
  /\ InRequest(g, "consent") \/ InRequest(g, "expire")
  /\ IF requests[g].token = None THEN requests' = [requests EXCEPT ![g] = None]
                                  ELSE Refuse(g, 500, "unauthorized")
  /\ UNCHANGED <<now, tables, redirected, cache>>

-----------------------------------------------------------------------------
(* gateway/policies/scope-enforcement.js                                   *)

\* A slip: length >= 0 for length === 0
NoScopeRequired(scope, required) == TRUE

\* hasRequiredScope
HasRequiredScope(scope, required) ==
  required = <<>> \/ \E i \in DOMAIN required : required[i] \in scope

\* requireConsentScope, which only the chain with an explicit scope has: the
\* consent must grant the first of them.
HasConsentScope(c, e) == e \in Explicit => Required[e][1] \in consents[c].granted

\* The request turns out to be for the endpoint e; nothing before depends on
\* which.  All that follows validateConsent's next() is synchronous, and a
\* refusal by requireConsentScope leaves no trace in the audit log.
EnforceScope(g, e) ==
  LET token == accessTokens[requests[g].token]
      request == [requests[g] EXCEPT !.endpoint = e]
      Becomes(r) == requests' = [requests EXCEPT ![g] = r]
  IN
  /\ InRequest(g, "scope")
  /\ \/ /\ ~HasRequiredScope(token.scope, Required[e])
        /\ Becomes([request EXCEPT !.pc = "log", !.status = 403,
                                   !.reason = "insufficient_scope"])
     \/ /\ HasRequiredScope(token.scope, Required[e])
        /\ ~HasConsentScope(requests[g].consent, e)
        /\ Becomes([request EXCEPT !.pc = "answered", !.status = 403])
     \/ /\ HasRequiredScope(token.scope, Required[e])
        /\ HasConsentScope(requests[g].consent, e)
        /\ Becomes([request EXCEPT !.pc = "handed", !.status = 200])
  /\ UNCHANGED <<now, tables, redirected, cache>>

-----------------------------------------------------------------------------
(* gateway/policies/audit-logger.js                                        *)

\* logAuditEvent returns null when its INSERT throws.
Recorded(entry) == IF Faults THEN {entry, "lost"} ELSE {entry}

\* The refusal is in the log and the client gets its answer.
LogDeniedRequest(g) ==
  /\ InRequest(g, "log")
  /\ \E entry \in Recorded("denied") :
       requests' = [requests EXCEPT ![g] = [@ EXCEPT !.pc = "answered", !.entry = entry]]
  /\ UNCHANGED <<now, tables, redirected, cache>>

\* The API has answered with res.json, which auditAllowedRequest wraps: the
\* INSERT goes out first and nobody waits for it.
LogAllowedRequest(g) ==
  /\ InRequest(g, "handed")
  /\ \E entry \in Recorded("allowed") :
       requests' = [requests EXCEPT ![g] = [@ EXCEPT !.pc = "answered", !.entry = entry]]
  /\ UNCHANGED <<now, tables, redirected, cache>>

-----------------------------------------------------------------------------
\* The client has the answer; the worker is free for another request.
Leave(g) ==
  /\ InRequest(g, "answered")
  /\ requests' = [requests EXCEPT ![g] = None]
  /\ UNCHANGED <<now, tables, redirected, cache>>

\* The process restarts: no request survives and the cache starts empty.
Restart ==
  /\ Faults
  /\ cache' = [t \in TokenIds |-> None]
  /\ requests' = [g \in Requests |-> None]
  /\ UNCHANGED <<now, tables, redirected>>

RequestStep(g) ==
  \/ VerifyToken(g)
  \/ TouchToken(g)
  \/ FailVerify(g)
  \/ WithinLimit(g)
  \/ OverLimit(g)
  \/ ValidateConsent(g)
  \/ ExpireConsent(g)
  \/ FailValidate(g)
  \/ \E e \in Endpoints : EnforceScope(g, e)
  \/ LogDeniedRequest(g)
  \/ LogAllowedRequest(g)

GatewayNext ==
  \/ \E g \in Requests, t \in TokenIds : Arrive(g, t)
  \/ \E g \in Requests : ArriveWithoutToken(g) \/ RequestStep(g) \/ Leave(g)
  \/ \E g \in Requests, c \in ConsentIds : CheckConsentStatus(g, c)
  \/ Restart
=============================================================================
