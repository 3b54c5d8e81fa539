# Verification of the open banking authorization path

TLA+ models of how this repository lets a third-party application reach a
customer's bank data: the customer's consent, the authorization code, the access
token and the gateway that checks both; and of what these stand on, the customer's
session, the application's credentials, the process's secrets and the API that reads
the data. TLC checks the models on small instances; TLAPS proves their safety
properties for every instance.

## 1. The system

### Parts, their state and operations

| part | source | state | operations |
|---|---|---|---|
| authorization requests | `auth/oauth/authorization-request.js` | table `authorization_requests` (10 minutes) | check client, redirect URI and scopes; store the request |
| consent handler | `auth/consent/consent-handler.js`, `consent-routes.js` | none of its own | carry out a customer's decision (approve, partly approve, deny) and a customer's revocation |
| consent manager | `auth/consent/consent-manager.js` | table `consents` (90 days) | create, approve, deny, revoke, find an active one, expire in batch |
| token exchange | `auth/oauth/token-exchange.js`, `token-routes.js` | tables `authorization_codes` (10 minutes), `access_tokens` (1 hour) | exchange a code, answer a replay, revoke a token, verify a token |
| gateway: introspection | `gateway/policies/token-introspection.js` | `tokenCache` in memory (5 minutes) | introspect, fill and read the cache |
| gateway: consent validation | `gateway/policies/consent-validation.js` | none; writes `consents.status` when it finds one expired | let a request through or answer 403 |
| gateway: rate limiter | `gateway/policies/rate-limiter.js` | `rateLimitStore` in memory | count, record, refuse, clean up, reset |
| gateway: scopes | `gateway/policies/scope-enforcement.js` | `ENDPOINT_SCOPE_MAP` | match a path with the scopes it needs |
| gateway: audit | `gateway/policies/audit-logger.js` | table `audit_logs` | append, query |
| chain | `gateway/policies/complete-authorization.js` | none | introspection, rate limit, consent, scope, audit, in this order |
| second chain | `gateway/policies/oauth-middleware.js` | none | verify, consent, scope; nothing imports it |
| customer sessions | `auth/customer-authentication.js`, `auth/middleware/` | table `customer_sessions` (30 minutes) | log in, verify, log out, clean up |
| clients | `auth/oauth/client-registration.js`, `apps/developer-portal/portal-api.js` | table `oauth_clients` | register, verify credentials |
| clients' secrets | `auth/oauth/vault-integration.js` | HashiCorp Vault, over HTTP | store, retrieve, rotate, delete |
| secrets | `vault/configuration/` | secret cache (5 minutes) and `loadedSecrets` in memory | get, invalidate, clear, load, reload |
| banking API | `apps/banking-api/accounts-api.js` | tables `accounts`, `transactions` (read only) | list, one account, balance, pages of transactions |
| portal pages, demo apps | `apps/` | none | static pages; mock servers |
| logger | `utils/logger.js` | none | formatting |

### Interaction

Everything meets in one PostgreSQL database. Every `query(...)` is a statement of
its own on a pooled connection: nothing in the repository opens a transaction, so
each `await` is a point where any other call may run, and a call that throws leaves
what it wrote. Three rows are read in one statement and written, by identifier
alone, in a later one: a consent's status, a code's `used` flag, and an
authorization request. The token cache, the rate-limit store and the secret cache
are memory of one process; code between two `await`s is atomic with respect to them.

### What is hard

- *Read, then write.* Decision, revocation, batch expiry and the gateway's own
  expiry all move `consents.status` without a condition in the UPDATE.
- *Overlap.* Two decisions on one request; two exchanges of one code; a replay
  answered between "mark used" and "store token"; an introspection that fills the
  cache after the revocation it did not see.
- *Half-done work.* Consent approved but no code; code used but no token; consent
  revoked but its tokens not; a replay answered although the UPDATE of the tokens failed.
- *Time.* JavaScript lets a row live through its last instant (`now > expires_at`
  is expired), SQL does not (`expires_at > CURRENT_TIMESTAMP` is live); JWT expiry
  is a third rule (`now >= exp` is expired).
- *Memory beside the database.* Cached verdicts outlive what they were about, and
  are lost on a restart.
- *Shared counters.* Limiters with different windows share one store, and reading
  the count rewrites it.
- *A check and then the use.* A session is read, then touched, then used; the customer
  may log out or be suspended at each `await`.
- *Many reads, one result.* A load of the secrets awaits one after the other while
  they are rotated; an API answer is put together from several queries while the bank
  books; a walk through the pages spans many requests.
- *Lost answers.* A registration, or a rotation over HTTP, may have taken effect when
  its caller is told it failed; the audit entry of a served request is sent and forgotten.

### What makes each part correct

| part | property |
|---|---|
| consent manager | approval is given once and never comes back; a denial stands; each row follows the diagram of a consent's life |
| consent handler | a code carries exactly what a consent of its own customer and client grants; a request is answered once; a decision that got past its checks is carried out; a revocation ends the approval |
| token exchange | a token carries what its code's consent grants; one token per code; a replay whose UPDATE took effect leaves no good token; a used code buys a token |
| gateway | a request that comes after its consent ended never reaches the banking API; what is served rests on a granted scope; what the cache forgets of a dead token it never learns again; a cached refusal that says revoked or expired is deserved, and without failing queries nobody is told a good token is invalid; what is logged of a consent is true; every request is answered and logged |
| rate limiter | no more than `limit` requests in any window; no refusal before that |
| sessions | a request that comes after its session ended is never taken for the customer; nothing but log-out, time or the bank ends a session |
| clients | a client is let in only with a secret its own developer was given; a rotation keeps the trail of dates |
| secrets | what the cache serves was current within a bound; the loaded secrets are never incomplete; a reload takes up nothing that was already replaced |
| banking API | answers keep to the customer's own accounts; sums and counts agree one way; following `has_more` ends and loses nothing |

## 2. Modules

| module | what it is | composed from |
|---|---|---|
| `Tables` | the four tables, the clock and the expiry tests | |
| `ConsentLifecycle` | abstract: the life of a consent | |
| `ConsentFlow` | authorization requests, consent handler, consent manager, the routes' session check | `Tables`, instance of `ConsentLifecycle` |
| `TokenExchange` | code exchange, replay, token revocation | `Tables` |
| `AuthServer` | the authorization server | `ConsentFlow`, `TokenExchange` |
| `Gateway` | both chains of `complete-authorization.js`: token cache, `verifyAccessToken`, the limiter's answer, `validateConsent`, scopes, audit, restarts | `Tables` |
| `OpenBanking` | the whole path | `AuthServer`, `Gateway` |
| `RateLimiter` | the rate-limit store and all limiters over it | |
| `CustomerSession` | sessions and the three middlewares that ask for one | |
| `ClientRegistry` | registration, credentials, and the vault that keeps secrets | |
| `Secrets` | `SecretCache`, `getSecret`, `loadSecrets` over a backend that changes | |
| `AccountsApi` | the banking API's handlers and an application that reads page after page | |
| `MC...` | constants and symmetry for TLC | the module named |
| `ConsentFlow_proofs`, `AuthServer_proofs`, `OpenBanking_proofs` | theorems of the path, each about more of it | the module named and the proofs before it, `TLAPS` |
| `RateLimiter_proofs`, `CustomerSession_proofs`, `ClientRegistry_proofs`, `Secrets_proofs`, `AccountsApi_proofs` | theorems | the module named, `TLAPS` |

The last five models stand alone because they share no state with the rest but its
outcome: `ConsentFlow` takes any customer, or none, for the outcome of
`CustomerSession`; `Tables` takes the registered clients as constants; the gateway
hands a request to `AccountsApi` and waits for its answer.

### How state corresponds to code

- A table is a function from identifiers to rows; `None` is a row that does not
  exist yet and `Deleted` a deleted authorization request (identifiers are random
  and never come again). A row keeps the columns some guard reads. A scope string
  is the set of scopes it lists.
- A call of an `async` handler is a *worker*: a record with the local variables
  that live across an `await`, and `pc`, the statement it runs next. `None` is an
  idle worker, so a worker is reused and the number of workers bounds only how many
  calls overlap. One action is one statement with the synchronous code up to the
  next. A handler that returns early, with an error that changes nothing, is no
  step at all.
- Reads of columns nothing changes are joined to the neighbouring statement: the
  client and its lists (`validateClientCredentials`, `validateClientAndRedirectUri`),
  the owner of a consent (`getConsent`, re-read in `revokeConsent`).
- `FailDecision`, `FailRevocation`, `FailExchange`, `FailVerify` and `FailValidate`
  are the handlers' `catch` blocks, or the process going down; `FailExchange` is also
  the one in `revokeTokensByCode`, after which the replay is answered as if nothing had
  happened; `Restart` empties the gateway's memory. `Faults` switches them on. In
  `ClientRegistry` a failure may also be a write that took effect and whose answer was
  lost.
- History variables: `redirected` (which request's redirect carried a code), `minted`
  (which code a token came from), `invalidated` (codes used again whose tokens that use
  really revoked: a replay answered although its UPDATE failed is not among them),
  `late` in an API request (the consent was no longer good on arrival), `passed`,
  `serial` and `refusal` in `RateLimiter`; `late` and `loggedOut` in `CustomerSession`;
  `handed`, `accepted` and three fields of the vault's credentials in `ClientRegistry`;
  `retired`, `alone` and `stale` in `Secrets`; `before` in `AccountsApi`. No guard of
  the code's reads them, except that one can present only a code or a secret one was
  given (`redirected`, `handed`) and that `serial` carries a bound.
- The clock is one counter for JavaScript and SQL. The 10-minute, 90-day, 1-hour and
  5-minute lifetimes are constants (`RequestTTL`, `ConsentTTL`, ...) and no order
  among them is assumed.

| action | code |
|---|---|
| `Authorize` | `handleAuthorizationRequest`, the row of `createAuthorizationContext` |
| `BeginDecision` | `handleConsentDecision` up to its first write: lookup by id and customer, expiry, partial grant |
| `FindActiveConsent` | `findActiveConsent` and the choice to reuse |
| `CreateConsent`, `VerifyPending`, `ExpirePending`, `ApproveConsent`, `DenyConsent` | `createConsent`, and the SELECT and UPDATEs of `approveConsent` and `denyConsent` |
| `InsertCode`, `DeleteRequest` | the INSERT of the code; the DELETE of the request, then the redirect |
| `BeginRevocation`, `VerifyApproved`, `RevokeConsent`, `RevokeTokens` | `getConsent`; the SELECT and UPDATE of `revokeConsent`; the UPDATE of the tokens |
| `ExpireOldConsents` | the batch job `expireOldConsents` |
| `PresentCode`, `MarkCodeAsUsed`, `GenerateTokens`, `RevokeTokensByCode`, `RevokeToken` | `validateAuthorizationCode` and the calls after it; `POST /oauth/token/revoke` |
| `Arrive`, `ArriveWithoutToken`, `VerifyToken`, `TouchToken` | `gatewayTokenIntrospection` with the cache; the SELECT and UPDATE of `verifyAccessToken` |
| `WithinLimit`, `OverLimit` | the outcome of `rateLimitMiddleware` |
| `ValidateConsent`, `CheckConsentStatus`, `ExpireConsent` | the SELECT of `validateConsent`, that of `checkConsentStatus`, and the UPDATE both make |
| `EnforceScope`, `LogDeniedRequest`, `LogAllowedRequest` | `enforceEndpointScopes`, or `requireEndpointScope` with `requireConsentScope`; the two INSERTs of `audit-logger.js` |
| `LetPass`, `Refuse`, `Status`, `Cleanup`, `Reset`, `ResetAll` | a limiter's two answers; `getRateLimitStatus`; `cleanup`; `resetRateLimit`; `resetAllRateLimits` or a restart |
| `FindCustomer`, `CreateSession` | the SELECT and the INSERT of `authenticateCustomer` |
| `Arrive`, `SelectSession`, `TouchSession` (of `CustomerSession`) | a middleware, and the SELECT and UPDATE of `verifyCustomerSession` |
| `Logout`, `Cleanup`, `Suspend`, `Reactivate` | `logoutCustomer`; `cleanup_expired_sessions()`; the bank changes `customers.status` |
| `BeginRegistration`, `InsertClient`, `Verify`, `TouchClient` | `registerClient`; the SELECT and UPDATE of `verifyClientCredentials` |
| `Store`, `BeginRotation`, `WriteRotation`, `Delete` | `storeClientCredentials`; the GET and the POST of `rotateClientSecret`; `deleteClientCredentials` |
| `AskBackend`, `GetAnswered`, `InvalidateSecret` | `getSecret` before and after its `await`; `invalidateSecret` |
| `BeginLoad`, `FetchNext`, `FetchAnswered`, `FetchFailed`, `FinishLoad` | `initializeSecrets` or `reloadSecrets`, one `await` of `loadSecrets` after the other, and its end |
| `Ask`, `SelectAccount`, `SumBalance`, `CountTransactions` | the first three handlers of `accounts-api.js`, query by query |
| `AskPage`, `SelectOwnAccount`, `SelectPage`, `CountMatching`, `AskNextPage` | the handler of the pages, and the application that follows `has_more` |

`consent-routes.js:35` tests the verdict of `verifyCustomerSession` for being there,
not for being valid. A revocation may thus run with no customer, and `getConsent`
filters by customer only when there is one: `Callers` holds `None` for such a call.
A decision with no customer finds no request (`customer_id = NULL` matches nothing).

## 3. What the runs show

| run | instance | shows |
|---|---|---|
| `ConsentRaces` | 1 request, 2 scopes, 2 overlapping decisions with partial grants, 1 revocation, 2 consents, faults | the inductive invariant `FlowInv`, of which `CodeBacked` is a part; `NeverResurrected`; `LifecycleSpec` (refinement of `ConsentLifecycle`) |
| `ExchangeRaces` | 2 overlapping exchanges, 2 scopes, 1 decision, 1 revocation, no faults, fairness | `TokenBacked`; `UsedCodeBuysToken`, `DecisionUsesRequest`, `RevocationSticks` |
| `OpenBanking` | whole path, 4 endpoints in both chains, 1 API request at a time, faults and restarts, a token that outlives its consent | the inductive invariant `BankInv`, of which `ServerInv` is a part; `ReplayRevokes`; `NoAccessWithoutConsent`, `RefusalsDeserved`, `ReasonsTrue`, `ServedAsGranted`; `LifecycleSpec`, now with the gateway's own expiry |
| `GatewayRaces` | whole path, 2 overlapping API requests, no faults, fairness | `NoAccessWithoutConsent`, `InvalidTokensDead`, `DeadTokenStaysOut`, `RequestsAudited` |
| `RateLimits` | 2 clients, 2 limiters of windows 2 and 3 | `RateInv` (with `WindowKept`), `RefusedAtLimit` |
| `Sessions` | 2 customers, 2 sessions, 1 log-in, 1 request, faults | the inductive invariant `SessionInv`; `NoLateAuthentication`; `SessionKept` |
| `Secrets` | a required and an optional secret, 1 `getSecret` beside 1 load, 2 writes, faults | the inductive invariant `SecretsInv`; `BoundedStaleness`, `NeverIncomplete`, `ReloadFresh` |
| `Accounts` | 1 customer with two accounts and 1 without, 3 transactions on 2 dates, limits absent, -1, 0 and 1, faults, fairness | the inductive invariant `AccountsInv`; `ReadsCover`, `WalkComplete`, `WalkEnds` |
| `Clients` | 2 clients, 2 overlapping calls, 3 secrets, lost answers | the inductive invariant `RegistryInv`; `OwnSecretsOnly`, `RotationTrail` |
| `DoubleExchange` | 2 overlapping exchanges | *violated:* `OneTokenPerCode` |
| `TokenAfterRevocation` | 1 exchange, 1 revocation | *violated:* `RevocationInvalidates` |
| `DoubleDecision` | 2 overlapping decisions | *violated:* `OneCodePerRequest` |

Deadlock is checked in `Secrets` and `Clients`, where the backend and the vault can
always be changed. Elsewhere the clock stops at `MaxTime`, identifiers or rows run
out, and a system nobody calls rests.

### Bounds, and why they are enough

- `MaxTime` is 2 or 3 with lifetimes of 0 to 3 (in `RateLimits` 4 with windows of 2
  and 3), so every row is seen before, at and
  after the instant of its expiry, in each of the three rules. Two rows that expire
  at different moments need `MaxTime = 2`.
- Every race here is between two read-then-write sequences over one row, so two
  workers of the kind that races are enough; a third repeats one of the two.
- `ConsentRaces` needs two consents, one per decision, and two scopes: a decision that
  reuses the consent of the other for fewer scopes must put all that was granted into the
  code. Its request is good at the instant of its making only, so both decisions begin
  then and go on while the clock moves. One client is enough to race; that a consent of
  another client is never reused is proved (`CodesBacked`).
- `OpenBanking` has one exchange at a time, for `ReplayRevokes`: it is false once
  exchanges of one code overlap (section 4), and proved as long as they do not
  (`ReplaysRevoke`). No run cuts states away with a constraint.
- `ExchangeRaces` gives consents a lifetime of 3, beyond the clock: a decision whose
  consent expires while it is being approved stops on purpose (`ExpirePending`), and
  90 days do not pass within a call. It has two scopes, for partial grants.
- `OpenBanking` lets the token (2) outlive consent and cache entry (1). Its endpoints
  are one that takes the granted scope, one that takes another, one in the chain with
  explicit scopes, where the consent is asked for the first of two, and one in no map.
- `GatewayRaces` adds the second API request and pays with the lifetimes: rows and
  cache entries live through the instant of their making only, the token for one unit,
  and the clock ends at 1. That is enough for an introspection to
  span the expiry, for the cache to be filled after it and after a revocation, and
  for an entry to be forgotten while another request still holds its token.
- `RateLimits` has a standard window of twice `DefaultWindow`, the longest `cleanup`
  allows, and a custom limiter with option 0 for its limit, which counts as the default.
- `Sessions` has one request because requests only read sessions and never each other;
  two sessions and two customers, for one that could be taken for the other.
- `Secrets`: `MaxFlight`, the longest a backend takes to answer, is an assumption on
  time. Without one nothing bounds how old an answer is, for `getSecret` has no timeout.
  Two writes make a value, its successor and a removal.
- `Accounts` has three rows because a page of one, a row booked before it and a row
  after it show every shift of an offset.
- Symmetry is used over identifiers and workers, and never in a run with a liveness
  property; nor in `GatewayRaces`, `Secrets` and `Accounts`.

### Fairness

A worker in flight has sent a query, and the pool answers it or throws: weak fairness
per worker (`FlowFairness`, `ServerFairness`, `BankFairness`, `AccountsFairness`),
which is all Node's event loop and the database give. `AccountsFairness` also lets the
application ask for the next page, for the promise is about one that does. Nothing is
assumed of customers, of the batch job, of the bank or of the clock. With faults a
decision, an exchange or an API request may always end early, so those liveness
properties are checked without them: they say the interleavings alone cannot stop the
work. `WalkEnds` is checked with them.

## 4. Where the code and its documents part

Three differences are carried as runs; each run's trace is the argument.

- `DoubleExchange`: `validateAuthorizationCode` reads `used`, `markCodeAsUsed` sets it
  in a later statement with no condition, so two exchanges of one code both get a
  token; `docs/oauth-authorization-flow.md:198` says single-use only.
- `DoubleDecision`: a decision reads its request at the beginning and deletes it at the
  end, so two overlapping ones both answer with a code; the comment at
  `consent-handler.js:347` says *single use*.
- `TokenAfterRevocation`: the exchange never looks at the consent, so a code kept until
  after the revocation buys a token that is not revoked; `docs/consent-revocation.md:11`
  says all associated tokens are invalidated. The consent check in the gateway still
  stops such a token (`NoAccessWithoutConsent`).

Divergences not carried as runs, visible in the models. First those that limit what a
property says:

- A replay does not always invalidate the tokens of its code, which
  `docs/oauth-authorization-flow.md:298` and `docs/token-exchange.md:308` promise.
  `revokeTokensByCode` catches the error of its own UPDATE (`token-exchange.js:550-552`),
  and the replay is answered as ever with the tokens still good; and a replay answered
  between `MarkCodeAsUsed` and `GenerateTokens` revokes the tokens there are, and the
  token of the first exchange comes after it, good. `ReplayRevokes` says what is left:
  once the UPDATE took effect, and while exchanges of the code do not overlap, no token
  of it is or becomes good.
- A rotated secret does not work: `rotateClientSecret` changes the vault alone
  (`vault-integration.js:201-220`), and the hash in `oauth_clients`, which decides, is
  never rotated. `auth/oauth/CLIENT_REGISTRATION.md:247-255` has the developer take the
  new secret into use and the old one end after 24 hours. `OwnSecretsOnly` says whose
  secrets may let a client in and leaves open which of them do.
- A query that throws is cached as a refusal for the whole ttl and answered 401
  `invalid_token` (`token-introspection.js:81`); `docs/gateway-introspection.md:140` says
  500 `server_error`. Without failing queries `InvalidTokensDead` holds.
- `requireConsentScope` answers 403 without an audit entry (`consent-validation.js:301`);
  `docs/audit-logging.md:9` promises exactly one event per protected request.
  `RequestsAudited` says what is left.
- Whoever counts by a shorter window cuts the shared list short (`rate-limiter.js:73`),
  so a limiter with a longer one lets more than its limit pass;
  `docs/rate-limiting.md:156` speaks of the maximum allowed in the window. `WindowKept`
  says what is left: the shortest window keeps its limit.

Then the others:

- `findActiveConsent` looks at the newest consent only (`consent-manager.js:323`), so an
  older one that suffices is not reused; `docs/consent-model.md:104`.
- `docs/consent-model.md:46-48` calls revoked and expired terminal; a revocation that
  had read *approved* overwrites *expired*, and the gateway's expiry overwrites
  *revoked*. `ConsentLifecycle` says what is left: neither leads back to approval.
- A code can be stored after its consent was revoked (`docs/consent-model.md:218`).
- Nothing calls `invalidateToken` (`token-routes.js:236`), so a revoked token stays
  active in the cache; `docs/gateway-introspection.md:185`. `DeadTokenStaysOut` says
  what is left: once forgotten it does not come back.
- A cached token passes introspection after its `exp` (`docs/gateway-introspection.md:137`);
  after a complete revocation the answer is 401 and not 403 (`docs/consent-revocation.md:12`).
- An expired token is logged as `invalid_token`: `verifyAccessToken` answers that for
  every token it refuses (`token-exchange.js:645-649`), so the branch for `expired_token`
  (`token-introspection.js:167`) is never taken; `docs/audit-logging.md:45`,
  `docs/demo.md:257`, `docs/api.md:873`.
- The audit entry of a served request is an INSERT nobody waits for, so that
  `RequestsAudited` is checked without faults.
- With an explicit list of scopes the token needs any one of them, the consent the first.
- Sessions have a fixed lifetime; `docs/oauth-authorization-flow.md:137` speaks of
  inactivity and `auth/CUSTOMER_AUTHENTICATION.md:102` of renewal on activity. Sessions
  of a suspended customer count again once the customer is reactivated.
- A rotation that overlaps another, or a deletion, loses or undoes it: `RotationTrail`
  is about those that do not overlap.
- A registration whose answer is lost leaves a client whose secret nobody knows.
- Overlapping reloads of the secrets can end with the older values loaded, which is why
  `ReloadFresh` is about a reload that begins with nothing in flight.
- A route under two limiters records each request twice in the store they share.
- `accounts-api.js` names columns the schema does not have: `opened_date` and
  `closed_date` of accounts (002 has `opened_at`, `closed_at`), `transaction_date` and
  `category` of transactions (003 has `timestamp`, `merchant_category`). Against the
  committed schema those queries throw and the handler answers 500; `AccountsApi` takes
  the tables to have the columns the queries name. Its ORDER BY does not tell rows of
  one instant apart, so two pages may both miss such a row (`Tied`).

Not state, but met on the way: `data/db.js`, which several files require, does not
exist; `gateway/policies/scope-enforcement.js:154` and `token-introspection.js:282`
use `await` in functions that are not `async`; `getAuditStatistics` nests aggregates;
the portal's GET /apps selects a column `granted_scopes` that is not there, and its
POST /register answers with an undefined one; two schema files create `consents` (the
models take 008); no server mounts these routers; `expireOldConsents`,
`cleanupExpiredSessions`, `checkConsentStatus`, `clearTokenCache` and all of
`vault-integration.js` have no caller outside the tests. The models take the parts as
they are meant to be mounted: `completeAuthorization` in front of the API, the routers
in the authorization server, the batch jobs and the vault's operations at any time.

## 5. What is proved

`ConsentFlow_proofs` (any customers, clients, scopes, identifiers, lifetimes, any
number of workers, with or without faults):

- `FlowInvariant`: `FlowSpec => []FlowInv`.
- `CodesBacked`: `FlowSpec => []CodeBacked`.
- `ImplementsLifecycle`: `FlowSpec => LifecycleSpec`.
- `SettledForGood`: `FlowSpec => NeverResurrected`.

`CodeBacked` is not inductive. A code is stored from a worker's memory, so the worker
must hold a consent that grants it (`CodeCallBacked`); that consent was approved by
the same worker in an UPDATE without a condition, so the row must still be pending
there, belong to the request's customer and client, and be nobody else's
(`PendingOwned`: this is what makes the unconditional UPDATEs of `approveConsent`
and `denyConsent` harmless); a reused consent must have granted something
(`ApprovalGrants`), because "approved, then expired" is told from "expired while
pending" by that alone; and a revocation past its check must be of a consent that was
approved (`RevocationOfApproved`), or its UPDATE would turn a pending row into a
revoked one. The proofs have one lemma per action for types, one per action for the
invariant, and one per action for the abstract step it is.

The refinement maps each consent's row to its status (`StatusOf`). Each UPDATE is one
abstract move, the batch job is `ExpireBatch`, everything else is a stutter.
`NeverResurrected` then follows from the abstract moves.

`AuthServer_proofs` (as above, with any number of exchanges and tokens):

- `ServerInvariant`: `ServerSpec => []ServerInv`.
- `TokensBacked`: `ServerSpec => []TokenBacked`.
- `ServerImplementsLifecycle`: `ServerSpec => LifecycleSpec`.

`TokenBacked` speaks of tokens and codes, so it needs what `FlowInv` says of codes
(`CodeBacked`), and that the rows an exchange works on are really there: the code a call
was checked with is stored, and used up before the token is made (`ExchangeOfCode`); a
code in a client's hand was stored (`CodesInHandStored`); and that in turn because a
decision that is about to answer has stored its code (`AnswerIsStored`). A step of the
flow keeps what was approved (`Kept`), codes as they are and tokens but for being
revoked; a step of the exchange may mark a code used (`CodesKeepTerms`), no more; either
way a token that was backed stays so (`StaysBacked`), and `GenerateTokens` alone adds one.
Nothing in it depends on exchanges not overlapping: two tokens for one code are both
backed. How often a code is used is another matter:

- `CodesSingleUse`: `ServerSpec /\ []ExchangesApart => []OneTokenPerCode`.
- `ReplaysRevoke`: `ServerSpec /\ []ExchangesApart => []ReplayRevokes`.
- `RequestsSingleUse`: `ServerSpec /\ []DecisionsApart => []OneCodePerRequest`.
- `CallsInTurn`: with both, `[]InTurn`.

Without the hypotheses the conclusions are false (`DoubleExchange` and `DoubleDecision`;
for `ReplayRevokes` see section 4). They are not facts of the code. With them the theorems
say what goes wrong in it: any number of exchanges may overlap, fail or be retried, and a code yields two tokens only if two
exchanges of *that* code are in flight at once; likewise for decisions on one request.
`ReplaysRevoke` is about replays whose UPDATE took effect (`invalidated`): of one that was
answered although its UPDATE failed, it says nothing. `OneTokenPerCode` is not
inductive: between the check of `used` and the UPDATE the code must still be unused, and
between the UPDATE and the token there must be neither a token nor a replay that revoked
(`ExchangesInTurn`), which is what another exchange of the same code would break.
Likewise the request of a decision in flight must still be there, and one that was
answered must be deleted (`DecisionsInTurn`).

`OpenBanking_proofs` (as above, with any number of API requests, any endpoints, any
lifetime of a cache entry, with restarts):

- `BankInvariant`: `BankSpec => []BankInv`.
- `RevocationHolds`: `BankSpec => []NoAccessWithoutConsent`.
- `CachedRefusalsDeserved`: `BankSpec => []RefusalsDeserved`, of cached refusals that say
  revoked or expired; one cached after a failed query says neither.
- `DenialsTrue`: `BankSpec => []ReasonsTrue`, of the reasons about the consent.
- `ServiceGranted`: `BankSpec => []ServedAsGranted`, of endpoints that take a scope; one
  in no map is served without.
- `BankImplementsLifecycle`: `BankSpec => LifecycleSpec`.
- `SettledOnThePath`: `BankSpec => NeverResurrected`.
- `PathInTurn`: `BankSpec /\ [](ExchangesApart /\ DecisionsApart) => []InTurn`.
- `DeadTokensStayOut`: `BankSpec => DeadTokenStaysOut`.
- `DeadTokensRefused`: `~Faults` implies `BankSpec => []InvalidTokensDead`. The hypothesis
  is needed: see section 4.

`NoAccessWithoutConsent` speaks of requests already let through. To rule them out, a
request that came late must not be past the gateway's look at its consent, and must fail
it whenever it comes (`LateForGood`): the consent is not approved, or is past its end,
and stays so. A request must also be about the token and the consent it came with
(`RequestsOfTokens`), though the cache answers for the token and may be filled by
another request; an entry that says *revoked* or *expired* must be of such a token, also
when it is served again (`CacheDeserved`), and a consent must be expired only when it is
overdue (`ExpiredOverdue`), or the logged reasons could be false. All of it rests on one
fact about the tables: every step, of the authorization server, of the gateway or of the
clock, takes them `Onward` (tokens keep their terms and are revoked once and for all,
consents do not come back, time does not go back). That is proved once per action, and
with it whatever holds of a request (`Sound`) or of a cache entry survives every step of
anybody else; a step of the gateway has only its own request left to look at. The
gateway's UPDATE to *expired* is one more move of the abstract life of a consent, so
settled consents stay settled on the whole path too; and as it writes no code, request
or token, the theorems on single use carry over (`PathInTurn`). `DeadTokensStayOut` is
an action property: the cache takes a token for good only from a request that already
does, and a request only from the cache or from a look at the token (`exp`, then the
row) that finds a dead one dead. `DeadTokensRefused` needs that no error is in the cache
(`NoErrorCached`), for then a refusal served from it is one that `CacheDeserved` knows to
be right, and that a token once revoked or expired stays so until its request is answered.

`CustomerSession_proofs` (any customers, sessions, log-ins and requests, any lifetime,
with or without faults):

- `SessionInvariant`: `SessionSpec => []SessionInv`.
- `NoLateAuthenticationHolds`: `SessionSpec => []NoLateAuthentication`.
- `SessionKeptHolds`: `SessionSpec => SessionKept`.

`NoLateAuthentication` speaks of requests already taken for a customer; to rule them
out, a request past its SELECT must not have come late (`RequestsOfSessions`), and one
that came late must fail the SELECT whenever it runs (`LateForGood`), which needs that a
log-out is not undone (`LogoutHolds`) and that no step prolongs a session
(`FixedLifetime`). `LateIsInvalid` joins the three. `Reactivate` is the step that can make
a late request timely, and the reason why `LateForGood` has two cases.

`RateLimiter_proofs` (any clients, limiters, limits and windows):

- `ShortestWindowKept`: `RateSpec => []RateInv`. The store must hold what the shortest
  window has to count (`StoreComplete`), nothing that did not happen (`StoreTrue`), and
  passes must lie in the past and be numbered apart (`PassesNumbered`), so that one
  more pass is one more in the count.
- `NoEarlyRefusal`: `RateSpec => RefusedAtLimit`.

`ClientRegistry_proofs` (any clients, any number of secrets and overlapping calls, with
or without lost answers):

- `RegistryInvariant`: `RegistrySpec => []RegistryInv`.
- `OwnSecretsOnlyHolds`: `RegistrySpec => []OwnSecretsOnly`.
- `RotationTrailHolds`: `RegistrySpec => []RotationTrail`.

A developer is told a secret by the answer of a registration or of a rotation, and no
step but a check of credentials lets a client in, with the secret of its row; so
`OwnSecretsOnly` needs that a check that found its hash remembers the right one until it
answers (`TouchesRight`), and that a secret is of one client only (`SecretsApart`), which
`InsertsFresh` keeps while a registration is between hashing and INSERT. That the secret
of a rotation is one of those let in is what the code does not keep (section 4).
`RotationTrail` needs that a rotation that still waits for its POST carries the dates of
what its GET read (`WritesDated`).

`Secrets_proofs` (any secrets, any number of readers and loads, any backend that
answers within `MaxFlight`):

- `SecretsInvariant`: `SecretsSpec => []SecretsInv`.
- `StalenessBounded`: `SecretsSpec => []BoundedStaleness`.
- `LoadedComplete`: `SecretsSpec => []NeverIncomplete`.
- `ReloadsFresh`: `SecretsSpec => []ReloadFresh`.

A value is written once and replaced once (`VaultWritten`), so "stale since" is a date.
An answer in flight was current when its call was made or later, no longer than
`MaxFlight` ago (`AnswersDated`); so the entry it becomes ends at most its lifetime and
one flight after its value was replaced (`EntriesDated`), which is the bound. A load has
fetched a beginning of `LoadOrder` (`LoadsInOrder`), so one that reaches the end has
every required secret: the assumption is that `LoadOrder` names all of them, as
`secrets-loader.js:61-75` does. A reload that began alone holds nothing that was already
replaced, and neither does anything it could take up (`ReloadsClean`): it began with the
cache empty and nothing in flight, and a replaced value is in no backend any more.

`AccountsApi_proofs` (any customers, accounts, dates and limits, any number of requests,
any bookings between two queries, with or without faults):

- `AccountsInvariant`: `AccountsSpec => []AccountsInv`.
- `SumsAndCountsCover`: `AccountsSpec => []ReadsCover`.
- `WalksLoseNothing`: `AccountsSpec => []WalkComplete`.

The table of transactions only grows, which settles sums and counts (`SumsCover`): the
later query sees what the earlier one saw. A walk through the pages is harder, because a
booked row shifts every offset. Rows only ever move to later pages, so a row that was
there at the beginning and has not been read still has, among the rows that sort before
it, as many as the offset has passed (`PagesOnTrack`, with `Ahead` and `MissingFrom`).
A page that is full moves the offset by its length and a row that is not on it stays
ahead; a page that is not full, or a count that `has_more` finds reached, leaves no such
row: both are arguments about cardinalities of the sets of rows before and after. Rows
that tie in the ORDER BY are excluded (`Tied`), as in the property.

The assumptions are those named in the modules: limits and lifetimes are natural
numbers, client lists have their types (`TablesAssumption`, `LimiterAssumption`), and
`None` and `Deleted` are no rows, identifiers or calls (`SentinelAssumption`,
`CallAssumption`, `ExchangeAssumption`, and one in each other module). TLC evaluates each
of them in a passing run.

Only model-checked: the liveness properties (`UsedCodeBuysToken`, `DecisionUsesRequest`,
`RevocationSticks`, `RequestsAudited`, `WalkEnds`). Liveness under fairness is beyond the
prover. Every invariant and every action property of a passing run is a theorem (`ReplayRevokes`
under the hypothesis that exchanges of one code do not overlap, which one exchanger gives;
`InvalidTokensDead` without faults, as in its run). `OneTokenPerCode`, `OneCodePerRequest`
and `InTurn` are proved under their hypotheses and are in no passing run.

## 6. What is left out, and why

- *Columns and values* no guard reads: texts, addresses, timestamps of approval of
  denied rows, `state`, refresh tokens (stored, never accepted by any route),
  `use_count`, `last_used_at`, the random identifiers themselves (fresh ones are model
  values), amounts of money (a sum or a count stands for the set of its rows).
- *JWT signatures*: a token that verifies is a row of `access_tokens`, because tokens
  are stored when they are signed. A token the server never issued, or a malformed one
  (`validateTokenFormatMiddleware`), is refused at the first step and changes nothing
  but its own cache entry.
- *Hashes*: a bcrypt hash is told apart by the secret it is of.
- *Registered clients* do not change after registration (`ClientRegistry`), so the other
  models take them as constants; inactive ones are refused everywhere and are not in
  `Clients`.
- *The limiter's count* in the gateway: there it may let any request through or refuse
  it, so that what the gateway promises holds whatever is counted.
- *Paths*: `normalizeEndpointPath` is taken by its outcome, an entry of the map or none.
- *Operations that only read or look at the request*: the listings of consents, clients
  and stored credentials, `batchCheckConsentStatus`, `queryAuditLogs`,
  `getAuditStatistics`, `getSecret` without the cache (`secretExists`, `healthCheck`),
  `preventOAuthClientAuth`.
- *Backends of secrets*: every one reads the value when asked, and falls back to the
  environment.
- *`createAuthorizationChain`*, whose options leave out or exchange middlewares of the
  chain: the two chains with fixed steps are modelled.
- *`oauth-middleware.js`*: nothing imports it, and its steps are the gateway's without
  cache and audit. *`apps/banking-api/server.js`*, *portal pages and demo apps* are mocks
  or pages that call none of these modules. *Logger* formats.

## 7. Plan

Done, in this order: `Tables`, `ConsentFlow` with `ConsentLifecycle`, its proofs,
`TokenExchange` and `AuthServer`, `Gateway` and `OpenBanking`, `RateLimiter` and its
proofs; `CustomerSession`, `AccountsApi`, `Secrets`, `ClientRegistry`, the whole chain in
`Gateway`, the proofs of `CustomerSession` and of `AuthServer`; the theorems on single
use, and the proofs of `OpenBanking`, `ClientRegistry`, `Secrets` and `AccountsApi`.

Left, for models: `oauth-middleware.js`, should anything come to import it.
