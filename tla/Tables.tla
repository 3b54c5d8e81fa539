------------------------------- MODULE Tables -------------------------------
(***************************************************************************)
(* The PostgreSQL tables that the authorization server and the gateway     *)
(* share: authorization_requests, consents, authorization_codes and        *)
(* access_tokens (data/schema/007 to 010), and the clock by which both     *)
(* JavaScript (`new Date()`) and SQL (CURRENT_TIMESTAMP) judge expiry.     *)
(*                                                                         *)
(* A table is a function from identifiers to rows.  An identifier that the *)
(* random generators have not produced yet maps to None; a deleted         *)
(* authorization request maps to Deleted, so its identifier is never drawn *)
(* again.  A row keeps the columns that some guard reads; a scope string   *)
(* "a b c" is the set of the scopes it lists.  Every statement of the code *)
(* is one query outside any transaction, so one statement is one step.     *)
(***************************************************************************)
EXTENDS Naturals, FiniteSets

CONSTANTS
  Customers,     \* customer_id values
  Clients,       \* registered OAuth clients with status 'active'
  Uris,          \* redirect URIs
  Scopes,        \* OAuth scopes
  AllowedScopes, \* oauth_clients.allowed_scopes
  RedirectUris,  \* oauth_clients.redirect_uris
  RequestIds,    \* identifiers of authorization_requests rows
  ConsentIds,    \* identifiers of consents rows
  CodeIds,       \* authorization codes
  TokenIds,      \* access tokens
  RequestTTL,    \* lifetime of an authorization request: 10 minutes
  ConsentTTL,    \* lifetime of a consent: 90 days
  CodeTTL,       \* lifetime of an authorization code: 10 minutes
  TokenTTL,      \* lifetime of an access token: 1 hour
  MaxTime,       \* bound on the clock
  Faults,        \* may a query throw, or the process die, between two steps?
  None,          \* SQL NULL, a row that does not exist, no call in flight
  Deleted        \* a row that was deleted

VARIABLES
  now,           \* the clock
  authRequests,  \* table authorization_requests
  consents,      \* table consents
  authCodes,     \* table authorization_codes
  accessTokens,  \* table access_tokens
  redirected     \* code -> the authorization request whose redirect carried
                 \* it to the client; None while no client has the code

tables == <<authRequests, consents, authCodes, accessTokens>>

ScopeStrings == (SUBSET Scopes) \ {{}}

\* consents.status; 'pending', 'approved', 'denied', 'revoked', 'expired'
\* is the CHECK constraint of the table.
Statuses == {"pending", "approved", "denied", "revoked", "expired"}

AuthRequest == [customer : Customers, client : Clients, uri : Uris,
                scope : ScopeStrings, expires_at : Nat]

Consent == [customer : Customers, client : Clients,
            requested : ScopeStrings, granted : SUBSET Scopes,
            status : Statuses, expires_at : Nat, approved_at : Nat]

AuthCode == [customer : Customers, client : Clients, uri : Uris,
             scope : ScopeStrings, consent : ConsentIds,
             expires_at : Nat, used : BOOLEAN]

AccessToken == [customer : Customers, client : Clients,
                consent : ConsentIds, scope : ScopeStrings,
                expires_at : Nat, revoked : BOOLEAN]

ASSUME TablesAssumption ==
  /\ AllowedScopes \in [Clients -> SUBSET Scopes]
  /\ RedirectUris \in [Clients -> SUBSET Uris]
  /\ {RequestTTL, ConsentTTL, CodeTTL, TokenTTL, MaxTime} \subseteq Nat
  /\ Faults \in BOOLEAN

ASSUME SentinelAssumption ==
  /\ None # Deleted
  /\ None \notin RequestIds \cup ConsentIds \cup CodeIds \cup TokenIds
  /\ None \notin AuthRequest /\ Deleted \notin AuthRequest
  /\ None \notin Consent
  /\ None \notin AuthCode
  /\ None \notin AccessToken

TablesTypeOK ==
  /\ now \in Nat
  /\ authRequests \in [RequestIds -> AuthRequest \cup {None, Deleted}]
  /\ consents \in [ConsentIds -> Consent \cup {None}]
  /\ authCodes \in [CodeIds -> AuthCode \cup {None}]
  /\ accessTokens \in [TokenIds -> AccessToken \cup {None}]
  /\ redirected \in [CodeIds -> RequestIds \cup {None}]

TablesInit ==
  /\ now = 0
  /\ authRequests = [r \in RequestIds |-> None]
  /\ consents = [c \in ConsentIds |-> None]
  /\ authCodes = [k \in CodeIds |-> None]
  /\ accessTokens = [t \in TokenIds |-> None]
  /\ redirected = [k \in CodeIds |-> None]

-----------------------------------------------------------------------------
\* The test `new Date() > new Date(row.expires_at)` of the JavaScript code: a
\* row is still good at the very instant it expires.
JsExpired(row) == now > row.expires_at

\* The test `expires_at > CURRENT_TIMESTAMP` of the SQL statements: at that
\* instant the row is no longer good.
SqlLive(row) == row.expires_at > now

\* A slip: the UPDATE that matches no row
NoTokenRevokedFor(c) == accessTokens

\* UPDATE access_tokens SET revoked = true WHERE consent_id = c
TokensRevokedFor(c) ==
  [t \in TokenIds |->
     IF accessTokens[t] # None /\ accessTokens[t].consent = c
       THEN [accessTokens[t] EXCEPT !.revoked = TRUE]
       ELSE accessTokens[t]]
=============================================================================
