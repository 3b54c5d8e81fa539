---------------------------- MODULE TokenExchange ----------------------------
(***************************************************************************)
(* The token side of the authorization server:                             *)
(*   auth/oauth/token-exchange.js  exchanges a code for an access token,   *)
(*   auth/oauth/token-routes.js    POST /oauth/token, /oauth/token/revoke. *)
(*                                                                         *)
(* exchangeAuthorizationCode checks the client (a read of static columns), *)
(* reads the code, marks it used, and stores a token, each in a statement  *)
(* of its own.  A call runs as a worker like those of ConsentFlow.         *)
(***************************************************************************)
EXTENDS Tables

CONSTANT
  Exchangers    \* concurrent calls of exchangeAuthorizationCode

VARIABLES
  exchanges,    \* exchanger -> its call in flight, or None
  minted,       \* history: token -> the code it was exchanged for
  invalidated   \* history: codes used again whose tokens the UPDATE of
                \* revokeTokensByCode reached

tokenVars == <<exchanges, minted, invalidated>>

ExchangeCall == [pc : {"mark", "mint", "replay"}, code : CodeIds]

ASSUME ExchangeAssumption == None \notin ExchangeCall

TokenTypeOK ==
  /\ exchanges \in [Exchangers -> ExchangeCall \cup {None}]
  /\ minted \in [TokenIds -> CodeIds \cup {None}]
  /\ invalidated \subseteq CodeIds

TokenInit ==
  /\ exchanges = [x \in Exchangers |-> None]
  /\ minted = [t \in TokenIds |-> None]
  /\ invalidated = {}

InExchange(x, pc) == exchanges[x] # None /\ exchanges[x].pc = pc

EndExchange(x) == exchanges' = [exchanges EXCEPT ![x] = None]

\* validateAuthorizationCode looks at the tests in this order, and a code
\* that was used is a replay whatever client or redirect URI comes with it.
Usable(code, client, uri) ==
  /\ ~code.used
  /\ ~JsExpired(code)
  /\ code.client = client
  /\ code.uri = uri

\* An authenticated client presents a code that a redirect carried.  A code
\* that is neither usable nor used is refused and nothing changes.
PresentCode(x, k, client, uri) ==
  /\ exchanges[x] = None
  /\ redirected[k] # None
  /\ \/ /\ authCodes[k].used
        /\ exchanges' = [exchanges EXCEPT ![x] = [pc |-> "replay", code |-> k]]
     \/ /\ Usable(authCodes[k], client, uri)
        /\ exchanges' = [exchanges EXCEPT ![x] = [pc |-> "mark", code |-> k]]
  /\ UNCHANGED <<now, tables, redirected, minted, invalidated>>

\* The code after markCodeAsUsed, which does not look at `used` again
Used(code) == [code EXCEPT !.used = TRUE]

\* A slip: the call ends once the code is used
MarkAndStop(x) ==
  /\ InExchange(x, "mark")
  /\ authCodes' = [authCodes EXCEPT ![exchanges[x].code].used = TRUE]
  /\ EndExchange(x)
  /\ UNCHANGED <<now, authRequests, consents, accessTokens, redirected, minted, invalidated>>

\* markCodeAsUsed
MarkCodeAsUsed(x) ==
  LET k == exchanges[x].code IN
  /\ InExchange(x, "mark")
  /\ authCodes' = [authCodes EXCEPT ![k] = Used(authCodes[k])]
  /\ exchanges' = [exchanges EXCEPT ![x].pc = "mint"]
  /\ UNCHANGED <<now, authRequests, consents, accessTokens, redirected, minted, invalidated>>

\* A slip: the client's allowed scopes instead of the code's
TokenForClient(code) ==
  [customer |-> code.customer, client |-> code.client, consent |-> code.consent,
   scope |-> AllowedScopes[code.client], expires_at |-> now + TokenTTL, revoked |-> FALSE]

\* The row generateTokens stores for the code it was given
TokenFor(code) ==
  [customer |-> code.customer, client |-> code.client, consent |-> code.consent,
   scope |-> code.scope, expires_at |-> now + TokenTTL, revoked |-> FALSE]

\* generateTokens stores the token and the call answers with it.
GenerateTokens(x, t) ==
  LET k == exchanges[x].code IN
  /\ InExchange(x, "mint")
  /\ accessTokens[t] = None
  /\ accessTokens' = [accessTokens EXCEPT ![t] = TokenFor(authCodes[k])]
  /\ minted' = [minted EXCEPT ![t] = k]
  /\ EndExchange(x)
  /\ UNCHANGED <<now, authRequests, consents, authCodes, redirected, invalidated>>

\* revokeTokensByCode revokes every token of the code's consent, and the call
\* answers invalid_grant.
RevokeTokensByCode(x) ==
  LET k == exchanges[x].code IN
  /\ InExchange(x, "replay")
  /\ accessTokens' = TokensRevokedFor(authCodes[k].consent)
  /\ invalidated' = invalidated \cup {k}
  /\ EndExchange(x)
  /\ UNCHANGED <<now, authRequests, consents, authCodes, redirected, minted>>

\* The next query of an exchange throws, and the call answers server_error
\* and has used up the code if it had got that far; or the process goes down
\* before any answer.  At a replay revokeTokensByCode swallows the error: the
\* call answers invalid_grant all the same, but the tokens are as good as
\* before, and the code is not among those in `invalidated`.
FailExchange(x) ==
  /\ Faults
  /\ exchanges[x] # None
  /\ EndExchange(x)
  /\ UNCHANGED <<now, tables, redirected, minted, invalidated>>

ExchangeStep(x) ==
  \/ MarkCodeAsUsed(x)
  \/ \E t \in TokenIds : GenerateTokens(x, t)
  \/ RevokeTokensByCode(x)
  \/ FailExchange(x)

\* POST /oauth/token/revoke: the UPDATE names the token and its client, and
\* the answer is 200 whether or not a row matched.
RevokeToken(t, client) ==
  /\ accessTokens[t] # None
  /\ accessTokens[t].client = client
  /\ accessTokens' = [accessTokens EXCEPT ![t].revoked = TRUE]
  /\ UNCHANGED <<now, authRequests, consents, authCodes, redirected, tokenVars>>

TokenNext ==
  \/ \E x \in Exchangers, k \in CodeIds, client \in Clients, uri \in Uris :
        PresentCode(x, k, client, uri)
  \/ \E x \in Exchangers : ExchangeStep(x)
  \/ \E t \in TokenIds, client \in Clients : RevokeToken(t, client)
=============================================================================
