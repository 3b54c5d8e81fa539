----------------------------- MODULE AuthServer -----------------------------
(***************************************************************************)
(* The authorization server: ConsentFlow and TokenExchange over the same   *)
(* tables.  A step of one leaves the calls in flight of the other alone.   *)
(***************************************************************************)
EXTENDS ConsentFlow, TokenExchange

serverVars == <<flowVars, tokenVars>>

ServerInit == FlowInit /\ TokenInit

ServerNext ==
  \/ FlowNext /\ UNCHANGED tokenVars
  \/ TokenNext /\ UNCHANGED <<decisions, revocations>>

ServerSpec == ServerInit /\ [][ServerNext]_serverVars

ServerFairness ==
  /\ \A d \in Deciders : WF_serverVars(DecisionStep(d) /\ UNCHANGED tokenVars)
  /\ \A v \in Revokers : WF_serverVars(RevocationStep(v) /\ UNCHANGED tokenVars)
  /\ \A x \in Exchangers : WF_serverVars(ExchangeStep(x) /\ UNCHANGED <<decisions, revocations>>)

FairServerSpec == ServerSpec /\ ServerFairness

ServerTypeOK == FlowTypeOK /\ TokenTypeOK

-----------------------------------------------------------------------------
(* Correctness                                                             *)

\* Every access token was exchanged for a used code and carries what that
\* code's consent grants: same customer, same client, exactly the granted
\* scopes (token-exchange.js:132-137), whatever calls failed half-way.
TokenBacked ==
  \A t \in TokenIds : accessTokens[t] # None =>
    LET token == accessTokens[t] IN
    /\ minted[t] # None
    /\ authCodes[minted[t]] # None /\ authCodes[minted[t]].used
    /\ token.consent = authCodes[minted[t]].consent
    /\ Grants(token.consent, token.customer, token.client, token.scope)

\* docs/oauth-authorization-flow.md:198: a code is single-use, so it yields at
\* most one token.  True while exchanges of one code do not overlap; violated
\* as soon as two do (run DoubleExchange).
OneTokenPerCode ==
  \A t, u \in TokenIds : minted[t] # None /\ minted[t] = minted[u] => t = u

\* docs/oauth-authorization-flow.md:298: attempting to reuse a code
\* invalidates all tokens.  What the code keeps of it: once the UPDATE of
\* revokeTokensByCode took effect, no token of the code is or becomes good.
\* A replay is answered alike when that UPDATE failed, or came before the
\* token of a first exchange still at work; of such a replay the property
\* says nothing, nor of exchanges of one code that overlap.
ReplayRevokes ==
  \A t \in TokenIds : minted[t] \in invalidated => accessTokens[t].revoked

\* docs/consent-revocation.md:11: when a consent is revoked, all associated
\* access tokens are invalidated.  A good token of a revoked consent is then
\* seen only while a revocation of that consent is still running.
RevocationInvalidates ==
  \A t \in TokenIds :
    accessTokens[t] # None /\ ~accessTokens[t].revoked
    /\ consents[accessTokens[t].consent].status = "revoked"
      => \E v \in Revokers : /\ revocations[v] # None
                             /\ revocations[v].consent = accessTokens[t].consent

\* As long as no query throws, a code that was used up has bought a token
\* (markCodeAsUsed runs before generateTokens, token-exchange.js:129-137).
UsedCodeBuysToken ==
  \A k \in CodeIds : (authCodes[k] # None /\ authCodes[k].used)
                       ~> \E t \in TokenIds : minted[t] = k

-----------------------------------------------------------------------------
(* The inductive invariant behind TokenBacked                              *)

\* A call past its checks works on a stored code, used up before the token.
ExchangeOfCode ==
  \A x \in Exchangers : exchanges[x] # None =>
    /\ authCodes[exchanges[x].code] # None
    /\ exchanges[x].pc = "mint" => authCodes[exchanges[x].code].used

\* A client has only codes that were stored, and tokens only from such codes.
CodesInHandStored == \A k \in CodeIds : redirected[k] # None => authCodes[k] # None

\* A decision about to answer with a code has stored it.
AnswerIsStored ==
  \A d \in Deciders : InDecision(d, "delete") /\ decisions[d].action = "approve" =>
    authCodes[decisions[d].code] # None

ServerInv ==
  /\ FlowInv
  /\ TokenTypeOK
  /\ ExchangeOfCode
  /\ AnswerIsStored
  /\ CodesInHandStored
  /\ TokenBacked

-----------------------------------------------------------------------------
(* What single use takes: no two calls on one code, or on one request      *)

ExchangesApart ==
  \A x, y \in Exchangers :
    /\ exchanges[x] # None /\ exchanges[y] # None
    /\ exchanges[x].code = exchanges[y].code
    => x = y

DecisionsApart ==
  \A d, e \in Deciders :
    /\ decisions[d] # None /\ decisions[e] # None
    /\ decisions[d].request = decisions[e].request
    => d = e

\* An exchange has its code to itself: unused until marked, with no token and
\* no revoking replay until its own token is made.
ExchangesInTurn ==
  /\ \A t \in TokenIds : minted[t] # None => accessTokens[t] # None
  /\ \A k \in invalidated : authCodes[k] # None /\ authCodes[k].used
  /\ \A x \in Exchangers :
       /\ InExchange(x, "mark") => ~authCodes[exchanges[x].code].used
       /\ InExchange(x, "replay") => authCodes[exchanges[x].code].used
       /\ InExchange(x, "mint") => /\ exchanges[x].code \notin invalidated
                                   /\ \A t \in TokenIds : minted[t] # exchanges[x].code

\* A decision has its request to itself, and answers it when it is used up.
DecisionsInTurn ==
  /\ \A k \in CodeIds : redirected[k] # None => authRequests[redirected[k]] = Deleted
  /\ \A d \in Deciders : decisions[d] # None =>
       authRequests[decisions[d].request] \notin {None, Deleted}

\* The inductive invariant behind OneTokenPerCode, ReplayRevokes and
\* OneCodePerRequest
InTurn ==
  /\ ExchangesInTurn /\ OneTokenPerCode /\ ReplayRevokes
  /\ DecisionsInTurn /\ OneCodePerRequest
=============================================================================
