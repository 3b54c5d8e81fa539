-------------------------- MODULE AuthServer_proofs --------------------------
(***************************************************************************)
(* Proofs about AuthServer: with any number of overlapping decisions,      *)
(* revocations, exchanges and failures every access token carries what the *)
(* consent behind its code grants, and the consents still follow           *)
(* ConsentLifecycle.                                                       *)
(*                                                                         *)
(* ConsentFlow_proofs shows what a step of the flow does to FlowInv; here  *)
(* it remains to see what it does to codes and tokens, and what a step of  *)
(* the exchange does to both.                                              *)
(***************************************************************************)
EXTENDS AuthServer, ConsentFlow_proofs

-----------------------------------------------------------------------------
(* What a step of the flow keeps                                           *)

\* A code that is stored stays as it is.
CodesStay == \A k \in CodeIds : authCodes[k] # None => authCodes'[k] = authCodes[k]

\* A token stays what it is, but for being revoked.
TokenStays(t) ==
  /\ accessTokens[t] = None <=> accessTokens'[t] = None
  /\ accessTokens[t] # None =>
       /\ accessTokens'[t].customer = accessTokens[t].customer
       /\ accessTokens'[t].client = accessTokens[t].client
       /\ accessTokens'[t].consent = accessTokens[t].consent
       /\ accessTokens'[t].scope = accessTokens[t].scope
       /\ accessTokens'[t].expires_at = accessTokens[t].expires_at
       /\ accessTokens[t].revoked => accessTokens'[t].revoked

\* UPDATE access_tokens SET revoked = true touches no other column.
LEMMA RevokedTokensStay ==
  ASSUME TablesTypeOK, NEW c, accessTokens' = TokensRevokedFor(c)
  PROVE  /\ accessTokens' \in [TokenIds -> AccessToken \cup {None}]
         /\ \A t \in TokenIds : TokenStays(t)
<1>1. ASSUME NEW t \in TokenIds
      PROVE  accessTokens'[t] \in AccessToken \cup {None} /\ TokenStays(t)
  <2>1. accessTokens'[t] = IF accessTokens[t] # None /\ accessTokens[t].consent = c
                             THEN [accessTokens[t] EXCEPT !.revoked = TRUE]
                             ELSE accessTokens[t]
    BY DEF TokensRevokedFor
  <2>2. accessTokens[t] \in AccessToken \cup {None} BY DEF TablesTypeOK
  <2>3. CASE accessTokens[t] # None /\ accessTokens[t].consent = c
    <3>1. [accessTokens[t] EXCEPT !.revoked = TRUE] \in AccessToken
      BY <2>2, <2>3 DEF AccessToken
    <3>2. QED BY <2>1, <2>2, <2>3, <3>1, SentinelAssumption DEF TokenStays, AccessToken
  <2>4. CASE ~(accessTokens[t] # None /\ accessTokens[t].consent = c)
    BY <2>1, <2>2, <2>4 DEF TokenStays
  <2>5. QED BY <2>3, <2>4
<1>2. QED BY <1>1 DEF TokensRevokedFor

\* The consents after a step of the flow
LEMMA FlowKeepsConsents ==
  ASSUME FlowInv, FlowNext
  PROVE  Kept
<1>1. ASSUME NEW d \in Deciders, DecisionStep(d) PROVE Kept
  <2>1. ASSUME NEW c \in ConsentIds, CreateConsent(d, c) PROVE Kept
    BY <2>1, CreateConsentType, SentinelAssumption
    DEF Kept, WasApproved, CreateConsent, FlowInv, FlowTypeOK, TablesTypeOK
  <2>2. CASE ExpirePending(d) \/ ApproveConsent(d) \/ DenyConsent(d) BY <2>2, SettleKeeps
  <2>3. QED
    BY <1>1, <2>1, <2>2, SameConsents
    DEF DecisionStep, FindActiveConsent, VerifyPending, InsertCode, DeleteRequest,
        FailDecision, tables
<1>2. ASSUME NEW v \in Revokers, RevocationStep(v) PROVE Kept BY <1>2, RevocationKeeps
<1>3. CASE ExpireOldConsents
  <2>1. ASSUME NEW c \in ConsentIds, consents[c] # None
        PROVE  /\ consents'[c] # None
               /\ consents'[c].customer = consents[c].customer
               /\ consents'[c].client = consents[c].client
               /\ consents'[c].granted = consents[c].granted
               /\ \/ consents'[c] = consents[c]
                  \/ consents[c].status = "approved" /\ consents'[c].status = "expired"
    <3>1. consents[c] \in Consent BY <2>1, ConsentRow DEF FlowInv
    <3>2. [consents[c] EXCEPT !.status = "expired"] \in Consent
      BY <3>1 DEF Consent, Statuses
    <3>3. QED
      BY <1>3, <2>1, <3>1, <3>2, SentinelAssumption DEF ExpireOldConsents, Overdue, Consent
  <2>2. QED BY <1>3, <2>1 DEF Kept, WasApproved, ExpireOldConsents
<1>4. QED
  BY <1>1, <1>2, <1>3, SameConsents
  DEF FlowNext, Authorize, BeginDecision, BeginRevocation, Tick, tables

\* The codes after a step of the flow: InsertCode takes a fresh one.
LEMMA FlowKeepsCodes ==
  ASSUME FlowInv, FlowNext
  PROVE  CodesStay
<1>1. ASSUME NEW d \in Deciders, NEW k \in CodeIds, InsertCode(d, k) PROVE CodesStay
  BY <1>1 DEF InsertCode, CodesStay, FlowInv, FlowTypeOK, TablesTypeOK
<1>2. CASE authCodes' = authCodes BY <1>2 DEF CodesStay
<1>3. QED
  BY <1>1, <1>2
  DEF FlowNext, Authorize, BeginDecision, DecisionStep, FindActiveConsent, CreateConsent,
      VerifyPending, ExpirePending, ApproveConsent, DenyConsent, DeleteRequest, FailDecision,
      BeginRevocation, RevocationStep, VerifyApproved, RevokeConsent, RevokeTokens,
      FailRevocation, ExpireOldConsents, Tick, tables

\* The tokens after a step of the flow: RevokeTokens alone writes them.
LEMMA FlowKeepsTokens ==
  ASSUME FlowInv, FlowNext
  PROVE  \A t \in TokenIds : TokenStays(t)
<1>1. ASSUME NEW v \in Revokers, RevokeTokens(v) PROVE \A t \in TokenIds : TokenStays(t)
  BY <1>1, RevokedTokensStay DEF RevokeTokens, FlowInv, FlowTypeOK
<1>2. CASE accessTokens' = accessTokens BY <1>2 DEF TokenStays
<1>3. QED
  BY <1>1, <1>2
  DEF FlowNext, Authorize, BeginDecision, DecisionStep, FindActiveConsent, CreateConsent,
      VerifyPending, ExpirePending, ApproveConsent, DenyConsent, InsertCode, DeleteRequest,
      FailDecision, BeginRevocation, RevocationStep, VerifyApproved, RevokeConsent,
      FailRevocation, ExpireOldConsents, Tick, tables

-----------------------------------------------------------------------------
(* Tokens stay backed                                                      *)

\* A code may at most be marked used.
CodesKeepTerms ==
  \A k \in CodeIds : authCodes[k] # None =>
    /\ authCodes'[k] # None
    /\ authCodes'[k].consent = authCodes[k].consent
    /\ authCodes[k].used => authCodes'[k].used

\* The token t is as TokenBacked wants it.
Backed(t) ==
  LET token == accessTokens[t] IN
  /\ minted[t] # None
  /\ authCodes[minted[t]] # None /\ authCodes[minted[t]].used
  /\ token.consent = authCodes[minted[t]].consent
  /\ Grants(token.consent, token.customer, token.client, token.scope)

\* A token that was backed stays so in any step that keeps approvals, codes
\* and the token itself.
LEMMA StaysBacked ==
  ASSUME FlowTypeOK, TokenTypeOK, Kept, CodesKeepTerms, NEW t \in TokenIds,
         accessTokens[t] # None, TokenStays(t), minted'[t] = minted[t], Backed(t)
  PROVE  Backed(t)'
<1>1. PICK c \in ConsentIds : c = accessTokens[t].consent
  BY DEF FlowTypeOK, TablesTypeOK, AccessToken
<1>2. minted[t] \in CodeIds BY DEF Backed, TokenTypeOK
<1>3. /\ authCodes'[minted[t]] # None /\ authCodes'[minted[t]].used
      /\ authCodes'[minted[t]].consent = c
  BY <1>1, <1>2 DEF Backed, CodesKeepTerms
<1>4. PICK customer, client, scope :
        /\ customer = accessTokens[t].customer
        /\ client = accessTokens[t].client
        /\ scope = accessTokens[t].scope
  OBVIOUS
<1>5. Grants(c, customer, client, scope) BY <1>1, <1>4 DEF Backed
<1>6. Grants(c, customer, client, scope)'
  <2>1. /\ WasApproved(c)'
        /\ consents'[c].customer = customer
        /\ consents'[c].client = client
        /\ consents'[c].granted = scope
    BY <1>5, GrantsKept
  <2>2. QED BY <2>1 DEF Grants
<1>7. /\ accessTokens'[t].customer = customer
      /\ accessTokens'[t].client = client
      /\ accessTokens'[t].consent = c
      /\ accessTokens'[t].scope = scope
  BY <1>1, <1>4 DEF TokenStays
<1>8. Grants(accessTokens[t].consent, accessTokens[t].customer, accessTokens[t].client,
             accessTokens[t].scope)'
  BY <1>6, <1>7 DEF Grants, WasApproved
<1>9. QED BY <1>3, <1>7, <1>8 DEF Backed

\* All tokens at once
LEMMA TokensStayBacked ==
  ASSUME FlowTypeOK, TokenTypeOK, TokenBacked, Kept, CodesKeepTerms, UNCHANGED minted,
         \A t \in TokenIds : TokenStays(t)
  PROVE  TokenBacked'
<1> SUFFICES ASSUME NEW t \in TokenIds, accessTokens'[t] # None PROVE Backed(t)'
  BY DEF TokenBacked, Backed
<1>1. accessTokens[t] # None BY DEF TokenStays
<1>2. Backed(t) BY <1>1 DEF TokenBacked, Backed
<1>3. QED BY <1>1, <1>2, StaysBacked

-----------------------------------------------------------------------------
(* A step of the flow                                                      *)

\* INSERT INTO authorization_codes leaves a row.
LEMMA InsertedCodeStored ==
  ASSUME FlowInv, NEW d \in Deciders, NEW k \in CodeIds, InsertCode(d, k)
  PROVE  authCodes'[k] # None
<1> DEFINE call == decisions[d]
           code == [customer |-> call.row.customer, client |-> call.row.client,
                    uri |-> call.row.uri, scope |-> call.scopes, consent |-> call.consent,
                    expires_at |-> now + CodeTTL, used |-> FALSE]
<1>1. call \in DecisionCall /\ call.consent \in ConsentIds
  BY CallInFlight DEF InsertCode, InDecision, FlowInv, CodeCallBacked, DecisionCall
<1>2. call.row \in AuthRequest /\ call.scopes \in ScopeStrings BY <1>1 DEF DecisionCall
<1>3. now + CodeTTL \in Nat
  BY TablesAssumption DEF FlowInv, FlowTypeOK, TablesTypeOK
<1>4. code \in AuthCode BY <1>1, <1>2, <1>3 DEF AuthCode, AuthRequest
<1>5. authCodes'[k] = code BY DEF InsertCode, FlowInv, FlowTypeOK, TablesTypeOK
<1>6. QED BY <1>4, <1>5, SentinelAssumption

\* A decision comes to its answer only by storing a code or by a denial.
LEMMA AnswerStaysStored ==
  ASSUME FlowInv, FlowInv', AnswerIsStored, FlowNext
  PROVE  AnswerIsStored'
<1> DEFINE Answers(call) == call # None /\ call.pc = "delete" /\ call.action = "approve"
<1> SUFFICES ASSUME NEW d \in Deciders, Answers(decisions'[d])
             PROVE  authCodes'[decisions'[d].code] # None
  BY DEF AnswerIsStored, InDecision
<1>1. CASE decisions'[d] = decisions[d]
  <2>1. authCodes[decisions[d].code] # None
    BY <1>1 DEF AnswerIsStored, InDecision
  <2>2. decisions[d].code \in CodeIds
    BY <1>1 DEF FlowInv, FlowTypeOK, DecisionCall, AnswerHasCode, InDecision
  <2>3. QED BY <1>1, <2>1, <2>2, FlowKeepsCodes DEF CodesStay
<1>2. CASE decisions'[d] # decisions[d]
  <2>1. PICK e \in Deciders :
          \/ DecisionStep(e)
          \/ \E r \in RequestIds, customer \in Customers, action \in {"approve", "deny"},
                grant \in SUBSET Scopes : BeginDecision(e, r, customer, action, grant)
    BY <1>2
    DEF FlowNext, Authorize, BeginRevocation, RevocationStep, VerifyApproved, RevokeConsent,
        RevokeTokens, FailRevocation, ExpireOldConsents, Tick, tables
  <2>2. d = e
    BY <1>2, <2>1
    DEF DecisionStep, FindActiveConsent, CreateConsent, VerifyPending, ExpirePending,
        ApproveConsent, DenyConsent, InsertCode, DeleteRequest, FailDecision, EndDecision,
        BeginDecision, FlowInv, FlowTypeOK
  <2>3. CASE \E k \in CodeIds : InsertCode(d, k)
    <3>1. PICK k \in CodeIds : InsertCode(d, k) BY <2>3
    <3>2. decisions'[d].code = k
      BY <3>1, CallInFlight
      DEF InsertCode, InDecision, FlowInv, FlowTypeOK, DecisionCall
    <3>3. QED BY <3>1, <3>2, InsertedCodeStored
  <2>4. CASE DenyConsent(d)
    BY <2>4, CallInFlight
    DEF DenyConsent, InDecision, FlowInv, FlowTypeOK, DecisionCall
  <2>5. CASE \E r \in RequestIds, customer \in Customers, action \in {"approve", "deny"},
                grant \in SUBSET Scopes : BeginDecision(d, r, customer, action, grant)
    BY <2>5 DEF BeginDecision, FlowInv, FlowTypeOK
  <2>6. CASE DeleteRequest(d) \/ FailDecision(d) \/ ExpirePending(d)
    BY <2>6 DEF DeleteRequest, FailDecision, ExpirePending, EndDecision, FlowInv, FlowTypeOK
  <2>7. CASE \/ FindActiveConsent(d) \/ VerifyPending(d) \/ ApproveConsent(d)
             \/ \E c \in ConsentIds : CreateConsent(d, c)
    <3>1. decisions[d] \in DecisionCall /\ decisions \in [Deciders -> DecisionCall \cup {None}]
      BY <2>7, CallInFlight
      DEF FindActiveConsent, CreateConsent, VerifyPending, ApproveConsent, InDecision,
          FlowInv, FlowTypeOK
    <3>2. CASE FindActiveConsent(d)
      <4>1. CASE \E c, g : decisions' = [decisions EXCEPT ![d].pc = "code", ![d].consent = c,
                                                         ![d].scopes = g]
        <5>1. decisions'[d].pc = "code" BY <3>1, <4>1 DEF DecisionCall
        <5>2. QED BY <5>1 DEF InDecision
      <4>2. CASE decisions' = [decisions EXCEPT ![d].pc = "insert"]
        <5>1. decisions'[d].pc = "insert" BY <3>1, <4>2 DEF DecisionCall
        <5>2. QED BY <5>1 DEF InDecision
      <4>3. \/ \E c, g : decisions' = [decisions EXCEPT ![d].pc = "code", ![d].consent = c,
                                                       ![d].scopes = g]
            \/ decisions' = [decisions EXCEPT ![d].pc = "insert"]
        BY <3>2, Zenon DEF FindActiveConsent
      <4>4. QED BY <4>1, <4>2, <4>3
    <3>3. CASE VerifyPending(d)
      <4>1. decisions'[d] = None \/ decisions'[d].pc \in {"expire", "decide"}
        BY <3>1, <3>3 DEF VerifyPending, EndDecision, DecisionCall
      <4>2. QED BY <4>1 DEF InDecision
    <3>4. CASE ApproveConsent(d)
      <4>1. decisions'[d].pc = "code"
        BY <3>1, <3>4 DEF ApproveConsent, DecisionCall
      <4>2. QED BY <4>1 DEF InDecision
    <3>5. ASSUME NEW c \in ConsentIds, CreateConsent(d, c)
          PROVE  ~(InDecision(d, "delete"))'
      <4>1. decisions'[d].pc = "verify"
        BY <3>1, <3>5 DEF CreateConsent, DecisionCall
      <4>2. QED BY <4>1 DEF InDecision
    <3>6. QED BY <2>7, <3>2, <3>3, <3>4, <3>5 DEF InDecision
  <2>8. QED BY <2>1, <2>2, <2>3, <2>4, <2>5, <2>6, <2>7 DEF DecisionStep
<1>3. QED BY <1>1, <1>2

\* A step of the flow beside the exchanges
LEMMA FlowStepKeeps ==
  ASSUME ServerInv, FlowNext, UNCHANGED tokenVars
  PROVE  ServerInv'
<1> USE DEF ServerInv
<1>1. FlowInv' BY FlowStepInv
<1>2. UNCHANGED <<exchanges, minted, invalidated>> BY DEF tokenVars
<1>3. TokenTypeOK' BY <1>2 DEF TokenTypeOK
<1>4. CodesStay BY FlowKeepsCodes
<1>5. ExchangeOfCode'
  <2>1. \A x \in Exchangers : exchanges[x] # None => exchanges[x].code \in CodeIds
    BY DEF TokenTypeOK, ExchangeCall
  <2>2. QED BY <1>2, <1>4, <2>1 DEF ExchangeOfCode, CodesStay
<1>6. AnswerIsStored' BY <1>1, AnswerStaysStored
<1>7. CodesInHandStored'
  <2> SUFFICES ASSUME NEW k \in CodeIds, redirected'[k] # None PROVE authCodes'[k] # None
    BY DEF CodesInHandStored
  <2>1. CASE redirected'[k] = redirected[k]
    BY <1>4, <2>1 DEF CodesInHandStored, CodesStay
  <2>2. CASE redirected'[k] # redirected[k]
    <3>1. PICK d \in Deciders : DeleteRequest(d)
      BY <2>2
      DEF FlowNext, Authorize, BeginDecision, DecisionStep, FindActiveConsent, CreateConsent,
          VerifyPending, ExpirePending, ApproveConsent, DenyConsent, InsertCode, FailDecision,
          BeginRevocation, RevocationStep, VerifyApproved, RevokeConsent, RevokeTokens,
          FailRevocation, ExpireOldConsents, Tick
    <3>2. k = decisions[d].code /\ decisions[d].action = "approve"
      BY <2>2, <3>1 DEF DeleteRequest, FlowInv, FlowTypeOK, TablesTypeOK
    <3>3. authCodes[k] # None BY <3>1, <3>2 DEF DeleteRequest, AnswerIsStored
    <3>4. QED BY <1>4, <3>3 DEF CodesStay
  <2>3. QED BY <2>1, <2>2
<1>8. TokenBacked'
  <2>1. CodesKeepTerms BY <1>4 DEF CodesStay, CodesKeepTerms
  <2>2. QED
    BY <1>2, <2>1, FlowKeepsConsents, FlowKeepsTokens, TokensStayBacked DEF FlowInv
<1>9. QED BY <1>1, <1>3, <1>5, <1>6, <1>7, <1>8

-----------------------------------------------------------------------------
(* A step of the exchange                                                  *)

\* What a step of the exchange may do to the codes
CodesKeepRow ==
  \A k \in CodeIds :
    /\ authCodes[k] = None <=> authCodes'[k] = None
    /\ authCodes[k] # None =>
         /\ authCodes'[k].customer = authCodes[k].customer
         /\ authCodes'[k].client = authCodes[k].client
         /\ authCodes'[k].consent = authCodes[k].consent
         /\ authCodes'[k].scope = authCodes[k].scope
         /\ authCodes[k].used => authCodes'[k].used

\* The invariant of the flow does not see a code being used or a token come.
LEMMA FlowUndisturbed ==
  ASSUME ServerInv, CodesKeepRow,
         authCodes' \in [CodeIds -> AuthCode \cup {None}],
         accessTokens' \in [TokenIds -> AccessToken \cup {None}],
         UNCHANGED <<now, authRequests, consents, redirected, decisions, revocations>>
  PROVE  /\ FlowInv' /\ AnswerIsStored' /\ CodesInHandStored'
         /\ Kept /\ CodesKeepTerms
<1> USE DEF ServerInv
<1>1. FlowTypeOK' BY DEF FlowInv, FlowTypeOK, TablesTypeOK
<1>2. PendingOwned' /\ CodeCallBacked' /\ AnswerHasCode' /\ ApprovalGrants'
      /\ RevocationOfApproved'
  BY DEF FlowInv, PendingOwned, PendingFor, Pending, Deciding, CodeCallBacked, InDecision,
         Grants, WasApproved, AnswerHasCode, ApprovalGrants, RevocationOfApproved
<1>3. CodeBacked'
  BY DEF FlowInv, CodeBacked, CodesKeepRow, Grants, WasApproved
<1>4. AnswerIsStored'
  <2>1. \A d \in Deciders : InDecision(d, "delete") /\ decisions[d].action = "approve" =>
          decisions[d].code \in CodeIds
    BY DEF FlowInv, FlowTypeOK, DecisionCall, AnswerHasCode, InDecision
  <2>2. QED BY <2>1 DEF AnswerIsStored, InDecision, CodesKeepRow
<1>5. CodesInHandStored' BY DEF CodesInHandStored, CodesKeepRow
<1>6. Kept BY SameConsents
<1>7. CodesKeepTerms BY DEF CodesKeepRow, CodesKeepTerms
<1>8. QED BY <1>1, <1>2, <1>3, <1>4, <1>5, <1>6, <1>7 DEF FlowInv

\* A step that neither writes a code nor mints a token
LEMMA QuietExchange ==
  ASSUME ServerInv, TokenTypeOK',
         accessTokens' \in [TokenIds -> AccessToken \cup {None}],
         \A t \in TokenIds : TokenStays(t),
         UNCHANGED <<now, authRequests, consents, authCodes, redirected, decisions,
                     revocations, minted>>,
         \A x \in Exchangers : exchanges'[x] # None =>
           \/ exchanges'[x] = exchanges[x]
           \/ /\ authCodes[exchanges'[x].code] # None
              /\ exchanges'[x].pc # "mint"
  PROVE  ServerInv'
<1> USE DEF ServerInv
<1>1. CodesKeepRow /\ authCodes' \in [CodeIds -> AuthCode \cup {None}]
  BY DEF CodesKeepRow, FlowInv, FlowTypeOK, TablesTypeOK
<1>2. FlowInv' /\ AnswerIsStored' /\ CodesInHandStored' /\ Kept /\ CodesKeepTerms
  BY <1>1, FlowUndisturbed
<1>3. ExchangeOfCode' BY DEF ExchangeOfCode
<1>4. TokenBacked' BY <1>2, TokensStayBacked DEF FlowInv
<1>5. QED BY <1>2, <1>3, <1>4

\* validateAuthorizationCode reads a stored code and begins a call on it.
LEMMA PresentCodeKeeps ==
  ASSUME ServerInv, NEW x \in Exchangers, NEW k \in CodeIds, NEW client \in Clients,
         NEW uri \in Uris, PresentCode(x, k, client, uri), UNCHANGED <<decisions, revocations>>
  PROVE  ServerInv'
<1> USE DEF ServerInv
<1>1. /\ \A pc \in {"replay", "mark"} : [pc |-> pc, code |-> k] \in ExchangeCall
      /\ UNCHANGED <<now, authRequests, consents, authCodes, accessTokens, redirected,
                     minted, invalidated>>
  BY DEF PresentCode, ExchangeCall, tables
<1>2. PICK pc \in {"replay", "mark"} :
        exchanges' = [exchanges EXCEPT ![x] = [pc |-> pc, code |-> k]]
  BY DEF PresentCode
<1>3. TokenTypeOK' BY <1>1, <1>2 DEF TokenTypeOK
<1>4. authCodes[k] # None BY DEF PresentCode, CodesInHandStored
<1>5. \A z \in Exchangers : exchanges'[z] = exchanges[z]
                            \/ (exchanges'[z].code = k /\ exchanges'[z].pc # "mint")
  BY <1>2 DEF TokenTypeOK
<1>6. \A t \in TokenIds : TokenStays(t) BY <1>1 DEF TokenStays
<1>7. accessTokens' \in [TokenIds -> AccessToken \cup {None}]
  BY <1>1 DEF FlowInv, FlowTypeOK, TablesTypeOK
<1>8. QED BY <1>1, <1>3, <1>4, <1>5, <1>6, <1>7, QuietExchange

\* markCodeAsUsed
LEMMA MarkCodeAsUsedKeeps ==
  ASSUME ServerInv, NEW x \in Exchangers, MarkCodeAsUsed(x),
         UNCHANGED <<decisions, revocations>>
  PROVE  ServerInv'
<1> DEFINE k == exchanges[x].code
<1> USE DEF ServerInv
<1>1. /\ exchanges[x] \in ExchangeCall /\ k \in CodeIds /\ authCodes[k] \in AuthCode
      /\ UNCHANGED <<now, authRequests, consents, accessTokens, redirected, minted,
                     invalidated>>
  BY DEF MarkCodeAsUsed, InExchange, TokenTypeOK, ExchangeCall, ExchangeOfCode,
         FlowInv, FlowTypeOK, TablesTypeOK
<1>2. /\ authCodes' = [authCodes EXCEPT ![k] = [authCodes[k] EXCEPT !.used = TRUE]]
      /\ exchanges' = [exchanges EXCEPT ![x] = [exchanges[x] EXCEPT !.pc = "mint"]]
  BY DEF MarkCodeAsUsed, Used
<1>3. [authCodes[k] EXCEPT !.used = TRUE] \in AuthCode BY <1>1 DEF AuthCode
<1>4. [exchanges[x] EXCEPT !.pc = "mint"] \in ExchangeCall BY <1>1 DEF ExchangeCall
<1>5. authCodes' \in [CodeIds -> AuthCode \cup {None}]
  BY <1>2, <1>3 DEF FlowInv, FlowTypeOK, TablesTypeOK
<1>6. TokenTypeOK' BY <1>1, <1>2, <1>4 DEF TokenTypeOK
<1>7. authCodes'[k] # None /\ authCodes'[k].used
  BY <1>1, <1>2, <1>3, SentinelAssumption DEF AuthCode, FlowInv, FlowTypeOK, TablesTypeOK
<1>8. CodesKeepRow
  <2> SUFFICES ASSUME NEW j \in CodeIds
      PROVE  /\ authCodes[j] = None <=> authCodes'[j] = None
             /\ authCodes[j] # None =>
                  /\ authCodes'[j].customer = authCodes[j].customer
                  /\ authCodes'[j].client = authCodes[j].client
                  /\ authCodes'[j].consent = authCodes[j].consent
                  /\ authCodes'[j].scope = authCodes[j].scope
                  /\ authCodes[j].used => authCodes'[j].used
    BY DEF CodesKeepRow
  <2>1. CASE j # k BY <1>2, <2>1 DEF FlowInv, FlowTypeOK, TablesTypeOK
  <2>2. CASE j = k
    <3>1. authCodes'[k] = [authCodes[k] EXCEPT !.used = TRUE]
      BY <1>1, <1>2 DEF FlowInv, FlowTypeOK, TablesTypeOK
    <3>2. QED BY <1>1, <1>7, <2>2, <3>1, SentinelAssumption DEF AuthCode
  <2>3. QED BY <2>1, <2>2
<1>9. accessTokens' \in [TokenIds -> AccessToken \cup {None}]
  BY <1>1 DEF FlowInv, FlowTypeOK, TablesTypeOK
<1>10. FlowInv' /\ AnswerIsStored' /\ CodesInHandStored' /\ Kept /\ CodesKeepTerms
  BY <1>1, <1>5, <1>8, <1>9, FlowUndisturbed
<1>11. ExchangeOfCode'
  <2> SUFFICES ASSUME NEW z \in Exchangers, exchanges'[z] # None
      PROVE  /\ authCodes'[exchanges'[z].code] # None
             /\ exchanges'[z].pc = "mint" => authCodes'[exchanges'[z].code].used
    BY DEF ExchangeOfCode
  <2>1. CASE z = x
    <3>1. exchanges'[z].code = k BY <1>1, <1>2, <2>1 DEF TokenTypeOK, ExchangeCall
    <3>2. QED BY <1>7, <3>1
  <2>2. CASE z # x
    <3>1. exchanges'[z] = exchanges[z] BY <1>2, <2>2 DEF TokenTypeOK
    <3>2. exchanges[z].code \in CodeIds BY <3>1 DEF TokenTypeOK, ExchangeCall
    <3>3. QED BY <1>8, <3>1, <3>2 DEF ExchangeOfCode, CodesKeepRow
  <2>3. QED BY <2>1, <2>2
<1>12. TokenBacked'
  <2>1. \A t \in TokenIds : TokenStays(t) BY <1>1 DEF TokenStays
  <2>2. QED BY <1>1, <1>10, <2>1, TokensStayBacked DEF FlowInv
<1>13. QED BY <1>6, <1>10, <1>11, <1>12

\* generateTokens: the new token carries what its code's consent grants.
LEMMA GenerateTokensKeeps ==
  ASSUME ServerInv, NEW x \in Exchangers, NEW t \in TokenIds, GenerateTokens(x, t),
         UNCHANGED <<decisions, revocations>>
  PROVE  ServerInv'
<1> DEFINE k == exchanges[x].code
<1> USE DEF ServerInv
<1>1. /\ exchanges[x] \in ExchangeCall /\ k \in CodeIds /\ authCodes[k] \in AuthCode
      /\ authCodes[k] # None /\ authCodes[k].used /\ accessTokens[t] = None
      /\ UNCHANGED <<now, authRequests, consents, authCodes, redirected,
                     invalidated>>
  BY DEF GenerateTokens, InExchange, TokenTypeOK, ExchangeCall, ExchangeOfCode,
         FlowInv, FlowTypeOK, TablesTypeOK
<1>2. /\ accessTokens' = [accessTokens EXCEPT ![t] = TokenFor(authCodes[k])]
      /\ minted' = [minted EXCEPT ![t] = k]
      /\ exchanges' = [exchanges EXCEPT ![x] = None]
  BY DEF GenerateTokens, EndExchange
<1>3. TokenFor(authCodes[k]) \in AccessToken
  <2>1. now + TokenTTL \in Nat
    BY TablesAssumption DEF FlowInv, FlowTypeOK, TablesTypeOK
  <2>2. QED BY <1>1, <2>1 DEF TokenFor, AccessToken, AuthCode
<1>4. /\ accessTokens' \in [TokenIds -> AccessToken \cup {None}]
      /\ authCodes' \in [CodeIds -> AuthCode \cup {None}]
  BY <1>1, <1>2, <1>3 DEF FlowInv, FlowTypeOK, TablesTypeOK
<1>5. TokenTypeOK' BY <1>1, <1>2 DEF TokenTypeOK
<1>6. CodesKeepRow BY <1>1 DEF CodesKeepRow
<1>7. FlowInv' /\ AnswerIsStored' /\ CodesInHandStored' /\ Kept /\ CodesKeepTerms
  BY <1>1, <1>4, <1>6, FlowUndisturbed
<1>8. ExchangeOfCode' BY <1>1, <1>2 DEF ExchangeOfCode, TokenTypeOK
<1>9. TokenBacked'
  <2> SUFFICES ASSUME NEW u \in TokenIds, accessTokens'[u] # None PROVE Backed(u)'
    BY DEF TokenBacked, Backed
  <2>1. CASE u = t
    <3>1. /\ accessTokens'[u] = TokenFor(authCodes[k]) /\ minted'[u] = k /\ k # None
      BY <1>1, <1>2, <2>1, SentinelAssumption DEF FlowInv, FlowTypeOK, TablesTypeOK, TokenTypeOK
    <3>2. Grants(authCodes[k].consent, authCodes[k].customer, authCodes[k].client,
                 authCodes[k].scope)
      BY <1>1 DEF FlowInv, CodeBacked
    <3>3. /\ accessTokens'[u].customer = authCodes[k].customer
          /\ accessTokens'[u].client = authCodes[k].client
          /\ accessTokens'[u].consent = authCodes[k].consent
          /\ accessTokens'[u].scope = authCodes[k].scope
      BY <3>1 DEF TokenFor
    <3>4. Grants(accessTokens[u].consent, accessTokens[u].customer, accessTokens[u].client,
                 accessTokens[u].scope)'
      BY <1>1, <3>2, <3>3 DEF Grants, WasApproved
    <3>5. /\ minted'[u] # None
          /\ authCodes'[minted'[u]] # None /\ authCodes'[minted'[u]].used
          /\ accessTokens'[u].consent = authCodes'[minted'[u]].consent
      BY <1>1, <3>1, <3>3
    <3>6. QED BY <3>4, <3>5 DEF Backed
  <2>2. CASE u # t
    <3>1. accessTokens'[u] = accessTokens[u] /\ minted'[u] = minted[u]
      BY <1>2, <2>2 DEF FlowInv, FlowTypeOK, TablesTypeOK, TokenTypeOK
    <3>2. Backed(u) BY <3>1 DEF TokenBacked, Backed
    <3>3. TokenStays(u) BY <3>1 DEF TokenStays
    <3>4. QED BY <1>7, <3>1, <3>2, <3>3, StaysBacked DEF FlowInv
  <2>3. QED BY <2>1, <2>2
<1>10. QED BY <1>5, <1>7, <1>8, <1>9

\* The replay's UPDATE, an exchange given up, and POST /oauth/token/revoke
LEMMA RevokeTokensByCodeKeeps ==
  ASSUME ServerInv, NEW x \in Exchangers, RevokeTokensByCode(x),
         UNCHANGED <<decisions, revocations>>
  PROVE  ServerInv'
<1> USE DEF ServerInv
<1>1. /\ exchanges[x] \in ExchangeCall
      /\ accessTokens' = TokensRevokedFor(authCodes[exchanges[x].code].consent)
      /\ invalidated' = invalidated \cup {exchanges[x].code}
      /\ exchanges' = [exchanges EXCEPT ![x] = None]
      /\ UNCHANGED <<now, authRequests, consents, authCodes, redirected, minted>>
  BY DEF RevokeTokensByCode, InExchange, EndExchange, TokenTypeOK
<1>2. TokenTypeOK' BY <1>1 DEF TokenTypeOK, ExchangeCall
<1>3. /\ \A t \in TokenIds : TokenStays(t)
      /\ accessTokens' \in [TokenIds -> AccessToken \cup {None}]
  BY <1>1, RevokedTokensStay DEF FlowInv, FlowTypeOK
<1>4. \A z \in Exchangers : exchanges'[z] = exchanges[z] \/ exchanges'[z] = None
  BY <1>1 DEF TokenTypeOK
<1>5. QED BY <1>1, <1>2, <1>3, <1>4, QuietExchange

\* An exchange given up writes nothing; it may have answered as a replay.
LEMMA FailExchangeKeeps ==
  ASSUME ServerInv, NEW x \in Exchangers, FailExchange(x),
         UNCHANGED <<decisions, revocations>>
  PROVE  ServerInv'
<1> USE DEF ServerInv
<1>1. /\ exchanges[x] \in ExchangeCall
      /\ exchanges' = [exchanges EXCEPT ![x] = None]
      /\ UNCHANGED <<now, authRequests, consents, authCodes, accessTokens, redirected,
                     minted, invalidated>>
  BY DEF FailExchange, InExchange, EndExchange, tables, TokenTypeOK
<1>2. TokenTypeOK' BY <1>1 DEF TokenTypeOK, ExchangeCall
<1>3. \A z \in Exchangers : exchanges'[z] = exchanges[z] \/ exchanges'[z] = None
  BY <1>1 DEF TokenTypeOK
<1>4. /\ \A t \in TokenIds : TokenStays(t)
      /\ accessTokens' \in [TokenIds -> AccessToken \cup {None}]
  BY <1>1 DEF TokenStays, FlowInv, FlowTypeOK, TablesTypeOK
<1>5. QED BY <1>1, <1>2, <1>3, <1>4, QuietExchange

\* POST /oauth/token/revoke marks one token and no other row.
LEMMA RevokeTokenKeeps ==
  ASSUME ServerInv, NEW t \in TokenIds, NEW client \in Clients, RevokeToken(t, client),
         UNCHANGED <<decisions, revocations>>
  PROVE  ServerInv'
<1> USE DEF ServerInv
<1>1. /\ accessTokens[t] # None /\ accessTokens[t] \in AccessToken
      /\ accessTokens' = [accessTokens EXCEPT ![t] = [accessTokens[t] EXCEPT !.revoked = TRUE]]
      /\ UNCHANGED <<now, authRequests, consents, authCodes, redirected>>
      /\ UNCHANGED <<exchanges, minted, invalidated>>
  BY DEF RevokeToken, tokenVars, FlowInv, FlowTypeOK, TablesTypeOK
<1>2. [accessTokens[t] EXCEPT !.revoked = TRUE] \in AccessToken BY <1>1 DEF AccessToken
<1>3. TokenTypeOK' BY <1>1 DEF TokenTypeOK
<1>4. accessTokens' \in [TokenIds -> AccessToken \cup {None}]
  BY <1>1, <1>2 DEF FlowInv, FlowTypeOK, TablesTypeOK
<1>5. \A u \in TokenIds : TokenStays(u)
  <2> SUFFICES ASSUME NEW u \in TokenIds PROVE TokenStays(u)
    OBVIOUS
  <2>1. CASE u # t
    BY <1>1, <2>1 DEF TokenStays, FlowInv, FlowTypeOK, TablesTypeOK
  <2>2. CASE u = t
    <3>1. accessTokens'[t] = [accessTokens[t] EXCEPT !.revoked = TRUE]
      BY <1>1 DEF FlowInv, FlowTypeOK, TablesTypeOK
    <3>2. QED BY <1>1, <1>2, <2>2, <3>1, SentinelAssumption DEF TokenStays, AccessToken
  <2>3. QED BY <2>1, <2>2
<1>6. QED BY <1>1, <1>3, <1>4, <1>5, QuietExchange

-----------------------------------------------------------------------------
(* The theorems                                                            *)

\* The tables start empty and no call is in flight.
LEMMA ServerInitInv == ServerInit => ServerInv
<1> SUFFICES ASSUME ServerInit PROVE ServerInv
  OBVIOUS
<1>1. FlowInv BY InitInv DEF ServerInit
<1>2. TokenTypeOK BY DEF ServerInit, TokenInit, TokenTypeOK
<1>3. ExchangeOfCode /\ AnswerIsStored /\ CodesInHandStored /\ TokenBacked
  BY DEF ServerInit, TokenInit, FlowInit, TablesInit, ExchangeOfCode, AnswerIsStored,
         InDecision, CodesInHandStored, TokenBacked
<1>4. QED BY <1>1, <1>2, <1>3 DEF ServerInv

\* A step of the exchange, whichever
LEMMA TokenStepKeeps ==
  ASSUME ServerInv, TokenNext, UNCHANGED <<decisions, revocations>>
  PROVE  ServerInv'
<1>1. ASSUME NEW x \in Exchangers, NEW k \in CodeIds, NEW client \in Clients, NEW uri \in Uris,
             PresentCode(x, k, client, uri)
      PROVE  ServerInv'
  BY <1>1, PresentCodeKeeps
<1>2. ASSUME NEW x \in Exchangers, ExchangeStep(x) PROVE ServerInv'
  BY <1>2, MarkCodeAsUsedKeeps, GenerateTokensKeeps, RevokeTokensByCodeKeeps,
     FailExchangeKeeps
  DEF ExchangeStep
<1>3. ASSUME NEW t \in TokenIds, NEW client \in Clients, RevokeToken(t, client)
      PROVE  ServerInv'
  BY <1>3, RevokeTokenKeeps
<1>4. QED BY <1>1, <1>2, <1>3 DEF TokenNext

\* Every step of the server and every stutter keeps the invariant.
LEMMA ServerStepInv == ServerInv /\ [ServerNext]_serverVars => ServerInv'
<1> SUFFICES ASSUME ServerInv, [ServerNext]_serverVars PROVE ServerInv'
  OBVIOUS
<1>1. CASE ServerNext BY <1>1, FlowStepKeeps, TokenStepKeeps DEF ServerNext
<1>2. CASE UNCHANGED serverVars
  <2>1. UNCHANGED flowVars /\ UNCHANGED <<exchanges, minted, invalidated>>
    BY <1>2 DEF serverVars, tokenVars
  <2>2. FlowInv' BY <2>1, StutterInv DEF ServerInv
  <2>3. QED
    BY <2>1, <2>2
    DEF ServerInv, flowVars, tables, TokenTypeOK, ExchangeOfCode, AnswerIsStored, InDecision,
        CodesInHandStored, TokenBacked, Grants, WasApproved
<1>3. QED BY <1>1, <1>2

\* Consents, codes and tokens rest on each other as they should, at every
\* moment of every interleaving of decisions, revocations and exchanges.
THEOREM ServerInvariant == ServerSpec => []ServerInv
BY ServerInitInv, ServerStepInv, PTL DEF ServerSpec

\* Every access token carries what the consent behind its code grants: same
\* customer, same client, exactly the granted scopes (token-exchange.js:132-137).
THEOREM TokensBacked == ServerSpec => []TokenBacked
<1>1. ServerInv => TokenBacked BY DEF ServerInv
<1>2. QED BY <1>1, ServerInvariant, PTL

\* The exchange leaves consents alone, so the whole authorization server
\* implements ConsentLifecycle.
THEOREM ServerImplementsLifecycle == ServerSpec => LifecycleSpec
<1>1. ServerInit => Lifecycle!Init
  BY DEF ServerInit, FlowInit, TablesInit, Lifecycle!Init, StatusOf
<1>2. ServerInv /\ [ServerNext]_serverVars => [Lifecycle!Next]_StatusOf
  <2> SUFFICES ASSUME ServerInv, [ServerNext]_serverVars PROVE [Lifecycle!Next]_StatusOf
    OBVIOUS
  <2>1. CASE FlowNext BY <2>1, FlowStepMoves DEF ServerInv
  <2>2. CASE TokenNext \/ UNCHANGED serverVars
    <3>1. consents' = consents
      BY <2>2
      DEF TokenNext, PresentCode, ExchangeStep, MarkCodeAsUsed, GenerateTokens,
          RevokeTokensByCode, FailExchange, RevokeToken, serverVars, flowVars, tables
    <3>2. QED BY <3>1 DEF StatusOf
  <2>3. QED BY <2>1, <2>2 DEF ServerNext
<1>3. QED BY <1>1, <1>2, ServerInvariant, PTL DEF ServerSpec, LifecycleSpec, Lifecycle!Spec

-----------------------------------------------------------------------------
(* Exchanges of one code that do not overlap                               *)

TurnInv == ExchangesInTurn /\ OneTokenPerCode /\ ReplayRevokes

\* A code that has a token is used, and the token is of the code's consent.
LEMMA MintedCode ==
  ASSUME ServerInv, ExchangesInTurn, NEW t \in TokenIds, minted[t] # None
  PROVE  /\ minted[t] \in CodeIds /\ accessTokens[t] # None
         /\ authCodes[minted[t]] # None /\ authCodes[minted[t]].used
         /\ accessTokens[t].consent = authCodes[minted[t]].consent
BY DEF ServerInv, ExchangesInTurn, TokenBacked, TokenTypeOK

\* A step that makes no token, revokes by no replay and begins no exchange
LEMMA TurnKept ==
  ASSUME ServerInv, TurnInv, UNCHANGED <<minted, invalidated>>,
         \A t \in TokenIds : TokenStays(t),
         \A k \in CodeIds : authCodes[k] # None =>
           /\ authCodes'[k] # None
           /\ authCodes[k].used <=> authCodes'[k].used,
         \A x \in Exchangers : exchanges'[x] = exchanges[x] \/ exchanges'[x] = None
  PROVE  TurnInv'
<1> USE DEF TurnInv
<1>1. \A t \in TokenIds : minted'[t] # None => accessTokens'[t] # None
  BY DEF ExchangesInTurn, TokenStays
<1>2. \A k \in invalidated' : authCodes'[k] # None /\ authCodes'[k].used
  BY DEF ExchangesInTurn, ServerInv, TokenTypeOK
<1>3. ASSUME NEW x \in Exchangers, exchanges'[x] # None
      PROVE  /\ exchanges'[x] = exchanges[x] /\ exchanges[x].code \in CodeIds
             /\ authCodes[exchanges[x].code] # None
  BY <1>3 DEF ServerInv, TokenTypeOK, ExchangeCall, ExchangeOfCode
<1>4. ExchangesInTurn'
  BY <1>1, <1>2, <1>3 DEF ExchangesInTurn, InExchange
<1>5. OneTokenPerCode' BY DEF OneTokenPerCode
<1>6. ReplayRevokes'
  <2> SUFFICES ASSUME NEW t \in TokenIds, minted[t] \in invalidated
               PROVE  accessTokens'[t].revoked
    BY DEF ReplayRevokes
  <2>1. minted[t] # None BY SentinelAssumption DEF ServerInv, TokenTypeOK
  <2>2. accessTokens[t] # None /\ accessTokens[t].revoked
    BY <2>1 DEF ExchangesInTurn, ReplayRevokes
  <2>3. QED BY <2>2 DEF TokenStays
<1>7. QED BY <1>4, <1>5, <1>6

\* What validateAuthorizationCode saw is so until the call's next statement.
LEMMA PresentCodeTurn ==
  ASSUME ServerInv, TurnInv, NEW x \in Exchangers, NEW k \in CodeIds, NEW client \in Clients,
         NEW uri \in Uris, PresentCode(x, k, client, uri)
  PROVE  TurnInv'
<1> USE DEF TurnInv
<1>1. UNCHANGED <<now, authRequests, consents, authCodes, accessTokens, redirected,
                  minted, invalidated>>
  BY DEF PresentCode, tables
<1>2. PICK pc \in {"replay", "mark"} :
        /\ exchanges' = [exchanges EXCEPT ![x] = [pc |-> pc, code |-> k]]
        /\ pc = "replay" <=> authCodes[k].used
  BY DEF PresentCode, Usable
<1>3. ASSUME NEW y \in Exchangers
      PROVE  /\ InExchange(y, "mark")' => ~authCodes[exchanges'[y].code].used
             /\ InExchange(y, "replay")' => authCodes[exchanges'[y].code].used
             /\ InExchange(y, "mint")' =>
                  /\ exchanges'[y].code \notin invalidated
                  /\ \A t \in TokenIds : minted[t] # exchanges'[y].code
  <2>1. CASE y = x
    <3>1. exchanges'[y].pc = pc /\ exchanges'[y].code = k
      BY <1>2, <2>1 DEF ServerInv, TokenTypeOK
    <3>2. QED BY <1>2, <3>1 DEF InExchange
  <2>2. CASE y # x
    <3>1. exchanges'[y] = exchanges[y] BY <1>2, <2>2 DEF ServerInv, TokenTypeOK
    <3>2. QED BY <3>1 DEF InExchange, ExchangesInTurn
  <2>3. QED BY <2>1, <2>2
<1>4. ExchangesInTurn' BY <1>1, <1>3 DEF ExchangesInTurn, InExchange
<1>5. QED BY <1>1, <1>4 DEF OneTokenPerCode, ReplayRevokes

\* markCodeAsUsed: the code was unused, so it has no token and no replay.
LEMMA MarkCodeAsUsedTurn ==
  ASSUME ServerInv, TurnInv, ExchangesApart, NEW x \in Exchangers, MarkCodeAsUsed(x)
  PROVE  TurnInv'
<1> PICK k : k = exchanges[x].code OBVIOUS
<1> USE DEF TurnInv
<1>1. /\ exchanges[x] # None /\ exchanges[x].pc = "mark" /\ exchanges[x] \in ExchangeCall
      /\ k \in CodeIds /\ authCodes[k] # None /\ authCodes[k] \in AuthCode
      /\ UNCHANGED <<accessTokens, minted, invalidated>>
  BY DEF MarkCodeAsUsed, InExchange, ServerInv, TokenTypeOK, ExchangeCall, ExchangeOfCode,
         FlowInv, FlowTypeOK, TablesTypeOK
<1>2. /\ authCodes' = [authCodes EXCEPT ![k] = [authCodes[k] EXCEPT !.used = TRUE]]
      /\ exchanges' = [exchanges EXCEPT ![x] = [exchanges[x] EXCEPT !.pc = "mint"]]
  BY DEF MarkCodeAsUsed, Used
<1>3. [authCodes[k] EXCEPT !.used = TRUE] \in AuthCode BY <1>1 DEF AuthCode
<1>4. authCodes'[k] # None /\ authCodes'[k].used
  BY <1>1, <1>2, <1>3, SentinelAssumption
  DEF AuthCode, ServerInv, FlowInv, FlowTypeOK, TablesTypeOK
<1>5. \A j \in CodeIds : j # k => authCodes'[j] = authCodes[j]
  BY <1>2 DEF ServerInv, FlowInv, FlowTypeOK, TablesTypeOK
<1>6. ~authCodes[k].used BY <1>1 DEF ExchangesInTurn, InExchange
<1>7. k \notin invalidated BY <1>6 DEF ExchangesInTurn
<1>8. \A t \in TokenIds : minted[t] # k
  BY <1>1, <1>6, MintedCode, SentinelAssumption
<1>9. \A j \in invalidated' : authCodes'[j] # None /\ authCodes'[j].used
  BY <1>1, <1>4, <1>5 DEF ExchangesInTurn, ServerInv, TokenTypeOK
<1>10. ASSUME NEW y \in Exchangers
       PROVE  /\ InExchange(y, "mark")' => ~authCodes'[exchanges'[y].code].used
              /\ InExchange(y, "replay")' => authCodes'[exchanges'[y].code].used
              /\ InExchange(y, "mint")' =>
                   /\ exchanges'[y].code \notin invalidated
                   /\ \A t \in TokenIds : minted[t] # exchanges'[y].code
  <2>1. CASE y = x
    <3>1. exchanges'[y].pc = "mint" /\ exchanges'[y].code = k
      BY <1>1, <1>2, <2>1 DEF ServerInv, TokenTypeOK, ExchangeCall
    <3>2. QED BY <1>7, <1>8, <3>1 DEF InExchange
  <2>2. CASE y # x /\ exchanges'[y] # None
    <3>1. exchanges'[y] = exchanges[y] BY <1>2, <2>2 DEF ServerInv, TokenTypeOK
    <3>2. exchanges[y].code \in CodeIds BY <2>2, <3>1 DEF ServerInv, TokenTypeOK, ExchangeCall
    <3>3. exchanges[y].code # k BY <1>1, <2>2, <3>1 DEF ExchangesApart
    <3>4. authCodes'[exchanges[y].code] = authCodes[exchanges[y].code] BY <1>5, <3>2, <3>3
    <3>5. QED BY <3>1, <3>4 DEF InExchange, ExchangesInTurn
  <2>3. QED BY <2>1, <2>2 DEF InExchange
<1>11. \A t \in TokenIds : minted'[t] # None => accessTokens'[t] # None
  BY <1>1 DEF ExchangesInTurn
<1>12. ExchangesInTurn' BY <1>1, <1>9, <1>10, <1>11 DEF ExchangesInTurn, InExchange
<1>13. QED BY <1>1, <1>12 DEF OneTokenPerCode, ReplayRevokes

\* generateTokens: the one token of a code that has none
LEMMA GenerateTokensTurn ==
  ASSUME ServerInv, ServerInv', TurnInv, ExchangesApart, NEW x \in Exchangers,
         NEW t \in TokenIds, GenerateTokens(x, t)
  PROVE  TurnInv'
<1> PICK k : k = exchanges[x].code OBVIOUS
<1> USE DEF TurnInv
<1>1. /\ exchanges[x] # None /\ exchanges[x].pc = "mint" /\ exchanges[x] \in ExchangeCall
      /\ k \in CodeIds /\ accessTokens[t] = None
      /\ UNCHANGED <<authCodes, invalidated>>
  BY DEF GenerateTokens, InExchange, ServerInv, TokenTypeOK, ExchangeCall
<1>2. /\ \A u \in TokenIds : u # t => accessTokens'[u] = accessTokens[u]
      /\ \A u \in TokenIds : minted'[u] = IF u = t THEN k ELSE minted[u]
      /\ \A y \in Exchangers : exchanges'[y] = IF y = x THEN None ELSE exchanges[y]
  BY DEF GenerateTokens, EndExchange, ServerInv, TokenTypeOK, FlowInv, FlowTypeOK, TablesTypeOK
<1>3. k \notin invalidated /\ \A u \in TokenIds : minted[u] # k
  BY <1>1 DEF ExchangesInTurn, InExchange
<1>4. accessTokens'[t] # None
  <2>1. accessTokens' = [accessTokens EXCEPT ![t] = TokenFor(authCodes[k])]
    BY DEF GenerateTokens
  <2>2. authCodes[k] \in AuthCode
    BY <1>1 DEF ServerInv, ExchangeOfCode, FlowInv, FlowTypeOK, TablesTypeOK
  <2>3. now + TokenTTL \in Nat
    BY TablesAssumption DEF ServerInv, FlowInv, FlowTypeOK, TablesTypeOK
  <2>4. TokenFor(authCodes[k]) \in AccessToken BY <2>2, <2>3 DEF TokenFor, AccessToken, AuthCode
  <2>5. QED
    BY <2>1, <2>4, SentinelAssumption DEF ServerInv, FlowInv, FlowTypeOK, TablesTypeOK
<1>5. \A u \in TokenIds : minted'[u] # None => accessTokens'[u] # None
  BY <1>2, <1>4 DEF ExchangesInTurn
<1>6. ASSUME NEW y \in Exchangers, exchanges'[y] # None
      PROVE  exchanges'[y] = exchanges[y] /\ exchanges[y].code # k
  BY <1>1, <1>2, <1>6 DEF ExchangesApart
<1>7. ASSUME NEW y \in Exchangers
      PROVE  /\ InExchange(y, "mark")' => ~authCodes[exchanges'[y].code].used
             /\ InExchange(y, "replay")' => authCodes[exchanges'[y].code].used
             /\ InExchange(y, "mint")' =>
                  /\ exchanges'[y].code \notin invalidated
                  /\ \A u \in TokenIds : minted'[u] # exchanges'[y].code
  BY <1>2, <1>6 DEF InExchange, ExchangesInTurn
<1>8. ExchangesInTurn' BY <1>1, <1>5, <1>7 DEF ExchangesInTurn, InExchange
<1>9. OneTokenPerCode' BY <1>2, <1>3 DEF OneTokenPerCode
<1>10. ReplayRevokes'
  <2> SUFFICES ASSUME NEW u \in TokenIds, minted'[u] \in invalidated
               PROVE  accessTokens'[u].revoked
    BY <1>1 DEF ReplayRevokes
  <2>1. u # t BY <1>2, <1>3
  <2>2. QED BY <1>2, <2>1 DEF ReplayRevokes
<1>11. QED BY <1>8, <1>9, <1>10

\* revokeTokensByCode: every token of the code is of the code's consent.
LEMMA RevokeTokensByCodeTurn ==
  ASSUME ServerInv, TurnInv, ExchangesApart, NEW x \in Exchangers, RevokeTokensByCode(x)
  PROVE  TurnInv'
<1> PICK k : k = exchanges[x].code OBVIOUS
<1> USE DEF TurnInv
<1>1. /\ exchanges[x] # None /\ exchanges[x].pc = "replay" /\ exchanges[x] \in ExchangeCall
      /\ k \in CodeIds /\ authCodes[k] # None
      /\ accessTokens' = TokensRevokedFor(authCodes[k].consent)
      /\ invalidated' = invalidated \cup {k}
      /\ UNCHANGED <<authCodes, minted>>
  BY DEF RevokeTokensByCode, InExchange, ServerInv, TokenTypeOK, ExchangeCall, ExchangeOfCode
<1>2. \A y \in Exchangers : exchanges'[y] = IF y = x THEN None ELSE exchanges[y]
  BY DEF RevokeTokensByCode, EndExchange, ServerInv, TokenTypeOK
<1>3. \A t \in TokenIds : TokenStays(t)
  BY <1>1, RevokedTokensStay DEF ServerInv, FlowInv, FlowTypeOK
<1>4. \A t \in TokenIds : minted'[t] # None => accessTokens'[t] # None
  BY <1>1, <1>3 DEF ExchangesInTurn, TokenStays
<1>5. \A j \in invalidated' : authCodes'[j] # None /\ authCodes'[j].used
  BY <1>1 DEF ExchangesInTurn, InExchange
<1>6. ASSUME NEW y \in Exchangers
      PROVE  /\ InExchange(y, "mark")' => ~authCodes'[exchanges'[y].code].used
             /\ InExchange(y, "replay")' => authCodes'[exchanges'[y].code].used
             /\ InExchange(y, "mint")' =>
                  /\ exchanges'[y].code \notin invalidated'
                  /\ \A t \in TokenIds : minted'[t] # exchanges'[y].code
  <2>1. CASE exchanges'[y] = None BY <2>1 DEF InExchange
  <2>2. CASE exchanges'[y] # None
    <3>1. exchanges'[y] = exchanges[y] /\ exchanges[y].code # k
      BY <1>1, <1>2, <2>2 DEF ExchangesApart
    <3>2. QED BY <1>1, <3>1 DEF InExchange, ExchangesInTurn
  <2>3. QED BY <2>1, <2>2
<1>7. ExchangesInTurn' BY <1>4, <1>5, <1>6 DEF ExchangesInTurn, InExchange
<1>8. OneTokenPerCode' BY <1>1 DEF OneTokenPerCode
<1>9. ReplayRevokes'
  <2> SUFFICES ASSUME NEW t \in TokenIds, minted[t] \in invalidated'
               PROVE  accessTokens'[t].revoked
    BY <1>1 DEF ReplayRevokes
  <2>1. minted[t] # None BY <1>1, SentinelAssumption DEF ServerInv, TokenTypeOK
  <2>2. accessTokens[t] # None BY <2>1, MintedCode
  <2>3. CASE minted[t] = k
    <3>1. accessTokens[t].consent = authCodes[k].consent BY <2>1, <2>3, MintedCode
    <3>2. accessTokens[t] \in AccessToken
      BY <2>2 DEF ServerInv, FlowInv, FlowTypeOK, TablesTypeOK
    <3>3. accessTokens'[t] = [accessTokens[t] EXCEPT !.revoked = TRUE]
      BY <1>1, <2>2, <3>1 DEF TokensRevokedFor
    <3>4. QED BY <3>2, <3>3 DEF AccessToken
  <2>4. CASE minted[t] \in invalidated
    <3>1. accessTokens[t].revoked BY <2>4 DEF ReplayRevokes
    <3>2. QED BY <1>3, <2>2, <3>1 DEF TokenStays
  <2>5. QED BY <1>1, <2>3, <2>4
<1>10. QED BY <1>7, <1>8, <1>9

\* POST /oauth/token/revoke changes no token but for revoking it.
LEMMA RevokedTokenStays ==
  ASSUME ServerInv, NEW t \in TokenIds, NEW client \in Clients, RevokeToken(t, client)
  PROVE  \A u \in TokenIds : TokenStays(u)
<1>1. /\ accessTokens[t] # None /\ accessTokens[t] \in AccessToken
      /\ accessTokens' = [accessTokens EXCEPT ![t] = [accessTokens[t] EXCEPT !.revoked = TRUE]]
  BY DEF RevokeToken, ServerInv, FlowInv, FlowTypeOK, TablesTypeOK
<1>2. [accessTokens[t] EXCEPT !.revoked = TRUE] \in AccessToken BY <1>1 DEF AccessToken
<1> SUFFICES ASSUME NEW u \in TokenIds PROVE TokenStays(u)
  OBVIOUS
<1>3. CASE u # t
  BY <1>1, <1>3 DEF TokenStays, ServerInv, FlowInv, FlowTypeOK, TablesTypeOK
<1>4. CASE u = t
  <2>1. accessTokens'[t] = [accessTokens[t] EXCEPT !.revoked = TRUE]
    BY <1>1 DEF ServerInv, FlowInv, FlowTypeOK, TablesTypeOK
  <2>2. QED BY <1>1, <1>2, <1>4, <2>1, SentinelAssumption DEF TokenStays, AccessToken
<1>5. QED BY <1>3, <1>4

\* Every step, as long as exchanges of one code do not overlap
LEMMA TurnStep ==
  ServerInv /\ ServerInv' /\ TurnInv /\ ExchangesApart /\ [ServerNext]_serverVars => TurnInv'
<1> SUFFICES ASSUME ServerInv, ServerInv', TurnInv, ExchangesApart, [ServerNext]_serverVars
             PROVE  TurnInv'
  OBVIOUS
<1>1. CASE FlowNext /\ UNCHANGED tokenVars
  <2>1. UNCHANGED <<exchanges, minted, invalidated>> BY <1>1 DEF tokenVars
  <2>2. CodesStay /\ \A t \in TokenIds : TokenStays(t)
    BY <1>1, FlowKeepsCodes, FlowKeepsTokens DEF ServerInv
  <2>3. ASSUME NEW k \in CodeIds, authCodes[k] # None
        PROVE  authCodes'[k] # None /\ (authCodes[k].used <=> authCodes'[k].used)
    BY <2>2, <2>3 DEF CodesStay
  <2>4. QED BY <2>1, <2>2, <2>3, TurnKept
<1>2. ASSUME NEW x \in Exchangers, NEW k \in CodeIds, NEW client \in Clients, NEW uri \in Uris,
             PresentCode(x, k, client, uri)
      PROVE  TurnInv'
  BY <1>2, PresentCodeTurn
<1>3. ASSUME NEW x \in Exchangers, FailExchange(x) PROVE TurnInv'
  <2>1. /\ UNCHANGED <<authCodes, accessTokens, minted, invalidated>>
        /\ \A y \in Exchangers : exchanges'[y] = exchanges[y] \/ exchanges'[y] = None
    BY <1>3 DEF FailExchange, EndExchange, tables, ServerInv, TokenTypeOK
  <2>2. \A t \in TokenIds : TokenStays(t) BY <2>1 DEF TokenStays
  <2>3. QED BY <2>1, <2>2, TurnKept
<1>4. ASSUME NEW x \in Exchangers, ExchangeStep(x) PROVE TurnInv'
  BY <1>3, <1>4, MarkCodeAsUsedTurn, GenerateTokensTurn, RevokeTokensByCodeTurn
  DEF ExchangeStep
<1>5. ASSUME NEW t \in TokenIds, NEW client \in Clients, RevokeToken(t, client)
      PROVE  TurnInv'
  <2>1. UNCHANGED <<authCodes, exchanges, minted, invalidated>> BY <1>5 DEF RevokeToken, tokenVars
  <2>2. \A u \in TokenIds : TokenStays(u) BY <1>5, RevokedTokenStays
  <2>3. QED BY <2>1, <2>2, TurnKept
<1>6. CASE UNCHANGED serverVars
  <2>1. UNCHANGED <<authCodes, accessTokens, exchanges, minted, invalidated>>
    BY <1>6 DEF serverVars, flowVars, tables, tokenVars
  <2>2. \A t \in TokenIds : TokenStays(t) BY <2>1 DEF TokenStays
  <2>3. QED BY <2>1, <2>2, TurnKept
<1>7. QED BY <1>1, <1>2, <1>4, <1>5, <1>6 DEF ServerNext, TokenNext

LEMMA TurnInit == ServerInit => TurnInv
BY SentinelAssumption
DEF ServerInit, TokenInit, TurnInv, ExchangesInTurn, InExchange, OneTokenPerCode,
    ReplayRevokes

\* As long as no two exchanges of one code overlap, however many there are, a
\* code yields at most one token (docs/oauth-authorization-flow.md:198).
THEOREM CodesSingleUse == ServerSpec /\ []ExchangesApart => []OneTokenPerCode
<1>1. TurnInv => OneTokenPerCode BY DEF TurnInv
<1>2. QED BY <1>1, TurnInit, TurnStep, ServerInvariant, PTL DEF ServerSpec

\* As long, a replay whose UPDATE took effect leaves no good token of the code,
\* then or later (docs/oauth-authorization-flow.md:298).  One that was answered
\* although the UPDATE failed promises nothing (FailExchange).
THEOREM ReplaysRevoke == ServerSpec /\ []ExchangesApart => []ReplayRevokes
<1>1. TurnInv => ReplayRevokes BY DEF TurnInv
<1>2. QED BY <1>1, TurnInit, TurnStep, ServerInvariant, PTL DEF ServerSpec

-----------------------------------------------------------------------------
(* Decisions on one request that do not overlap                            *)

RequestTurn == DecisionsInTurn /\ OneCodePerRequest

\* A call goes on with its request, or ends.
GoesOn(d) ==
  decisions'[d] # None =>
    decisions[d] # None /\ decisions'[d].request = decisions[d].request

\* A step that takes up no request, answers none and stores none
LEMMA RequestsKept ==
  ASSUME FlowTypeOK, RequestTurn, UNCHANGED <<authRequests, redirected>>,
         \A d \in Deciders : GoesOn(d)
  PROVE  RequestTurn'
BY DEF RequestTurn, DecisionsInTurn, OneCodePerRequest, GoesOn, FlowTypeOK, TablesTypeOK

\* Until its answer a decision goes on with its request.
LEMMA DecisionGoesOn ==
  ASSUME FlowInv, NEW d \in Deciders, DecisionStep(d), ~DeleteRequest(d), NEW e \in Deciders
  PROVE  GoesOn(e)
<1>1. decisions \in [Deciders -> DecisionCall \cup {None}] BY DEF FlowInv, FlowTypeOK
<1>2. decisions[d] # None /\ decisions[d] \in DecisionCall
  BY <1>1
  DEF DecisionStep, FindActiveConsent, CreateConsent, VerifyPending, ExpirePending,
      ApproveConsent, DenyConsent, InsertCode, FailDecision, InDecision
<1>3. ASSUME NEW pc, decisions' = [decisions EXCEPT ![d].pc = pc]
      PROVE  GoesOn(e)
  BY <1>1, <1>2, <1>3 DEF GoesOn, DecisionCall
<1>4. CASE FindActiveConsent(d)
  <2>1. CASE \E c, g : decisions' = [decisions EXCEPT ![d].pc = "code", ![d].consent = c,
                                                     ![d].scopes = g]
    BY <1>1, <1>2, <2>1 DEF GoesOn, DecisionCall
  <2>2. \/ \E c, g : decisions' = [decisions EXCEPT ![d].pc = "code", ![d].consent = c,
                                                   ![d].scopes = g]
        \/ decisions' = [decisions EXCEPT ![d].pc = "insert"]
    BY <1>4, Zenon DEF FindActiveConsent
  <2>3. QED BY <1>3, <2>1, <2>2
<1>5. ASSUME NEW c \in ConsentIds, CreateConsent(d, c) PROVE GoesOn(e)
  <2>1. decisions' = [decisions EXCEPT ![d].pc = "verify", ![d].consent = c]
    BY <1>5 DEF CreateConsent
  <2>2. QED BY <1>1, <1>2, <2>1 DEF GoesOn, DecisionCall
<1>6. CASE decisions' = [decisions EXCEPT ![d] = None]
  BY <1>1, <1>6 DEF GoesOn
<1>7. CASE VerifyPending(d) BY <1>3, <1>6, <1>7 DEF VerifyPending, EndDecision
<1>8. CASE ExpirePending(d) \/ FailDecision(d)
  BY <1>6, <1>8 DEF ExpirePending, FailDecision, EndDecision
<1>9. CASE ApproveConsent(d) \/ DenyConsent(d)
  BY <1>3, <1>9 DEF ApproveConsent, DenyConsent
<1>10. ASSUME NEW k \in CodeIds, InsertCode(d, k) PROVE GoesOn(e)
  <2>1. decisions' = [decisions EXCEPT ![d].pc = "delete", ![d].code = k]
    BY <1>10 DEF InsertCode
  <2>2. QED BY <1>1, <1>2, <2>1 DEF GoesOn, DecisionCall
<1>11. QED BY <1>4, <1>5, <1>7, <1>8, <1>9, <1>10 DEF DecisionStep

\* A request is stored where none was.
LEMMA AuthorizeTurn ==
  ASSUME FlowInv, FlowInv', RequestTurn, NEW r \in RequestIds, NEW customer \in Customers,
         NEW client \in Clients, NEW uri \in Uris, NEW scope \in ScopeStrings,
         Authorize(r, customer, client, uri, scope)
  PROVE  RequestTurn'
<1>1. /\ authRequests[r] = None
      /\ UNCHANGED <<redirected, decisions>>
      /\ \A q \in RequestIds : q # r => authRequests'[q] = authRequests[q]
  BY DEF Authorize, FlowInv, FlowTypeOK, TablesTypeOK
<1>2. \A k \in CodeIds : redirected[k] # None => redirected[k] \in RequestIds /\ redirected[k] # r
  BY <1>1, SentinelAssumption
  DEF RequestTurn, DecisionsInTurn, FlowInv, FlowTypeOK, TablesTypeOK
<1>3. \A d \in Deciders : decisions[d] # None =>
        decisions[d].request \in RequestIds /\ decisions[d].request # r
  BY <1>1, CallInFlight DEF RequestTurn, DecisionsInTurn, FlowInv, DecisionCall
<1>4. DecisionsInTurn' BY <1>1, <1>2, <1>3 DEF RequestTurn, DecisionsInTurn
<1>5. QED BY <1>1, <1>4 DEF RequestTurn, OneCodePerRequest

\* A decision begins on a request that is there.
LEMMA BeginDecisionTurn ==
  ASSUME FlowInv, RequestTurn, NEW d \in Deciders, NEW r \in RequestIds,
         NEW customer \in Customers, NEW action \in {"approve", "deny"},
         NEW grant \in SUBSET Scopes, BeginDecision(d, r, customer, action, grant)
  PROVE  RequestTurn'
<1>1. /\ authRequests[r] \notin {None, Deleted}
      /\ UNCHANGED <<authRequests, redirected>>
      /\ decisions'[d].request = r
      /\ \A e \in Deciders : e # d => decisions'[e] = decisions[e]
  BY DEF BeginDecision, tables, FlowInv, FlowTypeOK
<1>2. DecisionsInTurn' BY <1>1 DEF RequestTurn, DecisionsInTurn
<1>3. QED BY <1>1, <1>2 DEF RequestTurn, OneCodePerRequest

\* The request answered is used up, and no other call has it.
LEMMA DeleteRequestTurn ==
  ASSUME FlowInv, RequestTurn, DecisionsApart, NEW d \in Deciders, DeleteRequest(d)
  PROVE  RequestTurn'
<1> PICK call : call = decisions[d] OBVIOUS
<1> PICK r : r = call.request OBVIOUS
<1>1. /\ call # None /\ call \in DecisionCall /\ r \in RequestIds
      /\ authRequests[r] \notin {None, Deleted}
  BY CallInFlight
  DEF DeleteRequest, InDecision, FlowInv, DecisionCall, RequestTurn, DecisionsInTurn
<1>2. /\ authRequests'[r] = Deleted
      /\ \A q \in RequestIds : q # r => authRequests'[q] = authRequests[q]
  BY <1>1 DEF DeleteRequest, Removed, FlowInv, FlowTypeOK, TablesTypeOK
<1>3. \A k \in CodeIds : \/ redirected'[k] = redirected[k]
                         \/ redirected'[k] = r /\ k = call.code
  BY DEF DeleteRequest, FlowInv, FlowTypeOK, TablesTypeOK
<1>4. \A k \in CodeIds : redirected[k] # r
  BY <1>1, SentinelAssumption DEF RequestTurn, DecisionsInTurn
<1>5. \A e \in Deciders : decisions'[e] = IF e = d THEN None ELSE decisions[e]
  BY DEF DeleteRequest, EndDecision, FlowInv, FlowTypeOK
<1>6. ASSUME NEW k \in CodeIds, redirected'[k] # None
      PROVE  authRequests'[redirected'[k]] = Deleted
  <2>1. CASE redirected'[k] = r BY <1>2, <2>1
  <2>2. CASE redirected'[k] = redirected[k]
    <3>1. redirected[k] \in RequestIds BY <1>6, <2>2 DEF FlowInv, FlowTypeOK, TablesTypeOK
    <3>2. authRequests[redirected[k]] = Deleted
      BY <1>6, <2>2 DEF RequestTurn, DecisionsInTurn
    <3>3. QED BY <1>2, <1>4, <2>2, <3>1, <3>2
  <2>3. QED BY <1>3, <2>1, <2>2
<1>7. ASSUME NEW e \in Deciders, decisions'[e] # None
      PROVE  authRequests'[decisions'[e].request] \notin {None, Deleted}
  <2>1. e # d /\ decisions'[e] = decisions[e] BY <1>5, <1>7
  <2>2. decisions[e].request \in RequestIds BY <1>7, <2>1, CallInFlight DEF FlowInv, DecisionCall
  <2>3. decisions[e].request # r BY <1>1, <1>7, <2>1 DEF DecisionsApart
  <2>4. authRequests[decisions[e].request] \notin {None, Deleted}
    BY <1>7, <2>1 DEF RequestTurn, DecisionsInTurn
  <2>5. QED BY <1>2, <2>1, <2>2, <2>3, <2>4
<1>8. DecisionsInTurn' BY <1>6, <1>7 DEF DecisionsInTurn
<1>9. OneCodePerRequest'
  BY <1>3, <1>4 DEF RequestTurn, OneCodePerRequest
<1>10. QED BY <1>8, <1>9 DEF RequestTurn

\* Every step, as long as decisions on one request do not overlap
LEMMA RequestTurnStep ==
  ServerInv /\ ServerInv' /\ RequestTurn /\ DecisionsApart /\ [ServerNext]_serverVars
    => RequestTurn'
<1> SUFFICES ASSUME ServerInv, ServerInv', RequestTurn, DecisionsApart,
                    [ServerNext]_serverVars
             PROVE  RequestTurn'
  OBVIOUS
<1>1. FlowInv /\ FlowInv' /\ FlowTypeOK BY DEF ServerInv, FlowInv
<1>2. CASE UNCHANGED <<authRequests, redirected, decisions>>
  BY <1>1, <1>2, RequestsKept DEF GoesOn
<1>3. ASSUME NEW r \in RequestIds, NEW customer \in Customers, NEW client \in Clients,
             NEW uri \in Uris, NEW scope \in ScopeStrings,
             Authorize(r, customer, client, uri, scope)
      PROVE  RequestTurn'
  BY <1>1, <1>3, AuthorizeTurn
<1>4. ASSUME NEW d \in Deciders, NEW r \in RequestIds, NEW customer \in Customers,
             NEW action \in {"approve", "deny"}, NEW grant \in SUBSET Scopes,
             BeginDecision(d, r, customer, action, grant)
      PROVE  RequestTurn'
  BY <1>1, <1>4, BeginDecisionTurn
<1>5. ASSUME NEW d \in Deciders, DecisionStep(d) PROVE RequestTurn'
  <2>1. CASE DeleteRequest(d) BY <1>1, <2>1, DeleteRequestTurn
  <2>2. CASE ~DeleteRequest(d)
    <3>1. UNCHANGED <<authRequests, redirected>>
      BY <1>5, <2>2
      DEF DecisionStep, FindActiveConsent, CreateConsent, VerifyPending, ExpirePending,
          ApproveConsent, DenyConsent, InsertCode, FailDecision, tables
    <3>2. \A e \in Deciders : GoesOn(e) BY <1>1, <1>5, <2>2, DecisionGoesOn
    <3>3. QED BY <1>1, <3>1, <3>2, RequestsKept
  <2>3. QED BY <2>1, <2>2
<1>6. ASSUME NEW v \in Revokers, NEW caller \in Callers, NEW c \in ConsentIds,
             BeginRevocation(v, caller, c)
      PROVE  RequestTurn'
  BY <1>2, <1>6 DEF BeginRevocation, tables
<1>7. ASSUME NEW v \in Revokers, RevocationStep(v) PROVE RequestTurn'
  BY <1>2, <1>7
  DEF RevocationStep, VerifyApproved, RevokeConsent, RevokeTokens, FailRevocation, tables
<1>8. CASE ExpireOldConsents \/ Tick BY <1>2, <1>8 DEF ExpireOldConsents, Tick, tables
<1>9. CASE TokenNext /\ UNCHANGED <<decisions, revocations>>
  BY <1>2, <1>9
  DEF TokenNext, PresentCode, ExchangeStep, MarkCodeAsUsed, GenerateTokens,
      RevokeTokensByCode, FailExchange, RevokeToken, tables
<1>10. CASE UNCHANGED serverVars BY <1>2, <1>10 DEF serverVars, flowVars, tables
<1>11. QED
  BY <1>3, <1>4, <1>5, <1>6, <1>7, <1>8, <1>9, <1>10 DEF ServerNext, FlowNext

LEMMA RequestTurnInit == ServerInit => RequestTurn
BY DEF ServerInit, FlowInit, TablesInit, RequestTurn, DecisionsInTurn, OneCodePerRequest

\* As long as no two decisions on one request overlap, a request is answered
\* with at most one code (consent-handler.js:347), whatever fails half-way.
THEOREM RequestsSingleUse == ServerSpec /\ []DecisionsApart => []OneCodePerRequest
<1>1. RequestTurn => OneCodePerRequest BY DEF RequestTurn
<1>2. QED BY <1>1, RequestTurnInit, RequestTurnStep, ServerInvariant, PTL DEF ServerSpec

\* Calls that do not overlap on one code or one request take turns.
THEOREM CallsInTurn ==
  ServerSpec /\ [](ExchangesApart /\ DecisionsApart) => []InTurn
<1>1. TurnInv /\ RequestTurn => InTurn BY DEF TurnInv, RequestTurn, InTurn
<1>2. QED
  BY <1>1, TurnInit, TurnStep, RequestTurnInit, RequestTurnStep, ServerInvariant, PTL DEF ServerSpec

=============================================================================
