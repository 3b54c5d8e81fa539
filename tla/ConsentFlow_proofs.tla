------------------------- MODULE ConsentFlow_proofs -------------------------
(***************************************************************************)
(* Proofs about ConsentFlow, for any number of customers, clients,         *)
(* consents, concurrent decisions and concurrent revocations, whatever     *)
(* fails half-way.  FlowInv is inductive; CodeBacked is one of its         *)
(* conjuncts, and NeverResurrected and the refinement of ConsentLifecycle  *)
(* follow from it one step at a time.                                      *)
(*                                                                         *)
(* Every conjunct of FlowInv that looks at consents needs only that an     *)
(* approval, once given, keeps its terms (Kept).  So each action that      *)
(* writes to consents is first shown to do that.                           *)
(***************************************************************************)
EXTENDS ConsentFlow, TLAPS

-----------------------------------------------------------------------------
(* Rows and calls                                                          *)

\* A row of consents that is there is a consent, so that its fields are typed.
LEMMA ConsentRow ==
  ASSUME FlowTypeOK, NEW c \in ConsentIds, consents[c] # None
  PROVE  consents[c] \in Consent
BY DEF FlowTypeOK, TablesTypeOK

\* A call in flight of handleConsentDecision is a record of its local variables.
LEMMA CallInFlight ==
  ASSUME FlowTypeOK, NEW d \in Deciders, decisions[d] # None
  PROVE  decisions[d] \in DecisionCall
BY DEF FlowTypeOK

\* The initial state has no rows and no calls in flight.
LEMMA InitInv == FlowInit => FlowInv
<1> SUFFICES ASSUME FlowInit PROVE FlowInv
    OBVIOUS
<1> USE DEF FlowInit, TablesInit
<1>1. FlowTypeOK
      BY DEF FlowTypeOK, TablesTypeOK
<1>2. PendingOwned
      BY DEF PendingOwned, Deciding
<1>3. CodeCallBacked /\ AnswerHasCode
      BY DEF CodeCallBacked, AnswerHasCode, InDecision
<1>4. RevocationOfApproved /\ ApprovalGrants
      BY DEF RevocationOfApproved, ApprovalGrants
<1>5. CodeBacked
      BY DEF CodeBacked
<1> QED BY <1>1, <1>2, <1>3, <1>4, <1>5 DEF FlowInv

-----------------------------------------------------------------------------
(* Types: every action keeps every table and every call well-formed        *)

\* handleAuthorizationRequest
LEMMA AuthorizeType ==
  ASSUME FlowTypeOK, NEW r \in RequestIds, NEW customer \in Customers,
         NEW client \in Clients, NEW uri \in Uris, NEW scope \in ScopeStrings,
         Authorize(r, customer, client, uri, scope)
  PROVE  FlowTypeOK'
<1> USE TablesAssumption DEF FlowTypeOK, TablesTypeOK, Authorize
<1>1. now + RequestTTL \in Nat
      OBVIOUS
<1>2. [customer |-> customer, client |-> client, uri |-> uri, scope |-> scope,
       expires_at |-> now + RequestTTL] \in AuthRequest
      BY <1>1 DEF AuthRequest
<1> QED BY <1>2

\* The checks of handleConsentDecision
LEMMA BeginDecisionType ==
  ASSUME FlowTypeOK, NEW d \in Deciders, NEW r \in RequestIds,
         NEW customer \in Customers, NEW action \in {"approve", "deny"},
         NEW grant \in SUBSET Scopes,
         BeginDecision(d, r, customer, action, grant)
  PROVE  FlowTypeOK'
<1> DEFINE row == authRequests[r]
           call == [pc |-> IF action = "approve" THEN "find" ELSE "insert",
                    action |-> action, request |-> r, row |-> row,
                    scopes |-> IF action = "approve" THEN ScopesToGrant(grant, row.scope)
                                                     ELSE row.scope,
                    consent |-> None, code |-> None]
<1>1. row \in AuthRequest
      BY DEF FlowTypeOK, TablesTypeOK, BeginDecision
<1>2. row.scope \in ScopeStrings
      BY <1>1 DEF AuthRequest
<1>3. ScopesToGrant(grant, row.scope) \in ScopeStrings
      BY <1>2 DEF ScopesToGrant, ScopeStrings
<1>4. call \in DecisionCall
      BY <1>1, <1>2, <1>3 DEF DecisionCall
<1> QED BY <1>4 DEF FlowTypeOK, TablesTypeOK, BeginDecision, tables

\* findActiveConsent
LEMMA FindActiveConsentType ==
  ASSUME FlowTypeOK, NEW d \in Deciders, FindActiveConsent(d)
  PROVE  FlowTypeOK'
<1>1. decisions[d] \in DecisionCall
      BY CallInFlight DEF FindActiveConsent, InDecision
<1>2. CASE decisions' = [decisions EXCEPT ![d].pc = "insert"]
      BY <1>1, <1>2 DEF FlowTypeOK, TablesTypeOK, FindActiveConsent, DecisionCall, tables
<1>3. ASSUME NEW c \in ActiveConsents(decisions[d].row.customer, decisions[d].row.client),
             decisions[d].scopes \subseteq consents[c].granted,
             decisions' = [decisions EXCEPT ![d].pc = "code", ![d].consent = c,
                                            ![d].scopes = consents[c].granted]
      PROVE  FlowTypeOK'
      <2>1. c \in ConsentIds /\ consents[c] # None
            BY DEF ActiveConsents
      <2>2. consents[c] \in Consent
            BY <2>1, ConsentRow
      <2>3. consents[c].granted \in ScopeStrings
            BY <1>1, <1>3, <2>2 DEF Consent, DecisionCall, ScopeStrings
      <2>4. decisions' \in [Deciders -> DecisionCall \cup {None}]
            BY <1>1, <1>3, <2>1, <2>3 DEF DecisionCall, FlowTypeOK
      <2> QED BY <2>4 DEF FlowTypeOK, TablesTypeOK, FindActiveConsent, tables
<1> QED BY <1>2, <1>3 DEF FindActiveConsent, Newest, ScopesOf

\* createConsent
LEMMA CreateConsentType ==
  ASSUME FlowTypeOK, NEW d \in Deciders, NEW c \in ConsentIds, CreateConsent(d, c)
  PROVE  FlowTypeOK' /\ consents'[c] \in Consent
<1> DEFINE row == decisions[d].row
           consent == [customer |-> row.customer, client |-> row.client,
                       requested |-> row.scope, granted |-> {}, status |-> "pending",
                       expires_at |-> now + ConsentTTL, approved_at |-> 0]
<1>1. decisions[d] \in DecisionCall
      BY CallInFlight DEF CreateConsent, InDecision
<1>2. row \in AuthRequest
      BY <1>1 DEF DecisionCall
<1>3. now + ConsentTTL \in Nat
      BY TablesAssumption DEF FlowTypeOK, TablesTypeOK
<1>4. consent \in Consent
      BY <1>2, <1>3 DEF Consent, AuthRequest, Statuses
<1>5. consents' \in [ConsentIds -> Consent \cup {None}]
      BY <1>4 DEF FlowTypeOK, TablesTypeOK, CreateConsent
<1>6. decisions' \in [Deciders -> DecisionCall \cup {None}]
      BY <1>1 DEF FlowTypeOK, CreateConsent, DecisionCall
<1>7. consents'[c] = consent
      BY DEF FlowTypeOK, TablesTypeOK, CreateConsent
<1> QED BY <1>4, <1>5, <1>6, <1>7 DEF FlowTypeOK, TablesTypeOK, CreateConsent

\* The SELECT of approveConsent and denyConsent
LEMMA VerifyPendingType ==
  ASSUME FlowTypeOK, NEW d \in Deciders, VerifyPending(d)
  PROVE  FlowTypeOK'
<1>1. decisions[d] \in DecisionCall
      BY CallInFlight DEF VerifyPending, InDecision
<1>2. decisions' \in [Deciders -> DecisionCall \cup {None}]
      BY <1>1 DEF FlowTypeOK, VerifyPending, EndDecision, DecisionCall
<1> QED BY <1>2 DEF FlowTypeOK, TablesTypeOK, VerifyPending, tables

\* The three UPDATEs of a pending consent
LEMMA SettleType ==
  ASSUME FlowTypeOK, PendingOwned, NEW d \in Deciders,
         ExpirePending(d) \/ ApproveConsent(d) \/ DenyConsent(d)
  PROVE  FlowTypeOK'
<1> DEFINE c == decisions[d].consent
<1>1. decisions[d] \in DecisionCall
      BY CallInFlight DEF ExpirePending, ApproveConsent, DenyConsent, InDecision
<1>2. c \in ConsentIds /\ consents[c] \in Consent
      BY <1>1, ConsentRow DEF PendingOwned, Deciding, PendingFor, Pending, DecisionCall,
         ExpirePending, ApproveConsent, DenyConsent, InDecision
<1>3. now \in Nat /\ decisions[d].scopes \in SUBSET Scopes
      BY <1>1 DEF FlowTypeOK, TablesTypeOK, DecisionCall, ScopeStrings
<1>4. consents' \in [ConsentIds -> Consent \cup {None}]
      BY <1>2, <1>3 DEF FlowTypeOK, TablesTypeOK, Consent, Statuses,
         ExpirePending, ApproveConsent, DenyConsent
<1>5. decisions' \in [Deciders -> DecisionCall \cup {None}]
      BY <1>1 DEF FlowTypeOK, DecisionCall, EndDecision,
         ExpirePending, ApproveConsent, DenyConsent
<1> QED BY <1>4, <1>5 DEF FlowTypeOK, TablesTypeOK, ExpirePending, ApproveConsent, DenyConsent

\* INSERT INTO authorization_codes
LEMMA InsertCodeType ==
  ASSUME FlowTypeOK, CodeCallBacked, NEW d \in Deciders, NEW k \in CodeIds, InsertCode(d, k)
  PROVE  FlowTypeOK'
<1> DEFINE call == decisions[d]
           code == [customer |-> call.row.customer, client |-> call.row.client,
                    uri |-> call.row.uri, scope |-> call.scopes, consent |-> call.consent,
                    expires_at |-> now + CodeTTL, used |-> FALSE]
<1>1. call \in DecisionCall /\ call.consent \in ConsentIds
      BY CallInFlight DEF InsertCode, InDecision, CodeCallBacked, DecisionCall
<1>2. call.row \in AuthRequest /\ call.scopes \in ScopeStrings
      BY <1>1 DEF DecisionCall
<1>3. now + CodeTTL \in Nat
      BY TablesAssumption DEF FlowTypeOK, TablesTypeOK
<1>4. code \in AuthCode
      BY <1>1, <1>2, <1>3 DEF AuthCode, AuthRequest
<1>5. authCodes' \in [CodeIds -> AuthCode \cup {None}]
      BY <1>4 DEF FlowTypeOK, TablesTypeOK, InsertCode
<1>6. decisions' \in [Deciders -> DecisionCall \cup {None}]
      BY <1>1 DEF FlowTypeOK, InsertCode, DecisionCall
<1> QED BY <1>5, <1>6 DEF FlowTypeOK, TablesTypeOK, InsertCode

\* DELETE FROM authorization_requests, and the answer
LEMMA DeleteRequestType ==
  ASSUME FlowTypeOK, AnswerHasCode, NEW d \in Deciders, DeleteRequest(d)
  PROVE  FlowTypeOK'
<1>1. decisions[d] \in DecisionCall
      BY CallInFlight DEF DeleteRequest, InDecision
<1>2. redirected' \in [CodeIds -> RequestIds \cup {None}]
      BY <1>1 DEF FlowTypeOK, TablesTypeOK, DeleteRequest, DecisionCall
<1>3. authRequests' \in [RequestIds -> AuthRequest \cup {None, Deleted}]
      BY DEF FlowTypeOK, TablesTypeOK, DeleteRequest, Removed
<1> QED BY <1>2, <1>3 DEF FlowTypeOK, TablesTypeOK, DeleteRequest, EndDecision

\* handleConsentRevocation
LEMMA RevocationType ==
  ASSUME FlowTypeOK, RevocationOfApproved, NEW v \in Revokers, RevocationStep(v)
  PROVE  FlowTypeOK'
<1> DEFINE c == revocations[v].consent
<1>1. revocations[v] \in RevocationCall /\ revocations[v] # None
      BY DEF FlowTypeOK, RevocationStep, VerifyApproved, RevokeConsent, RevokeTokens,
         FailRevocation, InRevocation
<1>2. c \in ConsentIds /\ consents[c] \in Consent
      BY <1>1, ConsentRow DEF RevocationOfApproved, RevocationCall
<1>3. CASE VerifyApproved(v)
      BY <1>1, <1>3 DEF FlowTypeOK, TablesTypeOK, VerifyApproved, EndRevocation, RevocationCall,
         tables
<1>4. CASE RevokeConsent(v)
      <2>1. consents' \in [ConsentIds -> Consent \cup {None}]
            BY <1>2, <1>4 DEF FlowTypeOK, TablesTypeOK, RevokeConsent, Consent, Statuses
      <2>2. revocations' \in [Revokers -> RevocationCall \cup {None}]
            BY <1>1, <1>4 DEF FlowTypeOK, RevokeConsent, RevocationCall
      <2> QED BY <1>4, <2>1, <2>2 DEF FlowTypeOK, TablesTypeOK, RevokeConsent
<1>5. CASE RevokeTokens(v)
      <2>1. accessTokens' \in [TokenIds -> AccessToken \cup {None}]
            BY <1>5 DEF FlowTypeOK, TablesTypeOK, RevokeTokens, TokensRevokedFor, AccessToken
      <2> QED BY <1>5, <2>1 DEF FlowTypeOK, TablesTypeOK, RevokeTokens, EndRevocation
<1>6. CASE FailRevocation(v)
      BY <1>6 DEF FlowTypeOK, TablesTypeOK, FailRevocation, EndRevocation, tables
<1> QED BY <1>3, <1>4, <1>5, <1>6 DEF RevocationStep

\* The batch job
LEMMA ExpireOldConsentsType ==
  ASSUME FlowTypeOK, ExpireOldConsents
  PROVE  FlowTypeOK'
<1>1. consents' \in [ConsentIds -> Consent \cup {None}]
      BY DEF FlowTypeOK, TablesTypeOK, ExpireOldConsents, Consent, Statuses
<1> QED BY <1>1 DEF FlowTypeOK, TablesTypeOK, ExpireOldConsents

-----------------------------------------------------------------------------
(* What a step keeps                                                       *)

\* No consent disappears, an approval keeps its terms, and a new approval
\* grants something.
Kept ==
  \A c \in ConsentIds :
    /\ consents[c] # None => consents'[c] # None
    /\ WasApproved(c) => /\ WasApproved(c)'
                         /\ consents'[c].customer = consents[c].customer
                         /\ consents'[c].client = consents[c].client
                         /\ consents'[c].granted = consents[c].granted
    /\ consents'[c] # None /\ consents'[c].status = "approved"
         => consents'[c] = consents[c] \/ consents'[c].granted # {}

\* A pending consent is left alone unless the call d is deciding it.
PendingKept(d) ==
  \A c \in ConsentIds :
    Pending(c) /\ ~(Deciding(d) /\ decisions[d].consent = c) => consents'[c] = consents[c]

\* The other calls go on as they were.
OthersKept(d) ==
  /\ \A e \in Deciders \ {d} : decisions'[e] = decisions[e]
  /\ revocations' = revocations

\* The share of one call in FlowInv
CallOK(d) ==
  /\ Deciding(d) => /\ decisions[d].consent # None
                    /\ PendingFor(decisions[d].consent, decisions[d].row)
  /\ InDecision(d, "code") =>
       /\ decisions[d].consent # None
       /\ Grants(decisions[d].consent, decisions[d].row.customer,
                 decisions[d].row.client, decisions[d].scopes)
  /\ InDecision(d, "delete") /\ decisions[d].action = "approve" => decisions[d].code # None

\* The consent that the call d decides next is no other call's.
Alone(d) ==
  \A e \in Deciders \ {d} :
    Deciding(e) /\ Deciding(d)' => decisions[e].consent # decisions'[d].consent

\* A grant survives any step that keeps approvals.
LEMMA GrantsKept ==
  ASSUME Kept, NEW c \in ConsentIds, NEW customer, NEW client, NEW scope,
         Grants(c, customer, client, scope)
  PROVE  /\ consents'[c] # None
         /\ WasApproved(c)'
         /\ consents'[c].customer = customer
         /\ consents'[c].client = client
         /\ consents'[c].granted = scope
BY DEF Kept, Grants, WasApproved

\* Codes stay backed by any step that keeps approvals and stores no code.
LEMMA CodesKept ==
  ASSUME FlowTypeOK, CodeBacked, Kept, authCodes' = authCodes
  PROVE  CodeBacked'
<1> SUFFICES ASSUME NEW k \in CodeIds, authCodes[k] # None
             PROVE  Grants(authCodes[k].consent, authCodes[k].customer,
                           authCodes[k].client, authCodes[k].scope)'
    BY DEF CodeBacked
<1>1. authCodes[k] \in AuthCode
      BY DEF FlowTypeOK, TablesTypeOK
<1>2. authCodes[k].consent \in ConsentIds
      BY <1>1 DEF AuthCode
<1>3. Grants(authCodes[k].consent, authCodes[k].customer, authCodes[k].client,
             authCodes[k].scope)
      BY DEF CodeBacked
<1> QED BY <1>2, <1>3, GrantsKept DEF Grants

\* Approvals stay worth something.
LEMMA ApprovalsKept ==
  ASSUME ApprovalGrants, Kept
  PROVE  ApprovalGrants'
BY DEF ApprovalGrants, Kept

\* Revocations in flight stay of approved consents.
LEMMA RevocationsKept ==
  ASSUME FlowTypeOK, RevocationOfApproved, Kept, revocations' = revocations
  PROVE  RevocationOfApproved'
<1> SUFFICES ASSUME NEW v \in Revokers, revocations[v] # None
             PROVE  /\ consents'[revocations[v].consent] # None
                    /\ revocations[v].pc # "verify" => WasApproved(revocations[v].consent)'
    BY DEF RevocationOfApproved
<1>1. revocations[v].consent \in ConsentIds
      BY DEF FlowTypeOK, RevocationCall
<1> QED BY <1>1 DEF RevocationOfApproved, Kept

\* Decisions in flight stay right when the step is not one of theirs.
LEMMA DecisionsKept ==
  ASSUME FlowTypeOK, PendingOwned, CodeCallBacked, AnswerHasCode, Kept,
         decisions' = decisions,
         \A c \in ConsentIds : Pending(c) => consents'[c] = consents[c]
  PROVE  PendingOwned' /\ CodeCallBacked' /\ AnswerHasCode'
<1>1. PendingOwned'
      <2> SUFFICES ASSUME NEW d \in Deciders, Deciding(d)
                   PROVE  PendingFor(decisions[d].consent, decisions[d].row)'
          BY DEF PendingOwned, Deciding
      <2>1. /\ decisions[d].consent \in ConsentIds
            /\ PendingFor(decisions[d].consent, decisions[d].row)
            BY CallInFlight DEF PendingOwned, Deciding, DecisionCall
      <2> QED BY <2>1 DEF PendingFor, Pending
<1>2. CodeCallBacked'
      <2> SUFFICES ASSUME NEW d \in Deciders, InDecision(d, "code")
                   PROVE  Grants(decisions[d].consent, decisions[d].row.customer,
                                 decisions[d].row.client, decisions[d].scopes)'
          BY DEF CodeCallBacked, InDecision
      <2>1. decisions[d].consent \in ConsentIds
            BY CallInFlight DEF CodeCallBacked, InDecision, DecisionCall
      <2> QED BY <2>1, GrantsKept DEF CodeCallBacked, Grants
<1>3. AnswerHasCode'
      BY DEF AnswerHasCode, InDecision
<1> QED BY <1>1, <1>2, <1>3

\* One step of the call d: enough to look at d.
LEMMA CallStep ==
  ASSUME FlowInv, FlowTypeOK', CodeBacked', NEW d \in Deciders,
         Kept, PendingKept(d), OthersKept(d), CallOK(d)', Alone(d)
  PROVE  FlowInv'
<1> USE DEF FlowInv
<1>1. PendingOwned'
      <2>1. ASSUME NEW e \in Deciders, Deciding(e)'
            PROVE  (/\ decisions[e].consent # None
                    /\ PendingFor(decisions[e].consent, decisions[e].row))'
            <3>1. CASE e = d
                  BY <2>1, <3>1 DEF CallOK
            <3>2. CASE e # d
                  <4>1. decisions'[e] = decisions[e] /\ Deciding(e)
                        BY <2>1, <3>2 DEF OthersKept, Deciding
                  <4>2. /\ decisions[e].consent \in ConsentIds
                        /\ PendingFor(decisions[e].consent, decisions[e].row)
                        BY <4>1, CallInFlight DEF PendingOwned, Deciding, DecisionCall
                  <4>3. ~(Deciding(d) /\ decisions[d].consent = decisions[e].consent)
                        BY <3>2, <4>1 DEF PendingOwned
                  <4> QED BY <4>1, <4>2, <4>3, SentinelAssumption DEF PendingKept, PendingFor, Pending
            <3> QED BY <3>1, <3>2
      <2>2. ASSUME NEW e \in Deciders, NEW f \in Deciders, Deciding(e)', Deciding(f)',
                   decisions'[e].consent = decisions'[f].consent
            PROVE  e = f
            <3>1. CASE e # d /\ f # d
                  BY <2>2, <3>1 DEF OthersKept, PendingOwned, Deciding
            <3>2. CASE e = d /\ f # d
                  BY <2>2, <3>2 DEF OthersKept, Alone, Deciding
            <3>3. CASE e # d /\ f = d
                  BY <2>2, <3>3 DEF OthersKept, Alone, Deciding
            <3> QED BY <3>1, <3>2, <3>3
      <2> QED BY <2>1, <2>2 DEF PendingOwned
<1>2. CodeCallBacked'
      <2> SUFFICES ASSUME NEW e \in Deciders, InDecision(e, "code")'
                   PROVE  (/\ decisions[e].consent # None
                           /\ Grants(decisions[e].consent, decisions[e].row.customer,
                                     decisions[e].row.client, decisions[e].scopes))'
          BY DEF CodeCallBacked
      <2>1. CASE e = d
            BY <2>1 DEF CallOK
      <2>2. CASE e # d
            <3>1. decisions'[e] = decisions[e] /\ InDecision(e, "code")
                  BY <2>2 DEF OthersKept, InDecision
            <3>2. decisions[e].consent \in ConsentIds
                  BY <3>1, CallInFlight DEF CodeCallBacked, InDecision, DecisionCall
            <3>3. Grants(decisions[e].consent, decisions[e].row.customer,
                         decisions[e].row.client, decisions[e].scopes)
                  BY <3>1 DEF CodeCallBacked
            <3> QED BY <3>1, <3>2, <3>3, GrantsKept, SentinelAssumption DEF Grants
      <2> QED BY <2>1, <2>2
<1>3. AnswerHasCode'
      <2> SUFFICES ASSUME NEW e \in Deciders, InDecision(e, "delete")',
                          decisions'[e].action = "approve"
                   PROVE  decisions'[e].code # None
          BY DEF AnswerHasCode
      <2>1. CASE e = d
            BY <2>1 DEF CallOK
      <2>2. CASE e # d
            BY <2>2 DEF OthersKept, InDecision, AnswerHasCode
      <2> QED BY <2>1, <2>2
<1>4. RevocationOfApproved'
      BY RevocationsKept DEF OthersKept
<1> QED BY <1>1, <1>2, <1>3, <1>4, ApprovalsKept

\* A step that leaves consents alone keeps every approval.
LEMMA SameConsents ==
  ASSUME consents' = consents
  PROVE  Kept /\ \A d \in Deciders : PendingKept(d)
BY DEF Kept, PendingKept, WasApproved, Pending

\* A step of no call and that stores no code: enough to look at consents.
LEMMA QuietStep ==
  ASSUME FlowInv, FlowTypeOK', Kept, \A c \in ConsentIds : Pending(c) => consents'[c] = consents[c],
         decisions' = decisions, revocations' = revocations, authCodes' = authCodes
  PROVE  FlowInv'
BY DecisionsKept, CodesKept, ApprovalsKept, RevocationsKept DEF FlowInv

-----------------------------------------------------------------------------
(* Each action preserves FlowInv                                           *)

\* handleAuthorizationRequest stores a request and touches nothing else.
LEMMA AuthorizeInv ==
  ASSUME FlowInv, NEW r \in RequestIds, NEW customer \in Customers,
         NEW client \in Clients, NEW uri \in Uris, NEW scope \in ScopeStrings,
         Authorize(r, customer, client, uri, scope)
  PROVE  FlowInv'
<1>1. FlowTypeOK'
      BY AuthorizeType DEF FlowInv
<1>2. /\ consents' = consents /\ authCodes' = authCodes
      /\ decisions' = decisions /\ revocations' = revocations
      BY DEF Authorize
<1>3. Kept /\ \A c \in ConsentIds : Pending(c) => consents'[c] = consents[c]
      BY <1>2, SameConsents DEF Pending
<1> QED BY <1>1, <1>2, <1>3, QuietStep

\* A new call decides nothing yet.
LEMMA BeginDecisionInv ==
  ASSUME FlowInv, NEW d \in Deciders, NEW r \in RequestIds,
         NEW customer \in Customers, NEW action \in {"approve", "deny"},
         NEW grant \in SUBSET Scopes,
         BeginDecision(d, r, customer, action, grant)
  PROVE  FlowInv'
<1>1. FlowTypeOK'
      BY BeginDecisionType DEF FlowInv
<1>2. Kept /\ PendingKept(d)
      BY SameConsents DEF BeginDecision, tables
<1>3. CodeBacked'
      BY <1>2, CodesKept DEF FlowInv, BeginDecision, tables
<1>4. OthersKept(d)
      BY DEF OthersKept, BeginDecision, FlowInv, FlowTypeOK
<1>5. ~Deciding(d)' /\ ~InDecision(d, "code")' /\ ~InDecision(d, "delete")'
      BY DEF Deciding, InDecision, BeginDecision, FlowInv, FlowTypeOK
<1> QED BY <1>1, <1>2, <1>3, <1>4, <1>5, CallStep DEF CallOK, Alone

\* A call that ends leaves its consent as the UPDATE left it.
LEMMA EndedCall ==
  ASSUME FlowInv, FlowTypeOK', CodeBacked', NEW d \in Deciders, EndDecision(d),
         Kept, PendingKept(d), revocations' = revocations
  PROVE  FlowInv'
<1>1. OthersKept(d)
      BY DEF OthersKept, EndDecision, FlowInv, FlowTypeOK
<1>2. ~Deciding(d)' /\ ~InDecision(d, "code")' /\ ~InDecision(d, "delete")'
      BY DEF Deciding, InDecision, EndDecision, FlowInv, FlowTypeOK
<1> QED BY <1>1, <1>2, CallStep DEF CallOK, Alone

\* findActiveConsent: a consent that is reused grants what the code will carry.
LEMMA FindActiveConsentInv ==
  ASSUME FlowInv, NEW d \in Deciders, FindActiveConsent(d)
  PROVE  FlowInv'
<1>1. FlowTypeOK'
      BY FindActiveConsentType DEF FlowInv
<1>2. Kept /\ PendingKept(d)
      BY SameConsents DEF FindActiveConsent, tables
<1>3. CodeBacked'
      BY <1>2, CodesKept DEF FlowInv, FindActiveConsent, tables
<1>4. decisions[d] \in DecisionCall /\ decisions[d] # None /\ consents' = consents
      BY CallInFlight DEF FlowInv, FindActiveConsent, InDecision, tables
<1>5. CASE decisions' = [decisions EXCEPT ![d].pc = "insert"]
      <2>1. OthersKept(d)
            BY <1>5 DEF OthersKept, FindActiveConsent, FlowInv, FlowTypeOK
      <2>2. ~Deciding(d)' /\ ~InDecision(d, "code")' /\ ~InDecision(d, "delete")'
            BY <1>4, <1>5 DEF Deciding, InDecision, FlowInv, FlowTypeOK, DecisionCall
      <2> QED BY <1>1, <1>2, <1>3, <2>1, <2>2, CallStep DEF CallOK, Alone
<1>6. ASSUME NEW c \in ActiveConsents(decisions[d].row.customer, decisions[d].row.client),
             decisions[d].scopes \subseteq consents[c].granted,
             decisions' = [decisions EXCEPT ![d].pc = "code", ![d].consent = c,
                                            ![d].scopes = consents[c].granted]
      PROVE  FlowInv'
      <2>1. /\ c \in ConsentIds /\ consents[c] # None
            /\ consents[c].customer = decisions[d].row.customer
            /\ consents[c].client = decisions[d].row.client
            /\ consents[c].status = "approved"
            BY DEF ActiveConsents
      <2>2. consents[c].granted # {}
            BY <1>4, <1>6 DEF DecisionCall, ScopeStrings
      <2>3. /\ decisions'[d].pc = "code" /\ decisions'[d].consent = c
            /\ decisions'[d].scopes = consents[c].granted
            /\ decisions'[d].row = decisions[d].row
            BY <1>4, <1>6 DEF FlowInv, FlowTypeOK, DecisionCall
      <2>4. Grants(c, decisions[d].row.customer, decisions[d].row.client, consents[c].granted)
            BY <2>1, <2>2 DEF Grants, WasApproved
      <2>5. CallOK(d)' /\ ~Deciding(d)'
            BY <1>4, <2>1, <2>3, <2>4, SentinelAssumption
            DEF CallOK, Deciding, InDecision, Grants, WasApproved
      <2>6. OthersKept(d)
            BY <1>6 DEF OthersKept, FindActiveConsent, FlowInv, FlowTypeOK
      <2> QED BY <1>1, <1>2, <1>3, <2>5, <2>6, CallStep DEF Alone
<1> QED BY <1>5, <1>6 DEF FindActiveConsent, Newest, ScopesOf

\* createConsent: the new consent is pending and no other call's.
LEMMA CreateConsentInv ==
  ASSUME FlowInv, NEW d \in Deciders, NEW c \in ConsentIds, CreateConsent(d, c)
  PROVE  FlowInv'
<1>1. FlowTypeOK'
      BY CreateConsentType DEF FlowInv
<1>2. decisions[d] \in DecisionCall /\ decisions[d] # None /\ ~Deciding(d)
      BY CallInFlight DEF FlowInv, CreateConsent, InDecision, Deciding
<1>3. /\ \A o \in ConsentIds \ {c} : consents'[o] = consents[o]
      /\ consents[c] = None /\ consents'[c].status = "pending"
      BY DEF CreateConsent, FlowInv, FlowTypeOK, TablesTypeOK
<1>4. Kept /\ PendingKept(d)
      BY <1>3 DEF Kept, PendingKept, WasApproved, Pending
<1>5. CodeBacked'
      BY <1>4, CodesKept DEF FlowInv, CreateConsent
<1>6. OthersKept(d)
      BY DEF OthersKept, CreateConsent, FlowInv, FlowTypeOK
<1>7. decisions'[d].pc = "verify" /\ decisions'[d].consent = c
      BY <1>2 DEF CreateConsent, FlowInv, FlowTypeOK, DecisionCall
<1>8. PendingFor(c, decisions[d].row)' /\ decisions'[d].row = decisions[d].row
      <2>1. consents'[c] # None
            BY CreateConsentType, SentinelAssumption DEF FlowInv
      <2>2. /\ consents'[c].status = "pending"
            /\ consents'[c].customer = decisions[d].row.customer
            /\ consents'[c].client = decisions[d].row.client
            BY DEF CreateConsent, FlowInv, FlowTypeOK, TablesTypeOK
      <2>3. decisions'[d].row = decisions[d].row
            BY <1>2 DEF CreateConsent, FlowInv, FlowTypeOK, DecisionCall
      <2> QED BY <2>1, <2>2, <2>3 DEF PendingFor, Pending
<1>9. CallOK(d)'
      BY <1>7, <1>8, SentinelAssumption DEF CallOK, InDecision, PendingFor, Pending
<1>10. Alone(d)
      <2> SUFFICES ASSUME NEW e \in Deciders, Deciding(e) PROVE decisions[e].consent # c
          BY <1>7 DEF Alone
      <2> QED BY DEF FlowInv, PendingOwned, PendingFor, Pending, CreateConsent
<1> QED BY <1>1, <1>4, <1>5, <1>6, <1>9, <1>10, CallStep

\* The SELECT that finds the consent pending
LEMMA VerifyPendingInv ==
  ASSUME FlowInv, NEW d \in Deciders, VerifyPending(d)
  PROVE  FlowInv'
<1>1. FlowTypeOK'
      BY VerifyPendingType DEF FlowInv
<1>2. Kept /\ PendingKept(d)
      BY SameConsents DEF VerifyPending, tables
<1>3. CodeBacked'
      BY <1>2, CodesKept DEF FlowInv, VerifyPending, tables
<1>4. /\ decisions[d] \in DecisionCall /\ Deciding(d) /\ consents' = consents
      /\ decisions[d].consent # None /\ PendingFor(decisions[d].consent, decisions[d].row)
      BY CallInFlight DEF FlowInv, VerifyPending, InDecision, Deciding, PendingOwned, tables
<1>5. CASE EndDecision(d)
      BY <1>1, <1>2, <1>3, <1>5, EndedCall DEF VerifyPending
<1>6. CASE \E pc \in {"expire", "decide"} : decisions' = [decisions EXCEPT ![d].pc = pc]
      <2>1. /\ decisions'[d].consent = decisions[d].consent
            /\ decisions'[d].row = decisions[d].row
            /\ decisions'[d].pc \in {"expire", "decide"}
            BY <1>4, <1>6 DEF FlowInv, FlowTypeOK, DecisionCall
      <2>2. OthersKept(d)
            BY <1>6 DEF OthersKept, VerifyPending, FlowInv, FlowTypeOK
      <2>3. CallOK(d)'
            BY <1>4, <2>1 DEF CallOK, InDecision, PendingFor, Pending
      <2>4. Alone(d)
            BY <1>4, <2>1 DEF Alone, FlowInv, PendingOwned
      <2> QED BY <1>1, <1>2, <1>3, <2>2, <2>3, <2>4, CallStep
<1> QED BY <1>5, <1>6 DEF VerifyPending

\* The consent that a call settles was pending, so no code and no other call
\* rests on it.
LEMMA SettleKeeps ==
  ASSUME FlowInv, NEW d \in Deciders,
         ExpirePending(d) \/ ApproveConsent(d) \/ DenyConsent(d)
  PROVE  /\ decisions[d] \in DecisionCall /\ decisions[d].consent \in ConsentIds
         /\ PendingFor(decisions[d].consent, decisions[d].row)
         /\ consents'[decisions[d].consent] \in Consent
         /\ Kept /\ PendingKept(d)
         /\ CodeBacked'
<1> DEFINE c == decisions[d].consent
<1>1. /\ decisions[d] \in DecisionCall /\ Deciding(d)
      /\ c \in ConsentIds /\ PendingFor(c, decisions[d].row) /\ consents[c] \in Consent
      BY CallInFlight, ConsentRow DEF FlowInv, PendingOwned, Deciding, PendingFor, Pending, DecisionCall,
         ExpirePending, ApproveConsent, DenyConsent, InDecision
<1>2. \A o \in ConsentIds \ {c} : consents'[o] = consents[o]
      BY DEF ExpirePending, ApproveConsent, DenyConsent, FlowInv, FlowTypeOK, TablesTypeOK
<1>3. now \in Nat /\ decisions[d].scopes \in SUBSET Scopes /\ decisions[d].scopes # {}
      BY <1>1 DEF FlowInv, FlowTypeOK, TablesTypeOK, DecisionCall, ScopeStrings
<1>4. consents'[c] \in Consent
      BY <1>1, <1>3 DEF ExpirePending, ApproveConsent, DenyConsent, FlowInv, FlowTypeOK,
         TablesTypeOK, Consent, Statuses
<1>5. consents'[c].status = "approved" => consents'[c].granted # {}
      BY <1>1, <1>3 DEF ExpirePending, ApproveConsent, DenyConsent, FlowInv, FlowTypeOK,
         TablesTypeOK, Consent
<1>6. Kept /\ PendingKept(d)
      BY <1>1, <1>2, <1>4, <1>5, SentinelAssumption
      DEF Kept, PendingKept, WasApproved, PendingFor, Pending
<1>7. authCodes' = authCodes
      BY DEF ExpirePending, ApproveConsent, DenyConsent
<1> QED BY <1>1, <1>4, <1>6, <1>7, CodesKept DEF FlowInv

\* approveConsent finds the consent expired.
LEMMA ExpirePendingInv ==
  ASSUME FlowInv, NEW d \in Deciders, ExpirePending(d)
  PROVE  FlowInv'
<1>1. FlowTypeOK'
      BY SettleType DEF FlowInv
<1> QED BY <1>1, SettleKeeps, EndedCall DEF ExpirePending

\* approveConsent: from here on the call may store a code.
LEMMA ApproveConsentInv ==
  ASSUME FlowInv, NEW d \in Deciders, ApproveConsent(d)
  PROVE  FlowInv'
<1> DEFINE call == decisions[d]
           c == call.consent
<1>1. FlowTypeOK'
      BY SettleType DEF FlowInv
<1>2. /\ call \in DecisionCall /\ call # None /\ c \in ConsentIds /\ call.scopes # {}
      /\ consents[c].customer = call.row.customer
      /\ consents[c].client = call.row.client
      /\ consents[c] \in Consent /\ consents'[c] \in Consent
      BY SettleKeeps, ConsentRow DEF DecisionCall, ScopeStrings, ApproveConsent, InDecision,
         PendingFor, Pending, FlowInv
<1>3. /\ consents'[c].customer = call.row.customer /\ consents'[c].client = call.row.client
      /\ consents'[c].granted = call.scopes /\ consents'[c].status = "approved"
      BY <1>2 DEF ApproveConsent, FlowInv, FlowTypeOK, TablesTypeOK, Consent
<1>4. decisions'[d] = [call EXCEPT !.pc = "code"]
      BY DEF ApproveConsent, FlowInv, FlowTypeOK
<1>5. Grants(c, call.row.customer, call.row.client, call.scopes)'
      BY <1>2, <1>3, <1>4, SentinelAssumption DEF Grants, WasApproved, DecisionCall
<1>6. CallOK(d)' /\ ~Deciding(d)'
      BY <1>2, <1>4, <1>5, SentinelAssumption DEF CallOK, InDecision, Deciding, DecisionCall
<1>7. OthersKept(d)
      BY DEF OthersKept, ApproveConsent, FlowInv, FlowTypeOK
<1> QED BY <1>1, <1>6, <1>7, SettleKeeps, CallStep DEF Alone

\* denyConsent
LEMMA DenyConsentInv ==
  ASSUME FlowInv, NEW d \in Deciders, DenyConsent(d)
  PROVE  FlowInv'
<1>1. FlowTypeOK'
      BY SettleType DEF FlowInv
<1>2. decisions'[d] = [decisions[d] EXCEPT !.pc = "delete"] /\ decisions[d].action = "deny"
      BY DEF DenyConsent, FlowInv, FlowTypeOK
<1>3. CallOK(d)' /\ ~Deciding(d)'
      BY <1>2, SettleKeeps DEF CallOK, InDecision, Deciding, DecisionCall
<1>4. OthersKept(d)
      BY DEF OthersKept, DenyConsent, FlowInv, FlowTypeOK
<1> QED BY <1>1, <1>3, <1>4, SettleKeeps, CallStep DEF Alone

\* INSERT INTO authorization_codes: the code takes what the consent grants.
LEMMA InsertCodeInv ==
  ASSUME FlowInv, NEW d \in Deciders, NEW k \in CodeIds, InsertCode(d, k)
  PROVE  FlowInv'
<1> DEFINE call == decisions[d]
<1>1. FlowTypeOK'
      BY InsertCodeType DEF FlowInv
<1>2. /\ call \in DecisionCall /\ consents' = consents
      /\ Grants(call.consent, call.row.customer, call.row.client, call.scopes)
      BY CallInFlight DEF FlowInv, InsertCode, InDecision, CodeCallBacked
<1>3. Kept /\ PendingKept(d)
      BY <1>2, SameConsents
<1>4. CodeBacked'
      <2> SUFFICES ASSUME NEW l \in CodeIds, authCodes'[l] # None
                   PROVE  Grants(authCodes[l].consent, authCodes[l].customer,
                                 authCodes[l].client, authCodes[l].scope)'
          BY DEF CodeBacked
      <2>1. CASE l = k
            <3>1. /\ authCodes'[k].consent = call.consent
                  /\ authCodes'[k].customer = call.row.customer
                  /\ authCodes'[k].client = call.row.client
                  /\ authCodes'[k].scope = call.scopes
                  BY DEF InsertCode, FlowInv, FlowTypeOK, TablesTypeOK
            <3> QED BY <1>2, <2>1, <3>1 DEF Grants, WasApproved
      <2>2. CASE l # k
            <3>1. authCodes'[l] = authCodes[l]
                  BY <2>2 DEF InsertCode, FlowInv, FlowTypeOK, TablesTypeOK
            <3> QED BY <1>2, <3>1 DEF FlowInv, CodeBacked, Grants, WasApproved
      <2> QED BY <2>1, <2>2
<1>5. decisions'[d] = [call EXCEPT !.pc = "delete", !.code = k]
      BY DEF InsertCode, FlowInv, FlowTypeOK
<1>6. CallOK(d)' /\ ~Deciding(d)'
      BY <1>2, <1>5, SentinelAssumption DEF CallOK, InDecision, Deciding, DecisionCall
<1>7. OthersKept(d)
      BY DEF OthersKept, InsertCode, FlowInv, FlowTypeOK
<1> QED BY <1>1, <1>3, <1>4, <1>6, <1>7, CallStep DEF Alone

\* The last statement of a decision, or one that throws
LEMMA DeleteRequestInv ==
  ASSUME FlowInv, NEW d \in Deciders, DeleteRequest(d) \/ FailDecision(d)
  PROVE  FlowInv'
<1>1. FlowTypeOK'
      <2>1. CASE DeleteRequest(d)
            BY <2>1, DeleteRequestType DEF FlowInv
      <2>2. CASE FailDecision(d)
            BY <2>2 DEF FailDecision, EndDecision, FlowInv, FlowTypeOK, TablesTypeOK, tables
      <2> QED BY <2>1, <2>2
<1>2. /\ consents' = consents /\ authCodes' = authCodes /\ revocations' = revocations
      /\ EndDecision(d)
      BY DEF DeleteRequest, FailDecision, tables
<1>3. Kept /\ PendingKept(d)
      BY <1>2, SameConsents
<1> QED BY <1>1, <1>2, <1>3, CodesKept, EndedCall DEF FlowInv

\* getConsent finds a consent that is there.
LEMMA BeginRevocationInv ==
  ASSUME FlowInv, NEW v \in Revokers, NEW caller \in Callers, NEW c \in ConsentIds,
         BeginRevocation(v, caller, c)
  PROVE  FlowInv'
<1>1. [pc |-> "verify", consent |-> c] \in RevocationCall
      BY DEF RevocationCall
<1>2. FlowTypeOK'
      BY <1>1 DEF BeginRevocation, FlowInv, FlowTypeOK, TablesTypeOK, tables
<1>3. consents' = consents /\ decisions' = decisions /\ authCodes' = authCodes
      BY DEF BeginRevocation, tables
<1>4. PendingOwned' /\ CodeCallBacked' /\ AnswerHasCode' /\ CodeBacked'
      BY <1>3, SameConsents, DecisionsKept, CodesKept DEF FlowInv
<1>5. ApprovalGrants'
      BY <1>3, SameConsents, ApprovalsKept DEF FlowInv
<1>6. RevocationOfApproved'
      <2> SUFFICES ASSUME NEW w \in Revokers, revocations'[w] # None
                   PROVE  (/\ consents[revocations[w].consent] # None
                           /\ revocations[w].pc # "verify" => WasApproved(revocations[w].consent))'
          BY DEF RevocationOfApproved
      <2>1. CASE w = v
            BY <1>3, <2>1 DEF BeginRevocation, FlowInv, FlowTypeOK
      <2>2. CASE w # v
            <3>1. revocations'[w] = revocations[w]
                  BY <2>2 DEF BeginRevocation, FlowInv, FlowTypeOK
            <3> QED BY <1>3, <3>1 DEF FlowInv, RevocationOfApproved, WasApproved
      <2> QED BY <2>1, <2>2
<1> QED BY <1>2, <1>4, <1>5, <1>6 DEF FlowInv

\* A revocation writes only to an approved, or meanwhile expired, consent.
LEMMA RevocationKeeps ==
  ASSUME FlowInv, NEW v \in Revokers, RevocationStep(v)
  PROVE  /\ Kept /\ \A c \in ConsentIds : Pending(c) => consents'[c] = consents[c]
         /\ decisions' = decisions /\ authCodes' = authCodes
         /\ \A w \in Revokers \ {v} : revocations'[w] = revocations[w]
<1> DEFINE c == revocations[v].consent
<1>1. decisions' = decisions /\ authCodes' = authCodes
      BY DEF RevocationStep, VerifyApproved, RevokeConsent, RevokeTokens, FailRevocation, tables
<1>2. \A w \in Revokers \ {v} : revocations'[w] = revocations[w]
      BY DEF RevocationStep, VerifyApproved, RevokeConsent, RevokeTokens, FailRevocation,
         EndRevocation, FlowInv, FlowTypeOK
<1>3. CASE RevokeConsent(v)
      <2>1. c \in ConsentIds /\ WasApproved(c) /\ consents[c] \in Consent
            BY <1>3, ConsentRow DEF FlowInv, FlowTypeOK, RevokeConsent, InRevocation,
               RevocationOfApproved, RevocationCall
      <2>2. /\ consents'[c] = [consents[c] EXCEPT !.status = "revoked"]
            /\ \A o \in ConsentIds \ {c} : consents'[o] = consents[o]
            BY <1>3, <2>1 DEF FlowInv, FlowTypeOK, TablesTypeOK, RevokeConsent
      <2>3. consents'[c] \in Consent
            BY <2>1, <2>2 DEF Consent, Statuses
      <2>4. /\ consents'[c].customer = consents[c].customer
            /\ consents'[c].client = consents[c].client
            /\ consents'[c].granted = consents[c].granted
            /\ consents'[c].status = "revoked"
            BY <2>1, <2>2 DEF Consent
      <2> QED BY <1>1, <1>2, <2>1, <2>2, <2>3, <2>4, SentinelAssumption
              DEF Kept, WasApproved, Pending
<1>4. CASE consents' = consents
      BY <1>1, <1>2, <1>4, SameConsents
<1> QED BY <1>3, <1>4 DEF RevocationStep, VerifyApproved, RevokeTokens, FailRevocation, tables

\* handleConsentRevocation: past the status check, an approval is behind it.
LEMMA RevocationInv ==
  ASSUME FlowInv, NEW v \in Revokers, RevocationStep(v)
  PROVE  FlowInv'
<1> DEFINE call == revocations[v]
<1>1. FlowTypeOK'
      BY RevocationType DEF FlowInv
<1>2. PendingOwned' /\ CodeCallBacked' /\ AnswerHasCode' /\ ApprovalGrants' /\ CodeBacked'
      BY RevocationKeeps, DecisionsKept, ApprovalsKept, CodesKept DEF FlowInv
<1>3. call \in RevocationCall /\ call # None /\ consents[call.consent] # None
      BY DEF FlowInv, FlowTypeOK, RevocationStep, VerifyApproved, RevokeConsent, RevokeTokens,
         FailRevocation, InRevocation, RevocationOfApproved
<1>4. \/ revocations'[v] = None
      \/ /\ revocations'[v] = [call EXCEPT !.pc = "revoke"]
         /\ consents[call.consent].status = "approved" /\ consents' = consents
      \/ /\ revocations'[v] = [call EXCEPT !.pc = "tokens"]
         /\ call.pc = "revoke"
      BY <1>3 DEF RevocationStep, VerifyApproved, Revocable, RevokeConsent, RevokeTokens,
         FailRevocation, InRevocation, EndRevocation, FlowInv, FlowTypeOK, tables
<1>5. RevocationOfApproved'
      <2> SUFFICES ASSUME NEW w \in Revokers, revocations'[w] # None
                   PROVE  (/\ consents[revocations[w].consent] # None
                           /\ revocations[w].pc # "verify" => WasApproved(revocations[w].consent))'
          BY DEF RevocationOfApproved
      <2>1. CASE w = v
            <3>1. PICK c \in ConsentIds : c = call.consent
                  BY <1>3 DEF RevocationCall
            <3>2. consents'[c] # None /\ (WasApproved(c) => WasApproved(c)')
                  BY <1>3, <3>1, RevocationKeeps DEF Kept
            <3>3. revocations'[v] # None
                  BY <2>1
            <3>4. revocations'[v].consent = c
                  BY <1>3, <1>4, <3>1, <3>3 DEF RevocationCall
            <3>5. CASE revocations'[v].pc = "verify"
                  BY <2>1, <3>2, <3>4, <3>5
            <3>6. CASE consents[c].status = "approved" /\ consents' = consents
                  <4>1. WasApproved(c)
                        BY <1>3, <3>1, <3>6 DEF FlowInv, ApprovalGrants, WasApproved
                  <4> QED BY <2>1, <3>2, <3>4, <4>1
            <3>7. CASE call.pc = "revoke"
                  <4>1. WasApproved(c)
                        BY <1>3, <3>1, <3>7 DEF FlowInv, RevocationOfApproved
                  <4> QED BY <2>1, <3>2, <3>4, <4>1
            <3> QED BY <1>3, <1>4, <3>1, <3>3, <3>5, <3>6, <3>7 DEF RevocationCall
      <2>2. CASE w # v
            <3>2. revocations'[w] = revocations[w] /\ revocations[w].consent \in ConsentIds
                  BY <2>2, RevocationKeeps DEF FlowInv, FlowTypeOK, RevocationCall
            <3> QED BY <3>2, RevocationKeeps DEF FlowInv, RevocationOfApproved, Kept
      <2> QED BY <2>1, <2>2
<1> QED BY <1>1, <1>2, <1>5 DEF FlowInv

\* The batch job: an expired approval was still given.
LEMMA ExpireOldConsentsInv ==
  ASSUME FlowInv, ExpireOldConsents
  PROVE  FlowInv'
<1>1. FlowTypeOK'
      BY ExpireOldConsentsType DEF FlowInv
<1>2. ASSUME NEW c \in ConsentIds, consents[c] # None
      PROVE  /\ consents'[c] # None
             /\ consents'[c].customer = consents[c].customer
             /\ consents'[c].client = consents[c].client
             /\ consents'[c].granted = consents[c].granted
             /\ \/ consents'[c] = consents[c]
                \/ consents[c].status = "approved" /\ consents'[c].status = "expired"
      <2>1. consents[c] \in Consent
            BY <1>2, ConsentRow DEF FlowInv
      <2>2. [consents[c] EXCEPT !.status = "expired"] \in Consent
            BY <2>1 DEF Consent, Statuses
      <2> QED BY <1>2, <2>1, <2>2, SentinelAssumption DEF ExpireOldConsents, Overdue, Consent
<1>3. Kept
      BY <1>2 DEF Kept, WasApproved, ExpireOldConsents
<1>4. \A c \in ConsentIds : Pending(c) => consents'[c] = consents[c]
      BY <1>2 DEF Pending
<1> QED BY <1>1, <1>3, <1>4, QuietStep DEF ExpireOldConsents

\* The clock
LEMMA TickInv ==
  ASSUME FlowInv, Tick
  PROVE  FlowInv'
<1>1. FlowTypeOK'
      BY DEF Tick, FlowInv, FlowTypeOK, TablesTypeOK, tables
<1>2. consents' = consents
      BY DEF Tick, tables
<1> QED BY <1>1, <1>2, SameConsents, QuietStep DEF Tick, tables

\* A step that changes nothing
LEMMA StutterInv ==
  ASSUME FlowInv, UNCHANGED flowVars
  PROVE  FlowInv'
BY DEF flowVars, tables, FlowInv, FlowTypeOK, TablesTypeOK, PendingOwned, PendingFor, Pending,
   Deciding, CodeCallBacked, InDecision, Grants, WasApproved, AnswerHasCode,
   ApprovalGrants, RevocationOfApproved, CodeBacked

-----------------------------------------------------------------------------
\* FlowInv is inductive.
LEMMA FlowStepInv == FlowInv /\ [FlowNext]_flowVars => FlowInv'
<1> SUFFICES ASSUME FlowInv, [FlowNext]_flowVars PROVE FlowInv'
    OBVIOUS
<1>1. ASSUME NEW r \in RequestIds, NEW customer \in Customers, NEW client \in Clients,
             NEW uri \in Uris, NEW scope \in ScopeStrings,
             Authorize(r, customer, client, uri, scope)
      PROVE  FlowInv'
      BY <1>1, AuthorizeInv
<1>2. ASSUME NEW d \in Deciders, NEW r \in RequestIds, NEW customer \in Customers,
             NEW action \in {"approve", "deny"}, NEW grant \in SUBSET Scopes,
             BeginDecision(d, r, customer, action, grant)
      PROVE  FlowInv'
      BY <1>2, BeginDecisionInv
<1>3. ASSUME NEW d \in Deciders, DecisionStep(d)
      PROVE  FlowInv'
      BY <1>3, FindActiveConsentInv, CreateConsentInv, VerifyPendingInv, ExpirePendingInv,
         ApproveConsentInv, DenyConsentInv, InsertCodeInv, DeleteRequestInv DEF DecisionStep
<1>4. ASSUME NEW v \in Revokers, NEW caller \in Callers, NEW c \in ConsentIds,
             BeginRevocation(v, caller, c)
      PROVE  FlowInv'
      BY <1>4, BeginRevocationInv
<1>5. ASSUME NEW v \in Revokers, RevocationStep(v)
      PROVE  FlowInv'
      BY <1>5, RevocationInv
<1>6. CASE ExpireOldConsents
      BY <1>6, ExpireOldConsentsInv
<1>7. CASE Tick
      BY <1>7, TickInv
<1>8. CASE UNCHANGED flowVars
      BY <1>8, StutterInv
<1> QED BY <1>1, <1>2, <1>3, <1>4, <1>5, <1>6, <1>7, <1>8 DEF FlowNext

\* The tables and the calls in flight are well-formed, and every approval,
\* code and revocation rests on what it should, at every moment of every
\* interleaving of decisions, revocations, expiry and failures.
THEOREM FlowInvariant == FlowSpec => []FlowInv
<1>1. FlowInit => FlowInv
      BY InitInv
<1>2. FlowInv /\ [FlowNext]_flowVars => FlowInv'
      BY FlowStepInv
<1> QED BY <1>1, <1>2, PTL DEF FlowSpec

\* Every authorization code rests on a consent that its customer approved for
\* its client, and carries exactly the scopes granted there
\* (consent-handler.js:300-345).
THEOREM CodesBacked == FlowSpec => []CodeBacked
<1>1. FlowInv => CodeBacked
      BY DEF FlowInv
<1> QED BY <1>1, FlowInvariant, PTL

-----------------------------------------------------------------------------
(* Every step of the flow moves consents as ConsentLifecycle allows.       *)

\* A row written with the status `to` moves one consent there.
LEMMA OneMove ==
  ASSUME FlowTypeOK, NEW c \in ConsentIds, NEW to,
         \A o \in ConsentIds \ {c} : consents'[o] = consents[o],
         consents'[c] # None, consents'[c].status = to
  PROVE  StatusOf' = [StatusOf EXCEPT ![c] = to]
BY DEF StatusOf

\* createConsent
LEMMA CreateConsentMoves ==
  ASSUME FlowInv, NEW d \in Deciders, NEW c \in ConsentIds, CreateConsent(d, c)
  PROVE  Lifecycle!Create(c)
<1>1. consents'[c] # None
      BY CreateConsentType, SentinelAssumption DEF FlowInv
<1>2. /\ consents'[c].status = "pending" /\ StatusOf[c] = "absent"
      /\ \A o \in ConsentIds \ {c} : consents'[o] = consents[o]
      BY DEF CreateConsent, StatusOf, FlowInv, FlowTypeOK, TablesTypeOK
<1> QED BY <1>1, <1>2, OneMove DEF FlowInv, Lifecycle!Create, Lifecycle!Move

\* The three UPDATEs of a pending consent
LEMMA SettleMoves ==
  ASSUME FlowInv, NEW d \in Deciders,
         ExpirePending(d) \/ ApproveConsent(d) \/ DenyConsent(d)
  PROVE  \E c \in ConsentIds :
           Lifecycle!Expire(c) \/ Lifecycle!Approve(c) \/ Lifecycle!Deny(c)
<1>1. PICK c \in ConsentIds : c = decisions[d].consent
      BY SettleKeeps
<1>2. Pending(c) /\ consents[c] \in Consent /\ consents'[c] # None
      BY <1>1, SettleKeeps, ConsentRow, SentinelAssumption DEF FlowInv, PendingFor, Pending
<1>3. /\ \A o \in ConsentIds \ {c} : consents'[o] = consents[o]
      /\ consents'[c].status \in {"expired", "approved", "denied"}
      BY <1>1, <1>2 DEF ExpirePending, ApproveConsent, DenyConsent, FlowInv, FlowTypeOK,
         TablesTypeOK, Consent
<1>4. StatusOf[c] = "pending"
      BY <1>2 DEF StatusOf, Pending
<1> QED BY <1>2, <1>3, <1>4, OneMove
        DEF FlowInv, Lifecycle!Expire, Lifecycle!Approve, Lifecycle!Deny, Lifecycle!Move

\* revokeConsent's UPDATE: by then the consent may have been revoked by another
\* call or have expired, and is revoked (again) all the same.
LEMMA RevokeMoves ==
  ASSUME FlowInv, NEW v \in Revokers, RevokeConsent(v)
  PROVE  (\E c \in ConsentIds : Lifecycle!Revoke(c)) \/ UNCHANGED StatusOf
<1>1. PICK c \in ConsentIds : c = revocations[v].consent
      BY DEF RevokeConsent, InRevocation, FlowInv, FlowTypeOK, RevocationCall
<1>2. WasApproved(c) /\ consents[c] \in Consent
      BY <1>1, ConsentRow DEF RevokeConsent, InRevocation, FlowInv, RevocationOfApproved,
         WasApproved
<1>3. /\ \A o \in ConsentIds \ {c} : consents'[o] = consents[o]
      /\ consents'[c].status = "revoked"
      BY <1>1, <1>2 DEF RevokeConsent, FlowInv, FlowTypeOK, TablesTypeOK, Consent
<1>4. consents'[c] # None
      BY <1>2, RevocationKeeps DEF RevocationStep, Kept, WasApproved
<1>5. StatusOf' = [StatusOf EXCEPT ![c] = "revoked"]
      BY <1>3, <1>4, OneMove DEF FlowInv
<1>6. StatusOf[c] \in {"approved", "revoked", "expired"}
      BY <1>2 DEF StatusOf, WasApproved
<1>7. CASE StatusOf[c] = "revoked"
      BY <1>5, <1>7 DEF StatusOf
<1>8. CASE StatusOf[c] \in {"approved", "expired"}
      BY <1>5, <1>8 DEF Lifecycle!Revoke, Lifecycle!Move
<1> QED BY <1>6, <1>7, <1>8

\* The batch job expires the approved consents whose time is up.
LEMMA ExpireOldConsentsMoves ==
  ASSUME FlowInv, ExpireOldConsents
  PROVE  \E S \in SUBSET ConsentIds : Lifecycle!ExpireBatch(S)
<1> DEFINE S == {c \in ConsentIds : consents[c] # None /\ Overdue(consents[c])}
<1>1. \A c \in S : StatusOf[c] = "approved"
      BY DEF StatusOf, Overdue
<1>2. ASSUME NEW c \in ConsentIds
      PROVE  StatusOf'[c] = IF c \in S THEN "expired" ELSE StatusOf[c]
      <2>1. CASE c \in S
            <3>1. consents[c] \in Consent
                  BY <2>1, ConsentRow DEF FlowInv
            <3>2. /\ [consents[c] EXCEPT !.status = "expired"] \in Consent
                  /\ consents'[c] = [consents[c] EXCEPT !.status = "expired"]
                  BY <2>1, <3>1 DEF ExpireOldConsents, Consent, Statuses
            <3>3. consents'[c] # None /\ consents'[c].status = "expired"
                  BY <3>1, <3>2, SentinelAssumption DEF Consent
            <3> QED BY <2>1, <3>3 DEF StatusOf
      <2>2. CASE c \notin S
            BY <2>2 DEF ExpireOldConsents, StatusOf
      <2> QED BY <2>1, <2>2
<1>3. StatusOf' = [c \in ConsentIds |-> IF c \in S THEN "expired" ELSE StatusOf[c]]
      BY <1>2 DEF StatusOf
<1> QED BY <1>1, <1>3 DEF Lifecycle!ExpireBatch

\* Any other step leaves the consents alone.
LEMMA FlowStepMoves == FlowInv /\ [FlowNext]_flowVars => [Lifecycle!Next]_StatusOf
<1> SUFFICES ASSUME FlowInv, [FlowNext]_flowVars PROVE Lifecycle!Next \/ UNCHANGED StatusOf
    OBVIOUS
<1>1. ASSUME NEW d \in Deciders, DecisionStep(d), consents' # consents
      PROVE  Lifecycle!Next
      <2>1. ASSUME NEW c \in ConsentIds, CreateConsent(d, c)
            PROVE  Lifecycle!Next
            BY <2>1, CreateConsentMoves DEF Lifecycle!Next
      <2>2. CASE ExpirePending(d) \/ ApproveConsent(d) \/ DenyConsent(d)
            BY <2>2, SettleMoves DEF Lifecycle!Next
      <2> QED BY <1>1, <2>1, <2>2 DEF DecisionStep, FindActiveConsent, VerifyPending, InsertCode,
              DeleteRequest, FailDecision, tables
<1>2. ASSUME NEW v \in Revokers, RevocationStep(v), consents' # consents
      PROVE  Lifecycle!Next \/ UNCHANGED StatusOf
      BY <1>2, RevokeMoves DEF RevocationStep, VerifyApproved, RevokeTokens, FailRevocation,
         tables, Lifecycle!Next
<1>3. CASE ExpireOldConsents
      BY <1>3, ExpireOldConsentsMoves DEF Lifecycle!Next
<1>4. CASE consents' = consents
      BY <1>4 DEF StatusOf
<1> QED BY <1>1, <1>2, <1>3, <1>4
        DEF FlowNext, Authorize, BeginDecision, BeginRevocation, Tick, flowVars, tables

\* The statements of consent-manager.js, however the calls interleave and fail,
\* implement ConsentLifecycle.
THEOREM ImplementsLifecycle == FlowSpec => LifecycleSpec
<1>1. FlowInit => Lifecycle!Init
      BY DEF FlowInit, TablesInit, Lifecycle!Init, StatusOf
<1>2. FlowInv /\ [FlowNext]_flowVars => [Lifecycle!Next]_StatusOf
      BY FlowStepMoves
<1> QED BY <1>1, <1>2, FlowInvariant, PTL DEF FlowSpec, LifecycleSpec, Lifecycle!Spec

\* A move of ConsentLifecycle brings no settled consent back.
LEMMA MovesStaySettled ==
  ASSUME FlowInv, [Lifecycle!Next]_StatusOf, NEW c \in ConsentIds, consents[c] # None
  PROVE  StaysSettled(c)
<1>1. StatusOf = [o \in ConsentIds |-> StatusOf[o]] /\ StatusOf[c] = consents[c].status
      BY DEF StatusOf
<1>2. StatusOf'[c] = IF consents'[c] = None THEN "absent" ELSE consents'[c].status
      BY DEF StatusOf
<1>3. /\ StatusOf[c] = "denied" => StatusOf'[c] = "denied"
      /\ StatusOf[c] \in {"revoked", "expired"} => StatusOf'[c] \in {"revoked", "expired"}
      <2>1. CASE UNCHANGED StatusOf
            BY <2>1
      <2>2. ASSUME NEW o \in ConsentIds, NEW from, NEW to, Lifecycle!Move(o, from, to),
                   "denied" \notin from,
                   to \in {"revoked", "expired"} \/ from \cap {"revoked", "expired"} = {}
            PROVE  /\ StatusOf[c] = "denied" => StatusOf'[c] = "denied"
                   /\ StatusOf[c] \in {"revoked", "expired"}
                        => StatusOf'[c] \in {"revoked", "expired"}
            <3>1. CASE o = c
                  BY <1>1, <2>2, <3>1 DEF Lifecycle!Move
            <3>2. CASE o # c
                  BY <1>1, <2>2, <3>2 DEF Lifecycle!Move
            <3> QED BY <3>1, <3>2
      <2>3. ASSUME NEW S \in SUBSET ConsentIds, Lifecycle!ExpireBatch(S)
            PROVE  /\ StatusOf[c] = "denied" => StatusOf'[c] = "denied"
                   /\ StatusOf[c] \in {"revoked", "expired"}
                        => StatusOf'[c] \in {"revoked", "expired"}
            BY <2>3 DEF Lifecycle!ExpireBatch
      <2>4. ASSUME NEW o \in ConsentIds,
                   \/ Lifecycle!Create(o) \/ Lifecycle!Approve(o) \/ Lifecycle!Deny(o)
                   \/ Lifecycle!Revoke(o) \/ Lifecycle!Expire(o)
            PROVE  /\ StatusOf[c] = "denied" => StatusOf'[c] = "denied"
                   /\ StatusOf[c] \in {"revoked", "expired"}
                        => StatusOf'[c] \in {"revoked", "expired"}
            BY <2>2, <2>4 DEF Lifecycle!Create, Lifecycle!Approve, Lifecycle!Deny,
               Lifecycle!Revoke, Lifecycle!Expire
      <2> QED BY <2>1, <2>3, <2>4 DEF Lifecycle!Next
<1> QED BY <1>1, <1>2, <1>3 DEF StaysSettled

\* A denied consent stays denied, and a revoked or expired one never becomes
\* pending or approved again (consent-manager.js:85-219), for any number of
\* overlapping decisions and revocations.
THEOREM SettledForGood == FlowSpec => NeverResurrected
<1>1. FlowInv /\ [FlowNext]_flowVars
        => [\A c \in ConsentIds : consents[c] # None => StaysSettled(c)]_flowVars
      BY FlowStepMoves, MovesStaySettled
<1> QED BY <1>1, FlowInvariant, PTL DEF FlowSpec, NeverResurrected
=============================================================================
