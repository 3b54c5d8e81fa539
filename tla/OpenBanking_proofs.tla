-------------------------- MODULE OpenBanking_proofs --------------------------
(***************************************************************************)
(* Proofs about OpenBanking: for any number of customers, clients,         *)
(* overlapping calls, requests and restarts, no request that came after    *)
(* its consent was revoked or expired reaches the banking API, what an     *)
(* endpoint with scopes serves rests on a granted one, and the reasons     *)
(* about a consent that are given are true.                                *)
(*                                                                         *)
(* Every step, of the server or of the gateway, takes the tables Onward:   *)
(* approvals and tokens keep their terms, what has ended stays ended, and  *)
(* time does not run back.  What the invariant says of a request (Sound)   *)
(* and of a cache entry survives such a step, so that only the steps that  *)
(* write a request or an entry have to be looked at.                       *)
(***************************************************************************)
EXTENDS OpenBanking, AuthServer_proofs

-----------------------------------------------------------------------------
(* What every step does to the tables                                      *)

Onward ==
  /\ Kept
  /\ \A c \in ConsentIds : consents[c] # None =>
       consents'[c].expires_at = consents[c].expires_at /\ StaysSettled(c)
  /\ \A t \in TokenIds : accessTokens[t] # None => TokenStays(t)
  /\ now \in Nat /\ now' \in Nat /\ now <= now'

\* No statement of the flow writes the expires_at of a consent but its INSERT.
LEMMA FlowKeepsExpiry ==
  ASSUME FlowInv, FlowNext, NEW c \in ConsentIds, consents[c] # None
  PROVE  consents'[c].expires_at = consents[c].expires_at
<1>1. consents[c] \in Consent /\ consents \in [ConsentIds -> Consent \cup {None}]
  BY ConsentRow DEF FlowInv, FlowTypeOK, TablesTypeOK
<1>2. ASSUME NEW d \in Deciders, DecisionStep(d)
      PROVE  consents'[c].expires_at = consents[c].expires_at
  <2>1. ASSUME NEW o \in ConsentIds, CreateConsent(d, o)
        PROVE  consents'[c].expires_at = consents[c].expires_at
    BY <1>1, <2>1 DEF CreateConsent
  <2>2. CASE ExpirePending(d) \/ ApproveConsent(d) \/ DenyConsent(d)
    <3>1. CASE decisions[d].consent = c
      BY <1>1, <2>2, <3>1 DEF ExpirePending, ApproveConsent, DenyConsent, Consent
    <3>2. CASE decisions[d].consent # c
      BY <1>1, <2>2, <3>2 DEF ExpirePending, ApproveConsent, DenyConsent
    <3>3. QED BY <3>1, <3>2
  <2>3. QED
    BY <1>2, <2>1, <2>2
    DEF DecisionStep, FindActiveConsent, VerifyPending, InsertCode, DeleteRequest,
        FailDecision, tables
<1>3. ASSUME NEW v \in Revokers, RevocationStep(v)
      PROVE  consents'[c].expires_at = consents[c].expires_at
  BY <1>1, <1>3
  DEF RevocationStep, VerifyApproved, RevokeConsent, RevokeTokens, FailRevocation, tables, Consent
<1>4. CASE ExpireOldConsents
  BY <1>1, <1>4 DEF ExpireOldConsents, Consent
<1>5. QED
  BY <1>2, <1>3, <1>4
  DEF FlowNext, Authorize, BeginDecision, BeginRevocation, Tick, tables

\* A step of the authorization server's flow
LEMMA FlowStepOnward ==
  ASSUME ServerInv, FlowNext
  PROVE  Onward
<1>1. FlowInv /\ FlowInv' BY FlowStepInv DEF ServerInv
<1>2. \A c \in ConsentIds : consents[c] # None => StaysSettled(c)
  BY <1>1, FlowStepMoves, MovesStaySettled
<1>3. now \in Nat /\ now' \in Nat BY <1>1 DEF FlowInv, FlowTypeOK, TablesTypeOK
<1>4. now <= now'
  <2>1. CASE Tick BY <1>3, <2>1 DEF Tick
  <2>2. CASE now' = now BY <1>3, <2>2
  <2>3. QED
    BY <2>1, <2>2
    DEF FlowNext, Authorize, BeginDecision, DecisionStep, FindActiveConsent, CreateConsent,
        VerifyPending, ExpirePending, ApproveConsent, DenyConsent, InsertCode, DeleteRequest,
        FailDecision, BeginRevocation, RevocationStep, VerifyApproved, RevokeConsent,
        RevokeTokens, FailRevocation, ExpireOldConsents
<1>5. QED
  BY <1>1, <1>2, <1>3, <1>4, FlowKeepsConsents, FlowKeepsTokens, FlowKeepsExpiry DEF Onward

\* A step that leaves the consents and the clock alone and at most revokes
\* tokens, or adds some
LEMMA SameConsentsOnward ==
  ASSUME ServerInv, UNCHANGED <<now, consents>>,
         \A t \in TokenIds : accessTokens[t] # None => TokenStays(t)
  PROVE  Onward
<1>1. Kept BY SameConsents
<1>2. now \in Nat BY DEF ServerInv, FlowInv, FlowTypeOK, TablesTypeOK
<1>3. QED BY <1>1, <1>2 DEF Onward, StaysSettled

\* A step of the exchange
LEMMA TokenStepOnward ==
  ASSUME ServerInv, TokenNext
  PROVE  Onward
<1>1. UNCHANGED <<now, consents>>
  BY DEF TokenNext, PresentCode, ExchangeStep, MarkCodeAsUsed, GenerateTokens,
         RevokeTokensByCode, FailExchange, RevokeToken, tables
<1>2. TablesTypeOK /\ accessTokens \in [TokenIds -> AccessToken \cup {None}]
  BY DEF ServerInv, FlowInv, FlowTypeOK, TablesTypeOK
<1>3. CASE \E x \in Exchangers, t \in TokenIds : GenerateTokens(x, t)
  <2>1. \A t \in TokenIds : accessTokens[t] # None => TokenStays(t)
    BY <1>2, <1>3 DEF GenerateTokens, TokenStays
  <2>2. QED BY <1>1, <2>1, SameConsentsOnward
<1>4. CASE \E x \in Exchangers : RevokeTokensByCode(x)
  <2>1. \A t \in TokenIds : TokenStays(t)
    BY <1>2, <1>4, RevokedTokensStay DEF RevokeTokensByCode
  <2>2. QED BY <1>1, <2>1, SameConsentsOnward
<1>5. CASE \E t \in TokenIds, client \in Clients : RevokeToken(t, client)
  <2>1. PICK t \in TokenIds : /\ accessTokens[t] # None
                              /\ accessTokens' = [accessTokens EXCEPT ![t].revoked = TRUE]
    BY <1>5 DEF RevokeToken
  <2>2. accessTokens[t] \in AccessToken BY <1>2, <2>1
  <2>3. TokenStays(t)
    <3>1. accessTokens'[t] = [accessTokens[t] EXCEPT !.revoked = TRUE] BY <1>2, <2>1
    <3>2. accessTokens'[t] \in AccessToken BY <2>2, <3>1 DEF AccessToken
    <3>3. QED BY <2>2, <3>1, <3>2, SentinelAssumption DEF TokenStays, AccessToken
  <2>4. \A u \in TokenIds \ {t} : TokenStays(u) BY <1>2, <2>1 DEF TokenStays
  <2>5. QED BY <1>1, <2>3, <2>4, SameConsentsOnward
<1>6. CASE accessTokens' = accessTokens
  BY <1>1, <1>6, SameConsentsOnward DEF TokenStays
<1>7. QED
  BY <1>3, <1>4, <1>5, <1>6
  DEF TokenNext, PresentCode, ExchangeStep, MarkCodeAsUsed, FailExchange, tables

-----------------------------------------------------------------------------
(* Whoever is expired is overdue                                           *)

\* A statement of the flow marks a consent expired when its time is up.
LEMMA FlowExpiresOverdue ==
  ASSUME FlowInv, ExpiredOverdue, FlowNext, NEW c \in ConsentIds,
         consents'[c] # None, consents'[c].status = "expired"
  PROVE  consents[c] # None /\ ~SqlLive(consents[c])
<1>1. consents \in [ConsentIds -> Consent \cup {None}]
  BY DEF FlowInv, FlowTypeOK, TablesTypeOK
<1>2. CASE consents'[c] = consents[c] BY <1>2 DEF ExpiredOverdue
<1>3. ASSUME NEW d \in Deciders, DecisionStep(d), consents'[c] # consents[c]
      PROVE  consents[c] # None /\ ~SqlLive(consents[c])
  <2>1. ASSUME NEW o \in ConsentIds, CreateConsent(d, o) PROVE FALSE
    <3>1. o = c BY <1>1, <1>3, <2>1 DEF CreateConsent
    <3>2. consents'[c].status = "pending" BY <1>1, <2>1, <3>1 DEF CreateConsent
    <3>3. QED BY <3>2
  <2>2. ASSUME ApproveConsent(d) \/ DenyConsent(d) PROVE FALSE
    <3>1. decisions[d].consent = c
      BY <1>1, <1>3, <2>2 DEF ApproveConsent, DenyConsent
    <3>2. consents[c] \in Consent
      BY <1>1, <2>2, <3>1
      DEF ApproveConsent, DenyConsent, FlowInv, PendingOwned, Deciding, InDecision,
          PendingFor, Pending
    <3>3. consents'[c].status \in {"approved", "denied"}
      BY <1>1, <2>2, <3>1, <3>2 DEF ApproveConsent, DenyConsent, Consent
    <3>4. QED BY <3>3
  <2>3. CASE ExpirePending(d)
    <3>1. decisions[d].consent = c BY <1>1, <1>3, <2>3 DEF ExpirePending
    <3>2. QED
      BY <2>3, <3>1
      DEF ExpirePending, ExpiredOverdue, FlowInv, PendingOwned, Deciding, InDecision,
          PendingFor, Pending
  <2>4. QED
    BY <1>3, <2>1, <2>2, <2>3
    DEF DecisionStep, FindActiveConsent, VerifyPending, InsertCode, DeleteRequest,
        FailDecision, tables
<1>4. ASSUME NEW v \in Revokers, RevokeConsent(v), consents'[c] # consents[c] PROVE FALSE
  <2>1. revocations[v].consent = c BY <1>1, <1>4 DEF RevokeConsent
  <2>2. consents[c] \in Consent
    BY <1>1, <1>4, <2>1 DEF RevokeConsent, InRevocation, FlowInv, RevocationOfApproved
  <2>3. consents'[c].status = "revoked" BY <1>1, <1>4, <2>1, <2>2 DEF RevokeConsent, Consent
  <2>4. QED BY <2>3
<1>5. CASE ExpireOldConsents /\ consents'[c] # consents[c]
  BY <1>5 DEF ExpireOldConsents, Overdue
<1>6. QED
  BY <1>2, <1>3, <1>4, <1>5
  DEF FlowNext, Authorize, BeginDecision, BeginRevocation, RevocationStep, VerifyApproved,
      RevokeTokens, FailRevocation, Tick, tables

\* What is overdue stays so.
LEMMA OverdueForGood ==
  ASSUME FlowTypeOK, Onward, NEW c \in ConsentIds, consents[c] # None, ~SqlLive(consents[c])
  PROVE  consents'[c] # None /\ ~(SqlLive(consents[c]))'
<1>1. consents[c].expires_at \in Nat BY ConsentRow DEF Consent
<1>2. QED BY <1>1 DEF Onward, Kept, SqlLive

\* A decision about to expire its consent looked at the clock first.
LEMMA FlowKeepsOverdue ==
  ASSUME FlowInv, ExpiredOverdue, Onward, FlowNext
  PROVE  ExpiredOverdue'
<1>1. FlowTypeOK BY DEF FlowInv
<1>2. ASSUME NEW c \in ConsentIds, consents'[c] # None, consents'[c].status = "expired"
      PROVE  ~(SqlLive(consents[c]))'
  BY <1>1, <1>2, FlowExpiresOverdue, OverdueForGood
<1>3. ASSUME NEW d \in Deciders, decisions'[d] # None, decisions'[d].pc = "expire"
      PROVE  ~(SqlLive(consents[decisions[d].consent]))'
  <2> DEFINE c == decisions[d].consent
  <2>1. CASE decisions'[d] = decisions[d]
    <3>1. c \in ConsentIds /\ consents[c] # None /\ ~SqlLive(consents[c])
      BY <1>1, <1>3, <2>1, CallInFlight
      DEF ExpiredOverdue, InDecision, FlowInv, PendingOwned, Deciding, PendingFor, Pending,
          DecisionCall
    <3>2. ~(SqlLive(consents[c]))' BY <1>1, <2>1, <3>1, OverdueForGood
    <3>3. QED BY <2>1, <3>2
  <2>2. CASE decisions'[d] # decisions[d]
    <3>1. PICK e \in Deciders :
            \/ DecisionStep(e)
            \/ \E r \in RequestIds, customer \in Customers, action \in {"approve", "deny"},
                  grant \in SUBSET Scopes : BeginDecision(e, r, customer, action, grant)
      BY <2>2
      DEF FlowNext, Authorize, BeginRevocation, RevocationStep, VerifyApproved, RevokeConsent,
          RevokeTokens, FailRevocation, ExpireOldConsents, Tick, tables
    <3>2. d = e
      BY <2>2, <3>1
      DEF DecisionStep, FindActiveConsent, CreateConsent, VerifyPending, ExpirePending,
          ApproveConsent, DenyConsent, InsertCode, DeleteRequest, FailDecision, EndDecision,
          BeginDecision, FlowInv, FlowTypeOK
    <3>3. ASSUME NEW r \in RequestIds, NEW customer \in Customers,
                 NEW action \in {"approve", "deny"}, NEW grant \in SUBSET Scopes,
                 BeginDecision(d, r, customer, action, grant)
          PROVE  FALSE
      BY <1>1, <1>3, <3>3 DEF BeginDecision, FlowTypeOK
    <3>4. ASSUME DeleteRequest(d) \/ FailDecision(d) \/ ExpirePending(d) PROVE FALSE
      BY <1>1, <1>3, <3>4
      DEF DeleteRequest, FailDecision, ExpirePending, EndDecision, FlowTypeOK
    <3>5. CASE VerifyPending(d)
      <4>1. decisions[d] \in DecisionCall
        BY <1>1, <3>5, CallInFlight DEF VerifyPending, InDecision
      <4>2. /\ decisions'[d] = [decisions[d] EXCEPT !.pc = "expire"]
            /\ JsExpired(consents[c])
        BY <1>1, <1>3, <3>5, <4>1
        DEF VerifyPending, EndDecision, FlowTypeOK, DecisionCall
      <4>3. c \in ConsentIds /\ consents[c] # None
        BY <3>5, <4>1
        DEF VerifyPending, InDecision, FlowInv, PendingOwned, Deciding, PendingFor, Pending,
            DecisionCall
      <4>4. ~SqlLive(consents[c])
        <5>1. consents[c].expires_at \in Nat BY <1>1, <4>3, ConsentRow DEF Consent
        <5>2. now \in Nat BY DEF Onward
        <5>3. QED BY <4>2, <5>1, <5>2 DEF JsExpired, SqlLive
      <4>5. ~(SqlLive(consents[c]))'
        <5>1. decisions'[d].consent = c BY <4>1, <4>2 DEF DecisionCall
        <5>2. PICK o \in ConsentIds : o = c BY <4>3
        <5>3. consents[o] # None /\ ~SqlLive(consents[o]) BY <4>3, <4>4, <5>2
        <5>4. ~(SqlLive(consents[o]))' BY <1>1, <5>3, OverdueForGood
        <5>5. QED BY <5>1, <5>2, <5>4 DEF SqlLive
      <4>6. QED BY <4>5
    <3>6. ASSUME \/ FindActiveConsent(d) \/ ApproveConsent(d) \/ DenyConsent(d)
                 \/ \E c_1 \in ConsentIds : CreateConsent(d, c_1)
                 \/ \E k \in CodeIds : InsertCode(d, k)
          PROVE  FALSE
      <4>1. decisions[d] \in DecisionCall /\ decisions \in [Deciders -> DecisionCall \cup {None}]
        BY <1>1, <3>6, CallInFlight
        DEF FindActiveConsent, CreateConsent, ApproveConsent, DenyConsent, InsertCode,
            InDecision, FlowTypeOK
      <4>2. CASE FindActiveConsent(d)
        <5>1. \/ \E o, g : decisions' = [decisions EXCEPT ![d].pc = "code", ![d].consent = o,
                                                         ![d].scopes = g]
              \/ decisions' = [decisions EXCEPT ![d].pc = "insert"]
          BY <4>2, Zenon DEF FindActiveConsent
        <5>2. ASSUME NEW o, NEW g,
                     decisions' = [decisions EXCEPT ![d].pc = "code", ![d].consent = o,
                                                    ![d].scopes = g]
              PROVE  decisions'[d].pc = "code"
          BY <4>1, <5>2 DEF DecisionCall
        <5>3. CASE decisions' = [decisions EXCEPT ![d].pc = "insert"]
          <6>1. decisions'[d].pc = "insert" BY <4>1, <5>3 DEF DecisionCall
          <6>2. QED BY <1>3, <6>1
        <5>4. QED BY <1>3, <5>1, <5>2, <5>3
      <4>3. CASE ApproveConsent(d) \/ DenyConsent(d)
        <5>1. decisions'[d].pc \in {"code", "delete"}
          BY <4>1, <4>3 DEF ApproveConsent, DenyConsent, DecisionCall
        <5>2. QED BY <1>3, <5>1
      <4>4. ASSUME NEW o \in ConsentIds, CreateConsent(d, o) PROVE FALSE
        <5>1. decisions'[d].pc = "verify" BY <4>1, <4>4 DEF CreateConsent, DecisionCall
        <5>2. QED BY <1>3, <5>1
      <4>5. ASSUME NEW k \in CodeIds, InsertCode(d, k) PROVE FALSE
        <5>1. decisions'[d].pc = "delete" BY <4>1, <4>5 DEF InsertCode, DecisionCall
        <5>2. QED BY <1>3, <5>1
      <4>6. QED BY <3>6, <4>2, <4>3, <4>4, <4>5
    <3>7. QED BY <3>1, <3>2, <3>3, <3>4, <3>5, <3>6 DEF DecisionStep
  <2>3. QED BY <2>1, <2>2
<1>4. QED BY <1>2, <1>3 DEF ExpiredOverdue, InDecision
-----------------------------------------------------------------------------
(* One request at a time                                                   *)

\* What the invariant says of the request r
Sound(r) ==
  /\ r.token # None => /\ accessTokens[r.token] # None
                       /\ accessTokens[r.token].consent = r.consent
  /\ r.token = None => r.pc \in {"expire", "log", "answered"} /\ r.status # 200
  /\ r.consent # None => WasApproved(r.consent)
  /\ r.pc = "expire" => r.consent # None /\ ~SqlLive(consents[r.consent])
  /\ r.reason \in {"revoked_consent", "expired_consent"} => r.consent # None
  /\ r.late => /\ r.consent # None
               /\ ~GoodConsent(r.consent)
               /\ r.pc \notin {"scope", "handed"}
               /\ r.status # 200
  /\ r.reason = "revoked_consent" => consents[r.consent].status \in {"revoked", "expired"}
  /\ r.reason = "expired_consent" => ~SqlLive(consents[r.consent])
  /\ r.reason \notin {"missing_consent", "denied_consent", "scope_mismatch"}
  /\ r.status = 200 =>
       LET required == Required[r.endpoint] IN
       required # <<>> => \E i \in DOMAIN required : required[i] \in consents[r.consent].granted

\* The invariant, request by request
LEMMA RequestByRequest ==
  BankInv <=> /\ ServerInv /\ GatewayTypeOK /\ ExpiredOverdue /\ CacheDeserved
              /\ \A g \in Requests : requests[g] # None => Sound(requests[g])
BY DEF BankInv, Sound, RequestsOfTokens, LateForGood, NoAccessWithoutConsent, ReasonsTrue,
       ServedAsGranted

\* The same after a step
LEMMA RequestByRequestNext ==
  ASSUME ServerInv', GatewayTypeOK', ExpiredOverdue', CacheDeserved',
         \A g \in Requests : requests'[g] # None => Sound(requests[g])'
  PROVE  BankInv'
BY DEF BankInv, Sound, RequestsOfTokens, LateForGood, NoAccessWithoutConsent, ReasonsTrue,
       ServedAsGranted

\* A consent that is no longer good stays so.
LEMMA NoGoodForGood ==
  ASSUME FlowTypeOK, Onward, NEW c \in ConsentIds, WasApproved(c), ~GoodConsent(c)
  PROVE  ~GoodConsent(c)'
<1>1. /\ consents[c] # None /\ consents[c] \in Consent
      /\ consents[c].status \in {"approved", "revoked", "expired"}
  BY ConsentRow DEF WasApproved
<1>2. consents'[c].expires_at = consents[c].expires_at /\ StaysSettled(c)
  BY <1>1 DEF Onward
<1>3. now \in Nat /\ now' \in Nat /\ now <= now' BY DEF Onward
<1>4. CASE consents[c].status = "approved"
  <2>1. now > consents[c].expires_at /\ consents[c].expires_at \in Nat
    BY <1>1, <1>4 DEF GoodConsent, JsExpired, Consent
  <2>2. now' > consents'[c].expires_at BY <1>2, <1>3, <2>1
  <2>3. QED BY <2>2 DEF GoodConsent, JsExpired
<1>5. CASE consents[c].status \in {"revoked", "expired"}
  BY <1>2, <1>5 DEF StaysSettled, GoodConsent
<1>6. QED BY <1>1, <1>4, <1>5

\* What is said of a request stays true whatever others do meanwhile.
LEMMA SoundStays ==
  ASSUME FlowTypeOK, Onward, NEW r \in ApiRequest, Sound(r)
  PROVE  Sound(r)'
<1>1. r.token # None => /\ accessTokens'[r.token] # None
                        /\ accessTokens'[r.token].consent = r.consent
  <2>1. r.token \in TokenIds \cup {None} BY DEF ApiRequest
  <2>2. QED BY <2>1 DEF Sound, Onward, TokenStays
<1>2. CASE r.consent = None
  <2>1. r.token = None
    <3>1. SUFFICES ASSUME r.token # None PROVE FALSE
      OBVIOUS
    <3>2. r.token \in TokenIds BY <3>1 DEF ApiRequest
    <3>3. accessTokens[r.token] \in AccessToken
      BY <3>1, <3>2 DEF Sound, FlowTypeOK, TablesTypeOK
    <3>4. r.consent \in ConsentIds BY <3>1, <3>3 DEF Sound, AccessToken
    <3>5. QED BY <1>2, <3>4, SentinelAssumption
  <2>2. QED BY <1>2, <2>1 DEF Sound
<1>3. CASE r.consent # None
  <2>1. PICK c \in ConsentIds : c = r.consent BY <1>3 DEF ApiRequest
  <2>2. WasApproved(c) /\ consents[c] # None BY <1>3, <2>1 DEF Sound, WasApproved
  <2>3. WasApproved(c)' /\ consents'[c].granted = consents[c].granted
    BY <2>2 DEF Onward, Kept
  <2>4. ~SqlLive(consents[c]) => ~(SqlLive(consents[c]))' BY <2>2, OverdueForGood
  <2>5. ~GoodConsent(c) => ~GoodConsent(c)' BY <2>2, NoGoodForGood
  <2>6. consents[c].status \in {"revoked", "expired"}
          => consents'[c].status \in {"revoked", "expired"}
    BY <2>2 DEF Onward, StaysSettled
  <2> HIDE DEF Onward
  <2>7. QED BY <1>1, <1>3, <2>1, <2>2, <2>3, <2>4, <2>5, <2>6
            DEF Sound, WasApproved, SqlLive, GoodConsent, JsExpired
<1>4. QED BY <1>2, <1>3
-----------------------------------------------------------------------------
(* What a handler makes of its request                                     *)

Pcs == {"verify", "touch", "limit", "consent", "expire", "scope", "log", "handed", "answered"}
HttpStatuses == {0, 200, 401, 403, 429, 500}
Refusals == {401, 403, 429, 500}
Entries == {"none", "allowed", "denied", "lost"}

\* The request r once a handler has moved it on; its token, its consent and
\* what is known of its arrival never change.
Moved(r, pc, endpoint, status, reason, entry) ==
  [pc |-> pc, token |-> r.token, consent |-> r.consent, endpoint |-> endpoint,
   late |-> r.late, status |-> status, reason |-> reason, entry |-> entry]

\* A request is the record of its fields.
LEMMA RequestRecord ==
  ASSUME NEW r \in ApiRequest
  PROVE  /\ r = Moved(r, r.pc, r.endpoint, r.status, r.reason, r.entry)
         /\ r.pc \in Pcs /\ r.endpoint \in Endpoints \cup {None} /\ r.status \in HttpStatuses
         /\ r.reason \in Reasons /\ r.entry \in Entries /\ r.late \in BOOLEAN
         /\ r.token \in TokenIds \cup {None} /\ r.consent \in ConsentIds \cup {None}
BY DEF ApiRequest, Moved, Pcs, HttpStatuses, Entries

\* The reason of a refusal is true of the consent c.
TrueReason(c, reason) ==
  /\ reason \in Reasons \ {"missing_consent", "denied_consent", "scope_mismatch"}
  /\ reason = "revoked_consent" => c # None /\ consents[c].status \in {"revoked", "expired"}
  /\ reason = "expired_consent" => c # None /\ ~SqlLive(consents[c])

\* What the consent c lets be served at the endpoint
Served(c, endpoint) ==
  \/ Required[endpoint] = <<>>
  \/ \E i \in DOMAIN Required[endpoint] : Required[endpoint][i] \in consents[c].granted

\* What a handler may do to the request r
MayMove(r, pc, endpoint, status, reason, entry) ==
  /\ pc \in Pcs /\ endpoint \in Endpoints \cup {None} /\ status \in HttpStatuses
  /\ entry \in Entries
  /\ r.token = None => pc \in {"expire", "log", "answered"} /\ status # 200
  /\ pc = "expire" => r.consent # None /\ ~SqlLive(consents[r.consent])
  /\ r.late => pc \notin {"scope", "handed"} /\ status # 200
  /\ TrueReason(r.consent, reason)
  /\ status = 200 => Served(r.consent, endpoint)

\* It leaves a sound request.
LEMMA MovedSound ==
  ASSUME NEW r \in ApiRequest, Sound(r), NEW pc, NEW endpoint, NEW status, NEW reason,
         NEW entry, MayMove(r, pc, endpoint, status, reason, entry)
  PROVE  /\ Moved(r, pc, endpoint, status, reason, entry) \in ApiRequest
         /\ Sound(Moved(r, pc, endpoint, status, reason, entry))
<1> DEFINE u == Moved(r, pc, endpoint, status, reason, entry)
<1>1. u \in ApiRequest
  BY RequestRecord DEF Moved, MayMove, TrueReason, ApiRequest, Pcs, HttpStatuses, Entries
<1>2. /\ u.pc = pc /\ u.token = r.token /\ u.consent = r.consent /\ u.endpoint = endpoint
      /\ u.late = r.late /\ u.status = status /\ u.reason = reason
  BY DEF Moved
<1> HIDE DEF u
<1>3. Sound(u) BY <1>2 DEF Sound, MayMove, TrueReason, Served
<1>4. QED BY <1>1, <1>3 DEF u

\* Refuse is a move to the audit log.
LEMMA RefuseMoved ==
  ASSUME GatewayTypeOK, NEW g \in Requests, requests[g] # None, NEW status, NEW reason,
         Refuse(g, status, reason)
  PROVE  requests' = [requests EXCEPT ![g] =
           Moved(requests[g], "log", requests[g].endpoint, status, reason, requests[g].entry)]
<1>1. PICK r \in ApiRequest : r = requests[g] BY DEF GatewayTypeOK
<1> DEFINE r1 == Moved(r, "log", r.endpoint, r.status, r.reason, r.entry)
           r2 == Moved(r, "log", r.endpoint, status, r.reason, r.entry)
           r3 == Moved(r, "log", r.endpoint, status, reason, r.entry)
<1>2. [r EXCEPT !.pc = "log"] = r1 BY DEF Moved, ApiRequest
<1>3. [r1 EXCEPT !.status = status] = r2 BY DEF Moved
<1>4. [r2 EXCEPT !.reason = reason] = r3 BY DEF Moved
<1>5. requests' = [requests EXCEPT ![g] =
        [[[requests[g] EXCEPT !.pc = "log"] EXCEPT !.status = status] EXCEPT !.reason = reason]]
  BY Zenon DEF Refuse
<1> HIDE DEF r1, r2, r3
<1>6. requests' = [requests EXCEPT ![g] = r3] BY <1>1, <1>2, <1>3, <1>4, <1>5, Zenon
<1>7. QED BY <1>1, <1>6, Zenon DEF r3

\* The handler of g writes a sound request with the token it had, or frees
\* the worker.
Writes(g, r) ==
  /\ requests' = [requests EXCEPT ![g] = r]
  /\ \/ r = None
     \/ /\ r \in ApiRequest /\ Sound(r)
        /\ requests[g] # None => r.token = requests[g].token

\* What a handler makes of its request is sound when it may be.
LEMMA MovedWrites ==
  ASSUME GatewayTypeOK, NEW g \in Requests, requests[g] # None, Sound(requests[g]),
         NEW pc, NEW endpoint, NEW status, NEW reason, NEW entry,
         MayMove(requests[g], pc, endpoint, status, reason, entry),
         requests' = [requests EXCEPT ![g] =
                        Moved(requests[g], pc, endpoint, status, reason, entry)]
  PROVE  \E r : Writes(g, r)
<1>1. requests[g] \in ApiRequest BY DEF GatewayTypeOK
<1>2. PICK u : u = Moved(requests[g], pc, endpoint, status, reason, entry) OBVIOUS
<1>3. u \in ApiRequest /\ Sound(u) BY <1>1, <1>2, MovedSound
<1>4. u.token = requests[g].token BY <1>2 DEF Moved
<1>5. QED BY <1>2, <1>3, <1>4 DEF Writes

\* Whatever is refused for a true reason
LEMMA RefuseWrites ==
  ASSUME GatewayTypeOK, NEW g \in Requests, requests[g] # None, Sound(requests[g]),
         NEW status \in Refusals, NEW reason, Refuse(g, status, reason),
         TrueReason(requests[g].consent, reason)
  PROVE  \E r : Writes(g, r)
<1>1. PICK pc : pc = "log" OBVIOUS
<1>2. requests' = [requests EXCEPT ![g] =
        Moved(requests[g], pc, requests[g].endpoint, status, reason, requests[g].entry)]
  BY <1>1, RefuseMoved, Zenon
<1>3. MayMove(requests[g], pc, requests[g].endpoint, status, reason, requests[g].entry)
  BY <1>1, RequestRecord DEF MayMove, Pcs, HttpStatuses, Refusals, GatewayTypeOK
<1>4. QED BY <1>2, <1>3, MovedWrites

\* A handler that only moves on to `pc`
LEMMA NextWrites ==
  ASSUME GatewayTypeOK, NEW g \in Requests, requests[g] # None, Sound(requests[g]),
         NEW pc \in {"touch", "limit", "consent", "expire", "scope"},
         requests[g].token # None,
         pc = "expire" => requests[g].consent # None /\ ~SqlLive(consents[requests[g].consent]),
         pc = "scope" => ~requests[g].late,
         requests' = [requests EXCEPT ![g].pc = pc]
  PROVE  \E r : Writes(g, r)
<1> DEFINE r == requests[g]
<1>1. r \in ApiRequest BY DEF GatewayTypeOK
<1>2. requests' = [requests EXCEPT ![g] = [r EXCEPT !.pc = pc]] BY DEF GatewayTypeOK
<1>3. [r EXCEPT !.pc = pc] = Moved(r, pc, r.endpoint, r.status, r.reason, r.entry)
  BY <1>1 DEF Moved, ApiRequest
<1>4. MayMove(r, pc, r.endpoint, r.status, r.reason, r.entry)
  BY <1>1, RequestRecord DEF MayMove, Pcs, Sound, TrueReason, Served
<1> HIDE DEF r
<1>5. QED BY <1>2, <1>3, <1>4, MovedWrites DEF r
\* A call that no longer runs for anyone frees its worker.
LEMMA FreeWrites ==
  ASSUME NEW g \in Requests, requests' = [requests EXCEPT ![g] = None]
  PROVE  \E r : Writes(g, r)
BY DEF Writes

\* What is known of the token of a request
LEMMA TokenOfRequest ==
  ASSUME BankInv, NEW g \in Requests, requests[g] # None, requests[g].token # None
  PROVE  /\ requests[g].token \in TokenIds
         /\ accessTokens[requests[g].token] \in AccessToken
         /\ accessTokens[requests[g].token].consent = requests[g].consent
         /\ requests[g].consent \in ConsentIds /\ requests[g].consent # None
         /\ consents[requests[g].consent] \in Consent
         /\ Grants(requests[g].consent, accessTokens[requests[g].token].customer,
                   accessTokens[requests[g].token].client, accessTokens[requests[g].token].scope)
<1>1. PICK r \in ApiRequest : r = requests[g] BY DEF BankInv, GatewayTypeOK
<1>2. Sound(r) BY <1>1, RequestByRequest
<1>3. PICK t \in TokenIds : t = r.token BY <1>1 DEF ApiRequest
<1>4. accessTokens[t] # None /\ accessTokens[t].consent = r.consent
  BY <1>1, <1>2, <1>3 DEF Sound
<1>5. accessTokens[t] \in AccessToken
  BY <1>4 DEF BankInv, ServerInv, FlowInv, FlowTypeOK, TablesTypeOK
<1>6. Grants(r.consent, accessTokens[t].customer, accessTokens[t].client, accessTokens[t].scope)
  BY <1>4 DEF BankInv, ServerInv, TokenBacked
<1>7. r.consent \in ConsentIds /\ r.consent # None
  BY <1>4, <1>5, SentinelAssumption DEF AccessToken
<1>8. consents[r.consent] \in Consent
  BY <1>6, <1>7, ConsentRow DEF Grants, WasApproved, BankInv, ServerInv, FlowInv
<1>9. QED BY <1>1, <1>3, <1>4, <1>5, <1>6, <1>7, <1>8

\* A refusal for a reason that says nothing of the consent
LEMMA PlainReasons ==
  ASSUME NEW c, NEW reason \in {"invalid_token", "missing_token", "rate_limit_exceeded",
                                "unauthorized", "insufficient_scope", "none"}
  PROVE  TrueReason(c, reason)
BY DEF TrueReason, Reasons

\* token-introspection.js and rate-limiter.js
LEMMA IntrospectionWrites ==
  ASSUME BankInv, NEW g \in Requests,
         VerifyToken(g) \/ TouchToken(g) \/ FailVerify(g) \/ WithinLimit(g) \/ OverLimit(g)
  PROVE  \E r : Writes(g, r)
<1>1. /\ requests[g] # None /\ requests[g].pc \in {"verify", "touch", "limit"}
      /\ GatewayTypeOK /\ Sound(requests[g])
  BY RequestByRequest
  DEF VerifyToken, TouchToken, FailVerify, WithinLimit, OverLimit, InRequest
<1>2. requests[g].token # None BY <1>1 DEF Sound
<1>3. ASSUME NEW pc \in {"touch", "limit", "consent"}, requests' = [requests EXCEPT ![g].pc = pc]
      PROVE  \E r : Writes(g, r)
  BY <1>1, <1>2, <1>3, NextWrites
<1>4. ASSUME NEW status \in Refusals, NEW reason \in {"invalid_token", "rate_limit_exceeded"},
             Refuse(g, status, reason)
      PROVE  \E r : Writes(g, r)
  <2>1. TrueReason(requests[g].consent, reason) BY PlainReasons
  <2>2. QED BY <1>1, <1>4, <2>1, RefuseWrites
<1>5. /\ 401 \in Refusals /\ 429 \in Refusals
      /\ DenialReason("revoked") = "invalid_token" /\ DenialReason("failed") = "invalid_token"
  BY DEF Refusals, DenialReason, ErrorOf
<1>6. \/ \E pc \in {"touch", "limit", "consent"} : requests' = [requests EXCEPT ![g].pc = pc]
      \/ Refuse(g, 401, "invalid_token") \/ Refuse(g, 429, "rate_limit_exceeded")
  BY <1>5 DEF VerifyToken, TouchToken, FailVerify, WithinLimit, OverLimit
<1>7. QED BY <1>3, <1>4, <1>5, <1>6

\* consent-validation.js: the SELECT and the tests that follow it
LEMMA ValidateConsentWrites ==
  ASSUME BankInv, NEW g \in Requests, ValidateConsent(g)
  PROVE  \E r : Writes(g, r)
<1>1. requests[g] # None /\ requests[g].pc = "consent" /\ GatewayTypeOK /\ Sound(requests[g])
  BY RequestByRequest DEF ValidateConsent, InRequest
<1>2. requests[g].token # None BY <1>1 DEF Sound
<1>3. PICK c \in ConsentIds : c = requests[g].consent BY <1>1, <1>2, TokenOfRequest
<1>4. PICK token \in AccessToken : token = accessTokens[requests[g].token]
  BY <1>1, <1>2, TokenOfRequest
<1>5. /\ token.consent = c /\ c # None /\ consents[c] \in Consent
      /\ Grants(c, token.customer, token.client, token.scope)
  BY <1>1, <1>2, <1>3, <1>4, TokenOfRequest
<1>6. /\ consents[c].customer = token.customer /\ consents[c].client = token.client
      /\ consents[c].granted = token.scope
      /\ consents[c].status \in {"approved", "revoked", "expired"}
  BY <1>5 DEF Grants, WasApproved
<1>7. /\ 403 \in Refusals
      /\ consents[c].status = "expired" => ~SqlLive(consents[c])
  BY <1>5 DEF Refusals, BankInv, ExpiredOverdue, Grants, WasApproved
<1>8. CASE ~Approved(consents[c])
  <2>1. Refuse(g, 403, ReasonOf(consents[c].status))
    BY <1>3, <1>4, <1>5, <1>6, <1>8 DEF ValidateConsent, Approved
  <2>2. PICK reason : reason = ReasonOf(consents[c].status) OBVIOUS
  <2>3. TrueReason(c, reason)
    BY <1>5, <1>6, <1>7, <1>8, <2>2 DEF TrueReason, Reasons, ReasonOf, Approved
  <2>4. QED BY <1>1, <1>3, <1>7, <2>1, <2>2, <2>3, RefuseWrites
<1>9. CASE Approved(consents[c]) /\ JsExpired(consents[c])
  <2>1. requests' = [requests EXCEPT ![g].pc = "expire"]
    BY <1>3, <1>4, <1>5, <1>6, <1>9 DEF ValidateConsent
  <2>2. ~SqlLive(consents[c])
    <3>1. consents[c].expires_at \in Nat /\ now \in Nat
      BY <1>5 DEF Consent, BankInv, ServerInv, FlowInv, FlowTypeOK, TablesTypeOK
    <3>2. QED BY <1>9, <3>1 DEF JsExpired, SqlLive
  <2>3. QED BY <1>1, <1>2, <1>3, <1>5, <2>1, <2>2, NextWrites
<1>10. CASE Approved(consents[c]) /\ ~JsExpired(consents[c])
  <2>1. requests' = [requests EXCEPT ![g].pc = "scope"]
    BY <1>3, <1>4, <1>5, <1>6, <1>10 DEF ValidateConsent
  <2>2. ~requests[g].late
    BY <1>1, <1>3, <1>10 DEF Sound, GoodConsent, Approved
  <2>3. QED BY <1>1, <1>2, <2>1, <2>2, NextWrites
<1>11. QED BY <1>8, <1>9, <1>10
\* The records that scope-enforcement.js and audit-logger.js make
Answered(r, e, pc, status) == [[r EXCEPT !.endpoint = e] EXCEPT !.pc = pc, !.status = status]
RefusedAt(r, e, pc, status, reason) ==
  [[r EXCEPT !.endpoint = e] EXCEPT !.pc = pc, !.status = status, !.reason = reason]
Audited(r, pc, entry) == [r EXCEPT !.pc = pc, !.entry = entry]

\* They move the request on.
LEMMA EditsMove ==
  ASSUME NEW r \in ApiRequest, NEW e, NEW pc, NEW status, NEW reason, NEW entry
  PROVE  /\ Answered(r, e, pc, status) = Moved(r, pc, e, status, r.reason, r.entry)
         /\ RefusedAt(r, e, pc, status, reason) = Moved(r, pc, e, status, reason, r.entry)
         /\ Audited(r, pc, entry) = Moved(r, pc, r.endpoint, r.status, r.reason, entry)
<1> DEFINE r1 == Moved(r, r.pc, e, r.status, r.reason, r.entry)
           r2 == Moved(r, pc, e, r.status, r.reason, r.entry)
           r3 == Moved(r, pc, e, status, r.reason, r.entry)
           r4 == Moved(r, pc, e, status, reason, r.entry)
           l1 == Moved(r, pc, r.endpoint, r.status, r.reason, r.entry)
           l2 == Moved(r, pc, r.endpoint, r.status, r.reason, entry)
<1>1. [r EXCEPT !.endpoint = e] = r1 BY DEF Moved, ApiRequest
<1>2. [r1 EXCEPT !.pc = pc] = r2 BY DEF Moved
<1>3. [r2 EXCEPT !.status = status] = r3 BY DEF Moved
<1>4. [r3 EXCEPT !.reason = reason] = r4 BY DEF Moved
<1>5. [r EXCEPT !.pc = pc] = l1 BY DEF Moved, ApiRequest
<1>6. [l1 EXCEPT !.entry = entry] = l2 BY DEF Moved
<1> HIDE DEF r1, r2, r3, r4, l1, l2
<1>7. [[[r EXCEPT !.endpoint = e] EXCEPT !.pc = pc] EXCEPT !.status = status] = r3
  BY <1>1, <1>2, <1>3, Zenon
<1>8. [[[[r EXCEPT !.endpoint = e] EXCEPT !.pc = pc] EXCEPT !.status = status]
         EXCEPT !.reason = reason] = r4
  BY <1>1, <1>2, <1>3, <1>4, Zenon
<1>9. [[r EXCEPT !.pc = pc] EXCEPT !.entry = entry] = l2
  BY <1>5, <1>6, Zenon
<1>10. QED BY <1>7, <1>8, <1>9, Zenon DEF r3, r4, l2, Answered, RefusedAt, Audited

\* Some scope the endpoint takes is in the token, and so granted.
LEMMA ScopeServes ==
  ASSUME NEW c, NEW e, NEW scope, HasRequiredScope(scope, Required[e]),
         consents[c].granted = scope
  PROVE  Served(c, e)
BY DEF HasRequiredScope, Served

\* scope-enforcement.js
LEMMA EnforceScopeWrites ==
  ASSUME BankInv, NEW g \in Requests, NEW e \in Endpoints, EnforceScope(g, e)
  PROVE  \E r : Writes(g, r)
<1>1. requests[g] # None /\ requests[g].pc = "scope" /\ GatewayTypeOK /\ Sound(requests[g])
  BY RequestByRequest DEF EnforceScope, InRequest
<1>2. PICK r \in ApiRequest : r = requests[g] BY <1>1 DEF GatewayTypeOK
<1>3. r.token # None /\ ~r.late BY <1>1, <1>2 DEF Sound
<1>4. r.consent # None /\ consents[r.consent].granted = accessTokens[r.token].scope
  BY <1>1, <1>2, <1>3, TokenOfRequest DEF Grants
<1>5. TrueReason(r.consent, r.reason)
  BY <1>1, <1>2, RequestRecord DEF Sound, TrueReason
<1>6. \E pc, status, reason :
        /\ requests' = [requests EXCEPT ![g] = Moved(r, pc, e, status, reason, r.entry)]
        /\ MayMove(r, pc, e, status, reason, r.entry)
  <2>1. CASE ~HasRequiredScope(accessTokens[r.token].scope, Required[e])
    <3>1. PICK pc, status, reason :
            pc = "log" /\ status = 403 /\ reason = "insufficient_scope"
      OBVIOUS
    <3>2. requests' = [requests EXCEPT ![g] = RefusedAt(r, e, pc, status, reason)]
      <4>1. requests' = [requests EXCEPT ![g] =
              RefusedAt(requests[g], e, "log", 403, "insufficient_scope")]
        BY <1>2, <2>1, Zenon DEF EnforceScope, RefusedAt
      <4>2. QED BY <1>2, <3>1, <4>1, Zenon
    <3>3. requests' = [requests EXCEPT ![g] = Moved(r, pc, e, status, reason, r.entry)]
      <4>1. RefusedAt(r, e, pc, status, reason) = Moved(r, pc, e, status, reason, r.entry)
        BY EditsMove
      <4>2. QED BY <3>2, <4>1
    <3>4. TrueReason(r.consent, reason) BY <3>1, PlainReasons
    <3>5. MayMove(r, pc, e, status, reason, r.entry)
      BY <1>3, <3>1, <3>4, RequestRecord DEF MayMove, Pcs, HttpStatuses
    <3>6. QED BY <3>3, <3>5
  <2>2. CASE /\ HasRequiredScope(accessTokens[r.token].scope, Required[e])
             /\ ~HasConsentScope(r.consent, e)
    <3>1. PICK pc, status : pc = "answered" /\ status = 403 OBVIOUS
    <3>2. requests' = [requests EXCEPT ![g] = Answered(r, e, pc, status)]
      BY <1>2, <2>2, <3>1 DEF EnforceScope, Answered
    <3>3. requests' = [requests EXCEPT ![g] = Moved(r, pc, e, status, r.reason, r.entry)]
      BY <3>2, EditsMove, Zenon
    <3>4. MayMove(r, pc, e, status, r.reason, r.entry)
      BY <1>3, <1>5, <3>1, RequestRecord DEF MayMove, Pcs, HttpStatuses
    <3>5. QED BY <3>3, <3>4
  <2>3. CASE /\ HasRequiredScope(accessTokens[r.token].scope, Required[e])
             /\ HasConsentScope(r.consent, e)
    <3>1. PICK pc, status : pc = "handed" /\ status = 200 OBVIOUS
    <3>2. requests' = [requests EXCEPT ![g] = Answered(r, e, pc, status)]
      BY <1>2, <2>3, <3>1 DEF EnforceScope, Answered
    <3>3. requests' = [requests EXCEPT ![g] = Moved(r, pc, e, status, r.reason, r.entry)]
      BY <3>2, EditsMove, Zenon
    <3>4. Served(r.consent, e) BY <1>4, <2>3, ScopeServes
    <3>5. MayMove(r, pc, e, status, r.reason, r.entry)
      BY <1>3, <1>5, <3>1, <3>4, RequestRecord DEF MayMove, Pcs, HttpStatuses
    <3>6. QED BY <3>3, <3>5
  <2>4. QED BY <2>1, <2>2, <2>3
<1>7. QED BY <1>1, <1>2, <1>6, MovedWrites

\* audit-logger.js
LEMMA AuditWrites ==
  ASSUME BankInv, NEW g \in Requests, LogDeniedRequest(g) \/ LogAllowedRequest(g)
  PROVE  \E r : Writes(g, r)
<1>1. /\ requests[g] # None /\ requests[g].pc \in {"log", "handed"}
      /\ GatewayTypeOK /\ Sound(requests[g])
  BY RequestByRequest DEF LogDeniedRequest, LogAllowedRequest, InRequest
<1>2. PICK r \in ApiRequest : r = requests[g] BY <1>1 DEF GatewayTypeOK
<1>3. PICK pc : pc = "answered" OBVIOUS
<1>4. PICK entry \in Entries :
        requests' = [requests EXCEPT ![g] = Audited(r, pc, entry)]
  BY <1>2, <1>3 DEF Audited, LogDeniedRequest, LogAllowedRequest, Recorded, Entries
<1>5. requests' = [requests EXCEPT ![g] =
                     Moved(r, pc, r.endpoint, r.status, r.reason, entry)]
  BY <1>4, EditsMove, Zenon
<1>6. MayMove(r, pc, r.endpoint, r.status, r.reason, entry)
  BY <1>1, <1>2, <1>3, RequestRecord DEF MayMove, Pcs, Sound, TrueReason, Served
<1>7. QED BY <1>1, <1>2, <1>5, <1>6, MovedWrites

\* The UPDATE of a consent found past its time, and the catch block
LEMMA ExpiryWrites ==
  ASSUME BankInv, NEW g \in Requests, ExpireConsent(g) \/ FailValidate(g)
  PROVE  \E r : Writes(g, r)
<1>1. requests[g] # None /\ GatewayTypeOK /\ Sound(requests[g])
  BY RequestByRequest DEF ExpireConsent, FailValidate, InRequest
<1>2. CASE requests' = [requests EXCEPT ![g] = None] BY <1>2, FreeWrites
<1>3. CASE ExpireConsent(g) /\ Refuse(g, 403, "expired_consent")
  <2>1. PICK status \in Refusals, reason \in {"expired_consent"} : status = 403
    BY DEF Refusals
  <2>2. TrueReason(requests[g].consent, reason)
    BY <1>1, <1>3, <2>1 DEF TrueReason, Reasons, Sound, ExpireConsent, InRequest
  <2>3. QED BY <1>1, <1>3, <2>1, <2>2, RefuseWrites
<1>4. CASE FailValidate(g) /\ Refuse(g, 500, "unauthorized")
  <2>1. PICK status \in Refusals, reason \in {"unauthorized"} : status = 500
    BY DEF Refusals
  <2>2. TrueReason(requests[g].consent, reason) BY <2>1, PlainReasons
  <2>3. QED BY <1>1, <1>4, <2>1, <2>2, RefuseWrites
<1>5. QED BY <1>2, <1>3, <1>4 DEF ExpireConsent, FailValidate

\* A request in flight
LEMMA StepWrites ==
  ASSUME BankInv, NEW g \in Requests, RequestStep(g)
  PROVE  \E r : Writes(g, r)
BY IntrospectionWrites, ValidateConsentWrites, ExpiryWrites, EnforceScopeWrites, AuditWrites
DEF RequestStep
-----------------------------------------------------------------------------
(* A request comes                                                         *)

\* The record of a new request is sound when its consent was approved and,
\* if it is good no longer, the record says so.
LEMMA OpenedSound ==
  ASSUME NEW t \in TokenIds \cup {None}, NEW c \in ConsentIds \cup {None},
         NEW pc \in Pcs \ {"scope", "handed"}, NEW status \in {0, 401},
         NEW reason \in {"none", "invalid_token", "missing_token"},
         t # None => accessTokens[t] # None /\ accessTokens[t].consent = c,
         t = None => pc \in {"expire", "log", "answered"},
         c # None => WasApproved(c),
         pc = "expire" => c # None /\ ~SqlLive(consents[c])
  PROVE  Opened(t, c, pc, status, reason) \in ApiRequest /\ Sound(Opened(t, c, pc, status, reason))
<1> DEFINE r == Opened(t, c, pc, status, reason)
<1>1. /\ r.token = t /\ r.consent = c /\ r.pc = pc /\ r.status = status /\ r.reason = reason
      /\ r.late => c # None /\ ~GoodConsent(c)
  BY DEF Opened
<1>2. r \in ApiRequest
  <2>1. (c # None /\ ~GoodConsent(c)) \in BOOLEAN OBVIOUS
  <2>2. QED BY <2>1 DEF Opened, ApiRequest, Pcs, Reasons
<1> HIDE DEF r
<1>3. r.pc \notin {"scope", "handed"} /\ r.status # 200
      /\ r.reason \in {"none", "invalid_token", "missing_token"}
  BY <1>1
<1>4. Sound(r) BY <1>1, <1>3 DEF Sound
<1>5. QED BY <1>2, <1>4 DEF r

\* gatewayTokenIntrospection, before its first query
LEMMA ArriveWrites ==
  ASSUME BankInv, NEW g \in Requests, NEW t \in TokenIds, Arrive(g, t)
  PROVE  \E r : Writes(g, r)
<1>1. accessTokens[t] # None /\ accessTokens[t] \in AccessToken /\ t # None
  BY SentinelAssumption
  DEF Arrive, BankInv, ServerInv, FlowInv, FlowTypeOK, TablesTypeOK
<1>2. PICK c \in ConsentIds : c = accessTokens[t].consent BY <1>1 DEF AccessToken
<1>3. WasApproved(c) BY <1>1, <1>2 DEF BankInv, ServerInv, TokenBacked, Grants
<1>4. \E pc \in Pcs \ {"scope", "handed", "expire"}, status \in {0, 401},
         reason \in {"none", "invalid_token", "missing_token"} :
        requests' = [requests EXCEPT ![g] = Opened(t, c, pc, status, reason)]
  BY <1>2 DEF Arrive, Open, OpenRefused, DenialReason, ErrorOf, Pcs
<1>5. PICK pc \in Pcs \ {"scope", "handed", "expire"}, status \in {0, 401},
           reason \in {"none", "invalid_token", "missing_token"} :
        requests' = [requests EXCEPT ![g] = Opened(t, c, pc, status, reason)]
  BY <1>4
<1>6. PICK r : r = Opened(t, c, pc, status, reason) OBVIOUS
<1>7. r \in ApiRequest /\ Sound(r) BY <1>1, <1>2, <1>3, <1>6, OpenedSound
<1>8. requests[g] = None BY DEF Arrive
<1>9. requests' = [requests EXCEPT ![g] = r] BY <1>5, <1>6
<1>10. QED BY <1>7, <1>8, <1>9 DEF Writes

\* A request without a token, and a question about a consent
LEMMA OtherArrivalsWrite ==
  ASSUME BankInv, NEW g \in Requests,
         ArriveWithoutToken(g) \/ \E c \in ConsentIds : CheckConsentStatus(g, c)
  PROVE  \E r : Writes(g, r)
<1>1. CASE ArriveWithoutToken(g)
  <2>1. PICK pc \in Pcs \ {"scope", "handed"}, status \in {0, 401},
             reason \in {"none", "invalid_token", "missing_token"} :
          pc = "log" /\ status = 401 /\ reason = "missing_token"
    BY DEF Pcs
  <2>2. PICK r : r = Opened(None, None, pc, status, reason) OBVIOUS
  <2>3. r \in ApiRequest /\ Sound(r) BY <2>1, <2>2, OpenedSound
  <2>4. QED BY <1>1, <2>1, <2>2, <2>3 DEF ArriveWithoutToken, Writes
<1>2. ASSUME NEW c \in ConsentIds, CheckConsentStatus(g, c) PROVE \E r : Writes(g, r)
  <2>1. consents[c] # None /\ Approved(consents[c]) /\ JsExpired(consents[c])
    BY <1>2 DEF CheckConsentStatus
  <2>2. WasApproved(c) BY <2>1 DEF BankInv, ServerInv, FlowInv, ApprovalGrants, Approved, WasApproved
  <2>3. ~SqlLive(consents[c])
    <3>1. consents[c].expires_at \in Nat /\ now \in Nat
      BY <2>1, ConsentRow
      DEF Consent, BankInv, ServerInv, FlowInv, FlowTypeOK, TablesTypeOK
    <3>2. QED BY <2>1, <3>1 DEF JsExpired, SqlLive
  <2>4. PICK r : r = Opened(None, c, "expire", 0, "none") OBVIOUS
  <2>5. r \in ApiRequest /\ Sound(r)
    BY <2>2, <2>3, <2>4, OpenedSound, SentinelAssumption DEF Pcs
  <2>6. QED BY <1>2, <2>4, <2>5 DEF CheckConsentStatus, Writes
<1>3. QED BY <1>1, <1>2

-----------------------------------------------------------------------------
(* The token cache                                                         *)

\* What is said of the entries stays true whatever others do meanwhile.
LEMMA EntriesStay ==
  ASSUME FlowTypeOK, Onward, CacheDeserved,
         \A t \in TokenIds : cache'[t] = cache[t] \/ cache'[t] = None
  PROVE  CacheDeserved'
<1> SUFFICES ASSUME NEW t \in TokenIds, cache'[t] # None, cache'[t].result \in {"revoked", "expired"}
             PROVE  /\ accessTokens'[t] # None
                    /\ cache'[t].result = "revoked" => accessTokens'[t].revoked
                    /\ cache'[t].result = "expired" => now' >= accessTokens'[t].expires_at
  BY DEF CacheDeserved
<1>1. /\ accessTokens[t] # None
      /\ cache[t].result = "revoked" => accessTokens[t].revoked
      /\ cache[t].result = "expired" => now >= accessTokens[t].expires_at
  BY DEF CacheDeserved
<1>2. accessTokens[t].expires_at \in Nat BY <1>1 DEF FlowTypeOK, TablesTypeOK, AccessToken
<1>3. QED BY <1>1, <1>2 DEF Onward, TokenStays

\* An entry written is of a result that its token deserves.
LEMMA EntryWritten ==
  ASSUME BankInv, NEW t \in TokenIds, NEW result \in Results, cache' = Cached(t, result),
         UNCHANGED <<now, accessTokens>>,
         result \in {"revoked", "expired"} => accessTokens[t] # None,
         result = "revoked" => accessTokens[t].revoked,
         result = "expired" => now >= accessTokens[t].expires_at
  PROVE  CacheDeserved' /\ cache' \in [TokenIds -> CacheEntry \cup {None}]
<1>1. cache \in [TokenIds -> CacheEntry \cup {None}] /\ CacheDeserved
  BY DEF BankInv, GatewayTypeOK
<1>2. now + CacheTTL \in Nat
  BY GatewayAssumption DEF BankInv, ServerInv, FlowInv, FlowTypeOK, TablesTypeOK
<1>3. PICK entry : entry = [result |-> result, expires_at |-> now + CacheTTL] OBVIOUS
<1>4. entry \in CacheEntry /\ entry.result = result BY <1>2, <1>3 DEF CacheEntry
<1>5. cache' = [cache EXCEPT ![t] = entry] BY <1>3 DEF Cached
<1>6. QED BY <1>1, <1>4, <1>5 DEF CacheDeserved
\* What the gateway does to its cache
LEMMA CacheStep ==
  ASSUME BankInv, GatewayNext, Onward, UNCHANGED <<now, accessTokens>>
  PROVE  CacheDeserved' /\ cache' \in [TokenIds -> CacheEntry \cup {None}]
<1>1. /\ cache \in [TokenIds -> CacheEntry \cup {None}] /\ CacheDeserved /\ FlowTypeOK
      /\ GatewayTypeOK
  BY DEF BankInv, GatewayTypeOK, ServerInv, FlowInv
<1>2. CASE cache' = cache BY <1>1, <1>2, EntriesStay
<1>3. CASE cache' = [t \in TokenIds |-> None] BY <1>1, <1>3, EntriesStay
<1>4. ASSUME NEW t \in TokenIds, cache' = [cache EXCEPT ![t] = None]
      PROVE  CacheDeserved' /\ cache' \in [TokenIds -> CacheEntry \cup {None}]
  BY <1>1, <1>4, EntriesStay
<1>5. ASSUME NEW g \in Requests, NEW t \in TokenIds, Arrive(g, t)
      PROVE  CacheDeserved' /\ cache' \in [TokenIds -> CacheEntry \cup {None}]
  <2>1. CASE JwtExpired(accessTokens[t]) /\ cache' = Cached(t, "expired")
    <3>1. PICK result \in Results : result = "expired" BY DEF Results
    <3>2. accessTokens[t] # None /\ now >= accessTokens[t].expires_at
      BY <1>5, <2>1 DEF Arrive, JwtExpired
    <3>3. cache' = Cached(t, result) BY <2>1, <3>1
    <3>4. QED BY <3>1, <3>2, <3>3, EntryWritten
  <2>2. QED BY <1>2, <1>4, <1>5, <2>1 DEF Arrive
<1>6. ASSUME NEW g \in Requests, VerifyToken(g) \/ TouchToken(g) \/ FailVerify(g)
      PROVE  CacheDeserved' /\ cache' \in [TokenIds -> CacheEntry \cup {None}]
  <2>1. requests[g] # None /\ requests[g].pc \in {"verify", "touch"} /\ Sound(requests[g])
    BY <1>6, RequestByRequest DEF VerifyToken, TouchToken, FailVerify, InRequest
  <2>2. PICK t \in TokenIds : t = requests[g].token /\ accessTokens[t] # None
    BY <2>1, TokenOfRequest DEF Sound
  <2>3. CASE VerifyToken(g) /\ Revoked(accessTokens[t]) /\ cache' = Cached(t, "revoked")
    <3>1. PICK result \in Results : result = "revoked" BY DEF Results
    <3>2. accessTokens[t].revoked BY <2>3 DEF Revoked
    <3>3. cache' = Cached(t, result) BY <2>3, <3>1
    <3>4. QED BY <2>2, <3>1, <3>2, <3>3, EntryWritten
  <2>4. CASE \E result \in {"active", "failed"} : cache' = Cached(t, result)
    <3>1. PICK result \in Results \ {"revoked", "expired"} : cache' = Cached(t, result)
      BY <2>4 DEF Results
    <3>2. QED BY <3>1, EntryWritten
  <2>5. QED
    BY <1>2, <1>6, <2>2, <2>3, <2>4 DEF VerifyToken, TouchToken, FailVerify
<1>7. QED
  BY <1>2, <1>3, <1>5, <1>6
  DEF GatewayNext, RequestStep, ArriveWithoutToken, WithinLimit, OverLimit, ValidateConsent,
      ExpireConsent, FailValidate, EnforceScope, LogDeniedRequest, LogAllowedRequest, Leave,
      CheckConsentStatus, Restart

-----------------------------------------------------------------------------
(* A step of the gateway                                                   *)

\* The gateway expires a consent only when its time is up; that moves it as
\* ConsentLifecycle allows and disturbs no call of the server.
LEMMA ExpireConsentKeeps ==
  ASSUME BankInv, NEW g \in Requests, ExpireConsent(g),
         UNCHANGED <<decisions, revocations, tokenVars>>
  PROVE  /\ ServerInv' /\ ExpiredOverdue' /\ Onward
         /\ Lifecycle!Next \/ UNCHANGED StatusOf
<1>1. PICK r \in ApiRequest : r = requests[g] /\ r.pc = "expire" /\ Sound(r)
  BY RequestByRequest DEF ExpireConsent, InRequest, BankInv, GatewayTypeOK
<1>2. PICK c \in ConsentIds : c = r.consent /\ WasApproved(c) /\ ~SqlLive(consents[c])
  BY <1>1 DEF Sound, ApiRequest
<1>3. /\ FlowTypeOK /\ FlowInv /\ ServerInv /\ TokenTypeOK /\ ExpiredOverdue
      /\ consents[c] \in Consent /\ consents[c] # None
      /\ consents \in [ConsentIds -> Consent \cup {None}] /\ now \in Nat
  BY <1>2, ConsentRow DEF BankInv, ServerInv, FlowInv, WasApproved, FlowTypeOK, TablesTypeOK
<1>4. PICK row : row = [consents[c] EXCEPT !.status = "expired"] OBVIOUS
<1>5. /\ row \in Consent /\ row.status = "expired" /\ row.customer = consents[c].customer
      /\ row.client = consents[c].client /\ row.granted = consents[c].granted
      /\ row.expires_at = consents[c].expires_at /\ row # None
  BY <1>3, <1>4, SentinelAssumption DEF Consent, Statuses
<1>6. consents' = [consents EXCEPT ![c] = row] BY <1>1, <1>2, <1>4 DEF ExpireConsent
<1>7. UNCHANGED <<now, authRequests, authCodes, accessTokens, redirected, decisions,
                  revocations, exchanges, minted, invalidated>>
  BY DEF ExpireConsent, tokenVars
<1>8. Kept BY <1>2, <1>3, <1>5, <1>6 DEF Kept, WasApproved
<1>9. Onward
  <2>1. \A o \in ConsentIds : consents[o] # None =>
          consents'[o].expires_at = consents[o].expires_at /\ StaysSettled(o)
    BY <1>2, <1>3, <1>5, <1>6 DEF StaysSettled, WasApproved
  <2>2. QED BY <1>3, <1>7, <1>8, <2>1 DEF Onward, TokenStays
<1>10. FlowInv'
  <2>1. FlowTypeOK' BY <1>3, <1>5, <1>6, <1>7 DEF FlowTypeOK, TablesTypeOK
  <2>2. \A o \in ConsentIds : Pending(o) => consents'[o] = consents[o]
    BY <1>2, <1>3, <1>6 DEF Pending, WasApproved
  <2>3. QED BY <1>3, <1>7, <1>8, <2>1, <2>2, QuietStep
<1>11. ServerInv'
  <2>1. TokenTypeOK' BY <1>3, <1>7 DEF TokenTypeOK
  <2>2. ExchangeOfCode' /\ AnswerIsStored' /\ CodesInHandStored'
    BY <1>3, <1>7
    DEF ServerInv, ExchangeOfCode, AnswerIsStored, InDecision, CodesInHandStored
  <2>3. CodesKeepTerms BY <1>7 DEF CodesKeepTerms
  <2>4. \A t \in TokenIds : TokenStays(t) BY <1>7 DEF TokenStays
  <2>5. TokenBacked' BY <1>3, <1>7, <1>8, <2>3, <2>4, TokensStayBacked DEF ServerInv
  <2>6. QED BY <1>10, <2>1, <2>2, <2>5 DEF ServerInv
<1>12. ExpiredOverdue'
  <2>1. ASSUME NEW o \in ConsentIds, consents'[o] # None, consents'[o].status = "expired"
        PROVE  ~(SqlLive(consents[o]))'
    BY <1>2, <1>3, <1>5, <1>6, <1>7, <2>1 DEF ExpiredOverdue, SqlLive
  <2>2. ASSUME NEW d \in Deciders, decisions'[d] # None, decisions'[d].pc = "expire"
        PROVE  ~(SqlLive(consents[decisions[d].consent]))'
    <3>1. PICK o \in ConsentIds :
            o = decisions[d].consent /\ consents[o] # None /\ ~SqlLive(consents[o])
      BY <1>3, <1>7, <2>2, CallInFlight
      DEF ExpiredOverdue, InDecision, FlowInv, PendingOwned, Deciding, PendingFor, Pending,
          DecisionCall
    <3>2. ~(SqlLive(consents[o]))' BY <1>3, <1>9, <3>1, OverdueForGood
    <3>3. QED BY <1>7, <3>1, <3>2 DEF SqlLive
  <2>3. QED BY <2>1, <2>2 DEF ExpiredOverdue, InDecision
<1>13. Lifecycle!Next \/ UNCHANGED StatusOf
  <2>1. StatusOf' = [StatusOf EXCEPT ![c] = "expired"]
    <3>1. \A o \in ConsentIds \ {c} : consents'[o] = consents[o] BY <1>3, <1>6
    <3>2. consents'[c] # None /\ consents'[c].status = "expired" BY <1>3, <1>5, <1>6
    <3>3. QED BY <1>3, <3>1, <3>2, OneMove
  <2>2. StatusOf[c] \in {"approved", "revoked", "expired"} BY <1>2 DEF StatusOf, WasApproved
  <2>3. CASE StatusOf[c] = "expired"
    BY <2>1, <2>3 DEF StatusOf
  <2>4. CASE StatusOf[c] \in {"approved", "revoked"}
    BY <2>1, <2>4 DEF Lifecycle!Next, Lifecycle!Expire, Lifecycle!Move
  <2>5. QED BY <2>2, <2>3, <2>4
<1>14. QED BY <1>9, <1>11, <1>12, <1>13
\* A step of the gateway that writes nothing of the server's
LEMMA QuietGatewayStep ==
  ASSUME BankInv, GatewayNext, UNCHANGED serverVars
  PROVE  ServerInv' /\ ExpiredOverdue' /\ Onward
<1>1. ServerInv' BY ServerStepInv DEF BankInv
<1>2. UNCHANGED <<now, consents, decisions, accessTokens>> BY DEF serverVars, flowVars, tables
<1>3. ExpiredOverdue' BY <1>2 DEF BankInv, ExpiredOverdue, InDecision, SqlLive
<1>4. Onward BY <1>2, SameConsentsOnward DEF BankInv, TokenStays
<1>5. QED BY <1>1, <1>3, <1>4

\* Every step of the gateway expires a consent or writes nothing of the server's.
LEMMA GatewayStepKinds ==
  ASSUME GatewayNext, UNCHANGED <<decisions, revocations, tokenVars>>
  PROVE  UNCHANGED serverVars \/ \E g \in Requests : ExpireConsent(g)
<1> DEFINE Quiet == now' = now /\ tables' = tables /\ redirected' = redirected
<1>1. ASSUME NEW g \in Requests, RequestStep(g), ~ExpireConsent(g) PROVE Quiet
  <2>1. ASSUME NEW e \in Endpoints, EnforceScope(g, e) PROVE Quiet
    BY <2>1 DEF EnforceScope
  <2>2. CASE VerifyToken(g) \/ TouchToken(g) \/ FailVerify(g)
    BY <2>2 DEF VerifyToken, TouchToken, FailVerify
  <2>3. CASE WithinLimit(g) \/ OverLimit(g) \/ LogDeniedRequest(g) \/ LogAllowedRequest(g)
    BY <2>3 DEF WithinLimit, OverLimit, LogDeniedRequest, LogAllowedRequest
  <2>4. CASE ValidateConsent(g) \/ FailValidate(g)
    BY <2>4 DEF ValidateConsent, FailValidate
  <2>5. QED BY <1>1, <2>1, <2>2, <2>3, <2>4 DEF RequestStep
<1>2. ASSUME NEW g \in Requests, NEW t \in TokenIds, Arrive(g, t) PROVE Quiet
  BY <1>2 DEF Arrive
<1>3. ASSUME NEW g \in Requests, ArriveWithoutToken(g) \/ Leave(g) PROVE Quiet
  BY <1>3 DEF ArriveWithoutToken, Leave
<1>4. ASSUME NEW g \in Requests, NEW c \in ConsentIds, CheckConsentStatus(g, c) PROVE Quiet
  BY <1>4 DEF CheckConsentStatus
<1>5. Restart => Quiet BY DEF Restart
<1> HIDE DEF Quiet
<1>6. Quiet \/ \E g \in Requests : ExpireConsent(g)
  BY <1>1, <1>2, <1>3, <1>4, <1>5 DEF GatewayNext
<1>7. QED BY <1>6 DEF Quiet, serverVars, flowVars

\* Whatever the gateway does, it writes one request or drops them all.
LEMMA GatewayWrites ==
  ASSUME BankInv, GatewayNext
  PROVE  \/ requests' = [g \in Requests |-> None]
         \/ \E g \in Requests : \E r : Writes(g, r)
<1>1. ASSUME NEW g \in Requests, Leave(g) PROVE \E r : Writes(g, r)
  BY <1>1, FreeWrites DEF Leave
<1>2. QED
  BY <1>1, ArriveWrites, OtherArrivalsWrite, StepWrites DEF GatewayNext, Restart

\* The requests that a step leaves alone stay sound, and so does the one it
\* writes.
LEMMA RequestsStaySound ==
  ASSUME BankInv, Onward,
         \/ requests' = requests \/ requests' = [g \in Requests |-> None]
         \/ \E g \in Requests : \E r : Writes(g, r)
  PROVE  /\ requests' \in [Requests -> ApiRequest \cup {None}]
         /\ \A g \in Requests : requests'[g] # None => Sound(requests[g])'
<1>1. /\ requests \in [Requests -> ApiRequest \cup {None}] /\ FlowTypeOK
      /\ \A g \in Requests : requests[g] # None => Sound(requests[g])
  BY RequestByRequest DEF GatewayTypeOK, ServerInv, FlowInv
<1>2. ASSUME NEW g \in Requests, requests'[g] # None, requests'[g] = requests[g]
      PROVE  Sound(requests[g])'
  <2>1. PICK r \in ApiRequest : r = requests[g] BY <1>1, <1>2
  <2>2. Sound(r)' BY <1>1, <1>2, <2>1, SoundStays
  <2>3. QED BY <1>2, <2>1, <2>2 DEF Sound
<1>3. ASSUME NEW g \in Requests, NEW r \in ApiRequest, Sound(r),
             requests' = [requests EXCEPT ![g] = r]
      PROVE  /\ requests' \in [Requests -> ApiRequest \cup {None}]
             /\ \A h \in Requests : requests'[h] # None => Sound(requests[h])'
  <2>1. Sound(r)' BY <1>1, <1>3, SoundStays
  <2>2. requests'[g] = r BY <1>1, <1>3
  <2>3. Sound(requests[g])' BY <2>1, <2>2 DEF Sound
  <2>4. \A h \in Requests \ {g} : requests'[h] = requests[h] BY <1>1, <1>3
  <2>5. QED BY <1>1, <1>2, <1>3, <2>3, <2>4
<1>4. CASE requests' = requests BY <1>1, <1>2, <1>4
<1>5. CASE requests' = [g \in Requests |-> None] BY <1>5
<1>6. ASSUME NEW g \in Requests, requests' = [requests EXCEPT ![g] = None]
      PROVE  /\ requests' \in [Requests -> ApiRequest \cup {None}]
             /\ \A h \in Requests : requests'[h] # None => Sound(requests[h])'
  BY <1>1, <1>2, <1>6
<1>7. QED BY <1>3, <1>4, <1>5, <1>6 DEF Writes

-----------------------------------------------------------------------------
(* The theorems                                                            *)

\* Empty tables, no calls, an empty cache
LEMMA BankInitInv == BankInit => BankInv
<1> SUFFICES ASSUME BankInit PROVE BankInv
  OBVIOUS
<1>1. ServerInv BY ServerInitInv DEF BankInit
<1>2. GatewayTypeOK BY DEF BankInit, GatewayInit, GatewayTypeOK
<1>3. ExpiredOverdue
  BY DEF BankInit, ServerInit, FlowInit, TablesInit, ExpiredOverdue, InDecision
<1>4. CacheDeserved BY DEF BankInit, GatewayInit, CacheDeserved
<1>5. \A g \in Requests : requests[g] = None BY DEF BankInit, GatewayInit
<1>6. QED BY <1>1, <1>2, <1>3, <1>4, <1>5, RequestByRequest

\* A step of the server beside the requests
LEMMA ServerStepKeepsBank ==
  ASSUME BankInv, ServerNext, UNCHANGED gatewayVars
  PROVE  BankInv'
<1>1. ServerInv /\ FlowInv /\ FlowTypeOK /\ CacheDeserved /\ ExpiredOverdue
  BY DEF BankInv, ServerInv, FlowInv
<1>2. ServerInv' BY <1>1, ServerStepInv
<1>3. UNCHANGED <<cache, requests>> BY DEF gatewayVars
<1>4. Onward BY <1>1, FlowStepOnward, TokenStepOnward DEF ServerNext
<1>5. ExpiredOverdue'
  <2>1. CASE FlowNext BY <1>1, <1>4, <2>1, FlowKeepsOverdue
  <2>2. CASE TokenNext /\ UNCHANGED <<decisions, revocations>>
    <3>1. UNCHANGED <<now, consents, decisions>>
      BY <2>2
      DEF TokenNext, PresentCode, ExchangeStep, MarkCodeAsUsed, GenerateTokens,
          RevokeTokensByCode, FailExchange, RevokeToken, tables
    <3>2. QED BY <1>1, <3>1 DEF ExpiredOverdue, InDecision, SqlLive
  <2>3. QED BY <2>1, <2>2 DEF ServerNext
<1>6. CacheDeserved' BY <1>1, <1>3, <1>4, EntriesStay
<1>7. \A g \in Requests : requests'[g] # None => Sound(requests[g])'
  BY <1>3, <1>4, RequestsStaySound
<1>8. GatewayTypeOK' BY <1>3 DEF BankInv, GatewayTypeOK
<1>9. QED BY <1>2, <1>5, <1>6, <1>7, <1>8, RequestByRequestNext
\* A step of the gateway
LEMMA GatewayStepKeepsBank ==
  ASSUME BankInv, GatewayNext, UNCHANGED <<decisions, revocations, tokenVars>>
  PROVE  BankInv'
<1>1. ServerInv' /\ ExpiredOverdue' /\ Onward
  BY GatewayStepKinds, QuietGatewayStep, ExpireConsentKeeps
<1>2. UNCHANGED <<now, accessTokens>>
  BY GatewayStepKinds DEF ExpireConsent, serverVars, flowVars, tables
<1>3. CacheDeserved' /\ cache' \in [TokenIds -> CacheEntry \cup {None}]
  BY <1>1, <1>2, CacheStep
<1>4. /\ requests' \in [Requests -> ApiRequest \cup {None}]
      /\ \A g \in Requests : requests'[g] # None => Sound(requests[g])'
  BY <1>1, GatewayWrites, RequestsStaySound
<1>5. GatewayTypeOK' BY <1>3, <1>4 DEF GatewayTypeOK
<1>6. QED BY <1>1, <1>3, <1>4, <1>5, RequestByRequestNext

\* Every step of the whole and every stutter keeps the invariant.
LEMMA BankStepInv == BankInv /\ [BankNext]_allVars => BankInv'
<1> SUFFICES ASSUME BankInv, [BankNext]_allVars PROVE BankInv'
  OBVIOUS
<1>1. CASE BankNext BY <1>1, ServerStepKeepsBank, GatewayStepKeepsBank DEF BankNext
<1>2. CASE UNCHANGED allVars
  <2>1. UNCHANGED serverVars /\ UNCHANGED <<cache, requests>>
    BY <1>2 DEF allVars, gatewayVars
  <2>2. UNCHANGED <<now, consents, decisions, accessTokens>>
    BY <2>1 DEF serverVars, flowVars, tables
  <2>3. ServerInv' BY <2>1, ServerStepInv DEF BankInv
  <2>4. Onward BY <2>2, SameConsentsOnward DEF BankInv, TokenStays
  <2>5. ExpiredOverdue' BY <2>2 DEF BankInv, ExpiredOverdue, InDecision, SqlLive
  <2>6. CacheDeserved' BY <2>1, <2>2 DEF BankInv, CacheDeserved
  <2>7. \A g \in Requests : requests'[g] # None => Sound(requests[g])'
    BY <2>1, <2>4, RequestsStaySound
  <2>8. GatewayTypeOK' BY <2>1 DEF BankInv, GatewayTypeOK
  <2>9. QED BY <2>3, <2>5, <2>6, <2>7, <2>8, RequestByRequestNext
<1>3. QED BY <1>1, <1>2

\* Consents, tokens, cache entries and requests rest on each other as they
\* should, however decisions, revocations, exchanges, requests, failures and
\* restarts interleave.
THEOREM BankInvariant == BankSpec => []BankInv
BY BankInitInv, BankStepInv, PTL DEF BankSpec

\* A request that came after its consent was revoked or had expired is never
\* handed to the banking API (docs/consent-revocation.md:222-225).
THEOREM RevocationHolds == BankSpec => []NoAccessWithoutConsent
<1>1. BankInv => NoAccessWithoutConsent BY DEF BankInv
<1>2. QED BY <1>1, BankInvariant, PTL

\* A cached refusal that says revoked is of a revoked token, one that says
\* expired of an expired one (docs/gateway-introspection.md:161-164); of a
\* refusal cached after a failed query nothing is said.
THEOREM CachedRefusalsDeserved == BankSpec => []RefusalsDeserved
<1>1. BankInv => RefusalsDeserved BY DEF BankInv, CacheDeserved, RefusalsDeserved, Hit
<1>2. QED BY <1>1, BankInvariant, PTL

\* What a denied request is told of its consent is true, and it is never that
\* the consent is missing, denied or too narrow (consent-validation.js:142-260).
THEOREM DenialsTrue == BankSpec => []ReasonsTrue
<1>1. BankInv => ReasonsTrue BY DEF BankInv
<1>2. QED BY <1>1, BankInvariant, PTL

\* What an endpoint that takes a scope serves rests on one that the customer
\* granted (scope-enforcement.js:73-79, 114-168).
THEOREM ServiceGranted == BankSpec => []ServedAsGranted
<1>1. BankInv => ServedAsGranted BY DEF BankInv
<1>2. QED BY <1>1, BankInvariant, PTL

\* Every step of the whole moves consents along the diagram, or not at all.
LEMMA BankStepMoves ==
  ASSUME BankInv, [BankNext]_allVars
  PROVE  [Lifecycle!Next]_StatusOf
<1>1. CASE consents' = consents BY <1>1 DEF StatusOf
<1>2. CASE FlowNext BY <1>2, FlowStepMoves DEF BankInv, ServerInv
<1>3. CASE TokenNext
  <2>1. consents' = consents
    BY <1>3
    DEF TokenNext, PresentCode, ExchangeStep, MarkCodeAsUsed, GenerateTokens,
        RevokeTokensByCode, FailExchange, RevokeToken, tables
  <2>2. QED BY <1>1, <2>1
<1>4. CASE GatewayNext /\ UNCHANGED <<decisions, revocations, tokenVars>>
  <2>1. CASE UNCHANGED serverVars
    BY <1>1, <2>1 DEF serverVars, flowVars, tables
  <2>2. CASE \E g \in Requests : ExpireConsent(g)
    BY <1>4, <2>2, ExpireConsentKeeps
  <2>3. QED BY <1>4, <2>1, <2>2, GatewayStepKinds
<1>5. CASE UNCHANGED allVars BY <1>1, <1>5 DEF allVars, serverVars, flowVars, tables
<1>6. QED BY <1>2, <1>3, <1>4, <1>5 DEF BankNext, ServerNext

\* With the gateway's own expiry of consents, the whole system still moves
\* every consent along the diagram of ConsentLifecycle.
THEOREM BankImplementsLifecycle == BankSpec => LifecycleSpec
<1>1. BankInit => Lifecycle!Init
  BY DEF BankInit, ServerInit, FlowInit, TablesInit, Lifecycle!Init, StatusOf
<1>2. BankInv /\ [BankNext]_allVars => [Lifecycle!Next]_StatusOf
  BY BankStepMoves
<1>3. QED BY <1>1, <1>2, BankInvariant, PTL DEF BankSpec, LifecycleSpec, Lifecycle!Spec

\* The gateway overwrites a revoked consent with "expired", but neither it nor
\* anybody else brings a denied, revoked or expired one back
\* (consent-validation.js:183-188, consent-manager.js:85-219).
THEOREM SettledOnThePath == BankSpec => NeverResurrected
<1>1. BankInv /\ [BankNext]_allVars
        => [\A c \in ConsentIds : consents[c] # None => StaysSettled(c)]_flowVars
  BY BankStepMoves, MovesStaySettled DEF BankInv, ServerInv
<1>2. QED BY <1>1, BankInvariant, PTL DEF BankSpec, NeverResurrected

-----------------------------------------------------------------------------
(* Single use on the whole path                                            *)

\* The gateway writes no code, no request and no token.
LEMMA GatewayLeavesTurns ==
  ASSUME BankInv, GatewayNext, UNCHANGED <<decisions, revocations, tokenVars>>,
         TurnInv, RequestTurn
  PROVE  TurnInv' /\ RequestTurn'
<1>1. ServerInv /\ FlowTypeOK BY DEF BankInv, ServerInv, FlowInv
<1>2. UNCHANGED <<authRequests, authCodes, accessTokens, redirected, decisions,
                  exchanges, minted, invalidated>>
  BY GatewayStepKinds DEF ExpireConsent, serverVars, flowVars, tables, tokenVars
<1>3. TurnInv' BY <1>1, <1>2, TurnKept DEF TokenStays
<1>4. RequestTurn' BY <1>1, <1>2, RequestsKept DEF GoesOn
<1>5. QED BY <1>3, <1>4

\* As long as calls on one code, or on one request, do not overlap, a code buys
\* one token, a replay whose UPDATE took effect leaves no good one, and a request
\* is answered once, also beside the gateway (token-exchange.js:300-310,
\* consent-handler.js:347).
THEOREM PathInTurn == BankSpec /\ [](ExchangesApart /\ DecisionsApart) => []InTurn
<1>1. BankInit => TurnInv /\ RequestTurn BY TurnInit, RequestTurnInit DEF BankInit
<1>2. /\ BankInv /\ BankInv' /\ TurnInv /\ RequestTurn
      /\ ExchangesApart /\ DecisionsApart /\ [BankNext]_allVars
      => TurnInv' /\ RequestTurn'
  <2> SUFFICES ASSUME BankInv, BankInv', TurnInv, RequestTurn, ExchangesApart,
                      DecisionsApart, [BankNext]_allVars
               PROVE  TurnInv' /\ RequestTurn'
    OBVIOUS
  <2>1. ServerInv /\ ServerInv' BY DEF BankInv
  <2>2. CASE [ServerNext]_serverVars BY <2>1, <2>2, TurnStep, RequestTurnStep
  <2>3. CASE GatewayNext /\ UNCHANGED <<decisions, revocations, tokenVars>>
    BY <2>3, GatewayLeavesTurns
  <2>4. QED BY <2>2, <2>3 DEF BankNext, allVars
<1>3. TurnInv /\ RequestTurn => InTurn BY DEF TurnInv, RequestTurn, InTurn
<1>4. QED BY <1>1, <1>2, <1>3, BankInvariant, PTL DEF BankSpec

-----------------------------------------------------------------------------
(* Dead tokens stay out                                                    *)

\* Where a request is that takes its token for good, or is about to
InChain == Introspected \cup {"verify"}

\* A handler past the chain does not take its request back into it.
LEMMA ChainLeft ==
  ASSUME BankInv, NEW g \in Requests, requests[g] # None, requests[g].pc \notin InChain,
         RequestStep(g) \/ Leave(g), requests'[g] # None
  PROVE  requests'[g].pc \notin InChain
<1>1. PICK r \in ApiRequest : r = requests[g] BY DEF BankInv, GatewayTypeOK
<1>2. GatewayTypeOK /\ requests \in [Requests -> ApiRequest \cup {None}]
  BY DEF BankInv, GatewayTypeOK
<1>3. r.pc \in {"expire", "log", "answered"}
  BY <1>1, RequestRecord DEF InChain, Introspected, Pcs
<1>4. CASE LogDeniedRequest(g)
  <2>1. PICK entry : requests' = [requests EXCEPT ![g] = Audited(r, "answered", entry)]
    BY <1>1, <1>4 DEF LogDeniedRequest, Audited
  <2>2. requests'[g].pc = "answered" BY <1>2, <2>1, EditsMove DEF Moved
  <2>3. QED BY <2>2 DEF InChain, Introspected
<1>5. CASE ExpireConsent(g) \/ FailValidate(g)
  <2>1. \E status, reason : Refuse(g, status, reason)
    BY <1>2, <1>5 DEF ExpireConsent, FailValidate
  <2>2. requests'[g].pc = "log" BY <1>1, <1>2, <2>1, RefuseMoved DEF Moved
  <2>3. QED BY <2>2 DEF InChain, Introspected
<1>6. CASE Leave(g) BY <1>2, <1>6 DEF Leave
<1>7. QED
  BY <1>1, <1>3, <1>4, <1>5, <1>6
  DEF RequestStep, VerifyToken, TouchToken, FailVerify, WithinLimit, OverLimit, ValidateConsent,
      EnforceScope, LogAllowedRequest, InRequest
\* How a request comes to be at a step of the chain with the token t: it was
\* there, or it has just come, past the cache or with a JWT not yet expired,
\* or the SELECT has found the token not revoked.
LEMMA TakenBefore ==
  ASSUME BankInv, GatewayNext, NEW g \in Requests, NEW t \in TokenIds,
         requests'[g] # None, requests'[g].token = t, requests'[g].pc \in InChain
  PROVE  \/ /\ requests[g] # None /\ requests[g].token = t /\ requests[g].pc \in InChain
            /\ \/ requests[g].pc # "verify"
               \/ requests'[g].pc = "verify"
               \/ ~accessTokens[t].revoked
         \/ CachedActive(t)
         \/ requests'[g].pc = "verify" /\ ~JwtExpired(accessTokens[t])
<1>1. GatewayTypeOK /\ requests \in [Requests -> ApiRequest \cup {None}]
  BY DEF BankInv, GatewayTypeOK
<1>2. CASE requests'[g] = requests[g] BY <1>2
<1>3. ASSUME requests'[g] # requests[g]
      PROVE  \/ \E u \in TokenIds : Arrive(g, u)
             \/ ArriveWithoutToken(g) \/ \E c \in ConsentIds : CheckConsentStatus(g, c)
             \/ RequestStep(g) \/ Leave(g)
  <2>1. ASSUME NEW h \in Requests, NEW r, Writes(h, r) PROVE h = g
    BY <1>1, <1>3, <2>1 DEF Writes
  <2>2. ~Restart BY DEF Restart
  <2>3. ASSUME NEW h \in Requests, Leave(h) PROVE h = g
    BY <1>1, <1>3, <2>3 DEF Leave
  <2>4. QED
    BY <2>1, <2>2, <2>3, ArriveWrites, OtherArrivalsWrite, StepWrites DEF GatewayNext
<1>4. ASSUME NEW u \in TokenIds, Arrive(g, u)
      PROVE  \/ CachedActive(t)
             \/ requests'[g].pc = "verify" /\ ~JwtExpired(accessTokens[t])
  <2>1. CASE Hit(u) /\ cache[u].result = "active" /\ Open(g, u, "limit")
    <3>1. u = t BY <1>1, <2>1 DEF Open, Opened
    <3>2. QED BY <2>1, <3>1 DEF CachedActive
  <2>2. CASE ~JwtExpired(accessTokens[u]) /\ Open(g, u, "verify")
    <3>1. u = t /\ requests'[g].pc = "verify" BY <1>1, <2>2 DEF Open, Opened
    <3>2. QED BY <2>2, <3>1
  <2>3. ASSUME NEW result, OpenRefused(g, u, result) PROVE FALSE
    <3>1. requests'[g].pc = "log" BY <1>1, <2>3 DEF OpenRefused, Opened
    <3>2. QED BY <3>1 DEF InChain, Introspected
  <2>4. QED BY <1>4, <2>1, <2>2, <2>3 DEF Arrive
<1>5. ~ArriveWithoutToken(g) /\ \A c \in ConsentIds : ~CheckConsentStatus(g, c)
  BY <1>1 DEF ArriveWithoutToken, CheckConsentStatus, Opened, InChain, Introspected
<1>6. CASE (RequestStep(g) \/ Leave(g)) /\ requests'[g] # requests[g]
  <2>1. requests[g] # None
    BY <1>6
    DEF RequestStep, VerifyToken, TouchToken, FailVerify, WithinLimit, OverLimit,
        ValidateConsent, ExpireConsent, FailValidate, EnforceScope, LogDeniedRequest,
        LogAllowedRequest, Leave, InRequest
  <2>2. requests[g].pc \in InChain BY <1>6, <2>1, ChainLeft
  <2>3. ~Leave(g) BY <1>1 DEF Leave
  <2>4. requests[g].token = t
    <3>1. PICK r : Writes(g, r) BY <1>6, <2>3, StepWrites
    <3>2. requests'[g] = r BY <1>1, <3>1 DEF Writes
    <3>3. QED BY <2>1, <3>1, <3>2 DEF Writes
  <2>5. ASSUME requests[g].pc = "verify" PROVE ~accessTokens[t].revoked
    <3>1. VerifyToken(g) \/ FailVerify(g)
      BY <1>6, <2>3, <2>5
      DEF RequestStep, TouchToken, WithinLimit, OverLimit, ValidateConsent, ExpireConsent,
          FailValidate, EnforceScope, LogDeniedRequest, LogAllowedRequest, InRequest
    <3>2. ASSUME NEW status, NEW reason, Refuse(g, status, reason) PROVE FALSE
      <4>1. requests'[g].pc = "log" BY <1>1, <2>1, <3>2, RefuseMoved DEF Moved
      <4>2. QED BY <4>1 DEF InChain, Introspected
    <3>3. QED BY <2>4, <3>1, <3>2 DEF VerifyToken, FailVerify, Revoked
  <2>6. QED BY <2>1, <2>2, <2>4, <2>5
<1>7. QED BY <1>2, <1>3, <1>4, <1>5, <1>6

\* How the cache comes to hold t as active: it did, or a request that took it
\* for good put it there.
LEMMA ActiveBefore ==
  ASSUME BankInv, Onward, cache' = cache \/ GatewayNext, NEW t \in TokenIds, CachedActive(t)'
  PROVE  CachedActive(t) \/ \E g \in Requests : /\ requests[g] # None
                                                /\ requests[g].token = t
                                                /\ requests[g].pc = "touch"
<1>1. /\ cache \in [TokenIds -> CacheEntry \cup {None}] /\ now \in Nat
      /\ now' \in Nat /\ now <= now'
  BY DEF BankInv, GatewayTypeOK, Onward
<1>2. cache'[t] # None /\ cache'[t].result = "active" /\ ~(now' > cache'[t].expires_at)
  BY DEF CachedActive, Hit, JsExpired
<1>3. CASE cache'[t] = cache[t]
  <2>1. cache[t].expires_at \in Nat BY <1>1, <1>2, <1>3 DEF CacheEntry
  <2>2. QED BY <1>1, <1>2, <1>3, <2>1 DEF CachedActive, Hit, JsExpired
<1>4. ASSUME NEW u \in TokenIds, NEW result, cache' = Cached(u, result), cache'[t] # cache[t]
      PROVE  u = t /\ result = "active"
  BY <1>1, <1>2, <1>4 DEF Cached
<1>5. CASE cache'[t] # cache[t]
  <2>1. GatewayNext BY <1>5
  <2>2. ~Restart BY <1>2 DEF Restart
  <2>3. ASSUME NEW g \in Requests, NEW u \in TokenIds, Arrive(g, u) PROVE FALSE
    <3>1. cache' # Cached(u, "expired") BY <1>4, <1>5
    <3>2. cache' # [cache EXCEPT ![u] = None] BY <1>1, <1>2, <1>5
    <3>3. QED BY <1>5, <2>3, <3>1, <3>2 DEF Arrive
  <2>4. ASSUME NEW g \in Requests, VerifyToken(g) \/ TouchToken(g) \/ FailVerify(g)
        PROVE  requests[g] # None /\ requests[g].token = t /\ requests[g].pc = "touch"
    <3>1. requests[g] # None /\ requests[g].pc \in {"verify", "touch"} /\ Sound(requests[g])
      BY <2>4, RequestByRequest DEF VerifyToken, TouchToken, FailVerify, InRequest
    <3>2. PICK u \in TokenIds : u = requests[g].token
      BY <3>1, TokenOfRequest DEF Sound
    <3>3. cache' # Cached(u, "revoked") /\ cache' # Cached(u, "failed") BY <1>4, <1>5
    <3>4. TouchToken(g) /\ cache' = Cached(u, "active")
      BY <1>5, <2>4, <3>2, <3>3 DEF VerifyToken, TouchToken, FailVerify
    <3>5. QED BY <1>4, <1>5, <3>2, <3>4 DEF TouchToken, InRequest
  <2>5. ASSUME NEW g \in Requests, RequestStep(g)
        PROVE  requests[g] # None /\ requests[g].token = t /\ requests[g].pc = "touch"
    <3>1. VerifyToken(g) \/ TouchToken(g) \/ FailVerify(g)
      BY <1>5, <2>5
      DEF RequestStep, WithinLimit, OverLimit, ValidateConsent, ExpireConsent, FailValidate,
          EnforceScope, LogDeniedRequest, LogAllowedRequest
    <3>2. QED BY <2>4, <3>1
  <2>6. ASSUME NEW g \in Requests
        PROVE  /\ ~ArriveWithoutToken(g) /\ ~Leave(g)
               /\ \A c \in ConsentIds : ~CheckConsentStatus(g, c)
    BY <1>5 DEF ArriveWithoutToken, Leave, CheckConsentStatus
  <2>7. QED BY <2>1, <2>2, <2>3, <2>5, <2>6 DEF GatewayNext
<1>6. QED BY <1>3, <1>5

\* A token revoked or expired that nothing takes for good any more
LEMMA DeadStaysOut ==
  ASSUME BankInv, Onward, (requests' = requests /\ cache' = cache) \/ GatewayNext,
         NEW t \in TokenIds, accessTokens[t] # None
  PROVE  /\ accessTokens[t].revoked /\ ~Taken(t, Introspected) => ~Taken(t, Introspected)'
         /\ now >= accessTokens[t].expires_at /\ ~Taken(t, InChain) => ~Taken(t, InChain)'
<1>1. \A pcs \in {Introspected, InChain} :
        ~Taken(t, pcs) => ~CachedActive(t) /\ ~CachedActive(t)'
  BY ActiveBefore DEF Taken, InChain, Introspected
<1>2. ASSUME accessTokens[t].revoked, ~Taken(t, Introspected), NEW g \in Requests,
             requests'[g] # None, requests'[g].token = t, requests'[g].pc \in Introspected
      PROVE  FALSE
  <2>1. ~CachedActive(t) BY <1>1, <1>2
  <2>2. CASE requests' = requests BY <1>2, <2>2 DEF Taken
  <2>3. CASE GatewayNext
    <3>1. requests'[g].pc \in InChain /\ requests'[g].pc # "verify"
      BY <1>2 DEF InChain, Introspected
    <3>2. requests[g] # None /\ requests[g].token = t /\ requests[g].pc \in Introspected
      BY <1>2, <2>1, <2>3, <3>1, TakenBefore DEF InChain
    <3>3. QED BY <1>2, <3>2 DEF Taken
  <2>4. QED BY <2>2, <2>3
<1>3. ASSUME now >= accessTokens[t].expires_at, ~Taken(t, InChain), NEW g \in Requests,
             requests'[g] # None, requests'[g].token = t, requests'[g].pc \in InChain
      PROVE  FALSE
  <2>1. ~CachedActive(t) BY <1>1, <1>3
  <2>2. CASE requests' = requests BY <1>3, <2>2 DEF Taken
  <2>3. CASE GatewayNext
    <3>1. requests[g] # None /\ requests[g].token = t /\ requests[g].pc \in InChain
      BY <1>3, <2>1, <2>3, TakenBefore DEF JwtExpired
    <3>2. QED BY <1>3, <3>1 DEF Taken
  <2>4. QED BY <2>2, <2>3
<1>4. QED BY <1>1, <1>2, <1>3 DEF Taken

\* Once neither the cache nor a request in flight takes a revoked or expired
\* token for good, none ever does again (token-introspection.js:24-34, 63-68).
THEOREM DeadTokensStayOut == BankSpec => DeadTokenStaysOut
<1>1. BankInv /\ [BankNext]_allVars =>
        [\A t \in TokenIds : accessTokens[t] # None =>
           /\ accessTokens[t].revoked /\ ~Taken(t, Introspected) => ~Taken(t, Introspected)'
           /\ now >= accessTokens[t].expires_at /\ ~Taken(t, Introspected \cup {"verify"})
                => ~Taken(t, Introspected \cup {"verify"})']_allVars
  <2> SUFFICES ASSUME BankInv, BankNext, NEW t \in TokenIds, accessTokens[t] # None
      PROVE  /\ accessTokens[t].revoked /\ ~Taken(t, Introspected) => ~Taken(t, Introspected)'
             /\ now >= accessTokens[t].expires_at /\ ~Taken(t, Introspected \cup {"verify"})
                  => ~Taken(t, Introspected \cup {"verify"})'
    OBVIOUS
  <2>1. Onward
    <3>1. CASE ServerNext
      BY <3>1, FlowStepOnward, TokenStepOnward DEF ServerNext, BankInv
    <3>2. CASE GatewayNext /\ UNCHANGED <<decisions, revocations, tokenVars>>
      BY <3>2, GatewayStepKinds, QuietGatewayStep, ExpireConsentKeeps
    <3>3. QED BY <3>1, <3>2 DEF BankNext
  <2>2. (requests' = requests /\ cache' = cache) \/ GatewayNext BY DEF BankNext, gatewayVars
  <2>3. QED BY <2>1, <2>2, DeadStaysOut DEF InChain
<1>2. QED BY <1>1, BankInvariant, PTL DEF BankSpec, DeadTokenStaysOut
-----------------------------------------------------------------------------
(* Refusals of tokens                                                      *)

\* As long as no query throws, no refusal in the cache is of an error, and
\* whoever was told that its token is invalid has one that is.
DeadToken(t) == accessTokens[t].revoked \/ now >= accessTokens[t].expires_at

NoErrorCached == \A t \in TokenIds : cache[t] # None => cache[t].result # "failed"

ToldTruly ==
  \A g \in Requests : requests[g] # None /\ requests[g].reason = "invalid_token" =>
    LET t == requests[g].token IN
    t \in TokenIds /\ accessTokens[t] # None /\ DeadToken(t)

\* A dead token stays dead.
LEMMA DeadForGood ==
  ASSUME BankInv, Onward, NEW t \in TokenIds, accessTokens[t] # None, DeadToken(t)
  PROVE  accessTokens'[t] # None /\ DeadToken(t)'
<1>1. accessTokens[t].expires_at \in Nat
  BY DEF BankInv, ServerInv, FlowInv, FlowTypeOK, TablesTypeOK, AccessToken
<1>2. QED BY <1>1 DEF Onward, TokenStays, DeadToken

\* Without faults nothing writes an error into the cache.
LEMMA NoErrorStep ==
  ASSUME BankInv, ~Faults, NoErrorCached, cache' = cache \/ GatewayNext
  PROVE  NoErrorCached'
<1>1. cache \in [TokenIds -> CacheEntry \cup {None}] BY DEF BankInv, GatewayTypeOK
<1>2. ASSUME NEW u, NEW result \in {"active", "revoked", "expired"}, cache' = Cached(u, result)
      PROVE  NoErrorCached'
  BY <1>1, <1>2 DEF NoErrorCached, Cached
<1>3. ASSUME NEW t \in TokenIds, cache' = [cache EXCEPT ![t] = None] PROVE NoErrorCached'
  BY <1>1, <1>3 DEF NoErrorCached
<1>4. CASE cache' = cache BY <1>4 DEF NoErrorCached
<1>5. QED
  BY <1>2, <1>3, <1>4
  DEF GatewayNext, RequestStep, Arrive, ArriveWithoutToken, VerifyToken, TouchToken, FailVerify,
      WithinLimit, OverLimit, ValidateConsent, ExpireConsent, FailValidate, EnforceScope,
      LogDeniedRequest, LogAllowedRequest, Leave, CheckConsentStatus, Restart

\* A request in flight is told that its token is invalid by the SELECT alone,
\* of a token that is revoked (token-introspection.js:164-178).
LEMMA ToldInFlight ==
  ASSUME BankInv, ~Faults, NEW g \in Requests, RequestStep(g), requests'[g] # None,
         requests'[g].reason = "invalid_token"
  PROVE  /\ requests[g] # None /\ requests'[g].token = requests[g].token
         /\ \/ requests[g].reason = "invalid_token"
            \/ /\ requests[g].token \in TokenIds /\ accessTokens[requests[g].token] # None
               /\ accessTokens[requests[g].token].revoked
<1>1. requests[g] # None
  BY DEF RequestStep, VerifyToken, TouchToken, FailVerify, WithinLimit, OverLimit,
         ValidateConsent, ExpireConsent, FailValidate, EnforceScope, LogDeniedRequest,
         LogAllowedRequest, InRequest
<1>2. PICK r \in ApiRequest : r = requests[g] BY <1>1 DEF BankInv, GatewayTypeOK
<1>3. GatewayTypeOK /\ requests \in [Requests -> ApiRequest \cup {None}] /\ Sound(r)
  BY <1>1, <1>2, RequestByRequest DEF BankInv, GatewayTypeOK
<1>4. requests'[g].token = r.token
  <2>1. PICK u : Writes(g, u) BY StepWrites
  <2>2. requests'[g] = u BY <1>3, <2>1 DEF Writes
  <2>3. QED BY <1>1, <1>2, <2>1, <2>2 DEF Writes
<1>5. ASSUME NEW status, NEW reason, Refuse(g, status, reason) PROVE reason = "invalid_token"
  <2>1. requests'[g].reason = reason BY <1>1, <1>3, <1>5, RefuseMoved DEF Moved
  <2>2. QED BY <2>1
<1>6. ASSUME NEW pc, requests' = [requests EXCEPT ![g].pc = pc]
      PROVE  r.reason = "invalid_token"
  BY <1>2, <1>3, <1>6 DEF ApiRequest
<1>7. CASE VerifyToken(g)
  <2>1. CASE Revoked(accessTokens[r.token])
    <3>1. r.token # None BY <1>2, <1>3, <1>7 DEF VerifyToken, InRequest, Sound
    <3>2. r.token \in TokenIds /\ accessTokens[r.token] # None
      BY <1>2, <1>3, <3>1 DEF ApiRequest, Sound
    <3>3. QED BY <1>1, <1>2, <1>4, <2>1, <3>2 DEF Revoked
  <2>2. CASE ~Revoked(accessTokens[r.token])
    BY <1>1, <1>2, <1>4, <1>6, <1>7, <2>2 DEF VerifyToken
  <2>3. QED BY <2>1, <2>2
<1>8. CASE TouchToken(g) \/ FailVerify(g) \/ WithinLimit(g) \/ OverLimit(g)
  BY <1>1, <1>2, <1>4, <1>5, <1>6, <1>8 DEF TouchToken, FailVerify, WithinLimit, OverLimit
<1>9. CASE ValidateConsent(g)
  <2>1. \A status : ReasonOf(status) # "invalid_token" BY DEF ReasonOf
  <2>2. QED BY <1>1, <1>2, <1>4, <1>5, <1>6, <1>9, <2>1 DEF ValidateConsent
<1>10. CASE ExpireConsent(g) \/ FailValidate(g)
  BY <1>3, <1>5, <1>10 DEF ExpireConsent, FailValidate
<1>11. ASSUME NEW e \in Endpoints, EnforceScope(g, e) PROVE r.reason = "invalid_token"
  <2>1. \/ requests' = [requests EXCEPT ![g] = Answered(r, e, "answered", 403)]
        \/ requests' = [requests EXCEPT ![g] = Answered(r, e, "handed", 200)]
        \/ requests' = [requests EXCEPT ![g] =
             RefusedAt(r, e, "log", 403, "insufficient_scope")]
    BY <1>2, <1>11, Zenon DEF EnforceScope, Answered, RefusedAt
  <2>2. QED BY <1>3, <2>1, EditsMove DEF Moved
<1>12. CASE LogDeniedRequest(g) \/ LogAllowedRequest(g)
  <2>1. PICK entry : requests' = [requests EXCEPT ![g] = Audited(r, "answered", entry)]
    BY <1>2, <1>12 DEF LogDeniedRequest, LogAllowedRequest, Audited
  <2>2. requests'[g].reason = r.reason BY <1>3, <2>1, EditsMove DEF Moved
  <2>3. QED BY <1>1, <1>2, <1>4, <2>2
<1>13. QED
  BY <1>1, <1>2, <1>4, <1>7, <1>8, <1>9, <1>10, <1>11, <1>12 DEF RequestStep

\* A request that comes is told so by the cache, which is right, or because
\* its JWT has expired.
LEMMA ToldOnArrival ==
  ASSUME BankInv, NoErrorCached, NEW g \in Requests, NEW t \in TokenIds, Arrive(g, t),
         requests'[g].reason = "invalid_token"
  PROVE  requests'[g].token = t /\ accessTokens[t] # None /\ DeadToken(t)
<1>1. requests \in [Requests -> ApiRequest \cup {None}] /\ accessTokens[t] # None
      /\ cache \in [TokenIds -> CacheEntry \cup {None}]
  BY DEF BankInv, GatewayTypeOK, Arrive
<1>2. ASSUME NEW pc, Open(g, t, pc) PROVE FALSE
  BY <1>1, <1>2 DEF Open, Opened
<1>3. requests'[g].token = t BY <1>1, <1>2 DEF Arrive, OpenRefused, Opened
<1>4. CASE Hit(t) /\ cache[t].result # "active"
  <2>1. cache[t] # None /\ cache[t].result \in {"revoked", "expired"}
    BY <1>1, <1>4 DEF Hit, NoErrorCached, CacheEntry, Results
  <2>2. QED BY <1>1, <1>3, <2>1 DEF BankInv, CacheDeserved, DeadToken
<1>5. CASE JwtExpired(accessTokens[t]) BY <1>1, <1>3, <1>5 DEF JwtExpired, DeadToken
<1>6. QED BY <1>2, <1>4, <1>5 DEF Arrive

\* What a step of the gateway tells its request
LEMMA ToldStep ==
  ASSUME BankInv, ~Faults, NoErrorCached, ToldTruly, Onward, GatewayNext,
         NEW g \in Requests, requests'[g] # None, requests'[g].reason = "invalid_token",
         accessTokens' = accessTokens, now' = now, NEW t, t = requests'[g].token
  PROVE  t \in TokenIds /\ accessTokens'[t] # None /\ DeadToken(t)'
<1>1. requests \in [Requests -> ApiRequest \cup {None}] BY DEF BankInv, GatewayTypeOK
<1>2. CASE requests'[g] = requests[g] BY <1>2, DeadForGood DEF ToldTruly, DeadToken
<1>3. ASSUME requests'[g] # requests[g]
      PROVE  (\E u \in TokenIds : Arrive(g, u)) \/ RequestStep(g)
  <2>1. ASSUME NEW h \in Requests, NEW r, Writes(h, r) PROVE h = g
    BY <1>1, <1>3, <2>1 DEF Writes
  <2>2. ~Restart BY DEF Restart
  <2>3. \A h \in Requests : ~Leave(h) BY <1>1, <1>3 DEF Leave
  <2>4. ~ArriveWithoutToken(g) BY <1>1 DEF ArriveWithoutToken, Opened
  <2>5. \A c \in ConsentIds : ~CheckConsentStatus(g, c)
    BY <1>1 DEF CheckConsentStatus, Opened
  <2>6. QED
    BY <2>1, <2>2, <2>3, <2>4, <2>5, ArriveWrites, OtherArrivalsWrite, StepWrites
    DEF GatewayNext
<1>4. ASSUME NEW u \in TokenIds, Arrive(g, u)
      PROVE  requests'[g].token = u /\ accessTokens'[u] # None /\ DeadToken(u)'
  BY <1>4, ToldOnArrival DEF DeadToken
<1>5. CASE RequestStep(g)
  BY <1>5, ToldInFlight, DeadForGood DEF ToldTruly, DeadToken
<1>6. QED BY <1>2, <1>3, <1>4, <1>5

\* docs/gateway-introspection.md:134-140: as long as no query throws, a request
\* is told that its token is invalid only if the token is revoked or expired,
\* whoever filled the cache and however long ago.
THEOREM DeadTokensRefused == ASSUME ~Faults PROVE BankSpec => []InvalidTokensDead
<1>1. BankInit => NoErrorCached /\ ToldTruly
  BY DEF BankInit, GatewayInit, NoErrorCached, ToldTruly
<1>2. BankInv /\ NoErrorCached /\ ToldTruly /\ [BankNext]_allVars
        => NoErrorCached' /\ ToldTruly'
  <2> SUFFICES ASSUME BankInv, NoErrorCached, ToldTruly, [BankNext]_allVars
               PROVE  NoErrorCached' /\ ToldTruly'
    OBVIOUS
  <2>1. CASE GatewayNext /\ UNCHANGED <<decisions, revocations, tokenVars>>
    <3>1. Onward BY <2>1, GatewayStepKinds, QuietGatewayStep, ExpireConsentKeeps
    <3>2. accessTokens' = accessTokens /\ now' = now
      BY <2>1, GatewayStepKinds DEF ExpireConsent, serverVars, flowVars, tables
    <3>3. QED BY <2>1, <3>1, <3>2, NoErrorStep, ToldStep DEF ToldTruly
  <2>2. CASE (ServerNext /\ UNCHANGED gatewayVars) \/ UNCHANGED allVars
    <3>1. cache' = cache /\ requests' = requests BY <2>2 DEF allVars, gatewayVars
    <3>2. Onward
      <4>1. CASE ServerNext
        BY <4>1, FlowStepOnward, TokenStepOnward DEF ServerNext, BankInv
      <4>2. CASE UNCHANGED allVars
        BY <4>2, SameConsentsOnward
        DEF BankInv, TokenStays, allVars, serverVars, flowVars, tables
      <4>3. QED BY <2>2, <4>1, <4>2
    <3>3. QED BY <3>1, <3>2, NoErrorStep, DeadForGood DEF ToldTruly
  <2>3. QED BY <2>1, <2>2 DEF BankNext
<1>3. ToldTruly => InvalidTokensDead BY DEF ToldTruly, DeadToken, InvalidTokensDead
<1>4. QED BY <1>1, <1>2, <1>3, BankInvariant, PTL DEF BankSpec
=============================================================================
