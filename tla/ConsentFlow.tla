----------------------------- MODULE ConsentFlow -----------------------------
(***************************************************************************)
(* The consent side of the authorization server:                           *)
(*   auth/oauth/authorization-request.js  stores an authorization request, *)
(*   auth/consent/consent-handler.js      answers the customer's decision  *)
(*                                        and the customer's revocation,   *)
(*   auth/consent/consent-manager.js      moves the rows of `consents`.    *)
(*                                                                         *)
(* A call of handleConsentDecision or handleConsentRevocation runs as a    *)
(* worker that yields at every `await query(...)`.  Its record holds the   *)
(* call's local variables, and `pc` names the statement it will run next.  *)
(* One action is one statement and the synchronous code up to the next     *)
(* one.  Reads of columns that nothing changes (the client's name, the     *)
(* owner of a consent) are joined to the neighbouring statement.  A        *)
(* statement may throw, which abandons the call and keeps what it wrote.   *)
(***************************************************************************)
EXTENDS Tables

CONSTANTS
  Deciders,     \* concurrent calls of handleConsentDecision
  Revokers      \* concurrent calls of handleConsentRevocation

VARIABLES
  decisions,    \* decider -> its call in flight, or None
  revocations   \* revoker -> its call in flight, or None

flowVars == <<now, tables, redirected, decisions, revocations>>

DecisionCall ==
  [pc      : {"find", "insert", "verify", "decide", "expire", "code", "delete"},
   action  : {"approve", "deny"},
   request : RequestIds,
   row     : AuthRequest,               \* the row read when the call began
   scopes  : ScopeStrings,              \* scopes to grant, then those granted
   consent : ConsentIds \cup {None},
   code    : CodeIds \cup {None}]

RevocationCall == [pc : {"verify", "revoke", "tokens"}, consent : ConsentIds]

ASSUME CallAssumption == None \notin DecisionCall \cup RevocationCall

FlowTypeOK ==
  /\ TablesTypeOK
  /\ decisions \in [Deciders -> DecisionCall \cup {None}]
  /\ revocations \in [Revokers -> RevocationCall \cup {None}]

FlowInit ==
  /\ TablesInit
  /\ decisions = [d \in Deciders |-> None]
  /\ revocations = [v \in Revokers |-> None]

-----------------------------------------------------------------------------
(* auth/oauth/authorization-request.js                                     *)

\* handleAuthorizationRequest for a customer with a session: the client, its
\* redirect URI and its allowed scopes are checked, then the row is stored.
Authorize(r, customer, client, uri, scope) ==
  /\ authRequests[r] = None
  /\ uri \in RedirectUris[client]
  /\ scope \subseteq AllowedScopes[client]
  /\ authRequests' = [authRequests EXCEPT ![r] =
       [customer |-> customer, client |-> client, uri |-> uri,
        scope |-> scope, expires_at |-> now + RequestTTL]]
  /\ UNCHANGED <<now, consents, authCodes, accessTokens, redirected,
                 decisions, revocations>>

-----------------------------------------------------------------------------
(* auth/consent/consent-handler.js: handleConsentDecision                  *)

InDecision(d, pc) == decisions[d] # None /\ decisions[d].pc = pc

\* The call ends: it returned an error or the redirect, or it threw.
EndDecision(d) == decisions' = [decisions EXCEPT ![d] = None]

\* An absent or empty granted_scopes means all that was requested.
ScopesToGrant(grant, requested) == IF grant = {} THEN requested ELSE grant

\* The request is looked up by id and customer, must not have expired, and a
\* partial grant must be within it.  A call that fails one of these tests
\* answers with an error and changes nothing.
BeginDecision(d, r, customer, action, grant) ==
  LET row == authRequests[r] IN
  /\ decisions[d] = None
  /\ row \notin {None, Deleted}
  /\ row.customer = customer
  /\ ~JsExpired(row)
  /\ action = "approve" => grant \subseteq row.scope
  /\ decisions' = [decisions EXCEPT ![d] =
       [pc |-> IF action = "approve" THEN "find" ELSE "insert",
        action |-> action, request |-> r, row |-> row,
        scopes |-> IF action = "approve" THEN ScopesToGrant(grant, row.scope)
                                         ELSE row.scope,
        consent |-> None, code |-> None]]
  /\ UNCHANGED <<now, tables, redirected, revocations>>

\* The rows findActiveConsent's SELECT matches.
ActiveConsents(customer, client) ==
  {c \in ConsentIds : /\ consents[c] # None
                      /\ consents[c].customer = customer
                      /\ consents[c].client = client
                      /\ consents[c].status = "approved"
                      /\ SqlLive(consents[c])}

\* ORDER BY approved_at DESC LIMIT 1: any of the newest when they tie.
Newest(S) == {c \in S : \A o \in S : consents[c].approved_at >= consents[o].approved_at}

\* A slip: the scopes this decision was about
ScopesAsked(call, c) == call.scopes

\* Past a reuse the call goes by the consent it found, which may grant more.
ScopesOf(call, c) == consents[c].granted

\* findActiveConsent returns the newest active consent when it grants enough;
\* the call then reuses it, and otherwise goes on to create one.
FindActiveConsent(d) ==
  LET call == decisions[d]
      newest == Newest(ActiveConsents(call.row.customer, call.row.client))
      enough(c) == call.scopes \subseteq consents[c].granted
  IN
  /\ InDecision(d, "find")
  /\ \/ \E c \in newest :
          /\ enough(c)
          /\ decisions' = [decisions EXCEPT ![d].pc = "code", ![d].consent = c,
                                            ![d].scopes = ScopesOf(call, c)]
     \/ /\ newest = {} \/ \E c \in newest : ~enough(c)
        /\ decisions' = [decisions EXCEPT ![d].pc = "insert"]
  /\ UNCHANGED <<now, tables, redirected, revocations>>

\* createConsent
CreateConsent(d, c) ==
  LET row == decisions[d].row IN
  /\ InDecision(d, "insert")
  /\ consents[c] = None
  /\ consents' = [consents EXCEPT ![c] =
       [customer |-> row.customer, client |-> row.client,
        requested |-> row.scope, granted |-> {}, status |-> "pending",
        expires_at |-> now + ConsentTTL, approved_at |-> 0]]
  /\ decisions' = [decisions EXCEPT ![d].pc = "verify", ![d].consent = c]
  /\ UNCHANGED <<now, authRequests, authCodes, accessTokens, redirected, revocations>>

\* The SELECT of approveConsent and denyConsent: the consent must be pending,
\* and approveConsent also looks at its expiry.
VerifyPending(d) ==
  LET call == decisions[d]
      consent == consents[call.consent]
  IN
  /\ InDecision(d, "verify")
  /\ IF consent.status # "pending" THEN EndDecision(d)
     ELSE decisions' = [decisions EXCEPT ![d].pc =
            IF call.action = "approve" /\ JsExpired(consent) THEN "expire" ELSE "decide"]
  /\ UNCHANGED <<now, tables, redirected, revocations>>

\* approveConsent finds the consent expired: UPDATE, then throw.
ExpirePending(d) ==
  /\ InDecision(d, "expire")
  /\ consents' = [consents EXCEPT ![decisions[d].consent].status = "expired"]
  /\ EndDecision(d)
  /\ UNCHANGED <<now, authRequests, authCodes, accessTokens, redirected, revocations>>

\* approveConsent's UPDATE, by consent_id alone
ApproveConsent(d) ==
  LET call == decisions[d] IN
  /\ InDecision(d, "decide") /\ call.action = "approve"
  /\ consents' = [consents EXCEPT ![call.consent].status = "approved",
                                  ![call.consent].granted = call.scopes,
                                  ![call.consent].approved_at = now]
  /\ decisions' = [decisions EXCEPT ![d].pc = "code"]
  /\ UNCHANGED <<now, authRequests, authCodes, accessTokens, redirected, revocations>>

\* denyConsent's UPDATE, by consent_id alone
DenyConsent(d) ==
  LET call == decisions[d] IN
  /\ InDecision(d, "decide") /\ call.action = "deny"
  /\ consents' = [consents EXCEPT ![call.consent].status = "denied"]
  /\ decisions' = [decisions EXCEPT ![d].pc = "delete"]
  /\ UNCHANGED <<now, authRequests, authCodes, accessTokens, redirected, revocations>>

\* INSERT INTO authorization_codes
InsertCode(d, k) ==
  LET call == decisions[d] IN
  /\ InDecision(d, "code")
  /\ authCodes[k] = None
  /\ authCodes' = [authCodes EXCEPT ![k] =
       [customer |-> call.row.customer, client |-> call.row.client,
        uri |-> call.row.uri, scope |-> call.scopes, consent |-> call.consent,
        expires_at |-> now + CodeTTL, used |-> FALSE]]
  /\ decisions' = [decisions EXCEPT ![d].pc = "delete", ![d].code = k]
  /\ UNCHANGED <<now, authRequests, consents, accessTokens, redirected, revocations>>

\* A slip: the row stays
NotRemoved(r) == authRequests

\* A row that no longer exists is deleted without complaint.
Removed(r) == [authRequests EXCEPT ![r] = Deleted]

\* DELETE FROM authorization_requests; an approval answers with the code.
DeleteRequest(d) ==
  LET call == decisions[d] IN
  /\ InDecision(d, "delete")
  /\ authRequests' = Removed(call.request)
  /\ redirected' = IF call.action = "approve"
                     THEN [redirected EXCEPT ![call.code] = call.request]
                     ELSE redirected
  /\ EndDecision(d)
  /\ UNCHANGED <<now, consents, authCodes, accessTokens, revocations>>

\* The next query throws (or the process dies): the route answers 500.
FailDecision(d) ==
  /\ Faults
  /\ decisions[d] # None
  /\ EndDecision(d)
  /\ UNCHANGED <<now, tables, redirected, revocations>>

DecisionStep(d) ==
  \/ FindActiveConsent(d)
  \/ \E c \in ConsentIds : CreateConsent(d, c)
  \/ VerifyPending(d)
  \/ ExpirePending(d)
  \/ ApproveConsent(d)
  \/ DenyConsent(d)
  \/ \E k \in CodeIds : InsertCode(d, k)
  \/ DeleteRequest(d)
  \/ FailDecision(d)

-----------------------------------------------------------------------------
(* auth/consent/consent-handler.js: handleConsentRevocation                *)

InRevocation(v, pc) == revocations[v] # None /\ revocations[v].pc = pc

EndRevocation(v) == revocations' = [revocations EXCEPT ![v] = None]

\* The caller as consent-routes.js passes it on: an invalid session leaves
\* req.customer_id undefined, and getConsent filters only by a customer that
\* is there.
Callers == Customers \cup {None}

Finds(caller, consent) == caller \in {consent.customer, None}

\* getConsent
BeginRevocation(v, caller, c) ==
  /\ revocations[v] = None
  /\ consents[c] # None
  /\ Finds(caller, consents[c])
  /\ revocations' = [revocations EXCEPT ![v] = [pc |-> "verify", consent |-> c]]
  /\ UNCHANGED <<now, tables, redirected, decisions>>

\* A slip: any consent may be revoked
AlwaysRevocable(consent) == TRUE

\* revokeConsent revokes an approved consent, whether or not its time is up.
Revocable(consent) == consent.status = "approved"

\* The SELECT of revokeConsent; on any other status it throws.
VerifyApproved(v) ==
  /\ InRevocation(v, "verify")
  /\ IF Revocable(consents[revocations[v].consent])
       THEN revocations' = [revocations EXCEPT ![v].pc = "revoke"]
       ELSE EndRevocation(v)
  /\ UNCHANGED <<now, tables, redirected, decisions>>

\* revokeConsent's UPDATE, by consent_id alone
RevokeConsent(v) ==
  /\ InRevocation(v, "revoke")
  /\ consents' = [consents EXCEPT ![revocations[v].consent].status = "revoked"]
  /\ revocations' = [revocations EXCEPT ![v].pc = "tokens"]
  /\ UNCHANGED <<now, authRequests, authCodes, accessTokens, redirected, decisions>>

\* The tokens of the consent are revoked and the call answers with success.
RevokeTokens(v) ==
  /\ InRevocation(v, "tokens")
  /\ accessTokens' = TokensRevokedFor(revocations[v].consent)
  /\ EndRevocation(v)
  /\ UNCHANGED <<now, authRequests, consents, authCodes, redirected, decisions>>

\* The next query throws: the catch block answers revocation_failed.
FailRevocation(v) ==
  /\ Faults
  /\ revocations[v] # None
  /\ EndRevocation(v)
  /\ UNCHANGED <<now, tables, redirected, decisions>>

RevocationStep(v) ==
  \/ VerifyApproved(v)
  \/ RevokeConsent(v)
  \/ RevokeTokens(v)
  \/ FailRevocation(v)

-----------------------------------------------------------------------------
(* auth/consent/consent-manager.js: the batch job, one UPDATE              *)

\* A slip: status = 'approved' left out
OverdueInAnyStatus(consent) == ~SqlLive(consent)

\* A slip: an hour's margin on the wrong side of NOW()
OverdueSoon(consent) == consent.status = "approved" /\ now + 1 >= consent.expires_at

\* The rows the UPDATE matches
Overdue(consent) == consent.status = "approved" /\ ~SqlLive(consent)

ExpireOldConsents ==
  /\ consents' = [c \in ConsentIds |->
       IF consents[c] # None /\ Overdue(consents[c])
         THEN [consents[c] EXCEPT !.status = "expired"]
         ELSE consents[c]]
  /\ UNCHANGED <<now, authRequests, authCodes, accessTokens, redirected,
                 decisions, revocations>>

-----------------------------------------------------------------------------
Tick ==
  /\ now < MaxTime
  /\ now' = now + 1
  /\ UNCHANGED <<tables, redirected, decisions, revocations>>

FlowNext ==
  \/ \E r \in RequestIds, customer \in Customers, client \in Clients,
        uri \in Uris, scope \in ScopeStrings :
        Authorize(r, customer, client, uri, scope)
  \/ \E d \in Deciders, r \in RequestIds, customer \in Customers,
        action \in {"approve", "deny"}, grant \in SUBSET Scopes :
        BeginDecision(d, r, customer, action, grant)
  \/ \E d \in Deciders : DecisionStep(d)
  \/ \E v \in Revokers, caller \in Callers, c \in ConsentIds :
        BeginRevocation(v, caller, c)
  \/ \E v \in Revokers : RevocationStep(v)
  \/ ExpireOldConsents
  \/ Tick

FlowSpec == FlowInit /\ [][FlowNext]_flowVars

\* A query that was sent is answered or throws, so a call in flight goes on.
\* Customers, the batch job and the clock owe nothing.
FlowFairness ==
  /\ \A d \in Deciders : WF_flowVars(DecisionStep(d))
  /\ \A v \in Revokers : WF_flowVars(RevocationStep(v))

FairFlowSpec == FlowSpec /\ FlowFairness

-----------------------------------------------------------------------------
(* Correctness                                                             *)

\* A consent whose approval took place; it may have been revoked or have
\* expired since.  One that expired while pending has nothing granted.
WasApproved(c) == /\ consents[c] # None
                  /\ consents[c].status \in {"approved", "revoked", "expired"}
                  /\ consents[c].granted # {}

\* `scope` is what the consent c grants to `client` for `customer`.
Grants(c, customer, client, scope) ==
  /\ WasApproved(c)
  /\ consents[c].customer = customer
  /\ consents[c].client = client
  /\ consents[c].granted = scope

\* Every authorization code rests on a consent that its customer approved for
\* its client and carries exactly the scopes granted there, whether the
\* decision created the consent or reused one (consent-handler.js:300-345),
\* and whatever calls failed half-way.
CodeBacked ==
  \A k \in CodeIds : authCodes[k] # None =>
    Grants(authCodes[k].consent, authCodes[k].customer, authCodes[k].client,
           authCodes[k].scope)

\* A step that settles nothing anew
StaysSettled(c) ==
  LET before == consents[c].status
      after == consents'[c].status
  IN /\ before = "denied" => after = "denied"
     /\ before \in {"revoked", "expired"} => after \in {"revoked", "expired"}

\* A denied consent stays denied, and a revoked or expired one never becomes
\* pending or approved again, although every UPDATE of consent-manager.js
\* names the row by consent_id alone and relies on a status read earlier.
NeverResurrected ==
  [][\A c \in ConsentIds : consents[c] # None => StaysSettled(c)]_flowVars

\* consent-handler.js:347, "single use": an authorization request is answered
\* with at most one authorization code.  True while decisions on one request
\* do not overlap, whatever fails half-way and is tried again; violated as soon
\* as two do, for both find the request before either deletes it (run
\* DoubleDecision).
OneCodePerRequest ==
  \A k, l \in CodeIds :
    redirected[k] # None /\ redirected[k] = redirected[l] => k = l

\* As long as no query throws and a consent outlives the call that creates it,
\* a decision that got past its checks is carried out: the request is used up
\* (consent-handler.js:266, 348), whatever revocations run beside it.
DecisionUsesRequest ==
  \A r \in RequestIds :
    (\E d \in Deciders : decisions[d] # None /\ decisions[d].request = r)
      ~> authRequests[r] = Deleted

\* As long as no query throws, a revocation that found its consent approved
\* ends its approval for good (consent-manager.js:205-216).
RevocationSticks ==
  \A c \in ConsentIds :
    (\E v \in Revokers : InRevocation(v, "revoke") /\ revocations[v].consent = c)
      ~> []~(consents[c] # None /\ consents[c].status = "approved")

-----------------------------------------------------------------------------
(* What the flow implements: the life of each consent                      *)

StatusOf == [c \in ConsentIds |->
               IF consents[c] = None THEN "absent" ELSE consents[c].status]

Lifecycle == INSTANCE ConsentLifecycle WITH status <- StatusOf

\* The statements of consent-manager.js, however calls interleave and fail,
\* move every consent along the diagram of ConsentLifecycle.
LifecycleSpec == Lifecycle!Spec

-----------------------------------------------------------------------------
(* The inductive invariant behind CodeBacked and NeverResurrected          *)

Pending(c) == consents[c] # None /\ consents[c].status = "pending"

PendingFor(c, row) == /\ Pending(c)
                      /\ consents[c].customer = row.customer
                      /\ consents[c].client = row.client

\* Between createConsent and the UPDATE that settles it, a consent is pending,
\* is for the customer and client of the request, and belongs to one call.
Deciding(d) == decisions[d] # None /\ decisions[d].pc \in {"verify", "decide", "expire"}

PendingOwned ==
  \A d \in Deciders : Deciding(d) =>
    /\ decisions[d].consent # None
    /\ PendingFor(decisions[d].consent, decisions[d].row)
    /\ \A e \in Deciders : Deciding(e) /\ decisions[e].consent = decisions[d].consent => e = d

\* A call about to store or deliver a code holds a consent that grants it.
CodeCallBacked ==
  \A d \in Deciders : InDecision(d, "code") =>
    /\ decisions[d].consent # None
    /\ Grants(decisions[d].consent, decisions[d].row.customer, decisions[d].row.client,
              decisions[d].scopes)

\* A call about to answer an approval holds a code.
AnswerHasCode ==
  \A d \in Deciders :
    InDecision(d, "delete") /\ decisions[d].action = "approve" => decisions[d].code # None

\* No approval is empty, so an approved consent backs what it granted.
ApprovalGrants ==
  \A c \in ConsentIds :
    consents[c] # None /\ consents[c].status = "approved" => consents[c].granted # {}

\* A revocation past its status check is of a consent that was approved.
RevocationOfApproved ==
  \A v \in Revokers : revocations[v] # None =>
    /\ consents[revocations[v].consent] # None
    /\ revocations[v].pc # "verify" => WasApproved(revocations[v].consent)

FlowInv ==
  /\ FlowTypeOK
  /\ PendingOwned
  /\ CodeCallBacked
  /\ AnswerHasCode
  /\ ApprovalGrants
  /\ RevocationOfApproved
  /\ CodeBacked
=============================================================================
