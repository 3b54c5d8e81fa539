----------------------- MODULE CustomerSession_proofs -----------------------
(***************************************************************************)
(* Proofs about CustomerSession: for any customers, sessions and number of *)
(* overlapping log-ins and requests, with or without failing queries, a    *)
(* request that comes after its session ended is never taken for the       *)
(* customer, and a session ends only by its log-out, by time or by the     *)
(* bank.                                                                   *)
(***************************************************************************)
EXTENDS CustomerSession, TLAPS

-----------------------------------------------------------------------------
(* Lemmas                                                                  *)

\* A session that is over fails the check of verifyCustomerSession.
LEMMA OverIsInvalid ==
  ASSUME SessionInv, NEW s \in SessionIds, sessions[s] # None, Over(s)
  PROVE  ~Valid(s)
<1>1. CASE s \in loggedOut BY <1>1 DEF SessionInv, LogoutHolds, Valid
<1>2. CASE now >= sessions[s].created_at + SessionTTL
  <2>1. sessions[s].expires_at = sessions[s].created_at + SessionTTL
    BY DEF SessionInv, FixedLifetime
  <2>2. sessions[s].created_at \in Nat /\ now \in Nat
    BY DEF SessionInv, SessionTypeOK, Session
  <2>3. QED BY <1>2, <2>1, <2>2, SessionAssumption DEF Valid
<1>3. QED BY <1>1, <1>2 DEF Over

\* A request that came late fails the check.
LEMMA LateIsInvalid ==
  ASSUME SessionInv, NEW q \in Requests, requests[q] # None,
         requests[q].session # None, requests[q].late
  PROVE  ~Valid(requests[q].session)
<1>1. requests[q].session \in SessionIds
  BY DEF SessionInv, SessionTypeOK, Request
<1>2. sessions[requests[q].session] # None
  BY DEF SessionInv, RequestsOfSessions
<1>3. CASE Over(requests[q].session) BY <1>1, <1>2, <1>3, OverIsInvalid
<1>4. CASE sessions[requests[q].session].customer \notin active BY <1>4 DEF Valid
<1>5. QED BY <1>3, <1>4 DEF SessionInv, LateForGood

\* No session, no call and no request at the start.
LEMMA InitHolds == SessionInit => SessionInv
<1> SUFFICES ASSUME SessionInit PROVE SessionInv
  OBVIOUS
<1>1. SessionTypeOK BY DEF SessionInit, SessionTypeOK
<1>2. LogoutHolds /\ FixedLifetime BY DEF SessionInit, LogoutHolds, FixedLifetime
<1>3. RequestsOfSessions /\ LateForGood /\ RequiredMeansKnown /\ NoLateAuthentication
  BY DEF SessionInit, RequestsOfSessions, LateForGood, RequiredMeansKnown, InRequest,
         NoLateAuthentication
<1>4. QED BY <1>1, <1>2, <1>3 DEF SessionInv

-----------------------------------------------------------------------------
(* Steps that leave the requests alone                                     *)

\* Sessions may end or begin and time may pass: as long as no row is lost,
\* none is given to another customer and no log-out is forgotten, what the
\* invariant says of the requests goes on to hold.
LEMMA RequestsUntouched ==
  ASSUME SessionInv, SessionTypeOK', UNCHANGED requests,
         now' >= now, loggedOut \subseteq loggedOut', active' \subseteq active,
         \A s \in SessionIds : sessions[s] # None =>
           /\ sessions'[s] # None
           /\ sessions'[s].customer = sessions[s].customer
           /\ sessions'[s].created_at = sessions[s].created_at
  PROVE  RequestsOfSessions' /\ LateForGood' /\ RequiredMeansKnown' /\ NoLateAuthentication'
<1>1. \A q \in Requests : requests[q] # None =>
        requests[q].session \in SessionIds \cup {None}
  BY DEF SessionInv, SessionTypeOK, Request
<1>2. RequestsOfSessions'
  BY <1>1, SessionAssumption DEF SessionInv, RequestsOfSessions
<1>3. LateForGood'
  <2> SUFFICES ASSUME NEW q \in Requests, requests[q] # None, requests[q].late,
                      requests[q].session # None
               PROVE  \/ Over(requests[q].session)'
                      \/ sessions'[requests[q].session].customer \notin active'
    BY DEF LateForGood
  <2> DEFINE s == requests[q].session
  <2>1. s \in SessionIds /\ sessions[s] # None
    BY <1>1 DEF SessionInv, RequestsOfSessions
  <2>2. CASE sessions[s].customer \notin active BY <2>1, <2>2
  <2>3. CASE s \in loggedOut BY <2>3 DEF Over
  <2>4. CASE now >= sessions[s].created_at + SessionTTL
    <3>1. sessions[s].created_at \in Nat /\ now \in Nat /\ now' \in Nat
      BY <2>1 DEF SessionInv, SessionTypeOK, Session
    <3>2. now' >= sessions'[s].created_at + SessionTTL
      BY <2>1, <2>4, <3>1, SessionAssumption
    <3>3. QED BY <3>2 DEF Over
  <2>5. QED BY <2>2, <2>3, <2>4 DEF SessionInv, LateForGood, Over
<1>4. RequiredMeansKnown' /\ NoLateAuthentication'
  BY DEF SessionInv, RequiredMeansKnown, InRequest, NoLateAuthentication
<1>5. QED BY <1>2, <1>3, <1>4

\* The first query of a login, found or not, touches no session.
LEMMA LoginKeeps ==
  ASSUME SessionInv, NEW l \in Logins,
         (\E c \in Customers : FindCustomer(l, c)) \/ FailLogin(l)
  PROVE  SessionInv'
<1>1. UNCHANGED <<now, active, sessions, requests, loggedOut>>
  BY DEF FindCustomer, FailLogin
<1>2. SessionTypeOK'
  BY <1>1 DEF SessionInv, SessionTypeOK, FindCustomer, FailLogin
<1>3. LogoutHolds' /\ FixedLifetime'
  BY <1>1 DEF SessionInv, LogoutHolds, FixedLifetime
<1>4. RequestsOfSessions' /\ LateForGood' /\ RequiredMeansKnown' /\ NoLateAuthentication'
  <2>1. now' >= now BY <1>1 DEF SessionInv, SessionTypeOK
  <2>2. QED BY <1>1, <1>2, <2>1, RequestsUntouched
<1>5. QED BY <1>2, <1>3, <1>4 DEF SessionInv

\* The INSERT of a login adds a row nobody presents yet.
LEMMA CreateSessionKeeps ==
  ASSUME SessionInv, NEW l \in Logins, NEW s \in SessionIds, CreateSession(l, s)
  PROVE  SessionInv'
<1> DEFINE new == [customer |-> logins[l], created_at |-> now,
                   expires_at |-> now + SessionTTL, is_active |-> TRUE]
<1>1. /\ sessions' = [sessions EXCEPT ![s] = new]
      /\ sessions[s] = None
      /\ UNCHANGED <<now, active, requests, loggedOut>>
  BY DEF CreateSession
<1>2. new \in Session /\ new # None
  <2>1. logins[l] \in Customers BY DEF CreateSession, SessionInv, SessionTypeOK
  <2>2. now \in Nat /\ now + SessionTTL \in Nat
    BY SessionAssumption DEF SessionInv, SessionTypeOK
  <2>3. new \in Session BY <2>1, <2>2 DEF Session
  <2>4. QED BY <2>3, SessionAssumption
<1>3. SessionTypeOK'
  <2>1. logins' \in [Logins -> Customers \cup {None}]
    BY DEF CreateSession, SessionInv, SessionTypeOK
  <2>2. sessions' \in [SessionIds -> Session \cup {None}]
    BY <1>1, <1>2 DEF SessionInv, SessionTypeOK
  <2>3. QED BY <1>1, <2>1, <2>2 DEF SessionInv, SessionTypeOK
<1>4. LogoutHolds'
  BY <1>1 DEF SessionInv, SessionTypeOK, LogoutHolds
<1>5. FixedLifetime'
  BY <1>1, <1>2 DEF SessionInv, SessionTypeOK, FixedLifetime
<1>6. RequestsOfSessions' /\ LateForGood' /\ RequiredMeansKnown' /\ NoLateAuthentication'
  <2>1. now' >= now BY <1>1 DEF SessionInv, SessionTypeOK
  <2>2. \A r \in SessionIds : sessions[r] # None => sessions'[r] = sessions[r]
    BY <1>1 DEF SessionInv, SessionTypeOK
  <2>3. QED BY <1>1, <1>3, <2>1, <2>2, RequestsUntouched
<1>7. QED BY <1>3, <1>4, <1>5, <1>6 DEF SessionInv

\* A log-out ends its session for good.
LEMMA LogoutKeeps ==
  ASSUME SessionInv, NEW s \in SessionIds, Logout(s)
  PROVE  SessionInv'
<1>1. /\ sessions' = [sessions EXCEPT ![s].is_active = FALSE]
      /\ sessions[s] \in Session
      /\ loggedOut' = loggedOut \cup {s}
      /\ UNCHANGED <<now, active, logins, requests>>
  BY DEF Logout, SessionInv, SessionTypeOK
<1>2. sessions'[s] \in Session /\ sessions'[s] # None
  BY <1>1, SessionAssumption DEF Session, SessionInv, SessionTypeOK
<1>3. SessionTypeOK'
  BY <1>1, <1>2 DEF SessionInv, SessionTypeOK
<1>4. \A r \in SessionIds : sessions[r] # None =>
        /\ sessions'[r] # None
        /\ sessions'[r].customer = sessions[r].customer
        /\ sessions'[r].created_at = sessions[r].created_at
        /\ sessions'[r].expires_at = sessions[r].expires_at
        /\ sessions'[r].is_active => sessions[r].is_active
  BY <1>1, <1>2 DEF SessionInv, SessionTypeOK, Session
<1>5. ~sessions'[s].is_active
  BY <1>1 DEF SessionInv, SessionTypeOK, Session
<1>6. LogoutHolds'
  BY <1>1, <1>2, <1>4, <1>5 DEF SessionInv, SessionTypeOK, LogoutHolds
<1>7. FixedLifetime'
  <2>1. \A r \in SessionIds : sessions'[r] # None => sessions[r] # None
    BY <1>1, SessionAssumption DEF SessionInv, SessionTypeOK
  <2>2. QED BY <1>4, <2>1 DEF SessionInv, FixedLifetime
<1>8. RequestsOfSessions' /\ LateForGood' /\ RequiredMeansKnown' /\ NoLateAuthentication'
  <2>1. now' >= now BY <1>1 DEF SessionInv, SessionTypeOK
  <2>2. QED BY <1>1, <1>3, <1>4, <2>1, RequestsUntouched
<1>9. QED BY <1>3, <1>6, <1>7, <1>8 DEF SessionInv

\* cleanup_expired_sessions ends only what is expired already.
LEMMA CleanupKeeps ==
  ASSUME SessionInv, Cleanup
  PROVE  SessionInv'
<1>1. UNCHANGED <<now, active, logins, requests, loggedOut>> BY DEF Cleanup
<1>2. \A r \in SessionIds :
        sessions'[r] = IF sessions[r] # None /\ Expired(sessions[r])
                         THEN [sessions[r] EXCEPT !.is_active = FALSE]
                         ELSE sessions[r]
  BY DEF Cleanup
<1>3. \A r \in SessionIds : sessions[r] # None =>
        /\ sessions'[r] \in Session
        /\ sessions'[r].customer = sessions[r].customer
        /\ sessions'[r].created_at = sessions[r].created_at
        /\ sessions'[r].expires_at = sessions[r].expires_at
        /\ sessions'[r].is_active => sessions[r].is_active
  BY <1>2 DEF SessionInv, SessionTypeOK, Session
<1>4. \A r \in SessionIds : sessions[r] = None => sessions'[r] = None BY <1>2
<1>5. SessionTypeOK'
  BY <1>1, <1>3, <1>4 DEF Cleanup, SessionInv, SessionTypeOK
<1>6. LogoutHolds' /\ FixedLifetime'
  BY <1>1, <1>3, <1>4, SessionAssumption
  DEF SessionInv, SessionTypeOK, LogoutHolds, FixedLifetime
<1>7. RequestsOfSessions' /\ LateForGood' /\ RequiredMeansKnown' /\ NoLateAuthentication'
  <2>1. now' >= now BY <1>1 DEF SessionInv, SessionTypeOK
  <2>2. QED BY <1>1, <1>3, <1>5, <2>1, SessionAssumption, RequestsUntouched
<1>8. QED BY <1>5, <1>6, <1>7 DEF SessionInv

\* A suspension writes no session and no request.
LEMMA SuspendKeeps ==
  ASSUME SessionInv, NEW c \in Customers, Suspend(c)
  PROVE  SessionInv'
<1>1. active' = active \ {c} /\ UNCHANGED <<now, sessions, logins, requests, loggedOut>>
  BY DEF Suspend
<1>2. SessionTypeOK' BY <1>1 DEF SessionInv, SessionTypeOK
<1>3. LogoutHolds' /\ FixedLifetime'
  BY <1>1 DEF SessionInv, LogoutHolds, FixedLifetime
<1>4. RequestsOfSessions' /\ LateForGood' /\ RequiredMeansKnown' /\ NoLateAuthentication'
  <2>1. now' >= now BY <1>1 DEF SessionInv, SessionTypeOK
  <2>2. active' \subseteq active BY <1>1
  <2>3. QED BY <1>1, <1>2, <2>1, <2>2, RequestsUntouched
<1>5. QED BY <1>2, <1>3, <1>4 DEF SessionInv

\* The clock only moves on, so an expired session stays expired.
LEMMA TickKeeps ==
  ASSUME SessionInv, Tick
  PROVE  SessionInv'
<1>1. now' = now + 1 /\ now \in Nat
      /\ UNCHANGED <<active, sessions, logins, requests, loggedOut>>
  BY DEF Tick, SessionInv, SessionTypeOK
<1>2. SessionTypeOK' BY <1>1 DEF SessionInv, SessionTypeOK
<1>3. LogoutHolds' /\ FixedLifetime'
  BY <1>1 DEF SessionInv, LogoutHolds, FixedLifetime
<1>4. RequestsOfSessions' /\ LateForGood' /\ RequiredMeansKnown' /\ NoLateAuthentication'
  BY <1>1, <1>2, RequestsUntouched
<1>5. QED BY <1>2, <1>3, <1>4 DEF SessionInv

-----------------------------------------------------------------------------
(* Steps of one request                                                    *)

\* What the invariant asks of the state r of a request.
Sound(r) ==
  r # None =>
    /\ r.session # None => sessions[r.session] # None
    /\ r.pc \in {"select", "touch"} => r.session # None
    /\ r.pc = "touch" => ~r.late
    /\ r.customer # None =>
         r.session # None /\ r.customer = sessions[r.session].customer
    /\ r.late /\ r.session # None =>
         Over(r.session) \/ sessions[r.session].customer \notin active
    /\ r.pc = "handed" /\ r.guard = "required" => r.customer # None
    /\ r.late => r.customer = None

\* The invariant is about each request by itself.
LEMMA RequestByRequest ==
  (\A q \in Requests : Sound(requests[q])) <=>
    RequestsOfSessions /\ LateForGood /\ RequiredMeansKnown /\ NoLateAuthentication
BY DEF Sound, RequestsOfSessions, LateForGood, RequiredMeansKnown, InRequest,
       NoLateAuthentication

\* A step that puts one request into a sound state keeps the invariant.
LEMMA OneRequestKeeps ==
  ASSUME SessionInv, NEW q \in Requests, NEW r \in Request \cup {None},
         requests' = [requests EXCEPT ![q] = r], Sound(r),
         UNCHANGED <<now, active, sessions, logins, loggedOut>>
  PROVE  SessionInv'
<1>1. SessionTypeOK' BY DEF SessionInv, SessionTypeOK
<1>2. LogoutHolds' /\ FixedLifetime' BY DEF SessionInv, LogoutHolds, FixedLifetime
<1>3. \A p \in Requests : Sound(requests[p])
  BY RequestByRequest DEF SessionInv
<1>4. (\A p \in Requests : Sound(requests[p]))'
  <2> SUFFICES ASSUME NEW p \in Requests PROVE Sound(requests[p])'
    OBVIOUS
  <2>1. requests'[p] = IF p = q THEN r ELSE requests[p]
    BY DEF SessionInv, SessionTypeOK
  <2>2. CASE p = q BY <2>1, <2>2 DEF Sound, Over
  <2>3. CASE p # q BY <1>3, <2>1, <2>3 DEF Sound, Over
  <2>4. QED BY <2>2, <2>3
<1>5. (RequestsOfSessions /\ LateForGood /\ RequiredMeansKnown /\ NoLateAuthentication)'
  BY <1>4 DEF Sound, RequestsOfSessions, LateForGood, RequiredMeansKnown, InRequest,
              NoLateAuthentication
<1>6. QED BY <1>1, <1>2, <1>5 DEF SessionInv

\* A request starts unauthenticated, late when its session is over.
LEMMA ArriveKeeps ==
  ASSUME SessionInv, NEW q \in Requests, NEW s \in SessionIds \cup {None},
         NEW guard \in Guards, Arrive(q, s, guard)
  PROVE  SessionInv'
<1> DEFINE fresh(pc, late) ==
      [pc |-> pc, session |-> s, guard |-> guard, customer |-> None, late |-> late]
<1>1. \A pc \in {"select", "handed", "refused"}, late \in BOOLEAN :
        fresh(pc, late) \in Request
  BY DEF Request
<1>2. CASE /\ s = None
           /\ requests' = [requests EXCEPT ![q] =
                fresh(IF guard = "optional" THEN "handed" ELSE "refused", TRUE)]
  <2> DEFINE r == fresh(IF guard = "optional" THEN "handed" ELSE "refused", TRUE)
  <2>1. r \in Request BY <1>1
  <2>2. Sound(r) BY <1>2 DEF Sound
  <2>3. QED BY <1>2, <2>1, <2>2, OneRequestKeeps DEF Arrive
<1>3. CASE /\ s \in SessionIds /\ sessions[s] # None
           /\ requests' = [requests EXCEPT ![q] =
                fresh("select", Over(s) \/ sessions[s].customer \notin active)]
  <2> DEFINE late == Over(s) \/ sessions[s].customer \notin active
             r == fresh("select", late)
  <2>1. late \in BOOLEAN OBVIOUS
  <2>2. r \in Request BY <1>1, <2>1
  <2>3. Sound(r) BY <1>3, SessionAssumption DEF Sound
  <2>4. QED BY <1>3, <2>2, <2>3, OneRequestKeeps DEF Arrive
<1>4. QED BY <1>2, <1>3 DEF Arrive

\* The middleware turns the request away, or lets it through without a customer.
LEMMA RejectedKeeps ==
  ASSUME SessionInv, NEW q \in Requests, Rejected(q),
         InRequest(q, "select") \/ InRequest(q, "touch"),
         UNCHANGED <<now, active, sessions, logins, loggedOut>>
  PROVE  SessionInv'
<1> DEFINE pc == IF requests[q].guard = "required" THEN "refused" ELSE "handed"
           r == [requests[q] EXCEPT !.pc = pc]
<1>1. requests[q] \in Request /\ requests[q] # None
  BY DEF InRequest, SessionInv, SessionTypeOK
<1>2. r \in Request /\ requests' = [requests EXCEPT ![q] = r]
  BY <1>1 DEF Rejected, Request
<1>3. Sound(requests[q]) BY RequestByRequest DEF SessionInv
<1>4. Sound(r)
  <2>1. /\ r.pc = pc /\ r.session = requests[q].session /\ r.guard = requests[q].guard
        /\ r.customer = requests[q].customer /\ r.late = requests[q].late
    BY <1>1 DEF Request
  <2>2. ~(pc = "handed" /\ r.guard = "required") /\ pc \notin {"select", "touch"}
    BY <2>1
  <2>3. QED BY <1>1, <1>3, <2>1, <2>2 DEF Sound
<1>5. QED BY <1>2, <1>4, OneRequestKeeps

\* The SELECT lets only a valid session through to the UPDATE.
LEMMA SelectSessionKeeps ==
  ASSUME SessionInv, NEW q \in Requests, SelectSession(q)
  PROVE  SessionInv'
<1>1. /\ requests[q] \in Request /\ requests[q] # None /\ requests[q].pc = "select"
      /\ UNCHANGED <<now, active, sessions, logins, loggedOut>>
  BY DEF SelectSession, InRequest, SessionInv, SessionTypeOK
<1>2. CASE Valid(requests[q].session)
  <2> DEFINE r == [requests[q] EXCEPT !.pc = "touch"]
  <2>1. r \in Request /\ requests' = [requests EXCEPT ![q] = r]
    BY <1>1, <1>2 DEF SelectSession, Request
  <2>2. Sound(requests[q]) BY RequestByRequest DEF SessionInv
  <2>3. requests[q].session # None BY <1>1, <2>2 DEF Sound
  <2>4. ~requests[q].late BY <1>1, <1>2, <2>3, LateIsInvalid
  <2>5. /\ r.pc = "touch" /\ r.session = requests[q].session
        /\ r.customer = requests[q].customer /\ r.late = requests[q].late
    BY <1>1 DEF Request
  <2>6. Sound(r) BY <1>1, <2>2, <2>3, <2>4, <2>5 DEF Sound
  <2>7. QED BY <1>1, <2>1, <2>6, OneRequestKeeps
<1>3. CASE ~Valid(requests[q].session)
  BY <1>1, <1>3, RejectedKeeps DEF SelectSession
<1>4. QED BY <1>2, <1>3

\* The UPDATE gives the request the customer of its session.
LEMMA TouchSessionKeeps ==
  ASSUME SessionInv, NEW q \in Requests, TouchSession(q)
  PROVE  SessionInv'
<1> DEFINE s == requests[q].session
           r == [requests[q] EXCEPT !.pc = "handed", !.customer = sessions[s].customer]
<1>1. /\ requests[q] \in Request /\ requests[q] # None /\ requests[q].pc = "touch"
      /\ UNCHANGED <<now, active, sessions, logins, loggedOut>>
  BY DEF TouchSession, Touched, InRequest, SessionInv, SessionTypeOK
<1>2. Sound(requests[q]) BY RequestByRequest DEF SessionInv
<1>3. s # None /\ s \in SessionIds /\ sessions[s] # None /\ ~requests[q].late
  BY <1>1, <1>2 DEF Sound, Request
<1>4. sessions[s].customer \in Customers
  BY <1>3 DEF SessionInv, SessionTypeOK, Session
<1>5. r \in Request /\ requests' = [requests EXCEPT ![q] = r]
  BY <1>1, <1>4 DEF TouchSession, Request, SessionInv, SessionTypeOK
<1>6. /\ r.pc = "handed" /\ r.session = s /\ r.late = requests[q].late
      /\ r.customer = sessions[s].customer
  BY <1>1 DEF Request
<1>7. sessions[s].customer # None BY <1>4, SessionAssumption
<1>8. Sound(r) BY <1>3, <1>6, <1>7 DEF Sound
<1>9. QED BY <1>1, <1>5, <1>8, OneRequestKeeps

\* A query that throws counts as no session.
LEMMA FailVerifyKeeps ==
  ASSUME SessionInv, NEW q \in Requests, FailVerify(q)
  PROVE  SessionInv'
BY RejectedKeeps DEF FailVerify

\* A request that is answered is gone.
LEMMA LeaveKeeps ==
  ASSUME SessionInv, NEW q \in Requests, Leave(q)
  PROVE  SessionInv'
<1>1. Sound(None) BY DEF Sound
<1>2. QED BY <1>1, OneRequestKeeps DEF Leave

\* A request that waited for its customer's reactivation is no longer late,
\* unless its session is over.
LEMMA ReactivateKeeps ==
  ASSUME SessionInv, NEW c \in Customers, Reactivate(c)
  PROVE  SessionInv'
<1> DEFINE back(q) == /\ requests[q] # None /\ requests[q].session # None
                      /\ sessions[requests[q].session].customer = c
           after(q) == [requests[q] EXCEPT !.late = @ /\ Over(requests[q].session)]
<1>1. /\ active' = active \cup {c}
      /\ UNCHANGED <<now, sessions, logins, loggedOut>>
      /\ requests' = [q \in Requests |-> IF back(q) THEN after(q) ELSE requests[q]]
  BY DEF Reactivate
<1>2. \A q \in Requests : Sound(requests[q]) BY RequestByRequest DEF SessionInv
<1>3. \A q \in Requests : back(q) =>
        /\ after(q) \in Request
        /\ after(q).pc = requests[q].pc
        /\ after(q).session = requests[q].session
        /\ after(q).guard = requests[q].guard
        /\ after(q).customer = requests[q].customer
        /\ after(q).late = (requests[q].late /\ Over(requests[q].session))
  <2> SUFFICES ASSUME NEW q \in Requests, back(q)
               PROVE  /\ after(q) \in Request
                      /\ after(q).pc = requests[q].pc
                      /\ after(q).session = requests[q].session
                      /\ after(q).guard = requests[q].guard
                      /\ after(q).customer = requests[q].customer
                      /\ after(q).late = (requests[q].late /\ Over(requests[q].session))
    OBVIOUS
  <2>1. requests[q] \in Request BY DEF SessionInv, SessionTypeOK
  <2>2. (requests[q].late /\ Over(requests[q].session)) \in BOOLEAN OBVIOUS
  <2>3. QED BY <2>1, <2>2 DEF Request
<1>4. SessionTypeOK'
  BY <1>1, <1>3 DEF SessionInv, SessionTypeOK
<1>5. LogoutHolds' /\ FixedLifetime'
  BY <1>1 DEF SessionInv, LogoutHolds, FixedLifetime
<1>6. (\A q \in Requests : Sound(requests[q]))'
  <2> SUFFICES ASSUME NEW q \in Requests PROVE Sound(requests[q])'
    OBVIOUS
  <2>1. Sound(requests[q]) BY <1>2
  <2>2. CASE back(q)
    <3>1. requests'[q] = after(q) BY <1>1, <2>2
    <3>2. /\ requests'[q].pc = requests[q].pc
          /\ requests'[q].session = requests[q].session
          /\ requests'[q].guard = requests[q].guard
          /\ requests'[q].customer = requests[q].customer
          /\ requests'[q].late => requests[q].late /\ Over(requests[q].session)
      BY <1>3, <2>2, <3>1
    <3>3. Over(requests[q].session)' <=> Over(requests[q].session) BY <1>1 DEF Over
    <3>4. requests[q] # None BY <2>2
    <3>5. QED BY <1>1, <2>1, <3>2, <3>3, <3>4 DEF Sound
  <2>3. CASE ~back(q)
    <3>1. requests'[q] = requests[q] BY <1>1, <2>3
    <3>2. QED BY <1>1, <2>1, <2>3, <3>1 DEF Sound, Over
  <2>4. QED BY <2>2, <2>3
<1>7. (RequestsOfSessions /\ LateForGood /\ RequiredMeansKnown /\ NoLateAuthentication)'
  BY <1>6, RequestByRequest, PTL
<1>8. QED BY <1>4, <1>5, <1>7 DEF SessionInv

-----------------------------------------------------------------------------
(* The theorems                                                            *)

\* Every step of the specification keeps the invariant.
LEMMA NextKeeps == SessionInv /\ [SessionNext]_sessionVars => SessionInv'
<1> SUFFICES ASSUME SessionInv, [SessionNext]_sessionVars PROVE SessionInv'
  OBVIOUS
<1>1. ASSUME NEW l \in Logins, NEW c \in Customers, FindCustomer(l, c) PROVE SessionInv'
  BY <1>1, LoginKeeps
<1>2. ASSUME NEW l \in Logins, NEW s \in SessionIds, CreateSession(l, s) PROVE SessionInv'
  BY <1>2, CreateSessionKeeps
<1>3. ASSUME NEW l \in Logins, FailLogin(l) PROVE SessionInv'
  BY <1>3, LoginKeeps
<1>4. ASSUME NEW q \in Requests, NEW s \in SessionIds \cup {None}, NEW guard \in Guards,
             Arrive(q, s, guard)
      PROVE SessionInv'
  BY <1>4, ArriveKeeps
<1>5. ASSUME NEW q \in Requests, RequestStep(q) \/ Leave(q) PROVE SessionInv'
  BY <1>5, SelectSessionKeeps, TouchSessionKeeps, FailVerifyKeeps, LeaveKeeps
  DEF RequestStep
<1>6. ASSUME NEW s \in SessionIds, Logout(s) PROVE SessionInv'
  BY <1>6, LogoutKeeps
<1>7. CASE Cleanup BY <1>7, CleanupKeeps
<1>8. ASSUME NEW c \in Customers, Suspend(c) \/ Reactivate(c) PROVE SessionInv'
  BY <1>8, SuspendKeeps, ReactivateKeeps
<1>9. CASE Tick BY <1>9, TickKeeps
<1>10. CASE UNCHANGED sessionVars
  <2>1. UNCHANGED <<now, active, sessions, logins, requests, loggedOut>>
    BY <1>10 DEF sessionVars
  <2>2. SessionTypeOK' BY <2>1 DEF SessionInv, SessionTypeOK
  <2>3. LogoutHolds' /\ FixedLifetime'
    BY <2>1 DEF SessionInv, LogoutHolds, FixedLifetime
  <2>4. now' >= now BY <2>1 DEF SessionInv, SessionTypeOK
  <2>5. RequestsOfSessions' /\ LateForGood' /\ RequiredMeansKnown' /\ NoLateAuthentication'
    BY <2>1, <2>2, <2>4, RequestsUntouched
  <2>6. QED BY <2>2, <2>3, <2>5 DEF SessionInv
<1>11. QED
  BY <1>1, <1>2, <1>3, <1>4, <1>5, <1>6, <1>7, <1>8, <1>9, <1>10 DEF SessionNext

\* The invariant holds of every reachable state: sessions are typed, a
\* log-out is never undone, a session keeps its half hour, and a request is
\* at most taken for the customer of the session it presents.
THEOREM SessionInvariant == SessionSpec => []SessionInv
BY InitHolds, NextKeeps, PTL DEF SessionSpec

\* A request that arrives after its session ended, or while its customer is
\* suspended, is never taken for that customer, however its two statements
\* and those of other calls are ordered (verifyCustomerSession).
THEOREM NoLateAuthenticationHolds == SessionSpec => []NoLateAuthentication
<1>1. SessionInv => NoLateAuthentication BY DEF SessionInv
<1>2. QED BY <1>1, SessionInvariant, PTL

\* A session that is good is ended by no step but its own log-out, the clock
\* or the bank's change of a customer's status (logoutCustomer,
\* cleanup_expired_sessions).
LEMMA StepKeepsSessions ==
  ASSUME SessionInv, [SessionNext]_sessionVars, NEW s \in SessionIds, Valid(s), ~Valid(s)'
  PROVE  s \in loggedOut' \/ now' # now \/ active' # active
<1> SUFFICES ASSUME UNCHANGED <<now, active>>, s \notin loggedOut' PROVE FALSE
  OBVIOUS
<1>1. sessions[s] \in Session /\ now \in Nat
  BY DEF Valid, SessionInv, SessionTypeOK
<1>2. sessions'[s] = sessions[s]
  <2>1. CASE UNCHANGED sessions BY <2>1
  <2>2. ASSUME NEW l \in Logins, NEW r \in SessionIds, CreateSession(l, r)
        PROVE  sessions'[s] = sessions[s]
    BY <2>2 DEF CreateSession, Valid, SessionInv, SessionTypeOK
  <2>3. ASSUME NEW r \in SessionIds, Logout(r) PROVE sessions'[s] = sessions[s]
    BY <2>3 DEF Logout, SessionInv, SessionTypeOK
  <2>4. CASE Cleanup
    <3>1. ~Expired(sessions[s]) BY <1>1 DEF Expired, Valid, Session
    <3>2. QED BY <2>4, <3>1 DEF Cleanup
  <2>5. QED
    BY <2>1, <2>2, <2>3, <2>4
    DEF SessionNext, sessionVars, FindCustomer, FailLogin, Arrive, RequestStep,
        SelectSession, TouchSession, Touched, FailVerify, Leave, Suspend, Reactivate, Tick
<1>3. QED BY <1>2 DEF Valid

\* Sessions end by log-out, time or the bank only, in every behaviour.
THEOREM SessionKeptHolds == SessionSpec => SessionKept
<1>1. SessionInv /\ [SessionNext]_sessionVars =>
        [\A s \in SessionIds : Valid(s) /\ ~Valid(s)' =>
           s \in loggedOut' \/ now' # now \/ active' # active]_sessionVars
  BY StepKeepsSessions
<1>2. QED BY <1>1, SessionInvariant, PTL DEF SessionSpec, SessionKept
=============================================================================
