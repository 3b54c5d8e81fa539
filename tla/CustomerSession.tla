-------------------------- MODULE CustomerSession --------------------------
(***************************************************************************)
(* Customer sessions and the middlewares that ask for one:                 *)
(*   auth/customer-authentication.js  authenticateCustomer,                *)
(*       verifyCustomerSession, logoutCustomer, cleanupExpiredSessions,    *)
(*   auth/middleware/customer-auth-middleware.js,                          *)
(*   auth/consent/consent-routes.js   requireCustomerAuth,                 *)
(*   data/schema/006_create_customer_sessions_table.sql.                   *)
(*                                                                         *)
(* Every call opens a pool of its own and runs one statement at a time, so *)
(* a log-in and a request yield between their two statements.  A row keeps *)
(* the columns some guard reads, and created_at for the properties.  The   *)
(* bank changes customers.status on its own.                               *)
(***************************************************************************)
EXTENDS Naturals

CONSTANTS
  Customers,
  SessionIds,   \* session tokens
  Logins,       \* concurrent log-ins
  Requests,     \* concurrent requests behind one of the middlewares
  SessionTTL,   \* SESSION_DURATION_MINUTES: 30 minutes
  MaxTime,      \* bound on the clock
  Faults,       \* may a query throw?
  None          \* no row, no token, no customer, no call in flight

VARIABLES
  now,          \* the clock, JavaScript's and SQL's
  active,       \* the customers whose status is 'active'
  sessions,     \* table customer_sessions
  logins,       \* log-in -> the customer whose row it has read, or None
  requests,     \* request -> its state, or None
  loggedOut     \* history: the sessions whose log-out was carried out

sessionVars == <<now, active, sessions, logins, requests, loggedOut>>

Session == [customer : Customers, created_at : Nat, expires_at : Nat,
            is_active : BOOLEAN]

\* requireCustomerAuth and requireCustomerAuthForAuthorization stop a request
\* without a valid session ("required"); checkCustomerAuth lets it through
\* without a customer ("optional"); so does, once a token is given, the
\* requireCustomerAuth of consent-routes.js ("consent"), which only asks
\* whether there is a verdict.
Guards == {"required", "optional", "consent"}

\* `late` is history: from its arrival on, the request has no right to its
\* customer, for good or until the bank reactivates that customer.
Request == [pc : {"select", "touch", "handed", "refused"},
            session : SessionIds \cup {None}, guard : Guards,
            customer : Customers \cup {None}, late : BOOLEAN]

ASSUME SessionAssumption ==
  /\ SessionTTL \in Nat /\ MaxTime \in Nat
  /\ Faults \in BOOLEAN
  /\ None \notin Customers \cup SessionIds
  /\ None \notin Session
  /\ None \notin Request

SessionTypeOK ==
  /\ now \in Nat
  /\ active \subseteq Customers
  /\ sessions \in [SessionIds -> Session \cup {None}]
  /\ logins \in [Logins -> Customers \cup {None}]
  /\ requests \in [Requests -> Request \cup {None}]
  /\ loggedOut \subseteq SessionIds

SessionInit ==
  /\ now = 0
  /\ active = Customers
  /\ sessions = [s \in SessionIds |-> None]
  /\ logins = [l \in Logins |-> None]
  /\ requests = [q \in Requests |-> None]
  /\ loggedOut = {}

-----------------------------------------------------------------------------
(* authenticateCustomer                                                    *)

\* The SELECT of an active customer by e-mail, and the password.
FindCustomer(l, c) ==
  /\ logins[l] = None
  /\ c \in active
  /\ logins' = [logins EXCEPT ![l] = c]
  /\ UNCHANGED <<now, active, sessions, requests, loggedOut>>

\* The INSERT, half an hour before the session's end.
CreateSession(l, s) ==
  /\ logins[l] # None
  /\ sessions[s] = None
  /\ sessions' = [sessions EXCEPT ![s] =
       [customer |-> logins[l], created_at |-> now,
        expires_at |-> now + SessionTTL, is_active |-> TRUE]]
  /\ logins' = [logins EXCEPT ![l] = None]
  /\ UNCHANGED <<now, active, requests, loggedOut>>

FailLogin(l) ==
  /\ Faults
  /\ logins[l] # None
  /\ logins' = [logins EXCEPT ![l] = None]
  /\ UNCHANGED <<now, active, sessions, requests, loggedOut>>

-----------------------------------------------------------------------------
(* A request behind one of the middlewares                                 *)

\* The WHERE clause of verifyCustomerSession
Valid(s) ==
  /\ sessions[s] # None
  /\ sessions[s].is_active
  /\ sessions[s].expires_at > now
  /\ sessions[s].customer \in active

\* The session was ended, or has had its half hour.
Over(s) == s \in loggedOut \/ now >= sessions[s].created_at + SessionTTL

\* A token that is missing never reaches verifyCustomerSession.
Arrive(q, s, guard) ==
  LET request(pc, late) ==
        [pc |-> pc, session |-> s, guard |-> guard, customer |-> None, late |-> late]
  IN
  /\ requests[q] = None
  /\ \/ /\ s = None
        /\ requests' = [requests EXCEPT ![q] =
             request(IF guard = "optional" THEN "handed" ELSE "refused", TRUE)]
     \/ /\ s \in SessionIds /\ sessions[s] # None
        /\ requests' = [requests EXCEPT ![q] =
             request("select", Over(s) \/ sessions[s].customer \notin active)]
  /\ UNCHANGED <<now, active, sessions, logins, loggedOut>>

\* A slip: requireCustomerAuth forgets to return
RejectedOnlyInWords(q) == requests' = [requests EXCEPT ![q].pc = "handed"]

\* What each middleware makes of valid: false
Rejected(q) ==
  requests' = [requests EXCEPT ![q].pc =
                 IF requests[q].guard = "required" THEN "refused" ELSE "handed"]

InRequest(q, pc) == requests[q] # None /\ requests[q].pc = pc

\* The SELECT of verifyCustomerSession
SelectSession(q) ==
  /\ InRequest(q, "select")
  /\ IF Valid(requests[q].session)
       THEN requests' = [requests EXCEPT ![q].pc = "touch"]
       ELSE Rejected(q)
  /\ UNCHANGED <<now, active, sessions, logins, loggedOut>>

\* A slip: the row is written as it was read, for another half hour
TouchedAfresh(s) ==
  [sessions EXCEPT ![s].is_active = TRUE, ![s].expires_at = now + SessionTTL]

\* UPDATE last_activity_at, a column nothing reads
Touched(s) == sessions

\* The second statement of verifyCustomerSession; then the customer is
\* attached to the request.
TouchSession(q) ==
  LET s == requests[q].session IN
  /\ InRequest(q, "touch")
  /\ sessions' = Touched(s)
  /\ requests' = [requests EXCEPT ![q].pc = "handed",
                                  ![q].customer = sessions[s].customer]
  /\ UNCHANGED <<now, active, logins, loggedOut>>

\* verifyCustomerSession turns an error into valid: false.
FailVerify(q) ==
  /\ Faults
  /\ InRequest(q, "select") \/ InRequest(q, "touch")
  /\ Rejected(q)
  /\ UNCHANGED <<now, active, sessions, logins, loggedOut>>

\* The answer is out; the worker is free for another request.
Leave(q) ==
  /\ InRequest(q, "handed") \/ InRequest(q, "refused")
  /\ requests' = [requests EXCEPT ![q] = None]
  /\ UNCHANGED <<now, active, sessions, logins, loggedOut>>

-----------------------------------------------------------------------------
\* logoutCustomer: one UPDATE, whatever the state of the session
Logout(s) ==
  /\ sessions[s] # None
  /\ sessions' = [sessions EXCEPT ![s].is_active = FALSE]
  /\ loggedOut' = loggedOut \cup {s}
  /\ UNCHANGED <<now, active, logins, requests>>

\* A slip: the comparison turned round
Unexpired(session) == session.expires_at > now

\* The WHERE clause of cleanup_expired_sessions()
Expired(session) == session.expires_at < now

\* cleanupExpiredSessions
Cleanup ==
  /\ sessions' = [s \in SessionIds |->
       IF sessions[s] # None /\ Expired(sessions[s])
         THEN [sessions[s] EXCEPT !.is_active = FALSE]
         ELSE sessions[s]]
  /\ UNCHANGED <<now, active, logins, requests, loggedOut>>

\* The bank suspends a customer.
Suspend(c) ==
  /\ active' = active \ {c}
  /\ UNCHANGED <<now, sessions, logins, requests, loggedOut>>

\* The bank takes a customer back; sessions from before count again.
Reactivate(c) ==
  /\ active' = active \cup {c}
  /\ requests' = [q \in Requests |->
       IF requests[q] # None /\ requests[q].session # None
          /\ sessions[requests[q].session].customer = c
         THEN [requests[q] EXCEPT !.late = @ /\ Over(requests[q].session)]
         ELSE requests[q]]
  /\ UNCHANGED <<now, sessions, logins, loggedOut>>

Tick ==
  /\ now < MaxTime
  /\ now' = now + 1
  /\ UNCHANGED <<active, sessions, logins, requests, loggedOut>>

RequestStep(q) == SelectSession(q) \/ TouchSession(q) \/ FailVerify(q)

SessionNext ==
  \/ \E l \in Logins, c \in Customers : FindCustomer(l, c)
  \/ \E l \in Logins, s \in SessionIds : CreateSession(l, s)
  \/ \E l \in Logins : FailLogin(l)
  \/ \E q \in Requests, s \in SessionIds \cup {None}, guard \in Guards : Arrive(q, s, guard)
  \/ \E q \in Requests : RequestStep(q) \/ Leave(q)
  \/ \E s \in SessionIds : Logout(s)
  \/ Cleanup
  \/ \E c \in Customers : Suspend(c) \/ Reactivate(c)
  \/ Tick

SessionSpec == SessionInit /\ [][SessionNext]_sessionVars

-----------------------------------------------------------------------------
(* Correctness                                                             *)

\* A request that arrives after its session was logged out or has had its
\* half hour, or while its customer is suspended, is never taken for that
\* customer, whatever verifications, log-ins and clean-ups are half-way
\* (customer-authentication.js:216-234, 317-324).
NoLateAuthentication ==
  \A q \in Requests : requests[q] # None /\ requests[q].late => requests[q].customer = None

\* A session stops being accepted only by its own log-out, by time or by the
\* bank's suspending its customer: no clean-up, no verification and no other
\* session's log-out ends it (schema 006:38-40).
SessionKept ==
  [][\A s \in SessionIds : Valid(s) /\ ~Valid(s)' =>
       s \in loggedOut' \/ now' # now \/ active' # active]_sessionVars

-----------------------------------------------------------------------------
(* The inductive invariant behind NoLateAuthentication                     *)

\* A log-out is not undone.
LogoutHolds ==
  \A s \in loggedOut : sessions[s] # None /\ ~sessions[s].is_active

\* A session lasts half an hour from its log-in; use does not prolong it.
FixedLifetime ==
  \A s \in SessionIds : sessions[s] # None =>
    sessions[s].expires_at = sessions[s].created_at + SessionTTL

\* A request presents a session that was created, is taken for the customer
\* of that session and no other, and got past its check in time.
RequestsOfSessions ==
  \A q \in Requests : requests[q] # None =>
    LET request == requests[q] IN
    /\ request.session # None => sessions[request.session] # None
    /\ request.pc \in {"select", "touch"} => request.session # None
    /\ request.pc = "touch" => ~request.late
    /\ request.customer # None =>
         /\ request.session # None
         /\ request.customer = sessions[request.session].customer

\* Who comes late stays late: the session is over for good, or its customer
\* is still suspended.
LateForGood ==
  \A q \in Requests : requests[q] # None /\ requests[q].late /\ requests[q].session # None =>
    \/ Over(requests[q].session)
    \/ sessions[requests[q].session].customer \notin active

\* What requireCustomerAuth and requireCustomerAuthForAuthorization hand on
\* has a customer.
RequiredMeansKnown ==
  \A q \in Requests :
    InRequest(q, "handed") /\ requests[q].guard = "required" => requests[q].customer # None

SessionInv ==
  /\ SessionTypeOK
  /\ LogoutHolds
  /\ FixedLifetime
  /\ RequestsOfSessions
  /\ LateForGood
  /\ RequiredMeansKnown
  /\ NoLateAuthentication
=============================================================================
