---------------------------- MODULE RateLimiter ----------------------------
(***************************************************************************)
(* The gateway's rate limits (gateway/policies/rate-limiter.js).           *)
(*                                                                         *)
(* One RateLimitStore in memory keeps, for each client, the times of the   *)
(* requests let through.  Every limiter reads and writes that same store:  *)
(* rateLimitMiddleware with the configured limit and window, and whatever  *)
(* createRateLimiter returns, each with a limit and a window of its own.   *)
(* Reading the count writes back only the times within the reader's        *)
(* window.  There is no await between the count and the recording, so one  *)
(* call of a limiter is one step.                                          *)
(*                                                                         *)
(* A time in the array is a Pass here: the time, who asked whom, and a     *)
(* number that tells apart passes at one moment.                           *)
(***************************************************************************)
EXTENDS Naturals, FiniteSets

CONSTANTS
  Clients,
  Limiters,        \* the limiters in front of the API's routes
  Standard,        \* the one of them that is rateLimitMiddleware
  Limit,           \* limiter -> its `limit`, configured or an option
  Window,          \* limiter -> its `windowMs`, configured or an option
  DefaultLimit,    \* RATE_LIMIT_CONFIG.DEFAULT_LIMIT
  DefaultWindow,   \* RATE_LIMIT_CONFIG.WINDOW_MS
  MaxTime,         \* bound on the clock
  MaxPasses,       \* bound on the number of requests let through
  None             \* no refusal yet

VARIABLES
  now,             \* Date.now()
  store,           \* client -> the passes its array holds
  passed,          \* history: the passes since the process started, or since
                   \* the client's limits were reset
  serial,          \* history: the number of passes so far
  refusal          \* history: the last refusal, or None

limiterVars == <<now, store, passed, serial, refusal>>

Pass == [client : Clients, limiter : Limiters, at : Nat, serial : Nat]

Refusal == [client : Clients, limiter : Limiters, at : Nat]

ASSUME LimiterAssumption ==
  /\ Limit \in [Limiters -> Nat]
  /\ Window \in [Limiters -> Nat]
  /\ {DefaultLimit, DefaultWindow, MaxTime, MaxPasses} \subseteq Nat
  /\ DefaultLimit > 0 /\ DefaultWindow > 0
  /\ Standard \in Limiters
  /\ None \notin Refusal

\* `limit || DEFAULT_LIMIT`: to createRateLimiter an option of 0 counts as
\* absent, while rateLimitMiddleware takes its configuration as it is.
LimitOf(l) == IF l # Standard /\ Limit[l] = 0 THEN DefaultLimit ELSE Limit[l]
WindowOf(l) == IF l # Standard /\ Window[l] = 0 THEN DefaultWindow ELSE Window[l]

RateTypeOK ==
  /\ now \in Nat
  /\ store \in [Clients -> SUBSET Pass]
  /\ passed \subseteq Pass
  /\ serial \in Nat
  /\ refusal \in Refusal \cup {None}

RateInit ==
  /\ now = 0
  /\ store = [c \in Clients |-> {}]
  /\ passed = {}
  /\ serial = 0
  /\ refusal = None

-----------------------------------------------------------------------------
(* RateLimitStore                                                          *)

\* A slip: timestamp >= windowStart
WithinClosed(S, w) == {p \in S : p.at + w >= now}

\* The passes within the window of length w that ends now: timestamp > now - w
Within(S, w) == {p \in S : p.at + w > now}

\* getRequestCount leaves only the window it counted.
Counted(c, w) == [store EXCEPT ![c] = Within(store[c], w)]

\* isLimitExceeded
Exceeded(c, l) == Cardinality(Within(store[c], WindowOf(l))) >= LimitOf(l)

-----------------------------------------------------------------------------
\* A request below the limit is recorded and handed on.
LetPass(c, l) ==
  LET pass == [client |-> c, limiter |-> l, at |-> now, serial |-> serial] IN
  /\ serial < MaxPasses
  /\ ~Exceeded(c, l)
  /\ store' = [store EXCEPT ![c] = Within(store[c], WindowOf(l)) \cup {pass}]
  /\ passed' = passed \cup {pass}
  /\ serial' = serial + 1
  /\ UNCHANGED <<now, refusal>>

\* A request at the limit is answered 429 and is not recorded.
Refuse(c, l) ==
  /\ Exceeded(c, l)
  /\ store' = Counted(c, WindowOf(l))
  /\ refusal' = [client |-> c, limiter |-> l, at |-> now]
  /\ UNCHANGED <<now, passed, serial>>

\* getRateLimitStatus counts by the window of rateLimitMiddleware.
Status(c) ==
  /\ store' = Counted(c, WindowOf(Standard))
  /\ UNCHANGED <<now, passed, serial, refusal>>

\* A slip: maxAge without the factor
MaxAgeOfOneWindow == DefaultWindow

MaxAge == 2 * DefaultWindow

\* cleanup, every five minutes
Cleanup ==
  /\ store' = [c \in Clients |-> Within(store[c], MaxAge)]
  /\ UNCHANGED <<now, passed, serial, refusal>>

\* resetRateLimit
Reset(c) ==
  /\ store' = [store EXCEPT ![c] = {}]
  /\ passed' = {p \in passed : p.client # c}
  /\ UNCHANGED <<now, serial, refusal>>

\* resetAllRateLimits, and what a restart of the process amounts to
ResetAll ==
  /\ store' = [c \in Clients |-> {}]
  /\ passed' = {}
  /\ UNCHANGED <<now, serial, refusal>>

Tick ==
  /\ now < MaxTime
  /\ now' = now + 1
  /\ UNCHANGED <<store, passed, serial, refusal>>

RateNext ==
  \/ \E c \in Clients, l \in Limiters : LetPass(c, l) \/ Refuse(c, l)
  \/ \E c \in Clients : Status(c) \/ Reset(c)
  \/ Cleanup
  \/ ResetAll
  \/ Tick

RateSpec == RateInit /\ [][RateNext]_limiterVars

-----------------------------------------------------------------------------
(* Correctness                                                             *)

\* The client's passes in the last w milliseconds, whoever let them through
Recent(c, w) == {p \in passed : p.client = c /\ now < p.at + w}

\* No reader of the shared store forgets what the limiter l has to count:
\* none has a shorter window, and neither has the periodic cleanup.
Shortest(l) == /\ \A k \in Limiters : WindowOf(l) <= WindowOf(k)
               /\ WindowOf(l) <= 2 * DefaultWindow

\* A limiter whose window is the shortest lets at most `limit` requests of a
\* client through in any window, at whatever moments they come and however
\* often other limiters, getRateLimitStatus and cleanup rewrite the store
\* (rate-limiter.js:60-76, 160-173).  docs/rate-limiting.md:156 promises it of
\* every limiter; one with a longer window loses what those with a shorter one
\* cut off the shared list (rate-limiter.js:73), and is left out here.
WindowKept ==
  \A l \in Limiters, c \in Clients : Shortest(l) =>
    Cardinality({p \in Recent(c, WindowOf(l)) : p.limiter = l}) <= LimitOf(l)

\* Any limiter that refuses a client has seen it let through `limit` times in
\* the limiter's own window; by the time Retry-After names, a client that
\* stayed away is let through (rate-limiter.js:218-242).
RefusedAtLimit ==
  [][refusal' # refusal =>
       LET l == refusal'.limiter IN
       Cardinality(Recent(refusal'.client, WindowOf(l))) >= LimitOf(l)]_limiterVars

-----------------------------------------------------------------------------
(* The inductive invariant behind WindowKept and RefusedAtLimit            *)

\* The store holds no pass that did not happen, nor one under another client.
StoreTrue ==
  \A c \in Clients : \A p \in store[c] : p \in passed /\ p.client = c

\* What a limiter with the shortest window has to count is there.
StoreComplete ==
  \A l \in Limiters, c \in Clients : Shortest(l) =>
    Recent(c, WindowOf(l)) \subseteq store[c]

\* A pass has a number of its own and lies in the past.
PassesNumbered ==
  /\ IsFiniteSet(passed)
  /\ \A p \in passed : p.serial < serial /\ p.at <= now

RateInv ==
  /\ RateTypeOK
  /\ PassesNumbered
  /\ StoreTrue
  /\ StoreComplete
  /\ WindowKept
=============================================================================
