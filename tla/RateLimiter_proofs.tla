------------------------ MODULE RateLimiter_proofs ------------------------
(***************************************************************************)
(* Proofs about RateLimiter: for any number of clients and limiters, with  *)
(* any limits and windows, the limiter whose window is the shortest keeps  *)
(* its limit, and no limiter refuses a client before its limit is reached. *)
(***************************************************************************)
EXTENDS RateLimiter, FiniteSetTheorems, TLAPS

-----------------------------------------------------------------------------
(* Lemmas                                                                  *)

\* Limits and windows are natural numbers; those of rateLimitMiddleware may be 0.
LEMMA OptionsOK ==
  ASSUME NEW l \in Limiters
  PROVE  LimitOf(l) \in Nat /\ WindowOf(l) \in Nat
BY LimiterAssumption DEF LimitOf, WindowOf

\* A client's recent passes are finitely many.
LEMMA RecentFinite ==
  ASSUME RateInv, NEW c \in Clients, NEW w \in Nat
  PROVE  IsFiniteSet(Recent(c, w))
<1>1. Recent(c, w) \subseteq passed BY DEF Recent
<1>2. QED BY <1>1, FS_Subset DEF RateInv, PassesNumbered

\* What the store holds within a window is among the client's recent passes.
LEMMA StoredIsRecent ==
  ASSUME RateInv, NEW c \in Clients, NEW w \in Nat
  PROVE  Within(store[c], w) \subseteq Recent(c, w)
BY DEF RateInv, RateTypeOK, StoreTrue, Within, Recent, Pass

\* A limiter with the shortest window finds in the store all it must count.
LEMMA RecentIsStored ==
  ASSUME RateInv, NEW c \in Clients, NEW l \in Limiters, Shortest(l)
  PROVE  Recent(c, WindowOf(l)) \subseteq Within(store[c], WindowOf(l))
BY OptionsOK DEF RateInv, RateTypeOK, StoreComplete, Within, Recent, Pass

-----------------------------------------------------------------------------
(* Steps that only rewrite the store                                       *)

\* A reader that keeps what every shortest window needs keeps the invariant.
LEMMA RewriteKeeps ==
  ASSUME RateInv, NEW c \in Clients, NEW w \in Nat,
         UNCHANGED <<now, passed, serial>>, refusal' \in Refusal \cup {None},
         store' = Counted(c, w),
         \A l \in Limiters : Shortest(l) => WindowOf(l) <= w
  PROVE  RateInv'
<1>1. RateTypeOK' BY DEF RateInv, RateTypeOK, Counted, Within
<1>2. PassesNumbered' BY DEF RateInv, PassesNumbered
<1>3. StoreTrue' BY DEF RateInv, RateTypeOK, StoreTrue, Counted, Within
<1>4. StoreComplete'
  <2> SUFFICES ASSUME NEW l \in Limiters, NEW d \in Clients, Shortest(l),
                      NEW p \in Recent(d, WindowOf(l))
               PROVE  p \in store'[d]
    BY DEF StoreComplete, Recent
  <2>1. p \in store[d] /\ p \in Pass /\ now < p.at + WindowOf(l)
    BY DEF RateInv, RateTypeOK, StoreComplete, Recent
  <2>2. now < p.at + w
    BY <2>1, OptionsOK DEF RateInv, RateTypeOK, Pass
  <2>3. QED BY <2>1, <2>2 DEF RateInv, RateTypeOK, Counted, Within, Pass
<1>5. WindowKept' BY DEF RateInv, WindowKept, Recent
<1>6. QED BY <1>1, <1>2, <1>3, <1>4, <1>5 DEF RateInv

\* A refusal drops what left the window of its limiter and counts nothing.
LEMMA RefuseKeeps ==
  ASSUME RateInv, NEW c \in Clients, NEW l \in Limiters, Refuse(c, l)
  PROVE  RateInv'
<1>1. refusal' \in Refusal BY DEF Refuse, Refusal, RateInv, RateTypeOK
<1>2. \A k \in Limiters : Shortest(k) => WindowOf(k) <= WindowOf(l) BY DEF Shortest
<1>3. QED BY <1>1, <1>2, RewriteKeeps, OptionsOK DEF Refuse

\* Reading the status of a client drops what left the window, no more.
LEMMA StatusKeeps ==
  ASSUME RateInv, NEW c \in Clients, Status(c)
  PROVE  RateInv'
<1>1. \A k \in Limiters : Shortest(k) => WindowOf(k) <= WindowOf(Standard)
  BY LimiterAssumption DEF Shortest
<1>2. refusal' \in Refusal \cup {None} BY DEF Status, RateInv, RateTypeOK
<1>3. QED BY <1>1, <1>2, RewriteKeeps, OptionsOK, LimiterAssumption DEF Status

\* The interval of the limiter drops what left the window, no more.
LEMMA CleanupKeeps ==
  ASSUME RateInv, Cleanup
  PROVE  RateInv'
<1>1. RateTypeOK' BY DEF RateInv, RateTypeOK, Cleanup, Within
<1>2. PassesNumbered' BY DEF RateInv, PassesNumbered, Cleanup
<1>3. StoreTrue' BY DEF RateInv, RateTypeOK, StoreTrue, Cleanup, Within
<1>4. StoreComplete'
  <2> SUFFICES ASSUME NEW l \in Limiters, NEW d \in Clients, Shortest(l),
                      NEW p \in Recent(d, WindowOf(l))
               PROVE  p \in store'[d]
    BY DEF StoreComplete, Recent, Cleanup
  <2>1. p \in store[d] /\ p \in Pass /\ now < p.at + WindowOf(l)
    BY DEF RateInv, RateTypeOK, StoreComplete, Recent
  <2>2. now < p.at + MaxAge
    BY <2>1, OptionsOK, LimiterAssumption DEF RateInv, RateTypeOK, Pass, Shortest, MaxAge
  <2>3. QED BY <2>1, <2>2 DEF Cleanup, Within
<1>5. WindowKept' BY DEF RateInv, WindowKept, Recent, Cleanup
<1>6. QED BY <1>1, <1>2, <1>3, <1>4, <1>5 DEF RateInv

-----------------------------------------------------------------------------
(* Steps that change what counts                                           *)

\* A request let through is counted at the present.
LEMMA LetPassKeeps ==
  ASSUME RateInv, NEW c \in Clients, NEW l \in Limiters, LetPass(c, l)
  PROVE  RateInv'
<1> DEFINE pass == [client |-> c, limiter |-> l, at |-> now, serial |-> serial]
<1>1. pass \in Pass BY DEF Pass, RateInv, RateTypeOK
<1>2. RateTypeOK' BY <1>1 DEF RateInv, RateTypeOK, LetPass, Within
<1>3. PassesNumbered'
  <2>1. IsFiniteSet(passed') BY FS_AddElement DEF RateInv, PassesNumbered, LetPass
  <2>2. \A p \in passed' : p.serial < serial' /\ p.at <= now'
    BY DEF RateInv, RateTypeOK, PassesNumbered, LetPass, Pass
  <2>3. QED BY <2>1, <2>2 DEF PassesNumbered
<1>4. StoreTrue' BY DEF RateInv, RateTypeOK, StoreTrue, LetPass, Within
<1>5. StoreComplete'
  <2> SUFFICES ASSUME NEW k \in Limiters, NEW d \in Clients, Shortest(k),
                      NEW p \in passed', p.client = d, now < p.at + WindowOf(k)
               PROVE  p \in store'[d]
    BY DEF StoreComplete, Recent, LetPass
  <2>1. CASE p = pass BY <2>1 DEF RateInv, RateTypeOK, LetPass
  <2>2. CASE p # pass
    <3>1. p \in store[d] /\ p \in Pass
      BY <2>2 DEF RateInv, RateTypeOK, StoreComplete, Recent, LetPass
    <3>2. now < p.at + WindowOf(l)
      BY <3>1, OptionsOK DEF RateInv, RateTypeOK, Pass, Shortest
    <3>3. QED BY <3>1, <3>2 DEF RateInv, RateTypeOK, LetPass, Within
  <2>3. QED BY <2>1, <2>2
<1>6. WindowKept'
  <2> SUFFICES ASSUME NEW k \in Limiters, NEW d \in Clients, Shortest(k)
               PROVE  Cardinality({p \in Recent(d, WindowOf(k)) : p.limiter = k}') <= LimitOf(k)
    BY DEF WindowKept
  <2> DEFINE mine == {p \in Recent(d, WindowOf(k)) : p.limiter = k}
  <2>1. CASE d = c /\ k = l
    <3>1. mine' \subseteq mine \cup {pass} BY DEF Recent, LetPass
    <3>2. IsFiniteSet(mine) /\ Cardinality(mine) <= Cardinality(Within(store[c], WindowOf(l)))
      <4>1. mine \subseteq Within(store[c], WindowOf(l)) BY <2>1, RecentIsStored
      <4>2. IsFiniteSet(Within(store[c], WindowOf(l)))
        BY StoredIsRecent, RecentFinite, OptionsOK, FS_Subset
      <4>3. QED BY <4>1, <4>2, FS_Subset
    <3>3. Cardinality(Within(store[c], WindowOf(l))) \in Nat
      BY StoredIsRecent, RecentFinite, OptionsOK, FS_Subset, FS_CardinalityType
    <3>4. Cardinality(mine) + 1 <= LimitOf(k)
      <4>1. Cardinality(Within(store[c], WindowOf(l))) < LimitOf(l)
        BY <3>3, OptionsOK DEF LetPass, Exceeded
      <4>2. Cardinality(mine) \in Nat BY <3>2, FS_CardinalityType
      <4>3. QED BY <2>1, <3>2, <3>3, <4>1, <4>2, OptionsOK
    <3>5. IsFiniteSet(mine \cup {pass}) /\ Cardinality(mine \cup {pass}) <= Cardinality(mine) + 1
      <4> HIDE DEF mine, pass
      <4>1. IsFiniteSet(mine) /\ Cardinality(mine) \in Nat BY <3>2, FS_CardinalityType
      <4>2. IsFiniteSet(mine \cup {pass}) /\ Cardinality(mine \cup {pass}) =
              IF pass \in mine THEN Cardinality(mine) ELSE Cardinality(mine) + 1
        BY <4>1, FS_AddElement
      <4>3. QED BY <4>1, <4>2
    <3>6. IsFiniteSet(mine') /\ Cardinality(mine') <= Cardinality(mine \cup {pass})
      BY <3>1, <3>5, FS_Subset
    <3>7. Cardinality(mine') \in Nat /\ Cardinality(mine \cup {pass}) \in Nat /\ Cardinality(mine) \in Nat
      BY <3>2, <3>5, <3>6, FS_CardinalityType
    <3>8. QED BY <3>4, <3>5, <3>6, <3>7, OptionsOK
  <2>2. CASE ~(d = c /\ k = l)
    <3>1. mine' = mine BY <2>2 DEF Recent, LetPass
    <3>2. QED BY <3>1 DEF RateInv, WindowKept
  <2>3. QED BY <2>1, <2>2
<1>7. QED BY <1>2, <1>3, <1>4, <1>5, <1>6 DEF RateInv

\* Where no pass is added and the recent ones only become fewer, the count of
\* every limiter goes down.
LEMMA FewerKept ==
  ASSUME RateInv, \A c \in Clients, l \in Limiters :
                     Recent(c, WindowOf(l))' \subseteq Recent(c, WindowOf(l))
  PROVE  WindowKept'
<1> SUFFICES ASSUME NEW l \in Limiters, NEW c \in Clients, Shortest(l)
             PROVE  Cardinality({p \in Recent(c, WindowOf(l)) : p.limiter = l}') <= LimitOf(l)
  BY DEF WindowKept
<1> DEFINE mine == {p \in Recent(c, WindowOf(l)) : p.limiter = l}
<1>1. mine' \subseteq mine OBVIOUS
<1>2. IsFiniteSet(mine)
  <2>1. IsFiniteSet(Recent(c, WindowOf(l))) BY RecentFinite, OptionsOK
  <2>2. QED BY <2>1, FS_Subset
<1>3. IsFiniteSet(mine') /\ Cardinality(mine') <= Cardinality(mine) BY <1>1, <1>2, FS_Subset
<1>4. Cardinality(mine') \in Nat /\ Cardinality(mine) \in Nat BY <1>2, <1>3, FS_CardinalityType
<1>5. Cardinality(mine) <= LimitOf(l) BY DEF RateInv, WindowKept
<1>6. QED BY <1>3, <1>4, <1>5, OptionsOK

\* Resetting a client forgets its requests.
LEMMA ResetKeeps ==
  ASSUME RateInv, NEW c \in Clients, Reset(c)
  PROVE  RateInv'
<1>1. RateTypeOK' BY DEF RateInv, RateTypeOK, Reset
<1>2. PassesNumbered'
  <2>1. passed' \subseteq passed BY DEF Reset
  <2>2. QED BY <2>1, FS_Subset DEF RateInv, PassesNumbered, Reset
<1>3. StoreTrue' BY DEF RateInv, RateTypeOK, StoreTrue, Reset
<1>4. StoreComplete' BY DEF RateInv, RateTypeOK, StoreComplete, Recent, Reset
<1>5. WindowKept' BY FewerKept DEF Recent, Reset
<1>6. QED BY <1>1, <1>2, <1>3, <1>4, <1>5 DEF RateInv

\* Resetting all forgets every request.
LEMMA ResetAllKeeps ==
  ASSUME RateInv, ResetAll
  PROVE  RateInv'
<1>1. RateTypeOK' BY DEF RateInv, RateTypeOK, ResetAll
<1>2. PassesNumbered' BY FS_EmptySet DEF PassesNumbered, ResetAll
<1>3. StoreTrue' BY DEF StoreTrue, ResetAll
<1>4. StoreComplete' BY DEF StoreComplete, Recent, ResetAll
<1>5. WindowKept' BY FewerKept DEF Recent, ResetAll
<1>6. QED BY <1>1, <1>2, <1>3, <1>4, <1>5 DEF RateInv

\* The clock only moves on.
LEMMA TickKeeps ==
  ASSUME RateInv, Tick
  PROVE  RateInv'
<1>1. RateTypeOK' BY DEF RateInv, RateTypeOK, Tick
<1>2. PassesNumbered' BY DEF RateInv, RateTypeOK, PassesNumbered, Tick, Pass
<1>3. StoreTrue' BY DEF RateInv, StoreTrue, Tick
<1>4. \A c \in Clients, l \in Limiters : Recent(c, WindowOf(l))' \subseteq Recent(c, WindowOf(l))
  BY OptionsOK DEF RateInv, RateTypeOK, Recent, Tick, Pass
<1>5. StoreComplete' BY <1>4 DEF RateInv, StoreComplete, Tick, Shortest
<1>6. WindowKept' BY <1>4, FewerKept
<1>7. QED BY <1>1, <1>2, <1>3, <1>5, <1>6 DEF RateInv

-----------------------------------------------------------------------------
(* The theorems                                                            *)

\* In every reachable state the store holds what the shortest window has to
\* count, and a limiter with that window has kept its limit in the window
\* that ends now, hence in every window.
THEOREM ShortestWindowKept == RateSpec => []RateInv
<1>1. RateInit => RateInv
  BY FS_EmptySet, OptionsOK, LimiterAssumption
  DEF RateInit, RateInv, RateTypeOK, PassesNumbered, StoreTrue, StoreComplete, WindowKept, Recent
<1>2. RateInv /\ [RateNext]_limiterVars => RateInv'
  <2> SUFFICES ASSUME RateInv, [RateNext]_limiterVars PROVE RateInv'
    OBVIOUS
  <2>1. ASSUME NEW c \in Clients, NEW l \in Limiters, LetPass(c, l) PROVE RateInv'
    BY <2>1, LetPassKeeps
  <2>2. ASSUME NEW c \in Clients, NEW l \in Limiters, Refuse(c, l) PROVE RateInv'
    BY <2>2, RefuseKeeps
  <2>3. ASSUME NEW c \in Clients, Status(c) PROVE RateInv' BY <2>3, StatusKeeps
  <2>4. ASSUME NEW c \in Clients, Reset(c) PROVE RateInv' BY <2>4, ResetKeeps
  <2>5. CASE Cleanup BY <2>5, CleanupKeeps
  <2>6. CASE ResetAll BY <2>6, ResetAllKeeps
  <2>7. CASE Tick BY <2>7, TickKeeps
  <2>8. CASE UNCHANGED limiterVars
    BY <2>8 DEF limiterVars, RateInv, RateTypeOK, PassesNumbered, StoreTrue, StoreComplete,
                WindowKept, Recent
  <2>9. QED BY <2>1, <2>2, <2>3, <2>4, <2>5, <2>6, <2>7, <2>8 DEF RateNext
<1>3. QED BY <1>1, <1>2, PTL DEF RateSpec

\* Every refusal comes after `limit` passes of the client in the window of
\* the limiter that refuses, so no client is turned away early.
THEOREM NoEarlyRefusal == RateSpec => RefusedAtLimit
<1>1. ASSUME RateInv, [RateNext]_limiterVars, refusal' # refusal
      PROVE  Cardinality(Recent(refusal'.client, WindowOf(refusal'.limiter)))
               >= LimitOf(refusal'.limiter)
  <2>1. PICK c \in Clients, l \in Limiters : Refuse(c, l)
    BY <1>1 DEF RateNext, limiterVars, LetPass, Status, Reset, Cleanup, ResetAll, Tick
  <2>2. refusal'.client = c /\ refusal'.limiter = l BY <2>1 DEF Refuse
  <2>3. IsFiniteSet(Recent(c, WindowOf(l))) BY <1>1, RecentFinite, OptionsOK
  <2>4. IsFiniteSet(Within(store[c], WindowOf(l))) /\
        Cardinality(Within(store[c], WindowOf(l))) <= Cardinality(Recent(c, WindowOf(l)))
    BY <1>1, <2>3, StoredIsRecent, OptionsOK, FS_Subset
  <2>5. Cardinality(Within(store[c], WindowOf(l))) >= LimitOf(l)
    BY <2>1 DEF Refuse, Exceeded
  <2>6. Cardinality(Within(store[c], WindowOf(l))) \in Nat /\ Cardinality(Recent(c, WindowOf(l))) \in Nat
    BY <2>3, <2>4, FS_CardinalityType
  <2>7. QED BY <2>2, <2>4, <2>5, <2>6, OptionsOK
<1>2. QED BY <1>1, ShortestWindowKept, PTL DEF RateSpec, RefusedAtLimit
=============================================================================
