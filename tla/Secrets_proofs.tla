--------------------------- MODULE Secrets_proofs ---------------------------
(***************************************************************************)
(* Proofs about Secrets: for any secrets, callers and loads, and whatever  *)
(* an operator writes meanwhile, the cache answers with nothing older than *)
(* its bound, loadedSecrets is never incomplete, and a reload that begins  *)
(* alone takes up nothing that had been replaced before it.                *)
(***************************************************************************)
EXTENDS Secrets, TLAPS

-----------------------------------------------------------------------------
(* What the operators build                                                *)

\* A position in LoadOrder holds a name.
LEMMA NameAt ==
  ASSUME NEW i \in 1 .. Len(LoadOrder)
  PROVE  LoadOrder[i] \in Names
BY SecretsAssumption

\* LoadOrder has a last position.
LEMMA OrderLength ==
  Len(LoadOrder) \in Nat /\ Len(LoadOrder) >= 1
BY SecretsAssumption

\* An entry that getSecret stores ends CacheTTL from now.
LEMMA StoredIs ==
  ASSUME SecretsTypeOK, NEW n \in Names, NEW value \in Values \cup {None}
  PROVE  /\ Stored(n, value) \in [Names -> CacheEntry \cup {None}]
         /\ value # None => /\ Stored(n, value)[n] # None
                            /\ Stored(n, value)[n].value = value
                            /\ Stored(n, value)[n].expires_at = now + CacheTTL
         /\ value = None => Stored(n, value) = cache
         /\ \A m \in Names : m # n => Stored(n, value)[m] = cache[m]
<1> PICK entry : entry = [value |-> value, expires_at |-> now + CacheTTL] OBVIOUS
<1>1. value # None => entry \in CacheEntry
  BY SecretsAssumption DEF SecretsTypeOK, CacheEntry
<1>2. value # None => entry # None BY <1>1, SecretsAssumption
<1>3. entry.value = value /\ entry.expires_at = now + CacheTTL OBVIOUS
<1>4. Stored(n, value) = IF value = None THEN cache ELSE [cache EXCEPT ![n] = entry]
  BY DEF Stored
<1>5. QED BY <1>1, <1>2, <1>3, <1>4 DEF SecretsTypeOK

\* A load that fetches has what the entries or the backend hold now.
LEMMA FetchingIs ==
  ASSUME SecretsTypeOK, NEW load \in Load, load.step \in 1 .. Len(LoadOrder),
         NEW entries \in [Names -> CacheEntry \cup {None}]
  PROVE  LET r == Fetching(load, entries)  n == LoadOrder[load.step] IN
         /\ r \in Load
         /\ r.pc = "store" /\ r.step = load.step /\ r.at = now /\ r.got = load.got
         /\ r.failed = load.failed /\ r.reload = load.reload
         /\ r.alone = load.alone /\ r.stale = load.stale
         /\ r.fresh => r.value = vault[n]
         /\ ~r.fresh => entries[n] # None /\ r.value = entries[n].value
<1> PICK n : n = LoadOrder[load.step] OBVIOUS
<1>1. n \in Names BY NameAt
<1>2. PICK hit \in BOOLEAN : hit = (entries[n] # None /\ Unexpired(entries[n]))
  BY DEF Unexpired
<1>3. PICK fresh \in BOOLEAN : fresh = ~hit OBVIOUS
<1>4. PICK value : value = IF hit THEN entries[n].value ELSE vault[n] OBVIOUS
<1>5. value \in Values \cup {None}
  BY <1>1, <1>2, <1>4 DEF SecretsTypeOK, CacheEntry
<1>6. PICK r : r = [load EXCEPT !.pc = "store", !.at = now, !.fresh = fresh, !.value = value]
  OBVIOUS
<1>7. Fetching(load, entries) = r BY <1>2, <1>3, <1>4, <1>6 DEF Fetching
<1>8. r \in Load BY <1>5, <1>6 DEF Load, SecretsTypeOK
<1>9. /\ r.pc = "store" /\ r.step = load.step /\ r.at = now /\ r.got = load.got
      /\ r.failed = load.failed /\ r.reload = load.reload
      /\ r.alone = load.alone /\ r.stale = load.stale
      /\ r.fresh = fresh /\ r.value = value
  BY <1>6 DEF Load
<1>10. r.fresh => r.value = vault[n] BY <1>3, <1>4, <1>9
<1>11. ~r.fresh => entries[n] # None /\ r.value = entries[n].value
  BY <1>2, <1>3, <1>4, <1>9
<1>12. QED BY <1>7, <1>8, <1>9, <1>10, <1>11

\* A load goes on by one step, with the value in its place.
LEMMA OnwardIs ==
  ASSUME NEW load \in Load, load.step \in 1 .. Len(LoadOrder),
         NEW value \in Values \cup {None}
  PROVE  LET r == Onward(load, value)  n == LoadOrder[load.step] IN
         /\ r \in Load
         /\ r.pc = IF load.step = Len(LoadOrder) THEN "finish" ELSE "fetch"
         /\ r.step = load.step + 1
         /\ r.got[n] = value /\ \A m \in Names : m # n => r.got[m] = load.got[m]
         /\ r.failed => load.failed \/ (n \in Required /\ value = None)
         /\ ~r.failed => ~load.failed /\ (n \in Required => value # None)
         /\ r.value = load.value /\ r.reload = load.reload
         /\ r.alone = load.alone /\ r.stale = load.stale
<1> PICK n : n = LoadOrder[load.step] OBVIOUS
<1>1. n \in Names BY NameAt
<1>2. PICK pc \in {"fetch", "store", "finish"} :
        pc = IF load.step = Len(LoadOrder) THEN "finish" ELSE "fetch"
  OBVIOUS
<1>3. PICK failed \in BOOLEAN : failed = (load.failed \/ (n \in Required /\ value = None))
  BY DEF Load
<1>4. PICK r : r = [load EXCEPT !.pc = pc, !.step = @ + 1, !.got[n] = value, !.failed = failed]
  OBVIOUS
<1>5. Onward(load, value) = r BY <1>2, <1>3, <1>4 DEF Onward, Load
<1>6. r \in Load
  <2>1. PICK r1 : r1 = [load EXCEPT !.pc = pc] OBVIOUS
  <2>2. r1 \in Load BY <1>2, <2>1 DEF Load
  <2>3. PICK r2 : r2 = [r1 EXCEPT !.step = @ + 1] OBVIOUS
  <2>4. r2 \in Load BY <2>2, <2>3 DEF Load
  <2>5. PICK r3 : r3 = [r2 EXCEPT !.got[n] = value] OBVIOUS
  <2>6. r3 \in Load BY <2>4, <2>5 DEF Load
  <2>7. PICK r4 : r4 = [r3 EXCEPT !.failed = failed] OBVIOUS
  <2>8. r4 \in Load BY <2>6, <2>7 DEF Load
  <2>9. r4 = r BY <1>4, <2>1, <2>3, <2>5, <2>7
  <2>10. QED BY <2>8, <2>9
<1>7. /\ r.pc = pc /\ r.step = load.step + 1 /\ r.got = [load.got EXCEPT ![n] = value]
      /\ r.failed = failed /\ r.value = load.value /\ r.reload = load.reload
      /\ r.alone = load.alone /\ r.stale = load.stale
  BY <1>4 DEF Load
<1>8. r.got[n] = value /\ \A m \in Names : m # n => r.got[m] = load.got[m]
  BY <1>1, <1>7 DEF Load
<1>9. QED BY <1>2, <1>3, <1>5, <1>6, <1>7, <1>8

\* The load that BeginLoad makes, before its first getSecret
Begun(reload) ==
  [pc |-> "fetch", step |-> 1, value |-> None, fresh |-> FALSE, at |-> now,
   got |-> [n \in Names |-> None], failed |-> FALSE, reload |-> reload,
   alone |-> /\ \A c \in Callers : gets[c] = None
             /\ \A k \in Loaders : loads[k] = None,
   stale |-> {v \in Values : retired[v] # None}]

\* The entries that load finds
Entries(reload) == IF reload THEN Cleared ELSE cache

\* That load is of its type, and at the first position of LoadOrder.
LEMMA BegunIs ==
  ASSUME SecretsTypeOK, NEW reload \in BOOLEAN
  PROVE  /\ Begun(reload) \in Load
         /\ Begun(reload).step = 1 /\ Begun(reload).step \in 1 .. Len(LoadOrder)
         /\ \A n \in Names : Begun(reload).got[n] = None
         /\ Begun(reload).reload = reload
         /\ Begun(reload).alone => /\ \A c \in Callers : gets[c] = None
                                   /\ \A k \in Loaders : loads[k] = None
         /\ \A v \in Begun(reload).stale : v \in Values /\ retired[v] # None
         /\ Entries(reload) \in [Names -> CacheEntry \cup {None}]
<1>1. PICK alone \in BOOLEAN : alone = (/\ \A c \in Callers : gets[c] = None
                                        /\ \A k \in Loaders : loads[k] = None)
  OBVIOUS
<1>2. PICK stale : stale = {v \in Values : retired[v] # None} OBVIOUS
<1>3. stale \subseteq Values BY <1>2
<1>4. PICK got : got = [n \in Names |-> None] OBVIOUS
<1>5. got \in [Names -> Values \cup {None}] BY <1>4
<1>6. Begun(reload) =
        [pc |-> "fetch", step |-> 1, value |-> None, fresh |-> FALSE, at |-> now,
         got |-> got, failed |-> FALSE, reload |-> reload, alone |-> alone, stale |-> stale]
  BY <1>1, <1>2, <1>4 DEF Begun
<1>7. Begun(reload) \in Load BY <1>3, <1>5, <1>6 DEF Load, SecretsTypeOK
<1>8. Entries(reload) \in [Names -> CacheEntry \cup {None}]
  BY DEF Entries, Cleared, SecretsTypeOK
<1>9. 1 \in 1 .. Len(LoadOrder) BY OrderLength
<1>10. \A n \in Names : got[n] = None BY <1>4
<1>11. \A v \in stale : v \in Values /\ retired[v] # None BY <1>2
<1>12. QED BY <1>1, <1>6, <1>7, <1>8, <1>9, <1>10, <1>11

\* BeginLoad is the first fetch of that load.
LEMMA BeginLoadIs ==
  ASSUME NEW l \in Loaders, NEW reload \in BOOLEAN, BeginLoad(l, reload)
  PROVE  /\ loads[l] = None /\ cache' = Entries(reload)
         /\ loads' = [loads EXCEPT ![l] = Fetching(Begun(reload), Entries(reload))]
         /\ UNCHANGED <<now, vault, writes, retired, gets, loaded>>
BY Zenon DEF BeginLoad, Begun, Entries

\* A load in flight is a record, at a position of LoadOrder until it finishes.
LEMMA LoadInOrder ==
  ASSUME SecretsTypeOK, LoadsInOrder, NEW l \in Loaders, loads[l] # None
  PROVE  /\ loads[l] \in Load
         /\ loads[l].pc # "finish" => loads[l].step \in 1 .. Len(LoadOrder)
<1>1. loads[l] \in Load BY DEF SecretsTypeOK
<1>2. QED BY <1>1, OrderLength DEF LoadsInOrder

\* Every step that replaces loads replaces just one.
LEMMA OneLoad ==
  ASSUME SecretsTypeOK, NEW l \in Loaders, NEW r, loads' = [loads EXCEPT ![l] = r]
  PROVE  loads'[l] = r /\ \A k \in Loaders : k # l => loads'[k] = loads[k]
BY DEF SecretsTypeOK

-----------------------------------------------------------------------------
(* Types                                                                   *)

\* The value of an answer that a step of a load has in hand
LEMMA InHand ==
  ASSUME SecretsTypeOK, LoadsInOrder, NEW l \in Loaders, InLoad(l, "store")
  PROVE  /\ loads[l] \in Load /\ loads[l].step \in 1 .. Len(LoadOrder)
         /\ LoadOrder[loads[l].step] \in Names
         /\ loads[l].value \in Values \cup {None}
<1>1. loads[l] \in Load /\ loads[l].step \in 1 .. Len(LoadOrder)
  BY LoadInOrder DEF InLoad
<1>2. QED BY <1>1, NameAt DEF Load

\* Every step keeps the types.
LEMMA TypesKept ==
  ASSUME SecretsTypeOK, LoadsInOrder, [SecretsNext]_secretVars
  PROVE  SecretsTypeOK'
<1>1. ASSUME NEW c \in Callers, NEW n \in Names, AskBackend(c, n)
      PROVE  SecretsTypeOK'
  <2>1. [name |-> n, value |-> vault[n], at |-> now] \in Get
    BY DEF Get, SecretsTypeOK
  <2>2. QED BY <1>1, <2>1 DEF AskBackend, SecretsTypeOK
<1>2. ASSUME NEW c \in Callers, GetAnswered(c)
      PROVE  SecretsTypeOK'
  <2>1. gets[c] \in Get BY <1>2 DEF GetAnswered, SecretsTypeOK
  <2>2. Stored(gets[c].name, gets[c].value) \in [Names -> CacheEntry \cup {None}]
    BY <2>1, StoredIs DEF Get
  <2>3. QED BY <1>2, <2>2 DEF GetAnswered, SecretsTypeOK
<1>3. ASSUME NEW c \in Callers, GetFailed(c)
      PROVE  SecretsTypeOK'
  BY <1>3 DEF GetFailed, SecretsTypeOK
<1>4. ASSUME NEW l \in Loaders, NEW reload \in BOOLEAN, BeginLoad(l, reload)
      PROVE  SecretsTypeOK'
  <2>1. Fetching(Begun(reload), Entries(reload)) \in Load BY BegunIs, FetchingIs
  <2>2. Entries(reload) \in [Names -> CacheEntry \cup {None}] BY BegunIs
  <2>3. QED BY <1>4, <2>1, <2>2, BeginLoadIs DEF SecretsTypeOK
<1>5. ASSUME NEW l \in Loaders, FetchNext(l)
      PROVE  SecretsTypeOK'
  <2>1. loads[l] \in Load /\ loads[l].step \in 1 .. Len(LoadOrder)
    BY <1>5, LoadInOrder DEF FetchNext, InLoad
  <2>2. Fetching(loads[l], cache) \in Load
    BY <2>1, FetchingIs DEF SecretsTypeOK
  <2>3. QED BY <1>5, <2>2 DEF FetchNext, SecretsTypeOK
<1>6. ASSUME NEW l \in Loaders, FetchAnswered(l)
      PROVE  SecretsTypeOK'
  <2>1. InLoad(l, "store") BY <1>6 DEF FetchAnswered
  <2>2. Onward(loads[l], loads[l].value) \in Load BY <2>1, InHand, OnwardIs
  <2>3. Stored(LoadOrder[loads[l].step], loads[l].value) \in [Names -> CacheEntry \cup {None}]
    BY <2>1, InHand, StoredIs
  <2>4. cache' \in [Names -> CacheEntry \cup {None}]
    BY <1>6, <2>3 DEF FetchAnswered, SecretsTypeOK
  <2>5. QED BY <1>6, <2>2, <2>4 DEF FetchAnswered, SecretsTypeOK
<1>7. ASSUME NEW l \in Loaders, FetchFailed(l)
      PROVE  SecretsTypeOK'
  <2>1. InLoad(l, "store") BY <1>7 DEF FetchFailed
  <2>2. Onward(loads[l], None) \in Load BY <2>1, InHand, OnwardIs
  <2>3. QED BY <1>7, <2>2 DEF FetchFailed, SecretsTypeOK
<1>8. ASSUME NEW l \in Loaders, FinishLoad(l)
      PROVE  SecretsTypeOK'
  <2>1. loads[l] \in Load BY <1>8 DEF FinishLoad, InLoad, SecretsTypeOK
  <2>2. LoadedBy(loads[l]) \in [Names -> Values \cup {None}]
    BY <2>1 DEF LoadedBy, Load, SecretsTypeOK
  <2>3. QED BY <1>8, <2>2 DEF FinishLoad, SecretsTypeOK
<1>9. ASSUME NEW n \in Names, InvalidateSecret(n)
      PROVE  SecretsTypeOK'
  BY <1>9 DEF InvalidateSecret, SecretsTypeOK
<1>10. ASSUME NEW n \in Names, Write(n)
       PROVE  SecretsTypeOK'
  <2>1. writes + 1 \in Values
    BY <1>10, SecretsAssumption DEF Write, SecretsTypeOK, Values
  <2>2. retired' \in [Values -> Nat \cup {None}]
    BY <1>10 DEF Write, Retired, SecretsTypeOK
  <2>3. QED BY <1>10, <2>1, <2>2, SecretsAssumption DEF Write, SecretsTypeOK, Values
<1>11. ASSUME NEW n \in Names, Remove(n)
       PROVE  SecretsTypeOK'
  BY <1>11 DEF Remove, Retired, SecretsTypeOK
<1>12. CASE Tick BY <1>12 DEF Tick, SecretsTypeOK
<1>13. CASE UNCHANGED secretVars BY <1>13 DEF secretVars, SecretsTypeOK
<1>14. QED
  BY <1>1, <1>2, <1>3, <1>4, <1>5, <1>6, <1>7, <1>8, <1>9, <1>10, <1>11, <1>12, <1>13
  DEF SecretsNext, LoadStep

-----------------------------------------------------------------------------
(* The backend                                                             *)

\* Values in the backend are what they were or new; one that leaves it is
\* retired now, and one retired stays so.
LEMMA BackendMoves ==
  ASSUME SecretsTypeOK, VaultWritten, [SecretsNext]_secretVars
  PROVE  /\ now <= now'
         /\ \A v \in Values : retired[v] # None => retired'[v] = retired[v]
         /\ \A v \in Values : retired'[v] # None =>
              retired'[v] = retired[v] \/ retired'[v] = now
         /\ \A n \in Names : vault[n] # None =>
              vault'[n] = vault[n] \/ retired'[vault[n]] = now
<1>1. now \in Nat /\ retired \in [Values -> Nat \cup {None}]
      /\ vault \in [Names -> Values \cup {None}]
  BY DEF SecretsTypeOK
<1>2. ASSUME NEW n \in Names, Write(n) \/ Remove(n)
      PROVE  /\ now' = now
             /\ retired' = Retired(n)
             /\ \A m \in Names : m # n => vault'[m] = vault[m]
  BY <1>1, <1>2 DEF Write, Remove
<1>3. ASSUME NEW n \in Names, retired' = Retired(n), now' = now,
             \A m \in Names : m # n => vault'[m] = vault[m]
      PROVE  /\ now <= now'
             /\ \A v \in Values : retired[v] # None => retired'[v] = retired[v]
             /\ \A v \in Values : retired'[v] # None =>
                  retired'[v] = retired[v] \/ retired'[v] = now
             /\ \A m \in Names : vault[m] # None =>
                  vault'[m] = vault[m] \/ retired'[vault[m]] = now
  <2>1. CASE vault[n] = None BY <1>1, <1>3, <2>1 DEF Retired
  <2>2. CASE vault[n] # None
    <3>1. vault[n] \in Values /\ retired[vault[n]] = None
      BY <1>1, <2>2 DEF VaultWritten
    <3>2. retired' = [retired EXCEPT ![vault[n]] = now] BY <1>3, <2>2 DEF Retired
    <3>3. \A v \in Values : retired'[v] = IF v = vault[n] THEN now ELSE retired[v]
      BY <1>1, <3>1, <3>2
    <3>4. QED BY <1>1, <1>3, <3>1, <3>3
  <2>3. QED BY <2>1, <2>2
<1>4. CASE UNCHANGED <<vault, retired>> /\ now <= now'
  BY <1>4
<1>5. Tick => UNCHANGED <<vault, retired>> /\ now <= now' BY <1>1 DEF Tick
<1>6. UNCHANGED <<vault, retired, now>> => UNCHANGED <<vault, retired>> /\ now <= now'
  BY <1>1
<1>7. (\E n \in Names : Write(n) \/ Remove(n)) \/ Tick \/ UNCHANGED <<vault, retired, now>>
  BY DEF SecretsNext, LoadStep, AskBackend, GetAnswered, GetFailed, BeginLoad, FetchNext,
         FetchAnswered, FetchFailed, FinishLoad, InvalidateSecret, secretVars
<1>8. QED BY <1>2, <1>3, <1>4, <1>5, <1>6, <1>7

\* Every step keeps the values written once and retired for good.
LEMMA VaultKept ==
  ASSUME SecretsTypeOK, VaultWritten, [SecretsNext]_secretVars
  PROVE  VaultWritten'
<1> USE DEF VaultWritten
<1>1. /\ now \in Nat /\ writes \in Nat /\ None \notin Nat
      /\ retired \in [Values -> Nat \cup {None}]
      /\ vault \in [Names -> Values \cup {None}]
      /\ Values \subseteq Nat
  BY SecretsAssumption DEF SecretsTypeOK, Values
<1>2. ASSUME NEW n \in Names, Write(n)
      PROVE  VaultWritten'
  <2>1. writes + 1 \in Values
    BY <1>2, SecretsAssumption DEF Write, SecretsTypeOK, Values
  <2>2. \A v \in Values : retired'[v] # None => retired'[v] = retired[v] \/ v = vault[n]
    BY <1>1, <1>2 DEF Write, Retired
  <2>3. retired'[writes + 1] = None
    BY <1>1, <2>1, <2>2
  <2>4. \A m \in Names : vault'[m] = IF m = n THEN writes + 1 ELSE vault[m]
    BY <1>1, <1>2 DEF Write
  <2>5. \A m \in Names : vault'[m] # None => vault'[m] <= writes + 1
    <3>1. \A m \in Names : vault[m] # None => vault[m] \in Nat /\ vault[m] <= writes
      BY <1>1
    <3>2. \A m \in Names : vault[m] # None => vault[m] <= writes + 1 BY <1>1, <3>1
    <3>3. writes + 1 <= writes + 1 BY <1>1
    <3>4. QED BY <2>4, <3>2, <3>3
  <2>6. \A m \in Names : vault'[m] # None => retired'[vault'[m]] = None
    BY <1>1, <2>2, <2>3, <2>4
  <2>7. \A m, k \in Names : vault'[m] # None /\ vault'[m] = vault'[k] => m = k
    BY <1>1, <2>4
  <2>8. \A v \in Values : retired'[v] # None => v <= writes + 1 /\ retired'[v] <= now
    BY <1>1, <1>2 DEF Write, Retired
  <2>9. QED BY <1>2, <2>5, <2>6, <2>7, <2>8 DEF Write
<1>3. ASSUME NEW n \in Names, Remove(n)
      PROVE  VaultWritten'
  <2>1. \A m \in Names : vault'[m] = IF m = n THEN None ELSE vault[m]
    BY <1>1, <1>3 DEF Remove
  <2>2. \A v \in Values : retired'[v] = IF v = vault[n] THEN now ELSE retired[v]
    BY <1>1, <1>3 DEF Remove, Retired
  <2>3. vault[n] \in Values /\ vault[n] <= writes BY <1>1, <1>3 DEF Remove
  <2>4. ASSUME NEW m \in Names, vault'[m] # None
        PROVE  vault'[m] <= writes /\ retired'[vault'[m]] = None
    <3>1. m # n /\ vault'[m] = vault[m] BY <2>1, <2>4
    <3>2. vault[m] \in Values /\ vault[m] # vault[n] BY <1>1, <2>3, <2>4, <3>1
    <3>3. vault[m] <= writes /\ retired[vault[m]] = None BY <2>4, <3>1
    <3>4. QED BY <2>2, <3>1, <3>2, <3>3
  <2>5. \A m, k \in Names : vault'[m] # None /\ vault'[m] = vault'[k] => m = k
    BY <2>1
  <2>6. \A v \in Values : retired'[v] # None => v <= writes /\ retired'[v] <= now
    BY <1>1, <2>2, <2>3
  <2>7. QED BY <1>3, <2>4, <2>5, <2>6 DEF Remove
<1>4. CASE Tick BY <1>1, <1>4 DEF Tick
<1>5. CASE UNCHANGED <<now, vault, writes, retired>> BY <1>5
<1>6. QED
  BY <1>2, <1>3, <1>4, <1>5
  DEF SecretsNext, LoadStep, AskBackend, GetAnswered, GetFailed, BeginLoad, FetchNext,
      FetchAnswered, FetchFailed, FinishLoad, InvalidateSecret, secretVars

\* What the backend has held since some time, it has held since then for good.
LEMMA SinceStays ==
  ASSUME SecretsTypeOK, VaultWritten, [SecretsNext]_secretVars,
         NEW n \in Names, NEW v \in Values, NEW at \in Nat, at <= now,
         CurrentSince(n, v, at)
  PROVE  vault'[n] = v \/ (retired'[v] # None /\ at <= retired'[v])
<1>1. CASE vault[n] = v
  <2>1. vault[n] # None /\ now # None
    BY <1>1, SecretsAssumption DEF SecretsTypeOK, Values
  <2>2. QED BY <1>1, <2>1, BackendMoves
<1>2. CASE retired[v] # None /\ at <= retired[v]
  BY <1>2, BackendMoves
<1>3. QED BY <1>1, <1>2 DEF CurrentSince

-----------------------------------------------------------------------------
(* Where answers, entries and loads come from                              *)

\* A step leaves a load as it is, ends it, begins it or takes it one step on.
LEMMA LoadSteps ==
  ASSUME SecretsTypeOK, [SecretsNext]_secretVars, NEW l \in Loaders
  PROVE  \/ loads'[l] = loads[l]
         \/ loads'[l] = None
         \/ \E reload \in BOOLEAN : BeginLoad(l, reload)
         \/ FetchNext(l) \/ FetchAnswered(l) \/ FetchFailed(l)
<1>1. ASSUME NEW k \in Loaders, NEW reload \in BOOLEAN, BeginLoad(k, reload), k # l
      PROVE  loads'[l] = loads[l]
  BY <1>1, BeginLoadIs DEF SecretsTypeOK
<1>2. ASSUME NEW k \in Loaders, LoadStep(k), k # l
      PROVE  loads'[l] = loads[l]
  BY <1>2, OneLoad DEF LoadStep, FetchNext, FetchAnswered, FetchFailed, FinishLoad
<1>3. FinishLoad(l) => loads'[l] = None
  BY DEF FinishLoad, SecretsTypeOK
<1>4. loads' = loads \/ (\E k \in Loaders : LoadStep(k))
        \/ (\E k \in Loaders, reload \in BOOLEAN : BeginLoad(k, reload))
  BY DEF SecretsNext, AskBackend, GetAnswered, GetFailed, InvalidateSecret, Write, Remove,
         Tick, secretVars
<1>5. QED BY <1>1, <1>2, <1>3, <1>4 DEF LoadStep

\* A step leaves an answer to a call as it is, delivers or loses it, or is the
\* call's question.
LEMMA GetSteps ==
  ASSUME SecretsTypeOK, [SecretsNext]_secretVars, NEW c \in Callers
  PROVE  \/ gets'[c] = gets[c]
         \/ gets'[c] = None
         \/ \E n \in Names : AskBackend(c, n)
<1>1. ASSUME NEW d \in Callers, NEW n \in Names, AskBackend(d, n), d # c
      PROVE  gets'[c] = gets[c]
  BY <1>1 DEF AskBackend, SecretsTypeOK
<1>2. ASSUME NEW d \in Callers, GetAnswered(d) \/ GetFailed(d)
      PROVE  gets'[c] = gets[c] \/ gets'[c] = None
  BY <1>2 DEF GetAnswered, GetFailed, SecretsTypeOK
<1>3. \/ gets' = gets
      \/ \E d \in Callers, n \in Names : AskBackend(d, n)
      \/ \E d \in Callers : GetAnswered(d) \/ GetFailed(d)
  BY DEF SecretsNext, LoadStep, BeginLoad, FetchNext, FetchAnswered, FetchFailed,
         FinishLoad, InvalidateSecret, Write, Remove, Tick, secretVars
<1>4. QED BY <1>1, <1>2, <1>3

\* The value of the entry that an answer in hand leaves for the secret n
Leaves(n, value) ==
  /\ now' = now /\ vault' = vault /\ retired' = retired
  /\ value # None
  /\ cache'[n].value = value
  /\ cache'[n].expires_at = now + CacheTTL

\* A new entry holds the answer to a call, or to a load that asked the backend.
LEMMA EntrySteps ==
  ASSUME SecretsTypeOK, LoadsInOrder, [SecretsNext]_secretVars,
         NEW n \in Names, cache'[n] # None
  PROVE  \/ cache'[n] = cache[n]
         \/ \E c \in Callers :
              gets[c] # None /\ gets[c].name = n /\ Leaves(n, gets[c].value)
         \/ \E l \in Loaders :
              /\ InLoad(l, "store") /\ loads[l].fresh
              /\ LoadOrder[loads[l].step] = n /\ Leaves(n, loads[l].value)
<1>1. ASSUME NEW c \in Callers, GetAnswered(c), cache'[n] # cache[n]
      PROVE  gets[c] # None /\ gets[c].name = n /\ Leaves(n, gets[c].value)
  <2>1. gets[c] \in Get BY <1>1 DEF GetAnswered, SecretsTypeOK
  <2>2. gets[c].name \in Names /\ gets[c].value \in Values \cup {None} BY <2>1 DEF Get
  <2>3. cache' = Stored(gets[c].name, gets[c].value) BY <1>1 DEF GetAnswered
  <2>4. gets[c].name = n /\ gets[c].value # None BY <1>1, <2>2, <2>3, StoredIs
  <2>5. cache'[n].value = gets[c].value /\ cache'[n].expires_at = now + CacheTTL
    BY <2>2, <2>3, <2>4, StoredIs
  <2>6. QED BY <1>1, <2>4, <2>5 DEF GetAnswered, Leaves
<1>2. ASSUME NEW l \in Loaders, FetchAnswered(l), cache'[n] # cache[n]
      PROVE  /\ InLoad(l, "store") /\ loads[l].fresh
             /\ LoadOrder[loads[l].step] = n /\ Leaves(n, loads[l].value)
  <2> PICK m : m = LoadOrder[loads[l].step] OBVIOUS
  <2>1. InLoad(l, "store") BY <1>2 DEF FetchAnswered
  <2>2. m \in Names /\ loads[l].value \in Values \cup {None}
    BY <2>1, InHand
  <2>3. loads[l].fresh /\ cache' = Stored(m, loads[l].value)
    BY <1>2 DEF FetchAnswered
  <2>4. m = n /\ loads[l].value # None BY <1>2, <2>2, <2>3, StoredIs
  <2>5. cache'[n].value = loads[l].value /\ cache'[n].expires_at = now + CacheTTL
    BY <2>2, <2>3, <2>4, StoredIs
  <2>6. QED BY <1>2, <2>1, <2>3, <2>4, <2>5 DEF FetchAnswered, Leaves
<1>3. ASSUME NEW l \in Loaders, NEW reload \in BOOLEAN, BeginLoad(l, reload)
      PROVE  cache'[n] = cache[n]
  <2>1. cache' = Entries(reload) BY <1>3, BeginLoadIs
  <2>2. CASE reload
    <3>1. cache'[n] = None BY <2>1, <2>2 DEF Entries, Cleared
    <3>2. QED BY <3>1
  <2>3. CASE ~reload BY <2>1, <2>3 DEF Entries
  <2>4. QED BY <2>2, <2>3
<1>4. ASSUME NEW m \in Names, InvalidateSecret(m)
      PROVE  cache'[n] = cache[n]
  BY <1>4 DEF InvalidateSecret, SecretsTypeOK
<1>5. \/ cache' = cache
      \/ \E c \in Callers : GetAnswered(c)
      \/ \E l \in Loaders : FetchAnswered(l)
      \/ \E l \in Loaders, reload \in BOOLEAN : BeginLoad(l, reload)
      \/ \E m \in Names : InvalidateSecret(m)
  BY DEF SecretsNext, LoadStep, AskBackend, GetFailed, FetchNext, FetchFailed, FinishLoad,
         Write, Remove, Tick, secretVars
<1>6. QED BY <1>1, <1>2, <1>3, <1>4, <1>5

\* What a load gets in hand was in the cache or in the backend.
LEMMA FetchSources ==
  ASSUME SecretsTypeOK, NEW load \in Load, load.step \in 1 .. Len(LoadOrder),
         NEW entries \in [Names -> CacheEntry \cup {None}]
  PROVE  \E n \in Names : \/ Fetching(load, entries).value = vault[n]
                          \/ /\ entries[n] # None
                             /\ Fetching(load, entries).value = entries[n].value
<1> PICK r : r = Fetching(load, entries) OBVIOUS
<1>1. LoadOrder[load.step] \in Names BY NameAt
<1>2. \/ r.value = vault[LoadOrder[load.step]]
      \/ /\ entries[LoadOrder[load.step]] # None
         /\ r.value = entries[LoadOrder[load.step]].value
  BY FetchingIs
<1>3. QED BY <1>1, <1>2

-----------------------------------------------------------------------------
(* Ages                                                                    *)

\* Time passes only while no answer is due.
LEMMA TimePasses ==
  ASSUME SecretsTypeOK, [SecretsNext]_secretVars
  PROVE  \/ now' = now
         \/ /\ Tick /\ now' = now + 1
            /\ \A c \in Callers : gets[c] # None => now < gets[c].at + MaxFlight
            /\ \A l \in Loaders : InLoad(l, "store") => now < loads[l].at + MaxFlight
BY DEF SecretsNext, LoadStep, AskBackend, GetAnswered, GetFailed, BeginLoad, FetchNext,
       FetchAnswered, FetchFailed, FinishLoad, InvalidateSecret, Write, Remove, Tick,
       secretVars

\* An answer that was young and right stays so, unless it is due.
LEMMA AnswerStays ==
  ASSUME SecretsTypeOK, VaultWritten, [SecretsNext]_secretVars, NEW at \in Nat,
         at <= now, now <= at + MaxFlight, now' = now \/ now < at + MaxFlight
  PROVE  at <= now' /\ now' <= at + MaxFlight
<1>1. now \in Nat /\ MaxFlight \in Nat BY SecretsAssumption DEF SecretsTypeOK
<1>2. now' = now \/ now' = now + 1 BY TimePasses
<1>3. CASE now' = now BY <1>3
<1>4. CASE now' = now + 1 BY <1>1, <1>4
<1>5. QED BY <1>2, <1>3, <1>4

\* The answers to calls stay dated.
LEMMA GetsKept ==
  ASSUME SecretsTypeOK, VaultWritten, AnswersDated, [SecretsNext]_secretVars,
         NEW c \in Callers, gets'[c] # None
  PROVE  /\ gets'[c].at <= now' /\ now' <= gets'[c].at + MaxFlight
         /\ gets'[c].value # None =>
              CurrentSince(gets[c].name, gets[c].value, gets[c].at)'
<1>1. CASE gets'[c] = gets[c]
  <2> PICK g : g = gets[c] OBVIOUS
  <2>1. g \in Get /\ g # None BY <1>1 DEF SecretsTypeOK
  <2>2. g.at \in Nat /\ g.name \in Names /\ g.value \in Values \cup {None}
    BY <2>1 DEF Get
  <2>3. g.at <= now /\ now <= g.at + MaxFlight
        /\ (g.value # None => CurrentSince(g.name, g.value, g.at))
    BY <2>1 DEF AnswersDated
  <2>4. now' = now \/ now < g.at + MaxFlight BY <2>1, TimePasses
  <2>5. g.at <= now' /\ now' <= g.at + MaxFlight BY <2>2, <2>3, <2>4, AnswerStays
  <2>6. g.value # None =>
          vault'[g.name] = g.value \/ (retired'[g.value] # None /\ g.at <= retired'[g.value])
    BY <2>2, <2>3, SinceStays
  <2>7. QED BY <1>1, <2>5, <2>6 DEF CurrentSince
<1>2. ASSUME NEW n \in Names, AskBackend(c, n)
      PROVE  /\ gets'[c].at <= now' /\ now' <= gets'[c].at + MaxFlight
             /\ CurrentSince(gets[c].name, gets[c].value, gets[c].at)'
  <2>1. gets'[c] = [name |-> n, value |-> vault[n], at |-> now]
    BY <1>2 DEF AskBackend, SecretsTypeOK
  <2>2. now' = now /\ vault' = vault BY <1>2 DEF AskBackend
  <2>3. now <= now /\ now <= now + MaxFlight
    BY SecretsAssumption DEF SecretsTypeOK
  <2>4. QED BY <2>1, <2>2, <2>3 DEF CurrentSince
<1>3. QED BY <1>1, <1>2, GetSteps

\* What a load has in hand stays dated.
LEMMA LoadsKept ==
  ASSUME SecretsTypeOK, VaultWritten, LoadsInOrder, AnswersDated,
         [SecretsNext]_secretVars, NEW l \in Loaders, InLoad(l, "store")'
  PROVE  /\ loads'[l].at <= now' /\ now' <= loads'[l].at + MaxFlight
         /\ loads'[l].fresh /\ loads'[l].value # None =>
              CurrentSince(LoadOrder[loads[l].step], loads[l].value, loads[l].at)'
<1>1. CASE loads'[l] = loads[l]
  <2> PICK load : load = loads[l] OBVIOUS
  <2>1. InLoad(l, "store") BY <1>1 DEF InLoad
  <2> PICK n : n = LoadOrder[load.step] OBVIOUS
  <2>2. load.at \in Nat /\ n \in Names /\ load.value \in Values \cup {None}
    BY <2>1, InHand DEF Load
  <2>3. load.at <= now /\ now <= load.at + MaxFlight
        /\ (load.fresh /\ load.value # None => CurrentSince(n, load.value, load.at))
    BY <2>1 DEF AnswersDated
  <2>4. now' = now \/ now < load.at + MaxFlight BY <2>1, TimePasses
  <2>5. load.at <= now' /\ now' <= load.at + MaxFlight BY <2>2, <2>3, <2>4, AnswerStays
  <2>6. load.fresh /\ load.value # None =>
          \/ vault'[n] = load.value
          \/ (retired'[load.value] # None /\ load.at <= retired'[load.value])
    BY <2>2, <2>3, SinceStays
  <2>7. QED BY <1>1, <2>5, <2>6 DEF CurrentSince
<1>2. ASSUME NEW load \in Load, load.step \in 1 .. Len(LoadOrder),
             NEW entries \in [Names -> CacheEntry \cup {None}],
             loads' = [loads EXCEPT ![l] = Fetching(load, entries)],
             now' = now, vault' = vault
      PROVE  /\ loads'[l].at <= now' /\ now' <= loads'[l].at + MaxFlight
             /\ loads'[l].fresh /\ loads'[l].value # None =>
                  CurrentSince(LoadOrder[loads[l].step], loads[l].value, loads[l].at)'
  <2> PICK r : r = Fetching(load, entries) OBVIOUS
  <2>1. loads'[l] = r BY <1>2, OneLoad
  <2>2. r.at = now /\ r.step = load.step /\ (r.fresh => r.value = vault[LoadOrder[r.step]])
    BY <1>2, FetchingIs
  <2>3. now <= now /\ now <= now + MaxFlight
    BY SecretsAssumption DEF SecretsTypeOK
  <2>4. QED BY <1>2, <2>1, <2>2, <2>3 DEF CurrentSince
<1>3. ASSUME NEW reload \in BOOLEAN, BeginLoad(l, reload)
      PROVE  /\ loads'[l].at <= now' /\ now' <= loads'[l].at + MaxFlight
             /\ loads'[l].fresh /\ loads'[l].value # None =>
                  CurrentSince(LoadOrder[loads[l].step], loads[l].value, loads[l].at)'
  BY <1>2, <1>3, BeginLoadIs, BegunIs
<1>4. ASSUME FetchNext(l)
      PROVE  /\ loads'[l].at <= now' /\ now' <= loads'[l].at + MaxFlight
             /\ loads'[l].fresh /\ loads'[l].value # None =>
                  CurrentSince(LoadOrder[loads[l].step], loads[l].value, loads[l].at)'
  <2>1. loads[l] \in Load /\ loads[l].step \in 1 .. Len(LoadOrder)
    BY <1>4, LoadInOrder DEF FetchNext, InLoad
  <2>2. cache \in [Names -> CacheEntry \cup {None}] BY DEF SecretsTypeOK
  <2>3. loads' = [loads EXCEPT ![l] = Fetching(loads[l], cache)] /\ now' = now /\ vault' = vault
    BY <1>4 DEF FetchNext
  <2>4. QED BY <1>2, <2>1, <2>2, <2>3
<1>5. ASSUME FetchAnswered(l) \/ FetchFailed(l)
      PROVE  FALSE
  <2>1. InLoad(l, "store") BY <1>5 DEF FetchAnswered, FetchFailed
  <2>2. PICK value \in Values \cup {None} : loads' = [loads EXCEPT ![l] = Onward(loads[l], value)]
    BY <1>5, <2>1, InHand DEF FetchAnswered, FetchFailed
  <2>3. loads'[l] = Onward(loads[l], value) BY <2>2, OneLoad
  <2>4. loads'[l].pc = IF loads[l].step = Len(LoadOrder) THEN "finish" ELSE "fetch"
    BY <2>1, <2>3, InHand, OnwardIs
  <2>5. QED BY <2>4 DEF InLoad
<1>6. QED BY <1>1, <1>3, <1>4, <1>5, LoadSteps DEF InLoad

\* Answers on their way stay dated.
LEMMA AnswersKept ==
  ASSUME SecretsTypeOK, VaultWritten, LoadsInOrder, AnswersDated, [SecretsNext]_secretVars
  PROVE  AnswersDated'
<1>1. \A c \in Callers : gets'[c] # None =>
        /\ gets'[c].at <= now' /\ now' <= gets'[c].at + MaxFlight
        /\ gets'[c].value # None =>
             CurrentSince(gets[c].name, gets[c].value, gets[c].at)'
  BY GetsKept
<1>2. \A l \in Loaders : InLoad(l, "store")' =>
        /\ loads'[l].at <= now' /\ now' <= loads'[l].at + MaxFlight
        /\ loads'[l].fresh /\ loads'[l].value # None =>
             CurrentSince(LoadOrder[loads[l].step], loads[l].value, loads[l].at)'
  BY LoadsKept
<1>3. QED BY <1>1, <1>2 DEF AnswersDated

\* A new entry ends no later than MaxFlight and CacheTTL after its value was
\* replaced, as the answer took no longer than MaxFlight.
LEMMA NewEntryDated ==
  ASSUME SecretsTypeOK, NEW n \in Names, NEW value \in Values, NEW at \in Nat,
         now <= at + MaxFlight, CurrentSince(n, value, at), Leaves(n, value)
  PROVE  LET end == cache'[n].expires_at IN
         /\ end <= now' + CacheTTL
         /\ \/ vault'[n] = value
            \/ retired'[value] # None /\ end <= retired'[value] + CacheTTL + MaxFlight
<1>1. now \in Nat /\ MaxFlight \in Nat /\ CacheTTL \in Nat
  BY SecretsAssumption DEF SecretsTypeOK
<1>2. now' = now /\ vault' = vault /\ retired' = retired /\ cache'[n].expires_at = now + CacheTTL
  BY DEF Leaves
<1>3. retired[value] # None => retired[value] \in Nat BY DEF SecretsTypeOK
<1>4. CASE vault[n] = value BY <1>1, <1>2, <1>4
<1>5. CASE retired[value] # None /\ at <= retired[value]
  BY <1>1, <1>2, <1>3, <1>5
<1>6. QED BY <1>4, <1>5 DEF CurrentSince

\* Entries stay dated.
LEMMA EntriesKept ==
  ASSUME SecretsTypeOK, VaultWritten, LoadsInOrder, AnswersDated, EntriesDated,
         [SecretsNext]_secretVars
  PROVE  EntriesDated'
<1> SUFFICES ASSUME NEW n \in Names, cache'[n] # None
             PROVE  LET v == cache'[n].value  end == cache'[n].expires_at IN
                    /\ end <= now' + CacheTTL
                    /\ \/ vault'[n] = v
                       \/ retired'[v] # None /\ end <= retired'[v] + CacheTTL + MaxFlight
  BY DEF EntriesDated
<1>1. now \in Nat /\ MaxFlight \in Nat /\ CacheTTL \in Nat /\ now <= now' /\ now' \in Nat
  BY SecretsAssumption, BackendMoves, TimePasses DEF SecretsTypeOK
<1>2. CASE cache'[n] = cache[n]
  <2> PICK v : v = cache[n].value OBVIOUS
  <2> PICK end : end = cache[n].expires_at OBVIOUS
  <2>1. cache[n] \in CacheEntry BY <1>2 DEF SecretsTypeOK
  <2>2. v \in Values /\ end \in Nat BY <2>1 DEF CacheEntry
  <2>3. end <= now + CacheTTL
        /\ (vault[n] = v \/ (retired[v] # None /\ end <= retired[v] + CacheTTL + MaxFlight))
    BY <1>2 DEF EntriesDated
  <2>4. end <= now' + CacheTTL BY <1>1, <2>2, <2>3
  <2>5. CASE vault[n] = v
    <3>1. v # None BY <2>2, SecretsAssumption DEF Values
    <3>2. vault'[n] = v \/ retired'[v] = now BY <2>5, <3>1, BackendMoves
    <3>3. now # None /\ end <= now + CacheTTL + MaxFlight
      BY <1>1, <2>2, <2>3, SecretsAssumption
    <3>4. QED BY <1>2, <2>4, <3>2, <3>3
  <2>6. CASE retired[v] # None /\ end <= retired[v] + CacheTTL + MaxFlight
    BY <1>2, <2>2, <2>4, <2>6, BackendMoves
  <2>7. QED BY <2>3, <2>5, <2>6
<1>3. ASSUME NEW c \in Callers, gets[c] # None, gets[c].name = n, Leaves(n, gets[c].value)
      PROVE  LET v == cache'[n].value  end == cache'[n].expires_at IN
             /\ end <= now' + CacheTTL
             /\ \/ vault'[n] = v
                \/ retired'[v] # None /\ end <= retired'[v] + CacheTTL + MaxFlight
  <2> PICK g : g = gets[c] OBVIOUS
  <2>1. g \in Get BY <1>3 DEF SecretsTypeOK
  <2>2. g.value # None /\ cache'[n].value = g.value BY <1>3 DEF Leaves
  <2>3. g.value \in Values /\ g.at \in Nat BY <2>1, <2>2 DEF Get
  <2>4. now <= g.at + MaxFlight /\ CurrentSince(n, g.value, g.at)
    BY <1>3, <2>2 DEF AnswersDated
  <2>5. QED BY <1>3, <2>2, <2>3, <2>4, NewEntryDated
<1>4. ASSUME NEW l \in Loaders, InLoad(l, "store"), loads[l].fresh,
             LoadOrder[loads[l].step] = n, Leaves(n, loads[l].value)
      PROVE  LET v == cache'[n].value  end == cache'[n].expires_at IN
             /\ end <= now' + CacheTTL
             /\ \/ vault'[n] = v
                \/ retired'[v] # None /\ end <= retired'[v] + CacheTTL + MaxFlight
  <2> PICK load : load = loads[l] OBVIOUS
  <2>1. load \in Load BY <1>4, InHand
  <2>2. load.value # None /\ cache'[n].value = load.value BY <1>4 DEF Leaves
  <2>3. load.value \in Values /\ load.at \in Nat BY <2>1, <2>2 DEF Load
  <2>4. now <= load.at + MaxFlight /\ CurrentSince(n, load.value, load.at)
    BY <1>4, <2>2 DEF AnswersDated
  <2>5. QED BY <1>4, <2>2, <2>3, <2>4, NewEntryDated
<1>5. QED BY <1>2, <1>3, <1>4, EntrySteps

-----------------------------------------------------------------------------
(* Loads                                                                   *)

\* A load at its place in LoadOrder, with what it must have got by then
InOrder(load) ==
  /\ load.step \in 1 .. Len(LoadOrder) + 1
  /\ load.step > Len(LoadOrder) <=> load.pc = "finish"
  /\ ~load.failed => \A i \in 1 .. Len(LoadOrder) :
       i < load.step /\ LoadOrder[i] \in Required => load.got[LoadOrder[i]] # None

\* A fetch does not move the load.
LEMMA FetchingInOrder ==
  ASSUME SecretsTypeOK, NEW load \in Load, load.step \in 1 .. Len(LoadOrder),
         NEW entries \in [Names -> CacheEntry \cup {None}],
         ~load.failed => \A i \in 1 .. Len(LoadOrder) :
           i < load.step /\ LoadOrder[i] \in Required => load.got[LoadOrder[i]] # None
  PROVE  InOrder(Fetching(load, entries))
<1> PICK r : r = Fetching(load, entries) OBVIOUS
<1>1. r.pc = "store" /\ r.step = load.step /\ r.got = load.got /\ r.failed = load.failed
  BY FetchingIs
<1>2. load.step \in 1 .. Len(LoadOrder) + 1 /\ ~(load.step > Len(LoadOrder))
  BY OrderLength
<1>3. QED BY <1>1, <1>2 DEF InOrder

\* A load that takes what its step brought is one step on, and has failed if
\* that was to be something.
LEMMA OnwardInOrder ==
  ASSUME NEW load \in Load, InOrder(load), load.step \in 1 .. Len(LoadOrder),
         NEW value \in Values \cup {None}
  PROVE  InOrder(Onward(load, value))
<1> PICK r : r = Onward(load, value) OBVIOUS
<1> PICK n : n = LoadOrder[load.step] OBVIOUS
<1>1. /\ r.pc = IF load.step = Len(LoadOrder) THEN "finish" ELSE "fetch"
      /\ r.step = load.step + 1
      /\ r.got[n] = value /\ \A m \in Names : m # n => r.got[m] = load.got[m]
      /\ ~r.failed => ~load.failed /\ (n \in Required => value # None)
  BY OnwardIs
<1>2. r.step \in 1 .. Len(LoadOrder) + 1 /\ (r.step > Len(LoadOrder) <=> r.pc = "finish")
  <2>1. load.step \in Nat /\ load.step <= Len(LoadOrder) BY OrderLength
  <2>2. load.step = Len(LoadOrder) <=> r.pc = "finish" BY <1>1
  <2>3. QED BY <1>1, <2>1, <2>2, OrderLength
<1>3. ASSUME ~r.failed, NEW i \in 1 .. Len(LoadOrder), i < r.step, LoadOrder[i] \in Required
      PROVE  r.got[LoadOrder[i]] # None
  <2>1. LoadOrder[i] \in Names BY NameAt
  <2>2. CASE LoadOrder[i] = n BY <1>1, <1>3, <2>2
  <2>3. CASE LoadOrder[i] # n
    <3>1. i < load.step BY <1>1, <1>3, <2>3, OrderLength
    <3>2. load.got[LoadOrder[i]] # None BY <1>1, <1>3, <3>1 DEF InOrder
    <3>3. QED BY <1>1, <2>1, <2>3, <3>2
  <2>4. QED BY <2>2, <2>3
<1>4. QED BY <1>2, <1>3 DEF InOrder

\* Every step keeps the loads in order.
LEMMA OrderKept ==
  ASSUME SecretsTypeOK, LoadsInOrder, [SecretsNext]_secretVars
  PROVE  LoadsInOrder'
<1> SUFFICES ASSUME NEW l \in Loaders, loads'[l] # None
             PROVE  InOrder(loads'[l])
  BY DEF LoadsInOrder, InOrder
<1>1. CASE loads'[l] = loads[l] BY <1>1 DEF LoadsInOrder, InOrder
<1>2. ASSUME NEW reload \in BOOLEAN, BeginLoad(l, reload)
      PROVE  InOrder(loads'[l])
  <2> PICK load : load = Begun(reload) OBVIOUS
  <2>1. load \in Load /\ load.step = 1 /\ load.step \in 1 .. Len(LoadOrder)
        /\ Entries(reload) \in [Names -> CacheEntry \cup {None}]
    BY BegunIs
  <2>2. ~load.failed => \A i \in 1 .. Len(LoadOrder) :
          i < load.step /\ LoadOrder[i] \in Required => load.got[LoadOrder[i]] # None
    BY <2>1, OrderLength
  <2>3. InOrder(Fetching(load, Entries(reload))) BY <2>1, <2>2, FetchingInOrder
  <2>4. loads' = [loads EXCEPT ![l] = Fetching(load, Entries(reload))]
    BY <1>2, BeginLoadIs
  <2>5. QED BY <2>3, <2>4, OneLoad
<1>3. ASSUME FetchNext(l)
      PROVE  InOrder(loads'[l])
  <2> PICK load : load = loads[l] OBVIOUS
  <2>1. load \in Load /\ load.step \in 1 .. Len(LoadOrder) /\ load # None
    BY <1>3, LoadInOrder DEF FetchNext, InLoad
  <2>2. cache \in [Names -> CacheEntry \cup {None}] BY DEF SecretsTypeOK
  <2>3. ~load.failed => \A i \in 1 .. Len(LoadOrder) :
          i < load.step /\ LoadOrder[i] \in Required => load.got[LoadOrder[i]] # None
    BY <2>1 DEF LoadsInOrder
  <2>4. InOrder(Fetching(load, cache)) BY <2>1, <2>2, <2>3, FetchingInOrder
  <2>5. loads' = [loads EXCEPT ![l] = Fetching(load, cache)] BY <1>3 DEF FetchNext
  <2>6. QED BY <2>4, <2>5, OneLoad
<1>4. ASSUME FetchAnswered(l) \/ FetchFailed(l)
      PROVE  InOrder(loads'[l])
  <2>1. InLoad(l, "store") BY <1>4 DEF FetchAnswered, FetchFailed
  <2>2. PICK value \in Values \cup {None} : loads' = [loads EXCEPT ![l] = Onward(loads[l], value)]
    BY <1>4, <2>1, InHand DEF FetchAnswered, FetchFailed
  <2>3. loads[l] \in Load /\ loads[l].step \in 1 .. Len(LoadOrder)
    BY <2>1, InHand
  <2>4. InOrder(loads[l]) BY <2>1 DEF InLoad, LoadsInOrder, InOrder
  <2>5. InOrder(Onward(loads[l], value)) BY <2>3, <2>4, OnwardInOrder
  <2>6. QED BY <2>2, <2>5, OneLoad
<1>5. QED BY <1>1, <1>2, <1>3, <1>4, LoadSteps

\* loadedSecrets is taken over from a load that has every required secret.
LEMMA CompleteKept ==
  ASSUME SecretsTypeOK, LoadsInOrder, NeverIncomplete, [SecretsNext]_secretVars
  PROVE  NeverIncomplete'
<1>1. ASSUME NEW l \in Loaders, FinishLoad(l)
      PROVE  NeverIncomplete'
  <2> PICK load : load = loads[l] OBVIOUS
  <2>1. load \in Load /\ load # None /\ load.pc = "finish"
    BY <1>1, LoadInOrder DEF FinishLoad, InLoad
  <2>2. load.step > Len(LoadOrder) /\ load.step \in Nat
    BY <2>1 DEF LoadsInOrder, Load
  <2>3. CASE load.failed BY <1>1, <2>3 DEF FinishLoad, LoadedBy, NeverIncomplete
  <2>4. CASE ~load.failed
    <3>1. loaded' = load.got BY <1>1, <2>4 DEF FinishLoad, LoadedBy
    <3>2. ASSUME NEW n \in Required PROVE load.got[n] # None
      <4>1. PICK i \in 1 .. Len(LoadOrder) : LoadOrder[i] = n BY SecretsAssumption
      <4>2. i < load.step BY <2>2, OrderLength
      <4>3. QED BY <2>1, <2>4, <4>1, <4>2 DEF LoadsInOrder
    <3>3. QED BY <3>1, <3>2 DEF NeverIncomplete
  <2>5. QED BY <2>3, <2>4
<1>2. CASE loaded' = loaded BY <1>2 DEF NeverIncomplete
<1>3. QED
  BY <1>1, <1>2
  DEF SecretsNext, LoadStep, AskBackend, GetAnswered, GetFailed, BeginLoad, FetchNext,
      FetchAnswered, FetchFailed, InvalidateSecret, Write, Remove, Tick, secretVars

-----------------------------------------------------------------------------
(* Reloads                                                                 *)

\* Nothing outside the backend holds the value v, which is retired.
Gone(v) ==
  /\ retired[v] # None
  /\ \A n \in Names : cache[n] # None => cache[n].value # v
  /\ \A c \in Callers : gets[c] # None => gets[c].value # v
  /\ \A k \in Loaders : loads[k] # None => loads[k].value # v

\* A retired value is not in the backend.
LEMMA RetiredGone ==
  ASSUME SecretsTypeOK, VaultWritten, NEW v \in Values, retired[v] # None, NEW n \in Names
  PROVE  vault[n] # v
BY SecretsAssumption DEF VaultWritten, Values

\* Once a value is gone, it is gone for good.
LEMMA GoneForGood ==
  ASSUME SecretsTypeOK, VaultWritten, LoadsInOrder, [SecretsNext]_secretVars,
         NEW v \in Values, Gone(v)
  PROVE  Gone(v)'
<1>1. retired'[v] # None BY BackendMoves DEF Gone
<1>2. ASSUME NEW n \in Names, cache'[n] # None PROVE cache'[n].value # v
  <2>1. ASSUME NEW l \in Loaders, InLoad(l, "store"), Leaves(n, loads[l].value)
        PROVE  cache'[n].value # v
    BY <2>1 DEF Gone, Leaves, InLoad
  <2>2. ASSUME NEW c \in Callers, gets[c] # None, Leaves(n, gets[c].value)
        PROVE  cache'[n].value # v
    BY <2>2 DEF Gone, Leaves
  <2>3. CASE cache'[n] = cache[n] BY <1>2, <2>3 DEF Gone
  <2>4. QED BY <1>2, <2>1, <2>2, <2>3, EntrySteps
<1>3. ASSUME NEW c \in Callers, gets'[c] # None PROVE gets'[c].value # v
  <2>1. ASSUME NEW n \in Names, AskBackend(c, n) PROVE gets'[c].value # v
    <3>1. gets'[c] = [name |-> n, value |-> vault[n], at |-> now]
      BY <2>1 DEF AskBackend, SecretsTypeOK
    <3>2. QED BY <3>1, RetiredGone DEF Gone
  <2>2. CASE gets'[c] = gets[c] BY <1>3, <2>2 DEF Gone
  <2>3. QED BY <1>3, <2>1, <2>2, GetSteps
<1>4. ASSUME NEW load \in Load, load.step \in 1 .. Len(LoadOrder),
             NEW entries \in [Names -> CacheEntry \cup {None}],
             entries = cache \/ \A n \in Names : entries[n] = None
      PROVE  Fetching(load, entries).value # v
  <2>1. PICK n \in Names : \/ Fetching(load, entries).value = vault[n]
                           \/ /\ entries[n] # None
                              /\ Fetching(load, entries).value = entries[n].value
    BY <1>4, FetchSources
  <2>2. vault[n] # v BY RetiredGone DEF Gone
  <2>3. entries[n] # None => entries[n].value # v BY <1>4 DEF Gone
  <2>4. QED BY <2>1, <2>2, <2>3
<1>5. ASSUME NEW k \in Loaders, loads'[k] # None PROVE loads'[k].value # v
  <2>1. CASE loads'[k] = loads[k] BY <1>5, <2>1 DEF Gone
  <2>2. ASSUME NEW reload \in BOOLEAN, BeginLoad(k, reload) PROVE loads'[k].value # v
    <3>1. Entries(reload) = cache \/ \A n \in Names : Entries(reload)[n] = None
      BY DEF Entries, Cleared
    <3>2. Fetching(Begun(reload), Entries(reload)).value # v BY <1>4, <3>1, BegunIs
    <3>3. loads'[k] = Fetching(Begun(reload), Entries(reload)) BY <2>2, BeginLoadIs, OneLoad
    <3>4. QED BY <3>2, <3>3
  <2>3. ASSUME FetchNext(k) PROVE loads'[k].value # v
    <3>1. loads[k] \in Load /\ loads[k].step \in 1 .. Len(LoadOrder)
      BY <2>3, LoadInOrder DEF FetchNext, InLoad
    <3>2. Fetching(loads[k], cache).value # v BY <1>4, <3>1 DEF SecretsTypeOK
    <3>3. loads'[k] = Fetching(loads[k], cache) BY <2>3, OneLoad DEF FetchNext
    <3>4. QED BY <3>2, <3>3
  <2>4. ASSUME FetchAnswered(k) \/ FetchFailed(k) PROVE loads'[k].value # v
    <3>1. InLoad(k, "store") BY <2>4 DEF FetchAnswered, FetchFailed
    <3>2. PICK value \in Values \cup {None} :
            loads' = [loads EXCEPT ![k] = Onward(loads[k], value)]
      BY <2>4, <3>1, InHand DEF FetchAnswered, FetchFailed
    <3>3. Onward(loads[k], value).value = loads[k].value BY <3>1, InHand, OnwardIs
    <3>4. loads'[k] = Onward(loads[k], value) BY <3>2, OneLoad
    <3>5. loads[k].value # v BY <3>1 DEF InLoad, Gone
    <3>6. QED BY <3>3, <3>4, <3>5
  <2>5. QED BY <1>5, <2>1, <2>2, <2>3, <2>4, LoadSteps
<1>6. QED BY <1>1, <1>2, <1>3, <1>5 DEF Gone

\* A reload that begins alone begins with everything replaced before it gone.
LEMMA BeginsClean ==
  ASSUME SecretsTypeOK, VaultWritten, NEW l \in Loaders, BeginLoad(l, TRUE),
         loads'[l].alone, NEW v \in loads'[l].stale
  PROVE  v \in Values /\ Gone(v)' /\ \A n \in Names : loads'[l].got[n] # v
<1> PICK begun : begun = Begun(TRUE) OBVIOUS
<1> PICK r : r = Fetching(begun, Entries(TRUE)) OBVIOUS
<1>1. /\ begun \in Load /\ begun.step \in 1 .. Len(LoadOrder)
      /\ Entries(TRUE) \in [Names -> CacheEntry \cup {None}]
  BY BegunIs
<1>2. \A n \in Names : Entries(TRUE)[n] = None BY DEF Entries, Cleared
<1>3. loads' = [loads EXCEPT ![l] = r] /\ cache' = Entries(TRUE) /\ UNCHANGED <<retired, gets>>
  BY BeginLoadIs
<1>4. loads'[l] = r /\ \A k \in Loaders : k # l => loads'[k] = loads[k]
  BY <1>3, OneLoad
<1>5. r.alone = begun.alone /\ r.stale = begun.stale /\ r.got = begun.got
  BY <1>1, FetchingIs
<1>6. (\A c \in Callers : gets[c] = None) /\ (\A k \in Loaders : loads[k] = None)
  BY <1>4, <1>5, BegunIs
<1>7. v \in Values /\ retired[v] # None
  <2>1. v \in begun.stale BY <1>4, <1>5
  <2>2. QED BY <2>1, BegunIs
<1>8. r.value # v
  <2>1. PICK n \in Names : r.value = vault[n] \/ Entries(TRUE)[n] # None
    BY <1>1, FetchSources
  <2>2. QED BY <1>2, <1>7, <2>1, RetiredGone
<1>9. \A n \in Names : r.got[n] # v
  <2>1. \A n \in Names : begun.got[n] = None BY BegunIs
  <2>2. v # None BY <1>7, SecretsAssumption DEF Values
  <2>3. QED BY <1>5, <2>1, <2>2
<1>10. Gone(v)'
  BY <1>2, <1>3, <1>4, <1>6, <1>7, <1>8 DEF Gone
<1>11. QED BY <1>4, <1>7, <1>9, <1>10

\* Every step keeps the reloads clean.
LEMMA CleanKept ==
  ASSUME SecretsTypeOK, VaultWritten, LoadsInOrder, ReloadsClean, [SecretsNext]_secretVars
  PROVE  ReloadsClean'
<1> SUFFICES ASSUME NEW l \in Loaders, loads'[l] # None, loads'[l].reload, loads'[l].alone,
                    NEW v \in loads'[l].stale
             PROVE  Gone(v)' /\ \A n \in Names : loads'[l].got[n] # v
  BY DEF ReloadsClean, Gone
<1>1. ASSUME loads[l] # None, loads[l].reload, loads[l].alone, v \in loads[l].stale
      PROVE  v \in Values /\ Gone(v)' /\ \A n \in Names : loads[l].got[n] # v
  <2>1. v \in Values BY <1>1 DEF SecretsTypeOK, Load
  <2>2. Gone(v) /\ \A n \in Names : loads[l].got[n] # v
    BY <1>1 DEF ReloadsClean, Gone
  <2>3. QED BY <2>1, <2>2, GoneForGood
<1>2. CASE loads'[l] = loads[l] BY <1>1, <1>2
<1>3. ASSUME NEW reload \in BOOLEAN, BeginLoad(l, reload)
      PROVE  Gone(v)' /\ \A n \in Names : loads'[l].got[n] # v
  <2> PICK begun : begun = Begun(reload) OBVIOUS
  <2>1. loads'[l] = Fetching(begun, Entries(reload)) BY <1>3, BeginLoadIs, OneLoad
  <2>2. loads'[l].reload = reload
    <3>1. /\ begun \in Load /\ begun.step \in 1 .. Len(LoadOrder) /\ begun.reload = reload
          /\ Entries(reload) \in [Names -> CacheEntry \cup {None}]
      BY BegunIs
    <3>2. Fetching(begun, Entries(reload)).reload = begun.reload BY <3>1, FetchingIs
    <3>3. QED BY <2>1, <3>1, <3>2
  <2>3. reload = TRUE BY <2>2
  <2>4. QED BY <1>3, <2>3, BeginsClean
<1>4. ASSUME FetchNext(l)
      PROVE  Gone(v)' /\ \A n \in Names : loads'[l].got[n] # v
  <2>1. loads[l] \in Load /\ loads[l].step \in 1 .. Len(LoadOrder) /\ loads[l] # None
    BY <1>4, LoadInOrder DEF FetchNext, InLoad
  <2>2. loads'[l] = Fetching(loads[l], cache) BY <1>4, OneLoad DEF FetchNext
  <2>3. /\ loads'[l].got = loads[l].got /\ loads'[l].reload = loads[l].reload
        /\ loads'[l].alone = loads[l].alone /\ loads'[l].stale = loads[l].stale
    <3> PICK load : load = loads[l] OBVIOUS
    <3> PICK r : r = Fetching(load, cache) OBVIOUS
    <3>1. cache \in [Names -> CacheEntry \cup {None}] BY DEF SecretsTypeOK
    <3>2. /\ r.got = load.got /\ r.reload = load.reload
          /\ r.alone = load.alone /\ r.stale = load.stale
      BY <2>1, <3>1, FetchingIs
    <3>3. QED BY <2>2, <3>2
  <2>4. QED BY <1>1, <2>1, <2>3
<1>5. ASSUME FetchAnswered(l) \/ FetchFailed(l)
      PROVE  Gone(v)' /\ \A n \in Names : loads'[l].got[n] # v
  <2>1. InLoad(l, "store") BY <1>5 DEF FetchAnswered, FetchFailed
  <2>2. PICK value \in {loads[l].value, None} :
          loads' = [loads EXCEPT ![l] = Onward(loads[l], value)]
    BY <1>5 DEF FetchAnswered, FetchFailed
  <2>3. value \in Values \cup {None} BY <2>1, InHand
  <2>4. loads'[l] = Onward(loads[l], value) BY <2>2, OneLoad
  <2> PICK n : n = LoadOrder[loads[l].step] OBVIOUS
  <2>5. /\ loads'[l].reload = loads[l].reload /\ loads'[l].alone = loads[l].alone
        /\ loads'[l].stale = loads[l].stale
        /\ loads'[l].got[n] = value
        /\ \A m \in Names : m # n => loads'[l].got[m] = loads[l].got[m]
    <3> PICK load : load = loads[l] OBVIOUS
    <3> PICK r : r = Onward(load, value) OBVIOUS
    <3>1. load \in Load /\ load.step \in 1 .. Len(LoadOrder) BY <2>1, InHand
    <3>2. /\ r.reload = load.reload /\ r.alone = load.alone /\ r.stale = load.stale
          /\ r.got[n] = value /\ \A m \in Names : m # n => r.got[m] = load.got[m]
      BY <2>3, <3>1, OnwardIs
    <3>3. QED BY <2>4, <3>2
  <2>6. v \in Values /\ Gone(v)' /\ \A m \in Names : loads[l].got[m] # v
    BY <1>1, <2>1, <2>5 DEF InLoad
  <2>7. value # v
    <3>1. loads[l].value # v BY <2>1, <2>5 DEF InLoad, ReloadsClean
    <3>2. None # v BY <2>6, SecretsAssumption DEF Values
    <3>3. QED BY <3>1, <3>2
  <2>8. QED BY <2>5, <2>6, <2>7
<1>6. QED BY <1>2, <1>3, <1>4, <1>5, LoadSteps

-----------------------------------------------------------------------------
(* The theorems                                                            *)

\* Values are written once, answers and entries dated, loads in order and
\* reloads clean, in whatever order answers, failures, loads, invalidations
\* and the operator's writes come.
THEOREM SecretsInvariant == SecretsSpec => []SecretsInv
<1>1. SecretsInit => SecretsInv
  BY SecretsAssumption
  DEF SecretsInit, SecretsInv, SecretsTypeOK, VaultWritten, AnswersDated, EntriesDated,
      LoadsInOrder, ReloadsClean, NeverIncomplete, InLoad
<1>2. SecretsInv /\ [SecretsNext]_secretVars => SecretsInv'
  BY TypesKept, VaultKept, AnswersKept, EntriesKept, OrderKept, CleanKept, CompleteKept
  DEF SecretsInv
<1>3. QED BY <1>1, <1>2, PTL DEF SecretsSpec

\* The cache never answers with a value replaced longer ago than the five
\* minutes of an entry and the time of one answer.
THEOREM StalenessBounded == SecretsSpec => []BoundedStaleness
<1>1. SecretsInv => BoundedStaleness
  <2> SUFFICES ASSUME SecretsInv, NEW n \in Names, Hit(n)
               PROVE  CurrentWithin(n, cache[n].value, CacheTTL + MaxFlight)
    BY DEF BoundedStaleness
  <2> PICK v : v = cache[n].value OBVIOUS
  <2> PICK end : end = cache[n].expires_at OBVIOUS
  <2>1. cache[n] \in CacheEntry /\ now \in Nat BY DEF SecretsInv, SecretsTypeOK, Hit
  <2>2. v \in Values /\ end \in Nat BY <2>1 DEF CacheEntry
  <2>3. now <= end BY DEF Hit, Unexpired
  <2>4. vault[n] = v \/ (retired[v] # None /\ end <= retired[v] + CacheTTL + MaxFlight)
    BY DEF SecretsInv, EntriesDated, Hit
  <2>5. retired[v] # None => retired[v] \in Nat BY <2>2 DEF SecretsInv, SecretsTypeOK
  <2>6. QED BY <2>1, <2>2, <2>3, <2>4, <2>5, SecretsAssumption DEF CurrentWithin
<1>2. QED BY <1>1, SecretsInvariant, PTL

\* loadedSecrets holds nothing or every required secret, whichever backend
\* calls of whichever loads fail.
THEOREM LoadedComplete == SecretsSpec => []NeverIncomplete
BY SecretsInvariant, PTL DEF SecretsInv

\* A reload that begins with nothing in flight takes up nothing that had been
\* replaced by then, whatever begins while it runs.
THEOREM ReloadsFresh == SecretsSpec => []ReloadFresh
<1>1. SecretsInv => ReloadFresh BY DEF SecretsInv, ReloadsClean, ReloadFresh
<1>2. QED BY <1>1, SecretsInvariant, PTL
=============================================================================
