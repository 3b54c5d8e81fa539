------------------------------ MODULE Secrets ------------------------------
(***************************************************************************)
(* The process's secrets:                                                  *)
(*   vault/configuration/vault-client.js    SecretCache, getSecret,        *)
(*       getRequiredSecret, invalidateSecret, clearSecretCache,            *)
(*   vault/configuration/secrets-loader.js  loadSecrets, reloadSecrets,    *)
(*       initializeSecrets.                                                *)
(*                                                                         *)
(* getSecret looks into the cache and asks the backend at once, and stores *)
(* what it got when the promise resolves; loadSecrets awaits one getSecret *)
(* after the other.  In between anything else runs.  A value is the number *)
(* of the backend's write it comes from; every backend of the code reads   *)
(* the value when it is asked.  getSecret without the cache (secretExists,  *)
(* healthCheck) changes nothing, and getSecrets is several Callers.        *)
(***************************************************************************)
EXTENDS Naturals, Sequences

CONSTANTS
  Names,      \* paths of secrets
  Required,   \* the values of REQUIRED_SECRETS
  LoadOrder,  \* the order in which loadSecrets goes through the names
  Callers,    \* concurrent calls of getSecret
  Loaders,    \* concurrent calls of loadSecrets
  CacheTTL,   \* SecretCache's ttl: 5 minutes
  MaxFlight,  \* the longest time a backend takes to answer
  MaxTime,    \* bound on the clock
  MaxWrites,  \* bound on the writes to the backend
  Faults,     \* may a backend throw?
  None        \* no value, no entry, no call in flight

VARIABLES
  now,        \* Date.now()
  vault,      \* the backend: name -> value, or None (external)
  writes,     \* the number of writes so far
  retired,    \* history: value -> when it was replaced or removed, or None
  cache,      \* secretCache: name -> entry, or None
  gets,       \* getSecret calls in flight
  loads,      \* loadSecrets calls in flight
  loaded      \* loadedSecrets: name -> value, or None

secretVars == <<now, vault, writes, retired, cache, gets, loads, loaded>>

Values == 1 .. MaxWrites

CacheEntry == [value : Values, expires_at : Nat]

\* A call that asked the backend at `at` and was given `value`
Get == [name : Names, value : Values \cup {None}, at : Nat]

\* `step` is the position in LoadOrder, `value` what the getSecret of that
\* step has in hand and `fresh` whether it comes from the backend.  `stale` is
\* history: the values already replaced when the load began.  `alone`: no call
\* was in flight then.
Load == [pc : {"fetch", "store", "finish"}, step : Nat, value : Values \cup {None},
         fresh : BOOLEAN, at : Nat, got : [Names -> Values \cup {None}],
         failed : BOOLEAN, reload : BOOLEAN, alone : BOOLEAN, stale : SUBSET Values]

ASSUME SecretsAssumption ==
  /\ Required \subseteq Names
  /\ LoadOrder \in Seq(Names) /\ LoadOrder # <<>>
  /\ \A n \in Required : \E i \in 1 .. Len(LoadOrder) : LoadOrder[i] = n
  /\ {CacheTTL, MaxFlight, MaxTime, MaxWrites} \subseteq Nat
  /\ Faults \in BOOLEAN
  /\ None \notin Nat
  /\ None \notin CacheEntry /\ None \notin Get /\ None \notin Load

SecretsTypeOK ==
  /\ now \in Nat
  /\ vault \in [Names -> Values \cup {None}]
  /\ writes \in 0 .. MaxWrites
  /\ retired \in [Values -> Nat \cup {None}]
  /\ cache \in [Names -> CacheEntry \cup {None}]
  /\ gets \in [Callers -> Get \cup {None}]
  /\ loads \in [Loaders -> Load \cup {None}]
  /\ loaded \in [Names -> Values \cup {None}]

SecretsInit ==
  /\ now = 0
  /\ vault = [n \in Names |-> None]
  /\ writes = 0
  /\ retired = [v \in Values |-> None]
  /\ cache = [n \in Names |-> None]
  /\ gets = [c \in Callers |-> None]
  /\ loads = [l \in Loaders |-> None]
  /\ loaded = [n \in Names |-> None]

-----------------------------------------------------------------------------
(* SecretCache                                                             *)

\* A slip: the time of the entry never looked at
NeverExpiring(entry) == TRUE

\* Date.now() > expiresAt drops an entry.
Unexpired(entry) == now <= entry.expires_at

Hit(n) == cache[n] # None /\ Unexpired(cache[n])

\* A slip: the cache left as it is
NothingCleared == cache

\* clear
Cleared == [n \in Names |-> None]

\* What getSecret stores: nothing for a secret that is not there
Stored(n, value) ==
  IF value = None THEN cache
  ELSE [cache EXCEPT ![n] = [value |-> value, expires_at |-> now + CacheTTL]]

-----------------------------------------------------------------------------
(* getSecret                                                               *)

\* A call that finds nothing in the cache asks the backend.
AskBackend(c, n) ==
  /\ gets[c] = None
  /\ ~Hit(n)
  /\ gets' = [gets EXCEPT ![c] = [name |-> n, value |-> vault[n], at |-> now]]
  /\ UNCHANGED <<now, vault, writes, retired, cache, loads, loaded>>

GetAnswered(c) ==
  /\ gets[c] # None
  /\ cache' = Stored(gets[c].name, gets[c].value)
  /\ gets' = [gets EXCEPT ![c] = None]
  /\ UNCHANGED <<now, vault, writes, retired, loads, loaded>>

GetFailed(c) ==
  /\ Faults
  /\ gets[c] # None
  /\ gets' = [gets EXCEPT ![c] = None]
  /\ UNCHANGED <<now, vault, writes, retired, cache, loads, loaded>>

InvalidateSecret(n) ==
  /\ cache' = [cache EXCEPT ![n] = None]
  /\ UNCHANGED <<now, vault, writes, retired, gets, loads, loaded>>

-----------------------------------------------------------------------------
(* loadSecrets                                                             *)

\* The getSecret of the load's next name, over the cache's entries
Fetching(load, entries) ==
  LET n == LoadOrder[load.step]
      hit == entries[n] # None /\ Unexpired(entries[n])
  IN
  [load EXCEPT !.pc = "store", !.at = now, !.fresh = ~hit,
               !.value = IF hit THEN entries[n].value ELSE vault[n]]

\* initializeSecrets, or reloadSecrets with the cache cleared before
BeginLoad(l, reload) ==
  LET entries == IF reload THEN Cleared ELSE cache
      load == [pc |-> "fetch", step |-> 1, value |-> None, fresh |-> FALSE, at |-> now,
               got |-> [n \in Names |-> None], failed |-> FALSE, reload |-> reload,
               alone |-> /\ \A c \in Callers : gets[c] = None
                         /\ \A k \in Loaders : loads[k] = None,
               stale |-> {v \in Values : retired[v] # None}]
  IN
  /\ loads[l] = None
  /\ cache' = entries
  /\ loads' = [loads EXCEPT ![l] = Fetching(load, entries)]
  /\ UNCHANGED <<now, vault, writes, retired, gets, loaded>>

InLoad(l, pc) == loads[l] # None /\ loads[l].pc = pc

FetchNext(l) ==
  /\ InLoad(l, "fetch")
  /\ loads' = [loads EXCEPT ![l] = Fetching(@, cache)]
  /\ UNCHANGED <<now, vault, writes, retired, cache, gets, loaded>>

\* A slip: an error of a step forgotten when the next one goes well
OnwardForgiving(load, value) ==
  LET n == LoadOrder[load.step] IN
  [load EXCEPT !.pc = IF load.step = Len(LoadOrder) THEN "finish" ELSE "fetch",
               !.step = @ + 1, !.got[n] = value,
               !.failed = n \in Required /\ value = None]

\* The load goes on with what the step brought; a required secret that is
\* missing fails the load, but only at its end.
Onward(load, value) ==
  LET n == LoadOrder[load.step] IN
  [load EXCEPT !.pc = IF load.step = Len(LoadOrder) THEN "finish" ELSE "fetch",
               !.step = @ + 1, !.got[n] = value,
               !.failed = @ \/ (n \in Required /\ value = None)]

FetchAnswered(l) ==
  LET load == loads[l] IN
  /\ InLoad(l, "store")
  /\ cache' = IF load.fresh THEN Stored(LoadOrder[load.step], load.value) ELSE cache
  /\ loads' = [loads EXCEPT ![l] = Onward(load, load.value)]
  /\ UNCHANGED <<now, vault, writes, retired, gets, loaded>>

FetchFailed(l) ==
  /\ Faults
  /\ InLoad(l, "store") /\ loads[l].fresh
  /\ loads' = [loads EXCEPT ![l] = Onward(@, None)]
  /\ UNCHANGED <<now, vault, writes, retired, cache, gets, loaded>>

\* A slip: what was found stored though the load failed
WhateverFound(load) == load.got

\* What loadedSecrets is when the load is over: the error leaves it alone.
LoadedBy(load) == IF load.failed THEN loaded ELSE load.got

FinishLoad(l) ==
  /\ InLoad(l, "finish")
  /\ loaded' = LoadedBy(loads[l])
  /\ loads' = [loads EXCEPT ![l] = None]
  /\ UNCHANGED <<now, vault, writes, retired, cache, gets>>

-----------------------------------------------------------------------------
\* The value the backend held for n is replaced or removed.
Retired(n) == IF vault[n] = None THEN retired ELSE [retired EXCEPT ![vault[n]] = now]

\* An operator writes a secret: a new one or a rotation.
Write(n) ==
  /\ writes < MaxWrites
  /\ writes' = writes + 1
  /\ vault' = [vault EXCEPT ![n] = writes + 1]
  /\ retired' = Retired(n)
  /\ UNCHANGED <<now, cache, gets, loads, loaded>>

\* An operator removes a secret.
Remove(n) ==
  /\ vault[n] # None
  /\ vault' = [vault EXCEPT ![n] = None]
  /\ retired' = Retired(n)
  /\ UNCHANGED <<now, writes, cache, gets, loads, loaded>>

\* Time passes, but no answer takes longer than MaxFlight.
Tick ==
  /\ now < MaxTime
  /\ \A c \in Callers : gets[c] # None => now < gets[c].at + MaxFlight
  /\ \A l \in Loaders : InLoad(l, "store") => now < loads[l].at + MaxFlight
  /\ now' = now + 1
  /\ UNCHANGED <<vault, writes, retired, cache, gets, loads, loaded>>

LoadStep(l) == FetchNext(l) \/ FetchAnswered(l) \/ FetchFailed(l) \/ FinishLoad(l)

SecretsNext ==
  \/ \E c \in Callers, n \in Names : AskBackend(c, n)
  \/ \E c \in Callers : GetAnswered(c) \/ GetFailed(c)
  \/ \E l \in Loaders, reload \in BOOLEAN : BeginLoad(l, reload)
  \/ \E l \in Loaders : LoadStep(l)
  \/ \E n \in Names : InvalidateSecret(n) \/ Write(n) \/ Remove(n)
  \/ Tick

SecretsSpec == SecretsInit /\ [][SecretsNext]_secretVars

-----------------------------------------------------------------------------
(* Correctness                                                             *)

\* The value v of the secret n was the backend's within the last `span`.
CurrentWithin(n, v, span) == vault[n] = v \/ (retired[v] # None /\ now <= retired[v] + span)

\* What getSecret answers from the cache was the backend's value within the
\* last five minutes and the time one answer takes, however rotations,
\* invalidations and reloads overlap with answers still on their way
\* (vault-client.js:54-69, 213-250).
BoundedStaleness ==
  \A n \in Names : Hit(n) => CurrentWithin(n, cache[n].value, CacheTTL + MaxFlight)

\* docs/secret-management.md:203: the application never runs with incomplete
\* configuration.  loadedSecrets holds nothing or every required secret; a
\* reload that fails leaves the former ones.
NeverIncomplete ==
  \/ \A n \in Names : loaded[n] = None
  \/ \A n \in Required : loaded[n] # None

\* A reload with nothing in flight when it begins takes up no value that had
\* been replaced by then, whatever starts meanwhile (secrets-loader.js:
\* 156-164; docs/secret-management.md:214-220).
ReloadFresh ==
  \A l \in Loaders : loads[l] # None /\ loads[l].reload /\ loads[l].alone =>
    \A n \in Names : loads[l].got[n] \notin loads[l].stale

-----------------------------------------------------------------------------
(* The inductive invariant behind the three above                          *)

\* Every value was written once, for one secret, and is retired for good.
VaultWritten ==
  /\ \A n \in Names : vault[n] # None => vault[n] <= writes /\ retired[vault[n]] = None
  /\ \A m, n \in Names : vault[m] # None /\ vault[m] = vault[n] => m = n
  /\ \A v \in Values : retired[v] # None => v <= writes /\ retired[v] <= now

\* The backend held v for n at the time `at`, or later.
CurrentSince(n, v, at) == vault[n] = v \/ (retired[v] # None /\ at <= retired[v])

\* An answer on its way is younger than MaxFlight, and was right when it left.
AnswersDated ==
  /\ \A c \in Callers : gets[c] # None =>
       /\ gets[c].at <= now /\ now <= gets[c].at + MaxFlight
       /\ gets[c].value # None => CurrentSince(gets[c].name, gets[c].value, gets[c].at)
  /\ \A l \in Loaders : InLoad(l, "store") =>
       /\ loads[l].at <= now /\ now <= loads[l].at + MaxFlight
       /\ loads[l].fresh /\ loads[l].value # None =>
            CurrentSince(LoadOrder[loads[l].step], loads[l].value, loads[l].at)

\* An entry, expired or not, ends soon enough after its value was replaced.
EntriesDated ==
  \A n \in Names : cache[n] # None =>
    LET v == cache[n].value  end == cache[n].expires_at IN
    /\ end <= now + CacheTTL
    /\ vault[n] = v \/ (retired[v] # None /\ end <= retired[v] + CacheTTL + MaxFlight)

\* A load goes through LoadOrder, and unless it has failed it has got every
\* required secret that it has been at.
LoadsInOrder ==
  \A l \in Loaders : loads[l] # None =>
    LET load == loads[l] IN
    /\ load.step \in 1 .. Len(LoadOrder) + 1
    /\ load.step > Len(LoadOrder) <=> load.pc = "finish"
    /\ ~load.failed => \A i \in 1 .. Len(LoadOrder) :
         i < load.step /\ LoadOrder[i] \in Required => load.got[LoadOrder[i]] # None

\* What was replaced before a reload that began alone is in no entry, in no
\* answer on its way and nowhere in the reload.
ReloadsClean ==
  \A l \in Loaders : loads[l] # None /\ loads[l].reload /\ loads[l].alone =>
    \A v \in loads[l].stale :
      /\ retired[v] # None
      /\ \A n \in Names : loads[l].got[n] # v /\ (cache[n] # None => cache[n].value # v)
      /\ \A c \in Callers : gets[c] # None => gets[c].value # v
      /\ \A k \in Loaders : loads[k] # None => loads[k].value # v

\* Type correctness, and what every step of calls, loads and operators keeps:
\* values written once, answers and entries dated, loads in order, reloads
\* clean, and loadedSecrets complete.
SecretsInv ==
  /\ SecretsTypeOK
  /\ VaultWritten
  /\ AnswersDated
  /\ EntriesDated
  /\ LoadsInOrder
  /\ ReloadsClean
  /\ NeverIncomplete
=============================================================================
