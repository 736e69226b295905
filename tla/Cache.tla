------------------------------- MODULE Cache --------------------------------
(***************************************************************************)
(* The TTL cache of Cache.h, shared by the pool threads: the cache of      *)
(* directory listings, of lists of meta files and of parsed meta files.    *)
(*                                                                         *)
(* A value is abstracted to the time at which the wrapped function         *)
(* computed it.  The clock is read where the code reads it, and time may   *)
(* pass between any two steps.                                             *)
(***************************************************************************)
EXTENDS Integers, TLAPS

CONSTANTS
  Threads, Keys,
  Ttl,      \* m_ttl_ms
  MaxTime,  \* bound on the clock
  Nil       \* no entry, no thread, no key

Entry == [at : Nat, val : Nat]

ASSUME CacheAssumption ==
  /\ Ttl \in Nat /\ MaxTime \in Nat
  /\ Nil \notin Nat \cup Keys \cup Threads \cup Entry

VARIABLES
  now,       \* the steady clock
  enabled,
  contents,  \* contents[k]: Nil or [at |-> created time, val |-> data]
  cleaned,   \* m_cache_last_cleaned_at
  lock,      \* the thread that holds m_lock, or Nil
  step, key, \* what each thread does next, and the key it asked for
  asked,     \* when it called get
  at,        \* the local variable now of get
  val        \* the result of fn, then of get

cacheState == <<now, enabled, contents, cleaned, lock, step, key, asked, at, val>>
frame == <<key, asked>>

Inside == {"ttl", "clean", "find", "drop", "fetch", "put"}

\* The type of every variable; whoever is inside get holds m_lock, and nobody else.
CacheTypeOK ==
  /\ now \in Nat /\ enabled \in BOOLEAN
  /\ contents \in [Keys -> Entry \cup {Nil}]
  /\ cleaned \in Nat
  /\ lock \in Threads \cup {Nil}
  /\ step \in [Threads -> Inside \cup {"idle", "lock", "flush", "bypass", "done", "threw"}]
  /\ key \in [Threads -> Keys \cup {Nil}]
  /\ \A t \in Threads : step[t] \in Inside <=> lock = t
  /\ asked \in [Threads -> Nat] /\ at \in [Threads -> Nat] /\ val \in [Threads -> Nat]

CacheInit ==
  /\ now = 0 /\ enabled = TRUE
  /\ contents = [k \in Keys |-> Nil]
  /\ cleaned = 0
  /\ lock = Nil
  /\ step = [t \in Threads |-> "idle"]
  /\ key = [t \in Threads |-> Nil]
  /\ asked = [t \in Threads |-> 0]
  /\ at = [t \in Threads |-> 0] /\ val = [t \in Threads |-> 0]

Has(k) == contents[k] # Nil
Proceed(t, l) == step' = [step EXCEPT ![t] = l]

-----------------------------------------------------------------------------
\* The test on an entry: created before time - m_ttl_ms.
Expired(k, time) == Has(k) /\ contents[k].at + Ttl < time

\* Faulty variant of CleanExpired: only the time of the cleaning is noted.
CleanExpiredKeeps ==
  /\ contents' = contents
  /\ cleaned' = now

CleanExpired ==
  /\ contents' = [k \in Keys |-> IF Expired(k, now) THEN Nil ELSE contents[k]]
  /\ cleaned' = now

\* A call of get.  A disabled cache is passed by without its lock.
Get(t, k) ==
  /\ step[t] = "idle"
  /\ Proceed(t, IF enabled THEN "lock" ELSE "bypass")
  /\ key' = [key EXCEPT ![t] = k]
  /\ asked' = [asked EXCEPT ![t] = now]
  /\ UNCHANGED <<now, enabled, contents, cleaned, lock, at, val>>

Bypass(t) ==
  /\ step[t] = "bypass"
  /\ at' = [at EXCEPT ![t] = now]
  /\ val' = [val EXCEPT ![t] = now]
  /\ Proceed(t, "done")
  /\ UNCHANGED <<now, enabled, contents, cleaned, lock, frame>>

Lock(t) ==
  /\ step[t] = "lock" /\ lock = Nil
  /\ lock' = t
  /\ Proceed(t, "ttl")
  /\ UNCHANGED <<now, enabled, contents, cleaned, frame, at, val>>

\* Faulty variant of CheckTtl: only the entry that is asked for is cleaned.
CheckTtlSkipped(t) ==
  /\ step[t] = "ttl"
  /\ Proceed(t, "find")
  /\ UNCHANGED <<now, enabled, contents, cleaned, lock, frame, at, val>>

\* is_cache_ttl_expired
CheckTtl(t) ==
  /\ step[t] = "ttl"
  /\ Proceed(t, IF cleaned + Ttl < now THEN "clean" ELSE "find")
  /\ UNCHANGED <<now, enabled, contents, cleaned, lock, frame, at, val>>

Clean(t) ==
  /\ step[t] = "clean"
  /\ CleanExpired
  /\ Proceed(t, "find")
  /\ UNCHANGED <<now, enabled, lock, frame, at, val>>

\* A miss and an expired entry go on to fn; a hit returns and unlocks.
Find(t) ==
  /\ step[t] = "find"
  /\ at' = [at EXCEPT ![t] = now]
  /\ \/ ~Has(key[t]) /\ Proceed(t, "fetch") /\ UNCHANGED <<lock, val>>
     \/ Expired(key[t], now) /\ Proceed(t, "drop") /\ UNCHANGED <<lock, val>>
     \/ /\ Has(key[t]) /\ ~Expired(key[t], now)
        /\ val' = [val EXCEPT ![t] = contents[key[t]].val]
        /\ lock' = Nil
        /\ Proceed(t, "done")
  /\ UNCHANGED <<now, enabled, contents, cleaned, frame>>

Erase(t) ==
  /\ step[t] = "drop"
  /\ CleanExpired
  /\ Proceed(t, "fetch")
  /\ UNCHANGED <<now, enabled, lock, frame, at, val>>

\* fn(key) runs with the lock held.
Fetch(t) ==
  /\ step[t] = "fetch"
  /\ val' = [val EXCEPT ![t] = now]
  /\ Proceed(t, "put")
  /\ UNCHANGED <<now, enabled, contents, cleaned, lock, frame, at>>

\* Faulty variant of FetchThrows: the lock is not given back.
FetchThrowsLocked(t) ==
  /\ step[t] \in {"fetch", "bypass"}
  /\ Proceed(t, "threw")
  /\ UNCHANGED <<now, enabled, contents, cleaned, frame, lock, at, val>>

\* fn(key) throws: nothing is stored and the guard unlocks.
FetchThrows(t) ==
  /\ step[t] \in {"fetch", "bypass"}
  /\ lock' = IF step[t] = "fetch" THEN Nil ELSE lock
  /\ Proceed(t, "threw")
  /\ UNCHANGED <<now, enabled, contents, cleaned, frame, at, val>>

\* emplace() leaves an entry that is there alone; get returns the entry.
Put(t) ==
  /\ step[t] = "put"
  /\ LET e == IF Has(key[t]) THEN contents[key[t]]
              ELSE [at |-> at[t], val |-> val[t]]
     IN  /\ contents' = [contents EXCEPT ![key[t]] = e]
         /\ val' = [val EXCEPT ![t] = e.val]
  /\ lock' = Nil
  /\ Proceed(t, "done")
  /\ UNCHANGED <<now, enabled, cleaned, frame, at>>

CallFlush(t) ==
  /\ step[t] = "idle"
  /\ Proceed(t, "flush")
  /\ UNCHANGED <<now, enabled, contents, cleaned, lock, frame, at, val>>

Flush(t) ==
  /\ step[t] = "flush" /\ lock = Nil
  /\ contents' = [k \in Keys |-> Nil]
  /\ cleaned' = now
  /\ Proceed(t, "idle")
  /\ UNCHANGED <<now, enabled, lock, frame, at, val>>

\* enable and disable
Switch ==
  /\ enabled' = ~enabled
  /\ UNCHANGED <<now, contents, cleaned, lock, step, frame, at, val>>

\* The caller takes the result, or the exception; the locals are gone.
Return(t) ==
  /\ step[t] \in {"done", "threw"}
  /\ Proceed(t, "idle")
  /\ key' = [key EXCEPT ![t] = Nil]
  /\ asked' = [asked EXCEPT ![t] = 0]
  /\ at' = [at EXCEPT ![t] = 0]
  /\ val' = [val EXCEPT ![t] = 0]
  /\ UNCHANGED <<now, enabled, contents, cleaned, lock>>

Tick ==
  /\ now < MaxTime
  /\ now' = now + 1
  /\ UNCHANGED <<enabled, contents, cleaned, lock, step, frame, at, val>>

GetStep(t) ==
  \/ Bypass(t) \/ Lock(t) \/ CheckTtl(t) \/ Clean(t) \/ Find(t) \/ Erase(t)
  \/ Fetch(t) \/ FetchThrows(t) \/ Put(t) \/ Flush(t)

CacheNext ==
  \/ \E t \in Threads : GetStep(t) \/ CallFlush(t) \/ Return(t) \/ \E k \in Keys : Get(t, k)
  \/ Switch
  \/ Tick

CacheSpec == CacheInit /\ [][CacheNext]_cacheState

-----------------------------------------------------------------------------
\* What makes the three inductive: how the times that get handles are ordered.
Ordered ==
  /\ cleaned <= now
  /\ \A k \in Keys : Has(k) =>
       /\ contents[k].at <= contents[k].val /\ contents[k].val <= now
       /\ contents[k].val + Ttl >= cleaned
  /\ \A t \in Threads :
       /\ step[t] \in Inside \cup {"lock", "bypass"} => key[t] \in Keys
       /\ asked[t] <= now /\ at[t] <= now /\ val[t] <= now
       /\ step[t] \in {"find", "drop", "fetch", "put"} => cleaned + Ttl >= asked[t]
       /\ step[t] = "drop" => Expired(key[t], at[t])
       /\ step[t] \in {"fetch", "put"} => ~Has(key[t])
       /\ step[t] = "put" => val[t] >= at[t] /\ val[t] >= cleaned

\* get never returns data that was out of the wrapped function for longer than
\* m_ttl_ms when it looked the key up, although an entry is judged by one
\* reading of the clock, erased by a second and stored under the first.
NeverStale == \A t \in Threads : step[t] = "done" => val[t] + Ttl >= at[t]

\* "prevent unlimited cache growth on consistent misses": when a get returns,
\* the data of every entry is from at most two TTLs before the call.  (Of the
\* created time this is not true: it is read before a clean_expired that may
\* run late.)
GrowthBounded ==
  [][\A t \in Threads : step[t] \in Inside /\ step'[t] = "done" =>
       \A k \in Keys : contents'[k] # Nil =>
         contents'[k].val + 2 * Ttl >= asked[t]]_cacheState

-----------------------------------------------------------------------------
\* Proofs, for any threads, keys and time to live: data older than the time to live is
\* never returned, and the cache holds on to no entry for more than two of them.
CacheInv == CacheTypeOK /\ Ordered /\ NeverStale

\* The kinds of steps a thread takes.
LEMMA StepKinds ==
  ASSUME NEW t \in Threads, GetStep(t) \/ CallFlush(t) \/ Return(t) \/ \E k \in Keys : Get(t, k)
  PROVE  \/ \E k \in Keys : Get(t, k)
         \/ Bypass(t) \/ Lock(t) \/ CheckTtl(t) \/ Clean(t) \/ Find(t) \/ Erase(t)
         \/ Fetch(t) \/ FetchThrows(t) \/ Put(t) \/ CallFlush(t) \/ Flush(t) \/ Return(t)
BY DEF GetStep

\* Every entry of the cache is a record and Nil is not.
LEMMA EntryType ==
  ASSUME CacheTypeOK, NEW k \in Keys, Has(k)
  PROVE  contents[k] \in Entry /\ contents[k].at \in Nat /\ contents[k].val \in Nat
BY DEF CacheTypeOK, Has, Entry

\* clean_expired leaves entries alone or removes them, and none of those it
\* leaves is older than the time to live.
LEMMA Cleaning ==
  ASSUME CacheTypeOK, Ordered, CleanExpired
  PROVE  /\ contents' \in [Keys -> Entry \cup {Nil}]
         /\ cleaned' \in Nat /\ cleaned' = now
         /\ \A k \in Keys : contents'[k] \in {Nil, contents[k]}
         /\ \A k \in Keys : contents'[k] # Nil =>
              Has(k) /\ contents'[k] = contents[k] /\ contents[k].at + Ttl >= now
<1> USE CacheAssumption
<1>1. \A k \in Keys : contents'[k] = IF Expired(k, now) THEN Nil ELSE contents[k]
  BY DEF CleanExpired
<1>2. \A k \in Keys : contents'[k] \in {Nil, contents[k]}
  BY <1>1
<1>3. contents' \in [Keys -> Entry \cup {Nil}]
  BY DEF CleanExpired, CacheTypeOK
<1>4. cleaned' \in Nat /\ cleaned' = now
  BY DEF CleanExpired, CacheTypeOK
<1>5. ASSUME NEW k \in Keys, contents'[k] # Nil
      PROVE  Has(k) /\ contents'[k] = contents[k] /\ contents[k].at + Ttl >= now
  <2>1. ~Expired(k, now) /\ contents'[k] = contents[k] /\ Has(k)
    BY <1>1, <1>5 DEF Has
  <2>2. contents[k].at \in Nat /\ now \in Nat
    BY <2>1, EntryType DEF CacheTypeOK
  <2> QED BY <2>1, <2>2 DEF Expired
<1> QED BY <1>2, <1>3, <1>4, <1>5

\* The initial state.
LEMMA CacheInitial == CacheInit => CacheInv
<1> SUFFICES ASSUME CacheInit PROVE CacheInv
  OBVIOUS
<1> USE CacheAssumption DEF CacheInit
<1>1. CacheTypeOK
  BY DEF CacheTypeOK, Inside
<1>2. Ordered
  BY DEF Ordered, Has, Inside
<1>3. NeverStale
  BY DEF NeverStale
<1> QED BY <1>1, <1>2, <1>3 DEF CacheInv

\* A step keeps the types and the lock with the thread that is inside.
LEMMA TypeStep == CacheTypeOK /\ Ordered /\ [CacheNext]_cacheState => CacheTypeOK'
<1> SUFFICES ASSUME CacheTypeOK, Ordered, [CacheNext]_cacheState PROVE CacheTypeOK'
  OBVIOUS
<1> USE CacheAssumption
<1>0. CASE UNCHANGED cacheState
  BY <1>0 DEF CacheTypeOK, cacheState, Inside
<1>1. CASE Switch
  BY <1>1 DEF Switch, CacheTypeOK, Inside, frame
<1>2. CASE Tick
  BY <1>2 DEF Tick, CacheTypeOK, Inside, frame
<1>3. ASSUME NEW t \in Threads, GetStep(t) \/ CallFlush(t) \/ Return(t) \/ \E k \in Keys : Get(t, k)
      PROVE  CacheTypeOK'
  <2> USE DEF CacheTypeOK, Inside, Proceed, frame
  <2>1. CASE \E k \in Keys : Get(t, k)
    BY <2>1 DEF Get
  <2>2. CASE Bypass(t)
    BY <2>2 DEF Bypass
  <2>3. CASE Lock(t)
    BY <2>3 DEF Lock
  <2>4. CASE CheckTtl(t)
    BY <2>4 DEF CheckTtl
  <2>5. CASE Clean(t)
    BY <2>5, Cleaning DEF Clean
  <2>6. CASE Find(t)
    <3>1. key[t] \in Keys
      BY <2>6 DEF Find, Ordered
    <3>2. Has(key[t]) => contents[key[t]].val \in Nat
      BY <3>1, EntryType
    <3> QED BY <2>6, <3>1, <3>2 DEF Find
  <2>7. CASE Erase(t)
    BY <2>7, Cleaning DEF Erase
  <2>8. CASE Fetch(t)
    BY <2>8 DEF Fetch
  <2>9. CASE FetchThrows(t)
    BY <2>9 DEF FetchThrows
  <2>10. CASE Put(t)
    <3>1. key[t] \in Keys
      BY <2>10 DEF Put, Ordered
    <3> DEFINE e == IF Has(key[t]) THEN contents[key[t]] ELSE [at |-> at[t], val |-> val[t]]
    <3>2. e \in Entry /\ e.val \in Nat
      BY <3>1, EntryType DEF Entry
    <3> HIDE DEF e
    <3>3. contents' = [contents EXCEPT ![key[t]] = e] /\ val' = [val EXCEPT ![t] = e.val]
      BY <2>10 DEF Put, e
    <3> QED BY <2>10, <3>1, <3>2, <3>3 DEF Put
  <2>11. CASE CallFlush(t)
    BY <2>11 DEF CallFlush
  <2>12. CASE Flush(t)
    BY <2>12 DEF Flush
  <2>13. CASE Return(t)
    BY <2>13 DEF Return
  <2> QED BY <1>3, <2>1, <2>2, <2>3, <2>4, <2>5, <2>6, <2>7, <2>8, <2>9, <2>10, <2>11, <2>12, <2>13, StepKinds
<1> QED BY <1>0, <1>1, <1>2, <1>3 DEF CacheNext

\* A step keeps the order of times, and what a get returns fresh.
LEMMA OrderedStep ==
  CacheInv /\ [CacheNext]_cacheState => Ordered' /\ NeverStale'
<1> SUFFICES ASSUME CacheInv, [CacheNext]_cacheState PROVE Ordered' /\ NeverStale'
  OBVIOUS
<1> USE CacheAssumption
<1>t. CacheTypeOK /\ Ordered /\ NeverStale
  BY DEF CacheInv
<1>n. CacheTypeOK'
  BY <1>t, TypeStep
<1>e. \A k \in Keys : Has(k) => contents[k].at \in Nat /\ contents[k].val \in Nat
  BY <1>t, EntryType
<1>0. CASE UNCHANGED cacheState
  BY <1>0, <1>t DEF cacheState, Ordered, NeverStale, Has, Expired, Inside
<1>1. CASE Switch
  BY <1>1, <1>t DEF Switch, frame, Ordered, NeverStale, Has, Expired, Inside
<1>2. CASE Tick
  BY <1>2, <1>t, <1>e DEF Tick, frame, Ordered, NeverStale, Has, Expired, Inside, CacheTypeOK
<1>3. ASSUME NEW t \in Threads, GetStep(t) \/ CallFlush(t) \/ Return(t) \/ \E k \in Keys : Get(t, k)
      PROVE  Ordered' /\ NeverStale'
  <2> USE DEF Proceed, frame
  <2>l. \A u \in Threads : step[u] \in Inside <=> lock = u
    BY <1>t DEF CacheTypeOK
  <2>1. CASE \E k \in Keys : Get(t, k)
    BY <2>1, <1>t, <1>e DEF Get, Ordered, NeverStale, Has, Expired, Inside, CacheTypeOK
  <2>2. CASE Bypass(t)
    BY <2>2, <1>t, <1>e DEF Bypass, Ordered, NeverStale, Has, Expired, Inside, CacheTypeOK
  <2>3. CASE Lock(t)
    BY <2>3, <1>t, <1>e DEF Lock, Ordered, NeverStale, Has, Expired, Inside, CacheTypeOK
  <2>4. CASE CheckTtl(t)
    BY <2>4, <1>t, <1>e DEF CheckTtl, Ordered, NeverStale, Has, Expired, Inside, CacheTypeOK
  <2>5. CASE Clean(t)
    <3>1. \A u \in Threads : u # t => step[u] \notin Inside
      BY <2>5, <2>l DEF Clean, Inside
    <3>2. /\ cleaned' = now
          /\ \A k \in Keys : contents'[k] # Nil =>
               Has(k) /\ contents'[k] = contents[k] /\ contents[k].at + Ttl >= now
      BY <2>5, <1>t, Cleaning DEF Clean
    <3> QED BY <3>1, <3>2, <2>5, <1>t, <1>e DEF Clean, Ordered, NeverStale, Has, Inside, CacheTypeOK
  <2>6. CASE Find(t)
    <3>1. \A u \in Threads : u # t => step[u] \notin Inside
      BY <2>6, <2>l DEF Find, Inside
    <3>2. key[t] \in Keys
      BY <2>6, <1>t DEF Find, Ordered, Inside
    <3> QED BY <3>1, <3>2, <2>6, <1>t, <1>e DEF Find, Ordered, NeverStale, Has, Expired, Inside, CacheTypeOK
  <2>7. CASE Erase(t)
    <3>1. \A u \in Threads : u # t => step[u] \notin Inside
      BY <2>7, <2>l DEF Erase, Inside
    <3>2. key[t] \in Keys /\ Expired(key[t], at[t]) /\ at[t] <= now
      BY <2>7, <1>t DEF Erase, Ordered, Inside
    <3>3. contents'[key[t]] = Nil
      BY <3>2, <2>7, <1>t, <1>e DEF Erase, CleanExpired, Expired, CacheTypeOK
    <3>4. /\ cleaned' = now
          /\ \A k \in Keys : contents'[k] # Nil =>
               Has(k) /\ contents'[k] = contents[k] /\ contents[k].at + Ttl >= now
      BY <2>7, <1>t, Cleaning DEF Erase
    <3> QED BY <3>1, <3>2, <3>3, <3>4, <2>7, <1>t, <1>e DEF Erase, Ordered, NeverStale, Has, Inside, CacheTypeOK
  <2>8. CASE Fetch(t)
    BY <2>8, <1>t, <1>e DEF Fetch, Ordered, NeverStale, Has, Expired, Inside, CacheTypeOK
  <2>9. CASE FetchThrows(t)
    BY <2>9, <1>t, <1>e DEF FetchThrows, Ordered, NeverStale, Has, Expired, Inside, CacheTypeOK
  <2>10. CASE Put(t)
    <3>1. \A u \in Threads : u # t => step[u] \notin Inside
      BY <2>10, <2>l DEF Put, Inside
    <3>2. key[t] \in Keys /\ ~Has(key[t]) /\ val[t] >= at[t] /\ val[t] >= cleaned
      BY <2>10, <1>t DEF Put, Ordered, Inside
    <3>3. /\ contents' = [contents EXCEPT ![key[t]] = [at |-> at[t], val |-> val[t]]]
          /\ val' = [val EXCEPT ![t] = val[t]]
      BY <3>2, <2>10 DEF Put
    <3> QED BY <3>1, <3>2, <3>3, <2>10, <1>t, <1>e DEF Put, Ordered, NeverStale, Has, Inside, CacheTypeOK
  <2>11. CASE CallFlush(t)
    BY <2>11, <1>t, <1>e DEF CallFlush, Ordered, NeverStale, Has, Expired, Inside, CacheTypeOK
  <2>12. CASE Flush(t)
    <3>1. \A u \in Threads : step[u] \notin Inside
      BY <2>12, <2>l DEF Flush
    <3> QED BY <3>1, <2>12, <1>t, <1>e DEF Flush, Ordered, NeverStale, Has, Expired, Inside, CacheTypeOK
  <2>13. CASE Return(t)
    BY <2>13, <1>t, <1>e DEF Return, Ordered, NeverStale, Has, Expired, Inside, CacheTypeOK
  <2> QED BY <1>3, <2>1, <2>2, <2>3, <2>4, <2>5, <2>6, <2>7, <2>8, <2>9, <2>10, <2>11, <2>12, <2>13, StepKinds
<1> QED BY <1>0, <1>1, <1>2, <1>3 DEF CacheNext

\* The invariant of Cache: its types and its order of times always hold, and
\* get returns no data that was older than m_ttl_ms when it looked it up.
THEOREM CacheIsFresh == CacheSpec => [](CacheTypeOK /\ Ordered /\ NeverStale)
<1>1. CacheInv /\ [CacheNext]_cacheState => CacheInv'
  BY TypeStep, OrderedStep DEF CacheInv
<1> QED BY <1>1, CacheInitial, PTL DEF CacheSpec, CacheInv

\* No entry is kept for longer than two times to live: whenever a get returns,
\* the data of every entry is from at most that long before the call.
THEOREM CacheIsBounded == CacheSpec => GrowthBounded
<1> DEFINE Step == \A t \in Threads : step[t] \in Inside /\ step'[t] = "done" =>
                     \A k \in Keys : contents'[k] # Nil =>
                       contents'[k].val + 2 * Ttl >= asked[t]
<1>1. ASSUME CacheInv, CacheInv', [CacheNext]_cacheState
      PROVE  [Step]_cacheState
  <2> SUFFICES ASSUME NEW t \in Threads, step[t] \in Inside, step'[t] = "done",
                      NEW k \in Keys, contents'[k] # Nil
               PROVE  contents'[k].val + 2 * Ttl >= asked[t]
    OBVIOUS
  <2>1. PICK u \in Threads : GetStep(u) \/ CallFlush(u) \/ Return(u) \/ \E i \in Keys : Get(u, i)
    BY <1>1 DEF CacheNext, cacheState, Switch, Tick, Inside
  <2>a. u = t
    BY <2>1, <1>1 DEF GetStep, Get, Bypass, Lock, CheckTtl, Clean, Find, Erase, Fetch, FetchThrows,
      Put, CallFlush, Flush, Return, Proceed, Inside, CacheInv, CacheTypeOK
  <2>b. Find(t) \/ Put(t)
    BY <2>1, <2>a, <1>1 DEF GetStep, Get, Bypass, Lock, CheckTtl, Clean, Erase, Fetch, FetchThrows,
      CallFlush, Flush, Return, Proceed, Inside, CacheInv, CacheTypeOK
  <2>2. cleaned' + Ttl >= asked[t] /\ asked[t] \in Nat /\ cleaned' \in Nat
    BY <2>b, <1>1 DEF Find, Put, CacheInv, Ordered, CacheTypeOK
  <2>3. contents'[k].val + Ttl >= cleaned' /\ contents'[k].val \in Nat
    BY <1>1 DEF CacheInv, Ordered, Has, CacheTypeOK, Entry
  <2> QED BY <2>2, <2>3, CacheAssumption
<1>2. CacheSpec => []CacheInv
  BY CacheIsFresh, PTL DEF CacheInv
<1> QED BY <1>1, <1>2, PTL DEF CacheSpec, GrowthBounded
=============================================================================
