------------------------ MODULE WriteKeyCacheProofs ------------------------
(***************************************************************************)
(* Theorems about WriteKeyCache, for every number of replicas, keys,       *)
(* requests and entries, and for every TTL.                                *)
(***************************************************************************)
EXTENDS WriteKeyCache, FiniteSetTheorems, TLAPS

\* The time to live and the clock's bound are numbers.
LEMMA Numbers == TTL \in Nat /\ Horizon \in Nat /\ MaxEntries \in Nat \ {0}
  BY CacheAssumption

\* What remember() keeps was there before, whichever entries it drops.
LEMMA RoomFacts ==
  ASSUME NEW r \in Replicas, NEW t, NEW kept \in RoomMade(r, t)
  PROVE  kept \subseteq held[r]
  BY DEF RoomMade, Current

\* remember(): one new entry that expires a TTL after its lookup; the others
\* on this replica are kept as they are or dropped, other replicas untouched.
LEMMA RememberFacts ==
  ASSUME TypeOK, NEW r \in Replicas, NEW k \in Keys, NEW v \in States,
         NEW t \in 0 .. Horizon, Remember(r, k, v, t)
  PROVE  /\ held' \in [Replicas -> SUBSET Keys]
         /\ cache' \in [Replicas -> [Keys -> Entries]]
         /\ cache'[r][k] = [value |-> v, exp |-> t + TTL]
         /\ \A j \in held'[r] : j # k => j \in held[r] /\ cache'[r][j] = cache[r][j]
         /\ \A q \in Replicas : q # r => held'[q] = held[q] /\ cache'[q] = cache[q]
<1>1. PICK kept \in RoomMade(r, t) :
        /\ held' = [held EXCEPT ![r] = kept \cup {k}]
        /\ cache' = [cache EXCEPT ![r] =
             [j \in Keys |-> IF j = k THEN [value |-> v, exp |-> Expiry(t)]
                             ELSE IF j \in kept THEN cache[r][j] ELSE Empty]]
  BY DEF Remember
<1>2. kept \subseteq held[r]
  BY RoomFacts
<1>3. held[r] \subseteq Keys
  BY DEF TypeOK
<1>4. Expiry(t) = t + TTL /\ t + TTL \in 0 .. Horizon + TTL
  BY Numbers DEF Expiry
<1>5. Empty \in Entries /\ [value |-> v, exp |-> Expiry(t)] \in Entries
  BY <1>4, Numbers DEF Empty, Entries, States
<1>6. held' \in [Replicas -> SUBSET Keys]
  BY <1>1, <1>2, <1>3 DEF TypeOK
<1>7. cache' \in [Replicas -> [Keys -> Entries]]
  BY <1>1, <1>5 DEF TypeOK
<1>8. /\ held'[r] = kept \cup {k}
      /\ \A j \in Keys : cache'[r][j] = IF j = k THEN [value |-> v, exp |-> Expiry(t)]
                                        ELSE IF j \in kept THEN cache[r][j] ELSE Empty
      /\ \A q \in Replicas : q # r => held'[q] = held[q] /\ cache'[q] = cache[q]
  BY <1>1 DEF TypeOK
<1> QED
  BY <1>2, <1>3, <1>4, <1>6, <1>7, <1>8

-----------------------------------------------------------------------------
\* Replicas start with empty caches and no request: the types hold.
LEMMA TypeInit == Init => TypeOK
<1> SUFFICES ASSUME Init PROVE TypeOK
  OBVIOUS
<1>1. Empty \in Entries
  BY Numbers DEF Empty, Entries, States
<1>2. Idle \in Calls
  BY Numbers DEF Idle, Calls, States
<1>3. /\ clock \in 0 .. Horizon /\ row \in [Keys -> States]
      /\ maker \in [Keys -> Replicas \cup {None}]
      /\ revoker \in [Keys -> Replicas \cup {None}]
      /\ revokedOn \in [Keys -> Replicas \cup {None}]
      /\ since \in [Keys -> 0 .. Horizon]
      /\ belated \in [Keys -> [rep : Replicas \cup {None}, at : 0 .. Horizon]]
  BY Numbers DEF Init, States, Never
<1>4. held \in [Replicas -> SUBSET Keys] /\ cache \in [Replicas -> [Keys -> Entries]]
  BY <1>1 DEF Init
<1>5. call \in [Requests -> Calls] /\ \A c \in Requests : call[c].at = "idle"
  BY <1>2 DEF Init, Idle
<1> QED
  BY <1>3, <1>4, <1>5 DEF TypeOK

\* No step of a request, of create() or revoke(), or of the clock leaves them.
LEMMA TypeNext == TypeOK /\ [Next]_vars => TypeOK'
<1> SUFFICES ASSUME TypeOK, [Next]_vars PROVE TypeOK'
  OBVIOUS
<1> USE Numbers
<1>1. CASE Tick
  BY <1>1 DEF Tick, TypeOK
<1>2. ASSUME NEW c \in Requests, NEW r \in Replicas, NEW k \in Keys, Hits(c, r, k)
      PROVE  TypeOK'
  <2>1. cache[r][k].value \in States
    BY DEF TypeOK, Entries
  <2>2. [at |-> "answered", rep |-> r, key |-> k, began |-> clock,
         value |-> cache[r][k].value, late |-> revokedOn[k] = r] \in Calls
    BY <2>1 DEF Calls, TypeOK
  <2> QED
    BY <1>2, <2>2 DEF Hits, TypeOK
<1>3. ASSUME NEW c \in Requests, NEW r \in Replicas, NEW k \in Keys, Misses(c, r, k)
      PROVE  TypeOK'
  <2>1. [at |-> "asking", rep |-> r, key |-> k, began |-> clock,
         value |-> "absent", late |-> revokedOn[k] = r] \in Calls
    BY DEF Calls, TypeOK, States
  <2> QED
    BY <1>3, <2>1 DEF Misses, TypeOK
<1>4. ASSUME NEW c \in Requests, StoreReads(c) PROVE TypeOK'
  <2>1. call[c].key \in Keys /\ call[c].rep \in Replicas /\ row[call[c].key] \in States
    BY <1>4 DEF StoreReads, TypeOK
  <2>2. call' \in [Requests -> Calls]
    <3>1. call[c] \in Calls
      BY DEF TypeOK
    <3>2. [[call[c] EXCEPT !.at = "read"] EXCEPT !.value = row[call[c].key]] \in Calls
      BY <2>1, <3>1 DEF Calls
    <3> QED
      BY <1>4, <3>2 DEF StoreReads, TypeOK
  <2>3. \A d \in Requests : call'[d].rep = call[d].rep /\ call'[d].key = call[d].key
                            /\ (call'[d].at # "idle" => call[d].at # "idle")
    BY <1>4 DEF StoreReads, TypeOK, Calls
  <2> QED
    BY <1>4, <2>2, <2>3 DEF StoreReads, TypeOK
<1>5. ASSUME NEW c \in Requests, Remembers(c) PROVE TypeOK'
  <2>1. /\ call[c].key \in Keys /\ call[c].rep \in Replicas
        /\ call[c].value \in States /\ call[c].began \in 0 .. Horizon
    BY <1>5 DEF Remembers, TypeOK, Calls
  <2>2. held' \in [Replicas -> SUBSET Keys] /\ cache' \in [Replicas -> [Keys -> Entries]]
    BY <1>5, <2>1, RememberFacts DEF Remembers
  <2>3. call' \in [Requests -> Calls]
    BY <1>5 DEF Remembers, TypeOK, Calls
  <2>4. \A d \in Requests : call'[d].rep = call[d].rep /\ call'[d].key = call[d].key
                            /\ (call'[d].at # "idle" => call[d].at # "idle")
    BY <1>5 DEF Remembers, TypeOK, Calls
  <2> QED
    BY <1>5, <2>2, <2>3, <2>4 DEF Remembers, TypeOK
<1>6. ASSUME NEW k \in Keys, Warms(k) PROVE TypeOK'
  <2>1. maker[k] \in Replicas /\ clock \in 0 .. Horizon /\ "live" \in States
    BY <1>6 DEF Warms, TypeOK, States
  <2>2. held' \in [Replicas -> SUBSET Keys] /\ cache' \in [Replicas -> [Keys -> Entries]]
    BY <1>6, <2>1, RememberFacts DEF Warms
  <2> QED
    BY <1>6, <2>1, <2>2 DEF Warms, TypeOK
<1>7. ASSUME NEW k \in Keys, Evicts(k) PROVE TypeOK'
  <2>1. revoker[k] \in Replicas
    BY <1>7 DEF Evicts, TypeOK
  <2>2. Empty \in Entries
    BY DEF Empty, Entries, States
  <2>3. held' \in [Replicas -> SUBSET Keys]
    BY <1>7, <2>1 DEF Evicts, TypeOK
  <2>4. cache' \in [Replicas -> [Keys -> Entries]]
    BY <1>7, <2>1, <2>2 DEF Evicts, TypeOK
  <2> QED
    BY <1>7, <2>1, <2>3, <2>4 DEF Evicts, TypeOK
<1>8. ASSUME NEW r \in Replicas, NEW k \in Keys, Creates(r, k) PROVE TypeOK'
  BY <1>8 DEF Creates, TypeOK, States
<1>9. ASSUME NEW r \in Replicas, NEW k \in Keys, Revokes(r, k) PROVE TypeOK'
  BY <1>9 DEF Revokes, TypeOK, States
<1>10. CASE UNCHANGED vars
  BY <1>10 DEF vars, TypeOK
<1> QED
  BY <1>1, <1>2, <1>3, <1>4, <1>5, <1>6, <1>7, <1>8, <1>9, <1>10 DEF Next

\* Every state of the caches, of the requests and of the table is well typed.
THEOREM TypeCorrect == Spec => []TypeOK
  BY TypeInit, TypeNext, PTL DEF Spec

-----------------------------------------------------------------------------
(* Memory.  No step but remember() adds an entry, and it makes room first.  *)

Sized == \A r \in Replicas : IsFiniteSet(held[r]) /\ Cardinality(held[r]) <= MaxEntries

\* remember() leaves at most MaxEntries entries, be the cache full of current
\* entries, of expired ones, or not full at all.
LEMMA RememberSize ==
  ASSUME TypeOK, Sized, NEW r \in Replicas, NEW k, NEW v, NEW t, Remember(r, k, v, t)
  PROVE  Sized'
<1>1. PICK kept \in RoomMade(r, t) : held' = [held EXCEPT ![r] = kept \cup {k}]
  BY DEF Remember
<1>2. IsFiniteSet(held[r]) /\ Cardinality(held[r]) \in Nat /\ Cardinality(held[r]) <= MaxEntries
  BY FS_CardinalityType DEF Sized
<1>3. IsFiniteSet(kept) /\ Cardinality(kept) + 1 <= MaxEntries
  <2>1. CASE Cardinality(held[r]) < MaxEntries
    BY <1>1, <1>2, <2>1, Numbers DEF RoomMade
  <2>2. CASE ~(Cardinality(held[r]) < MaxEntries)
    <3>1. IsFiniteSet(Current(r, t)) /\ Cardinality(Current(r, t)) \in Nat
          /\ Cardinality(Current(r, t)) <= Cardinality(held[r])
      <4>1. Current(r, t) \subseteq held[r]
        BY DEF Current
      <4> QED
        BY <1>2, <4>1, FS_Subset, FS_CardinalityType
    <3>2. CASE Cardinality(Current(r, t)) < MaxEntries
      BY <1>1, <2>2, <3>1, <3>2, Numbers DEF RoomMade
    <3>3. CASE ~(Cardinality(Current(r, t)) < MaxEntries)
      <4>1. PICK j \in Current(r, t) : kept = Current(r, t) \ {j}
        BY <1>1, <2>2, <3>3 DEF RoomMade
      <4>2. IsFiniteSet(kept) /\ Cardinality(kept) = Cardinality(Current(r, t)) - 1
        BY <3>1, <4>1, FS_RemoveElement
      <4> QED
        BY <1>2, <3>1, <4>2, Numbers
    <3> QED
      BY <3>2, <3>3
  <2> QED
    BY <2>1, <2>2
<1>4. IsFiniteSet(kept \cup {k}) /\ Cardinality(kept \cup {k}) <= MaxEntries
  BY <1>3, FS_AddElement, FS_CardinalityType, Numbers
<1>5. \A q \in Replicas : held'[q] = IF q = r THEN kept \cup {k} ELSE held[q]
  BY <1>1 DEF TypeOK
<1> QED
  BY <1>4, <1>5 DEF Sized

\* "A flood of distinct junk keys cannot grow memory": the bound of every
\* cache holds whatever is looked up, created and revoked.
THEOREM CacheTheorem == Spec => []CacheBounded
<1>1. Init => Sized
  BY FS_EmptySet, Numbers DEF Init, Sized
<1>2. TypeOK /\ Sized /\ [Next]_vars => Sized'
  <2> SUFFICES ASSUME TypeOK, Sized, [Next]_vars PROVE Sized'
    OBVIOUS
  <2>1. CASE UNCHANGED held
    BY <2>1 DEF Sized
  <2>2. ASSUME NEW c \in Requests, Remembers(c) PROVE Sized'
    <3>1. call[c].rep \in Replicas
      BY <2>2 DEF Remembers, TypeOK
    <3> QED
      BY <2>2, <3>1, RememberSize DEF Remembers
  <2>3. ASSUME NEW k \in Keys, Warms(k) PROVE Sized'
    <3>1. maker[k] \in Replicas
      BY <2>3 DEF Warms, TypeOK
    <3> QED
      BY <2>3, <3>1, RememberSize DEF Warms
  <2>4. ASSUME NEW k \in Keys, Evicts(k) PROVE Sized'
    <3>1. revoker[k] \in Replicas
      BY <2>4 DEF Evicts, TypeOK
    <3>2. \A q \in Replicas : held'[q] \subseteq held[q]
      BY <2>4, <3>1 DEF Evicts, TypeOK
    <3>3. ASSUME NEW q \in Replicas
          PROVE  IsFiniteSet(held'[q]) /\ Cardinality(held'[q]) <= MaxEntries
      <4>1. IsFiniteSet(held[q]) /\ Cardinality(held[q]) <= MaxEntries
        BY DEF Sized
      <4>2. /\ IsFiniteSet(held'[q])
            /\ Cardinality(held'[q]) <= Cardinality(held[q])
            /\ Cardinality(held'[q]) \in Nat /\ Cardinality(held[q]) \in Nat
        BY <3>2, <4>1, FS_Subset, FS_CardinalityType
      <4> QED
        BY <4>1, <4>2, Numbers
    <3> QED
      BY <3>3 DEF Sized
  <2>5. CASE Tick \/ UNCHANGED vars
    BY <2>1, <2>5 DEF Tick, vars
  <2>6. ASSUME NEW c \in Requests, NEW r \in Replicas, NEW k \in Keys,
               StoreReads(c) \/ Hits(c, r, k) \/ Misses(c, r, k)
        PROVE  Sized'
    BY <2>1, <2>6 DEF StoreReads, Hits, Misses
  <2>7. ASSUME NEW r \in Replicas, NEW k \in Keys, Creates(r, k) \/ Revokes(r, k)
        PROVE  Sized'
    BY <2>1, <2>7 DEF Creates, Revokes
  <2>8. ASSUME NEW c \in Requests, StoreReads(c) PROVE Sized'
    BY <2>1, <2>8 DEF StoreReads
  <2> QED
    BY <2>2, <2>3, <2>4, <2>5, <2>6, <2>7, <2>8 DEF Next
<1>3. Sized => CacheBounded
  BY DEF Sized, CacheBounded
<1> QED
  BY <1>1, <1>2, <1>3, TypeCorrect, PTL DEF Spec

-----------------------------------------------------------------------------
(* Staleness.  An entry expires a TTL after its lookup began, and what a    *)
(* lookup brings back was true when it began or later: so whatever it says  *)
(* is outlived by the truth's last change plus a TTL.  create()'s own entry *)
(* is the exception that LastNews names.                                    *)

\* Nothing lies in the future; only a stored key is being created; a cache was
\* warmed late only with a key that had been revoked by then.
Timely ==
  /\ \A k \in Keys : since[k] <= clock
  /\ \A k \in Keys : belated[k].rep # None =>
       row[k] = "revoked" /\ since[k] <= belated[k].at /\ belated[k].at <= clock
  /\ \A r \in Replicas : \A k \in held[r] : cache[r][k].exp <= clock + TTL
  /\ \A c \in Requests : call[c].began <= clock
  /\ \A k \in Keys : maker[k] # None => row[k] # "absent" /\ belated[k].rep = None

\* An answer still on its way from the database is stale only if its lookup
\* began before the row last changed.
AnswersFresh ==
  \A c \in Requests : call[c].at = "read" /\ call[c].value # row[call[c].key] =>
    call[c].began <= since[call[c].key]

Truthful == Timely /\ StalenessBounded /\ AnswersFresh

\* What was last news on a replica is a moment between the row's last change
\* and now.
LEMMA NewsFacts ==
  ASSUME TypeOK, Timely
  PROVE  \A q \in Replicas, j \in Keys :
           LastNews(q, j) \in Nat /\ since[j] <= LastNews(q, j) /\ LastNews(q, j) <= clock
<1>1. ASSUME NEW q \in Replicas, NEW j \in Keys
      PROVE  LastNews(q, j) \in Nat /\ since[j] <= LastNews(q, j) /\ LastNews(q, j) <= clock
  <2>1. since[j] \in Nat /\ since[j] <= clock /\ belated[j].at \in Nat
    BY Numbers DEF Timely, TypeOK
  <2>2. belated[j].rep = q => since[j] <= belated[j].at /\ belated[j].at <= clock
    BY CacheAssumption DEF Timely
  <2> QED
    BY <2>1, <2>2 DEF LastNews
<1> QED
  BY <1>1

\* remember() keeps the bounds if what it remembers is true, or was still true
\* when it was last news.
LEMMA RememberFresh ==
  ASSUME TypeOK, Timely, StalenessBounded,
         NEW r \in Replicas, NEW k \in Keys, NEW v \in States, NEW t \in 0 .. Horizon,
         Remember(r, k, v, t), t <= clock,
         v # row[k] => t <= LastNews(r, k)',
         row' = row, clock' = clock,
         \A q \in Replicas, j \in Keys :
           /\ LastNews(q, j)' \in Nat /\ LastNews(q, j) \in Nat
           /\ LastNews(q, j) <= LastNews(q, j)'
  PROVE  /\ StalenessBounded'
         /\ \A q \in Replicas : \A j \in held'[q] : cache'[q][j].exp <= clock + TTL
<1>1. /\ held' \in [Replicas -> SUBSET Keys]
      /\ cache'[r][k] = [value |-> v, exp |-> t + TTL]
      /\ \A j \in held'[r] : j # k => j \in held[r] /\ cache'[r][j] = cache[r][j]
      /\ \A q \in Replicas : q # r => held'[q] = held[q] /\ cache'[q] = cache[q]
  BY RememberFacts
<1>2. ASSUME NEW q \in Replicas, NEW j \in held'[q], ~(q = r /\ j = k)
      PROVE  j \in held[q] /\ cache'[q][j] = cache[q][j]
  BY <1>1, <1>2
<1>3. /\ clock \in Nat
      /\ \A q \in Replicas : \A j \in held[q] : j \in Keys /\ cache[q][j].exp \in Nat
  BY Numbers DEF TypeOK, Entries
<1>4. ASSUME NEW q \in Replicas, NEW j \in held'[q]
      PROVE  /\ cache'[q][j].value # row'[j] => cache'[q][j].exp <= LastNews(q, j)' + TTL
             /\ cache'[q][j].exp <= clock + TTL
  <2>1. CASE q = r /\ j = k
    BY <1>1, <1>3, <2>1, Numbers
  <2>2. CASE ~(q = r /\ j = k)
    <3>1. j \in held[q] /\ cache'[q][j] = cache[q][j]
      BY <1>2, <2>2
    <3>2. cache[q][j].value # row[j] => cache[q][j].exp <= LastNews(q, j) + TTL
      BY <3>1 DEF StalenessBounded
    <3>3. cache[q][j].exp <= clock + TTL
      BY <3>1 DEF Timely
    <3>4. /\ LastNews(q, j) <= LastNews(q, j)' /\ LastNews(q, j)' \in Nat
          /\ LastNews(q, j) \in Nat /\ cache[q][j].exp \in Nat
      BY <1>3, <3>1
    <3> QED
      BY <3>1, <3>2, <3>3, <3>4, Numbers
  <2> QED
    BY <2>1, <2>2
<1> QED
  BY <1>4 DEF StalenessBounded

\* Empty caches tell no lies.
LEMMA TruthfulInit == Init => Truthful
  BY Numbers DEF Init, Idle, Never, Truthful, Timely, StalenessBounded, AnswersFresh

\* No step lets an entry or an answer outlive its truth by more than a TTL.
LEMMA TruthfulNext == TypeOK /\ Truthful /\ [Next]_vars => Truthful'
<1> SUFFICES ASSUME TypeOK, Timely, StalenessBounded, AnswersFresh, [Next]_vars
             PROVE  Timely' /\ StalenessBounded' /\ AnswersFresh'
  BY DEF Truthful
<1>0. /\ clock \in Nat /\ TTL \in Nat /\ Horizon \in Nat
      /\ \A k \in Keys : since[k] \in Nat
      /\ \A r \in Replicas : \A k \in held[r] : k \in Keys /\ cache[r][k].exp \in Nat
      /\ \A c \in Requests : call[c].began \in Nat /\ call[c].began <= Horizon
  BY Numbers DEF TypeOK, Entries, Calls
<1>n. \A q \in Replicas, j \in Keys : LastNews(q, j) \in Nat /\ since[j] <= LastNews(q, j)
                                        /\ LastNews(q, j) <= clock
  BY NewsFacts
<1>1. CASE Tick
  <2>1. Timely'
    BY <1>0, <1>1 DEF Tick, Timely, TypeOK
  <2>2. StalenessBounded' /\ AnswersFresh'
    BY <1>1 DEF Tick, StalenessBounded, AnswersFresh, LastNews
  <2> QED
    BY <2>1, <2>2
<1>2. ASSUME NEW c \in Requests, NEW r \in Replicas, NEW k \in Keys,
             Hits(c, r, k) \/ Misses(c, r, k)
      PROVE  Timely' /\ StalenessBounded' /\ AnswersFresh'
  <2>1. /\ UNCHANGED <<clock, row, held, cache, maker, since, belated>>
        /\ call'[c].began = clock /\ call'[c].at # "read"
        /\ \A d \in Requests : d # c => call'[d] = call[d]
    BY <1>2 DEF Hits, Misses, TypeOK
  <2>2. Timely'
    BY <1>0, <2>1 DEF Timely
  <2>3. StalenessBounded'
    BY <2>1 DEF StalenessBounded, LastNews
  <2>4. AnswersFresh'
    BY <2>1 DEF AnswersFresh
  <2> QED
    BY <2>2, <2>3, <2>4
<1>3. ASSUME NEW c \in Requests, StoreReads(c)
      PROVE  Timely' /\ StalenessBounded' /\ AnswersFresh'
  <2>1. /\ UNCHANGED <<clock, row, held, cache, maker, since, belated>>
        /\ call'[c].began = call[c].began /\ call'[c].key = call[c].key
        /\ call'[c].value = row[call[c].key]
        /\ \A d \in Requests : d # c => call'[d] = call[d]
    <3>1. call[c] \in Calls
      BY DEF TypeOK
    <3>2. DEFINE new == [[call[c] EXCEPT !.at = "read"] EXCEPT !.value = row[call[c].key]]
    <3>3. new.began = call[c].began /\ new.key = call[c].key /\ new.value = row[call[c].key]
      BY <3>1 DEF Calls
    <3>4. call'[c] = new /\ \A d \in Requests : d # c => call'[d] = call[d]
      BY <1>3 DEF StoreReads, TypeOK
    <3> QED
      BY <1>3, <3>3, <3>4 DEF StoreReads
  <2>2. Timely'
    BY <1>0, <2>1 DEF Timely
  <2>3. StalenessBounded'
    BY <2>1 DEF StalenessBounded, LastNews
  <2>4. AnswersFresh'
    BY <2>1 DEF AnswersFresh
  <2> QED
    BY <2>2, <2>3, <2>4
<1>4. ASSUME NEW c \in Requests, Remembers(c)
      PROVE  Timely' /\ StalenessBounded' /\ AnswersFresh'
  <2>1. /\ call[c].at = "read"
        /\ call[c].rep \in Replicas /\ call[c].key \in Keys
        /\ call[c].value \in States /\ call[c].began \in 0 .. Horizon
        /\ Remember(call[c].rep, call[c].key, call[c].value, call[c].began)
        /\ UNCHANGED <<clock, row, maker, since, belated>>
    BY <1>4 DEF Remembers, TypeOK, Calls
  <2>2. call[c].began <= clock
    BY DEF Timely
  <2>3. \A q \in Replicas, j \in Keys : LastNews(q, j)' = LastNews(q, j)
    BY <2>1 DEF LastNews
  <2>4. PICK r \in Replicas, k \in Keys : r = call[c].rep /\ k = call[c].key
    BY <2>1
  <2>n. call[c].value # row[k] => call[c].began <= LastNews(r, k)'
    <3>1. call[c].value # row[k] => call[c].began <= since[k]
      BY <2>1, <2>4 DEF AnswersFresh
    <3>2. call[c].began \in Nat /\ since[k] \in Nat
      BY <1>0
    <3>3. since[k] <= LastNews(r, k) /\ LastNews(r, k) \in Nat
      BY <1>n
    <3> QED
      BY <2>3, <3>1, <3>2, <3>3
  <2>5. /\ StalenessBounded'
        /\ \A q \in Replicas : \A j \in held'[q] : cache'[q][j].exp <= clock + TTL
    <3>1. PICK v \in States, t \in 0 .. Horizon : v = call[c].value /\ t = call[c].began
      BY <2>1
    <3>2. Remember(r, k, v, t) /\ t <= clock /\ row' = row /\ clock' = clock
      BY <2>1, <2>2, <2>4, <3>1
    <3>3. v # row[k] => t <= LastNews(r, k)'
      BY <2>n, <3>1
    <3>4. \A q \in Replicas, j \in Keys :
            /\ LastNews(q, j)' \in Nat /\ LastNews(q, j) \in Nat
            /\ LastNews(q, j) <= LastNews(q, j)'
      BY <1>n, <2>3
    <3> QED
      BY <3>2, <3>3, <3>4, RememberFresh
  <2>6. /\ \A d \in Requests : call'[d].began = call[d].began
        /\ call'[c].at = "answered"
        /\ \A d \in Requests : d # c => call'[d] = call[d]
    BY <1>4 DEF Remembers, TypeOK, Calls
  <2>7. Timely'
    BY <2>1, <2>5, <2>6 DEF Timely
  <2>8. AnswersFresh'
    BY <2>1, <2>6 DEF AnswersFresh
  <2> QED
    BY <2>5, <2>7, <2>8
<1>5. ASSUME NEW k \in Keys, Warms(k)
      PROVE  Timely' /\ StalenessBounded' /\ AnswersFresh'
  <2>1. /\ maker[k] \in Replicas /\ clock \in 0 .. Horizon /\ "live" \in States
        /\ Remember(maker[k], k, "live", clock)
        /\ UNCHANGED <<clock, row, call, since>>
        /\ \A j \in Keys : belated'[j] = IF j = k /\ row[k] = "revoked"
                                          THEN [rep |-> maker[k], at |-> clock] ELSE belated[j]
        /\ \A j \in Keys : maker'[j] = IF j = k THEN None ELSE maker[j]
    BY <1>5 DEF Warms, TypeOK, States
  <2>2. row[k] \in {"live", "revoked"}
    <3>1. maker[k] # None /\ row[k] \in States
      BY <1>5 DEF Warms, TypeOK
    <3> QED
      BY <3>1 DEF Timely, States
  <2>3. \A q \in Replicas, j \in Keys :
          /\ LastNews(q, j)' \in Nat /\ LastNews(q, j) \in Nat
          /\ LastNews(q, j) <= LastNews(q, j)'
    <3>1. ASSUME NEW q \in Replicas, NEW j \in Keys
          PROVE  /\ LastNews(q, j)' \in Nat /\ LastNews(q, j) \in Nat
                 /\ LastNews(q, j) <= LastNews(q, j)'
      <4>1. /\ LastNews(q, j) \in Nat /\ since[j] <= LastNews(q, j)
            /\ LastNews(q, j) <= clock /\ since[j] \in Nat
        BY <1>0, <1>n
      <4>2. CASE j = k /\ row[k] = "revoked" /\ q = maker[k]
        <5>1. LastNews(q, j)' = clock
          BY <2>1, <4>2 DEF LastNews
        <5> QED
          BY <1>0, <4>1, <5>1
      <4>3. CASE j = k /\ row[k] = "revoked" /\ q # maker[k]
        <5>1. LastNews(q, j)' = since[j]
          BY <2>1, <4>3 DEF LastNews
        <5>2. belated[j].rep = None
          BY <1>5, <4>3 DEF Timely, Warms
        <5>3. LastNews(q, j) = since[j]
          BY <5>2, CacheAssumption DEF LastNews
        <5> QED
          BY <4>1, <5>1, <5>3
      <4>4. CASE ~(j = k /\ row[k] = "revoked")
        <5>1. LastNews(q, j)' = LastNews(q, j)
          BY <2>1, <4>4 DEF LastNews
        <5> QED
          BY <4>1, <5>1
      <4> QED
        BY <4>2, <4>3, <4>4
    <3> QED
      BY <3>1
  <2>m. PICK m \in Replicas : m = maker[k]
    BY <2>1
  <2>4. "live" # row[k] => clock <= LastNews(m, k)'
    <3>1. ASSUME "live" # row[k] PROVE LastNews(m, k)' = clock
      <4>1. row[k] = "revoked"
        BY <2>2, <3>1
      <4>2. belated'[k] = [rep |-> m, at |-> clock]
        BY <2>1, <2>m, <4>1
      <4> QED
        BY <4>2 DEF LastNews
    <3> QED
      BY <1>0, <3>1
  <2>5. /\ StalenessBounded'
        /\ \A q \in Replicas : \A j \in held'[q] : cache'[q][j].exp <= clock + TTL
    <3>1. PICK t \in 0 .. Horizon : t = clock
      BY <2>1
    <3>2. Remember(m, k, "live", t) /\ t <= clock /\ row' = row /\ clock' = clock
      BY <1>0, <2>1, <2>m, <3>1
    <3>3. "live" # row[k] => t <= LastNews(m, k)'
      BY <2>4, <3>1
    <3> QED
      BY <2>1, <2>3, <3>2, <3>3, RememberFresh
  <2>6. Timely'
    BY <1>0, <2>1, <2>5 DEF Timely
  <2>7. AnswersFresh'
    BY <2>1 DEF AnswersFresh
  <2> QED
    BY <2>5, <2>6, <2>7
<1>6. ASSUME NEW k \in Keys, Evicts(k)
      PROVE  Timely' /\ StalenessBounded' /\ AnswersFresh'
  <2>1. revoker[k] \in Replicas /\ UNCHANGED <<clock, row, call, maker, since, belated>>
    BY <1>6 DEF Evicts, TypeOK
  <2>2. \A r \in Replicas : \A j \in held'[r] : j \in held[r] /\ cache'[r][j] = cache[r][j]
    BY <1>6, <2>1 DEF Evicts, TypeOK
  <2>3. Timely'
    BY <2>1, <2>2 DEF Timely
  <2>4. StalenessBounded'
    BY <2>1, <2>2 DEF StalenessBounded, LastNews
  <2>5. AnswersFresh'
    BY <2>1 DEF AnswersFresh
  <2> QED
    BY <2>3, <2>4, <2>5
<1>7. ASSUME NEW r \in Replicas, NEW k \in Keys, Creates(r, k) \/ Revokes(r, k)
      PROVE  Timely' /\ StalenessBounded' /\ AnswersFresh'
  <2>1. /\ UNCHANGED <<clock, held, cache, call, belated>>
        /\ \A j \in Keys : since'[j] = IF j = k THEN clock ELSE since[j]
        /\ \A j \in Keys : j # k => row'[j] = row[j] /\ maker'[j] = maker[j]
        /\ row'[k] # "absent"
        /\ row[k] # "revoked"
    BY <1>7 DEF Creates, Revokes, TypeOK
  <2>2. Timely'
    BY <1>0, <2>1 DEF Timely
  <2>n. \A q \in Replicas, j \in Keys :
          LastNews(q, j)' = IF j = k THEN clock ELSE LastNews(q, j)
    <3>1. ASSUME NEW q \in Replicas, NEW j \in Keys
          PROVE  LastNews(q, j)' = IF j = k THEN clock ELSE LastNews(q, j)
      <4>1. CASE j # k
        BY <2>1, <4>1 DEF LastNews
      <4>2. CASE j = k
        <5>1. belated[k].rep # q
          BY <2>1, CacheAssumption DEF Timely
        <5> QED
          BY <2>1, <4>2, <5>1 DEF LastNews
      <4> QED
        BY <4>1, <4>2
    <3> QED
      BY <3>1
  <2>3. StalenessBounded'
    <3>1. ASSUME NEW q \in Replicas, NEW j \in held[q], cache[q][j].value # row'[j]
          PROVE  cache[q][j].exp <= LastNews(q, j)' + TTL
      <4>1. j \in Keys /\ cache[q][j].exp <= clock + TTL
        BY <1>0 DEF Timely
      <4>2. CASE j = k
        BY <2>n, <4>1, <4>2
      <4>3. CASE j # k
        BY <2>1, <2>n, <3>1, <4>1, <4>3 DEF StalenessBounded
      <4> QED
        BY <4>2, <4>3
    <3> QED
      BY <2>1, <3>1 DEF StalenessBounded
  <2>4. AnswersFresh'
    <3>1. ASSUME NEW c \in Requests, call[c].at = "read", call[c].value # row'[call[c].key]
          PROVE  call[c].began <= since'[call[c].key]
      <4>1. call[c].key \in Keys /\ call[c].began <= clock
        BY <3>1 DEF TypeOK, Timely
      <4>2. CASE call[c].key = k
        BY <2>1, <4>1, <4>2
      <4>3. CASE call[c].key # k
        BY <2>1, <3>1, <4>1, <4>3 DEF AnswersFresh
      <4> QED
        BY <4>2, <4>3
    <3> QED
      BY <2>1, <3>1 DEF AnswersFresh
  <2> QED
    BY <2>2, <2>3, <2>4
<1>8. CASE UNCHANGED vars
  BY <1>8 DEF vars, Timely, StalenessBounded, AnswersFresh, LastNews
<1> QED
  BY <1>1, <1>2, <1>3, <1>4, <1>5, <1>6, <1>7, <1>8 DEF Next

\* The invariant holds in every reachable state.
LEMMA TruthfulCorrect == Spec => []Truthful
  BY TruthfulInit, TruthfulNext, TypeCorrect, PTL DEF Spec

\* No cached answer outlives the truth by more than a TTL, on any replica,
\* however lookups, creations and revocations overlap.
THEOREM StalenessTheorem == Spec => []StalenessBounded
<1>1. Truthful => StalenessBounded
  BY DEF Truthful
<1> QED
  BY <1>1, TruthfulCorrect, PTL


-----------------------------------------------------------------------------
(* Revocation.  With a TTL of zero a lookup may still let in a request that *)
(* arrived in the very tick of the revocation, so the TTL is not zero here. *)

\* An answer about to be remembered that a revocation has overtaken belongs to
\* a request that arrived before it, hence well before a TTL after it.
LEMMA BitesNext ==
  ASSUME TTL # 0
  PROVE  TypeOK /\ Truthful /\ RevocationBites /\ [Next]_vars => RevocationBites'
<1> SUFFICES ASSUME TypeOK, Timely, StalenessBounded, AnswersFresh,
                    RevocationBites, [Next]_vars,
                    NEW d \in Requests, call'[d].at = "answered",
                    call'[d].value = "live", row'[call'[d].key] = "revoked"
             PROVE  (call[d].began < LastNews(call[d].rep, call[d].key) + TTL)'
  BY DEF Truthful, RevocationBites
<1>0. /\ clock \in Nat /\ TTL \in Nat \ {0}
      /\ \A k \in Keys : since[k] \in Nat /\ since[k] <= clock
      /\ call[d].began \in Nat /\ call[d].began <= clock
      /\ call[d].at # "idle" => call[d].key \in Keys /\ call[d].rep \in Replicas
  BY Numbers DEF TypeOK, Calls, Timely
<1>n. \A q \in Replicas, j \in Keys : LastNews(q, j) \in Nat /\ since[j] <= LastNews(q, j)
                                        /\ LastNews(q, j) <= clock
  BY NewsFacts
<1>1. ASSUME UNCHANGED <<call, row, since, belated>>
      PROVE  (call[d].began < LastNews(call[d].rep, call[d].key) + TTL)'
  BY <1>1 DEF RevocationBites, LastNews
<1>2. ASSUME NEW c \in Requests, NEW r \in Replicas, NEW k \in Keys, Hits(c, r, k)
      PROVE  (call[d].began < LastNews(call[d].rep, call[d].key) + TTL)'
  <2>1. CASE d = c
    <3>1. /\ call'[d].began = clock /\ call'[d].rep = r /\ call'[d].key = k
          /\ call'[d].value = cache[r][k].value
          /\ UNCHANGED <<since, belated>> /\ row' = row
          /\ k \in held[r] /\ cache[r][k].exp > clock
      BY <1>2, <2>1 DEF Hits, Hit, TypeOK
    <3>2. cache[r][k].value # row[k]
      BY <3>1
    <3>3. cache[r][k].exp <= LastNews(r, k) + TTL
      BY <3>1, <3>2 DEF StalenessBounded
    <3>4. cache[r][k].exp \in Nat
      BY Numbers DEF TypeOK, Entries
    <3> QED
      <4>1. LastNews(r, k) \in Nat /\ clock < LastNews(r, k) + TTL
        BY <1>0, <1>n, <3>1, <3>3, <3>4
      <4> QED
        BY <3>1, <4>1 DEF LastNews
  <2>2. CASE d # c
    <3>1. call'[d] = call[d] /\ UNCHANGED <<since, belated>> /\ row' = row
      BY <1>2, <2>2 DEF Hits, TypeOK
    <3> QED
      BY <3>1 DEF RevocationBites, LastNews
  <2> QED
    BY <2>1, <2>2
<1>3. ASSUME NEW c \in Requests, NEW r \in Replicas, NEW k \in Keys, Misses(c, r, k)
      PROVE  (call[d].began < LastNews(call[d].rep, call[d].key) + TTL)'
  <2>1. /\ UNCHANGED <<since, belated>> /\ row' = row
        /\ call'[d] = call[d] \/ call'[d].at = "asking"
    BY <1>3 DEF Misses, TypeOK
  <2> QED
    BY <2>1 DEF RevocationBites, LastNews
<1>4. ASSUME NEW c \in Requests, StoreReads(c)
      PROVE  (call[d].began < LastNews(call[d].rep, call[d].key) + TTL)'
  <2>1. /\ UNCHANGED <<since, belated>> /\ row' = row
        /\ d # c => call'[d] = call[d]
    BY <1>4 DEF StoreReads, TypeOK
  <2>2. d # c
    <3>1. call[c] \in Calls
      BY DEF TypeOK
    <3>2. [[call[c] EXCEPT !.at = "read"] EXCEPT !.value = row[call[c].key]].at = "read"
      BY <3>1 DEF Calls
    <3>3. call'[c].at = "read"
      BY <1>4, <3>2 DEF StoreReads, TypeOK
    <3> QED
      BY <3>3
  <2> QED
    BY <2>1, <2>2 DEF RevocationBites, LastNews
<1>5. ASSUME NEW c \in Requests, Remembers(c)
      PROVE  (call[d].began < LastNews(call[d].rep, call[d].key) + TTL)'
  <2>1. /\ UNCHANGED <<since, belated>> /\ row' = row /\ call[c].at = "read"
        /\ call'[d].began = call[d].began /\ call'[d].key = call[d].key
        /\ call'[d].value = call[d].value
        /\ d # c => call'[d] = call[d]
    BY <1>5 DEF Remembers, TypeOK, Calls
  <2>2. CASE d = c
    <3>1. call[d].began <= since[call[d].key]
          /\ call[d].key \in Keys /\ call[d].rep \in Replicas
      BY <1>0, <2>1, <2>2 DEF AnswersFresh
    <3>2. call[d].began < LastNews(call[d].rep, call[d].key) + TTL
      BY <1>0, <1>n, <3>1
    <3>3. call'[d].rep = call[d].rep
      BY <1>5 DEF Remembers, TypeOK, Calls
    <3> QED
      BY <2>1, <3>2, <3>3 DEF LastNews
  <2>3. CASE d # c
    BY <2>1, <2>3 DEF RevocationBites, LastNews
  <2> QED
    BY <2>2, <2>3
<1>6. ASSUME NEW k \in Keys, Warms(k)
      PROVE  (call[d].began < LastNews(call[d].rep, call[d].key) + TTL)'
  <2>1. /\ call' = call /\ row' = row /\ since' = since
        /\ \A j \in Keys : belated'[j] = IF j = k /\ row[k] = "revoked"
                                          THEN [rep |-> maker[k], at |-> clock] ELSE belated[j]
    BY <1>6 DEF Warms, TypeOK
  <2>2. /\ call[d].key \in Keys /\ call[d].rep \in Replicas
        /\ call[d].began < LastNews(call[d].rep, call[d].key) + TTL
    BY <1>0, <2>1 DEF RevocationBites
  <2>3. LastNews(call[d].rep, call[d].key) <= clock
        /\ LastNews(call[d].rep, call[d].key) \in Nat
    BY <1>n, <2>2
  <2>4. CASE ~(call[d].key = k /\ row[k] = "revoked")
    BY <2>1, <2>2, <2>4 DEF LastNews
  <2>5. CASE call[d].key = k /\ row[k] = "revoked" /\ maker[k] = call[d].rep
    BY <1>0, <2>1, <2>5 DEF LastNews
  <2>6. CASE call[d].key = k /\ row[k] = "revoked" /\ maker[k] # call[d].rep
    <3>1. belated[k].rep # call[d].rep
      BY <1>6, <2>2, CacheAssumption DEF Timely, Warms
    <3> QED
      BY <2>1, <2>2, <2>6, <3>1 DEF LastNews
  <2> QED
    BY <2>4, <2>5, <2>6
<1>7. ASSUME NEW r \in Replicas, NEW k \in Keys, Creates(r, k) \/ Revokes(r, k)
      PROVE  (call[d].began < LastNews(call[d].rep, call[d].key) + TTL)'
  <2>1. /\ call' = call /\ belated' = belated
        /\ \A j \in Keys : since'[j] = IF j = k THEN clock ELSE since[j]
        /\ \A j \in Keys : j # k => row'[j] = row[j]
        /\ row[k] # "revoked"
    BY <1>7 DEF Creates, Revokes, TypeOK
  <2>2. call[d].key \in Keys /\ call[d].rep \in Replicas
    BY <1>0, <2>1
  <2>3. CASE call[d].key = k
    <3>1. belated[k].rep # call[d].rep
      BY <2>1, <2>2, CacheAssumption DEF Timely
    <3> QED
      BY <1>0, <2>1, <2>3, <3>1 DEF LastNews
  <2>4. CASE call[d].key # k
    BY <2>1, <2>2, <2>4 DEF RevocationBites, LastNews
  <2> QED
    BY <2>3, <2>4
<1>8. CASE Tick \/ UNCHANGED vars
  BY <1>1, <1>8 DEF Tick, vars
<1>9. ASSUME NEW k \in Keys, Evicts(k)
      PROVE  (call[d].began < LastNews(call[d].rep, call[d].key) + TTL)'
  BY <1>1, <1>9 DEF Evicts
<1> QED
  BY <1>2, <1>3, <1>4, <1>5, <1>6, <1>7, <1>8, <1>9 DEF Next

\* A request that comes a TTL after a revocation is let in on no replica but the
\* one whose create() warmed its cache with the revoked key, and there no later
\* than a TTL after that.
THEOREM RevocationTheorem ==
  ASSUME TTL # 0
  PROVE  Spec => []RevocationBites
<1>1. Init => RevocationBites
  BY DEF Init, Idle, RevocationBites
<1>2. TypeOK /\ Truthful /\ RevocationBites /\ [Next]_vars => RevocationBites'
  BY BitesNext
<1> QED
  BY <1>1, <1>2, TypeCorrect, TruthfulCorrect, PTL DEF Spec
=============================================================================
