--------------------------- MODULE WriteKeyCache ---------------------------
(***************************************************************************)
(* CachedWriteKeyStore, packages/core/src/writekeys/cache.ts, one per      *)
(* replica, in front of PostgresWriteKeyStore, and the middleware that     *)
(* asks it for every /v1 request (packages/core/src/server/writekey.ts).   *)
(*                                                                         *)
(* Each await is a step boundary: the time of a lookup is taken before the *)
(* database is asked, and the answer is remembered after it has come back. *)
(* Which entry is the oldest does not matter here, so a full cache gives   *)
(* up any one of them.                                                     *)
(***************************************************************************)
EXTENDS Integers, FiniteSets

CONSTANTS Replicas,
          Keys,       \* keys that requests present
          Stored,     \* those in the database when the replicas start
          New,        \* those that may be created; until then they are junk
          Requests,   \* slots for /v1 requests in flight
          TTL,        \* ttlMs, in ticks
          MaxEntries, \* maxEntries
          Horizon     \* bound on the clock

None == "none"

ASSUME CacheAssumption == /\ TTL \in Nat /\ Horizon \in Nat
                          /\ MaxEntries \in Nat \ {0}
                          /\ Stored \subseteq Keys /\ New \subseteq Keys \ Stored
                          /\ None \notin Replicas \cup Keys

States  == {"absent", "live", "revoked"}
Entries == [value : States, exp : 0 .. Horizon + TTL]
Empty   == [value |-> "absent", exp |-> 0]   \* no entry, and an expired one

VARIABLES clock,
          row,      \* each key in the database
          held,     \* each replica: the keys it has an entry for
          cache,    \* each replica: the entries
          call,     \* each request slot
          maker,    \* replica whose create() of the key has not returned
          revoker,  \* replica whose revoke() of the key has not returned
          revokedOn,\* replica on which revoke() has returned (history)
          since,    \* when its row last changed (history)
          belated   \* where and when create() warmed a cache with a key revoked
                    \* before it returned (history)

vars == <<clock, row, held, cache, call, maker, revoker, revokedOn, since, belated>>

Idle  == [at |-> "idle", rep |-> None, key |-> None, began |-> 0,
          value |-> "absent", late |-> FALSE]

Never == [rep |-> None, at |-> 0]

Init == /\ clock = 0
        /\ row     = [k \in Keys |-> IF k \in Stored THEN "live" ELSE "absent"]
        /\ held    = [r \in Replicas |-> {}]
        /\ cache   = [r \in Replicas |-> [k \in Keys |-> Empty]]
        /\ call    = [c \in Requests |-> Idle]
        /\ maker   = [k \in Keys |-> None]
        /\ revoker = [k \in Keys |-> None]
        /\ revokedOn = [k \in Keys |-> None]
        /\ since   = [k \in Keys |-> 0]
        /\ belated = [k \in Keys |-> Never]

-----------------------------------------------------------------------------
(* Mutants: plausible slips in the definitions below.  No action uses them. *)

ExpiryFromAnswer(t) == clock + TTL
HitOnExpiry(r, k)   == k \in held[r] /\ cache[r][k].exp >= clock

-----------------------------------------------------------------------------
\* A cached answer that is still good now.
Hit(r, k) == k \in held[r] /\ cache[r][k].exp > clock

\* An answer looked up at t expires at:
Expiry(t) == t + TTL

\* What remember() leaves before it adds: a full cache drops what has expired
\* by t and, if that is not enough, its oldest entry.
Current(r, t) == {k \in held[r] : cache[r][k].exp > t}
RoomMade(r, t) ==
  IF Cardinality(held[r]) < MaxEntries THEN {held[r]}
  ELSE IF Cardinality(Current(r, t)) < MaxEntries THEN {Current(r, t)}
  ELSE {Current(r, t) \ {k} : k \in Current(r, t)}

Remember(r, k, value, t) ==
  \E kept \in RoomMade(r, t) :
    /\ held' = [held EXCEPT ![r] = kept \cup {k}]
    /\ cache' = [cache EXCEPT ![r] =
                   [j \in Keys |-> IF j = k THEN [value |-> value, exp |-> Expiry(t)]
                                   ELSE IF j \in kept THEN cache[r][j] ELSE Empty]]

-----------------------------------------------------------------------------
\* A slot whose last request has been judged by its answer takes another one.
Free(c) == call[c].at \in {"idle", "answered"}

\* authenticate() up to its first database await: a hit is an answer ...
Hits(c, r, k) ==
  /\ Free(c) /\ Hit(r, k)
  /\ call' = [call EXCEPT ![c] = [at |-> "answered", rep |-> r, key |-> k,
                                  began |-> clock, value |-> cache[r][k].value,
                                  late |-> revokedOn[k] = r]]
  /\ UNCHANGED <<clock, row, held, cache, maker, revoker, revokedOn, since, belated>>

\* ... and a miss asks the store, remembering the time.
Misses(c, r, k) ==
  /\ Free(c) /\ ~Hit(r, k)
  /\ call' = [call EXCEPT ![c] = [at |-> "asking", rep |-> r, key |-> k,
                                  began |-> clock, value |-> "absent",
                                  late |-> revokedOn[k] = r]]
  /\ UNCHANGED <<clock, row, held, cache, maker, revoker, revokedOn, since, belated>>

\* The database reads the key's row.
StoreReads(c) ==
  /\ call[c].at = "asking"
  /\ call' = [call EXCEPT ![c].at = "read", ![c].value = row[call[c].key]]
  /\ UNCHANGED <<clock, row, held, cache, maker, revoker, revokedOn, since, belated>>

\* The answer arrives: it is remembered and returned.
Remembers(c) ==
  /\ call[c].at = "read"
  /\ Remember(call[c].rep, call[c].key, call[c].value, call[c].began)
  /\ call' = [call EXCEPT ![c].at = "answered"]
  /\ UNCHANGED <<clock, row, maker, revoker, revokedOn, since, belated>>

-----------------------------------------------------------------------------
\* create(): the INSERT, ...
Creates(r, k) ==
  /\ k \in New /\ row[k] = "absent"
  /\ row' = [row EXCEPT ![k] = "live"]
  /\ since' = [since EXCEPT ![k] = clock]
  /\ maker' = [maker EXCEPT ![k] = r]
  /\ UNCHANGED <<clock, held, cache, call, revoker, revokedOn, belated>>

\* ... then the entry that warms this replica's cache, also if the key was
\* revoked meanwhile (its id is in list() from the INSERT on).
Warms(k) ==
  /\ maker[k] # None
  /\ Remember(maker[k], k, "live", clock)
  /\ belated' = IF row[k] = "revoked"
                  THEN [belated EXCEPT ![k] = [rep |-> maker[k], at |-> clock]]
                  ELSE belated
  /\ maker' = [maker EXCEPT ![k] = None]
  /\ UNCHANGED <<clock, row, call, revoker, revokedOn, since>>

\* revoke(): the UPDATE of a key that is not disabled yet, ...
Revokes(r, k) ==
  /\ row[k] = "live"
  /\ row' = [row EXCEPT ![k] = "revoked"]
  /\ since' = [since EXCEPT ![k] = clock]
  /\ revoker' = [revoker EXCEPT ![k] = r]
  /\ UNCHANGED <<clock, held, cache, call, maker, revokedOn, belated>>

\* ... then evictById on this replica: an entry that holds the key, not one
\* that remembers its absence.
Evictable(r, k) == {k} \cap {j \in held[r] : cache[r][j].value # "absent"}

Evicts(k) ==
  /\ revoker[k] # None
  /\ held' = [held EXCEPT ![revoker[k]] = @ \ Evictable(revoker[k], k)]
  /\ cache' = [cache EXCEPT ![revoker[k]] =
                 [j \in Keys |-> IF j \in Evictable(revoker[k], k) THEN Empty ELSE @[j]]]
  /\ revokedOn' = [revokedOn EXCEPT ![k] = revoker[k]]
  /\ revoker' = [revoker EXCEPT ![k] = None]
  /\ UNCHANGED <<clock, row, call, maker, since, belated>>

Tick == /\ clock < Horizon
        /\ clock' = clock + 1
        /\ UNCHANGED <<row, held, cache, call, maker, revoker, revokedOn, since, belated>>

Next == \/ Tick
        \/ \E c \in Requests : \/ StoreReads(c) \/ Remembers(c)
                               \/ \E r \in Replicas, k \in Keys :
                                    Hits(c, r, k) \/ Misses(c, r, k)
        \/ \E k \in Keys : \/ Warms(k) \/ Evicts(k)
                           \/ \E r \in Replicas : Creates(r, k) \/ Revokes(r, k)

Spec == Init /\ [][Next]_vars

-----------------------------------------------------------------------------
Calls == [at : {"idle", "asking", "read", "answered"},
          rep : Replicas \cup {None}, key : Keys \cup {None},
          began : 0 .. Horizon, value : States, late : BOOLEAN]

TypeOK == /\ clock \in 0 .. Horizon
          /\ row \in [Keys -> States]
          /\ held \in [Replicas -> SUBSET Keys]
          /\ cache \in [Replicas -> [Keys -> Entries]]
          /\ call \in [Requests -> Calls]
          /\ \A c \in Requests : call[c].at # "idle" =>
               call[c].rep \in Replicas /\ call[c].key \in Keys
          /\ maker \in [Keys -> Replicas \cup {None}]
          /\ revoker \in [Keys -> Replicas \cup {None}]
          /\ revokedOn \in [Keys -> Replicas \cup {None}]
          /\ since \in [Keys -> 0 .. Horizon]
          /\ belated \in [Keys -> [rep : Replicas \cup {None}, at : 0 .. Horizon]]

\* When the key was last news on a replica: when its row changed or, on the
\* replica whose create() reported as live a key that had been revoked by then,
\* when it did.
LastNews(r, k) == IF belated[k].rep = r THEN belated[k].at ELSE since[k]

\* However lookups, creations and revocations overlap, no entry outlives its
\* truth by more than the TTL: not one that holds a key revoked meanwhile, nor
\* one that remembers the absence of a key created meanwhile.  The one exception
\* is a key revoked before create() returned: on that replica the TTL counts
\* from the entry that create() leaves (cache.ts 74-79).
StalenessBounded ==
  \A r \in Replicas : \A k \in held[r] :
    cache[r][k].value # row[k] => cache[r][k].exp <= LastNews(r, k) + TTL

\* How late a revocation bites, whether the cache answers or a lookup: a request
\* that was let in with a revoked key came less than a TTL after the revocation
\* or, on the replica whose create() warmed its cache with the key after it had
\* been revoked, less than a TTL after that.
RevocationBites ==
  \A c \in Requests :
    call[c].at = "answered" /\ call[c].value = "live" /\ row[call[c].key] = "revoked"
      => call[c].began < LastNews(call[c].rep, call[c].key) + TTL

\* The TTL is "also the worst-case delay before a revocation bites" (cache.ts 4):
\* no request that comes a TTL after it is let in anywhere.
BitesWithinTTL ==
  \A c \in Requests :
    call[c].at = "answered" /\ call[c].value = "live" /\ row[call[c].key] = "revoked"
      => call[c].began < since[call[c].key] + TTL

\* "Bound on cached entries, so a flood of distinct junk keys cannot grow
\* memory" (cache.ts 7).
CacheBounded == \A r \in Replicas : Cardinality(held[r]) <= MaxEntries

\* "Local effect is immediate" (cache.ts 91): a request that arrives at the
\* replica on which revoke() has returned is not let in.
LocalRevocation ==
  \A c \in Requests :
    call[c].at = "answered" /\ call[c].late => call[c].value # "live"
=============================================================================
