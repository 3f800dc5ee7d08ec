----------------------------- MODULE Admission -----------------------------
(***************************************************************************)
(* How one user's requests pass the two limits that share the storage      *)
(* adapter: the in-flight counter (core/src/ratelimit/concurrency.ts) and  *)
(* one token budget (core/src/ratelimit/limiter.ts), in the order in which *)
(* the chat and embeddings handlers use them (server/routes, pipeline.ts). *)
(*                                                                         *)
(* Requests run on any replica: all they share is the storage, whose       *)
(* operations are single atomic steps (one SQL statement, or one           *)
(* synchronous update of the in-memory map).  An action is the code        *)
(* between two awaits.  Time passes in ticks; only the lifetime of the     *)
(* counter row and the duration of requests are measured in them.          *)
(***************************************************************************)
EXTENDS Integers, FiniteSets

CONSTANTS Requests,    \* names of requests; a name is used again when free
          PerUser,     \* in-flight limit per user
          TokenLimit,  \* tokens of the budget in one window
          Costs,       \* tokens an upstream answer may cost
          TTL,         \* SLOT_TTL_SECONDS, in ticks
          MaxHold,     \* bound: ticks a request stays in flight at most
          MaxSpent,    \* bound: no failed read passes a request beyond it
          Faults       \* may a storage operation fail, or a replica be killed?

ASSUME AdmissionAssumption ==
  /\ IsFiniteSet(Requests)
  /\ PerUser \in Nat \ {0} /\ TokenLimit \in Nat \ {0}
  /\ Costs \subseteq Nat \ {0}
  /\ TTL \in Nat \ {0} /\ MaxHold \in Nat /\ MaxSpent \in Nat
  /\ Faults \in BOOLEAN

VARIABLES pc,       \* where each request's handler stands
          slot,     \* "held": its release is armed (`released` is false);
                    \* "lost": it left its +1 behind after a storage error
          cost,     \* tokens its answer cost, 0 if there is nothing to charge
          age,      \* ticks since it took its slot
          row,      \* value of the counter row (0 when there is none)
          left,     \* ticks the row still lives; 0: there is no live row
          counted,  \* history: requests whose +1 is in the row
          lapsed,   \* history: the row expired with a request in flight
          spent     \* tokens recorded in the current window

vars == <<pc, slot, cost, age, row, left, counted, lapsed, spent>>

States == {"start", "refusing", "admitted", "calling", "streaming",
           "releasing", "recording", "done", "dead"}

Init == /\ pc   = [r \in Requests |-> "start"]
        /\ slot = [r \in Requests |-> "none"]
        /\ cost = [r \in Requests |-> 0]
        /\ age  = [r \in Requests |-> 0]
        /\ row = 0 /\ left = 0 /\ spent = 0
        /\ counted = {}
        /\ lapsed = FALSE

InFlight(r) == pc[r] \notin {"start", "done", "dead"}

\* Requests that hold a slot they were granted.
Holders == {r \in Requests : slot[r] = "held" /\ InFlight(r) /\ pc[r] # "refusing"}

-----------------------------------------------------------------------------
(* Mutants: plausible slips in the definitions below.  No action uses them. *)

OverByOne(value)       == value > PerUser + 1
RejectedAtLimit(value) == value >= PerUser
RefreshedLifetime      == TTL
NeverGivenBack(r)      == UNCHANGED <<row, left, counted, slot>>
GivenBackTwice(r)      == /\ row' = row - 2
                          /\ counted' = counted \ {r}
                          /\ slot' = [slot EXCEPT ![r] = "none"]
                          /\ UNCHANGED left

-----------------------------------------------------------------------------
(* StorageAdapter.increment: a live row accumulates and keeps its expiry;  *)
(* an expired or missing one is reset to the amount with a fresh lifetime. *)

LifetimeAfterIncrement == IF left > 0 THEN left ELSE TTL
Incremented(amount)    == IF left > 0 THEN row + amount ELSE amount

Increment(amount) == /\ row' = Incremented(amount)
                     /\ left' = LifetimeAfterIncrement

OverLimit(value) == value > PerUser

-----------------------------------------------------------------------------
(* ConcurrencyLimiter.acquire *)

\* increment(key, +1): admitted, or over the limit and about to give it back.
TakeSlot(r) ==
  /\ pc[r] = "start"
  /\ Increment(1)
  /\ counted' = counted \cup {r}
  /\ slot' = [slot EXCEPT ![r] = "held"]
  /\ pc' = [pc EXCEPT ![r] = IF OverLimit(row') THEN "refusing" ELSE "admitted"]
  /\ UNCHANGED <<cost, age, lapsed, spent>>

\* The increment fails: the limit fails open, with a slot that does nothing.
\* An operation that fails may have been applied (a timeout after the commit).
TakeFails(r) ==
  /\ Faults
  /\ pc[r] = "start"
  /\ \/ UNCHANGED <<row, left, counted, slot>>
     \/ /\ Increment(1)
        /\ counted' = counted \cup {r}
        /\ slot' = [slot EXCEPT ![r] = "lost"]
  /\ pc' = [pc EXCEPT ![r] = "admitted"]
  /\ UNCHANGED <<cost, age, lapsed, spent>>

\* give(): the slot is marked released before the decrement is awaited.
GiveBack(r) ==
  IF slot[r] = "held"
    THEN /\ Increment(-1)
         /\ counted' = counted \ {r}
         /\ slot' = [slot EXCEPT ![r] = "none"]
    ELSE UNCHANGED <<row, left, counted, slot>>

\* The decrement fails; the error is swallowed and the row's expiry remains.
GiveBackFails(r) ==
  /\ Faults /\ slot[r] = "held"
  /\ slot' = [slot EXCEPT ![r] = "lost"]
  /\ UNCHANGED <<row, left, counted>>

\* A refused request gives its increment straight back, then answers 429.
Refuse(r) ==
  /\ pc[r] = "refusing"
  /\ GiveBack(r) \/ GiveBackFails(r)
  /\ pc' = [pc EXCEPT ![r] = "done"]
  /\ UNCHANGED <<cost, age, lapsed, spent>>

-----------------------------------------------------------------------------
(* executeChat / executeEmbeddings *)

\* RateLimiter.check reads the window's counter; a failed read passes.
CheckPasses(r) ==
  /\ pc[r] = "admitted"
  /\ spent < TokenLimit \/ (Faults /\ spent < MaxSpent)
  /\ pc' = [pc EXCEPT ![r] = "calling"]
  /\ UNCHANGED <<slot, cost, age, row, left, counted, lapsed, spent>>

\* The budget is exhausted (429), or the router finds no route (404): the
\* handler's catch (chat) or finally (embeddings) releases the slot.
CheckThrows(r) ==
  /\ pc[r] = "admitted"
  /\ pc' = [pc EXCEPT ![r] = "releasing"]
  /\ UNCHANGED <<slot, cost, age, row, left, counted, lapsed, spent>>

\* chatWithFallback: the outcome of the pair of provider calls.  A fallback
\* that throws after an error result yields that result; after a thrown
\* error its own error is thrown.
Outcomes == {"completion", "stream", "error", "throw"}

WithFallback(primary, fallback) ==
  CASE primary \in {"completion", "stream"} \/ fallback = "none" -> primary
    [] primary = "error" /\ fallback = "throw" -> "error"
    [] OTHER -> fallback

AfterCall(outcome) == IF outcome = "stream" THEN "streaming" ELSE "releasing"

\* The routed call, or a cache hit, which costs nothing.
Call(r) ==
  /\ pc[r] = "calling"
  /\ \/ \E primary \in Outcomes, fallback \in Outcomes \cup {"none"} :
          LET outcome == WithFallback(primary, fallback)
          IN /\ pc' = [pc EXCEPT ![r] = AfterCall(outcome)]
             /\ \E c \in Costs \cup {0} :
                  /\ c > 0 => outcome = "completion"
                  /\ cost' = [cost EXCEPT ![r] = c]
     \/ /\ pc' = [pc EXCEPT ![r] = "releasing"]
        /\ UNCHANGED cost
  /\ UNCHANGED <<slot, age, row, left, counted, lapsed, spent>>

\* result.usage settles on every exit path of a stream: with the usage, or
\* null when the provider reported none or the stream broke.
StreamEnds(r) ==
  /\ pc[r] = "streaming"
  /\ pc' = [pc EXCEPT ![r] = "releasing"]
  /\ \E c \in Costs \cup {0} : cost' = [cost EXCEPT ![r] = c]
  /\ UNCHANGED <<slot, age, row, left, counted, lapsed, spent>>

\* slot.release(), which precedes the recording on every path.
Release(r) ==
  /\ pc[r] = "releasing"
  /\ GiveBack(r) \/ GiveBackFails(r)
  /\ pc' = [pc EXCEPT ![r] = IF cost[r] > 0 THEN "recording" ELSE "done"]
  /\ UNCHANGED <<cost, age, lapsed, spent>>

\* RateLimiter.recordUsage: the window is the one current now; a failed
\* write is swallowed.
Record(r) ==
  /\ pc[r] = "recording"
  /\ spent' \in {spent + cost[r]} \cup (IF Faults THEN {spent} ELSE {})
  /\ cost' = [cost EXCEPT ![r] = 0]
  /\ pc' = [pc EXCEPT ![r] = "done"]
  /\ UNCHANGED <<slot, age, row, left, counted, lapsed>>

-----------------------------------------------------------------------------
\* The replica is killed: the request is gone, and with it its release.
Die(r) ==
  /\ Faults /\ InFlight(r)
  /\ pc' = [pc EXCEPT ![r] = "dead"]
  /\ cost' = [cost EXCEPT ![r] = 0]
  /\ UNCHANGED <<slot, age, row, left, counted, lapsed, spent>>

\* The client sends another request.
Again(r) ==
  /\ pc[r] \in {"done", "dead"}
  /\ r \notin counted
  /\ pc'   = [pc EXCEPT ![r] = "start"]
  /\ slot' = [slot EXCEPT ![r] = "none"]
  /\ age'  = [age EXCEPT ![r] = 0]
  /\ UNCHANGED <<cost, row, left, counted, lapsed, spent>>

\* Time passes; the row expires when its lifetime runs out.
Tick ==
  /\ \A r \in Requests : InFlight(r) => age[r] < MaxHold
  /\ age' = [r \in Requests |-> IF InFlight(r) THEN age[r] + 1 ELSE 0]
  /\ left' = IF left > 0 THEN left - 1 ELSE 0
  /\ IF left' = 0
       THEN /\ row' = 0
            /\ counted' = {}
            /\ lapsed' = (lapsed \/ \E r \in counted : InFlight(r))
       ELSE UNCHANGED <<row, counted, lapsed>>
  /\ UNCHANGED <<pc, slot, cost, spent>>

\* The next fixed window begins: its counter has another key.
NewWindow ==
  /\ spent > 0
  /\ spent' = 0
  /\ UNCHANGED <<pc, slot, cost, age, row, left, counted, lapsed>>

Step(r) == \/ TakeSlot(r) \/ TakeFails(r) \/ Refuse(r)
           \/ CheckPasses(r) \/ CheckThrows(r) \/ Call(r) \/ StreamEnds(r)
           \/ Release(r) \/ Record(r)

Next == \/ \E r \in Requests : Step(r) \/ Die(r) \/ Again(r)
        \/ Tick \/ NewWindow

Spec == Init /\ [][Next]_vars

\* A handler's awaits settle (storage and upstream calls end or time out, a
\* stream is finished by the provider, the client or a timeout), and time
\* passes.  No client is obliged to send another request.
Fairness == /\ \A r \in Requests : WF_vars(Step(r))
            /\ WF_vars(Tick)

FairSpec == Spec /\ Fairness

-----------------------------------------------------------------------------
TypeOK == /\ pc   \in [Requests -> States]
          /\ slot \in [Requests -> {"none", "held", "lost"}]
          /\ cost \in [Requests -> Costs \cup {0}]
          /\ age  \in [Requests -> 0 .. MaxHold]
          /\ row \in Int
          /\ left \in 0 .. TTL
          /\ counted \in SUBSET Requests
          /\ lapsed \in BOOLEAN
          /\ spent \in Nat

\* Unless the row expired under a request in flight, its value is exactly the
\* number of requests that took a slot and have not given it back: none is
\* given back twice, and no granted slot is missing from it.
CounterExact == lapsed \/ (row = Cardinality(counted) /\ Holders \subseteq counted)

\* At most PerUser requests of a user hold a slot at once, across replicas,
\* as long as the row has not expired under one of them.
SlotsBounded == lapsed \/ Cardinality(Holders) <= PerUser

\* The same without the excuse: "the bound holds across replicas"
\* (concurrency.ts 15-16), "a slow completion or a live stream is never
\* mistaken for a leak" (37-38).
BoundHolds == Cardinality(Holders) <= PerUser

\* Whatever path a request took (served, refused, over budget, failed), once
\* it is over its slot is back, unless a storage operation failed.
NothingLeftBehind ==
  \A r \in Requests : pc[r] = "done" /\ slot[r] # "lost" => r \notin counted

\* A request is refused only when PerUser others have taken a slot.
RefusalJustified ==
  [][\A r \in Requests : pc[r] = "start" /\ pc'[r] = "refusing" =>
       lapsed \/ Cardinality(counted \ {r}) >= PerUser]_vars

\* A slot that its request can no longer give back (the replica died, the
\* decrement failed) is forgotten in the end, however much traffic follows.
LeakHeals ==
  \A r \in Requests : (r \in counted /\ pc[r] \in {"dead", "done"}) ~> r \notin counted
=============================================================================
