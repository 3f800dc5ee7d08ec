-------------------------- MODULE AdmissionProofs --------------------------
(***************************************************************************)
(* Theorems about Admission, for every set of requests, every limit and    *)
(* every lifetime of the counter row.                                      *)
(***************************************************************************)
EXTENDS Admission, FiniteSetTheorems, TLAPS

\* The limit and the costs are numbers.
LEMMA Sizes == PerUser \in Nat /\ (\A c \in Costs \cup {0} : c \in Nat)
  BY AdmissionAssumption

\* A store without a counter row and requests that have not begun are well typed.
LEMMA TypeInit == Init => TypeOK
<1> SUFFICES ASSUME Init PROVE TypeOK
  OBVIOUS
<1>1. lapsed \in BOOLEAN
  BY DEF Init
<1>2. /\ pc   \in [Requests -> States]
      /\ slot \in [Requests -> {"none", "held", "lost"}]
      /\ cost \in [Requests -> Costs \cup {0}]
      /\ age  \in [Requests -> 0 .. MaxHold]
  BY AdmissionAssumption DEF Init, States
<1> QED
  BY <1>1, <1>2, AdmissionAssumption DEF Init, TypeOK

\* Releasing a slot (ConcurrencyLimiter's give), well or badly, keeps the types.
LEMMA GiveBackTypes ==
  ASSUME TypeOK, NEW r \in Requests, GiveBack(r) \/ GiveBackFails(r)
  PROVE  /\ row' \in Int /\ left' \in 0 .. TTL
         /\ counted' \in SUBSET Requests
         /\ slot' \in [Requests -> {"none", "held", "lost"}]
  BY AdmissionAssumption
  DEF TypeOK, GiveBack, GiveBackFails, Increment, Incremented, LifetimeAfterIncrement

\* No step of a handler, of the clock or of a window leaves the types.
LEMMA TypeNext == TypeOK /\ [Next]_vars => TypeOK'
<1> SUFFICES ASSUME TypeOK, [Next]_vars PROVE TypeOK'
  OBVIOUS
<1> USE AdmissionAssumption DEF TypeOK, States
<1>1. ASSUME NEW r \in Requests, TakeSlot(r) \/ TakeFails(r) PROVE TypeOK'
  BY <1>1 DEF TakeSlot, TakeFails, Increment, Incremented, LifetimeAfterIncrement
<1>2. ASSUME NEW r \in Requests, Refuse(r) PROVE TypeOK'
  <2>1. /\ pc' = [pc EXCEPT ![r] = "done"] /\ UNCHANGED <<cost, age, lapsed, spent>>
        /\ GiveBack(r) \/ GiveBackFails(r)
    BY <1>2 DEF Refuse
  <2> QED
    BY <2>1, GiveBackTypes
<1>3. ASSUME NEW r \in Requests, CheckPasses(r) \/ CheckThrows(r) PROVE TypeOK'
  BY <1>3 DEF CheckPasses, CheckThrows
<1>4. ASSUME NEW r \in Requests, Call(r) PROVE TypeOK'
  <2>1. UNCHANGED <<slot, age, row, left, counted, lapsed, spent>>
    BY <1>4 DEF Call
  <2>2. cost' \in [Requests -> Costs \cup {0}]
    BY <1>4 DEF Call
  <2>3. PICK next \in {"streaming", "releasing"} : pc' = [pc EXCEPT ![r] = next]
    <3>1. CASE pc' = [pc EXCEPT ![r] = "releasing"]
      BY <3>1
    <3>2. CASE \E primary \in Outcomes, fallback \in Outcomes \cup {"none"} :
                 pc' = [pc EXCEPT ![r] = AfterCall(WithFallback(primary, fallback))]
      BY <3>2 DEF AfterCall
    <3> QED
      BY <1>4, <3>1, <3>2 DEF Call
  <2> QED
    BY <2>1, <2>2, <2>3
<1>5. ASSUME NEW r \in Requests, StreamEnds(r) PROVE TypeOK'
  BY <1>5 DEF StreamEnds
<1>6. ASSUME NEW r \in Requests, Release(r) PROVE TypeOK'
  <2>1. /\ pc' = [pc EXCEPT ![r] = IF cost[r] > 0 THEN "recording" ELSE "done"]
        /\ UNCHANGED <<cost, age, lapsed, spent>>
        /\ GiveBack(r) \/ GiveBackFails(r)
    BY <1>6 DEF Release
  <2> QED
    BY <2>1, GiveBackTypes
<1>7. ASSUME NEW r \in Requests, Record(r) PROVE TypeOK'
  <2>1. cost[r] \in Nat
    <3>1. cost[r] \in Costs \cup {0}
      OBVIOUS
    <3> QED
      BY <3>1, Sizes
  <2> QED
    BY <1>7, <2>1 DEF Record
<1>8. ASSUME NEW r \in Requests, Die(r) \/ Again(r) PROVE TypeOK'
  BY <1>8 DEF Die, Again
<1>9. CASE Tick
  <2>1. age' \in [Requests -> 0 .. MaxHold]
    BY <1>9 DEF Tick
  <2>2. left' \in 0 .. TTL
    BY <1>9 DEF Tick
  <2>3. row' \in Int /\ counted' \in SUBSET Requests
    BY <1>9 DEF Tick
  <2>4. lapsed' \in BOOLEAN
    BY <1>9 DEF Tick
  <2> QED
    BY <1>9, <2>1, <2>2, <2>3, <2>4 DEF Tick
<1>10. CASE NewWindow
  BY <1>10 DEF NewWindow
<1>11. CASE UNCHANGED vars
  BY <1>11 DEF vars
<1> QED
  BY <1>1, <1>2, <1>3, <1>4, <1>5, <1>6, <1>7, <1>8, <1>9, <1>10, <1>11 DEF Next, Step

\* The variables keep their types.
THEOREM TypeCorrect == Spec => []TypeOK
  BY TypeInit, TypeNext, PTL DEF Spec

-----------------------------------------------------------------------------
(* The inductive invariant: which requests the counter row knows of.       *)

\* Whatever has expired: a request that left its +1 in the live row holds or
\* lost its slot, one that has not begun or has released does neither, and
\* without a live row nothing is counted.
Bookkeeping ==
  /\ \A r \in Requests : /\ pc[r] = "start" => slot[r] = "none"
                         /\ pc[r] \in {"recording", "done"} => slot[r] # "held"
                         /\ r \in counted => slot[r] # "none"
  /\ left = 0 => counted = {} /\ row = 0

\* As long as the row has not expired under a request in flight, the row is
\* exact and knows every request that still has a slot to give back.
Exact ==
  ~lapsed => /\ row = Cardinality(counted)
             /\ \A r \in Requests : slot[r] = "held" /\ InFlight(r) => r \in counted
             /\ Cardinality(Holders) <= PerUser

IInv == TypeOK /\ Bookkeeping /\ Exact

\* Counted requests and holders are finitely many, so they can be counted.
LEMMA Finite ==
  ASSUME TypeOK
  PROVE  /\ IsFiniteSet(counted) /\ Cardinality(counted) \in Nat
         /\ IsFiniteSet(Holders) /\ Cardinality(Holders) \in Nat
<1>1. counted \in SUBSET Requests /\ Holders \in SUBSET Requests
  BY DEF TypeOK, Holders
<1>2. IsFiniteSet(counted) /\ IsFiniteSet(Holders)
  BY <1>1, AdmissionAssumption, FS_Subset
<1> QED
  BY <1>2, FS_CardinalityType

\* The invariant holds before the first request.
LEMMA InvInit == Init => IInv
<1> SUFFICES ASSUME Init PROVE Bookkeeping /\ Exact
  BY TypeInit DEF IInv
<1>1. Bookkeeping
  BY DEF Init, Bookkeeping
<1>2. Holders = {} /\ counted = {}
  BY DEF Init, Holders
<1>3. Exact
  BY <1>2, FS_EmptySet, AdmissionAssumption DEF Init, Exact
<1> QED
  BY <1>1, <1>3

\* Steps that leave the slots, the row and who is in flight with a slot alone.
LEMMA SameHolders ==
  ASSUME IInv, UNCHANGED <<row, left, counted, slot, lapsed>>,
         \A r \in Requests : slot[r] = "held" /\ InFlight(r)' => InFlight(r),
         \A r \in Requests : pc'[r] = pc[r] \/ pc'[r] \notin {"start", "recording", "done"}
                              \/ (pc'[r] = "done" /\ pc[r] = "recording"),
         Holders' \subseteq Holders, TypeOK'
  PROVE  IInv'
<1>1. Bookkeeping'
  BY DEF IInv, Bookkeeping
<1>2. Cardinality(Holders') <= Cardinality(Holders)
  BY Finite, FS_Subset DEF IInv
<1>3. Cardinality(Holders') \in Nat /\ Cardinality(Holders) \in Nat
  <2>1. Cardinality(Holders') \in Nat
    <3>1. IsFiniteSet(Holders')
      BY Finite, FS_Subset DEF IInv
    <3> QED
      BY <3>1, FS_CardinalityType
  <2> QED
    BY <2>1, Finite DEF IInv
<1>4. Exact'
  <2> SUFFICES ASSUME ~lapsed
               PROVE  /\ row = Cardinality(counted)
                      /\ \A r \in Requests : slot[r] = "held" /\ InFlight(r)' => r \in counted
                      /\ Cardinality(Holders') <= PerUser
    BY DEF Exact
  <2> QED
    BY <1>2, <1>3, AdmissionAssumption DEF IInv, Exact
<1> QED
  BY <1>1, <1>4 DEF IInv

\* give(): it takes its own +1 out of the row, or leaves it there as lost.
LEMMA GiveBackStep ==
  ASSUME IInv, TypeOK', NEW r \in Requests, InFlight(r),
         GiveBack(r) \/ GiveBackFails(r),
         NEW next \in {"recording", "done"}, pc' = [pc EXCEPT ![r] = next],
         UNCHANGED lapsed
  PROVE  IInv'
<1> USE DEF IInv
<1>1. pc \in [Requests -> States] /\ slot \in [Requests -> {"none", "held", "lost"}]
  BY DEF TypeOK
<1>2. pc'[r] = next /\ \A q \in Requests \ {r} : pc'[q] = pc[q]
  BY <1>1
<1>3. \A q \in Requests \ {r} : slot'[q] = slot[q] /\ (q \in counted' <=> q \in counted)
  BY <1>1 DEF GiveBack, GiveBackFails
<1>4. /\ slot'[r] # "held"
      /\ slot'[r] = "none" => r \notin counted'
  BY <1>1 DEF GiveBack, GiveBackFails, Bookkeeping
<1>5. left' = 0 => counted' = {} /\ row' = 0
  <2>1. CASE slot[r] = "held" /\ Increment(-1)
    BY <2>1, AdmissionAssumption DEF Increment, LifetimeAfterIncrement, TypeOK
  <2>2. CASE UNCHANGED <<row, left, counted>>
    BY <2>2 DEF Bookkeeping
  <2> QED
    BY <2>1, <2>2 DEF GiveBack, GiveBackFails
<1>6. Bookkeeping'
  BY <1>2, <1>3, <1>4, <1>5 DEF Bookkeeping
<1>7. Holders' \subseteq Holders
  BY <1>2, <1>3, <1>4 DEF Holders, InFlight
<1>8. ASSUME ~lapsed PROVE row' = Cardinality(counted')
  <2>1. CASE UNCHANGED <<row, counted>>
    BY <1>8, <2>1 DEF Exact
  <2>2. CASE slot[r] = "held" /\ Increment(-1) /\ counted' = counted \ {r}
    <3>1. r \in counted /\ row = Cardinality(counted)
      BY <1>8, <2>2 DEF Exact
    <3>2. left > 0
      BY <3>1 DEF Bookkeeping, TypeOK
    <3>3. row' = row - 1
      BY <2>2, <3>2 DEF Increment, Incremented, TypeOK
    <3> QED
      BY <2>2, <3>1, <3>3, Finite, FS_RemoveElement
  <2> QED
    BY <2>1, <2>2 DEF GiveBack, GiveBackFails
<1>9. Cardinality(Holders') <= Cardinality(Holders) /\ Cardinality(Holders) \in Nat
      /\ Cardinality(Holders') \in Nat
  BY <1>7, Finite, FS_Subset, FS_CardinalityType
<1>10. \A q \in Requests : slot'[q] = "held" /\ InFlight(q)' =>
         q # r /\ slot[q] = "held" /\ InFlight(q)
  BY <1>2, <1>3, <1>4 DEF InFlight
<1>11. Exact'
  BY <1>3, <1>8, <1>9, <1>10, AdmissionAssumption DEF Exact
<1> QED
  BY <1>6, <1>11

\* acquire(): the +1 keeps the row exact, and admits only below the limit.
LEMMA TakeSlotStep ==
  ASSUME IInv, TypeOK', NEW r \in Requests, TakeSlot(r)
  PROVE  IInv'
<1> USE DEF IInv
<1>1. /\ pc \in [Requests -> States] /\ slot \in [Requests -> {"none", "held", "lost"}]
      /\ left \in 0 .. TTL /\ row \in Int
  BY DEF TypeOK
<1>2. /\ pc[r] = "start" /\ slot[r] = "none" /\ r \notin counted
      /\ counted' = counted \cup {r} /\ slot' = [slot EXCEPT ![r] = "held"]
      /\ pc' = [pc EXCEPT ![r] = IF OverLimit(row') THEN "refusing" ELSE "admitted"]
      /\ lapsed' = lapsed /\ row' = Incremented(1) /\ left' = LifetimeAfterIncrement
  BY DEF TakeSlot, Increment, Bookkeeping
<1>3. /\ \A q \in Requests \ {r} : pc'[q] = pc[q] /\ slot'[q] = slot[q]
      /\ slot'[r] = "held"
      /\ pc'[r] = IF OverLimit(row') THEN "refusing" ELSE "admitted"
  BY <1>1, <1>2
<1>4. left' # 0 /\ row' = row + 1
  BY <1>1, <1>2, AdmissionAssumption DEF LifetimeAfterIncrement, Incremented, Bookkeeping
<1>5. Bookkeeping'
  BY <1>2, <1>3, <1>4 DEF Bookkeeping
<1>6. ASSUME ~lapsed PROVE row' = Cardinality(counted')
  BY <1>2, <1>4, <1>6, Finite, FS_AddElement DEF Exact
<1>7. ASSUME ~lapsed
      PROVE  \A q \in Requests : slot'[q] = "held" /\ InFlight(q)' => q \in counted'
  BY <1>2, <1>3, <1>7 DEF Exact, InFlight
<1>8. ASSUME ~lapsed PROVE Cardinality(Holders') <= PerUser
  <2>1. CASE OverLimit(row')
    <3>1. Holders' = Holders
      BY <1>2, <1>3, <2>1 DEF Holders, InFlight
    <3> QED
      BY <1>8, <3>1 DEF Exact
  <2>2. CASE ~OverLimit(row')
    <3>1. Holders' \subseteq counted'
      BY <1>7, <1>8 DEF Holders
    <3>2. IsFiniteSet(counted') /\ Cardinality(counted') = row'
      BY <1>2, <1>6, <1>8, Finite, FS_AddElement
    <3>3. IsFiniteSet(Holders') /\ Cardinality(Holders') <= row'
      BY <3>1, <3>2, FS_Subset
    <3>4. row' <= PerUser /\ row' \in Int
      BY <1>1, <1>4, <2>2, AdmissionAssumption DEF OverLimit
    <3> QED
      BY <3>3, <3>4, FS_CardinalityType, AdmissionAssumption
  <2> QED
    BY <2>1, <2>2
<1>9. Exact'
  BY <1>2, <1>6, <1>7, <1>8 DEF Exact
<1> QED
  BY <1>5, <1>9

\* An increment that fails (and may have been applied) keeps the row exact.
LEMMA TakeFailsStep ==
  ASSUME IInv, TypeOK', NEW r \in Requests, TakeFails(r)
  PROVE  IInv'
<1> USE DEF IInv
<1>1. /\ pc \in [Requests -> States] /\ slot \in [Requests -> {"none", "held", "lost"}]
      /\ left \in 0 .. TTL /\ row \in Int
  BY DEF TypeOK
<1>2. /\ pc[r] = "start" /\ slot[r] = "none" /\ r \notin counted
      /\ pc' = [pc EXCEPT ![r] = "admitted"] /\ lapsed' = lapsed
      /\ \/ UNCHANGED <<row, left, counted, slot>>
         \/ /\ counted' = counted \cup {r} /\ slot' = [slot EXCEPT ![r] = "lost"]
            /\ row' = Incremented(1) /\ left' = LifetimeAfterIncrement
  BY DEF TakeFails, Increment, Bookkeeping
<1>3. /\ \A q \in Requests \ {r} : pc'[q] = pc[q] /\ slot'[q] = slot[q]
      /\ slot'[r] # "held" /\ pc'[r] = "admitted"
      /\ slot'[r] = "none" => counted' = counted
      /\ counted \subseteq counted' /\ counted' \subseteq counted \cup {r}
  BY <1>1, <1>2
<1>4. \/ UNCHANGED <<row, left, counted>>
      \/ left' # 0 /\ row' = row + 1 /\ counted' = counted \cup {r}
  BY <1>1, <1>2, AdmissionAssumption DEF LifetimeAfterIncrement, Incremented, Bookkeeping
<1>5. Bookkeeping'
  BY <1>2, <1>3, <1>4 DEF Bookkeeping
<1>6. ASSUME ~lapsed PROVE row' = Cardinality(counted')
  BY <1>2, <1>4, <1>6, Finite, FS_AddElement DEF Exact
<1>7. Holders' = Holders
  BY <1>2, <1>3 DEF Holders, InFlight
<1>8. Exact'
  BY <1>2, <1>3, <1>6, <1>7 DEF Exact, InFlight
<1> QED
  BY <1>5, <1>8

\* Expiry: a row that lapses forgets every request at once, and says so.
LEMMA TickStep ==
  ASSUME IInv, TypeOK', Tick
  PROVE  IInv'
<1> USE DEF IInv
<1>1. UNCHANGED <<pc, slot>> /\ left \in 0 .. TTL
  BY DEF Tick, TypeOK
<1>2. CASE left' # 0
  <2>1. UNCHANGED <<row, counted, lapsed>> /\ left # 0
    BY <1>1, <1>2 DEF Tick
  <2> QED
    BY <1>1, <1>2, <2>1 DEF Bookkeeping, Exact, Holders, InFlight
<1>3. CASE left' = 0
  <2>1. row' = 0 /\ counted' = {}
        /\ (lapsed' <=> (lapsed \/ \E r \in counted : InFlight(r)))
    BY <1>3 DEF Tick
  <2>2. Bookkeeping'
    BY <1>1, <1>3, <2>1 DEF Bookkeeping
  <2>3. ASSUME ~lapsed'
        PROVE  \A r \in Requests : ~(slot[r] = "held" /\ InFlight(r))
    BY <2>1, <2>3 DEF Exact
  <2>4. ASSUME ~lapsed' PROVE Holders' = {}
    BY <1>1, <2>3, <2>4 DEF Holders, InFlight
  <2>5. Exact'
    BY <1>1, <2>1, <2>3, <2>4, FS_EmptySet, AdmissionAssumption DEF Exact, InFlight
  <2> QED
    BY <2>2, <2>5
<1> QED
  BY <1>2, <1>3

\* The invariant is inductive: one step for each action.
LEMMA InvNext == IInv /\ [Next]_vars => IInv'
<1> SUFFICES ASSUME IInv, [Next]_vars PROVE IInv'
  OBVIOUS
<1>0. TypeOK /\ TypeOK'
  BY TypeNext DEF IInv
<1>1. ASSUME NEW r \in Requests, TakeSlot(r) PROVE IInv'
  BY <1>0, <1>1, TakeSlotStep
<1>2. ASSUME NEW r \in Requests, TakeFails(r) PROVE IInv'
  BY <1>0, <1>2, TakeFailsStep
<1>3. ASSUME NEW r \in Requests, Refuse(r) PROVE IInv'
  BY <1>0, <1>3, GiveBackStep DEF Refuse, InFlight
<1>4. ASSUME NEW r \in Requests, Release(r) PROVE IInv'
  <2>1. PICK next \in {"recording", "done"} : pc' = [pc EXCEPT ![r] = next]
    BY <1>4 DEF Release
  <2> QED
    BY <1>0, <1>4, <2>1, GiveBackStep DEF Release, InFlight
<1>5. ASSUME NEW r \in Requests,
             CheckPasses(r) \/ CheckThrows(r) \/ Call(r) \/ StreamEnds(r) \/ Record(r) \/ Die(r)
      PROVE  IInv'
  <2>1. UNCHANGED <<row, left, counted, slot, lapsed>>
    BY <1>5 DEF CheckPasses, CheckThrows, Call, StreamEnds, Record, Die
  <2>2. PICK next \in {"calling", "releasing", "streaming", "done", "dead"} :
           /\ pc' = [pc EXCEPT ![r] = next]
           /\ next = "done" => pc[r] = "recording"
           /\ next # "dead" => pc[r] \in {"admitted", "calling", "streaming", "recording"}
    <3>1. CASE Call(r)
      <4>1. CASE pc' = [pc EXCEPT ![r] = "releasing"]
        BY <3>1, <4>1 DEF Call
      <4>2. CASE \E primary \in Outcomes, fallback \in Outcomes \cup {"none"} :
                   pc' = [pc EXCEPT ![r] = AfterCall(WithFallback(primary, fallback))]
        BY <3>1, <4>2 DEF Call, AfterCall
      <4> QED
        BY <3>1, <4>1, <4>2 DEF Call
    <3>2. CASE CheckPasses(r)
      BY <3>2 DEF CheckPasses
    <3>3. CASE CheckThrows(r)
      BY <3>3 DEF CheckThrows
    <3>4. CASE StreamEnds(r)
      BY <3>4 DEF StreamEnds
    <3>5. CASE Record(r)
      BY <3>5 DEF Record
    <3>6. CASE Die(r)
      BY <3>6 DEF Die
    <3> QED
      BY <1>5, <3>1, <3>2, <3>3, <3>4, <3>5, <3>6
  <2>3. /\ pc'[r] = next
        /\ \A q \in Requests \ {r} : pc'[q] = pc[q]
    BY <1>0, <2>2 DEF TypeOK
  <2>4. \A q \in Requests : InFlight(q)' => InFlight(q)
    BY <2>2, <2>3 DEF InFlight
  <2>5. Holders' \subseteq Holders
    BY <2>1, <2>2, <2>3 DEF Holders, InFlight
  <2>6. \A q \in Requests : pc'[q] = pc[q] \/ pc'[q] \notin {"start", "recording", "done"}
                              \/ (pc'[q] = "done" /\ pc[q] = "recording")
    BY <2>2, <2>3
  <2> QED
    BY <1>0, <2>1, <2>4, <2>5, <2>6, SameHolders
<1>6. ASSUME NEW r \in Requests, Again(r) PROVE IInv'
  <2>1. /\ pc' = [pc EXCEPT ![r] = "start"] /\ slot' = [slot EXCEPT ![r] = "none"]
        /\ r \notin counted /\ UNCHANGED <<row, left, counted, lapsed>>
        /\ ~InFlight(r)
    BY <1>6 DEF Again, InFlight
  <2>2. /\ pc'[r] = "start" /\ slot'[r] = "none"
        /\ \A q \in Requests \ {r} : pc'[q] = pc[q] /\ slot'[q] = slot[q]
    BY <1>0, <2>1 DEF TypeOK
  <2>3. Bookkeeping'
    BY <2>1, <2>2 DEF Bookkeeping, IInv
  <2>4. Holders' = Holders
    BY <2>1, <2>2 DEF Holders, InFlight
  <2>5. Exact'
    BY <2>1, <2>2, <2>4 DEF Exact, IInv, InFlight
  <2> QED
    BY <1>0, <2>3, <2>5 DEF IInv
<1>7. CASE Tick
  BY <1>0, <1>7, TickStep
<1>8. CASE NewWindow \/ UNCHANGED vars
  <2>1. UNCHANGED <<pc, slot, row, left, counted, lapsed>>
    BY <1>8 DEF NewWindow, vars
  <2> QED
    BY <1>0, <2>1 DEF IInv, Bookkeeping, Exact, Holders, InFlight
<1> QED
  BY <1>1, <1>2, <1>3, <1>4, <1>5, <1>6, <1>7, <1>8 DEF Next, Step

\* The invariant holds in every reachable state.
LEMMA InvCorrect == Spec => []IInv
  BY InvInit, InvNext, PTL DEF Spec

\* The row counts exactly the slots taken and not given back.
THEOREM CounterTheorem == Spec => []CounterExact
<1>1. IInv => CounterExact
  BY DEF IInv, Exact, CounterExact, Holders
<1> QED
  BY <1>1, InvCorrect, PTL

\* The concurrency bound holds across replicas while the row lives.
THEOREM BoundTheorem == Spec => []SlotsBounded
<1>1. IInv => SlotsBounded
  BY DEF IInv, Exact, SlotsBounded
<1> QED
  BY <1>1, InvCorrect, PTL

\* No path through the handlers keeps a slot.
THEOREM NothingLeftTheorem == Spec => []NothingLeftBehind
<1>1. IInv => NothingLeftBehind
  BY DEF IInv, TypeOK, Bookkeeping, NothingLeftBehind
<1> QED
  BY <1>1, InvCorrect, PTL

\* A refusal is never spurious.
THEOREM RefusalTheorem == Spec => RefusalJustified
<1>1. IInv /\ [Next]_vars =>
        [\A r \in Requests : pc[r] = "start" /\ pc'[r] = "refusing" =>
           lapsed \/ Cardinality(counted \ {r}) >= PerUser]_vars
  <2> SUFFICES ASSUME IInv, Next, NEW r \in Requests, pc[r] = "start", pc'[r] = "refusing", ~lapsed
               PROVE  Cardinality(counted \ {r}) >= PerUser
    OBVIOUS
  <2>1. TakeSlot(r)
    <3>1. pc \in [Requests -> States]
      BY DEF IInv, TypeOK
    <3> QED
      BY <3>1 DEF Next, Step, TakeSlot, TakeFails, Refuse, CheckPasses, CheckThrows, Call,
                  StreamEnds, Release, Record, Die, Again, Tick, NewWindow
  <2>2. r \notin counted /\ row = Cardinality(counted) /\ row \in Int /\ left \in 0 .. TTL
    BY DEF IInv, Bookkeeping, Exact, TypeOK
  <2>3. row' = row + 1
    BY <2>1, <2>2 DEF TakeSlot, Increment, Incremented, IInv, Bookkeeping
  <2>4. row' > PerUser
    <3>1. pc \in [Requests -> States]
      BY DEF IInv, TypeOK
    <3> QED
      BY <2>1, <3>1 DEF TakeSlot, OverLimit
  <2>5. counted \ {r} = counted
    BY <2>2
  <2> QED
    BY <2>2, <2>3, <2>4, <2>5, Sizes
<1> QED
  BY <1>1, InvCorrect, PTL DEF Spec, RefusalJustified
=============================================================================
