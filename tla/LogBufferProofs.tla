-------------------------- MODULE LogBufferProofs --------------------------
(***************************************************************************)
(* Theorems about LogBuffer: type correctness, the accounting of entries,  *)
(* the bound on the backlog and the order of writes, for every batch size, *)
(* every ceiling and every number of callers.                              *)
(***************************************************************************)
EXTENDS LogBuffer, SequenceTheorems, TLAPS

\* What a splice takes and leaves is a partition of the queue, in order.
LEMMA SpliceFacts ==
  ASSUME NEW S, queue \in Seq(S), queue # <<>>
  PROVE  /\ SpliceLen \in 1 .. Len(queue)
         /\ SpliceTaken \in Seq(S) /\ Len(SpliceTaken) = SpliceLen
         /\ SpliceLeft \in Seq(S) /\ Len(SpliceLeft) = Len(queue) - SpliceLen
         /\ \A i \in 1 .. Len(SpliceTaken) : SpliceTaken[i] = queue[i]
         /\ \A i \in 1 .. Len(SpliceLeft) : SpliceLeft[i] = queue[SpliceLen + i]
<1>1. Len(queue) \in Nat \ {0}
  BY EmptySeq, LenProperties
<1>2. SpliceLen \in 1 .. Len(queue)
  BY <1>1, SizesAssumption DEF SpliceLen, BatchFull
<1>3. \A i \in 1 .. Len(queue) : queue[i] \in S
  BY ElementOfSeq
<1>4. /\ SpliceTaken \in Seq(S) /\ Len(SpliceTaken) = SpliceLen
      /\ \A i \in 1 .. Len(SpliceTaken) : SpliceTaken[i] = queue[i]
  <2>1. \A i \in 1 .. SpliceLen : queue[i] \in S
    BY <1>1, <1>2, <1>3
  <2> QED
    BY <1>1, <1>2, <2>1, SubSeqProperties DEF SpliceTaken
<1>5. /\ SpliceLeft \in Seq(S) /\ Len(SpliceLeft) = Len(queue) - SpliceLen
      /\ \A i \in 1 .. Len(SpliceLeft) : SpliceLeft[i] = queue[SpliceLen + i]
  <2>1. \A i \in (SpliceLen + 1) .. Len(queue) : queue[i] \in S
    BY <1>1, <1>2, <1>3
  <2>2. SpliceLen + 1 \in Int /\ Len(queue) \in Int
    BY <1>1, <1>2
  <2> HIDE DEF SpliceLen
  <2>3. /\ SubSeq(queue, SpliceLen + 1, Len(queue)) \in Seq(S)
        /\ Len(SubSeq(queue, SpliceLen + 1, Len(queue)))
             = IF SpliceLen + 1 <= Len(queue) THEN Len(queue) - (SpliceLen + 1) + 1 ELSE 0
        /\ \A i \in 1 .. Len(queue) - (SpliceLen + 1) + 1 :
             SubSeq(queue, SpliceLen + 1, Len(queue))[i] = queue[SpliceLen + 1 + i - 1]
    BY <2>1, <2>2, SubSeqProperties
  <2> QED
    BY <1>1, <1>2, <2>3 DEF SpliceLeft
<1> QED
  BY <1>2, <1>4, <1>5

\* What record() leaves in the queue: the new entry comes last, the oldest
\* one makes room if the queue was full.
LEMMA RecordFacts ==
  ASSUME NEW S, queue \in Seq(S), NEW e \in S
  PROVE  /\ Append(Shifted(queue), e) \in Seq(S)
         /\ Overflow(queue) \in 0 .. 1
         /\ Len(Append(Shifted(queue), e)) = Len(queue) + 1 - Overflow(queue)
         /\ \A i \in 1 .. Len(queue) - Overflow(queue) :
              Append(Shifted(queue), e)[i] = queue[Overflow(queue) + i]
         /\ Append(Shifted(queue), e)[Len(queue) + 1 - Overflow(queue)] = e
         /\ Overflow(queue) = 1 <=> Len(queue) >= MaxQueue
<1>1. Len(queue) \in Nat
  BY LenProperties
<1>2. CASE Len(queue) >= MaxQueue
  <2>1. queue # <<>>
    BY <1>1, <1>2, EmptySeq, SizesAssumption
  <2>2. /\ Tail(queue) \in Seq(S)
        /\ Len(Tail(queue)) = Len(queue) - 1
        /\ \A i \in 1 .. Len(Tail(queue)) : Tail(queue)[i] = queue[i + 1]
    BY <2>1, HeadTailProperties
  <2> QED
    BY <1>1, <1>2, <2>2, AppendProperties DEF Shifted, Overflow
<1>3. CASE ~(Len(queue) >= MaxQueue)
  BY <1>1, <1>3, AppendProperties DEF Shifted, Overflow
<1> QED
  BY <1>2, <1>3

-----------------------------------------------------------------------------
\* A new sink is well typed.
LEMMA TypeInit == Init => TypeOK
<1> SUFFICES ASSUME Init PROVE TypeOK
  OBVIOUS
<1>1. <<>> \in Seq(1 .. recorded)
  BY EmptySeq
<1>2. seen \in [Callers -> 0 .. recorded] /\ wait \in [Callers -> Nat]
  BY DEF Init
<1>3. pc \in [Callers -> {"idle", "first", "second", "flushed", "closed"}]
  BY DEF Init
<1>4. timer \in BOOLEAN /\ closed \in BOOLEAN
  BY DEF Init
<1> QED
  BY <1>1, <1>2, <1>3, <1>4 DEF Init, TypeOK

\* No callback of the sink leaves the types.
LEMMA TypeNext == TypeOK /\ [Next]_vars => TypeOK'
<1> SUFFICES ASSUME TypeOK, [Next]_vars PROVE TypeOK'
  OBVIOUS
<1> USE DEF TypeOK
<1>0. /\ Settled \in [Callers -> Nat]
      /\ ChainLength \in Nat
  BY DEF Settled, ChainLength
<1>1. CASE Record
  <2>1. recorded + 1 \in Nat /\ 1 .. recorded \subseteq 1 .. (recorded + 1)
    OBVIOUS
  <2>2. /\ queue \in Seq(1 .. recorded + 1)
        /\ batch \in Seq(1 .. recorded + 1)
        /\ store \in Seq(1 .. recorded + 1)
    BY <2>1, SeqMonotonic
  <2>3. recorded + 1 \in 1 .. recorded + 1
    BY <2>1
  <2>4. /\ Append(Shifted(queue), recorded + 1) \in Seq(1 .. recorded + 1)
        /\ Overflow(queue) \in 0 .. 1
    BY <2>2, <2>3, RecordFacts
  <2>5. TimerAfterSchedule(Append(Shifted(queue), recorded + 1)) \in BOOLEAN
    BY DEF TimerAfterSchedule
  <2>6. seen \in [Callers -> 0 .. recorded + 1]
    <3>1. \A c \in Callers : seen[c] \in 0 .. recorded + 1
      OBVIOUS
    <3> QED BY <3>1
  <2>7. recorded' = recorded + 1 /\ UNCHANGED <<batch, closed, written, store, pc, wait, seen>>
    BY <1>1 DEF Record
  <2>8. queue' \in Seq(1 .. recorded + 1)
    BY <1>1, <2>4 DEF Record
  <2>9. timer' \in BOOLEAN /\ pending' \in Nat /\ dropped' \in Nat
    BY <1>1, <2>4, <2>5, SMTT(30) DEF Record
  <2> QED
    BY <2>2, <2>6, <2>7, <2>8, <2>9
<1>2. CASE TimerFires
  <2>1. timer' \in BOOLEAN
    BY <1>2 DEF TimerFires
  <2> QED
    BY <1>2, <2>1 DEF TimerFires
<1>3. CASE DrainEmpty
  BY <1>0, <1>3 DEF DrainEmpty, DrainReady
<1>4. CASE DrainTakes
  <2>1. SpliceTaken \in Seq(1 .. recorded) /\ SpliceLeft \in Seq(1 .. recorded)
    BY <1>4, SpliceFacts DEF DrainTakes
  <2> QED
    BY <1>4, <2>1 DEF DrainTakes, DrainReady
<1>5. CASE WriteOk \/ WriteFails
  <2>1. store \o batch \in Seq(1 .. recorded) /\ Len(batch) \in Nat
    BY ConcatProperties, LenProperties
  <2>2. TimerAfterSchedule(queue) \in BOOLEAN
    BY DEF TimerAfterSchedule
  <2>3. <<>> \in Seq(1 .. recorded)
    BY EmptySeq
  <2>4. /\ timer' \in BOOLEAN /\ batch' = <<>> /\ wait' = Settled
        /\ UNCHANGED <<queue, pending, closed, recorded, pc, seen>>
    BY <1>5, <2>2 DEF WriteOk, WriteFails, DrainEnds
  <2>5. written' \in Nat /\ dropped' \in Nat
    <3>1. \/ written' = written + Len(batch) /\ dropped' = dropped
          \/ dropped' = dropped + Len(batch) /\ written' = written
      BY <1>5, Zenon DEF WriteOk, WriteFails
    <3>2. Len(batch) \in Nat
      BY <2>1
    <3> QED
      BY <3>1, <3>2
  <2>6. store' \in Seq(1 .. recorded)
    BY <1>5, <2>1 DEF WriteOk, WriteFails
  <2>7. batch' \in Seq(1 .. recorded)
    BY <2>3, <2>4
  <2> QED
    BY <1>0, <2>4, <2>5, <2>6, <2>7
<1>6. ASSUME NEW c \in Callers, FlushCall(c) \/ FlushAgain(c) \/ FlushReturns(c) \/ Close(c)
      PROVE  TypeOK'
  <2>1. recorded \in 0 .. recorded
    OBVIOUS
  <2>2. CASE FlushCall(c)
    <3>1. timer' \in BOOLEAN
      BY <2>2 DEF FlushCall
    <3> QED
      BY <1>0, <2>1, <2>2, <3>1 DEF FlushCall
  <2>3. CASE FlushAgain(c)
    BY <1>0, <2>3 DEF FlushAgain
  <2>4. CASE FlushReturns(c)
    BY <2>4 DEF FlushReturns, sink
  <2>5. CASE Close(c)
    <3>1. timer' \in BOOLEAN /\ closed' \in BOOLEAN
      BY <2>5 DEF Close
    <3> QED
      BY <2>5, <3>1 DEF Close
  <2> QED
    BY <1>6, <2>2, <2>3, <2>4, <2>5
<1>7. CASE UNCHANGED vars
  BY <1>7 DEF vars, sink
<1> QED
  BY <1>1, <1>2, <1>3, <1>4, <1>5, <1>6, <1>7 DEF Next

\* The sink's variables keep their types.
THEOREM TypeCorrect == Spec => []TypeOK
  BY TypeInit, TypeNext, PTL DEF Spec

-----------------------------------------------------------------------------
(* The quantities: how long the queue and the batch are after each step.   *)

\* record(): how the lengths, the counters and the chain of drains change.
LEMMA RecordLengths ==
  ASSUME TypeOK, Record
  PROVE  \E ov \in 0 .. 1 :
           /\ (ov = 1) <=> (Len(queue) >= MaxQueue)
           /\ Len(queue') = Len(queue) + 1 - ov
           /\ dropped' = dropped + ov
           /\ recorded' = recorded + 1
           /\ queue' # <<>>
           /\ IF Len(queue') >= BatchSize THEN pending' = pending + 1
                                          ELSE pending' = pending /\ timer' = TRUE
           /\ UNCHANGED <<batch, closed, written>>
<1>1. queue \in Seq(1 .. recorded + 1) /\ recorded + 1 \in 1 .. recorded + 1
  <2>1. recorded \in Nat /\ queue \in Seq(1 .. recorded)
    BY DEF TypeOK
  <2>2. 1 .. recorded \subseteq 1 .. (recorded + 1)
    BY <2>1
  <2> QED
    BY <2>1, <2>2, SeqMonotonic
<1>2. /\ queue' = Append(Shifted(queue), recorded + 1)
      /\ queue' \in Seq(1 .. recorded + 1)
      /\ Overflow(queue) \in 0 .. 1
      /\ Len(queue') = Len(queue) + 1 - Overflow(queue)
      /\ Overflow(queue) = 1 <=> Len(queue) >= MaxQueue
  BY <1>1, RecordFacts DEF Record
<1>3. Len(queue) \in Nat
  BY LenProperties DEF TypeOK
<1>4. queue' # <<>>
  BY <1>2, <1>3, EmptySeq, SizesAssumption
<1>5. IF Len(queue') >= BatchSize THEN pending' = pending + 1
                                  ELSE pending' = pending /\ timer' = TRUE
  <2>1. CASE BatchFull(queue')
    BY <1>2, <2>1 DEF Record, BatchFull
  <2>2. CASE ~BatchFull(queue')
    <3>1. pending' = pending /\ timer' = TimerAfterSchedule(queue')
      BY <1>2, <2>2 DEF Record
    <3> QED
      BY <1>4, <2>2, <3>1 DEF TimerAfterSchedule, BatchFull
  <2> QED
    BY <2>1, <2>2
<1> QED
  BY <1>2, <1>4, <1>5 DEF Record

\* A drain that takes a batch: how the lengths and the chain change.
LEMMA DrainLengths ==
  ASSUME TypeOK, DrainTakes
  PROVE  /\ Len(batch) = 0
         /\ Len(batch') + Len(queue') = Len(queue)
         /\ Len(batch') \in Nat \ {0} /\ Len(queue') \in Nat
         /\ Len(batch') <= BatchSize
         /\ Len(queue') = 0 \/ Len(batch') = BatchSize
         /\ batch' # <<>>
         /\ pending > 0 /\ pending' = pending - 1
<1>1. Len(queue) \in Nat
  BY LenProperties DEF TypeOK
<1>2. /\ SpliceLen \in 1 .. Len(queue)
      /\ Len(SpliceTaken) = SpliceLen /\ SpliceTaken \in Seq(1 .. recorded)
      /\ Len(SpliceLeft) = Len(queue) - SpliceLen
  BY SpliceFacts DEF TypeOK, DrainTakes
<1>3. SpliceLen <= BatchSize /\ (SpliceLen = BatchSize \/ SpliceLen = Len(queue))
  BY <1>1, SizesAssumption DEF SpliceLen, BatchFull
<1>4. batch = <<>> /\ batch' = SpliceTaken /\ queue' = SpliceLeft
      /\ pending > 0 /\ pending' = pending - 1
  BY DEF DrainTakes, DrainReady
<1>5. Len(batch) = 0
  BY <1>4, EmptySeq
<1>6. batch' # <<>>
  BY <1>1, <1>2, <1>4, EmptySeq
<1> HIDE DEF SpliceLen
<1> QED
  BY <1>1, <1>2, <1>3, <1>4, <1>5, <1>6

\* The end of a write: its entries are written or dropped, the timer re-armed.
LEMMA WriteLengths ==
  ASSUME TypeOK, WriteOk \/ WriteFails
  PROVE  /\ Len(batch) \in Nat /\ Len(batch') = 0
         /\ written' + dropped' = written + dropped + Len(batch)
         /\ queue # <<>> => timer'
         /\ UNCHANGED <<queue, pending, closed, recorded>>
<1>1. Len(batch) \in Nat
  BY LenProperties DEF TypeOK
<1>2. /\ batch' = <<>> /\ timer' = TimerAfterSchedule(queue)
      /\ UNCHANGED <<queue, pending, closed, recorded>>
  BY DEF WriteOk, WriteFails, DrainEnds
<1>3. Len(batch') = 0
  BY <1>2, EmptySeq
<1>4. \/ written' = written + Len(batch) /\ dropped' = dropped
      \/ dropped' = dropped + Len(batch) /\ written' = written
  BY Zenon DEF WriteOk, WriteFails
<1>5. written \in Nat /\ dropped \in Nat
  BY DEF TypeOK
<1>6. written' + dropped' = written + dropped + Len(batch)
  BY <1>1, <1>4, <1>5
<1>7. queue # <<>> => timer'
  BY <1>2 DEF TimerAfterSchedule
<1> QED
  BY <1>1, <1>2, <1>3, <1>6, <1>7

\* The flush and close calls touch neither the queue nor the counters; a
\* flush clears the timer only together with chaining a drain.
LEMMA CallEffects ==
  ASSUME TypeOK, NEW c \in Callers,
         FlushCall(c) \/ FlushAgain(c) \/ FlushReturns(c) \/ Close(c)
  PROVE  /\ UNCHANGED <<queue, batch, recorded, written, dropped, store>>
         /\ pending' \in {pending, pending + 1}
         /\ \/ pending' = pending + 1
            \/ timer' = timer /\ closed' = closed
            \/ closed'
<1>1. CASE FlushCall(c)
  BY <1>1 DEF FlushCall
<1>2. CASE FlushAgain(c)
  BY <1>2 DEF FlushAgain
<1>3. CASE FlushReturns(c)
  BY <1>3 DEF FlushReturns, sink
<1>4. CASE Close(c)
  BY <1>4 DEF Close
<1> QED
  BY <1>1, <1>2, <1>3, <1>4

-----------------------------------------------------------------------------
Quantities == BacklogCovered /\ HoldingBounded /\ Accounting

\* A new sink satisfies the three numerical invariants.
LEMMA QuantitiesInit == Init => Quantities
<1> SUFFICES ASSUME Init PROVE Quantities
  OBVIOUS
<1>1. Len(queue) = 0 /\ Len(batch) = 0
  BY EmptySeq DEF Init
<1> QED
  BY <1>1, SizesAssumption DEF Init, Quantities, BacklogCovered, HoldingBounded, Accounting

\* The three numerical invariants are inductive together.
LEMMA QuantitiesNext == TypeOK /\ Quantities /\ [Next]_vars => Quantities'
<1> SUFFICES ASSUME TypeOK, Quantities, [Next]_vars PROVE Quantities'
  OBVIOUS
<1> USE SizesAssumption DEF Quantities, BacklogCovered, HoldingBounded, Accounting
<1>0. /\ Len(queue) \in Nat /\ Len(batch) \in Nat /\ pending \in Nat
      /\ written \in Nat /\ dropped \in Nat /\ recorded \in Nat
  BY LenProperties DEF TypeOK
<1>1. CASE Record
  <2>1. PICK ov \in 0 .. 1 :
           /\ (ov = 1) <=> (Len(queue) >= MaxQueue)
           /\ Len(queue') = Len(queue) + 1 - ov
           /\ dropped' = dropped + ov
           /\ recorded' = recorded + 1
           /\ queue' # <<>>
           /\ IF Len(queue') >= BatchSize THEN pending' = pending + 1
                                          ELSE pending' = pending /\ timer' = TRUE
           /\ UNCHANGED <<batch, closed, written>>
    BY <1>1, RecordLengths
  <2>2. BacklogCovered'
    <3>1. CASE Len(queue') >= BatchSize
      <4>1. pending' = pending + 1
        BY <2>1, <3>1
      <4> QED
        BY <1>0, <2>1, <4>1
    <3>2. CASE ~(Len(queue') >= BatchSize)
      <4>1. pending' = pending
        BY <2>1, <3>2
      <4> QED
        BY <1>0, <2>1, <3>2, <4>1
    <3> QED
      BY <3>1, <3>2
  <2>3. HoldingBounded'
    BY <1>0, <2>1
  <2>4. Accounting'
    BY <1>0, <2>1
  <2> QED
    BY <2>2, <2>3, <2>4
<1>2. CASE TimerFires
  BY <1>0, <1>2 DEF TimerFires
<1>3. CASE DrainEmpty
  <2>1. Len(queue) = 0 /\ pending > 0 /\ pending' = pending - 1
        /\ UNCHANGED <<queue, batch, recorded, written, dropped>>
    BY <1>3, EmptySeq DEF DrainEmpty, DrainReady
  <2> QED
    BY <1>0, <2>1
<1>4. CASE DrainTakes
  <2>1. UNCHANGED <<recorded, written, dropped>>
    BY <1>4 DEF DrainTakes
  <2> QED
    BY <1>0, <1>4, <2>1, DrainLengths
<1>5. CASE WriteOk \/ WriteFails
  <2>1. Len(queue') = Len(queue)
    BY <1>5, WriteLengths
  <2>2. written' \in Nat /\ dropped' \in Nat
    BY TypeNext DEF TypeOK
  <2>3. /\ Len(batch') = 0
        /\ written' + dropped' = written + dropped + Len(batch)
        /\ UNCHANGED <<queue, pending, recorded>>
    BY <1>5, WriteLengths
  <2> QED
    BY <1>0, <2>1, <2>2, <2>3
<1>6. ASSUME NEW c \in Callers, FlushCall(c) \/ FlushAgain(c) \/ FlushReturns(c) \/ Close(c)
      PROVE  Quantities'
  <2>1. /\ UNCHANGED <<queue, batch, recorded, written, dropped>>
        /\ pending' \in {pending, pending + 1}
    BY <1>6, CallEffects
  <2> QED
    BY <1>0, <2>1
<1>7. CASE UNCHANGED vars
  BY <1>7 DEF vars, sink
<1> QED
  BY <1>1, <1>2, <1>3, <1>4, <1>5, <1>6, <1>7 DEF Next

\* The three numerical invariants hold in every reachable state.
LEMMA QuantitiesCorrect == Spec => []Quantities
  BY QuantitiesInit, QuantitiesNext, TypeCorrect, PTL DEF Spec

\* Every entry beyond a partial batch has a drain of its own.
THEOREM BacklogTheorem == Spec => []BacklogCovered
<1>1. Quantities => BacklogCovered
  BY DEF Quantities
<1> QED
  BY <1>1, QuantitiesCorrect, PTL

\* The queue and the batch keep to their ceilings.
THEOREM BoundTheorem == Spec => []HoldingBounded
<1>1. Quantities => HoldingBounded
  BY DEF Quantities
<1> QED
  BY <1>1, QuantitiesCorrect, PTL

\* Every accepted entry is written, counted as dropped, queued or in flight.
THEOREM AccountingTheorem == Spec => []Accounting
<1>1. Quantities => Accounting
  BY DEF Quantities
<1> QED
  BY <1>1, QuantitiesCorrect, PTL

-----------------------------------------------------------------------------
\* An open sink never strands an entry.
THEOREM NotStrandedTheorem == Spec => []NotStranded
<1>1. Init => NotStranded
  BY DEF Init, NotStranded
<1>2. TypeOK /\ NotStranded /\ [Next]_vars => NotStranded'
  <2> SUFFICES ASSUME TypeOK, NotStranded, [Next]_vars PROVE NotStranded'
    OBVIOUS
  <2> USE DEF NotStranded
  <2>0. pending \in Nat
    BY DEF TypeOK
  <2>1. CASE Record
    <3>1. IF Len(queue') >= BatchSize THEN pending' = pending + 1
                                      ELSE pending' = pending /\ timer' = TRUE
      BY <2>1, RecordLengths
    <3>2. CASE pending' = pending + 1
      BY <2>0, <3>2
    <3>3. CASE timer' = TRUE
      BY <3>3
    <3> QED
      BY <3>1, <3>2, <3>3
  <2>2. CASE TimerFires
    BY <2>0, <2>2 DEF TimerFires
  <2>3. CASE DrainEmpty
    BY <2>3 DEF DrainEmpty
  <2>4. CASE DrainTakes
    BY <2>4, DrainLengths
  <2>5. CASE WriteOk \/ WriteFails
    BY <2>5, WriteLengths
  <2>6. ASSUME NEW c \in Callers, FlushCall(c) \/ FlushAgain(c) \/ FlushReturns(c) \/ Close(c)
        PROVE  NotStranded'
    <3>1. /\ UNCHANGED <<queue, batch>>
          /\ pending' \in {pending, pending + 1}
          /\ \/ pending' = pending + 1
             \/ timer' = timer /\ closed' = closed
             \/ closed'
      BY <2>6, CallEffects
    <3>2. pending' >= pending
      BY <2>0, <3>1
    <3>3. CASE pending' = pending + 1
      BY <2>0, <3>3
    <3>4. CASE timer' = timer /\ closed' = closed
      BY <2>0, <3>1, <3>2, <3>4
    <3>5. CASE closed'
      BY <3>5
    <3> QED
      BY <3>1, <3>3, <3>4, <3>5
  <2>7. CASE UNCHANGED vars
    BY <2>7 DEF vars, sink
  <2> QED
    BY <2>1, <2>2, <2>3, <2>4, <2>5, <2>6, <2>7 DEF Next
<1> QED
  BY <1>1, <1>2, TypeCorrect, PTL DEF Spec

-----------------------------------------------------------------------------
(* A call in progress has something of its own in the chain for every      *)
(* entry recorded before it.                                               *)

\* Drains up to and including the call's own that have not taken a batch.
Ahead(c) == wait[c] - (IF batch # <<>> THEN 1 ELSE 0)

\* An entry recorded before a call waits in the queue only near enough to
\* the front for the drains ahead of the call to take it, although each is
\* only known to take one entry; and once the call's drain has ended no such
\* entry is in flight either.
FlushCovered ==
  \A c \in Callers : pc[c] # "idle" =>
    /\ \A i \in 1 .. Len(queue) :
         queue[i] <= seen[c] => Ahead(c) >= 1 /\ i <= BatchSize - 2 + Ahead(c)
    /\ wait[c] = 0 => \A i \in 1 .. Len(batch) : batch[i] > seen[c]
    /\ pc[c] \in {"flushed", "closed"} => wait[c] = 0

\* What TypeOK says of single entries and of single calls.
LEMMA QueueTypes ==
  ASSUME TypeOK
  PROVE  /\ Len(queue) \in Nat /\ Len(batch) \in Nat
         /\ \A i \in 1 .. Len(queue) : queue[i] \in 1 .. recorded
         /\ \A i \in 1 .. Len(batch) : batch[i] \in 1 .. recorded
         /\ \A c \in Callers : seen[c] \in 0 .. recorded /\ wait[c] \in Nat
         /\ recorded \in Nat /\ pending \in Nat
  BY LenProperties, ElementOfSeq DEF TypeOK

\* record() only adds an entry newer than every call, and moves the others up.
LEMMA RecordMoves ==
  ASSUME TypeOK, Record
  PROVE  /\ Len(queue') \in Nat
         /\ \E ov \in 0 .. 1 :
              \A i \in 1 .. Len(queue') :
                \/ i + ov \in 1 .. Len(queue) /\ queue'[i] = queue[i + ov]
                \/ i = Len(queue') /\ queue'[i] = recorded + 1
         /\ recorded' = recorded + 1
         /\ UNCHANGED <<batch, store, pc, wait, seen>>
<1>1. queue \in Seq(1 .. recorded + 1) /\ recorded + 1 \in 1 .. recorded + 1
  <2>1. recorded \in Nat /\ queue \in Seq(1 .. recorded)
    BY DEF TypeOK
  <2>2. 1 .. recorded \subseteq 1 .. (recorded + 1)
    BY <2>1
  <2> QED
    BY <2>1, <2>2, SeqMonotonic
<1>2. /\ Overflow(queue) \in 0 .. 1
      /\ queue' \in Seq(1 .. recorded + 1)
      /\ Len(queue') = Len(queue) + 1 - Overflow(queue)
      /\ \A i \in 1 .. Len(queue) - Overflow(queue) :
           queue'[i] = queue[Overflow(queue) + i]
      /\ queue'[Len(queue) + 1 - Overflow(queue)] = recorded + 1
  BY <1>1, RecordFacts DEF Record
<1>3. Len(queue) \in Nat
  BY QueueTypes
<1>4. \A i \in 1 .. Len(queue') :
        \/ i + Overflow(queue) \in 1 .. Len(queue) /\ queue'[i] = queue[i + Overflow(queue)]
        \/ i = Len(queue') /\ queue'[i] = recorded + 1
  BY <1>2, <1>3
<1>5. \E ov \in 0 .. 1 :
        \A i \in 1 .. Len(queue') :
          \/ i + ov \in 1 .. Len(queue) /\ queue'[i] = queue[i + ov]
          \/ i = Len(queue') /\ queue'[i] = recorded + 1
  <2> DEFINE ov == Overflow(queue)
  <2>1. /\ ov \in 0 .. 1
        /\ \A i \in 1 .. Len(queue') :
             \/ i + ov \in 1 .. Len(queue) /\ queue'[i] = queue[i + ov]
             \/ i = Len(queue') /\ queue'[i] = recorded + 1
    BY <1>2, <1>4
  <2> HIDE DEF ov
  <2> QED
    BY <2>1, Zenon
<1>6. Len(queue') \in Nat
  BY <1>2, <1>3
<1>7. recorded' = recorded + 1 /\ UNCHANGED <<batch, store, pc, wait, seen>>
  BY DEF Record
<1> QED
  BY <1>5, <1>6, <1>7

\* A drain moves the front of the queue into the batch.
LEMMA DrainMoves ==
  ASSUME TypeOK, DrainTakes
  PROVE  /\ Len(batch') \in Nat \ {0} /\ Len(queue') \in Nat
         /\ Len(batch') + Len(queue') = Len(queue)
         /\ \A i \in 1 .. Len(batch') : i \in 1 .. Len(queue) /\ batch'[i] = queue[i]
         /\ \A i \in 1 .. Len(queue') : /\ Len(batch') + i \in 1 .. Len(queue)
                                       /\ queue'[i] = queue[Len(batch') + i]
<1>1. /\ SpliceLen \in 1 .. Len(queue)
      /\ Len(SpliceTaken) = SpliceLen
      /\ Len(SpliceLeft) = Len(queue) - SpliceLen
      /\ \A i \in 1 .. Len(SpliceTaken) : SpliceTaken[i] = queue[i]
      /\ \A i \in 1 .. Len(SpliceLeft) : SpliceLeft[i] = queue[SpliceLen + i]
  BY SpliceFacts DEF TypeOK, DrainTakes
<1>2. batch' = SpliceTaken /\ queue' = SpliceLeft
  BY DEF DrainTakes
<1>3. Len(queue) \in Nat
  BY QueueTypes
<1> DEFINE n == SpliceLen
<1>4. /\ n \in 1 .. Len(queue) /\ Len(batch') = n /\ Len(queue') = Len(queue) - n
      /\ \A i \in 1 .. n : batch'[i] = queue[i]
      /\ \A i \in 1 .. Len(queue) - n : queue'[i] = queue[n + i]
  BY <1>1, <1>2
<1> HIDE DEF n
<1>5. /\ \A i \in 1 .. n : i \in 1 .. Len(queue)
      /\ \A i \in 1 .. Len(queue) - n : n + i \in 1 .. Len(queue)
      /\ n \in Nat \ {0} /\ Len(queue) - n \in Nat /\ n + (Len(queue) - n) = Len(queue)
  BY <1>3, <1>4
<1> QED
  BY <1>4, <1>5

\* FlushCovered is inductive, given the types and the quantities.
LEMMA FlushCoveredNext ==
  TypeOK /\ Quantities /\ FlushCovered /\ [Next]_vars => FlushCovered'
<1> SUFFICES ASSUME TypeOK, Quantities, FlushCovered, [Next]_vars PROVE FlushCovered'
  OBVIOUS
<1> USE SizesAssumption
<1>0. /\ Len(queue) \in Nat /\ Len(batch) \in Nat
      /\ \A i \in 1 .. Len(queue) : queue[i] \in 1 .. recorded
      /\ \A i \in 1 .. Len(batch) : batch[i] \in 1 .. recorded
      /\ \A c \in Callers : seen[c] \in 0 .. recorded /\ wait[c] \in Nat
      /\ recorded \in Nat /\ pending \in Nat
  BY QueueTypes
<1>1. CASE Record
  <2>1. PICK ov \in 0 .. 1 :
              \A i \in 1 .. Len(queue') :
                \/ i + ov \in 1 .. Len(queue) /\ queue'[i] = queue[i + ov]
                \/ i = Len(queue') /\ queue'[i] = recorded + 1
    BY <1>1, RecordMoves
  <2>2. Len(queue') \in Nat /\ UNCHANGED <<batch, pc, wait, seen>>
    BY <1>1, RecordMoves
  <2>3. SUFFICES ASSUME NEW c \in Callers, pc[c] # "idle",
                        NEW i \in 1 .. Len(queue'), queue'[i] <= seen[c]
                 PROVE  Ahead(c) >= 1 /\ i <= BatchSize - 2 + Ahead(c)
    BY <2>2 DEF FlushCovered, Ahead
  <2>4. i + ov \in 1 .. Len(queue) /\ queue[i + ov] <= seen[c]
    BY <1>0, <2>1, <2>3
  <2>5. Ahead(c) >= 1 /\ i + ov <= BatchSize - 2 + Ahead(c)
    BY <2>3, <2>4 DEF FlushCovered
  <2>6. Ahead(c) \in Int
    BY <1>0 DEF Ahead
  <2> QED
    BY <2>5, <2>6
<1>2. CASE TimerFires
  BY <1>2 DEF TimerFires, FlushCovered, Ahead
<1>3. CASE DrainEmpty
  <2>1. Len(queue) = 0 /\ Len(batch) = 0 /\ wait' = Settled
        /\ UNCHANGED <<queue, batch, pc, seen>>
    BY <1>3, EmptySeq DEF DrainEmpty, DrainReady
  <2>2. \A c \in Callers : wait[c] = 0 => wait'[c] = 0
    BY <2>1 DEF Settled
  <2> QED
    BY <2>1, <2>2 DEF FlushCovered
<1>4. CASE DrainTakes
  <2>1. /\ Len(batch') \in Nat \ {0} /\ Len(queue') \in Nat
        /\ Len(batch') + Len(queue') = Len(queue)
        /\ \A i \in 1 .. Len(batch') : i \in 1 .. Len(queue) /\ batch'[i] = queue[i]
        /\ \A i \in 1 .. Len(queue') : /\ Len(batch') + i \in 1 .. Len(queue)
                                      /\ queue'[i] = queue[Len(batch') + i]
    BY <1>4, DrainMoves
  <2>2. batch = <<>> /\ batch' # <<>> /\ UNCHANGED <<pc, wait, seen>>
        /\ (Len(queue') = 0 \/ Len(batch') = BatchSize)
    BY <1>4, DrainLengths DEF DrainTakes, DrainReady
  <2>3. SUFFICES ASSUME NEW c \in Callers, pc[c] # "idle"
                 PROVE  /\ \A i \in 1 .. Len(queue') : queue'[i] <= seen[c] =>
                             wait[c] - 1 >= 1 /\ i <= BatchSize - 2 + (wait[c] - 1)
                        /\ wait[c] = 0 => \A i \in 1 .. Len(batch') : batch'[i] > seen[c]
                        /\ pc[c] \in {"flushed", "closed"} => wait[c] = 0
    BY <2>2 DEF FlushCovered, Ahead
  <2>4. \A i \in 1 .. Len(queue) :
          queue[i] <= seen[c] => wait[c] >= 1 /\ i <= BatchSize - 2 + wait[c]
    <3>1. Ahead(c) = wait[c]
      BY <1>0, <2>2 DEF Ahead
    <3> QED
      BY <2>3, <3>1 DEF FlushCovered
  <2>5. ASSUME NEW i \in 1 .. Len(queue'), queue'[i] <= seen[c]
        PROVE  wait[c] - 1 >= 1 /\ i <= BatchSize - 2 + (wait[c] - 1)
    <3>1. Len(batch') = BatchSize
      BY <2>1, <2>2, <2>5
    <3>2. BatchSize + i \in 1 .. Len(queue) /\ queue[BatchSize + i] <= seen[c]
      BY <2>1, <2>5, <3>1
    <3>3. BatchSize + i <= BatchSize - 2 + wait[c]
      BY <2>4, <3>2
    <3> DEFINE w == wait[c]
               n == Len(queue')
    <3>4. w \in Int /\ BatchSize \in Nat /\ n \in Nat
      BY <1>0, <2>1
    <3> HIDE DEF w, n
    <3> QED
      BY <2>5, <3>3, <3>4 DEF w, n
  <2>6. ASSUME wait[c] = 0, NEW i \in 1 .. Len(batch')
        PROVE  batch'[i] > seen[c]
    BY <1>0, <2>1, <2>4, <2>6
  <2>7. pc[c] \in {"flushed", "closed"} => wait[c] = 0
    BY <2>3 DEF FlushCovered
  <2> QED
    BY <2>5, <2>6, <2>7
<1>5. CASE WriteOk \/ WriteFails
  <2>1. /\ batch # <<>> /\ batch' = <<>> /\ wait' = Settled
        /\ UNCHANGED <<queue, pc, seen>>
    BY <1>5 DEF WriteOk, WriteFails, DrainEnds
  <2>2. Len(batch') = 0
    BY <2>1, EmptySeq
  <2>3. SUFFICES ASSUME NEW c \in Callers, pc[c] # "idle"
                 PROVE  /\ \A i \in 1 .. Len(queue) : queue[i] <= seen[c] =>
                             wait'[c] >= 1 /\ i <= BatchSize - 2 + wait'[c]
                        /\ pc[c] \in {"flushed", "closed"} => wait'[c] = 0
    <3>1. \A c \in Callers : wait'[c] \in Nat
      BY <1>0, <2>1 DEF Settled
    <3>2. \A c \in Callers : Ahead(c)' = wait'[c]
      BY <2>1, <3>1 DEF Ahead
    <3>3. \A i \in 1 .. Len(batch') : FALSE
      BY <2>2
    <3> QED
      BY <2>1, <3>2, <3>3 DEF FlushCovered
  <2>4. wait[c] \in Nat /\ wait'[c] = (IF wait[c] > 0 THEN wait[c] - 1 ELSE 0)
    BY <1>0, <2>1 DEF Settled
  <2>5. Ahead(c) = wait[c] - 1
    BY <2>1 DEF Ahead
  <2>6. ASSUME NEW i \in 1 .. Len(queue), queue[i] <= seen[c]
        PROVE  wait'[c] >= 1 /\ i <= BatchSize - 2 + wait'[c]
    <3>1. Ahead(c) >= 1 /\ i <= BatchSize - 2 + Ahead(c)
      BY <2>3, <2>6 DEF FlushCovered
    <3> QED
      BY <2>4, <2>5, <3>1
  <2>7. pc[c] \in {"flushed", "closed"} => wait'[c] = 0
    BY <2>3, <2>4 DEF FlushCovered
  <2> QED
    BY <2>6, <2>7
<1>6. ASSUME NEW d \in Callers, FlushCall(d)
      PROVE  FlushCovered'
  <2>1. /\ pc' = [pc EXCEPT ![d] = "first"]
        /\ wait' = [wait EXCEPT ![d] = ChainLength]
        /\ seen' = [seen EXCEPT ![d] = recorded]
        /\ UNCHANGED <<queue, batch>>
    BY <1>6 DEF FlushCall
  <2>2. Len(queue) <= BatchSize - 1 + pending
    BY DEF Quantities, BacklogCovered
  <2>3. /\ pc \in [Callers -> {"idle", "first", "second", "flushed", "closed"}]
        /\ wait \in [Callers -> Nat] /\ seen \in [Callers -> 0 .. recorded]
    BY DEF TypeOK
  <2>4. SUFFICES ASSUME NEW c \in Callers, pc'[c] # "idle"
                 PROVE  /\ \A i \in 1 .. Len(queue) : queue[i] <= seen'[c] =>
                             Ahead(c)' >= 1 /\ i <= BatchSize - 2 + Ahead(c)'
                        /\ wait'[c] = 0 => \A i \in 1 .. Len(batch) : batch[i] > seen'[c]
                        /\ pc'[c] \in {"flushed", "closed"} => wait'[c] = 0
    BY <2>1 DEF FlushCovered
  <2>5. CASE c = d
    <3>1. pc'[c] = "first" /\ wait'[c] = ChainLength
      BY <2>1, <2>3, <2>5
    <3>2. Ahead(c)' = pending + 1 /\ ChainLength >= 1
      BY <1>0, <2>1, <3>1 DEF Ahead, ChainLength
    <3> QED
      BY <1>0, <2>2, <3>1, <3>2
  <2>6. CASE c # d
    <3>1. pc'[c] = pc[c] /\ wait'[c] = wait[c] /\ seen'[c] = seen[c]
      BY <2>1, <2>3, <2>6
    <3>2. Ahead(c)' = Ahead(c)
      BY <2>1, <3>1 DEF Ahead
    <3> QED
      BY <2>4, <3>1, <3>2 DEF FlushCovered
  <2> QED
    BY <2>5, <2>6
<1>7. ASSUME NEW d \in Callers, FlushAgain(d) \/ FlushReturns(d) \/ Close(d)
      PROVE  FlushCovered'
  <2>1. UNCHANGED <<queue, batch, seen>>
    BY <1>7 DEF FlushAgain, FlushReturns, Close, sink
  <2>2. /\ pc \in [Callers -> {"idle", "first", "second", "flushed", "closed"}]
        /\ wait \in [Callers -> Nat]
    BY DEF TypeOK
  <2>3. /\ pc[d] # "idle" /\ wait[d] = 0
        /\ \A c \in Callers \ {d} : pc'[c] = pc[c] /\ wait'[c] = wait[c]
        /\ \/ pc'[d] = "second" /\ wait'[d] = ChainLength
           \/ wait'[d] = 0
    <3>1. CASE FlushAgain(d)
      BY <2>2, <3>1 DEF FlushAgain
    <3>2. CASE FlushReturns(d)
      BY <2>2, <3>2 DEF FlushReturns
    <3>3. CASE Close(d)
      <4>1. wait[d] = 0 /\ pc[d] # "idle"
        BY <3>3 DEF Close, FlushCovered
      <4> QED
        BY <2>2, <3>3, <4>1 DEF Close
    <3> QED
      BY <1>7, <3>1, <3>2, <3>3
  <2>4. SUFFICES ASSUME NEW c \in Callers, pc'[c] # "idle"
                 PROVE  /\ \A i \in 1 .. Len(queue) : queue[i] <= seen[c] =>
                             Ahead(c)' >= 1 /\ i <= BatchSize - 2 + Ahead(c)'
                        /\ wait'[c] = 0 => \A i \in 1 .. Len(batch) : batch[i] > seen[c]
                        /\ pc'[c] \in {"flushed", "closed"} => wait'[c] = 0
    BY <2>1 DEF FlushCovered
  <2>5. CASE c = d
    <3>1. \A i \in 1 .. Len(queue) : ~(queue[i] <= seen[c])
      BY <1>0, <2>3, <2>5 DEF FlushCovered, Ahead
    <3>2. \A i \in 1 .. Len(batch) : batch[i] > seen[c]
      BY <2>3, <2>5 DEF FlushCovered
    <3> QED
      BY <2>3, <2>5, <3>1, <3>2
  <2>6. CASE c # d
    <3>1. pc'[c] = pc[c] /\ wait'[c] = wait[c]
      BY <2>3, <2>6
    <3>2. Ahead(c)' = Ahead(c)
      BY <2>1, <3>1 DEF Ahead
    <3> QED
      BY <2>4, <3>1, <3>2 DEF FlushCovered
  <2> QED
    BY <2>5, <2>6
<1>8. CASE UNCHANGED vars
  BY <1>8 DEF vars, sink, FlushCovered, Ahead
<1> QED
  BY <1>1, <1>2, <1>3, <1>4, <1>5, <1>6, <1>7, <1>8 DEF Next

\* flush() and close() return only when everything recorded before the call
\* was written or counted as dropped.
THEOREM FlushTheorem == Spec => []FlushDelivers
<1>1. Init => FlushCovered
  BY DEF Init, FlushCovered
<1>2. TypeOK /\ FlushCovered => FlushDelivers
  <2> SUFFICES ASSUME TypeOK, FlushCovered, NEW c \in Callers,
                      pc[c] \in {"flushed", "closed"}
               PROVE  /\ \A i \in 1 .. Len(queue) : queue[i] > seen[c]
                      /\ \A i \in 1 .. Len(batch) : batch[i] > seen[c]
    BY DEF FlushDelivers
  <2>1. wait[c] = 0 /\ pc[c] # "idle"
    BY DEF FlushCovered
  <2>2. ~(Ahead(c) >= 1)
    BY <2>1 DEF Ahead
  <2>3. \A i \in 1 .. Len(queue) : ~(queue[i] <= seen[c])
    BY <2>1, <2>2 DEF FlushCovered
  <2>4. /\ \A i \in 1 .. Len(queue) : queue[i] \in Nat
        /\ seen[c] \in Nat
    BY QueueTypes
  <2> QED
    BY <2>1, <2>3, <2>4 DEF FlushCovered
<1> QED
  BY <1>1, <1>2, FlushCoveredNext, TypeCorrect, QuantitiesCorrect, PTL DEF Spec

-----------------------------------------------------------------------------
(* The order of writes. *)

\* The recording order is kept by every callback.
LEMMA OrderNext == TypeOK /\ InOrder /\ [Next]_vars => InOrder'
<1> SUFFICES ASSUME TypeOK, InOrder, [Next]_vars PROVE InOrder'
  OBVIOUS
<1> USE DEF InOrder, Increasing, Below
<1>0. /\ Len(queue) \in Nat /\ Len(batch) \in Nat /\ recorded \in Nat
      /\ \A i \in 1 .. Len(queue) : queue[i] \in 1 .. recorded
      /\ \A i \in 1 .. Len(batch) : batch[i] \in 1 .. recorded
  BY QueueTypes
<1>00. Len(store) \in Nat /\ \A i \in 1 .. Len(store) : store[i] \in 1 .. recorded
  BY LenProperties, ElementOfSeq DEF TypeOK
<1>1. CASE Record
  <2>1. PICK ov \in 0 .. 1 :
              \A i \in 1 .. Len(queue') :
                \/ i + ov \in 1 .. Len(queue) /\ queue'[i] = queue[i + ov]
                \/ i = Len(queue') /\ queue'[i] = recorded + 1
    BY <1>1, RecordMoves
  <2>2. Len(queue') \in Nat /\ UNCHANGED <<batch, store>>
    BY <1>1, RecordMoves
  <2>3. Increasing(queue')
    <3> SUFFICES ASSUME NEW i \in 1 .. Len(queue'), NEW j \in 1 .. Len(queue'), i < j
                 PROVE  queue'[i] < queue'[j]
      OBVIOUS
    <3>1. i + ov \in 1 .. Len(queue) /\ queue'[i] = queue[i + ov]
      BY <2>1, <2>2
    <3>2. CASE j + ov \in 1 .. Len(queue) /\ queue'[j] = queue[j + ov]
      BY <3>1, <3>2
    <3>3. CASE queue'[j] = recorded + 1
      BY <1>0, <3>1, <3>3
    <3> QED
      BY <2>1, <3>2, <3>3
  <2>4. ASSUME NEW i \in 1 .. Len(queue')
        PROVE  (\E k \in 1 .. Len(queue) : queue'[i] = queue[k]) \/ queue'[i] = recorded + 1
    BY <2>1
  <2>5. Below(store, queue')
    <3> SUFFICES ASSUME NEW i \in 1 .. Len(store), NEW j \in 1 .. Len(queue')
                 PROVE  store[i] < queue'[j]
      OBVIOUS
    <3>1. store[i] < recorded + 1 /\ \A k \in 1 .. Len(queue) : store[i] < queue[k]
      BY <1>0, <1>00
    <3> QED
      BY <2>4, <3>1
  <2>6. Below(batch, queue')
    <3> SUFFICES ASSUME NEW i \in 1 .. Len(batch), NEW j \in 1 .. Len(queue')
                 PROVE  batch[i] < queue'[j]
      OBVIOUS
    <3>1. batch[i] < recorded + 1 /\ \A k \in 1 .. Len(queue) : batch[i] < queue[k]
      BY <1>0
    <3> QED
      BY <2>4, <3>1
  <2> QED
    BY <2>2, <2>3, <2>5, <2>6
<1>2. CASE TimerFires
  BY <1>2 DEF TimerFires
<1>3. CASE DrainEmpty
  BY <1>3 DEF DrainEmpty
<1>4. CASE DrainTakes
  <2>1. /\ Len(batch') \in Nat \ {0} /\ Len(queue') \in Nat
        /\ Len(batch') + Len(queue') = Len(queue)
        /\ \A i \in 1 .. Len(batch') : i \in 1 .. Len(queue) /\ batch'[i] = queue[i]
        /\ \A i \in 1 .. Len(queue') : /\ Len(batch') + i \in 1 .. Len(queue)
                                      /\ queue'[i] = queue[Len(batch') + i]
    BY <1>4, DrainMoves
  <2>2. store' = store
    BY <1>4 DEF DrainTakes
  <2>3. Increasing(batch') /\ Increasing(queue')
    BY <2>1
  <2>4. Below(store, batch') /\ Below(store, queue')
    BY <2>1
  <2>5. Below(batch', queue')
    BY <2>1
  <2> QED
    BY <2>2, <2>3, <2>4, <2>5
<1>5. CASE WriteOk \/ WriteFails
  <2>1. batch' = <<>> /\ queue' = queue /\ store' \in {store, store \o batch}
    BY <1>5 DEF WriteOk, WriteFails, DrainEnds
  <2>2. Len(batch') = 0
    BY <2>1, EmptySeq
  <2>3. CASE store' = store
    BY <2>1, <2>2, <2>3
  <2>4. CASE store' = store \o batch
    <3>1. /\ Len(store') = Len(store) + Len(batch)
          /\ \A i \in 1 .. Len(store) + Len(batch) :
               store'[i] = IF i <= Len(store) THEN store[i] ELSE batch[i - Len(store)]
      BY <2>4, ConcatProperties DEF TypeOK
    <3>2. \A i \in 1 .. Len(store') :
            \/ i \in 1 .. Len(store) /\ store'[i] = store[i]
            \/ /\ i > Len(store) /\ i - Len(store) \in 1 .. Len(batch)
               /\ store'[i] = batch[i - Len(store)]
      BY <1>0, <1>00, <3>1
    <3>3. ASSUME NEW i \in 1 .. Len(store'), NEW j \in 1 .. Len(store'), i < j
          PROVE  store'[i] < store'[j]
      <4>1. CASE j \in 1 .. Len(store) /\ store'[j] = store[j]
        BY <1>00, <3>2, <3>3, <4>1
      <4>2. CASE /\ j > Len(store) /\ j - Len(store) \in 1 .. Len(batch)
                 /\ store'[j] = batch[j - Len(store)]
        <5>1. CASE i \in 1 .. Len(store) /\ store'[i] = store[i]
          BY <4>2, <5>1
        <5>2. CASE /\ i - Len(store) \in 1 .. Len(batch)
                   /\ store'[i] = batch[i - Len(store)]
          <6>1. i - Len(store) < j - Len(store)
            BY <1>00, <3>1, <3>3, <1>0
          <6> QED
            BY <4>2, <5>2, <6>1
        <5> QED
          BY <3>2, <5>1, <5>2
      <4> QED
        BY <3>2, <4>1, <4>2
    <3>4. Below(store', queue)
      BY <3>2
    <3> QED
      BY <2>1, <2>2, <3>3, <3>4
  <2> QED
    BY <2>1, <2>3, <2>4
<1>6. ASSUME NEW c \in Callers, FlushCall(c) \/ FlushAgain(c) \/ FlushReturns(c) \/ Close(c)
      PROVE  InOrder'
  BY <1>6, CallEffects
<1>7. CASE UNCHANGED vars
  BY <1>7 DEF vars, sink
<1> QED
  BY <1>1, <1>2, <1>3, <1>4, <1>5, <1>6, <1>7 DEF Next

\* Batches never overlap or overtake one another.
THEOREM OrderTheorem == Spec => []InOrder
<1>1. Init => InOrder
  <2> SUFFICES ASSUME Init PROVE InOrder
    OBVIOUS
  <2>1. Len(queue) = 0 /\ Len(batch) = 0 /\ Len(store) = 0
    BY EmptySeq DEF Init
  <2> QED
    BY <2>1 DEF InOrder, Increasing, Below
<1> QED
  BY <1>1, OrderNext, TypeCorrect, PTL DEF Spec
=============================================================================
