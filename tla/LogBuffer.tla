----------------------------- MODULE LogBuffer -----------------------------
(***************************************************************************)
(* BufferedRequestLogSink, packages/core/src/logs/buffer.ts: requests are  *)
(* recorded synchronously into a bounded queue; a chain of promises drains *)
(* it in batches; a timer covers partial batches; flush() and close() wait *)
(* for the chain.                                                          *)
(*                                                                         *)
(* JavaScript runs one callback at a time, so an action is one callback:   *)
(* the code between two awaits.  Entries are numbered in the order in      *)
(* which record() accepts them, which makes "the oldest" and "written in   *)
(* order" statements about numbers.                                        *)
(***************************************************************************)
EXTENDS Integers, Sequences

CONSTANTS BatchSize,   \* entries per INSERT
          MaxQueue,    \* queue ceiling
          MaxEntries,  \* bound: how many entries are recorded in a behaviour
          Flushers,    \* calls of flush() (each called at most once)
          Closers      \* calls of close() (each called at most once)

Callers == Flushers \cup Closers

ASSUME SizesAssumption == /\ BatchSize \in Nat \ {0}
                          /\ MaxQueue \in Nat \ {0}
                          /\ MaxEntries \in Nat

VARIABLES queue,     \* entries waiting, oldest first
          batch,     \* entries handed to the running writer.write; <<>> if none
          timer,     \* is the flush timer armed?
          pending,   \* drains chained on `draining` whose body has not started
          closed,    \* close() has finished
          recorded,  \* entries accepted so far (the number of the newest one)
          written, dropped,  \* the sink's two counters
          store,     \* what the writer has persisted
          pc,        \* where each flush() / close() call stands
          wait,      \* drains that must still end before the call continues
          seen       \* `recorded` when the call was made (history)

sink    == <<queue, batch, timer, pending, closed, recorded, written, dropped, store>>
vars    == <<sink, pc, wait, seen>>

Init == /\ queue = <<>> /\ batch = <<>> /\ store = <<>>
        /\ timer = FALSE /\ closed = FALSE
        /\ pending = 0 /\ recorded = 0 /\ written = 0 /\ dropped = 0
        /\ pc   = [c \in Callers |-> "idle"]
        /\ wait = [c \in Callers |-> 0]
        /\ seen = [c \in Callers |-> 0]

-----------------------------------------------------------------------------
(* Mutants: plausible slips in the definitions below.  No action uses them. *)

BatchFullOffByOne(q)   == Len(q) > BatchSize
TimerNotRearmed(q)     == timer
ChainWithoutOwnDrain   == pending
DropUncounted(q)       == 0
SettledByWritesOnly    == [c \in Callers |-> IF wait[c] > 0 /\ batch # <<>>
                                               THEN wait[c] - 1 ELSE wait[c]]

-----------------------------------------------------------------------------
BatchFull(q) == Len(q) >= BatchSize

\* scheduleFlush(): the timer afterwards, when the queue is q.
TimerAfterSchedule(q) == timer \/ q # <<>>

\* queue.splice(0, batchSize): what it takes and what it leaves.
SpliceLen == IF BatchFull(queue) THEN BatchSize ELSE Len(queue)
BatchFromNewest == SubSeq(queue, Len(queue) - SpliceLen + 1, Len(queue))   \* a mutant
SpliceTaken == SubSeq(queue, 1, SpliceLen)
SpliceLeft  == SubSeq(queue, SpliceLen + 1, Len(queue))

\* Drains ahead of and including one that is chained now.
ChainLength == pending + 1 + (IF batch # <<>> THEN 1 ELSE 0)

\* One drain has ended: every call that waits for the chain is one nearer.
Settled == [c \in Callers |-> IF wait[c] > 0 THEN wait[c] - 1 ELSE 0]

\* A full queue shifts its oldest entry out, and the loss is counted.
Shifted(q)  == IF Len(q) >= MaxQueue THEN Tail(q) ELSE q
Overflow(q) == IF Len(q) >= MaxQueue THEN 1 ELSE 0

\* A call whose drain has ended and which has not run its continuation yet.
Resumable(c) == pc[c] \in {"first", "second"} /\ wait[c] = 0

-----------------------------------------------------------------------------
\* record(entry).  After close() it returns at once: no step.
Record ==
  /\ ~closed
  /\ recorded < MaxEntries
  /\ LET next == Append(Shifted(queue), recorded + 1)
     IN /\ queue' = next
        /\ IF BatchFull(next)
             THEN pending' = pending + 1 /\ UNCHANGED timer
             ELSE timer' = TimerAfterSchedule(next) /\ UNCHANGED pending
  /\ dropped' = dropped + Overflow(queue)
  /\ recorded' = recorded + 1
  /\ UNCHANGED <<batch, closed, written, store, pc, wait, seen>>

\* The setTimeout callback of scheduleFlush.
TimerFires ==
  /\ timer
  /\ timer' = FALSE
  /\ pending' = pending + 1
  /\ UNCHANGED <<queue, batch, closed, recorded, written, dropped, store, pc, wait, seen>>

\* The next chained drain may run its body.  A flush() that awaited the
\* previous drain registered its continuation before the next drain was
\* chained, so that continuation runs first.
DrainReady == /\ pending > 0
              /\ batch = <<>>
              /\ \A c \in Callers : ~Resumable(c)

\* A drain that finds the queue empty ends at once.
DrainEmpty ==
  /\ DrainReady
  /\ queue = <<>>
  /\ pending' = pending - 1
  /\ wait' = Settled
  /\ UNCHANGED <<queue, batch, timer, closed, recorded, written, dropped, store, pc, seen>>

\* A drain splices its batch off the queue and calls writer.write.
DrainTakes ==
  /\ DrainReady
  /\ queue # <<>>
  /\ pending' = pending - 1
  /\ batch' = SpliceTaken
  /\ queue' = SpliceLeft
  /\ UNCHANGED <<timer, closed, recorded, written, dropped, store, pc, wait, seen>>

\* The code after `await this.writer.write(batch)`, whatever its outcome.
DrainEnds ==
  /\ batch # <<>>
  /\ batch' = <<>>
  /\ timer' = TimerAfterSchedule(queue)
  /\ wait' = Settled
  /\ UNCHANGED <<queue, pending, closed, recorded, pc, seen>>

WriteOk ==
  /\ DrainEnds
  /\ store' = store \o batch
  /\ written' = written + Len(batch)
  /\ UNCHANGED dropped

\* The Postgres writer inserts the log rows and then their contents, without
\* a transaction: a write that throws may have persisted the rows or not.
WriteFails ==
  /\ DrainEnds
  /\ store' \in {store, store \o batch}
  /\ dropped' = dropped + Len(batch)
  /\ UNCHANGED written

\* flush(), and close() which begins with it: up to the first await.
FlushCall(c) ==
  /\ pc[c] = "idle"
  /\ timer' = FALSE
  /\ pending' = pending + 1
  /\ pc'   = [pc EXCEPT ![c] = "first"]
  /\ wait' = [wait EXCEPT ![c] = ChainLength]
  /\ seen' = [seen EXCEPT ![c] = recorded]
  /\ UNCHANGED <<queue, batch, closed, recorded, written, dropped, store>>

\* flush() after its first drain: once more if something was queued meanwhile.
FlushAgain(c) ==
  /\ pc[c] = "first" /\ wait[c] = 0
  /\ queue # <<>>
  /\ pending' = pending + 1
  /\ pc'   = [pc EXCEPT ![c] = "second"]
  /\ wait' = [wait EXCEPT ![c] = ChainLength]
  /\ UNCHANGED <<queue, batch, timer, closed, recorded, written, dropped, store, seen>>

FlushReturns(c) ==
  /\ wait[c] = 0
  /\ pc[c] = "second" \/ (pc[c] = "first" /\ queue = <<>>)
  /\ pc' = [pc EXCEPT ![c] = "flushed"]
  /\ UNCHANGED <<sink, wait, seen>>

\* close() after its flush().
Close(c) ==
  /\ c \in Closers
  /\ pc[c] = "flushed"
  /\ closed' = TRUE
  /\ timer' = FALSE
  /\ pc' = [pc EXCEPT ![c] = "closed"]
  /\ UNCHANGED <<queue, batch, pending, recorded, written, dropped, store, wait, seen>>

Next == \/ Record \/ TimerFires
        \/ DrainEmpty \/ DrainTakes \/ WriteOk \/ WriteFails
        \/ \E c \in Callers : \/ FlushCall(c) \/ FlushAgain(c)
                              \/ FlushReturns(c) \/ Close(c)

Spec == Init /\ [][Next]_vars

\* The event loop runs due timers and microtasks, and a write settles (the
\* Postgres client has timeouts).  Nobody is obliged to record or to flush.
Fairness == /\ WF_vars(TimerFires)
            /\ WF_vars(DrainEmpty \/ DrainTakes)
            /\ WF_vars(WriteOk \/ WriteFails)
            /\ \A c \in Callers : WF_vars(FlushAgain(c) \/ FlushReturns(c))

FairSpec == Spec /\ Fairness

-----------------------------------------------------------------------------
TypeOK == /\ queue \in Seq(1 .. recorded)
          /\ batch \in Seq(1 .. recorded)
          /\ store \in Seq(1 .. recorded)
          /\ timer \in BOOLEAN /\ closed \in BOOLEAN
          /\ pending \in Nat /\ recorded \in Nat
          /\ written \in Nat /\ dropped \in Nat
          /\ pc   \in [Callers -> {"idle", "first", "second", "flushed", "closed"}]
          /\ wait \in [Callers -> Nat]
          /\ seen \in [Callers -> 0 .. recorded]

\* The queue outruns the drains already chained by less than one batch: every
\* entry beyond a partial batch has a drain of its own, however records,
\* timers, writes and flushes interleave (the arithmetic that lets flush() try
\* at most twice).
BacklogCovered == Len(queue) <= BatchSize - 1 + pending

\* What the sink holds on to is bounded, also while writes hang or fail.
HoldingBounded == Len(queue) <= MaxQueue /\ Len(batch) <= BatchSize

\* Every accepted entry is in exactly one place: written, counted as dropped,
\* queued or in the running write.  ("so the loss is visible rather than
\* silent", buffer.ts 31-34.)
Accounting == recorded = written + dropped + Len(queue) + Len(batch)

\* Writes never overlap or overtake one another: what is persisted, what is
\* being written and what waits are, one after the other, in recording order.
Increasing(s) == \A i, j \in 1 .. Len(s) : i < j => s[i] < s[j]
Below(s, t)   == \A i \in 1 .. Len(s), j \in 1 .. Len(t) : s[i] < t[j]
InOrder == /\ Increasing(store) /\ Increasing(batch) /\ Increasing(queue)
           /\ Below(store, batch) /\ Below(store, queue) /\ Below(batch, queue)

\* An open sink never strands an entry: while one waits, a timer is armed, a
\* drain is chained or a write is running.
NotStranded == queue # <<>> => closed \/ timer \/ pending > 0 \/ batch # <<>>

\* NotStranded without the excuse of a closed sink: no loss is silent.
NeverStranded == queue # <<>> => timer \/ pending > 0 \/ batch # <<>>

\* When flush() has returned, no entry recorded before the call is left
\* behind: it was written or counted as dropped.
FlushDelivers ==
  \A c \in Callers : pc[c] \in {"flushed", "closed"} =>
    /\ \A i \in 1 .. Len(queue) : queue[i] > seen[c]
    /\ \A i \in 1 .. Len(batch) : batch[i] > seen[c]

Waiting(e) == \/ \E i \in 1 .. Len(queue) : queue[i] = e
              \/ \E i \in 1 .. Len(batch) : batch[i] = e

\* Every entry of an open sink is eventually written or dropped, without
\* anybody calling flush() and whatever the writes do.
EveryEntrySettles == \A e \in 1 .. MaxEntries : []<>(~Waiting(e) \/ closed)

\* A call of flush() returns, although entries keep arriving during it.
FlushTerminates ==
  \A c \in Callers : []<>(pc[c] \notin {"first", "second"})
=============================================================================
