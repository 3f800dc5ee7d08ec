--------------------------- MODULE ServingProofs ---------------------------
(***************************************************************************)
(* Theorems about the serving of requests and the shutdown (Serving), for  *)
(* any finite set of requests, whatever each may be, and any set of        *)
(* configurations: the drain means what it says, and it loses no row.      *)
(* They are stated of GatewaySpec, the specification that composes Serving *)
(* with what surrounds it.                                                 *)
(***************************************************************************)
EXTENDS Gateway, FiniteSetTheorems, WellFoundedInduction, TLAPS

Working == Handling \cup {"streaming"}
Phases  == {"new", "responding", "done", "left"} \cup Working
Sorts   == {"models"} \cup (UNION {Kinds[r] : r \in Requests})

Recs == [kind : Sorts, phase : Phases, counted : BOOLEAN, logged : BOOLEAN,
         slot : {"none", "held", "given"},
         answer : {Null, "error", "list", "completion", "stream"}, lookup : {Null, "miss", "hit"},
         usage : {"open", "due", "none", "charged", "lost"}]

ServeTypeOK ==
  /\ req \in [Requests -> Recs]
  /\ inFlight \in Int
  /\ server \in [state : {"off", "up", "draining", "closing", "flushing", "closed"},
                 timedOut : BOOLEAN, cut : BOOLEAN]
  /\ sink \in [queue : SUBSET Requests, written : SUBSET Requests]
  /\ cache \in SUBSET Shapes

\* The tracker counts what a handler works on and the open streams, once each.
CountsWork ==
  /\ \A r \in Requests : req[r].counted <=> req[r].phase \in Working
  /\ inFlight = Cardinality({r \in Requests : req[r].counted})

\* Nothing of a request is settled before its handler returns, and a stream's
\* body does not end before its usage is known.
InOrder ==
  \A r \in Requests :
    /\ req[r].phase = "new" => ~req[r].logged
    /\ req[r].phase \in {"new"} \cup Handling => req[r].usage = "open" /\ req[r].answer # "stream"
    /\ req[r].phase = "streaming" => req[r].answer = "stream"
    /\ req[r].phase = "responding" => req[r].answer # "stream"
    /\ req[r].phase = "done" /\ req[r].answer = "stream" => req[r].usage # "open"

\* The row of a logged request is recorded with its response, a stream's
\* with its usage.
HasRow(r) == IF req[r].answer = "stream" THEN req[r].usage # "open"
             ELSE req[r].phase \in {"responding", "done"}

RowsKept == \A r \in Requests : req[r].logged /\ HasRow(r) => r \in sink.queue \cup sink.written

\* How far the shutdown is says what is over; connections are cut only after
\* the timeout, and rows are written once.
Ending == {"closing", "flushing", "closed"}
ShutdownInOrder ==
  /\ server.state # "closed" => sink.written = {}
  /\ server.cut => server.timedOut
  /\ server.state \in Ending /\ ~server.timedOut => \A r \in Requests : ~req[r].counted
  /\ server.state \in {"flushing", "closed"} /\ ~server.timedOut =>
       \A r \in Requests : req[r].phase \in {"new", "left", "done"}

ServeInv == /\ ServeTypeOK /\ CountsWork /\ InOrder /\ RowsKept /\ ShutdownInOrder
            /\ RowsFlushed

-----------------------------------------------------------------------------
\* The assumptions on the constants of Serving.
LEMMA Given == IsFiniteSet(Requests) /\ Null # "stream"
  BY ServingAssumption

\* The counter follows one request that enters, leaves or stays.
LEMMA Counting ==
  ASSUME ServeTypeOK, CountsWork, NEW r \in Requests, NEW rec \in Recs,
         req' = [req EXCEPT ![r] = rec], rec.counted <=> rec.phase \in Working,
         inFlight' = inFlight + (IF rec.counted THEN 1 ELSE 0)
                              - (IF req[r].counted THEN 1 ELSE 0)
  PROVE  CountsWork' /\ inFlight' \in Int
<1> DEFINE C == {q \in Requests : req[q].counted}
           D == {q \in Requests : req'[q].counted}
<1>1. req'[r] = rec /\ \A q \in Requests \ {r} : req'[q] = req[q]
  BY DEF ServeTypeOK
<1>2. IsFiniteSet(C) /\ inFlight = Cardinality(C) /\ Cardinality(C) \in Nat
  BY Given, FS_Subset, FS_CardinalityType DEF CountsWork
<1>3. D = IF rec.counted THEN C \cup {r} ELSE C \ {r}
  BY <1>1
<1>4. r \in C <=> req[r].counted
  OBVIOUS
<1>5. inFlight' = Cardinality(D)
  <2> HIDE DEF C, D
  <2>1. Cardinality(C \cup {r}) = IF r \in C THEN Cardinality(C) ELSE Cardinality(C) + 1
    BY <1>2, FS_AddElement
  <2>2. Cardinality(C \ {r}) = IF r \in C THEN Cardinality(C) - 1 ELSE Cardinality(C)
    BY <1>2, FS_RemoveElement
  <2>3. CASE rec.counted
    <3>1. D = C \cup {r} /\ inFlight' = inFlight + 1 - (IF r \in C THEN 1 ELSE 0)
      BY <1>3, <1>4, <2>3
    <3> QED
      BY <1>2, <2>1, <3>1
  <2>4. CASE ~rec.counted
    <3>1. D = C \ {r} /\ inFlight' = inFlight + 0 - (IF r \in C THEN 1 ELSE 0)
      BY <1>3, <1>4, <2>4
    <3> QED
      BY <1>2, <2>2, <3>1
  <2> QED
    BY <2>3, <2>4
<1>6. \A q \in Requests : req'[q].counted <=> req'[q].phase \in Working
  BY <1>1 DEF CountsWork
<1> QED
  BY <1>2, <1>5, <1>6 DEF CountsWork

\* A request a handler works on, or one that arrives, is of the shutdown's
\* concern only before it ends or once its drain has timed out.
LEMMA StillOpen ==
  ASSUME ServeInv, NEW r \in Requests,
         \/ req[r].phase \in Working
         \/ req[r].phase = "new" /\ server.state = "up"
  PROVE  server.state \in Ending => server.timedOut
BY DEF ServeInv, ShutdownInOrder, CountsWork, Ending

\* One request moves on to a state that is in order and has its row if one is
\* due; the shutdown does not move.
LEMMA Proceeds ==
  ASSUME ServeInv, NEW r \in Requests, NEW rec \in Recs,
         server.state \in Ending /\ ~server.timedOut =>
           /\ ~rec.counted
           /\ server.state # "closing" =>
                rec.phase = req[r].phase /\ rec.logged = req[r].logged,
         req' = [req EXCEPT ![r] = rec], rec.counted <=> rec.phase \in Working,
         inFlight' = inFlight + (IF rec.counted THEN 1 ELSE 0)
                              - (IF req[r].counted THEN 1 ELSE 0),
         rec.phase # "new",
         rec.phase \in Handling => rec.usage = "open" /\ rec.answer # "stream",
         rec.phase = "streaming" => rec.answer = "stream",
         rec.phase = "responding" => rec.answer # "stream",
         rec.phase = "done" /\ rec.answer = "stream" => rec.usage # "open",
         sink' = sink \/ sink' = [sink EXCEPT !.queue = @ \cup {r}],
         rec.logged /\ (IF rec.answer = "stream" THEN rec.usage # "open"
                        ELSE rec.phase \in {"responding", "done"})
           => r \in sink'.queue \cup sink'.written,
         UNCHANGED server, cache' \in SUBSET Shapes
  PROVE  ServeInv'
<1>1. req'[r] = rec /\ \A q \in Requests \ {r} : req'[q] = req[q]
  BY DEF ServeInv, ServeTypeOK
<1>2. /\ sink'.queue \in SUBSET Requests /\ sink'.written = sink.written
      /\ sink.queue \subseteq sink'.queue /\ sink' \in [queue : SUBSET Requests, written : SUBSET Requests]
  BY DEF ServeInv, ServeTypeOK
<1>3. CountsWork' /\ inFlight' \in Int
  BY Counting DEF ServeInv
<1>4. ServeTypeOK'
  BY <1>2, <1>3 DEF ServeInv, ServeTypeOK
<1>5. InOrder'
  BY <1>1 DEF ServeInv, InOrder, Handling
<1>6. RowsKept'
  <2>1. \A q \in Requests \ {r} : HasRow(q)' <=> HasRow(q)
    BY <1>1 DEF HasRow
  <2> QED
    BY <1>1, <1>2, <2>1 DEF ServeInv, RowsKept, HasRow
<1>7. ShutdownInOrder'
  BY <1>1, <1>2 DEF ServeInv, ShutdownInOrder, Ending
<1>8. RowsFlushed'
  BY <1>1, <1>2 DEF ServeInv, RowsFlushed, Phase, Ending
<1> QED
  BY <1>3, <1>4, <1>5, <1>6, <1>7, <1>8 DEF ServeInv

\* A step that waits for the next answer.
LEMMA WaitKeeps ==
  ASSUME ServeInv, NEW r \in Requests, NEW rec \in Recs, NEW phase \in Handling,
         \/ req[r].phase \in Handling
         \/ req[r].phase = "new" /\ server.state = "up",
         rec.counted, rec.usage = "open", rec.answer # "stream",
         Wait(r, rec, phase), UNCHANGED server, cache' \in SUBSET Shapes
  PROVE  ServeInv'
<1> DEFINE new == [rec EXCEPT !.phase = phase]
<1>1. new \in Recs /\ new.phase = phase /\ new.counted /\ new.usage = "open" /\ new.answer # "stream"
  BY DEF Recs, Phases, Working
<1>2. inFlight' = inFlight + (IF new.counted THEN 1 ELSE 0) - (IF req[r].counted THEN 1 ELSE 0)
  <2>1. inFlight \in Int
    BY DEF ServeInv, ServeTypeOK
  <2> QED
    BY <1>1, <2>1 DEF Wait, Entering
<1>3. server.state \in Ending => server.timedOut
  BY StillOpen DEF Working
<1>4. phase \in Working /\ phase \notin {"new", "streaming", "responding", "done"}
  BY DEF Working, Handling
<1>5. req' = [req EXCEPT ![r] = new] /\ sink' = sink
  BY DEF Wait
<1> QED
  BY <1>1, <1>2, <1>3, <1>4, <1>5, Proceeds

\* A handler that returns.
LEMMA RespondKeeps ==
  ASSUME ServeInv, NEW r \in Requests, NEW rec \in Recs,
         \/ req[r].phase \in Handling
         \/ req[r].phase = "new" /\ server.state = "up",
         rec.answer = "stream" => rec.usage = "open",
         Respond(r, rec), UNCHANGED server, cache' \in SUBSET Shapes
  PROVE  ServeInv'
<1> DEFINE new == [rec EXCEPT !.phase = IF rec.answer = "stream" THEN "streaming" ELSE "responding",
                              !.counted = ~SettledNow(rec)]
<1>1. /\ new \in Recs /\ new.answer = rec.answer /\ new.usage = rec.usage /\ new.logged = rec.logged
      /\ new.phase = IF rec.answer = "stream" THEN "streaming" ELSE "responding"
      /\ new.counted <=> rec.answer = "stream"
  BY DEF Recs, Phases, Working, SettledNow
<1>2. inFlight' = inFlight + (IF new.counted THEN 1 ELSE 0) - (IF req[r].counted THEN 1 ELSE 0)
  <2>1. inFlight \in Int
    BY DEF ServeInv, ServeTypeOK
  <2> QED
    BY <1>1, <2>1 DEF Respond, Entering, SettledNow
<1>3. server.state \in Ending => server.timedOut
  BY StillOpen DEF Working
<1>4. "streaming" \in Working /\ "responding" \notin Working
  BY DEF Working, Handling
<1>5. req' = [req EXCEPT ![r] = new]
  BY DEF Respond
<1>6. sink' = IF rec.logged /\ rec.answer # "stream" THEN [sink EXCEPT !.queue = @ \cup {r}] ELSE sink
  BY DEF Respond, RecordedNow
<1>7. new.logged /\ (IF new.answer = "stream" THEN new.usage # "open"
                     ELSE new.phase \in {"responding", "done"})
        => r \in sink'.queue \cup sink'.written
  BY <1>1, <1>6 DEF ServeInv, ServeTypeOK
<1>8. new.phase \notin {"new", "done"} \cup Handling /\ (new.counted <=> new.phase \in Working)
  BY <1>1, <1>4 DEF Handling
<1> HIDE DEF new
<1> QED
  BY <1>1, <1>2, <1>3, <1>5, <1>6, <1>7, <1>8, Proceeds

\* Any other step of a request.
LEMMA SideKeeps ==
  ASSUME ServeInv, NEW r \in Requests, NEW rec \in Recs,
         req' = [req EXCEPT ![r] = rec], sink' = sink, UNCHANGED <<server, cache>>,
         rec.phase = req[r].phase, rec.counted = req[r].counted, UNCHANGED inFlight,
         rec.answer = req[r].answer, rec.logged = req[r].logged,
         req[r].usage # "open" /\ rec.usage # "open"
  PROVE  ServeInv'
<1>1. req'[r] = rec /\ \A q \in Requests \ {r} : req'[q] = req[q]
  BY DEF ServeInv, ServeTypeOK
<1>2. \A q \in Requests :
        /\ req'[q].phase = req[q].phase /\ req'[q].counted = req[q].counted
        /\ req'[q].answer = req[q].answer /\ req'[q].logged = req[q].logged
        /\ req'[q].usage = "open" <=> req[q].usage = "open"
  BY <1>1
<1>3. ServeTypeOK'
  BY DEF ServeInv, ServeTypeOK
<1>4. CountsWork'
  <2>1. {q \in Requests : req'[q].counted} = {q \in Requests : req[q].counted}
    BY <1>2
  <2> QED
    BY <1>2, <2>1 DEF ServeInv, CountsWork
<1>5. InOrder'
  BY <1>2 DEF ServeInv, InOrder
<1>6. RowsKept'
  BY <1>2 DEF ServeInv, RowsKept, HasRow
<1>7. ShutdownInOrder' /\ RowsFlushed'
  BY <1>2 DEF ServeInv, ShutdownInOrder, RowsFlushed, Phase
<1> QED
  BY <1>3, <1>4, <1>5, <1>6, <1>7 DEF ServeInv

-----------------------------------------------------------------------------
\* A server that starts, or is not there, has lost nothing.
LEMMA ServeStarts == ServeInit \/ ServeOff => ServeInv
<1> SUFFICES ASSUME ServeInit \/ ServeOff PROVE ServeInv
  OBVIOUS
<1>1. ASSUME NEW k \in Sorts PROVE Fresh(k) \in Recs
  BY DEF Fresh, Recs, Phases
<1>2. req \in [Requests -> Recs] /\ \A r \in Requests : \E k \in Sorts : req[r] = Fresh(k)
  <2>1. CASE ServeInit
    <3>1. /\ req \in [Requests -> {Fresh(k) : k \in UNION {Kinds[r] : r \in Requests}}]
      BY <2>1 DEF ServeInit
    <3>2. \A r \in Requests : \E k \in Sorts : req[r] = Fresh(k)
      BY <3>1 DEF Sorts
    <3> QED
      BY <1>1, <3>1, <3>2
  <2>2. CASE ServeOff
    <3>1. "models" \in Sorts
      BY DEF Sorts
    <3> QED
      BY <1>1, <2>2, <3>1 DEF ServeOff
  <2> QED
    BY <2>1, <2>2
<1>3. \A r \in Requests : /\ req[r].phase = "new" /\ ~req[r].counted /\ ~req[r].logged
                          /\ req[r].usage = "open" /\ req[r].answer = Null
  BY <1>2 DEF Fresh
<1>4. /\ inFlight = 0
      /\ \E st \in {"off", "up"} : server = [state |-> st, timedOut |-> FALSE, cut |-> FALSE]
      /\ sink = [queue |-> {}, written |-> {}] /\ cache \in SUBSET Shapes
  BY DEF ServeInit, ServeOff
<1>5. ServeTypeOK
  BY <1>2, <1>4 DEF ServeTypeOK
<1>6. CountsWork
  <2>1. {r \in Requests : req[r].counted} = {}
    BY <1>3
  <2> QED
    BY <1>3, <1>4, <2>1, FS_EmptySet DEF CountsWork, Working, Handling
<1>7. InOrder
  BY <1>3, Given DEF InOrder
<1>8. RowsKept /\ ShutdownInOrder /\ RowsFlushed
  BY <1>3, <1>4 DEF RowsKept, ShutdownInOrder, RowsFlushed, Ending
<1> QED
  BY <1>5, <1>6, <1>7, <1>8 DEF ServeInv

\* The layers before the handler: each waits, refuses or passes on.
LEMMA LayersKeep ==
  ASSUME ServeInv, NEW r \in Requests, NEW rec \in Recs,
         \/ req[r].phase \in Handling
         \/ req[r].phase = "new" /\ server.state = "up",
         rec.counted, rec.usage = "open", rec.answer # "stream",
         Fail(r, rec) \/ Handle(r, rec) \/ AuthLayer(r, rec) \/ KeyLayer(r, rec),
         UNCHANGED <<server, cache>>
  PROVE  ServeInv'
<1>1. cache' \in SUBSET Shapes
  BY DEF ServeInv, ServeTypeOK
<1>2. ASSUME NEW a \in {"error", "list"}
      PROVE  [rec EXCEPT !.answer = a] \in Recs /\ [rec EXCEPT !.answer = a].answer # "stream"
  BY DEF Recs
<1>3. ASSUME Fail(r, rec) PROVE ServeInv'
  BY <1>1, <1>2, <1>3, RespondKeeps DEF Fail
<1>4. ASSUME NEW p \in Handling, Wait(r, rec, p) PROVE ServeInv'
  BY <1>1, <1>4, WaitKeeps
<1>5. ASSUME Handle(r, rec) PROVE ServeInv'
  BY <1>1, <1>2, <1>4, <1>5, RespondKeeps DEF Handle, Handling
<1>6. ASSUME AuthLayer(r, rec) PROVE ServeInv'
  BY <1>4, <1>5, <1>6 DEF AuthLayer, Handling
<1>7. ASSUME KeyLayer(r, rec) PROVE ServeInv'
  BY <1>3, <1>4, <1>6, <1>7 DEF KeyLayer, Handling
<1> QED
  BY <1>3, <1>5, <1>6, <1>7

\* The steps up to the handler.
LEMMA MiddlewareKeeps ==
  ASSUME ServeInv, NEW r \in Requests,
         Refuse(r) \/ Arrive(r) \/ KeyAnswers(r) \/ AuthAnswers(r)
  PROVE  ServeInv'
<1>1. req[r] \in Recs /\ cache \in SUBSET Shapes /\ inFlight \in Int
  BY DEF ServeInv, ServeTypeOK
<1>2. CASE Refuse(r)
  <2> DEFINE new == [req[r] EXCEPT !.phase = "responding", !.answer = "error"]
  <2>1. /\ req[r].phase = "new" /\ server.state = "draining" /\ UNCHANGED <<inFlight, server, sink, cache>>
        /\ req' = [req EXCEPT ![r].phase = "responding", ![r].answer = "error"]
    BY <1>2 DEF Refuse, Phase
  <2>2. req' = [req EXCEPT ![r] = new]
    BY <2>1 DEF ServeInv, ServeTypeOK
  <2>3. /\ new \in Recs /\ new.phase = "responding" /\ new.answer = "error"
        /\ new.logged = req[r].logged /\ new.counted = req[r].counted
    BY <1>1 DEF Recs, Phases
  <2>4. ~req[r].counted /\ ~req[r].logged
    BY <2>1 DEF ServeInv, CountsWork, InOrder, Working, Handling
  <2>5. inFlight' = inFlight + (IF new.counted THEN 1 ELSE 0) - (IF req[r].counted THEN 1 ELSE 0)
    BY <1>1, <2>1, <2>3, <2>4
  <2>6. server.state \notin Ending /\ "responding" \notin Working \cup Handling
    BY <2>1 DEF Ending, Working, Handling
  <2> HIDE DEF new
  <2> QED
    BY <1>1, <2>1, <2>2, <2>3, <2>4, <2>5, <2>6, Proceeds
<1>3. CASE Arrive(r)
  <2> DEFINE rec == [req[r] EXCEPT !.counted = TRUE,
                                   !.logged = bundle.now # Null /\ bundle.now.logs]
  <2>1. /\ req[r].phase = "new" /\ server.state = "up" /\ UNCHANGED <<server, cache>>
        /\ Fail(r, rec) \/ KeyLayer(r, rec)
    BY <1>3 DEF Arrive, Phase
  <2>2. (bundle.now # Null /\ bundle.now.logs) \in BOOLEAN
    BY Zenon
  <2>3. rec \in Recs /\ rec.counted /\ rec.usage = "open" /\ rec.answer # "stream"
    BY <1>1, <2>1, <2>2 DEF Recs, ServeInv, InOrder
  <2> HIDE DEF rec
  <2> QED
    BY <2>1, <2>3, LayersKeep
<1>4. CASE KeyAnswers(r) \/ AuthAnswers(r)
  <2>1. req[r].phase \in Handling
    BY <1>4 DEF KeyAnswers, AuthAnswers, Phase, Handling
  <2>2. req[r].counted /\ req[r].usage = "open" /\ req[r].answer # "stream"
    BY <2>1 DEF ServeInv, CountsWork, InOrder, Working
  <2>3. Fail(r, req[r]) \/ Handle(r, req[r]) \/ AuthLayer(r, req[r])
    BY <1>4 DEF KeyAnswers, AuthAnswers
  <2>4. UNCHANGED <<server, cache>>
    BY <1>4 DEF KeyAnswers, AuthAnswers
  <2> QED
    BY <1>1, <2>1, <2>2, <2>3, <2>4, LayersKeep
<1> QED
  BY <1>2, <1>3, <1>4

\* The handler's steps while it works on the request.
LEMMA HandlerKeeps ==
  ASSUME ServeInv, NEW r \in Requests,
         \/ BodyArrives(r) \/ SlotAnswers(r) \/ BudgetAnswers(r) \/ LookupAnswers(r)
         \/ CallAnswers(r) \/ FallbackAnswers(r)
  PROVE  ServeInv'
<1> DEFINE q == req[r]
<1>1. q \in Recs /\ cache \in SUBSET Shapes
  BY DEF ServeInv, ServeTypeOK
<1>2. q.phase \in Handling /\ UNCHANGED <<server, cache>>
  BY DEF BodyArrives, SlotAnswers, BudgetAnswers, LookupAnswers, CallAnswers, FallbackAnswers,
         Phase, Handling
<1>3. q.counted /\ q.usage = "open" /\ q.answer # "stream"
  BY <1>2 DEF ServeInv, CountsWork, InOrder, Working
<1>4. ASSUME NEW rec \in Recs, NEW p \in Handling, Wait(r, rec, p),
             rec.counted, rec.usage = "open", rec.answer # "stream"
      PROVE  ServeInv'
  BY <1>1, <1>2, <1>4, WaitKeeps
<1>5. ASSUME Fail(r, q) PROVE ServeInv'
  BY <1>1, <1>2, <1>3, <1>5, LayersKeep
<1>10. ASSUME NEW rec \in Recs, rec.counted, rec.usage = "open", Deliver(r, rec) PROVE ServeInv'
  <2>1. CASE rec.answer = "stream"
    BY <1>1, <1>2, <1>10, <2>1, RespondKeeps DEF Deliver
  <2>2. CASE rec.answer # "stream"
    BY <1>4, <1>10, <2>2 DEF Deliver, Release, Handling
  <2> QED
    BY <2>1, <2>2
<1>6. CASE BodyArrives(r)
  BY <1>1, <1>3, <1>4, <1>5, <1>6 DEF BodyArrives, Handling
<1>7. CASE SlotAnswers(r)
  <2> DEFINE new == [q EXCEPT !.slot = "held"]
  <2>1. new \in Recs /\ new.counted /\ new.usage = "open" /\ new.answer # "stream"
    BY <1>1, <1>3 DEF Recs
  <2>2. Wait(r, new, "budget") \/ Fail(r, q)
    BY <1>7 DEF SlotAnswers
  <2> QED
    BY <1>4, <1>5, <2>1, <2>2 DEF Handling
<1>8. CASE BudgetAnswers(r)
  <2> DEFINE new == [q EXCEPT !.answer = "error"]
  <2>1. new \in Recs /\ new.counted /\ new.usage = "open" /\ new.answer # "stream"
    BY <1>1, <1>3 DEF Recs
  <2>2. Wait(r, new, "releasing") \/ Wait(r, q, "lookup") \/ Wait(r, q, "calling")
    BY <1>8 DEF BudgetAnswers, Release
  <2> QED
    BY <1>1, <1>3, <1>4, <2>1, <2>2 DEF Handling
<1>9. CASE LookupAnswers(r)
  <2>1. ASSUME Wanted(r) \in cache, Deliver(r, [q EXCEPT !.answer = Wanted(r), !.lookup = "hit"])
        PROVE  ServeInv'
    <3> DEFINE rec == [q EXCEPT !.answer = Wanted(r), !.lookup = "hit"]
    <3>1. rec \in Recs /\ rec.counted /\ rec.usage = "open" /\ Deliver(r, rec)
      BY <1>1, <1>3, <2>1 DEF Recs, Wanted
    <3> HIDE DEF rec
    <3> QED
      BY <1>10, <3>1
  <2>2. ASSUME NEW found \in {"miss", Null}, Wait(r, [q EXCEPT !.lookup = found], "calling")
        PROVE  ServeInv'
    <3> DEFINE rec == [q EXCEPT !.lookup = found]
    <3>1. rec \in Recs /\ rec.counted /\ rec.usage = "open" /\ rec.answer # "stream"
      BY <1>1, <1>3 DEF Recs
    <3> QED
      BY <1>4, <2>2, <3>1 DEF Handling
  <2> QED
    BY <1>9, <2>1, <2>2 DEF LookupAnswers
<1>13. ASSUME Answers(r) PROVE ServeInv'
  <2>1. PICK a \in {"stream", "completion", "error"} : Deliver(r, [q EXCEPT !.answer = a])
    BY <1>13 DEF Answers, Wanted
  <2> DEFINE rec == [q EXCEPT !.answer = a]
  <2>2. rec \in Recs /\ rec.counted /\ rec.usage = "open" /\ Deliver(r, rec)
    BY <1>1, <1>3, <2>1 DEF Recs
  <2> HIDE DEF rec
  <2> QED
    BY <1>10, <2>2
<1>11. CASE CallAnswers(r)
  BY <1>1, <1>3, <1>4, <1>11, <1>13 DEF CallAnswers, Handling
<1>12. CASE FallbackAnswers(r)
  BY <1>12, <1>13 DEF FallbackAnswers
<1> QED
  BY <1>6, <1>7, <1>8, <1>9, <1>11, <1>12

\* The response, and what happens to it and to its stream.
LEMMA ResponseKeeps ==
  ASSUME ServeInv, NEW r \in Requests,
         \/ Released(r) \/ Charge(r) \/ UsageSettles(r) \/ BodyEnds(r) \/ ClientLeaves(r)
         \/ Taken(r)
  PROVE  ServeInv'
<1> DEFINE q == req[r]
<1>1. q \in Recs /\ cache \in SUBSET Shapes /\ inFlight \in Int
  BY DEF ServeInv, ServeTypeOK
<1>2. Storing(q) \in SUBSET Shapes /\ UsageDue(q) \in {"due", "none"}
  BY DEF Storing, UsageDue
<1>3. CASE Released(r)
  <2> DEFINE new == [q EXCEPT !.slot = "given", !.usage = UsageDue(q)]
  <2>1. q.phase \in Handling /\ q.answer # "stream"
    BY <1>3 DEF Released, Phase, Handling, ServeInv, InOrder
  <2>2. new \in Recs /\ new.answer # "stream"
    BY <1>1, <1>2, <2>1 DEF Recs
  <2>3. Respond(r, new) /\ UNCHANGED server /\ cache' \in SUBSET Shapes
    BY <1>1, <1>2, <1>3 DEF Released
  <2> HIDE DEF new
  <2> QED
    BY <2>1, <2>2, <2>3, RespondKeeps
<1>4. CASE Charge(r)
  <2>1. PICK u \in {"lost", "charged"} : req' = [req EXCEPT ![r].usage = u]
    BY <1>4 DEF Charge
  <2> DEFINE new == [q EXCEPT !.usage = u]
  <2>2. req' = [req EXCEPT ![r] = new]
    BY <2>1 DEF ServeInv, ServeTypeOK
  <2>3. /\ new \in Recs /\ new.phase = q.phase /\ new.counted = q.counted
        /\ new.answer = q.answer /\ new.logged = q.logged /\ new.usage # "open"
    BY <1>1 DEF Recs
  <2>4. q.usage # "open" /\ UNCHANGED <<inFlight, server, sink, cache>>
    BY <1>4 DEF Charge
  <2> HIDE DEF new
  <2> QED
    BY <2>2, <2>3, <2>4, SideKeeps
<1>5. CASE UsageSettles(r)
  <2> DEFINE new == [q EXCEPT !.usage = UsageDue(q), !.slot = "given"]
  <2>1. /\ q.answer = "stream" /\ q.usage = "open"
        /\ req' = [req EXCEPT ![r].usage = UsageDue(q), ![r].slot = "given"]
        /\ sink' = IF q.logged THEN [sink EXCEPT !.queue = @ \cup {r}] ELSE sink
        /\ UNCHANGED <<inFlight, server>> /\ cache' \in SUBSET Shapes
    BY <1>1, <1>2, <1>5 DEF UsageSettles, Streams
  <2>2. req' = [req EXCEPT ![r] = new]
    BY <2>1 DEF ServeInv, ServeTypeOK
  <2>3. /\ new \in Recs /\ new.phase = q.phase /\ new.counted = q.counted
        /\ new.answer = q.answer /\ new.logged = q.logged /\ new.usage # "open"
    BY <1>1, <1>2 DEF Recs
  <2>4. /\ q.phase \notin {"new", "responding"} \cup Handling /\ (q.counted <=> q.phase \in Working)
        /\ server.state \in Ending /\ ~server.timedOut => ~q.counted
    BY <2>1 DEF ServeInv, InOrder, CountsWork, ShutdownInOrder
  <2>5. inFlight' = inFlight + (IF new.counted THEN 1 ELSE 0) - (IF q.counted THEN 1 ELSE 0)
    BY <1>1, <2>1, <2>3
  <2>6. new.logged => r \in sink'.queue \cup sink'.written
    BY <2>1, <2>3 DEF ServeInv, ServeTypeOK
  <2>7. /\ new.counted <=> new.phase \in Working
        /\ new.phase \notin {"new", "responding"} \cup Handling
    BY <2>3, <2>4
  <2>8. sink' = sink \/ sink' = [sink EXCEPT !.queue = @ \cup {r}]
    BY <2>1
  <2>9. server.state \in Ending /\ ~server.timedOut =>
          ~new.counted /\ new.phase = q.phase /\ new.logged = q.logged
    BY <2>3, <2>4
  <2> HIDE DEF new
  <2>10. UNCHANGED server /\ cache' \in SUBSET Shapes
    BY <2>1
  <2>11. /\ new \in Recs /\ new.answer = "stream" /\ new.usage # "open"
         /\ new.phase \notin {"new", "responding"} /\ new.phase \notin Handling
    BY <2>1, <2>3, <2>7
  <2>12. new.counted <=> new.phase \in Working
    BY <2>7
  <2> QED
    BY <2>2, <2>5, <2>6, <2>8, <2>9, <2>10, <2>11, <2>12, Proceeds
<1>6. CASE BodyEnds(r) \/ ClientLeaves(r)
  <2>1. PICK p \in {"done", "left"} :
          /\ req' = [req EXCEPT ![r].phase = p, ![r].counted = FALSE]
          /\ inFlight' = IF q.counted THEN inFlight - 1 ELSE inFlight
          /\ UNCHANGED <<server, sink, cache>>
          /\ q.phase = "streaming" /\ (p = "done" => q.usage # "open")
    BY <1>6 DEF BodyEnds, ClientLeaves, BodyOver, Phase
  <2> DEFINE new == [q EXCEPT !.phase = p, !.counted = FALSE]
  <2>2. req' = [req EXCEPT ![r] = new]
    BY <2>1 DEF ServeInv, ServeTypeOK
  <2>3. /\ new \in Recs /\ new.phase = p /\ ~new.counted /\ new.usage = q.usage
        /\ new.answer = q.answer /\ new.logged = q.logged
    BY <1>1 DEF Recs, Phases
  <2>4. q.answer = "stream"
    BY <2>1 DEF ServeInv, InOrder
  <2>5. server.state \in Ending => server.timedOut
    BY <2>1, StillOpen DEF Working
  <2>6. inFlight' = inFlight + (IF new.counted THEN 1 ELSE 0) - (IF q.counted THEN 1 ELSE 0)
    BY <1>1, <2>1, <2>3
  <2>7. p \notin Working \cup Handling \cup {"new", "streaming"}
    BY DEF Working, Handling
  <2>8. q.logged /\ q.usage # "open" => r \in sink.queue \cup sink.written
    BY <2>4 DEF ServeInv, RowsKept, HasRow
  <2> HIDE DEF new
  <2> QED
    BY <1>1, <2>1, <2>2, <2>3, <2>4, <2>5, <2>6, <2>7, <2>8, Proceeds
<1>7. CASE Taken(r)
  <2> DEFINE new == [q EXCEPT !.phase = "done"]
  <2>1. /\ q.phase = "responding" /\ req' = [req EXCEPT ![r].phase = "done"]
        /\ UNCHANGED <<inFlight, server, sink, cache>>
    BY <1>7 DEF Taken, Phase
  <2>2. req' = [req EXCEPT ![r] = new]
    BY <2>1 DEF ServeInv, ServeTypeOK
  <2>3. /\ new \in Recs /\ new.phase = "done" /\ new.counted = q.counted
        /\ new.answer = q.answer /\ new.logged = q.logged /\ new.usage = q.usage
    BY <1>1 DEF Recs, Phases
  <2>4. ~q.counted /\ "done" \notin Working \cup Handling
    BY <2>1 DEF ServeInv, CountsWork, Working, Handling
  <2>5. inFlight' = inFlight + (IF new.counted THEN 1 ELSE 0) - (IF q.counted THEN 1 ELSE 0)
    BY <1>1, <2>1, <2>3
  <2>6. ~(server.state \in {"flushing", "closed"} /\ ~server.timedOut)
    BY <2>1 DEF ServeInv, ShutdownInOrder
  <2>7. q.answer # "stream" /\ (q.logged => r \in sink.queue \cup sink.written)
    BY <2>1 DEF ServeInv, InOrder, RowsKept, HasRow
  <2> HIDE DEF new
  <2> QED
    BY <1>1, <2>1, <2>2, <2>3, <2>4, <2>5, <2>6, <2>7, Proceeds DEF Ending
<1> QED
  BY <1>3, <1>4, <1>5, <1>6, <1>7

\* The steps of the server itself.
LEMMA ServerKeeps ==
  ASSUME ServeInv,
         \/ Reload \/ CacheForgets \/ BeginShutdown \/ Drained \/ DrainTimeout
         \/ ConnectionsEnd \/ Flush
  PROVE  ServeInv'
<1>1. /\ req' = req /\ inFlight' = inFlight
      /\ cache' \in SUBSET Shapes
  BY DEF Reload, CacheForgets, BeginShutdown, Drained, DrainTimeout, ConnectionsEnd, Flush,
         Becomes, ServeInv, ServeTypeOK
<1>2. CountsWork' /\ InOrder'
  BY <1>1 DEF ServeInv, CountsWork, InOrder
<1>3. /\ server.state \in {"off", "up", "draining", "closing", "flushing", "closed"}
      /\ server.timedOut \in BOOLEAN /\ server.cut \in BOOLEAN
      /\ sink.queue \subseteq Requests /\ sink.written \subseteq Requests
  BY DEF ServeInv, ServeTypeOK
<1>4. ASSUME server' \in [state : {"off", "up", "draining", "closing", "flushing", "closed"},
                           timedOut : BOOLEAN, cut : BOOLEAN],
             sink' = sink, ShutdownInOrder', RowsFlushed'
      PROVE  ServeInv'
  <2>1. ServeTypeOK' /\ RowsKept'
    BY <1>1, <1>4 DEF ServeInv, ServeTypeOK, RowsKept, HasRow
  <2> QED
    BY <1>2, <1>4, <2>1 DEF ServeInv
<1>5. CASE Reload \/ CacheForgets
  <2>1. server' = server /\ sink' = sink
    BY <1>5 DEF Reload, CacheForgets
  <2> QED
    BY <1>1, <1>4, <2>1 DEF ServeInv, ServeTypeOK, ShutdownInOrder, RowsFlushed, Phase
<1>6. CASE BeginShutdown
  <2>1. /\ server.state = "up" /\ server' = [server EXCEPT !.state = "draining"] /\ sink' = sink
    BY <1>6 DEF BeginShutdown, Becomes
  <2>2. /\ server'.state = "draining" /\ server'.timedOut = server.timedOut
        /\ server'.cut = server.cut
        /\ server' \in [state : {"draining"}, timedOut : BOOLEAN, cut : BOOLEAN]
    BY <2>1 DEF ServeInv, ServeTypeOK
  <2> QED
    BY <1>1, <1>4, <2>1, <2>2 DEF ServeInv, ShutdownInOrder, RowsFlushed, Ending
<1>7. CASE Drained
  <2>1. /\ server.state = "draining" /\ server' = [server EXCEPT !.state = "closing"] /\ sink' = sink
        /\ inFlight = 0
    BY <1>7 DEF Drained, Becomes
  <2>2. /\ server'.state = "closing" /\ server'.timedOut = server.timedOut
        /\ server'.cut = server.cut
        /\ server' \in [state : {"closing"}, timedOut : BOOLEAN, cut : BOOLEAN]
    BY <2>1 DEF ServeInv, ServeTypeOK
  <2>3. \A r \in Requests : ~req[r].counted
    <3> DEFINE C == {r \in Requests : req[r].counted}
    <3>1. IsFiniteSet(C) /\ Cardinality(C) = 0
      BY <2>1, Given, FS_Subset DEF ServeInv, CountsWork
    <3>2. C = {}
      BY <3>1, FS_EmptySet
    <3> QED
      BY <3>2
  <2> QED
    BY <1>1, <1>4, <2>1, <2>2, <2>3 DEF ServeInv, ShutdownInOrder, RowsFlushed, Ending
<1>8. CASE DrainTimeout
  <2>1. /\ server.state = "draining" /\ sink' = sink
        /\ server' = [state |-> "closing", timedOut |-> TRUE, cut |-> TRUE]
    BY <1>8 DEF DrainTimeout, Becomes
  <2> QED
    BY <1>1, <1>4, <2>1 DEF ServeInv, ShutdownInOrder, RowsFlushed, Ending
<1>9. CASE ConnectionsEnd
  <2>1. /\ server.state = "closing" /\ server' = [server EXCEPT !.state = "flushing"] /\ sink' = sink
        /\ server.cut \/ \A r \in Requests : req[r].phase \in {"new", "left", "done"}
    BY <1>9 DEF ConnectionsEnd, Becomes
  <2>2. /\ server'.state = "flushing" /\ server'.timedOut = server.timedOut
        /\ server'.cut = server.cut
        /\ server' \in [state : {"flushing"}, timedOut : BOOLEAN, cut : BOOLEAN]
    BY <2>1 DEF ServeInv, ServeTypeOK
  <2> QED
    BY <1>1, <1>4, <2>1, <2>2 DEF ServeInv, ShutdownInOrder, RowsFlushed, Ending
<1>10. CASE Flush
  <2>1. /\ server.state = "flushing" /\ server' = [server EXCEPT !.state = "closed"]
        /\ sink' = [queue |-> {}, written |-> sink.queue]
    BY <1>10 DEF Flush
  <2>2. /\ server'.state = "closed" /\ server'.timedOut = server.timedOut
        /\ server'.cut = server.cut
        /\ server' \in [state : {"closed"}, timedOut : BOOLEAN, cut : BOOLEAN]
    BY <2>1 DEF ServeInv, ServeTypeOK
  <2>3. sink.written = {} /\ sink'.queue = {} /\ sink'.written = sink.queue
    BY <2>1 DEF ServeInv, ShutdownInOrder
  <2>4. ServeTypeOK'
    BY <1>1, <1>3, <2>1, <2>2 DEF ServeInv, ServeTypeOK
  <2>5. RowsKept'
    BY <1>1, <2>3 DEF ServeInv, RowsKept, HasRow
  <2>6. ShutdownInOrder'
    BY <1>1, <2>1, <2>2 DEF ServeInv, ShutdownInOrder, Ending
  <2>7. RowsFlushed'
    BY <1>1, <2>3 DEF ServeInv, InOrder, RowsKept, HasRow, RowsFlushed, Phase
  <2> QED
    BY <1>2, <2>4, <2>5, <2>6, <2>7 DEF ServeInv
<1> QED
  BY <1>5, <1>6, <1>7, <1>8, <1>9, <1>10

\* Every step of the server, of its requests and of what surrounds them.
LEMMA ServeNextKeeps == ServeInv /\ [ServeNext]_serveVars => ServeInv'
<1> SUFFICES ASSUME ServeInv, [ServeNext]_serveVars PROVE ServeInv'
  OBVIOUS
<1>1. ASSUME NEW r \in Requests, RequestStep(r) PROVE ServeInv'
  BY <1>1, MiddlewareKeeps, HandlerKeeps, ResponseKeeps DEF RequestStep
<1>2. CASE UNCHANGED serveVars
  <2>1. UNCHANGED <<req, inFlight, server, sink, cache>>
    BY <1>2 DEF serveVars
  <2> QED
    BY <2>1 DEF ServeInv, ServeTypeOK, CountsWork, InOrder, RowsKept, HasRow, ShutdownInOrder,
                RowsFlushed, Phase
<1> QED
  BY <1>1, <1>2, ServerKeeps DEF ServeNext

\* Every reachable state satisfies the invariant of the server: the tracker
\* counts what is under way, and shutdown() has passed only what it waited for.
THEOREM ServeCorrect == GatewaySpec => []ServeInv
<1>1. GatewayInit => ServeInv
  BY ServeStarts DEF GatewayInit
<1>2. ServeInv /\ [GatewayNext]_gatewayVars => ServeInv'
  <2>1. [GatewayNext]_gatewayVars => [ServeNext]_serveVars
    BY DEF GatewayNext, gatewayVars, serveVars
  <2> QED
    BY <2>1, ServeNextKeeps
<1> QED
  BY <1>1, <1>2, PTL DEF GatewaySpec

\* The drain of lifecycle.ts means what it says: the counter counts the
\* requests a handler works on and the streams whose body is not finished,
\* each once, and when the drain has ended without its timeout none is left,
\* nor does one come, however requests, reloads and the shutdown interleave.
THEOREM DrainIsTrue == GatewaySpec => []DrainedMeansDone
<1>1. ServeInv => DrainedMeansDone
  <2> SUFFICES ASSUME ServeInv PROVE DrainedMeansDone
    OBVIOUS
  <2> DEFINE working == {r \in Requests : req[r].phase \in Handling \cup {"streaming"}}
  <2>1. working = {r \in Requests : req[r].counted}
    BY DEF ServeInv, CountsWork, Working
  <2>2. inFlight = Cardinality(working)
    BY <2>1 DEF ServeInv, CountsWork
  <2>3. server.state \in {"closing", "flushing", "closed"} /\ ~server.timedOut => working = {}
    BY <2>1 DEF ServeInv, ShutdownInOrder, Ending
  <2> QED
    BY <2>2, <2>3 DEF DrainedMeansDone
<1> QED
  BY <1>1, ServeCorrect, PTL

\* A redeploy loses no row of a request it waited for (logging.ts and the
\* flush of packages/node/src/server.ts): after a clean drain the flush finds
\* the row of every logged request that was answered, of ended streams too.
THEOREM NoRowLost == GatewaySpec => []RowsFlushed
<1>1. ServeInv => RowsFlushed
  BY DEF ServeInv
<1> QED
  BY <1>1, ServeCorrect, PTL

-----------------------------------------------------------------------------
(* Routing, and what an operator is told of it                               *)

\* A nonempty set of natural numbers has a least element.
LEMMA LeastNatural ==
  ASSUME NEW S \in SUBSET Nat, S # {}
  PROVE  \E m \in S : \A k \in S : m <= k
<1> DEFINE Less == OpToRel(<, Nat)
<1>1. IsWellFoundedOn(Less, Nat)
  BY NatLessThanWellFounded
<1>2. \A x, y \in Nat : <<x, y>> \in Less <=> x < y
  BY DEF OpToRel
<1> HIDE DEF Less
<1>3. PICK m \in S : \A k \in S : <<k, m>> \notin Less
  BY <1>1, WFMin
<1>4. m \in Nat /\ \A k \in S : k \in Nat /\ ~(k < m)
  BY <1>2, <1>3
<1> QED
  BY <1>4

\* What has been decided of a question that is asked.
RouteInv == decided # Null => asked \in Questions /\ RoutingExplained

\* The first rule that matches, and with it the end of the explanation.
LEMMA FirstMatch ==
  ASSUME NEW q \in Questions, q.kind = "route"
  PROVE  /\ Len(q.rules) \in Nat /\ DOMAIN q.rules = 1 .. Len(q.rules)
         /\ Matching(q.rules) # {} =>
              /\ Min(Matching(q.rules)) \in Matching(q.rules)
              /\ \A i \in Matching(q.rules) : Min(Matching(q.rules)) <= i
         /\ Explained(q.rules) \in Nat /\ Explained(q.rules) <= Len(q.rules)
         /\ Matching(q.rules) # {} => Explained(q.rules) = Min(Matching(q.rules))
<1> DEFINE rules == q.rules
           M == Matching(rules)
<1>1. Len(rules) \in Nat /\ DOMAIN rules = 1 .. Len(rules)
  BY QuestionAssumption
<1>2. M \subseteq DOMAIN rules /\ M \in SUBSET Nat
  BY <1>1 DEF Matching
<1>3. ASSUME M # {} PROVE Min(M) \in M /\ \A i \in M : Min(M) <= i
  BY <1>2, <1>3, LeastNatural DEF Min
<1>4. Explained(rules) = IF M = {} THEN Len(rules) ELSE Min(M)
  BY DEF Explained
<1> HIDE DEF M, rules
<1>5. Explained(rules) \in Nat /\ Explained(rules) <= Len(rules)
  BY <1>1, <1>2, <1>3, <1>4
<1> QED
  BY <1>1, <1>3, <1>4, <1>5 DEF M, rules

\* A rule after a literal `true` is not the first that matches.
LEMMA DeadIsNotFirst ==
  ASSUME NEW q \in Questions, q.kind = "route", Matching(q.rules) # {}
  PROVE  Min(Matching(q.rules)) \notin unreachableRules(q.rules)
<1> DEFINE rules == q.rules
           catchAll == {i \in DOMAIN rules : rules[i].literal}
<1>1. CASE catchAll = {}
  BY <1>1 DEF unreachableRules
<1>2. CASE catchAll # {}
  <2>1. catchAll \in SUBSET Nat
    BY FirstMatch
  <2>2. Min(catchAll) \in catchAll
    BY <1>2, <2>1, LeastNatural DEF Min
  <2>3. Min(catchAll) \in Matching(rules) /\ Min(catchAll) \in Nat
    BY <2>1, <2>2, QuestionAssumption DEF Matching
  <2>4. Min(Matching(rules)) <= Min(catchAll) /\ Min(Matching(rules)) \in Nat
    BY <2>3, FirstMatch DEF Matching
  <2>5. unreachableRules(rules) = (Min(catchAll) + 1) .. Len(rules)
    BY <1>2 DEF unreachableRules
  <2> HIDE DEF catchAll, rules
  <2>6. Min(Matching(rules)) \notin (Min(catchAll) + 1) .. Len(rules)
    BY <2>3, <2>4
  <2> QED
    BY <2>5, <2>6 DEF rules
<1> QED
  BY <1>1, <1>2

\* The explanation says "match" of the rules that do, and of no other.
LEMMA ExplainedIs ==
  ASSUME NEW q \in Questions, q.kind = "route"
  PROVE  /\ explain(q.rules) \in Seq({"match", "no-match", "non-boolean", "error"})
         /\ Len(explain(q.rules)) = Explained(q.rules)
         /\ \A i \in DOMAIN explain(q.rules) :
              i \in DOMAIN q.rules
                /\ (explain(q.rules)[i] = "match" <=> q.rules[i].yields = "true")
<1> DEFINE said == explain(q.rules)
           n == Explained(q.rules)
<1>1. n \in Nat /\ n <= Len(q.rules) /\ Len(q.rules) \in Nat /\ DOMAIN q.rules = 1 .. Len(q.rules)
  BY FirstMatch
<1>2. DOMAIN said = 1 .. n
  BY DEF explain
<1> HIDE DEF n
<1>3. ASSUME NEW i \in 1 .. n
      PROVE  /\ i \in DOMAIN q.rules
             /\ said[i] \in {"match", "no-match", "non-boolean", "error"}
             /\ said[i] = "match" <=> q.rules[i].yields = "true"
  <2>1. i \in DOMAIN q.rules /\ q.rules[i].yields \in Verdicts
    BY <1>1, QuestionAssumption
  <2>2. said[i] = CASE q.rules[i].yields = "true"   -> "match"
                    [] q.rules[i].yields = "false"  -> "no-match"
                    [] q.rules[i].yields = "other"  -> "non-boolean"
                    [] q.rules[i].yields = "throws" -> "error"
    BY DEF explain, n
  <2> HIDE DEF said
  <2> QED
    BY <2>1, <2>2 DEF Verdicts
<1>4. ASSUME NEW f, NEW S, said = f, \A i \in 1 .. n : f[i] \in S PROVE f \in [1 .. n -> S]
  BY <1>4 DEF explain, n
<1>5. said \in [1 .. n -> {"match", "no-match", "non-boolean", "error"}]
  <2> HIDE DEF said
  <2> QED
    BY <1>3, <1>4
<1> HIDE DEF said
<1>6. said \in Seq({"match", "no-match", "non-boolean", "error"}) /\ Len(said) = n
  BY <1>1, <1>5
<1> QED
  BY <1>2, <1>3, <1>6 DEF said, n

\* An answer about routing is explained by its explanation.
LEMMA RouteKeeps == ASSUME RouteInv, asked \in Questions, Route PROVE RouteInv'
<1> DEFINE rules == asked.rules
           chosen == resolve(rules, asked.allowed, asked.model)
           said == explain(rules)
           dead == unreachableRules(rules)
           M == Matching(rules)
<1>1. /\ asked.kind = "route" /\ asked' = asked
      /\ decided' = [chosen |-> chosen, explained |-> said, dead |-> dead]
  BY DEF Route, Asked, Answer
<1>2. /\ said \in Seq({"match", "no-match", "non-boolean", "error"}) /\ Len(said) = Explained(rules)
      /\ \A i \in DOMAIN said : i \in DOMAIN rules /\ (said[i] = "match" <=> rules[i].yields = "true")
  BY <1>1, ExplainedIs
<1>3. M # {} => Min(M) \in M /\ Explained(rules) = Min(M) /\ Min(M) \notin dead
  BY <1>1, FirstMatch, DeadIsNotFirst
<1>4. \A i \in M : i \in DOMAIN rules /\ rules[i].yields = "true" /\ i \in Nat \ {0}
  <2>1. DOMAIN rules = 1 .. Len(rules) /\ Len(rules) \in Nat
    BY <1>1, FirstMatch
  <2> HIDE DEF rules
  <2> QED
    BY <2>1 DEF Matching
<1>5. (\E i \in DOMAIN said : said[i] = "match") => M # {}
  BY <1>2 DEF Matching
<1>6. chosen # Null =>
        chosen.rule = Len(said) /\ Last(said) = "match" /\ chosen.rule \notin dead
  <2>1. CASE chosen # Null
    <3>1. M # {} /\ chosen.rule = Min(M)
      BY <2>1 DEF resolve
    <3>2. Len(said) = Min(M) /\ Min(M) \in M
      BY <1>2, <1>3, <3>1
    <3> HIDE DEF M, said, rules, chosen, dead
    <3>3. Len(said) \in DOMAIN said
      BY <1>2, <1>4, <3>2
    <3>4. said[Len(said)] = "match"
      BY <1>2, <1>4, <3>2, <3>3
    <3> QED
      BY <1>3, <3>1, <3>2, <3>4 DEF Last
  <2> QED
    BY <2>1
<1>7. "match" \in ToSet(said) =>
        chosen # Null \/ (asked.allowed # {} /\ asked.model \notin asked.allowed)
  <2> SUFFICES ASSUME "match" \in ToSet(said),
                      asked.allowed = {} \/ asked.model \in asked.allowed
               PROVE  chosen # Null
    OBVIOUS
  <2>1. M # {}
    BY <1>5 DEF ToSet
  <2> DEFINE i == Min(M)
             model == IF rules[i].model = Null THEN asked.model ELSE rules[i].model
  <2>2. chosen = [rule |-> i, model |-> model]
    BY <2>1 DEF resolve
  <2>3. i \in DOMAIN rules
    BY <1>3, <1>4, <2>1
  <2>4. [rule |-> i, model |-> model] # Null
    <3>1. model \in {asked.model} \cup {rules[k].model : k \in DOMAIN rules}
      BY <2>3
    <3> HIDE DEF i, model
    <3>2. [rule |-> i, model |-> model] \in [rule : DOMAIN rules,
            model : {asked.model} \cup {rules[k].model : k \in DOMAIN rules}]
      BY <2>3, <3>1
    <3> QED
      BY <1>1, <3>2, QuestionAssumption
  <2> QED
    BY <2>2, <2>4
<1> HIDE DEF M, said, rules, chosen, dead
<1>8. /\ decided'.chosen = chosen /\ decided'.explained = said /\ decided'.dead = dead
  BY <1>1
<1>9. \A i \in DOMAIN said : said[i] = "match" <=> asked.rules[i].yields = "true"
  BY <1>2 DEF rules
<1> QED
  BY <1>1, <1>6, <1>7, <1>8, <1>9 DEF RouteInv, RoutingExplained

-----------------------------------------------------------------------------
(* Eviction                                                                  *)

\* The total of the i newest rows, for every i.
Sums(entries, f) ==
  /\ f \in [0 .. Len(entries) -> Nat] /\ f[0] = 0
  /\ \A i \in 1 .. Len(entries) : f[i] = WithBytes(f[i - 1], entries, i)

\* One row more is still a number.
LEMMA WithBytesNat ==
  ASSUME NEW entries \in Seq(CacheRows), NEW i \in 1 .. Len(entries), NEW t \in Nat
  PROVE  WithBytes(t, entries, i) \in Nat /\ t <= WithBytes(t, entries, i)
<1>1. Len(entries) - i + 1 \in 1 .. Len(entries)
  OBVIOUS
<1>2. entries[Len(entries) - i + 1] \in CacheRows
  BY <1>1
<1>3. entries[Len(entries) - i + 1].bytes \in Nat
  BY <1>2 DEF CacheRows
<1> QED
  BY <1>3 DEF WithBytes

\* The recursion that TotalBytes is defined by has a solution.
LEMMA SumsExist == ASSUME NEW entries \in Seq(CacheRows) PROVE \E f : Sums(entries, f)
<1> DEFINE n == Len(entries)
           Step(t, i) == WithBytes(t, entries, i)
           Upto(f, k) == /\ f \in [0 .. k -> Nat] /\ f[0] = 0
                         /\ \A i \in 1 .. k : f[i] = Step(f[i - 1], i)
           lacking == {k \in 0 .. n : ~ \E f : Upto(f, k)}
<1>0. /\ n \in Nat
      /\ \A t \in Nat, i \in 1 .. n : Step(t, i) \in Nat
  BY WithBytesNat
<1> HIDE DEF Step, n
<1>1. lacking = {}
  <2> SUFFICES ASSUME lacking # {} PROVE FALSE
    OBVIOUS
  <2>1. PICK m \in lacking : \A k \in lacking : m <= k
    <3>1. lacking \subseteq Nat
      BY <1>0
    <3> HIDE DEF lacking
    <3> QED
      BY <3>1, LeastNatural
  <2>2. m \in 0 .. n /\ m \in Nat /\ ~ \E f : Upto(f, m)
    <3> HIDE DEF Upto
    <3> QED
      BY <1>0
  <2>3. m # 0
    <3>1. Upto([i \in 0 .. 0 |-> 0], 0)
      OBVIOUS
    <3> HIDE DEF Upto
    <3> QED
      BY <2>2, <3>1
  <2>4. m - 1 \in 0 .. n /\ m - 1 \in Nat /\ m - 1 \notin lacking
    <3> HIDE DEF lacking
    <3> QED
      BY <1>0, <2>1, <2>2, <2>3
  <2>5. PICK f : Upto(f, m - 1)
    BY <2>4
  <2>6. f[m - 1] \in Nat /\ m \in 1 .. n
    BY <1>0, <2>2, <2>3, <2>4, <2>5
  <2> DEFINE g == [i \in 0 .. m |-> IF i = m THEN Step(f[m - 1], m) ELSE f[i]]
  <2>7. g[0] = 0
    BY <2>2, <2>3, <2>5
  <2>8. ASSUME NEW i \in 0 .. m PROVE g[i] \in Nat
    <3>1. Step(f[m - 1], m) \in Nat
      BY <1>0, <2>6
    <3>2. i # m => i \in 0 .. m - 1
      BY <2>2
    <3>3. i # m => f[i] \in Nat
      BY <2>5, <3>2
    <3> QED
      BY <3>1, <3>3
  <2>9. ASSUME NEW i \in 1 .. m PROVE g[i] = Step(g[i - 1], i)
    <3>1. i \in 0 .. m /\ i - 1 \in 0 .. m /\ i - 1 # m
      BY <2>2
    <3>2. g[i - 1] = f[i - 1]
      BY <3>1
    <3>3. CASE i = m
      BY <3>1, <3>2, <3>3
    <3>4. CASE i # m
      <4>1. i \in 1 .. m - 1
        BY <2>2, <3>4
      <4>2. f[i] = Step(f[i - 1], i) /\ g[i] = f[i]
        BY <2>5, <3>1, <3>4, <4>1
      <4> QED
        BY <3>2, <4>2
    <3> QED
      BY <3>3, <3>4
  <2>10. g \in [0 .. m -> Nat]
    BY <2>8
  <2> HIDE DEF g
  <2>11. Upto(g, m)
    BY <2>7, <2>9, <2>10
  <2> HIDE DEF Upto
  <2> QED
    BY <2>2, <2>11
<1>2. PICK f : Upto(f, n)
  <2>1. n \in 0 .. n
    BY <1>0
  <2> HIDE DEF Upto
  <2> QED
    BY <1>1, <2>1
<1>3. Sums(entries, f)
  BY <1>2 DEF Sums, Step, n
<1> QED
  BY <1>3

\* It has one only, and TotalBytes is its last value.
LEMMA TotalIs ==
  ASSUME NEW entries \in Seq(CacheRows), NEW f, Sums(entries, f)
  PROVE  TotalBytes(entries) = f[Len(entries)]
<1> DEFINE n == Len(entries)
           Step(t, i) == WithBytes(t, entries, i)
           Sol == CHOOSE e : e = [i \in 0 .. n |-> IF i = 0 THEN 0 ELSE Step(e[i - 1], i)]
           g == [i \in 0 .. n |-> IF i = 0 THEN 0 ELSE Step(f[i - 1], i)]
<1>1. n \in Nat /\ f \in [0 .. n -> Nat] /\ f[0] = 0 /\ \A i \in 1 .. n : f[i] = Step(f[i - 1], i)
  BY DEF Sums
<1>2. TotalBytes(entries) = Sol[n]
  BY DEF TotalBytes
<1> HIDE DEF n, Step
<1>3. f = g
  <2>1. \A i \in 0 .. n : f[i] = g[i]
    BY <1>1
  <2> QED
    BY <1>1, <2>1
<1>4. \E e : e = [i \in 0 .. n |-> IF i = 0 THEN 0 ELSE Step(e[i - 1], i)]
  BY <1>3
<1>5. Sol = [i \in 0 .. n |-> IF i = 0 THEN 0 ELSE Step(Sol[i - 1], i)]
  <2> HIDE DEF Sol
  <2> QED
    BY <1>4 DEF Sol
<1> HIDE DEF Sol, g
<1> DEFINE bad == {i \in 0 .. n : Sol[i] # f[i]}
<1>6. bad = {}
  <2> SUFFICES ASSUME bad # {} PROVE FALSE
    OBVIOUS
  <2>1. PICK m \in bad : \A k \in bad : m <= k
    <3>1. bad \subseteq Nat
      BY <1>1
    <3> HIDE DEF bad
    <3> QED
      BY <3>1, LeastNatural
  <2>2. m \in 0 .. n /\ Sol[m] # f[m]
    OBVIOUS
  <2>3. Sol[m] = IF m = 0 THEN 0 ELSE Step(Sol[m - 1], m)
    BY <1>5, <2>2
  <2>4. m # 0
    BY <1>1, <2>2, <2>3
  <2>5. m \in 1 .. n /\ m - 1 \in 0 .. n /\ m - 1 \notin bad
    BY <1>1, <2>1, <2>2, <2>4
  <2>6. Sol[m - 1] = f[m - 1]
    BY <2>5
  <2> QED
    BY <1>1, <2>2, <2>3, <2>4, <2>5, <2>6
<1>7. n \in 0 .. n
  BY <1>1
<1> QED
  BY <1>2, <1>6, <1>7 DEF n

\* The newest rows, and their total.
LEMMA NewestTotal ==
  ASSUME NEW entries \in Seq(CacheRows), NEW f, Sums(entries, f), NEW n \in 0 .. Len(entries)
  PROVE  /\ Newest(entries, n) \in Seq(CacheRows) /\ Len(Newest(entries, n)) = n
         /\ \A i \in 1 .. n : Newest(entries, n)[i] = entries[Len(entries) - n + i]
         /\ TotalBytes(Newest(entries, n)) = f[n]
<1> DEFINE L == Len(entries)
           new == Newest(entries, n)
           g == [i \in 0 .. n |-> f[i]]
<1>0. L \in Nat /\ n \in Nat /\ n <= L /\ L - n + 1 \in 1 .. L + 1 /\ L \in L - n + 1 - 1 .. L
  OBVIOUS
<1>1. /\ new \in Seq(CacheRows) /\ Len(new) = n
      /\ \A i \in 1 .. n : new[i] = entries[L - n + i]
  <2>1. new = [i \in 1 .. n |-> entries[L - n + i]]
    <3>1. new = [i \in 1 .. (L - (L - n + 1) + 1) |-> entries[i + (L - n + 1) - 1]]
      BY DEF Newest
    <3>2. L - (L - n + 1) + 1 = n
      BY <1>0
    <3>3. \A i \in 1 .. n : i + (L - n + 1) - 1 = L - n + i
      BY <1>0
    <3> HIDE DEF new, L
    <3> QED
      BY <3>1, <3>2, <3>3
  <2>2. \A i \in 1 .. n : L - n + i \in 1 .. L
    BY <1>0
  <2> HIDE DEF new
  <2> QED
    BY <1>0, <2>1, <2>2
<1> HIDE DEF new
<1>2. Sums(new, g)
  <2>1. g \in [0 .. n -> Nat] /\ g[0] = 0
    BY <1>0 DEF Sums
  <2>2. ASSUME NEW i \in 1 .. n PROVE g[i] = WithBytes(g[i - 1], new, i)
    <3>1. /\ i \in 0 .. n /\ i - 1 \in 0 .. n /\ i \in 1 .. L
          /\ n - i + 1 \in 1 .. n /\ L - n + (n - i + 1) = L - i + 1
      BY <1>0
    <3>2. f[i] = WithBytes(f[i - 1], entries, i)
      BY <3>1 DEF Sums
    <3>3. new[n - i + 1] = entries[L - i + 1]
      BY <1>1, <3>1
    <3> QED
      BY <1>1, <3>1, <3>2, <3>3 DEF WithBytes
  <2> HIDE DEF g
  <2> QED
    BY <1>1, <2>1, <2>2 DEF Sums
<1>3. TotalBytes(new) = g[n]
  BY <1>1, <1>2, TotalIs
<1>4. g[n] = f[n]
  BY <1>0
<1> QED
  BY <1>1, <1>3, <1>4 DEF new

\* More rows take no fewer bytes.
LEMMA TotalsGrow ==
  ASSUME NEW entries \in Seq(CacheRows), NEW f, Sums(entries, f),
         NEW n \in 0 .. Len(entries), NEW m \in 0 .. Len(entries), n <= m
  PROVE  f[n] <= f[m]
<1> DEFINE L == Len(entries)
           bad == {k \in n .. L : ~(f[n] <= f[k])}
<1>1. /\ L \in Nat /\ n \in Nat /\ m \in n .. L
      /\ \A k \in 0 .. L : f[k] \in Nat
      /\ \A k \in 1 .. L : k - 1 \in 0 .. L => f[k - 1] <= f[k]
  <2>1. \A k \in 0 .. L : f[k] \in Nat
    BY DEF Sums
  <2>2. ASSUME NEW k \in 1 .. L, k - 1 \in 0 .. L PROVE f[k - 1] <= f[k]
    <3>1. f[k] = WithBytes(f[k - 1], entries, k) /\ f[k - 1] \in Nat
      BY <2>1, <2>2 DEF Sums
    <3> QED
      BY <3>1, WithBytesNat
  <2> QED
    BY <2>1, <2>2
<1>2. bad = {}
  <2> SUFFICES ASSUME bad # {} PROVE FALSE
    OBVIOUS
  <2>1. PICK k \in bad : \A l \in bad : k <= l
    <3>1. bad \subseteq Nat
      BY <1>1
    <3> HIDE DEF bad
    <3> QED
      BY <3>1, LeastNatural
  <2>2. k \in n .. L /\ ~(f[n] <= f[k])
    OBVIOUS
  <2>3. k # n
    BY <1>1, <2>2
  <2>4. k \in 1 .. L /\ k \in 0 .. L /\ k - 1 \in 0 .. L /\ k - 1 \in n .. L /\ k - 1 \notin bad
    BY <1>1, <2>1, <2>2, <2>3
  <2>5. f[n] <= f[k - 1] /\ f[k - 1] <= f[k]
    BY <1>1, <2>4
  <2> QED
    BY <1>1, <2>2, <2>4, <2>5
<1> QED
  BY <1>1, <1>2

\* A set of places has a first, a second, and so on.
LEMMA PlaceIn ==
  ASSUME NEW n \in Nat, NEW I \in SUBSET (1 .. n), NEW k \in 1 .. Cardinality(I)
  PROVE  Place(I, k) \in I /\ Cardinality({j \in I : j <= Place(I, k)}) = k
<1> DEFINE Upto(m) == {j \in I : j <= m}
           S == {m \in Nat : k <= Cardinality(Upto(m))}
<1>1. IsFiniteSet(I) /\ Cardinality(I) \in Nat
  <2>1. IsFiniteSet(1 .. n)
    BY FS_Interval
  <2> QED
    BY <2>1, FS_Subset, FS_CardinalityType
<1>2. ASSUME NEW m PROVE IsFiniteSet(Upto(m)) /\ Cardinality(Upto(m)) \in Nat
  BY <1>1, FS_Subset, FS_CardinalityType
<1>3. Upto(n) = I
  <2>1. \A j \in I : j <= n
    OBVIOUS
  <2> QED
    BY <2>1
<1> HIDE DEF Upto
<1>4. n \in S
  BY <1>1, <1>3
<1>5. PICK m \in S : \A l \in S : m <= l
  <2>1. S \subseteq Nat /\ S # {}
    BY <1>4
  <2> HIDE DEF S
  <2> QED
    BY <2>1, LeastNatural
<1>6. m \in Nat /\ k <= Cardinality(Upto(m)) /\ k \in Nat /\ k >= 1
  BY <1>1
<1>7. m # 0
  <2>1. \A j \in I : ~(j <= 0)
    OBVIOUS
  <2>2. Upto(0) = {}
    BY <2>1 DEF Upto
  <2> QED
    BY <1>6, <2>2, FS_EmptySet
<1>8. m - 1 \in Nat /\ Cardinality(Upto(m - 1)) < k
  <2>1. m - 1 \in Nat /\ m - 1 \notin S
    BY <1>5, <1>6, <1>7
  <2>2. Cardinality(Upto(m - 1)) \in Nat
    BY <1>2
  <2> QED
    BY <1>6, <2>1, <2>2
<1>9. m \in I
  <2> SUFFICES ASSUME m \notin I PROVE FALSE
    OBVIOUS
  <2>1. \A j \in I : j <= m <=> j <= m - 1
    BY <1>6
  <2>2. Upto(m) = Upto(m - 1)
    BY <2>1 DEF Upto
  <2> QED
    BY <1>2, <1>6, <1>8, <2>2
<1>10. Cardinality(Upto(m)) = k
  <2>1. Upto(m) = Upto(m - 1) \cup {m} /\ m \notin Upto(m - 1)
    <3>1. \A j \in I : j <= m <=> j <= m - 1 \/ j = m
      BY <1>6
    <3>2. ~(m <= m - 1)
      BY <1>6
    <3> QED
      BY <1>9, <3>1, <3>2 DEF Upto
  <2>2. IsFiniteSet(Upto(m - 1)) /\ Cardinality(Upto(m - 1)) \in Nat
    BY <1>2
  <2>3. Cardinality(Upto(m)) = Cardinality(Upto(m - 1)) + 1
    BY <2>1, <2>2, FS_AddElement
  <2> QED
    BY <1>6, <1>8, <2>2, <2>3
<1>11. \E i \in I : Cardinality({j \in I : j <= i}) = k
  BY <1>9, <1>10 DEF Upto
<1> QED
  BY <1>11 DEF Place

\* The live rows are rows.
LEMMA LiveRows == ASSUME NEW entries \in Seq(CacheRows) PROVE Live(entries) \in Seq(CacheRows)
<1> DEFINE I == {i \in DOMAIN entries : ~entries[i].expired}
<1>1. Len(entries) \in Nat /\ I \in SUBSET (1 .. Len(entries))
  OBVIOUS
<1>2. Cardinality(I) \in Nat
  <2>1. IsFiniteSet(1 .. Len(entries))
    BY <1>1, FS_Interval
  <2> HIDE DEF I
  <2> QED
    BY <1>1, <2>1, FS_Subset, FS_CardinalityType
<1>3. Live(entries) = [k \in 1 .. Cardinality(I) |-> entries[Place(I, k)]]
  BY DEF Live, RowsAt
<1> HIDE DEF I
<1>4. ASSUME NEW k \in 1 .. Cardinality(I) PROVE entries[Place(I, k)] \in CacheRows
  <2>1. Place(I, k) \in I
    BY <1>1, PlaceIn
  <2>2. Place(I, k) \in 1 .. Len(entries)
    BY <1>1, <2>1
  <2> QED
    BY <2>2
<1> QED
  BY <1>2, <1>3, <1>4

\* The rows at the last places are the newest.
LEMMA LastPlaces ==
  ASSUME NEW entries \in Seq(CacheRows), NEW m \in 0 .. Len(entries)
  PROVE  RowsAt(entries, (Len(entries) - m + 1) .. Len(entries)) = Newest(entries, m)
<1> DEFINE L == Len(entries)
           a == L - m
           I == (a + 1) .. L
<1>1. L \in Nat /\ a \in Nat /\ a <= L /\ m \in Nat /\ a + m = L
  OBVIOUS
<1>2. ASSUME NEW i \in I PROVE Cardinality({j \in I : j <= i}) = i - a
  <2> DEFINE upto == {j \in I : j <= i}
  <2>1. upto = (a + 1) .. i
    BY <1>1
  <2>2. a + 1 \in Int /\ i \in Int /\ ~(a + 1 > i)
    BY <1>1
  <2>3. Cardinality((a + 1) .. i) = IF a + 1 > i THEN 0 ELSE i - (a + 1) + 1
    <3> HIDE DEF a, I
    <3> QED
      BY <2>2, FS_Interval
  <2>4. i - (a + 1) + 1 = i - a
    BY <1>1, <2>2
  <2> HIDE DEF upto, a, I
  <2>5. Cardinality(upto) = i - a
    BY <2>1, <2>2, <2>3, <2>4
  <2> QED
    BY <2>5 DEF upto
<1>3. Cardinality(I) = m
  <2>1. a + 1 \in Int /\ L \in Int
    BY <1>1
  <2> HIDE DEF L, a
  <2>2. Cardinality(I) = IF a + 1 > L THEN 0 ELSE L - (a + 1) + 1
    BY <2>1, FS_Interval
  <2> HIDE DEF I
  <2> QED
    BY <1>1, <2>2
<1>4. I \in SUBSET (1 .. L)
  BY <1>1
<1>5. ASSUME NEW k \in 1 .. m PROVE Place(I, k) = a + k
  <2>1. Place(I, k) \in I /\ Cardinality({j \in I : j <= Place(I, k)}) = k
    BY <1>1, <1>3, <1>4, PlaceIn
  <2>2. Place(I, k) - a = k /\ Place(I, k) \in Int
    BY <1>1, <1>2, <2>1
  <2> QED
    BY <1>1, <2>2
<1>6. RowsAt(entries, I) = [k \in 1 .. m |-> entries[a + k]]
  <2>1. RowsAt(entries, I) = [k \in 1 .. Cardinality(I) |-> entries[Place(I, k)]]
    BY DEF RowsAt
  <2> HIDE DEF I
  <2> QED
    BY <1>3, <1>5, <2>1
<1>7. Newest(entries, m) = [k \in 1 .. m |-> entries[a + k]]
  <2>1. PICK f : Sums(entries, f)
    BY SumsExist
  <2>2. /\ Newest(entries, m) \in Seq(CacheRows) /\ Len(Newest(entries, m)) = m
        /\ \A i \in 1 .. m : Newest(entries, m)[i] = entries[a + i]
    BY <2>1, NewestTotal
  <2>3. Newest(entries, m) = [i \in 1 .. m |-> Newest(entries, m)[i]]
    BY <2>2
  <2> QED
    BY <2>2, <2>3
<1> QED
  BY <1>6, <1>7

\* The newest rows are a suffix.
LEMMA NewestIsSuffix ==
  ASSUME NEW entries \in Seq(CacheRows), NEW m \in 0 .. Len(entries)
  PROVE  IsSuffix(Newest(entries, m), entries)
<1> DEFINE L == Len(entries)
           new == Newest(entries, m)
           rs == Reverse(new)
           rt == Reverse(entries)
<1>1. PICK f : Sums(entries, f)
  BY SumsExist
<1>2. /\ L \in Nat /\ m \in Nat /\ m <= L /\ new \in Seq(CacheRows) /\ Len(new) = m
      /\ \A i \in 1 .. m : new[i] = entries[L - m + i]
  BY <1>1, NewestTotal
<1>3. rs = [i \in 1 .. m |-> new[(m - i) + 1]] /\ rt = [i \in 1 .. L |-> entries[(L - i) + 1]]
  BY <1>2 DEF Reverse
<1> HIDE DEF new
<1>4. ASSUME NEW i \in 1 .. m PROVE rs[i] = rt[i]
  <2>1. /\ i \in 1 .. L /\ (m - i) + 1 \in 1 .. m /\ L - m + ((m - i) + 1) = (L - i) + 1
    BY <1>2
  <2>2. rs[i] = new[(m - i) + 1] /\ rt[i] = entries[(L - i) + 1]
    BY <1>3, <2>1
  <2> QED
    BY <1>2, <2>1, <2>2
<1>5. rs \in Seq(CacheRows) /\ Len(rs) = m /\ rt \in Seq(CacheRows) /\ Len(rt) = L
  <2>1. \A i \in 1 .. m : new[(m - i) + 1] \in CacheRows
    BY <1>2
  <2>2. \A i \in 1 .. L : entries[(L - i) + 1] \in CacheRows
    BY <1>2
  <2> HIDE DEF rs, rt
  <2> QED
    BY <1>2, <1>3, <2>1, <2>2
<1> HIDE DEF rs, rt
<1>6. SubSeq(rs, 1, m) = SubSeq(rt, 1, m)
  <2>1. SubSeq(rs, 1, m) = [i \in 1 .. m |-> rs[i]] /\ SubSeq(rt, 1, m) = [i \in 1 .. m |-> rt[i]]
    BY <1>2, <1>5
  <2> QED
    BY <1>4, <2>1
<1>7. IsPrefix(rs, rt)
  BY <1>2, <1>5, <1>6 DEF IsPrefix
<1> QED
  BY <1>7 DEF IsSuffix, rs, rt, new

\* Both ways to evict keep the most of the newest live rows that keep both
\* bounds, and as sizes are no less than 0, what fits with a row fits without.
LEMMA EvictsNewest ==
  ASSUME NEW entries \in Seq(CacheRows), NEW maxEntries \in Nat, NEW maxBytes \in Nat,
         NEW f, Sums(Live(entries), f)
  PROVE  \E m \in 0 .. Len(Live(entries)) :
           /\ m <= maxEntries /\ f[m] <= maxBytes
           /\ m < Len(Live(entries)) => m = maxEntries \/ f[m + 1] > maxBytes
           /\ evictMemory(entries, maxEntries, maxBytes) = Newest(Live(entries), m)
           /\ evictPostgres(entries, maxEntries, maxBytes) = Newest(Live(entries), m)
<1> DEFINE live == Live(entries)
           L == Len(live)
           fits(n) == n <= maxEntries /\ TotalBytes(Newest(live, n)) <= maxBytes
           Fit == {n \in 0 .. L : fits(n)}
           m == Max(Fit)
           kept == {i \in DOMAIN live : Len(live) - i + 1 <= maxEntries
                                          /\ RunningBytes(live, i) <= maxBytes}
<1>1. live \in Seq(CacheRows) /\ L \in Nat /\ DOMAIN live = 1 .. L
  BY LiveRows
<1>2. evictMemory(entries, maxEntries, maxBytes) = Newest(live, m)
  BY DEF evictMemory
<1>3. evictPostgres(entries, maxEntries, maxBytes) = RowsAt(live, kept)
  <2> DEFINE rank == [i \in DOMAIN live |-> Len(live) - i + 1]
             held == {i \in DOMAIN live : rank[i] <= maxEntries /\ RunningBytes(live, i) <= maxBytes}
  <2>1. evictPostgres(entries, maxEntries, maxBytes) = RowsAt(live, held)
    BY DEF evictPostgres
  <2>2. held = kept
    OBVIOUS
  <2> QED
    BY <2>1, <2>2
<1> HIDE DEF live
<1>4. Sums(live, f)
  BY DEF live
<1>5. ASSUME NEW n \in 0 .. L PROVE TotalBytes(Newest(live, n)) = f[n] /\ f[n] \in Nat
  <2>1. f \in [0 .. L -> Nat]
    BY <1>4 DEF Sums
  <2>2. f[n] \in Nat
    BY <2>1
  <2>3. TotalBytes(Newest(live, n)) = f[n]
    BY <1>1, <1>4, NewestTotal
  <2> QED
    BY <2>2, <2>3
<1>6. \A n \in 0 .. L : n \in Fit <=> n <= maxEntries /\ f[n] <= maxBytes
  BY <1>5
<1>7. 0 \in Fit
  <2>1. 0 \in 0 .. L /\ f[0] = 0 /\ 0 <= maxEntries /\ 0 <= maxBytes
    BY <1>1, <1>4 DEF Sums
  <2> QED
    BY <1>6, <2>1
<1>8. Fit \subseteq 0 .. L
  OBVIOUS
<1> HIDE DEF Fit
<1>9. m \in Fit /\ \A n \in Fit : n <= m
  <2> DEFINE S == {L - n : n \in Fit}
  <2>1. S \subseteq Nat /\ S # {}
    BY <1>1, <1>7, <1>8
  <2>2. PICK s \in S : \A t \in S : s <= t
    <3> HIDE DEF S
    <3> QED
      BY <2>1, LeastNatural
  <2>3. PICK n \in Fit : s = L - n
    BY <2>2
  <2>4. ASSUME NEW k \in Fit PROVE n >= k
    <3>1. L - k \in S /\ k \in Int /\ n \in Int
      BY <1>1, <1>8
    <3>2. L - n <= L - k
      BY <2>2, <2>3, <3>1
    <3> QED
      BY <1>1, <3>1, <3>2
  <2>5. \E x \in Fit : \A y \in Fit : x >= y
    BY <2>4
  <2>6. m \in Fit /\ \A y \in Fit : m >= y
    BY <2>5 DEF Max
  <2>7. \A y \in Fit : y \in Int
    BY <1>8
  <2> HIDE DEF m
  <2> QED
    BY <2>6, <2>7
<1> HIDE DEF m
<1>10. m \in 0 .. L /\ m <= maxEntries /\ f[m] <= maxBytes
  BY <1>6, <1>8, <1>9
<1>11. ASSUME NEW n \in 0 .. L PROVE n \in Fit <=> n <= m
  <2>1. CASE n \in Fit
    BY <1>9, <2>1
  <2>2. CASE n <= m
    <3>1. f[n] <= f[m] /\ n \in Nat /\ m \in Nat
      BY <1>1, <1>4, <1>10, <2>2, TotalsGrow
    <3>2. n <= maxEntries /\ f[n] <= maxBytes
      BY <1>5, <1>10, <2>2, <3>1
    <3> QED
      BY <1>6, <2>2, <3>2
  <2> QED
    BY <2>1, <2>2
<1>12. m < L => m = maxEntries \/ f[m + 1] > maxBytes
  <2> SUFFICES ASSUME m < L PROVE m = maxEntries \/ f[m + 1] > maxBytes
    OBVIOUS
  <2>1. m + 1 \in 0 .. L /\ ~(m + 1 <= m) /\ m \in Nat
    BY <1>1, <1>10
  <2>2. ~(m + 1 <= maxEntries /\ f[m + 1] <= maxBytes) /\ f[m + 1] \in Nat
    BY <1>5, <1>6, <1>11, <2>1
  <2> QED
    BY <1>10, <2>1, <2>2
<1>13. kept = (L - m + 1) .. L
  <2>1. ASSUME NEW i \in 1 .. L PROVE i \in kept <=> i \in (L - m + 1) .. L
    <3>1. L - i + 1 \in 0 .. L /\ m \in Nat
      BY <1>1, <1>10
    <3>2. RunningBytes(live, i) = f[L - i + 1]
      BY <1>5, <3>1 DEF RunningBytes
    <3>3. i \in kept <=> L - i + 1 \in Fit
      BY <1>1, <1>6, <3>1, <3>2
    <3>4. L - i + 1 <= m <=> i \in (L - m + 1) .. L
      BY <1>1, <3>1
    <3> QED
      BY <1>11, <3>1, <3>3, <3>4
  <2>2. kept \subseteq 1 .. L
    BY <1>1
  <2>3. (L - m + 1) .. L \subseteq 1 .. L
    BY <1>1, <1>10
  <2> HIDE DEF kept
  <2> QED
    BY <2>1, <2>2, <2>3
<1> HIDE DEF kept
<1>14. RowsAt(live, kept) = Newest(live, m)
  BY <1>1, <1>10, <1>13, LastPlaces
<1> QED
  BY <1>2, <1>3, <1>10, <1>12, <1>14 DEF live

\* What is kept is the longest run of the newest live rows within the bounds.
LEMMA KeepsLongest ==
  ASSUME NEW entries \in Seq(CacheRows), NEW maxEntries \in Nat, NEW maxBytes \in Nat
  PROVE  /\ LongestWithin(evictMemory(entries, maxEntries, maxBytes), entries, maxEntries, maxBytes)
         /\ LongestWithin(evictPostgres(entries, maxEntries, maxBytes), entries, maxEntries, maxBytes)
<1> DEFINE live == Live(entries)
           memory == evictMemory(entries, maxEntries, maxBytes)
           postgres == evictPostgres(entries, maxEntries, maxBytes)
<1>1. live \in Seq(CacheRows)
  BY LiveRows
<1>2. PICK f : Sums(live, f)
  BY <1>1, SumsExist
<1>3. PICK m \in 0 .. Len(live) :
        /\ m <= maxEntries /\ f[m] <= maxBytes
        /\ m < Len(live) => m = maxEntries \/ f[m + 1] > maxBytes
        /\ memory = Newest(live, m) /\ postgres = Newest(live, m)
  BY <1>2, EvictsNewest
<1>4. Len(Newest(live, m)) = m /\ TotalBytes(Newest(live, m)) = f[m]
  BY <1>1, <1>2, NewestTotal
<1>5. m < Len(live) => TotalBytes(Newest(live, m + 1)) = f[m + 1]
  <2> SUFFICES ASSUME m < Len(live) PROVE TotalBytes(Newest(live, m + 1)) = f[m + 1]
    OBVIOUS
  <2>1. m + 1 \in 0 .. Len(live)
    BY <1>1
  <2> HIDE DEF live
  <2> QED
    BY <1>1, <1>2, <2>1, NewestTotal
<1>6. IsSuffix(Newest(live, m), live)
  BY <1>1, NewestIsSuffix
<1> HIDE DEF memory, postgres, live
<1>7. memory = postgres
  BY <1>3
<1>8. /\ IsSuffix(postgres, live)
      /\ Len(postgres) <= maxEntries /\ TotalBytes(postgres) <= maxBytes
      /\ Len(postgres) < Len(live) =>
           \/ Len(postgres) = maxEntries
           \/ TotalBytes(Newest(live, Len(postgres) + 1)) > maxBytes
  BY <1>3, <1>4, <1>5, <1>6
<1>9. LongestWithin(postgres, entries, maxEntries, maxBytes)
  BY <1>8 DEF LongestWithin, live
<1> QED
  BY <1>7, <1>9 DEF memory, postgres

\* Rows of no more bytes each have totals that are no more.
LEMMA TotalsLess ==
  ASSUME NEW heavy \in Seq(CacheRows), NEW light \in Seq(CacheRows), Len(heavy) = Len(light),
         \A i \in 1 .. Len(heavy) : light[i].bytes <= heavy[i].bytes,
         NEW f, Sums(heavy, f), NEW g, Sums(light, g), NEW n \in 0 .. Len(heavy)
  PROVE  g[n] <= f[n]
<1> DEFINE L == Len(heavy)
           bad == {k \in 0 .. L : ~(g[k] <= f[k])}
<1>1. L \in Nat /\ f[0] = 0 /\ g[0] = 0 /\ \A k \in 0 .. L : f[k] \in Nat /\ g[k] \in Nat
  <2>1. f \in [0 .. L -> Nat] /\ g \in [0 .. L -> Nat] /\ f[0] = 0 /\ g[0] = 0
    BY DEF Sums
  <2>2. L \in Nat
    OBVIOUS
  <2> HIDE DEF L
  <2> QED
    BY <2>1, <2>2
<1>2. ASSUME NEW k \in 1 .. L, k - 1 \in 0 .. L, g[k - 1] <= f[k - 1] PROVE g[k] <= f[k]
  <2>1. L - k + 1 \in 1 .. L
    BY <1>1
  <2>2. heavy[L - k + 1] \in CacheRows /\ light[L - k + 1] \in CacheRows
    BY <2>1
  <2>3. heavy[L - k + 1].bytes \in Nat /\ light[L - k + 1].bytes \in Nat
    BY <2>2 DEF CacheRows
  <2>4. /\ f[k] = f[k - 1] + heavy[L - k + 1].bytes
        /\ g[k] = g[k - 1] + light[L - k + 1].bytes
    BY DEF Sums, WithBytes
  <2>5. light[L - k + 1].bytes <= heavy[L - k + 1].bytes
    BY <2>1
  <2>6. f[k - 1] \in Nat /\ g[k - 1] \in Nat
    BY <1>1, <1>2
  <2> QED
    BY <1>2, <2>3, <2>4, <2>5, <2>6
<1>3. bad = {}
  <2> SUFFICES ASSUME bad # {} PROVE FALSE
    OBVIOUS
  <2>1. PICK k \in bad : \A l \in bad : k <= l
    <3>1. bad \subseteq Nat
      BY <1>1
    <3> HIDE DEF bad
    <3> QED
      BY <3>1, LeastNatural
  <2>2. k \in 0 .. L /\ ~(g[k] <= f[k])
    OBVIOUS
  <2>3. k # 0
    BY <1>1, <2>2
  <2>4. k \in 1 .. L /\ k - 1 \in 0 .. L /\ k - 1 \notin bad
    BY <1>1, <2>1, <2>2, <2>3
  <2> QED
    BY <1>2, <2>2, <2>4
<1> QED
  BY <1>3

\* What the caches see of the answers: rows, of which the same are live unless
\* one is at the end of its time, and none weighs less in memory.
LEMMA SeenBy ==
  ASSUME NEW answers \in Seq(StoredAnswers)
  PROVE  /\ InMemory(answers) \in Seq(CacheRows) /\ InPostgres(answers) \in Seq(CacheRows)
         /\ (\A i \in DOMAIN answers : answers[i].left # 0) =>
              /\ Len(Live(InMemory(answers))) = Len(Live(InPostgres(answers)))
              /\ \A i \in 1 .. Len(Live(InMemory(answers))) :
                   Live(InPostgres(answers))[i].bytes <= Live(InMemory(answers))[i].bytes
<1> DEFINE L == Len(answers)
           a == InMemory(answers)
           b == InPostgres(answers)
           I == {i \in DOMAIN a : ~a[i].expired}
           J == {i \in DOMAIN b : ~b[i].expired}
<1>1. ASSUME NEW i \in 1 .. L
      PROVE  /\ answers[i].entry \in Nat /\ answers[i].body \in Nat /\ answers[i].left \in Int
             /\ answers[i].body <= answers[i].entry
  <2>1. answers[i] \in StoredAnswers
    OBVIOUS
  <2> QED
    BY <2>1 DEF StoredAnswers
<1>2. L \in Nat /\ DOMAIN answers = 1 .. L
  OBVIOUS
<1>3. /\ a = [i \in 1 .. L |-> [bytes |-> answers[i].entry, expired |-> answers[i].left <= 0]]
      /\ b = [i \in 1 .. L |-> [bytes |-> answers[i].body, expired |-> answers[i].left < 0]]
  BY <1>2 DEF InMemory, InPostgres
<1> HIDE DEF a, b
<1>4. ASSUME NEW i \in 1 .. L
      PROVE  /\ a[i] \in CacheRows /\ b[i] \in CacheRows
             /\ a[i].bytes = answers[i].entry /\ b[i].bytes = answers[i].body
             /\ a[i].expired = (answers[i].left <= 0) /\ b[i].expired = (answers[i].left < 0)
  <2>1. (answers[i].left <= 0) \in BOOLEAN /\ (answers[i].left < 0) \in BOOLEAN
    BY <1>1
  <2> QED
    BY <1>1, <1>3, <2>1 DEF CacheRows
<1>5. a \in Seq(CacheRows) /\ b \in Seq(CacheRows) /\ DOMAIN a = 1 .. L /\ DOMAIN b = 1 .. L
  <2>1. DOMAIN a = 1 .. L /\ DOMAIN b = 1 .. L
    BY <1>3
  <2>2. a = [i \in 1 .. L |-> a[i]] /\ b = [i \in 1 .. L |-> b[i]]
    BY <1>3
  <2> HIDE DEF L
  <2>3. a \in [1 .. L -> CacheRows] /\ b \in [1 .. L -> CacheRows]
    BY <1>4, <2>2
  <2> QED
    BY <1>2, <2>1, <2>3
<1>6. ASSUME \A i \in DOMAIN answers : answers[i].left # 0
      PROVE  /\ Len(Live(a)) = Len(Live(b))
             /\ \A i \in 1 .. Len(Live(a)) : Live(b)[i].bytes <= Live(a)[i].bytes
  <2>1. \A i \in 1 .. L : a[i].expired <=> b[i].expired
    BY <1>1, <1>2, <1>4, <1>6
  <2>2. I = J /\ I \in SUBSET (1 .. L)
    BY <1>5, <2>1
  <2>3. Cardinality(I) \in Nat
    <3>1. IsFiniteSet(1 .. L)
      BY <1>2, FS_Interval
    <3> HIDE DEF I
    <3> QED
      BY <2>2, <3>1, FS_Subset, FS_CardinalityType
  <2>4. Live(a) = [k \in 1 .. Cardinality(I) |-> a[Place(I, k)]]
    BY DEF Live, RowsAt
  <2>5. Live(b) = [k \in 1 .. Cardinality(J) |-> b[Place(J, k)]]
    BY DEF Live, RowsAt
  <2> HIDE DEF I, J
  <2>6. Live(b) = [k \in 1 .. Cardinality(I) |-> b[Place(I, k)]]
    BY <2>2, <2>5
  <2>7. ASSUME NEW k \in 1 .. Cardinality(I) PROVE Live(b)[k].bytes <= Live(a)[k].bytes
    <3>1. Place(I, k) \in I
      BY <1>2, <2>2, PlaceIn
    <3>2. Place(I, k) \in 1 .. L
      BY <2>2, <3>1
    <3>3. b[Place(I, k)].bytes <= a[Place(I, k)].bytes
      BY <1>1, <1>4, <3>2
    <3> QED
      BY <2>4, <2>6, <3>3
  <2>8. Len(Live(a)) = Cardinality(I) /\ Len(Live(b)) = Cardinality(I)
    <3>1. Live(a) \in Seq(CacheRows) /\ Live(b) \in Seq(CacheRows)
      BY <1>5, LiveRows
    <3>2. DOMAIN Live(a) = 1 .. Cardinality(I) /\ DOMAIN Live(b) = 1 .. Cardinality(I)
      BY <2>4, <2>6
    <3> QED
      BY <2>3, <3>1, <3>2
  <2> QED
    BY <2>7, <2>8
<1> QED
  BY <1>5, <1>6 DEF a, b

\* Memory keeps no answer that PostgreSQL evicts.
LEMMA MemoryKeepsLess ==
  ASSUME NEW answers \in Seq(StoredAnswers), NEW maxEntries \in Nat, NEW maxBytes \in Nat,
         \A i \in DOMAIN answers : answers[i].left # 0
  PROVE  Len(evictMemory(InMemory(answers), maxEntries, maxBytes))
           <= Len(evictPostgres(InPostgres(answers), maxEntries, maxBytes))
<1> DEFINE a == InMemory(answers)
           b == InPostgres(answers)
           heavy == Live(a)
           light == Live(b)
<1>1. /\ a \in Seq(CacheRows) /\ b \in Seq(CacheRows) /\ Len(heavy) = Len(light)
      /\ \A i \in 1 .. Len(heavy) : light[i].bytes <= heavy[i].bytes
  BY SeenBy
<1> HIDE DEF a, b
<1>2. heavy \in Seq(CacheRows) /\ light \in Seq(CacheRows)
  BY <1>1, LiveRows
<1>3. PICK f : Sums(heavy, f)
  BY <1>2, SumsExist
<1>4. PICK g : Sums(light, g)
  BY <1>2, SumsExist
<1>5. PICK n \in 0 .. Len(heavy) : /\ n <= maxEntries /\ f[n] <= maxBytes
                                  /\ evictMemory(a, maxEntries, maxBytes) = Newest(heavy, n)
  BY <1>1, <1>3, EvictsNewest
<1>6. PICK m \in 0 .. Len(light) :
        /\ m <= maxEntries /\ m < Len(light) => m = maxEntries \/ g[m + 1] > maxBytes
        /\ evictPostgres(b, maxEntries, maxBytes) = Newest(light, m)
  BY <1>1, <1>4, EvictsNewest
<1>7. Len(Newest(heavy, n)) = n /\ Len(Newest(light, m)) = m
  BY <1>2, <1>3, <1>4, NewestTotal
<1> HIDE DEF heavy, light
<1>8. n <= m
  <2> SUFFICES ASSUME m < n PROVE FALSE
    BY <1>2
  <2>1. /\ m \in Nat /\ n \in Nat /\ m < Len(light) /\ m + 1 <= n
        /\ m + 1 \in 0 .. Len(heavy) /\ m + 1 \in 0 .. Len(light)
    BY <1>1, <1>2
  <2>2. f[m + 1] <= f[n]
    BY <1>2, <1>3, <2>1, TotalsGrow
  <2>3. g[m + 1] <= f[m + 1]
    BY <1>1, <1>2, <1>3, <1>4, <2>1, TotalsLess
  <2>4. f[m + 1] \in Nat /\ f[n] \in Nat /\ g[m + 1] \in Nat
    BY <1>3, <1>4, <2>1 DEF Sums
  <2>5. ~(g[m + 1] > maxBytes)
    BY <1>5, <2>2, <2>3, <2>4
  <2> QED
    BY <1>5, <1>6, <2>1, <2>5
<1> QED
  BY <1>5, <1>6, <1>7, <1>8 DEF a, b

\* What has been decided of an eviction.
EvictInv == decided # Null => asked \in Questions /\ EvictionsAgree

\* An eviction keeps the most that fits.
LEMMA EvictKeeps == ASSUME EvictInv, asked \in Questions, Evict PROVE EvictInv'
<1> DEFINE a == InMemory(asked.answers)
           b == InPostgres(asked.answers)
           memory == evictMemory(a, asked.maxEntries, asked.maxBytes)
           postgres == evictPostgres(b, asked.maxEntries, asked.maxBytes)
<1>1. /\ asked.kind = "evict" /\ asked' = asked
      /\ decided' = [memory |-> memory, postgres |-> postgres]
  BY DEF Evict, Asked, Answer
<1>2. asked.answers \in Seq(StoredAnswers) /\ asked.maxEntries \in Nat /\ asked.maxBytes \in Nat
  BY <1>1, QuestionAssumption
<1>3. a \in Seq(CacheRows) /\ b \in Seq(CacheRows)
  BY <1>2, SeenBy
<1>4. (\A i \in DOMAIN asked.answers : asked.answers[i].left # 0) => Len(memory) <= Len(postgres)
  BY <1>2, MemoryKeepsLess
<1> HIDE DEF a, b
<1>5. /\ LongestWithin(memory, a, asked.maxEntries, asked.maxBytes)
      /\ LongestWithin(postgres, b, asked.maxEntries, asked.maxBytes)
  BY <1>2, <1>3, KeepsLongest
<1>6. decided'.memory = memory /\ decided'.postgres = postgres
  BY <1>1
<1> HIDE DEF memory, postgres
<1> QED
  BY <1>1, <1>4, <1>5, <1>6 DEF EvictInv, EvictionsAgree, a, b

\* What is decided in two places comes out the same. The route (router.ts:
\* resolve, explain, unreachableRules): the explanation ends in the rule that
\* is chosen, a rule reported as a match would be, and one reported as
\* unreachable never is, for any rules and requests, but for a model that the
\* allowlist leaves out. Eviction (memory.ts and prompt-cache.ts: evict): the
\* loop in memory and the ranking in SQL each keep the most of the newest live
\* rows within both bounds, by their own sizes and clocks, and of the same
\* answers memory keeps none that PostgreSQL evicts while none is at the very
\* end of its time; for any answers and bounds.
THEOREM TwinsNeverDiffer == GatewaySpec => []TwinsAgree
<1> DEFINE Inv == RouteInv /\ EvictInv /\ (decided = Null => asked \in Questions \cup {Null})
<1>1. GatewayInit => Inv
  BY DEF GatewayInit, DecideInit, DecideOff, RouteInv, EvictInv
<1>2. Inv /\ [GatewayNext]_gatewayVars => Inv'
  <2> SUFFICES ASSUME Inv, [GatewayNext]_gatewayVars PROVE Inv'
    OBVIOUS
  <2>1. CASE UNCHANGED decideVars
    BY <2>1 DEF decideVars, RouteInv, EvictInv, RoutingExplained, EvictionsAgree, Answered
  <2>2. CASE DecideNext
    <3>1. asked \in Questions /\ asked' = asked /\ decided = Null
      BY <2>2 DEF DecideNext, Route, Authenticate, Identify, Budget, Evict, Asked, Answer
    <3>2. RouteInv'
      <4>1. CASE Route
        BY <3>1, <4>1, RouteKeeps
      <4>2. CASE asked.kind # "route"
        BY <3>1, <4>2 DEF RouteInv, RoutingExplained, Answered
      <4> QED
        BY <2>2, <4>1, <4>2 DEF DecideNext, Authenticate, Identify, Budget, Evict, Asked
    <3>3. EvictInv'
      <4>1. CASE Evict
        BY <3>1, <4>1, EvictKeeps
      <4>2. CASE asked.kind # "evict"
        BY <3>1, <4>2 DEF EvictInv, EvictionsAgree, Answered
      <4> QED
        BY <2>2, <4>1, <4>2 DEF DecideNext, Route, Authenticate, Identify, Budget, Asked
    <3>4. decided' = Null => asked' \in Questions
      BY <3>1
    <3> QED
      BY <3>2, <3>3, <3>4
  <2> QED
    BY <2>1, <2>2 DEF GatewayNext, gatewayVars
<1>3. Inv => TwinsAgree
  BY DEF RouteInv, EvictInv, TwinsAgree, RoutingExplained, EvictionsAgree, Answered
<1> QED
  BY <1>1, <1>2, <1>3, PTL DEF GatewaySpec

=============================================================================
