------------------------------ MODULE Serving ------------------------------
(***************************************************************************)
(* The life of a /v1 request and the shutdown of the server around it:     *)
(*   server/app.ts, lifecycle.ts, logging.ts, writekey.ts, auth.ts,        *)
(*   pipeline.ts and server/routes of packages/core                        *)
(*   startServer() and shutdown() of packages/node/src/server.ts           *)
(*                                                                         *)
(* An action is what runs between two awaits.  The awaits of one verifier  *)
(* after the other are one (nothing else is read between them), and so are *)
(* those of one storage operation.  What is decided is in Decisions.tla,   *)
(* the shared counter in Admission.tla, the stream itself in Streams.tla.  *)
(***************************************************************************)
EXTENDS Decisions

CONSTANTS Requests, Kinds,  \* the requests, and what each may be
          Configs,          \* the configurations that may be activated
          MaxReloads        \* bound: reloads

ASSUME ServingAssumption ==
  /\ IsFiniteSet(Requests)
  /\ Null # "stream"

VARIABLES
  bundle,    \* the current bundle, Null while there is none; reloads so far
  req,       \* the requests
  inFlight,  \* the tracker's counter
  server,    \* the shutdown's progress; did the drain time out; are connections cut
  sink,      \* rows recorded, rows written
  cache      \* the answers that are stored: the keys of streams are others

serveVars == <<bundle, req, inFlight, server, sink, cache>>

Fresh(kind) == [kind |-> kind, phase |-> "new", counted |-> FALSE, logged |-> FALSE,
                slot |-> "none", answer |-> Null, lookup |-> Null, usage |-> "open"]

Shapes == {"completion", "stream"}

ServeInit ==
  /\ bundle \in [now : Configs \cup {Null}, reloads : {0}]
  /\ req \in {f \in [Requests -> {Fresh(k) : k \in UNION {Kinds[r] : r \in Requests}}] :
                \A r \in Requests : f[r].kind \in Kinds[r]}
  /\ inFlight = 0
  /\ server = [state |-> "up", timedOut |-> FALSE, cut |-> FALSE]
  /\ sink = [queue |-> {}, written |-> {}] /\ cache \in SUBSET Shapes

ServeOff ==
  /\ bundle = [now |-> Null, reloads |-> 0] /\ req = [r \in Requests |-> Fresh("models")]
  /\ inFlight = 0 /\ server = [state |-> "off", timedOut |-> FALSE, cut |-> FALSE]
  /\ sink = [queue |-> {}, written |-> {}] /\ cache = {}

-----------------------------------------------------------------------------
(* Responding *)

(* Mutant: only what did not throw is recorded. *)
RecordedIfServed(rec) == rec.logged /\ rec.answer \notin {"stream", "error"}

(* A stream's row waits for its usage; every other is recorded at once.    *)
RecordedNow(rec) == rec.logged /\ rec.answer # "stream"

(* Mutant: a stream is over when its handler returns. *)
SettledByHandler(rec) == TRUE

(* The tracker counts a stream until its body is finished. *)
SettledNow(rec) == rec.answer # "stream"

(* The tracker's count enters with the request's first step. *)
Entering(r) == IF req[r].counted THEN 0 ELSE 1

(* The handler returns: logging, then the tracker. *)
Respond(r, rec) ==
  /\ req' = [req EXCEPT ![r] =
       [rec EXCEPT !.phase = IF rec.answer = "stream" THEN "streaming" ELSE "responding",
                   !.counted = ~SettledNow(rec)]]
  /\ inFlight' = inFlight + Entering(r) - (IF SettledNow(rec) THEN 1 ELSE 0)
  /\ sink' = IF RecordedNow(rec) THEN [sink EXCEPT !.queue = @ \cup {r}] ELSE sink

Fail(r, rec) == Respond(r, [rec EXCEPT !.answer = "error"])

Wait(r, rec, phase) == /\ req' = [req EXCEPT ![r] = [rec EXCEPT !.phase = phase]]
                       /\ inFlight' = inFlight + Entering(r)
                       /\ UNCHANGED sink

Phase(r, phase) == req[r].phase = phase

-----------------------------------------------------------------------------
(* Middleware.  Each layer reads the bundle of its own moment.             *)

(* The handler's bundle serves the rest of the request. *)
Handle(r, rec) ==
  IF rec.kind = "models" THEN Respond(r, [rec EXCEPT !.answer = "list"])
  ELSE Wait(r, rec, "body")

AuthLayer(r, rec) == IF bundle.now.public THEN Handle(r, rec)
                     ELSE Wait(r, rec, "auth")

(* A key that is presented is always checked; one that is needed and       *)
(* absent refuses the request.                                             *)
KeyLayer(r, rec) ==
  IF bundle.now.public THEN AuthLayer(r, rec)
  ELSE \/ Wait(r, rec, "key")
       \/ IF bundle.now.needKey THEN Fail(r, rec) ELSE AuthLayer(r, rec)

(* After beginShutdown the tracker refuses. *)
Refuse(r) ==
  /\ Phase(r, "new") /\ server.state = "draining"
  /\ req' = [req EXCEPT ![r].phase = "responding", ![r].answer = "error"]
  /\ UNCHANGED <<bundle, inFlight, server, sink, cache>>

(* A draft is kept if the bundle of the arrival says so. *)
Arrive(r) ==
  /\ Phase(r, "new") /\ server.state = "up"
  /\ LET rec == [req[r] EXCEPT !.counted = TRUE,
                               !.logged = bundle.now # Null /\ bundle.now.logs]
     IN IF bundle.now = Null THEN Fail(r, rec) ELSE KeyLayer(r, rec)
  /\ UNCHANGED <<bundle, server, cache>>

(* The store knows an active key, or the request is refused. *)
KeyAnswers(r) ==
  /\ Phase(r, "key")
  /\ AuthLayer(r, req[r]) \/ Fail(r, req[r])
  /\ UNCHANGED <<bundle, server, cache>>

VerifierResults == {"null", "ok", "refused", "unavailable"}

AuthAnswers(r) ==
  /\ Phase(r, "auth")
  /\ \E user \in VerifierResults, app \in VerifierResults, mode \in {"all", "any"} :
       IF authenticate(user, mode, <<app>>).ok THEN Handle(r, req[r]) ELSE Fail(r, req[r])
  /\ UNCHANGED <<bundle, server, cache>>

-----------------------------------------------------------------------------
(* The chat and embeddings handlers.  Whatever goes wrong after a slot was *)
(* taken gives it back before the response.                                *)

Release(r, rec) == Wait(r, rec, "releasing")

(* A stream's slot is given back later, when its usage settles. *)
Deliver(r, rec) == IF rec.answer = "stream" THEN Respond(r, rec) ELSE Release(r, rec)

Wanted(r) == IF req[r].kind = "stream" THEN "stream" ELSE "completion"

(* Too large, malformed, without a model, or with one the key may not use. *)
BodyArrives(r) ==
  /\ Phase(r, "body")
  /\ Wait(r, req[r], "slot") \/ Fail(r, req[r])
  /\ UNCHANGED <<bundle, server, cache>>

SlotAnswers(r) ==
  /\ Phase(r, "slot")
  /\ Wait(r, [req[r] EXCEPT !.slot = "held"], "budget") \/ Fail(r, req[r])
  /\ UNCHANGED <<bundle, server, cache>>

(* A budget is exhausted, no rule routes the request, or on to the cache.  *)
BudgetAnswers(r) ==
  /\ Phase(r, "budget")
  /\ \/ Release(r, [req[r] EXCEPT !.answer = "error"])
     \/ Wait(r, req[r], "lookup")
     \/ Wait(r, req[r], "calling")
  /\ UNCHANGED <<bundle, server, cache>>

(* A hit is replayed the way it was asked for, a stream as a stream; a     *)
(* lookup that fails is none.                                              *)
LookupAnswers(r) ==
  /\ Phase(r, "lookup")
  /\ \/ /\ Wanted(r) \in cache
        /\ Deliver(r, [req[r] EXCEPT !.answer = Wanted(r), !.lookup = "hit"])
     \/ \E found \in {"miss", Null} : Wait(r, [req[r] EXCEPT !.lookup = found], "calling")
  /\ UNCHANGED <<bundle, server, cache>>

Answers(r) ==
  \E answer \in {Wanted(r), "error"} : Deliver(r, [req[r] EXCEPT !.answer = answer])

(* An error result, or a throw, goes to the fallback if there is one. *)
CallAnswers(r) ==
  /\ Phase(r, "calling")
  /\ Answers(r) \/ Wait(r, req[r], "fallback")
  /\ UNCHANGED <<bundle, server, cache>>

FallbackAnswers(r) ==
  /\ Phase(r, "fallback") /\ Answers(r)
  /\ UNCHANGED <<bundle, server, cache>>

(* What the response boundary leaves to waitUntil: charging for an answer  *)
(* that was not replayed, and storing one that was looked up in vain.      *)
UsageDue(rec) == IF rec.answer \in Shapes /\ rec.lookup # "hit" THEN "due" ELSE "none"

Storing(rec) == IF rec.lookup = "miss" THEN {rec.answer} \cap Shapes ELSE {}

Released(r) ==
  /\ Phase(r, "releasing")
  /\ Respond(r, [req[r] EXCEPT !.slot = "given", !.usage = UsageDue(req[r])])
  /\ cache' \in {cache, cache \cup Storing(req[r])}
  /\ UNCHANGED <<bundle, server>>

(* A charge is one more storage operation, waited for by nobody. *)
Charge(r) ==
  /\ req[r].usage = "due" /\ req[r].slot = "given"
  /\ req' = [req EXCEPT ![r].usage = IF server.state = "closed" THEN "lost" ELSE "charged"]
  /\ UNCHANGED <<bundle, inFlight, server, sink, cache>>

-----------------------------------------------------------------------------
(* Streams *)

Streams == {r \in Requests : req[r].answer = "stream"}

(* The usage promise settles, of a replayed stream at once: the row is     *)
(* recorded, the slot is given back, an answer captured whole is stored.   *)
UsageSettles(r) ==
  /\ r \in Streams /\ req[r].usage = "open"
  /\ req' = [req EXCEPT ![r].usage = UsageDue(req[r]), ![r].slot = "given"]
  /\ sink' = IF req[r].logged THEN [sink EXCEPT !.queue = @ \cup {r}] ELSE sink
  /\ cache' \in {cache, cache \cup Storing(req[r])}
  /\ UNCHANGED <<bundle, inFlight, server>>

BodyOver(r, phase) ==
  /\ req' = [req EXCEPT ![r].phase = phase, ![r].counted = FALSE]
  /\ inFlight' = IF req[r].counted THEN inFlight - 1 ELSE inFlight
  /\ UNCHANGED <<bundle, server, sink, cache>>

(* A stream ends after its usage; a client may leave before.               *)
BodyEnds(r)     == Phase(r, "streaming") /\ req[r].usage # "open" /\ BodyOver(r, "done")
ClientLeaves(r) == Phase(r, "streaming") /\ BodyOver(r, "left")

(* Of any other response nothing is awaited but that the client takes it. *)
Taken(r) == /\ Phase(r, "responding")
            /\ req' = [req EXCEPT ![r].phase = "done"]
            /\ UNCHANGED <<bundle, inFlight, server, sink, cache>>

-----------------------------------------------------------------------------
(* The server *)

Reload == /\ server.state # "off" /\ bundle.reloads < MaxReloads
          /\ \E c \in Configs \ {bundle.now} :
               bundle' = [now |-> c, reloads |-> bundle.reloads + 1]
          /\ UNCHANGED <<req, inFlight, server, sink, cache>>

(* Entries expire, are evicted or purged. *)
CacheForgets == /\ \E answer \in cache : cache' = cache \ {answer}
                /\ UNCHANGED <<bundle, req, inFlight, server, sink>>

Becomes(rec) == server' = rec /\ UNCHANGED <<bundle, req, inFlight, sink, cache>>

BeginShutdown == /\ server.state = "up" /\ Becomes([server EXCEPT !.state = "draining"])

Drained == /\ server.state = "draining" /\ inFlight = 0
           /\ Becomes([server EXCEPT !.state = "closing"])

(* Mutant: nothing is cut. *)
DrainTimeoutUncut ==
  /\ server.state = "draining" /\ inFlight > 0
  /\ Becomes([state |-> "closing", timedOut |-> TRUE, cut |-> FALSE])

(* Past the timeout what remains is cut. *)
DrainTimeout == /\ server.state = "draining" /\ inFlight > 0
                /\ Becomes([state |-> "closing", timedOut |-> TRUE, cut |-> TRUE])

(* server.close() calls back when every connection has ended. *)
ConnectionsEnd ==
  /\ server.state = "closing"
  /\ server.cut \/ \A r \in Requests : req[r].phase \in {"new", "left", "done"}
  /\ Becomes([server EXCEPT !.state = "flushing"])

(* Then the buffered rows are written, or lost, and the pool closes. *)
Flush ==
  /\ server.state = "flushing"
  /\ server' = [server EXCEPT !.state = "closed"]
  /\ sink' = [queue |-> {}, written |-> sink.queue]
  /\ UNCHANGED <<bundle, req, inFlight, cache>>

RequestStep(r) ==
  \/ Refuse(r) \/ Arrive(r) \/ KeyAnswers(r) \/ AuthAnswers(r) \/ BodyArrives(r)
  \/ SlotAnswers(r) \/ BudgetAnswers(r) \/ LookupAnswers(r) \/ CallAnswers(r)
  \/ FallbackAnswers(r) \/ Released(r) \/ Charge(r) \/ UsageSettles(r) \/ BodyEnds(r)
  \/ ClientLeaves(r) \/ Taken(r)

ServeNext == \/ \E r \in Requests : RequestStep(r)
             \/ Reload \/ CacheForgets
             \/ BeginShutdown \/ Drained \/ DrainTimeout \/ ConnectionsEnd \/ Flush

(* The server's own callbacks run; upstreams and clients owe nothing. *)
ServeFairness ==
  /\ WF_serveVars(Drained) /\ WF_serveVars(DrainTimeout)
  /\ WF_serveVars(ConnectionsEnd) /\ WF_serveVars(Flush)

ClientsRead == \A r \in Requests : WF_serveVars(Taken(r))

-----------------------------------------------------------------------------
(* Properties *)

Handling == {"key", "auth", "body", "slot", "budget", "lookup", "calling", "fallback", "releasing"}

(* The drain means what it says: the counter counts the requests that a    *)
(* handler works on and the streams whose body is not finished, and once   *)
(* the drain has ended without its timeout there are none of them, nor can *)
(* any come while connections are still accepted.                          *)
DrainedMeansDone ==
  LET working == {r \in Requests : req[r].phase \in Handling \cup {"streaming"}}
  IN /\ inFlight = Cardinality(working)
     /\ server.state \in {"closing", "flushing", "closed"} /\ ~server.timedOut => working = {}

(* A redeploy loses no row of a request it waited for: after a clean drain *)
(* the flush finds the row of every logged request that was answered, of   *)
(* streams too if they ended.  (Of one its client left, the row may come   *)
(* after the flush.)                                                       *)
RowsFlushed ==
  server.state = "closed" /\ ~server.timedOut =>
    \A r \in Requests : req[r].logged /\ Phase(r, "done") => r \in sink.written

(* close() ends, whatever handlers, upstreams and streaming clients do, as *)
(* long as clients take the other responses.                               *)
CloseReturns == server.state = "draining" ~> server.state = "closed"
=============================================================================
