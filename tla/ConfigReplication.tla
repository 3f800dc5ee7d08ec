------------------------- MODULE ConfigReplication -------------------------
(***************************************************************************)
(* How a configuration revision is stored and reaches every replica:       *)
(*   PostgresConfigStore  packages/postgres/src/config-store.ts            *)
(*   startup and watcher  packages/node/src/server.ts                      *)
(*   createBundleHolder   packages/core/src/runtime/holder.ts              *)
(*   saves and patches    packages/admin/src/routes/config.ts              *)
(*                                                                         *)
(* A session is whoever runs a save() transaction: an admin request, or a  *)
(* replica that seeds an empty store when it boots.  The transactions run  *)
(* at READ COMMITTED, the default of the pool; what the database does      *)
(* with them (row locks, the partial unique index over is_active, the      *)
(* sequence behind the ids, NOTIFY at commit) is modelled from schema.ts   *)
(* and the migrations.  Documents are sets of edits: {s} is a document     *)
(* that session s wrote from scratch, and a patch adds its own edit to     *)
(* the document it read.                                                   *)
(***************************************************************************)
EXTENDS Integers, Sequences, FiniteSets

CONSTANTS Replicas,
          Seeders,   \* replicas with an environment configuration to seed
          Puts,      \* admin requests that replace the whole document
          Patches,   \* admin requests that read, merge and save
          MaxRev,    \* bound: ids the sequence hands out in a behaviour
          MaxFaults, \* bound: failures (of connections, reads, processes)
          Feed       \* can a replica LISTEN, or does it only poll?

Requests == Puts \cup Patches
Sessions == Requests \cup Replicas
Revs     == 1 .. MaxRev

ASSUME ReplicationAssumption ==
  /\ Seeders \subseteq Replicas
  /\ Puts \cap Patches = {} /\ Requests \cap Replicas = {}
  /\ MaxRev \in Nat /\ MaxFaults \in Nat /\ Feed \in BOOLEAN

VARIABLES
  (* the database *)
  docs,      \* committed revision |-> its document
  active,    \* committed revisions whose is_active is true
  nextId,    \* the id the sequence hands out next
  (* each replica *)
  life,      \* "down", "booting" (start-up reload), "seeding" or "up"
  lastSeen,  \* PostgresConfigStore.lastSeen
  served,    \* revision of the bundle in the holder; 0 if it has none
  tasks,     \* reloads in flight: the revision and the await it stands at
  listening, \* does it hold a LISTENing connection?
  notes,     \* notifications not delivered yet on that connection
  (* each session *)
  at, host,  \* where it stands; the replica that runs it
  snap,      \* the active rows its UPDATE statement found
  off,       \* the rows it has deactivated and not committed
  id, doc,   \* the id it was given; the document it stores
  (* bookkeeping *)
  faults,    \* failures so far
  tried,     \* revisions a replica has begun to reload in this life
  marked,    \* revisions it marked as seen without reloading them
  mine       \* revisions its own sessions inserted

db       == <<docs, active, nextId>>
feed     == <<listening, notes>>
session  == <<at, host, snap, off, id, doc>>
history  == <<tried, marked, mine>>
vars     == <<db, life, lastSeen, served, tasks, feed, session, history, faults>>

Init ==
  /\ docs = [v \in {} |-> {}] /\ active = {} /\ nextId = 1
  /\ life = [r \in Replicas |-> "down"]
  /\ lastSeen  = [r \in Replicas |-> 0]
  /\ served    = [r \in Replicas |-> 0]
  /\ tasks     = [r \in Replicas |-> {}]
  /\ listening = [r \in Replicas |-> FALSE]
  /\ notes     = [r \in Replicas |-> <<>>]
  /\ at   = [s \in Sessions |-> "idle"]
  /\ host \in {h \in [Sessions -> Replicas] : \A r \in Replicas : h[r] = r}
  /\ snap = [s \in Sessions |-> {}]
  /\ off  = [s \in Sessions |-> {}]
  /\ id   = [s \in Sessions |-> 0]
  /\ doc  = [s \in Sessions |-> {}]
  /\ tried  = [r \in Replicas |-> {}]
  /\ marked = [r \in Replicas |-> {}]
  /\ mine   = [r \in Replicas |-> {}]
  /\ faults = 0

Raise(a, b) == IF a >= b THEN a ELSE b

-----------------------------------------------------------------------------
(* Mutants: plausible slips in the definitions above and below. *)

IndexDropped(s)     == {}
SeenAtNextId(s)     == Raise(lastSeen[host[s]], id[s] + 1)

-----------------------------------------------------------------------------
(* Helpers *)

Unseen(r, vs) == {v \in vs : v > lastSeen[r]}

\* loadActive() on a replica: what it reads counts as having been seen.
SeenByRead(r) == IF active = {} THEN lastSeen[r]
                 ELSE Raise(lastSeen[r], CHOOSE v \in active : TRUE)

\* save(): the id is marked as seen inside the transaction, before COMMIT.
SeenAtInsert(s) == Raise(lastSeen[host[s]], id[s])

\* Sessions whose row is in the index, but not committed.
Uncommitted(s) == at[s] = "commit"

\* The active row that stands in the way of the one s inserts.
Conflicts(s) == active \ off[s]

\* The rows s wants to deactivate; another transaction holds one of them.
Targets(s)   == IF at[s] = "update" THEN snap[s] ELSE active
RowLocked(s) == \E t \in Sessions \ {s} : off[t] \cap Targets(s) # {}

\* s waits for a transaction whose outcome decides the uniqueness check.
IndexBusy(s) == \E t \in Sessions \ {s} :
                  Uncommitted(t) \/ off[t] \cap Conflicts(s) # {}

\* A session at work: its transaction is open or its COMMIT not answered.
InTransaction(s) == at[s] \in {"begin", "update", "index", "commit"}
Saving(s)        == InTransaction(s) \/ at[s] = "committed"

GotReload(r, v, stage) == [tasks EXCEPT ![r] = @ \cup {[rev |-> v, stage |-> stage]}]

\* One of the bounded number of failures.
Fault == faults < MaxFaults /\ faults' = faults + 1

-----------------------------------------------------------------------------
(* What a replica's feed tells it *)

\* announce(v): only news is reported, and the listener of server.ts reloads
\* it unless it is being served already.
Announce(r, v) ==
  IF v <= lastSeen[r]
    THEN UNCHANGED <<lastSeen, tasks, tried>>
    ELSE /\ lastSeen' = [lastSeen EXCEPT ![r] = v]
         /\ tried' = [tried EXCEPT ![r] = @ \cup {v}]
         /\ tasks' = IF served[r] = v THEN tasks ELSE GotReload(r, v, "get")

\* A mutant of Polls: the feed is trusted while the connection holds.
PollsUnlessListening(r) ==
  /\ life[r] = "up" /\ ~listening[r]
  /\ \E v \in active : Announce(r, v)
  /\ UNCHANGED <<db, life, served, feed, session, marked, mine, faults>>

\* poll(): a query for the active revision, announced when it is answered.  A
\* late answer does what a late notification does.
Polls(r) ==
  /\ life[r] = "up"
  /\ \E v \in active : Announce(r, v)
  /\ UNCHANGED <<db, life, served, feed, session, marked, mine, faults>>

\* startListening(), from watch() and then from every poll without a listener.
Connects(r) ==
  /\ Feed /\ life[r] = "up" /\ ~listening[r]
  /\ listening' = [listening EXCEPT ![r] = TRUE]
  /\ UNCHANGED <<db, life, lastSeen, served, tasks, notes, session, history, faults>>

\* drop(): the connection errs or ends; what it had not delivered is lost.
Disconnects(r) ==
  /\ Fault
  /\ listening[r]
  /\ listening' = [listening EXCEPT ![r] = FALSE]
  /\ notes' = [notes EXCEPT ![r] = <<>>]
  /\ UNCHANGED <<db, life, lastSeen, served, tasks, session, history>>

Notified(r) ==
  /\ notes[r] # <<>>
  /\ notes' = [notes EXCEPT ![r] = Tail(@)]
  /\ Announce(r, Head(notes[r]))
  /\ UNCHANGED <<db, life, served, listening, session, marked, mine, faults>>

-----------------------------------------------------------------------------
(* Reloads: `await configStore.get`, `await resolveSecretRefs`, then the swap *)

Fetched(r, v) ==
  /\ [rev |-> v, stage |-> "get"] \in tasks[r]
  /\ v \in DOMAIN docs
  /\ tasks' = [tasks EXCEPT ![r] = (@ \ {[rev |-> v, stage |-> "get"]})
                                     \cup {[rev |-> v, stage |-> "resolve"]}]
  /\ UNCHANGED <<db, life, lastSeen, served, feed, session, history, faults>>

\* The holder swaps in whatever build finishes, whatever it serves by then.
Applied(r, v) ==
  /\ [rev |-> v, stage |-> "resolve"] \in tasks[r]
  /\ tasks' = [tasks EXCEPT ![r] = @ \ {[rev |-> v, stage |-> "resolve"]}]
  /\ served' = [served EXCEPT ![r] = v]
  /\ UNCHANGED <<db, life, lastSeen, feed, session, history, faults>>

\* A read or a secret's resolution fails: the reload is logged and forgotten.
ReloadFails(r, t) ==
  /\ Fault
  /\ t \in tasks[r]
  /\ tasks' = [tasks EXCEPT ![r] = @ \ {t}]
  /\ UNCHANGED <<db, life, lastSeen, served, feed, session, history>>

-----------------------------------------------------------------------------
(* A replica's life *)

\* applyInitialConfig on a store that holds a revision.
BootsFromStore(r) ==
  /\ life[r] = "down" /\ active # {}
  /\ life' = [life EXCEPT ![r] = "booting"]
  /\ lastSeen' = [lastSeen EXCEPT ![r] = SeenByRead(r)]
  /\ \E v \in active : /\ tasks' = GotReload(r, v, "resolve")
                        /\ tried' = [tried EXCEPT ![r] = @ \cup {v}]
  /\ UNCHANGED <<db, served, feed, session, marked, mine, faults>>

\* applyInitialConfig on an empty store: a usable bootstrap document is saved.
BootsBySeeding(r) ==
  /\ life[r] = "down" /\ active = {} /\ r \in Seeders
  /\ life' = [life EXCEPT ![r] = "seeding"]
  /\ at' = [at EXCEPT ![r] = "begin"]
  /\ UNCHANGED <<db, lastSeen, served, tasks, feed, host, snap, off, id, doc, history, faults>>

\* ... and without one the replica listens unconfigured.
StaysUnconfigured(r) ==
  /\ life[r] = "down" /\ active = {}
  /\ life' = [life EXCEPT ![r] = "up"]
  /\ UNCHANGED <<db, lastSeen, served, tasks, feed, session, history>>

BootsUnconfigured(r) == r \notin Seeders /\ StaysUnconfigured(r) /\ UNCHANGED faults

\* A bootstrap document whose secrets do not resolve is not seeded either.
SeedRejected(r) == Fault /\ r \in Seeders /\ StaysUnconfigured(r)

\* The start-up reload has ended, well or badly: watch() and listen.
Booted(r) ==
  /\ life[r] = "booting" /\ tasks[r] = {}
  /\ life' = [life EXCEPT ![r] = "up"]
  /\ UNCHANGED <<db, lastSeen, served, tasks, feed, session, history, faults>>

\* The process ends.  Open transactions roll back; a COMMIT the database has
\* executed stands.
Hosted(r) == {s \in Sessions : host[s] = r /\ Saving(s)}
Over(s)   == IF s \in Replicas THEN "idle" ELSE "failed"

Exits(r) ==
  /\ life'      = [life EXCEPT ![r] = "down"]
  /\ lastSeen'  = [lastSeen EXCEPT ![r] = 0]
  /\ served'    = [served EXCEPT ![r] = 0]
  /\ tasks'     = [tasks EXCEPT ![r] = {}]
  /\ listening' = [listening EXCEPT ![r] = FALSE]
  /\ notes'     = [notes EXCEPT ![r] = <<>>]
  /\ tried'  = [tried EXCEPT ![r] = {}]
  /\ marked' = [marked EXCEPT ![r] = {}]
  /\ mine'   = [mine EXCEPT ![r] = {}]
  /\ at'   = [s \in Sessions |-> IF s \in Hosted(r) THEN Over(s) ELSE at[s]]
  /\ snap' = [s \in Sessions |-> IF s \in Hosted(r) THEN {} ELSE snap[s]]
  /\ off'  = [s \in Sessions |-> IF s \in Hosted(r) THEN {} ELSE off[s]]
  /\ id'   = [s \in Sessions |-> IF s \in Hosted(r) THEN 0 ELSE id[s]]
  /\ doc'  = [s \in Sessions |-> IF s \in Hosted(r) THEN {} ELSE doc[s]]
  /\ UNCHANGED <<db, host>>

Crashes(r) == Fault /\ life[r] # "down" /\ Exits(r)

-----------------------------------------------------------------------------
(* The admin API *)

\* GET /config (and every other loadActive() on a running replica): lastSeen
\* moves, nothing is reloaded.
AdminReads(r) ==
  /\ life[r] = "up"
  /\ lastSeen' = [lastSeen EXCEPT ![r] = SeenByRead(r)]
  /\ marked' = [marked EXCEPT ![r] = @ \cup Unseen(r, active)]
  /\ UNCHANGED <<db, life, served, tasks, feed, session, tried, mine, faults>>

\* PUT /config: the body is the document.
PutArrives(s) ==
  /\ s \in Puts /\ at[s] = "idle" /\ life[host[s]] = "up"
  /\ at' = [at EXCEPT ![s] = "begin"]
  /\ doc' = [doc EXCEPT ![s] = {s}]
  /\ UNCHANGED <<db, life, lastSeen, served, tasks, feed, host, snap, off, id, history, faults>>

\* PATCH /config and its kin: storedDocument() is read and merged into.
PatchReads(s) ==
  /\ s \in Patches /\ at[s] = "idle" /\ life[host[s]] = "up"
  /\ at' = [at EXCEPT ![s] = "begin"]
  /\ doc' = [doc EXCEPT ![s] = (UNION {docs[v] : v \in active}) \cup {s}]
  /\ lastSeen' = [lastSeen EXCEPT ![host[s]] = SeenByRead(host[s])]
  /\ marked' = [marked EXCEPT ![host[s]] = @ \cup Unseen(host[s], active)]
  /\ UNCHANGED <<db, life, served, tasks, feed, host, snap, off, id, tried, mine, faults>>

-----------------------------------------------------------------------------
(* save(): UPDATE the active row away, INSERT the new one, COMMIT *)

\* The UPDATE finds its row locked by another save() and waits ...
SaveWaits(s) ==
  /\ at[s] = "begin" /\ RowLocked(s)
  /\ at' = [at EXCEPT ![s] = "update"]
  /\ snap' = [snap EXCEPT ![s] = active]
  /\ UNCHANGED <<db, life, lastSeen, served, tasks, feed, host, off, id, doc, history, faults>>

\* ... and skips the row if it is no longer active then.  The INSERT, next,
\* draws its id from the sequence ...
SaveUpdates(s) ==
  /\ at[s] \in {"begin", "update"} /\ ~RowLocked(s) /\ nextId <= MaxRev
  /\ at' = [at EXCEPT ![s] = "index"]
  /\ off' = [off EXCEPT ![s] = Targets(s) \cap active]
  /\ snap' = [snap EXCEPT ![s] = {}]
  /\ id' = [id EXCEPT ![s] = nextId]
  /\ nextId' = nextId + 1
  /\ UNCHANGED <<docs, active, life, lastSeen, served, tasks, feed, host, doc, history, faults>>

\* ... and enters the partial unique index.
SaveInserts(s) ==
  /\ at[s] = "index" /\ ~IndexBusy(s) /\ Conflicts(s) = {}
  /\ at' = [at EXCEPT ![s] = "commit"]
  /\ lastSeen' = [lastSeen EXCEPT ![host[s]] = SeenAtInsert(s)]
  /\ mine' = [mine EXCEPT ![host[s]] = @ \cup {id[s]}]
  /\ UNCHANGED <<db, life, served, tasks, feed, host, snap, off, id, doc, tried, marked, faults>>

SaveCommits(s) ==
  /\ at[s] = "commit"
  /\ at' = [at EXCEPT ![s] = "committed"]
  /\ docs' = [v \in DOMAIN docs \cup {id[s]} |-> IF v = id[s] THEN doc[s] ELSE docs[v]]
  /\ active' = (active \ off[s]) \cup {id[s]}
  /\ off' = [off EXCEPT ![s] = {}]
  /\ doc' = [doc EXCEPT ![s] = {}]
  /\ notes' = [r \in Replicas |-> IF listening[r] THEN Append(notes[r], id[s]) ELSE notes[r]]
  /\ UNCHANGED <<nextId, life, lastSeen, served, tasks, listening, host, snap, id, history, faults>>

\* save() resolves and its caller reloads what it stored.
SaveReturns(s) ==
  /\ at[s] = "committed"
  /\ at' = [at EXCEPT ![s] = IF s \in Replicas THEN "idle" ELSE "done"]
  /\ life' = IF s \in Replicas THEN [life EXCEPT ![s] = "booting"] ELSE life
  /\ tasks' = GotReload(host[s], id[s], "resolve")
  /\ tried' = [tried EXCEPT ![host[s]] = @ \cup {id[s]}]
  /\ UNCHANGED <<db, lastSeen, served, feed, host, snap, off, id, doc, marked, mine, faults>>

\* A save() that throws: the request fails, a booting replica exits.
Throws(s) ==
  IF s \in Replicas
    THEN Exits(s)
    ELSE /\ at'   = [at EXCEPT ![s] = "failed"]
         /\ snap' = [snap EXCEPT ![s] = {}]
         /\ off'  = [off EXCEPT ![s] = {}]
         /\ id'   = [id EXCEPT ![s] = 0]
         /\ doc'  = [doc EXCEPT ![s] = {}]
         /\ UNCHANGED <<db, life, lastSeen, served, tasks, feed, host, tried, mine>>

\* Another save won: the index refuses a second active row.
SaveConflicts(s) ==
  /\ at[s] = "index" /\ ~IndexBusy(s) /\ Conflicts(s) # {}
  /\ Throws(s) /\ UNCHANGED faults
  /\ s \in Requests => UNCHANGED marked

\* The connection fails: before the COMMIT it rolls back, after it the row
\* stands and only the answer is lost.
SaveFails(s) ==
  /\ Fault
  /\ Saving(s)
  /\ Throws(s)
  /\ s \in Requests =>
       marked' = [marked EXCEPT ![host[s]] = IF at[s] = "committed" THEN @ \cup {id[s]} ELSE @]

-----------------------------------------------------------------------------
ReplicaStep(r) ==
  \/ Booted(r) \/ Polls(r) \/ Notified(r)
  \/ \E v \in Revs : Fetched(r, v) \/ Applied(r, v)

SaveStep(s) ==
  \/ SaveWaits(s) \/ SaveUpdates(s) \/ SaveInserts(s) \/ SaveConflicts(s)
  \/ SaveCommits(s) \/ SaveReturns(s)

Next ==
  \/ \E r \in Replicas :
       \/ ReplicaStep(r) \/ Connects(r) \/ AdminReads(r)
       \/ BootsFromStore(r) \/ BootsBySeeding(r) \/ BootsUnconfigured(r)
       \/ Disconnects(r) \/ Crashes(r) \/ SeedRejected(r)
       \/ \E t \in tasks[r] : ReloadFails(r, t)
  \/ \E s \in Requests : PutArrives(s) \/ PatchReads(s)
  \/ \E s \in Sessions : SaveStep(s) \/ SaveFails(s)

Spec == Init /\ [][Next]_vars

\* Timers fire, and the database answers a query sooner or later: an interval
\* of polls is not lost altogether.  Nobody has to boot, save or LISTEN.
Fairness ==
  /\ \A r \in Replicas :
       /\ WF_vars(Booted(r)) /\ WF_vars(Polls(r))
       /\ \A v \in Revs : WF_vars(Fetched(r, v) \/ Applied(r, v))
  /\ \A s \in Sessions : WF_vars(SaveStep(s))

FairSpec == Spec /\ Fairness

-----------------------------------------------------------------------------
Lives  == {"down", "booting", "seeding", "up"}
Stages == {"idle", "begin", "update", "index", "commit", "committed",
           "done", "failed"}

TypeOK ==
  /\ DOMAIN docs \subseteq Revs /\ active \subseteq DOMAIN docs
  /\ \A v \in DOMAIN docs : docs[v] \subseteq Requests
  /\ nextId \in 1 .. MaxRev + 1
  /\ life \in [Replicas -> Lives]
  /\ lastSeen \in [Replicas -> 0 .. MaxRev]
  /\ served \in [Replicas -> 0 .. MaxRev]
  /\ tasks \in [Replicas -> SUBSET [rev : Revs, stage : {"get", "resolve"}]]
  /\ listening \in [Replicas -> BOOLEAN]
  /\ notes \in [Replicas -> Seq(Revs)]
  /\ at \in [Sessions -> Stages] /\ host \in [Sessions -> Replicas]
  /\ snap \in [Sessions -> SUBSET Revs] /\ off \in [Sessions -> SUBSET Revs]
  /\ id \in [Sessions -> 0 .. MaxRev] /\ doc \in [Sessions -> SUBSET Requests]
  /\ tried \in [Replicas -> SUBSET Revs] /\ marked \in [Replicas -> SUBSET Revs]
  /\ mine \in [Replicas -> SUBSET Revs] /\ faults \in 0 .. MaxFaults

\* "Which configuration is live cannot become ambiguous even if two admins
\* save at once": one active row, and none only before the first revision.
OneActive == IF DOMAIN docs = {} THEN active = {} ELSE Cardinality(active) = 1

\* Ids a replica's own saves have put into the index: about to be committed ...
Replacing(r) == {id[s] : s \in {t \in Sessions : host[t] = r /\ at[t] = "commit"}}

\* ... or burned by a rollback.
Burned(r) == mine[r] \ (DOMAIN docs \cup Replacing(r))

\* Revisions a replica's own doing keeps from its feed: read through the admin
\* API or saved with the answer lost; about to be replaced by its own save; or
\* older than an id that one of its saves burned.  The last is a flaw: lastSeen
\* stays at the burned id, so a revision below it that the replica had not heard
\* of, active elsewhere, is never announced to it (see BurnsHarmless).
Hidden(r, v) == v \in marked[r] \/ \E w \in Replacing(r) \cup Burned(r) : v < w

\* What lastSeen keeps from a replica is accounted for: an active revision not
\* above it is one the replica has begun to reload, is just saving, or has
\* hidden from itself in one of those ways, the burned id of a rolled-back save
\* among them.
NothingElseMasked ==
  \A r \in Replicas : \A v \in active :
    life[r] # "down" /\ v <= lastSeen[r] =>
      \/ v \in tried[r] \/ Hidden(r, v)
      \/ \E s \in Sessions : host[s] = r /\ id[s] = v /\ at[s] = "committed"

\* An instance never reloads through its feed what it saved itself ("work we
\* claim not to do", config-store.ts 125-129), not even when the notification
\* overtakes the answer to COMMIT.
NoEcho == \A r \in Replicas : \A v \in mine[r] :
            [rev |-> v, stage |-> "get"] \notin tasks[r]

\* lastSeen masks a replica's own saves from its feed, and besides them only
\* what the replica has hidden from itself (Hidden names the ways).
FeedExact == NothingElseMasked /\ NoEcho

\* The store implements an append-only log whose newest revision is live, and
\* replicas serve nothing but stored revisions.
Log == INSTANCE RevisionLog
         WITH Revisions <- Revs, Documents <- SUBSET Requests,
              history <- docs, serving <- served,
              live <- IF active = {} THEN 0 ELSE CHOOSE v \in active : TRUE
ImplementsLog == Log!LogSpec

\* Polling is the guarantee: whatever becomes of notifications and requests,
\* a running replica begins to reload the active revision, unless it has
\* hidden it from itself, by a burned id too.
FeedDelivers ==
  []<>(\A r \in Replicas, v \in active :
         life[r] = "up" => v \in tried[r] \/ Hidden(r, v))

\* Marking an id as seen before COMMIT is "safe even if the transaction then
\* rolls back" (config-store.ts 132-135): an id burned by a rollback keeps no
\* active revision from the replica.
BurnsHarmless ==
  \A r \in Replicas, v \in active :
    life[r] = "up" /\ v \notin tried[r] \cup marked[r] => \A w \in Burned(r) : w < v

\* "Implementations must converge even when their change feed drops"
\* (core configstore/types.ts): a running replica gets to serve the active
\* revision.
Converges ==
  []<>(\A r \in Replicas, v \in active : life[r] = "up" => served[r] = v)
=============================================================================
