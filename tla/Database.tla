------------------------------ MODULE Database ------------------------------
(***************************************************************************)
(* The schema and the request log of the database:                         *)
(*   packages/postgres/src/migrations, backend.ts and request-log-store.ts *)
(*   packages/admin/src/routes/logs.ts, packages/node/src/migrate.ts       *)
(*                                                                         *)
(* Migrations: an action is one statement of a transaction, of which the   *)
(* others see nothing before it commits.  Two scenes: replicas of several  *)
(* builds that migrate, and a reader of the log beside writers and sweeps. *)
(***************************************************************************)
EXTENDS Absence, Integers, Sequences, SequencesExt, FiniteSets, FiniteSetsExt

CONSTANTS Replicas,            \* servers, and the migrate command
          Builds,              \* LATEST_VERSION of each
          MaxRows, LastTick,   \* bounds: log rows, the clock
          Retention, ContentRetention, PageLimit

ASSUME RetentionAssumption == /\ Retention \in Nat /\ ContentRetention \in Nat
                              /\ PageLimit \in Nat \ {0}

ASSUME ReplicaAssumption == Null \notin Replicas /\ \A r \in Replicas : Builds[r] \in Nat

ASSUME LogAssumption == MaxRows \in Nat /\ LastTick \in Nat /\ Null \notin Nat

VARIABLES
  schema,   \* committed: versions whose SQL ran, versions in the ledger; holder of the lock
  boots,    \* the replicas' transactions
  logs,     \* omni_request_logs and its contents: a set of [id, ts, content]
  clock,
  next,     \* the next row's id
  sweep,    \* the sweeper: which replica holds the lock, how far it is
  reader    \* a walk through the pages

dbVars == <<schema, boots, logs, clock, next, sweep, reader>>

Down == [step |-> "down", pending |-> {}, done |-> <<>>]
NoWalk == [step |-> "idle", before |-> Null, seen |-> <<>>, there |-> {}, lasts |-> {}]

NoSchema == schema = [tables |-> <<>>, ledger |-> <<>>, lock |-> Null]
NoLogs == logs = {} /\ sweep = [by |-> Null, step |-> "idle"] /\ reader = NoWalk

MigrateInit == /\ NoSchema /\ boots = [r \in Replicas |-> Down]
               /\ NoLogs /\ next = 1 /\ clock = LastTick

LogsInit == /\ NoSchema /\ boots = [r \in Replicas |-> [Down EXCEPT !.step = "off"]]
            /\ NoLogs /\ next = 1 /\ clock = 0

DatabaseInit == MigrateInit \/ LogsInit

DatabaseOff == /\ NoSchema /\ boots = [r \in Replicas |-> [Down EXCEPT !.step = "off"]]
               /\ NoLogs /\ next = MaxRows + 1 /\ clock = LastTick

-----------------------------------------------------------------------------
(* Migrations *)

logVars == <<logs, clock, next, sweep, reader>>

Boots(r, step) == boots[r].step = step

Boot(r) == /\ Boots(r, "down")
           /\ boots' = [boots EXCEPT ![r].step = "begun"]
           /\ UNCHANGED schema /\ UNCHANGED logVars

(* Mutant: the lock is tried, and its answer ignored. *)
LockTried(r) == TRUE

LockFree(r) == schema.lock = Null

(* The lock lasts as long as the transaction. *)
Lock(r) == /\ Boots(r, "begun") /\ LockFree(r)
           /\ schema' = [schema EXCEPT !.lock = r]
           /\ boots' = [boots EXCEPT ![r].step = "locked"]
           /\ UNCHANGED logVars

(* Versions this build has and the ledger does not.                        *)
ReadLedger(r) ==
  /\ Boots(r, "locked")
  /\ boots' = [boots EXCEPT ![r] = [step |-> "applying", done |-> <<>>,
                    pending |-> {v \in 1 .. Builds[r] : v \notin ToSet(schema.ledger)}]]
  /\ UNCHANGED schema /\ UNCHANGED logVars

(* The oldest migration, then its row, both inside the transaction.        *)
Apply(r) ==
  /\ Boots(r, "applying")
  /\ \E v \in boots[r].pending :
       /\ \A w \in boots[r].pending : v <= w
       /\ boots' = [boots EXCEPT ![r].pending = @ \ {v}, ![r].done = Append(@, v)]
  /\ UNCHANGED schema /\ UNCHANGED logVars

Ends(r, step, done) ==
  /\ schema' = [tables |-> schema.tables \o done, ledger |-> schema.ledger \o done,
                lock |-> IF schema.lock = r THEN Null ELSE schema.lock]
  /\ boots' = [boots EXCEPT ![r] = [Down EXCEPT !.step = step]]
  /\ UNCHANGED logVars

Commit(r) == /\ Boots(r, "applying") /\ boots[r].pending = {}
             /\ Ends(r, "up", boots[r].done)

(* A statement fails and is rolled back, or the connection drops.          *)
Abort(r) == boots[r].step \in {"begun", "locked", "applying"} /\ Ends(r, "down", <<>>)

Restart(r) == Boots(r, "up") /\ Ends(r, "down", <<>>)

-----------------------------------------------------------------------------
(* The request log *)

migrationVars == <<schema, boots>>

Tick == /\ clock < LastTick /\ clock' = clock + 1
        /\ UNCHANGED migrationVars /\ UNCHANGED <<logs, next, sweep, reader>>

(* A row carries the time its request came.  The contents are a second     *)
(* insert, which may fail when the first has not.                          *)
WriteRow ==
  /\ \A r \in Replicas : Boots(r, "off")
  /\ 1 <= clock /\ next <= MaxRows /\ next' = next + 1
  /\ \E ts \in 1 .. clock, content \in BOOLEAN :
       logs' = logs \cup {[id |-> next, ts |-> ts, content |-> content]}
  /\ UNCHANGED migrationVars /\ UNCHANGED <<clock, sweep, reader>>

(* Of all replicas' timers one gets the lock; the others return.           *)
SweepStarts(r) ==
  /\ sweep.by = Null /\ logs # {}
  /\ sweep' = [by |-> r, step |-> "contents"]
  /\ UNCHANGED migrationVars /\ UNCHANGED <<logs, clock, next, reader>>

OlderThan(row, age) == row.ts < clock - age

SweepContents ==
  /\ sweep.step = "contents"
  /\ logs' = {IF OlderThan(row, ContentRetention) THEN [row EXCEPT !.content = FALSE] ELSE row :
                row \in logs}
  /\ sweep' = [sweep EXCEPT !.step = "logs"]
  /\ UNCHANGED migrationVars /\ UNCHANGED <<clock, next, reader>>

SweepLogs ==
  /\ sweep.step = "logs"
  /\ logs' = {row \in logs : ~OlderThan(row, Retention)}
  /\ sweep' = [by |-> Null, step |-> "idle"]
  /\ UNCHANGED migrationVars /\ UNCHANGED <<clock, next, reader>>

(* Mutant: the cursor is inclusive. *)
NotAfter(row, before) == before = Null \/ row.ts <= before

Before(row, before) == before = Null \/ row.ts < before

(* Newest first; rows of one time in any order.                            *)
IsPage(page, before) ==
  LET eligible == {row \in logs : Before(row, before)}
  IN /\ ToSet(page) \subseteq eligible /\ IsInjective(page)
     /\ Len(page) = Min({PageLimit, Cardinality(eligible)})
     /\ \A i \in 1 .. Len(page) - 1 : page[i].ts >= page[i + 1].ts
     /\ page # <<>> => \A row \in eligible \ ToSet(page) : row.ts <= Last(page).ts

Pages(before) ==
  {page \in UNION {[1 .. n -> logs] : n \in 0 .. PageLimit} : IsPage(page, before)}

(* The next page starts before the oldest row of this one.                 *)
ReadPage ==
  /\ reader.step # "done" /\ (reader.step = "idle" => logs # {})
  /\ \E page \in Pages(reader.before) :
       reader' =
         [step   |-> IF page = <<>> THEN "done" ELSE "walking",
          before |-> IF page = <<>> THEN Null ELSE Last(page).ts,
          seen   |-> reader.seen \o [i \in DOMAIN page |-> page[i].id],
          lasts  |-> reader.lasts \cup (IF page = <<>> THEN {} ELSE {Last(page).ts}),
          there  |-> IF reader.step = "idle" THEN logs ELSE reader.there]
  /\ UNCHANGED migrationVars /\ UNCHANGED <<logs, clock, next, sweep>>

DatabaseNext ==
  \/ \E r \in Replicas : \/ Boot(r) \/ Lock(r) \/ ReadLedger(r) \/ Apply(r) \/ Commit(r)
                         \/ Abort(r) \/ Restart(r) \/ SweepStarts(r)
  \/ WriteRow \/ Tick \/ SweepContents \/ SweepLogs \/ ReadPage

-----------------------------------------------------------------------------
(* Properties *)

(* However many instances of however many builds boot, fail and die at     *)
(* once: each migration has run once, in order and without a gap, the      *)
(* ledger says so, and an instance that is up has its schema, be the       *)
(* database ahead of it or not.                                            *)
MigratedOnce ==
  /\ schema.tables = schema.ledger
  /\ \A i \in DOMAIN schema.ledger : schema.ledger[i] = i
  /\ \A r \in Replicas : Boots(r, "up") => Builds[r] <= Len(schema.ledger)

(* Following the cursor lists no row twice, while rows are written and     *)
(* swept, and misses none that was there from the first page to the last,  *)
(* except rows of exactly the time a page ended with (postgres/src/        *)
(* request-log-store.ts:113, admin/src/routes/logs.ts:62).                 *)
WalkSeesAll ==
  /\ IsInjective(reader.seen)
  /\ reader.step = "done" =>
       \A row \in reader.there :
         \/ row.id \in ToSet(reader.seen) \/ row.ts \in reader.lasts
         \/ row.id \notin {kept.id : kept \in logs}
=============================================================================
