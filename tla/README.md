# Verification of Omni Model

TLA+ specifications of the proxy in this repository: what its concurrent parts do,
what they promise, what TLC checks of that on small instances, and what TLAPS proves
for instances of any size. Every definition is translated from the source;
`PROJECT.json` maps each one to its lines.

## 1. The system

Omni Model is an OpenAI-compatible proxy. Several replicas of a Node server
(`packages/node`) run the same application (`packages/core`) against one PostgreSQL
database (`packages/postgres`) and offer an admin API (`packages/admin`) with a
dashboard. Replicas share nothing but the database: configuration revisions,
counters, write keys, secrets, logs and the response cache. Inside a replica
JavaScript runs one callback at a time, so its races are between awaits; between
replicas they are between SQL statements.

| component | state it keeps | operations | what is hard | what makes it correct |
|---|---|---|---|---|
| request log buffer (`core/src/logs/buffer.ts`) | queue, timer, chain of drains, counters | record, flush, close | timer, drains, writes and flushes interleave; overflow; failing writes | every entry accounted for, in order, none stranded, flush is a barrier |
| concurrency limiter (`core/src/ratelimit/concurrency.ts`) | one counter row per user, shared by the replicas | acquire, release | crashes, failed or half-failed updates, expiry of the row | at most `perUser` in flight, no leak, no unjustified refusal |
| token budgets (`core/src/ratelimit/limiter.ts`) | one counter row per rule, user and window | check, recordUsage | charged after the fact, by requests in flight | overshoot bounded by what is in flight |
| request pipeline (`core/src/server/pipeline.ts`, `routes/`) | the handler's position, the slot | the steps of one request | many exits, streams that outlive the handler | each exit gives the slot back once |
| storage adapters (`core/src/storage`, `postgres/src/storage.ts`) | key, value, expiry | increment, get, put | expiry against increments | one atomic step each |
| write keys (`core/src/writekeys`, `postgres/src/write-key-store.ts`) | rows; a cache on every replica | authenticate, create, revoke | lookups in flight against revocations | staleness bounded by the TTL; memory bounded |
| configuration store (`postgres/src/config-store.ts`) | revisions, the active row; per replica `lastSeen`, a LISTEN connection | save, loadActive, get, watch | concurrent saves, rollback, lost acknowledgements, lost notifications | one active revision, an append-only log, every replica converges |
| bundle holder (`core/src/runtime`) | the live bundle | validate, reload | reloads overlap and finish out of order | serves only stored revisions |
| node server (`node/src/server.ts`) | the lifetime of a replica | boot, seed, watch, shutdown | racing first boots, failures at start-up | an empty store is seeded once, a stored one is adopted |
| admin configuration API (`admin/src/routes/config.ts`) | none of its own | GET, PUT, PATCH, rules, rollback | read-modify-write without a version | edits are not lost |
| request tracker, logging, shutdown (`core/src/server/lifecycle.ts`, `logging.ts`, `node/src/server.ts`) | in-flight count, rows, the server's progress | count, record, drain, close, flush | bodies end, fail or are cancelled around the timeout; work nobody awaits | counted once, a clean drain loses no row, close returns |
| providers (`core/src/providers`) | the state of one translated stream | chat, embeddings, models, streams | three wire formats; events left out, repeated or late; hang-ups | nothing lost or invented, a stream adds up to the plain answer, usage settles |
| chunked readers (`core/src/util/sse.ts`, `logs/content.ts`, `server/app.ts`) | a carry, a buffer, a count | feed | cuts at any byte | the result does not depend on the cuts |
| prompt cache (`core/src/cache`, `postgres/src/prompt-cache.ts`) | answers with age and size | get, put, evict | two bounds, two implementations; captured streams | bounded, newest kept, complete answers only |
| routing and decisions (`core/src/routing`, `server/auth.ts`, `facts.ts`, `ratelimit`) | none | resolve, explain, authenticate, identify, check | one decision taken in two places; errors while deciding | the twins agree |
| verifiers (`core/src/auth`) | challenges, claims and counters of App Attest | verify, register, test | services that fail or lose an answer, replays, expiring rows | no replay passes, no outage is told as a refusal |
| secrets (`core/src/secrets`, `admin/src/routes/secrets.ts`) | sealed rows | save, put, rotate, delete, resolve | edits, rotations, restarts interleave; names follow paths | nothing typed is stored in the clear, a rotation is complete, a reference keeps its value |
| accounts (`admin/src/auth.ts`, `invites.ts`, `node/src/create-admin.ts`) | accounts, invitations | sign up, invite, accept, revoke | several statements without a transaction | one founder, an invitation is spent once |
| database (`postgres/src/migrations`, `request-log-store.ts`) | ledger, advisory locks, log rows | migrate, sweep, page | builds that start together, die, or are older; paging while rows come and go | each migration once, in order; no row skipped or repeated |
| environment (`core/src/config/env.ts`, `runtime/bundle.ts`) | none | merge, expand, build | five layers over one document | no variable is silently lost |
| schemas, CEL, CLI, dashboard, clients | none shared | validation, evaluation, I/O | little concurrency | covered by tests |

How they interact: a `/v1` request passes the write key cache, the verifiers, the
concurrency limiter, the budget check, the router, the response cache and a
provider; on its way out it releases the slot, records usage and hands a row to the
log buffer. A streamed answer outlives its handler: the tracker counts its body, the
settled usage gives the slot back, charges the budget and completes the row, and a
copy goes to the cache. The admin API writes the configuration store, secrets and
write keys; the store's feed (poll and NOTIFY) makes every replica reload its
bundle.

## 2. Modules

| module | models |
|---|---|
| `LogBuffer` | `BufferedRequestLogSink`, one action per callback |
| `LogBufferProofs` | its theorems |
| `Admission` | the in-flight counter and one budget, and the order in which the chat and embeddings handlers use them |
| `AdmissionProofs` | its theorems |
| `RevisionLog` | abstract: an append-only log whose newest revision is live, and replicas that adopt stored revisions |
| `ConfigReplication` | the configuration store, its feed, reloads, boots and saves; composes the store, the node server, the holder and the admin routes; implements `RevisionLog` |
| `ConfigReplicationProofs` | its theorems, the refinement of `RevisionLog` among them |
| `WriteKeyCache` | the cache of every replica in front of the write key table |
| `WriteKeyCacheProofs` | theorems about it |
| `Translation` | requests and answers of Anthropic and Gemini as operators: turns, tools, schemas, parameters, finish reasons |
| `Calls` | a provider call over them: chat, embeddings and model lists, with failing fetches and answers |
| `Streams` | one streamed answer from the upstream's events to the client, the cache, the usage and the log row |
| `Chunked` | the event-stream parser, the content capture and the body reader, chunk by chunk |
| `Providers` | composes those: a call, its stream, or a reader |
| `Decisions` | routing and its explanation, combined authentication, identity, budget rules, the two evictions |
| `Serving` | a `/v1` request from arrival to its last byte, reloads, the tracker, the shutdown and the final flush; uses `Decisions` |
| `Verifiers` | the checks of each verifier, and App Attest as a protocol |
| `Accounts` | sign-up, create-admin, invitations |
| `Database` | migrators; the log table, its sweeps and pages |
| `Environment` | from variables to a document to a bundle |
| `Secrets` | saves with sealing, imports, the secret routes, rotation, reload, restart |
| `ControlPlane`, `Gateway` | compose the last five, and those with `Serving` and `Decisions` |
| `ProvidersProofs` | theorems about `Chunked`, `Translation`, `Calls` and what a stream is charged, stored and logged, of `Providers` |
| `StreamProofs` | theorems about what the client of a stream gets, on top of those |
| `ServingProofs` | theorems about `Serving` and routing, of `Gateway` |
| `ControlPlaneProofs` | theorems about `Accounts`, `Verifiers`, `Database`, `Secrets` and `Environment`, of `Gateway` |
| `Absence` | declares `Null`, a value no other value equals |
| `MCProviders`, `MCGateway` | the instances of the two compositions |

Mutants, the slips that the properties must catch, stand before the definitions they
replace; no action uses them.

### LogBuffer
`queue`, `timer`, `closed`, `written`, `dropped` are the fields of the class. The
promise `draining` is `pending`, the number of chained drains that have not begun,
and `batch`, what the running one writes. A call of `flush()` or `close()` is a
process whose `pc` is the await it stands at and whose `wait` counts the drains that
must end first. `Resumable` blocks the next drain until such a call has run on,
since its continuation was registered first. A failing write may have stored its
rows (two inserts, no transaction), so `store'` is a choice. Entries are numbers in
order of acceptance; `record()` after `close()` is no step.

### Admission
`row`/`left` are the counter row and the ticks it still lives; an increment of a
live row keeps its expiry, of an expired one starts afresh, as in both storage
adapters. `slot[r] = "held"` is `released = false` in the closure of `acquire`. A
failed operation may have been applied; such a `+1` is `"lost"`. `Die` is the kill
of a replica. `counted` and `lapsed` are history: which requests the row counts, and
whether it ever expired under one in flight. The budget is one rule in one window,
since each rule has its own row and the same code. Costs are charged after the
release, as in the handlers.

### ConfigReplication
A session runs one `save()` as READ COMMITTED does: `SaveWaits` (the UPDATE waits
for a row lock), `SaveUpdates` (rows still active are deactivated, the sequence
hands out an id), `SaveInserts` or `SaveConflicts` (the partial unique index),
`SaveCommits` (NOTIFY is sent), `SaveReturns` (the caller reloads). A replica has
`lastSeen`, the bundle it serves, reloads in flight with the await each stands at,
and a connection with undelivered notifications. Documents are sets of edits: a PUT
stores its own, a patch adds its own to what it read. The database parts that are
not code of this repository (locks, index waits) are marked external. `tried`,
`marked` and `mine` are history: revisions a replica began to reload, marked as seen
by an admin read, or inserted itself.

The UPDATE and `nextval` are one step: nothing another session does between them can
be observed. Poll answers that arrive late do what late notifications do, so a poll
is one step. A document that fails validation changes no state. The rollback route
is a PUT whose document is an older one, so `Puts` stands for it.

### WriteKeyCache
`authenticate` is split at its await: the time is taken with the cache miss, the row
is read, then the answer is remembered. Which entry is the oldest does not matter to
any property, so a full cache may give up any. An answered request keeps what it was
told until its slot is used again. `since` (when a row last changed) and `belated`
are history. The second names the replica whose `create()` returned after its key
had been revoked elsewhere, and when: that warms the cache with a revoked key, and
only there the TTL counts from the entry (`LastNews`).

### Translation, Calls
A message is its role, its parts, its calls and the call it answers; a text is a
value without characters. `pushMerged`, `translateMessages`, the schema walk and the
parameters keep the order and conditions of the code. `Calls` has a step for each
await: translate, fetch, read. A parameter is absent, null or given, since the
translators differ in which of the first two they leave out; a message without
content, or null for the tools, makes the translation throw where the code reads it
(`TranslationThrows`). A schema is a graph of nodes with references, since what the
walk does with `$ref` is the point: siblings of a `$ref` win over what it points at,
and a child whose key is a rejected name is dropped, a property of that name
included.

### Streams
`up` is what the upstream has said. Anthropic may leave stops out, and strays come
at any point: another start of a block, arguments or a stop for one that is not
open. After a stray `protocol` is broken. A read of a passed-through stream has up
to `ReadTexts` texts, and the finish reason or `[DONE]` with them; `gen` is the
generator of `chunks()` (of OpenAI, the pump of `streamResult`), which reads one
event and yields blocks of chunks. `serve` and `red` are the two web streams in
which blocks wait for the next reader, so back pressure is in the model; `copy` is
the branch of `teeForCache`. Usage, row and stored answer settle in the step that
resolves the promise. `HangUp` aborts, `CancelBody` and `CancelSource` follow as
separate steps. `Replay` serves what was stored through the same redaction.

### Chunked
A text over `a`, `w` (two bytes), `:`, CR and LF is fed in pieces; at every moment
the parser's state must agree with a parse of what was fed, taken whole.

### Decisions, Serving
`Decisions` holds the functions that decide, asked all questions of a finite set;
routing is written twice because the code is (`resolve` and `explain`), and so is
the eviction (a loop, a window function). An answer in a cache has the size of its
entry as JSON and that of its body: `InMemory` weighs the first and lets it expire
at the end of its time, `InPostgres` weighs the second and lets it expire after.
Answers stored at the same time, whose order SQL leaves open, are not modelled. In
`Serving` a request stands at the await it waits for; each layer reads the bundle of
its own moment. `Respond` is the end of the handler: logging records, then the
tracker lets go, except of a stream. `cache` says which shapes of the answer are
stored: a completion is replayed as a body, a stream as a stream that is counted
until its body ends; its usage has settled by then, so the slot is given back at
once and nothing is charged. What `waitUntil` carries is a step of its own
(`Charge`, `UsageSettles`). `server` follows `shutdown()`; a killed connection needs
no step, since after `cut` nothing is waited for.

### Verifiers, Accounts, Database, Environment, Secrets
`Verify` gives one credential with its possible defects to one verifier and every
answer to its calls. App Attest is a process per call over the shared rows.
`Accounts` is a process per call, a step per statement; the account library is
external. `Database` has a transaction per booting replica, holding the lock until
it ends, and a log table that is written, swept in two statements and walked page by
page. `Environment` computes a document as a function from paths to leaves, so that
"an object merges, anything else replaces" is visible; the profile table is data, a
path is a sequence of names, and the blocks, profiles and settings are applied one
after the other (`AppliedAll`), each or none. A leaf that is set anew takes with it
what was below it, an array is replaced as a whole, and a block for a path that
holds an array is refused, the root of the document included. `Indices` bounds the
arrays: a verifier beyond the last index is an error that the code does not have.
`Secrets` has a step for each row read or written while a document is sealed;
`meant` is history: what was last typed for each credential.

These parts share no state, so `ControlPlane` and `Gateway` let a behaviour be one
of one part and park the others. `Providers` does the same for `Chunked`; a call and
its stream are one behaviour.

## 3. Runs

Each is a question; the number of states is that of two workers on a laptop.

| run | instance | shows |
|---|---|---|
| `log_buffer` | batches of 2, ceiling 3, 4 entries, one flush, one close; 620 000 states | the safety of the sink, `EveryEntrySettles`, `FlushTerminates` |
| `log_buffer_close` | one close | finding: an entry recorded after the last drain of `close()`, before `close()` goes on, is lost uncounted |
| `admission` | 2 requests, limit 1, TTL 2, failures and kills; 31 000 states | exactness, the bound, no leak, justified refusals, leaks heal |
| `concurrency_ttl` | 3 requests, limit 2, TTL 3, requests of at most 1 tick, no failures, no kills | finding: the row expires under short requests |
| `config_replication` | 2 replicas, one seeds, a PUT, a PATCH, 2 ids, 1 failure; 330 000 states | one live revision, refinement of `RevisionLog`, what `lastSeen` hides and nothing else, delivery of the rest by polling |
| `config_converges` | 2 replicas, one PUT, no failure | finding: a GET hides a revision for ever |
| `write_keys` | 2 replicas, room for 1 entry, a new and a junk key, TTL 2, 4 ticks; 640 000 states | staleness bound, revocation within the TTL of the last news of a key |
| `write_key_local` | one replica, 2 requests | finding: local revocation is not immediate |
| `providers` | see below; 1 110 000 states | translation loses nothing and is accepted; streams are well formed, agree with plain answers, charge truthfully, are stored whole; the row misses one block at most; a hang-up settles; cuts do not matter |
| `cached_incomplete` | the same | finding: a passed-through stream whose body just ends is stored as an answer |
| `gateway` | see below; 940 000 states | twins agree as far as they do; drain, rows and close; one founder; invitations and challenges spent once; genuine credentials; migrations; pages; variables; sealing; rotation |
| `reused_reference` | saves and renames, never two at once, one keyring, 4 revisions | finding: a moved reference gets another key's value |

What each property says is written above it in its module.

Bounds. `MaxEntries` 4 with batches of 2 and a ceiling of 3 lets the queue overflow
while a batch is written and a second one waits; `FlushDelivers` and
`BacklogCovered` are proved for all sizes. Two requests for one slot give every
order of take, refuse and release around an expiry; three are needed only for the
bound of 2. Two ids and two administrators give a wait, a conflict, a commit on each
side and a lost acknowledgement; `MaxFaults` 1 places a single failure of a
connection, a read, a seed or a process at any step. `Horizon` 4 is twice the TTL:
an entry can be written, live out its time and be replaced. `MaxHold` bounds the age
of requests, `MaxSpent` only cuts off budgets passed by failed reads.

Bounds of `providers`. Conversations of up to three of twelve messages (systems,
plain and linked users, unknown roles, empty and absent content, two calls of which
one is malformed, results of two calls): three are enough for two turns to merge and
a result to look past one. Schemas of seven nodes with references to each other, to
themselves and abroad, beside other keys, and with rejected keys. `MaxEvents` 6
events of Anthropic hold a text and a tool block, two tool blocks with a stop left
out, or a tool block with a stray behind it; 3 of Gemini and 5 of OpenAI
(`ReadTexts` 2: several chunks to a read) hold a text, two calls and an end.
`MaxCached` 5 blocks are outgrown by some streams and not by others. Texts of up to
5 characters hold CR LF at every place of a split and two events.

Bounds of `gateway`. Two requests, one a stream, three configurations and one
reload: a reload falls between any two reads, and the drain meets a stream, a
handler or both. Questions: up to two rules, three applications' verifiers, three
cached answers of two sizes each with -1, 0 or 1 left of their time. Arrays of up to
three elements: one is appended behind two. Three callers of App Attest and two
challenges: a registration and two overlapping assertions. Two e-mail addresses, one
invitation, three calls. Three instances of builds 1, 2 and 3: an upgrade, a race
and a database that is ahead. Three log rows and pages of two. Two credentials, two
secret rows, three keyrings (a key, a new one before it, the old one gone), and one
of none that gains a key; saves by two operators and a rotation. `MaxRevisions`
bounds saves (2; 4 for the finding), `MaxReloads` reloads, `LastTick` the clock of
the log.

Deadlock. The runs of `Admission` check it. The others say `CHECK_DEADLOCK FALSE`:
entries, ids, events, calls and clocks are bounded, so those systems come to rest.

Fairness. The log buffer: due timers and microtasks run, and a write settles (the
pool has timeouts); nobody has to record or flush. Admission: awaits of a handler
settle and time passes; nobody has to send a request. Replication: poll timers fire
and queries are answered in the end, open saves go on; nobody has to boot, save, or
LISTEN. Streams (`StreamFairness`): the generator's callbacks and the cancellation
run, and a fetch whose signal was aborted rejects; no upstream has to answer and no
client to read. Serving (`ServeFairness`, `ClientsRead`): the steps of `shutdown()`
and its timer run, and a client takes a response that is not a stream; nothing is
assumed of handlers, upstreams or clients of streams. All of it is weak: each such
step, once possible, stays possible until it is taken or made pointless by another.

## 4. What is proved

For every value of the constants that meets the named assumptions, and from nothing
else. The assumptions say that bounds are numbers, that sets which the code counts
are finite, that an absent value is not a present one, and of which shape the inputs
are (`RequestsAssumption`, `QuestionAssumption`, `ChunkedAssumption`,
`VerifierAssumption`: messages are sequences, JSON schemas are finite trees whose
references may be cyclic (`IsTree`), rules yield one of the verdicts, texts consist
of the characters, no service answers "duplicate" to the first use). TLC evaluates
each of them.

Most invariants of the runs are not inductive. What had to be added is the content
of the proofs. TLC checked the added invariants before they were proved, but for the
parts of `StreamInv` that speak of all chunks a stream has made, which no variable
holds.

`LogBufferProofs` (`SizesAssumption`): `TypeCorrect`; `BacklogTheorem`,
`BoundTheorem` and `AccountingTheorem` from one inductive conjunction (`Quantities`:
the accounting needs the lengths, the backlog needs that a full batch chains a
drain); `NotStrandedTheorem`; `OrderTheorem` (`InOrder` is inductive with the
types); `FlushTheorem`. The last needs the strengthening `FlushCovered`: an entry
recorded before a call stands at most `BatchSize - 2` plus the drains ahead of the
call from the front, although a drain chained behind others may find a single entry
only; `BacklogCovered` provides the bound when the call is made.

`AdmissionProofs` (`AdmissionAssumption`): `TypeCorrect`, then `IInv`, which adds to
`CounterExact` what the history does not say: a request that left its `+1` holds or
lost its slot, one that released has none, and a row that is gone counts nobody.
From it follow `CounterTheorem`, `BoundTheorem`, `NothingLeftTheorem` and the action
property `RefusalTheorem`.

`WriteKeyCacheProofs` (`CacheAssumption`): `TypeCorrect`; `CacheTheorem`, from
`Sized` (finite and bounded, since a bound on `Cardinality` alone is not inductive);
`StalenessTheorem` and `RevocationTheorem`, from `Truthful`: the staleness of what
is cached is inductive only with the same fact about the answers still on their way
(`AnswersFresh`), and with every lookup dated no later than the clock (`Timely`).
Both are relative to `LastNews`, as the properties are. `RevocationTheorem` assumes
a TTL above zero: with zero, an answer looked up in a tick may still let in a
request of that tick.

`ConfigReplicationProofs` (`ReplicationAssumption`): `TypeCorrect`; `OneIsActive`,
from `StoreInv`. That at most one row is active needs to know of transactions that
are open: each has its own id, a deactivated row is locked by one of them
(`RowsLocked`), only one is past the unique index and it has deactivated all that is
active (`CommitsAlone`), and one overtaken by a higher id is going to conflict
(`NewestLive`; this is why ids handed out in one order and committed in another do
no harm). `FeedIsExact` adds what a replica knows of its own sessions: `lastSeen` is
zero, a stored id, or one a session of this replica put into the index (`FeedInv`).
The third is how a burned id comes to hide a lower revision, which `Hidden` names
and the theorem does not exclude. `LogImplemented` is the refinement: with `history`
as the stored documents, every step of `ConfigReplication` is one of `RevisionLog`
or changes nothing that it sees; a commit is `Activate` because of `NewestLive`, and
a reload is `Adopt` because what it fetched is stored (`HeardIsStored`).

`ServingProofs` (`ServingAssumption`, `QuestionAssumption`): `DrainIsTrue` and
`NoRowLost` from `ServeInv`. The in-flight number is the cardinality of the set of
requests that are handled or streamed (`CountsWork`); a shutdown that is past the
drain without a timeout has none of them and lets none begin (`ShutdownInOrder`); a
logged request has its row from its response on, or from the settling of its usage
if it is a stream (`RowsKept`). `TwinsNeverDiffer` is the whole of `TwinsAgree`:
`RouteInv` reasons about the two walks over the rules through the least matching
one; `EvictInv` is about the two evictions, each with its own sizes and its own
expiry. Sizes are not negative, so running totals grow with the rows (`TotalsGrow`),
and both the query and the walk from the newest row keep the longest suffix that
fits (`NewestIsSuffix`, `EvictsNewest`, `KeepsLongest`). As an entry is never
smaller than its body (`TotalsLess`) and expires no later (`SeenBy`), memory keeps
no more than PostgreSQL (`MemoryKeepsLess`).

`ControlPlaneProofs`, on who is let in (`AccountAssumption`, `VerifierAssumption`):
`OneFounderEver`: a founder was alone when it was promoted, and accounts only grow
(`FounderAlone`). `InviteAcceptedOnce`: the one UPDATE that settles an invitation is
won by one call, and nothing leads back (`AcceptedStays`); who is told of success is
an operator, who did not find it pending changes nothing, and who is an operator by
invitation found it pending, which is not the same as being in time (section 5).
`ChallengeWonOnce` needs `ClaimStands`: whoever won a challenge left its claim
behind, or the challenge is gone for good and nobody who saw it is still to claim
it. That a claim outlives such calls is the bound named at `ClaimExpires`, not a
result. `GenuineIsNotRefused` goes through the checks of each verifier.

On what is stored (`ReplicaAssumption`, `RetentionAssumption`, `LogAssumption`,
`SecretAssumption`): `EachMigrationOnce`, from `MigrationInv`: whoever has read the
ledger holds the lock, so that the ledger still is what it read and its own
migrations continue it. `WalkMissesNothing`, from `WalkInv`: what the cursor has
passed and was there from the start was seen, has a time a page ended with, or is
gone, and what was seen and is still there was passed. `TypedIsSealed` and
`RotationIsComplete`, from `SecretInv`: a document on its way to be stored has been
sealed or has no plain text of an operator (`Fits`), and a row of an old key is
still on the list of every rotation under way (`Covers`), since whatever is sealed
meanwhile is sealed by the active key.

On what is configured (`EnvironmentsAssumption`: names are strings or the literals
the module writes, the fields of a shortcut or a profile are one level deep, no
field is a profile's type, and no index occurs twice; blocks and settings may have
any number of leaves at any depth): `NothingIsLost`, from `BuiltInv`, that what is
built is the document of the variables the process started with. The rest is about
that document. A merge at a path has each leaf of what is merged, and keeps what
neither `Replaces` nor lies under a path set anew (`MergeIs`). For each phase a
lemma then says what it adds and what it leaves of the document so far
(`BlocksPhase`, `StorageStep`, `TargetStep`, `ProfilesPhase`, `ValuesPhase`; inside,
the least position of a list at which the claim fails), `EnvironmentParts` puts them
in a row, and `AllHeard` follows a value from the phase that gave it to the end. A
profile speaks for its type at one index only, because it merges into a verifier of
that type if there is one and appends otherwise (`ProfileIndexIs`, `ProfileStep`).

`ProvidersProofs` (`StreamsAssumption`, `ChunkedAssumption`, `RequestsAssumption`):
`UsageIsTruthful`, from `UsageInv`: at every moment the generator has seen the
counts the upstream has told, event by event, and a stored answer has those of its
stream. `CutsNeverMatter` is the whole of `CutsIrrelevant`, from `ChunkInv`: the
events of the chunks fed so far are those of the text so far, because the scan of a
concatenation is the scan of its parts unless the cut is inside a line break
(`ScanConcat`), where the decoder holds the character back (`FeedFeeds`); a capture
that is cut is the longest prefix that fits, one that is not is everything, and a
body is refused at the chunk that takes it over its limit. `TurnsAreAccepted`:
merging keeps turns alternating and nonempty (`PushAlternates`), so the turns of any
conversation are, and the placeholder before an assistant's is a user's; `SentInv`
ties what was sent to the request. `ToolsAreFaithful`: a step over a message puts
its calls and results, and no others, behind the blocks so far, also where turns
merge (`BlocksPushed`, `ToolsMerged`), and the names a result is sent under are
those of the latest call with its id before it (`NameStep`, `NamesAre`).
`OnlyEntireIsStored`, from `CaptureInv`: a capture is whole only if the generator
returned, it stayed within the cap, and nothing is yielded afterwards; that the
generator returned is not that the upstream had said everything (`CachedIsComplete`,
violated). `RowMissesOneBlock`, from `TailInv`: by back pressure each queue has one
block, with at most `BlockTexts` texts (as many as a read holds, one for a
translated stream); when the provider's stream returns, the queue is empty, so the
row misses at most what is in the redaction (`Pending`), and only `[DONE]` comes
after it. `RequestsAreAccepted` is the whole of `UpstreamAccepts`: with
`TurnsAreAccepted`, what `sanitizeSchema` sends of a schema has no rejected key and
is of the nodes the root reaches. A visit is a node with the references followed to
it; along children the height falls, along references the number of those left, so
that the visits are defined however the references run (`MeasureExists`,
`WalkExists`), and what a visit gives is closed under children and under references
that were not followed to it (`GoodVisit`, `VisitGood`). At the root none was, so
nothing is missing; and what is reached is the least such set, found within as many
steps as there are nodes (`ReachedIs`).

`StreamProofs`: `StreamsAreWellFormed`, `StreamsAgree` and `StoredIsWhole`, from the
inductive `StreamInv`. Beside `UsageInv` and `CaptureInv` it says of *all* the
chunks a stream has made so far, a sequence that no variable holds:
- `Flow`, where they are. What the client has got is the redaction of a first part
  of them, and behind it come, in order, what waits in the redaction, in the queue
  and in the generator; something may be missing only once the client is gone or the
  generator has thrown. What is captured is all of them but the generator's own. So
  a step that moves a block keeps the sequence (`FlowPipes`, `FlowDelivers`,
  `FlowReplays`), and only the upstream's events and the generator's end make it
  longer.
- `Fits`, what they are. Of Anthropic they are `Loose`, well formed whatever strays
  come: as many calls have begun as the translator has tools, in order, and `[DONE]`
  is last. While the upstream keeps the protocol (`Protocol`: only Anthropic's can
  break it) the two below hold as well.
- `Content`, what they say: as many texts as the upstream has said, for each of its
  calls one piece that begins it, in order, and the arguments it was given
  (`Describes`), its finish reason, and `[DONE]` last. It holds of the concatenation
  when it holds of what came before and the new chunks add what the event said
  (`Answered`); for each translator and each event there is a lemma that they do.
- `Tracks`, what the translators must remember for that: the tools of Anthropic are
  numbered by the blocks that began them, each once, and one is flushed with `{}`
  only if it had no arguments; Gemini's count of calls is the number said.

A client that is done has got all chunks, redacted (`DoneHasAll`); redaction removes
nothing a client sees (`RedactedSays`); and chunks that show what the upstream said
assemble to the answer made without streaming (`ShownIsReference`).

Recursive functions have no induction principle here. Where one could not be avoided
(`Merged`, `Scan`, `TotalBytes`, `FlattenSeq`, the least rule, the longest prefix),
the proofs take the least number at which the claim fails (`LeastNatural`, from the
well-foundedness of `<`) and contradict it with its predecessor. Where the order of
a sequence does not matter to the value, the modules define it by a set (`Bytes`,
`Only`, `Texts`, `redacted`, `noteMessage`, `Live`) so that cardinalities can be
reasoned about.

`TypeOK` of the first four modules, `HoldingBounded`, `CacheBounded` and the named
conjuncts (`OnlyEntireIsStored` is one of `StoredIsWhole`, `TurnsAreAccepted` of
`RequestsAreAccepted`) are proved and are no property of a run by themselves.

Only model-checked: the liveness properties (`EveryEntrySettles`, `FlushTerminates`,
`LeakHeals`, `FeedDelivers`, `HangUpSettles`, `CloseReturns`), since liveness under
fairness and ENABLED are out of the prover's reach. Every invariant and every action
property of a passing run is stated by a theorem.

## 5. What the checks found

Six promises of comments or documents that the code does not keep; each run above
marked "finding" has a shortest behaviour, and `PROJECT.json` quotes the line. In
short: `close()` can lose entries silently; the in-flight counter expires 15 minutes
after its first increment whatever happens since; `lastSeen` conflates "reported"
with "reloaded"; an eviction does not reach a lookup in flight; a passed-through
stream whose body ends before its last event ends like a finished one and is cached;
a secret's row is found by the path its value was first typed at, and so two
credentials come to share it.

What else a reader of the code should know, met while modelling. The models have
these behaviours, and no property of a run excludes them; a property that one of
them bears on names it as its exception. `BurnsHarmless`, `BitesWithinTTL` and
`RevokedInTime` stand in their modules beside those properties; put in a passing
run's configuration in their place, they give a shortest behaviour.

- Usage is recorded after the slot is free, so requests one after another overshoot
  a budget. A save that rolls back leaves its burned id in `lastSeen` and hides a
  lower revision that became active elsewhere, although `config-store.ts:132-135`
  calls that mark safe: `FeedExact` names the case, `BurnsHarmless` states that it
  does not occur, and TLC violates it. Of two overlapping patches one may be lost.
- A write key revoked elsewhere before its `create()` returned is let in on the
  creating replica for a TTL from then (`cache.ts:77`), so more than the TTL after
  the revocation, although `cache.ts:4` calls the TTL the worst case:
  `BitesWithinTTL`, which TLC violates; `RevocationBites` counts from `LastNews`.
- A slot is given back before the response body is finished; the row of a streamed
  request may miss the texts of the last block, several if a read brought several,
  since usage settles when the provider's stream is drained; `response.ts:193-199`
  says otherwise. The row of a stream its client left may come after the flush, and
  a charge left to `waitUntil` may come after the pool is closed.
- The tracker refuses requests before the logging middleware, although `app.ts:283`
  means refused requests to be logged. A request reads the bundle several times, so
  a reload may mix two configurations. `server.close()` waits as long as a client
  does not take its response after a clean drain.
- A fallback's answer is stored under the key of the primary. A named rule may
  resolve to the inline provider of an earlier rule whose id is the same name.
- Arguments for a tool block of Anthropic that has stopped are passed on behind the
  `{}` of its stop, and a repeated start makes a second call of it
  (`anthropic.ts:646-671`): what agrees with a plain answer is claimed of streams
  without such strays.
- The cache in memory weighs the JSON of an entry (`memory.ts:38`), PostgreSQL the
  body alone (`prompt-cache.ts:69-71`), and they part at the very end of an answer's
  time (`memory.ts:26`, `prompt-cache.ts:151`): `EvictionsAgree` claims one rule,
  not one outcome. `explain()` does not look at a key's allowlist, and so explains a
  route for a request that gets a 404.
- A message without content fails in translation with a `TypeError` for Anthropic,
  null for the tools for Anthropic and Gemini; null for `top_p` and `stop` is sent
  on to Anthropic. A conversation of system messages only is sent without turns. A
  schema's property named like a rejected key is dropped.
- An invitation grants the role before it is consumed: one revoked or expired in
  between has granted it, and its caller is told it was unavailable.
  `docs/reference/admin-api.mdx:87-89` calls the link revocable; `RevokedInTime`
  states that, and TLC violates it. Two concurrent sign-ups may leave nobody
  promoted; two concurrent invitations of one address may both be pending.
- Log pages are cut strictly at a time: rows of exactly the time a page ended with
  are skipped (`WalkSeesAll` excepts them).
- Of the token verifiers only Clerk's and Cognito's tell a key set they cannot use
  from a bad token; the others refuse, and so does DeviceCheck in an outage. An App
  Check token whose consumption was applied but not acknowledged is burned.
  `GenuineNotRejected` names the verifiers that do better. Overlapping App Attest
  assertions may leave the lower counter behind.
- A save that validation rejects has already resealed the rows it typed into. A
  rotation brings back a row that was deleted, or an older value, if that happened
  after it read the rows. A delete checks references that a save changes meanwhile.
  Without a keyring, deleting a rule shifts the paths at which plain text is
  allowed.

## 6. Not modelled

Cryptography (a signature, an attestation or a sealed value is valid or not), the
evaluation of CEL (a rule yields true, false, something else or an error), the
checks of the schema, the dashboard, clients, argument parsing and static files:
they keep no shared state, or none that the properties are about. Inside the
modelled parts: the graceful close of the configuration store and of write key
caches; expiry of keys by date; the arithmetic of budget windows; aggregates over
the log; which fields a log row has, and the redaction of request bodies; keys and
lifetimes of the prompt cache; sessions, which belong to the account library;
headers and options of provider calls; empty arrays and removed names among
environment variables. The unbounded growth of the promise chain while a write hangs
is visible in `LogBuffer` (`pending`), but the code states no bound to check.

## 7. Plan

Done: the models of all parts named in section 2; the safety properties of the log
buffer, admission, write keys, configuration replication with its abstract log,
serving and shutdown, accounts, verifiers, migrations, log pages and secrets, of
decisions, providers, streams, chunked readers and the environment. Nothing that is
checked and is not liveness is left without a theorem.

Next models: larger instances of `Serving` with the abstract promise of the log
buffer in place of its queue, and the close of the configuration store.
