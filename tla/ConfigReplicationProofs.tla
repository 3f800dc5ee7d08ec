---------------------- MODULE ConfigReplicationProofs ----------------------
(***************************************************************************)
(* Theorems about ConfigReplication, for any sets of replicas and of admin *)
(* requests and for every bound: at most one configuration is live, what a *)
(* replica's feed hides from it is accounted for, and the store implements *)
(* the append-only log of RevisionLog.                                     *)
(***************************************************************************)
EXTENDS ConfigReplication, FiniteSetTheorems, TLAPS

\* A session that has drawn an id and not ended its transaction.
Drawn(s) == at[s] \in {"index", "commit"}

\* An id belongs to one transaction; it is stored exactly when that commits.
IdsDrawn ==
  /\ DOMAIN docs \subseteq 1 .. nextId - 1
  /\ \A s \in Sessions : Drawn(s) => id[s] \in (1 .. nextId - 1) \ DOMAIN docs
  /\ \A s \in Sessions : at[s] = "committed" => id[s] \in DOMAIN docs
  /\ \A s, t \in Sessions : Drawn(s) /\ Drawn(t) /\ id[s] = id[t] => s = t

\* A deactivated row is locked by the one open transaction that has it.
RowsLocked ==
  /\ \A s \in Sessions : off[s] # {} => Drawn(s)
  /\ \A s \in Sessions : off[s] \subseteq active
  /\ \A s, t \in Sessions : s # t => off[s] \cap off[t] = {}

\* One transaction at a time is in the index, and it has deactivated
\* whatever is active.
CommitsAlone ==
  /\ \A s, t \in Sessions : at[s] = "commit" /\ at[t] = "commit" => s = t
  /\ \A s \in Sessions : at[s] = "commit" => active \subseteq off[s]

\* The newest stored revision is the active one, and a transaction that was
\* overtaken by a higher id finds a row in its way.
NewestLive ==
  /\ DOMAIN docs # {} => active # {}
  /\ \A v \in active : \A w \in DOMAIN docs : w <= v
  /\ \A s \in Sessions :
       Drawn(s) /\ (\E w \in DOMAIN docs : id[s] < w) => Conflicts(s) # {}

StoreInv == TypeOK /\ IdsDrawn /\ RowsLocked /\ CommitsAlone /\ NewestLive

\* What replicas have heard of is stored; besides that, lastSeen moves only
\* for the ids their own sessions have put into the index.
HeardIsStored ==
  /\ \A r \in Replicas : \A i \in 1 .. Len(notes[r]) : notes[r][i] \in DOMAIN docs
  /\ \A r \in Replicas : \A t \in tasks[r] : t.rev \in DOMAIN docs
  /\ \A r \in Replicas : lastSeen[r] \in {0} \cup DOMAIN docs \cup mine[r]

OwnIds ==
  /\ \A r \in Replicas : \A v \in mine[r] : v <= lastSeen[r] /\ v < nextId
  /\ \A s \in Sessions, r \in Replicas :
       Drawn(s) /\ id[s] \in mine[r] => at[s] = "commit" /\ host[s] = r

\* What lastSeen may mask: what the replica marked, and whatever is older than an
\* id of its own saves, stored or not.
Masked(r, v) == v \in marked[r] \/ \E w \in mine[r] : v < w

\* NothingElseMasked in these terms, whether or not the replica runs.
MaskAccounted ==
  \A r \in Replicas : \A v \in active :
    v <= lastSeen[r] =>
      \/ v \in tried[r] \/ Masked(r, v)
      \/ \E s \in Sessions : host[s] = r /\ id[s] = v /\ at[s] = "committed"

FeedInv == StoreInv /\ HeardIsStored /\ OwnIds /\ MaskAccounted /\ NoEcho

-----------------------------------------------------------------------------
\* The bounds are numbers, and no session is both a request and a replica.
LEMMA Bounds == MaxRev \in Nat /\ MaxFaults \in Nat /\ Requests \cap Replicas = {}
  BY ReplicationAssumption

\* What a read shows as seen is a revision, and no less than before.
LEMMA SeenByReadFacts ==
  ASSUME TypeOK, NEW r \in Replicas
  PROVE  /\ SeenByRead(r) \in 0 .. MaxRev
         /\ lastSeen[r] <= SeenByRead(r)
         /\ SeenByRead(r) = lastSeen[r] \/ SeenByRead(r) \in active
<1>1. lastSeen[r] \in 0 .. MaxRev /\ active \subseteq 1 .. MaxRev
  BY DEF TypeOK, Revs
<1>2. CASE active = {}
  BY <1>1, <1>2, Bounds DEF SeenByRead
<1>3. CASE active # {}
  <2>1. PICK v \in active : SeenByRead(r) = Raise(lastSeen[r], v)
    BY <1>3, Zenon DEF SeenByRead
  <2>2. v \in 1 .. MaxRev
    BY <1>1
  <2> QED
    BY <1>1, <2>1, <2>2, Bounds DEF Raise
<1> QED
  BY <1>2, <1>3

\* A process that ends leaves nothing behind but its hosts' names.
LEMMA ExitsType ==
  ASSUME TypeOK, NEW r \in Replicas, Exits(r), faults' \in 0 .. MaxFaults
  PROVE  TypeOK'
<1>1. /\ life' \in [Replicas -> Lives]
      /\ lastSeen' \in [Replicas -> 0 .. MaxRev] /\ served' \in [Replicas -> 0 .. MaxRev]
      /\ tasks' \in [Replicas -> SUBSET [rev : Revs, stage : {"get", "resolve"}]]
      /\ listening' \in [Replicas -> BOOLEAN] /\ notes' \in [Replicas -> Seq(Revs)]
      /\ tried' \in [Replicas -> SUBSET Revs] /\ marked' \in [Replicas -> SUBSET Revs]
      /\ mine' \in [Replicas -> SUBSET Revs]
  BY Bounds DEF Exits, TypeOK, Lives
<1>2. at' \in [Sessions -> Stages]
  BY DEF Exits, TypeOK, Over, Stages
<1>3. /\ snap' \in [Sessions -> SUBSET Revs] /\ off' \in [Sessions -> SUBSET Revs]
      /\ id' \in [Sessions -> 0 .. MaxRev] /\ doc' \in [Sessions -> SUBSET Requests]
  BY Bounds DEF Exits, TypeOK
<1> QED
  BY <1>1, <1>2, <1>3 DEF Exits, TypeOK, db

\* What a feed announces is of the types when what it announces is a revision.
LEMMA AnnounceType ==
  ASSUME TypeOK, NEW r \in Replicas, NEW v \in Revs, Announce(r, v)
  PROVE  /\ lastSeen' \in [Replicas -> 0 .. MaxRev]
         /\ tasks' \in [Replicas -> SUBSET [rev : Revs, stage : {"get", "resolve"}]]
         /\ tried' \in [Replicas -> SUBSET Revs]
<1>1. CASE v <= lastSeen[r]
  BY <1>1 DEF Announce, TypeOK
<1>2. CASE ~(v <= lastSeen[r])
  <2>1. v \in 0 .. MaxRev
    BY Bounds DEF Revs
  <2>2. /\ lastSeen' = [lastSeen EXCEPT ![r] = v]
        /\ tried' = [tried EXCEPT ![r] = @ \cup {v}]
    BY <1>2 DEF Announce
  <2>3. lastSeen' \in [Replicas -> 0 .. MaxRev] /\ tried' \in [Replicas -> SUBSET Revs]
    <3>1. lastSeen \in [Replicas -> 0 .. MaxRev] /\ tried \in [Replicas -> SUBSET Revs]
      BY DEF TypeOK
    <3> QED
      BY <2>1, <2>2, <3>1
  <2>4. tasks' = tasks \/ tasks' = GotReload(r, v, "get")
    BY <1>2 DEF Announce
  <2>5. GotReload(r, v, "get") \in [Replicas -> SUBSET [rev : Revs, stage : {"get", "resolve"}]]
    BY DEF GotReload, TypeOK
  <2> QED
    BY <2>3, <2>4, <2>5 DEF TypeOK
<1> QED
  BY <1>1, <1>2

\* The types hold on an empty store with every replica down.
LEMMA TypeInit == Init => TypeOK
  BY Bounds DEF Init, TypeOK, Lives, Stages, Revs

\* The steps of a replica's feed, reloads and life keep the types.
LEMMA TypeReplica ==
  ASSUME TypeOK, NEW r \in Replicas,
         \/ Booted(r) \/ Polls(r) \/ Notified(r)
         \/ \E v \in Revs : Fetched(r, v) \/ Applied(r, v)
         \/ Connects(r) \/ AdminReads(r)
         \/ BootsFromStore(r) \/ BootsBySeeding(r) \/ BootsUnconfigured(r)
         \/ Disconnects(r) \/ Crashes(r) \/ SeedRejected(r)
         \/ \E t \in tasks[r] : ReloadFails(r, t)
  PROVE  TypeOK'
<1> USE Bounds
<1> DEFINE Tasks == [rev : Revs, stage : {"get", "resolve"}]
<1>1. CASE Booted(r)
  BY <1>1 DEF TypeOK, Booted, db, feed, session, history, Lives
<1>2. ASSUME NEW v \in Revs, Announce(r, v),
             UNCHANGED <<db, life, served, listening, session, marked, mine, faults>>,
             notes' \in [Replicas -> Seq(Revs)]
      PROVE  TypeOK'
  BY <1>2, AnnounceType DEF TypeOK, db, session
<1>3. CASE Polls(r)
  <2>1. PICK v \in active : Announce(r, v)
    BY <1>3 DEF Polls
  <2>2. v \in Revs
    BY DEF TypeOK
  <2> QED
    BY <1>2, <1>3, <2>1, <2>2 DEF Polls, TypeOK, feed
<1>4. CASE Notified(r)
  <2>1. notes[r] \in Seq(Revs) /\ notes[r] # <<>>
    BY <1>4 DEF Notified, TypeOK
  <2>2. Head(notes[r]) \in Revs /\ Tail(notes[r]) \in Seq(Revs)
    BY <2>1
  <2>3. notes' \in [Replicas -> Seq(Revs)]
    BY <1>4, <2>2 DEF Notified, TypeOK
  <2> QED
    BY <1>2, <1>4, <2>2, <2>3 DEF Notified
<1>5. ASSUME tasks' \in [Replicas -> SUBSET Tasks], served' \in [Replicas -> 0 .. MaxRev],
             faults' \in 0 .. MaxFaults,
             UNCHANGED <<db, life, lastSeen, feed, session, history>>
      PROVE  TypeOK'
  BY <1>5 DEF TypeOK, db, feed, session, history
<1>6. ASSUME NEW v \in Revs, Fetched(r, v) PROVE TypeOK'
  <2>1. [rev |-> v, stage |-> "resolve"] \in Tasks
    OBVIOUS
  <2>2. tasks' \in [Replicas -> SUBSET Tasks]
    BY <1>6, <2>1 DEF Fetched, TypeOK
  <2> QED
    BY <1>5, <1>6, <2>2 DEF TypeOK, Fetched
<1>7. ASSUME NEW v \in Revs, Applied(r, v) PROVE TypeOK'
  <2>1. tasks' \in [Replicas -> SUBSET Tasks]
    BY <1>7 DEF Applied, TypeOK
  <2>2. served' \in [Replicas -> 0 .. MaxRev]
    BY <1>7 DEF Applied, TypeOK, Revs
  <2>3. faults' \in 0 .. MaxFaults /\ UNCHANGED <<db, life, lastSeen, feed, session, history>>
    BY <1>7 DEF Applied, TypeOK
  <2> QED
    BY <1>5, <2>1, <2>2, <2>3
<1>8. ASSUME NEW t \in tasks[r], ReloadFails(r, t) PROVE TypeOK'
  <2>1. tasks' \in [Replicas -> SUBSET Tasks]
    BY <1>8 DEF ReloadFails, TypeOK
  <2>2. faults' \in 0 .. MaxFaults
    BY <1>8, Bounds DEF ReloadFails, Fault, TypeOK
  <2>3. served' \in [Replicas -> 0 .. MaxRev]
        /\ UNCHANGED <<db, life, lastSeen, feed, session, history>>
    BY <1>8 DEF ReloadFails, TypeOK
  <2> QED
    BY <1>5, <2>1, <2>2, <2>3
<1>9. CASE Connects(r)
  BY <1>9 DEF TypeOK, Connects, db, session, history
<1>10. CASE AdminReads(r)
  <2>1. Unseen(r, active) \subseteq Revs
    BY DEF Unseen, TypeOK
  <2>2. /\ lastSeen' \in [Replicas -> 0 .. MaxRev]
        /\ marked' \in [Replicas -> SUBSET Revs]
    BY <1>10, <2>1, SeenByReadFacts DEF TypeOK, AdminReads
  <2> QED
    BY <1>10, <2>2 DEF TypeOK, AdminReads, db, feed, session
<1>11. CASE BootsFromStore(r)
  <2>1. PICK v \in active : /\ tasks' = GotReload(r, v, "resolve")
                            /\ tried' = [tried EXCEPT ![r] = @ \cup {v}]
    BY <1>11 DEF BootsFromStore
  <2>2. v \in Revs
    BY DEF TypeOK
  <2>3. tasks' \in [Replicas -> SUBSET Tasks] /\ tried' \in [Replicas -> SUBSET Revs]
    BY <2>1, <2>2 DEF TypeOK, GotReload
  <2>4. /\ life' \in [Replicas -> Lives]
        /\ lastSeen' \in [Replicas -> 0 .. MaxRev]
    BY <1>11, SeenByReadFacts DEF TypeOK, BootsFromStore, Lives
  <2> QED
    BY <1>11, <2>3, <2>4 DEF TypeOK, BootsFromStore, db, feed, session
<1>12. CASE BootsBySeeding(r)
  BY <1>12 DEF TypeOK, BootsBySeeding, db, feed, history, Lives, Stages, Sessions
<1>13. CASE StaysUnconfigured(r) /\ faults' \in 0 .. MaxFaults
  BY <1>13 DEF TypeOK, StaysUnconfigured, db, feed, session, history, Lives
<1>14. CASE BootsUnconfigured(r)
  BY <1>13, <1>14 DEF BootsUnconfigured, TypeOK
<1>15. ASSUME Fault PROVE faults' \in 0 .. MaxFaults
  BY <1>15 DEF Fault, TypeOK
<1>16. CASE SeedRejected(r)
  BY <1>13, <1>15, <1>16 DEF SeedRejected
<1>17. CASE Disconnects(r)
  BY <1>15, <1>17 DEF TypeOK, Disconnects, db, session, history
<1>18. CASE Crashes(r)
  BY <1>15, <1>18, ExitsType DEF Crashes
<1> QED
  BY <1>1, <1>3, <1>4, <1>6, <1>7, <1>8, <1>9, <1>10, <1>11, <1>12, <1>14, <1>16,
     <1>17, <1>18

\* A transaction that ends without a commit forgets what it held.
LEMMA ThrowsType ==
  ASSUME TypeOK, NEW s \in Sessions, Throws(s), faults' \in 0 .. MaxFaults,
         s \in Requests => marked' \in [Replicas -> SUBSET Revs]
  PROVE  TypeOK'
<1>1. CASE s \in Replicas
  BY <1>1, ExitsType DEF Throws
<1>2. CASE s \notin Replicas
  <2>1. s \in Requests
    BY <1>2 DEF Sessions
  <2>2. /\ at' \in [Sessions -> Stages]
        /\ snap' \in [Sessions -> SUBSET Revs] /\ off' \in [Sessions -> SUBSET Revs]
        /\ id' \in [Sessions -> 0 .. MaxRev] /\ doc' \in [Sessions -> SUBSET Requests]
    <3>1. /\ at' = [at EXCEPT ![s] = "failed"]
          /\ snap' = [snap EXCEPT ![s] = {}] /\ off' = [off EXCEPT ![s] = {}]
          /\ id' = [id EXCEPT ![s] = 0] /\ doc' = [doc EXCEPT ![s] = {}]
      BY <1>2 DEF Throws
    <3>2. at' \in [Sessions -> Stages]
      BY <3>1 DEF TypeOK, Stages
    <3> QED
      BY <3>1, <3>2, Bounds DEF TypeOK
  <2> QED
    BY <1>2, <2>1, <2>2 DEF Throws, TypeOK, db, feed
<1> QED
  BY <1>1, <1>2

\* The steps of a save keep the types; an id is drawn before it is used.
LEMMA TypeSave ==
  ASSUME TypeOK, IdsDrawn, NEW s \in Sessions, SaveStep(s) \/ SaveFails(s)
  PROVE  TypeOK'
<1> USE Bounds
<1> DEFINE h == host[s]
<1>1. h \in Replicas /\ id[s] \in 0 .. MaxRev /\ at[s] \in Stages
  BY DEF TypeOK
<1>2. at[s] \in {"index", "commit", "committed"} => id[s] \in Revs
  BY <1>1 DEF TypeOK, IdsDrawn, Drawn, Revs
<1>3. CASE SaveWaits(s)
  BY <1>3 DEF TypeOK, SaveWaits, Stages, db, feed, history
<1>4. CASE SaveUpdates(s)
  <2>1. nextId \in Revs /\ nextId' \in 1 .. MaxRev + 1
    BY <1>4 DEF SaveUpdates, TypeOK, Revs
  <2>2. /\ off' \in [Sessions -> SUBSET Revs] /\ snap' \in [Sessions -> SUBSET Revs]
        /\ id' \in [Sessions -> 0 .. MaxRev]
    BY <1>4, <2>1 DEF SaveUpdates, TypeOK, Revs
  <2>3. at' \in [Sessions -> Stages]
    BY <1>4 DEF SaveUpdates, TypeOK, Stages
  <2> QED
    BY <1>4, <2>1, <2>2, <2>3 DEF TypeOK, SaveUpdates, feed, history
<1>5. CASE SaveInserts(s)
  <2>1. id[s] \in Revs
    BY <1>2, <1>5 DEF SaveInserts
  <2>2. SeenAtInsert(s) \in 0 .. MaxRev
    BY <1>1 DEF SeenAtInsert, Raise, TypeOK
  <2>3. /\ lastSeen' \in [Replicas -> 0 .. MaxRev]
        /\ mine' \in [Replicas -> SUBSET Revs] /\ at' \in [Sessions -> Stages]
    BY <1>1, <1>5, <2>1, <2>2 DEF SaveInserts, TypeOK, Stages
  <2> QED
    BY <1>5, <2>3 DEF TypeOK, SaveInserts, db, feed
<1>6. CASE SaveCommits(s)
  <2>1. id[s] \in Revs /\ doc[s] \subseteq Requests
    BY <1>2, <1>6 DEF SaveCommits, TypeOK
  <2>2. /\ DOMAIN docs' = DOMAIN docs \cup {id[s]}
        /\ \A v \in DOMAIN docs' : docs'[v] = IF v = id[s] THEN doc[s] ELSE docs[v]
        /\ active' = (active \ off[s]) \cup {id[s]}
    BY <1>6 DEF SaveCommits
  <2>3. /\ DOMAIN docs' \subseteq Revs /\ active' \subseteq DOMAIN docs'
        /\ \A v \in DOMAIN docs' : docs'[v] \subseteq Requests
    BY <2>1, <2>2 DEF TypeOK
  <2>4. notes' \in [Replicas -> Seq(Revs)]
    BY <1>6, <2>1 DEF SaveCommits, TypeOK
  <2>5. /\ at' \in [Sessions -> Stages] /\ off' \in [Sessions -> SUBSET Revs]
        /\ doc' \in [Sessions -> SUBSET Requests]
    BY <1>6 DEF SaveCommits, TypeOK, Stages
  <2> QED
    BY <1>6, <2>3, <2>4, <2>5 DEF TypeOK, SaveCommits, history
<1>7. CASE SaveReturns(s)
  <2>1. id[s] \in Revs
    BY <1>2, <1>7 DEF SaveReturns
  <2>2. /\ tasks' \in [Replicas -> SUBSET [rev : Revs, stage : {"get", "resolve"}]]
        /\ tried' \in [Replicas -> SUBSET Revs]
    BY <1>1, <1>7, <2>1 DEF SaveReturns, GotReload, TypeOK
  <2>3. at' \in [Sessions -> Stages] /\ life' \in [Replicas -> Lives]
    BY <1>7 DEF SaveReturns, TypeOK, Stages, Lives
  <2> QED
    BY <1>7, <2>2, <2>3 DEF TypeOK, SaveReturns, db, feed
<1>8. CASE SaveConflicts(s)
  BY <1>8, ThrowsType, ZenonT(60) DEF SaveConflicts, TypeOK
<1>9. CASE SaveFails(s)
  <2>1. faults' \in 0 .. MaxFaults
    BY <1>9 DEF SaveFails, Fault, TypeOK
  <2>2. s \in Requests => marked' \in [Replicas -> SUBSET Revs]
    <3>1. marked \in [Replicas -> SUBSET Revs]
      BY DEF TypeOK
    <3>2. (IF at[s] = "committed" THEN marked[h] \cup {id[s]} ELSE marked[h]) \subseteq Revs
      BY <1>1, <1>2, <3>1
    <3>3. s \in Requests =>
            marked' = [marked EXCEPT ![h] = IF at[s] = "committed" THEN @ \cup {id[s]} ELSE @]
      BY <1>9 DEF SaveFails
    <3> QED
      BY <1>1, <3>1, <3>2, <3>3
  <2> QED
    BY <1>9, <2>1, <2>2, ThrowsType DEF SaveFails
<1> QED
  BY <1>3, <1>4, <1>5, <1>6, <1>7, <1>8, <1>9 DEF SaveStep

\* The arrival of a request keeps the types.
LEMMA TypeRequest ==
  ASSUME TypeOK, NEW s \in Requests, PutArrives(s) \/ PatchReads(s)
  PROVE  TypeOK'
<1>1. s \in Sessions /\ host[s] \in Replicas
  BY DEF TypeOK, Sessions
<1>2. CASE PutArrives(s)
  BY <1>1, <1>2 DEF TypeOK, PutArrives, Stages, db, feed, history
<1>3. CASE PatchReads(s)
  <2>1. (UNION {docs[v] : v \in active}) \cup {s} \subseteq Requests
    <3>1. \A v \in active : docs[v] \subseteq Requests
      BY DEF TypeOK
    <3> QED
      BY <3>1, Zenon
  <2>2. Unseen(host[s], active) \subseteq Revs
    BY DEF Unseen, TypeOK
  <2>3. doc' \in [Sessions -> SUBSET Requests] /\ at' \in [Sessions -> Stages]
    <3>1. /\ doc' = [doc EXCEPT ![s] = (UNION {docs[v] : v \in active}) \cup {s}]
          /\ at' = [at EXCEPT ![s] = "begin"]
      BY <1>3, Zenon DEF PatchReads
    <3>2. at' \in [Sessions -> Stages]
      BY <3>1 DEF TypeOK, Stages
    <3>3. doc \in [Sessions -> SUBSET Requests]
      BY DEF TypeOK
    <3>4. doc' \in [Sessions -> SUBSET Requests]
      BY <2>1, <3>1, <3>3, Zenon
    <3> QED
      BY <3>2, <3>4
  <2>4. lastSeen' \in [Replicas -> 0 .. MaxRev] /\ marked' \in [Replicas -> SUBSET Revs]
    BY <1>1, <1>3, <2>2, SeenByReadFacts DEF PatchReads, TypeOK
  <2> QED
    BY <1>3, <2>3, <2>4 DEF TypeOK, PatchReads, db, feed
<1> QED
  BY <1>2, <1>3

-----------------------------------------------------------------------------
(* The store: every step but four of a save leaves it alone, and at most     *)
(* ends transactions.                                                        *)

Backstage ==
  /\ UNCHANGED <<docs, active, nextId>>
  /\ \A s \in Sessions :
       \/ at'[s] = at[s] /\ id'[s] = id[s] /\ off'[s] = off[s]
       \/ at'[s] \notin {"index", "commit", "committed"} /\ off'[s] = {}

\* A process that ends only ends transactions.
LEMMA ExitsBackstage ==
  ASSUME TypeOK, RowsLocked, NEW r \in Replicas, Exits(r)
  PROVE  Backstage
<1> SUFFICES ASSUME NEW s \in Sessions
             PROVE  \/ at'[s] = at[s] /\ id'[s] = id[s] /\ off'[s] = off[s]
                    \/ at'[s] \notin {"index", "commit", "committed"} /\ off'[s] = {}
  BY DEF Backstage, Exits, db
<1> QED
  BY DEF Exits, Over

\* Neither do the other steps of a replica touch the store.
LEMMA ReplicaBackstage ==
  ASSUME TypeOK, RowsLocked, NEW r \in Replicas,
         \/ Booted(r) \/ Polls(r) \/ Notified(r)
         \/ \E v \in Revs : Fetched(r, v) \/ Applied(r, v)
         \/ Connects(r) \/ AdminReads(r)
         \/ BootsFromStore(r) \/ BootsBySeeding(r) \/ BootsUnconfigured(r)
         \/ Disconnects(r) \/ Crashes(r) \/ SeedRejected(r)
         \/ \E t \in tasks[r] : ReloadFails(r, t)
  PROVE  Backstage
<1>1. CASE Crashes(r)
  BY <1>1, ExitsBackstage DEF Crashes
<1>2. CASE BootsBySeeding(r)
  <2>1. active = {} /\ UNCHANGED <<docs, active, nextId, off, id>>
    BY <1>2 DEF BootsBySeeding, db
  <2>2. at' = [at EXCEPT ![r] = "begin"]
    BY <1>2 DEF BootsBySeeding
  <2>3. \A s \in Sessions : off[s] = {}
    BY <2>1 DEF RowsLocked
  <2> QED
    BY <2>1, <2>2, <2>3 DEF Backstage, TypeOK
<1>3. CASE ~Crashes(r) /\ ~BootsBySeeding(r)
  <2>1. UNCHANGED <<docs, active, nextId, at, id, off>>
    BY <1>3 DEF Booted, Polls, Notified, Fetched, Applied, Connects, AdminReads, BootsFromStore,
                BootsUnconfigured, Disconnects, SeedRejected, StaysUnconfigured, ReloadFails,
                db, session
  <2> QED
    BY <2>1 DEF Backstage
<1> QED
  BY <1>1, <1>2, <1>3

\* Nor the arrival of a request.
LEMMA RequestBackstage ==
  ASSUME TypeOK, RowsLocked, NEW s \in Requests, PutArrives(s) \/ PatchReads(s)
  PROVE  Backstage
<1>1. /\ at[s] = "idle" /\ at' = [at EXCEPT ![s] = "begin"]
      /\ UNCHANGED <<docs, active, nextId, off, id>>
  BY DEF PutArrives, PatchReads, db
<1>2. off[s] = {}
  BY <1>1 DEF RowsLocked, Drawn, Sessions
<1> QED
  BY <1>1, <1>2 DEF Backstage, TypeOK

\* Nor a save that waits, ends or is answered.
LEMMA SaveBackstage ==
  ASSUME TypeOK, RowsLocked, NEW s \in Sessions,
         SaveWaits(s) \/ SaveConflicts(s) \/ SaveReturns(s) \/ SaveFails(s)
  PROVE  Backstage
<1>1. CASE SaveWaits(s) \/ SaveReturns(s)
  <2>1. /\ at[s] \in {"begin", "committed"}
        /\ \E b \in {"update", "idle", "done"} : at' = [at EXCEPT ![s] = b]
        /\ UNCHANGED <<docs, active, nextId, off, id>>
    BY <1>1 DEF SaveWaits, SaveReturns, db
  <2>2. off[s] = {}
    BY <2>1 DEF RowsLocked, Drawn
  <2> QED
    BY <2>1, <2>2 DEF Backstage, TypeOK
<1>2. CASE Throws(s)
  <2>1. CASE s \in Replicas
    BY <1>2, <2>1, ExitsBackstage DEF Throws
  <2>2. CASE s \notin Replicas
    BY <1>2, <2>2 DEF Throws, Backstage, TypeOK, db
  <2> QED
    BY <2>1, <2>2
<1> QED
  BY <1>1, <1>2 DEF SaveConflicts, SaveFails

\* An empty store satisfies the invariant.
LEMMA StoreInit == Init => StoreInv
  BY TypeInit, Bounds DEF Init, StoreInv, IdsDrawn, RowsLocked, CommitsAlone, NewestLive, Drawn

\* Ending transactions elsewhere disturbs nothing.
LEMMA StoreBackstage ==
  ASSUME StoreInv, Backstage
  PROVE  IdsDrawn' /\ RowsLocked' /\ CommitsAlone' /\ NewestLive'
<1>1. UNCHANGED <<docs, active, nextId>>
  BY DEF Backstage
<1>2. \A s \in Sessions : at'[s] \in {"index", "commit", "committed"} =>
         at'[s] = at[s] /\ id'[s] = id[s] /\ off'[s] = off[s]
  BY DEF Backstage
<1>3. \A s \in Sessions : off'[s] # {} => off'[s] = off[s] /\ at'[s] = at[s]
  BY DEF Backstage
<1>4. IdsDrawn'
  BY <1>1, <1>2 DEF StoreInv, IdsDrawn, Drawn
<1>5. RowsLocked'
  BY <1>1, <1>3 DEF StoreInv, RowsLocked, Drawn
<1>6. CommitsAlone'
  BY <1>1, <1>2 DEF StoreInv, CommitsAlone
<1>7. NewestLive'
  BY <1>1, <1>2 DEF StoreInv, NewestLive, Drawn, Conflicts
<1> QED
  BY <1>4, <1>5, <1>6, <1>7

\* A session that updates draws an id above all others and locks its row.
LEMMA StoreUpdates ==
  ASSUME StoreInv, NEW s \in Sessions, SaveUpdates(s)
  PROVE  IdsDrawn' /\ RowsLocked' /\ CommitsAlone' /\ NewestLive'
<1>1. /\ UNCHANGED <<docs, active>> /\ nextId' = nextId + 1
      /\ at' = [at EXCEPT ![s] = "index"] /\ id' = [id EXCEPT ![s] = nextId]
      /\ off' = [off EXCEPT ![s] = Targets(s) \cap active]
      /\ at[s] \in {"begin", "update"} /\ ~RowLocked(s)
  BY DEF SaveUpdates
<1>2. /\ nextId \in 1 .. MaxRev + 1
      /\ at \in [Sessions -> Stages] /\ id \in [Sessions -> 0 .. MaxRev]
      /\ off \in [Sessions -> SUBSET Revs]
  BY DEF StoreInv, TypeOK
<1>3. /\ at'[s] = "index" /\ id'[s] = nextId /\ off'[s] = Targets(s) \cap active
      /\ \A t \in Sessions \ {s} : at'[t] = at[t] /\ id'[t] = id[t] /\ off'[t] = off[t]
  BY <1>1, <1>2
<1>4. nextId \notin DOMAIN docs /\ \A w \in DOMAIN docs : w < nextId
  BY <1>2, Bounds DEF StoreInv, IdsDrawn
<1>5. \A t \in Sessions : Drawn(t) => id[t] # nextId
  BY <1>2, Bounds DEF StoreInv, IdsDrawn
<1>6. IdsDrawn'
  <2>1. \A t \in Sessions : Drawn(t)' => id'[t] \in (1 .. nextId' - 1) \ DOMAIN docs'
    BY <1>1, <1>2, <1>3, <1>4, Bounds DEF StoreInv, IdsDrawn, Drawn
  <2>2. DOMAIN docs' \subseteq 1 .. nextId' - 1
    BY <1>1, <1>2, Bounds DEF StoreInv, IdsDrawn
  <2>3. \A t \in Sessions : at'[t] = "committed" => id'[t] \in DOMAIN docs'
    BY <1>1, <1>3 DEF StoreInv, IdsDrawn
  <2>4. \A t, u \in Sessions : Drawn(t)' /\ Drawn(u)' /\ id'[t] = id'[u] => t = u
    BY <1>3, <1>5 DEF StoreInv, IdsDrawn, Drawn
  <2> QED
    BY <2>1, <2>2, <2>3, <2>4 DEF IdsDrawn
<1>7. RowsLocked'
  <2>1. \A t \in Sessions \ {s} : off[t] \cap Targets(s) = {}
    BY <1>1 DEF RowLocked
  <2> QED
    BY <1>1, <1>3, <2>1 DEF StoreInv, RowsLocked, Drawn
<1>8. CommitsAlone'
  BY <1>1, <1>3 DEF StoreInv, CommitsAlone
<1>9. NewestLive'
  <2>1. ~ \E w \in DOMAIN docs' : id'[s] < w
    BY <1>1, <1>2, <1>3, <1>4, Bounds DEF StoreInv, IdsDrawn
  <2>2. \A t \in Sessions \ {s} :
          Drawn(t)' /\ (\E w \in DOMAIN docs' : id'[t] < w) => Conflicts(t)' # {}
    BY <1>1, <1>3 DEF StoreInv, NewestLive, Drawn, Conflicts
  <2> QED
    BY <1>1, <2>1, <2>2 DEF StoreInv, NewestLive
<1> QED
  BY <1>6, <1>7, <1>8, <1>9

\* A session enters the index when nobody is in it and no row conflicts.
LEMMA StoreInserts ==
  ASSUME StoreInv, NEW s \in Sessions, SaveInserts(s)
  PROVE  IdsDrawn' /\ RowsLocked' /\ CommitsAlone' /\ NewestLive'
<1>1. /\ UNCHANGED <<docs, active, nextId, id, off>>
      /\ at' = [at EXCEPT ![s] = "commit"]
      /\ at[s] = "index" /\ ~IndexBusy(s) /\ active \ off[s] = {}
  BY DEF SaveInserts, db, Conflicts
<1>2. at'[s] = "commit" /\ \A t \in Sessions \ {s} : at'[t] = at[t]
  BY <1>1 DEF StoreInv, TypeOK
<1>3. \A t \in Sessions : Drawn(t)' <=> Drawn(t)
  BY <1>1, <1>2 DEF Drawn
<1>4. IdsDrawn'
  BY <1>1, <1>2, <1>3 DEF StoreInv, IdsDrawn
<1>5. RowsLocked'
  BY <1>1, <1>3 DEF StoreInv, RowsLocked
<1>6. CommitsAlone'
  <2>1. \A t \in Sessions \ {s} : at[t] # "commit"
    BY <1>1 DEF IndexBusy, Uncommitted
  <2> QED
    BY <1>1, <1>2, <2>1 DEF StoreInv, CommitsAlone
<1>7. NewestLive'
  BY <1>1, <1>3 DEF StoreInv, NewestLive, Conflicts
<1> QED
  BY <1>4, <1>5, <1>6, <1>7

\* Whoever commits holds the highest id yet, replaces all that was active,
\* and stands in the way of every transaction with a lower id.
LEMMA CommitFacts ==
  ASSUME StoreInv, NEW s \in Sessions, SaveCommits(s)
  PROVE  /\ id[s] \in Revs /\ id[s] \notin DOMAIN docs
         /\ \A w \in DOMAIN docs : w < id[s]
         /\ active' = {id[s]} /\ DOMAIN docs' = DOMAIN docs \cup {id[s]}
<1>1. /\ at[s] = "commit" /\ active' = (active \ off[s]) \cup {id[s]}
      /\ DOMAIN docs' = DOMAIN docs \cup {id[s]}
  BY DEF SaveCommits
<1>2. active \ off[s] = {}
  BY <1>1 DEF StoreInv, CommitsAlone
<1>3. id[s] \in 1 .. nextId - 1 /\ id[s] \notin DOMAIN docs /\ nextId \in 1 .. MaxRev + 1
  BY <1>1 DEF StoreInv, TypeOK, IdsDrawn, Drawn
<1>4. ~ \E w \in DOMAIN docs : id[s] < w
  BY <1>1, <1>2 DEF StoreInv, NewestLive, Drawn, Conflicts
<1>5. \A w \in DOMAIN docs : w \in Nat
  BY DEF StoreInv, IdsDrawn
<1> QED
  BY <1>1, <1>2, <1>3, <1>4, <1>5, Bounds DEF Revs

\* A commit makes its own row the only active one: whoever else updated rows
\* has waited for it.
LEMMA StoreCommits ==
  ASSUME StoreInv, NEW s \in Sessions, SaveCommits(s)
  PROVE  IdsDrawn' /\ RowsLocked' /\ CommitsAlone' /\ NewestLive'
<1>1. /\ UNCHANGED <<nextId, id>>
      /\ at' = [at EXCEPT ![s] = "committed"] /\ off' = [off EXCEPT ![s] = {}]
      /\ at[s] = "commit" /\ active' = (active \ off[s]) \cup {id[s]}
  BY DEF SaveCommits
<1>2. /\ at'[s] = "committed" /\ off'[s] = {}
      /\ \A t \in Sessions \ {s} : at'[t] = at[t] /\ off'[t] = off[t]
  BY <1>1 DEF StoreInv, TypeOK
<1>3. /\ id[s] \in 1 .. nextId - 1 /\ id[s] \notin DOMAIN docs
      /\ \A w \in DOMAIN docs : w < id[s]
      /\ active' = {id[s]} /\ DOMAIN docs' = DOMAIN docs \cup {id[s]}
  BY <1>1, CommitFacts DEF StoreInv, IdsDrawn, Drawn
<1>4. nextId \in Nat
  BY Bounds DEF StoreInv, TypeOK
<1>5. IdsDrawn'
  BY <1>1, <1>2, <1>3 DEF StoreInv, IdsDrawn, Drawn
<1>6. RowsLocked'
  BY <1>1, <1>2 DEF StoreInv, RowsLocked, Drawn
<1>7. CommitsAlone'
  <2>1. \A t \in Sessions : at'[t] # "commit"
    BY <1>1, <1>2 DEF StoreInv, CommitsAlone
  <2> QED
    BY <2>1 DEF CommitsAlone
<1>8. NewestLive'
  <2>1. \A t \in Sessions : Drawn(t)' => id[s] \notin off'[t]
    BY <1>2, <1>3 DEF StoreInv, RowsLocked, TypeOK
  <2>2. \A t \in Sessions : Drawn(t)' => Conflicts(t)' # {}
    BY <1>3, <2>1 DEF Conflicts
  <2>3. id[s] \in Nat /\ \A w \in DOMAIN docs : w \in Nat
    BY <1>3, <1>4 DEF StoreInv, IdsDrawn
  <2>4. \A v \in active' : \A w \in DOMAIN docs' : w <= v
    BY <1>3, <2>3
  <2> QED
    BY <1>3, <2>2, <2>4 DEF NewestLive
<1> QED
  BY <1>5, <1>6, <1>7, <1>8

\* Every step keeps the invariant of the store.
LEMMA StoreNext == StoreInv /\ [Next]_vars => StoreInv'
<1> SUFFICES ASSUME StoreInv, [Next]_vars PROVE StoreInv'
  OBVIOUS
<1> USE DEF StoreInv
<1>1. ASSUME TypeOK', Backstage PROVE StoreInv'
  BY <1>1, StoreBackstage
<1>2. ASSUME NEW r \in Replicas,
             \/ ReplicaStep(r) \/ Connects(r) \/ AdminReads(r)
             \/ BootsFromStore(r) \/ BootsBySeeding(r) \/ BootsUnconfigured(r)
             \/ Disconnects(r) \/ Crashes(r) \/ SeedRejected(r)
             \/ \E t \in tasks[r] : ReloadFails(r, t)
      PROVE  StoreInv'
  BY <1>1, <1>2, TypeReplica, ReplicaBackstage DEF ReplicaStep
<1>3. ASSUME NEW s \in Requests, PutArrives(s) \/ PatchReads(s) PROVE StoreInv'
  BY <1>1, <1>3, TypeRequest, RequestBackstage
<1>4. ASSUME NEW s \in Sessions, SaveStep(s) \/ SaveFails(s) PROVE StoreInv'
  <2>1. TypeOK'
    BY <1>4, TypeSave
  <2> QED
    BY <1>1, <1>4, <2>1, SaveBackstage, StoreUpdates, StoreInserts, StoreCommits DEF SaveStep
<1>5. CASE UNCHANGED vars
  <2>1. TypeOK'
    BY <1>5 DEF TypeOK, vars, db, feed, session, history
  <2>2. Backstage
    BY <1>5 DEF Backstage, vars, db, session
  <2> QED
    BY <1>1, <2>1, <2>2
<1> QED
  BY <1>2, <1>3, <1>4, <1>5 DEF Next

\* The store's invariant, and with it the types, hold in every behaviour.
THEOREM StoreCorrect == Spec => []StoreInv
<1> QED
  BY StoreInit, StoreNext, PTL DEF Spec

\* No replica, session or revision ever takes a value outside its type
\* (packages/postgres/src/config-store.ts, packages/node/src/server.ts).
THEOREM TypeCorrect == Spec => []TypeOK
<1>1. StoreInv => TypeOK
  BY DEF StoreInv
<1> QED
  BY <1>1, StoreCorrect, PTL

\* "Which configuration is live cannot become ambiguous even if two admins
\* save at once": whatever saves, seeds, failures and crashes interleave, one
\* stored revision is active, and none only before the first is stored.
THEOREM OneIsActive == Spec => []OneActive
<1>1. StoreInv => OneActive
  <2> SUFFICES ASSUME StoreInv PROVE OneActive
    OBVIOUS
  <2>1. active \subseteq DOMAIN docs /\ DOMAIN docs \subseteq Nat
    BY DEF StoreInv, TypeOK, IdsDrawn
  <2>2. CASE DOMAIN docs = {}
    BY <2>1, <2>2 DEF OneActive
  <2>3. CASE DOMAIN docs # {}
    <3>1. PICK v \in active : TRUE
      BY <2>3 DEF StoreInv, NewestLive
    <3>2. \A w \in active : w = v
      BY <2>1 DEF StoreInv, NewestLive
    <3>3. active = {v}
      BY <3>2
    <3> QED
      BY <2>3, <3>3, FS_Singleton DEF OneActive
  <2> QED
    BY <2>2, <2>3
<1> QED
  BY <1>1, StoreCorrect, PTL

-----------------------------------------------------------------------------
(* What lastSeen hides from a replica's feed.                                *)

FeedParts == HeardIsStored /\ OwnIds /\ MaskAccounted /\ NoEcho

\* A replica that has heard of nothing and saved nothing hides nothing.
LEMMA FeedInit == Init => FeedInv
<1> SUFFICES ASSUME Init PROVE FeedInv
  OBVIOUS
<1>1. HeardIsStored /\ OwnIds /\ MaskAccounted /\ NoEcho
  BY DEF Init, HeardIsStored, OwnIds, MaskAccounted, NoEcho, Drawn
<1> QED
  BY <1>1, StoreInit DEF FeedInv

\* Reloads that go on, end or begin with a stored revision, and connections
\* that come and go, hide nothing.
LEMMA FeedQuiet ==
  ASSUME FeedInv, NEW r \in Replicas,
         UNCHANGED <<docs, active, nextId, lastSeen, mine, tried, marked, host, at, id>>,
         \A q \in Replicas : notes'[q] \in {notes[q], <<>>},
         \A q \in Replicas : \A t \in tasks'[q] :
            t \in tasks[q] \/ (t.stage = "resolve" /\ t.rev \in DOMAIN docs)
  PROVE  FeedParts'
<1>1. HeardIsStored'
  <2>1. \A q \in Replicas : notes'[q] = <<>> \/ notes'[q] = notes[q]
    OBVIOUS
  <2> QED
    BY <2>1 DEF FeedInv, HeardIsStored
<1>2. OwnIds' /\ MaskAccounted'
  BY DEF FeedInv, OwnIds, MaskAccounted, Masked, Drawn
<1>3. NoEcho'
  <2> SUFFICES ASSUME NEW q \in Replicas, NEW v \in mine'[q],
                      [rev |-> v, stage |-> "get"] \in tasks'[q]
               PROVE  FALSE
    BY DEF NoEcho
  <2>1. [rev |-> v, stage |-> "get"] \in tasks[q]
    OBVIOUS
  <2> QED
    BY <2>1 DEF FeedInv, NoEcho
<1> QED
  BY <1>1, <1>2, <1>3 DEF FeedParts

\* A stored revision is announced: if it is news, it is reloaded.
LEMMA FeedAnnounce ==
  ASSUME FeedInv, NEW r \in Replicas, NEW v \in DOMAIN docs, Announce(r, v),
         UNCHANGED <<docs, active, nextId, mine, marked, host, at, id>>,
         \A q \in Replicas : \A i \in 1 .. Len(notes'[q]) :
            \E j \in 1 .. Len(notes[q]) : notes'[q][i] = notes[q][j]
  PROVE  FeedParts'
<1> USE DEF FeedInv
<1>1. /\ lastSeen \in [Replicas -> 0 .. MaxRev]
      /\ tried \in [Replicas -> SUBSET Revs]
      /\ tasks \in [Replicas -> SUBSET [rev : Revs, stage : {"get", "resolve"}]]
      /\ v \in 1 .. MaxRev /\ active \subseteq DOMAIN docs /\ DOMAIN docs \subseteq 1 .. MaxRev
  BY DEF StoreInv, TypeOK, Revs
<1>2. CASE v <= lastSeen[r]
  <2>1. UNCHANGED <<lastSeen, tasks, tried>>
    BY <1>2 DEF Announce
  <2>2. HeardIsStored'
    BY <2>1 DEF HeardIsStored
  <2> QED
    BY <2>1, <2>2 DEF FeedParts, OwnIds, MaskAccounted, NoEcho, Masked, Drawn
<1>3. CASE ~(v <= lastSeen[r])
  <2>1. /\ lastSeen' = [lastSeen EXCEPT ![r] = v]
        /\ tried' = [tried EXCEPT ![r] = @ \cup {v}]
        /\ tasks' = tasks \/ tasks' = GotReload(r, v, "get")
    BY <1>3 DEF Announce
  <2>2. /\ lastSeen'[r] = v /\ lastSeen[r] < v /\ tried'[r] = tried[r] \cup {v}
        /\ \A q \in Replicas \ {r} : lastSeen'[q] = lastSeen[q] /\ tried'[q] = tried[q]
    BY <1>1, <1>3, <2>1
  <2>3. \A q \in Replicas : \A t \in tasks'[q] :
          t \in tasks[q] \/ (q = r /\ t = [rev |-> v, stage |-> "get"])
    BY <1>1, <2>1 DEF GotReload
  <2>4. HeardIsStored'
    <3>1. \A q \in Replicas : \A t \in tasks'[q] : t.rev \in DOMAIN docs'
      BY <2>3 DEF HeardIsStored
    <3>2. \A q \in Replicas : lastSeen'[q] \in {0} \cup DOMAIN docs' \cup mine'[q]
      BY <2>2 DEF HeardIsStored
    <3> QED
      BY <3>1, <3>2 DEF HeardIsStored
  <2>5. OwnIds'
    <3>1. \A q \in Replicas : \A w \in mine[q] : w <= lastSeen'[q]
      <4>1. \A q \in Replicas : \A w \in mine[q] : w <= lastSeen[q] /\ w \in Nat
        BY DEF OwnIds, StoreInv, TypeOK, Revs
      <4> QED
        BY <1>1, <2>2, <4>1
    <3> QED
      BY <3>1 DEF OwnIds, Drawn
  <2>6. MaskAccounted'
    <3> SUFFICES ASSUME NEW q \in Replicas, NEW w \in active', w <= lastSeen'[q]
                 PROVE  \/ w \in tried'[q] \/ Masked(q, w)'
                        \/ \E s \in Sessions : host'[s] = q /\ id'[s] = w /\ at'[s] = "committed"
      BY DEF MaskAccounted
    <3>1. CASE q = r
      <4>1. v <= w
        BY DEF StoreInv, NewestLive
      <4>2. w = v
        BY <1>1, <2>2, <3>1, <4>1
      <4> QED
        BY <2>2, <3>1, <4>2
    <3>2. CASE q # r
      BY <2>2, <3>2 DEF MaskAccounted, Masked
    <3> QED
      BY <3>1, <3>2
  <2>7. NoEcho'
    <3> SUFFICES ASSUME NEW q \in Replicas, NEW w \in mine[q],
                        [rev |-> w, stage |-> "get"] \in tasks'[q]
                 PROVE  FALSE
      BY DEF NoEcho
    <3>1. CASE [rev |-> w, stage |-> "get"] \in tasks[q]
      BY <3>1 DEF NoEcho
    <3>2. CASE q = r /\ w = v
      BY <1>1, <2>2, <3>2 DEF OwnIds
    <3> QED
      BY <2>3, <3>1, <3>2
  <2> QED
    BY <2>4, <2>5, <2>6, <2>7 DEF FeedParts
<1> QED
  BY <1>2, <1>3

\* A read of the active revision on a replica that marks it, or begins to
\* reload it.
LEMMA FeedReads ==
  ASSUME FeedInv, NEW r \in Replicas,
         lastSeen' = [lastSeen EXCEPT ![r] = SeenByRead(r)],
         UNCHANGED <<docs, active, nextId, mine, host, notes>>,
         \A s \in Sessions : \/ at'[s] = at[s] /\ id'[s] = id[s]
                             \/ at[s] = "idle" /\ at'[s] = "begin",
         \A q \in Replicas : marked[q] \subseteq marked'[q] /\ tried[q] \subseteq tried'[q],
         \A v \in active : v > lastSeen[r] => v \in marked'[r] \cup tried'[r],
         \A q \in Replicas : \A t \in tasks'[q] :
            t \in tasks[q] \/ (t.stage = "resolve" /\ t.rev \in active)
  PROVE  FeedParts'
<1> USE DEF FeedInv
<1>1. /\ lastSeen \in [Replicas -> 0 .. MaxRev]
      /\ active \subseteq DOMAIN docs /\ DOMAIN docs \subseteq 1 .. MaxRev
  BY DEF StoreInv, TypeOK, Revs
<1>2. /\ lastSeen'[r] \in 0 .. MaxRev /\ lastSeen[r] <= lastSeen'[r]
      /\ lastSeen'[r] \in active \cup {lastSeen[r]}
      /\ \A q \in Replicas \ {r} : lastSeen'[q] = lastSeen[q]
  BY <1>1, SeenByReadFacts DEF StoreInv
<1>3. HeardIsStored'
  <2>1. \A q \in Replicas : lastSeen'[q] \in {0} \cup DOMAIN docs \cup mine[q]
    BY <1>1, <1>2 DEF HeardIsStored
  <2>2. \A q \in Replicas : \A t \in tasks'[q] : t.rev \in DOMAIN docs
    BY <1>1 DEF HeardIsStored
  <2> QED
    BY <2>1, <2>2 DEF HeardIsStored
<1>4. OwnIds'
  <2>1. \A q \in Replicas : \A w \in mine[q] : w <= lastSeen'[q]
    <3>1. \A q \in Replicas : \A w \in mine[q] : w <= lastSeen[q] /\ w \in Nat
      BY DEF OwnIds, StoreInv, TypeOK, Revs
    <3> QED
      BY <1>1, <1>2, <3>1
  <2> QED
    BY <2>1 DEF OwnIds, Drawn
<1>5. MaskAccounted'
  <2> SUFFICES ASSUME NEW q \in Replicas, NEW v \in active', v <= lastSeen'[q]
               PROVE  \/ v \in tried'[q] \/ Masked(q, v)'
                      \/ \E s \in Sessions : host'[s] = q /\ id'[s] = v /\ at'[s] = "committed"
    BY DEF MaskAccounted
  <2>1. CASE v <= lastSeen[q]
    <3>1. \/ v \in tried[q] \/ Masked(q, v)
          \/ \E s \in Sessions : host[s] = q /\ id[s] = v /\ at[s] = "committed"
      BY <2>1 DEF MaskAccounted
    <3>2. Masked(q, v) => Masked(q, v)'
      BY DEF Masked
    <3> QED
      BY <3>1, <3>2
  <2>2. CASE ~(v <= lastSeen[q])
    <3>1. q = r /\ v > lastSeen[r]
      BY <1>1, <1>2, <2>2
    <3> QED
      BY <3>1 DEF Masked
  <2> QED
    BY <2>1, <2>2
<1>6. NoEcho'
  <2> SUFFICES ASSUME NEW q \in Replicas, NEW v \in mine[q],
                      [rev |-> v, stage |-> "get"] \in tasks'[q]
               PROVE  FALSE
    BY DEF NoEcho
  <2>1. [rev |-> v, stage |-> "get"] \in tasks[q]
    OBVIOUS
  <2> QED
    BY <2>1 DEF NoEcho
<1> QED
  BY <1>3, <1>4, <1>5, <1>6 DEF FeedParts

\* Sessions that begin, wait or draw an id hide nothing yet.
LEMMA FeedSessions ==
  ASSUME FeedInv,
         UNCHANGED <<docs, active, lastSeen, mine, tried, marked, host, tasks, notes>>,
         nextId' \in {nextId, nextId + 1},
         \A s \in Sessions :
            \/ at'[s] = at[s] /\ id'[s] = id[s]
            \/ /\ at[s] \in {"idle", "begin", "update"} /\ at'[s] \in {"begin", "update", "index"}
               /\ at'[s] = "index" => id'[s] = nextId
  PROVE  FeedParts'
<1> USE DEF FeedInv
<1>1. nextId \in 1 .. MaxRev + 1 /\ mine \in [Replicas -> SUBSET (1 .. MaxRev)]
  BY DEF StoreInv, TypeOK, Revs
<1>2. \A r \in Replicas : \A v \in mine[r] : v \in Nat /\ v < nextId
  BY <1>1, Bounds DEF OwnIds
<1>3. OwnIds'
  <2>1. \A r \in Replicas : \A v \in mine[r] : v < nextId'
    BY <1>1, <1>2, Bounds
  <2>2. \A s \in Sessions, r \in Replicas :
          Drawn(s)' /\ id'[s] \in mine[r] => at'[s] = "commit" /\ host[s] = r
    BY <1>2 DEF OwnIds, Drawn
  <2> QED
    BY <2>1, <2>2 DEF OwnIds
<1> QED
  BY <1>3 DEF FeedParts, HeardIsStored, MaskAccounted, NoEcho, Masked

\* save() marks its id as seen before anybody can hear of it; a row it hides
\* thereby is older than that id.
LEMMA FeedInserts ==
  ASSUME FeedInv, NEW s \in Sessions, SaveInserts(s)
  PROVE  FeedParts'
<1> USE DEF FeedInv
<1> DEFINE h == host[s]
<1>1. /\ lastSeen' = [lastSeen EXCEPT ![h] = SeenAtInsert(s)]
      /\ mine' = [mine EXCEPT ![h] = @ \cup {id[s]}] /\ at' = [at EXCEPT ![s] = "commit"]
      /\ UNCHANGED <<docs, active, nextId, tasks, notes, host, id, tried, marked>>
      /\ at[s] = "index"
  BY DEF SaveInserts, db, feed
<1>2. /\ h \in Replicas /\ lastSeen \in [Replicas -> 0 .. MaxRev]
      /\ mine \in [Replicas -> SUBSET (1 .. MaxRev)] /\ at \in [Sessions -> Stages]
      /\ nextId \in 1 .. MaxRev + 1 /\ active \subseteq DOMAIN docs
      /\ DOMAIN docs \subseteq 1 .. MaxRev
  BY DEF StoreInv, TypeOK, Revs
<1>3. id[s] \in 1 .. nextId - 1 /\ id[s] \notin DOMAIN docs
  BY <1>1 DEF StoreInv, IdsDrawn, Drawn
<1>4. /\ lastSeen'[h] \in {lastSeen[h], id[s]} /\ lastSeen[h] <= lastSeen'[h]
      /\ id[s] <= lastSeen'[h] /\ mine'[h] = mine[h] \cup {id[s]}
      /\ \A q \in Replicas \ {h} : lastSeen'[q] = lastSeen[q] /\ mine'[q] = mine[q]
      /\ at'[s] = "commit" /\ \A t \in Sessions \ {s} : at'[t] = at[t]
  BY <1>1, <1>2, <1>3, Bounds DEF SeenAtInsert, Raise
<1>5. HeardIsStored'
  <2>1. \A q \in Replicas : lastSeen'[q] \in {0} \cup DOMAIN docs \cup mine'[q]
    BY <1>2, <1>4 DEF HeardIsStored
  <2> QED
    BY <1>1, <2>1 DEF HeardIsStored
<1>6. OwnIds'
  <2>1. \A q \in Replicas : \A v \in mine'[q] : v <= lastSeen'[q] /\ v < nextId
    <3>1. \A q \in Replicas : \A v \in mine[q] : v \in Nat /\ v <= lastSeen[q] /\ v < nextId
      BY <1>2 DEF OwnIds
    <3> QED
      BY <1>2, <1>3, <1>4, <3>1, Bounds
  <2>2. ASSUME NEW t \in Sessions, NEW q \in Replicas, Drawn(t)', id[t] \in mine'[q]
        PROVE  at'[t] = "commit" /\ host[t] = q
    <3>1. CASE t = s
      <4>1. \A p \in Replicas : id[s] \notin mine[p]
        BY <1>1 DEF OwnIds, Drawn
      <4> QED
        BY <1>4, <2>2, <3>1, <4>1
    <3>2. CASE t # s
      <4>1. Drawn(t) /\ at'[t] = at[t]
        BY <1>4, <2>2, <3>2 DEF Drawn
      <4>2. id[t] # id[s]
        BY <1>1, <3>2, <4>1 DEF StoreInv, IdsDrawn, Drawn
      <4>3. id[t] \in mine[q]
        BY <1>4, <2>2, <4>2
      <4> QED
        BY <4>1, <4>3 DEF OwnIds
    <3> QED
      BY <3>1, <3>2
  <2> QED
    BY <1>1, <2>1, <2>2 DEF OwnIds
<1>7. MaskAccounted'
  <2> SUFFICES ASSUME NEW q \in Replicas, NEW v \in active, v <= lastSeen'[q]
               PROVE  \/ v \in tried[q] \/ Masked(q, v)'
                      \/ \E t \in Sessions : host[t] = q /\ id[t] = v /\ at'[t] = "committed"
    BY <1>1 DEF MaskAccounted
  <2>1. CASE v <= lastSeen[q]
    <3>1. \/ v \in tried[q] \/ Masked(q, v)
          \/ \E t \in Sessions : host[t] = q /\ id[t] = v /\ at[t] = "committed"
      BY <2>1 DEF MaskAccounted
    <3>2. Masked(q, v) => Masked(q, v)'
      BY <1>1, <1>4 DEF Masked
    <3> QED
      BY <1>1, <1>4, <3>1, <3>2
  <2>2. CASE ~(v <= lastSeen[q])
    <3>1. q = h /\ lastSeen'[h] = id[s]
      BY <1>4, <2>2
    <3>2. v < id[s]
      BY <1>2, <1>3, <3>1
    <3> QED
      BY <1>4, <3>1, <3>2 DEF Masked
  <2> QED
    BY <2>1, <2>2
<1>8. NoEcho'
  <2>1. \A q \in Replicas : [rev |-> id[s], stage |-> "get"] \notin tasks[q]
    BY <1>3 DEF HeardIsStored
  <2> QED
    BY <1>1, <1>4, <2>1 DEF NoEcho
<1> QED
  BY <1>5, <1>6, <1>7, <1>8 DEF FeedParts

\* A commit is hidden from its own replica only, or from one that has since
\* put a higher id into the index.
LEMMA FeedCommits ==
  ASSUME FeedInv, NEW s \in Sessions, SaveCommits(s)
  PROVE  FeedParts'
<1> USE DEF FeedInv
<1>1. /\ UNCHANGED <<nextId, lastSeen, tasks, host, id, tried, marked, mine>>
      /\ at' = [at EXCEPT ![s] = "committed"] /\ at[s] = "commit"
      /\ notes' = [r \in Replicas |-> IF listening[r] THEN Append(notes[r], id[s]) ELSE notes[r]]
  BY DEF SaveCommits, history
<1>2. /\ id[s] \in Revs /\ id[s] \notin DOMAIN docs /\ \A w \in DOMAIN docs : w < id[s]
      /\ active' = {id[s]} /\ DOMAIN docs' = DOMAIN docs \cup {id[s]}
  BY CommitFacts
<1>3. /\ lastSeen \in [Replicas -> 0 .. MaxRev] /\ notes \in [Replicas -> Seq(Revs)]
      /\ mine \in [Replicas -> SUBSET (1 .. MaxRev)]
      /\ at'[s] = "committed" /\ \A t \in Sessions \ {s} : at'[t] = at[t]
  BY <1>1 DEF StoreInv, TypeOK, Revs
<1>4. HeardIsStored'
  <2>1. ASSUME NEW r \in Replicas, NEW i \in 1 .. Len(notes'[r])
        PROVE  notes'[r][i] \in DOMAIN docs'
    <3>1. notes[r] \in Seq(Revs) /\ \A j \in 1 .. Len(notes[r]) : notes[r][j] \in DOMAIN docs
      BY <1>3 DEF HeardIsStored
    <3>2. CASE notes'[r] = Append(notes[r], id[s])
      BY <1>2, <3>1, <3>2
    <3>3. CASE notes'[r] = notes[r]
      BY <1>2, <3>1, <3>3
    <3> QED
      BY <1>1, <3>2, <3>3
  <2> QED
    BY <1>1, <1>2, <2>1 DEF HeardIsStored
<1>5. OwnIds'
  BY <1>1, <1>3 DEF OwnIds, Drawn
<1>6. MaskAccounted'
  <2> SUFFICES ASSUME NEW q \in Replicas, id[s] <= lastSeen[q]
               PROVE  \/ Masked(q, id[s])'
                      \/ \E t \in Sessions : host[t] = q /\ id[t] = id[s] /\ at'[t] = "committed"
    BY <1>1, <1>2 DEF MaskAccounted
  <2>1. lastSeen[q] \in {0} \cup DOMAIN docs \cup mine[q]
    BY DEF HeardIsStored
  <2>2. lastSeen[q] \in mine[q]
    BY <1>2, <1>3, <2>1 DEF Revs
  <2>3. CASE id[s] = lastSeen[q]
    BY <1>1, <1>3, <2>2, <2>3 DEF OwnIds, Drawn
  <2>4. CASE id[s] < lastSeen[q]
    BY <1>1, <2>2, <2>4 DEF Masked
  <2> QED
    BY <1>2, <1>3, <2>3, <2>4 DEF Revs
<1>7. NoEcho'
  BY <1>1 DEF NoEcho
<1> QED
  BY <1>4, <1>5, <1>6, <1>7 DEF FeedParts

\* A save that is answered is reloaded by its caller.
LEMMA FeedReturns ==
  ASSUME FeedInv, NEW s \in Sessions, SaveReturns(s)
  PROVE  FeedParts'
<1> USE DEF FeedInv
<1> DEFINE h == host[s]
<1>1. /\ UNCHANGED <<docs, active, nextId, lastSeen, notes, host, id, marked, mine>>
      /\ \E b \in {"idle", "done"} : at' = [at EXCEPT ![s] = b]
      /\ tasks' = GotReload(h, id[s], "resolve") /\ tried' = [tried EXCEPT ![h] = @ \cup {id[s]}]
      /\ at[s] = "committed"
  BY DEF SaveReturns, db, feed
<1>2. h \in Replicas /\ id[s] \in DOMAIN docs
  BY <1>1 DEF StoreInv, TypeOK, IdsDrawn
<1>3. /\ at'[s] \in {"idle", "done"} /\ \A t \in Sessions \ {s} : at'[t] = at[t]
      /\ tried'[h] = tried[h] \cup {id[s]}
      /\ \A q \in Replicas \ {h} : tried'[q] = tried[q]
      /\ \A q \in Replicas : \A t \in tasks'[q] :
            t \in tasks[q] \/ t = [rev |-> id[s], stage |-> "resolve"]
  BY <1>1, <1>2 DEF StoreInv, TypeOK, GotReload
<1>4. HeardIsStored'
  BY <1>1, <1>2, <1>3 DEF HeardIsStored
<1>5. OwnIds'
  BY <1>1, <1>3 DEF OwnIds, Drawn
<1>6. MaskAccounted'
  BY <1>1, <1>2, <1>3 DEF MaskAccounted, Masked
<1>7. NoEcho'
  BY <1>1, <1>3 DEF NoEcho
<1> QED
  BY <1>4, <1>5, <1>6, <1>7 DEF FeedParts

\* A process that ends forgets what it has seen and what it hid from itself.
LEMMA FeedExits ==
  ASSUME FeedInv, NEW r \in Replicas, Exits(r)
  PROVE  FeedParts'
<1> USE DEF FeedInv
<1>1. /\ UNCHANGED <<docs, active, nextId, host>>
      /\ \A s \in Sessions :
           \/ at'[s] = at[s] /\ id'[s] = id[s]
           \/ host[s] = r /\ at'[s] \in {"idle", "failed"}
  BY DEF Exits, db, Hosted, Over
<1>2. /\ lastSeen'[r] = 0 /\ tasks'[r] = {} /\ notes'[r] = <<>> /\ mine'[r] = {}
      /\ \A q \in Replicas \ {r} :
           /\ lastSeen'[q] = lastSeen[q] /\ tasks'[q] = tasks[q] /\ notes'[q] = notes[q]
           /\ mine'[q] = mine[q] /\ tried'[q] = tried[q] /\ marked'[q] = marked[q]
  BY DEF Exits, StoreInv, TypeOK
<1>3. HeardIsStored'
  BY <1>1, <1>2 DEF HeardIsStored
<1>4. OwnIds'
  BY <1>1, <1>2 DEF OwnIds, Drawn
<1>5. MaskAccounted'
  <2>1. \A v \in active : ~(v <= 0)
    BY DEF StoreInv, TypeOK, Revs
  <2> QED
    BY <1>1, <1>2, <2>1 DEF MaskAccounted, Masked
<1>6. NoEcho'
  BY <1>2 DEF NoEcho
<1> QED
  BY <1>3, <1>4, <1>5, <1>6 DEF FeedParts

\* A save that throws has hidden its row at most from its own replica, which
\* either ends or is marked.
LEMMA FeedThrows ==
  ASSUME FeedInv, NEW s \in Sessions, Throws(s),
         s \in Requests =>
           /\ \A q \in Replicas : marked[q] \subseteq marked'[q]
           /\ at[s] = "committed" => id[s] \in marked'[host[s]]
  PROVE  FeedParts'
<1> USE DEF FeedInv
<1>1. CASE s \in Replicas
  BY <1>1, FeedExits DEF Throws
<1>2. CASE s \notin Replicas
  <2>1. /\ UNCHANGED <<docs, active, nextId, lastSeen, tasks, notes, host, tried, mine>>
        /\ at'[s] = "failed"
        /\ \A t \in Sessions \ {s} : at'[t] = at[t] /\ id'[t] = id[t]
        /\ s \in Requests
    BY <1>2 DEF Throws, db, feed, StoreInv, TypeOK, Sessions
  <2>2. HeardIsStored' /\ NoEcho'
    BY <2>1 DEF HeardIsStored, NoEcho
  <2>3. OwnIds'
    BY <2>1 DEF OwnIds, Drawn
  <2>4. MaskAccounted'
    BY <2>1 DEF MaskAccounted, Masked
  <2> QED
    BY <2>2, <2>3, <2>4 DEF FeedParts
<1> QED
  BY <1>1, <1>2

\* Every step keeps what the feed hides accounted for.
LEMMA FeedNext == FeedInv /\ [Next]_vars => FeedInv'
<1> SUFFICES ASSUME FeedInv, [Next]_vars PROVE FeedParts'
  BY StoreNext DEF FeedInv, FeedParts
<1> USE DEF FeedInv
<1>0. /\ at \in [Sessions -> Stages] /\ id \in [Sessions -> 0 .. MaxRev]
      /\ host \in [Sessions -> Replicas] /\ active \subseteq DOMAIN docs
      /\ notes \in [Replicas -> Seq(Revs)] /\ nextId \in 1 .. MaxRev + 1
      /\ tasks \in [Replicas -> SUBSET [rev : Revs, stage : {"get", "resolve"}]]
      /\ tried \in [Replicas -> SUBSET Revs] /\ marked \in [Replicas -> SUBSET Revs]
  BY DEF StoreInv, TypeOK
<1>1. ASSUME NEW r \in Replicas, Booted(r) PROVE FeedParts'
  BY <1>1, FeedQuiet DEF Booted, db, feed, session, history
<1>2. ASSUME NEW r \in Replicas, Connects(r) PROVE FeedParts'
  BY <1>2, FeedQuiet DEF Connects, db, session, history
<1>3. ASSUME NEW r \in Replicas, Disconnects(r) PROVE FeedParts'
  <2>1. \A q \in Replicas : notes'[q] \in {notes[q], <<>>}
    BY <1>0, <1>3 DEF Disconnects
  <2> QED
    BY <1>3, <2>1, FeedQuiet DEF Disconnects, db, session, history
<1>4. ASSUME NEW r \in Replicas, StaysUnconfigured(r) PROVE FeedParts'
  BY <1>4, FeedQuiet DEF StaysUnconfigured, db, feed, session, history
<1>5. ASSUME NEW r \in Replicas, NEW v \in Revs, Fetched(r, v) PROVE FeedParts'
  <2>1. \A q \in Replicas : \A t \in tasks'[q] :
           t \in tasks[q] \/ (t.stage = "resolve" /\ t.rev \in DOMAIN docs)
    BY <1>0, <1>5 DEF Fetched
  <2> QED
    BY <1>5, <2>1, FeedQuiet DEF Fetched, db, feed, session, history
<1>6. ASSUME NEW r \in Replicas, NEW v \in Revs, Applied(r, v) PROVE FeedParts'
  <2>1. \A q \in Replicas : \A t \in tasks'[q] : t \in tasks[q]
    BY <1>0, <1>6 DEF Applied
  <2> QED
    BY <1>6, <2>1, FeedQuiet DEF Applied, db, feed, session, history
<1>7. ASSUME NEW r \in Replicas, NEW t \in tasks[r], ReloadFails(r, t) PROVE FeedParts'
  <2>1. \A q \in Replicas : \A u \in tasks'[q] : u \in tasks[q]
    BY <1>0, <1>7 DEF ReloadFails
  <2> QED
    BY <1>7, <2>1, FeedQuiet DEF ReloadFails, db, feed, session, history
<1>8. ASSUME NEW r \in Replicas, Polls(r) PROVE FeedParts'
  <2>1. PICK v \in DOMAIN docs : Announce(r, v)
    BY <1>0, <1>8 DEF Polls
  <2> QED
    BY <1>8, <2>1, FeedAnnounce DEF Polls, db, feed, session
<1>9. ASSUME NEW r \in Replicas, Notified(r) PROVE FeedParts'
  <2>1. /\ notes[r] # <<>> /\ notes' = [notes EXCEPT ![r] = Tail(@)]
        /\ Announce(r, Head(notes[r]))
        /\ UNCHANGED <<docs, active, nextId, mine, marked, host, at, id>>
    BY <1>9 DEF Notified, db, session
  <2>2. notes[r] \in Seq(Revs) /\ Len(notes[r]) >= 1 /\ Head(notes[r]) = notes[r][1]
    BY <1>0, <2>1
  <2>3. Head(notes[r]) \in DOMAIN docs
    BY <2>2 DEF HeardIsStored
  <2>4. \A q \in Replicas : \A i \in 1 .. Len(notes'[q]) :
           \E j \in 1 .. Len(notes[q]) : notes'[q][i] = notes[q][j]
    <3> SUFFICES ASSUME NEW q \in Replicas, NEW i \in 1 .. Len(notes'[q])
                 PROVE  \E j \in 1 .. Len(notes[q]) : notes'[q][i] = notes[q][j]
      OBVIOUS
    <3>1. CASE q = r
      <4>1. notes'[q] = Tail(notes[r])
        BY <1>0, <2>1, <3>1
      <4>2. i + 1 \in 1 .. Len(notes[r]) /\ notes'[q][i] = notes[r][i + 1]
        BY <2>2, <4>1
      <4> QED
        BY <3>1, <4>2
    <3>2. CASE q # r
      BY <1>0, <2>1, <3>2
    <3> QED
      BY <3>1, <3>2
  <2> QED
    BY <2>1, <2>3, <2>4, FeedAnnounce
<1>10. ASSUME NEW r \in Replicas, AdminReads(r) PROVE FeedParts'
  <2>1. /\ marked' = [marked EXCEPT ![r] = @ \cup Unseen(r, active)]
        /\ lastSeen' = [lastSeen EXCEPT ![r] = SeenByRead(r)]
        /\ UNCHANGED <<docs, active, nextId, mine, host, notes, at, id, tried, tasks>>
    BY <1>10 DEF AdminReads, db, feed, session
  <2>2. \A v \in active : v > lastSeen[r] => v \in marked'[r] \cup tried'[r]
    BY <1>0, <2>1 DEF Unseen
  <2>3. \A q \in Replicas : marked[q] \subseteq marked'[q] /\ tried[q] \subseteq tried'[q]
    BY <1>0, <2>1
  <2> QED
    BY <2>1, <2>2, <2>3, FeedReads
<1>11. ASSUME NEW s \in Requests, PatchReads(s) PROVE FeedParts'
  <2> DEFINE h == host[s]
  <2>1. /\ marked' = [marked EXCEPT ![h] = @ \cup Unseen(h, active)]
        /\ lastSeen' = [lastSeen EXCEPT ![h] = SeenByRead(h)]
        /\ at[s] = "idle" /\ at' = [at EXCEPT ![s] = "begin"]
        /\ UNCHANGED <<docs, active, nextId, mine, host, notes, id, tried, tasks>>
    BY <1>11 DEF PatchReads, db, feed
  <2>2. h \in Replicas
    BY <1>0 DEF Sessions
  <2>3. \A v \in active : v > lastSeen[h] => v \in marked'[h] \cup tried'[h]
    BY <1>0, <2>1, <2>2 DEF Unseen
  <2>4. \A q \in Replicas : marked[q] \subseteq marked'[q] /\ tried[q] \subseteq tried'[q]
    BY <1>0, <2>1
  <2>5. \A t \in Sessions : \/ at'[t] = at[t] /\ id'[t] = id[t]
                            \/ at[t] = "idle" /\ at'[t] = "begin"
    BY <1>0, <2>1
  <2> QED
    BY <2>1, <2>2, <2>3, <2>4, <2>5, FeedReads
<1>12. ASSUME NEW r \in Replicas, BootsFromStore(r) PROVE FeedParts'
  <2>1. PICK v \in active : /\ tasks' = GotReload(r, v, "resolve")
                            /\ tried' = [tried EXCEPT ![r] = @ \cup {v}]
    BY <1>12 DEF BootsFromStore
  <2>2. /\ lastSeen' = [lastSeen EXCEPT ![r] = SeenByRead(r)]
        /\ UNCHANGED <<docs, active, nextId, mine, host, notes, at, id, marked>>
    BY <1>12 DEF BootsFromStore, db, feed, session
  <2>3. \A w \in active : w = v
    BY DEF StoreInv, TypeOK, NewestLive, Revs
  <2>4. \A q \in Replicas : tried[q] \subseteq tried'[q]
    BY <1>0, <2>1
  <2>5. \A q \in Replicas : \A t \in tasks'[q] :
           t \in tasks[q] \/ (t.stage = "resolve" /\ t.rev \in active)
    BY <1>0, <2>1 DEF GotReload
  <2>6. v \in tried'[r]
    BY <1>0, <2>1
  <2> QED
    BY <2>2, <2>3, <2>4, <2>5, <2>6, FeedReads
<1>13. ASSUME NEW s \in Sessions,
              at[s] \in {"idle", "begin", "update"},
              \/ /\ \E b \in {"begin", "update"} : at' = [at EXCEPT ![s] = b]
                 /\ UNCHANGED <<nextId, id>>
              \/ /\ at' = [at EXCEPT ![s] = "index"] /\ id' = [id EXCEPT ![s] = nextId]
                 /\ nextId' = nextId + 1,
              UNCHANGED <<docs, active, lastSeen, mine, tried, marked, host, tasks, notes>>
       PROVE  FeedParts'
  <2>1. \A t \in Sessions :
            \/ at'[t] = at[t] /\ id'[t] = id[t]
            \/ /\ at[t] \in {"idle", "begin", "update"} /\ at'[t] \in {"begin", "update", "index"}
               /\ at'[t] = "index" => id'[t] = nextId
    BY <1>0, <1>13
  <2>2. nextId' \in {nextId, nextId + 1}
    BY <1>13
  <2> QED
    BY <1>13, <2>1, <2>2, FeedSessions
<1>14. ASSUME NEW s \in Requests, PutArrives(s) PROVE FeedParts'
  <2>1. s \in Sessions
    BY DEF Sessions
  <2> QED
    BY <1>13, <1>14, <2>1 DEF PutArrives, db, feed, history
<1>15. ASSUME NEW r \in Replicas, BootsBySeeding(r) PROVE FeedParts'
  <2>1. /\ active = {} /\ at' = [at EXCEPT ![r] = "begin"] /\ docs = docs'
        /\ UNCHANGED <<active, nextId, lastSeen, mine, tried, marked, host, tasks, notes, id>>
    BY <1>15 DEF BootsBySeeding, db, feed, history
  <2>2. /\ at'[r] = "begin" /\ \A t \in Sessions \ {r} : at'[t] = at[t]
    BY <1>0, <2>1 DEF Sessions
  <2> QED
    BY <2>1, <2>2
       DEF FeedParts, HeardIsStored, OwnIds, MaskAccounted, NoEcho, Drawn
<1>16. ASSUME NEW s \in Sessions, SaveWaits(s) PROVE FeedParts'
  BY <1>13, <1>16 DEF SaveWaits, db, feed, history
<1>17. ASSUME NEW s \in Sessions, SaveUpdates(s) PROVE FeedParts'
  BY <1>13, <1>17 DEF SaveUpdates, feed, history
<1>18. ASSUME NEW s \in Sessions, SaveConflicts(s) PROVE FeedParts'
  BY <1>18, FeedThrows DEF SaveConflicts
<1>19. ASSUME NEW s \in Sessions, SaveFails(s) PROVE FeedParts'
  <2>1. s \in Requests =>
          marked' = [marked EXCEPT ![host[s]] = IF at[s] = "committed" THEN @ \cup {id[s]} ELSE @]
    BY <1>19 DEF SaveFails
  <2>2. s \in Requests =>
           /\ \A q \in Replicas : marked[q] \subseteq marked'[q]
           /\ at[s] = "committed" => id[s] \in marked'[host[s]]
    <3>1. CASE s \in Requests /\ at[s] = "committed"
      <4>1. marked' = [marked EXCEPT ![host[s]] = @ \cup {id[s]}]
        BY <2>1, <3>1
      <4> QED
        BY <1>0, <4>1
    <3>2. CASE s \in Requests /\ at[s] # "committed"
      <4>1. marked' = [marked EXCEPT ![host[s]] = @]
        BY <2>1, <3>2
      <4> QED
        BY <1>0, <3>2, <4>1
    <3> QED
      BY <3>1, <3>2
  <2> QED
    BY <1>19, <2>2, FeedThrows DEF SaveFails
<1>20. ASSUME NEW r \in Replicas, Crashes(r) PROVE FeedParts'
  BY <1>20, FeedExits DEF Crashes
<1>21. CASE UNCHANGED vars
  BY <1>21 DEF vars, db, feed, session, history, FeedParts, HeardIsStored, OwnIds,
               MaskAccounted, NoEcho, Masked, Drawn
<1>22. ASSUME NEW s \in Sessions, SaveStep(s) \/ SaveFails(s) PROVE FeedParts'
  BY <1>16, <1>17, <1>18, <1>19, <1>22, FeedInserts, FeedCommits, FeedReturns DEF SaveStep
<1>23. ASSUME NEW r \in Replicas, BootsUnconfigured(r) \/ SeedRejected(r) PROVE FeedParts'
  BY <1>4, <1>23 DEF BootsUnconfigured, SeedRejected
<1> QED
  BY <1>1, <1>2, <1>3, <1>5, <1>6, <1>7, <1>8, <1>9, <1>10, <1>11, <1>12, <1>14, <1>15,
     <1>20, <1>21, <1>22, <1>23 DEF Next, ReplicaStep

\* No stored revision is newer than the active one, so an own id above it is of
\* a save that is about to commit or was rolled back.
LEMMA MaskedIsHidden ==
  ASSUME StoreInv, NEW r \in Replicas, NEW v \in active, Masked(r, v)
  PROVE  Hidden(r, v)
<1>1. CASE v \in marked[r]
  BY <1>1 DEF Hidden
<1>2. CASE \E w \in mine[r] : v < w
  <2>1. PICK w \in mine[r] : v < w
    BY <1>2
  <2>2. v \in Nat /\ w \in Nat
    BY DEF StoreInv, TypeOK, Revs
  <2>3. w \notin DOMAIN docs
    BY <2>1, <2>2 DEF StoreInv, NewestLive
  <2>4. w \in Replacing(r) \cup Burned(r)
    BY <2>3 DEF Burned
  <2> QED
    BY <2>1, <2>4 DEF Hidden
<1> QED
  BY <1>1, <1>2 DEF Masked

\* What lastSeen keeps from a replica's feed (config-store.ts 125-146) is what
\* the replica saves itself and, besides, only what it has begun to reload, has
\* read or saved through the admin API, is about to replace, or what is older
\* than an id burned by a rollback of its own; what it saved it never reloads
\* by feed.
THEOREM FeedIsExact == Spec => []FeedExact
<1>1. FeedInv => FeedExact
  BY MaskedIsHidden DEF FeedInv, MaskAccounted, FeedExact, NothingElseMasked
<1> QED
  BY <1>1, FeedInit, FeedNext, PTL DEF Spec

-----------------------------------------------------------------------------
(* The append-only log.                                                      *)

\* What a replica is about to apply is stored.
LogInv == StoreInv /\ HeardIsStored

Live == IF active = {} THEN 0 ELSE CHOOSE v \in active : TRUE

\* An empty store with every replica down is an empty log nobody serves.
LEMMA LogInitially == Init => Log!LogInit
  BY DEF Init, Log!LogInit

\* A process that ends is a replica that stops serving.
LEMMA ExitsStop ==
  ASSUME NEW r \in Replicas, Exits(r)
  PROVE  Log!LogNext
<1>1. Log!Stop(r)
  BY DEF Exits, db, Log!Stop
<1> QED
  BY <1>1 DEF Log!LogNext

\* A commit stores a document under a number above all others, and it is live.
LEMMA CommitActivates ==
  ASSUME StoreInv, NEW s \in Sessions, SaveCommits(s)
  PROVE  Log!LogNext
<1>1. /\ id[s] \in Revs /\ active' = {id[s]}
      /\ \A w \in DOMAIN docs : w < id[s]
  BY CommitFacts
<1>2. doc[s] \in SUBSET Requests
  BY DEF StoreInv, TypeOK
<1>3. Live' = id[s]
  <2>1. (CHOOSE v \in active' : TRUE) = id[s]
    BY <1>1, Zenon
  <2> QED
    BY <1>1, <2>1 DEF Live
<1>4. /\ docs' = [w \in DOMAIN docs \cup {id[s]} |-> IF w = id[s] THEN doc[s] ELSE docs[w]]
      /\ served' = served
  BY DEF SaveCommits
<1>5. Log!Activate(id[s], doc[s])
  BY <1>1, <1>3, <1>4 DEF Log!Activate, Live
<1> QED
  BY <1>1, <1>2, <1>5 DEF Log!LogNext

\* A reload that ends in the holder adopts a stored revision.
LEMMA ApplyAdopts ==
  ASSUME LogInv, NEW r \in Replicas, NEW v \in Revs, Applied(r, v)
  PROVE  Log!LogNext
<1>1. v \in DOMAIN docs
  BY DEF LogInv, HeardIsStored, Applied
<1>2. Log!Adopt(r, v)
  BY <1>1 DEF Applied, db, Log!Adopt
<1> QED
  BY <1>2 DEF Log!LogNext

\* Every step of the store and the replicas is a step of the log or stutters.
LEMMA LogStep == LogInv /\ [Next]_vars => [Log!LogNext]_(Log!logVars)
<1> SUFFICES ASSUME LogInv, [Next]_vars PROVE [Log!LogNext]_(Log!logVars)
  OBVIOUS
<1>1. ASSUME UNCHANGED <<docs, active, served>> PROVE [Log!LogNext]_(Log!logVars)
  BY <1>1 DEF Log!logVars
<1>2. ASSUME NEW r \in Replicas,
             \/ Booted(r) \/ Polls(r) \/ Notified(r) \/ \E v \in Revs : Fetched(r, v)
             \/ Connects(r) \/ AdminReads(r) \/ BootsFromStore(r) \/ BootsBySeeding(r)
             \/ BootsUnconfigured(r) \/ Disconnects(r) \/ SeedRejected(r)
             \/ \E t \in tasks[r] : ReloadFails(r, t)
      PROVE  [Log!LogNext]_(Log!logVars)
  BY <1>1, <1>2 DEF Booted, Polls, Notified, Fetched, Connects, AdminReads, BootsFromStore,
        BootsBySeeding, BootsUnconfigured, Disconnects, SeedRejected, StaysUnconfigured,
        ReloadFails, db
<1>3. ASSUME NEW r \in Replicas, Crashes(r) PROVE Log!LogNext
  BY <1>3, ExitsStop DEF Crashes
<1>4. ASSUME NEW s \in Requests, PutArrives(s) \/ PatchReads(s)
      PROVE  [Log!LogNext]_(Log!logVars)
  BY <1>1, <1>4 DEF PutArrives, PatchReads, db
<1>5. ASSUME NEW s \in Sessions, Throws(s) PROVE [Log!LogNext]_(Log!logVars)
  BY <1>1, <1>5, ExitsStop DEF Throws, db
<1>6. ASSUME NEW s \in Sessions, SaveStep(s) \/ SaveFails(s)
      PROVE  [Log!LogNext]_(Log!logVars)
  <2>1. CASE SaveCommits(s)
    BY <2>1, CommitActivates DEF LogInv
  <2>2. CASE SaveConflicts(s) \/ SaveFails(s)
    BY <1>5, <2>2 DEF SaveConflicts, SaveFails
  <2>3. CASE SaveWaits(s) \/ SaveUpdates(s) \/ SaveInserts(s) \/ SaveReturns(s)
    BY <1>1, <2>3 DEF SaveWaits, SaveUpdates, SaveInserts, SaveReturns, db
  <2> QED
    BY <1>6, <2>1, <2>2, <2>3 DEF SaveStep
<1>7. CASE UNCHANGED vars
  BY <1>1, <1>7 DEF vars, db
<1> QED
  BY <1>2, <1>3, <1>4, <1>6, <1>7, ApplyAdopts DEF Next, ReplicaStep

\* "History is append-only and exactly one row is active" (the class comment of
\* PostgresConfigStore), as the log says it: revisions get ever higher numbers,
\* a stored document never changes, the newest is live, and replicas serve
\* nothing but stored revisions.
THEOREM LogImplemented == Spec => ImplementsLog
<1>1. FeedInv => LogInv
  BY DEF FeedInv, LogInv
<1> QED
  BY <1>1, FeedInit, FeedNext, LogInitially, LogStep, PTL DEF Spec, ImplementsLog, Log!LogSpec

=============================================================================
