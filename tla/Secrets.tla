------------------------------ MODULE Secrets ------------------------------
(***************************************************************************)
(* Sealed credentials and the documents that refer to them:                *)
(*   packages/core/src/secrets/*, packages/postgres/src/secret-store.ts    *)
(*   packages/admin/src/routes/config.ts, secrets.ts                       *)
(*   packages/node/src/import-config.ts                                    *)
(*                                                                         *)
(* A document gives each path that can hold a credential a leaf: nothing,  *)
(* plain text, a reference to a row, or a ${VAR}.  A revision is stored in *)
(* one step (ConfigReplication has the transaction).  A ciphertext is its  *)
(* value and the key that sealed it; tampering with rows is left out.      *)
(***************************************************************************)
EXTENDS Absence, Integers, Sequences, SequencesExt, FiniteSets, FiniteSetsExt

CONSTANTS Credentials,   \* the paths, in the order a document is walked: 1 .. n
          Typed,         \* values an operator may type
          Seeded,        \* the value in the environment's and in a file's document
          SecretIds,
          Keyrings,      \* sequences of the keyrings the server is started with; keys are numbers
          Operators,     \* calls of the admin API and of the commands
          Doings,        \* what each of them may do
          MaxRevisions   \* bound of the model

ASSUME SecretAssumption == /\ Credentials \subseteq Nat
                           /\ Keyrings \subseteq Seq(Seq(Nat)) \ {<<>>}

VARIABLES rows,       \* the table: id -> a row, or Null
          revisions,  \* every document stored, the active one last
          keyrings,   \* the keyring in use (active key first), and those to come
          tasks,      \* what each operator's call is at
          served,     \* the credentials of the live bundle
          meant       \* history: what was last typed for the credential at a path

secretVars == <<rows, revisions, keyrings, tasks, served, meant>>

Nothing      == [kind |-> "none", of |-> Null]
Plain(v)     == [kind |-> "plain", of |-> v]
Ref(id)      == [kind |-> "ref", of |-> id]
Variable     == [kind |-> "env", of |-> Null]
Resting      == [pc |-> "idle", doc |-> Null, meant |-> Null, id |-> Null, at |-> Null,
                 value |-> Null, todo |-> {}, force |-> FALSE]

active  == Last(revisions)
keyring == Head(keyrings)
Current == Head(keyring)
NoKeys  == keyring = <<>>

SecretInit ==
  /\ rows = [i \in SecretIds |-> Null]
  /\ \E leaf \in {Nothing, Plain(Seeded), Variable} :
       revisions = <<[p \in Credentials |-> IF p = 1 THEN leaf ELSE Nothing]>>
  /\ keyrings \in Keyrings
  /\ tasks = [o \in Operators |-> Resting]
  /\ served = [p \in Credentials |-> Null]
  /\ meant = [p \in Credentials |-> Null]

SecretOff ==
  /\ rows = Null /\ revisions = Null /\ keyrings = Null
  /\ tasks = Null /\ served = Null /\ meant = Null

-----------------------------------------------------------------------------
(* The store *)

Stored(i)   == rows[i] # Null
Readable(i) == Stored(i) /\ rows[i].key \in ToSet(keyring)
ByName(p)  == {i \in SecretIds : Stored(i) /\ rows[i].name = p}
FreeIds      == {i \in SecretIds : ~Stored(i) /\ \A o \in Operators : tasks[o].id # i}
Row(p, v)  == [name |-> p, value |-> v, key |-> Current]

(* Names are unique: the insert of a second row of one name fails.         *)
NameTaken(i, p) == ByName(p) \ {i} # {}

(* Every reference must have a row that a key of the ring opens.  A        *)
(* document may be rejected for other reasons too.                         *)
resolveSecretRefs(doc) ==
  \A p \in Credentials : doc[p].kind = "ref" => ~NoKeys /\ Readable(doc[p].of)

Substituted(doc) ==
  [p \in Credentials |-> CASE doc[p].kind = "ref"   -> rows[doc[p].of].value
                           [] doc[p].kind = "plain" -> doc[p].of
                           [] OTHER -> Null]

Moves(o, task) == tasks' = [tasks EXCEPT ![o] = task]
Finishes(o, pc)  == Moves(o, [Resting EXCEPT !.pc = pc])
MayDo(o, what) == tasks[o].pc = "idle" /\ what \in Doings[o]
Is(o, pc)    == tasks[o].pc = pc

-----------------------------------------------------------------------------
(* Saving a document *)

(* Edits of the active document, with what they mean for `meant`.          *)
Type(p, v)   == [doc |-> [active EXCEPT ![p] = Plain(v)], meant |-> [meant EXCEPT ![p] = v]]
Drop(p)      == [doc |-> [active EXCEPT ![p] = Nothing], meant |-> [meant EXCEPT ![p] = Null]]
Rename(p, q) == [doc   |-> [active EXCEPT ![p] = Nothing, ![q] = active[p]],
                 meant |-> [meant EXCEPT ![p] = Null, ![q] = meant[p]]]
Again(k)     == [doc |-> revisions[k], meant |-> meant]

Edits(o) ==
  {Type(p, v) : p \in Credentials, v \in Typed}
    \cup {Drop(p) : p \in {c \in Credentials : MayDo(o, "drop")}}
    \cup {Rename(p, q) : p \in Credentials,
                         q \in {c \in Credentials : MayDo(o, "rename") /\ active[c] = Nothing}}
    \cup {Again(k) : k \in {j \in DOMAIN revisions : MayDo(o, "rollback")}}

(* PUT /config, a block or a rule, PATCH, or a rollback: the document is   *)
(* made from the active one, read now.                                     *)
SaveBegins(o) ==
  /\ MayDo(o, "save") /\ Len(revisions) < MaxRevisions
  /\ \E edit \in Edits(o) :
       Moves(o, [Resting EXCEPT !.pc = "seal", !.doc = edit.doc, !.meant = edit.meant])
  /\ UNCHANGED <<rows, revisions, keyrings, served, meant>>

PlainPaths(doc) == {p \in Credentials : doc[p].kind = "plain"}

(* Mutant: plain text is refused only where there was none. *)
IntroducedPaths(doc) == {p \in PlainPaths(doc) : active[p].kind # "plain"}

Introduced(doc) == {p \in PlainPaths(doc) : doc[p] # active[p]}

(* Without a keyring, only plain text that the active document has at the  *)
(* same path may stay.                                                     *)
SealRefused(o) ==
  /\ Is(o, "seal") /\ NoKeys
  /\ IF Introduced(tasks[o].doc) # {} THEN Finishes(o, "refused")
     ELSE Moves(o, [tasks[o] EXCEPT !.pc = "validate"])
  /\ UNCHANGED <<rows, revisions, keyrings, served, meant>>

(* With one, each plain text is put under the name of its path: the row of *)
(* that name keeps its id.                                                 *)
SealFinds(o) ==
  /\ Is(o, "seal") /\ ~NoKeys
  /\ LET left == PlainPaths(tasks[o].doc)
         p    == Min(left)
     IN IF left = {} THEN Moves(o, [tasks[o] EXCEPT !.pc = "validate"])
        ELSE \E i \in IF ByName(p) = {} THEN FreeIds ELSE ByName(p) :
               Moves(o, [tasks[o] EXCEPT !.pc = "upsert", !.id = i, !.at = p,
                                           !.value = tasks[o].doc[p].of])
  /\ UNCHANGED <<rows, revisions, keyrings, served, meant>>

Upsert(o) ==
  LET t == tasks[o] IN
  /\ Is(o, "upsert")
  /\ IF NameTaken(t.id, t.at) THEN Finishes(o, "failed") /\ UNCHANGED rows
     ELSE /\ rows' = [rows EXCEPT ![t.id] = Row(t.at, t.value)]
          /\ IF t.doc = Null THEN Finishes(o, "done")
             ELSE Moves(o, [t EXCEPT !.pc = "seal", !.doc[t.at] = Ref(t.id), !.id = Null])
  /\ UNCHANGED <<revisions, keyrings, served, meant>>

Validate(o) ==
  /\ Is(o, "validate")
  /\ \/ resolveSecretRefs(tasks[o].doc) /\ Moves(o, [tasks[o] EXCEPT !.pc = "store"])
     \/ Finishes(o, "refused")
  /\ UNCHANGED <<rows, revisions, keyrings, served, meant>>

Store(o) ==
  /\ Is(o, "store") /\ Len(revisions) < MaxRevisions
  /\ revisions' = Append(revisions, tasks[o].doc)
  /\ meant' = tasks[o].meant
  /\ Moves(o, [tasks[o] EXCEPT !.pc = "reload"])
  /\ UNCHANGED <<rows, keyrings, served>>

(* The saving replica applies what it saved, or keeps what it had.         *)
Applies(o) ==
  /\ Is(o, "reload")
  /\ served' = IF resolveSecretRefs(tasks[o].doc) THEN Substituted(tasks[o].doc) ELSE served
  /\ Finishes(o, "done")
  /\ UNCHANGED <<rows, revisions, keyrings, meant>>

(* import-config: a file, validated and stored as it is.                   *)
Import(o) ==
  /\ MayDo(o, "import") /\ Len(revisions) < MaxRevisions
  /\ \E p \in Credentials, leaf \in {Plain(Seeded), Variable} \cup {Ref(i) : i \in SecretIds} :
       Moves(o, [Resting EXCEPT !.pc = "validate", !.meant = meant,
                     !.doc = [q \in Credentials |-> IF q = p THEN leaf ELSE Nothing]])
  /\ UNCHANGED <<rows, revisions, keyrings, served, meant>>

-----------------------------------------------------------------------------
(* The routes of the secrets *)

(* PUT /secrets: a new value for a name; it is meant for every reference.  *)
PutFinds(o) ==
  /\ MayDo(o, "put") /\ ~NoKeys
  /\ \E p \in Credentials, v \in Typed : \E i \in IF ByName(p) = {} THEN FreeIds ELSE ByName(p) :
       /\ Moves(o, [Resting EXCEPT !.pc = "upsert", !.id = i, !.at = p, !.value = v])
       /\ meant' = [q \in Credentials |-> IF active[q] = Ref(i) THEN v ELSE meant[q]]
  /\ UNCHANGED <<rows, revisions, keyrings, served>>

DeleteDescribes(o) ==
  /\ MayDo(o, "delete") /\ ~NoKeys
  /\ \E i \in SecretIds, force \in BOOLEAN :
       Stored(i) /\ Moves(o, [Resting EXCEPT !.pc = "check", !.id = i, !.force = force])
  /\ UNCHANGED <<rows, revisions, keyrings, served, meant>>

DeleteChecks(o) ==
  /\ Is(o, "check")
  /\ IF ~tasks[o].force /\ \E p \in Credentials : active[p] = Ref(tasks[o].id)
       THEN Finishes(o, "refused")
     ELSE Moves(o, [tasks[o] EXCEPT !.pc = "delete"])
  /\ UNCHANGED <<rows, revisions, keyrings, served, meant>>

Delete(o) ==
  /\ Is(o, "delete")
  /\ rows' = [rows EXCEPT ![tasks[o].id] = Null]
  /\ Finishes(o, "done")
  /\ UNCHANGED <<revisions, keyrings, served, meant>>

(* POST /secrets/rotate: the rows as they are now, one after the other.    *)
RotateLists(o) ==
  /\ MayDo(o, "rotate") /\ ~NoKeys
  /\ Moves(o, [Resting EXCEPT !.pc = "rotate",
                   !.todo = {[id |-> i, row |-> rows[i]] : i \in {j \in SecretIds : Stored(j)}}])
  /\ UNCHANGED <<rows, revisions, keyrings, served, meant>>

(* Mutant: stops at the first row that is up to date. *)
StaleUpTo(todo) ==
  {held \in todo : \A h \in todo : h.row.name <= held.row.name => h.row.key # Current}

Stale(todo) == {held \in todo : held.row.key # Current}

(* By name. *)
RotateRow(o) ==
  LET left == Stale(tasks[o].todo) IN
  /\ Is(o, "rotate")
  /\ \/ left = {} /\ Finishes(o, "rotated") /\ UNCHANGED rows
     \/ \E held \in left :
          /\ \A h \in left : held.row.name <= h.row.name
          /\ IF held.row.key \notin ToSet(keyring) \/ NameTaken(held.id, held.row.name)
               THEN Finishes(o, "failed") /\ UNCHANGED rows
             ELSE /\ rows' = [rows EXCEPT ![held.id] = [held.row EXCEPT !.key = Current]]
                  /\ Moves(o, [tasks[o] EXCEPT !.todo = left \ {held}])
  /\ UNCHANGED <<revisions, keyrings, served, meant>>

-----------------------------------------------------------------------------
(* A restart with the next keyring: calls are lost, the active document is *)
(* loaded if it resolves.                                                  *)
Restarts ==
  /\ Len(keyrings) > 1
  /\ keyrings' = Tail(keyrings)
  /\ tasks' = [o \in Operators |-> IF tasks[o].pc = "idle" THEN Resting
                                   ELSE [Resting EXCEPT !.pc = "over"]]
  /\ LET resolves == \A p \in Credentials : active[p].kind = "ref" =>
                       Stored(active[p].of) /\ rows[active[p].of].key \in ToSet(Head(keyrings'))
     IN served' = IF resolves THEN Substituted(active) ELSE [p \in Credentials |-> Null]
  /\ UNCHANGED <<rows, revisions, meant>>

SecretsNext ==
  /\ rows # Null
  /\ \/ Restarts
     \/ \E o \in Operators :
          \/ SaveBegins(o) \/ SealRefused(o) \/ SealFinds(o) \/ Upsert(o) \/ Validate(o)
          \/ Store(o) \/ Applies(o) \/ Import(o) \/ PutFinds(o) \/ DeleteDescribes(o)
          \/ DeleteChecks(o) \/ Delete(o) \/ RotateLists(o) \/ RotateRow(o)

-----------------------------------------------------------------------------
(* Properties *)

(* What an operator types is never stored in the clear, with or without a  *)
(* keyring, through rollbacks, renames and overlapping saves: a revision's *)
(* plain text is the environment's or a file's (config.ts: sealInbound).   *)
TypedNeverStored ==
  revisions # Null =>
    \A k \in DOMAIN revisions : \A p \in PlainPaths(revisions[k]) : revisions[k][p].of = Seeded

(* After a rotation that succeeded, and until the next restart, the old    *)
(* keys are not needed: every row is sealed by the active one, whatever    *)
(* was put or deleted while it ran (store.ts: rotate).                     *)
RotationCompletes ==
  rows # Null =>
    \A o \in Operators : Is(o, "rotated") => \A i \in SecretIds : Stored(i) => rows[i].key = Current

(* What the code's comment says of a save: "An existing reference is       *)
(* passed through untouched" (credentials.ts).  While no save was refused  *)
(* halfway, a credential in the active document has the value that was     *)
(* last typed for it, wherever its reference was moved.                    *)
ReferenceKeepsValue ==
  (rows # Null /\ \A o \in Operators : tasks[o].pc \in {"idle", "reload", "done"}) =>
    \A p \in Credentials :
      active[p].kind = "ref" /\ meant[p] # Null => rows[active[p].of].value = meant[p]
=============================================================================
