---------------------------- MODULE RevisionLog ----------------------------
(***************************************************************************)
(* What the configuration store promises its readers, said without         *)
(* transactions, feeds or polls ("History is append-only and exactly one   *)
(* row is active", class comment of PostgresConfigStore): revisions get    *)
(* ever higher numbers, a stored document never changes, the live revision *)
(* is the newest one, and a replica serves nothing but stored revisions.   *)
(* ConfigReplication implements this.                                      *)
(***************************************************************************)
EXTENDS Naturals

CONSTANTS Replicas, Revisions, Documents

VARIABLES history,  \* revision |-> document, for the revisions stored so far
          live,     \* the active revision; 0 before the first
          serving   \* the revision each replica serves; 0 for none

logVars == <<history, live, serving>>

LogInit == /\ history = [v \in {} |-> {}]
           /\ live = 0
           /\ serving = [r \in Replicas |-> 0]

\* A document is stored under a new, higher number and goes live.
Activate(v, d) ==
  /\ \A w \in DOMAIN history : w < v
  /\ history' = [w \in DOMAIN history \cup {v} |-> IF w = v THEN d ELSE history[w]]
  /\ live' = v
  /\ UNCHANGED serving

\* A replica adopts a stored revision, not necessarily the newest.
Adopt(r, v) ==
  /\ v \in DOMAIN history
  /\ serving' = [serving EXCEPT ![r] = v]
  /\ UNCHANGED <<history, live>>

\* A replica stops serving when its process ends.
Stop(r) ==
  /\ serving' = [serving EXCEPT ![r] = 0]
  /\ UNCHANGED <<history, live>>

LogNext == \/ \E v \in Revisions, d \in Documents : Activate(v, d)
           \/ \E r \in Replicas : \/ \E v \in Revisions : Adopt(r, v)
                                  \/ Stop(r)

LogSpec == LogInit /\ [][LogNext]_logVars
=============================================================================
