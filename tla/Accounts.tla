------------------------------ MODULE Accounts ------------------------------
(***************************************************************************)
(* Operator accounts and invitations: packages/admin/src/auth.ts, app.ts,  *)
(* session.ts, invites.ts and routes/users.ts, and the create-admin command*)
(* of packages/node.  The account library (Better Auth) is external: it    *)
(* stores users, with unique e-mail addresses and the role `user`.         *)
(*                                                                         *)
(* An action is one SQL statement or one call of the library; a call may   *)
(* stop between two of them.                                               *)
(***************************************************************************)
EXTENDS Absence, Integers, FiniteSets

CONSTANTS Emails,   \* e-mail addresses
          Invites,  \* ids of invitations
          Calls     \* HTTP requests and commands

InviteRows == [email : Emails, state : {"pending", "accepted", "revoked", "expired"}]

ASSUME AccountAssumption == Null \notin {"signup", "invite", "accept"} /\ Null \notin InviteRows

VARIABLES users,    \* role and origin of the role of each account
          invites,  \* omni_admin_invites
          acts      \* the calls: what, for whom, how far; `pending` (history): the
                    \* invitation was pending when the call began

accountVars == <<users, invites, acts>>

NoAccount == [role |-> "none", by |-> Null]
Unused    == [kind |-> Null, step |-> "idle", email |-> Null, invite |-> Null, pending |-> FALSE]

(* A new deployment, or one with an operator the command made. *)
AccountInit == /\ users \in {[e \in Emails |-> NoAccount]} \cup
                    {[e \in Emails |-> IF e = o THEN [role |-> "admin", by |-> "cli"]
                                       ELSE NoAccount] : o \in Emails}
               /\ invites = [i \in Invites |-> Null]
               /\ acts = [c \in Calls |-> Unused]

AccountOff == /\ users = [e \in Emails |-> NoAccount] /\ invites = [i \in Invites |-> Null]
              /\ acts = [c \in Calls |-> [Unused EXCEPT !.step = "off"]]

Accounts == {e \in Emails : users[e].role # "none"}

Admins == {e \in Emails : users[e].role = "admin"}

Does(c, kind, step) == acts[c].kind = kind /\ acts[c].step = step

Pending(i) == invites[i] # Null /\ invites[i].state = "pending"

Begin(c, kind, step, e, i) ==
  /\ acts[c].step = "idle"
  /\ acts' = [acts EXCEPT ![c] = [kind |-> kind, step |-> step, email |-> e, invite |-> i,
                                 pending |-> i \in Invites /\ Pending(i)]]

Goto(c, step) == acts' = [acts EXCEPT ![c].step = step]

-----------------------------------------------------------------------------
(* The library, and the grants around it *)

(* Creates the account unless the address is taken. *)
SignsUp(c, taken, created) ==
  IF acts[c].email \in Accounts THEN Goto(c, taken) /\ UNCHANGED users
  ELSE /\ users' = [users EXCEPT ![acts[c].email].role = "user"]
       /\ Goto(c, created)

grantAdminRole(e, by) ==
  users' = IF e \in Accounts THEN [users EXCEPT ![e] = [role |-> "admin", by |-> by]] ELSE users

(* Mutant: whoever passed the gate is promoted. *)
SoleOrNot(e) == e \in Accounts

SoleUser(e) == Accounts = {e}

-----------------------------------------------------------------------------
(* First-run sign-up: open while there is no account at all. *)

SignUpGate(c, e) ==
  /\ Begin(c, "signup", IF Accounts = {} THEN "open" ELSE "closed", e, Null)
  /\ UNCHANGED <<users, invites>>

SignUpCreates(c) ==
  /\ Does(c, "signup", "open") /\ SignsUp(c, "failed", "created")
  /\ UNCHANGED invites

(* One statement promotes the account if it is alone. *)
promoteSoleUser(c) ==
  /\ Does(c, "signup", "created")
  /\ IF SoleUser(acts[c].email) THEN grantAdminRole(acts[c].email, "signup") ELSE UNCHANGED users
  /\ Goto(c, "done")
  /\ UNCHANGED invites

(* The command promotes an account that exists already. *)
CreateAdmin(c, e) == Begin(c, "cli", "start", e, Null) /\ UNCHANGED <<users, invites>>

createAdminUser(c) ==
  /\ Does(c, "cli", "start") /\ SignsUp(c, "grant", "grant")
  /\ UNCHANGED invites

CreateAdminGrants(c) ==
  /\ Does(c, "cli", "grant")
  /\ grantAdminRole(acts[c].email, "cli") /\ Goto(c, "done")
  /\ UNCHANGED invites

-----------------------------------------------------------------------------
(* Invitations *)

(* requireAdmin: an operator's session.  An account is not invited.        *)
InviteChecksUser(c, e) ==
  /\ Admins # {}
  /\ Begin(c, "invite", IF e \in Accounts THEN "refused" ELSE "unknown", e, Null)
  /\ UNCHANGED <<users, invites>>

InviteChecksPending(c) ==
  /\ Does(c, "invite", "unknown")
  /\ Goto(c, IF \E i \in Invites : Pending(i) /\ invites[i].email = acts[c].email
               THEN "refused" ELSE "insert")
  /\ UNCHANGED <<users, invites>>

InviteInserts(c) ==
  /\ Does(c, "invite", "insert")
  /\ \E i \in Invites :
       /\ invites[i] = Null
       /\ invites' = [invites EXCEPT ![i] = [email |-> acts[c].email, state |-> "pending"]]
  /\ Goto(c, "done") /\ UNCHANGED users

(* Mutant: the statement names the row and nothing else. *)
SettleAny(i, state) == invites' = [invites EXCEPT ![i].state = state]

(* A row is settled only from pending. *)
Settle(i, state) ==
  invites' = IF Pending(i) THEN [invites EXCEPT ![i].state = state] ELSE invites

revokeAdminInvite(i) == /\ Admins # {} /\ invites[i] # Null /\ Settle(i, "revoked")
                        /\ UNCHANGED <<users, acts>>

InviteExpires(i) == /\ Pending(i)
                    /\ invites' = [invites EXCEPT ![i].state = "expired"]
                    /\ UNCHANGED <<users, acts>>

-----------------------------------------------------------------------------
(* Accepting: find, look up, sign up, grant, and only then consume. *)

(* Mutant: the row is found by its token alone. *)
FoundByToken(c, i) ==
  /\ invites[i] # Null
  /\ Begin(c, "accept", "found", invites[i].email, i)
  /\ UNCHANGED <<users, invites>>

findAdminInvite(c, i) ==
  /\ invites[i] # Null
  /\ Begin(c, "accept", IF Pending(i) THEN "found" ELSE "unavailable", invites[i].email, i)
  /\ UNCHANGED <<users, invites>>

AcceptLooksUp(c) ==
  /\ Does(c, "accept", "found")
  /\ Goto(c, CASE users[acts[c].email].role = "none"  -> "signup"
               [] users[acts[c].email].role = "user"  -> "grant"
               [] users[acts[c].email].role = "admin" -> "consume")
  /\ UNCHANGED <<users, invites>>

AcceptSignsUp(c) ==
  /\ Does(c, "accept", "signup") /\ SignsUp(c, "failed", "grant")
  /\ UNCHANGED invites

AcceptGrants(c) ==
  /\ Does(c, "accept", "grant")
  /\ grantAdminRole(acts[c].email, "invite") /\ Goto(c, "consume")
  /\ UNCHANGED invites

AcceptConsumes(c) ==
  /\ Does(c, "accept", "consume")
  /\ Settle(acts[c].invite, "accepted")
  /\ Goto(c, IF invites' = invites THEN "unavailable" ELSE "accepted")
  /\ UNCHANGED users

-----------------------------------------------------------------------------
Over == {"idle", "off", "stopped", "closed", "failed", "refused", "unavailable", "accepted", "done"}

(* The process stops, or a statement fails. *)
Stop(c) == acts[c].step \notin Over /\ Goto(c, "stopped") /\ UNCHANGED <<users, invites>>

AccountNext ==
  \/ \E c \in Calls :
       \/ \E e \in Emails : SignUpGate(c, e) \/ CreateAdmin(c, e) \/ InviteChecksUser(c, e)
       \/ \E i \in Invites : findAdminInvite(c, i)
       \/ SignUpCreates(c) \/ promoteSoleUser(c) \/ createAdminUser(c) \/ CreateAdminGrants(c)
       \/ InviteChecksPending(c) \/ InviteInserts(c)
       \/ AcceptLooksUp(c) \/ AcceptSignsUp(c) \/ AcceptGrants(c) \/ AcceptConsumes(c)
       \/ Stop(c)
  \/ \E i \in Invites : revokeAdminInvite(i) \/ InviteExpires(i)

-----------------------------------------------------------------------------
(* Properties *)

(* The public sign-up makes one operator at most, however many requests    *)
(* passed the gate while there was no account (admin/src/auth.ts:          *)
(* promoteSoleUser).                                                       *)
OneFounder ==
  LET founders == {e \in Emails : users[e].by = "signup"}
  IN Cardinality(founders) <= 1

(* An invitation makes operators as long as it is pending, and is spent    *)
(* once: one acceptance at most is told that it succeeded, and its address *)
(* is an operator's by then; who comes after the invitation was accepted,  *)
(* revoked or expired is told so and changes nothing; the role by          *)
(* invitation comes from a call for that address that found it pending.    *)
(* Not from one that was in time: a call the revocation or the expiry      *)
(* overtakes still grants (RevokedInTime).                                 *)
Accepting(c) == acts[c].kind = "accept"

InviteSpentOnce ==
  /\ \A i \in Invites :
       LET accepted == {c \in Calls : acts[c].invite = i /\ acts[c].step = "accepted"}
       IN /\ Cardinality(accepted) <= 1
          /\ accepted # {} => invites[i].state = "accepted"
  /\ \A c \in Calls : Accepting(c) /\ acts[c].step = "accepted" => acts[c].email \in Admins
  /\ \A c \in Calls : Accepting(c) /\ ~acts[c].pending => acts[c].step = "unavailable"
  /\ \A e \in Emails : users[e].by = "invite" =>
       \E c \in Calls : Accepting(c) /\ acts[c].pending /\ acts[c].email = e

(* The link is "revocable" and lasts seven days (docs/reference/           *)
(* admin-api.mdx 87-89): the role is granted by an invitation only while   *)
(* one for the address is pending.                                         *)
RevokedInTime ==
  [][\A e \in Emails : users[e].by # "invite" /\ users'[e].by = "invite" =>
       \E i \in Invites : Pending(i) /\ invites[i].email = e]_accountVars
=============================================================================
