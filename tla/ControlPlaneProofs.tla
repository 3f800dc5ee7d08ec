------------------------- MODULE ControlPlaneProofs -------------------------
(***************************************************************************)
(* Theorems about the parts behind the request path (ControlPlane), of any *)
(* size.  Who is let in (Accounts, Verifiers): one founder, invitations and *)
(* challenges that are spent once, no genuine credential refused for an    *)
(* outage.  What is stored (Database, Secrets): migrations run once and in *)
(* order, a walk through the log misses nothing, what was typed is not     *)
(* stored in the clear, and a rotation leaves no row behind.  What is      *)
(* configured (Environment): no variable is lost on the way to the         *)
(* document.  They are stated of GatewaySpec, the specification that       *)
(* composes these parts.                                                   *)
(***************************************************************************)
EXTENDS ServingProofs, SequenceTheorems

\* A set whose elements are all the same has one at most.
LEMMA AtMostOne ==
  ASSUME NEW S, \A x, y \in S : x = y
  PROVE  Cardinality(S) <= 1
<1>1. CASE S = {}
  BY <1>1, FS_EmptySet
<1>2. CASE S # {}
  <2>1. PICK x : x \in S
    BY <1>2
  <2>2. S = {x}
    BY <2>1
  <2> QED
    BY <2>2, FS_Singleton
<1> QED
  BY <1>1, <1>2

-----------------------------------------------------------------------------
(* Accounts                                                                  *)

CallSteps == Over \cup {"open", "created", "start", "grant", "unknown", "insert", "found",
                       "signup", "consume"}

AccountTypeOK ==
  /\ users \in [Emails -> [role : {"none", "user", "admin"}, by : {Null, "signup", "cli", "invite"}]]
  /\ invites \in [Invites -> InviteRows \cup {Null}]
  /\ acts \in [Calls -> [kind : {Null, "signup", "cli", "invite", "accept"}, step : CallSteps,
                        email : Emails \cup {Null}, invite : Invites \cup {Null},
                        pending : BOOLEAN]]

\* A call that has begun is for an address, and one that accepts is for an
\* invitation.
Begun ==
  \A c \in Calls :
    /\ acts[c].step \notin Over => acts[c].email \in Emails
    /\ acts[c].kind = "accept" /\ acts[c].step \notin Over => acts[c].invite \in Invites

\* A founder has an account, and there is one at most: it was alone.
FounderAlone ==
  \A e \in Emails : users[e].by = "signup" =>
    e \in Accounts /\ \A f \in Emails : users[f].by = "signup" => f = e

\* An accepted invitation stays accepted, by the one call that was told so.
AcceptedStays ==
  \A c \in Calls : acts[c].step = "accepted" =>
    /\ acts[c].invite \in Invites /\ invites[acts[c].invite] \in InviteRows
    /\ invites[acts[c].invite].state = "accepted"
    /\ \A d \in Calls : acts[d].step = "accepted" /\ acts[d].invite = acts[c].invite => d = c

AccountInv == AccountTypeOK /\ Begun /\ FounderAlone /\ AcceptedStays

-----------------------------------------------------------------------------
(* App Attest                                                                *)

AttestSteps == {"idle", "off", "registering", "refused", "stored", "registered", "keyed",
                "challenged", "claimed", "checked", "accepted"}

\* A caller whose increment was the first.
Won(p) == calls[p].step \in {"claimed", "checked", "accepted"}

Counters == {Null, 0} \cup {a.counter : a \in Assertions}

AttestTypeOK ==
  /\ store \in [key : Counters, challenges : SUBSET Challenges, claims : [Challenges -> Nat]]
  /\ store.challenges \subseteq issued /\ issued \subseteq Challenges
  /\ calls \in [Callers -> [step : AttestSteps, assertion : Assertions \cup {Null},
                          challenge : Challenges \cup {Null}, stored : Counters]]
  /\ \A p \in Callers : calls[p].step \in {"keyed", "challenged", "claimed", "checked", "accepted"}
                          => calls[p].challenge \in issued /\ calls[p].assertion \in Assertions

\* Whoever won a challenge left its claim behind, or the challenge is gone for
\* good and nobody is about to claim it.
ClaimStands ==
  \A p \in Callers : Won(p) =>
    /\ \/ store.claims[calls[p].challenge] > 0
       \/ /\ calls[p].challenge \notin store.challenges
          /\ \A q \in Callers : calls[q].step = "challenged" => calls[q].challenge # calls[p].challenge
    /\ \A q \in Callers : Won(q) /\ calls[q].challenge = calls[p].challenge => q = p

AttestInv == AttestTypeOK /\ ClaimStands

-----------------------------------------------------------------------------
\* Null is neither a kind of call nor an invitation.
LEMMA NullIsNothing == Null # "signup" /\ Null \notin InviteRows
  BY AccountAssumption

\* A deployment starts without calls, and with one operator at most.
LEMMA AccountStarts == AccountInit \/ AccountOff => AccountInv
<1> SUFFICES ASSUME AccountInit \/ AccountOff PROVE AccountInv
  OBVIOUS
<1>0. /\ Unused \in [kind : {Null, "signup", "cli", "invite", "accept"}, step : CallSteps,
                     email : Emails \cup {Null}, invite : Invites \cup {Null}, pending : BOOLEAN]
      /\ [Unused EXCEPT !.step = "off"] \in
           [kind : {Null, "signup", "cli", "invite", "accept"}, step : CallSteps,
            email : Emails \cup {Null}, invite : Invites \cup {Null}, pending : BOOLEAN]
  BY DEF Unused, CallSteps, Over
<1>1. AccountTypeOK
  BY <1>0 DEF AccountInit, AccountOff, AccountTypeOK, NoAccount
<1>2. \A c \in Calls : acts[c].step \in {"idle", "off"}
  BY DEF AccountInit, AccountOff, Unused
<1>3. \A e \in Emails : users[e].by # "signup"
  BY NullIsNothing DEF AccountInit, AccountOff, NoAccount
<1>4. Begun /\ AcceptedStays
  BY <1>2 DEF Begun, AcceptedStays, Over
<1>5. FounderAlone
  BY <1>3 DEF FounderAlone
<1> QED
  BY <1>1, <1>4, <1>5 DEF AccountInv

\* A call that goes on, and is not accepted, keeps the rest of the invariant.
LEMMA GotoKeeps ==
  ASSUME AccountInv, NEW c \in Calls, NEW step \in CallSteps \ {"accepted"}, Goto(c, step),
         acts[c].step \notin Over
  PROVE  /\ acts' \in [Calls -> [kind : {Null, "signup", "cli", "invite", "accept"}, step : CallSteps,
                               email : Emails \cup {Null}, invite : Invites \cup {Null},
                        pending : BOOLEAN]]
         /\ Begun'
         /\ \A d \in Calls : acts'[d].step = "accepted" => acts'[d] = acts[d]
<1>1. acts' = [acts EXCEPT ![c] = [acts[c] EXCEPT !.step = step]]
  BY DEF Goto, AccountInv, AccountTypeOK
<1>2. /\ acts'[c] = [acts[c] EXCEPT !.step = step]
      /\ \A d \in Calls \ {c} : acts'[d] = acts[d]
      /\ acts'[c].step = step /\ acts'[c].email = acts[c].email
      /\ acts'[c].kind = acts[c].kind /\ acts'[c].invite = acts[c].invite
  BY <1>1 DEF AccountInv, AccountTypeOK
<1>3. Begun'
  BY <1>2 DEF AccountInv, Begun
<1>4. \A d \in Calls : acts'[d].step = "accepted" => acts'[d] = acts[d]
  BY <1>2
<1> QED
  BY <1>1, <1>3, <1>4 DEF AccountInv, AccountTypeOK

\* A call that begins is a known kind, names an invitation if it accepts one,
\* and leaves the calls that accepted alone.
LEMMA BeginKeeps ==
  ASSUME AccountInv, NEW c \in Calls, NEW kind \in {"signup", "cli", "invite", "accept"},
         NEW step \in CallSteps \ {"accepted"}, NEW e \in Emails, NEW i \in Invites \cup {Null},
         kind = "accept" => i \in Invites, Begin(c, kind, step, e, i)
  PROVE  /\ acts' \in [Calls -> [kind : {Null, "signup", "cli", "invite", "accept"}, step : CallSteps,
                               email : Emails \cup {Null}, invite : Invites \cup {Null},
                        pending : BOOLEAN]]
         /\ Begun'
         /\ \A d \in Calls : acts'[d].step = "accepted" => acts'[d] = acts[d]
<1>1. /\ acts'[c] = [kind |-> kind, step |-> step, email |-> e, invite |-> i,
                   pending |-> i \in Invites /\ Pending(i)]
      /\ \A d \in Calls \ {c} : acts'[d] = acts[d]
  BY DEF Begin, AccountInv, AccountTypeOK
<1>2. Begun'
  BY <1>1 DEF AccountInv, Begun
<1>3. \A d \in Calls : acts'[d].step = "accepted" => acts'[d] = acts[d]
  BY <1>1
<1> QED
  BY <1>2, <1>3 DEF Begin, AccountInv, AccountTypeOK

\* Accounts: an address gets one, or an account gets the role.
LEMMA SignsUpKeeps ==
  ASSUME AccountInv, NEW e \in Emails,
         \/ e \notin Accounts /\ users' = [users EXCEPT ![e].role = "user"]
         \/ UNCHANGED users
         \/ \E by \in {"cli", "invite"} : grantAdminRole(e, by)
         \/ SoleUser(e) /\ grantAdminRole(e, "signup")
  PROVE  /\ users' \in [Emails -> [role : {"none", "user", "admin"},
                                 by : {Null, "signup", "cli", "invite"}]]
         /\ FounderAlone'
<1> DEFINE Rows == [role : {"none", "user", "admin"}, by : {Null, "signup", "cli", "invite"}]
<1>0. users \in [Emails -> Rows]
  BY DEF AccountInv, AccountTypeOK
<1>1. CASE e \notin Accounts /\ users' = [users EXCEPT ![e].role = "user"]
  <2>1. users' = [users EXCEPT ![e] = [users[e] EXCEPT !.role = "user"]]
    BY <1>0, <1>1
  <2>2. /\ users'[e] = [users[e] EXCEPT !.role = "user"] /\ users'[e].by = users[e].by
        /\ users'[e].role = "user" /\ \A f \in Emails \ {e} : users'[f] = users[f]
        /\ users' \in [Emails -> Rows]
    BY <1>0, <2>1
  <2>3. FounderAlone'
    BY <2>2 DEF AccountInv, FounderAlone, Accounts
  <2> QED
    BY <2>2, <2>3
<1>2. CASE UNCHANGED users
  BY <1>0, <1>2 DEF AccountInv, FounderAlone, Accounts
<1>3. ASSUME NEW by \in {"cli", "invite", "signup"}, grantAdminRole(e, by), e \in Accounts
      PROVE  /\ users' \in [Emails -> Rows]
             /\ users'[e] = [role |-> "admin", by |-> by]
             /\ \A f \in Emails \ {e} : users'[f] = users[f]
  BY <1>0, <1>3 DEF grantAdminRole
<1>4. ASSUME NEW by \in {"cli", "invite"}, grantAdminRole(e, by)
      PROVE  users' \in [Emails -> Rows] /\ FounderAlone'
  <2>1. CASE e \notin Accounts
    BY <1>2, <1>4, <2>1 DEF grantAdminRole
  <2>2. CASE e \in Accounts
    <3>1. FounderAlone'
      BY <1>3, <1>4, <2>2 DEF AccountInv, FounderAlone, Accounts
    <3> QED
      BY <1>3, <1>4, <2>2, <3>1
  <2> QED
    BY <2>1, <2>2
<1>5. CASE SoleUser(e) /\ grantAdminRole(e, "signup")
  <2>1. e \in Accounts /\ \A f \in Emails : users[f].by = "signup" => f = e
    BY <1>5 DEF SoleUser, AccountInv, FounderAlone
  <2>2. FounderAlone'
    BY <1>3, <1>5, <2>1 DEF FounderAlone, Accounts
  <2> QED
    BY <1>3, <1>5, <2>1, <2>2
<1> QED
  BY <1>1, <1>2, <1>4, <1>5

\* Invitations: new ones take a free id, and only pending ones change.
LEMMA InvitesKeep ==
  ASSUME AccountInv,
         \/ UNCHANGED invites
         \/ \E i \in Invites, e \in Emails :
              invites[i] = Null /\ invites' = [invites EXCEPT ![i] = [email |-> e, state |-> "pending"]]
         \/ \E i \in Invites, state \in {"accepted", "revoked", "expired"} : Settle(i, state)
  PROVE  /\ invites' \in [Invites -> InviteRows \cup {Null}]
         /\ \A i \in Invites : invites[i] \in InviteRows /\ invites[i].state = "accepted"
                               => invites'[i] = invites[i]
<1>0. invites \in [Invites -> InviteRows \cup {Null}]
  BY DEF AccountInv, AccountTypeOK
<1>1. CASE UNCHANGED invites
  BY <1>0, <1>1
<1>2. ASSUME NEW i \in Invites, NEW e \in Emails, invites[i] = Null,
             invites' = [invites EXCEPT ![i] = [email |-> e, state |-> "pending"]]
      PROVE  /\ invites' \in [Invites -> InviteRows \cup {Null}]
             /\ \A j \in Invites : invites[j] \in InviteRows => invites'[j] = invites[j]
  <2>1. [email |-> e, state |-> "pending"] \in InviteRows
    BY DEF InviteRows
  <2> QED
    BY <1>0, <1>2, <2>1, NullIsNothing
<1>3. ASSUME NEW i \in Invites, NEW state \in {"accepted", "revoked", "expired"}, Settle(i, state)
      PROVE  /\ invites' \in [Invites -> InviteRows \cup {Null}]
             /\ \A j \in Invites : invites[j] \in InviteRows /\ invites[j].state = "accepted"
                               => invites'[j] = invites[j]
  <2>1. CASE ~Pending(i)
    BY <1>0, <1>3, <2>1 DEF Settle
  <2>2. CASE Pending(i)
    <3>1. invites[i] \in InviteRows /\ invites[i].state = "pending"
      BY <1>0, <2>2 DEF Pending
    <3> DEFINE row == [invites[i] EXCEPT !.state = state]
    <3>2. row \in InviteRows
      BY <3>1 DEF InviteRows
    <3>3. invites' = [invites EXCEPT ![i] = row]
      BY <1>0, <1>3, <2>2 DEF Settle
    <3> HIDE DEF row
    <3> QED
      BY <1>0, <3>1, <3>2, <3>3
  <2> QED
    BY <2>1, <2>2
<1> QED
  BY <1>1, <1>2, <1>3

\* A step that accepts nothing keeps what was accepted.
LEMMA AccountStep ==
  ASSUME AccountInv,
         users' \in [Emails -> [role : {"none", "user", "admin"},
                             by : {Null, "signup", "cli", "invite"}]],
         FounderAlone',
         invites' \in [Invites -> InviteRows \cup {Null}],
         \A i \in Invites : invites[i] \in InviteRows /\ invites[i].state = "accepted"
                           => invites'[i] = invites[i],
         acts' \in [Calls -> [kind : {Null, "signup", "cli", "invite", "accept"}, step : CallSteps,
                               email : Emails \cup {Null}, invite : Invites \cup {Null},
                        pending : BOOLEAN]],
         Begun',
         \A d \in Calls : acts'[d].step = "accepted" => acts'[d] = acts[d]
  PROVE  AccountInv'
<1>1. AcceptedStays'
  BY DEF AccountInv, AcceptedStays
<1> QED
  BY <1>1 DEF AccountInv, AccountTypeOK

\* The one acceptance of an invitation is of a pending one.
LEMMA AcceptConsumesKeeps ==
  ASSUME AccountInv, NEW c \in Calls, AcceptConsumes(c)
  PROVE  AccountInv'
<1> DEFINE i == acts[c].invite
<1>1. /\ acts[c].kind = "accept" /\ acts[c].step = "consume"
      /\ Settle(i, "accepted") /\ users' = users
      /\ Goto(c, IF invites' = invites THEN "unavailable" ELSE "accepted")
  BY DEF AcceptConsumes, Does
<1>2. i \in Invites /\ acts[c].step \notin Over
  BY <1>1 DEF AccountInv, Begun, Over
<1>3. /\ invites' \in [Invites -> InviteRows \cup {Null}]
      /\ \A j \in Invites : invites[j] \in InviteRows /\ invites[j].state = "accepted"
                           => invites'[j] = invites[j]
  BY <1>1, <1>2, InvitesKeep
<1>4. /\ users' \in [Emails -> [role : {"none", "user", "admin"}, by : {Null, "signup", "cli", "invite"}]]
      /\ FounderAlone'
  BY <1>1 DEF AccountInv, AccountTypeOK, FounderAlone, Accounts
<1>5. CASE ~Pending(i)
  <2>1. Goto(c, "unavailable")
    BY <1>1, <1>5 DEF Settle
  <2>2. "unavailable" \in CallSteps \ {"accepted"}
    BY DEF CallSteps, Over
  <2> QED
    BY <1>2, <1>3, <1>4, <2>1, <2>2, GotoKeeps, AccountStep
<1>6. CASE Pending(i)
  <2>1. invites[i] \in InviteRows /\ invites[i].state = "pending"
    BY <1>2, <1>6 DEF AccountInv, AccountTypeOK, Pending
  <2>2. invites' = [invites EXCEPT ![i].state = "accepted"]
    BY <1>1, <1>6 DEF Settle
  <2>3. invites'[i] = [invites[i] EXCEPT !.state = "accepted"]
    BY <1>2, <2>2 DEF AccountInv, AccountTypeOK
  <2>4. invites'[i] \in InviteRows /\ invites'[i].state = "accepted"
    BY <2>1, <2>3 DEF InviteRows
  <2>5. invites' # invites
    BY <2>1, <2>4
  <2>6. acts' = [acts EXCEPT ![c] = [acts[c] EXCEPT !.step = "accepted"]]
    BY <1>1, <2>5 DEF Goto, AccountInv, AccountTypeOK
  <2>7. /\ acts'[c].step = "accepted" /\ acts'[c].email = acts[c].email
        /\ acts'[c].kind = acts[c].kind /\ acts'[c].invite = i
        /\ \A d \in Calls \ {c} : acts'[d] = acts[d]
    BY <2>6 DEF AccountInv, AccountTypeOK
  <2>8. "accepted" \in CallSteps /\ "accepted" \in Over
    BY DEF CallSteps, Over
  <2>9. AccountTypeOK'
    BY <1>3, <1>4, <2>6, <2>8, SMTT(30) DEF AccountInv, AccountTypeOK
  <2>10. Begun'
    BY <2>7, <2>8 DEF AccountInv, Begun
  <2>11. \A d \in Calls \ {c} : acts[d].step = "accepted" => acts[d].invite # i
    BY <2>1 DEF AccountInv, AcceptedStays
  <2>12. AcceptedStays'
    BY <1>2, <1>3, <2>4, <2>7, <2>11 DEF AccountInv, AcceptedStays
  <2> QED
    BY <1>4, <2>9, <2>10, <2>12 DEF AccountInv
<1> QED
  BY <1>5, <1>6

\* Every step of a call or of an invitation keeps the invariant.
LEMMA AccountNextKeeps == AccountInv /\ [AccountNext]_accountVars => AccountInv'
<1> SUFFICES ASSUME AccountInv, [AccountNext]_accountVars PROVE AccountInv'
  OBVIOUS
<1>1. ASSUME UNCHANGED users
      PROVE  /\ users' \in [Emails -> [role : {"none", "user", "admin"},
                                     by : {Null, "signup", "cli", "invite"}]]
             /\ FounderAlone'
  BY <1>1 DEF AccountInv, AccountTypeOK, FounderAlone, Accounts
<1>2. ASSUME NEW c \in Calls, NEW step \in CallSteps \ {"accepted"}, Goto(c, step),
             acts[c].step \notin Over, UNCHANGED <<users, invites>>
      PROVE  AccountInv'
  BY <1>1, <1>2, GotoKeeps, InvitesKeep, AccountStep
<1>3. ASSUME NEW c \in Calls, NEW kind \in {"signup", "cli", "invite", "accept"},
             NEW step \in CallSteps \ {"accepted"}, NEW e \in Emails, NEW i \in Invites \cup {Null},
             kind = "accept" => i \in Invites, Begin(c, kind, step, e, i),
             UNCHANGED <<users, invites>>
      PROVE  AccountInv'
  BY <1>1, <1>3, BeginKeeps, InvitesKeep, AccountStep
<1>4. ASSUME NEW c \in Calls, NEW step \in CallSteps \ {"accepted"}, Goto(c, step),
             acts[c].step \notin Over, UNCHANGED invites,
             LET e == acts[c].email
             IN  \/ e \notin Accounts /\ users' = [users EXCEPT ![e].role = "user"]
                 \/ UNCHANGED users
                 \/ \E by \in {"cli", "invite"} : grantAdminRole(e, by)
                 \/ SoleUser(e) /\ grantAdminRole(e, "signup")
      PROVE  AccountInv'
  <2>1. acts[c].email \in Emails
    BY <1>4 DEF AccountInv, Begun
  <2>2. /\ users' \in [Emails -> [role : {"none", "user", "admin"},
                                by : {Null, "signup", "cli", "invite"}]]
        /\ FounderAlone'
    BY <1>4, <2>1, SignsUpKeeps
  <2> QED
    BY <1>4, <2>2, GotoKeeps, InvitesKeep, AccountStep
<1>5. /\ {"open", "closed", "start", "refused", "unknown", "found", "unavailable", "created",
          "failed", "grant", "done", "insert", "signup", "consume", "stopped"}
            \subseteq CallSteps \ {"accepted"}
      /\ {"open", "created", "start", "grant", "unknown", "insert", "found", "signup", "consume"}
            \cap Over = {}
  BY DEF CallSteps, Over
<1>6. ASSUME NEW c \in Calls, NEW e \in Emails,
             SignUpGate(c, e) \/ CreateAdmin(c, e) \/ InviteChecksUser(c, e)
      PROVE  AccountInv'
  BY <1>3, <1>5, <1>6 DEF SignUpGate, CreateAdmin, InviteChecksUser
<1>7. ASSUME NEW c \in Calls, NEW i \in Invites, findAdminInvite(c, i) PROVE AccountInv'
  <2>1. invites[i] \in InviteRows
    BY <1>7 DEF findAdminInvite, AccountInv, AccountTypeOK
  <2>2. invites[i].email \in Emails
    BY <2>1 DEF InviteRows
  <2> QED
    BY <1>3, <1>5, <1>7, <2>2 DEF findAdminInvite
<1>8. ASSUME NEW c \in Calls, SignUpCreates(c) \/ createAdminUser(c) \/ AcceptSignsUp(c)
      PROVE  AccountInv'
  BY <1>4, <1>5, <1>8 DEF SignUpCreates, createAdminUser, AcceptSignsUp, SignsUp, Does
<1>9. ASSUME NEW c \in Calls, promoteSoleUser(c) PROVE AccountInv'
  BY <1>4, <1>5, <1>9 DEF promoteSoleUser, Does
<1>10. ASSUME NEW c \in Calls, CreateAdminGrants(c) \/ AcceptGrants(c) PROVE AccountInv'
  BY <1>4, <1>5, <1>10 DEF CreateAdminGrants, AcceptGrants, Does
<1>11. ASSUME NEW c \in Calls, InviteChecksPending(c) PROVE AccountInv'
  BY <1>2, <1>5, <1>11 DEF InviteChecksPending, Does
<1>12. ASSUME NEW c \in Calls, InviteInserts(c) PROVE AccountInv'
  <2>1. acts[c].email \in Emails
    BY <1>5, <1>12 DEF InviteInserts, Does, AccountInv, Begun
  <2>2. \E i \in Invites, e \in Emails :
          invites[i] = Null /\ invites' = [invites EXCEPT ![i] = [email |-> e, state |-> "pending"]]
    BY <1>12, <2>1 DEF InviteInserts
  <2> QED
    BY <1>1, <1>5, <1>12, <2>2, GotoKeeps, InvitesKeep, AccountStep DEF InviteInserts, Does
<1>13. ASSUME NEW c \in Calls, AcceptLooksUp(c) PROVE AccountInv'
  <2>1. acts[c].email \in Emails
    BY <1>5, <1>13 DEF AcceptLooksUp, Does, AccountInv, Begun
  <2>2. users[acts[c].email].role \in {"none", "user", "admin"}
    BY <2>1 DEF AccountInv, AccountTypeOK
  <2>3. \E step \in {"signup", "grant", "consume"} : Goto(c, step)
    BY <1>13, <2>2 DEF AcceptLooksUp
  <2> QED
    BY <1>2, <1>5, <1>13, <2>3 DEF AcceptLooksUp, Does
<1>14. ASSUME NEW c \in Calls, Stop(c) PROVE AccountInv'
  BY <1>2, <1>5, <1>14 DEF Stop
<1>15. ASSUME NEW i \in Invites, revokeAdminInvite(i) \/ InviteExpires(i) PROVE AccountInv'
  <2>1. \E state \in {"revoked", "expired"} : Settle(i, state)
    BY <1>15 DEF revokeAdminInvite, InviteExpires, Settle
  <2>2. UNCHANGED <<users, acts>>
    BY <1>15 DEF revokeAdminInvite, InviteExpires
  <2> QED
    BY <1>1, <2>1, <2>2, InvitesKeep, AccountStep DEF AccountInv, AccountTypeOK, Begun
<1>16. CASE UNCHANGED accountVars
  BY <1>16 DEF accountVars, AccountInv, AccountTypeOK, Begun, FounderAlone, Accounts, AcceptedStays
<1> QED
  BY <1>6, <1>7, <1>8, <1>9, <1>10, <1>11, <1>12, <1>13, <1>14, <1>15, <1>16,
     AcceptConsumesKeeps DEF AccountNext

\* The gateway's steps are, for the accounts, steps of the accounts.
LEMMA AccountInvariant == GatewaySpec => []AccountInv
<1>1. GatewayInit => AccountInv
  BY AccountStarts DEF GatewayInit, ControlInit, ControlOff
<1>2. [GatewayNext]_gatewayVars => [AccountNext]_accountVars
  BY DEF GatewayNext, ControlNext, gatewayVars, controlVars, accountVars
<1> QED
  BY <1>1, <1>2, AccountNextKeeps, PTL DEF GatewaySpec

\* OneFounder (admin/src/auth.ts: promoteSoleUser): however many requests pass
\* the gate of the first sign-up at once, one of them at most is promoted.
THEOREM OneFounderEver == GatewaySpec => []OneFounder
<1>1. AccountInv => OneFounder
  <2> SUFFICES ASSUME AccountInv
               PROVE  Cardinality({e \in Emails : users[e].by = "signup"}) <= 1
    BY DEF OneFounder
  <2> DEFINE founders == {e \in Emails : users[e].by = "signup"}
  <2>1. \A e, f \in founders : e = f
    BY DEF AccountInv, FounderAlone
  <2> HIDE DEF founders
  <2>2. Cardinality(founders) <= 1
    BY <2>1, AtMostOne
  <2> QED
    BY <2>2 DEF founders
<1> QED
  BY <1>1, AccountInvariant, PTL

-----------------------------------------------------------------------------
(* Who is made an operator by an invitation.                                 *)

\* A call for an invitation it did not find pending ends at once; one that is
\* about to grant has an account to grant to, and one past it an operator's.
InTurn ==
  \A c \in Calls : Accepting(c) =>
    /\ acts[c].step # "idle"
    /\ ~acts[c].pending => acts[c].step = "unavailable"
    /\ acts[c].step = "grant" => acts[c].email \in Accounts
    /\ acts[c].step \in {"consume", "accepted"} => acts[c].email \in Admins

\* The role by invitation was given by such a call.
ByInvitation ==
  \A e \in Emails : users[e].by = "invite" =>
    \E c \in Calls : Accepting(c) /\ acts[c].pending /\ acts[c].email = e

InviteInv == InTurn /\ ByInvitation

\* The call of another kind, or that stands still.
Idles(d) == acts'[d] = acts[d] \/ (~Accepting(d) /\ ~Accepting(d)')

\* An acceptance that begins, finding the invitation pending or not.
Starts(d) ==
  /\ acts[d].step = "idle"
  /\ acts'[d].step = IF acts'[d].pending THEN "found" ELSE "unavailable"

\* An acceptance that goes on.
GoesOn(d) ==
  /\ acts[d].step \notin Over /\ acts'[d].step # "idle"
  /\ acts'[d].kind = acts[d].kind /\ acts'[d].email = acts[d].email
  /\ acts'[d].pending = acts[d].pending
  /\ acts'[d].step = "grant" => acts[d].email \in Accounts'
  /\ acts'[d].step = "consume" => acts[d].email \in Admins'
  /\ acts'[d].step = "accepted" => acts[d].step = "consume"

\* Accounts and operators stay, and only an acceptance about to grant gives the
\* role by invitation.
RolesStay ==
  /\ Accounts \subseteq Accounts' /\ Admins \subseteq Admins'
  /\ \A e \in Emails : users'[e].by = "invite" =>
       \/ users[e].by = "invite"
       \/ \E c \in Calls : Does(c, "accept", "grant") /\ acts[c].email = e

\* A call goes on from one step to another and keeps the rest.
LEMMA GotoMoves ==
  ASSUME AccountInv, NEW c \in Calls, NEW step, Goto(c, step)
  PROVE  /\ acts'[c] = [acts[c] EXCEPT !.step = step]
         /\ acts'[c].step = step /\ acts'[c].kind = acts[c].kind
         /\ acts'[c].email = acts[c].email /\ acts'[c].pending = acts[c].pending
         /\ \A d \in Calls \ {c} : acts'[d] = acts[d]
<1>1. acts' = [acts EXCEPT ![c] = [acts[c] EXCEPT !.step = step]]
  BY DEF Goto, AccountInv, AccountTypeOK
<1>2. acts[c] \in [kind : {Null, "signup", "cli", "invite", "accept"}, step : CallSteps,
                  email : Emails \cup {Null}, invite : Invites \cup {Null}, pending : BOOLEAN]
  BY DEF AccountInv, AccountTypeOK
<1> QED
  BY <1>1, <1>2 DEF AccountInv, AccountTypeOK

\* Granting makes an account an operator's, and demotes nobody.
LEMMA GrantMoves ==
  ASSUME AccountInv, NEW e \in Emails, NEW by, grantAdminRole(e, by)
  PROVE  /\ Accounts \subseteq Accounts' /\ Admins \subseteq Admins'
         /\ e \in Accounts => e \in Admins' /\ users'[e].by = by
         /\ \A f \in Emails : f # e => users'[f] = users[f]
         /\ e \notin Accounts => UNCHANGED users
<1>1. users \in [Emails -> [role : {"none", "user", "admin"}, by : {Null, "signup", "cli", "invite"}]]
  BY DEF AccountInv, AccountTypeOK
<1>2. CASE e \in Accounts
  <2>1. /\ users'[e] = [role |-> "admin", by |-> by]
        /\ \A f \in Emails : f # e => users'[f] = users[f]
    BY <1>1, <1>2 DEF grantAdminRole
  <2> QED
    BY <1>2, <2>1 DEF Accounts, Admins
<1>3. CASE e \notin Accounts
  BY <1>3 DEF grantAdminRole, Accounts, Admins
<1> QED
  BY <1>2, <1>3

\* Signing up makes an account, and demotes nobody.
LEMMA SignUpMoves ==
  ASSUME AccountInv, NEW c \in Calls, NEW taken, NEW created, acts[c].email \in Emails,
         SignsUp(c, taken, created)
  PROVE  /\ Accounts \subseteq Accounts' /\ Admins \subseteq Admins'
         /\ acts[c].email \in Accounts'
         /\ \A f \in Emails : users'[f].by = users[f].by
<1>1. users \in [Emails -> [role : {"none", "user", "admin"}, by : {Null, "signup", "cli", "invite"}]]
  BY DEF AccountInv, AccountTypeOK
<1>2. CASE acts[c].email \in Accounts
  BY <1>2 DEF SignsUp, Accounts, Admins
<1>3. CASE acts[c].email \notin Accounts
  <2>1. PICK e \in Emails : e = acts[c].email
    OBVIOUS
  <2>2. users' = [users EXCEPT ![e] = [users[e] EXCEPT !.role = "user"]]
    BY <1>1, <1>3, <2>1 DEF SignsUp
  <2>3. /\ users'[e].role = "user" /\ users'[e].by = users[e].by
        /\ \A f \in Emails : f # e => users'[f] = users[f]
    BY <1>1, <2>2
  <2> QED
    BY <1>1, <1>3, <2>1, <2>3 DEF Accounts, Admins
<1> QED
  BY <1>2, <1>3

\* What a step may do to the calls and to the roles.
LEMMA AccountMoves ==
  ASSUME AccountInv, InTurn, [AccountNext]_accountVars
  PROVE  (\A d \in Calls : Idles(d) \/ Starts(d) \/ GoesOn(d)) /\ RolesStay
<1> DEFINE AllGo == \A d \in Calls : Idles(d) \/ Starts(d) \/ GoesOn(d)
<1>0. users \in [Emails -> [role : {"none", "user", "admin"}, by : {Null, "signup", "cli", "invite"}]]
  BY DEF AccountInv, AccountTypeOK
<1>1. ASSUME UNCHANGED users PROVE RolesStay
  BY <1>1 DEF RolesStay, Accounts, Admins
<1>2. ASSUME UNCHANGED acts PROVE AllGo
  BY <1>2 DEF Idles
<1>3. ASSUME NEW c \in Calls, NEW step, Goto(c, step), acts[c].step \notin Over,
             step \notin {"idle", "grant", "consume", "accepted"} \/ acts[c].kind # "accept"
      PROVE  AllGo
  BY <1>3, GotoMoves DEF Idles, GoesOn, Accepting
<1>4. ASSUME NEW c \in Calls, NEW kind \in {"signup", "cli", "invite"}, NEW step, NEW e, NEW i,
             Begin(c, kind, step, e, i)
      PROVE  AllGo
  <2>1. /\ acts'[c].kind = kind /\ \A d \in Calls \ {c} : acts'[d] = acts[d]
    BY <1>4 DEF Begin, AccountInv, AccountTypeOK
  <2>2. ~Accepting(c)
    BY <1>4 DEF Begin, InTurn
  <2> QED
    BY <2>1, <2>2 DEF Idles, Accepting
<1>5. \A c \in Calls : acts[c].step \notin Over => acts[c].email \in Emails
  BY DEF AccountInv, Begun
<1>6. {"open", "created", "start", "grant", "unknown", "insert", "found", "signup", "consume"}
        \cap Over = {}
  BY DEF Over
<1>7. ASSUME NEW c \in Calls, NEW e \in Emails,
             SignUpGate(c, e) \/ CreateAdmin(c, e) \/ InviteChecksUser(c, e)
      PROVE  AllGo /\ RolesStay
  BY <1>1, <1>4, <1>7 DEF SignUpGate, CreateAdmin, InviteChecksUser
<1>8. ASSUME NEW c \in Calls, NEW i \in Invites, findAdminInvite(c, i) PROVE AllGo /\ RolesStay
  <2>1. /\ acts[c].step = "idle"
        /\ acts'[c] = [kind |-> "accept", step |-> IF Pending(i) THEN "found" ELSE "unavailable",
                      email |-> invites[i].email, invite |-> i,
                      pending |-> i \in Invites /\ Pending(i)]
        /\ \A d \in Calls \ {c} : acts'[d] = acts[d]
    BY <1>8 DEF findAdminInvite, Begin, AccountInv, AccountTypeOK
  <2>2. acts'[c].step = IF acts'[c].pending THEN "found" ELSE "unavailable"
    <3> DEFINE found == i \in Invites /\ Pending(i)
    <3>1. found \in BOOLEAN /\ (found <=> Pending(i))
      OBVIOUS
    <3>2. acts'[c].pending = found
      BY <2>1
    <3>3. acts'[c].step = IF Pending(i) THEN "found" ELSE "unavailable"
      BY <2>1
    <3> HIDE DEF found
    <3> QED
      BY <3>1, <3>2, <3>3
  <2>3. AllGo
    BY <2>1, <2>2 DEF Idles, Starts
  <2> QED
    BY <1>1, <1>8, <2>3 DEF findAdminInvite
<1>9. ASSUME NEW c \in Calls, SignUpCreates(c) \/ createAdminUser(c) PROVE AllGo /\ RolesStay
  <2>1. acts[c].kind # "accept" /\ acts[c].step \notin Over
    BY <1>6, <1>9 DEF SignUpCreates, createAdminUser, Does
  <2>2. PICK taken \in {"failed", "grant"}, created \in {"created", "grant"} : SignsUp(c, taken, created)
    BY <1>9 DEF SignUpCreates, createAdminUser
  <2>3. RolesStay
    BY <1>5, <2>1, <2>2, SignUpMoves DEF RolesStay
  <2>4. \E step : Goto(c, step)
    BY <2>2 DEF SignsUp
  <2> QED
    BY <1>3, <2>1, <2>3, <2>4
<1>10. ASSUME NEW c \in Calls, AcceptSignsUp(c) PROVE AllGo /\ RolesStay
  <2>1. acts[c].step \notin Over /\ SignsUp(c, "failed", "grant")
    BY <1>6, <1>10 DEF AcceptSignsUp, Does
  <2>2. RolesStay /\ acts[c].email \in Accounts'
    BY <1>5, <2>1, SignUpMoves DEF RolesStay
  <2>3. PICK step \in {"failed", "grant"} : Goto(c, step)
    BY <2>1 DEF SignsUp
  <2>4. AllGo
    <3>1. /\ acts'[c].step = step /\ acts'[c].kind = acts[c].kind
          /\ acts'[c].email = acts[c].email /\ acts'[c].pending = acts[c].pending
          /\ \A d \in Calls \ {c} : acts'[d] = acts[d]
      BY <2>3, GotoMoves
    <3>2. GoesOn(c)
      BY <2>1, <2>2, <2>3, <3>1 DEF GoesOn
    <3> QED
      BY <3>1, <3>2 DEF Idles
  <2> QED
    BY <2>2, <2>4
<1>11. ASSUME NEW c \in Calls, promoteSoleUser(c) \/ CreateAdminGrants(c) PROVE AllGo /\ RolesStay
  <2>1. acts[c].kind # "accept" /\ acts[c].step \notin Over /\ Goto(c, "done")
    BY <1>6, <1>11 DEF promoteSoleUser, CreateAdminGrants, Does
  <2>2. UNCHANGED users \/ \E by \in {"signup", "cli"} : grantAdminRole(acts[c].email, by)
    BY <1>11 DEF promoteSoleUser, CreateAdminGrants
  <2>3. RolesStay
    <3>1. CASE UNCHANGED users
      BY <1>1, <3>1
    <3>2. ASSUME NEW by \in {"signup", "cli"}, grantAdminRole(acts[c].email, by) PROVE RolesStay
      <4>1. PICK e \in Emails : e = acts[c].email
        BY <1>5, <2>1
      <4>2. grantAdminRole(e, by)
        BY <3>2, <4>1
      <4> QED
        BY <4>2, GrantMoves DEF RolesStay
    <3> QED
      BY <2>2, <3>1, <3>2
  <2> QED
    BY <1>3, <2>1, <2>3
<1>12. ASSUME NEW c \in Calls, InviteChecksPending(c) \/ InviteInserts(c) PROVE AllGo /\ RolesStay
  <2>1. acts[c].kind # "accept" /\ acts[c].step \notin Over /\ UNCHANGED users
    BY <1>6, <1>12 DEF InviteChecksPending, InviteInserts, Does
  <2>2. \E step : Goto(c, step)
    BY <1>12 DEF InviteChecksPending, InviteInserts
  <2> QED
    BY <1>1, <1>3, <2>1, <2>2
<1>13. ASSUME NEW c \in Calls, AcceptLooksUp(c) PROVE AllGo /\ RolesStay
  <2>1. PICK e \in Emails : e = acts[c].email
    BY <1>5, <1>6, <1>13 DEF AcceptLooksUp, Does
  <2>2. acts[c].step \notin Over /\ users[e].role \in {"none", "user", "admin"} /\ UNCHANGED users
    BY <1>0, <1>6, <1>13 DEF AcceptLooksUp, Does
  <2>3. PICK step \in {"signup", "grant", "consume"} :
          /\ Goto(c, step)
          /\ step = "grant" => users[e].role = "user"
          /\ step = "consume" => users[e].role = "admin"
    BY <1>13, <2>1, <2>2 DEF AcceptLooksUp
  <2>4. (step = "grant" => e \in Accounts') /\ (step = "consume" => e \in Admins')
    BY <2>2, <2>3 DEF Accounts, Admins
  <2>5. AllGo
    <3>1. /\ acts'[c].step = step /\ acts'[c].kind = acts[c].kind
          /\ acts'[c].email = acts[c].email /\ acts'[c].pending = acts[c].pending
          /\ \A d \in Calls \ {c} : acts'[d] = acts[d]
      BY <2>3, GotoMoves
    <3>2. GoesOn(c)
      BY <2>1, <2>2, <2>3, <2>4, <3>1 DEF GoesOn
    <3> QED
      BY <3>1, <3>2 DEF Idles
  <2> QED
    BY <1>1, <2>2, <2>5
<1>14. ASSUME NEW c \in Calls, AcceptGrants(c) PROVE AllGo /\ RolesStay
  <2>1. PICK e \in Emails : e = acts[c].email
    BY <1>5, <1>6, <1>14 DEF AcceptGrants, Does
  <2>2. acts[c].step \notin Over /\ grantAdminRole(e, "invite") /\ Goto(c, "consume")
        /\ Does(c, "accept", "grant")
    BY <1>6, <1>14, <2>1 DEF AcceptGrants, Does
  <2>3. e \in Accounts
    BY <1>14, <2>1, <2>2 DEF InTurn, Does, Accepting
  <2>4. RolesStay /\ e \in Admins'
    BY <2>1, <2>2, <2>3, GrantMoves DEF RolesStay
  <2>5. AllGo
    <3>1. /\ acts'[c].step = "consume" /\ acts'[c].kind = acts[c].kind
          /\ acts'[c].email = acts[c].email /\ acts'[c].pending = acts[c].pending
          /\ \A d \in Calls \ {c} : acts'[d] = acts[d]
      BY <2>2, GotoMoves
    <3>2. GoesOn(c)
      BY <2>1, <2>2, <2>4, <3>1 DEF GoesOn
    <3> QED
      BY <3>1, <3>2 DEF Idles
  <2> QED
    BY <2>4, <2>5
<1>15. ASSUME NEW c \in Calls, AcceptConsumes(c) PROVE AllGo /\ RolesStay
  <2>1. acts[c].step = "consume" /\ acts[c].step \notin Over /\ UNCHANGED users
    BY <1>6, <1>15 DEF AcceptConsumes, Does
  <2>2. PICK step \in {"unavailable", "accepted"} : Goto(c, step)
    BY <1>15 DEF AcceptConsumes
  <2>3. AllGo
    <3>1. /\ acts'[c].step = step /\ acts'[c].kind = acts[c].kind
          /\ acts'[c].email = acts[c].email /\ acts'[c].pending = acts[c].pending
          /\ \A d \in Calls \ {c} : acts'[d] = acts[d]
      BY <2>2, GotoMoves
    <3>2. GoesOn(c)
      BY <2>1, <2>2, <3>1 DEF GoesOn
    <3> QED
      BY <3>1, <3>2 DEF Idles
  <2> QED
    BY <1>1, <2>1, <2>3
<1>16. ASSUME NEW c \in Calls, Stop(c) PROVE AllGo /\ RolesStay
  BY <1>1, <1>3, <1>16 DEF Stop
<1>17. ASSUME NEW i \in Invites, revokeAdminInvite(i) \/ InviteExpires(i) PROVE AllGo /\ RolesStay
  BY <1>1, <1>2, <1>17 DEF revokeAdminInvite, InviteExpires
<1>18. CASE UNCHANGED accountVars
  BY <1>1, <1>2, <1>18 DEF accountVars
<1> QED
  BY <1>7, <1>8, <1>9, <1>10, <1>11, <1>12, <1>13, <1>14, <1>15, <1>16, <1>17, <1>18 DEF AccountNext

\* So the calls stay in turn, and the role by invitation keeps its reason.
LEMMA InviteKeeps == AccountInv /\ InviteInv /\ [AccountNext]_accountVars => InviteInv'
<1> SUFFICES ASSUME AccountInv, InTurn, ByInvitation, [AccountNext]_accountVars PROVE InviteInv'
  BY DEF InviteInv
<1>1. (\A d \in Calls : Idles(d) \/ Starts(d) \/ GoesOn(d)) /\ RolesStay
  BY AccountMoves
<1>2. InTurn'
  <2> SUFFICES ASSUME NEW d \in Calls, Accepting(d)'
               PROVE  /\ acts'[d].step # "idle"
                      /\ ~acts'[d].pending => acts'[d].step = "unavailable"
                      /\ acts'[d].step = "grant" => acts'[d].email \in Accounts'
                      /\ acts'[d].step \in {"consume", "accepted"} => acts'[d].email \in Admins'
    BY DEF InTurn
  <2>1. CASE Idles(d)
    BY <1>1, <2>1 DEF Idles, InTurn, Accepting, RolesStay
  <2>2. CASE Starts(d)
    BY <2>2 DEF Starts
  <2>3. CASE GoesOn(d)
    <3>1. acts[d].step # "unavailable"
      BY <2>3 DEF GoesOn, Over
    <3>2. Accepting(d) /\ acts[d].pending
      BY <2>3, <3>1 DEF GoesOn, InTurn, Accepting
    <3> QED
      BY <1>1, <2>3, <3>2 DEF GoesOn, InTurn, RolesStay
  <2> QED
    BY <1>1, <2>1, <2>2, <2>3
<1>3. ByInvitation'
  <2>1. ASSUME NEW c \in Calls, Accepting(c), acts[c].pending
        PROVE  Accepting(c)' /\ acts'[c].pending /\ acts'[c].email = acts[c].email
    BY <1>1, <2>1 DEF Idles, Starts, GoesOn, Accepting, InTurn
  <2> QED
    BY <1>1, <2>1 DEF ByInvitation, RolesStay, InTurn, Does, Accepting
<1> QED
  BY <1>2, <1>3 DEF InviteInv

\* Nobody has accepted anything when the deployment starts.
LEMMA InviteStarts == AccountInit \/ AccountOff => InviteInv
<1> SUFFICES ASSUME AccountInit \/ AccountOff PROVE InviteInv
  OBVIOUS
<1>1. \A e \in Emails : users[e].by \in {Null, "cli"}
  BY DEF AccountInit, AccountOff, NoAccount
<1>2. \A c \in Calls : acts[c].kind = Null
  BY DEF AccountInit, AccountOff, Unused
<1>3. Null # "invite" /\ Null # "accept"
  BY AccountAssumption
<1> QED
  BY <1>1, <1>2, <1>3 DEF InviteInv, InTurn, ByInvitation, Accepting

\* InviteSpentOnce (admin/src/invites.ts: findAdminInvite, acceptAdminInvite):
\* one acceptance of an invitation at most is told that it succeeded, and then
\* its address is an operator's; who comes after the invitation was accepted,
\* revoked or has expired changes nothing; and nobody is an operator by
\* invitation but through a call that found one pending when it began.  That
\* the invitation is still pending when the call grants is not so.
THEOREM InviteAcceptedOnce == GatewaySpec => []InviteSpentOnce
<1>1. AccountInv /\ InviteInv => InviteSpentOnce
  <2> SUFFICES ASSUME AccountInv, InviteInv PROVE InviteSpentOnce
    OBVIOUS
  <2>1. ASSUME NEW i \in Invites
        PROVE  LET accepted == {c \in Calls : acts[c].invite = i /\ acts[c].step = "accepted"}
               IN /\ Cardinality(accepted) <= 1
                  /\ accepted # {} => invites[i].state = "accepted"
    <3> DEFINE accepted == {c \in Calls : acts[c].invite = i /\ acts[c].step = "accepted"}
    <3>1. \A c, d \in accepted : c = d
      BY DEF AccountInv, AcceptedStays
    <3>2. accepted # {} => invites[i].state = "accepted"
      BY DEF AccountInv, AcceptedStays
    <3> HIDE DEF accepted
    <3>3. Cardinality(accepted) <= 1
      BY <3>1, AtMostOne
    <3> QED
      BY <3>2, <3>3 DEF accepted
  <2>2. \A c \in Calls : Accepting(c) /\ acts[c].step = "accepted" => acts[c].email \in Admins
    BY DEF InviteInv, InTurn
  <2> QED
    BY <2>1, <2>2 DEF InviteSpentOnce, InviteInv, InTurn, ByInvitation
<1>2. GatewaySpec => []InviteInv
  <2>1. GatewayInit => InviteInv
    BY InviteStarts DEF GatewayInit, ControlInit, ControlOff
  <2>2. [GatewayNext]_gatewayVars => [AccountNext]_accountVars
    BY DEF GatewayNext, ControlNext, gatewayVars, controlVars, accountVars
  <2> QED
    BY <2>1, <2>2, InviteKeeps, AccountInvariant, PTL DEF GatewaySpec
<1> QED
  BY <1>1, <1>2, AccountInvariant, PTL

-----------------------------------------------------------------------------
(* App Attest: the proofs                                                    *)

CallRows == [step : AttestSteps, assertion : Assertions \cup {Null},
             challenge : Challenges \cup {Null}, stored : Counters]

\* A step of one call, and of no other.
LEMMA StepsMoves ==
  ASSUME calls \in [Callers -> CallRows], NEW p \in Callers, NEW rec \in CallRows,
         NEW step \in AttestSteps, Steps(p, step, rec)
  PROVE  /\ calls' \in [Callers -> CallRows]
         /\ calls'[p].step = step /\ calls'[p].challenge = rec.challenge
         /\ calls'[p].assertion = rec.assertion
         /\ \A q \in Callers \ {p} : calls'[q] = calls[q]
<1> DEFINE new == [rec EXCEPT !.step = step]
<1>1. /\ new \in CallRows /\ new.step = step /\ new.challenge = rec.challenge
      /\ new.assertion = rec.assertion
  BY DEF CallRows
<1>2. calls' = [calls EXCEPT ![p] = new]
  BY DEF Steps
<1> HIDE DEF new
<1> QED
  BY <1>1, <1>2

StoreRows == [key : Counters, challenges : SUBSET Challenges, claims : [Challenges -> Nat]]

\* What a step of the invariant needs: the rows are typed, the challenges that
\* are stored were issued, and a call that is past the key has its challenge.
LEMMA AttestTyped ==
  AttestTypeOK <=>
    /\ store \in StoreRows /\ store.challenges \subseteq issued /\ issued \subseteq Challenges
    /\ calls \in [Callers -> CallRows]
    /\ \A p \in Callers : calls[p].step \in {"keyed", "challenged", "claimed", "checked", "accepted"}
                            => calls[p].challenge \in issued /\ calls[p].assertion \in Assertions
  BY DEF AttestTypeOK, StoreRows, CallRows

\* A deployment starts without challenges, rows or calls.
LEMMA AttestStarts == VerifyInit \/ VerifyOff => AttestInv
<1> SUFFICES ASSUME VerifyInit \/ VerifyOff PROVE AttestInv
  OBVIOUS
<1>1. store = EmptyStore /\ issued \subseteq Challenges
  BY DEF VerifyInit, VerifyOff, NobodyCalls
<1>2. EmptyStore \in StoreRows /\ EmptyStore.challenges = {}
  BY DEF EmptyStore, StoreRows, Counters
<1>3. \A p \in Callers : calls[p].step \in {"idle", "off"}
  BY DEF VerifyInit, VerifyOff, NobodyCalls, Idle
<1>4. calls \in [Callers -> CallRows]
  BY DEF VerifyInit, VerifyOff, NobodyCalls, Idle, CallRows, AttestSteps, Counters
<1>5. AttestTypeOK
  BY <1>1, <1>2, <1>3, <1>4, AttestTyped
<1>6. ClaimStands
  BY <1>3 DEF ClaimStands, Won
<1> QED
  BY <1>5, <1>6 DEF AttestInv

\* A challenge that is gone, or claimed, stays so for those who won it.
LEMMA ClaimsKept ==
  ASSUME AttestInv, calls' \in [Callers -> CallRows],
         \A p \in Callers : Won(p)' => Won(p) /\ calls'[p].challenge = calls[p].challenge,
         \A p \in Callers : Won(p) => store'.claims[calls[p].challenge] = store.claims[calls[p].challenge],
         \A p \in Callers : Won(p) /\ calls[p].challenge \in store'.challenges
                              => calls[p].challenge \in store.challenges,
         \A p \in Callers : calls'[p].step = "challenged" =>
           /\ calls'[p].challenge = calls[p].challenge
           /\ calls[p].step = "challenged" \/ calls[p].challenge \in store.challenges
  PROVE  ClaimStands'
  BY DEF AttestInv, ClaimStands, Won

\* The rows alone change, and none that a winner relies on.
LEMMA RowsChange ==
  ASSUME AttestInv, store' \in StoreRows, store'.challenges \subseteq issued',
         issued \subseteq issued', issued' \subseteq Challenges, UNCHANGED calls
  PROVE  AttestTypeOK'
<1>1. AttestTypeOK
  BY DEF AttestInv
<1>2. /\ calls' \in [Callers -> CallRows]
      /\ \A p \in Callers : calls'[p].step \in {"keyed", "challenged", "claimed", "checked", "accepted"}
                              => calls'[p].challenge \in issued' /\ calls'[p].assertion \in Assertions
  BY <1>1, AttestTyped
<1>3. AttestTypeOK' <=>
        /\ store' \in StoreRows /\ store'.challenges \subseteq issued' /\ issued' \subseteq Challenges
        /\ calls' \in [Callers -> CallRows]
        /\ \A p \in Callers : calls'[p].step \in {"keyed", "challenged", "claimed", "checked", "accepted"}
                                => calls'[p].challenge \in issued' /\ calls'[p].assertion \in Assertions
  BY DEF AttestTypeOK, StoreRows, CallRows
<1> QED
  BY <1>2, <1>3

\* A step of a call keeps the types and changes no other call.
LEMMA CallChanges ==
  ASSUME AttestInv, NEW p \in Callers, NEW rec \in CallRows, NEW step \in AttestSteps,
         Steps(p, step, rec), store' \in StoreRows, store'.challenges \subseteq issued,
         step \in {"keyed", "challenged", "claimed", "checked", "accepted"}
           => rec.challenge \in issued /\ rec.assertion \in Assertions,
         UNCHANGED issued
  PROVE  /\ AttestTypeOK'
         /\ calls'[p].step = step /\ calls'[p].challenge = rec.challenge
         /\ calls' \in [Callers -> CallRows] /\ \A q \in Callers \ {p} : calls'[q] = calls[q]
<1>1. /\ calls \in [Callers -> CallRows] /\ issued \subseteq Challenges
      /\ \A q \in Callers : calls[q].step \in {"keyed", "challenged", "claimed", "checked", "accepted"}
                              => calls[q].challenge \in issued /\ calls[q].assertion \in Assertions
  BY AttestTyped DEF AttestInv
<1>2. /\ calls' \in [Callers -> CallRows]
      /\ calls'[p].step = step /\ calls'[p].challenge = rec.challenge
      /\ calls'[p].assertion = rec.assertion
      /\ \A q \in Callers \ {p} : calls'[q] = calls[q]
  BY <1>1, StepsMoves
<1>3. \A q \in Callers : calls'[q].step \in {"keyed", "challenged", "claimed", "checked", "accepted"}
                           => calls'[q].challenge \in issued' /\ calls'[q].assertion \in Assertions
  BY <1>1, <1>2
<1>4. AttestTypeOK' <=>
        /\ store' \in StoreRows /\ store'.challenges \subseteq issued' /\ issued' \subseteq Challenges
        /\ calls' \in [Callers -> CallRows]
        /\ \A q \in Callers : calls'[q].step \in {"keyed", "challenged", "claimed", "checked", "accepted"}
                                => calls'[q].challenge \in issued' /\ calls'[q].assertion \in Assertions
  BY DEF AttestTypeOK, StoreRows, CallRows
<1> QED
  BY <1>1, <1>2, <1>3, <1>4

\* Challenges and claims come and go: a claim goes only after its challenge,
\* and while nobody is about to claim it.
LEMMA RowsComeAndGo ==
  ASSUME AttestInv, NEW c \in Challenges, IssueChallenge(c) \/ ChallengeExpires(c) \/ ClaimExpires(c)
  PROVE  AttestInv'
<1>0. /\ store \in StoreRows /\ store.challenges \subseteq issued /\ issued \subseteq Challenges
      /\ calls \in [Callers -> CallRows]
      /\ \A p \in Callers : Won(p) => calls[p].challenge \in issued
  BY AttestTyped DEF AttestInv, Won
<1>1. CASE IssueChallenge(c)
  <2>1. /\ store' = [store EXCEPT !.challenges = store.challenges \cup {c}]
        /\ issued' = issued \cup {c} /\ c \notin issued /\ UNCHANGED calls
    BY <1>1 DEF IssueChallenge
  <2>2. /\ store' \in StoreRows /\ store'.challenges = store.challenges \cup {c}
        /\ store'.claims = store.claims
    BY <1>0, <2>1 DEF StoreRows
  <2>3. AttestTypeOK'
    BY <1>0, <2>1, <2>2, RowsChange
  <2>4. ClaimStands'
    BY <1>0, <2>1, <2>2, ClaimsKept DEF Won
  <2> QED
    BY <2>3, <2>4 DEF AttestInv
<1>2. CASE ChallengeExpires(c)
  <2>1. store' = [store EXCEPT !.challenges = store.challenges \ {c}] /\ UNCHANGED <<issued, calls>>
    BY <1>2 DEF ChallengeExpires
  <2>2. /\ store' \in StoreRows /\ store'.challenges = store.challenges \ {c}
        /\ store'.claims = store.claims
    BY <1>0, <2>1 DEF StoreRows
  <2>3. AttestTypeOK'
    BY <1>0, <2>1, <2>2, RowsChange
  <2>4. ClaimStands'
    BY <1>0, <2>1, <2>2, ClaimsKept DEF Won
  <2> QED
    BY <2>3, <2>4 DEF AttestInv
<1>3. CASE ClaimExpires(c)
  <2>1. /\ c \notin store.challenges
        /\ \A p \in Callers : calls[p].step = "challenged" => calls[p].challenge # c
        /\ store' = [store EXCEPT !.claims = [store.claims EXCEPT ![c] = 0]]
        /\ UNCHANGED <<issued, calls>>
    BY <1>0, <1>3 DEF ClaimExpires, At
  <2>2. store.claims \in [Challenges -> Nat]
    BY <1>0 DEF StoreRows
  <2> DEFINE new == [store.claims EXCEPT ![c] = 0]
  <2>3. new \in [Challenges -> Nat] /\ \A d \in Challenges \ {c} : new[d] = store.claims[d]
    BY <2>2
  <2> HIDE DEF new
  <2>4. /\ store' \in StoreRows /\ store'.challenges = store.challenges /\ store'.claims = new
    BY <1>0, <2>1, <2>3 DEF StoreRows, new
  <2>5. AttestTypeOK'
    BY <1>0, <2>1, <2>4, RowsChange
  <2>6. \A p \in Callers : Won(p) => calls[p].challenge \in Challenges
    BY <1>0
  <2>7. ClaimStands'
    BY <2>1, <2>3, <2>4, <2>6 DEF AttestInv, ClaimStands, Won
  <2> QED
    BY <2>5, <2>7 DEF AttestInv
<1> QED
  BY <1>1, <1>2, <1>3

\* A registration wins nothing, and takes no claim away.
LEMMA RegistrationKeeps ==
  ASSUME AttestInv, NEW p \in Callers,
         \/ \E c \in Challenges : RegisterStarts(p, c)
         \/ RegisterStores(p) \/ RegisterEnds(p)
  PROVE  AttestInv'
<1>0. /\ store \in StoreRows /\ store.challenges \subseteq issued /\ issued \subseteq Challenges
      /\ calls \in [Callers -> CallRows] /\ calls[p] \in CallRows
      /\ \A q \in Callers : Won(q) => calls[q].challenge \in issued
  BY AttestTyped DEF AttestInv, Won
<1>1. ASSUME NEW c \in Challenges, RegisterStarts(p, c) PROVE AttestInv'
  <2> DEFINE rec == [calls[p] EXCEPT !.challenge = c]
  <2>1. rec \in CallRows
    BY <1>0 DEF CallRows
  <2> HIDE DEF rec
  <2>2. PICK step \in {"registering", "refused"} : Steps(p, step, rec)
    BY <1>1 DEF RegisterStarts, rec
  <2>3. step \in AttestSteps /\ UNCHANGED <<store, issued>>
    BY <1>1, <2>2 DEF RegisterStarts, AttestSteps
  <2>4. /\ AttestTypeOK' /\ calls'[p].step = step
        /\ calls' \in [Callers -> CallRows] /\ \A q \in Callers \ {p} : calls'[q] = calls[q]
    BY <1>0, <2>1, <2>2, <2>3, CallChanges
  <2>5. ClaimStands'
    BY <2>2, <2>3, <2>4, ClaimsKept DEF Won
  <2> QED
    BY <2>4, <2>5 DEF AttestInv
<1>2. CASE RegisterStores(p)
  <2>1. /\ Steps(p, "stored", calls[p]) /\ UNCHANGED issued
        /\ store' = [store EXCEPT !.key = 0]
    BY <1>2 DEF RegisterStores
  <2>2. /\ store' \in StoreRows /\ store'.challenges = store.challenges
        /\ store'.claims = store.claims /\ "stored" \in AttestSteps
    BY <1>0, <2>1 DEF StoreRows, Counters, AttestSteps
  <2>3. /\ AttestTypeOK' /\ calls'[p].step = "stored"
        /\ calls' \in [Callers -> CallRows] /\ \A q \in Callers \ {p} : calls'[q] = calls[q]
    BY <1>0, <2>1, <2>2, CallChanges
  <2>4. ClaimStands'
    BY <2>2, <2>3, ClaimsKept DEF Won
  <2> QED
    BY <2>3, <2>4 DEF AttestInv
<1>3. CASE RegisterEnds(p)
  <2>1. /\ Steps(p, "registered", calls[p]) /\ UNCHANGED issued
        /\ store' = [store EXCEPT !.challenges = store.challenges \ {calls[p].challenge}]
    BY <1>3 DEF RegisterEnds, DeleteChallenge
  <2>2. /\ store' \in StoreRows /\ store'.challenges \subseteq store.challenges
        /\ store'.claims = store.claims /\ "registered" \in AttestSteps
    BY <1>0, <2>1 DEF StoreRows, AttestSteps
  <2>3. /\ AttestTypeOK' /\ calls'[p].step = "registered"
        /\ calls' \in [Callers -> CallRows] /\ \A q \in Callers \ {p} : calls'[q] = calls[q]
    BY <1>0, <2>1, <2>2, CallChanges
  <2>4. ClaimStands'
    BY <2>2, <2>3, ClaimsKept DEF Won
  <2> QED
    BY <2>3, <2>4 DEF AttestInv
<1> QED
  BY <1>1, <1>2, <1>3

\* Reading the key and the challenge claims nothing; a challenge that is read
\* is still stored.
LEMMA ReadsKeep ==
  ASSUME AttestInv, NEW p \in Callers,
         \/ \E a \in Assertions : VerifyReadsKey(p, a)
         \/ VerifyReadsChallenge(p)
  PROVE  AttestInv'
<1>0. /\ store \in StoreRows /\ store.challenges \subseteq issued /\ issued \subseteq Challenges
      /\ calls \in [Callers -> CallRows] /\ calls[p] \in CallRows
      /\ calls[p].step = "keyed" => calls[p].challenge \in issued /\ calls[p].assertion \in Assertions
  BY AttestTyped DEF AttestInv
<1>1. ASSUME NEW a \in Assertions, VerifyReadsKey(p, a) PROVE AttestInv'
  <2> DEFINE rec == [step |-> "idle", assertion |-> a, challenge |-> a.challenge,
                     stored |-> store.key]
  <2>1. rec \in CallRows /\ rec.challenge \in issued /\ rec.assertion \in Assertions
    BY <1>0, <1>1 DEF VerifyReadsKey, CallRows, StoreRows, AttestSteps
  <2> HIDE DEF rec
  <2>2. PICK step \in {"refused", "keyed"} : Steps(p, step, rec)
    BY <1>1 DEF VerifyReadsKey, rec
  <2>3. step \in AttestSteps /\ UNCHANGED <<store, issued>>
    BY <1>1, <2>2 DEF VerifyReadsKey, AttestSteps
  <2>4. /\ AttestTypeOK' /\ calls'[p].step = step
        /\ calls' \in [Callers -> CallRows] /\ \A q \in Callers \ {p} : calls'[q] = calls[q]
    BY <1>0, <2>1, <2>2, <2>3, CallChanges
  <2>5. ClaimStands'
    BY <2>2, <2>3, <2>4, ClaimsKept DEF Won
  <2> QED
    BY <2>4, <2>5 DEF AttestInv
<1>2. CASE VerifyReadsChallenge(p)
  <2>1. PICK step \in {"challenged", "refused"} :
          /\ Steps(p, step, calls[p])
          /\ step = "challenged" => calls[p].challenge \in store.challenges
    BY <1>2 DEF VerifyReadsChallenge
  <2>2. calls[p].step = "keyed" /\ step \in AttestSteps /\ UNCHANGED <<store, issued>>
    BY <1>2, <2>1 DEF VerifyReadsChallenge, At, AttestSteps
  <2>3. /\ AttestTypeOK' /\ calls'[p].step = step /\ calls'[p].challenge = calls[p].challenge
        /\ calls' \in [Callers -> CallRows] /\ \A q \in Callers \ {p} : calls'[q] = calls[q]
    BY <1>0, <2>1, <2>2, CallChanges
  <2>4. ClaimStands'
    BY <2>1, <2>2, <2>3, ClaimsKept DEF Won
  <2> QED
    BY <2>3, <2>4 DEF AttestInv
<1> QED
  BY <1>1, <1>2

\* The increment: it was the first only if nobody won this challenge, for a
\* winner left its count, or the challenge gone.
LEMMA ClaimKeeps ==
  ASSUME AttestInv, NEW p \in Callers, VerifyClaims(p)
  PROVE  AttestInv'
<1> DEFINE c == calls[p].challenge
<1>0. /\ store \in StoreRows /\ store.challenges \subseteq issued /\ issued \subseteq Challenges
      /\ calls \in [Callers -> CallRows] /\ calls[p] \in CallRows /\ calls[p].step = "challenged"
      /\ c \in issued /\ c \in Challenges /\ calls[p].assertion \in Assertions
      /\ \A q \in Callers : Won(q) => calls[q].challenge \in Challenges
  BY AttestTyped DEF AttestInv, VerifyClaims, At, Won
<1>1. store.claims \in [Challenges -> Nat]
  BY <1>0 DEF StoreRows
<1> DEFINE new == [store.claims EXCEPT ![c] = store.claims[c] + 1]
<1>2. /\ new \in [Challenges -> Nat] /\ new[c] = store.claims[c] + 1 /\ new[c] > 0
      /\ \A d \in Challenges \ {c} : new[d] = store.claims[d]
  BY <1>0, <1>1
<1>3. /\ store' = [store EXCEPT !.claims = new] /\ UNCHANGED issued
      /\ Steps(p, IF store.claims[c] + 1 = 1 THEN "claimed" ELSE "refused", calls[p])
  BY <1>0, <1>1 DEF VerifyClaims, ClaimWon
<1> HIDE DEF new
<1>4. /\ store' \in StoreRows /\ store'.challenges = store.challenges /\ store'.claims = new
  BY <1>0, <1>2, <1>3 DEF StoreRows
<1>5. PICK step \in {"claimed", "refused"} :
        Steps(p, step, calls[p]) /\ (step = "claimed" => store.claims[c] = 0)
  <2>1. store.claims[c] \in Nat
    BY <1>0, <1>1
  <2>2. store.claims[c] + 1 = 1 => store.claims[c] = 0
    BY <2>1
  <2> QED
    BY <1>3, <2>2
<1>6. step \in AttestSteps
  BY DEF AttestSteps
<1>7. /\ AttestTypeOK' /\ calls'[p].step = step /\ calls'[p].challenge = c
      /\ calls' \in [Callers -> CallRows] /\ \A q \in Callers \ {p} : calls'[q] = calls[q]
  BY <1>0, <1>3, <1>4, <1>5, <1>6, CallChanges
<1>8. step = "claimed" => \A q \in Callers : Won(q) => calls[q].challenge # c
  BY <1>0, <1>5 DEF AttestInv, ClaimStands
<1>9. ASSUME NEW q \in Callers, Won(q)'
      PROVE  /\ \/ store'.claims[calls'[q].challenge] > 0
                \/ /\ calls'[q].challenge \notin store'.challenges
                   /\ \A r \in Callers : calls'[r].step = "challenged"
                                           => calls'[r].challenge # calls'[q].challenge
             /\ \A r \in Callers : Won(r)' /\ calls'[r].challenge = calls'[q].challenge => r = q
  <2>1. CASE q = p
    <3>1. step = "claimed"
      BY <1>7, <1>9, <2>1 DEF Won
    <3> QED
      BY <1>2, <1>4, <1>7, <1>8, <2>1, <3>1 DEF Won
  <2>2. CASE q # p
    <3>1. Won(q) /\ calls'[q] = calls[q] /\ calls[q].challenge \in Challenges
      BY <1>0, <1>7, <1>9, <2>2 DEF Won
    <3>2. \A r \in Callers : Won(r)' /\ calls'[r].challenge = calls'[q].challenge => r = q
      BY <1>7, <1>8, <3>1 DEF Won, AttestInv, ClaimStands
    <3>3. CASE calls[q].challenge = c
      BY <1>2, <1>4, <3>1, <3>2, <3>3
    <3>4. CASE calls[q].challenge # c
      <4>1. store'.claims[calls'[q].challenge] = store.claims[calls[q].challenge]
        BY <1>2, <1>4, <3>1, <3>4
      <4>2. \A r \in Callers : calls'[r].step = "challenged" => calls'[r] = calls[r]
        BY <1>5, <1>7
      <4> QED
        BY <1>4, <3>1, <3>2, <4>1, <4>2 DEF AttestInv, ClaimStands
    <3> QED
      BY <3>3, <3>4
  <2> QED
    BY <2>1, <2>2
<1>10. ClaimStands'
  BY <1>9 DEF ClaimStands
<1> QED
  BY <1>7, <1>10 DEF AttestInv

\* A winner goes on, or gives up what it won.
LEMMA WinnerKeeps ==
  ASSUME AttestInv, NEW p \in Callers, VerifyChecks(p) \/ VerifySpends(p)
  PROVE  AttestInv'
<1>0. /\ store \in StoreRows /\ store.challenges \subseteq issued /\ issued \subseteq Challenges
      /\ calls \in [Callers -> CallRows] /\ calls[p] \in CallRows /\ Won(p)
      /\ calls[p].challenge \in issued /\ calls[p].assertion \in Assertions
  BY AttestTyped DEF AttestInv, VerifyChecks, VerifySpends, At, Won
<1>1. PICK step \in {"checked", "refused", "accepted"} : Steps(p, step, calls[p])
  BY DEF VerifyChecks, VerifySpends
<1>2. step \in AttestSteps /\ UNCHANGED issued
  BY <1>1 DEF AttestSteps, VerifyChecks, VerifySpends
<1>3. /\ store' \in StoreRows /\ store'.challenges \subseteq store.challenges
      /\ store'.claims = store.claims
  <2>1. CASE VerifySpends(p)
    BY <1>0, <2>1 DEF VerifySpends, DeleteChallenge, StoreRows
  <2>2. CASE VerifyChecks(p)
    <3>1. calls[p].assertion.counter \in Counters
      BY <1>0 DEF Counters
    <3>2. UNCHANGED store \/ store' = [store EXCEPT !.key = calls[p].assertion.counter]
      BY <2>2 DEF VerifyChecks
    <3> QED
      BY <1>0, <3>1, <3>2 DEF StoreRows
  <2> QED
    BY <2>1, <2>2
<1>4. /\ AttestTypeOK' /\ calls'[p].step = step /\ calls'[p].challenge = calls[p].challenge
      /\ calls' \in [Callers -> CallRows] /\ \A q \in Callers \ {p} : calls'[q] = calls[q]
  BY <1>0, <1>1, <1>2, <1>3, CallChanges
<1>5. ClaimStands'
  BY <1>0, <1>1, <1>3, <1>4, ClaimsKept DEF Won
<1> QED
  BY <1>4, <1>5 DEF AttestInv

\* Every step of the verifiers keeps the invariant.
LEMMA AttestNextKeeps == AttestInv /\ [VerifyNext]_verifierVars => AttestInv'
<1> SUFFICES ASSUME AttestInv, [VerifyNext]_verifierVars PROVE AttestInv'
  OBVIOUS
<1>1. CASE Verify \/ Probe \/ UNCHANGED verifierVars
  <2>1. UNCHANGED <<store, issued, calls>>
    BY <1>1 DEF Verify, Probe, verifierVars
  <2> QED
    BY <2>1 DEF AttestInv, AttestTypeOK, ClaimStands, Won
<1> QED
  BY <1>1, RowsComeAndGo, RegistrationKeeps, ReadsKeep, ClaimKeeps, WinnerKeeps DEF VerifyNext

\* ChallengeSpentOnce (core/src/auth/app-attest.ts: the claim on a challenge):
\* of any replays and registrations, however they interleave with the expiry
\* of the rows, one assertion for a challenge is let through at most.
THEOREM ChallengeWonOnce == GatewaySpec => []ChallengeSpentOnce
<1>1. GatewayInit => AttestInv
  BY AttestStarts DEF GatewayInit, ControlInit, ControlOff
<1>2. [GatewayNext]_gatewayVars => [VerifyNext]_verifierVars
  BY DEF GatewayNext, ControlNext, gatewayVars, controlVars, verifierVars
<1>3. AttestInv => ChallengeSpentOnce
  <2> SUFFICES ASSUME AttestInv, NEW c \in Challenges
               PROVE  Cardinality({p \in Callers : calls[p].step \in {"checked", "accepted"}
                                                     /\ calls[p].challenge = c}) <= 1
    BY DEF ChallengeSpentOnce
  <2> DEFINE through == {p \in Callers : calls[p].step \in {"checked", "accepted"}
                                           /\ calls[p].challenge = c}
  <2>1. \A p, q \in through : p = q
    BY DEF AttestInv, ClaimStands, Won
  <2> HIDE DEF through
  <2>2. Cardinality(through) <= 1
    BY <2>1, AtMostOne
  <2> QED
    BY <2>2 DEF through
<1> QED
  BY <1>1, <1>2, <1>3, AttestNextKeeps, PTL DEF GatewaySpec

-----------------------------------------------------------------------------
(* Genuine credentials                                                       *)

\* The property's hypotheses, of a credential.
Genuine(c) ==
  /\ c.defects = {}
  /\ c.type \in {"aws-cognito", "clerk", "recaptcha-enterprise", "google-play-integrity",
                 "cloudflare-turnstile"}
  /\ c.answer \notin {"bad token", "400"}

\* Under one idempotency key a repeated redemption is answered as the first.
LEMMA NeverDuplicate ==
  ASSUME NEW c \in Presented
  PROVE  verifyUpstream(c) \in {Null, "answered"}
<1>1. Siteverify(c, 1) = c.attempts[1] /\ Siteverify(c, 2) = c.attempts[2]
  BY DEF Siteverify, IdempotencyKey
<1> QED
  BY <1>1, VerifierAssumption DEF verifyUpstream

\* None of these verifiers, and no test of them, refuses what is genuine.
LEMMA GenuineVerified ==
  ASSUME NEW c \in Presented, Genuine(c)
  PROVE  Verifier(c).verify # "refused" /\ Verifier(c).test # "refused"
<1>0. \A S : c.defects \cap S = {}
  BY DEF Genuine
<1>1. \A S : Checked(c, Unavailable(c.answer), S, "ok") # "refused"
  BY <1>0 DEF Genuine, Checked, Unavailable, isInvalidTokenError
<1>2. CASE c.type = "aws-cognito"
  <2>1. Verifier(c) = awsCognito(c)
    BY <1>2 DEF Verifier
  <2> QED
    BY <1>1, <2>1 DEF awsCognito, testJwks
<1>3. CASE c.type = "clerk"
  <2>1. Verifier(c) = clerk(c)
    BY <1>3 DEF Verifier
  <2> QED
    BY <1>1, <2>1 DEF clerk, testJwks
<1>4. CASE c.type = "recaptcha-enterprise"
  <2>1. Verifier(c) = recaptchaEnterprise(c)
    BY <1>4 DEF Verifier
  <2>2. c.defects \cap {"invalid", "action"} = {} /\ c.defects \cap {"score", "origin"} = {}
    BY <1>0
  <2> QED
    BY <2>1, <2>2 DEF recaptchaEnterprise
<1>5. CASE c.type = "google-play-integrity"
  <2>1. Verifier(c) = googlePlayIntegrity(c)
    BY <1>5 DEF Verifier
  <2>2. /\ c.defects \cap {"binding", "app", "device", "license", "certificate"} = {}
        /\ "tooLarge" \notin c.defects /\ c.answer # "400"
    BY <1>0 DEF Genuine
  <2> QED
    BY <2>1, <2>2 DEF googlePlayIntegrity
<1>6. CASE c.type = "cloudflare-turnstile"
  <2>1. Verifier(c) = cloudflareTurnstile(c)
    BY <1>6 DEF Verifier
  <2>2. verifyUpstream(c) \in {Null, "answered"} /\ Null # "duplicate" /\ Null # "answered"
    BY NeverDuplicate, VerifierAssumption
  <2>3. c.defects \cap {"invalid", "action", "hostname"} = {} /\ "tooLong" \notin c.defects
    BY <1>0 DEF Genuine
  <2> QED
    BY <2>1, <2>2, <2>3 DEF cloudflareTurnstile
<1> QED
  BY <1>2, <1>3, <1>4, <1>5, <1>6 DEF Genuine

\* A credential is presented once, and its verdict is its verifier's.
VerdictInv ==
  /\ presented \in Presented \cup {Null}
  /\ presented # Null /\ Genuine(presented) => verdict # "refused"

\* GenuineNotRejected (core/src/auth): the verifiers that answer 503 for an
\* outage never tell a caller that a good credential is bad, whatever the key
\* set, the service or the network does.
THEOREM GenuineIsNotRefused == GatewaySpec => []GenuineNotRejected
<1>1. GatewayInit => VerdictInv
  <2>1. VerifyInit \/ VerifyOff => VerdictInv
    BY VerifierAssumption DEF VerifyInit, VerifyOff, VerdictInv
  <2> QED
    BY <2>1 DEF GatewayInit, ControlInit, ControlOff
<1>2. VerdictInv /\ [GatewayNext]_gatewayVars => VerdictInv'
  <2> SUFFICES ASSUME VerdictInv, [VerifyNext]_verifierVars PROVE VerdictInv'
    BY DEF GatewayNext, ControlNext, gatewayVars, controlVars, verifierVars
  <2>1. CASE Verify \/ Probe
    <3>1. presented \in Presented /\ UNCHANGED presented
      BY <2>1 DEF Verify, Probe, VerdictInv
    <3>2. \/ verdict' \in {"null", Verifier(presented).verify}
          \/ verdict' = Verifier(presented).test
      BY <2>1 DEF Verify, Probe
    <3>3. Genuine(presented) => verdict' # "refused"
      BY <3>1, <3>2, GenuineVerified
    <3> QED
      BY <3>1, <3>3 DEF VerdictInv
  <2>2. CASE UNCHANGED <<presented, verdict>>
    BY <2>2 DEF VerdictInv
  <2>3. VerifyNext => Verify \/ Probe \/ UNCHANGED <<presented, verdict>>
    BY DEF VerifyNext, IssueChallenge, ChallengeExpires, ClaimExpires, RegisterStarts,
           VerifyReadsKey, RegisterStores, RegisterEnds, VerifyReadsChallenge, VerifyClaims,
           VerifyChecks, VerifySpends, Keep
  <2> QED
    BY <2>1, <2>2, <2>3 DEF verifierVars
<1>3. VerdictInv => GenuineNotRejected
  BY DEF VerdictInv, Genuine, GenuineNotRejected
<1> QED
  BY <1>1, <1>2, <1>3, PTL DEF GatewaySpec

-----------------------------------------------------------------------------
(* Migrations                                                                *)

BootSteps == {"off", "down", "begun", "locked", "applying", "up"}
BootRows == [step : BootSteps, pending : SUBSET Nat, done : Seq(Nat)]

\* What is committed: the versions 1 .. n, in order, and the ledger says so.
Committed ==
  /\ schema \in [tables : Seq(Nat), ledger : Seq(Nat), lock : Replicas \cup {Null}]
  /\ schema.tables = schema.ledger
  /\ \A i \in DOMAIN schema.ledger : schema.ledger[i] = i

\* A transaction that read the ledger holds the lock, and continues where the
\* ledger ends; what an instance that is up needs was committed.
Continues ==
  /\ boots \in [Replicas -> BootRows]
  /\ \A r \in Replicas :
       /\ boots[r].step \in {"locked", "applying"} => schema.lock = r
       /\ boots[r].step = "applying" =>
            /\ \A i \in 1 .. Len(boots[r].done) : boots[r].done[i] = Len(schema.ledger) + i
            /\ boots[r].pending = (Len(schema.ledger) + Len(boots[r].done) + 1) .. Builds[r]
       /\ boots[r].step = "up" => Builds[r] <= Len(schema.ledger)

MigrationInv == Committed /\ Continues

\* An instance that is down has nothing but its step.
LEMMA DownAs ==
  ASSUME NEW step
  PROVE  [Down EXCEPT !.step = step] = [step |-> step, pending |-> {}, done |-> <<>>]
  BY DEF Down

\* A walk that has not begun has seen nothing.
LEMMA EmptyWalk == <<>> \in Seq(Nat) /\ Len(<<>>) = 0
  OBVIOUS

\* The ledger starts empty, and every instance is down.
LEMMA MigrationStarts == DatabaseInit \/ DatabaseOff => MigrationInv
<1> SUFFICES ASSUME DatabaseInit \/ DatabaseOff PROVE MigrationInv
  OBVIOUS
<1>1. /\ schema = [tables |-> <<>>, ledger |-> <<>>, lock |-> Null]
      /\ \/ boots = [r \in Replicas |-> Down]
         \/ boots = [r \in Replicas |-> [Down EXCEPT !.step = "off"]]
  BY DEF DatabaseInit, MigrateInit, LogsInit, DatabaseOff, NoSchema
<1>2. Committed
  BY <1>1 DEF Committed
<1>3. /\ Down \in BootRows /\ Down.step = "down"
      /\ [Down EXCEPT !.step = "off"] \in BootRows /\ [Down EXCEPT !.step = "off"].step = "off"
  BY DownAs, EmptyWalk DEF Down, BootRows, BootSteps
<1>4. Continues
  BY <1>1, <1>3 DEF Continues
<1> QED
  BY <1>2, <1>4 DEF MigrationInv

\* One transaction goes on, the others and what is committed stay.
LEMMA BootMoves ==
  ASSUME MigrationInv, NEW r \in Replicas, NEW row \in BootRows,
         boots' = [boots EXCEPT ![r] = row]
  PROVE  /\ boots' \in [Replicas -> BootRows] /\ boots'[r] = row
         /\ \A q \in Replicas \ {r} : boots'[q] = boots[q]
  BY DEF MigrationInv, Continues

\* An instance that boots touches the ledger only once it holds the lock.
LEMMA BootKeeps ==
  ASSUME MigrationInv, NEW r \in Replicas, Boot(r) \/ Lock(r) \/ ReadLedger(r) \/ Apply(r)
  PROVE  MigrationInv'
<1>0. /\ boots[r] \in BootRows /\ schema.ledger \in Seq(Nat) /\ Len(schema.ledger) \in Nat
      /\ Builds[r] \in Nat /\ Null \notin Replicas
  BY ReplicaAssumption DEF MigrationInv, Committed, Continues
<1>1. CASE Boot(r)
  <2> DEFINE row == [boots[r] EXCEPT !.step = "begun"]
  <2>1. row \in BootRows /\ row.step = "begun"
    BY <1>0 DEF BootRows, BootSteps
  <2>2. boots' = [boots EXCEPT ![r] = row] /\ UNCHANGED schema
    BY <1>1 DEF Boot, MigrationInv, Continues
  <2> HIDE DEF row
  <2>3. /\ boots' \in [Replicas -> BootRows] /\ boots'[r] = row
        /\ \A q \in Replicas \ {r} : boots'[q] = boots[q]
    BY <2>1, <2>2, BootMoves
  <2> QED
    BY <2>1, <2>2, <2>3 DEF MigrationInv, Committed, Continues
<1>2. CASE Lock(r)
  <2> DEFINE row == [boots[r] EXCEPT !.step = "locked"]
  <2>1. row \in BootRows /\ row.step = "locked"
    BY <1>0 DEF BootRows, BootSteps
  <2>2. boots' = [boots EXCEPT ![r] = row]
    BY <1>2 DEF Lock, MigrationInv, Continues
  <2> HIDE DEF row
  <2>3. /\ boots' \in [Replicas -> BootRows] /\ boots'[r] = row
        /\ \A q \in Replicas \ {r} : boots'[q] = boots[q]
    BY <2>1, <2>2, BootMoves
  <2>4. schema.lock = Null /\ schema' = [schema EXCEPT !.lock = r]
    BY <1>2 DEF Lock, LockFree
  <2>5. Committed' /\ schema'.ledger = schema.ledger /\ schema'.lock = r
    BY <2>4 DEF MigrationInv, Committed
  <2>6. \A q \in Replicas : boots[q].step \notin {"locked", "applying"}
    BY <1>0, <2>4 DEF MigrationInv, Continues
  <2> QED
    BY <2>1, <2>3, <2>5, <2>6 DEF MigrationInv, Continues
<1>3. CASE ReadLedger(r)
  <2> DEFINE left == {v \in 1 .. Builds[r] : v \notin ToSet(schema.ledger)}
             row == [step |-> "applying", done |-> <<>>, pending |-> left]
  <2>1. ToSet(schema.ledger) = 1 .. Len(schema.ledger)
    <3>1. DOMAIN schema.ledger = 1 .. Len(schema.ledger)
      BY <1>0
    <3> QED
      BY <3>1 DEF ToSet, MigrationInv, Committed
  <2>2. left = (Len(schema.ledger) + 1) .. Builds[r]
    BY <1>0, <2>1
  <2>3. left \in SUBSET Nat
    OBVIOUS
  <2> HIDE DEF left
  <2>4. row \in BootRows /\ row.step = "applying" /\ row.done = <<>> /\ row.pending = left
    BY <2>3 DEF BootRows, BootSteps
  <2>5. boots' = [boots EXCEPT ![r] = row] /\ UNCHANGED schema /\ boots[r].step = "locked"
    BY <1>3 DEF ReadLedger, Boots, left
  <2> HIDE DEF row
  <2>6. /\ boots' \in [Replicas -> BootRows] /\ boots'[r] = row
        /\ \A q \in Replicas \ {r} : boots'[q] = boots[q]
    BY <2>4, <2>5, BootMoves
  <2>7. Len(row.done) = 0 /\ Len(schema.ledger) + 0 + 1 = Len(schema.ledger) + 1
    BY <1>0, <2>4
  <2> QED
    BY <2>2, <2>4, <2>5, <2>6, <2>7 DEF MigrationInv, Committed, Continues
<1>4. CASE Apply(r)
  <2>1. PICK v \in boots[r].pending :
          /\ \A w \in boots[r].pending : v <= w
          /\ boots' = [boots EXCEPT ![r].pending = @ \ {v}, ![r].done = Append(@, v)]
    BY <1>4 DEF Apply
  <2> DEFINE n == Len(schema.ledger)
             k == Len(boots[r].done)
             row == [boots[r] EXCEPT !.pending = boots[r].pending \ {v},
                                     !.done = Append(boots[r].done, v)]
  <2>2. /\ boots[r].step = "applying" /\ boots[r].done \in Seq(Nat) /\ k \in Nat /\ n \in Nat
        /\ \A i \in 1 .. k : boots[r].done[i] = n + i
        /\ boots[r].pending = (n + k + 1) .. Builds[r]
    <3>1. boots[r].step = "applying" /\ boots[r].done \in Seq(Nat)
      BY <1>0, <1>4 DEF Apply, Boots, BootRows
    <3>2. /\ \A i \in 1 .. k : boots[r].done[i] = n + i
          /\ boots[r].pending = (n + k + 1) .. Builds[r]
      BY <3>1 DEF MigrationInv, Continues
    <3>3. k \in Nat /\ n \in Nat
      BY <1>0, <3>1
    <3> QED
      BY <3>1, <3>2, <3>3
  <2> HIDE DEF n, k
  <2>3. v = n + k + 1
    <3>1. n + k + 1 \in Nat /\ v \in (n + k + 1) .. Builds[r]
      BY <2>1, <2>2
    <3>2. n + k + 1 \in boots[r].pending
      BY <1>0, <2>2, <3>1
    <3> QED
      BY <1>0, <2>1, <3>1, <3>2
  <2>4. boots[r].pending \ {v} = (n + (k + 1) + 1) .. Builds[r] /\ v \in Nat
    <3> DEFINE b == Builds[r]
               p == boots[r].pending
    <3>1. n \in Nat /\ k \in Nat /\ b \in Int /\ p = (n + k + 1) .. b /\ v = n + k + 1
      BY <1>0, <2>2, <2>3
    <3> HIDE DEF b, p
    <3>2. p \ {v} = (n + (k + 1) + 1) .. b
      BY <3>1
    <3> QED
      BY <3>1, <3>2 DEF b, p
  <2> DEFINE done == Append(boots[r].done, v)
  <2>5. done \in Seq(Nat) /\ Len(done) = k + 1 /\ \A i \in 1 .. k + 1 : done[i] = n + i
    <3>1. done \in Seq(Nat) /\ Len(done) = k + 1
      BY <2>2, <2>4 DEF k
    <3>2. \A i \in 1 .. k : done[i] = boots[r].done[i]
      BY <2>2, <2>4 DEF k
    <3>3. done[k + 1] = v
      BY <2>2, <2>4 DEF k
    <3> QED
      BY <2>2, <2>3, <3>1, <3>2, <3>3, SMTT(30)
  <2>6. row \in BootRows /\ row.step = "applying"
        /\ row.done = done /\ row.pending = boots[r].pending \ {v}
    BY <1>0, <2>2, <2>4, <2>5 DEF BootRows
  <2>7. boots' = [boots EXCEPT ![r] = row] /\ UNCHANGED schema
    BY <1>4, <2>1 DEF Apply, MigrationInv, Continues
  <2> HIDE DEF row, done
  <2>8. /\ boots' \in [Replicas -> BootRows] /\ boots'[r] = row
        /\ \A q \in Replicas \ {r} : boots'[q] = boots[q]
    BY <2>6, <2>7, BootMoves
  <2> QED
    BY <2>2, <2>4, <2>5, <2>6, <2>7, <2>8 DEF MigrationInv, Committed, Continues, n
<1> QED
  BY <1>1, <1>2, <1>3, <1>4

\* A transaction ends: what it did is committed, or nothing is.
LEMMA EndKeeps ==
  ASSUME MigrationInv, NEW r \in Replicas, Commit(r) \/ Abort(r) \/ Restart(r)
  PROVE  MigrationInv'
<1>0. /\ boots[r] \in BootRows /\ schema.ledger \in Seq(Nat) /\ Len(schema.ledger) \in Nat
      /\ Builds[r] \in Nat /\ Null \notin Replicas
      /\ schema.tables = schema.ledger
  BY ReplicaAssumption DEF MigrationInv, Committed, Continues
<1>1. PICK step \in {"up", "down"}, done \in {<<>>, boots[r].done} :
        /\ Ends(r, step, done)
        /\ step = "up" => Commit(r) /\ done = boots[r].done
        /\ done # <<>> => Commit(r)
  BY DEF Commit, Abort, Restart
<1> DEFINE n == Len(schema.ledger)
           ledger == schema.ledger \o done
           row == [Down EXCEPT !.step = step]
<1>2. row \in BootRows /\ row.step = step
  <2>1. row = [step |-> step, pending |-> {}, done |-> <<>>]
    BY DownAs
  <2> HIDE DEF row
  <2> QED
    BY <2>1, EmptyWalk DEF BootRows, BootSteps
<1>3. /\ boots' = [boots EXCEPT ![r] = row]
      /\ schema' = [tables |-> schema.tables \o done, ledger |-> ledger,
                    lock |-> IF schema.lock = r THEN Null ELSE schema.lock]
  BY <1>1 DEF Ends
<1> HIDE DEF row
<1>4. /\ boots' \in [Replicas -> BootRows] /\ boots'[r] = row
      /\ \A q \in Replicas \ {r} : boots'[q] = boots[q]
  BY <1>2, <1>3, BootMoves
<1>5. /\ done \in Seq(Nat) /\ \A i \in 1 .. Len(done) : done[i] = n + i
      /\ step = "up" => Builds[r] <= n + Len(done)
  <2>1. CASE done = <<>> /\ step # "up"
    BY <2>1
  <2>2. CASE Commit(r) /\ done = boots[r].done
    <3>1. /\ boots[r].done \in Seq(Nat) /\ \A i \in 1 .. Len(done) : done[i] = n + i
          /\ (n + Len(done) + 1) .. Builds[r] = {}
      BY <1>0, <2>2 DEF Commit, Boots, BootRows, MigrationInv, Continues
    <3>2. Len(done) \in Nat
      BY <2>2, <3>1
    <3>3. Builds[r] <= n + Len(done)
      <4>1. SUFFICES ASSUME Builds[r] > n + Len(done) PROVE FALSE
        BY <1>0, <3>2
      <4>2. n + Len(done) + 1 \in (n + Len(done) + 1) .. Builds[r]
        BY <1>0, <3>2, <4>1
      <4> QED
        BY <3>1, <4>2
    <3> QED
      BY <2>2, <3>1, <3>3
  <2> QED
    BY <1>1, <2>1, <2>2
<1>6. /\ ledger \in Seq(Nat) /\ Len(ledger) = n + Len(done) /\ Len(ledger) >= n
      /\ \A i \in 1 .. Len(ledger) : ledger[i] = i
  <2>1. Len(done) \in Nat /\ DOMAIN schema.ledger = 1 .. n
    BY <1>0, <1>5
  <2>2. ledger \in Seq(Nat) /\ Len(ledger) = n + Len(done)
    BY <1>0, <1>5
  <2>3. \A i \in 1 .. n : schema.ledger[i] = i
    BY <2>1 DEF MigrationInv, Committed
  <2>4. \A i \in 1 .. n + Len(done) :
          ledger[i] = IF i <= n THEN schema.ledger[i] ELSE done[i - n]
    BY <1>0, <1>5, <2>1
  <2>5. ASSUME NEW i \in 1 .. n + Len(done) PROVE ledger[i] = i
    <3>1. CASE i <= n
      BY <1>0, <2>1, <2>3, <2>4, <3>1
    <3>2. CASE i > n
      <4>1. i - n \in 1 .. Len(done) /\ ~(i <= n) /\ n + (i - n) = i
        BY <1>0, <2>1, <3>2
      <4>2. done[i - n] = n + (i - n)
        BY <1>5, <4>1
      <4> QED
        BY <2>4, <4>1, <4>2
    <3> QED
      BY <1>0, <2>1, <3>1, <3>2
  <2> QED
    BY <1>0, <2>1, <2>2, <2>5
<1> HIDE DEF ledger
<1>7. /\ schema'.ledger = ledger /\ schema'.tables = ledger
      /\ schema'.lock = (IF schema.lock = r THEN Null ELSE schema.lock)
      /\ schema' \in [tables : Seq(Nat), ledger : Seq(Nat), lock : Replicas \cup {Null}]
  BY <1>0, <1>3, <1>6 DEF ledger, MigrationInv, Committed
<1>8. Committed'
  BY <1>6, <1>7 DEF Committed
<1>9. \A q \in Replicas \ {r} : boots[q].step = "applying" => done = <<>>
  BY <1>1 DEF Commit, Boots, MigrationInv, Continues
<1>10. done = <<>> => ledger = schema.ledger
  BY <1>0 DEF ledger
<1>11. ASSUME NEW q \in Replicas
       PROVE  /\ boots'[q].step \in {"locked", "applying"} => schema'.lock = q
              /\ boots'[q].step = "applying" =>
                   /\ \A i \in 1 .. Len(boots'[q].done) :
                        boots'[q].done[i] = Len(schema'.ledger) + i
                   /\ boots'[q].pending =
                        (Len(schema'.ledger) + Len(boots'[q].done) + 1) .. Builds[q]
              /\ boots'[q].step = "up" => Builds[q] <= Len(schema'.ledger)
  <2>1. CASE q = r
    BY <1>1, <1>2, <1>4, <1>5, <1>6, <1>7, <2>1
  <2>2. CASE q # r
    <3>1. boots'[q] = boots[q]
      BY <1>4, <2>2
    <3>2. Builds[q] \in Nat
      BY ReplicaAssumption
    <3>3. boots[q].step \in {"locked", "applying"} => schema.lock = q /\ schema'.lock = q
      BY <1>7, <2>2 DEF MigrationInv, Continues
    <3>4. boots[q].step = "applying" => schema'.ledger = schema.ledger
      BY <1>7, <1>9, <1>10, <2>2
    <3>5. boots[q].step = "up" => Builds[q] <= Len(schema'.ledger)
      <4>1. boots[q].step = "up" => Builds[q] <= n
        BY DEF MigrationInv, Continues
      <4>2. Len(schema'.ledger) >= n /\ Len(schema'.ledger) \in Nat
        BY <1>6, <1>7
      <4> QED
        BY <1>0, <3>2, <4>1, <4>2
    <3> QED
      BY <3>1, <3>3, <3>4, <3>5 DEF MigrationInv, Continues
  <2> QED
    BY <2>1, <2>2
<1>12. Continues'
  BY <1>4, <1>11 DEF Continues
<1> QED
  BY <1>8, <1>12 DEF MigrationInv

\* Nothing else of the database touches the schema or a boot.
LEMMA MigrationNextKeeps == MigrationInv /\ [DatabaseNext]_dbVars => MigrationInv'
<1> SUFFICES ASSUME MigrationInv, [DatabaseNext]_dbVars PROVE MigrationInv'
  OBVIOUS
<1>1. CASE UNCHANGED <<schema, boots>>
  BY <1>1 DEF MigrationInv, Committed, Continues
<1>2. ASSUME NEW r \in Replicas,
             Boot(r) \/ Lock(r) \/ ReadLedger(r) \/ Apply(r) \/ Commit(r) \/ Abort(r) \/ Restart(r)
      PROVE  MigrationInv'
  BY <1>2, BootKeeps, EndKeeps
<1>3. (\E r \in Replicas : SweepStarts(r)) \/ WriteRow \/ Tick \/ SweepContents \/ SweepLogs \/ ReadPage
        => UNCHANGED <<schema, boots>>
  BY DEF SweepStarts, WriteRow, Tick, SweepContents, SweepLogs, ReadPage, migrationVars
<1> QED
  BY <1>1, <1>2, <1>3 DEF DatabaseNext, dbVars

\* MigratedOnce (postgres/src/migrations/run.ts: migrateOnClient): however many
\* instances of however many builds boot, fail and die at once, each migration
\* has run once, in order and without a gap, the ledger says so, and an
\* instance that is up has the schema it needs.
THEOREM EachMigrationOnce == GatewaySpec => []MigratedOnce
<1>1. GatewayInit => MigrationInv
  BY MigrationStarts DEF GatewayInit, ControlInit, ControlOff
<1>2. [GatewayNext]_gatewayVars => [DatabaseNext]_dbVars
  BY DEF GatewayNext, ControlNext, gatewayVars, controlVars, dbVars
<1>3. MigrationInv => MigratedOnce
  BY DEF MigrationInv, Committed, Continues, MigratedOnce, Boots
<1> QED
  BY <1>1, <1>2, <1>3, MigrationNextKeeps, PTL DEF GatewaySpec

-----------------------------------------------------------------------------
(* A walk through the log                                                    *)

LogRows == [id : Nat, ts : Nat, content : BOOLEAN]

\* An id is given once, and a row keeps it.
LogsKept ==
  /\ logs \subseteq LogRows /\ IsFiniteSet(logs) /\ next \in Nat /\ clock \in Nat
  /\ \A a \in logs : a.id < next
  /\ \A a, b \in logs : a.id = b.id => a = b

ReaderRows == [step : {"idle", "walking", "done"}, before : Nat \cup {Null}, seen : Seq(Nat),
               there : SUBSET LogRows, lasts : SUBSET Nat]

\* What was seen or there has an id that was given, and is the row it was.
Walks ==
  /\ reader \in ReaderRows
  /\ reader.step = "idle" => reader.before = Null /\ reader.seen = <<>>
  /\ \A i \in DOMAIN reader.seen : reader.seen[i] < next
  /\ \A b \in reader.there : b.id < next
  /\ \A a \in logs, b \in reader.there : a.id = b.id => a.ts = b.ts

\* The times the cursor has passed.
Passed(ts) == reader.before # Null /\ ts >= reader.before

\* A row that was seen and is still there was passed, so no page lists it again.
SeenPassed ==
  /\ IsInjective(reader.seen)
  /\ reader.step # "done" => \A a \in logs : a.id \in ToSet(reader.seen) => Passed(a.ts)

\* A row that was there from the start and is passed was seen, has the time a
\* page ended with, or is gone.
PassedSeen ==
  \A b \in reader.there : Passed(b.ts) \/ reader.step = "done" =>
    \/ b.id \in ToSet(reader.seen) \/ b.ts \in reader.lasts
    \/ b.id \notin {kept.id : kept \in logs}

WalkInv == LogsKept /\ Walks /\ SeenPassed /\ PassedSeen

\* The rows of a page are not older than its last.
LEMMA LastIsOldest ==
  ASSUME NEW n \in Nat, NEW f \in [1 .. n -> Nat], \A i \in 1 .. n - 1 : f[i] >= f[i + 1]
  PROVE  \A i \in 1 .. n : f[i] >= f[n]
<1> SUFFICES ASSUME NEW i \in 1 .. n, f[i] < f[n] PROVE FALSE
  <2>1. \A i \in 1 .. n : n \in 1 .. n /\ f[i] \in Nat /\ f[n] \in Nat
    OBVIOUS
  <2> QED
    BY <2>1
<1> DEFINE Worse == {d \in Nat : d < n /\ f[n - d] < f[n]}
<1>1. n - i \in Worse
  <2>1. n - i \in Nat /\ n - i < n /\ n - (n - i) = i
    OBVIOUS
  <2> QED
    BY <2>1
<1>2. PICK d \in Worse : \A k \in Worse : d <= k
  BY <1>1, LeastNatural
<1>3. d \in Nat /\ d < n /\ f[n - d] < f[n] /\ n \in 1 .. n /\ f[n] \in Nat
  BY <1>2
<1>4. d # 0
  <2>1. n - 0 = n
    OBVIOUS
  <2> QED
    BY <1>3, <2>1
<1>5. /\ d - 1 \in Nat /\ d - 1 < n /\ n - d \in 1 .. n - 1
      /\ (n - d) + 1 = n - (d - 1) /\ n - (d - 1) \in 1 .. n /\ n - d \in 1 .. n
  BY <1>3, <1>4
<1>6. f[n - d] >= f[n - (d - 1)] /\ f[n - d] \in Nat /\ f[n - (d - 1)] \in Nat
  BY <1>5
<1>7. d - 1 \in Worse
  BY <1>3, <1>5, <1>6
<1>8. d <= d - 1
  BY <1>2, <1>7
<1> QED
  BY <1>3, <1>8

\* There are no rows and no reader at first.
LEMMA WalkStarts == DatabaseInit \/ DatabaseOff => WalkInv
<1> SUFFICES ASSUME DatabaseInit \/ DatabaseOff PROVE WalkInv
  OBVIOUS
<1>1. logs = {} /\ reader = NoWalk /\ next \in Nat /\ clock \in Nat
  BY LogAssumption DEF DatabaseInit, MigrateInit, LogsInit, DatabaseOff, NoLogs
<1>2. LogsKept
  BY <1>1, FS_EmptySet DEF LogsKept
<1>3. NoWalk \in ReaderRows /\ NoWalk.step = "idle" /\ NoWalk.before = Null
      /\ NoWalk.seen = <<>> /\ NoWalk.there = {}
  BY EmptyWalk DEF NoWalk, ReaderRows
<1>4. DOMAIN <<>> = {}
  OBVIOUS
<1>5. Walks /\ SeenPassed /\ PassedSeen
  BY <1>1, <1>3, <1>4 DEF Walks, SeenPassed, PassedSeen, IsInjective, ToSet
<1> QED
  BY <1>2, <1>5 DEF WalkInv

\* Rows change, but none is listed under another id or time.
LEMMA RowsGo ==
  ASSUME WalkInv, logs' \subseteq LogRows, IsFiniteSet(logs'),
         \A a \in logs' : \E b \in logs : a.id = b.id /\ a.ts = b.ts,
         \A a, b \in logs' : a.id = b.id => a = b,
         UNCHANGED <<next, reader>>, clock' \in Nat
  PROVE  WalkInv'
<1>1. LogsKept'
  BY DEF WalkInv, LogsKept
<1>2. Walks'
  BY DEF WalkInv, Walks
<1>3. SeenPassed'
  BY DEF WalkInv, SeenPassed, Passed
<1>4. PassedSeen'
  BY DEF WalkInv, PassedSeen, Passed
<1> QED
  BY <1>1, <1>2, <1>3, <1>4 DEF WalkInv

\* A row that is written has an id of its own: no walk under way is to show it.
LEMMA WriteKeeps == ASSUME WalkInv, WriteRow PROVE WalkInv'
<1>1. PICK ts \in 1 .. clock, content \in BOOLEAN :
        logs' = logs \cup {[id |-> next, ts |-> ts, content |-> content]}
  BY DEF WriteRow
<1> DEFINE row == [id |-> next, ts |-> ts, content |-> content]
<1>2. next' = next + 1 /\ UNCHANGED <<clock, reader>> /\ next \in Nat /\ clock \in Nat
  BY DEF WriteRow, WalkInv, LogsKept
<1>3. row \in LogRows /\ row.id = next
  BY <1>2 DEF LogRows
<1> HIDE DEF row
<1>4. IsFiniteSet(logs')
  BY <1>1, FS_AddElement DEF row, WalkInv, LogsKept
<1>5. \A a \in logs : a.id \in Nat /\ a.id < next
  BY DEF WalkInv, LogsKept, LogRows
<1>6. logs' = logs \cup {row}
  BY <1>1 DEF row
<1>7. LogsKept'
  <2>1. \A a \in logs' : a.id < next'
    BY <1>2, <1>3, <1>5, <1>6
  <2>2. \A a, b \in logs' : a.id = b.id => a = b
    BY <1>2, <1>3, <1>5, <1>6 DEF WalkInv, LogsKept
  <2> QED
    BY <1>2, <1>3, <1>4, <1>6, <2>1, <2>2 DEF WalkInv, LogsKept
<1>8. /\ reader \in ReaderRows
      /\ reader.step = "idle" => reader.before = Null /\ reader.seen = <<>>
      /\ \A i \in DOMAIN reader.seen : reader.seen[i] < next /\ reader.seen[i] \in Nat
      /\ \A b \in reader.there : b.id < next /\ b.id \in Nat
      /\ \A a \in logs, b \in reader.there : a.id = b.id => a.ts = b.ts
  BY DEF WalkInv, Walks, ReaderRows, LogRows
<1>9. Walks'
  <2>1. \A i \in DOMAIN reader.seen : reader.seen[i] < next'
    BY <1>2, <1>8
  <2>2. \A b \in reader.there : b.id < next' /\ b.id # next
    BY <1>2, <1>8
  <2>3. \A a \in logs', b \in reader.there : a.id = b.id => a.ts = b.ts
    BY <1>3, <1>6, <1>8, <2>2
  <2> QED
    BY <1>2, <1>8, <2>1, <2>2, <2>3 DEF Walks
<1>10. next \notin ToSet(reader.seen)
  BY <1>2, <1>8 DEF ToSet
<1>11. SeenPassed'
  BY <1>2, <1>3, <1>6, <1>10 DEF WalkInv, SeenPassed, Passed
<1>12. PassedSeen'
  <2>1. \A b \in reader.there : b.id # next
    BY <1>2, <1>8
  <2>2. \A b \in reader.there :
          b.id \notin {kept.id : kept \in logs} => b.id \notin {kept.id : kept \in logs'}
    BY <1>3, <1>6, <2>1
  <2> QED
    BY <1>2, <2>2 DEF WalkInv, PassedSeen, Passed
<1> QED
  BY <1>7, <1>9, <1>11, <1>12 DEF WalkInv

\* A sweep removes rows, or the content of rows.
LEMMA SweepKeeps == ASSUME WalkInv, SweepContents \/ SweepLogs PROVE WalkInv'
<1>0. /\ logs \subseteq LogRows /\ IsFiniteSet(logs) /\ clock \in Nat
      /\ \A a, b \in logs : a.id = b.id => a = b
  BY DEF WalkInv, LogsKept
<1>1. CASE SweepLogs
  <2>1. logs' \in SUBSET logs /\ UNCHANGED <<clock, next, reader>>
    BY <1>1 DEF SweepLogs
  <2>2. IsFiniteSet(logs')
    BY <1>0, <2>1, FS_Subset
  <2>3. logs' \subseteq LogRows /\ clock' \in Nat
    BY <1>0, <2>1
  <2>4. \A a \in logs' : \E b \in logs : a.id = b.id /\ a.ts = b.ts
    BY <2>1
  <2>5. \A a, b \in logs' : a.id = b.id => a = b
    BY <1>0, <2>1
  <2> QED
    BY <2>1, <2>2, <2>3, <2>4, <2>5, RowsGo
<1>2. CASE SweepContents
  <2> DEFINE Swept(row) == IF OlderThan(row, ContentRetention) THEN [row EXCEPT !.content = FALSE]
                           ELSE row
             f == [row \in logs |-> Swept(row)]
  <2>1. logs' = {Swept(row) : row \in logs} /\ UNCHANGED <<clock, next, reader>>
    BY <1>2 DEF SweepContents
  <2>2. \A row \in logs : Swept(row) \in LogRows /\ Swept(row).id = row.id /\ Swept(row).ts = row.ts
    BY <1>0 DEF LogRows
  <2>3. f \in Surjection(logs, logs')
    BY <2>1 DEF Surjection
  <2>4. IsFiniteSet(logs')
    BY <1>0, <2>3, FS_Surjection
  <2> HIDE DEF f, Swept
  <2>5. \A a \in logs' : \E b \in logs : a = Swept(b)
    BY <2>1
  <2>6. \A a, b \in logs' : a.id = b.id => a = b
    BY <1>0, <2>2, <2>5
  <2>7. logs' \subseteq LogRows /\ clock' \in Nat
    BY <1>0, <2>1, <2>2, <2>5
  <2>8. \A a \in logs' : \E b \in logs : a.id = b.id /\ a.ts = b.ts
    BY <2>2, <2>5
  <2> QED
    BY <2>1, <2>4, <2>6, <2>7, <2>8, RowsGo
<1> QED
  BY <1>1, <1>2

\* A page lists rows the cursor has not passed, and leaves out only older ones;
\* it is empty only when no such row is left.
LEMMA PageIs ==
  ASSUME WalkInv, NEW page \in Pages(reader.before)
  PROVE  /\ page \in Seq(logs) /\ IsInjective(page)
         /\ \A i \in DOMAIN page : ~Passed(page[i].ts)
         /\ page = <<>> => \A a \in logs : Passed(a.ts)
         /\ page # <<>> =>
              /\ Last(page) \in logs /\ ~Passed(Last(page).ts)
              /\ \A i \in DOMAIN page : page[i].ts >= Last(page).ts
              /\ \A a \in logs : ~Passed(a.ts) /\ a \notin ToSet(page) => a.ts <= Last(page).ts
<1> DEFINE eligible == {row \in logs : Before(row, reader.before)}
<1>1. PICK n \in 0 .. PageLimit : page \in [1 .. n -> logs]
  BY DEF Pages
<1>2. IsPage(page, reader.before)
  BY DEF Pages
<1>3. /\ n \in Nat /\ PageLimit \in Nat \ {0}
      /\ page \in Seq(logs) /\ Len(page) = n /\ DOMAIN page = 1 .. n
  BY <1>1, RetentionAssumption
<1>4. /\ logs \subseteq LogRows /\ IsFiniteSet(logs)
      /\ reader.before \in Nat \cup {Null} /\ Null \notin Nat
  BY LogAssumption DEF WalkInv, LogsKept, Walks, ReaderRows
<1>5. \A a \in logs : a.ts \in Nat /\ (a \in eligible <=> ~Passed(a.ts))
  BY <1>4 DEF Before, Passed, LogRows
<1>6. /\ ToSet(page) \subseteq eligible /\ IsInjective(page)
      /\ Len(page) = Min({PageLimit, Cardinality(eligible)})
      /\ \A i \in 1 .. Len(page) - 1 : page[i].ts >= page[i + 1].ts
      /\ page # <<>> => \A row \in eligible \ ToSet(page) : row.ts <= Last(page).ts
  BY <1>2 DEF IsPage
<1>7. eligible \in SUBSET logs /\ IsFiniteSet(eligible) /\ Cardinality(eligible) \in Nat
  BY <1>4, FS_Subset, FS_CardinalityType
<1> HIDE DEF eligible
<1>8. ASSUME page = <<>> PROVE \A a \in logs : Passed(a.ts)
  <2>1. Len(page) = 0
    BY <1>8
  <2>2. Min({PageLimit, Cardinality(eligible)}) \in {PageLimit, Cardinality(eligible)}
    BY <1>3, <1>7 DEF Min
  <2>3. Cardinality(eligible) = 0
    BY <1>3, <1>6, <2>1, <2>2
  <2>4. eligible = {}
    BY <1>7, <2>3, FS_EmptySet
  <2> QED
    BY <1>5, <2>4
<1>9. \A i \in 1 .. n : page[i] \in logs /\ page[i] \in eligible /\ page[i].ts \in Nat
  BY <1>1, <1>3, <1>5, <1>6 DEF ToSet
<1>10. \A i \in DOMAIN page : ~Passed(page[i].ts)
  BY <1>3, <1>5, <1>9
<1>11. ASSUME page # <<>>
       PROVE  /\ Last(page) \in logs /\ ~Passed(Last(page).ts)
              /\ \A i \in DOMAIN page : page[i].ts >= Last(page).ts
  <2>1. n # 0 /\ n \in 1 .. n
    BY <1>1, <1>3, <1>11
  <2>2. Last(page) = page[n]
    BY <1>3 DEF Last
  <2> DEFINE f == [i \in 1 .. n |-> page[i].ts]
  <2>3. f \in [1 .. n -> Nat] /\ \A i \in 1 .. n - 1 : f[i] >= f[i + 1]
    <3>1. \A i \in 1 .. n - 1 : i \in 1 .. n /\ i + 1 \in 1 .. n
      BY <1>3
    <3> QED
      BY <1>3, <1>6, <1>9, <3>1
  <2> HIDE DEF f
  <2>4. \A i \in 1 .. n : f[i] >= f[n]
    BY <1>3, <2>3, LastIsOldest
  <2> QED
    BY <1>3, <1>9, <1>10, <2>1, <2>2, <2>4 DEF f
<1>12. page # <<>> => \A a \in logs : ~Passed(a.ts) /\ a \notin ToSet(page) => a.ts <= Last(page).ts
  BY <1>5, <1>6
<1> QED
  BY <1>3, <1>6, <1>8, <1>10, <1>11, <1>12

\* The concatenation of two sequences has their joint length.
LEMMA Concatenated ==
  ASSUME NEW s \in Seq(Nat), NEW t \in Seq(Nat)
  PROVE  s \o t \in Seq(Nat) /\ Len(s \o t) = Len(s) + Len(t)
  OBVIOUS

\* A page adds rows the cursor had not passed, and passes them.
LEMMA ReadKeeps == ASSUME WalkInv, ReadPage PROVE WalkInv'
<1>1. PICK page \in Pages(reader.before) :
       reader' =
         [step   |-> IF page = <<>> THEN "done" ELSE "walking",
          before |-> IF page = <<>> THEN Null ELSE Last(page).ts,
          seen   |-> reader.seen \o [i \in DOMAIN page |-> page[i].id],
          lasts  |-> reader.lasts \cup (IF page = <<>> THEN {} ELSE {Last(page).ts}),
          there  |-> IF reader.step = "idle" THEN logs ELSE reader.there]
  BY DEF ReadPage
<1> DEFINE ids == [i \in DOMAIN page |-> page[i].id]
           seen == reader.seen \o ids
<1>2. reader.step # "done" /\ UNCHANGED <<logs, clock, next>>
  BY DEF ReadPage
<1>3. /\ page \in Seq(logs) /\ IsInjective(page)
      /\ \A i \in DOMAIN page : ~Passed(page[i].ts)
      /\ page = <<>> => \A a \in logs : Passed(a.ts)
      /\ page # <<>> =>
           /\ Last(page) \in logs /\ ~Passed(Last(page).ts)
           /\ \A i \in DOMAIN page : page[i].ts >= Last(page).ts
           /\ \A a \in logs : ~Passed(a.ts) /\ a \notin ToSet(page) => a.ts <= Last(page).ts
  BY PageIs
<1>4. /\ logs \subseteq LogRows /\ \A a, b \in logs : a.id = b.id => a = b
      /\ \A a \in logs : a.id < next /\ a.id \in Nat /\ a.ts \in Nat
      /\ reader \in ReaderRows /\ reader.seen \in Seq(Nat)
      /\ reader.before \in Nat \cup {Null} /\ Null \notin Nat
      /\ \A b \in reader.there : b.id < next /\ b.ts \in Nat
  BY LogAssumption DEF WalkInv, LogsKept, Walks, LogRows, ReaderRows
<1>5. \A i \in DOMAIN page : page[i] \in logs /\ page[i].id \in Nat /\ page[i].id < next
  BY <1>3, <1>4
<1>6. ids \in Seq(Nat) /\ Len(ids) = Len(page) /\ DOMAIN ids = DOMAIN page
  BY <1>3, <1>5
<1>7. \A i \in DOMAIN page : ids[i] = page[i].id
  OBVIOUS
<1> HIDE DEF ids
<1>8. /\ seen \in Seq(Nat) /\ Len(seen) = Len(reader.seen) + Len(ids)
      /\ \A j \in DOMAIN seen :
           \/ j \in DOMAIN reader.seen /\ seen[j] = reader.seen[j]
           \/ /\ j > Len(reader.seen) /\ j - Len(reader.seen) \in DOMAIN page
              /\ seen[j] = page[j - Len(reader.seen)].id
      /\ \A j \in DOMAIN reader.seen : j \in DOMAIN seen /\ seen[j] = reader.seen[j]
      /\ \A i \in DOMAIN page : /\ Len(reader.seen) + i \in DOMAIN seen
                                /\ seen[Len(reader.seen) + i] = page[i].id
  <2>1. seen \in Seq(Nat) /\ Len(seen) = Len(reader.seen) + Len(ids)
        /\ Len(ids) \in Nat /\ Len(reader.seen) \in Nat
        /\ DOMAIN seen = 1 .. Len(reader.seen) + Len(ids)
        /\ DOMAIN reader.seen = 1 .. Len(reader.seen) /\ DOMAIN page = 1 .. Len(ids)
    <3>1. Len(ids) \in Nat /\ Len(reader.seen) \in Nat /\ Len(page) \in Nat
      BY <1>3, <1>4, <1>6
    <3>2. DOMAIN reader.seen = 1 .. Len(reader.seen) /\ DOMAIN ids = 1 .. Len(ids)
      BY <1>4, <1>6
    <3>3. seen \in Seq(Nat) /\ Len(seen) = Len(reader.seen) + Len(ids)
      BY <1>4, <1>6, Concatenated
    <3> HIDE DEF seen
    <3>4. DOMAIN seen = 1 .. Len(reader.seen) + Len(ids)
      BY <3>3
    <3> QED
      BY <1>6, <3>1, <3>2, <3>3, <3>4
  <2>2. \A j \in 1 .. Len(reader.seen) + Len(ids) :
          seen[j] = IF j <= Len(reader.seen) THEN reader.seen[j] ELSE ids[j - Len(reader.seen)]
    BY <1>4, <1>6, <2>1
  <2> DEFINE m == Len(reader.seen)
             n == Len(ids)
             old == reader.seen
  <2>3. /\ m \in Nat /\ n \in Nat /\ DOMAIN seen = 1 .. m + n /\ DOMAIN old = 1 .. m
        /\ DOMAIN page = 1 .. n /\ \A i \in 1 .. n : ids[i] = page[i].id
        /\ \A j \in 1 .. m + n : seen[j] = IF j <= m THEN old[j] ELSE ids[j - m]
    BY <1>7, <2>1, <2>2
  <2> HIDE DEF m, n, old, seen
  <2>4. ASSUME NEW j \in 1 .. m + n
        PROVE  (j \in 1 .. m /\ seen[j] = old[j]) \/ (j > m /\ j - m \in 1 .. n /\ seen[j] = page[j - m].id)
    <3>1. CASE j <= m
      BY <2>3, <3>1
    <3>2. CASE ~(j <= m)
      <4>1. j > m /\ j - m \in 1 .. n
        BY <2>3, <3>2
      <4> QED
        BY <2>3, <3>2, <4>1
    <3> QED
      BY <3>1, <3>2
  <2>5. ASSUME NEW j \in 1 .. m PROVE j \in 1 .. m + n /\ seen[j] = old[j]
    BY <2>3
  <2>6. ASSUME NEW i \in 1 .. n PROVE m + i \in 1 .. m + n /\ seen[m + i] = page[i].id
    <3>1. m + i \in 1 .. m + n /\ ~(m + i <= m) /\ (m + i) - m = i
      BY <2>3
    <3> QED
      BY <2>3, <3>1
  <2>7. seen \in Seq(Nat) /\ Len(seen) = m + n
    BY <2>1 DEF m, n
  <2> QED
    BY <2>3, <2>4, <2>5, <2>6, <2>7 DEF m, n, old
<1> HIDE DEF seen
<1>9. \A x : x \in ToSet(seen) <=>
             x \in ToSet(reader.seen) \/ \E i \in DOMAIN page : x = page[i].id
  <2>1. ASSUME NEW j \in DOMAIN seen
        PROVE  seen[j] \in ToSet(reader.seen) \/ \E i \in DOMAIN page : seen[j] = page[i].id
    BY <1>8 DEF ToSet
  <2>2. ASSUME NEW j \in DOMAIN reader.seen PROVE reader.seen[j] \in ToSet(seen)
    BY <1>8 DEF ToSet
  <2>3. ASSUME NEW i \in DOMAIN page PROVE page[i].id \in ToSet(seen)
    BY <1>8 DEF ToSet
  <2> QED
    BY <2>1, <2>2, <2>3 DEF ToSet
<1>10. /\ reader'.step = (IF page = <<>> THEN "done" ELSE "walking")
       /\ reader'.before = (IF page = <<>> THEN Null ELSE Last(page).ts)
       /\ reader'.seen = seen
       /\ reader'.lasts = reader.lasts \cup (IF page = <<>> THEN {} ELSE {Last(page).ts})
       /\ reader'.there = (IF reader.step = "idle" THEN logs ELSE reader.there)
  BY <1>1 DEF seen, ids
<1>11. reader' \in ReaderRows
  <2>1. page # <<>> => Last(page).ts \in Nat
    BY <1>3, <1>4
  <2>2. reader.lasts \cup (IF page = <<>> THEN {} ELSE {Last(page).ts}) \in SUBSET Nat
    BY <1>4, <2>1 DEF ReaderRows
  <2>3. (IF reader.step = "idle" THEN logs ELSE reader.there) \in SUBSET LogRows
    BY <1>4 DEF ReaderRows
  <2> QED
    BY <1>1, <1>8, <2>1, <2>2, <2>3 DEF ReaderRows, seen, ids
<1>12. \A a \in logs : a.id \in ToSet(reader.seen) => Passed(a.ts)
  BY <1>2 DEF WalkInv, SeenPassed
<1>13. IsInjective(seen)
  <2> SUFFICES ASSUME NEW i \in DOMAIN seen, NEW j \in DOMAIN seen, seen[i] = seen[j] PROVE i = j
    BY DEF IsInjective
  <2> DEFINE m == Len(reader.seen)
  <2>0. m \in Nat /\ i \in Nat /\ j \in Nat
    BY <1>4, <1>8
  <2>1. CASE i \in DOMAIN reader.seen /\ j \in DOMAIN reader.seen
    BY <1>8, <2>1 DEF WalkInv, SeenPassed, IsInjective
  <2>2. ASSUME NEW x \in DOMAIN reader.seen, NEW y \in DOMAIN page
        PROVE  reader.seen[x] # page[y].id
    BY <1>3, <1>5, <1>12 DEF ToSet
  <2>3. ASSUME NEW x \in DOMAIN page, NEW y \in DOMAIN page, page[x].id = page[y].id PROVE x = y
    BY <1>3, <1>4, <1>5, <2>3 DEF IsInjective
  <2>4. CASE i - m \in DOMAIN page /\ j - m \in DOMAIN page
             /\ seen[i] = page[i - m].id /\ seen[j] = page[j - m].id
    <3>1. i - m = j - m
      BY <2>3, <2>4
    <3> QED
      BY <2>0, <3>1
  <2>5. \A k \in DOMAIN seen :
          \/ k \in DOMAIN reader.seen /\ seen[k] = reader.seen[k]
          \/ k - m \in DOMAIN page /\ seen[k] = page[k - m].id
    BY <1>8
  <2>6. (i \in DOMAIN reader.seen /\ seen[i] = reader.seen[i])
          <=> (j \in DOMAIN reader.seen /\ seen[j] = reader.seen[j])
    <3>1. \/ i \in DOMAIN reader.seen /\ seen[i] = reader.seen[i]
          \/ i - m \in DOMAIN page /\ seen[i] = page[i - m].id
      BY <2>5
    <3>2. \/ j \in DOMAIN reader.seen /\ seen[j] = reader.seen[j]
          \/ j - m \in DOMAIN page /\ seen[j] = page[j - m].id
      BY <2>5
    <3> HIDE DEF m
    <3> QED
      BY <2>2, <3>1, <3>2
  <2> HIDE DEF m
  <2> QED
    BY <2>1, <2>4, <2>5, <2>6
<1>14. LogsKept'
  BY <1>2 DEF WalkInv, LogsKept
<1>15. Walks'
  <2>1. \A i \in DOMAIN seen : seen[i] < next
    BY <1>5, <1>8 DEF WalkInv, Walks
  <2>2. \A b \in reader'.there : b.id < next
    BY <1>4, <1>10
  <2>3. \A a \in logs, b \in reader'.there : a.id = b.id => a.ts = b.ts
    BY <1>4, <1>10 DEF WalkInv, Walks
  <2> QED
    BY <1>2, <1>10, <1>11, <2>1, <2>2, <2>3 DEF Walks
<1>16. SeenPassed'
  <2>1. ASSUME page # <<>>, NEW a \in logs, a.id \in ToSet(seen) PROVE a.ts >= Last(page).ts
    <3>1. CASE a.id \in ToSet(reader.seen)
      BY <1>3, <1>4, <1>12, <2>1, <3>1 DEF Passed
    <3>2. CASE \E i \in DOMAIN page : a.id = page[i].id
      <4>1. PICK i \in DOMAIN page : a = page[i]
        BY <1>4, <1>5, <3>2
      <4> QED
        BY <1>3, <2>1, <4>1
    <3> QED
      BY <1>9, <2>1, <3>1, <3>2
  <2>2. page # <<>> => Last(page).ts \in Nat /\ Last(page).ts # Null
    BY <1>3, <1>4
  <2> QED
    BY <1>2, <1>10, <1>13, <2>1, <2>2 DEF SeenPassed, Passed
<1>17. PassedSeen'
  <2> SUFFICES ASSUME NEW b \in reader'.there, Passed(b.ts)' \/ page = <<>>,
                      NEW a \in logs, a.id = b.id
               PROVE  b.id \in ToSet(seen) \/ b.ts \in reader'.lasts
    BY <1>2, <1>10 DEF PassedSeen
  <2>1. a.ts = b.ts /\ a.ts \in Nat
    BY <1>2, <1>4, <1>15 DEF Walks
  <2>2. CASE Passed(b.ts)
    <3>1. reader.step # "idle"
      BY <2>2 DEF Passed, WalkInv, Walks
    <3>2. b \in reader.there
      BY <1>10, <3>1
    <3>3. b.id \in ToSet(reader.seen) \/ b.ts \in reader.lasts
      BY <2>2, <3>2 DEF WalkInv, PassedSeen
    <3> QED
      BY <1>9, <1>10, <3>3
  <2>3. CASE ~Passed(b.ts)
    <3>1. page # <<>>
      BY <1>3, <2>1, <2>3
    <3>2. b.ts >= Last(page).ts /\ Last(page).ts \in Nat
      BY <1>3, <1>4, <1>10, <3>1 DEF Passed
    <3>3. CASE a \in ToSet(page)
      BY <1>9, <3>3 DEF ToSet
    <3>4. CASE a \notin ToSet(page)
      <4>1. b.ts = Last(page).ts
        BY <1>3, <2>1, <2>3, <3>1, <3>2, <3>4
      <4> QED
        BY <1>10, <3>1, <4>1
    <3> QED
      BY <3>3, <3>4
  <2> QED
    BY <2>2, <2>3
<1> QED
  BY <1>14, <1>15, <1>16, <1>17 DEF WalkInv

\* Migrations and the clock touch neither the rows nor the reader.
LEMMA WalkNextKeeps == WalkInv /\ [DatabaseNext]_dbVars => WalkInv'
<1> SUFFICES ASSUME WalkInv, [DatabaseNext]_dbVars PROVE WalkInv'
  OBVIOUS
<1>1. CASE UNCHANGED <<logs, next, reader>> /\ clock' \in {clock, clock + 1}
  BY <1>1 DEF WalkInv, LogsKept, Walks, SeenPassed, PassedSeen, Passed
<1>2. \A r \in Replicas :
        Boot(r) \/ Lock(r) \/ ReadLedger(r) \/ Apply(r) \/ Commit(r) \/ Abort(r) \/ Restart(r)
          => UNCHANGED <<logs, next, reader, clock>>
  BY DEF Boot, Lock, ReadLedger, Apply, Commit, Abort, Restart, Ends, logVars
<1>3. (\E r \in Replicas : SweepStarts(r)) \/ Tick
        => UNCHANGED <<logs, next, reader>> /\ clock' \in {clock, clock + 1}
  BY DEF SweepStarts, Tick
<1> QED
  BY <1>1, <1>2, <1>3, WriteKeeps, SweepKeeps, ReadKeeps DEF DatabaseNext, dbVars

\* WalkSeesAll (postgres/src/request-log-store.ts, admin/src/routes/logs.ts):
\* a reader that follows the cursor, beside writers and sweeps, is shown no row
\* twice and misses none that was there throughout, except rows of exactly the
\* time a page ended with.
THEOREM WalkMissesNothing == GatewaySpec => []WalkSeesAll
<1>1. GatewayInit => WalkInv
  BY WalkStarts DEF GatewayInit, ControlInit, ControlOff
<1>2. [GatewayNext]_gatewayVars => [DatabaseNext]_dbVars
  BY DEF GatewayNext, ControlNext, gatewayVars, controlVars, dbVars
<1>3. WalkInv => WalkSeesAll
  BY DEF WalkInv, SeenPassed, PassedSeen, WalkSeesAll
<1> QED
  BY <1>1, <1>2, <1>3, WalkNextKeeps, PTL DEF GatewaySpec

-----------------------------------------------------------------------------
(* Credentials                                                               *)

Values == Typed \cup {Seeded, Null} \cup SecretIds
Leaves == [kind : {"none", "plain", "ref", "env"}, of : Values]
Documents == [Credentials -> Leaves]
Meanings == [Credentials -> Values]
SecretRows == [name : Credentials, value : Values, key : Nat]
Held == [id : SecretIds, row : SecretRows]
Pcs == {"idle", "seal", "upsert", "validate", "store", "reload", "done", "refused", "failed",
        "check", "delete", "rotate", "rotated", "over"}
TaskRows == [pc : Pcs, doc : Documents \cup {Null}, meant : Meanings \cup {Null},
             id : SecretIds \cup {Null}, at : Credentials \cup {Null}, value : Values,
             todo : SUBSET Held, force : BOOLEAN]

SecretTypeOK ==
  /\ rows \in [SecretIds -> SecretRows \cup {Null}]
  /\ revisions \in Seq(Documents) /\ revisions # <<>>
  /\ keyrings \in Seq(Seq(Nat)) /\ keyrings # <<>>
  /\ tasks \in [Operators -> TaskRows]
  /\ meant \in Meanings

\* The plain text of a document is the environment's or a file's.
Clean(doc) == \A p \in PlainPaths(doc) : doc[p].of = Seeded

\* What a call that is under way has: a document that is to be stored is sealed
\* already, or has no plain text that was typed.
Fits(task) ==
  /\ task.pc \in {"seal", "validate", "store"} => task.doc \in Documents /\ task.meant \in Meanings
  /\ task.pc = "upsert" => /\ task.id \in SecretIds /\ task.at \in Credentials
                           /\ task.doc # Null => task.meant \in Meanings
  /\ task.pc \in {"upsert", "rotate"} => ~NoKeys
  /\ task.pc \in {"validate", "store"} => Clean(task.doc)

\* A rotation still has the rows that an old key sealed; what is sealed
\* meanwhile is sealed by the active one.
Covers(task, i) ==
  /\ task.pc # "rotated"
  /\ task.pc = "rotate" => \E held \in task.todo : held.id = i /\ held.row.key # Current

Old(i) == Stored(i) /\ rows[i].key # Current

SecretsKept ==
  /\ SecretTypeOK
  /\ \A k \in DOMAIN revisions : Clean(revisions[k])
  /\ \A o \in Operators : Fits(tasks[o])
  /\ \A o \in Operators, i \in SecretIds : Old(i) => Covers(tasks[o], i)

\* In a behaviour of another part there are no secrets.
SecretInv == SecretsKept \/ (rows = Null /\ revisions = Null)

\* A call that has not begun, or is over, has nothing.
LEMMA RestingFits ==
  ASSUME NEW pc \in Pcs
  PROVE  /\ [Resting EXCEPT !.pc = pc] \in TaskRows
         /\ [Resting EXCEPT !.pc = pc].pc = pc
<1>1. Null \in Values
  BY DEF Values
<1> QED
  BY <1>1 DEF Resting, TaskRows

\* At first no row is stored, and the document has no plain text but the
\* environment's.
LEMMA SecretsStart == SecretInit \/ SecretOff => SecretInv
<1>1. SecretOff => SecretInv
  BY DEF SecretOff, SecretInv
<1>2. ASSUME SecretInit PROVE SecretsKept
  <2>1. PICK leaf \in {Nothing, Plain(Seeded), Variable} :
          revisions = <<[p \in Credentials |-> IF p = 1 THEN leaf ELSE Nothing]>>
    BY <1>2 DEF SecretInit
  <2> DEFINE doc == [p \in Credentials |-> IF p = 1 THEN leaf ELSE Nothing]
  <2>2. leaf \in Leaves /\ Nothing \in Leaves
    BY DEF Nothing, Plain, Variable, Leaves, Values
  <2>3. doc \in Documents /\ Clean(doc)
    BY <2>2 DEF Documents, Clean, PlainPaths, Nothing, Plain, Variable
  <2> HIDE DEF doc
  <2>4. /\ revisions \in Seq(Documents) /\ revisions # <<>>
        /\ \A k \in DOMAIN revisions : revisions[k] = doc
    BY <2>1, <2>3 DEF doc
  <2>5. keyrings \in Seq(Seq(Nat)) /\ keyrings # <<>>
    BY <1>2, SecretAssumption DEF SecretInit
  <2>6. Resting \in TaskRows
    BY DEF Resting, TaskRows, Pcs, Values
  <2>7. \A o \in Operators : tasks[o] = Resting /\ tasks[o].pc = "idle"
    BY <1>2 DEF SecretInit, Resting
  <2>8. tasks \in [Operators -> TaskRows]
    BY <1>2, <2>6 DEF SecretInit
  <2>9. /\ rows \in [SecretIds -> SecretRows \cup {Null}] /\ meant \in Meanings
        /\ \A i \in SecretIds : ~Stored(i)
    BY <1>2 DEF SecretInit, Meanings, Values, Stored
  <2> QED
    BY <2>3, <2>4, <2>5, <2>7, <2>8, <2>9 DEF SecretsKept, SecretTypeOK, Fits, Old
<1> QED
  BY <1>1, <1>2 DEF SecretInv

\* What a step of a call owes the invariant: the rows it writes are sealed by
\* the active key, the revisions it adds are clean, and its own task fits.
LEMMA CallKeeps ==
  ASSUME SecretsKept, NEW o \in Operators, NEW task \in TaskRows, Moves(o, task),
         UNCHANGED keyrings,
         revisions' \in Seq(Documents), revisions' # <<>>,
         \A k \in DOMAIN revisions' : Clean(revisions'[k]),
         meant' \in Meanings,
         rows' \in [SecretIds -> SecretRows \cup {Null}],
         \A i \in SecretIds : Old(i)' => Old(i),
         Fits(task), \A i \in SecretIds : Old(i)' => Covers(task, i)
  PROVE  SecretsKept'
<1>1. /\ tasks' \in [Operators -> TaskRows] /\ tasks'[o] = task
      /\ \A q \in Operators \ {o} : tasks'[q] = tasks[q]
  BY DEF SecretsKept, SecretTypeOK, Moves
<1>2. keyring' = keyring /\ Current' = Current /\ (NoKeys' <=> NoKeys)
  BY DEF keyring, Current, NoKeys
<1>3. SecretTypeOK'
  BY <1>1 DEF SecretsKept, SecretTypeOK
<1>4. ASSUME NEW q \in Operators PROVE Fits(tasks[q])'
  <2>1. Fits(tasks'[q])
    BY <1>1 DEF SecretsKept
  <2> QED
    BY <1>2, <2>1 DEF Fits
<1>5. ASSUME NEW q \in Operators, NEW i \in SecretIds, Old(i)' PROVE Covers(tasks[q], i)'
  <2>1. Covers(tasks'[q], i)
    BY <1>1, <1>5 DEF SecretsKept
  <2> QED
    BY <1>2, <2>1 DEF Covers
<1>6. \A k \in DOMAIN revisions' : Clean(revisions[k])'
  BY DEF Clean, PlainPaths
<1> QED
  BY <1>3, <1>4, <1>5, <1>6 DEF SecretsKept

\* The same for a call that writes nothing.
LEMMA QuietCallKeeps ==
  ASSUME SecretsKept, NEW o \in Operators, NEW task \in TaskRows, Moves(o, task),
         UNCHANGED <<rows, revisions, keyrings>>, meant' \in Meanings,
         Fits(task), \A i \in SecretIds : Old(i) => Covers(task, i)
  PROVE  SecretsKept'
<1>1. \A i \in SecretIds : Old(i)' <=> Old(i)
  BY DEF Old, Stored, Current, keyring
<1>2. /\ revisions' \in Seq(Documents) /\ revisions' # <<>>
      /\ \A k \in DOMAIN revisions' : Clean(revisions'[k])
      /\ rows' \in [SecretIds -> SecretRows \cup {Null}] /\ UNCHANGED keyrings
  BY DEF SecretsKept, SecretTypeOK
<1>3. \A i \in SecretIds : Old(i)' => Old(i) /\ Covers(task, i)
  BY <1>1
<1> QED
  BY <1>2, <1>3, CallKeeps

\* A call that ends, whatever it wrote.
LEMMA EndsKeep ==
  ASSUME SecretsKept, NEW o \in Operators, NEW pc \in {"done", "refused", "failed"}, Finishes(o, pc),
         UNCHANGED <<revisions, keyrings, meant>>,
         rows' \in [SecretIds -> SecretRows \cup {Null}],
         \A i \in SecretIds : Old(i)' => Old(i)
  PROVE  SecretsKept'
<1> DEFINE task == [Resting EXCEPT !.pc = pc]
<1>1. task \in TaskRows /\ task.pc = pc
  BY RestingFits DEF Pcs
<1>2. Moves(o, task)
  BY DEF Finishes
<1> HIDE DEF task
<1>3. Fits(task) /\ \A i \in SecretIds : Covers(task, i)
  BY <1>1 DEF Fits, Covers
<1>4. /\ revisions' \in Seq(Documents) /\ revisions' # <<>>
      /\ \A k \in DOMAIN revisions' : Clean(revisions'[k])
      /\ meant' \in Meanings /\ UNCHANGED keyrings
  BY DEF SecretsKept, SecretTypeOK
<1> QED
  BY <1>1, <1>2, <1>3, <1>4, CallKeeps

\* What leaves the rows and the keys alone makes no row old.
LEMMA NothingWritten ==
  ASSUME SecretsKept, UNCHANGED <<rows, keyrings>>
  PROVE  /\ rows' \in [SecretIds -> SecretRows \cup {Null}]
         /\ \A i \in SecretIds : Old(i)' => Old(i)
  BY DEF SecretsKept, SecretTypeOK, Old, Stored, Current, keyring

\* The active document is one of the revisions.
LEMMA ActiveKept ==
  ASSUME SecretsKept
  PROVE  active \in Documents /\ Clean(active) /\ \A k \in DOMAIN revisions : revisions[k] \in Documents
<1>1. revisions \in Seq(Documents) /\ Len(revisions) \in DOMAIN revisions
  BY DEF SecretsKept, SecretTypeOK
<1> QED
  BY <1>1 DEF active, Last, SecretsKept

\* A keyring that is not empty has an active key.
LEMMA CurrentIsKey == ASSUME SecretsKept, ~NoKeys PROVE Current \in Nat
<1>1. keyring \in Seq(Nat) /\ keyring # <<>>
  BY DEF SecretsKept, SecretTypeOK, keyring, NoKeys
<1> QED
  BY <1>1 DEF Current

-----------------------------------------------------------------------------
(* Saving                                                                    *)

\* An edit makes a document of the active one.
LEMMA EditsAre ==
  ASSUME SecretsKept, NEW o \in Operators, NEW edit \in Edits(o)
  PROVE  edit.doc \in Documents /\ edit.meant \in Meanings
<1>1. active \in [Credentials -> Leaves] /\ meant \in [Credentials -> Values]
      /\ \A k \in DOMAIN revisions : revisions[k] \in Documents
  BY ActiveKept DEF Documents, SecretsKept, SecretTypeOK, Meanings
<1>2. Nothing \in Leaves /\ Null \in Values
  BY DEF Nothing, Leaves, Values
<1>3. ASSUME NEW p \in Credentials, NEW v \in Typed, edit = Type(p, v)
      PROVE  edit.doc \in Documents /\ edit.meant \in Meanings
  <2>1. Plain(v) \in Leaves /\ v \in Values
    BY DEF Plain, Leaves, Values
  <2> QED
    BY <1>1, <1>3, <2>1 DEF Type, Documents, Meanings
<1>4. ASSUME NEW p \in Credentials, edit = Drop(p)
      PROVE  edit.doc \in Documents /\ edit.meant \in Meanings
  BY <1>1, <1>2, <1>4 DEF Drop, Documents, Meanings
<1>5. ASSUME NEW p \in Credentials, NEW q \in Credentials, edit = Rename(p, q)
      PROVE  edit.doc \in Documents /\ edit.meant \in Meanings
  <2>1. active[p] \in Leaves /\ meant[p] \in Values
    BY <1>1
  <2> QED
    BY <1>1, <1>2, <1>5, <2>1 DEF Rename, Documents, Meanings
<1>6. ASSUME NEW k \in DOMAIN revisions, edit = Again(k)
      PROVE  edit.doc \in Documents /\ edit.meant \in Meanings
  BY <1>1, <1>6 DEF Again, Meanings
<1> QED
  BY <1>3, <1>4, <1>5, <1>6 DEF Edits

\* A save or an import begins with a document, and writes nothing.
LEMMA BeginsKeep ==
  ASSUME SecretsKept, NEW o \in Operators, SaveBegins(o) \/ Import(o)
  PROVE  SecretsKept'
<1>1. UNCHANGED <<rows, revisions, keyrings>> /\ meant' \in Meanings
  BY DEF SaveBegins, Import, SecretsKept, SecretTypeOK
<1>2. CASE SaveBegins(o)
  <2>1. PICK edit \in Edits(o) :
          Moves(o, [Resting EXCEPT !.pc = "seal", !.doc = edit.doc, !.meant = edit.meant])
    BY <1>2 DEF SaveBegins
  <2> DEFINE task == [Resting EXCEPT !.pc = "seal", !.doc = edit.doc, !.meant = edit.meant]
  <2>2. edit.doc \in Documents /\ edit.meant \in Meanings
    BY EditsAre
  <2>3. /\ task \in TaskRows /\ task.pc = "seal" /\ task.doc = edit.doc
        /\ task.meant = edit.meant
    BY <2>2 DEF Resting, TaskRows, Pcs, Values
  <2> HIDE DEF task
  <2>4. Fits(task) /\ \A i \in SecretIds : Covers(task, i)
    BY <2>2, <2>3 DEF Fits, Covers
  <2> QED
    BY <1>1, <2>1, <2>3, <2>4, QuietCallKeeps DEF task
<1>3. CASE Import(o)
  <2>1. PICK p \in Credentials, leaf \in {Plain(Seeded), Variable} \cup {Ref(i) : i \in SecretIds} :
          Moves(o, [Resting EXCEPT !.pc = "validate", !.meant = meant,
                        !.doc = [q \in Credentials |-> IF q = p THEN leaf ELSE Nothing]])
    BY <1>3 DEF Import
  <2> DEFINE doc == [q \in Credentials |-> IF q = p THEN leaf ELSE Nothing]
             task == [Resting EXCEPT !.pc = "validate", !.meant = meant, !.doc = doc]
  <2>2. leaf \in Leaves /\ Nothing \in Leaves /\ (leaf.kind = "plain" => leaf.of = Seeded)
        /\ Nothing.kind # "plain"
    BY DEF Plain, Variable, Ref, Nothing, Leaves, Values
  <2>3. doc \in Documents /\ Clean(doc)
    BY <2>2 DEF Documents, Clean, PlainPaths
  <2> HIDE DEF doc
  <2>4. /\ task \in TaskRows /\ task.pc = "validate" /\ task.doc = doc
        /\ task.meant = meant /\ meant \in Meanings
    BY <2>3 DEF Resting, TaskRows, Pcs, Values, SecretsKept, SecretTypeOK
  <2> HIDE DEF task
  <2>5. Fits(task) /\ \A i \in SecretIds : Covers(task, i)
    BY <2>3, <2>4 DEF Fits, Covers
  <2> QED
    BY <1>1, <2>1, <2>4, <2>5, QuietCallKeeps DEF task, doc
<1> QED
  BY <1>2, <1>3

\* Without a keyring only the plain text of the active document is kept; with
\* one, the document goes on once it has none.
LEMMA SealKeeps ==
  ASSUME SecretsKept, NEW o \in Operators, SealRefused(o) \/ SealFinds(o)
  PROVE  SecretsKept'
<1> DEFINE t == tasks[o]
<1>0. /\ t \in TaskRows /\ t.doc \in Documents /\ t.meant \in Meanings /\ meant \in Meanings
      /\ t.pc = "seal" /\ UNCHANGED <<rows, revisions, keyrings, meant>>
  BY DEF SealRefused, SealFinds, Is, SecretsKept, SecretTypeOK, Fits
<1>1. ASSUME Clean(t.doc), Moves(o, [t EXCEPT !.pc = "validate"]) PROVE SecretsKept'
  <2> DEFINE task == [t EXCEPT !.pc = "validate"]
  <2>1. task \in TaskRows /\ task.pc = "validate" /\ task.doc = t.doc /\ task.meant = t.meant
    BY <1>0 DEF TaskRows, Pcs
  <2>2. Moves(o, task)
    BY <1>1
  <2> HIDE DEF task
  <2>3. Fits(task) /\ \A i \in SecretIds : Covers(task, i)
    BY <1>0, <1>1, <2>1 DEF Fits, Covers
  <2> QED
    BY <1>0, <2>1, <2>2, <2>3, QuietCallKeeps
<1>2. CASE SealRefused(o)
  <2>1. CASE Introduced(t.doc) # {}
    <3>1. Finishes(o, "refused")
      BY <1>2, <2>1 DEF SealRefused
    <3> QED
      BY <1>0, <3>1, NothingWritten, EndsKeep
  <2>2. CASE Introduced(t.doc) = {}
    <3>1. \A p \in PlainPaths(t.doc) : t.doc[p] = active[p] /\ p \in Credentials /\ t.doc[p].kind = "plain"
      BY <2>2 DEF Introduced, PlainPaths
    <3>2. Clean(t.doc)
      BY <3>1, ActiveKept DEF Clean, PlainPaths
    <3>3. Moves(o, [t EXCEPT !.pc = "validate"])
      BY <1>2, <2>2 DEF SealRefused
    <3> QED
      BY <1>1, <3>2, <3>3
  <2> QED
    BY <2>1, <2>2
<1>3. CASE SealFinds(o)
  <2> DEFINE left == PlainPaths(t.doc)
             p == Min(left)
  <2>1. CASE left = {}
    <3>1. Clean(t.doc) /\ Moves(o, [t EXCEPT !.pc = "validate"])
      BY <1>3, <2>1 DEF SealFinds, Clean
    <3> QED
      BY <1>1, <3>1
  <2>2. CASE left # {}
    <3>1. left \in SUBSET Nat
      BY SecretAssumption DEF PlainPaths
    <3>2. p \in left /\ p \in Credentials
      BY <2>2, <3>1, LeastNatural DEF Min, PlainPaths
    <3>3. PICK i \in IF ByName(p) = {} THEN FreeIds ELSE ByName(p) :
            Moves(o, [t EXCEPT !.pc = "upsert", !.id = i, !.at = p, !.value = t.doc[p].of])
      BY <1>3, <2>2 DEF SealFinds
    <3>4. i \in SecretIds /\ ~NoKeys
      BY <1>3 DEF ByName, FreeIds, SealFinds
    <3> DEFINE v == t.doc[p].of
               task == [t EXCEPT !.pc = "upsert", !.id = i, !.at = p, !.value = v]
    <3>5. v \in Values
      BY <1>0, <3>2 DEF Documents, Leaves
    <3> HIDE DEF p, v
    <3>6. /\ task \in TaskRows /\ task.pc = "upsert" /\ task.id = i /\ task.at = p
          /\ task.meant = t.meant
      BY <1>0, <3>2, <3>4, <3>5 DEF TaskRows, Pcs
    <3>7. Moves(o, task)
      BY <3>3 DEF p, v
    <3> HIDE DEF task
    <3>8. Fits(task) /\ \A j \in SecretIds : Covers(task, j)
      BY <1>0, <3>2, <3>4, <3>6 DEF Fits, Covers
    <3> QED
      BY <1>0, <3>6, <3>7, <3>8, QuietCallKeeps
  <2> QED
    BY <2>1, <2>2
<1> QED
  BY <1>2, <1>3

\* A row that is put is sealed by the active key; a save that put it goes on
\* with a reference in its place.
LEMMA UpsertKeeps == ASSUME SecretsKept, NEW o \in Operators, Upsert(o) PROVE SecretsKept'
<1> DEFINE t == tasks[o]
<1>0. /\ t \in TaskRows /\ t.id \in SecretIds /\ t.at \in Credentials /\ t.pc = "upsert"
      /\ ~NoKeys /\ UNCHANGED <<revisions, keyrings, meant>>
      /\ t.doc # Null => t.doc \in Documents /\ t.meant \in Meanings
  BY DEF Upsert, Is, SecretsKept, SecretTypeOK, Fits, TaskRows
<1>1. CASE NameTaken(t.id, t.at)
  <2>1. Finishes(o, "failed") /\ UNCHANGED rows
    BY <1>1 DEF Upsert
  <2> QED
    BY <1>0, <2>1, NothingWritten, EndsKeep
<1>2. CASE ~NameTaken(t.id, t.at)
  <2> DEFINE row == Row(t.at, t.value)
  <2>1. row \in SecretRows /\ row.key = Current /\ Current \in Nat
    BY <1>0, CurrentIsKey DEF Row, SecretRows, TaskRows
  <2>2. rows' = [rows EXCEPT ![t.id] = row]
    BY <1>2 DEF Upsert
  <2> HIDE DEF row
  <2>3. /\ rows' \in [SecretIds -> SecretRows \cup {Null}] /\ rows'[t.id] = row
        /\ \A i \in SecretIds \ {t.id} : rows'[i] = rows[i]
    BY <1>0, <2>1, <2>2 DEF SecretsKept, SecretTypeOK
  <2>4. Current' = Current
    BY <1>0 DEF Current, keyring
  <2>5. \A i \in SecretIds : Old(i)' => Old(i)
    BY <2>1, <2>3, <2>4 DEF Old, Stored
  <2>6. CASE t.doc = Null
    <3>1. Finishes(o, "done")
      BY <1>2, <2>6 DEF Upsert
    <3> QED
      BY <1>0, <2>3, <2>5, <3>1, EndsKeep
  <2>7. CASE t.doc # Null
    <3> DEFINE doc == [t.doc EXCEPT ![t.at] = Ref(t.id)]
               task == [t EXCEPT !.pc = "seal", !.doc = doc, !.id = Null]
    <3>1. Moves(o, [t EXCEPT !.pc = "seal", !.doc[t.at] = Ref(t.id), !.id = Null])
      BY <1>2, <2>7 DEF Upsert
    <3>2. Ref(t.id) \in Leaves
      BY <1>0 DEF Ref, Leaves, Values
    <3>3. doc \in Documents
      BY <1>0, <2>7, <3>2 DEF Documents
    <3>4. Moves(o, task)
      BY <1>0, <3>1 DEF TaskRows
    <3> HIDE DEF doc
    <3>5. task \in TaskRows /\ task.pc = "seal" /\ task.doc = doc /\ task.meant = t.meant
      BY <1>0, <3>3 DEF TaskRows, Pcs
    <3> HIDE DEF task
    <3>6. Fits(task) /\ \A i \in SecretIds : Covers(task, i)
      BY <1>0, <2>7, <3>3, <3>5 DEF Fits, Covers
    <3>7. /\ revisions' \in Seq(Documents) /\ revisions' # <<>> /\ UNCHANGED keyrings
          /\ meant' \in Meanings
          /\ \A k \in DOMAIN revisions' : Clean(revisions'[k])
      BY <1>0 DEF SecretsKept, SecretTypeOK
    <3> QED
      BY <2>3, <2>5, <3>4, <3>5, <3>6, <3>7, CallKeeps
  <2> QED
    BY <2>6, <2>7
<1> QED
  BY <1>1, <1>2

\* Append adds one element at the end and changes no other.
LEMMA Appended ==
  ASSUME NEW S, NEW s \in Seq(S), NEW e \in S
  PROVE  /\ Append(s, e) \in Seq(S) /\ Append(s, e) # <<>>
         /\ \A k \in DOMAIN Append(s, e) :
              Append(s, e)[k] = e \/ (k \in DOMAIN s /\ Append(s, e)[k] = s[k])
<1>1. Append(s, e) \in Seq(S) /\ Len(Append(s, e)) = Len(s) + 1 /\ Len(s) \in Nat
  OBVIOUS
<1>2. Append(s, e) # <<>>
  BY <1>1
<1>3. ASSUME NEW k \in 1 .. Len(s) + 1
      PROVE  Append(s, e)[k] = e \/ (k \in DOMAIN s /\ Append(s, e)[k] = s[k])
  OBVIOUS
<1> QED
  BY <1>1, <1>2, <1>3

\* What is stored is the document the call has, which is clean.
LEMMA StoreKeeps ==
  ASSUME SecretsKept, NEW o \in Operators, Validate(o) \/ Store(o) \/ Applies(o)
  PROVE  SecretsKept'
<1> DEFINE t == tasks[o]
<1>0. t \in TaskRows /\ Fits(t) /\ meant \in Meanings /\ UNCHANGED <<rows, keyrings>>
  BY DEF SecretsKept, SecretTypeOK, Validate, Store, Applies
<1>1. CASE Validate(o)
  <2>1. t.pc = "validate" /\ UNCHANGED <<revisions, meant>>
    BY <1>1 DEF Validate, Is
  <2>2. CASE Finishes(o, "refused")
    BY <1>0, <2>1, <2>2, NothingWritten, EndsKeep
  <2>3. CASE Moves(o, [t EXCEPT !.pc = "store"])
    <3> DEFINE task == [t EXCEPT !.pc = "store"]
    <3>1. task \in TaskRows /\ task.pc = "store" /\ task.doc = t.doc /\ task.meant = t.meant
      BY <1>0 DEF TaskRows, Pcs
    <3>2. Moves(o, task)
      BY <2>3
    <3> HIDE DEF task
    <3>3. Fits(task) /\ \A i \in SecretIds : Covers(task, i)
      BY <1>0, <2>1, <3>1 DEF Fits, Covers
    <3> QED
      BY <1>0, <2>1, <3>1, <3>2, <3>3, QuietCallKeeps
  <2> QED
    BY <1>1, <2>2, <2>3 DEF Validate
<1>2. CASE Store(o)
  <2>1. t.pc = "store" /\ t.doc \in Documents /\ t.meant \in Meanings /\ Clean(t.doc)
    BY <1>0, <1>2 DEF Store, Is, Fits
  <2>2. revisions' = Append(revisions, t.doc) /\ meant' = t.meant
        /\ Moves(o, [t EXCEPT !.pc = "reload"])
    BY <1>2 DEF Store
  <2>3. /\ revisions' \in Seq(Documents) /\ revisions' # <<>>
        /\ \A k \in DOMAIN revisions' :
             revisions'[k] = t.doc \/ (k \in DOMAIN revisions /\ revisions'[k] = revisions[k])
    <3>1. revisions \in Seq(Documents)
      BY DEF SecretsKept, SecretTypeOK
    <3> QED
      BY <2>1, <2>2, <3>1, Appended
  <2>4. \A k \in DOMAIN revisions' : Clean(revisions'[k])
    BY <2>1, <2>3 DEF SecretsKept
  <2> DEFINE task == [t EXCEPT !.pc = "reload"]
  <2>5. task \in TaskRows /\ task.pc = "reload"
    BY <1>0 DEF TaskRows, Pcs
  <2>6. Moves(o, task)
    BY <2>2
  <2> HIDE DEF task
  <2>7. Fits(task) /\ \A i \in SecretIds : Covers(task, i)
    BY <2>5 DEF Fits, Covers
  <2>8. /\ rows' \in [SecretIds -> SecretRows \cup {Null}]
        /\ \A i \in SecretIds : Old(i)' => Old(i)
    BY <1>0, NothingWritten
  <2>9. meant' \in Meanings /\ UNCHANGED keyrings
    BY <1>0, <2>1, <2>2
  <2> QED
    BY <2>3, <2>4, <2>5, <2>6, <2>7, <2>8, <2>9, CallKeeps
<1>3. CASE Applies(o)
  <2>1. Finishes(o, "done") /\ UNCHANGED <<revisions, meant>>
    BY <1>3 DEF Applies
  <2> QED
    BY <1>0, <2>1, NothingWritten, EndsKeep
<1> QED
  BY <1>1, <1>2, <1>3

-----------------------------------------------------------------------------
(* The routes of the secrets                                                 *)

\* PUT takes the row of the name, or a free id, and means one value.
LEMMA PutKeeps == ASSUME SecretsKept, NEW o \in Operators, PutFinds(o) PROVE SecretsKept'
<1>1. PICK p \in Credentials, v \in Typed, i \in SecretIds :
        /\ Moves(o, [Resting EXCEPT !.pc = "upsert", !.id = i, !.at = p, !.value = v])
        /\ meant' = [q \in Credentials |-> IF active[q] = Ref(i) THEN v ELSE meant[q]]
  BY DEF PutFinds, ByName, FreeIds
<1>2. ~NoKeys /\ UNCHANGED <<rows, revisions, keyrings>>
  BY DEF PutFinds
<1>3. v \in Values /\ meant \in [Credentials -> Values]
  BY DEF Values, SecretsKept, SecretTypeOK, Meanings
<1>4. meant' \in Meanings
  BY <1>1, <1>3 DEF Meanings
<1> DEFINE task == [Resting EXCEPT !.pc = "upsert", !.id = i, !.at = p, !.value = v]
<1>5. /\ task \in TaskRows /\ task.pc = "upsert" /\ task.id = i /\ task.at = p /\ task.doc = Null
  BY <1>3 DEF Resting, TaskRows, Pcs
<1>6. Moves(o, task)
  BY <1>1
<1> HIDE DEF task
<1>7. Fits(task) /\ \A j \in SecretIds : Covers(task, j)
  BY <1>2, <1>5 DEF Fits, Covers
<1> QED
  BY <1>2, <1>4, <1>5, <1>6, <1>7, QuietCallKeeps

\* A row that is deleted is no old row.
LEMMA DeleteKeeps ==
  ASSUME SecretsKept, NEW o \in Operators, DeleteDescribes(o) \/ DeleteChecks(o) \/ Delete(o)
  PROVE  SecretsKept'
<1> DEFINE t == tasks[o]
<1>0. t \in TaskRows /\ meant \in Meanings /\ UNCHANGED <<revisions, keyrings, meant>>
  BY DEF SecretsKept, SecretTypeOK, DeleteDescribes, DeleteChecks, Delete
<1>1. CASE DeleteDescribes(o)
  <2>1. PICK i \in SecretIds, force \in BOOLEAN :
          Moves(o, [Resting EXCEPT !.pc = "check", !.id = i, !.force = force])
    BY <1>1 DEF DeleteDescribes
  <2> DEFINE task == [Resting EXCEPT !.pc = "check", !.id = i, !.force = force]
  <2>2. task \in TaskRows /\ task.pc = "check"
    BY DEF Resting, TaskRows, Pcs, Values
  <2>3. Moves(o, task) /\ UNCHANGED rows
    BY <1>1, <2>1 DEF DeleteDescribes
  <2> HIDE DEF task
  <2>4. Fits(task) /\ \A j \in SecretIds : Covers(task, j)
    BY <2>2 DEF Fits, Covers
  <2> QED
    BY <1>0, <2>2, <2>3, <2>4, QuietCallKeeps
<1>2. CASE DeleteChecks(o)
  <2>1. CASE Finishes(o, "refused")
    <3>1. UNCHANGED rows
      BY <1>2 DEF DeleteChecks
    <3> QED
      BY <1>0, <2>1, <3>1, NothingWritten, EndsKeep
  <2>2. CASE Moves(o, [t EXCEPT !.pc = "delete"])
    <3> DEFINE task == [t EXCEPT !.pc = "delete"]
    <3>1. task \in TaskRows /\ task.pc = "delete"
      BY <1>0 DEF TaskRows, Pcs
    <3>2. Moves(o, task) /\ UNCHANGED rows
      BY <1>2, <2>2 DEF DeleteChecks
    <3> HIDE DEF task
    <3>3. Fits(task) /\ \A j \in SecretIds : Covers(task, j)
      BY <3>1 DEF Fits, Covers
    <3> QED
      BY <1>0, <3>1, <3>2, <3>3, QuietCallKeeps
  <2> QED
    BY <1>2, <2>1, <2>2 DEF DeleteChecks
<1>3. CASE Delete(o)
  <2>1. rows' = [rows EXCEPT ![t.id] = Null] /\ Finishes(o, "done")
    BY <1>3 DEF Delete
  <2>2. /\ rows' \in [SecretIds -> SecretRows \cup {Null}]
        /\ \A i \in SecretIds : rows'[i] \in {rows[i], Null}
    BY <2>1 DEF SecretsKept, SecretTypeOK
  <2>3. Current' = Current
    BY <1>0 DEF Current, keyring
  <2>4. \A i \in SecretIds : Old(i)' => Old(i)
    BY <2>2, <2>3 DEF Old, Stored
  <2> QED
    BY <1>0, <2>1, <2>2, <2>4, EndsKeep
<1> QED
  BY <1>1, <1>2, <1>3

\* A rotation begins with every row, and is left with those that an old key
\* sealed; it succeeds when none is left.
LEMMA RotateKeeps ==
  ASSUME SecretsKept, NEW o \in Operators, RotateLists(o) \/ RotateRow(o)
  PROVE  SecretsKept'
<1> DEFINE t == tasks[o]
           left == Stale(t.todo)
<1>0. /\ t \in TaskRows /\ meant \in Meanings /\ ~NoKeys
      /\ rows \in [SecretIds -> SecretRows \cup {Null}]
      /\ UNCHANGED <<revisions, keyrings, meant>>
  BY DEF SecretsKept, SecretTypeOK, Fits, Is, RotateLists, RotateRow
<1>1. CASE RotateLists(o)
  <2> DEFINE todo == {[id |-> i, row |-> rows[i]] : i \in {j \in SecretIds : Stored(j)}}
             task == [Resting EXCEPT !.pc = "rotate", !.todo = todo]
  <2>1. todo \in SUBSET Held
    BY <1>0 DEF Held, Stored
  <2>2. ASSUME NEW i \in SecretIds, Old(i)
        PROVE  \E held \in todo : held.id = i /\ held.row.key # Current
    <3>1. [id |-> i, row |-> rows[i]] \in todo
      BY <2>2 DEF Old
    <3> QED
      BY <2>2, <3>1 DEF Old
  <2> HIDE DEF todo
  <2>3. task \in TaskRows /\ task.pc = "rotate" /\ task.todo = todo
    BY <2>1 DEF Resting, TaskRows, Pcs, Values
  <2>4. Moves(o, task) /\ UNCHANGED rows
    BY <1>1 DEF RotateLists, todo
  <2> HIDE DEF task
  <2>5. Fits(task) /\ \A i \in SecretIds : Old(i) => Covers(task, i)
    BY <1>0, <2>2, <2>3 DEF Fits, Covers
  <2> QED
    BY <1>0, <2>3, <2>4, <2>5, QuietCallKeeps
<1>2. CASE RotateRow(o)
  <2>1. t.pc = "rotate" /\ t.todo \in SUBSET Held
    BY <1>0, <1>2 DEF RotateRow, Is, TaskRows
  <2>2. left \in SUBSET t.todo /\ \A held \in t.todo : held.row.key # Current => held \in left
    BY DEF Stale
  <2>3. \A i \in SecretIds : Old(i) => \E held \in left : held.id = i
    BY <2>1, <2>2 DEF SecretsKept, Covers
  <2>4. CASE left = {} /\ Finishes(o, "rotated") /\ UNCHANGED rows
    <3> DEFINE task == [Resting EXCEPT !.pc = "rotated"]
    <3>1. task \in TaskRows /\ task.pc = "rotated"
      BY RestingFits DEF Pcs
    <3>2. Moves(o, task)
      BY <2>4 DEF Finishes
    <3> HIDE DEF task
    <3>3. Fits(task) /\ \A i \in SecretIds : Old(i) => Covers(task, i)
      BY <2>3, <2>4, <3>1 DEF Fits
    <3> QED
      BY <1>0, <2>4, <3>1, <3>2, <3>3, QuietCallKeeps
  <2>5. CASE Finishes(o, "failed") /\ UNCHANGED rows
    BY <1>0, <2>5, NothingWritten, EndsKeep
  <2>6. ASSUME NEW held \in left,
               rows' = [rows EXCEPT ![held.id] = [held.row EXCEPT !.key = Current]],
               Moves(o, [t EXCEPT !.todo = left \ {held}])
        PROVE  SecretsKept'
    <3> HIDE DEF left
    <3> DEFINE row == [held.row EXCEPT !.key = Current]
               rest == left \ {held}
               task == [t EXCEPT !.todo = rest]
    <3>1. held \in Held /\ held.id \in SecretIds /\ held.row \in SecretRows
      BY <2>1, <2>2, <2>6 DEF Held
    <3>2. row \in SecretRows /\ row.key = Current
      BY <1>0, <3>1, CurrentIsKey DEF SecretRows
    <3>3. rows' = [rows EXCEPT ![held.id] = row] /\ Current' = Current
      BY <1>0, <2>6 DEF Current, keyring
    <3> HIDE DEF row
    <3>4. /\ rows' \in [SecretIds -> SecretRows \cup {Null}] /\ rows'[held.id] = row
          /\ \A i \in SecretIds \ {held.id} : rows'[i] = rows[i]
      BY <1>0, <3>1, <3>2, <3>3
    <3>5. \A i \in SecretIds : Old(i)' => Old(i) /\ i # held.id
      BY <3>2, <3>3, <3>4 DEF Old, Stored
    <3>6. rest \in SUBSET Held /\ \A h \in rest : h.row.key # Current
      BY <2>1, <2>2 DEF left, Stale
    <3>7. \A i \in SecretIds : Old(i)' => \E h \in rest : h.id = i
      BY <2>3, <3>5
    <3> HIDE DEF rest
    <3>8. task \in TaskRows /\ task.pc = "rotate" /\ task.todo = rest
      BY <1>0, <2>1, <3>6 DEF TaskRows
    <3>9. Moves(o, task)
      BY <2>6 DEF rest
    <3> HIDE DEF task
    <3>10. Fits(task) /\ \A i \in SecretIds : Old(i)' => Covers(task, i)
      BY <1>0, <3>6, <3>7, <3>8 DEF Fits, Covers
    <3>11. /\ revisions' \in Seq(Documents) /\ revisions' # <<>> /\ UNCHANGED keyrings
           /\ meant' \in Meanings
           /\ \A k \in DOMAIN revisions' : Clean(revisions'[k])
      BY <1>0 DEF SecretsKept, SecretTypeOK
    <3> QED
      BY <3>4, <3>5, <3>8, <3>9, <3>10, <3>11, CallKeeps
  <2> QED
    BY <1>2, <2>4, <2>5, <2>6 DEF RotateRow
<1> QED
  BY <1>1, <1>2

\* A sequence of two or more has a tail that is not empty.
LEMMA TailOfMore ==
  ASSUME NEW S, NEW s \in Seq(S), Len(s) > 1
  PROVE  Tail(s) \in Seq(S) /\ Tail(s) # <<>>
<1>1. s # <<>> /\ Len(s) \in Nat
  OBVIOUS
<1>2. Tail(s) \in Seq(S) /\ Len(Tail(s)) = Len(s) - 1
  BY <1>1, HeadTailProperties
<1>3. Len(Tail(s)) # 0
  BY <1>1, <1>2
<1> QED
  BY <1>2, <1>3, EmptySeq

\* A restart ends every call; what was rotated may be old to the next keyring.
LEMMA RestartKeeps == ASSUME SecretsKept, Restarts PROVE SecretsKept'
<1>1. /\ keyrings \in Seq(Seq(Nat)) /\ Len(keyrings) > 1 /\ keyrings' = Tail(keyrings)
      /\ UNCHANGED <<rows, revisions, meant>>
  BY DEF Restarts, SecretsKept, SecretTypeOK
<1>2. keyrings' \in Seq(Seq(Nat)) /\ keyrings' # <<>>
  BY <1>1, TailOfMore
<1>3. Resting \in TaskRows /\ Resting.pc = "idle"
  BY DEF Resting, TaskRows, Pcs, Values
<1>4. [Resting EXCEPT !.pc = "over"] \in TaskRows /\ [Resting EXCEPT !.pc = "over"].pc = "over"
  BY RestingFits DEF Pcs
<1>5. tasks' = [o \in Operators |-> IF tasks[o].pc = "idle" THEN Resting
                                    ELSE [Resting EXCEPT !.pc = "over"]]
  BY DEF Restarts
<1>6. tasks' \in [Operators -> TaskRows] /\ \A o \in Operators : tasks'[o].pc \in {"idle", "over"}
  BY <1>3, <1>4, <1>5
<1>7. \A o \in Operators : Fits(tasks[o])' /\ \A i \in SecretIds : Covers(tasks[o], i)'
  BY <1>6 DEF Fits, Covers
<1>8. SecretTypeOK'
  BY <1>1, <1>2, <1>6 DEF SecretsKept, SecretTypeOK
<1>9. \A k \in DOMAIN revisions' : Clean(revisions[k])'
  BY <1>1 DEF SecretsKept, Clean, PlainPaths
<1> QED
  BY <1>7, <1>8, <1>9 DEF SecretsKept

\* Every step of the secrets keeps the invariant.
LEMMA SecretNextKeeps == SecretInv /\ [SecretsNext]_secretVars => SecretInv'
<1> SUFFICES ASSUME SecretInv, [SecretsNext]_secretVars PROVE SecretInv'
  OBVIOUS
<1>1. CASE UNCHANGED secretVars
  <2>1. CASE rows = Null /\ revisions = Null
    BY <1>1, <2>1 DEF SecretInv, secretVars
  <2>2. CASE SecretsKept
    <3>1. UNCHANGED <<rows, revisions, keyrings, tasks, meant>>
      BY <1>1 DEF secretVars
    <3>2. \A i \in SecretIds : (Old(i)' <=> Old(i)) /\ Current' = Current /\ (NoKeys' <=> NoKeys)
      BY <3>1 DEF Old, Stored, Current, NoKeys, keyring
    <3>3. NoKeys' <=> NoKeys
      BY <3>1 DEF NoKeys, keyring
    <3>4. Current' = Current
      BY <3>1 DEF Current, keyring
    <3>5. SecretTypeOK' /\ \A k \in DOMAIN revisions' : Clean(revisions[k])'
      BY <2>2, <3>1 DEF SecretsKept, SecretTypeOK, Clean, PlainPaths
    <3>6. \A o \in Operators : Fits(tasks[o])'
      BY <2>2, <3>1, <3>3 DEF SecretsKept, Fits, Clean, PlainPaths
    <3>7. \A o \in Operators, i \in SecretIds : Old(i)' => Covers(tasks[o], i)'
      BY <2>2, <3>1, <3>2, <3>4 DEF SecretsKept, Covers
    <3> QED
      BY <3>5, <3>6, <3>7 DEF SecretInv, SecretsKept
  <2> QED
    BY <2>1, <2>2 DEF SecretInv
<1>2. ASSUME SecretsNext PROVE SecretsKept'
  <2>1. SecretsKept
    BY <1>2 DEF SecretsNext, SecretInv
  <2> QED
    BY <1>2, <2>1, BeginsKeep, SealKeeps, UpsertKeeps, StoreKeeps, PutKeeps, DeleteKeeps,
       RotateKeeps, RestartKeeps DEF SecretsNext
<1> QED
  BY <1>1, <1>2 DEF SecretInv

\* The invariant of the credentials holds in every behaviour of the gateway.
LEMMA SecretsHold == GatewaySpec => []SecretInv
<1>1. GatewayInit => SecretInv
  BY SecretsStart DEF GatewayInit, ControlInit, ControlOff
<1>2. [GatewayNext]_gatewayVars => [SecretsNext]_secretVars
  BY DEF GatewayNext, ControlNext, gatewayVars, controlVars, secretVars
<1> QED
  BY <1>1, <1>2, SecretNextKeeps, PTL DEF GatewaySpec

\* TypedNeverStored (admin/src/routes/config.ts: sealInbound): no revision has
\* the plain text an operator typed, with or without a keyring, whatever is
\* saved, renamed, rolled back or restarted meanwhile.
THEOREM TypedIsSealed == GatewaySpec => []TypedNeverStored
<1>1. SecretInv => TypedNeverStored
  BY DEF SecretInv, SecretsKept, TypedNeverStored, Clean
<1> QED
  BY <1>1, SecretsHold, PTL

\* RotationCompletes (core/src/secrets/store.ts: rotate): after a rotation that
\* succeeded, and until a restart, no row is sealed by an old key, although
\* rows are put and deleted while it runs.
THEOREM RotationIsComplete == GatewaySpec => []RotationCompletes
<1>1. SecretInv => RotationCompletes
  BY DEF SecretInv, SecretsKept, RotationCompletes, Covers, Old, Is
<1> QED
  BY <1>1, SecretsHold, PTL

-----------------------------------------------------------------------------
(* Environment                                                               *)

\* Paths, as far as they are needed: joined, and one under another.
LEMMA JoinIs ==
  ASSUME NEW s \in Paths, NEW t \in Paths
  PROVE  /\ s \o t \in Paths /\ Len(s \o t) = Len(s) + Len(t) /\ Len(s) \in Nat /\ Len(t) \in Nat
         /\ \A i \in 1 .. Len(s) + Len(t) : (s \o t)[i] = IF i <= Len(s) THEN s[i] ELSE t[i - Len(s)]
  BY ConcatProperties DEF Paths

\* A prefix, place by place.
LEMMA UnderIs ==
  ASSUME NEW s \in Paths, NEW t \in Paths
  PROVE  Under(s, t) <=> Len(s) <= Len(t) /\ \A i \in 1 .. Len(s) : s[i] = t[i]
<1> DEFINE a == SubSeq(s, 1, Len(s))
           b == SubSeq(t, 1, Len(s))
<1>1. s \in Seq(Names) /\ t \in Seq(Names) /\ Len(s) \in Nat /\ Len(t) \in Nat
  BY DEF Paths
<1>2. a \in Seq(Names) /\ Len(a) = Len(s) /\ \A i \in 1 .. Len(s) : a[i] = s[i]
  <2>1. \A i \in 1 .. Len(s) : s[i] \in Names
    BY <1>1
  <2> QED
    BY <1>1, <2>1, SubSeqProperties
<1>3. CASE Len(s) <= Len(t)
  <2>1. b \in Seq(Names) /\ Len(b) = Len(s) /\ \A i \in 1 .. Len(s) : b[i] = t[i]
    <3>1. \A i \in 1 .. Len(s) : t[i] \in Names
      BY <1>1, <1>3
    <3> QED
      BY <1>1, <3>1, SubSeqProperties
  <2>2. Under(s, t) <=> a = b
    BY <1>3 DEF Under, IsPrefix
  <2> HIDE DEF a, b
  <2>3. a = b <=> \A i \in 1 .. Len(s) : a[i] = b[i]
    <3>1. a = [i \in 1 .. Len(s) |-> a[i]] /\ b = [i \in 1 .. Len(s) |-> b[i]]
      BY <1>1, <1>2, <2>1
    <3> QED
      BY <3>1
  <2> QED
    BY <1>2, <1>3, <2>1, <2>2, <2>3
<1>4. CASE ~(Len(s) <= Len(t))
  BY <1>4 DEF Under, IsPrefix
<1> QED
  BY <1>3, <1>4

\* What is behind a prefix.
LEMMA BehindIs ==
  ASSUME NEW s \in Paths, NEW q \in Paths, Len(s) <= Len(q)
  PROVE  LET t == SubSeq(q, Len(s) + 1, Len(q))
         IN /\ t \in Paths /\ Len(t) = Len(q) - Len(s) /\ Len(s) \in Nat /\ Len(q) \in Nat
            /\ \A i \in 1 .. Len(q) - Len(s) : t[i] = q[i + Len(s)]
<1> DEFINE t == SubSeq(q, Len(s) + 1, Len(q))
<1>1. q \in Seq(Names) /\ Len(s) \in Nat /\ Len(q) \in Nat
  BY DEF Paths
<1>2. \A i \in Len(s) + 1 .. Len(q) : q[i] \in Names
  BY <1>1
<1>3. /\ t \in Seq(Names)
      /\ Len(t) = IF Len(s) + 1 <= Len(q) THEN Len(q) - (Len(s) + 1) + 1 ELSE 0
      /\ \A i \in 1 .. Len(q) - (Len(s) + 1) + 1 : t[i] = q[(Len(s) + 1) + i - 1]
  BY <1>1, <1>2, SubSeqProperties
<1>4. Len(t) = Len(q) - Len(s)
  BY <1>1, <1>3
<1>5. ASSUME NEW i \in 1 .. Len(q) - Len(s) PROVE t[i] = q[i + Len(s)]
  <2>1. i \in 1 .. Len(q) - (Len(s) + 1) + 1 /\ (Len(s) + 1) + i - 1 = i + Len(s)
    BY <1>1
  <2> QED
    BY <1>3, <2>1
<1> QED
  BY <1>1, <1>3, <1>4, <1>5 DEF Paths

\* Paths are the same place by place.
LEMMA SamePath ==
  ASSUME NEW s \in Paths, NEW t \in Paths, Len(s) = Len(t), \A i \in 1 .. Len(s) : s[i] = t[i]
  PROVE  s = t
  BY DEF Paths

\* What is behind a prefix of what it was joined to.
LEMMA JoinBehind ==
  ASSUME NEW s \in Paths, NEW t \in Paths
  PROVE  SubSeq(s \o t, Len(s) + 1, Len(s \o t)) = t /\ Under(s, s \o t)
<1> DEFINE q == s \o t
           u == SubSeq(q, Len(s) + 1, Len(q))
<1>1. /\ q \in Paths /\ Len(q) = Len(s) + Len(t) /\ Len(s) \in Nat /\ Len(t) \in Nat
      /\ \A i \in 1 .. Len(s) + Len(t) : q[i] = IF i <= Len(s) THEN s[i] ELSE t[i - Len(s)]
  BY JoinIs
<1> HIDE DEF q
<1>2. /\ u \in Paths /\ Len(u) = Len(q) - Len(s)
      /\ \A i \in 1 .. Len(q) - Len(s) : u[i] = q[i + Len(s)]
  <2>1. Len(s) <= Len(q)
    BY <1>1
  <2> QED
    BY <1>1, <2>1, BehindIs
<1> HIDE DEF u
<1>3. \A i \in 1 .. Len(t) : u[i] = t[i]
  <2> TAKE i \in 1 .. Len(t)
  <2>1. i + Len(s) \in 1 .. Len(s) + Len(t) /\ ~(i + Len(s) <= Len(s)) /\ (i + Len(s)) - Len(s) = i
    BY <1>1
  <2>2. q[i + Len(s)] = t[i]
    BY <1>1, <2>1
  <2> QED
    BY <1>1, <1>2, <2>2
<1>4. u = t
  BY <1>1, <1>2, <1>3, SamePath
<1>5. Under(s, q)
  <2>1. \A i \in 1 .. Len(s) : s[i] = q[i]
    BY <1>1
  <2> QED
    BY <1>1, <2>1, UnderIs
<1> QED
  BY <1>4, <1>5 DEF u, q

\* What is under a path is it and something.
LEMMA UnderSplit ==
  ASSUME NEW s \in Paths, NEW q \in Paths, Under(s, q)
  PROVE  LET t == SubSeq(q, Len(s) + 1, Len(q)) IN t \in Paths /\ q = s \o t
<1> DEFINE t == SubSeq(q, Len(s) + 1, Len(q))
<1>1. Len(s) <= Len(q) /\ \A i \in 1 .. Len(s) : s[i] = q[i]
  BY UnderIs
<1>2. /\ t \in Paths /\ Len(t) = Len(q) - Len(s) /\ Len(s) \in Nat /\ Len(q) \in Nat
      /\ \A i \in 1 .. Len(q) - Len(s) : t[i] = q[i + Len(s)]
  BY <1>1, BehindIs
<1> HIDE DEF t
<1> DEFINE j == s \o t
<1>3. /\ j \in Paths /\ Len(j) = Len(s) + Len(t)
      /\ \A i \in 1 .. Len(s) + Len(t) : j[i] = IF i <= Len(s) THEN s[i] ELSE t[i - Len(s)]
  BY <1>2, JoinIs
<1> HIDE DEF j
<1>4. ASSUME NEW i \in 1 .. Len(j) PROVE j[i] = q[i]
  <2>1. CASE i <= Len(s)
    BY <1>1, <1>2, <1>3, <2>1
  <2>2. CASE ~(i <= Len(s))
    <3>1. i - Len(s) \in 1 .. Len(q) - Len(s) /\ (i - Len(s)) + Len(s) = i
      BY <1>2, <1>3, <2>2
    <3>2. t[i - Len(s)] = q[i]
      BY <1>2, <3>1
    <3> QED
      BY <1>2, <1>3, <2>2, <3>2
  <2> QED
    BY <2>1, <2>2
<1>5. j = q
  <2>1. Len(j) = Len(q)
    BY <1>2, <1>3
  <2> QED
    BY <1>3, <1>4, <2>1, SamePath
<1> QED
  BY <1>2, <1>5 DEF j, t

\* A common prefix does not matter.
LEMMA JoinUnder ==
  ASSUME NEW s \in Paths, NEW p \in Paths, NEW q \in Paths
  PROVE  Under(s \o p, s \o q) <=> Under(p, q)
<1> DEFINE a == s \o p
           b == s \o q
<1>1. /\ a \in Paths /\ Len(a) = Len(s) + Len(p) /\ Len(s) \in Nat /\ Len(p) \in Nat
      /\ \A i \in 1 .. Len(s) + Len(p) : a[i] = IF i <= Len(s) THEN s[i] ELSE p[i - Len(s)]
  BY JoinIs
<1>2. /\ b \in Paths /\ Len(b) = Len(s) + Len(q) /\ Len(q) \in Nat
      /\ \A i \in 1 .. Len(s) + Len(q) : b[i] = IF i <= Len(s) THEN s[i] ELSE q[i - Len(s)]
  BY JoinIs
<1> HIDE DEF a, b
<1>3. ASSUME Under(p, q) PROVE Under(a, b)
  <2>1. Len(p) <= Len(q) /\ \A i \in 1 .. Len(p) : p[i] = q[i]
    BY <1>3, UnderIs
  <2>2. ASSUME NEW i \in 1 .. Len(a) PROVE a[i] = b[i]
    <3>1. CASE i <= Len(s)
      <4>1. i \in 1 .. Len(s) + Len(p) /\ i \in 1 .. Len(s) + Len(q)
        BY <1>1, <1>2, <2>1
      <4> QED
        BY <1>1, <1>2, <3>1, <4>1
    <3>2. CASE ~(i <= Len(s))
      <4>1. i - Len(s) \in 1 .. Len(p)
        BY <1>1, <3>2
      <4> QED
        <5>1. a[i] = p[i - Len(s)]
          BY <1>1, <3>2
        <5>2. i \in 1 .. Len(s) + Len(q)
          BY <1>1, <1>2, <2>1
        <5>3. b[i] = q[i - Len(s)]
          BY <1>2, <3>2, <5>2
        <5> QED
          BY <2>1, <4>1, <5>1, <5>3
    <3> QED
      BY <3>1, <3>2
  <2>3. Len(a) <= Len(b)
    BY <1>1, <1>2, <2>1
  <2> QED
    BY <1>1, <1>2, <2>2, <2>3, UnderIs
<1>4. ASSUME Under(a, b) PROVE Under(p, q)
  <2>1. Len(a) <= Len(b) /\ \A i \in 1 .. Len(a) : a[i] = b[i]
    BY <1>1, <1>2, <1>4, UnderIs
  <2>2. ASSUME NEW i \in 1 .. Len(p) PROVE p[i] = q[i]
    <3>1. i + Len(s) \in 1 .. Len(a) /\ ~(i + Len(s) <= Len(s)) /\ (i + Len(s)) - Len(s) = i
      BY <1>1
    <3>2. a[i + Len(s)] = p[i]
      BY <1>1, <3>1
    <3>3. b[i + Len(s)] = q[i]
      BY <1>1, <1>2, <2>1, <3>1
    <3> QED
      BY <2>1, <3>1, <3>2, <3>3
  <2>3. Len(p) <= Len(q)
    BY <1>1, <1>2, <2>1
  <2> QED
    BY <2>2, <2>3, UnderIs
<1> QED
  BY <1>3, <1>4 DEF a, b

\* Prefixes of prefixes, and of the same path.
LEMMA UnderOrder ==
  /\ \A s \in Paths : Under(s, s)
  /\ \A s, t, u \in Paths : Under(s, t) /\ Under(t, u) => Under(s, u)
  /\ \A s, t, u \in Paths : Under(s, u) /\ Under(t, u) => Under(s, t) \/ Under(t, s)
<1>0. \A s \in Paths : Len(s) \in Nat
  BY DEF Paths
<1>1. ASSUME NEW s \in Paths PROVE Under(s, s)
  BY <1>0, UnderIs
<1>2. ASSUME NEW s \in Paths, NEW t \in Paths, NEW u \in Paths, Under(s, t), Under(t, u) PROVE Under(s, u)
  BY <1>0, <1>2, UnderIs
<1>3. ASSUME NEW s \in Paths, NEW t \in Paths, NEW u \in Paths, Under(s, u), Under(t, u)
      PROVE  Under(s, t) \/ Under(t, s)
  <2>1. /\ Len(s) <= Len(u) /\ Len(t) <= Len(u)
        /\ \A i \in 1 .. Len(s) : s[i] = u[i]
        /\ \A i \in 1 .. Len(t) : t[i] = u[i]
    BY <1>3, UnderIs
  <2>2. CASE Len(s) <= Len(t)
    <3>1. \A i \in 1 .. Len(s) : s[i] = t[i]
      BY <1>0, <2>1, <2>2
    <3> QED
      BY <2>2, <3>1, UnderIs
  <2>3. CASE Len(t) <= Len(s)
    <3>1. \A i \in 1 .. Len(t) : s[i] = t[i]
      BY <1>0, <2>1, <2>3
    <3> QED
      BY <2>3, <3>1, UnderIs
  <2> QED
    BY <1>0, <2>2, <2>3
<1> QED
  BY <1>1, <1>2, <1>3

\* What a document says at a path, and documents of paths.
Holds(doc, q, v) == q \in DOMAIN doc /\ doc[q] = v
Sound(doc) == DOMAIN doc \subseteq Paths

\* A subtree at a path is there, leaf by leaf, and nowhere else.
LEMMA PlacedIs ==
  ASSUME NEW path \in Paths, NEW sub, Sound(sub)
  PROVE  /\ Sound(Placed(path, sub))
         /\ \A q \in DOMAIN Placed(path, sub) : Under(path, q) /\ \E p \in DOMAIN sub : q = path \o p
         /\ \A p \in DOMAIN sub : Holds(Placed(path, sub), path \o p, sub[p])
<1> DEFINE D == {path \o p : p \in DOMAIN sub}
           placed == Placed(path, sub)
<1>1. DOMAIN placed = D /\ \A q \in D : placed[q] = sub[SubSeq(q, Len(path) + 1, Len(q))]
  BY DEF Placed
<1> HIDE DEF placed
<1>2. ASSUME NEW p \in DOMAIN sub
      PROVE  path \o p \in Paths /\ Under(path, path \o p) /\ Holds(placed, path \o p, sub[p])
  <2>1. p \in Paths
    BY DEF Sound
  <2>2. path \o p \in Paths
    BY <2>1, JoinIs
  <2>3. SubSeq(path \o p, Len(path) + 1, Len(path \o p)) = p /\ Under(path, path \o p)
    BY <2>1, JoinBehind
  <2>4. path \o p \in D
    OBVIOUS
  <2>5. placed[path \o p] = sub[p]
    BY <1>1, <2>3, <2>4
  <2> QED
    BY <1>1, <2>2, <2>3, <2>4, <2>5 DEF Holds
<1>3. Sound(placed)
  BY <1>1, <1>2 DEF Sound
<1>4. \A q \in DOMAIN placed : Under(path, q) /\ \E p \in DOMAIN sub : q = path \o p
  BY <1>1, <1>2
<1> QED
  BY <1>2, <1>3, <1>4 DEF placed

\* One document over another: what the upper says, and what only the lower does.
LEMMA OverlayIs ==
  ASSUME NEW doc, NEW top
  PROVE  /\ Sound(doc) /\ Sound(top) => Sound(Overlay(doc, top))
         /\ \A q : Holds(top, q, top[q]) => Holds(Overlay(doc, top), q, top[q])
         /\ \A q : q \in DOMAIN doc /\ q \notin DOMAIN top => Holds(Overlay(doc, top), q, doc[q])
  BY DEF Overlay, Sound, Holds

\* A document assigned to another: what it says, and what is not below it.
LEMMA AssignedIs ==
  ASSUME NEW doc, Sound(doc), NEW top, Sound(top)
  PROVE  /\ Sound(Assigned(doc, top))
         /\ \A p \in DOMAIN top : Holds(Assigned(doc, top), p, top[p])
         /\ \A q \in DOMAIN doc : \/ Holds(Assigned(doc, top), q, doc[q])
                                 \/ \E p \in DOMAIN top : Under(p, q)
<1> DEFINE kept == Restrict(doc, {q \in DOMAIN doc : ~\E p \in DOMAIN top : Under(p, q)})
<1>1. /\ Sound(kept)
      /\ \A q \in DOMAIN doc : Holds(kept, q, doc[q]) \/ \E p \in DOMAIN top : Under(p, q)
  BY DEF Restrict, Sound, Holds
<1>2. \A p \in DOMAIN top : Under(p, p) /\ Holds(top, p, top[p])
  BY UnderOrder DEF Sound, Holds
<1>3. Assigned(doc, top) = Overlay(kept, top)
  BY DEF Assigned
<1> HIDE DEF kept
<1>4. /\ Sound(Overlay(kept, top))
      /\ \A q : Holds(top, q, top[q]) => Holds(Overlay(kept, top), q, top[q])
      /\ \A q : q \in DOMAIN kept /\ q \notin DOMAIN top => Holds(Overlay(kept, top), q, kept[q])
  BY <1>1, OverlayIs
<1>5. ASSUME NEW q \in DOMAIN doc
      PROVE  Holds(Overlay(kept, top), q, doc[q]) \/ \E p \in DOMAIN top : Under(p, q)
  BY <1>1, <1>2, <1>4 DEF Holds
<1> QED
  BY <1>2, <1>3, <1>4, <1>5

\* What is kept of a document.
LEMMA RestrictIs ==
  ASSUME NEW doc, Sound(doc), NEW S
  PROVE  /\ Sound(Restrict(doc, S \cap DOMAIN doc))
         /\ \A q \in DOMAIN doc \cap S : Holds(Restrict(doc, S \cap DOMAIN doc), q, doc[q])
  BY DEF Restrict, Sound, Holds

\* A removed subtree takes nothing else with it.
LEMMA WithoutIs ==
  ASSUME NEW doc, Sound(doc), NEW path
  PROVE  /\ Sound(Without(doc, path))
         /\ \A q \in DOMAIN doc : ~Under(path, q) => Holds(Without(doc, path), q, doc[q])
  BY DEF Without, Restrict, Sound, Holds

\* What a merged subtree is about, as Speaks says it of a block.
SpeaksAt(path, sub, q) ==
  \E p \in DOMAIN sub :
    \/ Under(path \o p, q) \/ Under(q, path \o p)
    \/ \E r \in Above(p) :
         /\ Under(path \o r, q)
         /\ IsArray(sub, r) \/ q[Len(path \o r) + 1] \in Range(Indices)

\* Places above a path are paths that it is under.
LEMMA AboveArePaths ==
  ASSUME NEW p \in Paths, NEW r \in Above(p)
  PROVE  r \in Paths /\ Under(r, p)
<1>1. PICK i \in 0 .. Len(p) - 1 : r = SubSeq(p, 1, i)
  BY DEF Above
<1>2. p \in Seq(Names) /\ Len(p) \in Nat
  BY DEF Paths
<1>3. \A j \in 1 .. i : p[j] \in Names
  BY <1>2
<1>4. /\ r \in Seq(Names) /\ Len(r) = IF 1 <= i THEN i - 1 + 1 ELSE 0
      /\ \A k \in 1 .. i - 1 + 1 : r[k] = p[1 + k - 1]
  BY <1>1, <1>2, <1>3, SubSeqProperties
<1>5. r \in Paths /\ Len(r) = i /\ \A k \in 1 .. Len(r) : r[k] = p[k]
  BY <1>4 DEF Paths
<1>6. Len(r) <= Len(p)
  BY <1>2, <1>5
<1> QED
  BY <1>5, <1>6, UnderIs

\* What is strictly under an array has an index next.
LEMMA InArray ==
  ASSUME NEW doc, NEW path, NEW q \in DOMAIN doc, Under(path, q), q # path
  PROVE  /\ q[Len(path) + 1] \in Keys(doc, path)
         /\ IsArray(doc, path) => q[Len(path) + 1] \in Range(Indices)
<1>1. q \in {p \in DOMAIN doc : IsStrictPrefix(path, p)}
  BY DEF IsStrictPrefix, Under
<1> QED
  BY <1>1 DEF Keys, IsArray

\* A merge says what was merged, and loses only what that is about.
LEMMA MergeIs ==
  ASSUME NEW doc, Sound(doc), NEW path \in Paths, NEW sub, Sound(sub)
  PROVE  LET merged == mergeConfigValue(doc, path, sub)
         IN /\ Sound(merged)
            /\ \A p \in DOMAIN sub : Holds(merged, path \o p, sub[p])
            /\ \A q \in DOMAIN doc : ~SpeaksAt(path, sub, q) => Holds(merged, q, doc[q])
            /\ \A q \in DOMAIN doc : ~Under(path, q) => Holds(merged, q, doc[q])
<1> DEFINE merged == mergeConfigValue(doc, path, sub)
           lost == {q \in DOMAIN doc : Under(path, q) /\ Replaces(doc, path, sub, SubSeq(q, Len(path) + 1, Len(q)))}
           kept == Restrict(doc, DOMAIN doc \ lost)
           placed == Placed(path, sub)
<1>1. merged = Overlay(kept, placed)
  BY DEF mergeConfigValue
<1>2. Sound(kept) /\ \A q \in DOMAIN doc \ lost : q \in DOMAIN kept /\ kept[q] = doc[q]
  BY DEF Restrict, Sound
<1>3. /\ Sound(placed) /\ \A p \in DOMAIN sub : Holds(placed, path \o p, sub[p])
      /\ \A q \in DOMAIN placed : Under(path, q) /\ \E p \in DOMAIN sub : q = path \o p
  BY PlacedIs
<1> HIDE DEF merged, kept, placed
<1>4. /\ Sound(merged)
      /\ \A q : Holds(placed, q, placed[q]) => Holds(merged, q, placed[q])
      /\ \A q : q \in DOMAIN kept /\ q \notin DOMAIN placed => Holds(merged, q, kept[q])
  BY <1>1, <1>2, <1>3, OverlayIs
<1>5. ASSUME NEW q \in DOMAIN doc, q \notin lost, q \notin DOMAIN placed PROVE Holds(merged, q, doc[q])
  <2> HIDE DEF lost
  <2> QED
    BY <1>2, <1>4, <1>5
<1>6. ASSUME NEW p \in DOMAIN sub PROVE Holds(merged, path \o p, sub[p])
  BY <1>3, <1>4 DEF Holds
<1>7. ASSUME NEW q \in DOMAIN doc, ~Under(path, q) PROVE Holds(merged, q, doc[q])
  BY <1>3, <1>5, <1>7
<1>8. ASSUME NEW q \in DOMAIN doc, ~SpeaksAt(path, sub, q) PROVE Holds(merged, q, doc[q])
  <2>1. q \in Paths
    BY DEF Sound
  <2>2. q \notin DOMAIN placed
    <3>1. SUFFICES ASSUME NEW p \in DOMAIN sub, q = path \o p PROVE FALSE
      BY <1>3
    <3>2. Under(path \o p, q)
      BY <2>1, <3>1, UnderOrder
    <3> QED
      BY <1>8, <3>2 DEF SpeaksAt
  <2>3. ASSUME q \in lost PROVE FALSE
    <3> DEFINE t == SubSeq(q, Len(path) + 1, Len(q))
    <3>1. Under(path, q) /\ Replaces(doc, path, sub, t)
      BY <2>3
    <3>2. t \in Paths /\ q = path \o t
      BY <2>1, <3>1, UnderSplit
    <3> HIDE DEF t
    <3>3. PICK p \in DOMAIN sub :
            \/ Under(p, t) \/ Under(t, p)
            \/ \E r \in Above(p) : Under(r, t) /\ (IsArray(sub, r) \/ IsArray(doc, path \o r))
      BY <3>1 DEF Replaces
    <3>4. p \in Paths
      BY DEF Sound
    <3>5. CASE Under(p, t)
      <4>1. Under(path \o p, q)
        BY <3>2, <3>4, <3>5, JoinUnder
      <4> QED
        BY <1>8, <4>1 DEF SpeaksAt
    <3>6. CASE Under(t, p)
      <4>1. Under(q, path \o p)
        BY <3>2, <3>4, <3>6, JoinUnder
      <4> QED
        BY <1>8, <4>1 DEF SpeaksAt
    <3>7. ASSUME NEW r \in Above(p), Under(r, t), IsArray(sub, r) \/ IsArray(doc, path \o r) PROVE FALSE
      <4>1. r \in Paths /\ Under(r, p)
        BY <3>4, AboveArePaths
      <4>2. Under(path \o r, q)
        BY <3>2, <3>7, <4>1, JoinUnder
      <4>3. CASE q = path \o r
        <5>1. Under(q, path \o p)
          BY <3>4, <4>1, <4>3, JoinUnder
        <5> QED
          BY <1>8, <5>1 DEF SpeaksAt
      <4>4. CASE q # path \o r
        <5>1. IsArray(sub, r) \/ q[Len(path \o r) + 1] \in Range(Indices)
          BY <3>7, <4>2, <4>4, InArray
        <5> QED
          BY <1>8, <4>2, <5>1 DEF SpeaksAt
      <4> QED
        BY <4>3, <4>4
    <3> QED
      BY <3>3, <3>5, <3>6, <3>7
  <2> QED
    BY <1>5, <2>2, <2>3
<1> QED
  BY <1>4, <1>6, <1>7, <1>8 DEF merged

\* Counting up from where it starts.
LEMMA CountingUp ==
  ASSUME NEW n \in Nat, NEW m \in Nat, m <= n, NEW P, m \in P, \A i \in m + 1 .. n : i - 1 \in P => i \in P
  PROVE  n \in P
<1> SUFFICES ASSUME n \notin P PROVE FALSE
  OBVIOUS
<1> DEFINE Bad == {i \in Nat : m <= i /\ i <= n /\ i \notin P}
<1>1. Bad \in SUBSET Nat /\ n \in Bad
  OBVIOUS
<1>2. PICK i \in Bad : \A k \in Bad : i <= k
  BY <1>1, LeastNatural
<1>3. i # m /\ i \in m + 1 .. n /\ i - 1 \in Nat /\ m <= i - 1 /\ i - 1 <= n
  BY <1>2
<1>4. i - 1 \in P
  BY <1>2, <1>3
<1> QED
  BY <1>2, <1>3, <1>4

\* How a list is applied: one after the other.
CourseOf(kind, state, list, after) ==
  /\ after[0] = state
  /\ \A i \in 1 .. Len(list) : after[i] = apply(kind, after[i - 1], list[i])

\* There is such a course, and it ends in what the list makes.
LEMMA AppliedCourse ==
  ASSUME NEW kind, NEW state, NEW list, Len(list) \in Nat
  PROVE  \E after : CourseOf(kind, state, list, after) /\ AppliedAll(kind, state, list) = after[Len(list)]
<1> DEFINE n == Len(list)
           Step(f, i) == IF i = 0 THEN state ELSE apply(kind, f[i - 1], list[i])
           As(f) == f = [i \in 0 .. n |-> Step(f, i)]
           P == {m \in 0 .. n : \E f : f = [i \in 0 .. m |-> Step(f, i)]}
<1>1. 0 \in P
  <2> DEFINE f == [i \in 0 .. 0 |-> state]
  <2>1. f = [i \in 0 .. 0 |-> Step(f, i)]
    <3>1. \A i \in 0 .. 0 : i = 0
      OBVIOUS
    <3> QED
      BY <3>1
  <2>2. \E h : h = [i \in 0 .. 0 |-> Step(h, i)]
    BY <2>1
  <2>3. 0 \in 0 .. n
    OBVIOUS
  <2> HIDE DEF f, Step
  <2> QED
    BY <2>2, <2>3
<1>2. ASSUME NEW m \in 0 + 1 .. n, m - 1 \in P PROVE m \in P
  <2>1. PICK f : f = [i \in 0 .. m - 1 |-> Step(f, i)]
    BY <1>2
  <2> DEFINE g == [i \in 0 .. m |-> IF i = m THEN apply(kind, f[m - 1], list[m]) ELSE f[i]]
  <2>2. \A i \in 0 .. m : g[i] = IF i = m THEN apply(kind, f[m - 1], list[m]) ELSE f[i]
    OBVIOUS
  <2>3. m # 0 /\ \A i \in 0 .. m : i # m => i \in 0 .. m - 1 /\ (i # 0 => i - 1 \in 0 .. m /\ i - 1 # m)
    OBVIOUS
  <2>4. g[m - 1] = f[m - 1]
    BY <2>2
  <2>5. ASSUME NEW i \in 0 .. m PROVE g[i] = Step(g, i)
    <3>1. CASE i = m
      BY <2>2, <2>3, <2>4, <3>1
    <3>2. CASE i # m
      <4>1. f[i] = Step(f, i)
        <5>1. i \in 0 .. m - 1
          BY <2>3, <3>2
        <5> HIDE DEF Step
        <5> QED
          BY <2>1, <5>1
      <4>2. i # 0 => g[i - 1] = f[i - 1]
        BY <2>2, <2>3, <3>2
      <4>3. g[i] = f[i]
        BY <2>2, <3>2
      <4> HIDE DEF g
      <4> QED
        BY <4>1, <4>2, <4>3
    <3> QED
      BY <3>1, <3>2
  <2>6. g = [i \in 0 .. m |-> g[i]]
    OBVIOUS
  <2>7. g = [i \in 0 .. m |-> Step(g, i)]
    <3> HIDE DEF g, Step
    <3> QED
      BY <2>5, <2>6
  <2> HIDE DEF g, Step
  <2>8. \E h : h = [i \in 0 .. m |-> Step(h, i)]
    BY <2>7
  <2>9. m \in 0 .. n
    BY <1>2
  <2> QED
    BY <2>8, <2>9
<1>3. n \in P
  <2> HIDE DEF P, Step, As
  <2> QED
    BY <1>1, <1>2, CountingUp
<1>4. \E f : As(f)
  BY <1>3
<1> DEFINE after == CHOOSE f : As(f)
<1>5. As(after)
  <2> HIDE DEF As
  <2> QED
    BY <1>4
<1>6. AppliedAll(kind, state, list) = after[n]
  BY DEF AppliedAll
<1> HIDE DEF after
<1>7. CourseOf(kind, state, list, after)
  BY <1>5 DEF CourseOf
<1> QED
  BY <1>6, <1>7

\* A block that is taken is all there, and replaces only what it speaks of.
LEMMA BlockStep ==
  ASSUME NEW state, NEW block, block.path \in Paths, Sound(block.sub), state.ok => Sound(state.doc),
         apply("block", state, block).ok
  PROVE  LET doc == apply("block", state, block).doc
         IN /\ state.ok /\ Sound(doc)
            /\ \A p \in DOMAIN block.sub : Holds(doc, block.path \o p, block.sub[p])
            /\ \A q \in DOMAIN state.doc : ~Speaks(block, q) => Holds(doc, q, state.doc[q])
<1>1. apply("block", state, block) = applyBlock(state, block)
  BY DEF apply
<1>2. state.ok
  BY <1>1 DEF applyBlock
<1> DEFINE merged == mergeConfigValue(state.doc, block.path, block.sub)
<1>3. applyBlock(state, block) = Doc(merged)
  <2> HIDE DEF merged
  <2>1. applyBlock(state, block) \in {Failed, Doc(merged)}
    BY <1>2 DEF applyBlock, merged
  <2>2. ~Failed.ok
    BY DEF Failed
  <2> QED
    BY <1>1, <2>1, <2>2
<1>4. apply("block", state, block).doc = merged
  <2> HIDE DEF merged
  <2> QED
    BY <1>1, <1>3 DEF Doc
<1>5. /\ Sound(merged)
      /\ \A p \in DOMAIN block.sub : Holds(merged, block.path \o p, block.sub[p])
      /\ \A q \in DOMAIN state.doc : ~SpeaksAt(block.path, block.sub, q) => Holds(merged, q, state.doc[q])
  BY <1>2, MergeIs
<1>6. \A q : Speaks(block, q) <=> SpeaksAt(block.path, block.sub, q)
  BY DEF Speaks, SpeaksAt
<1> HIDE DEF merged
<1> QED
  BY <1>2, <1>4, <1>5, <1>6

\* A value that is taken is all there, and replaces only what is below its path.
LEMMA ValueStep ==
  ASSUME NEW state, NEW value, value.path \in Paths, Sound(value.sub), state.ok => Sound(state.doc),
         apply("value", state, value).ok
  PROVE  LET doc == apply("value", state, value).doc
         IN /\ state.ok /\ Sound(doc)
            /\ \A p \in DOMAIN value.sub : Holds(doc, value.path \o p, value.sub[p])
            /\ \A q \in DOMAIN state.doc : ~Under(value.path, q) => Holds(doc, q, state.doc[q])
<1> DEFINE placed == Placed(value.path, value.sub)
           kept == Without(state.doc, value.path)
           doc == Overlay(kept, placed)
<1>1. apply("value", state, value) = setPath(state, value)
  BY DEF apply
<1>2. setPath(state, value) = Doc(doc) /\ state.ok
  <2>1. setPath(state, value) = IF ~state.ok \/ Conflicts(state.doc, value.path) THEN Failed ELSE Doc(doc)
    BY DEF setPath
  <2>2. ~Failed.ok
    BY DEF Failed
  <2> HIDE DEF doc
  <2> QED
    BY <1>1, <2>1, <2>2
<1>3. apply("value", state, value).doc = doc
  <2> HIDE DEF doc
  <2> QED
    BY <1>1, <1>2 DEF Doc
<1>4. Sound(kept) /\ \A q \in DOMAIN state.doc : ~Under(value.path, q) => Holds(kept, q, state.doc[q])
  BY <1>2, WithoutIs
<1>5. /\ Sound(placed) /\ \A p \in DOMAIN value.sub : Holds(placed, value.path \o p, value.sub[p])
      /\ \A q \in DOMAIN placed : Under(value.path, q)
  BY PlacedIs
<1> HIDE DEF kept, placed
<1>6. /\ Sound(doc)
      /\ \A q : Holds(placed, q, placed[q]) => Holds(doc, q, placed[q])
      /\ \A q : q \in DOMAIN kept /\ q \notin DOMAIN placed => Holds(doc, q, kept[q])
  BY <1>4, <1>5, OverlayIs
<1> HIDE DEF doc
<1>7. ASSUME NEW p \in DOMAIN value.sub PROVE Holds(doc, value.path \o p, value.sub[p])
  BY <1>5, <1>6 DEF Holds
<1>8. ASSUME NEW q \in DOMAIN state.doc, ~Under(value.path, q) PROVE Holds(doc, q, state.doc[q])
  BY <1>4, <1>5, <1>6, <1>8 DEF Holds
<1> QED
  BY <1>2, <1>3, <1>6, <1>7, <1>8

\* The elements of a list, and those after one of them.
LEMMA ListIs ==
  ASSUME NEW list, IsList(list)
  PROVE  /\ Len(list) \in Nat /\ DOMAIN list = 1 .. Len(list)
         /\ \A i \in 1 .. Len(list) : list[i] \in ToSet(list)
         /\ \A i \in 1 .. Len(list) : \A j \in i + 1 .. Len(list) : list[j] \in ToSet(Later(list, i))
<1>1. list \in Seq(ToSet(list)) /\ Len(list) \in Nat /\ DOMAIN list = 1 .. Len(list)
  BY DEF IsList
<1>2. \A i \in 1 .. Len(list) : list[i] \in ToSet(list)
  BY <1>1 DEF ToSet
<1>3. ASSUME NEW i \in 1 .. Len(list), NEW j \in i + 1 .. Len(list) PROVE list[j] \in ToSet(Later(list, i))
  <2> DEFINE later == SubSeq(list, i + 1, Len(list))
  <2>1. \A k \in i + 1 .. Len(list) : list[k] \in ToSet(list)
    BY <1>1, <1>2
  <2>2. i + 1 \in Int /\ Len(list) \in Int
    BY <1>1
  <2>3. /\ later \in Seq(ToSet(list))
        /\ Len(later) = IF i + 1 <= Len(list) THEN Len(list) - (i + 1) + 1 ELSE 0
        /\ \A k \in 1 .. Len(list) - (i + 1) + 1 : later[k] = list[(i + 1) + k - 1]
    BY <1>1, <2>1, <2>2, SubSeqProperties
  <2>4. j - i \in 1 .. Len(list) - (i + 1) + 1 /\ (i + 1) + (j - i) - 1 = j
    BY <1>1
  <2> HIDE DEF later
  <2>5. later[j - i] = list[j]
    <3>1. later[j - i] = list[(i + 1) + (j - i) - 1]
      BY <2>3, <2>4
    <3> QED
      BY <2>4, <3>1
  <2>6. j - i \in DOMAIN later
    <3>0. i + 1 <= Len(list)
      BY <1>1
    <3>1. Len(later) = Len(list) - (i + 1) + 1
      BY <2>3, <3>0
    <3>2. DOMAIN later = 1 .. Len(later)
      BY <2>3
    <3> QED
      BY <2>4, <3>1, <3>2
  <2>7. list[j] \in ToSet(later)
    BY <2>5, <2>6 DEF ToSet
  <2> QED
    BY <2>7 DEF later, Later
<1> QED
  BY <1>1, <1>2, <1>3

\* Blocks and values: where they go, and documents.
AreItems(list) == IsList(list) /\ \A item \in ToSet(list) : item.path \in Paths /\ Sound(item.sub)

\* After all blocks, each is heard, unless a later one speaks of the same place.
LEMMA BlocksPhase ==
  ASSUME NEW state, state.ok, DOMAIN state.doc = {}, NEW list, AreItems(list),
         AppliedAll("block", state, list).ok
  PROVE  LET doc == AppliedAll("block", state, list).doc
         IN /\ Sound(doc)
            /\ \A i \in 1 .. Len(list) : \A p \in DOMAIN list[i].sub :
                 \/ Holds(doc, list[i].path \o p, list[i].sub[p])
                 \/ \E j \in i + 1 .. Len(list) : Speaks(list[j], list[i].path \o p)
<1> DEFINE n == Len(list)
<1>0. /\ n \in Nat /\ \A i \in 1 .. n : list[i] \in ToSet(list)
      /\ \A i \in 1 .. n : list[i].path \in Paths /\ Sound(list[i].sub)
  BY ListIs DEF AreItems
<1>1. PICK after : CourseOf("block", state, list, after) /\ AppliedAll("block", state, list) = after[n]
  BY <1>0, AppliedCourse
<1> HIDE DEF n
<1>2. after[0] = state /\ \A k \in 1 .. n : after[k] = apply("block", after[k - 1], list[k])
  BY <1>1 DEF CourseOf, n
<1> DEFINE Heard(k, i, p) == \/ Holds(after[k].doc, list[i].path \o p, list[i].sub[p])
                             \/ \E j \in i + 1 .. k : Speaks(list[j], list[i].path \o p)
           Good(k) == after[k].ok => /\ Sound(after[k].doc)
                                     /\ \A i \in 1 .. k : \A p \in DOMAIN list[i].sub : Heard(k, i, p)
           P == {k \in 0 .. n : Good(k)}
<1>3. 0 \in P
  <2>1. Sound(after[0].doc) /\ \A i \in 1 .. 0 : FALSE
    BY <1>2 DEF Sound
  <2>2. Good(0)
    BY <2>1
  <2> QED
    BY <1>0, <2>2
<1>4. ASSUME NEW k \in 0 + 1 .. n, k - 1 \in P PROVE k \in P
  <2>1. k \in 1 .. n /\ k \in 0 .. n /\ Good(k - 1)
    BY <1>4
  <2>2. SUFFICES ASSUME after[k].ok PROVE /\ Sound(after[k].doc)
                                          /\ \A i \in 1 .. k : \A p \in DOMAIN list[i].sub : Heard(k, i, p)
    BY <2>1
  <2>3. after[k] = apply("block", after[k - 1], list[k]) /\ list[k].path \in Paths /\ Sound(list[k].sub)
    BY <1>0, <1>2, <2>1
  <2>4. after[k - 1].ok => Sound(after[k - 1].doc)
    BY <2>1
  <2>5. /\ after[k - 1].ok /\ Sound(after[k].doc)
        /\ \A p \in DOMAIN list[k].sub : Holds(after[k].doc, list[k].path \o p, list[k].sub[p])
        /\ \A q \in DOMAIN after[k - 1].doc : ~Speaks(list[k], q) => Holds(after[k].doc, q, after[k - 1].doc[q])
    BY <2>2, <2>3, <2>4, BlockStep
  <2>6. ASSUME NEW i \in 1 .. k, NEW p \in DOMAIN list[i].sub PROVE Heard(k, i, p)
    <3>1. CASE i = k
      BY <2>5, <3>1
    <3>2. CASE i # k
      <4> DEFINE at == list[i].path \o p
      <4>1. i \in 1 .. k - 1
        BY <2>1, <3>2
      <4>2. Heard(k - 1, i, p)
        BY <2>1, <2>5, <4>1
      <4>3. k \in i + 1 .. k /\ \A j \in i + 1 .. k - 1 : j \in i + 1 .. k
        BY <2>1, <4>1
      <4> HIDE DEF at
      <4>4. CASE \E j \in i + 1 .. k - 1 : Speaks(list[j], at)
        BY <4>3, <4>4 DEF at
      <4>5. CASE Holds(after[k - 1].doc, at, list[i].sub[p])
        <5>1. Speaks(list[k], at) \/ Holds(after[k].doc, at, list[i].sub[p])
          BY <2>5, <4>5 DEF Holds
        <5> QED
          BY <4>3, <5>1 DEF at
      <4> QED
        BY <4>2, <4>4, <4>5 DEF at
    <3> QED
      BY <3>1, <3>2
  <2> QED
    BY <2>5, <2>6
<1>5. n \in P
  <2> HIDE DEF P
  <2> QED
    BY <1>0, <1>3, <1>4, CountingUp
<1>6. Good(n)
  BY <1>5
<1> QED
  BY <1>1, <1>6 DEF n

\* After all values, each is heard, unless a later one touches the same place,
\* and so is what was said before.
LEMMA ValuesPhase ==
  ASSUME NEW state, state.ok => Sound(state.doc), NEW list, AreItems(list),
         AppliedAll("value", state, list).ok
  PROVE  LET doc == AppliedAll("value", state, list).doc
         IN /\ state.ok
            /\ \A q \in DOMAIN state.doc : Holds(doc, q, state.doc[q]) \/ Touches(list, q)
            /\ \A i \in 1 .. Len(list) : \A p \in DOMAIN list[i].sub :
                 \/ Holds(doc, list[i].path \o p, list[i].sub[p])
                 \/ Touches(Later(list, i), list[i].path \o p)
<1> DEFINE n == Len(list)
<1>0. /\ n \in Nat /\ \A i \in 1 .. n : list[i] \in ToSet(list)
      /\ \A i \in 1 .. n : list[i].path \in Paths /\ Sound(list[i].sub)
      /\ \A i \in 1 .. n : \A j \in i + 1 .. n : list[j] \in ToSet(Later(list, i))
  BY ListIs DEF AreItems
<1>1. PICK after : CourseOf("value", state, list, after) /\ AppliedAll("value", state, list) = after[n]
  BY <1>0, AppliedCourse
<1> HIDE DEF n
<1>2. after[0] = state /\ \A k \in 1 .. n : after[k] = apply("value", after[k - 1], list[k])
  BY <1>1 DEF CourseOf, n
<1> DEFINE Heard(k, i, p) == \/ Holds(after[k].doc, list[i].path \o p, list[i].sub[p])
                             \/ \E j \in i + 1 .. k : Under(list[j].path, list[i].path \o p)
           Kept(k, q) == Holds(after[k].doc, q, state.doc[q]) \/ \E j \in 1 .. k : Under(list[j].path, q)
           Good(k) == after[k].ok => /\ Sound(after[k].doc) /\ state.ok
                                     /\ \A q \in DOMAIN state.doc : Kept(k, q)
                                     /\ \A i \in 1 .. k : \A p \in DOMAIN list[i].sub : Heard(k, i, p)
           P == {k \in 0 .. n : Good(k)}
<1>3. 0 \in P
  <2>1. \A i \in 1 .. 0 : FALSE
    OBVIOUS
  <2>2. \A q \in DOMAIN state.doc : Kept(0, q)
    BY <1>2 DEF Holds
  <2>3. Good(0)
    BY <1>2, <2>1, <2>2
  <2> QED
    BY <1>0, <2>3
<1>4. ASSUME NEW k \in 0 + 1 .. n, k - 1 \in P PROVE k \in P
  <2>1. k \in 1 .. n /\ k \in 0 .. n /\ Good(k - 1)
    BY <1>4
  <2>2. SUFFICES ASSUME after[k].ok PROVE /\ Sound(after[k].doc) /\ state.ok
                                          /\ \A q \in DOMAIN state.doc : Kept(k, q)
                                          /\ \A i \in 1 .. k : \A p \in DOMAIN list[i].sub : Heard(k, i, p)
    BY <2>1
  <2>3. after[k] = apply("value", after[k - 1], list[k]) /\ list[k].path \in Paths /\ Sound(list[k].sub)
    BY <1>0, <1>2, <2>1
  <2>4. after[k - 1].ok => Sound(after[k - 1].doc)
    BY <2>1
  <2>5. /\ after[k - 1].ok /\ Sound(after[k].doc)
        /\ \A p \in DOMAIN list[k].sub : Holds(after[k].doc, list[k].path \o p, list[k].sub[p])
        /\ \A q \in DOMAIN after[k - 1].doc :
             ~Under(list[k].path, q) => Holds(after[k].doc, q, after[k - 1].doc[q])
    BY <2>2, <2>3, <2>4, ValueStep
  <2>6. \A q, v : Holds(after[k - 1].doc, q, v) => Holds(after[k].doc, q, v) \/ Under(list[k].path, q)
    BY <2>5 DEF Holds
  <2>7. ASSUME NEW q \in DOMAIN state.doc PROVE Kept(k, q)
    <3>1. Kept(k - 1, q)
      BY <2>1, <2>5
    <3>2. k \in 1 .. k /\ \A j \in 1 .. k - 1 : j \in 1 .. k
      BY <2>1
    <3> QED
      BY <2>6, <3>1, <3>2
  <2>8. ASSUME NEW i \in 1 .. k, NEW p \in DOMAIN list[i].sub PROVE Heard(k, i, p)
    <3>1. CASE i = k
      BY <2>5, <3>1
    <3>2. CASE i # k
      <4> DEFINE at == list[i].path \o p
                 v == list[i].sub[p]
      <4>1. i \in 1 .. k - 1
        BY <2>1, <3>2
      <4>2. Heard(k - 1, i, p)
        BY <2>1, <2>5, <4>1
      <4>3. k \in i + 1 .. k /\ \A j \in i + 1 .. k - 1 : j \in i + 1 .. k
        BY <2>1, <4>1
      <4> HIDE DEF at, v
      <4>4. CASE \E j \in i + 1 .. k - 1 : Under(list[j].path, at)
        BY <4>3, <4>4 DEF at
      <4>5. CASE Holds(after[k - 1].doc, at, v)
        <5>1. Under(list[k].path, at) \/ Holds(after[k].doc, at, v)
          BY <2>6, <4>5
        <5> QED
          BY <4>3, <5>1 DEF at, v
      <4> QED
        BY <4>2, <4>4, <4>5 DEF at, v
    <3> QED
      BY <3>1, <3>2
  <2>9. state.ok
    BY <2>1, <2>5
  <2> QED
    BY <2>5, <2>7, <2>8, <2>9
<1>5. n \in P
  <2> HIDE DEF P
  <2> QED
    BY <1>0, <1>3, <1>4, CountingUp
<1>6. Good(n)
  BY <1>5
<1> HIDE DEF Good
<1> DEFINE doc == after[n].doc
<1>7. /\ state.ok /\ \A q \in DOMAIN state.doc : Kept(n, q)
      /\ \A i \in 1 .. n : \A p \in DOMAIN list[i].sub : Heard(n, i, p)
  BY <1>1, <1>6 DEF Good
<1>8. ASSUME NEW q \in DOMAIN state.doc PROVE Holds(doc, q, state.doc[q]) \/ Touches(list, q)
  BY <1>0, <1>7 DEF Touches
<1>9. ASSUME NEW i \in 1 .. n, NEW p \in DOMAIN list[i].sub
      PROVE  \/ Holds(doc, list[i].path \o p, list[i].sub[p])
             \/ Touches(Later(list, i), list[i].path \o p)
  <2>1. Heard(n, i, p)
    BY <1>7
  <2>2. \A j \in i + 1 .. n : list[j] \in ToSet(Later(list, i))
    BY <1>0
  <2> QED
    BY <2>1, <2>2 DEF Touches
<1> QED
  BY <1>1, <1>7, <1>8, <1>9 DEF n

\* Paths that begin otherwise have nothing under them in common.
LEMMA Apart ==
  ASSUME NEW s \in Paths, Len(s) >= 1, NEW q \in Paths, Under(s, q)
  PROVE  Len(q) >= 1 /\ q[1] = s[1]
<1>1. Len(s) <= Len(q) /\ \A i \in 1 .. Len(s) : s[i] = q[i]
  BY UnderIs
<1>2. Len(s) \in Nat /\ Len(q) \in Nat
  BY DEF Paths
<1> QED
  BY <1>1, <1>2

\* Sequences of one to three.
LEMMA Tuples ==
  ASSUME NEW S
  PROVE  /\ \A x \in S : <<x>> \in Seq(S)
         /\ \A x, y \in S : <<x, y>> \in Seq(S)
         /\ \A x, y, z \in S : <<x, y, z>> \in Seq(S)
<1>1. ASSUME NEW x \in S PROVE <<x>> \in Seq(S)
  OBVIOUS
<1>2. ASSUME NEW x \in S, NEW y \in S PROVE <<x, y>> \in Seq(S)
  OBVIOUS
<1>3. ASSUME NEW x \in S, NEW y \in S, NEW z \in S PROVE <<x, y, z>> \in Seq(S)
  OBVIOUS
<1> QED
  BY <1>1, <1>2, <1>3

\* The paths the shortcuts and profiles use.
LEMMA NamedPaths ==
  /\ \A x \in Names : <<x>> \in Paths /\ Len(<<x>>) = 1 /\ <<x>>[1] = x
  /\ \A x, y \in Names : <<x, y>> \in Paths /\ Len(<<x, y>>) = 2 /\ <<x, y>>[1] = x /\ <<x, y>>[2] = y
  /\ \A x, y, z \in Names : /\ <<x, y, z>> \in Paths /\ Len(<<x, y, z>>) = 3
                             /\ <<x, y, z>>[1] = x /\ <<x, y, z>>[2] = y /\ <<x, y, z>>[3] = z
<1>1. ASSUME NEW x \in Names PROVE <<x>> \in Paths /\ Len(<<x>>) = 1 /\ <<x>>[1] = x
  <2>1. <<x>> \in Paths
    BY Tuples, Zenon DEF Paths
  <2> QED
    BY <2>1
<1>2. ASSUME NEW x \in Names, NEW y \in Names
      PROVE  <<x, y>> \in Paths /\ Len(<<x, y>>) = 2 /\ <<x, y>>[1] = x /\ <<x, y>>[2] = y
  <2>1. <<x, y>> \in Paths
    BY Tuples, Zenon DEF Paths
  <2> QED
    BY <2>1
<1>3. ASSUME NEW x \in Names, NEW y \in Names, NEW z \in Names
      PROVE  /\ <<x, y, z>> \in Paths /\ Len(<<x, y, z>>) = 3
             /\ <<x, y, z>>[1] = x /\ <<x, y, z>>[2] = y /\ <<x, y, z>>[3] = z
  <2>1. <<x, y, z>> \in Paths
    BY Tuples, Zenon DEF Paths
  <2> QED
    BY <2>1
<1> QED
  BY <1>1, <1>2, <1>3

\* What follows the first segment.
LEMMA TailIs ==
  ASSUME NEW x \in Names, NEW f \in Paths
  PROVE  Tail(<<x>> \o f) = f /\ (<<x>> \o f)[1] = x
<1> DEFINE q == <<x>> \o f
<1>1. <<x>> \in Paths /\ Len(<<x>>) = 1 /\ <<x>>[1] = x
  BY NamedPaths
<1>2. /\ q \in Paths /\ Len(q) = 1 + Len(f) /\ Len(f) \in Nat
      /\ \A i \in 1 .. 1 + Len(f) : q[i] = IF i <= 1 THEN <<x>>[i] ELSE f[i - 1]
  BY <1>1, JoinIs
<1> HIDE DEF q
<1>3. q \in Seq(Names) /\ q # << >>
  BY <1>2 DEF Paths
<1>4. Tail(q) \in Seq(Names) /\ Len(Tail(q)) = Len(q) - 1 /\ \A i \in 1 .. Len(Tail(q)) : Tail(q)[i] = q[i + 1]
  BY <1>3, HeadTailProperties
<1>5. ASSUME NEW i \in 1 .. Len(f) PROVE Tail(q)[i] = f[i]
  <2>1. i + 1 \in 1 .. 1 + Len(f) /\ ~(i + 1 <= 1) /\ (i + 1) - 1 = i /\ i \in 1 .. Len(Tail(q))
    BY <1>2, <1>4
  <2> QED
    BY <1>2, <1>4, <2>1
<1>6. Tail(q) = f
  <2>1. Len(Tail(q)) = Len(f) /\ Tail(q) \in Paths
    BY <1>2, <1>4 DEF Paths
  <2> QED
    BY <1>4, <1>5, <2>1, SamePath
<1> QED
  BY <1>1, <1>2, <1>6 DEF q

\* The storage shortcuts are there, and replace only their own fields.
LEMMA StorageStep ==
  ASSUME NEW state, state.ok => Sound(state.doc), NEW fields, AreFields(DOMAIN fields),
         applyStorageValues(state, fields).ok
  PROVE  LET doc == applyStorageValues(state, fields).doc
         IN /\ state.ok /\ Sound(doc)
            /\ \A f \in DOMAIN fields : Holds(doc, <<"storage">> \o f, fields[f])
            /\ \A q \in DOMAIN state.doc :
                 Holds(doc, q, state.doc[q]) \/ \E f \in DOMAIN fields : Under(<<"storage">> \o f, q)
<1> DEFINE path == <<"storage">>
           placed == Placed(path, fields)
           doc == Assigned(state.doc, placed)
           new == applyStorageValues(state, fields)
<1>0. path \in Paths /\ Sound(fields) /\ "storage" \in Names
  <2>1. "storage" \in Names
    BY DEF Names
  <2>2. Sound(fields)
    BY DEF AreFields, Sound
  <2> QED
    BY <2>1, <2>2, NamedPaths
<1>1. CASE DOMAIN fields = {}
  <2>1. new = state
    BY <1>1 DEF applyStorageValues
  <2> HIDE DEF new
  <2>2. \A q \in DOMAIN state.doc : Holds(state.doc, q, state.doc[q])
    BY DEF Holds
  <2> QED
    BY <1>1, <2>1, <2>2 DEF new
<1>2. CASE DOMAIN fields # {}
  <2>1. state.ok /\ new \in {Failed, Doc(doc)}
    <3>1. state.ok
      BY DEF applyStorageValues
    <3> HIDE DEF doc, path
    <3> QED
      BY <1>2, <3>1 DEF applyStorageValues, doc, placed, path
  <2>2. ~Failed.ok
    BY DEF Failed
  <2>3. new.doc = doc
    <3> HIDE DEF doc, new
    <3>1. new.ok
      BY DEF new
    <3> QED
      BY <2>1, <2>2, <3>1 DEF Doc
  <2>4. /\ Sound(placed) /\ \A f \in DOMAIN fields : Holds(placed, path \o f, fields[f])
        /\ \A q \in DOMAIN placed : \E f \in DOMAIN fields : q = path \o f
    BY <1>0, PlacedIs
  <2> HIDE DEF placed
  <2>5. /\ Sound(doc) /\ \A p \in DOMAIN placed : Holds(doc, p, placed[p])
        /\ \A q \in DOMAIN state.doc : Holds(doc, q, state.doc[q]) \/ \E p \in DOMAIN placed : Under(p, q)
    BY <2>1, <2>4, AssignedIs
  <2> HIDE DEF doc, new
  <2>6. ASSUME NEW f \in DOMAIN fields PROVE Holds(doc, path \o f, fields[f])
    BY <2>4, <2>5 DEF Holds
  <2>7. ASSUME NEW q \in DOMAIN state.doc, ~Holds(doc, q, state.doc[q])
        PROVE  \E f \in DOMAIN fields : Under(path \o f, q)
    BY <2>4, <2>5, <2>7
  <2> QED
    BY <2>1, <2>3, <2>5, <2>6, <2>7 DEF new
<1> QED
  BY <1>1, <1>2

\* One segment more.
LEMMA Longer ==
  ASSUME NEW s \in Paths, Len(s) >= 1, NEW x \in Names
  PROVE  /\ s \o <<x>> \in Paths /\ Len(s \o <<x>>) = Len(s) + 1 /\ Under(s, s \o <<x>>)
         /\ (s \o <<x>>)[1] = s[1] /\ (s \o <<x>>)[Len(s) + 1] = x
<1> DEFINE q == s \o <<x>>
<1>1. <<x>> \in Paths /\ Len(<<x>>) = 1 /\ <<x>>[1] = x
  BY NamedPaths
<1>2. /\ q \in Paths /\ Len(q) = Len(s) + 1 /\ Len(s) \in Nat
      /\ \A i \in 1 .. Len(s) + 1 : q[i] = IF i <= Len(s) THEN s[i] ELSE <<x>>[i - Len(s)]
  BY <1>1, JoinIs
<1>3. Under(s, q)
  BY <1>1, JoinBehind
<1> HIDE DEF q
<1>4. q[1] = s[1]
  BY <1>2
<1>5. q[Len(s) + 1] = <<x>>[1]
  <2>1. Len(s) + 1 \in 1 .. Len(s) + 1 /\ ~(Len(s) + 1 <= Len(s)) /\ (Len(s) + 1) - Len(s) = 1
    BY <1>2
  <2> QED
    BY <1>2, <2>1
<1> QED
  BY <1>1, <1>2, <1>3, <1>4, <1>5 DEF q

\* The place of the first rule's target.
LEMMA TargetIs ==
  /\ Rules \in Paths /\ Rule0 \in Paths /\ Target \in Paths /\ Target \o <<"provider">> \in Paths
  /\ Len(Target) = 4 /\ Len(Target \o <<"provider">>) = 5 /\ Target[1] = "routing" /\ Rules[1] = "routing"
  /\ Under(Rules, Rule0) /\ Under(Rule0, Target) /\ Under(Target, Target \o <<"provider">>)
  /\ Under(Rules, Target)
  /\ (Target \o <<"provider">>)[1] = "routing"
<1>0. /\ "0" \in Names /\ "target" \in Names /\ "provider" \in Names
      /\ "routing" \in Names /\ "rules" \in Names
  BY DEF Names
<1>1. Rules \in Paths /\ Len(Rules) = 2 /\ Rules[1] = "routing"
  BY <1>0, NamedPaths DEF Rules
<1>2. Rule0 \in Paths /\ Len(Rule0) = 3 /\ Under(Rules, Rule0) /\ Rule0[1] = "routing"
  <2> HIDE DEF Rules
  <2>1. Len(Rules) >= 1
    BY <1>1
  <2>2. /\ Rules \o <<"0">> \in Paths /\ Len(Rules \o <<"0">>) = Len(Rules) + 1 /\ Under(Rules, Rules \o <<"0">>)
        /\ (Rules \o <<"0">>)[1] = Rules[1]
    BY <1>0, <1>1, <2>1, Longer
  <2> QED
    BY <1>1, <2>2 DEF Rule0
<1>3. Target \in Paths /\ Len(Target) = 4 /\ Under(Rule0, Target) /\ Target[1] = "routing"
  <2>1. Len(Rule0) >= 1
    BY <1>2
  <2>2. /\ Rule0 \o <<"target">> \in Paths /\ Len(Rule0 \o <<"target">>) = Len(Rule0) + 1
        /\ Under(Rule0, Rule0 \o <<"target">>) /\ (Rule0 \o <<"target">>)[1] = Rule0[1]
    BY <1>0, <1>2, <2>1, Longer
  <2> QED
    BY <1>2, <2>2 DEF Target
<1>4. /\ Target \o <<"provider">> \in Paths /\ Len(Target \o <<"provider">>) = 5
      /\ Under(Target, Target \o <<"provider">>) /\ (Target \o <<"provider">>)[1] = "routing"
  <2>1. Len(Target) >= 1
    BY <1>3
  <2>2. /\ Target \o <<"provider">> \in Paths /\ Len(Target \o <<"provider">>) = Len(Target) + 1
        /\ Under(Target, Target \o <<"provider">>) /\ (Target \o <<"provider">>)[1] = Target[1]
    BY <1>0, <1>3, <2>1, Longer
  <2> QED
    BY <1>3, <2>2
<1>5. Under(Rules, Target)
  BY <1>1, <1>2, <1>3, UnderOrder
<1> QED
  BY <1>1, <1>2, <1>3, <1>4, <1>5

\* The rule made for the shortcuts, or its target, replaces nothing.
LEMMA CatchAllKeeps ==
  ASSUME NEW doc, Sound(doc)
  PROVE  /\ Sound(catchAllTarget(doc))
         /\ \A q \in DOMAIN doc : Holds(catchAllTarget(doc), q, doc[q])
<1> DEFINE rule == [q \in {<<"id">>, <<"when">>, <<"target", "provider">>} |->
                      IF q = <<"when">> THEN "true" ELSE "default"]
           named == Only(<<"provider">>, "default")
           new == catchAllTarget(doc)
<1>0. \A q \in DOMAIN doc : q \in Paths /\ Holds(doc, q, doc[q])
  BY DEF Sound, Holds
<1>1. Sound(rule) /\ Sound(named)
  <2>1. "id" \in Names /\ "when" \in Names /\ "target" \in Names /\ "provider" \in Names
    BY DEF Names
  <2>2. <<"id">> \in Paths /\ <<"when">> \in Paths /\ <<"target", "provider">> \in Paths /\ <<"provider">> \in Paths
    BY <2>1, NamedPaths
  <2>3. DOMAIN rule = {<<"id">>, <<"when">>, <<"target", "provider">>} /\ DOMAIN named = {<<"provider">>}
    BY DEF Only
  <2> HIDE DEF rule, named
  <2> QED
    BY <2>2, <2>3 DEF Sound
<1> HIDE DEF rule, named
<1>2. CASE ~Has(doc, Rules)
  <2> DEFINE placed == Placed(Rule0, rule)
  <2>1. Sound(placed) /\ \A q \in DOMAIN placed : Under(Rule0, q)
    BY <1>1, TargetIs, PlacedIs
  <2>2. new = Overlay(doc, placed)
    BY <1>2 DEF catchAllTarget, rule
  <2> HIDE DEF placed
  <2>3. ASSUME NEW q \in DOMAIN doc PROVE q \notin DOMAIN placed
    <3>1. ~Under(Rules, q)
      BY <1>2 DEF Has
    <3> QED
      BY <1>0, <2>1, <3>1, TargetIs, UnderOrder
  <2> QED
    BY <2>1, <2>2, <2>3, OverlayIs
<1>3. CASE Has(doc, Rules) /\ ~Has(doc, Target)
  <2> DEFINE placed == Placed(Target, named)
  <2>1. Sound(placed) /\ \A q \in DOMAIN placed : Under(Target, q)
    BY <1>1, TargetIs, PlacedIs
  <2>2. new = Overlay(doc, placed)
    BY <1>3 DEF catchAllTarget, named
  <2> HIDE DEF placed
  <2>3. ASSUME NEW q \in DOMAIN doc PROVE q \notin DOMAIN placed
    BY <1>3, <2>1 DEF Has
  <2> QED
    BY <2>1, <2>2, <2>3, OverlayIs
<1>4. CASE Has(doc, Rules) /\ Has(doc, Target)
  BY <1>0, <1>4 DEF catchAllTarget
<1> QED
  BY <1>2, <1>3, <1>4

\* The first rule names a provider, and the options of the target are with it;
\* the model it asks for is with the rule.
TargetTold(doc, fields, id) ==
  /\ id \in Names /\ Get(doc, Target \o <<"provider">>) = id /\ Leaf(doc, Target \o <<"provider">>)
  /\ id \in STRING \ {""} \/ id = "default"
  /\ \A f \in DOMAIN fields : \/ f = <<"apiKey">> /\ fields[f] = ""
                              \/ f = <<"model">> /\ Holds(doc, Target \o f, fields[f])
                              \/ f # <<"model">> /\ Holds(doc, <<"providers", id>> \o f, fields[f])

\* What they replace: who is named, and the options.
TargetTakes(fields, id, q) ==
  \/ \E f \in {<<"provider">>} \cup (DOMAIN fields \cap {<<"model">>}) : Under(Target \o f, q)
  \/ \E f \in DOMAIN Supplied(fields) \ {<<"model">>} : Under(<<"providers", id>> \o f, q)

\* So the shortcuts of the target make it, and they replace only that.
LEMMA TargetStep ==
  ASSUME NEW state, state.ok => Sound(state.doc), NEW fields, AreFields(DOMAIN fields), DOMAIN fields # {},
         applyTargetValues(state, fields).ok
  PROVE  LET doc == applyTargetValues(state, fields).doc
         IN /\ state.ok /\ Sound(doc)
            /\ \E id : /\ TargetTold(doc, fields, id)
                       /\ \A q \in DOMAIN state.doc : Holds(doc, q, state.doc[q]) \/ TargetTakes(fields, id, q)
<1> DEFINE base  == catchAllTarget(state.doc)
           id    == targetProvider(base)
           given == Supplied(fields)
           model == Restrict(given, DOMAIN given \cap {<<"model">>})
           rest  == Restrict(given, DOMAIN given \ {<<"model">>})
           spot  == <<"providers", id>>
           named == Target \o <<"provider">>
           one   == Assigned(base, Only(named, id))
           two   == Assigned(one, Placed(Target, model))
           three == Assigned(two, Placed(spot, rest))
           new   == applyTargetValues(state, fields)
<1>1. state.ok
  BY DEF applyTargetValues
<1>2. new \in {Failed, Doc(three)}
  BY <1>1 DEF applyTargetValues
<1>3. new.doc = three
  <2> HIDE DEF new, three
  <2>1. ~Failed.ok
    BY DEF Failed
  <2>2. new.ok
    BY DEF new
  <2> QED
    BY <1>2, <2>1, <2>2 DEF Doc
<1>4. Sound(base) /\ \A q \in DOMAIN state.doc : Holds(base, q, state.doc[q])
  BY <1>1, CatchAllKeeps
<1> HIDE DEF base
<1>5. id \in Names /\ (id \in STRING \ {""} \/ id = "default")
  BY DEF targetProvider, Names
<1>6. /\ Sound(model) /\ Sound(rest)
      /\ DOMAIN model \subseteq DOMAIN fields \cap {<<"model">>} /\ DOMAIN rest \subseteq DOMAIN given \ {<<"model">>}
      /\ DOMAIN given \subseteq DOMAIN fields
      /\ \A f \in DOMAIN fields : \/ f = <<"apiKey">> /\ fields[f] = ""
                                  \/ f = <<"model">> /\ Holds(model, f, fields[f])
                                  \/ f # <<"model">> /\ Holds(rest, f, fields[f])
  <2>1. /\ DOMAIN given = {f \in DOMAIN fields : f # <<"apiKey">> \/ fields[f] # ""}
        /\ \A f \in DOMAIN given : given[f] = fields[f]
    BY DEF Supplied, Restrict
  <2>2. DOMAIN fields \subseteq Paths
    BY DEF AreFields
  <2> HIDE DEF given
  <2>3. DOMAIN model = DOMAIN given \cap {<<"model">>} /\ \A f \in DOMAIN model : model[f] = given[f]
    BY DEF Restrict
  <2>4. DOMAIN rest = DOMAIN given \ {<<"model">>} /\ \A f \in DOMAIN rest : rest[f] = given[f]
    BY DEF Restrict
  <2> HIDE DEF model, rest
  <2>5. Sound(model) /\ Sound(rest)
    BY <2>1, <2>2, <2>3, <2>4 DEF Sound
  <2>6. DOMAIN model \subseteq DOMAIN fields \cap {<<"model">>} /\ DOMAIN rest \subseteq DOMAIN given \ {<<"model">>}
        /\ DOMAIN given \subseteq DOMAIN fields
    BY <2>1, <2>3, <2>4
  <2>7. ASSUME NEW f \in DOMAIN fields
        PROVE  \/ f = <<"apiKey">> /\ fields[f] = ""
               \/ f = <<"model">> /\ Holds(model, f, fields[f])
               \/ f # <<"model">> /\ Holds(rest, f, fields[f])
    BY <2>1, <2>3, <2>4 DEF Holds
  <2> QED
    BY <2>5, <2>6, <2>7
<1> HIDE DEF given, model, rest, id
<1>7. spot \in Paths /\ Len(spot) = 2 /\ spot[1] = "providers"
  <2>1. "providers" \in Names
    BY DEF Names
  <2> QED
    BY <1>5, <2>1, NamedPaths
<1>8. Target \in Paths /\ named \in Paths /\ Under(Target, named) /\ Target[1] = "routing" /\ Len(Target) = 4
  BY TargetIs
<1> HIDE DEF spot, named
<1>9. /\ Sound(Placed(Target, model)) /\ Sound(Placed(spot, rest))
      /\ \A q \in DOMAIN Placed(Target, model) : Under(Target, q) /\ \E f \in DOMAIN model : q = Target \o f
      /\ \A q \in DOMAIN Placed(spot, rest) : Under(spot, q) /\ \E f \in DOMAIN rest : q = spot \o f
      /\ \A f \in DOMAIN rest : Holds(Placed(spot, rest), spot \o f, rest[f])
      /\ \A f \in DOMAIN model : Holds(Placed(Target, model), Target \o f, model[f])
  BY <1>6, <1>7, <1>8, PlacedIs
<1>10. Sound(Only(named, id)) /\ DOMAIN Only(named, id) = {named} /\ Only(named, id)[named] = id
  BY <1>8 DEF Only, Sound
<1>11. ASSUME NEW q \in Paths, Under(Target, q) PROVE ~Under(spot, q)
  <2>1. Len(spot) >= 1 /\ Len(Target) >= 1
    BY <1>7, <1>8
  <2>2. q[1] = "routing"
    BY <1>8, <1>11, <2>1, Apart
  <2>3. Under(spot, q) => q[1] = "providers"
    BY <1>7, <2>1, Apart
  <2> QED
    BY <2>2, <2>3
<1>12. /\ Sound(one) /\ Holds(one, named, id)
       /\ \A q \in DOMAIN base : Holds(one, q, base[q]) \/ Under(named, q)
  BY <1>4, <1>10, AssignedIs
<1> HIDE DEF one
<1>13. /\ Sound(two)
       /\ \A p \in DOMAIN Placed(Target, model) : Holds(two, p, Placed(Target, model)[p])
       /\ \A q \in DOMAIN one : Holds(two, q, one[q]) \/ \E p \in DOMAIN Placed(Target, model) : Under(p, q)
  BY <1>9, <1>12, AssignedIs
<1> HIDE DEF two
<1>14. /\ Sound(three)
       /\ \A p \in DOMAIN Placed(spot, rest) : Holds(three, p, Placed(spot, rest)[p])
       /\ \A q \in DOMAIN two : Holds(three, q, two[q]) \/ \E p \in DOMAIN Placed(spot, rest) : Under(p, q)
  BY <1>9, <1>13, AssignedIs
<1> HIDE DEF three
<1>15. ASSUME NEW q \in Paths, Under(Target, q), NEW v, Holds(two, q, v) PROVE Holds(three, q, v)
  <2>1. ASSUME NEW p \in DOMAIN Placed(spot, rest), Under(p, q) PROVE FALSE
    <3>1. p \in Paths /\ Under(spot, p)
      BY <1>9 DEF Sound
    <3>2. Under(spot, q)
      BY <1>7, <2>1, <3>1, UnderOrder
    <3> QED
      BY <1>11, <1>15, <3>2
  <2> QED
    BY <1>14, <1>15, <2>1 DEF Holds
<1>16. ASSUME NEW f \in DOMAIN rest PROVE Holds(three, spot \o f, rest[f])
  BY <1>9, <1>14 DEF Holds
<1>17. ASSUME NEW f \in DOMAIN model PROVE Holds(three, Target \o f, model[f])
  <2>1. f \in Paths
    BY <1>6 DEF Sound
  <2>2. Target \o f \in Paths /\ Under(Target, Target \o f)
    BY <1>8, <2>1, JoinIs, JoinBehind
  <2>3. Holds(two, Target \o f, model[f])
    BY <1>9, <1>13 DEF Holds
  <2> QED
    BY <1>15, <2>2, <2>3
<1>18. Holds(three, named, id)
  <2>1. ASSUME NEW p \in DOMAIN Placed(Target, model), Under(p, named) PROVE FALSE
    <3> DEFINE m == <<"model">>
               o == <<"provider">>
    <3>1. "model" # "provider" /\ "provider" \in Names
      BY DEF Names
    <3>2. PICK f \in DOMAIN model : p = Target \o f
      BY <1>9
    <3>3. f = m /\ m \in Paths /\ Len(m) = 1 /\ m[1] = "model"
      BY <1>6, <3>2 DEF Sound
    <3>4. o \in Paths /\ Len(o) = 1 /\ o[1] = "provider"
      BY <3>1, NamedPaths
    <3>5. Under(Target \o m, Target \o o)
      BY <2>1, <3>2, <3>3 DEF named
    <3> HIDE DEF m, o
    <3>6. Under(m, o)
      BY <1>8, <3>3, <3>4, <3>5, JoinUnder
    <3> QED
      BY <3>1, <3>3, <3>4, <3>6, UnderIs
  <2>2. Holds(two, named, id)
    BY <1>12, <1>13, <2>1 DEF Holds
  <2> QED
    BY <1>8, <1>15, <2>2
<1>19. TargetTold(three, fields, id)
  <2>1. ASSUME NEW f \in DOMAIN fields
        PROVE  \/ f = <<"apiKey">> /\ fields[f] = ""
               \/ f = <<"model">> /\ Holds(three, Target \o f, fields[f])
               \/ f # <<"model">> /\ Holds(three, spot \o f, fields[f])
    BY <1>6, <1>16, <1>17 DEF Holds
  <2> QED
    BY <1>5, <1>18, <2>1 DEF TargetTold, Holds, Get, Leaf, named, spot
<1>20. ASSUME NEW q \in DOMAIN state.doc
       PROVE  Holds(three, q, state.doc[q]) \/ TargetTakes(fields, id, q)
  <2>1. Holds(base, q, state.doc[q])
    BY <1>4
  <2>2. Holds(one, q, state.doc[q]) \/ Under(named, q)
    BY <1>12, <2>1 DEF Holds
  <2>3. \/ Holds(two, q, state.doc[q]) \/ Under(named, q)
        \/ \E f \in DOMAIN model : Under(Target \o f, q)
    BY <1>9, <1>13, <2>2 DEF Holds
  <2>4. \/ Holds(three, q, state.doc[q]) \/ Under(named, q)
        \/ \E f \in DOMAIN model : Under(Target \o f, q)
        \/ \E f \in DOMAIN rest : Under(spot \o f, q)
    BY <1>9, <1>14, <2>3 DEF Holds
  <2> QED
    BY <1>6, <2>4 DEF TargetTakes, named, spot, given
<1> HIDE DEF new
<1> QED
  BY <1>1, <1>3, <1>14, <1>19, <1>20 DEF new

\* The places of the verifiers, and of their types.
UserSpot == <<"security", "userAuth">>
UserType == UserSpot \o <<"type">>
AppSpot(i) == AppProviders \o <<i>>
AppType(i) == AppSpot(i) \o <<"type">>

\* They are different places.
LEMMA SpotsAre ==
  /\ UserSpot \in Paths /\ UserType \in Paths /\ Len(UserSpot) = 2 /\ Len(UserType) = 3 /\ Under(UserSpot, UserType)
  /\ UserSpot[1] = "security" /\ UserSpot[2] = "userAuth" /\ UserType[2] = "userAuth"
  /\ \A i \in Names : /\ AppSpot(i) \in Paths /\ AppType(i) \in Paths /\ Len(AppSpot(i)) = 4 /\ Len(AppType(i)) = 5
                      /\ AppSpot(i)[1] = "security" /\ AppSpot(i)[2] = "appAuth" /\ AppSpot(i)[4] = i
                      /\ AppType(i)[2] = "appAuth" /\ AppType(i)[4] = i /\ Under(AppSpot(i), AppType(i))
                      /\ AppType(i) = AppProviders \o <<i, "type">>
                      /\ IsStrictPrefix(AppProviders, AppType(i)) /\ Len(AppProviders) = 3
<1>0. /\ "security" \in Names /\ "userAuth" \in Names /\ "appAuth" \in Names /\ "providers" \in Names
      /\ "type" \in Names
  BY DEF Names
<1>1. UserSpot \in Paths /\ Len(UserSpot) = 2 /\ UserSpot[1] = "security" /\ UserSpot[2] = "userAuth"
  BY <1>0, NamedPaths DEF UserSpot
<1>2. UserType \in Paths /\ Len(UserType) = 3 /\ Under(UserSpot, UserType) /\ UserType[2] = "userAuth"
  <2>1. Len(UserSpot) >= 1
    BY <1>1
  <2>2. UserType \in Paths /\ Len(UserType) = Len(UserSpot) + 1 /\ Under(UserSpot, UserType)
    BY <1>0, <1>1, <2>1, Longer DEF UserType
  <2>3. \A k \in 1 .. Len(UserSpot) : UserSpot[k] = UserType[k]
    BY <1>1, <2>2, UnderIs
  <2> QED
    BY <1>1, <2>2, <2>3
<1>3. /\ AppProviders \in Paths /\ Len(AppProviders) = 3
      /\ AppProviders[1] = "security" /\ AppProviders[2] = "appAuth"
  BY <1>0, NamedPaths DEF AppProviders
<1>4. ASSUME NEW i \in Names
      PROVE  /\ AppSpot(i) \in Paths /\ AppType(i) \in Paths /\ Len(AppSpot(i)) = 4 /\ Len(AppType(i)) = 5
             /\ AppSpot(i)[1] = "security" /\ AppSpot(i)[2] = "appAuth" /\ AppSpot(i)[4] = i
             /\ AppType(i)[2] = "appAuth" /\ AppType(i)[4] = i /\ Under(AppSpot(i), AppType(i))
             /\ AppType(i) = AppProviders \o <<i, "type">>
             /\ IsStrictPrefix(AppProviders, AppType(i))
  <2>1. /\ AppSpot(i) \in Paths /\ Len(AppSpot(i)) = 4 /\ Under(AppProviders, AppSpot(i))
        /\ AppSpot(i)[1] = "security" /\ AppSpot(i)[4] = i
    <3>1. Len(AppProviders) >= 1
      BY <1>3
    <3>2. /\ AppSpot(i) \in Paths /\ Len(AppSpot(i)) = Len(AppProviders) + 1 /\ Under(AppProviders, AppSpot(i))
          /\ AppSpot(i)[1] = AppProviders[1] /\ AppSpot(i)[Len(AppProviders) + 1] = i
      BY <1>3, <3>1, Longer DEF AppSpot
    <3> QED
      BY <1>3, <3>2
  <2>2. AppType(i) \in Paths /\ Len(AppType(i)) = 5 /\ Under(AppSpot(i), AppType(i))
    <3>1. Len(AppSpot(i)) >= 1
      BY <2>1
    <3>2. AppType(i) \in Paths /\ Len(AppType(i)) = Len(AppSpot(i)) + 1 /\ Under(AppSpot(i), AppType(i))
      BY <1>0, <2>1, <3>1, Longer DEF AppType
    <3> QED
      BY <2>1, <3>2
  <2>3. AppSpot(i)[2] = "appAuth"
    <3>1. \A k \in 1 .. Len(AppProviders) : AppProviders[k] = AppSpot(i)[k]
      BY <1>3, <2>1, UnderIs
    <3> QED
      BY <1>3, <3>1
  <2>4. AppType(i)[2] = "appAuth" /\ AppType(i)[4] = i
    <3>1. \A k \in 1 .. Len(AppSpot(i)) : AppSpot(i)[k] = AppType(i)[k]
      BY <2>1, <2>2, UnderIs
    <3> QED
      BY <2>1, <2>3, <3>1
  <2>5. AppType(i) = AppProviders \o <<i, "type">>
    <3>1. <<i>> \in Paths /\ <<"type">> \in Paths
      BY <1>0, NamedPaths
    <3>2. (AppProviders \o <<i>>) \o <<"type">> = AppProviders \o (<<i>> \o <<"type">>)
      BY <1>3, <3>1, ConcatAssociative DEF Paths
    <3>3. <<i>> \o <<"type">> = <<i, "type">>
      <4> DEFINE s == <<i>>
                 t == <<"type">>
                 u == <<i, "type">>
      <4>1. /\ s \in Paths /\ Len(s) = 1 /\ s[1] = i /\ t \in Paths /\ Len(t) = 1 /\ t[1] = "type"
            /\ u \in Paths /\ Len(u) = 2 /\ u[1] = i /\ u[2] = "type"
        BY <1>0, NamedPaths
      <4> HIDE DEF s, t, u
      <4>2. /\ s \o t \in Paths /\ Len(s \o t) = 2
            /\ \A k \in 1 .. 2 : (s \o t)[k] = IF k <= 1 THEN s[k] ELSE t[k - 1]
        <5>1. /\ s \o t \in Paths /\ Len(s \o t) = Len(s) + Len(t)
              /\ \A k \in 1 .. Len(s) + Len(t) : (s \o t)[k] = IF k <= Len(s) THEN s[k] ELSE t[k - Len(s)]
          BY <4>1, JoinIs
        <5>2. Len(s) = 1 /\ Len(s) + Len(t) = 2
          BY <4>1
        <5> QED
          BY <5>1, <5>2
      <4>3. \A k \in 1 .. 2 : (s \o t)[k] = u[k]
        <5>1. \A k \in 1 .. 2 : k = 1 \/ k = 2
          OBVIOUS
        <5> QED
          BY <4>1, <4>2, <5>1
      <4>4. s \o t = u
        BY <4>1, <4>2, <4>3, SamePath
      <4> QED
        BY <4>4 DEF s, t, u
    <3> QED
      BY <3>2, <3>3 DEF AppType, AppSpot
  <2>6. IsStrictPrefix(AppProviders, AppType(i))
    <3>1. Under(AppProviders, AppType(i))
      BY <1>3, <2>1, <2>2, UnderOrder
    <3> QED
      BY <1>3, <2>2, <3>1 DEF IsStrictPrefix, Under
  <2> QED
    BY <2>1, <2>2, <2>3, <2>4, <2>5, <2>6
<1> QED
  BY <1>1, <1>2, <1>3, <1>4

\* The numbers of the indices.
LEMMA NumberIs ==
  /\ \A n \in DOMAIN Indices : n \in Nat /\ Indices[n] \in Names /\ Number(Indices[n]) = n
  /\ \A i \in Range(Indices) : Number(i) \in DOMAIN Indices /\ i \in Names /\ Indices[Number(i)] = i
<1>1. Indices \in Seq(Names) /\ DOMAIN Indices = 1 .. Len(Indices) /\ Len(Indices) \in Nat
  BY EnvironmentsAssumption DEF Paths
<1>2. \A i, j \in DOMAIN Indices : Indices[i] = Indices[j] => i = j
  BY EnvironmentsAssumption
<1>3. ASSUME NEW n \in DOMAIN Indices PROVE n \in Nat /\ Indices[n] \in Names /\ Number(Indices[n]) = n
  <2>1. n \in Nat /\ Indices[n] \in Names
    BY <1>1
  <2>2. Number(Indices[n]) \in DOMAIN Indices /\ Indices[Number(Indices[n])] = Indices[n]
    BY DEF Number
  <2> QED
    BY <1>2, <2>1, <2>2
<1>4. ASSUME NEW i \in Range(Indices) PROVE Number(i) \in DOMAIN Indices /\ i \in Names /\ Indices[Number(i)] = i
  BY <1>3 DEF Range
<1> QED
  BY <1>3, <1>4

\* A profile's place is a verifier of its type, or a place that none has.
LEMMA ProfileIndexIs ==
  ASSUME NEW doc, ~IsObjectAt(doc, AppProviders), NEW type, Same(doc, type) # {} \/ Behind(doc) # {}
  PROVE  LET i == ProfileIndex(doc, type)
         IN i \in Range(Indices) /\ i \in Names /\ (i \in Same(doc, type) \/ i \notin Keys(doc, AppProviders))
<1> DEFINE i == ProfileIndex(doc, type)
           keys == Keys(doc, AppProviders)
<1>1. \A k \in keys : /\ Number(k) \in DOMAIN Indices /\ Number(k) \in Nat /\ k \in Names
                      /\ k \in Range(Indices)
  <2>1. keys \subseteq Range(Indices)
    BY DEF IsObjectAt, IsArray
  <2> QED
    BY <2>1, NumberIs
<1>2. CASE Same(doc, type) # {}
  <2> DEFINE S == Same(doc, type)
             N == {Number(k) : k \in S}
  <2>1. S \subseteq keys
    BY DEF Same
  <2> HIDE DEF S, keys
  <2>2. N \in SUBSET Nat /\ N # {}
    BY <1>1, <1>2, <2>1 DEF S
  <2>3. \E m \in N : \A n \in N : m <= n
    <3> HIDE DEF N
    <3> QED
      BY <2>2, LeastNatural
  <2>4. \E j \in S : \A k \in S : Number(j) <= Number(k)
    BY <2>3
  <2>5. i = CHOOSE j \in S : \A k \in S : Number(j) <= Number(k)
    BY <1>2 DEF ProfileIndex, S
  <2>6. i \in S
    BY <2>4, <2>5
  <2> QED
    BY <1>1, <2>1, <2>6 DEF S, i
<1>3. CASE Same(doc, type) = {}
  <2> DEFINE B == Behind(doc)
             m == Min(B)
  <2>1. B \in SUBSET Nat /\ B # {}
    BY <1>3, NumberIs DEF Behind
  <2>2. m \in B
    <3> HIDE DEF B
    <3>1. \E n \in B : \A k \in B : n <= k
      BY <2>1, LeastNatural
    <3> QED
      BY <3>1 DEF Min
  <2> HIDE DEF m
  <2>3. i = Indices[m]
    BY <1>3 DEF ProfileIndex, m
  <2>4. m \in DOMAIN Indices /\ \A k \in keys : Number(k) < m
    BY <2>2 DEF Behind
  <2>5. i \in Names /\ Number(i) = m /\ m \in Nat /\ i \in Range(Indices)
    BY <2>3, <2>4, NumberIs DEF Range
  <2> HIDE DEF i
  <2>6. i \notin keys
    BY <2>4, <2>5
  <2> QED
    BY <2>5, <2>6 DEF i
<1> QED
  BY <1>2, <1>3

\* What a profile says, once it is applied: all its fields, of one verifier.
Says(state, p) ==
  IF p.layer = "user"
    THEN state.user = p.type /\ \A f \in DOMAIN ProfileDocument(p) :
                                  Holds(state.doc, UserSpot \o f, ProfileDocument(p)[f])
    ELSE \E i \in Range(Indices) : \A f \in DOMAIN ProfileDocument(p) :
                                      Holds(state.doc, AppSpot(i) \o f, ProfileDocument(p)[f])

IsProfile(p) ==
  /\ AreFields(DOMAIN p.fields) /\ <<"type">> \notin DOMAIN p.fields /\ p.type # Null
  /\ p.enabled \in {"true", "false", "other"}

AreProfiles(list) ==
  /\ IsList(list)
  /\ \A p \in ToSet(list) : IsProfile(p)
  /\ \A i, j \in DOMAIN list : list[i].type = list[j].type => i = j

\* Where a profile is, and what it speaks about there.
PlaceOf(doc, p, spot) ==
  IF p.layer = "user" THEN spot = UserSpot
  ELSE \E i \in Range(Indices) : spot = AppSpot(i) /\ Holds(doc, AppType(i), p.type)

Spoken(doc, p, q) ==
  p.enabled = "true" /\ \E spot : PlaceOf(doc, p, spot) /\ SpeaksAt(spot, ProfileDocument(p), q)

\* What a profile is merged with is sound, and lacks at most what was there:
\* one leaf, or an array.
LEMMA KeptIs ==
  ASSUME NEW doc, Sound(doc), NEW spot
  PROVE  LET kept == IF IsObjectAt(doc, spot) THEN doc ELSE Without(doc, spot)
         IN /\ Sound(kept)
            /\ \A q \in DOMAIN doc :
                 \/ Holds(kept, q, doc[q])
                 \/ Under(spot, q) /\ (q = spot \/ q[Len(spot) + 1] \in Range(Indices))
<1>1. CASE IsObjectAt(doc, spot)
  BY <1>1 DEF Holds
<1>2. CASE ~IsObjectAt(doc, spot)
  <2>1. Sound(Without(doc, spot)) /\ \A q \in DOMAIN doc : ~Under(spot, q) => Holds(Without(doc, spot), q, doc[q])
    BY WithoutIs
  <2>2. ASSUME NEW q \in DOMAIN doc, Under(spot, q), q # spot PROVE q[Len(spot) + 1] \in Range(Indices)
    <3>1. q[Len(spot) + 1] \in Keys(doc, spot)
      BY <2>2, InArray
    <3>2. IsArray(doc, spot)
      BY <1>2, <3>1 DEF IsObjectAt
    <3> QED
      BY <2>2, <3>2, InArray
  <2> QED
    BY <1>2, <2>1, <2>2
<1> QED
  BY <1>1, <1>2

\* The fields of a profile, its type among them.
LEMMA ProfileIs ==
  ASSUME NEW p, IsProfile(p)
  PROVE  LET sub == ProfileDocument(p)
         IN Sound(sub) /\ <<"type">> \in DOMAIN sub /\ sub[<<"type">>] = p.type
<1> DEFINE sub == ProfileDocument(p)
<1>1. <<"type">> \in Paths
  <2>1. "type" \in Names
    BY DEF Names
  <2> QED
    BY <2>1, NamedPaths
<1>2. DOMAIN sub = {<<"type">>} \cup DOMAIN p.fields /\ sub[<<"type">>] = p.type
  BY DEF ProfileDocument, Overlay, Only, IsProfile
<1> HIDE DEF sub
<1> QED
  BY <1>1, <1>2 DEF Sound, AreFields, IsProfile, sub

\* What is under one of two places that are apart is not under the other.
LEMMA ApartBelow ==
  ASSUME NEW s \in Paths, NEW t \in Paths, ~Under(s, t), ~Under(t, s), NEW f \in Paths
  PROVE  ~Under(s, t \o f)
<1>1. t \o f \in Paths /\ Under(t, t \o f)
  BY JoinIs, JoinBehind
<1> QED
  BY <1>1, UnderOrder

\* The places of different verifiers are apart.
LEMMA SpotsApart ==
  ASSUME NEW i \in Names
  PROVE  /\ ~Under(UserSpot, AppSpot(i)) /\ ~Under(AppSpot(i), UserSpot)
         /\ \A j \in Names : j # i => ~Under(AppSpot(i), AppSpot(j))
<1>1. /\ UserSpot \in Paths /\ Len(UserSpot) = 2 /\ UserSpot[2] = "userAuth"
      /\ \A j \in Names : /\ AppSpot(j) \in Paths /\ Len(AppSpot(j)) = 4
                          /\ AppSpot(j)[2] = "appAuth" /\ AppSpot(j)[4] = j
  BY SpotsAre
<1>2. ~Under(UserSpot, AppSpot(i))
  <2>1. SUFFICES ASSUME Under(UserSpot, AppSpot(i)) PROVE FALSE
    OBVIOUS
  <2>2. \A k \in 1 .. Len(UserSpot) : UserSpot[k] = AppSpot(i)[k]
    BY <1>1, <2>1, UnderIs
  <2>3. UserSpot[2] = AppSpot(i)[2]
    BY <1>1, <2>2
  <2> QED
    BY <1>1, <2>3
<1>3. ~Under(AppSpot(i), UserSpot)
  BY <1>1, UnderIs
<1>4. ASSUME NEW j \in Names, j # i PROVE ~Under(AppSpot(i), AppSpot(j))
  <2>1. SUFFICES ASSUME Under(AppSpot(i), AppSpot(j)) PROVE FALSE
    OBVIOUS
  <2>2. \A k \in 1 .. Len(AppSpot(i)) : AppSpot(i)[k] = AppSpot(j)[k]
    BY <1>1, <2>1, UnderIs
  <2>3. AppSpot(i)[4] = AppSpot(j)[4]
    BY <1>1, <2>2
  <2> QED
    BY <1>1, <1>4, <2>3
<1> QED
  BY <1>2, <1>3, <1>4

\* What a profile speaks about is below `security`.
LEMMA SpokenInside ==
  ASSUME NEW doc, NEW p, IsProfile(p), NEW q \in Paths, Len(q) >= 1, Spoken(doc, p, q)
  PROVE  q[1] = "security"
<1> DEFINE sub == ProfileDocument(p)
<1>1. PICK spot : PlaceOf(doc, p, spot) /\ SpeaksAt(spot, sub, q)
  BY DEF Spoken
<1>2. spot \in Paths /\ Len(spot) >= 1 /\ spot[1] = "security"
  <2>1. \A i \in Range(Indices) : i \in Names
    BY NumberIs
  <2>2. CASE p.layer = "user"
    <3>1. spot = UserSpot
      BY <1>1, <2>2 DEF PlaceOf
    <3>2. UserSpot \in Paths /\ Len(UserSpot) = 2 /\ UserSpot[1] = "security"
      BY SpotsAre
    <3> QED
      BY <3>1, <3>2
  <2>3. CASE p.layer # "user"
    <3>1. PICK i \in Range(Indices) : spot = AppSpot(i)
      BY <1>1, <2>3 DEF PlaceOf
    <3>2. AppSpot(i) \in Paths /\ Len(AppSpot(i)) = 4 /\ AppSpot(i)[1] = "security"
      BY <2>1, SpotsAre
    <3> QED
      BY <3>1, <3>2
  <2> QED
    BY <2>2, <2>3
<1>3. Sound(sub)
  BY ProfileIs
<1> HIDE DEF sub
<1>4. PICK f \in DOMAIN sub : \/ Under(spot \o f, q) \/ Under(q, spot \o f)
                              \/ \E r \in Above(f) : Under(spot \o r, q)
  BY <1>1 DEF SpeaksAt
<1>5. ASSUME NEW r \in Paths, Under(spot \o r, q) \/ Under(q, spot \o r) PROVE q[1] = "security"
  <2>1. spot \o r \in Paths /\ Under(spot, spot \o r)
    BY <1>2, JoinIs, JoinBehind
  <2>2. (spot \o r)[1] = "security" /\ Len(spot \o r) >= 1
    BY <1>2, <2>1, Apart
  <2> QED
    BY <1>5, <2>1, <2>2, Apart
<1> QED
  BY <1>3, <1>4, <1>5, AboveArePaths DEF Sound

\* A profile that is taken says its fields, and takes the word from no other
\* type of verifier.
LEMMA ProfileStep ==
  ASSUME NEW state, state.ok => Sound(state.doc), NEW profile, IsProfile(profile),
         apply("profile", state, profile).ok
  PROVE  LET new == apply("profile", state, profile)
         IN /\ state.ok /\ Sound(new.doc)
            /\ profile.enabled = "true" => Says(new, profile)
            /\ \A q \in DOMAIN state.doc : Holds(new.doc, q, state.doc[q]) \/ Spoken(new.doc, profile, q)
            /\ \A i \in Names : \A t :
                 Holds(state.doc, AppType(i), t) /\ (t # profile.type \/ profile.enabled = "false")
                   => Holds(new.doc, AppType(i), t)
            /\ \A other : IsProfile(other) /\ Says(state, other)
                            /\ (other.type # profile.type \/ profile.enabled = "false") => Says(new, other)
<1> DEFINE type == profile.type
           user == profile.layer = "user"
           index == ProfileIndex(state.doc, type)
           spot == IF user THEN <<"security", "userAuth">> ELSE AppProviders \o <<index>>
           kept == IF IsObjectAt(state.doc, spot) THEN state.doc ELSE Without(state.doc, spot)
           sub == ProfileDocument(profile)
           doc == mergeConfigValue(kept, spot, sub)
           new == apply("profile", state, profile)
           made == [ok |-> TRUE, doc |-> doc, user |-> IF user THEN type ELSE state.user]
<1>1. new = applyProfile(state, profile)
  BY DEF apply
<1>2. state.ok
  BY <1>1 DEF applyProfile
<1>3. CASE profile.enabled = "false"
  <2>1. new = state
    BY <1>1, <1>3 DEF applyProfile
  <2> HIDE DEF new
  <2>2. \A q \in DOMAIN state.doc : Holds(state.doc, q, state.doc[q])
    BY DEF Holds
  <2> QED
    BY <1>2, <1>3, <2>1, <2>2 DEF new
<1>4. CASE profile.enabled # "false"
  <2>1. /\ new \in {Failed, made}
        /\ new # Failed /\ user => state.user \in {Null, type}
        /\ new # Failed /\ ~user => /\ ~IsObjectAt(state.doc, AppProviders)
                                    /\ Same(state.doc, type) # {} \/ Behind(state.doc) # {}
    BY <1>1, <1>2, <1>4 DEF applyProfile
  <2>2. new # Failed /\ new = made
    <3> HIDE DEF new, made
    <3>1. ~Failed.ok
      BY DEF Failed
    <3>2. new.ok
      BY DEF new
    <3> QED
      BY <2>1, <3>1, <3>2
  <2>3. new.doc = doc /\ new.user = IF user THEN type ELSE state.user
    <3> HIDE DEF new, doc, user, type
    <3> QED
      BY <2>2
  <2>4. /\ user => state.user \in {Null, type}
        /\ ~user => /\ index \in Range(Indices) /\ index \in Names
                    /\ index \in Same(state.doc, type) \/ index \notin Keys(state.doc, AppProviders)
    <3> HIDE DEF new, made
    <3>1. user => state.user \in {Null, type}
      <4> HIDE DEF user, type, index
      <4> QED
        BY <2>1, <2>2
    <3>2. ASSUME ~user
          PROVE  /\ index \in Range(Indices) /\ index \in Names
                 /\ index \in Same(state.doc, type) \/ index \notin Keys(state.doc, AppProviders)
      <4>1. ~IsObjectAt(state.doc, AppProviders) /\ (Same(state.doc, type) # {} \/ Behind(state.doc) # {})
        BY <2>1, <2>2, <3>2
      <4> HIDE DEF type
      <4> QED
        BY <4>1, ProfileIndexIs
    <3> QED
      BY <3>1, <3>2
  <2> HIDE DEF new, made, index
  <2>5. user => spot = UserSpot
    BY DEF UserSpot
  <2>6. ~user => spot = AppSpot(index)
    BY DEF AppSpot
  <2> HIDE DEF spot, user
  <2>7. spot \in Paths
    <3>1. CASE user
      BY <2>5, <3>1, SpotsAre
    <3>2. CASE ~user
      BY <2>4, <2>6, <3>2, SpotsAre
    <3> QED
      BY <3>1, <3>2
  <2>8. Sound(sub) /\ <<"type">> \in DOMAIN sub /\ sub[<<"type">>] = type
    BY ProfileIs
  <2>9. /\ Sound(kept)
        /\ \A q \in DOMAIN state.doc : \/ Holds(kept, q, state.doc[q])
                                       \/ Under(spot, q) /\ (q = spot \/ q[Len(spot) + 1] \in Range(Indices))
    BY <1>2, KeptIs
  <2> HIDE DEF kept, sub
  <2>10. /\ Sound(doc) /\ \A p \in DOMAIN sub : Holds(doc, spot \o p, sub[p])
         /\ \A q \in DOMAIN kept : ~Under(spot, q) => Holds(doc, q, kept[q])
         /\ \A q \in DOMAIN kept : ~SpeaksAt(spot, sub, q) => Holds(doc, q, kept[q])
    BY <2>7, <2>8, <2>9, MergeIs
  <2> HIDE DEF doc
  <2>11. \A q, v : Holds(state.doc, q, v) /\ ~Under(spot, q) => Holds(doc, q, v)
    BY <2>9, <2>10 DEF Holds
  <2>12. ASSUME NEW q \in DOMAIN state.doc, ~SpeaksAt(spot, sub, q) PROVE Holds(doc, q, state.doc[q])
    <3> DEFINE f == <<"type">>
    <3>1. q \in Paths /\ f \in Paths /\ f \in DOMAIN sub /\ Len(f) = 1
      BY <1>2, <2>8 DEF Sound
    <3>2. ASSUME Under(spot, q), q = spot \/ q[Len(spot) + 1] \in Range(Indices) PROVE FALSE
      <4>1. q # spot
        <5>1. Under(spot, spot \o f)
          BY <2>7, <3>1, JoinBehind
        <5> QED
          BY <2>12, <3>1, <5>1 DEF SpeaksAt
      <4>2. <<>> \in Above(f) /\ spot \o <<>> = spot
        <5>1. 0 \in 0 .. Len(f) - 1 /\ SubSeq(f, 1, 0) = <<>>
          BY <3>1
        <5>2. spot \o <<>> = spot
          BY <2>7, ConcatEmptySeq DEF Paths
        <5> QED
          BY <5>1, <5>2 DEF Above
      <4> HIDE DEF f
      <4> QED
        BY <2>12, <3>1, <3>2, <4>1, <4>2 DEF SpeaksAt
    <3>3. q \in DOMAIN kept /\ kept[q] = state.doc[q]
      BY <2>9, <3>2 DEF Holds
    <3> QED
      BY <2>10, <2>12, <3>3
  <2>13. Says(new, profile)
    <3> HIDE DEF type
    <3>1. CASE user
      BY <2>3, <2>5, <2>10, <3>1 DEF Says, user, type, sub
    <3>2. CASE ~user
      BY <2>3, <2>4, <2>6, <2>10, <3>2 DEF Says, user, type, sub
    <3> QED
      BY <3>1, <3>2
  <2>14. ASSUME NEW j \in Names, NEW t, Holds(state.doc, AppType(j), t), t # type, ~user PROVE index # j
    <3>1. SUFFICES ASSUME index = j PROVE FALSE
      OBVIOUS
    <3> DEFINE q == AppType(j)
    <3>2. /\ q[4] = j /\ q = AppProviders \o <<j, "type">>
          /\ IsStrictPrefix(AppProviders, q) /\ Len(AppProviders) = 3
      BY SpotsAre
    <3> HIDE DEF q, type, user
    <3>3. q \in {p \in DOMAIN state.doc : IsStrictPrefix(AppProviders, p)}
      BY <2>14, <3>2 DEF Holds, q
    <3>4. q[Len(AppProviders) + 1] = j
      BY <3>2
    <3>5. j \in Keys(state.doc, AppProviders)
      BY <3>3, <3>4 DEF Keys
    <3>6. Get(state.doc, AppProviders \o <<j, "type">>) = type
      BY <2>4, <2>14, <3>1, <3>5 DEF Same
    <3>7. t = type
      BY <2>14, <3>2, <3>6 DEF Get, Leaf, Holds, q
    <3> QED
      BY <2>14, <3>7
  <2>15. ASSUME NEW j \in Names, NEW t, Holds(state.doc, AppType(j), t), t # type
         PROVE  Holds(new.doc, AppType(j), t)
    <3> DEFINE f == <<"type">>
    <3>1. f \in Paths /\ AppSpot(j) \in Paths /\ UserSpot \in Paths /\ AppType(j) = AppSpot(j) \o f
      BY <2>8, SpotsAre DEF Sound, AppType
    <3> HIDE DEF f, type, user
    <3>2. ~Under(spot, AppType(j))
      <4>1. CASE user
        BY <2>5, <3>1, <4>1, SpotsApart, ApartBelow
      <4>2. CASE ~user
        <5>1. index \in Names /\ AppSpot(index) \in Paths /\ index # j
          BY <2>4, <2>14, <2>15, <4>2, SpotsAre
        <5>2. ~Under(AppSpot(index), AppSpot(j)) /\ ~Under(AppSpot(j), AppSpot(index))
          BY <5>1, SpotsApart
        <5> QED
          BY <2>6, <3>1, <4>2, <5>1, <5>2, ApartBelow
      <4> QED
        BY <4>1, <4>2
    <3> QED
      BY <2>3, <2>11, <2>15, <3>2
  <2>16. ASSUME NEW other, IsProfile(other), Says(state, other), other.type # type PROVE Says(new, other)
    <3> DEFINE wanted == ProfileDocument(other)
    <3>1. Sound(wanted) /\ <<"type">> \in DOMAIN wanted /\ wanted[<<"type">>] = other.type /\ other.type # Null
      BY <2>16, ProfileIs DEF IsProfile
    <3> HIDE DEF type, wanted
    <3>2. CASE other.layer = "user"
      <4>1. state.user = other.type /\ \A f \in DOMAIN wanted : Holds(state.doc, UserSpot \o f, wanted[f])
        BY <2>16, <3>2 DEF Says, wanted
      <4>2. ~user /\ new.user = other.type
        BY <2>3, <2>4, <2>16, <3>1, <4>1
      <4>3. ASSUME NEW f \in DOMAIN wanted PROVE Holds(doc, UserSpot \o f, wanted[f])
        <5>1. f \in Paths
          BY <3>1 DEF Sound
        <5>2. UserSpot \in Paths /\ AppSpot(index) \in Paths /\ index \in Names
          BY <2>4, <4>2, SpotsAre
        <5>3. ~Under(AppSpot(index), UserSpot \o f)
          BY <5>1, <5>2, SpotsApart, ApartBelow
        <5> QED
          BY <2>6, <2>11, <4>1, <4>2, <5>3
      <4> QED
        BY <2>3, <3>2, <4>2, <4>3 DEF Says, wanted
    <3>3. CASE other.layer # "user"
      <4>1. PICK j \in Range(Indices) : \A f \in DOMAIN wanted : Holds(state.doc, AppSpot(j) \o f, wanted[f])
        BY <2>16, <3>3 DEF Says, wanted
      <4>2. SUFFICES ASSUME NEW f \in DOMAIN wanted PROVE Holds(doc, AppSpot(j) \o f, wanted[f])
        BY <2>3, <3>3 DEF Says, wanted
      <4>3. j \in Names /\ f \in Paths /\ AppSpot(j) \in Paths /\ UserSpot \in Paths
        BY <3>1, NumberIs, SpotsAre DEF Sound
      <4>4. CASE user
        <5>1. ~Under(UserSpot, AppSpot(j) \o f)
          BY <4>3, SpotsApart, ApartBelow
        <5> QED
          BY <2>5, <2>11, <4>1, <4>4, <5>1
      <4>5. CASE ~user
        <5>1. index \in Names /\ AppSpot(index) \in Paths
          BY <2>4, <4>5, SpotsAre
        <5>2. index # j
          <6>1. Holds(state.doc, AppType(j), other.type)
            BY <3>1, <4>1 DEF AppType
          <6> QED
            BY <2>16, <2>14, <4>3, <4>5, <6>1 DEF type
        <5>3. ~Under(AppSpot(index), AppSpot(j)) /\ ~Under(AppSpot(j), AppSpot(index))
          BY <4>3, <5>1, <5>2, SpotsApart
        <5>4. ~Under(AppSpot(index), AppSpot(j) \o f)
          BY <4>3, <5>1, <5>3, ApartBelow
        <5> QED
          BY <2>6, <2>11, <4>1, <4>5, <5>4
      <4> QED
        BY <4>4, <4>5
    <3> QED
      BY <3>2, <3>3
  <2>17. profile.enabled = "true"
    <3>1. profile.enabled # "other"
      <4>1. ASSUME profile.enabled = "other" PROVE apply("profile", state, profile) = Failed
        BY <1>2, <1>4, <4>1 DEF apply, applyProfile
      <4> QED
        BY <4>1 DEF Failed
    <3> QED
      BY <1>4, <3>1 DEF IsProfile
  <2>18. PlaceOf(new.doc, profile, spot)
    <3>1. CASE user
      BY <2>5, <3>1 DEF PlaceOf, user
    <3>2. CASE ~user
      <4>1. Holds(new.doc, AppType(index), profile.type)
        <5> HIDE DEF type
        <5>1. Holds(new.doc, spot \o <<"type">>, type)
          BY <2>3, <2>8, <2>10
        <5> QED
          BY <2>6, <3>2, <5>1 DEF AppType, type
      <4> QED
        BY <2>4, <2>6, <3>2, <4>1 DEF PlaceOf, user
    <3> QED
      BY <3>1, <3>2
  <2>19. ASSUME NEW q \in DOMAIN state.doc
         PROVE  Holds(new.doc, q, state.doc[q]) \/ Spoken(new.doc, profile, q)
    BY <2>3, <2>12, <2>17, <2>18 DEF Spoken, sub
  <2> HIDE DEF type
  <2> QED
    BY <1>2, <1>4, <2>3, <2>10, <2>13, <2>16, <2>15, <2>19 DEF new, type
<1> QED
  BY <1>3, <1>4

\* After all profiles, each that is enabled is said, and nothing is lost but what
\* they speak about.
LEMMA ProfilesPhase ==
  ASSUME NEW state, state.ok => Sound(state.doc), NEW list, AreProfiles(list),
         AppliedAll("profile", state, list).ok
  PROVE  LET new == AppliedAll("profile", state, list)
         IN /\ state.ok /\ Sound(new.doc)
            /\ \A q \in DOMAIN state.doc :
                 \/ Holds(new.doc, q, state.doc[q])
                 \/ \E profile \in ToSet(list) : Spoken(new.doc, profile, q)
            /\ \A i \in 1 .. Len(list) : list[i].enabled = "true" => Says(new, list[i])
<1> DEFINE n == Len(list)
           Gone(d, k, q) == \E j \in 1 .. k : Spoken(d, list[j], q)
<1>0. /\ n \in Nat /\ \A i \in 1 .. n : list[i] \in ToSet(list) /\ IsProfile(list[i])
      /\ \A i, j \in 1 .. n : list[i].type = list[j].type => i = j
  BY ListIs DEF AreProfiles
<1>1. PICK after : CourseOf("profile", state, list, after) /\ AppliedAll("profile", state, list) = after[n]
  BY <1>0, AppliedCourse
<1> HIDE DEF n
<1>2. after[0] = state /\ \A k \in 1 .. n : after[k] = apply("profile", after[k - 1], list[k])
  BY <1>1 DEF CourseOf, n
<1> DEFINE Kept(k, q) == Holds(after[k].doc, q, state.doc[q]) \/ Gone(after[k].doc, k, q)
           Said(k, i) == list[i].enabled = "true" => Says(after[k], list[i])
           Good(k) == after[k].ok => /\ Sound(after[k].doc) /\ state.ok
                                     /\ \A q \in DOMAIN state.doc : Kept(k, q)
                                     /\ \A i \in 1 .. k : Said(k, i)
           P == {k \in 0 .. n : Good(k)}
<1>3. 0 \in P
  <2>1. \A i \in 1 .. 0 : FALSE
    OBVIOUS
  <2>2. \A q \in DOMAIN state.doc : Kept(0, q)
    BY <1>2 DEF Holds
  <2>3. Good(0)
    BY <1>2, <2>1, <2>2
  <2> QED
    BY <1>0, <2>3
<1>4. ASSUME NEW k \in 0 + 1 .. n, k - 1 \in P PROVE k \in P
  <2>1. k \in 1 .. n /\ k \in 0 .. n /\ Good(k - 1)
    BY <1>0, <1>4
  <2>2. SUFFICES ASSUME after[k].ok PROVE /\ Sound(after[k].doc) /\ state.ok
                                          /\ \A q \in DOMAIN state.doc : Kept(k, q)
                                          /\ \A i \in 1 .. k : Said(k, i)
    BY <2>1
  <2>3. /\ after[k] = apply("profile", after[k - 1], list[k])
        /\ list[k] \in ToSet(list) /\ IsProfile(list[k])
    BY <1>0, <1>2, <2>1
  <2>4. after[k - 1].ok => Sound(after[k - 1].doc)
    BY <2>1
  <2>5. /\ after[k - 1].ok /\ Sound(after[k].doc)
        /\ list[k].enabled = "true" => Says(after[k], list[k])
        /\ \A q \in DOMAIN after[k - 1].doc :
             Holds(after[k].doc, q, after[k - 1].doc[q]) \/ Spoken(after[k].doc, list[k], q)
        /\ \A i \in Names : \A t :
             Holds(after[k - 1].doc, AppType(i), t) /\ (t # list[k].type \/ list[k].enabled = "false")
               => Holds(after[k].doc, AppType(i), t)
        /\ \A other : IsProfile(other) /\ Says(after[k - 1], other)
                        /\ (other.type # list[k].type \/ list[k].enabled = "false") => Says(after[k], other)
    <3> DEFINE old == after[k - 1]
               new == apply("profile", old, list[k])
    <3>1. new.ok /\ new = after[k]
      BY <2>2, <2>3
    <3> HIDE DEF Good, Kept, Said, P
    <3>2. /\ old.ok /\ Sound(new.doc)
          /\ list[k].enabled = "true" => Says(new, list[k])
          /\ \A q \in DOMAIN old.doc : Holds(new.doc, q, old.doc[q]) \/ Spoken(new.doc, list[k], q)
          /\ \A i \in Names : \A t :
               Holds(old.doc, AppType(i), t) /\ (t # list[k].type \/ list[k].enabled = "false")
                 => Holds(new.doc, AppType(i), t)
          /\ \A other : IsProfile(other) /\ Says(old, other)
                          /\ (other.type # list[k].type \/ list[k].enabled = "false") => Says(new, other)
      <4> HIDE DEF old
      <4>1. (old.ok => Sound(old.doc)) /\ new.ok /\ IsProfile(list[k])
        <5>1. old.ok => Sound(old.doc)
          BY <2>4 DEF old
        <5>2. new.ok
          BY <3>1
        <5> HIDE DEF new
        <5> QED
          BY <2>3, <5>1, <5>2
      <4> QED
        BY <4>1, ProfileStep
    <3> HIDE DEF new
    <3> QED
      BY <3>1, <3>2
  <2>6. state.ok /\ (\A q \in DOMAIN state.doc : Kept(k - 1, q)) /\ \A i \in 1 .. k - 1 : Said(k - 1, i)
    BY <2>1, <2>5
  <2>7. ASSUME NEW q \in DOMAIN state.doc PROVE Kept(k, q)
    <3>1. CASE Gone(after[k - 1].doc, k - 1, q)
      <4>1. PICK j \in 1 .. k - 1 : Spoken(after[k - 1].doc, list[j], q)
        BY <3>1
      <4>2. j \in 1 .. k /\ j \in 1 .. n /\ list[j].type # list[k].type
        BY <1>0, <2>1, <4>1
      <4> DEFINE p == list[j]
                 old == after[k - 1].doc
                 new == after[k].doc
      <4>3. \A i \in Names : Holds(old, AppType(i), p.type) => Holds(new, AppType(i), p.type)
        BY <2>5, <4>2
      <4>4. \A i \in Range(Indices) : i \in Names
        BY NumberIs
      <4>5. Spoken(old, p, q)
        BY <4>1
      <4> HIDE DEF p, old, new
      <4>6. \A spot : PlaceOf(old, p, spot) => PlaceOf(new, p, spot)
        BY <4>3, <4>4 DEF PlaceOf
      <4>7. Spoken(new, p, q)
        BY <4>5, <4>6 DEF Spoken
      <4> QED
        BY <4>2, <4>7 DEF p, new
    <3>2. CASE Holds(after[k - 1].doc, q, state.doc[q])
      <4>1. q \in DOMAIN after[k - 1].doc /\ after[k - 1].doc[q] = state.doc[q]
        BY <3>2 DEF Holds
      <4>2. Holds(after[k].doc, q, state.doc[q]) \/ Spoken(after[k].doc, list[k], q)
        BY <2>5, <4>1
      <4>3. k \in 1 .. k
        BY <2>1
      <4> QED
        BY <4>2, <4>3
    <3> QED
      BY <2>6, <3>1, <3>2
  <2>8. ASSUME NEW i \in 1 .. k PROVE Said(k, i)
    <3>1. CASE i = k
      BY <2>5, <3>1
    <3>2. CASE i # k
      <4>1. i \in 1 .. k - 1 /\ i \in 1 .. n
        BY <1>0, <2>1, <3>2
      <4>2. Said(k - 1, i) /\ IsProfile(list[i])
        BY <1>0, <2>6, <4>1
      <4>3. list[i].type # list[k].type
        BY <1>0, <2>1, <3>2, <4>1
      <4> QED
        BY <2>5, <4>2, <4>3
    <3> QED
      BY <3>1, <3>2
  <2> QED
    BY <2>5, <2>6, <2>7, <2>8
<1>5. n \in P
  <2> HIDE DEF P
  <2> QED
    BY <1>0, <1>3, <1>4, CountingUp
<1>6. Good(n)
  BY <1>5
<1>7. \A d, q : Gone(d, n, q) => \E profile \in ToSet(list) : Spoken(d, profile, q)
  BY <1>0
<1> HIDE DEF Gone
<1> QED
  BY <1>1, <1>6, <1>7 DEF n

\* Nothing is lost on the way from a document to what the settings make of it.
EnvParts(e) ==
  /\ AreItems(e.blocks) /\ AreItems(Settings(e)) /\ AreProfiles(e.profiles)
  /\ AreFields(DOMAIN e.storage) /\ AreFields(DOMAIN e.target)

\* The lists of an environment are what the phases need.
LEMMA EnvironmentParts ==
  ASSUME NEW e \in Environments
  PROVE  EnvParts(e)
<1>1. /\ \A list \in {e.blocks, e.profiles, e.simple, e.paths} : IsList(list)
      /\ \A list \in {e.blocks, e.simple, e.paths} : \A item \in ToSet(list) :
           item.path \in Paths /\ DOMAIN item.sub \subseteq Paths
      /\ AreFields(DOMAIN e.storage) /\ AreFields(DOMAIN e.target)
      /\ \A profile \in ToSet(e.profiles) : /\ AreFields(DOMAIN profile.fields)
                                             /\ <<"type">> \notin DOMAIN profile.fields
                                             /\ profile.type # Null
                                             /\ profile.enabled \in {"true", "false", "other"}
      /\ \A i, j \in DOMAIN e.profiles : e.profiles[i].type = e.profiles[j].type => i = j
  BY EnvironmentsAssumption
<1>2. AreItems(e.blocks) /\ AreItems(e.simple) /\ AreItems(e.paths) /\ AreProfiles(e.profiles)
  BY <1>1 DEF AreItems, AreProfiles, IsProfile, Sound
<1>3. AreItems(Settings(e))
  <2> DEFINE a == e.simple
             b == e.paths
             A == ToSet(a)
             B == ToSet(b)
             c == a \o b
  <2>1. a \in Seq(A) /\ b \in Seq(B) /\ \A item \in A \cup B : item.path \in Paths /\ Sound(item.sub)
    BY <1>2 DEF AreItems, IsList
  <2>2. a \in Seq(A \cup B) /\ b \in Seq(A \cup B)
    <3> HIDE DEF a, b, A, B
    <3> QED
      BY <2>1, SeqMonotonic
  <2> HIDE DEF a, b, A, B
  <2>3. c \in Seq(A \cup B)
    BY <2>2
  <2> HIDE DEF c
  <2>4. DOMAIN c = 1 .. Len(c) /\ Len(c) \in Nat /\ \A i \in 1 .. Len(c) : c[i] \in A \cup B
    BY <2>3
  <2>5. ToSet(c) = {c[i] : i \in 1 .. Len(c)}
    BY <2>4 DEF ToSet
  <2>6. ToSet(c) \subseteq A \cup B
    BY <2>4, <2>5
  <2>7. c \in Seq(ToSet(c))
    BY <2>3, <2>4, <2>5
  <2> QED
    BY <2>1, <2>6, <2>7 DEF AreItems, IsList, Settings, c, a, b
<1> QED
  BY <1>1, <1>2, <1>3 DEF EnvParts

\* What the variables make, phase by phase.
LEMMA AllHeard ==
  ASSUME NEW e, EnvParts(e), env = e, environmentConfigDocument(e).ok
  PROVE  LET doc == environmentConfigDocument(e).doc
         IN BlocksHeard(doc) /\ ShortcutsHeard(doc) /\ ProfilesHeard(doc) /\ ValuesHeard(doc)
<1> DEFINE start == Doc(Empty)
           blocks == AppliedAll("block", start, e.blocks)
           storage == applyStorageValues(blocks, e.storage)
           target == applyTargetValues(storage, e.target)
           profiles == AppliedAll("profile", target, e.profiles)
           list == Settings(e)
           made == AppliedAll("value", profiles, list)
           doc == made.doc
<1>1. environmentConfigDocument(e) = made
  BY DEF environmentConfigDocument, Settings
<1>2. start.ok /\ DOMAIN start.doc = {}
  BY DEF Doc, Empty
<1>3. /\ AreItems(e.blocks) /\ AreItems(list) /\ AreProfiles(e.profiles)
      /\ AreFields(DOMAIN e.storage) /\ AreFields(DOMAIN e.target)
  BY DEF EnvParts
<1> HIDE DEF start, list
<1>4. blocks.ok => /\ Sound(blocks.doc)
                   /\ \A i \in 1 .. Len(e.blocks) : \A p \in DOMAIN e.blocks[i].sub :
                        \/ Holds(blocks.doc, e.blocks[i].path \o p, e.blocks[i].sub[p])
                        \/ \E j \in i + 1 .. Len(e.blocks) : Speaks(e.blocks[j], e.blocks[i].path \o p)
  BY <1>2, <1>3, BlocksPhase
<1> HIDE DEF blocks
<1>5. storage.ok => /\ blocks.ok /\ Sound(storage.doc)
                    /\ \A f \in DOMAIN e.storage : Holds(storage.doc, <<"storage">> \o f, e.storage[f])
                    /\ \A q \in DOMAIN blocks.doc :
                         \/ Holds(storage.doc, q, blocks.doc[q])
                         \/ \E f \in DOMAIN e.storage : Under(<<"storage">> \o f, q)
  <2>1. blocks.ok => Sound(blocks.doc)
    BY <1>4
  <2> QED
    BY <1>3, <2>1, StorageStep
<1> HIDE DEF storage
<1>6. target.ok =>
        /\ storage.ok /\ Sound(target.doc)
        /\ DOMAIN e.target = {} => \A q \in DOMAIN storage.doc : Holds(target.doc, q, storage.doc[q])
        /\ DOMAIN e.target # {} =>
             \E id : /\ TargetTold(target.doc, e.target, id)
                     /\ \A q \in DOMAIN storage.doc :
                          Holds(target.doc, q, storage.doc[q]) \/ TargetTakes(e.target, id, q)
  <2>1. storage.ok => Sound(storage.doc)
    BY <1>5
  <2>2. CASE DOMAIN e.target = {}
    <3>1. target = storage
      BY <2>2 DEF applyTargetValues
    <3> QED
      BY <2>1, <2>2, <3>1 DEF Holds
  <2>3. CASE DOMAIN e.target # {}
    BY <1>3, <2>1, <2>3, TargetStep
  <2> QED
    BY <2>2, <2>3
<1> HIDE DEF target
<1>7. profiles.ok =>
        /\ target.ok /\ Sound(profiles.doc)
        /\ \A q \in DOMAIN target.doc :
             \/ Holds(profiles.doc, q, target.doc[q])
             \/ \E profile \in ToSet(e.profiles) : Spoken(profiles.doc, profile, q)
        /\ \A i \in 1 .. Len(e.profiles) : e.profiles[i].enabled = "true" => Says(profiles, e.profiles[i])
  <2>1. target.ok => Sound(target.doc)
    BY <1>6
  <2> QED
    BY <1>3, <2>1, ProfilesPhase
<1> HIDE DEF profiles
<1>8. /\ profiles.ok
      /\ \A q \in DOMAIN profiles.doc : Holds(doc, q, profiles.doc[q]) \/ Touches(list, q)
      /\ \A i \in 1 .. Len(list) : \A p \in DOMAIN list[i].sub :
           \/ Holds(doc, list[i].path \o p, list[i].sub[p])
           \/ Touches(Later(list, i), list[i].path \o p)
  <2>1. profiles.ok => Sound(profiles.doc)
    BY <1>7
  <2>2. made.ok
    BY <1>1
  <2> QED
    BY <1>3, <2>1, <2>2, ValuesPhase
<1> HIDE DEF made
<1>9. blocks.ok /\ storage.ok /\ target.ok /\ profiles.ok
  BY <1>5, <1>6, <1>7, <1>8
<1>10. /\ DOMAIN e.blocks = 1 .. Len(e.blocks) /\ DOMAIN e.profiles = 1 .. Len(e.profiles)
       /\ DOMAIN list = 1 .. Len(list)
  BY <1>3, ListIs DEF AreItems, AreProfiles
<1>11. \A d, q, v : Holds(d, q, v) => Get(d, q) = v
  BY DEF Holds, Get, Leaf
<1>14. ASSUME NEW q \in Paths, NEW s \in Paths, Under(s, q), Touches(list, q) PROVE Touches(list, s)
  <2>1. PICK item \in ToSet(list) : Under(item.path, q) \/ Under(q, item.path)
    BY <1>14 DEF Touches
  <2>2. item.path \in Paths
    BY <1>3 DEF AreItems
  <2>3. Under(item.path, s) \/ Under(s, item.path)
    BY <1>14, <2>1, <2>2, UnderOrder
  <2> QED
    BY <2>3 DEF Touches
<1>16. ASSUME NEW q \in Paths, Len(q) >= 1, q[1] # "security"
       PROVE  \A profile \in ToSet(e.profiles) : ~Spoken(profiles.doc, profile, q)
  <2>1. \A profile \in ToSet(e.profiles) : IsProfile(profile)
    BY <1>3 DEF AreProfiles
  <2> QED
    BY <1>16, <2>1, SpokenInside
<1>18. ASSUME NEW id, TargetTold(target.doc, e.target, id), ~Touches(list, Target)
       PROVE  targetProvider(doc) = id
  <2> DEFINE named == Target \o <<"provider">>
  <2>1. /\ named \in Paths /\ Target \in Paths /\ named[1] = "routing" /\ Under(Target, named)
        /\ Len(named) = 5
    BY TargetIs
  <2> HIDE DEF named
  <2>2. Holds(target.doc, named, id)
    BY <1>18 DEF TargetTold, Holds, Get, Leaf, named
  <2>3. Holds(profiles.doc, named, id)
    <3>1. \A profile \in ToSet(e.profiles) : ~Spoken(profiles.doc, profile, named)
      <4>1. Len(named) >= 1 /\ named[1] # "security"
        BY <2>1
      <4> QED
        BY <1>16, <2>1, <4>1
    <3> QED
      BY <1>7, <1>9, <2>2, <3>1 DEF Holds
  <2>4. ~Touches(list, named)
    BY <1>14, <1>18, <2>1
  <2>5. Get(doc, named) = id
    BY <1>8, <1>11, <2>3, <2>4 DEF Holds
  <2> QED
    BY <1>18, <2>5 DEF targetProvider, TargetTold, named
<1>19. ASSUME NEW p \in ToSet(e.profiles), NEW spot, PlaceOf(profiles.doc, p, spot)
       PROVE  spot \in Verifiers(doc, p)
  <2>1. CASE p.layer = "user"
    BY <1>19, <2>1 DEF PlaceOf, Verifiers, UserSpot
  <2>2. CASE p.layer # "user"
    <3>1. PICK i \in Range(Indices) : spot = AppSpot(i) /\ Holds(profiles.doc, AppType(i), p.type)
      BY <1>19, <2>2 DEF PlaceOf
    <3>2. i \in Names /\ AppType(i) = AppProviders \o <<i, "type">>
      BY NumberIs, SpotsAre
    <3>3. Get(doc, AppType(i)) = p.type \/ Touches(list, AppType(i))
      BY <1>8, <1>11, <3>1 DEF Holds
    <3>4. \/ Get(doc, AppProviders \o <<i, "type">>) = p.type
          \/ Touches(Settings(env), AppProviders \o <<i, "type">>)
      BY <3>2, <3>3 DEF list
    <3> HIDE DEF doc
    <3> QED
      BY <2>2, <3>1, <3>4 DEF Verifiers, AppSpot
  <2> QED
    BY <2>1, <2>2
<1>20. ASSUME NEW id, TargetTold(target.doc, e.target, id), NEW q \in Paths, TargetTakes(e.target, id, q)
       PROVE  DOMAIN e.target # {} => TargetSpeaks(doc, q)
  <2>1. CASE \E f \in {<<"provider">>} \cup (DOMAIN e.target \cap {<<"model">>}) : Under(Target \o f, q)
    BY <2>1 DEF TargetSpeaks
  <2>2. CASE \E f \in DOMAIN Supplied(e.target) \ {<<"model">>} : Under(<<"providers", id>> \o f, q)
    <3>1. PICK f \in DOMAIN Supplied(e.target) \ {<<"model">>} : Under(<<"providers", id>> \o f, q)
      BY <2>2
    <3> DEFINE s == <<"providers", id>>
    <3>2. s \in Paths /\ Len(s) = 2 /\ s[1] = "providers" /\ s[2] = id
      <4>1. "providers" \in Names /\ id \in Names
        BY <1>20 DEF Names, TargetTold
      <4> QED
        BY <4>1, NamedPaths
    <3>3. f \in Paths /\ Len(f) = 1
      BY <1>3 DEF AreFields, Supplied, Restrict
    <3>9. Under(s \o f, q)
      BY <3>1
    <3> HIDE DEF s
    <3>4. s \o f \in Paths /\ Len(s \o f) = 3 /\ Under(s, s \o f)
      <4>1. s \o f \in Paths /\ Len(s \o f) = Len(s) + Len(f)
        BY <3>2, <3>3, JoinIs
      <4>2. Under(s, s \o f)
        BY <3>2, <3>3, JoinBehind
      <4> QED
        BY <3>2, <3>3, <4>1, <4>2
    <3>5. Len(q) > 2 /\ Under(s, q) /\ Len(q) \in Nat
      <4>1. Len(s \o f) <= Len(q) /\ Len(q) \in Nat
        <5>1. Len(s \o f) <= Len(q)
          BY <3>4, <3>9, UnderIs
        <5> QED
          BY <5>1 DEF Paths
      <4>2. Under(s, q)
        BY <3>2, <3>4, <3>9, UnderOrder
      <4> QED
        BY <3>4, <4>1, <4>2
    <3>6. q[2] = id
      <4>1. \A k \in 1 .. Len(s) : s[k] = q[k]
        BY <3>2, <3>5, UnderIs
      <4> QED
        BY <3>2, <4>1
    <3>7. Under(<<"providers", q[2]>> \o f, q)
      BY <3>1, <3>6
    <3>8. q[2] = targetProvider(doc) \/ Touches(Settings(env), Target)
      BY <1>18, <1>20, <3>6 DEF list
    <3> HIDE DEF doc
    <3> QED
      BY <3>1, <3>5, <3>7, <3>8 DEF TargetSpeaks
  <2> QED
    BY <1>20, <2>1, <2>2 DEF TargetTakes
<1>21. ASSUME NEW p \in ToSet(e.profiles), NEW q, Spoken(profiles.doc, p, q) PROVE ProfileSpeaks(doc, q)
  <2>1. PICK spot : PlaceOf(profiles.doc, p, spot) /\ SpeaksAt(spot, ProfileDocument(p), q)
    BY <1>21 DEF Spoken
  <2>2. spot \in Verifiers(doc, p)
    BY <1>19, <2>1
  <2>3. Speaks([path |-> spot, sub |-> ProfileDocument(p)], q)
    BY <2>1 DEF Speaks, SpeaksAt
  <2> HIDE DEF doc
  <2> QED
    BY <1>21, <2>2, <2>3 DEF ProfileSpeaks, Spoken
<1>12. BlocksHeard(doc)
  <2> SUFFICES ASSUME NEW i \in 1 .. Len(e.blocks), NEW p \in DOMAIN e.blocks[i].sub
               PROVE  LET at == e.blocks[i].path \o p
                      IN \/ Get(doc, at) = e.blocks[i].sub[p] \/ Touches(Settings(e), at)
                         \/ \E j \in i + 1 .. Len(e.blocks) : Speaks(e.blocks[j], at)
                         \/ StorageSpeaks(at) \/ TargetSpeaks(doc, at) \/ ProfileSpeaks(doc, at)
    BY <1>10 DEF BlocksHeard
  <2> DEFINE at == e.blocks[i].path \o p
             v == e.blocks[i].sub[p]
  <2>1. Holds(blocks.doc, at, v) \/ \E j \in i + 1 .. Len(e.blocks) : Speaks(e.blocks[j], at)
    BY <1>4, <1>9
  <2> HIDE DEF at, v
  <2>2. Holds(blocks.doc, at, v) => Holds(storage.doc, at, v) \/ StorageSpeaks(at)
    BY <1>5, <1>9 DEF Holds, StorageSpeaks
  <2>3. ASSUME Holds(storage.doc, at, v) PROVE Holds(target.doc, at, v) \/ TargetSpeaks(doc, at)
    <3>1. CASE DOMAIN e.target = {}
      BY <1>6, <1>9, <2>3, <3>1 DEF Holds
    <3>2. CASE DOMAIN e.target # {}
      <4>1. at \in Paths
        BY <1>5, <1>9, <2>3 DEF Holds, Sound
      <4>2. PICK id : /\ TargetTold(target.doc, e.target, id)
                      /\ \A q \in DOMAIN storage.doc :
                           Holds(target.doc, q, storage.doc[q]) \/ TargetTakes(e.target, id, q)
        BY <1>6, <1>9, <3>2
      <4>3. Holds(target.doc, at, v) \/ TargetTakes(e.target, id, at)
        BY <2>3, <4>2 DEF Holds
      <4> HIDE DEF doc
      <4> QED
        BY <1>20, <3>2, <4>1, <4>2, <4>3
    <3> QED
      BY <3>1, <3>2
  <2>4. Holds(target.doc, at, v) => Holds(profiles.doc, at, v) \/ ProfileSpeaks(doc, at)
    <3> HIDE DEF doc
    <3> QED
      BY <1>7, <1>9, <1>21 DEF Holds
  <2>5. Holds(profiles.doc, at, v) => Get(doc, at) = v \/ Touches(list, at)
    BY <1>8, <1>11 DEF Holds
  <2> HIDE DEF doc
  <2> QED
    BY <2>1, <2>2, <2>3, <2>4, <2>5 DEF at, v, list
<1>13. ValuesHeard(doc)
  <2> SUFFICES ASSUME NEW i \in 1 .. Len(list), NEW p \in DOMAIN list[i].sub
               PROVE  LET at == list[i].path \o p
                      IN Get(doc, at) = list[i].sub[p] \/ Touches(Later(list, i), at)
    BY <1>10 DEF ValuesHeard, list
  <2> QED
    BY <1>8, <1>11
<1>15. ProfilesHeard(doc)
  <2> SUFFICES ASSUME NEW profile \in ToSet(e.profiles), profile.enabled = "true"
               PROVE  LET wanted == ProfileDocument(profile)
                      IN \E spot \in Verifiers(doc, profile) : \A f \in DOMAIN wanted :
                           Get(doc, spot \o f) = wanted[f] \/ Touches(list, spot \o f)
    BY DEF ProfilesHeard, list
  <2> DEFINE wanted == ProfileDocument(profile)
  <2>1. <<"type">> \in DOMAIN wanted /\ wanted[<<"type">>] = profile.type
    <3>1. IsProfile(profile)
      BY <1>3 DEF AreProfiles
    <3> QED
      BY <3>1, ProfileIs
  <2>2. Says(profiles, profile)
    <3>1. PICK i \in 1 .. Len(e.profiles) : profile = e.profiles[i]
      BY <1>10 DEF ToSet
    <3> QED
      BY <1>7, <1>9, <3>1
  <2>3. \E spot : PlaceOf(profiles.doc, profile, spot)
                  /\ \A f \in DOMAIN wanted : Holds(profiles.doc, spot \o f, wanted[f])
    <3>1. CASE profile.layer = "user"
      BY <2>2, <3>1 DEF Says, PlaceOf
    <3>2. CASE profile.layer # "user"
      <4>1. PICK i \in Range(Indices) : \A f \in DOMAIN wanted : Holds(profiles.doc, AppSpot(i) \o f, wanted[f])
        BY <2>2, <3>2 DEF Says
      <4> HIDE DEF wanted
      <4>2. Holds(profiles.doc, AppType(i), profile.type)
        BY <2>1, <4>1 DEF AppType
      <4> QED
        BY <3>2, <4>1, <4>2 DEF PlaceOf
    <3> QED
      BY <3>1, <3>2
  <2> HIDE DEF wanted
  <2>4. \A q, v : Holds(profiles.doc, q, v) => Get(doc, q) = v \/ Touches(list, q)
    BY <1>8, <1>11 DEF Holds
  <2> HIDE DEF doc
  <2> QED
    BY <1>19, <2>3, <2>4 DEF wanted
<1>17. ShortcutsHeard(doc)
  <2>1. ASSUME NEW f \in DOMAIN e.storage
        PROVE  Get(doc, <<"storage">> \o f) = e.storage[f] \/ Touches(Settings(e), <<"storage">> \o f)
    <3> DEFINE at == <<"storage">> \o f
               v == e.storage[f]
    <3>1. Holds(storage.doc, at, v)
      BY <1>5, <1>9
    <3>2. at[1] = "storage"
      <4>1. "storage" \in Names /\ f \in Paths
        BY <1>3 DEF Names, AreFields
      <4> QED
        BY <4>1, TailIs
    <3>3. at \in Paths
      BY <1>5, <1>9, <3>1 DEF Holds, Sound
    <3> HIDE DEF at, v
    <3>4. Len(at) >= 1
      BY <1>3, <3>3, Apart, JoinBehind, NamedPaths DEF at, AreFields
    <3>5. Holds(target.doc, at, v)
      <4>1. CASE DOMAIN e.target = {}
        BY <1>6, <1>9, <3>1, <4>1 DEF Holds
      <4>2. CASE DOMAIN e.target # {}
        <5>1. PICK id : /\ TargetTold(target.doc, e.target, id)
                        /\ \A q \in DOMAIN storage.doc :
                             Holds(target.doc, q, storage.doc[q]) \/ TargetTakes(e.target, id, q)
          BY <1>6, <1>9, <4>2
        <5>2. ~TargetTakes(e.target, id, at)
          <6> DEFINE s == <<"providers", id>>
          <6>1. ASSUME NEW t \in Paths, Len(t) >= 1, t[1] # "storage", NEW g \in Paths PROVE ~Under(t \o g, at)
            <7>1. t \o g \in Paths /\ Under(t, t \o g)
              BY <6>1, JoinIs, JoinBehind
            <7>2. (t \o g)[1] # "storage" /\ Len(t \o g) >= 1
              BY <6>1, <7>1, Apart
            <7> QED
              BY <3>2, <3>3, <7>1, <7>2, Apart
          <6>2. Target \in Paths /\ Len(Target) >= 1 /\ Target[1] # "storage"
            BY TargetIs
          <6>3. s \in Paths /\ Len(s) >= 1 /\ s[1] # "storage"
            <7>1. "providers" \in Names /\ id \in Names
              BY <5>1 DEF Names, TargetTold
            <7> QED
              BY <7>1, NamedPaths
          <6>4. \A g \in {<<"provider">>} \cup DOMAIN e.target : g \in Paths
            <7>1. "provider" \in Names
              BY DEF Names
            <7> QED
              BY <1>3, <7>1, NamedPaths DEF AreFields
          <6>5. DOMAIN Supplied(e.target) \subseteq DOMAIN e.target
            BY DEF Supplied, Restrict
          <6> HIDE DEF s
          <6>6. \A g \in {<<"provider">>} \cup (DOMAIN e.target \cap {<<"model">>}) : ~Under(Target \o g, at)
            BY <6>1, <6>2, <6>4
          <6>7. \A g \in DOMAIN Supplied(e.target) \ {<<"model">>} : ~Under(s \o g, at)
            BY <6>1, <6>3, <6>4, <6>5
          <6> QED
            BY <6>6, <6>7 DEF TargetTakes, s
        <5> QED
          BY <3>1, <5>1, <5>2 DEF Holds
      <4> QED
        BY <4>1, <4>2
    <3>6. Holds(profiles.doc, at, v)
      BY <1>7, <1>9, <1>16, <3>2, <3>3, <3>4, <3>5 DEF Holds
    <3> QED
      BY <1>8, <1>11, <3>6 DEF Holds, at, v, list
  <2>2. ASSUME NEW f \in DOMAIN e.target, ~(f = <<"apiKey">> /\ e.target[f] = ""), ~Touches(Settings(e), Target)
        PROVE  Get(doc, OptionAt(doc, f)) = e.target[f] \/ Touches(Settings(e), OptionAt(doc, f))
    <3>1. PICK id : TargetTold(target.doc, e.target, id)
      BY <1>6, <1>9, <2>2
    <3>7. targetProvider(doc) = id
      BY <1>18, <2>2, <3>1 DEF list
    <3> DEFINE at == OptionAt(doc, f)
    <3>8. Holds(target.doc, at, e.target[f])
      <4>1. \/ f = <<"model">> /\ Holds(target.doc, Target \o f, e.target[f])
            \/ f # <<"model">> /\ Holds(target.doc, <<"providers", id>> \o f, e.target[f])
        BY <2>2, <3>1 DEF TargetTold
      <4> QED
        BY <3>7, <4>1 DEF OptionAt
    <3>9. at \in Paths /\ Len(at) >= 1 /\ at[1] # "security"
      <4> DEFINE s == <<"providers", id>>
                 t == IF f = <<"model">> THEN Target ELSE s
      <4>1. "providers" \in Names /\ id \in Names /\ f \in Paths
        BY <1>3, <3>1 DEF Names, AreFields, TargetTold
      <4>2. s \in Paths /\ Len(s) = 2 /\ s[1] = "providers"
        BY <4>1, NamedPaths
      <4>3. Target \in Paths /\ Len(Target) = 4 /\ Target[1] = "routing"
        BY TargetIs
      <4>4. at = t \o f
        BY <3>7 DEF OptionAt
      <4> HIDE DEF s, at
      <4>5. t \in Paths /\ Len(t) >= 1 /\ t[1] # "security"
        <5>1. t = Target \/ t = s
          OBVIOUS
        <5> HIDE DEF t
        <5> QED
          BY <4>2, <4>3, <5>1
      <4> HIDE DEF t
      <4>6. at \in Paths /\ Under(t, at)
        BY <4>1, <4>4, <4>5, JoinIs, JoinBehind
      <4> QED
        BY <4>5, <4>6, Apart
    <3> HIDE DEF at
    <3>10. Holds(profiles.doc, at, e.target[f])
      BY <1>7, <1>9, <1>16, <3>8, <3>9 DEF Holds
    <3>11. Get(doc, at) = e.target[f] \/ Touches(list, at)
      BY <1>8, <1>11, <3>10 DEF Holds
    <3> QED
      BY <3>11 DEF at, list
  <2> QED
    BY <2>1, <2>2 DEF ShortcutsHeard
<1> QED
  BY <1>1, <1>12, <1>13, <1>15, <1>17

\* What is built is what these variables make.
BuiltInv ==
  built # Null => /\ env \in Environments
                  /\ built.ok = environmentConfigDocument(env).ok
                  /\ built.doc = environmentConfigDocument(env).doc

\* It is built once, of the variables that the process was started with.
LEMMA StartKeeps ==
  ASSUME env \in Environments \cup {Null}, BuiltInv, [EnvNext]_envVars
  PROVE  env' \in Environments \cup {Null} /\ BuiltInv'
<1>1. CASE UNCHANGED envVars
  BY <1>1 DEF envVars, BuiltInv
<1>2. CASE EnvNext
  <2> DEFINE made == environmentConfigDocument(env)
  <2>1. /\ env # Null /\ env' = env
        /\ built' = [from   |-> IF hasEnvironmentConfig(env) THEN "environment" ELSE "store",
                     ok     |-> made.ok, doc |-> made.doc,
                     serves |-> /\ made.ok /\ ~Missing(made.doc, env)
                                /\ buildBundle(interpolateDeep(made.doc, env))]
    BY <1>2 DEF EnvNext, Start
  <2> HIDE DEF made
  <2>2. built'.ok = made.ok /\ built'.doc = made.doc
    BY <2>1
  <2> QED
    BY <2>1, <2>2 DEF BuiltInv, made
<1> QED
  BY <1>1, <1>2

\* EveryVariableHeard (core/src/config/env.ts: environmentConfigDocument): of
\* any number of variables of each kind, none is lost without a word: each
\* value is in the document, unless a later variable is about the same place.
THEOREM NothingIsLost == GatewaySpec => []EveryVariableHeard
<1> DEFINE Inv == env \in Environments \cup {Null} /\ BuiltInv
<1>1. GatewayInit => Inv
  BY DEF GatewayInit, ControlInit, ControlOff, EnvInit, EnvOff, BuiltInv
<1>2. [GatewayNext]_gatewayVars => [EnvNext]_envVars
  BY DEF GatewayNext, ControlNext, gatewayVars, controlVars, envVars
<1>3. Inv /\ [EnvNext]_envVars => Inv'
  BY StartKeeps
<1>4. Inv => EveryVariableHeard
  <2> SUFFICES ASSUME Inv, built # Null, built.ok
               PROVE  /\ BlocksHeard(built.doc) /\ ShortcutsHeard(built.doc)
                      /\ ProfilesHeard(built.doc) /\ ValuesHeard(built.doc)
    BY DEF EveryVariableHeard
  <2>1. /\ env \in Environments /\ environmentConfigDocument(env).ok
        /\ built.doc = environmentConfigDocument(env).doc
    BY DEF BuiltInv
  <2>2. EnvParts(env)
    BY <2>1, EnvironmentParts
  <2> QED
    BY <2>1, <2>2, AllHeard
<1> QED
  BY <1>1, <1>2, <1>3, <1>4, PTL DEF GatewaySpec
=============================================================================
