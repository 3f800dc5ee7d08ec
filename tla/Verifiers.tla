----------------------------- MODULE Verifiers -----------------------------
(***************************************************************************)
(* The user and application verifiers: packages/core/src/auth, with the    *)
(* storage adapters of core/src/storage/memory.ts and postgres/src/        *)
(* storage.ts under App Attest.                                            *)
(*                                                                         *)
(* What the outside does (a signature, a key set, Google, Apple or         *)
(* Cloudflare) is an input: `answer` says how the call ended, `defects`    *)
(* what is wrong with the credential.  Two scenes: one credential checked  *)
(* by one verifier, and App Attest calls that interleave.                  *)
(***************************************************************************)
EXTENDS Absence, Integers, Sequences, FiniteSets

CONSTANTS Presented,   \* the credentials, each with its verifier and what the outside does
          Callers,     \* App Attest callers
          Challenges,  \* App Attest challenges
          Assertions   \* [challenge, counter, good] a device signed; replays share one

(* Whether a repeated redemption is a duplicate is Siteverify's to say.    *)
ASSUME VerifierAssumption ==
  /\ Null \notin {"refused", "answered", "duplicate"}
  /\ \A c \in Presented : "duplicate" \notin {c.attempts[1], c.attempts[2]}

VARIABLES
  presented, verdict,        \* one credential and its result
  store,                     \* App Attest rows: the key's counter, challenges, claims
  issued,                    \* challenges that were handed out
  calls                      \* the App Attest calls

verifierVars == <<presented, verdict, store, issued, calls>>

Idle == [step |-> "idle", assertion |-> Null, challenge |-> Null, stored |-> Null]

EmptyStore == [key |-> Null, challenges |-> {}, claims |-> [c \in Challenges |-> 0]]

NobodyCalls == issued = Challenges /\ calls = [p \in Callers |-> [Idle EXCEPT !.step = "off"]]

VerifyInit == /\ verdict = Null /\ store = EmptyStore
              /\ \/ presented \in Presented /\ NobodyCalls
                 \/ presented = Null /\ issued = {} /\ calls = [p \in Callers |-> Idle]

VerifyOff == presented = Null /\ verdict = Null /\ store = EmptyStore /\ NobodyCalls

-----------------------------------------------------------------------------
(* Signed tokens *)

TokenVerifiers == {"jwt", "supabase", "firebase-auth", "firebase-app-check", "aws-cognito", "clerk"}

(* A header that is absent, empty or of another scheme presents nothing. *)
extractToken(header) == IF header = "token" THEN "token" ELSE Null

(* A library error is taken for a bad token; any other is rethrown, and    *)
(* answered with a 500.                                                    *)
invalidTokenResult(answer) == IF answer = "unreachable" THEN "throws" ELSE "refused"

(* The errors that speak of the token itself. *)
isInvalidTokenError(answer) == answer = "bad token"

Unavailable(answer) ==
  IF isInvalidTokenError(answer) THEN invalidTokenResult(answer) ELSE "unavailable"

(* `answer` is "valid", "bad token", "key set" (a key set that times out,  *)
(* or is answered with an error or with something else) or "unreachable".  *)
Reached(c) == c.answer \in {"valid", "bad token"}

(* The key set, asked by a test of the configuration.  "ok", "failed", or  *)
(* "undecided" where only a real token can tell.                           *)
testJwks(c, allowEmpty) ==
  IF Reached(c) /\ (c.empty => allowEmpty) THEN "ok" ELSE "failed"

Undecided(result) == IF result = "ok" THEN "undecided" ELSE "failed"

(* A token whose signature and standard claims hold is refused for a       *)
(* defect that this verifier looks at.                                     *)
Checked(c, failure, looksAt, rest) ==
  IF c.answer # "valid" THEN failure
  ELSE IF c.defects \cap looksAt # {} THEN "refused" ELSE rest

(* What create() returns: how a token is verified, and how the             *)
(* configuration is tested.  A key of their own makes the test local.      *)
jwt(c) ==
  [verify |-> Checked(c, invalidTokenResult(c.answer), {}, "ok"),
   test   |-> IF c.local THEN "ok" ELSE testJwks(c, FALSE)]

supabase(c) ==
  [verify |-> Checked(c, invalidTokenResult(c.answer), {}, "ok"),
   test   |-> IF c.local THEN "ok" ELSE testJwks(c, TRUE)]

(* Tested with the project's configuration, or else with the key set. *)
firebaseAuth(c) ==
  [verify |-> Checked(c, invalidTokenResult(c.answer), {"subject"}, "ok"),
   test   |-> IF c.local THEN Undecided(testJwks(c, FALSE))
              ELSE IF Reached(c) /\ "project" \notin c.defects THEN "ok" ELSE "failed"]

(* A token may have to be consumed, which its issuer does once. *)
firebaseAppCheck(c) ==
  LET consumed == CASE c.consume \in {Null, "first"} -> "ok"
                    [] c.consume = "again" -> "refused"
                    [] c.consume = "fails" -> "throws"
  IN [verify |-> Checked(c, invalidTokenResult(c.answer), {"subject", "appId"}, consumed),
      test   |-> Undecided(testJwks(c, FALSE))]

awsCognito(c) ==
  [verify |-> Checked(c, Unavailable(c.answer), {"subject", "tokenUse", "client", "scope"}, "ok"),
   test   |-> testJwks(c, FALSE)]

clerk(c) ==
  [verify |-> Checked(c, Unavailable(c.answer), {"subject", "session", "party", "pending"}, "ok"),
   test   |-> testJwks(c, FALSE)]

-----------------------------------------------------------------------------
(* Attestation services.  A call ends with "fails", "5xx", "400", "4xx",   *)
(* "malformed" or "answered".                                              *)

ServiceVerifiers == {"recaptcha-enterprise", "google-play-integrity", "cloudflare-turnstile",
                     "apple-device-check"}

(* Google's token comes first, from the host.  A test asks about a made-up *)
(* token, which must be refused by a service that accepts the rest.        *)
recaptchaEnterprise(c) ==
  LET assessed == c.oauth # "fails" /\ c.answer = "answered"
  IN [verify |-> IF ~assessed THEN "unavailable"
                 ELSE IF c.defects \cap {"invalid", "action"} # {} THEN "refused"
                 ELSE IF "unscored" \in c.defects THEN "unavailable"
                 ELSE IF c.defects \cap {"score", "origin"} # {} THEN "refused" ELSE "ok",
      test   |-> IF assessed THEN "ok" ELSE "failed"]

googlePlayIntegrity(c) ==
  [verify |-> IF "tooLarge" \in c.defects THEN "refused"
              ELSE IF c.oauth = "fails" THEN "unavailable"
              ELSE CASE c.answer = "answered" ->
                          IF c.defects \cap {"binding", "app", "device", "license", "certificate"} # {}
                            THEN "refused" ELSE "ok"
                     [] c.answer = "400" -> "refused"
                     [] c.answer \notin {"answered", "400"} -> "unavailable",
   test   |-> IF c.oauth # "fails" /\ c.answer \in {"answered", "malformed", "400"}
                THEN "ok" ELSE "failed"]

(* Mutant: each attempt has a key of its own. *)
KeyPerAttempt(attempt) == attempt

(* One key for all attempts. *)
IdempotencyKey(attempt) == 1

(* Cloudflare redeems a token once: another use of it is a duplicate, but  *)
(* a repeated key is answered as the first time.  "lost" and "malformed":  *)
(* redeemed, and the answer lost or unreadable.                            *)
Siteverify(c, attempt) ==
  IF /\ attempt = 2 /\ c.attempts[1] \in {"lost", "malformed"} /\ c.attempts[2] = "answered"
     /\ IdempotencyKey(2) # IdempotencyKey(1)
    THEN "duplicate" ELSE c.attempts[attempt]

Lost == {"fails", "lost"}

(* Two attempts under one key; only a lost, late or unreadable answer is   *)
(* asked for again.                                                        *)
verifyUpstream(c) ==
  IF Siteverify(c, 1) \in Lost \cup {"5xx", "malformed"}
    THEN IF Siteverify(c, 2) \in {"answered", "duplicate"} THEN Siteverify(c, 2) ELSE Null
  ELSE IF Siteverify(c, 1) \in {"answered", "duplicate"} THEN Siteverify(c, 1) ELSE Null

cloudflareTurnstile(c) ==
  [verify |-> IF "tooLong" \in c.defects THEN "refused"
              ELSE CASE verifyUpstream(c) = Null -> "unavailable"
                     [] verifyUpstream(c) = "duplicate" -> "refused"
                     [] verifyUpstream(c) = "answered" ->
                          IF "secret" \in c.defects THEN "unavailable"
                          ELSE IF c.defects \cap {"invalid", "action", "hostname"} # {}
                            THEN "refused" ELSE "ok",
   test   |-> IF verifyUpstream(c) # Null /\ "secret" \notin c.defects THEN "ok" ELSE "failed"]

(* Apple answers with a status.  What it has accepted is accepted for a    *)
(* while without asking; `oauth` is the signing of the request.            *)
appleDeviceCheck(c) ==
  LET status(passing) == c.oauth # "fails" /\ c.answer \in passing
  IN [verify |-> IF c.remembered \/ status({"answered", "malformed"}) THEN "ok" ELSE "refused",
      test   |-> IF status({"answered", "malformed", "400"}) THEN "ok" ELSE "failed"]

Verifier(c) ==
  CASE c.type = "jwt"                   -> jwt(c)
    [] c.type = "supabase"              -> supabase(c)
    [] c.type = "firebase-auth"         -> firebaseAuth(c)
    [] c.type = "firebase-app-check"    -> firebaseAppCheck(c)
    [] c.type = "aws-cognito"           -> awsCognito(c)
    [] c.type = "clerk"                 -> clerk(c)
    [] c.type = "recaptcha-enterprise"  -> recaptchaEnterprise(c)
    [] c.type = "google-play-integrity" -> googlePlayIntegrity(c)
    [] c.type = "cloudflare-turnstile"  -> cloudflareTurnstile(c)
    [] c.type = "apple-device-check"    -> appleDeviceCheck(c)

(* A request without the header is not this verifier's. *)
Verify == /\ presented # Null /\ verdict = Null
          /\ verdict' = IF extractToken(presented.header) = Null THEN "null"
                        ELSE Verifier(presented).verify
          /\ UNCHANGED <<presented, store, issued, calls>>

Probe == /\ presented # Null /\ verdict = Null
         /\ verdict' = Verifier(presented).test
         /\ UNCHANGED <<presented, store, issued, calls>>

-----------------------------------------------------------------------------
(* App Attest.  A row is there or it is not: time only decides when a      *)
(* challenge, or a claim on one, expires.                                  *)

Steps(p, step, rec) == calls' = [calls EXCEPT ![p] = [rec EXCEPT !.step = step]]

At(p, step) == calls[p].step = step

Keep == UNCHANGED <<presented, verdict>>

IssueChallenge(c) ==
  /\ c \notin issued
  /\ issued' = issued \cup {c}
  /\ store' = [store EXCEPT !.challenges = @ \cup {c}]
  /\ UNCHANGED calls /\ Keep

(* An attestation is for its challenge, which must still be known, and is  *)
(* genuine or not.                                                         *)
RegisterStarts(p, c) ==
  /\ At(p, "idle") /\ c \in issued
  /\ \E genuine \in BOOLEAN :
       Steps(p, IF genuine /\ c \in store.challenges THEN "registering" ELSE "refused",
             [calls[p] EXCEPT !.challenge = c])
  /\ UNCHANGED <<store, issued>> /\ Keep

(* The attested counter, 0, is the baseline. *)
RegisterStores(p) ==
  /\ At(p, "registering")
  /\ store' = [store EXCEPT !.key = 0]
  /\ Steps(p, "stored", calls[p])
  /\ UNCHANGED issued /\ Keep

DeleteChallenge(p) == store' = [store EXCEPT !.challenges = @ \ {calls[p].challenge}]

RegisterEnds(p) ==
  /\ At(p, "stored") /\ DeleteChallenge(p) /\ Steps(p, "registered", calls[p])
  /\ UNCHANGED issued /\ Keep

(* The key's row is read first, and its counter kept for later. *)
VerifyReadsKey(p, a) ==
  /\ At(p, "idle") /\ a.challenge \in issued
  /\ Steps(p, IF store.key = Null THEN "refused" ELSE "keyed",
           [step |-> "idle", assertion |-> a, challenge |-> a.challenge, stored |-> store.key])
  /\ UNCHANGED <<store, issued>> /\ Keep

VerifyReadsChallenge(p) ==
  /\ At(p, "keyed")
  /\ Steps(p, IF calls[p].challenge \in store.challenges THEN "challenged" ELSE "refused", calls[p])
  /\ UNCHANGED <<store, issued>> /\ Keep

(* Mutant: the challenge is only looked up. *)
Unclaimed(count) == TRUE

ClaimWon(count) == count = 1

(* One atomic increment decides between replays. *)
VerifyClaims(p) ==
  /\ At(p, "challenged")
  /\ LET count == store.claims[calls[p].challenge] + 1
     IN /\ store' = [store EXCEPT !.claims[calls[p].challenge] = count]
        /\ Steps(p, IF ClaimWon(count) THEN "claimed" ELSE "refused", calls[p])
  /\ UNCHANGED issued /\ Keep

(* The signature, the application, and a counter above the one read. *)
VerifyChecks(p) ==
  /\ At(p, "claimed")
  /\ LET a == calls[p].assertion
     IN IF a.good /\ a.counter > calls[p].stored
          THEN /\ store' = [store EXCEPT !.key = a.counter]
               /\ Steps(p, "checked", calls[p])
          ELSE UNCHANGED store /\ Steps(p, "refused", calls[p])
  /\ UNCHANGED issued /\ Keep

VerifySpends(p) ==
  /\ At(p, "checked") /\ DeleteChallenge(p) /\ Steps(p, "accepted", calls[p])
  /\ UNCHANGED issued /\ Keep

ChallengeExpires(c) ==
  /\ c \in store.challenges
  /\ store' = [store EXCEPT !.challenges = @ \ {c}]
  /\ UNCHANGED <<issued, calls>> /\ Keep

(* A claim lives as long as a challenge does, from a later start.  Bound:  *)
(* no call takes that long between reading a challenge and claiming it.    *)
ClaimExpires(c) ==
  /\ store.claims[c] > 0 /\ c \notin store.challenges
  /\ \A p \in Callers : At(p, "challenged") => calls[p].challenge # c
  /\ store' = [store EXCEPT !.claims[c] = 0]
  /\ UNCHANGED <<issued, calls>> /\ Keep

VerifyNext ==
  \/ Verify \/ Probe
  \/ \E c \in Challenges : IssueChallenge(c) \/ ChallengeExpires(c) \/ ClaimExpires(c)
  \/ \E p \in Callers :
       \/ \E c \in Challenges : RegisterStarts(p, c)
       \/ \E a \in Assertions : VerifyReadsKey(p, a)
       \/ RegisterStores(p) \/ RegisterEnds(p) \/ VerifyReadsChallenge(p) \/ VerifyClaims(p)
       \/ VerifyChecks(p) \/ VerifySpends(p)

-----------------------------------------------------------------------------
(* Properties *)

(* A captured assertion is worth nothing: however replays of it interleave *)
(* with the original, with registrations and with the expiry of the rows,  *)
(* one challenge lets one assertion through (app-attest.ts:411).           *)
ChallengeSpentOnce ==
  \A c \in Challenges :
    Cardinality({p \in Callers : calls[p].step \in {"checked", "accepted"}
                                   /\ calls[p].challenge = c}) <= 1

(* Nobody is told that a good credential is bad because a service is down  *)
(* or an answer was lost on the way: the verifiers that answer 503 for an  *)
(* outage never refuse a credential that has no defect and that its issuer *)
(* did not turn down.                                                      *)
GenuineNotRejected ==
  (/\ presented # Null /\ presented.defects = {}
   /\ presented.type \in {"aws-cognito", "clerk", "recaptcha-enterprise",
                          "google-play-integrity", "cloudflare-turnstile"}
   /\ presented.answer \notin {"bad token", "400"})
    => verdict # "refused"
=============================================================================
