----------------------------- MODULE Decisions -----------------------------
(***************************************************************************)
(* The pure decisions of serving a request, each a function of what it is  *)
(* asked about:                                                            *)
(*   routing/router.ts, server/auth.ts, server/facts.ts, server/writekey.ts,*)
(*   ratelimit/limiter.ts, the eviction of cache/memory.ts and of          *)
(*   postgres/src/prompt-cache.ts                                          *)
(* Conditions are given by what they evaluate to.                          *)
(***************************************************************************)
EXTENDS Absence, Integers, Sequences, SequencesExt, FiniteSets, FiniteSetsExt

CONSTANT Questions

(* A condition yields one of these, and the literal `true` yields "true".  *)
Verdicts == {"true", "false", "other", "throws"}

(* An answer put into a cache: the bytes of the whole entry and of its body *)
(* alone, and the time it has left.                                        *)
StoredAnswers == {a \in [entry : Nat, body : Nat, left : Int] : a.body <= a.entry}

(* A row of a cache: its size and whether it has expired. *)
CacheRows == [bytes : Nat, expired : BOOLEAN]

ASSUME QuestionAssumption ==
  \A q \in Questions :
    /\ q.kind = "route" =>
         /\ Len(q.rules) \in Nat /\ DOMAIN q.rules = 1 .. Len(q.rules)
         /\ \A i \in DOMAIN q.rules : /\ q.rules[i].yields \in Verdicts
                                      /\ q.rules[i].literal => q.rules[i].yields = "true"
         /\ Null \notin [rule : DOMAIN q.rules,
                         model : {q.model} \cup {q.rules[i].model : i \in DOMAIN q.rules}]
    /\ q.kind = "evict" =>
         q.answers \in Seq(StoredAnswers) /\ q.maxEntries \in Nat /\ q.maxBytes \in Nat

VARIABLES asked,   \* the inputs of a decision
          decided  \* its outcome; Null before

decideVars == <<asked, decided>>

DecideInit == asked \in Questions /\ decided = Null
DecideOff  == asked = Null /\ decided = Null

Earliest(S) == IF S = {} THEN Null ELSE Min(S)

-----------------------------------------------------------------------------
(* Routing.  A rule: what its condition yields ("true", "false", "throws"  *)
(* or "other" for a non-boolean), is it the literal `true`, its model.     *)

Matching(rules) == {i \in DOMAIN rules : rules[i].yields = "true"}

(* The decision, or Null for a 404.  No allowlist is an empty one.         *)
resolve(rules, allowed, model) ==
  IF (allowed # {} /\ model \notin allowed) \/ Matching(rules) = {} THEN Null
  ELSE LET i == Min(Matching(rules))
       IN [rule |-> i, model |-> IF rules[i].model = Null THEN model ELSE rules[i].model]

Explained(rules) == IF Matching(rules) = {} THEN Len(rules) ELSE Min(Matching(rules))

explain(rules) ==
  [i \in 1 .. Explained(rules) |->
     CASE rules[i].yields = "true"   -> "match"
       [] rules[i].yields = "false"  -> "no-match"
       [] rules[i].yields = "other"  -> "non-boolean"
       [] rules[i].yields = "throws" -> "error"]

unreachableRules(rules) ==
  LET catchAll == {i \in DOMAIN rules : rules[i].literal}
  IN IF catchAll = {} THEN {} ELSE (Min(catchAll) + 1) .. Len(rules)

-----------------------------------------------------------------------------
(* Authentication.  A verifier's result: "null" (no credential), "ok",     *)
(* "refused" or "unavailable".  The outcome names the verifiers that were  *)
(* accepted, or what the request is refused with.                          *)

Accepted(S)   == [ok |-> TRUE, by |-> S, why |-> Null]
Refusal(why)  == [ok |-> FALSE, by |-> {}, why |-> why]
Failing(results) == {i \in DOMAIN results : results[i] \notin {"null", "ok"}}

(* `any`: the first that accepts; else the first explicit failure. *)
anyOf(results) ==
  LET ok == {i \in DOMAIN results : results[i] = "ok"}
  IN IF ok # {} THEN Accepted({Min(ok)})
     ELSE IF Failing(results) # {} THEN Refusal(results[Min(Failing(results))])
     ELSE Refusal("null")

(* `all`: up to the first that does not accept. *)
allOf(results) ==
  LET bad == {i \in DOMAIN results : results[i] # "ok"}
  IN IF bad = {} THEN Accepted(DOMAIN results) ELSE Refusal(results[Min(bad)])

AppLayer(mode, results) ==
  IF results = <<>> THEN Accepted({})
  ELSE IF mode = "any" THEN anyOf(results) ELSE allOf(results)

authenticate(user, mode, apps) ==
  IF user # "ok" THEN Refusal(user) ELSE AppLayer(mode, apps)

(* The first identity that has a user, or a device, supplies it. *)
mergeIdentities(ids) ==
  LET first(field) == Earliest({i \in DOMAIN ids : ids[i][field] # Null})
      given(field) == IF first(field) = Null THEN Null ELSE ids[first(field)][field]
  IN [user |-> given("user"), device |-> given("device"),
      provider |-> ids[IF first("user") = Null THEN 1 ELSE first("user")].provider,
      providers |-> {ids[i].provider : i \in DOMAIN ids}]

(* Budgets and logs know the caller by the first of these that is known.   *)
limitKeyFor(user, client, ip) ==
  IF user # Null THEN user ELSE IF client # Null THEN client
  ELSE IF ip # Null THEN ip ELSE "anonymous"

(* Proxy headers count only behind a trusted proxy. *)
extractClientIp(headers, trusted) ==
  LET present == SelectSeq(<<headers.cf, headers.forwarded, headers.real>>, LAMBDA h : h # Null)
  IN IF ~trusted \/ present = <<>> THEN Null ELSE Head(present)

-----------------------------------------------------------------------------
(* Token budgets.  A rule: does it apply (a condition that throws does     *)
(* not), what its counter reads (Null if it cannot be read), its limit.    *)

Applicable(rules) == {i \in DOMAIN rules : rules[i].yields = "true"}

Exhausted(rule) == rule.used # Null /\ rule.used >= rule.limit

(* The first exhausted rule refuses; a counter that cannot be read passes. *)
checkBudgets(rules) == Earliest({i \in Applicable(rules) : Exhausted(rules[i])})

recordUsage(rules, total) ==
  [i \in DOMAIN rules |->
     IF i \in Applicable(rules) /\ total > 0 /\ rules[i].used # Null
       THEN rules[i].used + total ELSE rules[i].used]

-----------------------------------------------------------------------------
(* Cache eviction: rows oldest first.  Memory weighs the entry as JSON and *)
(* lets it expire at the end of its time; PostgreSQL weighs the body alone *)
(* and lets it expire after.                                               *)

InMemory(answers) ==
  [i \in DOMAIN answers |-> [bytes |-> answers[i].entry, expired |-> answers[i].left <= 0]]

InPostgres(answers) ==
  [i \in DOMAIN answers |-> [bytes |-> answers[i].body, expired |-> answers[i].left < 0]]

(* The rows at some places. *)
Place(places, k)     == CHOOSE i \in places : Cardinality({j \in places : j <= i}) = k
RowsAt(rows, places) == [k \in 1 .. Cardinality(places) |-> rows[Place(places, k)]]

Live(rows)      == RowsAt(rows, {i \in DOMAIN rows : ~rows[i].expired})
Newest(rows, n) == SubSeq(rows, Len(rows) - n + 1, Len(rows))

(* Summed from the newest. *)
WithBytes(total, rows, i) == total + rows[Len(rows) - i + 1].bytes

TotalBytes(rows) ==
  LET total[i \in 0 .. Len(rows)] == IF i = 0 THEN 0 ELSE WithBytes(total[i - 1], rows, i)
  IN total[Len(rows)]

(* Memory: drop the oldest until both bounds hold. *)
evictMemory(rows, maxEntries, maxBytes) ==
  LET fits(n) == n <= maxEntries /\ TotalBytes(Newest(Live(rows), n)) <= maxBytes
  IN Newest(Live(rows), Max({n \in 0 .. Len(Live(rows)) : fits(n)}))

(* Mutant: the row itself is left out of its total. *)
PrecedingBytes(rows, i) == TotalBytes(Newest(rows, Len(rows) - i))

RunningBytes(rows, i) == TotalBytes(Newest(rows, Len(rows) - i + 1))

(* PostgreSQL: rank the live rows newest first, with a running total, and  *)
(* delete each that is past either bound.                                  *)
evictPostgres(rows, maxEntries, maxBytes) ==
  LET live == Live(rows)
      rank == [i \in DOMAIN live |-> Len(live) - i + 1]
      kept == {i \in DOMAIN live : rank[i] <= maxEntries /\ RunningBytes(live, i) <= maxBytes}
  IN RowsAt(live, kept)

-----------------------------------------------------------------------------
Asked(kind)  == asked # Null /\ decided = Null /\ asked.kind = kind
Answer(what) == decided' = what /\ UNCHANGED asked

Route == /\ Asked("route")
         /\ Answer([chosen    |-> resolve(asked.rules, asked.allowed, asked.model),
                    explained |-> explain(asked.rules),
                    dead      |-> unreachableRules(asked.rules)])

Authenticate == /\ Asked("auth")
                /\ Answer(authenticate(asked.user, asked.mode, asked.apps))

Identify == /\ Asked("identify")
            /\ LET who == mergeIdentities(asked.identities)
               IN Answer([who |-> who,
                          key |-> limitKeyFor(who.user, asked.client,
                                              extractClientIp(asked.headers, asked.trusted))])

Budget == /\ Asked("budget")
          /\ Answer([rule |-> checkBudgets(asked.rules),
                     after |-> recordUsage(asked.rules, asked.total)])

Evict == /\ Asked("evict")
         /\ LET entries == asked.maxEntries
                bytes == asked.maxBytes
            IN Answer([memory   |-> evictMemory(InMemory(asked.answers), entries, bytes),
                       postgres |-> evictPostgres(InPostgres(asked.answers), entries, bytes)])

DecideNext == Route \/ Authenticate \/ Identify \/ Budget \/ Evict

-----------------------------------------------------------------------------
(* Properties *)

Answered(kind) == decided # Null /\ asked.kind = kind

(* What an operator is told about routing is what routing does: the        *)
(* explanation ends in the rule that is chosen, reports no rule after it,  *)
(* and a rule reported as unreachable is never the one.  A match that is   *)
(* not chosen is of a model that the allowlist, which explain() does not   *)
(* look at (router.ts:107, 162), leaves out.                               *)
RoutingExplained ==
  Answered("route") =>
    /\ decided.chosen # Null =>
         /\ decided.chosen.rule = Len(decided.explained)
         /\ Last(decided.explained) = "match" /\ decided.chosen.rule \notin decided.dead
    /\ "match" \in ToSet(decided.explained) =>
         decided.chosen # Null \/ (asked.allowed # {} /\ asked.model \notin asked.allowed)
    /\ \A i \in DOMAIN decided.explained :
         decided.explained[i] = "match" <=> asked.rules[i].yields = "true"

(* The longest run of the newest live rows that keeps both bounds. *)
LongestWithin(kept, rows, maxEntries, maxBytes) ==
  LET live == Live(rows)
  IN /\ IsSuffix(kept, live) /\ Len(kept) <= maxEntries /\ TotalBytes(kept) <= maxBytes
     /\ Len(kept) < Len(live) =>
          \/ Len(kept) = maxEntries
          \/ TotalBytes(Newest(live, Len(kept) + 1)) > maxBytes

(* The two caches evict by the same rule, each by its own sizes and its own *)
(* clock: what is kept is the longest run of the newest live answers that  *)
(* keeps both bounds.  Of the same answers memory never keeps one that     *)
(* PostgreSQL evicts, unless an answer is at the very end of its time.     *)
EvictionsAgree ==
  Answered("evict") =>
    /\ LongestWithin(decided.memory, InMemory(asked.answers), asked.maxEntries, asked.maxBytes)
    /\ LongestWithin(decided.postgres, InPostgres(asked.answers), asked.maxEntries, asked.maxBytes)
    /\ (\A i \in DOMAIN asked.answers : asked.answers[i].left # 0) =>
         Len(decided.memory) <= Len(decided.postgres)

(* What the code decides in two places comes out as one rule: the route    *)
(* and the explanation of it, the eviction in memory and the one in SQL.   *)
TwinsAgree == RoutingExplained /\ EvictionsAgree
=============================================================================
