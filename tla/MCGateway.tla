----------------------------- MODULE MCGateway -----------------------------
EXTENDS Gateway
CONSTANTS r1, r2, s1, s2, s3, p1, p2, p3, c1, c2, o1, o2, o3

-----------------------------------------------------------------------------
(* Serving *)

Config(keeps, open, keyed) == [logs |-> keeps, public |-> open, needKey |-> keyed]
MCConfigs == {Config(TRUE, FALSE, FALSE), Config(TRUE, TRUE, FALSE), Config(FALSE, FALSE, TRUE)}
MCKinds == [r \in {r1, r2} |-> IF r = r1 THEN {"stream"} ELSE {"chat", "models"}]

(* Decisions *)

Lists(S, n) == UNION {[1 .. k -> S] : k \in 0 .. n}
Routes == [kind : {"route"}, allowed : {{}, {"m"}}, model : {"m", "other"},
           rules : Lists([yields : {"true", "false", "throws"}, literal : {FALSE}, model : {Null, "n"}]
                           \cup {[yields |-> "true", literal |-> TRUE, model |-> Null],
                                 [yields |-> "other", literal |-> FALSE, model |-> Null]}, 2)]
Auths == [kind : {"auth"}, user : VerifierResults, mode : {"all", "any"}, apps : Lists(VerifierResults, 3)]
Identities == [kind : {"identify"}, client : {Null, "client"}, trusted : BOOLEAN,
               headers : [cf : {Null, "ip1"}, forwarded : {Null, "ip2"}, real : {Null, "ip3"}],
               identities : Lists([user : {Null, "u"}, device : {Null, "d"}, provider : {"jwt"}], 2) \ {<<>>}]
Budgets == [kind : {"budget"}, total : {0, 2},
            rules : Lists([yields : {"true", "throws"}, used : {Null, 1, 2}, limit : {2}], 2)]
Evictions == [kind : {"evict"}, maxEntries : 1 .. 3, maxBytes : {2, 4},
              answers : Lists({[entry |-> b + 1, body |-> b, left |-> t] : b \in 1 .. 2, t \in -1 .. 1}, 3)]
MCQuestions == Routes \cup Auths \cup Identities \cup Budgets \cup Evictions

-----------------------------------------------------------------------------
(* Verifiers *)

Credential(type) ==
  [type |-> type, header |-> "token", answer |-> "answered", defects |-> {}, consume |-> Null,
   oauth |-> "works", remembered |-> FALSE, attempts |-> <<"answered", "answered">>,
   local |-> FALSE, empty |-> FALSE]

OneOf(S) == {{}} \cup {{x} : x \in S}

Tokens ==
  {[Credential(t) EXCEPT !.answer = a, !.defects = d, !.consume = k, !.local = l, !.empty = e] :
     t \in TokenVerifiers, a \in {"valid", "bad token", "key set", "unreachable"},
     d \in OneOf({"subject", "appId", "tokenUse", "client", "scope", "session", "party", "pending"}),
     k \in {Null, "first", "again", "fails"}, l \in BOOLEAN, e \in BOOLEAN}

Assessed ==
  {[Credential(t) EXCEPT !.answer = a, !.defects = d, !.oauth = o, !.remembered = r] :
     t \in ServiceVerifiers \ {"cloudflare-turnstile"},
     a \in {"fails", "5xx", "400", "4xx", "malformed", "answered"},
     d \in OneOf({"invalid", "action", "unscored", "score", "origin", "tooLarge", "binding", "app",
                  "device", "license", "certificate", "tooLong", "secret", "hostname", "project"}),
     o \in {"works", "fails"}, r \in BOOLEAN}

Outcomes == {"fails", "lost", "5xx", "4xx", "malformed", "answered"}

Verified ==
  {[Credential("cloudflare-turnstile") EXCEPT !.attempts = <<a, b>>, !.defects = d] :
     a \in Outcomes, b \in Outcomes, d \in OneOf({"secret", "invalid", "hostname", "tooLong"})}

MCPresented == Tokens \cup Assessed \cup Verified
                 \cup {[Credential("clerk") EXCEPT !.header = "other"],
                       [Credential("apple-device-check") EXCEPT !.header = "absent"]}

Signed(c, n, good) == [challenge |-> c, counter |-> n, good |-> good]
MCAssertions == {Signed(c1, 1, TRUE), Signed(c2, 2, TRUE), Signed(c2, 2, FALSE)}

-----------------------------------------------------------------------------
(* Database *)

MCBuilds == [s \in {s1, s2, s3} |-> IF s = s1 THEN 1 ELSE IF s = s2 THEN 2 ELSE 3]

(* Environment *)

MCIndices == <<"0", "1", "2">>

First == <<"routing", "rules", "0">>
Second == <<"routing", "rules", "1">>

Referring ==
  [path |-> <<>>,
   sub  |-> ((First \o <<"id">>) :> "r") @@ ((First \o <<"when">>) :> "true")
              @@ ((First \o <<"target", "provider">>) :> "p1") @@ (<<"providers", "p1", "type">> :> "openai")
              @@ (<<"providers", "p1", "apiKey">> :> "k1") @@ (<<"server", "logLevel">> :> "info")]
InlineFirst ==
  [path |-> <<>>,
   sub  |-> ((First \o <<"id">>) :> "p1") @@ ((First \o <<"when">>) :> "true")
              @@ ((First \o <<"target", "type">>) :> "openai")
              @@ ((Second \o <<"target", "provider">>) :> "p1") @@ (<<"server">> :> "info")]
Upstreams == [path |-> <<"providers">>, sub |-> (<<"p1", "apiKey">> :> "k2") @@ (<<"p2", "type">> :> "google")]
UserAuth  == [path |-> <<"security", "userAuth">>, sub |-> (<<"type">> :> "jwt") @@ (<<"secret">> :> "${VAR}")]
AppAuth   == [path |-> <<"security", "appAuth">>,
              sub  |-> (<<"providers", "0", "type">> :> "apple-app-attest") @@ (<<"mode">> :> "any")]

Deep      == [Referring EXCEPT !.sub =
                @ @@ (<<"providers", "p1", "headers", "a">> :> "x") @@ (<<"storage", "url", "host">> :> "x")
                  @@ ((AppProviders \o <<"0", "type">>) :> "apple-app-attest")
                  @@ ((AppProviders \o <<"0", "header", "name">>) :> "x")]
AppObject == [path |-> <<"security", "appAuth">>, sub |-> <<"providers", "x">> :> "y"]

Some(list) == {SelectSeq(list, LAMBDA x : x \in S) : S \in SUBSET ToSet(list)}
Profile(type, layer, enabled) ==
  [type |-> type, layer |-> layer, enabled |-> enabled, fields |-> (<<"header">> :> type)]
Set(path, value) == [path |-> path, sub |-> (<<>> :> value)]

MCEnvironments ==
  [blocks   : Some(<<Referring, Upstreams, UserAuth, AppAuth>>) \cup {<<InlineFirst>>, <<InlineFirst, UserAuth>>},
   storage  : {<<"url">> :> "pg"},
   target   : {Empty, <<"apiKey">> :> "k3",
               (<<"apiKey">> :> "") @@ (<<"type">> :> "openai") @@ (<<"model">> :> "m")},
   profiles : {<<>>,
               <<Profile("clerk", "user", "true"), Profile("jwt", "user", "true")>>,
               <<Profile("jwt", "user", "true"), Profile("apple-app-attest", "app", "true"),
                 Profile("apple-device-check", "app", "true"), Profile("clerk", "user", "false")>>,
               <<Profile("jwt", "user", "other")>>},
   simple   : {<<Set(<<"server", "logLevel">>, "warn")>>},
   paths    : Some(<<[path |-> <<"providers", "p1">>, sub |-> (<<"type">> :> "google")],
                     Set(<<"providers", "p1", "apiKey">>, "k4")>>)
                \cup {<<Set(<<"server">>, "x")>>, <<Set(Second \o <<"target", "provider">>, "p2")>>},
   var      : {Null, "s"}]
  \cup
  [blocks : {<<>>, <<Referring, UserAuth>>}, storage : {Empty}, target : {Empty}, profiles : {<<>>},
   simple : {<<>>}, paths : {<<>>}, var : {Null, "s"}]
  \cup
  [blocks   : {<<Deep>>, <<Deep, Upstreams>>, <<Deep, AppAuth>>, <<Deep, AppObject>>},
   storage  : {Empty, <<"url">> :> "pg"},
   target   : {Empty, <<"headers">> :> "h"},
   profiles : {<<>>, <<Profile("apple-app-attest", "app", "true")>>},
   simple   : {<<>>}, paths : {<<>>, <<Set(Target \o <<"provider">>, "p2")>>}, var : {Null}]

-----------------------------------------------------------------------------
(* Secrets *)

MCKeyrings == {<< <<1>>, <<2, 1>>, <<2>> >>, << <<>>, <<1>> >>}
MCDoings ==
  [o \in {o1, o2, o3} |-> CASE o = o1 -> {"save", "drop", "rename", "rollback"}
                            [] o = o2 -> {"save", "import", "put", "delete"}
                            [] o = o3 -> {"rotate"}]
OneKey == {<< <<1>> >>}
Renaming == [o \in {o1, o2, o3} |-> {"save", "rename"}]
=============================================================================
