---------------------------- MODULE Environment ----------------------------
(***************************************************************************)
(* From environment variables to a running configuration:                  *)
(*   packages/core/src/config/env.ts, load.ts, schema.ts                   *)
(*   packages/core/src/runtime/bundle.ts, registry.ts                      *)
(*                                                                         *)
(* A document is a function from paths to leaves: what has a longer path   *)
(* under it is an object, or an array if the next segments are Indices.    *)
(* Parsing of one value and the names of the variables are left out.  An   *)
(* array has at most as many elements as there are Indices.                *)
(***************************************************************************)
EXTENDS Absence, Integers, Sequences, SequencesExt, FiniteSets, FiniteSetsExt, Functions

CONSTANTS Environments,  \* what the variables say, by kind
          Indices        \* the array indices, in their order: "0", "1", ...

(* Strings, the ones this module writes among them.                        *)
Names == STRING \cup {"storage", "routing", "rules", "0", "id", "when", "target", "provider", "default",
                      "providers", "security", "userAuth", "appAuth", "type"}
Paths == Seq(Names)

IsList(s) == s \in Seq(ToSet(s))

(* A shortcut sets fields of its object, a profile those of its verifier,  *)
(* whose type has a variable of no verifier.                               *)
AreFields(Q) == \A q \in Q : q \in Paths /\ Len(q) = 1

ASSUME EnvironmentsAssumption ==
  /\ Indices \in Paths /\ \A i, j \in DOMAIN Indices : Indices[i] = Indices[j] => i = j
  /\ \A e \in Environments :
       /\ \A list \in {e.blocks, e.profiles, e.simple, e.paths} : IsList(list)
       /\ \A list \in {e.blocks, e.simple, e.paths} : \A item \in ToSet(list) :
            item.path \in Paths /\ DOMAIN item.sub \subseteq Paths
       /\ AreFields(DOMAIN e.storage) /\ AreFields(DOMAIN e.target)
       /\ \A profile \in ToSet(e.profiles) : /\ AreFields(DOMAIN profile.fields)
                                              /\ <<"type">> \notin DOMAIN profile.fields
                                              /\ profile.type # Null
                                              /\ profile.enabled \in {"true", "false", "other"}
       /\ \A i, j \in DOMAIN e.profiles : e.profiles[i].type = e.profiles[j].type => i = j

VARIABLES env,   \* the variables
          built  \* the document and the bundle they make; Null before

envVars == <<env, built>>

EnvInit == env \in Environments /\ built = Null
EnvOff  == env = Null /\ built = Null

-----------------------------------------------------------------------------
(* Documents *)

Empty == [q \in {} |-> Null]
Only(path, value) == [q \in {path} |-> value]

Under(path, q) == IsPrefix(path, q)
Has(doc, path) == \E q \in DOMAIN doc : Under(path, q)
Leaf(doc, path) == path \in DOMAIN doc

(* The keys a container has at a path. *)
Keys(doc, path) == {q[Len(path) + 1] : q \in {p \in DOMAIN doc : IsStrictPrefix(path, p)}}

IsArray(doc, path) == Keys(doc, path) # {} /\ Keys(doc, path) \subseteq Range(Indices)

IsObjectAt(doc, path) == Keys(doc, path) # {} /\ ~IsArray(doc, path)

Get(doc, path) == IF Leaf(doc, path) THEN doc[path] ELSE Null

Without(doc, path) == Restrict(doc, {q \in DOMAIN doc : ~Under(path, q)})

Overlay(doc, top) ==
  [q \in DOMAIN doc \cup DOMAIN top |-> IF q \in DOMAIN top THEN top[q] ELSE doc[q]]

(* A document over another: a leaf of it takes the place of what is below. *)
Assigned(doc, top) ==
  Overlay(Restrict(doc, {q \in DOMAIN doc : ~\E p \in DOMAIN top : Under(p, q)}), top)

(* A subtree, put at a path. *)
Placed(path, sub) ==
  [q \in {path \o p : p \in DOMAIN sub} |-> sub[SubSeq(q, Len(path) + 1, Len(q))]]

(* The containers a path goes through, with the outermost and without.     *)
Above(path)   == {SubSeq(path, 1, i) : i \in 0 .. Len(path) - 1}
Parents(path) == {SubSeq(path, 1, i) : i \in 1 .. Len(path) - 1}

(* Mutant: merges the first level only. *)
ReplacesShallow(doc, path, top, q) ==
  \E p \in DOMAIN top : p = <<>> \/ q = <<>> \/ Head(p) = Head(q)

(* Objects merge key by key; an array, or a leaf, replaces what was there, *)
(* and is replaced as a whole.                                             *)
Replaces(doc, path, top, q) ==
  \E p \in DOMAIN top :
    \/ Under(p, q) \/ Under(q, p)
    \/ \E r \in Above(p) : Under(r, q) /\ (IsArray(top, r) \/ IsArray(doc, path \o r))

(* What is at a path merged with more. *)
mergeConfigValue(doc, path, top) ==
  LET lost == {q \in DOMAIN doc : /\ Under(path, q)
                                 /\ Replaces(doc, path, top, SubSeq(q, Len(path) + 1, Len(q)))}
  IN Overlay(Restrict(doc, DOMAIN doc \ lost), Placed(path, top))

Failed == [ok |-> FALSE, doc |-> Empty, user |-> Null]
Doc(doc) == [ok |-> TRUE, doc |-> doc, user |-> Null]

(* A block is merged at its path, below objects. *)
applyBlock(state, block) ==
  IF ~state.ok THEN state
  ELSE IF \/ block.path = <<>> /\ (Leaf(block.sub, <<>>) \/ IsArray(block.sub, <<>>))
          \/ \E p \in Parents(block.path) : Leaf(state.doc, p) \/ IsArray(state.doc, p)
    THEN Failed
  ELSE Doc(mergeConfigValue(state.doc, block.path, block.sub))

(* An existing container must be of the kind the next segment needs, and   *)
(* the whole is an object; what was at the path is overwritten.            *)
Conflicts(doc, path) ==
  \/ Head(path) \in Range(Indices)
  \/ \E p \in Parents(path) :
       \/ Leaf(doc, p)
       \/ Has(doc, p) /\ (IsArray(doc, p) # (path[Len(p) + 1] \in Range(Indices)))

setPath(state, value) ==
  IF ~state.ok \/ Conflicts(state.doc, value.path) THEN Failed
  ELSE Doc(Overlay(Without(state.doc, value.path), Placed(value.path, value.sub)))

-----------------------------------------------------------------------------
(* Shortcuts.  `fields` is a document of one level.                        *)

applyStorageValues(state, fields) ==
  IF ~state.ok \/ DOMAIN fields = {} THEN state
  ELSE IF Leaf(state.doc, <<"storage">>) \/ IsArray(state.doc, <<"storage">>) THEN Failed
  ELSE Doc(Assigned(state.doc, Placed(<<"storage">>, fields)))

Rules == <<"routing", "rules">>
Rule0 == Rules \o <<"0">>
Target == Rule0 \o <<"target">>

(* The first rule's target, or a catch-all rule made for it. *)
catchAllTarget(doc) ==
  IF ~Has(doc, Rules)
    THEN Overlay(doc, Placed(Rule0, [q \in {<<"id">>, <<"when">>, <<"target", "provider">>} |->
                                       IF q = <<"when">> THEN "true" ELSE "default"]))
  ELSE IF ~Has(doc, Target) THEN Overlay(doc, Placed(Target, Only(<<"provider">>, "default")))
  ELSE doc

targetProvider(doc) ==
  IF Get(doc, Target \o <<"provider">>) \in STRING \ {""} THEN Get(doc, Target \o <<"provider">>)
  ELSE "default"

(* An empty key is no key. *)
Supplied(fields) == Restrict(fields, {f \in DOMAIN fields : f # <<"apiKey">> \/ fields[f] # ""})

(* Credentials and options go to the provider that target names, each in   *)
(* place of what was there.  An inline target is not extended.             *)
applyTargetValues(state, fields) ==
  IF ~state.ok \/ DOMAIN fields = {} THEN state
  ELSE LET doc   == catchAllTarget(state.doc)
           id    == targetProvider(doc)
           model == Restrict(Supplied(fields), DOMAIN Supplied(fields) \cap {<<"model">>})
           rest  == Restrict(Supplied(fields), DOMAIN Supplied(fields) \ {<<"model">>})
           spot  == <<"providers", id>>
       IN IF \/ \E p \in {<<"routing">>, Rule0, Target, <<"providers">>, spot} : Leaf(doc, p) \/ IsArray(doc, p)
             \/ ~IsArray(doc, Rules) \/ Has(doc, Target \o <<"type">>)
            THEN Failed
          ELSE Doc(Assigned(Assigned(Assigned(doc, Only(Target \o <<"provider">>, id)),
                                     Placed(Target, model)), Placed(spot, rest)))

AppProviders == <<"security", "appAuth", "providers">>

Number(i) == CHOOSE n \in DOMAIN Indices : Indices[n] = i

(* Where the first verifier of this type is, or would be appended. *)
Same(doc, type)    == {i \in Keys(doc, AppProviders) : Get(doc, AppProviders \o <<i, "type">>) = type}
Behind(doc)        == {n \in DOMAIN Indices : \A i \in Keys(doc, AppProviders) : Number(i) < n}
ProfileIndex(doc, type) ==
  IF Same(doc, type) # {}
    THEN CHOOSE i \in Same(doc, type) : \A j \in Same(doc, type) : Number(i) <= Number(j)
    ELSE Indices[Min(Behind(doc))]

(* A profile's variables are fields of the verifier of its type. *)
ProfileDocument(profile) == Overlay(Only(<<"type">>, profile.type), profile.fields)

(* Exactly one user method; any number for applications, one of each type. *)
applyProfile(state, profile) ==
  LET user == profile.layer = "user"
      spot == IF user THEN <<"security", "userAuth">>
                      ELSE AppProviders \o <<ProfileIndex(state.doc, profile.type)>>
      kept == IF IsObjectAt(state.doc, spot) THEN state.doc ELSE Without(state.doc, spot)
  IN IF ~state.ok \/ profile.enabled = "false" THEN state
     ELSE IF \/ profile.enabled = "other" \/ (user /\ state.user \notin {Null, profile.type})
             \/ \E p \in {<<"security">>, <<"security", "appAuth">>} :
                  (p = <<"security">> \/ ~user) /\ (Leaf(state.doc, p) \/ IsArray(state.doc, p))
             \/ ~user /\ (Leaf(state.doc, AppProviders) \/ IsObjectAt(state.doc, AppProviders))
             \/ ~user /\ Same(state.doc, profile.type) = {} /\ Behind(state.doc) = {}
       THEN Failed
     ELSE [ok |-> TRUE, doc |-> mergeConfigValue(kept, spot, ProfileDocument(profile)),
           user |-> IF user THEN profile.type ELSE state.user]

apply(kind, state, item) ==
  CASE kind = "block"   -> applyBlock(state, item)
    [] kind = "profile" -> applyProfile(state, item)
    [] kind = "value"   -> setPath(state, item)

(* One after the other. *)
AppliedAll(kind, state, list) ==
  LET after[i \in 0 .. Len(list)] == IF i = 0 THEN state ELSE apply(kind, after[i - 1], list[i])
  IN after[Len(list)]

(* Blocks, then shortcuts and profiles, then simple values, then paths in  *)
(* the order of their names.                                               *)
environmentConfigDocument(e) ==
  LET blocks   == AppliedAll("block", Doc(Empty), e.blocks)
      target   == applyTargetValues(applyStorageValues(blocks, e.storage), e.target)
      profiles == AppliedAll("profile", target, e.profiles)
  IN AppliedAll("value", profiles, e.simple \o e.paths)

hasEnvironmentConfig(e) ==
  \/ \E list \in {e.blocks, e.profiles, e.simple, e.paths} : list # <<>>
  \/ \E fields \in {e.storage, e.target} : DOMAIN fields # {}

-----------------------------------------------------------------------------
(* Running it.  A leaf may refer to another variable.                      *)

interpolateDeep(doc, e) ==
  [q \in DOMAIN doc |-> IF doc[q] = "${VAR}" THEN e.var ELSE doc[q]]

Missing(doc, e) == e.var = Null /\ "${VAR}" \in Range(doc)

Types(layer) == IF layer = "user" THEN {"clerk", "jwt"} ELSE {"apple-app-attest", "apple-device-check"}

Named(doc, i) == Get(doc, Rules \o <<i, "target", "provider">>)

RuleId(doc, i) == IF Leaf(doc, Rules \o <<i, "id">>) THEN doc[Rules \o <<i, "id">>] ELSE i

(* Providers that the inline targets of the rules before this one made.    *)
Inline(doc, i) == {RuleId(doc, j) : j \in {k \in Keys(doc, Rules) : Named(doc, k) = Null
                                                              /\ Number(k) < Number(i)}}

(* A named provider must exist, an inline target bring one of its own.     *)
buildRoutingRules(doc) ==
  LET rules == Keys(doc, Rules)
      named == Keys(doc, <<"providers">>)
      fallback(i) == Get(doc, Rules \o <<i, "target", "fallbackProvider">>)
  IN /\ \A i, j \in rules : RuleId(doc, i) = RuleId(doc, j) => i = j
     /\ \A i \in rules :
          IF Named(doc, i) = Null
            THEN Leaf(doc, Rules \o <<i, "target", "type">>) /\ RuleId(doc, i) \notin named
          ELSE /\ Named(doc, i) \in named \cup Inline(doc, i)
               /\ fallback(i) = Null \/ fallback(i) \in (named \cup Inline(doc, i)) \ {Named(doc, i)}

buildVerifiers(doc) ==
  /\ Get(doc, <<"security", "userAuth", "type">>) \in Types("user")
  /\ \A i \in Keys(doc, AppProviders) : Get(doc, AppProviders \o <<i, "type">>) \in Types("app")
  /\ Cardinality({i \in Keys(doc, AppProviders) :
                    doc[AppProviders \o <<i, "type">>] = "apple-app-attest"}) <= 1

buildModelProviders(doc) ==
  \A id \in Keys(doc, <<"providers">>) : Leaf(doc, <<"providers", id, "type">>)

buildBundle(doc) == buildVerifiers(doc) /\ buildModelProviders(doc) /\ buildRoutingRules(doc)

Start ==
  /\ env # Null /\ built = Null
  /\ LET made == environmentConfigDocument(env)
     IN built' = [from   |-> IF hasEnvironmentConfig(env) THEN "environment" ELSE "store",
                  ok     |-> made.ok, doc |-> made.doc,
                  serves |-> /\ made.ok /\ ~Missing(made.doc, env)
                             /\ buildBundle(interpolateDeep(made.doc, env))]
  /\ UNCHANGED env

EnvNext == Start

-----------------------------------------------------------------------------
(* Properties *)

Settings(e) == e.simple \o e.paths

Touches(list, q) == \E item \in ToSet(list) : Under(item.path, q) \/ Under(q, item.path)

Later(list, i) == SubSeq(list, i + 1, Len(list))

(* What is merged speaks about its leaves, about all of an array it        *)
(* brings, and about all of one it replaces.                               *)
Speaks(item, q) ==
  \E p \in DOMAIN item.sub :
    \/ Under(item.path \o p, q) \/ Under(q, item.path \o p)
    \/ \E r \in Above(p) :
         /\ Under(item.path \o r, q)
         /\ IsArray(item.sub, r) \/ q[Len(item.path \o r) + 1] \in Range(Indices)

StorageSpeaks(q) == \E f \in DOMAIN env.storage : Under(<<"storage">> \o f, q)

(* The options of the target speak about the provider it names, and say    *)
(* which one that is.                                                      *)
TargetSpeaks(doc, q) ==
  /\ DOMAIN env.target # {}
  /\ \/ \E f \in {<<"provider">>} \cup (DOMAIN env.target \cap {<<"model">>}) : Under(Target \o f, q)
     \/ /\ Len(q) > 2 /\ (q[2] = targetProvider(doc) \/ Touches(Settings(env), Target))
        /\ \E f \in DOMAIN Supplied(env.target) \ {<<"model">>} : Under(<<"providers", q[2]>> \o f, q)

(* A profile speaks about the user's verifier, or that of its type.        *)
Verifiers(doc, profile) ==
  IF profile.layer = "user" THEN {<<"security", "userAuth">>}
  ELSE LET type(i) == AppProviders \o <<i, "type">>
       IN {AppProviders \o <<i>> : i \in {j \in Range(Indices) : \/ Get(doc, type(j)) = profile.type
                                                              \/ Touches(Settings(env), type(j))}}

ProfileSpeaks(doc, q) ==
  \E profile \in ToSet(env.profiles) :
    /\ profile.enabled = "true"
    /\ \E spot \in Verifiers(doc, profile) : Speaks([path |-> spot, sub |-> ProfileDocument(profile)], q)

BlocksHeard(doc) ==
  \A i \in DOMAIN env.blocks : \A p \in DOMAIN env.blocks[i].sub :
    LET at == env.blocks[i].path \o p
    IN \/ Get(doc, at) = env.blocks[i].sub[p] \/ Touches(Settings(env), at)
       \/ \E j \in i + 1 .. Len(env.blocks) : Speaks(env.blocks[j], at)
       \/ StorageSpeaks(at) \/ TargetSpeaks(doc, at) \/ ProfileSpeaks(doc, at)

(* The default target names a provider; its options, but for the model it  *)
(* asks for, are with that provider.                                       *)
OptionAt(doc, f) == (IF f = <<"model">> THEN Target ELSE <<"providers", targetProvider(doc)>>) \o f

ShortcutsHeard(doc) ==
  /\ \A f \in DOMAIN env.storage :
       Get(doc, <<"storage">> \o f) = env.storage[f] \/ Touches(Settings(env), <<"storage">> \o f)
  /\ \A f \in DOMAIN env.target :
       \/ Get(doc, OptionAt(doc, f)) = env.target[f]
       \/ f = <<"apiKey">> /\ env.target[f] = ""
       \/ Touches(Settings(env), Target) \/ Touches(Settings(env), OptionAt(doc, f))

ProfilesHeard(doc) ==
  \A profile \in ToSet(env.profiles) : profile.enabled = "true" =>
    LET wanted == ProfileDocument(profile)
    IN \E spot \in Verifiers(doc, profile) : \A f \in DOMAIN wanted :
         Get(doc, spot \o f) = wanted[f] \/ Touches(Settings(env), spot \o f)

ValuesHeard(doc) ==
  \A i \in DOMAIN Settings(env) : \A p \in DOMAIN Settings(env)[i].sub :
    LET at == Settings(env)[i].path \o p
    IN Get(doc, at) = Settings(env)[i].sub[p] \/ Touches(Later(Settings(env), i), at)

(* No variable is silently lost: if the variables make a document, each    *)
(* value they give is in it, unless a variable that comes later is about   *)
(* the same place, and the options of the default target are with the      *)
(* provider that the first rule names.                                     *)
EveryVariableHeard ==
  (built # Null /\ built.ok) =>
    /\ BlocksHeard(built.doc) /\ ShortcutsHeard(built.doc)
    /\ ProfilesHeard(built.doc) /\ ValuesHeard(built.doc)
=============================================================================
