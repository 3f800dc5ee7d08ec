---------------------------- MODULE Translation ----------------------------
(***************************************************************************)
(* What the translation providers make of an OpenAI chat request and of a  *)
(* complete upstream answer:                                               *)
(*   packages/core/src/providers/anthropic.ts, google.ts, openai.ts        *)
(* Everything here is a function of its arguments; Streams.tla calls it.   *)
(*                                                                         *)
(* A message content is the sequence of its parts; a string is one part,   *)
(* and null and "" are the empty sequence, because every function below    *)
(* treats the three alike.  So is a content that is absent, and marked,    *)
(* which not every function can read.  What a part, a name or an argument  *)
(* says is abstracted to the distinctions the code makes.                  *)
(***************************************************************************)
EXTENDS Integers, Sequences, SequencesExt, FiniteSets

CONSTANT Null   \* an absent value

None == "none"

IsSeq(s) == s \in Seq(ToSet(s))

(* "link" is an image whose URL is neither a data: nor an http(s): URL *)
Parts == {"text", "empty", "image", "link", "other"}

(* A tool call's arguments: a JSON object, other JSON, or not JSON at all *)
Call(id, name, args) == [id |-> id, name |-> name, args |-> args]

Message(role, parts, calls, id) ==
  [role |-> role, parts |-> parts, calls |-> calls, id |-> id, absent |-> FALSE]

Block(kind, id, name, args) == [kind |-> kind, id |-> id, name |-> name, args |-> args]
PlainBlocks(parts)          == [i \in DOMAIN parts |-> Block(parts[i], None, None, None)]

IsSystem(m) == m.role \in {"system", "developer"}

-----------------------------------------------------------------------------
(* Append blocks, into the last turn when the role repeats; no empty turn. *)
pushMerged(turns, role, blocks) ==
  IF blocks = <<>> THEN turns
  ELSE IF turns # <<>> /\ Last(turns).role = role
    THEN [turns EXCEPT ![Len(turns)].blocks = @ \o blocks]
    ELSE Append(turns, [role |-> role, blocks |-> blocks])

(* The turns made of what each message says: a role and its blocks.        *)
Merged(says) ==
  LET turns[i \in 0 .. Len(says)] ==
        IF i = 0 THEN <<>> ELSE pushMerged(turns[i - 1], says[i].role, says[i].blocks)
  IN turns[Len(says)]

(* What a sequence has at a set of places, in its order. *)
Place(places, k) == CHOOSE i \in places : Cardinality({j \in places : j <= i}) = k
Kept(s, places)  == [k \in 1 .. Cardinality(places) |-> s[Place(places, k)]]

(* The parts of some kinds. *)
Only(parts, kinds) == Kept(parts, {i \in DOMAIN parts : parts[i] \in kinds})

-----------------------------------------------------------------------------
(* Anthropic *)

contentPartsToBlocks(parts) == PlainBlocks(Only(parts, {"text", "image"}))

toolCallToBlock(c) ==
  Block("tool_use", c.id, c.name, IF c.args = "malformed" THEN "object" ELSE c.args)

AnthropicBlocks(m) ==
  CASE m.role = "tool"      -> <<Block("tool_result", m.id, None, None)>>
    [] m.role = "assistant" -> contentPartsToBlocks(m.parts)
                                 \o [i \in DOMAIN m.calls |-> toolCallToBlock(m.calls[i])]
    [] m.role = "user"      -> contentPartsToBlocks(m.parts)
    [] OTHER                -> <<>>

AnthropicRole(m) == IF m.role = "assistant" THEN "assistant" ELSE "user"

Placeholder == [role |-> "user", blocks |-> PlainBlocks(<<"text">>)]

UserFirst(turns) ==
  IF turns # <<>> /\ Head(turns).role = "assistant" THEN <<Placeholder>> \o turns ELSE turns

AnthropicTurns(messages) ==
  UserFirst(Merged([i \in DOMAIN messages |->
                      [role   |-> AnthropicRole(messages[i]),
                       blocks |-> AnthropicBlocks(messages[i])]]))

SystemTexts(messages) ==
  SelectSeq(messages, LAMBDA m : IsSystem(m) /\ "text" \in ToSet(m.parts))

(* tool_choice survives only beside a tools array; "none" keeps the array. *)
AnthropicToolChoice(req) ==
  LET meant == [none |-> "none", auto |-> "auto", required |-> "any", named |-> "tool"]
  IN IF req.tools # "absent" /\ req.choice \in DOMAIN meant
       THEN meant[req.choice] ELSE "absent"

(* A parameter is "absent", an explicit "null", or "given". *)
FirstGiven(req, default) ==
  IF req.params.max_completion_tokens = "given" \/ req.params.max_tokens = "given"
    THEN "given" ELSE default

toAnthropicRequest(req) ==
  [turns  |-> AnthropicTurns(req.messages),
   system |-> SystemTexts(req.messages) # <<>>,
   tools  |-> req.tools # "absent",
   choice |-> AnthropicToolChoice(req),
   schema |-> req.schema,
   fields |-> {<<"max_tokens", FirstGiven(req, "default")>>} \cup
              {<<k, IF k = "temperature" THEN "clamped" ELSE req.params[k]>> :
                 k \in {p \in {"temperature", "top_p", "stop"} : req.params[p] # "absent"}}]

mapStopReason(reason) ==
  CASE reason = "max_tokens" -> "length"
    [] reason = "tool_use"   -> "tool_calls"
    [] reason = "refusal"    -> "content_filter"
    [] OTHER                 -> "stop"

-----------------------------------------------------------------------------
(* Gemini *)

contentToParts(parts) == PlainBlocks(Only(parts, Parts \ {"other"}))

parseToolArgs(c) == IF c.args = "object" THEN "object" ELSE "empty object"

functionCalls(m) ==
  [i \in DOMAIN m.calls |->
     Block("functionCall", m.calls[i].id, m.calls[i].name, parseToolArgs(m.calls[i]))]

CallsOf(m, id) == {k \in DOMAIN m.calls : m.calls[k].id = id}

(* Mutant: the first call of an id names all its results. *)
RememberedOnce(names, m) ==
  [id \in DOMAIN names |->
     IF CallsOf(m, id) = {} \/ names[id] # "unknown" THEN names[id]
     ELSE m.calls[Min(CallsOf(m, id))].name]

(* Gemini knows a tool result by the function's name, OpenAI by the id of  *)
(* the call, so the names of the calls so far are remembered.              *)
Remembered(names, m) ==
  [id \in DOMAIN names |->
     IF CallsOf(m, id) = {} THEN names[id] ELSE m.calls[Max(CallsOf(m, id))].name]

GoogleBlocks(names, m) ==
  CASE IsSystem(m)          -> <<>>
    [] m.role = "assistant" -> contentToParts(m.parts) \o functionCalls(m)
    [] m.role = "tool"      -> <<Block("functionResponse", m.id,
                                       IF m.id \in DOMAIN names THEN names[m.id]
                                                                ELSE "unknown", None)>>
    [] OTHER                -> contentToParts(m.parts)

GoogleRole(m) == IF m.role = "assistant" THEN "model" ELSE "user"

CallIds(messages) ==
  UNION {{messages[i].calls[j].id : j \in DOMAIN messages[i].calls} : i \in DOMAIN messages}

GoogleTurns(messages) ==
  LET names[i \in 0 .. Len(messages)] ==
        IF i = 0 THEN [c \in CallIds(messages) |-> "unknown"]
        ELSE IF messages[i].role = "assistant" THEN Remembered(names[i - 1], messages[i])
        ELSE names[i - 1]
  IN Merged([i \in DOMAIN messages |->
               [role   |-> GoogleRole(messages[i]),
                blocks |-> GoogleBlocks(names[i], messages[i])]])

GoogleToolConfig(req) ==
  LET mode == [auto |-> "AUTO", none |-> "NONE", required |-> "ANY", named |-> "ANY"]
  IN IF req.choice \in DOMAIN mode THEN mode[req.choice] ELSE "absent"

(* An explicit null counts as absent. *)
GenerationConfig(req) ==
  {<<"maxOutputTokens", "given">> : x \in {FirstGiven(req, None)} \ {None}} \cup
  {<<k, "given">> : k \in {p \in {"temperature", "top_p", "stop"} : req.params[p] = "given"}}

(* JSON schemas for Gemini: definitions are inlined where they are         *)
(* referenced, a cyclic or unknown reference is dropped.  The nodes of a   *)
(* document are named; each has a child under each of its keys (an array   *)
(* under its indices, a scalar none), and an object perhaps a $ref.  The   *)
(* root's definitions are the nodes named in defs.  A nullable type union  *)
(* is the two keys it becomes.                                             *)

Rejected == {"$schema", "additionalProperties", "$defs", "definitions", "$ref"}

(* The keys a node keeps: what it calls by a rejected name goes too, be it *)
(* a property of that name.                                                *)
Own(doc, n) == DOMAIN doc.nodes[n].kids \ Rejected

AllKeys(doc) == UNION {Own(doc, n) : n \in DOMAIN doc.nodes}

(* Only an object takes the place of a reference. *)
Inlined(doc) == {d \in doc.defs : doc.nodes[d].object}

(* Mutant: a reference inside a definition is taken for a cycle. *)
ResolvableAtTop(doc, ref, seen) == ref \in Inlined(doc) /\ seen = {}

Resolvable(doc, ref, seen) == ref \in Inlined(doc) \ seen

(* The nodes the output is assembled from, each with the keys it gives. A  *)
(* visit is a node, the references it is inside of, and the keys that the  *)
(* siblings of the references to it have: those win.                       *)
sanitizeSchema(doc) ==
  LET walk[v \in (DOMAIN doc.nodes) \X (SUBSET doc.defs) \X (SUBSET AllKeys(doc))] ==
        LET node  == doc.nodes[v[1]]
            shown == Own(doc, v[1]) \ v[3]
        IN {<<v[1], shown>>}
             \cup (UNION {walk[<<node.kids[k], v[2], {}>>] : k \in shown})
             \cup (IF Resolvable(doc, node.ref, v[2])
                     THEN walk[<<node.ref, v[2] \cup {node.ref}, v[3] \cup Own(doc, v[1])>>] ELSE {})
  IN walk[<<"root", {}, {}>>]

GoogleRequest(req) ==
  [turns  |-> GoogleTurns(req.messages),
   system |-> SystemTexts(req.messages) # <<>>,
   tools  |-> req.tools = "some",
   choice |-> GoogleToolConfig(req),
   schema |-> IF req.schema = Null THEN Null ELSE sanitizeSchema(req.schema),
   fields |-> GenerationConfig(req)]

mapFinishReason(reason, sawCall) ==
  LET mapped == CASE reason = "MAX_TOKENS" -> "length"
                  [] reason = "SAFETY"     -> "content_filter"
                  [] OTHER                 -> "stop"
  IN IF sawCall /\ mapped = "stop" THEN "tool_calls" ELSE mapped

-----------------------------------------------------------------------------
(* Complete answers.  Upstream content is a sequence of pieces: text, a    *)
(* tool call, a tool call without arguments, or something else.            *)

SaidTexts(said) == Only(said, {"text"})
SaidCalls(said) == Only(said, {"call", "bare"})

Answer(said, finish) ==
  [texts  |-> Len(SaidTexts(said)),
   calls  |-> [k \in DOMAIN SaidCalls(said) |->
                 IF SaidCalls(said)[k] = "bare" THEN "{}" ELSE "args"],
   finish |-> finish]

toChatCompletion(said, reason) == Answer(said, mapStopReason(reason))

(* A blocked prompt has no candidate: an empty answer, not an error. *)
completionResult(said, reason) ==
  IF reason = "blocked" THEN Answer(<<>>, "content_filter")
  ELSE Answer(said, mapFinishReason(reason, SaidCalls(said) # <<>>))
=============================================================================
