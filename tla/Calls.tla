------------------------------- MODULE Calls -------------------------------
(***************************************************************************)
(* One call of a provider, up to its result: chat() and embeddings() of    *)
(* AnthropicProvider, GoogleProvider and OpenAICompatibleProvider in       *)
(* packages/core/src/providers.  The upstream may be out of reach, refuse, *)
(* or answer with something that is not JSON.  What happens to an answer   *)
(* that is a stream is in Streams.tla.                                     *)
(***************************************************************************)
EXTENDS Translation

CONSTANTS Requests,  \* the chat requests a client may send
          Inputs,    \* the embeddings requests and model listings
          Contents   \* the contents of a complete upstream answer

(* A schema is JSON: finite, and a tree below its root and each of its     *)
(* definitions, which nothing but a reference leads to.                    *)
Kids(doc, n) == {doc.nodes[n].kids[k] : k \in DOMAIN doc.nodes[n].kids}

IsTree(doc) ==
  /\ "root" \in DOMAIN doc.nodes \ doc.defs /\ doc.defs \subseteq DOMAIN doc.nodes
  /\ IsFiniteSet(DOMAIN doc.nodes)
  /\ \A n \in DOMAIN doc.nodes : Kids(doc, n) \subseteq DOMAIN doc.nodes \ doc.defs
  /\ \A n \in DOMAIN doc.nodes : ~doc.nodes[n].object => doc.nodes[n].ref = None
  /\ \E height \in [DOMAIN doc.nodes -> 0 .. Cardinality(DOMAIN doc.nodes)] :
       \A n \in DOMAIN doc.nodes : \A k \in Kids(doc, n) : height[k] < height[n]

ASSUME RequestsAssumption ==
  /\ \A r \in Requests :
       /\ IsSeq(r.messages)
       /\ \A i \in DOMAIN r.messages :
            /\ IsSeq(r.messages[i].parts) /\ IsSeq(r.messages[i].calls)
            /\ r.messages[i].absent => r.messages[i].parts = <<>>
       /\ r.schema = Null \/ IsTree(r.schema)
  /\ \A r \in Inputs : r.kind # "chat"

VARIABLES provider,  \* the provider that is called
          request,   \* the client's request, until the upstream answers
          sent,      \* what the upstream is sent, until it answers
          outcome    \* the ChatResult or EmbeddingsResult

callVars == <<provider, request, sent, outcome>>

CallInit == /\ provider \in {"openai", "anthropic", "google"}
            /\ request \in Requests \cup Inputs
            /\ sent = Null /\ outcome = Null

-----------------------------------------------------------------------------
(* Usage is asked for whatever the client says: budgets depend on it. *)
OpenAIRequest(req) ==
  [turns |-> req.messages, system |-> FALSE, tools |-> req.tools # "absent",
   choice |-> req.choice, schema |-> req.schema,
   fields |-> {<<k, req.params[k]>> : k \in DOMAIN req.params}
                \cup (IF req.stream THEN {<<"include_usage", "given">>} ELSE {})]

Waiting(kind) == request # Null /\ request.kind = kind /\ sent = Null
Sent(kind)    == request # Null /\ request.kind = kind /\ sent # Null

Settles(result) == /\ outcome' = result /\ request' = Null /\ sent' = Null
                   /\ UNCHANGED provider

Error(status) == [kind |-> "error", status |-> status]

(* The translating providers serve one choice per request. *)
RefuseN == /\ Waiting("chat") /\ provider # "openai" /\ request.n > 1
           /\ Settles(Error(400))

(* Tools that are null cannot be gone through; nor, for Anthropic, can the *)
(* content of a message that has none.                                     *)
Unreadable(req) ==
  \/ req.tools = "null"
  \/ provider = "anthropic" /\ \E i \in DOMAIN req.messages :
       /\ req.messages[i].absent
       /\ IsSystem(req.messages[i]) \/ req.messages[i].role \in {"user", "assistant", "tool"}

(* The server answers that something is wrong with it. *)
TranslationThrows == /\ Waiting("chat") /\ provider # "openai" /\ request.n = 1
                     /\ Unreadable(request)
                     /\ Settles([kind |-> "thrown"])

SendChat == /\ Waiting("chat") /\ (provider = "openai" \/ (request.n = 1 /\ ~Unreadable(request)))
            /\ sent' = CASE provider = "openai"    -> OpenAIRequest(request)
                         [] provider = "anthropic" -> toAnthropicRequest(request)
                         [] provider = "google"    -> GoogleRequest(request)
            /\ UNCHANGED <<provider, request, outcome>>

(* Gemini embeds strings only; Anthropic has no embeddings() at all. *)
RefuseTokens == /\ Waiting("embeddings") /\ provider = "google" /\ request.tokens
                /\ Settles(Error(400))

SendEmbeddings == /\ Waiting("embeddings")
                  /\ provider = "openai" \/ (provider = "google" /\ ~request.tokens)
                  /\ sent' = [texts |-> request.texts]
                  /\ UNCHANGED <<provider, request, outcome>>

(* No answer, no body for a stream, or one that cannot be parsed. *)
FetchFails == /\ Sent("chat") \/ Sent("embeddings")
              /\ Settles(Error(502))

upstreamErrorToResult(status) == Error(IF status >= 500 THEN 502 ELSE status)

UpstreamRefuses == /\ Sent("chat") \/ Sent("embeddings")
                   /\ \E status \in {400, 429, 500, 503} :
                        Settles(upstreamErrorToResult(status))

StreamStarts == /\ Sent("chat") /\ request.stream
                /\ Settles([kind |-> "stream"])

(* A Gemini answer without a candidate is an empty completion. *)
Completed(said, reason) ==
  CASE provider = "anthropic" -> toChatCompletion(said, reason)
    [] provider = "google"    -> completionResult(said, reason)
    [] provider = "openai"    -> Answer(said, reason)

Completes ==
  /\ Sent("chat") /\ ~request.stream
  /\ \E said \in Contents, reason \in {"max_tokens", "tool_use", "refusal", "end_turn"} :
       Settles([kind |-> "completion", answer |-> Completed(said, reason)])

(* Gemini's vectors are numbered in the order of its answer. *)
Embeds == /\ Sent("embeddings")
          /\ Settles([kind |-> "embeddings",
                      index |-> [i \in 1 .. Len(request.texts) |-> i - 1]])

(* Listing models never fails: whatever is wrong with the upstream or one  *)
(* of the entries, the rest is a list, at worst the configured one.        *)
ListModels ==
  /\ Waiting("models")
  /\ \/ \E items \in Contents :
          Settles([kind |-> "models", ids |-> Len(SelectSeq(items, LAMBDA x : x # "other"))])
     \/ Settles([kind |-> "models", ids |-> IF provider = "openai" THEN request.static ELSE 0])

CallNext == \/ RefuseN \/ TranslationThrows \/ SendChat \/ RefuseTokens \/ SendEmbeddings \/ FetchFails
            \/ UpstreamRefuses \/ StreamStarts \/ Completes \/ Embeds \/ ListModels

-----------------------------------------------------------------------------
(* Properties *)

Translated == provider # "openai" /\ Sent("chat")
Blocks(turns) == FlattenSeq([i \in DOMAIN turns |-> turns[i].blocks])

Alternate(turns) ==
  /\ \A i \in DOMAIN turns : turns[i].blocks # <<>>
  /\ \A i \in 2 .. Len(turns) : turns[i].role # turns[i - 1].role

(* A message with nothing that the upstream can be told in a turn.         *)
Silent(m) ==
  \/ IsSystem(m)
  \/ provider = "anthropic" /\ m.role \notin {"user", "assistant", "tool"}
  \/ /\ m.role # "tool" /\ (m.role = "assistant" => m.calls = <<>>)
     /\ ToSet(m.parts) \cap (IF provider = "anthropic" THEN {"text", "image"} ELSE Parts \ {"other"}) = {}

(* Both APIs reject a conversation whose turns repeat a role or are empty, *)
(* and Anthropic one that an assistant opens: however the client's roles   *)
(* follow one another and whichever messages come out empty, the turns     *)
(* that are sent alternate and say something; and there is no turn at all  *)
(* only if none of the messages has anything to say in one.                *)
TurnsAlternate ==
  Translated =>
    /\ Alternate(sent.turns)
    /\ provider = "anthropic" /\ sent.turns # <<>> => sent.turns[1].role = "user"
    /\ sent.turns = <<>> => \A i \in DOMAIN request.messages : Silent(request.messages[i])

ToolKinds == {"tool_use", "tool_result", "functionCall", "functionResponse"}

Tool(id, name)  == [id |-> id, name |-> name]
Told(block)     == IF block.kind \in ToolKinds THEN <<Tool(block.id, block.name)>> ELSE <<>>
ToolsIn(blocks) == FlattenSeq([i \in DOMAIN blocks |-> Told(blocks[i])])

(* The name a tool result is sent under, by definition: that of the latest *)
(* call before it with its id.                                             *)
NameOf(messages, i, id) ==
  LET callers == {j \in 1 .. i - 1 : messages[j].role = "assistant" /\ CallsOf(messages[j], id) # {}}
      latest  == messages[Max(callers)]
  IN IF callers = {} THEN "unknown" ELSE latest.calls[Max(CallsOf(latest, id))].name

ToolsOf(messages, i, naming) ==
  LET m == messages[i]
  IN CASE m.role = "assistant" -> [k \in DOMAIN m.calls |-> Tool(m.calls[k].id, m.calls[k].name)]
       [] m.role = "tool"      -> <<Tool(m.id, IF naming THEN NameOf(messages, i, m.id) ELSE None)>>
       [] OTHER                -> <<>>

(* Merging turns loses, invents and reorders nothing: the tool calls and   *)
(* results that are sent are the client's, in its order, and a result goes *)
(* to Gemini under the name of the call it answers.                        *)
ToolsFaithful ==
  Translated =>
    ToolsIn(Blocks(sent.turns))
      = FlattenSeq([i \in DOMAIN request.messages |->
                      ToolsOf(request.messages, i, provider = "google")])

(* The nodes from which references alone lead to a definition: any set of  *)
(* nodes with that and with whatever refers to one of them has these.      *)
Referrers(doc, d) ==
  {n \in DOMAIN doc.nodes :
     \A S \in SUBSET DOMAIN doc.nodes :
       d \in S /\ (\A m \in DOMAIN doc.nodes : doc.nodes[m].ref \in S => m \in S) => n \in S}

(* Its keys that a sibling of one of those references takes the place of.  *)
Overridden(doc, d) == UNION {Own(doc, n) : n \in Referrers(doc, d) \ {d}}

(* The nodes a schema document reaches from its root, through keys that    *)
(* nothing takes the place of and through references.                      *)
Reached(doc) ==
  LET sure(n) == {doc.nodes[n].kids[k] : k \in Own(doc, n) \ Overridden(doc, n)}
      next(S) == S \cup UNION {sure(n) \cup ({doc.nodes[n].ref} \cap Inlined(doc)) : n \in S}
      f[i \in 0 .. Cardinality(DOMAIN doc.nodes)] ==
        IF i = 0 THEN {"root"} ELSE next(f[i - 1])
  IN f[Cardinality(DOMAIN doc.nodes)]

(* Gemini rejects $ref, $defs and some other schema keys, and an explicit  *)
(* null: none is forwarded, and yet inlining ends on cyclic references and *)
(* leaves out nothing that the schema reaches, unless it has one of those  *)
(* names or a sibling of a reference takes its place.                      *)
SchemaAccepted ==
  provider = "google" /\ Sent("chat") =>
    /\ \A f \in sent.fields : f[2] # "null"
    /\ request.schema # Null =>
         /\ \A s \in sent.schema : s[2] \cap Rejected = {}
         /\ Reached(request.schema) \subseteq {s[1] : s \in sent.schema}

(* Whatever the client sends, if the translation does not throw, what the  *)
(* other upstream gets has these forms.  They are not all that it asks     *)
(* for: Anthropic is passed an explicit null for top_p and stop, and a     *)
(* conversation of silent messages as one without turns.                   *)
UpstreamAccepts == TurnsAlternate /\ SchemaAccepted
=============================================================================
