------------------------------ MODULE Streams ------------------------------
(***************************************************************************)
(* A streamed chat completion, from the upstream to the client:            *)
(*   translate(), chunks() and streamResult() in packages/core/src/        *)
(*     providers/{anthropic,google,openai}.ts                              *)
(*   sseStreamFromChunks in util/sse.ts, redactChatCompletionStream in     *)
(*     server/response.ts                                                  *)
(*   teeForCache, usage and log row in server/routes/chat.ts; replay in    *)
(*     server/pipeline.ts                                                  *)
(*                                                                         *)
(* The web streams between the upstream and the client are queues that     *)
(* move when the next one has room: the provider's stream (`serve`) and    *)
(* the writable side of the redaction (`red`), which transforms a block    *)
(* when the client takes it.  A block is a sequence of chunks, because one *)
(* read of a passed-through stream may hold several and a replayed answer  *)
(* holds all of them; a chunk is a chat.completion.chunk reduced to what   *)
(* tells chunks apart here.                                                *)
(***************************************************************************)
EXTENDS Translation

CONSTANTS MaxEvents,  \* bound: upstream events of one answer, by provider
          ReadTexts,  \* bound: text deltas in one network read of a passed-through stream
          MaxCached   \* MAX_CACHED_STREAM_BYTES, counted in blocks

Sources == {"openai", "anthropic", "google"}

ASSUME StreamsAssumption == /\ MaxEvents \in [Sources -> Nat]
                            /\ ReadTexts \in Nat \ {0} /\ MaxCached \in Nat \ {0}
                            /\ Null \notin [prompt : {1}, completion : {0, 1}]

VARIABLES
  source,  \* the provider whose stream it is
  opts,    \* does the client want usage; is the answer to be cached
  up,      \* the upstream's answer: its stage, what it has said; is the protocol kept
  gen,     \* the provider's generator (the pump of a passed-through stream)
  serve, red,  \* blocks on their way to the client
  copy,    \* the branch of the tee that is captured for the cache
  client,  \* is it reading; the chunks it got; is it a replay
  usage,   \* the usage promise: is it resolved, and to what
  row,     \* text deltas in the settled log row; Null while it is open
  stored   \* the cached answer; Null if there is none

flow       == <<serve, red, copy, client>>
after      == <<usage, row, stored>>
streamVars == <<source, opts, up, gen, flow, after>>

Chunk == [role |-> FALSE, text |-> 0, calls |-> <<>>, finish |-> "",
          choices |-> TRUE, usage |-> Null, done |-> FALSE]
RoleChunk       == [Chunk EXCEPT !.role = TRUE]
TextChunk       == [Chunk EXCEPT !.text = 1]
HeadChunk(i)    == [Chunk EXCEPT !.calls = <<[index |-> i, head |-> TRUE, args |-> ""]>>]
ArgsChunk(i, a) == [Chunk EXCEPT !.calls = <<[index |-> i, head |-> FALSE, args |-> a]>>]
FinishChunk(f)  == [Chunk EXCEPT !.finish = f]
UsageChunk(u)   == [Chunk EXCEPT !.choices = FALSE, !.usage = u]
DoneChunk       == [Chunk EXCEPT !.choices = FALSE, !.done = TRUE]

Tokens(prompt, completion) == [prompt |-> prompt, completion |-> completion]

StreamInit ==
  /\ source \in Sources
  /\ opts \in [usage : BOOLEAN, caching : BOOLEAN]
  /\ up = [stage |-> "start", events |-> 0, blocks |-> <<>>, said |-> <<>>,
           reason |-> None, told |-> Null, protocol |-> "kept"]
  /\ gen = [state |-> "running", out |-> <<>>, tools |-> <<>>, args |-> {}, flushed |-> {},
            role |-> FALSE, calls |-> 0, saw |-> Null]
  /\ serve = <<>> /\ red = <<>>
  /\ copy = [state |-> IF opts.caching THEN "reading" ELSE "off", blocks |-> <<>>]
  /\ client = [state |-> "reading", got |-> <<>>, replay |-> FALSE]
  /\ usage = [settled |-> FALSE, tokens |-> Null] /\ row = Null /\ stored = Null

-----------------------------------------------------------------------------
(* Anthropic: the events of a message and what translate() yields for      *)
(* each.  `tools` are the blocks of the tool calls in the order they began: *)
(* the position is the tool_calls index, of a block that began twice the   *)
(* later one.                                                              *)

IndexOf(tools, b) == Max({i \in DOMAIN tools : tools[i] = b}) - 1

(* "{}" for every tool block (or the given ones) that carried no arguments *)
Bare(g, blocks) ==
  Kept(g.tools, {i \in DOMAIN g.tools :
                   /\ g.tools[i] \in blocks \ (g.args \cup g.flushed)
                   /\ \A j \in 1 .. i - 1 : g.tools[j] # g.tools[i]})

flushEmptyToolArgs(g, blocks) ==
  [g EXCEPT !.flushed = @ \cup ToSet(Bare(g, blocks)),
            !.out = [i \in DOMAIN Bare(g, blocks) |->
                       ArgsChunk(IndexOf(g.tools, Bare(g, blocks)[i]), "{}")]]

MessageStart(g) == [g EXCEPT !.saw = Tokens(1, 0), !.out = <<RoleChunk>>]

(* Mutant: numbered by content block, not by tool call. *)
BlockStartByBlock(g, e) ==
  IF e.tool THEN [g EXCEPT !.tools = Append(@, e.block), !.out = <<HeadChunk(e.block - 1)>>]
            ELSE g

BlockStart(g, e) ==
  IF e.tool THEN [g EXCEPT !.tools = Append(@, e.block), !.out = <<HeadChunk(Len(g.tools))>>]
            ELSE g

BlockDelta(g, e) ==
  IF ~e.tool THEN [g EXCEPT !.out = <<TextChunk>>]
  ELSE IF e.block \notin ToSet(g.tools) THEN g
  ELSE [g EXCEPT !.args = @ \cup {e.block},
                 !.out = <<ArgsChunk(IndexOf(g.tools, e.block), "part")>>]

MessageDelta(g, e) == [g EXCEPT !.saw = Tokens(IF g.saw = Null THEN 0 ELSE g.saw.prompt, 1),
                                !.out = <<FinishChunk(mapStopReason(e.reason))>>]

(* Mutant: tool calls without arguments are not swept up. *)
MessageStopUnswept(g) ==
  [g EXCEPT !.state = "returning", !.out = IF opts.usage THEN <<UsageChunk(g.saw)>> ELSE <<>>]

MessageStop(g) ==
  LET swept == flushEmptyToolArgs(g, ToSet(g.tools))
  IN [swept EXCEPT !.state = "returning",
                   !.out = @ \o (IF opts.usage THEN <<UsageChunk(g.saw)>> ELSE <<>>)]

StreamError(g) ==
  LET swept == flushEmptyToolArgs(g, ToSet(g.tools))
  IN [swept EXCEPT !.state = "returning", !.out = Append(@, FinishChunk("stop"))]

translate(g, e) ==
  CASE e.type = "message_start"       -> MessageStart(g)
    [] e.type = "content_block_start" -> BlockStart(g, e)
    [] e.type = "content_block_delta" -> BlockDelta(g, e)
    [] e.type = "content_block_stop"  -> flushEmptyToolArgs(g, {e.block})
    [] e.type = "message_delta"       -> MessageDelta(g, e)
    [] e.type = "message_stop"        -> MessageStop(g)
    [] e.type = "error"               -> StreamError(g)
    [] OTHER                          -> g

-----------------------------------------------------------------------------
(* Gemini: an event carries text, whole function calls, a finish reason,   *)
(* token counts; or no candidate, and perhaps that the prompt was blocked. *)

Delta(g, e) ==
  [Chunk EXCEPT !.role = ~g.role, !.text = IF e.text THEN 1 ELSE 0,
                !.calls = [i \in 1 .. e.calls |->
                             [index |-> g.calls + i - 1, head |-> TRUE, args |-> "whole"]],
                !.finish = IF e.reason = None THEN ""
                           ELSE mapFinishReason(e.reason, g.calls + e.calls > 0)]

Noted(g, e) == IF e.counts = Null THEN g ELSE [g EXCEPT !.saw = e.counts]

chunks(g, e) ==
  IF ~e.candidate
    THEN IF e.reason = None THEN Noted(g, e)
         ELSE [Noted(g, e) EXCEPT !.role = TRUE,
                 !.out = <<[FinishChunk("content_filter") EXCEPT !.role = ~g.role]>>]
  ELSE IF e.reason = None /\ g.role /\ ~e.text /\ e.calls = 0
    THEN Noted(g, e)
  ELSE [Noted(g, e) EXCEPT !.role = TRUE, !.calls = @ + e.calls, !.out = <<Delta(g, e)>>]

(* At the end Gemini's usage is added when the client asked for it.        *)
Epilogue(g) ==
  [g EXCEPT !.state = "returning",
            !.out = IF source = "google" /\ opts.usage
                      THEN <<UsageChunk(IF g.saw = Null THEN Tokens(0, 0) ELSE g.saw)>>
                      ELSE <<>>]

-----------------------------------------------------------------------------
(* What an upstream sends.  An element is an event and what it tells: the  *)
(* next stage of the protocol, the content said so far, the counts.        *)

Event(e, stage, said, told) ==
  [event |-> e, stage |-> stage, said |-> said, told |-> told, protocol |-> up.protocol]

AnthropicEvent(type, tool, block, reason) ==
  [type |-> type, tool |-> tool, block |-> block, reason |-> reason]

(* An event that says nothing of the answer. *)
Notice(type, stage) ==
  Event(AnthropicEvent(type, FALSE, Len(up.blocks), None), stage, up.said, up.told)

BlockStarts(tool) ==
  Event(AnthropicEvent("content_block_start", tool, Len(up.blocks) + 1, None), "block",
        IF tool THEN Append(up.said, "bare") ELSE up.said, up.told)

BlockGoesOn ==
  Event(AnthropicEvent("content_block_delta", Last(up.blocks), Len(up.blocks), None), "block",
        IF Last(up.blocks) THEN Append(Front(up.said), "call") ELSE Append(up.said, "text"),
        up.told)

MessageEnds(reason) ==
  Event(AnthropicEvent("message_delta", FALSE, Len(up.blocks), reason), "ending",
        up.said, Tokens(1, 1))

(* Against the protocol: another start of a block, or the arguments or the *)
(* stop of one that is not open.                                           *)
Stray(type, b) ==
  [Event(AnthropicEvent(type, TRUE, b, None), up.stage, up.said, up.told)
     EXCEPT !.protocol = "broken"]

OpenBlock == IF up.stage = "block" THEN Len(up.blocks) ELSE 0

Strays == {Stray("content_block_start", b) : b \in 1 .. Len(up.blocks)} \cup
          {Stray(type, b) : type \in {"content_block_delta", "content_block_stop"},
                            b \in 1 .. Len(up.blocks) \ {OpenBlock}}

(* Blocks follow one another; a stop may be missing, an error may come at  *)
(* any time, strays and events of unknown types are mixed in.              *)
AnthropicEvents ==
  CASE up.stage = "start"   -> {[Notice("message_start", "between") EXCEPT !.told = Tokens(1, 0)]}
    [] up.stage = "between" -> {BlockStarts(TRUE), BlockStarts(FALSE), MessageEnds("end_turn"),
                                MessageEnds("tool_use"), Notice("ping", "between"),
                                Notice("error", "failed")} \cup Strays
    [] up.stage = "block"   -> {BlockGoesOn, Notice("content_block_stop", "between"),
                                BlockStarts(TRUE), MessageEnds("tool_use"),
                                Notice("error", "failed")} \cup Strays
    [] up.stage = "ending"  -> {Notice("message_stop", "said"), Notice("error", "failed")}
    [] OTHER                -> {}

(* The parts of an event: is there text, and how many function calls. *)
EventParts == {<<FALSE, 0>>, <<TRUE, 0>>, <<FALSE, 1>>, <<TRUE, 2>>}

GoogleEvent(candidate, parts, reason) ==
  LET text   == parts[1]
      calls  == parts[2]
      counts == IF text THEN Tokens(1, up.events + 1) ELSE Null
  IN Event([candidate |-> candidate, text |-> text, calls |-> calls, reason |-> reason,
            counts |-> counts],
           IF reason # None THEN "said" ELSE "start",
           up.said \o (IF text THEN <<"text">> ELSE <<>>) \o [i \in 1 .. calls |-> "call"],
           IF counts = Null THEN up.told ELSE counts)

GoogleEvents ==
  IF up.stage # "start" THEN {}
  ELSE {GoogleEvent(TRUE, c[1], c[2]) : c \in EventParts \X {None, "STOP", "MAX_TOKENS"}}
         \cup {GoogleEvent(FALSE, <<FALSE, 0>>, r) :
                 r \in {None} \cup (IF up.said = <<>> THEN {"blocked"} ELSE {})}

(* What the chunks of a read say, and the chunk of the next tool call. *)
SaidWith(block) ==
  up.said \o FlattenSeq([i \in DOMAIN block |->
               (IF block[i].text = 1 THEN <<"text">> ELSE <<>>) \o
               (IF block[i].calls # <<>> THEN <<"call">> ELSE <<>>)])

NextCall == [HeadChunk(Len(SaidCalls(up.said))) EXCEPT !.calls[1].args = "whole"]

TextRun(n) == [i \in 1 .. n |-> TextChunk]

(* One network read of a passed-through stream: one chunk or several.      *)
OpenAIReads ==
  LET read(block, stage)   == Event(block, stage, SaidWith(block), up.told)
      counts(block, stage) == Event(block, stage, SaidWith(block), Tokens(1, 1))
      count == UsageChunk(Tokens(1, 1))
  IN CASE up.stage = "start"  -> {read(<<RoleChunk>>, "body")}
       [] up.stage = "body"   -> {read(TextRun(n), "body") : n \in 1 .. ReadTexts} \cup
                                 {read(<<NextCall>>, "body")} \cup
                                 {read(Append(TextRun(n), FinishChunk("stop")), "ending") :
                                    n \in 0 .. ReadTexts}
       [] up.stage = "ending" -> {counts(<<count>>, "counted"), counts(<<count, DoneChunk>>, "said"),
                                  read(<<DoneChunk>>, "said")}
       [] up.stage = "counted" -> {read(<<DoneChunk>>, "said")}
       [] OTHER               -> {}

Events == CASE source = "anthropic" -> AnthropicEvents
            [] source = "google"    -> GoogleEvents
            [] source = "openai"    -> OpenAIReads

-----------------------------------------------------------------------------
(* The provider's stream *)

Running == gen.state = "running" /\ gen.out = <<>>

(* Mutant: pull whenever somebody reads. *)
WantedAlways == copy.state = "reading" \/ client.state # "gone"

(* A block is pulled when a reader wants one: the capture always does, the *)
(* client's side when it has none left.                                    *)
Wanted == copy.state = "reading" \/ (client.state # "gone" /\ serve = <<>>)

(* The pump notes the usage of the chunks it relays. *)
noteMessage(g, block) ==
  LET counted == {i \in DOMAIN block : block[i].usage # Null}
  IN [g EXCEPT !.out = <<block>>,
               !.saw = IF counted = {} THEN @ ELSE block[Max(counted)].usage]

UpstreamSays ==
  /\ Running /\ Wanted /\ client.state = "reading" /\ up.events < MaxEvents[source]
  /\ \E x \in Events :
       /\ up' = [up EXCEPT !.events = @ + 1, !.stage = x.stage, !.said = x.said, !.told = x.told,
                  !.protocol = x.protocol,
                  !.blocks = IF /\ source = "anthropic" /\ x.event.type = "content_block_start"
                                /\ x.event.block > Len(@)
                               THEN Append(@, x.event.tool) ELSE @,
                  !.reason = IF source # "openai" /\ x.event.reason # None
                               THEN x.event.reason ELSE @]
       /\ gen' = CASE source = "anthropic" -> translate(gen, x.event)
                    [] source = "google"    -> chunks(gen, x.event)
                    [] source = "openai"    -> noteMessage(gen, x.event)
  /\ UNCHANGED <<source, opts, flow, after>>

(* The upstream's body ends, complete or not. *)
UpstreamEnds == /\ Running /\ Wanted /\ client.state = "reading"
                /\ gen' = Epilogue(gen)
                /\ UNCHANGED <<source, opts, up, flow, after>>

(* Mutant: beyond the cap blocks are dropped. *)
CapturedTruncated(block) ==
  IF copy.state # "reading" \/ Len(copy.blocks) = MaxCached THEN copy
  ELSE [copy EXCEPT !.blocks = Append(@, block)]

(* The captured branch keeps blocks up to the cap and is given up beyond.  *)
Captured(block) ==
  IF copy.state # "reading" THEN copy
  ELSE IF Len(copy.blocks) = MaxCached THEN [state |-> "over", blocks |-> <<>>]
  ELSE [copy EXCEPT !.blocks = Append(@, block)]

Enqueued(block) == IF client.state = "gone" THEN serve ELSE Append(serve, block)

Yield ==
  /\ gen.out # <<>> /\ Wanted /\ gen.state \in {"running", "returning"}
  /\ LET block == IF source = "openai" THEN Head(gen.out) ELSE <<Head(gen.out)>>
     IN serve' = Enqueued(block) /\ copy' = Captured(block)
  /\ gen' = [gen EXCEPT !.out = Tail(@)]
  /\ UNCHANGED <<source, opts, up, red, client, after>>

(* The chunks that have text. *)
Texts(block) == Cardinality({i \in DOMAIN block : block[i].text = 1})

(* The usage promise keeps its first value; the log row is completed when  *)
(* it resolves, with the text that has passed the redaction by then.       *)
Resolve(tokens) ==
  IF usage.settled THEN UNCHANGED <<usage, row>>
  ELSE /\ usage' = [settled |-> TRUE, tokens |-> tokens]
       /\ row' = Texts(client.got)

(* sseStreamFromChunks closes with [DONE]; the pump relayed the upstream's. *)
Closing == IF source = "openai" THEN copy ELSE Captured(<<DoneChunk>>)

(* The end of the stream: an answer captured whole is stored, if the cache *)
(* takes it.                                                               *)
Returns ==
  /\ gen.state = "returning" /\ gen.out = <<>> /\ Wanted
  /\ gen' = [gen EXCEPT !.state = "returned"]
  /\ Resolve(gen.saw)
  /\ serve' = IF source = "openai" THEN serve ELSE Enqueued(<<DoneChunk>>)
  /\ copy' = IF Closing.state = "reading" THEN [Closing EXCEPT !.state = "whole"] ELSE Closing
  /\ stored' \in {Null} \cup (IF Closing.state # "reading" THEN {}
                                ELSE {[chunks |-> FlattenSeq(Closing.blocks), usage |-> gen.saw]})
  /\ UNCHANGED <<source, opts, up, red, client>>

(* Mutant *)
OnErrorForgets == Null

(* The translators resolve in a finally; the pump knows nothing on errors. *)
OnError == IF source = "openai" THEN Null ELSE gen.saw

(* The upstream breaks off, or the fetch was aborted because the client    *)
(* left.  An errored stream forgets what is queued in it.                  *)
Throws ==
  /\ Running /\ Wanted
  /\ gen' = [gen EXCEPT !.state = "threw"]
  /\ Resolve(OnError)
  /\ serve' = <<>>
  /\ copy' = IF copy.state = "reading" THEN [state |-> "broken", blocks |-> <<>>] ELSE copy
  /\ UNCHANGED <<source, opts, up, red, client, stored>>

-----------------------------------------------------------------------------
(* The client's side *)

(* Neither usage nor anything of the upstream's own passes. *)
redactChatCompletionChunk(c) ==
  [role |-> c.role, text |-> c.text, calls |-> c.calls, finish |-> c.finish,
   choices |-> c.choices, usage |-> Null, done |-> c.done]

redacted(block) ==
  LET public == Kept(block, {i \in DOMAIN block : block[i].choices \/ block[i].done})
  IN [i \in DOMAIN public |-> redactChatCompletionChunk(public[i])]

Pipe == /\ serve # <<>> /\ red = <<>>
        /\ red' = <<Head(serve)>> /\ serve' = Tail(serve)
        /\ UNCHANGED <<source, opts, up, gen, copy, client, after>>

Deliver == /\ red # <<>> /\ client.state = "reading"
           /\ client' = [client EXCEPT !.got = @ \o redacted(red[1])] /\ red' = <<>>
           /\ UNCHANGED <<source, opts, up, gen, serve, copy, after>>

BodyEnds ==
  /\ client.state = "reading" /\ serve = <<>> /\ red = <<>>
  /\ \/ gen.state = "returned" /\ client' = [client EXCEPT !.state = "done"]
     \/ gen.state = "threw"    /\ client' = [client EXCEPT !.state = "failed"]
  /\ UNCHANGED <<source, opts, up, gen, serve, red, copy, after>>

(* The client hangs up: its request's signal aborts the fetch, and the     *)
(* response body is cancelled soon after.                                  *)
HangUp == /\ client.state = "reading" /\ client' = [client EXCEPT !.state = "left"]
          /\ UNCHANGED <<source, opts, up, gen, serve, red, copy, after>>

CancelBody ==
  /\ client.state = "left" /\ client' = [client EXCEPT !.state = "gone"]
  /\ serve' = <<>> /\ red' = <<>>
  /\ UNCHANGED <<source, opts, up, gen, copy, after>>

(* Mutant: usage is not settled on cancel. *)
CancelSourceUnsettled ==
  /\ client.state = "gone" /\ copy.state # "reading"
  /\ gen.state \in {"running", "returning"}
  /\ gen' = [gen EXCEPT !.state = "cancelled", !.out = <<>>]
  /\ UNCHANGED <<source, opts, up, flow, after>>

(* With no branch left that reads, the provider's stream is cancelled.     *)
CancelSource ==
  /\ client.state = "gone" /\ copy.state # "reading"
  /\ gen.state \in {"running", "returning"}
  /\ gen' = [gen EXCEPT !.state = "cancelled", !.out = <<>>]
  /\ Resolve(OnError)
  /\ UNCHANGED <<source, opts, up, flow, stored>>

(* A later request for the same answer gets it from the cache, as one      *)
(* block, through the same redaction; its usage is known from the start.   *)
Replay ==
  /\ stored # Null /\ ~client.replay /\ client.state \notin {"reading", "left"}
  /\ serve' = <<stored.chunks>> /\ red' = <<>>
  /\ client' = [state |-> "reading", got |-> <<>>, replay |-> TRUE]
  /\ usage' = [settled |-> TRUE, tokens |-> stored.usage] /\ row' = 0
  /\ UNCHANGED <<source, opts, up, gen, copy, stored>>

StreamNext == \/ UpstreamSays \/ UpstreamEnds \/ Yield \/ Returns \/ Throws
              \/ Pipe \/ Deliver \/ BodyEnds \/ HangUp \/ CancelBody \/ CancelSource
              \/ Replay

(* Callbacks run; nothing says when, or whether, an upstream answers or a  *)
(* client reads.  Once a client has left, its aborted fetch rejects.       *)
StreamFairness ==
  /\ WF_streamVars(Yield) /\ WF_streamVars(Returns) /\ WF_streamVars(CancelBody)
  /\ WF_streamVars(CancelSource)
  /\ WF_streamVars(client.state \in {"left", "gone"} /\ Throws)

StreamSpec == StreamInit /\ [][StreamNext]_streamVars /\ StreamFairness

-----------------------------------------------------------------------------
(* Properties *)

(* The pieces of tool calls in the chunks, those that begin a call, and    *)
(* what arguments a call is given.                                         *)
Deltas(got)      == FlattenSeq([i \in DOMAIN got |-> got[i].calls])
Begins(deltas)   == {i \in DOMAIN deltas : deltas[i].head}
Given(deltas, k) == {deltas[i].args : i \in {j \in DOMAIN deltas : deltas[j].index = k}} \ {""}

FinishOf(got) == LET finishes == {i \in DOMAIN got : got[i].finish # ""}
                 IN IF finishes = {} THEN "" ELSE got[Max(finishes)].finish

(* What a client puts together from the chunks. *)
Assembled(got) ==
  LET deltas == Deltas(got)
  IN [texts  |-> Texts(got),
      calls  |-> [k \in 1 .. Cardinality(Begins(deltas)) |->
                    CASE Given(deltas, k - 1) = {}     -> ""
                      [] Given(deltas, k - 1) = {"{}"} -> "{}"
                      [] OTHER                         -> "args"],
      finish |-> FinishOf(got)]

(* Tool calls are numbered from 0 in the order they begin, none gets       *)
(* arguments before it has begun, and [DONE] is last: at every moment of   *)
(* every stream, replays included, whichever events the upstream leaves    *)
(* out or adds.  While no stray event has come, a call whose arguments are *)
(* "{}" gets no others; arguments for a stopped block follow its "{}".     *)
StreamWellFormed ==
  LET got    == client.got
      deltas == Deltas(got)
  IN /\ \A i \in Begins(deltas) :
          deltas[i].index = Cardinality({j \in Begins(deltas) : j < i})
     /\ \A i \in DOMAIN deltas :
          \E j \in 1 .. i : deltas[j].head /\ deltas[j].index = deltas[i].index
     /\ up.protocol = "kept" =>
          \A i, j \in DOMAIN deltas :
            /\ deltas[i].index = deltas[j].index
            /\ deltas[i].args = "{}" /\ deltas[j].args # ""
            => i = j
     /\ \A i \in DOMAIN got : got[i].done => i = Len(got)
     /\ \A i \in DOMAIN got : got[i].usage = Null

Complete == client.state = "done" /\ up.stage = "said"

(* The complete answer the provider would have made of the same content.   *)
Reference ==
  CASE source = "anthropic" -> toChatCompletion(up.said, up.reason)
    [] source = "google"    -> completionResult(up.said, up.reason)
    [] source = "openai"    -> Answer(up.said, "stop")

(* Streaming changes when a client learns the answer, not which: the       *)
(* chunks of a stream that ended properly, live or replayed, add up to     *)
(* what chat() returns for the same content without streaming.             *)
StreamAgrees == Complete /\ up.protocol = "kept" => Assembled(client.got) = Reference

(* Budgets are charged what the upstream last told, however the stream     *)
(* ends; only a passed-through stream that breaks or is cancelled is not   *)
(* charged.                                                                *)
UsageTruthful ==
  usage.settled =>
    \/ usage.tokens = up.told
    \/ source = "openai" /\ gen.state \in {"threw", "cancelled"} /\ usage.tokens = Null

(* What is stored is everything the generator yielded, to its return:      *)
(* never a stream that threw, was cancelled or outgrew the cap.  An answer *)
(* whose upstream ended it early without an error is stored all the same:  *)
(* CachedIsComplete, below, asks what the code claims and fails.           *)
StoredEntire ==
  stored # Null =>
    /\ gen.state = "returned" /\ Len(copy.blocks) <= MaxCached
    /\ stored.chunks = FlattenSeq(copy.blocks)

(* It is what the client of the live stream or of a replay has got by its  *)
(* end and, of an answer that ended properly, what chat() would have       *)
(* returned.                                                               *)
StoredWhole ==
  StoredEntire /\ (stored # Null =>
    /\ client.state = "done" => client.got = redacted(stored.chunks)
    /\ up.stage = "said" /\ up.protocol = "kept" => Assembled(stored.chunks) = Reference)

(* What one block may hold. *)
BlockTexts == IF source = "openai" THEN ReadTexts ELSE 1

(* The usage promise, on which the log row is completed, resolves when the *)
(* provider's stream is drained, and that runs ahead of the client.  By    *)
(* back pressure it runs ahead by one block, so the row of a live answer   *)
(* nobody captures misses at most the text of the last block: one delta of *)
(* a translated stream, all those of one network read of a passed-through  *)
(* one.  (response.ts says that nothing is delivered that was not          *)
(* captured; that text is.)                                                *)
RowMissesOnlyTail ==
  ~opts.caching /\ client.state = "done" => Texts(client.got) - row \in 0 .. BlockTexts

(* A client that leaves at any moment still has its usage settled, and     *)
(* with it its concurrency slot given back.                                *)
HangUpSettles == client.state = "left" ~> usage.settled

(* "only once the stream finished cleanly - a half-delivered answer must   *)
(* never be replayed as a complete one" (routes/chat.ts).                  *)
CachedIsComplete == stored # Null => up.stage = "said"
=============================================================================
