-------------------------- MODULE ProvidersProofs --------------------------
(***************************************************************************)
(* Theorems about the usage a stream is charged, what of it is stored and  *)
(* logged (Streams), about chunked text (Chunked) and about what           *)
(* translation makes of a conversation (Translation): for requests, texts, *)
(* events and limits of any size.                                          *)
(***************************************************************************)
EXTENDS Providers, FiniteSetTheorems, SequenceTheorems, WellFoundedInduction, TLAPS

-----------------------------------------------------------------------------
(* Usage                                                                     *)

GenFields == {"state", "out", "tools", "args", "flushed", "role", "calls", "saw"}
UpFields  == {"stage", "events", "blocks", "said", "reason", "told", "protocol"}

\* The generator has seen the counts that the upstream has told; Anthropic's
\* are counted from the first event on.
Seen ==
  /\ source \in Sources /\ DOMAIN gen = GenFields /\ DOMAIN up = UpFields
  /\ gen.saw = up.told
  /\ source = "anthropic" /\ up.stage # "start" =>
       up.told \in [prompt : {1}, completion : {0, 1}]

\* Usage is settled when the generator is through, and then to what it saw;
\* what is stored has it too.
Settled ==
  /\ usage.settled => gen.state \notin {"running", "returning"}
  /\ stored # Null => gen.state = "returned" /\ stored.usage = up.told

UsageInv == Seen /\ Settled /\ UsageTruthful

\* Nothing is settled before the stream begins.
LEMMA UsageStarts == StreamInit => UsageInv
  BY DEF StreamInit, UsageInv, Seen, Settled, UsageTruthful, GenFields, UpFields

\* Of Anthropic's events two carry counts, and the generator notes those.
LEMMA AnthropicCounts ==
  ASSUME Seen, source = "anthropic", NEW x \in AnthropicEvents
  PROVE  /\ DOMAIN translate(gen, x.event) = GenFields
         /\ translate(gen, x.event).saw = x.told
         /\ x.told \in [prompt : {1}, completion : {0, 1}]
<1> DEFINE g == translate(gen, x.event)
<1>1. DOMAIN gen = GenFields /\ gen.saw = up.told
  BY DEF Seen
<1>2. \A blocks : /\ DOMAIN flushEmptyToolArgs(gen, blocks) = GenFields
                  /\ flushEmptyToolArgs(gen, blocks).saw = gen.saw
  BY <1>1 DEF flushEmptyToolArgs, GenFields
<1>3. CASE up.stage = "start"
  <2>1. x.event.type = "message_start" /\ x.told = Tokens(1, 0)
    BY <1>3 DEF AnthropicEvents, Notice, Event, AnthropicEvent
  <2>2. g = MessageStart(gen)
    BY <2>1 DEF translate
  <2> QED
    BY <1>1, <2>1, <2>2 DEF MessageStart, Tokens, GenFields
<1>4. CASE up.stage # "start"
  <2>0. gen.saw \in [prompt : {1}, completion : {0, 1}] /\ gen.saw # Null /\ gen.saw.prompt = 1
    BY <1>1, <1>4, StreamsAssumption DEF Seen
  <2>1. \/ /\ x.event.type \in {"content_block_start", "content_block_delta", "content_block_stop",
                              "message_stop", "error", "ping"}
           /\ x.told = up.told
        \/ x.event.type = "message_delta" /\ x.told = Tokens(1, 1)
    <3>1. \/ x = BlockGoesOn \/ \E tool : x = BlockStarts(tool) \/ \E reason : x = MessageEnds(reason)
          \/ \E type \in {"ping", "error", "content_block_stop", "message_stop"} :
               \E stage : x = Notice(type, stage)
          \/ \E type \in {"content_block_start", "content_block_delta", "content_block_stop"} :
               \E b : x = Stray(type, b)
      <4>1. x \in Strays => \E type \in {"content_block_start", "content_block_delta",
                                       "content_block_stop"} : \E b : x = Stray(type, b)
        BY DEF Strays
      <4> QED
        BY <1>4, <4>1 DEF AnthropicEvents
    <3>2. x = BlockGoesOn => x.event.type = "content_block_delta" /\ x.told = up.told
      BY DEF BlockGoesOn, AnthropicEvent, Event
    <3>3. \A tool : x = BlockStarts(tool) =>
            x.event.type = "content_block_start" /\ x.told = up.told
      BY DEF BlockStarts, AnthropicEvent, Event
    <3>4. \A reason : x = MessageEnds(reason) =>
            x.event.type = "message_delta" /\ x.told = Tokens(1, 1)
      BY DEF MessageEnds, AnthropicEvent, Event
    <3>5. \A type, stage : x = Notice(type, stage) => x.event.type = type /\ x.told = up.told
      BY DEF Notice, AnthropicEvent, Event
    <3>6. \A type, b : x = Stray(type, b) => x.event.type = type /\ x.told = up.told
      BY DEF Stray, AnthropicEvent, Event
    <3> QED
      BY <3>1, <3>2, <3>3, <3>4, <3>5, <3>6
  <2>2. CASE x.event.type = "message_delta" /\ x.told = Tokens(1, 1)
    <3>1. g = MessageDelta(gen, x.event)
      BY <2>2 DEF translate
    <3> QED
      BY <1>1, <2>0, <2>2, <3>1 DEF MessageDelta, Tokens, GenFields
  <2>3. CASE x.event.type = "content_block_start" /\ x.told = up.told
    <3>1. g = BlockStart(gen, x.event)
      BY <2>3 DEF translate
    <3> QED
      BY <1>1, <2>0, <2>3, <3>1 DEF BlockStart, GenFields
  <2>4. CASE x.event.type = "content_block_delta" /\ x.told = up.told
    <3>1. g = BlockDelta(gen, x.event)
      BY <2>4 DEF translate
    <3> QED
      BY <1>1, <2>0, <2>4, <3>1 DEF BlockDelta, GenFields
  <2>5. CASE x.event.type = "content_block_stop" /\ x.told = up.told
    <3>1. g = flushEmptyToolArgs(gen, {x.event.block})
      BY <2>5 DEF translate
    <3> QED
      BY <1>1, <1>2, <2>0, <2>5, <3>1
  <2>6. CASE x.event.type = "message_stop" /\ x.told = up.told
    <3>1. g = MessageStop(gen)
      BY <2>6 DEF translate
    <3> QED
      BY <1>1, <1>2, <2>0, <2>6, <3>1 DEF MessageStop, GenFields
  <2>7. CASE x.event.type = "error" /\ x.told = up.told
    <3>1. g = StreamError(gen)
      BY <2>7 DEF translate
    <3> QED
      BY <1>1, <1>2, <2>0, <2>7, <3>1 DEF StreamError, GenFields
  <2>8. CASE x.event.type = "ping" /\ x.told = up.told
    <3>1. g = gen
      BY <2>8 DEF translate
    <3> QED
      BY <1>1, <2>0, <2>8, <3>1
  <2> QED
    BY <2>1, <2>2, <2>3, <2>4, <2>5, <2>6, <2>7, <2>8
<1> QED
  BY <1>3, <1>4

\* Gemini's counts come with an event or not.
LEMMA GoogleCounts ==
  ASSUME Seen, NEW x \in GoogleEvents
  PROVE  DOMAIN chunks(gen, x.event) = GenFields /\ chunks(gen, x.event).saw = x.told
<1>1. DOMAIN gen = GenFields /\ gen.saw = up.told
  BY DEF Seen
<1>2. x.told = IF x.event.counts = Null THEN up.told ELSE x.event.counts
  <2>1. PICK candidate, parts, reason : x = GoogleEvent(candidate, parts, reason)
    BY DEF GoogleEvents
  <2> QED
    BY <2>1 DEF GoogleEvent, Event
<1> DEFINE e == x.event
<1> HIDE DEF e
<1>3. DOMAIN Noted(gen, e) = GenFields
      /\ Noted(gen, e).saw = IF e.counts = Null THEN gen.saw ELSE e.counts
  BY <1>1 DEF Noted, GenFields
<1>4. DOMAIN chunks(gen, e) = GenFields /\ chunks(gen, e).saw = Noted(gen, e).saw
  BY <1>3 DEF chunks, GenFields
<1> QED
  BY <1>1, <1>2, <1>3, <1>4 DEF e

\* Runs of texts that are read are bounded by a number.
LEMMA ReadRuns ==
  /\ ReadTexts \in Nat /\ 1 <= ReadTexts
  /\ \A n \in 0 .. ReadTexts : n \in Nat /\ n <= ReadTexts
  /\ \A n \in 1 .. ReadTexts : n \in Nat /\ n <= ReadTexts
  BY StreamsAssumption

\* A run of texts counts nothing, nor does it with one more chunk like that.
LEMMA RunCountsNothing ==
  ASSUME NEW n \in Nat, NEW c, c.usage = Null
  PROVE  /\ \A i \in DOMAIN TextRun(n) : TextRun(n)[i].usage = Null
         /\ \A i \in DOMAIN Append(TextRun(n), c) : Append(TextRun(n), c)[i].usage = Null
<1> DEFINE run == TextRun(n)
           U == {TextChunk, c}
<1>1. DOMAIN run = 1 .. n /\ \A i \in 1 .. n : run[i] = TextChunk
  BY DEF TextRun
<1>2. run \in [1 .. n -> U]
  BY DEF TextRun
<1>3. TextChunk.usage = Null
  BY DEF TextChunk, Chunk
<1>4. \A e \in U : e.usage = Null
  BY <1>3
<1> HIDE DEF run, U
<1>5. run \in Seq(U)
  BY <1>2
<1>6. c \in U
  BY DEF U
<1>7. Append(run, c) \in Seq(U)
  BY <1>5, <1>6
<1>8. \A i \in DOMAIN Append(run, c) : Append(run, c)[i] \in U
  BY <1>7
<1> QED
  BY <1>1, <1>3, <1>4, <1>8 DEF run

\* A passed-through stream tells its counts in a chunk, which the pump notes.
LEMMA OpenAICounts ==
  ASSUME Seen, NEW x \in OpenAIReads
  PROVE  DOMAIN noteMessage(gen, x.event) = GenFields /\ noteMessage(gen, x.event).saw = x.told
<1>1. DOMAIN gen = GenFields /\ gen.saw = up.told
  BY DEF Seen
<1> DEFINE count == UsageChunk(Tokens(1, 1))
<1>2. \/ x.told = up.told /\ x.event \in {<<RoleChunk>>, <<NextCall>>, <<DoneChunk>>}
      \/ x.told = Tokens(1, 1) /\ x.event \in {<<count>>, <<count, DoneChunk>>}
      \/ /\ x.told = up.told
         /\ \E n \in Nat : x.event \in {TextRun(n), Append(TextRun(n), FinishChunk("stop"))}
  BY ReadRuns DEF OpenAIReads, Event
<1>3. /\ \A c \in {RoleChunk, NextCall, FinishChunk("stop"), DoneChunk} : c.usage = Null
      /\ count.usage = Tokens(1, 1) /\ Tokens(1, 1) # Null
  BY StreamsAssumption
    DEF RoleChunk, NextCall, HeadChunk, FinishChunk, DoneChunk, UsageChunk, Chunk, Tokens
<1> DEFINE counted == {i \in DOMAIN x.event : x.event[i].usage # Null}
<1>4. noteMessage(gen, x.event)
        = [gen EXCEPT !.out = <<x.event>>,
                      !.saw = IF counted = {} THEN @ ELSE x.event[Max(counted)].usage]
  BY DEF noteMessage
<1>5. CASE x.told = up.told /\ counted = {}
  BY <1>1, <1>4, <1>5 DEF GenFields
<1>7. ASSUME x.told = up.told, NEW n \in Nat,
             x.event \in {TextRun(n), Append(TextRun(n), FinishChunk("stop"))}
      PROVE  counted = {}
  BY <1>3, <1>7, RunCountsNothing
<1>6. CASE x.told = Tokens(1, 1) /\ counted = {1} /\ x.event[1] = count
  <2>1. Max({1}) = 1
    BY DEF Max
  <2> HIDE DEF count, counted
  <2>2. noteMessage(gen, x.event) = [gen EXCEPT !.out = <<x.event>>, !.saw = Tokens(1, 1)]
    BY <1>3, <1>4, <1>6, <2>1
  <2> QED
    BY <1>1, <1>6, <2>2 DEF GenFields
<1> QED
  BY <1>2, <1>3, <1>5, <1>6, <1>7

\* Whatever an upstream says, the generator has seen what it told.
LEMMA SaysKeeps == ASSUME UsageInv, UpstreamSays PROVE UsageInv'
<1>1. /\ gen.state = "running" /\ UNCHANGED <<source, usage, stored>>
      /\ DOMAIN gen = GenFields /\ DOMAIN up = UpFields /\ source \in Sources
  BY DEF UpstreamSays, Running, after, UsageInv, Seen
<1>2. ~usage.settled /\ stored = Null
  BY <1>1 DEF UsageInv, Settled
<1>3. PICK x \in Events :
        /\ DOMAIN up' = UpFields /\ up'.told = x.told
        /\ gen' = CASE source = "anthropic" -> translate(gen, x.event)
                     [] source = "google"    -> chunks(gen, x.event)
                     [] source = "openai"    -> noteMessage(gen, x.event)
  BY <1>1 DEF UpstreamSays, UpFields
<1>4. DOMAIN gen' = GenFields /\ gen'.saw = x.told
  BY <1>1, <1>3, AnthropicCounts, GoogleCounts, OpenAICounts DEF UsageInv, Events, Sources
<1>5. source = "anthropic" => x.told \in [prompt : {1}, completion : {0, 1}]
  BY <1>1, <1>3, AnthropicCounts DEF UsageInv, Events
<1> QED
  BY <1>1, <1>2, <1>3, <1>4, <1>5 DEF UsageInv, Seen, Settled, UsageTruthful

\* The end of the upstream's body and a yielded block leave the counts alone.
LEMMA YieldKeeps == ASSUME UsageInv, UpstreamEnds \/ Yield PROVE UsageInv'
<1>1. /\ UNCHANGED <<source, up, usage, stored>>
      /\ DOMAIN gen = GenFields /\ gen.state \in {"running", "returning"}
  BY DEF UpstreamEnds, Yield, Running, after, UsageInv, Seen
<1>2. ~usage.settled /\ stored = Null
  BY <1>1 DEF UsageInv, Settled
<1>3. DOMAIN gen' = GenFields /\ gen'.saw = gen.saw
  BY <1>1 DEF UpstreamEnds, Epilogue, Yield, GenFields
<1> QED
  BY <1>1, <1>2, <1>3 DEF UsageInv, Seen, Settled, UsageTruthful

\* A generator that is through settles usage, once, with what it saw; the pump
\* of a passed-through stream knows nothing when it is broken off.
LEMMA EndKeeps == ASSUME UsageInv, Returns \/ Throws \/ CancelSource PROVE UsageInv'
<1>1. /\ UNCHANGED <<source, up>>
      /\ source \in Sources /\ DOMAIN gen = GenFields /\ gen.state \in {"running", "returning"}
      /\ gen.saw = up.told
  BY DEF Returns, Throws, CancelSource, Running, after, UsageInv, Seen
<1>2. ~usage.settled /\ stored = Null
  BY <1>1 DEF UsageInv, Settled
<1>3. CASE Returns
  <2>1. /\ DOMAIN gen' = GenFields /\ gen'.saw = gen.saw /\ gen'.state = "returned"
        /\ usage' = [settled |-> TRUE, tokens |-> gen.saw]
    BY <1>1, <1>2, <1>3 DEF Returns, Resolve, GenFields
  <2>2. stored' = Null \/ stored'.usage = gen.saw
    BY <1>3 DEF Returns
  <2> QED
    BY <1>1, <2>1, <2>2 DEF UsageInv, Seen, Settled, UsageTruthful
<1>4. CASE Throws
  <2>1. /\ DOMAIN gen' = GenFields /\ gen'.saw = gen.saw /\ gen'.state = "threw"
        /\ usage' = [settled |-> TRUE, tokens |-> OnError] /\ stored' = stored
    BY <1>1, <1>2, <1>4 DEF Throws, Resolve, GenFields
  <2> QED
    BY <1>1, <1>2, <2>1 DEF UsageInv, Seen, Settled, UsageTruthful, OnError
<1>5. CASE CancelSource
  <2>1. /\ DOMAIN gen' = GenFields /\ gen'.saw = gen.saw /\ gen'.state = "cancelled"
        /\ usage' = [settled |-> TRUE, tokens |-> OnError] /\ stored' = stored
    BY <1>1, <1>2, <1>5 DEF CancelSource, Resolve, GenFields
  <2> QED
    BY <1>1, <1>2, <2>1 DEF UsageInv, Seen, Settled, UsageTruthful, OnError
<1> QED
  BY <1>3, <1>4, <1>5

\* A replay is charged what is stored with the answer, which is what the
\* upstream told when the answer was made.
LEMMA ReplayKeeps == ASSUME UsageInv, Replay PROVE UsageInv'
<1>1. UNCHANGED <<source, up, gen, stored>> /\ usage'.tokens = up.told
  BY DEF Replay, UsageInv, Settled
<1>2. gen.state = "returned"
  BY DEF Replay, UsageInv, Settled
<1> QED
  BY <1>1, <1>2 DEF UsageInv, Seen, Settled, UsageTruthful

\* UsageInv is inductive.
LEMMA UsageKept == ASSUME UsageInv, [StreamNext]_streamVars PROVE UsageInv'
<1>1. ASSUME UNCHANGED <<source, up, gen, usage, stored>> PROVE UsageInv'
  BY <1>1 DEF UsageInv, Seen, Settled, UsageTruthful
<1>2. CASE Pipe \/ Deliver \/ BodyEnds \/ HangUp \/ CancelBody \/ UNCHANGED streamVars
  BY <1>1, <1>2 DEF Pipe, Deliver, BodyEnds, HangUp, CancelBody, streamVars, after
<1> QED
  BY <1>2, SaysKeeps, YieldKeeps, EndKeeps, ReplayKeeps DEF StreamNext

\* UsageTruthful (server/routes/chat.ts, providers/*.ts): what a budget is
\* charged is what the upstream last told, however the stream ends.
THEOREM UsageIsTruthful == ProviderSpec => []UsageTruthful
<1>1. ProviderInit => UsageInv
  BY UsageStarts DEF ProviderInit, Calling, Consuming
<1>2. ProviderNext => [StreamNext]_streamVars
  BY DEF ProviderNext
<1>3. UsageInv /\ [ProviderNext]_providerVars => UsageInv'
  BY <1>2, UsageKept DEF providerVars
<1>4. UsageInv => UsageTruthful
  BY DEF UsageInv
<1> QED
  BY <1>1, <1>3, <1>4, PTL DEF ProviderSpec

-----------------------------------------------------------------------------
(* Chunked text                                                              *)

\* The bytes of a text are a number, and none are of no text.
LEMMA BytesOf ==
  ASSUME NEW s \in Seq(Characters)
  PROVE  /\ IsFiniteSet(Wide(s)) /\ Cardinality(Wide(s)) \in Nat
         /\ Bytes(s) \in Nat /\ Len(s) \in Nat /\ Len(s) <= Bytes(s)
<1>1. Len(s) \in Nat /\ DOMAIN s = 1 .. Len(s)
  OBVIOUS
<1>2. IsFiniteSet(1 .. Len(s))
  BY <1>1, FS_Interval
<1>3. IsFiniteSet(Wide(s))
  BY <1>1, <1>2, FS_Subset DEF Wide
<1>4. Cardinality(Wide(s)) \in Nat
  BY <1>3, FS_CardinalityType
<1> QED
  BY <1>1, <1>3, <1>4 DEF Bytes

\* Places of a sequence are counted.
LEMMA PlacesCounted ==
  ASSUME NEW n \in Nat, NEW I \in SUBSET (1 .. n)
  PROVE  IsFiniteSet(I) /\ Cardinality(I) \in Nat
<1>1. IsFiniteSet(1 .. n)
  BY FS_Interval
<1>2. IsFiniteSet(I)
  BY <1>1, FS_Subset
<1> QED
  BY <1>2, FS_CardinalityType

\* C are places of two sequences, one of length m before one of length n: A in
\* the first and B in the second.
Beside(m, n, A, B, C) ==
  /\ A \in SUBSET (1 .. m) /\ B \in SUBSET (1 .. n) /\ C \in SUBSET (1 .. m + n)
  /\ \A i \in 1 .. m : i \in C <=> i \in A
  /\ \A i \in 1 .. n : m + i \in C <=> i \in B

\* Places in the first and in the second of two sequences add up.
LEMMA SideBySide ==
  ASSUME NEW m \in Nat, NEW n \in Nat, NEW A, NEW B, NEW C, Beside(m, n, A, B, C)
  PROVE  Cardinality(C) = Cardinality(A) + Cardinality(B)
<1> DEFINE moved == {m + i : i \in B}
           shift == [i \in B |-> m + i]
<1> USE DEF Beside
<1>1. A \cap moved = {} /\ C = A \cup moved
  <2>1. \A i \in B : m + i \in C /\ m + i \notin A
    OBVIOUS
  <2>2. ASSUME NEW i \in C PROVE i \in A \/ \E j \in B : i = m + j
    <3>1. CASE i <= m
      BY <3>1
    <3>2. CASE ~(i <= m)
      <4>1. i - m \in 1 .. n /\ i = m + (i - m)
        BY <3>2
      <4> QED
        BY <4>1
    <3> QED
      BY <3>1, <3>2
  <2>3. ASSUME NEW i \in A PROVE i \in C
    OBVIOUS
  <2>4. ASSUME NEW x \in moved PROVE x \in C /\ x \notin A
    BY <2>1, <2>4
  <2>5. ASSUME NEW x \in C PROVE x \in A \/ x \in moved
    BY <2>2, <2>5
  <2> HIDE DEF moved
  <2> QED
    BY <2>3, <2>4, <2>5
<1>2. /\ IsFiniteSet(A) /\ Cardinality(A) \in Nat
      /\ IsFiniteSet(B) /\ Cardinality(B) \in Nat
  BY PlacesCounted
<1>3. IsFiniteSet(moved) /\ Cardinality(moved) = Cardinality(B)
  <2>1. shift \in Bijection(B, moved)
    BY DEF Bijection, Injection, Surjection, IsInjective
  <2>2. ExistsBijection(B, moved)
    BY <2>1 DEF ExistsBijection
  <2> HIDE DEF moved
  <2> QED
    BY <1>2, <2>2, FS_Bijection
<1> HIDE DEF moved
<1>4. Cardinality(C) = Cardinality(A) + Cardinality(moved) - Cardinality(A \cap moved)
  BY <1>1, <1>2, <1>3, FS_Union
<1>5. Cardinality(A \cap moved) = 0
  BY <1>1, FS_EmptySet
<1> QED
  BY <1>2, <1>3, <1>4, <1>5 DEF moved

\* The bytes of two texts add up.
LEMMA BytesAdd ==
  ASSUME NEW s \in Seq(Characters), NEW t \in Seq(Characters)
  PROVE  Bytes(s \o t) = Bytes(s) + Bytes(t)
<1> DEFINE st == s \o t
<1>1. /\ Len(s) \in Nat /\ Len(t) \in Nat /\ DOMAIN s = 1 .. Len(s) /\ DOMAIN t = 1 .. Len(t)
      /\ st \in Seq(Characters) /\ Len(st) = Len(s) + Len(t) /\ DOMAIN st = 1 .. Len(s) + Len(t)
      /\ \A i \in 1 .. Len(s) + Len(t) : st[i] = IF i <= Len(s) THEN s[i] ELSE t[i - Len(s)]
  BY ConcatProperties
<1> HIDE DEF st
<1>2. Beside(Len(s), Len(t), Wide(s), Wide(t), Wide(st))
  <2>1. ASSUME NEW i \in 1 .. Len(t) PROVE Len(s) + i \in DOMAIN st /\ st[Len(s) + i] = t[i]
    <3>1. Len(s) + i \in 1 .. Len(s) + Len(t) /\ ~(Len(s) + i <= Len(s)) /\ (Len(s) + i) - Len(s) = i
      BY <1>1
    <3> QED
      BY <1>1, <3>1
  <2>2. \A i \in 1 .. Len(s) : i \in DOMAIN st /\ st[i] = s[i]
    BY <1>1
  <2> QED
    BY <1>1, <2>1, <2>2 DEF Beside, Wide
<1>3. Cardinality(Wide(st)) = Cardinality(Wide(s)) + Cardinality(Wide(t))
  BY <1>1, <1>2, SideBySide
<1>4. Cardinality(Wide(s)) \in Nat /\ Cardinality(Wide(t)) \in Nat
  BY BytesOf
<1> QED
  BY <1>1, <1>3, <1>4 DEF Bytes, st

\* A nonempty set of natural numbers has a least element.
LEMMA LeastNatural ==
  ASSUME NEW S \in SUBSET Nat, S # {}
  PROVE  \E m \in S : \A k \in S : m <= k
<1> DEFINE Less == OpToRel(<, Nat)
<1>1. IsWellFoundedOn(Less, Nat)
  BY NatLessThanWellFounded
<1>2. \A x, y \in Nat : <<x, y>> \in Less <=> x < y
  BY DEF OpToRel
<1> HIDE DEF Less
<1>3. PICK m \in S : \A k \in S : <<k, m>> \notin Less
  BY <1>1, WFMin
<1>4. m \in Nat /\ \A k \in S : k \in Nat /\ ~(k < m)
  BY <1>2, <1>3
<1> QED
  BY <1>4

\* A set of places has a first, a second, and so on.
LEMMA PlaceOf ==
  ASSUME NEW n \in Nat, NEW I \in SUBSET (1 .. n), NEW k \in 1 .. Cardinality(I)
  PROVE  Place(I, k) \in I /\ Cardinality({j \in I : j <= Place(I, k)}) = k
<1> DEFINE Upto(m) == {j \in I : j <= m}
           S == {m \in Nat : k <= Cardinality(Upto(m))}
<1>1. IsFiniteSet(I) /\ Cardinality(I) \in Nat
  BY PlacesCounted
<1>2. ASSUME NEW m PROVE IsFiniteSet(Upto(m)) /\ Cardinality(Upto(m)) \in Nat
  BY <1>1, FS_Subset, FS_CardinalityType
<1>3. Upto(n) = I
  <2>1. \A j \in I : j <= n
    OBVIOUS
  <2> QED
    BY <2>1
<1> HIDE DEF Upto
<1>4. n \in S
  BY <1>1, <1>3
<1>5. PICK m \in S : \A l \in S : m <= l
  <2>1. S \subseteq Nat /\ S # {}
    BY <1>4
  <2> HIDE DEF S
  <2> QED
    BY <2>1, LeastNatural
<1>6. m \in Nat /\ k <= Cardinality(Upto(m)) /\ k \in Nat /\ k >= 1
  BY <1>1
<1>7. m # 0
  <2>1. \A j \in I : ~(j <= 0)
    OBVIOUS
  <2>2. Upto(0) = {}
    BY <2>1 DEF Upto
  <2> QED
    BY <1>6, <2>2, FS_EmptySet
<1>8. m - 1 \in Nat /\ Cardinality(Upto(m - 1)) < k
  <2>1. m - 1 \in Nat /\ m - 1 \notin S
    BY <1>5, <1>6, <1>7
  <2>2. Cardinality(Upto(m - 1)) \in Nat
    BY <1>2
  <2> QED
    BY <1>6, <2>1, <2>2
<1>9. m \in I
  <2> SUFFICES ASSUME m \notin I PROVE FALSE
    OBVIOUS
  <2>1. \A j \in I : j <= m <=> j <= m - 1
    BY <1>6
  <2>2. Upto(m) = Upto(m - 1)
    BY <2>1 DEF Upto
  <2> QED
    BY <1>2, <1>6, <1>8, <2>2
<1>10. Cardinality(Upto(m)) = k
  <2>1. Upto(m) = Upto(m - 1) \cup {m} /\ m \notin Upto(m - 1)
    <3>1. \A j \in I : j <= m <=> j <= m - 1 \/ j = m
      BY <1>6
    <3>2. ~(m <= m - 1)
      BY <1>6
    <3> QED
      BY <1>9, <3>1, <3>2 DEF Upto
  <2>2. IsFiniteSet(Upto(m - 1)) /\ Cardinality(Upto(m - 1)) \in Nat
    BY <1>2
  <2>3. Cardinality(Upto(m)) = Cardinality(Upto(m - 1)) + 1
    BY <2>1, <2>2, FS_AddElement
  <2> QED
    BY <1>6, <1>8, <2>2, <2>3
<1>11. \E i \in I : Cardinality({j \in I : j <= i}) = k
  BY <1>9, <1>10 DEF Upto
<1> QED
  BY <1>11 DEF Place

\* A prefix of a text is one of every longer text.
LEMMA PrefixKept ==
  ASSUME NEW s \in Seq(Characters), NEW t \in Seq(Characters), NEW n \in 0 .. Len(s)
  PROVE  SubSeq(s \o t, 1, n) = SubSeq(s, 1, n)
<1>1. CASE n = 0
  BY <1>1, SubSeqEmpty
<1>2. CASE n # 0
  BY <1>2, SubSeqOfConcat1
<1> QED
  BY <1>1, <1>2

\* A prefix that reaches into the second of two texts.
LEMMA PrefixReaches ==
  ASSUME NEW s \in Seq(Characters), NEW t \in Seq(Characters), NEW n \in 0 .. Len(t)
  PROVE  /\ SubSeq(t, 1, n) \in Seq(Characters) /\ Len(SubSeq(t, 1, n)) = n
         /\ SubSeq(s \o t, 1, Len(s) + n) = s \o SubSeq(t, 1, n)
<1> DEFINE u == SubSeq(t, 1, n)
           l == SubSeq(s \o t, 1, Len(s) + n)
<1>1. /\ Len(s) \in Nat /\ Len(t) \in Nat /\ n \in Nat /\ n <= Len(t)
      /\ s \o t \in Seq(Characters) /\ Len(s \o t) = Len(s) + Len(t)
      /\ \A i \in 1 .. Len(s) + Len(t) : (s \o t)[i] = IF i <= Len(s) THEN s[i] ELSE t[i - Len(s)]
  BY ConcatProperties
<1>2. /\ u \in Seq(Characters) /\ Len(u) = n /\ \A i \in 1 .. n : u[i] = t[i]
  <2>1. \A i \in 1 .. n : t[i] \in Characters
    BY <1>1
  <2> QED
    BY <1>1, <2>1, SubSeqProperties
<1>3. /\ l \in Seq(Characters) /\ Len(l) = Len(s) + n
      /\ \A i \in 1 .. Len(s) + n : l[i] = (s \o t)[i]
  <2> DEFINE st == s \o t
  <2>1. \A i \in 1 .. Len(s) + n : st[i] \in Characters
    BY <1>1
  <2>2. Len(s) + n \in Int
    BY <1>1
  <2> HIDE DEF st
  <2>3. SubSeq(st, 1, Len(s) + n) \in Seq(Characters)
        /\ Len(SubSeq(st, 1, Len(s) + n)) = (IF 1 <= Len(s) + n THEN Len(s) + n - 1 + 1 ELSE 0)
        /\ \A i \in 1 .. (Len(s) + n) - 1 + 1 : SubSeq(st, 1, Len(s) + n)[i] = st[1 + i - 1]
    BY <2>1, <2>2, SubSeqProperties
  <2> QED
    BY <1>1, <2>3 DEF st
<1> HIDE DEF l, u
<1>4. /\ s \o u \in Seq(Characters) /\ Len(s \o u) = Len(s) + n
      /\ \A i \in 1 .. Len(s) + n : (s \o u)[i] = IF i <= Len(s) THEN s[i] ELSE u[i - Len(s)]
  BY <1>2, ConcatProperties
<1>5. ASSUME NEW i \in 1 .. Len(s) + n PROVE l[i] = (s \o u)[i]
  <2> DEFINE st == s \o t
             su == s \o u
  <2>1. i \in Nat /\ i \in 1 .. Len(s) + Len(t) /\ (~(i <= Len(s)) => i - Len(s) \in 1 .. n)
    BY <1>1
  <2>2. l[i] = st[i] /\ st[i] = IF i <= Len(s) THEN s[i] ELSE t[i - Len(s)]
    BY <1>1, <1>3, <2>1
  <2>3. su[i] = IF i <= Len(s) THEN s[i] ELSE u[i - Len(s)]
    BY <1>4
  <2> HIDE DEF st, su
  <2>4. ~(i <= Len(s)) => u[i - Len(s)] = t[i - Len(s)]
    BY <1>2, <2>1
  <2>5. l[i] = su[i]
    BY <2>2, <2>3, <2>4
  <2> QED
    BY <2>5 DEF su
<1>6. l = s \o u
  <2> DEFINE su == s \o u
  <2>1. su \in Seq(Characters) /\ Len(su) = Len(s) + n /\ \A i \in 1 .. Len(s) + n : l[i] = su[i]
    BY <1>4, <1>5
  <2> HIDE DEF su
  <2>2. l = su
    BY <1>1, <1>3, <2>1
  <2> QED
    BY <2>2 DEF su
<1> QED
  BY <1>2, <1>6 DEF l, u

\* What sliceToBytes keeps of a text that is too long: as much as fits.
LEMMA Sliced ==
  ASSUME NEW s \in Seq(Characters), NEW max \in Nat, Bytes(s) > max
  PROVE  \E n \in Nat : /\ n < Len(s) /\ sliceToBytes(s, max) = SubSeq(s, 1, n)
                        /\ Bytes(SubSeq(s, 1, n)) <= max /\ Bytes(SubSeq(s, 1, n + 1)) > max
<1> DEFINE size == [n \in 0 .. Len(s) |-> Bytes(SubSeq(s, 1, n))]
           long == {n \in 0 .. Len(s) : n = Len(s) \/ size[n + 1] > max}
           Fits(n) == Bytes(SubSeq(s, 1, n)) <= max
                      /\ (n = Len(s) \/ Bytes(SubSeq(s, 1, n + 1)) > max)
           chosen == CHOOSE n \in 0 .. Len(s) : Fits(n)
<1>1. sliceToBytes(s, max) = SubSeq(s, 1, chosen)
  BY DEF sliceToBytes
<1>2. Len(s) \in Nat
  OBVIOUS
<1>3. \A n \in 0 .. Len(s) : Bytes(SubSeq(s, 1, n)) \in Nat
  <2> TAKE n \in 0 .. Len(s)
  <2>1. SubSeq(s, 1, n) \in Seq(Characters)
    BY PrefixReaches
  <2> QED
    BY <2>1, BytesOf
<1>4. Bytes(SubSeq(s, 1, 0)) = 0
  <2>0. DOMAIN <<>> = {} /\ Len(<<>>) = 0
    OBVIOUS
  <2>1. Wide(<<>>) = {} /\ Len(<<>>) = 0
    BY <2>0 DEF Wide
  <2>2. Cardinality(Wide(<<>>)) = 0
    BY <2>1, FS_EmptySet
  <2>3. SubSeq(s, 1, 0) = <<>>
    BY SubSeqEmpty
  <2> QED
    <3>1. Bytes(<<>>) = 0
      BY <2>1, <2>2 DEF Bytes
    <3> QED
      BY <2>3, <3>1
<1>5. /\ size \in [0 .. Len(s) -> Nat] /\ size[0] = 0 /\ size[Len(s)] > max
      /\ \A n \in 0 .. Len(s) : size[n] = Bytes(SubSeq(s, 1, n))
  <2>1. Bytes(SubSeq(s, 1, Len(s))) > max
    BY SubSeqFull
  <2>2. 0 \in 0 .. Len(s) /\ Len(s) \in 0 .. Len(s)
    BY <1>2
  <2> QED
    BY <1>3, <1>4, <2>1, <2>2
<1> HIDE DEF size
<1>6. PICK m \in long : \A k \in long : m <= k
  <2>1. Len(s) \in long /\ long \subseteq Nat
    BY <1>2
  <2> HIDE DEF long
  <2> QED
    BY <2>1, LeastNatural
<1>7. /\ m \in 0 .. Len(s) /\ (m = Len(s) \/ size[m + 1] > max)
      /\ \A k \in 0 .. Len(s) : k < m => k # Len(s) /\ ~(size[k + 1] > max)
  BY <1>2, <1>6
<1>8. size[m] <= max
  <2>1. CASE m = 0
    BY <1>5, <2>1
  <2>2. CASE m # 0
    <3>1. m - 1 \in 0 .. Len(s) /\ m - 1 < m /\ (m - 1) + 1 = m
      BY <1>2, <1>7, <2>2
    <3>2. ~(size[(m - 1) + 1] > max)
      BY <1>7, <3>1
    <3>3. size[(m - 1) + 1] = size[m] /\ size[m] \in Nat
      BY <1>5, <1>7, <3>1
    <3> QED
      BY <3>2, <3>3
  <2> QED
    BY <2>1, <2>2
<1>9. m # Len(s)
  BY <1>5, <1>7, <1>8
<1>10. m + 1 \in 0 .. Len(s)
  BY <1>2, <1>7, <1>9
<1>11. Fits(m)
  BY <1>5, <1>7, <1>8, <1>9, <1>10
<1>12. chosen \in 0 .. Len(s) /\ Fits(chosen)
  <2> HIDE DEF Fits
  <2> QED
    BY <1>7, <1>11
<1> HIDE DEF chosen
<1>13. chosen # Len(s)
  <2>1. Bytes(SubSeq(s, 1, Len(s))) > max
    BY SubSeqFull
  <2>2. Bytes(SubSeq(s, 1, chosen)) <= max /\ Bytes(SubSeq(s, 1, chosen)) \in Nat
    BY <1>3, <1>12
  <2> QED
    BY <2>1, <2>2
<1> QED
  BY <1>1, <1>2, <1>12, <1>13

\* The texts are texts, and the consumers' states have their shape.
ChunkTypes ==
  /\ text \in Seq(Characters) /\ fed \in Seq(Characters)
  /\ content \in [kept : Seq(Characters), cut : BOOLEAN]
  /\ body \in [read : Seq(Characters), state : {"reading", "refused", "done"}]

\* CaptureIsPrefix, with the length of the prefix.
CaptureExact ==
  IF content.cut
    THEN \E n \in Nat : /\ n < Len(fed) /\ content.kept = SubSeq(fed, 1, n)
                        /\ Bytes(SubSeq(fed, 1, n)) <= MaxContent
                        /\ Bytes(SubSeq(fed, 1, n + 1)) > MaxContent
    ELSE content.kept = fed /\ Bytes(fed) <= MaxContent

\* BodyBounded, with the reader's state.
BodyExact ==
  \/ body.state = "reading" /\ body.read = fed /\ Bytes(fed) <= MaxBody
  \/ body.state = "refused" /\ body.read = <<>> /\ Bytes(fed) > MaxBody
  \/ body.state = "done" /\ text = <<>> /\ BodyBounded

ChunkInv == ChunkTypes /\ CaptureExact /\ BodyExact

\* No text has no bytes.
LEMMA NoBytes == <<>> \in Seq(Characters) /\ Len(<<>>) = 0 /\ Bytes(<<>>) = 0
<1>1. <<>> \in Seq(Characters) /\ DOMAIN <<>> = {} /\ Len(<<>>) = 0
  OBVIOUS
<1>2. Wide(<<>>) = {}
  BY <1>1 DEF Wide
<1> QED
  BY <1>1, <1>2, FS_EmptySet DEF Bytes

\* Before a chunk has come nothing is kept.
LEMMA ChunkStarts == ChunkInit \/ ChunkOff => ChunkInv
<1> SUFFICES ASSUME ChunkInit \/ ChunkOff PROVE ChunkInv
  OBVIOUS
<1>1. /\ text \in Seq(Characters) /\ fed = <<>> /\ fed \in Seq(Characters)
      /\ content = [kept |-> <<>>, cut |-> FALSE]
      /\ \/ body = [read |-> <<>>, state |-> "reading"]
         \/ body = [read |-> <<>>, state |-> "done"] /\ text = <<>>
  BY NoBytes, ChunkedAssumption DEF ChunkInit, ChunkOff
<1>2. Bytes(<<>>) = 0 /\ 0 <= MaxContent /\ 0 <= MaxBody
  BY NoBytes, ChunkedAssumption
<1>3. ChunkTypes
  <2>1. [kept |-> <<>>, cut |-> FALSE] \in [kept : Seq(Characters), cut : BOOLEAN]
    BY NoBytes
  <2>2. \A state \in {"reading", "refused", "done"} :
          [read |-> <<>>, state |-> state]
            \in [read : Seq(Characters), state : {"reading", "refused", "done"}]
    BY NoBytes
  <2> QED
    BY <1>1, <2>1, <2>2 DEF ChunkTypes
<1>4. CaptureExact
  BY <1>1, <1>2 DEF CaptureExact
<1>5. BodyExact
  <2>1. ~(0 > MaxBody)
    BY ChunkedAssumption
  <2> QED
    BY <1>1, <1>2, <2>1 DEF BodyExact, BodyBounded
<1> QED
  BY <1>3, <1>4, <1>5 DEF ChunkInv

\* A chunk that comes leaves the capture exact.
LEMMA PushKeeps ==
  ASSUME ChunkInv, NEW chunk \in Seq(Characters),
         fed' = fed \o chunk, content' = push(content, chunk)
  PROVE  CaptureExact' /\ content' \in [kept : Seq(Characters), cut : BOOLEAN]
<1>1. /\ fed \in Seq(Characters) /\ fed' \in Seq(Characters)
      /\ content \in [kept : Seq(Characters), cut : BOOLEAN]
      /\ Len(fed') = Len(fed) + Len(chunk) /\ Len(fed) \in Nat /\ Len(chunk) \in Nat
  BY ConcatProperties DEF ChunkInv, ChunkTypes
<1>2. /\ Bytes(fed) \in Nat /\ Bytes(chunk) \in Nat /\ Bytes(fed') = Bytes(fed) + Bytes(chunk)
      /\ MaxContent \in Nat
  BY <1>1, BytesOf, BytesAdd, ChunkedAssumption
<1>3. CASE content.cut
  <2>1. content' = content
    BY <1>3 DEF push
  <2>2. PICK n \in Nat : /\ n < Len(fed) /\ content.kept = SubSeq(fed, 1, n)
                         /\ Bytes(SubSeq(fed, 1, n)) <= MaxContent
                         /\ Bytes(SubSeq(fed, 1, n + 1)) > MaxContent
    BY <1>3 DEF ChunkInv, CaptureExact
  <2>3. n \in 0 .. Len(fed) /\ n + 1 \in 0 .. Len(fed) /\ n < Len(fed')
    BY <1>1, <2>2
  <2>4. SubSeq(fed', 1, n) = SubSeq(fed, 1, n) /\ SubSeq(fed', 1, n + 1) = SubSeq(fed, 1, n + 1)
    BY <1>1, <2>3, PrefixKept
  <2> QED
    BY <1>1, <1>3, <2>1, <2>2, <2>3, <2>4 DEF CaptureExact
<1>4. CASE ~content.cut /\ chunk = <<>>
  <2>1. content' = content /\ fed' = fed
    BY <1>1, <1>4, ConcatEmptySeq DEF push
  <2> QED
    BY <1>1, <1>4, <2>1 DEF ChunkInv, CaptureExact
<1>5. CASE ~content.cut /\ chunk # <<>> /\ Bytes(fed') <= MaxContent
  <2>1. content.kept = fed
    BY <1>5 DEF ChunkInv, CaptureExact
  <2>2. content' = [content EXCEPT !.kept = fed']
    BY <1>5, <2>1 DEF push
  <2> QED
    BY <1>1, <1>5, <2>2 DEF CaptureExact
<1>6. CASE ~content.cut /\ chunk # <<>> /\ ~(Bytes(fed') <= MaxContent)
  <2>1. content.kept = fed /\ Bytes(fed) <= MaxContent
    BY <1>6 DEF ChunkInv, CaptureExact
  <2> DEFINE left == MaxContent - Bytes(fed)
  <2>2. left \in Nat /\ Bytes(chunk) > left
    BY <1>2, <1>6, <2>1
  <2>3. content' = [kept |-> fed \o sliceToBytes(chunk, left), cut |-> TRUE]
    BY <1>6, <2>1 DEF push
  <2>4. PICK n \in Nat : /\ n < Len(chunk) /\ sliceToBytes(chunk, left) = SubSeq(chunk, 1, n)
                         /\ Bytes(SubSeq(chunk, 1, n)) <= left
                         /\ Bytes(SubSeq(chunk, 1, n + 1)) > left
    <3> HIDE DEF left
    <3> QED
      BY <2>2, Sliced
  <2> DEFINE m == Len(fed) + n
             u == SubSeq(chunk, 1, n)
             v == SubSeq(chunk, 1, n + 1)
  <2>5. n \in 0 .. Len(chunk) /\ n + 1 \in 0 .. Len(chunk)
    BY <1>1, <2>4
  <2>6. /\ u \in Seq(Characters) /\ v \in Seq(Characters)
        /\ SubSeq(fed', 1, m) = fed \o u /\ SubSeq(fed', 1, Len(fed) + (n + 1)) = fed \o v
    <3>1. u \in Seq(Characters) /\ SubSeq(fed \o chunk, 1, m) = fed \o u
      BY <1>1, <2>5, PrefixReaches
    <3> DEFINE k == n + 1
    <3>2. k \in 0 .. Len(chunk)
      BY <2>5
    <3> HIDE DEF k
    <3>3. SubSeq(chunk, 1, k) \in Seq(Characters) /\ SubSeq(fed \o chunk, 1, Len(fed) + k) = fed \o SubSeq(chunk, 1, k)
      BY <1>1, <3>2, PrefixReaches
    <3> QED
      BY <1>1, <3>1, <3>3 DEF k
  <2>7. m \in Nat /\ m < Len(fed') /\ Len(fed) + (n + 1) = m + 1
    BY <1>1, <2>4
  <2>8. sliceToBytes(chunk, left) = u /\ Bytes(u) <= left /\ Bytes(v) > left
    BY <2>4
  <2> HIDE DEF m, u, v
  <2>9. /\ Bytes(fed \o u) = Bytes(fed) + Bytes(u) /\ Bytes(fed \o v) = Bytes(fed) + Bytes(v)
        /\ Bytes(u) \in Nat /\ Bytes(v) \in Nat /\ fed \o u \in Seq(Characters)
    BY <1>1, <2>6, BytesAdd, BytesOf, ConcatProperties
  <2>10. Bytes(fed \o u) <= MaxContent /\ Bytes(fed \o v) > MaxContent
    BY <1>2, <2>8, <2>9
  <2>11. SubSeq(fed', 1, m + 1) = fed \o v
    BY <2>6, <2>7
  <2>12. content' = [kept |-> fed \o u, cut |-> TRUE]
    BY <2>3, <2>8
  <2>13. content'.cut /\ content'.kept = fed \o u
         /\ content' \in [kept : Seq(Characters), cut : BOOLEAN]
    BY <2>9, <2>12
  <2>14. /\ m < Len(fed') /\ content'.kept = SubSeq(fed', 1, m)
         /\ Bytes(SubSeq(fed', 1, m)) <= MaxContent /\ Bytes(SubSeq(fed', 1, m + 1)) > MaxContent
    BY <2>6, <2>7, <2>10, <2>11, <2>13
  <2> QED
    BY <2>7, <2>13, <2>14 DEF CaptureExact
<1> QED
  BY <1>3, <1>4, <1>5, <1>6

\* A chunk that comes leaves the body exact.
LEMMA ReadBodyKeeps ==
  ASSUME ChunkInv, text # <<>>, NEW chunk \in Seq(Characters),
         fed' = fed \o chunk, body' = ReadBody(body, chunk)
  PROVE  BodyExact' /\ body' \in [read : Seq(Characters), state : {"reading", "refused", "done"}]
<1>1. /\ fed \in Seq(Characters) /\ fed' \in Seq(Characters)
      /\ body \in [read : Seq(Characters), state : {"reading", "refused", "done"}]
  BY ConcatProperties DEF ChunkInv, ChunkTypes
<1>2. /\ Bytes(fed) \in Nat /\ Bytes(chunk) \in Nat /\ Bytes(fed') = Bytes(fed) + Bytes(chunk)
      /\ MaxBody \in Nat
  BY <1>1, BytesOf, BytesAdd, ChunkedAssumption
<1>3. CASE body.state = "reading"
  <2>1. body.read = fed
    BY <1>3 DEF ChunkInv, BodyExact
  <2>2. CASE Bytes(fed') > MaxBody
    <3>1. body' = [read |-> <<>>, state |-> "refused"]
      BY <1>3, <2>1, <2>2 DEF ReadBody
    <3> QED
      BY <2>2, <3>1, NoBytes DEF BodyExact
  <2>3. CASE ~(Bytes(fed') > MaxBody)
    <3>1. body' = [body EXCEPT !.read = fed']
      BY <1>3, <2>1, <2>3 DEF ReadBody
    <3>2. Bytes(fed') <= MaxBody
      BY <1>2, <2>3
    <3> QED
      BY <1>1, <1>3, <3>1, <3>2 DEF BodyExact
  <2> QED
    BY <2>2, <2>3
<1>4. CASE body.state = "refused"
  <2>1. body' = body /\ body.read = <<>> /\ Bytes(fed) > MaxBody
    BY <1>4 DEF ReadBody, ChunkInv, BodyExact
  <2>2. Bytes(fed') > MaxBody
    BY <1>2, <2>1
  <2> QED
    BY <1>1, <1>4, <2>1, <2>2 DEF BodyExact
<1> QED
  BY <1>3, <1>4 DEF ChunkInv, BodyExact

\* What BodyExact says implies what is required of a body.
LEMMA BodyExactBounds == ASSUME ChunkInv PROVE BodyBounded
<1>1. fed \in Seq(Characters) /\ MaxBody \in Nat /\ Bytes(fed) \in Nat
  BY BytesOf, ChunkedAssumption DEF ChunkInv, ChunkTypes
<1>2. CASE body.state = "reading" /\ body.read = fed /\ Bytes(fed) <= MaxBody
  BY <1>1, <1>2 DEF BodyBounded
<1>3. CASE body.state = "refused" /\ body.read = <<>> /\ Bytes(fed) > MaxBody
  <2>1. fed # <<>>
    BY <1>1, <1>3, NoBytes
  <2>2. Bytes(<<>>) <= MaxBody
    BY <1>1, NoBytes
  <2> QED
    BY <1>3, <2>1, <2>2 DEF BodyBounded
<1> QED
  BY <1>2, <1>3 DEF ChunkInv, BodyExact

\* What CaptureExact says implies what is required of a capture.
LEMMA CaptureExactIsPrefix == ASSUME ChunkInv PROVE CaptureIsPrefix
<1>1. fed \in Seq(Characters) /\ Len(fed) \in Nat
  BY DEF ChunkInv, ChunkTypes
<1>2. CASE content.cut
  <2>1. PICK n \in Nat : /\ n < Len(fed) /\ content.kept = SubSeq(fed, 1, n)
                         /\ Bytes(SubSeq(fed, 1, n)) <= MaxContent
                         /\ Bytes(SubSeq(fed, 1, n + 1)) > MaxContent
    BY <1>2 DEF ChunkInv, CaptureExact
  <2> DEFINE kept == SubSeq(fed, 1, n)
  <2>2. kept \in Seq(Characters) /\ Len(kept) = n
    <3>1. n \in 0 .. Len(fed)
      BY <1>1, <2>1
    <3> QED
      BY <1>1, <3>1, PrefixReaches
  <2>3. SubSeq(kept, 1, Len(kept)) = kept
    <3> HIDE DEF kept
    <3> QED
      BY <2>2, SubSeqFull
  <2>4. SubSeq(fed, 1, Len(kept)) = kept
    BY <2>2
  <2> HIDE DEF kept
  <2>5. content.kept = kept /\ Bytes(kept) <= MaxContent /\ Len(kept) <= Len(fed) /\ kept # fed
        /\ Bytes(SubSeq(fed, 1, Len(kept) + 1)) > MaxContent
    BY <1>1, <2>1, <2>2 DEF kept
  <2> QED
    BY <1>2, <2>3, <2>4, <2>5 DEF CaptureIsPrefix, IsPrefix
<1>3. CASE ~content.cut
  <2>1. content.kept = fed /\ Bytes(fed) <= MaxContent
    BY <1>3 DEF ChunkInv, CaptureExact
  <2>2. Len(fed) <= Len(fed)
    BY <1>1
  <2> QED
    BY <1>3, <2>1, <2>2 DEF CaptureIsPrefix, IsPrefix
<1> QED
  BY <1>2, <1>3

\* ChunkInv is inductive.
LEMMA ChunkKept == ASSUME ChunkInv, [ChunkNext]_chunkVars PROVE ChunkInv'
<1>1. CASE UNCHANGED chunkVars
  BY <1>1 DEF chunkVars, ChunkInv, ChunkTypes, CaptureExact, BodyExact, BodyBounded
<1>2. CASE Feed
  <2>1. PICK n \in 1 .. Len(text) :
          /\ text' = SubSeq(text, n + 1, Len(text)) /\ fed' = fed \o SubSeq(text, 1, n)
          /\ content' = push(content, SubSeq(text, 1, n))
          /\ body' = ReadBody(body, SubSeq(text, 1, n))
    BY <1>2 DEF Feed
  <2>2. /\ text \in Seq(Characters) /\ fed \in Seq(Characters) /\ text # <<>>
        /\ n \in Nat /\ n <= Len(text) /\ Len(text) \in Nat
    BY <1>2 DEF Feed, ChunkInv, ChunkTypes
  <2> DEFINE chunk == SubSeq(text, 1, n)
  <2>3. chunk \in Seq(Characters)
    <3>1. n \in 0 .. Len(text)
      BY <2>2
    <3> QED
      BY <2>2, <3>1, PrefixReaches
  <2>4. text' \in Seq(Characters)
    <3>1. \A i \in n + 1 .. Len(text) : text[i] \in Characters
      BY <2>2
    <3>2. n + 1 \in Int /\ Len(text) \in Int
      BY <2>2
    <3> QED
      BY <2>1, <3>1, <3>2, SubSeqProperties
  <2> HIDE DEF chunk
  <2>5. fed' = fed \o chunk /\ content' = push(content, chunk) /\ body' = ReadBody(body, chunk)
    BY <2>1 DEF chunk
  <2>6. fed' \in Seq(Characters)
    BY <2>2, <2>3, <2>5, ConcatProperties
  <2>7. CaptureExact' /\ content' \in [kept : Seq(Characters), cut : BOOLEAN]
    BY <2>3, <2>5, PushKeeps
  <2>8. BodyExact' /\ body' \in [read : Seq(Characters), state : {"reading", "refused", "done"}]
    BY <2>2, <2>3, <2>5, ReadBodyKeeps
  <2> QED
    BY <2>4, <2>6, <2>7, <2>8 DEF ChunkInv, ChunkTypes
<1>3. CASE Flush
  <2>1. /\ text = <<>> /\ UNCHANGED <<text, fed, content>>
        /\ body' = [body EXCEPT !.state = "done"]
    BY <1>3 DEF Flush
  <2>2. BodyBounded
    BY BodyExactBounds
  <2>3. /\ body' \in [read : Seq(Characters), state : {"reading", "refused", "done"}]
        /\ body'.state = "done" /\ body'.read = body.read
    BY <2>1 DEF ChunkInv, ChunkTypes
  <2>4. BodyExact'
    BY <2>1, <2>2, <2>3 DEF BodyExact, BodyBounded
  <2>5. CaptureExact'
    BY <2>1 DEF ChunkInv, CaptureExact
  <2> QED
    BY <2>1, <2>3, <2>4, <2>5 DEF ChunkInv, ChunkTypes
<1> QED
  BY <1>1, <1>2, <1>3 DEF ChunkNext

-----------------------------------------------------------------------------
(* Events                                                                    *)

ParserFields == {"buffer", "carry", "events"}

\* The states of a parser that has begun as p, before and after every character.
Scans(p, s, at) ==
  /\ DOMAIN at = 0 .. Len(s) /\ at[0] = p
  /\ \A i \in 1 .. Len(s) : at[i] = Taken(at[i - 1], s, i)

\* The recursion that Scan is defined by has a solution.
LEMMA ScanExists ==
  ASSUME NEW p, NEW s, Len(s) \in Nat
  PROVE  \E at : at = [i \in 0 .. Len(s) |-> IF i = 0 THEN p ELSE Taken(at[i - 1], s, i)]
<1> DEFINE n == Len(s)
           Step(q, i) == Taken(q, s, i)
           Upto(f, k) == /\ DOMAIN f = 0 .. k
                         /\ f[0] = p /\ \A i \in 1 .. k : f[i] = Step(f[i - 1], i)
           lacking == {k \in 0 .. n : ~ \E f : Upto(f, k)}
<1> HIDE DEF Step
<1>1. lacking = {}
  <2> SUFFICES ASSUME lacking # {} PROVE FALSE
    OBVIOUS
  <2>1. PICK m \in lacking : \A k \in lacking : m <= k
    <3>1. lacking \subseteq Nat
      OBVIOUS
    <3> HIDE DEF lacking
    <3> QED
      BY <3>1, LeastNatural
  <2>2. m \in 0 .. n /\ m \in Nat /\ ~ \E f : Upto(f, m)
    <3> HIDE DEF Upto
    <3> QED
      OBVIOUS
  <2>3. m # 0
    <3>1. Upto([i \in 0 .. 0 |-> p], 0)
      OBVIOUS
    <3> HIDE DEF Upto
    <3> QED
      BY <2>2, <3>1
  <2>4. m - 1 \in 0 .. n /\ m - 1 \in Nat /\ m - 1 \notin lacking
    BY <2>1, <2>2, <2>3
  <2>5. PICK f : Upto(f, m - 1)
    BY <2>4
  <2> DEFINE g == [i \in 0 .. m |-> IF i = m THEN Step(f[m - 1], m) ELSE f[i]]
  <2>6. DOMAIN g = 0 .. m /\ g[0] = p
    BY <2>2, <2>3, <2>5
  <2>7. ASSUME NEW i \in 1 .. m PROVE g[i] = Step(g[i - 1], i)
    <3>1. i \in 0 .. m /\ i - 1 \in 0 .. m /\ i - 1 # m
      BY <2>2
    <3>2. g[i - 1] = f[i - 1]
      BY <3>1
    <3>3. CASE i = m
      BY <3>1, <3>2, <3>3
    <3>4. CASE i # m
      <4>1. i \in 1 .. m - 1
        BY <2>2, <3>4
      <4>2. f[i] = Step(f[i - 1], i) /\ g[i] = f[i]
        BY <2>5, <3>1, <3>4, <4>1
      <4> QED
        BY <3>2, <4>2
    <3> QED
      BY <3>3, <3>4
  <2> HIDE DEF g
  <2>8. Upto(g, m)
    BY <2>6, <2>7
  <2> HIDE DEF Upto
  <2> QED
    BY <2>2, <2>8
<1>2. PICK f : Upto(f, n)
  <2>1. n \in 0 .. n
    OBVIOUS
  <2> HIDE DEF Upto
  <2> QED
    BY <1>1, <2>1
<1> DEFINE g == [i \in 0 .. n |-> IF i = 0 THEN p ELSE Step(f[i - 1], i)]
           h == [i \in 0 .. n |-> IF i = 0 THEN p ELSE Step(g[i - 1], i)]
<1>3. \A i \in 0 .. n : g[i] = f[i]
  BY <1>2
<1>4. g = h
  <2>1. \A i \in 0 .. n : i # 0 => i - 1 \in 0 .. n
    OBVIOUS
  <2>2. \A i \in 0 .. n : g[i] = h[i]
    BY <1>3, <2>1
  <2> QED
    BY <2>2
<1>5. \E e : e = [i \in 0 .. n |-> IF i = 0 THEN p ELSE Step(e[i - 1], i)]
  BY <1>4
<1> QED
  BY <1>5 DEF Step

\* So Scan goes through such states.
LEMMA ScanGoesThrough ==
  ASSUME NEW p, NEW s, Len(s) \in Nat
  PROVE  \E at : Scans(p, s, at) /\ Scan(p, s) = at[Len(s)]
<1> DEFINE At == CHOOSE at : at = [i \in 0 .. Len(s) |-> IF i = 0 THEN p ELSE Taken(at[i - 1], s, i)]
<1>1. At = [i \in 0 .. Len(s) |-> IF i = 0 THEN p ELSE Taken(At[i - 1], s, i)]
  <2> HIDE DEF At
  <2> QED
    BY ScanExists DEF At
<1>2. Scan(p, s) = At[Len(s)]
  BY DEF Scan
<1> HIDE DEF At
<1>3. Scans(p, s, At)
  BY <1>1 DEF Scans
<1> QED
  BY <1>2, <1>3

\* There is one such course only.
LEMMA ScanIs ==
  ASSUME NEW p, NEW s, Len(s) \in Nat, NEW f, Scans(p, s, f)
  PROVE  Scan(p, s) = f[Len(s)]
<1> DEFINE n == Len(s)
<1>1. PICK at : Scans(p, s, at) /\ Scan(p, s) = at[n]
  BY ScanGoesThrough
<1> DEFINE bad == {i \in 0 .. n : at[i] # f[i]}
<1>2. bad = {}
  <2> SUFFICES ASSUME bad # {} PROVE FALSE
    OBVIOUS
  <2>1. PICK m \in bad : \A k \in bad : m <= k
    <3>1. bad \subseteq Nat
      OBVIOUS
    <3> HIDE DEF bad
    <3> QED
      BY <3>1, LeastNatural
  <2>2. m \in 0 .. n /\ at[m] # f[m]
    OBVIOUS
  <2>3. m # 0
    BY <1>1, <2>2 DEF Scans
  <2>4. m \in 1 .. n /\ m - 1 \in 0 .. n /\ m - 1 \notin bad
    BY <2>1, <2>2, <2>3
  <2>5. at[m - 1] = f[m - 1]
    BY <2>4
  <2> QED
    BY <1>1, <2>2, <2>4, <2>5 DEF Scans
<1>3. n \in 0 .. n
  OBVIOUS
<1> QED
  BY <1>1, <1>2, <1>3

\* A text scanned in two pieces, unless the cut is inside a line break.
LEMMA ScanConcat ==
  ASSUME NEW p, NEW s \in Seq(Characters), NEW t \in Seq(Characters),
         s = <<>> \/ t = <<>> \/ s[Len(s)] # CR \/ t[1] # LF
  PROVE  Scan(p, s \o t) = Scan(Scan(p, s), t)
<1> DEFINE m == Len(s)
           n == Len(t)
           st == s \o t
<1>1. /\ m \in Nat /\ n \in Nat /\ Len(st) = m + n
      /\ \A i \in 1 .. m + n : st[i] = IF i <= m THEN s[i] ELSE t[i - m]
      /\ (s = <<>> => m = 0) /\ (t = <<>> => n = 0)
  BY ConcatProperties
<1> HIDE DEF st
<1>2. PICK at : Scans(p, st, at) /\ Scan(p, st) = at[m + n]
  <2>1. Len(st) \in Nat
    BY <1>1
  <2>2. \E at : Scans(p, st, at) /\ Scan(p, st) = at[Len(st)]
    BY <2>1, ScanGoesThrough
  <2> QED
    BY <1>1, <2>2
<1> DEFINE f == [i \in 0 .. m |-> at[i]]
           g == [i \in 0 .. n |-> at[m + i]]
<1> HIDE DEF m, n
<1>3. Scans(p, s, f)
  <2>1. DOMAIN f = 0 .. Len(s) /\ f[0] = p
    BY <1>1, <1>2 DEF Scans, m
  <2>2. ASSUME NEW i \in 1 .. Len(s) PROVE f[i] = Taken(f[i - 1], s, i)
    <3>1. /\ i \in 1 .. m /\ i \in 0 .. m /\ i - 1 \in 0 .. m /\ i \in 1 .. m + n
          /\ (i > 1 => i - 1 \in 1 .. m /\ i - 1 \in 1 .. m + n)
      BY <1>1 DEF m
    <3>2. f[i] = at[i] /\ f[i - 1] = at[i - 1]
      BY <3>1
    <3>3. at[i] = Taken(at[i - 1], st, i)
      BY <1>1, <1>2, <3>1 DEF Scans
    <3>4. st[i] = s[i] /\ (i > 1 => st[i - 1] = s[i - 1])
      BY <1>1, <3>1
    <3> QED
      BY <3>2, <3>3, <3>4 DEF Taken
  <2> HIDE DEF f
  <2> QED
    BY <2>1, <2>2 DEF Scans
<1>4. Scan(p, s) = at[m]
  <2>1. Scan(p, s) = f[m]
    BY <1>1, <1>3, ScanIs DEF m
  <2> QED
    BY <1>1, <2>1
<1>5. Scans(at[m], t, g)
  <2>1. DOMAIN g = 0 .. Len(t) /\ g[0] = at[m]
    BY <1>1 DEF n
  <2>2. ASSUME NEW i \in 1 .. Len(t) PROVE g[i] = Taken(g[i - 1], t, i)
    <3>1. /\ i \in Nat /\ i \in 1 .. n /\ i \in 0 .. n /\ i - 1 \in 0 .. n
          /\ m + i \in 1 .. m + n /\ ~(m + i <= m) /\ (m + i) - m = i
          /\ m + (i - 1) = (m + i) - 1
      BY <1>1 DEF n
    <3>2. g[i] = at[m + i] /\ g[i - 1] = at[(m + i) - 1]
      BY <3>1
    <3>3. at[m + i] = Taken(at[(m + i) - 1], st, m + i)
      BY <1>1, <1>2, <3>1 DEF Scans
    <3>4. st[m + i] = t[i]
      BY <1>1, <3>1
    <3>5. CASE i > 1
      <4>1. /\ (m + i) - 1 \in 1 .. m + n /\ ~((m + i) - 1 <= m) /\ ((m + i) - 1) - m = i - 1
            /\ m + i > 1
        BY <1>1, <3>1, <3>5
      <4>2. st[(m + i) - 1] = t[i - 1]
        BY <1>1, <4>1
      <4> QED
        BY <3>2, <3>3, <3>4, <3>5, <4>1, <4>2 DEF Taken
    <3>6. CASE ~(i > 1)
      <4>1. i = 1 /\ (m + i) - 1 = m /\ (m + i > 1 => m \in 1 .. m + n /\ m <= m)
        BY <1>1, <3>1, <3>6
      <4>2. m + i > 1 => st[m] = s[m]
        BY <1>1, <4>1
      <4>3. ~(t[i] = LF /\ m + i > 1 /\ s[m] = CR)
        <5>1. m + i > 1 => s # <<>> /\ t # <<>>
          BY <1>1, <3>1, <4>1
        <5> QED
          BY <4>1, <5>1 DEF m
      <4> QED
        BY <3>2, <3>3, <3>4, <3>6, <4>1, <4>2, <4>3 DEF Taken
    <3> QED
      BY <3>5, <3>6
  <2> HIDE DEF g
  <2> QED
    BY <2>1, <2>2 DEF Scans
<1>6. Scan(at[m], t) = at[m + n]
  <2>1. Scan(at[m], t) = g[n]
    BY <1>1, <1>5, ScanIs DEF n
  <2> QED
    BY <1>1, <2>1
<1> QED
  BY <1>2, <1>4, <1>6 DEF st

\* A parser with another held-back character.
Holding(q, c) == [q EXCEPT !.carry = c]

\* Scanning does not touch the held-back character.
LEMMA ScanCarries ==
  ASSUME NEW p, DOMAIN p = ParserFields, NEW s, Len(s) \in Nat, NEW c
  PROVE  /\ Scan(Holding(p, c), s) = Holding(Scan(p, s), c)
         /\ DOMAIN Scan(p, s) = ParserFields /\ Scan(p, s).carry = p.carry
<1> DEFINE n == Len(s)
           Good(q) == DOMAIN q = ParserFields /\ q.carry = p.carry
           With(q) == Holding(q, c)
<1>1. PICK at : Scans(p, s, at) /\ Scan(p, s) = at[n]
  BY ScanGoesThrough
<1>2. ASSUME NEW q, Good(q), NEW x PROVE Good(Scanned(q, x)) /\ With(Scanned(q, x)) = Scanned(With(q), x)
  <2>1. /\ DOMAIN With(q) = ParserFields
        /\ With(q).buffer = q.buffer /\ With(q).events = q.events
    BY <1>2 DEF ParserFields, Holding
  <2>2. CASE x = LF /\ q.buffer # <<>> /\ Last(q.buffer) = LF
    <3> DEFINE more == parseEventBlock(Front(q.buffer))
    <3>1. /\ Scanned(q, x) = [q EXCEPT !.buffer = <<>>, !.events = q.events \o more]
          /\ Scanned(With(q), x) = [With(q) EXCEPT !.buffer = <<>>, !.events = q.events \o more]
      BY <2>1, <2>2 DEF Scanned
    <3> HIDE DEF more
    <3> QED
      BY <1>2, <3>1 DEF ParserFields, Holding
  <2>3. CASE ~(x = LF /\ q.buffer # <<>> /\ Last(q.buffer) = LF)
    <3>1. /\ Scanned(q, x) = [q EXCEPT !.buffer = Append(q.buffer, x)]
          /\ Scanned(With(q), x) = [With(q) EXCEPT !.buffer = Append(q.buffer, x)]
      BY <2>1, <2>3 DEF Scanned
    <3> QED
      BY <1>2, <3>1 DEF ParserFields, Holding
  <2> QED
    BY <2>2, <2>3
<1> HIDE DEF Good, With
<1>3. ASSUME NEW q, Good(q), NEW i PROVE Good(Taken(q, s, i)) /\ With(Taken(q, s, i)) = Taken(With(q), s, i)
  BY <1>2, <1>3 DEF Taken
<1> DEFINE bad == {i \in 0 .. n : ~Good(at[i])}
<1>4. bad = {}
  <2> SUFFICES ASSUME bad # {} PROVE FALSE
    OBVIOUS
  <2>1. PICK m \in bad : \A k \in bad : m <= k
    <3>1. bad \subseteq Nat
      OBVIOUS
    <3> HIDE DEF bad
    <3> QED
      BY <3>1, LeastNatural
  <2>2. m \in 0 .. n /\ ~Good(at[m])
    OBVIOUS
  <2>3. m # 0
    BY <1>1, <2>2 DEF Scans, Good
  <2>4. m \in 1 .. n /\ m - 1 \in 0 .. n /\ m - 1 \notin bad
    BY <2>1, <2>2, <2>3
  <2>5. Good(at[m - 1])
    BY <2>4
  <2> QED
    BY <1>1, <1>3, <2>2, <2>4, <2>5 DEF Scans
<1> DEFINE f == [i \in 0 .. n |-> With(at[i])]
<1>5. Scans(With(p), s, f)
  <2>1. DOMAIN f = 0 .. n /\ f[0] = With(p)
    BY <1>1 DEF Scans
  <2>2. ASSUME NEW i \in 1 .. n PROVE f[i] = Taken(f[i - 1], s, i)
    <3>1. i \in 0 .. n /\ i - 1 \in 0 .. n
      OBVIOUS
    <3>2. f[i] = With(at[i]) /\ f[i - 1] = With(at[i - 1])
      BY <3>1
    <3>3. Good(at[i - 1]) /\ at[i] = Taken(at[i - 1], s, i)
      BY <1>1, <1>4, <3>1 DEF Scans
    <3> QED
      BY <1>3, <3>2, <3>3
  <2> HIDE DEF f
  <2> QED
    BY <2>1, <2>2 DEF Scans
<1>6. Scan(With(p), s) = With(at[n])
  <2>1. Scan(With(p), s) = f[n]
    BY <1>5, ScanIs
  <2> QED
    BY <2>1
<1>7. Good(at[n])
  BY <1>4
<1> QED
  BY <1>1, <1>6, <1>7 DEF Good, With

\* A text is what is scanned of it and what is held back.
LEMMA HeldOff ==
  ASSUME NEW u \in Seq(Characters)
  PROVE  \E now \in Seq(Characters) :
           /\ u = now \o HeldBack(u) /\ now = SubSeq(u, 1, Len(u) - Len(HeldBack(u)))
           /\ HeldBack(u) \in {<<>>, <<CR>>}
           /\ HeldBack(u) = <<>> /\ now # <<>> => now[Len(now)] # CR
<1> DEFINE n == Len(u)
<1>1. n \in Nat /\ (u # <<>> => n \in 1 .. n)
  OBVIOUS
<1>2. CASE u # <<>> /\ u[n] = CR
  <2>1. HeldBack(u) = <<CR>> /\ Len(HeldBack(u)) = 1
    BY <1>2 DEF HeldBack, Last
  <2> DEFINE now == SubSeq(u, 1, n - 1)
  <2>2. now \in Seq(Characters) /\ Len(now) = n - 1
    <3>1. n - 1 \in 0 .. n
      BY <1>1, <1>2
    <3> QED
      BY <3>1, PrefixReaches
  <2>3. \A i \in 1 .. n - 1 : now[i] = u[i]
    BY <1>1, <1>2
  <2>4. u = now \o <<CR>>
    <3> DEFINE v == now \o <<CR>>
    <3>1. CR \in Characters
      BY DEF Characters
    <3>2. <<CR>> \in Seq(Characters) /\ Len(<<CR>>) = 1
      BY <3>1
    <3> HIDE DEF now
    <3>3. /\ v \in Seq(Characters) /\ Len(v) = n
          /\ \A i \in 1 .. n : v[i] = IF i <= n - 1 THEN now[i] ELSE <<CR>>[i - (n - 1)]
      BY <1>1, <1>2, <2>2, <3>2, ConcatProperties
    <3> HIDE DEF v
    <3>4. ASSUME NEW i \in 1 .. n PROVE v[i] = u[i]
      <4>1. CASE i <= n - 1
        BY <1>1, <2>3, <3>3, <4>1
      <4>2. CASE ~(i <= n - 1)
        <5>1. i = n /\ i - (n - 1) = 1
          BY <1>1, <4>2
        <5> QED
          BY <1>2, <3>3, <4>2, <5>1
      <4> QED
        BY <4>1, <4>2
    <3>5. v = u
      <4>1. Len(v) = Len(u) /\ \A i \in 1 .. Len(v) : v[i] = u[i]
        BY <3>3, <3>4
      <4> QED
        BY <3>3, <4>1, SeqEqual, SMTT(30)
    <3> QED
      BY <3>5 DEF v
  <2> HIDE DEF now
  <2>5. now = SubSeq(u, 1, Len(u) - Len(HeldBack(u)))
    BY <2>1 DEF now
  <2>6. HeldBack(u) \in {<<>>, <<CR>>} /\ HeldBack(u) # <<>>
    BY <2>1
  <2>7. u = now \o HeldBack(u)
    BY <2>1, <2>4
  <2> QED
    BY <2>2, <2>5, <2>6, <2>7
<1>3. CASE ~(u # <<>> /\ u[n] = CR)
  <2>1. HeldBack(u) = <<>> /\ Len(HeldBack(u)) = 0
    BY <1>3 DEF HeldBack, Last
  <2>2. u = u \o <<>>
    BY ConcatEmptySeq
  <2>3. SubSeq(u, 1, n - 0) = u
    <3>1. n - 0 = n
      BY <1>1
    <3>2. SubSeq(u, 1, n) = u
      BY SubSeqFull
    <3> QED
      BY <3>1, <3>2
  <2> QED
    BY <1>3, <2>1, <2>2, <2>3
<1> QED
  BY <1>2, <1>3

\* And of a text in two pieces the second is held back, and no more.
LEMMA HeldIs ==
  ASSUME NEW u \in Seq(Characters), NEW c \in Seq(Characters)
  PROVE  SubSeq(u \o c, 1, Len(u \o c) - Len(c)) = u
<1>1. /\ Len(u \o c) = Len(u) + Len(c) /\ Len(u) \in Nat /\ Len(c) \in Nat
      /\ Len(u) \in 0 .. Len(u)
  BY ConcatProperties
<1>2. Len(u \o c) - Len(c) = Len(u)
  BY <1>1
<1>3. SubSeq(u \o c, 1, Len(u)) = SubSeq(u, 1, Len(u)) /\ SubSeq(u, 1, Len(u)) = u
  BY <1>1, PrefixKept, SubSeqFull
<1> QED
  BY <1>2, <1>3

\* What is fed in two pieces ends as what is fed in one.
LEMMA FeedFeeds ==
  ASSUME NEW s \in Seq(Characters), NEW t \in Seq(Characters)
  PROVE  feed(feed(Fresh, s), t) = feed(Fresh, s \o t)
<1> DEFINE c == HeldBack(s)
           ct == c \o t
           d == HeldBack(ct)
<1>1. PICK a \in Seq(Characters) :
        /\ s = a \o c /\ a = SubSeq(s, 1, Len(s) - Len(c))
        /\ c \in {<<>>, <<CR>>}
        /\ c = <<>> /\ a # <<>> => a[Len(a)] # CR
  BY HeldOff
<1>2. c \in Seq(Characters) /\ d \in Seq(Characters)
  <2>1. CR \in Characters
    BY DEF Characters
  <2>2. <<>> \in Seq(Characters) /\ <<CR>> \in Seq(Characters)
    BY <2>1
  <2> QED
    BY <2>2 DEF HeldBack
<1>3. ct \in Seq(Characters)
  BY <1>2, ConcatProperties
<1> HIDE DEF c
<1>4. PICK b \in Seq(Characters) : ct = b \o d /\ b = SubSeq(ct, 1, Len(ct) - Len(d))
  <2> HIDE DEF ct
  <2> QED
    BY <1>3, HeldOff
<1> DEFINE p == Scan([Fresh EXCEPT !.carry = c], a)
<1>5. feed(Fresh, s) = p
  <2>1. Fresh.carry \o s = s
    BY ConcatEmptySeq DEF Fresh
  <2> QED
    BY <1>1, <2>1 DEF feed, c
<1>6. /\ DOMAIN Fresh = ParserFields /\ DOMAIN [Fresh EXCEPT !.carry = c] = ParserFields
      /\ [Fresh EXCEPT !.carry = c].carry = c
      /\ \A x : [[Fresh EXCEPT !.carry = c] EXCEPT !.carry = x] = [Fresh EXCEPT !.carry = x]
  BY DEF Fresh, ParserFields
<1>7. p.carry = c /\ \A x : Holding(p, x) = Scan([Fresh EXCEPT !.carry = x], a)
  <2> DEFINE q == [Fresh EXCEPT !.carry = c]
  <2>1. DOMAIN q = ParserFields /\ q.carry = c /\ \A x : Holding(q, x) = [Fresh EXCEPT !.carry = x]
    BY <1>6 DEF Holding
  <2>2. Len(a) \in Nat
    OBVIOUS
  <2> HIDE DEF q
  <2>3. ASSUME NEW x PROVE Scan(Holding(q, x), a) = Holding(Scan(q, a), x)
    BY <2>1, <2>2, ScanCarries
  <2>4. Scan(q, a).carry = c
    BY <2>1, <2>2, ScanCarries
  <2>5. p = Scan(q, a)
    BY DEF q
  <2> HIDE DEF p
  <2> QED
    BY <2>1, <2>3, <2>4, <2>5
<1>8. feed(p, t) = Scan(Holding(p, d), b)
  <2> HIDE DEF p
  <2>1. p.carry \o t = ct
    BY <1>7
  <2> HIDE DEF ct
  <2> QED
    BY <1>4, <2>1 DEF feed, d, Holding
<1>9. HeldBack(s \o t) = d /\ s \o t = (a \o b) \o d
  <2>1. s \o t = (a \o b) \o d
    <3> HIDE DEF ct, d, p
    <3>1. (a \o c) \o t = a \o (c \o t)
      BY <1>2, ConcatAssociative, SMTT(30)
    <3>2. (a \o b) \o d = a \o (b \o d)
      BY <1>2, ConcatAssociative, SMTT(30)
    <3>3. a \o (c \o t) = a \o (b \o d)
      BY <1>4 DEF ct
    <3> QED
      BY <1>1, <3>1, <3>2, <3>3
  <2>2. HeldBack(s \o t) = d
    <3>1. /\ Len(s \o t) = Len(s) + Len(t) /\ Len(c \o t) = Len(c) + Len(t)
          /\ Len(s) \in Nat /\ Len(t) \in Nat /\ Len(c) \in Nat
          /\ \A i \in 1 .. Len(s) + Len(t) : (s \o t)[i] = IF i <= Len(s) THEN s[i] ELSE t[i - Len(s)]
          /\ \A i \in 1 .. Len(c) + Len(t) : (c \o t)[i] = IF i <= Len(c) THEN c[i] ELSE t[i - Len(c)]
      BY <1>2, ConcatProperties
    <3>2. CASE t = <<>>
      <4>1. s \o t = s /\ ct = c
        BY <1>2, <3>2, ConcatEmptySeq
      <4>2. HeldBack(c) = c
        <5>1. HeldBack(<<>>) = <<>> /\ HeldBack(<<CR>>) = <<CR>>
          BY DEF HeldBack, Last
        <5> QED
          BY <1>1, <5>1
      <4> QED
        BY <4>1, <4>2 DEF c
    <3>3. CASE t # <<>>
      <4>1. Len(t) > 0
        BY <3>1, <3>3
      <4>2. /\ Len(s) + Len(t) \in 1 .. Len(s) + Len(t) /\ ~(Len(s) + Len(t) <= Len(s))
            /\ (Len(s) + Len(t)) - Len(s) = Len(t)
            /\ Len(c) + Len(t) \in 1 .. Len(c) + Len(t) /\ ~(Len(c) + Len(t) <= Len(c))
            /\ (Len(c) + Len(t)) - Len(c) = Len(t)
        BY <3>1, <4>1
      <4>3. (s \o t)[Len(s) + Len(t)] = t[Len(t)] /\ (c \o t)[Len(c) + Len(t)] = t[Len(t)]
        BY <3>1, <4>2
      <4>4. s \o t # <<>> /\ ct # <<>>
        BY <3>1, <4>2
      <4>5. Last(s \o t) = t[Len(t)] /\ Last(ct) = t[Len(t)]
        BY <3>1, <4>3 DEF Last
      <4> HIDE DEF ct
      <4> QED
        BY <4>4, <4>5 DEF HeldBack
    <3> QED
      BY <3>2, <3>3
  <2> QED
    BY <2>1, <2>2
<1>10. a = <<>> \/ b = <<>> \/ a[Len(a)] # CR \/ b[1] # LF
  <2>1. CASE c = <<>>
    BY <1>1, <2>1
  <2>2. CASE c = <<CR>>
    <3> SUFFICES ASSUME b # <<>> PROVE b[1] # LF
      OBVIOUS
    <3>1. /\ Len(b) \in Nat /\ Len(b) >= 1 /\ Len(d) \in Nat /\ Len(t) \in Nat /\ Len(c) = 1
      BY <1>2, <2>2
    <3>2. ct[1] = c[1]
      <4>1. 1 \in 1 .. Len(c) + Len(t) /\ 1 <= Len(c)
        BY <3>1
      <4> QED
        BY <1>2, <4>1, ConcatProperties
    <3>3. (b \o d)[1] = b[1]
      <4>1. 1 \in 1 .. Len(b) + Len(d) /\ 1 <= Len(b)
        BY <3>1
      <4> QED
        BY <1>2, <4>1, ConcatProperties
    <3>4. c[1] = CR /\ CR # LF
      BY <2>2 DEF CR, LF
    <3> QED
      BY <1>4, <3>2, <3>3, <3>4
  <2> QED
    BY <1>1, <2>1, <2>2
<1>11. feed(Fresh, s \o t) = Scan([Fresh EXCEPT !.carry = d], a \o b)
  <2> DEFINE st == s \o t
  <2>1. st \in Seq(Characters)
    BY ConcatProperties
  <2>2. Fresh.carry \o st = st
    <3> HIDE DEF st
    <3> QED
      BY <2>1, ConcatEmptySeq DEF Fresh
  <2>3. a \o b \in Seq(Characters)
    BY ConcatProperties
  <2>4. SubSeq(st, 1, Len(st) - Len(d)) = a \o b
    <3> DEFINE ab == a \o b
    <3>1. ab \in Seq(Characters) /\ st = ab \o d
      BY <1>9, <2>3
    <3> HIDE DEF ab, st
    <3>2. SubSeq(ab \o d, 1, Len(ab \o d) - Len(d)) = ab
      BY <1>2, <3>1, HeldIs
    <3> QED
      BY <3>1, <3>2 DEF ab
  <2>5. HeldBack(st) = d
    BY <1>9
  <2> HIDE DEF st, d
  <2>6. feed(Fresh, st) = Scan([Fresh EXCEPT !.carry = d], a \o b)
    BY <2>2, <2>4, <2>5 DEF feed
  <2> QED
    BY <2>6 DEF st
<1>12. Scan([Fresh EXCEPT !.carry = d], a \o b) = Scan(Holding(p, d), b)
  <2> DEFINE q == [Fresh EXCEPT !.carry = d]
  <2>1. Holding(p, d) = Scan(q, a)
    BY <1>7
  <2> HIDE DEF q, p
  <2>2. Scan(q, a \o b) = Scan(Scan(q, a), b)
    BY <1>10, ScanConcat
  <2> QED
    BY <2>1, <2>2 DEF q
<1> QED
  BY <1>5, <1>8, <1>11, <1>12

\* What is fed in no piece.
LEMMA FeedNothing == feed(Fresh, <<>>) = Fresh
<1>1. <<>> \o <<>> = <<>> /\ HeldBack(<<>>) = <<>> /\ Len(<<>>) = 0 /\ <<>> \in Seq(Characters)
  BY DEF HeldBack
<1>2. SubSeq(<<>>, 1, 0 - 0) = <<>>
  BY <1>1, SubSeqEmpty
<1>3. [Fresh EXCEPT !.carry = <<>>] = Fresh /\ Fresh.carry = <<>>
  BY DEF Fresh
<1>4. Scan(Fresh, <<>>) = Fresh
  <2>1. PICK at : Scans(Fresh, <<>>, at) /\ Scan(Fresh, <<>>) = at[0]
    BY <1>1, ScanGoesThrough
  <2> QED
    BY <2>1 DEF Scans
<1> QED
  BY <1>1, <1>2, <1>3, <1>4 DEF feed

\* EventsUncut is inductive: a parser that has been fed a text is where it is
\* when fed at once.
LEMMA EventsKept == ASSUME ChunkInv, EventsUncut, [ChunkNext]_chunkVars PROVE EventsUncut'
<1>1. CASE UNCHANGED chunkVars
  BY <1>1 DEF chunkVars, EventsUncut
<1>2. CASE Feed
  <2>1. PICK n \in 1 .. Len(text) :
          /\ fed' = fed \o SubSeq(text, 1, n) /\ parser' = feed(parser, SubSeq(text, 1, n))
          /\ body' = ReadBody(body, SubSeq(text, 1, n))
    BY <1>2 DEF Feed
  <2> DEFINE chunk == SubSeq(text, 1, n)
  <2>2. /\ fed \in Seq(Characters) /\ text \in Seq(Characters) /\ text # <<>>
        /\ body \in [read : Seq(Characters), state : {"reading", "refused", "done"}]
    BY <1>2 DEF Feed, ChunkInv, ChunkTypes
  <2>3. chunk \in Seq(Characters)
    <3>1. n \in 0 .. Len(text)
      BY <2>2
    <3> QED
      BY <2>2, <3>1, PrefixReaches
  <2>4. body.state # "done"
    BY <2>2 DEF ChunkInv, BodyExact
  <2> HIDE DEF chunk
  <2>5. body'.state # "done"
    BY <2>1, <2>2, <2>4 DEF ReadBody, chunk
  <2>6. parser = feed(Fresh, fed)
    BY <2>4 DEF EventsUncut
  <2>7. parser' = feed(Fresh, fed')
    BY <2>1, <2>2, <2>3, <2>6, FeedFeeds DEF chunk
  <2> QED
    BY <2>5, <2>7 DEF EventsUncut
<1>3. CASE Flush
  <2>1. /\ body.state # "done" /\ parser' = flush(parser) /\ fed' = fed
        /\ body' = [body EXCEPT !.state = "done"]
    BY <1>3 DEF Flush
  <2>2. body'.state = "done"
    BY <2>1 DEF ChunkInv, ChunkTypes
  <2> QED
    BY <2>1, <2>2 DEF EventsUncut
<1> QED
  BY <1>1, <1>2, <1>3 DEF ChunkNext

\* CutsIrrelevant (util/sse.ts, logs/content.ts, routes/chat.ts): for any text,
\* cut anywhere, the events are those of the text in one piece; the captured
\* content is a prefix that fits its cap and is marked as cut exactly when
\* something is missing; and a request body is refused exactly when it is too
\* large.
THEOREM CutsNeverMatter == ProviderSpec => []CutsIrrelevant
<1>1. ProviderInit => ChunkInv /\ EventsUncut
  <2>1. ChunkInit \/ ChunkOff => EventsUncut
    BY FeedNothing DEF ChunkInit, ChunkOff, EventsUncut
  <2> QED
    BY <2>1, ChunkStarts DEF ProviderInit, Calling, Consuming
<1>2. ChunkInv /\ EventsUncut /\ [ProviderNext]_providerVars => (ChunkInv /\ EventsUncut)'
  <2>1. ProviderNext => [ChunkNext]_chunkVars
    BY DEF ProviderNext
  <2> QED
    BY <2>1, ChunkKept, EventsKept DEF providerVars
<1>3. ChunkInv /\ EventsUncut => CutsIrrelevant
  BY CaptureExactIsPrefix, BodyExactBounds DEF CutsIrrelevant
<1> QED
  BY <1>1, <1>2, <1>3, PTL DEF ProviderSpec

-----------------------------------------------------------------------------
(* What a conversation is translated to                                      *)

Rows(R, U) == [role : R, blocks : Seq(U)]

\* What pushMerged makes of turns that alternate: turns that alternate.
LEMMA PushAlternates ==
  ASSUME NEW R, NEW U, NEW turns \in Seq(Rows(R, U)), Alternate(turns),
         NEW role \in R, NEW blocks \in Seq(U)
  PROVE  /\ pushMerged(turns, role, blocks) \in Seq(Rows(R, U))
         /\ Alternate(pushMerged(turns, role, blocks))
         /\ pushMerged(turns, role, blocks) = <<>> => turns = <<>> /\ blocks = <<>>
<1> DEFINE pushed == pushMerged(turns, role, blocks)
           n == Len(turns)
<1>1. n \in Nat /\ DOMAIN turns = 1 .. n
  OBVIOUS
<1>2. CASE blocks = <<>>
  BY <1>2 DEF pushMerged
<1>3. CASE blocks # <<>> /\ turns # <<>> /\ Last(turns).role = role
  <2>1. n \in 1 .. n /\ turns[n] \in Rows(R, U)
    BY <1>1, <1>3
  <2> DEFINE more == turns[n].blocks \o blocks
  <2>2. more \in Seq(U) /\ more # <<>>
    <3>1. turns[n].blocks \in Seq(U)
      BY <2>1 DEF Rows
    <3> QED
      BY <1>3, <3>1, ConcatProperties, ConcatEqualIffEmpty
  <2>3. pushed = [turns EXCEPT ![n].blocks = more]
    BY <1>3 DEF pushMerged
  <2> HIDE DEF more, pushed
  <2>4. [turns[n] EXCEPT !.blocks = more] \in Rows(R, U)
    BY <2>1, <2>2 DEF Rows
  <2>5. /\ pushed \in Seq(Rows(R, U)) /\ Len(pushed) = n /\ DOMAIN pushed = 1 .. n
        /\ \A i \in 1 .. n : pushed[i] = IF i = n THEN [turns[n] EXCEPT !.blocks = more] ELSE turns[i]
    BY <1>1, <2>1, <2>3, <2>4
  <2>6. \A i \in 1 .. n : pushed[i].role = turns[i].role
    BY <2>1, <2>5 DEF Rows
  <2>7. \A i \in 1 .. n : pushed[i].blocks = IF i = n THEN more ELSE turns[i].blocks
    BY <2>1, <2>5 DEF Rows
  <2>8. Alternate(pushed)
    BY <1>1, <2>2, <2>5, <2>6, <2>7 DEF Alternate
  <2>9. pushed # <<>>
    BY <2>1, <2>5
  <2> QED
    BY <2>5, <2>8, <2>9 DEF pushed
<1>4. CASE blocks # <<>> /\ ~(turns # <<>> /\ Last(turns).role = role)
  <2> DEFINE turn == [role |-> role, blocks |-> blocks]
  <2>1. turn \in Rows(R, U) /\ turn.role = role /\ turn.blocks # <<>>
    BY <1>4 DEF Rows
  <2>2. pushed = Append(turns, turn)
    BY <1>4 DEF pushMerged
  <2>3. n # 0 => turns[n].role # role
    BY <1>1, <1>4 DEF Last
  <2> HIDE DEF turn, pushed
  <2>4. /\ pushed \in Seq(Rows(R, U)) /\ Len(pushed) = n + 1 /\ DOMAIN pushed = 1 .. n + 1
        /\ \A i \in 1 .. n : pushed[i] = turns[i]
        /\ pushed[n + 1] = turn
    BY <1>1, <2>1, <2>2
  <2>5. \A i \in 1 .. n + 1 : pushed[i].blocks # <<>>
    <3>1. \A i \in 1 .. n : turns[i].blocks # <<>>
      BY <1>1 DEF Alternate
    <3> QED
      BY <1>1, <2>1, <2>4, <3>1
  <2>6. ASSUME NEW i \in 2 .. n + 1 PROVE pushed[i].role # pushed[i - 1].role
    <3>1. CASE i = n + 1
      <4>1. i - 1 = n /\ n \in 1 .. n
        BY <1>1, <3>1
      <4> QED
        BY <1>1, <2>1, <2>3, <2>4, <3>1, <4>1
    <3>2. CASE i # n + 1
      <4>1. i \in 2 .. n /\ i \in 1 .. n /\ i - 1 \in 1 .. n
        BY <1>1, <3>2
      <4> QED
        BY <2>4, <4>1 DEF Alternate
    <3> QED
      BY <3>1, <3>2
  <2>7. Alternate(pushed)
    BY <2>4, <2>5, <2>6 DEF Alternate
  <2>8. pushed # <<>>
    BY <1>1, <2>4
  <2> QED
    BY <2>4, <2>7, <2>8 DEF pushed
<1> QED
  BY <1>2, <1>3, <1>4

\* The recursive function of Merged exists: a least length for which it did
\* not would have a predecessor for which it does.
LEMMA MergedExists ==
  ASSUME NEW says, Len(says) \in Nat
  PROVE  \E f : f = [i \in 0 .. Len(says) |->
                       IF i = 0 THEN <<>>
                       ELSE pushMerged(f[i - 1], says[i].role, says[i].blocks)]
<1> DEFINE n == Len(says)
           Step(ts, i) == pushMerged(ts, says[i].role, says[i].blocks)
           Upto(f, k) == /\ DOMAIN f = 0 .. k
                         /\ f[0] = <<>> /\ \A i \in 1 .. k : f[i] = Step(f[i - 1], i)
           lacking == {k \in 0 .. n : ~ \E f : Upto(f, k)}
<1> HIDE DEF Step
<1>1. lacking = {}
  <2> SUFFICES ASSUME lacking # {} PROVE FALSE
    OBVIOUS
  <2>1. PICK m \in lacking : \A k \in lacking : m <= k
    <3>1. lacking \subseteq Nat
      OBVIOUS
    <3> HIDE DEF lacking
    <3> QED
      BY <3>1, LeastNatural
  <2>2. m \in 0 .. n /\ m \in Nat /\ ~ \E f : Upto(f, m)
    OBVIOUS
  <2>3. m # 0
    <3>1. Upto([i \in 0 .. 0 |-> <<>>], 0)
      OBVIOUS
    <3> HIDE DEF Upto
    <3> QED
      BY <2>2, <3>1
  <2>4. m - 1 \in 0 .. n /\ m - 1 \in Nat /\ m - 1 \notin lacking
    BY <2>1, <2>2, <2>3
  <2>5. PICK f : Upto(f, m - 1)
    BY <2>4
  <2> DEFINE g == [i \in 0 .. m |-> IF i = m THEN Step(f[m - 1], m) ELSE f[i]]
  <2>6. DOMAIN g = 0 .. m /\ g[0] = <<>>
    BY <2>2, <2>3, <2>5
  <2>7. ASSUME NEW i \in 1 .. m PROVE g[i] = Step(g[i - 1], i)
    <3>1. i \in 0 .. m /\ i - 1 \in 0 .. m /\ i - 1 # m
      BY <2>2
    <3>2. g[i - 1] = f[i - 1]
      BY <3>1
    <3>3. CASE i = m
      BY <3>1, <3>2, <3>3
    <3>4. CASE i # m
      <4>1. i \in 1 .. m - 1
        BY <2>2, <3>4
      <4>2. f[i] = Step(f[i - 1], i) /\ g[i] = f[i]
        BY <2>5, <3>1, <3>4, <4>1
      <4> QED
        BY <3>2, <4>2
    <3> QED
      BY <3>3, <3>4
  <2> HIDE DEF g
  <2>8. Upto(g, m)
    BY <2>6, <2>7
  <2> HIDE DEF Upto
  <2> QED
    BY <2>2, <2>8
<1>2. PICK f : Upto(f, n)
  <2>1. n \in 0 .. n
    OBVIOUS
  <2> HIDE DEF Upto
  <2> QED
    BY <1>1, <2>1
<1> DEFINE g == [i \in 0 .. n |-> IF i = 0 THEN <<>> ELSE Step(f[i - 1], i)]
           h == [i \in 0 .. n |-> IF i = 0 THEN <<>> ELSE Step(g[i - 1], i)]
<1>3. \A i \in 0 .. n : g[i] = f[i]
  BY <1>2
<1>4. g = h
  <2>1. \A i \in 0 .. n : i # 0 => i - 1 \in 0 .. n
    OBVIOUS
  <2>2. \A i \in 0 .. n : g[i] = h[i]
    BY <1>3, <2>1
  <2> QED
    BY <2>2
<1>5. \E e : e = [i \in 0 .. n |-> IF i = 0 THEN <<>> ELSE Step(e[i - 1], i)]
  BY <1>4
<1> QED
  BY <1>5 DEF Step

\* Turns that alternate, and are none only if nothing was said.
Turning(R, U, turns, says) ==
  /\ turns \in Seq(Rows(R, U)) /\ Alternate(turns)
  /\ turns = <<>> => \A i \in DOMAIN says : says[i].blocks = <<>>

\* What the messages say, merged, alternates, and is nothing only if they say
\* nothing.
LEMMA MergedAlternates ==
  ASSUME NEW R, NEW U, NEW says,
         Len(says) \in Nat, DOMAIN says = 1 .. Len(says),
         \A i \in DOMAIN says : /\ says[i].role \in R
                                /\ says[i].blocks \in Seq(U)
  PROVE  Turning(R, U, Merged(says), says)
<1> DEFINE n == Len(says)
           Good(ts, k) == /\ ts \in Seq(Rows(R, U)) /\ Alternate(ts)
                          /\ ts = <<>> => \A j \in 1 .. k : says[j].blocks = <<>>
           Turns == CHOOSE f : f = [i \in 0 .. Len(says) |->
                       IF i = 0 THEN <<>>
                       ELSE pushMerged(f[i - 1], says[i].role, says[i].blocks)]
           t == Turns
           bad == {i \in 0 .. n : ~Good(t[i], i)}
<1>1. t = [i \in 0 .. Len(says) |->
             IF i = 0 THEN <<>> ELSE pushMerged(t[i - 1], says[i].role, says[i].blocks)]
  <2> HIDE DEF Turns
  <2> QED
    BY MergedExists DEF Turns
<1>2. Merged(says) = t[n]
  BY DEF Merged
<1> HIDE DEF Turns
<1>3. Good(<<>>, 0)
  BY DEF Alternate
<1>4. ASSUME NEW i \in 1 .. n, Good(t[i - 1], i - 1) PROVE Good(t[i], i)
  <2>1. t[i] = pushMerged(t[i - 1], says[i].role, says[i].blocks)
    BY <1>1
  <2>2. says[i].role \in R /\ says[i].blocks \in Seq(U)
    OBVIOUS
  <2> DEFINE p == t[i - 1]
             r == says[i].role
             b == says[i].blocks
  <2>3. p \in Seq(Rows(R, U)) /\ Alternate(p) /\ (p = <<>> => \A j \in 1 .. i - 1 : says[j].blocks = <<>>)
    BY <1>4
  <2> HIDE DEF p, r, b
  <2>4. /\ pushMerged(p, r, b) \in Seq(Rows(R, U)) /\ Alternate(pushMerged(p, r, b))
        /\ pushMerged(p, r, b) = <<>> => p = <<>> /\ b = <<>>
    BY <2>2, <2>3, PushAlternates DEF r, b
  <2>5. \A j \in 1 .. i : j = i \/ j \in 1 .. i - 1
    OBVIOUS
  <2>6. pushMerged(p, r, b) = <<>> => \A j \in 1 .. i : says[j].blocks = <<>>
    BY <2>3, <2>4, <2>5 DEF b
  <2> QED
    BY <2>1, <2>4, <2>6 DEF p, r, b
<1>5. t[0] = <<>>
  BY <1>1
<1> HIDE DEF Good, t
<1>6. bad = {}
  <2> SUFFICES ASSUME bad # {} PROVE FALSE
    OBVIOUS
  <2>1. PICK m \in bad : \A k \in bad : m <= k
    <3>1. bad \subseteq Nat
      OBVIOUS
    <3> HIDE DEF bad
    <3> QED
      BY <3>1, LeastNatural
  <2>2. m \in 0 .. n /\ ~Good(t[m], m)
    OBVIOUS
  <2>3. m # 0
    BY <1>3, <1>5, <2>2
  <2>4. m \in 1 .. n /\ m - 1 \in 0 .. n /\ m - 1 \notin bad
    BY <2>1, <2>2, <2>3
  <2> QED
    BY <1>4, <2>2, <2>4
<1>7. Good(t[n], n)
  BY <1>6
<1> QED
  BY <1>2, <1>7 DEF Good, t, Turning

\* What Only returns has the domain of a sequence.
LEMMA OnlyIsSeq ==
  ASSUME NEW parts, IsSeq(parts), NEW kinds
  PROVE  \E k \in Nat : DOMAIN Only(parts, kinds) = 1 .. k
<1> DEFINE kept == {i \in DOMAIN parts : parts[i] \in kinds}
<1>1. Len(parts) \in Nat /\ DOMAIN parts = 1 .. Len(parts)
  BY DEF IsSeq
<1>2. IsFiniteSet(1 .. Len(parts)) /\ kept \subseteq 1 .. Len(parts)
  BY <1>1, FS_Interval
<1> HIDE DEF kept
<1>3. Cardinality(kept) \in Nat
  BY <1>2, FS_Subset, FS_CardinalityType
<1> QED
  BY <1>3 DEF Only, Kept, kept

\* A function on 1 .. k is a sequence of what it returns.
LEMMA MappedIsSeq ==
  ASSUME NEW k \in Nat, NEW s, s = [i \in 1 .. k |-> s[i]]
  PROVE  IsSeq(s)
<1>1. DOMAIN s = 1 .. k /\ \A i \in 1 .. k : s[i] \in ToSet(s)
  BY DEF ToSet
<1>2. s \in [1 .. k -> ToSet(s)]
  BY <1>1
<1> QED
  BY <1>2 DEF IsSeq

\* So are two sequences, one after the other.
LEMMA ConcatIsSeq ==
  ASSUME NEW s, NEW t, IsSeq(s), IsSeq(t)
  PROVE  IsSeq(s \o t)
<1> DEFINE U == ToSet(s) \cup ToSet(t)
           c == s \o t
<1>1. s \in Seq(U) /\ t \in Seq(U)
  BY DEF IsSeq
<1>2. c \in Seq(U)
  BY <1>1
<1> HIDE DEF c
<1>3. Len(c) \in Nat /\ c = [i \in 1 .. Len(c) |-> c[i]]
  BY <1>2
<1> QED
  BY <1>3, MappedIsSeq DEF c

\* The blocks of a sequence of parts are a sequence.
LEMMA PlainIsSeq ==
  ASSUME NEW parts, NEW k \in Nat, DOMAIN parts = 1 .. k
  PROVE  IsSeq(PlainBlocks(parts))
<1> DEFINE b == PlainBlocks(parts)
<1>1. b = [i \in 1 .. k |-> b[i]]
  BY DEF PlainBlocks
<1> HIDE DEF b
<1> QED
  BY <1>1, MappedIsSeq DEF b

\* What one message says to Anthropic: blocks, of the user or the assistant.
LEMMA AnthropicSays ==
  ASSUME NEW m, IsSeq(m.parts), IsSeq(m.calls)
  PROVE  IsSeq(AnthropicBlocks(m)) /\ AnthropicRole(m) \in {"user", "assistant"}
<1>1. IsSeq(contentPartsToBlocks(m.parts))
  BY OnlyIsSeq, PlainIsSeq DEF contentPartsToBlocks
<1> DEFINE calls == [i \in DOMAIN m.calls |-> toolCallToBlock(m.calls[i])]
<1>2. IsSeq(calls)
  <2>1. Len(m.calls) \in Nat /\ calls = [i \in 1 .. Len(m.calls) |-> calls[i]]
    BY DEF IsSeq
  <2> HIDE DEF calls
  <2> QED
    BY <2>1, MappedIsSeq
<1>3. IsSeq(contentPartsToBlocks(m.parts) \o calls)
  <2> HIDE DEF calls
  <2> QED
    BY <1>1, <1>2, ConcatIsSeq
<1>4. IsSeq(<<Block("tool_result", m.id, None, None)>>) /\ IsSeq(<<>>)
  BY DEF IsSeq, ToSet
<1>5. IsSeq(AnthropicBlocks(m))
  BY <1>1, <1>3, <1>4 DEF AnthropicBlocks
<1> QED
  BY <1>5 DEF AnthropicRole

\* What one message says to Gemini: blocks, of the user or the model.
LEMMA GoogleSays ==
  ASSUME NEW m, IsSeq(m.parts), IsSeq(m.calls), NEW names
  PROVE  IsSeq(GoogleBlocks(names, m)) /\ GoogleRole(m) \in {"user", "model"}
<1>1. IsSeq(contentToParts(m.parts))
  BY OnlyIsSeq, PlainIsSeq DEF contentToParts
<1>2. IsSeq(functionCalls(m))
  <2> DEFINE calls == functionCalls(m)
  <2>1. Len(m.calls) \in Nat /\ calls = [i \in 1 .. Len(m.calls) |-> calls[i]]
    BY DEF IsSeq, functionCalls
  <2> HIDE DEF calls
  <2>2. IsSeq(calls)
    BY <2>1, MappedIsSeq
  <2> QED
    BY <2>2 DEF calls
<1>3. IsSeq(contentToParts(m.parts) \o functionCalls(m))
  BY <1>1, <1>2, ConcatIsSeq
<1> DEFINE name == IF m.id \in DOMAIN names THEN names[m.id] ELSE "unknown"
<1>4. IsSeq(<<Block("functionResponse", m.id, name, None)>>) /\ IsSeq(<<>>)
  BY DEF IsSeq, ToSet
<1>5. IsSeq(GoogleBlocks(names, m))
  BY <1>1, <1>3, <1>4 DEF GoogleBlocks
<1> QED
  BY <1>5 DEF GoogleRole

\* However the messages of a request follow one another, what they say is
\* merged into turns that alternate, and none is empty.
LEMMA SaidAlternates ==
  ASSUME NEW R, NEW says, Len(says) \in Nat, DOMAIN says = 1 .. Len(says),
         \A i \in DOMAIN says : /\ says[i].role \in R
                                /\ IsSeq(says[i].blocks)
  PROVE  /\ \E U : Merged(says) \in Seq(Rows(R, U)) /\ Alternate(Merged(says))
         /\ Merged(says) = <<>> => \A i \in DOMAIN says : says[i].blocks = <<>>
<1> DEFINE U == UNION {ToSet(says[i].blocks) : i \in DOMAIN says}
<1>1. ASSUME NEW i \in DOMAIN says PROVE says[i].blocks \in Seq(U)
  <2>1. says[i].blocks \in Seq(ToSet(says[i].blocks)) /\ ToSet(says[i].blocks) \subseteq U
    BY DEF IsSeq
  <2> HIDE DEF U
  <2> QED
    BY <2>1
<1> HIDE DEF U
<1>2. Turning(R, U, Merged(says), says)
  BY <1>1, MergedAlternates
<1> QED
  BY <1>2 DEF Turning

\* A turn put before an assistant's is a user's.
LEMMA UserFirstAlternates ==
  ASSUME NEW U, NEW turns \in Seq(Rows({"user", "assistant"}, U)), Alternate(turns)
  PROVE  /\ Alternate(UserFirst(turns))
         /\ UserFirst(turns) # <<>> => UserFirst(turns)[1].role = "user"
         /\ UserFirst(turns) = <<>> => turns = <<>>
<1>1. Len(turns) \in Nat /\ DOMAIN turns = 1 .. Len(turns)
  OBVIOUS
<1>2. CASE turns # <<>> /\ Head(turns).role = "assistant"
  <2> DEFINE n == Len(turns)
             all == UserFirst(turns)
  <2>1. all = <<Placeholder>> \o turns
    BY <1>2 DEF UserFirst
  <2>2. Placeholder.role = "user" /\ Placeholder.blocks # <<>>
    BY DEF Placeholder, PlainBlocks
  <2>3. turns[1].role = "assistant" /\ n >= 1
    BY <1>1, <1>2
  <2> HIDE DEF all
  <2>4. /\ Len(all) = n + 1 /\ DOMAIN all = 1 .. n + 1 /\ all[1] = Placeholder
        /\ \A i \in 2 .. n + 1 : all[i] = turns[i - 1]
    BY <1>1, <2>1
  <2>5. \A i \in 1 .. n + 1 : all[i].blocks # <<>>
    <3>1. \A i \in 1 .. n : turns[i].blocks # <<>>
      BY <1>1 DEF Alternate
    <3>2. \A i \in 2 .. n + 1 : i - 1 \in 1 .. n
      BY <1>1
    <3>3. \A i \in 1 .. n + 1 : i = 1 \/ i \in 2 .. n + 1
      BY <1>1
    <3> QED
      BY <2>2, <2>4, <3>1, <3>2, <3>3
  <2>6. ASSUME NEW i \in 2 .. n + 1 PROVE all[i].role # all[i - 1].role
    <3>1. CASE i = 2
      BY <2>2, <2>3, <2>4, <3>1
    <3>2. CASE i # 2
      <4>1. i - 1 \in 2 .. n /\ i - 1 \in 2 .. n + 1
        BY <1>1, <3>2
      <4>2. turns[i - 1].role # turns[i - 1 - 1].role
        BY <4>1 DEF Alternate
      <4> QED
        BY <2>4, <4>1, <4>2
    <3> QED
      BY <3>1, <3>2
  <2>7. Alternate(all)
    BY <2>4, <2>5, <2>6 DEF Alternate
  <2>8. all # <<>>
    BY <1>1, <2>4
  <2> QED
    BY <2>2, <2>4, <2>7, <2>8 DEF all
<1>3. CASE ~(turns # <<>> /\ Head(turns).role = "assistant")
  <2>1. UserFirst(turns) = turns
    BY <1>3 DEF UserFirst
  <2>2. turns # <<>> => 1 \in 1 .. Len(turns) /\ turns[1] \in Rows({"user", "assistant"}, U) /\ Head(turns) = turns[1]
    BY <1>1
  <2> QED
    BY <1>3, <2>1, <2>2 DEF Rows
<1> QED
  BY <1>2, <1>3

\* A message without blocks has none of the parts that become one, no call, and
\* is no tool's (translateMessages in anthropic.ts and google.ts).
LEMMA NothingIsSilent ==
  ASSUME NEW m, IsSeq(m.parts), IsSeq(m.calls)
  PROVE  /\ provider = "anthropic" /\ AnthropicBlocks(m) = <<>> => Silent(m)
         /\ \A names : provider = "google" /\ GoogleBlocks(names, m) = <<>> => Silent(m)
<1>1. ASSUME NEW kinds, PlainBlocks(Only(m.parts, kinds)) = <<>> PROVE ToSet(m.parts) \cap kinds = {}
  <2> DEFINE kept == {i \in DOMAIN m.parts : m.parts[i] \in kinds}
  <2>1. Len(m.parts) \in Nat /\ DOMAIN m.parts = 1 .. Len(m.parts)
    BY DEF IsSeq
  <2>2. IsFiniteSet(1 .. Len(m.parts)) /\ kept \subseteq 1 .. Len(m.parts)
    BY <2>1, FS_Interval
  <2>3. DOMAIN PlainBlocks(Only(m.parts, kinds)) = 1 .. Cardinality(kept)
    BY DEF PlainBlocks, Only, Kept
  <2>4. DOMAIN <<>> = {}
    OBVIOUS
  <2> HIDE DEF kept
  <2>5. IsFiniteSet(kept) /\ Cardinality(kept) \in Nat
    BY <2>2, FS_Subset, FS_CardinalityType
  <2>6. Cardinality(kept) = 0
    BY <1>1, <2>3, <2>4, <2>5
  <2>7. kept = {}
    BY <2>5, <2>6, FS_EmptySet
  <2> QED
    BY <2>7 DEF kept, ToSet
<1>2. ASSUME NEW s, NEW t, IsSeq(s), IsSeq(t), s \o t = <<>> PROVE s = <<>> /\ t = <<>>
  <2> DEFINE U == ToSet(s) \cup ToSet(t)
  <2>1. s \in Seq(U) /\ t \in Seq(U)
    BY <1>2 DEF IsSeq
  <2> HIDE DEF U
  <2> QED
    BY <1>2, <2>1
<1>3. ASSUME NEW calls, DOMAIN calls = DOMAIN m.calls, calls = <<>> PROVE m.calls = <<>>
  <2>1. Len(m.calls) \in Nat /\ DOMAIN m.calls = 1 .. Len(m.calls) /\ m.calls \in Seq(ToSet(m.calls))
    BY DEF IsSeq
  <2>2. DOMAIN <<>> = {}
    OBVIOUS
  <2>3. 1 .. Len(m.calls) = {}
    BY <1>3, <2>1, <2>2
  <2> DEFINE T == ToSet(m.calls)
             s == m.calls
  <2>4. Len(s) = 0 /\ s \in Seq(T)
    <3> DEFINE k == Len(m.calls)
    <3>1. k \in Nat /\ 1 .. k = {}
      BY <2>1, <2>3
    <3> HIDE DEF k
    <3>2. k = 0
      <4>1. k >= 1 => 1 \in 1 .. k
        BY <3>1
      <4> QED
        BY <3>1, <4>1
    <3> QED
      BY <2>1, <3>2 DEF k
  <2> HIDE DEF T, s
  <2>5. s = <<>>
    BY <2>4
  <2> QED
    BY <2>5 DEF s
<1>4. ASSUME provider = "anthropic", AnthropicBlocks(m) = <<>> PROVE Silent(m)
  <2> DEFINE calls == [i \in DOMAIN m.calls |-> toolCallToBlock(m.calls[i])]
             said  == contentPartsToBlocks(m.parts)
  <2>1. said = <<>> => ToSet(m.parts) \cap {"text", "image"} = {}
    BY <1>1 DEF contentPartsToBlocks
  <2>2. calls = <<>> => m.calls = <<>>
    <3>1. DOMAIN calls = DOMAIN m.calls
      OBVIOUS
    <3> HIDE DEF calls
    <3> QED
      BY <1>3, <3>1
  <2>3. IsSeq(said) /\ IsSeq(calls)
    <3>1. IsSeq(said)
      BY OnlyIsSeq, PlainIsSeq DEF contentPartsToBlocks
    <3>2. Len(m.calls) \in Nat /\ calls = [i \in 1 .. Len(m.calls) |-> calls[i]]
      BY DEF IsSeq
    <3> HIDE DEF calls, said
    <3> QED
      BY <3>1, <3>2, MappedIsSeq
  <2>4. CASE m.role = "tool"
    <3>1. AnthropicBlocks(m) = <<Block("tool_result", m.id, None, None)>>
      BY <2>4 DEF AnthropicBlocks
    <3> QED
      BY <1>4, <3>1
  <2>5. CASE m.role = "assistant"
    <3>1. AnthropicBlocks(m) = said \o calls
      BY <2>5 DEF AnthropicBlocks
    <3> HIDE DEF said, calls
    <3>2. said = <<>> /\ calls = <<>>
      BY <1>2, <1>4, <2>3, <3>1
    <3> QED
      BY <1>4, <2>1, <2>2, <2>5, <3>2 DEF Silent
  <2>6. CASE m.role = "user"
    <3>1. AnthropicBlocks(m) = said
      BY <2>6 DEF AnthropicBlocks
    <3> QED
      BY <1>4, <2>1, <2>6, <3>1 DEF Silent
  <2>7. CASE m.role \notin {"user", "assistant", "tool"}
    BY <1>4, <2>7 DEF Silent
  <2> QED
    BY <2>4, <2>5, <2>6, <2>7
<1>5. ASSUME NEW names, provider = "google", GoogleBlocks(names, m) = <<>> PROVE Silent(m)
  <2> DEFINE calls == functionCalls(m)
             said  == contentToParts(m.parts)
  <2>1. said = <<>> => ToSet(m.parts) \cap (Parts \ {"other"}) = {}
    BY <1>1 DEF contentToParts
  <2>2. calls = <<>> => m.calls = <<>>
    <3>1. DOMAIN calls = DOMAIN m.calls
      BY DEF functionCalls
    <3> HIDE DEF calls
    <3> QED
      BY <1>3, <3>1
  <2>3. IsSeq(said) /\ IsSeq(calls)
    <3>1. IsSeq(said)
      BY OnlyIsSeq, PlainIsSeq DEF contentToParts
    <3>2. Len(m.calls) \in Nat /\ calls = [i \in 1 .. Len(m.calls) |-> calls[i]]
      BY DEF IsSeq, functionCalls
    <3> HIDE DEF calls, said
    <3> QED
      BY <3>1, <3>2, MappedIsSeq
  <2>4. CASE IsSystem(m)
    BY <2>4 DEF Silent
  <2>5. CASE ~IsSystem(m) /\ m.role = "assistant"
    <3>1. GoogleBlocks(names, m) = said \o calls
      BY <2>5 DEF GoogleBlocks
    <3> HIDE DEF said, calls
    <3>2. said = <<>> /\ calls = <<>>
      BY <1>2, <1>5, <2>3, <3>1
    <3> QED
      BY <1>5, <2>1, <2>2, <2>5, <3>2 DEF Silent
  <2>6. CASE ~IsSystem(m) /\ m.role = "tool"
    <3>1. \E b : GoogleBlocks(names, m) = <<b>>
      BY <2>6 DEF GoogleBlocks
    <3> QED
      BY <1>5, <3>1
  <2>7. CASE ~IsSystem(m) /\ m.role # "assistant" /\ m.role # "tool"
    <3>1. GoogleBlocks(names, m) = said
      BY <2>7 DEF GoogleBlocks
    <3> QED
      BY <1>5, <2>1, <2>7, <3>1 DEF Silent
  <2> QED
    BY <2>4, <2>5, <2>6, <2>7
<1> QED
  BY <1>4, <1>5

\* Anthropic's turns alternate, and a user's is the first (translateMessages in
\* anthropic.ts).
LEMMA AnthropicAlternates ==
  ASSUME NEW messages, IsSeq(messages),
         \A i \in DOMAIN messages : IsSeq(messages[i].parts) /\ IsSeq(messages[i].calls)
  PROVE  /\ Alternate(AnthropicTurns(messages))
         /\ AnthropicTurns(messages) # <<>> => AnthropicTurns(messages)[1].role = "user"
         /\ provider = "anthropic" /\ AnthropicTurns(messages) = <<>>
              => \A i \in DOMAIN messages : Silent(messages[i])
<1> DEFINE says == [i \in DOMAIN messages |->
                      [role   |-> AnthropicRole(messages[i]),
                       blocks |-> AnthropicBlocks(messages[i])]]
           R == {"user", "assistant"}
<1>1. Len(messages) \in Nat /\ DOMAIN messages = 1 .. Len(messages)
  BY DEF IsSeq
<1>2. \A i \in DOMAIN says : says[i].role \in R /\ IsSeq(says[i].blocks)
  BY AnthropicSays
<1>3. Len(says) = Len(messages) /\ DOMAIN says = 1 .. Len(says)
  BY <1>1
<1>4. AnthropicTurns(messages) = UserFirst(Merged(says))
  BY DEF AnthropicTurns
<1>6. \A i \in DOMAIN messages : says[i].blocks = AnthropicBlocks(messages[i])
  OBVIOUS
<1> HIDE DEF says, R
<1>5. PICK U : Merged(says) \in Seq(Rows(R, U)) /\ Alternate(Merged(says))
  BY <1>1, <1>2, <1>3, SaidAlternates
<1>7. Merged(says) = <<>> => \A i \in DOMAIN says : says[i].blocks = <<>>
  BY <1>1, <1>2, <1>3, SaidAlternates
<1>8. /\ Alternate(UserFirst(Merged(says)))
      /\ UserFirst(Merged(says)) # <<>> => UserFirst(Merged(says))[1].role = "user"
      /\ UserFirst(Merged(says)) = <<>> => Merged(says) = <<>>
  BY <1>5, UserFirstAlternates DEF R
<1>9. ASSUME provider = "anthropic", Merged(says) = <<>>, NEW i \in DOMAIN messages
      PROVE  Silent(messages[i])
  <2>1. AnthropicBlocks(messages[i]) = <<>>
    BY <1>1, <1>3, <1>6, <1>7, <1>9
  <2> QED
    BY <1>9, <2>1, NothingIsSilent
<1> QED
  BY <1>4, <1>8, <1>9

\* Gemini's turns alternate (translateMessages in google.ts).
LEMMA GoogleAlternates ==
  ASSUME NEW messages, IsSeq(messages),
         \A i \in DOMAIN messages : IsSeq(messages[i].parts) /\ IsSeq(messages[i].calls)
  PROVE  /\ Alternate(GoogleTurns(messages))
         /\ provider = "google" /\ GoogleTurns(messages) = <<>>
              => \A i \in DOMAIN messages : Silent(messages[i])
<1> DEFINE names == CHOOSE f : f = [i \in 0 .. Len(messages) |->
                      IF i = 0 THEN [c \in CallIds(messages) |-> "unknown"]
                      ELSE IF messages[i].role = "assistant" THEN Remembered(f[i - 1], messages[i])
                      ELSE f[i - 1]]
           says == [i \in DOMAIN messages |->
                      [role   |-> GoogleRole(messages[i]),
                       blocks |-> GoogleBlocks(names[i], messages[i])]]
           R == {"user", "model"}
<1>1. Len(messages) \in Nat /\ DOMAIN messages = 1 .. Len(messages)
  BY DEF IsSeq
<1>2. GoogleTurns(messages) = Merged(says)
  BY DEF GoogleTurns
<1> HIDE DEF names
<1>3. \A i \in DOMAIN says : says[i].role \in R /\ IsSeq(says[i].blocks)
  BY GoogleSays
<1>4. Len(says) = Len(messages) /\ DOMAIN says = 1 .. Len(says)
  BY <1>1
<1>6. \A i \in DOMAIN messages : says[i].blocks = GoogleBlocks(names[i], messages[i])
  OBVIOUS
<1> HIDE DEF says, R
<1>5. PICK U : Merged(says) \in Seq(Rows(R, U)) /\ Alternate(Merged(says))
  BY <1>1, <1>3, <1>4, SaidAlternates
<1>7. Merged(says) = <<>> => \A i \in DOMAIN says : says[i].blocks = <<>>
  BY <1>1, <1>3, <1>4, SaidAlternates
<1>8. ASSUME provider = "google", Merged(says) = <<>>, NEW i \in DOMAIN messages
      PROVE  Silent(messages[i])
  <2>1. GoogleBlocks(names[i], messages[i]) = <<>>
    BY <1>1, <1>4, <1>6, <1>7, <1>8
  <2> QED
    BY <1>8, <2>1, NothingIsSilent
<1> QED
  BY <1>2, <1>5, <1>8

\* The request a provider holds is a client's, and what it has sent to an
\* upstream that is not OpenAI's is that request's translation.
SentInv ==
  /\ request = Null \/ request \in Requests \cup Inputs
  /\ Translated => /\ provider = "anthropic" => sent.turns = AnthropicTurns(request.messages)
                   /\ provider = "google"    => sent.turns = GoogleTurns(request.messages)
  /\ provider \in {"openai", "anthropic", "google"}

\* SentInv is inductive.
LEMMA SentKept == SentInv /\ [CallNext]_callVars => SentInv'
<1> SUFFICES ASSUME SentInv, [CallNext]_callVars PROVE SentInv'
  OBVIOUS
<1> USE DEF SentInv, Translated, Sent
<1>1. ASSUME NEW result, Settles(result) PROVE SentInv'
  BY <1>1 DEF Settles
<1>2. CASE SendChat
  <2>1. /\ request' = request /\ provider' = provider
        /\ provider = "anthropic" => sent' = toAnthropicRequest(request)
        /\ provider = "google" => sent' = GoogleRequest(request)
    BY <1>2 DEF SendChat
  <2>2. toAnthropicRequest(request).turns = AnthropicTurns(request.messages)
    BY DEF toAnthropicRequest
  <2>3. GoogleRequest(request).turns = GoogleTurns(request.messages)
    BY DEF GoogleRequest
  <2> QED
    BY <2>1, <2>2, <2>3
<1>3. CASE SendEmbeddings
  <2>1. request' = request /\ provider' = provider /\ request.kind = "embeddings"
    BY <1>3 DEF SendEmbeddings, Waiting
  <2> QED
    BY <2>1
<1>4. CASE UNCHANGED callVars
  BY <1>4 DEF callVars
<1>5. CASE RefuseN
  BY <1>1, <1>5 DEF RefuseN
<1>6. CASE RefuseTokens
  BY <1>1, <1>6 DEF RefuseTokens
<1>7. CASE FetchFails
  BY <1>1, <1>7 DEF FetchFails
<1>8. CASE UpstreamRefuses
  BY <1>1, <1>8 DEF UpstreamRefuses
<1>9. CASE StreamStarts
  BY <1>1, <1>9 DEF StreamStarts
<1>10. CASE Completes
  BY <1>1, <1>10 DEF Completes
<1>11. CASE Embeds
  BY <1>1, <1>11 DEF Embeds
<1>12. CASE ListModels
  BY <1>1, <1>12 DEF ListModels
<1>13. CASE TranslationThrows
  BY <1>1, <1>13 DEF TranslationThrows
<1> QED
  BY <1>2, <1>3, <1>4, <1>5, <1>6, <1>7, <1>8, <1>9, <1>10, <1>11, <1>12, <1>13 DEF CallNext

\* What it has sent alternates.
LEMMA SentAccepted == SentInv => TurnsAlternate
<1> SUFFICES ASSUME SentInv, Translated
             PROVE  /\ Alternate(sent.turns)
                    /\ provider = "anthropic" /\ sent.turns # <<>> => sent.turns[1].role = "user"
                    /\ sent.turns = <<>> => \A i \in DOMAIN request.messages : Silent(request.messages[i])
  BY DEF TurnsAlternate
<1>1. request \in Requests
  BY RequestsAssumption DEF SentInv, Translated, Sent
<1>2. /\ IsSeq(request.messages)
      /\ \A i \in DOMAIN request.messages :
           IsSeq(request.messages[i].parts) /\ IsSeq(request.messages[i].calls)
  BY <1>1, RequestsAssumption
<1>3. CASE provider = "anthropic"
  <2>1. sent.turns = AnthropicTurns(request.messages)
    BY <1>3 DEF SentInv
  <2> QED
    BY <1>2, <1>3, <2>1, AnthropicAlternates
<1>4. CASE provider = "google"
  <2>1. sent.turns = GoogleTurns(request.messages)
    BY <1>4 DEF SentInv
  <2> QED
    BY <1>2, <1>4, <2>1, GoogleAlternates
<1> QED
  BY <1>3, <1>4 DEF SentInv, Translated

\* Whatever messages a client sends, the turns that AnthropicProvider and
\* GoogleProvider send on alternate and none is empty, the first that Anthropic
\* gets is a user's, and there are none only if no message has anything to say
\* in one: the half of UpstreamAccepts that is about the conversation.
THEOREM TurnsAreAccepted == ProviderSpec => []TurnsAlternate
<1>1. ProviderInit => SentInv
  BY DEF ProviderInit, Calling, Consuming, CallInit, SentInv, Translated, Sent
<1>2. SentInv /\ [ProviderNext]_providerVars => SentInv'
  <2>1. [ProviderNext]_providerVars => [CallNext]_callVars
    BY DEF ProviderNext, providerVars
  <2> QED
    BY <2>1, SentKept
<1>3. SentInv => TurnsAlternate
  BY SentAccepted
<1> QED
  BY <1>1, <1>2, <1>3, PTL DEF ProviderSpec

-----------------------------------------------------------------------------
(* Tool calls and results                                                    *)

\* G tells from each element of S and each number the next element.
Steps(S, n, G) == G \in [S \X (1 .. n) -> S]

\* f begins with a and follows G.
Follows(S, n, a, G, f) ==
  f \in [0 .. n -> S] /\ f[0] = a /\ \A i \in 1 .. n : f[i] = G[<<f[i - 1], i>>]

\* What is defined by its first value and the steps exists.
LEMMA Recursion ==
  ASSUME NEW S, NEW n \in Nat, NEW a \in S, NEW G, Steps(S, n, G)
  PROVE  \E f : Follows(S, n, a, G, f)
<1> DEFINE Upto(f, k) == /\ f \in [0 .. k -> S] /\ f[0] = a
                         /\ \A i \in 1 .. k : f[i] = G[<<f[i - 1], i>>]
           lacking == {k \in 0 .. n : ~ \E f : Upto(f, k)}
<1>0. \A x \in S, i \in 1 .. n : G[<<x, i>>] \in S
  BY DEF Steps
<1>1. lacking = {}
  <2> SUFFICES ASSUME lacking # {} PROVE FALSE
    OBVIOUS
  <2>1. PICK m \in lacking : \A k \in lacking : m <= k
    <3>1. lacking \subseteq Nat
      OBVIOUS
    <3> HIDE DEF lacking
    <3> QED
      BY <3>1, LeastNatural
  <2>2. m \in 0 .. n /\ m \in Nat /\ ~ \E f : Upto(f, m)
    <3> HIDE DEF Upto
    <3> QED
      OBVIOUS
  <2>3. m # 0
    <3>1. Upto([i \in 0 .. 0 |-> a], 0)
      OBVIOUS
    <3> HIDE DEF Upto
    <3> QED
      BY <2>2, <3>1
  <2>4. m - 1 \in 0 .. n /\ m - 1 \in Nat /\ m - 1 \notin lacking
    <3> HIDE DEF lacking
    <3> QED
      BY <2>1, <2>2, <2>3
  <2>5. PICK f : Upto(f, m - 1)
    BY <2>4
  <2>6. f[m - 1] \in S /\ m \in 1 .. n
    BY <2>2, <2>3, <2>4, <2>5
  <2> DEFINE g == [i \in 0 .. m |-> IF i = m THEN G[<<f[m - 1], m>>] ELSE f[i]]
  <2>7. g[0] = a
    BY <2>2, <2>3, <2>5
  <2>8. ASSUME NEW i \in 0 .. m PROVE g[i] \in S
    <3>1. G[<<f[m - 1], m>>] \in S
      BY <1>0, <2>6
    <3>2. i # m => i \in 0 .. m - 1
      BY <2>2
    <3>3. i # m => f[i] \in S
      BY <2>5, <3>2
    <3> QED
      BY <3>1, <3>3
  <2>9. ASSUME NEW i \in 1 .. m PROVE g[i] = G[<<g[i - 1], i>>]
    <3>1. i \in 0 .. m /\ i - 1 \in 0 .. m /\ i - 1 # m
      BY <2>2
    <3>2. g[i - 1] = f[i - 1]
      BY <3>1
    <3>3. CASE i = m
      BY <3>1, <3>2, <3>3
    <3>4. CASE i # m
      <4>1. i \in 1 .. m - 1
        BY <2>2, <3>4
      <4>2. f[i] = G[<<f[i - 1], i>>] /\ g[i] = f[i]
        BY <2>5, <3>1, <3>4, <4>1
      <4> QED
        BY <3>2, <4>2
    <3> QED
      BY <3>3, <3>4
  <2>10. g \in [0 .. m -> S]
    BY <2>8
  <2> HIDE DEF g
  <2>11. Upto(g, m)
    BY <2>7, <2>9, <2>10
  <2> HIDE DEF Upto
  <2> QED
    BY <2>2, <2>11
<1>2. PICK f : Upto(f, n)
  <2>1. n \in 0 .. n
    OBVIOUS
  <2> HIDE DEF Upto
  <2> QED
    BY <1>1, <2>1
<1> QED
  BY <1>2 DEF Follows

\* The sequences one after another, up to each.
Course(seqs, f) ==
  /\ DOMAIN f = 0 .. Len(seqs) /\ f[0] = <<>>
  /\ \A i \in 1 .. Len(seqs) : f[i] = f[i - 1] \o seqs[i]

\* There is such a course.
LEMMA CourseExists ==
  ASSUME NEW U, NEW seqs \in Seq(Seq(U))
  PROVE  \E f \in [0 .. Len(seqs) -> Seq(U)] : Course(seqs, f)
<1> DEFINE n == Len(seqs)
           G == [x \in Seq(U) \X (1 .. n) |-> x[1] \o seqs[x[2]]]
<1>1. n \in Nat /\ \A i \in 1 .. n : seqs[i] \in Seq(U)
  OBVIOUS
<1>2. ASSUME NEW x \in Seq(U), NEW i \in 1 .. n PROVE x \o seqs[i] \in Seq(U)
  <2>1. seqs[i] \in Seq(U)
    BY <1>1
  <2> QED
    BY <2>1
<1> HIDE DEF n
<1>3. G \in [Seq(U) \X (1 .. n) -> Seq(U)]
  BY <1>2
<1>4. \A x \in Seq(U), i \in 1 .. n : G[<<x, i>>] = x \o seqs[i]
  OBVIOUS
<1> HIDE DEF G
<1>5. PICK f \in [0 .. n -> Seq(U)] : f[0] = <<>> /\ \A i \in 1 .. n : f[i] = G[<<f[i - 1], i>>]
  <2> DEFINE S == Seq(U)
             none == <<>>
  <2>1. none \in S /\ n \in Nat /\ Steps(S, n, G)
    BY <1>1, <1>3 DEF Steps
  <2> HIDE DEF S, none
  <2>2. PICK f : Follows(S, n, none, G, f)
    BY <2>1, Recursion
  <2> QED
    BY <2>2 DEF S, none, Follows
<1>6. ASSUME NEW i \in 1 .. n PROVE f[i] = f[i - 1] \o seqs[i]
  <2>1. i - 1 \in 0 .. n
    BY <1>1
  <2>2. f[i - 1] \in Seq(U)
    BY <2>1
  <2> QED
    BY <1>4, <1>5, <2>2
<1>7. Course(seqs, f)
  BY <1>5, <1>6 DEF Course, n
<1> QED
  BY <1>7 DEF n

\* FlattenSeq is where every such course ends.
LEMMA FlattenIs ==
  ASSUME NEW U, NEW seqs \in Seq(Seq(U)), NEW f, Course(seqs, f)
  PROVE  FlattenSeq(seqs) = f[Len(seqs)]
<1> DEFINE n == Len(seqs)
<1>1. n \in Nat /\ \A i \in 1 .. n : seqs[i] \in Seq(U)
  OBVIOUS
<1>2. CASE n = 0
  <2>1. seqs = <<>>
    BY <1>2
  <2>2. FlattenSeq(seqs) = <<>>
    BY <2>1 DEF FlattenSeq
  <2> QED
    BY <1>2, <2>2 DEF Course
<1>3. CASE n # 0
  <2> DEFINE Sol == CHOOSE e : e = [i \in 1 .. n |-> IF i = 1 THEN seqs[i] ELSE e[i - 1] \o seqs[i]]
             g == [i \in 1 .. n |-> f[i]]
             h == [i \in 1 .. n |-> IF i = 1 THEN seqs[i] ELSE g[i - 1] \o seqs[i]]
  <2>1. FlattenSeq(seqs) = Sol[n]
    BY <1>3 DEF FlattenSeq
  <2>2. f[0] = <<>> /\ \A i \in 1 .. n : f[i] = f[i - 1] \o seqs[i]
    BY DEF Course
  <2> HIDE DEF n
  <2>3. f[1] = seqs[1]
    <3>1. 1 \in 1 .. n
      BY <1>1, <1>3
    <3>2. seqs[1] \in Seq(U) /\ f[1] = f[1 - 1] \o seqs[1]
      BY <1>1, <2>2, <3>1
    <3>3. <<>> \o seqs[1] = seqs[1]
      BY <3>2
    <3>4. 1 - 1 = 0
      OBVIOUS
    <3>5. f[1 - 1] = <<>>
      BY <2>2, <3>4
    <3> QED
      BY <3>2, <3>3, <3>5
  <2>4. g = h
    <3>1. ASSUME NEW i \in 1 .. n PROVE g[i] = h[i]
      <4>1. i # 1 => i - 1 \in 1 .. n
        BY <1>1
      <4>2. n > 0
        BY <1>1
      <4> QED
        BY <2>2, <2>3, <4>1, <4>2
    <3> HIDE DEF n
    <3> QED
      BY <3>1
  <2>5. \E e : e = [i \in 1 .. n |-> IF i = 1 THEN seqs[i] ELSE e[i - 1] \o seqs[i]]
    BY <2>4
  <2>6. Sol = [i \in 1 .. n |-> IF i = 1 THEN seqs[i] ELSE Sol[i - 1] \o seqs[i]]
    <3> HIDE DEF Sol
    <3> QED
      BY <2>5 DEF Sol
  <2> HIDE DEF Sol, g, h
  <2> DEFINE bad == {i \in 1 .. n : Sol[i] # f[i]}
  <2>7. bad = {}
    <3> SUFFICES ASSUME bad # {} PROVE FALSE
      OBVIOUS
    <3>1. PICK m \in bad : \A k \in bad : m <= k
      <4>1. bad \subseteq Nat
        BY <1>1
      <4> HIDE DEF bad
      <4> QED
        BY <4>1, LeastNatural
    <3>2. m \in 1 .. n /\ Sol[m] # f[m]
      OBVIOUS
    <3>3. Sol[m] = IF m = 1 THEN seqs[m] ELSE Sol[m - 1] \o seqs[m]
      BY <2>6, <3>2
    <3>4. m # 1
      BY <1>1, <2>3, <3>2, <3>3
    <3>5. m - 1 \in 1 .. n /\ m - 1 \notin bad
      <4> HIDE DEF bad
      <4> QED
        BY <1>1, <3>1, <3>2, <3>4
    <3>6. Sol[m - 1] = f[m - 1]
      BY <3>5
    <3> QED
      BY <2>2, <3>2, <3>3, <3>4, <3>6
  <2>8. n \in 1 .. n
    BY <1>1, <1>3
  <2> QED
    BY <2>1, <2>7, <2>8 DEF n
<1> QED
  BY <1>2, <1>3

\* Sequences of sequences, one after the other.
LEMMA FlattenConcat ==
  ASSUME NEW U, NEW s \in Seq(Seq(U)), NEW t \in Seq(Seq(U))
  PROVE  /\ FlattenSeq(s \o t) = FlattenSeq(s) \o FlattenSeq(t)
         /\ FlattenSeq(s) \in Seq(U)
<1> DEFINE m == Len(s)
           n == Len(t)
           st == s \o t
<1>1. /\ m \in Nat /\ n \in Nat /\ Len(st) = m + n /\ st \in Seq(Seq(U))
      /\ \A i \in 1 .. m + n : st[i] = IF i <= m THEN s[i] ELSE t[i - m]
      /\ \A i \in 1 .. n : t[i] \in Seq(U)
  BY ConcatProperties
<1> HIDE DEF st
<1>2. PICK fs \in [0 .. m -> Seq(U)] : Course(s, fs)
  BY CourseExists
<1>3. PICK ft \in [0 .. n -> Seq(U)] : Course(t, ft)
  BY CourseExists
<1>4. FlattenSeq(s) = fs[m] /\ FlattenSeq(t) = ft[n]
  BY <1>2, <1>3, FlattenIs
<1> DEFINE f == [i \in 0 .. m + n |-> IF i <= m THEN fs[i] ELSE fs[m] \o ft[i - m]]
<1>5. /\ fs[0] = <<>> /\ ft[0] = <<>> /\ fs[m] \in Seq(U)
      /\ \A i \in 1 .. m : fs[i] = fs[i - 1] \o s[i]
      /\ \A i \in 1 .. n : ft[i] = ft[i - 1] \o t[i]
      /\ \A i \in 0 .. n : ft[i] \in Seq(U)
  <2>1. m \in 0 .. m
    BY <1>1
  <2> QED
    BY <1>2, <1>3, <2>1 DEF Course
<1> HIDE DEF m, n
<1>6. f[0] = <<>>
  BY <1>1, <1>5
<1>7. ASSUME NEW i \in 1 .. m + n PROVE f[i] = f[i - 1] \o st[i]
  <2>1. i \in 0 .. m + n /\ i - 1 \in 0 .. m + n
    BY <1>1
  <2>2. CASE i <= m
    <3>1. i \in 1 .. m /\ i - 1 <= m
      BY <1>1, <2>2
    <3>2. f[i] = fs[i] /\ f[i - 1] = fs[i - 1] /\ st[i] = s[i]
      BY <1>1, <2>1, <2>2, <3>1
    <3> QED
      BY <1>5, <3>1, <3>2
  <2>3. CASE ~(i <= m)
    <3>1. i - m \in 1 .. n /\ (i - m) - 1 \in 0 .. n /\ (i - 1) - m = (i - m) - 1
      BY <1>1, <2>3
    <3>2. f[i] = fs[m] \o ft[i - m] /\ st[i] = t[i - m]
      BY <1>1, <2>1, <2>3
    <3>3. f[i - 1] = fs[m] \o ft[(i - m) - 1]
      <4>1. CASE i - 1 <= m
        <5>1. i - 1 = m /\ (i - m) - 1 = 0
          BY <1>1, <2>3, <4>1
        <5>2. f[i - 1] = fs[m] /\ fs[m] \o <<>> = fs[m]
          BY <1>5, <2>1, <5>1
        <5> QED
          BY <1>5, <5>1, <5>2
      <4>2. CASE ~(i - 1 <= m)
        BY <2>1, <3>1, <4>2
      <4> QED
        BY <4>1, <4>2
    <3>4. ft[i - m] = ft[(i - m) - 1] \o t[i - m]
      BY <1>5, <3>1
    <3>5. ft[(i - m) - 1] \in Seq(U) /\ t[i - m] \in Seq(U)
      BY <1>1, <1>5, <3>1
    <3> DEFINE a == fs[m]
               b == ft[(i - m) - 1]
               c == t[i - m]
    <3>6. a \in Seq(U) /\ b \in Seq(U) /\ c \in Seq(U)
      BY <1>5, <3>5
    <3> HIDE DEF a, b, c
    <3>7. (a \o b) \o c = a \o (b \o c)
      BY <3>6, ConcatAssociative, SMTT(40)
    <3> QED
      BY <3>2, <3>3, <3>4, <3>7 DEF a, b, c
  <2> QED
    BY <2>2, <2>3
<1>8. DOMAIN f = 0 .. m + n
  OBVIOUS
<1>9. f[m + n] = fs[m] \o ft[n]
  <2>1. m + n \in 0 .. m + n
    BY <1>1
  <2>2. CASE n = 0
    <3>1. f[m + n] = fs[m] /\ fs[m] \o <<>> = fs[m]
      BY <1>1, <1>5, <2>1, <2>2
    <3> QED
      BY <1>5, <2>2, <3>1
  <2>3. CASE n # 0
    <3>1. ~(m + n <= m) /\ (m + n) - m = n
      BY <1>1, <2>3
    <3> QED
      BY <2>1, <3>1
  <2> QED
    BY <2>2, <2>3
<1> HIDE DEF f
<1>10. Course(st, f)
  BY <1>1, <1>6, <1>7, <1>8 DEF Course
<1>11. FlattenSeq(st) = f[m + n]
  BY <1>1, <1>10, FlattenIs
<1> QED
  BY <1>4, <1>5, <1>9, <1>11 DEF st

\* One sequence, or none.
LEMMA FlattenOne ==
  ASSUME NEW U, NEW x \in Seq(U)
  PROVE  FlattenSeq(<<x>>) = x /\ FlattenSeq(<<>>) = <<>>
<1> DEFINE f == [i \in 0 .. 1 |-> IF i = 0 THEN <<>> ELSE x]
<1>1. <<x>> \in Seq(Seq(U)) /\ Len(<<x>>) = 1 /\ <<x>>[1] = x /\ <<>> \o x = x
  OBVIOUS
<1>2. Course(<<x>>, f)
  BY <1>1 DEF Course
<1>3. FlattenSeq(<<x>>) = f[1]
  <2> HIDE DEF f
  <2> QED
    BY <1>1, <1>2, FlattenIs
<1>4. FlattenSeq(<<>>) = <<>>
  BY DEF FlattenSeq
<1> QED
  BY <1>3, <1>4

\* One sequence more.
LEMMA FlattenLast ==
  ASSUME NEW U, NEW s \in Seq(Seq(U)), NEW x \in Seq(U)
  PROVE  FlattenSeq(s \o <<x>>) = FlattenSeq(s) \o x /\ FlattenSeq(s) \in Seq(U)
<1>1. <<x>> \in Seq(Seq(U))
  OBVIOUS
<1>2. FlattenSeq(<<x>>) = x
  BY FlattenOne
<1> DEFINE t == <<x>>
<1>3. t \in Seq(Seq(U)) /\ FlattenSeq(t) = x
  BY <1>1, <1>2
<1> HIDE DEF t
<1>4. FlattenSeq(s \o t) = FlattenSeq(s) \o FlattenSeq(t) /\ FlattenSeq(s) \in Seq(U)
  BY <1>3, FlattenConcat
<1> QED
  BY <1>3, <1>4 DEF t

\* Empty sequences, however many.
LEMMA FlattenBlank ==
  ASSUME NEW n \in Nat
  PROVE  FlattenSeq([i \in 1 .. n |-> <<>>]) = <<>>
<1> DEFINE seqs == [i \in 1 .. n |-> <<>>]
           f == [i \in 0 .. n |-> <<>>]
<1>1. seqs \in Seq(Seq({})) /\ Len(seqs) = n
  OBVIOUS
<1>2. Course(seqs, f)
  <2>1. <<>> \o <<>> = <<>>
    OBVIOUS
  <2>2. \A i \in 1 .. n : i \in 0 .. n /\ i - 1 \in 0 .. n
    OBVIOUS
  <2> QED
    BY <1>1, <2>1, <2>2 DEF Course
<1>3. n \in 0 .. n
  OBVIOUS
<1>4. FlattenSeq(seqs) = f[n]
  <2> HIDE DEF f, seqs
  <2> QED
    BY <1>1, <1>2, FlattenIs
<1> QED
  BY <1>3, <1>4

\* The elements of a sequence, each a sequence of its own.
LEMMA FlattenSingles ==
  ASSUME NEW U, NEW x \in Seq(U)
  PROVE  FlattenSeq([i \in DOMAIN x |-> <<x[i]>>]) = x
<1> DEFINE n == Len(x)
           seqs == [i \in DOMAIN x |-> <<x[i]>>]
           f == [i \in 0 .. n |-> [k \in 1 .. i |-> x[k]]]
<1>1. n \in Nat /\ seqs \in Seq(Seq(U)) /\ Len(seqs) = n /\ DOMAIN x = 1 .. n
  <2>1. n \in Nat /\ DOMAIN x = 1 .. n /\ \A i \in 1 .. n : x[i] \in U
    OBVIOUS
  <2>2. \A i \in 1 .. n : <<x[i]>> \in Seq(U)
    BY <2>1
  <2> HIDE DEF n
  <2>3. seqs \in [1 .. n -> Seq(U)]
    BY <2>1, <2>2
  <2> HIDE DEF seqs
  <2> QED
    BY <2>1, <2>3
<1>2. f[0] = <<>>
  BY <1>1
<1>3. ASSUME NEW i \in 1 .. n PROVE f[i] = f[i - 1] \o seqs[i]
  <2> DEFINE a == [k \in 1 .. i - 1 |-> x[k]]
             b == [k \in 1 .. i |-> x[k]]
  <2>1. i \in 0 .. n /\ i - 1 \in 0 .. n /\ i - 1 \in Nat /\ i \in Nat
    BY <1>1
  <2>2. f[i] = b /\ f[i - 1] = a /\ seqs[i] = <<x[i]>>
    BY <1>1, <2>1
  <2>3. a \in Seq(U) /\ Len(a) = i - 1 /\ b \in Seq(U) /\ Len(b) = i
    <3>1. \A k \in 1 .. i : k \in 1 .. n /\ x[k] \in U
      BY <1>1, <2>1
    <3> QED
      BY <2>1, <3>1
  <2>4. b = a \o <<x[i]>>
    <3>1. a \o <<x[i]>> = Append(a, x[i])
      BY <1>1, <2>3
    <3>2. b = Append(a, x[i])
      BY <1>1, <2>1, <2>3
    <3> QED
      BY <3>1, <3>2
  <2> QED
    BY <2>2, <2>4
<1>4. Course(seqs, f)
  <2> HIDE DEF seqs
  <2>1. DOMAIN f = 0 .. n
    OBVIOUS
  <2> HIDE DEF f
  <2> QED
    BY <1>1, <1>2, <1>3, <2>1 DEF Course
<1>5. f[n] = x
  <2>1. n \in 0 .. n
    BY <1>1
  <2>2. x = [k \in 1 .. n |-> x[k]]
    BY <1>1
  <2> QED
    BY <2>1, <2>2
<1> HIDE DEF f, seqs
<1>6. FlattenSeq(seqs) = f[n]
  BY <1>1, <1>4, FlattenIs
<1> QED
  BY <1>5, <1>6 DEF seqs

Pairs(U) == {Tool(b.id, b.name) : b \in U}

\* What the blocks of a sequence tell of tools, one after another.
LEMMA ToldIsSeq ==
  ASSUME NEW U, NEW s \in Seq(U)
  PROVE  [i \in DOMAIN s |-> Told(s[i])] \in Seq(Seq(Pairs(U)))
<1>1. ASSUME NEW b \in U PROVE Told(b) \in Seq(Pairs(U))
  <2>1. Tool(b.id, b.name) \in Pairs(U)
    BY DEF Pairs
  <2> QED
    BY <2>1 DEF Told
<1>2. Len(s) \in Nat /\ DOMAIN s = 1 .. Len(s) /\ \A i \in 1 .. Len(s) : s[i] \in U
  OBVIOUS
<1>3. [i \in DOMAIN s |-> Told(s[i])] \in [1 .. Len(s) -> Seq(Pairs(U))]
  BY <1>1, <1>2
<1> QED
  BY <1>2, <1>3

\* The tools of blocks one after the other.
LEMMA ToolsConcat ==
  ASSUME NEW U, NEW s \in Seq(U), NEW t \in Seq(U)
  PROVE  ToolsIn(s \o t) = ToolsIn(s) \o ToolsIn(t) /\ ToolsIn(s) \in Seq(Pairs(U))
<1> DEFINE st == s \o t
           a == [i \in DOMAIN s |-> Told(s[i])]
           b == [i \in DOMAIN t |-> Told(t[i])]
           c == [i \in DOMAIN st |-> Told(st[i])]
           P == Pairs(U)
<1>1. /\ Len(s) \in Nat /\ Len(t) \in Nat /\ st \in Seq(U) /\ Len(st) = Len(s) + Len(t)
      /\ \A i \in 1 .. Len(s) + Len(t) : st[i] = IF i <= Len(s) THEN s[i] ELSE t[i - Len(s)]
  BY ConcatProperties
<1>2. a \in Seq(Seq(P)) /\ b \in Seq(Seq(P)) /\ c \in Seq(Seq(P))
  <2> HIDE DEF st
  <2> QED
    BY <1>1, ToldIsSeq
<1>3. /\ Len(a) = Len(s) /\ Len(b) = Len(t) /\ Len(c) = Len(s) + Len(t)
      /\ \A i \in 1 .. Len(s) : a[i] = Told(s[i])
      /\ \A i \in 1 .. Len(t) : b[i] = Told(t[i])
      /\ \A i \in 1 .. Len(s) + Len(t) : c[i] = Told(st[i])
  <2> HIDE DEF st
  <2> QED
    BY <1>1
<1> HIDE DEF a, b, c, st, P
<1>4. c = a \o b
  <2> DEFINE ab == a \o b
  <2>1. /\ ab \in Seq(Seq(P)) /\ Len(ab) = Len(s) + Len(t)
        /\ \A i \in 1 .. Len(s) + Len(t) : ab[i] = IF i <= Len(s) THEN a[i] ELSE b[i - Len(s)]
    <3> DEFINE S == Seq(P)
    <3>1. a \in Seq(S) /\ b \in Seq(S) /\ Len(a) = Len(s) /\ Len(b) = Len(t)
      BY <1>2, <1>3
    <3> HIDE DEF S
    <3>2. /\ ab \in Seq(S) /\ Len(ab) = Len(a) + Len(b)
          /\ \A i \in 1 .. Len(a) + Len(b) : ab[i] = IF i <= Len(a) THEN a[i] ELSE b[i - Len(a)]
      BY <3>1, ConcatProperties
    <3> HIDE DEF ab
    <3> QED
      BY <3>1, <3>2 DEF S
  <2>2. ASSUME NEW i \in 1 .. Len(s) + Len(t) PROVE c[i] = ab[i]
    <3>1. CASE i <= Len(s)
      <4>1. i \in 1 .. Len(s)
        BY <1>1, <3>1
      <4> HIDE DEF ab
      <4> QED
        BY <1>1, <1>3, <2>1, <3>1, <4>1
    <3>2. CASE ~(i <= Len(s))
      <4>1. i - Len(s) \in 1 .. Len(t)
        BY <1>1, <3>2
      <4> HIDE DEF ab
      <4> QED
        BY <1>1, <1>3, <2>1, <3>2, <4>1
    <3> QED
      BY <3>1, <3>2
  <2> HIDE DEF ab
  <2>3. c = ab
    BY <1>2, <1>3, <2>1, <2>2
  <2> QED
    BY <2>3 DEF ab
<1>5. FlattenSeq(a \o b) = FlattenSeq(a) \o FlattenSeq(b) /\ FlattenSeq(a) \in Seq(P)
  BY <1>2, FlattenConcat
<1>6. ToolsIn(st) = FlattenSeq(c) /\ ToolsIn(s) = FlattenSeq(a) /\ ToolsIn(t) = FlattenSeq(b)
  BY DEF ToolsIn, a, b, c
<1> QED
  BY <1>4, <1>5, <1>6 DEF st, P

\* Content is no tool.
LEMMA ToolsPlain ==
  ASSUME NEW parts, IsSeq(parts), NEW kinds, kinds \cap ToolKinds = {}
  PROVE  ToolsIn(PlainBlocks(Only(parts, kinds))) = <<>>
<1> DEFINE I == {i \in DOMAIN parts : parts[i] \in kinds}
           k == Cardinality(I)
           blocks == PlainBlocks(Only(parts, kinds))
<1>1. Len(parts) \in Nat /\ DOMAIN parts = 1 .. Len(parts)
  BY DEF IsSeq
<1>2. I \in SUBSET (1 .. Len(parts)) /\ k \in Nat
  <2>1. I \in SUBSET (1 .. Len(parts))
    BY <1>1
  <2> HIDE DEF I
  <2> QED
    BY <1>1, <2>1, PlacesCounted
<1>3. Only(parts, kinds) = [i \in 1 .. k |-> parts[Place(I, i)]]
  BY DEF Only, Kept
<1>4. \A i \in I : parts[i] \in kinds
  OBVIOUS
<1> HIDE DEF I, k
<1>5. \A i \in 1 .. k : Place(I, i) \in I
  BY <1>1, <1>2, PlaceOf DEF k
<1>6. DOMAIN blocks = 1 .. k /\ \A i \in 1 .. k : blocks[i].kind = parts[Place(I, i)]
  BY <1>3 DEF PlainBlocks, Block
<1> HIDE DEF blocks
<1>7. \A i \in 1 .. k : Told(blocks[i]) = <<>>
  BY <1>4, <1>5, <1>6 DEF Told
<1>8. [i \in DOMAIN blocks |-> Told(blocks[i])] = [i \in 1 .. k |-> <<>>]
  BY <1>6, <1>7
<1>9. ToolsIn(blocks) = FlattenSeq([i \in 1 .. k |-> <<>>])
  BY <1>8 DEF ToolsIn
<1> QED
  BY <1>2, <1>9, FlattenBlank DEF blocks

\* The blocks are those of the calls.
CallBlocks(blocks, calls) ==
  /\ DOMAIN blocks = DOMAIN calls
  /\ \A i \in DOMAIN calls : /\ blocks[i].kind \in ToolKinds
                             /\ blocks[i].id = calls[i].id /\ blocks[i].name = calls[i].name

\* A call is told of by its block.
LEMMA ToolsCalls ==
  ASSUME NEW calls, IsSeq(calls), NEW blocks, CallBlocks(blocks, calls)
  PROVE  ToolsIn(blocks) = [k \in DOMAIN calls |-> Tool(calls[k].id, calls[k].name)]
<1> DEFINE tools == [k \in DOMAIN calls |-> Tool(calls[k].id, calls[k].name)]
           n == Len(calls)
<1>1. n \in Nat /\ DOMAIN calls = 1 .. n
  BY DEF IsSeq
<1>2. \A i \in 1 .. n : Told(blocks[i]) = <<tools[i]>>
  BY <1>1 DEF CallBlocks, Told
<1>3. DOMAIN blocks = 1 .. n /\ DOMAIN tools = 1 .. n
  BY <1>1 DEF CallBlocks
<1>4. IsSeq(tools)
  <2>1. tools = [i \in 1 .. n |-> tools[i]]
    BY <1>1
  <2> HIDE DEF tools, n
  <2> QED
    BY <1>1, <2>1, MappedIsSeq
<1> HIDE DEF tools, n
<1>5. [i \in DOMAIN blocks |-> Told(blocks[i])] = [i \in DOMAIN tools |-> <<tools[i]>>]
  BY <1>2, <1>3
<1>6. FlattenSeq([i \in DOMAIN tools |-> <<tools[i]>>]) = tools
  BY <1>4, FlattenSingles DEF IsSeq
<1> QED
  BY <1>5, <1>6 DEF ToolsIn, tools

\* One block, or none.
LEMMA ToolsOne ==
  ASSUME NEW b PROVE ToolsIn(<<b>>) = Told(b) /\ ToolsIn(<<>>) = <<>>
<1> DEFINE U == {b}
           told == [i \in DOMAIN <<b>> |-> Told(<<b>>[i])]
           empty == [i \in DOMAIN <<>> |-> Told(<<>>[i])]
<1>1. told = <<Told(b)>>
  OBVIOUS
<1>2. Told(b) \in Seq(Pairs(U))
  <2>1. Tool(b.id, b.name) \in Pairs(U)
    BY DEF Pairs
  <2> HIDE DEF U
  <2> QED
    BY <2>1 DEF Told
<1>3. empty = <<>>
  OBVIOUS
<1>4. ToolsIn(<<b>>) = FlattenSeq(told) /\ ToolsIn(<<>>) = FlattenSeq(empty)
  BY DEF ToolsIn
<1> HIDE DEF told, empty, U
<1> QED
  BY <1>1, <1>2, <1>3, <1>4, FlattenOne

\* What a message tells Anthropic of tools.
LEMMA AnthropicTells ==
  ASSUME NEW messages, NEW i, IsSeq(messages[i].parts), IsSeq(messages[i].calls)
  PROVE  ToolsIn(AnthropicBlocks(messages[i])) = ToolsOf(messages, i, FALSE)
<1> DEFINE m == messages[i]
           plain == contentPartsToBlocks(m.parts)
           calls == [k \in DOMAIN m.calls |-> toolCallToBlock(m.calls[k])]
           result == Block("tool_result", m.id, None, None)
<1>1. ToolsIn(plain) = <<>>
  <2>1. {"text", "image"} \cap ToolKinds = {}
    BY DEF ToolKinds
  <2> QED
    BY <2>1, ToolsPlain DEF contentPartsToBlocks
<1>2. CASE m.role = "assistant"
  <2>1. CallBlocks(calls, m.calls)
    BY DEF CallBlocks, toolCallToBlock, Block, ToolKinds
  <2>2. IsSeq(plain)
    BY OnlyIsSeq, PlainIsSeq DEF contentPartsToBlocks
  <2>3. IsSeq(calls)
    <3>1. Len(m.calls) \in Nat /\ calls = [k \in 1 .. Len(m.calls) |-> calls[k]]
      BY DEF IsSeq
    <3> HIDE DEF calls
    <3> QED
      BY <3>1, MappedIsSeq
  <2>4. AnthropicBlocks(m) = plain \o calls
    BY <1>2 DEF AnthropicBlocks
  <2>5. ToolsOf(messages, i, FALSE) = [k \in DOMAIN m.calls |-> Tool(m.calls[k].id, m.calls[k].name)]
    BY <1>2 DEF ToolsOf
  <2> HIDE DEF m, calls, plain
  <2>6. ToolsIn(calls) = [k \in DOMAIN m.calls |-> Tool(m.calls[k].id, m.calls[k].name)]
    BY <2>1, ToolsCalls DEF m
  <2>7. ToolsIn(plain \o calls) = ToolsIn(plain) \o ToolsIn(calls) /\ <<>> \o ToolsIn(calls) = ToolsIn(calls)
    <3> DEFINE U == ToSet(plain) \cup ToSet(calls)
    <3>1. plain \in Seq(U) /\ calls \in Seq(U)
      BY <2>2, <2>3 DEF IsSeq
    <3>2. ToolsIn(calls) \in Seq(Pairs(U))
      BY <3>1, ToolsConcat
    <3> QED
      BY <3>1, <3>2, ToolsConcat
  <2> QED
    BY <1>1, <2>4, <2>5, <2>6, <2>7 DEF m
<1>3. CASE m.role = "tool"
  <2>1. Told(result) = <<Tool(m.id, None)>>
    BY DEF Told, Block, ToolKinds
  <2>2. ToolsIn(<<result>>) = Told(result)
    BY ToolsOne
  <2>3. AnthropicBlocks(m) = <<result>>
    BY <1>3 DEF AnthropicBlocks
  <2>4. ToolsOf(messages, i, FALSE) = <<Tool(m.id, None)>>
    BY <1>3 DEF ToolsOf
  <2> QED
    BY <2>1, <2>2, <2>3, <2>4
<1>4. CASE m.role \notin {"assistant", "tool"}
  <2>1. ToolsOf(messages, i, FALSE) = <<>>
    BY <1>4 DEF ToolsOf
  <2>2. AnthropicBlocks(m) = IF m.role = "user" THEN plain ELSE <<>>
    BY <1>4 DEF AnthropicBlocks
  <2> QED
    BY <1>1, <2>1, <2>2, ToolsOne
<1> QED
  BY <1>2, <1>3, <1>4

\* What a message tells Gemini of tools, if the remembered names are right.
LEMMA GoogleTells ==
  ASSUME NEW messages, NEW i, IsSeq(messages[i].parts), IsSeq(messages[i].calls), NEW names,
         messages[i].role = "tool" =>
           (IF messages[i].id \in DOMAIN names THEN names[messages[i].id] ELSE "unknown")
             = NameOf(messages, i, messages[i].id)
  PROVE  ToolsIn(GoogleBlocks(names, messages[i])) = ToolsOf(messages, i, TRUE)
<1> DEFINE m == messages[i]
           plain == contentToParts(m.parts)
           calls == functionCalls(m)
           name == IF m.id \in DOMAIN names THEN names[m.id] ELSE "unknown"
           result == Block("functionResponse", m.id, name, None)
<1>1. ToolsIn(plain) = <<>>
  <2>1. (Parts \ {"other"}) \cap ToolKinds = {}
    BY DEF ToolKinds, Parts
  <2> QED
    BY <2>1, ToolsPlain DEF contentToParts
<1>2. CASE m.role = "assistant"
  <2>1. CallBlocks(calls, m.calls)
    BY DEF CallBlocks, functionCalls, Block, ToolKinds
  <2>2. IsSeq(plain)
    BY OnlyIsSeq, PlainIsSeq DEF contentToParts
  <2>3. IsSeq(calls)
    <3>1. Len(m.calls) \in Nat /\ calls = [k \in 1 .. Len(m.calls) |-> calls[k]]
      BY DEF IsSeq, functionCalls
    <3> HIDE DEF calls
    <3> QED
      BY <3>1, MappedIsSeq
  <2>4. GoogleBlocks(names, m) = plain \o calls
    BY <1>2 DEF GoogleBlocks, IsSystem
  <2>5. ToolsOf(messages, i, TRUE) = [k \in DOMAIN m.calls |-> Tool(m.calls[k].id, m.calls[k].name)]
    BY <1>2 DEF ToolsOf
  <2> HIDE DEF m, calls, plain
  <2>6. ToolsIn(calls) = [k \in DOMAIN m.calls |-> Tool(m.calls[k].id, m.calls[k].name)]
    BY <2>1, ToolsCalls DEF m
  <2>7. ToolsIn(plain \o calls) = ToolsIn(plain) \o ToolsIn(calls) /\ <<>> \o ToolsIn(calls) = ToolsIn(calls)
    <3> DEFINE U == ToSet(plain) \cup ToSet(calls)
    <3>1. plain \in Seq(U) /\ calls \in Seq(U)
      BY <2>2, <2>3 DEF IsSeq
    <3>2. ToolsIn(calls) \in Seq(Pairs(U))
      BY <3>1, ToolsConcat
    <3> QED
      BY <3>1, <3>2, ToolsConcat
  <2> QED
    BY <1>1, <2>4, <2>5, <2>6, <2>7 DEF m
<1>3. CASE m.role = "tool"
  <2>1. Told(result) = <<Tool(m.id, name)>>
    BY DEF Told, Block, ToolKinds
  <2>2. ToolsIn(<<result>>) = Told(result)
    BY ToolsOne
  <2>3. GoogleBlocks(names, m) = <<result>>
    BY <1>3 DEF GoogleBlocks, IsSystem
  <2>4. ToolsOf(messages, i, TRUE) = <<Tool(m.id, name)>>
    BY <1>3 DEF ToolsOf
  <2> QED
    BY <2>1, <2>2, <2>3, <2>4
<1>4. CASE m.role \notin {"assistant", "tool"}
  <2>1. ToolsOf(messages, i, TRUE) = <<>>
    BY <1>4 DEF ToolsOf
  <2>2. GoogleBlocks(names, m) = IF IsSystem(m) THEN <<>> ELSE plain
    BY <1>4 DEF GoogleBlocks
  <2> QED
    BY <1>1, <2>1, <2>2, ToolsOne
<1> QED
  BY <1>2, <1>3, <1>4

\* Pushing blocks appends them, whatever turn they go to.
LEMMA BlocksPushed ==
  ASSUME NEW R, NEW U, NEW turns \in Seq(Rows(R, U)), NEW role, NEW blocks \in Seq(U)
  PROVE  Blocks(pushMerged(turns, role, blocks)) = Blocks(turns) \o blocks /\ Blocks(turns) \in Seq(U)
<1> DEFINE pushed == pushMerged(turns, role, blocks)
           n == Len(turns)
           a == [i \in DOMAIN turns |-> turns[i].blocks]
<1>1. /\ n \in Nat /\ DOMAIN turns = 1 .. n
      /\ \A i \in 1 .. n : turns[i] \in Rows(R, U)
  OBVIOUS
<1>2. a \in Seq(Seq(U)) /\ Len(a) = n /\ DOMAIN a = 1 .. n /\ \A i \in 1 .. n : a[i] = turns[i].blocks
  <2>1. \A i \in 1 .. n : turns[i].blocks \in Seq(U)
    BY <1>1 DEF Rows
  <2>2. a \in [1 .. n -> Seq(U)]
    BY <1>1, <2>1
  <2> HIDE DEF n
  <2> QED
    BY <1>1, <2>2
<1>3. Blocks(turns) = FlattenSeq(a)
  BY DEF Blocks
<1> HIDE DEF a, n
<1>4. FlattenSeq(a) \in Seq(U)
  BY <1>2, FlattenConcat
<1>5. CASE blocks = <<>>
  <2>1. pushed = turns
    BY <1>5 DEF pushMerged
  <2>2. FlattenSeq(a) \o <<>> = FlattenSeq(a)
    BY <1>4
  <2> QED
    BY <1>3, <1>4, <1>5, <2>1, <2>2
<1>6. CASE blocks # <<>> /\ turns # <<>> /\ Last(turns).role = role
  <2>1. n \in 1 .. n /\ turns[n] \in Rows(R, U)
    BY <1>1, <1>6 DEF n
  <2> DEFINE last == turns[n].blocks
             more == last \o blocks
             front == [i \in 1 .. n - 1 |-> turns[i].blocks]
             b == [i \in DOMAIN pushed |-> pushed[i].blocks]
  <2>2. last \in Seq(U) /\ more \in Seq(U)
    <3>1. turns[n].blocks \in Seq(U)
      BY <2>1 DEF Rows
    <3> QED
      BY <3>1
  <2>3. pushed = [turns EXCEPT ![n].blocks = more]
    BY <1>6 DEF pushMerged, n
  <2> HIDE DEF more
  <2>4. /\ DOMAIN pushed = 1 .. n
        /\ \A i \in 1 .. n : pushed[i] = IF i = n THEN [turns[n] EXCEPT !.blocks = more] ELSE turns[i]
    <3> HIDE DEF pushed
    <3> QED
      BY <1>1, <2>3
  <2> HIDE DEF pushed
  <2>5. \A i \in 1 .. n : pushed[i].blocks = IF i = n THEN more ELSE turns[i].blocks
    BY <1>1, <2>1, <2>4 DEF Rows
  <2>6. front \in Seq(Seq(U)) /\ Len(front) = n - 1 /\ \A i \in 1 .. n - 1 : front[i] = turns[i].blocks
    <3>1. \A i \in 1 .. n - 1 : turns[i].blocks \in Seq(U)
      BY <1>1 DEF Rows
    <3>2. n - 1 \in Nat /\ DOMAIN front = 1 .. n - 1
      BY <2>1
    <3>3. \A i \in 1 .. n - 1 : front[i] = turns[i].blocks
      BY <2>1
    <3> HIDE DEF front
    <3>4. front \in [1 .. n - 1 -> Seq(U)]
      <4>1. front = [i \in 1 .. n - 1 |-> turns[i].blocks]
        BY DEF front
      <4> QED
        BY <3>1, <4>1
    <3> DEFINE S == Seq(U)
    <3>5. front \in [1 .. n - 1 -> S]
      BY <3>4
    <3> HIDE DEF S
    <3>6. front \in Seq(S) /\ Len(front) = n - 1
      BY <3>2, <3>5
    <3> QED
      BY <3>3, <3>6 DEF S
  <2> HIDE DEF front, last
  <2>7. a = front \o <<last>>
    <3> DEFINE c == front \o <<last>>
    <3>1. c \in Seq(Seq(U)) /\ Len(c) = n /\ \A i \in 1 .. n : c[i] = IF i = n THEN last ELSE front[i]
      BY <1>1, <2>1, <2>2, <2>6
    <3> HIDE DEF c
    <3>2. \A i \in 1 .. n : a[i] = c[i]
      <4>1. \A i \in 1 .. n : i # n => i \in 1 .. n - 1
        BY <1>1
      <4> QED
        BY <1>2, <2>6, <3>1, <4>1 DEF last
    <3>3. a = c
      BY <1>1, <1>2, <3>1, <3>2
    <3> QED
      BY <3>3 DEF c
  <2>8. b = front \o <<more>>
    <3> DEFINE c == front \o <<more>>
    <3>1. c \in Seq(Seq(U)) /\ Len(c) = n /\ DOMAIN c = 1 .. n
          /\ \A i \in 1 .. n : c[i] = IF i = n THEN more ELSE front[i]
      BY <1>1, <2>1, <2>2, <2>6
    <3>2. c = [i \in 1 .. n |-> c[i]]
      <4> HIDE DEF c
      <4> QED
        BY <1>1, <3>1
    <3> HIDE DEF c
    <3>3. \A i \in 1 .. n : pushed[i].blocks = c[i]
      <4>1. \A i \in 1 .. n : i # n => i \in 1 .. n - 1
        BY <1>1
      <4> QED
        BY <2>5, <2>6, <3>1, <4>1
    <3>4. b = [i \in 1 .. n |-> c[i]]
      BY <2>4, <3>3
    <3> QED
      BY <3>2, <3>4 DEF c
  <2>9. FlattenSeq(a) = FlattenSeq(front) \o last
    BY <2>2, <2>6, <2>7, FlattenLast
  <2>10. FlattenSeq(b) = FlattenSeq(front) \o more
    <3> HIDE DEF b
    <3> QED
      BY <2>2, <2>6, <2>8, FlattenLast
  <2>11. FlattenSeq(front) \in Seq(U)
    BY <2>6, FlattenConcat
  <2>12. FlattenSeq(front) \o (last \o blocks) = (FlattenSeq(front) \o last) \o blocks
    <3> DEFINE x == FlattenSeq(front)
    <3>1. x \in Seq(U) /\ last \in Seq(U) /\ blocks \in Seq(U)
      BY <2>2, <2>11
    <3> HIDE DEF x
    <3>2. x \o (last \o blocks) = (x \o last) \o blocks
      BY <3>1, ConcatAssociative, SMTT(30)
    <3> QED
      BY <3>2 DEF x
  <2>13. Blocks(pushed) = FlattenSeq(b)
    BY DEF Blocks
  <2> QED
    BY <1>3, <1>4, <2>9, <2>10, <2>12, <2>13 DEF more, pushed
<1>7. CASE blocks # <<>> /\ ~(turns # <<>> /\ Last(turns).role = role)
  <2> DEFINE turn == [role |-> role, blocks |-> blocks]
             b == [i \in DOMAIN pushed |-> pushed[i].blocks]
             c == a \o <<blocks>>
  <2>1. pushed = Append(turns, turn)
    BY <1>7 DEF pushMerged
  <2>2. turn.blocks = blocks
    OBVIOUS
  <2> HIDE DEF turn
  <2>3. /\ DOMAIN pushed = 1 .. n + 1
        /\ \A i \in 1 .. n : pushed[i] = turns[i]
        /\ pushed[n + 1] = turn
    <3> HIDE DEF pushed
    <3> QED
      BY <1>1, <2>1 DEF n
  <2> HIDE DEF pushed
  <2>4. /\ DOMAIN c = 1 .. n + 1 /\ c \in Seq(Seq(U)) /\ Len(c) = n + 1
        /\ \A i \in 1 .. n : c[i] = a[i]
        /\ c[n + 1] = blocks
    BY <1>1, <1>2
  <2>5. c = [i \in 1 .. n + 1 |-> c[i]]
    <3> HIDE DEF c
    <3> QED
      BY <1>1, <2>4
  <2> HIDE DEF c
  <2>6. \A i \in 1 .. n + 1 : pushed[i].blocks = c[i]
    <3>1. \A i \in 1 .. n + 1 : i \in 1 .. n \/ i = n + 1
      BY <1>1
    <3> QED
      BY <1>2, <2>2, <2>3, <2>4, <3>1
  <2>7. b = [i \in 1 .. n + 1 |-> c[i]]
    BY <2>3, <2>6
  <2>8. b = a \o <<blocks>>
    BY <2>5, <2>7 DEF c
  <2>9. FlattenSeq(b) = FlattenSeq(a) \o blocks
    <3> HIDE DEF b
    <3> QED
      BY <1>2, <2>8, FlattenLast
  <2>10. Blocks(pushed) = FlattenSeq(b)
    BY DEF Blocks
  <2> QED
    BY <1>3, <1>4, <2>9, <2>10 DEF pushed
<1> QED
  BY <1>5, <1>6, <1>7

\* told is what each message tells of tools.
Telling(U, says, told) ==
  /\ told \in Seq(Seq(Pairs(U))) /\ Len(told) = Len(says)
  /\ \A i \in 1 .. Len(says) : says[i].blocks \in Seq(U) /\ ToolsIn(says[i].blocks) = told[i]

\* Merging keeps what is told of tools.
LEMMA ToolsMerged ==
  ASSUME NEW R, NEW U, NEW says, NEW told, Len(says) \in Nat,
         \A i \in 1 .. Len(says) : says[i].role \in R,
         Telling(U, says, told)
  PROVE  /\ Merged(says) \in Seq(Rows(R, U))
         /\ ToolsIn(Blocks(Merged(says))) = FlattenSeq(told)
<1> DEFINE n == Len(says)
           Turns == CHOOSE f : f = [i \in 0 .. Len(says) |->
                       IF i = 0 THEN <<>>
                       ELSE pushMerged(f[i - 1], says[i].role, says[i].blocks)]
           t == Turns
<1>1. t = [i \in 0 .. Len(says) |->
             IF i = 0 THEN <<>> ELSE pushMerged(t[i - 1], says[i].role, says[i].blocks)]
  <2> HIDE DEF Turns
  <2> QED
    BY MergedExists DEF Turns
<1>2. Merged(says) = t[n]
  BY DEF Merged
<1> HIDE DEF Turns
<1>3. t[0] = <<>> /\ \A i \in 1 .. n : t[i] = pushMerged(t[i - 1], says[i].role, says[i].blocks)
  BY <1>1
<1> HIDE DEF t
<1>4. told \in Seq(Seq(Pairs(U))) /\ Len(told) = n
  BY DEF Telling
<1>5. PICK g \in [0 .. n -> Seq(Pairs(U))] : Course(told, g)
  BY <1>4, CourseExists
<1>6. /\ FlattenSeq(told) = g[n] /\ g[0] = <<>>
      /\ \A i \in 1 .. n : g[i] = g[i - 1] \o told[i]
  BY <1>4, <1>5, FlattenIs DEF Course
<1> DEFINE Good(ts, i) == ts \in Seq(Rows(R, U)) /\ Alternate(ts) /\ ToolsIn(Blocks(ts)) = g[i]
           bad == {i \in 0 .. n : ~Good(t[i], i)}
<1>7. Good(<<>>, 0)
  <2>1. <<>> \in Seq(Rows(R, U)) /\ Alternate(<<>>)
    BY DEF Alternate
  <2>2. Blocks(<<>>) = <<>>
    <3>1. Blocks(<<>>) = FlattenSeq([i \in DOMAIN <<>> |-> <<>>[i].blocks])
      BY DEF Blocks
    <3>2. [i \in DOMAIN <<>> |-> <<>>[i].blocks] = <<>>
      OBVIOUS
    <3>3. FlattenSeq(<<>>) = <<>>
      BY DEF FlattenSeq
    <3> QED
      BY <3>1, <3>2, <3>3
  <2> QED
    BY <1>6, <2>1, <2>2, ToolsOne
<1>8. ASSUME NEW i \in 1 .. n, NEW p, Good(p, i - 1)
      PROVE  Good(pushMerged(p, says[i].role, says[i].blocks), i)
  <2> DEFINE r == says[i].role
             b == says[i].blocks
             q == pushMerged(p, r, b)
  <2>1. r \in R /\ b \in Seq(U) /\ ToolsIn(b) = told[i]
    BY DEF Telling
  <2>2. p \in Seq(Rows(R, U)) /\ Alternate(p) /\ ToolsIn(Blocks(p)) = g[i - 1]
    BY <1>8
  <2> HIDE DEF r, b
  <2>3. q \in Seq(Rows(R, U)) /\ Alternate(q)
    BY <2>1, <2>2, PushAlternates
  <2>4. Blocks(q) = Blocks(p) \o b /\ Blocks(p) \in Seq(U)
    BY <2>1, <2>2, BlocksPushed
  <2>5. ToolsIn(Blocks(p) \o b) = ToolsIn(Blocks(p)) \o ToolsIn(b)
    <3> DEFINE bp == Blocks(p)
    <3>1. bp \in Seq(U)
      BY <2>4
    <3> HIDE DEF bp
    <3>2. ToolsIn(bp \o b) = ToolsIn(bp) \o ToolsIn(b)
      BY <2>1, <3>1, ToolsConcat
    <3> QED
      BY <3>2 DEF bp
  <2>6. g[i] = g[i - 1] \o told[i]
    BY <1>6
  <2> HIDE DEF q
  <2> QED
    BY <2>1, <2>2, <2>3, <2>4, <2>5, <2>6 DEF q, r, b
<1> HIDE DEF Good
<1>9. bad = {}
  <2> SUFFICES ASSUME bad # {} PROVE FALSE
    OBVIOUS
  <2>1. PICK m \in bad : \A k \in bad : m <= k
    <3>1. bad \subseteq Nat
      OBVIOUS
    <3> HIDE DEF bad
    <3> QED
      BY <3>1, LeastNatural
  <2>2. m \in 0 .. n /\ ~Good(t[m], m)
    OBVIOUS
  <2>3. m # 0
    BY <1>3, <1>7, <2>2
  <2>4. m \in 1 .. n /\ m - 1 \in 0 .. n /\ m - 1 \notin bad
    <3> HIDE DEF bad
    <3> QED
      BY <2>1, <2>2, <2>3
  <2>5. Good(t[m - 1], m - 1)
    BY <2>4
  <2>6. t[m] = pushMerged(t[m - 1], says[m].role, says[m].blocks)
    BY <1>3, <2>4
  <2>7. Good(pushMerged(t[m - 1], says[m].role, says[m].blocks), m)
    BY <1>8, <2>4, <2>5
  <2> QED
    BY <2>2, <2>6, <2>7
<1>10. Good(t[n], n)
  <2>1. n \in 0 .. n
    OBVIOUS
  <2> QED
    BY <1>9, <2>1
<1> QED
  BY <1>2, <1>6, <1>10 DEF Good

\* A user's turn put before them tells of no tool.
LEMMA ToolsUserFirst ==
  ASSUME NEW R, NEW U, NEW turns \in Seq(Rows(R, U))
  PROVE  ToolsIn(Blocks(UserFirst(turns))) = ToolsIn(Blocks(turns))
<1>1. CASE turns # <<>> /\ Head(turns).role = "assistant"
  <2> DEFINE n == Len(turns)
             V == U \cup {Block("text", None, None, None)}
             all == <<Placeholder>> \o turns
             a == [i \in DOMAIN turns |-> turns[i].blocks]
             b == [i \in DOMAIN all |-> all[i].blocks]
             first == Placeholder.blocks
             c == <<first>> \o a
  <2>1. UserFirst(turns) = all
    BY <1>1 DEF UserFirst
  <2>2. /\ n \in Nat /\ DOMAIN all = 1 .. n + 1 /\ all[1] = Placeholder
        /\ \A i \in 2 .. n + 1 : all[i] = turns[i - 1]
    OBVIOUS
  <2>3. first = <<Block("text", None, None, None)>>
    BY DEF Placeholder, PlainBlocks
  <2>4. first \in Seq(V)
    BY <2>3
  <2>5. a \in Seq(Seq(V)) /\ Len(a) = n /\ DOMAIN a = 1 .. n /\ \A i \in 1 .. n : a[i] = turns[i].blocks
    <3>1. DOMAIN turns = 1 .. n /\ \A i \in 1 .. n : turns[i].blocks \in Seq(V)
      <4>1. ASSUME NEW i \in 1 .. n PROVE turns[i].blocks \in Seq(V)
        <5>1. turns[i] \in Rows(R, U)
          OBVIOUS
        <5>2. turns[i].blocks \in Seq(U)
          BY <5>1 DEF Rows
        <5> QED
          BY <5>2
      <4> QED
        BY <4>1
    <3>2. a \in [1 .. n -> Seq(V)]
      BY <3>1
    <3> HIDE DEF n, V
    <3> QED
      BY <2>2, <3>1, <3>2
  <2> HIDE DEF all, a, first, V, n
  <2>6. c \in Seq(Seq(V)) /\ Len(c) = n + 1 /\ DOMAIN c = 1 .. n + 1 /\ c[1] = first
        /\ \A i \in 2 .. n + 1 : c[i] = a[i - 1]
    BY <2>2, <2>4, <2>5
  <2> HIDE DEF c
  <2>7. \A i \in 1 .. n + 1 : all[i].blocks = c[i]
    <3>1. \A i \in 1 .. n + 1 : i = 1 \/ (i \in 2 .. n + 1 /\ i - 1 \in 1 .. n)
      BY <2>2
    <3> QED
      BY <2>2, <2>5, <2>6, <3>1 DEF first
  <2>8. b = [i \in 1 .. n + 1 |-> c[i]]
    BY <2>2, <2>7
  <2>9. c = [i \in 1 .. n + 1 |-> c[i]]
    BY <2>2, <2>6
  <2>10. FlattenSeq(b) = first \o FlattenSeq(a) /\ FlattenSeq(a) \in Seq(V)
    <3>1. <<first>> \in Seq(Seq(V))
      BY <2>4
    <3>2. FlattenSeq(c) = FlattenSeq(<<first>>) \o FlattenSeq(a)
      BY <2>5, <3>1, FlattenConcat DEF c
    <3>3. FlattenSeq(<<first>>) = first /\ FlattenSeq(a) \in Seq(V)
      BY <2>4, <2>5, FlattenOne, FlattenConcat
    <3> QED
      BY <2>8, <2>9, <3>2, <3>3
  <2>11. Blocks(all) = FlattenSeq(b) /\ Blocks(turns) = FlattenSeq(a)
    BY DEF Blocks, a
  <2> HIDE DEF b
  <2> DEFINE x == FlattenSeq(a)
  <2>12. x \in Seq(V) /\ FlattenSeq(b) = first \o x
    BY <2>10
  <2> HIDE DEF x
  <2>13. ToolsIn(first \o x) = ToolsIn(first) \o ToolsIn(x) /\ ToolsIn(x) \in Seq(Pairs(V))
    BY <2>4, <2>12, ToolsConcat
  <2>14. ToolsIn(first) = <<>>
    <3>1. Told(Block("text", None, None, None)) = <<>>
      BY DEF Told, Block, ToolKinds
    <3> QED
      BY <2>3, <3>1, ToolsOne
  <2>15. <<>> \o ToolsIn(x) = ToolsIn(x)
    BY <2>13
  <2> QED
    BY <2>1, <2>11, <2>12, <2>13, <2>14, <2>15 DEF x
<1>2. CASE ~(turns # <<>> /\ Head(turns).role = "assistant")
  BY <1>2 DEF UserFirst
<1> QED
  BY <1>1, <1>2

\* The name of a result looks one message further back at a time.
LEMMA NameStep ==
  ASSUME NEW messages, NEW i \in Nat \ {0}, NEW id
  PROVE  /\ NameOf(messages, 1, id) = "unknown"
         /\ NameOf(messages, i + 1, id) =
              IF messages[i].role = "assistant" /\ CallsOf(messages[i], id) # {}
                THEN messages[i].calls[Max(CallsOf(messages[i], id))].name
                ELSE NameOf(messages, i, id)
<1> DEFINE Callers(k) == {j \in 1 .. k - 1 : messages[j].role = "assistant" /\ CallsOf(messages[j], id) # {}}
           Named(C) == LET latest == messages[Max(C)]
                       IN IF C = {} THEN "unknown" ELSE latest.calls[Max(CallsOf(latest, id))].name
<1>1. \A k : NameOf(messages, k, id) = Named(Callers(k))
  BY DEF NameOf
<1>2. Callers(1) = {}
  OBVIOUS
<1>3. CASE messages[i].role = "assistant" /\ CallsOf(messages[i], id) # {}
  <2>1. i \in Callers(i + 1) /\ \A j \in Callers(i + 1) : i >= j /\ j \in Int
    BY <1>3
  <2> DEFINE C == Callers(i + 1)
  <2>2. Max(C) = i
    <3>1. i \in C /\ i \in Int /\ \A j \in C : i >= j /\ j \in Int
      BY <2>1
    <3> HIDE DEF C
    <3>2. Max(C) \in C /\ \A j \in C : Max(C) >= j
      BY <3>1 DEF Max
    <3> DEFINE top == Max(C)
    <3>3. top >= i /\ i >= top /\ top \in Int
      BY <3>1, <3>2
    <3> HIDE DEF top
    <3>4. top = i
      BY <3>1, <3>3
    <3> QED
      BY <3>4 DEF top
  <2>3. Named(C) = messages[i].calls[Max(CallsOf(messages[i], id))].name
    <3> HIDE DEF C
    <3>1. C # {}
      BY <2>1 DEF C
    <3> QED
      BY <2>2, <3>1
  <2> HIDE DEF Named, Callers
  <2>4. NameOf(messages, i + 1, id) = Named(C)
    BY <1>1
  <2>5. NameOf(messages, 1, id) = "unknown"
    BY <1>1, <1>2 DEF Named
  <2> QED
    BY <1>3, <2>3, <2>4, <2>5
<1>4. CASE ~(messages[i].role = "assistant" /\ CallsOf(messages[i], id) # {})
  <2>1. Callers(i + 1) = Callers(i)
    <3>1. \A j \in 1 .. i : j \in 1 .. i - 1 \/ j = i
      OBVIOUS
    <3>2. (i + 1) - 1 = i
      OBVIOUS
    <3> QED
      BY <1>4, <3>1, <3>2
  <2> HIDE DEF Named, Callers
  <2>2. NameOf(messages, i + 1, id) = NameOf(messages, i, id)
    BY <1>1, <2>1
  <2>3. NameOf(messages, 1, id) = "unknown"
    BY <1>1, <1>2 DEF Named
  <2> QED
    BY <1>4, <2>2, <2>3
<1> QED
  BY <1>3, <1>4

\* The names remembered after each message are those of the calls up to it.
LEMMA NamesAre ==
  ASSUME NEW messages, Len(messages) \in Nat, NEW names,
         names = CHOOSE f : f = [i \in 0 .. Len(messages) |->
                   IF i = 0 THEN [c \in CallIds(messages) |-> "unknown"]
                   ELSE IF messages[i].role = "assistant" THEN Remembered(f[i - 1], messages[i])
                   ELSE f[i - 1]]
  PROVE  \A i \in 0 .. Len(messages) :
           names[i] = [id \in CallIds(messages) |-> NameOf(messages, i + 1, id)]
<1> DEFINE n == Len(messages)
           Ids == CallIds(messages)
           Right(i) == [id \in Ids |-> NameOf(messages, i + 1, id)]
           Step(ns, i) == IF messages[i].role = "assistant" THEN Remembered(ns, messages[i]) ELSE ns
           right == [i \in 0 .. n |-> Right(i)]
           again == [i \in 0 .. n |-> IF i = 0 THEN [c \in Ids |-> "unknown"] ELSE Step(right[i - 1], i)]
<1>1. Right(0) = [c \in Ids |-> "unknown"]
  <2>1. \A id \in Ids : NameOf(messages, 0 + 1, id) = "unknown"
    <3>1. 0 + 1 = 1
      OBVIOUS
    <3>2. \A id : NameOf(messages, 1, id) = "unknown"
      BY NameStep
    <3> QED
      BY <3>1, <3>2
  <2> HIDE DEF Ids
  <2> QED
    BY <2>1
<1>2. ASSUME NEW i \in 1 .. n PROVE Right(i) = Step(Right(i - 1), i)
  <2>1. (i - 1) + 1 = i /\ i \in Nat \ {0}
    OBVIOUS
  <2> DEFINE before == [id \in Ids |-> NameOf(messages, i, id)]
  <2>2. Right(i - 1) = before
    BY <2>1
  <2> HIDE DEF Ids
  <2>3. \A id \in Ids : NameOf(messages, i + 1, id) =
          IF messages[i].role = "assistant" /\ CallsOf(messages[i], id) # {}
            THEN messages[i].calls[Max(CallsOf(messages[i], id))].name ELSE before[id]
    BY <2>1, NameStep
  <2>4. CASE messages[i].role = "assistant"
    <3>1. Remembered(before, messages[i]) =
            [id \in Ids |-> IF CallsOf(messages[i], id) = {} THEN before[id]
                            ELSE messages[i].calls[Max(CallsOf(messages[i], id))].name]
      BY DEF Remembered
    <3>2. Right(i) = [id \in Ids |-> IF CallsOf(messages[i], id) = {} THEN before[id]
                            ELSE messages[i].calls[Max(CallsOf(messages[i], id))].name]
      <4> HIDE DEF before
      <4> QED
        BY <2>3, <2>4
    <3> HIDE DEF before, Right
    <3> QED
      BY <2>2, <2>4, <3>1, <3>2
  <2>5. CASE messages[i].role # "assistant"
    <3>1. \A id \in Ids : NameOf(messages, i + 1, id) = NameOf(messages, i, id)
      BY <2>3, <2>5
    <3>2. Right(i) = before
      BY <3>1
    <3> HIDE DEF before, Right
    <3> QED
      BY <2>2, <2>5, <3>2
  <2> QED
    BY <2>4, <2>5
<1> HIDE DEF Right, Ids, Step
<1>3. right = again
  <2>1. \A i \in 0 .. n : i # 0 => i - 1 \in 0 .. n /\ i \in 1 .. n
    OBVIOUS
  <2>2. \A i \in 0 .. n : right[i] = again[i]
    BY <1>1, <1>2, <2>1
  <2> HIDE DEF n
  <2> QED
    BY <2>2
<1>4. \E f : f = [i \in 0 .. n |-> IF i = 0 THEN [c \in Ids |-> "unknown"] ELSE Step(f[i - 1], i)]
  BY <1>3
<1>5. names = CHOOSE f : f = [i \in 0 .. n |-> IF i = 0 THEN [c \in Ids |-> "unknown"] ELSE Step(f[i - 1], i)]
  BY DEF Ids, Step
<1>6. names = [i \in 0 .. n |-> IF i = 0 THEN [c \in Ids |-> "unknown"] ELSE Step(names[i - 1], i)]
  BY <1>4, <1>5
<1> DEFINE bad == {i \in 0 .. n : names[i] # Right(i)}
<1>7. bad = {}
  <2> SUFFICES ASSUME bad # {} PROVE FALSE
    OBVIOUS
  <2>1. PICK m \in bad : \A k \in bad : m <= k
    <3>1. bad \subseteq Nat
      OBVIOUS
    <3> HIDE DEF bad
    <3> QED
      BY <3>1, LeastNatural
  <2>2. m \in 0 .. n /\ names[m] # Right(m)
    OBVIOUS
  <2>3. names[m] = IF m = 0 THEN [c \in Ids |-> "unknown"] ELSE Step(names[m - 1], m)
    BY <1>6, <2>2
  <2>4. m # 0
    BY <1>1, <2>2, <2>3
  <2>5. m \in 1 .. n /\ m - 1 \in 0 .. n /\ m - 1 \notin bad
    <3> HIDE DEF bad
    <3> QED
      BY <2>1, <2>2, <2>4
  <2>6. names[m - 1] = Right(m - 1)
    BY <2>5
  <2> QED
    BY <1>2, <2>2, <2>3, <2>4, <2>5, <2>6
<1> QED
  BY <1>7 DEF Right, Ids

\* Anthropic is told of the client's tools (translateMessages in anthropic.ts).
LEMMA AnthropicToldAll ==
  ASSUME NEW messages, IsSeq(messages),
         \A i \in DOMAIN messages : IsSeq(messages[i].parts) /\ IsSeq(messages[i].calls)
  PROVE  ToolsIn(Blocks(AnthropicTurns(messages)))
           = FlattenSeq([i \in DOMAIN messages |-> ToolsOf(messages, i, FALSE)])
<1> DEFINE n == Len(messages)
           says == [i \in DOMAIN messages |->
                      [role   |-> AnthropicRole(messages[i]),
                       blocks |-> AnthropicBlocks(messages[i])]]
           told == [i \in DOMAIN messages |-> ToolsOf(messages, i, FALSE)]
           R == {"user", "assistant"}
           U == UNION {ToSet(says[i].blocks) : i \in DOMAIN says}
<1>1. n \in Nat /\ DOMAIN messages = 1 .. n
  BY DEF IsSeq
<1>2. /\ Len(says) = n /\ DOMAIN says = 1 .. n /\ DOMAIN told = 1 .. n /\ told = [i \in 1 .. n |-> told[i]]
  BY <1>1
<1>3. ASSUME NEW i \in 1 .. n
      PROVE  says[i].role \in R /\ IsSeq(says[i].blocks) /\ ToolsIn(says[i].blocks) = told[i]
  BY <1>1, AnthropicSays, AnthropicTells
<1>4. AnthropicTurns(messages) = UserFirst(Merged(says))
  BY DEF AnthropicTurns
<1> HIDE DEF n, says, told, R
<1>5. ASSUME NEW i \in 1 .. n PROVE says[i].blocks \in Seq(U) /\ told[i] \in Seq(Pairs(U))
  <2>1. says[i].blocks \in Seq(ToSet(says[i].blocks)) /\ ToSet(says[i].blocks) \subseteq U
    BY <1>2, <1>3 DEF IsSeq
  <2> HIDE DEF U
  <2>2. says[i].blocks \in Seq(U)
    BY <2>1
  <2> DEFINE b == says[i].blocks
  <2>3. b \in Seq(U) /\ ToolsIn(b) = told[i]
    BY <1>3, <2>2
  <2> HIDE DEF b
  <2>4. ToolsIn(b) \in Seq(Pairs(U))
    BY <2>3, ToolsConcat
  <2> QED
    BY <2>2, <2>3, <2>4
<1> HIDE DEF U
<1>6. told \in Seq(Seq(Pairs(U))) /\ Len(told) = n
  <2>1. told \in [1 .. n -> Seq(Pairs(U))]
    BY <1>2, <1>5
  <2> QED
    BY <1>1, <2>1
<1>7. Telling(U, says, told)
  BY <1>2, <1>3, <1>5, <1>6 DEF Telling
<1>8. Merged(says) \in Seq(Rows(R, U)) /\ ToolsIn(Blocks(Merged(says))) = FlattenSeq(told)
  BY <1>1, <1>2, <1>3, <1>7, ToolsMerged
<1>9. ToolsIn(Blocks(UserFirst(Merged(says)))) = ToolsIn(Blocks(Merged(says)))
  BY <1>8, ToolsUserFirst
<1> QED
  BY <1>4, <1>8, <1>9 DEF told

\* Gemini is told of the client's tools, each result under the name of its call
\* (translateMessages in google.ts).
LEMMA GoogleToldAll ==
  ASSUME NEW messages, IsSeq(messages),
         \A i \in DOMAIN messages : IsSeq(messages[i].parts) /\ IsSeq(messages[i].calls)
  PROVE  ToolsIn(Blocks(GoogleTurns(messages)))
           = FlattenSeq([i \in DOMAIN messages |-> ToolsOf(messages, i, TRUE)])
<1> DEFINE n == Len(messages)
           names == CHOOSE f : f = [i \in 0 .. Len(messages) |->
                      IF i = 0 THEN [c \in CallIds(messages) |-> "unknown"]
                      ELSE IF messages[i].role = "assistant" THEN Remembered(f[i - 1], messages[i])
                      ELSE f[i - 1]]
           says == [i \in DOMAIN messages |->
                      [role   |-> GoogleRole(messages[i]),
                       blocks |-> GoogleBlocks(names[i], messages[i])]]
           told == [i \in DOMAIN messages |-> ToolsOf(messages, i, TRUE)]
           R == {"user", "model"}
           U == UNION {ToSet(says[i].blocks) : i \in DOMAIN says}
<1>1. n \in Nat /\ DOMAIN messages = 1 .. n
  BY DEF IsSeq
<1>2. GoogleTurns(messages) = Merged(says)
  BY DEF GoogleTurns
<1>3. \A i \in 0 .. n : names[i] = [id \in CallIds(messages) |-> NameOf(messages, i + 1, id)]
  <2> DEFINE kept == names
  <2>1. kept = CHOOSE f : f = [i \in 0 .. Len(messages) |->
                      IF i = 0 THEN [c \in CallIds(messages) |-> "unknown"]
                      ELSE IF messages[i].role = "assistant" THEN Remembered(f[i - 1], messages[i])
                      ELSE f[i - 1]]
    OBVIOUS
  <2> HIDE DEF kept
  <2>2. \A i \in 0 .. Len(messages) : kept[i] = [id \in CallIds(messages) |-> NameOf(messages, i + 1, id)]
    BY <1>1, <2>1, NamesAre
  <2> QED
    BY <2>2 DEF kept
<1> HIDE DEF names
<1>4. ASSUME NEW i \in 1 .. n, messages[i].role = "tool"
      PROVE  (IF messages[i].id \in DOMAIN names[i] THEN names[i][messages[i].id] ELSE "unknown")
               = NameOf(messages, i, messages[i].id)
  <2> DEFINE id == messages[i].id
  <2>1. i \in 0 .. n /\ i \in Nat \ {0}
    BY <1>1
  <2>2. names[i] = [x \in CallIds(messages) |-> NameOf(messages, i + 1, x)]
    BY <1>3, <2>1
  <2>3. NameOf(messages, i + 1, id) = NameOf(messages, i, id)
    BY <1>4, <2>1, NameStep
  <2>4. CASE id \in CallIds(messages)
    BY <2>2, <2>3, <2>4
  <2>5. CASE id \notin CallIds(messages)
    <3>1. \A j \in 1 .. n : CallsOf(messages[j], id) = {}
      BY <1>1, <2>5 DEF CallsOf, CallIds
    <3>2. {j \in 1 .. i - 1 : messages[j].role = "assistant" /\ CallsOf(messages[j], id) # {}} = {}
      BY <1>1, <3>1
    <3>3. NameOf(messages, i, id) = "unknown"
      BY <3>2 DEF NameOf
    <3> QED
      BY <2>2, <2>5, <3>3
  <2> QED
    BY <2>4, <2>5
<1>5. /\ Len(says) = n /\ DOMAIN says = 1 .. n /\ DOMAIN told = 1 .. n /\ told = [i \in 1 .. n |-> told[i]]
  BY <1>1
<1>6. ASSUME NEW i \in 1 .. n
      PROVE  says[i].role \in R /\ IsSeq(says[i].blocks) /\ ToolsIn(says[i].blocks) = told[i]
  <2>1. IsSeq(messages[i].parts) /\ IsSeq(messages[i].calls)
    BY <1>1
  <2>2. GoogleRole(messages[i]) \in R /\ IsSeq(GoogleBlocks(names[i], messages[i]))
    BY <2>1, GoogleSays
  <2>3. ToolsIn(GoogleBlocks(names[i], messages[i])) = ToolsOf(messages, i, TRUE)
    BY <1>4, <2>1, GoogleTells
  <2> QED
    BY <1>1, <2>2, <2>3
<1> HIDE DEF n, says, told, R
<1>7. ASSUME NEW i \in 1 .. n PROVE says[i].blocks \in Seq(U) /\ told[i] \in Seq(Pairs(U))
  <2>1. says[i].blocks \in Seq(ToSet(says[i].blocks)) /\ ToSet(says[i].blocks) \subseteq U
    BY <1>5, <1>6 DEF IsSeq
  <2> HIDE DEF U
  <2>2. says[i].blocks \in Seq(U)
    BY <2>1
  <2> DEFINE b == says[i].blocks
  <2>3. b \in Seq(U) /\ ToolsIn(b) = told[i]
    BY <1>6, <2>2
  <2> HIDE DEF b
  <2>4. ToolsIn(b) \in Seq(Pairs(U))
    BY <2>3, ToolsConcat
  <2> QED
    BY <2>2, <2>3, <2>4
<1> HIDE DEF U
<1>8. told \in Seq(Seq(Pairs(U))) /\ Len(told) = n
  <2>1. told \in [1 .. n -> Seq(Pairs(U))]
    BY <1>5, <1>7
  <2> QED
    BY <1>1, <2>1
<1>9. Telling(U, says, told)
  BY <1>5, <1>6, <1>7, <1>8 DEF Telling
<1>10. Merged(says) \in Seq(Rows(R, U)) /\ ToolsIn(Blocks(Merged(says))) = FlattenSeq(told)
  BY <1>1, <1>5, <1>6, <1>9, ToolsMerged
<1> QED
  BY <1>2, <1>10 DEF told

\* Whatever messages a client sends, the tool calls and results that
\* AnthropicProvider and GoogleProvider send on are the client's, in its order,
\* and Gemini gets a result under the name of the latest call with its id.
THEOREM ToolsAreFaithful == ProviderSpec => []ToolsFaithful
<1>1. ProviderInit => SentInv
  BY DEF ProviderInit, Calling, Consuming, CallInit, SentInv, Translated, Sent
<1>2. SentInv /\ [ProviderNext]_providerVars => SentInv'
  <2>1. [ProviderNext]_providerVars => [CallNext]_callVars
    BY DEF ProviderNext, providerVars
  <2> QED
    BY <2>1, SentKept
<1>3. SentInv => ToolsFaithful
  <2> SUFFICES ASSUME SentInv, Translated
               PROVE  ToolsIn(Blocks(sent.turns))
                        = FlattenSeq([i \in DOMAIN request.messages |->
                                        ToolsOf(request.messages, i, provider = "google")])
    BY DEF ToolsFaithful
  <2>1. request \in Requests
    BY RequestsAssumption DEF SentInv, Translated, Sent
  <2>2. /\ IsSeq(request.messages)
        /\ \A i \in DOMAIN request.messages :
             IsSeq(request.messages[i].parts) /\ IsSeq(request.messages[i].calls)
    BY <2>1, RequestsAssumption
  <2>3. CASE provider = "anthropic"
    <3>1. sent.turns = AnthropicTurns(request.messages) /\ (provider = "google") = FALSE
      BY <2>3 DEF SentInv
    <3> QED
      BY <2>2, <3>1, AnthropicToldAll
  <2>4. CASE provider = "google"
    <3>1. sent.turns = GoogleTurns(request.messages) /\ (provider = "google") = TRUE
      BY <2>4 DEF SentInv
    <3> QED
      BY <2>2, <3>1, GoogleToldAll
  <2> QED
    BY <2>3, <2>4 DEF SentInv, Translated
<1> QED
  BY <1>1, <1>2, <1>3, PTL DEF ProviderSpec

-----------------------------------------------------------------------------
(* Schemas                                                                   *)

\* A schema's nodes are finitely many, and its children are among them and are
\* not definitions.
LEMMA TreeHas ==
  ASSUME NEW doc, IsTree(doc)
  PROVE  /\ doc.defs \subseteq DOMAIN doc.nodes /\ IsFiniteSet(DOMAIN doc.nodes)
         /\ \A n \in DOMAIN doc.nodes :
              Kids(doc, n) \subseteq DOMAIN doc.nodes /\ Kids(doc, n) \cap doc.defs = {}
<1>1. doc.defs \subseteq DOMAIN doc.nodes /\ IsFiniteSet(DOMAIN doc.nodes)
  BY DEF IsTree
<1>2. \A n \in DOMAIN doc.nodes : Kids(doc, n) \subseteq DOMAIN doc.nodes \ doc.defs
  BY DEF IsTree
<1> QED
  BY <1>1, <1>2

\* A visit is a node, the references it is inside of, and the keys that are
\* taken; g tells what the visits give, and v gives what follows from that.
Visits(doc) == (DOMAIN doc.nodes) \X (SUBSET doc.defs) \X (SUBSET AllKeys(doc))

Unseen(doc, v) == Own(doc, v[1]) \ v[3]

Into(doc, v, k) == <<doc.nodes[v[1]].kids[k], v[2], {}>>

Along(doc, v) ==
  <<doc.nodes[v[1]].ref, v[2] \cup {doc.nodes[v[1]].ref}, v[3] \cup Own(doc, v[1])>>

Visit(doc, g, v) ==
  {<<v[1], Unseen(doc, v)>>}
    \cup (UNION {g[Into(doc, v, k)] : k \in Unseen(doc, v)})
    \cup (IF Resolvable(doc, doc.nodes[v[1]].ref, v[2]) THEN g[Along(doc, v)] ELSE {})

\* What a visit gives, one by one.
LEMMA VisitGives ==
  ASSUME NEW doc, NEW g, NEW v, NEW x
  PROVE  x \in Visit(doc, g, v) <=>
           \/ x = <<v[1], Unseen(doc, v)>>
           \/ \E k \in Unseen(doc, v) : x \in g[Into(doc, v, k)]
           \/ Resolvable(doc, doc.nodes[v[1]].ref, v[2]) /\ x \in g[Along(doc, v)]
<1> DEFINE K == Unseen(doc, v)
           P == Resolvable(doc, doc.nodes[v[1]].ref, v[2])
           B == g[Along(doc, v)]
           Kid(k) == g[Into(doc, v, k)]
           U == UNION {Kid(k) : k \in K}
           I == IF P THEN B ELSE {}
           e == <<v[1], K>>
<1>1. Visit(doc, g, v) = {e} \cup U \cup I
  BY DEF Visit
<1> HIDE DEF P, B, K, e, Kid
<1>2. x \in U <=> \E k \in K : x \in Kid(k)
  OBVIOUS
<1>3. x \in I <=> P /\ x \in B
  OBVIOUS
<1> HIDE DEF U, I
<1>4. x \in Visit(doc, g, v) <=> x = e \/ x \in U \/ x \in I
  BY <1>1
<1>5. x \in Visit(doc, g, v) <=> \/ x = e
                                 \/ \E k \in K : x \in Kid(k)
                                 \/ P /\ x \in B
  BY <1>2, <1>3, <1>4
<1> QED
  BY <1>5 DEF K, P, B, e, Kid

\* One visit leads to another: to a child, or along a reference.
Leads(doc, v, w) ==
  \/ \E k \in Unseen(doc, v) : w = Into(doc, v, k)
  \/ Resolvable(doc, doc.nodes[v[1]].ref, v[2]) /\ w = Along(doc, v)

\* It leads to a visit: of a child inside of the same references, or of one
\* reference more.
LEMMA LeadsOn ==
  ASSUME NEW doc, IsTree(doc), NEW v \in Visits(doc), NEW w, Leads(doc, v, w)
  PROVE  /\ w \in Visits(doc)
         /\ \/ w[2] = v[2] /\ w[1] \in Kids(doc, v[1]) /\ w[3] = {}
            \/ /\ w[1] = doc.nodes[v[1]].ref /\ w[1] \in doc.defs \ v[2]
               /\ w[2] = v[2] \cup {w[1]} /\ w[3] = v[3] \cup Own(doc, v[1])
<1> DEFINE N == DOMAIN doc.nodes
           A == AllKeys(doc)
           n == v[1]
           r == doc.nodes[n].ref
<1>1. n \in N /\ v[2] \in SUBSET doc.defs /\ v[3] \in SUBSET A
  BY DEF Visits
<1>2. doc.defs \subseteq N /\ Kids(doc, n) \subseteq N
  BY <1>1, TreeHas
<1>3. Own(doc, n) \subseteq A
  BY <1>1 DEF AllKeys
<1>4. ASSUME NEW k \in Unseen(doc, v), w = Into(doc, v, k)
      PROVE  w \in Visits(doc) /\ w[2] = v[2] /\ w[1] \in Kids(doc, v[1]) /\ w[3] = {}
  <2>1. k \in DOMAIN doc.nodes[n].kids
    BY DEF Unseen, Own
  <2> DEFINE c == doc.nodes[n].kids[k]
  <2>2. c \in Kids(doc, n)
    BY <2>1 DEF Kids
  <2>3. w = <<c, v[2], {}>>
    BY <1>4 DEF Into
  <2> HIDE DEF N, A, n, c
  <2>4. w \in N \X (SUBSET doc.defs) \X (SUBSET A)
    BY <1>1, <1>2, <2>2, <2>3
  <2> QED
    BY <2>2, <2>3, <2>4 DEF Visits, N, A, n
<1>5. ASSUME Resolvable(doc, r, v[2]), w = Along(doc, v)
      PROVE  /\ w \in Visits(doc)
             /\ w[1] = doc.nodes[v[1]].ref /\ w[1] \in doc.defs \ v[2]
             /\ w[2] = v[2] \cup {w[1]} /\ w[3] = v[3] \cup Own(doc, v[1])
  <2>1. r \in doc.defs \ v[2]
    BY <1>5 DEF Resolvable, Inlined
  <2>2. w = <<r, v[2] \cup {r}, v[3] \cup Own(doc, n)>>
    BY <1>5 DEF Along
  <2> HIDE DEF N, A, n, r
  <2>3. w \in N \X (SUBSET doc.defs) \X (SUBSET A)
    BY <1>1, <1>2, <1>3, <2>1, <2>2
  <2> QED
    BY <2>1, <2>2, <2>3 DEF Visits, N, A, n, r
<1> QED
  BY <1>4, <1>5 DEF Leads

\* mu falls from visit to visit.
Falls(doc, mu, top) ==
  /\ mu \in [Visits(doc) -> Nat] /\ top \in Nat /\ \A v \in Visits(doc) : mu[v] < top
  /\ \A v, w \in Visits(doc) : Leads(doc, v, w) => mu[w] < mu[v]

\* Multiplication, as far as it is needed.
LEMMA TimesLess ==
  ASSUME NEW w \in Nat, NEW x \in Nat, NEW c \in Nat, x <= c
  PROVE  x * w \in Nat /\ x * w <= c * w /\ (x - 1) * w = x * w - w
<1>1. c * w = x * w + (c - x) * w
  OBVIOUS
<1>2. \A a, b \in Nat : a * b \in Nat
  OBVIOUS
<1>3. x * w \in Nat /\ (c - x) * w \in Nat
  <2>1. c - x \in Nat
    OBVIOUS
  <2> QED
    BY <1>2, <2>1
<1>4. x * w <= c * w
  <2> DEFINE p == x * w
             q == (c - x) * w
             t == c * w
  <2>1. p \in Nat /\ q \in Nat /\ t = p + q
    BY <1>1, <1>3
  <2> HIDE DEF p, q, t
  <2>2. p <= t
    BY <2>1
  <2> QED
    BY <2>2 DEF p, t
<1>5. (x - 1) * w = x * w - w
  OBVIOUS
<1> QED
  BY <1>3, <1>4, <1>5

\* A tree's visits have such a measure: the references that are left, and then
\* the height.
LEMMA MeasureExists ==
  ASSUME NEW doc, IsTree(doc)
  PROVE  \E mu, top : Falls(doc, mu, top)
<1> DEFINE N == DOMAIN doc.nodes
           c == Cardinality(doc.defs)
           w == Cardinality(N) + 1
           left(s) == Cardinality(doc.defs \ s)
<1>1. PICK height \in [N -> 0 .. Cardinality(N)] :
        \A n \in N : \A k \in Kids(doc, n) : height[k] < height[n]
  BY DEF IsTree
<1>2. IsFiniteSet(N) /\ doc.defs \subseteq N /\ \A n \in N : Kids(doc, n) \subseteq N
  BY TreeHas
<1>3. Cardinality(N) \in Nat /\ w \in Nat
  BY <1>2, FS_CardinalityType
<1>4. IsFiniteSet(doc.defs) /\ c \in Nat
  BY <1>2, FS_Subset, FS_CardinalityType
<1>5. ASSUME NEW s PROVE left(s) \in Nat /\ left(s) <= c
  <2>1. doc.defs \ s \in SUBSET doc.defs
    OBVIOUS
  <2>2. IsFiniteSet(doc.defs \ s) /\ left(s) <= c
    BY <1>4, <2>1, FS_Subset
  <2> QED
    BY <2>2, FS_CardinalityType
<1>6. ASSUME NEW s, NEW r \in doc.defs \ s PROVE left(s \cup {r}) = left(s) - 1
  <2>1. doc.defs \ (s \cup {r}) = (doc.defs \ s) \ {r}
    OBVIOUS
  <2>2. IsFiniteSet(doc.defs \ s)
    BY <1>4, FS_Subset
  <2>3. Cardinality((doc.defs \ s) \ {r}) = Cardinality(doc.defs \ s) - 1
    BY <2>2, FS_RemoveElement
  <2> QED
    BY <2>1, <2>3
<1>7. \A n \in N : height[n] \in Nat /\ height[n] < w
  BY <1>1, <1>3
<1> HIDE DEF left, w, c
<1> DEFINE mu == [v \in Visits(doc) |-> left(v[2]) * w + height[v[1]]]
           top == c * w + w
<1>8. ASSUME NEW v \in Visits(doc) PROVE v[1] \in N /\ v[2] \in SUBSET doc.defs
  BY DEF Visits
<1>9. ASSUME NEW s PROVE left(s) * w \in Nat /\ left(s) * w <= c * w /\ (left(s) - 1) * w = left(s) * w - w
  BY <1>3, <1>4, <1>5, TimesLess
<1>10. c * w \in Nat /\ top \in Nat
  <2>1. c <= c
    BY <1>4
  <2>2. c * w \in Nat
    BY <1>3, <1>4, <2>1, TimesLess
  <2> QED
    BY <1>3, <2>2
<1>11. ASSUME NEW v \in Visits(doc)
       PROVE  mu[v] = left(v[2]) * w + height[v[1]] /\ mu[v] \in Nat /\ mu[v] < top
  <2> DEFINE p == left(v[2]) * w
             q == c * w
             h == height[v[1]]
  <2>1. p \in Nat /\ p <= q /\ q \in Nat
    BY <1>9, <1>10
  <2>2. h \in Nat /\ h < w
    BY <1>7, <1>8
  <2>3. mu[v] = p + h /\ top = q + w
    OBVIOUS
  <2> HIDE DEF p, q, h, mu, top
  <2>4. p + h \in Nat /\ p + h < q + w
    BY <1>3, <2>1, <2>2
  <2> QED
    BY <2>3, <2>4 DEF p, h
<1>12. mu \in [Visits(doc) -> Nat]
  <2>1. \A v \in Visits(doc) : left(v[2]) * w + height[v[1]] \in Nat
    BY <1>11
  <2> QED
    BY <2>1
<1> HIDE DEF mu, top
<1>13. ASSUME NEW v \in Visits(doc), NEW u \in Visits(doc), Leads(doc, v, u) PROVE mu[u] < mu[v]
  <2>1. CASE u[2] = v[2] /\ u[1] \in Kids(doc, v[1])
    <3> DEFINE p == left(v[2]) * w
               h == height[v[1]]
               i == height[u[1]]
    <3>1. p \in Nat /\ h \in Nat /\ i \in Nat /\ i < h
      BY <1>1, <1>7, <1>8, <1>9, <2>1
    <3>2. mu[v] = p + h /\ mu[u] = p + i
      BY <1>11, <2>1
    <3> HIDE DEF p, h, i
    <3> QED
      BY <3>1, <3>2
  <2>2. CASE u[1] \in doc.defs \ v[2] /\ u[2] = v[2] \cup {u[1]}
    <3> DEFINE p == left(v[2]) * w
               h == height[v[1]]
               i == height[u[1]]
    <3>1. left(u[2]) * w = p - w
      <4>1. left(u[2]) = left(v[2]) - 1
        BY <1>6, <2>2
      <4> QED
        BY <1>9, <4>1
    <3>2. p \in Nat /\ h \in Nat /\ i \in Nat /\ i < w
      BY <1>7, <1>8, <1>9
    <3>3. mu[v] = p + h /\ mu[u] = (p - w) + i
      BY <1>11, <3>1
    <3> HIDE DEF p, h, i
    <3> QED
      BY <1>3, <3>2, <3>3
  <2> QED
    BY <1>13, <2>1, <2>2, LeadsOn
<1>14. Falls(doc, mu, top)
  BY <1>10, <1>11, <1>12, <1>13 DEF Falls
<1> QED
  BY <1>14

\* What a visit gives depends on those it leads to.
LEMMA VisitSame ==
  ASSUME NEW doc, IsTree(doc), NEW g, NEW h, NEW v \in Visits(doc),
         \A u \in Visits(doc) : Leads(doc, v, u) => g[u] = h[u]
  PROVE  Visit(doc, g, v) = Visit(doc, h, v)
<1> DEFINE P == Resolvable(doc, doc.nodes[v[1]].ref, v[2])
           e == <<v[1], Unseen(doc, v)>>
<1>1. ASSUME NEW k \in Unseen(doc, v) PROVE g[Into(doc, v, k)] = h[Into(doc, v, k)]
  <2>1. Leads(doc, v, Into(doc, v, k))
    BY DEF Leads
  <2> QED
    BY <2>1, LeadsOn
<1>2. ASSUME P PROVE g[Along(doc, v)] = h[Along(doc, v)]
  <2>1. Leads(doc, v, Along(doc, v))
    BY <1>2 DEF Leads
  <2> QED
    BY <2>1, LeadsOn
<1>3. ASSUME NEW x PROVE x \in Visit(doc, g, v) <=> x \in Visit(doc, h, v)
  <2>1. x \in Visit(doc, g, v) <=>
           \/ x = e
           \/ \E k \in Unseen(doc, v) : x \in g[Into(doc, v, k)]
           \/ P /\ x \in g[Along(doc, v)]
    BY VisitGives
  <2>2. x \in Visit(doc, h, v) <=>
           \/ x = e
           \/ \E k \in Unseen(doc, v) : x \in h[Into(doc, v, k)]
           \/ P /\ x \in h[Along(doc, v)]
    BY VisitGives
  <2> HIDE DEF P, e
  <2> QED
    BY <1>1, <1>2, <2>1, <2>2
<1> DEFINE A == Visit(doc, g, v)
           B == Visit(doc, h, v)
<1>4. \A x : x \in A <=> x \in B
  BY <1>3
<1> HIDE DEF A, B
<1>5. A = B
  BY <1>4
<1> QED
  BY <1>5 DEF A, B

\* So there are visits that give what they should.
LEMMA WalkExists ==
  ASSUME NEW doc, IsTree(doc)
  PROVE  \E g : g = [v \in Visits(doc) |-> Visit(doc, g, v)]
<1>1. PICK mu, top : Falls(doc, mu, top)
  BY MeasureExists
<1> DEFINE V == Visits(doc)
           Upto(g, k) == \A v \in V : mu[v] < k => g[v] = Visit(doc, g, v)
           lacking == {k \in 0 .. top : ~ \E g : Upto(g, k)}
<1>2. /\ top \in Nat
      /\ \A v \in V : mu[v] \in Nat /\ mu[v] < top
      /\ \A v, u \in V : Leads(doc, v, u) => mu[u] < mu[v]
  BY <1>1 DEF Falls
<1>3. lacking = {}
  <2> SUFFICES ASSUME lacking # {} PROVE FALSE
    OBVIOUS
  <2>1. PICK m \in lacking : \A k \in lacking : m <= k
    <3>1. lacking \subseteq Nat
      OBVIOUS
    <3> HIDE DEF lacking
    <3> QED
      BY <3>1, LeastNatural
  <2>2. m \in 0 .. top /\ m \in Nat /\ ~ \E g : Upto(g, m)
    <3> HIDE DEF Upto
    <3> QED
      BY <1>2
  <2>3. m # 0
    <3>1. \A v \in V : ~(mu[v] < 0)
      BY <1>2
    <3>2. Upto({}, 0)
      BY <3>1
    <3> HIDE DEF Upto
    <3> QED
      BY <2>2, <3>2
  <2>4. m - 1 \in 0 .. top /\ m - 1 \notin lacking
    <3> HIDE DEF lacking
    <3> QED
      BY <1>2, <2>1, <2>2, <2>3
  <2>5. PICK g : Upto(g, m - 1)
    BY <2>4
  <2> DEFINE h == [v \in V |-> Visit(doc, g, v)]
  <2>6. \A v \in V : h[v] = Visit(doc, g, v)
    OBVIOUS
  <2> HIDE DEF h
  <2>7. ASSUME NEW v \in V, mu[v] < m PROVE h[v] = Visit(doc, h, v)
    <3>1. ASSUME NEW u \in V, Leads(doc, v, u) PROVE g[u] = h[u]
      <4>1. mu[u] < m - 1
        BY <1>2, <2>2, <2>7, <3>1
      <4> QED
        BY <2>5, <2>6, <4>1
    <3>2. Visit(doc, g, v) = Visit(doc, h, v)
      BY <3>1, VisitSame
    <3> QED
      BY <2>6, <3>2
  <2>8. Upto(h, m)
    BY <2>7
  <2> HIDE DEF Upto
  <2> QED
    BY <2>2, <2>8
<1>4. PICK g : Upto(g, top)
  <2>1. top \in 0 .. top
    BY <1>2
  <2> HIDE DEF Upto
  <2> QED
    BY <1>3, <2>1
<1> DEFINE h == [v \in V |-> Visit(doc, g, v)]
<1>5. \A v \in V : g[v] = Visit(doc, g, v) /\ h[v] = g[v]
  BY <1>2, <1>4
<1> HIDE DEF h, V
<1>6. \A v \in V : Visit(doc, g, v) = Visit(doc, h, v)
  BY <1>5, VisitSame DEF V
<1>7. h = [v \in V |-> Visit(doc, h, v)]
  BY <1>6 DEF h
<1> QED
  BY <1>7 DEF V

\* sanitizeSchema gives what one of them gives at the root.
LEMMA WalkIs ==
  ASSUME NEW doc, IsTree(doc)
  PROVE  \E g : /\ \A v \in Visits(doc) : g[v] = Visit(doc, g, v)
                /\ sanitizeSchema(doc) = g[<<"root", {}, {}>>]
<1> DEFINE walk == CHOOSE g : g = [v \in Visits(doc) |-> Visit(doc, g, v)]
<1>1. walk = [v \in Visits(doc) |-> Visit(doc, walk, v)]
  <2> HIDE DEF walk
  <2> QED
    BY WalkExists DEF walk
<1>2. sanitizeSchema(doc) = walk[<<"root", {}, {}>>]
  BY DEF sanitizeSchema, Visits, Visit, Unseen, Into, Along
<1> HIDE DEF walk
<1>3. \A v \in Visits(doc) : walk[v] = Visit(doc, walk, v)
  BY <1>1
<1> QED
  BY <1>2, <1>3

\* A visit of a definition is inside of it, and the keys that are taken are those
\* of other nodes that refer to its node, which it is inside of as well.
Within(doc, v) ==
  /\ v[1] \in doc.defs => v[1] \in v[2]
  /\ \A k \in v[3] : \E m \in Referrers(doc, v[1]) \ {v[1]} :
       k \in Own(doc, m) /\ (m \in doc.defs => m \in v[2])

\* What refers to what refers to a definition refers to it.
LEMMA RefersOn ==
  ASSUME NEW doc, NEW n \in DOMAIN doc.nodes, NEW r, r = doc.nodes[n].ref
  PROVE  n \in Referrers(doc, r) /\ Referrers(doc, n) \subseteq Referrers(doc, r)
<1> DEFINE N == DOMAIN doc.nodes
           Shut(S) == \A m \in N : doc.nodes[m].ref \in S => m \in S
<1>1. Referrers(doc, r) = {m \in N : \A S \in SUBSET N : r \in S /\ Shut(S) => m \in S}
  BY DEF Referrers
<1>2. Referrers(doc, n) = {m \in N : \A S \in SUBSET N : n \in S /\ Shut(S) => m \in S}
  BY DEF Referrers
<1>3. \A S \in SUBSET N : r \in S /\ Shut(S) => n \in S
  OBVIOUS
<1> HIDE DEF N, Shut
<1> QED
  BY <1>1, <1>2, <1>3 DEF N

\* So it is with the visits that such a visit leads to.
LEMMA WithinLeads ==
  ASSUME NEW doc, IsTree(doc), NEW v \in Visits(doc), Within(doc, v), NEW w, Leads(doc, v, w)
  PROVE  Within(doc, w)
<1> DEFINE n == v[1]
           r == w[1]
<1>1. n \in DOMAIN doc.nodes
  BY DEF Visits
<1>2. CASE w[1] \in Kids(doc, v[1]) /\ w[3] = {}
  <2>1. w[1] \notin doc.defs
    BY <1>1, <1>2, TreeHas
  <2> QED
    BY <1>2, <2>1 DEF Within
<1>3. CASE /\ r = doc.nodes[n].ref /\ r \in doc.defs \ v[2]
           /\ w[2] = v[2] \cup {r} /\ w[3] = v[3] \cup Own(doc, n)
  <2>1. n \in Referrers(doc, r) /\ Referrers(doc, n) \subseteq Referrers(doc, r)
    BY <1>1, <1>3, RefersOn
  <2>2. n \in doc.defs => n \in v[2]
    BY DEF Within
  <2>3. n # r
    BY <1>3, <2>2
  <2>4. ASSUME NEW k \in v[3]
        PROVE  \E m \in Referrers(doc, r) \ {r} : k \in Own(doc, m) /\ (m \in doc.defs => m \in w[2])
    <3>1. PICK m \in Referrers(doc, n) \ {n} : k \in Own(doc, m) /\ (m \in doc.defs => m \in v[2])
      BY DEF Within
    <3>2. m # r
      BY <1>3, <3>1
    <3> QED
      BY <1>3, <2>1, <3>1, <3>2
  <2>5. ASSUME NEW k \in Own(doc, n)
        PROVE  \E m \in Referrers(doc, r) \ {r} : k \in Own(doc, m) /\ (m \in doc.defs => m \in w[2])
    BY <1>3, <2>1, <2>2, <2>3
  <2> QED
    BY <1>3, <2>4, <2>5 DEF Within
<1> QED
  BY <1>2, <1>3, LeadsOn

\* The nodes of what is given, and that nothing leads out of them: no key that
\* nothing takes the place of, and no reference that is not among those of S.
Nodes(out) == {x[1] : x \in out}

Shut(doc, C, S) ==
  \A n \in C : /\ \A k \in Own(doc, n) \ Overridden(doc, n) : doc.nodes[n].kids[k] \in C
               /\ doc.nodes[n].ref \in Inlined(doc) \ S => doc.nodes[n].ref \in C

\* What a visit should give: its node, no rejected key, and whatever the nodes
\* that it gives lead to, except for the references it is inside of.
GoodVisit(doc, out, v) ==
  /\ \A x \in out : x[2] \cap Rejected = {}
  /\ v[1] \in Nodes(out)
  /\ Shut(doc, Nodes(out), v[2])

\* A visit is good when those it leads to are.
LEMMA VisitGood ==
  ASSUME NEW doc, IsTree(doc), NEW g, NEW v \in Visits(doc), Within(doc, v),
         \A u \in Visits(doc) : Leads(doc, v, u) => GoodVisit(doc, g[u], u)
  PROVE  GoodVisit(doc, Visit(doc, g, v), v)
<1> DEFINE n == v[1]
           s == v[2]
           r == doc.nodes[n].ref
           K == Unseen(doc, v)
           P == Resolvable(doc, r, s)
           out == Visit(doc, g, v)
           C == Nodes(out)
           e == <<n, K>>
           Kid(k) == g[Into(doc, v, k)]
           Ref == g[Along(doc, v)]
           sure(m) == Own(doc, m) \ Overridden(doc, m)
           kid(m, k) == doc.nodes[m].kids[k]
<1>1. ASSUME NEW k \in K
      PROVE  /\ \A x \in Kid(k) : x[2] \cap Rejected = {}
             /\ kid(n, k) \in Nodes(Kid(k)) /\ Shut(doc, Nodes(Kid(k)), s)
  <2>1. Leads(doc, v, Into(doc, v, k))
    BY DEF Leads
  <2>2. GoodVisit(doc, Kid(k), Into(doc, v, k))
    BY <2>1, LeadsOn
  <2>3. Into(doc, v, k)[1] = kid(n, k) /\ Into(doc, v, k)[2] = s
    BY DEF Into
  <2> QED
    BY <2>2, <2>3 DEF GoodVisit
<1>2. ASSUME P
      PROVE  /\ \A x \in Ref : x[2] \cap Rejected = {}
             /\ r \in Nodes(Ref) /\ Shut(doc, Nodes(Ref), s \cup {r})
  <2>1. Leads(doc, v, Along(doc, v))
    BY <1>2 DEF Leads
  <2>2. GoodVisit(doc, Ref, Along(doc, v))
    BY <2>1, LeadsOn
  <2>3. Along(doc, v)[1] = r /\ Along(doc, v)[2] = s \cup {r}
    BY DEF Along
  <2> QED
    BY <2>2, <2>3 DEF GoodVisit
<1>3. ASSUME NEW x
      PROVE  x \in out <=> x = e \/ (\E k \in K : x \in Kid(k)) \/ (P /\ x \in Ref)
  BY VisitGives
<1>4. e[1] = n /\ e[2] \cap Rejected = {}
  BY DEF Unseen, Own
<1>5. sure(n) \subseteq K
  <2>1. v[3] \subseteq Overridden(doc, n)
    BY DEF Within, Overridden
  <2> QED
    BY <2>1 DEF Unseen
<1>6. P <=> r \in Inlined(doc) \ s
  BY DEF Resolvable
<1> HIDE DEF out, s, r, K, P, e, Kid, Ref
<1>7. /\ n \in C /\ \A k \in K : Nodes(Kid(k)) \subseteq C
      /\ P => Nodes(Ref) \subseteq C
  BY <1>3, <1>4 DEF Nodes
<1>8. \A m \in C : m = n \/ (\E k \in K : m \in Nodes(Kid(k))) \/ (P /\ m \in Nodes(Ref))
  BY <1>3, <1>4 DEF Nodes
<1> HIDE DEF C
<1>9. ASSUME NEW m \in C
      PROVE  /\ \A k \in sure(m) : kid(m, k) \in C
             /\ doc.nodes[m].ref \in Inlined(doc) \ s => doc.nodes[m].ref \in C
  <2>1. CASE m = n
    <3>1. ASSUME NEW k \in sure(m) PROVE kid(m, k) \in C
      <4> HIDE DEF kid, n
      <4> QED
        BY <1>1, <1>5, <1>7, <2>1, <3>1
    <3>2. ASSUME r \in Inlined(doc) \ s PROVE r \in C
      BY <1>2, <1>6, <1>7, <3>2
    <3> QED
      BY <2>1, <3>1, <3>2 DEF r
  <2>2. CASE \E k \in K : m \in Nodes(Kid(k))
    <3>1. PICK k \in K : m \in Nodes(Kid(k))
      BY <2>2
    <3>2. Shut(doc, Nodes(Kid(k)), s) /\ Nodes(Kid(k)) \subseteq C
      BY <1>1, <1>7
    <3> QED
      BY <3>1, <3>2 DEF Shut
  <2>3. CASE P /\ m \in Nodes(Ref)
    <3>1. Shut(doc, Nodes(Ref), s \cup {r}) /\ Nodes(Ref) \subseteq C /\ r \in C
      BY <1>2, <1>7, <2>3
    <3>2. /\ \A k \in sure(m) : kid(m, k) \in C
          /\ doc.nodes[m].ref \in Inlined(doc) \ (s \cup {r}) => doc.nodes[m].ref \in C
      BY <2>3, <3>1 DEF Shut
    <3> QED
      BY <3>1, <3>2
  <2> QED
    BY <1>8, <2>1, <2>2, <2>3
<1>10. Shut(doc, C, s)
  BY <1>9 DEF Shut
<1>11. \A x \in out : x[2] \cap Rejected = {}
  BY <1>1, <1>2, <1>3, <1>4
<1> QED
  BY <1>7, <1>10, <1>11 DEF GoodVisit, C, out, s

\* So all visits are.
LEMMA WalkGood ==
  ASSUME NEW doc, IsTree(doc), NEW g, \A v \in Visits(doc) : g[v] = Visit(doc, g, v)
  PROVE  \A v \in Visits(doc) : Within(doc, v) => GoodVisit(doc, g[v], v)
<1>1. PICK mu, top : Falls(doc, mu, top)
  BY MeasureExists
<1> DEFINE bad == {mu[v] : v \in {u \in Visits(doc) : Within(doc, u) /\ ~GoodVisit(doc, g[u], u)}}
<1> SUFFICES ASSUME bad # {} PROVE FALSE
  OBVIOUS
<1>2. PICK m \in bad : \A k \in bad : m <= k
  <2>1. bad \subseteq Nat
    BY <1>1 DEF Falls
  <2> HIDE DEF bad
  <2> QED
    BY <2>1, LeastNatural
<1>3. PICK v \in Visits(doc) : Within(doc, v) /\ ~GoodVisit(doc, g[v], v) /\ m = mu[v]
  BY <1>2
<1>4. ASSUME NEW u \in Visits(doc), Leads(doc, v, u) PROVE GoodVisit(doc, g[u], u)
  <2>1. mu[u] \in Nat /\ mu[v] \in Nat /\ mu[u] < mu[v]
    BY <1>1, <1>4 DEF Falls
  <2>2. mu[u] \notin bad
    <3> HIDE DEF bad
    <3> QED
      BY <1>2, <1>3, <2>1
  <2>3. Within(doc, u)
    BY <1>3, <1>4, WithinLeads
  <2> QED
    BY <2>2, <2>3
<1>5. GoodVisit(doc, Visit(doc, g, v), v)
  BY <1>3, <1>4, VisitGood
<1> QED
  BY <1>3, <1>5

\* What is reached from S in one more step.
Sure(doc, n) == {doc.nodes[n].kids[k] : k \in Own(doc, n) \ Overridden(doc, n)}

More(doc, S) == S \cup UNION {Sure(doc, n) \cup ({doc.nodes[n].ref} \cap Inlined(doc)) : n \in S}

\* One by one.
LEMMA MoreIs ==
  ASSUME NEW doc, NEW S, NEW x
  PROVE  x \in More(doc, S) <=>
           x \in S \/ \E n \in S : x \in Sure(doc, n) \/ (x = doc.nodes[n].ref /\ x \in Inlined(doc))
<1> DEFINE From(n) == Sure(doc, n) \cup ({doc.nodes[n].ref} \cap Inlined(doc))
           U == UNION {From(n) : n \in S}
<1>1. More(doc, S) = S \cup U
  BY DEF More
<1>2. \A n : x \in From(n) <=> x \in Sure(doc, n) \/ (x = doc.nodes[n].ref /\ x \in Inlined(doc))
  OBVIOUS
<1> HIDE DEF From
<1>3. x \in U <=> \E n \in S : x \in From(n)
  OBVIOUS
<1> HIDE DEF U
<1>4. x \in More(doc, S) <=> x \in S \/ x \in U
  BY <1>1
<1> QED
  BY <1>2, <1>3, <1>4

\* What a schema reaches is in every set with the root that nothing leads out
\* of.
LEMMA ReachedIs ==
  ASSUME NEW doc, IsTree(doc), NEW C, Shut(doc, C, {}), "root" \in C
  PROVE  Reached(doc) \subseteq C
<1> DEFINE N == DOMAIN doc.nodes
           n == Cardinality(N)
           S == SUBSET (N \cap C)
           root == {"root"}
           G == [x \in S \X (1 .. n) |-> More(doc, x[1])]
           walk == CHOOSE f : f = [i \in 0 .. n |-> IF i = 0 THEN root ELSE More(doc, f[i - 1])]
<1>1. IsFiniteSet(N) /\ n \in Nat /\ root \in S
  BY FS_CardinalityType DEF IsTree
<1>2. ASSUME NEW x \in S PROVE More(doc, x) \in S
  <2>1. doc.defs \subseteq N /\ \A k \in N : Kids(doc, k) \subseteq N
    BY TreeHas
  <2>2. ASSUME NEW k \in x PROVE Sure(doc, k) \subseteq Kids(doc, k) /\ Sure(doc, k) \subseteq C
    BY DEF Sure, Kids, Own, Shut
  <2>3. ASSUME NEW k \in x, doc.nodes[k].ref \in Inlined(doc)
        PROVE  doc.nodes[k].ref \in doc.defs /\ doc.nodes[k].ref \in C
    BY <2>3 DEF Inlined, Shut
  <2> HIDE DEF N
  <2>4. ASSUME NEW y \in More(doc, x) PROVE y \in N /\ y \in C
    <3>1. y \in x \/ \E k \in x : y \in Sure(doc, k) \/ (y = doc.nodes[k].ref /\ y \in Inlined(doc))
      BY MoreIs
    <3> QED
      BY <2>1, <2>2, <2>3, <3>1
  <2> QED
    BY <2>4
<1>3. Reached(doc) = walk[n]
  BY DEF Reached, More, Sure
<1> HIDE DEF n, S, root
<1>4. Steps(S, n, G) /\ \A x \in S, i \in 1 .. n : G[<<x, i>>] = More(doc, x)
  BY <1>2 DEF Steps
<1> HIDE DEF G
<1>5. PICK f : Follows(S, n, root, G, f)
  BY <1>1, <1>4, Recursion
<1>6. f \in [0 .. n -> S] /\ f[0] = root
  BY <1>5 DEF Follows
<1>7. ASSUME NEW i \in 1 .. n PROVE f[i] = More(doc, f[i - 1])
  <2>1. i - 1 \in 0 .. n
    BY <1>1
  <2>2. f[i - 1] \in S
    BY <1>6, <2>1
  <2>3. f[i] = G[<<f[i - 1], i>>]
    BY <1>5 DEF Follows
  <2> QED
    BY <1>4, <2>2, <2>3
<1>8. \A i \in 0 .. n : f[i] = IF i = 0 THEN root ELSE More(doc, f[i - 1])
  <2>1. \A i \in 0 .. n : i = 0 \/ i \in 1 .. n
    BY <1>1
  <2> QED
    BY <1>6, <1>7, <2>1
<1>9. f = [i \in 0 .. n |-> IF i = 0 THEN root ELSE More(doc, f[i - 1])]
  BY <1>6, <1>8
<1>10. walk = [i \in 0 .. n |-> IF i = 0 THEN root ELSE More(doc, walk[i - 1])]
  <2> HIDE DEF walk
  <2> QED
    BY <1>9 DEF walk
<1> HIDE DEF walk
<1>11. walk[0] = root /\ \A i \in 1 .. n : walk[i] = More(doc, walk[i - 1])
  BY <1>1, <1>10
<1> DEFINE wrong == {i \in 0 .. n : walk[i] \notin S}
<1>12. wrong = {}
  <2> SUFFICES ASSUME wrong # {} PROVE FALSE
    OBVIOUS
  <2>1. PICK m \in wrong : \A k \in wrong : m <= k
    <3>1. wrong \subseteq Nat
      BY <1>1
    <3> HIDE DEF wrong
    <3> QED
      BY <3>1, LeastNatural
  <2>2. m \in 0 .. n /\ walk[m] \notin S
    OBVIOUS
  <2>3. m # 0
    BY <1>1, <1>11, <2>2
  <2>4. m \in 1 .. n /\ m - 1 \in 0 .. n /\ m - 1 \notin wrong
    <3> HIDE DEF wrong
    <3> QED
      BY <1>1, <2>1, <2>2, <2>3
  <2> QED
    BY <1>2, <1>11, <2>2, <2>4
<1>13. walk[n] \in S
  <2>1. n \in 0 .. n
    BY <1>1
  <2> QED
    BY <1>12, <2>1
<1> QED
  BY <1>3, <1>13 DEF S

\* What is sent of a schema has no key that Gemini rejects, and of the nodes that
\* the schema reaches it leaves out none.
LEMMA SanitizedIs ==
  ASSUME NEW doc, IsTree(doc)
  PROVE  /\ \A s \in sanitizeSchema(doc) : s[2] \cap Rejected = {}
         /\ Reached(doc) \subseteq {s[1] : s \in sanitizeSchema(doc)}
<1> DEFINE top == <<"root", {}, {}>>
           out == sanitizeSchema(doc)
<1>1. top \in Visits(doc) /\ top[1] = "root" /\ top[2] = {} /\ top[3] = {}
  BY DEF Visits, IsTree
<1>2. Within(doc, top)
  BY <1>1 DEF Within, IsTree
<1>3. PICK g : (\A v \in Visits(doc) : g[v] = Visit(doc, g, v)) /\ out = g[top]
  BY WalkIs
<1> HIDE DEF top, out
<1>4. GoodVisit(doc, out, top)
  BY <1>1, <1>2, <1>3, WalkGood
<1>5. (\A s \in out : s[2] \cap Rejected = {}) /\ "root" \in Nodes(out) /\ Shut(doc, Nodes(out), {})
  BY <1>1, <1>4 DEF GoodVisit
<1>6. Reached(doc) \subseteq Nodes(out)
  BY <1>5, ReachedIs
<1> QED
  BY <1>5, <1>6 DEF Nodes, out

\* The parameters sent to Gemini are never null.
LEMMA NoNull == \A req : \A f \in GenerationConfig(req) : f[2] # "null"
  BY DEF GenerationConfig

\* What GoogleProvider has sent of the schema and the parameters is the
\* translation of the request's.
SchemaInv ==
  provider = "google" /\ Sent("chat") =>
    /\ sent.fields = GenerationConfig(request)
    /\ sent.schema = IF request.schema = Null THEN Null ELSE sanitizeSchema(request.schema)

\* So it is after every step.
LEMMA SchemaKept == SentInv /\ SchemaInv /\ [CallNext]_callVars => SchemaInv'
<1> SUFFICES ASSUME SentInv, SchemaInv, [CallNext]_callVars PROVE SchemaInv'
  OBVIOUS
<1> USE DEF SchemaInv, Sent
<1>1. ASSUME NEW result, Settles(result) PROVE SchemaInv'
  BY <1>1 DEF Settles
<1>2. CASE SendChat
  <2>1. /\ request' = request /\ provider' = provider
        /\ provider = "google" => sent' = GoogleRequest(request)
    BY <1>2 DEF SendChat
  <2>2. /\ GoogleRequest(request).fields = GenerationConfig(request)
        /\ GoogleRequest(request).schema
             = IF request.schema = Null THEN Null ELSE sanitizeSchema(request.schema)
    BY DEF GoogleRequest
  <2> QED
    BY <2>1, <2>2
<1>3. CASE SendEmbeddings
  BY <1>3 DEF SendEmbeddings, Waiting
<1>4. CASE UNCHANGED callVars
  BY <1>4 DEF callVars
<1>5. CASE RefuseN
  BY <1>1, <1>5 DEF RefuseN
<1>6. CASE RefuseTokens
  BY <1>1, <1>6 DEF RefuseTokens
<1>7. CASE FetchFails
  BY <1>1, <1>7 DEF FetchFails
<1>8. CASE UpstreamRefuses
  BY <1>1, <1>8 DEF UpstreamRefuses
<1>9. CASE StreamStarts
  BY <1>1, <1>9 DEF StreamStarts
<1>10. CASE Completes
  BY <1>1, <1>10 DEF Completes
<1>11. CASE Embeds
  BY <1>1, <1>11 DEF Embeds
<1>12. CASE ListModels
  BY <1>1, <1>12 DEF ListModels
<1>13. CASE TranslationThrows
  BY <1>1, <1>13 DEF TranslationThrows
<1> QED
  BY <1>2, <1>3, <1>4, <1>5, <1>6, <1>7, <1>8, <1>9, <1>10, <1>11, <1>12, <1>13 DEF CallNext

\* Whatever a client sends, with any finite schema, its references cyclic or
\* not: if the translation does not throw, the turns it sends on alternate and
\* are left out only when no message has anything to say in one, and Gemini gets
\* no rejected schema key, no null, and all of the schema that its root reaches
\* through keys that no sibling of a reference takes the place of.
THEOREM RequestsAreAccepted == ProviderSpec => []UpstreamAccepts
<1>1. ProviderInit => SentInv /\ SchemaInv
  BY DEF ProviderInit, Calling, Consuming, CallInit, SentInv, SchemaInv, Translated, Sent
<1>2. SentInv /\ SchemaInv /\ [ProviderNext]_providerVars => SentInv' /\ SchemaInv'
  <2>1. [ProviderNext]_providerVars => [CallNext]_callVars
    BY DEF ProviderNext, providerVars
  <2> QED
    BY <2>1, SentKept, SchemaKept
<1>3. SentInv /\ SchemaInv => SchemaAccepted
  <2> SUFFICES ASSUME SentInv, SchemaInv, provider = "google", Sent("chat")
               PROVE  /\ \A f \in sent.fields : f[2] # "null"
                      /\ request.schema # Null =>
                           /\ \A s \in sent.schema : s[2] \cap Rejected = {}
                           /\ Reached(request.schema) \subseteq {s[1] : s \in sent.schema}
    BY DEF SchemaAccepted
  <2>1. request \in Requests
    BY RequestsAssumption DEF SentInv, Sent
  <2>2. \A f \in sent.fields : f[2] # "null"
    BY NoNull DEF SchemaInv
  <2>3. CASE request.schema # Null
    <3>1. IsTree(request.schema) /\ sent.schema = sanitizeSchema(request.schema)
      BY <2>1, <2>3, RequestsAssumption DEF SchemaInv
    <3> QED
      BY <2>2, <3>1, SanitizedIs
  <2> QED
    BY <2>2, <2>3
<1>4. SentInv /\ SchemaInv => TurnsAlternate
  BY SentAccepted
<1> QED
  BY <1>1, <1>2, <1>3, <1>4, PTL DEF ProviderSpec, UpstreamAccepts

-----------------------------------------------------------------------------
(* The captured answer                                                       *)

\* A capture is a sequence of blocks within the cap while it reads and when it
\* is whole; it is whole only when the generator has returned; and what is
\* stored is all of it.
CaptureInv ==
  /\ DOMAIN copy = {"state", "blocks"}
  /\ copy.state \in {"reading", "whole"} => IsSeq(copy.blocks) /\ Len(copy.blocks) <= MaxCached
  /\ copy.state = "whole" => gen.state = "returned"
  /\ stored # Null => copy.state = "whole" /\ stored.chunks = FlattenSeq(copy.blocks)

\* One more element makes a sequence one longer.
LEMMA AppendIsSeq ==
  ASSUME NEW s, IsSeq(s), NEW e
  PROVE  IsSeq(Append(s, e)) /\ Len(Append(s, e)) = Len(s) + 1
<1> DEFINE U == ToSet(s) \cup {e}
           a == Append(s, e)
<1>1. s \in Seq(U)
  BY DEF IsSeq
<1>2. a \in Seq(U) /\ Len(a) = Len(s) + 1
  BY <1>1
<1> HIDE DEF a
<1>3. Len(a) \in Nat /\ a = [i \in 1 .. Len(a) |-> a[i]]
  BY <1>2
<1> QED
  BY <1>2, <1>3, MappedIsSeq DEF a

\* One more block is captured, or the capture is given up.
LEMMA CapturedKeeps ==
  ASSUME CaptureInv, copy.state # "whole", NEW block
  PROVE  /\ DOMAIN Captured(block) = {"state", "blocks"}
         /\ Captured(block).state # "whole"
         /\ Captured(block).state = "reading" =>
              IsSeq(Captured(block).blocks) /\ Len(Captured(block).blocks) <= MaxCached
<1>1. CASE copy.state # "reading"
  BY <1>1 DEF Captured, CaptureInv
<1>2. CASE copy.state = "reading" /\ Len(copy.blocks) = MaxCached
  BY <1>2 DEF Captured
<1>3. CASE copy.state = "reading" /\ Len(copy.blocks) # MaxCached
  <2>1. /\ Captured(block) = [copy EXCEPT !.blocks = Append(copy.blocks, block)]
        /\ DOMAIN copy = {"state", "blocks"}
        /\ IsSeq(copy.blocks) /\ Len(copy.blocks) <= MaxCached /\ Len(copy.blocks) \in Nat
    BY <1>3 DEF Captured, CaptureInv, IsSeq
  <2>2. Len(copy.blocks) + 1 <= MaxCached
    BY <1>3, <2>1, StreamsAssumption
  <2>3. IsSeq(Append(copy.blocks, block)) /\ Len(Append(copy.blocks, block)) = Len(copy.blocks) + 1
    BY <2>1, AppendIsSeq
  <2>4. /\ DOMAIN Captured(block) = {"state", "blocks"} /\ Captured(block).state = "reading"
        /\ Captured(block).blocks = Append(copy.blocks, block)
    BY <1>3, <2>1
  <2> QED
    BY <2>2, <2>3, <2>4
<1> QED
  BY <1>1, <1>2, <1>3

\* CaptureInv is inductive, given what UsageInv says of the generator.
LEMMA CaptureKept == ASSUME UsageInv, CaptureInv, [StreamNext]_streamVars PROVE CaptureInv'
<1>1. CASE UNCHANGED <<copy, stored>> /\ (gen.state \in {"running", "returning"} \/ gen' = gen)
  <2>1. copy.state = "whole" => gen' = gen
    BY <1>1 DEF CaptureInv
  <2> QED
    BY <1>1, <2>1 DEF CaptureInv
<1>2. CASE UpstreamSays \/ UpstreamEnds \/ CancelSource
  BY <1>1, <1>2 DEF UpstreamSays, UpstreamEnds, CancelSource, Running, flow, after
<1>3. CASE Pipe \/ Deliver \/ BodyEnds \/ HangUp \/ CancelBody \/ Replay \/ UNCHANGED streamVars
  BY <1>1, <1>3 DEF Pipe, Deliver, BodyEnds, HangUp, CancelBody, Replay, streamVars, flow, after
<1>4. CASE Yield
  <2>1. gen.state \in {"running", "returning"} /\ stored' = stored
    BY <1>4 DEF Yield, after
  <2>2. copy.state # "whole" /\ stored = Null
    BY <2>1 DEF CaptureInv
  <2>3. PICK block : copy' = Captured(block)
    BY <1>4 DEF Yield
  <2> QED
    BY <2>1, <2>2, <2>3, CapturedKeeps DEF CaptureInv
<1>5. CASE Returns
  <2>1. gen.state = "returning" /\ gen'.state = "returned"
    BY <1>5 DEF Returns, UsageInv, Seen, GenFields
  <2>2. copy.state # "whole"
    BY <2>1 DEF CaptureInv
  <2>3. /\ DOMAIN Closing = {"state", "blocks"} /\ Closing.state # "whole"
        /\ Closing.state = "reading" => IsSeq(Closing.blocks) /\ Len(Closing.blocks) <= MaxCached
    BY <2>2, CapturedKeeps DEF Closing, CaptureInv
  <2>4. /\ copy' = IF Closing.state = "reading" THEN [Closing EXCEPT !.state = "whole"] ELSE Closing
        /\ \/ stored' = Null
           \/ Closing.state = "reading" /\ stored'.chunks = FlattenSeq(Closing.blocks)
    BY <1>5 DEF Returns
  <2> HIDE DEF Closing
  <2>5. CASE Closing.state = "reading"
    <3>1. DOMAIN copy' = {"state", "blocks"} /\ copy'.state = "whole" /\ copy'.blocks = Closing.blocks
      BY <2>3, <2>4, <2>5
    <3> QED
      BY <2>1, <2>3, <2>4, <2>5, <3>1 DEF CaptureInv
  <2>6. CASE Closing.state # "reading"
    BY <2>3, <2>4, <2>6 DEF CaptureInv
  <2> QED
    BY <2>5, <2>6
<1>6. CASE Throws
  <2>1. gen.state = "running" /\ stored' = stored
    BY <1>6 DEF Throws, Running
  <2>2. copy.state # "whole" /\ stored = Null
    BY <2>1 DEF CaptureInv
  <2>3. copy' = IF copy.state = "reading" THEN [state |-> "broken", blocks |-> <<>>] ELSE copy
    BY <1>6 DEF Throws
  <2> QED
    BY <2>1, <2>2, <2>3 DEF CaptureInv
<1> QED
  BY <1>2, <1>3, <1>4, <1>5, <1>6 DEF StreamNext

\* StoredEntire (routes/chat.ts, teeForCache): an answer that broke off, was
\* cancelled or outgrew the cap is never stored, whatever the cap; what is
\* stored is all that was captured.
THEOREM OnlyEntireIsStored == ProviderSpec => []StoredEntire
<1>1. ProviderInit => UsageInv /\ CaptureInv
  <2>1. StreamInit => CaptureInv
    BY StreamsAssumption DEF StreamInit, CaptureInv, IsSeq, ToSet
  <2> QED
    BY <2>1, UsageStarts DEF ProviderInit, Calling, Consuming
<1>2. ProviderNext => [StreamNext]_streamVars
  BY DEF ProviderNext
<1>3. UsageInv /\ CaptureInv /\ [ProviderNext]_providerVars => (UsageInv /\ CaptureInv)'
  BY <1>2, UsageKept, CaptureKept DEF providerVars
<1>4. CaptureInv => StoredEntire
  BY DEF CaptureInv, StoredEntire
<1> QED
  BY <1>1, <1>3, <1>4, PTL DEF ProviderSpec

-----------------------------------------------------------------------------
(* The row of a stream and what its client has got                           *)

\* What is kept of a sequence has no more texts than the sequence.
LEMMA KeptTexts ==
  ASSUME NEW n \in Nat, NEW s, DOMAIN s = 1 .. n, NEW I \in SUBSET (1 .. n), NEW r,
         DOMAIN r = DOMAIN Kept(s, I), \A k \in DOMAIN r : r[k].text = Kept(s, I)[k].text
  PROVE  Texts(r) <= Texts(s) /\ Texts(r) \in Nat /\ Texts(s) \in Nat
<1> DEFINE R == {k \in DOMAIN r : r[k].text = 1}
           S == {i \in DOMAIN s : s[i].text = 1}
           f == [k \in R |-> Place(I, k)]
<1>1. DOMAIN r = 1 .. Cardinality(I) /\ \A k \in DOMAIN r : r[k].text = s[Place(I, k)].text
  BY DEF Kept
<1>2. ASSUME NEW k \in R PROVE Place(I, k) \in S
  <2>1. k \in 1 .. Cardinality(I) /\ s[Place(I, k)].text = 1
    BY <1>1
  <2>2. Place(I, k) \in I
    BY <2>1, PlaceOf
  <2> QED
    BY <2>1, <2>2
<1>3. ASSUME NEW k \in R, NEW l \in R, Place(I, k) = Place(I, l) PROVE k = l
  <2>1. k \in 1 .. Cardinality(I) /\ l \in 1 .. Cardinality(I)
    BY <1>1
  <2>2. /\ Cardinality({j \in I : j <= Place(I, k)}) = k
        /\ Cardinality({j \in I : j <= Place(I, l)}) = l
    BY <2>1, PlaceOf
  <2> QED
    BY <1>3, <2>2
<1>4. f \in Injection(R, S)
  BY <1>2, <1>3 DEF Injection, IsInjective
<1>5. IsFiniteSet(S) /\ Cardinality(S) \in Nat
  <2>1. S \subseteq 1 .. n
    OBVIOUS
  <2> HIDE DEF S
  <2> QED
    BY <2>1, PlacesCounted
<1> HIDE DEF R, S, f
<1>6. IsFiniteSet(R) /\ Cardinality(R) <= Cardinality(S)
  BY <1>4, <1>5, FS_Injection
<1> QED
  BY <1>5, <1>6, FS_CardinalityType DEF Texts, R, S

\* The texts of what has been got and of what comes next add up.
LEMMA TextsAdd ==
  ASSUME NEW s, IsSeq(s), NEW t, IsSeq(t)
  PROVE  /\ Texts(s \o t) = Texts(s) + Texts(t)
         /\ Texts(s) \in Nat /\ Texts(t) \in Nat
<1> DEFINE U == ToSet(s) \cup ToSet(t)
           m == Len(s)
           n == Len(t)
           st == s \o t
           A == {i \in 1 .. m : s[i].text = 1}
           B == {i \in 1 .. n : t[i].text = 1}
           C == {i \in DOMAIN st : st[i].text = 1}
<1>1. s \in Seq(U) /\ t \in Seq(U)
  BY DEF IsSeq
<1>2. /\ m \in Nat /\ n \in Nat /\ DOMAIN s = 1 .. m /\ DOMAIN t = 1 .. n
      /\ DOMAIN st = 1 .. m + n
      /\ \A i \in 1 .. m + n : st[i] = IF i <= m THEN s[i] ELSE t[i - m]
  BY <1>1, ConcatProperties
<1> HIDE DEF st
<1>3. Beside(m, n, A, B, C)
  <2>1. ASSUME NEW i \in 1 .. n PROVE m + i \in DOMAIN st /\ st[m + i] = t[i]
    <3>1. m + i \in 1 .. m + n /\ ~(m + i <= m) /\ (m + i) - m = i
      BY <1>2
    <3> QED
      BY <1>2, <3>1
  <2>2. \A i \in 1 .. m : i \in DOMAIN st /\ st[i] = s[i]
    BY <1>2
  <2> QED
    BY <1>2, <2>1, <2>2 DEF Beside
<1>4. m \in Nat /\ n \in Nat /\ A \in SUBSET (1 .. m) /\ B \in SUBSET (1 .. n)
  BY <1>2
<1>5. Texts(s) = Cardinality(A) /\ Texts(t) = Cardinality(B)
  BY <1>2 DEF Texts
<1> HIDE DEF A, B, C, m, n
<1>6. Cardinality(C) = Cardinality(A) + Cardinality(B)
  BY <1>3, <1>4, SideBySide
<1>7. Cardinality(A) \in Nat /\ Cardinality(B) \in Nat
  BY <1>4, PlacesCounted
<1> QED
  BY <1>5, <1>6, <1>7 DEF Texts, C, st

\* A redacted block is a sequence, with no more texts than the block.
LEMMA RedactedTexts ==
  ASSUME NEW block, IsSeq(block)
  PROVE  /\ IsSeq(redacted(block)) /\ Texts(redacted(block)) <= Texts(block)
         /\ Texts(redacted(block)) \in Nat /\ Texts(block) \in Nat
<1> DEFINE I == {i \in DOMAIN block : block[i].choices \/ block[i].done}
           r == redacted(block)
           n == Len(block)
<1>1. n \in Nat /\ DOMAIN block = 1 .. n
  BY DEF IsSeq
<1>2. I \in SUBSET (1 .. n)
  BY <1>1
<1>3. /\ DOMAIN r = DOMAIN Kept(block, I)
      /\ \A k \in DOMAIN r : r[k].text = Kept(block, I)[k].text
      /\ r = [k \in DOMAIN Kept(block, I) |-> r[k]]
  BY DEF redacted, redactChatCompletionChunk
<1> HIDE DEF r, I
<1>4. Texts(r) <= Texts(block) /\ Texts(r) \in Nat /\ Texts(block) \in Nat
  BY <1>1, <1>2, <1>3, KeptTexts
<1>5. Cardinality(I) \in Nat /\ DOMAIN r = 1 .. Cardinality(I)
  BY <1>1, <1>2, <1>3, PlacesCounted DEF Kept
<1>6. IsSeq(r)
  BY <1>3, <1>5, MappedIsSeq
<1> QED
  BY <1>4, <1>6 DEF r

\* A block with at most m texts.
FewTexts(b, m) == IsSeq(b) /\ Texts(b) \in 0 .. m

\* A queue with room for one block.
Carries(q, m) == q = <<>> \/ (q = <<q[1]>> /\ FewTexts(q[1], m))

\* What of the block in the redaction the client will get.
Pending == IF red = <<>> THEN 0 ELSE Texts(redacted(red[1]))

TailTypes ==
  /\ copy.state = "off" /\ stored = Null
  /\ Carries(serve, BlockTexts) /\ Carries(red, BlockTexts)
  /\ source = "openai" => Carries(gen.out, BlockTexts)
  /\ DOMAIN client = {"state", "got", "replay"} /\ IsSeq(client.got)
  /\ client.state = "done" => gen.state = "returned"

\* The provider's stream has returned with nothing before it in its queue, so
\* the row misses what is in the redaction and no more.
TailRow ==
  gen.state = "returned" =>
    /\ serve # <<>> => Texts(serve[1]) = 0
    /\ row \in Nat /\ Texts(client.got) >= row /\ Texts(client.got) + Pending <= row + BlockTexts

TailInv == ~opts.caching => TailTypes /\ TailRow

\* The source of a stream does not change, nor how much a block of it may hold.
LEMMA BlockHolds ==
  /\ BlockTexts \in Nat /\ 1 <= BlockTexts /\ (source = "openai" => BlockTexts = ReadTexts)
  /\ source' = source => BlockTexts' = BlockTexts
BY StreamsAssumption DEF BlockTexts

\* A single chunk is a block with at most one text.
LEMMA OneChunk ==
  ASSUME NEW c, NEW m \in Nat, 1 <= m
  PROVE  FewTexts(<<c>>, m) /\ (c.text # 1 => Texts(<<c>>) = 0)
<1> DEFINE S == {i \in DOMAIN <<c>> : <<c>>[i].text = 1}
<1>1. DOMAIN <<c>> = {1} /\ <<c>>[1] = c /\ IsSeq(<<c>>)
  BY DEF IsSeq, ToSet
<1>2. S = IF c.text = 1 THEN {1} ELSE {}
  <2>1. ASSUME NEW i PROVE i \in S <=> i = 1 /\ c.text = 1
    BY <1>1
  <2> HIDE DEF S
  <2> QED
    BY <2>1
<1>3. Texts(<<c>>) = Cardinality(S)
  BY DEF Texts
<1> HIDE DEF S
<1>4. Cardinality({}) = 0 /\ Cardinality({1}) = 1
  BY FS_EmptySet, FS_Singleton
<1>5. 0 \in 0 .. m /\ 1 \in 0 .. m
  OBVIOUS
<1> QED
  BY <1>1, <1>2, <1>3, <1>4, <1>5 DEF FewTexts

\* A run of texts has as many as it is long.
LEMMA RunTexts ==
  ASSUME NEW n \in Nat
  PROVE  IsSeq(TextRun(n)) /\ Texts(TextRun(n)) = n /\ TextRun(n) \in Seq({TextChunk})
<1> DEFINE run == TextRun(n)
<1>1. run = [i \in 1 .. n |-> run[i]] /\ DOMAIN run = 1 .. n /\ \A i \in 1 .. n : run[i] = TextChunk
  BY DEF TextRun
<1>2. TextChunk.text = 1
  BY DEF TextChunk, Chunk
<1>3. run \in [1 .. n -> {TextChunk}]
  BY DEF TextRun
<1> HIDE DEF run
<1>4. IsSeq(run)
  BY <1>1, MappedIsSeq
<1>5. run \in Seq({TextChunk})
  BY <1>3
<1>6. {i \in DOMAIN run : run[i].text = 1} = 1 .. n
  BY <1>1, <1>2
<1>7. Cardinality(1 .. n) = n
  BY FS_Interval
<1> QED
  BY <1>4, <1>5, <1>6, <1>7 DEF Texts, run

\* Texts with one more chunk, which has none.
LEMMA RunEnded ==
  ASSUME NEW s, IsSeq(s), NEW c, c.text # 1, NEW m \in Nat, Texts(s) \in 0 .. m
  PROVE  FewTexts(Append(s, c), m)
<1> DEFINE U == ToSet(s) \cup {c}
           one == <<c>>
<1>1. s \in Seq(U) /\ c \in U
  BY DEF IsSeq
<1> HIDE DEF U
<1>2. Append(s, c) = s \o one
  BY <1>1
<1>3. IsSeq(one) /\ Texts(one) = 0
  <2>1. 1 \in Nat /\ 1 <= 1
    OBVIOUS
  <2> QED
    BY <2>1, OneChunk DEF FewTexts
<1> HIDE DEF one
<1>4. Texts(s \o one) = Texts(s) + Texts(one)
  BY <1>3, TextsAdd
<1>5. IsSeq(Append(s, c))
  BY AppendIsSeq
<1>6. Texts(s) + 0 = Texts(s)
  OBVIOUS
<1> QED
  BY <1>2, <1>3, <1>4, <1>5, <1>6 DEF FewTexts

\* One element after another.
LEMMA AppendedIs == ASSUME NEW a, NEW b PROVE Append(<<a>>, b) = <<a, b>>
<1> DEFINE S == {a, b}
           s == <<a>>
           q == Append(s, b)
           r == <<a, b>>
<1>1. s \in Seq(S) /\ r \in Seq(S) /\ b \in S
  OBVIOUS
<1>2. Len(s) = 1 /\ Len(r) = 2 /\ s[1] = a /\ r[1] = a /\ r[2] = b
  OBVIOUS
<1> HIDE DEF s, r, S
<1>3. q \in Seq(S) /\ Len(q) = Len(s) + 1 /\ q[Len(s) + 1] = b /\ \A i \in 1 .. Len(s) : q[i] = s[i]
  BY <1>1
<1> HIDE DEF q
<1>4. q = r
  <2>1. \A i \in 1 .. Len(q) : q[i] = r[i]
    BY <1>2, <1>3
  <2> QED
    BY <1>1, <1>2, <1>3, <2>1, SeqEqual
<1> QED
  BY <1>4 DEF q, r, s

\* A read of a passed-through stream has at most so many texts.
LEMMA ReadHasFewTexts == ASSUME NEW x \in OpenAIReads PROVE FewTexts(x.event, ReadTexts)
<1> DEFINE count == UsageChunk(Tokens(1, 1))
           m == ReadTexts
<1>1. \/ \E c : x.event = <<c>>
      \/ x.event = <<count, DoneChunk>>
      \/ \E n \in 1 .. m : x.event = TextRun(n)
      \/ \E n \in 0 .. m : x.event = Append(TextRun(n), FinishChunk("stop"))
  BY DEF OpenAIReads, Event
<1>2. FinishChunk("stop").text # 1 /\ DoneChunk.text # 1 /\ count.text # 1
  BY DEF FinishChunk, DoneChunk, UsageChunk, Chunk
<1> HIDE DEF count
<1>3. m \in Nat /\ 1 <= m /\ 0 \in 0 .. m
  BY ReadRuns
<1>4. \A n \in 0 .. m : n \in Nat /\ n \in 0 .. m
  BY <1>3
<1>5. \A n \in 1 .. m : n \in Nat /\ n \in 0 .. m
  BY <1>3
<1> HIDE DEF m
<1>6. ASSUME NEW c PROVE FewTexts(<<c>>, m) /\ (c.text # 1 => Texts(<<c>>) = 0)
  BY <1>3, OneChunk
<1>7. FewTexts(<<count, DoneChunk>>, m)
  <2> DEFINE one == <<count>>
             last == DoneChunk
  <2>1. IsSeq(one) /\ Texts(one) \in 0 .. m
    BY <1>2, <1>6 DEF FewTexts
  <2>2. last.text # 1
    BY <1>2
  <2> HIDE DEF one, last
  <2>3. FewTexts(Append(one, last), m)
    BY <1>3, <2>1, <2>2, RunEnded
  <2>4. Append(<<count>>, last) = <<count, last>>
    BY AppendedIs
  <2>5. Append(one, last) = <<count, last>>
    BY <2>4 DEF one
  <2> QED
    BY <2>3, <2>5 DEF last
<1>8. ASSUME NEW n \in Nat, n \in 0 .. m
      PROVE  FewTexts(TextRun(n), m) /\ FewTexts(Append(TextRun(n), FinishChunk("stop")), m)
  <2>1. IsSeq(TextRun(n)) /\ Texts(TextRun(n)) \in 0 .. m
    BY <1>8, RunTexts
  <2> QED
    BY <1>2, <1>3, <2>1, RunEnded DEF FewTexts
<1> QED
  BY <1>1, <1>4, <1>5, <1>6, <1>7, <1>8 DEF m

\* A generator that is told something has not returned.
LEMMA SaysGoesOn ==
  ASSUME DOMAIN gen = GenFields, gen.state = "running", NEW e
  PROVE  /\ translate(gen, e).state # "returned" /\ chunks(gen, e).state # "returned"
         /\ noteMessage(gen, e).state # "returned" /\ noteMessage(gen, e).out = <<e>>
<1>1. \A blocks : /\ DOMAIN flushEmptyToolArgs(gen, blocks) = GenFields
                  /\ flushEmptyToolArgs(gen, blocks).state = "running"
  BY DEF flushEmptyToolArgs, GenFields
<1>2. translate(gen, e).state # "returned"
  BY <1>1 DEF translate, MessageStart, BlockStart, BlockDelta, MessageDelta, MessageStop,
              StreamError, GenFields
<1>3. DOMAIN Noted(gen, e) = GenFields /\ Noted(gen, e).state = "running"
  BY DEF Noted, GenFields
<1>4. chunks(gen, e).state # "returned"
  BY <1>3 DEF chunks, GenFields
<1>5. noteMessage(gen, e).state # "returned" /\ noteMessage(gen, e).out = <<e>>
  BY DEF noteMessage, GenFields
<1> QED
  BY <1>2, <1>4, <1>5

\* Nothing is under way before the stream begins.
LEMMA TailStarts == StreamInit => TailInv
<1>1. IsSeq(<<>>)
  BY DEF IsSeq, ToSet
<1> QED
  BY <1>1 DEF StreamInit, TailInv, TailTypes, TailRow, Carries

\* What the upstream says becomes a block with few texts.
LEMMA TailSays == ASSUME UsageInv, TailInv, ~opts.caching, UpstreamSays PROVE TailInv'
<1>1. /\ UNCHANGED <<source, opts, serve, red, copy, client, usage, row, stored>>
      /\ gen.state = "running" /\ DOMAIN gen = GenFields /\ source \in Sources
  BY DEF UpstreamSays, Running, flow, after, UsageInv, Seen
<1>2. PICK x \in Events :
        gen' = CASE source = "anthropic" -> translate(gen, x.event)
                 [] source = "google"    -> chunks(gen, x.event)
                 [] source = "openai"    -> noteMessage(gen, x.event)
  BY DEF UpstreamSays
<1>3. gen'.state # "returned" /\ (source = "openai" => gen'.out = <<x.event>>)
  BY <1>1, <1>2, SaysGoesOn DEF Sources
<1>4. source = "openai" => Carries(gen'.out, BlockTexts)
  <2>1. source = "openai" => FewTexts(x.event, BlockTexts)
    BY ReadHasFewTexts, BlockHolds DEF Events
  <2> QED
    BY <1>3, <2>1 DEF Carries
<1> QED
  BY <1>1, <1>3, <1>4, BlockHolds DEF TailInv, TailTypes, TailRow

\* So is what is yielded, to a queue that has room for it.
LEMMA TailYields == ASSUME UsageInv, TailInv, ~opts.caching, Yield PROVE TailInv'
<1> DEFINE block == IF source = "openai" THEN Head(gen.out) ELSE <<Head(gen.out)>>
<1>1. /\ UNCHANGED <<source, opts, red, client, row, stored>>
      /\ gen.state \in {"running", "returning"} /\ gen.out # <<>>
      /\ TailTypes /\ DOMAIN gen = GenFields /\ Wanted
  BY DEF Yield, after, UsageInv, Seen, TailInv
<1>2. serve = <<>> /\ client.state # "gone" /\ copy.state = "off"
  BY <1>1 DEF Wanted, TailTypes
<1>3. serve' = <<block>> /\ copy' = copy
  BY <1>2 DEF Yield, Enqueued, Captured
<1>4. gen'.state = gen.state /\ gen'.out = Tail(gen.out)
  BY <1>1 DEF Yield, GenFields
<1>5. CASE source = "openai"
  <2>1. PICK b : gen.out = <<b>> /\ FewTexts(b, BlockTexts)
    BY <1>1, <1>5 DEF TailTypes, Carries
  <2>2. block = b /\ Tail(gen.out) = <<>>
    BY <1>5, <2>1
  <2> HIDE DEF block
  <2>3. Carries(serve', BlockTexts) /\ Carries(gen'.out, BlockTexts)
    BY <1>3, <1>4, <2>1, <2>2 DEF Carries
  <2> QED
    BY <1>1, <1>3, <1>4, <2>3, BlockHolds DEF TailInv, TailTypes, TailRow
<1>6. CASE source # "openai"
  <2>1. FewTexts(block, BlockTexts)
    BY <1>6, OneChunk, BlockHolds
  <2> HIDE DEF block
  <2>2. Carries(serve', BlockTexts)
    BY <1>3, <2>1 DEF Carries
  <2> QED
    BY <1>1, <1>3, <1>4, <1>6, <2>2, BlockHolds DEF TailInv, TailTypes, TailRow
<1> QED
  BY <1>5, <1>6

\* Of what is in the redaction the client gets no more texts than a block has.
LEMMA PendingBounds == ASSUME TailTypes PROVE Pending \in 0 .. BlockTexts
<1>1. CASE red = <<>>
  BY <1>1, BlockHolds DEF Pending
<1>2. CASE red # <<>>
  <2>1. FewTexts(red[1], BlockTexts)
    BY <1>2 DEF TailTypes, Carries
  <2>2. /\ Texts(redacted(red[1])) \in Nat /\ Texts(redacted(red[1])) <= Texts(red[1])
        /\ Texts(red[1]) \in 0 .. BlockTexts
    BY <2>1, RedactedTexts DEF FewTexts
  <2>3. Texts(redacted(red[1])) \in 0 .. BlockTexts
    BY <2>2, BlockHolds
  <2> QED
    BY <1>2, <2>3 DEF Pending
<1> QED
  BY <1>1, <1>2

\* The row is written when the queue is empty: it misses what is pending.
LEMMA TailReturns == ASSUME UsageInv, TailInv, ~opts.caching, Returns PROVE TailInv'
<1>1. /\ UNCHANGED <<source, opts, red, client>> /\ gen.state = "returning" /\ gen.out = <<>>
      /\ TailTypes /\ DOMAIN gen = GenFields /\ Wanted
  BY DEF Returns, UsageInv, Seen, TailInv
<1>2. serve = <<>> /\ client.state # "gone" /\ copy.state = "off"
  BY <1>1 DEF Wanted, TailTypes
<1>3. row' = Texts(client.got)
  BY <1>1 DEF Returns, Resolve, UsageInv, Settled
<1>4. gen'.state = "returned" /\ gen'.out = <<>>
  BY <1>1 DEF Returns, GenFields
<1>5. copy' = copy /\ stored' = Null
  <2>1. Closing = copy
    BY <1>2 DEF Closing, Captured
  <2> QED
    BY <1>2, <2>1 DEF Returns
<1>6. serve' = <<>> \/ serve' = <<<<DoneChunk>>>>
  BY <1>2 DEF Returns, Enqueued
<1>7. Carries(serve', BlockTexts) /\ (serve' # <<>> => Texts(serve'[1]) = 0)
  <2>1. DoneChunk.text # 1
    BY DEF DoneChunk, Chunk
  <2>2. FewTexts(<<DoneChunk>>, BlockTexts) /\ Texts(<<DoneChunk>>) = 0
    BY <2>1, OneChunk, BlockHolds
  <2> QED
    BY <1>6, <2>2 DEF Carries
<1>8. Carries(gen'.out, BlockTexts)
  BY <1>4 DEF Carries
<1>9. TailTypes'
  BY <1>1, <1>4, <1>5, <1>7, <1>8, BlockHolds DEF TailTypes
<1>10. Texts(client.got) \in Nat /\ Pending \in 0 .. BlockTexts /\ Pending' = Pending
  BY <1>1, TextsAdd, PendingBounds DEF TailTypes, Pending
<1> QED
  BY <1>1, <1>3, <1>7, <1>9, <1>10, BlockHolds DEF TailInv, TailRow

\* A stream that is cut off does not return.
LEMMA TailBreaks ==
  ASSUME UsageInv, TailInv, ~opts.caching, UpstreamEnds \/ Throws \/ CancelSource
  PROVE  TailInv'
<1>1. /\ UNCHANGED <<source, opts, red, client, copy, stored>>
      /\ gen.state \in {"running", "returning"} /\ TailTypes /\ DOMAIN gen = GenFields
  BY DEF UpstreamEnds, Throws, CancelSource, Running, flow, after, UsageInv, Seen, TailInv, TailTypes
<1>2. gen'.state # "returned"
  BY <1>1 DEF UpstreamEnds, Epilogue, Throws, CancelSource, GenFields
<1>3. Carries(serve', BlockTexts)
  BY <1>1 DEF UpstreamEnds, Throws, CancelSource, flow, TailTypes, Carries
<1>4. source = "openai" => Carries(gen'.out, BlockTexts)
  BY <1>1 DEF UpstreamEnds, Epilogue, Throws, CancelSource, Running, GenFields, Carries
<1> QED
  BY <1>1, <1>2, <1>3, <1>4, BlockHolds DEF TailInv, TailTypes, TailRow

\* What the redaction takes from the queue of a stream that has returned has
\* no text.
LEMMA TailPipes == ASSUME TailInv, ~opts.caching, Pipe PROVE TailInv'
<1>1. /\ UNCHANGED <<source, opts, gen, copy, client, row, stored>>
      /\ TailTypes /\ TailRow /\ serve # <<>> /\ red = <<>>
      /\ red' = <<Head(serve)>> /\ serve' = Tail(serve)
  BY DEF Pipe, after, TailInv
<1>2. serve = <<serve[1]>> /\ FewTexts(serve[1], BlockTexts)
  BY <1>1 DEF TailTypes, Carries
<1>3. red' = <<serve[1]>> /\ serve' = <<>>
  BY <1>1, <1>2
<1>4. Carries(serve', BlockTexts) /\ Carries(red', BlockTexts)
  BY <1>2, <1>3 DEF Carries
<1>5. TailTypes'
  BY <1>1, <1>4, BlockHolds DEF TailTypes
<1>6. Pending = 0 /\ Pending' = Texts(redacted(serve[1]))
  BY <1>1, <1>3 DEF Pending
<1>7. Texts(redacted(serve[1])) \in Nat /\ Texts(redacted(serve[1])) <= Texts(serve[1])
  BY <1>2, RedactedTexts DEF FewTexts
<1>8. Texts(serve[1]) = 0 => Pending' = Pending
  BY <1>6, <1>7
<1>9. TailRow'
  BY <1>1, <1>3, <1>8, BlockHolds DEF TailRow
<1> QED
  BY <1>1, <1>5, <1>9 DEF TailInv

\* What was pending is got.
LEMMA TailDelivers == ASSUME TailInv, ~opts.caching, Deliver PROVE TailInv'
<1> DEFINE block == redacted(red[1])
<1>1. /\ UNCHANGED <<source, opts, gen, serve, copy, row, stored>>
      /\ TailTypes /\ TailRow /\ red # <<>> /\ red' = <<>> /\ client.state = "reading"
      /\ client' = [client EXCEPT !.got = @ \o block]
  BY DEF Deliver, after, TailInv
<1>2. FewTexts(red[1], BlockTexts)
  BY <1>1 DEF TailTypes, Carries
<1>3. IsSeq(block) /\ Pending = Texts(block) /\ Pending' = 0
  BY <1>1, <1>2, RedactedTexts DEF FewTexts, Pending
<1> HIDE DEF block
<1>4. DOMAIN client = {"state", "got", "replay"} /\ IsSeq(client.got)
  BY <1>1 DEF TailTypes
<1>5. /\ DOMAIN client' = {"state", "got", "replay"} /\ client'.got = client.got \o block
      /\ client'.state = "reading"
  BY <1>1, <1>4
<1>6. IsSeq(client'.got) /\ Texts(client'.got) = Texts(client.got) + Texts(block)
  BY <1>3, <1>4, <1>5, ConcatIsSeq, TextsAdd
<1>7. Texts(client.got) \in Nat /\ Texts(block) \in Nat
  BY <1>3, <1>4, TextsAdd
<1>8. Carries(red', BlockTexts)
  BY <1>1 DEF Carries
<1>9. TailTypes'
  BY <1>1, <1>5, <1>6, <1>8, BlockHolds DEF TailTypes
<1>10. TailRow'
  BY <1>1, <1>3, <1>6, <1>7, BlockHolds DEF TailRow
<1> QED
  BY <1>1, <1>9, <1>10 DEF TailInv

\* A client that stops reading gets nothing more; it is done when the stream
\* has returned.
LEMMA TailStops ==
  ASSUME TailInv, ~opts.caching, BodyEnds \/ HangUp \/ CancelBody
  PROVE  TailInv'
<1>1. /\ UNCHANGED <<source, opts, gen, copy, row, stored>> /\ TailTypes /\ TailRow
      /\ \/ UNCHANGED <<serve, red>>
         \/ serve' = <<>> /\ red' = <<>>
  BY DEF BodyEnds, HangUp, CancelBody, after, TailInv
<1>2. /\ DOMAIN client' = {"state", "got", "replay"} /\ client'.got = client.got
      /\ client'.state = "done" => gen.state = "returned"
  BY <1>1 DEF BodyEnds, HangUp, CancelBody, TailTypes
<1>3. Carries(serve', BlockTexts) /\ Carries(red', BlockTexts)
  BY <1>1 DEF TailTypes, Carries
<1>4. TailTypes'
  BY <1>1, <1>2, <1>3, BlockHolds DEF TailTypes
<1>5. Pending \in 0 .. BlockTexts /\ (Pending' = Pending \/ Pending' = 0)
  BY <1>1, PendingBounds DEF Pending
<1>6. Texts(client.got) \in Nat
  BY <1>1, TextsAdd DEF TailTypes
<1>7. TailRow'
  BY <1>1, <1>2, <1>5, <1>6, BlockHolds DEF TailRow
<1> QED
  BY <1>1, <1>4, <1>7 DEF TailInv

\* TailInv is inductive, given what UsageInv says of the generator; an answer
\* that is not captured is not replayed.
LEMMA TailKept == ASSUME UsageInv, TailInv, [StreamNext]_streamVars PROVE TailInv'
<1>1. CASE opts.caching
  <2>1. opts' = opts
    BY DEF StreamNext, UpstreamSays, UpstreamEnds, Yield, Returns, Throws, Pipe, Deliver,
           BodyEnds, HangUp, CancelBody, CancelSource, Replay, streamVars
  <2> QED
    BY <1>1, <2>1 DEF TailInv
<1>2. CASE ~opts.caching
  <2>1. ~Replay
    BY <1>2 DEF Replay, TailInv, TailTypes
  <2>2. CASE UNCHANGED streamVars
    <3>1. UNCHANGED <<source, opts, gen, serve, red, copy, client, row, stored>>
      BY <2>2 DEF streamVars, flow, after
    <3> QED
      BY <3>1 DEF TailInv, TailTypes, TailRow, Carries, Pending, BlockTexts
  <2> QED
    BY <1>2, <2>1, <2>2, TailSays, TailYields, TailReturns, TailBreaks, TailPipes, TailDelivers,
       TailStops DEF StreamNext
<1> QED
  BY <1>1, <1>2

\* RowMissesOnlyTail (routes/chat.ts, server/response.ts): the log row of a
\* stream that nobody captures has all the text its client got but at most that
\* of the last block, however long the stream is.
THEOREM RowMissesOneBlock == ProviderSpec => []RowMissesOnlyTail
<1>1. ProviderInit => UsageInv /\ TailInv
  BY UsageStarts, TailStarts DEF ProviderInit, Calling, Consuming
<1>2. ProviderNext => [StreamNext]_streamVars
  BY DEF ProviderNext
<1>3. UsageInv /\ TailInv /\ [ProviderNext]_providerVars => (UsageInv /\ TailInv)'
  BY <1>2, UsageKept, TailKept DEF providerVars
<1>4. TailInv => RowMissesOnlyTail
  <2> SUFFICES ASSUME TailInv, ~opts.caching, client.state = "done"
               PROVE  Texts(client.got) - row \in 0 .. BlockTexts
    BY DEF RowMissesOnlyTail
  <2>1. TailTypes /\ gen.state = "returned" /\ TailRow
    BY DEF TailInv, TailTypes
  <2>2. Texts(client.got) \in Nat /\ Pending \in 0 .. BlockTexts /\ BlockTexts \in Nat
    BY <2>1, TextsAdd, PendingBounds, BlockHolds DEF TailTypes
  <2>3. /\ row \in Nat /\ Texts(client.got) >= row
        /\ Texts(client.got) + Pending <= row + BlockTexts
    BY <2>1 DEF TailRow
  <2> QED
    BY <2>2, <2>3
<1> QED
  BY <1>1, <1>3, <1>4, PTL DEF ProviderSpec

=============================================================================
