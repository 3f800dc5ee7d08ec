------------------------------ MODULE Chunked ------------------------------
(***************************************************************************)
(* Three consumers that are fed a text in chunks cut anywhere:             *)
(*   SSEParser          packages/core/src/util/sse.ts                      *)
(*   ContentAccumulator packages/core/src/logs/content.ts                  *)
(*   readBodyText       packages/core/src/server/routes/chat.ts            *)
(* A text is a sequence of characters: "a", "w" which takes three bytes,   *)
(* ":" which begins a comment line, and the line breaks.                   *)
(***************************************************************************)
EXTENDS Integers, Sequences, SequencesExt, FiniteSets

CONSTANTS ChunkedTexts,  \* the texts
          MaxContent,    \* logging.maxContentBytes
          MaxBody        \* inputTokenBodyByteCeiling(maxInputTokens)

CR == "CR"
LF == "LF"
Characters == {"a", "w", ":", CR, LF}

ASSUME ChunkedAssumption ==
  ChunkedTexts \subseteq Seq(Characters) /\ MaxContent \in Nat /\ MaxBody \in Nat

VARIABLES text,     \* what is still to come
          fed,      \* what has come
          parser,   \* the parser's buffer, held-back "\r" and events so far
          content,  \* the accumulator
          body      \* the request body: characters read, or is it refused

chunkVars == <<text, fed, parser, content, body>>

Wide(s)  == {i \in DOMAIN s : s[i] = "w"}
Bytes(s) == Len(s) + 2 * Cardinality(Wide(s))

Fresh == [buffer |-> <<>>, carry |-> <<>>, events |-> <<>>]

ChunkInit == /\ text \in ChunkedTexts /\ fed = <<>>
             /\ parser = Fresh
             /\ content = [kept |-> <<>>, cut |-> FALSE]
             /\ body = [read |-> <<>>, state |-> "reading"]

-----------------------------------------------------------------------------
(* The data lines of a block; a block without any is no event.             *)
Lines(block) ==
  FoldLeft(LAMBDA ls, c : IF c = LF THEN Append(ls, <<>>)
                          ELSE Append(Front(ls), Append(Last(ls), c)),
           <<<<>>>>, block)

parseEventBlock(block) ==
  LET data == SelectSeq(Lines(block), LAMBDA l : l # <<>> /\ Head(l) \notin {":", CR})
  IN IF data = <<>> THEN <<>> ELSE <<data>>

(* One character of the buffer: the second of two breaks ends a block.     *)
Scanned(p, c) ==
  IF c = LF /\ p.buffer # <<>> /\ Last(p.buffer) = LF
    THEN [p EXCEPT !.buffer = <<>>, !.events = @ \o parseEventBlock(Front(p.buffer))]
    ELSE [p EXCEPT !.buffer = Append(@, c)]

(* The "\n" of a "\r\n" is part of that break; others become a "\n".      *)
Taken(p, s, i) ==
  IF s[i] = LF /\ i > 1 /\ s[i - 1] = CR THEN p
  ELSE Scanned(p, IF s[i] = CR THEN LF ELSE s[i])

Scan(p, s) ==
  LET at[i \in 0 .. Len(s)] == IF i = 0 THEN p ELSE Taken(at[i - 1], s, i)
  IN at[Len(s)]

(* Mutant: a trailing "\r" is taken for a break of its own. *)
HeldBackNothing(incoming) == <<>>

(* A "\r" at the end of a chunk waits for a "\n" that may follow. *)
HeldBack(incoming) == IF incoming # <<>> /\ Last(incoming) = CR THEN <<CR>> ELSE <<>>

feed(p, chunk) ==
  LET incoming == p.carry \o chunk
      carry    == HeldBack(incoming)
      now      == SubSeq(incoming, 1, Len(incoming) - Len(carry))
  IN Scan([p EXCEPT !.carry = carry], now)

flush(p) ==
  [buffer |-> <<>>, carry |-> <<>>, events |-> p.events \o parseEventBlock(p.buffer \o p.carry)]

(* The consumers are not in use: they are through, with no text. *)
ChunkOff == /\ text = <<>> /\ fed = <<>>
            /\ parser = flush(Fresh)
            /\ content = [kept |-> <<>>, cut |-> FALSE]
            /\ body = [read |-> <<>>, state |-> "done"]

-----------------------------------------------------------------------------
(* The longest prefix within max bytes; no character is split. *)
sliceToBytes(s, max) ==
  SubSeq(s, 1, CHOOSE n \in 0 .. Len(s) :
                 /\ Bytes(SubSeq(s, 1, n)) <= max
                 /\ n = Len(s) \/ Bytes(SubSeq(s, 1, n + 1)) > max)

push(a, delta) ==
  IF a.cut \/ delta = <<>> THEN a
  ELSE IF Bytes(a.kept \o delta) <= MaxContent THEN [a EXCEPT !.kept = @ \o delta]
  ELSE [kept |-> a.kept \o sliceToBytes(delta, MaxContent - Bytes(a.kept)), cut |-> TRUE]

-----------------------------------------------------------------------------
(* The reader stops at the chunk that crosses the ceiling. *)
ReadBody(b, chunk) ==
  IF b.state # "reading" THEN b
  ELSE IF Bytes(b.read \o chunk) > MaxBody THEN [read |-> <<>>, state |-> "refused"]
  ELSE [b EXCEPT !.read = @ \o chunk]

-----------------------------------------------------------------------------
Feed == /\ text # <<>>
        /\ \E n \in 1 .. Len(text) :
             LET chunk == SubSeq(text, 1, n)
             IN /\ text' = SubSeq(text, n + 1, Len(text)) /\ fed' = fed \o chunk
                /\ parser' = feed(parser, chunk)
                /\ content' = push(content, chunk)
                /\ body' = ReadBody(body, chunk)

Flush == /\ text = <<>> /\ body.state # "done"
         /\ parser' = flush(parser)
         /\ body' = [body EXCEPT !.state = "done"]
         /\ UNCHANGED <<text, fed, content>>

ChunkNext == Feed \/ Flush

-----------------------------------------------------------------------------
(* Properties *)

(* Where a stream is cut makes no difference to the events it carries, not *)
(* even between the two characters of a line break: after every chunk the  *)
(* parser is where it would be had the text come in one piece.             *)
EventsUncut ==
  parser = IF body.state = "done" THEN flush(feed(Fresh, fed)) ELSE feed(Fresh, fed)

(* The captured text is a prefix of what was delivered, never a text with  *)
(* a hole in it, within the cap; and it is marked as cut exactly when it   *)
(* is not all of it.  It may differ from the longest possible prefix by    *)
(* less than one character.                                                *)
CaptureIsPrefix ==
  /\ IsPrefix(content.kept, fed) /\ Bytes(content.kept) <= MaxContent
  /\ content.cut <=> content.kept # fed
  /\ content.cut => Bytes(SubSeq(fed, 1, Len(content.kept) + 1)) > MaxContent

(* Never more than the ceiling is held of a request body, and a body is    *)
(* refused exactly when it is larger, whatever its chunks.                 *)
BodyBounded ==
  /\ Bytes(body.read) <= MaxBody
  /\ Bytes(fed) > MaxBody <=> body.read # fed

(* Of nothing that is read in chunks does the result depend on the chunks: *)
(* neither of an event stream nor of captured content nor of a body.       *)
CutsIrrelevant == EventsUncut /\ CaptureIsPrefix /\ BodyBounded
=============================================================================
