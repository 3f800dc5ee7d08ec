----------------------------- MODULE Providers -----------------------------
(***************************************************************************)
(* A provider call and, when its answer is a stream, that stream up to the *)
(* client, the cache and the accounting (routes/chat.ts); in behaviours of *)
(* their own, the consumers of chunked text.                               *)
(***************************************************************************)
EXTENDS Calls, Streams, Chunked

providerVars == <<callVars, streamVars, chunkVars>>

Streaming == outcome # Null /\ outcome.kind = "stream"

(* What the answer's stream will be is chosen with the request. *)
Calling == /\ CallInit /\ StreamInit /\ ChunkOff
           /\ source = provider
           /\ request \in Inputs \/ ~request.stream => ~opts.usage /\ ~opts.caching

Consuming == /\ ChunkInit
             /\ provider = "openai" /\ request = Null /\ sent = Null /\ outcome = Null
             /\ StreamInit /\ source = provider /\ ~opts.usage /\ ~opts.caching

ProviderInit == Calling \/ Consuming

ProviderNext == \/ CallNext /\ UNCHANGED <<streamVars, chunkVars>>
                \/ Streaming /\ StreamNext /\ UNCHANGED <<callVars, chunkVars>>
                \/ ChunkNext /\ UNCHANGED <<callVars, streamVars>>

ProviderSpec == ProviderInit /\ [][ProviderNext]_providerVars /\ StreamFairness
=============================================================================
