---------------------------- MODULE MCProviders ----------------------------
EXTENDS Providers

Plain == [kind |-> "chat", tools |-> "absent", choice |-> "absent", schema |-> Null, n |-> 1,
          params |-> [p \in {"max_completion_tokens", "max_tokens", "temperature", "top_p", "stop"}
                        |-> "absent"],
          stream |-> FALSE, messages |-> <<Message("user", <<"text">>, <<>>, None)>>]

Messages ==
  {Message("system", <<"text">>, <<>>, None), Message("user", <<"text">>, <<>>, None),
   Message("user", <<"link">>, <<>>, None), Message("narrator", <<"text">>, <<>>, None),
   Message("assistant", <<>>, <<>>, None), Message("assistant", <<"text">>, <<>>, None),
   Message("assistant", <<"empty", "image">>, <<Call("c1", "f", "object"), Call("c2", "g", "malformed")>>, None),
   Message("assistant", <<>>, <<Call("c1", "g", "other")>>, None),
   Message("tool", <<"text">>, <<>>, "c1"), Message("tool", <<>>, <<>>, "c2"),
   Message("tool", <<>>, <<>>, None),
   [Message("assistant", <<>>, <<Call("c1", "f", "object")>>, None) EXCEPT !.absent = TRUE]}

Conversations == UNION {[1 .. n -> Messages] : n \in 1 .. 3}

Node(kids, ref) == [object |-> TRUE, kids |-> kids, ref |-> ref]
All(keys, kid)  == [k \in keys |-> kid]
Scalar          == [object |-> FALSE, kids |-> All({}, None), ref |-> None]

Docs == {[defs |-> {"a", "b", "c"},
          nodes |-> [n \in {"root", "own", "a", "inner", "b", "c", "leaf"} |->
             CASE n = "root"  -> Node([k \in {"$defs", "properties"} |-> IF k = "$defs" THEN "leaf" ELSE "own"], r)
               [] n = "own"   -> Node(All({"title"}, "leaf"), ro)
               [] n = "a"     -> Node(All(ka, "inner"), ra)
               [] n = "inner" -> Node(All({"title", "definitions"}, "leaf"), ri)
               [] n = "b"     -> Node(All({"type", "additionalProperties"}, "leaf"), rb)
               [] OTHER       -> Scalar]] :
           r \in {"a", "b", "c", "foreign"}, ro \in {"b", None}, ra \in {"a", "b", None},
           ka \in {{"properties", "$schema"}, {"items"}}, ri \in {"a", "b", None}, rb \in {"a", None}}

MCRequests ==
  {[Plain EXCEPT !.messages = ms] : ms \in Conversations} \cup
  {[Plain EXCEPT !.schema = d, !.tools = "some"] : d \in Docs} \cup
  {[Plain EXCEPT !.params = [p \in DOMAIN Plain.params |-> IF p = q THEN v ELSE w]] :
     q \in DOMAIN Plain.params, v \in {"null", "given"}, w \in {"absent", "null", "given"}} \cup
  {[Plain EXCEPT !.tools = t, !.choice = c] :
     t \in {"absent", "null", "empty", "some"}, c \in {"absent", "none", "auto", "required", "named"}} \cup
  {[Plain EXCEPT !.stream = TRUE], [Plain EXCEPT !.n = 2]}

MCInputs == {[kind |-> "embeddings", tokens |-> t, texts |-> s] : t \in BOOLEAN, s \in {<<1>>, <<1, 2>>}}
              \cup {[kind |-> "models", static |-> 2]}
MCContents == UNION {[1 .. n -> {"text", "call", "bare", "other"}] : n \in 0 .. 2}
MCMaxEvents == [s \in Sources |-> CASE s = "anthropic" -> 6 [] s = "google" -> 3 [] s = "openai" -> 5]
MCTexts == UNION {[1 .. n -> {"a", "w", ":", CR, LF}] : n \in 0 .. 5}
=============================================================================
