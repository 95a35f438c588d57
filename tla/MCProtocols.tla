----------------------------- MODULE MCProtocols -----------------------------
(***************************************************************************)
(* What an agent's process says to others, in eight parts that share no    *)
(* state: the life of a NATS server, how a prompt finds its agent, a task  *)
(* served over A2A; a call of the model, a conversation, a streamed reply, *)
(* the schema of a tool; and the trace of a run.  A behaviour is one       *)
(* part's, and the state space the sum of theirs.                          *)
(*                                                                         *)
(* Discovery: six configurations, of which two make the same name of       *)
(* different sessions, two are refused and one is lowered to its           *)
(* connection's limit, which is larger than the client's; four records of  *)
(* other SDKs, two of which can be prompted.                               *)
(*                                                                         *)
(* Traced: a run's span, a tool's, and a call of the model inside it, the  *)
(* tool's span ended twice, and a queue of one span.                       *)
(***************************************************************************)
EXTENDS ServerLifecycle, AgentDiscovery, A2ATask, Tracing, MCModels, SequencesExt, TLC

CONSTANTS s1, s2, d1, r1, r2, root, toolSpan, callSpan,
          DefaultMax, MaxAttempts, InitialBackoff, MaxBackoff, MaxPrices,
          Clients, MaxTurnCalls, MaxAnswers, Wires, MaxIndexes, CleanCuts

VARIABLES part, \* whose behaviour this is
          given, sent, heard, got, retry, prices,
          messages, answers,
          provider, source, arrived, gathered, seen, streamAt, final,
          asked, heap, stack, made

-----------------------------------------------------------------------------
MCStarts == {s1, s2}
MCDrains == {d1}
MCRequests == {r1, r2}

\* Starts, and requests, are told apart by nothing the safety runs look at.
MCSymmetry == Permutations(MCStarts) \cup Permutations(MCRequests)

MCSpans == {root, toolSpan, callSpan}
MCParentSpan == (root :> NoSpan) @@ (toolSpan :> root) @@ (callSpan :> toolSpan)
MCEndCalls == (toolSpan :> {"explicit", "deferred"}) @@ (root :> {"deferred"}) @@ (callSpan :> {"deferred"})

MCConfigs ==
    LET Config(name, session, n, unit, set, attachments) ==
            [agent |-> <<"p">>, owner |-> <<"o">>, name |-> name, session |-> session,
             cap |-> [n |-> n, unit |-> unit], capSet |-> set, attachmentsOk |-> attachments]
    IN  {Config(<<"a">>, <<>>, 2, "KB", FALSE, FALSE), Config(<<"a">>, <<"b">>, 3, "B", TRUE, TRUE),
         Config(<<"a", "b">>, <<>>, 1, "KB", TRUE, TRUE), Config(<<"a">>, <<"*">>, 1, "KB", TRUE, TRUE),
         Config(<<"a">>, <<>>, 2, "KB", TRUE, TRUE), Config(<<>>, <<>>, 2, "KB", TRUE, TRUE)}

\* The first one's metadata names another owner than its subject; the second has a subject
\* of its own making.
MCForeign ==
    LET Record(version, owner, subject) ==
            [service |-> "agents", version |-> version, agent |-> <<"x">>, owner |-> owner, subject |-> subject,
             session |-> <<>>, cap |-> [n |-> 0, unit |-> "?"], attachmentsOk |-> TRUE]
    IN  {Record(<<0, 3>>, <<"q">>, <<<<"x">>, <<"o">>, <<"a">>>>), Record(<<0, 3>>, <<"o">>, <<<<"x">>>>),
         Record(<<0, 2>>, <<"o">>, <<<<"x">>, <<"o">>, <<"a">>>>), Record(<<0, 3>>, <<"o">>, <<>>)}

MCFilters ==
    LET Filter(agent, owner, name, session) == [agent |-> agent, owner |-> owner, name |-> name, session |-> session]
    IN  {Filter(<<>>, <<>>, <<>>, <<>>), Filter(<<>>, <<"o">>, <<"a">>, <<>>),
         Filter(<<>>, <<"o">>, <<>>, <<"b">>), Filter(<<"x">>, <<>>, <<>>, <<>>)}

MCPrompts ==
    LET Prompt(text, size, attachments) ==
            [prompt |-> text, size |-> size, attachments |-> attachments, header |-> <<"h">>]
        File(name, image, size) == <<[name |-> name, image |-> image, size |-> size]>>
    IN  {Prompt("blank", 1, <<>>), Prompt("text", 1, <<>>), Prompt("bad utf8", 4, <<>>), Prompt("text", 5, <<>>),
         Prompt("text", 1, File("f", TRUE, 2)), Prompt("text", 0, File("f", FALSE, 1)), Prompt("text", 0, File("", FALSE, 1))}

MCPlain == {"", "blank", "{broken", "{no prompt}", "text", "{prompt}"}

-----------------------------------------------------------------------------
\* Up to two parts, of texts, an image and reasoning, and handoffs.
MCReplies ==
    LET some == {<<>>} \cup {<<x>> : x \in {Text(""), Text("a"), [kind |-> "image"], [kind |-> "reasoning"]}}
    IN  {[parts |-> p \o q, handoffs |-> FALSE] : p, q \in some}
            \cup {[parts |-> p, handoffs |-> TRUE] : p \in {<<>>, <<Text("a")>>}}

-----------------------------------------------------------------------------
Calls == INSTANCE ProviderCalls
    WITH Calls <- MCCalls, Answers <- MCAnswers, Causes <- MCCauses, PricedNames <- MCNames

providerVars == <<given, sent, heard, got, retry, prices>>

Conversation == INSTANCE ProviderRequests

conversationVars == <<messages, answers>>

\* An answer's thinking and text: none, one delta, and two, of which one is empty or none.
MCTexts == {<<>>, <<0>>, <<1, 2>>, <<0, 1>>}

Reply == INSTANCE ReplyStream WITH Texts <- MCTexts, wire <- provider, sent <- arrived

streamVars == <<provider, source, arrived, gathered, seen, streamAt, final>>

Schema == INSTANCE StrictSchema WITH Schemas <- MCGiven

schemaVars == <<asked, heap, stack, made>>

-----------------------------------------------------------------------------
servingVars == <<vars, discoveryVars, a2aVars, traceVars>>
modelVars == <<providerVars, conversationVars, streamVars, schemaVars>>

\* The other parts keep one of the initial states of a stream.
MCInit ==
    /\ part \in {"server", "discovery", "task", "call", "conversation", "reply", "schema", "trace"}
    /\ Init /\ DiscoveryInit /\ A2AInit /\ TraceInit
    /\ Calls!ProviderInit /\ Conversation!RequestsInit /\ Reply!StreamInit /\ Schema!SchemaInit
    /\ part # "reply" => provider = "openai" /\ source = [thinking |-> <<>>, text |-> <<>>, calls |-> 0]

Only(p) == part = p /\ UNCHANGED part

MCNext ==
    \/ Only("server") /\ Next /\ UNCHANGED <<discoveryVars, a2aVars, traceVars, modelVars>>
    \/ Only("discovery") /\ DiscoveryNext /\ UNCHANGED <<vars, a2aVars, traceVars, modelVars>>
    \/ Only("task") /\ A2ANext /\ UNCHANGED <<vars, discoveryVars, traceVars, modelVars>>
    \/ Only("call") /\ Calls!ProviderNext /\ UNCHANGED <<servingVars, conversationVars, streamVars, schemaVars>>
    \/ Only("conversation") /\ Conversation!RequestsNext /\ UNCHANGED <<servingVars, providerVars, streamVars, schemaVars>>
    \/ Only("reply") /\ Reply!StreamNext /\ UNCHANGED <<servingVars, providerVars, conversationVars, schemaVars>>
    \/ Only("schema") /\ Schema!SchemaNext /\ UNCHANGED <<servingVars, providerVars, conversationVars, streamVars>>
    \/ Only("trace") /\ TraceNext /\ UNCHANGED <<vars, discoveryVars, a2aVars, modelVars>>

MCSpec == MCInit /\ [][MCNext]_<<part, servingVars, modelVars>>

-----------------------------------------------------------------------------
\* One call asks the same of every provider, and what it answers and counts, and whether
\* a failure is worth another attempt, is told in the same words (llm); a conversation of
\* any provider's answers can go on with any other (llm/anthropic, llm/openai, llm/google).
AnyProviderMeansTheSame == Calls!AnyProviderMeansTheSame /\ Conversation!AnyProviderContinues

\* A streamed reply ends as the message the buffered call returns (stream.go of each).
StreamedAsBuffered == Reply!StreamedAsBuffered

\* The strict form of a schema is strict and says the same (llm/schema.go).
StrictAndTheSame == Schema!StrictAndTheSame
=============================================================================
