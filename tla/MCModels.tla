------------------------------ MODULE MCModels ------------------------------
(***************************************************************************)
(* Calls of the model for ProviderCalls, and what the providers may say to *)
(* them.  Each call varies one thing: its tools and their choice, its      *)
(* format, the client's options, the conversation, or the guards.  Schemas *)
(* for StrictSchema: what a type, a server of tools or a configuration may *)
(* give.                                                                   *)
(***************************************************************************)
EXTENDS Integers, Sequences, TLC

LOCAL Tool(name, strict, loose) == [name |-> name, strict |-> strict, hasLoose |-> loose]
LOCAL Tools(tools) == [is |-> "tools", tools |-> tools]
LOCAL Number(is, n) == [is |-> is, n |-> n]
LOCAL Flag(is) == [is |-> is]

LOCAL Caching == <<Flag("caching")>>
LOCAL Budget == <<Number("thinking", 4), Number("max", 2), Flag("caching"), Flag("effort")>>
LOCAL Settings ==
    {<<>>, Caching \o <<Number("max", 0)>>, <<Number("thinking", 3), Flag("lenient"), Number("legacyMax", 4)>>,
     <<Flag("temperature"), Number("thinking", 0)>>, Budget, <<Flag("adaptive")>> \o Budget}

LOCAL ToolSets == {<<>>, <<Tool("a", TRUE, TRUE)>>, <<Tool("a", FALSE, TRUE), Tool("b", FALSE, FALSE)>>}
LOCAL Choices ==
    {<<>>} \cup {<<[is |-> "choice", mode |-> mode, name |-> ""]>> : mode \in {"auto", "none", "required", "odd"}}
           \cup {<<[is |-> "choice", mode |-> "tool", name |-> name]>> : name \in {"", "a", "b"}}
LOCAL Format(name, schema, description) ==
    <<[is |-> "format", format |-> [name |-> name, schema |-> schema, description |-> description]]>>

\* The options of one call: the last cap counts, and tools add up.
LOCAL Options ==
    {<<Tools(tools)>> \o choice : tools \in ToolSets, choice \in Choices}
        \cup {<<Number("max", 9), Tools(<<Tool("b", TRUE, FALSE)>>), Number("max", -1)>>}
        \cup {Format("", "unset", ""), Format("", "plain", "d"), Format("f", "none", ""), Format("f", "plain", "d"),
              Format("f", "described", "d"), Format("f", "plain", "")}
LOCAL FewOptions == {<<>>, <<Tools(<<Tool("a", TRUE, TRUE)>>), Number("max", 5)>>}

LOCAL Conversation(system, messages) == [system |-> system, messages |-> messages]
LOCAL Talk == Conversation(TRUE, <<<<"text">>, <<"text", "thinking">>>>)
LOCAL Guards(input, output) == [input |-> input, output |-> output]
LOCAL Unguarded == Guards(<<>>, <<>>)

LOCAL TheCall(settings, options, conversation, guards) ==
    [settings |-> settings, options |-> options, conversation |-> conversation, guards |-> guards]

MCCalls ==
    {TheCall(Caching, options, Talk, Unguarded) : options \in Options}
        \cup {TheCall(settings, options, Talk, Unguarded) : settings \in Settings, options \in FewOptions}
        \cup {TheCall(Caching, <<>>, conversation, Unguarded) : conversation \in
                {Conversation(TRUE, <<>>), Conversation(FALSE, <<<<"text">>>>),
                 Conversation(TRUE, <<<<"text">>, <<"thinking">>, <<"text", "tool">>>>)}}
        \cup {TheCall(Caching, <<>>, Talk, guards) : guards \in
                {Guards(<<"ok", "blocks">>, <<>>), Guards(<<"deadline">>, <<>>), Guards(<<"canceled">>, <<>>),
                 Guards(<<"ok">>, <<"ok", "blocks", "deadline">>), Guards(<<>>, <<"deadline">>)}}

LOCAL AnAnswer(model, stop, calls, parts, tokens) ==
    [model |-> model, stop |-> stop, calls |-> calls, parts |-> parts, prompt |-> tokens[1],
     cached |-> tokens[2], written |-> tokens[3], out |-> tokens[4], thought |-> tokens[5]]

MCAnswers ==
    {AnAnswer(<<"m", "mini", "1">>, "stop", 0, 1, <<3, 0, 0, 2, 0>>), AnAnswer(<<"m">>, "tools", 1, 0, <<5, 2, 1, 2, 3>>),
     AnAnswer(<<"m">>, "length", 0, 1, <<5, 5, 0, 0, 3>>), AnAnswer(<<"m">>, "length", 1, 1, <<5, 0, 0, 0, 3>>),
     AnAnswer(<<"m">>, "filter", 0, 0, <<4, 1, 0, 0, 0>>), AnAnswer(<<"m">>, "none", 0, 1, <<0, 0, 0, 0, 0>>),
     AnAnswer(<<"m">>, "odd", 0, 1, <<1, 1, 0, 1, 0>>)}

\* A wait below the longest backoff and one above it.
MCCauses ==
    {[cause |-> "rate", wait |-> wait, said |-> said] : wait \in {3, 9}, said \in {"seconds", "nonsense"}}
        \cup {[cause |-> cause, wait |-> 0, said |-> "nothing"] :
                 cause \in {"overloaded", "tooLong", "tooLarge", "badKey", "network", "deadline", "canceled"}}

MCNames == {<<"m">>, <<"m", "mini">>, <<"o">>}

-----------------------------------------------------------------------------
(* Schemas *)

LOCAL Object(properties) == "type" :> "object" @@ "properties" :> properties
LOCAL String == "type" :> "string"
LOCAL Ref(name) == "$ref" :> <<"$defs", name>>
LOCAL Described == "description" :> "d"
LOCAL NilDefault == "default" :> "nil"

MCGiven == <<
    \* the empty one
    << <<>> >>,
    \* two fields of one definition, one with a description; the definition has another's
    << Object("a" :> 2 @@ "b" :> 3) @@ "$defs" :> ("T" :> 4 @@ "U" :> 6) @@ "$schema" :> "x",
       Ref("T") @@ Described, Ref("T"), Object("x" :> 5), String @@ NilDefault, Object("y" :> 7), Ref("T") @@ NilDefault >>,
    \* items, oneOf after anyOf, an allOf of one and of two
    << Object("a" :> 2 @@ "b" :> 3), "anyOf" :> <<4>> @@ "oneOf" :> <<5, 6>>, "type" :> "array" @@ "items" :> 7,
       String, Object(<<>>), "allOf" :> <<8>>, "allOf" :> <<8, 9>>, Object("z" :> 4), "oneOf" :> <<4>> >>,
    \* an allOf of one that is a reference
    << Object("a" :> 2) @@ "$defs" :> ("T" :> 3), "allOf" :> <<4>> @@ Described, Object("x" :> 5), Ref("T"),
       "type" :> "object" >>,
    \* a recursive type
    << Object("next" :> 2) @@ "$defs" :> ("N" :> 3), Ref("N"), Object("next" :> 4), Ref("N") >>,
    \* a definition that is a reference with a description
    << Object("a" :> 2 @@ "b" :> 5) @@ "$defs" :> ("T" :> 3 @@ "U" :> 4), Ref("U"), Object("x" :> 6),
       Ref("T") @@ Described, Ref("U") @@ Described, String >>,
    \* no object; a schema that is "true"; an object left open, or with a type for what it does not name
    << String >>,
    << Object("a" :> 0) >>,
    << "type" :> "array" @@ "items" :> 0 >>,
    << Object("a" :> 2), "type" :> "object" @@ "additionalProperties" :> "open" >>,
    << Object("a" :> 2), "type" :> "object" @@ "additionalProperties" :> "typed" >>,
    \* references that lead nowhere
    << Object("a" :> 2), Ref("T") @@ Described >>,
    << Object("a" :> 2), "$ref" :> <<>> @@ Described >> >>

\* A recursive type whose field has a description.
MCRecursive ==
    << << Object("next" :> 2) @@ "$defs" :> ("N" :> 3), Ref("N"), Object("next" :> 4), Ref("N") @@ Described >> >>
=============================================================================
