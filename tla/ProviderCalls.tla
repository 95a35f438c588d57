---------------------------- MODULE ProviderCalls ----------------------------
(***************************************************************************)
(* One call of a model, made the same at three providers: the options of   *)
(* the call and of the client become a request (llm/anthropic, llm/openai, *)
(* llm/google), and what the provider answers a result or an error that    *)
(* middlewares and agents read without knowing the provider (llm/errors.go,*)
(* llm/middleware/retry.go, guardrails.go, llm/pricing.go).                *)
(*                                                                         *)
(* The providers are external: each has its own words for a choice of      *)
(* tools, for why an answer stopped, for what it counted and for a failure.*)
(* Messages are ProviderRequests.tla's; a schema is named for its form.    *)
(***************************************************************************)
EXTENDS Integers, Sequences, SequencesExt, FiniteSetsExt

CONSTANTS Calls,         \* [settings, options, conversation, guards]: the client's options
                         \* and the call's in order, [system, messages] with each message by
                         \* the kinds of its blocks, and what each guard says, in order
          DefaultMax,    \* DefaultMaxTokens, Anthropic's
          Answers,       \* [model, stop, calls, parts, prompt, cached, written, out, thought]
          Causes,        \* why a call fails: [cause, wait, said]
          PricedNames,   \* what may have a price: models and what they begin with
          MaxAttempts, InitialBackoff, MaxBackoff,
          MaxPrices      \* bound on the prices that are registered

VARIABLES
    given,   \* the call
    sent,    \* each provider's request, or why there is none
    heard,   \* what the providers did, the same at each: history
    got,     \* each provider's result or error
    retry,   \* each provider's attempts: which one, the next backoff, the last wait, and
             \* whether the call returned
    prices   \* pricingTable: the names that have a price

providerVars == <<given, sent, heard, got, retry, prices>>

Providers == {"anthropic", "openai", "google"}
Nothing == [is |-> "nothing"]

ProviderInit ==
    /\ given = Nothing /\ heard = Nothing
    /\ sent = [p \in Providers |-> Nothing]
    /\ got = [p \in Providers |-> Nothing]
    /\ retry = [p \in Providers |-> [attempt |-> 1, backoff |-> InitialBackoff, wait |-> 0,
                                    returned |-> FALSE]]
    /\ prices = {}

-----------------------------------------------------------------------------
(* The options of a client *)

\* A cap or a budget that is not positive is no option.
AnthropicOption(c, o) ==
    IF o.is = "max" THEN (IF o.n > 0 THEN [c EXCEPT !.cap = o.n] ELSE c)
    ELSE IF o.is = "thinking" THEN (IF o.n > 0 THEN [c EXCEPT !.budget = o.n] ELSE c)
    ELSE IF o.is \in {"adaptive", "effort", "temperature", "caching", "lenient"} THEN [c EXCEPT ![o.is] = TRUE]
    ELSE c

\* WithMaxTokens and WithLegacyMaxTokens set one cap, and the field it goes in.
OpenAIOption(c, o) ==
    IF o.is \in {"max", "legacyMax"} THEN (IF o.n > 0 THEN [c EXCEPT !.cap = o.n, !.legacy = o.is = "legacyMax"] ELSE c)
    ELSE IF o.is \in {"effort", "temperature", "lenient"} THEN [c EXCEPT ![o.is] = TRUE] ELSE c

GoogleOption(c, o) ==
    IF o.is = "max" THEN (IF o.n > 0 THEN [c EXCEPT !.cap = o.n] ELSE c)
    ELSE IF o.is = "thinking" THEN [c EXCEPT !.budget = o.n]
    ELSE IF o.is = "temperature" THEN [c EXCEPT !.temperature = TRUE] ELSE c

\* New
NewClient(p, settings) ==
    LET base == [cap |-> IF p = "anthropic" THEN DefaultMax ELSE 0, legacy |-> FALSE, budget |-> 0, adaptive |-> FALSE,
                 effort |-> FALSE, temperature |-> FALSE, caching |-> FALSE, lenient |-> FALSE]
    IN  FoldLeft(LAMBDA c, o : IF p = "anthropic" THEN AnthropicOption(c, o)
                               ELSE IF p = "openai" THEN OpenAIOption(c, o) ELSE GoogleOption(c, o), base, settings)

-----------------------------------------------------------------------------
(* The options of a call *)

NoChoice == [mode |-> "unset", name |-> ""]
NoFormat == [name |-> "", schema |-> "unset", description |-> ""]

\* WithTools appends; the others replace what was set before.
ApplyOption(cfg, option) ==
    IF option.is = "tools" THEN [cfg EXCEPT !.tools = @ \o option.tools]
    ELSE IF option.is = "choice" THEN [cfg EXCEPT !.choice = [mode |-> option.mode, name |-> option.name]]
    ELSE IF option.is = "max" THEN [cfg EXCEPT !.max = Max({option.n, 0})]
    ELSE [cfg EXCEPT !.format = option.format]

NewCallConfig(options) ==
    FoldLeft(ApplyOption, [tools |-> <<>>, choice |-> NoChoice, max |-> 0, format |-> NoFormat], options)

HasTool(cfg, name) == \E i \in DOMAIN cfg.tools : cfg.tools[i].name = name

\* CallConfig.Validate
Validate(cfg) ==
    IF \/ cfg.choice.mode \notin {"unset", "auto", "none", "required", "tool"}
       \/ cfg.choice.mode = "required" /\ cfg.tools = <<>>
       \/ cfg.choice.mode = "tool" /\ (cfg.choice.name = "" \/ ~HasTool(cfg, cfg.choice.name))
    THEN "ErrInvalidToolChoice"
    ELSE IF cfg.format # NoFormat /\ (cfg.format.name = "" \/ cfg.format.schema = "none")
    THEN "ErrInvalidResponseFormat"
    ELSE ""

-----------------------------------------------------------------------------
(* The request *)

\* Tool.Schema
SchemaOf(tool, strict) == IF strict \/ ~tool.hasLoose THEN "strict" ELSE "loose"

\* anthropicTools, openaiTools: strict unless the tool or the client says otherwise;
\* toolsToGenai: the tool's own schema, and no word of strictness.
ToolsFor(p, setup, tools) ==
    [i \in DOMAIN tools |->
        LET strict == tools[i].strict /\ (p = "google" \/ ~setup.lenient)
        IN  [name |-> tools[i].name, schema |-> SchemaOf(tools[i], strict), strict |-> p # "google" /\ strict]]

ToolChoiceToAnthropic(c) ==
    [type |-> IF c.mode = "required" THEN "any" ELSE IF c.mode \in {"none", "tool"} THEN c.mode ELSE "auto",
     name |-> c.name]

ToolChoiceToOpenAI(c) == [type |-> IF c.mode = "tool" THEN "function" ELSE c.mode, name |-> c.name]

ToolChoiceToGenai(c) ==
    [type |-> IF c.mode = "none" THEN "NONE" ELSE IF c.mode \in {"required", "tool"} THEN "ANY" ELSE "AUTO",
     name |-> c.name]

ChoiceFor(p, c) ==
    IF p = "anthropic" THEN ToolChoiceToAnthropic(c)
    ELSE IF p = "openai" THEN ToolChoiceToOpenAI(c) ELSE ToolChoiceToGenai(c)

\* anthropicOutputSchema, outputSchema: the description goes into the schema, unless it
\* has one; OpenAI has a field for it.
FormatFor(p, f) ==
    IF f = NoFormat THEN NoFormat
    ELSE IF p = "openai" \/ f.schema = "described" \/ f.description = "" THEN f
    ELSE [f EXCEPT !.schema = "described"]

\* Extended thinking needs more tokens than its budget.
MaxTokensFor(setup, n) ==
    IF ~setup.adaptive /\ setup.budget > 0 /\ n <= setup.budget THEN setup.budget + n ELSE n

Asked(setup, cfg) == IF cfg.max > 0 THEN cfg.max ELSE setup.cap

\* No limit is 0; Anthropic needs one.
CapFor(p, setup, cfg) ==
    IF p = "anthropic" THEN [field |-> "max_tokens", n |-> MaxTokensFor(setup, Asked(setup, cfg))]
    ELSE IF p = "openai"
    THEN [field |-> IF setup.legacy THEN "max_tokens" ELSE "max_completion_tokens", n |-> Asked(setup, cfg)]
    ELSE [field |-> "maxOutputTokens", n |-> Asked(setup, cfg)]

\* Anthropic's does not go with thinking, nor a default one with an effort.
TemperatureFor(p, setup) ==
    IF p = "anthropic" THEN ~setup.adaptive /\ setup.budget = 0 /\ (~setup.effort \/ setup.temperature)
    ELSE p = "openai" \/ setup.temperature

\* markLastBlock: the last block that can carry a breakpoint.
LastMarkable(blocks) ==
    LET can == {i \in DOMAIN blocks : blocks[i] # "thinking"} IN IF can = {} THEN {} ELSE {Max(can)}

\* applyPromptCaching: of the tools, the system prompt, the first and the last message.
Breakpoints(p, setup, cfg, conversation) ==
    LET n == Len(conversation.messages)
        marked(m) == {<<"message", m, i>> : i \in LastMarkable(conversation.messages[m])}
    IN  IF p # "anthropic" \/ ~setup.caching THEN {}
        ELSE (IF cfg.tools # <<>> THEN {<<"tools", Len(cfg.tools), 0>>} ELSE {})
                \cup (IF conversation.system THEN {<<"system", 1, 0>>} ELSE {})
                \cup (IF n > 1 THEN marked(1) ELSE {}) \cup (IF n > 0 THEN marked(n) ELSE {})

\* buildParams, buildRequest: a choice goes only with tools.
Build(p, call) ==
    LET cfg == NewCallConfig(call.options)
        setup == NewClient(p, call.settings)
    IN
    IF Validate(cfg) # "" THEN [is |-> "refused", err |-> Validate(cfg)]
    ELSE [is |-> "request",
          tools |-> ToolsFor(p, setup, cfg.tools),
          choice |-> IF cfg.tools = <<>> \/ cfg.choice = NoChoice THEN NoChoice ELSE ChoiceFor(p, cfg.choice),
          format |-> FormatFor(p, cfg.format),
          cap |-> CapFor(p, setup, cfg),
          temperature |-> TemperatureFor(p, setup),
          marks |-> Breakpoints(p, setup, cfg, call.conversation)]

-----------------------------------------------------------------------------
(* What a provider answers, in its words, and what the client makes of it *)

\* External: how each names why it stopped.
SaysStop(p, stop) ==
    CASE stop = "none" -> ""
      [] stop = "stop" -> [anthropic |-> "end_turn", openai |-> "stop", google |-> "STOP"][p]
      [] stop = "tools" -> [anthropic |-> "tool_use", openai |-> "tool_calls", google |-> "STOP"][p]
      [] stop = "length" -> [anthropic |-> "max_tokens", openai |-> "length", google |-> "MAX_TOKENS"][p]
      [] stop = "filter" -> [anthropic |-> "refusal", openai |-> "content_filter", google |-> "SAFETY"][p]
      [] OTHER -> "another"

\* External: how each counts.  Only OpenAI's output and Anthropic's include the thoughts,
\* only Anthropic's input leaves the cached tokens out.
SaysUsage(p, a) ==
    IF p = "anthropic"
    THEN [input |-> a.prompt - a.cached - a.written, read |-> a.cached, create |-> a.written, output |-> a.out + a.thought]
    ELSE IF p = "openai"
    THEN [prompt |-> a.prompt, cached |-> a.cached, completion |-> a.out + a.thought, reasoning |-> a.thought]
    ELSE [prompt |-> a.prompt, cached |-> a.cached, candidates |-> a.out, thoughts |-> a.thought]

FinishReasonFromAnthropic(raw) ==
    CASE raw = "" -> ""
      [] raw \in {"end_turn", "stop_sequence", "pause_turn"} -> "stop"
      [] raw = "max_tokens" -> "length"
      [] raw = "tool_use" -> "tool_calls"
      [] raw = "refusal" -> "content_filter"
      [] OTHER -> "error"

FinishReasonFromOpenAI(raw) ==
    CASE raw \in {"", "null"} -> ""
      [] raw \in {"stop", "length", "content_filter", "tool_calls"} -> raw
      [] raw = "function_call" -> "tool_calls"
      [] OTHER -> "error"

\* Gemini stops to call tools as it stops.
FinishReasonFromGenai(raw, calls) ==
    CASE raw \in {"", "FINISH_REASON_UNSPECIFIED"} -> ""
      [] raw = "STOP" -> IF calls > 0 THEN "tool_calls" ELSE "stop"
      [] raw = "MAX_TOKENS" -> "length"
      [] raw \in {"SAFETY", "RECITATION", "BLOCKLIST", "PROHIBITED_CONTENT", "SPII"} -> "content_filter"
      [] OTHER -> "error"

UsageFromAnthropic(u) ==
    [input |-> u.input, output |-> u.output, cacheRead |-> u.read, cacheWrite |-> u.create, reasoning |-> 0]

\* Variant: the cached tokens stay in the input and are billed twice.
UsageFromOpenAI_Twice(u) ==
    [input |-> u.prompt, output |-> u.completion, cacheRead |-> u.cached, cacheWrite |-> 0, reasoning |-> u.reasoning]

UsageFromOpenAI(u) ==
    [input |-> u.prompt - u.cached, output |-> u.completion, cacheRead |-> u.cached, cacheWrite |-> 0,
     reasoning |-> u.reasoning]

UsageFromGenai(u) ==
    [input |-> Max({u.prompt - u.cached, 0}), output |-> u.candidates + u.thoughts, cacheRead |-> u.cached,
     cacheWrite |-> 0, reasoning |-> u.thoughts]

\* PricingFor: the model's own name, or the longest name it begins with.
PricingFor(model) ==
    LET named == {n \in prices : IsPrefix(n, model)}
    IN  IF model \in prices THEN {model}
        ELSE {n \in named : \A other \in named : Len(other) <= Len(n)}

\* Execute, once the provider answered: an answer without content is an error at Google.
ResultOf(p, a) ==
    LET raw == SaysStop(p, a.stop) IN
    IF p = "google" /\ a.parts = 0 /\ a.calls = 0 THEN [is |-> "error", kind |-> "NoContentError"]
    ELSE [is |-> "result", model |-> a.model, priced |-> PricingFor(a.model),
          usage |-> IF p = "anthropic" THEN UsageFromAnthropic(SaysUsage(p, a))
                    ELSE IF p = "openai" THEN UsageFromOpenAI(SaysUsage(p, a)) ELSE UsageFromGenai(SaysUsage(p, a)),
          finish |-> IF p = "anthropic" THEN FinishReasonFromAnthropic(raw)
                     ELSE IF p = "openai" THEN FinishReasonFromOpenAI(raw)
                     ELSE FinishReasonFromGenai(raw, a.calls)]

-----------------------------------------------------------------------------
(* Errors *)

\* External: the status each answers with, 0 for a failure without one.
StatusOf(p, cause) ==
    CASE cause = "rate" -> 429
      [] cause = "overloaded" -> IF p = "anthropic" THEN 529 ELSE 503
      [] cause \in {"tooLong", "badRequest"} -> 400
      [] cause = "tooLarge" -> 413
      [] cause = "badKey" -> 401
      [] cause = "timeout" -> 408
      [] OTHER -> 0

\* isContextLengthError, in each provider's words; Anthropic's for the bytes of a request too.
ContextLengthExceeded(p, cause) == cause = "tooLong" \/ (p = "anthropic" /\ cause = "tooLarge")

\* retryAfter: no header reaches the OpenAI client; nonsense is no wait.
RetryAfter(p, c) == IF p = "openai" \/ c.said = "nonsense" THEN 0 ELSE c.wait

\* wrapAPIError: a failure without a status stays as it is.
WrapAPIError(p, c) ==
    IF StatusOf(p, c.cause) = 0 THEN [is |-> "error", kind |-> c.cause]
    ELSE [is |-> "error", kind |-> "ProviderError", status |-> StatusOf(p, c.cause),
          tooLong |-> ContextLengthExceeded(p, c.cause), retryAfter |-> RetryAfter(p, c)]

\* checkInput, checkResult: the first guard that fails.
FirstBlock(guards) == SelectSeq(guards, LAMBDA verdict : verdict # "ok")
GuardrailError(stage, guards) == [is |-> "error", kind |-> "GuardrailError", stage |-> stage, cause |-> FirstBlock(guards)[1]]

\* IsRetryable; a guard's own error is looked at before its block.
IsRetryable(err) ==
    LET cause == IF err.kind = "GuardrailError" THEN err.cause ELSE err.kind IN
    \/ cause = "deadline" \/ err.kind \in {"network", "cut"}
    \/ /\ err.kind = "ProviderError" /\ ~err.tooLong
       /\ err.status \in {408, 409, 429} \/ err.status >= 500

\* sleepFor: the backoff with a jitter of a quarter, the provider's wait when longer, the cap.
Jitters(backoff) == 0 .. Max({0, (backoff \div 2) - 1})
SleepFor(backoff, jitter, err) ==
    LET sleep == IF backoff \div 2 > 0 THEN backoff + jitter - (backoff \div 4) ELSE backoff
        hint == IF err.kind = "ProviderError" THEN err.retryAfter ELSE 0
    IN  Min({Max({sleep, hint}), MaxBackoff})

NextBackoff(r) == IF r.attempt = 1 THEN r.backoff ELSE Min({r.backoff * 2, MaxBackoff})
Exhausted(r, err) == r.attempt = MaxAttempts /\ IsRetryable(err)

\* retryLLM, after an attempt.
AfterAttempt(r, jitter, outcome) ==
    IF outcome.is = "result" \/ ~IsRetryable(outcome) \/ r.attempt = MaxAttempts THEN [r EXCEPT !.returned = TRUE]
    ELSE [r EXCEPT !.attempt = @ + 1, !.backoff = NextBackoff(r), !.wait = SleepFor(NextBackoff(r), jitter, outcome)]

Returned(r, outcome) ==
    IF outcome.is = "error" /\ Exhausted(r, outcome)
    THEN [is |-> "error", kind |-> "MaxAttemptsExceededError", err |-> outcome] ELSE outcome

-----------------------------------------------------------------------------
(* The call *)

Open == {p \in Providers : sent[p].is = "request" /\ ~retry[p].returned}

\* RegisterPricing
RegisterPricing ==
    /\ Cardinality(prices) < MaxPrices /\ heard = Nothing
    /\ \E name \in PricedNames : prices' = prices \cup {name}
    /\ UNCHANGED <<given, sent, heard, got, retry>>

\* The options become a request, unless they contradict each other.
MakeCall ==
    /\ given = Nothing
    /\ \E call \in Calls : given' = call /\ sent' = [p \in Providers |-> Build(p, call)]
    /\ UNCHANGED <<heard, got, retry, prices>>

\* An attempt of every call that has not returned; the same jitter for each, as they do
\* not meet.
Attempt(outcome) ==
    /\ \E some \in Open : \E jitter \in Jitters(NextBackoff(retry[some])) :
          retry' = [p \in Providers |-> IF p \in Open THEN AfterAttempt(retry[p], jitter, outcome[p]) ELSE retry[p]]
    /\ got' = [p \in Providers |-> IF p \in Open THEN Returned(retry[p], outcome[p]) ELSE got[p]]
    /\ UNCHANGED <<given, sent, prices>>

\* guardrailsLLM: the messages are checked at each attempt.
InputBlocked ==
    /\ Open # {} /\ FirstBlock(given.guards.input) # <<>>
    /\ heard' = [is |-> "block"]
    /\ Attempt([p \in Open |-> GuardrailError("input", given.guards.input)])

Fails ==
    /\ Open # {} /\ FirstBlock(given.guards.input) = <<>>
    /\ \E c \in Causes :
        /\ heard' = [is |-> "failure", cause |-> c]
        /\ Attempt([p \in Open |-> WrapAPIError(p, c)])

\* A result is checked too.
Answered ==
    /\ Open # {} /\ FirstBlock(given.guards.input) = <<>>
    /\ \E a \in Answers :
        /\ heard' = [is |-> "answer", answer |-> a]
        /\ Attempt([p \in Open |->
              IF ResultOf(p, a).is = "error" \/ FirstBlock(given.guards.output) = <<>>
              THEN ResultOf(p, a) ELSE GuardrailError("output", given.guards.output)])

ProviderNext == RegisterPricing \/ MakeCall \/ InputBlocked \/ Fails \/ Answered

-----------------------------------------------------------------------------

\* How each provider's documentation reads a choice of tools.
ChoiceMeans(p, c) ==
    IF c = NoChoice THEN "auto"
    ELSE IF p = "anthropic" THEN [auto |-> "auto", none |-> "none", any |-> "required", tool |-> "tool"][c.type]
    ELSE IF p = "openai" THEN [auto |-> "auto", none |-> "none", required |-> "required", function |-> "tool"][c.type]
    ELSE IF c.type = "ANY" THEN (IF c.name = "" THEN "required" ELSE "tool")
    ELSE [AUTO |-> "auto", NONE |-> "none"][c.type]

\* A request says at each provider what the options say: the tools in order, strictness
\* where the schema is strict, the choice and the tool it names, the format with its
\* description, and no more breakpoints than the API takes, none on a thought.
RequestsAgree ==
    \A p \in Providers :
        LET r == sent[p]
            cfg == NewCallConfig(given.options)
            setup == NewClient(p, given.settings)
        IN  given # Nothing =>
            /\ (r.is = "refused") <=> (sent["openai"].is = "refused")
            /\ r.is = "request" =>
                /\ [i \in DOMAIN r.tools |-> r.tools[i].name] = [i \in DOMAIN cfg.tools |-> cfg.tools[i].name]
                /\ \A i \in DOMAIN r.tools : r.tools[i].strict => r.tools[i].schema = "strict"
                /\ cfg.tools # <<>> =>
                    /\ ChoiceMeans(p, r.choice) = IF cfg.choice = NoChoice THEN "auto" ELSE cfg.choice.mode
                    /\ cfg.choice.mode = "tool" => r.choice.name = cfg.choice.name
                /\ (r.format.name = cfg.format.name) /\ (cfg.format.description # "" =>
                        r.format.schema = "described" \/ p = "openai")
                /\ r.cap.n >= Asked(setup, cfg)
                /\ p = "anthropic" /\ setup.budget > 0 /\ ~setup.adaptive => r.cap.n > setup.budget
                /\ Cardinality(r.marks) <= 4
                /\ \A m \in r.marks : m[1] = "message" => given.conversation.messages[m[2]][m[3]] # "thinking"

\* An answer is counted and priced once: what was prompted and what was produced, with the
\* price of the most specific name that has one; and it stopped for the same reason.
ResultsAgree ==
    \A p \in Providers : got[p].is = "result" =>
        LET u == got[p].usage
            a == heard.answer
        IN  /\ u.input + u.cacheRead + u.cacheWrite = a.prompt
            /\ u.output = a.out + a.thought /\ u.reasoning <= u.output
            /\ u.cacheRead = a.cached /\ got[p].model = a.model
            /\ got[p].priced \subseteq prices /\ Cardinality(got[p].priced) <= 1
            /\ \A n \in prices : IsPrefix(n, a.model) => \E best \in got[p].priced : IsPrefix(n, best)
            /\ \A q \in Providers : got[q].is = "result" => got[q].finish = got[p].finish

\* A failure means the same too: the providers are asked again as often, a wait is never
\* longer than the cap nor shorter than what the provider asked for within it, and what a
\* guard refused, or no shorter prompt would fit, is not asked again.
RetriesAgree ==
    \A p \in Open :
        /\ retry[p].attempt = retry["openai"].attempt /\ retry["openai"].returned = FALSE
        /\ retry[p].wait <= MaxBackoff
        /\ heard # Nothing =>
            /\ heard.is = "answer" => got[p].kind = "GuardrailError"
            /\ got[p].kind = "GuardrailError" => got[p].cause = "deadline"
            /\ heard.is = "failure" =>
                /\ heard.cause.cause \notin {"tooLong", "tooLarge", "badKey", "badRequest", "canceled"}
                /\ got[p].kind = "ProviderError" => retry[p].wait >= Min({got[p].retryAfter, MaxBackoff})

\* A caller need not know which provider it calls: what it asks for, what it gets and what
\* it may try again means the same at each.
AnyProviderMeansTheSame == RequestsAgree /\ ResultsAgree /\ RetriesAgree
=============================================================================
