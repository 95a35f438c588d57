------------------------------ MODULE RunEvents ------------------------------
(***************************************************************************)
(* What is told of one agent run: the events RunStream yields to a         *)
(* consumer, which may stop listening at any of them (agent/stream.go),    *)
(* the model calls its trace records (agent/llmcall.go), and the result    *)
(* and the stop reason it ends with (agent/agent.go).                      *)
(*                                                                         *)
(* The model, the tools, the compactor and the memory answer as they like. *)
(* AgentRun has the saves and snapshots, ToolRound the goroutines of a     *)
(* round.                                                                  *)
(***************************************************************************)
EXTENDS Integers, SequencesExt, TLC

CONSTANTS History,            \* the messages the memory gives the run
          MaxTurns,           \* SetMaxIterations, 0 for no limit
          MaxTurnCompactions, \* bound on the compactions at the threshold
          MaxToolRounds,      \* bound on the rounds of tool calls
          RoundCalls,         \* tool calls in a round
          Texts               \* the texts of an answer, as their deltas

\* A conversation as a memory gives it, and the texts of answers.
ASSUME EventConstants ==
    /\ History \in Seq([by : {"history"}, role : {"user", "assistant", "tool"},
                        text : Seq(Nat), n : Nat])
    /\ Texts \subseteq Seq(Nat)
    /\ RoundCalls \in Nat

VARIABLES
    run,      \* where the run is, and its locals
    prompt,   \* the session
    calls,    \* the LLMCall payloads of its spans
    prompts,  \* history: the prompts of those calls
    seen,     \* the events the consumer got
    consumer, \* "none" (Run), "listens", "stopped"
    ctxDone,  \* whether its context is done
    outcome   \* what it returned

eventVars == <<run, prompt, calls, prompts, seen, consumer, ctxDone, outcome>>

SystemPrompt == [by |-> "system", role |-> "system", text |-> <<0>>, n |-> 0]
SummaryMessage == [by |-> "summary", role |-> "user", text |-> <<0>>, n |-> 0]

NoOutcome == [is |-> "none"]

EventsInit ==
    /\ run = [at |-> "new", iteration |-> 0, from |-> 0, tail |-> 1, promptLen |-> 0,
              compactions |-> 0, rounds |-> 0, onError |-> FALSE]
    /\ prompt = <<>> /\ calls = <<>> /\ prompts = <<>>
    /\ seen = <<>> /\ consumer \in {"none", "listens"}
    /\ ctxDone = FALSE /\ outcome = NoOutcome

\* RunStream's emit: what the consumer gets of the events, to the one at which its
\* loop breaks; the run itself goes on.
Yield(events) ==
    \/ consumer # "listens" /\ UNCHANGED <<seen, consumer>>
    \/ consumer = "listens" /\ seen' = seen \o events /\ UNCHANGED consumer
    \/ /\ consumer = "listens" /\ consumer' = "stopped"
       /\ \E n \in DOMAIN events : seen' = seen \o SubSeq(events, 1, n)

CtxEnds ==
    /\ run.at \notin {"new", "ended"} /\ ~ctxDone
    /\ ctxDone' = TRUE
    /\ UNCHANGED <<run, prompt, calls, prompts, seen, consumer, outcome>>

-----------------------------------------------------------------------------
(* The end of a run *)

SaysSomething(m) == m.role = "assistant" /\ m.text # <<>>

\* partialResultFromSession: the last answer with text, of the messages from `from`.
Partial(messages) ==
    IF SelectSeq(messages, SaysSomething) = <<>> THEN <<>> ELSE <<Last(SelectSeq(messages, SaysSomething))>>

\* The run goes to finishRun with its partial result and an error, "" for none.
Fails(err) ==
    /\ run' = [run EXCEPT !.at = "finish"]
    /\ outcome' = [is |-> "returns", err |-> err, handoff |-> FALSE,
                   parts |-> Partial(SubSeq(prompt, run.from + 1, Len(prompt)))]

\* stopReason: cancelled only if something failed.
StopReason(err, handoff) ==
    IF err = "max" THEN "max_iterations"
    ELSE IF err = "stop" THEN "requested"
    ELSE IF err # "" /\ ctxDone THEN "cancelled"
    ELSE IF err = "guardrail" THEN "guardrail"
    ELSE IF err # "" THEN "error"
    ELSE IF handoff THEN "handoff" ELSE "final"

\* finishRun: the reason is of before the save, which may add an error.
FinishRun ==
    /\ run.at = "finish"
    /\ \E saved \in BOOLEAN :
           outcome' = [outcome EXCEPT !.is = "done", !.err = IF saved \/ prompt = <<>> THEN @ ELSE "save"]
                          @@ [reason |-> StopReason(outcome.err, outcome.handoff)]
    /\ run' = [run EXCEPT !.at = "returned"]
    /\ UNCHANGED <<prompt, calls, prompts, seen, consumer, ctxDone>>

\* RunStream ends: with the error and the partial result, or with EventDone.
LastEvent ==
    /\ run.at = "returned"
    /\ Yield(<<[type |-> IF outcome.err = "" THEN "done" ELSE "failed",
                iteration |-> 0, result |-> outcome.parts]>>)
    /\ run' = [run EXCEPT !.at = "ended"]
    /\ UNCHANGED <<prompt, calls, prompts, ctxDone, outcome>>

-----------------------------------------------------------------------------
(* The loop *)

\* prepareSession: a run may have no input of its own.
Prepare ==
    /\ run.at = "new"
    /\ \E input \in {<<>>, <<[by |-> "run", role |-> "user", text |-> <<1>>, n |-> 1]>>} :
           prompt' = <<SystemPrompt>> \o History \o input
    /\ run' = [run EXCEPT !.at = "loop", !.from = 1 + Len(History)]
    /\ UNCHANGED <<calls, prompts, seen, consumer, ctxDone, outcome>>

\* The memory fails: there is no session to read a partial result from.
PrepareFails ==
    /\ run.at = "new"
    /\ run' = [run EXCEPT !.at = "finish"]
    /\ outcome' = [is |-> "returns", err |-> "memory", handoff |-> FALSE, parts |-> <<>>]
    /\ UNCHANGED <<prompt, calls, prompts, seen, consumer, ctxDone>>

LoopStops ==
    /\ run.at = "loop"
    /\ \/ ctxDone /\ \E err \in {"canceled", "stop"} : Fails(err)
       \/ ~ctxDone /\ MaxTurns > 0 /\ run.iteration >= MaxTurns /\ Fails("max")
    /\ UNCHANGED <<prompt, calls, prompts, seen, consumer, ctxDone>>

LoopGoesOn == run.at = "loop" /\ ~ctxDone /\ (MaxTurns = 0 \/ run.iteration < MaxTurns)

\* Variant: the next call's record starts where the last one's ended.
ForgetPrompt_Kept(r) == r

\* The whole new session is recorded next.
ForgetPrompt(r) == [r EXCEPT !.promptLen = 0]

\* compactSession: the events around a compaction.
CompactionEvents(after, compacted, failed) ==
    <<[type |-> "compactionStart", iteration |-> run.iteration + 1],
      [type |-> "compactionEnd", iteration |-> run.iteration + 1,
       after |-> after, compacted |-> compacted, failed |-> failed]>>

\* compact: all but the last `kept` messages are summarised, or there is nothing to do, and
\* the run goes on as `next`; or the compaction fails.
CompactSession(next) ==
    LET tail == SubSeq(prompt, run.tail + 1, Len(prompt))
    IN  \/ \E kept \in 0 .. Len(tail) - 1 :
               LET new == <<SystemPrompt, SummaryMessage>> \o SubSeq(tail, Len(tail) - kept + 1, Len(tail)) IN
               /\ kept > 0 => tail[Len(tail) - kept + 1].role # "tool"
               /\ prompt' = new
               /\ run' = ForgetPrompt([next EXCEPT !.from = 2, !.tail = 2])
               /\ Yield(CompactionEvents(Len(new), TRUE, FALSE))
               /\ UNCHANGED outcome
        \/ /\ run' = next
           /\ Yield(CompactionEvents(Len(prompt), FALSE, FALSE))
           /\ UNCHANGED <<prompt, outcome>>
        \/ /\ Fails("compaction")
           /\ Yield(CompactionEvents(Len(prompt), FALSE, TRUE))
           /\ UNCHANGED prompt

\* compactIfNeeded: the threshold is reached.
LoopCompacting ==
    /\ LoopGoesOn
    /\ run.compactions < MaxTurnCompactions /\ Len(prompt) > run.tail
    /\ CompactSession([run EXCEPT !.at = "call", !.compactions = @ + 1])
    /\ UNCHANGED <<calls, prompts, ctxDone>>

\* startLLMCall: what follows the previous call's prompt is recorded.
StartCall ==
    /\ LoopGoesOn \/ run.at = "call"
    /\ LET offset == IF run.promptLen < Len(prompt) THEN run.promptLen ELSE Len(prompt) IN
       calls' = Append(calls, [offset |-> offset, messages |-> SubSeq(prompt, offset + 1, Len(prompt))])
    /\ prompts' = Append(prompts, prompt)
    /\ run' = [run EXCEPT !.at = "calling", !.iteration = @ + 1, !.promptLen = Len(prompt)]
    /\ UNCHANGED <<prompt, seen, consumer, ctxDone, outcome>>

\* Variant: told with the iteration before.
Deltas_OffByOne(text) ==
    [i \in DOMAIN text |-> [type |-> "delta", iteration |-> run.iteration - 1, text |-> text[i]]]

\* The deltas of a stream, as events.
Deltas(text) ==
    [i \in DOMAIN text |-> [type |-> "delta", iteration |-> run.iteration, text |-> text[i]]]

\* The stream breaks, or ends without its final message, after some deltas.
CallFails ==
    /\ run.at = "calling"
    /\ \E text \in Texts, err \in {"llm", "guardrail"} :
           Yield(Deltas(text)) /\ Fails(IF ctxDone THEN "canceled" ELSE err)
    /\ UNCHANGED <<prompt, calls, prompts, ctxDone>>

\* The prompt is too long: it is compacted and the call made again, once in a row.
CallTooLong ==
    /\ run.at = "calling" /\ ~ctxDone
    /\ IF run.onError THEN Fails("llm") /\ UNCHANGED <<prompt, seen, consumer>>
       ELSE CompactSession([run EXCEPT !.at = "loop", !.onError = TRUE])
    /\ UNCHANGED <<calls, prompts, ctxDone>>

Said_(role, text, n) == [by |-> "run", role |-> role, text |-> text, n |-> n]
NextNumber == run.iteration * 10

Usage == [type |-> "usage", iteration |-> run.iteration]

\* An answer without tool calls is the run's result.
Answer ==
    /\ run.at = "calling"
    /\ \E text \in Texts, usage \in {<<>>, <<Usage>>} :
           LET message == Said_("assistant", text, NextNumber) IN
           /\ Yield(Deltas(text) \o usage)
           /\ prompt' = Append(prompt, message)
           /\ outcome' = [is |-> "returns", err |-> "", handoff |-> FALSE, parts |-> <<message>>]
    /\ run' = [run EXCEPT !.at = "finish", !.onError = FALSE]
    /\ UNCHANGED <<calls, prompts, ctxDone>>

CallEvents ==
    [i \in 1 .. RoundCalls |-> [type |-> "toolCall", iteration |-> run.iteration, id |-> i]]
ResultEvents(order) ==
    [i \in 1 .. RoundCalls |-> [type |-> "toolResult", iteration |-> run.iteration, id |-> order[i]]]

\* processToolCalls: the results are told in the order the calls finish (of calls cut
\* off at the output limit, in theirs) and kept in call order.  A tool that stops the
\* run goes before a handoff; a checkpoint may fail.
CallsForTools ==
    /\ run.at = "calling" /\ run.rounds < MaxToolRounds
    /\ \E text \in Texts, order \in Bijection(1 .. RoundCalls, 1 .. RoundCalls) :
           LET message == Said_("assistant", text, NextNumber)
               results == [i \in 1 .. RoundCalls |-> Said_("tool", <<i>>, NextNumber + i)]
               session == prompt \o <<message>> \o results
               Ends(err, handoff, parts) ==
                   /\ run' = [run EXCEPT !.at = "finish", !.onError = FALSE]
                   /\ outcome' = [is |-> "returns", err |-> err, handoff |-> handoff, parts |-> parts]
               own == IF text = <<>> THEN <<>> ELSE <<message>>
           IN  /\ Yield(Deltas(text) \o CallEvents \o ResultEvents(order))
               /\ prompt' = session
               /\ \/ /\ run' = [run EXCEPT !.at = "loop", !.onError = FALSE, !.rounds = @ + 1]
                     /\ UNCHANGED outcome
                  \/ Ends("stop", FALSE, own)
                  \/ Ends("", TRUE, own)
                  \/ Ends("save", FALSE, Partial(SubSeq(session, run.from + 1, Len(session))))
    /\ UNCHANGED <<calls, prompts, ctxDone>>

EventsNext ==
    \/ Prepare \/ PrepareFails \/ CtxEnds
    \/ LoopStops \/ LoopCompacting \/ StartCall
    \/ CallFails \/ CallTooLong \/ Answer \/ CallsForTools
    \/ FinishRun \/ LastEvent

EventsSpec == EventsInit /\ [][EventsNext]_eventVars

-----------------------------------------------------------------------------
(* Properties *)

\* The payload of a call "records only the messages added since the run's previous
\* call" (startLLMCall, agent/llmcall.go): whatever was compacted, failed or retried
\* in between, every prompt is the beginning of the one before it, to the offset,
\* and the messages recorded.
TraceRebuildsPrompts ==
    \A i \in DOMAIN calls :
        prompts[i] = (IF i = 1 THEN <<>> ELSE SubSeq(prompts[i - 1], 1, calls[i].offset))
                         \o calls[i].messages

Listened == consumer = "listens"
EventsOf(type, iteration) == {p \in DOMAIN seen : seen[p].type = type /\ seen[p].iteration = iteration}
EndEvents == {p \in DOMAIN seen : seen[p].type \in {"done", "failed"}}

\* The deltas of an iteration that went on are its message, nothing between them.
AnswersAreTold ==
    \A i \in DOMAIN prompt :
        prompt[i].by = "run" /\ prompt[i].role = "assistant" =>
            \E k \in 1 .. run.iteration, first \in 0 .. Len(seen) :
                /\ prompt[i].n = k * 10
                /\ EventsOf("delta", k) = first + 1 .. first + Len(prompt[i].text)
                /\ \A j \in DOMAIN prompt[i].text : seen[first + j].text = prompt[i].text[j]

\* Each call of a round has a result.
RoundsAreTold ==
    \A i \in 1 .. run.iteration :
        {seen[p].id : p \in EventsOf("toolCall", i)} = {seen[p].id : p \in EventsOf("toolResult", i)}

\* A compaction that starts ends at once, and one that failed is the last thing the run did;
\* the last one before a call told the size of the prompt that was called with.
CompactionsAreTold ==
    \A p \in DOMAIN seen :
        /\ seen[p].type = "compactionStart" =>
               /\ p + 1 \in DOMAIN seen /\ seen[p + 1].type = "compactionEnd"
               /\ seen[p + 1].failed => run.at \in {"finish", "returned", "ended"}
        /\ /\ seen[p].type = "compactionEnd" /\ seen[p].iteration \in DOMAIN prompts
           /\ \A q \in EventsOf("compactionEnd", seen[p].iteration) : q <= p
           => seen[p].after = Len(prompts[seen[p].iteration])

\* Events are in the order of the iterations, and calls before the results of their round.
EventsInOrder ==
    \A p, q \in DOMAIN seen :
        /\ p < q /\ q < Len(seen) => seen[p].iteration <= seen[q].iteration
        /\ seen[p].type = "toolCall" /\ seen[q].type = "toolResult"
               /\ seen[p].iteration = seen[q].iteration => p < q

\* What a consumer that listened to the end was told is what happened: each answer, round
\* and compaction, and one event, the last, has the result of the run; one that stopped
\* was told the beginning of it (RunStream, agent/stream.go).
EventsTellTheRun ==
    /\ Listened => AnswersAreTold /\ RoundsAreTold /\ CompactionsAreTold
    /\ Listened /\ run.at = "ended" => EndEvents = {Len(seen)}
    /\ EventsInOrder
    /\ \A p \in EndEvents : seen[p].result = outcome.parts

\* partialResultFromSession "scans the messages of the current run": the partial text
\* of a run that failed is the run's own (agent/agent.go).
PartialIsOfThisRun ==
    outcome.is = "done" => \A i \in DOMAIN outcome.parts : outcome.parts[i].by = "run"
=============================================================================
