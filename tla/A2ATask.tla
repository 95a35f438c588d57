------------------------------- MODULE A2ATask -------------------------------
(***************************************************************************)
(* A phero agent served over A2A and the tool that calls it: the executor  *)
(* that runs the agent for a task and emits the task's events              *)
(* (a2a/executor.go), the tool's handler that sends the message and waits  *)
(* for the task (a2a/client.go), and what becomes of the reply on the way  *)
(* (a2a/message.go).                                                       *)
(*                                                                         *)
(* The A2A framework is external: it applies the events to the stored      *)
(* task, which is final once it has ended, may stop taking the events of   *)
(* an execution whose task has ended, and answers SendMessage with the     *)
(* task as it finds it.  A subscription breaks when it likes.              *)
(***************************************************************************)
EXTENDS Integers, Sequences, FiniteSetsExt, Functions

CONSTANTS Replies,   \* what the agent may answer: [parts, handoffs]
          MaxCancels \* bound on the cancel calls

SaysText(p) == p.kind = "text" /\ p.text # ""

\* A run that ends in handoffs returns the texts that are not blank (processToolCalls).
ASSUME RepliesAssumption ==
    /\ Replies \subseteq [parts : Seq([kind : {"text"}, text : STRING] \cup [kind : {"image", "reasoning"}]),
                         handoffs : BOOLEAN]
    /\ \A reply \in Replies : reply.handoffs => \A i \in DOMAIN reply.parts : SaysText(reply.parts[i])
    /\ MaxCancels \in Nat

VARIABLES
    task,      \* the stored task: its state and its status message's parts, by their places
    exec,      \* where Execute is
    cancels,   \* whether cancels holds the task's function
    taskCtx,   \* the run's context: "none", "live", "cancelled"
    answer,    \* what the run returned, "none" before: history
    canceller, \* where a call of Cancel is, and how many there were
    tool       \* where the tool's call is, and the task it holds

a2aVars == <<task, exec, cancels, taskCtx, answer, canceller, tool>>

Terminal(state) == state \in {"completed", "failed", "canceled"}
NoAnswer == [is |-> "none"]
Text(t) == [kind |-> "text", text |-> t]

\* The handoffs' note of Result.ReplyText.
Note == "note"

A2AInit ==
    /\ task = [state |-> "none", parts |-> <<>>]
    /\ exec = "new" /\ cancels = FALSE /\ taskCtx = "none"
    /\ answer = NoAnswer
    /\ canceller = [at |-> "idle", calls |-> 0]
    /\ tool = [at |-> "idle"]

-----------------------------------------------------------------------------
(* The reply *)

\* Result.TextContent: the texts it joins, by their places.
TextContent(parts) == [i \in {j \in DOMAIN parts : SaysText(parts[j])} |-> parts[i].text]

\* Result.ReplyText, as the texts it joins.
ReplyText(reply) ==
    IF DOMAIN TextContent(reply.parts) = {} /\ reply.handoffs THEN <<Note>> ELSE TextContent(reply.parts)

FirstOf(texts) == IF DOMAIN texts = {} THEN "" ELSE texts[Min(DOMAIN texts)]

\* translateResultToA2A: reasoning has no part of its own.
TranslateResult(reply) ==
    Restrict(reply.parts, {i \in DOMAIN reply.parts : reply.parts[i].kind # "reasoning"})

\* Variant: the reply's text is not used when there is no result.
Fallback_None(reply) == TranslateResult(reply)

Fallback(reply) ==
    IF DOMAIN TranslateResult(reply) = {} THEN <<Text(FirstOf(ReplyText(reply)))>>
    ELSE TranslateResult(reply)

\* extractTextFromResult: the first part with text.
ExtractText(parts) == FirstOf(TextContent(parts))

-----------------------------------------------------------------------------
(* The framework: what an event does to the task *)

Emit(state, parts) ==
    task' = IF Terminal(task.state) THEN task ELSE [state |-> state, parts |-> parts]

\* An execution whose task has ended may find that nobody takes its events.
MayStop == Terminal(task.state)

-----------------------------------------------------------------------------
(* Execute *)

Submit ==
    /\ exec = "new" /\ tool.at # "idle"
    /\ exec' = "submitted"
    /\ Emit("submitted", <<>>)
    /\ UNCHANGED <<cancels, taskCtx, answer, canceller, tool>>

Work ==
    /\ exec = "submitted"
    /\ exec' = "working"
    /\ Emit("working", <<>>)
    /\ UNCHANGED <<cancels, taskCtx, answer, canceller, tool>>

StopBefore ==
    /\ exec \in {"submitted", "working"} /\ MayStop
    /\ exec' = "done"
    /\ UNCHANGED <<task, cancels, taskCtx, answer, canceller, tool>>

RegisterCancel ==
    /\ exec = "working"
    /\ exec' = "runs"
    /\ cancels' = TRUE /\ taskCtx' = "live"
    /\ UNCHANGED <<task, answer, canceller, tool>>

\* The request's context, or its deadline, ends the run's.
RequestEnds ==
    /\ exec = "runs" /\ taskCtx = "live"
    /\ taskCtx' = "cancelled"
    /\ UNCHANGED <<task, exec, cancels, answer, canceller, tool>>

\* Run answers or fails.  Its error may wrap context.Canceled or DeadlineExceeded, of
\* the run's context or of any other: a model's own timeout is one, with the run's live.
RunReturns ==
    /\ exec = "runs"
    /\ \/ \E reply \in Replies : answer' = [is |-> "reply", reply |-> reply]
       \/ \E wraps \in BOOLEAN : answer' = [is |-> "error", wraps |-> wraps]
    /\ exec' = "returned"
    /\ UNCHANGED <<task, cancels, taskCtx, canceller, tool>>

\* Whose cancellation it is, or which deadline, is not asked.
IsCancellation(run) == run.is = "error" /\ run.wraps = TRUE
IsFailure(run) == run.is = "error" /\ run.wraps = FALSE

\* The terminal event of what Run returned, and the deferred cleanup.
Finish ==
    /\ exec = "returned"
    /\ \/ answer.is = "reply" /\ Emit("completed", Fallback(answer.reply))
       \/ IsFailure(answer) /\ Emit("failed", <<Text("reason")>>)
       \/ IsCancellation(answer) /\ Emit("canceled", <<>>)
    /\ exec' = "done" /\ cancels' = FALSE /\ taskCtx' = "cancelled"
    /\ UNCHANGED <<answer, canceller, tool>>

-----------------------------------------------------------------------------
(* Cancel *)

\* The function of the task's execution is called, if it is registered by now.
CancelCalled ==
    /\ canceller.at = "idle" /\ canceller.calls < MaxCancels
    /\ task.state # "none"
    /\ taskCtx' = IF cancels THEN "cancelled" ELSE taskCtx
    /\ canceller' = [at |-> "looked", calls |-> canceller.calls + 1]
    /\ UNCHANGED <<task, exec, cancels, answer, tool>>

CancelEmits ==
    /\ canceller.at = "looked"
    /\ Emit("canceled", <<>>)
    /\ canceller' = [canceller EXCEPT !.at = "idle"]
    /\ UNCHANGED <<exec, cancels, taskCtx, answer, tool>>

-----------------------------------------------------------------------------
(* The tool's call: the handler of Client.AsTool, and waitForTask *)

CallOver(outcome) == [at |-> "over", outcome |-> outcome]
Error(e) == [is |-> e]

\* What the handler makes of an ended task.
Outcome(t) ==
    IF t.state = "failed" THEN Error("ErrTaskFailed")
    ELSE IF t.state = "canceled" THEN Error("ErrTaskCanceled")
    ELSE IF ExtractText(t.parts) = "" THEN Error("ErrNoTextContent")
    ELSE [is |-> "text", text |-> ExtractText(t.parts)]

SendMessage ==
    /\ tool.at = "idle"
    /\ tool' = [at |-> "sent"]
    /\ UNCHANGED <<task, exec, cancels, taskCtx, answer, canceller>>

\* SendMessage returns the task, which has ended or is waited for.
Sent ==
    /\ tool.at = "sent" /\ task.state # "none"
    /\ tool' = IF Terminal(task.state) THEN CallOver(Outcome(task)) ELSE [at |-> "subscribes"]
    /\ UNCHANGED <<task, exec, cancels, taskCtx, answer, canceller>>

\* An event with the task; a status event, after which GetTask is asked.
SubscriptionEvent ==
    /\ tool.at = "subscribes"
    /\ Terminal(task.state)
    /\ \/ tool' = CallOver(Outcome(task))
       \/ tool' = [at |-> "gets"]
    /\ UNCHANGED <<task, exec, cancels, taskCtx, answer, canceller>>

GetTask ==
    /\ tool.at = "gets"
    /\ tool' \in {CallOver(Outcome(task)), CallOver(Error("ErrCallFailed"))}
    /\ UNCHANGED <<task, exec, cancels, taskCtx, answer, canceller>>

\* No subscription, or it broke, or it ended.
SubscriptionBreaks ==
    /\ tool.at = "subscribes"
    /\ tool' = [at |-> "polls"]
    /\ UNCHANGED <<task, exec, cancels, taskCtx, answer, canceller>>

\* A poll that finds the task going on waits for the next tick.
Poll ==
    /\ tool.at = "polls"
    /\ \/ Terminal(task.state) /\ tool' = CallOver(Outcome(task))
       \/ tool' = CallOver(Error("ErrCallFailed"))
    /\ UNCHANGED <<task, exec, cancels, taskCtx, answer, canceller>>

\* The tool call's context ends: the calls and the wait fail.
ToolCtxEnds ==
    /\ tool.at \in {"sent", "subscribes", "gets", "polls"}
    /\ tool' = CallOver(Error("ErrCallFailed"))
    /\ UNCHANGED <<task, exec, cancels, taskCtx, answer, canceller>>

A2ANext ==
    \/ Submit \/ Work \/ StopBefore \/ RegisterCancel \/ RequestEnds \/ RunReturns \/ Finish
    \/ CancelCalled \/ CancelEmits
    \/ SendMessage \/ Sent \/ SubscriptionEvent \/ GetTask \/ SubscriptionBreaks \/ Poll \/ ToolCtxEnds

A2ASpec == A2AInit /\ [][A2ANext]_a2aVars

-----------------------------------------------------------------------------
(* Properties *)

\* Whatever races it (a Cancel, a broken subscription, the end of a request), the
\* tool reports what became of the task: text only of a run that answered, and the
\* first text of what a local caller reads (Result.ReplyText); a failure only of a run
\* whose error is no cancellation; a cancellation only of a task someone cancelled, or
\* whose run ended in a cancellation or at a deadline, its own or another's.  That an
\* answer has no text is reported only of one that has none (Client.AsTool,
\* a2a/client.go; Execute, a2a/executor.go).
ToolReportsTheRun ==
    tool.at = "over" =>
        LET o == tool.outcome IN
        /\ o.is \in {"text", "ErrNoTextContent"} => answer.is = "reply"
        /\ o.is = "text" => o.text # "" /\ o.text = FirstOf(ReplyText(answer.reply))
        /\ o.is = "ErrNoTextContent" => DOMAIN ReplyText(answer.reply) = {}
        /\ o.is = "ErrTaskFailed" => answer.is = "error" /\ ~answer.wraps
        /\ o.is = "ErrTaskCanceled" => canceller.calls > 0 \/ (answer.is = "error" /\ answer.wraps)
=============================================================================
