---------------------------- MODULE PromptStream ----------------------------
(***************************************************************************)
(* One prompt between nats.Client and nats.Server: the request, the acks   *)
(* that keep the caller waiting, the response's chunks, the error and the  *)
(* terminator.  The server's side is processPrompt and its keepalive       *)
(* goroutine, the caller's is Send and Stream.Text.                        *)
(*                                                                         *)
(* The broker keeps the order of a connection's messages.  The connection  *)
(* may be cut, for good: what was not delivered is lost, as it is when the *)
(* server's process dies.  Time passes in ticks; a message takes at most   *)
(* MaxDelay of them while the connection is up, and programs take none.    *)
(***************************************************************************)
EXTENDS Integers, SequencesExt

CONSTANTS MaxChunks,         \* bound on the chunks of a response
          KeepaliveInterval, \* WithKeepaliveInterval
          InactivityTimeout, \* WithInactivityTimeout
          MaxDelay,          \* bound on the delay of a message
          MaxRun,            \* bound on the keepalives of a run
          MaxPubFaults       \* bound on the publishes that fail

\* Durations are in ticks.
ASSUME PromptConstants ==
    /\ MaxChunks \in Nat /\ MaxRun \in Nat /\ MaxPubFaults \in Nat
    /\ KeepaliveInterval \in Nat /\ InactivityTimeout \in Nat /\ MaxDelay \in Nat

VARIABLES
    caller,    \* "new", "open" (Send returned), "reading" (in Text), "done"
    outcome,   \* what Send or Text returned
    got,       \* the response chunks Text has read
    quiet,     \* ticks since Text began to wait for the next message
    request,   \* "none", the request on its way, "arrived" or "lost"
    wire,      \* the messages on their way to the caller, with their age
    serving,   \* where processPrompt is
    run,       \* what the handler returned
    keepalive, \* the keepalive goroutine: "off", "waits", "responds", "ended"
    kaAge,     \* ticks since the ticker's last
    cancelled, \* whether a drain has cancelled the prompt's context
    sent,      \* all that processPrompt published
    errorLost, \* whether its error could not be published (history)
    up, pubFaults

promptVars == <<caller, outcome, got, quiet, request, wire, serving, run, keepalive,
                kaAge, cancelled, sent, errorLost, up, pubFaults>>
callerVars == <<caller, outcome, got, quiet>>
keepaliveVars == <<keepalive, kaAge>>
published == <<sent, errorLost, pubFaults>>

NoOutcome == [kind |-> "none", permanent |-> FALSE]
NoRun == [kind |-> "none"]

PromptInit ==
    /\ caller = "new" /\ outcome = NoOutcome /\ got = <<>> /\ quiet = 0
    /\ request = "none" /\ wire = <<>>
    /\ serving = "idle" /\ run = NoRun /\ keepalive = "off" /\ kaAge = 0
    /\ cancelled = FALSE /\ sent = <<>> /\ errorLost = FALSE /\ up = TRUE /\ pubFaults = 0

-----------------------------------------------------------------------------
(* Errors *)

\* The codes the protocol allows (defaultErrCodes).
TableCodes == {400, 401, 403, 404, 409, 429, 500}

\* What a failed run can carry: a CodedError (or one the error mapper makes), a
\* cancellation by the drain, an LLM provider's error, or anything else.
RunErrors ==
    [from : {"coded"}, code : {404, 418, 429}]
        \cup [from : {"provider"}, code : {400, 429}]
        \cup [from : {"drain", "plain"}, code : {0}]

\* errorFor and providerErrorFor: only a rate limit keeps the provider's code.
ErrorFor(e) ==
    IF e.from = "coded" \/ (e.from = "provider" /\ e.code = 429) THEN e.code ELSE 500

\* sendCodedError: a code outside the table becomes 500.
SentCode(code) == IF code \in TableCodes THEN code ELSE 500

\* nats.Permanent of a ServiceError.
Permanent(code) == code \in 400 .. 499 /\ code # 429

-----------------------------------------------------------------------------
(* The caller *)

\* Send returns before it subscribes, or Text does, and unsubscribes.
Returns(o) == caller' = "done" /\ outcome' = o /\ wire' = <<>> /\ quiet' = 0
Failed(kind, permanent) == [kind |-> kind, permanent |-> permanent]

\* Send: the caller's context has ended, the request does not pass requestMsg's
\* checks, the connection is closed, or the request is published.  An agent whose
\* options changed since it was discovered refuses what the checks let through.
Send ==
    /\ caller = "new"
    /\ \/ Returns(Failed("cancelled", FALSE)) /\ UNCHANGED request
       \/ Returns(Failed("invalid", TRUE)) /\ UNCHANGED request
       \/ ~up /\ Returns(Failed("closed", FALSE)) /\ UNCHANGED request
       \/ /\ caller' = "open"
          /\ request' \in IF up THEN {"good", "refused"} ELSE {"lost"}
          /\ UNCHANGED <<outcome, wire, quiet>>
    /\ UNCHANGED <<got, serving, run, keepaliveVars, cancelled, published, up>>

\* Text begins to wait for a message.
Text ==
    /\ caller = "open"
    /\ caller' = "reading" /\ quiet' = 0
    /\ UNCHANGED <<outcome, got, request, wire, serving, run, keepaliveVars, cancelled,
                   published, up>>

\* nextMsg's deadline is counted from each call.
NextWait == 0

\* Text reads the next message: a terminator or an error ends it, a query does
\* too, and what it does not know it ignores.
Read ==
    /\ caller = "reading" /\ wire # <<>>
    /\ LET m == Head(wire).m IN
       \/ /\ m.kind = "end"
          /\ Returns([kind |-> "text", permanent |-> FALSE])
          /\ UNCHANGED got
       \/ /\ m.kind = "error"
          /\ Returns(Failed("service", Permanent(m.n)))
          /\ UNCHANGED got
       \/ /\ m.kind = "query"
          /\ Returns(Failed("query", TRUE))
          /\ UNCHANGED got
       \/ /\ m.kind = "chunk"
          /\ got' = Append(got, m.n) /\ quiet' = NextWait
          /\ wire' = Tail(wire)
          /\ UNCHANGED <<caller, outcome>>
       \/ /\ m.kind \in {"ack", "unknown"}
          /\ quiet' = NextWait
          /\ wire' = Tail(wire)
          /\ UNCHANGED <<caller, outcome, got>>
    /\ UNCHANGED <<request, serving, run, keepaliveVars, cancelled, published, up>>

TimedOut == quiet >= InactivityTimeout

\* nextMsg: its own deadline passes without a message.
TextTimesOut ==
    /\ caller = "reading" /\ TimedOut
    /\ Returns(Failed("timeout", FALSE))
    /\ UNCHANGED <<got, request, serving, run, keepaliveVars, cancelled, published, up>>

\* nextMsg: the broker says that nobody takes the request.
NoResponders ==
    /\ caller = "reading" /\ request \in {"good", "refused"} /\ up
    /\ Returns(Failed("closed", FALSE))
    /\ request' = "lost"
    /\ UNCHANGED <<got, serving, run, keepaliveVars, cancelled, published, up>>

\* nextMsg: the caller's context ends in Text; or it closes the stream unread.
CallerLeaves ==
    /\ caller \in {"open", "reading"}
    /\ Returns(Failed("cancelled", FALSE))
    /\ UNCHANGED <<got, request, serving, run, keepaliveVars, cancelled, published, up>>

-----------------------------------------------------------------------------
(* The server *)

Ack == [kind |-> "ack", n |-> 0]
End == [kind |-> "end", n |-> 0]
Error(code) == [kind |-> "error", n |-> code]
Chunk(n) == [kind |-> "chunk", n |-> n]

\* A message reaches a caller that listens.
Publishes(m) ==
    /\ sent' = Append(sent, m)
    /\ wire' = IF up /\ caller # "done" THEN Append(wire, [m |-> m, age |-> 0]) ELSE wire
    /\ UNCHANGED pubFaults

PublishFails ==
    /\ pubFaults < MaxPubFaults /\ pubFaults' = pubFaults + 1
    /\ UNCHANGED <<sent, wire>>

\* A publish whose error nobody looks at: an ack, a terminator.
Responds(m) == (Publishes(m) \/ PublishFails) /\ UNCHANGED errorLost

\* sendErrorBody: the error, published or not; the terminator comes next.
SendError(code) ==
    /\ \/ Publishes(Error(code)) /\ UNCHANGED errorLost
       \/ PublishFails /\ errorLost' = TRUE
    /\ serving' = "closing"

\* handlePrompt: a drain has closed the gate (ServerLifecycle), processPrompt refuses
\* the envelope, in both cases with no ack; or the handler is started.
Handle ==
    /\ serving = "idle" /\ request \in {"good", "refused"} /\ up
    /\ request' = "arrived"
    /\ \/ SendError(500) /\ UNCHANGED keepaliveVars
       \/ request = "refused" /\ SendError(400) /\ UNCHANGED keepaliveVars
       \/ /\ request = "good" /\ Responds(Ack)
          /\ serving' = "running"
          /\ keepalive' = "waits" /\ kaAge' = 0
    /\ UNCHANGED <<callerVars, run, cancelled, up>>

\* The ticker fires; the goroutine is about to publish an ack.
KeepaliveFires ==
    /\ keepalive = "waits" /\ kaAge = KeepaliveInterval
    /\ keepalive' = "responds" /\ kaAge' = 0
    /\ UNCHANGED <<callerVars, request, wire, serving, run, cancelled, published, up>>

\* An ack that cannot be published is forgotten.
KeepaliveAcks ==
    /\ keepalive = "responds"
    /\ Responds(Ack)
    /\ keepalive' = "waits"
    /\ UNCHANGED <<callerVars, request, serving, run, kaAge, cancelled, up>>

\* kaCtx is cancelled by kaCancel, and with the prompt's context it derives from.
KaCtxDone == cancelled \/ serving = "stopping"

\* Only between two responses does the goroutine see that it is cancelled; it stops its
\* ticker.
KeepaliveEnds ==
    /\ keepalive = "waits" /\ KaCtxDone
    /\ keepalive' = "ended" /\ kaAge' = 0
    /\ UNCHANGED <<callerVars, request, wire, serving, run, cancelled, published, up>>

\* cancelPrompts: a drain has spent its budget and the handler is still running.
DrainCancels ==
    /\ serving = "running" /\ ~cancelled
    /\ cancelled' = TRUE
    /\ UNCHANGED <<callerVars, request, wire, serving, run, keepaliveVars, published, up>>

\* The handler returns a text, in as many chunks as it takes (none when a
\* character does not fit the connection's limit), or an error.
HandlerReturns ==
    /\ serving = "running"
    /\ \/ \E n \in 0 .. MaxChunks : run' = [kind |-> "text", chunks |-> n]
       \/ \E e \in RunErrors :
              /\ e.from = "drain" => cancelled
              /\ run' = [kind |-> "error", error |-> e]
    /\ serving' = "stopping"
    /\ UNCHANGED <<callerVars, request, wire, keepaliveVars, cancelled, published, up>>

\* kaWg.Wait
KeepaliveStopped == keepalive = "ended"

\* The keepalive is over: the error, or the first chunk, can be sent.
HandlerAnswered ==
    /\ serving = "stopping" /\ KeepaliveStopped
    /\ \/ run.kind = "error" /\ SendError(SentCode(ErrorFor(run.error)))
       \/ run.kind = "text" /\ run.chunks = 0 /\ SendError(500)
       \/ /\ run.kind = "text" /\ run.chunks > 0
          /\ serving' = "sending"
          /\ UNCHANGED <<wire, published>>
    /\ UNCHANGED <<callerVars, request, run, keepaliveVars, cancelled, up>>

ChunksIn(messages) == Cardinality({i \in DOMAIN messages : messages[i].kind = "chunk"})
ChunksSent == ChunksIn(sent)

\* Variant: the terminator alone follows a chunk that was not published.
AfterLostChunk_Closing == "closing"

\* A chunk that is not published is reported before the stream is closed.
AfterLostChunk == "reporting"

SendChunk ==
    /\ serving = "sending" /\ ChunksSent < run.chunks
    /\ \/ Publishes(Chunk(ChunksSent + 1)) /\ UNCHANGED serving
       \/ PublishFails /\ serving' = AfterLostChunk
    /\ UNCHANGED <<callerVars, request, run, keepaliveVars, cancelled, errorLost, up>>

\* The error follows what went out.
ReportLostChunk ==
    /\ serving = "reporting"
    /\ SendError(500)
    /\ UNCHANGED <<callerVars, request, run, keepaliveVars, cancelled, up>>

\* The terminator, after the last chunk or the error, whatever became of it.
Terminate ==
    /\ \/ serving = "closing"
       \/ serving = "sending" /\ ChunksSent = run.chunks
    /\ Responds(End)
    /\ serving' = "ended"
    /\ UNCHANGED <<callerVars, request, run, keepaliveVars, cancelled, up>>

\* An agent of another SDK may ask a question, or send what the client does not
\* know.
ForeignChunk ==
    /\ serving = "running"
    /\ \A i \in DOMAIN sent : sent[i].kind = "ack"
    /\ \E kind \in {"query", "unknown"} : Publishes([kind |-> kind, n |-> 0])
    /\ UNCHANGED <<callerVars, request, serving, run, keepaliveVars, cancelled, errorLost, up>>

-----------------------------------------------------------------------------
(* The connection and time *)

\* What is on its way is lost, and so is all that follows.
Cut ==
    /\ up = TRUE /\ up' = FALSE
    /\ wire' = <<>>
    /\ request' = IF request \in {"good", "refused"} THEN "lost" ELSE request
    /\ UNCHANGED <<callerVars, serving, run, keepaliveVars, cancelled, sent, errorLost, pubFaults>>

\* No program has a step to make: the handler is running, or all is over.
NothingToDo ==
    \/ serving = "running" /\ keepalive = "waits" /\ ~KaCtxDone /\ kaAge < KeepaliveInterval
    \/ serving = "running" /\ keepalive = "ended"
    \/ serving \in {"idle", "ended"}

\* A tick comes when nothing else is to be done and no message is late.  Time is of
\* interest as long as the caller listens.
PromptTick ==
    /\ caller \in {"open", "reading"}
    /\ request \notin {"good", "refused"} \* it is delivered at once
    /\ NothingToDo
    /\ \A i \in DOMAIN wire : wire[i].age < MaxDelay
    /\ caller = "reading" => quiet < InactivityTimeout
    /\ Len(sent) <= MaxRun \/ serving # "running"
    /\ quiet' = IF caller = "reading" THEN quiet + 1 ELSE quiet
    /\ kaAge' = IF keepalive = "waits" THEN kaAge + 1 ELSE kaAge
    /\ wire' = [i \in DOMAIN wire |-> [wire[i] EXCEPT !.age = @ + 1]]
    /\ UNCHANGED <<caller, outcome, got, request, serving, run, keepalive, cancelled, sent,
                   errorLost, up, pubFaults>>
    /\ <<quiet', kaAge', wire'>> # <<quiet, kaAge, wire>>

ServerStep ==
    Handle \/ KeepaliveFires \/ KeepaliveAcks \/ KeepaliveEnds \/ HandlerReturns
        \/ HandlerAnswered \/ SendChunk \/ ReportLostChunk \/ Terminate

PromptNext ==
    \/ Send \/ Text \/ Read \/ TextTimesOut \/ NoResponders \/ CallerLeaves
    \/ ServerStep \/ DrainCancels \/ ForeignChunk \/ Cut \/ PromptTick

PromptSpec == PromptInit /\ [][PromptNext]_promptVars

\* Stream.Text goes on, time passes, and handlers return; nothing makes the
\* caller leave or the connection hold.
PromptProgress == Read \/ TextTimesOut \/ ServerStep \/ PromptTick

-----------------------------------------------------------------------------
(* Properties *)

\* Text returns the whole answer or an error, whichever publishes fail; only when the
\* error itself cannot be published does the terminator that still follows it (sendErrorBody)
\* make Text return what came before as the answer.
TextIsWhole ==
    outcome.kind = "text" =>
        \/ run.kind = "text" /\ got = [i \in 1 .. run.chunks |-> i]
        \/ errorLost

\* A response stream has one end: "ack chunks never race the terminator or the
\* response chunk" (processPrompt), an error is followed by the terminator and
\* nothing follows that.
StreamIsOrdered ==
    \A i, j \in DOMAIN sent : i < j =>
        /\ sent[i].kind # "end"
        /\ sent[i].kind = "error" => sent[j].kind = "end"
        /\ sent[i].kind = "chunk" => sent[j].kind \in {"chunk", "error", "end"}

\* What a caller reads of a prompt's stream is the whole answer, in order.
AnswerIsWhole == TextIsWhole /\ StreamIsOrdered

\* The caller does not give up on a run that goes on: with the connection up and
\* every message published, the acks keep the inactivity timeout away, however long
\* the handler takes, until a drain cancels the handler: its acks end then, though it
\* may go on.
NoFalseTimeout == outcome.kind = "timeout" => ~up \/ pubFaults > 0 \/ cancelled

\* An error is permanent only when the request is at fault or the handler said so
\* itself: a drain, a provider's refusal or rate limit, a lost chunk or a silent
\* agent may be met by another attempt (Permanent, nats/errors.go).
PermanentIsDeserved ==
    outcome.permanent =>
        \/ outcome.kind \in {"invalid", "query"}
        \/ sent[1] = Error(400)
        \/ run.kind = "error" /\ run.error.from = "coded" /\ run.error.code \notin {418, 429}

\* Text returns, whatever happened to the agent and the connection.
TextReturns == caller = "reading" ~> caller = "done"

\* How a call fails says what went wrong (Stream.Text, Permanent).
ErrorsAreDeserved == NoFalseTimeout /\ PermanentIsDeserved

\* What Stream.Text returns is the agent's answer, whole, or an error that happened, and
\* no timeout while the agent acknowledges (nats/client.go); but for a lost error.
AnswerIsDeserved == AnswerIsWhole /\ ErrorsAreDeserved
=============================================================================
