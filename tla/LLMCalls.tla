------------------------------ MODULE LLMCalls ------------------------------
(***************************************************************************)
(* Calls of a model through the retry middleware around the limiter, as    *)
(* the package's doc composes them: an attempt takes a token and a slot,   *)
(* calls the model, gives the slot back, and may be followed by another.   *)
(* A call is buffered (Execute) or a stream, whose chunks reach the caller *)
(* as they come.  The limiter is shared by every caller.                   *)
(***************************************************************************)
EXTENDS Integers, Sequences, FiniteSets

CONSTANTS LLMCallers,
          Streaming,         \* those that call ExecuteStream
          MaxAttempts,       \* NewRetry
          RequestsPerSecond, \* NewLimiter: the bucket's capacity
          MaxConcurrent,     \* NewLimiter: the slots
          MaxLLMChunks       \* bound on the chunks of an answer

\* NewRetry and NewLimiter refuse anything else.
ASSUME CallConstants ==
    /\ MaxAttempts \in Nat \ {0}
    /\ RequestsPerSecond \in Nat \ {0} /\ MaxConcurrent \in Nat \ {0}

VARIABLES
    tokens,    \* the tokens in the bucket
    spent,     \* how many of the first burst were taken: history
    stopped,   \* stopCh is closed
    holders,   \* the calls that hold a slot
    llm        \* each call

callVars == <<tokens, spent, stopped, holders, llm>>

\* How an attempt fails, and how a call ends.
Failures == {"retryable", "permanent", "canceled", "deadline", "stopped"}
Ended == Failures \cup {"ok", "left", "exhausted"}

\* A chunk is <<attempt, its place in that attempt's answer>>.
CallInit ==
    /\ tokens = 0 /\ spent = 0
    /\ stopped = FALSE /\ holders = {}
    /\ llm = [c \in LLMCallers |->
                [at |-> "idle", stream |-> c \in Streaming, ctx |-> "live", attempt |-> 1, got |-> <<>>,
                 yielded |-> FALSE, why |-> "none"]]

Set(c, fields) == llm' = [llm EXCEPT ![c] = [f \in DOMAIN @ |-> IF f \in DOMAIN fields THEN fields[f] ELSE @[f]]]

CallBegins(c) ==
    /\ llm[c].at = "idle"
    /\ Set(c, [at |-> "attempt"])
    /\ UNCHANGED <<tokens, spent, stopped, holders>>

\* The caller gives up, or its deadline passes.
CtxEnds(c) ==
    /\ llm[c].at \notin Ended /\ llm[c].ctx = "live"
    /\ \E why \in {"canceled", "deadline"} : Set(c, [ctx |-> why])
    /\ UNCHANGED <<tokens, spent, stopped, holders>>

-----------------------------------------------------------------------------
(* The limiter *)

\* A tick of the producer: a token, unless the bucket is full.  One that races the
\* limiter's end counts as before it.
ProduceToken ==
    /\ ~stopped /\ tokens < RequestsPerSecond
    /\ tokens' = tokens + 1
    /\ UNCHANGED <<spent, stopped, holders, llm>>

StopLimiter ==
    /\ ~stopped /\ stopped' = TRUE
    /\ UNCHANGED <<tokens, spent, holders, llm>>

SpendToken ==
    /\ tokens > 0 /\ tokens' = tokens - 1
    /\ spent' = IF spent < RequestsPerSecond THEN spent + 1 ELSE spent

\* A select takes any of its ready cases: the caller's context, the limiter's end.
GivesUp(c) ==
    /\ UNCHANGED <<tokens, spent, stopped, holders>>
    /\ \/ llm[c].ctx # "live" /\ Set(c, [at |-> "failed", why |-> llm[c].ctx])
       \/ stopped /\ Set(c, [at |-> "failed", why |-> "stopped"])

\* acquire: without waiting when it can, whatever the context.
Acquire(c) ==
    /\ llm[c].at = "acquire"
    /\ \/ /\ SpendToken
          /\ Set(c, [at |-> "slot"])
       \/ /\ tokens = 0
          /\ Set(c, [at |-> "awaitToken"])
          /\ UNCHANGED <<tokens, spent>>
    /\ UNCHANGED <<stopped, holders>>

HasRoom(n) == n < MaxConcurrent

TakeASlot(c) ==
    /\ HasRoom(Cardinality(holders))
    /\ holders' = holders \cup {c}
    /\ Set(c, [at |-> "calling", yielded |-> FALSE])
    /\ UNCHANGED <<tokens, spent, stopped>>

TrySlot(c) ==
    /\ llm[c].at = "slot"
    /\ \/ TakeASlot(c)
       \/ /\ ~HasRoom(Cardinality(holders))
          /\ Set(c, [at |-> "awaitSlot"])
          /\ UNCHANGED <<tokens, spent, stopped, holders>>

\* block: a token that was taken is not given back when the slot is not.
Block(c) ==
    \/ /\ llm[c].at = "awaitToken" /\ SpendToken
       /\ Set(c, [at |-> "awaitSlot"])
       /\ UNCHANGED <<stopped, holders>>
    \/ llm[c].at = "awaitSlot" /\ TakeASlot(c)
    \/ llm[c].at \in {"awaitToken", "awaitSlot"} /\ GivesUp(c)

-----------------------------------------------------------------------------
(* The model behind the limiter *)

\* The deferred release, when the inner call or stream is over, or is left.
Freed(c, at) == holders \ {c}

\* The attempt's call ends, and its slot is free before the outcome is looked at.
AttemptEnds(c, fields) ==
    /\ Set(c, fields)
    /\ holders' = Freed(c, fields.at)
    /\ UNCHANGED <<tokens, spent, stopped>>

NextChunk(c) == <<llm[c].attempt, Cardinality({k \in DOMAIN llm[c].got : llm[c].got[k][1] = llm[c].attempt}) + 1>>

\* A chunk of a stream, which the caller may be the last to read.
ChunkComes(c) ==
    /\ llm[c].at = "calling" /\ llm[c].stream
    /\ NextChunk(c)[2] <= MaxLLMChunks
    /\ LET got == Append(llm[c].got, NextChunk(c))
       IN  \/ /\ Set(c, [got |-> got, yielded |-> TRUE])
              /\ UNCHANGED <<tokens, spent, stopped, holders>>
           \/ AttemptEnds(c, [at |-> "left", got |-> got])

\* The stream ends after its last chunk; a buffered answer comes whole.
ModelAnswers(c) ==
    /\ llm[c].at = "calling"
    /\ llm[c].stream => llm[c].yielded
    /\ AttemptEnds(c, [at |-> "ok",
                       got |-> IF llm[c].stream THEN llm[c].got ELSE Append(llm[c].got, NextChunk(c))])

ModelFails(c) ==
    /\ llm[c].at = "calling"
    /\ \E why \in {"retryable", "permanent"} \cup ({llm[c].ctx} \ {"live"}) :
           AttemptEnds(c, [at |-> "failed", why |-> why])

-----------------------------------------------------------------------------
(* The retry middleware *)

\* An attempt starts only under a live context.
BeginAttempt(c) ==
    /\ llm[c].at = "attempt"
    /\ Set(c, [at |-> IF llm[c].ctx = "live" THEN "acquire" ELSE llm[c].ctx])
    /\ UNCHANGED <<tokens, spent, stopped, holders>>

\* llm.IsRetryable: an expired deadline counts as a timeout.
ShouldRetry(why) == why \in {"retryable", "deadline"}

\* Variant: what the caller has read so far is not looked at.
MayRetry_Partial(c, why) == ShouldRetry(why)

\* Not once a chunk reached the caller, who would get it twice.
MayRetry(c, why) == ShouldRetry(why) /\ ~llm[c].yielded

LastAttempt(c) == llm[c].attempt >= MaxAttempts

\* streamOutcome, and the same decisions in Execute's loop.
Judge(c) ==
    /\ llm[c].at = "failed"
    /\ Set(c, [at |-> IF ~MayRetry(c, llm[c].why) THEN llm[c].why
                     ELSE IF LastAttempt(c) THEN "exhausted"
                     ELSE IF llm[c].ctx = "live" THEN "backoff"
                     ELSE llm[c].ctx])
    /\ UNCHANGED <<tokens, spent, stopped, holders>>

\* The wait before the next attempt, which the context cuts short.
Backoff(c) ==
    /\ llm[c].at = "backoff"
    /\ \/ Set(c, [at |-> "acquire", attempt |-> llm[c].attempt + 1])
       \/ llm[c].ctx # "live" /\ Set(c, [at |-> llm[c].ctx])
    /\ UNCHANGED <<tokens, spent, stopped, holders>>

CallProgress(c) ==
    \/ BeginAttempt(c) \/ Acquire(c) \/ TrySlot(c) \/ Block(c)
    \/ ModelAnswers(c) \/ ModelFails(c) \/ Judge(c) \/ Backoff(c)

CallNext ==
    \/ ProduceToken \/ StopLimiter
    \/ \E c \in LLMCallers : CallBegins(c) \/ CtxEnds(c) \/ ChunkComes(c) \/ CallProgress(c)

CallSpec == CallInit /\ [][CallNext]_callVars

-----------------------------------------------------------------------------
(* Properties *)

\* "a retry would deliver it twice" (retryLLM.ExecuteStream): what a caller got is a
\* beginning of one attempt's answer, the last one's when the call succeeds; a call
\* fails for its context, the limiter's end or the attempts only when it is so, and
\* no more calls run at once than the limiter allows.
OneAnswer ==
    /\ Cardinality(holders) <= MaxConcurrent
    /\ \A c \in LLMCallers :
           LET call == llm[c]
           IN  /\ \A k \in DOMAIN call.got : call.got[k] = <<call.attempt, k>>
               /\ call.at = "ok" => call.got # <<>>
               /\ call.attempt <= MaxAttempts
               /\ call.at = "exhausted" => call.attempt = MaxAttempts /\ call.got = <<>>
               /\ call.at \in {"canceled", "deadline"} => call.ctx = call.at
               /\ call.at = "stopped" => stopped
               /\ call.at = "retryable" => call.got # <<>>
               /\ call.at = "calling" <=> c \in holders

\* Whatever the others do, and when the limiter is stopped too, a call gets its turn
\* and ends: tokens keep coming, slots come back on every path, attempts run out.
EveryCallEnds == \A c \in LLMCallers : llm[c].at = "attempt" ~> llm[c].at \in Ended

\* "The bucket is pre-filled up to one second worth of tokens so the first burst of
\* requests is not artificially delayed" (NewLimiter): the first RequestsPerSecond
\* attempts wait for no token.
FirstBurstIsNotDelayed ==
    spent < RequestsPerSecond => \A c \in LLMCallers : llm[c].at # "awaitToken"
=============================================================================
