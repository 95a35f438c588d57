------------------------------ MODULE ToolRound ------------------------------
(***************************************************************************)
(* One round of tool calls of an agent (agent.Agent.processToolCalls): the *)
(* calls of a response run in batches, one goroutine per call, at most     *)
(* maxParallelTools at a time, an exclusive call in a batch of its own.    *)
(* The run's goroutine collects each batch, emitting a result as soon as   *)
(* its call sent its index, and appends all of them to the session at the  *)
(* end.                                                                    *)
(*                                                                         *)
(* A call is what its tool is, "plain", "exclusive" or "handoff" (a plain  *)
(* tool whose name hands the run over); a result is how the call ended.    *)
(***************************************************************************)
EXTENDS Integers, SequencesExt, FiniteSetsExt

CONSTANTS MaxCalls,        \* bound on the calls of a response
          MaxParallelTools \* SetMaxParallelTools: 0 is no limit, and so is less

ASSUME RoundConstants == MaxCalls \in Nat /\ MaxParallelTools \in Nat

VARIABLES
    calls,     \* the calls of the response
    round,     \* "batch", "append", or how the round ended
    batch,     \* the batch that runs
    worker,    \* where the goroutine of each call is
    holding,   \* the calls that hold one of the batch's slots
    results,   \* what each call returned, and whether it stops the run; "none" before
    finished,  \* the channel of the batch
    collected, \* how many were received from it
    emitted,   \* the results emitted, in order: <<call, result>>
    session    \* the results appended to the session

roundVars == <<calls, round, batch, worker, holding, results, finished, collected, emitted, session>>

Kinds == {"plain", "exclusive", "handoff"}

\* The batch of a call: an exclusive call ends the batch before it and is one.
\* Empty batches are left out.
NewBatch(i) == i > 1 /\ (calls[i] = "exclusive" \/ calls[i - 1] = "exclusive")
BatchOf(i) == Cardinality({j \in 1 .. i : NewBatch(j)}) + 1

\* Variant: an exclusive call ends the batch before it and begins the next one.
Batch_Open(b) == {i \in DOMAIN calls :
    Cardinality({j \in 1 .. i : j > 1 /\ calls[j] = "exclusive"}) + 1 = b}

Batch(b) == {i \in DOMAIN calls : BatchOf(i) = b}

\* The slots are made anew for each batch.
HasSlot == MaxParallelTools = 0 \/ Cardinality(holding) < MaxParallelTools

\* The response, with its calls; one that was cut off runs none of them.
RoundInit ==
    /\ calls \in BoundedSeq(Kinds, MaxCalls) \ {<<>>}
    /\ round = "batch"
    /\ batch = 1
    /\ worker = [i \in DOMAIN calls |-> "spawned"]
    /\ holding = {} /\ collected = 0
    /\ results = [i \in DOMAIN calls |-> "none"]
    /\ finished = <<>> /\ emitted = <<>> /\ session = <<>>

\* Every call gets an error result, and its event.
Truncated ==
    /\ round = "batch" /\ batch = 1 /\ \A i \in DOMAIN calls : worker[i] = "spawned"
    /\ round' = "truncated"
    /\ results' = [i \in DOMAIN calls |-> "result"]
    /\ emitted' = [i \in DOMAIN calls |-> <<i, "result">>]
    /\ session' = results'
    /\ UNCHANGED <<calls, batch, worker, holding, finished, collected>>

-----------------------------------------------------------------------------
(* The goroutine of a call *)

TakeSlot(i) ==
    /\ round = "batch" /\ i \in Batch(batch)
    /\ worker[i] = "spawned" /\ HasSlot
    /\ worker' = [worker EXCEPT ![i] = "running"]
    /\ holding' = holding \cup {i}
    /\ UNCHANGED <<calls, round, batch, results, finished, collected, emitted, session>>

\* handleToolCall: a failure is a result for the model to read, and so is the note
\* of a tool that stops the run.
ToolReturns(i) ==
    /\ worker[i] = "running"
    /\ \E r \in {"result", "stop"} : results' = [results EXCEPT ![i] = r]
    /\ worker' = [worker EXCEPT ![i] = "stored"]
    /\ UNCHANGED <<calls, round, batch, holding, finished, collected, emitted, session>>

MaySend(i) == worker[i] = "stored"

SendIndex(i) ==
    /\ MaySend(i)
    /\ finished' = Append(finished, i)
    /\ worker' = [worker EXCEPT ![i] = "sent"]
    /\ UNCHANGED <<calls, round, batch, holding, results, collected, emitted, session>>

\* The deferred release, which the next batch does not wait for.
ReleaseSlot(i) ==
    /\ worker[i] = "sent" /\ i \in holding
    /\ worker' = [worker EXCEPT ![i] = "ended"]
    /\ holding' = holding \ {i}
    /\ UNCHANGED <<calls, round, batch, results, finished, collected, emitted, session>>

-----------------------------------------------------------------------------
(* The run's goroutine *)

EmitResult ==
    /\ round = "batch" /\ finished # <<>>
    /\ emitted' = Append(emitted, <<Head(finished), results[Head(finished)]>>)
    /\ finished' = Tail(finished)
    /\ collected' = collected + 1
    /\ UNCHANGED <<calls, round, batch, worker, holding, results, session>>

\* The slots of the batch go out of use; its goroutines may still give one back.
BatchEnds ==
    /\ round = "batch" /\ collected = Cardinality(Batch(batch))
    /\ IF batch = BatchOf(Len(calls))
       THEN round' = "append" /\ UNCHANGED <<batch, collected>>
       ELSE batch' = batch + 1 /\ collected' = 0 /\ UNCHANGED round
    /\ holding' = {}
    /\ UNCHANGED <<calls, worker, results, finished, emitted, session>>

Outcome ==
    IF \E i \in DOMAIN calls : results[i] = "stop" THEN "stopped"
    ELSE IF \E i \in DOMAIN calls : calls[i] = "handoff" THEN "handedOff"
    ELSE "next"

\* The results in call order; a stop ends the run even if a call handed it off.
AppendResults ==
    /\ round = "append"
    /\ session' = results
    /\ round' = Outcome
    /\ UNCHANGED <<calls, batch, worker, holding, results, finished, collected, emitted>>

RoundNext ==
    \/ Truncated \/ EmitResult \/ BatchEnds \/ AppendResults
    \/ \E i \in DOMAIN calls : TakeSlot(i) \/ ToolReturns(i) \/ SendIndex(i) \/ ReleaseSlot(i)

RoundSpec == RoundInit /\ [][RoundNext]_roundVars

-----------------------------------------------------------------------------
(* Properties *)

Running == {i \in DOMAIN calls : worker[i] \in {"running", "stored"}}

\* "each runs alone, after the calls before it and before the calls after it"
\* (runToolCalls), whatever the order in which the goroutines are scheduled.
ExclusiveRunsAlone ==
    \A i \in Running : calls[i] = "exclusive" =>
        /\ Running = {i}
        /\ \A j \in DOMAIN calls : j < i => results[j] # "none"
        /\ \A j \in DOMAIN calls : j > i => results[j] = "none"

\* What processToolCalls promises of the round: exclusive calls run alone, no more
\* than maxParallelTools at once; each result is emitted once, after it is there;
\* and when the round is over each call has one result, in the session in the order
\* of the calls, and was emitted.
RoundIsWhole ==
    /\ ExclusiveRunsAlone
    /\ MaxParallelTools = 0 \/ Cardinality(Running) <= MaxParallelTools
    /\ \A k \in DOMAIN emitted :
           /\ emitted[k][2] # "none"
           /\ emitted[k][2] = results[emitted[k][1]]
           /\ \A l \in DOMAIN emitted : emitted[l][1] = emitted[k][1] => l = k
    /\ round \notin {"batch", "append"} =>
           /\ Len(emitted) = Len(calls)
           /\ Len(session) = Len(calls)
           /\ \A i \in DOMAIN calls : session[i] = results[i] /\ session[i] # "none"
=============================================================================
