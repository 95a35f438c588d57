------------------------------- MODULE Tracing -------------------------------
(***************************************************************************)
(* Spans of a trace, ended on the goroutines of the operations they are    *)
(* of: End adds a span's totals to its parent, and hands the span to the   *)
(* provider's processor, a Batch in front of a file (trace.Batch,          *)
(* trace/jsonfile).  Shutdown may come at any moment.                      *)
(*                                                                         *)
(* Totals count, for each span, how often it was added: the fields of      *)
(* trace.Totals are sums over the spans counted.                           *)
(***************************************************************************)
EXTENDS Integers, Sequences, FiniteSets

CONSTANTS Spans,
          ParentSpan, \* each span's parent, or NoSpan
          NoSpan,
          EndCalls,   \* the calls of End of each span, deferred and explicit
          QueueSize   \* WithQueueSize

\* A root span has no parent (trace.Start).
ASSUME SpanConstants ==
    /\ NoSpan \notin Spans
    /\ ParentSpan \in [Spans -> Spans \cup {NoSpan}]

VARIABLES
    started, ended,
    totals,     \* each span's descendants, with how often each was counted
    ending,     \* where each call of End is
    stopped,    \* the provider has stopped
    batch,      \* the Batch: closed, its queue, and the span its goroutine exports
    traceFile,  \* the file: the spans written, and closed
    unqueued,   \* the spans the Batch dropped
    shutdown,   \* where the call of Shutdown is
    endedBefore, \* what had ended when each span, and the provider, ended: history
    unwritten   \* the spans given to a closed file: history

traceVars ==
    <<started, ended, totals, ending, stopped, batch, traceFile, unqueued, shutdown, endedBefore, unwritten>>

TraceInit ==
    /\ started = {} /\ ended = {}
    /\ totals = [s \in Spans |-> [d \in Spans |-> 0]]
    /\ ending = [s \in Spans |-> [e \in EndCalls[s] |-> [at |-> "none"]]]
    /\ stopped = FALSE
    /\ batch = [closed |-> FALSE, queue |-> <<>>, exporting |-> <<>>]
    /\ traceFile = [records |-> <<>>, closed |-> FALSE]
    /\ unqueued = {} /\ unwritten = {}
    /\ shutdown = "none"
    /\ endedBefore = [s \in Spans \cup {NoSpan} |-> {}]

-----------------------------------------------------------------------------
(* Spans *)

\* A span may start under one that has ended.
StartSpan(s) ==
    /\ s \notin started
    /\ ParentSpan[s] # NoSpan => ParentSpan[s] \in started
    /\ started' = started \cup {s}
    /\ UNCHANGED <<ended, totals, ending, stopped, batch, traceFile, unqueued, shutdown, endedBefore, unwritten>>

\* The spans an End of which has returned.
Over == {s \in Spans : \E e \in EndCalls[s] : ending[s][e].at = "done"} \cap ended

Ending(s, e, step) == ending' = [ending EXCEPT ![s][e] = step]

\* Variant: whether the span has ended is not asked.
FirstEnd_Any(s) == TRUE

\* "End is idempotent: only the first call has an effect."
FirstEnd(s) == s \notin ended

EndSpan(s, e) ==
    /\ s \in started /\ ending[s][e].at = "none"
    /\ IF FirstEnd(s)
       THEN /\ ended' = ended \cup {s}
            /\ endedBefore' = [endedBefore EXCEPT ![s] = Over]
            /\ Ending(s, e, [at |-> "roll up"])
       ELSE Ending(s, e, [at |-> "again"]) /\ UNCHANGED <<ended, endedBefore>>
    /\ UNCHANGED <<started, totals, stopped, batch, traceFile, unqueued, shutdown, unwritten>>

\* A span and its descendants, as its own contribution comes with its totals.
WithOwn(s) == [totals[s] EXCEPT ![s] = @ + 1]

\* addChild: under the parent's lock, unless it has ended.
RollUp(s, e) ==
    /\ ending[s][e].at = "roll up"
    /\ LET p == ParentSpan[s]
       IN  totals' = IF p = NoSpan \/ p \in ended THEN totals
                     ELSE [totals EXCEPT ![p] = [d \in Spans |-> @[d] + WithOwn(s)[d]]]
    /\ Ending(s, e, [at |-> "deliver"])
    /\ UNCHANGED <<started, ended, stopped, batch, traceFile, unqueued, shutdown, endedBefore, unwritten>>

\* The provider is asked whether it records, and the data of the span is taken.
TakeData(s, e) ==
    /\ ending[s][e].at = "deliver"
    /\ Ending(s, e, IF stopped THEN [at |-> "done"]
                    ELSE [at |-> "on end", record |-> [span |-> s, totals |-> WithOwn(s)]])
    /\ UNCHANGED <<started, ended, totals, stopped, batch, traceFile, unqueued, shutdown, endedBefore, unwritten>>

-----------------------------------------------------------------------------
(* The Batch and the file behind it *)

\* A closed Batch or a full queue drops the span, and counts it.
OnEnd(s, e) ==
    /\ ending[s][e].at = "on end"
    /\ IF batch.closed \/ Len(batch.queue) = QueueSize
       THEN unqueued' = unqueued \cup {s} /\ UNCHANGED batch
       ELSE batch' = [batch EXCEPT !.queue = Append(@, ending[s][e].record)] /\ UNCHANGED unqueued
    /\ Ending(s, e, [at |-> "done"])
    /\ UNCHANGED <<started, ended, totals, stopped, traceFile, shutdown, endedBefore, unwritten>>

\* The Batch's goroutine takes a span, and exports it.
TakeRecord ==
    /\ batch.exporting = <<>> /\ batch.queue # <<>>
    /\ batch' = [batch EXCEPT !.exporting = <<Head(batch.queue)>>, !.queue = Tail(@)]
    /\ UNCHANGED <<started, ended, totals, ending, stopped, traceFile, unqueued, shutdown, endedBefore, unwritten>>

WriteRecord ==
    /\ batch.exporting # <<>>
    /\ batch' = [batch EXCEPT !.exporting = <<>>]
    /\ IF traceFile.closed
       THEN unwritten' = unwritten \cup {batch.exporting[1].span} /\ UNCHANGED traceFile
       ELSE traceFile' = [traceFile EXCEPT !.records = @ \o batch.exporting] /\ UNCHANGED unwritten
    /\ UNCHANGED <<started, ended, totals, ending, stopped, unqueued, shutdown, endedBefore>>

-----------------------------------------------------------------------------
(* Shutdown *)

\* The goroutine has ended: its queue is closed and it exported all of it.
Drained == batch.queue = <<>> /\ batch.exporting = <<>>

StopProvider ==
    /\ shutdown = "none"
    /\ stopped' = TRUE
    /\ shutdown' = "close"
    /\ endedBefore' = [endedBefore EXCEPT ![NoSpan] = Over]
    /\ UNCHANGED <<started, ended, totals, ending, batch, traceFile, unqueued, unwritten>>

\* No OnEnd is under way while the Batch is closed.
CloseBatch ==
    /\ shutdown = "close"
    /\ batch' = [batch EXCEPT !.closed = TRUE]
    /\ shutdown' = "drain"
    /\ UNCHANGED <<started, ended, totals, ending, stopped, traceFile, unqueued, endedBefore, unwritten>>

\* The goroutine is waited for, unless the caller's context ends.
CloseFile ==
    /\ shutdown = "drain"
    /\ \/ Drained /\ shutdown' = "flushed"
       \/ shutdown' = "cut short"
    /\ traceFile' = [traceFile EXCEPT !.closed = TRUE]
    /\ UNCHANGED <<started, ended, totals, ending, stopped, batch, unqueued, endedBefore, unwritten>>

TraceNext ==
    \/ \E s \in Spans :
           \/ StartSpan(s)
           \/ \E e \in EndCalls[s] : EndSpan(s, e) \/ RollUp(s, e) \/ TakeData(s, e) \/ OnEnd(s, e)
    \/ TakeRecord \/ WriteRecord
    \/ StopProvider \/ CloseBatch \/ CloseFile

TraceSpec == TraceInit /\ [][TraceNext]_traceVars

-----------------------------------------------------------------------------
(* Properties *)

\* A span's descendants, each of which ended before its parent did: the least set
\* with such children of the span and of its own members.
InTime(s) ==
    {d \in Spans : \A S \in SUBSET Spans :
        (\A c \in Spans : ParentSpan[c] \in S \cup {s} /\ c \in endedBefore[ParentSpan[c]] => c \in S)
            => d \in S}

Records == traceFile.records \o batch.exporting \o batch.queue

\* "Totals aggregates a span and all of its descendants", and "after End the value
\* is final" (Span.Totals): whatever goroutines end spans at once, a span that has
\* ended counts each descendant that ended in time once, none twice, and what is
\* exported of it says the same.
TotalsAreExact ==
    /\ \A s, d \in Spans : totals[s][d] <= 1
    /\ \A s \in ended : \A d \in InTime(s) : totals[s][d] = 1
    /\ \A k \in DOMAIN Records : Records[k].totals = WithOwn(Records[k].span)

\* "Shutdown drains the queue and then shuts next down" (Batch): a span that had ended
\* when the provider was stopped is exported once, or was dropped and counted; one is
\* given to a closed file only when the caller of Shutdown did not wait.
SpansAreKept ==
    /\ \A j, k \in DOMAIN Records : Records[j].span = Records[k].span => j = k
    /\ unwritten # {} => shutdown = "cut short"
    /\ shutdown = "flushed" =>
           \A s \in endedBefore[NoSpan] :
               s \in unqueued \/ \E k \in DOMAIN traceFile.records : traceFile.records[k].span = s

\* What is reported of a run, to its caller (Span.Totals) and in the trace (Batch), is
\* what ran.
TraceIsExact == TotalsAreExact /\ SpansAreKept
=============================================================================
