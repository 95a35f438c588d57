----------------------------- MODULE ReplyStream -----------------------------
(***************************************************************************)
(* ExecuteStream of llm/openai and llm/google: an answer that arrives in   *)
(* pieces is passed on as it comes and put together for the terminal       *)
(* chunk.  Text is a sequence of words, 0 standing for white space.        *)
(*                                                                         *)
(* llm/openai: pieces of thinking, text and tool calls come in any order;  *)
(* those of a call have its index, and the first one its id and name.      *)
(* llm/google: each response has parts, calls whole.                       *)
(***************************************************************************)
EXTENDS Integers, SequencesExt

CONSTANTS Wires,      \* of "openai", "google"
          Texts,      \* the texts and the thinking of an answer
          MaxIndexes, \* bound on its calls
          CleanCuts   \* whether a stream may end early as if it were complete

VARIABLES wire,   \* the provider
          source, \* the answer: thinking, text, and the arguments of each call
          sent,   \* how much of each has arrived
          gathered, \* what ExecuteStream keeps
          seen,   \* what it has yielded
          streamAt, \* "open", "done", "failed", "stopped"
          final   \* the terminal chunk's message

streamVars == <<wire, source, sent, gathered, seen, streamAt, final>>

Arguments == <<1, 2>>
NoFinal == [thinking |-> <<>>, text |-> <<>>, calls |-> <<>>]
NothingSent == -1 \* of a call: not even its id

StreamInit ==
    /\ wire \in Wires
    /\ source \in [thinking : Texts, text : Texts, calls : 0 .. MaxIndexes]
    /\ sent = [thinking |-> 0, text |-> 0, calls |-> [i \in 1 .. MaxIndexes |-> NothingSent]]
    /\ gathered = [thinking |-> <<>>, text |-> <<>>, order |-> <<>>, calls |-> [i \in {} |-> <<>>]]
    /\ seen = NoFinal /\ streamAt = "open" /\ final = NoFinal

-----------------------------------------------------------------------------
(* Pieces *)

\* delta.Content and delta.ReasoningContent, or a part with text: a word of it.
TextDelta(kind) ==
    /\ streamAt = "open" /\ sent[kind] < Len(source[kind])
    /\ LET word == source[kind][sent[kind] + 1]
       IN  /\ gathered' = [gathered EXCEPT ![kind] = Append(@, word)]
           /\ seen' = [seen EXCEPT ![kind] = Append(@, word)]
    /\ sent' = [sent EXCEPT ![kind] = @ + 1]
    /\ UNCHANGED <<wire, source, streamAt, final>>

\* Variant: pieces are taken in the order of their coming, whatever their index.
IndexOf_Last(i) == IF gathered.order = <<>> THEN i ELSE IF i \in DOMAIN gathered.calls THEN Last(gathered.order) ELSE i

\* *tc.Index
IndexOf(i) == i

\* A piece of a call is added to what has its index.
Gathered(i, piece) ==
    LET idx == IndexOf(i)
    IN  IF idx \in DOMAIN gathered.calls
        THEN [gathered EXCEPT !.calls[idx].arguments = @ \o piece]
        ELSE [gathered EXCEPT !.calls = (idx :> [id |-> i, arguments |-> piece]) @@ @,
                              !.order = Append(@, idx)]

\* The first piece of call i, after that of the one before it, has its id and name.
CallDelta(i) ==
    /\ streamAt = "open" /\ wire = "openai"
    /\ i <= source.calls /\ sent.calls[i] < Len(Arguments)
    /\ i > 1 => sent.calls[i - 1] # NothingSent
    /\ sent' = [sent EXCEPT !.calls[i] = @ + 1]
    /\ gathered' = Gathered(i, IF sent.calls[i] = NothingSent THEN <<>> ELSE <<Arguments[sent.calls[i] + 1]>>)
    /\ UNCHANGED <<wire, source, seen, streamAt, final>>

\* A part with a function call.
CallPart(i) ==
    /\ streamAt = "open" /\ wire = "google"
    /\ i <= source.calls /\ sent.calls[i] = NothingSent
    /\ i > 1 => sent.calls[i - 1] # NothingSent
    /\ sent' = [sent EXCEPT !.calls[i] = Len(Arguments)]
    /\ gathered' = Gathered(i, Arguments)
    /\ UNCHANGED <<wire, source, seen, streamAt, final>>

-----------------------------------------------------------------------------
(* The end *)

White(text) == \A i \in DOMAIN text : text[i] = 0

\* messageFromOpenAI and messageFromParts of the whole answer, as Execute returns it.
Buffered ==
    [thinking |-> IF wire = "openai" /\ White(source.thinking) THEN <<>> ELSE source.thinking,
     text |-> IF wire = "openai" /\ White(source.text) THEN <<>> ELSE source.text,
     calls |-> [i \in 1 .. source.calls |-> [id |-> i, arguments |-> Arguments]]]

\* The assembled message; unlike messageFromOpenAI, white text is kept.
Assembled ==
    [thinking |-> IF wire = "openai" /\ White(gathered.thinking) THEN <<>> ELSE gathered.thinking,
     text |-> gathered.text,
     calls |-> [k \in DOMAIN gathered.order |-> gathered.calls[gathered.order[k]]]]

AllSent ==
    /\ sent.thinking = Len(source.thinking) /\ sent.text = Len(source.text)
    /\ \A i \in 1 .. source.calls : sent.calls[i] = Len(Arguments)

\* llm/google has nothing to return of an empty answer.
IsEmpty == wire = "google" /\ Assembled = NoFinal

\* io.EOF: the calls are yielded, and then the terminal chunk.
StreamEnds ==
    /\ streamAt = "open" /\ (AllSent \/ CleanCuts)
    /\ IF IsEmpty THEN streamAt' = "failed" /\ UNCHANGED <<seen, final>>
       ELSE /\ streamAt' = "done" /\ final' = Assembled
            /\ seen' = [seen EXCEPT !.calls = Assembled.calls]
    /\ UNCHANGED <<wire, source, sent, gathered>>

\* The connection breaks, or the provider reports an error.
StreamBreaks ==
    /\ streamAt = "open" /\ streamAt' = "failed"
    /\ UNCHANGED <<wire, source, sent, gathered, seen, final>>

\* The consumer of a chunk wants no more.
ConsumerStops ==
    /\ streamAt = "open" /\ seen # NoFinal /\ streamAt' = "stopped"
    /\ UNCHANGED <<wire, source, sent, gathered, seen, final>>

StreamNext ==
    \/ \E kind \in {"thinking", "text"} : TextDelta(kind)
    \/ \E i \in 1 .. MaxIndexes : CallDelta(i) \/ CallPart(i)
    \/ StreamEnds \/ StreamBreaks \/ ConsumerStops

StreamSpec == StreamInit /\ [][StreamNext]_streamVars

-----------------------------------------------------------------------------
(* Properties *)

\* In whatever order the pieces come, "the terminal chunk carries the same message
\* Execute would return" (llm/google/stream.go), "the complete assistant message"
\* (llm/openai/stream.go), each call with its own arguments and none but in its place;
\* white text apart, which llm/openai keeps only here.  The deltas add up to it.
StreamedAsBuffered ==
    streamAt = "done" =>
        /\ \/ final = Buffered
           \/ White(source.text) /\ final = [Buffered EXCEPT !.text = source.text]
        /\ seen.text = final.text /\ seen.calls = final.calls
        /\ ~White(seen.thinking) => seen.thinking = final.thinking
=============================================================================
