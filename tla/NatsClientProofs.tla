-------------------------- MODULE NatsClientProofs --------------------------
(***************************************************************************)
(* Proofs about the NATS client.  What Text returns of a prompt's stream,  *)
(* for responses of any number of chunks, failing publishes and a broker   *)
(* that may go at any moment; and what Resolve gives its callers, for any  *)
(* callers, instances, TTL and window of the tracker.                      *)
(***************************************************************************)
EXTENDS PromptStream, Resolver, FiniteSetTheorems, SequenceTheorems, TLAPS

\* What is published to the caller.
Messages == [kind : {"ack", "query", "unknown", "chunk", "error", "end"}, n : Nat]
Plain == {"ack", "query", "unknown"}
InTransit == [m : Messages, age : Nat]

RunResults ==
    {NoRun} \cup [kind : {"text"}, chunks : 0 .. MaxChunks]
        \cup [kind : {"error"}, error : RunErrors]

Outcomes ==
    [kind : {"none", "cancelled", "invalid", "closed", "text", "service", "query", "timeout"},
     permanent : BOOLEAN]

PromptTypes ==
    /\ caller \in {"new", "open", "reading", "done"} /\ outcome \in Outcomes
    /\ got \in Seq(Nat) /\ quiet \in Nat
    /\ request \in {"none", "good", "refused", "lost", "arrived"}
    /\ wire \in Seq(InTransit)
    /\ serving \in {"idle", "running", "stopping", "sending", "reporting", "closing", "ended"}
    /\ run \in RunResults
    /\ keepalive \in {"off", "waits", "responds", "ended"} /\ kaAge \in Nat
    /\ cancelled \in BOOLEAN /\ sent \in Seq(Messages) /\ errorLost \in BOOLEAN
    /\ up \in BOOLEAN /\ pubFaults \in Nat

\* Where the server is says what the keepalive goroutine, the handler and the request
\* have come to.
ServerPhase ==
    /\ serving = "idle" => keepalive = "off" /\ run = NoRun /\ sent = <<>> /\ wire = <<>>
    /\ serving = "running" =>
           keepalive # "off" /\ run = NoRun /\ (keepalive = "ended" => cancelled = TRUE)
    /\ serving = "stopping" => keepalive # "off" /\ run.kind \in {"text", "error"}
    /\ serving \in {"sending", "reporting"} =>
           keepalive = "ended" /\ run.kind = "text" /\ run.chunks > 0
    /\ serving \in {"closing", "ended"} => keepalive \in {"off", "ended"}
    /\ request = "arrived" <=> serving # "idle"
    /\ caller = "new" => request = "none"
    /\ request = "none" => caller \in {"new", "done"}
    /\ request = "lost" => ~up \/ caller = "done"
    /\ errorLost = TRUE => serving \in {"closing", "ended"} /\ pubFaults > 0

\* The messages published so far, by where the server is.
LastIs(kind) == sent # <<>> /\ sent[Len(sent)].kind = kind
LastChunk == IF LastIs("chunk") THEN sent[Len(sent)].n ELSE 0

Sending ==
    /\ serving \in {"idle", "running", "stopping"} =>
           \A i \in 1 .. Len(sent) : sent[i].kind \in Plain
    /\ serving \in {"sending", "reporting"} =>
           \A i \in 1 .. Len(sent) : sent[i].kind \in Plain \cup {"chunk"}
    /\ serving = "sending" => ChunksSent = LastChunk
    /\ serving = "closing" => errorLost = TRUE \/ LastIs("error")
    /\ serving = "ended" /\ pubFaults = 0 => LastIs("end")

\* The chunks come one after the other, in their order.
ChunkOrder ==
    \A i \in 1 .. Len(sent) : sent[i].kind = "chunk" =>
        sent[i].n = IF i > 1 /\ sent[i - 1].kind = "chunk" THEN sent[i - 1].n + 1 ELSE 1

\* An error says what went wrong.
ErrorSource ==
    \A i \in 1 .. Len(sent) : sent[i].kind = "error" =>
        \/ i = 1 /\ sent[i].n = 400
        \/ sent[i].n = 500
        \/ run.kind = "error" /\ sent[i].n = SentCode(ErrorFor(run.error))

\* A terminator follows the last chunk or the error, unless that was lost.
EndIsLast ==
    \A i \in 1 .. Len(sent) : sent[i].kind = "end" =>
        /\ serving = "ended"
        /\ \/ errorLost = TRUE
           \/ /\ i > 1
              /\ \/ sent[i - 1].kind = "error"
                 \/ /\ sent[i - 1].kind = "chunk" /\ run.kind = "text"
                    /\ sent[i - 1].n = run.chunks

StreamRules == StreamIsOrdered /\ ChunkOrder /\ ErrorSource /\ EndIsLast

\* What is on its way to a caller that listens is the end of what was published.
Listens == up /\ caller # "done"
Delivered == Len(sent) - Len(wire)
OnTheWire ==
    /\ Listens =>
        /\ Len(wire) <= Len(sent)
        /\ \A i \in 1 .. Len(wire) : wire[i].m = sent[Delivered + i]
    /\ ~Listens => wire = <<>>

\* What Text has read is the chunks of what was delivered.
Reading ==
    /\ \A i \in 1 .. Len(got) : got[i] = i
    /\ Listens =>
        /\ Delivered > 0 => sent[Delivered].kind \in {"ack", "unknown", "chunk"}
        /\ Len(got) = IF Delivered > 0 /\ sent[Delivered].kind = "chunk"
                      THEN sent[Delivered].n ELSE 0

\* What Text, or Send, has returned.
Returned ==
    /\ caller # "done" => outcome = NoOutcome
    /\ outcome.kind = "text" =>
           \/ errorLost = TRUE
           \/ serving = "ended" /\ run.kind = "text" /\ Len(got) = run.chunks
    /\ outcome.permanent =>
           \/ outcome.kind \in {"invalid", "query"}
           \/ sent # <<>> /\ sent[1] = Error(400)
           \/ run.kind = "error" /\ run.error.from = "coded"
                  /\ run.error.code \notin {418, 429}

PromptInv ==
    /\ PromptTypes /\ ServerPhase /\ Sending /\ StreamRules
    /\ OnTheWire /\ Reading /\ Returned

\* While the connection holds, every message is published and no drain cancels the
\* handler, a caller has been waiting no longer than it takes to make the next ack and
\* deliver it.
AckInTime ==
    /\ kaAge <= KeepaliveInterval
    /\ \A i \in 1 .. Len(wire) : wire[i].age <= MaxDelay
    /\ caller \in {"new", "open"} => quiet = 0
    /\ up /\ pubFaults = 0 /\ cancelled = FALSE /\ caller \in {"open", "reading"} =>
        /\ wire # <<>> => quiet <= wire[1].age + KeepaliveInterval
        /\ wire = <<>> =>
               /\ serving = "idle" => quiet = 0
               /\ keepalive = "waits" => quiet <= kaAge
               /\ keepalive \in {"responds", "ended"} => quiet <= KeepaliveInterval
               /\ serving \notin {"closing", "ended"}
    /\ outcome.kind = "timeout" => ~up \/ pubFaults > 0 \/ cancelled = TRUE

-----------------------------------------------------------------------------
(* Publishing *)

\* Publishing adds to what was published and, for a caller that listens, to what is on
\* its way.
LEMMA PublishedMessage ==
    ASSUME PromptTypes, NEW m \in Messages, Publishes(m)
    PROVE  /\ sent' \in Seq(Messages) /\ Len(sent') = Len(sent) + 1
           /\ \A i \in 1 .. Len(sent) : sent'[i] = sent[i]
           /\ sent'[Len(sent) + 1] = m
           /\ wire' \in Seq(InTransit)
           /\ ~Listens => wire' = wire
           /\ Listens =>
               /\ Len(wire') = Len(wire) + 1
               /\ \A i \in 1 .. Len(wire) : wire'[i] = wire[i]
               /\ wire'[Len(wire) + 1] = [m |-> m, age |-> 0]
<1> DEFINE new == [m |-> m, age |-> 0]
<1>1. new \in InTransit
  BY DEF InTransit
<1>2. sent' = Append(sent, m) /\ wire' = IF Listens THEN Append(wire, new) ELSE wire
  BY DEF Publishes, Listens
<1>3. sent \in Seq(Messages) /\ wire \in Seq(InTransit)
  BY DEF PromptTypes
<1> HIDE DEF new
<1>4. /\ Append(sent, m) \in Seq(Messages) /\ Len(Append(sent, m)) = Len(sent) + 1
      /\ \A i \in 1 .. Len(sent) : Append(sent, m)[i] = sent[i]
      /\ Append(sent, m)[Len(sent) + 1] = m
  BY <1>3, AppendProperties
<1>5. /\ Append(wire, new) \in Seq(InTransit) /\ Len(Append(wire, new)) = Len(wire) + 1
      /\ \A i \in 1 .. Len(wire) : Append(wire, new)[i] = wire[i]
      /\ Append(wire, new)[Len(wire) + 1] = new
  BY <1>1, <1>3, AppendProperties
<1> QED
  BY <1>2, <1>3, <1>4, <1>5 DEF new

\* What the caller has read and what it has returned stay what they are.
LEMMA PublishingGoesOn ==
    ASSUME PromptTypes, OnTheWire, Reading, Returned, serving # "ended",
           NEW m \in Messages, Publishes(m), errorLost = TRUE => errorLost' = TRUE,
           UNCHANGED <<caller, outcome, got, up, run>>
    PROVE  OnTheWire' /\ Reading' /\ Returned'
<1>1. /\ Len(sent') = Len(sent) + 1 /\ sent' \in Seq(Messages)
      /\ \A i \in 1 .. Len(sent) : sent'[i] = sent[i]
      /\ sent'[Len(sent) + 1] = m
      /\ ~Listens => wire' = wire
      /\ Listens =>
          /\ Len(wire') = Len(wire) + 1
          /\ \A i \in 1 .. Len(wire) : wire'[i] = wire[i]
          /\ wire'[Len(wire) + 1] = [m |-> m, age |-> 0]
  BY PublishedMessage
<1>2. Len(wire) \in Nat /\ Len(sent) \in Nat
  BY DEF PromptTypes
<1>3. Listens' = Listens
  BY DEF Listens
<1>4. Listens => Delivered' = Delivered /\ Delivered \in 0 .. Len(sent)
  <2> SUFFICES ASSUME Listens PROVE Delivered' = Delivered /\ Delivered \in 0 .. Len(sent)
    OBVIOUS
  <2>1. Len(wire) <= Len(sent)
    BY DEF OnTheWire
  <2>2. Len(sent') = Len(sent) + 1 /\ Len(wire') = Len(wire) + 1
    BY <1>1
  <2> QED
    BY <2>1, <2>2, <1>2 DEF Delivered
<1>5. OnTheWire'
  <2>1. CASE ~Listens
    BY <2>1, <1>1, <1>3 DEF OnTheWire
  <2>2. CASE Listens
    <3>1. ASSUME NEW i \in 1 .. Len(wire')
          PROVE  wire'[i].m = sent'[Delivered' + i]
      <4>1. CASE i <= Len(wire)
        <5>1. i \in 1 .. Len(wire) /\ Delivered + i \in 1 .. Len(sent)
          BY <4>1, <1>2, <2>2, <1>4 DEF Delivered
        <5> QED
          BY <5>1, <2>2, <1>1, <1>4 DEF OnTheWire
      <4>2. CASE i > Len(wire)
        <5>1. i = Len(wire) + 1 /\ Delivered' + i = Len(sent) + 1
          BY <4>2, <2>2, <1>1, <1>2, <1>4 DEF Delivered
        <5> QED
          BY <5>1, <2>2, <1>1
      <4> QED
        BY <4>1, <4>2, <1>1, <1>2, <2>2
    <3> QED
      BY <3>1, <2>2, <1>1, <1>2, <1>3 DEF OnTheWire
  <2> QED
    BY <2>1, <2>2
<1>6. Reading'
  BY <1>1, <1>2, <1>3, <1>4 DEF Reading
<1>7. Returned'
  <2>1. sent # <<>> => sent' # <<>> /\ sent'[1] = sent[1]
    BY <1>1, <1>2 DEF PromptTypes
  <2>2. (caller # "done" => outcome = NoOutcome)'
    BY DEF Returned
  <2>3. (outcome.kind = "text" =>
            \/ errorLost = TRUE
            \/ serving = "ended" /\ run.kind = "text" /\ Len(got) = run.chunks)'
    BY DEF Returned
  <2>4. (sent # <<>> /\ sent[1] = Error(400)) => (sent # <<>> /\ sent[1] = Error(400))'
    BY <2>1 DEF Error
  <2> QED
    BY <2>2, <2>3, <2>4 DEF Returned
<1> QED
  BY <1>5, <1>6, <1>7

\* The stream of a response, after one more message.
LEMMA OneMore ==
    ASSUME PromptTypes, StreamRules, run' = run, serving # "ended",
           errorLost = TRUE => errorLost' = TRUE,
           NEW m \in Messages, Publishes(m),
           m.kind # "end" => \A i \in 1 .. Len(sent) : sent[i].kind \in Plain \cup {"chunk"},
           m.kind \in Plain => \A i \in 1 .. Len(sent) : sent[i].kind \in Plain,
           m.kind = "chunk" => m.n = LastChunk + 1,
           m.kind = "error" =>
               \/ sent = <<>> /\ m.n = 400
               \/ m.n = 500
               \/ run.kind = "error" /\ m.n = SentCode(ErrorFor(run.error)),
           m.kind = "end" =>
               /\ serving' = "ended"
               /\ \/ errorLost = TRUE
                  \/ LastIs("error")
                  \/ LastIs("chunk") /\ run.kind = "text" /\ sent[Len(sent)].n = run.chunks
    PROVE  StreamRules'
<1>1. /\ sent' \in Seq(Messages) /\ Len(sent') = Len(sent) + 1
      /\ \A i \in 1 .. Len(sent) : sent'[i] = sent[i]
      /\ sent'[Len(sent) + 1] = m
  BY PublishedMessage
<1>2. /\ Len(sent) \in Nat /\ DOMAIN sent = 1 .. Len(sent)
      /\ DOMAIN sent' = 1 .. (Len(sent) + 1)
      /\ \A i \in 1 .. Len(sent) : sent[i] \in Messages
      /\ sent # <<>> => Len(sent) > 0
  BY <1>1 DEF PromptTypes
<1>3. \A i \in 1 .. Len(sent) : sent[i].kind # "end"
  BY DEF StreamRules, EndIsLast
<1>4. \A i \in 1 .. (Len(sent) + 1) :
          \/ i \in 1 .. Len(sent) /\ sent'[i] = sent[i]
          \/ i = Len(sent) + 1 /\ sent'[i] = m
  BY <1>1, <1>2
<1>5. sent # <<>> => sent'[Len(sent)] = sent[Len(sent)]
  BY <1>1, <1>2
<1>6. StreamIsOrdered'
  <2> SUFFICES ASSUME NEW i \in 1 .. (Len(sent) + 1), NEW j \in 1 .. (Len(sent) + 1), i < j
               PROVE  /\ sent'[i].kind # "end"
                      /\ sent'[i].kind = "error" => sent'[j].kind = "end"
                      /\ sent'[i].kind = "chunk" => sent'[j].kind \in {"chunk", "error", "end"}
    BY <1>2 DEF StreamIsOrdered
  <2>1. i \in 1 .. Len(sent) /\ sent'[i] = sent[i] /\ sent[i].kind # "end"
    BY <1>1, <1>2, <1>3
  <2>2. CASE j = Len(sent) + 1
    <3>1. sent'[j] = m /\ m.kind \in Plain \cup {"chunk", "error", "end"}
      BY <2>2, <1>1 DEF Messages, Plain
    <3>2. CASE m.kind = "end"
      BY <3>1, <3>2, <2>1
    <3>3. CASE m.kind # "end"
      <4>1. sent[i].kind \in Plain \cup {"chunk"}
        BY <3>3, <2>1
      <4>2. m.kind \in Plain => sent[i].kind \in Plain
        BY <2>1
      <4> QED
        BY <4>1, <4>2, <3>1, <2>1 DEF Plain
    <3> QED
      BY <3>2, <3>3
  <2>3. CASE j # Len(sent) + 1
    <3>1. j \in 1 .. Len(sent) /\ sent'[j] = sent[j]
      BY <2>3, <1>1, <1>2
    <3> QED
      BY <3>1, <2>1, <1>2 DEF StreamRules, StreamIsOrdered
  <2> QED
    BY <2>2, <2>3
<1>7. ChunkOrder'
  <2> SUFFICES ASSUME NEW i \in 1 .. (Len(sent) + 1), sent'[i].kind = "chunk"
               PROVE  sent'[i].n = IF i > 1 /\ sent'[i - 1].kind = "chunk"
                                   THEN sent'[i - 1].n + 1 ELSE 1
    BY <1>1, <1>2 DEF ChunkOrder
  <2>1. CASE i = Len(sent) + 1
    <3>1. m.kind = "chunk" /\ m.n = LastChunk + 1 /\ sent'[i].n = m.n
      BY <2>1, <1>1
    <3>2. i > 1 <=> sent # <<>>
      BY <2>1, <1>2 DEF PromptTypes
    <3>3. i - 1 = Len(sent)
      BY <2>1, <1>2
    <3>4. sent # <<>> => sent'[i - 1] = sent[Len(sent)]
      BY <3>3, <1>5
    <3> QED
      BY <3>1, <3>2, <3>4 DEF LastChunk, LastIs
  <2>2. CASE i # Len(sent) + 1
    <3>1. i \in 1 .. Len(sent) /\ sent'[i] = sent[i]
      BY <2>2, <1>1, <1>2
    <3>2. sent[i].n = IF i > 1 /\ sent[i - 1].kind = "chunk" THEN sent[i - 1].n + 1 ELSE 1
      BY <3>1 DEF StreamRules, ChunkOrder
    <3>3. i > 1 => sent'[i - 1] = sent[i - 1]
      <4> SUFFICES ASSUME i > 1 PROVE sent'[i - 1] = sent[i - 1]
        OBVIOUS
      <4>1. i - 1 \in 1 .. Len(sent)
        BY <3>1, <1>2
      <4> QED
        BY <4>1, <1>1
    <3> QED
      BY <3>1, <3>2, <3>3
  <2> QED
    BY <2>1, <2>2
<1>8. ErrorSource'
  <2> SUFFICES ASSUME NEW i \in 1 .. (Len(sent) + 1), sent'[i].kind = "error"
               PROVE  \/ i = 1 /\ sent'[i].n = 400
                      \/ sent'[i].n = 500
                      \/ run'.kind = "error" /\ sent'[i].n = SentCode(ErrorFor(run'.error))
    BY <1>1 DEF ErrorSource, SentCode, ErrorFor, TableCodes
  <2>1. CASE i = Len(sent) + 1
    <3>1. sent = <<>> => i = 1
      BY <2>1
    <3> QED
      BY <3>1, <2>1, <1>1
  <2>2. CASE i # Len(sent) + 1
    <3>1. i \in 1 .. Len(sent) /\ sent'[i] = sent[i]
      BY <2>2, <1>1, <1>2
    <3> QED
      BY <3>1 DEF StreamRules, ErrorSource
  <2> QED
    BY <2>1, <2>2
<1>9. EndIsLast'
  <2> SUFFICES ASSUME NEW i \in 1 .. (Len(sent) + 1), sent'[i].kind = "end"
               PROVE  /\ serving' = "ended"
                      /\ \/ errorLost' = TRUE
                         \/ /\ i > 1
                            /\ \/ sent'[i - 1].kind = "error"
                               \/ /\ sent'[i - 1].kind = "chunk" /\ run'.kind = "text"
                                  /\ sent'[i - 1].n = run'.chunks
    BY <1>1 DEF EndIsLast
  <2>1. i = Len(sent) + 1 /\ m.kind = "end"
    BY <1>3, <1>4
  <2>2. sent # <<>> => i > 1 /\ sent'[i - 1] = sent[Len(sent)]
    <3>1. i - 1 = Len(sent)
      BY <2>1, <1>2
    <3> QED
      BY <3>1, <2>1, <1>2, <1>5
  <2> QED
    BY <2>1, <2>2 DEF LastIs
<1> QED
  BY <1>6, <1>7, <1>8, <1>9 DEF StreamRules

-----------------------------------------------------------------------------
(* One step of each action *)

\* The server's part of the invariant, when the server does nothing.
LEMMA ServerStands ==
    ASSUME Sending, StreamRules, UNCHANGED <<serving, run, sent, errorLost, pubFaults>>
    PROVE  Sending' /\ StreamRules'
<1>1. ChunksSent' = ChunksSent /\ LastChunk' = LastChunk
  BY DEF ChunksSent, LastChunk, LastIs
<1>2. Sending'
  BY <1>1 DEF Sending, LastIs
<1>3. StreamIsOrdered' /\ ChunkOrder' /\ ErrorSource' /\ EndIsLast'
  BY DEF StreamRules, StreamIsOrdered, ChunkOrder, ErrorSource, EndIsLast
<1> QED
  BY <1>2, <1>3 DEF StreamRules

\* The caller's part, when it does nothing and nothing is published.
LEMMA CallerStands ==
    ASSUME OnTheWire, Reading, Returned, UNCHANGED <<caller, outcome, got, wire, sent, up>>,
           errorLost = TRUE => errorLost' = TRUE,
           \/ UNCHANGED <<serving, run>>
           \/ run' = run /\ serving # "ended"
           \/ run = NoRun /\ serving # "ended"
    PROVE  OnTheWire' /\ Reading' /\ Returned'
<1>1. OnTheWire' /\ Reading'
  BY DEF OnTheWire, Reading, Delivered, Listens
<1>2. Returned'
  BY DEF Returned, NoRun
<1> QED
  BY <1>1, <1>2

LEMMA CallerStep ==
    ASSUME PromptInv, Send \/ Text \/ TextTimesOut \/ NoResponders \/ CallerLeaves
    PROVE  PromptInv'
<1>1. UNCHANGED <<got, serving, run, keepalive, kaAge, cancelled, sent, errorLost, pubFaults, up>>
  BY DEF Send, Text, TextTimesOut, NoResponders, CallerLeaves, keepaliveVars, published
<1>2. Sending' /\ StreamRules'
  BY <1>1, ServerStands DEF PromptInv
<1>3. \/ /\ caller' = "done" /\ caller # "done" /\ wire' = <<>> /\ quiet' = 0
         /\ outcome' \in {Failed("cancelled", FALSE), Failed("invalid", TRUE),
                          Failed("closed", FALSE), Failed("timeout", FALSE)}
         /\ \/ request' = request
            \/ request \in {"good", "refused"} /\ request' = "lost"
      \/ /\ caller' \in {"open", "reading"} /\ caller # "done" /\ wire' = wire
         /\ quiet' \in {quiet, 0} /\ outcome' = outcome
         /\ \/ caller = "open" /\ request' = request
            \/ /\ caller = "new"
               /\ request' \in IF up THEN {"good", "refused"} ELSE {"lost"}
  BY DEF Send, Text, TextTimesOut, NoResponders, CallerLeaves, Returns
<1>4. PromptTypes'
  <2>1. outcome' \in Outcomes
    <3>1. /\ Failed("cancelled", FALSE) \in Outcomes /\ Failed("invalid", TRUE) \in Outcomes
          /\ Failed("closed", FALSE) \in Outcomes /\ Failed("timeout", FALSE) \in Outcomes
      BY DEF Failed, Outcomes
    <3> QED
      BY <3>1, <1>3 DEF PromptInv, PromptTypes
  <2>2. /\ request' \in {"none", "good", "refused", "lost", "arrived"} /\ quiet' \in Nat
        /\ wire' \in Seq(InTransit) /\ caller' \in {"new", "open", "reading", "done"}
    <3>1. <<>> \in Seq(InTransit)
      OBVIOUS
    <3>2. wire' \in {<<>>, wire} /\ caller' \in {"open", "reading", "done"}
          /\ quiet' \in {quiet, 0} /\ request' \in {request, "good", "refused", "lost"}
      BY <1>3
    <3>3. /\ wire \in Seq(InTransit) /\ quiet \in Nat
          /\ request \in {"none", "good", "refused", "lost", "arrived"}
      BY DEF PromptInv, PromptTypes
    <3>4. wire' \in Seq(InTransit)
      BY <3>1, <3>2, <3>3
    <3>5. quiet' \in Nat
      BY <3>2, <3>3
    <3> QED
      BY <3>2, <3>3, <3>4, <3>5
  <2> QED
    BY <2>1, <2>2, <1>1 DEF PromptInv, PromptTypes
<1>5. ServerPhase'
  <2>1. caller = "new" => serving = "idle"
    BY DEF PromptInv, ServerPhase, PromptTypes
  <2>2. wire = <<>> => wire' = <<>>
    BY <1>3
  <2>3. /\ (request = "arrived" <=> serving # "idle")'
        /\ (caller = "new" => request = "none")'
        /\ (request = "none" => caller \in {"new", "done"})'
        /\ (request = "lost" => ~up \/ caller = "done")'
    BY <2>1, <1>1, <1>3 DEF PromptInv, ServerPhase
  <2> QED
    BY <2>2, <2>3, <1>1 DEF PromptInv, ServerPhase
<1>6. OnTheWire' /\ Reading'
  BY <1>1, <1>3 DEF PromptInv, OnTheWire, Reading, Delivered, Listens
<1>7. Returned'
  <2>1. outcome' = outcome \/ outcome'.kind \in {"cancelled", "closed", "timeout", "invalid"}
    BY <1>3 DEF Failed
  <2>2. outcome' = outcome \/ (outcome'.permanent => outcome'.kind = "invalid")
    BY <1>3 DEF Failed
  <2>3. caller' # "done" => outcome' = NoOutcome
    BY <1>3 DEF PromptInv, Returned
  <2> QED
    BY <2>1, <2>2, <2>3, <1>1 DEF PromptInv, Returned
<1> QED
  BY <1>2, <1>4, <1>5, <1>6, <1>7 DEF PromptInv

\* The message that Text reads is the first that was not delivered.
LEMMA ReadStep ==
    ASSUME PromptInv, Read
    PROVE  PromptInv'
<1> DEFINE next == Delivered + 1
           m == wire[1].m
<1>1. /\ caller = "reading" /\ wire # <<>>
      /\ UNCHANGED <<request, serving, run, keepalive, kaAge, cancelled, sent, errorLost, up,
                     pubFaults>>
  BY DEF Read, keepaliveVars, published
<1>2. wire \in Seq(InTransit) /\ sent \in Seq(Messages) /\ got \in Seq(Nat)
  BY DEF PromptInv, PromptTypes
<1>3. /\ Len(wire) \in Nat /\ Len(wire) > 0 /\ Len(sent) \in Nat /\ wire[1] \in InTransit
      /\ Tail(wire) \in Seq(InTransit) /\ Len(Tail(wire)) = Len(wire) - 1
      /\ \A i \in 1 .. Len(Tail(wire)) : Tail(wire)[i] = wire[i + 1]
      /\ Head(wire) = wire[1]
  BY <1>1, <1>2, HeadTailProperties
<1>4. Listens /\ Len(wire) <= Len(sent)
  BY <1>1 DEF PromptInv, OnTheWire, Listens
<1>5. /\ Delivered \in Nat /\ next \in 1 .. Len(sent)
      /\ next > 1 => Delivered \in 1 .. Len(sent)
      /\ wire' = Tail(wire) => Delivered' = next
  BY <1>1, <1>3, <1>4 DEF Delivered
<1>6. m = sent[next] /\ m \in Messages
  BY <1>2, <1>3, <1>4, <1>5 DEF PromptInv, OnTheWire, InTransit
<1>7. \/ m.kind = "end" /\ Returns([kind |-> "text", permanent |-> FALSE]) /\ got' = got
      \/ m.kind = "error" /\ Returns(Failed("service", Permanent(m.n))) /\ got' = got
      \/ m.kind = "query" /\ Returns(Failed("query", TRUE)) /\ got' = got
      \/ m.kind = "chunk" /\ got' = Append(got, m.n) /\ quiet' = 0 /\ wire' = Tail(wire)
             /\ UNCHANGED <<caller, outcome>>
      \/ m.kind \in {"ack", "unknown"} /\ quiet' = 0 /\ wire' = Tail(wire)
             /\ UNCHANGED <<caller, outcome, got>>
  BY <1>3 DEF Read, NextWait
<1> HIDE DEF m, next
<1>8. Sending' /\ StreamRules'
  BY <1>1, ServerStands DEF PromptInv
<1>9. m.kind \in {"ack", "query", "unknown", "chunk", "error", "end"} /\ m.n \in Nat
  BY <1>6 DEF Messages
<1>10. PromptTypes'
  <2>1. got' \in Seq(Nat)
    <3>1. Append(got, m.n) \in Seq(Nat)
      BY <1>2, <1>9
    <3> QED
      BY <3>1, <1>2, <1>7
  <2>2. caller' \in {"reading", "done"} /\ quiet' = 0 /\ wire' \in {<<>>, Tail(wire)}
    BY <1>1, <1>7 DEF Returns
  <2>3. outcome' \in Outcomes
    <3>1. Permanent(m.n) \in BOOLEAN
      BY DEF Permanent
    <3>2. /\ Failed("service", Permanent(m.n)) \in Outcomes
          /\ Failed("query", TRUE) \in Outcomes
          /\ [kind |-> "text", permanent |-> FALSE] \in Outcomes
      BY <3>1 DEF Failed, Outcomes
    <3> QED
      BY <3>2, <1>7 DEF Returns, PromptInv, PromptTypes
  <2>4. wire' \in Seq(InTransit)
    <3>1. <<>> \in Seq(InTransit)
      OBVIOUS
    <3> QED
      BY <3>1, <2>2, <1>3
  <2> QED
    BY <2>1, <2>2, <2>3, <2>4, <1>1 DEF PromptInv, PromptTypes
<1>11. ServerPhase'
  <2>1. caller' \in {"reading", "done"}
    BY <1>1, <1>7 DEF Returns
  <2>2. serving # "idle"
    BY <1>1 DEF PromptInv, ServerPhase
  <2> QED
    BY <2>1, <2>2, <1>1 DEF PromptInv, ServerPhase
<1>12. OnTheWire'
  <2>1. CASE wire' = Tail(wire) /\ caller' = caller
    <3>1. ASSUME NEW i \in 1 .. Len(wire')
          PROVE  wire'[i].m = sent'[Delivered' + i]
      <4>1. i + 1 \in 1 .. Len(wire) /\ next + i = Delivered + (i + 1)
        BY <2>1, <1>3, <1>5 DEF next
      <4> QED
        BY <4>1, <2>1, <1>1, <1>3, <1>4, <1>5 DEF PromptInv, OnTheWire
    <3>2. Listens' /\ Len(wire') <= Len(sent')
      BY <2>1, <1>1, <1>3, <1>4 DEF Listens
    <3> QED
      BY <3>1, <3>2 DEF OnTheWire
  <2>2. CASE wire' = <<>> /\ caller' = "done"
    BY <2>2 DEF OnTheWire, Listens
  <2> QED
    BY <2>1, <2>2, <1>7 DEF Returns
<1>13. /\ \A i \in 1 .. Len(got) : got[i] = i
       /\ Delivered > 0 => sent[Delivered].kind \in {"ack", "unknown", "chunk"}
       /\ Len(got) = IF Delivered > 0 /\ sent[Delivered].kind = "chunk"
                     THEN sent[Delivered].n ELSE 0
  BY <1>1, <1>4 DEF PromptInv, Reading
<1>14. Reading'
  <2>1. CASE m.kind = "chunk"
    <3>1. m.n = IF next > 1 /\ sent[next - 1].kind = "chunk" THEN sent[next - 1].n + 1 ELSE 1
      BY <2>1, <1>5, <1>6 DEF PromptInv, StreamRules, ChunkOrder
    <3>2. next - 1 = Delivered /\ (next > 1 <=> Delivered > 0)
      BY <1>5 DEF next
    <3>3. m.n = Len(got) + 1
      BY <3>1, <3>2, <1>13
    <3>4. got' = Append(got, m.n) /\ wire' = Tail(wire)
      BY <2>1, <1>7
    <3>5. /\ Len(got') = Len(got) + 1 /\ Len(got) \in Nat
          /\ \A i \in 1 .. Len(got) : got'[i] = got[i]
          /\ got'[Len(got) + 1] = m.n
      BY <3>4, <1>2, <1>9, AppendProperties
    <3>6. \A i \in 1 .. Len(got') : got'[i] = i
      <4> SUFFICES ASSUME NEW i \in 1 .. Len(got') PROVE got'[i] = i
        OBVIOUS
      <4>1. CASE i = Len(got) + 1
        BY <4>1, <3>3, <3>5
      <4>2. CASE i # Len(got) + 1
        <5>1. i \in 1 .. Len(got)
          BY <4>2, <3>5
        <5>2. got[i] = i
          BY <5>1, <1>13
        <5> QED
          BY <5>1, <5>2, <3>5
      <4> QED
        BY <4>1, <4>2
    <3>7. Len(got') = m.n
      BY <3>3, <3>5
    <3> QED
      BY <3>4, <3>6, <3>7, <2>1, <1>1, <1>5, <1>6 DEF Reading
  <2>2. CASE m.kind \in {"ack", "unknown"}
    <3>1. got' = got /\ wire' = Tail(wire)
      BY <2>2, <1>7
    <3>2. ~(Delivered > 0 /\ sent[Delivered].kind = "chunk")
      <4> SUFFICES ASSUME Delivered > 0, sent[Delivered].kind = "chunk" PROVE FALSE
        OBVIOUS
      <4>1. Delivered \in 1 .. Len(sent) /\ Delivered < next
        BY <1>5, <1>3 DEF next
      <4>2. sent[next].kind \in {"chunk", "error", "end"}
        BY <4>1, <1>5, <1>2 DEF PromptInv, StreamRules, StreamIsOrdered
      <4> QED
        BY <4>2, <2>2, <1>6
    <3> QED
      BY <3>1, <3>2, <2>2, <1>1, <1>5, <1>6, <1>13 DEF Reading
  <2>3. CASE m.kind \in {"end", "error", "query"}
    <3>1. got' = got /\ caller' = "done"
      BY <2>3, <1>7 DEF Returns
    <3> QED
      BY <3>1, <1>13 DEF Reading, Listens
  <2> QED
    BY <2>1, <2>2, <2>3, <1>9
<1>15. Returned'
  <2>1. CASE m.kind = "end"
    <3>1. /\ serving = "ended"
          /\ \/ errorLost = TRUE
             \/ /\ next > 1
                /\ \/ sent[next - 1].kind = "error"
                   \/ /\ sent[next - 1].kind = "chunk" /\ run.kind = "text"
                      /\ sent[next - 1].n = run.chunks
      BY <2>1, <1>5, <1>6 DEF PromptInv, StreamRules, EndIsLast
    <3>2. next - 1 = Delivered /\ (next > 1 <=> Delivered > 0)
      BY <1>5 DEF next
    <3>3. errorLost = TRUE \/ (run.kind = "text" /\ Len(got) = run.chunks)
      BY <3>1, <3>2, <1>13
    <3>4. got' = got /\ caller' = "done" /\ outcome' = [kind |-> "text", permanent |-> FALSE]
      BY <2>1, <1>7 DEF Returns
    <3> QED
      BY <3>1, <3>3, <3>4, <1>1 DEF Returned
  <2>2. CASE m.kind = "error"
    <3>1. /\ caller' = "done" /\ outcome' = Failed("service", Permanent(m.n))
      BY <2>2, <1>7 DEF Returns
    <3>2. \/ next = 1 /\ m.n = 400
          \/ m.n = 500
          \/ run.kind = "error" /\ m.n = SentCode(ErrorFor(run.error))
      BY <2>2, <1>5, <1>6 DEF PromptInv, StreamRules, ErrorSource
    <3>3. Permanent(m.n) =>
              \/ sent # <<>> /\ sent[1] = Error(400)
              \/ run.kind = "error" /\ run.error.from = "coded"
                     /\ run.error.code \notin {418, 429}
      <4>1. CASE next = 1 /\ m.n = 400
        BY <4>1, <2>2, <1>5, <1>6, <1>2 DEF Error, Messages
      <4>2. CASE m.n = 500
        BY <4>2 DEF Permanent
      <4>3. CASE run.kind = "error" /\ m.n = SentCode(ErrorFor(run.error))
        <5>1. run.error \in RunErrors
          BY <4>3 DEF PromptInv, PromptTypes, RunResults, NoRun
        <5>2. CASE run.error.from = "coded"
          BY <4>3, <5>2 DEF Permanent, SentCode, ErrorFor, TableCodes
        <5>3. CASE run.error.from # "coded"
          <6>1. m.n = 429 \/ m.n = 500
            BY <5>3, <4>3 DEF SentCode, ErrorFor, TableCodes
          <6>2. ~Permanent(m.n)
            BY <6>1 DEF Permanent
          <6> QED
            BY <6>2
        <5> QED
          BY <5>2, <5>3
      <4> QED
        BY <3>2, <4>1, <4>2, <4>3
    <3>4. outcome'.kind = "service" /\ outcome'.permanent = Permanent(m.n)
      BY <3>1 DEF Failed
    <3> QED
      BY <3>1, <3>3, <3>4, <1>1 DEF Returned, Error
  <2>3. CASE m.kind = "query"
    <3>1. caller' = "done" /\ outcome' = [kind |-> "query", permanent |-> TRUE]
      BY <2>3, <1>7 DEF Returns, Failed
    <3> QED
      BY <3>1 DEF Returned
  <2>4. CASE m.kind \in {"chunk", "ack", "unknown"}
    <3>1. outcome' = NoOutcome /\ UNCHANGED caller
      BY <2>4, <1>1, <1>7 DEF PromptInv, Returned
    <3> QED
      BY <3>1 DEF Returned, NoOutcome
  <2> QED
    BY <2>1, <2>2, <2>3, <2>4, <1>9
<1> QED
  BY <1>8, <1>10, <1>11, <1>12, <1>14, <1>15 DEF PromptInv

-----------------------------------------------------------------------------
(* The server's steps *)

LEMMA ChunksCount ==
    ASSUME NEW s \in Seq(Messages)
    PROVE  /\ ChunksIn(s) \in Nat
           /\ (\A i \in 1 .. Len(s) : s[i].kind # "chunk") => ChunksIn(s) = 0
           /\ \A t \in Seq(Messages) :
                  /\ Len(t) = Len(s) + 1
                  /\ \A i \in 1 .. Len(s) : t[i] = s[i]
                  /\ t[Len(s) + 1].kind = "chunk"
                  => ChunksIn(t) = ChunksIn(s) + 1
<1> DEFINE Of(u) == {i \in DOMAIN u : u[i].kind = "chunk"}
<1>1. Len(s) \in Nat /\ DOMAIN s = 1 .. Len(s)
  OBVIOUS
<1>2. IsFiniteSet(Of(s))
  <2>1. IsFiniteSet(1 .. Len(s)) /\ Of(s) \subseteq 1 .. Len(s)
    BY <1>1, FS_Interval
  <2> QED
    BY <2>1, FS_Subset
<1>3. ChunksIn(s) = Cardinality(Of(s)) /\ ChunksIn(s) \in Nat
  BY <1>2, FS_CardinalityType DEF ChunksIn
<1>4. ASSUME \A i \in 1 .. Len(s) : s[i].kind # "chunk"
      PROVE  ChunksIn(s) = 0
  <2>1. Of(s) = {}
    BY <1>1, <1>4
  <2> QED
    BY <2>1, <1>3, FS_EmptySet
<1>5. ASSUME NEW t \in Seq(Messages), Len(t) = Len(s) + 1,
             \A i \in 1 .. Len(s) : t[i] = s[i], t[Len(s) + 1].kind = "chunk"
      PROVE  ChunksIn(t) = ChunksIn(s) + 1
  <2>1. DOMAIN t = 1 .. (Len(s) + 1)
    BY <1>5
  <2>2. Of(t) = Of(s) \cup {Len(s) + 1}
    BY <1>1, <1>5, <2>1
  <2>3. Len(s) + 1 \notin Of(s)
    BY <1>1
  <2>4. Cardinality(Of(s) \cup {Len(s) + 1}) = Cardinality(Of(s)) + 1
    BY <1>2, <2>3, FS_AddElement
  <2>5. ChunksIn(t) = Cardinality(Of(t))
    BY DEF ChunksIn
  <2> QED
    BY <1>3, <2>2, <2>4, <2>5
<1> QED
  BY <1>3, <1>4, <1>5

\* Steps that publish nothing.
LEMMA SilentStep ==
    ASSUME PromptInv, KeepaliveFires \/ KeepaliveEnds \/ DrainCancels \/ HandlerReturns
    PROVE  PromptInv'
<1>1. UNCHANGED <<caller, outcome, got, quiet, request, wire, sent, errorLost, up, pubFaults>>
  BY DEF KeepaliveFires, KeepaliveEnds, DrainCancels, HandlerReturns, callerVars, published
<1>2. CASE KeepaliveFires \/ KeepaliveEnds \/ DrainCancels
  <2>1. /\ UNCHANGED <<serving, run>> /\ kaAge' \in {0, kaAge}
        /\ keepalive' \in {keepalive, "responds", "ended"}
        /\ keepalive' # keepalive => keepalive = "waits"
        /\ keepalive = "waits" /\ keepalive' = "ended" => KaCtxDone
        /\ cancelled' = cancelled \/ cancelled' = TRUE
    BY <1>2 DEF KeepaliveFires, KeepaliveEnds, DrainCancels, keepaliveVars
  <2>2. Sending' /\ StreamRules'
    BY <2>1, <1>1, ServerStands DEF PromptInv
  <2>3. OnTheWire' /\ Reading' /\ Returned'
    BY <2>1, <1>1, CallerStands DEF PromptInv
  <2>4. PromptTypes'
    <3>1. /\ kaAge \in Nat /\ cancelled \in BOOLEAN
          /\ keepalive \in {"off", "waits", "responds", "ended"}
      BY DEF PromptInv, PromptTypes
    <3>2. kaAge' \in Nat
      BY <3>1, <2>1
    <3>3. cancelled' \in BOOLEAN
      BY <3>1, <2>1
    <3>4. keepalive' \in {"off", "waits", "responds", "ended"}
      BY <3>1, <2>1
    <3> QED
      BY <3>2, <3>3, <3>4, <2>1, <1>1 DEF PromptInv, PromptTypes
  <2>5. ServerPhase'
    <3>1. /\ keepalive' # "off" <=> keepalive # "off"
          /\ keepalive = "ended" => keepalive' = "ended"
          /\ serving = "running" => (keepalive' = "ended" => cancelled' = TRUE)
      BY <2>1 DEF PromptInv, PromptTypes, ServerPhase, KaCtxDone
    <3>2. keepalive = "off" => keepalive' = "off"
      BY <2>1
    <3> QED
      BY <3>1, <3>2, <2>1, <1>1 DEF PromptInv, ServerPhase
  <2> QED
    BY <2>2, <2>3, <2>4, <2>5 DEF PromptInv
<1>3. CASE HandlerReturns
  <2>1. /\ serving = "running" /\ serving' = "stopping" /\ UNCHANGED <<keepaliveVars, cancelled>>
        /\ \/ \E n \in 0 .. MaxChunks : run' = [kind |-> "text", chunks |-> n]
           \/ \E e \in RunErrors : run' = [kind |-> "error", error |-> e]
    BY <1>3 DEF HandlerReturns
  <2>2. run' \in RunResults /\ run'.kind \in {"text", "error"}
    BY <2>1 DEF RunResults
  <2>3. run = NoRun /\ keepalive # "off"
    BY <2>1 DEF PromptInv, ServerPhase
  <2>4. PromptTypes'
    BY <2>1, <2>2, <1>1 DEF PromptInv, PromptTypes, keepaliveVars
  <2>5. ServerPhase'
    BY <2>1, <2>2, <2>3, <1>1 DEF PromptInv, ServerPhase, keepaliveVars
  <2>6. Sending'
    BY <2>1, <1>1 DEF PromptInv, Sending
  <2>7. StreamRules'
    <3>1. StreamIsOrdered' /\ ChunkOrder'
      BY <1>1 DEF PromptInv, StreamRules, StreamIsOrdered, ChunkOrder
    <3>2. ErrorSource' /\ EndIsLast'
      BY <2>1, <1>1 DEF PromptInv, Sending, ErrorSource, EndIsLast, Plain
    <3> QED
      BY <3>1, <3>2 DEF StreamRules
  <2>8. OnTheWire' /\ Reading' /\ Returned'
    BY <2>1, <2>3, <1>1, CallerStands DEF PromptInv
  <2> QED
    BY <2>4, <2>5, <2>6, <2>7, <2>8 DEF PromptInv
<1> QED
  BY <1>2, <1>3

\* A message that is published, or not, and says nothing of the answer: an ack, or one
\* of another agent.
LEMMA PlainStep ==
    ASSUME PromptInv, NEW m \in Messages, m.kind \in Plain, Responds(m),
           UNCHANGED <<caller, outcome, got, quiet, run, cancelled, up>>,
           serving \in {"idle", "running", "stopping"},
           serving' = IF serving = "idle" THEN "running" ELSE serving,
           request # "none", request' = "arrived",
           keepalive' \in {"waits", "responds", "ended"}, kaAge' \in Nat,
           keepalive' = "ended" => keepalive = "ended"
    PROVE  PromptInv'
<1>1. errorLost' = errorLost /\ (Publishes(m) \/ PublishFails)
  BY DEF Responds
<1>2. /\ \A i \in 1 .. Len(sent) : sent[i].kind \in Plain
      /\ serving # "ended" /\ pubFaults \in Nat
      /\ sent \in Seq(Messages) /\ wire \in Seq(InTransit)
  BY DEF PromptInv, PromptTypes, Sending
<1>3. /\ sent' \in Seq(Messages) /\ wire' \in Seq(InTransit) /\ pubFaults' \in Nat
      /\ \A i \in 1 .. Len(sent') : sent'[i].kind \in Plain
      /\ StreamRules' /\ OnTheWire' /\ Reading' /\ Returned'
  <2>1. CASE Publishes(m)
    <3>1. /\ sent' \in Seq(Messages) /\ wire' \in Seq(InTransit) /\ Len(sent') = Len(sent) + 1
          /\ \A i \in 1 .. Len(sent) : sent'[i] = sent[i]
          /\ sent'[Len(sent) + 1] = m
      BY <2>1, PublishedMessage DEF PromptInv
    <3>2. \A i \in 1 .. Len(sent') : sent'[i].kind \in Plain
      <4> SUFFICES ASSUME NEW i \in 1 .. Len(sent')
                   PROVE  sent'[i].kind \in Plain
        OBVIOUS
      <4>1. Len(sent) \in Nat
        BY <1>2
      <4>2. i \in 1 .. Len(sent) \/ i = Len(sent) + 1
        BY <4>1, <3>1
      <4>3. CASE i \in 1 .. Len(sent)
        BY <4>3, <3>1, <1>2, Zenon
      <4>4. CASE i = Len(sent) + 1
        BY <4>4, <3>1, Zenon
      <4> QED
        BY <4>2, <4>3, <4>4
    <3>3. StreamRules'
      BY <2>1, <1>1, <1>2, OneMore DEF PromptInv, Plain
    <3>4. OnTheWire' /\ Reading' /\ Returned'
      BY <2>1, <1>1, <1>2, PublishingGoesOn DEF PromptInv
    <3>5. pubFaults' \in Nat
      BY <2>1, <1>2 DEF Publishes
    <3> QED
      BY <3>1, <3>2, <3>3, <3>4, <3>5
  <2>2. CASE PublishFails
    <3>1. sent' = sent /\ wire' = wire /\ pubFaults' = pubFaults + 1
      BY <2>2 DEF PublishFails
    <3>2. StreamRules'
      BY <3>1, <1>1, <1>2
          DEF PromptInv, StreamRules, StreamIsOrdered, ChunkOrder, ErrorSource, EndIsLast, Plain
    <3>3. OnTheWire' /\ Reading' /\ Returned'
      BY <3>1, <1>1, <1>2, CallerStands DEF PromptInv
    <3> QED
      BY <3>1, <3>2, <3>3, <1>2
  <2> QED
    BY <2>1, <2>2, <1>1
<1>4. PromptTypes'
  BY <1>1, <1>3 DEF PromptInv, PromptTypes
<1>5. errorLost' # TRUE
  BY <1>1 DEF PromptInv, ServerPhase
<1>6. ServerPhase'
  <2>1. CASE serving = "idle"
    BY <2>1, <1>5 DEF PromptInv, ServerPhase
  <2>2. CASE serving # "idle"
    BY <2>2, <1>5 DEF PromptInv, ServerPhase
  <2> QED
    BY <2>1, <2>2
<1>7. Sending'
  BY <1>3 DEF Sending
<1> QED
  BY <1>3, <1>4, <1>6, <1>7 DEF PromptInv

\* The error, published or lost; the terminator is to come.
LEMMA ErrorStep ==
    ASSUME PromptInv, NEW code \in Nat, SendError(code),
           UNCHANGED <<caller, outcome, got, quiet, run, keepalive, kaAge, cancelled, up>>,
           serving \notin {"closing", "ended"},
           request # "none", request' = "arrived",
           serving = "idle" \/ keepalive = "ended",
           \/ serving = "idle" /\ code = 400
           \/ code = 500
           \/ run.kind = "error" /\ code = SentCode(ErrorFor(run.error))
    PROVE  PromptInv'
<1> DEFINE m == Error(code)
<1>1. m \in Messages /\ m.kind = "error" /\ m.n = code
  BY DEF Error, Messages
<1>2. /\ serving' = "closing"
      /\ \/ Publishes(m) /\ errorLost' = errorLost
         \/ PublishFails /\ errorLost' = TRUE
  BY DEF SendError
<1> HIDE DEF m
<1>3. /\ \A i \in 1 .. Len(sent) : sent[i].kind \in Plain \cup {"chunk"}
      /\ serving # "ended" /\ pubFaults \in Nat
      /\ sent \in Seq(Messages) /\ wire \in Seq(InTransit)
  BY DEF PromptInv, PromptTypes, Sending
<1>4. serving = "idle" => sent = <<>> /\ keepalive = "off"
  BY DEF PromptInv, ServerPhase
<1>5. /\ sent' \in Seq(Messages) /\ wire' \in Seq(InTransit) /\ pubFaults' \in Nat
      /\ errorLost' = TRUE \/ LastIs("error")'
      /\ errorLost' = TRUE => pubFaults' > 0
      /\ StreamRules' /\ OnTheWire' /\ Reading' /\ Returned'
  <2>1. CASE Publishes(m) /\ errorLost' = errorLost
    <3>1. /\ sent' \in Seq(Messages) /\ wire' \in Seq(InTransit) /\ Len(sent') = Len(sent) + 1
          /\ sent'[Len(sent) + 1] = m
      BY <2>1, <1>1, PublishedMessage DEF PromptInv
    <3>2. LastIs("error")'
      <4>1. sent' # <<>>
        BY <3>1, <1>3
      <4> QED
        BY <4>1, <3>1, <1>1 DEF LastIs
    <3>3. StreamRules'
      BY <2>1, <1>1, <1>3, <1>4, OneMore DEF PromptInv, Plain
    <3>4. OnTheWire' /\ Reading' /\ Returned'
      BY <2>1, <1>1, <1>3, PublishingGoesOn DEF PromptInv
    <3>5. pubFaults' = pubFaults /\ errorLost' # TRUE
      BY <2>1 DEF Publishes, PromptInv, ServerPhase
    <3> QED
      BY <3>1, <3>2, <3>3, <3>4, <3>5, <1>3
  <2>2. CASE PublishFails /\ errorLost' = TRUE
    <3>1. sent' = sent /\ wire' = wire /\ pubFaults' = pubFaults + 1
      BY <2>2 DEF PublishFails
    <3>2. StreamRules'
      BY <3>1, <2>2, <1>2, <1>3
          DEF PromptInv, StreamRules, StreamIsOrdered, ChunkOrder, ErrorSource, EndIsLast, Plain
    <3>3. OnTheWire' /\ Reading' /\ Returned'
      BY <3>1, <2>2, <1>3, CallerStands DEF PromptInv
    <3> QED
      BY <3>1, <3>2, <3>3, <2>2, <1>3
  <2> QED
    BY <2>1, <2>2, <1>2
<1>6. PromptTypes'
  <2>1. errorLost' \in BOOLEAN
    BY <1>2 DEF PromptInv, PromptTypes
  <2> QED
    BY <2>1, <1>2, <1>5 DEF PromptInv, PromptTypes
<1>7. ServerPhase'
  BY <1>2, <1>4, <1>5 DEF PromptInv, ServerPhase
<1>8. Sending'
  BY <1>2, <1>5 DEF Sending
<1> QED
  BY <1>5, <1>6, <1>7, <1>8 DEF PromptInv

LEMMA HandleStep ==
    ASSUME PromptInv, Handle
    PROVE  PromptInv'
<1>1. /\ serving = "idle" /\ request # "none" /\ request' = "arrived"
      /\ UNCHANGED <<caller, outcome, got, quiet, run, cancelled, up>>
      /\ \/ SendError(500) /\ UNCHANGED <<keepalive, kaAge>>
         \/ SendError(400) /\ UNCHANGED <<keepalive, kaAge>>
         \/ Responds(Ack) /\ serving' = "running" /\ keepalive' = "waits" /\ kaAge' = 0
  BY DEF Handle, callerVars, keepaliveVars
<1>2. Ack \in Messages /\ Ack.kind \in Plain
  BY DEF Ack, Messages, Plain
<1>3. CASE SendError(500) /\ UNCHANGED <<keepalive, kaAge>>
  BY <1>1, <1>3, ErrorStep
<1>4. CASE SendError(400) /\ UNCHANGED <<keepalive, kaAge>>
  BY <1>1, <1>4, ErrorStep
<1>5. CASE Responds(Ack) /\ serving' = "running" /\ keepalive' = "waits" /\ kaAge' = 0
  BY <1>1, <1>2, <1>5, PlainStep
<1> QED
  BY <1>1, <1>3, <1>4, <1>5

LEMMA KeepaliveAcksStep ==
    ASSUME PromptInv, KeepaliveAcks
    PROVE  PromptInv'
<1>1. /\ keepalive = "responds" /\ keepalive' = "waits" /\ Responds(Ack)
      /\ UNCHANGED <<caller, outcome, got, quiet, request, serving, run, kaAge, cancelled, up>>
  BY DEF KeepaliveAcks, callerVars
<1>2. serving \in {"running", "stopping"} /\ request = "arrived" /\ kaAge' \in Nat
  BY <1>1 DEF PromptInv, PromptTypes, ServerPhase
<1>3. Ack \in Messages /\ Ack.kind \in Plain
  BY DEF Ack, Messages, Plain
<1> QED
  BY <1>1, <1>2, <1>3, PlainStep

LEMMA ForeignStep ==
    ASSUME PromptInv, ForeignChunk
    PROVE  PromptInv'
<1>1. /\ serving = "running"
      /\ UNCHANGED <<caller, outcome, got, quiet, request, serving, run, keepalive, kaAge,
                     cancelled, up>>
      /\ \E kind \in {"query", "unknown"} : Responds([kind |-> kind, n |-> 0])
  BY DEF ForeignChunk, Responds, callerVars, keepaliveVars
<1>2. PICK kind \in {"query", "unknown"} : Responds([kind |-> kind, n |-> 0])
  BY <1>1
<1>3. [kind |-> kind, n |-> 0] \in Messages /\ [kind |-> kind, n |-> 0].kind \in Plain
  BY DEF Messages, Plain
<1>4. /\ request = "arrived" /\ keepalive' \in {"waits", "responds", "ended"}
      /\ kaAge' \in Nat
  BY <1>1 DEF PromptInv, PromptTypes, ServerPhase
<1> QED
  BY <1>1, <1>2, <1>3, <1>4, PlainStep

LEMMA HandlerAnsweredStep ==
    ASSUME PromptInv, HandlerAnswered
    PROVE  PromptInv'
<1>1. /\ serving = "stopping" /\ keepalive = "ended"
      /\ UNCHANGED <<caller, outcome, got, quiet, request, run, keepalive, kaAge, cancelled, up>>
  BY DEF HandlerAnswered, KeepaliveStopped, callerVars, keepaliveVars
<1>2. request = "arrived"
  BY <1>1 DEF PromptInv, PromptTypes, ServerPhase
<1>3. CASE run.kind = "error" /\ SendError(SentCode(ErrorFor(run.error)))
  <2> DEFINE code == SentCode(ErrorFor(run.error))
  <2>1. code \in Nat
    BY DEF SentCode, TableCodes
  <2> QED
    BY <2>1, <1>1, <1>2, <1>3, ErrorStep
<1>4. CASE SendError(500)
  BY <1>1, <1>2, <1>4, ErrorStep
<1>5. CASE /\ run.kind = "text" /\ run.chunks > 0 /\ serving' = "sending"
           /\ UNCHANGED <<wire, sent, errorLost, pubFaults>>
  <2>1. /\ sent \in Seq(Messages)
        /\ \A i \in 1 .. Len(sent) : sent[i].kind \in Plain
    BY <1>1 DEF PromptInv, PromptTypes, Sending
  <2>2. Sending'
    <3>1. LastChunk = 0
      <4> SUFFICES ASSUME sent # <<>> PROVE sent[Len(sent)].kind # "chunk"
        BY DEF LastChunk, LastIs
      <4>1. Len(sent) \in 1 .. Len(sent)
        BY <2>1
      <4> QED
        BY <4>1, <2>1 DEF Plain
    <3>2. ChunksSent = 0
      BY <2>1, ChunksCount DEF ChunksSent, Plain
    <3>3. (ChunksSent = LastChunk)'
      BY <3>1, <3>2, <1>5 DEF ChunksSent, LastChunk, LastIs
    <3> QED
      BY <1>5, <2>1, <3>3 DEF Sending
  <2>3. StreamRules'
    BY <1>1, <1>5
        DEF PromptInv, StreamRules, StreamIsOrdered, ChunkOrder, ErrorSource, EndIsLast
  <2>4. OnTheWire' /\ Reading' /\ Returned'
    BY <1>1, <1>5, CallerStands DEF PromptInv
  <2>5. PromptTypes'
    BY <1>1, <1>5 DEF PromptInv, PromptTypes
  <2>6. ServerPhase'
    BY <1>1, <1>2, <1>5 DEF PromptInv, ServerPhase
  <2> QED
    BY <2>2, <2>3, <2>4, <2>5, <2>6 DEF PromptInv
<1> QED
  BY <1>3, <1>4, <1>5 DEF HandlerAnswered, published

LEMMA SendChunkStep ==
    ASSUME PromptInv, SendChunk
    PROVE  PromptInv'
<1>1. /\ serving = "sending"
      /\ UNCHANGED <<caller, outcome, got, quiet, request, run, keepalive, kaAge, cancelled,
                     errorLost, up>>
      /\ \/ Publishes(Chunk(ChunksSent + 1)) /\ serving' = "sending"
         \/ PublishFails /\ serving' = "reporting"
  BY DEF SendChunk, AfterLostChunk, callerVars, keepaliveVars
<1>2. /\ request = "arrived" /\ sent \in Seq(Messages) /\ wire \in Seq(InTransit)
      /\ run.kind = "text" /\ run.chunks > 0 /\ keepalive = "ended"
      /\ \A i \in 1 .. Len(sent) : sent[i].kind \in Plain \cup {"chunk"}
      /\ ChunksSent = LastChunk /\ ChunksSent \in Nat /\ errorLost # TRUE /\ pubFaults \in Nat
  BY <1>1, ChunksCount DEF PromptInv, PromptTypes, ServerPhase, Sending, ChunksSent
<1>3. CASE Publishes(Chunk(ChunksSent + 1)) /\ serving' = "sending"
  <2> DEFINE m == Chunk(ChunksSent + 1)
  <2>1. m \in Messages /\ m.kind = "chunk" /\ m.n = ChunksSent + 1
    BY <1>2 DEF Chunk, Messages
  <2>2. Publishes(m)
    BY <1>3
  <2> HIDE DEF m
  <2>3. /\ sent' \in Seq(Messages) /\ wire' \in Seq(InTransit) /\ Len(sent') = Len(sent) + 1
        /\ \A i \in 1 .. Len(sent) : sent'[i] = sent[i]
        /\ sent'[Len(sent) + 1] = m
    BY <2>1, <2>2, PublishedMessage DEF PromptInv
  <2>4. StreamRules'
    BY <2>1, <2>2, <1>1, <1>2, OneMore DEF PromptInv, Plain
  <2>5. OnTheWire' /\ Reading' /\ Returned'
    BY <2>1, <2>2, <1>1, PublishingGoesOn DEF PromptInv
  <2>6. PromptTypes'
    BY <2>2, <2>3, <1>1, <1>3 DEF PromptInv, PromptTypes, Publishes
  <2>7. ServerPhase'
    BY <1>1, <1>2, <1>3 DEF PromptInv, ServerPhase
  <2>8. Sending'
    <3>1. ChunksSent' = m.n
      BY <2>1, <2>3, <1>2, ChunksCount DEF ChunksSent
    <3>2. LastChunk' = m.n
      <4>1. sent' # <<>> /\ sent'[Len(sent')] = m
        BY <2>3, <1>2
      <4> QED
        BY <4>1, <2>1 DEF LastChunk, LastIs
    <3>3. \A i \in 1 .. Len(sent') : sent'[i].kind \in Plain \cup {"chunk"}
      BY <2>1, <2>3, <1>2, SMTT(15)
    <3> QED
      BY <3>1, <3>2, <3>3, <1>3 DEF Sending
  <2> QED
    BY <2>4, <2>5, <2>6, <2>7, <2>8 DEF PromptInv
<1>4. CASE PublishFails /\ serving' = "reporting"
  <2>1. sent' = sent /\ wire' = wire /\ pubFaults' = pubFaults + 1
    BY <1>4 DEF PublishFails
  <2>2. StreamRules'
    BY <2>1, <1>1, <1>2
        DEF PromptInv, StreamRules, StreamIsOrdered, ChunkOrder, ErrorSource, EndIsLast, Plain
  <2>3. OnTheWire' /\ Reading' /\ Returned'
    BY <2>1, <1>1, CallerStands DEF PromptInv
  <2>4. PromptTypes'
    BY <2>1, <1>1, <1>2, <1>4 DEF PromptInv, PromptTypes
  <2>5. ServerPhase'
    BY <1>1, <1>2, <1>4 DEF PromptInv, ServerPhase
  <2>6. Sending'
    BY <2>1, <1>2, <1>4 DEF Sending
  <2> QED
    BY <2>2, <2>3, <2>4, <2>5, <2>6 DEF PromptInv
<1> QED
  BY <1>1, <1>3, <1>4

LEMMA ReportStep ==
    ASSUME PromptInv, ReportLostChunk
    PROVE  PromptInv'
<1>1. /\ serving = "reporting" /\ SendError(500)
      /\ UNCHANGED <<caller, outcome, got, quiet, request, run, keepalive, kaAge, cancelled, up>>
  BY DEF ReportLostChunk, callerVars, keepaliveVars
<1>2. request = "arrived" /\ keepalive = "ended"
  BY <1>1 DEF PromptInv, PromptTypes, ServerPhase
<1> QED
  BY <1>1, <1>2, ErrorStep

LEMMA TerminateStep ==
    ASSUME PromptInv, Terminate
    PROVE  PromptInv'
<1>1. /\ serving' = "ended" /\ errorLost' = errorLost
      /\ UNCHANGED <<caller, outcome, got, quiet, request, run, keepalive, kaAge, cancelled, up>>
      /\ Publishes(End) \/ PublishFails
      /\ serving = "closing" \/ (serving = "sending" /\ ChunksSent = run.chunks)
  BY DEF Terminate, Responds, callerVars, keepaliveVars
<1>2. /\ request = "arrived" /\ keepalive \in {"off", "ended"}
      /\ sent \in Seq(Messages) /\ wire \in Seq(InTransit) /\ pubFaults \in Nat
  BY <1>1 DEF PromptInv, PromptTypes, ServerPhase
<1>3. End \in Messages /\ End.kind = "end"
  BY DEF End, Messages
<1>4. \/ errorLost = TRUE
      \/ LastIs("error")
      \/ LastIs("chunk") /\ run.kind = "text" /\ sent[Len(sent)].n = run.chunks
  <2>1. CASE serving = "closing"
    BY <2>1 DEF PromptInv, Sending
  <2>2. CASE serving = "sending" /\ ChunksSent = run.chunks
    <3>1. LastChunk = run.chunks /\ run.chunks > 0 /\ run.kind = "text"
      BY <2>2 DEF PromptInv, ServerPhase, Sending
    <3> QED
      BY <3>1 DEF LastChunk
  <2> QED
    BY <2>1, <2>2, <1>1
<1>5. ServerPhase'
  <2>1. errorLost = TRUE => pubFaults' > 0
    BY <1>1, <1>2 DEF PromptInv, ServerPhase, Publishes, PublishFails
  <2> QED
    BY <2>1, <1>1, <1>2 DEF PromptInv, ServerPhase
<1>6. CASE Publishes(End)
  <2>1. /\ sent' \in Seq(Messages) /\ wire' \in Seq(InTransit) /\ Len(sent') = Len(sent) + 1
        /\ sent'[Len(sent) + 1] = End
    BY <1>3, <1>6, PublishedMessage DEF PromptInv
  <2>2. StreamRules'
    BY <1>1, <1>3, <1>4, <1>6, OneMore DEF PromptInv, Plain
  <2>3. OnTheWire' /\ Reading' /\ Returned'
    BY <1>1, <1>3, <1>6, PublishingGoesOn DEF PromptInv
  <2>4. PromptTypes'
    BY <2>1, <1>1, <1>6 DEF PromptInv, PromptTypes, Publishes
  <2>5. Sending'
    <3>1. sent' # <<>>
      BY <2>1, <1>2
    <3> QED
      BY <3>1, <2>1, <1>1, <1>3 DEF Sending, LastIs
  <2> QED
    BY <2>2, <2>3, <2>4, <2>5, <1>5 DEF PromptInv
<1>7. CASE PublishFails
  <2>1. sent' = sent /\ wire' = wire /\ pubFaults' = pubFaults + 1
    BY <1>7 DEF PublishFails
  <2>2. StreamRules'
    BY <2>1, <1>1
        DEF PromptInv, StreamRules, StreamIsOrdered, ChunkOrder, ErrorSource, EndIsLast
  <2>3. OnTheWire' /\ Reading' /\ Returned'
    BY <2>1, <1>1, CallerStands DEF PromptInv
  <2>4. PromptTypes'
    BY <2>1, <1>1, <1>2 DEF PromptInv, PromptTypes
  <2>5. Sending'
    BY <2>1, <1>1, <1>2 DEF Sending
  <2> QED
    BY <2>2, <2>3, <2>4, <2>5, <1>5 DEF PromptInv
<1> QED
  BY <1>1, <1>6, <1>7

LEMMA CutStep ==
    ASSUME PromptInv, Cut
    PROVE  PromptInv'
<1>1. /\ up = TRUE /\ up' = FALSE /\ wire' = <<>>
      /\ request' = IF request \in {"good", "refused"} THEN "lost" ELSE request
      /\ UNCHANGED <<caller, outcome, got, quiet, serving, run, keepalive, kaAge, cancelled, sent,
                     errorLost, pubFaults>>
  BY DEF Cut, callerVars, keepaliveVars
<1>2. PromptTypes'
  <2>1. <<>> \in Seq(InTransit)
    OBVIOUS
  <2>2. request' \in {"none", "good", "refused", "lost", "arrived"}
    BY <1>1 DEF PromptInv, PromptTypes
  <2> QED
    BY <2>1, <2>2, <1>1 DEF PromptInv, PromptTypes
<1>3. ServerPhase'
  <2>1. request' = "none" <=> request = "none"
    BY <1>1
  <2>2. request' = "arrived" <=> request = "arrived"
    BY <1>1
  <2> QED
    BY <2>1, <2>2, <1>1 DEF PromptInv, ServerPhase
<1>4. Sending' /\ StreamRules'
  BY <1>1, ServerStands DEF PromptInv
<1>5. OnTheWire' /\ Reading' /\ Returned'
  BY <1>1 DEF PromptInv, OnTheWire, Reading, Returned, Listens
<1> QED
  BY <1>2, <1>3, <1>4, <1>5 DEF PromptInv

LEMMA TickStep ==
    ASSUME PromptInv, PromptTick
    PROVE  PromptInv'
<1>1. /\ UNCHANGED <<caller, outcome, got, request, serving, run, keepalive, cancelled, sent,
                     errorLost, up, pubFaults>>
      /\ quiet' \in {quiet, quiet + 1} /\ kaAge' \in {kaAge, kaAge + 1}
      /\ wire' = [i \in DOMAIN wire |-> [wire[i] EXCEPT !.age = @ + 1]]
  BY DEF PromptTick
<1>2. /\ wire \in Seq(InTransit) /\ Len(wire) \in Nat /\ DOMAIN wire = 1 .. Len(wire)
      /\ \A i \in 1 .. Len(wire) : wire[i] \in InTransit
  BY DEF PromptInv, PromptTypes
<1>3. \A i \in 1 .. Len(wire) : wire'[i] \in InTransit /\ wire'[i].m = wire[i].m
  <2> TAKE i \in 1 .. Len(wire)
  <2>1. wire'[i] = [wire[i] EXCEPT !.age = @ + 1]
    BY <1>1, <1>2
  <2> QED
    BY <2>1, <1>2 DEF InTransit
<1>4. wire' \in Seq(InTransit) /\ Len(wire') = Len(wire)
  <2>1. wire' \in [1 .. Len(wire) -> InTransit]
    BY <1>1, <1>2, <1>3
  <2> QED
    BY <2>1, <1>2, SeqDef
<1>5. PromptTypes'
  BY <1>1, <1>4 DEF PromptInv, PromptTypes
<1>6. ServerPhase'
  BY <1>1, <1>2, <1>4 DEF PromptInv, ServerPhase
<1>7. Sending' /\ StreamRules'
  BY <1>1, ServerStands DEF PromptInv
<1>8. Delivered' = Delivered /\ Listens' = Listens
  BY <1>1, <1>4 DEF Delivered, Listens
<1>9. OnTheWire'
  BY <1>1, <1>2, <1>3, <1>4, <1>8 DEF PromptInv, OnTheWire
<1>10. Reading' /\ Returned'
  BY <1>1, <1>8 DEF PromptInv, Reading, Returned
<1> QED
  BY <1>5, <1>6, <1>7, <1>9, <1>10 DEF PromptInv

LEMMA PromptStep ==
    ASSUME PromptInv, [PromptNext]_promptVars
    PROVE  PromptInv'
<1>1. CASE UNCHANGED promptVars
  <2>1. Sending' /\ StreamRules'
    BY <1>1, ServerStands DEF PromptInv, promptVars
  <2>2. OnTheWire' /\ Reading' /\ Returned'
    BY <1>1, CallerStands DEF PromptInv, promptVars
  <2>3. PromptTypes' /\ ServerPhase'
    BY <1>1 DEF PromptInv, PromptTypes, ServerPhase, promptVars
  <2> QED
    BY <2>1, <2>2, <2>3 DEF PromptInv
<1>2. CASE Send \/ Text \/ TextTimesOut \/ NoResponders \/ CallerLeaves
  BY <1>2, CallerStep
<1>3. CASE KeepaliveFires \/ KeepaliveEnds \/ DrainCancels \/ HandlerReturns
  BY <1>3, SilentStep
<1> QED
  BY <1>1, <1>2, <1>3, ReadStep, HandleStep, KeepaliveAcksStep, HandlerAnsweredStep,
     SendChunkStep, ReportStep, TerminateStep, ForeignStep, CutStep, TickStep
     DEF PromptNext, ServerStep

LEMMA PromptStart ==
    ASSUME PromptInit
    PROVE  PromptInv
<1>1. /\ caller = "new" /\ outcome = NoOutcome /\ got = <<>> /\ quiet = 0
      /\ request = "none" /\ wire = <<>>
      /\ serving = "idle" /\ run = NoRun /\ keepalive = "off" /\ kaAge = 0
      /\ cancelled = FALSE /\ sent = <<>> /\ errorLost = FALSE /\ up = TRUE /\ pubFaults = 0
  BY DEF PromptInit
<1>2. PromptTypes
  <2>1. NoOutcome \in Outcomes /\ NoRun \in RunResults
    BY DEF Outcomes, NoOutcome, RunResults
  <2>2. sent \in Seq(Messages) /\ wire \in Seq(InTransit) /\ got \in Seq(Nat)
    BY <1>1
  <2> QED
    BY <2>1, <2>2, <1>1 DEF PromptTypes
<1>3. ServerPhase /\ Sending /\ Returned
  BY <1>1 DEF ServerPhase, Sending, Returned, NoOutcome
<1>4. StreamRules
  BY <1>1 DEF StreamRules, StreamIsOrdered, ChunkOrder, ErrorSource, EndIsLast
<1>5. OnTheWire /\ Reading
  BY <1>1 DEF OnTheWire, Reading, Delivered
<1> QED
  BY <1>2, <1>3, <1>4, <1>5 DEF PromptInv

\* Whatever is lost, however late the messages are and whenever the caller or the
\* handler ends: Text returns the agent's whole answer, in order, or an error, which is
\* permanent only if another attempt cannot help; it returns less only if the error
\* could not be published either (Stream.Text, processPrompt, sendErrorBody, Permanent).
THEOREM AnswersAreWhole == PromptSpec => [](AnswerIsWhole /\ PermanentIsDeserved)
<1>1. PromptInit => PromptInv
  BY PromptStart
<1>2. PromptInv /\ [PromptNext]_promptVars => PromptInv'
  BY PromptStep
<1>3. PromptInv => AnswerIsWhole /\ PermanentIsDeserved
  <2> SUFFICES ASSUME PromptInv PROVE AnswerIsWhole /\ PermanentIsDeserved
    OBVIOUS
  <2>1. TextIsWhole
    <3> SUFFICES ASSUME outcome.kind = "text", ~errorLost
                 PROVE  run.kind = "text" /\ got = [i \in 1 .. run.chunks |-> i]
      BY DEF TextIsWhole
    <3>1. run.kind = "text" /\ Len(got) = run.chunks
      BY DEF PromptInv, Returned
    <3>2. got \in Seq(Nat) /\ \A i \in 1 .. Len(got) : got[i] = i
      BY DEF PromptInv, PromptTypes, Reading
    <3>3. got = [i \in 1 .. Len(got) |-> got[i]]
      BY <3>2
    <3> QED
      BY <3>1, <3>2, <3>3
  <2>2. StreamIsOrdered
    BY DEF PromptInv, StreamRules
  <2>3. PermanentIsDeserved
    BY DEF PromptInv, Returned, PermanentIsDeserved
  <2> QED
    BY <2>1, <2>2, <2>3 DEF AnswerIsWhole
<1> QED
  BY <1>1, <1>2, <1>3, PTL DEF PromptSpec

-----------------------------------------------------------------------------
(* The keepalives and the inactivity timeout *)

\* What the timing looks at stays as it is, or the acks are counted again.
LEMMA PublishingIsInTime ==
    ASSUME PromptInv, AckInTime, NEW m \in Messages, Publishes(m), serving # "ended",
           UNCHANGED <<caller, outcome, quiet, up, cancelled>>, kaAge' \in {0, kaAge}
    PROVE  AckInTime'
<1>1. /\ wire' \in Seq(InTransit)
      /\ ~Listens => wire' = wire
      /\ Listens =>
          /\ Len(wire') = Len(wire) + 1
          /\ \A i \in 1 .. Len(wire) : wire'[i] = wire[i]
          /\ wire'[Len(wire) + 1] = [m |-> m, age |-> 0]
  BY PublishedMessage DEF PromptInv
<1>2. /\ wire \in Seq(InTransit) /\ Len(wire) \in Nat
      /\ quiet \in Nat /\ kaAge \in Nat /\ pubFaults \in Nat /\ pubFaults' = pubFaults
  BY DEF PromptInv, PromptTypes, Publishes
<1>3. KeepaliveInterval \in Nat /\ MaxDelay \in Nat
  BY PromptConstants
<1>4. \A i \in 1 .. Len(wire') : wire'[i].age <= MaxDelay
  <2>1. CASE ~Listens
    BY <2>1, <1>1 DEF AckInTime
  <2>2. CASE Listens
    <3> SUFFICES ASSUME NEW i \in 1 .. Len(wire') PROVE wire'[i].age <= MaxDelay
      OBVIOUS
    <3>1. CASE i \in 1 .. Len(wire)
      BY <3>1, <2>2, <1>1 DEF AckInTime
    <3>2. CASE i \notin 1 .. Len(wire)
      <4>1. i = Len(wire) + 1
        BY <3>2, <2>2, <1>1, <1>2
      <4> QED
        BY <4>1, <2>2, <1>1, <1>3
    <3> QED
      BY <3>1, <3>2
  <2> QED
    BY <2>1, <2>2
<1>5. ASSUME up, pubFaults = 0, cancelled = FALSE, caller \in {"open", "reading"}
      PROVE  wire' # <<>> /\ quiet <= wire'[1].age + KeepaliveInterval
  <2>1. Listens
    BY <1>5 DEF Listens
  <2>2. wire' # <<>>
    BY <2>1, <1>1, <1>2
  <2>3. CASE wire # <<>>
    <3>1. 1 \in 1 .. Len(wire)
      BY <2>3, <1>2
    <3>2. wire'[1] = wire[1]
      BY <3>1, <2>1, <1>1
    <3> QED
      BY <2>2, <2>3, <3>2, <1>5 DEF AckInTime
  <2>4. CASE wire = <<>>
    <3>1. Len(wire) = 0 /\ Len(wire) + 1 = 1
      BY <2>4, <1>2
    <3>2. wire'[1] = [m |-> m, age |-> 0]
      BY <3>1, <2>1, <1>1
    <3>3. quiet <= KeepaliveInterval
      <4>1. CASE serving = "idle"
        BY <4>1, <2>4, <1>3, <1>5 DEF AckInTime
      <4>2. CASE keepalive \in {"waits", "responds", "ended"}
        BY <4>2, <2>4, <1>2, <1>3, <1>5 DEF AckInTime
      <4>3. CASE serving \in {"closing", "ended"}
        BY <4>3, <2>4, <1>5 DEF AckInTime
      <4> QED
        BY <4>1, <4>2, <4>3 DEF PromptInv, PromptTypes, ServerPhase
    <3> QED
      BY <2>2, <3>2, <3>3, <1>3
  <2> QED
    BY <2>3, <2>4
<1>6. kaAge' <= KeepaliveInterval
  BY <1>3 DEF AckInTime
<1> QED
  BY <1>2, <1>4, <1>5, <1>6 DEF AckInTime

LEMMA ReadIsInTime ==
    ASSUME PromptInv, AckInTime, Read
    PROVE  AckInTime'
<1>1. /\ caller = "reading" /\ wire # <<>>
      /\ UNCHANGED <<serving, keepalive, kaAge, sent, up, pubFaults, cancelled>>
  BY DEF Read, keepaliveVars, published
<1>2. /\ wire \in Seq(InTransit) /\ kaAge \in Nat /\ sent \in Seq(Messages)
      /\ KeepaliveInterval \in Nat
  BY PromptConstants DEF PromptInv, PromptTypes
<1>3. /\ Len(wire) \in Nat /\ Len(wire) > 0 /\ wire[1] \in InTransit /\ Head(wire) = wire[1]
      /\ Tail(wire) \in Seq(InTransit) /\ Len(Tail(wire)) = Len(wire) - 1
      /\ \A i \in 1 .. Len(Tail(wire)) : Tail(wire)[i] = wire[i + 1]
  BY <1>1, <1>2, HeadTailProperties
<1>4. \/ caller' = "done" /\ outcome'.kind # "timeout" /\ wire' = <<>>
      \/ /\ caller' = caller /\ outcome' = outcome /\ quiet' = 0 /\ wire' = Tail(wire)
         /\ wire[1].m.kind \notin {"error", "end"}
  BY <1>3 DEF Read, Returns, Failed, NextWait
<1>5. CASE caller' = "done" /\ outcome'.kind # "timeout" /\ wire' = <<>>
  BY <1>1, <1>5 DEF AckInTime
<1>6. CASE /\ caller' = caller /\ outcome' = outcome /\ quiet' = 0 /\ wire' = Tail(wire)
           /\ wire[1].m.kind \notin {"error", "end"}
  <2>1. \A i \in 1 .. Len(wire') : wire'[i].age <= MaxDelay
    <3> SUFFICES ASSUME NEW i \in 1 .. Len(wire') PROVE wire'[i].age <= MaxDelay
      OBVIOUS
    <3>1. i + 1 \in 1 .. Len(wire)
      BY <1>3, <1>6
    <3> QED
      BY <3>1, <1>3, <1>6 DEF AckInTime
  <2>2. ASSUME up, pubFaults = 0, serving \in {"closing", "ended"}
        PROVE  wire' # <<>>
    <3>1. Listens /\ Len(wire) <= Len(sent) /\ wire[1].m = sent[Delivered + 1] /\ Len(sent) \in Nat
      BY <1>1, <1>2, <1>3, <2>2 DEF PromptInv, OnTheWire, Listens
    <3>2. LastIs("error") \/ LastIs("end")
      BY <2>2 DEF PromptInv, Sending, ServerPhase
    <3>3. Delivered + 1 # Len(sent)
      BY <3>1, <3>2, <1>6 DEF LastIs
    <3>4. Len(wire) # 1
      <4> SUFFICES ASSUME Len(wire) = 1 PROVE FALSE
        OBVIOUS
      <4>1. Delivered + 1 = Len(sent)
        BY <3>1 DEF Delivered
      <4> QED
        BY <4>1, <3>3
    <3>5. Len(wire') > 0
      BY <3>4, <1>3, <1>6
    <3> QED
      BY <3>5
  <2>3. wire' # <<>> => 0 <= wire'[1].age + KeepaliveInterval
    <3> SUFFICES ASSUME wire' # <<>> PROVE wire'[1].age \in Nat
      BY <1>2
    <3>1. wire'[1] \in InTransit
      BY <1>3, <1>6
    <3> QED
      BY <3>1 DEF InTransit
  <2> QED
    BY <2>1, <2>2, <2>3, <1>1, <1>2, <1>6 DEF AckInTime
<1> QED
  BY <1>4, <1>5, <1>6

LEMMA TickIsInTime ==
    ASSUME PromptInv, AckInTime, PromptTick
    PROVE  AckInTime'
<1>1. /\ caller \in {"open", "reading"} /\ request \notin {"good", "refused"}
      /\ NothingToDo
      /\ \A i \in DOMAIN wire : wire[i].age < MaxDelay
      /\ quiet' = IF caller = "reading" THEN quiet + 1 ELSE quiet
      /\ kaAge' = IF keepalive = "waits" THEN kaAge + 1 ELSE kaAge
      /\ wire' = [i \in DOMAIN wire |-> [wire[i] EXCEPT !.age = @ + 1]]
      /\ UNCHANGED <<caller, outcome, request, serving, keepalive, up, pubFaults, cancelled>>
  BY DEF PromptTick
<1>2. /\ wire \in Seq(InTransit) /\ Len(wire) \in Nat /\ DOMAIN wire = 1 .. Len(wire)
      /\ \A i \in 1 .. Len(wire) : wire[i] \in InTransit
      /\ kaAge \in Nat /\ quiet \in Nat /\ KeepaliveInterval \in Nat /\ MaxDelay \in Nat
  BY PromptConstants DEF PromptInv, PromptTypes
<1>3. \A i \in 1 .. Len(wire) : wire'[i].age = wire[i].age + 1 /\ wire[i].age \in Nat
  <2> TAKE i \in 1 .. Len(wire)
  <2>1. wire'[i] = [wire[i] EXCEPT !.age = @ + 1]
    BY <1>1, <1>2
  <2> QED
    BY <2>1, <1>2 DEF InTransit
<1>4. DOMAIN wire' = 1 .. Len(wire) /\ wire' \in Seq(InTransit) /\ Len(wire') = Len(wire)
  BY <1>1, <1>2, TickStep DEF PromptInv, PromptTypes
<1>5. kaAge' <= KeepaliveInterval
  <2>1. keepalive = "waits" => kaAge < KeepaliveInterval
    BY <1>1 DEF NothingToDo, PromptInv, ServerPhase
  <2> QED
    BY <2>1, <1>1, <1>2 DEF AckInTime
<1>6. \A i \in 1 .. Len(wire') : wire'[i].age <= MaxDelay
  BY <1>1, <1>2, <1>3, <1>4, SMTT(20)
<1>7. ASSUME up, pubFaults = 0, cancelled = FALSE, caller \in {"open", "reading"}
      PROVE  /\ wire' # <<>> => quiet' <= wire'[1].age + KeepaliveInterval
             /\ wire' = <<>> =>
                    /\ serving = "idle" => quiet' = 0
                    /\ keepalive = "waits" => quiet' <= kaAge'
                    /\ keepalive \in {"responds", "ended"} => quiet' <= KeepaliveInterval
                    /\ serving \notin {"closing", "ended"}
  <2>1. quiet' \in {quiet, quiet + 1}
    BY <1>1
  <2>2. CASE wire # <<>>
    <3>1. 1 \in 1 .. Len(wire) /\ wire' # <<>>
      BY <2>2, <1>2, <1>4
    <3>2. quiet <= wire[1].age + KeepaliveInterval
      BY <2>2, <1>7 DEF AckInTime
    <3> QED
      BY <3>1, <3>2, <2>1, <1>2, <1>3
  <2>3. CASE wire = <<>>
    <3>1. wire' = <<>>
      BY <2>3, <1>2, <1>4
    <3>2. serving \notin {"idle", "ended"}
      BY <2>3, <1>1, <1>7 DEF PromptInv, PromptTypes, ServerPhase, AckInTime
    <3>3. serving = "running" /\ keepalive = "waits" /\ quiet <= kaAge
      BY <2>3, <3>2, <1>1, <1>7 DEF NothingToDo, PromptInv, ServerPhase, AckInTime
    <3> QED
      BY <3>1, <3>2, <3>3, <2>1, <1>1, <1>2
  <2> QED
    BY <2>2, <2>3
<1> QED
  BY <1>1, <1>5, <1>6, <1>7 DEF AckInTime

LEMMA CallerIsInTime ==
    ASSUME PromptInv, AckInTime, KeepaliveInterval + MaxDelay < InactivityTimeout,
           Send \/ Text \/ TextTimesOut \/ NoResponders \/ CallerLeaves
    PROVE  AckInTime'
<1>1. UNCHANGED <<got, serving, run, keepalive, kaAge, sent, up, pubFaults, cancelled>>
  BY DEF Send, Text, TextTimesOut, NoResponders, CallerLeaves, keepaliveVars, published
<1>2. kaAge \in Nat /\ quiet \in Nat /\ pubFaults \in Nat /\ KeepaliveInterval \in Nat
      /\ MaxDelay \in Nat /\ InactivityTimeout \in Nat
  BY PromptConstants DEF PromptInv, PromptTypes
<1>3. kaAge' <= KeepaliveInterval
  BY <1>1 DEF AckInTime
<1>4. CASE /\ caller' = "done" /\ wire' = <<>>
           /\ outcome'.kind = "timeout" => ~up \/ pubFaults > 0 \/ cancelled = TRUE
  BY <1>1, <1>3, <1>4 DEF AckInTime
<1>5. CASE /\ Send /\ caller' = "open" /\ UNCHANGED <<outcome, wire, quiet>>
  <2>1. caller = "new" /\ serving = "idle"
    BY <1>5 DEF Send, PromptInv, PromptTypes, ServerPhase
  <2>2. wire = <<>> /\ keepalive = "off"
    BY <2>1 DEF PromptInv, ServerPhase
  <2> QED
    BY <2>1, <2>2, <1>1, <1>3, <1>5 DEF AckInTime
<1>6. CASE Text
  <2>1. caller = "open" /\ caller' = "reading" /\ quiet' = 0 /\ outcome' = outcome /\ wire' = wire
    BY <1>6 DEF Text
  <2>2. quiet = 0
    BY <2>1 DEF AckInTime
  <2> QED
    BY <2>1, <2>2, <1>1, <1>3 DEF AckInTime
<1>7. CASE TextTimesOut
  <2>1. caller = "reading" /\ quiet >= InactivityTimeout /\ caller' = "done" /\ wire' = <<>>
    BY <1>7 DEF TextTimesOut, TimedOut, Returns
  <2>2. ASSUME up, pubFaults = 0, cancelled = FALSE
        PROVE  FALSE
    <3>1. CASE wire # <<>>
      <4>1. 1 \in 1 .. Len(wire) /\ wire[1] \in InTransit
        BY <3>1 DEF PromptInv, PromptTypes
      <4>2. /\ quiet <= wire[1].age + KeepaliveInterval /\ wire[1].age <= MaxDelay
            /\ wire[1].age \in Nat
        BY <4>1, <3>1, <2>1, <2>2 DEF AckInTime, InTransit
      <4> QED
        BY <4>2, <2>1, <1>2
    <3>2. CASE wire = <<>>
      <4>1. quiet <= KeepaliveInterval
        <5>1. CASE serving = "idle"
          BY <5>1, <3>2, <2>1, <2>2, <1>2 DEF AckInTime
        <5>2. CASE serving # "idle"
          <6>1. keepalive \in {"waits", "responds", "ended"}
            BY <5>2, <3>2, <2>1, <2>2 DEF PromptInv, PromptTypes, ServerPhase, AckInTime
          <6> QED
            BY <6>1, <3>2, <2>1, <2>2, <1>2 DEF AckInTime
        <5> QED
          BY <5>1, <5>2
      <4> QED
        BY <4>1, <2>1, <1>2
    <3> QED
      BY <3>1, <3>2
  <2>3. ~up \/ pubFaults > 0 \/ cancelled = TRUE
    <3>1. cancelled = TRUE \/ cancelled = FALSE
      BY DEF PromptInv, PromptTypes
    <3>2. pubFaults > 0 \/ pubFaults = 0
      BY <1>2
    <3> QED
      BY <3>1, <3>2, <2>2
  <2> QED
    BY <2>1, <2>3, <1>4
<1>8. CASE NoResponders \/ CallerLeaves \/ (Send /\ caller' = "done")
  <2>1. caller' = "done" /\ wire' = <<>> /\ outcome'.kind \in {"closed", "cancelled", "invalid"}
    BY <1>8 DEF NoResponders, CallerLeaves, Send, Returns, Failed
  <2> QED
    BY <2>1, <1>4
<1>9. Send => caller' = "done" \/ (caller' = "open" /\ UNCHANGED <<outcome, wire, quiet>>)
  BY DEF Send, Returns
<1> QED
  BY <1>5, <1>6, <1>7, <1>8, <1>9

\* The steps of the server and of the connection.
LEMMA ServerIsInTime ==
    ASSUME PromptInv, AckInTime,
           \/ Handle \/ KeepaliveFires \/ KeepaliveAcks \/ KeepaliveEnds \/ DrainCancels
           \/ HandlerReturns \/ HandlerAnswered \/ SendChunk \/ ReportLostChunk \/ Terminate
           \/ ForeignChunk \/ Cut
    PROVE  AckInTime'
<1>1. UNCHANGED <<caller, outcome, quiet>>
  BY DEF Handle, KeepaliveFires, KeepaliveAcks, KeepaliveEnds, DrainCancels, HandlerReturns,
         HandlerAnswered, SendChunk, ReportLostChunk, Terminate, ForeignChunk, Cut, callerVars
<1>2. kaAge \in Nat /\ quiet \in Nat /\ pubFaults \in Nat /\ KeepaliveInterval \in Nat
      /\ cancelled \in BOOLEAN
  BY PromptConstants DEF PromptInv, PromptTypes
<1>3. /\ kaAge <= KeepaliveInterval /\ \A i \in 1 .. Len(wire) : wire[i].age <= MaxDelay
      /\ caller \in {"new", "open"} => quiet = 0
      /\ outcome.kind = "timeout" => ~up \/ pubFaults > 0 \/ cancelled = TRUE
  BY DEF AckInTime
\* A message is published, or that fails.
<1>4. ASSUME NEW m \in Messages, Publishes(m), serving # "ended", UNCHANGED <<up, cancelled>>,
             kaAge' \in {0, kaAge}
      PROVE  AckInTime'
  BY <1>1, <1>4, PublishingIsInTime
<1>5. ASSUME PublishFails, UNCHANGED <<up, cancelled>>, kaAge' \in {0, kaAge}
      PROVE  AckInTime'
  <2>1. wire' = wire /\ pubFaults' > 0 /\ pubFaults' # 0
    BY <1>2, <1>5 DEF PublishFails
  <2> QED
    BY <2>1, <1>1, <1>2, <1>3, <1>5 DEF AckInTime
<1>6. ASSUME UNCHANGED <<wire, up, pubFaults>>, kaAge' \in {0, kaAge},
             cancelled' = cancelled \/ cancelled' = TRUE,
             cancelled' = FALSE => /\ keepalive' = keepalive => kaAge' = kaAge
                                   /\ keepalive' # keepalive =>
                                          keepalive = "waits" /\ keepalive' \in {"responds", "ended"},
             serving' = "idle" => serving = "idle",
             serving' \in {"closing", "ended"} => serving' = serving
      PROVE  AckInTime'
  <2>1. kaAge' <= KeepaliveInterval
    BY <1>2, <1>3, <1>6
  <2>2. ASSUME up, pubFaults = 0, cancelled' = FALSE, caller \in {"open", "reading"}
        PROVE  /\ wire # <<>> => quiet <= wire[1].age + KeepaliveInterval
               /\ wire = <<>> =>
                      /\ serving' = "idle" => quiet = 0
                      /\ keepalive' = "waits" => quiet <= kaAge'
                      /\ keepalive' \in {"responds", "ended"} => quiet <= KeepaliveInterval
                      /\ serving' \notin {"closing", "ended"}
    <3>1. cancelled = FALSE
      BY <2>2, <1>2, <1>6
    <3>2. /\ wire # <<>> => quiet <= wire[1].age + KeepaliveInterval
          /\ wire = <<>> =>
                 /\ serving = "idle" => quiet = 0
                 /\ keepalive = "waits" => quiet <= kaAge
                 /\ keepalive \in {"responds", "ended"} => quiet <= KeepaliveInterval
                 /\ serving \notin {"closing", "ended"}
      BY <3>1, <2>2 DEF AckInTime
    <3> QED
      BY <3>2, <2>2, <1>2, <1>3, <1>6
  <2> QED
    BY <2>1, <2>2, <1>1, <1>3, <1>6 DEF AckInTime
<1>7. Ack \in Messages /\ End \in Messages
  BY DEF Ack, End, Messages
<1>8. ASSUME NEW m \in Messages, Responds(m), serving # "ended", UNCHANGED <<up, cancelled>>,
             kaAge' \in {0, kaAge}
      PROVE  AckInTime'
  BY <1>4, <1>5, <1>8 DEF Responds
<1>9. ASSUME NEW code \in Nat, SendError(code), serving # "ended", UNCHANGED <<up, cancelled>>,
             kaAge' \in {0, kaAge}
      PROVE  AckInTime'
  <2>1. Error(code) \in Messages
    BY DEF Error, Messages
  <2> QED
    BY <2>1, <1>4, <1>5, <1>9 DEF SendError
<1>10. CASE Handle
  <2>1. /\ serving = "idle" /\ UNCHANGED <<up, cancelled>> /\ kaAge' \in {0, kaAge}
        /\ SendError(500) \/ SendError(400) \/ Responds(Ack)
    BY <1>10 DEF Handle, keepaliveVars
  <2> QED
    BY <2>1, <1>7, <1>8, <1>9
<1>11. CASE KeepaliveFires \/ KeepaliveEnds \/ DrainCancels \/ HandlerReturns
  <2>1. CASE KeepaliveFires
    BY <2>1, <1>6 DEF KeepaliveFires, published
  <2>2. CASE KeepaliveEnds
    BY <2>2, <1>6 DEF KeepaliveEnds, published
  <2>3. CASE DrainCancels
    BY <2>3, <1>6 DEF DrainCancels, published, keepaliveVars
  <2>4. CASE HandlerReturns
    BY <2>4, <1>6 DEF HandlerReturns, published, keepaliveVars
  <2> QED
    BY <1>11, <2>1, <2>2, <2>3, <2>4
<1>12. CASE KeepaliveAcks
  <2>1. Responds(Ack) /\ serving # "ended" /\ UNCHANGED <<up, kaAge, cancelled>>
    BY <1>12 DEF KeepaliveAcks, PromptInv, PromptTypes, ServerPhase
  <2> QED
    BY <2>1, <1>7, <1>8
<1>13. CASE HandlerAnswered
  <2>1. /\ serving = "stopping" /\ UNCHANGED <<up, kaAge, keepalive, cancelled>>
        /\ \/ SendError(SentCode(ErrorFor(run.error)))
           \/ SendError(500)
           \/ serving' = "sending" /\ UNCHANGED <<wire, pubFaults>>
    BY <1>13 DEF HandlerAnswered, keepaliveVars, published
  <2>2. SentCode(ErrorFor(run.error)) \in Nat
    BY DEF SentCode, TableCodes
  <2>3. CASE serving' = "sending" /\ UNCHANGED <<wire, pubFaults>>
    BY <2>1, <2>3, <1>6
  <2> QED
    BY <2>1, <2>2, <2>3, <1>9
<1>14. CASE SendChunk
  <2>1. /\ Publishes(Chunk(ChunksSent + 1)) \/ PublishFails
        /\ serving = "sending" /\ UNCHANGED <<up, kaAge, cancelled>>
    BY <1>14 DEF SendChunk, keepaliveVars
  <2>2. Chunk(ChunksSent + 1) \in Messages
    BY ChunksCount DEF Chunk, Messages, ChunksSent, PromptInv, PromptTypes
  <2> QED
    BY <2>1, <2>2, <1>4, <1>5
<1>15. CASE ReportLostChunk
  <2>1. SendError(500) /\ serving = "reporting" /\ UNCHANGED <<up, kaAge, cancelled>>
    BY <1>15 DEF ReportLostChunk, keepaliveVars
  <2> QED
    BY <2>1, <1>9
<1>16. CASE Terminate
  <2>1. Responds(End) /\ serving # "ended" /\ UNCHANGED <<up, kaAge, cancelled>>
    BY <1>16 DEF Terminate, keepaliveVars
  <2> QED
    BY <2>1, <1>7, <1>8
<1>17. CASE ForeignChunk
  <2>1. /\ serving = "running" /\ UNCHANGED <<up, kaAge, cancelled>>
        /\ \E kind \in {"query", "unknown"} : Publishes([kind |-> kind, n |-> 0])
    BY <1>17 DEF ForeignChunk, keepaliveVars
  <2>2. PICK kind \in {"query", "unknown"} : Publishes([kind |-> kind, n |-> 0])
    BY <2>1
  <2>3. [kind |-> kind, n |-> 0] \in Messages
    BY DEF Messages
  <2> QED
    BY <2>1, <2>2, <2>3, <1>4
<1>18. CASE Cut
  <2>1. up' = FALSE /\ wire' = <<>> /\ UNCHANGED <<kaAge, cancelled>>
    BY <1>18 DEF Cut, keepaliveVars
  <2> QED
    BY <2>1, <1>1, <1>3 DEF AckInTime
<1> QED
  BY <1>10, <1>11, <1>12, <1>13, <1>14, <1>15, <1>16, <1>17, <1>18

LEMMA PromptStepInTime ==
    ASSUME PromptInv, AckInTime, KeepaliveInterval + MaxDelay < InactivityTimeout,
           [PromptNext]_promptVars
    PROVE  AckInTime'
<1>1. CASE UNCHANGED promptVars
  BY <1>1 DEF AckInTime, promptVars
<1>2. CASE Send \/ Text \/ TextTimesOut \/ NoResponders \/ CallerLeaves
  BY <1>2, CallerIsInTime
<1>3. CASE \/ Handle \/ KeepaliveFires \/ KeepaliveAcks \/ KeepaliveEnds \/ DrainCancels
           \/ HandlerReturns \/ HandlerAnswered \/ SendChunk \/ ReportLostChunk \/ Terminate
           \/ ForeignChunk \/ Cut
  BY <1>3, ServerIsInTime
<1> QED
  BY <1>1, <1>2, <1>3, ReadIsInTime, TickIsInTime DEF PromptNext, ServerStep

\* When an ack and its delivery take less than the inactivity timeout, as they do with the
\* defaults, and what is published is not lost, a caller gives up on no run that goes on,
\* however long it takes, unless a drain cancelled it (processPrompt's keepalive goroutine,
\* Stream.nextMsg).
THEOREM AnswersAreDeserved ==
    ASSUME KeepaliveInterval + MaxDelay < InactivityTimeout
    PROVE  PromptSpec => []AnswerIsDeserved
<1>1. PromptInit => PromptInv /\ AckInTime
  <2> SUFFICES ASSUME PromptInit PROVE AckInTime
    BY PromptStart
  <2> QED
    BY PromptConstants DEF PromptInit, AckInTime, NoOutcome
<1>2. PromptInv /\ AckInTime /\ [PromptNext]_promptVars => PromptInv' /\ AckInTime'
  BY PromptStep, PromptStepInTime
<1>3. AckInTime => NoFalseTimeout
  BY DEF AckInTime, NoFalseTimeout
<1>4. PromptSpec => []NoFalseTimeout
  BY <1>1, <1>2, <1>3, PTL DEF PromptSpec
<1>5. AnswerIsWhole /\ PermanentIsDeserved /\ NoFalseTimeout => AnswerIsDeserved
  BY DEF AnswerIsDeserved, ErrorsAreDeserved
<1> QED
  BY <1>4, <1>5, AnswersAreWhole, PTL

-----------------------------------------------------------------------------
(* The resolver's handles *)

Known == 1 .. instances

\* What a call may be.
Calls(known) ==
    [at : {"idle", "missed", "waits", "nobody", "cancelled"}, dead : BOOLEAN]
        \cup [at : {"has"}, handle : known, cached : BOOLEAN]

ResolverTypes ==
    /\ instances \in 0 .. MaxInstances /\ alive \subseteq Known
    /\ deadFor \in [1 .. MaxInstances -> Nat] /\ beat \in Nat
    /\ handleCache \in {None} \cup [handle : Known, age : Nat]
    /\ flight \in {NoFlight} \cup [at : {"asks", "found", "nobody"}, by : ToolCallers,
                                  replies : Seq(Known), age : 0 .. Window]
    /\ flight.at = "found" => flight.replies # <<>>
    /\ resolving \in [ToolCallers -> Calls(Known)]

\* An instance is not dead before it has stopped, a discovery heard its instances since
\* it began, and the cached handle was heard by one; whoever was heard lately lived.
HeardLately ==
    /\ \A i \in 1 .. MaxInstances : i \in alive \/ i > instances => deadFor[i] = 0
    /\ flight.at \in {"asks", "found"} =>
           \A k \in 1 .. Len(flight.replies) : deadFor[flight.replies[k]] <= flight.age
    /\ Fresh => deadFor[handleCache.handle] <= handleCache.age + Window
    /\ IsAgentOnline => \E i \in Known : i \in alive \/ deadFor[i] <= beat

ResolverInv == ResolverTypes /\ HeardLately /\ NobodyFailsForAnother

HandleGiven ==
    \A c \in ToolCallers : Gets(c) =>
        /\ deadFor[resolving'[c].handle] <= TTL + Window
        /\ resolving'[c].cached =>
               \E i \in 1 .. instances : i \in alive \/ deadFor[i] <= MissedFactor

\* A caller moves, to a call that has the handle it was given, if any.
LEMMA OneCallerMoves ==
    ASSUME ResolverInv, NEW c \in ToolCallers, NEW to \in Calls(Known),
           resolving' = [resolving EXCEPT ![c] = to],
           to.at = "cancelled" => to.dead,
           UNCHANGED <<instances, alive, deadFor, beat>>,
           handleCache' = None \/ UNCHANGED handleCache,
           \/ UNCHANGED flight
           \/ flight' = [at |-> "asks", by |-> c, replies |-> <<>>, age |-> 0]
    PROVE  ResolverInv'
<1>1. resolving \in [ToolCallers -> Calls(Known)] /\ resolving' \in [ToolCallers -> Calls(Known)]
  BY DEF ResolverInv, ResolverTypes, Calls
<1>2. Known' = Known
  BY DEF Known
<1>3. 0 \in 0 .. Window
  BY ResolverConstants
<1>4. ResolverTypes'
  <2>1. CASE UNCHANGED flight
    BY <2>1, <1>1, <1>2 DEF ResolverInv, ResolverTypes, Calls, Known
  <2>2. CASE flight' = [at |-> "asks", by |-> c, replies |-> <<>>, age |-> 0]
    <3>1. <<>> \in Seq(Known)
      OBVIOUS
    <3>2. /\ flight' \in [at : {"asks", "found", "nobody"}, by : ToolCallers,
                          replies : Seq(Known), age : 0 .. Window]
          /\ flight'.at # "found"
      BY <2>2, <3>1, <1>3
    <3> QED
      BY <3>2, <1>1, <1>2 DEF ResolverInv, ResolverTypes, Calls, Known
  <2> QED
    BY <2>1, <2>2
<1>5. HeardLately'
  <2>1. /\ \A i \in 1 .. MaxInstances : i \in alive' \/ i > instances' => deadFor'[i] = 0
        /\ IsAgentOnline' => \E i \in Known' : i \in alive' \/ deadFor'[i] <= beat'
    BY <1>2 DEF ResolverInv, HeardLately, IsAgentOnline
  <2>2. Fresh' => deadFor'[handleCache'.handle] <= handleCache'.age + Window
    BY DEF ResolverInv, HeardLately, Fresh
  <2>3. flight'.at \in {"asks", "found"} =>
            \A k \in 1 .. Len(flight'.replies) : deadFor'[flight'.replies[k]] <= flight'.age
    BY DEF ResolverInv, HeardLately
  <2> QED
    BY <2>1, <2>2, <2>3 DEF HeardLately
<1>6. NobodyFailsForAnother'
  BY <1>1 DEF ResolverInv, NobodyFailsForAnother
<1> QED
  BY <1>4, <1>5, <1>6 DEF ResolverInv

LEMMA CallerActs ==
    ASSUME ResolverInv, NEW c \in ToolCallers,
           \/ ResolveCached(c) \/ ResolveMisses(c) \/ Join(c) \/ ContextEnds(c) \/ GiveUp(c)
           \/ CallSucceeds(c) \/ CallFails(c) \/ CallEnds(c)
    PROVE  ResolverInv'
<1>1. /\ resolving \in [ToolCallers -> Calls(Known)]
      /\ handleCache \in {None} \cup [handle : Known, age : Nat]
  BY DEF ResolverInv, ResolverTypes, Calls
<1>2. NoCall \in Calls(Known) /\ [NoCall EXCEPT !.at = "missed"] \in Calls(Known)
      /\ NoCall.at # "cancelled" /\ [NoCall EXCEPT !.at = "missed"].at # "cancelled"
  BY DEF NoCall, Calls
<1>3. CASE ResolveCached(c)
  <2>1. handleCache.handle \in Known
    BY <1>1, <1>3 DEF ResolveCached, Fresh
  <2>2. Has(handleCache.handle, TRUE) \in Calls(Known)
        /\ Has(handleCache.handle, TRUE).at # "cancelled"
    BY <2>1 DEF Has, Calls
  <2> QED
    BY <2>2, <1>3, OneCallerMoves DEF ResolveCached, Hit
<1>4. CASE ResolveMisses(c)
  BY <1>2, <1>4, OneCallerMoves DEF ResolveMisses
<1>5. CASE Join(c) \/ ContextEnds(c) \/ GiveUp(c)
  <2>1. PICK to \in [at : {"missed", "waits", "cancelled"}, dead : BOOLEAN] :
            /\ resolving' = [resolving EXCEPT ![c] = to]
            /\ to.at = "cancelled" => to.dead
    <3>1. resolving[c].at \in {"missed", "waits"}
      BY <1>5 DEF Join, ContextEnds, GiveUp
    <3>2. resolving[c] \in [at : {"missed", "waits"}, dead : BOOLEAN]
      BY <3>1, <1>1 DEF Calls
    <3>3. CASE Join(c)
      <4>1. [resolving[c] EXCEPT !.at = "waits"] \in [at : {"missed", "waits", "cancelled"}, dead : BOOLEAN]
            /\ [resolving[c] EXCEPT !.at = "waits"].at # "cancelled"
        BY <3>2
      <4>2. resolving' = [resolving EXCEPT ![c] = [resolving[c] EXCEPT !.at = "waits"]]
        BY <3>3, <1>1 DEF Join
      <4> QED
        BY <4>1, <4>2
    <3>4. CASE ContextEnds(c)
      <4>1. [resolving[c] EXCEPT !.dead = TRUE] \in [at : {"missed", "waits", "cancelled"}, dead : BOOLEAN]
            /\ [resolving[c] EXCEPT !.dead = TRUE].at # "cancelled"
        BY <3>2
      <4>2. resolving' = [resolving EXCEPT ![c] = [resolving[c] EXCEPT !.dead = TRUE]]
        BY <3>4, <1>1 DEF ContextEnds
      <4> QED
        BY <4>1, <4>2
    <3>5. CASE GiveUp(c)
      <4>1. [resolving[c] EXCEPT !.at = "cancelled"] \in [at : {"missed", "waits", "cancelled"}, dead : BOOLEAN]
            /\ [resolving[c] EXCEPT !.at = "cancelled"].dead = resolving[c].dead /\ resolving[c].dead
        BY <3>2, <3>5 DEF GiveUp
      <4>2. resolving' = [resolving EXCEPT ![c] = [resolving[c] EXCEPT !.at = "cancelled"]]
        BY <3>5, <1>1 DEF GiveUp
      <4> QED
        BY <4>1, <4>2
    <3> QED
      BY <3>3, <3>4, <3>5, <1>5
  <2>2. to \in Calls(Known)
    BY DEF Calls
  <2>3. /\ UNCHANGED <<instances, alive, deadFor, beat, handleCache>>
        /\ \/ UNCHANGED flight
           \/ flight' = [at |-> "asks", by |-> c, replies |-> <<>>, age |-> 0]
    BY <1>5 DEF Join, ContextEnds, GiveUp
  <2> QED
    BY <2>1, <2>2, <2>3, OneCallerMoves
<1>6. CASE CallSucceeds(c) \/ CallFails(c) \/ CallEnds(c)
  <2>1. /\ resolving' = [resolving EXCEPT ![c] = NoCall]
        /\ UNCHANGED <<instances, alive, deadFor, beat, flight>>
        /\ handleCache' = None \/ UNCHANGED handleCache
    BY <1>6 DEF CallSucceeds, CallFails, CallEnds
  <2> QED
    BY <2>1, <1>2, OneCallerMoves
<1> QED
  BY <1>3, <1>4, <1>5, <1>6

\* The agent's instances start, stop and beat.
LEMMA AgentActs ==
    ASSUME ResolverInv, Restart \/ Beat \/ \E i \in 1 .. MaxInstances : Stop(i)
    PROVE  ResolverInv'
<1>1. UNCHANGED <<deadFor, handleCache, flight, resolving>>
  BY DEF Restart, Beat, Stop
<1>2. /\ instances \in Nat /\ instances' \in 0 .. MaxInstances
      /\ instances' \in {instances, instances + 1} /\ beat' \in Nat
      /\ alive' \subseteq 1 .. instances'
  <2>1. /\ instances \in 0 .. MaxInstances /\ alive \subseteq 1 .. instances /\ beat \in Nat
        /\ MaxInstances \in Nat
    BY ResolverConstants DEF ResolverInv, ResolverTypes, Known
  <2>2. CASE Restart
    BY <2>1, <2>2 DEF Restart
  <2>3. CASE Beat
    BY <2>1, <2>3 DEF Beat
  <2>4. CASE \E i \in 1 .. MaxInstances : Stop(i)
    BY <2>1, <2>4 DEF Stop
  <2> QED
    BY <2>2, <2>3, <2>4
<1>3. Known \subseteq Known'
  BY <1>2 DEF Known
<1>4. ResolverTypes'
  <2>1. handleCache' \in {None} \cup [handle : Known', age : Nat]
    BY <1>1, <1>3 DEF ResolverInv, ResolverTypes
  <2>2. Seq(Known) \subseteq Seq(Known')
    BY <1>3
  <2>3. flight' \in {NoFlight} \cup [at : {"asks", "found", "nobody"}, by : ToolCallers,
                                     replies : Seq(Known'), age : 0 .. Window]
    BY <2>2, <1>1 DEF ResolverInv, ResolverTypes
  <2>4. Calls(Known) \subseteq Calls(Known')
    BY <1>3 DEF Calls
  <2>5. resolving' \in [ToolCallers -> Calls(Known')]
    BY <2>4, <1>1 DEF ResolverInv, ResolverTypes, Calls
  <2> QED
    BY <2>1, <2>3, <2>5, <1>1, <1>2 DEF ResolverInv, ResolverTypes, Known, Calls
<1>5. /\ flight'.at \in {"asks", "found"} =>
             \A k \in 1 .. Len(flight'.replies) : deadFor'[flight'.replies[k]] <= flight'.age
      /\ Fresh' => deadFor'[handleCache'.handle] <= handleCache'.age + Window
  BY <1>1 DEF ResolverInv, HeardLately, Fresh
<1>6. /\ \A i \in 1 .. MaxInstances : i \in alive' \/ i > instances' => deadFor'[i] = 0
      /\ IsAgentOnline' => \E i \in Known' : i \in alive' \/ deadFor'[i] <= beat'
  <2>1. CASE Restart
    <3>1. \A i \in 1 .. MaxInstances : i \in alive' \/ i > instances' => deadFor'[i] = 0
      BY <2>1, <1>1, <1>2 DEF Restart, ResolverInv, HeardLately
    <3>2. IsAgentOnline' => \E i \in Known' : i \in alive' \/ deadFor'[i] <= beat'
      BY <2>1, <1>1, <1>3 DEF Restart, ResolverInv, HeardLately, IsAgentOnline
    <3> QED
      BY <3>1, <3>2
  <2>2. CASE Beat
    <3>1. PICK i \in alive : TRUE
      BY <2>2 DEF Beat
    <3>2. i \in Known' /\ i \in alive'
      BY <2>2, <3>1, <1>3 DEF Beat, ResolverInv, ResolverTypes
    <3> QED
      BY <2>2, <3>2, <1>1 DEF Beat, ResolverInv, HeardLately
  <2>3. CASE \E i \in 1 .. MaxInstances : Stop(i)
    <3>1. PICK i \in 1 .. MaxInstances : Stop(i)
      BY <2>3
    <3>2. /\ i \in alive /\ alive' = alive \ {i} /\ UNCHANGED <<instances, beat>>
      BY <3>1 DEF Stop
    <3>3. deadFor[i] = 0 /\ beat \in Nat
      BY <3>2 DEF ResolverInv, ResolverTypes, HeardLately
    <3>4. \A j \in 1 .. MaxInstances : j \in alive' \/ j > instances' => deadFor'[j] = 0
      BY <3>2, <1>1 DEF ResolverInv, HeardLately
    <3>5. ASSUME IsAgentOnline'
          PROVE  \E j \in Known' : j \in alive' \/ deadFor'[j] <= beat'
      <4>1. IsAgentOnline
        BY <3>5, <3>2 DEF IsAgentOnline
      <4>2. PICK j \in Known : j \in alive \/ deadFor[j] <= beat
        BY <4>1 DEF ResolverInv, HeardLately
      <4>3. j \in alive' \/ deadFor'[j] <= beat'
        BY <4>2, <3>2, <3>3, <1>1
      <4> QED
        BY <4>3, <1>3
    <3> QED
      BY <3>4, <3>5
  <2> QED
    BY <2>1, <2>2, <2>3
<1>7. NobodyFailsForAnother'
  BY <1>1 DEF ResolverInv, NobodyFailsForAnother
<1> QED
  BY <1>4, <1>5, <1>6, <1>7 DEF ResolverInv, HeardLately

\* An instance answers the discovery that is under way.
LEMMA ReplyStep ==
    ASSUME ResolverInv, NEW i \in 1 .. MaxInstances, Reply(i)
    PROVE  ResolverInv'
<1>1. /\ flight.at = "asks" /\ i \in alive
      /\ flight' = [flight EXCEPT !.replies = Append(@, i)]
      /\ UNCHANGED <<instances, alive, deadFor, beat, handleCache, resolving>>
  BY DEF Reply
<1>2. /\ flight \in [at : {"asks", "found", "nobody"}, by : ToolCallers,
                     replies : Seq(Known), age : 0 .. Window]
      /\ i \in Known
  BY <1>1 DEF ResolverInv, ResolverTypes, NoFlight
<1>3. /\ Append(flight.replies, i) \in Seq(Known)
      /\ Len(Append(flight.replies, i)) = Len(flight.replies) + 1
      /\ \A k \in 1 .. Len(flight.replies) : Append(flight.replies, i)[k] = flight.replies[k]
      /\ Append(flight.replies, i)[Len(flight.replies) + 1] = i
      /\ Len(flight.replies) \in Nat
  BY <1>2, AppendProperties
<1>4. /\ flight' \in [at : {"asks", "found", "nobody"}, by : ToolCallers,
                      replies : Seq(Known), age : 0 .. Window]
      /\ flight'.at = "asks" /\ flight'.age = flight.age
      /\ flight'.replies = Append(flight.replies, i)
  BY <1>1, <1>2, <1>3
<1>5. ResolverTypes'
  BY <1>1, <1>4 DEF ResolverInv, ResolverTypes, Known, Calls
<1>6. \A k \in 1 .. Len(flight'.replies) : deadFor'[flight'.replies[k]] <= flight'.age
  <2> SUFFICES ASSUME NEW k \in 1 .. Len(flight'.replies)
               PROVE  deadFor[flight'.replies[k]] <= flight.age
    BY <1>1, <1>4
  <2>1. CASE k \in 1 .. Len(flight.replies)
    BY <2>1, <1>1, <1>3, <1>4 DEF ResolverInv, HeardLately
  <2>2. CASE k \notin 1 .. Len(flight.replies)
    <3>1. flight'.replies[k] = i
      BY <2>2, <1>3, <1>4
    <3>2. deadFor[i] = 0 /\ flight.age >= 0
      BY <1>1, <1>2, ResolverConstants DEF ResolverInv, HeardLately
    <3> QED
      BY <3>1, <3>2
  <2> QED
    BY <2>1, <2>2
<1>7. HeardLately'
  BY <1>1, <1>6 DEF ResolverInv, HeardLately, Fresh, IsAgentOnline, Known
<1>8. NobodyFailsForAnother'
  BY <1>1 DEF ResolverInv, NobodyFailsForAnother
<1> QED
  BY <1>5, <1>7, <1>8 DEF ResolverInv

LEMMA DiscoveredStep ==
    ASSUME ResolverInv, Discovered
    PROVE  ResolverInv'
<1>1. /\ flight.at = "asks"
      /\ UNCHANGED <<instances, alive, deadFor, beat, resolving>>
      /\ \/ /\ flight.replies = <<>>
            /\ flight' = [flight EXCEPT !.at = "nobody"] /\ UNCHANGED handleCache
         \/ /\ flight.replies # <<>>
            /\ flight' = [flight EXCEPT !.at = "found"]
            /\ handleCache' = [handle |-> Head(flight.replies), age |-> 0]
  BY DEF Discovered, DiscoveryCancelled
<1>2. flight \in [at : {"asks", "found", "nobody"}, by : ToolCallers,
                  replies : Seq(Known), age : 0 .. Window]
  BY <1>1 DEF ResolverInv, ResolverTypes, NoFlight
<1>3. /\ flight' \in [at : {"asks", "found", "nobody"}, by : ToolCallers,
                      replies : Seq(Known), age : 0 .. Window]
      /\ flight'.age = flight.age /\ flight'.replies = flight.replies
      /\ flight'.at = "found" => flight'.replies # <<>>
  BY <1>1, <1>2
<1>4. flight.replies # <<>> =>
          /\ Head(flight.replies) \in Known
          /\ deadFor[Head(flight.replies)] <= Window
  <2> SUFFICES ASSUME flight.replies # <<>>
               PROVE  /\ Head(flight.replies) \in Known
                      /\ deadFor[Head(flight.replies)] <= Window
    OBVIOUS
  <2>1. /\ Head(flight.replies) = flight.replies[1] /\ 1 \in 1 .. Len(flight.replies)
        /\ Head(flight.replies) \in Known
    BY <1>2, HeadTailProperties
  <2>2. deadFor[flight.replies[1]] <= flight.age
    BY <2>1, <1>1 DEF ResolverInv, HeardLately
  <2>3. Head(flight.replies) \in 1 .. MaxInstances
    BY <2>1, ResolverConstants DEF ResolverInv, ResolverTypes, Known
  <2>4. deadFor[Head(flight.replies)] \in Nat /\ flight.age \in 0 .. Window
    BY <2>3, <1>2 DEF ResolverInv, ResolverTypes
  <2> QED
    BY <2>1, <2>2, <2>4, ResolverConstants
<1>5. ResolverTypes'
  <2>1. handleCache' \in {None} \cup [handle : Known, age : Nat]
    BY <1>1, <1>4 DEF ResolverInv, ResolverTypes
  <2> QED
    BY <2>1, <1>1, <1>3 DEF ResolverInv, ResolverTypes, Known, Calls
<1>6. HeardLately'
  <2>1. /\ \A i \in 1 .. MaxInstances : i \in alive' \/ i > instances' => deadFor'[i] = 0
        /\ IsAgentOnline' => \E i \in Known' : i \in alive' \/ deadFor'[i] <= beat'
    BY <1>1 DEF ResolverInv, HeardLately, IsAgentOnline, Known
  <2>2. \A k \in 1 .. Len(flight'.replies) : deadFor'[flight'.replies[k]] <= flight'.age
    BY <1>1, <1>3 DEF ResolverInv, HeardLately
  <2>3. Fresh' => deadFor'[handleCache'.handle] <= handleCache'.age + Window
    <3>1. CASE UNCHANGED handleCache
      BY <3>1, <1>1 DEF ResolverInv, HeardLately, Fresh
    <3>2. CASE flight.replies # <<>> /\ handleCache' = [handle |-> Head(flight.replies), age |-> 0]
      BY <3>2, <1>1, <1>4, ResolverConstants
    <3> QED
      BY <3>1, <3>2, <1>1
  <2> QED
    BY <2>1, <2>2, <2>3 DEF HeardLately
<1>7. NobodyFailsForAnother'
  BY <1>1 DEF ResolverInv, NobodyFailsForAnother
<1> QED
  BY <1>5, <1>6, <1>7 DEF ResolverInv

LEMMA DeliverStep ==
    ASSUME ResolverInv, DeliverHandle
    PROVE  ResolverInv'
<1>1. /\ flight.at \in {"found", "nobody", "cancelled"} /\ flight' = NoFlight
      /\ UNCHANGED <<instances, alive, deadFor, beat, handleCache>>
      /\ resolving' = [c \in ToolCallers |->
             IF resolving[c].at # "waits" THEN resolving[c]
             ELSE IF flight.at = "found" THEN Has(Head(flight.replies), FALSE)
             ELSE [resolving[c] EXCEPT !.at = flight.at]]
  BY DEF DeliverHandle
<1>2. /\ flight.at \in {"found", "nobody"}
      /\ flight.replies \in Seq(Known)
      /\ flight.at = "found" => flight.replies # <<>>
  BY <1>1 DEF ResolverInv, ResolverTypes, NoFlight
<1>3. flight.at = "found" => Has(Head(flight.replies), FALSE) \in Calls(Known)
  <2>1. flight.at = "found" => Head(flight.replies) \in Known
    BY <1>2, HeadTailProperties
  <2> QED
    BY <2>1 DEF Has, Calls
<1>4. \A c \in ToolCallers :
          /\ resolving'[c] \in Calls(Known)
          /\ resolving'[c].at = "cancelled" => resolving'[c].dead
  <2> TAKE c \in ToolCallers
  <2>1. resolving[c] \in Calls(Known) /\ (resolving[c].at = "cancelled" => resolving[c].dead)
    BY DEF ResolverInv, ResolverTypes, NobodyFailsForAnother
  <2>2. CASE resolving[c].at # "waits"
    BY <2>1, <2>2, <1>1
  <2>3. CASE resolving[c].at = "waits" /\ flight.at = "found"
    <3>1. resolving'[c] = Has(Head(flight.replies), FALSE)
      BY <2>3, <1>1
    <3>2. resolving'[c].at = "has"
      BY <3>1 DEF Has
    <3> QED
      BY <3>1, <3>2, <2>3, <1>3
  <2>4. CASE resolving[c].at = "waits" /\ flight.at = "nobody"
    <3>1. resolving'[c] = [resolving[c] EXCEPT !.at = "nobody"]
      BY <2>4, <1>1
    <3>2. resolving[c] \in [at : {"idle", "missed", "waits", "nobody", "cancelled"}, dead : BOOLEAN]
      BY <2>1, <2>4 DEF Calls
    <3>3. /\ [resolving[c] EXCEPT !.at = "nobody"]
                 \in [at : {"idle", "missed", "waits", "nobody", "cancelled"}, dead : BOOLEAN]
          /\ [resolving[c] EXCEPT !.at = "nobody"].at = "nobody"
      BY <3>2
    <3> QED
      BY <3>1, <3>3 DEF Calls
  <2> QED
    BY <2>2, <2>3, <2>4, <1>2
<1>5. ResolverTypes'
  <2>1. resolving' \in [ToolCallers -> Calls(Known)]
    BY <1>1, <1>4
  <2> QED
    BY <2>1, <1>1 DEF ResolverInv, ResolverTypes, Known, Calls, NoFlight
<1>6. HeardLately'
  BY <1>1 DEF ResolverInv, HeardLately, Fresh, IsAgentOnline, Known, NoFlight
<1>7. NobodyFailsForAnother'
  BY <1>4 DEF NobodyFailsForAnother
<1> QED
  BY <1>5, <1>6, <1>7 DEF ResolverInv

LEMMA ResolverTickStep ==
    ASSUME ResolverInv, ResolverTick
    PROVE  ResolverInv'
<1>1. /\ flight.at # "none" => flight.at = "asks" /\ flight.age < Window
      /\ beat' = IF beat < Unheard THEN beat + 1 ELSE beat
      /\ deadFor' = [i \in 1 .. MaxInstances |->
             IF i > instances \/ i \in alive \/ deadFor[i] = Forgotten THEN deadFor[i]
             ELSE deadFor[i] + 1]
      /\ handleCache' = IF Fresh THEN [handleCache EXCEPT !.age = @ + 1] ELSE handleCache
      /\ flight' = IF flight.at = "asks" THEN [flight EXCEPT !.age = @ + 1] ELSE flight
      /\ UNCHANGED <<instances, alive, resolving>>
  BY DEF ResolverTick
<1>2. /\ deadFor \in [1 .. MaxInstances -> Nat] /\ beat \in Nat
      /\ handleCache \in {None} \cup [handle : Known, age : Nat]
      /\ Known \subseteq 1 .. MaxInstances /\ alive \subseteq Known
      /\ TTL \in Nat /\ Window \in Nat /\ MissedFactor \in Nat
  BY ResolverConstants DEF ResolverInv, ResolverTypes, Known
<1>3. \A i \in 1 .. MaxInstances :
          /\ deadFor'[i] \in {deadFor[i], deadFor[i] + 1} /\ deadFor[i] \in Nat
          /\ i \in alive \/ i > instances => deadFor'[i] = deadFor[i]
  BY <1>1, <1>2
<1>4. Fresh => /\ handleCache \in [handle : Known, age : Nat]
               /\ handleCache'.handle = handleCache.handle
               /\ handleCache'.age = handleCache.age + 1
               /\ handleCache' \in [handle : Known, age : Nat]
  <2> SUFFICES ASSUME Fresh
               PROVE  /\ handleCache \in [handle : Known, age : Nat]
                      /\ handleCache'.handle = handleCache.handle
                      /\ handleCache'.age = handleCache.age + 1
                      /\ handleCache' \in [handle : Known, age : Nat]
    OBVIOUS
  <2>1. handleCache \in [handle : Known, age : Nat]
    BY <1>2 DEF Fresh
  <2> QED
    BY <2>1, <1>1
<1>5. flight' = NoFlight \/
      /\ flight.at = "asks"
      /\ flight' \in [at : {"asks", "found", "nobody"}, by : ToolCallers,
                      replies : Seq(Known), age : 0 .. Window]
      /\ flight'.at = "asks" /\ flight'.replies = flight.replies
      /\ flight'.age = flight.age + 1 /\ flight.age \in Nat
  <2>1. CASE flight = NoFlight
    BY <2>1, <1>1 DEF NoFlight
  <2>2. CASE flight # NoFlight
    <3>1. flight \in [at : {"asks", "found", "nobody"}, by : ToolCallers,
                      replies : Seq(Known), age : 0 .. Window]
      BY <2>2 DEF ResolverInv, ResolverTypes
    <3>2. flight.at = "asks" /\ flight.age < Window
      BY <3>1, <1>1
    <3>3. flight.age + 1 \in 0 .. Window /\ flight.age \in Nat
      BY <3>1, <3>2, <1>2
    <3>4. flight' = [flight EXCEPT !.age = @ + 1]
      BY <3>2, <1>1
    <3> QED
      BY <3>1, <3>2, <3>3, <3>4
  <2> QED
    BY <2>1, <2>2
<1>6. ResolverTypes'
  <2>1. deadFor' \in [1 .. MaxInstances -> Nat]
    BY <1>1, <1>2, <1>3
  <2>2. beat' \in Nat
    BY <1>1, <1>2
  <2>3. handleCache' \in {None} \cup [handle : Known, age : Nat]
    BY <1>1, <1>2, <1>4
  <2>4. flight' \in {NoFlight} \cup [at : {"asks", "found", "nobody"}, by : ToolCallers,
                                     replies : Seq(Known), age : 0 .. Window]
        /\ flight'.at # "found"
    BY <1>5 DEF NoFlight
  <2> QED
    BY <2>1, <2>2, <2>3, <2>4, <1>1 DEF ResolverInv, ResolverTypes, Known, Calls
<1>7. HeardLately'
  <2>1. \A i \in 1 .. MaxInstances : i \in alive' \/ i > instances' => deadFor'[i] = 0
    BY <1>1, <1>3 DEF ResolverInv, HeardLately
  <2>2. ASSUME flight'.at \in {"asks", "found"}, NEW k \in 1 .. Len(flight'.replies)
        PROVE  deadFor'[flight'.replies[k]] <= flight'.age
    <3>1. /\ flight.at = "asks" /\ flight'.replies = flight.replies
          /\ flight'.age = flight.age + 1 /\ flight.age \in Nat /\ flight'.replies \in Seq(Known)
      BY <2>2, <1>5 DEF NoFlight
    <3>2. flight.replies[k] \in 1 .. MaxInstances
      <4>1. flight'.replies[k] \in Known
        BY <2>2, <3>1
      <4> QED
        BY <4>1, <3>1, <1>2
    <3>3. deadFor[flight.replies[k]] <= flight.age
      BY <2>2, <3>1 DEF ResolverInv, HeardLately
    <3>4. /\ deadFor'[flight.replies[k]] \in {deadFor[flight.replies[k]], deadFor[flight.replies[k]] + 1}
          /\ deadFor[flight.replies[k]] \in Nat
      BY <3>2, <1>3
    <3> QED
      BY <3>1, <3>3, <3>4
  <2>3. ASSUME Fresh'
        PROVE  deadFor'[handleCache'.handle] <= handleCache'.age + Window
    <3>1. Fresh
      BY <2>3, <1>1 DEF Fresh
    <3>2. handleCache.handle \in 1 .. MaxInstances /\ handleCache.age \in Nat
      BY <3>1, <1>2, <1>4
    <3>3. deadFor[handleCache.handle] <= handleCache.age + Window
      BY <3>1 DEF ResolverInv, HeardLately
    <3>4. /\ deadFor'[handleCache.handle] \in {deadFor[handleCache.handle], deadFor[handleCache.handle] + 1}
          /\ deadFor[handleCache.handle] \in Nat
      BY <3>2, <1>3
    <3>5. handleCache'.handle = handleCache.handle /\ handleCache'.age = handleCache.age + 1
      BY <3>1, <1>4
    <3> QED
      BY <3>2, <3>3, <3>4, <3>5, <1>2
  <2>4. ASSUME IsAgentOnline'
        PROVE  \E i \in Known' : i \in alive' \/ deadFor'[i] <= beat'
    <3>1. IsAgentOnline /\ beat' = beat + 1
      BY <2>4, <1>1, <1>2 DEF IsAgentOnline, Unheard
    <3>2. PICK i \in Known : i \in alive \/ deadFor[i] <= beat
      BY <3>1 DEF ResolverInv, HeardLately
    <3>3. i \in 1 .. MaxInstances /\ Known' = Known
      BY <1>1, <1>2 DEF Known
    <3>4. i \in alive' \/ deadFor'[i] <= beat'
      BY <3>1, <3>2, <3>3, <1>1, <1>2, <1>3
    <3> QED
      BY <3>3, <3>4
  <2> QED
    BY <2>1, <2>2, <2>3, <2>4 DEF HeardLately
<1>8. NobodyFailsForAnother'
  BY <1>1 DEF ResolverInv, NobodyFailsForAnother
<1> QED
  BY <1>6, <1>7, <1>8 DEF ResolverInv

LEMMA ResolverStep ==
    ASSUME ResolverInv, [ResolverNext]_resolverVars
    PROVE  ResolverInv'
<1>1. CASE UNCHANGED resolverVars
  BY <1>1 DEF resolverVars, ResolverInv, ResolverTypes, HeardLately, NobodyFailsForAnother,
              Fresh, IsAgentOnline, Known, Calls
<1>2. CASE Restart \/ Beat \/ \E i \in 1 .. MaxInstances : Stop(i)
  BY <1>2, AgentActs
<1>3. CASE \E i \in 1 .. MaxInstances : Reply(i)
  BY <1>3, ReplyStep
<1>4. CASE Discovered \/ DeliverHandle \/ ResolverTick
  BY <1>4, DiscoveredStep, DeliverStep, ResolverTickStep
<1>5. CASE \E c \in ToolCallers :
               \/ ResolveCached(c) \/ ResolveMisses(c) \/ Join(c) \/ ContextEnds(c) \/ GiveUp(c)
               \/ CallSucceeds(c) \/ CallFails(c) \/ CallEnds(c)
  BY <1>5, CallerActs
<1> QED
  BY <1>1, <1>2, <1>3, <1>4, <1>5 DEF ResolverNext

LEMMA ResolverStart ==
    ASSUME ResolverInit
    PROVE  ResolverInv
<1>1. ResolverTypes
  <2>1. [c \in ToolCallers |-> NoCall] \in [ToolCallers -> Calls(Known)]
    BY DEF NoCall, Calls
  <2>2. beat \in Nat
    BY ResolverConstants DEF ResolverInit, Unheard
  <2> QED
    BY <2>1, <2>2, ResolverConstants DEF ResolverInit, ResolverTypes, NoFlight, Known
<1>2. HeardLately
  <2>1. ~IsAgentOnline
    BY ResolverConstants DEF ResolverInit, IsAgentOnline, Unheard
  <2> QED
    BY <2>1 DEF ResolverInit, HeardLately, Fresh, NoFlight
<1>3. NobodyFailsForAnother
  BY DEF ResolverInit, NobodyFailsForAnother, NoCall
<1> QED
  BY <1>1, <1>2, <1>3 DEF ResolverInv

\* A call is cancelled by the end of its own context only, whoever began the discovery it
\* waits for (Resolver.Resolve, context.WithoutCancel).
THEOREM NobodyPaysForAnother == ResolverSpec => []NobodyFailsForAnother
<1>1. ResolverInit => ResolverInv
  BY ResolverStart
<1>2. ResolverInv /\ [ResolverNext]_resolverVars => ResolverInv'
  BY ResolverStep
<1>3. ResolverInv => NobodyFailsForAnother
  BY DEF ResolverInv
<1> QED
  BY <1>1, <1>2, <1>3, PTL DEF ResolverSpec

\* However often a handle is used and whatever else beats in its name, it names an instance
\* that lived within the TTL and a discovery, and from the cache it is given only while
\* heartbeats come (Resolver.Resolve, WithResolverCacheTTL).
THEOREM HandlesAreCurrent == ResolverSpec => HandleIsCurrent
<1>1. ResolverInit => ResolverInv
  BY ResolverStart
<1>2. ResolverInv /\ [ResolverNext]_resolverVars => ResolverInv'
  BY ResolverStep
<1>3. ResolverInv /\ [ResolverNext]_resolverVars => [HandleGiven]_resolving
  <2> SUFFICES ASSUME ResolverInv, ResolverNext, NEW c \in ToolCallers, Gets(c)
               PROVE  /\ deadFor[resolving'[c].handle] <= TTL + Window
                      /\ resolving'[c].cached =>
                             \E i \in 1 .. instances : i \in alive \/ deadFor[i] <= MissedFactor
    BY DEF HandleGiven, resolverVars
  <2>1. /\ resolving \in [ToolCallers -> Calls(Known)] /\ TTL \in Nat /\ Window \in Nat
        /\ deadFor \in [1 .. MaxInstances -> Nat] /\ MissedFactor \in Nat /\ beat \in Nat
        /\ resolving[c].at # "has" /\ resolving'[c].at = "has"
        /\ Known \subseteq 1 .. MaxInstances
    BY ResolverConstants DEF ResolverInv, ResolverTypes, Gets, Known
  <2>2. CASE ResolveCached(c)
    <3>1. /\ Fresh /\ IsAgentOnline
          /\ resolving'[c] = [at |-> "has", handle |-> handleCache.handle, cached |-> TRUE]
      BY <2>1, <2>2 DEF ResolveCached, Has
    <3>2. handleCache \in [handle : Known, age : Nat] /\ handleCache.age < TTL
      BY <3>1 DEF ResolverInv, ResolverTypes, Fresh
    <3>3. deadFor[handleCache.handle] <= handleCache.age + Window
          /\ deadFor[handleCache.handle] \in Nat
      BY <3>1, <3>2, <2>1 DEF ResolverInv, HeardLately
    <3>4. deadFor[handleCache.handle] <= TTL + Window
      BY <3>2, <3>3, <2>1
    <3>5. PICK i \in Known : i \in alive \/ deadFor[i] <= beat
      BY <3>1 DEF ResolverInv, HeardLately
    <3>6. i \in alive \/ deadFor[i] <= MissedFactor
      BY <3>1, <3>5, <2>1 DEF IsAgentOnline
    <3> QED
      BY <3>1, <3>4, <3>5, <3>6 DEF Known
  <2>3. CASE DeliverHandle
    <3>1. flight.at = "found" /\ resolving'[c] = Has(Head(flight.replies), FALSE)
      <4>1. /\ flight.at \in {"found", "nobody", "cancelled"}
            /\ resolving'[c] = IF resolving[c].at # "waits" THEN resolving[c]
                               ELSE IF flight.at = "found" THEN Has(Head(flight.replies), FALSE)
                               ELSE [resolving[c] EXCEPT !.at = flight.at]
        BY <2>3 DEF DeliverHandle
      <4>2. resolving[c].at = "waits"
        BY <4>1, <2>1
      <4>3. "at" \in DOMAIN resolving[c]
        BY <2>1 DEF Calls
      <4>4. flight.at # "found" => resolving'[c].at = flight.at
        BY <4>1, <4>2, <4>3
      <4> QED
        BY <4>1, <4>2, <4>4, <2>1
    <3>2. /\ flight \in [at : {"asks", "found", "nobody"}, by : ToolCallers,
                         replies : Seq(Known), age : 0 .. Window]
          /\ flight.replies # <<>>
      BY <3>1 DEF ResolverInv, ResolverTypes, NoFlight
    <3>3. /\ Head(flight.replies) = flight.replies[1] /\ 1 \in 1 .. Len(flight.replies)
          /\ Head(flight.replies) \in Known
      BY <3>2, HeadTailProperties
    <3>4. deadFor[Head(flight.replies)] <= flight.age /\ deadFor[Head(flight.replies)] \in Nat
      BY <3>1, <3>3, <2>1 DEF ResolverInv, HeardLately
    <3>5. deadFor[Head(flight.replies)] <= TTL + Window
      BY <3>2, <3>4, <2>1
    <3>6. resolving'[c].handle = Head(flight.replies) /\ resolving'[c].cached = FALSE
      BY <3>1 DEF Has
    <3> QED
      BY <3>5, <3>6
  <2>4. CASE ~ResolveCached(c) /\ ~DeliverHandle
    <3>1. ASSUME NEW d \in ToolCallers,
                 \/ ResolveCached(d) \/ ResolveMisses(d) \/ Join(d) \/ ContextEnds(d)
                 \/ GiveUp(d) \/ CallSucceeds(d) \/ CallFails(d) \/ CallEnds(d)
          PROVE  FALSE
      <4>1. CASE c # d
        <5>1. resolving'[c] = resolving[c]
          BY <4>1, <3>1, <2>1
              DEF ResolveCached, ResolveMisses, Join, ContextEnds, GiveUp, CallSucceeds, CallFails, CallEnds
        <5> QED
          BY <5>1, <2>1
      <4>2. CASE c = d
        <5>1. resolving'[c].at \in {"missed", "waits", "cancelled", "idle"}
          <6>1. CASE ResolveMisses(c) \/ CallSucceeds(c) \/ CallFails(c) \/ CallEnds(c)
            BY <6>1, <2>1 DEF ResolveMisses, CallSucceeds, CallFails, CallEnds, NoCall
          <6>2. CASE Join(c) \/ GiveUp(c)
            BY <6>2, <2>1 DEF Join, GiveUp, Calls
          <6>3. CASE ContextEnds(c)
            BY <6>3, <2>1 DEF ContextEnds, Calls
          <6> QED
            BY <6>1, <6>2, <6>3, <4>2, <3>1, <2>4
        <5> QED
          BY <5>1, <2>1
      <4> QED
        BY <4>1, <4>2
    <3>2. UNCHANGED resolving
      BY <3>1, <2>4 DEF ResolverNext, Restart, Beat, Discovered, ResolverTick, Stop, Reply
    <3> QED
      BY <3>2, <2>1
  <2> QED
    BY <2>2, <2>3, <2>4
<1>4. ResolverSpec => [][HandleGiven]_resolving
  BY <1>1, <1>2, <1>3, PTL DEF ResolverSpec
<1> QED
  BY <1>4 DEF HandleIsCurrent, HandleGiven
=============================================================================
