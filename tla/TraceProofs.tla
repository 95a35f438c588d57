----------------------------- MODULE TraceProofs -----------------------------
(***************************************************************************)
(* What the trace of a run tells is what ran, whatever its spans are and   *)
(* whichever goroutines end them: the totals of the spans and the records  *)
(* of them that reach the file (Tracing), the prompts that can be rebuilt  *)
(* from the calls of the model, and the events its consumer is told        *)
(* (RunEvents).                                                            *)
(***************************************************************************)
EXTENDS Tracing, RunEvents, SequenceTheorems, TLAPS

(* The spans: the inductive invariant.                                      *)

\* The call of End that ended a span, and the one that added it to its parent's
\* totals.
Firsts(s) == {e \in EndCalls[s] : ending[s][e].at \notin {"none", "again"}}
Added(s) == {e \in EndCalls[s] : ending[s][e].at \in {"deliver", "on end", "done"}}
Counts(s, d) == totals[s][d] >= 1

SpanRecords == [span : Spans, totals : [Spans -> Nat]]

SpanTypes ==
    /\ ended \subseteq Spans
    /\ totals \in [Spans -> [Spans -> Nat]]
    /\ ending = [s \in Spans |-> [e \in EndCalls[s] |-> ending[s][e]]]
    /\ endedBefore \in [Spans \cup {NoSpan} -> SUBSET Spans]

OneEnd ==
    \A s \in Spans : /\ s \in ended <=> Firsts(s) # {}
                     /\ \A e, f \in Firsts(s) : e = f

\* What a span counts has been added to its parent's totals, and is counted with all
\* it counts itself; two spans that count the same one are one above the other; and a
\* child is counted when it was added before its parent ended.
OnceEach == \A s, d \in Spans : totals[s][d] <= 1
CountsAdded == \A s, d \in Spans : Counts(s, d) => Added(d) # {}
CountsAll == \A s, c, d \in Spans : Counts(s, c) /\ Counts(c, d) => Counts(s, d)
OneAbove == \A s, t, d \in Spans : Counts(s, d) /\ Counts(t, d) => s = t \/ Counts(s, t) \/ Counts(t, s)
CountsChildren ==
    \A s, c \in Spans : ParentSpan[c] = s =>
        /\ s \notin ended /\ Added(c) # {} => Counts(s, c)
        /\ s \in ended /\ c \in endedBefore[s] => Counts(s, c)

Counting == OnceEach /\ CountsAdded /\ CountsAll /\ OneAbove /\ CountsChildren

\* How far Shutdown is.
ShutIs ==
    /\ batch \in [closed : BOOLEAN, queue : Seq(SpanRecords), exporting : Seq(SpanRecords)]
    /\ traceFile \in [records : Seq(SpanRecords), closed : BOOLEAN]
    /\ stopped \in BOOLEAN
    /\ batch.closed <=> shutdown \in {"drain", "flushed", "cut short"}
    /\ traceFile.closed <=> shutdown \in {"flushed", "cut short"}
    /\ stopped <=> shutdown # "none"
    /\ shutdown = "flushed" => Drained
    /\ unwritten # {} => shutdown = "cut short"
    /\ Len(batch.exporting) <= 1

\* A span that is over has a record on its way, or was dropped, or came too late.
Reported == {Records[k].span : k \in DOMAIN Records}
Accounted == unqueued \cup unwritten \cup Reported
RecordsAre ==
    /\ \A s \in Spans : \A e \in EndCalls[s] :
           ending[s][e].at = "on end" => ending[s][e].record = [span |-> s, totals |-> WithOwn(s)]
    /\ \A k \in DOMAIN Records :
           Records[k].span \in Over /\ Records[k].totals = WithOwn(Records[k].span)
    /\ \A j, k \in DOMAIN Records : Records[j].span = Records[k].span => j = k
    /\ endedBefore[NoSpan] \subseteq Accounted
    /\ ~stopped => Over \subseteq Accounted

TraceInv == SpanTypes /\ OneEnd /\ Counting /\ ShutIs /\ RecordsAre

-----------------------------------------------------------------------------
(* Ends. *)

LEMMA EndingIs ==
    ASSUME SpanTypes, NEW s \in Spans, NEW e \in EndCalls[s], NEW step, Ending(s, e, step)
    PROVE  /\ ending' = [x \in Spans |-> [f \in EndCalls[x] |-> ending'[x][f]]]
           /\ ending'[s][e] = step
           /\ \A x \in Spans : \A f \in EndCalls[x] : x # s \/ f # e => ending'[x][f] = ending[x][f]
<1>1. ending = [x \in Spans |-> [f \in EndCalls[x] |-> ending[x][f]]] BY DEF SpanTypes
<1>2. ending' = [ending EXCEPT ![s] = [ending[s] EXCEPT ![e] = step]] BY DEF Ending
<1>3. DOMAIN ending = Spans /\ \A x \in Spans : ending[x] = [f \in EndCalls[x] |-> ending[x][f]] BY <1>1
<1>4. \A x \in Spans : x # s => ending'[x] = ending[x] BY <1>2, <1>3
<1>5. ending'[s] = [ending[s] EXCEPT ![e] = step] BY <1>2, <1>3
<1>6. ending'[s][e] = step /\ \A f \in EndCalls[s] : f # e => ending'[s][f] = ending[s][f]
  BY <1>3, <1>5
<1>7. ending'[s] = [f \in EndCalls[s] |-> ending'[s][f]] BY <1>3, <1>5
<1>8. \A x \in Spans : ending'[x] = [f \in EndCalls[x] |-> ending'[x][f]] BY <1>3, <1>4, <1>7
<1>9. ending' = [x \in Spans |-> ending'[x]] BY <1>2, <1>3
<1> QED BY <1>4, <1>6, <1>8, <1>9

\* Where a span's calls of End are when one of them is at a step.
FirstsAfter(x, s, e, step) ==
    IF x # s THEN Firsts(x)
    ELSE IF step.at \in {"none", "again"} THEN Firsts(x) \ {e} ELSE Firsts(x) \cup {e}

AddedAfter(x, s, e, step) ==
    IF x # s THEN Added(x)
    ELSE IF step.at \in {"deliver", "on end", "done"} THEN Added(x) \cup {e} ELSE Added(x) \ {e}

\* A step of a call of End, in terms of where the span's calls are.
LEMMA EndMoves ==
    ASSUME TraceInv, NEW s \in Spans, NEW e \in EndCalls[s], NEW step, Ending(s, e, step),
           NEW x \in Spans
    PROVE  Firsts(x)' = FirstsAfter(x, s, e, step) /\ Added(x)' = AddedAfter(x, s, e, step)
<1>1. /\ ending'[s][e] = step
      /\ \A y \in Spans : \A f \in EndCalls[y] : y # s \/ f # e => ending'[y][f] = ending[y][f]
  BY EndingIs DEF TraceInv
<1> QED BY <1>1 DEF Firsts, Added, FirstsAfter, AddedAfter

\* A call that goes on is the span's first.
LEMMA GoesOn ==
    ASSUME TraceInv, NEW s \in Spans, NEW e \in EndCalls[s],
           ending[s][e].at \notin {"none", "again"}
    PROVE  /\ s \in ended /\ Firsts(s) = {e}
           /\ ending[s][e].at = "roll up" => Added(s) = {}
           /\ ending[s][e].at # "done" => s \notin Over
<1>1. e \in Firsts(s) BY DEF Firsts
<1>2. s \in ended /\ Firsts(s) = {e} BY <1>1 DEF TraceInv, OneEnd
<1>3. Added(s) \subseteq Firsts(s) /\ \A f \in EndCalls[s] : ending[s][f].at = "done" => f \in Firsts(s)
  BY DEF Added, Firsts
<1> QED BY <1>2, <1>3 DEF Added, Over

\* What a step does that only moves a call past its adding.
LEMMA SameCounting ==
    ASSUME Counting, NoSpan \notin Spans,
           UNCHANGED <<ended, totals>>, \A s \in Spans : endedBefore'[s] = endedBefore[s],
           \A s \in Spans : Added(s)' = Added(s)
    PROVE  Counting'
<1>1. \A s, d \in Spans : Counts(s, d)' <=> Counts(s, d) BY DEF Counts
<1>2. OnceEach' BY DEF Counting, OnceEach
<1>3. CountsAdded' BY <1>1 DEF Counting, CountsAdded
<1>4. CountsAll' BY <1>1 DEF Counting, CountsAll
<1>5. OneAbove' BY <1>1 DEF Counting, OneAbove
<1>6. CountsChildren' BY <1>1 DEF Counting, CountsChildren
<1> QED BY <1>2, <1>3, <1>4, <1>5, <1>6 DEF Counting

\* A span ends: the children that were added are the ones that are counted.
LEMMA EndCounting ==
    ASSUME TraceInv, NoSpan \notin Spans, NEW s \in Spans, s \notin ended,
           ended' = ended \cup {s}, endedBefore' = [endedBefore EXCEPT ![s] = Over],
           UNCHANGED totals, \A x \in Spans : Added(x)' = Added(x)
    PROVE  Counting'
<1>1. \A x, d \in Spans : Counts(x, d)' <=> Counts(x, d) BY DEF Counts
<1>2. Counting BY DEF TraceInv
<1>3. OnceEach' BY <1>2 DEF Counting, OnceEach
<1>4. CountsAdded' BY <1>1, <1>2 DEF Counting, CountsAdded
<1>5. CountsAll' BY <1>1, <1>2 DEF Counting, CountsAll
<1>6. OneAbove' BY <1>1, <1>2 DEF Counting, OneAbove
<1>7. CountsChildren'
  <2> SUFFICES ASSUME NEW x \in Spans, NEW c \in Spans, ParentSpan[c] = x
               PROVE  /\ x \notin ended' /\ Added(c)' # {} => Counts(x, c)'
                      /\ x \in ended' /\ c \in endedBefore'[x] => Counts(x, c)'
    BY DEF CountsChildren
  <2>1. /\ x \notin ended /\ Added(c) # {} => Counts(x, c)
        /\ x \in ended /\ c \in endedBefore[x] => Counts(x, c)
    BY <1>2 DEF Counting, CountsChildren
  <2>2. endedBefore'[x] = IF x = s THEN Over ELSE endedBefore[x] BY DEF TraceInv, SpanTypes
  <2>3. c \in Over => Added(c) # {} BY DEF Over, Added
  <2> QED BY <1>1, <2>1, <2>2, <2>3
<1> QED BY <1>3, <1>4, <1>5, <1>6, <1>7 DEF Counting

\* A span is added to its parent, which has not ended, with what it counts.
LEMMA AddCounting ==
    ASSUME TraceInv, NoSpan \notin Spans, NEW s \in Spans, NEW p \in Spans, p = ParentSpan[s],
           p \notin ended, s \in ended, Added(s) = {},
           totals' = [totals EXCEPT ![p] = [d \in Spans |-> totals[p][d] + WithOwn(s)[d]]],
           UNCHANGED <<ended, endedBefore>>,
           \A x \in Spans : x # s => Added(x)' = Added(x), Added(s)' # {}
    PROVE  Counting'
<1>1. Counting /\ totals \in [Spans -> [Spans -> Nat]] BY DEF TraceInv, SpanTypes
<1>2. p # s OBVIOUS
<1>3. \A x \in Spans : Added(x) # {} => x \in ended
  <2>1. \A x \in Spans : Added(x) \subseteq Firsts(x) BY DEF Added, Firsts
  <2> QED BY <2>1 DEF TraceInv, OneEnd
<1>4. \A x \in Spans : ~Counts(x, s) /\ ~Counts(x, p)
  BY <1>1, <1>3 DEF Counting, CountsAdded
<1>5. \A d \in Spans : WithOwn(s)[d] = IF d = s THEN totals[s][d] + 1 ELSE totals[s][d]
  BY <1>1 DEF WithOwn
<1>6. \A x, d \in Spans : totals'[x][d] = IF x = p THEN totals[p][d] + WithOwn(s)[d] ELSE totals[x][d]
  BY <1>1
<1>7. \A x, d \in Spans : totals[x][d] \in Nat BY <1>1
<1>8. \A x, d \in Spans :
          Counts(x, d)' <=> Counts(x, d) \/ (x = p /\ (d = s \/ Counts(s, d)))
  BY <1>5, <1>6, <1>7 DEF Counts
\* None of them was counted already.
<1>9. ASSUME NEW d \in Spans, Counts(s, d) PROVE ~Counts(p, d)
  BY <1>1, <1>2, <1>4, <1>9 DEF Counting, OneAbove
<1>10. OnceEach'
  <2> SUFFICES ASSUME NEW x \in Spans, NEW d \in Spans PROVE totals'[x][d] <= 1 BY DEF OnceEach
  <2>1. totals[x][d] \in Nat /\ totals[x][d] <= 1 /\ totals[s][d] \in Nat /\ totals[s][d] <= 1
    BY <1>1, <1>7 DEF Counting, OnceEach
  <2>2. CASE x # p BY <1>6, <2>1, <2>2
  <2>3. CASE x = p /\ d = s
    <3>1. totals[p][d] = 0 /\ totals[s][d] = 0 BY <1>4, <1>7, <2>3 DEF Counts
    <3> QED BY <1>5, <1>6, <2>3, <3>1
  <2>4. CASE x = p /\ d # s
    <3>1. totals'[x][d] = totals[p][d] + totals[s][d] BY <1>5, <1>6, <2>4
    <3>2. totals[p][d] = 0 \/ totals[s][d] = 0
      <4>1. ~Counts(s, d) \/ ~Counts(p, d) BY <1>9
      <4> QED BY <1>7, <4>1 DEF Counts
    <3> QED BY <2>1, <2>4, <3>1, <3>2
  <2> QED BY <2>2, <2>3, <2>4
<1>11. CountsAdded' BY <1>1, <1>8 DEF Counting, CountsAdded
<1>12. CountsAll'
  <2> SUFFICES ASSUME NEW x \in Spans, NEW c \in Spans, NEW d \in Spans, Counts(x, c)', Counts(c, d)'
               PROVE  Counts(x, d)'
    BY DEF CountsAll
  <2>1. c # p BY <1>2, <1>4, <1>8
  <2>2. Counts(c, d) BY <1>8, <2>1
  <2>3. CASE Counts(x, c) BY <1>1, <1>8, <2>2, <2>3 DEF Counting, CountsAll
  <2>4. CASE ~Counts(x, c)
    <3>1. x = p /\ (c = s \/ Counts(s, c)) BY <1>8, <2>4
    <3>2. Counts(s, d) BY <1>1, <2>2, <3>1 DEF Counting, CountsAll
    <3> QED BY <1>8, <3>1, <3>2
  <2> QED BY <2>3, <2>4
<1>13. OneAbove'
  <2>1. ASSUME NEW x \in Spans, NEW d \in Spans, Counts(p, d)', Counts(x, d)'
        PROVE  x = p \/ Counts(p, x)' \/ Counts(x, p)'
    <3> SUFFICES ASSUME x # p PROVE Counts(p, x)' \/ Counts(x, p)' OBVIOUS
    <3>1. Counts(x, d) BY <1>8, <2>1
    <3>2. CASE Counts(p, d) BY <1>1, <1>8, <3>1, <3>2 DEF Counting, OneAbove
    <3>3. CASE ~Counts(p, d)
      <4>1. d = s \/ Counts(s, d) BY <1>8, <2>1, <3>3
      <4>2. Counts(s, d) BY <1>4, <3>1, <4>1
      <4>3. x = s \/ Counts(s, x) BY <1>1, <1>4, <3>1, <4>2 DEF Counting, OneAbove
      <4> QED BY <1>8, <4>3
    <3> QED BY <3>2, <3>3
  <2>2. ASSUME NEW x \in Spans, NEW y \in Spans, NEW d \in Spans, x # p, y # p,
               Counts(x, d)', Counts(y, d)'
        PROVE  x = y \/ Counts(x, y)' \/ Counts(y, x)'
    <3>1. Counts(x, d) /\ Counts(y, d) BY <1>8, <2>2
    <3>2. x = y \/ Counts(x, y) \/ Counts(y, x) BY <1>1, <3>1 DEF Counting, OneAbove
    <3> QED BY <1>8, <3>2
  <2> QED BY <2>1, <2>2 DEF OneAbove
<1>14. CountsChildren'
  <2> SUFFICES ASSUME NEW x \in Spans, NEW c \in Spans, ParentSpan[c] = x
               PROVE  /\ x \notin ended' /\ Added(c)' # {} => Counts(x, c)'
                      /\ x \in ended' /\ c \in endedBefore'[x] => Counts(x, c)'
    BY DEF CountsChildren
  <2>1. /\ x \notin ended /\ Added(c) # {} => Counts(x, c)
        /\ x \in ended /\ c \in endedBefore[x] => Counts(x, c)
    BY <1>1 DEF Counting, CountsChildren
  <2> QED BY <1>8, <2>1
<1> QED BY <1>10, <1>11, <1>12, <1>13, <1>14 DEF Counting

\* It is added to none when it has none, or its parent has ended.
LEMMA NotAddedCounting ==
    ASSUME TraceInv, NoSpan \notin Spans, NEW s \in Spans,
           ParentSpan[s] = NoSpan \/ ParentSpan[s] \in ended,
           UNCHANGED <<ended, endedBefore, totals>>,
           \A x \in Spans : x # s => Added(x)' = Added(x), Added(s)' # {}
    PROVE  Counting'
<1>1. \A x, d \in Spans : Counts(x, d)' <=> Counts(x, d) BY DEF Counts
<1>2. Counting BY DEF TraceInv
<1>3. OnceEach' BY <1>2 DEF Counting, OnceEach
<1>4. CountsAdded' BY <1>1, <1>2 DEF Counting, CountsAdded
<1>5. CountsAll' BY <1>1, <1>2 DEF Counting, CountsAll
<1>6. OneAbove' BY <1>1, <1>2 DEF Counting, OneAbove
<1>7. CountsChildren' BY <1>1, <1>2 DEF Counting, CountsChildren
<1> QED BY <1>3, <1>4, <1>5, <1>6, <1>7 DEF Counting

-----------------------------------------------------------------------------
(* Records. *)

LEMMA OverGrows ==
    ASSUME TraceInv, NEW s \in Spans, NEW e \in EndCalls[s], NEW step, Ending(s, e, step),
           ending[s][e].at # "done", ended \subseteq ended'
    PROVE  /\ Over \subseteq Over'
           /\ Over' \subseteq IF step.at = "done" THEN Over \cup {s} ELSE Over
<1>1. /\ ending'[s][e] = step
      /\ \A x \in Spans : \A f \in EndCalls[x] : x # s \/ f # e => ending'[x][f] = ending[x][f]
  BY EndingIs DEF TraceInv
<1>2. ASSUME NEW x \in Over PROVE x \in Over'
  <2>1. PICK f \in EndCalls[x] : ending[x][f].at = "done" BY DEF Over
  <2>2. x # s \/ f # e BY <2>1
  <2>3. ending'[x][f].at = "done" /\ x \in ended' BY <1>1, <2>1, <2>2 DEF Over
  <2> QED BY <2>3 DEF Over
<1>3. ASSUME NEW x \in Over', x # s \/ step.at # "done" PROVE x \in Over
  <2>1. PICK f \in EndCalls[x] : ending'[x][f].at = "done" BY DEF Over
  <2>2. x \in Spans BY DEF Over
  <2>3. ending[x][f].at = "done" BY <1>1, <1>3, <2>1, <2>2
  <2>4. x \in ended BY <2>2, <2>3, GoesOn
  <2> QED BY <2>2, <2>3, <2>4 DEF Over
<1> QED BY <1>2, <1>3

\* The records are the same, and what they say of spans that have ended.
LEMMA SameRecords ==
    ASSUME TraceInv, Records' = Records, Over \subseteq Over', ended \subseteq ended',
           \A s \in ended : WithOwn(s)' = WithOwn(s)
    PROVE  /\ \A k \in DOMAIN Records' :
                  Records'[k].span \in Over' /\ Records'[k].totals = WithOwn(Records[k].span)'
           /\ \A j, k \in DOMAIN Records' : Records'[j].span = Records'[k].span => j = k
           /\ Reported' = Reported
<1>1. /\ \A k \in DOMAIN Records :
             Records[k].span \in Over /\ Records[k].totals = WithOwn(Records[k].span)
      /\ \A j, k \in DOMAIN Records : Records[j].span = Records[k].span => j = k
  BY DEF TraceInv, RecordsAre
<1>2. ASSUME NEW k \in DOMAIN Records
      PROVE  Records[k].span \in Over' /\ Records[k].totals = WithOwn(Records[k].span)'
  <2>1. Records[k].span \in Over /\ Records[k].span \in ended BY <1>1 DEF Over
  <2> QED BY <1>1, <2>1
<1>3. Reported' = Reported BY DEF Reported
<1> QED BY <1>1, <1>2, <1>3

\* A step in which no call of End moves, and no record is lost.
LEMMA EndsStay ==
    ASSUME TraceInv, NoSpan \notin Spans,
           UNCHANGED <<ended, totals, ending, unqueued, unwritten>>, Records' = Records, ShutIs',
           \/ UNCHANGED <<endedBefore, stopped>>
           \/ ~stopped /\ stopped' /\ endedBefore' = [endedBefore EXCEPT ![NoSpan] = Over]
    PROVE  TraceInv'
<1>1. Over' = Over BY DEF Over
<1>2. \A s \in Spans : Added(s)' = Added(s) /\ WithOwn(s)' = WithOwn(s) BY DEF Added, WithOwn
<1>3. /\ endedBefore \in [Spans \cup {NoSpan} -> SUBSET Spans] /\ Over \subseteq Spans
      /\ ended \subseteq Spans
  BY DEF TraceInv, SpanTypes, Over
<1>4. /\ endedBefore' \in [Spans \cup {NoSpan} -> SUBSET Spans]
      /\ \A s \in Spans : endedBefore'[s] = endedBefore[s]
      /\ endedBefore'[NoSpan] = endedBefore[NoSpan] \/ (~stopped /\ endedBefore'[NoSpan] = Over)
      /\ stopped' \/ stopped' = stopped
  BY <1>3
<1>5. SpanTypes' BY <1>4 DEF TraceInv, SpanTypes
<1>6. OneEnd' BY DEF TraceInv, OneEnd, Firsts
<1>7. Counting' BY <1>2, <1>4, SameCounting DEF TraceInv
<1>8. RecordsAre'
  <2>1. /\ \A k \in DOMAIN Records' :
               Records'[k].span \in Over' /\ Records'[k].totals = WithOwn(Records[k].span)'
        /\ \A j, k \in DOMAIN Records' : Records'[j].span = Records'[k].span => j = k
        /\ Reported' = Reported
    BY <1>1, <1>2, <1>3, SameRecords
  <2>2. Accounted' = Accounted BY <2>1 DEF Accounted
  <2>3. /\ endedBefore[NoSpan] \subseteq Accounted /\ (~stopped => Over \subseteq Accounted)
        /\ \A s \in Spans : \A e \in EndCalls[s] :
               ending[s][e].at = "on end" => ending[s][e].record = [span |-> s, totals |-> WithOwn(s)]
    BY DEF TraceInv, RecordsAre
  <2>4. endedBefore'[NoSpan] \subseteq Accounted' /\ (~stopped' => Over' \subseteq Accounted')
    BY <1>1, <1>4, <2>2, <2>3
  <2>5. \A s \in Spans : \A e \in EndCalls[s] :
            ending'[s][e].at = "on end" =>
                ending'[s][e].record = [span |-> s, totals |-> WithOwn(s)']
    BY <1>2, <2>3
  <2> QED BY <2>1, <2>4, <2>5 DEF RecordsAre
<1> QED BY <1>5, <1>6, <1>7, <1>8 DEF TraceInv

LEMMA StartSpanStep ==
    ASSUME TraceInv, NoSpan \notin Spans, NEW s \in Spans, StartSpan(s) PROVE TraceInv'
<1>1. UNCHANGED <<ended, totals, ending, stopped, batch, traceFile, unqueued, shutdown, endedBefore, unwritten>>
  BY DEF StartSpan
<1>2. ShutIs' BY <1>1 DEF TraceInv, ShutIs, Drained
<1>3. Records' = Records BY <1>1 DEF Records
<1> QED BY <1>1, <1>2, <1>3, EndsStay

\* A step of a call of End that hands the Batch nothing.
LEMMA SpanStep ==
    ASSUME TraceInv, NEW s \in Spans, NEW e \in EndCalls[s], NEW step, Ending(s, e, step),
           ending[s][e].at # "done",
           UNCHANGED <<stopped, batch, traceFile, unqueued, shutdown, unwritten>>,
           ended \subseteq ended', endedBefore'[NoSpan] = endedBefore[NoSpan],
           \A x \in ended : totals'[x] = totals[x],
           step.at = "done" => stopped,
           step.at = "on end" =>
               s \in ended /\ step.record = [span |-> s, totals |-> WithOwn(s)]
    PROVE  ShutIs' /\ RecordsAre'
<1>0. /\ ending'[s][e] = step
      /\ \A x \in Spans : \A f \in EndCalls[x] : x # s \/ f # e => ending'[x][f] = ending[x][f]
  BY EndingIs, ZenonT(30) DEF TraceInv
<1>1. ShutIs' BY DEF TraceInv, ShutIs, Drained
<1>2. /\ Over \subseteq Over'
      /\ Over' \subseteq IF step.at = "done" THEN Over \cup {s} ELSE Over
  BY OverGrows
<1>3. \A x \in ended : WithOwn(x)' = WithOwn(x) BY DEF WithOwn
<1>4. Records' = Records BY DEF Records
<1>5. /\ \A k \in DOMAIN Records' :
             Records'[k].span \in Over' /\ Records'[k].totals = WithOwn(Records[k].span)'
      /\ \A j, k \in DOMAIN Records' : Records'[j].span = Records'[k].span => j = k
      /\ Reported' = Reported
  BY <1>2, <1>3, <1>4, SameRecords
<1>6. ASSUME NEW x \in Spans, NEW f \in EndCalls[x], ending'[x][f].at = "on end"
      PROVE  ending'[x][f].record = [span |-> x, totals |-> WithOwn(x)']
  <2>1. /\ ending'[s][e] = step
        /\ x # s \/ f # e => ending'[x][f] = ending[x][f]
    BY <1>0
  <2>2. CASE x = s /\ f = e
    <3>1. s \in ended /\ ending'[x][f].record = [span |-> s, totals |-> WithOwn(s)]
      BY <1>6, <2>1, <2>2
    <3> QED BY <1>3, <2>2, <3>1
  <2>3. CASE x # s \/ f # e
    <3>1. ending[x][f].at = "on end" BY <1>6, <2>1, <2>3
    <3>2. ending[x][f].record = [span |-> x, totals |-> WithOwn(x)]
      BY <3>1 DEF TraceInv, RecordsAre
    <3>3. x \in ended BY <3>1, GoesOn
    <3> QED BY <1>3, <2>1, <2>3, <3>2, <3>3
  <2> QED BY <2>2, <2>3
<1>7. Accounted' = Accounted BY <1>5 DEF Accounted
<1>8. endedBefore[NoSpan] \subseteq Accounted /\ (~stopped => Over \subseteq Accounted)
  BY DEF TraceInv, RecordsAre
<1>9. (endedBefore[NoSpan] \subseteq Accounted)' /\ (~stopped' => Over' \subseteq Accounted')
  BY <1>2, <1>7, <1>8
<1> QED BY <1>1, <1>4, <1>5, <1>6, <1>9 DEF RecordsAre

LEMMA EndSpanStep ==
    ASSUME TraceInv, NoSpan \notin Spans, NEW s \in Spans, NEW e \in EndCalls[s], EndSpan(s, e)
    PROVE  TraceInv'
<1> DEFINE step == [at |-> IF s \notin ended THEN "roll up" ELSE "again"]
<1>1. /\ ending[s][e].at = "none" /\ Ending(s, e, step)
      /\ UNCHANGED <<totals, stopped, batch, traceFile, unqueued, shutdown, unwritten>>
      /\ s \notin ended => ended' = ended \cup {s} /\ endedBefore' = [endedBefore EXCEPT ![s] = Over]
      /\ s \in ended => UNCHANGED <<ended, endedBefore>>
  BY DEF EndSpan, FirstEnd
<1>2. step.at = (IF s \notin ended THEN "roll up" ELSE "again") OBVIOUS
<1> HIDE DEF step
<1>3. \A x \in Spans :
          /\ Firsts(x)' = IF x = s /\ s \notin ended THEN Firsts(x) \cup {e} ELSE Firsts(x)
          /\ Added(x)' = Added(x)
  <2>1. e \notin Firsts(s) /\ e \notin Added(s) BY <1>1 DEF Firsts, Added
  <2>2. ASSUME NEW x \in Spans
        PROVE  Firsts(x)' = FirstsAfter(x, s, e, step) /\ Added(x)' = AddedAfter(x, s, e, step)
    <3>1. Ending(s, e, step) BY <1>1
    <3> QED BY <3>1, EndMoves, Zenon
  <2> QED BY <1>2, <2>1, <2>2 DEF FirstsAfter, AddedAfter
<1>4. endedBefore \in [Spans \cup {NoSpan} -> SUBSET Spans] /\ Over \subseteq Spans
  BY DEF TraceInv, SpanTypes, Over
<1>5. SpanTypes'
  <2>1. ending' = [x \in Spans |-> [f \in EndCalls[x] |-> ending'[x][f]]]
    BY <1>1, EndingIs DEF TraceInv
  <2>2. endedBefore' \in [Spans \cup {NoSpan} -> SUBSET Spans] BY <1>1, <1>4
  <2> QED BY <1>1, <2>1, <2>2 DEF TraceInv, SpanTypes
<1>6. OneEnd'
  <2>1. s \notin ended => Firsts(s) = {} BY DEF TraceInv, OneEnd
  <2>2. \A x \in Spans : /\ x \in ended' <=> Firsts(x)' # {}
                         /\ \A f, g \in Firsts(x)' : f = g
    BY <1>1, <1>3, <2>1 DEF TraceInv, OneEnd
  <2> QED BY <2>2 DEF OneEnd
<1>7. Counting'
  <2>1. CASE s \notin ended BY <1>1, <1>3, <2>1, EndCounting
  <2>2. CASE s \in ended BY <1>1, <1>3, <2>2, SameCounting DEF TraceInv
  <2> QED BY <2>1, <2>2
<1>8. ShutIs' /\ RecordsAre'
  <2>1. ended \subseteq ended' /\ endedBefore'[NoSpan] = endedBefore[NoSpan] BY <1>1, <1>4
  <2> QED BY <1>1, <1>2, <2>1, SpanStep
<1> QED BY <1>5, <1>6, <1>7, <1>8 DEF TraceInv

LEMMA RollUpStep ==
    ASSUME TraceInv, NoSpan \notin Spans, ParentSpan \in [Spans -> Spans \cup {NoSpan}],
           NEW s \in Spans, NEW e \in EndCalls[s], RollUp(s, e)
    PROVE  TraceInv'
<1> DEFINE p == ParentSpan[s]
           step == [at |-> "deliver"]
           sum == [d \in Spans |-> totals[p][d] + WithOwn(s)[d]]
<1>1. /\ ending[s][e].at = "roll up" /\ Ending(s, e, step) /\ step.at = "deliver"
      /\ UNCHANGED <<ended, stopped, batch, traceFile, unqueued, shutdown, endedBefore, unwritten>>
      /\ p = NoSpan \/ p \in ended => totals' = totals
  BY DEF RollUp
<1>2. /\ totals \in [Spans -> [Spans -> Nat]]
      /\ \A d \in Spans : WithOwn(s)[d] \in Nat
  BY DEF TraceInv, SpanTypes, WithOwn
<1>3. p # NoSpan /\ p \notin ended => p \in Spans /\ totals' = [totals EXCEPT ![p] = sum]
  BY <1>2 DEF RollUp
<1>4. s \in ended /\ Firsts(s) = {e} /\ Added(s) = {} BY <1>1, GoesOn
<1> HIDE DEF step
<1>5. \A x \in Spans : /\ Firsts(x)' = Firsts(x)
                       /\ Added(x)' = IF x = s THEN {e} ELSE Added(x)
  <2>1. ASSUME NEW x \in Spans
        PROVE  Firsts(x)' = FirstsAfter(x, s, e, step) /\ Added(x)' = AddedAfter(x, s, e, step)
    <3>1. Ending(s, e, step) BY <1>1
    <3> QED BY <3>1, EndMoves, Zenon
  <2> QED BY <1>1, <1>4, <2>1 DEF FirstsAfter, AddedAfter
<1>6. SpanTypes'
  <2>1. ending' = [x \in Spans |-> [f \in EndCalls[x] |-> ending'[x][f]]]
    BY <1>1, EndingIs DEF TraceInv
  <2>2. totals' \in [Spans -> [Spans -> Nat]]
    <3>1. p \in Spans => sum \in [Spans -> Nat] BY <1>2
    <3> HIDE DEF sum, p
    <3> QED BY <1>1, <1>2, <1>3, <3>1
  <2> QED BY <1>1, <2>1, <2>2 DEF TraceInv, SpanTypes
<1>7. OneEnd'
  <2>1. (\A x \in Spans : Firsts(x)' = Firsts(x)) /\ ended' = ended BY <1>1, <1>5
  <2>2. OneEnd BY DEF TraceInv
  <2> QED BY <2>1, <2>2 DEF OneEnd
<1>8. Counting'
  <2>1. CASE p = NoSpan \/ p \in ended BY <1>1, <1>5, <2>1, NotAddedCounting
  <2>2. CASE p # NoSpan /\ p \notin ended BY <1>1, <1>3, <1>4, <1>5, <2>2, AddCounting
  <2> QED BY <2>1, <2>2
<1>9. ShutIs' /\ RecordsAre'
  <2>1. \A x \in ended : totals'[x] = totals[x]
    <3> HIDE DEF sum
    <3> QED BY <1>1, <1>2, <1>3 DEF TraceInv, SpanTypes
  <2> QED BY <1>1, <2>1, SpanStep
<1> QED BY <1>6, <1>7, <1>8, <1>9 DEF TraceInv

LEMMA TakeDataStep ==
    ASSUME TraceInv, NoSpan \notin Spans, NEW s \in Spans, NEW e \in EndCalls[s], TakeData(s, e)
    PROVE  TraceInv'
<1> DEFINE step == IF stopped THEN [at |-> "done"]
                   ELSE [at |-> "on end", record |-> [span |-> s, totals |-> WithOwn(s)]]
<1>1. /\ ending[s][e].at = "deliver" /\ Ending(s, e, step)
      /\ UNCHANGED <<ended, totals, stopped, batch, traceFile, unqueued, shutdown, endedBefore, unwritten>>
  BY DEF TakeData
<1>2. /\ step.at = IF stopped THEN "done" ELSE "on end"
      /\ step.at = "on end" => step.record = [span |-> s, totals |-> WithOwn(s)]
  OBVIOUS
<1>3. s \in ended /\ Firsts(s) = {e} /\ e \in Added(s) BY <1>1, GoesOn DEF Added
<1> HIDE DEF step
<1>4. \A x \in Spans : Firsts(x)' = Firsts(x) /\ Added(x)' = Added(x)
  <2>1. ASSUME NEW x \in Spans
        PROVE  Firsts(x)' = FirstsAfter(x, s, e, step) /\ Added(x)' = AddedAfter(x, s, e, step)
    <3>1. Ending(s, e, step) BY <1>1
    <3> QED BY <3>1, EndMoves, Zenon
  <2> QED BY <1>2, <1>3, <2>1 DEF FirstsAfter, AddedAfter
<1>5. SpanTypes'
  <2>1. ending' = [x \in Spans |-> [f \in EndCalls[x] |-> ending'[x][f]]]
    BY <1>1, EndingIs DEF TraceInv
  <2> QED BY <1>1, <2>1 DEF TraceInv, SpanTypes
<1>6. OneEnd' BY <1>1, <1>4 DEF TraceInv, OneEnd
<1>7. Counting' BY <1>1, <1>4, SameCounting DEF TraceInv
<1>8. ShutIs' /\ RecordsAre'
  <2>1. step.at = "done" => stopped BY <1>2
  <2> QED BY <1>1, <1>2, <1>3, <2>1, SpanStep
<1> QED BY <1>5, <1>6, <1>7, <1>8 DEF TraceInv

-----------------------------------------------------------------------------
(* The Batch, the file and the provider. *)

LEMMA RecordTypes ==
    ASSUME TraceInv
    PROVE  /\ traceFile.records \in Seq(SpanRecords) /\ batch.exporting \in Seq(SpanRecords)
           /\ batch.queue \in Seq(SpanRecords) /\ Records \in Seq(SpanRecords)
           /\ Len(batch.exporting) \in {0, 1}
           /\ Len(Records) = Len(traceFile.records) + Len(batch.exporting) + Len(batch.queue)
<1> DEFINE R == SpanRecords
<1>1. /\ traceFile.records \in Seq(R) /\ batch.exporting \in Seq(R) /\ batch.queue \in Seq(R)
      /\ Len(batch.exporting) <= 1
  BY DEF TraceInv, ShutIs
<1> DEFINE a == traceFile.records
           b == batch.exporting
           c == batch.queue
<1> HIDE DEF R, a, b, c
<1>2. (a \o b) \o c \in Seq(R) /\ Len((a \o b) \o c) = Len(a) + Len(b) + Len(c) /\ Len(b) \in {0, 1}
  <2>1. a \o b \in Seq(R) /\ Len(a \o b) = Len(a) + Len(b) /\ Len(b) \in Nat BY <1>1 DEF a, b
  <2>2. (a \o b) \o c \in Seq(R) /\ Len((a \o b) \o c) = Len(a \o b) + Len(c) BY <1>1, <2>1 DEF c
  <2>3. Len(b) <= 1 BY <1>1 DEF b
  <2> DEFINE n == Len(b)
  <2>4. n \in Nat /\ n <= 1 BY <2>1, <2>3
  <2> HIDE DEF n
  <2>5. n \in {0, 1} BY <2>4
  <2> QED BY <2>1, <2>2, <2>5 DEF n
<1> QED BY <1>1, <1>2 DEF R, a, b, c, Records

\* The span is queued behind the others, or dropped.
LEMMA OnEndStep ==
    ASSUME TraceInv, NoSpan \notin Spans, NEW s \in Spans, NEW e \in EndCalls[s], OnEnd(s, e)
    PROVE  TraceInv'
<1> DEFINE step == [at |-> "done"]
           record == ending[s][e].record
           dropped == batch.closed \/ Len(batch.queue) = QueueSize
<1>1. /\ ending[s][e].at = "on end" /\ Ending(s, e, step) /\ step.at = "done"
      /\ UNCHANGED <<ended, totals, stopped, traceFile, shutdown, endedBefore, unwritten>>
      /\ dropped => unqueued' = unqueued \cup {s} /\ batch' = batch
      /\ ~dropped => /\ batch' = [batch EXCEPT !.queue = Append(@, record)]
                     /\ unqueued' = unqueued
  BY DEF OnEnd
<1>2. s \in ended /\ Firsts(s) = {e} /\ e \in Added(s) /\ s \notin Over BY <1>1, GoesOn DEF Added
<1>3. record = [span |-> s, totals |-> WithOwn(s)] BY <1>1 DEF TraceInv, RecordsAre
<1> HIDE DEF step
<1>4. \A x \in Spans : Firsts(x)' = Firsts(x) /\ Added(x)' = Added(x)
  <2>1. ASSUME NEW x \in Spans
        PROVE  Firsts(x)' = FirstsAfter(x, s, e, step) /\ Added(x)' = AddedAfter(x, s, e, step)
    <3>1. Ending(s, e, step) BY <1>1
    <3> QED BY <3>1, EndMoves, Zenon
  <2>2. step.at = "done" BY <1>1
  <2>3. e \in Firsts(s) /\ e \in Added(s) BY <1>2
  <2> QED BY <2>1, <2>2, <2>3 DEF FirstsAfter, AddedAfter
<1>5. SpanTypes'
  <2>1. ending' = [x \in Spans |-> [f \in EndCalls[x] |-> ending'[x][f]]]
    BY <1>1, EndingIs DEF TraceInv
  <2> QED BY <1>1, <2>1 DEF TraceInv, SpanTypes
<1>6. OneEnd'
  <2>1. (\A x \in Spans : Firsts(x)' = Firsts(x)) /\ ended' = ended BY <1>1, <1>4
  <2>2. OneEnd BY DEF TraceInv
  <2> QED BY <2>1, <2>2 DEF OneEnd
<1>7. Counting' BY <1>1, <1>4, SameCounting DEF TraceInv
<1>8. Over' = Over \cup {s}
  <2>1. /\ Over \subseteq Over'
        /\ Over' \subseteq IF step.at = "done" THEN Over \cup {s} ELSE Over
    BY <1>1, OverGrows
  <2>2. ending'[s][e] = step BY <1>1, EndingIs DEF TraceInv
  <2>3. s \in Over' BY <1>1, <1>2, <2>2 DEF Over
  <2> QED BY <1>1, <2>1, <2>3
<1>9. \A x \in Spans : WithOwn(x)' = WithOwn(x) BY <1>1 DEF WithOwn
<1>10. ASSUME NEW x \in Spans, NEW f \in EndCalls[x], ending'[x][f].at = "on end"
       PROVE  ending'[x][f].record = [span |-> x, totals |-> WithOwn(x)']
  <2>1. /\ ending'[s][e] = step
        /\ \A y \in Spans : \A g \in EndCalls[y] : y # s \/ g # e => ending'[y][g] = ending[y][g]
    BY <1>1, EndingIs DEF TraceInv
  <2>2. x # s \/ f # e BY <1>1, <1>10, <2>1
  <2>3. ending'[x][f] = ending[x][f] BY <2>1, <2>2
  <2>4. ending[x][f].record = [span |-> x, totals |-> WithOwn(x)]
    BY <1>10, <2>3 DEF TraceInv, RecordsAre
  <2> QED BY <1>9, <2>3, <2>4
<1>11. record \in SpanRecords
  <2>1. WithOwn(s) \in [Spans -> Nat] BY DEF TraceInv, SpanTypes, WithOwn
  <2> QED BY <1>3, <2>1 DEF SpanRecords
<1>12. ended \subseteq Spans BY DEF TraceInv, SpanTypes
<1>13. /\ endedBefore[NoSpan] \subseteq Accounted /\ (~stopped => Over \subseteq Accounted)
       /\ \A k \in DOMAIN Records :
              Records[k].span \in Over /\ Records[k].totals = WithOwn(Records[k].span)
       /\ \A j, k \in DOMAIN Records : Records[j].span = Records[k].span => j = k
  BY DEF TraceInv, RecordsAre
<1>14. CASE dropped
  <2>1. ShutIs' BY <1>1, <1>14 DEF TraceInv, ShutIs, Drained
  <2>2. Records' = Records BY <1>1, <1>14 DEF Records
  <2>3. /\ \A k \in DOMAIN Records' :
               Records'[k].span \in Over' /\ Records'[k].totals = WithOwn(Records[k].span)'
        /\ \A j, k \in DOMAIN Records' : Records'[j].span = Records'[k].span => j = k
        /\ Reported' = Reported
    BY <1>1, <1>8, <1>9, <1>12, <2>2, SameRecords
  <2>4. Accounted' = Accounted \cup {s} BY <1>1, <1>14, <2>3 DEF Accounted
  <2>5. RecordsAre' BY <1>1, <1>8, <1>10, <1>13, <2>2, <2>3, <2>4 DEF RecordsAre
  <2> QED BY <1>5, <1>6, <1>7, <2>1, <2>5 DEF TraceInv
<1>15. CASE ~dropped
  <2>1. ShutIs'
    <3>1. batch \in [closed : BOOLEAN, queue : Seq(SpanRecords), exporting : Seq(SpanRecords)]
      BY DEF TraceInv, ShutIs
    <3>2. Append(batch.queue, record) \in Seq(SpanRecords) BY <1>11, <3>1
    <3> HIDE DEF record
    <3>3. /\ batch' \in [closed : BOOLEAN, queue : Seq(SpanRecords), exporting : Seq(SpanRecords)]
          /\ batch'.closed = batch.closed /\ batch'.exporting = batch.exporting
      BY <1>1, <1>15, <3>1, <3>2
    <3>4. shutdown # "flushed" BY <1>15 DEF TraceInv, ShutIs
    <3> QED BY <1>1, <3>3, <3>4 DEF TraceInv, ShutIs
  <2>2. Records' = Append(Records, record)
    <3> DEFINE a == traceFile.records \o batch.exporting
               c == batch.queue
    <3>1. a \in Seq(SpanRecords) /\ c \in Seq(SpanRecords) BY RecordTypes
    <3>2. /\ batch'.exporting = batch.exporting /\ batch'.queue = Append(c, record)
          /\ traceFile' = traceFile
      <4>1. batch \in [closed : BOOLEAN, queue : Seq(SpanRecords), exporting : Seq(SpanRecords)]
        BY DEF TraceInv, ShutIs
      <4> QED BY <1>1, <1>15, <4>1
    <3>3. Records = a \o c /\ Records' = a \o Append(c, record) BY <3>2 DEF Records
    <3> HIDE DEF a, c, record
    <3>4. a \o Append(c, record) = Append(a \o c, record) BY <1>11, <3>1
    <3> QED BY <3>3, <3>4
  <2>3. Records \in Seq(SpanRecords) /\ Len(Records) \in Nat BY RecordTypes
  <2>4. /\ DOMAIN Records = 1 .. Len(Records) /\ DOMAIN Records' = 1 .. Len(Records) + 1
        /\ \A k \in DOMAIN Records : Records'[k] = Records[k]
        /\ Records'[Len(Records) + 1] = record
    <3> HIDE DEF record
    <3> QED BY <1>11, <2>2, <2>3
  <2>5. record.span = s /\ record.totals = WithOwn(s) BY <1>3
  <2> HIDE DEF record
  <2>6. \A k \in DOMAIN Records' : k \in DOMAIN Records \/ k = Len(Records) + 1 BY <2>3, <2>4
  <2>7. ASSUME NEW k \in DOMAIN Records'
        PROVE  Records'[k].span \in Over' /\ Records'[k].totals = WithOwn(Records[k].span)'
    <3>1. PICK x : x = Records'[k].span OBVIOUS
    <3>2. x \in Over' /\ x \in Spans /\ Records'[k].totals = WithOwn(x)
      <4>1. CASE k \in DOMAIN Records
        <5>1. x = Records[k].span /\ Records'[k].totals = Records[k].totals BY <2>4, <3>1, <4>1
        <5>2. x \in Over /\ Records[k].totals = WithOwn(x) BY <1>13, <4>1, <5>1
        <5> QED BY <1>8, <5>1, <5>2 DEF Over
      <4>2. CASE k = Len(Records) + 1 BY <1>8, <2>4, <2>5, <3>1, <4>2
      <4> QED BY <2>6, <4>1, <4>2
    <3>3. WithOwn(x)' = WithOwn(x) BY <1>9, <3>2
    <3> QED BY <3>1, <3>2, <3>3 DEF WithOwn
  <2>8. \A j, k \in DOMAIN Records' : Records'[j].span = Records'[k].span => j = k
    BY <1>2, <1>13, <2>4, <2>5, <2>6
  <2>9. Reported' = Reported \cup {s}
    BY <2>4, <2>5, <2>6 DEF Reported
  <2>10. Accounted' = Accounted \cup {s} BY <1>1, <1>15, <2>9 DEF Accounted
  <2>11. RecordsAre' BY <1>1, <1>8, <1>10, <1>13, <2>7, <2>8, <2>10 DEF RecordsAre
  <2> QED BY <1>5, <1>6, <1>7, <2>1, <2>11 DEF TraceInv
<1> QED BY <1>14, <1>15

LEMMA StopProviderStep ==
    ASSUME TraceInv, NoSpan \notin Spans, StopProvider PROVE TraceInv'
<1>1. /\ shutdown = "none" /\ stopped' = TRUE /\ shutdown' = "close"
      /\ endedBefore' = [endedBefore EXCEPT ![NoSpan] = Over]
      /\ UNCHANGED <<ended, totals, ending, batch, traceFile, unqueued, unwritten>>
  BY DEF StopProvider
<1>2. ShutIs /\ ~stopped BY <1>1 DEF TraceInv, ShutIs
<1>3. ShutIs' BY <1>1, <1>2 DEF ShutIs, Drained
<1>4. Records' = Records BY <1>1 DEF Records
<1> QED BY <1>1, <1>2, <1>3, <1>4, EndsStay

LEMMA CloseBatchStep ==
    ASSUME TraceInv, NoSpan \notin Spans, CloseBatch PROVE TraceInv'
<1>1. /\ shutdown = "close" /\ shutdown' = "drain" /\ batch' = [batch EXCEPT !.closed = TRUE]
      /\ UNCHANGED <<ended, totals, ending, stopped, traceFile, unqueued, endedBefore, unwritten>>
  BY DEF CloseBatch
<1>2. ShutIs BY DEF TraceInv
<1>3. batch \in [closed : BOOLEAN, queue : Seq(SpanRecords), exporting : Seq(SpanRecords)]
  BY <1>2 DEF ShutIs
<1>4. /\ batch' \in [closed : BOOLEAN, queue : Seq(SpanRecords), exporting : Seq(SpanRecords)]
      /\ batch'.closed /\ batch'.queue = batch.queue /\ batch'.exporting = batch.exporting
  BY <1>1, <1>3
<1>5. ShutIs' BY <1>1, <1>2, <1>4 DEF ShutIs, Drained
<1>6. Records' = Records BY <1>1, <1>4 DEF Records
<1> QED BY <1>1, <1>5, <1>6, EndsStay

LEMMA CloseFileStep ==
    ASSUME TraceInv, NoSpan \notin Spans, CloseFile PROVE TraceInv'
<1>1. /\ shutdown = "drain" /\ traceFile' = [traceFile EXCEPT !.closed = TRUE]
      /\ (Drained /\ shutdown' = "flushed") \/ shutdown' = "cut short"
      /\ UNCHANGED <<ended, totals, ending, stopped, batch, unqueued, endedBefore, unwritten>>
  BY DEF CloseFile
<1>2. ShutIs BY DEF TraceInv
<1>3. traceFile \in [records : Seq(SpanRecords), closed : BOOLEAN] BY <1>2 DEF ShutIs
<1>4. /\ traceFile' \in [records : Seq(SpanRecords), closed : BOOLEAN]
      /\ traceFile'.closed /\ traceFile'.records = traceFile.records
  BY <1>1, <1>3
<1>5. ShutIs' BY <1>1, <1>2, <1>4 DEF ShutIs, Drained
<1>6. Records' = Records BY <1>1, <1>4 DEF Records
<1> QED BY <1>1, <1>5, <1>6, EndsStay

\* The Batch's goroutine takes the first record of its queue.
LEMMA TakeRecordStep ==
    ASSUME TraceInv, NoSpan \notin Spans, TakeRecord PROVE TraceInv'
<1> DEFINE R == SpanRecords
           a == traceFile.records
           q == batch.queue
<1>1. /\ batch.exporting = <<>> /\ q # <<>>
      /\ batch' = [batch EXCEPT !.exporting = <<Head(q)>>, !.queue = Tail(q)]
      /\ UNCHANGED <<ended, totals, ending, stopped, traceFile, unqueued, shutdown, endedBefore, unwritten>>
  BY DEF TakeRecord
<1>2. ShutIs BY DEF TraceInv
<1>3. batch \in [closed : BOOLEAN, queue : Seq(R), exporting : Seq(R)] /\ a \in Seq(R) /\ q \in Seq(R)
  BY <1>2 DEF ShutIs
<1>4. /\ Head(q) \in R /\ Tail(q) \in Seq(R) /\ <<Head(q)>> \in Seq(R) /\ Len(<<Head(q)>>) = 1
      /\ (a \o <<Head(q)>>) \o Tail(q) = (a \o <<>>) \o q
  <2> HIDE DEF a, q, R
  <2>1. Head(q) \in R /\ Tail(q) \in Seq(R) BY <1>1, <1>3
  <2>2. a \o <<>> = a BY <1>3, ConcatEmptySeq
  <2>3. q = <<Head(q)>> \o Tail(q) BY <1>1, <1>3
  <2>4. (a \o <<Head(q)>>) \o Tail(q) = a \o (<<Head(q)>> \o Tail(q)) BY <1>3, <2>1
  <2> QED BY <2>1, <2>2, <2>3, <2>4
<1>5. /\ batch' \in [closed : BOOLEAN, queue : Seq(R), exporting : Seq(R)]
      /\ batch'.closed = batch.closed
      /\ batch'.exporting = <<Head(q)>> /\ batch'.queue = Tail(q)
  <2> HIDE DEF q
  <2> QED BY <1>1, <1>3, <1>4
<1>6. shutdown # "flushed" BY <1>1, <1>2 DEF ShutIs, Drained
<1>7. ShutIs'
  <2>1. Len(batch'.exporting) <= 1 BY <1>4, <1>5
  <2> HIDE DEF R, q
  <2> QED BY <1>1, <1>2, <1>5, <1>6, <2>1 DEF ShutIs, R
<1>8. Records' = Records BY <1>1, <1>4, <1>5 DEF Records
<1> QED BY <1>1, <1>7, <1>8, EndsStay

LEMMA OneTakenOut ==
    ASSUME NEW a \in Seq(SpanRecords), NEW q \in Seq(SpanRecords), NEW r \in SpanRecords
    PROVE  /\ DOMAIN ((a \o <<r>>) \o q) = 1 .. Len(a) + 1 + Len(q)
           /\ DOMAIN (a \o q) = 1 .. Len(a) + Len(q)
           /\ ((a \o <<r>>) \o q)[Len(a) + 1] = r
           /\ \A k \in 1 .. Len(a) + Len(q) :
                  (a \o q)[k] = ((a \o <<r>>) \o q)[IF k <= Len(a) THEN k ELSE k + 1]
<1> DEFINE R == SpanRecords
           c == a \o <<r>>
           n == Len(a)
           m == Len(q)
<1> HIDE DEF R
<1>1. a \in Seq(R) /\ q \in Seq(R) /\ r \in R /\ n \in Nat /\ m \in Nat BY DEF R
<1>2. c \in Seq(R) /\ Len(c) = n + 1 /\ c[n + 1] = r /\ \A k \in 1 .. n : c[k] = a[k] BY <1>1
<1> HIDE DEF c
<1>3. /\ c \o q \in Seq(R) /\ Len(c \o q) = Len(c) + m /\ a \o q \in Seq(R) /\ Len(a \o q) = n + m
      /\ \A k \in 1 .. Len(c) : (c \o q)[k] = c[k]
      /\ \A k \in 1 .. m : (c \o q)[Len(c) + k] = q[k]
      /\ \A k \in 1 .. n : (a \o q)[k] = a[k]
      /\ \A k \in 1 .. m : (a \o q)[n + k] = q[k]
  BY <1>1, <1>2, SMTT(20)
<1>4. DOMAIN (c \o q) = 1 .. n + 1 + m /\ DOMAIN (a \o q) = 1 .. n + m
  <2>1. DOMAIN (c \o q) = 1 .. Len(c \o q) /\ DOMAIN (a \o q) = 1 .. Len(a \o q) BY <1>3
  <2> QED BY <1>2, <1>3, <2>1
<1> HIDE DEF n, m
<1>5. (c \o q)[n + 1] = r BY <1>1, <1>2, <1>3
<1>6. ASSUME NEW k \in 1 .. n + m PROVE (a \o q)[k] = (c \o q)[IF k <= n THEN k ELSE k + 1]
  <2>1. CASE k <= n
    <3>1. k \in 1 .. n /\ k \in 1 .. Len(c) BY <1>1, <1>2, <2>1
    <3> QED BY <1>2, <1>3, <2>1, <3>1
  <2>2. CASE ~(k <= n)
    <3> DEFINE j == k - n
    <3>1. j \in 1 .. m /\ n + j = k /\ Len(c) + j = k + 1 BY <1>1, <1>2, <2>2
    <3> HIDE DEF j
    <3>2. (a \o q)[n + j] = q[j] /\ (c \o q)[Len(c) + j] = q[j] BY <1>3, <3>1
    <3> QED BY <2>2, <3>1, <3>2
  <2> QED BY <2>1, <2>2
<1> QED BY <1>4, <1>5, <1>6 DEF c, n, m

\* A record is written, or comes after the file was closed.
LEMMA WriteRecordStep ==
    ASSUME TraceInv, NoSpan \notin Spans, WriteRecord PROVE TraceInv'
<1> DEFINE R == SpanRecords
           a == traceFile.records
           b == batch.exporting
           q == batch.queue
<1>1. /\ b # <<>> /\ batch' = [batch EXCEPT !.exporting = <<>>]
      /\ UNCHANGED <<ended, totals, ending, stopped, unqueued, shutdown, endedBefore>>
      /\ traceFile.closed => unwritten' = unwritten \cup {b[1].span} /\ traceFile' = traceFile
      /\ ~traceFile.closed => /\ traceFile' = [traceFile EXCEPT !.records = a \o b]
                              /\ unwritten' = unwritten
  BY DEF WriteRecord
<1>2. ShutIs BY DEF TraceInv
<1>3. /\ batch \in [closed : BOOLEAN, queue : Seq(R), exporting : Seq(R)]
      /\ traceFile \in [records : Seq(R), closed : BOOLEAN]
      /\ a \in Seq(R) /\ b \in Seq(R) /\ q \in Seq(R)
  BY <1>2 DEF ShutIs
<1>4. /\ batch' \in [closed : BOOLEAN, queue : Seq(R), exporting : Seq(R)]
      /\ batch'.closed = batch.closed /\ batch'.queue = q /\ batch'.exporting = <<>>
  <2>1. <<>> \in Seq(R) OBVIOUS
  <2>2. batch' = [batch EXCEPT !.exporting = <<>>] BY <1>1
  <2>3. batch \in [closed : BOOLEAN, queue : Seq(R), exporting : Seq(R)] BY <1>3
  <2> HIDE DEF R
  <2> QED BY <2>1, <2>2, <2>3
<1>5. shutdown # "flushed" BY <1>1, <1>2 DEF ShutIs, Drained
<1>6. Len(<<>>) <= 1 OBVIOUS
<1>7. CASE ~traceFile.closed
  <2>1. /\ traceFile' \in [records : Seq(R), closed : BOOLEAN]
        /\ traceFile'.records = a \o b /\ traceFile'.closed = traceFile.closed
    <3>1. a \o b \in Seq(R) BY <1>3
    <3> HIDE DEF a, b
    <3> QED BY <1>1, <1>3, <1>7, <3>1
  <2>2. unwritten' = unwritten BY <1>1, <1>7
  <2>3. ShutIs'
    <3> HIDE DEF R, a, b, q
    <3> QED BY <1>1, <1>2, <1>4, <1>5, <1>6, <2>1, <2>2 DEF ShutIs, R
  <2>4. Records' = Records
    <3>1. a \o b \in Seq(R) BY <1>3
    <3>2. (a \o b) \o <<>> = a \o b BY <3>1, ConcatEmptySeq
    <3> QED BY <1>4, <2>1, <3>2 DEF Records
  <2> QED BY <1>1, <2>2, <2>3, <2>4, EndsStay
<1>8. CASE traceFile.closed
  <2>1. unwritten' = unwritten \cup {b[1].span} /\ traceFile' = traceFile BY <1>1, <1>8
  <2>2. shutdown = "cut short" BY <1>2, <1>5, <1>8 DEF ShutIs
  <2>3. ShutIs'
    <3> HIDE DEF R, a, b, q
    <3> QED BY <1>1, <1>2, <1>4, <1>6, <2>1, <2>2 DEF ShutIs, R, Drained
  <2> DEFINE n == Len(a)
             m == Len(q)
  <2>4. n \in Nat /\ m \in Nat /\ Len(b) = 1 /\ b[1] \in R
    <3>1. Len(b) \in Nat /\ Len(b) # 0 BY <1>1, <1>3
    <3>2. Len(b) <= 1 BY <1>2 DEF ShutIs
    <3> DEFINE l == Len(b)
    <3>3. l \in Nat /\ l # 0 /\ l <= 1 BY <3>1, <3>2
    <3> HIDE DEF l
    <3>4. l = 1 BY <3>3
    <3>5. n \in Nat /\ m \in Nat BY <1>3
    <3>6. b[1] \in R
      <4>1. 1 \in 1 .. Len(b) BY <3>4 DEF l
      <4> HIDE DEF R, b
      <4> QED BY <1>3, <4>1
    <3> QED BY <3>4, <3>5, <3>6 DEF l
  <2>5. /\ DOMAIN Records = 1 .. n + 1 + m /\ DOMAIN Records' = 1 .. n + m
        /\ Records[n + 1] = b[1]
        /\ \A k \in 1 .. n + m : Records'[k] = Records[IF k <= n THEN k ELSE k + 1]
    <3>1. b = <<b[1]>>
      <4> HIDE DEF R, b
      <4> QED BY <1>3, <2>4
    <3>2. Records = (a \o <<b[1]>>) \o q BY <3>1 DEF Records
    <3>3. Records' = a \o q
      <4>1. a \o <<>> = a BY <1>3, ConcatEmptySeq
      <4> QED BY <1>4, <2>1, <4>1 DEF Records
    <3>0. a \in Seq(SpanRecords) /\ q \in Seq(SpanRecords) /\ b[1] \in SpanRecords BY <1>3, <2>4
    <3> HIDE DEF a, b, q
    <3>4. /\ DOMAIN ((a \o <<b[1]>>) \o q) = 1 .. Len(a) + 1 + Len(q)
          /\ DOMAIN (a \o q) = 1 .. Len(a) + Len(q)
          /\ ((a \o <<b[1]>>) \o q)[Len(a) + 1] = b[1]
          /\ \A k \in 1 .. Len(a) + Len(q) :
                 (a \o q)[k] = ((a \o <<b[1]>>) \o q)[IF k <= Len(a) THEN k ELSE k + 1]
      BY <3>0, OneTakenOut
    <3> QED BY <3>2, <3>3, <3>4
  <2> DEFINE old(k) == IF k <= n THEN k ELSE k + 1
  <2>6. /\ \A k \in DOMAIN Records' : old(k) \in DOMAIN Records /\ Records'[k] = Records[old(k)]
        /\ \A j, k \in DOMAIN Records' : old(j) = old(k) => j = k
        /\ \A i \in DOMAIN Records : i # n + 1 => \E k \in DOMAIN Records' : i = old(k)
    <3> HIDE DEF n, m
    <3>1. \A k \in DOMAIN Records' : old(k) \in DOMAIN Records /\ Records'[k] = Records[old(k)]
      BY <2>4, <2>5
    <3>2. \A j, k \in DOMAIN Records' : old(j) = old(k) => j = k BY <2>4, <2>5
    <3>3. ASSUME NEW i \in DOMAIN Records, i # n + 1 PROVE \E k \in DOMAIN Records' : i = old(k)
      <4>1. CASE i <= n
        <5>1. i \in DOMAIN Records' /\ old(i) = i BY <2>4, <2>5, <4>1
        <5> QED BY <5>1
      <4>2. CASE ~(i <= n)
        <5>1. i - 1 \in DOMAIN Records' /\ old(i - 1) = i BY <2>4, <2>5, <3>3, <4>2
        <5> QED BY <5>1
      <4> QED BY <4>1, <4>2
    <3> QED BY <3>1, <3>2, <3>3
  <2> HIDE DEF old
  <2>7. /\ \A k \in DOMAIN Records :
               Records[k].span \in Over /\ Records[k].totals = WithOwn(Records[k].span)
        /\ \A j, k \in DOMAIN Records : Records[j].span = Records[k].span => j = k
        /\ endedBefore[NoSpan] \subseteq Accounted /\ (~stopped => Over \subseteq Accounted)
        /\ \A s \in Spans : \A e \in EndCalls[s] :
               ending[s][e].at = "on end" => ending[s][e].record = [span |-> s, totals |-> WithOwn(s)]
    BY DEF TraceInv, RecordsAre
  <2>8. Over' = Over /\ \A x : WithOwn(x)' = WithOwn(x) BY <1>1 DEF Over, WithOwn
  <2>9. ASSUME NEW k \in DOMAIN Records'
        PROVE  Records'[k].span \in Over' /\ Records'[k].totals = WithOwn(Records[k].span)'
    <3>1. PICK x : x = Records'[k].span OBVIOUS
    <3>2. x \in Over /\ Records'[k].totals = WithOwn(x)
      <4>1. PICK j : j = old(k) OBVIOUS
      <4>2. j \in DOMAIN Records /\ x = Records[j].span /\ Records'[k].totals = Records[j].totals
        BY <2>6, <3>1, <4>1
      <4>3. Records[j].span \in Over /\ Records[j].totals = WithOwn(Records[j].span) BY <2>7, <4>2
      <4> QED BY <4>2, <4>3 DEF WithOwn
    <3>3. WithOwn(x)' = WithOwn(x) BY <2>8
    <3> QED BY <2>8, <3>1, <3>2, <3>3 DEF WithOwn
  <2>10. ASSUME NEW j \in DOMAIN Records', NEW k \in DOMAIN Records',
                Records'[j].span = Records'[k].span
         PROVE  j = k
    <3>1. /\ old(j) \in DOMAIN Records /\ Records'[j] = Records[old(j)]
          /\ old(k) \in DOMAIN Records /\ Records'[k] = Records[old(k)]
      BY <2>6
    <3>2. Records[old(j)].span = Records[old(k)].span BY <2>10, <3>1
    <3>3. \A i, l \in DOMAIN Records : Records[i].span = Records[l].span => i = l BY <2>7
    <3>4. old(j) = old(k) BY <3>1, <3>2, <3>3
    <3> QED BY <2>6, <3>4
  <2>11. Accounted \subseteq Accounted'
    <3>1. ASSUME NEW i \in DOMAIN Records PROVE Records[i].span \in Reported' \cup unwritten'
      <4>1. CASE i = n + 1 BY <2>1, <2>5, <4>1
      <4>2. CASE i # n + 1
        <5>1. PICK k \in DOMAIN Records' : i = old(k) BY <2>6, <4>2
        <5>2. Records[i].span = Records'[k].span BY <2>6, <5>1
        <5> QED BY <5>2 DEF Reported
      <4> QED BY <4>1, <4>2
    <3>2. Reported \subseteq Reported' \cup unwritten' BY <3>1 DEF Reported
    <3> QED BY <1>1, <2>1, <3>2 DEF Accounted
  <2>12. RecordsAre'
    <3>1. endedBefore'[NoSpan] \subseteq Accounted' /\ (~stopped' => Over' \subseteq Accounted')
      BY <1>1, <2>7, <2>8, <2>11
    <3>2. \A s \in Spans : \A e \in EndCalls[s] :
              ending'[s][e].at = "on end" =>
                  ending'[s][e].record = [span |-> s, totals |-> WithOwn(s)']
      BY <1>1, <2>7, <2>8
    <3> QED BY <2>9, <2>10, <3>1, <3>2 DEF RecordsAre
  <2>13. SpanTypes' /\ OneEnd'
    <3>1. UNCHANGED <<ended, totals, ending, endedBefore>> BY <1>1
    <3>2. SpanTypes' BY <3>1 DEF TraceInv, SpanTypes
    <3>3. OneEnd' BY <3>1 DEF TraceInv, OneEnd, Firsts
    <3> QED BY <3>2, <3>3
  <2>14. Counting'
    <3>1. \A s \in Spans : Added(s)' = Added(s) BY <1>1 DEF Added
    <3> QED BY <1>1, <3>1, SameCounting DEF TraceInv
  <2> QED BY <2>3, <2>12, <2>13, <2>14 DEF TraceInv
<1> QED BY <1>7, <1>8

-----------------------------------------------------------------------------
(* The theorem about the trace. *)

LEMMA TraceStarts == ASSUME NoSpan \notin Spans, TraceInit PROVE TraceInv
<1>1. /\ ended = {} /\ totals = [s \in Spans |-> [d \in Spans |-> 0]]
      /\ ending = [s \in Spans |-> [e \in EndCalls[s] |-> [at |-> "none"]]]
      /\ stopped = FALSE /\ batch = [closed |-> FALSE, queue |-> <<>>, exporting |-> <<>>]
      /\ traceFile = [records |-> <<>>, closed |-> FALSE]
      /\ unqueued = {} /\ unwritten = {} /\ shutdown = "none"
      /\ endedBefore = [s \in Spans \cup {NoSpan} |-> {}]
  BY DEF TraceInit
<1>2. \A s \in Spans : \A e \in EndCalls[s] : ending[s][e].at = "none" BY <1>1
<1>3. SpanTypes
  <2>1. ending = [s \in Spans |-> [e \in EndCalls[s] |-> ending[s][e]]] BY <1>1
  <2>2. totals \in [Spans -> [Spans -> Nat]] BY <1>1
  <2>3. endedBefore \in [Spans \cup {NoSpan} -> SUBSET Spans] BY <1>1
  <2> QED BY <1>1, <2>1, <2>2, <2>3 DEF SpanTypes
<1>4. \A s \in Spans : Firsts(s) = {} /\ Added(s) = {} BY <1>2 DEF Firsts, Added
<1>5. OneEnd BY <1>1, <1>4 DEF OneEnd
<1>6. \A s, d \in Spans : totals[s][d] = 0 /\ ~Counts(s, d)
  <2>1. \A s, d \in Spans : totals[s][d] = 0 BY <1>1
  <2> QED BY <2>1 DEF Counts
<1>7. Counting
  BY <1>1, <1>4, <1>6 DEF Counting, OnceEach, CountsAdded, CountsAll, OneAbove, CountsChildren
<1>8. <<>> \in Seq(SpanRecords) /\ Len(<<>>) = 0 OBVIOUS
<1>9. ShutIs
  <2>1. Drained BY <1>1 DEF Drained
  <2>2. Len(batch.exporting) <= 1 BY <1>1, <1>8
  <2> HIDE DEF SpanRecords
  <2> QED BY <1>1, <1>8, <2>1, <2>2 DEF ShutIs
<1>10. RecordsAre
  <2>1. (<<>> \o <<>>) \o <<>> = <<>> BY <1>8, ConcatEmptySeq
  <2>2. Records = <<>> BY <1>1, <2>1 DEF Records
  <2>3. DOMAIN Records = {} BY <1>8, <2>2
  <2>4. Over = {} BY <1>1 DEF Over
  <2>5. endedBefore[NoSpan] = {} BY <1>1
  <2>6. \A s \in Spans : \A e \in EndCalls[s] : ending[s][e].at # "on end" BY <1>2
  <2> QED BY <2>3, <2>4, <2>5, <2>6 DEF RecordsAre
<1> QED BY <1>3, <1>5, <1>7, <1>9, <1>10 DEF TraceInv

LEMMA TraceSteps ==
    ASSUME NoSpan \notin Spans, ParentSpan \in [Spans -> Spans \cup {NoSpan}],
           TraceInv, [TraceNext]_traceVars
    PROVE  TraceInv'
<1>1. CASE UNCHANGED traceVars
  <2>1. UNCHANGED <<ended, totals, ending, stopped, batch, traceFile, unqueued, shutdown, endedBefore, unwritten>>
    BY <1>1 DEF traceVars
  <2>2. ShutIs' BY <2>1 DEF TraceInv, ShutIs, Drained
  <2>3. Records' = Records BY <2>1 DEF Records
  <2> QED BY <2>1, <2>2, <2>3, EndsStay
<1>2. ASSUME NEW s \in Spans, StartSpan(s) PROVE TraceInv' BY <1>2, StartSpanStep
<1>3. ASSUME NEW s \in Spans, NEW e \in EndCalls[s],
             EndSpan(s, e) \/ RollUp(s, e) \/ TakeData(s, e) \/ OnEnd(s, e)
      PROVE  TraceInv'
  BY <1>3, EndSpanStep, RollUpStep, TakeDataStep, OnEndStep
<1>4. TakeRecord => TraceInv' BY TakeRecordStep
<1>5. WriteRecord => TraceInv' BY WriteRecordStep
<1>6. StopProvider => TraceInv' BY StopProviderStep
<1>7. CloseBatch => TraceInv' BY CloseBatchStep
<1>8. CloseFile => TraceInv' BY CloseFileStep
<1> QED BY <1>1, <1>2, <1>3, <1>4, <1>5, <1>6, <1>7, <1>8 DEF TraceNext

\* What a span counts is such a set of descendants.
LEMMA CountsThoseInTime ==
    ASSUME NoSpan \notin Spans, TraceInv, NEW s \in ended, NEW d \in InTime(s)
    PROVE  totals[s][d] = 1
<1> DEFINE S == {c \in Spans : Counts(s, c)}
<1>1. /\ Counting /\ totals \in [Spans -> [Spans -> Nat]] /\ s \in Spans /\ d \in Spans
      /\ endedBefore \in [Spans \cup {NoSpan} -> SUBSET Spans]
  BY DEF TraceInv, SpanTypes, InTime
<1>2. \A c \in Spans : Added(c) # {} => c \in ended
  <2>1. \A c \in Spans : Added(c) \subseteq Firsts(c) BY DEF Added, Firsts
  <2> QED BY <2>1 DEF TraceInv, OneEnd
<1>3. ASSUME NEW c \in Spans, ParentSpan[c] \in S \cup {s}, c \in endedBefore[ParentSpan[c]]
      PROVE  c \in S
  <2> DEFINE p == ParentSpan[c]
  <2>1. p \in Spans BY <1>1, <1>3
  <2>2. p = s \/ Counts(s, p) BY <1>3
  <2>3. p \in ended BY <1>1, <1>2, <2>1, <2>2 DEF Counting, CountsAdded
  <2>4. Counts(p, c) BY <1>1, <1>3, <2>1, <2>3 DEF Counting, CountsChildren
  <2>5. Counts(s, c) BY <1>1, <2>1, <2>2, <2>4 DEF Counting, CountsAll
  <2> QED BY <2>5
<1>4. d \in S
  <2>1. S \in SUBSET Spans OBVIOUS
  <2> HIDE DEF S
  <2> QED BY <1>3, <2>1 DEF InTime
<1>5. totals[s][d] \in Nat /\ totals[s][d] >= 1 /\ totals[s][d] <= 1
  BY <1>1, <1>4 DEF Counts, Counting, OnceEach
<1> QED BY <1>5

LEMMA TraceIsAsItSays == ASSUME NoSpan \notin Spans, TraceInv PROVE TraceIsExact
<1>1. TotalsAreExact
  <2>1. \A s, d \in Spans : totals[s][d] <= 1 BY DEF TraceInv, Counting, OnceEach
  <2>2. \A s \in ended : \A d \in InTime(s) : totals[s][d] = 1 BY CountsThoseInTime
  <2>3. \A k \in DOMAIN Records : Records[k].totals = WithOwn(Records[k].span)
    BY DEF TraceInv, RecordsAre
  <2> QED BY <2>1, <2>2, <2>3 DEF TotalsAreExact
<1>2. SpansAreKept
  <2>1. /\ \A j, k \in DOMAIN Records : Records[j].span = Records[k].span => j = k
        /\ endedBefore[NoSpan] \subseteq Accounted
        /\ unwritten # {} => shutdown = "cut short"
        /\ shutdown = "flushed" => Drained
    BY DEF TraceInv, RecordsAre, ShutIs
  <2>2. ASSUME shutdown = "flushed", NEW s \in endedBefore[NoSpan]
        PROVE  s \in unqueued \/ \E k \in DOMAIN traceFile.records : traceFile.records[k].span = s
    <3>1. s \in unqueued \/ s \in Reported BY <2>1, <2>2 DEF Accounted
    <3>2. Records = traceFile.records
      <4>1. batch.queue = <<>> /\ batch.exporting = <<>> BY <2>1, <2>2 DEF Drained
      <4> DEFINE a == traceFile.records
      <4>2. a \in Seq(SpanRecords) BY RecordTypes
      <4>3. Records = (a \o <<>>) \o <<>> BY <4>1 DEF Records
      <4> HIDE DEF a
      <4>4. a \o <<>> = a BY <4>2, ConcatEmptySeq
      <4> QED BY <4>3, <4>4 DEF a
    <3> QED BY <3>1, <3>2 DEF Reported
  <2> QED BY <2>1, <2>2 DEF SpansAreKept
<1> QED BY <1>1, <1>2 DEF TraceIsExact

\* What a span reports, and what reaches the file, is what ran (Span.Totals, trace/span.go;
\* Batch, trace/batch.go), of any spans, ended by any calls in any order, with any queue,
\* and a Shutdown at any moment.
THEOREM TraceIsAlwaysExact == TraceSpec => []TraceIsExact
<1>1. NoSpan \notin Spans /\ ParentSpan \in [Spans -> Spans \cup {NoSpan}] BY SpanConstants DEF SpanConstants
<1>2. TraceInit => TraceInv BY <1>1, TraceStarts
<1>3. TraceInv /\ [TraceNext]_traceVars => TraceInv' BY <1>1, TraceSteps
<1>4. TraceInv => TraceIsExact BY <1>1, TraceIsAsItSays
<1> QED BY <1>2, <1>3, <1>4, PTL DEF TraceSpec

-----------------------------------------------------------------------------
(* The prompts of a run.                                                    *)

Authors == {"system", "summary", "history", "run"}
Roles == {"system", "user", "assistant", "tool"}
Told == [by : Authors, role : Roles, text : Seq(Nat), n : Int]
Places == {"new", "loop", "call", "calling", "finish", "returned", "ended"}
Turns == [at : Places, iteration : Int, from : Int, tail : Nat, promptLen : Nat,
          compactions : Int, rounds : Int, onError : BOOLEAN]
LLMCalls == [offset : Int, messages : Seq(Told)]

\* When the next call's record does not start from nothing, the session still starts
\* with the last call's prompt.
PromptIs ==
    run.promptLen > 0 =>
        /\ Len(prompts) > 0 /\ run.promptLen = Len(prompts[Len(prompts)])
        /\ \E more \in Seq(Told) : prompt = prompts[Len(prompts)] \o more

PromptsInv ==
    /\ prompt \in Seq(Told) /\ run \in Turns
    /\ prompts \in Seq(Seq(Told)) /\ calls \in Seq(LLMCalls) /\ Len(calls) = Len(prompts)
    /\ run.at = "new" => run.promptLen = 0
    /\ PromptIs /\ TraceRebuildsPrompts

LEMMA CutInTwo ==
    ASSUME NEW s \in Seq(Told), NEW t \in Seq(Told)
    PROVE  /\ s \o t \in Seq(Told) /\ Len(s \o t) = Len(s) + Len(t)
           /\ SubSeq(s \o t, 1, Len(s)) = s
           /\ SubSeq(s \o t, Len(s) + 1, Len(s \o t)) = t
<1> DEFINE T == Told
<1> HIDE DEF T
<1>0. s \in Seq(T) /\ t \in Seq(T) BY DEF T
<1>1. s \o t \in Seq(T) /\ Len(s \o t) = Len(s) + Len(t) /\ Len(s) \in Nat /\ Len(t) \in Nat BY <1>0
<1>2. ASSUME NEW b, b = SubSeq(s \o t, 1, Len(s)) PROVE b = s
  <2>1. b \in Seq(T) /\ Len(b) = Len(s) /\ \A i \in 1 .. Len(s) : b[i] = s[i] BY <1>0, <1>1, <1>2
  <2> QED BY <1>0, <2>1, SeqEqual
<1>3. ASSUME NEW b, b = SubSeq(s \o t, Len(s) + 1, Len(s \o t)) PROVE b = t
  <2>1. b \in Seq(T) /\ Len(b) = Len(t) /\ \A i \in 1 .. Len(t) : b[i] = t[i] BY <1>0, <1>1, <1>3
  <2> QED BY <1>0, <2>1, SeqEqual
<1> QED BY <1>1, <1>2, <1>3 DEF T

LEMMA ConcatThree ==
    ASSUME NEW a \in Seq(Told), NEW b \in Seq(Told), NEW c \in Seq(Told)
    PROVE  (a \o b) \o c = a \o (b \o c)
<1> DEFINE T == Told
<1> HIDE DEF T
<1>0. a \in Seq(T) /\ b \in Seq(T) /\ c \in Seq(T) BY DEF T
<1> DEFINE l == (a \o b) \o c
           r == a \o (b \o c)
<1>1. /\ l \in Seq(T) /\ r \in Seq(T) /\ Len(l) = Len(r)
      /\ \A i \in 1 .. Len(l) : l[i] = r[i]
  BY <1>0
<1> HIDE DEF l, r
<1>2. l = r BY <1>1, SeqEqual
<1> QED BY <1>2 DEF l, r

LEMMA StillStarts ==
    ASSUME NEW s \in Seq(Told), NEW last \in Seq(Told), NEW m \in Seq(Told),
           \E more \in Seq(Told) : s = last \o more
    PROVE  \E more \in Seq(Told) : s \o m = last \o more
<1>1. PICK more \in Seq(Told) : s = last \o more OBVIOUS
<1>2. more \o m \in Seq(Told) BY CutInTwo
<1>3. s \o m = last \o (more \o m) BY <1>1, ConcatThree, SMTT(20)
<1> QED BY <1>2, <1>3

LEMMA OwnMessages == SystemPrompt \in Told /\ SummaryMessage \in Told
<1> DEFINE t == <<0>>
<1>1. t \in Seq(Nat) OBVIOUS
<1> HIDE DEF t
<1>2. [by |-> "system", role |-> "system", text |-> t, n |-> 0] \in Told
  BY <1>1 DEF Told, Authors, Roles
<1>3. [by |-> "summary", role |-> "user", text |-> t, n |-> 0] \in Told
  BY <1>1 DEF Told, Authors, Roles
<1> QED BY <1>2, <1>3 DEF SystemPrompt, SummaryMessage, t

\* The messages a run says itself.
LEMMA TellIs ==
    ASSUME NEW role \in Roles, NEW text \in Seq(Nat), NEW n \in Int
    PROVE  Said_(role, text, n) \in Told
<1>1. "run" \in Authors BY DEF Authors
<1> QED BY <1>1 DEF Said_, Told

\* The session grows, or the next record starts from nothing.
LEMMA PromptGoesOn ==
    ASSUME PromptsInv, prompt' \in Seq(Told), run' \in Turns, run'.at # "new", UNCHANGED <<calls, prompts>>,
           \/ run'.promptLen = 0
           \/ run'.promptLen = run.promptLen /\ \E m \in Seq(Told) : prompt' = prompt \o m
    PROVE  PromptsInv'
<1>1. TraceRebuildsPrompts' BY DEF PromptsInv, TraceRebuildsPrompts
<1>2. PromptIs'
  <2> SUFFICES ASSUME run'.promptLen > 0
               PROVE  /\ Len(prompts) > 0 /\ run'.promptLen = Len(prompts[Len(prompts)])
                      /\ \E more \in Seq(Told) : prompt' = prompts[Len(prompts)] \o more
    BY DEF PromptIs
  <2> DEFINE last == prompts[Len(prompts)]
  <2>1. PICK m \in Seq(Told) : prompt' = prompt \o m /\ run'.promptLen = run.promptLen OBVIOUS
  <2>2. /\ Len(prompts) > 0 /\ run.promptLen = Len(last)
        /\ \E more \in Seq(Told) : prompt = last \o more
    BY <2>1 DEF PromptsInv, PromptIs
  <2>4. last \in Seq(Told)
    <3> DEFINE S == Seq(Told)
    <3>1. prompts \in Seq(S) BY DEF PromptsInv
    <3> HIDE DEF S
    <3> QED BY <2>2, <3>1 DEF S
  <2>5. prompt \in Seq(Told) BY DEF PromptsInv
  <2> HIDE DEF last
  <2>6. \E more \in Seq(Told) : prompt \o m = last \o more BY <2>2, <2>4, <2>5, StillStarts
  <2> QED BY <2>1, <2>2, <2>6 DEF last
<1> QED BY <1>1, <1>2 DEF PromptsInv

\* A step that changes where the run is, and not its prompt.
LEMMA PromptStays ==
    ASSUME PromptsInv, UNCHANGED <<prompt, calls, prompts>>, run' \in Turns, run'.at # "new",
           run'.promptLen = run.promptLen
    PROVE  PromptsInv'
<1>1. prompt \in Seq(Told) BY DEF PromptsInv
<1>2. <<>> \in Seq(Told) OBVIOUS
<1>3. prompt' = prompt \o <<>> BY <1>1, ConcatEmptySeq
<1> QED BY <1>1, <1>2, <1>3, PromptGoesOn

LEMMA FailsKeeps ==
    ASSUME PromptsInv, NEW err, Fails(err), UNCHANGED <<prompt, calls, prompts>>
    PROVE  PromptsInv'
<1>1. run' = [run EXCEPT !.at = "finish"] /\ run \in Turns BY DEF Fails, PromptsInv
<1>3. run' \in Turns BY <1>1 DEF Turns, Places
<1>4. run'.at # "new" /\ run'.promptLen = run.promptLen BY <1>1 DEF Turns
<1> QED BY <1>3, <1>4, PromptStays

LEMMA CompactedIs ==
    ASSUME NEW next \in Turns
    PROVE  [next EXCEPT !.from = 2, !.tail = 2] \in Turns
<1> DEFINE r == [next EXCEPT !.from = 2]
<1>1. r \in Turns BY DEF Turns
<1>2. [next EXCEPT !.from = 2, !.tail = 2] = [r EXCEPT !.tail = 2] BY DEF Turns
<1> HIDE DEF r
<1>3. [r EXCEPT !.tail = 2] \in Turns BY <1>1 DEF Turns
<1> QED BY <1>2, <1>3

\* What a compaction does to the session.
LEMMA CompactionIs ==
    ASSUME NEW next, CompactSession(next)
    PROVE  LET tail == SubSeq(prompt, run.tail + 1, Len(prompt))
           IN  \/ \E kept \in 0 .. Len(tail) - 1 :
                      /\ prompt' = <<SystemPrompt, SummaryMessage>>
                                       \o SubSeq(tail, Len(tail) - kept + 1, Len(tail))
                      /\ run' = ForgetPrompt([next EXCEPT !.from = 2, !.tail = 2])
               \/ run' = next /\ prompt' = prompt
               \/ Fails("compaction") /\ prompt' = prompt
BY Zenon DEF CompactSession

\* A compaction replaces the session, and then records it whole.
LEMMA CompactionKeeps ==
    ASSUME PromptsInv, NEW next \in Turns, next.at # "new", next.promptLen = run.promptLen,
           next.tail = run.tail, CompactSession(next), UNCHANGED <<calls, prompts>>
    PROVE  PromptsInv'
<1> DEFINE tail == SubSeq(prompt, run.tail + 1, Len(prompt))
<1>1. prompt \in Seq(Told) /\ run.tail \in Nat /\ Len(prompt) \in Nat BY DEF PromptsInv, Turns
<1>2. CASE \E kept \in 0 .. Len(tail) - 1 :
               /\ prompt' = <<SystemPrompt, SummaryMessage>>
                                \o SubSeq(tail, Len(tail) - kept + 1, Len(tail))
               /\ run' = ForgetPrompt([next EXCEPT !.from = 2, !.tail = 2])
  <2>1. PICK kept \in 0 .. Len(tail) - 1 :
            /\ prompt' = <<SystemPrompt, SummaryMessage>>
                             \o SubSeq(tail, Len(tail) - kept + 1, Len(tail))
            /\ run' = ForgetPrompt([next EXCEPT !.from = 2, !.tail = 2])
    BY <1>2
  <2>2. run' \in Turns /\ run'.at # "new" /\ run'.promptLen = 0
    <3> DEFINE new == [next EXCEPT !.from = 2, !.tail = 2]
    <3>1. run' = [new EXCEPT !.promptLen = 0] BY <2>1 DEF ForgetPrompt
    <3>2. new \in Turns /\ new.at # "new"
      <4>1. new \in Turns BY CompactedIs, Zenon
      <4>2. new.at = next.at BY DEF Turns
      <4> QED BY <4>1, <4>2
    <3> HIDE DEF new
    <3>3. run' \in Turns BY <3>1, <3>2 DEF Turns
    <3>4. run'.at = new.at /\ run'.promptLen = 0 BY <3>1, <3>2 DEF Turns
    <3> QED BY <3>2, <3>3, <3>4
  <2>3. <<SystemPrompt, SummaryMessage>> \in Seq(Told)
    <3>1. SystemPrompt \in Told /\ SummaryMessage \in Told BY OwnMessages
    <3> HIDE DEF Told
    <3> QED BY <3>1
  <2>4. tail \in Seq(Told) /\ Len(tail) \in Nat
    <3> DEFINE a == run.tail + 1
               z == Len(prompt)
    <3>1. a \in Int /\ z \in Int /\ \A i \in a .. z : i \in 1 .. Len(prompt) BY <1>1
    <3>2. \A i \in a .. z : prompt[i] \in Told
      <4> HIDE DEF a, z, Told
      <4> QED BY <1>1, <3>1
    <3> HIDE DEF a, z
    <3>3. SubSeq(prompt, a, z) \in Seq(Told) BY <3>1, <3>2, SubSeqProperties
    <3> QED BY <3>3 DEF a, z
  <2> HIDE DEF tail
  <2>5. SubSeq(tail, Len(tail) - kept + 1, Len(tail)) \in Seq(Told)
    <3> DEFINE a == Len(tail) - kept + 1
               z == Len(tail)
    <3>1. a \in Int /\ z \in Int /\ \A i \in a .. z : i \in 1 .. Len(tail) BY <2>4
    <3>2. \A i \in a .. z : tail[i] \in Told
      <4> HIDE DEF a, z, Told
      <4> QED BY <2>4, <3>1
    <3> HIDE DEF a, z
    <3>3. SubSeq(tail, a, z) \in Seq(Told) BY <3>1, <3>2, SubSeqProperties
    <3> QED BY <3>3 DEF a, z
  <2>6. prompt' \in Seq(Told) BY <2>1, <2>3, <2>5, CutInTwo
  <2> QED BY <2>2, <2>6, PromptGoesOn
<1>3. CASE run' = next /\ prompt' = prompt BY <1>3, PromptStays
<1>4. CASE Fails("compaction") /\ prompt' = prompt BY <1>4, FailsKeeps
<1>5. \/ \E kept \in 0 .. Len(tail) - 1 :
               /\ prompt' = <<SystemPrompt, SummaryMessage>>
                                \o SubSeq(tail, Len(tail) - kept + 1, Len(tail))
               /\ run' = ForgetPrompt([next EXCEPT !.from = 2, !.tail = 2])
      \/ run' = next /\ prompt' = prompt
      \/ Fails("compaction") /\ prompt' = prompt
  BY CompactionIs, Zenon
<1> QED BY <1>2, <1>3, <1>4, <1>5

\* The call's record and the one before it give back its prompt.
LEMMA StartCallStep == ASSUME PromptsInv, StartCall PROVE PromptsInv'
<1> DEFINE offset == IF run.promptLen < Len(prompt) THEN run.promptLen ELSE Len(prompt)
           record == [offset |-> offset, messages |-> SubSeq(prompt, offset + 1, Len(prompt))]
           n == Len(prompts)
           S == Seq(Told)
<1>1. /\ calls' = Append(calls, record) /\ prompts' = Append(prompts, prompt) /\ prompt' = prompt
      /\ run' = [run EXCEPT !.at = "calling", !.iteration = @ + 1, !.promptLen = Len(prompt)]
  BY DEF StartCall
<1>2. /\ prompt \in S /\ run \in Turns /\ Len(prompt) \in Nat /\ run.promptLen \in Nat
      /\ prompts \in Seq(S) /\ calls \in Seq(LLMCalls) /\ Len(calls) = n /\ n \in Nat
  BY DEF PromptsInv, Turns
<1>3. run' \in Turns /\ run'.at # "new" /\ run'.promptLen = Len(prompt)
  <2>1. run.iteration + 1 \in Int /\ "calling" \in Places BY <1>2 DEF Turns, Places
  <2>2. run' = [run EXCEPT !.at = "calling", !.iteration = run.iteration + 1, !.promptLen = Len(prompt)]
    BY <1>1, <1>2 DEF Turns
  <2>3. run' \in Turns BY <1>2, <2>1, <2>2 DEF Turns
  <2>4. run'.at = "calling" /\ run'.promptLen = Len(prompt) BY <1>2, <2>2 DEF Turns
  <2> QED BY <2>3, <2>4
<1>4. /\ offset = run.promptLen \/ offset = 0
      /\ run.promptLen > 0 =>
             /\ n > 0 /\ offset = Len(prompts[n]) /\ prompts[n] \in S
             /\ prompt = prompts[n] \o record.messages /\ SubSeq(prompts[n], 1, offset) = prompts[n]
      /\ run.promptLen = 0 => offset = 0 /\ record.messages = prompt
      /\ record.messages \in S
  <2>1. CASE run.promptLen > 0
    <3>1. n > 0 /\ run.promptLen = Len(prompts[n]) BY <2>1 DEF PromptsInv, PromptIs
    <3>2. PICK more \in Seq(Told) : prompt = prompts[n] \o more BY <2>1 DEF PromptsInv, PromptIs
    <3>3. prompts[n] \in S
      <4> HIDE DEF S
      <4> QED BY <1>2, <3>1
    <3> DEFINE last == prompts[n]
    <3> HIDE DEF last
    <3>4. /\ Len(prompt) = Len(last) + Len(more) /\ SubSeq(prompt, Len(last) + 1, Len(prompt)) = more
          /\ Len(last) \in Nat /\ Len(more) \in Nat
      <4>1. last \in Seq(Told) /\ more \in Seq(Told) /\ prompt = last \o more BY <3>2, <3>3 DEF last
      <4>2. /\ Len(last \o more) = Len(last) + Len(more)
            /\ SubSeq(last \o more, Len(last) + 1, Len(last \o more)) = more
        BY <4>1, CutInTwo
      <4> HIDE DEF Told
      <4>3. Len(last) \in Nat /\ Len(more) \in Nat BY <4>1
      <4> QED BY <4>1, <4>2, <4>3
    <3>5. SubSeq(last, 1, Len(last)) = last
      <4>1. last \in Seq(Told) BY <3>3 DEF last
      <4> HIDE DEF Told
      <4> QED BY <4>1, SubSeqFull
    <3>6. offset = Len(last) BY <1>2, <3>1, <3>4 DEF last
    <3>7. record.messages = more BY <3>4, <3>6
    <3> HIDE DEF offset, record
    <3> QED BY <2>1, <3>1, <3>2, <3>3, <3>5, <3>6, <3>7 DEF last
  <2>2. CASE ~(run.promptLen > 0)
    <3>1. run.promptLen = 0 BY <1>2, <2>2
    <3>2. offset = 0 BY <1>2, <3>1
    <3>3. SubSeq(prompt, 0 + 1, Len(prompt)) = prompt
      <4> HIDE DEF Told
      <4> QED BY <1>2, SubSeqFull
    <3>4. record.messages = prompt BY <3>2, <3>3
    <3> HIDE DEF offset, record
    <3> QED BY <1>2, <2>2, <3>1, <3>2, <3>4
  <2> QED BY <2>1, <2>2
<1>5. record \in LLMCalls /\ record.offset = offset
  <2>1. offset \in Int BY <1>2
  <2> HIDE DEF offset, S
  <2> QED BY <1>4, <2>1 DEF LLMCalls, S
<1> HIDE DEF offset, record, S
<1>6. /\ prompts' \in Seq(S) /\ Len(prompts') = n + 1 /\ prompts'[n + 1] = prompt
      /\ \A i \in 1 .. n : prompts'[i] = prompts[i]
      /\ calls' \in Seq(LLMCalls) /\ Len(calls') = n + 1 /\ calls'[n + 1] = record
      /\ \A i \in 1 .. n : calls'[i] = calls[i]
      /\ DOMAIN calls = 1 .. n /\ DOMAIN calls' = 1 .. n + 1
  BY <1>1, <1>2, <1>5
<1>7. PromptIs'
  <2>1. prompt = prompt \o <<>> BY <1>2, ConcatEmptySeq DEF S
  <2>2. <<>> \in Seq(Told) OBVIOUS
  <2>3. Len(prompts') > 0 BY <1>2, <1>6
  <2> QED BY <1>1, <1>3, <1>6, <2>1, <2>2, <2>3 DEF PromptIs
<1>8. TraceRebuildsPrompts'
  <2> SUFFICES ASSUME NEW i \in DOMAIN calls'
               PROVE  prompts'[i] = (IF i = 1 THEN <<>> ELSE SubSeq(prompts'[i - 1], 1, calls'[i].offset))
                                        \o calls'[i].messages
    BY DEF TraceRebuildsPrompts
  <2>1. CASE i \in 1 .. n
    <3>1. i - 1 \in 1 .. n \/ i = 1 BY <1>2, <2>1
    <3>2. prompts[i] = (IF i = 1 THEN <<>> ELSE SubSeq(prompts[i - 1], 1, calls[i].offset))
                           \o calls[i].messages
      BY <1>6, <2>1 DEF PromptsInv, TraceRebuildsPrompts
    <3> QED BY <1>6, <2>1, <3>1, <3>2
  <2>2. CASE i = n + 1
    <3>1. prompts'[i] = prompt /\ calls'[i].offset = offset /\ calls'[i].messages = record.messages
      BY <1>5, <1>6, <2>2
    <3>2. <<>> \o record.messages = record.messages BY <1>4, ConcatEmptySeq DEF S
    <3>3. CASE run.promptLen > 0
      <4>0. n \in Nat /\ n > 0 BY <1>2, <1>4, <3>3
      <4> HIDE DEF n
      <4>1. i # 1 /\ i - 1 = n /\ n \in 1 .. n BY <2>2, <4>0
      <4>2. prompts'[i - 1] = prompts[n] BY <1>6, <4>1
      <4> QED BY <1>4, <3>1, <3>3, <4>1, <4>2
    <3>4. CASE ~(run.promptLen > 0)
      <4>1. offset = 0 /\ record.messages = prompt BY <1>2, <1>4, <3>4
      <4>2. i # 1 => SubSeq(prompts'[i - 1], 1, 0) = <<>> BY SubSeqEmpty
      <4> QED BY <3>1, <3>2, <4>1, <4>2
    <3> QED BY <3>3, <3>4
  <2>3. i \in 1 .. n \/ i = n + 1 BY <1>2, <1>6
  <2> QED BY <2>1, <2>2, <2>3
<1>9. prompt' \in Seq(Told) /\ prompts' \in Seq(Seq(Told)) BY <1>1, <1>2, <1>6 DEF S
<1>10. Len(calls') = Len(prompts') /\ calls' \in Seq(LLMCalls) BY <1>6
<1> QED BY <1>3, <1>7, <1>8, <1>9, <1>10 DEF PromptsInv

-----------------------------------------------------------------------------
(* The steps of a run.                                                      *)

LEMMA EventsStart == EventsInit => PromptsInv
<1> SUFFICES ASSUME EventsInit PROVE PromptsInv OBVIOUS
<1>1. /\ run = [at |-> "new", iteration |-> 0, from |-> 0, tail |-> 1, promptLen |-> 0,
                compactions |-> 0, rounds |-> 0, onError |-> FALSE]
      /\ prompt = <<>> /\ calls = <<>> /\ prompts = <<>>
  BY DEF EventsInit
<1>2. run \in Turns /\ run.promptLen = 0 BY <1>1 DEF Turns, Places
<1>3. <<>> \in Seq(Told) /\ <<>> \in Seq(Seq(Told)) /\ <<>> \in Seq(LLMCalls) OBVIOUS
<1>4. DOMAIN calls = {} BY <1>1
<1> QED BY <1>1, <1>2, <1>3, <1>4 DEF PromptsInv, PromptIs, TraceRebuildsPrompts

\* The session a run starts with.
LEMMA PrepareStep == ASSUME PromptsInv, Prepare PROVE PromptsInv'
<1>1. History \in Seq(Told)
  <2> DEFINE H == [by : {"history"}, role : {"user", "assistant", "tool"}, text : Seq(Nat), n : Nat]
  <2>1. \A m \in H : m \in Told BY DEF Told, Authors, Roles
  <2>2. History \in Seq(H) BY EventConstants DEF EventConstants
  <2> HIDE DEF H
  <2> QED BY <2>1, <2>2
<1>2. PICK input \in {<<>>, <<[by |-> "run", role |-> "user", text |-> <<1>>, n |-> 1]>>} :
          prompt' = <<SystemPrompt>> \o History \o input
  BY DEF Prepare
<1>3. input \in Seq(Told)
  <2>1. <<1>> \in Seq(Nat) /\ 1 \in Int /\ "user" \in Roles BY DEF Roles
  <2>2. Said_("user", <<1>>, 1) \in Told BY <2>1, TellIs
  <2>3. <<Said_("user", <<1>>, 1)>> \in Seq(Told) /\ <<>> \in Seq(Told) BY <2>2
  <2> QED BY <1>2, <2>3 DEF Said_
<1>4. <<SystemPrompt>> \in Seq(Told)
  <2>1. SystemPrompt \in Told BY OwnMessages
  <2> QED BY <2>1
<1>5. <<SystemPrompt>> \o History \in Seq(Told) BY <1>1, <1>4, CutInTwo
<1>6. prompt' \in Seq(Told) BY <1>2, <1>3, <1>5, CutInTwo
<1>7. run \in Turns /\ run.promptLen = 0 /\ UNCHANGED <<calls, prompts>>
      /\ run' = [run EXCEPT !.at = "loop", !.from = 1 + Len(History)]
  BY DEF PromptsInv, Prepare
<1>8. 1 + Len(History) \in Int BY <1>1
<1>9. run' \in Turns /\ run'.at = "loop" /\ run'.promptLen = 0 BY <1>7, <1>8 DEF Turns, Places
<1> QED BY <1>6, <1>7, <1>9, PromptGoesOn

\* The other steps that leave the session as it is.
LEMMA StillSteps ==
    ASSUME PromptsInv, PrepareFails \/ CtxEnds \/ LoopStops \/ FinishRun \/ LastEvent
    PROVE  PromptsInv'
<1> DEFINE Goes == \/ \E at \in {"finish", "returned", "ended"} : run' = [run EXCEPT !.at = at]
                   \/ run' = run /\ run.at # "new"
           Still == UNCHANGED <<prompt, calls, prompts>> /\ Goes
<1>1. Still
  <2>1. CASE PrepareFails BY <2>1, Zenon DEF PrepareFails
  <2>2. CASE CtxEnds BY <2>2, Zenon DEF CtxEnds
  <2>3. CASE LoopStops BY <2>3, Zenon DEF LoopStops, Fails
  <2>4. CASE FinishRun BY <2>4, Zenon DEF FinishRun
  <2>5. CASE LastEvent BY <2>5, Zenon DEF LastEvent
  <2> QED BY <2>1, <2>2, <2>3, <2>4, <2>5
<1>2. run \in Turns BY DEF PromptsInv
<1>3. CASE \E at \in {"finish", "returned", "ended"} : run' = [run EXCEPT !.at = at]
  <2>1. run' \in Turns /\ run'.at # "new" /\ run'.promptLen = run.promptLen BY <1>2, <1>3 DEF Turns, Places
  <2> QED BY <1>1, <2>1, PromptStays
<1>4. CASE run' = run /\ run.at # "new" BY <1>1, <1>2, <1>4, PromptStays
<1> QED BY <1>1, <1>3, <1>4

LEMMA LoopCompactingStep == ASSUME PromptsInv, LoopCompacting PROVE PromptsInv'
<1> DEFINE next == [run EXCEPT !.at = "call", !.compactions = @ + 1]
<1>1. CompactSession(next) /\ UNCHANGED <<calls, prompts>> BY DEF LoopCompacting
<1>2. run \in Turns BY DEF PromptsInv
<1>3. next \in Turns
  <2> DEFINE r == [run EXCEPT !.at = "call"]
             n == run.compactions + 1
  <2>1. r \in Turns /\ n \in Int BY <1>2 DEF Turns, Places
  <2>2. next = [r EXCEPT !.compactions = n] BY <1>2 DEF Turns
  <2> HIDE DEF r, n
  <2>3. [r EXCEPT !.compactions = n] \in Turns BY <2>1 DEF Turns
  <2> HIDE DEF next
  <2> QED BY <2>2, <2>3
<1>4. next.at # "new" /\ next.promptLen = run.promptLen /\ next.tail = run.tail BY <1>2 DEF Turns
<1> HIDE DEF next
<1> QED BY <1>1, <1>3, <1>4, CompactionKeeps

LEMMA CallFailsStep == ASSUME PromptsInv, CallFails PROVE PromptsInv'
<1>1. PICK err : Fails(err) BY DEF CallFails
<1>2. UNCHANGED <<prompt, calls, prompts>> BY DEF CallFails
<1> QED BY <1>1, <1>2, FailsKeeps

LEMMA CallTooLongStep == ASSUME PromptsInv, CallTooLong PROVE PromptsInv'
<1> DEFINE next == [run EXCEPT !.at = "loop", !.onError = TRUE]
<1>1. UNCHANGED <<calls, prompts>> BY DEF CallTooLong
<1>2. run \in Turns BY DEF PromptsInv
<1>3. next \in Turns BY <1>2 DEF Turns, Places
<1>4. next.at # "new" /\ next.promptLen = run.promptLen /\ next.tail = run.tail BY <1>2 DEF Turns
<1>5. CompactSession(next) \/ (Fails("llm") /\ prompt' = prompt) BY DEF CallTooLong
<1> HIDE DEF next
<1>6. CASE CompactSession(next) BY <1>1, <1>3, <1>4, <1>6, CompactionKeeps
<1>7. CASE Fails("llm") /\ prompt' = prompt BY <1>1, <1>7, FailsKeeps
<1> QED BY <1>5, <1>6, <1>7

\* The answer follows its prompt, and so do the calls for tools and their results.
LEMMA AnswerStep == ASSUME PromptsInv, Answer PROVE PromptsInv'
<1>1. PICK text \in Texts : prompt' = Append(prompt, Said_("assistant", text, NextNumber))
  BY Zenon DEF Answer
<1>2. run' = [run EXCEPT !.at = "finish", !.onError = FALSE] /\ UNCHANGED <<calls, prompts>>
  BY Zenon DEF Answer
<1>3. prompt \in Seq(Told) /\ run \in Turns BY DEF PromptsInv
<1>4. NextNumber \in Int BY <1>3 DEF NextNumber, Turns
<1> DEFINE m == Said_("assistant", text, NextNumber)
<1>5. m \in Told
  <2>1. text \in Seq(Nat) BY EventConstants DEF EventConstants
  <2>2. "assistant" \in Roles BY DEF Roles
  <2> QED BY <1>4, <2>1, <2>2, TellIs
<1>6. run' \in Turns /\ run'.at # "new" /\ run'.promptLen = run.promptLen BY <1>2, <1>3 DEF Turns, Places
<1> HIDE DEF m
<1>7. prompt' = prompt \o <<m>> /\ <<m>> \in Seq(Told)
  <2>1. prompt' = Append(prompt, m) BY <1>1 DEF m
  <2> QED BY <1>3, <1>5, <2>1
<1>8. prompt' \in Seq(Told) BY <1>3, <1>7, CutInTwo
<1> QED BY <1>2, <1>6, <1>7, <1>8, PromptGoesOn

LEMMA CallsForToolsStep == ASSUME PromptsInv, CallsForTools PROVE PromptsInv'
<1>1. /\ \E text \in Texts :
             prompt' = prompt \o <<Said_("assistant", text, NextNumber)>>
                           \o [i \in 1 .. RoundCalls |-> Said_("tool", <<i>>, NextNumber + i)]
      /\ \/ run' = [run EXCEPT !.at = "loop", !.onError = FALSE, !.rounds = @ + 1]
         \/ run' = [run EXCEPT !.at = "finish", !.onError = FALSE]
      /\ UNCHANGED <<calls, prompts>>
  BY Zenon DEF CallsForTools
<1>2. prompt \in Seq(Told) /\ run \in Turns BY DEF PromptsInv
<1>3. NextNumber \in Int BY <1>2 DEF NextNumber, Turns
<1>4. PICK text \in Texts :
          prompt' = prompt \o <<Said_("assistant", text, NextNumber)>>
                        \o [i \in 1 .. RoundCalls |-> Said_("tool", <<i>>, NextNumber + i)]
  BY <1>1
<1> DEFINE m == <<Said_("assistant", text, NextNumber)>>
           results == [i \in 1 .. RoundCalls |-> Said_("tool", <<i>>, NextNumber + i)]
<1>5. m \in Seq(Told)
  <2>1. text \in Seq(Nat) BY EventConstants DEF EventConstants
  <2>2. "assistant" \in Roles BY DEF Roles
  <2>3. Said_("assistant", text, NextNumber) \in Told BY <1>3, <2>1, <2>2, TellIs
  <2> QED BY <2>3
<1>6. results \in Seq(Told)
  <2>1. "tool" \in Roles /\ RoundCalls \in Nat BY EventConstants DEF Roles, EventConstants
  <2>2. ASSUME NEW i \in 1 .. RoundCalls PROVE Said_("tool", <<i>>, NextNumber + i) \in Told
    <3>1. i \in Nat /\ <<i>> \in Seq(Nat) BY <2>1
    <3>2. NextNumber + i \in Int BY <1>3, <3>1
    <3> QED BY <2>1, <3>1, <3>2, TellIs
  <2>3. results \in [1 .. RoundCalls -> Told] BY <2>2
  <2> QED BY <2>1, <2>3
<1> HIDE DEF m, results
<1>7. prompt' = (prompt \o m) \o results BY <1>4 DEF m, results
<1>8. m \o results \in Seq(Told) BY <1>5, <1>6, CutInTwo
<1>9. (prompt \o m) \o results = prompt \o (m \o results) BY <1>2, <1>5, <1>6, ConcatThree
<1>10. prompt' = prompt \o (m \o results) BY <1>7, <1>9
<1>11. prompt' \in Seq(Told) BY <1>2, <1>8, <1>10, CutInTwo
<1>12. run' \in Turns /\ run'.at # "new" /\ run'.promptLen = run.promptLen
  <2>1. CASE run' = [run EXCEPT !.at = "finish", !.onError = FALSE] BY <1>2, <2>1 DEF Turns, Places
  <2>2. CASE run' = [run EXCEPT !.at = "loop", !.onError = FALSE, !.rounds = @ + 1]
    <3> DEFINE r == [run EXCEPT !.at = "loop", !.onError = FALSE]
               n == run.rounds + 1
    <3>0. r \in Turns BY <1>2 DEF Turns, Places
    <3>1. r \in Turns /\ n \in Int BY <1>2, <3>0 DEF Turns
    <3>2. run' = [r EXCEPT !.rounds = n] BY <1>2, <2>2 DEF Turns
    <3>3. r.at = "loop" /\ r.promptLen = run.promptLen BY <1>2 DEF Turns
    <3> HIDE DEF r, n
    <3>4. [r EXCEPT !.rounds = n] \in Turns BY <3>1 DEF Turns
    <3>5. run'.at = r.at /\ run'.promptLen = r.promptLen BY <3>1, <3>2 DEF Turns
    <3> QED BY <3>2, <3>3, <3>4, <3>5
  <2> QED BY <1>1, <2>1, <2>2
<1> QED BY <1>1, <1>8, <1>10, <1>11, <1>12, PromptGoesOn

LEMMA EventSteps == PromptsInv /\ [EventsNext]_eventVars => PromptsInv'
<1> SUFFICES ASSUME PromptsInv, [EventsNext]_eventVars PROVE PromptsInv' OBVIOUS
<1>1. CASE Prepare BY <1>1, PrepareStep
<1>2. CASE PrepareFails \/ CtxEnds \/ LoopStops \/ FinishRun \/ LastEvent BY <1>2, StillSteps
<1>3. CASE LoopCompacting BY <1>3, LoopCompactingStep
<1>4. CASE StartCall BY <1>4, StartCallStep
<1>5. CASE CallFails BY <1>5, CallFailsStep
<1>6. CASE CallTooLong BY <1>6, CallTooLongStep
<1>7. CASE Answer BY <1>7, AnswerStep
<1>8. CASE CallsForTools BY <1>8, CallsForToolsStep
<1>9. CASE UNCHANGED eventVars
  <2>1. UNCHANGED <<run, prompt, calls, prompts>> BY <1>9 DEF eventVars
  <2> QED BY <2>1 DEF PromptsInv, PromptIs, TraceRebuildsPrompts
<1> QED BY <1>1, <1>2, <1>3, <1>4, <1>5, <1>6, <1>7, <1>8, <1>9 DEF EventsNext

\* The calls a run records give back their prompts (startLLMCall, agent/llmcall.go): with
\* any history, any answers and tool calls, any compactions at the threshold or on an
\* error, which may fail, and a context that ends at any moment.
THEOREM PromptsAreRebuilt == EventsSpec => []TraceRebuildsPrompts
<1>1. EventsInit => PromptsInv BY EventsStart
<1>2. PromptsInv /\ [EventsNext]_eventVars => PromptsInv' BY EventSteps
<1>3. PromptsInv => TraceRebuildsPrompts BY DEF PromptsInv
<1> QED BY <1>1, <1>2, <1>3, PTL DEF EventsSpec

-----------------------------------------------------------------------------
(* The events of a run.                                                     *)

\* The last iteration whose answer may have been told.
Latest == IF run.at = "calling" THEN run.iteration - 1 ELSE run.iteration

\* Events of an iteration are told after its call, and those of a compaction before it.
EventIs(e, latest) ==
    \/ e.type \in {"delta", "usage", "toolCall", "toolResult"} /\ e.iteration \in 0 .. latest
    \/ e.type \in {"compactionStart", "compactionEnd"} /\ e.iteration \in 0 .. latest + 1

Sorted == \A p, q \in DOMAIN seen : p < q => seen[p].iteration <= seen[q].iteration

OwnAnswer(m) == m.by = "run" /\ m.role = "assistant"

AnswersInv ==
    \A i \in DOMAIN prompt :
        OwnAnswer(prompt[i]) =>
            \E k \in 1 .. Latest, first \in 0 .. Len(seen) :
                /\ prompt[i].n = k * 10
                /\ EventsOf("delta", k) = first + 1 .. first + Len(prompt[i].text)
                /\ \A j \in DOMAIN prompt[i].text : seen[first + j].text = prompt[i].text[j]

\* Both are events of one call of a tool.
Answers(e, type, other) == other.type = type /\ other.iteration = e.iteration /\ other.id = e.id

RoundsInv ==
    \A p \in DOMAIN seen :
        /\ seen[p].type = "toolCall" => \E q \in DOMAIN seen : Answers(seen[p], "toolResult", seen[q])
        /\ seen[p].type = "toolResult" => \E q \in DOMAIN seen : Answers(seen[p], "toolCall", seen[q])

\* A compaction that starts ends at once.
StartsEnd ==
    \A p \in DOMAIN seen :
        seen[p].type = "compactionStart" =>
            /\ p + 1 \in DOMAIN seen /\ seen[p + 1].type = "compactionEnd"
            /\ seen[p + 1].failed => run.at \in {"finish", "returned", "ended"}

\* The last compaction before a call told the size of its prompt, and before the next call
\* that of the session.
LastEnd(p) ==
    /\ seen[p].type = "compactionEnd"
    /\ \A q \in EventsOf("compactionEnd", seen[p].iteration) : q <= p

SizesAreTold ==
    \A p \in DOMAIN seen :
        LastEnd(p) /\ seen[p].iteration \in DOMAIN prompts =>
            seen[p].after = Len(prompts[seen[p].iteration])

SizeIsTold ==
    run.at \in {"loop", "call"} =>
        \A p \in DOMAIN seen :
            LastEnd(p) /\ seen[p].iteration = run.iteration + 1 => seen[p].after = Len(prompt)

ToldSoFar == AnswersInv /\ RoundsInv /\ StartsEnd /\ SizesAreTold /\ SizeIsTold

EventsInv ==
    /\ PromptsInv
    /\ run.iteration \in Nat /\ Len(prompts) = run.iteration
    /\ run.at = "calling" => run.iteration > 0
    /\ run.at = "new" => seen = <<>>
    /\ seen \in Seq(ToSet(seen))
    /\ run.at # "ended" => Sorted /\ \A p \in DOMAIN seen : EventIs(seen[p], Latest)
    /\ EventsInOrder
    /\ Listened => ToldSoFar
    /\ Listened /\ run.at = "ended" => EndEvents = {Len(seen)}
    /\ \A p \in EndEvents : seen[p].result = outcome.parts

\* What a step tells: the first n of these events, and all of them to one that listens.
Tells(events, n) ==
    /\ n \in 0 .. Len(events) /\ Len(events) \in Nat
    /\ seen' \in Seq(ToSet(seen)')
    /\ Len(seen') = Len(seen) + n /\ Len(seen) \in Nat
    /\ DOMAIN seen = 1 .. Len(seen) /\ DOMAIN seen' = 1 .. Len(seen')
    /\ \A p \in 1 .. Len(seen) : seen'[p] = seen[p]
    /\ \A p \in 1 .. n : seen'[Len(seen) + p] = events[p]
    /\ Listened' => Listened /\ n = Len(events)

LEMMA ToldSeq ==
    ASSUME NEW S, NEW s \in Seq(S)
    PROVE  s \in Seq(ToSet(s))
<1>1. s \in [1 .. Len(s) -> ToSet(s)] /\ Len(s) \in Nat BY DEF ToSet
<1> QED BY <1>1

LEMMA YieldTells ==
    ASSUME seen \in Seq(ToSet(seen)), NEW S, NEW events \in Seq(S), Yield(events)
    PROVE  \E n \in 0 .. Len(events) : Tells(events, n)
<1> DEFINE A == ToSet(seen) \cup S
<1>1. seen \in Seq(A) /\ events \in Seq(A)
  <2> DEFINE T == ToSet(seen)
  <2>1. seen \in Seq(T) OBVIOUS
  <2> HIDE DEF T
  <2> QED BY <2>1 DEF T
<1>2. /\ Len(seen) \in Nat /\ Len(events) \in Nat /\ DOMAIN seen = 1 .. Len(seen)
      /\ DOMAIN events = 1 .. Len(events)
  BY <1>1
<1> HIDE DEF A
<1>3. ASSUME NEW n \in 0 .. Len(events), NEW more \in Seq(A), Len(more) = n,
             \A p \in 1 .. n : more[p] = events[p], seen' = seen \o more,
             Listened' => Listened /\ n = Len(events)
      PROVE  Tells(events, n)
  <2>1. /\ seen' \in Seq(A) /\ Len(seen') = Len(seen) + Len(more)
        /\ \A i \in 1 .. Len(seen) + Len(more) :
               seen'[i] = IF i <= Len(seen) THEN seen[i] ELSE more[i - Len(seen)]
    <3>1. /\ seen \o more \in Seq(A) /\ Len(seen \o more) = Len(seen) + Len(more)
          /\ \A i \in 1 .. Len(seen) + Len(more) :
                 (seen \o more)[i] = IF i <= Len(seen) THEN seen[i] ELSE more[i - Len(seen)]
      BY <1>1, ConcatProperties
    <3> QED BY <1>3, <3>1
  <2>0. n \in Nat /\ n <= Len(events) /\ Len(more) = n /\ \A p \in 1 .. n : more[p] = events[p]
    <3>1. n \in Nat /\ n <= Len(events) BY <1>2
    <3>2. Len(more) = n /\ \A p \in 1 .. n : more[p] = events[p] BY <1>3
    <3> QED BY <3>1, <3>2
  <2>2. seen' \in Seq(ToSet(seen')) BY <2>1, ToldSeq
  <2>3. DOMAIN seen' = 1 .. Len(seen') BY <2>1
  <2>4. \A p \in 1 .. Len(seen) : seen'[p] = seen[p]
    <3> SUFFICES ASSUME NEW p \in 1 .. Len(seen) PROVE seen'[p] = seen[p] OBVIOUS
    <3>1. p \in 1 .. Len(seen) + Len(more) /\ p <= Len(seen) BY <1>2, <2>0
    <3> QED BY <2>1, <3>1
  <2>5. \A p \in 1 .. n : seen'[Len(seen) + p] = events[p]
    <3> SUFFICES ASSUME NEW p \in 1 .. n PROVE seen'[Len(seen) + p] = events[p] OBVIOUS
    <3>1. Len(seen) + p \in 1 .. Len(seen) + Len(more) /\ ~(Len(seen) + p <= Len(seen))
          /\ (Len(seen) + p) - Len(seen) = p
      BY <1>2, <2>0
    <3>2. seen'[Len(seen) + p] = more[p] BY <2>1, <3>1
    <3> QED BY <2>0, <3>2
  <2>6. ToSet(seen)' = ToSet(seen') BY DEF ToSet
  <2> QED BY <1>2, <1>3, <2>0, <2>1, <2>2, <2>3, <2>4, <2>5, <2>6 DEF Tells
<1>4. CASE consumer # "listens" /\ UNCHANGED <<seen, consumer>>
  <2>1. <<>> \in Seq(A) /\ Len(<<>>) = 0 /\ 0 \in 0 .. Len(events) BY <1>2
  <2>2. seen' = seen \o <<>> BY <1>1, <1>4, ConcatEmptySeq
  <2>3. ~Listened' BY <1>4 DEF Listened
  <2>4. \A p \in 1 .. 0 : <<>>[p] = events[p] OBVIOUS
  <2>5. Tells(events, 0) BY ONLY <1>3, <2>1, <2>2, <2>3, <2>4
  <2> QED BY <2>1, <2>5
<1>5. CASE consumer = "listens" /\ seen' = seen \o events /\ UNCHANGED consumer
  <2>1. Len(events) \in 0 .. Len(events) BY <1>2
  <2>2. Tells(events, Len(events)) BY <1>1, <1>3, <1>5, <2>1 DEF Listened
  <2> QED BY <2>1, <2>2
<1>6. CASE /\ consumer = "listens" /\ consumer' = "stopped"
           /\ \E n \in DOMAIN events : seen' = seen \o SubSeq(events, 1, n)
  <2>1. PICK n \in DOMAIN events : seen' = seen \o SubSeq(events, 1, n) BY <1>6
  <2>2. n \in 1 .. Len(events) /\ \A i \in 1 .. n : events[i] \in A BY <1>1, <1>2
  <2> DEFINE more == SubSeq(events, 1, n)
  <2>3. /\ more \in Seq(A) /\ Len(more) = n /\ \A i \in 1 .. n : more[i] = events[i]
    <3>1. /\ more \in Seq(A) /\ Len(more) = (IF 1 <= n THEN n - 1 + 1 ELSE 0)
          /\ \A i \in 1 .. n - 1 + 1 : more[i] = events[1 + i - 1]
      BY <2>2, SubSeqProperties
    <3> HIDE DEF more
    <3> QED BY <1>2, <2>2, <3>1
  <2> HIDE DEF more
  <2>4. ~Listened' BY <1>6 DEF Listened
  <2>5. seen' = seen \o more BY <2>1 DEF more
  <2>6. n \in 0 .. Len(events) BY <2>2
  <2>7. Tells(events, n) BY ONLY <1>3, <2>3, <2>4, <2>5, <2>6
  <2> QED BY <2>6, <2>7
<1> QED BY <1>4, <1>5, <1>6 DEF Yield

\* A step that tells nothing.
LEMMA SilenceTells ==
    ASSUME seen \in Seq(ToSet(seen)), UNCHANGED <<seen, consumer>>
    PROVE  Tells(<<>>, 0)
<1> DEFINE T == ToSet(seen)
<1>1. seen \in Seq(T) OBVIOUS
<1> HIDE DEF T
<1>2. Len(seen) \in Nat /\ DOMAIN seen = 1 .. Len(seen) BY <1>1
<1>3. seen' \in Seq(ToSet(seen)') BY DEF ToSet
<1> QED BY <1>2, <1>3 DEF Tells, Listened

-----------------------------------------------------------------------------
(* What stays true as more is told.                                         *)

LEMMA LatestIs ==
    ASSUME EventsInv
    PROVE  /\ Latest \in Nat /\ run.iteration \in Nat
           /\ run.at = "calling" => Latest + 1 = run.iteration
           /\ run.at # "calling" => Latest = run.iteration
           /\ Len(seen) \in Nat /\ DOMAIN seen = 1 .. Len(seen)
<1>1. Len(seen) \in Nat /\ DOMAIN seen = 1 .. Len(seen)
  <2> DEFINE T == ToSet(seen)
  <2>1. seen \in Seq(T) BY DEF EventsInv
  <2> HIDE DEF T
  <2> QED BY <2>1
<1> QED BY <1>1 DEF EventsInv, Latest

\* An event there is after the step is one there was, or one that is told now.
LEMMA OldOrNew ==
    ASSUME NEW events, NEW n, Tells(events, n), NEW p \in DOMAIN seen'
    PROVE  \/ p \in 1 .. Len(seen) /\ p \in DOMAIN seen /\ seen'[p] = seen[p]
           \/ \E i \in 1 .. n : p = Len(seen) + i /\ seen'[p] = events[i] /\ i \in 1 .. Len(events)
<1>1. p \in Nat /\ p >= 1 /\ p <= Len(seen) + n /\ n \in Nat /\ n <= Len(events) /\ Len(seen) \in Nat
  BY DEF Tells
<1>2. CASE p <= Len(seen)
  <2>1. p \in 1 .. Len(seen) BY <1>1, <1>2
  <2> QED BY <2>1 DEF Tells
<1>3. CASE p > Len(seen)
  <2>1. p - Len(seen) \in 1 .. n /\ p = Len(seen) + (p - Len(seen)) /\ p - Len(seen) \in 1 .. Len(events)
    BY <1>1, <1>3 DEF Tells
  <2>2. seen'[Len(seen) + (p - Len(seen))] = events[p - Len(seen)] BY <2>1 DEF Tells
  <2> QED BY <2>1, <2>2
<1> QED BY <1>1, <1>2, <1>3

LEMMA OldStays ==
    ASSUME NEW events, NEW n, Tells(events, n), NEW p \in DOMAIN seen
    PROVE  p \in DOMAIN seen' /\ seen'[p] = seen[p]
BY DEF Tells

LEMMA NewIsTold ==
    ASSUME NEW events, NEW n, Tells(events, n), NEW i \in 1 .. n
    PROVE  Len(seen) + i \in DOMAIN seen' /\ seen'[Len(seen) + i] = events[i]
BY DEF Tells

\* The events of a step are of what follows.
Follows(events) ==
    /\ \A i \in 1 .. Len(events) : events[i].iteration \in Int /\ events[i].iteration > Latest
    /\ \A i, j \in 1 .. Len(events) :
           /\ i < j => events[i].iteration <= events[j].iteration
           /\ events[i].type = "toolCall" /\ events[j].type = "toolResult" => i < j

LEMMA TypesKept ==
    ASSUME EventsInv, run.at # "ended", NEW events, NEW n, Tells(events, n),
           NEW latest \in Int, latest >= Latest,
           \A i \in 1 .. Len(events) : EventIs(events[i], latest)
    PROVE  \A p \in DOMAIN seen' : EventIs(seen'[p], latest)
<1> SUFFICES ASSUME NEW p \in DOMAIN seen' PROVE EventIs(seen'[p], latest) OBVIOUS
<1>1. CASE p \in DOMAIN seen /\ seen'[p] = seen[p]
  <2>1. EventIs(seen[p], Latest) BY <1>1 DEF EventsInv
  <2>2. Latest \in Nat BY LatestIs
  <2>3. EventIs(seen[p], latest) BY <2>1, <2>2 DEF EventIs
  <2> QED BY <1>1, <2>3
<1>2. CASE \E i \in 1 .. Len(events) : seen'[p] = events[i] BY <1>2
<1> QED BY <1>1, <1>2, OldOrNew

LEMMA OrderKept ==
    ASSUME EventsInv, run.at # "ended", NEW events, NEW n, Tells(events, n), Follows(events)
    PROVE  Sorted' /\ EventsInOrder'
<1>1. /\ Latest \in Nat /\ Len(seen) \in Nat /\ DOMAIN seen = 1 .. Len(seen)
      /\ \A p \in DOMAIN seen : EventIs(seen[p], Latest)
  BY LatestIs DEF EventsInv
<1>2. \A p \in DOMAIN seen : seen[p].iteration \in Int /\ seen[p].iteration <= Latest + 1
  BY <1>1 DEF EventIs
<1>3. \A p \in DOMAIN seen : seen[p].type \in {"toolCall", "toolResult"} => seen[p].iteration <= Latest
  BY <1>1 DEF EventIs
<1>4. \A i \in 1 .. Len(events) : events[i].iteration \in Int /\ events[i].iteration >= Latest + 1
  BY <1>1 DEF Follows
<1>5. ASSUME NEW p \in DOMAIN seen', NEW q \in DOMAIN seen'
      PROVE  /\ p < q => seen'[p].iteration <= seen'[q].iteration
             /\ seen'[p].type = "toolCall" /\ seen'[q].type = "toolResult"
                    /\ seen'[p].iteration = seen'[q].iteration => p < q
  <2>1. CASE p \in DOMAIN seen /\ seen'[p] = seen[p] /\ q \in DOMAIN seen /\ seen'[q] = seen[q]
    <3>1. Sorted /\ EventsInOrder BY DEF EventsInv
    <3> QED BY <2>1, <3>1 DEF Sorted, EventsInOrder
  <2>2. CASE /\ p \in DOMAIN seen /\ seen'[p] = seen[p]
             /\ \E i \in 1 .. n : q = Len(seen) + i /\ seen'[q] = events[i] /\ i \in 1 .. Len(events)
    BY <1>1, <1>2, <1>4, <2>2
  <2>3. CASE /\ q \in DOMAIN seen /\ seen'[q] = seen[q]
             /\ \E i \in 1 .. n : p = Len(seen) + i /\ seen'[p] = events[i] /\ i \in 1 .. Len(events)
    BY <1>1, <1>3, <1>4, <2>3
  <2>4. CASE /\ \E i \in 1 .. n : p = Len(seen) + i /\ seen'[p] = events[i] /\ i \in 1 .. Len(events)
             /\ \E i \in 1 .. n : q = Len(seen) + i /\ seen'[q] = events[i] /\ i \in 1 .. Len(events)
    <3>1. PICK i \in 1 .. n : p = Len(seen) + i /\ seen'[p] = events[i] /\ i \in 1 .. Len(events) BY <2>4
    <3>2. PICK j \in 1 .. n : q = Len(seen) + j /\ seen'[q] = events[j] /\ j \in 1 .. Len(events) BY <2>4
    <3>3. p < q <=> i < j BY <1>1, <3>1, <3>2
    <3> QED BY <3>1, <3>2, <3>3 DEF Follows
  <2> QED BY <2>1, <2>2, <2>3, <2>4, OldOrNew
<1> QED BY <1>5 DEF Sorted, EventsInOrder

\* The calls and the results of a round are told together.
LEMMA RoundsKept ==
    ASSUME RoundsInv, NEW events, NEW n, Tells(events, n), n = Len(events),
           \A i \in 1 .. Len(events) :
               /\ events[i].type = "toolCall" =>
                      \E j \in 1 .. Len(events) : Answers(events[i], "toolResult", events[j])
               /\ events[i].type = "toolResult" =>
                      \E j \in 1 .. Len(events) : Answers(events[i], "toolCall", events[j])
    PROVE  RoundsInv'
<1>1. ASSUME NEW p \in DOMAIN seen'
      PROVE  /\ seen'[p].type = "toolCall" =>
                    \E q \in DOMAIN seen' : Answers(seen'[p], "toolResult", seen'[q])
             /\ seen'[p].type = "toolResult" =>
                    \E q \in DOMAIN seen' : Answers(seen'[p], "toolCall", seen'[q])
  <2>1. CASE p \in DOMAIN seen /\ seen'[p] = seen[p] BY <2>1, OldStays DEF RoundsInv
  <2>2. CASE \E i \in 1 .. n : seen'[p] = events[i]
    <3>1. PICK i \in 1 .. Len(events) : seen'[p] = events[i] BY <2>2
    <3>2. \A j \in 1 .. Len(events) : Len(seen) + j \in DOMAIN seen' /\ seen'[Len(seen) + j] = events[j]
      BY NewIsTold
    <3>3. ASSUME NEW type, NEW j \in 1 .. Len(events), Answers(events[i], type, events[j])
          PROVE  \E q \in DOMAIN seen' : Answers(seen'[p], type, seen'[q])
      BY <3>1, <3>2, <3>3
    <3> QED BY <3>1, <3>3
  <2> QED BY <2>1, <2>2, OldOrNew
<1>2. \A p \in DOMAIN seen' :
          /\ seen'[p].type = "toolCall" =>
                 \E q \in DOMAIN seen' : Answers(seen'[p], "toolResult", seen'[q])
          /\ seen'[p].type = "toolResult" =>
                 \E q \in DOMAIN seen' : Answers(seen'[p], "toolCall", seen'[q])
  BY <1>1
<1> QED BY <1>2 DEF RoundsInv, Answers

LEMMA NextPlace ==
    ASSUME NEW before \in Nat, NEW n \in Nat, NEW i \in 1 .. n, NEW p, p = before + i
    PROVE  p + 1 = before + (i + 1)
OBVIOUS

LEMMA StartsKept ==
    ASSUME StartsEnd, NEW events, NEW n, Tells(events, n), n = Len(events),
           run.at \in {"finish", "returned", "ended"} => run'.at \in {"finish", "returned", "ended"},
           \A i \in 1 .. Len(events) :
               events[i].type = "compactionStart" =>
                   /\ i + 1 \in 1 .. Len(events) /\ events[i + 1].type = "compactionEnd"
                   /\ events[i + 1].failed => run'.at \in {"finish", "returned", "ended"}
    PROVE  StartsEnd'
<1>1. ASSUME NEW p \in DOMAIN seen', seen'[p].type = "compactionStart"
      PROVE  /\ p + 1 \in DOMAIN seen' /\ seen'[p + 1].type = "compactionEnd"
             /\ seen'[p + 1].failed => run'.at \in {"finish", "returned", "ended"}
  <2>1. CASE p \in DOMAIN seen /\ seen'[p] = seen[p]
    <3>1. /\ p + 1 \in DOMAIN seen /\ seen[p + 1].type = "compactionEnd"
          /\ seen[p + 1].failed => run.at \in {"finish", "returned", "ended"}
      BY <1>1, <2>1 DEF StartsEnd
    <3>2. p + 1 \in DOMAIN seen' /\ seen'[p + 1] = seen[p + 1] BY <3>1, OldStays
    <3> QED BY <3>1, <3>2
  <2>2. CASE \E i \in 1 .. n : p = Len(seen) + i /\ seen'[p] = events[i] /\ i \in 1 .. Len(events)
    <3>0. Len(seen) \in Nat /\ Len(events) \in Nat BY DEF Tells
    <3>1. PICK i \in 1 .. Len(events) : p = Len(seen) + i /\ seen'[p] = events[i] BY <2>2
    <3>2. /\ i + 1 \in 1 .. Len(events) /\ events[i + 1].type = "compactionEnd"
          /\ events[i + 1].failed => run'.at \in {"finish", "returned", "ended"}
      BY <1>1, <3>1
    <3>3. Len(seen) + (i + 1) \in DOMAIN seen' /\ seen'[Len(seen) + (i + 1)] = events[i + 1]
      <4>1. i + 1 \in 1 .. n BY <3>2
      <4> QED BY <4>1, NewIsTold
    <3>4. p + 1 = Len(seen) + (i + 1) BY <3>0, <3>1, NextPlace
    <3> QED BY <3>2, <3>3, <3>4
  <2> QED BY <2>1, <2>2, OldOrNew
<1> QED BY <1>1 DEF StartsEnd

\* Of the old events, the last end of a compaction is one that was before.
LEMMA LastEndWas ==
    ASSUME NEW events, NEW n, Tells(events, n), NEW p \in DOMAIN seen, LastEnd(p)'
    PROVE  LastEnd(p)
<1>1. /\ seen'[p].type = "compactionEnd" /\ seen'[p] = seen[p]
      /\ \A q \in DOMAIN seen' :
             seen'[q].type = "compactionEnd" /\ seen'[q].iteration = seen'[p].iteration => q <= p
  BY OldStays DEF LastEnd, EventsOf
<1>2. \A q \in DOMAIN seen :
          seen[q].type = "compactionEnd" /\ seen[q].iteration = seen[p].iteration => q <= p
  BY <1>1, OldStays
<1> QED BY <1>1, <1>2 DEF LastEnd, EventsOf

\* A step that tells of no compaction.
LEMMA SizesKept ==
    ASSUME SizesAreTold, NEW events, NEW n, Tells(events, n), prompts' = prompts,
           \A i \in 1 .. Len(events) : events[i].type # "compactionEnd"
    PROVE  SizesAreTold'
<1>1. ASSUME NEW p \in DOMAIN seen', LastEnd(p)', seen'[p].iteration \in DOMAIN prompts
      PROVE  seen'[p].after = Len(prompts[seen'[p].iteration])
  <2>1. seen'[p].type = "compactionEnd" BY <1>1 DEF LastEnd
  <2>2. p \in DOMAIN seen /\ seen'[p] = seen[p] BY <2>1, OldOrNew
  <2>3. LastEnd(p) BY <1>1, <2>2, LastEndWas
  <2> QED BY <1>1, <2>2, <2>3 DEF SizesAreTold
<1> QED BY <1>1 DEF SizesAreTold

LEMMA SizeKept ==
    ASSUME EventsInv, run.at # "ended", SizeIsTold, NEW events, NEW n, Tells(events, n),
           \A i \in 1 .. Len(events) : events[i].type # "compactionEnd",
           \/ run'.at \notin {"loop", "call"}
           \/ run.at \in {"loop", "call"} /\ run'.iteration = run.iteration /\ prompt' = prompt
           \/ run.at = "calling" /\ run'.iteration = run.iteration
    PROVE  SizeIsTold'
<1>1. ASSUME NEW p \in DOMAIN seen', LastEnd(p)', seen'[p].iteration = run'.iteration + 1,
             run'.at \in {"loop", "call"}
      PROVE  seen'[p].after = Len(prompt')
  <2>1. seen'[p].type = "compactionEnd" BY <1>1 DEF LastEnd
  <2>2. p \in DOMAIN seen /\ seen'[p] = seen[p] BY <2>1, OldOrNew
  <2>3. LastEnd(p) BY <1>1, <2>2, LastEndWas
  <2>4. EventIs(seen[p], Latest) BY <2>2 DEF EventsInv
  <2>5. ~(run.at = "calling" /\ run'.iteration = run.iteration)
    BY <1>1, <2>2, <2>4, LatestIs DEF EventIs
  <2> QED BY <1>1, <2>2, <2>3, <2>5 DEF SizeIsTold
<1> QED BY <1>1 DEF SizeIsTold

\* The events begin with the deltas of an answer to the k-th call, and have no other.
TellsOf(events, m, k) ==
    /\ m.n = k * 10
    /\ \E size \in 0 .. Len(events) :
           /\ DOMAIN m.text = 1 .. size /\ Len(m.text) = size
           /\ \A j \in 1 .. Len(events) :
                  events[j].type = "delta" /\ events[j].iteration = k <=> j <= size
           /\ \A j \in 1 .. size : events[j].text = m.text[j]

\* The deltas that are told are of a later iteration than any answer of the session, and
\* the answers that come to it are told by them.
LEMMA AnswersKept ==
    ASSUME EventsInv, AnswersInv, NEW events, NEW n, Tells(events, n), n = Len(events),
           NEW latest \in Int, latest = Latest', latest >= Latest,
           \A i \in 1 .. Len(events) : events[i].type = "delta" => events[i].iteration > Latest,
           \A i \in DOMAIN prompt' : OwnAnswer(prompt'[i]) =>
               \/ \E j \in DOMAIN prompt : prompt[j] = prompt'[i]
               \/ \E k \in Latest + 1 .. latest : TellsOf(events, prompt'[i], k),
           run.at # "ended"
    PROVE  AnswersInv'
<1>0. /\ Latest \in Nat /\ Len(seen) \in Nat /\ DOMAIN seen = 1 .. Len(seen) /\ Len(events) \in Nat
      /\ Len(seen') = Len(seen) + Len(events) /\ DOMAIN seen' = 1 .. Len(seen')
  BY LatestIs DEF Tells
<1>1. ASSUME NEW m, NEW k \in 1 .. Latest, NEW first \in 0 .. Len(seen), m.n = k * 10,
             EventsOf("delta", k) = first + 1 .. first + Len(m.text),
             \A j \in DOMAIN m.text : seen[first + j].text = m.text[j],
             Len(m.text) \in Nat, DOMAIN m.text = 1 .. Len(m.text)
      PROVE  /\ k \in 1 .. latest /\ first \in 0 .. Len(seen')
             /\ EventsOf("delta", k)' = first + 1 .. first + Len(m.text)
             /\ \A j \in DOMAIN m.text : seen'[first + j].text = m.text[j]
  <2>1. k \in 1 .. latest /\ first \in 0 .. Len(seen') BY <1>0
  <2>2. ASSUME NEW p \in DOMAIN seen', seen'[p].type = "delta", seen'[p].iteration = k
        PROVE  p \in EventsOf("delta", k)
    <3>1. CASE p \in DOMAIN seen /\ seen'[p] = seen[p] BY <2>2, <3>1 DEF EventsOf
    <3>2. CASE \E i \in 1 .. Len(events) : seen'[p] = events[i] BY <1>0, <2>2, <3>2
    <3> QED BY <3>1, <3>2, OldOrNew
  <2>3. \A p \in EventsOf("delta", k) :
            p \in DOMAIN seen /\ p \in DOMAIN seen' /\ seen'[p].type = "delta" /\ seen'[p].iteration = k
    BY OldStays DEF EventsOf
  <2>4. EventsOf("delta", k)' = EventsOf("delta", k) BY <2>2, <2>3 DEF EventsOf
  <2>5. ASSUME NEW j \in DOMAIN m.text PROVE seen'[first + j].text = m.text[j]
    <3>1. first + j \in first + 1 .. first + Len(m.text) BY <1>0, <1>1
    <3>2. seen'[first + j] = seen[first + j] BY <1>1, <2>3, <3>1, OldStays
    <3> QED BY <1>1, <3>2
  <2> QED BY <1>1, <2>1, <2>4, <2>5
<1>2. ASSUME NEW m, NEW k \in Latest + 1 .. latest, NEW size \in 0 .. Len(events),
             DOMAIN m.text = 1 .. size, Len(m.text) = size,
             \A j \in 1 .. Len(events) :
                 events[j].type = "delta" /\ events[j].iteration = k <=> j <= size,
             \A j \in 1 .. size : events[j].text = m.text[j]
      PROVE  /\ k \in 1 .. latest /\ Len(seen) \in 0 .. Len(seen')
             /\ EventsOf("delta", k)' = Len(seen) + 1 .. Len(seen) + Len(m.text)
             /\ \A j \in DOMAIN m.text : seen'[Len(seen) + j].text = m.text[j]
  <2>1. k \in 1 .. latest /\ Len(seen) \in 0 .. Len(seen') BY <1>0
  <2>2. ASSUME NEW p \in DOMAIN seen', seen'[p].type = "delta", seen'[p].iteration = k
        PROVE  p \in Len(seen) + 1 .. Len(seen) + size
    <3>1. CASE p \in DOMAIN seen /\ seen'[p] = seen[p]
      <4>1. EventIs(seen[p], Latest) BY <3>1 DEF EventsInv
      <4> QED BY <1>0, <2>2, <3>1, <4>1 DEF EventIs
    <3>2. CASE \E i \in 1 .. Len(events) : p = Len(seen) + i /\ seen'[p] = events[i]
      BY <1>0, <1>2, <2>2, <3>2
    <3> QED BY <3>1, <3>2, OldOrNew
  <2>3. ASSUME NEW p \in Len(seen) + 1 .. Len(seen) + size
        PROVE  p \in DOMAIN seen' /\ seen'[p].type = "delta" /\ seen'[p].iteration = k
    <3> DEFINE i == p - Len(seen)
    <3>1. i \in 1 .. n /\ i <= size /\ p = Len(seen) + i BY <1>0
    <3> HIDE DEF i
    <3>2. p \in DOMAIN seen' /\ seen'[p] = events[i] BY <3>1, NewIsTold
    <3> QED BY <1>2, <3>1, <3>2
  <2>4. EventsOf("delta", k)' = Len(seen) + 1 .. Len(seen) + size BY <2>2, <2>3 DEF EventsOf
  <2>5. ASSUME NEW j \in 1 .. size PROVE seen'[Len(seen) + j].text = m.text[j]
    <3>1. j \in 1 .. n BY <1>0
    <3>2. seen'[Len(seen) + j] = events[j] BY <3>1, NewIsTold
    <3> QED BY <1>2, <3>2
  <2> QED BY <1>2, <2>1, <2>4, <2>5
<1>3. ASSUME NEW i \in DOMAIN prompt', OwnAnswer(prompt'[i])
      PROVE  \E k \in 1 .. latest, first \in 0 .. Len(seen') :
                 /\ prompt'[i].n = k * 10
                 /\ EventsOf("delta", k)' = first + 1 .. first + Len(prompt'[i].text)
                 /\ \A j \in DOMAIN prompt'[i].text : seen'[first + j].text = prompt'[i].text[j]
  <2>1. CASE \E j \in DOMAIN prompt : prompt[j] = prompt'[i]
    <3>1. PICK j \in DOMAIN prompt : prompt[j] = prompt'[i] BY <2>1
    <3>2. PICK k \in 1 .. Latest, first \in 0 .. Len(seen) :
              /\ prompt[j].n = k * 10
              /\ EventsOf("delta", k) = first + 1 .. first + Len(prompt[j].text)
              /\ \A q \in DOMAIN prompt[j].text : seen[first + q].text = prompt[j].text[q]
      BY <1>3, <3>1 DEF AnswersInv
    <3>3. Len(prompt[j].text) \in Nat /\ DOMAIN prompt[j].text = 1 .. Len(prompt[j].text)
      <4>1. prompt[j] \in Told
        <5> DEFINE T == Told
        <5>1. prompt \in Seq(T) BY DEF EventsInv, PromptsInv
        <5> HIDE DEF T
        <5>2. prompt[j] \in T BY <5>1
        <5> QED BY <5>2 DEF T
      <4>2. prompt[j].text \in Seq(Nat) BY <4>1 DEF Told
      <4> QED BY <4>2
    <3>4. /\ k \in 1 .. latest /\ first \in 0 .. Len(seen')
          /\ EventsOf("delta", k)' = first + 1 .. first + Len(prompt[j].text)
          /\ \A q \in DOMAIN prompt[j].text : seen'[first + q].text = prompt[j].text[q]
      BY <1>1, <3>2, <3>3
    <3> QED BY <3>1, <3>2, <3>4
  <2>2. CASE \E k \in Latest + 1 .. latest : TellsOf(events, prompt'[i], k)
    <3>1. PICK k \in Latest + 1 .. latest, size \in 0 .. Len(events) :
              /\ prompt'[i].n = k * 10
              /\ DOMAIN prompt'[i].text = 1 .. size /\ Len(prompt'[i].text) = size
              /\ \A j \in 1 .. Len(events) :
                     events[j].type = "delta" /\ events[j].iteration = k <=> j <= size
              /\ \A j \in 1 .. size : events[j].text = prompt'[i].text[j]
      BY <2>2 DEF TellsOf
    <3>2. /\ k \in 1 .. latest /\ Len(seen) \in 0 .. Len(seen')
          /\ EventsOf("delta", k)' = Len(seen) + 1 .. Len(seen) + Len(prompt'[i].text)
          /\ \A j \in DOMAIN prompt'[i].text : seen'[Len(seen) + j].text = prompt'[i].text[j]
      BY <1>2, <3>1
    <3> QED BY <3>1, <3>2
  <2> QED BY <1>3, <2>1, <2>2
<1> QED BY <1>3 DEF AnswersInv

\* A run that goes on, or comes to its end.
LEMMA RunGoesOn ==
    ASSUME EventsInv, PromptsInv', run.at # "ended", run'.at \notin {"new", "ended"},
           run'.iteration \in Nat, Len(prompts') = run'.iteration,
           run'.at = "calling" => run'.iteration > 0,
           NEW events, NEW n, Tells(events, n), Follows(events),
           NEW latest \in Int, latest = Latest', latest >= Latest,
           \A i \in 1 .. Len(events) : EventIs(events[i], latest),
           Listened' => ToldSoFar'
    PROVE  EventsInv'
<1>1. \A p \in DOMAIN seen' : EventIs(seen'[p], latest) BY TypesKept
<1>2. Sorted' /\ EventsInOrder' BY OrderKept
<1>3. (ToSet(seen))' = ToSet(seen') /\ seen' \in Seq(ToSet(seen)') BY DEF ToSet, Tells
<1>4. \A p \in DOMAIN seen' : seen'[p].type \notin {"done", "failed"} BY <1>1 DEF EventIs
<1>5. EndEvents' = {} BY <1>4 DEF EndEvents
<1> QED BY <1>1, <1>2, <1>3, <1>5 DEF EventsInv

\* Nothing is told, and the session and the iteration stay.
LEMMA NothingTold ==
    ASSUME EventsInv, PromptsInv', run.at # "ended", run'.at \notin {"new", "ended"},
           UNCHANGED <<seen, consumer, prompts>>,
           run'.iteration = run.iteration,
           run'.at = "calling" <=> run.at = "calling",
           \A i \in DOMAIN prompt' : OwnAnswer(prompt'[i]) => \E j \in DOMAIN prompt : prompt[j] = prompt'[i],
           \/ run.at \in {"loop", "call"} /\ prompt' = prompt
           \/ run'.at \notin {"loop", "call"} \/ run.at = "new",
           run.at \in {"finish", "returned"} => run'.at \in {"finish", "returned"}
    PROVE  EventsInv'
<1>1. /\ Latest' = Latest /\ Latest \in Nat /\ run.iteration \in Nat /\ Len(prompts) = run.iteration
      /\ run.at = "calling" => run.iteration > 0
  BY LatestIs DEF Latest, EventsInv
<1>2. seen \in Seq(ToSet(seen)) BY DEF EventsInv
<1>3. Tells(<<>>, 0) BY <1>2, SilenceTells
<1> DEFINE events == <<>>
<1>4. Len(events) = 0 /\ \A i \in 1 .. Len(events) : FALSE OBVIOUS
<1> HIDE DEF events
<1>5. Tells(events, 0) BY <1>3 DEF events
<1>6. Follows(events) BY <1>4 DEF Follows
<1>7. ASSUME Listened' PROVE ToldSoFar'
  <2>1. ToldSoFar BY <1>7 DEF EventsInv, Listened
  <2>2. AnswersInv'
    <3> DEFINE latest == Latest
    <3>1. latest \in Int /\ latest = Latest' /\ latest >= Latest BY <1>1
    <3>2. AnswersInv BY <2>1 DEF ToldSoFar
    <3> HIDE DEF latest
    <3> QED BY <1>4, <1>5, <3>1, <3>2, AnswersKept
  <2>3. RoundsInv' BY <1>4, <1>5, <2>1, RoundsKept DEF ToldSoFar
  <2>4. StartsEnd'
    <3>1. run.at \in {"finish", "returned", "ended"} => run'.at \in {"finish", "returned", "ended"} OBVIOUS
    <3> QED BY <1>4, <1>5, <2>1, <3>1, StartsKept DEF ToldSoFar
  <2>5. SizesAreTold' BY <1>4, <1>5, <2>1, SizesKept DEF ToldSoFar
  <2>6. SizeIsTold'
    <3>1. CASE run.at = "new"
      <4>1. seen' = <<>> BY <3>1 DEF EventsInv
      <4>2. DOMAIN seen' = {} BY <4>1
      <4> QED BY <4>2 DEF SizeIsTold
    <3>2. CASE run.at # "new" BY <1>4, <1>5, <2>1, <3>2, SizeKept DEF ToldSoFar
    <3> QED BY <3>1, <3>2
  <2> QED BY <2>2, <2>3, <2>4, <2>5, <2>6 DEF ToldSoFar
<1>8. run'.iteration \in Nat /\ Len(prompts') = run'.iteration BY <1>1
<1>9. run'.at = "calling" => run'.iteration > 0 BY <1>1
<1>10. PICK latest \in Int : latest = Latest' /\ latest >= Latest BY <1>1
<1> QED BY <1>4, <1>5, <1>6, <1>7, <1>8, <1>9, <1>10, RunGoesOn

-----------------------------------------------------------------------------
(* The steps of a run, and what it tells.                                   *)

LEMMA TellingStarts == EventsInit => EventsInv
<1> SUFFICES ASSUME EventsInit PROVE EventsInv OBVIOUS
<1>1. PromptsInv BY EventsStart
<1>2. /\ run.iteration = 0 /\ run.at = "new" /\ prompts = <<>> /\ seen = <<>> /\ prompt = <<>>
  BY DEF EventsInit
<1>3. seen \in Seq(ToSet(seen)) /\ DOMAIN seen = {} /\ DOMAIN prompt = {} /\ Len(prompts) = 0
  BY <1>2
<1>4. EndEvents = {} BY <1>3 DEF EndEvents
<1>5. ToldSoFar /\ Sorted /\ EventsInOrder
  BY <1>3 DEF ToldSoFar, AnswersInv, RoundsInv, StartsEnd, SizesAreTold, SizeIsTold, Sorted, EventsInOrder
<1> QED BY <1>1, <1>2, <1>3, <1>4, <1>5 DEF EventsInv

LEMMA PrepareTold == ASSUME EventsInv, Prepare PROVE EventsInv'
<1>1. PromptsInv /\ PromptsInv' BY PrepareStep DEF EventsInv
<1>2. PICK input \in {<<>>, <<[by |-> "run", role |-> "user", text |-> <<1>>, n |-> 1]>>} :
          prompt' = <<SystemPrompt>> \o History \o input
  BY DEF Prepare
<1>3. /\ run.at = "new" /\ UNCHANGED <<seen, consumer, prompts>>
      /\ run' = [run EXCEPT !.at = "loop", !.from = 1 + Len(History)] /\ run \in Turns
  BY <1>1 DEF Prepare, PromptsInv
<1>4. run'.at = "loop" /\ run'.iteration = run.iteration BY <1>3 DEF Turns
<1>5. \A i \in DOMAIN prompt' : ~OwnAnswer(prompt'[i])
  <2> DEFINE other == {m \in Told : ~OwnAnswer(m)}
  <2>1. SystemPrompt \in other /\ SystemPrompt.by = "system"
    BY OwnMessages DEF SystemPrompt, OwnAnswer
  <2>2. History \in Seq(other)
    <3> DEFINE H == [by : {"history"}, role : {"user", "assistant", "tool"}, text : Seq(Nat), n : Nat]
    <3>1. \A m \in H : m \in other BY DEF Told, Authors, Roles, OwnAnswer
    <3>2. History \in Seq(H) BY EventConstants DEF EventConstants
    <3> HIDE DEF H, other
    <3> QED BY <3>1, <3>2
  <2>3. input \in Seq(other)
    <3>1. <<1>> \in Seq(Nat) /\ 1 \in Int /\ "user" \in Roles BY DEF Roles
    <3>2. Said_("user", <<1>>, 1) \in Told BY <3>1, TellIs
    <3>3. ~OwnAnswer(Said_("user", <<1>>, 1)) BY DEF OwnAnswer, Said_
    <3>4. Said_("user", <<1>>, 1) \in other BY <3>2, <3>3
    <3> HIDE DEF other
    <3>5. <<Said_("user", <<1>>, 1)>> \in Seq(other) /\ <<>> \in Seq(other) BY <3>4
    <3> QED BY <1>2, <3>5 DEF Said_
  <2> HIDE DEF other
  <2>4. prompt' \in Seq(other) BY <1>2, <2>1, <2>2, <2>3
  <2>5. \A i \in DOMAIN prompt' : prompt'[i] \in other BY <2>4
  <2> QED BY <2>5 DEF other
<1> QED BY <1>1, <1>3, <1>4, <1>5, NothingTold

LEMMA StillTold ==
    ASSUME EventsInv, PrepareFails \/ CtxEnds \/ LoopStops \/ FinishRun
    PROVE  EventsInv'
<1> DEFINE Goes == \/ \E at \in {"finish", "returned"} :
                          run' = [run EXCEPT !.at = at] /\ run.at \in {"new", "loop", "finish"}
                   \/ run' = run /\ run.at # "new" /\ run.at # "ended"
           Still == UNCHANGED <<seen, consumer, prompt, prompts>> /\ Goes
<1>1. Still
  <2>1. CASE PrepareFails BY <2>1, Zenon DEF PrepareFails
  <2>2. CASE CtxEnds BY <2>2, Zenon DEF CtxEnds
  <2>3. CASE LoopStops BY <2>3, Zenon DEF LoopStops, Fails
  <2>4. CASE FinishRun BY <2>4, Zenon DEF FinishRun
  <2> QED BY <2>1, <2>2, <2>3, <2>4
<1>2. PromptsInv /\ run \in Turns BY DEF EventsInv, PromptsInv
<1>3. PromptsInv' BY <1>2, StillSteps
<1>4. CASE \E at \in {"finish", "returned"} :
               run' = [run EXCEPT !.at = at] /\ run.at \in {"new", "loop", "finish"}
  <2>1. run'.at \in {"finish", "returned"} /\ run'.iteration = run.iteration /\ run.at \in {"new", "loop", "finish"}
    BY <1>2, <1>4 DEF Turns
  <2> QED BY <1>1, <1>3, <2>1, NothingTold
<1>5. CASE run' = run /\ run.at # "new" /\ run.at # "ended" BY <1>1, <1>3, <1>5, NothingTold
<1> QED BY <1>1, <1>4, <1>5

\* The record of a call: the session is what the last compaction left.
LEMMA StartCallTold == ASSUME EventsInv, StartCall PROVE EventsInv'
<1>1. PromptsInv /\ PromptsInv' BY StartCallStep DEF EventsInv
<1>2. /\ run.at \in {"loop", "call"} /\ UNCHANGED <<seen, consumer, prompt>>
      /\ prompts' = Append(prompts, prompt)
      /\ run' = [run EXCEPT !.at = "calling", !.iteration = @ + 1, !.promptLen = Len(prompt)]
  BY DEF StartCall, LoopGoesOn
<1>3. run \in Turns /\ prompt \in Seq(Told) BY <1>1 DEF PromptsInv
<1>4. run'.at = "calling" /\ run'.iteration = run.iteration + 1 BY <1>2, <1>3 DEF Turns
<1>5. /\ Latest \in Nat /\ Latest' = Latest /\ Latest = run.iteration
      /\ run.iteration \in Nat /\ Len(prompts) = run.iteration
  BY <1>2, <1>4, LatestIs DEF Latest, EventsInv
<1>6. prompts' \in Seq(Seq(Told)) /\ Len(prompts') = run.iteration + 1 /\ DOMAIN prompts' = 1 .. run.iteration + 1
      /\ prompts'[run.iteration + 1] = prompt
      /\ DOMAIN prompts = 1 .. run.iteration /\ \A i \in 1 .. run.iteration : prompts'[i] = prompts[i]
  <2> DEFINE S == Seq(Told)
  <2>1. prompts \in Seq(S) /\ prompt \in S BY <1>1 DEF PromptsInv
  <2> HIDE DEF S
  <2>2. prompts' \in Seq(S) BY <1>2, <2>1
  <2> QED BY <1>2, <1>5, <2>1, <2>2 DEF S
<1> DEFINE events == <<>>
<1>7. Len(events) = 0 /\ \A i \in 1 .. Len(events) : FALSE OBVIOUS
<1>8. Tells(events, 0)
  <2>1. seen \in Seq(ToSet(seen)) BY DEF EventsInv
  <2> QED BY <1>2, <2>1, SilenceTells
<1> HIDE DEF events
<1>9. Follows(events) BY <1>7 DEF Follows
<1>10. ASSUME Listened' PROVE ToldSoFar'
  <2>1. ToldSoFar BY <1>2, <1>10 DEF EventsInv, Listened
  <2>2. AnswersInv'
    <3> DEFINE latest == Latest
    <3>1. latest \in Int /\ latest = Latest' /\ latest >= Latest BY <1>5
    <3>2. AnswersInv BY <2>1 DEF ToldSoFar
    <3>3. \A i \in DOMAIN prompt' : \E j \in DOMAIN prompt : prompt[j] = prompt'[i] BY <1>2
    <3>4. run.at # "ended" BY <1>2
    <3> HIDE DEF latest
    <3> QED BY <1>7, <1>8, <3>1, <3>2, <3>3, <3>4, AnswersKept
  <2>3. RoundsInv' BY <1>7, <1>8, <2>1, RoundsKept DEF ToldSoFar
  <2>4. StartsEnd' BY <1>2, <1>7, <1>8, <2>1, StartsKept DEF ToldSoFar
  <2>5. SizesAreTold'
    <3>1. ASSUME NEW p \in DOMAIN seen, LastEnd(p)', seen[p].iteration \in 1 .. run.iteration + 1
          PROVE  seen[p].after = Len(prompts'[seen[p].iteration])
      <4>1. LastEnd(p) BY <1>8, <3>1, LastEndWas
      <4>2. CASE seen[p].iteration \in 1 .. run.iteration
        BY <1>6, <2>1, <4>1, <4>2 DEF ToldSoFar, SizesAreTold
      <4>3. CASE seen[p].iteration = run.iteration + 1
        BY <1>2, <1>6, <2>1, <4>1, <4>3 DEF ToldSoFar, SizeIsTold
      <4> QED BY <1>5, <3>1, <4>2, <4>3
    <3> QED BY <1>2, <1>6, <3>1 DEF SizesAreTold
  <2>6. SizeIsTold' BY <1>4 DEF SizeIsTold
  <2> QED BY <2>2, <2>3, <2>4, <2>5, <2>6 DEF ToldSoFar
<1>11. run'.iteration \in Nat /\ run'.iteration > 0 /\ Len(prompts') = run'.iteration BY <1>4, <1>5, <1>6
<1>12. PICK latest \in Int : latest = Latest' /\ latest >= Latest BY <1>5
<1>13. run.at # "ended" /\ run'.at \notin {"new", "ended"} BY <1>2, <1>4
<1> QED BY <1>1, <1>7, <1>8, <1>9, <1>10, <1>11, <1>12, <1>13, RunGoesOn

\* What is told of a compaction, and the session it leaves.
LEMMA CompactionTold ==
    ASSUME EventsInv, PromptsInv', run.at \in {"loop", "calling"}, run'.at \in {"loop", "call", "finish"},
           run'.iteration = run.iteration, prompts' = prompts,
           \A i \in DOMAIN prompt' : OwnAnswer(prompt'[i]) => \E j \in DOMAIN prompt : prompt[j] = prompt'[i],
           NEW after, NEW compacted, NEW failed, failed => run'.at = "finish",
           after = Len(prompt') \/ run'.at = "finish",
           NEW events, events = CompactionEvents(after, compacted, failed), NEW n, Tells(events, n)
    PROVE  EventsInv'
<1>1. /\ Latest \in Nat /\ run.iteration \in Nat /\ Len(prompts) = run.iteration /\ Latest <= run.iteration
      /\ DOMAIN prompts = 1 .. run.iteration
  <2>1. prompts \in Seq(Seq(Told)) BY DEF EventsInv, PromptsInv
  <2> DEFINE S == Seq(Told)
  <2> HIDE DEF S
  <2>2. prompts \in Seq(S) BY <2>1 DEF S
  <2> QED BY <2>2, LatestIs DEF EventsInv
<1>2. Latest' = run.iteration BY DEF Latest
<1> DEFINE e == events[1]
           f == events[2]
<1>3. /\ Len(events) = 2 /\ e.type = "compactionStart" /\ e.iteration = run.iteration + 1
      /\ f.type = "compactionEnd" /\ f.iteration = run.iteration + 1 /\ f.after = after /\ f.failed = failed
  BY DEF CompactionEvents
<1>4. \A i \in 1 .. Len(events) : i = 1 \/ i = 2 BY <1>3
<1> HIDE DEF e, f
<1>5. \A i \in 1 .. Len(events) :
          /\ events[i].iteration = run.iteration + 1
          /\ events[i].type \in {"compactionStart", "compactionEnd"}
          /\ events[i].type = "compactionStart" => i = 1
          /\ events[i].type = "compactionEnd" => i = 2
  BY <1>3, <1>4 DEF e, f
<1>6. Follows(events) BY <1>1, <1>5, SMTT(20) DEF Follows
<1>7. PICK latest \in Int : latest = Latest' /\ latest >= Latest /\ latest = run.iteration BY <1>1, <1>2
<1>8. \A i \in 1 .. Len(events) : EventIs(events[i], latest) BY <1>1, <1>5, <1>7 DEF EventIs
<1>9. ASSUME Listened' PROVE ToldSoFar'
  <2>1. ToldSoFar /\ n = Len(events) BY <1>9 DEF EventsInv, Tells
  <2>2. AnswersInv'
    <3>1. AnswersInv BY <2>1 DEF ToldSoFar
    <3>2. \A i \in 1 .. Len(events) : events[i].type # "delta" BY <1>5
    <3> QED BY <1>7, <2>1, <3>1, <3>2, AnswersKept
  <2>3. RoundsInv'
    <3>1. \A i \in 1 .. Len(events) : events[i].type \notin {"toolCall", "toolResult"} BY <1>5
    <3> QED BY <2>1, <3>1, RoundsKept DEF ToldSoFar
  <2>4. StartsEnd'
    <3>1. \A i \in 1 .. Len(events) :
              events[i].type = "compactionStart" =>
                  /\ i + 1 \in 1 .. Len(events) /\ events[i + 1].type = "compactionEnd"
                  /\ events[i + 1].failed => run'.at \in {"finish", "returned", "ended"}
      BY <1>3, <1>5 DEF f
    <3> QED BY <2>1, <3>1, StartsKept DEF ToldSoFar
  <2>5. ASSUME NEW p \in DOMAIN seen', LastEnd(p)'
        PROVE  \/ p \in DOMAIN seen /\ seen'[p] = seen[p] /\ LastEnd(p) /\ seen[p].iteration # run.iteration + 1
               \/ seen'[p].after = after /\ seen'[p].iteration = run.iteration + 1
    <3>1. Len(seen) + 2 \in DOMAIN seen' /\ seen'[Len(seen) + 2] = f
      <4>1. 2 \in 1 .. n BY <1>3, <2>1
      <4> QED BY <4>1, NewIsTold DEF f
    <3>2. CASE p \in DOMAIN seen /\ seen'[p] = seen[p]
      <4>1. LastEnd(p) BY <2>5, <3>2, LastEndWas
      <4>2. seen[p].iteration # run.iteration + 1
        <5> SUFFICES ASSUME seen[p].iteration = run.iteration + 1 PROVE FALSE OBVIOUS
        <5>1. \A q \in DOMAIN seen' :
                  seen'[q].type = "compactionEnd" /\ seen'[q].iteration = seen'[p].iteration => q <= p
          BY <2>5 DEF LastEnd, EventsOf
        <5>2. Len(seen) + 2 <= p BY <1>3, <3>1, <3>2, <5>1
        <5>3. p <= Len(seen) /\ p \in Nat /\ Len(seen) \in Nat BY <3>2, LatestIs
        <5> QED BY <5>2, <5>3
      <4> QED BY <3>2, <4>1, <4>2
    <3>3. CASE \E i \in 1 .. Len(events) : seen'[p] = events[i]
      <4>1. seen'[p].type = "compactionEnd" BY <2>5 DEF LastEnd
      <4>2. seen'[p] = f BY <1>5, <3>3, <4>1 DEF f
      <4> QED BY <1>3, <4>2
    <3> QED BY <3>2, <3>3, OldOrNew
  <2>6. SizesAreTold'
    <3>1. ASSUME NEW p \in DOMAIN seen', LastEnd(p)', seen'[p].iteration \in DOMAIN prompts
          PROVE  seen'[p].after = Len(prompts[seen'[p].iteration])
      BY <1>1, <2>1, <2>5, <3>1 DEF ToldSoFar, SizesAreTold
    <3> QED BY <3>1 DEF SizesAreTold
  <2>7. SizeIsTold'
    <3>1. ASSUME NEW p \in DOMAIN seen', LastEnd(p)', seen'[p].iteration = run.iteration + 1, run'.at # "finish"
          PROVE  seen'[p].after = Len(prompt')
      BY <2>5, <3>1
    <3> QED BY <3>1 DEF SizeIsTold
  <2> QED BY <2>2, <2>3, <2>4, <2>6, <2>7 DEF ToldSoFar
<1> QED BY <1>1, <1>6, <1>7, <1>8, <1>9, RunGoesOn

\* What a compaction keeps.
KeptOf(tail, kept, rest, after) ==
    /\ tail = SubSeq(prompt, run.tail + 1, Len(prompt)) /\ kept \in 0 .. Len(tail) - 1
    /\ rest = SubSeq(tail, Len(tail) - kept + 1, Len(tail))
    /\ after = <<SystemPrompt, SummaryMessage>> \o rest

LEMMA CompactionYields ==
    ASSUME NEW next, CompactSession(next)
    PROVE  \/ \E tail, kept, rest, after :
                  /\ KeptOf(tail, kept, rest, after)
                  /\ prompt' = after /\ run' = ForgetPrompt([next EXCEPT !.from = 2, !.tail = 2])
                  /\ Yield(CompactionEvents(Len(after), TRUE, FALSE))
           \/ run' = next /\ prompt' = prompt /\ Yield(CompactionEvents(Len(prompt), FALSE, FALSE))
           \/ Fails("compaction") /\ prompt' = prompt /\ Yield(CompactionEvents(Len(prompt), FALSE, TRUE))
BY ZenonT(30) DEF CompactSession, KeptOf

LEMMA RestIs ==
    ASSUME NEW S, NEW s \in Seq(S), NEW a \in Int, a >= 1
    PROVE  SubSeq(s, a, Len(s)) \in Seq(S)
<1>1. Len(s) \in Int /\ \A i \in a .. Len(s) : s[i] \in S OBVIOUS
<1> QED BY <1>1, SubSeqProperties

LEMMA TwoBefore ==
    ASSUME NEW S, NEW s \in Seq(S), NEW x, NEW y
    PROVE  <<x, y>> \o s \in Seq(S \cup {x, y})
<1> DEFINE T == S \cup {x, y}
<1>1. x \in T /\ y \in T /\ s \in Seq(T) OBVIOUS
<1> HIDE DEF T
<1>2. <<x, y>> \in Seq(T) BY <1>1
<1>3. <<x, y>> \o s \in Seq(T) BY <1>1, <1>2
<1> QED BY <1>3 DEF T

\* Of the messages a compaction keeps, each was there.
LEMMA KeptWereThere ==
    ASSUME prompt \in Seq(Told), run.tail \in Nat,
           NEW tail, NEW kept, NEW rest, NEW after, KeptOf(tail, kept, rest, after)
    PROVE  \A i \in DOMAIN after : OwnAnswer(after[i]) => \E j \in DOMAIN prompt : prompt[j] = after[i]
<1>0. /\ tail = SubSeq(prompt, run.tail + 1, Len(prompt)) /\ kept \in 0 .. Len(tail) - 1
      /\ rest = SubSeq(tail, Len(tail) - kept + 1, Len(tail))
      /\ after = <<SystemPrompt, SummaryMessage>> \o rest
  BY DEF KeptOf
<1> DEFINE Kept == ToSet(prompt)
           All == Kept \cup {SystemPrompt, SummaryMessage}
<1>1. prompt \in Seq(Kept) BY ToldSeq
<1> HIDE DEF Kept
<1>2. tail \in Seq(Kept)
  <2>1. run.tail + 1 \in Int /\ run.tail + 1 >= 1 OBVIOUS
  <2> QED BY <1>0, <1>1, <2>1, RestIs
<1>3. rest \in Seq(Kept)
  <2>1. Len(tail) \in Nat BY <1>2, LenProperties
  <2>2. kept \in 0 .. Len(tail) - 1 BY <1>0
  <2>3. Len(tail) - kept + 1 \in Int /\ Len(tail) - kept + 1 >= 1 BY ONLY <2>1, <2>2
  <2> QED BY <1>0, <1>2, <2>3, RestIs
<1>5. after \in Seq(All) BY <1>0, <1>3, TwoBefore
<1>6. ~OwnAnswer(SystemPrompt) /\ ~OwnAnswer(SummaryMessage)
  BY DEF OwnAnswer, SystemPrompt, SummaryMessage
<1> SUFFICES ASSUME NEW i \in DOMAIN after, OwnAnswer(after[i])
             PROVE  \E j \in DOMAIN prompt : prompt[j] = after[i]
  OBVIOUS
<1>7. after[i] \in All
  <2> HIDE DEF All
  <2>1. after \in [1 .. Len(after) -> All] /\ DOMAIN after = 1 .. Len(after) BY <1>5, LenProperties
  <2> QED BY <2>1
<1>8. after[i] \in Kept BY <1>6, <1>7 DEF All
<1> QED BY <1>8 DEF Kept, ToSet

LEMMA CompactSessionTold ==
    ASSUME EventsInv, PromptsInv', UNCHANGED prompts, run.at \in {"loop", "calling"}, NEW next \in Turns,
           next.at \in {"loop", "call"}, next.iteration = run.iteration, CompactSession(next)
    PROVE  EventsInv'
<1>1. prompt \in Seq(Told) /\ run \in Turns /\ run.tail \in Nat BY DEF EventsInv, PromptsInv, Turns
<1>2. ASSUME NEW after, NEW compacted, NEW failed, failed => run'.at = "finish",
             after = Len(prompt') \/ run'.at = "finish",
             run'.at \in {"loop", "call", "finish"}, run'.iteration = run.iteration,
             \A i \in DOMAIN prompt' : OwnAnswer(prompt'[i]) => \E j \in DOMAIN prompt : prompt[j] = prompt'[i],
             NEW events, events = CompactionEvents(after, compacted, failed), Yield(events)
      PROVE  EventsInv'
  <2>1. seen \in Seq(ToSet(seen)) BY DEF EventsInv
  <2>2. events \in Seq({events[1], events[2]}) BY <1>2 DEF CompactionEvents
  <2>3. PICK n \in 0 .. Len(events) : Tells(events, n) BY <1>2, <2>1, <2>2, YieldTells
  <2> QED BY <1>2, <2>3, CompactionTold
<1>3. CASE \E tail, kept, rest, after :
               /\ KeptOf(tail, kept, rest, after)
               /\ prompt' = after /\ run' = ForgetPrompt([next EXCEPT !.from = 2, !.tail = 2])
               /\ Yield(CompactionEvents(Len(after), TRUE, FALSE))
  <2>1. PICK tail, kept, rest, after :
            /\ KeptOf(tail, kept, rest, after)
            /\ prompt' = after /\ run' = ForgetPrompt([next EXCEPT !.from = 2, !.tail = 2])
            /\ Yield(CompactionEvents(Len(after), TRUE, FALSE))
    BY <1>3
  <2>2. run'.at = next.at /\ run'.iteration = run.iteration BY <2>1 DEF ForgetPrompt, Turns
  <2>3. \A i \in DOMAIN after : OwnAnswer(after[i]) => \E j \in DOMAIN prompt : prompt[j] = after[i]
    <3>1. prompt \in Seq(Told) /\ run.tail \in Nat BY <1>1
    <3>2. KeptOf(tail, kept, rest, after) BY <2>1
    <3> QED BY ONLY <3>1, <3>2, KeptWereThere
  <2> QED BY <1>2, <2>1, <2>2, <2>3
<1>4. CASE run' = next /\ prompt' = prompt /\ Yield(CompactionEvents(Len(prompt), FALSE, FALSE))
  BY <1>2, <1>4
<1>5. CASE Fails("compaction") /\ prompt' = prompt /\ Yield(CompactionEvents(Len(prompt), FALSE, TRUE))
  <2>1. run'.at = "finish" /\ run'.iteration = run.iteration BY <1>1, <1>5 DEF Fails, Turns
  <2> QED BY <1>2, <1>5, <2>1
<1>6. CompactSession(next) OBVIOUS
<1>7. \/ \E tail, kept, rest, after :
             /\ KeptOf(tail, kept, rest, after)
             /\ prompt' = after /\ run' = ForgetPrompt([next EXCEPT !.from = 2, !.tail = 2])
             /\ Yield(CompactionEvents(Len(after), TRUE, FALSE))
      \/ run' = next /\ prompt' = prompt /\ Yield(CompactionEvents(Len(prompt), FALSE, FALSE))
      \/ Fails("compaction") /\ prompt' = prompt /\ Yield(CompactionEvents(Len(prompt), FALSE, TRUE))
  BY ONLY <1>6, CompactionYields, ZenonT(30)
<1> QED BY ONLY <1>3, <1>4, <1>5, <1>7

LEMMA LoopCompactingTold == ASSUME EventsInv, LoopCompacting PROVE EventsInv'
<1> DEFINE next == [run EXCEPT !.at = "call", !.compactions = @ + 1]
<1>1. CompactSession(next) /\ UNCHANGED <<calls, prompts>> /\ run.at = "loop"
  BY DEF LoopCompacting, LoopGoesOn
<1>2. PromptsInv /\ PromptsInv' /\ run \in Turns BY LoopCompactingStep DEF EventsInv, PromptsInv
<1>3. next \in Turns
  <2> DEFINE r == [run EXCEPT !.at = "call"]
             n == run.compactions + 1
  <2>1. r \in Turns /\ n \in Int BY <1>2 DEF Turns, Places
  <2>2. next = [r EXCEPT !.compactions = n] BY <1>2 DEF Turns
  <2> HIDE DEF r, n
  <2>3. [r EXCEPT !.compactions = n] \in Turns BY <2>1 DEF Turns
  <2> HIDE DEF next
  <2> QED BY <2>2, <2>3
<1>4. next.at = "call" /\ next.iteration = run.iteration BY <1>2 DEF Turns
<1> HIDE DEF next
<1> QED BY <1>1, <1>2, <1>3, <1>4, CompactSessionTold

\* What is told of a call: its deltas, then the other events.
EventsOfCall(events, size) ==
    /\ size \in 0 .. Len(events) /\ Len(events) \in Nat /\ events \in Seq(ToSet(events))
    /\ \A i \in 1 .. Len(events) :
           /\ events[i].type \in {"delta", "usage", "toolCall", "toolResult"}
           /\ events[i].iteration = run.iteration
           /\ events[i].type = "delta" <=> i <= size
           /\ events[i].type = "toolCall" =>
                  \E j \in 1 .. Len(events) : Answers(events[i], "toolResult", events[j])
           /\ events[i].type = "toolResult" =>
                  \E j \in 1 .. Len(events) : Answers(events[i], "toolCall", events[j])
           /\ events[i].type = "toolCall" =>
                  \A j \in 1 .. Len(events) : events[j].type = "toolResult" => i < j

\* An answer to this call, whose text is that of the deltas.
SaidBy(events, size, m) ==
    /\ m.n = run.iteration * 10 /\ DOMAIN m.text = 1 .. size /\ Len(m.text) = size
    /\ \A j \in 1 .. size : events[j].text = m.text[j]

\* What is told from a call's start to its end, and the session after it.
LEMMA CallTold ==
    ASSUME EventsInv, PromptsInv', run.at = "calling", run'.at \in {"loop", "finish"},
           run'.iteration = run.iteration, prompts' = prompts,
           NEW events, NEW n, Tells(events, n), NEW size, EventsOfCall(events, size),
           \A i \in DOMAIN prompt' : OwnAnswer(prompt'[i]) =>
               (\E j \in DOMAIN prompt : prompt[j] = prompt'[i]) \/ SaidBy(events, size, prompt'[i])
    PROVE  EventsInv'
<1>0. /\ size \in 0 .. Len(events)
      /\ \A i \in 1 .. Len(events) :
             /\ events[i].type \in {"delta", "usage", "toolCall", "toolResult"}
             /\ events[i].iteration = run.iteration
             /\ events[i].type = "delta" <=> i <= size
             /\ events[i].type = "toolCall" =>
                    \E j \in 1 .. Len(events) : Answers(events[i], "toolResult", events[j])
             /\ events[i].type = "toolResult" =>
                    \E j \in 1 .. Len(events) : Answers(events[i], "toolCall", events[j])
             /\ events[i].type = "toolCall" =>
                    \A j \in 1 .. Len(events) : events[j].type = "toolResult" => i < j
  BY DEF EventsOfCall
<1>1. /\ Latest \in Nat /\ run.iteration \in Nat /\ Len(prompts) = run.iteration
      /\ run.iteration = Latest + 1 /\ Len(events) \in Nat
  BY LatestIs DEF EventsInv, Tells
<1>2. PICK latest \in Int : latest = Latest' /\ latest = run.iteration /\ latest >= Latest
  BY <1>1 DEF Latest
<1>3. Follows(events) BY <1>0, <1>1 DEF Follows
<1>4. \A i \in 1 .. Len(events) : EventIs(events[i], latest) BY <1>0, <1>1, <1>2 DEF EventIs
<1>5. ASSUME Listened' PROVE ToldSoFar'
  <2>1. ToldSoFar /\ n = Len(events) BY <1>5 DEF EventsInv, Tells
  <2>2. AnswersInv'
    <3>1. AnswersInv BY <2>1 DEF ToldSoFar
    <3>2. \A i \in 1 .. Len(events) : events[i].type = "delta" => events[i].iteration > Latest BY <1>0, <1>1
    <3>3. ASSUME NEW i \in DOMAIN prompt', OwnAnswer(prompt'[i])
          PROVE  \/ \E j \in DOMAIN prompt : prompt[j] = prompt'[i]
                 \/ \E k \in Latest + 1 .. latest : TellsOf(events, prompt'[i], k)
      <4>1. CASE \E j \in DOMAIN prompt : prompt[j] = prompt'[i] BY <4>1
      <4>2. CASE SaidBy(events, size, prompt'[i])
        <5>1. run.iteration \in Latest + 1 .. latest BY <1>1, <1>2
        <5>2. \A j \in 1 .. Len(events) :
                  events[j].type = "delta" /\ events[j].iteration = run.iteration <=> j <= size
          BY <1>0
        <5>3. TellsOf(events, prompt'[i], run.iteration) BY <1>0, <4>2, <5>2 DEF TellsOf, SaidBy
        <5> QED BY <5>1, <5>3
      <4> QED BY <3>3, <4>1, <4>2
    <3>4. run.at # "ended" OBVIOUS
    <3> QED BY <1>2, <2>1, <3>1, <3>2, <3>3, <3>4, AnswersKept
  <2>3. RoundsInv' BY <1>0, <2>1, RoundsKept DEF ToldSoFar
  <2>4. StartsEnd'
    <3>1. \A i \in 1 .. Len(events) : events[i].type # "compactionStart" BY <1>0
    <3> QED BY <2>1, <3>1, StartsKept DEF ToldSoFar
  <2>5. \A i \in 1 .. Len(events) : events[i].type # "compactionEnd" BY <1>0
  <2>6. SizesAreTold' BY <2>1, <2>5, SizesKept DEF ToldSoFar
  <2>7. SizeIsTold' BY <2>1, <2>5, SizeKept DEF ToldSoFar
  <2> QED BY <2>2, <2>3, <2>4, <2>6, <2>7 DEF ToldSoFar
<1> QED BY <1>1, <1>2, <1>3, <1>4, <1>5, RunGoesOn

LEMMA FailsTold ==
    ASSUME EventsInv, PromptsInv', NEW err, Fails(err), UNCHANGED <<seen, consumer, prompt, prompts>>,
           run.at = "calling"
    PROVE  EventsInv'
<1>1. run \in Turns /\ run' = [run EXCEPT !.at = "finish"] BY DEF EventsInv, PromptsInv, Fails
<1>2. run'.at = "finish" /\ run'.iteration = run.iteration BY <1>1 DEF Turns
<1> DEFINE events == <<>>
<1>3. EventsOfCall(events, 0)
  <2>1. Len(events) = 0 /\ 0 \in 0 .. Len(events) /\ \A i \in 1 .. Len(events) : FALSE OBVIOUS
  <2>2. events \in Seq(ToSet(events)) OBVIOUS
  <2> HIDE DEF events
  <2> QED BY <2>1, <2>2 DEF EventsOfCall
<1>4. Tells(events, 0)
  <2>1. seen \in Seq(ToSet(seen)) BY DEF EventsInv
  <2> QED BY <2>1, SilenceTells
<1> HIDE DEF events
<1>5. \A i \in DOMAIN prompt' : \E j \in DOMAIN prompt : prompt[j] = prompt'[i] OBVIOUS
<1> QED BY <1>2, <1>3, <1>4, <1>5, CallTold

LEMMA CallTooLongTold == ASSUME EventsInv, CallTooLong PROVE EventsInv'
<1> DEFINE next == [run EXCEPT !.at = "loop", !.onError = TRUE]
<1>1. UNCHANGED <<calls, prompts>> /\ run.at = "calling" BY DEF CallTooLong
<1>2. PromptsInv /\ PromptsInv' /\ run \in Turns BY CallTooLongStep DEF EventsInv, PromptsInv
<1>3. next \in Turns BY <1>2 DEF Turns, Places
<1>4. next.at = "loop" /\ next.iteration = run.iteration BY <1>2 DEF Turns
<1>5. CompactSession(next) \/ (Fails("llm") /\ UNCHANGED <<prompt, seen, consumer>>) BY Zenon DEF CallTooLong
<1> HIDE DEF next
<1>6. CASE CompactSession(next) BY <1>1, <1>2, <1>3, <1>4, <1>6, CompactSessionTold
<1>7. CASE Fails("llm") /\ UNCHANGED <<prompt, seen, consumer>> BY <1>1, <1>2, <1>7, FailsTold
<1> QED BY <1>5, <1>6, <1>7

LEMMA DeltasIs ==
    ASSUME EventsInv, NEW text \in Texts, NEW events, events = Deltas(text)
    PROVE  /\ events \in Seq(ToSet(events)) /\ Len(events) = Len(text) /\ Len(text) \in Nat
           /\ DOMAIN text = 1 .. Len(text) /\ text \in Seq(Nat)
           /\ \A i \in 1 .. Len(text) :
                  /\ events[i].type = "delta" /\ events[i].iteration = run.iteration
                  /\ events[i].text = text[i]
<1>1. text \in Seq(Nat) BY EventConstants DEF EventConstants
<1>2. Len(text) \in Nat /\ DOMAIN text = 1 .. Len(text) BY <1>1
<1>3. events = [i \in 1 .. Len(text) |-> [type |-> "delta", iteration |-> run.iteration, text |-> text[i]]]
  BY <1>2 DEF Deltas
<1>4. Len(events) = Len(text) /\ DOMAIN events = 1 .. Len(text) BY <1>2, <1>3
<1>5. \A i \in 1 .. Len(text) :
          /\ events[i].type = "delta" /\ events[i].iteration = run.iteration
          /\ events[i].text = text[i]
  BY <1>3
<1>6. events \in [1 .. Len(text) -> ToSet(events)] BY <1>3, <1>4 DEF ToSet
<1>7. events \in Seq(ToSet(events)) BY <1>2, <1>6
<1> QED BY <1>1, <1>2, <1>4, <1>5, <1>7

LEMMA CallFailsTold == ASSUME EventsInv, CallFails PROVE EventsInv'
<1>1. PICK text, err : text \in Texts /\ Yield(Deltas(text)) /\ Fails(err)
  BY Zenon DEF CallFails
<1>2. UNCHANGED <<prompt, prompts>> /\ run.at = "calling" BY DEF CallFails
<1>3. PromptsInv /\ PromptsInv' /\ run \in Turns BY CallFailsStep DEF EventsInv, PromptsInv
<1>4. run'.at = "finish" /\ run'.iteration = run.iteration BY <1>1, <1>3 DEF Fails, Turns
<1>5. \A i \in DOMAIN prompt' : \E j \in DOMAIN prompt : prompt[j] = prompt'[i] BY <1>2
<1> SUFFICES ASSUME NEW events, events = Deltas(text), Yield(events) PROVE EventsInv'
  BY <1>1
<1>6. /\ events \in Seq(ToSet(events)) /\ Len(events) = Len(text) /\ Len(text) \in 0 .. Len(events)
      /\ \A i \in 1 .. Len(events) :
             /\ events[i].type = "delta" /\ events[i].iteration = run.iteration /\ i <= Len(text)
  BY <1>1, DeltasIs
<1>9. EventsOfCall(events, Len(text)) BY <1>6 DEF EventsOfCall
<1>7. seen \in Seq(ToSet(seen)) BY DEF EventsInv
<1>8. PICK n \in 0 .. Len(events) : Tells(events, n) BY <1>6, <1>7, YieldTells
<1> QED BY <1>2, <1>3, <1>4, <1>5, <1>8, <1>9, CallTold

\* Two sequences, one after the other.
LEMMA Joined ==
    ASSUME NEW S, NEW a \in Seq(S), NEW b \in Seq(S)
    PROVE  /\ a \o b \in Seq(S) /\ Len(a) \in Nat /\ Len(b) \in Nat
           /\ Len(a \o b) = Len(a) + Len(b)
           /\ \A i \in 1 .. Len(a) : (a \o b)[i] = a[i]
           /\ \A i \in 1 .. Len(a) + Len(b) : i > Len(a) => i - Len(a) \in 1 .. Len(b)
                                                  /\ (a \o b)[i] = b[i - Len(a)]
<1>1. Len(a) \in Nat /\ Len(b) \in Nat OBVIOUS
<1>2. /\ a \o b \in Seq(S) /\ Len(a \o b) = Len(a) + Len(b)
      /\ \A i \in 1 .. Len(a) + Len(b) : (a \o b)[i] = IF i <= Len(a) THEN a[i] ELSE b[i - Len(a)]
  BY ConcatProperties
<1> QED BY <1>1, <1>2

LEMMA AnswerEvents ==
    ASSUME EventsInv, NEW text \in Texts, NEW usage \in {<<>>, <<Usage>>},
           NEW events, events = Deltas(text) \o usage
    PROVE  /\ EventsOfCall(events, Len(text))
           /\ \A j \in 1 .. Len(text) : events[j].text = text[j]
<1> DEFINE deltas == Deltas(text)
           T == ToSet(deltas) \cup {Usage}
<1>1. /\ deltas \in Seq(ToSet(deltas)) /\ Len(deltas) = Len(text) /\ Len(text) \in Nat
      /\ \A i \in 1 .. Len(text) :
             /\ deltas[i].type = "delta" /\ deltas[i].iteration = run.iteration
             /\ deltas[i].text = text[i]
  BY DeltasIs
<1>2. usage \in Seq({Usage}) /\ Len(usage) \in Nat /\ \A i \in 1 .. Len(usage) : usage[i] = Usage
  <2>1. CASE usage = <<>> BY <2>1
  <2>2. CASE usage = <<Usage>> BY <2>2
  <2> QED BY <2>1, <2>2
<1>3. Usage.type = "usage" /\ Usage.iteration = run.iteration BY DEF Usage
<1> HIDE DEF deltas
<1>4. deltas \in Seq(T) /\ usage \in Seq(T)
  <2> DEFINE D == ToSet(deltas)
  <2>1. deltas \in Seq(D) BY <1>1
  <2> HIDE DEF D
  <2>2. deltas \in Seq(D \cup {Usage}) /\ usage \in Seq(D \cup {Usage}) BY <1>2, <2>1
  <2> QED BY <2>2 DEF D
<1> HIDE DEF T
<1>5. /\ events \in Seq(T) /\ Len(events) = Len(text) + Len(usage)
      /\ \A i \in 1 .. Len(text) : events[i] = deltas[i]
      /\ \A i \in 1 .. Len(text) + Len(usage) : i > Len(text) =>
             i - Len(text) \in 1 .. Len(usage) /\ events[i] = usage[i - Len(text)]
  <2>1. events = deltas \o usage BY DEF deltas
  <2>2. /\ deltas \o usage \in Seq(T) /\ Len(deltas \o usage) = Len(deltas) + Len(usage)
        /\ \A i \in 1 .. Len(deltas) : (deltas \o usage)[i] = deltas[i]
        /\ \A i \in 1 .. Len(deltas) + Len(usage) : i > Len(deltas) =>
               i - Len(deltas) \in 1 .. Len(usage) /\ (deltas \o usage)[i] = usage[i - Len(deltas)]
    BY ONLY <1>4, Joined
  <2> QED BY <1>1, <2>1, <2>2
<1>6. events \in Seq(ToSet(events)) BY <1>5, ToldSeq
<1>7. Len(events) \in Nat /\ Len(text) \in 0 .. Len(events) BY <1>1, <1>2, <1>5
<1>8. ASSUME NEW i \in 1 .. Len(events)
      PROVE  /\ events[i].type \in {"delta", "usage"} /\ events[i].iteration = run.iteration
             /\ events[i].type = "delta" <=> i <= Len(text)
  <2>1. CASE i <= Len(text)
    <3>1. i \in 1 .. Len(text) BY <1>1, <1>7, <2>1
    <3> QED BY <1>1, <1>5, <2>1, <3>1
  <2>2. CASE i > Len(text)
    <3>1. events[i] = Usage BY <1>2, <1>5, <2>2
    <3> QED BY <1>1, <1>3, <2>2, <3>1
  <2> QED BY <1>1, <1>7, <2>1, <2>2
<1>9. \A j \in 1 .. Len(text) : events[j].text = text[j] BY <1>1, <1>5
<1>10. EventsOfCall(events, Len(text)) BY <1>6, <1>7, <1>8 DEF EventsOfCall
<1> QED BY <1>9, <1>10

LEMMA AnswerTold == ASSUME EventsInv, Answer PROVE EventsInv'
<1>1. PICK text \in Texts, usage \in {<<>>, <<Usage>>} :
          /\ Yield(Deltas(text) \o usage)
          /\ prompt' = Append(prompt, Said_("assistant", text, NextNumber))
  BY Zenon DEF Answer
<1>2. run' = [run EXCEPT !.at = "finish", !.onError = FALSE] /\ UNCHANGED prompts /\ run.at = "calling"
  BY Zenon DEF Answer
<1>3. PromptsInv /\ PromptsInv' /\ run \in Turns /\ prompt \in Seq(Told)
  BY AnswerStep DEF EventsInv, PromptsInv
<1>4. run'.at = "finish" /\ run'.iteration = run.iteration BY <1>2, <1>3 DEF Turns
<1> SUFFICES ASSUME NEW events, events = Deltas(text) \o usage, Yield(events) PROVE EventsInv'
  BY <1>1
<1>5. EventsOfCall(events, Len(text)) /\ \A j \in 1 .. Len(text) : events[j].text = text[j]
  BY ONLY <1>1, EventsInv, events = Deltas(text) \o usage, AnswerEvents, ZenonT(40)
<1>6. seen \in Seq(ToSet(seen)) BY DEF EventsInv
<1>7. PICK n \in 0 .. Len(events) : Tells(events, n) BY <1>5, <1>6, YieldTells DEF EventsOfCall
<1> DEFINE m == Said_("assistant", text, NextNumber)
<1>8. m.n = run.iteration * 10 /\ DOMAIN m.text = 1 .. Len(text) /\ m.text = text
  <2>1. text \in Seq(Nat) BY EventConstants DEF EventConstants
  <2> QED BY <2>1 DEF Said_, NextNumber
<1> HIDE DEF m
<1>9. ASSUME NEW i \in DOMAIN prompt'
      PROVE  (\E j \in DOMAIN prompt : prompt[j] = prompt'[i]) \/ prompt'[i] = m
  <2> DEFINE T == Told
  <2>1. prompt \in Seq(T) /\ prompt' = Append(prompt, m) BY <1>1, <1>3 DEF m
  <2> HIDE DEF T
  <2> QED BY <2>1
<1>10. SaidBy(events, Len(text), m) BY <1>5, <1>8 DEF SaidBy
<1>11. \A i \in DOMAIN prompt' : OwnAnswer(prompt'[i]) =>
           (\E j \in DOMAIN prompt : prompt[j] = prompt'[i]) \/ SaidBy(events, Len(text), prompt'[i])
  BY <1>9, <1>10
<1> QED BY <1>2, <1>3, <1>4, <1>5, <1>7, <1>11, CallTold

LEMMA RoundEvents ==
    ASSUME EventsInv, NEW text \in Texts, NEW order \in Bijection(1 .. RoundCalls, 1 .. RoundCalls),
           NEW events, events = Deltas(text) \o CallEvents \o ResultEvents(order)
    PROVE  /\ EventsOfCall(events, Len(text))
           /\ \A j \in 1 .. Len(text) : events[j].text = text[j]
<1> DEFINE deltas == Deltas(text)
           results == ResultEvents(order)
           n == Len(text)
           r == RoundCalls
           T == ToSet(deltas) \cup ToSet(CallEvents) \cup ToSet(results)
<1>1. /\ deltas \in Seq(ToSet(deltas)) /\ Len(deltas) = n /\ n \in Nat
      /\ \A i \in 1 .. n :
             /\ deltas[i].type = "delta" /\ deltas[i].iteration = run.iteration
             /\ deltas[i].text = text[i]
  BY DeltasIs
<1>2. r \in Nat BY EventConstants DEF EventConstants
<1>3. \A i \in 1 .. r : CallEvents[i] = [type |-> "toolCall", iteration |-> run.iteration, id |-> i]
  BY DEF CallEvents
<1>4. \A i \in 1 .. r : results[i] = [type |-> "toolResult", iteration |-> run.iteration, id |-> order[i]]
  BY DEF ResultEvents
<1>5. CallEvents \in Seq(ToSet(CallEvents)) /\ Len(CallEvents) = r
  <2>1. DOMAIN CallEvents = 1 .. r /\ Len(CallEvents) = r BY <1>2 DEF CallEvents
  <2>2. CallEvents \in [1 .. r -> ToSet(CallEvents)] BY <1>2, <2>1 DEF ToSet, CallEvents
  <2> QED BY <1>2, <2>1, <2>2
<1>6. results \in Seq(ToSet(results)) /\ Len(results) = r
  <2>1. DOMAIN results = 1 .. r /\ Len(results) = r BY <1>2 DEF ResultEvents
  <2>2. results \in [1 .. r -> ToSet(results)] BY <1>2, <2>1 DEF ToSet, ResultEvents
  <2> QED BY <1>2, <2>1, <2>2
<1>7. /\ \A i \in 1 .. r : order[i] \in 1 .. r
      /\ \A k \in 1 .. r : \E i \in 1 .. r : order[i] = k
  BY DEF Bijection, Injection, Surjection
<1>8. deltas \in Seq(T) /\ CallEvents \in Seq(T) /\ results \in Seq(T)
  <2> DEFINE A == ToSet(deltas)
             B == ToSet(CallEvents)
             C == ToSet(results)
  <2>1. deltas \in Seq(A) /\ CallEvents \in Seq(B) /\ results \in Seq(C) BY <1>1, <1>5, <1>6
  <2> HIDE DEF A, B, C, deltas, results
  <2>2. deltas \in Seq(A \cup B \cup C) BY <2>1
  <2>3. CallEvents \in Seq(A \cup B \cup C) BY <2>1
  <2>4. results \in Seq(A \cup B \cup C) BY <2>1
  <2> QED BY <2>2, <2>3, <2>4 DEF A, B, C
<1> HIDE DEF T, deltas, results, n, r
<1>9. /\ deltas \o CallEvents \in Seq(T) /\ Len(deltas \o CallEvents) = n + r
      /\ \A i \in 1 .. n : (deltas \o CallEvents)[i] = deltas[i]
      /\ \A i \in 1 .. n + r : i > n => i - n \in 1 .. r /\ (deltas \o CallEvents)[i] = CallEvents[i - n]
  <2>1. /\ deltas \o CallEvents \in Seq(T) /\ Len(deltas \o CallEvents) = Len(deltas) + Len(CallEvents)
        /\ \A i \in 1 .. Len(deltas) : (deltas \o CallEvents)[i] = deltas[i]
        /\ \A i \in 1 .. Len(deltas) + Len(CallEvents) : i > Len(deltas) =>
               /\ i - Len(deltas) \in 1 .. Len(CallEvents)
               /\ (deltas \o CallEvents)[i] = CallEvents[i - Len(deltas)]
    BY ONLY <1>8, Joined
  <2> QED BY <1>1, <1>5, <2>1
<1>10. /\ events \in Seq(T) /\ Len(events) = (n + r) + r
       /\ \A i \in 1 .. n + r : events[i] = (deltas \o CallEvents)[i]
       /\ \A i \in 1 .. (n + r) + r : i > n + r => i - (n + r) \in 1 .. r /\ events[i] = results[i - (n + r)]
  <2> DEFINE first == deltas \o CallEvents
  <2>1. events = first \o results BY DEF deltas, results
  <2>2. first \in Seq(T) /\ results \in Seq(T) /\ Len(first) = n + r /\ Len(results) = r
    BY <1>6, <1>8, <1>9
  <2> HIDE DEF first
  <2>3. /\ first \o results \in Seq(T) /\ Len(first \o results) = Len(first) + Len(results)
        /\ \A i \in 1 .. Len(first) : (first \o results)[i] = first[i]
        /\ \A i \in 1 .. Len(first) + Len(results) : i > Len(first) =>
               i - Len(first) \in 1 .. Len(results) /\ (first \o results)[i] = results[i - Len(first)]
    BY ONLY <2>2, Joined
  <2>4. /\ events \in Seq(T) /\ Len(events) = (n + r) + r
        /\ \A i \in 1 .. n + r : events[i] = first[i]
        /\ \A i \in 1 .. (n + r) + r : i > n + r => i - (n + r) \in 1 .. r /\ events[i] = results[i - (n + r)]
    BY <2>1, <2>2, <2>3
  <2> QED BY <2>4 DEF first
<1>11. \A i \in 1 .. n :
           i \in 1 .. Len(events) /\ events[i].type = "delta" /\ events[i].iteration = run.iteration
               /\ events[i].text = text[i]
  <2> SUFFICES ASSUME NEW i \in 1 .. n PROVE i \in 1 .. Len(events) /\ events[i] = deltas[i]
    BY <1>1
  <2>1. i \in 1 .. n + r /\ i \in 1 .. (n + r) + r BY <1>1, <1>2
  <2> QED BY <1>9, <1>10, <2>1
<1>12. \A k \in 1 .. r :
           /\ n + k \in 1 .. Len(events) /\ events[n + k].type = "toolCall"
           /\ events[n + k].iteration = run.iteration /\ events[n + k].id = k
  <2> SUFFICES ASSUME NEW k \in 1 .. r
               PROVE  /\ n + k \in 1 .. Len(events) /\ events[n + k].type = "toolCall"
                      /\ events[n + k].iteration = run.iteration /\ events[n + k].id = k
    OBVIOUS
  <2>1. n + k \in 1 .. n + r /\ n + k > n /\ (n + k) - n = k /\ n + k \in 1 .. (n + r) + r
    BY <1>1, <1>2
  <2>2. n + k \in 1 .. Len(events) /\ events[n + k] = CallEvents[k] BY <1>9, <1>10, <2>1
  <2>3. CallEvents[k] = [type |-> "toolCall", iteration |-> run.iteration, id |-> k] BY <1>3
  <2> QED BY <2>2, <2>3
<1>13. \A k \in 1 .. r :
           /\ (n + r) + k \in 1 .. Len(events) /\ events[(n + r) + k].type = "toolResult"
           /\ events[(n + r) + k].iteration = run.iteration /\ events[(n + r) + k].id = order[k]
  <2> SUFFICES ASSUME NEW k \in 1 .. r
               PROVE  /\ (n + r) + k \in 1 .. Len(events) /\ events[(n + r) + k].type = "toolResult"
                      /\ events[(n + r) + k].iteration = run.iteration /\ events[(n + r) + k].id = order[k]
    OBVIOUS
  <2>1. (n + r) + k \in 1 .. (n + r) + r /\ (n + r) + k > n + r /\ ((n + r) + k) - (n + r) = k
    BY <1>1, <1>2
  <2>2. (n + r) + k \in 1 .. Len(events) /\ events[(n + r) + k] = results[k] BY <1>10, <2>1
  <2>3. results[k] = [type |-> "toolResult", iteration |-> run.iteration, id |-> order[k]] BY <1>4
  <2> QED BY <2>2, <2>3
<1>14. ASSUME NEW i \in 1 .. Len(events)
       PROVE  i \in 1 .. n \/ (\E k \in 1 .. r : i = n + k) \/ (\E k \in 1 .. r : i = (n + r) + k)
  <2>0. n \in Int /\ r \in Int /\ i \in Int /\ 1 <= i /\ i <= (n + r) + r BY <1>1, <1>2, <1>10
  <2>1. CASE i <= n BY <2>0, <2>1
  <2>2. CASE i > n /\ i <= n + r
    <3>1. i - n \in 1 .. r /\ i = n + (i - n) BY <2>0, <2>2
    <3> QED BY <3>1
  <2>3. CASE i > n + r
    <3>1. i - (n + r) \in 1 .. r /\ i = (n + r) + (i - (n + r)) BY <2>0, <2>3
    <3> QED BY <3>1
  <2> QED BY <2>0, <2>1, <2>2, <2>3
<1>15. Len(events) \in Nat /\ n \in 0 .. Len(events) /\ events \in Seq(ToSet(events))
  <2>1. events \in Seq(ToSet(events)) BY <1>10, ToldSeq
  <2> QED BY <1>1, <1>2, <1>10, <2>1
<1>16. ASSUME NEW i \in 1 .. Len(events)
       PROVE  /\ events[i].type \in {"delta", "usage", "toolCall", "toolResult"}
              /\ events[i].iteration = run.iteration
              /\ events[i].type = "delta" <=> i <= n
              /\ events[i].type = "toolCall" =>
                     \E j \in 1 .. Len(events) : Answers(events[i], "toolResult", events[j])
              /\ events[i].type = "toolResult" =>
                     \E j \in 1 .. Len(events) : Answers(events[i], "toolCall", events[j])
              /\ events[i].type = "toolCall" =>
                     \A j \in 1 .. Len(events) : events[j].type = "toolResult" => i < j
  <2>1. CASE i \in 1 .. n BY <1>1, <1>11, <2>1
  <2>2. CASE \E k \in 1 .. r : i = n + k
    <3>1. PICK k \in 1 .. r : i = n + k BY <2>2
    <3>2. events[i].type = "toolCall" /\ events[i].iteration = run.iteration /\ events[i].id = k
      BY <1>12, <3>1
    <3>3. ~(i <= n) BY <1>1, <1>2, <3>1
    <3>4. \E j \in 1 .. Len(events) : Answers(events[i], "toolResult", events[j])
      <4>1. PICK p \in 1 .. r : order[p] = k BY <1>7
      <4> QED BY <1>13, <3>2, <4>1 DEF Answers
    <3>5. ASSUME NEW j \in 1 .. Len(events), events[j].type = "toolResult" PROVE i < j
      <4>1. j \notin 1 .. n BY <1>11, <3>5
      <4>2. ~\E p \in 1 .. r : j = n + p BY <1>12, <3>5
      <4>3. PICK p \in 1 .. r : j = (n + r) + p BY <1>14, <4>1, <4>2
      <4> QED BY <1>1, <1>2, <3>1, <4>3
    <3> QED BY <3>2, <3>3, <3>4, <3>5
  <2>3. CASE \E k \in 1 .. r : i = (n + r) + k
    <3>1. PICK k \in 1 .. r : i = (n + r) + k BY <2>3
    <3>2. events[i].type = "toolResult" /\ events[i].iteration = run.iteration /\ events[i].id = order[k]
      BY <1>13, <3>1
    <3>3. ~(i <= n) BY <1>1, <1>2, <3>1
    <3>4. \E j \in 1 .. Len(events) : Answers(events[i], "toolCall", events[j])
      <4>1. PICK c \in 1 .. r : order[k] = c BY <1>7
      <4>2. n + c \in 1 .. Len(events) /\ Answers(events[i], "toolCall", events[n + c])
        BY <1>12, <3>2, <4>1 DEF Answers
      <4> QED BY <4>2
    <3> QED BY <3>2, <3>3, <3>4
  <2> QED BY <1>14, <2>1, <2>2, <2>3
<1>17. EventsOfCall(events, n) BY <1>15, <1>16 DEF EventsOfCall
<1> QED BY <1>11, <1>17 DEF n

LEMMA CallsForToolsTold == ASSUME EventsInv, CallsForTools PROVE EventsInv'
<1>1. /\ \E text \in Texts, order \in Bijection(1 .. RoundCalls, 1 .. RoundCalls) :
             /\ Yield(Deltas(text) \o CallEvents \o ResultEvents(order))
             /\ prompt' = prompt \o <<Said_("assistant", text, NextNumber)>>
                              \o [i \in 1 .. RoundCalls |-> Said_("tool", <<i>>, NextNumber + i)]
      /\ \/ run' = [run EXCEPT !.at = "loop", !.onError = FALSE, !.rounds = @ + 1]
         \/ run' = [run EXCEPT !.at = "finish", !.onError = FALSE]
      /\ UNCHANGED prompts /\ run.at = "calling"
  BY Zenon DEF CallsForTools
<1>2. PICK text \in Texts, order \in Bijection(1 .. RoundCalls, 1 .. RoundCalls) :
          /\ Yield(Deltas(text) \o CallEvents \o ResultEvents(order))
          /\ prompt' = prompt \o <<Said_("assistant", text, NextNumber)>>
                           \o [i \in 1 .. RoundCalls |-> Said_("tool", <<i>>, NextNumber + i)]
  BY <1>1
<1>3. PromptsInv /\ PromptsInv' /\ run \in Turns /\ prompt \in Seq(Told)
  BY CallsForToolsStep DEF EventsInv, PromptsInv
<1>4. run'.at \in {"loop", "finish"} /\ run'.iteration = run.iteration BY <1>1, <1>3 DEF Turns
<1> SUFFICES ASSUME NEW events, events = Deltas(text) \o CallEvents \o ResultEvents(order), Yield(events)
             PROVE  EventsInv'
  BY <1>2
<1>5. EventsOfCall(events, Len(text)) /\ \A j \in 1 .. Len(text) : events[j].text = text[j]
  BY ONLY <1>2, EventsInv, events = Deltas(text) \o CallEvents \o ResultEvents(order), RoundEvents
<1>6. seen \in Seq(ToSet(seen)) BY DEF EventsInv
<1>7. PICK n \in 0 .. Len(events) : Tells(events, n) BY <1>5, <1>6, YieldTells DEF EventsOfCall
<1> DEFINE m == Said_("assistant", text, NextNumber)
           results == [i \in 1 .. RoundCalls |-> Said_("tool", <<i>>, NextNumber + i)]
           Others == {results[i] : i \in 1 .. RoundCalls}
           Kept == ToSet(prompt)
           All == Kept \cup {m} \cup Others
<1>8. SaidBy(events, Len(text), m)
  <2>1. text \in Seq(Nat) BY EventConstants DEF EventConstants
  <2>2. m.n = run.iteration * 10 /\ m.text = text BY DEF Said_, NextNumber
  <2>3. DOMAIN text = 1 .. Len(text) BY <2>1
  <2> HIDE DEF m
  <2> QED BY <1>5, <2>2, <2>3 DEF SaidBy
<1>9. \A o \in Others : ~OwnAnswer(o) BY DEF OwnAnswer, Said_
<1>10. prompt' \in Seq(All)
  <2>1. prompt \in Seq(Kept) BY <1>3, ToldSeq
  <2>2. results \in Seq(Others)
    <3>1. RoundCalls \in Nat BY EventConstants DEF EventConstants
    <3>2. results \in [1 .. RoundCalls -> Others] OBVIOUS
    <3> HIDE DEF results, Others
    <3> QED BY <3>1, <3>2
  <2>3. prompt' = prompt \o <<m>> \o results BY <1>2
  <2> HIDE DEF Kept, Others, m, results
  <2>4. prompt \in Seq(All) /\ <<m>> \in Seq(All) /\ results \in Seq(All) BY <2>1, <2>2
  <2> HIDE DEF All
  <2>5. prompt \o <<m>> \in Seq(All) BY <2>4, CutInTwo
  <2> QED BY <2>3, <2>4, <2>5, CutInTwo
<1> HIDE DEF Kept, Others, m
<1>11. ASSUME NEW i \in DOMAIN prompt', OwnAnswer(prompt'[i])
       PROVE  (\E j \in DOMAIN prompt : prompt[j] = prompt'[i]) \/ SaidBy(events, Len(text), prompt'[i])
  <2>1. prompt'[i] \in All
    <3> HIDE DEF All
    <3> QED BY <1>10
  <2>2. prompt'[i] \in Kept \/ prompt'[i] = m BY <1>9, <1>11, <2>1
  <2> QED BY <1>8, <2>2 DEF Kept, ToSet
<1> QED BY <1>1, <1>3, <1>4, <1>5, <1>7, <1>11, CallTold

\* The last event.
LEMMA LastEventTold == ASSUME EventsInv, LastEvent PROVE EventsInv'
<1>1. /\ run.at = "returned" /\ run' = [run EXCEPT !.at = "ended"]
      /\ UNCHANGED <<prompt, calls, prompts, ctxDone, outcome>>
      /\ \E type \in {"done", "failed"} :
             Yield(<<[type |-> type, iteration |-> 0, result |-> outcome.parts]>>)
  <2>1. run.at = "returned" /\ run' = [run EXCEPT !.at = "ended"]
        /\ UNCHANGED <<prompt, calls, prompts, ctxDone, outcome>>
    BY Zenon DEF LastEvent
  <2> DEFINE type == IF outcome.err = "" THEN "done" ELSE "failed"
  <2>2. type \in {"done", "failed"} BY Zenon
  <2>3. Yield(<<[type |-> type, iteration |-> 0, result |-> outcome.parts]>>) BY Zenon DEF LastEvent
  <2> HIDE DEF type
  <2> QED BY <2>1, <2>2, <2>3
<1>2. PICK type \in {"done", "failed"} :
          Yield(<<[type |-> type, iteration |-> 0, result |-> outcome.parts]>>)
  BY <1>1
<1> DEFINE last == [type |-> type, iteration |-> 0, result |-> outcome.parts]
           events == <<last>>
<1>3. last.type \in {"done", "failed"} /\ last.result = outcome.parts BY <1>2
<1>4. Yield(events) BY <1>2
<1> HIDE DEF last
<1>5. events \in Seq({last}) /\ Len(events) = 1 /\ events[1] = last /\ \A i \in 1 .. Len(events) : i = 1
  OBVIOUS
<1> HIDE DEF events
<1>6. PICK n \in 0 .. Len(events) : Tells(events, n)
  <2>1. seen \in Seq(ToSet(seen)) BY DEF EventsInv
  <2> QED BY <1>4, <1>5, <2>1, YieldTells
<1>7. PromptsInv /\ PromptsInv' /\ run \in Turns BY <1>1, StillSteps DEF EventsInv, PromptsInv
<1>8. run'.at = "ended" /\ run'.iteration = run.iteration BY <1>1, <1>7 DEF Turns
<1>9. /\ Latest' = Latest /\ Latest \in Nat /\ run.iteration \in Nat /\ Len(prompts) = run.iteration
      /\ Len(seen) \in Nat /\ DOMAIN seen = 1 .. Len(seen)
  BY <1>1, <1>8, LatestIs DEF Latest, EventsInv
<1>10. Sorted /\ EventsInOrder /\ \A p \in DOMAIN seen : seen[p].type \notin {"done", "failed"}
  BY <1>1 DEF EventsInv, EventIs
<1>11. /\ Len(seen') = Len(seen) + n /\ n \in 0 .. 1 /\ DOMAIN seen' = 1 .. Len(seen')
       /\ Listened' => Listened /\ n = 1
       /\ seen' \in Seq(ToSet(seen)')
  BY <1>5, <1>6 DEF Tells
<1>12. \A p \in DOMAIN seen' :
           \/ p \in DOMAIN seen /\ p <= Len(seen) /\ seen'[p] = seen[p]
           \/ n = 1 /\ p = Len(seen') /\ seen'[p] = last
  <2> SUFFICES ASSUME NEW p \in DOMAIN seen'
               PROVE  \/ p \in DOMAIN seen /\ p <= Len(seen) /\ seen'[p] = seen[p]
                      \/ n = 1 /\ p = Len(seen') /\ seen'[p] = last
    OBVIOUS
  <2>1. \/ p \in 1 .. Len(seen) /\ p \in DOMAIN seen /\ seen'[p] = seen[p]
        \/ \E i \in 1 .. n : p = Len(seen) + i /\ seen'[p] = events[i] /\ i \in 1 .. Len(events)
    BY <1>6, OldOrNew
  <2> QED BY <1>5, <1>9, <1>11, <2>1
<1>13. EventsInOrder'
  <2> SUFFICES ASSUME NEW p \in DOMAIN seen', NEW q \in DOMAIN seen'
               PROVE  /\ p < q /\ q < Len(seen') => seen'[p].iteration <= seen'[q].iteration
                      /\ seen'[p].type = "toolCall" /\ seen'[q].type = "toolResult"
                             /\ seen'[p].iteration = seen'[q].iteration => p < q
    BY DEF EventsInOrder
  <2>1. CASE p \in DOMAIN seen /\ seen'[p] = seen[p] /\ q \in DOMAIN seen /\ seen'[q] = seen[q]
    BY <1>10, <2>1 DEF Sorted, EventsInOrder
  <2>2. CASE n = 1 /\ p = Len(seen') /\ seen'[p] = last BY <1>3, <1>11, <2>2
  <2>3. CASE n = 1 /\ q = Len(seen') /\ seen'[q] = last BY <1>3, <1>11, <2>3
  <2> QED BY <1>12, <2>1, <2>2, <2>3
<1>14. ASSUME Listened' PROVE ToldSoFar'
  <2>1. ToldSoFar /\ n = Len(events) BY <1>5, <1>11, <1>14 DEF EventsInv
  <2>2. \A i \in 1 .. Len(events) : events[i].type \in {"done", "failed"} BY <1>3, <1>5
  <2>3. AnswersInv'
    <3>1. AnswersInv BY <2>1 DEF ToldSoFar
    <3>2. \A i \in DOMAIN prompt' : \E j \in DOMAIN prompt : prompt[j] = prompt'[i] BY <1>1
    <3>3. \A i \in 1 .. Len(events) : events[i].type # "delta" BY <2>2
    <3>4. PICK latest \in Int : latest = Latest' /\ latest >= Latest BY <1>9
    <3> QED BY <1>1, <1>6, <2>1, <3>1, <3>2, <3>3, <3>4, AnswersKept
  <2>4. RoundsInv'
    <3>1. \A i \in 1 .. Len(events) : events[i].type \notin {"toolCall", "toolResult"} BY <2>2
    <3> QED BY <1>6, <2>1, <3>1, RoundsKept DEF ToldSoFar
  <2>5. StartsEnd'
    <3>1. \A i \in 1 .. Len(events) : events[i].type # "compactionStart" BY <2>2
    <3> QED BY <1>6, <1>8, <2>1, <3>1, StartsKept DEF ToldSoFar
  <2>6. SizesAreTold'
    <3>1. \A i \in 1 .. Len(events) : events[i].type # "compactionEnd" BY <2>2
    <3> QED BY <1>1, <1>6, <2>1, <3>1, SizesKept DEF ToldSoFar
  <2>7. SizeIsTold' BY <1>8 DEF SizeIsTold
  <2> QED BY <2>3, <2>4, <2>5, <2>6, <2>7 DEF ToldSoFar
<1>15. ASSUME NEW p \in EndEvents' PROVE p = Len(seen') /\ seen'[p].result = outcome'.parts
  <2>1. p \in DOMAIN seen' /\ seen'[p].type \in {"done", "failed"} BY <1>15 DEF EndEvents
  <2> QED BY <1>1, <1>3, <1>10, <1>12, <2>1
<1>16. ASSUME Listened' PROVE EndEvents' = {Len(seen')}
  <2>1. 1 \in 1 .. n /\ Len(seen) + 1 = Len(seen') BY <1>9, <1>11, <1>16
  <2>2. Len(seen') \in DOMAIN seen' /\ seen'[Len(seen')] = last BY <1>5, <1>6, <2>1, NewIsTold
  <2>3. Len(seen') \in EndEvents' BY <1>3, <2>2 DEF EndEvents
  <2> QED BY <1>15, <2>3
<1> QED BY <1>1, <1>7, <1>8, <1>9, <1>11, <1>13, <1>14, <1>15, <1>16 DEF EventsInv

LEMMA EventTellingSteps == EventsInv /\ [EventsNext]_eventVars => EventsInv'
<1> SUFFICES ASSUME EventsInv, [EventsNext]_eventVars PROVE EventsInv' OBVIOUS
<1>1. CASE Prepare BY <1>1, PrepareTold
<1>2. CASE PrepareFails \/ CtxEnds \/ LoopStops \/ FinishRun BY <1>2, StillTold
<1>3. CASE LoopCompacting BY <1>3, LoopCompactingTold
<1>4. CASE StartCall BY <1>4, StartCallTold
<1>5. CASE CallFails BY <1>5, CallFailsTold
<1>6. CASE CallTooLong BY <1>6, CallTooLongTold
<1>7. CASE Answer BY <1>7, AnswerTold
<1>8. CASE CallsForTools BY <1>8, CallsForToolsTold
<1>9. CASE LastEvent BY <1>9, LastEventTold
<1>10. CASE UNCHANGED eventVars
  <2>1. UNCHANGED <<run, prompt, calls, prompts, seen, consumer, outcome>> BY <1>10 DEF eventVars
  <2>2. PromptsInv' BY <1>10, EventSteps DEF EventsInv
  <2>3. ToldSoFar' <=> ToldSoFar
    BY <2>1 DEF ToldSoFar, AnswersInv, RoundsInv, StartsEnd, SizesAreTold, SizeIsTold, LastEnd, EventsOf, Latest
  <2>4. (Sorted' <=> Sorted) /\ (EventsInOrder' <=> EventsInOrder) /\ EndEvents' = EndEvents
    BY <2>1 DEF Sorted, EventsInOrder, EndEvents
  <2>5. ToSet(seen)' = ToSet(seen) /\ Latest' = Latest /\ (Listened' <=> Listened)
    BY <2>1 DEF ToSet, Latest, Listened
  <2> QED BY <2>1, <2>2, <2>3, <2>4, <2>5 DEF EventsInv
<1> QED BY <1>1, <1>2, <1>3, <1>4, <1>5, <1>6, <1>7, <1>8, <1>9, <1>10 DEF EventsNext

LEMMA ToldIsTold == EventsInv => EventsTellTheRun
<1> SUFFICES ASSUME EventsInv PROVE EventsTellTheRun OBVIOUS
<1>1. /\ Latest \in Nat /\ run.iteration \in Nat /\ Latest <= run.iteration BY LatestIs
<1>2. ASSUME Listened PROVE AnswersAreTold
  <2>1. AnswersInv BY <1>2 DEF EventsInv, ToldSoFar
  <2>2. 1 .. Latest \subseteq 1 .. run.iteration BY <1>1
  <2> QED BY <2>1, <2>2, Zenon DEF AnswersInv, AnswersAreTold, OwnAnswer
<1>3. ASSUME Listened PROVE RoundsAreTold
  <2>1. RoundsInv BY <1>3 DEF EventsInv, ToldSoFar
  <2>2. ASSUME NEW i, NEW p \in EventsOf("toolCall", i)
        PROVE  \E q \in EventsOf("toolResult", i) : seen[q].id = seen[p].id
    BY <2>1 DEF RoundsInv, EventsOf, Answers
  <2>3. ASSUME NEW i, NEW p \in EventsOf("toolResult", i)
        PROVE  \E q \in EventsOf("toolCall", i) : seen[q].id = seen[p].id
    BY <2>1 DEF RoundsInv, EventsOf, Answers
  <2> QED BY <2>2, <2>3 DEF RoundsAreTold
<1>4. ASSUME Listened PROVE CompactionsAreTold
  BY <1>4 DEF EventsInv, ToldSoFar, StartsEnd, SizesAreTold, LastEnd, CompactionsAreTold
<1> QED BY <1>2, <1>3, <1>4 DEF EventsInv, EventsTellTheRun

\* A consumer that listens to the end of a run's events is told what happened, and one
\* that stops is told the beginning of it (RunStream, agent/stream.go): with any history
\* and answers, any number of calls in a round that finish in any order, compactions
\* that fail or are tried again, and a consumer that stops at any event.
THEOREM EventsAreTold == EventsSpec => []EventsTellTheRun
<1>1. EventsInit => EventsInv BY TellingStarts
<1>2. EventsInv /\ [EventsNext]_eventVars => EventsInv' BY EventTellingSteps
<1>3. EventsInv => EventsTellTheRun BY ToldIsTold
<1> QED BY <1>1, <1>2, <1>3, PTL DEF EventsSpec

=============================================================================
