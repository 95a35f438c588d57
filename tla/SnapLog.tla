------------------------------ MODULE SnapLog ------------------------------
(***************************************************************************)
(* The cursor arithmetic the memory stores share (internal/snaplog,        *)
(* memory/split.go).  A message is a record: "of" names the saved messages *)
(* it stands for (itself, or those it summarises) and "tool" says that it  *)
(* is a tool result.  A cursor is an absolute position, counted from 0.    *)
(***************************************************************************)
EXTENDS Integers, Sequences, SequencesExt

CONSTANTS NoSnapshot,  \* no snapshot (nil)
          ToolResults  \* the messages that are tool results

Message(id) == [of |-> <<id>>, tool |-> id \in ToolResults]
Summary(ids) == [of |-> ids, tool |-> FALSE]

\* What a list of messages says, summaries included.
Said(messages) == FlattenSeq([i \in DOMAIN messages |-> messages[i].of])

\* Variant: the rest may start with a tool result.
SplitPoint_Exact(messages, n) == IF n < 0 THEN 0 ELSE IF n > Len(messages) THEN Len(messages) ELSE n

\* memory.SplitPoint: how many messages go with the first n of them so that the
\* rest does not start with a tool result.
SplitPoint(messages, n) ==
    LET from == IF n < 0 THEN 0 ELSE IF n > Len(messages) THEN Len(messages) ELSE n
        calls == {i \in from + 1 .. Len(messages) : ~messages[i].tool}
    IN  IF calls = {} THEN Len(messages)
        ELSE (CHOOSE i \in calls : \A j \in calls : i <= j) - 1

\* Variant: the log's offset is forgotten.
Tail_FromOffset(messages, offset, snapshot) ==
    LET after == IF snapshot = NoSnapshot THEN 0 ELSE snapshot.upTo + 1
        start == SplitPoint(messages, after)
    IN  [i \in 1 .. Len(messages) - start |->
            [message |-> messages[start + i], cursor |-> offset + start + i - 1]]

\* snaplog.Tail: the messages after the snapshot, with their cursors, without the
\* tool results at their start.
Tail_(messages, offset, snapshot) ==
    LET after == IF snapshot = NoSnapshot \/ snapshot.upTo + 1 < offset THEN 0
                 ELSE snapshot.upTo + 1 - offset
        start == SplitPoint(messages, after)
    IN  [i \in 1 .. Len(messages) - start |->
            [message |-> messages[start + i], cursor |-> offset + start + i - 1]]

\* snaplog.Same compares cursors only.
Same(a, b) ==
    IF a = NoSnapshot \/ b = NoSnapshot THEN a = b ELSE a.upTo = b.upTo

\* What a caller that has seen v and summarises it up to its i-th message says.
SummaryUpTo(v, i) ==
    (IF v.prev = NoSnapshot THEN <<>> ELSE v.prev.of)
        \o Said([j \in 1 .. i |-> v.tail[j].message])

\* Variant: the latest snapshot is not compared with the caller's.
Cutoff_NoConflict(current, prev, upTo, next) ==
    IF upTo >= next \/ (current # NoSnapshot /\ upTo <= current.upTo) THEN "cursor"
    ELSE "ok"

\* snaplog.Cutoff: "conflict", "cursor" (ErrInvalidCursor) or "ok".
Cutoff(current, prev, upTo, next) ==
    IF ~Same(current, prev) THEN "conflict"
    ELSE IF upTo >= next \/ (current # NoSnapshot /\ upTo <= current.upTo) THEN "cursor"
    ELSE "ok"
=============================================================================
