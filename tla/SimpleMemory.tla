---------------------------- MODULE SimpleMemory ----------------------------
(***************************************************************************)
(* memory/simple: the last messages of a conversation in a ring buffer,    *)
(* with the cursors and the snapshot of memory.SnapshotStore, or with the  *)
(* deprecated summarisation, which Save does after it let go of the lock.  *)
(* Callers run concurrently; a call holds the lock for the whole of its    *)
(* step except where Save has steps of its own.                            *)
(***************************************************************************)
EXTENDS SnapLog, FiniteSets

CONSTANTS Callers,     \* goroutines that use the memory
          Options,     \* New's maxItems, WithPruneCompacted, WithSummarization's
                       \* threshold (0 without it) and how many messages it replaces
          Overlap,     \* whether callers overlap when the memory summarises
          MaxMessages, \* bound on the messages saved, with each option
          MaxClears,   \* bound on the calls of Clear
          MaxFaults    \* bound on the summaries that fail

ASSUME SimpleConstants ==
    /\ Overlap \in BOOLEAN
    /\ \A o \in Options :
        /\ o.capacity \in Nat \ {0} /\ o.prune \in BOOLEAN
        /\ o.threshold \in 0 .. o.capacity
        /\ o.threshold > 0 => o.summarySize \in 1 .. o.threshold /\ ~o.prune
    /\ MaxMessages \in [Options -> Nat]

VARIABLES
    ring,      \* the ring buffer: slots, index of the next write, count
    next,      \* absolute position of the next message saved
    snapshot,  \* the latest snapshot
    opt,       \* the options it was made with
    call,      \* where each caller's Save is, and the messages it summarises
    view,      \* what each caller last got from LoadSnapshot
    log,       \* every message saved, by position: history
    cleared,   \* the positions below it were cleared: history
    clears, faults

vars == <<ring, next, snapshot, opt, call, view, log, cleared, clears, faults>>
bounds == <<clears, faults>>

Idle == [at |-> "idle"]
NoView == [prev |-> NoSnapshot, tail |-> <<>>]
Blank == Summary(<<>>)

-----------------------------------------------------------------------------
(* The ring buffer; slots and indices count from 0 *)

EmptyRing ==
    [slots |-> [i \in 0 .. opt.capacity - 1 |-> Blank], write |-> 0, count |-> 0]

RingAdd(r, m) ==
    [slots |-> [r.slots EXCEPT ![r.write] = m],
     write |-> (r.write + 1) % opt.capacity,
     count |-> IF r.count < opt.capacity THEN r.count + 1 ELSE r.count]

RingReplace(messages) ==
    LET filled[k \in 0 .. Len(messages)] ==
            IF k = 0 THEN EmptyRing ELSE RingAdd(filled[k - 1], messages[k])
    IN  filled[Len(messages)]

\* Variant: the oldest message is looked for at the next write.
RingGet_FromWrite(r) == [i \in 1 .. r.count |-> r.slots[(r.write + i - 1) % opt.capacity]]

RingGet(r) ==
    [i \in 1 .. r.count |-> r.slots[(r.write + opt.capacity - r.count + i - 1) % opt.capacity]]

Buffered == RingGet(ring)

\* The cursor of the first buffered message.
Offset == next - ring.count

-----------------------------------------------------------------------------
Init ==
    /\ opt \in Options
    /\ ring = EmptyRing /\ next = 0 /\ snapshot = NoSnapshot
    /\ call = [c \in Callers |-> Idle]
    /\ view = [c \in Callers |-> NoView]
    /\ log = <<>> /\ cleared = 0 /\ clears = 0 /\ faults = 0

\* With summarisation the callers take turns, unless Overlap.
Alone == opt.threshold = 0 \/ Overlap \/ \A c \in Callers : call[c] = Idle

(* Save *)

SaveAdd(c) ==
    /\ call[c] = Idle /\ Alone
    /\ Len(log) < MaxMessages[opt]
    /\ LET m == Message(Len(log) + 1)
       IN  ring' = RingAdd(ring, m) /\ log' = Append(log, m)
    /\ next' = next + 1
    /\ call' = [call EXCEPT ![c] = [at |-> "check"]]
    /\ UNCHANGED <<snapshot, opt, view, cleared, bounds>>

\* needSummarization looks at the buffer after the lock was let go of.
SaveCheck(c) ==
    /\ call[c].at = "check"
    /\ call' = [call EXCEPT ![c] =
           IF opt.threshold > 0 /\ ring.count >= opt.threshold THEN [at |-> "get"] ELSE Idle]
    /\ UNCHANGED <<ring, next, snapshot, opt, view, log, cleared, bounds>>

Rest(messages, split) == SubSeq(messages, split + 1, Len(messages))

\* The messages to summarise and those to keep after the summary.
SaveGet(c) ==
    LET live == Rest(Buffered, SplitPoint(Buffered, 0))
        split == SplitPoint(live, opt.summarySize)
    IN
    /\ call[c].at = "get"
    /\ call' = [call EXCEPT ![c] =
           [at |-> "llm", of |-> Said(SubSeq(live, 1, split)), kept |-> Rest(live, split)]]
    /\ UNCHANGED <<ring, next, snapshot, opt, view, log, cleared, bounds>>

\* The LLM answers; the buffer is replaced whatever was saved meanwhile.
SaveReplace(c) ==
    /\ call[c].at = "llm"
    /\ ring' = RingReplace(<<Summary(call[c].of)>> \o call[c].kept)
    /\ call' = [call EXCEPT ![c] = Idle]
    /\ UNCHANGED <<next, snapshot, opt, view, log, cleared, bounds>>

\* Save returns the LLM's error, with the messages already in the buffer.
SummaryFails(c) ==
    /\ call[c].at = "llm"
    /\ faults < MaxFaults /\ faults' = faults + 1
    /\ call' = [call EXCEPT ![c] = Idle]
    /\ UNCHANGED <<ring, next, snapshot, opt, view, log, cleared, clears>>

-----------------------------------------------------------------------------
(* Snapshots, without summarisation *)

Tail1 == Tail_(Buffered, Offset, snapshot)

LoadSnapshot(c) ==
    /\ call[c] = Idle /\ opt.threshold = 0
    /\ view' = [view EXCEPT ![c] = [prev |-> snapshot, tail |-> Tail1]]
    /\ view' # view
    /\ UNCHANGED <<ring, next, snapshot, opt, call, log, cleared, bounds>>

\* The caller summarises a beginning of what it loaded.  A pruning memory keeps
\* in the buffer what it would load next.
SaveSnapshot(c) ==
    /\ call[c] = Idle
    /\ view' = [view EXCEPT ![c] = NoView]
    /\ \E i \in DOMAIN view[c].tail :
        LET prev == view[c].prev
            upTo == view[c].tail[i].cursor
            said == Said([j \in 1 .. i |-> view[c].tail[j].message])
            saved == [upTo |-> upTo,
                      of |-> (IF prev = NoSnapshot THEN <<>> ELSE prev.of) \o said]
            tail == Tail_(Buffered, Offset, saved)
        IN  IF Cutoff(snapshot, prev, upTo, next) = "ok"
            THEN /\ snapshot' = saved
                 /\ ring' = IF opt.prune THEN RingReplace([j \in DOMAIN tail |-> tail[j].message])
                            ELSE ring
            ELSE UNCHANGED <<snapshot, ring>>
    /\ UNCHANGED <<next, opt, call, log, cleared, bounds>>

\* Clear leaves next alone: a cursor is never given out twice.
NextAfterClear == next

Clear(c) ==
    /\ call[c] = Idle /\ Alone
    /\ clears < MaxClears /\ clears' = clears + 1
    /\ ring' = EmptyRing /\ snapshot' = NoSnapshot /\ next' = NextAfterClear
    /\ cleared' = Len(log)
    /\ UNCHANGED <<opt, call, view, log, faults>>

Next ==
    \E c \in Callers :
        \/ SaveAdd(c) \/ SaveCheck(c) \/ SaveGet(c) \/ SaveReplace(c) \/ SummaryFails(c)
        \/ LoadSnapshot(c) \/ SaveSnapshot(c) \/ Clear(c)

Spec == Init /\ [][Next]_vars

-----------------------------------------------------------------------------
(* Properties *)

\* The ring stays in its bounds and its count is the number of slots in use.
TypeOK ==
    /\ ring.write \in 0 .. opt.capacity - 1 /\ ring.count \in 0 .. opt.capacity
    /\ \A i \in 0 .. opt.capacity - 1 :
           ring.slots[i] # Blank <=>
               \E k \in 1 .. ring.count : i = (ring.write + opt.capacity - k) % opt.capacity
    /\ next \in Nat /\ cleared \in 0 .. Len(log)
    /\ snapshot # NoSnapshot => snapshot.upTo \in 0 .. next - 1

\* A cursor names the same message for ever, through eviction, pruning and Clear
\* ("the buffer holds positions next-Len() to next-1, so a cursor survives
\* eviction", memory/simple/memory.go).
CursorsAreStable ==
    opt.threshold = 0 => \A i \in DOMAIN Buffered : Buffered[i] = log[Offset + i]

\* What an agent loads is everything said since Clear that the snapshot does not
\* stand for, except what a full buffer evicted and tool results left without
\* their call: pruning drops nothing else.
TailIsWhole ==
    LET first == IF snapshot = NoSnapshot \/ snapshot.upTo < cleared THEN cleared
                 ELSE snapshot.upTo + 1
        recent == IF Len(log) - first > opt.capacity THEN Len(log) - opt.capacity ELSE first
        all == SubSeq(log, recent + 1, Len(log))
    IN  opt.threshold = 0 =>
            [i \in DOMAIN Tail1 |-> Tail1[i].message] =
                SubSeq(all, SplitPoint(all, 0) + 1, Len(all))

\* No snapshot, even one made before a Clear, stands for a message saved after
\* it that it was not made from: the positions up to its cursor are summarised,
\* evicted or cleared.
SnapshotIsHonest ==
    snapshot # NoSnapshot =>
        \A p \in cleared .. snapshot.upTo :
            \/ \E i \in DOMAIN snapshot.of : snapshot.of[i] = p + 1
            \/ p + opt.capacity < next \/ log[p + 1].tool

\* "The oldest summarySize messages are replaced by the summary [...] and the
\* newer messages are kept after it" (WithSummarization): as long as the buffer
\* does not overflow, what it says is what was saved.
SummaryKeepsNewer ==
    opt.threshold > 0 => \A p \in cleared + 1 .. Len(log) :
        \/ \E i \in DOMAIN Said(Buffered) : Said(Buffered)[i] = p
        \/ p \in ToolResults

\* An agent gets all that was saved, each message from the snapshot or after it,
\* or from a summary (Memory.LoadSnapshot, Memory.SaveSnapshot).
LoadsWhatWasSaid == TailIsWhole /\ SnapshotIsHonest /\ SummaryKeepsNewer
=============================================================================
