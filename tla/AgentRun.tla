------------------------------ MODULE AgentRun ------------------------------
(***************************************************************************)
(* agent.Agent's run loop over a memory that keeps snapshots: the session  *)
(* a run builds, the saves it makes (checkpoints, before a compaction, at  *)
(* the end), and the compactions that replace the session's older messages *)
(* by a summary and store it as the memory's snapshot.                     *)
(*                                                                         *)
(* The LLM, the tools and the compactor answer as they like.  The memory's *)
(* operations are atomic and it prunes nothing (the stores have modules of *)
(* their own); runs on the same memory interleave between its operations.  *)
(***************************************************************************)
EXTENDS SnapLog, FiniteSets

CONSTANTS Runs,           \* the runs made on the memory
          Concurrent,     \* whether they may overlap
          Checkpoint,     \* SetCheckpoint
          MaxIterations,  \* SetMaxIterations, 0 for no limit
          MaxRounds,      \* bound on the rounds of tool calls of a run
          CallsPerRound,  \* tool calls in a round
          MaxCompactions, \* bound on the compactions a run makes at the threshold
          MaxFaults,      \* bound on the memory calls and compactors that fail, lost saves included
          MaxLost         \* bound on the saves that are made and report an error

ASSUME RunConstants ==
    /\ Concurrent \in BOOLEAN /\ Checkpoint \in BOOLEAN
    /\ {MaxIterations, MaxRounds, MaxCompactions, MaxFaults, MaxLost} \subseteq Nat
    /\ CallsPerRound \in Nat \ {0}

VARIABLES
    log, latest, \* the memory: its messages and its snapshot
    pc,          \* where each run is
    session,     \* the messages it sends to the LLM
    rs,          \* its runState
    plan,        \* the compaction it is making
    said,        \* all the messages it added, saved or not, in order
    faults, lost

vars == <<log, latest, pc, session, rs, plan, said, faults, lost>>
bounds == <<faults, lost>>

\* A message with its author; an empty answer says nothing and is never saved.
Msg(kind, r, n) == [of |-> <<<<r, n>>>>, tool |-> kind = "tool", kind |-> kind]
System == [of |-> <<>>, tool |-> FALSE, kind |-> "system"]

\* The elements of a sequence at some of its positions, in their order.
Picked(s, positions) ==
    LET picked[n \in 0 .. Len(s)] ==
            IF n = 0 THEN <<>>
            ELSE IF n \in positions THEN Append(picked[n - 1], s[n]) ELSE picked[n - 1]
    IN  picked[Len(s)]

\* replayable: what a memory is given of a list of messages.
Replayable(messages) == Picked(messages, {i \in DOMAIN messages : messages[i].kind # "empty"})

\* memory.SummaryMessages: the summary, then the pinned message.
SummaryMessages(s) ==
    IF s = NoSnapshot THEN <<>>
    ELSE <<[of |-> s.of, tool |-> FALSE, kind |-> "summary"]>> \o s.pinned

TailStart(r) == 1 + Len(SummaryMessages(rs[r].snapshot))
TailOf(r) == SubSeq(session[r], TailStart(r) + 1, Len(session[r]))
Unsaved(r) == Replayable(SubSeq(session[r], rs[r].savedTo + 1, Len(session[r])))

NoPlan == [next |-> "none"]
NewRun == [snapshot |-> NoSnapshot, stored |-> NoSnapshot, savedTo |-> 0,
           iteration |-> 0, rounds |-> 0, compactions |-> 0,
           compactedOnError |-> FALSE, saveFailed |-> FALSE]

Init ==
    /\ log = <<>> /\ latest = NoSnapshot
    /\ pc = [r \in Runs |-> "new"]
    /\ session = [r \in Runs |-> <<>>]
    /\ rs = [r \in Runs |-> NewRun]
    /\ plan = [r \in Runs |-> NoPlan]
    /\ said = [r \in Runs |-> <<>>]
    /\ faults = 0 /\ lost = 0

Goes(r, to) == pc' = [pc EXCEPT ![r] = to]
Fault == faults + lost < MaxFaults /\ faults' = faults + 1 /\ UNCHANGED lost

-----------------------------------------------------------------------------
(* The start of a run *)

\* prepareSession: the system prompt, the snapshot, the messages after it, and
\* the user's, when the run does not just continue the conversation.
Start(r) ==
    /\ pc[r] = "new"
    /\ Concurrent \/ \A q \in Runs : pc[q] \in {"new", "ended"}
    /\ LET tail == Tail_(log, 0, latest)
           loaded == <<System>> \o SummaryMessages(latest)
                         \o Replayable([i \in DOMAIN tail |-> tail[i].message])
       IN  \E input \in {<<>>, <<Msg("user", r, 1)>>} :
               /\ session' = [session EXCEPT ![r] = loaded \o input]
               /\ said' = [said EXCEPT ![r] = input]
               /\ rs' = [rs EXCEPT ![r].snapshot = latest, ![r].stored = latest,
                                   ![r].savedTo = Len(loaded)]
    /\ Goes(r, "loop")
    /\ UNCHANGED <<log, latest, plan, bounds>>

\* Loading the memory fails: the run ends, and there is no session to save.
StartFails(r) ==
    /\ pc[r] = "new"
    /\ Fault
    /\ Goes(r, "ended")
    /\ UNCHANGED <<log, latest, session, rs, plan, said>>

-----------------------------------------------------------------------------
(* The loop, between LLM calls *)

OutOfIterations(r) == MaxIterations > 0 /\ rs[r].iteration >= MaxIterations

\* The iteration that follows; not counted when there is no limit.
Counted(s) == IF MaxIterations > 0 THEN [s EXCEPT !.iteration = @ + 1] ELSE s

\* The context is done, or the iterations are.
LoopEnds(r) ==
    /\ pc[r] = "loop"
    /\ Goes(r, "finish")
    /\ UNCHANGED <<log, latest, session, rs, plan, said, bounds>>

\* compactIfNeeded: the threshold is reached, and the tail is not what fills it.
LoopCompacts(r) ==
    /\ pc[r] = "loop" /\ ~OutOfIterations(r)
    /\ rs[r].compactions < MaxCompactions /\ TailOf(r) # <<>>
    /\ rs' = [rs EXCEPT ![r].compactions = @ + 1]
    /\ plan' = [plan EXCEPT ![r] = [next |-> "llm"]]
    /\ Goes(r, "compact")
    /\ UNCHANGED <<log, latest, session, said, bounds>>

LoopCalls(r) ==
    /\ pc[r] = "loop" /\ ~OutOfIterations(r)
    /\ rs' = [rs EXCEPT ![r] = Counted(@)]
    /\ Goes(r, "llm")
    /\ UNCHANGED <<log, latest, session, plan, said, bounds>>

-----------------------------------------------------------------------------
(* The LLM's answers and the tool calls *)

Adds(r, messages) ==
    /\ session' = [session EXCEPT ![r] = @ \o messages]
    /\ said' = [said EXCEPT ![r] = @ \o Replayable(messages)]

\* An answer without tool calls ends the run; it may be empty.
Answers(r) ==
    /\ pc[r] = "llm"
    /\ \E kind \in {"answer", "empty"} : Adds(r, <<Msg(kind, r, Len(said[r]) + 1)>>)
    /\ rs' = [rs EXCEPT ![r].compactedOnError = FALSE]
    /\ Goes(r, "finish")
    /\ UNCHANGED <<log, latest, plan, bounds>>

\* The results follow their calls, in call order; a call cut off by the output
\* limit gets an error result.  A stop or a handoff ends the run.
CallsTools(r) ==
    /\ pc[r] = "llm"
    /\ rs[r].rounds < MaxRounds
    /\ Adds(r, [i \in 1 .. CallsPerRound + 1 |->
                    Msg(IF i = 1 THEN "call" ELSE "tool", r, Len(said[r]) + i)])
    /\ rs' = [rs EXCEPT ![r].compactedOnError = FALSE, ![r].rounds = @ + 1]
    /\ \E ends \in BOOLEAN :
           Goes(r, IF ends THEN "finish" ELSE IF Checkpoint THEN "checkpoint" ELSE "loop")
    /\ UNCHANGED <<log, latest, plan, bounds>>

LLMFails(r) ==
    /\ pc[r] = "llm"
    /\ Goes(r, "finish")
    /\ UNCHANGED <<log, latest, session, rs, plan, said, bounds>>

\* Variant: every such error is answered by a compaction.
MayCompactOnError_Always(r) == TRUE

MayCompactOnError(r) == ~rs[r].compactedOnError

\* The prompt is too long: compact and call again, once in a row.
ContextTooLong(r) ==
    /\ pc[r] = "llm"
    /\ IF MayCompactOnError(r)
       THEN /\ rs' = [rs EXCEPT ![r].compactedOnError = TRUE]
            /\ plan' = [plan EXCEPT ![r] = [next |-> "loop"]]
            /\ Goes(r, "compact")
       ELSE Goes(r, "finish") /\ UNCHANGED <<rs, plan>>
    /\ UNCHANGED <<log, latest, session, said, bounds>>

-----------------------------------------------------------------------------
(* Saves *)

\* Variant: the index of the first unsaved message is not moved.
SavedUpTo_Kept(s, n) == s

SavedUpTo(s, n) == [s EXCEPT !.savedTo = n]

SaveOk(r) == log' = log \o Unsaved(r) /\ UNCHANGED bounds

\* The memory reports an error and stored nothing, or stored the messages.
SaveFails(r) ==
    /\ Unsaved(r) # <<>>
    /\ \/ Fault /\ UNCHANGED log
       \/ /\ faults + lost < MaxFaults /\ lost < MaxLost /\ lost' = lost + 1
          /\ log' = log \o Unsaved(r)
          /\ UNCHANGED faults

\* saveCheckpoint, after a round of tool calls.
CheckpointSaved(r) ==
    /\ pc[r] = "checkpoint"
    /\ SaveOk(r)
    /\ rs' = [rs EXCEPT ![r] = SavedUpTo(@, Len(session[r]))]
    /\ Goes(r, "loop")
    /\ UNCHANGED <<latest, session, plan, said>>

\* A checkpoint, or the save before a compaction, fails and ends the run.
SaveEndsRun(r) ==
    /\ pc[r] \in {"checkpoint", "compactSave"}
    /\ SaveFails(r)
    /\ plan' = [plan EXCEPT ![r] = NoPlan]
    /\ Goes(r, "finish")
    /\ UNCHANGED <<latest, session, rs, said>>

\* finishRun saves what is left, whatever ended the run.
Finish(r) ==
    /\ pc[r] = "finish"
    /\ \/ SaveOk(r) /\ UNCHANGED rs
       \/ SaveFails(r) /\ rs' = [rs EXCEPT ![r].saveFailed = TRUE]
    /\ Goes(r, "ended")
    /\ UNCHANGED <<latest, session, plan, said>>

-----------------------------------------------------------------------------
(* Compaction *)

\* The compaction is over and the loop goes on: with the LLM call when it was
\* made at the threshold, from its start after an error.
Continue(r, s) ==
    /\ rs' = [rs EXCEPT ![r] = IF plan[r].next = "llm" THEN Counted(s) ELSE s]
    /\ plan' = [plan EXCEPT ![r] = NoPlan]
    /\ Goes(r, plan[r].next)

UsersOf(messages) == Picked(messages, {i \in DOMAIN messages : messages[i].kind = "user"})

\* Variant: the task is pinned only once.
Pinned_Once(older, recent, previous) ==
    IF UsersOf(recent) # <<>> \/ UsersOf(older) = <<>> THEN <<>>
    ELSE <<Last(UsersOf(older))>>

\* The user message that set the task, when no kept message is the user's.
Pinned(older, recent, previous) ==
    IF UsersOf(recent) # <<>> THEN <<>>
    ELSE IF UsersOf(older) # <<>> THEN <<Last(UsersOf(older))>>
    ELSE IF previous = NoSnapshot THEN <<>> ELSE previous.pinned

\* What a new snapshot stands for.
StandsFor(previous, older) ==
    (IF previous = NoSnapshot THEN <<>> ELSE previous.of) \o Said(older)

\* The compactor summarises the tail up to some message that is not followed by
\* a tool result, and what the previous snapshot stood for.
CompactPlan(r) ==
    /\ pc[r] = "compact"
    /\ \E k \in 0 .. Len(TailOf(r)) :
        LET split == SplitPoint(TailOf(r), k)
            older == SubSeq(TailOf(r), 1, split)
            kept == SubSeq(TailOf(r), split + 1, Len(TailOf(r)))
            previous == rs[r].snapshot
        IN  IF split = 0
            THEN Continue(r, rs[r])
            ELSE /\ plan' = [plan EXCEPT ![r] =
                       [next |-> @.next, kept |-> kept, upTo |-> -1,
                        snapshot |->
                            [of |-> StandsFor(previous, older),
                             pinned |-> Pinned(older, kept, previous), upTo |-> -1]]]
                 /\ Goes(r, "compactSave")
                 /\ UNCHANGED rs
    /\ UNCHANGED <<log, latest, session, said, bounds>>

\* The compactor fails: the run ends with its error.
CompactFails(r) ==
    /\ pc[r] = "compact"
    /\ Fault
    /\ plan' = [plan EXCEPT ![r] = NoPlan]
    /\ Goes(r, "finish")
    /\ UNCHANGED <<log, latest, session, rs, said>>

\* The messages not saved yet are saved as they are, before the session forgets
\* them.
CompactSaved(r) ==
    /\ pc[r] = "compactSave"
    /\ SaveOk(r)
    /\ Goes(r, "compactLoad")
    /\ UNCHANGED <<latest, session, rs, plan, said>>

\* The new session: the summary in the place of what it stands for.
Compacted(r, stored) ==
    LET snapshot == plan[r].snapshot
        new == <<System>> \o SummaryMessages(snapshot) \o plan[r].kept
    IN  /\ session' = [session EXCEPT ![r] = new]
        /\ Continue(r, SavedUpTo([rs[r] EXCEPT !.snapshot = snapshot, !.stored = stored],
                                 Len(new)))

\* Variant: the first message kept is covered too.
LastCovered_OffByOne(logged, start, covered) == logged[Min({start + covered + 1, Len(logged)})].cursor

LastCovered(logged, start, covered) == logged[start + covered].cursor

\* snapshotCursor: the compacted messages are looked for from the end of the log.
CompactLoad(r) ==
    LET behind == Tail_(log, 0, latest)
        logged == Picked(behind, {i \in DOMAIN behind : behind[i].message.kind # "empty"})
        tail == Replayable(TailOf(r))
        covered == Len(Replayable(SubSeq(TailOf(r), 1, Len(TailOf(r)) - Len(plan[r].kept))))
        starts == {s \in 0 .. Len(logged) - Len(tail) :
                      \A i \in DOMAIN tail : logged[s + i].message = tail[i]}
    IN
    /\ pc[r] = "compactLoad"
    /\ IF Same(latest, rs[r].stored) /\ covered > 0 /\ starts # {}
       THEN /\ plan' = [plan EXCEPT ![r].upTo = LastCovered(logged, Max(starts), covered)]
            /\ Goes(r, "compactStore")
            /\ UNCHANGED <<session, rs>>
       ELSE Compacted(r, rs[r].stored)
    /\ UNCHANGED <<log, latest, said, bounds>>

\* LoadSnapshot or SaveSnapshot fails: the summary lives in the run only.
CompactStoreFails(r) ==
    /\ pc[r] \in {"compactLoad", "compactStore"}
    /\ Fault
    /\ Compacted(r, rs[r].stored)
    /\ UNCHANGED <<log, latest, said>>

CompactStore(r) ==
    LET snapshot == [plan[r].snapshot EXCEPT !.upTo = plan[r].upTo] IN
    /\ pc[r] = "compactStore"
    /\ IF Cutoff(latest, rs[r].stored, plan[r].upTo, Len(log)) = "ok"
       THEN latest' = snapshot /\ Compacted(r, snapshot)
       ELSE Compacted(r, rs[r].stored) /\ UNCHANGED latest
    /\ UNCHANGED <<log, said, bounds>>

-----------------------------------------------------------------------------
\* What a run does by itself once it is started.
Step(r) ==
    \/ LoopEnds(r) \/ LoopCompacts(r) \/ LoopCalls(r)
    \/ Answers(r) \/ CallsTools(r) \/ LLMFails(r) \/ ContextTooLong(r)
    \/ CheckpointSaved(r) \/ SaveEndsRun(r) \/ Finish(r)
    \/ CompactPlan(r) \/ CompactFails(r) \/ CompactSaved(r)
    \/ CompactLoad(r) \/ CompactStoreFails(r) \/ CompactStore(r)

Next == \E r \in Runs : Start(r) \/ StartFails(r) \/ Step(r)

Spec == Init /\ [][Next]_vars

\* A run that was started goes on; nothing makes its user cancel it, nor the LLM
\* answer: it may call tools in every round, and fail on every prompt.
FairSpec == Spec /\ \A r \in Runs : WF_vars(Step(r))

-----------------------------------------------------------------------------
(* Properties *)

MessageIds == Runs \X (Nat \ {0})
MessagesType == Seq([of : Seq(MessageIds), tool : BOOLEAN,
                 kind : {"system", "summary", "user", "answer", "empty", "call", "tool"}])
SnapshotsType == [of : Seq(MessageIds), pinned : MessagesType, upTo : Int] \cup {NoSnapshot}

\* The memory and the runs' states are well formed, and a run's indices lie in
\* its session.
TypeOK ==
    /\ log \in MessagesType /\ latest \in SnapshotsType
    /\ latest # NoSnapshot => latest.upTo \in 0 .. Len(log) - 1
    /\ \A r \in Runs :
        /\ session[r] \in MessagesType
        /\ rs[r].snapshot \in SnapshotsType /\ rs[r].stored \in SnapshotsType
        /\ rs[r].savedTo \in 0 .. Len(session[r])
        /\ pc[r] \notin {"new", "ended"} => TailStart(r) <= Len(session[r])
        /\ said[r] \in MessagesType

Author(m) == m.of[1][1]
SavedBy(r) == Picked(log, {i \in DOMAIN log : Author(log[i]) = r})

\* "Memory keeps every message once" (SetCompaction, agent/agent.go): through
\* checkpoints, compactions, failed saves and other runs, what a run has saved is
\* the beginning of what it said, and all of it once the run has ended without a
\* failed save.  With checkpoints "a process that crashes in a long run loses at
\* most the iteration in progress" (SetCheckpoint): between two iterations the
\* memory holds everything the run said, whatever was compacted or failed.
EveryMessageOnce ==
    \A r \in Runs :
        /\ IsPrefix(SavedBy(r), said[r])
        /\ pc[r] = "ended" /\ ~rs[r].saveFailed => SavedBy(r) = said[r]
        /\ Checkpoint /\ pc[r] \in {"loop", "llm"} /\ rs[r].rounds > 0 => SavedBy(r) = said[r]

\* Every call is followed by its results, and every result follows its call.
Paired(messages) ==
    \A i \in DOMAIN messages :
        /\ messages[i].kind = "call" =>
               \A j \in 1 .. CallsPerRound :
                   /\ i + j \in DOMAIN messages
                   /\ messages[i + j].kind = "tool"
                   /\ messages[i + j].of[1] = <<Author(messages[i]), messages[i].of[1][2] + j>>
        /\ messages[i].kind = "tool" =>
               \E j \in 1 .. CallsPerRound : i - j >= 1 /\ messages[i - j].kind = "call"

\* A tool call and its results are never parted, neither in the memory nor in
\* what the LLM is sent: providers refuse such a conversation (memory/split.go).
RoundsAreWhole ==
    /\ Paired(log)
    /\ \A r \in Runs : pc[r] = "llm" => Paired(session[r])

\* The memory stays a conversation, of runs in turn and of runs that overlap: it has
\* each message once, and all but the last iteration's, as long as no save that was
\* made reported an error (the retry of the run's end saves such messages again), and
\* no tool call is parted from its results (agent/agent.go, memory/split.go).
MemoryIsWhole == (lost = 0 => EveryMessageOnce) /\ RoundsAreWhole

\* A snapshot stands for every message of the log up to its cursor: none is
\* dropped from the conversations that start from it without being in its
\* summary.
NothingForgotten ==
    latest # NoSnapshot => latest.of = Said(SubSeq(log, 1, latest.upTo + 1))

\* What a run's session stands for, its summary included.
SummaryOf(messages) == Picked(messages, {i \in DOMAIN messages : messages[i].kind = "summary"})
Recalled(r) == Said(SummaryOf(session[r])) \o Said(TailOf(r))

\* The last user message is in every prompt as it was written, however often the
\* session was compacted ("Pinned are messages kept verbatim with the summary,
\* such as the user message that set the task", memory/snapshot.go).
UserIds == {<<r, 1>> : r \in {q \in Runs : said[q] # <<>> /\ said[q][1].kind = "user"}}
TaskInSight ==
    \A r \in Runs : pc[r] = "llm" =>
        LET recalled == Recalled(r)
            users == {i \in DOMAIN recalled : recalled[i] \in UserIds}
        IN  users # {} =>
                \E i \in DOMAIN session[r] :
                    session[r][i].kind = "user" /\ session[r][i].of[1] = recalled[Max(users)]

\* Every run ends, whatever the LLM answers: a prompt that stays too long is
\* compacted once and then ends the run.
RunsEnd == \A r \in Runs : pc[r] # "new" ~> pc[r] = "ended"
=============================================================================
