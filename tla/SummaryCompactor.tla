--------------------------- MODULE SummaryCompactor ---------------------------
(***************************************************************************)
(* Agent.Compact with a SummaryCompactor: a conversation in memory, its    *)
(* older part replaced by a summary that a model writes (agent/compact.go, *)
(* agent/agent.go, internal/summary, llm/estimate.go).                     *)
(*                                                                         *)
(* A message is its role, the size of its text in characters, its images,  *)
(* its calls, and a number of its own.  A summary is the numbers of the    *)
(* messages it was asked of.                                               *)
(***************************************************************************)
EXTENDS Integers, SequencesExt

CONSTANTS TextSizes,     \* the sizes of texts
          MaxNumbered,   \* bound on the messages said
          KeepRecent,    \* WithSummaryKeepRecent
          KeepTokens,    \* WithSummaryKeepTokens, 0 when not given
          AgentBudget,   \* CompactInput.KeepTokens, 0 for none
          DefaultBudget, \* DefaultKeepTokens
          SummaryTokens, \* WithSummaryMaxTokens, 0 for no bound
          KeptResult,    \* keptToolResultChars
          CutNote,       \* the size of the note where a text was cut
          CharsPerToken, MessageOverhead, ImageTokens

VARIABLES
    conv,    \* the messages in memory after the snapshot
    snap,    \* its latest snapshot
    numbered,\* how many messages were said
    attempt, \* the call of Compact: where it is, and what it works on
    info     \* what the last call of Compact returned

compactVars == <<conv, snap, numbered, attempt, info>>

NoSnap == [of |-> <<>>, pinned |-> <<>>, is |-> "none"]
NoAttempt == [at |-> "idle"]
NoInfo == [is |-> "none"]

CompactorInit ==
    /\ conv = <<>> /\ snap = NoSnap /\ numbered = 0
    /\ attempt = NoAttempt /\ info = NoInfo

IsUserMessage(m) == m.role = "user"

-----------------------------------------------------------------------------
(* Sizes *)

\* llm.EstimateTokens.
EstimateTokens(messages) ==
    FoldSeq(LAMBDA m, sum : sum + m.size, 0, messages) \div CharsPerToken
        + Len(messages) * MessageOverhead
        + FoldSeq(LAMBDA m, sum : sum + m.images, 0, messages) * ImageTokens

\* clipMiddle: the start and the end, with the note between them.
ClipMiddle(size, limit) == IF size <= limit THEN size ELSE 2 * (limit \div 2) + CutNote

ClipToolResults(messages) ==
    [i \in DOMAIN messages |->
        IF messages[i].role = "tool" THEN [messages[i] EXCEPT !.size = ClipMiddle(@, KeptResult)]
        ELSE messages[i]]

Budget == IF KeepTokens > 0 THEN KeepTokens ELSE IF AgentBudget > 0 THEN AgentBudget ELSE DefaultBudget

From(messages, n) == SubSeq(messages, n + 1, Len(messages))

\* keepFrom: how many messages go, so that the rest is few enough and fits.
KeepFrom(messages) ==
    Min({n \in 0 .. Len(messages) :
            /\ n >= Len(messages) - KeepRecent
            /\ n = Len(messages) \/ EstimateTokens(ClipToolResults(From(messages, n))) <= Budget})

\* memory.SplitPoint: on to the next message that is not a tool result.
SplitAt(messages, n) ==
    Min({i \in n .. Len(messages) : i = Len(messages) \/ messages[i + 1].role # "tool"})

-----------------------------------------------------------------------------
(* What the model is asked, and the compaction *)

\* Variant: the model is not told what the previous summary says.
PromptFor_NewOnly(previous, older) == [i \in DOMAIN older |-> older[i].n]

\* prompt: the previous summary, and the conversation, each message on its own with
\* its role, its calls and their results, long ones cut (summary.Conversation).
PromptFor(previous, older) == previous.of \o [i \in DOMAIN older |-> older[i].n]

\* What is pinned with the summary: the last user message that is not kept, or
\* what was pinned before, unless a kept message is the user's.
PinnedWith(previous, older, recent) ==
    IF SelectSeq(recent, IsUserMessage) # <<>> THEN <<>>
    ELSE IF SelectSeq(older, IsUserMessage) # <<>> THEN <<Last(SelectSeq(older, IsUserMessage))>>
    ELSE previous.pinned

\* Compaction.check: the kept messages are the input's last ones, save their text.
Valid(kept, messages) ==
    /\ kept # <<>> => Len(kept) < Len(messages) /\ kept[1].role # "tool"
    /\ \A i \in DOMAIN kept :
           LET original == messages[Len(messages) - Len(kept) + i] IN
           kept[i].role = original.role /\ kept[i].calls = original.calls /\ kept[i].of = original.of

-----------------------------------------------------------------------------
(* The conversation *)

Sized(role, size, images, calls, of) ==
    [role |-> role, size |-> size, images |-> images, calls |-> calls, of |-> of, n |-> numbered + 1]

\* A run saves its messages: the user's, an answer, or a call and its result.
Save(messages) ==
    /\ attempt = NoAttempt /\ numbered + Len(messages) <= MaxNumbered
    /\ conv' = conv \o messages /\ numbered' = numbered + Len(messages)
    /\ info' = NoInfo
    /\ UNCHANGED <<snap, attempt>>

UserSaid == \E size \in TextSizes, images \in {0, 1} : Save(<<Sized("user", size, images, {}, 0)>>)
Answered == \E size \in TextSizes : Save(<<Sized("assistant", size, 0, {}, 0)>>)
CalledTool ==
    \E size \in TextSizes :
        Save(<<Sized("assistant", 1, 0, {numbered}, 0),
               [Sized("tool", size, 0, {}, numbered) EXCEPT !.n = @ + 1]>>)

-----------------------------------------------------------------------------
(* Agent.Compact *)

Failed(err) ==
    /\ info' = [is |-> err, compacted |-> FALSE, before |-> conv, snap |-> snap]
    /\ attempt' = NoAttempt
    /\ UNCHANGED <<conv, snap, numbered>>

\* The session is loaded, and the split chosen; there may be nothing to summarise.
Compact ==
    /\ attempt = NoAttempt
    /\ LET split == SplitAt(conv, KeepFrom(conv)) IN
       IF split = 0
       THEN /\ info' = [is |-> "nothing", compacted |-> FALSE, before |-> conv, snap |-> snap]
            /\ UNCHANGED attempt
       ELSE /\ attempt' = [at |-> "asks", split |-> split, limited |-> SummaryTokens > 0]
            /\ info' = NoInfo
    /\ UNCHANGED <<conv, snap, numbered>>

\* summarize: a summary cut at the limit that was asked for is asked for once more.
AsksAgain(limited, cut) == limited /\ cut

\* Execute returns the summary, whole or cut at an output limit.
SummaryCut ==
    /\ attempt.at = "asks" /\ AsksAgain(attempt.limited, TRUE)
    /\ attempt' = [attempt EXCEPT !.limited = FALSE]
    /\ UNCHANGED <<conv, snap, numbered, info>>

Summarised ==
    /\ attempt.at = "asks"
    /\ \E cut \in BOOLEAN :
           /\ ~AsksAgain(attempt.limited, cut)
           /\ LET older == SubSeq(conv, 1, attempt.split)
                  recent == From(conv, attempt.split)
                  kept == ClipToolResults(recent)
              IN  IF Valid(kept, conv)
                  THEN /\ attempt' = [at |-> "stores", split |-> attempt.split,
                                      cut |-> IF ~cut THEN "no" ELSE IF attempt.limited THEN "short" ELSE "long",
                                      kept |-> kept,
                                      snap |-> [of |-> PromptFor(snap, older), is |-> "stored",
                                                pinned |-> PinnedWith(snap, older, recent)]]
                       /\ UNCHANGED <<conv, snap, numbered, info>>
                  ELSE Failed("ErrInvalidCompaction")

\* The model fails, or gives no message.
SummaryFails == attempt.at = "asks" /\ Failed("CompactionError")

\* storeSnapshot: the log keeps the messages as they are, and the next run starts
\* with the snapshot and those after it.
SnapshotStored ==
    /\ attempt.at = "stores"
    /\ snap' = attempt.snap /\ conv' = From(conv, attempt.split)
    /\ info' = [is |-> "compacted", compacted |-> TRUE, before |-> conv, snap |-> snap,
                cut |-> attempt.cut, kept |-> attempt.kept]
    /\ attempt' = NoAttempt
    /\ UNCHANGED numbered

\* Outside a run, a compaction that is not stored is lost, and said to be.
SnapshotNotStored == attempt.at = "stores" /\ Failed("snapshotErr")

CompactorNext ==
    \/ UserSaid \/ Answered \/ CalledTool
    \/ Compact \/ SummaryCut \/ Summarised \/ SummaryFails
    \/ SnapshotStored \/ SnapshotNotStored

-----------------------------------------------------------------------------
(* Properties *)

Users == {i \in DOMAIN conv : IsUserMessage(conv[i])}

\* What a compaction leaves can stand in for what was there: nothing that was said is
\* in neither the summary nor the messages that follow it, and nothing in both; what
\* is kept fits the budget and starts with no tool result; the user's last message is
\* verbatim; a summary cut at the limit it was given is not taken; and compacting
\* again would find nothing to do, so that a session that only just fits does not cost
\* a summary with every iteration (SummaryCompactor.Compact, agent/compact.go).
SummaryStandsIn ==
    /\ snap.of \o [i \in DOMAIN conv |-> conv[i].n] = [i \in 1 .. numbered |-> i]
    /\ info.is # "ErrInvalidCompaction"
    /\ info.is = "compacted" =>
           /\ info.kept = <<>> \/ (EstimateTokens(info.kept) <= Budget /\ info.kept[1].role # "tool")
           /\ Len(info.kept) <= KeepRecent
           /\ info.cut # "short"
           /\ SplitAt(conv, KeepFrom(conv)) = 0
           /\ SelectSeq(info.before, IsUserMessage) # <<>> /\ Users = {} =>
                  snap.pinned = <<Last(SelectSeq(info.before, IsUserMessage))>>
           /\ SelectSeq(info.before, IsUserMessage) = <<>> => snap.pinned = info.snap.pinned
    /\ info.is # "none" => (info.compacted <=> <<conv, snap>> # <<info.before, info.snap>>)
=============================================================================
