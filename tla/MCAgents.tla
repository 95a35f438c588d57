------------------------------ MODULE MCAgents ------------------------------
(***************************************************************************)
(* Runs of agents, in four parts: two runs on one memory, in turn; two     *)
(* that overlap; what is told of a run; and the conversation that a        *)
(* compactor shortens.  A behaviour is one part's, and the state space the *)
(* sum of theirs.                                                          *)
(*                                                                         *)
(* Runs in turn may compact twice, and a save may be made and reported as  *)
(* failed.  Runs that overlap have the same variables but for the memory's *)
(* snapshot, which is promised to stand for what it covers of runs in turn *)
(* only.  The compactor's budget is of three short messages.               *)
(***************************************************************************)
EXTENDS AgentRun, RunEvents, SequencesExt

CONSTANTS r1, r2,
          TextSizes, MaxNumbered, KeepRecent, KeepTokens, AgentBudget, DefaultBudget, SummaryTokens,
          KeptResult, CutNote, CharsPerToken, MessageOverhead, ImageTokens

VARIABLES part, \* whose behaviour this is
          sharedLatest, \* the snapshot that runs that overlap share
          conv, snap, numbered, attempt, info

MCRuns == {r1, r2}
Symmetry == Permutations(MCRuns)

Overlapping == INSTANCE AgentRun
    WITH Concurrent <- TRUE, MaxRounds <- 1, MaxCompactions <- 1, MaxLost <- 0,
         latest <- sharedLatest

\* A conversation of an earlier run; answers of no text, and of two deltas.
MCHistory ==
    <<[by |-> "history", role |-> "user", text |-> <<1>>, n |-> 1],
      [by |-> "history", role |-> "assistant", text |-> <<1>>, n |-> 2]>>
MCTexts == {<<>>, <<1, 2>>}

Compactor == INSTANCE SummaryCompactor

compactVars == <<conv, snap, numbered, attempt, info>>

-----------------------------------------------------------------------------
\* The other parts keep one of the initial states of a run that is told.
MCInit ==
    /\ part \in {"in turn", "overlapping", "told", "compactor"}
    /\ Init /\ Overlapping!Init /\ EventsInit /\ Compactor!CompactorInit
    /\ part # "told" => consumer = "none"

Only(p) == part = p /\ UNCHANGED part

MCNext ==
    \/ Only("in turn") /\ Next /\ UNCHANGED <<sharedLatest, eventVars, compactVars>>
    \/ Only("overlapping") /\ Overlapping!Next /\ UNCHANGED <<latest, eventVars, compactVars>>
    \/ Only("told") /\ EventsNext /\ UNCHANGED <<vars, sharedLatest, compactVars>>
    \/ Only("compactor") /\ Compactor!CompactorNext /\ UNCHANGED <<vars, sharedLatest, eventVars>>

MCSpec == MCInit /\ [][MCNext]_<<part, vars, sharedLatest, eventVars, compactVars>>

-----------------------------------------------------------------------------
\* NothingForgotten, of runs that overlap: "SaveSnapshot stores s as standing for every log
\* message up to and including upTo" (memory/snapshot.go).
OverlapForgetsNothing == Overlapping!NothingForgotten

\* What a compaction leaves stands in for what was there (agent/compact.go).
SummaryStandsIn == Compactor!SummaryStandsIn
=============================================================================
