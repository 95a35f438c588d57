------------------------------- MODULE MCWaits -------------------------------
(***************************************************************************)
(* Model-checking instances of four parts that share no state, and in      *)
(* which somebody waits: three of the NATS protocol (a prompt's stream,    *)
(* the cutting of a response into chunks, a server's drain), and runs, of  *)
(* AgentRun, one after the other on one memory.  A behaviour is one        *)
(* part's, and the state space the sum of theirs.                          *)
(*                                                                         *)
(* The server has no time for its drain, two Starts one after the other,   *)
(* one Drain call and one prompt.                                          *)
(***************************************************************************)
EXTENDS PromptStream, ResponseChunks, AgentRun

CONSTANTS Starts, Drains, Requests, None, OneServes, ZeroBudget

VARIABLES part, \* whose behaviour this is
          gate, mu, start, ctxDone, serveCancelled, promptCancelled, handles, endpoint,
          heartbeat, draining, ready, drain, snap, drainErr, drainCall, routed, via

Server == INSTANCE ServerLifecycle WITH request <- routed

serverVars ==
    <<gate, mu, start, ctxDone, serveCancelled, promptCancelled, handles, endpoint,
      heartbeat, draining, ready, drain, snap, drainErr, drainCall, routed, via>>

MCRunes == {[size |-> 1, cost |-> 1], [size |-> 1, cost |-> 3], [size |-> 2, cost |-> 2]}

MCVars == <<part, promptVars, chunkVars, vars, serverVars>>

MCInit ==
    /\ part \in {"prompt", "chunks", "run", "server"}
    /\ PromptInit /\ ChunksInit /\ Init /\ Server!Init

OnlyPrompt == part = "prompt" /\ UNCHANGED <<part, chunkVars, vars, serverVars>>
OnlyChunks == part = "chunks" /\ UNCHANGED <<part, promptVars, vars, serverVars>>
OnlyRun == part = "run" /\ UNCHANGED <<part, promptVars, chunkVars, serverVars>>
OnlyServer == part = "server" /\ UNCHANGED <<part, promptVars, chunkVars, vars>>

MCNext ==
    \/ OnlyPrompt /\ PromptNext
    \/ OnlyChunks /\ ChunksNext
    \/ OnlyRun /\ Next
    \/ OnlyServer /\ Server!Next

MCSpec ==
    /\ MCInit /\ [][MCNext]_MCVars
    /\ WF_MCVars(OnlyPrompt /\ PromptProgress)
    /\ WF_MCVars(OnlyChunks /\ ChunksProgress)
    /\ \A r \in Runs : WF_MCVars(OnlyRun /\ Step(r))
    /\ Server!Fairness

-----------------------------------------------------------------------------
\* What a caller waits for comes: Stream.Text returns; the cutting of a response, "always
\* making progress", ends; so does a run, whatever the model, the tools and the compactor
\* answer (agent.run, compactedOnError); and a drain that was begun, though the handlers
\* ignore their cancellation and the broker never answers (nats/drain.go).
WaitsEnd == TextReturns /\ SplitEnds /\ RunsEnd /\ Server!DrainEnds
=============================================================================
