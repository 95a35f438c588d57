-------------------------- MODULE ServerLifecycle --------------------------
(***************************************************************************)
(* The life of a nats Server: Start registers a micro service and serves,  *)
(* Drain shuts it down (nats/server.go, nats/drain.go, nats/heartbeat.go). *)
(*                                                                         *)
(* Each Start call owns two contexts, the serving one and the prompts'     *)
(* one, and the service it registered is known by the call.  A mutex (mu)  *)
(* covers the handles a drain needs; a gate admits prompts and counts the  *)
(* handlers in flight.  Time appears only as a wait that may end.          *)
(***************************************************************************)
EXTENDS Integers, FiniteSets

CONSTANTS Starts,      \* the calls of Server.Start
          Drains,      \* the calls of Server.Drain made by the embedder
          Requests,    \* the prompts callers send
          None,        \* no call
          OneServes,   \* the embedder makes one Start call after the other
          ZeroBudget   \* WithDrainTimeout is zero or negative

ASSUME ConstantsAssumption ==
    /\ None \notin Starts
    /\ IsFiniteSet(Requests)
    /\ OneServes \in BOOLEAN
    /\ ZeroBudget \in BOOLEAN

VARIABLES
    gate,       \* the gate struct: open, closed, inflight, idle (channel closed)
    mu,         \* the Start that holds Server.mu across its registration
    start,      \* where each Start call is
    ctxDone,    \* the Starts whose caller's context has ended
    serveCancelled,  \* the Starts whose serving context was cancelled
    promptCancelled, \* the Starts whose prompt context was cancelled
    handles,    \* svc, stopServing, cancelPrompts: each names the Start it is of
    endpoint,   \* the prompt endpoint's subscription, per Start
    heartbeat,  \* the heartbeat publisher, per Start (hbWG counts those "on")
    draining,   \* Server.draining
    ready,      \* the ready channel is closed
    drain,      \* where runDrain is; "idle" before the first Drain call
    snap,       \* the handles runDrain took
    drainErr,   \* ErrDrainIncomplete was recorded
    drainCall,  \* where each Drain call of the embedder is
    request,    \* where each prompt is
    via         \* the Start whose endpoint a prompt was routed to

startVars == <<start, ctxDone, serveCancelled, promptCancelled>>
serviceVars == <<endpoint, heartbeat>>
drainVars == <<drain, snap, drainErr, drainCall>>
requestVars == <<request, via>>
vars == <<gate, mu, startVars, handles, serviceVars, draining, ready,
          drainVars, requestVars>>

StartPoints == {"idle", "entered", "locked", "unlocked", "prompted",
                "flushing", "serving", "draining"}
StartResults == {"stopped", "failed", "drained", "incomplete"}
DrainPoints == {"idle", "closing", "snapshot", "stopping", "ending",
                "graceful", "unwinding", "waiting", "done"}
DrainResults == {"drained", "incomplete", "ctx"}
Handles == [svc : Starts \cup {None}, stopServing : Starts \cup {None},
            cancelPrompts : Starts \cup {None}]
NoHandles == [svc |-> None, stopServing |-> None, cancelPrompts |-> None]

TypeOK ==
    /\ gate \in [open : BOOLEAN, closed : BOOLEAN, inflight : Nat, idle : BOOLEAN]
    /\ mu \in Starts \cup {None}
    /\ start \in [Starts -> StartPoints \cup StartResults]
    /\ ctxDone \subseteq Starts
    /\ serveCancelled \subseteq Starts
    /\ promptCancelled \subseteq Starts
    /\ handles \in Handles
    /\ endpoint \in [Starts -> {"none", "live", "draining", "gone"}]
    /\ heartbeat \in [Starts -> {"off", "on", "exited"}]
    /\ draining \in BOOLEAN
    /\ ready \in BOOLEAN
    /\ drain \in DrainPoints
    /\ snap \in Handles
    /\ drainErr \in BOOLEAN
    /\ drainCall \in [Drains -> {"idle", "waiting"} \cup DrainResults]
    /\ request \in [Requests -> {"unsent", "buffered", "running", "answered", "500", "503"}]
    /\ via \in [Requests -> Starts \cup {None}]

Init ==
    /\ gate = [open |-> FALSE, closed |-> FALSE, inflight |-> 0, idle |-> FALSE]
    /\ mu = None
    /\ start = [s \in Starts |-> "idle"]
    /\ ctxDone = {}
    /\ serveCancelled = {}
    /\ promptCancelled = {}
    /\ handles = NoHandles
    /\ endpoint = [s \in Starts |-> "none"]
    /\ heartbeat = [s \in Starts |-> "off"]
    /\ draining = FALSE
    /\ ready = FALSE
    /\ drain = "idle"
    /\ snap = NoHandles
    /\ drainErr = FALSE
    /\ drainCall = [d \in Drains |-> "idle"]
    /\ request = [r \in Requests |-> "unsent"]
    /\ via = [r \in Requests |-> None]
-----------------------------------------------------------------------------
(* The gate's operations; each holds gate.mu for its whole length. *)

GateUnlocked(g) == [g EXCEPT !.open = @ \/ ~g.closed]

\* Variant: a gate that was opened admits for ever.
GateAdmits_Open(g) == g.open

GateAdmits(g) == g.open /\ ~g.closed

\* Variant: a prompt is admitted without being counted.
GateEntered_Uncounted(g) == g

GateEntered(g) == [g EXCEPT !.inflight = @ + 1]

\* Variant: leave signals idle whenever the count falls to zero, closed or not.
GateLeft_Eager(g) ==
    [g EXCEPT !.inflight = @ - 1, !.idle = @ \/ g.inflight = 1]

GateLeft(g) ==
    [g EXCEPT !.inflight = @ - 1, !.idle = @ \/ (g.closed /\ g.inflight = 1)]

GateClosed(g) == [g EXCEPT !.closed = TRUE, !.idle = @ \/ g.inflight = 0]

-----------------------------------------------------------------------------
(* Contexts.  The serving context is a child of the caller's, the prompts'  *)
(* one is detached from it (WithoutCancel).                                 *)

ServeDone(s) == s \in ctxDone \cup serveCancelled

\* Variant: the prompts' context is a child of the caller's.
PromptsCancelled_Child(s) == s \in promptCancelled \cup ctxDone

PromptsCancelled(s) == s \in promptCancelled

StopsServing(s) == serveCancelled' = serveCancelled \cup ({s} \ {None})
CancelsPrompts(s) == promptCancelled' = promptCancelled \cup ({s} \ {None})

\* svc.Stop drains the service's subscriptions: the broker is asked to stop
\* routing, and what is buffered is still delivered.
ServiceStopped(s) ==
    [t \in Starts |-> IF t = s /\ endpoint[t] = "live" THEN "draining" ELSE endpoint[t]]

\* Variant: a drain does not wait for a registration under way.
HandlesSettled_Always == TRUE

\* A drain takes the handles under mu, which a registration holds throughout.
HandlesSettled == mu = None

\* Variant: readiness is announced whatever a drain has done.
ReadyAfterFlush_Always == TRUE

\* markReady, under mu: a server that is going away does not announce itself.
ReadyAfterFlush == ready \/ ~draining

\* What a refused prompt is answered (code server_draining).
RefusalCode == "500"

\* The first Drain call starts runDrain; the later ones find it under way.
DrainStarted == drain' = IF drain = "idle" THEN "closing" ELSE drain

-----------------------------------------------------------------------------
(* Start *)

\* The hasDrained check, made before the lock is taken.
StartEnter(s) ==
    /\ start[s] = "idle"
    /\ OneServes => \A t \in Starts \ {s} : start[t] \in {"idle"} \cup StartResults
    /\ start' = [start EXCEPT ![s] = IF drain = "done" THEN "stopped" ELSE "entered"]
    /\ UNCHANGED <<gate, mu, ctxDone, serveCancelled, promptCancelled, handles,
                   serviceVars, draining, ready, drainVars, requestVars>>

StartRefused(s) ==
    /\ start[s] = "entered"
    /\ mu = None
    /\ draining
    /\ start' = [start EXCEPT ![s] = "stopped"]
    /\ StopsServing(s)
    /\ CancelsPrompts(s)
    /\ UNCHANGED <<gate, mu, ctxDone, handles, serviceVars, draining, ready,
                   drainVars, requestVars>>

StartLock(s) ==
    /\ start[s] = "entered"
    /\ mu = None
    /\ ~draining
    /\ mu' = s
    /\ start' = [start EXCEPT ![s] = "locked"]
    /\ handles' = [handles EXCEPT !.stopServing = s, !.cancelPrompts = s]
    /\ UNCHANGED <<gate, ctxDone, serveCancelled, promptCancelled, serviceVars,
                   draining, ready, drainVars, requestVars>>

\* AddService succeeded; the gate opens before the prompt endpoint exists.
RegisterUnlockGate(s) ==
    /\ start[s] = "locked"
    /\ gate' = GateUnlocked(gate)
    /\ start' = [start EXCEPT ![s] = "unlocked"]
    /\ UNCHANGED <<mu, ctxDone, serveCancelled, promptCancelled, handles,
                   serviceVars, draining, ready, drainVars, requestVars>>

RegisterPromptEndpoint(s) ==
    /\ start[s] = "unlocked"
    /\ endpoint' = [endpoint EXCEPT ![s] = "live"]
    /\ start' = [start EXCEPT ![s] = "prompted"]
    /\ UNCHANGED <<gate, mu, ctxDone, serveCancelled, promptCancelled, handles,
                   heartbeat, draining, ready, drainVars, requestVars>>

\* The status endpoint is added, the first heartbeat published, the publisher
\* started, the service handed over, and the lock released.
RegisterFinish(s) ==
    /\ start[s] = "prompted"
    /\ heartbeat' = [heartbeat EXCEPT ![s] = "on"]
    /\ handles' = [handles EXCEPT !.svc = s]
    /\ mu' = None
    /\ start' = [start EXCEPT ![s] = "flushing"]
    /\ UNCHANGED <<gate, ctxDone, serveCancelled, promptCancelled, endpoint,
                   draining, ready, drainVars, requestVars>>

\* A closed connection, AddService or AddEndpoint fails: the service is stopped
\* and Start returns, its deferred cancellations ending both contexts.
RegisterFail(s) ==
    /\ start[s] \in {"locked", "unlocked", "prompted"}
    /\ endpoint' = ServiceStopped(s)
    /\ mu' = None
    /\ start' = [start EXCEPT ![s] = "failed"]
    /\ StopsServing(s)
    /\ CancelsPrompts(s)
    /\ UNCHANGED <<gate, ctxDone, handles, heartbeat, draining, ready,
                   drainVars, requestVars>>

\* A flush round-trip succeeded: markReady.
MarkReady(s) ==
    /\ start[s] = "flushing"
    /\ mu = None
    /\ ready' = ReadyAfterFlush
    /\ start' = [start EXCEPT ![s] = "serving"]
    /\ UNCHANGED <<gate, mu, ctxDone, serveCancelled, promptCancelled, handles,
                   serviceVars, draining, drainVars, requestVars>>

\* The flush keeps failing until serving ends.
AwaitReadyEnds(s) ==
    /\ start[s] = "flushing"
    /\ ServeDone(s)
    /\ start' = [start EXCEPT ![s] = "serving"]
    /\ UNCHANGED <<gate, mu, ctxDone, serveCancelled, promptCancelled, handles,
                   serviceVars, draining, ready, drainVars, requestVars>>

ServeEnds(s) ==
    /\ start[s] = "serving"
    /\ ServeDone(s)
    /\ start' = [start EXCEPT ![s] = "draining"]
    /\ DrainStarted
    /\ UNCHANGED <<gate, mu, ctxDone, serveCancelled, promptCancelled, handles,
                   serviceVars, draining, ready, snap, drainErr, drainCall, requestVars>>

StartReturns(s) ==
    /\ start[s] = "draining"
    /\ drain = "done"
    /\ start' = [start EXCEPT ![s] = IF drainErr THEN "incomplete" ELSE "drained"]
    /\ StopsServing(s)
    /\ CancelsPrompts(s)
    /\ UNCHANGED <<gate, mu, ctxDone, handles, serviceVars, draining, ready,
                   drainVars, requestVars>>

-----------------------------------------------------------------------------
(* Drain and runDrain *)

DrainCall(d) ==
    /\ drainCall[d] = "idle"
    /\ drainCall' = [drainCall EXCEPT ![d] = "waiting"]
    /\ DrainStarted
    /\ UNCHANGED <<gate, mu, startVars, handles, serviceVars, draining, ready,
                   snap, drainErr, requestVars>>

\* The caller's own context may end its wait; it does not end the drain.
DrainCallReturns(d) ==
    /\ drainCall[d] = "waiting"
    /\ \/ drainCall' = [drainCall EXCEPT ![d] = "ctx"]
       \/ /\ drain = "done"
          /\ drainCall' = [drainCall EXCEPT ![d] =
                               IF drainErr THEN "incomplete" ELSE "drained"]
    /\ UNCHANGED <<gate, mu, startVars, handles, serviceVars, draining, ready,
                   drain, snap, drainErr, requestVars>>

DrainCloseGate ==
    /\ drain = "closing"
    /\ gate' = GateClosed(gate)
    /\ drain' = "snapshot"
    /\ UNCHANGED <<mu, startVars, handles, serviceVars, draining, ready, snap,
                   drainErr, drainCall, requestVars>>

DrainSnapshot ==
    /\ drain = "snapshot"
    /\ HandlesSettled
    /\ draining' = TRUE
    /\ snap' = handles
    /\ drain' = "stopping"
    /\ UNCHANGED <<gate, mu, startVars, handles, serviceVars, ready, drainErr,
                   drainCall, requestVars>>

DrainStopService ==
    /\ drain = "stopping"
    /\ endpoint' = ServiceStopped(snap.svc)
    /\ drain' = "ending"
    /\ UNCHANGED <<gate, mu, startVars, handles, heartbeat, draining, ready, snap,
                   drainErr, drainCall, requestVars>>

DrainStopServing ==
    /\ drain = "ending"
    /\ StopsServing(snap.stopServing)
    /\ drain' = "graceful"
    /\ UNCHANGED <<gate, mu, start, ctxDone, promptCancelled, handles, serviceVars,
                   draining, ready, snap, drainErr, drainCall, requestVars>>

\* waitIdle returned true, in the graceful share of the budget or in the unwind.
DrainIdle ==
    /\ drain \in {"graceful", "unwinding"}
    /\ gate.idle
    /\ drain' = "waiting"
    /\ UNCHANGED <<gate, mu, startVars, handles, serviceVars, draining, ready,
                   snap, drainErr, drainCall, requestVars>>

\* The graceful share is spent: the prompts' context is cancelled.  A timer that
\* fires together with idle may win; without a budget the state is only read.
DrainCancelPrompts ==
    /\ drain = "graceful"
    /\ ZeroBudget => ~gate.idle
    /\ CancelsPrompts(snap.cancelPrompts)
    /\ drain' = "unwinding"
    /\ UNCHANGED <<gate, mu, start, ctxDone, serveCancelled, handles, serviceVars,
                   draining, ready, snap, drainErr, drainCall, requestVars>>

DrainGiveUp ==
    /\ drain = "unwinding"
    /\ drainErr' = TRUE
    /\ drain' = "waiting"
    /\ UNCHANGED <<gate, mu, startVars, handles, serviceVars, draining, ready,
                   snap, drainCall, requestVars>>

\* hbWG.Wait, then drained is closed.
DrainFinish ==
    /\ drain = "waiting"
    /\ \A s \in Starts : heartbeat[s] # "on"
    /\ drain' = "done"
    /\ UNCHANGED <<gate, mu, startVars, handles, serviceVars, draining, ready,
                   snap, drainErr, drainCall, requestVars>>

-----------------------------------------------------------------------------
(* The heartbeat publisher, the embedder, the broker and the prompts *)

HeartbeatExit(s) ==
    /\ heartbeat[s] = "on"
    /\ ServeDone(s)
    /\ heartbeat' = [heartbeat EXCEPT ![s] = "exited"]
    /\ UNCHANGED <<gate, mu, startVars, handles, endpoint, draining, ready,
                   drainVars, requestVars>>

\* The embedder shuts a Start down through its context.
CancelContext(s) ==
    /\ s \notin ctxDone
    /\ start[s] # "idle"
    /\ ctxDone' = ctxDone \cup {s}
    /\ UNCHANGED <<gate, mu, start, serveCancelled, promptCancelled, handles,
                   serviceVars, draining, ready, drainVars, requestVars>>

\* The broker routes a prompt to a subscription it still knows.
RoutePrompt(r, s) ==
    /\ request[r] = "unsent"
    /\ endpoint[s] \in {"live", "draining"}
    /\ request' = [request EXCEPT ![r] = "buffered"]
    /\ via' = [via EXCEPT ![r] = s]
    /\ UNCHANGED <<gate, mu, startVars, handles, serviceVars, draining, ready, drainVars>>

\* The broker has processed the unsubscription.
Unsubscribed(s) ==
    /\ endpoint[s] = "draining"
    /\ endpoint' = [endpoint EXCEPT ![s] = "gone"]
    /\ UNCHANGED <<gate, mu, startVars, handles, heartbeat, draining, ready,
                   drainVars, requestVars>>

\* A prompt that finds the gate shut is answered 500, code server_draining.
HandlePromptRefused(r) ==
    /\ request[r] = "buffered"
    /\ ~GateAdmits(gate)
    /\ request' = [request EXCEPT ![r] = RefusalCode]
    /\ UNCHANGED <<gate, mu, startVars, handles, serviceVars, draining, ready,
                   drainVars, via>>

HandlePromptAdmitted(r) ==
    /\ request[r] = "buffered"
    /\ GateAdmits(gate)
    /\ gate' = GateEntered(gate)
    /\ request' = [request EXCEPT ![r] = "running"]
    /\ UNCHANGED <<mu, startVars, handles, serviceVars, draining, ready,
                   drainVars, via>>

\* processPrompt sent its response or error and the terminator, and leaves.
ProcessPromptReturns(r) ==
    /\ request[r] = "running"
    /\ gate' = GateLeft(gate)
    /\ request' = [request EXCEPT ![r] = "answered"]
    /\ UNCHANGED <<mu, startVars, handles, serviceVars, draining, ready,
                   drainVars, via>>

-----------------------------------------------------------------------------
Register(s) ==
    \/ RegisterUnlockGate(s)
    \/ RegisterPromptEndpoint(s)
    \/ RegisterFinish(s)
    \/ RegisterFail(s)

StartStep(s) ==
    \/ StartEnter(s)
    \/ StartRefused(s)
    \/ StartLock(s)
    \/ Register(s)
    \/ MarkReady(s)
    \/ AwaitReadyEnds(s)
    \/ ServeEnds(s)
    \/ StartReturns(s)

RunDrain ==
    \/ DrainCloseGate
    \/ DrainSnapshot
    \/ DrainStopService
    \/ DrainStopServing
    \/ DrainIdle
    \/ DrainCancelPrompts
    \/ DrainGiveUp
    \/ DrainFinish

PromptStep(r) ==
    \/ \E s \in Starts : RoutePrompt(r, s)
    \/ HandlePromptRefused(r)
    \/ HandlePromptAdmitted(r)
    \/ ProcessPromptReturns(r)

Next ==
    \/ \E s \in Starts :
        StartStep(s) \/ HeartbeatExit(s) \/ CancelContext(s) \/ Unsubscribed(s)
    \/ RunDrain
    \/ \E d \in Drains : DrainCall(d) \/ DrainCallReturns(d)
    \/ \E r \in Requests : PromptStep(r)

Spec == Init /\ [][Next]_vars

(* The goroutines of the server run, and its timers fire.  Nothing is asked *)
(* of the embedder, of the broker (a flush may never succeed) or of the     *)
(* handlers, which may ignore their cancellation.                           *)
Fairness ==
    /\ WF_vars(RunDrain)
    /\ \A s \in Starts :
        /\ WF_vars(StartRefused(s) \/ StartLock(s))
        /\ WF_vars(Register(s))
        /\ WF_vars(AwaitReadyEnds(s))
        /\ WF_vars(ServeEnds(s))
        /\ WF_vars(StartReturns(s))
        /\ WF_vars(HeartbeatExit(s))

FairSpec == Spec /\ Fairness

-----------------------------------------------------------------------------
Running == {r \in Requests : request[r] = "running"}

\* The gate counts exactly the handlers in flight, and its idle channel is
\* closed only when no handler runs and none can start: what a drain waits for
\* cannot grow underneath the wait (drain.go, gate).
GateIsExact ==
    /\ gate.inflight = Cardinality(Running)
    /\ gate.idle => gate.closed /\ Running = {}

\* Once the drain is over, and once a Start has returned, nothing of it is left
\* subscribed or advertising itself, however the drain, a registration and its
\* failure interleaved (server.go, Start and register).
NothingLeftBehind ==
    \A s \in Starts :
        drain = "done" \/ start[s] \in StartResults =>
            endpoint[s] # "live" /\ heartbeat[s] # "on"

\* A shutdown does not abandon work: a running handler sees its context
\* cancelled only after the graceful share of the budget is spent, or when the
\* registration it slipped through failed (server.go, Start).
WorkIsNotAbandoned ==
    \A r \in Running :
        PromptsCancelled(via[r]) =>
            drain \in {"unwinding", "waiting", "done"} \/ start[via[r]] = "failed"

\* Ready is closed while the server takes prompts, never by one that is going
\* away (server.go, markReady).
ReadyMeansServing ==
    [][ready' # ready => ~draining /\ \E s \in Starts : endpoint[s] = "live"]_vars

\* The budget bounds the drain: whatever the handlers do, it ends (drain.go,
\* Drain: "bounds the whole of this").
DrainEnds == drain # "idle" ~> drain = "done"

-----------------------------------------------------------------------------
(* The server keeps the shutdown contract. *)

Phase ==
    IF ~gate.closed THEN "accepting"
    ELSE IF drain # "done" THEN "closing"
    ELSE IF drainErr THEN "incomplete" ELSE "clean"

Contract == INSTANCE DrainContract
    WITH phase <- Phase,
         working <- Running,
         finished <- {r \in Requests : request[r] = "answered"}

\* Prompts are taken only before the shutdown, and a drain that reports success
\* left none running.
KeepsContract == Contract!Spec
=============================================================================
