----------------------- MODULE ServerLifecycleProofs -----------------------
(***************************************************************************)
(* Proofs about ServerLifecycle for any number of Start calls, Drain calls *)
(* and prompts: the gate counts exactly, a Server keeps the shutdown       *)
(* contract, and, when the embedder makes one Start call after the other,  *)
(* nothing is left registered behind a drain or a Start that returned.     *)
(* And about A2ATask, for any replies and any number of cancels: the tool  *)
(* of a remote agent reports what became of its task.  And about           *)
(* AgentDiscovery, for any servers, filters, requests and limits: a caller *)
(* finds the instances there are, and its prompt arrives or is refused as  *)
(* it has to be.                                                           *)
(***************************************************************************)
EXTENDS ServerLifecycle, A2ATask, AgentDiscovery, FiniteSetTheorems, WellFoundedInduction, TLAPS

\* The gate is closed by runDrain's first step, and every way out of the two
\* waits that records no error saw the idle channel closed.
DrainFollowsGate ==
    /\ gate.closed <=> drain \notin {"idle", "closing"}
    /\ drain \in {"waiting", "done"} /\ ~drainErr => gate.idle

GateInv == TypeOK /\ GateIsExact /\ DrainFollowsGate

-----------------------------------------------------------------------------
(* What each operation of the gate returns. *)

GateType == [open : BOOLEAN, closed : BOOLEAN, inflight : Nat, idle : BOOLEAN]

LEMMA UnlockedGate ==
    ASSUME NEW g \in GateType
    PROVE  /\ GateUnlocked(g) \in GateType
           /\ GateUnlocked(g).closed = g.closed
           /\ GateUnlocked(g).inflight = g.inflight
           /\ GateUnlocked(g).idle = g.idle
BY Zenon DEF GateUnlocked, GateType

LEMMA EnteredGate ==
    ASSUME NEW g \in GateType
    PROVE  /\ GateEntered(g) \in GateType
           /\ GateEntered(g).closed = g.closed
           /\ GateEntered(g).inflight = g.inflight + 1
           /\ GateEntered(g).idle = g.idle
<1>1. g.inflight + 1 \in Nat BY DEF GateType
<1>2. QED BY <1>1, Zenon DEF GateEntered, GateType

LEMMA LeftGate ==
    ASSUME NEW g \in GateType, g.inflight - 1 \in Nat
    PROVE  /\ GateLeft(g) \in GateType
           /\ GateLeft(g).closed = g.closed
           /\ GateLeft(g).inflight = g.inflight - 1
           /\ GateLeft(g).idle <=> g.idle \/ (g.closed /\ g.inflight = 1)
BY Zenon DEF GateLeft, GateType

LEMMA ClosedGate ==
    ASSUME NEW g \in GateType
    PROVE  /\ GateClosed(g) \in GateType
           /\ GateClosed(g).closed
           /\ GateClosed(g).inflight = g.inflight
           /\ GateClosed(g).idle <=> g.idle \/ g.inflight = 0
BY Zenon DEF GateClosed, GateType

LEMMA GateIsTyped == TypeOK => gate \in GateType
BY DEF TypeOK, GateType

-----------------------------------------------------------------------------
LEMMA InitGateInv == ASSUME ConstantsAssumption, Init PROVE GateInv
<1>1. TypeOK
  BY DEF Init, TypeOK, ConstantsAssumption, StartPoints, StartResults,
         DrainPoints, DrainResults, Handles, NoHandles
<1>2. GateIsExact
  <2>1. Running = {} BY DEF Init, Running
  <2>2. QED BY <2>1, FS_EmptySet DEF Init, GateIsExact
<1>3. DrainFollowsGate BY DEF Init, DrainFollowsGate
<1>4. QED BY <1>1, <1>2, <1>3 DEF GateInv

\* What entering and leaving do to the set of running handlers and its size.
LEMMA RunningIsFinite ==
    ASSUME ConstantsAssumption PROVE IsFiniteSet(Running)
BY FS_Subset DEF ConstantsAssumption, Running

LEMMA RunningGrows ==
    ASSUME ConstantsAssumption, TypeOK, NEW r \in Requests, HandlePromptAdmitted(r)
    PROVE  /\ Running' = Running \cup {r}
           /\ r \notin Running
           /\ Cardinality(Running') = Cardinality(Running) + 1
<1>1. Running' = Running \cup {r} /\ r \notin Running
  BY DEF HandlePromptAdmitted, Running, TypeOK
<1>2. QED BY <1>1, RunningIsFinite, FS_AddElement

LEMMA RunningShrinks ==
    ASSUME ConstantsAssumption, TypeOK, NEW r \in Requests, ProcessPromptReturns(r)
    PROVE  /\ Running' = Running \ {r}
           /\ r \in Running
           /\ Cardinality(Running) \in Nat \ {0}
           /\ Cardinality(Running') = Cardinality(Running) - 1
           /\ Cardinality(Running) = 1 => Running' = {}
<1>1. Running' = Running \ {r} /\ r \in Running
  BY DEF ProcessPromptReturns, Running, TypeOK
<1>2. Cardinality(Running) \in Nat /\ Cardinality(Running) # 0
  BY <1>1, RunningIsFinite, FS_CardinalityType, FS_EmptySet
<1>3. Cardinality(Running') = Cardinality(Running) - 1
  BY <1>1, RunningIsFinite, FS_RemoveElement
<1>4. IsFiniteSet(Running') BY <1>1, RunningIsFinite, FS_RemoveElement
<1>5. Cardinality(Running) = 1 => Running' = {}
  BY <1>2, <1>3, <1>4, FS_EmptySet
<1>6. QED BY <1>1, <1>2, <1>3, <1>5

-----------------------------------------------------------------------------
\* Type correctness is preserved by every step.  The count of a gate that a
\* handler leaves stays a natural number because the gate counts exactly.
LEMMA TypeStep == ASSUME ConstantsAssumption, GateInv, [Next]_vars PROVE TypeOK'
<1> USE DEF GateInv, TypeOK, StartPoints, StartResults, DrainPoints, DrainResults,
            Handles, startVars, serviceVars, drainVars, requestVars,
            StopsServing, CancelsPrompts, ServiceStopped, DrainStarted
<1>1. ASSUME NEW s \in Starts, StartEnter(s) PROVE TypeOK'
  BY <1>1 DEF StartEnter
<1>2. ASSUME NEW s \in Starts, StartRefused(s) PROVE TypeOK'
  BY <1>2 DEF StartRefused
<1>3. ASSUME NEW s \in Starts, StartLock(s) PROVE TypeOK'
  <2>1. handles' \in Handles BY <1>3 DEF StartLock
  <2>2. QED BY <1>3, <2>1 DEF StartLock
<1>4. ASSUME NEW s \in Starts, RegisterUnlockGate(s) PROVE TypeOK'
  <2>1. gate' \in GateType BY <1>4, GateIsTyped, UnlockedGate DEF RegisterUnlockGate
  <2>2. QED BY <1>4, <2>1 DEF RegisterUnlockGate, GateType
<1>5. ASSUME NEW s \in Starts, RegisterPromptEndpoint(s) PROVE TypeOK'
  BY <1>5 DEF RegisterPromptEndpoint
<1>6. ASSUME NEW s \in Starts, RegisterFinish(s) PROVE TypeOK'
  BY <1>6 DEF RegisterFinish
<1>7. ASSUME NEW s \in Starts, RegisterFail(s) PROVE TypeOK'
  BY <1>7 DEF RegisterFail
<1>8. ASSUME NEW s \in Starts, MarkReady(s) PROVE TypeOK'
  BY <1>8 DEF MarkReady, ReadyAfterFlush
<1>9. ASSUME NEW s \in Starts, AwaitReadyEnds(s) PROVE TypeOK'
  BY <1>9 DEF AwaitReadyEnds
<1>10. ASSUME NEW s \in Starts, ServeEnds(s) PROVE TypeOK'
  BY <1>10 DEF ServeEnds
<1>11. ASSUME NEW s \in Starts, StartReturns(s) PROVE TypeOK'
  BY <1>11 DEF StartReturns
<1>12. ASSUME NEW s \in Starts, HeartbeatExit(s) PROVE TypeOK'
  BY <1>12 DEF HeartbeatExit
<1>13. ASSUME NEW s \in Starts, CancelContext(s) PROVE TypeOK'
  BY <1>13 DEF CancelContext
<1>14. ASSUME NEW s \in Starts, Unsubscribed(s) PROVE TypeOK'
  BY <1>14 DEF Unsubscribed
<1>15. CASE DrainCloseGate
  <2>1. gate' \in GateType BY <1>15, GateIsTyped, ClosedGate DEF DrainCloseGate
  <2>2. QED BY <1>15, <2>1 DEF DrainCloseGate, GateType
<1>16. CASE DrainSnapshot
  BY <1>16 DEF DrainSnapshot, HandlesSettled
<1>17. CASE DrainStopService
  BY <1>17 DEF DrainStopService
<1>18. CASE DrainStopServing
  BY <1>18 DEF DrainStopServing
<1>19. CASE DrainIdle
  BY <1>19 DEF DrainIdle
<1>20. CASE DrainCancelPrompts
  BY <1>20 DEF DrainCancelPrompts
<1>21. CASE DrainGiveUp
  BY <1>21 DEF DrainGiveUp
<1>22. CASE DrainFinish
  BY <1>22 DEF DrainFinish
<1>23. ASSUME NEW d \in Drains, DrainCall(d) PROVE TypeOK'
  BY <1>23 DEF DrainCall
<1>24. ASSUME NEW d \in Drains, DrainCallReturns(d) PROVE TypeOK'
  BY <1>24 DEF DrainCallReturns
<1>25. ASSUME NEW r \in Requests, NEW s \in Starts, RoutePrompt(r, s) PROVE TypeOK'
  BY <1>25 DEF RoutePrompt
<1>26. ASSUME NEW r \in Requests, HandlePromptRefused(r) PROVE TypeOK'
  BY <1>26 DEF HandlePromptRefused, RefusalCode
<1>27. ASSUME NEW r \in Requests, HandlePromptAdmitted(r) PROVE TypeOK'
  <2>1. gate' \in GateType BY <1>27, GateIsTyped, EnteredGate DEF HandlePromptAdmitted
  <2>2. QED BY <1>27, <2>1 DEF HandlePromptAdmitted, GateType
<1>28. ASSUME NEW r \in Requests, ProcessPromptReturns(r) PROVE TypeOK'
  <2>1. gate.inflight - 1 \in Nat BY <1>28, RunningShrinks DEF GateIsExact
  <2>2. gate' \in GateType
    BY <1>28, <2>1, GateIsTyped, LeftGate DEF ProcessPromptReturns
  <2>3. QED BY <1>28, <2>2 DEF ProcessPromptReturns, GateType
<1>29. CASE UNCHANGED vars
  BY <1>29 DEF vars
<1>30. QED
  BY <1>1, <1>2, <1>3, <1>4, <1>5, <1>6, <1>7, <1>8, <1>9, <1>10,
     <1>11, <1>12, <1>13, <1>14, <1>15, <1>16, <1>17, <1>18, <1>19, <1>20,
     <1>21, <1>22, <1>23, <1>24, <1>25, <1>26, <1>27, <1>28, <1>29
     DEF Next, StartStep, Register, RunDrain, PromptStep

-----------------------------------------------------------------------------
\* Only a prompt's own steps and runDrain's first one move the gate's count, its
\* closed flag or its idle channel.
GateFrame ==
    /\ gate'.closed = gate.closed
    /\ gate'.inflight = gate.inflight
    /\ gate'.idle = gate.idle

\* A step that moves neither the gate nor the prompts, and moves runDrain only as
\* it may, preserves the invariant.
LEMMA QuietStep ==
    ASSUME ConstantsAssumption, GateInv, GateFrame, UNCHANGED Running,
           drain' = drain \/ (drain = "idle" /\ drain' = "closing"),
           UNCHANGED drainErr
    PROVE  GateIsExact' /\ DrainFollowsGate'
BY DEF GateInv, GateFrame, GateIsExact, DrainFollowsGate

LEMMA GateStep ==
    ASSUME ConstantsAssumption, GateInv, [Next]_vars
    PROVE  GateIsExact' /\ DrainFollowsGate'
<1> USE DEF GateInv, startVars, serviceVars, drainVars, requestVars
<1>1. ASSUME NEW s \in Starts,
             StartStep(s) \/ HeartbeatExit(s) \/ CancelContext(s) \/ Unsubscribed(s)
      PROVE  GateIsExact' /\ DrainFollowsGate'
  <2>1. GateFrame
    <3>1. CASE RegisterUnlockGate(s)
      BY <3>1, GateIsTyped, UnlockedGate DEF RegisterUnlockGate, GateFrame
    <3>2. CASE UNCHANGED gate BY <3>2 DEF GateFrame
    <3>3. QED
      BY <1>1, <3>1, <3>2
      DEF StartStep, Register, StartEnter, StartRefused, StartLock,
          RegisterPromptEndpoint, RegisterFinish, RegisterFail, MarkReady,
          AwaitReadyEnds, ServeEnds, StartReturns, HeartbeatExit,
          CancelContext, Unsubscribed
  <2>2. UNCHANGED Running /\ UNCHANGED drainErr
    BY <1>1
    DEF Running, StartStep, Register, StartEnter, StartRefused, StartLock,
        RegisterUnlockGate, RegisterPromptEndpoint, RegisterFinish, RegisterFail,
        MarkReady, AwaitReadyEnds, ServeEnds, StartReturns, HeartbeatExit,
        CancelContext, Unsubscribed
  <2>3. drain' = drain \/ (drain = "idle" /\ drain' = "closing")
    BY <1>1
    DEF StartStep, Register, StartEnter, StartRefused, StartLock,
        RegisterUnlockGate, RegisterPromptEndpoint, RegisterFinish, RegisterFail,
        MarkReady, AwaitReadyEnds, ServeEnds, StartReturns, HeartbeatExit,
        CancelContext, Unsubscribed, DrainStarted
  <2>4. QED BY <2>1, <2>2, <2>3, QuietStep
<1>2. CASE RunDrain
  <2> UNCHANGED Running
    BY <1>2
    DEF Running, RunDrain, DrainCloseGate, DrainSnapshot, DrainStopService,
        DrainStopServing, DrainIdle, DrainCancelPrompts, DrainGiveUp, DrainFinish
  <2>1. CASE DrainCloseGate
    <3>1. gate.inflight = 0 => Running = {}
      BY RunningIsFinite, FS_EmptySet DEF GateIsExact
    <3>2. GateIsExact'
      BY <2>1, <3>1, GateIsTyped, ClosedGate DEF DrainCloseGate, GateIsExact
    <3>3. DrainFollowsGate'
      BY <2>1, GateIsTyped, ClosedGate DEF DrainCloseGate, DrainFollowsGate
    <3>4. QED BY <3>2, <3>3
  <2>2. CASE ~DrainCloseGate
    <3>1. UNCHANGED gate
      BY <1>2, <2>2
      DEF RunDrain, DrainSnapshot, DrainStopService, DrainStopServing, DrainIdle,
          DrainCancelPrompts, DrainGiveUp, DrainFinish
    <3>2. GateIsExact' BY <3>1 DEF GateIsExact
    <3>3. DrainFollowsGate'
      BY <1>2, <2>2, <3>1
      DEF RunDrain, DrainSnapshot, DrainStopService, DrainStopServing, DrainIdle,
          DrainCancelPrompts, DrainGiveUp, DrainFinish, DrainFollowsGate
    <3>4. QED BY <3>2, <3>3
  <2>3. QED BY <2>1, <2>2
<1>3. ASSUME NEW d \in Drains, DrainCall(d) \/ DrainCallReturns(d)
      PROVE  GateIsExact' /\ DrainFollowsGate'
  BY <1>3, QuietStep
  DEF DrainCall, DrainCallReturns, DrainStarted, Running, GateFrame
<1>4. ASSUME NEW r \in Requests, PromptStep(r)
      PROVE  GateIsExact' /\ DrainFollowsGate'
  <2>1. CASE HandlePromptAdmitted(r)
    <3>1. ~gate.closed /\ ~gate.idle
      BY <2>1 DEF HandlePromptAdmitted, GateAdmits, GateIsExact
    <3>2. GateIsExact'
      BY <2>1, <3>1, GateIsTyped, EnteredGate, RunningGrows
      DEF HandlePromptAdmitted, GateIsExact
    <3>3. DrainFollowsGate'
      BY <2>1, GateIsTyped, EnteredGate DEF HandlePromptAdmitted, DrainFollowsGate
    <3>4. QED BY <3>2, <3>3
  <2>2. CASE ProcessPromptReturns(r)
    <3>1. gate.inflight - 1 \in Nat /\ ~gate.idle
      BY <2>2, RunningShrinks DEF GateIsExact
    <3>2. GateIsExact'
      BY <2>2, <3>1, GateIsTyped, LeftGate, RunningShrinks
      DEF ProcessPromptReturns, GateIsExact
    <3>3. DrainFollowsGate'
      BY <2>2, <3>1, GateIsTyped, LeftGate DEF ProcessPromptReturns, DrainFollowsGate
    <3>4. QED BY <3>2, <3>3
  <2>3. CASE HandlePromptRefused(r) \/ \E s \in Starts : RoutePrompt(r, s)
    <3>1. UNCHANGED Running
      BY <2>3 DEF HandlePromptRefused, RoutePrompt, RefusalCode, Running, TypeOK
    <3>2. QED
      BY <2>3, <3>1, QuietStep DEF HandlePromptRefused, RoutePrompt, GateFrame
  <2>4. QED BY <1>4, <2>1, <2>2, <2>3 DEF PromptStep
<1>5. CASE UNCHANGED vars
  BY <1>5, QuietStep DEF vars, Running, GateFrame
<1>6. QED BY <1>1, <1>2, <1>3, <1>4, <1>5 DEF Next

\* Every variable keeps its type, whatever the Starts, drains and prompts.
THEOREM TypeCorrect == Spec => []TypeOK
<1>1. Init => GateInv BY InitGateInv, ConstantsAssumption
<1>2. GateInv /\ [Next]_vars => GateInv'
  BY TypeStep, GateStep, ConstantsAssumption DEF GateInv
<1>3. GateInv => TypeOK BY DEF GateInv
<1>4. QED BY <1>1, <1>2, <1>3, PTL DEF Spec

LEMMA GateInvariant == Spec => []GateInv
<1>1. Init => GateInv BY InitGateInv, ConstantsAssumption
<1>2. GateInv /\ [Next]_vars => GateInv'
  BY TypeStep, GateStep, ConstantsAssumption DEF GateInv
<1>3. QED BY <1>1, <1>2, PTL DEF Spec

\* The gate counts the handlers in flight exactly, and reports idle only when
\* none runs and none can start (drain.go, gate).
THEOREM GateCountsExactly == Spec => []GateIsExact
<1>1. GateInv => GateIsExact BY DEF GateInv
<1>2. QED BY <1>1, GateInvariant, PTL

-----------------------------------------------------------------------------
(* The server keeps the shutdown contract: every step maps to a step of it  *)
(* or to a stutter.                                                         *)

LEMMA ContractInit == ASSUME Init PROVE Contract!Init
BY DEF Init, Contract!Init, Phase, Running

LEMMA ContractStep ==
    ASSUME ConstantsAssumption, GateInv, [Next]_vars
    PROVE  [Contract!Next]_(Contract!vars)
<1> DEFINE Answered == {r \in Requests : request[r] = "answered"}
<1> USE DEF GateInv, startVars, serviceVars, drainVars, requestVars, Contract!vars
<1>1. ASSUME NEW s \in Starts,
             StartStep(s) \/ HeartbeatExit(s) \/ CancelContext(s) \/ Unsubscribed(s)
      PROVE  UNCHANGED Contract!vars
  <2>1. UNCHANGED Running /\ UNCHANGED Answered /\ UNCHANGED drainErr
    BY <1>1
    DEF Running, StartStep, Register, StartEnter, StartRefused, StartLock,
        RegisterUnlockGate, RegisterPromptEndpoint, RegisterFinish, RegisterFail,
        MarkReady, AwaitReadyEnds, ServeEnds, StartReturns, HeartbeatExit,
        CancelContext, Unsubscribed
  <2>2. UNCHANGED gate.closed
    <3>1. CASE RegisterUnlockGate(s)
      BY <3>1, GateIsTyped, UnlockedGate DEF RegisterUnlockGate
    <3>2. CASE UNCHANGED gate BY <3>2
    <3>3. QED
      BY <1>1, <3>1, <3>2
      DEF StartStep, Register, StartEnter, StartRefused, StartLock,
          RegisterPromptEndpoint, RegisterFinish, RegisterFail, MarkReady,
          AwaitReadyEnds, ServeEnds, StartReturns, HeartbeatExit,
          CancelContext, Unsubscribed
  <2>3. drain' = drain \/ (drain = "idle" /\ drain' = "closing")
    BY <1>1
    DEF StartStep, Register, StartEnter, StartRefused, StartLock,
        RegisterUnlockGate, RegisterPromptEndpoint, RegisterFinish, RegisterFail,
        MarkReady, AwaitReadyEnds, ServeEnds, StartReturns, HeartbeatExit,
        CancelContext, Unsubscribed, DrainStarted
  <2>4. UNCHANGED Phase BY <2>1, <2>2, <2>3 DEF Phase, DrainFollowsGate
  <2>5. QED BY <2>1, <2>4
<1>2. CASE RunDrain
  <2>1. UNCHANGED Running /\ UNCHANGED Answered
    BY <1>2
    DEF Running, RunDrain, DrainCloseGate, DrainSnapshot, DrainStopService,
        DrainStopServing, DrainIdle, DrainCancelPrompts, DrainGiveUp, DrainFinish
  <2>2. CASE DrainCloseGate
    <3>1. Phase = "accepting" /\ Phase' = "closing"
      BY <2>2, GateIsTyped, ClosedGate DEF DrainCloseGate, Phase, DrainFollowsGate
    <3>2. QED BY <2>1, <3>1 DEF Contract!Next, Contract!Shut
  <2>3. CASE DrainFinish
    <3>1. Phase = "closing"
      BY <2>3 DEF DrainFinish, Phase, DrainFollowsGate
    <3>2. CASE drainErr
      <4>1. Phase' = "incomplete"
        BY <2>3, <3>2 DEF DrainFinish, Phase, DrainFollowsGate
      <4>2. QED BY <2>1, <3>1, <4>1 DEF Contract!Next, Contract!ConcludeIncomplete
    <3>3. CASE ~drainErr
      <4>1. Phase' = "clean"
        BY <2>3, <3>3 DEF DrainFinish, Phase, DrainFollowsGate
      <4>2. Running = {}
        BY <2>3, <3>3 DEF DrainFinish, DrainFollowsGate, GateIsExact
      <4>3. QED BY <2>1, <3>1, <4>1, <4>2 DEF Contract!Next, Contract!ConcludeClean
    <3>4. QED BY <3>2, <3>3
  <2>4. CASE ~DrainCloseGate /\ ~DrainFinish
    <3>1. UNCHANGED Phase
      BY <1>2, <2>4
      DEF RunDrain, DrainSnapshot, DrainStopService, DrainStopServing, DrainIdle,
          DrainCancelPrompts, DrainGiveUp, Phase
    <3>2. QED BY <2>1, <3>1
  <2>5. QED BY <2>2, <2>3, <2>4
<1>3. ASSUME NEW d \in Drains, DrainCall(d) \/ DrainCallReturns(d)
      PROVE  UNCHANGED Contract!vars
  BY <1>3
  DEF DrainCall, DrainCallReturns, DrainStarted, Running, Phase, DrainFollowsGate
<1>4. ASSUME NEW r \in Requests, PromptStep(r)
      PROVE  [Contract!Next]_(Contract!vars)
  <2>1. UNCHANGED <<drain, drainErr>> /\ UNCHANGED gate.closed
    <3>1. CASE HandlePromptAdmitted(r)
      BY <3>1, GateIsTyped, EnteredGate DEF HandlePromptAdmitted
    <3>2. CASE ProcessPromptReturns(r)
      <4>1. gate.inflight - 1 \in Nat BY <3>2, RunningShrinks DEF GateIsExact
      <4>2. QED BY <3>2, <4>1, GateIsTyped, LeftGate DEF ProcessPromptReturns
    <3>3. CASE HandlePromptRefused(r) \/ \E s \in Starts : RoutePrompt(r, s)
      BY <3>3 DEF HandlePromptRefused, RoutePrompt
    <3>4. QED BY <1>4, <3>1, <3>2, <3>3 DEF PromptStep
  <2>2. UNCHANGED Phase BY <2>1 DEF Phase
  <2>3. CASE HandlePromptAdmitted(r)
    <3>1. Phase = "accepting" /\ r \notin Running \cup Answered
      BY <2>3 DEF HandlePromptAdmitted, GateAdmits, Phase, Running
    <3>2. Running' = Running \cup {r} BY <2>3, RunningGrows
    <3>3. UNCHANGED Answered BY <2>3 DEF HandlePromptAdmitted, TypeOK
    <3>4. QED BY <2>2, <3>1, <3>2, <3>3 DEF Contract!Next, Contract!Admit
  <2>4. CASE ProcessPromptReturns(r)
    <3>1. r \in Running /\ Running' = Running \ {r} BY <2>4, RunningShrinks
    <3>2. Answered' = Answered \cup {r} BY <2>4 DEF ProcessPromptReturns, TypeOK
    <3>3. QED BY <2>2, <3>1, <3>2 DEF Contract!Next, Contract!Finish
  <2>5. CASE HandlePromptRefused(r) \/ \E s \in Starts : RoutePrompt(r, s)
    <3>1. UNCHANGED Running /\ UNCHANGED Answered
      BY <2>5 DEF HandlePromptRefused, RoutePrompt, RefusalCode, Running, TypeOK
    <3>2. QED BY <2>2, <3>1
  <2>6. QED BY <1>4, <2>3, <2>4, <2>5 DEF PromptStep
<1>5. CASE UNCHANGED vars
  BY <1>5 DEF vars, Running, Phase
<1>6. QED BY <1>1, <1>2, <1>3, <1>4, <1>5 DEF Next

\* A Server implements DrainContract: prompts are taken only before the shutdown,
\* and a drain that reports success left none running.
THEOREM ServerKeepsContract == Spec => KeepsContract
<1>1. GateInv /\ [Next]_vars => [Contract!Next]_(Contract!vars)
  BY ContractStep, ConstantsAssumption
<1>2. QED BY <1>1, ContractInit, GateInvariant, PTL DEF Spec, KeepsContract, Contract!Spec

-----------------------------------------------------------------------------
(* Nothing is left behind, when one Start call follows the other.           *)

Registering == {"locked", "unlocked", "prompted"}
Serving == {"flushing", "serving", "draining"}
Active(s) == start[s] \notin {"idle"} \cup StartResults

\* mu is held exactly across a registration; a drain snapshots the handles with
\* no registration under way, so what it takes is the service of whoever serves.
RegistrationInv ==
    /\ \A s \in Starts : start[s] \in Registering <=> mu = s
    /\ \A s, t \in Starts : Active(s) /\ Active(t) => s = t
    /\ \A s \in Starts :
        /\ endpoint[s] = "live" => start[s] \in {"prompted"} \cup Serving
        /\ heartbeat[s] = "on" => start[s] \in Serving
        /\ start[s] \in Serving => handles.svc = s
        /\ draining => start[s] \notin Registering
        /\ draining /\ start[s] \in Serving => snap.svc = s
        /\ drain \notin {"idle", "closing", "snapshot", "stopping"} => endpoint[s] # "live"
        /\ drain = "done" => heartbeat[s] # "on"
    /\ draining <=> drain \notin {"idle", "closing", "snapshot"}

LEMMA RegistrationInit == ASSUME ConstantsAssumption, Init PROVE RegistrationInv
BY DEF Init, RegistrationInv, Registering, Serving, Active, StartResults,
       ConstantsAssumption

LEMMA RegistrationStep ==
    ASSUME ConstantsAssumption, OneServes, TypeOK, RegistrationInv, [Next]_vars
    PROVE  RegistrationInv'
<1> USE DEF RegistrationInv, Registering, Serving, Active, StartResults,
            startVars, serviceVars, drainVars, requestVars, ServiceStopped
<1> None \notin Starts BY DEF ConstantsAssumption
<1>1. ASSUME NEW s \in Starts, StartEnter(s) PROVE RegistrationInv'
  BY <1>1 DEF StartEnter, TypeOK
<1>2. ASSUME NEW s \in Starts, StartRefused(s) PROVE RegistrationInv'
  BY <1>2 DEF StartRefused, TypeOK
<1>3. ASSUME NEW s \in Starts, StartLock(s) PROVE RegistrationInv'
  BY <1>3 DEF StartLock, TypeOK
<1>4. ASSUME NEW s \in Starts, RegisterUnlockGate(s) PROVE RegistrationInv'
  BY <1>4 DEF RegisterUnlockGate, TypeOK
<1>5. ASSUME NEW s \in Starts, RegisterPromptEndpoint(s) PROVE RegistrationInv'
  BY <1>5 DEF RegisterPromptEndpoint, TypeOK
<1>6. ASSUME NEW s \in Starts, RegisterFinish(s) PROVE RegistrationInv'
  BY <1>6 DEF RegisterFinish, TypeOK
<1>7. ASSUME NEW s \in Starts, RegisterFail(s) PROVE RegistrationInv'
  BY <1>7 DEF RegisterFail, TypeOK
<1>8. ASSUME NEW s \in Starts, MarkReady(s) PROVE RegistrationInv'
  BY <1>8 DEF MarkReady, TypeOK
<1>9. ASSUME NEW s \in Starts, AwaitReadyEnds(s) PROVE RegistrationInv'
  BY <1>9 DEF AwaitReadyEnds, TypeOK
<1>10. ASSUME NEW s \in Starts, ServeEnds(s) PROVE RegistrationInv'
  BY <1>10 DEF ServeEnds, DrainStarted, TypeOK
<1>11. ASSUME NEW s \in Starts, StartReturns(s) PROVE RegistrationInv'
  BY <1>11 DEF StartReturns, TypeOK
<1>12. ASSUME NEW s \in Starts, HeartbeatExit(s) PROVE RegistrationInv'
  BY <1>12 DEF HeartbeatExit, TypeOK
<1>13. ASSUME NEW s \in Starts, CancelContext(s) PROVE RegistrationInv'
  BY <1>13 DEF CancelContext, TypeOK
<1>14. ASSUME NEW s \in Starts, Unsubscribed(s) PROVE RegistrationInv'
  BY <1>14 DEF Unsubscribed, TypeOK
<1>15. CASE DrainCloseGate
  BY <1>15 DEF DrainCloseGate, TypeOK
<1>16. CASE DrainSnapshot
  BY <1>16 DEF DrainSnapshot, HandlesSettled, TypeOK
<1>17. CASE DrainStopService
  BY <1>17 DEF DrainStopService, TypeOK
<1>18. CASE DrainStopServing
  BY <1>18 DEF DrainStopServing, TypeOK
<1>19. CASE DrainIdle
  BY <1>19 DEF DrainIdle, TypeOK
<1>20. CASE DrainCancelPrompts
  BY <1>20 DEF DrainCancelPrompts, TypeOK
<1>21. CASE DrainGiveUp
  BY <1>21 DEF DrainGiveUp, TypeOK
<1>22. CASE DrainFinish
  BY <1>22 DEF DrainFinish, TypeOK
<1>23. ASSUME NEW d \in Drains, DrainCall(d) \/ DrainCallReturns(d)
      PROVE  RegistrationInv'
  BY <1>23 DEF DrainCall, DrainCallReturns, DrainStarted
<1>24. ASSUME NEW r \in Requests, PromptStep(r) PROVE RegistrationInv'
  BY <1>24
  DEF PromptStep, RoutePrompt, HandlePromptRefused, HandlePromptAdmitted,
      ProcessPromptReturns
<1>25. CASE UNCHANGED vars
  BY <1>25 DEF vars
<1>26. QED
  BY <1>1, <1>2, <1>3, <1>4, <1>5, <1>6, <1>7, <1>8, <1>9, <1>10,
     <1>11, <1>12, <1>13, <1>14, <1>15, <1>16, <1>17, <1>18, <1>19, <1>20,
     <1>21, <1>22, <1>23, <1>24, <1>25
     DEF Next, StartStep, Register, RunDrain

\* After a drain, and after any Start that returned, no endpoint is subscribed and
\* no heartbeat published, provided Start calls do not overlap (server.go, Start).
THEOREM NothingIsLeftBehind == ASSUME OneServes PROVE Spec => []NothingLeftBehind
<1>1. Init => RegistrationInv BY RegistrationInit, ConstantsAssumption
<1>2. TypeOK /\ RegistrationInv /\ [Next]_vars => RegistrationInv'
  BY RegistrationStep, ConstantsAssumption
<1>3. RegistrationInv => NothingLeftBehind
  BY DEF RegistrationInv, NothingLeftBehind, Registering, Serving, StartResults
<1>4. QED BY <1>1, <1>2, <1>3, TypeCorrect, PTL DEF Spec
-----------------------------------------------------------------------------
(* A shutdown abandons no work.                                             *)

Unregistered == {"idle", "entered", "locked", "unlocked", "stopped"}
PastGrace == {"unwinding", "waiting", "done"}

\* A prompt that was routed came through an endpoint of a Start that got that
\* far, and the prompts' context of such a Start is cancelled only by the failure
\* of its registration, by the drain after its grace, or by a Start that returns.
CancellationInv ==
    /\ \A r \in Requests : request[r] # "unsent" =>
           via[r] \in Starts /\ start[via[r]] \notin Unregistered
    /\ \A s \in Starts :
           /\ endpoint[s] # "none" => start[s] \notin Unregistered
           /\ s \in promptCancelled => drain \in PastGrace \/ start[s] \in {"failed", "stopped"}

LEMMA CancellationInit == ASSUME Init PROVE CancellationInv
BY DEF Init, CancellationInv

LEMMA CancellationStep ==
    ASSUME ConstantsAssumption, TypeOK, CancellationInv, [Next]_vars
    PROVE  CancellationInv'
<1> USE DEF CancellationInv, Unregistered, PastGrace, startVars, serviceVars, drainVars,
            requestVars, CancelsPrompts, ServiceStopped
<1>1. ASSUME NEW s \in Starts, StartStep(s) PROVE CancellationInv'
  <2>1. CASE StartEnter(s)
    BY <2>1 DEF StartEnter, TypeOK
  <2>2. CASE StartRefused(s)
    BY <2>2 DEF StartRefused, TypeOK
  <2>3. CASE StartLock(s)
    BY <2>3 DEF StartLock, TypeOK
  <2>4. CASE RegisterUnlockGate(s)
    BY <2>4 DEF RegisterUnlockGate, TypeOK
  <2>5. CASE RegisterPromptEndpoint(s)
    BY <2>5 DEF RegisterPromptEndpoint, TypeOK
  <2>6. CASE RegisterFinish(s)
    BY <2>6 DEF RegisterFinish, TypeOK
  <2>7. CASE RegisterFail(s)
    BY <2>7 DEF RegisterFail, TypeOK
  <2>8. CASE MarkReady(s)
    BY <2>8 DEF MarkReady, TypeOK
  <2>9. CASE AwaitReadyEnds(s)
    BY <2>9 DEF AwaitReadyEnds, TypeOK
  <2>10. CASE ServeEnds(s)
    BY <2>10 DEF ServeEnds, DrainStarted, TypeOK
  <2>11. CASE StartReturns(s)
    BY <2>11 DEF StartReturns, TypeOK
  <2>12. QED
    BY <1>1, <2>1, <2>2, <2>3, <2>4, <2>5, <2>6, <2>7, <2>8, <2>9, <2>10, <2>11
       DEF StartStep, Register
<1>2. ASSUME NEW s \in Starts, HeartbeatExit(s) \/ CancelContext(s) \/ Unsubscribed(s)
      PROVE  CancellationInv'
  BY <1>2 DEF HeartbeatExit, CancelContext, Unsubscribed, TypeOK
<1>3. CASE RunDrain
  BY <1>3
  DEF RunDrain, DrainCloseGate, DrainSnapshot, DrainStopService, DrainStopServing,
      DrainIdle, DrainCancelPrompts, DrainGiveUp, DrainFinish, TypeOK
<1>4. ASSUME NEW d \in Drains, DrainCall(d) \/ DrainCallReturns(d)
      PROVE  CancellationInv'
  BY <1>4 DEF DrainCall, DrainCallReturns, DrainStarted
<1>5. ASSUME NEW r \in Requests, PromptStep(r) PROVE CancellationInv'
  <2>1. ASSUME NEW s \in Starts, RoutePrompt(r, s) PROVE CancellationInv'
    BY <2>1 DEF RoutePrompt, TypeOK
  <2>2. CASE HandlePromptRefused(r)
    BY <2>2 DEF HandlePromptRefused, TypeOK
  <2>3. CASE HandlePromptAdmitted(r)
    BY <2>3 DEF HandlePromptAdmitted, TypeOK
  <2>4. CASE ProcessPromptReturns(r)
    BY <2>4 DEF ProcessPromptReturns, TypeOK
  <2>5. QED BY <1>5, <2>1, <2>2, <2>3, <2>4 DEF PromptStep
<1>6. CASE UNCHANGED vars
  BY <1>6 DEF vars
<1>7. QED BY <1>1, <1>2, <1>3, <1>4, <1>5, <1>6 DEF Next

\* A running handler's context is cancelled only once the graceful share of the
\* budget is spent, or because its registration failed (server.go, Start; drain.go,
\* runDrain), however Starts, drains and prompts overlap.
THEOREM NoWorkIsAbandoned == Spec => []WorkIsNotAbandoned
<1>1. TypeOK /\ CancellationInv /\ [Next]_vars => CancellationInv'
  BY CancellationStep, ConstantsAssumption
<1>2. CancellationInv => WorkIsNotAbandoned
  BY DEF CancellationInv, WorkIsNotAbandoned, PromptsCancelled, Running, Unregistered, PastGrace
<1>3. QED BY CancellationInit, <1>1, <1>2, TypeCorrect, PTL DEF Spec
-----------------------------------------------------------------------------
(* Ready is announced by a server that takes prompts.                       *)

Subscribed == {"prompted", "flushing", "serving", "draining"}

\* What register added stays subscribed until its own failure or a drain, and no
\* drain stops a service before it is recorded that the server is draining.
SubscriptionInv ==
    /\ draining <=> drain \notin {"idle", "closing", "snapshot"}
    /\ \A s \in Starts : ~draining /\ start[s] \in Subscribed => endpoint[s] = "live"

LEMMA SubscriptionInit == ASSUME Init PROVE SubscriptionInv
BY DEF Init, SubscriptionInv, Subscribed

LEMMA SubscriptionStep ==
    ASSUME ConstantsAssumption, TypeOK, SubscriptionInv, [Next]_vars
    PROVE  SubscriptionInv'
<1> USE DEF SubscriptionInv, Subscribed, StartResults, startVars, serviceVars, drainVars,
            requestVars, ServiceStopped
<1>1. ASSUME NEW s \in Starts, StartStep(s) PROVE SubscriptionInv'
  <2>1. CASE StartEnter(s)
    BY <2>1 DEF StartEnter, TypeOK
  <2>2. CASE StartRefused(s) \/ StartLock(s)
    BY <2>2 DEF StartRefused, StartLock, TypeOK
  <2>3. CASE RegisterUnlockGate(s)
    BY <2>3 DEF RegisterUnlockGate, TypeOK
  <2>4. CASE RegisterPromptEndpoint(s)
    BY <2>4 DEF RegisterPromptEndpoint, TypeOK
  <2>5. CASE RegisterFinish(s)
    BY <2>5 DEF RegisterFinish, TypeOK
  <2>6. CASE RegisterFail(s)
    BY <2>6 DEF RegisterFail, TypeOK
  <2>7. CASE MarkReady(s) \/ AwaitReadyEnds(s)
    BY <2>7 DEF MarkReady, AwaitReadyEnds, TypeOK
  <2>8. CASE ServeEnds(s)
    BY <2>8 DEF ServeEnds, DrainStarted, TypeOK
  <2>9. CASE StartReturns(s)
    BY <2>9 DEF StartReturns, TypeOK
  <2>10. QED
    BY <1>1, <2>1, <2>2, <2>3, <2>4, <2>5, <2>6, <2>7, <2>8, <2>9
       DEF StartStep, Register
<1>2. ASSUME NEW s \in Starts, HeartbeatExit(s) \/ CancelContext(s)
      PROVE  SubscriptionInv'
  BY <1>2 DEF HeartbeatExit, CancelContext, TypeOK
<1>3. ASSUME NEW s \in Starts, Unsubscribed(s) PROVE SubscriptionInv'
  BY <1>3 DEF Unsubscribed, TypeOK
<1>4. CASE RunDrain
  BY <1>4
  DEF RunDrain, DrainCloseGate, DrainSnapshot, DrainStopService, DrainStopServing,
      DrainIdle, DrainCancelPrompts, DrainGiveUp, DrainFinish, TypeOK
<1>5. ASSUME NEW d \in Drains, DrainCall(d) \/ DrainCallReturns(d)
      PROVE  SubscriptionInv'
  BY <1>5 DEF DrainCall, DrainCallReturns, DrainStarted
<1>6. ASSUME NEW r \in Requests, PromptStep(r) PROVE SubscriptionInv'
  BY <1>6
  DEF PromptStep, RoutePrompt, HandlePromptRefused, HandlePromptAdmitted,
      ProcessPromptReturns
<1>7. CASE UNCHANGED vars
  BY <1>7 DEF vars
<1>8. QED BY <1>1, <1>2, <1>3, <1>4, <1>5, <1>6, <1>7 DEF Next

\* Only markReady closes the ready channel, and it does so unless a drain took
\* the lock first.
LEMMA ReadyStep ==
    ASSUME TypeOK, SubscriptionInv, [Next]_vars, ready' # ready
    PROVE  ~draining /\ \E s \in Starts : endpoint[s] = "live"
<1>1. ASSUME NEW s \in Starts,
             StartStep(s) \/ HeartbeatExit(s) \/ CancelContext(s) \/ Unsubscribed(s)
      PROVE  MarkReady(s)
  BY <1>1
  DEF StartStep, Register, StartEnter, StartRefused, StartLock, RegisterUnlockGate,
      RegisterPromptEndpoint, RegisterFinish, RegisterFail, AwaitReadyEnds, ServeEnds,
      StartReturns, HeartbeatExit, CancelContext, Unsubscribed
<1>2. ~RunDrain
  BY DEF RunDrain, DrainCloseGate, DrainSnapshot, DrainStopService, DrainStopServing,
         DrainIdle, DrainCancelPrompts, DrainGiveUp, DrainFinish
<1>3. ~\E d \in Drains : DrainCall(d) \/ DrainCallReturns(d)
  BY DEF DrainCall, DrainCallReturns
<1>4. ~\E r \in Requests : PromptStep(r)
  BY DEF PromptStep, RoutePrompt, HandlePromptRefused, HandlePromptAdmitted,
         ProcessPromptReturns
<1>5. PICK s \in Starts : MarkReady(s)
  BY <1>1, <1>2, <1>3, <1>4 DEF Next, vars
<1>6. ~draining BY <1>5 DEF MarkReady, ReadyAfterFlush, TypeOK
<1>7. endpoint[s] = "live" BY <1>5, <1>6 DEF MarkReady, SubscriptionInv, Subscribed
<1>8. QED BY <1>6, <1>7

\* Ready is closed while a prompt endpoint is subscribed, and never by a server
\* that is going away, however Starts, drains and failures overlap (server.go,
\* markReady).
THEOREM ReadyIsTrue == Spec => ReadyMeansServing
<1>1. TypeOK /\ SubscriptionInv /\ [Next]_vars => SubscriptionInv'
  BY SubscriptionStep, ConstantsAssumption
<1>2. TypeOK /\ SubscriptionInv /\ [Next]_vars
        => [ready' # ready => ~draining /\ \E s \in Starts : endpoint[s] = "live"]_vars
  BY ReadyStep
<1>3. QED BY SubscriptionInit, <1>1, <1>2, TypeCorrect, PTL DEF Spec, ReadyMeansServing

-----------------------------------------------------------------------------
(* A task over A2A. *)

LEMMA FirstPlace ==
    ASSUME NEW S \in SUBSET (Nat \ {0}), S # {}
    PROVE  Min(S) \in S
<1> DEFINE Below == {p \in Nat \X Nat : p[1] < p[2]}
<1>1. IsWellFoundedOn(Below, Nat) BY NatLessThanWellFounded DEF OpToRel
<1>2. \A x, y \in Nat : x < y => <<x, y>> \in Below OBVIOUS
<1> HIDE DEF Below
<1>3. PICK m \in S : \A k \in S : ~(<<k, m>> \in Below) BY <1>1, WFMin, Zenon
<1>4. \A k \in S : m <= k
  <2> SUFFICES ASSUME NEW k \in S PROVE m <= k OBVIOUS
  <2>1. <<k, m>> \notin Below /\ m \in Nat /\ k \in Nat BY <1>3
  <2>2. ~(k < m) BY <1>2, <2>1
  <2> QED BY <2>1, <2>2
<1> QED BY <1>4 DEF Min

\* The tool finds the text that comes first of what the caller would read.
LEMMA ExtractsTheReply ==
    ASSUME NEW reply \in Replies
    PROVE  /\ ExtractText(Fallback(reply)) = FirstOf(ReplyText(reply))
           /\ FirstOf(ReplyText(reply)) = "" => DOMAIN ReplyText(reply) = {}
<1> DEFINE parts == reply.parts
           texts == TextContent(parts)
           kept == TranslateResult(reply)
           full == {i \in DOMAIN parts : SaysText(parts[i])}
<1>1. /\ parts \in Seq([kind : {"text"}, text : STRING] \cup [kind : {"image", "reasoning"}])
      /\ reply.handoffs \in BOOLEAN
      /\ reply.handoffs => \A i \in DOMAIN parts : SaysText(parts[i])
  BY RepliesAssumption DEF RepliesAssumption
<1>2. full \in SUBSET (Nat \ {0}) BY <1>1
<1>3. DOMAIN texts = full /\ \A i \in full : texts[i] = parts[i].text /\ texts[i] # ""
  BY DEF TextContent, SaysText
<1>4. DOMAIN kept = {i \in DOMAIN parts : parts[i].kind # "reasoning"}
      /\ \A i \in DOMAIN kept : kept[i] = parts[i]
  BY DEF TranslateResult, Restrict
<1>5. TextContent(kept) = texts
  <2>1. {i \in DOMAIN kept : SaysText(kept[i])} = full BY <1>4 DEF SaysText
  <2>2. \A i \in full : kept[i].text = parts[i].text BY <2>1, <1>4
  <2> QED BY <2>1, <2>2, Zenon DEF TextContent
<1>6. full # {} => FirstOf(texts) # ""
  <2> SUFFICES ASSUME full # {} PROVE FirstOf(texts) # "" OBVIOUS
  <2>1. Min(full) \in full BY <1>2, FirstPlace
  <2> HIDE DEF texts, full
  <2> QED BY <1>3, <2>1 DEF FirstOf
<1>7. Note # "" BY DEF Note
<1>8. FirstOf(<<Note>>) = Note
  <2>1. DOMAIN <<Note>> = {1} /\ <<Note>>[1] = Note OBVIOUS
  <2>2. Min({1}) = 1 BY DEF Min
  <2> QED BY <2>1, <2>2 DEF FirstOf
<1>9. FirstOf(ReplyText(reply)) = "" => DOMAIN ReplyText(reply) = {}
  <2>1. CASE full = {} /\ reply.handoffs BY <1>3, <1>7, <1>8, <2>1 DEF ReplyText
  <2>2. CASE ~(full = {} /\ reply.handoffs)
    <3>1. ReplyText(reply) = texts BY <1>3, <2>2 DEF ReplyText
    <3> QED BY <1>3, <1>6, <3>1
  <2> QED BY <2>1, <2>2
<1>10. CASE DOMAIN kept = {}
  <2> DEFINE t == FirstOf(ReplyText(reply))
             sent == <<Text(t)>>
  <2>1. Fallback(reply) = sent BY <1>10 DEF Fallback
  <2> HIDE DEF t
  <2>2. DOMAIN sent = {1} /\ sent[1] = Text(t) /\ Text(t).kind = "text" /\ Text(t).text = t BY DEF Text
  <2> HIDE DEF sent
  <2>3. CASE t = ""
    <3>1. {j \in DOMAIN sent : SaysText(sent[j])} = {} BY <2>2, <2>3 DEF SaysText
    <3>2. DOMAIN TextContent(sent) = {} BY <3>1 DEF TextContent
    <3> QED BY <1>9, <2>1, <2>3, <3>2 DEF ExtractText, FirstOf, t
  <2>4. CASE t # ""
    <3>1. {j \in DOMAIN sent : SaysText(sent[j])} = {1} BY <2>2, <2>4 DEF SaysText
    <3>2. DOMAIN TextContent(sent) = {1} /\ TextContent(sent)[1] = t BY <3>1, <2>2 DEF TextContent
    <3>3. Min({1}) = 1 BY DEF Min
    <3>4. FirstOf(TextContent(sent)) = t BY <3>2, <3>3 DEF FirstOf
    <3> QED BY <1>9, <2>1, <3>4 DEF ExtractText, t
  <2> QED BY <2>3, <2>4
<1>11. CASE DOMAIN kept # {}
  <2>1. Fallback(reply) = kept BY <1>11 DEF Fallback
  <2>2. ReplyText(reply) = texts
    <3>1. CASE reply.handoffs
      <4>1. PICK i \in DOMAIN kept : TRUE BY <1>11
      <4>2. i \in full BY <1>1, <1>4, <3>1, <4>1
      <4> QED BY <1>3, <4>2 DEF ReplyText
    <3>2. CASE ~reply.handoffs BY <3>2 DEF ReplyText
    <3> QED BY <1>1, <3>1, <3>2
  <2> QED BY <1>5, <1>9, <2>1, <2>2 DEF ExtractText
<1> QED BY <1>9, <1>10, <1>11

Answers ==
    {NoAnswer} \cup {[is |-> "error", wraps |-> wraps] : wraps \in BOOLEAN}
               \cup {[is |-> "reply", reply |-> reply] : reply \in Replies}

\* What an ended task says, and what the tool makes of it.
TaskSays ==
    /\ task.state = "completed" => answer.is = "reply" /\ task.parts = Fallback(answer.reply)
    /\ task.state = "failed" => IsFailure(answer)
    /\ task.state = "canceled" => canceller.calls > 0 \/ IsCancellation(answer)

\* A run that has not returned has no answer, and an ended task stays as it is: the tool
\* reads one that has ended, whenever it reads it.
TaskInv ==
    /\ answer \in Answers
    /\ exec \in {"new", "submitted", "working", "runs"} => answer = NoAnswer
    /\ canceller.calls \in Nat /\ canceller.at \in {"idle", "looked"}
    /\ canceller = [at |-> canceller.at, calls |-> canceller.calls]
    /\ canceller.at = "looked" => canceller.calls > 0
    /\ TaskSays
    /\ tool.at = "gets" => Terminal(task.state)
    /\ tool.at = "over" =>
           \/ tool.outcome = Error("ErrCallFailed")
           \/ Terminal(task.state) /\ tool.outcome = Outcome(task)

LEMMA TaskStarts == A2AInit => TaskInv
BY DEF A2AInit, TaskInv, Answers, TaskSays, Terminal

LEMMA EmitIs ==
    ASSUME NEW state, NEW parts, Emit(state, parts)
    PROVE  \/ Terminal(task.state) /\ task' = task
           \/ ~Terminal(task.state) /\ task'.state = state /\ task'.parts = parts
BY DEF Emit

LEMMA ExecuteSteps ==
    ASSUME TaskInv, Submit \/ Work \/ StopBefore \/ RegisterCancel \/ RequestEnds \/ RunReturns \/ Finish
    PROVE  TaskInv'
<1>1. UNCHANGED <<canceller, tool>>
  BY DEF Submit, Work, StopBefore, RegisterCancel, RequestEnds, RunReturns, Finish
<1>2. CASE Submit \/ Work
  <2>1. UNCHANGED answer /\ exec' \in {"submitted", "working"} /\ exec \in {"new", "submitted"}
        /\ (Emit("submitted", <<>>) \/ Emit("working", <<>>))
    BY <1>2 DEF Submit, Work
  <2>2. task' = task \/ (~Terminal(task.state) /\ task'.state \in {"submitted", "working"})
    BY <2>1, EmitIs
  <2>3. CASE task' = task BY <1>1, <2>1, <2>3 DEF TaskInv, TaskSays, Terminal, Outcome
  <2>4. CASE ~Terminal(task.state) /\ task'.state \in {"submitted", "working"}
    BY <1>1, <2>1, <2>4 DEF TaskInv, TaskSays, Terminal
  <2> QED BY <2>2, <2>3, <2>4
<1>3. CASE StopBefore \/ RegisterCancel \/ RequestEnds
  <2>1. UNCHANGED <<answer, task>> /\ (exec' = exec \/ exec \in {"submitted", "working"})
    BY <1>3 DEF StopBefore, RegisterCancel, RequestEnds
  <2> QED BY <1>1, <2>1 DEF TaskInv, TaskSays, Terminal, Outcome
<1>4. CASE RunReturns
  <2>1. exec = "runs" /\ exec' = "returned" /\ UNCHANGED task /\ answer' \in Answers
    BY <1>4 DEF RunReturns, Answers
  <2>2. answer = NoAnswer BY <2>1 DEF TaskInv
  <2>3. ~(task.state \in {"completed", "failed"}) /\ (task.state = "canceled" => canceller.calls > 0)
    BY <2>2 DEF TaskInv, TaskSays, NoAnswer, IsFailure, IsCancellation
  <2>4. TaskSays' BY <1>1, <2>1, <2>3 DEF TaskSays
  <2> QED BY <1>1, <2>1, <2>4 DEF TaskInv, Outcome, Terminal
<1>5. CASE Finish
  <2>1. exec' = "done" /\ UNCHANGED answer
        /\ \/ answer.is = "reply" /\ Emit("completed", Fallback(answer.reply))
           \/ IsFailure(answer) /\ Emit("failed", <<Text("reason")>>)
           \/ IsCancellation(answer) /\ Emit("canceled", <<>>)
    BY <1>5 DEF Finish
  <2>2. \/ Terminal(task.state) /\ task' = task
        \/ /\ ~Terminal(task.state)
           /\ \/ answer.is = "reply" /\ task'.state = "completed" /\ task'.parts = Fallback(answer.reply)
              \/ IsFailure(answer) /\ task'.state = "failed"
              \/ IsCancellation(answer) /\ task'.state = "canceled"
    BY <2>1, EmitIs
  <2>3. TaskSays' BY <1>1, <2>1, <2>2 DEF TaskInv, TaskSays, Terminal
  <2>4. (tool.at = "gets" => Terminal(task.state))' BY <1>1, <2>2 DEF TaskInv
  <2>5. (tool.at = "over" => \/ tool.outcome = Error("ErrCallFailed")
                             \/ Terminal(task.state) /\ tool.outcome = Outcome(task))'
    BY <1>1, <2>2 DEF TaskInv, Outcome
  <2> QED BY <1>1, <2>1, <2>3, <2>4, <2>5 DEF TaskInv
<1> QED BY <1>2, <1>3, <1>4, <1>5

LEMMA CancelSteps == ASSUME TaskInv, CancelCalled \/ CancelEmits PROVE TaskInv'
<1>1. UNCHANGED <<exec, answer, tool>> BY DEF CancelCalled, CancelEmits
<1>2. CASE CancelCalled
  <2>1. task' = task /\ canceller'.at = "looked" /\ canceller'.calls = canceller.calls + 1
        /\ canceller' = [at |-> canceller'.at, calls |-> canceller'.calls]
    BY <1>2 DEF CancelCalled
  <2>2. canceller'.calls \in Nat /\ canceller'.calls > 0 BY <2>1 DEF TaskInv
  <2>3. TaskSays' BY <1>1, <2>1, <2>2 DEF TaskInv, TaskSays
  <2>4. UNCHANGED <<task, exec, answer, tool>> BY <1>1, <2>1
  <2> QED BY <2>1, <2>2, <2>3, <2>4 DEF TaskInv, Outcome
<1>3. CASE CancelEmits
  <2>1. canceller.at = "looked" /\ canceller' = [canceller EXCEPT !.at = "idle"] /\ Emit("canceled", <<>>)
    BY <1>3 DEF CancelEmits
  <2>2. canceller'.at = "idle" /\ canceller'.calls = canceller.calls /\ canceller.calls > 0
        /\ canceller' = [at |-> canceller'.at, calls |-> canceller'.calls]
    BY <2>1 DEF TaskInv
  <2>3. (Terminal(task.state) /\ task' = task) \/ (~Terminal(task.state) /\ task'.state = "canceled")
    BY <2>1, EmitIs
  <2>4. CASE Terminal(task.state) /\ task' = task
    BY <1>1, <2>2, <2>4 DEF TaskInv, TaskSays, Outcome, Terminal
  <2>5. CASE ~Terminal(task.state) /\ task'.state = "canceled"
    BY <1>1, <2>2, <2>5 DEF TaskInv, TaskSays, Terminal
  <2> QED BY <2>3, <2>4, <2>5
<1> QED BY <1>2, <1>3

LEMMA ToolSteps ==
    ASSUME TaskInv,
           SendMessage \/ Sent \/ SubscriptionEvent \/ GetTask \/ SubscriptionBreaks \/ Poll \/ ToolCtxEnds
    PROVE  TaskInv'
<1>1. UNCHANGED <<task, exec, answer, canceller>>
  BY DEF SendMessage, Sent, SubscriptionEvent, GetTask, SubscriptionBreaks, Poll, ToolCtxEnds
<1>2. \/ tool'.at \in {"sent", "subscribes", "polls"}
      \/ Terminal(task.state) /\ tool'.at = "gets"
      \/ tool' = CallOver(Error("ErrCallFailed"))
      \/ Terminal(task.state) /\ tool' = CallOver(Outcome(task))
  BY DEF SendMessage, Sent, SubscriptionEvent, GetTask, SubscriptionBreaks, Poll, ToolCtxEnds, TaskInv
<1>3. tool'.at = "gets" => Terminal(task.state) BY <1>2 DEF CallOver
<1>4. tool'.at = "over" =>
          \/ tool'.outcome = Error("ErrCallFailed")
          \/ Terminal(task.state) /\ tool'.outcome = Outcome(task)
  BY <1>2 DEF CallOver
<1> QED BY <1>1, <1>3, <1>4 DEF TaskInv, TaskSays, Outcome, Terminal

LEMMA TaskSteps == TaskInv /\ [A2ANext]_a2aVars => TaskInv'
<1> SUFFICES ASSUME TaskInv, [A2ANext]_a2aVars PROVE TaskInv' OBVIOUS
<1>1. CASE Submit \/ Work \/ StopBefore \/ RegisterCancel \/ RequestEnds \/ RunReturns \/ Finish
  BY <1>1, ExecuteSteps
<1>2. CASE CancelCalled \/ CancelEmits BY <1>2, CancelSteps
<1>3. CASE SendMessage \/ Sent \/ SubscriptionEvent \/ GetTask \/ SubscriptionBreaks \/ Poll \/ ToolCtxEnds
  BY <1>3, ToolSteps
<1>4. CASE UNCHANGED a2aVars
  BY <1>4 DEF a2aVars, TaskInv, TaskSays, Outcome, Terminal
<1> QED BY <1>1, <1>2, <1>3, <1>4 DEF A2ANext

LEMMA TaskReports == TaskInv => ToolReportsTheRun
<1> SUFFICES ASSUME TaskInv, tool.at = "over" PROVE ToolReportsTheRun BY DEF ToolReportsTheRun
<1>1. CASE tool.outcome = Error("ErrCallFailed") BY <1>1 DEF ToolReportsTheRun, Error
<1>2. CASE Terminal(task.state) /\ tool.outcome = Outcome(task)
  <2>1. CASE task.state = "failed"
    <3>1. tool.outcome = Error("ErrTaskFailed") /\ IsFailure(answer)
      BY <1>2, <2>1 DEF Outcome, TaskInv, TaskSays
    <3>2. tool.outcome.is = "ErrTaskFailed" BY <3>1 DEF Error
    <3> QED BY <3>1, <3>2 DEF ToolReportsTheRun, IsFailure
  <2>3. CASE task.state = "canceled"
    <3>1. /\ tool.outcome = Error("ErrTaskCanceled")
          /\ canceller.calls > 0 \/ IsCancellation(answer)
      BY <1>2, <2>3 DEF Outcome, TaskInv, TaskSays
    <3>2. tool.outcome.is = "ErrTaskCanceled" BY <3>1 DEF Error
    <3> QED BY <3>1, <3>2 DEF ToolReportsTheRun, IsCancellation
  <2>2. CASE task.state = "completed"
    <3>1. answer.is = "reply" /\ task.parts = Fallback(answer.reply) BY <2>2 DEF TaskInv, TaskSays
    <3>2. answer.reply \in Replies BY <3>1 DEF TaskInv, Answers, NoAnswer
    <3> DEFINE t == ExtractText(task.parts)
    <3>3. t = FirstOf(ReplyText(answer.reply)) /\ (t = "" => DOMAIN ReplyText(answer.reply) = {})
      BY <3>1, <3>2, ExtractsTheReply
    <3>4. /\ t = "" => tool.outcome = Error("ErrNoTextContent")
          /\ t # "" => tool.outcome = [is |-> "text", text |-> t]
      BY <1>2, <2>2 DEF Outcome
    <3> HIDE DEF t
    <3>5. CASE t = ""
      <4>1. tool.outcome = Error("ErrNoTextContent") BY <3>4, <3>5
      <4>2. tool.outcome.is = "ErrNoTextContent" BY <4>1 DEF Error
      <4> QED BY <3>1, <3>3, <3>5, <4>2 DEF ToolReportsTheRun
    <3>6. CASE t # ""
      <4>1. tool.outcome = [is |-> "text", text |-> t] BY <3>4, <3>6
      <4>2. tool.outcome.is = "text" /\ tool.outcome.text = t BY <4>1
      <4> QED BY <3>1, <3>3, <3>6, <4>2 DEF ToolReportsTheRun
    <3> QED BY <3>5, <3>6
  <2> QED BY <1>2, <2>1, <2>2, <2>3 DEF Terminal
<1> QED BY <1>1, <1>2 DEF TaskInv

\* The tool of a remote agent reports what became of its task (Client.AsTool,
\* a2a/client.go), for any replies and any number of cancels, whatever races whatever.
THEOREM ToolReportsTruly == A2ASpec => []ToolReportsTheRun
<1>1. A2AInit => TaskInv BY TaskStarts
<1>2. TaskInv /\ [A2ANext]_a2aVars => TaskInv' BY TaskSteps
<1>3. TaskInv => ToolReportsTheRun BY TaskReports
<1> QED BY <1>1, <1>2, <1>3, PTL DEF A2ASpec

-----------------------------------------------------------------------------
(* How a prompt finds its agent.                                            *)

\* Whoever may answer a discovery.
Everyone == Foreign \cup {Registered(c) : c \in {d \in Configs : NewRefuses(d) = "nil"}}

Discoveries == [at : {"collects", "found", "ctx error", "ErrNoAgentsFound"}, filter : Filters,
                asked : SUBSET Everyone, heard : SUBSET Everyone]

AgentInfos == {AgentInfo(r) : r \in Everyone}

Wanted(r, filter) == Promptable(r) /\ MatchFilter(AgentInfo(r), filter)

\* What was found are those that were heard and wanted, all of them; nothing, when the
\* discovery says so.
FoundIs ==
    /\ disc = Idle \/ disc \in Discoveries
    /\ found \in Seq(AgentInfos)
    /\ disc = Idle => found = <<>>
    /\ disc # Idle =>
           /\ \A i \in DOMAIN found : \E r \in disc.heard : Wanted(r, disc.filter) /\ found[i] = AgentInfo(r)
           /\ \A r \in disc.heard : Wanted(r, disc.filter) => \E i \in DOMAIN found : found[i] = AgentInfo(r)
           /\ disc.at = "ErrNoAgentsFound" => found = <<>>

Envelope(info, subject, req, delivered) ==
    [is |-> "envelope", info |-> info, subject |-> subject, req |-> req,
     prompt |-> Encoded(req.prompt), attachments |-> req.attachments,
     header |-> req.header, delivered |-> delivered]

PlainMessage(info, subject, payload, delivered) ==
    [is |-> "plain", info |-> info, subject |-> subject, payload |-> payload, delivered |-> delivered]

\* What an instance that the sender meant made of the request.
TakesWhole(taken, req) ==
    /\ taken.is = "runs"
    /\ taken.prompt = Encoded(req.prompt) /\ taken.header = req.header
    /\ taken.attachments = req.attachments
    /\ Len(taken.parts) = 1 + Len(req.attachments)

\* A message is as it was sent, and what was sent was let through.
WireIs ==
    /\ wire.is \in {"none", "refused", "envelope", "plain"}
    /\ wire.is = "envelope" =>
           /\ wire = Envelope(wire.info, wire.subject, wire.req, wire.delivered)
           /\ wire.req \in PromptRequests /\ SendRefuses(wire.info, wire.req) = "nil"
           /\ wire.delivered =>
                  /\ handled.by \in Everyone
                  /\ AgentInfo(handled.by) = wire.info => TakesWhole(handled, wire.req)
    /\ wire.is = "plain" =>
           wire = PlainMessage(wire.info, wire.subject, wire.payload, wire.delivered)

DiscoveryInv == served \subseteq Everyone /\ FoundIs /\ WireIs

LEMMA CapIs ==
    ASSUME NEW cap, cap.n \in Int
    PROVE  /\ ParseMaxPayload(cap).bytes \in Int
           /\ cap.unit = "B" /\ cap.n >= 0 => ParseMaxPayload(cap).bytes = cap.n
BY DEF ParseMaxPayload, Unit

LEMMA RegisteredIs ==
    ASSUME NEW c \in Configs, NewRefuses(c) = "nil"
    PROVE  /\ Registered(c).cap.n \in Int
           /\ ParseMaxPayload(Registered(c).cap).bytes \in 1 .. ServerLimit
           /\ Registered(c).version = <<0, 3>>
<1>1. c.cap.n \in Int /\ ServerLimit \in Nat \ {0} BY DiscoveryConstants DEF DiscoveryConstants
<1>2. /\ ~(ParseMaxPayload(c.cap).bytes <= 0)
      /\ ~(c.capSet /\ ParseMaxPayload(c.cap).bytes > ServerLimit)
  BY Zenon DEF NewRefuses
<1>3. Registered(c).cap = Reconciled(c) /\ Registered(c).version = <<0, 3>> BY DEF Registered
<1>4. CASE ParseMaxPayload(c.cap).bytes <= ServerLimit \/ c.capSet
  <2>1. Reconciled(c) = c.cap BY <1>4 DEF Reconciled
  <2>2. ParseMaxPayload(c.cap).bytes \in Int BY <1>1, CapIs
  <2> QED BY <1>1, <1>2, <1>3, <1>4, <2>1, <2>2
<1>5. CASE ~(ParseMaxPayload(c.cap).bytes <= ServerLimit \/ c.capSet)
  <2> DEFINE cap == [n |-> ServerLimit, unit |-> "B"]
  <2>1. Reconciled(c) = cap BY <1>5 DEF Reconciled
  <2>2. cap.n = ServerLimit /\ cap.unit = "B" OBVIOUS
  <2> HIDE DEF cap
  <2>3. ParseMaxPayload(cap).bytes = ServerLimit BY <1>1, <2>2, CapIs
  <2> QED BY <1>1, <1>3, <2>1, <2>2, <2>3
<1> QED BY <1>4, <1>5

LEMMA EveryoneIs ==
    ASSUME NEW r \in Everyone
    PROVE  /\ ParseMaxPayload(r.cap).bytes \in Int
           /\ Compatible(r.version) => r.version = <<0, 3>>
           /\ r \notin Foreign => ParseMaxPayload(r.cap).bytes \in 1 .. ServerLimit
<1>1. CASE r \in Foreign
  <2>1. r.cap.n \in Int /\ (r.version = <<>> \/ r.version \in Nat \X Nat)
    BY <1>1, DiscoveryConstants DEF DiscoveryConstants
  <2>2. Compatible(r.version) => r.version = <<0, 3>> BY <2>1 DEF Compatible
  <2> QED BY <1>1, <2>1, <2>2, CapIs
<1>2. CASE \E c \in Configs : NewRefuses(c) = "nil" /\ r = Registered(c)
  <2>1. PICK c \in Configs : NewRefuses(c) = "nil" /\ r = Registered(c) BY <1>2
  <2>2. r.cap.n \in Int /\ ParseMaxPayload(r.cap).bytes \in 1 .. ServerLimit /\ r.version = <<0, 3>>
    BY <2>1, RegisteredIs
  <2> QED BY <2>2, CapIs
<1> QED BY <1>1, <1>2 DEF Everyone

-----------------------------------------------------------------------------
\* What is not about the discovery, or not about a message, leaves its part alone.
LEMMA FoundStays == ASSUME FoundIs, UNCHANGED <<disc, found>> PROVE FoundIs'
BY DEF FoundIs

LEMMA WireStays == ASSUME WireIs, UNCHANGED <<wire, handled>> PROVE WireIs'
BY DEF WireIs, TakesWhole

\* A delivery changes nothing else of the message.
LEMMA PlainDelivered ==
    ASSUME NEW e, wire = PlainMessage(wire.info, wire.subject, wire.payload, wire.delivered),
           wire' = [wire EXCEPT !.delivered = e]
    PROVE  wire' = PlainMessage(wire.info, wire.subject, wire.payload, e)
BY DEF PlainMessage

LEMMA EnvelopeDelivered ==
    ASSUME NEW e, wire = Envelope(wire.info, wire.subject, wire.req, wire.delivered),
           wire' = [wire EXCEPT !.delivered = e]
    PROVE  wire' = Envelope(wire.info, wire.subject, wire.req, e)
BY DEF Envelope

LEMMA ServingSteps ==
    ASSUME DiscoveryInv,
           \/ \E c \in Configs : Serve(c)
           \/ \E r \in Foreign : ServeForeign(r)
           \/ \E r \in served : StopServing(r)
    PROVE  DiscoveryInv'
<1>1. served' \subseteq Everyone
  BY DEF DiscoveryInv, Serve, ServeForeign, StopServing, Everyone
<1>2. UNCHANGED <<disc, found, wire, handled>> BY DEF Serve, ServeForeign, StopServing
<1>3. FoundIs' /\ WireIs' BY <1>2, FoundStays, WireStays DEF DiscoveryInv
<1> QED BY <1>1, <1>3 DEF DiscoveryInv

LEMMA DiscoveringSteps ==
    ASSUME DiscoveryInv, StartDiscover \/ HearReply \/ StallOver \/ DiscoverAgain
    PROVE  DiscoveryInv'
<1>1. UNCHANGED <<served, wire, handled>> BY DEF StartDiscover, HearReply, StallOver, DiscoverAgain
<1>2. WireIs' BY <1>1, WireStays DEF DiscoveryInv
<1>3. served \subseteq Everyone /\ FoundIs BY DEF DiscoveryInv
<1>4. disc.at # "idle" => disc # Idle /\ disc \in Discoveries BY <1>3 DEF FoundIs, Idle
<1>5. ASSUME StartDiscover PROVE FoundIs'
  <2>1. PICK filter \in Filters :
            disc' = [at |-> "collects", filter |-> filter, asked |-> served, heard |-> {}]
    BY <1>5 DEF StartDiscover
  <2>2. disc' \in Discoveries /\ disc' # Idle /\ disc'.heard = {} /\ disc'.at = "collects"
    <3>1. disc'.at = "collects" /\ disc'.heard = {} BY <2>1
    <3>2. disc' # Idle BY <3>1 DEF Idle
    <3> QED BY <1>3, <2>1, <3>1, <3>2 DEF Discoveries
  <2>3. found' = <<>> BY <1>3, <1>5 DEF StartDiscover, FoundIs
  <2>4. found' \in Seq(AgentInfos) /\ DOMAIN found' = {} BY <2>3
  <2> QED BY <2>2, <2>3, <2>4 DEF FoundIs
<1>6. ASSUME HearReply PROVE FoundIs'
  <2>1. PICK r \in disc.asked \ disc.heard :
            /\ disc' = [disc EXCEPT !.heard = @ \cup {r}]
            /\ found' = IF Promptable(r) /\ MatchFilter(AgentInfo(r), disc.filter)
                        THEN Append(found, AgentInfo(r)) ELSE found
    BY <1>6 DEF HearReply
  <2>2. disc \in Discoveries /\ disc # Idle /\ disc.at = "collects" BY <1>4, <1>6 DEF HearReply
  <2>3. /\ disc' \in Discoveries /\ disc'.heard = disc.heard \cup {r} /\ disc'.filter = disc.filter
        /\ disc'.at = "collects"
    BY <2>1, <2>2 DEF Discoveries
  <2>4. disc' # Idle BY <2>3 DEF Idle
  <2>5. \A i \in DOMAIN found : \E q \in disc.heard : Wanted(q, disc.filter) /\ found[i] = AgentInfo(q)
    BY <1>3, <2>2 DEF FoundIs
  <2>6. \A q \in disc.heard : Wanted(q, disc.filter) => \E i \in DOMAIN found : found[i] = AgentInfo(q)
    BY <1>3, <2>2 DEF FoundIs
  <2>7. CASE Wanted(r, disc.filter)
    <3> DEFINE info == AgentInfo(r)
    <3>1. found' = Append(found, info) BY <2>1, <2>7 DEF Wanted
    <3>2. found \in Seq(AgentInfos) BY <1>3 DEF FoundIs
    <3>3. info \in AgentInfos
      <4>1. r \in Everyone BY <2>1, <2>2 DEF Discoveries
      <4> QED BY <4>1 DEF AgentInfos
    <3>4. info = AgentInfo(r) OBVIOUS
    <3> HIDE DEF info
    <3>5. /\ found' \in Seq(AgentInfos)
          /\ \A i \in DOMAIN found' : (i \in DOMAIN found /\ found'[i] = found[i]) \/ found'[i] = info
          /\ \A i \in DOMAIN found : i \in DOMAIN found' /\ found'[i] = found[i]
          /\ \E i \in DOMAIN found' : found'[i] = info
      <4>1. found' \in Seq(AgentInfos) BY <3>1, <3>2, <3>3
      <4>2. Len(found') = Len(found) + 1 /\ found'[Len(found) + 1] = info
            /\ \A i \in 1 .. Len(found) : found'[i] = found[i]
        BY <3>1, <3>2, <3>3
      <4>3. DOMAIN found' = 1 .. Len(found) + 1 /\ DOMAIN found = 1 .. Len(found) /\ Len(found) \in Nat
        BY <3>2, <4>1, <4>2
      <4> QED BY <4>1, <4>2, <4>3
    <3>6. \A i \in DOMAIN found' : \E q \in disc'.heard : Wanted(q, disc'.filter) /\ found'[i] = AgentInfo(q)
      BY <2>3, <2>5, <2>7, <3>4, <3>5, Zenon
    <3>7. \A q \in disc'.heard :
              Wanted(q, disc'.filter) => \E i \in DOMAIN found' : found'[i] = AgentInfo(q)
      BY <2>3, <2>6, <3>4, <3>5, Zenon
    <3> QED BY <2>3, <2>4, <3>5, <3>6, <3>7 DEF FoundIs
  <2>8. CASE ~Wanted(r, disc.filter)
    <3>1. found' = found BY <2>1, <2>8 DEF Wanted
    <3>2. found' \in Seq(AgentInfos) BY <1>3, <3>1 DEF FoundIs
    <3>3. \A i \in DOMAIN found' : \E q \in disc'.heard : Wanted(q, disc'.filter) /\ found'[i] = AgentInfo(q)
      BY <2>3, <2>5, <3>1, Zenon
    <3>4. \A q \in disc'.heard :
              Wanted(q, disc'.filter) => \E i \in DOMAIN found' : found'[i] = AgentInfo(q)
      BY <2>3, <2>6, <2>8, <3>1, Zenon
    <3> QED BY <2>3, <2>4, <3>2, <3>3, <3>4 DEF FoundIs
  <2> QED BY <2>7, <2>8
<1>7. ASSUME StallOver PROVE FoundIs'
  <2>1. disc \in Discoveries /\ disc # Idle /\ found' = found BY <1>4, <1>7 DEF StallOver
  <2>2. PICK at \in {"found", "ctx error", "ErrNoAgentsFound"} :
            disc' = [disc EXCEPT !.at = at] /\ (at # "found" => found = <<>>)
    BY <1>7 DEF StallOver
  <2>3. disc' \in Discoveries /\ disc'.heard = disc.heard /\ disc'.filter = disc.filter /\ disc'.at = at
    BY <2>1, <2>2 DEF Discoveries
  <2>4. disc' # Idle BY <2>2, <2>3 DEF Idle
  <2>5. found' \in Seq(AgentInfos) BY <1>3, <2>1 DEF FoundIs
  <2>6. /\ \A i \in DOMAIN found : \E q \in disc.heard : Wanted(q, disc.filter) /\ found[i] = AgentInfo(q)
        /\ \A q \in disc.heard : Wanted(q, disc.filter) => \E i \in DOMAIN found : found[i] = AgentInfo(q)
    BY <1>3, <2>1 DEF FoundIs
  <2>7. /\ \A i \in DOMAIN found' : \E q \in disc'.heard : Wanted(q, disc'.filter) /\ found'[i] = AgentInfo(q)
        /\ \A q \in disc'.heard :
               Wanted(q, disc'.filter) => \E i \in DOMAIN found' : found'[i] = AgentInfo(q)
    BY <2>1, <2>3, <2>6, Zenon
  <2>8. disc'.at = "ErrNoAgentsFound" => found' = <<>> BY <2>1, <2>2, <2>3
  <2> QED BY <2>3, <2>4, <2>5, <2>7, <2>8 DEF FoundIs
<1>8. ASSUME DiscoverAgain PROVE FoundIs'
  <2>1. disc' = Idle /\ found' = <<>> BY <1>8 DEF DiscoverAgain
  <2>2. found' \in Seq(AgentInfos) BY <2>1
  <2> QED BY <2>1, <2>2 DEF FoundIs
<1>9. FoundIs' BY <1>5, <1>6, <1>7, <1>8, Zenon
<1> QED BY <1>1, <1>2, <1>3, <1>9 DEF DiscoveryInv

LEMMA SendingSteps ==
    ASSUME DiscoveryInv, Send \/ SendPlain \/ PromptOver
    PROVE  DiscoveryInv'
<1>1. UNCHANGED <<served, disc, found>> BY DEF Send, SendPlain, PromptOver
<1>2. FoundIs' BY <1>1, FoundStays DEF DiscoveryInv
<1>3. ASSUME Send PROVE WireIs'
  <2>1. PICK i \in DOMAIN found, req \in PromptRequests :
            wire' = IF SendRefuses(found[i], req) # "nil"
                    THEN [is |-> "refused", err |-> SendRefuses(found[i], req), info |-> found[i], req |-> req]
                    ELSE Envelope(found[i], found[i].subject, req, FALSE)
    BY <1>3 DEF Send, Envelope
  <2>2. CASE SendRefuses(found[i], req) # "nil"
    <3>1. wire' = [is |-> "refused", err |-> SendRefuses(found[i], req), info |-> found[i], req |-> req]
      BY <2>1, <2>2
    <3>2. /\ wire'.is = "refused" /\ wire'.err = SendRefuses(found[i], req)
          /\ wire'.info = found[i] /\ wire'.req = req
      BY <3>1
    <3> QED BY <2>2, <3>2 DEF WireIs
  <2>3. CASE SendRefuses(found[i], req) = "nil"
    <3>1. wire' = Envelope(found[i], found[i].subject, req, FALSE) BY <2>1, <2>3
    <3>2. /\ wire'.is = "envelope" /\ wire'.info = found[i] /\ wire'.subject = found[i].subject
          /\ wire'.req = req /\ wire'.delivered = FALSE
      BY <3>1 DEF Envelope
    <3>3. /\ wire' = Envelope(wire'.info, wire'.subject, wire'.req, wire'.delivered)
          /\ SendRefuses(wire'.info, wire'.req) = "nil" /\ wire'.req \in PromptRequests
      BY <2>3, <3>1, <3>2, Zenon
    <3> QED BY ONLY <3>2, <3>3 DEF WireIs
  <2> QED BY <2>2, <2>3
<1>4. ASSUME SendPlain PROVE WireIs'
  <2>1. PICK i \in DOMAIN found, payload \in Plain :
            wire' = PlainMessage(found[i], found[i].subject, payload, FALSE)
    BY <1>4, Zenon DEF SendPlain, PlainMessage
  <2>2. /\ wire'.is = "plain" /\ wire'.info = found[i] /\ wire'.subject = found[i].subject
        /\ wire'.payload = payload /\ wire'.delivered = FALSE
    BY <2>1 DEF PlainMessage
  <2> QED BY <2>1, <2>2 DEF WireIs
<1>5. ASSUME PromptOver PROVE WireIs'
  <2>1. wire'.is = "none" BY <1>5 DEF PromptOver, NoMessage
  <2> QED BY <2>1 DEF WireIs
<1>6. served' \subseteq Everyone BY <1>1 DEF DiscoveryInv
<1> QED BY <1>2, <1>3, <1>4, <1>5, <1>6 DEF DiscoveryInv

\* An instance with the settings the sender saw takes the request whole.
LEMMA DeliverStep == ASSUME DiscoveryInv, Deliver PROVE DiscoveryInv'
<1>1. UNCHANGED <<served, disc, found>> /\ wire' = [wire EXCEPT !.delivered = TRUE]
  BY DEF Deliver
<1> DEFINE yes == TRUE
<1>7. wire' = [wire EXCEPT !.delivered = yes] BY <1>1
<1> HIDE DEF yes
<1>2. FoundIs' BY <1>1, FoundStays DEF DiscoveryInv
<1>3. PICK r \in served : handled' = Handle(r) BY DEF Deliver
<1>4. r \in Everyone BY DEF DiscoveryInv
<1>5. CASE wire.is = "plain"
  <2>1. wire = PlainMessage(wire.info, wire.subject, wire.payload, wire.delivered)
    BY <1>5 DEF DiscoveryInv, WireIs
  <2>2. wire' = PlainMessage(wire.info, wire.subject, wire.payload, yes)
    BY <1>7, <2>1, PlainDelivered, Zenon
  <2>3. /\ wire'.is = "plain" /\ wire'.info = wire.info /\ wire'.subject = wire.subject
        /\ wire'.payload = wire.payload /\ wire'.delivered = yes
    BY <2>2 DEF PlainMessage
  <2>4. WireIs' BY <2>2, <2>3 DEF WireIs
  <2> QED BY <1>1, <1>2, <2>4 DEF DiscoveryInv
<1>6. CASE wire.is = "envelope"
  <2> DEFINE req == wire.req
  <2>1. /\ wire = Envelope(wire.info, wire.subject, req, wire.delivered)
        /\ req \in PromptRequests /\ SendRefuses(wire.info, req) = "nil"
    BY <1>6 DEF DiscoveryInv, WireIs
  <2>2. wire.prompt = Encoded(req.prompt) /\ wire.attachments = req.attachments /\ wire.header = req.header
    BY <2>1 DEF Envelope
  <2>3. wire' = Envelope(wire.info, wire.subject, req, yes) BY <1>7, <2>1, EnvelopeDelivered, Zenon
  <2>4. /\ wire'.is = "envelope" /\ wire'.info = wire.info /\ wire'.subject = wire.subject
        /\ wire'.req = req /\ wire'.delivered = yes
    BY <2>3 DEF Envelope
  <2> DEFINE env == [ok |-> TRUE, prompt |-> wire.prompt, attachments |-> wire.attachments]
             run == [is |-> "runs", by |-> r, prompt |-> env.prompt, attachments |-> env.attachments,
                     parts |-> ContentParts(env), header |-> wire.header]
  <2>5. DecodeEnvelope(wire) = env BY <1>6, Zenon DEF DecodeEnvelope
  <2>6. env.ok /\ env.prompt = wire.prompt /\ env.attachments = wire.attachments OBVIOUS
  <2> HIDE DEF env
  <2>7. handled' = IF ~r.attachmentsOk /\ env.attachments # <<>>
                   THEN BadRequest(r, "attachments_not_allowed") ELSE run
    BY <1>3, <1>6, <2>5, <2>6 DEF Handle
  <2>8. handled'.by = r BY <2>7 DEF BadRequest
  <2>9. ASSUME AgentInfo(r) = wire.info PROVE TakesWhole(handled', req)
    <3>1. AgentInfo(r).attachmentsOk = r.attachmentsOk BY DEF AgentInfo
    <3>2. ~(req.attachments # <<>> /\ ~wire.info.attachmentsOk) BY <2>1, Zenon DEF SendRefuses
    <3>3. handled' = run BY <2>2, <2>6, <2>7, <2>9, <3>1, <3>2
    <3>4. Len(ContentParts(env)) = 1 + Len(req.attachments)
      <4>1. req.attachments \in Seq(ToSet(req.attachments))
        BY <2>1, DiscoveryConstants DEF DiscoveryConstants
      <4>2. DOMAIN req.attachments = 1 .. Len(req.attachments) /\ Len(req.attachments) \in Nat
        <5> DEFINE T == ToSet(req.attachments)
        <5>1. req.attachments \in Seq(T) BY <4>1
        <5> HIDE DEF T
        <5> QED BY <5>1
      <4> DEFINE part(i) == [kind |-> IF env.attachments[i].image THEN "image" ELSE "text",
                             of |-> env.attachments[i].name]
                 n == Len(req.attachments)
                 rest == [i \in 1 .. n |-> part(i)]
                 first == <<[kind |-> "text", of |-> env.prompt]>>
                 All == {rest[i] : i \in 1 .. n} \cup {first[1]}
      <4>3. ContentParts(env) = first \o rest BY <2>2, <2>6, <4>2 DEF ContentParts
      <4>4. n \in Nat BY <4>2
      <4> HIDE DEF part, n
      <4>5. rest \in Seq({rest[i] : i \in 1 .. n}) /\ Len(rest) = n BY <4>4
      <4>6. first \in Seq({first[1]}) /\ Len(first) = 1 OBVIOUS
      <4> HIDE DEF rest, first
      <4>7. rest \in Seq(All) /\ first \in Seq(All) BY <4>5, <4>6
      <4> HIDE DEF All
      <4>8. Len(first \o rest) = Len(first) + Len(rest) BY <4>7
      <4> QED BY <4>3, <4>5, <4>6, <4>8 DEF n
    <3> QED BY <2>2, <2>6, <3>3, <3>4 DEF TakesWhole
  <2>10. wire'.is = "envelope" /\ wire'.req \in PromptRequests /\ SendRefuses(wire'.info, wire'.req) = "nil"
    BY <2>1, <2>4, Zenon
  <2>11. wire' = Envelope(wire'.info, wire'.subject, wire'.req, wire'.delivered)
    BY <2>3, <2>4, Zenon
  <2>12. handled'.by \in Everyone /\ (AgentInfo(handled'.by) = wire'.info => TakesWhole(handled', wire'.req))
    BY <1>4, <2>4, <2>8, <2>9, Zenon
  <2>13. WireIs'
    BY ONLY <2>10, <2>11, <2>12 DEF WireIs
  <2> QED BY <1>1, <1>2, <2>13 DEF DiscoveryInv
<1> QED BY <1>5, <1>6 DEF Deliver

LEMMA DiscoverySteps == DiscoveryInv /\ [DiscoveryNext]_discoveryVars => DiscoveryInv'
<1> SUFFICES ASSUME DiscoveryInv, [DiscoveryNext]_discoveryVars PROVE DiscoveryInv' OBVIOUS
<1>1. CASE \/ \E c \in Configs : Serve(c)
           \/ \E r \in Foreign : ServeForeign(r)
           \/ \E r \in served : StopServing(r)
  BY <1>1, ServingSteps
<1>2. CASE StartDiscover \/ HearReply \/ StallOver \/ DiscoverAgain BY <1>2, DiscoveringSteps
<1>3. CASE Send \/ SendPlain \/ PromptOver BY <1>3, SendingSteps
<1>4. CASE Deliver BY <1>4, DeliverStep
<1>5. CASE UNCHANGED discoveryVars
  <2>1. UNCHANGED <<served, disc, found, wire, handled>> BY <1>5 DEF discoveryVars
  <2> QED BY <2>1, FoundStays, WireStays DEF DiscoveryInv
<1> QED BY <1>1, <1>2, <1>3, <1>4, <1>5 DEF DiscoveryNext

\* What is wanted is what was asked for.
LEMMA WantedIsAskedFor ==
    ASSUME NEW r \in Everyone, NEW filter
    PROVE  Wanted(r, filter) <=> AskedFor(r, filter)
<1>1. Compatible(r.version) <=> r.version = <<0, 3>>
  <2>1. Compatible(r.version) => r.version = <<0, 3>> BY EveryoneIs
  <2>2. r.version = <<0, 3>> => Compatible(r.version) BY DEF Compatible
  <2> QED BY <2>1, <2>2
<1>2. Promptable(r) <=> r.service = "agents" /\ r.version = <<0, 3>> /\ r.subject # <<>>
  BY <1>1, Zenon DEF Promptable
<1>3. /\ AgentInfo(r).agent = r.agent /\ AgentInfo(r).owner = r.owner
      /\ AgentInfo(r).session = r.session /\ AgentInfo(r).name = NameIn(r.subject)
  BY DEF AgentInfo
<1> DEFINE info == AgentInfo(r)
<1> HIDE DEF info
<1>4. MatchFilter(info, filter) <=>
          /\ filter.agent \in {<<>>, info.agent} /\ filter.owner \in {<<>>, info.owner}
          /\ filter.session \in {<<>>, info.session} /\ filter.name \in {<<>>, info.name}
  BY DEF MatchFilter
<1> QED BY <1>2, <1>3, <1>4 DEF Wanted, AskedFor, info

LEMMA FoundIsFound ==
    ASSUME DiscoveryInv, disc.at # "idle"
    PROVE  /\ \A i \in DOMAIN found : \E r \in disc.heard : AskedFor(r, disc.filter) /\ found[i] = AgentInfo(r)
           /\ \A r \in disc.heard : AskedFor(r, disc.filter) => \E i \in DOMAIN found : found[i] = AgentInfo(r)
           /\ disc.at = "ErrNoAgentsFound" => \A r \in disc.heard : ~AskedFor(r, disc.filter)
<1>1. disc # Idle /\ disc \in Discoveries BY DEF DiscoveryInv, FoundIs, Idle
<1>2. disc.heard \subseteq Everyone BY <1>1 DEF Discoveries
<1>3. \A r \in disc.heard : Wanted(r, disc.filter) <=> AskedFor(r, disc.filter) BY <1>2, WantedIsAskedFor
<1>4. /\ \A i \in DOMAIN found : \E r \in disc.heard : Wanted(r, disc.filter) /\ found[i] = AgentInfo(r)
      /\ \A r \in disc.heard : Wanted(r, disc.filter) => \E i \in DOMAIN found : found[i] = AgentInfo(r)
      /\ disc.at = "ErrNoAgentsFound" => found = <<>>
  BY <1>1 DEF DiscoveryInv, FoundIs
<1>5. disc.at = "ErrNoAgentsFound" => DOMAIN found = {} BY <1>4
<1> QED BY <1>3, <1>4, <1>5, Zenon

LEMMA SentIsServed ==
    ASSUME DiscoveryInv, wire.is = "envelope", wire.delivered, AgentInfo(handled.by) = wire.info
    PROVE  /\ TakesWhole(handled, wire.req)
           /\ ClientLimit > 0 => EncodedSize(wire.req) <= ClientLimit
           /\ ParseMaxPayload(handled.by.cap).bytes > 0 =>
                  EncodedSize(wire.req) <= ParseMaxPayload(handled.by.cap).bytes
<1> DEFINE r == handled.by
           limit == ParseMaxPayload(r.cap).bytes
           size == EncodedSize(wire.req)
<1>1. /\ r \in Everyone /\ TakesWhole(handled, wire.req) /\ wire.req \in PromptRequests
      /\ SendRefuses(wire.info, wire.req) = "nil"
  BY DEF DiscoveryInv, WireIs
<1>2. ~TooLarge(wire.info, wire.req) BY <1>1, Zenon DEF SendRefuses
<1>3. AgentInfo(r).maxPayload = limit BY DEF AgentInfo
<1>4. size \in Nat /\ ClientLimit \in Nat BY <1>1, DiscoveryConstants DEF DiscoveryConstants
<1>5. limit \in Int BY <1>1, EveryoneIs
<1>6. ~(ClientLimit > 0 /\ size > ClientLimit) /\ ~(limit > 0 /\ size > limit) BY <1>2, <1>3 DEF TooLarge
<1> HIDE DEF limit, size
<1>7. (ClientLimit > 0 => size <= ClientLimit) /\ (limit > 0 => size <= limit) BY <1>4, <1>5, <1>6
<1> QED BY <1>1, <1>7 DEF limit, size

\* A caller finds the instances it asked for, all that were heard, and what it is let
\* send is within both caps and arrives as it was sent at an instance with the settings
\* it saw (nats/client.go, nats/server.go): with any servers, also of other SDKs, that come and go, any filters
\* and requests, and any limits of the two connections.
THEOREM PromptsArrive == DiscoverySpec => []PromptsFindTheirAgent
<1>1. DiscoveryInit => DiscoveryInv
  <2> SUFFICES ASSUME DiscoveryInit PROVE DiscoveryInv OBVIOUS
  <2>1. served = {} /\ disc = Idle /\ found = <<>> /\ wire = [is |-> "none"] BY DEF DiscoveryInit, NoMessage
  <2>2. found \in Seq(AgentInfos) BY <2>1
  <2> QED BY <2>1, <2>2 DEF DiscoveryInv, FoundIs, WireIs
<1>2. DiscoveryInv /\ [DiscoveryNext]_discoveryVars => DiscoveryInv' BY DiscoverySteps
<1>3. DiscoveryInv => PromptsFindTheirAgent
  <2> SUFFICES ASSUME DiscoveryInv PROVE PromptsFindTheirAgent OBVIOUS
  <2>2. \A r \in served \ Foreign : ParseMaxPayload(r.cap).bytes \in 1 .. ServerLimit
    BY EveryoneIs DEF DiscoveryInv
  <2> QED BY <2>2, FoundIsFound, SentIsServed, Zenon DEF PromptsFindTheirAgent, TakesWhole
<1> QED BY <1>1, <1>2, <1>3, PTL DEF DiscoverySpec
=============================================================================
