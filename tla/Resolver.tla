------------------------------ MODULE Resolver ------------------------------
(***************************************************************************)
(* nats.Resolver for one agent (an owner and a name): its cached handle,   *)
(* the heartbeat tracker that says whether the agent is alive, and the     *)
(* discovery that concurrent misses share (singleflight).  The callers are *)
(* the tools of Resolver.AsTool: they resolve, prompt, and invalidate the  *)
(* handle when the prompt fails.                                           *)
(*                                                                         *)
(* The agent's instances start, stop, and beat when they like; a handle is *)
(* the instance that answered the discovery, with its metadata.  Time      *)
(* passes in ticks of a heartbeat interval.                                *)
(***************************************************************************)
EXTENDS Integers, SequencesExt

CONSTANTS ToolCallers,
          MaxInstances, \* bound on the instances that are ever started
          MissedFactor, \* heartbeatMissedFactor
          TTL,          \* WithResolverCacheTTL
          Window        \* WithDiscoveryTimeout: the ticks a discovery may take

\* The interval, the TTL and the window are durations in ticks, and a TTL that is not
\* positive leaves the default in place (WithResolverCacheTTL).
ASSUME ResolverConstants ==
    /\ MaxInstances \in Nat /\ MissedFactor \in Nat
    /\ TTL \in Nat /\ Window \in Nat

VARIABLES
    instances, alive, \* how many were started, and those that live
    deadFor,          \* ticks since each instance stopped, up to a bound: history
    beat,             \* ticks since the tracker heard the agent, or Unheard
    handleCache,      \* the cached handle
    flight,           \* the discovery under way
    resolving         \* the call each caller is in

resolverVars == <<instances, alive, deadFor, beat, handleCache, flight, resolving>>

Unheard == MissedFactor + 1
Forgotten == TTL + Window + 1
None == [handle |-> 0]
NoFlight == [at |-> "none"]
NoCall == [at |-> "idle", dead |-> FALSE]
Has(handle, cached) == [at |-> "has", handle |-> handle, cached |-> cached]

ResolverInit ==
    /\ instances = 0 /\ alive = {} /\ deadFor = [i \in 1 .. MaxInstances |-> 0]
    /\ beat = Unheard
    /\ handleCache = None /\ flight = NoFlight
    /\ resolving = [c \in ToolCallers |-> NoCall]

-----------------------------------------------------------------------------
(* The agent and its heartbeats *)

Restart ==
    /\ instances < MaxInstances
    /\ instances' = instances + 1
    /\ alive' = alive \cup {instances + 1}
    /\ UNCHANGED <<deadFor, beat, handleCache, flight, resolving>>

Stop(i) ==
    /\ i \in alive
    /\ alive' = alive \ {i}
    /\ UNCHANGED <<instances, deadFor, beat, handleCache, flight, resolving>>

\* The tracker stamps the agent, whichever instance beat.
Beat ==
    /\ alive # {} /\ beat # 0
    /\ beat' = 0
    /\ UNCHANGED <<instances, alive, deadFor, handleCache, flight, resolving>>

IsAgentOnline == beat <= MissedFactor

-----------------------------------------------------------------------------
(* Resolve *)

\* Variant: a hit renews the entry.
Hit_Renews == handleCache' = [handleCache EXCEPT !.age = 0]

Hit == UNCHANGED handleCache

Fresh == handleCache # None /\ handleCache.age < TTL

\* The cached handle is used while it is not expired and the agent beats.
ResolveCached(c) ==
    /\ resolving[c].at = "idle"
    /\ Fresh /\ IsAgentOnline
    /\ Hit
    /\ resolving' = [resolving EXCEPT ![c] = Has(handleCache.handle, TRUE)]
    /\ UNCHANGED <<instances, alive, deadFor, beat, flight>>

\* The miss and the discovery are two steps: the cache may be filled in between.
ResolveMisses(c) ==
    /\ resolving[c].at = "idle"
    /\ ~(Fresh /\ IsAgentOnline)
    /\ resolving' = [resolving EXCEPT ![c] = [NoCall EXCEPT !.at = "missed"]]
    /\ UNCHANGED <<instances, alive, deadFor, beat, handleCache, flight>>

\* DoChan: a caller whose context has not ended joins the discovery, or starts it.
Join(c) ==
    /\ resolving[c].at = "missed" /\ ~resolving[c].dead
    /\ resolving' = [resolving EXCEPT ![c].at = "waits"]
    /\ flight' = IF flight.at = "none"
                 THEN [at |-> "asks", by |-> c, replies |-> <<>>, age |-> 0]
                 ELSE flight
    /\ UNCHANGED <<instances, alive, deadFor, beat, handleCache>>

\* A caller's context ends.
ContextEnds(c) ==
    /\ resolving[c].at \in {"missed", "waits"} /\ ~resolving[c].dead
    /\ resolving' = [resolving EXCEPT ![c].dead = TRUE]
    /\ UNCHANGED <<instances, alive, deadFor, beat, handleCache, flight>>

\* A caller whose context has ended gives up alone.
GiveUp(c) ==
    /\ resolving[c].at \in {"missed", "waits"} /\ resolving[c].dead
    /\ resolving' = [resolving EXCEPT ![c].at = "cancelled"]
    /\ UNCHANGED <<instances, alive, deadFor, beat, handleCache, flight>>

-----------------------------------------------------------------------------
(* The discovery *)

\* An instance answers the broadcast.
Reply(i) ==
    /\ flight.at = "asks"
    /\ i \in alive /\ ~Contains(flight.replies, i)
    /\ flight' = [flight EXCEPT !.replies = Append(@, i)]
    /\ UNCHANGED <<instances, alive, deadFor, beat, handleCache, resolving>>

\* Variant: the discovery runs on the context of the caller that started it.
DiscoveryCancelled_Starter == resolving[flight.by].at = "waits" /\ resolving[flight.by].dead

\* context.WithoutCancel
DiscoveryCancelled == FALSE

\* Silence or the deadline ends the collection; the first answer is cached.
Discovered ==
    /\ flight.at = "asks"
    /\ IF DiscoveryCancelled
       THEN flight' = [flight EXCEPT !.at = "cancelled"] /\ UNCHANGED handleCache
       ELSE IF flight.replies = <<>>
       THEN flight' = [flight EXCEPT !.at = "nobody"] /\ UNCHANGED handleCache
       ELSE /\ flight' = [flight EXCEPT !.at = "found"]
            /\ handleCache' = [handle |-> Head(flight.replies), age |-> 0]
    /\ UNCHANGED <<instances, alive, deadFor, beat, resolving>>

\* singleflight hands the result to all that joined, and forgets the discovery.
DeliverHandle ==
    /\ flight.at \in {"found", "nobody", "cancelled"}
    /\ resolving' = [c \in ToolCallers |->
           IF resolving[c].at # "waits" THEN resolving[c]
           ELSE IF flight.at = "found" THEN Has(Head(flight.replies), FALSE)
           ELSE [resolving[c] EXCEPT !.at = flight.at]]
    /\ flight' = NoFlight
    /\ UNCHANGED <<instances, alive, deadFor, beat, handleCache>>

-----------------------------------------------------------------------------
(* The call *)

\* The prompt is answered: by any instance, as the subject is the agent's.
CallSucceeds(c) ==
    /\ resolving[c].at = "has" /\ alive # {}
    /\ resolving' = [resolving EXCEPT ![c] = NoCall]
    /\ UNCHANGED <<instances, alive, deadFor, beat, handleCache, flight>>

\* The prompt fails: Invalidate, which does not stop a discovery under way from
\* caching what it found before.
CallFails(c) ==
    /\ resolving[c].at = "has"
    /\ handleCache' = None
    /\ resolving' = [resolving EXCEPT ![c] = NoCall]
    /\ UNCHANGED <<instances, alive, deadFor, beat, flight>>

\* A call that got no handle is over.
CallEnds(c) ==
    /\ resolving[c].at \in {"nobody", "cancelled"}
    /\ resolving' = [resolving EXCEPT ![c] = NoCall]
    /\ UNCHANGED <<instances, alive, deadFor, beat, handleCache, flight>>

ResolverTick ==
    /\ flight.at # "none" => flight.at = "asks" /\ flight.age < Window
    /\ beat' = IF beat < Unheard THEN beat + 1 ELSE beat
    /\ deadFor' = [i \in 1 .. MaxInstances |->
           IF i > instances \/ i \in alive \/ deadFor[i] = Forgotten THEN deadFor[i]
           ELSE deadFor[i] + 1]
    /\ handleCache' = IF Fresh THEN [handleCache EXCEPT !.age = @ + 1] ELSE handleCache
    /\ flight' = IF flight.at = "asks" THEN [flight EXCEPT !.age = @ + 1] ELSE flight
    /\ <<beat', deadFor', handleCache', flight'>> # <<beat, deadFor, handleCache, flight>>
    /\ UNCHANGED <<instances, alive, resolving>>

ResolverNext ==
    \/ Restart \/ Beat \/ Discovered \/ DeliverHandle \/ ResolverTick
    \/ \E i \in 1 .. MaxInstances : Stop(i) \/ Reply(i)
    \/ \E c \in ToolCallers :
           \/ ResolveCached(c) \/ ResolveMisses(c) \/ Join(c) \/ ContextEnds(c) \/ GiveUp(c)
           \/ CallSucceeds(c) \/ CallFails(c) \/ CallEnds(c)

ResolverSpec == ResolverInit /\ [][ResolverNext]_resolverVars

-----------------------------------------------------------------------------
(* Properties *)

\* "If it did, that caller cancelling would fail every other caller waiting on
\* it" (Resolve, nats/resolver.go): a call ends as cancelled only when its own
\* context has ended, whoever started the discovery it waits for.
NobodyFailsForAnother ==
    \A c \in ToolCallers : resolving[c].at = "cancelled" => resolving[c].dead

\* What a step hands to c.
Gets(c) == resolving[c].at # "has" /\ resolving'[c].at = "has"

\* "Metadata cannot go stale indefinitely across a redeploy" (WithResolverCacheTTL):
\* however often the handle is used, it names an instance that lived within the
\* TTL and the time of a discovery.  And "a cache hit is served while the agent is
\* still beating": not after the heartbeats were missed that make it offline.
HandleIsCurrent ==
    [][\A c \in ToolCallers : Gets(c) =>
           /\ deadFor[resolving'[c].handle] <= TTL + Window
           /\ resolving'[c].cached =>
                  \E i \in 1 .. instances : i \in alive \/ deadFor[i] <= MissedFactor]_resolving
=============================================================================
