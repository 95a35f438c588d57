--------------------------- MODULE DrainContract ---------------------------
(***************************************************************************)
(* What a nats Server promises about its shutdown, without saying how: it  *)
(* takes work on until it shuts, lets what it took finish, and then either *)
(* reports a clean end, with nothing left running, or an incomplete one.   *)
(* Module ServerLifecycle shows that nats/server.go and nats/drain.go keep *)
(* this promise.                                                           *)
(***************************************************************************)

CONSTANT Requests

VARIABLES phase,    \* "accepting", "closing", "clean" or "incomplete"
          working,  \* the requests being worked on
          finished  \* the requests whose work is over

vars == <<phase, working, finished>>

Phases == {"accepting", "closing", "clean", "incomplete"}

Init ==
    /\ phase = "accepting"
    /\ working = {}
    /\ finished = {}

Admit(r) ==
    /\ phase = "accepting"
    /\ r \notin working \cup finished
    /\ working' = working \cup {r}
    /\ UNCHANGED <<phase, finished>>

Finish(r) ==
    /\ r \in working
    /\ working' = working \ {r}
    /\ finished' = finished \cup {r}
    /\ UNCHANGED phase

Shut ==
    /\ phase = "accepting"
    /\ phase' = "closing"
    /\ UNCHANGED <<working, finished>>

ConcludeClean ==
    /\ phase = "closing"
    /\ working = {}
    /\ phase' = "clean"
    /\ UNCHANGED <<working, finished>>

ConcludeIncomplete ==
    /\ phase = "closing"
    /\ phase' = "incomplete"
    /\ UNCHANGED <<working, finished>>

Next ==
    \/ \E r \in Requests : Admit(r) \/ Finish(r)
    \/ Shut
    \/ ConcludeClean
    \/ ConcludeIncomplete

Spec == Init /\ [][Next]_vars

\* A shutdown that began comes to one of its two ends.
FairSpec == Spec /\ WF_vars(ConcludeClean \/ ConcludeIncomplete)
=============================================================================
