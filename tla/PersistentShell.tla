--------------------------- MODULE PersistentShell ---------------------------
(***************************************************************************)
(* The foreground commands of bash.Tool with WithPersistentShell: each     *)
(* runs in a process of its own, and what it changed of its directory and  *)
(* its environment is carried over to the next.  Commands may run at once, *)
(* as the calls of one round do.                                           *)
(*                                                                         *)
(* An environment gives each name a value, or Missing.                     *)
(***************************************************************************)
EXTENDS Integers

CONSTANTS Foreground,     \* the commands that may run at once
          Names, Values,  \* of the variables commands export
          Dirs,
          StartEnv,       \* the environment of the agent, and WithEnv's entries
          Asked,          \* the timeouts the model asks for; 0 for none
          DefaultTimeout, FixedTimeout, MaxTimeout, \* 0 for none
          EmptyExports    \* whether a command exports an empty variable that was missing

VARIABLES
    carried, \* t.state
    command, \* where each command is
    lastDir, \* the directory the last command recorded ended in: history
    lastLeft \* each variable as the last command to change it left it: history

persistVars == <<carried, command, lastDir, lastLeft>>

Missing == "missing"
NoDir == "nowhere"
NoReport == [env |-> "none"]
NotStarted == [at |-> "idle"]

\* An environment is one, and what is missing has no value.
ASSUME PersistConstants ==
    /\ StartEnv \in [Names -> Values \cup {Missing}]
    /\ Missing \notin Values

PersistInit ==
    /\ carried = [cwd |-> NoDir, set |-> [n \in Names |-> Missing], unset |-> {}]
    /\ command = [c \in Foreground |-> NotStarted]
    /\ lastDir = NoDir
    /\ lastLeft = StartEnv

-----------------------------------------------------------------------------
(* The carried state *)

\* shellState.dir; the fallback is the tool's working directory.
StartDir == carried.cwd

\* shellState.apply.
Applied ==
    [n \in Names |-> IF carried.set[n] # Missing THEN carried.set[n]
                     ELSE IF n \in carried.unset THEN Missing ELSE StartEnv[n]]

\* What reading a Go map gives: the empty string when there is no entry.
Lookup(env, n) == IF env[n] = Missing THEN "" ELSE env[n]

\* The variables update takes as set, and as removed.
SetBy(before, after) == {n \in Names : after[n] # Missing /\ Lookup(before, n) # after[n]}
RemovedBy(before, after) == {n \in Names : before[n] # Missing /\ after[n] = Missing}

\* Variant: the new changes are all that is kept.
Updated_Forgets(report, before) ==
    [cwd |-> report.dir,
     set |-> [n \in Names |->
                 IF n \in SetBy(before, report.env) THEN report.env[n] ELSE Missing],
     unset |-> RemovedBy(before, report.env)]

\* shellState.update.
Updated(report, before) ==
    [cwd |-> report.dir,
     set |-> [n \in Names |->
                 IF n \in SetBy(before, report.env) THEN report.env[n]
                 ELSE IF n \in RemovedBy(before, report.env) THEN Missing
                 ELSE carried.set[n]],
     unset |-> (carried.unset \ SetBy(before, report.env)) \cup RemovedBy(before, report.env)]

-----------------------------------------------------------------------------
(* A command *)

Least(a, b) == IF a = 0 \/ (b # 0 /\ b < a) THEN b ELSE a

\* resolveTimeout refuses what exceeds the maximum; 0 is for no limit.
Refuses(asked) == MaxTimeout > 0 /\ asked > MaxTimeout

TimeoutOf(asked) ==
    LET own == IF FixedTimeout > 0 THEN FixedTimeout ELSE DefaultTimeout
    IN  Least(Least(IF asked > 0 THEN asked ELSE own, FixedTimeout), MaxTimeout)

\* run, and newCommand up to the runner: the directory is read.
CallForeground(c) ==
    /\ command[c] = NotStarted
    /\ \E asked \in Asked :
           /\ ~Refuses(asked)
           /\ command' = [command EXCEPT ![c] =
                  [at |-> "placed", dir |-> StartDir, limit |-> TimeoutOf(asked)]]
    /\ UNCHANGED <<carried, lastDir, lastLeft>>

\* newCommand after the runner, and Start: the environment is read under a lock of its own.
StartProcess(c) ==
    /\ command[c].at = "placed"
    /\ command' = [command EXCEPT ![c] =
           [at |-> "running", dir |-> command[c].dir, limit |-> command[c].limit,
            before |-> Applied, ended |-> "no"]]
    /\ UNCHANGED <<carried, lastDir, lastLeft>>

\* The call's context ends, or the command's timeout expires.
EndContext(c) ==
    /\ command[c].at \in {"running", "exited"} /\ command[c].ended = "no"
    /\ \E why \in {"call", "timeout"} :
           /\ why = "timeout" => command[c].limit > 0
           /\ command' = [command EXCEPT ![c].ended = why]
    /\ UNCHANGED <<carried, lastDir, lastLeft>>

Exported(before, after) ==
    \A n \in Names : before[n] = Missing /\ after[n] = "" => EmptyExports

\* The process ends; persistentScript reports unless the command called exit or was killed.
EndProcess(c) ==
    /\ command[c].at = "running"
    /\ \E report \in {NoReport} \cup [dir : Dirs, env : [Names -> Values \cup {Missing}]] :
           /\ command[c].ended # "no" => report = NoReport
           /\ report # NoReport => Exported(command[c].before, report.env)
           /\ command' = [command EXCEPT ![c] =
                  [at |-> "exited", dir |-> command[c].dir, limit |-> command[c].limit,
                   before |-> command[c].before, ended |-> command[c].ended, report |-> report]]
    /\ UNCHANGED <<carried, lastDir, lastLeft>>

Completed(c) == command[c].ended = "no"

\* recordState, and the end of runForeground.
Record(c) ==
    /\ command[c].at = "exited"
    /\ LET report == command[c].report
           before == command[c].before
       IN  IF report # NoReport /\ Completed(c)
           THEN /\ carried' = Updated(report, before)
                /\ lastDir' = report.dir
                /\ lastLeft' = [n \in Names |-> IF report.env[n] # before[n] THEN report.env[n]
                                                ELSE lastLeft[n]]
           ELSE UNCHANGED <<carried, lastDir, lastLeft>>
    /\ command' = [command EXCEPT ![c] = NotStarted]

PersistNext ==
    \E c \in Foreground : CallForeground(c) \/ StartProcess(c) \/ EndContext(c) \/ EndProcess(c) \/ Record(c)

PersistSpec == PersistInit /\ [][PersistNext]_persistVars

-----------------------------------------------------------------------------
(* The next command starts where the last one recorded ended, and has each *)
(* variable as the last command that changed it left it, whichever others  *)
(* ran at the same time: a command that started earlier and changed other  *)
(* variables undoes nothing (WithPersistentShell, shellState.update).      *)
CarriesEachChange == StartDir = lastDir /\ Applied = lastLeft
=============================================================================
