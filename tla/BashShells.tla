------------------------------ MODULE BashShells ------------------------------
(***************************************************************************)
(* The background shells of bash.Tool: the tool calls bash (in background),*)
(* bash_output and kill_shell, the shells' processes, and Close.  A shell's*)
(* output is the bytes 1, 2, ... in the order it wrote them; its buffer is *)
(* the last of them.                                                       *)
(***************************************************************************)
EXTENDS Integers, SequencesExt, FiniteSetsExt

CONSTANTS Shells,     \* the shells that may be started
          ToolCalls,  \* the tool calls under way at a time
          MaxBytes,   \* bound on what a shell writes
          RuneStarts, \* the bytes that start a character
          MaxBackgroundOutput \* 0 or less: no cap

ASSUME ShellConstants == MaxBytes \in Nat /\ MaxBackgroundOutput \in Int

VARIABLES
    process,    \* each shell's process: "none", "alive", "exited" or "waited" for
    signalled,  \* the shells whose group was sent SIGKILL
    shellMap,   \* t.shell
    buffer,     \* each shell's output
    got,        \* the bytes that bash_output returned of each shell: history
    reported,   \* the bytes it reported as dropped: history
    toolCall,   \* where each tool call is
    closed, baseDone, \* t.closed, and the end of t.baseCtx
    closer      \* where Close is, and the shells it saw

shellVars == <<process, signalled, shellMap, buffer, got, reported, toolCall, closed, baseDone, closer>>

\* The shell's running, as it is under its lock.
IsRunning(s) == process[s] \in {"alive", "exited"}

ShellInit ==
    /\ process = [s \in Shells |-> "none"]
    /\ signalled = {} /\ shellMap = {}
    /\ buffer = [s \in Shells |-> [from |-> 0, to |-> 0, readOffset |-> 0, unreadDropped |-> 0]]
    /\ got = [s \in Shells |-> <<>>] /\ reported = [s \in Shells |-> 0]
    /\ toolCall = [c \in ToolCalls |-> [at |-> "idle"]]
    /\ closed = FALSE /\ baseDone = FALSE
    /\ closer = [at |-> "open", saw |-> {}]

-----------------------------------------------------------------------------
(* The shells *)

\* Variant: the closed check is made before the lock, and may be stale.
MayStart_Stale == ~baseDone

MayStart == ~closed

\* startBackground, whose lock covers the check and the start; a start may fail.
StartBackground(s) ==
    /\ process[s] = "none" /\ MayStart
    /\ process' = [process EXCEPT ![s] = "alive"]
    /\ shellMap' = shellMap \cup {s}
    /\ UNCHANGED <<signalled, buffer, got, reported, toolCall, closed, baseDone, closer>>

\* What is dropped ends before a character, or takes everything.
Drop(from, to) ==
    IF MaxBackgroundOutput <= 0 \/ to - from <= MaxBackgroundOutput THEN 0
    ELSE Min({d \in (to - from - MaxBackgroundOutput) .. (to - from) :
                 d = to - from \/ from + d + 1 \in RuneStarts})

NotNegative(n) == IF n < 0 THEN 0 ELSE n

Unread(b, drop) == NotNegative(drop - b.readOffset)

\* lockedWriter.Write of the shell, or of a process it left behind.
Write(s) ==
    /\ IsRunning(s)
    /\ \E to \in buffer[s].to + 1 .. MaxBytes :
           LET b == buffer[s]
               drop == Drop(b.from, to)
           IN  buffer' = [buffer EXCEPT ![s] =
                   [from |-> b.from + drop, to |-> to,
                    readOffset |-> NotNegative(b.readOffset - drop),
                    unreadDropped |-> b.unreadDropped + Unread(b, drop)]]
    /\ UNCHANGED <<process, signalled, shellMap, got, reported, toolCall, closed, baseDone, closer>>

\* The shell ends by itself, by a signal or at its timeout.
Exit(s) ==
    /\ process[s] = "alive"
    /\ process' = [process EXCEPT ![s] = "exited"]
    /\ UNCHANGED <<signalled, shellMap, buffer, got, reported, toolCall, closed, baseDone, closer>>

\* Cancelling the base context kills the groups that are left.
BaseKills(s) ==
    /\ baseDone /\ process[s] = "alive" /\ s \notin signalled
    /\ signalled' = signalled \cup {s}
    /\ UNCHANGED <<process, shellMap, buffer, got, reported, toolCall, closed, baseDone, closer>>

\* Wait returns when the pipes are closed, or WaitDelay after the exit; from then
\* on nothing is written, running is false and doneCh is closed.
WaitReturns(s) ==
    /\ process[s] = "exited"
    /\ process' = [process EXCEPT ![s] = "waited"]
    /\ UNCHANGED <<signalled, shellMap, buffer, got, reported, toolCall, closed, baseDone, closer>>

-----------------------------------------------------------------------------
(* The tool calls *)

Call(c, to) == toolCall' = [toolCall EXCEPT ![c] = to]

\* bash_output and kill_shell look the shell up; one that is not there is an error.
LookUp(c, s) ==
    /\ toolCall[c].at = "idle" /\ s \in shellMap
    /\ \E at \in {"output", "kill"} : Call(c, [at |-> at, shell |-> s])
    /\ UNCHANGED <<process, signalled, shellMap, buffer, got, reported, closed, baseDone, closer>>

Finished(running, s) == ~running

\* All that was not read yet, whether the shell runs, and what was dropped, in one
\* critical section of the shell's lock.
ReadOutput(c) ==
    /\ toolCall[c].at = "output"
    /\ LET s == toolCall[c].shell
           b == buffer[s]
       IN  /\ got' = [got EXCEPT ![s] = @ \o [k \in 1 .. b.to - b.from - b.readOffset |->
                                                    b.from + b.readOffset + k]]
           /\ reported' = [reported EXCEPT ![s] = @ + b.unreadDropped]
           /\ buffer' = [buffer EXCEPT ![s].readOffset = b.to - b.from, ![s].unreadDropped = 0]
           /\ Call(c, [at |-> "forget", shell |-> s, running |-> IsRunning(s)])
    /\ UNCHANGED <<process, signalled, shellMap, closed, baseDone, closer>>

ForgetShell(c) ==
    /\ toolCall[c].at = "forget"
    /\ shellMap' = IF Finished(toolCall[c].running, toolCall[c].shell)
                   THEN shellMap \ {toolCall[c].shell} ELSE shellMap
    /\ Call(c, [at |-> "idle"])
    /\ UNCHANGED <<process, signalled, buffer, got, reported, closed, baseDone, closer>>

\* kill reads running under the lock, and signals without it.
KillReads(c) ==
    /\ toolCall[c].at = "kill"
    /\ Call(c, IF IsRunning(toolCall[c].shell) THEN [toolCall[c] EXCEPT !.at = "signal"] ELSE [at |-> "idle"])
    /\ UNCHANGED <<process, signalled, shellMap, buffer, got, reported, closed, baseDone, closer>>

\* A group that is gone is os.ErrProcessDone, which kill returns as an error.
Signalled(s) == IF process[s] = "alive" THEN signalled \cup {s} ELSE signalled

KillSignals(c) ==
    /\ toolCall[c].at = "signal"
    /\ signalled' = Signalled(toolCall[c].shell)
    /\ Call(c, [at |-> "idle"])
    /\ UNCHANGED <<process, shellMap, buffer, got, reported, closed, baseDone, closer>>

-----------------------------------------------------------------------------
(* Close *)

CloseBegins ==
    /\ closer.at = "open"
    /\ closed' = TRUE
    /\ closer' = [at |-> "kill", saw |-> shellMap]
    /\ UNCHANGED <<process, signalled, shellMap, buffer, got, reported, toolCall, baseDone>>

\* Every shell it saw that still runs is signalled, one after the other.
CloseKills ==
    /\ closer.at = "kill"
    /\ LET left == {s \in closer.saw : process[s] = "alive" /\ s \notin signalled}
       IN  \/ \E s \in left : signalled' = Signalled(s) /\ UNCHANGED closer
           \/ left = {} /\ closer' = [closer EXCEPT !.at = "wait"] /\ UNCHANGED signalled
    /\ UNCHANGED <<process, shellMap, buffer, got, reported, toolCall, closed, baseDone>>

\* It waits for all of them, or until waitDelay has passed.
CloseWaited ==
    /\ closer.at = "wait"
    /\ closer' = [closer EXCEPT !.at =
                     IF \A s \in closer.saw : process[s] = "waited" THEN "allEnded" ELSE "tooLate"]
    /\ UNCHANGED <<process, signalled, shellMap, buffer, got, reported, toolCall, closed, baseDone>>

\* baseCancel
CloseReturns ==
    /\ closer.at \in {"allEnded", "tooLate"} /\ ~baseDone
    /\ baseDone' = TRUE
    /\ UNCHANGED <<process, signalled, shellMap, buffer, got, reported, toolCall, closed, closer>>

ShellNext ==
    \/ \E s \in Shells : StartBackground(s) \/ Write(s) \/ Exit(s) \/ BaseKills(s) \/ WaitReturns(s)
    \/ \E c \in ToolCalls :
           \/ ReadOutput(c) \/ ForgetShell(c) \/ KillReads(c) \/ KillSignals(c)
           \/ \E s \in Shells : LookUp(c, s)
    \/ CloseBegins \/ CloseKills \/ CloseWaited \/ CloseReturns

ShellSpec == ShellInit /\ [][ShellNext]_shellVars

-----------------------------------------------------------------------------
(* Properties *)

\* Concurrent reads, writes past the cap and the shell's end lose no byte without
\* saying so: what bash_output returned, what it reported as dropped, what it will
\* report and what it will return are all that was written, each byte once and in
\* order, and "A finished shell whose output has now been read in full is forgotten".
OutputIsAccounted ==
    \A s \in Shells :
        LET b == buffer[s]
            unread == b.to - b.from - b.readOffset
        IN  /\ \A i, j \in DOMAIN got[s] : i < j => got[s][i] < got[s][j]
            /\ Len(got[s]) + reported[s] + b.unreadDropped + unread = b.to
            /\ process[s] # "none" /\ s \notin shellMap => ~IsRunning(s) /\ unread = 0 /\ b.unreadDropped = 0

\* "Close kills every background shell the tool started and waits, briefly, for them
\* to exit": none runs once Close stopped waiting before its time, those that run
\* when the time is up were signalled, and none starts after.
NoShellOutlivesClose ==
    /\ closer.at = "allEnded" => \A s \in Shells : ~IsRunning(s)
    /\ closer.at \in {"wait", "tooLate"} => \A s \in Shells : process[s] = "alive" => s \in signalled

\* Of a background shell, every byte is accounted for, and none outlives Close.
ShellsAreAccounted == OutputIsAccounted /\ NoShellOutlivesClose
=============================================================================
