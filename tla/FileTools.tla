------------------------------ MODULE FileTools ------------------------------
(***************************************************************************)
(* tool/file: the read, write, edit and multi_edit tools of an agent, with *)
(* the ReadTracker they share, on one file that others (an editor, a       *)
(* command, another agent) write as well.                                  *)
(*                                                                         *)
(* A version stands for what the file holds and for its stamp, the         *)
(* modification time and size: each write makes a new one.  The tools that *)
(* change a file are exclusive, reads run at once.                         *)
(***************************************************************************)
EXTENDS Integers

CONSTANTS FileReads,   \* the calls of read that may be under way at once
          Touches,     \* when others may write: "between" calls, while "reading", "changing"
          MaxVersions  \* bound on the writes

VARIABLES
    disk,     \* the version on disk
    stamp,    \* the tracker's entry
    reading,  \* the version each read has got, and not recorded
    change,   \* the write or edit under way
    versions, \* how many versions there were
    known,    \* the versions whose whole content the model has seen: history
    unseen    \* those replaced that it had not: history

fileVars == <<disk, stamp, reading, change, versions, known, unseen>>

Absent == 0
NoStamp == 0
NoChange == [at |-> "none"]

FileInit ==
    /\ disk \in {Absent, 1} /\ versions = 1
    /\ stamp = NoStamp
    /\ reading = [r \in FileReads |-> Absent] /\ change = NoChange
    /\ known = {} /\ unseen = {}

Phase ==
    IF change # NoChange THEN "changing"
    ELSE IF \E r \in FileReads : reading[r] # Absent THEN "reading"
    ELSE "between"

OthersWrite ==
    /\ Phase \in Touches /\ versions < MaxVersions
    /\ versions' = versions + 1
    /\ disk' \in {Absent, versions + 1}
    /\ UNCHANGED <<stamp, reading, change, known, unseen>>

-----------------------------------------------------------------------------
(* read *)

OpenFile(r) ==
    /\ change = NoChange /\ reading[r] = Absent /\ disk # Absent
    /\ reading' = [reading EXCEPT ![r] = disk]
    /\ UNCHANGED <<disk, stamp, change, versions, known, unseen>>

\* ReadTracker.record: the version that is there now, if there is one.
Recorded == IF disk = Absent THEN stamp ELSE disk

RecordRead(r) ==
    /\ reading[r] # Absent
    /\ stamp' = Recorded
    /\ known' = known \cup {reading[r]}
    /\ reading' = [reading EXCEPT ![r] = Absent]
    /\ UNCHANGED <<disk, change, versions, unseen>>

\* ReadTracker.Reset, for a new session.
ResetTracker ==
    /\ Phase = "between" /\ stamp # NoStamp
    /\ stamp' = NoStamp /\ known' = {}
    /\ UNCHANGED <<disk, reading, change, versions, unseen>>

-----------------------------------------------------------------------------
(* write, edit and multi_edit *)

\* Variant: a file that was read may be changed ever after.
Allowed_Read == disk = Absent \/ stamp # NoStamp

\* ReadTracker.check.
Allowed == disk = Absent \/ stamp = disk

BeginChange(op) ==
    /\ Phase = "between" /\ Allowed
    /\ change' = [at |-> "plan", op |-> op]
    /\ UNCHANGED <<disk, stamp, reading, versions, known, unseen>>

\* What is there now: an edit starts from it.
PlanChange ==
    /\ change.at = "plan"
    /\ change' = IF disk = Absent /\ change.op = "edit" THEN NoChange
                 ELSE [at |-> "rename", op |-> change.op, before |-> disk]
    /\ UNCHANGED <<disk, stamp, reading, versions, known, unseen>>

Kept == change.op = "edit" /\ change.before = disk

\* The rename over the file.  What the model wrote it knows, if it knew what it edited.
RenameOver ==
    /\ change.at = "rename" /\ versions < MaxVersions
    /\ versions' = versions + 1
    /\ disk' = versions + 1
    /\ unseen' = IF disk = Absent \/ disk \in known \/ Kept THEN unseen ELSE unseen \cup {disk}
    /\ known' = IF change.op = "write" \/ change.before \in known THEN known \cup {versions + 1} ELSE known
    /\ change' = [at |-> "record"]
    /\ UNCHANGED <<stamp, reading>>

\* An edit does not apply, the file exists and WithNoOverwrite says that it must not,
\* or the temporary file cannot be written.
ChangeFails ==
    /\ change.at = "rename"
    /\ change' = NoChange
    /\ UNCHANGED <<disk, stamp, reading, versions, known, unseen>>

\* "The model knows the content it wrote: it may change it again."
RecordChange ==
    /\ change.at = "record"
    /\ stamp' = Recorded
    /\ change' = NoChange
    /\ UNCHANGED <<disk, reading, versions, known, unseen>>

FileNext ==
    \/ OthersWrite \/ ResetTracker
    \/ \E r \in FileReads : OpenFile(r) \/ RecordRead(r)
    \/ \E op \in {"write", "edit"} : BeginChange(op)
    \/ PlanChange \/ RenameOver \/ ChangeFails \/ RecordChange

FileSpec == FileInit /\ [][FileNext]_fileVars

-----------------------------------------------------------------------------
(* Properties *)

\* The tools that change a file "refuse to change an existing file that was not read,
\* or that changed since" (WithReadTracker, tool/file/option.go): nothing that the
\* model has not seen is replaced.
NothingUnseenIsOverwritten == unseen = {}

\* ... and they refuse nothing else: between calls a change is allowed just when the
\* model knows what the file holds, its own last change included.
RefusesJustTheUnseen ==
    /\ NothingUnseenIsOverwritten
    /\ Phase = "between" => (Allowed <=> disk = Absent \/ disk \in known)
=============================================================================
