--------------------------- MODULE JsonfileMemory ---------------------------
(***************************************************************************)
(* memory/jsonfile: a conversation kept in memory and, after every change, *)
(* in a file written aside and renamed into place.  A change that cannot   *)
(* be written is taken back.  The process may stop at any moment; the next *)
(* one starts from the file.  The mutex makes the calls one at a time, so  *)
(* there is one call under way; between a caller's LoadSnapshot and its    *)
(* SaveSnapshot there may be other callers' calls.                         *)
(***************************************************************************)
EXTENDS SnapLog

CONSTANTS MaxFileMessages, \* bound on the messages that callers save
          MaxFileFaults,   \* bound on the writes and summaries that fail
          MaxCrashes,      \* bound on the crashes
          MaxFileClears,   \* bound on the calls of Clear
          FileCallers,     \* the callers that load the conversation and summarise it
          FileOldCursors,  \* whether a cursor may be used after a Clear
          FileOptions      \* WithPruneCompacted, WithSummarization's threshold (0
                           \* without it) and how many messages it replaces

ASSUME JsonfileConstants ==
    /\ FileOldCursors \in BOOLEAN
    /\ \A o \in FileOptions :
        /\ o.prune \in BOOLEAN /\ o.threshold \in Nat
        /\ o.threshold > 0 => o.summarySize \in 1 .. o.threshold /\ ~o.prune

VARIABLES
    mem,     \* the Memory: messages, offset, snapshot and metadata
    old,     \* what the call under way goes back to
    file,    \* the file's content, in one of its two formats
    fileOpt, \* the options it was made with
    at,      \* "idle", "persist" or "down"
    fileView, \* what each caller last got from LoadSnapshot
    todo,    \* the messages the caller still has to save, in order
    result,  \* how the last call ended
    counts   \* how many faults, crashes and clears there were

fileVars == <<mem, old, file, fileOpt, at, fileView, todo, result, counts>>

NoFileView == [prev |-> NoSnapshot, tail |-> <<>>]

Nothing == [messages |-> <<>>, offset |-> 0, snapshot |-> NoSnapshot, meta |-> FALSE]

-----------------------------------------------------------------------------
(* The file *)

\* Variant: metadata alone does not ask for the second format.
Encode_NoMeta(m) ==
    IF m.snapshot = NoSnapshot /\ m.offset = 0
    THEN [version |-> 1, content |-> [Nothing EXCEPT !.messages = m.messages]]
    ELSE [version |-> 2, content |-> m]

\* A plain array of messages, or the object that holds everything.
Encode(m) ==
    IF m.snapshot = NoSnapshot /\ m.offset = 0 /\ ~m.meta
    THEN [version |-> 1, content |-> [Nothing EXCEPT !.messages = m.messages]]
    ELSE [version |-> 2, content |-> m]

\* New: what the next process loads; an absent file is an empty conversation.
Decode(f) == f.content

FileInit ==
    /\ mem = Nothing /\ old = Nothing /\ file = [version |-> 0, content |-> Nothing]
    /\ fileOpt \in FileOptions
    /\ at = "idle" /\ result = "none"
    /\ fileView = [c \in FileCallers |-> NoFileView]
    /\ todo = [i \in 1 .. MaxFileMessages |-> i]
    /\ counts = [faults |-> 0, crashes |-> 0, clears |-> 0]

\* A call changes the memory and goes on to write the file.  Callers clear again
\* when Clear has failed, before anything else.
Changes(m) ==
    /\ at = "idle"
    /\ result = "notcleared" => m = Nothing
    /\ old' = mem /\ mem' = m
    /\ at' = "persist"
    /\ UNCHANGED <<file, fileOpt>>

-----------------------------------------------------------------------------
(* The calls, up to the write *)

Merged == Append(mem.messages, Message(Head(todo)))

Summarised(messages) ==
    LET split == SplitPoint(messages, fileOpt.summarySize)
    IN  IF fileOpt.threshold > 0 /\ Len(messages) >= fileOpt.threshold
        THEN <<Summary(Said(SubSeq(messages, 1, split)))>>
                 \o SubSeq(messages, split + 1, Len(messages))
        ELSE messages

\* The caller saves its next message until Save reports that it is kept.
Save ==
    /\ todo # <<>>
    /\ Changes([mem EXCEPT !.messages = Summarised(Merged)])
    /\ result' = "save"
    /\ UNCHANGED <<fileView, todo, counts>>

\* The LLM fails: the messages appended are taken back.
FileSummaryFails ==
    /\ at = "idle" /\ todo # <<>> /\ result # "notcleared"
    /\ fileOpt.threshold > 0 /\ Len(Merged) >= fileOpt.threshold
    /\ counts.faults < MaxFileFaults
    /\ counts' = [counts EXCEPT !.faults = @ + 1]
    /\ result' = "failed"
    /\ UNCHANGED <<mem, old, file, fileOpt, at, fileView, todo>>

\* Pruning: the covered messages go, the others keep their positions.
Dropped(m, upTo) ==
    [m EXCEPT !.messages = SubSeq(@, upTo + 2 - m.offset, Len(@)), !.offset = upTo + 1]

FileLoadSnapshot(c) ==
    /\ at = "idle"
    /\ fileOpt.threshold = 0
    /\ fileView' = [fileView EXCEPT ![c] =
           [prev |-> mem.snapshot, tail |-> Tail_(mem.messages, mem.offset, mem.snapshot)]]
    /\ fileView' # fileView
    /\ UNCHANGED <<mem, old, file, fileOpt, at, todo, result, counts>>

\* A caller stores its summary of a beginning of what it loaded, whatever the others
\* have done since; the rest it keeps does not start with a tool result.
FileSaveSnapshot(c) ==
    /\ at = "idle" /\ result # "notcleared"
    /\ fileView' = [fileView EXCEPT ![c] = NoFileView]
    /\ UNCHANGED <<todo, counts>>
    /\ \E i \in DOMAIN fileView[c].tail :
        LET upTo == fileView[c].tail[i].cursor
            covered == [mem EXCEPT !.snapshot = [upTo |-> upTo, of |-> SummaryUpTo(fileView[c], i)]]
            cutoff == Cutoff(mem.snapshot, fileView[c].prev, upTo, mem.offset + Len(mem.messages))
        IN  /\ i < Len(fileView[c].tail) => ~fileView[c].tail[i + 1].message.tool
            /\ \/ /\ cutoff = "ok"
                  /\ Changes(IF fileOpt.prune /\ upTo >= mem.offset THEN Dropped(covered, upTo)
                             ELSE covered)
                  /\ result' = "snapshot"
               \/ /\ cutoff # "ok"
                  /\ result' = "refused"
                  /\ UNCHANGED <<mem, old, file, fileOpt, at>>

\* SetMeta; an empty value removes the key.
SetMeta ==
    /\ Changes([mem EXCEPT !.meta = ~@])
    /\ result' = "meta"
    /\ UNCHANGED <<fileView, todo, counts>>

\* What a caller got before a Clear it does not use after it, unless FileOldCursors.
FileClear ==
    /\ FileOldCursors \/ \A c \in FileCallers : fileView[c].tail = <<>>
    /\ counts.clears < MaxFileClears
    /\ counts' = [counts EXCEPT !.clears = @ + 1]
    /\ Changes(Nothing)
    /\ result' = "clear"
    /\ UNCHANGED <<fileView, todo>>

-----------------------------------------------------------------------------
(* The write, and the crash *)

\* The rename takes the new content into place, whole.
PersistOk ==
    /\ at = "persist"
    /\ file' = Encode(mem)
    /\ at' = "idle"
    /\ todo' = IF result = "save" THEN Tail(todo) ELSE todo
    /\ result' = "ok"
    /\ UNCHANGED <<mem, old, fileOpt, fileView, counts>>

\* Every call but Clear goes back to what it found.
RolledBack == IF result = "clear" THEN mem ELSE old

PersistFails ==
    /\ at = "persist"
    /\ counts.faults < MaxFileFaults
    /\ counts' = [counts EXCEPT !.faults = @ + 1]
    /\ mem' = RolledBack
    /\ at' = "idle" /\ result' = IF result = "clear" THEN "notcleared" ELSE "failed"
    /\ UNCHANGED <<old, file, fileOpt, fileView, todo>>

\* The process stops, before the rename or after it; a caller that never heard
\* of its Save saves on from what the file holds, and what was loaded is lost.
Crash ==
    /\ at # "down"
    /\ counts.crashes < MaxCrashes
    /\ counts' = [counts EXCEPT !.crashes = @ + 1]
    /\ at' = "down"
    /\ fileView' = [c \in FileCallers |-> NoFileView]
    /\ \/ UNCHANGED <<file, todo>>
       \/ /\ at = "persist" /\ file' = Encode(mem)
          /\ todo' = IF result = "save" THEN Tail(todo) ELSE todo
    /\ UNCHANGED <<mem, old, fileOpt, result>>

FileRestart ==
    /\ at = "down"
    /\ mem' = Decode(file)
    /\ at' = "idle" /\ result' = "none"
    /\ UNCHANGED <<old, file, fileOpt, fileView, todo, counts>>

FileNext == \/ Save \/ FileSummaryFails \/ SetMeta \/ FileClear
            \/ \E c \in FileCallers : FileLoadSnapshot(c) \/ FileSaveSnapshot(c)
            \/ PersistOk \/ PersistFails \/ Crash \/ FileRestart

FileSpec == FileInit /\ [][FileNext]_fileVars

-----------------------------------------------------------------------------
(* Properties *)

FileIds == 1 .. MaxFileMessages
ContentType ==
    [messages : Seq([of : Seq(FileIds), tool : BOOLEAN]), offset : Nat,
     snapshot : [upTo : Nat, of : Seq(FileIds)] \cup {NoSnapshot}, meta : BOOLEAN]

\* The memory and the file are well formed, and a snapshot covers messages that
\* were saved, the pruned ones all included.
FileTypeOK ==
    /\ mem \in ContentType /\ old \in ContentType /\ file.content \in ContentType
    /\ mem.snapshot # NoSnapshot =>
           /\ mem.snapshot.upTo < mem.offset + Len(mem.messages)
           /\ mem.offset <= mem.snapshot.upTo + 1
    /\ at \in {"idle", "persist", "down"}

FileConversation(content) ==
    LET tail == Tail_(content.messages, content.offset, content.snapshot)
        said == (IF content.snapshot = NoSnapshot THEN <<>> ELSE content.snapshot.of)
                    \o Said([i \in DOMAIN tail |-> tail[i].message])
    IN  SelectSeq(said, LAMBDA id : id \notin ToolResults)

FileLog == INSTANCE ConversationLog
    WITH Messages <- FileIds,
         conversation <- FileConversation(file.content),
         covered <- IF file.content.snapshot = NoSnapshot THEN -1
                    ELSE file.content.snapshot.upTo

\* What the file holds is one conversation, whatever failed or crashed: "a failed
\* Save stores nothing, so the caller can save the same messages again without
\* duplicating them" (Save, memory/jsonfile/memory.go).
FileKeepsConversation == FileLog!Spec

\* Between calls the memory holds what a restart would load: a change that was
\* not written is not there, and one that was is (a Clear that failed is the
\* exception: it is not taken back).
MemoryIsFile ==
    at = "idle" /\ result # "notcleared" => mem = Decode(file)
=============================================================================
