----------------------------- MODULE PsqlMemory -----------------------------
(***************************************************************************)
(* memory/psql: a session kept in two tables of a database that several    *)
(* processes share, one row per message and at most one snapshot.  Every   *)
(* transaction is READ COMMITTED but LoadSnapshot's: a statement sees what *)
(* was committed before it, a row's writer keeps other writers waiting.    *)
(*                                                                         *)
(* A Save is of one message; a client is one Memory, with one call at a    *)
(* time.                                                                   *)
(***************************************************************************)
EXTENDS SnapLog, FiniteSets

CONSTANTS DbClients,
          DbPruning,      \* those with WithPruneCompacted(true)
          DbThresholds,   \* WithSummarization's threshold, 0 without it
          DbSummarySize,  \* ... and how many messages it replaces
          DbMessages,     \* bound on the messages saved, by threshold
          MaxDbTroubles,  \* bound on the failures and the calls of Clear
          ClearRaces      \* whether what was loaded before a Clear ends may be used
                          \* after it, and Clear may run during a SaveSnapshot

VARIABLES
    rows,      \* the committed messages: [seq, message]
    lastSeq,   \* the bigserial: not taken back by a rollback
    snapshot_, \* the committed row of the snapshot table
    advisory,  \* the client that holds the session's advisory lock
    rowLock,   \* the client that holds the snapshot's row
    db,        \* the call each client is in
    seen,      \* what each client last got from LoadSnapshot
    dbThreshold,
    handed,    \* how many messages were handed to Save
    troubles,
    committed  \* the messages in the order their Save committed, since Clear: history

dbVars == <<rows, lastSeq, snapshot_, advisory, rowLock, db, seen, dbThreshold, handed, troubles, committed>>

Free == "free"
Resting == [op |-> "none", at |-> "none"]
NothingSeen == [prev |-> NoSnapshot, tail |-> <<>>]

DbInit ==
    /\ rows = {} /\ lastSeq = 0 /\ snapshot_ = NoSnapshot
    /\ advisory = Free /\ rowLock = Free
    /\ db = [c \in DbClients |-> Resting]
    /\ seen = [c \in DbClients |-> NothingSeen]
    /\ dbThreshold \in DbThresholds
    /\ handed = 0 /\ troubles = 0 /\ committed = <<>>

At(c, op, at) == db[c].op = op /\ db[c].at = at
Became(c, call) == db' = [db EXCEPT ![c] = call]

\* The rows in the order of their seq.
Sorted(set) == SetToSortSeq(set, LAMBDA r, s : r.seq < s.seq)
MessagesOf(set) == [i \in DOMAIN Sorted(set) |-> Sorted(set)[i].message]

-----------------------------------------------------------------------------
(* Save *)

\* A memory that summarises is used in turns: see the README.
DbBeginSave(c) ==
    /\ db[c] = Resting
    /\ dbThreshold > 0 => \A other \in DbClients : db[other] = Resting
    /\ handed < DbMessages[dbThreshold]
    /\ handed' = handed + 1
    /\ Became(c, [op |-> "save", at |-> "lock", id |-> handed + 1])
    /\ UNCHANGED <<rows, lastSeq, snapshot_, advisory, rowLock, seen, dbThreshold, troubles, committed>>

\* Variant: the lock is not taken.
LockIsFree_Always == TRUE

\* pg_advisory_xact_lock waits until no other transaction holds it.
LockIsFree == advisory = Free

LockSession(c) ==
    /\ At(c, "save", "lock") /\ LockIsFree
    /\ advisory' = c
    /\ Became(c, [db[c] EXCEPT !.at = "insert"])
    /\ UNCHANGED <<rows, lastSeq, snapshot_, rowLock, seen, dbThreshold, handed, troubles, committed>>

\* The row takes its seq when it is inserted, and is seen when it is committed.
InsertRow(c) ==
    /\ At(c, "save", "insert")
    /\ lastSeq' = lastSeq + 1
    /\ Became(c, [op |-> "save", at |-> "commit",
                  row |-> [seq |-> lastSeq + 1, message |-> Message(db[c].id)]])
    /\ UNCHANGED <<rows, snapshot_, advisory, rowLock, seen, dbThreshold, handed, troubles, committed>>

CommitSave(c) ==
    /\ At(c, "save", "commit")
    /\ rows' = rows \cup {db[c].row}
    /\ committed' = committed \o db[c].row.message.of
    /\ advisory' = IF advisory = c THEN Free ELSE advisory
    /\ Became(c, IF dbThreshold > 0 THEN [op |-> "summary", at |-> "read"] ELSE Resting)
    /\ UNCHANGED <<lastSeq, snapshot_, rowLock, seen, dbThreshold, handed, troubles>>

\* maybeSummarize, after the commit: the count, then the rows.
SummaryRead(c) ==
    /\ At(c, "summary", "read")
    /\ Became(c, IF Cardinality(rows) < dbThreshold THEN Resting
                 ELSE [op |-> "summary", at |-> "store", messages |-> MessagesOf(rows)])
    /\ UNCHANGED <<rows, lastSeq, snapshot_, advisory, rowLock, seen, dbThreshold, handed, troubles, committed>>

\* All the session's rows go, and the summary and the rest take new ones.
SummaryStore(c) ==
    /\ At(c, "summary", "store")
    /\ LET messages == db[c].messages
           split == SplitPoint(messages, DbSummarySize)
           stored == <<Summary(Said(SubSeq(messages, 1, split)))>> \o SubSeq(messages, split + 1, Len(messages))
       IN  /\ rows' = {[seq |-> lastSeq + i, message |-> stored[i]] : i \in DOMAIN stored}
           /\ lastSeq' = lastSeq + Len(stored)
    /\ Became(c, Resting)
    /\ UNCHANGED <<snapshot_, advisory, rowLock, seen, dbThreshold, handed, troubles, committed>>

-----------------------------------------------------------------------------
(* LoadSnapshot and SaveSnapshot *)

Covered_(snapshot) == IF snapshot = NoSnapshot THEN 0 ELSE snapshot.upTo

\* The rows after the snapshot, without the tool results at their start.
RowsAfter ==
    LET after == Sorted({r \in rows : r.seq > Covered_(snapshot_)})
        calls == {i \in DOMAIN after : ~after[i].message.tool}
    IN  IF calls = {} THEN <<>>
        ELSE SubSeq(after, CHOOSE i \in calls : \A j \in calls : i <= j, Len(after))

\* One repeatable-read transaction.
DbLoadSnapshot(c) ==
    /\ dbThreshold = 0 /\ db[c] = Resting
    /\ seen' = [seen EXCEPT ![c] = [prev |-> snapshot_, tail |-> RowsAfter]]
    /\ seen' # seen
    /\ UNCHANGED <<rows, lastSeq, snapshot_, advisory, rowLock, db, dbThreshold, handed, troubles, committed>>

Clearing == \E c \in DbClients : db[c].op = "clear"
Covering == \E c \in DbClients : db[c].op = "snapshot"

\* The caller summarises a beginning of what it loaded; upTo has to be there still.
SnapshotBegins(c) ==
    /\ db[c] = Resting /\ (ClearRaces \/ ~Clearing)
    /\ \E i \in DOMAIN seen[c].tail :
           LET tail == seen[c].tail
               said == (IF seen[c].prev = NoSnapshot THEN <<>> ELSE seen[c].prev.of)
                           \o Said([j \in 1 .. i |-> tail[j].message])
           IN  /\ i < Len(tail) => ~tail[i + 1].message.tool
               /\ tail[i].seq > Covered_(seen[c].prev)
               /\ Became(c, IF \E r \in rows : r.seq = tail[i].seq
                            THEN [op |-> "snapshot", at |-> "write", prev |-> seen[c].prev,
                                  new |-> [upTo |-> tail[i].seq, of |-> said]]
                            ELSE Resting)
    /\ seen' = [seen EXCEPT ![c] = NothingSeen]
    /\ UNCHANGED <<rows, lastSeq, snapshot_, advisory, rowLock, dbThreshold, handed, troubles, committed>>

\* ON CONFLICT DO NOTHING, or WHERE upto_seq = $4: one row is affected.
StillPrev(prev) == Same(snapshot_, prev)

\* It waits for another writer of the row, and then looks at what that one left.
SnapshotWrites(c) ==
    /\ At(c, "snapshot", "write") /\ rowLock = Free
    /\ IF StillPrev(db[c].prev)
       THEN rowLock' = c /\ Became(c, [db[c] EXCEPT !.at = "commit"])
       ELSE Became(c, Resting) /\ UNCHANGED rowLock
    /\ UNCHANGED <<rows, lastSeq, snapshot_, advisory, seen, dbThreshold, handed, troubles, committed>>

\* The covered rows go in the same transaction.
SnapshotCommits(c) ==
    /\ At(c, "snapshot", "commit")
    /\ snapshot_' = db[c].new
    /\ rows' = IF c \in DbPruning THEN {r \in rows : r.seq > db[c].new.upTo} ELSE rows
    /\ rowLock' = Free
    /\ Became(c, Resting)
    /\ UNCHANGED <<lastSeq, advisory, seen, dbThreshold, handed, troubles, committed>>

-----------------------------------------------------------------------------
(* Clear, and failures *)

\* The first DELETE takes the rows committed so far, not those of a Save under way.
ClearDeletes(c) ==
    /\ db[c] = Resting /\ troubles < MaxDbTroubles
    /\ ClearRaces \/ ~Covering
    /\ dbThreshold > 0 => \A other \in DbClients : db[other] = Resting
    /\ troubles' = troubles + 1
    /\ Became(c, [op |-> "clear", at |-> "commit", gone |-> rows])
    /\ UNCHANGED <<rows, lastSeq, snapshot_, advisory, rowLock, seen, dbThreshold, handed, committed>>

\* The second takes the snapshot's row, when no writer holds it.
ClearCommits(c) ==
    /\ At(c, "clear", "commit") /\ rowLock = Free
    /\ rows' = rows \ db[c].gone
    /\ snapshot_' = NoSnapshot
    /\ committed' = LET left == Said(MessagesOf(rows \ db[c].gone))
                    IN  SelectSeq(committed, LAMBDA id : id \in ToSet(left))
    /\ Became(c, Resting)
    /\ seen' = IF ClearRaces THEN seen ELSE [other \in DbClients |-> NothingSeen]
    /\ UNCHANGED <<lastSeq, advisory, rowLock, dbThreshold, handed, troubles>>

\* A statement, the commit or the summary's LLM call fails: the transaction is
\* rolled back, its locks with it.  A Save whose summary fails has stored its rows.
DbFails(c) ==
    /\ db[c] # Resting /\ troubles < MaxDbTroubles
    /\ troubles' = troubles + 1
    /\ advisory' = IF advisory = c THEN Free ELSE advisory
    /\ rowLock' = IF rowLock = c THEN Free ELSE rowLock
    /\ Became(c, Resting)
    /\ UNCHANGED <<rows, lastSeq, snapshot_, seen, dbThreshold, handed, committed>>

DbNext ==
    \E c \in DbClients :
        \/ DbBeginSave(c) \/ LockSession(c) \/ InsertRow(c) \/ CommitSave(c)
        \/ SummaryRead(c) \/ SummaryStore(c)
        \/ DbLoadSnapshot(c) \/ SnapshotBegins(c) \/ SnapshotWrites(c) \/ SnapshotCommits(c)
        \/ ClearDeletes(c) \/ ClearCommits(c) \/ DbFails(c)

-----------------------------------------------------------------------------
(* Properties *)

Spoken(ids) == SelectSeq(ids, LAMBDA id : id \notin ToolResults)

\* "A session's rows commit in seq order and a snapshot up to a seq never hides a row
\* committed after it" (lockSessionSQL, memory/psql/queries.go): whatever the
\* processes do to each other, an agent that loads the session gets all that was
\* saved, in the order in which it was, each message once, the summarised ones in the
\* summary made from them.  Tool results are left out, as one at the start is dropped.
ReadsAsSaved ==
    LET summarised == IF snapshot_ = NoSnapshot THEN <<>> ELSE snapshot_.of
        after == Sorted({r \in rows : r.seq > Covered_(snapshot_)})
    IN  Spoken(summarised \o Said([i \in DOMAIN after |-> after[i].message])) = Spoken(committed)
=============================================================================
