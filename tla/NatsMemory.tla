----------------------------- MODULE NatsMemory -----------------------------
(***************************************************************************)
(* memory/nats: a session kept as one value of a JetStream key-value       *)
(* bucket and shared by several Memory values, in one process or several.  *)
(* Every write is a compare-and-swap on the key's revision: load, change,  *)
(* store, and from the start again when another writer came first.         *)
(*                                                                         *)
(* A Memory's mutex makes its calls one at a time, so a Memory has one     *)
(* call under way; calls of different Memories interleave at the bucket.   *)
(***************************************************************************)
EXTENDS SnapLog, FiniteSets

CONSTANTS Memories,      \* the Memory values bound to the session
          MaxKvMessages,   \* bound on the messages saved, by threshold
          MaxTroubles,   \* bound on the requests that fail and the calls of Clear
          SaveAttempts,  \* saveAttempts
          Pruning,       \* those with WithPruneCompacted(true)
          Thresholds,    \* WithSummarization's threshold, 0 without it
          SummarySize,   \* ... and how many messages it replaces
          OldCursors     \* whether a cursor may be used after a Clear

ASSUME NatsConstants ==
    /\ SaveAttempts \in Nat \ {0}
    /\ Pruning \subseteq Memories
    /\ Thresholds \subseteq Nat /\ OldCursors \in BOOLEAN
    /\ MaxKvMessages \in [Thresholds -> Nat]
    /\ \A n \in Thresholds \ {0} : SummarySize \in 1 .. n \* ClampSummarySize

VARIABLES
    kv,      \* the bucket's entry: last revision, presence, and the session
    saved,   \* how many messages were handed to Save
    kvFaults,  \* how many requests failed
    kvClears,  \* how many times the session was cleared
    kvCall,    \* the call each Memory is in, or its last result
    sess,    \* the session each Memory loaded and changed, with its revision
    cache,   \* the summaryCache of each Save: messages covered, or none
    kvView,    \* what each Memory's caller last got from LoadSnapshot
    threshold \* the Memories' threshold

kvVars == <<kv, saved, kvFaults, kvClears, kvCall, sess, cache, kvView, threshold>>
kvBounds == <<saved, kvFaults, kvClears, threshold>>

Empty == [messages |-> <<>>, offset |-> 0, snapshot |-> NoSnapshot]
NoKvView == [prev |-> NoSnapshot, tail |-> <<>>]
Returned(result) == [op |-> "none", result |-> result]
KvIdle(m) == kvCall[m].op = "none"

KvInit ==
    /\ kv = [rev |-> 0, present |-> FALSE, session |-> Empty]
    /\ saved = 0 /\ kvFaults = 0 /\ kvClears = 0
    /\ threshold \in Thresholds
    /\ kvCall = [m \in Memories |-> Returned("none")]
    /\ sess = [m \in Memories |-> [session |-> Empty, revision |-> 0]]
    /\ cache = [m \in Memories |-> <<>>]
    /\ kvView = [m \in Memories |-> NoKvView]

-----------------------------------------------------------------------------
(* The bucket *)

\* What load gets: an absent key has revision 0, whatever was purged from it.
Loaded == [session |-> kv.session, revision |-> IF kv.present THEN kv.rev ELSE 0]

\* Create succeeds when there is no value, Update when the revision is the last.
Swaps(revision) ==
    IF revision = 0 THEN ~kv.present ELSE kv.present /\ kv.rev = revision

Written(session) == kv' = [rev |-> kv.rev + 1, present |-> TRUE, session |-> session]

-----------------------------------------------------------------------------
(* Save *)

BeginSave(m) ==
    /\ KvIdle(m)
    /\ saved < MaxKvMessages[threshold]
    /\ saved' = saved + 1
    /\ kvCall' = [kvCall EXCEPT ![m] = [op |-> "save", at |-> "load", attempt |-> 1,
                                    since |-> kv.rev, id |-> saved + 1]]
    /\ cache' = [cache EXCEPT ![m] = <<>>]
    /\ UNCHANGED <<kv, kvFaults, kvClears, sess, kvView, threshold>>

\* The part of merged that is summarised: none below the threshold.
SummarisedPart(merged) ==
    IF threshold > 0 /\ Len(merged) >= threshold
    THEN SubSeq(merged, 1, SplitPoint(merged, SummarySize))
    ELSE <<>>

\* Variant: a retry reuses its summary without looking at what it covers.
SummaryOf_Stale(m, part) == IF cache[m] # <<>> THEN cache[m] ELSE part

\* The messages the summary stands for: the cached ones when they are the same.
SummaryOf(m, part) == IF cache[m] = part THEN cache[m] ELSE part

\* load and merge of one attempt; the summary is made by an LLM call.
SaveLoad(m) ==
    LET merged == Append(kv.session.messages, Message(kvCall[m].id))
        part == SummarisedPart(merged)
        rest == SubSeq(merged, Len(part) + 1, Len(merged))
        summary == SummaryOf(m, part)
    IN
    /\ kvCall[m].op = "save" /\ kvCall[m].at = "load"
    /\ sess' = [sess EXCEPT ![m] =
           [Loaded EXCEPT !.session.messages =
               IF part = <<>> THEN merged ELSE <<Summary(Said(summary))>> \o rest]]
    /\ cache' = [cache EXCEPT ![m] = IF part = <<>> THEN @ ELSE summary]
    /\ kvCall' = [kvCall EXCEPT ![m].at = "store"]
    /\ UNCHANGED <<kv, kvBounds, kvView>>

-----------------------------------------------------------------------------
(* LoadSnapshot and SaveSnapshot *)

KvLoadSnapshot(m) ==
    /\ KvIdle(m)
    /\ threshold = 0
    /\ kvView' = [kvView EXCEPT ![m] =
           [prev |-> kv.session.snapshot,
            tail |-> Tail_(kv.session.messages, kv.session.offset, kv.session.snapshot)]]
    /\ kvView' # kvView
    /\ UNCHANGED <<kv, kvBounds, kvCall, sess, cache>>

\* The caller summarises what it loaded, up to some message, and keeps no tool
\* result at the start of the rest.
BeginSnapshot(m) ==
    /\ KvIdle(m)
    /\ \E i \in DOMAIN kvView[m].tail :
        /\ i < Len(kvView[m].tail) => ~kvView[m].tail[i + 1].message.tool
        /\ kvCall' = [kvCall EXCEPT ![m] =
               [op |-> "snapshot", at |-> "load", attempt |-> 1, since |-> kv.rev,
                prev |-> kvView[m].prev,
                snapshot |-> [upTo |-> kvView[m].tail[i].cursor,
                              of |-> SummaryUpTo(kvView[m], i)]]]
    /\ kvView' = [kvView EXCEPT ![m] = NoKvView]
    /\ UNCHANGED <<kv, kvBounds, sess, cache>>

\* The session with the snapshot, its covered messages dropped when pruning.
Covered(m, session, snapshot) ==
    IF m \in Pruning /\ snapshot.upTo >= session.offset
    THEN [messages |-> SubSeq(session.messages, snapshot.upTo + 2 - session.offset,
                              Len(session.messages)),
          offset |-> snapshot.upTo + 1,
          snapshot |-> snapshot]
    ELSE [session EXCEPT !.snapshot = snapshot]

SnapshotLoad(m) ==
    LET session == kv.session
        cut == Cutoff(session.snapshot, kvCall[m].prev, kvCall[m].snapshot.upTo,
                      session.offset + Len(session.messages))
    IN
    /\ kvCall[m].op = "snapshot" /\ kvCall[m].at = "load"
    /\ IF cut = "ok"
       THEN /\ sess' = [sess EXCEPT ![m] =
                   [Loaded EXCEPT !.session = Covered(m, session, kvCall[m].snapshot)]]
            /\ kvCall' = [kvCall EXCEPT ![m].at = "store"]
       ELSE /\ kvCall' = [kvCall EXCEPT ![m] = Returned(cut)]
            /\ UNCHANGED sess
    /\ UNCHANGED <<kv, kvBounds, cache, kvView>>

-----------------------------------------------------------------------------
(* The write, its outcomes, and the calls that fail *)

StoreOk(m) ==
    /\ ~KvIdle(m) /\ kvCall[m].at = "store"
    /\ Swaps(sess[m].revision)
    /\ Written(sess[m].session)
    /\ kvCall' = [kvCall EXCEPT ![m] = Returned("ok")]
    /\ UNCHANGED <<kvBounds, sess, cache, kvView>>

\* The write was applied, its acknowledgement was lost: an error all the same.
StoreUnacknowledged(m) ==
    /\ ~KvIdle(m) /\ kvCall[m].at = "store"
    /\ kvFaults + kvClears < MaxTroubles
    /\ Swaps(sess[m].revision)
    /\ Written(sess[m].session)
    /\ kvFaults' = kvFaults + 1
    /\ kvCall' = [kvCall EXCEPT ![m] = Returned("error")]
    /\ UNCHANGED <<saved, kvClears, sess, cache, kvView, threshold>>

LastAttempt(m) == kvCall[m].attempt >= SaveAttempts

Again(c) == [c EXCEPT !.at = "load", !.attempt = @ + 1]

\* Another writer came first: pause and load again, or give up.
StoreBeaten(m) ==
    /\ ~KvIdle(m) /\ kvCall[m].at = "store"
    /\ ~Swaps(sess[m].revision)
    /\ kvCall' = [kvCall EXCEPT ![m] =
           IF LastAttempt(m) THEN Returned("gaveup")
           ELSE Again(@)]
    /\ UNCHANGED <<kv, kvBounds, sess, cache, kvView>>

\* A Get, a write or the summary fails, the value is too large, or the caller's
\* context ends in the pause: the call returns the error and wrote nothing.
KvCallFails(m) ==
    /\ ~KvIdle(m)
    /\ kvFaults + kvClears < MaxTroubles
    /\ kvFaults' = kvFaults + 1
    /\ kvCall' = [kvCall EXCEPT ![m] = Returned("error")]
    /\ UNCHANGED <<kv, saved, kvClears, sess, cache, kvView, threshold>>

\* What a caller got before a Clear it does not use after it, unless OldCursors.
NoOldCursor ==
    \A m \in Memories : kvView[m] = NoKvView /\ kvCall[m].op # "snapshot"

\* Purge leaves no value; the key's revision still moves on.
KvClear(m) ==
    /\ KvIdle(m)
    /\ OldCursors \/ NoOldCursor
    /\ kvFaults + kvClears < MaxTroubles
    /\ kvClears' = kvClears + 1
    /\ kv' = [rev |-> kv.rev + 1, present |-> FALSE, session |-> Empty]
    /\ UNCHANGED <<saved, kvFaults, kvCall, sess, cache, kvView, threshold>>

Step(m) == SaveLoad(m) \/ SnapshotLoad(m) \/ StoreOk(m) \/ StoreBeaten(m)

KvNext ==
    \E m \in Memories :
        \/ BeginSave(m) \/ KvLoadSnapshot(m) \/ BeginSnapshot(m) \/ KvClear(m)
        \/ Step(m) \/ StoreUnacknowledged(m) \/ KvCallFails(m)

KvSpec == KvInit /\ [][KvNext]_kvVars

-----------------------------------------------------------------------------
(* Properties *)

KvIds == UNION {1 .. MaxKvMessages[n] : n \in Thresholds}
Sessions ==
    [messages : Seq([of : Seq(KvIds), tool : BOOLEAN]), offset : Nat,
     snapshot : [upTo : Nat, of : Seq(KvIds)] \cup {NoSnapshot}]

\* The bucket, the calls and the Memories' copies are well formed, and a Memory
\* never holds a revision the bucket has not given out.
KvTypeOK ==
    /\ kv \in [rev : Nat, present : BOOLEAN, session : Sessions]
    /\ saved \in 0 .. MaxKvMessages[threshold] /\ kvFaults + kvClears \in 0 .. MaxTroubles
    /\ sess \in [Memories -> [session : Sessions, revision : 0 .. kv.rev]]
    /\ cache \in [Memories -> Seq([of : Seq(KvIds), tool : BOOLEAN])]
    /\ \A m \in Memories : ~KvIdle(m) => kvCall[m].attempt \in 1 .. SaveAttempts

\* What a session says to an agent that loads it: the snapshot, then the messages
\* after it.  Tool results are left out: one at the start of the tail is dropped.
KvConversation(session) ==
    LET tail == Tail_(session.messages, session.offset, session.snapshot)
        said == (IF session.snapshot = NoSnapshot THEN <<>> ELSE session.snapshot.of)
                    \o Said([i \in DOMAIN tail |-> tail[i].message])
    IN  SelectSeq(said, LAMBDA id : id \notin ToolResults)

KvLog == INSTANCE ConversationLog
    WITH Messages <- KvIds,
         conversation <- KvConversation(kv.session),
         covered <- IF kv.session.snapshot = NoSnapshot THEN -1
                    ELSE kv.session.snapshot.upTo

\* Whatever the writers do to each other's attempts, the session is one
\* conversation: Save adds its message once and at the end, a snapshot or a
\* summary takes the place of exactly the messages it was made from, pruning
\* loses none of the others, and no snapshot goes back ("the read-modify-write
\* cannot overwrite another writer's messages", memory/nats/memory.go).
KvKeepsConversation == KvLog!Spec

\* A snapshot is stored only over the one its caller started from, "even against
\* another process" (SaveSnapshot, memory/nats/memory.go): the comparison is made
\* on what was loaded, and only the revision says that it still holds.
ReplacesOnlyPrev ==
    [][\A m \in Memories :
          kvCall'[m] # kvCall[m] /\ kvCall[m].op = "snapshot"
              => Same(kv.session.snapshot, kvCall[m].prev)]_kv

\* A call gives up with ErrConcurrentUpdate only when other writers have written
\* saveAttempts times since it began: some writer always gets through.
GivesUpOnlyWhenBeaten ==
    [][\A m \in Memories :
          ~KvIdle(m) /\ kvCall'[m] = Returned("gaveup")
              => kv.rev - kvCall[m].since >= SaveAttempts]_kvVars

\* A snapshot is stored only over the one its caller started from, and a call gives up
\* only when other writers have written as often as it tried (memory/nats).
LosesToOthersOnly == ReplacesOnlyPrev /\ GivesUpOnlyWhenBeaten
=============================================================================
