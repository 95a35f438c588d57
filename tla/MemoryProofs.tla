---------------------------- MODULE MemoryProofs ----------------------------
(***************************************************************************)
(* Proofs about the stores of conversations: that the cursors and the tail *)
(* of a ring buffer are right for any size and any callers (memory/simple),*)
(* that the file is what the memory holds whatever write fails or process  *)
(* stops (memory/jsonfile), and that writers of one session lose only to   *)
(* others, for any number of them (memory/nats).                           *)
(***************************************************************************)
EXTENDS SimpleMemory, JsonfileMemory, NatsMemory, SequenceTheorems, WellFoundedInduction, TLAPS

-----------------------------------------------------------------------------
(* Where a conversation may be split (memory.SplitPoint) *)

LEMMA LeastOf ==
    ASSUME NEW S \in SUBSET Nat, S # {}
    PROVE  \E x \in S : \A y \in S : x <= y
<1> DEFINE Less == {p \in Nat \X Nat : p[1] < p[2]}
<1>1. IsWellFoundedOn(Less, Nat) BY NatLessThanWellFounded DEF OpToRel
<1>2. \A x, y \in Nat : x < y => <<x, y>> \in Less OBVIOUS
<1> HIDE DEF Less
<1>3. PICK x \in S : \A y \in S : ~(<<y, x>> \in Less) BY <1>1, WFMin, Zenon
<1>4. ASSUME NEW y \in S PROVE x <= y
  <2>1. <<y, x>> \notin Less BY <1>3
  <2>2. x \in Nat /\ y \in Nat OBVIOUS
  <2>3. ~(y < x) BY <1>2, <2>1, <2>2
  <2> QED BY <2>2, <2>3
<1> QED BY <1>4

\* The least split at n or after it before which there are tool results only.
LEMMA SplitPointIs ==
    ASSUME NEW S, NEW messages \in Seq(S), NEW n \in Int
    PROVE  /\ SplitPoint(messages, n) \in 0 .. Len(messages)
           /\ n <= Len(messages) => n <= SplitPoint(messages, n)
           /\ \A j \in 1 .. SplitPoint(messages, n) : j > n => messages[j].tool
           /\ SplitPoint(messages, n) < Len(messages) =>
                  ~messages[SplitPoint(messages, n) + 1].tool
<1> DEFINE from == IF n < 0 THEN 0 ELSE IF n > Len(messages) THEN Len(messages) ELSE n
           calls == {i \in from + 1 .. Len(messages) : ~messages[i].tool}
<1>1. Len(messages) \in Nat /\ from \in 0 .. Len(messages) OBVIOUS
<1>2. SplitPoint(messages, n) = IF calls = {} THEN Len(messages)
                                ELSE (CHOOSE i \in calls : \A j \in calls : i <= j) - 1
  BY DEF SplitPoint
<1>3. CASE calls = {} BY <1>1, <1>2, <1>3
<1>4. CASE calls # {}
  <2>1. calls \in SUBSET Nat BY <1>1
  <2> DEFINE least == CHOOSE i \in calls : \A j \in calls : i <= j
  <2>2. least \in calls /\ \A j \in calls : least <= j
    <3>1. \E i \in calls : \A j \in calls : i <= j BY <1>4, <2>1, LeastOf
    <3> HIDE DEF calls
    <3> QED BY <3>1
  <2>3. SplitPoint(messages, n) = least - 1 BY <1>2, <1>4
  <2> HIDE DEF least
  <2> QED BY <1>1, <2>2, <2>3
<1> QED BY <1>3, <1>4

-----------------------------------------------------------------------------
(* memory/nats *)

KvInv ==
    /\ kv.rev \in Nat /\ kv.present \in BOOLEAN
    /\ DOMAIN kv = {"rev", "present", "session"}
    /\ kv.present => kv.rev > 0
    /\ ~kv.present => kv.session = Empty

\* The revision an attempt loaded tells whether it was beaten, and what it compared with
\* the caller's snapshot holds as long as it was not.
KvStoring(m) ==
    /\ sess[m].revision \in 0 .. kv.rev
    /\ Swaps(sess[m].revision) \/ kv.rev - kvCall[m].since >= kvCall[m].attempt
    /\ kvCall[m].op = "snapshot" =>
           /\ Swaps(sess[m].revision) => Same(kv.session.snapshot, kvCall[m].prev)
           /\ sess[m].revision = 0 => Same(NoSnapshot, kvCall[m].prev)

\* Each attempt after the first was beaten by a write of its own.
KvCalling(m) ==
    /\ {"op", "at", "attempt", "since"} \subseteq DOMAIN kvCall[m]
    /\ kvCall[m].op \in {"save", "snapshot"} /\ kvCall[m].at \in {"load", "store"}
    /\ kvCall[m].attempt \in Nat /\ kvCall[m].since \in Nat
    /\ kv.rev - kvCall[m].since >= kvCall[m].attempt - 1
    /\ kvCall[m].at = "store" => KvStoring(m)

WritersInv ==
    /\ KvInv
    /\ DOMAIN kvCall = Memories /\ DOMAIN sess = Memories
    /\ \A m \in Memories : KvIdle(m) \/ KvCalling(m)

LEMMA WritersInit == ASSUME KvInit PROVE WritersInv
<1>1. KvInv BY DEF KvInit, KvInv, Empty
<1>2. DOMAIN kvCall = Memories /\ DOMAIN sess = Memories BY DEF KvInit
<1>3. \A m \in Memories : KvIdle(m) BY DEF KvInit, KvIdle, Returned
<1> QED BY <1>1, <1>2, <1>3 DEF WritersInv

\* A write takes the next revision, so every attempt that loaded an older one is beaten.
LEMMA WrittenBeatsOthers ==
    ASSUME WritersInv, NEW session, NEW present \in BOOLEAN,
           kv' = [rev |-> kv.rev + 1, present |-> present, session |-> session],
           ~present => session = Empty,
           NEW m \in Memories, kvCall'[m] = kvCall[m], sess'[m] = sess[m], ~KvIdle(m)
    PROVE  KvCalling(m)'
<1> USE DEF WritersInv, KvInv, KvCalling
<1>1. KvCalling(m) OBVIOUS
<1>2. kv'.rev = kv.rev + 1 /\ kv'.present = present /\ kv'.session = session OBVIOUS
<1>3. ASSUME kvCall[m].at = "store" PROVE KvStoring(m)'
  <2>1. KvStoring(m) BY <1>1, <1>3
  <2>2. sess[m].revision \in 0 .. kv.rev BY <2>1 DEF KvStoring
  <2>3. sess'[m].revision \in 0 .. kv'.rev BY <1>2, <2>2
  <2>4. kv'.rev - kvCall'[m].since >= kvCall'[m].attempt BY <1>1, <1>2
  <2>5. ASSUME kvCall'[m].op = "snapshot", Swaps(sess[m].revision)'
        PROVE  Same(kv'.session.snapshot, kvCall'[m].prev)
    <3>1. sess[m].revision = 0 /\ ~present BY <1>2, <2>2, <2>5 DEF Swaps
    <3>2. kv'.session.snapshot = NoSnapshot BY <1>2, <3>1 DEF Empty
    <3>3. Same(NoSnapshot, kvCall[m].prev) BY <2>1, <2>5, <3>1 DEF KvStoring
    <3> QED BY <3>2, <3>3
  <2>6. kvCall'[m].op = "snapshot" /\ sess'[m].revision = 0 => Same(NoSnapshot, kvCall'[m].prev)
    BY <2>1 DEF KvStoring
  <2> QED BY <2>3, <2>4, <2>5, <2>6 DEF KvStoring
<1> QED BY <1>1, <1>2, <1>3

\* A step of one Memory that leaves the bucket alone does not concern the others.
LEMMA KvFrame ==
    ASSUME WritersInv, kv' = kv, NEW m \in Memories, kvCall'[m] = kvCall[m], sess'[m] = sess[m]
    PROVE  (KvIdle(m) \/ KvCalling(m))'
<1>1. KvIdle(m) \/ KvCalling(m) BY DEF WritersInv
<1>2. KvIdle(m)' <=> KvIdle(m) BY DEF KvIdle
<1>3. KvStoring(m)' <=> KvStoring(m) BY DEF KvStoring, Swaps
<1>4. KvCalling(m)' <=> KvCalling(m) BY <1>3 DEF KvCalling
<1> QED BY <1>1, <1>2, <1>4

\* What m has loaded is not beaten yet.
LEMMA LoadedIsCurrent ==
    ASSUME KvInv
    PROVE  /\ Loaded.revision \in 0 .. kv.rev /\ Swaps(Loaded.revision)
           /\ Loaded.revision = 0 => kv.session = Empty
BY DEF KvInv, Loaded, Swaps

LEMMA OneCallSteps ==
    ASSUME WritersInv, kv' = kv, NEW m \in Memories,
           DOMAIN kvCall' = Memories, DOMAIN sess' = Memories,
           \A n \in Memories : n # m => kvCall'[n] = kvCall[n] /\ sess'[n] = sess[n],
           (KvIdle(m) \/ KvCalling(m))'
    PROVE  WritersInv'
<1>1. KvInv' BY DEF WritersInv, KvInv
<1>2. ASSUME NEW n \in Memories, n # m PROVE (KvIdle(n) \/ KvCalling(n))' BY <1>2, KvFrame
<1> QED BY <1>1, <1>2 DEF WritersInv

LEMMA OneCallWrites ==
    ASSUME WritersInv, NEW session, NEW present \in BOOLEAN,
           kv' = [rev |-> kv.rev + 1, present |-> present, session |-> session],
           ~present => session = Empty,
           sess' = sess, DOMAIN kvCall' = Memories,
           \A n \in Memories : kvCall'[n] = kvCall[n] \/ KvIdle(n)'
    PROVE  WritersInv'
<1>1. KvInv' BY DEF WritersInv, KvInv
<1>2. ASSUME NEW n \in Memories, ~KvIdle(n)' PROVE KvCalling(n)'
  <2>1. kvCall'[n] = kvCall[n] BY <1>2
  <2>2. ~KvIdle(n) BY <1>2, <2>1 DEF KvIdle
  <2> QED BY <2>1, <2>2, WrittenBeatsOthers
<1>3. DOMAIN sess' = Memories BY DEF WritersInv
<1> QED BY <1>1, <1>2, <1>3 DEF WritersInv

\* A call that returns, or begins, without a write.
LEMMA CallStarts ==
    ASSUME WritersInv, NEW m \in Memories, NEW c, kvCall' = [kvCall EXCEPT ![m] = c],
           kv' = kv, sess' = sess,
           \/ c.op = "none"
           \/ /\ {"op", "at", "attempt", "since"} \subseteq DOMAIN c
              /\ c.op \in {"save", "snapshot"} /\ c.at = "load" /\ c.attempt \in Nat
              /\ c.since \in Nat /\ kv.rev - c.since >= c.attempt - 1
    PROVE  WritersInv'
<1>1. kvCall'[m] = c /\ DOMAIN kvCall' = Memories /\ DOMAIN sess' = Memories BY DEF WritersInv
<1>2. \A n \in Memories : n # m => kvCall'[n] = kvCall[n] /\ sess'[n] = sess[n] OBVIOUS
<1>3. (KvIdle(m) \/ KvCalling(m))' BY <1>1 DEF KvIdle, KvCalling
<1> QED BY <1>1, <1>2, <1>3, OneCallSteps

\* A call that loaded the session goes on to store what it made of it.
LEMMA CallLoads ==
    ASSUME WritersInv, NEW m \in Memories, ~KvIdle(m), kv' = kv, NEW new,
           kvCall' = [kvCall EXCEPT ![m].at = "store"],
           sess' = [sess EXCEPT ![m] = new], new.revision = Loaded.revision,
           kvCall[m].op = "snapshot" => Same(kv.session.snapshot, kvCall[m].prev)
    PROVE  WritersInv'
<1>1. KvInv /\ KvCalling(m) BY DEF WritersInv
<1>2. /\ kvCall'[m] = [kvCall[m] EXCEPT !.at = "store"] /\ DOMAIN kvCall' = Memories
      /\ sess'[m] = new /\ DOMAIN sess' = Memories
  BY DEF WritersInv
<1>3. \A n \in Memories : n # m => kvCall'[n] = kvCall[n] /\ sess'[n] = sess[n] OBVIOUS
<1>4. /\ DOMAIN kvCall'[m] = DOMAIN kvCall[m] /\ kvCall'[m].at = "store"
      /\ kvCall'[m].op = kvCall[m].op /\ kvCall'[m].since = kvCall[m].since
      /\ kvCall'[m].attempt = kvCall[m].attempt
      /\ kvCall'[m].prev = kvCall[m].prev
  BY <1>1, <1>2 DEF KvCalling
<1>5. KvStoring(m)'
  <2>1. sess'[m].revision = Loaded.revision BY <1>2
  <2>2. Loaded.revision \in 0 .. kv.rev /\ Swaps(Loaded.revision) BY <1>1, LoadedIsCurrent
  <2>3. Swaps(sess[m].revision)' BY <2>1, <2>2 DEF Swaps
  <2>4. ASSUME kvCall'[m].op = "snapshot", sess'[m].revision = 0
        PROVE  Same(NoSnapshot, kvCall'[m].prev)
    <3>1. kv.session = Empty BY <1>1, <2>1, <2>4, LoadedIsCurrent
    <3>2. kv.session.snapshot = NoSnapshot BY <3>1 DEF Empty
    <3> QED BY <1>4, <2>4, <3>2
  <2>5. kvCall'[m].op = "snapshot" => Same(kv'.session.snapshot, kvCall'[m].prev) BY <1>4
  <2> QED BY <2>1, <2>2, <2>3, <2>4, <2>5 DEF KvStoring, Swaps
<1>6. KvCalling(m)' BY <1>1, <1>4, <1>5 DEF KvCalling
<1> QED BY <1>2, <1>3, <1>6, OneCallSteps

LEMMA WritersStep == ASSUME WritersInv, [KvNext]_kvVars PROVE WritersInv'
<1>1. CASE UNCHANGED kvVars
  BY <1>1 DEF kvVars, WritersInv, KvInv, KvIdle, KvCalling, KvStoring, Swaps
<1>2. ASSUME NEW m \in Memories, BeginSave(m) PROVE WritersInv'
  <2>1. kv.rev \in Nat BY DEF WritersInv, KvInv
  <2> DEFINE c == [op |-> "save", at |-> "load", attempt |-> 1, since |-> kv.rev, id |-> saved + 1]
  <2>2. kvCall' = [kvCall EXCEPT ![m] = c] /\ kv' = kv /\ sess' = sess BY <1>2 DEF BeginSave
  <2>3. /\ {"op", "at", "attempt", "since"} \subseteq DOMAIN c /\ c.op = "save" /\ c.at = "load"
        /\ c.attempt \in Nat /\ c.since \in Nat /\ kv.rev - c.since >= c.attempt - 1
    BY <2>1
  <2> HIDE DEF c
  <2> QED BY <2>1, <2>2, <2>3, CallStarts
<1>3. ASSUME NEW m \in Memories, KvLoadSnapshot(m) PROVE WritersInv'
  BY <1>3 DEF KvLoadSnapshot, WritersInv, KvInv, KvIdle, KvCalling, KvStoring, Swaps
<1>4. ASSUME NEW m \in Memories, BeginSnapshot(m) PROVE WritersInv'
  <2>1. kv.rev \in Nat BY DEF WritersInv, KvInv
  <2>2. PICK i \in DOMAIN kvView[m].tail :
            kvCall' = [kvCall EXCEPT ![m] =
                [op |-> "snapshot", at |-> "load", attempt |-> 1, since |-> kv.rev,
                 prev |-> kvView[m].prev,
                 snapshot |-> [upTo |-> kvView[m].tail[i].cursor,
                               of |-> SummaryUpTo(kvView[m], i)]]]
    BY <1>4 DEF BeginSnapshot
  <2> DEFINE c == [op |-> "snapshot", at |-> "load", attempt |-> 1, since |-> kv.rev,
                   prev |-> kvView[m].prev,
                   snapshot |-> [upTo |-> kvView[m].tail[i].cursor,
                                 of |-> SummaryUpTo(kvView[m], i)]]
  <2>3. kvCall' = [kvCall EXCEPT ![m] = c] /\ kv' = kv /\ sess' = sess
    BY <1>4, <2>2 DEF BeginSnapshot, kvBounds
  <2>4. /\ {"op", "at", "attempt", "since"} \subseteq DOMAIN c /\ c.op = "snapshot"
        /\ c.at = "load"
        /\ c.attempt \in Nat /\ c.since \in Nat /\ kv.rev - c.since >= c.attempt - 1
    BY <2>1
  <2> HIDE DEF c
  <2> QED BY <2>1, <2>3, <2>4, CallStarts
<1>5. ASSUME NEW m \in Memories, KvClear(m) PROVE WritersInv'
  <2>1. /\ kv' = [rev |-> kv.rev + 1, present |-> FALSE, session |-> Empty]
        /\ kvCall' = kvCall /\ sess' = sess
    BY <1>5 DEF KvClear
  <2>2. DOMAIN kvCall' = Memories BY <2>1 DEF WritersInv
  <2> QED BY <2>1, <2>2, OneCallWrites
<1>6. ASSUME NEW m \in Memories, SaveLoad(m) PROVE WritersInv'
  <2>1. PICK messages : sess' = [sess EXCEPT ![m] = [Loaded EXCEPT !.session.messages = messages]]
    BY <1>6 DEF SaveLoad
  <2> DEFINE new == [Loaded EXCEPT !.session.messages = messages]
  <2>2. new.revision = Loaded.revision BY DEF Loaded
  <2>3. /\ ~KvIdle(m) /\ kv' = kv /\ kvCall[m].op # "snapshot"
        /\ kvCall' = [kvCall EXCEPT ![m].at = "store"]
    BY <1>6 DEF SaveLoad, KvIdle
  <2>4. sess' = [sess EXCEPT ![m] = new] BY <2>1
  <2> HIDE DEF new
  <2> QED BY <2>2, <2>3, <2>4, CallLoads
<1>7. ASSUME NEW m \in Memories, SnapshotLoad(m) PROVE WritersInv'
  <2> DEFINE cut == Cutoff(kv.session.snapshot, kvCall[m].prev, kvCall[m].snapshot.upTo,
                           kv.session.offset + Len(kv.session.messages))
  <2>1. ~KvIdle(m) /\ kv' = kv BY <1>7 DEF SnapshotLoad, KvIdle
  <2>2. CASE cut = "ok"
    <3> DEFINE new == [Loaded EXCEPT !.session = Covered(m, kv.session, kvCall[m].snapshot)]
    <3>1. sess' = [sess EXCEPT ![m] = new] /\ kvCall' = [kvCall EXCEPT ![m].at = "store"]
      BY <1>7, <2>2 DEF SnapshotLoad
    <3>2. new.revision = Loaded.revision BY DEF Loaded
    <3>3. Same(kv.session.snapshot, kvCall[m].prev) BY <2>2 DEF Cutoff
    <3> HIDE DEF new
    <3> QED BY <2>1, <3>1, <3>2, <3>3, CallLoads
  <2>3. CASE cut # "ok"
    <3> DEFINE c == Returned(cut)
    <3>1. kvCall' = [kvCall EXCEPT ![m] = c] /\ sess' = sess BY <1>7, <2>3 DEF SnapshotLoad
    <3>2. c.op = "none" BY DEF Returned
    <3> HIDE DEF c, cut
    <3> QED BY <2>1, <3>1, <3>2, CallStarts
  <2> QED BY <2>2, <2>3
<1>8. ASSUME NEW m \in Memories, StoreOk(m) \/ StoreUnacknowledged(m) PROVE WritersInv'
  <2>1. PICK r \in {"ok", "error"} : kvCall' = [kvCall EXCEPT ![m] = Returned(r)]
    BY <1>8 DEF StoreOk, StoreUnacknowledged
  <2>2. sess' = sess /\ Written(sess[m].session) BY <1>8 DEF StoreOk, StoreUnacknowledged
  <2>3. DOMAIN kvCall' = Memories BY <2>1 DEF WritersInv
  <2>4. ASSUME NEW n \in Memories PROVE kvCall'[n] = kvCall[n] \/ KvIdle(n)'
    <3>1. CASE n = m BY <2>1, <3>1 DEF WritersInv, KvIdle, Returned
    <3>2. CASE n # m BY <2>1, <3>2
    <3> QED BY <3>1, <3>2
  <2>5. kv' = [rev |-> kv.rev + 1, present |-> TRUE, session |-> sess[m].session]
    BY <2>2 DEF Written
  <2> QED BY <2>2, <2>3, <2>4, <2>5, OneCallWrites
<1>9. ASSUME NEW m \in Memories, StoreBeaten(m) PROVE WritersInv'
  <2>1. kv' = kv /\ sess' = sess /\ ~KvIdle(m) /\ kvCall[m].at = "store"
    BY <1>9 DEF StoreBeaten
  <2>2. KvCalling(m) /\ KvStoring(m) BY <2>1 DEF WritersInv, KvCalling
  <2>3. kv.rev - kvCall[m].since >= kvCall[m].attempt BY <1>9, <2>2 DEF StoreBeaten, KvStoring
  <2>4. CASE LastAttempt(m)
    <3> DEFINE c == Returned("gaveup")
    <3>1. kvCall' = [kvCall EXCEPT ![m] = c] BY <1>9, <2>4 DEF StoreBeaten
    <3>2. c.op = "none" BY DEF Returned
    <3> HIDE DEF c
    <3> QED BY <2>1, <3>1, <3>2, CallStarts
  <2>5. CASE ~LastAttempt(m)
    <3> DEFINE c == Again(kvCall[m])
    <3>1. kvCall' = [kvCall EXCEPT ![m] = c] BY <1>9, <2>5 DEF StoreBeaten
    <3>2. /\ {"op", "at", "attempt", "since"} \subseteq DOMAIN c
          /\ c.op \in {"save", "snapshot"} /\ c.at = "load"
          /\ c.attempt = kvCall[m].attempt + 1 /\ c.since = kvCall[m].since
      BY <2>2 DEF Again, KvCalling
    <3>3. /\ c.attempt \in Nat /\ c.since \in Nat /\ kv.rev - c.since >= c.attempt - 1
      BY <2>2, <2>3, <3>2 DEF KvCalling, WritersInv, KvInv
    <3> HIDE DEF c
    <3> QED BY <2>1, <3>1, <3>2, <3>3, CallStarts
  <2> QED BY <2>4, <2>5
<1>10. ASSUME NEW m \in Memories, KvCallFails(m) PROVE WritersInv'
  <2> DEFINE c == Returned("error")
  <2>1. kvCall' = [kvCall EXCEPT ![m] = c] /\ kv' = kv /\ sess' = sess BY <1>10 DEF KvCallFails
  <2>2. c.op = "none" BY DEF Returned
  <2> HIDE DEF c
  <2> QED BY <2>1, <2>2, CallStarts
<1> QED
  BY <1>1, <1>2, <1>3, <1>4, <1>5, <1>6, <1>7, <1>8, <1>9, <1>10 DEF KvNext, Step

\* A snapshot that is stored was compared with the one it replaces, and a call that gives
\* up was beaten by other writers in each of its attempts, whatever the others do
\* (Memory.Save, Memory.SaveSnapshot, memory/nats).
THEOREM WritersLoseToOthersOnly == KvSpec => LosesToOthersOnly
<1> DEFINE Replaces ==
        \A m \in Memories : kvCall'[m] # kvCall[m] /\ kvCall[m].op = "snapshot"
            => Same(kv.session.snapshot, kvCall[m].prev)
    GivesUp ==
        \A m \in Memories : ~KvIdle(m) /\ kvCall'[m] = Returned("gaveup")
            => kv.rev - kvCall[m].since >= SaveAttempts
<1>1. ASSUME WritersInv, [KvNext]_kvVars, kv' # kv PROVE Replaces
  <2>1. KvNext BY <1>1 DEF kvVars
  <2>2. SUFFICES ASSUME NEW m \in Memories, kvCall'[m] # kvCall[m], kvCall[m].op = "snapshot"
                 PROVE  Same(kv.session.snapshot, kvCall[m].prev)
    OBVIOUS
  <2>3. ASSUME NEW n \in Memories, StoreOk(n) \/ StoreUnacknowledged(n)
        PROVE  n = m /\ kvCall[m].at = "store" /\ Swaps(sess[m].revision)
    <3>1. \E r : kvCall' = [kvCall EXCEPT ![n] = r] BY <2>3 DEF StoreOk, StoreUnacknowledged
    <3>2. n = m BY <2>2, <3>1
    <3> QED BY <2>3, <3>2 DEF StoreOk, StoreUnacknowledged
  <2>4. ASSUME NEW n \in Memories, KvClear(n) PROVE FALSE BY <2>2, <2>4 DEF KvClear
  <2>5. kvCall[m].at = "store" /\ Swaps(sess[m].revision)
    BY <1>1, <2>1, <2>3, <2>4 DEF KvNext, Step, BeginSave, KvLoadSnapshot, BeginSnapshot,
        SaveLoad, SnapshotLoad, StoreBeaten, KvCallFails
  <2>6. KvCalling(m) BY <1>1, <2>2 DEF WritersInv, KvIdle
  <2> QED BY <2>2, <2>5, <2>6 DEF KvCalling, KvStoring
<1>2. ASSUME WritersInv, [KvNext]_kvVars, ~UNCHANGED kvVars PROVE GivesUp
  <2>1. KvNext BY <1>2
  <2>2. SUFFICES ASSUME NEW m \in Memories, ~KvIdle(m), kvCall'[m] = Returned("gaveup")
                 PROVE  kv.rev - kvCall[m].since >= SaveAttempts
    OBVIOUS
  <2>3. KvCalling(m) /\ DOMAIN kvCall = Memories BY <1>2, <2>2 DEF WritersInv
  <2>4. kvCall'[m].op = "none" /\ kvCall'[m].result = "gaveup" /\ kvCall[m].op # "none"
    BY <2>2 DEF Returned, KvIdle
  <2>5. ASSUME NEW n \in Memories, NEW r, kvCall' = [kvCall EXCEPT ![n] = Returned(r)], r # "gaveup"
        PROVE  FALSE
    <3>1. CASE n = m BY <2>3, <2>4, <2>5, <3>1 DEF Returned
    <3>2. CASE n # m BY <2>2, <2>4, <2>5, <3>2
    <3> QED BY <3>1, <3>2
  <2>6. ASSUME NEW n \in Memories, NEW c, kvCall' = [kvCall EXCEPT ![n] = c], c.op # "none"
        PROVE  FALSE
    <3>1. CASE n = m BY <2>3, <2>4, <2>6, <3>1
    <3>2. CASE n # m BY <2>2, <2>4, <2>6, <3>2
    <3> QED BY <3>1, <3>2
  <2>7. ASSUME NEW n \in Memories, StoreBeaten(n)
        PROVE  n = m /\ LastAttempt(m) /\ kvCall[m].at = "store" /\ ~Swaps(sess[m].revision)
    <3>1. LastAttempt(n)
      <4>1. ASSUME ~LastAttempt(n) PROVE FALSE
        <5>1. kvCall' = [kvCall EXCEPT ![n] = Again(kvCall[n])] BY <2>7, <4>1 DEF StoreBeaten
        <5>2. ~KvIdle(n) BY <2>7 DEF StoreBeaten
        <5>3. {"op", "at", "attempt", "since"} \subseteq DOMAIN kvCall[n] /\ kvCall[n].op # "none"
          BY <1>2, <5>2 DEF WritersInv, KvCalling, KvIdle
        <5>4. Again(kvCall[n]).op # "none" BY <5>3 DEF Again
        <5> QED BY <2>6, <5>1, <5>4
      <4> QED BY <4>1
    <3>2. kvCall' = [kvCall EXCEPT ![n] = Returned("gaveup")] BY <2>7, <3>1 DEF StoreBeaten
    <3>3. n = m BY <2>2, <2>4, <3>2
    <3> QED BY <2>7, <3>1, <3>3 DEF StoreBeaten
  <2>8. \E n \in Memories : StoreBeaten(n)
    <3>1. ASSUME NEW n \in Memories, BeginSave(n) \/ BeginSnapshot(n) PROVE FALSE
      <4>1. CASE BeginSave(n)
        <5> DEFINE c == [op |-> "save", at |-> "load", attempt |-> 1, since |-> kv.rev,
                         id |-> saved + 1]
        <5>1. kvCall' = [kvCall EXCEPT ![n] = c] /\ c.op # "none" BY <4>1 DEF BeginSave
        <5> HIDE DEF c
        <5> QED BY <2>6, <5>1
      <4>2. CASE BeginSnapshot(n)
        <5>1. PICK i : kvCall' = [kvCall EXCEPT ![n] =
                  [op |-> "snapshot", at |-> "load", attempt |-> 1, since |-> kv.rev,
                   prev |-> kvView[n].prev,
                   snapshot |-> [upTo |-> kvView[n].tail[i].cursor,
                                 of |-> SummaryUpTo(kvView[n], i)]]]
          BY <4>2 DEF BeginSnapshot
        <5> DEFINE c == [op |-> "snapshot", at |-> "load", attempt |-> 1, since |-> kv.rev,
                         prev |-> kvView[n].prev,
                         snapshot |-> [upTo |-> kvView[n].tail[i].cursor,
                                       of |-> SummaryUpTo(kvView[n], i)]]
        <5>2. kvCall' = [kvCall EXCEPT ![n] = c] /\ c.op # "none" BY <5>1
        <5> HIDE DEF c
        <5> QED BY <2>6, <5>2
      <4> QED BY <3>1, <4>1, <4>2
    <3>2. ASSUME NEW n \in Memories, ~KvIdle(n), kvCall' = [kvCall EXCEPT ![n].at = "store"]
          PROVE  FALSE
      <4>1. {"op", "at", "attempt", "since"} \subseteq DOMAIN kvCall[n] /\ kvCall[n].op # "none"
        BY <1>2, <3>2 DEF WritersInv, KvCalling, KvIdle
      <4> DEFINE c == [kvCall[n] EXCEPT !.at = "store"]
      <4>2. kvCall' = [kvCall EXCEPT ![n] = c] /\ c.op # "none" BY <3>2, <4>1
      <4> HIDE DEF c
      <4> QED BY <2>6, <4>2
    <3>3. ASSUME NEW n \in Memories, SaveLoad(n) PROVE FALSE
      BY <3>2, <3>3 DEF SaveLoad, KvIdle
    <3>4. ASSUME NEW n \in Memories, SnapshotLoad(n) PROVE FALSE
      <4> DEFINE cut == Cutoff(kv.session.snapshot, kvCall[n].prev, kvCall[n].snapshot.upTo,
                               kv.session.offset + Len(kv.session.messages))
      <4>1. cut \in {"ok", "conflict", "cursor"} BY DEF Cutoff
      <4>2. \/ kvCall' = [kvCall EXCEPT ![n].at = "store"]
            \/ kvCall' = [kvCall EXCEPT ![n] = Returned(cut)]
        BY <3>4 DEF SnapshotLoad
      <4>3. ~KvIdle(n) BY <3>4 DEF SnapshotLoad, KvIdle
      <4> HIDE DEF cut
      <4> QED BY <2>5, <3>2, <4>1, <4>2, <4>3
    <3>5. ASSUME NEW n \in Memories, KvClear(n) \/ KvLoadSnapshot(n) PROVE FALSE
      BY <2>4, <3>5 DEF KvClear, KvLoadSnapshot
    <3>6. ASSUME NEW n \in Memories, StoreOk(n) \/ StoreUnacknowledged(n) \/ KvCallFails(n)
          PROVE  FALSE
      <4>1. PICK r \in {"ok", "error"} : kvCall' = [kvCall EXCEPT ![n] = Returned(r)]
        BY <3>6 DEF StoreOk, StoreUnacknowledged, KvCallFails
      <4>2. r # "gaveup" OBVIOUS
      <4> QED BY <2>5, <4>1, <4>2
    <3> QED BY <2>1, <3>1, <3>3, <3>4, <3>5, <3>6 DEF KvNext, Step
  <2>9. kv.rev - kvCall[m].since >= kvCall[m].attempt /\ kvCall[m].attempt >= SaveAttempts
    BY <2>3, <2>7, <2>8 DEF KvCalling, KvStoring, LastAttempt
  <2> QED BY <1>2, <2>3, <2>9, NatsConstants DEF WritersInv, KvInv, KvCalling
<1>3. WritersInv /\ [KvNext]_kvVars => [Replaces]_kv BY <1>1
<1>4. WritersInv /\ [KvNext]_kvVars => [GivesUp]_kvVars BY <1>2
<1>5. KvSpec => []WritersInv BY WritersInit, WritersStep, PTL DEF KvSpec
<1>6. KvSpec => [][Replaces]_kv BY <1>3, <1>5, PTL DEF KvSpec
<1>7. KvSpec => [][GivesUp]_kvVars BY <1>4, <1>5, PTL DEF KvSpec
<1> QED BY <1>6, <1>7 DEF LosesToOthersOnly, ReplacesOnlyPrev, GivesUpOnlyWhenBeaten

-----------------------------------------------------------------------------
(* memory/jsonfile *)

IsContent(m) ==
    /\ m = [messages |-> m.messages, offset |-> m.offset, snapshot |-> m.snapshot,
            meta |-> m.meta]
    /\ m.meta \in BOOLEAN

\* What a call goes back to when its write fails is what the file holds; a Clear that
\* is not written leaves an empty memory, which only another Clear may change.
FileInv ==
    /\ fileOpt \in FileOptions
    /\ IsContent(mem) /\ IsContent(old) /\ IsContent(file.content)
    /\ at \in {"idle", "persist", "down"}
    /\ MemoryIsFile
    /\ result = "notcleared" => mem = Nothing
    /\ at = "persist" /\ result = "clear" => mem = Nothing
    /\ at = "persist" /\ result # "clear" => old = file.content

LEMMA NothingIsContent == IsContent(Nothing)
BY DEF IsContent, Nothing

LEMMA WithMessages ==
    ASSUME NEW m, NEW messages,
           m = [messages |-> m.messages, offset |-> m.offset, snapshot |-> m.snapshot,
                meta |-> m.meta]
    PROVE  [m EXCEPT !.messages = messages]
               = [messages |-> messages, offset |-> m.offset, snapshot |-> m.snapshot,
                  meta |-> m.meta]
OBVIOUS

\* Nothing of a content is lost in either of the file's formats.
LEMMA EncodeKeeps == ASSUME NEW m, IsContent(m) PROVE Decode(Encode(m)) = m
<1>1. CASE m.snapshot = NoSnapshot /\ m.offset = 0 /\ ~m.meta
  <2>1. m.meta = FALSE BY <1>1 DEF IsContent
  <2>2. m = [messages |-> m.messages, offset |-> 0, snapshot |-> NoSnapshot, meta |-> FALSE]
    BY <1>1, <2>1 DEF IsContent
  <2>3. [Nothing EXCEPT !.messages = m.messages]
            = [messages |-> m.messages, offset |-> 0, snapshot |-> NoSnapshot, meta |-> FALSE]
    <3>1. /\ Nothing = [messages |-> Nothing.messages, offset |-> Nothing.offset,
                        snapshot |-> Nothing.snapshot, meta |-> Nothing.meta]
          /\ Nothing.offset = 0 /\ Nothing.snapshot = NoSnapshot /\ Nothing.meta = FALSE
      BY DEF Nothing
    <3>2. [Nothing EXCEPT !.messages = m.messages]
              = [messages |-> m.messages, offset |-> Nothing.offset,
                 snapshot |-> Nothing.snapshot, meta |-> Nothing.meta]
      BY <3>1, WithMessages, Zenon
    <3> QED BY <3>1, <3>2
  <2>4. Encode(m).content = [Nothing EXCEPT !.messages = m.messages] BY <1>1 DEF Encode
  <2> QED BY <2>2, <2>3, <2>4 DEF Decode
<1>2. CASE ~(m.snapshot = NoSnapshot /\ m.offset = 0 /\ ~m.meta)
  BY <1>2 DEF Encode, Decode
<1> QED BY <1>1, <1>2

LEMMA ChangesKeepsFile ==
    ASSUME FileInv, NEW m, IsContent(m), Changes(m),
           result = "notcleared" => result' = "clear",
           result' # "notcleared", result' = "clear" => m = Nothing
    PROVE  FileInv'
BY DEF FileInv, Changes, MemoryIsFile, Decode

\* Only another Clear changes a memory that could not be cleared to an empty one.
LEMMA SavedIsSomething ==
    ASSUME mem = Nothing, fileOpt \in FileOptions
    PROVE  [mem EXCEPT !.messages = Summarised(Merged)] # Nothing
<1> DEFINE msg == Message(Head(todo))
<1>1. Merged = <<msg>> BY DEF Merged, Nothing
<1>2. Summarised(Merged) # <<>>
  <2> HIDE DEF msg
  <2>1. CASE fileOpt.threshold > 0 /\ Len(Merged) >= fileOpt.threshold
    <3> DEFINE split == SplitPoint(Merged, fileOpt.summarySize)
               summary == Summary(Said(SubSeq(Merged, 1, split)))
               kept == SubSeq(Merged, split + 1, Len(Merged))
    <3>1. Summarised(Merged) = <<summary>> \o kept BY <2>1 DEF Summarised
    <3>2. <<summary>> \in Seq({summary, msg}) OBVIOUS
    <3>3. kept \in Seq({summary, msg}) /\ Len(kept) \in Nat
      <4>1. fileOpt.summarySize \in Int BY <2>1, JsonfileConstants
      <4> HIDE DEF summary
      <4>2. Merged \in Seq({summary, msg}) /\ Len(Merged) = 1 BY <1>1
      <4>3. split \in 0 .. Len(Merged) BY <4>1, <4>2, SplitPointIs
      <4> HIDE DEF split
      <4> QED BY <4>2, <4>3
    <3> HIDE DEF summary, kept, split
    <3>4. Len(<<summary>> \o kept) = 1 + Len(kept) /\ Len(kept) \in Nat BY <3>2, <3>3
    <3> QED BY <3>1, <3>4
  <2>2. CASE ~(fileOpt.threshold > 0 /\ Len(Merged) >= fileOpt.threshold)
    BY <1>1, <2>2 DEF Summarised
  <2> QED BY <2>1, <2>2
<1> QED BY <1>2 DEF Nothing

LEMMA FileStep == ASSUME FileInv, [FileNext]_fileVars PROVE FileInv'
<1>1. CASE UNCHANGED fileVars BY <1>1 DEF FileInv, fileVars, MemoryIsFile, Decode
<1>2. CASE Save
  <2> DEFINE m == [mem EXCEPT !.messages = Summarised(Merged)]
  <2>1. IsContent(m) BY DEF FileInv, IsContent
  <2>2. Changes(m) /\ result' = "save" BY <1>2 DEF Save
  <2>3. result # "notcleared"
    <3>1. ASSUME result = "notcleared" PROVE FALSE
      <4>1. mem = Nothing /\ m = Nothing BY <2>2, <3>1 DEF FileInv, Changes
      <4> QED BY <4>1, SavedIsSomething DEF FileInv
    <3> QED BY <3>1
  <2> HIDE DEF m
  <2> QED BY <2>1, <2>2, <2>3, ChangesKeepsFile
<1>3. CASE FileSummaryFails BY <1>3 DEF FileSummaryFails, FileInv, MemoryIsFile, Decode
<1>4. ASSUME NEW c \in FileCallers, FileSaveSnapshot(c) PROVE FileInv'
  <2>0. PICK i \in DOMAIN fileView[c].tail :
            LET upTo == fileView[c].tail[i].cursor
                covered == [mem EXCEPT !.snapshot =
                               [upTo |-> upTo, of |-> SummaryUpTo(fileView[c], i)]]
            IN  \/ /\ Changes(IF fileOpt.prune /\ upTo >= mem.offset THEN Dropped(covered, upTo)
                              ELSE covered)
                   /\ result' = "snapshot"
                \/ /\ result' = "refused"
                   /\ UNCHANGED <<mem, old, file, fileOpt, at>>
    BY <1>4 DEF FileSaveSnapshot
  <2> DEFINE upTo == fileView[c].tail[i].cursor
             covered == [mem EXCEPT !.snapshot =
                            [upTo |-> upTo, of |-> SummaryUpTo(fileView[c], i)]]
             m == IF fileOpt.prune /\ upTo >= mem.offset THEN Dropped(covered, upTo) ELSE covered
  <2>1. result # "notcleared" /\ at = "idle" BY <1>4 DEF FileSaveSnapshot
  <2>2. CASE Changes(m) /\ result' = "snapshot"
    <3>1. IsContent(m) BY DEF FileInv, IsContent, Dropped
    <3> HIDE DEF m
    <3> QED BY <2>1, <2>2, <3>1, ChangesKeepsFile
  <2>3. CASE result' = "refused" /\ UNCHANGED <<mem, old, file, fileOpt, at>>
    BY <2>1, <2>3 DEF FileInv, MemoryIsFile, Decode
  <2> QED BY <2>0, <2>2, <2>3
<1>5. CASE SetMeta
  <2> DEFINE m == [mem EXCEPT !.meta = ~@]
  <2>1. IsContent(m) BY DEF FileInv, IsContent
  <2>2. Changes(m) /\ result' = "meta" BY <1>5 DEF SetMeta
  <2>3. result # "notcleared"
    <3>1. ASSUME result = "notcleared" PROVE FALSE
      <4>1. mem = Nothing /\ m = Nothing BY <2>2, <3>1 DEF FileInv, Changes
      <4>2. mem.meta = FALSE /\ m.meta = ~mem.meta BY <4>1 DEF Nothing
      <4> QED BY <4>1, <4>2
    <3> QED BY <3>1
  <2> HIDE DEF m
  <2> QED BY <2>1, <2>2, <2>3, ChangesKeepsFile
<1>6. CASE FileClear
  <2>1. Changes(Nothing) /\ result' = "clear" BY <1>6 DEF FileClear
  <2> QED BY <2>1, NothingIsContent, ChangesKeepsFile
<1>7. CASE PersistOk
  <2>1. Decode(Encode(mem)) = mem BY EncodeKeeps DEF FileInv
  <2> QED BY <1>7, <2>1 DEF PersistOk, FileInv, MemoryIsFile, Decode
<1>8. CASE PersistFails
  BY <1>8 DEF PersistFails, RolledBack, FileInv, MemoryIsFile, Decode
<1>9. CASE Crash
  <2>1. Decode(Encode(mem)) = mem BY EncodeKeeps DEF FileInv
  <2> QED BY <1>9, <2>1 DEF Crash, FileInv, MemoryIsFile, Decode
<1>10. CASE FileRestart BY <1>10 DEF FileRestart, FileInv, MemoryIsFile, Decode
<1>11. ASSUME NEW c \in FileCallers, FileLoadSnapshot(c) PROVE FileInv'
  BY <1>11 DEF FileLoadSnapshot, FileInv, MemoryIsFile, Decode
<1> QED
  BY <1>1, <1>2, <1>3, <1>4, <1>5, <1>6, <1>7, <1>8, <1>9, <1>10, <1>11 DEF FileNext

\* Whatever write fails and wherever the process stops, between calls the memory holds what
\* the next process would load (Memory.persist, Memory.Save, memory/jsonfile).
THEOREM FileIsMemory == FileSpec => []MemoryIsFile
<1>1. FileInit => FileInv
  BY NothingIsContent DEF FileInit, FileInv, MemoryIsFile, Decode
<1>2. FileInv => MemoryIsFile BY DEF FileInv
<1> QED BY <1>1, <1>2, FileStep, PTL DEF FileSpec

-----------------------------------------------------------------------------
(* memory/simple *)

Msgs == {Message(id) : id \in Nat} \cup {Blank}

Rings ==
    [slots : [0 .. opt.capacity - 1 -> Msgs], write : 0 .. opt.capacity - 1,
     count : 0 .. opt.capacity]

\* The position of the first message that a load may have to return: neither covered
\* nor cleared, nor more than a buffer back.
Recent ==
    LET first == IF snapshot = NoSnapshot \/ snapshot.upTo < cleared THEN cleared
                 ELSE snapshot.upTo + 1
    IN  IF Len(log) - first > opt.capacity THEN Len(log) - opt.capacity ELSE first

\* The buffer is the end of what was saved.
Holds == \A i \in 1 .. ring.count : Buffered[i] = log[Offset + i]

\* All that a load may have to return and the buffer does not hold are tool results
\* that pruning left without their call.
LeftOut == \A p \in Recent .. Offset - 1 : log[p + 1].tool

SnapTypes ==
    /\ log \in Seq(Msgs) /\ next = Len(log) /\ cleared \in 0 .. next
    /\ ring \in Rings /\ ring.count <= next - cleared
    /\ snapshot = NoSnapshot \/ snapshot.upTo \in 0 .. next - 1
    /\ DOMAIN call = Callers /\ DOMAIN view = Callers
    /\ \A c \in Callers : call[c] = Idle \/ call[c].at = "check"
    /\ \A c \in Callers : \A i \in DOMAIN view[c].tail : view[c].tail[i].cursor \in Nat

SnapInv == opt \in Options /\ opt.threshold = 0 /\ SnapTypes /\ Holds /\ LeftOut

\* A memory that summarises has no cursors to keep.
SimpleInv == opt \in Options /\ (opt.threshold = 0 => SnapInv)

LEMMA ModIs ==
    ASSUME NEW c \in Nat, c > 0, NEW x \in Nat, x < c + c
    PROVE  x % c = IF x < c THEN x ELSE x - c
OBVIOUS

LEMMA OptionsAre ==
    ASSUME opt \in Options
    PROVE  opt.capacity \in Nat /\ opt.capacity > 0 /\ opt.prune \in BOOLEAN
BY SimpleConstants

LEMMA EmptyRingIs ==
    ASSUME opt \in Options PROVE EmptyRing \in Rings /\ EmptyRing.count = 0
<1> USE OptionsAre
<1>1. Blank \in Msgs BY DEF Msgs
<1>2. [j \in 0 .. opt.capacity - 1 |-> Blank] \in [0 .. opt.capacity - 1 -> Msgs] BY <1>1
<1>3. 0 \in 0 .. opt.capacity - 1 /\ 0 \in 0 .. opt.capacity OBVIOUS
<1> QED BY <1>2, <1>3 DEF EmptyRing, Rings

LEMMA RingGetIs ==
    ASSUME opt \in Options, NEW r \in Rings
    PROVE  RingGet(r) \in Seq(Msgs) /\ Len(RingGet(r)) = r.count
<1> USE OptionsAre
<1>1. ASSUME NEW j \in 1 .. r.count
      PROVE  r.slots[(r.write + opt.capacity - r.count + j - 1) % opt.capacity] \in Msgs
  <2> DEFINE x == r.write + opt.capacity - r.count + j - 1
  <2>1. x \in Nat /\ x < opt.capacity + opt.capacity BY SMTT(20) DEF Rings
  <2> HIDE DEF x
  <2>2. x % opt.capacity \in 0 .. opt.capacity - 1 BY <2>1, ModIs
  <2> QED BY <2>2 DEF Rings, x
<1>2. RingGet(r) \in [1 .. r.count -> Msgs] BY <1>1 DEF RingGet
<1>3. r.count \in Nat BY DEF Rings
<1> QED BY <1>2, <1>3, SeqDef

\* Where the messages are after the next write, n1 of them from w1 backwards.
LEMMA SlotsMove ==
    ASSUME NEW c \in Nat, c > 0, NEW w \in 0 .. c - 1, NEW n \in 0 .. c,
           NEW w1, w1 = IF w + 1 < c THEN w + 1 ELSE 0,
           NEW n1, n1 = IF n < c THEN n + 1 ELSE n,
           NEW j \in 1 .. n1, NEW k, k = j + n + 1 - n1
    PROVE  /\ j = n1 => (w1 + c - n1 + j - 1) % c = w
           /\ j # n1 =>
                  /\ k \in 1 .. n
                  /\ (w1 + c - n1 + j - 1) % c = (w + c - n + k - 1) % c
                  /\ (w1 + c - n1 + j - 1) % c \in (0 .. c - 1) \ {w}
<1> DEFINE x == w1 + c - n1 + j - 1
           y == w + c - n + k - 1
<1>1. n1 \in 1 .. c /\ w1 \in 0 .. c - 1 OBVIOUS
<1>2. x \in Nat /\ x < c + c BY <1>1
<1>3. x % c = IF x < c THEN x ELSE x - c
  <2> HIDE DEF x
  <2> QED BY <1>2, ModIs
<1>4. CASE j = n1 BY <1>1, <1>3, <1>4
<1>5. CASE j # n1
  <2>1. k \in 1 .. n BY <1>1, <1>5
  <2>2. y \in Nat /\ y < c + c BY <2>1
  <2>3. y % c = IF y < c THEN y ELSE y - c
    <3> HIDE DEF y
    <3> QED BY <2>2, ModIs
  <2>4. CASE n < c BY <1>1, <1>2, <1>3, <1>5, <2>1, <2>2, <2>3, <2>4
  <2>5. CASE n = c BY <1>1, <1>2, <1>3, <1>5, <2>1, <2>2, <2>3, <2>5
  <2> QED BY <1>5, <2>1, <2>4, <2>5
<1> QED BY <1>4, <1>5

\* Adding appends, and evicts the oldest message when the buffer is full.
LEMMA RingAddIs ==
    ASSUME opt \in Options, NEW r \in Rings, NEW m \in Msgs
    PROVE  /\ RingAdd(r, m) \in Rings
           /\ RingAdd(r, m).count = IF r.count < opt.capacity THEN r.count + 1 ELSE r.count
           /\ \A j \in 1 .. RingAdd(r, m).count :
                  RingGet(RingAdd(r, m))[j] =
                      IF j = RingAdd(r, m).count THEN m
                      ELSE RingGet(r)[j + r.count + 1 - RingAdd(r, m).count]
<1> DEFINE cap == opt.capacity
           new == RingAdd(r, m)
<1>1. cap \in Nat /\ cap > 0 BY OptionsAre
<1>2. /\ r.slots \in [0 .. cap - 1 -> Msgs] /\ r.write \in 0 .. cap - 1 /\ r.count \in 0 .. cap
  BY DEF Rings
<1>3. /\ new.slots = [r.slots EXCEPT ![r.write] = m] /\ new.write = (r.write + 1) % cap
      /\ new.count = IF r.count < cap THEN r.count + 1 ELSE r.count
  BY DEF RingAdd
<1>4. new.write = IF r.write + 1 < cap THEN r.write + 1 ELSE 0
  <2> DEFINE x == r.write + 1
  <2> HIDE DEF cap, new
  <2>1. x \in Nat /\ x < cap + cap BY <1>1, <1>2
  <2>2. x % cap = IF x < cap THEN x ELSE x - cap
    <3> HIDE DEF x
    <3> QED BY <1>1, <2>1, ModIs
  <2> QED BY <1>1, <1>2, <1>3, <2>2
<1>5. new \in Rings
  <2>1. new.slots \in [0 .. cap - 1 -> Msgs] BY <1>2, <1>3
  <2>2. new.write \in 0 .. cap - 1 /\ new.count \in 0 .. cap BY <1>1, <1>2, <1>3, <1>4
  <2> QED BY <2>1, <2>2 DEF RingAdd, Rings
<1>6. ASSUME NEW j \in 1 .. new.count
      PROVE  RingGet(new)[j] = IF j = new.count THEN m ELSE RingGet(r)[j + r.count + 1 - new.count]
  <2> DEFINE x == new.write + cap - new.count + j - 1
             k == j + r.count + 1 - new.count
             y == r.write + cap - r.count + k - 1
  <2>1. RingGet(new)[j] = new.slots[x % cap] BY DEF RingGet
  <2>2. /\ j = new.count => x % cap = r.write
        /\ j # new.count => k \in 1 .. r.count /\ x % cap = y % cap
                            /\ x % cap \in (0 .. cap - 1) \ {r.write}
    <3> DEFINE w == r.write
               n == r.count
               w1 == new.write
               n1 == new.count
    <3>1. /\ w \in 0 .. cap - 1 /\ n \in 0 .. cap
          /\ w1 = IF w + 1 < cap THEN w + 1 ELSE 0
          /\ n1 = IF n < cap THEN n + 1 ELSE n
      BY <1>2, <1>3, <1>4
    <3>2. j \in 1 .. n1 OBVIOUS
    <3>3. SUFFICES
              /\ j = n1 => (w1 + cap - n1 + j - 1) % cap = w
              /\ j # n1 =>
                     /\ k \in 1 .. n
                     /\ (w1 + cap - n1 + j - 1) % cap = (w + cap - n + k - 1) % cap
                     /\ (w1 + cap - n1 + j - 1) % cap \in (0 .. cap - 1) \ {w}
      OBVIOUS
    <3>4. k = j + n + 1 - n1 OBVIOUS
    <3> HIDE DEF cap, w, n, w1, n1, k
    <3> QED BY <1>1, <3>1, <3>2, <3>4, SlotsMove
  <2>3. CASE j = new.count BY <1>2, <1>3, <2>1, <2>2, <2>3
  <2>4. CASE j # new.count
    <3>1. RingGet(r)[k] = r.slots[y % cap] BY <2>2, <2>4 DEF RingGet
    <3> HIDE DEF x, y
    <3> QED BY <1>2, <1>3, <2>1, <2>2, <2>4, <3>1
  <2> QED BY <2>3, <2>4
<1> QED BY <1>3, <1>5, <1>6

\* Replacing fills a new buffer, from its first slot.
LEMMA RingReplaceIs ==
    ASSUME opt \in Options, NEW messages \in Seq(Msgs), Len(messages) <= opt.capacity
    PROVE  /\ RingReplace(messages) \in Rings
           /\ RingReplace(messages).count = Len(messages)
           /\ RingGet(RingReplace(messages)) = messages
<1> DEFINE cap == opt.capacity
           n == Len(messages)
           Step1(f) == [k \in 0 .. n |-> IF k = 0 THEN EmptyRing
                                        ELSE RingAdd(f[k - 1], messages[k])]
           filled == CHOOSE f : f = Step1(f)
           at1(k) == [slots |-> [j \in 0 .. cap - 1 |-> IF j < k THEN messages[j + 1] ELSE Blank],
                      write |-> k % cap, count |-> k]
           closed == [k \in 0 .. n |-> at1(k)]
<1>1. cap \in Nat /\ cap > 0 /\ n \in 0 .. cap BY OptionsAre
<1>2. RingReplace(messages) = filled[n] BY DEF RingReplace
<1>3. \A k \in 0 .. n : at1(k) \in Rings
  <2>1. ASSUME NEW k \in 0 .. n PROVE at1(k) \in Rings
    <3>1. ASSUME NEW j \in 0 .. cap - 1, j < k PROVE messages[j + 1] \in Msgs
      BY <1>1, <3>1
    <3>2. Blank \in Msgs BY DEF Msgs
    <3>3. at1(k).slots \in [0 .. cap - 1 -> Msgs] BY <3>1, <3>2
    <3>4. k % cap = IF k < cap THEN k ELSE k - cap BY <1>1, ModIs
    <3>5. k % cap \in 0 .. cap - 1 /\ k \in 0 .. cap BY <1>1, <3>4
    <3> QED BY <3>3, <3>5 DEF Rings
  <2> QED BY <2>1
\* The closed form is what the loop computes, so there is such a function.
<1>4. ASSUME NEW k \in 1 .. n PROVE RingAdd(at1(k - 1), messages[k]) = at1(k)
  <2>1. k - 1 < cap /\ k - 1 \in Nat BY <1>1
  <2>2. (k - 1) % cap = k - 1 BY <1>1, <2>1, ModIs
  <2>3. [at1(k - 1).slots EXCEPT ![k - 1] = messages[k]] = at1(k).slots
    <3> DEFINE F == [at1(k - 1).slots EXCEPT ![k - 1] = messages[k]]
           G == at1(k).slots
    <3>1. ASSUME NEW j \in 0 .. cap - 1 PROVE F[j] = G[j]
      <4>1. CASE j = k - 1 BY <1>1, <2>1, <4>1
      <4>2. CASE j # k - 1
        <5>1. j < k <=> j < k - 1 BY <1>1, <4>2
        <5> QED BY <4>2, <5>1
      <4> QED BY <4>1, <4>2
    <3>2. F = [j \in 0 .. cap - 1 |-> F[j]] OBVIOUS
    <3>3. G = [j \in 0 .. cap - 1 |-> G[j]] OBVIOUS
    <3>4. F = G
      <4> HIDE DEF F, G
      <4> QED BY <3>1, <3>2, <3>3
    <3> QED BY <3>4
  <2>4. (at1(k - 1).write + 1) % cap = k % cap
    <3>1. at1(k - 1).write + 1 = k BY <2>2
    <3> QED BY <3>1
  <2>5. at1(k - 1).write = k - 1 /\ at1(k - 1).count = k - 1 BY <2>2
  <2>6. k - 1 + 1 = k OBVIOUS
  <2>7. RingAdd(at1(k - 1), messages[k]) = [slots |-> at1(k).slots, write |-> k % cap, count |-> k]
    BY <2>1, <2>3, <2>4, <2>5, <2>6 DEF RingAdd
  <2> QED BY <2>7
<1>5. at1(0) = EmptyRing
  <2>1. 0 % cap = 0 BY <1>1, ModIs
  <2>2. at1(0).slots = [j \in 0 .. cap - 1 |-> Blank] BY <1>1
  <2> QED BY <2>1, <2>2 DEF EmptyRing
<1>6. filled = Step1(filled)
  <2>1. closed = Step1(closed)
    <3> HIDE DEF at1
    <3>1. \A k \in 0 .. n : closed[k] = IF k = 0 THEN EmptyRing
                                       ELSE RingAdd(closed[k - 1], messages[k])
      BY <1>1, <1>4, <1>5
    <3> QED BY <3>1
  <2> HIDE DEF closed, Step1
  <2> QED BY <2>1
<1>7. \A k \in 0 .. n : filled[k] = at1(k)
  <2> DEFINE wrong == {k \in 0 .. n : filled[k] # at1(k)}
  <2> HIDE DEF at1, filled
  <2>1. ASSUME wrong # {} PROVE FALSE
    <3>1. wrong \in SUBSET Nat BY <1>1
    <3>2. PICK k \in wrong : \A j \in wrong : k <= j
      <4> HIDE DEF wrong
      <4> QED BY <2>1, <3>1, LeastOf
    <3>3. k # 0 BY <1>1, <1>5, <1>6, <3>2
    <3>4. k \in 1 .. n /\ k - 1 \in 0 .. n /\ k - 1 \notin wrong BY <1>1, <3>2, <3>3
    <3>5. filled[k - 1] = at1(k - 1) BY <3>4
    <3>6. filled[k] = RingAdd(at1(k - 1), messages[k]) BY <1>6, <3>3, <3>4, <3>5
    <3> QED BY <1>4, <3>2, <3>4, <3>6
  <2> QED BY <2>1
<1>8. RingGet(at1(n)) = messages
  <2>1. ASSUME NEW j \in 1 .. n
        PROVE  at1(n).slots[(at1(n).write + cap - at1(n).count + j - 1) % cap] = messages[j]
    <3>1. n % cap = IF n < cap THEN n ELSE n - cap BY <1>1, ModIs
    <3> DEFINE x == (n % cap) + cap - n + j - 1
    <3>2. x \in Nat /\ x < cap + cap /\ (IF x < cap THEN x ELSE x - cap) = j - 1
      <4> DEFINE w == n % cap
      <4>1. w = IF n < cap THEN n ELSE n - cap BY <3>1
      <4> HIDE DEF w, cap, n
      <4>2. CASE n < cap BY <1>1, <4>1, <4>2 DEF w
      <4>3. CASE n = cap BY <1>1, <4>1, <4>3 DEF w
      <4> QED BY <1>1, <4>2, <4>3
    <3>3. x % cap = j - 1
      <4> HIDE DEF x
      <4> QED BY <1>1, <3>2, ModIs
    <3>4. at1(n).write + cap - at1(n).count + j - 1 = x OBVIOUS
    <3>5. j - 1 \in 0 .. cap - 1 /\ j - 1 < n /\ j - 1 + 1 = j BY <1>1
    <3> QED BY <3>3, <3>4, <3>5
  <2>2. RingGet(at1(n)) = [j \in 1 .. n |->
            at1(n).slots[(at1(n).write + cap - at1(n).count + j - 1) % cap]]
    BY DEF RingGet
  <2>3. messages = [j \in 1 .. n |-> messages[j]] OBVIOUS
  <2> HIDE DEF at1
  <2> QED BY <2>1, <2>2, <2>3
<1>9. filled[n] = at1(n) /\ at1(n).count = n /\ at1(n) \in Rings BY <1>1, <1>3, <1>7, SMTT(20)
<1> HIDE DEF filled, at1
<1> QED BY <1>2, <1>8, <1>9

\* A tail starts after the snapshot, or where the messages do, and after the tool results.
StartsTail(start, messages, offset, snap) ==
    /\ Tail_(messages, offset, snap) =
           [j \in 1 .. Len(messages) - start |->
               [message |-> messages[start + j], cursor |-> offset + start + j - 1]]
    /\ \A j \in 1 .. start :
           snap = NoSnapshot \/ snap.upTo < offset + j - 1 => messages[j].tool
    /\ start < Len(messages) => ~messages[start + 1].tool
    /\ snap # NoSnapshot /\ snap.upTo < offset + Len(messages) => snap.upTo < offset + start

LEMMA TailIs ==
    ASSUME NEW messages \in Seq(Msgs), NEW offset \in Nat, NEW snap,
           snap = NoSnapshot \/ snap.upTo \in Nat
    PROVE  \E start \in 0 .. Len(messages) : StartsTail(start, messages, offset, snap)
<1> DEFINE after == IF snap = NoSnapshot \/ snap.upTo + 1 < offset THEN 0
                    ELSE snap.upTo + 1 - offset
           start == SplitPoint(messages, after)
<1>1. after \in Int BY DEF Msgs
<1>2. Tail_(messages, offset, snap) =
          [j \in 1 .. Len(messages) - start |->
              [message |-> messages[start + j], cursor |-> offset + start + j - 1]]
  BY DEF Tail_
<1>3. /\ start \in 0 .. Len(messages)
      /\ after <= Len(messages) => after <= start
      /\ \A j \in 1 .. start : j > after => messages[j].tool
      /\ start < Len(messages) => ~messages[start + 1].tool
  <2> HIDE DEF after
  <2> QED BY <1>1, SplitPointIs
<1>4. Len(messages) \in Nat OBVIOUS
<1> HIDE DEF start
<1>5. \A j \in 1 .. start :
          snap = NoSnapshot \/ snap.upTo < offset + j - 1 => messages[j].tool
  BY <1>3, <1>4
<1>6. snap # NoSnapshot /\ snap.upTo < offset + Len(messages) => snap.upTo < offset + start
  BY <1>3, <1>4
<1> QED BY <1>2, <1>3, <1>5, <1>6 DEF StartsTail

\* What a load must return comes after what was cleared and covered.
LEMMA RecentIs ==
    ASSUME opt \in Options, SnapTypes
    PROVE  /\ Recent \in Nat /\ cleared <= Recent /\ Recent <= next
           /\ Recent >= next - opt.capacity
           /\ snapshot # NoSnapshot /\ cleared <= snapshot.upTo => snapshot.upTo < Recent
           /\ \/ Recent = next - opt.capacity \/ Recent = cleared
              \/ snapshot # NoSnapshot /\ cleared <= snapshot.upTo /\ Recent = snapshot.upTo + 1
BY OptionsAre, SMTT(20) DEF SnapTypes, Recent

LEMMA OffsetIs ==
    ASSUME opt \in Options, SnapTypes
    PROVE  /\ Offset \in Nat /\ Offset = next - ring.count /\ cleared <= Offset
           /\ next - opt.capacity <= Offset /\ Offset <= next /\ ring.count \in Nat
           /\ next \in Nat /\ next = Len(log)
           /\ Buffered \in Seq(Msgs) /\ Len(Buffered) = ring.count
<1>1. next \in Nat /\ Len(log) = next BY DEF SnapTypes
<1>2. ring.count \in 0 .. opt.capacity BY DEF SnapTypes, Rings
<1> QED BY <1>1, <1>2, OptionsAre, RingGetIs DEF SnapTypes, Offset, Buffered

LEMMA HoldsTail ==
    ASSUME opt \in Options, opt.threshold = 0, SnapTypes, Holds, LeftOut
    PROVE  CursorsAreStable /\ TailIsWhole
<1>1. CursorsAreStable
  <2>1. DOMAIN Buffered = 1 .. ring.count BY DEF Buffered, RingGet
  <2> QED BY <2>1 DEF CursorsAreStable, Holds
<1>2. TailIsWhole
  <2> DEFINE o == Offset
             r == Recent
             all == SubSeq(log, r + 1, Len(log))
             split == SplitPoint(all, 0)
             c == ring.count
  <2>0. /\ o \in Nat /\ r \in Nat /\ c \in Nat /\ next \in Nat /\ cleared \in Nat
        /\ o + c = next /\ cleared <= o /\ cleared <= r /\ r <= next
        /\ r > o => snapshot # NoSnapshot /\ r = snapshot.upTo + 1
        /\ snapshot # NoSnapshot =>
               snapshot.upTo \in Nat /\ snapshot.upTo < next
                   /\ (cleared <= snapshot.upTo => snapshot.upTo < r)
    <3>1. next \in Nat /\ cleared \in Nat BY DEF SnapTypes
    <3>2. Offset \in Nat /\ c \in Nat /\ Offset = next - c /\ cleared <= Offset
          /\ next - opt.capacity <= Offset
      BY OffsetIs
    <3>3. snapshot # NoSnapshot => snapshot.upTo \in Nat /\ snapshot.upTo < next BY DEF SnapTypes
    <3> HIDE DEF c
    <3> QED BY <3>1, <3>2, <3>3, RecentIs, OptionsAre
  <2>a. Buffered \in Seq(Msgs) /\ Len(Buffered) = c /\ log \in Seq(Msgs) /\ Len(log) = next
    BY OffsetIs DEF SnapTypes
  <2>b. \A j \in 1 .. c : Buffered[j] = log[o + j] BY DEF Holds
  <2>c. \A p \in r .. o - 1 : log[p + 1].tool BY DEF LeftOut
  <2>1. TailIsWhole <=> [j \in DOMAIN Tail1 |-> Tail1[j].message] = SubSeq(all, split + 1, Len(all))
    BY DEF TailIsWhole, Recent
  <2> HIDE DEF o, r, c
  <2>2. PICK start \in 0 .. c :
            /\ Tail1 = [j \in 1 .. c - start |->
                   [message |-> Buffered[start + j], cursor |-> o + start + j - 1]]
            /\ \A j \in 1 .. start :
                   snapshot = NoSnapshot \/ snapshot.upTo < o + j - 1 => Buffered[j].tool
            /\ start < c => ~Buffered[start + 1].tool
            /\ snapshot # NoSnapshot /\ snapshot.upTo < o + c =>
                   snapshot.upTo < o + start
    <3>1. snapshot = NoSnapshot \/ snapshot.upTo \in Nat BY <2>0
    <3>2. Tail1 = Tail_(Buffered, o, snapshot) BY DEF Tail1, o
    <3>3. o \in Nat /\ Buffered \in Seq(Msgs) /\ Len(Buffered) = c BY <2>0, <2>a
    <3>4. PICK start \in 0 .. Len(Buffered) : StartsTail(start, Buffered, o, snapshot)
      BY <3>1, <3>3, TailIs
    <3> QED BY <3>2, <3>3, <3>4 DEF StartsTail
  <2>3. all \in Seq(Msgs) /\ Len(all) = next - r
        /\ \A j \in 1 .. next - r : all[j] = log[r + j]
    <3> DEFINE m == r + 1
               n == Len(log)
    <3>1. m \in Int /\ n \in Int /\ \A j \in m .. n : log[j] \in Msgs BY <2>0, <2>a
    <3>2. all = SubSeq(log, m, n) OBVIOUS
    <3> HIDE DEF m, n, all
    <3>3. /\ SubSeq(log, m, n) \in Seq(Msgs)
          /\ Len(SubSeq(log, m, n)) = IF m <= n THEN n - m + 1 ELSE 0
          /\ \A j \in 1 .. n - m + 1 : SubSeq(log, m, n)[j] = log[m + j - 1]
      BY <3>1, SubSeqProperties
    <3>4. n = next /\ n - m + 1 = next - r /\ (m <= n \/ next - r = 0)
      BY <2>0, <2>a DEF m, n
    <3>5. \A j \in 1 .. next - r : m + j - 1 = r + j BY <2>0 DEF m
    <3>6. Len(all) = next - r BY <3>2, <3>3, <3>4, <2>0
    <3> QED BY <3>2, <3>3, <3>4, <3>5, <3>6
  <2>4. /\ split \in 0 .. Len(all)
        /\ \A j \in 1 .. split : all[j].tool
        /\ split < Len(all) => ~all[split + 1].tool
    <3> HIDE DEF all
    <3>1. /\ SplitPoint(all, 0) \in 0 .. Len(all)
          /\ \A j \in 1 .. SplitPoint(all, 0) : j > 0 => all[j].tool
          /\ SplitPoint(all, 0) < Len(all) => ~all[SplitPoint(all, 0) + 1].tool
      <4>1. 0 \in Int OBVIOUS
      <4> QED BY <2>3, <4>1, SplitPointIs
    <3> QED BY <2>3, <3>1
  <2> HIDE DEF all, split
  <2>5. r <= o + start /\ \A p \in r .. o + start - 1 : log[p + 1].tool
    <3>1. r <= o + start
      BY <2>0, <2>2
    <3>2. ASSUME NEW p \in r .. o + start - 1, p >= o PROVE log[p + 1].tool
      <4> DEFINE j == p + 1 - o
      <4>1. j \in 1 .. start /\ o + j = p + 1 BY <3>2, <2>0, <2>2
      <4>2. snapshot = NoSnapshot \/ snapshot.upTo < o + j - 1
        BY <3>2, <4>1, <2>0
      <4> HIDE DEF j
      <4>3. Buffered[j].tool BY <2>2, <4>1, <4>2
      <4>4. Buffered[j] = log[o + j] BY <2>2, <4>1, <2>0, <2>b
      <4> QED BY <4>1, <4>3, <4>4
    <3>3. ASSUME NEW p \in r .. o + start - 1, ~(p >= o) PROVE log[p + 1].tool
      BY <2>0, <2>c, <3>3
    <3> QED BY <3>1, <3>2, <3>3
  <2>6. o + start = r + split
    <3>1. ASSUME r + split < o + start PROVE FALSE
      <4>1. split < Len(all) BY <2>2, <2>3, <3>1, <2>4, <2>0
      <4>2. ~log[r + split + 1].tool BY <2>3, <2>4, <4>1, <2>0
      <4>3. r + split \in r .. o + start - 1
        BY <2>2, <2>4, <3>1, <2>0
      <4> QED BY <2>5, <4>2, <4>3
    <3>2. ASSUME o + start < r + split PROVE FALSE
      <4>1. start < c BY <2>3, <2>4, <3>2, <2>2, <2>0
      <4>2. ~log[o + start + 1].tool
        <5>1. start + 1 \in 1 .. c BY <2>2, <4>1, <2>0
        <5>2. Buffered[start + 1] = log[o + (start + 1)] BY <2>b, <5>1
        <5> QED BY <2>2, <4>1, <5>2, <2>0
      <4> DEFINE j == o + start + 1 - r
      <4>3. j \in 1 .. split /\ r + j = o + start + 1
        BY <2>2, <2>4, <2>5, <3>2, <2>0
      <4> HIDE DEF j
      <4>4. all[j] = log[r + j] BY <2>3, <2>4, <4>3
      <4> QED BY <2>4, <4>2, <4>3, <4>4
    <3> QED BY <3>1, <3>2, <2>2, <2>4, <2>0
  <2>7. c - start = Len(all) - split
    BY <2>2, <2>3, <2>4, <2>6, <2>0
  <2>8. [j \in DOMAIN Tail1 |-> Tail1[j].message]
            = [j \in 1 .. c - start |-> Buffered[start + j]]
    BY <2>2
  <2>9. SubSeq(all, split + 1, Len(all)) = [j \in 1 .. Len(all) - split |-> all[split + j]]
    BY <2>3, <2>4
  <2>10. ASSUME NEW j \in 1 .. c - start PROVE Buffered[start + j] = all[split + j]
    <3>1. start + j \in 1 .. c /\ split + j \in 1 .. next - r
      BY <2>2, <2>3, <2>4, <2>7, <2>0
    <3>2. Buffered[start + j] = log[o + (start + j)] BY <2>b, <3>1
    <3>3. all[split + j] = log[r + (split + j)] BY <2>3, <3>1
    <3>4. o + (start + j) = r + (split + j) BY <2>2, <2>4, <2>6, <2>0
    <3> QED BY <3>2, <3>3, <3>4
  <2> QED BY <2>1, <2>7, <2>8, <2>9, <2>10
<1> QED BY <1>1, <1>2

\* The value that stands for no snapshot is not a snapshot.
NoSnapshotIsNone == \A upTo, of : NoSnapshot # [upTo |-> upTo, of |-> of]

LEMMA SaveAddKeeps ==
    ASSUME SnapInv, NEW c \in Callers, SaveAdd(c) PROVE SnapInv'
<1> DEFINE m == Message(Len(log) + 1)
           new == RingAdd(ring, m)
           n == ring.count
           cap == opt.capacity
<1>1. /\ ring' = new /\ log' = Append(log, m) /\ next' = next + 1
      /\ UNCHANGED <<snapshot, opt, view, cleared>>
      /\ call' = [call EXCEPT ![c] = [at |-> "check"]]
  BY DEF SaveAdd
<1>2. /\ log \in Seq(Msgs) /\ next = Len(log) /\ cleared \in 0 .. next /\ next \in Nat
      /\ ring \in Rings /\ n \in 0 .. cap /\ n <= next - cleared /\ cap \in Nat /\ cap > 0
      /\ opt \in Options /\ Rings' = Rings
  BY <1>1, OptionsAre DEF SnapInv, SnapTypes, Rings
<1>3. m \in Msgs BY <1>2 DEF Msgs
<1>4. /\ new \in Rings /\ new.count = IF n < cap THEN n + 1 ELSE n
      /\ \A j \in 1 .. new.count :
             RingGet(new)[j] = IF j = new.count THEN m ELSE RingGet(ring)[j + n + 1 - new.count]
  BY <1>2, <1>3, RingAddIs
<1>5. /\ log' \in Seq(Msgs) /\ Len(log') = next + 1 /\ log'[next + 1] = m
      /\ \A p \in 1 .. next : log'[p] = log[p]
  <2> HIDE DEF m
  <2> QED BY <1>1, <1>2, <1>3
<1> HIDE DEF m, new, n, cap
<1>6. SnapTypes'
  <2>1. next' = Len(log') /\ cleared' \in 0 .. next' BY <1>1, <1>2, <1>5
  <2>2. ring' \in Rings' /\ ring'.count <= next' - cleared' BY <1>1, <1>2, <1>4
  <2>3. (snapshot = NoSnapshot \/ snapshot.upTo \in 0 .. next - 1)'
    BY <1>1, <1>2 DEF SnapInv, SnapTypes
  <2>4. DOMAIN call' = Callers /\ \A d \in Callers : call'[d] = Idle \/ call'[d].at = "check"
    BY <1>1 DEF SnapInv, SnapTypes
  <2> QED BY <1>1, <1>5, <2>1, <2>2, <2>3, <2>4 DEF SnapInv, SnapTypes
<1>n. new.count \in Nat /\ new.count = IF n < cap THEN n + 1 ELSE n BY <1>2, <1>4
<1>o. Offset = next - n BY DEF Offset, n
<1>7. Offset' = next + 1 - new.count BY <1>1, <1>2, <1>n DEF Offset
<1>8. Holds'
  <2>1. ASSUME NEW j \in 1 .. new.count
        PROVE  RingGet(new)[j] = log'[next + 1 - new.count + j]
    <3>1. CASE j = new.count BY <1>2, <1>4, <1>5, <3>1
    <3>2. CASE j # new.count
      <4> DEFINE k == j + n + 1 - new.count
                 q == next + 1 - new.count + j
      <4>1. k \in 1 .. n /\ Offset + k = q /\ q \in 1 .. next
        BY <1>2, <1>n, <1>o, <3>2
      <4> HIDE DEF k
      <4>2. RingGet(ring)[k] = log[Offset + k] BY <4>1 DEF SnapInv, Holds, Buffered, n
      <4> HIDE DEF q
      <4>3. RingGet(ring)[k] = log'[q] BY <1>5, <4>1, <4>2
      <4> QED BY <1>4, <3>2, <4>3 DEF k, q
    <3> QED BY <3>1, <3>2
  <2>2. Buffered' = RingGet(new) BY <1>1 DEF Buffered, RingGet
  <2> QED BY <1>1, <1>7, <2>1, <2>2 DEF Holds
<1>9. LeftOut'
  <2>1. Recent' >= Recent /\ Recent' >= next + 1 - cap /\ Recent \in Nat /\ Recent' \in Nat
    <3> DEFINE first == IF snapshot = NoSnapshot \/ snapshot.upTo < cleared THEN cleared
                        ELSE snapshot.upTo + 1
    <3>1. first \in Nat BY <1>2 DEF SnapInv, SnapTypes
    <3>2. Recent = IF next - first > cap THEN next - cap ELSE first BY <1>2 DEF Recent, cap
    <3>3. Recent' = IF next + 1 - first > cap THEN next + 1 - cap ELSE first
      <4>1. snapshot' = snapshot /\ cleared' = cleared /\ opt'.capacity = cap BY <1>1 DEF cap
      <4>2. Len(log') = next + 1 BY <1>5
      <4> DEFINE after == next + 1
      <4>3. Recent' = IF after - first > cap THEN after - cap ELSE first
        <5> HIDE DEF after
        <5>1. Len(log') = after BY <4>2 DEF after
        <5> QED BY <4>1, <5>1 DEF Recent
      <4>4. after - first = next + 1 - first /\ after - cap = next + 1 - cap BY <1>2, <3>1
      <4> QED BY <4>3, <4>4
    <3> HIDE DEF first
    <3> QED BY <1>2, <3>1, <3>2, <3>3
  <2>2. ASSUME NEW p \in Recent' .. Offset' - 1 PROVE log'[p + 1].tool
    <3>1. n < cap /\ p \in Recent .. Offset - 1 /\ p + 1 \in 1 .. next
      BY <1>2, <1>4, <1>7, <2>1, SMTT(20) DEF Offset, n
    <3>2. log[p + 1].tool BY <3>1 DEF SnapInv, LeftOut
    <3> QED BY <1>5, <3>1, <3>2
  <2> QED BY <2>2 DEF LeftOut
<1> QED BY <1>1, <1>6, <1>8, <1>9 DEF SnapInv

\* Steps of the callers that leave buffer, log and snapshot as they are.
LEMMA SnapFrame ==
    ASSUME SnapInv, UNCHANGED <<ring, next, snapshot, opt, log, cleared>>,
           DOMAIN call' = Callers, DOMAIN view' = Callers,
           \A c \in Callers : call'[c] = Idle \/ call'[c].at = "check",
           \A c \in Callers : \A j \in DOMAIN view'[c].tail : view'[c].tail[j].cursor \in Nat
    PROVE  SnapInv'
<1>1. Rings' = Rings BY DEF Rings
<1>2. SnapTypes' BY <1>1 DEF SnapInv, SnapTypes
<1>3. Offset' = Offset /\ Buffered' = Buffered BY DEF Offset, Buffered, RingGet
<1>4. Recent' = Recent BY DEF Recent
<1> QED BY <1>2, <1>3, <1>4 DEF SnapInv, Holds, LeftOut

LEMMA LoadSnapshotKeeps ==
    ASSUME SnapInv, NEW c \in Callers, LoadSnapshot(c) PROVE SnapInv'
<1>1. /\ view' = [view EXCEPT ![c] = [prev |-> snapshot, tail |-> Tail1]]
      /\ UNCHANGED <<ring, next, snapshot, opt, call, log, cleared>>
  BY DEF LoadSnapshot
<1>2. \A j \in DOMAIN Tail1 : Tail1[j].cursor \in Nat
  <2>1. snapshot = NoSnapshot \/ snapshot.upTo \in Nat BY DEF SnapInv, SnapTypes
  <2>2. Offset \in Nat /\ Buffered \in Seq(Msgs) BY OffsetIs DEF SnapInv
  <2>3. PICK start \in 0 .. Len(Buffered) : StartsTail(start, Buffered, Offset, snapshot)
    BY <2>1, <2>2, TailIs
  <2>4. Len(Buffered) \in Nat BY <2>2
  <2> QED BY <2>2, <2>3, <2>4 DEF StartsTail, Tail1
<1>3. DOMAIN view' = Callers /\ DOMAIN call' = Callers BY <1>1 DEF SnapInv, SnapTypes
<1>4. \A d \in Callers : \A j \in DOMAIN view'[d].tail : view'[d].tail[j].cursor \in Nat
  BY <1>1, <1>2 DEF SnapInv, SnapTypes
<1>5. \A d \in Callers : call'[d] = Idle \/ call'[d].at = "check"
  BY <1>1 DEF SnapInv, SnapTypes
<1> QED BY <1>1, <1>3, <1>4, <1>5, SnapFrame

LEMMA ClearKeeps ==
    ASSUME SnapInv, NEW c \in Callers, Clear(c) PROVE SnapInv'
<1>1. /\ ring' = EmptyRing /\ snapshot' = NoSnapshot /\ next' = next /\ cleared' = Len(log)
      /\ UNCHANGED <<opt, call, view, log>>
  BY DEF Clear, NextAfterClear
<1>2. EmptyRing \in Rings /\ EmptyRing.count = 0 /\ Rings' = Rings
  BY <1>1, EmptyRingIs DEF SnapInv, Rings
<1>3. next \in Nat /\ next = Len(log) BY DEF SnapInv, SnapTypes
<1>4. SnapTypes' BY <1>1, <1>2, <1>3 DEF SnapInv, SnapTypes
<1>5. Holds' BY <1>1, <1>2 DEF Holds
<1>6. Offset' = next BY <1>1, <1>2, <1>3 DEF Offset
<1>7. Recent' = next
  <2>1. opt'.capacity \in Nat /\ opt'.capacity > 0 BY <1>1, OptionsAre DEF SnapInv
  <2> QED BY <1>1, <1>3, <2>1 DEF Recent
<1>8. LeftOut' BY <1>3, <1>6, <1>7 DEF LeftOut
<1> QED BY <1>1, <1>4, <1>5, <1>8 DEF SnapInv

\* A snapshot that advances asks for no more messages than the last one.
LEMMA RecentAdvances ==
    ASSUME SnapInv, UNCHANGED <<opt, log, cleared>>,
           snapshot' # NoSnapshot, snapshot'.upTo \in Nat,
           snapshot = NoSnapshot \/ snapshot.upTo < snapshot'.upTo
    PROVE  /\ Recent \in Nat /\ Recent' \in Nat /\ Recent <= Recent'
           /\ cleared <= snapshot'.upTo => snapshot'.upTo < Recent'
<1> DEFINE cap == opt.capacity
           n == Len(log)
           first == IF snapshot = NoSnapshot \/ snapshot.upTo < cleared THEN cleared
                    ELSE snapshot.upTo + 1
           first1 == IF snapshot'.upTo < cleared THEN cleared ELSE snapshot'.upTo + 1
<1>1. cap \in Nat /\ n \in Nat /\ cleared \in 0 .. n BY OptionsAre DEF SnapInv, SnapTypes
<1>2. snapshot # NoSnapshot => snapshot.upTo \in Nat BY DEF SnapInv, SnapTypes
<1>3. Recent = IF n - first > cap THEN n - cap ELSE first BY DEF Recent
<1>4. Recent' = IF n - first1 > cap THEN n - cap ELSE first1
  <2>1. opt' = opt /\ log' = log /\ cleared' = cleared OBVIOUS
  <2> QED BY <2>1 DEF Recent
<1> HIDE DEF cap, n
<1>5. first \in Nat /\ first1 \in Nat /\ first <= first1
      /\ (cleared <= snapshot'.upTo => snapshot'.upTo < first1)
  BY <1>1, <1>2
<1> HIDE DEF first, first1
<1> QED BY <1>1, <1>3, <1>4, <1>5

LEMMA SaveSnapshotKeeps ==
    ASSUME NoSnapshotIsNone, SnapInv, NEW c \in Callers, SaveSnapshot(c) PROVE SnapInv'
<1>1. /\ view' = [view EXCEPT ![c] = NoView]
      /\ UNCHANGED <<next, opt, call, log, cleared>>
  BY DEF SaveSnapshot, bounds
<1>2. \A d \in Callers : \A j \in DOMAIN view'[d].tail : view'[d].tail[j].cursor \in Nat
  BY <1>1 DEF SnapInv, SnapTypes, NoView
<1>3. DOMAIN view' = Callers /\ DOMAIN call' = Callers
      /\ \A d \in Callers : call'[d] = Idle \/ call'[d].at = "check"
  BY <1>1 DEF SnapInv, SnapTypes
<1>4. CASE UNCHANGED <<snapshot, ring>> BY <1>1, <1>2, <1>3, <1>4, SnapFrame
<1>5. CASE ~UNCHANGED <<snapshot, ring>>
  <2>0. PICK upTo \in Nat : \E of :
            /\ Cutoff(snapshot, view[c].prev, upTo, next) = "ok"
            /\ snapshot' = [upTo |-> upTo, of |-> of]
            /\ LET tail == Tail_(Buffered, Offset, [upTo |-> upTo, of |-> of])
               IN  ring' = IF opt.prune THEN RingReplace([j \in DOMAIN tail |-> tail[j].message])
                           ELSE ring
    <3>1. PICK i \in DOMAIN view[c].tail :
              LET prev == view[c].prev
                  upTo == view[c].tail[i].cursor
                  said == Said([j \in 1 .. i |-> view[c].tail[j].message])
                  newer == [upTo |-> upTo,
                            of |-> (IF prev = NoSnapshot THEN <<>> ELSE prev.of) \o said]
                  tail == Tail_(Buffered, Offset, newer)
              IN  /\ Cutoff(snapshot, prev, upTo, next) = "ok"
                  /\ snapshot' = newer
                  /\ ring' = IF opt.prune THEN RingReplace([j \in DOMAIN tail |-> tail[j].message])
                             ELSE ring
      BY <1>5 DEF SaveSnapshot
    <3>2. view[c].tail[i].cursor \in Nat BY DEF SnapInv, SnapTypes
    <3> QED BY <3>1, <3>2
  <2>1. PICK of :
            /\ Cutoff(snapshot, view[c].prev, upTo, next) = "ok"
            /\ snapshot' = [upTo |-> upTo, of |-> of]
            /\ LET tail == Tail_(Buffered, Offset, [upTo |-> upTo, of |-> of])
               IN  ring' = IF opt.prune THEN RingReplace([j \in DOMAIN tail |-> tail[j].message])
                           ELSE ring
    BY <2>0
  <2> DEFINE newer == [upTo |-> upTo, of |-> of]
  <2>2. newer # NoSnapshot /\ newer.upTo = upTo /\ snapshot' = newer BY <2>1 DEF NoSnapshotIsNone
  <2>3. upTo < next /\ (snapshot = NoSnapshot \/ snapshot.upTo < upTo)
    BY <2>1 DEF Cutoff, SnapInv, SnapTypes
  <2> HIDE DEF newer
  <2>4. /\ Recent \in Nat /\ Recent' \in Nat /\ Recent <= Recent'
        /\ cleared <= upTo => upTo < Recent'
    BY <1>1, <2>2, <2>3, RecentAdvances
  <2>5. Rings' = Rings BY <1>1 DEF Rings
  <2>6. (snapshot = NoSnapshot \/ snapshot.upTo \in 0 .. next - 1)'
    BY <1>1, <2>2, <2>3 DEF SnapInv, SnapTypes
  <2>7. CASE ~opt.prune
    <3>1. ring' = ring BY <2>1, <2>7
    <3>2. SnapTypes' BY <1>1, <1>2, <1>3, <2>5, <2>6, <3>1 DEF SnapInv, SnapTypes
    <3>3. Offset' = Offset /\ Buffered' = Buffered BY <1>1, <3>1 DEF Offset, Buffered, RingGet
    <3>4. Offset \in Nat BY OffsetIs DEF SnapInv
    <3>5. LeftOut' BY <1>1, <2>4, <3>3, <3>4 DEF SnapInv, LeftOut
    <3>6. Holds' BY <1>1, <3>1, <3>3 DEF SnapInv, Holds
    <3> QED BY <1>1, <3>2, <3>5, <3>6 DEF SnapInv
  <2>8. CASE opt.prune
    <3> DEFINE o == Offset
               b == Buffered
               n == ring.count
               tail == Tail_(b, o, newer)
               kept == [j \in DOMAIN tail |-> tail[j].message]
    <3>1. /\ o \in Nat /\ n \in Nat /\ o + n = next /\ cleared \in Nat /\ cleared <= o
          /\ b \in Seq(Msgs) /\ Len(b) = n /\ n <= opt.capacity /\ next \in Nat
      BY OffsetIs DEF SnapInv, SnapTypes, Rings
    <3>2. ring' = RingReplace(kept) BY <2>1, <2>8 DEF newer
    <3>3. \A j \in 1 .. n : b[j] = log[o + j] BY DEF SnapInv, Holds
    <3>4. \A p \in Recent .. o - 1 : log[p + 1].tool BY DEF SnapInv, LeftOut
    <3>5. opt \in Options BY DEF SnapInv
    <3> HIDE DEF o, b, n
    <3>6. PICK start \in 0 .. Len(b) : StartsTail(start, b, o, newer)
      BY <2>2, <3>1, TailIs
    <3>7. /\ tail = [j \in 1 .. n - start |->
                        [message |-> b[start + j], cursor |-> o + start + j - 1]]
          /\ \A j \in 1 .. start : upTo < o + j - 1 => b[j].tool
      BY <2>2, <3>1, <3>6 DEF StartsTail
    <3>8. kept = [j \in 1 .. n - start |-> b[start + j]] BY <3>7
    <3>9. kept \in Seq(Msgs) /\ Len(kept) = n - start
      <4>1. n - start \in Nat /\ \A j \in 1 .. n - start : b[start + j] \in Msgs BY <3>1
      <4>2. kept \in [1 .. n - start -> Msgs] BY <3>8, <4>1
      <4> HIDE DEF kept
      <4> QED BY <4>1, <4>2, SeqDef
    <3> HIDE DEF kept
    <3>10. /\ ring' \in Rings /\ ring'.count = n - start /\ RingGet(ring') = kept
      <4>1. Len(kept) <= opt.capacity /\ kept \in Seq(Msgs) BY <3>1, <3>9, OptionsAre, <3>5
      <4>2. /\ RingReplace(kept) \in Rings /\ RingReplace(kept).count = Len(kept)
            /\ RingGet(RingReplace(kept)) = kept
        BY <3>5, <4>1, RingReplaceIs
      <4> QED BY <3>2, <3>9, <4>2
    <3>11. Offset' = o + start BY <1>1, <3>1, <3>10 DEF Offset
    <3>12. Buffered' = kept BY <1>1, <3>10 DEF Buffered, RingGet
    <3>13. SnapTypes'
      <4>1. ring' \in Rings' /\ ring'.count <= next' - cleared' BY <1>1, <2>5, <3>1, <3>10
      <4> QED BY <1>1, <1>2, <1>3, <2>6, <4>1 DEF SnapInv, SnapTypes
    <3>14. Holds'
      <4>1. ASSUME NEW j \in 1 .. n - start PROVE kept[j] = log[o + start + j]
        <5>1. start + j \in 1 .. n /\ o + (start + j) = o + start + j BY <3>1
        <5> QED BY <3>3, <3>8, <5>1
      <4> QED BY <1>1, <3>10, <3>11, <3>12, <4>1 DEF Holds
    <3>15. LeftOut'
      <4>1. ASSUME NEW p \in Recent' .. o + start - 1 PROVE log[p + 1].tool
        <5>1. CASE p < o BY <2>4, <3>1, <3>4, <5>1
        <5>2. CASE p >= o
          <6> DEFINE j == p + 1 - o
          <6>1. j \in 1 .. start /\ o + j = p + 1 /\ upTo < o + j - 1
            BY <2>4, <3>1, <5>2
          <6> HIDE DEF j
          <6>2. b[j].tool BY <3>7, <6>1
          <6>3. b[j] = log[o + j] BY <3>1, <3>3, <6>1
          <6> QED BY <6>1, <6>2, <6>3
        <5> QED BY <2>4, <3>1, <5>1, <5>2
      <4>2. log' = log BY <1>1
      <4>3. Offset' - 1 = o + start - 1 BY <3>1, <3>11
      <4>4. \A p \in Recent' .. Offset' - 1 : log'[p + 1].tool BY <4>1, <4>2, <4>3
      <4> HIDE DEF o
      <4> QED BY <4>4 DEF LeftOut
    <3> QED BY <1>1, <3>5, <3>13, <3>14, <3>15 DEF SnapInv
  <2> QED BY <2>7, <2>8
<1> QED BY <1>4, <1>5

LEMMA SimpleStarts == Init => SimpleInv
<1> SUFFICES ASSUME Init PROVE SimpleInv OBVIOUS
<1>1. /\ opt \in Options /\ ring = EmptyRing /\ next = 0 /\ snapshot = NoSnapshot
      /\ call = [c \in Callers |-> Idle] /\ view = [c \in Callers |-> NoView]
      /\ log = <<>> /\ cleared = 0
  BY DEF Init
<1>2. ring \in Rings /\ ring.count = 0 BY <1>1, EmptyRingIs
<1>3. log \in Seq(Msgs) /\ Len(log) = 0 BY <1>1
<1>4. \A c \in Callers : \A i \in DOMAIN view[c].tail : view[c].tail[i].cursor \in Nat
  BY <1>1 DEF NoView
<1>5. SnapTypes BY <1>1, <1>2, <1>3, <1>4 DEF SnapTypes
<1>6. Holds BY <1>2 DEF Holds
<1>7. Offset = 0 BY <1>1, <1>2 DEF Offset
<1>8. Recent \in Nat BY <1>1, <1>5, RecentIs
<1>9. LeftOut BY <1>7, <1>8 DEF LeftOut
<1> QED BY <1>1, <1>5, <1>6, <1>9 DEF SimpleInv, SnapInv

LEMMA SimpleStep ==
    ASSUME NoSnapshotIsNone, SimpleInv, [Next]_vars PROVE SimpleInv'
<1>1. opt' = opt
  <2>1. CASE UNCHANGED vars BY <2>1 DEF vars
  <2>2. CASE Next
    <3>1. PICK c \in Callers :
              \/ SaveAdd(c) \/ SaveCheck(c) \/ SaveGet(c) \/ SaveReplace(c) \/ SummaryFails(c)
              \/ LoadSnapshot(c) \/ SaveSnapshot(c) \/ Clear(c)
      BY <2>2 DEF Next
    <3> QED BY <3>1 DEF SaveAdd, SaveCheck, SaveGet, SaveReplace, SummaryFails,
                        LoadSnapshot, SaveSnapshot, Clear
  <2> QED BY <2>1, <2>2
<1>2. opt \in Options BY DEF SimpleInv
<1>3. ASSUME opt.threshold = 0 PROVE SnapInv'
  <2>1. SnapInv BY <1>3 DEF SimpleInv
  <2>2. CASE UNCHANGED vars
    <3>1. /\ UNCHANGED <<ring, next, snapshot, opt, log, cleared>>
          /\ call' = call /\ view' = view
      BY <2>2 DEF vars
    <3>2. /\ DOMAIN call' = Callers /\ DOMAIN view' = Callers
          /\ \A c \in Callers : call'[c] = Idle \/ call'[c].at = "check"
          /\ \A c \in Callers : \A j \in DOMAIN view'[c].tail : view'[c].tail[j].cursor \in Nat
      BY <2>1, <3>1 DEF SnapInv, SnapTypes
    <3> QED BY <2>1, <3>1, <3>2, SnapFrame
  <2>3. CASE Next
    <3>1. PICK c \in Callers :
              \/ SaveAdd(c) \/ SaveCheck(c) \/ SaveGet(c) \/ SaveReplace(c) \/ SummaryFails(c)
              \/ LoadSnapshot(c) \/ SaveSnapshot(c) \/ Clear(c)
      BY <2>3 DEF Next
    <3>2. call[c].at = "idle" \/ call[c].at = "check"
      BY <2>1 DEF SnapInv, SnapTypes, Idle
    <3>3. ~SaveGet(c) /\ ~SaveReplace(c) /\ ~SummaryFails(c)
      BY <3>2 DEF SaveGet, SaveReplace, SummaryFails
    <3>4. CASE SaveAdd(c) BY <2>1, <3>4, SaveAddKeeps
    <3>5. CASE SaveCheck(c)
      <4>1. /\ call' = [call EXCEPT ![c] = Idle]
            /\ UNCHANGED <<ring, next, snapshot, opt, view, log, cleared>>
        BY <1>3, <3>5 DEF SaveCheck
      <4>2. /\ DOMAIN call' = Callers /\ DOMAIN view' = Callers
            /\ \A d \in Callers : call'[d] = Idle \/ call'[d].at = "check"
            /\ \A d \in Callers : \A j \in DOMAIN view'[d].tail : view'[d].tail[j].cursor \in Nat
        BY <2>1, <4>1 DEF SnapInv, SnapTypes
      <4> QED BY <2>1, <4>1, <4>2, SnapFrame
    <3>6. CASE LoadSnapshot(c) BY <2>1, <3>6, LoadSnapshotKeeps
    <3>7. CASE SaveSnapshot(c) BY <2>1, <3>7, SaveSnapshotKeeps
    <3>8. CASE Clear(c) BY <2>1, <3>8, ClearKeeps
    <3> QED BY <3>1, <3>3, <3>4, <3>5, <3>6, <3>7, <3>8
  <2> QED BY <2>2, <2>3
<1> QED BY <1>1, <1>2, <1>3 DEF SimpleInv

\* memory/simple: a cursor names the same message for ever, though the ring moves
\* its messages with each eviction, pruning and Clear, and what LoadSnapshot returns
\* is everything said since Clear that the snapshot does not stand for, but for what
\* a full buffer evicted and the tool results left in front without their call.  A
\* nil *Snapshot is not a snapshot.
THEOREM CursorsStayTrue ==
    ASSUME NoSnapshotIsNone
    PROVE  Spec => [](CursorsAreStable /\ TailIsWhole)
<1>1. SimpleInv => CursorsAreStable /\ TailIsWhole
  <2>1. CASE opt.threshold = 0 BY <2>1, HoldsTail DEF SimpleInv, SnapInv
  <2>2. CASE opt.threshold # 0 BY <2>2 DEF CursorsAreStable, TailIsWhole
  <2> QED BY <2>1, <2>2
<1>2. SimpleInv /\ [Next]_vars => SimpleInv' BY SimpleStep
<1> QED BY <1>1, <1>2, SimpleStarts, PTL DEF Spec

=============================================================================
