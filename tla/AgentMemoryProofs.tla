-------------------------- MODULE AgentMemoryProofs --------------------------
(***************************************************************************)
(* Proofs about what the runs of an agent leave in a memory, for any       *)
(* number of runs, rounds, compactions and failures: that it has each      *)
(* message once and no tool call without its results, of runs in turn and  *)
(* of runs that overlap, and that the user's task stays in sight.          *)
(***************************************************************************)
EXTENDS AgentProofs

-----------------------------------------------------------------------------
(* The inductive invariant, of runs in turn and of runs that overlap. *)

\* Messages that know whether they are tool results, those of one run, and the user's.
Marked == {m \in RealMessages : m.tool <=> m.kind = "tool"}
SpokenBy(r) == {m \in Marked : Author(m) = r}
UserMessages == {m \in Marked : m.kind = "user"}

\* Snapshots pin the user's messages only.
Memos == [of : Seq(MessageIds), pinned : Seq(UserMessages), upTo : Int]
Planned == [next : {"llm", "loop"}, kept : Seq(Marked), upTo : Int, snapshot : Memos]

Active == Saving \cup Storing

\* What a session starts with.
Opening(s) == <<System>> \o SummaryMessages(s)

\* The session of a run, and the messages it has not saved yet: no call in them is
\* without its results.
SessionIs(r) ==
    /\ rs[r].snapshot \in Memos \cup {NoSnapshot}
    /\ said[r] \in Seq(SpokenBy(r))
    /\ pc[r] \in Active =>
           /\ rs[r].savedTo \in 0 .. Len(session[r])
           /\ session[r] = Opening(rs[r].snapshot) \o TailOf(r)
           /\ TailOf(r) \in Seq(Marked) /\ Paired(TailOf(r))
    /\ pc[r] \in Active \cup {"finish"} =>
           Unsaved(r) \in Seq(SpokenBy(r)) /\ Paired(Unsaved(r))
    /\ pc[r] = "compact" => plan[r].next \in {"llm", "loop"}
    /\ pc[r] \in {"compactSave"} \cup Storing =>
           plan[r] \in Planned /\ Paired(plan[r].kept)

\* What a run said is what it saved, then what it has not saved yet; nothing is saved
\* of a session that a compaction is about to replace.
SavedIs(r) ==
    /\ lost = 0 =>
           /\ pc[r] = "new" => said[r] = <<>> /\ SavedBy(r) = <<>>
           /\ pc[r] \in Saving \cup {"finish"} => said[r] = SavedBy(r) \o Unsaved(r)
           /\ pc[r] \in Storing => said[r] = SavedBy(r)
           /\ pc[r] = "ended" =>
                  /\ IsPrefix(SavedBy(r), said[r])
                  /\ ~rs[r].saveFailed => SavedBy(r) = said[r]
    /\ pc[r] = "new" => rs[r].rounds = 0
    /\ Checkpoint /\ pc[r] \in {"loop", "llm", "compact", "compactSave"} /\ rs[r].rounds > 0 =>
           Unsaved(r) = <<>>

KeepInv ==
    /\ RunTypes /\ lost \in Nat
    /\ log \in Seq(Marked) /\ Paired(log) /\ latest \in Memos \cup {NoSnapshot}
    /\ \A r \in Runs : SessionIs(r) /\ SavedIs(r)

-----------------------------------------------------------------------------
(* What is picked of two sequences, one after the other. *)

LEMMA PickedBoth ==
    ASSUME NEW T, NEW s \in Seq(T), NEW t \in Seq(T), NEW I, NEW J, NEW K,
           \A i \in 1 .. Len(s) : i \in K <=> i \in I,
           \A i \in 1 .. Len(t) : Len(s) + i \in K <=> i \in J
    PROVE  Picked(s \o t, K) = Picked(s, I) \o Picked(t, J)
<1> DEFINE n == Len(s)
           m == Len(t)
           u == s \o t
<1>0. Associative(Seq(T)) BY Joined
<1>1. n \in Nat /\ m \in Nat /\ u \in Seq(T) /\ Len(u) = n + m BY ConcatProperties
<1>2. (\A i \in 1 .. n : u[i] = s[i]) /\ (\A i \in 1 .. m : u[n + i] = t[i]) OBVIOUS
<1>3. PICK f \in [0 .. n -> Seq(T)] : IsPicking(f, s, I) /\ Picked(s, I) = f[n]
  <2>1. \A i \in 1 .. n : i \in I => s[i] \in T OBVIOUS
  <2> QED BY <1>1, <2>1, PickedBy
<1>4. PICK g \in [0 .. m -> Seq(T)] : IsPicking(g, t, J) /\ Picked(t, J) = g[m]
  <2>1. \A i \in 1 .. m : i \in J => t[i] \in T OBVIOUS
  <2> QED BY <1>1, <2>1, PickedBy
<1> HIDE DEF u
<1>5. PICK h \in [0 .. Len(u) -> Seq(T)] : IsPicking(h, u, K) /\ Picked(u, K) = h[Len(u)]
  <2>1. \A i \in 1 .. Len(u) : i \in K => u[i] \in T BY <1>1
  <2>2. Len(u) \in Nat BY <1>1
  <2> QED BY <2>1, <2>2, PickedBy
<1>6. f[0] = <<>> /\ \A i \in 1 .. n : f[i] = IF i \in I THEN Append(f[i - 1], s[i]) ELSE f[i - 1]
  BY <1>1, <1>3, PickingIs
<1>7. g[0] = <<>> /\ \A i \in 1 .. m : g[i] = IF i \in J THEN Append(g[i - 1], t[i]) ELSE g[i - 1]
  BY <1>1, <1>4, PickingIs
<1>8. /\ h[0] = <<>>
      /\ \A i \in 1 .. n + m : h[i] = IF i \in K THEN Append(h[i - 1], u[i]) ELSE h[i - 1]
  <2>1. Len(u) \in Nat BY <1>1
  <2>2. /\ h[0] = <<>>
        /\ \A i \in 1 .. Len(u) : h[i] = IF i \in K THEN Append(h[i - 1], u[i]) ELSE h[i - 1]
    BY <1>5, <2>1, PickingIs
  <2> QED BY <1>1, <2>2
<1>9. \A i \in 1 .. n : i \in K <=> i \in I OBVIOUS
<1>10. \A i \in 1 .. m : n + i \in K <=> i \in J OBVIOUS
<1> HIDE DEF n, m
<1>11. \A i \in 0 .. n : h[i] = f[i]
  <2> DEFINE Q == {i \in 0 .. n : h[i] = f[i]}
  <2>1. 0 \in Q BY <1>1, <1>6, <1>8
  <2>2. ASSUME NEW i \in 1 .. n, i - 1 \in Q PROVE i \in Q
    <3>1. i \in 1 .. n + m BY <1>1
    <3>2. h[i - 1] = f[i - 1] /\ u[i] = s[i] /\ (i \in K <=> i \in I) BY <1>2, <1>9, <2>2
    <3>3. h[i] = f[i] BY <1>6, <1>8, <3>1, <3>2
    <3> QED BY <3>3
  <2>3. \A i \in 0 .. n : i \in Q
    <3> HIDE DEF Q
    <3> QED BY <1>1, <2>1, <2>2, AllUpTo
  <2> QED BY <2>3
<1>12. f[n] \in Seq(T) BY <1>1, <1>3
<1>13. \A i \in 0 .. m : h[n + i] = f[n] \o g[i]
  <2> DEFINE Q == {i \in 0 .. m : h[n + i] = f[n] \o g[i]}
  <2>1. 0 \in Q
    <3>1. h[n + 0] = f[n] BY <1>1, <1>11
    <3>2. f[n] \o <<>> = f[n] BY <1>12, ConcatEmptySeq
    <3>3. h[n + 0] = f[n] \o g[0] BY <1>7, <3>1, <3>2
    <3>4. 0 \in 0 .. m BY <1>1
    <3> QED BY <3>3, <3>4
  <2>2. ASSUME NEW i \in 1 .. m, i - 1 \in Q PROVE i \in Q
    <3> DEFINE k == n + i
    <3>1. k \in 1 .. n + m /\ k - 1 = n + (i - 1) BY <1>1
    <3>2. u[k] = t[i] /\ (k \in K <=> i \in J) BY <1>2, <1>10
    <3> HIDE DEF k
    <3>3. h[k - 1] = f[n] \o g[i - 1] BY <2>2, <3>1
    <3>4. g[i - 1] \in Seq(T) /\ t[i] \in T
      <4>1. i - 1 \in 0 .. m BY <1>1
      <4>2. g \in [0 .. m -> Seq(T)] BY <1>4
      <4>3. t[i] \in T BY DEF m
      <4> QED BY <4>1, <4>2, <4>3
    <3>5. h[k] = f[n] \o g[i]
      <4>1. CASE i \in J
        <5>1. h[k] = Append(f[n] \o g[i - 1], t[i]) BY <1>8, <3>1, <3>2, <3>3, <4>1
        <5>2. g[i] = Append(g[i - 1], t[i]) BY <1>7, <4>1
        <5> DEFINE a == f[n]
                   b == g[i - 1]
                   x == t[i]
        <5>3. a \in Seq(T) /\ b \in Seq(T) /\ x \in T BY <1>12, <3>4
        <5> HIDE DEF a, b, x
        <5>4. a \o Append(b, x) = Append(a \o b, x) BY <5>3, AppendIsConcat, ConcatAssociative, SMTT(30)
        <5> QED BY <5>1, <5>2, <5>4 DEF a, b, x
      <4>2. CASE i \notin J
        <5>1. h[k] = f[n] \o g[i - 1] BY <1>8, <3>1, <3>2, <3>3, <4>2
        <5>2. g[i] = g[i - 1] BY <1>7, <4>2
        <5> QED BY <5>1, <5>2
      <4> QED BY <4>1, <4>2
    <3>6. i \in 0 .. m BY <1>1
    <3> QED BY <3>5, <3>6 DEF k
  <2>3. \A i \in 0 .. m : i \in Q
    <3> HIDE DEF Q
    <3> QED BY <1>1, <2>1, <2>2, AllUpTo
  <2> QED BY <2>3
<1>14. h[n + m] = f[n] \o g[m]
  <2>1. m \in 0 .. m BY <1>1
  <2> QED BY <1>13, <2>1
<1> QED BY <1>1, <1>3, <1>4, <1>5, <1>14 DEF n, m, u

LEMMA PickedNone ==
    ASSUME NEW T, NEW s \in Seq(T), NEW I, \A i \in 1 .. Len(s) : i \notin I
    PROVE  Picked(s, I) = <<>>
<1> DEFINE n == Len(s)
<1>1. n \in Nat OBVIOUS
<1>2. PICK f \in [0 .. n -> Seq(T)] : IsPicking(f, s, I) /\ Picked(s, I) = f[n]
  <2>1. \A i \in 1 .. n : i \in I => s[i] \in T OBVIOUS
  <2> QED BY <1>1, <2>1, PickedBy
<1>3. f[0] = <<>> /\ \A i \in 1 .. n : f[i] = IF i \in I THEN Append(f[i - 1], s[i]) ELSE f[i - 1]
  BY <1>1, <1>2, PickingIs
<1>4. \A i \in 1 .. n : i \notin I OBVIOUS
<1> HIDE DEF n
<1> DEFINE Q == {i \in 0 .. n : f[i] = <<>>}
<1>5. 0 \in Q BY <1>1, <1>3
<1>6. ASSUME NEW i \in 1 .. n, i - 1 \in Q PROVE i \in Q BY <1>3, <1>4, <1>6
<1>7. \A i \in 0 .. n : i \in Q
  <2> HIDE DEF Q
  <2> QED BY <1>1, <1>5, <1>6, AllUpTo
<1>8. f[n] = <<>> BY <1>1, <1>7
<1> QED BY <1>2, <1>8 DEF n

LEMMA ReplayableBoth ==
    ASSUME NEW s \in Seq(AnyMessages), NEW t \in Seq(AnyMessages)
    PROVE  Replayable(s \o t) = Replayable(s) \o Replayable(t)
<1> DEFINE I == {i \in DOMAIN s : s[i].kind # "empty"}
           J == {i \in DOMAIN t : t[i].kind # "empty"}
           K == {i \in DOMAIN (s \o t) : (s \o t)[i].kind # "empty"}
<1>1. /\ DOMAIN s = 1 .. Len(s) /\ DOMAIN t = 1 .. Len(t) /\ Len(s) \in Nat /\ Len(t) \in Nat
      /\ s \o t \in Seq(AnyMessages) /\ Len(s \o t) = Len(s) + Len(t)
      /\ DOMAIN (s \o t) = 1 .. Len(s) + Len(t)
      /\ \A i \in 1 .. Len(s) : (s \o t)[i] = s[i]
      /\ \A i \in 1 .. Len(t) : (s \o t)[Len(s) + i] = t[i]
  <2> HIDE DEF AnyMessages
  <2> QED OBVIOUS
<1>2. \A i \in 1 .. Len(s) : i \in K <=> i \in I BY <1>1
<1>3. \A i \in 1 .. Len(t) : Len(s) + i \in K <=> i \in J BY <1>1
<1>4. Replayable(s \o t) = Picked(s \o t, K) /\ Replayable(s) = Picked(s, I) /\ Replayable(t) = Picked(t, J)
  BY DEF Replayable
<1> HIDE DEF I, J, K
<1> QED BY <1>2, <1>3, <1>4, PickedBoth

-----------------------------------------------------------------------------
(* Messages of one run, and of a memory. *)

LEMMA MarkedAre ==
    /\ Marked \subseteq RealMessages /\ Marked \subseteq AnyMessages
    /\ \A s \in Seq(Marked) : s \in Seq(RealMessages) /\ s \in Seq(AnyMessages) /\ s \in MessagesType
<1>1. Marked \subseteq RealMessages BY DEF Marked
<1>2. RealMessages \subseteq AnyMessages BY RealAreMessages
<1>3. ASSUME NEW s \in Seq(Marked) PROVE s \in Seq(RealMessages) /\ s \in Seq(AnyMessages)
  BY <1>1, <1>2, SeqMonotonic
<1>4. MessagesType = Seq(AnyMessages) BY RealAreMessages
<1> QED BY <1>1, <1>2, <1>3, <1>4

LEMMA SpokenAre ==
    ASSUME NEW r PROVE SpokenBy(r) \subseteq Marked /\ \A s \in Seq(SpokenBy(r)) : s \in Seq(Marked)
<1>1. SpokenBy(r) \subseteq Marked BY DEF SpokenBy
<1>2. ASSUME NEW s \in Seq(SpokenBy(r)) PROVE s \in Seq(Marked) BY <1>1, SeqMonotonic
<1> QED BY <1>1, <1>2

LEMMA MarkedJoined == \A a, b, c \in Seq(Marked) : (a \o b) \o c = a \o (b \o c)
<1> DEFINE S == Seq(Marked)
<1>1. Associative(S) BY Joined
<1> HIDE DEF S
<1>2. \A a, b, c \in S : (a \o b) \o c = a \o (b \o c) BY <1>1 DEF Associative
<1> QED BY <1>2 DEF S

\* A save adds to what its run has saved, and to nothing else.
LEMMA SavedGrows ==
    ASSUME log \in Seq(Marked), NEW r \in Runs, NEW m \in Seq(SpokenBy(r)), log' = log \o m
    PROVE  /\ SavedBy(r)' = SavedBy(r) \o m
           /\ \A q \in Runs : q # r => SavedBy(q)' = SavedBy(q)
<1> DEFINE M == Marked
           I(q) == {i \in DOMAIN log : Author(log[i]) = q}
           J(q) == {i \in DOMAIN m : Author(m[i]) = q}
           K(q) == {i \in DOMAIN (log \o m) : Author((log \o m)[i]) = q}
<1>1. m \in Seq(M) BY SpokenAre
<1>2. /\ DOMAIN log = 1 .. Len(log) /\ DOMAIN m = 1 .. Len(m) /\ Len(log) \in Nat /\ Len(m) \in Nat
      /\ DOMAIN (log \o m) = 1 .. Len(log) + Len(m)
      /\ \A i \in 1 .. Len(log) : (log \o m)[i] = log[i]
      /\ \A i \in 1 .. Len(m) : (log \o m)[Len(log) + i] = m[i]
  <2> HIDE DEF M
  <2>1. log \in Seq(M) /\ m \in Seq(M) BY <1>1 DEF M
  <2> QED BY <2>1
<1>3. ASSUME NEW q PROVE Picked(log \o m, K(q)) = Picked(log, I(q)) \o Picked(m, J(q))
  <2>1. \A i \in 1 .. Len(log) : i \in K(q) <=> i \in I(q) BY <1>2
  <2>2. \A i \in 1 .. Len(m) : Len(log) + i \in K(q) <=> i \in J(q) BY <1>2
  <2> HIDE DEF I, J, K, M
  <2>3. log \in Seq(M) BY DEF M
  <2> QED BY <1>1, <2>1, <2>2, <2>3, PickedBoth
<1>4. ASSUME NEW q PROVE SavedBy(q) = Picked(log, I(q)) /\ SavedBy(q)' = Picked(log \o m, K(q))
  BY DEF SavedBy
<1>5. \A i \in 1 .. Len(m) : m[i] \in SpokenBy(r) OBVIOUS
<1>6. Picked(m, J(r)) = m
  <2>1. 1 .. Len(m) \subseteq J(r) BY <1>2, <1>5 DEF SpokenBy
  <2> HIDE DEF J, M
  <2> QED BY <1>1, <2>1, PickedAll
<1>7. ASSUME NEW q \in Runs, q # r PROVE SavedBy(q)' = SavedBy(q)
  <2>1. \A i \in 1 .. Len(m) : i \notin J(q) BY <1>2, <1>5, <1>7 DEF SpokenBy
  <2>2. Picked(log, I(q)) \in Seq(M)
    <3>1. \A i \in 1 .. Len(log) : i \in I(q) => log[i] \in M OBVIOUS
    <3> HIDE DEF I, M
    <3> QED BY <1>2, <3>1, PickedIsSeq
  <2> HIDE DEF I, J, K, M
  <2>3. Picked(m, J(q)) = <<>> BY <1>1, <2>1, PickedNone
  <2>4. Picked(log, I(q)) \o <<>> = Picked(log, I(q)) BY <2>2, ConcatEmptySeq
  <2> QED BY <1>3, <1>4, <2>3, <2>4
<1> HIDE DEF I, J, K
<1> QED BY <1>3, <1>4, <1>6, <1>7

LEMMA SavedIsSeq ==
    ASSUME log \in Seq(Marked), NEW r PROVE SavedBy(r) \in Seq(Marked)
<1> DEFINE I == {i \in DOMAIN log : Author(log[i]) = r}
<1>1. Len(log) \in Nat /\ \A i \in 1 .. Len(log) : i \in I => log[i] \in Marked OBVIOUS
<1>2. SavedBy(r) = Picked(log, I) BY DEF SavedBy
<1> HIDE DEF I
<1> QED BY <1>1, <1>2, PickedIsSeq

-----------------------------------------------------------------------------
(* Calls and their results. *)

Answered(messages, i) ==
    messages[i].kind = "call" =>
        \A j \in 1 .. CallsPerRound :
            /\ i + j \in DOMAIN messages
            /\ messages[i + j].kind = "tool"
            /\ messages[i + j].of[1] = <<Author(messages[i]), messages[i].of[1][2] + j>>
Called(messages, i) ==
    messages[i].kind = "tool" =>
        \E j \in 1 .. CallsPerRound : i - j >= 1 /\ messages[i - j].kind = "call"

LEMMA PairedIs ==
    ASSUME NEW messages
    PROVE  Paired(messages) <=> \A i \in DOMAIN messages : Answered(messages, i) /\ Called(messages, i)
BY DEF Paired, Answered, Called

LEMMA PairedBoth ==
    ASSUME NEW s \in Seq(Marked), NEW t \in Seq(Marked), Paired(s), Paired(t)
    PROVE  Paired(s \o t) /\ s \o t \in Seq(Marked)
<1> DEFINE n == Len(s)
           m == Len(t)
           u == s \o t
<1>1. /\ n \in Nat /\ m \in Nat /\ u \in Seq(Marked) /\ DOMAIN s = 1 .. n /\ DOMAIN t = 1 .. m
      /\ DOMAIN u = 1 .. n + m
      /\ \A i \in 1 .. n : u[i] = s[i]
      /\ \A i \in 1 .. m : u[n + i] = t[i]
  <2> HIDE DEF Marked
  <2> QED OBVIOUS
<1> HIDE DEF n, m, u
<1>2. CallsPerRound \in Nat BY RunConstants
<1>3. ASSUME NEW i \in 1 .. n PROVE Answered(u, i) /\ Called(u, i)
  <2>1. Answered(s, i) /\ Called(s, i) /\ u[i] = s[i] BY <1>1, PairedIs
  <2>2. Answered(u, i)
    <3> SUFFICES ASSUME s[i].kind = "call", NEW j \in 1 .. CallsPerRound
                 PROVE  /\ i + j \in DOMAIN u /\ u[i + j].kind = "tool"
                        /\ u[i + j].of[1] = <<Author(u[i]), u[i].of[1][2] + j>>
      BY <2>1 DEF Answered
    <3>1. /\ i + j \in 1 .. n /\ s[i + j].kind = "tool"
          /\ s[i + j].of[1] = <<Author(s[i]), s[i].of[1][2] + j>>
      BY <1>1, <2>1 DEF Answered
    <3>2. u[i + j] = s[i + j] /\ i + j \in 1 .. n + m BY <1>1, <3>1
    <3> QED BY <1>1, <2>1, <3>1, <3>2
  <2>3. Called(u, i)
    <3> SUFFICES ASSUME s[i].kind = "tool"
                 PROVE  \E j \in 1 .. CallsPerRound : i - j >= 1 /\ u[i - j].kind = "call"
      BY <2>1 DEF Called
    <3>1. PICK j \in 1 .. CallsPerRound : i - j >= 1 /\ s[i - j].kind = "call" BY <2>1 DEF Called
    <3>2. i - j \in 1 .. n BY <1>1, <1>2, <3>1
    <3> QED BY <1>1, <3>1, <3>2
  <2> QED BY <2>2, <2>3
<1>4. ASSUME NEW k \in 1 .. m PROVE Answered(u, n + k) /\ Called(u, n + k)
  <2>1. Answered(t, k) /\ Called(t, k) /\ u[n + k] = t[k] BY <1>1, PairedIs
  <2>2. Answered(u, n + k)
    <3> SUFFICES ASSUME t[k].kind = "call", NEW j \in 1 .. CallsPerRound
                 PROVE  /\ n + k + j \in DOMAIN u /\ u[n + k + j].kind = "tool"
                        /\ u[n + k + j].of[1] = <<Author(u[n + k]), u[n + k].of[1][2] + j>>
      BY <2>1 DEF Answered
    <3>1. /\ k + j \in 1 .. m /\ t[k + j].kind = "tool"
          /\ t[k + j].of[1] = <<Author(t[k]), t[k].of[1][2] + j>>
      BY <1>1, <2>1 DEF Answered
    <3>2. n + k + j = n + (k + j) /\ n + (k + j) \in 1 .. n + m BY <1>1, <3>1
    <3>3. u[n + (k + j)] = t[k + j] BY <1>1, <3>1
    <3> QED BY <1>1, <2>1, <3>1, <3>2, <3>3
  <2>3. Called(u, n + k)
    <3> SUFFICES ASSUME t[k].kind = "tool"
                 PROVE  \E j \in 1 .. CallsPerRound : (n + k) - j >= 1 /\ u[(n + k) - j].kind = "call"
      BY <2>1 DEF Called
    <3>1. PICK j \in 1 .. CallsPerRound : k - j >= 1 /\ t[k - j].kind = "call" BY <2>1 DEF Called
    <3>2. k - j \in 1 .. m /\ (n + k) - j = n + (k - j) /\ n + (k - j) >= 1 BY <1>1, <1>2, <3>1
    <3>3. u[n + (k - j)] = t[k - j] BY <1>1, <3>2
    <3> QED BY <3>1, <3>2, <3>3
  <2> QED BY <2>2, <2>3
<1>5. ASSUME NEW i \in 1 .. n + m PROVE Answered(u, i) /\ Called(u, i)
  <2>1. CASE i <= n
    <3>1. i \in 1 .. n BY <1>1, <2>1
    <3> QED BY <1>3, <3>1
  <2>2. CASE i > n
    <3> DEFINE k == i - n
    <3>1. k \in 1 .. m /\ i = n + k BY <1>1, <2>2
    <3> HIDE DEF k
    <3> QED BY <1>4, <3>1
  <2>3. i <= n \/ i > n BY <1>1
  <2> QED BY <2>1, <2>2, <2>3, Zenon
<1> QED BY <1>1, <1>5, PairedIs DEF u

\* A call and its results are on the same side of a cut that no result follows.
LEMMA PairedEnd ==
    ASSUME NEW s \in Seq(Marked), NEW t \in Seq(Marked), Paired(s \o t), StartsWhole(t)
    PROVE  Paired(t)
<1> DEFINE n == Len(s)
           m == Len(t)
           u == s \o t
<1>1. /\ n \in Nat /\ m \in Nat /\ DOMAIN t = 1 .. m /\ DOMAIN u = 1 .. n + m
      /\ \A i \in 1 .. m : u[n + i] = t[i] /\ t[i] \in Marked
  <2> HIDE DEF Marked
  <2> QED OBVIOUS
<1>2. \A i \in 1 .. n + m : Answered(u, i) /\ Called(u, i) BY <1>1, PairedIs
<1>3. CallsPerRound \in Nat BY RunConstants
<1>4. m > 0 => t[1].kind # "tool"
  <2>1. m > 0 => t # <<>> /\ t[1] \in Marked BY <1>1
  <2> QED BY <2>1 DEF StartsWhole, Marked
<1> HIDE DEF n, m, u
<1>5. ASSUME NEW k \in 1 .. m PROVE Answered(t, k) /\ Called(t, k)
  <2>1. n + k \in 1 .. n + m /\ u[n + k] = t[k] BY <1>1
  <2>2. Answered(u, n + k) /\ Called(u, n + k) BY <1>2, <2>1
  <2>3. Answered(t, k)
    <3> SUFFICES ASSUME t[k].kind = "call", NEW j \in 1 .. CallsPerRound
                 PROVE  /\ k + j \in DOMAIN t /\ t[k + j].kind = "tool"
                        /\ t[k + j].of[1] = <<Author(t[k]), t[k].of[1][2] + j>>
      BY DEF Answered
    <3>1. /\ n + k + j \in 1 .. n + m /\ u[n + k + j].kind = "tool"
          /\ u[n + k + j].of[1] = <<Author(u[n + k]), u[n + k].of[1][2] + j>>
      BY <1>1, <2>1, <2>2 DEF Answered
    <3>2. n + k + j = n + (k + j) /\ k + j \in 1 .. m BY <1>1, <1>3, <3>1
    <3>3. u[n + (k + j)] = t[k + j] BY <1>1, <3>2
    <3> QED BY <1>1, <2>1, <3>1, <3>2, <3>3
  <2>4. Called(t, k)
    <3> SUFFICES ASSUME t[k].kind = "tool"
                 PROVE  \E j \in 1 .. CallsPerRound : k - j >= 1 /\ t[k - j].kind = "call"
      BY DEF Called
    <3>1. PICK j \in 1 .. CallsPerRound : (n + k) - j >= 1 /\ u[(n + k) - j].kind = "call"
      BY <2>1, <2>2 DEF Called
    <3>2. CASE k - j >= 1
      <4>1. k - j \in 1 .. m /\ (n + k) - j = n + (k - j) BY <1>1, <1>3, <3>2
      <4>2. u[n + (k - j)] = t[k - j] BY <1>1, <4>1
      <4> QED BY <3>1, <3>2, <4>1, <4>2
    <3>3. CASE k - j < 1
      <4> DEFINE p == (n + k) - j
                 d == n + 1 - p
      <4>1. p \in 1 .. n + m /\ d \in 1 .. CallsPerRound /\ p + d = n + 1 BY <1>1, <1>3, <3>1, <3>3
      <4> HIDE DEF d
      <4>2. Answered(u, p) /\ u[p].kind = "call" BY <1>2, <3>1, <4>1
      <4> HIDE DEF p
      <4>3. u[p + d].kind = "tool" BY <4>1, <4>2 DEF Answered
      <4>4. m > 0 /\ u[n + 1] = t[1] BY <1>1
      <4>5. u[n + 1].kind = "tool" BY <4>1, <4>3
      <4> QED BY <1>4, <4>4, <4>5
    <3>4. k - j >= 1 \/ k - j < 1 BY <1>3
    <3> QED BY <3>2, <3>3, <3>4
  <2> QED BY <2>3, <2>4
<1> QED BY <1>1, <1>5, PairedIs

LEMMA PairedPlain ==
    ASSUME NEW s \in Seq(Marked), \A i \in 1 .. Len(s) : s[i].kind \notin {"call", "tool"}
    PROVE  Paired(s)
<1>1. DOMAIN s = 1 .. Len(s) OBVIOUS
<1> QED BY <1>1 DEF Paired

LEMMA PairedNothing == Paired(<<>>)
<1>1. <<>> \in Seq(Marked) /\ Len(<<>>) = 0 OBVIOUS
<1>2. \A i \in 1 .. Len(<<>>) : FALSE BY <1>1
<1> QED BY <1>1, <1>2, PairedPlain

\* What a session starts with.
LEMMA OpeningIs ==
    ASSUME NEW s \in Memos \cup {NoSnapshot}
    PROVE  /\ Opening(s) \in Seq(Marked) /\ Paired(Opening(s))
           /\ Len(Opening(s)) = 1 + Len(SummaryMessages(s)) /\ Len(SummaryMessages(s)) \in Nat
           /\ SummaryMessages(s) \in Seq(Marked)
<1> DEFINE F == {m \in Marked : m.kind \notin {"call", "tool"}}
<1>1. System \in F
  <2>1. <<>> \in Seq(MessageIds) OBVIOUS
  <2> QED BY <2>1 DEF System, Marked, RealMessages
<1>2. SummaryMessages(s) \in Seq(F)
  <2>1. CASE s = NoSnapshot BY <2>1 DEF SummaryMessages
  <2>2. CASE s # NoSnapshot
    <3> DEFINE m == [of |-> s.of, tool |-> FALSE, kind |-> "summary"]
    <3>1. s.of \in Seq(MessageIds) /\ s.pinned \in Seq(UserMessages) BY <2>2 DEF Memos
    <3>2. m \in F BY <3>1 DEF Marked, RealMessages
    <3>3. s.pinned \in Seq(F)
      <4>1. UserMessages \subseteq F BY DEF UserMessages
      <4> HIDE DEF F
      <4> QED BY <3>1, <4>1, SeqMonotonic
    <3>4. SummaryMessages(s) = <<m>> \o s.pinned BY <2>2 DEF SummaryMessages
    <3> HIDE DEF m, F
    <3> QED BY <3>2, <3>3, <3>4
  <2> QED BY <2>1, <2>2
<1>3. F \subseteq Marked OBVIOUS
<1>4. \A m \in F : m.kind \notin {"call", "tool"} OBVIOUS
<1> DEFINE a == System
           b == SummaryMessages(s)
<1> HIDE DEF F, a, b
<1>5. /\ <<a>> \o b \in Seq(F) /\ Len(b) \in Nat /\ Len(<<a>> \o b) = 1 + Len(b)
      /\ \A i \in 1 .. Len(<<a>> \o b) : (<<a>> \o b)[i] \in F
  BY <1>1, <1>2 DEF a, b
<1>6. <<a>> \o b \in Seq(Marked) /\ b \in Seq(Marked)
  <2>1. b \in Seq(F) BY <1>2 DEF b
  <2> QED BY <1>3, <1>5, <2>1, SeqMonotonic
<1>7. Opening(s) = <<a>> \o b BY DEF Opening, a, b
<1>8. Paired(Opening(s)) BY <1>4, <1>5, <1>6, <1>7, PairedPlain
<1> QED BY <1>5, <1>6, <1>7, <1>8 DEF b

-----------------------------------------------------------------------------
(* A step of one run. *)

Places == Idle \cup Active \cup {"finish"}

OnlyMoves(r, to) ==
    /\ to \in Places /\ Goes(r, to)
    /\ session' = session \/ \E s \in Seq(AnyMessages) : session' = [session EXCEPT ![r] = s]
    /\ said' = said \/ \E s \in Seq(RealMessages) : said' = [said EXCEPT ![r] = s]
    /\ rs' = rs \/ \E s \in RunStates : rs' = [rs EXCEPT ![r] = s]
    /\ plan' = plan \/ \E p \in Plans : plan' = [plan EXCEPT ![r] = p]

\* The other runs stay as they are.
LEMMA OthersStay ==
    ASSUME RunTypes, NEW r \in Runs, NEW to, OnlyMoves(r, to)
    PROVE  /\ pc'[r] = to
           /\ \A q \in Runs : q # r =>
                  /\ pc'[q] = pc[q] /\ session'[q] = session[q] /\ said'[q] = said[q]
                  /\ rs'[q] = rs[q] /\ plan'[q] = plan[q]
<1> DEFINE P == Idle \cup Saving \cup Storing \cup {"finish"}
           M == MessagesType
           S == Seq(RealMessages)
           A == Seq(AnyMessages)
<1>1. /\ pc \in [Runs -> P] /\ session \in [Runs -> M] /\ said \in [Runs -> S]
      /\ rs \in [Runs -> RunStates] /\ plan \in [Runs -> Plans]
  BY DEF RunTypes
<1>2. /\ pc' = [pc EXCEPT ![r] = to]
      /\ session' = session \/ \E s \in A : session' = [session EXCEPT ![r] = s]
      /\ said' = said \/ \E s \in S : said' = [said EXCEPT ![r] = s]
      /\ rs' = rs \/ \E s \in RunStates : rs' = [rs EXCEPT ![r] = s]
      /\ plan' = plan \/ \E p \in Plans : plan' = [plan EXCEPT ![r] = p]
  BY DEF OnlyMoves, Goes
<1> HIDE DEF P, M, S, A
<1>3. pc'[r] = to BY <1>1, <1>2
<1>4. ASSUME NEW q \in Runs, q # r PROVE pc'[q] = pc[q] /\ session'[q] = session[q] BY <1>1, <1>2, <1>4
<1>5. ASSUME NEW q \in Runs, q # r PROVE said'[q] = said[q] /\ rs'[q] = rs[q] BY <1>1, <1>2, <1>5
<1>6. ASSUME NEW q \in Runs, q # r PROVE plan'[q] = plan[q] BY <1>1, <1>2, <1>6
<1> QED BY <1>3, <1>4, <1>5, <1>6

LEMMA TypesMove ==
    ASSUME RunTypes, NEW r \in Runs, NEW to, OnlyMoves(r, to), log' \in Seq(RealMessages),
           latest' \in Snapshots \cup {NoSnapshot}
    PROVE  RunTypes'
<1>1. to \in Idle \cup Saving \cup Storing \cup {"finish"} BY DEF OnlyMoves, Places, Active
<1>2. /\ Goes(r, to)
      /\ session' = session \/ \E s \in Seq(AnyMessages) : session' = [session EXCEPT ![r] = s]
      /\ said' = said \/ \E s \in Seq(RealMessages) : said' = [said EXCEPT ![r] = s]
      /\ rs' = rs \/ \E s \in RunStates : rs' = [rs EXCEPT ![r] = s]
      /\ plan' = plan \/ \E p \in Plans : plan' = [plan EXCEPT ![r] = p]
  BY DEF OnlyMoves
<1> QED BY <1>1, <1>2, RunTypesKept

LEMMA MemosAre == Memos \subseteq Snapshots
<1>1. UserMessages \subseteq RealMessages BY DEF UserMessages, Marked
<1>2. ASSUME NEW s \in Seq(UserMessages) PROVE s \in Seq(RealMessages) BY <1>1, SeqMonotonic
<1> QED BY <1>2 DEF Memos, Snapshots

\* What a run keeps is changed by no other run.
LEMMA StillKept ==
    ASSUME NEW q \in Runs, SessionIs(q), SavedIs(q), pc'[q] = pc[q], session'[q] = session[q],
           said'[q] = said[q], rs'[q] = rs[q], plan'[q] = plan[q], SavedBy(q)' = SavedBy(q),
           lost' = 0 => lost = 0
    PROVE  (SessionIs(q) /\ SavedIs(q))'
<1>1. Unsaved(q)' = Unsaved(q) /\ TailOf(q)' = TailOf(q) BY DEF Unsaved, TailOf, TailStart
<1>2. SessionIs(q)' BY <1>1 DEF SessionIs
<1>3. SavedIs(q)' BY <1>1 DEF SavedIs
<1> QED BY <1>2, <1>3

LEMMA Moved ==
    ASSUME KeepInv, NEW r \in Runs, NEW to, OnlyMoves(r, to), lost' \in Nat, lost' = 0 => lost = 0,
           latest' \in Memos \cup {NoSnapshot},
           log' = log \/ (pc[r] \in Active \cup {"finish"} /\ log' = log \o Unsaved(r)),
           SessionIs(r)', SavedIs(r)'
    PROVE  KeepInv'
<1>1. RunTypes /\ log \in Seq(Marked) /\ Paired(log) /\ SessionIs(r) BY DEF KeepInv
<1>2. /\ log' \in Seq(Marked) /\ Paired(log')
      /\ \A q \in Runs : q # r => SavedBy(q)' = SavedBy(q)
  <2>1. CASE log' = log BY <1>1, <2>1 DEF SavedBy
  <2>2. CASE pc[r] \in Active \cup {"finish"} /\ log' = log \o Unsaved(r)
    <3> DEFINE m == Unsaved(r)
    <3>1. m \in Seq(SpokenBy(r)) /\ Paired(m) BY <1>1, <2>2 DEF SessionIs
    <3>2. log' = log \o m BY <2>2
    <3> HIDE DEF m
    <3>3. m \in Seq(Marked) BY <3>1, SpokenAre
    <3>4. log' \in Seq(Marked) /\ Paired(log') BY <1>1, <3>1, <3>2, <3>3, PairedBoth
    <3>5. \A q \in Runs : q # r => SavedBy(q)' = SavedBy(q) BY <1>1, <3>1, <3>2, SavedGrows
    <3> QED BY <3>4, <3>5
  <2> QED BY <2>1, <2>2
<1>3. RunTypes'
  <2>1. log' \in Seq(RealMessages) BY <1>2, MarkedAre
  <2>2. latest' \in Snapshots \cup {NoSnapshot} BY MemosAre
  <2> QED BY <1>1, <2>1, <2>2, TypesMove
<1>4. ASSUME NEW q \in Runs PROVE (SessionIs(q) /\ SavedIs(q))'
  <2>1. CASE q = r BY <2>1
  <2>2. CASE q # r
    <3>1. /\ pc'[q] = pc[q] /\ session'[q] = session[q] /\ said'[q] = said[q]
          /\ rs'[q] = rs[q] /\ plan'[q] = plan[q]
      BY <1>1, <2>2, OthersStay
    <3>2. SessionIs(q) /\ SavedIs(q) BY DEF KeepInv
    <3> QED BY <1>2, <2>2, <3>1, <3>2, StillKept
  <2> QED BY <2>1, <2>2
<1> QED BY <1>2, <1>3, <1>4 DEF KeepInv

\* The session that a run has, and how it grows.
LEMMA SessionFacts ==
    ASSUME KeepInv, NEW r \in Runs
    PROVE  /\ session[r] \in Seq(AnyMessages) /\ rs[r] \in RunStates /\ said[r] \in Seq(SpokenBy(r))
           /\ rs[r].snapshot \in Memos \cup {NoSnapshot}
           /\ TailStart(r) = Len(Opening(rs[r].snapshot)) /\ TailStart(r) \in Nat
           /\ log \in Seq(Marked) /\ latest \in Memos \cup {NoSnapshot} /\ lost \in Nat
           /\ pc[r] \in Active =>
                  /\ session[r] \in Seq(Marked) /\ Paired(session[r])
                  /\ TailStart(r) \in 0 .. Len(session[r])
<1>1. /\ session[r] \in Seq(AnyMessages) /\ rs[r] \in RunStates /\ said[r] \in Seq(SpokenBy(r))
      /\ rs[r].snapshot \in Memos \cup {NoSnapshot} /\ SessionIs(r)
      /\ log \in Seq(Marked) /\ latest \in Memos \cup {NoSnapshot} /\ lost \in Nat
  BY RealAreMessages DEF KeepInv, RunTypes, SessionIs
<1>2. /\ Opening(rs[r].snapshot) \in Seq(Marked) /\ Paired(Opening(rs[r].snapshot))
      /\ TailStart(r) = Len(Opening(rs[r].snapshot)) /\ TailStart(r) \in Nat
  BY <1>1, OpeningIs DEF TailStart
<1>3. ASSUME pc[r] \in Active
      PROVE  /\ session[r] \in Seq(Marked) /\ Paired(session[r])
             /\ TailStart(r) \in 0 .. Len(session[r])
  <2> DEFINE a == Opening(rs[r].snapshot)
             b == TailOf(r)
  <2>1. session[r] = a \o b /\ b \in Seq(Marked) /\ Paired(b) BY <1>1, <1>3 DEF SessionIs
  <2>2. a \in Seq(Marked) /\ Paired(a) /\ TailStart(r) = Len(a) BY <1>2
  <2> HIDE DEF a, b
  <2>3. a \o b \in Seq(Marked) /\ Paired(a \o b) BY <2>1, <2>2, PairedBoth
  <2>4. Len(a \o b) = Len(a) + Len(b) /\ Len(a) \in Nat /\ Len(b) \in Nat BY <2>1, <2>2, ConcatProperties
  <2> QED BY <2>1, <2>2, <2>3, <2>4
<1> QED BY <1>1, <1>2, <1>3

\* What is not saved yet, of a session that grows, and of one that is all saved.
LEMMA UnsavedGrows ==
    ASSUME KeepInv, NEW r \in Runs, pc[r] \in Active \cup {"finish"}, rs[r].savedTo \in 0 .. Len(session[r]),
           NEW ms \in Seq(AnyMessages), session'[r] = session[r] \o ms, rs'[r].savedTo = rs[r].savedTo
    PROVE  Unsaved(r)' = Unsaved(r) \o Replayable(ms)
<1> DEFINE M == AnyMessages
           s == session[r]
           k == rs[r].savedTo
<1>1. s \in Seq(M) BY SessionFacts
<1>2. k \in 0 .. Len(s) OBVIOUS
<1>3. Unsaved(r)' = Replayable(SubSeq(s \o ms, k + 1, Len(s \o ms))) BY DEF Unsaved
<1>4. Unsaved(r) = Replayable(SubSeq(s, k + 1, Len(s))) BY DEF Unsaved
<1> HIDE DEF s, k
<1>5. SubSeq(s \o ms, k + 1, Len(s \o ms)) = SubSeq(s, k + 1, Len(s)) \o ms BY <1>1, <1>2, EndGrows
<1>6. SubSeq(s, k + 1, Len(s)) \in Seq(M) BY <1>1, <1>2, EndOf
<1> QED BY <1>3, <1>4, <1>5, <1>6, ReplayableBoth

LEMMA UnsavedNothing ==
    ASSUME NEW r \in Runs, session'[r] \in Seq(AnyMessages), rs'[r].savedTo = Len(session'[r])
    PROVE  Unsaved(r)' = <<>>
<1> DEFINE n == Len(session'[r])
<1>1. n \in Nat OBVIOUS
<1>2. Unsaved(r)' = Replayable(SubSeq(session'[r], n + 1, n)) BY DEF Unsaved
<1> HIDE DEF n
<1>3. SubSeq(session'[r], n + 1, n) = <<>> BY <1>1, SubSeqEmpty
<1>4. Replayable(<<>>) = <<>> BY PickedNothing DEF Replayable
<1> QED BY <1>2, <1>3, <1>4

-----------------------------------------------------------------------------
(* Steps that save nothing. *)

Looping == {"loop", "llm", "compact", "compactSave"}

PlanStays(r, to) ==
    /\ to = "compact" => plan'[r].next \in {"llm", "loop"}
    /\ to = "compactSave" => plan'[r] \in Planned /\ Paired(plan'[r].kept)

\* A run adds messages of its own, in whole rounds.
LEMMA Adding ==
    ASSUME KeepInv, NEW r \in Runs, pc[r] \in Saving, NEW to, to \in Saving \cup {"finish"}, OnlyMoves(r, to),
           NEW ms \in Seq(AnyMessages), session'[r] = session[r] \o ms,
           said'[r] = said[r] \o Replayable(ms),
           Replayable(ms) \in Seq(SpokenBy(r)), Paired(Replayable(ms)),
           to # "finish" => ms \in Seq(Marked) /\ Paired(ms),
           rs'[r].snapshot = rs[r].snapshot, rs'[r].savedTo = rs[r].savedTo,
           Checkpoint /\ to \in Looping /\ rs'[r].rounds > 0 =>
               ms = <<>> /\ pc[r] \in Looping /\ rs[r].rounds > 0,
           PlanStays(r, to), log' = log, latest' = latest, lost' = lost
    PROVE  KeepInv'
<1>1. /\ session[r] \in Seq(AnyMessages) /\ said[r] \in Seq(SpokenBy(r)) /\ log \in Seq(Marked)
      /\ rs[r].snapshot \in Memos \cup {NoSnapshot} /\ latest \in Memos \cup {NoSnapshot} /\ lost \in Nat
      /\ session[r] \in Seq(Marked) /\ TailStart(r) \in 0 .. Len(session[r])
  BY SessionFacts DEF Active
<1>2. pc'[r] = to BY OthersStay DEF KeepInv
<1>3. pc[r] \in Active /\ SessionIs(r) /\ SavedIs(r) BY DEF KeepInv, Active
<1>4. /\ rs[r].savedTo \in 0 .. Len(session[r])
      /\ session[r] = Opening(rs[r].snapshot) \o TailOf(r)
      /\ TailOf(r) \in Seq(Marked) /\ Paired(TailOf(r))
      /\ Unsaved(r) \in Seq(SpokenBy(r)) /\ Paired(Unsaved(r))
  BY <1>3 DEF SessionIs
<1>5. Unsaved(r)' = Unsaved(r) \o Replayable(ms) BY <1>3, <1>4, UnsavedGrows
<1> DEFINE u == Unsaved(r)
           m == Replayable(ms)
           S == Seq(SpokenBy(r))
<1>6. u \o m \in S /\ Paired(u \o m) /\ said[r] \o m \in S
  <2>1. u \in Seq(Marked) /\ m \in Seq(Marked) BY <1>4, SpokenAre
  <2> HIDE DEF u, m
  <2>2. Paired(u \o m) BY <1>4, <2>1, PairedBoth DEF u, m
  <2>3. u \in S /\ m \in S /\ said[r] \in S BY <1>1, <1>4 DEF u, m
  <2> QED BY <2>2, <2>3, ConcatProperties
<1>7. SavedBy(r)' = SavedBy(r) BY DEF SavedBy
<1>8. SessionIs(r)'
  <2>1. (rs[r].snapshot \in Memos \cup {NoSnapshot})' /\ said'[r] \in S BY <1>1, <1>6
  <2>2. ASSUME pc'[r] \in Active
        PROVE  /\ rs'[r].savedTo \in 0 .. Len(session'[r])
               /\ session'[r] = Opening(rs'[r].snapshot) \o TailOf(r)'
               /\ TailOf(r)' \in Seq(Marked) /\ Paired(TailOf(r)')
    <3>1. "finish" \notin Active BY DEF Active, Saving, Storing
    <3>2. ms \in Seq(Marked) /\ Paired(ms) BY <1>2, <2>2, <3>1
    <3> DEFINE s == session[r]
               a == Opening(rs[r].snapshot)
               b == TailOf(r)
    <3>3. TailStart(r)' = TailStart(r) BY DEF TailStart
    <3>4. TailOf(r)' = b \o ms
      <4>1. SubSeq(s \o ms, TailStart(r) + 1, Len(s \o ms))
                = SubSeq(s, TailStart(r) + 1, Len(s)) \o ms
        BY <1>1, EndGrows
      <4> QED BY <3>3, <4>1 DEF TailOf
    <3>5. b \o ms \in Seq(Marked) /\ Paired(b \o ms) BY <1>4, <3>2, PairedBoth
    <3>6. s \o ms = a \o (b \o ms)
      <4>1. a \in Seq(Marked) BY <1>1, OpeningIs
      <4>2. s = a \o b /\ b \in Seq(Marked) BY <1>4
      <4> HIDE DEF s, a, b
      <4>3. (a \o b) \o ms = a \o (b \o ms) BY <3>2, <4>1, <4>2, MarkedJoined
      <4> QED BY <4>2, <4>3
    <3>7. rs'[r].savedTo \in 0 .. Len(session'[r])
      <4>1. Len(s \o ms) = Len(s) + Len(ms) /\ Len(s) \in Nat /\ Len(ms) \in Nat
        BY <1>1, <3>2, ConcatProperties
      <4> QED BY <1>4, <4>1
    <3> QED BY <3>4, <3>5, <3>6, <3>7
  <2>3. (Unsaved(r) \in Seq(SpokenBy(r)) /\ Paired(Unsaved(r)))' BY <1>5, <1>6 DEF SpokenBy
  <2>4. pc'[r] \notin Storing BY <1>2 DEF Saving, Storing
  <2>5. said'[r] \in Seq(SpokenBy(r))' BY <2>1 DEF SpokenBy
  <2> QED BY <1>2, <2>1, <2>2, <2>3, <2>4, <2>5 DEF SessionIs, PlanStays
<1>9. SavedIs(r)'
  <2>1. pc'[r] \in Saving \cup {"finish"} /\ pc'[r] \notin Storing \cup {"new", "ended"}
    BY <1>2 DEF Saving, Storing
  <2>2. ASSUME lost' = 0 PROVE said'[r] = SavedBy(r)' \o Unsaved(r)'
    <3>1. said[r] = SavedBy(r) \o u BY <1>3, <2>2 DEF SavedIs
    <3> DEFINE b == SavedBy(r)
    <3>2. b \in Seq(Marked) /\ u \in Seq(Marked) /\ m \in Seq(Marked)
      BY <1>1, <1>4, SpokenAre, SavedIsSeq
    <3> HIDE DEF b, u, m
    <3>3. (b \o u) \o m = b \o (u \o m) BY <3>2, MarkedJoined
    <3> QED BY <1>5, <1>7, <3>1, <3>3 DEF b, u, m
  <2>3. ASSUME Checkpoint, pc'[r] \in Looping, rs'[r].rounds > 0 PROVE Unsaved(r)' = <<>>
    <3>1. ms = <<>> /\ pc[r] \in Looping /\ rs[r].rounds > 0 BY <1>2, <2>3
    <3>2. Unsaved(r) = <<>> BY <1>3, <2>3, <3>1 DEF SavedIs, Looping
    <3>3. Replayable(<<>>) = <<>> BY PickedNothing DEF Replayable
    <3> QED BY <1>5, <3>1, <3>2, <3>3
  <2> QED BY <2>1, <2>2, <2>3 DEF SavedIs, Looping
<1>10. lost' \in Nat /\ (lost' = 0 => lost = 0) /\ latest' \in Memos \cup {NoSnapshot} BY <1>1
<1> QED BY <1>8, <1>9, <1>10, Moved

\* A run goes on, and says nothing.
LEMMA Resting ==
    ASSUME KeepInv, NEW r \in Runs, pc[r] \in Saving, NEW to, to \in Saving \cup {"finish"}, OnlyMoves(r, to),
           session' = session, said' = said,
           rs'[r].snapshot = rs[r].snapshot, rs'[r].savedTo = rs[r].savedTo,
           Checkpoint /\ to \in Looping => pc[r] \in Looping /\ rs'[r].rounds = rs[r].rounds,
           PlanStays(r, to), log' = log, latest' = latest, lost' = lost
    PROVE  KeepInv'
<1>1. session[r] \in Seq(AnyMessages) /\ said[r] \in Seq(SpokenBy(r)) BY SessionFacts
<1> DEFINE ms == <<>>
<1>2. ms \in Seq(AnyMessages) /\ ms \in Seq(Marked) /\ ms \in Seq(SpokenBy(r)) OBVIOUS
<1>3. Replayable(ms) = ms BY PickedNothing DEF Replayable
<1>4. session[r] \o ms = session[r] /\ said[r] \o ms = said[r] BY <1>1, ConcatEmptySeq
<1>5. Paired(ms) BY PairedNothing
<1>6. ms = <<>> OBVIOUS
<1> HIDE DEF ms
<1>7. session'[r] = session[r] \o ms /\ said'[r] = said[r] \o Replayable(ms) BY <1>3, <1>4
<1>8. Replayable(ms) \in Seq(SpokenBy(r)) /\ Paired(Replayable(ms)) BY <1>2, <1>3, <1>5
<1>9. Checkpoint /\ to \in Looping /\ rs'[r].rounds > 0 =>
          ms = <<>> /\ pc[r] \in Looping /\ rs[r].rounds > 0
  BY <1>6
<1> QED BY <1>2, <1>5, <1>7, <1>8, <1>9, Adding

LEMMA RestsLoopEnds == ASSUME KeepInv, NEW r \in Runs, LoopEnds(r) PROVE KeepInv'
<1>1. pc[r] \in Saving BY DEF LoopEnds, Saving
<1>2. OnlyMoves(r, "finish") /\ PlanStays(r, "finish") BY DEF LoopEnds, OnlyMoves, Places, PlanStays
<1>3. "finish" \notin Looping BY DEF Looping
<1>4. UNCHANGED <<log, latest, session, rs, plan, said, lost>> BY DEF LoopEnds, bounds
<1> QED BY <1>1, <1>2, <1>3, <1>4, Resting

LEMMA RestsLLMFails == ASSUME KeepInv, NEW r \in Runs, LLMFails(r) PROVE KeepInv'
<1>1. pc[r] \in Saving BY DEF LLMFails, Saving
<1>2. OnlyMoves(r, "finish") /\ PlanStays(r, "finish") BY DEF LLMFails, OnlyMoves, Places, PlanStays
<1>3. "finish" \notin Looping BY DEF Looping
<1>4. UNCHANGED <<log, latest, session, rs, plan, said, lost>> BY DEF LLMFails, bounds
<1> QED BY <1>1, <1>2, <1>3, <1>4, Resting

LEMMA RestsCompactFails == ASSUME KeepInv, NEW r \in Runs, CompactFails(r) PROVE KeepInv'
<1>1. pc[r] \in Saving BY DEF CompactFails, Saving
<1>2. OnlyMoves(r, "finish") /\ PlanStays(r, "finish")
  BY DEF CompactFails, OnlyMoves, Places, PlanStays, NoPlan, Plans
<1>3. "finish" \notin Looping BY DEF Looping
<1>4. UNCHANGED <<log, latest, session, rs, said, lost>> BY DEF CompactFails, Fault
<1> QED BY <1>1, <1>2, <1>3, <1>4, Resting

LEMMA StatesAre == ASSUME KeepInv PROVE rs \in [Runs -> RunStates] /\ plan \in [Runs -> Plans]
BY DEF KeepInv, RunTypes

\* What a step makes of the state of its run.
LEMMA StateIs ==
    ASSUME KeepInv, NEW r \in Runs, NEW s \in RunStates, rs' = [rs EXCEPT ![r] = s]
    PROVE  rs'[r] = s /\ \E z \in RunStates : rs' = [rs EXCEPT ![r] = z]
BY StatesAre

LEMMA CountedKeeps ==
    ASSUME NEW s \in RunStates
    PROVE  /\ Counted(s) \in RunStates /\ Counted(s).snapshot = s.snapshot
           /\ Counted(s).savedTo = s.savedTo /\ Counted(s).rounds = s.rounds
BY DEF Counted, RunStates

LEMMA RestsLoopCompacts == ASSUME KeepInv, NEW r \in Runs, LoopCompacts(r) PROVE KeepInv'
<1> DEFINE s == [rs[r] EXCEPT !.compactions = @ + 1]
           p == [next |-> "llm"]
<1>1. pc[r] \in Saving /\ pc[r] \in Looping /\ "compact" \in Saving BY DEF LoopCompacts, Saving, Looping
<1>2. /\ s \in RunStates /\ s.snapshot = rs[r].snapshot /\ s.savedTo = rs[r].savedTo
      /\ s.rounds = rs[r].rounds
  <2>1. rs[r] \in RunStates /\ rs[r].compactions + 1 \in Int BY SessionFacts DEF RunStates
  <2> QED BY <2>1 DEF RunStates
<1>3. rs' = [rs EXCEPT ![r] = s] /\ plan' = [plan EXCEPT ![r] = p] BY StatesAre DEF LoopCompacts
<1>4. p \in Plans /\ p.next = "llm" BY DEF Plans
<1> HIDE DEF s, p
<1>5. rs'[r] = s /\ plan'[r] = p BY <1>2, <1>3, StatesAre
<1>6. OnlyMoves(r, "compact") BY <1>1, <1>2, <1>3, <1>4 DEF LoopCompacts, OnlyMoves, Places, Active
<1>7. PlanStays(r, "compact") BY <1>4, <1>5 DEF PlanStays
<1>8. UNCHANGED <<log, latest, session, said, lost>> BY DEF LoopCompacts, bounds
<1> QED BY <1>1, <1>2, <1>5, <1>6, <1>7, <1>8, Resting

LEMMA RestsLoopCalls == ASSUME KeepInv, NEW r \in Runs, LoopCalls(r) PROVE KeepInv'
<1> DEFINE s == Counted(rs[r])
<1>1. pc[r] \in Saving /\ pc[r] \in Looping /\ "llm" \in Saving BY DEF LoopCalls, Saving, Looping
<1>2. /\ s \in RunStates /\ s.snapshot = rs[r].snapshot /\ s.savedTo = rs[r].savedTo
      /\ s.rounds = rs[r].rounds
  BY SessionFacts, CountedKeeps
<1>3. rs' = [rs EXCEPT ![r] = s] BY DEF LoopCalls
<1> HIDE DEF s
<1>4. rs'[r] = s BY <1>2, <1>3, StatesAre
<1>5. OnlyMoves(r, "llm") BY <1>1, <1>2, <1>3 DEF LoopCalls, OnlyMoves, Places, Active
<1>6. PlanStays(r, "llm") BY DEF PlanStays
<1>7. UNCHANGED <<log, latest, session, said, lost>> BY DEF LoopCalls, bounds
<1> QED BY <1>1, <1>2, <1>4, <1>5, <1>6, <1>7, Resting

LEMMA RestsContextTooLong == ASSUME KeepInv, NEW r \in Runs, ContextTooLong(r) PROVE KeepInv'
<1>1. pc[r] \in Saving /\ pc[r] \in Looping /\ "compact" \in Saving BY DEF ContextTooLong, Saving, Looping
<1>2. UNCHANGED <<log, latest, session, said, lost>> BY DEF ContextTooLong, bounds
<1>3. CASE MayCompactOnError(r)
  <2> DEFINE s == [rs[r] EXCEPT !.compactedOnError = TRUE]
             p == [next |-> "loop"]
  <2>1. /\ s \in RunStates /\ s.snapshot = rs[r].snapshot /\ s.savedTo = rs[r].savedTo
        /\ s.rounds = rs[r].rounds
    BY SessionFacts DEF RunStates
  <2>2. rs' = [rs EXCEPT ![r] = s] /\ plan' = [plan EXCEPT ![r] = p] /\ Goes(r, "compact")
    BY <1>3, StatesAre DEF ContextTooLong
  <2>3. p \in Plans /\ p.next = "loop" BY DEF Plans
  <2> HIDE DEF s, p
  <2>4. rs'[r] = s /\ plan'[r] = p BY <2>1, <2>2, StatesAre
  <2>5. OnlyMoves(r, "compact") BY <1>1, <1>2, <2>1, <2>2, <2>3 DEF OnlyMoves, Places, Active
  <2>6. PlanStays(r, "compact") BY <2>3, <2>4 DEF PlanStays
  <2> QED BY <1>1, <1>2, <2>1, <2>4, <2>5, <2>6, Resting
<1>4. CASE ~MayCompactOnError(r)
  <2>1. Goes(r, "finish") /\ rs' = rs /\ plan' = plan BY <1>4 DEF ContextTooLong
  <2>2. OnlyMoves(r, "finish") BY <1>2, <2>1 DEF OnlyMoves, Places
  <2>3. PlanStays(r, "finish") /\ "finish" \notin Looping BY DEF PlanStays, Looping
  <2> QED BY <1>1, <1>2, <2>1, <2>2, <2>3, Resting
<1> QED BY <1>3, <1>4

LEMMA MsgSpoken ==
    ASSUME NEW r \in Runs, NEW n \in Nat \ {0}, NEW kind \in {"user", "answer", "call", "tool"}
    PROVE  /\ Msg(kind, r, n) \in SpokenBy(r) /\ Msg(kind, r, n) \in Marked
           /\ Msg(kind, r, n).kind = kind /\ Msg(kind, r, n).of = <<<<r, n>>>>
           /\ Msg(kind, r, n).of[1] = <<r, n>> /\ Author(Msg(kind, r, n)) = r
<1> DEFINE m == Msg(kind, r, n)
<1>1. m \in RealMessages /\ (m.tool <=> kind = "tool") /\ m.kind = kind BY MsgReal
<1>2. m.of = <<<<r, n>>>> BY DEF Msg
<1> HIDE DEF m
<1>3. m.of[1] = <<r, n>> BY <1>2
<1>4. Author(m) = r BY <1>3 DEF Author
<1>5. m \in Marked BY <1>1 DEF Marked
<1>6. m \in SpokenBy(r) BY <1>4, <1>5 DEF SpokenBy
<1> QED BY <1>1, <1>2, <1>3, <1>4, <1>5, <1>6 DEF m

LEMMA AnswersKeep == ASSUME KeepInv, NEW r \in Runs, Answers(r) PROVE KeepInv'
<1>1. PICK kind \in {"answer", "empty"} : Adds(r, <<Msg(kind, r, Len(said[r]) + 1)>>) BY DEF Answers
<1> DEFINE n == Len(said[r]) + 1
           m == Msg(kind, r, n)
           s == [rs[r] EXCEPT !.compactedOnError = FALSE]
<1>2. n \in Nat \ {0} BY SessionFacts
<1>3. pc[r] \in Saving /\ "finish" \notin Looping BY DEF Answers, Saving, Looping
<1> HIDE DEF n
<1>4. m \in AnyMessages /\ m.kind = kind BY <1>2, MsgReal
<1>5. kind = "answer" => m \in SpokenBy(r) /\ m \in Marked BY <1>2, MsgSpoken
<1> HIDE DEF m
<1>6. session' = [session EXCEPT ![r] = @ \o <<m>>] /\ said' = [said EXCEPT ![r] = @ \o Replayable(<<m>>)]
  BY <1>1 DEF Adds, m, n
<1>7. <<m>> \in Seq(AnyMessages) BY <1>4
<1>8. Replayable(<<m>>) = IF kind = "empty" THEN <<>> ELSE <<m>>
  <2>1. <<>> \in Seq(RealMessages) /\ <<>> \o <<m>> = <<m>> BY <1>4
  <2> QED BY <1>4, <2>1, ReplayableMore
<1>9. Replayable(<<m>>) \in Seq(SpokenBy(r)) /\ Paired(Replayable(<<m>>))
  <2>1. CASE kind = "empty"
    <3>1. Replayable(<<m>>) = <<>> BY <1>8, <2>1
    <3>2. <<>> \in Seq(SpokenBy(r)) OBVIOUS
    <3> QED BY <3>1, <3>2, PairedNothing
  <2>2. CASE kind = "answer"
    <3>1. Replayable(<<m>>) = <<m>> BY <1>8, <2>2
    <3>2. <<m>> \in Seq(SpokenBy(r)) /\ <<m>> \in Seq(Marked) BY <1>5, <2>2
    <3>3. \A i \in 1 .. Len(<<m>>) : <<m>>[i].kind \notin {"call", "tool"} BY <1>4, <2>2
    <3> QED BY <3>1, <3>2, <3>3, PairedPlain
  <2> QED BY <2>1, <2>2
<1>10. /\ session \in [Runs -> MessagesType] /\ said \in [Runs -> Seq(RealMessages)]
       /\ session[r] \in Seq(AnyMessages) /\ said[r] \in Seq(RealMessages)
       /\ Replayable(<<m>>) \in Seq(RealMessages)
  <2>1. Replayable(<<m>>) \in Seq(RealMessages) BY <1>9, SpokenAre, MarkedAre
  <2> QED BY <2>1, SessionFacts DEF KeepInv, RunTypes
<1>11. session'[r] = session[r] \o <<m>> /\ said'[r] = said[r] \o Replayable(<<m>>) BY <1>6, <1>10
<1>12. session[r] \o <<m>> \in Seq(AnyMessages) /\ said[r] \o Replayable(<<m>>) \in Seq(RealMessages)
  BY <1>7, <1>10, ConcatProperties
<1>13. s \in RunStates /\ s.snapshot = rs[r].snapshot /\ s.savedTo = rs[r].savedTo
  BY SessionFacts DEF RunStates
<1>14. rs' = [rs EXCEPT ![r] = s] BY StatesAre DEF Answers
<1> HIDE DEF s
<1>15. rs'[r] = s BY <1>13, <1>14, StatesAre
<1>16. Goes(r, "finish") /\ UNCHANGED <<log, latest, plan, lost>> BY DEF Answers, bounds
<1>17. OnlyMoves(r, "finish")
  <2>1. \E z \in Seq(AnyMessages) : session' = [session EXCEPT ![r] = z] BY <1>6, <1>12
  <2>2. \E z \in Seq(RealMessages) : said' = [said EXCEPT ![r] = z] BY <1>6, <1>12
  <2> QED BY <1>13, <1>14, <1>16, <2>1, <2>2 DEF OnlyMoves, Places
<1>18. PlanStays(r, "finish") BY DEF PlanStays
<1> QED BY <1>3, <1>7, <1>9, <1>11, <1>13, <1>15, <1>16, <1>17, <1>18, Adding

\* A round is a call and its results.
LEMMA RoundIs ==
    ASSUME NEW r \in Runs, NEW n \in Nat
    PROVE  LET ms == [i \in 1 .. CallsPerRound + 1 |->
                          Msg(IF i = 1 THEN "call" ELSE "tool", r, n + i)]
           IN  ms \in Seq(SpokenBy(r)) /\ ms \in Seq(Marked) /\ Paired(ms)
<1> DEFINE z == CallsPerRound + 1
           e(i) == Msg(IF i = 1 THEN "call" ELSE "tool", r, n + i)
           ms == [i \in 1 .. z |-> e(i)]
<1>1. CallsPerRound \in Nat /\ z \in Nat BY RunConstants
<1>2. ASSUME NEW i \in 1 .. z
      PROVE  /\ e(i) \in SpokenBy(r) /\ e(i) \in Marked /\ e(i).of[1] = <<r, n + i>>
             /\ Author(e(i)) = r /\ e(i).kind = IF i = 1 THEN "call" ELSE "tool"
  <2>1. n + i \in Nat \ {0} BY <1>1
  <2>2. CASE i = 1 BY <2>1, <2>2, MsgSpoken
  <2>3. CASE i # 1 BY <2>1, <2>3, MsgSpoken
  <2> QED BY <2>2, <2>3
<1> HIDE DEF e
<1>3. ms \in Seq(SpokenBy(r)) /\ ms \in Seq(Marked) BY <1>1, <1>2, SMTT(30)
<1>4. DOMAIN ms = 1 .. z /\ \A i \in 1 .. z : ms[i] = e(i) BY <1>1
<1> HIDE DEF ms
<1>5. ASSUME NEW i \in 1 .. z PROVE Answered(ms, i) /\ Called(ms, i)
  <2>1. CASE i = 1
    <3>1. Called(ms, i) BY <1>2, <1>4, <2>1 DEF Called
    <3>2. ASSUME NEW j \in 1 .. CallsPerRound
          PROVE  /\ i + j \in DOMAIN ms /\ ms[i + j].kind = "tool"
                 /\ ms[i + j].of[1] = <<Author(ms[i]), ms[i].of[1][2] + j>>
      <4>1. i + j \in 1 .. z /\ i + j # 1 BY <1>1, <2>1 DEF z
      <4>2. ms[i + j].kind = "tool" /\ ms[i + j].of[1] = <<r, n + (i + j)>> BY <1>2, <1>4, <4>1
      <4>3. Author(ms[i]) = r /\ ms[i].of[1] = <<r, n + i>> BY <1>2, <1>4
      <4>4. ms[i].of[1][2] + j = n + (i + j) BY <4>3
      <4> QED BY <1>4, <4>1, <4>2, <4>3, <4>4
    <3> QED BY <3>1, <3>2 DEF Answered
  <2>2. CASE i # 1
    <3>1. Answered(ms, i) BY <1>2, <1>4, <2>2 DEF Answered
    <3>2. Called(ms, i)
      <4> DEFINE j == i - 1
      <4>1. j \in 1 .. CallsPerRound /\ i - j = 1 /\ 1 \in 1 .. z BY <1>1, <2>2 DEF z
      <4>2. ms[1].kind = "call" BY <1>2, <1>4, <4>1
      <4> HIDE DEF j
      <4>3. i - j >= 1 /\ ms[i - j].kind = "call" BY <4>1, <4>2
      <4> QED BY <4>1, <4>3 DEF Called
    <3> QED BY <3>1, <3>2
  <2> QED BY <2>1, <2>2
<1>6. Paired(ms) BY <1>4, <1>5, PairedIs
<1> QED BY <1>3, <1>6 DEF ms, e, z

LEMMA CallsToolsKeep == ASSUME KeepInv, NEW r \in Runs, CallsTools(r) PROVE KeepInv'
<1> DEFINE n == Len(said[r])
           ms == [i \in 1 .. CallsPerRound + 1 |-> Msg(IF i = 1 THEN "call" ELSE "tool", r, n + i)]
           s == [rs[r] EXCEPT !.compactedOnError = FALSE, !.rounds = @ + 1]
<1>1. pc[r] \in Saving BY DEF CallsTools, Saving
<1>2. n \in Nat BY SessionFacts
<1>3. session' = [session EXCEPT ![r] = @ \o ms] /\ said' = [said EXCEPT ![r] = @ \o Replayable(ms)]
  BY DEF CallsTools, Adds
<1>4. ms \in Seq(SpokenBy(r)) /\ ms \in Seq(Marked) /\ Paired(ms)
  <2> HIDE DEF n
  <2> QED BY <1>2, RoundIs
<1> HIDE DEF ms
<1>5. ms \in Seq(RealMessages) /\ ms \in Seq(AnyMessages) /\ Replayable(ms) = ms
  BY <1>4, MarkedAre, RealIsReplayable
<1>6. /\ session \in [Runs -> MessagesType] /\ said \in [Runs -> Seq(RealMessages)]
      /\ session[r] \in Seq(AnyMessages) /\ said[r] \in Seq(RealMessages)
  BY SessionFacts DEF KeepInv, RunTypes
<1>7. session'[r] = session[r] \o ms /\ said'[r] = said[r] \o Replayable(ms) BY <1>3, <1>6
<1>8. session[r] \o ms \in Seq(AnyMessages) /\ said[r] \o Replayable(ms) \in Seq(RealMessages)
  BY <1>5, <1>6, ConcatProperties
<1>9. s \in RunStates /\ s.snapshot = rs[r].snapshot /\ s.savedTo = rs[r].savedTo
  <2>1. rs[r] \in RunStates /\ rs[r].rounds + 1 \in Int BY SessionFacts DEF RunStates
  <2> QED BY <2>1 DEF RunStates
<1>10. rs' = [rs EXCEPT ![r] = s] BY StatesAre DEF CallsTools
<1> HIDE DEF s
<1>11. rs'[r] = s BY <1>9, <1>10, StatesAre
<1>12. PICK to \in {"finish", "checkpoint", "loop"} : Goes(r, to) /\ (to = "loop" => ~Checkpoint)
  BY DEF CallsTools
<1>13. to \in Saving \cup {"finish"} /\ to \in Places /\ ~(Checkpoint /\ to \in Looping)
  BY <1>12 DEF Saving, Places, Active, Looping
<1>14. UNCHANGED <<log, latest, plan, lost>> BY DEF CallsTools, bounds
<1>15. OnlyMoves(r, to)
  <2>1. \E y \in Seq(AnyMessages) : session' = [session EXCEPT ![r] = y] BY <1>3, <1>8
  <2>2. \E y \in Seq(RealMessages) : said' = [said EXCEPT ![r] = y] BY <1>3, <1>8
  <2> QED BY <1>9, <1>10, <1>12, <1>13, <1>14, <2>1, <2>2 DEF OnlyMoves
<1>16. PlanStays(r, to) BY <1>12 DEF PlanStays
<1> QED BY <1>1, <1>4, <1>5, <1>7, <1>9, <1>11, <1>13, <1>14, <1>15, <1>16, Adding

-----------------------------------------------------------------------------
(* Saves. *)

\* A save that is made, and a run that goes on without one.
LEMMA SaveMade ==
    ASSUME KeepInv, NEW r \in Runs, pc[r] \in Saving \cup {"finish"}, log' = log \o Unsaved(r)
    PROVE  /\ SavedBy(r)' = SavedBy(r) \o Unsaved(r)
           /\ lost = 0 => SavedBy(r)' = said[r]
<1>1. pc[r] \in Active \cup {"finish"} /\ SessionIs(r) /\ SavedIs(r) BY DEF KeepInv, Active
<1> DEFINE m == Unsaved(r)
<1>2. m \in Seq(SpokenBy(r)) /\ log \in Seq(Marked) /\ log' = log \o m BY <1>1 DEF SessionIs, KeepInv
<1> HIDE DEF m
<1>3. SavedBy(r)' = SavedBy(r) \o m BY <1>2, SavedGrows
<1>4. lost = 0 => said[r] = SavedBy(r) \o Unsaved(r) BY <1>1 DEF SavedIs
<1> QED BY <1>3, <1>4 DEF m

LEMMA PrefixIs ==
    ASSUME NEW s \in Seq(Marked), NEW t \in Seq(Marked) PROVE IsPrefix(s, s \o t) /\ IsPrefix(s, s)
<1>1. SubSeq(s \o t, 1, Len(s)) = s /\ Len(s \o t) = Len(s) + Len(t) BY CutAt
<1>2. SubSeq(s, 1, Len(s)) = s
  <2>1. <<>> \in Seq(Marked) OBVIOUS
  <2>2. SubSeq(s \o <<>>, 1, Len(s)) = s BY <2>1, CutAt
  <2> QED BY <2>2, ConcatEmptySeq
<1>3. Len(s) \in Nat /\ Len(t) \in Nat OBVIOUS
<1>4. Len(s) <= Len(s \o t) /\ Len(s) <= Len(s) BY <1>1, <1>3
<1> QED BY <1>1, <1>2, <1>4 DEF IsPrefix

\* The session of a run that only goes elsewhere.
LEMMA SessionStays ==
    ASSUME NEW r \in Runs, session' = session, rs'[r].snapshot = rs[r].snapshot
    PROVE  TailOf(r)' = TailOf(r) /\ TailStart(r)' = TailStart(r)
BY DEF TailOf, TailStart

LEMMA CheckpointSavedKeeps == ASSUME KeepInv, NEW r \in Runs, CheckpointSaved(r) PROVE KeepInv'
<1> DEFINE s == [rs[r] EXCEPT !.savedTo = Len(session[r])]
<1>1. pc[r] = "checkpoint" /\ pc[r] \in Saving /\ pc[r] \in Active
  BY DEF CheckpointSaved, Saving, Active
<1>2. Len(session[r]) \in Nat /\ session[r] \in Seq(AnyMessages) /\ rs[r] \in RunStates BY SessionFacts
<1>3. s \in RunStates /\ s.snapshot = rs[r].snapshot /\ s.savedTo = Len(session[r])
  BY <1>2 DEF RunStates
<1>4. rs' = [rs EXCEPT ![r] = s] BY StatesAre DEF CheckpointSaved, SavedUpTo
<1> HIDE DEF s
<1>5. rs'[r] = s BY <1>3, <1>4, StatesAre
<1>6. /\ log' = log \o Unsaved(r) /\ Goes(r, "loop")
      /\ UNCHANGED <<latest, session, plan, said, lost>>
  BY DEF CheckpointSaved, SaveOk, bounds
<1>7. OnlyMoves(r, "loop") BY <1>3, <1>4, <1>6 DEF OnlyMoves, Places, Active, Saving
<1>8. pc'[r] = "loop" BY <1>7, OthersStay DEF KeepInv
<1>9. Unsaved(r)' = <<>> BY <1>2, <1>3, <1>5, <1>6, UnsavedNothing
<1>10. SessionIs(r) BY DEF KeepInv
<1>11. SessionIs(r)'
  <2>1. TailOf(r)' = TailOf(r) BY <1>3, <1>5, <1>6, SessionStays
  <2>2. rs'[r].savedTo \in 0 .. Len(session'[r]) BY <1>2, <1>3, <1>5, <1>6
  <2>3. <<>> \in Seq(SpokenBy(r)') /\ Paired(<<>>) BY PairedNothing
  <2>4. SpokenBy(r)' = SpokenBy(r) BY DEF SpokenBy
  <2> QED BY <1>1, <1>3, <1>5, <1>6, <1>8, <1>9, <1>10, <2>1, <2>2, <2>3, <2>4 DEF SessionIs, Storing
<1>12. SavedIs(r)'
  <2>1. lost = 0 => SavedBy(r)' = said[r] BY <1>1, <1>6, SaveMade
  <2>2. said[r] \o <<>> = said[r]
    <3>1. said[r] \in Seq(SpokenBy(r)) BY <1>10 DEF SessionIs
    <3> QED BY <3>1, ConcatEmptySeq
  <2> QED BY <1>6, <1>8, <1>9, <2>1, <2>2 DEF SavedIs, Storing
<1>13. lost' \in Nat /\ (lost' = 0 => lost = 0) /\ latest' \in Memos \cup {NoSnapshot} BY <1>6 DEF KeepInv
<1> QED BY <1>1, <1>6, <1>7, <1>11, <1>12, <1>13, Moved

LEMMA CompactSavedKeeps == ASSUME KeepInv, NEW r \in Runs, CompactSaved(r) PROVE KeepInv'
<1>1. pc[r] = "compactSave" /\ pc[r] \in Saving /\ pc[r] \in Active BY DEF CompactSaved, Saving, Active
<1>2. /\ log' = log \o Unsaved(r) /\ Goes(r, "compactLoad")
      /\ UNCHANGED <<latest, session, rs, plan, said, lost>>
  BY DEF CompactSaved, SaveOk, bounds
<1>3. OnlyMoves(r, "compactLoad") BY <1>2 DEF OnlyMoves, Places, Active, Storing
<1>4. pc'[r] = "compactLoad" BY <1>3, OthersStay DEF KeepInv
<1>5. Unsaved(r)' = Unsaved(r) /\ TailOf(r)' = TailOf(r) BY <1>2 DEF Unsaved, TailOf, TailStart
<1>6. SessionIs(r) BY DEF KeepInv
<1>7. SessionIs(r)'
  <2>1. SpokenBy(r)' = SpokenBy(r) BY DEF SpokenBy
  <2>2. pc'[r] \in Active /\ pc'[r] \in Storing /\ pc'[r] # "compact" BY <1>4 DEF Active, Storing
  <2> QED BY <1>1, <1>2, <1>5, <1>6, <2>1, <2>2 DEF SessionIs
<1>8. SavedIs(r)'
  <2>1. lost = 0 => SavedBy(r)' = said[r] BY <1>1, <1>2, SaveMade
  <2> QED BY <1>2, <1>4, <2>1 DEF SavedIs, Saving
<1>9. lost' \in Nat /\ (lost' = 0 => lost = 0) /\ latest' \in Memos \cup {NoSnapshot} BY <1>2 DEF KeepInv
<1> QED BY <1>1, <1>2, <1>3, <1>7, <1>8, <1>9, Moved

\* A save that fails: unless it was made, the memory stays as it is.
LEMMA SaveFailed ==
    ASSUME KeepInv, NEW r \in Runs, SaveFails(r)
    PROVE  /\ log' = log \/ log' = log \o Unsaved(r)
           /\ lost' \in Nat /\ (lost' = 0 => lost = 0 /\ log' = log)
<1>1. lost \in Nat BY DEF KeepInv
<1>2. MaxLost \in Nat BY RunConstants
<1>3. CASE Fault /\ UNCHANGED log BY <1>1, <1>3 DEF Fault
<1>4. CASE lost < MaxLost /\ lost' = lost + 1 /\ log' = log \o Unsaved(r) BY <1>1, <1>2, <1>4
<1> QED BY <1>3, <1>4 DEF SaveFails

LEMMA SaveEndsRunKeeps == ASSUME KeepInv, NEW r \in Runs, SaveEndsRun(r) PROVE KeepInv'
<1>1. pc[r] \in {"checkpoint", "compactSave"} /\ pc[r] \in Saving /\ pc[r] \in Active
  BY DEF SaveEndsRun, Saving, Active
<1>2. /\ Goes(r, "finish") /\ plan' = [plan EXCEPT ![r] = NoPlan]
      /\ UNCHANGED <<latest, session, rs, said>>
  BY DEF SaveEndsRun
<1>3. /\ log' = log \/ log' = log \o Unsaved(r)
      /\ lost' \in Nat /\ (lost' = 0 => lost = 0 /\ log' = log)
  BY SaveFailed DEF SaveEndsRun
<1>4. OnlyMoves(r, "finish")
  <2>1. NoPlan \in Plans BY DEF NoPlan, Plans
  <2> QED BY <1>2, <2>1 DEF OnlyMoves, Places
<1>5. pc'[r] = "finish" BY <1>4, OthersStay DEF KeepInv
<1>6. Unsaved(r)' = Unsaved(r) BY <1>2 DEF Unsaved
<1>7. SessionIs(r) /\ SavedIs(r) BY DEF KeepInv
<1>8. SessionIs(r)'
  <2>1. SpokenBy(r)' = SpokenBy(r) BY DEF SpokenBy
  <2>2. "finish" \notin Active /\ "finish" \notin Storing BY DEF Active, Saving, Storing
  <2> QED BY <1>1, <1>2, <1>5, <1>6, <1>7, <2>1, <2>2 DEF SessionIs
<1>9. SavedIs(r)'
  <2>1. lost' = 0 => lost = 0 /\ SavedBy(r)' = SavedBy(r) BY <1>3 DEF SavedBy
  <2> QED BY <1>1, <1>2, <1>5, <1>6, <1>7, <2>1 DEF SavedIs, Storing
<1>10. latest' \in Memos \cup {NoSnapshot} BY <1>2 DEF KeepInv
<1> QED BY <1>1, <1>3, <1>4, <1>8, <1>9, <1>10, Moved

LEMMA FinishKeeps == ASSUME KeepInv, NEW r \in Runs, Finish(r) PROVE KeepInv'
<1> DEFINE failed == [rs[r] EXCEPT !.saveFailed = TRUE]
<1>1. pc[r] = "finish" /\ Goes(r, "ended") /\ UNCHANGED <<latest, session, plan, said>> BY DEF Finish
<1>2. failed \in RunStates /\ failed.snapshot = rs[r].snapshot /\ failed.saveFailed
  <2>1. rs[r] \in RunStates BY SessionFacts
  <2> QED BY <2>1 DEF RunStates
<1>3. rs' = rs \/ rs' = [rs EXCEPT ![r] = failed] BY StatesAre DEF Finish
<1> HIDE DEF failed
<1>4. /\ lost' \in Nat /\ (lost' = 0 => lost = 0)
      /\ log' = log \/ log' = log \o Unsaved(r)
      /\ \/ log' = log \o Unsaved(r)
         \/ rs' = [rs EXCEPT ![r] = failed] /\ (lost' = 0 => log' = log)
  <2>1. CASE SaveOk(r)
    <3>1. lost' = lost /\ log' = log \o Unsaved(r) BY <2>1 DEF SaveOk, bounds
    <3> QED BY <3>1 DEF KeepInv
  <2>2. CASE SaveFails(r) /\ rs' = [rs EXCEPT ![r].saveFailed = TRUE]
    <3>1. rs' = [rs EXCEPT ![r] = failed] BY <2>2, StatesAre DEF failed
    <3> QED BY <2>2, <3>1, SaveFailed
  <2> QED BY <2>1, <2>2 DEF Finish
<1>5. OnlyMoves(r, "ended") BY <1>1, <1>2, <1>3 DEF OnlyMoves, Places, Idle
<1>6. pc'[r] = "ended" BY <1>5, OthersStay DEF KeepInv
<1>7. SessionIs(r) /\ SavedIs(r) BY DEF KeepInv
<1>8. SessionIs(r)'
  <2>1. SpokenBy(r)' = SpokenBy(r) BY DEF SpokenBy
  <2>2. "ended" \notin Active /\ "ended" \notin Storing BY DEF Active, Saving, Storing
  <2>3. rs'[r].snapshot = rs[r].snapshot BY <1>2, <1>3, StatesAre
  <2> QED BY <1>1, <1>6, <1>7, <2>1, <2>2, <2>3 DEF SessionIs
<1>9. SavedIs(r)'
  <2> DEFINE b == SavedBy(r)
             u == Unsaved(r)
  <2>1. said[r] \in Seq(Marked) /\ u \in Seq(Marked) /\ b \in Seq(Marked)
    BY <1>1, <1>7, SpokenAre, SavedIsSeq DEF SessionIs, KeepInv
  <2>2. lost = 0 => said[r] = b \o u BY <1>1, <1>7 DEF SavedIs
  <2>3. ASSUME lost' = 0
        PROVE  IsPrefix(SavedBy(r)', said'[r]) /\ (~rs'[r].saveFailed => SavedBy(r)' = said'[r])
    <3>1. CASE log' = log \o Unsaved(r)
      <4>1. lost = 0 BY <1>4, <2>3
      <4>3. SavedBy(r)' = said'[r] BY <1>1, <3>1, <4>1, SaveMade
      <4>2. IsPrefix(said[r], said[r]) BY <2>1, PrefixIs
      <4> QED BY <1>1, <4>2, <4>3
    <3>2. CASE rs' = [rs EXCEPT ![r] = failed] /\ log' = log
      <4>1. SavedBy(r)' = b BY <3>2 DEF SavedBy
      <4>2. rs'[r] = failed BY <1>2, <3>2, StatesAre
      <4> HIDE DEF b, u
      <4>3. IsPrefix(b, b \o u) BY <2>1, PrefixIs
      <4>4. lost = 0 BY <1>4, <2>3
      <4> QED BY <1>1, <1>2, <2>2, <4>1, <4>2, <4>3, <4>4
    <3> QED BY <1>4, <2>3, <3>1, <3>2
  <2> QED BY <1>6, <2>3 DEF SavedIs, Saving, Storing
<1>10. latest' \in Memos \cup {NoSnapshot} BY <1>1 DEF KeepInv
<1>11. log' = log \/ (pc[r] \in Active \cup {"finish"} /\ log' = log \o Unsaved(r)) BY <1>1, <1>4
<1>12. lost' \in Nat /\ (lost' = 0 => lost = 0) BY <1>4
<1> QED BY <1>5, <1>8, <1>9, <1>10, <1>11, <1>12, Moved

-----------------------------------------------------------------------------
(* Compactions. *)

LEMMA UsersAre == ASSUME NEW s \in Seq(Marked) PROVE UsersOf(s) \in Seq(UserMessages)
<1> DEFINE I == {i \in DOMAIN s : s[i].kind = "user"}
<1>1. Len(s) \in Nat OBVIOUS
<1>2. \A i \in 1 .. Len(s) : i \in I => s[i] \in UserMessages
  <2>1. \A i \in 1 .. Len(s) : s[i] \in Marked OBVIOUS
  <2> QED BY <2>1 DEF UserMessages
<1>3. UsersOf(s) = Picked(s, I) BY DEF UsersOf
<1> HIDE DEF I
<1> QED BY <1>1, <1>2, <1>3, PickedIsSeq

LEMMA PinnedAre ==
    ASSUME NEW older \in Seq(Marked), NEW recent, NEW previous \in Memos \cup {NoSnapshot}
    PROVE  Pinned(older, recent, previous) \in Seq(UserMessages)
<1> DEFINE u == UsersOf(older)
<1>1. u \in Seq(UserMessages) BY UsersAre
<1>2. previous # NoSnapshot => previous.pinned \in Seq(UserMessages) BY DEF Memos
<1> HIDE DEF u
<1>3. u # <<>> => Last(u) \in UserMessages BY <1>1 DEF Last
<1>4. u # <<>> => <<Last(u)>> \in Seq(UserMessages) BY <1>3
<1>5. <<>> \in Seq(UserMessages) OBVIOUS
<1> QED BY <1>2, <1>4, <1>5 DEF Pinned, u

\* The compactor cuts the tail between two rounds.
LEMMA TailCut ==
    ASSUME NEW s \in Seq(Marked), Paired(s), NEW k \in Int
    PROVE  LET split == SplitPoint(s, k)
               rest == SubSeq(s, split + 1, Len(s))
           IN  /\ split \in 0 .. Len(s)
               /\ SubSeq(s, 1, split) \in Seq(Marked) /\ rest \in Seq(Marked)
               /\ StartsWhole(rest) /\ Paired(rest)
               /\ s = SubSeq(s, 1, split) \o rest /\ Len(rest) = Len(s) - split
<1> DEFINE split == SplitPoint(s, k)
           a == SubSeq(s, 1, split)
           b == SubSeq(s, split + 1, Len(s))
<1>1. split \in 0 .. Len(s) /\ (split < Len(s) => ~s[split + 1].tool)
  <2> HIDE DEF Marked
  <2> QED BY SplitPointIs
<1>2. Len(s) \in Nat OBVIOUS
<1> HIDE DEF split
<1>3. a \in Seq(Marked) /\ b \in Seq(Marked) /\ Len(b) = Len(s) - split /\ s = a \o b BY <1>1, EndOf
<1>4. StartsWhole(b)
  <2>1. ASSUME b # <<>> PROVE ~b[1].tool
    <3>1. Len(b) # 0 BY <1>3, <2>1
    <3>2. split < Len(s) BY <1>1, <1>2, <1>3, <3>1
    <3>3. b[1] = s[split + 1] BY <1>1, <1>2, <3>2
    <3> QED BY <1>1, <3>2, <3>3
  <2> QED BY <2>1 DEF StartsWhole
<1> HIDE DEF a, b
<1>5. Paired(b) BY <1>3, <1>4, PairedEnd
<1> QED BY <1>1, <1>3, <1>4, <1>5 DEF a, b, split

LEMMA CompactPlanKeeps == ASSUME KeepInv, NEW r \in Runs, CompactPlan(r) PROVE KeepInv'
<1> DEFINE tail == TailOf(r)
           previous == rs[r].snapshot
<1>1. pc[r] = "compact" /\ pc[r] \in Saving /\ pc[r] \in Looping /\ pc[r] \in Active
  BY DEF CompactPlan, Saving, Looping, Active
<1>2. UNCHANGED <<log, latest, session, said, lost>> BY DEF CompactPlan, bounds
<1>3. SessionIs(r) BY DEF KeepInv
<1>4. tail \in Seq(Marked) /\ Paired(tail) /\ plan[r].next \in {"llm", "loop"}
  BY <1>1, <1>3 DEF SessionIs
<1>5. previous \in Memos \cup {NoSnapshot} BY SessionFacts
<1>6. PICK k \in 0 .. Len(tail) :
          LET split == SplitPoint(tail, k)
              older == SubSeq(tail, 1, split)
              kept == SubSeq(tail, split + 1, Len(tail))
          IN  IF split = 0
              THEN Continue(r, rs[r])
              ELSE /\ plan' = [plan EXCEPT ![r] =
                         [next |-> @.next, kept |-> kept, upTo |-> -1,
                          snapshot |->
                              [of |-> StandsFor(previous, older),
                               pinned |-> Pinned(older, kept, previous), upTo |-> -1]]]
                   /\ Goes(r, "compactSave")
                   /\ UNCHANGED rs
  BY DEF CompactPlan
<1> DEFINE split == SplitPoint(tail, k)
           older == SubSeq(tail, 1, split)
           kept == SubSeq(tail, split + 1, Len(tail))
<1>7. k \in Int BY <1>4
<1> HIDE DEF tail
<1>8. older \in Seq(Marked) /\ kept \in Seq(Marked) /\ Paired(kept) BY <1>4, <1>7, TailCut
<1>9. CASE split = 0
  <2>1. Continue(r, rs[r]) BY <1>6, <1>9
  <2> DEFINE s == IF plan[r].next = "llm" THEN Counted(rs[r]) ELSE rs[r]
             to == plan[r].next
  <2>2. s \in RunStates /\ s.snapshot = rs[r].snapshot /\ s.savedTo = rs[r].savedTo
        /\ s.rounds = rs[r].rounds
    BY SessionFacts, CountedKeeps
  <2>3. rs' = [rs EXCEPT ![r] = s] /\ plan' = [plan EXCEPT ![r] = NoPlan] /\ Goes(r, to)
    BY <2>1 DEF Continue
  <2> HIDE DEF s
  <2>4. rs'[r] = s BY <2>2, <2>3, StatesAre
  <2>5. to \in {"llm", "loop"} BY <1>4
  <2> HIDE DEF to
  <2>6. to \in Saving /\ to \in Places BY <2>5 DEF Saving, Places, Active
  <2>7. NoPlan \in Plans BY DEF NoPlan, Plans
  <2>8. OnlyMoves(r, to) BY <1>2, <2>2, <2>3, <2>6, <2>7 DEF OnlyMoves
  <2>9. PlanStays(r, to) BY <2>5 DEF PlanStays
  <2> QED BY <1>1, <1>2, <2>2, <2>4, <2>6, <2>8, <2>9, Resting
<1>10. CASE split # 0
  <2> DEFINE new == [of |-> StandsFor(previous, older), pinned |-> Pinned(older, kept, previous), upTo |-> -1]
             p == [next |-> plan[r].next, kept |-> kept, upTo |-> -1, snapshot |-> new]
  <2>1. plan' = [plan EXCEPT ![r] = p] /\ Goes(r, "compactSave") /\ rs' = rs
    BY <1>6, <1>10 DEF tail
  <2>2. StandsFor(previous, older) \in Seq(MessageIds)
    <3> DEFINE recorded == IF previous = NoSnapshot THEN <<>> ELSE previous.of
    <3>1. recorded \in Seq(MessageIds) BY <1>5 DEF Memos
    <3>2. Said(older) \in Seq(MessageIds) BY <1>8, MarkedAre, RealSaid
    <3>3. StandsFor(previous, older) = recorded \o Said(older) BY DEF StandsFor
    <3> HIDE DEF recorded
    <3> QED BY <3>1, <3>2, <3>3, ConcatProperties
  <2>3. Pinned(older, kept, previous) \in Seq(UserMessages) BY <1>5, <1>8, PinnedAre
  <2>4. new \in Memos
    <3> HIDE DEF older, kept, previous
    <3> QED BY <2>2, <2>3 DEF Memos
  <2> HIDE DEF new
  <2>5. p \in Planned /\ p.kept = kept
    <3> HIDE DEF older, kept, previous
    <3> QED BY <1>4, <1>8, <2>4 DEF Planned
  <2>6. p \in Plans
    <3>1. kept \in Seq(RealMessages) /\ new \in Snapshots BY <1>8, <2>4, MarkedAre, MemosAre
    <3> HIDE DEF older, kept, previous
    <3> QED BY <1>4, <3>1 DEF Plans, FullPlans
  <2> HIDE DEF older, kept, previous, p
  <2>7. plan'[r] = p BY <2>1, StatesAre
  <2>8. OnlyMoves(r, "compactSave") BY <1>2, <2>1, <2>6 DEF OnlyMoves, Places, Active, Saving
  <2>9. PlanStays(r, "compactSave") BY <1>8, <2>5, <2>7 DEF PlanStays
  <2>10. "compactSave" \in Saving BY DEF Saving
  <2> QED BY <1>1, <1>2, <2>1, <2>8, <2>9, <2>10, Resting
<1> QED BY <1>9, <1>10

\* The session that a compaction leaves, all of it saved.
LEMMA CompactedIs ==
    ASSUME KeepInv, NEW r \in Runs, pc[r] \in Storing,
           NEW stored \in Snapshots \cup {NoSnapshot}, Compacted(r, stored), log' = log, said' = said
    PROVE  /\ plan[r].kept \in Seq(Marked) /\ Paired(plan[r].kept) /\ plan[r].snapshot \in Memos
           /\ rs'[r].snapshot = plan[r].snapshot /\ rs'[r].savedTo \in 0 .. Len(session'[r])
           /\ session'[r] = Opening(plan[r].snapshot) \o plan[r].kept
           /\ TailOf(r)' = plan[r].kept /\ Unsaved(r)' = <<>>
           /\ OnlyMoves(r, plan[r].next) /\ plan[r].next \in {"llm", "loop"} /\ pc'[r] = plan[r].next
<1> DEFINE kept == plan[r].kept
           snapshot == plan[r].snapshot
           front == Opening(snapshot)
           new == front \o kept
           s == SavedUpTo([rs[r] EXCEPT !.snapshot = snapshot, !.stored = stored], Len(new))
           t == IF plan[r].next = "llm" THEN Counted(s) ELSE s
           to == plan[r].next
<1>1. SessionIs(r) BY DEF KeepInv
<1>2. pc[r] \in Active /\ pc[r] # "compact" BY DEF Active, Storing
<1>3. /\ kept \in Seq(Marked) /\ Paired(kept) /\ snapshot \in Memos /\ snapshot \in Snapshots
      /\ to \in {"llm", "loop"}
  BY <1>1, MemosAre DEF SessionIs, Planned
<1>4. front \in Seq(Marked) /\ Paired(front) /\ Len(front) = 1 + Len(SummaryMessages(snapshot))
  BY <1>3, OpeningIs
<1>5. session' = [session EXCEPT ![r] = new] /\ Continue(r, s) BY DEF Compacted, Opening
<1> HIDE DEF front, kept, snapshot, to
<1>6. /\ new \in Seq(Marked) /\ SubSeq(new, Len(front) + 1, Len(new)) = kept
  BY <1>3, <1>4, CutAt
<1> HIDE DEF new
<1>7. new \in Seq(AnyMessages) /\ Len(new) \in Nat BY <1>6, MarkedAre
<1>8. s \in RunStates /\ s.snapshot = snapshot /\ s.savedTo = Len(new) /\ s.rounds = rs[r].rounds
  <2>1. rs[r] \in RunStates BY SessionFacts
  <2> QED BY <1>3, <1>7, <2>1 DEF SavedUpTo, RunStates
<1> HIDE DEF s
<1>9. t \in RunStates /\ t.snapshot = snapshot /\ t.savedTo = Len(new)
  BY <1>8, CountedKeeps
<1>10. rs' = [rs EXCEPT ![r] = t] /\ plan' = [plan EXCEPT ![r] = NoPlan] /\ Goes(r, to)
  BY <1>5 DEF Continue, to
<1> HIDE DEF t
<1>11. session'[r] = new
  <2>1. session \in [Runs -> MessagesType] BY DEF KeepInv, RunTypes
  <2> QED BY <1>5, <2>1
<1>12. rs'[r] = t BY <1>9, <1>10, StatesAre
<1>13. to \in Saving /\ to \in Places /\ to \notin Storing /\ to \in Active /\ to \in Looping
  BY <1>3 DEF Saving, Places, Active, Storing, Looping
<1>14. OnlyMoves(r, to)
  <2>1. NoPlan \in Plans BY DEF NoPlan, Plans
  <2> QED BY <1>5, <1>7, <1>9, <1>10, <1>13, <2>1 DEF OnlyMoves
<1>15. pc'[r] = to BY <1>14, OthersStay DEF KeepInv
<1>16. Unsaved(r)' = <<>> BY <1>7, <1>9, <1>11, <1>12, UnsavedNothing
<1>17. TailStart(r)' = Len(front) BY <1>4, <1>9, <1>12 DEF TailStart, SummaryMessages
<1>18. TailOf(r)' = kept BY <1>6, <1>11, <1>17 DEF TailOf
<1>19. session'[r] = front \o kept BY <1>11 DEF new
<1>20. rs'[r].savedTo \in 0 .. Len(session'[r]) BY <1>7, <1>9, <1>11, <1>12
<1> QED BY <1>3, <1>9, <1>12, <1>14, <1>15, <1>16, <1>18, <1>19, <1>20 DEF front, kept, snapshot, to

LEMMA CompactedKeeps ==
    ASSUME KeepInv, NEW r \in Runs, pc[r] \in Storing,
           NEW stored \in Snapshots \cup {NoSnapshot}, Compacted(r, stored),
           log' = log, said' = said, latest' \in Memos \cup {NoSnapshot}, lost' = lost
    PROVE  KeepInv'
<1>1. SessionIs(r) /\ SavedIs(r) BY DEF KeepInv
<1>2. /\ plan[r].kept \in Seq(Marked) /\ Paired(plan[r].kept) /\ plan[r].snapshot \in Memos
      /\ rs'[r].snapshot = plan[r].snapshot /\ rs'[r].savedTo \in 0 .. Len(session'[r])
      /\ session'[r] = Opening(plan[r].snapshot) \o plan[r].kept
      /\ TailOf(r)' = plan[r].kept /\ Unsaved(r)' = <<>>
      /\ OnlyMoves(r, plan[r].next) /\ plan[r].next \in {"llm", "loop"} /\ pc'[r] = plan[r].next
  BY CompactedIs
<1>3. pc'[r] \in Saving /\ pc'[r] \notin {"compact", "compactSave"} \cup Storing
  BY <1>2 DEF Saving, Storing
<1>4. SessionIs(r)'
  <2>1. SpokenBy(r)' = SpokenBy(r) BY DEF SpokenBy
  <2>2. <<>> \in Seq(SpokenBy(r)) /\ Paired(<<>>) BY PairedNothing
  <2>3. said'[r] \in Seq(SpokenBy(r)) BY <1>1 DEF SessionIs
  <2>4. Opening(rs[r].snapshot)' = Opening(rs'[r].snapshot) BY DEF Opening, SummaryMessages
  <2> QED BY <1>2, <1>3, <2>1, <2>2, <2>3, <2>4 DEF SessionIs
<1>5. SavedIs(r)'
  <2>1. lost = 0 => said[r] = SavedBy(r) BY <1>1 DEF SavedIs
  <2>2. SavedBy(r)' = SavedBy(r) BY DEF SavedBy
  <2>3. said[r] \o <<>> = said[r]
    <3>1. said[r] \in Seq(SpokenBy(r)) BY <1>1 DEF SessionIs
    <3> QED BY <3>1, ConcatEmptySeq
  <2>4. pc'[r] \notin {"new", "ended"} BY <1>2
  <2> QED BY <1>2, <1>3, <2>1, <2>2, <2>3, <2>4 DEF SavedIs
<1>6. lost' \in Nat /\ (lost' = 0 => lost = 0) BY DEF KeepInv
<1> QED BY <1>2, <1>4, <1>5, <1>6, Moved

LEMMA CompactStoreFailsKeeps == ASSUME KeepInv, NEW r \in Runs, CompactStoreFails(r) PROVE KeepInv'
<1>1. pc[r] \in Storing BY DEF CompactStoreFails, Storing
<1>2. /\ Compacted(r, rs[r].stored) /\ log' = log /\ latest' = latest /\ said' = said
      /\ lost' = lost
  BY DEF CompactStoreFails, Fault
<1>3. rs[r].stored \in Snapshots \cup {NoSnapshot} BY SessionFacts DEF RunStates
<1>4. latest' \in Memos \cup {NoSnapshot} BY <1>2 DEF KeepInv
<1> QED BY <1>1, <1>2, <1>3, <1>4, CompactedKeeps

LEMMA CompactStoreKeeps == ASSUME KeepInv, NEW r \in Runs, CompactStore(r) PROVE KeepInv'
<1> DEFINE snapshot == [plan[r].snapshot EXCEPT !.upTo = plan[r].upTo]
           ok == Cutoff(latest, rs[r].stored, plan[r].upTo, Len(log)) = "ok"
<1>1. pc[r] = "compactStore" /\ pc[r] \in Storing BY DEF CompactStore, Storing
<1>2. /\ log' = log /\ said' = said /\ lost' = lost
      /\ ok => latest' = snapshot /\ Compacted(r, snapshot)
      /\ ~ok => latest' = latest /\ Compacted(r, rs[r].stored)
  BY DEF CompactStore, bounds
<1>3. plan[r] \in Planned
  <2>1. SessionIs(r) BY DEF KeepInv
  <2> QED BY <1>1, <2>1 DEF SessionIs
<1>4. snapshot \in Memos /\ snapshot \in Snapshots
  <2>1. snapshot \in Memos BY <1>3 DEF Planned, Memos
  <2> QED BY <2>1, MemosAre
<1>5. latest \in Memos \cup {NoSnapshot} /\ rs[r].stored \in Snapshots \cup {NoSnapshot}
  BY SessionFacts DEF RunStates
<1> HIDE DEF ok, snapshot
<1>6. CASE ok BY <1>1, <1>2, <1>4, <1>6, CompactedKeeps
<1>7. CASE ~ok BY <1>1, <1>2, <1>5, <1>7, CompactedKeeps
<1> QED BY <1>6, <1>7

\* A split skips tool results only.
LEMMA SplitSkips ==
    ASSUME NEW S, NEW messages \in Seq(S), NEW n \in Int, NEW k \in 1 .. Len(messages), k > n,
           ~messages[k].tool
    PROVE  SplitPoint(messages, n) < k
<1> DEFINE from == IF n < 0 THEN 0 ELSE IF n > Len(messages) THEN Len(messages) ELSE n
           others == {i \in from + 1 .. Len(messages) : ~messages[i].tool}
<1>1. Len(messages) \in Nat /\ from \in 0 .. Len(messages) /\ k > from OBVIOUS
<1>2. k \in others BY <1>1
<1>3. SplitPoint(messages, n) = IF others = {} THEN Len(messages)
                                ELSE (CHOOSE i \in others : \A j \in others : i <= j) - 1
  BY DEF SplitPoint
<1>4. others \in SUBSET Nat BY <1>1
<1> DEFINE least == CHOOSE i \in others : \A j \in others : i <= j
<1>5. least \in others /\ \A j \in others : least <= j
  <2>1. \E i \in others : \A j \in others : i <= j BY <1>2, <1>4, LeastOf
  <2> HIDE DEF others
  <2> QED BY <2>1
<1>6. SplitPoint(messages, n) = least - 1 BY <1>2, <1>3
<1> HIDE DEF least, others
<1>7. least <= k /\ least \in Nat /\ k \in Nat BY <1>1, <1>2, <1>4, <1>5
<1> QED BY <1>6, <1>7

\* What a memory gives of its log: the end of it, from some message that is not a
\* result, and all that is not covered but results.
LEMMA GivenTail ==
    ASSUME log \in Seq(Marked), latest \in Memos \cup {NoSnapshot}
    PROVE  \E n \in 0 .. Len(log) :
               /\ Tail_(log, 0, latest)
                      = [i \in 1 .. Len(log) - n |-> [message |-> log[n + i], cursor |-> 0 + n + i - 1]]
               /\ n < Len(log) => ~log[n + 1].tool
               /\ \A j \in 1 .. Len(log) : j > Covered(latest) /\ ~log[j].tool => j > n
<1> DEFINE after == IF latest = NoSnapshot \/ latest.upTo + 1 < 0 THEN 0 ELSE latest.upTo + 1 - 0
           n == SplitPoint(log, after)
<1>1. after \in Int BY DEF Memos
<1>2. Tail_(log, 0, latest)
          = [i \in 1 .. Len(log) - n |-> [message |-> log[n + i], cursor |-> 0 + n + i - 1]]
  BY DEF Tail_
<1>3. ASSUME NEW j \in 1 .. Len(log), j > Covered(latest) PROVE j > after
  <2>1. latest # NoSnapshot => latest.upTo \in Int BY DEF Memos
  <2> QED BY <1>3, <2>1 DEF Covered
<1> HIDE DEF after
<1>4. n \in 0 .. Len(log) /\ (n < Len(log) => ~log[n + 1].tool)
  <2> HIDE DEF Marked
  <2> QED BY <1>1, SplitPointIs
<1>5. ASSUME NEW j \in 1 .. Len(log), j > Covered(latest), ~log[j].tool PROVE j > n
  <2>1. j > after BY <1>3, <1>5
  <2> HIDE DEF n
  <2>2. n < j
    <3> HIDE DEF Marked
    <3> QED BY <1>1, <1>5, <2>1, SplitSkips DEF n
  <2>3. n \in Int /\ j \in Int BY <1>4
  <2> QED BY <2>2, <2>3
<1> HIDE DEF n
<1> QED BY <1>2, <1>4, <1>5

\* The greatest of some numbers.
LEMMA GreatestIs ==
    ASSUME NEW n \in Int, NEW S \in SUBSET (0 .. n), S # {}
    PROVE  Max(S) \in S /\ \A y \in S : Max(S) >= y
<1>1. \E x \in S : \A y \in S : x >= y
  <2> DEFINE D == {n - y : y \in S}
  <2>1. D \in SUBSET Nat /\ D # {}
    <3>1. \A y \in S : n - y \in Nat OBVIOUS
    <3>2. \E y \in S : TRUE OBVIOUS
    <3> QED BY <3>1, <3>2
  <2>2. PICK d \in D : \A e \in D : d <= e
    <3> HIDE DEF D
    <3> QED BY <2>1, LeastOf
  <2>3. PICK x \in S : d = n - x OBVIOUS
  <2>4. ASSUME NEW y \in S PROVE x >= y
    <3>1. n - x <= n - y BY <2>2, <2>3
    <3>2. x \in Int /\ y \in Int OBVIOUS
    <3> QED BY <3>1, <3>2
  <2> QED BY <2>4
<1> QED BY <1>1 DEF Max

\* The cursor that a compaction gets, if any, is a cursor of the log, and the messages
\* that it keeps follow there.
LEMMA SomeCursor ==
    ASSUME KeepInv, NEW r \in Runs, pc[r] = "compactLoad"
    PROVE  LET behind == Tail_(log, 0, latest)
               logged == Picked(behind, {i \in DOMAIN behind : behind[i].message.kind # "empty"})
               tail == Replayable(TailOf(r))
               covered == Len(Replayable(SubSeq(TailOf(r), 1, Len(TailOf(r)) - Len(plan[r].kept))))
               starts == {s \in 0 .. Len(logged) - Len(tail) :
                             \A i \in DOMAIN tail : logged[s + i].message = tail[i]}
               upTo == LastCovered(logged, Max(starts), covered)
           IN  covered > 0 /\ starts # {} =>
                   /\ upTo \in Int
                   /\ \A i \in 1 .. Len(tail) - covered :
                          upTo + 1 + i \in DOMAIN log /\ log[upTo + 1 + i] = tail[covered + i]
<1> DEFINE behind == Tail_(log, 0, latest)
           logged == Picked(behind, {i \in DOMAIN behind : behind[i].message.kind # "empty"})
           tail == Replayable(TailOf(r))
           whole == TailOf(r)
           n == Len(whole) - Len(plan[r].kept)
           covered == Len(Replayable(SubSeq(whole, 1, n)))
           starts == {s \in 0 .. Len(logged) - Len(tail) :
                         \A i \in DOMAIN tail : logged[s + i].message = tail[i]}
           upTo == LastCovered(logged, Max(starts), covered)
<1> SUFFICES ASSUME covered > 0, starts # {}
             PROVE  /\ upTo \in Int
                    /\ \A i \in 1 .. Len(tail) - covered :
                           upTo + 1 + i \in DOMAIN log /\ log[upTo + 1 + i] = tail[covered + i]
  OBVIOUS
<1>1. SessionIs(r) /\ log \in Seq(Marked) /\ latest \in Memos \cup {NoSnapshot} BY DEF KeepInv
<1>2. pc[r] \in Active /\ pc[r] \in Storing BY DEF Active, Storing
<1>3. whole \in Seq(Marked) /\ plan[r].kept \in Seq(Marked) BY <1>1, <1>2 DEF SessionIs, Planned
<1>4. Len(whole) \in Nat /\ Len(plan[r].kept) \in Nat BY <1>3
<1> HIDE DEF whole
<1>5. tail = whole BY <1>3, MarkedAre, RealIsReplayable DEF whole
<1>6. covered \in 0 .. Len(tail)
  <2>1. n \in Int /\ n <= Len(whole) BY <1>4
  <2> HIDE DEF n
  <2>2. CASE n < 1
    <3>1. SubSeq(whole, 1, n) = <<>> BY <2>1, <2>2, SubSeqEmpty
    <3>2. Replayable(<<>>) = <<>> BY PickedNothing DEF Replayable
    <3>3. Len(Replayable(SubSeq(whole, 1, n))) = 0
      <4> DEFINE a == SubSeq(whole, 1, n)
      <4>1. a = <<>> BY <3>1
      <4> HIDE DEF a
      <4>2. Replayable(a) = <<>> BY <3>2, <4>1
      <4> QED BY <4>2 DEF a
    <3> QED BY <1>4, <1>5, <3>3
  <2>3. CASE n >= 1
    <3> DEFINE a == SubSeq(whole, 1, n)
    <3>1. n \in 0 .. Len(whole) BY <2>1, <2>3
    <3>2. a \in Seq(Marked) /\ Len(a) = n BY <1>3, <3>1, EndOf
    <3> HIDE DEF a
    <3>3. Replayable(a) = a BY <3>2, MarkedAre, RealIsReplayable
    <3>4. covered = n BY <3>2, <3>3 DEF a
    <3> QED BY <1>5, <3>1, <3>4
  <2>4. n < 1 \/ n >= 1 BY <2>1
  <2> QED BY <2>2, <2>3, <2>4
<1> HIDE DEF covered
<1>7. PICK m \in 0 .. Len(log) :
          behind = [i \in 1 .. Len(log) - m |-> [message |-> log[m + i], cursor |-> 0 + m + i - 1]]
  BY <1>1, GivenTail
<1> DEFINE B == [message : Marked, cursor : Int]
           z == Len(log) - m
           I == {i \in DOMAIN behind : behind[i].message.kind # "empty"}
           e(i) == [message |-> log[m + i], cursor |-> 0 + m + i - 1]
<1>8. z \in Nat BY <1>1
<1>9. \A i \in 1 .. z : e(i) \in B
  <2> SUFFICES ASSUME NEW i \in 1 .. z PROVE e(i) \in B OBVIOUS
  <2>1. m + i \in 1 .. Len(log) /\ 0 + m + i - 1 \in Int BY <1>1
  <2>2. log[m + i] \in Marked BY <1>1, <2>1
  <2> HIDE DEF Marked
  <2> QED BY <2>1, <2>2
<1>10. behind \in Seq(B) /\ Len(behind) = z
  <2>1. behind = [i \in 1 .. z |-> e(i)] BY <1>7
  <2> HIDE DEF e, B, z, behind
  <2> QED BY <1>8, <1>9, <2>1
<1>11. 1 .. Len(behind) \subseteq I
  <2>1. \A i \in 1 .. Len(behind) : behind[i] \in B
    <3> HIDE DEF behind, B
    <3> QED BY <1>10
  <2>2. \A x \in Marked : x.kind # "empty" BY DEF Marked, RealMessages
  <2>3. DOMAIN behind = 1 .. Len(behind)
    <3> HIDE DEF behind, B
    <3> QED BY <1>10
  <2> HIDE DEF behind, Marked
  <2> QED BY <2>1, <2>2, <2>3
<1>12. logged = behind
  <2>1. logged = Picked(behind, I) OBVIOUS
  <2> HIDE DEF behind, I, B, logged
  <2> QED BY <1>10, <1>11, <2>1, PickedAll
<1> DEFINE t == Len(tail)
<1>13. t \in Nat BY <1>4, <1>5
<1>14. Max(starts) \in starts
  <2>1. starts \in SUBSET (0 .. z - t) BY <1>10, <1>12
  <2>2. z - t \in Int BY <1>8, <1>13
  <2> HIDE DEF starts, z, t
  <2> QED BY <2>1, <2>2, GreatestIs
<1> DEFINE x == Max(starts)
<1>15. x \in 0 .. z - t /\ \A i \in 1 .. t : behind[x + i].message = tail[i]
  <2>1. x \in starts
    <3> HIDE DEF starts
    <3> QED BY <1>14
  <2>2. DOMAIN tail = 1 .. t
    <3>1. tail \in Seq(Marked) BY <1>3, <1>5
    <3> HIDE DEF tail
    <3> QED BY <3>1
  <2> HIDE DEF x, tail, logged
  <2>3. x \in 0 .. Len(logged) - Len(tail) /\ \A i \in DOMAIN tail : logged[x + i].message = tail[i]
    BY <2>1
  <2> HIDE DEF behind, starts, z
  <2>4. Len(logged) = z BY <1>10, <1>12
  <2>5. x \in 0 .. z - t BY <2>3, <2>4
  <2>6. \A i \in 1 .. t : behind[x + i].message = tail[i] BY <1>12, <2>2, <2>3
  <2> QED BY <2>5, <2>6
<1>16. \A i \in 1 .. z : behind[i].message = log[m + i] /\ behind[i].cursor = m + i - 1
  <2>1. ASSUME NEW i \in 1 .. z PROVE behind[i].message = log[m + i] /\ behind[i].cursor = m + i - 1
    <3>1. behind = [j \in 1 .. z |-> e(j)] BY <1>7
    <3> HIDE DEF behind, e
    <3>2. behind[i] = e(i) BY <3>1
    <3>3. e(i).message = log[m + i] /\ e(i).cursor = m + i - 1 BY DEF e
    <3> QED BY <3>2, <3>3
  <2> QED BY <2>1
<1>17. upTo = behind[x + covered].cursor BY <1>12 DEF LastCovered
<1>18. DOMAIN log = 1 .. Len(log) /\ Len(log) \in Nat BY <1>1
<1>19. covered \in 1 .. t BY <1>6, <1>13
<1>20. m \in Nat /\ z = Len(log) - m /\ x \in Nat /\ x + t <= z
  <2>1. m \in 0 .. Len(log) /\ z = Len(log) - m BY <1>7
  <2> HIDE DEF z, x, t
  <2> QED BY <1>8, <1>13, <1>15, <1>18, <2>1
<1> HIDE DEF behind, starts, z, t, tail, logged, x, upTo, e
<1>21. upTo = m + (x + covered) - 1 /\ upTo \in Int
  <2>1. x + covered \in 1 .. z BY <1>8, <1>13, <1>19, <1>20
  <2> QED BY <1>16, <1>17, <1>19, <1>20, <2>1
<1>22. ASSUME NEW i \in 1 .. t - covered
       PROVE  upTo + 1 + i \in DOMAIN log /\ log[upTo + 1 + i] = tail[covered + i]
  <2> DEFINE k == covered + i
             j == x + k
  <2>1. k \in 1 .. t BY <1>13, <1>19
  <2>2. upTo + 1 + i = m + (x + k) BY <1>19, <1>20, <1>21
  <2> HIDE DEF k
  <2>3. j \in 1 .. z /\ m + j \in 1 .. Len(log) BY <1>8, <1>13, <1>18, <1>20, <2>1
  <2>4. behind[j].message = tail[k] BY <1>15, <2>1
  <2> HIDE DEF j
  <2>5. behind[j].message = log[m + j] BY <1>16, <2>3
  <2> QED BY <1>18, <2>2, <2>3, <2>4, <2>5 DEF j, k
<1> QED BY <1>21, <1>22 DEF t

LEMMA CompactLoadKeeps == ASSUME KeepInv, NEW r \in Runs, CompactLoad(r) PROVE KeepInv'
<1> DEFINE behind == Tail_(log, 0, latest)
           logged == Picked(behind, {i \in DOMAIN behind : behind[i].message.kind # "empty"})
           tail == Replayable(TailOf(r))
           covered == Len(Replayable(SubSeq(TailOf(r), 1, Len(TailOf(r)) - Len(plan[r].kept))))
           starts == {s \in 0 .. Len(logged) - Len(tail) :
                         \A i \in DOMAIN tail : logged[s + i].message = tail[i]}
           upTo == LastCovered(logged, Max(starts), covered)
           found == Same(latest, rs[r].stored) /\ covered > 0 /\ starts # {}
<1>1. pc[r] = "compactLoad" /\ pc[r] \in Storing /\ pc[r] \in Active BY DEF CompactLoad, Storing, Active
<1>2. UNCHANGED <<log, latest, said, lost>> BY DEF CompactLoad, bounds
<1>3. /\ found => /\ plan' = [plan EXCEPT ![r].upTo = upTo]
                  /\ Goes(r, "compactStore") /\ UNCHANGED <<session, rs>>
      /\ ~found => Compacted(r, rs[r].stored)
  BY DEF CompactLoad
<1>4. found => upTo \in Int BY <1>1, SomeCursor
<1> HIDE DEF found, upTo, logged, tail, covered, starts
<1>5. latest' \in Memos \cup {NoSnapshot} /\ lost' \in Nat /\ (lost' = 0 => lost = 0)
  BY <1>2 DEF KeepInv
<1>6. CASE ~found
  <2>1. rs[r].stored \in Snapshots \cup {NoSnapshot} BY SessionFacts DEF RunStates
  <2> QED BY <1>1, <1>2, <1>3, <1>5, <1>6, <2>1, CompactedKeeps
<1>7. CASE found
  <2> DEFINE p == [plan[r] EXCEPT !.upTo = upTo]
  <2>1. plan' = [plan EXCEPT ![r] = p] /\ Goes(r, "compactStore") /\ session' = session /\ rs' = rs
    BY <1>3, <1>7
  <2>2. SessionIs(r) /\ SavedIs(r) BY DEF KeepInv
  <2>3. plan[r] \in Planned /\ Paired(plan[r].kept) BY <1>1, <2>2 DEF SessionIs
  <2>4. p \in Planned /\ p.kept = plan[r].kept BY <1>4, <1>7, <2>3 DEF Planned
  <2>5. p \in Plans
    <3>1. p.kept \in Seq(RealMessages) /\ p.snapshot \in Snapshots
      BY <2>4, MarkedAre, MemosAre DEF Planned
    <3> HIDE DEF p
    <3> QED BY <2>4, <3>1 DEF Planned, Plans, FullPlans
  <2> HIDE DEF p
  <2>6. OnlyMoves(r, "compactStore") BY <1>2, <2>1, <2>5 DEF OnlyMoves, Places, Active, Storing
  <2>7. pc'[r] = "compactStore" BY <2>6, OthersStay DEF KeepInv
  <2>8. plan'[r] = p BY <2>1, StatesAre
  <2>9. Unsaved(r)' = Unsaved(r) /\ TailOf(r)' = TailOf(r) BY <2>1 DEF Unsaved, TailOf, TailStart
  <2>10. SessionIs(r)'
    <3>1. SpokenBy(r)' = SpokenBy(r) BY DEF SpokenBy
    <3>2. pc'[r] \in Active /\ pc'[r] \in Storing /\ pc'[r] # "compact" BY <2>7 DEF Active, Storing
    <3>3. plan'[r] \in Planned /\ Paired(plan'[r].kept) BY <2>3, <2>4, <2>8
    <3>4. SessionIs(r) /\ said' = said BY <1>2, <2>2
    <3> QED BY <1>1, <2>1, <2>9, <3>1, <3>2, <3>3, <3>4 DEF SessionIs
  <2>11. SavedIs(r)'
    <3>1. lost = 0 => SavedBy(r) = said[r] BY <1>1, <2>2 DEF SavedIs
    <3>2. SavedBy(r)' = SavedBy(r) BY <1>2 DEF SavedBy
    <3> QED BY <1>2, <2>7, <3>1, <3>2 DEF SavedIs, Saving
  <2> QED BY <1>2, <1>5, <2>6, <2>10, <2>11, Moved
<1> QED BY <1>6, <1>7

-----------------------------------------------------------------------------
(* The start of a run, and the theorems. *)

LEMMA StartFailsKeeps == ASSUME KeepInv, NEW r \in Runs, StartFails(r) PROVE KeepInv'
<1>1. /\ pc[r] = "new" /\ Goes(r, "ended")
      /\ UNCHANGED <<log, latest, session, rs, plan, said, lost>>
  BY DEF StartFails, Fault
<1>2. OnlyMoves(r, "ended") BY <1>1 DEF OnlyMoves, Places, Idle
<1>3. pc'[r] = "ended" BY <1>2, OthersStay DEF KeepInv
<1>4. SessionIs(r) /\ SavedIs(r) BY DEF KeepInv
<1>5. SessionIs(r)'
  <2>1. SpokenBy(r)' = SpokenBy(r) BY DEF SpokenBy
  <2>2. "ended" \notin Active \cup Storing BY DEF Active, Saving, Storing
  <2> QED BY <1>1, <1>3, <1>4, <2>1, <2>2 DEF SessionIs
<1>6. SavedIs(r)'
  <2>1. SavedBy(r)' = SavedBy(r) /\ (lost = 0 => said[r] = <<>> /\ SavedBy(r) = <<>>)
    BY <1>1, <1>4 DEF SavedIs, SavedBy
  <2>2. IsPrefix(<<>>, <<>>)
    <3>1. <<>> \in Seq(Marked) OBVIOUS
    <3> QED BY <3>1, PrefixIs
  <2> QED BY <1>1, <1>3, <2>1, <2>2 DEF SavedIs, Saving, Storing
<1>7. lost' \in Nat /\ (lost' = 0 => lost = 0) /\ latest' \in Memos \cup {NoSnapshot} BY <1>1 DEF KeepInv
<1> QED BY <1>1, <1>2, <1>5, <1>6, <1>7, Moved

\* What a memory gives of its log, as the run reads it: whole rounds.
Restored == [i \in DOMAIN Tail_(log, 0, latest) |-> Tail_(log, 0, latest)[i].message]

LEMMA GivenMessages ==
    ASSUME log \in Seq(Marked), Paired(log), latest \in Memos \cup {NoSnapshot}
    PROVE  Restored \in Seq(Marked) /\ Paired(Restored) /\ Replayable(Restored) = Restored
<1> DEFINE tail == Tail_(log, 0, latest)
           rest == [i \in DOMAIN tail |-> tail[i].message]
<1>1. PICK m \in 0 .. Len(log) :
          /\ tail = [i \in 1 .. Len(log) - m |-> [message |-> log[m + i], cursor |-> 0 + m + i - 1]]
          /\ m < Len(log) => ~log[m + 1].tool
  BY GivenTail
<1> DEFINE head == SubSeq(log, 1, m)
           b == SubSeq(log, m + 1, Len(log))
<1>2. Len(log) \in Nat OBVIOUS
<1>3. head \in Seq(Marked) /\ b \in Seq(Marked) /\ Len(b) = Len(log) - m /\ log = head \o b BY EndOf
<1>4. ASSUME NEW i \in 1 .. Len(b) PROVE b[i] = log[m + i]
  <2>1. i \in 1 .. Len(log) - m BY <1>3
  <2>2. SubSeq(log, m + 1, Len(log))[i] = log[m + i] BY <1>2, <2>1
  <2> QED BY <2>2
<1>5. StartsWhole(b)
  <2>1. ASSUME b # <<>> PROVE ~b[1].tool
    <3>1. Len(b) # 0 BY <1>3, <2>1
    <3>2. m < Len(log) BY <1>2, <1>3, <3>1
    <3>3. b[1] = log[m + 1] BY <1>2, <3>2
    <3> QED BY <1>1, <3>2, <3>3
  <2> QED BY <2>1 DEF StartsWhole
<1> HIDE DEF head, b
<1>6. Paired(b) BY <1>3, <1>5, PairedEnd
<1>7. rest = b
  <2> DEFINE e(i) == [message |-> log[m + i], cursor |-> 0 + m + i - 1]
  <2>1. tail = [i \in 1 .. Len(b) |-> e(i)] BY <1>1, <1>3
  <2>2. \A i \in 1 .. Len(b) : e(i).message = b[i] BY <1>4
  <2> HIDE DEF tail, e
  <2>3. DOMAIN tail = 1 .. Len(b) /\ \A i \in 1 .. Len(b) : tail[i].message = b[i] BY <2>1, <2>2
  <2>4. rest = [i \in 1 .. Len(b) |-> b[i]] BY <2>3
  <2>5. b = [i \in 1 .. Len(b) |-> b[i]] BY <1>3
  <2> QED BY <2>4, <2>5
<1>8. Replayable(b) = b BY <1>3, MarkedAre, RealIsReplayable
<1> HIDE DEF rest
<1> QED BY <1>3, <1>6, <1>7, <1>8 DEF Restored, rest

LEMMA StartIs ==
    ASSUME KeepInv, NEW r \in Runs, Start(r)
    PROVE  \E input \in {<<>>, <<Msg("user", r, 1)>>} :
               /\ input \in Seq(Marked) /\ input \in Seq(SpokenBy(r)) /\ Paired(input)
               /\ said'[r] = input /\ Unsaved(r)' = input /\ TailOf(r)' = Restored \o input
               /\ session'[r] = Opening(latest) \o (Restored \o input)
               /\ Restored \o input \in Seq(Marked) /\ Paired(Restored \o input)
               /\ rs'[r].snapshot = latest /\ rs'[r].rounds = rs[r].rounds
               /\ rs'[r].savedTo \in 0 .. Len(session'[r])
               /\ OnlyMoves(r, "loop") /\ pc'[r] = "loop"
<1> DEFINE rest == Restored
           front == Opening(latest)
           loaded == front \o rest
           s == [rs[r] EXCEPT !.snapshot = latest, !.stored = latest, !.savedTo = Len(loaded)]
<1>1. pc[r] = "new" /\ Goes(r, "loop") /\ UNCHANGED <<log, latest, plan, lost>> BY DEF Start, bounds
<1>2. /\ log \in Seq(Marked) /\ Paired(log) /\ latest \in Memos \cup {NoSnapshot} /\ lost \in Nat
      /\ SessionIs(r) /\ SavedIs(r)
  BY DEF KeepInv
<1>3. rest \in Seq(Marked) /\ Paired(rest) /\ Replayable(rest) = rest BY <1>2, GivenMessages
<1>4. PICK input \in {<<>>, <<Msg("user", r, 1)>>} :
          /\ session' = [session EXCEPT ![r] = loaded \o input]
          /\ said' = [said EXCEPT ![r] = input]
          /\ rs' = [rs EXCEPT ![r].snapshot = latest, ![r].stored = latest,
                              ![r].savedTo = Len(loaded)]
  BY <1>3 DEF Start, Opening, Restored
<1> HIDE DEF rest
<1>5. input \in Seq(Marked) /\ input \in Seq(SpokenBy(r)) /\ Paired(input)
  <2> DEFINE m == Msg("user", r, 1)
  <2>1. m \in Marked /\ m \in SpokenBy(r) /\ m.kind = "user" BY MsgSpoken
  <2> HIDE DEF m
  <2>2. CASE input = <<>>
    <3>1. <<>> \in Seq(Marked) /\ <<>> \in Seq(SpokenBy(r)) OBVIOUS
    <3> QED BY <2>2, <3>1, PairedNothing
  <2>3. CASE input = <<m>>
    <3>1. <<m>> \in Seq(Marked) /\ <<m>> \in Seq(SpokenBy(r)) BY <2>1
    <3>2. \A i \in 1 .. Len(<<m>>) : <<m>>[i].kind \notin {"call", "tool"} BY <2>1
    <3> QED BY <2>3, <3>1, <3>2, PairedPlain
  <2> QED BY <1>4, <2>2, <2>3 DEF m
<1>6. /\ front \in Seq(Marked) /\ Len(front) = 1 + Len(SummaryMessages(latest))
      /\ Len(front) \in Nat
  BY <1>2, OpeningIs
<1> HIDE DEF front
<1>7. rest \o input \in Seq(Marked) /\ Paired(rest \o input) BY <1>3, <1>5, PairedBoth
<1>8. loaded \in Seq(Marked) /\ Len(loaded) \in Nat BY <1>3, <1>6, CutAt
<1> DEFINE new == loaded \o input
<1>9. /\ new \in Seq(Marked) /\ Len(new) = Len(loaded) + Len(input) /\ Len(input) \in Nat
      /\ SubSeq(new, Len(loaded) + 1, Len(new)) = input
  <2> HIDE DEF loaded
  <2> QED BY <1>5, <1>8, CutAt, SMTT(30)
<1>10. new = front \o (rest \o input) BY <1>3, <1>5, <1>6, MarkedJoined
<1>11. SubSeq(new, Len(front) + 1, Len(new)) = rest \o input
  <2> DEFINE a == rest \o input
  <2>1. a \in Seq(Marked) /\ new = front \o a BY <1>7, <1>10
  <2> HIDE DEF a, new
  <2>2. SubSeq(front \o a, Len(front) + 1, Len(front \o a)) = a BY <1>6, <2>1, CutAt
  <2>3. SubSeq(new, Len(front) + 1, Len(new)) = a BY <2>1, <2>2
  <2> QED BY <2>3 DEF a
<1>12. s \in RunStates /\ s.snapshot = latest /\ s.savedTo = Len(loaded) /\ s.rounds = rs[r].rounds
  <2>1. latest \in Snapshots \cup {NoSnapshot} /\ rs[r] \in RunStates BY <1>2, MemosAre, SessionFacts
  <2> HIDE DEF loaded
  <2> QED BY <1>8, <2>1 DEF RunStates
<1>13. rs' = [rs EXCEPT ![r] = s]
  <2> HIDE DEF loaded
  <2> QED BY <1>4, StatesAre
<1> HIDE DEF s, loaded
<1>14. rs'[r] = s BY <1>12, <1>13, StatesAre
<1>15. session'[r] = new /\ said'[r] = input
  <2>1. session \in [Runs -> MessagesType] /\ said \in [Runs -> Seq(RealMessages)]
    BY DEF KeepInv, RunTypes
  <2> QED BY <1>4, <2>1
<1> HIDE DEF new
<1>16. OnlyMoves(r, "loop")
  <2>1. new \in Seq(AnyMessages) /\ input \in Seq(RealMessages) BY <1>5, <1>9, MarkedAre
  <2>2. \E z \in Seq(AnyMessages) : session' = [session EXCEPT ![r] = z] BY <1>4, <2>1 DEF new
  <2>3. \E z \in Seq(RealMessages) : said' = [said EXCEPT ![r] = z] BY <1>4, <2>1
  <2> QED BY <1>1, <1>12, <1>13, <2>2, <2>3 DEF OnlyMoves, Places, Active, Saving
<1>17. pc'[r] = "loop" BY <1>16, OthersStay DEF KeepInv
<1>18. TailStart(r)' = Len(front) BY <1>6, <1>12, <1>14 DEF TailStart, SummaryMessages
<1>19. TailOf(r)' = rest \o input BY <1>11, <1>15, <1>18 DEF TailOf
<1>20. Unsaved(r)' = input
  <2>1. Unsaved(r)' = Replayable(SubSeq(new, Len(loaded) + 1, Len(new))) BY <1>12, <1>14, <1>15 DEF Unsaved
  <2>2. Replayable(input) = input BY <1>5, MarkedAre, RealIsReplayable
  <2> QED BY <1>9, <2>1, <2>2
<1>21. rs'[r].savedTo \in 0 .. Len(session'[r]) BY <1>8, <1>9, <1>12, <1>14, <1>15
<1> QED BY <1>4, <1>5, <1>7, <1>10, <1>12, <1>14, <1>15, <1>16, <1>17, <1>19, <1>20, <1>21 DEF front, rest

LEMMA StartKeeps == ASSUME KeepInv, NEW r \in Runs, Start(r) PROVE KeepInv'
<1>1. pc[r] = "new" /\ UNCHANGED <<log, latest, plan, lost>> BY DEF Start, bounds
<1>2. latest \in Memos \cup {NoSnapshot} /\ lost \in Nat /\ SavedIs(r) BY DEF KeepInv
<1>3. PICK input :
          /\ input \in Seq(Marked) /\ input \in Seq(SpokenBy(r)) /\ Paired(input)
          /\ said'[r] = input /\ Unsaved(r)' = input /\ TailOf(r)' = Restored \o input
          /\ session'[r] = Opening(latest) \o (Restored \o input)
          /\ Restored \o input \in Seq(Marked) /\ Paired(Restored \o input)
          /\ rs'[r].snapshot = latest /\ rs'[r].rounds = rs[r].rounds
          /\ rs'[r].savedTo \in 0 .. Len(session'[r])
          /\ OnlyMoves(r, "loop") /\ pc'[r] = "loop"
  BY StartIs
<1>4. SessionIs(r)'
  <2>1. SpokenBy(r)' = SpokenBy(r) BY DEF SpokenBy
  <2>2. Opening(rs[r].snapshot)' = Opening(rs'[r].snapshot) BY DEF Opening, SummaryMessages
  <2>3. pc'[r] \notin {"compactSave", "compact"} \cup Storing BY <1>3 DEF Storing
  <2> QED BY <1>2, <1>3, <2>1, <2>2, <2>3 DEF SessionIs
<1>5. SavedIs(r)'
  <2>1. lost = 0 => SavedBy(r) = <<>> BY <1>1, <1>2 DEF SavedIs
  <2>2. SavedBy(r)' = SavedBy(r) BY <1>1 DEF SavedBy
  <2>3. <<>> \o input = input BY <1>3, ConcatEmptySeq
  <2>4. ~(rs'[r].rounds > 0)
    <3>1. rs'[r].rounds = 0 BY <1>1, <1>2, <1>3 DEF SavedIs
    <3> QED BY <3>1
  <2>5. lost' = 0 => said'[r] = SavedBy(r)' \o Unsaved(r)' BY <1>1, <1>3, <2>1, <2>2, <2>3
  <2>6. pc'[r] \notin {"new", "ended"} \cup Storing BY <1>3 DEF Storing
  <2> QED BY <2>4, <2>5, <2>6 DEF SavedIs
<1>6. lost' \in Nat /\ (lost' = 0 => lost = 0) /\ latest' \in Memos \cup {NoSnapshot} BY <1>1, <1>2
<1> QED BY <1>1, <1>3, <1>4, <1>5, <1>6, Moved

LEMMA KeepStart == Init => KeepInv
<1> SUFFICES ASSUME Init PROVE KeepInv OBVIOUS
<1>1. /\ log = <<>> /\ latest = NoSnapshot /\ lost = 0 /\ pc = [r \in Runs |-> "new"]
      /\ rs = [r \in Runs |-> NewRun] /\ said = [r \in Runs |-> <<>>]
  BY DEF Init
<1>2. RunTypes BY RunsStart DEF RunInv
<1>3. log \in Seq(Marked) /\ Paired(log) BY <1>1, PairedNothing
<1>4. ASSUME NEW r \in Runs PROVE SessionIs(r) /\ SavedIs(r)
  <2>1. pc[r] = "new" /\ said[r] = <<>> /\ rs[r].snapshot = NoSnapshot /\ rs[r].rounds = 0
    BY <1>1 DEF NewRun
  <2>2. SavedBy(r) = <<>> BY <1>1, PickedNothing DEF SavedBy
  <2>3. SessionIs(r) BY <2>1 DEF SessionIs, Active, Saving, Storing
  <2>4. SavedIs(r) BY <2>1, <2>2 DEF SavedIs, Saving, Storing
  <2> QED BY <2>3, <2>4
<1> QED BY <1>1, <1>2, <1>3, <1>4 DEF KeepInv

LEMMA KeepStep == ASSUME KeepInv, [Next]_vars PROVE KeepInv'
<1>1. CASE UNCHANGED vars
  <2>1. UNCHANGED <<log, latest, pc, session, rs, plan, said, lost>> BY <1>1 DEF vars
  <2>2. RunTypes' /\ (lost \in Nat)' /\ (log \in Seq(Marked) /\ Paired(log))'
    BY <2>1 DEF KeepInv, RunTypes, Paired, Author
  <2>3. ASSUME NEW q \in Runs PROVE (SessionIs(q) /\ SavedIs(q))'
    <3>1. SessionIs(q) /\ SavedIs(q) /\ SavedBy(q)' = SavedBy(q) BY <2>1 DEF KeepInv, SavedBy
    <3> QED BY <2>1, <3>1, StillKept
  <2>4. latest' \in Memos \cup {NoSnapshot} BY <2>1 DEF KeepInv
  <2> QED BY <2>2, <2>3, <2>4 DEF KeepInv
<1>2. ASSUME NEW r \in Runs, Start(r) PROVE KeepInv' BY <1>2, StartKeeps
<1>3. ASSUME NEW r \in Runs, StartFails(r) PROVE KeepInv' BY <1>3, StartFailsKeeps
<1>4. ASSUME NEW r \in Runs, Step(r) PROVE KeepInv'
  BY <1>4, RestsLoopEnds, RestsLoopCompacts, RestsLoopCalls, AnswersKeep, CallsToolsKeep,
     RestsLLMFails, RestsContextTooLong, CheckpointSavedKeeps, SaveEndsRunKeeps, FinishKeeps,
     CompactPlanKeeps, RestsCompactFails, CompactSavedKeeps, CompactLoadKeeps,
     CompactStoreFailsKeeps, CompactStoreKeeps
  DEF Step
<1> QED BY <1>1, <1>2, <1>3, <1>4 DEF Next

LEMMA KeptIsOnce == KeepInv /\ lost = 0 => EveryMessageOnce
<1> SUFFICES ASSUME KeepInv, lost = 0, NEW r \in Runs
             PROVE  /\ IsPrefix(SavedBy(r), said[r])
                    /\ pc[r] = "ended" /\ ~rs[r].saveFailed => SavedBy(r) = said[r]
                    /\ Checkpoint /\ pc[r] \in {"loop", "llm"} /\ rs[r].rounds > 0 =>
                           SavedBy(r) = said[r]
  BY DEF EveryMessageOnce
<1> DEFINE b == SavedBy(r)
           u == Unsaved(r)
<1>1. SessionIs(r) /\ SavedIs(r) /\ pc[r] \in Idle \cup Saving \cup Storing \cup {"finish"}
  BY DEF KeepInv, RunTypes
<1>2. b \in Seq(Marked) /\ said[r] \in Seq(Marked) BY <1>1, SavedIsSeq, SpokenAre DEF KeepInv, SessionIs
<1>3. pc[r] \in Saving \cup {"finish"} => u \in Seq(Marked) /\ said[r] = b \o u
  BY <1>1, SpokenAre DEF SessionIs, SavedIs, Active
<1>4. pc[r] \in Storing \/ pc[r] = "new" => b = said[r] BY <1>1 DEF SavedIs
<1>5. pc[r] = "ended" => IsPrefix(b, said[r]) /\ (~rs[r].saveFailed => b = said[r])
  BY <1>1 DEF SavedIs
<1>6. Checkpoint /\ pc[r] \in {"loop", "llm"} /\ rs[r].rounds > 0 => u = <<>> BY <1>1 DEF SavedIs
<1> HIDE DEF b, u
<1>7. IsPrefix(b, b) /\ (u \in Seq(Marked) => IsPrefix(b, b \o u)) BY <1>2, PrefixIs
<1>8. IsPrefix(b, said[r]) BY <1>1, <1>3, <1>4, <1>5, <1>7 DEF Idle
<1>9. b \o <<>> = b BY <1>2, ConcatEmptySeq
<1>10. Checkpoint /\ pc[r] \in {"loop", "llm"} /\ rs[r].rounds > 0 => b = said[r]
  BY <1>3, <1>6, <1>9 DEF Saving
<1> QED BY <1>5, <1>8, <1>10 DEF b

LEMMA KeptIsWhole == KeepInv => RoundsAreWhole
<1> SUFFICES ASSUME KeepInv PROVE RoundsAreWhole OBVIOUS
<1>1. Paired(log) BY DEF KeepInv
<1>2. ASSUME NEW r \in Runs, pc[r] = "llm" PROVE Paired(session[r])
  BY <1>2, SessionFacts DEF Active, Saving
<1> QED BY <1>1, <1>2 DEF RoundsAreWhole

\* The memory keeps every message of every run once, in its order, through
\* checkpoints, compactions, failed saves and runs that overlap, as long as no save
\* that was made reported an error, and never parts a tool call from its results, nor
\* does a prompt (saveCheckpoint, finishRun and compactSession of agent/agent.go,
\* SplitPoint of memory/split.go).
THEOREM MemoryStaysWhole == Spec => []MemoryIsWhole
<1>1. Init => KeepInv BY KeepStart
<1>2. KeepInv /\ [Next]_vars => KeepInv' BY KeepStep
<1>3. KeepInv => MemoryIsWhole BY KeptIsOnce, KeptIsWhole DEF MemoryIsWhole
<1> QED BY <1>1, <1>2, <1>3, PTL DEF Spec

-----------------------------------------------------------------------------
(* The user's task: the inductive invariant. *)

\* What the runs have said, and the names of it.
Uttered == UNION {{said[q][n] : n \in DOMAIN said[q]} : q \in Runs}
UtteredIds == UNION {{<<q, n>> : n \in DOMAIN said[q]} : q \in Runs}

HasUser(messages) == \E i \in DOMAIN messages : messages[i].kind = "user"

\* The last of some messages, by their names, that is the user's.
IsTask(ids, i, users) == ids[i] \in users /\ \A j \in DOMAIN ids : j > i => ids[j] \notin users
Holds(messages, id) == \E i \in DOMAIN messages : messages[i].kind = "user" /\ messages[i].of[1] = id

\* A snapshot pins the last user message that it stands for, unless a later one is
\* seen after it.
Remembers(s, seen, names, users) ==
    /\ s.of \in Seq(names)
    /\ seen \/ \A i \in DOMAIN s.of : IsTask(s.of, i, users) => Holds(s.pinned, s.of[i])
SeesTask(s, seen, names, users) == s # NoSnapshot => Remembers(s, seen, names, users)

InOrder(r) ==
    \A n \in DOMAIN said[r] :
        /\ said[r][n].of = <<<<r, n>>>> /\ said[r][n].kind \in {"user", "answer", "call", "tool"}
        /\ said[r][n].kind = "user" => n = 1

\* A session is made of what was said, after a snapshot that remembers the task; what
\* a compaction keeps is the end of it, and of the log once its cursor is known.
SightIs(r) ==
    /\ InOrder(r) /\ (pc[r] = "new" => said[r] = <<>>)
    /\ pc[r] \in Active =>
           /\ TailOf(r) \in Seq(Uttered)
           /\ SeesTask(rs[r].snapshot, HasUser(TailOf(r)), UtteredIds, UserIds)
    /\ pc[r] \in Active \cup {"finish"} => Unsaved(r) \in Seq(Uttered)
    /\ pc[r] \in {"compactSave"} \cup Storing =>
           /\ plan[r].kept \in Seq(Uttered)
           /\ Remembers(plan[r].snapshot, HasUser(plan[r].kept), UtteredIds, UserIds)
           /\ \E older \in Seq(Uttered) : TailOf(r) = older \o plan[r].kept
    /\ pc[r] = "compactStore" =>
           \A i \in 1 .. Len(plan[r].kept) :
               plan[r].upTo + 1 + i \in DOMAIN log /\ log[plan[r].upTo + 1 + i] = plan[r].kept[i]

UserAfter(s) == \E j \in DOMAIN log : j > Covered(s) /\ log[j].kind = "user"

SightInv ==
    /\ log \in Seq(Uttered) /\ SeesTask(latest, UserAfter(latest), UtteredIds, UserIds)
    /\ \A r \in Runs : SightIs(r)

-----------------------------------------------------------------------------
(* What was said, and who said it. *)

Singles == {m \in Marked : \E id \in MessageIds : m.of = <<id>>}

LEMMA UtteredAre ==
    ASSUME KeepInv, SightInv
    PROVE  /\ Uttered \subseteq Singles
           /\ \A m \in Uttered : m.of[1] \in UtteredIds /\ (m.kind = "user" <=> m.of[1] \in UserIds)
           /\ UtteredIds \subseteq MessageIds
<1>1. ASSUME NEW q \in Runs, NEW n \in DOMAIN said[q]
      PROVE  /\ said[q][n] \in Marked /\ said[q][n].of = <<<<q, n>>>> /\ <<q, n>> \in MessageIds
             /\ <<q, n>> \in UtteredIds
             /\ said[q][n].kind = "user" <=> <<q, n>> \in UserIds
  <2>1. said[q] \in Seq(Marked) BY SessionFacts, SpokenAre
  <2>2. said[q][n] \in Marked /\ n \in Nat \ {0} /\ 1 \in DOMAIN said[q] /\ said[q] # <<>>
    <3> HIDE DEF Marked
    <3> QED BY <2>1
  <2>3. said[q][n].of = <<<<q, n>>>> /\ (said[q][n].kind = "user" => n = 1) BY DEF SightInv, SightIs, InOrder
  <2>4. <<q, n>> \in MessageIds BY <2>2 DEF MessageIds
  <2>5. <<q, n>> \in UserIds <=> n = 1 /\ said[q][1].kind = "user" BY <2>2 DEF UserIds
  <2>6. <<q, n>> \in UtteredIds BY DEF UtteredIds
  <2> QED BY <2>2, <2>3, <2>4, <2>5, <2>6
<1>2. ASSUME NEW m \in Uttered
      PROVE  m \in Singles /\ m.of[1] \in UtteredIds /\ (m.kind = "user" <=> m.of[1] \in UserIds)
  <2>1. PICK q \in Runs : \E n \in DOMAIN said[q] : m = said[q][n] BY DEF Uttered
  <2>2. PICK n \in DOMAIN said[q] : m = said[q][n] BY <2>1
  <2>3. /\ m \in Marked /\ m.of = <<<<q, n>>>> /\ <<q, n>> \in MessageIds /\ <<q, n>> \in UtteredIds
        /\ m.kind = "user" <=> <<q, n>> \in UserIds
    BY <1>1, <2>2
  <2>4. m.of[1] = <<q, n>> BY <2>3
  <2>5. m \in Singles BY <2>3 DEF Singles
  <2> QED BY <2>3, <2>4, <2>5
<1>3. UtteredIds \subseteq MessageIds
  <2> SUFFICES ASSUME NEW id \in UtteredIds PROVE id \in MessageIds OBVIOUS
  <2>1. PICK q \in Runs : \E n \in DOMAIN said[q] : id = <<q, n>> BY DEF UtteredIds
  <2> QED BY <1>1, <2>1
<1> QED BY <1>2, <1>3

\* Messages that stand for themselves say their names.
NamesOf(s) == [i \in 1 .. Len(s) |-> s[i].of[1]]

LEMMA SinglesSay ==
    ASSUME NEW s \in Seq(Singles)
    PROVE  Said(s) = NamesOf(s)
<1> DEFINE M == Singles
           n == Len(s)
<1>1. \A m \in M : m.of \in Seq(MessageIds) /\ \E id \in MessageIds : m.of = <<id>>
  BY DEF Singles, Marked, RealMessages
<1>2. n \in Nat /\ \A i \in 1 .. n : s[i] \in M
  <2> HIDE DEF M
  <2>1. s \in Seq(M) BY DEF M
  <2> QED BY <2>1
<1>3. PICK f \in [0 .. n -> Seq(MessageIds)] :
          /\ f[0] = <<>> /\ \A i \in 1 .. n : f[i] = f[i - 1] \o s[i].of
          /\ Said(s) = f[n]
  <2> HIDE DEF M
  <2>1. s \in Seq(M) BY DEF M
  <2> QED BY <1>1, <2>1, SaidBy
<1>4. \A i \in 1 .. n : s[i].of[1] \in MessageIds /\ s[i].of = <<s[i].of[1]>>
  <2> SUFFICES ASSUME NEW i \in 1 .. n PROVE s[i].of[1] \in MessageIds /\ s[i].of = <<s[i].of[1]>>
    OBVIOUS
  <2>1. PICK id \in MessageIds : s[i].of = <<id>> BY <1>1, <1>2
  <2> DEFINE o == s[i].of
  <2>2. o = <<id>> BY <2>1
  <2> HIDE DEF o
  <2> QED BY <2>2 DEF o
<1> DEFINE g(k) == [i \in 1 .. k |-> s[i].of[1]]
           Q == {k \in 0 .. n : f[k] = g(k)}
<1>5. 0 \in Q
  <2>1. g(0) = <<>> OBVIOUS
  <2> QED BY <1>2, <1>3, <2>1
<1>6. ASSUME NEW k \in 1 .. n, k - 1 \in Q PROVE k \in Q
  <2> DEFINE x == s[k].of[1]
             a == f[k - 1]
  <2>1. f[k] = a \o <<x>> /\ x \in MessageIds
    <3>1. f[k] = f[k - 1] \o s[k].of BY <1>3
    <3>2. s[k].of = <<s[k].of[1]>> /\ s[k].of[1] \in MessageIds BY <1>4
    <3> QED BY <3>1, <3>2
  <2>2. a = g(k - 1) BY <1>6
  <2>3. a \in Seq(MessageIds) /\ Len(a) = k - 1 /\ \A i \in 1 .. k - 1 : a[i] = s[i].of[1]
    <3>1. \A i \in 1 .. k - 1 : s[i].of[1] \in MessageIds BY <1>2, <1>4
    <3>2. k - 1 \in Nat BY <1>2
    <3> HIDE DEF a
    <3> QED BY <2>2, <3>1, <3>2
  <2> HIDE DEF a, x
  <2>4. a \o <<x>> = g(k)
    <3>1. a \o <<x>> = [i \in 1 .. k |-> IF i <= k - 1 THEN a[i] ELSE x]
      BY <2>1, <2>3
    <3>2. \A i \in 1 .. k : (IF i <= k - 1 THEN a[i] ELSE x) = s[i].of[1]
      <4> SUFFICES ASSUME NEW i \in 1 .. k PROVE (IF i <= k - 1 THEN a[i] ELSE x) = s[i].of[1] OBVIOUS
      <4>1. i <= k - 1 => i \in 1 .. k - 1 BY <1>2
      <4>2. ~(i <= k - 1) => i = k BY <1>2
      <4> QED BY <2>3, <4>1, <4>2 DEF x
    <3> QED BY <3>1, <3>2
  <2>5. k \in 0 .. n BY <1>2
  <2> HIDE DEF g
  <2>6. f[k] = g(k) BY <2>1, <2>4
  <2> QED BY <2>5, <2>6
<1>7. \A k \in 0 .. n : k \in Q
  <2> HIDE DEF Q
  <2> QED BY <1>2, <1>5, <1>6, AllUpTo
<1>8. f[n] = g(n) BY <1>2, <1>7
<1> QED BY <1>3, <1>8 DEF NamesOf

LEMMA JoinedAt ==
    ASSUME NEW T, NEW a \in Seq(T), NEW b \in Seq(T)
    PROVE  /\ DOMAIN (a \o b) = 1 .. Len(a) + Len(b)
           /\ \A k \in 1 .. Len(a) : (a \o b)[k] = a[k]
           /\ \A k \in 1 .. Len(b) : (a \o b)[Len(a) + k] = b[k]
OBVIOUS

LEMMA Grown ==
    ASSUME NEW T, NEW s \in Seq(T), NEW m \in Seq(T)
    PROVE  \A i \in DOMAIN s : i \in DOMAIN (s \o m) /\ (s \o m)[i] = s[i]
<1>1. DOMAIN (s \o m) = 1 .. Len(s) + Len(m) /\ \A k \in 1 .. Len(s) : (s \o m)[k] = s[k] BY JoinedAt
<1>2. DOMAIN s = 1 .. Len(s) /\ Len(s) \in Nat /\ Len(m) \in Nat OBVIOUS
<1> QED BY <1>1, <1>2

\* The user's last message, of a summary's names and of what follows it.
TaskOf(a, s, ids, i) ==
    /\ HasUser(s) =>
           \E k \in 1 .. Len(s) :
               /\ s[k].kind = "user" /\ ids[i] = s[k].of[1]
               /\ \A j \in 1 .. Len(s) : j > k => s[j].kind # "user"
    /\ ~HasUser(s) => i \in DOMAIN a /\ IsTask(a, i, UserIds) /\ ids[i] = a[i]

LEMMA TaskOfBoth ==
    ASSUME KeepInv, SightInv, NEW a \in Seq(UtteredIds), NEW s \in Seq(Uttered), NEW ids,
           ids = a \o NamesOf(s), NEW i \in DOMAIN ids, IsTask(ids, i, UserIds)
    PROVE  TaskOf(a, s, ids, i)
<1> DEFINE n == Len(a)
           m == Len(s)
           b == NamesOf(s)
<1>1. n \in Nat /\ m \in Nat /\ DOMAIN s = 1 .. m /\ DOMAIN a = 1 .. n OBVIOUS
<1>2. \A k \in 1 .. m : s[k].of[1] \in UtteredIds /\ (s[k].kind = "user" <=> s[k].of[1] \in UserIds)
  <2>1. \A k \in 1 .. m : s[k] \in Uttered OBVIOUS
  <2> QED BY <2>1, UtteredAre
<1>3. b \in Seq(UtteredIds) /\ Len(b) = m /\ \A k \in 1 .. m : b[k] = s[k].of[1]
  BY <1>1, <1>2 DEF NamesOf
<1>4. /\ DOMAIN ids = 1 .. n + m
      /\ \A k \in 1 .. n : ids[k] = a[k]
      /\ \A k \in 1 .. m : ids[n + k] = s[k].of[1]
  <2>1. a \in Seq(UtteredIds) /\ b \in Seq(UtteredIds) /\ ids = a \o b BY <1>3
  <2> HIDE DEF b
  <2>2. /\ DOMAIN (a \o b) = 1 .. Len(a) + Len(b) /\ \A k \in 1 .. Len(a) : (a \o b)[k] = a[k]
        /\ \A k \in 1 .. Len(b) : (a \o b)[Len(a) + k] = b[k]
    BY <2>1, JoinedAt
  <2>3. Len(b) = m /\ \A k \in 1 .. m : b[k] = s[k].of[1] BY <1>3
  <2> HIDE DEF m
  <2> QED BY <2>1, <2>2, <2>3
<1> HIDE DEF n, m, b
<1>5. i \in 1 .. n + m /\ ids[i] \in UserIds /\ \A j \in 1 .. n + m : j > i => ids[j] \notin UserIds
  BY <1>4 DEF IsTask
<1>6. ASSUME HasUser(s)
      PROVE  \E k \in 1 .. m :
                 /\ s[k].kind = "user" /\ ids[i] = s[k].of[1]
                 /\ \A j \in 1 .. m : j > k => s[j].kind # "user"
  <2>1. PICK l \in 1 .. m : s[l].kind = "user" BY <1>1, <1>6 DEF HasUser
  <2>2. ids[n + l] \in UserIds /\ n + l \in 1 .. n + m BY <1>1, <1>2, <1>4, <2>1
  <2>3. i >= n + l
    <3>1. ASSUME n + l > i PROVE FALSE BY <1>5, <2>2, <3>1
    <3>2. i \in Int /\ n + l \in Int BY <1>1, <1>5
    <3> QED BY <3>1, <3>2
  <2> DEFINE k == i - n
  <2>4. k \in 1 .. m /\ i = n + k
    <3>1. i \in 1 .. n + m BY <1>5
    <3> QED BY <1>1, <2>3, <3>1
  <2> HIDE DEF k
  <2>5. s[k].kind = "user" /\ ids[i] = s[k].of[1] BY <1>2, <1>4, <1>5, <2>4
  <2>6. ASSUME NEW j \in 1 .. m, j > k PROVE s[j].kind # "user"
    <3>1. n + j \in 1 .. n + m /\ n + j > i BY <1>1, <2>4, <2>6
    <3> QED BY <1>2, <1>4, <1>5, <3>1
  <2> QED BY <2>4, <2>5, <2>6
<1>7. ASSUME ~HasUser(s) PROVE i \in DOMAIN a /\ IsTask(a, i, UserIds) /\ ids[i] = a[i]
  <2>1. i \in 1 .. n
    <3>1. ASSUME i > n PROVE FALSE
      <4> DEFINE k == i - n
      <4>1. k \in 1 .. m /\ i = n + k BY <1>1, <1>5, <3>1
      <4> HIDE DEF k
      <4> QED BY <1>1, <1>2, <1>4, <1>5, <1>7, <4>1 DEF HasUser
    <3> QED BY <1>1, <1>5, <3>1
  <2>2. \A j \in 1 .. n : j \in 1 .. n + m BY <1>1
  <2>3. IsTask(a, i, UserIds) BY <1>1, <1>4, <1>5, <2>1, <2>2 DEF IsTask
  <2> QED BY <1>1, <1>4, <2>1, <2>3
<1> QED BY <1>6, <1>7 DEF m, TaskOf

\* The user's messages of a list.
LEMMA UsersBoth ==
    ASSUME NEW s \in Seq(Marked), NEW t \in Seq(Marked)
    PROVE  UsersOf(s \o t) = UsersOf(s) \o UsersOf(t)
<1> DEFINE I == {i \in DOMAIN s : s[i].kind = "user"}
           J == {i \in DOMAIN t : t[i].kind = "user"}
           K == {i \in DOMAIN (s \o t) : (s \o t)[i].kind = "user"}
<1>1. /\ DOMAIN s = 1 .. Len(s) /\ DOMAIN t = 1 .. Len(t) /\ Len(s) \in Nat /\ Len(t) \in Nat
      /\ s \o t \in Seq(Marked) /\ Len(s \o t) = Len(s) + Len(t)
      /\ DOMAIN (s \o t) = 1 .. Len(s) + Len(t)
      /\ \A i \in 1 .. Len(s) : (s \o t)[i] = s[i]
      /\ \A i \in 1 .. Len(t) : (s \o t)[Len(s) + i] = t[i]
  <2> HIDE DEF Marked
  <2> QED OBVIOUS
<1>2. \A i \in 1 .. Len(s) : i \in K <=> i \in I BY <1>1
<1>3. \A i \in 1 .. Len(t) : Len(s) + i \in K <=> i \in J BY <1>1
<1>4. UsersOf(s \o t) = Picked(s \o t, K) /\ UsersOf(s) = Picked(s, I) /\ UsersOf(t) = Picked(t, J)
  BY DEF UsersOf
<1> HIDE DEF I, J, K
<1> QED BY <1>2, <1>3, <1>4, PickedBoth

LEMMA NoUsers ==
    ASSUME NEW s \in Seq(Marked), ~HasUser(s) PROVE UsersOf(s) = <<>>
<1> DEFINE I == {i \in DOMAIN s : s[i].kind = "user"}
<1>1. \A i \in 1 .. Len(s) : i \notin I BY DEF HasUser
<1>2. UsersOf(s) = Picked(s, I) BY DEF UsersOf
<1> HIDE DEF I
<1> QED BY <1>1, <1>2, PickedNone

LEMMA LastUser ==
    ASSUME NEW s \in Seq(Marked), NEW k \in 1 .. Len(s), s[k].kind = "user",
           \A j \in 1 .. Len(s) : j > k => s[j].kind # "user"
    PROVE  UsersOf(s) # <<>> /\ Last(UsersOf(s)) = s[k]
<1> DEFINE a == SubSeq(s, 1, k)
           b == SubSeq(s, k + 1, Len(s))
           c == SubSeq(a, 1, k - 1)
           d == SubSeq(a, (k - 1) + 1, Len(a))
           x == s[k]
<1>1. k \in 0 .. Len(s) /\ Len(s) \in Nat /\ x \in Marked OBVIOUS
<1>2. a \in Seq(Marked) /\ Len(a) = k /\ b \in Seq(Marked) /\ Len(b) = Len(s) - k /\ s = a \o b
  BY <1>1, EndOf
<1>3. k - 1 \in 0 .. Len(a) BY <1>1, <1>2
<1>4. (\A i \in 1 .. Len(b) : b[i] = s[k + i]) /\ a[k] = s[k]
  <2>1. k \in 1 .. k BY <1>1
  <2>2. SubSeq(s, 1, k)[k] = s[k] BY <1>1, <2>1
  <2>3. ASSUME NEW i \in 1 .. Len(b) PROVE SubSeq(s, k + 1, Len(s))[i] = s[k + i]
    <3>1. i \in 1 .. Len(s) - k BY <1>2
    <3> QED BY <1>1, <3>1
  <2> QED BY <2>2, <2>3
<1> HIDE DEF a, b
<1>5. c \in Seq(Marked) /\ d \in Seq(Marked) /\ Len(d) = 1 /\ a = c \o d
  <2>1. Len(a) - (k - 1) = 1 BY <1>1, <1>2
  <2>2. /\ c \in Seq(Marked) /\ d \in Seq(Marked) /\ Len(d) = Len(a) - (k - 1) /\ a = c \o d
    BY <1>2, <1>3, EndOf
  <2> QED BY <2>1, <2>2
<1>6. d = <<x>>
  <2>1. d[1] = a[k]
    <3>1. (k - 1) + 1 = k BY <1>1
    <3>2. d = SubSeq(a, k, k) BY <1>2, <3>1
    <3> HIDE DEF d
    <3> QED BY <1>1, <1>2, <3>2
  <2> HIDE DEF d, x
  <2>2. d[1] = x BY <1>4, <2>1 DEF x
  <2> QED BY <1>5, <2>2
<1>7. UsersOf(b) = <<>>
  <2>1. ~HasUser(b)
    <3> SUFFICES ASSUME NEW i \in DOMAIN b, b[i].kind = "user" PROVE FALSE BY DEF HasUser
    <3>1. i \in 1 .. Len(b) BY <1>2
    <3>2. k + i \in 1 .. Len(s) /\ k + i > k BY <1>1, <1>2, <3>1
    <3> QED BY <1>4, <3>1, <3>2
  <2> QED BY <1>2, <2>1, NoUsers
<1>8. UsersOf(<<x>>) = <<x>>
  <2> DEFINE I == {i \in DOMAIN <<x>> : <<x>>[i].kind = "user"}
  <2>1. <<x>> \in Seq(Marked) /\ 1 .. Len(<<x>>) \subseteq I BY <1>1
  <2>2. UsersOf(<<x>>) = Picked(<<x>>, I) BY DEF UsersOf
  <2> HIDE DEF I, x
  <2> QED BY <2>1, <2>2, PickedAll
<1> HIDE DEF c, d, x
<1> DEFINE u == UsersOf(c)
<1>9. u \in Seq(UserMessages) BY <1>5, UsersAre
<1>10. UsersOf(a) = u \o <<x>> BY <1>5, <1>6, <1>8, UsersBoth
<1>11. UsersOf(s) = (u \o <<x>>) \o <<>> BY <1>2, <1>7, <1>10, UsersBoth
<1>12. x \in UserMessages BY <1>1 DEF UserMessages, x
<1> HIDE DEF u
<1>13. (u \o <<x>>) \o <<>> = u \o <<x>> BY <1>9, <1>12
<1>14. u \o <<x>> # <<>> /\ Last(u \o <<x>>) = x BY <1>9, <1>12 DEF Last
<1> QED BY <1>11, <1>13, <1>14 DEF x

-----------------------------------------------------------------------------
(* What is said stays said. *)

Speaks == \A q \in Runs : \E m \in Seq(RealMessages) : said'[q] = said[q] \o m

LEMMA StillSaid ==
    ASSUME RunTypes, Speaks
    PROVE  /\ Uttered \subseteq Uttered' /\ UtteredIds \subseteq UtteredIds'
           /\ \A id \in UtteredIds : id \in UserIds <=> id \in UserIds'
<1>1. ASSUME NEW q \in Runs, NEW n \in DOMAIN said[q]
      PROVE  n \in DOMAIN said'[q] /\ said'[q][n] = said[q][n] /\ said[q] # <<>> /\ said'[q] # <<>>
  <2> DEFINE s == said[q]
  <2>1. s \in Seq(RealMessages) BY DEF RunTypes
  <2>2. PICK m \in Seq(RealMessages) : said'[q] = s \o m BY DEF Speaks
  <2>3. n \in 1 .. Len(s) /\ Len(s) \in Nat /\ Len(m) \in Nat
    <3> HIDE DEF s
    <3> QED BY <2>1 DEF s
  <2> HIDE DEF s
  <2>4. n \in DOMAIN (s \o m) /\ (s \o m)[n] = s[n]
    <3>1. DOMAIN (s \o m) = 1 .. Len(s) + Len(m) /\ \A k \in 1 .. Len(s) : (s \o m)[k] = s[k]
      BY <2>1, JoinedAt
    <3> QED BY <2>3, <3>1
  <2>5. s # <<>> /\ s \o m # <<>>
    <3>1. Len(s \o m) = Len(s) + Len(m) /\ Len(s) > 0 BY <2>1, <2>3, ConcatProperties
    <3>2. Len(s \o m) # 0 /\ Len(s) # 0 BY <2>3, <3>1
    <3> QED BY <3>2
  <2> QED BY <2>2, <2>4, <2>5 DEF s
<1>2. Uttered \subseteq Uttered'
  <2> SUFFICES ASSUME NEW x \in Uttered PROVE x \in Uttered' OBVIOUS
  <2>1. PICK q \in Runs : \E n \in DOMAIN said[q] : x = said[q][n] BY DEF Uttered
  <2>2. PICK n \in DOMAIN said[q] : x = said[q][n] BY <2>1
  <2>3. n \in DOMAIN said'[q] /\ x = said'[q][n] BY <1>1, <2>2
  <2> QED BY <2>3 DEF Uttered
<1>3. ASSUME NEW id \in UtteredIds PROVE id \in UtteredIds' /\ (id \in UserIds <=> id \in UserIds')
  <2>1. PICK q \in Runs : \E n \in DOMAIN said[q] : id = <<q, n>> BY DEF UtteredIds
  <2>2. PICK n \in DOMAIN said[q] : id = <<q, n>> BY <2>1
  <2>3. n \in DOMAIN said'[q] BY <1>1, <2>2
  <2>4. id \in UtteredIds' BY <2>2, <2>3 DEF UtteredIds
  <2>5. id \in UserIds <=> n = 1 /\ said[q] # <<>> /\ said[q][1].kind = "user" BY <2>2 DEF UserIds
  <2>6. id \in UserIds' <=> n = 1 /\ said'[q] # <<>> /\ said'[q][1].kind = "user" BY <2>2 DEF UserIds
  <2>7. n = 1 => said'[q] # <<>> /\ said[q] # <<>> /\ said'[q][1] = said[q][1] BY <1>1, <2>2
  <2> QED BY <2>4, <2>5, <2>6, <2>7
<1> QED BY <1>2, <1>3

LEMMA StillRemembers ==
    ASSUME RunTypes, Speaks, NEW s, NEW seen, NEW later, seen => later
    PROVE  /\ Remembers(s, seen, UtteredIds, UserIds) => Remembers(s, later, UtteredIds', UserIds')
           /\ SeesTask(s, seen, UtteredIds, UserIds) => SeesTask(s, later, UtteredIds', UserIds')
<1>1. ASSUME Remembers(s, seen, UtteredIds, UserIds) PROVE Remembers(s, later, UtteredIds', UserIds')
  <2> DEFINE ids == s.of
  <2>1. ids \in Seq(UtteredIds) BY <1>1 DEF Remembers
  <2>2. UtteredIds \subseteq UtteredIds' /\ \A id \in UtteredIds : id \in UserIds <=> id \in UserIds'
    BY StillSaid
  <2>3. \A i \in DOMAIN ids : ids[i] \in UtteredIds
    <3> HIDE DEF ids
    <3> QED BY <2>1
  <2>4. seen \/ \A i \in DOMAIN ids : IsTask(ids, i, UserIds) => Holds(s.pinned, ids[i])
    BY <1>1 DEF Remembers
  <2> HIDE DEF ids
  <2>5. ids \in Seq(UtteredIds') BY <2>1, <2>2, SeqMonotonic
  <2>6. ASSUME NEW i \in DOMAIN ids, IsTask(ids, i, UserIds') PROVE later \/ Holds(s.pinned, ids[i])
    <3>1. IsTask(ids, i, UserIds) BY <2>2, <2>3, <2>6 DEF IsTask
    <3> QED BY <2>4, <3>1
  <2> QED BY <2>5, <2>6 DEF ids, Remembers
<1> QED BY <1>1 DEF SeesTask

\* The rest of a run's state, once what it said is left aside.
LEMMA StillInSight ==
    ASSUME RunTypes, Speaks, NEW q \in Runs, SightIs(q), pc'[q] = pc[q], session'[q] = session[q],
           said'[q] = said[q], rs'[q] = rs[q], plan'[q] = plan[q], log \in Seq(RealMessages),
           NEW m \in Seq(RealMessages), log' = log \o m
    PROVE  SightIs(q)'
<1>1. Unsaved(q)' = Unsaved(q) /\ TailOf(q)' = TailOf(q) BY DEF Unsaved, TailOf, TailStart
<1>2. \A s \in Seq(Uttered) : s \in Seq(Uttered') BY StillSaid, SeqMonotonic
<1>3. InOrder(q)' /\ (pc'[q] = "new" => said'[q] = <<>>) BY DEF SightIs, InOrder
<1>4. ASSUME pc[q] \in Active
      PROVE  /\ TailOf(q) \in Seq(Uttered')
             /\ SeesTask(rs[q].snapshot, HasUser(TailOf(q)), UtteredIds', UserIds')
  <2>1. TailOf(q) \in Seq(Uttered) /\ SeesTask(rs[q].snapshot, HasUser(TailOf(q)), UtteredIds, UserIds)
    BY <1>4 DEF SightIs
  <2> QED BY <1>2, <2>1, StillRemembers
<1>5. ASSUME pc[q] \in {"compactSave"} \cup Storing
      PROVE  /\ plan[q].kept \in Seq(Uttered')
             /\ Remembers(plan[q].snapshot, HasUser(plan[q].kept), UtteredIds', UserIds')
             /\ \E older \in Seq(Uttered') : TailOf(q) = older \o plan[q].kept
  <2>1. /\ plan[q].kept \in Seq(Uttered)
        /\ Remembers(plan[q].snapshot, HasUser(plan[q].kept), UtteredIds, UserIds)
        /\ \E older \in Seq(Uttered) : TailOf(q) = older \o plan[q].kept
    BY <1>5 DEF SightIs
  <2> QED BY <1>2, <2>1, StillRemembers
<1>6. ASSUME pc'[q] = "compactStore"
      PROVE  (\A i \in 1 .. Len(plan[q].kept) :
                 plan[q].upTo + 1 + i \in DOMAIN log /\ log[plan[q].upTo + 1 + i] = plan[q].kept[i])'
  <2>1. \A i \in DOMAIN log : i \in DOMAIN log' /\ log'[i] = log[i] BY Grown
  <2>2. \A i \in 1 .. Len(plan[q].kept) :
            plan[q].upTo + 1 + i \in DOMAIN log /\ log[plan[q].upTo + 1 + i] = plan[q].kept[i]
    BY <1>6 DEF SightIs
  <2> QED BY <2>1, <2>2
<1>7. pc'[q] \in Active \cup {"finish"} => (Unsaved(q) \in Seq(Uttered))' BY <1>1, <1>2 DEF SightIs
<1>8. HasUser(TailOf(q))' = HasUser(TailOf(q)) /\ HasUser(plan[q].kept)' = HasUser(plan[q].kept)
  BY <1>1 DEF HasUser
<1> QED BY <1>1, <1>3, <1>4, <1>5, <1>6, <1>7, <1>8 DEF SightIs

-----------------------------------------------------------------------------
(* A step of one run. *)

OthersRest(r) ==
    \A q \in Runs : q # r =>
        /\ pc'[q] = pc[q] /\ session'[q] = session[q] /\ said'[q] = said[q]
        /\ rs'[q] = rs[q] /\ plan'[q] = plan[q]

LEMMA StepsAreOfOne == ASSUME KeepInv, NEW r \in Runs, Start(r) \/ StartFails(r) \/ Step(r) PROVE OthersRest(r)
<1> DEFINE P == Idle \cup Saving \cup Storing \cup {"finish"}
           S == Seq(RealMessages)
<1>1. /\ pc \in [Runs -> P] /\ session \in [Runs -> MessagesType] /\ said \in [Runs -> S]
      /\ rs \in [Runs -> RunStates] /\ plan \in [Runs -> Plans]
  BY DEF KeepInv, RunTypes
<1> HIDE DEF P, S
<1> USE DEF OthersRest, Goes
<1>2. CASE Start(r) BY <1>1, <1>2 DEF Start
<1>3. CASE StartFails(r) BY <1>1, <1>3 DEF StartFails
<1>4. CASE LoopEnds(r) BY <1>1, <1>4 DEF LoopEnds
<1>5. CASE LoopCompacts(r) BY <1>1, <1>5 DEF LoopCompacts
<1>6. CASE LoopCalls(r) BY <1>1, <1>6 DEF LoopCalls
<1>7. CASE Answers(r) BY <1>1, <1>7 DEF Answers, Adds
<1>8. CASE CallsTools(r)
  <2>1. PICK ms : Adds(r, ms) BY <1>8 DEF CallsTools
  <2>2. \E to : Goes(r, to) BY <1>8 DEF CallsTools
  <2> QED BY <1>1, <1>8, <2>1, <2>2 DEF CallsTools, Adds
<1>9. CASE LLMFails(r) BY <1>1, <1>9 DEF LLMFails
<1>10. CASE ContextTooLong(r) BY <1>1, <1>10 DEF ContextTooLong
<1>11. CASE CheckpointSaved(r) BY <1>1, <1>11 DEF CheckpointSaved
<1>12. CASE SaveEndsRun(r) BY <1>1, <1>12 DEF SaveEndsRun
<1>13. CASE Finish(r) BY <1>1, <1>13 DEF Finish
<1>14. CASE CompactPlan(r)
  <2>1. UNCHANGED <<session, said>> BY <1>14 DEF CompactPlan
  <2>2. /\ \E to : Goes(r, to)
        /\ \E p : plan' = [plan EXCEPT ![r] = p]
        /\ rs' = rs \/ \E s : rs' = [rs EXCEPT ![r] = s]
    BY <1>14 DEF CompactPlan, Continue
  <2> QED BY <1>1, <2>1, <2>2
<1>15. CASE CompactFails(r) BY <1>1, <1>15 DEF CompactFails
<1>16. CASE CompactSaved(r) BY <1>1, <1>16 DEF CompactSaved
<1>17. ASSUME NEW stored, Compacted(r, stored), said' = said PROVE OthersRest(r)
  <2>1. /\ \E to : Goes(r, to)
        /\ \E p : plan' = [plan EXCEPT ![r] = p]
        /\ \E s : rs' = [rs EXCEPT ![r] = s]
        /\ \E s : session' = [session EXCEPT ![r] = s]
    BY <1>17 DEF Compacted, Continue
  <2> QED BY <1>1, <1>17, <2>1
<1>18. CASE CompactLoad(r)
  <2>1. \/ Compacted(r, rs[r].stored)
        \/ /\ \E to : Goes(r, to)
           /\ \E u : plan' = [plan EXCEPT ![r].upTo = u]
           /\ UNCHANGED <<session, rs>>
    BY <1>18 DEF CompactLoad
  <2>2. said' = said BY <1>18 DEF CompactLoad
  <2> QED BY <1>1, <1>17, <2>1, <2>2
<1>19. CASE CompactStoreFails(r) BY <1>17, <1>19 DEF CompactStoreFails
<1>20. CASE CompactStore(r) BY <1>17, <1>20 DEF CompactStore
<1> QED BY <1>2, <1>3, <1>4, <1>5, <1>6, <1>7, <1>8, <1>9, <1>10, <1>11, <1>12, <1>13, <1>14, <1>15,
           <1>16, <1>18, <1>19, <1>20
    DEF Step

\* What a step has to show of its own run, and of a snapshot that it stores.
LEMMA MovedInSight ==
    ASSUME KeepInv, SightInv, NEW r \in Runs, OthersRest(r), Speaks,
           log' = log \/ (pc[r] \in Active \cup {"finish"} /\ log' = log \o Unsaved(r)),
           latest' = latest \/ SeesTask(latest, UserAfter(latest), UtteredIds, UserIds)',
           SightIs(r)'
    PROVE  SightInv'
<1>1. RunTypes /\ log \in Seq(RealMessages) /\ log \in Seq(Uttered) BY DEF KeepInv, RunTypes, SightInv
<1>2. PICK m \in Seq(Uttered) : m \in Seq(RealMessages) /\ log' = log \o m
  <2>1. CASE log' = log
    <3>1. log \o <<>> = log /\ <<>> \in Seq(Uttered) /\ <<>> \in Seq(RealMessages)
      BY <1>1, ConcatEmptySeq
    <3> QED BY <2>1, <3>1
  <2>2. CASE pc[r] \in Active \cup {"finish"} /\ log' = log \o Unsaved(r)
    <3>1. Unsaved(r) \in Seq(SpokenBy(r)) /\ Unsaved(r) \in Seq(Uttered)
      BY <2>2 DEF KeepInv, SessionIs, SightInv, SightIs
    <3>2. Unsaved(r) \in Seq(RealMessages) BY <3>1, SpokenAre, MarkedAre
    <3> QED BY <2>2, <3>1, <3>2
  <2> QED BY <2>1, <2>2
<1>3. log' \in Seq(Uttered')
  <2>1. log' \in Seq(Uttered) BY <1>1, <1>2, ConcatProperties
  <2> QED BY <1>1, <2>1, StillSaid, SeqMonotonic
<1>4. SeesTask(latest, UserAfter(latest), UtteredIds, UserIds)'
  <2> SUFFICES ASSUME latest' = latest PROVE SeesTask(latest', UserAfter(latest)', UtteredIds', UserIds')
    OBVIOUS
  <2>1. \A i \in DOMAIN log : i \in DOMAIN log' /\ log'[i] = log[i] BY <1>1, <1>2, Grown
  <2>2. UserAfter(latest) => UserAfter(latest)' BY <2>1 DEF UserAfter, Covered
  <2>3. SeesTask(latest, UserAfter(latest), UtteredIds, UserIds) BY DEF SightInv
  <2>4. SeesTask(latest, UserAfter(latest)', UtteredIds', UserIds') BY <1>1, <2>2, <2>3, StillRemembers
  <2> QED BY <2>4
<1>5. ASSUME NEW q \in Runs PROVE SightIs(q)'
  <2>1. CASE q = r BY <2>1
  <2>2. CASE q # r
    <3>1. SightIs(q) BY DEF SightInv
    <3>2. /\ pc'[q] = pc[q] /\ session'[q] = session[q] /\ said'[q] = said[q]
          /\ rs'[q] = rs[q] /\ plan'[q] = plan[q]
      BY <2>2 DEF OthersRest
    <3> QED BY <1>1, <1>2, <3>1, <3>2, StillInSight
  <2> QED BY <2>1, <2>2
<1> QED BY <1>3, <1>4, <1>5 DEF SightInv

LEMMA SaysNothing == ASSUME RunTypes, said' = said PROVE Speaks
<1>1. ASSUME NEW q \in Runs PROVE \E m \in Seq(RealMessages) : said'[q] = said[q] \o m
  <2>1. said[q] \in Seq(RealMessages) BY DEF RunTypes
  <2>2. <<>> \in Seq(RealMessages) /\ said[q] \o <<>> = said[q] BY <2>1, ConcatEmptySeq
  <2> QED BY <2>2
<1> QED BY <1>1 DEF Speaks

\* A run that says nothing, and keeps its session.
LEMMA RestsInSight ==
    ASSUME KeepInv, SightInv, NEW r \in Runs, OthersRest(r), session' = session, said' = said,
           rs'[r].snapshot = rs[r].snapshot, Unsaved(r)' = Unsaved(r) \/ Unsaved(r)' = <<>>,
           log' = log \/ (pc[r] \in Active \cup {"finish"} /\ log' = log \o Unsaved(r)), latest' = latest,
           pc'[r] \in Active => pc[r] \in Active,
           pc'[r] = "finish" => pc[r] \in Active \cup {"finish"},
           pc'[r] \in {"compactSave"} \cup Storing =>
               pc[r] \in {"compactSave"} \cup Storing /\ plan'[r] = plan[r],
           pc'[r] # "compactStore" /\ pc'[r] # "new"
    PROVE  SightInv'
<1>1. SightIs(r) /\ RunTypes BY DEF KeepInv, SightInv
<1>2. Speaks BY <1>1, SaysNothing
<1>3. TailOf(r)' = TailOf(r) BY SessionStays
<1>4. Uttered' = Uttered /\ UtteredIds' = UtteredIds /\ UserIds' = UserIds
  BY DEF Uttered, UtteredIds, UserIds
<1>5. HasUser(TailOf(r))' = HasUser(TailOf(r)) BY <1>3 DEF HasUser
<1>6. pc'[r] \in {"compactSave"} \cup Storing => HasUser(plan[r].kept)' = HasUser(plan[r].kept) BY DEF HasUser
<1>7. <<>> \in Seq(Uttered) OBVIOUS
<1>8. InOrder(r)' BY <1>1 DEF SightIs, InOrder
<1>9. pc'[r] \in Active =>
         (/\ TailOf(r) \in Seq(Uttered)
          /\ SeesTask(rs[r].snapshot, HasUser(TailOf(r)), UtteredIds, UserIds))'
  BY <1>1, <1>3, <1>4, <1>5 DEF SightIs
<1>10. pc'[r] \in Active \cup {"finish"} => Unsaved(r)' \in Seq(Uttered)' BY <1>1, <1>4, <1>7 DEF SightIs
<1>11. pc'[r] \in {"compactSave"} \cup Storing =>
          (/\ plan[r].kept \in Seq(Uttered)
           /\ Remembers(plan[r].snapshot, HasUser(plan[r].kept), UtteredIds, UserIds)
           /\ \E older \in Seq(Uttered) : TailOf(r) = older \o plan[r].kept)'
  BY <1>1, <1>3, <1>4, <1>6 DEF SightIs
<1>12. SightIs(r)' BY <1>8, <1>9, <1>10, <1>11 DEF SightIs
<1> QED BY <1>2, <1>12, MovedInSight

\* What a step does to the place and the state of its run.
LEMMA PlaceIs == ASSUME KeepInv, NEW r \in Runs, NEW to, Goes(r, to) PROVE pc'[r] = to
BY DEF KeepInv, RunTypes, Goes

LEMMA UnsavedStays ==
    ASSUME NEW r \in Runs, session' = session, rs'[r].savedTo = rs[r].savedTo PROVE Unsaved(r)' = Unsaved(r)
BY DEF Unsaved

LEMMA QuietInSight ==
    ASSUME KeepInv, SightInv, NEW r \in Runs,
           \/ LoopEnds(r) \/ LLMFails(r) \/ CompactFails(r) \/ SaveEndsRun(r) \/ CompactSaved(r)
    PROVE  SightInv'
<1>1. OthersRest(r) BY StepsAreOfOne DEF Step
<1>2. UNCHANGED <<latest, session, rs, said>>
  BY DEF LoopEnds, LLMFails, CompactFails, SaveEndsRun, CompactSaved
<1>3. Unsaved(r)' = Unsaved(r) BY <1>2, UnsavedStays
<1>4. pc[r] \in Active BY DEF LoopEnds, LLMFails, CompactFails, SaveEndsRun, CompactSaved, Active, Saving
<1>5. log' = log \/ log' = log \o Unsaved(r)
  BY SaveFailed DEF LoopEnds, LLMFails, CompactFails, SaveEndsRun, CompactSaved, SaveOk
<1>6. CASE CompactSaved(r)
  <2>1. pc'[r] = "compactLoad" /\ pc[r] = "compactSave" /\ plan' = plan BY <1>6, PlaceIs DEF CompactSaved
  <2> QED BY <1>1, <1>2, <1>3, <1>4, <1>5, <2>1, RestsInSight DEF Storing
<1>7. CASE ~CompactSaved(r)
  <2>1. pc'[r] = "finish"
    <3>1. Goes(r, "finish") BY <1>7 DEF LoopEnds, LLMFails, CompactFails, SaveEndsRun
    <3> QED BY <3>1, PlaceIs
  <2>2. "finish" \notin Active \cup Storing BY DEF Active, Saving, Storing
  <2> QED BY <1>1, <1>2, <1>3, <1>4, <1>5, <2>1, <2>2, RestsInSight
<1> QED BY <1>6, <1>7

LEMMA LoopingInSight ==
    ASSUME KeepInv, SightInv, NEW r \in Runs, LoopCompacts(r) \/ LoopCalls(r) \/ ContextTooLong(r)
    PROVE  SightInv'
<1>1. OthersRest(r) BY StepsAreOfOne DEF Step
<1>2. UNCHANGED <<log, latest, session, said>> BY DEF LoopCompacts, LoopCalls, ContextTooLong
<1>3. pc[r] \in Active BY DEF LoopCompacts, LoopCalls, ContextTooLong, Active, Saving
<1>4. rs'[r].snapshot = rs[r].snapshot /\ rs'[r].savedTo = rs[r].savedTo
  <2>1. rs \in [Runs -> RunStates] /\ rs[r] \in RunStates BY StatesAre
  <2>2. CASE LoopCompacts(r)
    <3>1. rs' = [rs EXCEPT ![r] = [rs[r] EXCEPT !.compactions = @ + 1]] BY <2>1, <2>2 DEF LoopCompacts
    <3> QED BY <2>1, <3>1 DEF RunStates
  <2>3. CASE LoopCalls(r)
    <3>1. rs'[r] = Counted(rs[r]) BY <2>1, <2>3 DEF LoopCalls
    <3> QED BY <2>1, <3>1, CountedKeeps
  <2>4. CASE ContextTooLong(r)
    <3>1. rs' = rs \/ rs' = [rs EXCEPT ![r] = [rs[r] EXCEPT !.compactedOnError = TRUE]]
      BY <2>1, <2>4 DEF ContextTooLong
    <3> QED BY <2>1, <3>1 DEF RunStates
  <2> QED BY <2>2, <2>3, <2>4
<1>5. Unsaved(r)' = Unsaved(r) BY <1>2, <1>4, UnsavedStays
<1>6. pc'[r] \in {"compact", "llm", "finish"}
  <2>1. \E to \in {"compact", "llm", "finish"} : Goes(r, to) BY DEF LoopCompacts, LoopCalls, ContextTooLong
  <2> QED BY <2>1, PlaceIs
<1>7. pc'[r] \notin {"compactSave", "new"} \cup Storing BY <1>6 DEF Storing
<1> QED BY <1>1, <1>2, <1>3, <1>4, <1>5, <1>6, <1>7, RestsInSight DEF Storing

LEMMA CheckpointInSight == ASSUME KeepInv, SightInv, NEW r \in Runs, CheckpointSaved(r) PROVE SightInv'
<1>1. OthersRest(r) BY StepsAreOfOne DEF Step
<1>2. UNCHANGED <<latest, session, said>> /\ log' = log \o Unsaved(r)
  BY DEF CheckpointSaved, SaveOk
<1>3. pc[r] \in Active /\ pc'[r] = "loop" BY PlaceIs DEF CheckpointSaved, Active, Saving
<1>4. rs'[r].snapshot = rs[r].snapshot /\ rs'[r].savedTo = Len(session[r])
  <2>1. rs \in [Runs -> RunStates] /\ rs[r] \in RunStates BY StatesAre
  <2>2. rs' = [rs EXCEPT ![r] = [rs[r] EXCEPT !.savedTo = Len(session[r])]]
    BY <2>1 DEF CheckpointSaved, SavedUpTo
  <2> QED BY <2>1, <2>2 DEF RunStates
<1>5. Unsaved(r)' = <<>>
  <2>1. session'[r] \in Seq(AnyMessages) BY <1>2, SessionFacts
  <2> QED BY <1>2, <1>4, <2>1, UnsavedNothing
<1>6. pc'[r] \notin {"compactSave", "new", "finish"} \cup Storing BY <1>3 DEF Storing
<1> QED BY <1>1, <1>2, <1>3, <1>4, <1>5, <1>6, RestsInSight DEF Storing

LEMMA EndsInSight == ASSUME KeepInv, SightInv, NEW r \in Runs, Finish(r) \/ StartFails(r) PROVE SightInv'
<1>1. OthersRest(r) BY StepsAreOfOne DEF Step
<1>2. UNCHANGED <<latest, session, said>> BY DEF Finish, StartFails
<1>3. rs'[r].snapshot = rs[r].snapshot /\ rs'[r].savedTo = rs[r].savedTo
  <2>1. rs \in [Runs -> RunStates] /\ rs[r] \in RunStates BY StatesAre
  <2>2. rs' = rs \/ rs' = [rs EXCEPT ![r] = [rs[r] EXCEPT !.saveFailed = TRUE]]
    BY <2>1 DEF Finish, StartFails
  <2> QED BY <2>1, <2>2 DEF RunStates
<1>4. Unsaved(r)' = Unsaved(r) BY <1>2, <1>3, UnsavedStays
<1>5. log' = log \/ (pc[r] \in Active \cup {"finish"} /\ log' = log \o Unsaved(r))
  BY SaveFailed DEF Finish, StartFails, SaveOk
<1>6. pc'[r] = "ended" BY PlaceIs DEF Finish, StartFails
<1>7. pc'[r] \notin {"compactSave", "new", "finish"} \cup Active \cup Storing
  BY <1>6 DEF Active, Saving, Storing
<1> QED BY <1>1, <1>2, <1>3, <1>4, <1>5, <1>7, RestsInSight DEF Storing

\* A run speaks: the messages are its own, in their order.
LEMMA SpeaksInSight ==
    ASSUME KeepInv, SightInv, NEW r \in Runs, OthersRest(r), NEW m \in Seq(RealMessages),
           said'[r] = said[r] \o m,
           \A i \in 1 .. Len(m) :
               /\ m[i].of = <<<<r, Len(said[r]) + i>>>> /\ m[i].kind \in {"user", "answer", "call", "tool"}
               /\ m[i].kind = "user" => said[r] = <<>> /\ i = 1
    PROVE  Speaks /\ m \in Seq(Uttered') /\ InOrder(r)'
<1> DEFINE s == said[r]
           n == Len(s)
           l == Len(m)
<1>1. s \in Seq(RealMessages) /\ n \in Nat /\ l \in Nat
  <2>1. s \in Seq(RealMessages) BY DEF KeepInv, RunTypes
  <2> HIDE DEF s
  <2> QED BY <2>1
<1>2. DOMAIN (s \o m) = 1 .. n + l /\ (\A k \in 1 .. n : (s \o m)[k] = s[k]) /\ \A k \in 1 .. l : (s \o m)[n + k] = m[k]
  BY <1>1, JoinedAt
<1>3. Speaks
  <2> SUFFICES ASSUME NEW q \in Runs PROVE \E x \in Seq(RealMessages) : said'[q] = said[q] \o x
    BY DEF Speaks
  <2>1. CASE q = r BY <2>1
  <2>2. CASE q # r
    <3>1. said'[q] = said[q] BY <2>2 DEF OthersRest
    <3>2. said[q] \in Seq(RealMessages) BY DEF KeepInv, RunTypes
    <3>3. <<>> \in Seq(RealMessages) /\ said[q] \o <<>> = said[q] BY <3>2, ConcatEmptySeq
    <3> QED BY <3>1, <3>3
  <2> QED BY <2>1, <2>2
<1>4. m \in Seq(Uttered')
  <2>1. ASSUME NEW k \in 1 .. l PROVE m[k] \in Uttered'
    <3>1. n + k \in 1 .. n + l BY <1>1
    <3>2. n + k \in DOMAIN said'[r] /\ said'[r][n + k] = m[k] BY <1>2, <3>1
    <3> QED BY <3>2 DEF Uttered
  <2> DEFINE U == Uttered'
  <2> HIDE DEF U
  <2>2. \A k \in 1 .. Len(m) : m[k] \in U BY <2>1 DEF U
  <2>3. m \in Seq(U) BY <2>2
  <2> QED BY <2>3 DEF U
<1>5. InOrder(r)'
  <2> SUFFICES ASSUME NEW k \in 1 .. n + l
               PROVE  /\ (s \o m)[k].of = <<<<r, k>>>>
                      /\ (s \o m)[k].kind \in {"user", "answer", "call", "tool"}
                      /\ (s \o m)[k].kind = "user" => k = 1
    BY <1>2 DEF InOrder
  <2>1. CASE k <= n
    <3>1. k \in 1 .. n BY <1>1, <2>1
    <3>2. k \in DOMAIN s
      <4> HIDE DEF s
      <4> QED BY <1>1, <3>1
    <3>3. InOrder(r) BY DEF SightInv, SightIs
    <3> QED BY <1>2, <3>1, <3>2, <3>3 DEF InOrder
  <2>2. CASE k > n
    <3> DEFINE i == k - n
    <3>1. i \in 1 .. l /\ k = n + i BY <1>1, <2>2
    <3> HIDE DEF i
    <3>2. (s \o m)[k] = m[i] BY <1>2, <3>1
    <3>3. /\ m[i].of = <<<<r, n + i>>>> /\ m[i].kind \in {"user", "answer", "call", "tool"}
          /\ m[i].kind = "user" => s = <<>> /\ i = 1
      BY <3>1
    <3>4. s = <<>> => n = 0 OBVIOUS
    <3> HIDE DEF s, n, l
    <3>5. m[i].kind = "user" => k = 1 BY <1>1, <3>1, <3>3, <3>4
    <3> QED BY <3>1, <3>2, <3>3, <3>5
  <2>3. k <= n \/ k > n BY <1>1
  <2> HIDE DEF s, n, l
  <2> QED BY <2>1, <2>2, <2>3, Zenon
<1> QED BY <1>3, <1>4, <1>5

LEMMA SeenLonger ==
    ASSUME NEW T, NEW s \in Seq(T), NEW m \in Seq(T), HasUser(s) PROVE HasUser(s \o m)
<1>1. PICK i \in DOMAIN s : s[i].kind = "user" BY DEF HasUser
<1>2. i \in DOMAIN (s \o m) /\ (s \o m)[i] = s[i] BY Grown
<1> QED BY <1>1, <1>2 DEF HasUser

\* An LLM's answer, or a round of tool calls.
LEMMA AddsInSight ==
    ASSUME KeepInv, SightInv, NEW r \in Runs, OthersRest(r), pc[r] \in Saving,
           NEW ms \in Seq(AnyMessages), session'[r] = session[r] \o ms,
           NEW m \in Seq(RealMessages), m = Replayable(ms), said'[r] = said[r] \o m,
           \A i \in 1 .. Len(m) :
               m[i].of = <<<<r, Len(said[r]) + i>>>> /\ m[i].kind \in {"answer", "call", "tool"},
           rs'[r].snapshot = rs[r].snapshot, rs'[r].savedTo = rs[r].savedTo,
           log' = log, latest' = latest,
           pc'[r] \in {"loop", "checkpoint", "finish"}, pc'[r] # "finish" => ms = m
    PROVE  SightInv'
<1>1. RunTypes /\ SightIs(r) /\ SessionIs(r) /\ pc[r] \in Active BY DEF KeepInv, SightInv, Active
<1>2. Speaks /\ m \in Seq(Uttered') /\ InOrder(r)'
  <2>1. \A i \in 1 .. Len(m) :
            /\ m[i].of = <<<<r, Len(said[r]) + i>>>> /\ m[i].kind \in {"user", "answer", "call", "tool"}
            /\ m[i].kind = "user" => said[r] = <<>> /\ i = 1
    OBVIOUS
  <2> QED BY <2>1, SpeaksInSight
<1>3. \A s \in Seq(Uttered) : s \in Seq(Uttered') BY <1>1, <1>2, StillSaid, SeqMonotonic
<1>4. Unsaved(r)' \in Seq(Uttered')
  <2>1. Unsaved(r) \in Seq(Uttered') BY <1>1, <1>3 DEF SightIs
  <2>2. Unsaved(r)' = Unsaved(r) \o m
    <3>1. rs[r].savedTo \in 0 .. Len(session[r]) BY <1>1 DEF SessionIs
    <3> QED BY <1>1, <3>1, UnsavedGrows
  <2> DEFINE u == Unsaved(r)
  <2> HIDE DEF u
  <2>3. u \o m \in Seq(Uttered') BY <1>2, <2>1, ConcatProperties DEF u
  <2> QED BY <2>2, <2>3 DEF u
<1>5. ASSUME pc'[r] \in Active
      PROVE  /\ TailOf(r)' \in Seq(Uttered')
             /\ SeesTask(rs'[r].snapshot, HasUser(TailOf(r))', UtteredIds', UserIds')
  <2>1. ms = m BY <1>5 DEF Active, Saving, Storing
  <2> DEFINE s == session[r]
             b == TailOf(r)
             k == TailStart(r)
  <2>2. k \in 0 .. Len(s) /\ s \in Seq(AnyMessages) BY <1>1, SessionFacts
  <2>3. TailStart(r)' = k BY DEF TailStart
  <2>4. TailOf(r)' = b \o m
    <3>1. TailOf(r)' = SubSeq(s \o m, k + 1, Len(s \o m)) BY <2>1, <2>3 DEF TailOf
    <3>2. b = SubSeq(s, k + 1, Len(s)) BY DEF TailOf
    <3> HIDE DEF s, b, k
    <3>3. s \in Seq(AnyMessages) /\ m \in Seq(AnyMessages) /\ k \in 0 .. Len(s) BY <2>1, <2>2
    <3>4. SubSeq(s \o m, k + 1, Len(s \o m)) = SubSeq(s, k + 1, Len(s)) \o m BY <3>3, EndGrows
    <3> QED BY <3>1, <3>2, <3>4
  <2>5. b \in Seq(Uttered') /\ SeesTask(rs[r].snapshot, HasUser(b), UtteredIds, UserIds)
    BY <1>1, <1>3 DEF SightIs
  <2>6. b \o m \in Seq(Uttered') /\ (HasUser(b) => HasUser(b \o m))
    <3>1. b \in Seq(Uttered') BY <2>5
    <3> HIDE DEF b
    <3> QED BY <1>2, <3>1, ConcatProperties, SeenLonger
  <2>7. HasUser(TailOf(r))' = HasUser(b \o m) BY <2>4 DEF HasUser
  <2>8. SeesTask(rs[r].snapshot, HasUser(b \o m), UtteredIds', UserIds')
    <3> DEFINE y == HasUser(b)
               z == HasUser(b \o m)
               x == rs[r].snapshot
    <3>1. SeesTask(x, y, UtteredIds, UserIds) /\ (y => z) BY <2>5, <2>6
    <3> HIDE DEF x, y, z
    <3>2. SeesTask(x, z, UtteredIds', UserIds') BY <1>1, <1>2, <3>1, StillRemembers
    <3> QED BY <3>2 DEF x, z
  <2> QED BY <2>4, <2>6, <2>7, <2>8
<1>6. pc'[r] \notin {"compactSave", "new"} \cup Storing BY DEF Storing
<1>7. SightIs(r)' BY <1>2, <1>4, <1>5, <1>6 DEF SightIs, Storing
<1> QED BY <1>2, <1>7, MovedInSight

LEMMA AnswersInSight == ASSUME KeepInv, SightInv, NEW r \in Runs, Answers(r) PROVE SightInv'
<1>1. OthersRest(r) BY StepsAreOfOne DEF Step
<1>2. PICK kind \in {"answer", "empty"} : Adds(r, <<Msg(kind, r, Len(said[r]) + 1)>>) BY DEF Answers
<1> DEFINE n == Len(said[r]) + 1
           x == Msg(kind, r, n)
           m == IF kind = "empty" THEN <<>> ELSE <<x>>
<1>3. n \in Nat \ {0} /\ session[r] \in Seq(AnyMessages) /\ said[r] \in Seq(RealMessages)
  BY SessionFacts DEF KeepInv, RunTypes
<1>4. x \in AnyMessages /\ x.kind = kind /\ x.of = <<<<r, n>>>>
  <2> HIDE DEF n
  <2>1. x \in AnyMessages /\ x.kind = kind BY <1>3, MsgReal
  <2> QED BY <2>1 DEF Msg
<1>5. kind = "answer" => x \in RealMessages
  <2> HIDE DEF n
  <2> QED BY <1>3, MsgReal
<1> HIDE DEF x
<1>6. Replayable(<<x>>) = m
  <2>1. <<>> \in Seq(RealMessages) /\ <<>> \o <<x>> = <<x>> BY <1>4
  <2> QED BY <1>4, <2>1, ReplayableMore
<1>7. session' = [session EXCEPT ![r] = @ \o <<x>>] /\ said' = [said EXCEPT ![r] = @ \o m]
  BY <1>2, <1>6 DEF Adds, x
<1>8. <<x>> \in Seq(AnyMessages) /\ m \in Seq(RealMessages) BY <1>4, <1>5
<1>9. \A i \in 1 .. Len(m) :
          m[i].of = <<<<r, Len(said[r]) + i>>>> /\ m[i].kind \in {"answer", "call", "tool"}
  <2>1. CASE kind = "empty"
    <3>1. Len(m) = 0 BY <2>1
    <3> QED BY <3>1
  <2>2. CASE kind = "answer"
    <3>1. m = <<x>> /\ Len(m) = 1 BY <2>2
    <3> HIDE DEF m
    <3>2. \A i \in 1 .. Len(m) : i = 1 /\ m[i] = x BY <3>1
    <3> QED BY <1>4, <2>2, <3>2
  <2> QED BY <2>1, <2>2
<1> HIDE DEF m, n
<1>10. session'[r] = session[r] \o <<x>> /\ said'[r] = said[r] \o m
  <2>1. session \in [Runs -> MessagesType] /\ said \in [Runs -> Seq(RealMessages)] BY DEF KeepInv, RunTypes
  <2> QED BY <1>7, <2>1
<1>11. rs'[r].snapshot = rs[r].snapshot /\ rs'[r].savedTo = rs[r].savedTo
  <2>1. rs \in [Runs -> RunStates] /\ rs[r] \in RunStates BY StatesAre
  <2>2. rs' = [rs EXCEPT ![r] = [rs[r] EXCEPT !.compactedOnError = FALSE]] BY <2>1 DEF Answers
  <2> QED BY <2>1, <2>2 DEF RunStates
<1>12. pc'[r] = "finish" /\ log' = log /\ latest' = latest /\ pc[r] \in Saving BY PlaceIs DEF Answers, Saving
<1> QED BY <1>1, <1>6, <1>8, <1>9, <1>10, <1>11, <1>12, AddsInSight

LEMMA CallsInSight == ASSUME KeepInv, SightInv, NEW r \in Runs, CallsTools(r) PROVE SightInv'
<1>1. OthersRest(r) BY StepsAreOfOne DEF Step
<1> DEFINE n == Len(said[r])
           ms == [i \in 1 .. CallsPerRound + 1 |-> Msg(IF i = 1 THEN "call" ELSE "tool", r, n + i)]
<1>2. n \in Nat BY SessionFacts
<1>3. session' = [session EXCEPT ![r] = @ \o ms] /\ said' = [said EXCEPT ![r] = @ \o Replayable(ms)]
  BY DEF CallsTools, Adds
<1>4. ms \in Seq(Marked)
  <2> HIDE DEF n
  <2> QED BY <1>2, RoundIs
<1>5. \A i \in 1 .. Len(ms) : ms[i].of = <<<<r, n + i>>>> /\ ms[i].kind \in {"answer", "call", "tool"}
  <2>1. CallsPerRound + 1 \in Nat BY RunConstants
  <2>2. Len(ms) = CallsPerRound + 1 BY <2>1
  <2> HIDE DEF n
  <2> QED BY <2>2 DEF Msg
<1> HIDE DEF ms
<1>6. ms \in Seq(RealMessages) /\ ms \in Seq(AnyMessages) /\ Replayable(ms) = ms
  BY <1>4, MarkedAre, RealIsReplayable
<1>7. session'[r] = session[r] \o ms /\ said'[r] = said[r] \o ms
  <2>1. session \in [Runs -> MessagesType] /\ said \in [Runs -> Seq(RealMessages)] BY DEF KeepInv, RunTypes
  <2> QED BY <1>3, <1>6, <2>1
<1>8. rs'[r].snapshot = rs[r].snapshot /\ rs'[r].savedTo = rs[r].savedTo
  <2>1. rs \in [Runs -> RunStates] /\ rs[r] \in RunStates BY StatesAre
  <2>2. rs' = [rs EXCEPT ![r] = [rs[r] EXCEPT !.compactedOnError = FALSE, !.rounds = @ + 1]]
    BY <2>1 DEF CallsTools
  <2> QED BY <2>1, <2>2 DEF RunStates
<1>9. log' = log /\ latest' = latest /\ pc[r] \in Saving BY DEF CallsTools, Saving
<1>10. pc'[r] \in {"loop", "checkpoint", "finish"}
  <2>1. \E to \in {"loop", "checkpoint", "finish"} : Goes(r, to) BY DEF CallsTools
  <2> QED BY <2>1, PlaceIs
<1> QED BY <1>1, <1>5, <1>6, <1>7, <1>8, <1>9, <1>10, AddsInSight

-----------------------------------------------------------------------------
(* What a run starts with. *)

LEMMA RestoredIs ==
    ASSUME KeepInv, SightInv
    PROVE  Restored \in Seq(Uttered) /\ (UserAfter(latest) => HasUser(Restored))
<1> DEFINE tail == Tail_(log, 0, latest)
<1>1. log \in Seq(Marked) /\ log \in Seq(Uttered) /\ latest \in Memos \cup {NoSnapshot} BY DEF KeepInv, SightInv
<1>2. PICK n \in 0 .. Len(log) :
          /\ tail = [i \in 1 .. Len(log) - n |-> [message |-> log[n + i], cursor |-> 0 + n + i - 1]]
          /\ \A j \in 1 .. Len(log) : j > Covered(latest) /\ ~log[j].tool => j > n
  BY <1>1, GivenTail
<1> DEFINE l == Len(log)
<1>3. l \in Nat /\ n \in 0 .. l /\ DOMAIN log = 1 .. l BY <1>1
<1>4. Restored = [i \in 1 .. l - n |-> log[n + i]]
  <2> DEFINE e(i) == [message |-> log[n + i], cursor |-> 0 + n + i - 1]
  <2>1. tail = [i \in 1 .. l - n |-> e(i)] BY <1>2
  <2>2. \A i \in 1 .. l - n : e(i).message = log[n + i] OBVIOUS
  <2>3. Restored = [i \in DOMAIN tail |-> tail[i].message] BY DEF Restored
  <2> HIDE DEF tail, e, l
  <2>4. DOMAIN tail = 1 .. l - n /\ \A i \in 1 .. l - n : tail[i].message = log[n + i] BY <2>1, <2>2
  <2> QED BY <2>3, <2>4
<1> HIDE DEF tail
<1>5. ASSUME NEW i \in 1 .. l - n PROVE n + i \in 1 .. l BY <1>3
<1>6. \A i \in 1 .. l : log[i] \in Uttered BY <1>1
<1> HIDE DEF l
<1>7. Restored \in Seq(Uttered)
  <2>1. l - n \in Nat BY <1>3
  <2>2. \A i \in 1 .. l - n : log[n + i] \in Uttered BY <1>5, <1>6
  <2> QED BY <1>4, <2>1, <2>2
<1>8. ASSUME UserAfter(latest) PROVE HasUser(Restored)
  <2>1. PICK j \in 1 .. l : j > Covered(latest) /\ log[j].kind = "user" BY <1>3, <1>8 DEF UserAfter
  <2>2. ~log[j].tool
    <3>1. log[j] \in Marked BY <1>1, <1>3
    <3> QED BY <2>1, <3>1 DEF Marked
  <2>3. j > n BY <1>2, <2>1, <2>2 DEF l
  <2> DEFINE i == j - n
  <2>4. i \in 1 .. l - n /\ j = n + i BY <1>3, <2>3
  <2> HIDE DEF i
  <2>5. i \in DOMAIN Restored /\ Restored[i] = log[j] BY <1>4, <2>4
  <2> QED BY <2>1, <2>5 DEF HasUser
<1> QED BY <1>7, <1>8

LEMMA StartsInSight == ASSUME KeepInv, SightInv, NEW r \in Runs, Start(r) PROVE SightInv'
<1>1. OthersRest(r) BY StepsAreOfOne
<1>2. pc[r] = "new" /\ UNCHANGED <<log, latest>> BY DEF Start
<1>3. RunTypes /\ said[r] = <<>> /\ Restored \in Seq(Uttered) /\ (UserAfter(latest) => HasUser(Restored))
  BY <1>2, RestoredIs DEF KeepInv, SightInv, SightIs
<1>4. PICK input \in {<<>>, <<Msg("user", r, 1)>>} :
          /\ input \in Seq(Marked)
          /\ said'[r] = input /\ Unsaved(r)' = input /\ TailOf(r)' = Restored \o input
          /\ rs'[r].snapshot = latest /\ pc'[r] = "loop"
  BY StartIs
<1>5. input \in Seq(RealMessages) /\ said'[r] = said[r] \o input
  <2>1. input \in Seq(RealMessages) BY <1>4, MarkedAre
  <2>2. <<>> \o input = input BY <2>1, ConcatEmptySeq
  <2> QED BY <1>3, <1>4, <2>1, <2>2
<1>6. \A i \in 1 .. Len(input) :
          /\ input[i].of = <<<<r, Len(said[r]) + i>>>> /\ input[i].kind \in {"user", "answer", "call", "tool"}
          /\ input[i].kind = "user" => said[r] = <<>> /\ i = 1
  <2> DEFINE x == Msg("user", r, 1)
  <2>1. x.of = <<<<r, 1>>>> /\ x.kind = "user" BY DEF Msg
  <2>2. Len(said[r]) = 0 BY <1>3
  <2> HIDE DEF x
  <2>3. CASE input = <<>>
    <3>1. Len(input) = 0 BY <2>3
    <3> QED BY <3>1
  <2>4. CASE input = <<x>>
    <3>1. \A i \in 1 .. Len(input) : i = 1 /\ input[i] = x BY <2>4
    <3>2. Len(said[r]) + 1 = 1 BY <2>2
    <3> QED BY <1>3, <2>1, <3>1, <3>2
  <2> QED BY <1>4, <2>3, <2>4 DEF x
<1>7. Speaks /\ input \in Seq(Uttered') /\ InOrder(r)' BY <1>1, <1>5, <1>6, SpeaksInSight
<1> DEFINE rest == Restored
<1>8. rest \in Seq(Uttered') BY <1>3, <1>7, StillSaid, SeqMonotonic
<1>9. UserAfter(latest) => HasUser(rest) BY <1>3
<1> HIDE DEF rest
<1>10. rest \o input \in Seq(Uttered') /\ (HasUser(rest) => HasUser(rest \o input))
  BY <1>7, <1>8, ConcatProperties, SeenLonger
<1>11. HasUser(TailOf(r))' = HasUser(rest \o input) BY <1>4 DEF HasUser, rest
<1>12. SeesTask(latest, HasUser(rest \o input), UtteredIds', UserIds')
  <2> DEFINE y == UserAfter(latest)
             z == HasUser(rest \o input)
             x == latest
  <2>1. SeesTask(x, y, UtteredIds, UserIds) /\ (y => z) BY <1>9, <1>10 DEF SightInv
  <2> HIDE DEF x, y, z
  <2>2. SeesTask(x, z, UtteredIds', UserIds') BY <1>3, <1>7, <2>1, StillRemembers
  <2> QED BY <2>2 DEF x, z
<1>13. TailOf(r)' \in Seq(Uttered') /\ SeesTask(rs'[r].snapshot, HasUser(TailOf(r))', UtteredIds', UserIds')
  BY <1>4, <1>10, <1>11, <1>12 DEF rest
<1>14. pc'[r] \notin {"new", "compactSave"} \cup Storing BY <1>4 DEF Storing
<1>15. SightIs(r)' BY <1>4, <1>7, <1>13, <1>14 DEF SightIs, Storing
<1> QED BY <1>1, <1>2, <1>7, <1>15, MovedInSight

-----------------------------------------------------------------------------
(* Compactions keep the task in sight. *)

LEMMA UtteredSeqs ==
    ASSUME KeepInv, SightInv, NEW s \in Seq(Uttered)
    PROVE  s \in Seq(Singles) /\ s \in Seq(Marked) /\ s \in Seq(RealMessages)
<1>1. Uttered \subseteq Singles BY UtteredAre
<1>2. Singles \subseteq Marked BY DEF Singles
<1>3. s \in Seq(Singles) /\ s \in Seq(Marked) BY <1>1, <1>2, SeqMonotonic
<1> QED BY <1>3, MarkedAre

LEMMA SeenInEither ==
    ASSUME NEW T, NEW s \in Seq(T), NEW t \in Seq(T), HasUser(s \o t) PROVE HasUser(s) \/ HasUser(t)
<1>1. /\ DOMAIN (s \o t) = 1 .. Len(s) + Len(t)
      /\ \A k \in 1 .. Len(s) : (s \o t)[k] = s[k]
      /\ \A k \in 1 .. Len(t) : (s \o t)[Len(s) + k] = t[k]
  BY JoinedAt
<1>2. Len(s) \in Nat /\ Len(t) \in Nat /\ DOMAIN s = 1 .. Len(s) /\ DOMAIN t = 1 .. Len(t) OBVIOUS
<1>3. PICK k \in 1 .. Len(s) + Len(t) : (s \o t)[k].kind = "user" BY <1>1 DEF HasUser
<1>4. CASE k <= Len(s)
  <2>1. k \in 1 .. Len(s) BY <1>2, <1>4
  <2> QED BY <1>1, <1>2, <1>3, <2>1 DEF HasUser
<1>5. CASE k > Len(s)
  <2> DEFINE i == k - Len(s)
  <2>1. i \in 1 .. Len(t) /\ k = Len(s) + i BY <1>2, <1>5
  <2> HIDE DEF i
  <2> QED BY <1>1, <1>2, <1>3, <2>1 DEF HasUser
<1> QED BY <1>2, <1>4, <1>5

\* The snapshot that a compaction plans remembers the task as long as the last one did.
LEMMA PlanRemembers ==
    ASSUME KeepInv, SightInv, NEW older \in Seq(Uttered), NEW kept \in Seq(Uttered),
           NEW previous \in Memos \cup {NoSnapshot},
           SeesTask(previous, HasUser(older \o kept), UtteredIds, UserIds),
           NEW s, s.of = StandsFor(previous, older), s.pinned = Pinned(older, kept, previous)
    PROVE  Remembers(s, HasUser(kept), UtteredIds, UserIds)
<1> DEFINE a == IF previous = NoSnapshot THEN <<>> ELSE previous.of
           ids == s.of
           seen == HasUser(older \o kept)
<1>1. a \in Seq(UtteredIds)
  <2>1. previous # NoSnapshot => previous.of \in Seq(UtteredIds) BY DEF SeesTask, Remembers
  <2>2. <<>> \in Seq(UtteredIds) OBVIOUS
  <2> QED BY <2>1, <2>2
<1>2. ids = a \o NamesOf(older)
  <2>1. Said(older) = NamesOf(older) BY UtteredSeqs, SinglesSay
  <2> QED BY <2>1 DEF StandsFor
<1>3. NamesOf(older) \in Seq(UtteredIds)
  <2>1. \A i \in 1 .. Len(older) : older[i] \in Uttered OBVIOUS
  <2>2. \A i \in 1 .. Len(older) : older[i].of[1] \in UtteredIds BY <2>1, UtteredAre
  <2>3. Len(older) \in Nat OBVIOUS
  <2> QED BY <2>2, <2>3 DEF NamesOf
<1>4. older \in Seq(Marked) /\ kept \in Seq(Marked) BY UtteredSeqs
<1>5. previous # NoSnapshot =>
          seen \/ \A i \in DOMAIN previous.of :
                      IsTask(previous.of, i, UserIds) => Holds(previous.pinned, previous.of[i])
  BY DEF SeesTask, Remembers
<1>6. seen => HasUser(older) \/ HasUser(kept) BY SeenInEither
<1>7. ids \in Seq(UtteredIds)
  <2> HIDE DEF a, ids
  <2> QED BY <1>1, <1>2, <1>3, ConcatProperties
<1>8. previous = NoSnapshot => DOMAIN a = {} OBVIOUS
<1>9. previous # NoSnapshot => a = previous.of OBVIOUS
<1> HIDE DEF a, ids, seen
<1>10. ASSUME ~HasUser(kept), NEW i \in DOMAIN ids, IsTask(ids, i, UserIds) PROVE Holds(s.pinned, ids[i])
  <2>1. UsersOf(kept) = <<>> BY <1>4, <1>10, NoUsers
  <2>2. TaskOf(a, older, ids, i) BY <1>1, <1>2, <1>10, TaskOfBoth
  <2>3. CASE HasUser(older)
    <3>1. PICK k \in 1 .. Len(older) :
              /\ older[k].kind = "user" /\ ids[i] = older[k].of[1]
              /\ \A j \in 1 .. Len(older) : j > k => older[j].kind # "user"
      BY <2>2, <2>3 DEF TaskOf
    <3>2. UsersOf(older) # <<>> /\ Last(UsersOf(older)) = older[k] BY <1>4, <3>1, LastUser
    <3> DEFINE m == older[k]
    <3>3. s.pinned = <<m>> BY <2>1, <3>2 DEF Pinned
    <3>4. m.kind = "user" /\ m.of[1] = ids[i] BY <3>1
    <3> HIDE DEF m
    <3>5. 1 \in DOMAIN <<m>> /\ <<m>>[1] = m OBVIOUS
    <3> QED BY <3>3, <3>4, <3>5 DEF Holds
  <2>4. CASE ~HasUser(older)
    <3>1. UsersOf(older) = <<>> BY <1>4, <2>4, NoUsers
    <3>2. previous # NoSnapshot BY <1>8, <2>2, <2>4 DEF TaskOf
    <3>3. s.pinned = previous.pinned BY <2>1, <3>1, <3>2 DEF Pinned
    <3>4. ~seen BY <1>6, <1>10, <2>4
    <3> QED BY <1>5, <1>9, <2>2, <2>4, <3>2, <3>3, <3>4 DEF TaskOf
  <2> QED BY <2>3, <2>4
<1> QED BY <1>7, <1>10 DEF Remembers, ids

LEMMA PlansInSight == ASSUME KeepInv, SightInv, NEW r \in Runs, CompactPlan(r) PROVE SightInv'
<1> DEFINE tail == TailOf(r)
           previous == rs[r].snapshot
<1>1. OthersRest(r) BY StepsAreOfOne DEF Step
<1>2. pc[r] = "compact" /\ pc[r] \in Active BY DEF CompactPlan, Saving, Active
<1>3. UNCHANGED <<log, latest, session, said>> BY DEF CompactPlan
<1>4. SessionIs(r) /\ SightIs(r) /\ RunTypes BY DEF KeepInv, SightInv
<1>5. /\ tail \in Seq(Marked) /\ Paired(tail) /\ tail \in Seq(Uttered) /\ plan[r].next \in {"llm", "loop"}
      /\ SeesTask(previous, HasUser(tail), UtteredIds, UserIds)
  BY <1>2, <1>4 DEF SessionIs, SightIs
<1>6. previous \in Memos \cup {NoSnapshot} BY SessionFacts
<1>7. PICK k \in 0 .. Len(tail) :
          LET split == SplitPoint(tail, k)
              older == SubSeq(tail, 1, split)
              kept == SubSeq(tail, split + 1, Len(tail))
          IN  IF split = 0
              THEN Continue(r, rs[r])
              ELSE /\ plan' = [plan EXCEPT ![r] =
                         [next |-> @.next, kept |-> kept, upTo |-> -1,
                          snapshot |->
                              [of |-> StandsFor(previous, older),
                               pinned |-> Pinned(older, kept, previous), upTo |-> -1]]]
                   /\ Goes(r, "compactSave")
                   /\ UNCHANGED rs
  BY DEF CompactPlan
<1> DEFINE split == SplitPoint(tail, k)
           older == SubSeq(tail, 1, split)
           kept == SubSeq(tail, split + 1, Len(tail))
<1>8. k \in Int BY <1>5
<1>9. CASE split = 0
  <2>1. Continue(r, rs[r]) BY <1>7, <1>9
  <2> DEFINE s == IF plan[r].next = "llm" THEN Counted(rs[r]) ELSE rs[r]
             to == plan[r].next
  <2>2. s \in RunStates /\ s.snapshot = rs[r].snapshot /\ s.savedTo = rs[r].savedTo
    BY SessionFacts, CountedKeeps
  <2>3. rs' = [rs EXCEPT ![r] = s] /\ Goes(r, to) BY <2>1 DEF Continue
  <2> HIDE DEF s
  <2>4. rs'[r] = s BY <2>2, <2>3, StatesAre
  <2>5. Unsaved(r)' = Unsaved(r) BY <1>3, <2>2, <2>4, UnsavedStays
  <2>6. pc'[r] \in {"llm", "loop"} BY <1>5, <2>3, PlaceIs
  <2>7. pc'[r] \notin {"compactSave", "new", "finish"} \cup Storing BY <2>6 DEF Storing
  <2>8. SightInv' BY <1>1, <1>2, <1>3, <2>2, <2>4, <2>5, <2>7, RestsInSight DEF Storing
  <2> QED BY <2>8
<1>10. CASE split # 0
  <2> DEFINE new == [of |-> StandsFor(previous, older), pinned |-> Pinned(older, kept, previous), upTo |-> -1]
             p == [next |-> plan[r].next, kept |-> kept, upTo |-> -1, snapshot |-> new]
  <2>1. plan' = [plan EXCEPT ![r] = p] /\ Goes(r, "compactSave") /\ rs' = rs BY <1>7, <1>10
  <2>2. split \in 0 .. Len(tail)
    <3> HIDE DEF tail, split
    <3> QED BY <1>5, <1>8, TailCut DEF split
  <2> HIDE DEF split
  <2>3. older \in Seq(Uttered) /\ kept \in Seq(Uttered) /\ tail = older \o kept
    <3> HIDE DEF tail
    <3> QED BY <1>5, <2>2, EndOf
  <2> HIDE DEF older, kept
  <2>4. SeesTask(previous, HasUser(older \o kept), UtteredIds, UserIds) BY <1>5, <2>3
  <2>5. new.of = StandsFor(previous, older) /\ new.pinned = Pinned(older, kept, previous) OBVIOUS
  <2> HIDE DEF new
  <2>6. Remembers(new, HasUser(kept), UtteredIds, UserIds)
    <3> HIDE DEF previous, tail
    <3> QED BY <1>6, <2>3, <2>4, <2>5, PlanRemembers
  <2>7. plan'[r] = p BY <2>1, StatesAre
  <2>8. plan'[r].kept = kept /\ plan'[r].snapshot = new BY <2>7
  <2>9. pc'[r] = "compactSave" BY <2>1, PlaceIs
  <2>10. Speaks BY <1>3, <1>4, SaysNothing
  <2>11. Uttered' = Uttered /\ UtteredIds' = UtteredIds /\ UserIds' = UserIds
    BY <1>3 DEF Uttered, UtteredIds, UserIds
  <2>12. TailOf(r)' = tail /\ Unsaved(r)' = Unsaved(r) BY <1>3, <2>1 DEF TailOf, TailStart, Unsaved
  <2>13. HasUser(TailOf(r))' = HasUser(tail) /\ HasUser(plan[r].kept)' = HasUser(kept)
    BY <2>8, <2>12 DEF HasUser
  <2> HIDE DEF tail, previous, p
  <2>14. InOrder(r)' BY <1>3, <1>4 DEF SightIs, InOrder
  <2>15. (/\ TailOf(r) \in Seq(Uttered)
          /\ SeesTask(rs[r].snapshot, HasUser(TailOf(r)), UtteredIds, UserIds))'
    BY <1>5, <2>1, <2>11, <2>12, <2>13 DEF previous
  <2>16. (/\ plan[r].kept \in Seq(Uttered)
          /\ Remembers(plan[r].snapshot, HasUser(plan[r].kept), UtteredIds, UserIds)
          /\ \E x \in Seq(Uttered) : TailOf(r) = x \o plan[r].kept)'
    BY <2>3, <2>6, <2>8, <2>11, <2>12, <2>13
  <2>17. (Unsaved(r) \in Seq(Uttered))' BY <1>2, <1>4, <2>11, <2>12 DEF SightIs
  <2>18. pc'[r] # "new" /\ pc'[r] # "compactStore" BY <2>9
  <2>19. SightIs(r)' BY <2>14, <2>15, <2>16, <2>17, <2>18 DEF SightIs
  <2> QED BY <1>1, <1>3, <2>10, <2>19, MovedInSight
<1> QED BY <1>9, <1>10

LEMMA CompactedInSight ==
    ASSUME KeepInv, SightInv, NEW r \in Runs, pc[r] \in Storing, OthersRest(r),
           NEW stored \in Snapshots \cup {NoSnapshot}, Compacted(r, stored),
           log' = log, said' = said,
           latest' = latest \/ SeesTask(latest, UserAfter(latest), UtteredIds, UserIds)'
    PROVE  SightInv'
<1>1. SightIs(r) /\ RunTypes BY DEF KeepInv, SightInv
<1>2. Speaks BY <1>1, SaysNothing
<1>3. /\ rs'[r].snapshot = plan[r].snapshot /\ TailOf(r)' = plan[r].kept /\ Unsaved(r)' = <<>>
      /\ pc'[r] \in {"llm", "loop"}
  BY CompactedIs
<1>4. Uttered' = Uttered /\ UtteredIds' = UtteredIds /\ UserIds' = UserIds
  BY DEF Uttered, UtteredIds, UserIds
<1>5. HasUser(TailOf(r))' = HasUser(plan[r].kept) BY <1>3 DEF HasUser
<1>6. plan[r].kept \in Seq(Uttered) /\ Remembers(plan[r].snapshot, HasUser(plan[r].kept), UtteredIds, UserIds)
  BY <1>1 DEF SightIs
<1>7. InOrder(r)' BY <1>1 DEF SightIs, InOrder
<1>8. (/\ TailOf(r) \in Seq(Uttered)
       /\ SeesTask(rs[r].snapshot, HasUser(TailOf(r)), UtteredIds, UserIds))'
  BY <1>3, <1>4, <1>5, <1>6 DEF SeesTask
<1>9. Unsaved(r)' \in Seq(Uttered)'
  <2>1. <<>> \in Seq(Uttered') OBVIOUS
  <2> QED BY <1>3, <2>1
<1>10. pc'[r] \notin {"new", "compactSave"} \cup Storing BY <1>3 DEF Storing
<1>11. SightIs(r)' BY <1>7, <1>8, <1>9, <1>10 DEF SightIs, Storing
<1> QED BY <1>2, <1>11, MovedInSight

LEMMA StoreFailsInSight == ASSUME KeepInv, SightInv, NEW r \in Runs, CompactStoreFails(r) PROVE SightInv'
<1>1. OthersRest(r) BY StepsAreOfOne DEF Step
<1>2. /\ pc[r] \in Storing /\ Compacted(r, rs[r].stored)
      /\ log' = log /\ latest' = latest /\ said' = said
  BY DEF CompactStoreFails, Storing
<1>3. rs[r].stored \in Snapshots \cup {NoSnapshot} BY SessionFacts DEF RunStates
<1> QED BY <1>1, <1>2, <1>3, CompactedInSight

LEMMA StoresInSight == ASSUME KeepInv, SightInv, NEW r \in Runs, CompactStore(r) PROVE SightInv'
<1> DEFINE s == plan[r].snapshot
           kept == plan[r].kept
           upTo == plan[r].upTo
           snapshot == [s EXCEPT !.upTo = upTo]
           ok == Cutoff(latest, rs[r].stored, upTo, Len(log)) = "ok"
<1>1. OthersRest(r) BY StepsAreOfOne DEF Step
<1>2. pc[r] = "compactStore" /\ pc[r] \in Storing BY DEF CompactStore, Storing
<1>3. /\ log' = log /\ said' = said
      /\ ok => latest' = snapshot /\ Compacted(r, snapshot)
      /\ ~ok => latest' = latest /\ Compacted(r, rs[r].stored)
  BY DEF CompactStore
<1>4. plan[r] \in Planned /\ SightIs(r)
  <2>1. SessionIs(r) BY DEF KeepInv
  <2> QED BY <1>2, <2>1 DEF SessionIs, SightInv
<1>5. s \in Memos /\ upTo \in Int /\ kept \in Seq(Marked) BY <1>4 DEF Planned
<1>6. /\ Remembers(s, HasUser(kept), UtteredIds, UserIds)
      /\ \A i \in 1 .. Len(kept) : upTo + 1 + i \in DOMAIN log /\ log[upTo + 1 + i] = kept[i]
  BY <1>2, <1>4 DEF SightIs
<1> HIDE DEF ok, s, kept, upTo
<1>7. snapshot \in Memos /\ snapshot.of = s.of /\ snapshot.pinned = s.pinned /\ snapshot.upTo = upTo
  BY <1>5 DEF Memos
<1>8. snapshot \in Snapshots BY <1>7, MemosAre
<1> HIDE DEF snapshot
<1>9. CASE ok
  <2>1. latest' = snapshot /\ Compacted(r, snapshot) BY <1>3, <1>9
  <2>2. SeesTask(latest, UserAfter(latest), UtteredIds, UserIds)'
    <3> SUFFICES ASSUME snapshot # NoSnapshot
                 PROVE  Remembers(snapshot, UserAfter(latest)', UtteredIds', UserIds')
      BY <2>1 DEF SeesTask
    <3>1. HasUser(kept) => UserAfter(latest)'
      <4> SUFFICES ASSUME HasUser(kept) PROVE UserAfter(latest)' OBVIOUS
      <4>1. PICK i \in 1 .. Len(kept) : kept[i].kind = "user"
        <5>1. DOMAIN kept = 1 .. Len(kept) BY <1>5
        <5> QED BY <5>1 DEF HasUser
      <4> DEFINE j == upTo + 1 + i
      <4>2. j \in DOMAIN log' /\ log'[j].kind = "user" BY <1>3, <1>6, <4>1
      <4>3. Covered(latest)' = upTo + 1 BY <1>7, <2>1 DEF Covered
      <4>4. j > upTo + 1 BY <1>5
      <4> HIDE DEF j
      <4> QED BY <4>2, <4>3, <4>4 DEF UserAfter
    <3>2. UtteredIds' = UtteredIds /\ UserIds' = UserIds BY <1>3 DEF UtteredIds, UserIds
    <3> QED BY <1>6, <1>7, <3>1, <3>2 DEF Remembers
  <2> QED BY <1>1, <1>2, <1>3, <1>8, <2>1, <2>2, CompactedInSight
<1>10. CASE ~ok
  <2>1. rs[r].stored \in Snapshots \cup {NoSnapshot} BY SessionFacts DEF RunStates
  <2> QED BY <1>1, <1>2, <1>3, <1>10, <2>1, CompactedInSight
<1> QED BY <1>9, <1>10

LEMMA LoadsInSight == ASSUME KeepInv, SightInv, NEW r \in Runs, CompactLoad(r) PROVE SightInv'
<1> DEFINE behind == Tail_(log, 0, latest)
           logged == Picked(behind, {i \in DOMAIN behind : behind[i].message.kind # "empty"})
           tail == Replayable(TailOf(r))
           kept == plan[r].kept
           covered == Len(Replayable(SubSeq(TailOf(r), 1, Len(TailOf(r)) - Len(kept))))
           starts == {s \in 0 .. Len(logged) - Len(tail) :
                         \A i \in DOMAIN tail : logged[s + i].message = tail[i]}
           upTo == LastCovered(logged, Max(starts), covered)
           found == Same(latest, rs[r].stored) /\ covered > 0 /\ starts # {}
<1>1. OthersRest(r) BY StepsAreOfOne DEF Step
<1>2. pc[r] = "compactLoad" /\ pc[r] \in Storing /\ pc[r] \in Active BY DEF CompactLoad, Storing, Active
<1>3. UNCHANGED <<log, latest, said>> BY DEF CompactLoad
<1>4. /\ found => /\ plan' = [plan EXCEPT ![r].upTo = upTo]
                  /\ Goes(r, "compactStore") /\ UNCHANGED <<session, rs>>
      /\ ~found => Compacted(r, rs[r].stored)
  BY DEF CompactLoad
<1>5. found => \A i \in 1 .. Len(tail) - covered :
                   upTo + 1 + i \in DOMAIN log /\ log[upTo + 1 + i] = tail[covered + i]
  BY <1>2, SomeCursor
<1>6. SightIs(r) /\ RunTypes BY DEF KeepInv, SightInv
<1>7. PICK older \in Seq(Uttered) : TailOf(r) = older \o kept BY <1>2, <1>6 DEF SightIs
<1>8. kept \in Seq(Uttered) BY <1>2, <1>6 DEF SightIs
<1> HIDE DEF found, upTo, starts, logged, behind, kept
<1>9. covered = Len(older) /\ tail = older \o kept
  <2>1. older \in Seq(RealMessages) /\ kept \in Seq(RealMessages) BY <1>7, <1>8, UtteredSeqs
  <2>2. /\ older \o kept \in Seq(RealMessages) /\ Len(older \o kept) = Len(older) + Len(kept)
        /\ SubSeq(older \o kept, 1, Len(older)) = older
    BY <2>1, CutAt
  <2>3. Len(older) \in Nat /\ Len(kept) \in Nat BY <2>1
  <2>4. (Len(older) + Len(kept)) - Len(kept) = Len(older) BY <2>3
  <2>5. Replayable(older) = older /\ Replayable(older \o kept) = older \o kept
    BY <2>1, <2>2, RealIsReplayable
  <2> QED BY <1>7, <2>2, <2>4, <2>5
<1> HIDE DEF tail, covered
<1>10. found => \A i \in 1 .. Len(kept) : upTo + 1 + i \in DOMAIN log /\ log[upTo + 1 + i] = kept[i]
  <2>1. Len(older) \in Nat /\ Len(kept) \in Nat BY <1>8
  <2>2. Len(older \o kept) = Len(older) + Len(kept) BY <1>8, ConcatProperties
  <2>3. \A i \in 1 .. Len(kept) : (older \o kept)[Len(older) + i] = kept[i] BY <1>8, JoinedAt
  <2>4. (Len(older) + Len(kept)) - Len(older) = Len(kept) BY <2>1
  <2> QED BY <1>5, <1>9, <2>2, <2>3, <2>4
<1>11. CASE ~found
  <2>1. rs[r].stored \in Snapshots \cup {NoSnapshot} BY SessionFacts DEF RunStates
  <2> QED BY <1>1, <1>2, <1>3, <1>4, <1>11, <2>1, CompactedInSight
<1>12. CASE found
  <2> DEFINE p == [plan[r] EXCEPT !.upTo = upTo]
  <2>1. plan' = [plan EXCEPT ![r] = p] /\ Goes(r, "compactStore") /\ session' = session /\ rs' = rs
    BY <1>4, <1>12
  <2>2. p.kept = kept /\ p.snapshot = plan[r].snapshot /\ p.upTo = upTo
    <3>1. SessionIs(r) BY DEF KeepInv
    <3>2. plan[r] \in Planned BY <1>2, <3>1 DEF SessionIs
    <3> QED BY <3>2 DEF Planned, kept
  <2> HIDE DEF p
  <2>3. plan'[r].kept = kept /\ plan'[r].snapshot = plan[r].snapshot /\ plan'[r].upTo = upTo
    <3>1. plan'[r] = p BY <2>1, StatesAre
    <3> QED BY <2>2, <3>1
  <2>4. pc'[r] = "compactStore" /\ pc'[r] \in Storing BY <2>1, PlaceIs DEF Storing
  <2>5. Speaks BY <1>3, <1>6, SaysNothing
  <2>6. Uttered' = Uttered /\ UtteredIds' = UtteredIds /\ UserIds' = UserIds
    BY <1>3 DEF Uttered, UtteredIds, UserIds
  <2>7. TailOf(r)' = TailOf(r) /\ Unsaved(r)' = Unsaved(r) BY <2>1 DEF TailOf, TailStart, Unsaved
  <2>8. HasUser(TailOf(r))' = HasUser(TailOf(r)) /\ HasUser(plan[r].kept)' = HasUser(kept)
    BY <2>3, <2>7 DEF HasUser
  <2>9. InOrder(r)' BY <1>3, <1>6 DEF SightIs, InOrder
  <2>10. (/\ TailOf(r) \in Seq(Uttered)
          /\ SeesTask(rs[r].snapshot, HasUser(TailOf(r)), UtteredIds, UserIds))'
    BY <1>2, <1>6, <2>1, <2>6, <2>7, <2>8 DEF SightIs
  <2>11. Remembers(plan[r].snapshot, HasUser(kept), UtteredIds, UserIds) BY <1>2, <1>6 DEF SightIs, kept
  <2>12. (/\ plan[r].kept \in Seq(Uttered)
          /\ Remembers(plan[r].snapshot, HasUser(plan[r].kept), UtteredIds, UserIds)
          /\ \E x \in Seq(Uttered) : TailOf(r) = x \o plan[r].kept)'
    BY <1>7, <1>8, <2>3, <2>6, <2>7, <2>8, <2>11
  <2>13. (Unsaved(r) \in Seq(Uttered))' BY <1>2, <1>6, <2>6, <2>7 DEF SightIs
  <2>14. (\A i \in 1 .. Len(plan[r].kept) :
              plan[r].upTo + 1 + i \in DOMAIN log /\ log[plan[r].upTo + 1 + i] = plan[r].kept[i])'
    BY <1>3, <1>10, <1>12, <2>3
  <2>15. SightIs(r)' BY <2>4, <2>9, <2>10, <2>12, <2>13, <2>14 DEF SightIs
  <2> QED BY <1>1, <1>3, <2>5, <2>15, MovedInSight
<1> QED BY <1>11, <1>12

-----------------------------------------------------------------------------
(* The invariant, and what a prompt recalls. *)

LEMMA SightStart == Init => SightInv
<1> SUFFICES ASSUME Init PROVE SightInv OBVIOUS
<1>1. log = <<>> /\ latest = NoSnapshot /\ pc = [r \in Runs |-> "new"] /\ said = [r \in Runs |-> <<>>]
  BY DEF Init
<1>2. ASSUME NEW r \in Runs PROVE SightIs(r)
  <2>1. pc[r] = "new" /\ said[r] = <<>> BY <1>1
  <2>2. "new" \notin {"finish", "compactSave"} \cup Active \cup Storing BY DEF Active, Saving, Storing
  <2>3. InOrder(r) BY <2>1 DEF InOrder
  <2> QED BY <2>1, <2>2, <2>3 DEF SightIs, Storing
<1>3. log \in Seq(Uttered) BY <1>1
<1>4. SeesTask(latest, UserAfter(latest), UtteredIds, UserIds) BY <1>1 DEF SeesTask
<1> QED BY <1>2, <1>3, <1>4 DEF SightInv

LEMMA SightStep == ASSUME KeepInv, SightInv, [Next]_vars PROVE SightInv'
<1>1. CASE UNCHANGED vars
  <2>1. UNCHANGED <<log, latest, pc, session, rs, plan, said>> BY <1>1 DEF vars
  <2>2. RunTypes /\ log \in Seq(RealMessages) BY DEF KeepInv, RunTypes
  <2>3. Speaks BY <2>1, <2>2, SaysNothing
  <2>4. log' = log \o <<>> /\ <<>> \in Seq(RealMessages) BY <2>1, <2>2, ConcatEmptySeq
  <2>5. ASSUME NEW q \in Runs PROVE SightIs(q)'
    <3>1. SightIs(q) BY DEF SightInv
    <3> QED BY <2>1, <2>2, <2>3, <2>4, <3>1, StillInSight
  <2>6. Uttered' = Uttered /\ UtteredIds' = UtteredIds /\ UserIds' = UserIds
    BY <2>1 DEF Uttered, UtteredIds, UserIds
  <2>7. UserAfter(latest)' = UserAfter(latest) BY <2>1 DEF UserAfter, Covered
  <2> QED BY <2>1, <2>5, <2>6, <2>7 DEF SightInv
<1>2. ASSUME NEW r \in Runs, Start(r) PROVE SightInv' BY <1>2, StartsInSight
<1>3. ASSUME NEW r \in Runs, StartFails(r) PROVE SightInv' BY <1>3, EndsInSight
<1>4. ASSUME NEW r \in Runs, Step(r) PROVE SightInv'
  BY <1>4, QuietInSight, LoopingInSight, AnswersInSight, CallsInSight, CheckpointInSight, EndsInSight,
     PlansInSight, LoadsInSight, StoreFailsInSight, StoresInSight
  DEF Step
<1> QED BY <1>1, <1>2, <1>3, <1>4 DEF Next

LEMMA SummaryOfBoth ==
    ASSUME NEW s \in Seq(Marked), NEW t \in Seq(Marked)
    PROVE  SummaryOf(s \o t) = SummaryOf(s) \o SummaryOf(t)
<1> DEFINE I == {i \in DOMAIN s : s[i].kind = "summary"}
           J == {i \in DOMAIN t : t[i].kind = "summary"}
           K == {i \in DOMAIN (s \o t) : (s \o t)[i].kind = "summary"}
<1>1. /\ DOMAIN s = 1 .. Len(s) /\ DOMAIN t = 1 .. Len(t) /\ Len(s) \in Nat /\ Len(t) \in Nat
      /\ DOMAIN (s \o t) = 1 .. Len(s) + Len(t)
      /\ \A i \in 1 .. Len(s) : (s \o t)[i] = s[i]
      /\ \A i \in 1 .. Len(t) : (s \o t)[Len(s) + i] = t[i]
  <2> HIDE DEF Marked
  <2> QED OBVIOUS
<1>2. \A i \in 1 .. Len(s) : i \in K <=> i \in I BY <1>1
<1>3. \A i \in 1 .. Len(t) : Len(s) + i \in K <=> i \in J BY <1>1
<1>4. SummaryOf(s \o t) = Picked(s \o t, K) /\ SummaryOf(s) = Picked(s, I) /\ SummaryOf(t) = Picked(t, J)
  BY DEF SummaryOf
<1> HIDE DEF I, J, K
<1> QED BY <1>2, <1>3, <1>4, PickedBoth

LEMMA NoSummaries ==
    ASSUME NEW s \in Seq(Marked), \A i \in DOMAIN s : s[i].kind # "summary" PROVE SummaryOf(s) = <<>>
<1> DEFINE I == {i \in DOMAIN s : s[i].kind = "summary"}
<1>1. \A i \in 1 .. Len(s) : i \notin I OBVIOUS
<1>2. SummaryOf(s) = Picked(s, I) BY DEF SummaryOf
<1> HIDE DEF I
<1> QED BY <1>1, <1>2, PickedNone

LEMMA OneSummary ==
    ASSUME NEW m \in Marked, m.kind = "summary" PROVE SummaryOf(<<m>>) = <<m>> /\ Said(<<m>>) = m.of
<1> DEFINE I == {i \in DOMAIN <<m>> : <<m>>[i].kind = "summary"}
<1>1. <<m>> \in Seq(Marked) /\ 1 .. Len(<<m>>) \subseteq I OBVIOUS
<1>2. SummaryOf(<<m>>) = Picked(<<m>>, I) BY DEF SummaryOf
<1> HIDE DEF I
<1>3. SummaryOf(<<m>>) = <<m>> BY <1>1, <1>2, PickedAll
<1>4. \A x \in Marked : x.of \in Seq(MessageIds) BY DEF Marked, RealMessages
<1> DEFINE s == <<m>>
<1>5. s \in Seq(Marked) /\ Len(s) = 1 /\ s[1] = m BY <1>1
<1> HIDE DEF s
<1>6. PICK f \in [0 .. Len(s) -> Seq(MessageIds)] :
          /\ f[0] = <<>> /\ \A i \in 1 .. Len(s) : f[i] = f[i - 1] \o s[i].of
          /\ Said(s) = f[Len(s)]
  BY <1>4, <1>5, SaidBy
<1>7. Said(s) = <<>> \o m.of
  <2>1. f[1] = f[1 - 1] \o s[1].of /\ Said(s) = f[1] BY <1>5, <1>6
  <2>2. 1 - 1 = 0 OBVIOUS
  <2> QED BY <1>5, <1>6, <2>1, <2>2
<1>8. <<>> \o m.of = m.of BY <1>4, ConcatEmptySeq
<1> QED BY <1>3, <1>7, <1>8 DEF s

\* What a session is made of, from its start.
LEMMA FrontIs ==
    ASSUME NEW s \in Memos \cup {NoSnapshot}
    PROVE  /\ s = NoSnapshot => Opening(s) = <<System>>
           /\ s # NoSnapshot =>
                  \E m \in Marked :
                      /\ m.kind = "summary" /\ m.of = s.of /\ s.pinned \in Seq(UserMessages)
                      /\ Opening(s) = <<System>> \o (<<m>> \o s.pinned)
<1>1. CASE s = NoSnapshot
  <2> DEFINE x == System
  <2>1. Opening(s) = <<x>> \o <<>> BY <1>1 DEF Opening, SummaryMessages
  <2> HIDE DEF x
  <2>2. <<x>> \o <<>> = <<x>> OBVIOUS
  <2> QED BY <1>1, <2>1, <2>2 DEF x
<1>2. CASE s # NoSnapshot
  <2> DEFINE m == [of |-> s.of, tool |-> FALSE, kind |-> "summary"]
  <2>1. s.of \in Seq(MessageIds) /\ s.pinned \in Seq(UserMessages) BY <1>2 DEF Memos
  <2>2. m \in Marked /\ m.kind = "summary" /\ m.of = s.of BY <2>1 DEF Marked, RealMessages
  <2>3. Opening(s) = <<System>> \o (<<m>> \o s.pinned) BY <1>2 DEF Opening, SummaryMessages
  <2> QED BY <1>2, <2>1, <2>2, <2>3
<1> QED BY <1>1, <1>2

LEMMA OpeningSays ==
    ASSUME NEW s \in Memos \cup {NoSnapshot} PROVE Said(SummaryOf(Opening(s))) = Recorded(s)
<1> DEFINE x == System
<1>1. x.kind = "system" /\ <<x>> \in Seq(Marked)
  <2>1. <<>> \in Seq(MessageIds) OBVIOUS
  <2>2. x \in Marked BY <2>1 DEF System, Marked, RealMessages
  <2> QED BY <2>2 DEF System
<1> HIDE DEF x
<1>2. SummaryOf(<<x>>) = <<>>
  <2>1. \A i \in DOMAIN <<x>> : <<x>>[i].kind # "summary" BY <1>1
  <2> QED BY <1>1, <2>1, NoSummaries
<1>3. CASE s = NoSnapshot
  <2>1. Opening(s) = <<x>> BY <1>3, FrontIs DEF x
  <2> QED BY <1>2, <1>3, <2>1, SaidNothing DEF Recorded
<1>4. CASE s # NoSnapshot
  <2>1. PICK m \in Marked :
            /\ m.kind = "summary" /\ m.of = s.of /\ s.pinned \in Seq(UserMessages)
            /\ Opening(s) = <<x>> \o (<<m>> \o s.pinned)
    BY <1>4, FrontIs DEF x
  <2> DEFINE p == s.pinned
  <2>2. p \in Seq(Marked) /\ SummaryOf(p) = <<>>
    <3>1. p \in Seq(UserMessages) BY <2>1
    <3>2. UserMessages \subseteq Marked BY DEF UserMessages
    <3> HIDE DEF p
    <3>3. p \in Seq(Marked) BY <3>1, <3>2, SeqMonotonic
    <3>4. \A i \in DOMAIN p : p[i] \in UserMessages BY <3>1
    <3>5. \A i \in DOMAIN p : p[i].kind # "summary" BY <3>4 DEF UserMessages
    <3> QED BY <3>3, <3>5, NoSummaries
  <2> HIDE DEF p
  <2>3. SummaryOf(<<m>>) = <<m>> /\ Said(<<m>>) = m.of BY <2>1, OneSummary
  <2>4. <<m>> \in Seq(Marked) /\ <<m>> \o p \in Seq(Marked) BY <2>1, <2>2
  <2>5. SummaryOf(<<m>> \o p) = <<m>> \o <<>> BY <2>2, <2>3, <2>4, SummaryOfBoth
  <2>6. SummaryOf(<<x>> \o (<<m>> \o p)) = <<>> \o (<<m>> \o <<>>)
    <3> DEFINE t == <<m>> \o p
    <3>1. t \in Seq(Marked) BY <2>4
    <3>2. SummaryOf(<<x>> \o t) = SummaryOf(<<x>>) \o SummaryOf(t)
      <4> HIDE DEF t
      <4> QED BY <1>1, <3>1, SummaryOfBoth
    <3> QED BY <1>2, <2>5, <3>2
  <2>7. <<>> \o (<<m>> \o <<>>) = <<m>> BY <2>4
  <2>8. SummaryOf(Opening(s)) = <<m>> BY <2>1, <2>6, <2>7 DEF p
  <2> QED BY <1>4, <2>1, <2>3, <2>8 DEF Recorded
<1> QED BY <1>3, <1>4

\* What a prompt recalls is what its snapshot stands for, then what follows.
LEMMA RecalledIs ==
    ASSUME KeepInv, SightInv, NEW r \in Runs, pc[r] = "llm"
    PROVE  /\ Recalled(r) = Recorded(rs[r].snapshot) \o NamesOf(TailOf(r))
           /\ Recorded(rs[r].snapshot) \in Seq(UtteredIds)
<1> DEFINE s == rs[r].snapshot
           tail == TailOf(r)
           front == Opening(s)
<1>1. pc[r] \in Active /\ SessionIs(r) /\ SightIs(r) BY DEF Active, Saving, KeepInv, SightInv
<1>2. session[r] = front \o tail /\ tail \in Seq(Marked) /\ s \in Memos \cup {NoSnapshot} BY <1>1 DEF SessionIs
<1>3. tail \in Seq(Uttered) /\ SeesTask(s, HasUser(tail), UtteredIds, UserIds) BY <1>1 DEF SightIs
<1>4. Recorded(s) \in Seq(UtteredIds)
  <2>1. s # NoSnapshot => s.of \in Seq(UtteredIds) BY <1>3 DEF SeesTask, Remembers
  <2>2. <<>> \in Seq(UtteredIds) OBVIOUS
  <2> QED BY <2>1, <2>2 DEF Recorded
<1>5. front \in Seq(Marked) BY <1>2, OpeningIs
<1>6. \A m \in Uttered : m.kind # "summary"
  <2> SUFFICES ASSUME NEW m \in Uttered PROVE m.kind # "summary" OBVIOUS
  <2>1. PICK q \in Runs : \E n \in DOMAIN said[q] : m = said[q][n] BY DEF Uttered
  <2>2. InOrder(q) BY DEF SightInv, SightIs
  <2> QED BY <2>1, <2>2 DEF InOrder
<1>7. Said(front) = Said(front) /\ Said(SummaryOf(front)) = Recorded(s) BY <1>2, OpeningSays
<1>8. Recalled(r) = Said(SummaryOf(session[r])) \o Said(tail) BY DEF Recalled
<1> HIDE DEF tail, front, s
<1>9. SummaryOf(tail) = <<>>
  <2>1. \A i \in DOMAIN tail : tail[i] \in Uttered BY <1>3
  <2>2. \A i \in DOMAIN tail : tail[i].kind # "summary" BY <1>6, <2>1
  <2> QED BY <1>2, <2>2, NoSummaries
<1>10. SummaryOf(session[r]) = SummaryOf(front) \o <<>> BY <1>2, <1>5, <1>9, SummaryOfBoth
<1>11. SummaryOf(front) \o <<>> = SummaryOf(front)
  <2> DEFINE I == {i \in DOMAIN front : front[i].kind = "summary"}
  <2>1. Len(front) \in Nat /\ \A i \in 1 .. Len(front) : i \in I => front[i] \in Marked BY <1>5
  <2>2. SummaryOf(front) = Picked(front, I) BY DEF SummaryOf
  <2> HIDE DEF I
  <2>3. SummaryOf(front) \in Seq(Marked) BY <2>1, <2>2, PickedIsSeq
  <2> QED BY <2>3, ConcatEmptySeq
<1>12. Said(tail) = NamesOf(tail) BY <1>3, UtteredSeqs, SinglesSay
<1> QED BY <1>4, <1>7, <1>8, <1>10, <1>11, <1>12 DEF s, tail

LEMMA SightShowsTask == KeepInv /\ SightInv => TaskInSight
<1> SUFFICES ASSUME KeepInv, SightInv, NEW r \in Runs, pc[r] = "llm",
                    {i \in DOMAIN Recalled(r) : Recalled(r)[i] \in UserIds} # {}
             PROVE  \E i \in DOMAIN session[r] :
                        /\ session[r][i].kind = "user"
                        /\ session[r][i].of[1]
                               = Recalled(r)[Max({j \in DOMAIN Recalled(r) : Recalled(r)[j] \in UserIds})]
  BY DEF TaskInSight
<1> DEFINE s == rs[r].snapshot
           tail == TailOf(r)
           front == Opening(s)
           a == Recorded(s)
           ids == Recalled(r)
           users == {i \in DOMAIN ids : ids[i] \in UserIds}
           last == Max(users)
<1>1. pc[r] \in Active /\ SessionIs(r) /\ SightIs(r) BY DEF Active, Saving, KeepInv, SightInv
<1>2. session[r] = front \o tail /\ tail \in Seq(Marked) /\ s \in Memos \cup {NoSnapshot} BY <1>1 DEF SessionIs
<1>3. tail \in Seq(Uttered) /\ SeesTask(s, HasUser(tail), UtteredIds, UserIds) BY <1>1 DEF SightIs
<1>4. ids = a \o NamesOf(tail) /\ a \in Seq(UtteredIds) BY RecalledIs
<1>5. front \in Seq(Marked) BY <1>2, OpeningIs
<1> HIDE DEF tail, front, ids, a, s
<1>6. NamesOf(tail) \in Seq(UtteredIds)
  <2>1. \A i \in 1 .. Len(tail) : tail[i] \in Uttered BY <1>3
  <2>2. \A i \in 1 .. Len(tail) : tail[i].of[1] \in UtteredIds BY <2>1, UtteredAre
  <2>3. Len(tail) \in Nat BY <1>3
  <2> QED BY <2>2, <2>3 DEF NamesOf
<1>7. ids \in Seq(UtteredIds)
  <2> DEFINE b == NamesOf(tail)
  <2>1. b \in Seq(UtteredIds) /\ ids = a \o b BY <1>4, <1>6
  <2> HIDE DEF b
  <2> QED BY <1>4, <2>1, ConcatProperties
<1>8. last \in users /\ \A y \in users : last >= y
  <2> DEFINE n == Len(ids)
  <2>1. n \in Nat /\ DOMAIN ids = 1 .. n BY <1>7
  <2> HIDE DEF n
  <2>2. n \in Int /\ users \in SUBSET (0 .. n) BY <2>1
  <2>3. users # {} BY DEF ids
  <2> HIDE DEF users
  <2> QED BY <2>2, <2>3, GreatestIs
<1> HIDE DEF last
<1>9. last \in DOMAIN ids /\ IsTask(ids, last, UserIds)
  <2>1. last \in DOMAIN ids /\ ids[last] \in UserIds BY <1>8
  <2>2. DOMAIN ids \subseteq Int BY <1>7
  <2>3. ASSUME NEW j \in DOMAIN ids, j > last PROVE ids[j] \notin UserIds
    <3>1. SUFFICES ASSUME ids[j] \in UserIds PROVE FALSE OBVIOUS
    <3>2. last >= j BY <1>8, <3>1
    <3> QED BY <2>1, <2>2, <2>3, <3>2
  <2> QED BY <2>1, <2>3 DEF IsTask
<1>10. TaskOf(a, tail, ids, last) BY <1>3, <1>4, <1>9, TaskOfBoth
<1>11. /\ DOMAIN (front \o tail) = 1 .. Len(front) + Len(tail)
       /\ \A k \in 1 .. Len(front) : (front \o tail)[k] = front[k]
       /\ \A k \in 1 .. Len(tail) : (front \o tail)[Len(front) + k] = tail[k]
  BY <1>2, <1>5, JoinedAt
<1>12. Len(front) \in Nat /\ Len(tail) \in Nat BY <1>2, <1>5
<1>13. \E i \in DOMAIN session[r] : session[r][i].kind = "user" /\ session[r][i].of[1] = ids[last]
  <2>1. CASE HasUser(tail)
    <3>1. PICK k \in 1 .. Len(tail) : tail[k].kind = "user" /\ ids[last] = tail[k].of[1]
      BY <1>10, <2>1 DEF TaskOf
    <3>2. Len(front) + k \in 1 .. Len(front) + Len(tail) BY <1>12
    <3>3. /\ Len(front) + k \in DOMAIN session[r] /\ session[r][Len(front) + k] = tail[k]
      BY <1>2, <1>11, <3>2
    <3> QED BY <3>1, <3>3
  <2>2. CASE ~HasUser(tail)
    <3>1. last \in DOMAIN a /\ IsTask(a, last, UserIds) /\ ids[last] = a[last] BY <1>10, <2>2 DEF TaskOf
    <3>2. s # NoSnapshot
      <4>1. DOMAIN <<>> = {} OBVIOUS
      <4> QED BY <3>1, <4>1 DEF a, Recorded
    <3>3. a = s.of BY <3>2 DEF a, Recorded
    <3>4. Holds(s.pinned, ids[last]) BY <1>3, <2>2, <3>1, <3>2, <3>3 DEF SeesTask, Remembers
    <3> DEFINE p == s.pinned
    <3>5. PICK i \in DOMAIN p : p[i].kind = "user" /\ p[i].of[1] = ids[last] BY <3>4 DEF Holds
    <3>6. PICK m \in Marked : p \in Seq(UserMessages) /\ front = <<System>> \o (<<m>> \o p)
      BY <1>2, <3>2, FrontIs DEF front
    <3> HIDE DEF p
    <3>7. i \in 1 .. Len(p) /\ Len(p) \in Nat BY <3>6
    <3> DEFINE x == System
    <3> HIDE DEF x
    <3>8. Len(front) = 2 + Len(p) /\ front[2 + i] = p[i]
      <4> DEFINE t == <<m>> \o p
      <4>1. Len(t) = 1 + Len(p) /\ t[1 + i] = p[i] BY <3>6, <3>7
      <4>2. front = <<x>> \o t BY <3>6 DEF x
      <4>3. t \in Seq(Marked)
        <5>1. UserMessages \subseteq Marked BY DEF UserMessages
        <5>2. p \in Seq(Marked) BY <3>6, <5>1, SeqMonotonic
        <5> QED BY <3>6, <5>2
      <4>4. 1 + i \in 1 .. Len(t) BY <3>7, <4>1
      <4> HIDE DEF t
      <4>5. Len(<<x>> \o t) = 1 + Len(t) /\ (<<x>> \o t)[1 + (1 + i)] = t[1 + i] BY <4>3, <4>4
      <4>6. 1 + (1 + i) = 2 + i /\ 1 + (1 + Len(p)) = 2 + Len(p) BY <3>7
      <4> QED BY <4>1, <4>2, <4>5, <4>6
    <3>9. 2 + i \in 1 .. Len(front) /\ 2 + i \in 1 .. Len(front) + Len(tail) BY <1>12, <3>7, <3>8
    <3>10. 2 + i \in DOMAIN session[r] /\ session[r][2 + i] = p[i] BY <1>2, <1>11, <3>8, <3>9
    <3> QED BY <3>5, <3>10
  <2> QED BY <2>1, <2>2
<1> QED BY <1>13 DEF last, ids

\* The last user message that a prompt recalls is in it as it was written, however
\* often the session was compacted, and whichever run that shares the memory made the
\* snapshot (SummaryCompactor.Compact of agent/compact.go; "Pinned are messages kept
\* verbatim with the summary", memory/snapshot.go).
THEOREM TaskStaysInSight == Spec => []TaskInSight
<1>1. Init => KeepInv /\ SightInv BY KeepStart, SightStart
<1>2. KeepInv /\ SightInv /\ [Next]_vars => KeepInv' /\ SightInv' BY KeepStep, SightStep
<1>3. KeepInv /\ SightInv => TaskInSight BY SightShowsTask
<1> QED BY <1>1, <1>2, <1>3, PTL DEF Spec

=============================================================================
