----------------------------- MODULE AgentProofs -----------------------------
(***************************************************************************)
(* Proofs about the runs of an agent, for any number of runs, rounds,      *)
(* compactions and failures: that the snapshot of a memory stands for all  *)
(* it covers when runs follow one another.                                 *)
(***************************************************************************)
EXTENDS AgentRun, SequenceTheorems, WellFoundedInduction, TLAPS

-----------------------------------------------------------------------------
(* Induction over an initial segment of the numbers, by the least number    *)
(* outside a set.                                                           *)

LEMMA LeastOf ==
    ASSUME NEW S \in SUBSET Nat, S # {}
    PROVE  \E x \in S : \A y \in S : x <= y
<1> DEFINE Below == {p \in Nat \X Nat : p[1] < p[2]}
<1>1. IsWellFoundedOn(Below, Nat) BY NatLessThanWellFounded DEF OpToRel
<1>2. \A x, y \in Nat : x < y => <<x, y>> \in Below OBVIOUS
<1> HIDE DEF Below
<1>3. PICK x \in S : \A y \in S : ~(<<y, x>> \in Below) BY <1>1, WFMin, Zenon
<1>4. ASSUME NEW y \in S PROVE x <= y
  <2>1. <<y, x>> \notin Below BY <1>3
  <2>2. x \in Nat /\ y \in Nat OBVIOUS
  <2>3. ~(y < x) BY <1>2, <2>1, <2>2
  <2> QED BY <2>2, <2>3
<1> QED BY <1>4

LEMMA AllUpTo ==
    ASSUME NEW n \in Nat, NEW Q, 0 \in Q, \A i \in 1 .. n : i - 1 \in Q => i \in Q
    PROVE  \A i \in 0 .. n : i \in Q
<1> DEFINE Out == {i \in 0 .. n : i \notin Q}
<1> SUFFICES ASSUME Out # {} PROVE FALSE OBVIOUS
<1>1. Out \in SUBSET Nat OBVIOUS
<1>2. PICK i \in Out : \A j \in Out : i <= j
  <2> HIDE DEF Out
  <2> QED BY <1>1, LeastOf
<1>3. i \in 1 .. n /\ i - 1 \in 0 .. n BY <1>2
<1>4. i - 1 \in Q BY <1>2, <1>3
<1> QED BY <1>2, <1>3, <1>4

\* f is computed from b by n steps of G.
Computes(f, S, n, b, G) ==
    f \in [0 .. n -> S] /\ f[0] = b /\ \A i \in 1 .. n : f[i] = G[<<f[i - 1], i>>]

\* What is computed step by step exists.
LEMMA Iterates ==
    ASSUME NEW S, NEW n \in Nat, NEW b \in S, NEW G \in [S \X (1 .. n) -> S]
    PROVE  \E f : Computes(f, S, n, b, G)
<1> DEFINE Fills(f, k) == /\ f \in [0 .. k -> S] /\ f[0] = b
                          /\ \A i \in 1 .. k : f[i] = G[<<f[i - 1], i>>]
           Q == {k \in 0 .. n : \E f : Fills(f, k)}
<1>1. 0 \in Q
  <2> DEFINE f == [i \in 0 .. 0 |-> b]
  <2>1. f \in [0 .. 0 -> S] /\ f[0] = b OBVIOUS
  <2>2. \A i \in 1 .. 0 : f[i] = G[<<f[i - 1], i>>] OBVIOUS
  <2> HIDE DEF f
  <2>3. Fills(f, 0) BY <2>1, <2>2
  <2> HIDE DEF Fills
  <2> QED BY <2>3
<1>2. ASSUME NEW k \in 1 .. n, k - 1 \in Q PROVE k \in Q
  <2>1. PICK f : Fills(f, k - 1) BY <1>2
  <2>2. f[k - 1] \in S BY <2>1
  <2>3. <<f[k - 1], k>> \in S \X (1 .. n) BY <2>2
  <2> DEFINE g == [i \in 0 .. k |-> IF i < k THEN f[i] ELSE G[<<f[k - 1], k>>]]
  <2>4. G[<<f[k - 1], k>>] \in S BY <2>3
  <2>5. g \in [0 .. k -> S] BY <2>1, <2>4
  <2>6. ASSUME NEW i \in 1 .. k PROVE g[i] = G[<<g[i - 1], i>>]
    <3>1. CASE i < k
      <4>1. i \in 1 .. k - 1 /\ g[i] = f[i] /\ g[i - 1] = f[i - 1] BY <3>1
      <4> QED BY <2>1, <4>1
    <3>2. CASE i = k
      <4>1. g[i] = G[<<f[k - 1], k>>] /\ g[i - 1] = f[k - 1] BY <3>2
      <4> QED BY <3>2, <4>1
    <3> QED BY <3>1, <3>2
  <2>7. g[0] = b BY <2>1
  <2> HIDE DEF g
  <2>8. Fills(g, k) BY <2>5, <2>6, <2>7
  <2> QED BY <2>8
<1> HIDE DEF Fills
<1>3. \A k \in 0 .. n : k \in Q
  <2> HIDE DEF Q
  <2> QED BY <1>1, <1>2, AllUpTo
<1>4. \E f : Fills(f, n) BY <1>3
<1> QED BY <1>4 DEF Fills, Computes

-----------------------------------------------------------------------------
(* What is picked of a sequence. *)

\* The function that Picked is the last value of.
IsPicking(f, s, I) ==
    f = [n \in 0 .. Len(s) |-> IF n = 0 THEN <<>>
                               ELSE IF n \in I THEN Append(f[n - 1], s[n]) ELSE f[n - 1]]

LEMMA PickingIs ==
    ASSUME NEW f, NEW s, Len(s) \in Nat, NEW I, IsPicking(f, s, I)
    PROVE  /\ f[0] = <<>>
           /\ \A i \in 1 .. Len(s) : f[i] = IF i \in I THEN Append(f[i - 1], s[i]) ELSE f[i - 1]
<1> DEFINE E(k) == IF k = 0 THEN <<>> ELSE IF k \in I THEN Append(f[k - 1], s[k]) ELSE f[k - 1]
<1>1. f = [k \in 0 .. Len(s) |-> E(k)] BY DEF IsPicking
<1> HIDE DEF E
<1>2. \A k \in 0 .. Len(s) : f[k] = E(k) BY <1>1
<1>3. f[0] = E(0) BY <1>2
<1>4. ASSUME NEW i \in 1 .. Len(s) PROVE f[i] = E(i) /\ i # 0 BY <1>2
<1> QED BY <1>3, <1>4 DEF E

LEMMA PickedBy ==
    ASSUME NEW T, NEW s, Len(s) \in Nat, NEW I, \A i \in 1 .. Len(s) : i \in I => s[i] \in T
    PROVE  \E f \in [0 .. Len(s) -> Seq(T)] : IsPicking(f, s, I) /\ Picked(s, I) = f[Len(s)]
<1> DEFINE n == Len(s)
           G == [p \in Seq(T) \X (1 .. n) |-> IF p[2] \in I THEN Append(p[1], s[p[2]]) ELSE p[1]]
<1>1. G \in [Seq(T) \X (1 .. n) -> Seq(T)]
  <2>1. ASSUME NEW p \in Seq(T) \X (1 .. n)
        PROVE  (IF p[2] \in I THEN Append(p[1], s[p[2]]) ELSE p[1]) \in Seq(T)
    OBVIOUS
  <2> QED BY <2>1
<1>2. PICK f \in [0 .. n -> Seq(T)] : f[0] = <<>> /\ \A i \in 1 .. n : f[i] = G[<<f[i - 1], i>>]
  <2>1. <<>> \in Seq(T) /\ n \in Nat OBVIOUS
  <2> HIDE DEF G, n
  <2>2. \E f : Computes(f, Seq(T), n, <<>>, G) BY <1>1, <2>1, Iterates
  <2> QED BY <2>2 DEF Computes
<1>3. ASSUME NEW i \in 1 .. n
      PROVE  f[i] = IF i \in I THEN Append(f[i - 1], s[i]) ELSE f[i - 1]
  <2>1. f[i - 1] \in Seq(T) OBVIOUS
  <2>2. <<f[i - 1], i>> \in Seq(T) \X (1 .. n) BY <2>1
  <2> QED BY <1>2, <2>2
<1>4. f = [k \in 0 .. n |-> f[k]] OBVIOUS
<1>5. IsPicking(f, s, I)
  <2> DEFINE E(k) == IF k = 0 THEN <<>> ELSE IF k \in I THEN Append(f[k - 1], s[k]) ELSE f[k - 1]
  <2>1. ASSUME NEW k \in 0 .. n PROVE f[k] = E(k)
    <3>1. CASE k = 0 BY <1>2, <3>1
    <3>2. CASE k \in 1 .. n
      <4>1. k # 0 BY <3>2
      <4> QED BY <1>3, <3>2, <4>1
    <3> QED BY <3>1, <3>2
  <2> HIDE DEF E
  <2>2. f = [k \in 0 .. n |-> E(k)] BY <1>4, <2>1
  <2> QED BY <2>2 DEF IsPicking, E
<1> DEFINE h == CHOOSE g : IsPicking(g, s, I)
<1>6. IsPicking(h, s, I) BY <1>5
<1>7. Picked(s, I) = h[n] BY DEF Picked, IsPicking
<1> HIDE DEF h
<1>8. \A k \in 0 .. n : h[k] = f[k]
  <2> DEFINE Q == {k \in 0 .. n : h[k] = f[k]}
  <2>1. 0 \in Q BY <1>2, <1>6, PickingIs
  <2>2. ASSUME NEW k \in 1 .. n, k - 1 \in Q PROVE k \in Q
    <3>1. h[k] = IF k \in I THEN Append(h[k - 1], s[k]) ELSE h[k - 1] BY <1>6, PickingIs
    <3> QED BY <1>3, <2>2, <3>1
  <2>3. \A k \in 0 .. n : k \in Q
    <3> HIDE DEF Q
    <3> QED BY <2>1, <2>2, AllUpTo
  <2> QED BY <2>3
<1>9. Picked(s, I) = f[n] BY <1>7, <1>8
<1> QED BY <1>5, <1>9

LEMMA PickedIsSeq ==
    ASSUME NEW T, NEW s, Len(s) \in Nat, NEW I, \A i \in 1 .. Len(s) : i \in I => s[i] \in T
    PROVE  Picked(s, I) \in Seq(T)
<1>1. PICK f \in [0 .. Len(s) -> Seq(T)] : IsPicking(f, s, I) /\ Picked(s, I) = f[Len(s)]
  BY PickedBy
<1> QED BY <1>1

\* Picking from a longer sequence, and from an empty one.
LEMMA PickedNothing == ASSUME NEW I PROVE Picked(<<>>, I) = <<>>
<1> DEFINE s == <<>>
<1>1. Len(s) = 0 OBVIOUS
<1>2. \A i \in 1 .. Len(s) : i \in I => s[i] \in {} BY <1>1
<1> HIDE DEF s
<1>3. Len(s) \in Nat BY <1>1
<1>4. PICK f \in [0 .. Len(s) -> Seq({})] : IsPicking(f, s, I) /\ Picked(s, I) = f[Len(s)]
  BY <1>2, <1>3, PickedBy
<1>5. f[0] = <<>> BY <1>1, <1>4, PickingIs
<1> QED BY <1>1, <1>4, <1>5 DEF s

LEMMA PickedMore ==
    ASSUME NEW T, NEW s \in Seq(T), NEW x \in T, NEW I, NEW J, I \cap (1 .. Len(s)) = J \cap (1 .. Len(s))
    PROVE  Picked(Append(s, x), J) =
               IF Len(s) + 1 \in J THEN Append(Picked(s, I), x) ELSE Picked(s, I)
<1> DEFINE n == Len(s)
           t == Append(s, x)
<1>1. t \in Seq(T) /\ Len(t) = n + 1 /\ n \in Nat OBVIOUS
<1>2. t[n + 1] = x /\ \A i \in 1 .. n : t[i] = s[i] OBVIOUS
<1>3. PICK f \in [0 .. n -> Seq(T)] : IsPicking(f, s, I) /\ Picked(s, I) = f[n]
  <2>1. \A i \in 1 .. n : i \in I => s[i] \in T OBVIOUS
  <2> QED BY <1>1, <2>1, PickedBy
<1> HIDE DEF t
<1>4. PICK g \in [0 .. n + 1 -> Seq(T)] : IsPicking(g, t, J) /\ Picked(t, J) = g[n + 1]
  <2>1. \A i \in 1 .. n + 1 : i \in J => t[i] \in T BY <1>1
  <2>2. Len(t) \in Nat BY <1>1
  <2> QED BY <1>1, <2>1, <2>2, PickedBy, SMTT(20)
<1>5. \A i \in 1 .. n : f[i] = IF i \in I THEN Append(f[i - 1], s[i]) ELSE f[i - 1]
  BY <1>1, <1>3, PickingIs
<1>6. \A i \in 1 .. n + 1 : g[i] = IF i \in J THEN Append(g[i - 1], t[i]) ELSE g[i - 1]
  BY <1>1, <1>4, PickingIs
<1>7. \A k \in 0 .. n : f[k] = g[k]
  <2> DEFINE Q == {k \in 0 .. n : f[k] = g[k]}
  <2>1. 0 \in Q
    <3>1. n + 1 \in Nat /\ f[0] = <<>> BY <1>1, <1>3, PickingIs
    <3>2. g[0] = <<>> BY <1>1, <1>4, <3>1, PickingIs
    <3> QED BY <1>1, <3>1, <3>2
  <2>2. ASSUME NEW k \in 1 .. n, k - 1 \in Q PROVE k \in Q
    <3>1. k \in 1 .. n + 1 /\ (k \in I <=> k \in J) BY <1>1
    <3>2. f[k - 1] = g[k - 1] /\ t[k] = s[k] BY <1>2, <2>2
    <3>3. f[k] = g[k] BY <1>5, <1>6, <3>1, <3>2
    <3> QED BY <3>3
  <2>3. \A k \in 0 .. n : k \in Q
    <3> HIDE DEF Q
    <3> QED BY <1>1, <2>1, <2>2, AllUpTo
  <2> QED BY <2>3
<1>8. g[n + 1] = IF n + 1 \in J THEN Append(f[n], x) ELSE f[n]
  <2>1. n + 1 \in 1 .. n + 1 /\ n + 1 - 1 = n BY <1>1
  <2>2. g[n] = f[n] BY <1>1, <1>7
  <2> QED BY <1>2, <1>6, <2>1, <2>2
<1> QED BY <1>3, <1>4, <1>8 DEF t

\* Everything is picked.
LEMMA PickedAll ==
    ASSUME NEW T, NEW s \in Seq(T), NEW I, 1 .. Len(s) \subseteq I
    PROVE  Picked(s, I) = s
<1> DEFINE n == Len(s)
<1>1. n \in Nat OBVIOUS
<1>2. PICK f \in [0 .. n -> Seq(T)] : IsPicking(f, s, I) /\ Picked(s, I) = f[n]
  <2>1. \A i \in 1 .. n : i \in I => s[i] \in T OBVIOUS
  <2> QED BY <1>1, <2>1, PickedBy
<1>3. \A k \in 0 .. n : f[k] = SubSeq(s, 1, k)
  <2> DEFINE Q == {k \in 0 .. n : f[k] = SubSeq(s, 1, k)}
  <2>1. 0 \in Q
    <3>1. f[0] = <<>> BY <1>1, <1>2, PickingIs
    <3>2. SubSeq(s, 1, 0) = <<>> BY SubSeqEmpty
    <3> QED BY <1>1, <3>1, <3>2
  <2>2. ASSUME NEW k \in 1 .. n, k - 1 \in Q PROVE k \in Q
    <3>1. f[k] = Append(f[k - 1], s[k])
      <4>1. f[k] = IF k \in I THEN Append(f[k - 1], s[k]) ELSE f[k - 1] BY <1>1, <1>2, PickingIs
      <4> QED BY <4>1
    <3>2. SubSeq(s, 1, k) = SubSeq(s, 1, k - 1) \o <<s[k]>>
      <4>1. 1 \in 1 .. n /\ k \in 1 .. n BY <1>1
      <4> QED BY <4>1, SubSeqRecursiveSecond
    <3>3. SubSeq(s, 1, k - 1) \in Seq(T) /\ s[k] \in T
      <4>1. \A i \in 1 .. k - 1 : s[i] \in T OBVIOUS
      <4> QED BY <4>1, SubSeqProperties
    <3>4. Append(SubSeq(s, 1, k - 1), s[k]) = SubSeq(s, 1, k - 1) \o <<s[k]>>
      BY <3>3, AppendIsConcat
    <3>5. f[k - 1] = SubSeq(s, 1, k - 1) BY <2>2
    <3>6. f[k] = SubSeq(s, 1, k) BY <3>1, <3>2, <3>4, <3>5
    <3> QED BY <3>6
  <2>3. \A k \in 0 .. n : k \in Q
    <3> HIDE DEF Q
    <3> QED BY <1>1, <2>1, <2>2, AllUpTo
  <2> QED BY <2>3
<1>4. SubSeq(s, 1, n) = s BY SubSeqFull
<1> QED BY <1>1, <1>2, <1>3, <1>4

-----------------------------------------------------------------------------
(* What a list of messages says. *)

Associative(S) == \A a, b, c \in S : (a \o b) \o c = a \o (b \o c)

LEMMA Joined == ASSUME NEW T PROVE Associative(Seq(T))
<1> SUFFICES ASSUME NEW a \in Seq(T), NEW b \in Seq(T), NEW c \in Seq(T)
             PROVE  (a \o b) \o c = a \o (b \o c)
  BY DEF Associative
<1> QED BY ConcatAssociative

\* The function that FlattenSeq is the last value of.
IsFlattening(f, ss) ==
    f = [i \in 1 .. Len(ss) |-> IF i = 1 THEN ss[i] ELSE f[i - 1] \o ss[i]]

LEMMA FlattenedBy ==
    ASSUME NEW T, NEW ss, Len(ss) \in Nat, \A i \in 1 .. Len(ss) : ss[i] \in Seq(T)
    PROVE  \E f \in [0 .. Len(ss) -> Seq(T)] :
               /\ f[0] = <<>> /\ \A i \in 1 .. Len(ss) : f[i] = f[i - 1] \o ss[i]
               /\ Len(ss) # 0 => FlattenSeq(ss) = f[Len(ss)]
<1> DEFINE n == Len(ss)
           G == [p \in Seq(T) \X (1 .. n) |-> p[1] \o ss[p[2]]]
<1>1. G \in [Seq(T) \X (1 .. n) -> Seq(T)]
  <2>1. ASSUME NEW p \in Seq(T) \X (1 .. n) PROVE p[1] \o ss[p[2]] \in Seq(T)
    <3>1. p[1] \in Seq(T) /\ ss[p[2]] \in Seq(T) OBVIOUS
    <3> QED BY <3>1, ConcatProperties
  <2> QED BY <2>1
<1>2. PICK f \in [0 .. n -> Seq(T)] : f[0] = <<>> /\ \A i \in 1 .. n : f[i] = G[<<f[i - 1], i>>]
  <2>1. <<>> \in Seq(T) /\ n \in Nat OBVIOUS
  <2> HIDE DEF G, n
  <2>2. \E f : Computes(f, Seq(T), n, <<>>, G) BY <1>1, <2>1, Iterates
  <2> QED BY <2>2 DEF Computes
<1>3. ASSUME NEW i \in 1 .. n PROVE f[i] = f[i - 1] \o ss[i]
  <2>1. f[i - 1] \in Seq(T) OBVIOUS
  <2>2. <<f[i - 1], i>> \in Seq(T) \X (1 .. n) BY <2>1
  <2> QED BY <1>2, <2>2
<1> HIDE DEF G
<1>4. ASSUME n # 0 PROVE FlattenSeq(ss) = f[n]
  <2> DEFINE E(g, i) == IF i = 1 THEN ss[i] ELSE g[i - 1] \o ss[i]
             r == [i \in 1 .. n |-> f[i]]
             h == CHOOSE g : IsFlattening(g, ss)
  <2>0. 1 \in 1 .. n => f[1] = <<>> \o ss[1]
    <3>1. 1 \in 1 .. n => f[1] = f[1 - 1] \o ss[1]
      <4> HIDE DEF n
      <4> QED BY <1>3
    <3>2. 1 - 1 = 0 OBVIOUS
    <3> QED BY <1>2, <3>1, <3>2
  <2>1. IsFlattening(r, ss)
    <3>1. ASSUME NEW i \in 1 .. n PROVE f[i] = E(r, i)
      <4>1. CASE i = 1
        <5>1. f[1] = <<>> \o ss[1] BY <2>0, <4>1
        <5>2. ss[1] \in Seq(T) BY <4>1
        <5>3. <<>> \o ss[1] = ss[1] BY <5>2, ConcatEmptySeq
        <5> QED BY <4>1, <5>1, <5>3
      <4>2. CASE i # 1
        <5>1. i - 1 \in 1 .. n BY <4>2
        <5>2. r[i - 1] = f[i - 1] BY <5>1
        <5> QED BY <1>3, <4>2, <5>2
      <4> QED BY <4>1, <4>2
    <3> HIDE DEF E
    <3>2. r = [i \in 1 .. n |-> E(r, i)] BY <3>1
    <3> QED BY <3>2 DEF IsFlattening, E
  <2>2. IsFlattening(h, ss) BY <2>1
  <2>3. FlattenSeq(ss) = h[n] BY <1>4 DEF FlattenSeq, IsFlattening
  <2> HIDE DEF h
  <2>4. \A i \in 1 .. n : h[i] = E(h, i)
    <3> HIDE DEF E
    <3>1. h = [i \in 1 .. n |-> E(h, i)] BY <2>2 DEF IsFlattening, E
    <3> QED BY <3>1
  <2> DEFINE Q == {i \in 0 .. n : i = 0 \/ h[i] = f[i]}
  <2>5. 0 \in Q OBVIOUS
  <2>6. ASSUME NEW i \in 1 .. n, i - 1 \in Q PROVE i \in Q
    <3>1. CASE i = 1
      <4>1. h[1] = ss[1] BY <2>4, <3>1
      <4>2. f[1] = <<>> \o ss[1] BY <2>0, <3>1
      <4>3. ss[1] \in Seq(T) BY <3>1
      <4>4. <<>> \o ss[1] = ss[1] BY <4>3, ConcatEmptySeq
      <4> QED BY <3>1, <4>1, <4>2, <4>4
    <3>2. CASE i # 1
      <4>1. h[i] = h[i - 1] \o ss[i] BY <2>4, <3>2
      <4>2. h[i - 1] = f[i - 1] BY <2>6, <3>2
      <4>3. f[i] = f[i - 1] \o ss[i] BY <1>3
      <4>4. h[i] = f[i] BY <4>1, <4>2, <4>3
      <4> QED BY <4>4
    <3> QED BY <3>1, <3>2
  <2>7. \A i \in 0 .. n : i \in Q
    <3>1. n \in Nat OBVIOUS
    <3> HIDE DEF Q, n
    <3> QED BY <2>5, <2>6, <3>1, AllUpTo
  <2> QED BY <1>4, <2>3, <2>7
<1> QED BY <1>2, <1>3, <1>4


LEMMA SaidBy ==
    ASSUME NEW T, NEW M, \A m \in M : m.of \in Seq(T), NEW s \in Seq(M)
    PROVE  \E f \in [0 .. Len(s) -> Seq(T)] :
               /\ f[0] = <<>> /\ \A i \in 1 .. Len(s) : f[i] = f[i - 1] \o s[i].of
               /\ Said(s) = f[Len(s)]
<1> DEFINE ss == [i \in DOMAIN s |-> s[i].of]
<1>1. Len(s) \in Nat /\ DOMAIN s = 1 .. Len(s) BY LenProperties
<1>2. \A i \in 1 .. Len(s) : s[i] \in M BY ElementOfSeq
<1>3. \A i \in 1 .. Len(s) : ss[i] = s[i].of /\ ss[i] \in Seq(T) BY <1>1, <1>2
<1>4. ss \in Seq(Seq(T)) /\ Len(ss) = Len(s)
  <2>1. ss = [i \in 1 .. Len(s) |-> ss[i]] BY <1>1
  <2> HIDE DEF ss
  <2> QED BY <1>1, <1>3, <2>1
<1>5. Said(s) = FlattenSeq(ss) BY DEF Said
<1> HIDE DEF ss
<1>6. PICK f \in [0 .. Len(ss) -> Seq(T)] :
          /\ f[0] = <<>> /\ \A i \in 1 .. Len(ss) : f[i] = f[i - 1] \o ss[i]
          /\ Len(ss) # 0 => FlattenSeq(ss) = f[Len(ss)]
  <2>1. Len(ss) \in Nat /\ \A i \in 1 .. Len(ss) : ss[i] \in Seq(T) BY <1>1, <1>3, <1>4
  <2> QED BY <2>1, FlattenedBy
<1>7. Len(ss) = 0 => FlattenSeq(ss) = <<>>
  <2>1. ASSUME Len(ss) = 0 PROVE ss = <<>> BY <1>4, <2>1
  <2> QED BY <2>1 DEF FlattenSeq
<1> QED BY <1>1, <1>3, <1>4, <1>5, <1>6, <1>7

LEMMA SaidNothing == Said(<<>>) = <<>>
<1> DEFINE s == <<>>
<1>1. s \in Seq({}) /\ \A m \in {} : m.of \in Seq({}) OBVIOUS
<1>2. Len(s) = 0 OBVIOUS
<1> HIDE DEF s
<1>3. PICK f \in [0 .. Len(s) -> Seq({})] :
          /\ f[0] = <<>> /\ \A i \in 1 .. Len(s) : f[i] = f[i - 1] \o s[i].of
          /\ Said(s) = f[Len(s)]
  BY <1>1, SaidBy
<1> QED BY <1>2, <1>3 DEF s

LEMMA SaidIsSeq ==
    ASSUME NEW T, NEW M, \A m \in M : m.of \in Seq(T), NEW s \in Seq(M)
    PROVE  Said(s) \in Seq(T)
<1>1. PICK f \in [0 .. Len(s) -> Seq(T)] :
          /\ f[0] = <<>> /\ \A i \in 1 .. Len(s) : f[i] = f[i - 1] \o s[i].of
          /\ Said(s) = f[Len(s)]
  BY SaidBy
<1> QED BY <1>1

\* What two lists say, one after the other.
LEMMA SaidBoth ==
    ASSUME NEW T, NEW M, \A m \in M : m.of \in Seq(T), NEW s \in Seq(M), NEW t \in Seq(M)
    PROVE  Said(s \o t) = Said(s) \o Said(t)
<1>0. Associative(Seq(T)) BY Joined
<1>1. s \o t \in Seq(M) /\ Len(s \o t) = Len(s) + Len(t) BY ConcatProperties
<1>2. Len(s) \in Nat /\ Len(t) \in Nat OBVIOUS
<1>3. /\ \A i \in 1 .. Len(s) : (s \o t)[i] = s[i]
      /\ \A i \in 1 .. Len(t) : (s \o t)[Len(s) + i] = t[i]
  OBVIOUS
<1>4. PICK f \in [0 .. Len(s) -> Seq(T)] :
          /\ f[0] = <<>> /\ \A i \in 1 .. Len(s) : f[i] = f[i - 1] \o s[i].of
          /\ Said(s) = f[Len(s)]
  BY SaidBy
<1>5. PICK g \in [0 .. Len(t) -> Seq(T)] :
          /\ g[0] = <<>> /\ \A i \in 1 .. Len(t) : g[i] = g[i - 1] \o t[i].of
          /\ Said(t) = g[Len(t)]
  BY SaidBy
<1>6. PICK h \in [0 .. Len(s \o t) -> Seq(T)] :
          /\ h[0] = <<>> /\ \A i \in 1 .. Len(s \o t) : h[i] = h[i - 1] \o (s \o t)[i].of
          /\ Said(s \o t) = h[Len(s \o t)]
  BY <1>1, SaidBy
<1> DEFINE n == Len(s)
           m == Len(t)
           u == s \o t
<1>7. n \in Nat /\ m \in Nat /\ Len(u) = n + m BY <1>1, <1>2
<1>8. (\A i \in 1 .. n : u[i] = s[i]) /\ (\A i \in 1 .. m : u[n + i] = t[i]) BY <1>3
<1>9. h[0] = <<>> /\ \A i \in 1 .. n + m : h[i] = h[i - 1] \o u[i].of BY <1>6, <1>7
<1> HIDE DEF n, m, u
<1>10. \A i \in 0 .. n : h[i] = f[i]
  <2> DEFINE Q == {i \in 0 .. n : h[i] = f[i]}
  <2>1. 0 \in Q BY <1>4, <1>7, <1>9
  <2>2. ASSUME NEW i \in 1 .. n, i - 1 \in Q PROVE i \in Q
    <3>1. i \in 1 .. n + m BY <1>7
    <3>2. h[i] = h[i - 1] \o u[i].of /\ u[i] = s[i] BY <1>8, <1>9, <3>1
    <3>3. f[i] = f[i - 1] \o s[i].of BY <1>4 DEF n
    <3>4. h[i - 1] = f[i - 1] BY <2>2
    <3>5. h[i] = f[i] BY <3>2, <3>3, <3>4
    <3> QED BY <3>5
  <2>3. \A i \in 0 .. n : i \in Q
    <3> HIDE DEF Q
    <3> QED BY <1>7, <2>1, <2>2, AllUpTo
  <2> QED BY <2>3
<1>11. \A i \in 0 .. m : h[n + i] = f[n] \o g[i]
  <2> DEFINE Q == {i \in 0 .. m : h[n + i] = f[n] \o g[i]}
  <2>1. f[n] \in Seq(T) BY <1>4, <1>7 DEF n
  <2>2. 0 \in Q
    <3>1. h[n + 0] = f[n] BY <1>7, <1>10
    <3>2. f[n] \o <<>> = f[n] BY <2>1, ConcatEmptySeq
    <3>3. h[n + 0] = f[n] \o g[0] BY <1>5, <3>1, <3>2
    <3>4. 0 \in 0 .. m BY <1>7
    <3> HIDE DEF n
    <3> QED BY <3>3, <3>4
  <2>3. ASSUME NEW i \in 1 .. m, i - 1 \in Q PROVE i \in Q
    <3> DEFINE k == n + i
    <3>1. k \in 1 .. n + m /\ k - 1 = n + (i - 1) BY <1>7
    <3>2. h[k] = h[k - 1] \o u[k].of
      <4> HIDE DEF k
      <4> QED BY <1>9, <3>1
    <3>7. u[k] = t[i] BY <1>8
    <3> HIDE DEF k
    <3>3. h[n + (i - 1)] = f[n] \o g[i - 1] BY <2>3
    <3>4. g[i - 1] \in Seq(T) /\ t[i].of \in Seq(T) /\ g[i] = g[i - 1] \o t[i].of
      <4>1. t[i] \in M BY ElementOfSeq DEF m
      <4>2. g[i - 1] \in Seq(T)
        <5>1. g \in [0 .. m -> Seq(T)] BY <1>5 DEF m
        <5>2. i - 1 \in 0 .. m BY <1>7
        <5> QED BY <5>1, <5>2
      <4>3. g[i] = g[i - 1] \o t[i].of BY <1>5 DEF m
      <4> QED BY <4>1, <4>2, <4>3
    <3>5. (f[n] \o g[i - 1]) \o t[i].of = f[n] \o (g[i - 1] \o t[i].of)
      <4> DEFINE S == Seq(T)
      <4>1. Associative(S) /\ f[n] \in S /\ g[i - 1] \in S /\ t[i].of \in S BY <1>0, <2>1, <3>4
      <4> HIDE DEF S
      <4> QED BY <4>1 DEF Associative
    <3>6. h[k] = f[n] \o g[i] BY <3>1, <3>2, <3>3, <3>4, <3>5, <3>7
    <3>8. h[n + i] = f[n] \o g[i] BY <3>6 DEF k
    <3>9. i \in 0 .. m BY <1>7
    <3> QED BY <3>8, <3>9
  <2>4. \A i \in 0 .. m : i \in Q
    <3> HIDE DEF Q
    <3> QED BY <1>7, <2>2, <2>3, AllUpTo
  <2> QED BY <2>4
<1>12. h[n + m] = f[n] \o g[m]
  <2>1. m \in 0 .. m BY <1>7
  <2> QED BY <1>11, <2>1
<1> QED BY <1>4, <1>5, <1>6, <1>7, <1>12 DEF n, m, u

-----------------------------------------------------------------------------
(* Sequences cut in two. *)

LEMMA CutAt ==
    ASSUME NEW T, NEW s \in Seq(T), NEW t \in Seq(T)
    PROVE  /\ s \o t \in Seq(T) /\ Len(s \o t) = Len(s) + Len(t)
           /\ SubSeq(s \o t, 1, Len(s)) = s
           /\ SubSeq(s \o t, Len(s) + 1, Len(s \o t)) = t
<1>1. s \o t \in Seq(T) /\ Len(s \o t) = Len(s) + Len(t) /\ Len(s) \in Nat /\ Len(t) \in Nat OBVIOUS
<1>2. ASSUME NEW b, b = SubSeq(s \o t, 1, Len(s)) PROVE b = s
  <2>1. b \in Seq(T) /\ Len(b) = Len(s) /\ \A i \in 1 .. Len(s) : b[i] = s[i] BY <1>1, <1>2
  <2> QED BY <2>1, SeqEqual
<1>3. ASSUME NEW b, b = SubSeq(s \o t, Len(s) + 1, Len(s \o t)) PROVE b = t
  <2>1. b \in Seq(T) /\ Len(b) = Len(t) /\ \A i \in 1 .. Len(t) : b[i] = t[i] BY <1>1, <1>3
  <2> QED BY <2>1, SeqEqual
<1> QED BY <1>1, <1>2, <1>3

LEMMA EndOf ==
    ASSUME NEW T, NEW s \in Seq(T), NEW k \in 0 .. Len(s)
    PROVE  /\ SubSeq(s, 1, k) \in Seq(T) /\ Len(SubSeq(s, 1, k)) = k
           /\ SubSeq(s, k + 1, Len(s)) \in Seq(T)
           /\ Len(SubSeq(s, k + 1, Len(s))) = Len(s) - k
           /\ s = SubSeq(s, 1, k) \o SubSeq(s, k + 1, Len(s))
<1>1. Len(s) \in Nat OBVIOUS
<1>2. ASSUME NEW a, NEW b, a = SubSeq(s, 1, k), b = SubSeq(s, k + 1, Len(s))
      PROVE  a \in Seq(T) /\ Len(a) = k /\ b \in Seq(T) /\ Len(b) = Len(s) - k /\ s = a \o b
  <2>1. a \in Seq(T) /\ Len(a) = k /\ \A i \in 1 .. k : a[i] = s[i] BY <1>1, <1>2
  <2>2. b \in Seq(T) /\ Len(b) = Len(s) - k /\ \A i \in 1 .. Len(s) - k : b[i] = s[k + i] BY <1>1, <1>2
  <2>3. a \o b \in Seq(T) /\ Len(a \o b) = Len(s) BY <1>1, <2>1, <2>2
  <2>4. ASSUME NEW i \in 1 .. Len(s) PROVE (a \o b)[i] = s[i]
    <3>1. CASE i <= k BY <2>1, <2>2, <3>1
    <3>2. CASE i > k
      <4> DEFINE j == i - k
      <4>1. j \in 1 .. Len(s) - k /\ i = k + j BY <1>1, <3>2
      <4>2. j \in 1 .. Len(b) /\ b[j] = s[i] BY <2>2, <4>1
      <4> HIDE DEF j
      <4>3. (a \o b)[Len(a) + j] = b[j] BY <2>1, <2>2, <4>2
      <4> QED BY <2>1, <4>1, <4>2, <4>3
    <3>3. i <= k \/ i > k OBVIOUS
    <3> QED BY <3>1, <3>2, <3>3, Zenon
  <2>5. s = a \o b BY <2>3, <2>4, SeqEqual
  <2> QED BY <2>1, <2>2, <2>5
<1> QED BY <1>2

LEMMA EndGrows ==
    ASSUME NEW T, NEW s \in Seq(T), NEW t \in Seq(T), NEW k \in 0 .. Len(s)
    PROVE  SubSeq(s \o t, k + 1, Len(s \o t)) = SubSeq(s, k + 1, Len(s)) \o t
<1>1. s \o t \in Seq(T) /\ Len(s \o t) = Len(s) + Len(t) /\ Len(s) \in Nat /\ Len(t) \in Nat OBVIOUS
<1>2. ASSUME NEW b, b = SubSeq(s, k + 1, Len(s)), NEW c, c = SubSeq(s \o t, k + 1, Len(s \o t))
      PROVE  c = b \o t
  <2>1. b \in Seq(T) /\ Len(b) = Len(s) - k /\ \A i \in 1 .. Len(s) - k : b[i] = s[k + i] BY <1>1, <1>2
  <2>2. /\ c \in Seq(T) /\ Len(c) = Len(s) - k + Len(t)
        /\ \A i \in 1 .. Len(s) - k + Len(t) : c[i] = (s \o t)[k + i]
    BY <1>1, <1>2, SMTT(20)
  <2>3. b \o t \in Seq(T) /\ Len(b \o t) = Len(s) - k + Len(t)
    <3>1. b \in Seq(T) /\ Len(b) = Len(s) - k BY <2>1
    <3> QED BY <3>1, ConcatProperties
  <2>4. \A i \in 1 .. Len(s) - k + Len(t) : c[i] = (b \o t)[i]
    <3>1. SUFFICES ASSUME NEW i \in 1 .. Len(s) - k + Len(t) PROVE c[i] = (b \o t)[i] OBVIOUS
    <3>2. CASE i <= Len(s) - k BY <1>1, <2>1, <2>2, <3>2
    <3>3. CASE i > Len(s) - k
      <4> DEFINE j == i - (Len(s) - k)
      <4>1. j \in 1 .. Len(t) /\ k + i = Len(s) + j /\ i = Len(b) + j BY <1>1, <2>1, <3>3
      <4> HIDE DEF j
      <4>2. (s \o t)[Len(s) + j] = t[j] BY <1>1, <4>1
      <4>3. b \in Seq(T) BY <2>1
      <4>4. (b \o t)[Len(b) + j] = t[j] BY <4>1, <4>3
      <4> QED BY <2>2, <4>1, <4>2, <4>4
    <3>4. i <= Len(s) - k \/ i > Len(s) - k BY <1>1
    <3> QED BY <3>2, <3>3, <3>4, Zenon
  <2> QED BY <2>2, <2>3, <2>4, SeqEqual
<1> QED BY <1>2

\* The same sequence, cut at the same place; and cut further on.
CutsTheSame(a, b, c, d) ==
    a \o b = c \o d =>
        /\ Len(a) + Len(b) = Len(c) + Len(d)
        /\ Len(a) = Len(c) => a = c /\ b = d
        /\ Len(a) <= Len(c) =>
               \A i \in 1 .. Len(d) :
                   Len(c) - Len(a) + i \in 1 .. Len(b) /\ b[Len(c) - Len(a) + i] = d[i]

SameCuts(S) == \A a, b, c, d \in S : CutsTheSame(a, b, c, d)

LEMMA SameCut == ASSUME NEW T PROVE SameCuts(Seq(T))
<1> SUFFICES ASSUME NEW a \in Seq(T), NEW b \in Seq(T), NEW c \in Seq(T), NEW d \in Seq(T)
             PROVE  a \o b = c \o d =>
                        /\ Len(a) + Len(b) = Len(c) + Len(d)
                        /\ Len(a) = Len(c) => a = c /\ b = d
                        /\ Len(a) <= Len(c) =>
                               \A i \in 1 .. Len(d) :
                                   Len(c) - Len(a) + i \in 1 .. Len(b) /\ b[Len(c) - Len(a) + i] = d[i]
  BY DEF SameCuts, CutsTheSame
<1> DEFINE Cuts(x, y) == /\ Len(x \o y) = Len(x) + Len(y)
                         /\ SubSeq(x \o y, 1, Len(x)) = x
                         /\ SubSeq(x \o y, Len(x) + 1, Len(x \o y)) = y
<1>a. Cuts(a, b) BY CutAt
<1>b. Cuts(c, d) BY CutAt
<1> SUFFICES ASSUME a \o b = c \o d
             PROVE  /\ Len(a) + Len(b) = Len(c) + Len(d)
                    /\ Len(a) = Len(c) => a = c /\ b = d
                    /\ Len(a) <= Len(c) =>
                           \A i \in 1 .. Len(d) :
                               Len(c) - Len(a) + i \in 1 .. Len(b) /\ b[Len(c) - Len(a) + i] = d[i]
  OBVIOUS
<1>1. /\ Len(a) \in Nat /\ Len(b) \in Nat /\ Len(c) \in Nat /\ Len(d) \in Nat
      /\ Len(a) + Len(b) = Len(c) + Len(d)
  BY <1>a, <1>b
<1>2. Len(a) = Len(c) => a = c /\ b = d BY <1>a, <1>b
<1>3. ASSUME Len(a) <= Len(c), NEW i \in 1 .. Len(d)
      PROVE  Len(c) - Len(a) + i \in 1 .. Len(b) /\ b[Len(c) - Len(a) + i] = d[i]
  <2> DEFINE j == Len(c) - Len(a) + i
  <2>1. j \in 1 .. Len(b) /\ Len(a) + j = Len(c) + i BY <1>1, <1>3
  <2>2. (a \o b)[Len(a) + j] = b[j] BY <1>1, <2>1
  <2>3. (c \o d)[Len(c) + i] = d[i] BY <1>1
  <2> QED BY <2>1, <2>2, <2>3
<1> QED BY <1>1, <1>2, <1>3

-----------------------------------------------------------------------------
(* The runs of an agent on one memory, in turn: the inductive invariant.     *)

RealMessages == [of : Seq(MessageIds), tool : BOOLEAN,
                 kind : {"system", "summary", "user", "answer", "call", "tool"}]
Snapshots == [of : Seq(MessageIds), pinned : Seq(RealMessages), upTo : Int]
RunStates == [snapshot : Snapshots \cup {NoSnapshot}, stored : Snapshots \cup {NoSnapshot},
              savedTo : Nat, iteration : Int, rounds : Int, compactions : Int,
              compactedOnError : BOOLEAN, saveFailed : BOOLEAN]
FullPlans == [next : {"llm", "loop"}, kept : Seq(RealMessages), upTo : Int, snapshot : Snapshots]
Plans == [next : {"none", "llm", "loop"}] \cup FullPlans

Idle == {"new", "ended"}
Saving == {"loop", "llm", "checkpoint", "compact", "compactSave"}
Storing == {"compactLoad", "compactStore"}

RunTypes ==
    /\ log \in Seq(RealMessages) /\ latest \in Snapshots \cup {NoSnapshot}
    /\ pc \in [Runs -> Idle \cup Saving \cup Storing \cup {"finish"}]
    /\ session \in [Runs -> MessagesType]
    /\ rs \in [Runs -> RunStates]
    /\ plan \in [Runs -> Plans]
    /\ said \in [Runs -> Seq(RealMessages)]

OneAtATime == \A p, q \in Runs : pc[p] \notin Idle /\ pc[q] \notin Idle => p = q

\* What a snapshot covers of the log, and what it stands for.
Covered(s) == IF s = NoSnapshot THEN 0 ELSE s.upTo + 1
Recorded(s) == IF s = NoSnapshot THEN <<>> ELSE s.of

StartsWhole(messages) == messages # <<>> => ~messages[1].tool

\* The snapshot stands for what it covers, which no tool result follows.
LogIs ==
    \E head, rest \in Seq(RealMessages) :
        /\ log = head \o rest
        /\ Len(head) = Covered(latest) /\ Said(head) = Recorded(latest)
        /\ StartsWhole(rest)

\* What a run has not saved yet, and the log once it has.
Fresh(r) == SubSeq(session[r], rs[r].savedTo + 1, Len(session[r]))
Given(r) == IF pc[r] \in Storing THEN log ELSE log \o Fresh(r)

\* A run's own summary stands for all of the log that its session does not hold, and
\* the memory's snapshot for no more than that.
WorkIs(r) ==
    pc[r] \in Saving \cup Storing =>
        /\ session[r] \in Seq(RealMessages)
        /\ rs[r].savedTo \in TailStart(r) .. Len(session[r])
        /\ StartsWhole(Fresh(r))
        /\ \E before \in Seq(RealMessages) :
               /\ Given(r) = before \o TailOf(r)
               /\ Said(before) = Recorded(rs[r].snapshot)
               /\ Covered(latest) <= Len(before)

\* A compaction that is made stands for the messages it takes from the session, and
\* its cursor is the last one's.
PlanIs(r) ==
    /\ pc[r] = "compact" => plan[r].next \in {"llm", "loop"}
    /\ pc[r] \in {"compactSave"} \cup Storing =>
           /\ plan[r] \in FullPlans
           /\ StartsWhole(plan[r].kept)
           /\ \E older \in Seq(RealMessages) :
                  /\ TailOf(r) = older \o plan[r].kept
                  /\ plan[r].snapshot.of = Recorded(rs[r].snapshot) \o Said(older)
    /\ pc[r] = "compactStore" => plan[r].upTo + 1 = Len(log) - Len(plan[r].kept)

FinishIs(r) == pc[r] = "finish" => StartsWhole(Unsaved(r))

RunInv ==
    /\ RunTypes /\ OneAtATime /\ LogIs
    /\ \A r \in Runs : WorkIs(r) /\ PlanIs(r) /\ FinishIs(r)

-----------------------------------------------------------------------------
(* Messages. *)

AnyMessages == [of : Seq(MessageIds), tool : BOOLEAN,
                kind : {"system", "summary", "user", "answer", "empty", "call", "tool"}]

LEMMA RealAreMessages ==
    /\ MessagesType = Seq(AnyMessages)
    /\ \A m \in RealMessages : m \in AnyMessages /\ m.of \in Seq(MessageIds) /\ m.kind # "empty"
    /\ \A s \in Seq(RealMessages) : s \in MessagesType
<1>1. MessagesType = Seq(AnyMessages) BY DEF MessagesType, AnyMessages
<1>2. \A m \in RealMessages : m \in AnyMessages /\ m.of \in Seq(MessageIds) /\ m.kind # "empty"
  BY DEF AnyMessages, RealMessages
<1>3. ASSUME NEW s \in Seq(RealMessages) PROVE s \in Seq(AnyMessages)
  BY <1>2, SeqMonotonic
<1> QED BY <1>1, <1>2, <1>3

\* Said, of messages.
LEMMA RealSaid ==
    /\ \A s \in Seq(RealMessages) : Said(s) \in Seq(MessageIds)
    /\ \A s, t \in Seq(RealMessages) : Said(s \o t) = Said(s) \o Said(t)
<1> DEFINE M == RealMessages
<1>1. \A m \in M : m.of \in Seq(MessageIds) BY RealAreMessages
<1> HIDE DEF M
<1>2. ASSUME NEW s \in Seq(M) PROVE Said(s) \in Seq(MessageIds) BY <1>1, SaidIsSeq
<1>3. ASSUME NEW s \in Seq(M), NEW t \in Seq(M) PROVE Said(s \o t) = Said(s) \o Said(t)
  BY <1>1, SaidBoth
<1> QED BY <1>2, <1>3 DEF M

LEMMA ReplayableIsReal == ASSUME NEW s \in MessagesType PROVE Replayable(s) \in Seq(RealMessages)
<1> DEFINE I == {i \in DOMAIN s : s[i].kind # "empty"}
<1>1. s \in Seq(AnyMessages) BY RealAreMessages
<1>2. Len(s) \in Nat BY <1>1
<1>3. ASSUME NEW i \in 1 .. Len(s), i \in I PROVE s[i] \in RealMessages
  <2>1. s[i] \in AnyMessages /\ s[i].kind # "empty" BY <1>1, <1>3
  <2> QED BY <2>1 DEF AnyMessages, RealMessages
<1>4. Replayable(s) = Picked(s, I) BY DEF Replayable
<1> HIDE DEF I
<1> QED BY <1>2, <1>3, <1>4, PickedIsSeq

LEMMA RealIsReplayable == ASSUME NEW s \in Seq(RealMessages) PROVE Replayable(s) = s
<1> DEFINE I == {i \in DOMAIN s : s[i].kind # "empty"}
<1>1. \A i \in 1 .. Len(s) : s[i] \in RealMessages OBVIOUS
<1>2. 1 .. Len(s) \subseteq I BY <1>1, RealAreMessages
<1>3. Replayable(s) = Picked(s, I) BY DEF Replayable
<1> HIDE DEF I
<1> QED BY <1>2, <1>3, PickedAll

LEMMA ReplayableMore ==
    ASSUME NEW s \in Seq(RealMessages), NEW m \in AnyMessages
    PROVE  Replayable(s \o <<m>>) = IF m.kind = "empty" THEN s ELSE s \o <<m>>
<1> DEFINE t == Append(s, m)
           I == {i \in DOMAIN s : s[i].kind # "empty"}
           J == {i \in DOMAIN t : t[i].kind # "empty"}
<1>1. s \in Seq(AnyMessages) /\ Len(s) \in Nat BY RealAreMessages
<1>2. s \o <<m>> = t BY <1>1, AppendIsConcat
<1>3. /\ DOMAIN s = 1 .. Len(s) /\ DOMAIN t = 1 .. Len(s) + 1
      /\ t[Len(s) + 1] = m /\ \A i \in 1 .. Len(s) : t[i] = s[i]
  BY <1>1
<1>4. I \cap (1 .. Len(s)) = J \cap (1 .. Len(s)) BY <1>1, <1>3
<1>5. Len(s) + 1 \in J <=> m.kind # "empty" BY <1>1, <1>3
<1>6. Picked(s, I) = s
  <2>1. Replayable(s) = Picked(s, I) BY DEF Replayable
  <2> QED BY <2>1, RealIsReplayable
<1>7. Replayable(t) = Picked(t, J) BY DEF Replayable
<1> HIDE DEF I, J
<1>8. Picked(t, J) = IF Len(s) + 1 \in J THEN Append(Picked(s, I), m) ELSE Picked(s, I)
  BY <1>1, <1>4, PickedMore
<1> QED BY <1>2, <1>5, <1>6, <1>7, <1>8

LEMMA MsgReal ==
    ASSUME NEW r \in Runs, NEW n \in Nat \ {0},
           NEW kind \in {"user", "answer", "empty", "call", "tool"}
    PROVE  /\ Msg(kind, r, n) \in AnyMessages
           /\ kind # "empty" => Msg(kind, r, n) \in RealMessages
           /\ Msg(kind, r, n).tool <=> kind = "tool"
           /\ Msg(kind, r, n).kind = kind
<1>1. <<r, n>> \in MessageIds BY DEF MessageIds
<1>2. <<<<r, n>>>> \in Seq(MessageIds) BY <1>1
<1> QED BY <1>2 DEF Msg, AnyMessages, RealMessages

LEMMA SummaryReal ==
    ASSUME NEW s \in Snapshots \cup {NoSnapshot}
    PROVE  /\ <<System>> \o SummaryMessages(s) \in Seq(RealMessages)
           /\ Len(SummaryMessages(s)) \in Nat
           /\ Len(<<System>> \o SummaryMessages(s)) = 1 + Len(SummaryMessages(s))
<1>1. System \in RealMessages
  <2>1. <<>> \in Seq(MessageIds) OBVIOUS
  <2> QED BY <2>1 DEF System, RealMessages
<1>2. SummaryMessages(s) \in Seq(RealMessages)
  <2>1. CASE s = NoSnapshot BY <2>1 DEF SummaryMessages
  <2>2. CASE s # NoSnapshot
    <3> DEFINE m == [of |-> s.of, tool |-> FALSE, kind |-> "summary"]
    <3>1. s.of \in Seq(MessageIds) /\ s.pinned \in Seq(RealMessages) BY <2>2 DEF Snapshots
    <3>2. m \in RealMessages BY <3>1 DEF RealMessages
    <3>3. SummaryMessages(s) = <<m>> \o s.pinned BY <2>2 DEF SummaryMessages
    <3> HIDE DEF m
    <3> QED BY <3>1, <3>2, <3>3
  <2> QED BY <2>1, <2>2
<1> DEFINE a == System
           b == SummaryMessages(s)
           M == RealMessages
<1>3. a \in M /\ b \in Seq(M) BY <1>1, <1>2
<1> HIDE DEF a, b, M
<1>4. <<a>> \o b \in Seq(M) /\ Len(b) \in Nat /\ Len(<<a>> \o b) = 1 + Len(b) BY <1>3
<1> QED BY <1>4 DEF a, b, M

LEMMA LastIsReal ==
    ASSUME NEW s \in Seq(RealMessages), s # <<>> PROVE Last(s) \in RealMessages
BY DEF Last

LEMMA UsersAreReal == ASSUME NEW s \in Seq(RealMessages) PROVE UsersOf(s) \in Seq(RealMessages)
<1> DEFINE I == {i \in DOMAIN s : s[i].kind = "user"}
<1>1. \A i \in 1 .. Len(s) : i \in I => s[i] \in RealMessages OBVIOUS
<1>2. UsersOf(s) = Picked(s, I) BY DEF UsersOf
<1> HIDE DEF I
<1> QED BY <1>1, <1>2, PickedIsSeq

LEMMA PinnedIsReal ==
    ASSUME NEW older \in Seq(RealMessages), NEW recent \in Seq(RealMessages),
           NEW previous \in Snapshots \cup {NoSnapshot}
    PROVE  Pinned(older, recent, previous) \in Seq(RealMessages)
<1>1. UsersOf(older) # <<>> => Last(UsersOf(older)) \in RealMessages BY UsersAreReal, LastIsReal
<1>2. previous # NoSnapshot => previous.pinned \in Seq(RealMessages) BY DEF Snapshots
<1> HIDE DEF RealMessages
<1> QED BY <1>1, <1>2 DEF Pinned

\* The least split at n or after it before which there are tool results only.
LEMMA SplitPointIs ==
    ASSUME NEW S, NEW messages \in Seq(S), NEW n \in Int
    PROVE  /\ SplitPoint(messages, n) \in 0 .. Len(messages)
           /\ SplitPoint(messages, n) < Len(messages) =>
                  ~messages[SplitPoint(messages, n) + 1].tool
           /\ 0 <= n /\ n < Len(messages) /\ ~messages[n + 1].tool => SplitPoint(messages, n) = n
           /\ n = Len(messages) => SplitPoint(messages, n) = n
<1> DEFINE from == IF n < 0 THEN 0 ELSE IF n > Len(messages) THEN Len(messages) ELSE n
           others == {i \in from + 1 .. Len(messages) : ~messages[i].tool}
<1>1. Len(messages) \in Nat /\ from \in 0 .. Len(messages) OBVIOUS
<1>2. SplitPoint(messages, n) = IF others = {} THEN Len(messages)
                                ELSE (CHOOSE i \in others : \A j \in others : i <= j) - 1
  BY DEF SplitPoint
<1>3. CASE others = {} BY <1>1, <1>2, <1>3
<1>4. CASE others # {}
  <2>1. others \in SUBSET Nat BY <1>1
  <2> DEFINE least == CHOOSE i \in others : \A j \in others : i <= j
  <2>2. least \in others /\ \A j \in others : least <= j
    <3>1. \E i \in others : \A j \in others : i <= j BY <1>4, <2>1, LeastOf
    <3> HIDE DEF others
    <3> QED BY <3>1
  <2>3. SplitPoint(messages, n) = least - 1 BY <1>2, <1>4
  <2> HIDE DEF least
  <2> QED BY <1>1, <2>2, <2>3
<1> QED BY <1>3, <1>4

-----------------------------------------------------------------------------
(* What a step of a run keeps. *)

LEMMA RealJoined == \A a, b, c \in Seq(RealMessages) : (a \o b) \o c = a \o (b \o c)
<1> DEFINE S == Seq(RealMessages)
<1>1. Associative(S) BY Joined
<1> HIDE DEF S
<1>2. \A a, b, c \in S : (a \o b) \o c = a \o (b \o c) BY <1>1 DEF Associative
<1> QED BY <1>2 DEF S

LEMMA RealCut ==
    \A s, t \in Seq(RealMessages) :
        /\ s \o t \in Seq(RealMessages) /\ Len(s \o t) = Len(s) + Len(t)
        /\ SubSeq(s \o t, 1, Len(s)) = s
        /\ SubSeq(s \o t, Len(s) + 1, Len(s \o t)) = t
<1> SUFFICES ASSUME NEW s \in Seq(RealMessages), NEW t \in Seq(RealMessages)
             PROVE  /\ s \o t \in Seq(RealMessages) /\ Len(s \o t) = Len(s) + Len(t)
                    /\ SubSeq(s \o t, 1, Len(s)) = s
                    /\ SubSeq(s \o t, Len(s) + 1, Len(s \o t)) = t
  OBVIOUS
<1> QED BY CutAt

LEMMA RealAt ==
    \A s, t \in Seq(RealMessages) :
        /\ \A i \in 1 .. Len(s) : (s \o t)[i] = s[i]
        /\ \A i \in 1 .. Len(t) : (s \o t)[Len(s) + i] = t[i]
OBVIOUS

LEMMA RealSameCut == SameCuts(Seq(RealMessages))
BY SameCut

LEMMA RealShift ==
    ASSUME NEW a \in Seq(RealMessages), NEW b \in Seq(RealMessages),
           NEW c \in Seq(RealMessages), NEW d \in Seq(RealMessages)
    PROVE  CutsTheSame(a, b, c, d)
<1> DEFINE S == Seq(RealMessages)
<1>1. SameCuts(S) /\ a \in S /\ b \in S /\ c \in S /\ d \in S BY RealSameCut
<1> HIDE DEF S
<1> QED BY <1>1 DEF SameCuts

LEMMA TailStartIs ==
    ASSUME RunTypes, NEW r \in Runs
    PROVE  TailStart(r) \in Nat \ {0} /\ rs[r].snapshot \in Snapshots \cup {NoSnapshot}
<1>1. rs[r].snapshot \in Snapshots \cup {NoSnapshot} BY DEF RunTypes, RunStates
<1>2. Len(SummaryMessages(rs[r].snapshot)) \in Nat BY <1>1, SummaryReal
<1> QED BY <1>1, <1>2 DEF TailStart

LEMMA WorkFacts ==
    ASSUME RunInv, NEW r \in Runs, pc[r] \in Saving \cup Storing
    PROVE  /\ session[r] \in Seq(RealMessages)
           /\ TailOf(r) \in Seq(RealMessages)
           /\ Fresh(r) \in Seq(RealMessages)
           /\ TailStart(r) \in 0 .. Len(session[r]) /\ rs[r].savedTo \in 0 .. Len(session[r])
           /\ Unsaved(r) = Fresh(r) /\ StartsWhole(Fresh(r))
           /\ log \in Seq(RealMessages)
<1>1. /\ session[r] \in Seq(RealMessages)
      /\ rs[r].savedTo \in TailStart(r) .. Len(session[r])
      /\ StartsWhole(Fresh(r))
  BY DEF RunInv, WorkIs
<1>2. TailStart(r) \in Nat \ {0} BY TailStartIs DEF RunInv
<1>3. TailStart(r) \in 0 .. Len(session[r]) /\ rs[r].savedTo \in 0 .. Len(session[r]) BY <1>1, <1>2
<1>4. TailOf(r) \in Seq(RealMessages) BY <1>1, <1>3, EndOf DEF TailOf
<1>5. Fresh(r) \in Seq(RealMessages) BY <1>1, <1>3, EndOf DEF Fresh
<1>6. Unsaved(r) = Fresh(r) BY <1>5, RealIsReplayable DEF Unsaved, Fresh
<1>7. log \in Seq(RealMessages) BY DEF RunInv, RunTypes
<1> QED BY <1>1, <1>3, <1>4, <1>5, <1>6, <1>7

LEMMA StillWhole ==
    ASSUME NEW s \in Seq(RealMessages), NEW t \in Seq(RealMessages), StartsWhole(s), StartsWhole(t)
    PROVE  StartsWhole(s \o t) /\ s \o t \in Seq(RealMessages)
<1>1. s \o t \in Seq(RealMessages) BY ConcatProperties
<1>2. CASE s = <<>>
  <2>1. s \o t = t BY <1>2, ConcatEmptySeq
  <2> QED BY <1>1, <2>1
<1>3. CASE s # <<>>
  <2>1. (s \o t)[1] = s[1] BY <1>3
  <2> QED BY <1>1, <1>3, <2>1 DEF StartsWhole
<1> QED BY <1>2, <1>3

\* The log grows.
LEMMA LogSaves ==
    ASSUME LogIs, NEW m \in Seq(RealMessages), StartsWhole(m), log' = log \o m, latest' = latest
    PROVE  LogIs'
<1>1. PICK head \in Seq(RealMessages), rest \in Seq(RealMessages) :
          /\ log = head \o rest
          /\ Len(head) = Covered(latest) /\ Said(head) = Recorded(latest)
          /\ StartsWhole(rest)
  BY DEF LogIs
<1>2. log' = head \o (rest \o m) BY <1>1, RealJoined
<1>3. StartsWhole(rest \o m) /\ rest \o m \in Seq(RealMessages) BY <1>1, StillWhole
<1>4. Len(head) = Covered(latest') /\ Said(head) = Recorded(latest') BY <1>1
<1> QED BY <1>2, <1>3, <1>4 DEF LogIs, StartsWhole, Covered, Recorded

LEMMA LogKept == ASSUME LogIs, log' = log, latest' = latest PROVE LogIs'
BY DEF LogIs, StartsWhole, Covered, Recorded

\* Only one run moves.
LEMMA Assembled ==
    ASSUME RunInv, NEW r \in Runs, NEW to, pc' = [pc EXCEPT ![r] = to],
           pc[r] \notin Idle \/ \A q \in Runs : pc[q] \in Idle,
           RunTypes', LogIs', WorkIs(r)', PlanIs(r)', FinishIs(r)'
    PROVE  RunInv'
<1>1. pc \in [Runs -> Idle \cup Saving \cup Storing \cup {"finish"}] BY DEF RunInv, RunTypes
<1>2. ASSUME NEW q \in Runs, q # r PROVE pc'[q] \in Idle
  <2>1. pc'[q] = pc[q] BY <1>1, <1>2
  <2>2. pc[q] \in Idle BY <1>2 DEF RunInv, OneAtATime
  <2> QED BY <2>1, <2>2
<1>3. OneAtATime' BY <1>2 DEF OneAtATime
<1>4. ASSUME NEW q \in Runs PROVE (WorkIs(q) /\ PlanIs(q) /\ FinishIs(q))'
  <2>1. CASE q = r BY <2>1
  <2>2. CASE q # r
    <3>1. pc'[q] \in Idle BY <1>2, <2>2
    <3>2. pc'[q] \notin Saving \cup Storing \cup {"finish"} BY <3>1 DEF Idle, Saving, Storing
    <3>3. pc'[q] \notin {"compact", "compactSave", "compactLoad", "compactStore"}
      BY <3>2 DEF Saving, Storing
    <3> QED BY <3>2, <3>3 DEF WorkIs, PlanIs, FinishIs, Storing
  <2> QED BY <2>1, <2>2
<1> QED BY <1>3, <1>4 DEF RunInv

\* A run goes on, and may add messages, before it saves anything.
LEMMA Works ==
    ASSUME RunInv, NEW r \in Runs, pc[r] \in Saving,
           NEW ms \in Seq(RealMessages), StartsWhole(ms),
           session'[r] = session[r] \o ms,
           rs'[r].snapshot = rs[r].snapshot, rs'[r].savedTo = rs[r].savedTo,
           log' = log, latest' = latest, pc'[r] \in Saving \cup {"finish"}
    PROVE  LogIs' /\ WorkIs(r)' /\ FinishIs(r)'
<1> DEFINE R == RealMessages
<1>1. /\ session[r] \in Seq(R) /\ TailOf(r) \in Seq(R) /\ Fresh(r) \in Seq(R) /\ log \in Seq(R)
      /\ TailStart(r) \in 0 .. Len(session[r]) /\ rs[r].savedTo \in 0 .. Len(session[r])
      /\ StartsWhole(Fresh(r))
  BY WorkFacts
<1>2. rs[r].savedTo \in TailStart(r) .. Len(session[r]) BY DEF RunInv, WorkIs
<1>3. PICK before \in Seq(R) :
          /\ log \o Fresh(r) = before \o TailOf(r)
          /\ Said(before) = Recorded(rs[r].snapshot) /\ Covered(latest) <= Len(before)
  <2>1. pc[r] \notin Storing BY DEF Saving, Storing
  <2> QED BY <2>1 DEF RunInv, WorkIs, Given
<1>4. TailStart(r)' = TailStart(r) BY DEF TailStart
<1>5. session'[r] \in Seq(R) /\ Len(session'[r]) = Len(session[r]) + Len(ms) BY <1>1, CutAt
<1>6. TailOf(r)' = TailOf(r) \o ms
  <2>1. TailOf(r)' = SubSeq(session[r] \o ms, TailStart(r) + 1, Len(session[r] \o ms))
    BY <1>4 DEF TailOf
  <2>2. SubSeq(session[r] \o ms, TailStart(r) + 1, Len(session[r] \o ms))
            = SubSeq(session[r], TailStart(r) + 1, Len(session[r])) \o ms
    BY <1>1, EndGrows
  <2> QED BY <2>1, <2>2 DEF TailOf
<1>7. Fresh(r)' = Fresh(r) \o ms
  <2>1. Fresh(r)' = SubSeq(session[r] \o ms, rs[r].savedTo + 1, Len(session[r] \o ms)) BY DEF Fresh
  <2>2. SubSeq(session[r] \o ms, rs[r].savedTo + 1, Len(session[r] \o ms))
            = SubSeq(session[r], rs[r].savedTo + 1, Len(session[r])) \o ms
    BY <1>1, EndGrows
  <2> QED BY <2>1, <2>2 DEF Fresh
<1>8. StartsWhole(Fresh(r) \o ms) /\ Fresh(r) \o ms \in Seq(R) BY <1>1, StillWhole
<1>9. log \o (Fresh(r) \o ms) = before \o (TailOf(r) \o ms)
  <2>1. log \o (Fresh(r) \o ms) = (log \o Fresh(r)) \o ms BY <1>1, RealJoined, ZenonT(30)
  <2>2. (before \o TailOf(r)) \o ms = before \o (TailOf(r) \o ms) BY <1>1, RealJoined
  <2> QED BY <1>3, <2>1, <2>2
<1>10. WorkIs(r)'
  <2>1. pc'[r] \notin Storing BY DEF Saving, Storing
  <2>2. Given(r)' = before \o TailOf(r)' BY <1>6, <1>7, <1>9, <2>1 DEF Given
  <2>3. StartsWhole(Fresh(r))' BY <1>7, <1>8 DEF StartsWhole
  <2>4. rs'[r].savedTo \in TailStart(r)' .. Len(session'[r]) BY <1>2, <1>4, <1>5
  <2>5. (Covered(latest) <= Len(before))' BY <1>3 DEF Covered
  <2>6. Said(before) = Recorded(rs[r].snapshot)' BY <1>3 DEF Recorded
  <2> HIDE DEF R
  <2> QED BY <1>5, <2>2, <2>3, <2>4, <2>5, <2>6 DEF WorkIs, R
<1>11. FinishIs(r)'
  <2>1. Unsaved(r)' = Replayable(Fresh(r)') BY DEF Unsaved, Fresh
  <2>2. Unsaved(r)' = Fresh(r) \o ms BY <1>7, <1>8, <2>1, RealIsReplayable
  <2> QED BY <1>8, <2>2 DEF FinishIs, StartsWhole
<1>12. LogIs' BY LogKept DEF RunInv
<1> QED BY <1>10, <1>11, <1>12

-----------------------------------------------------------------------------
(* The loop and its answers. *)

\* The fields a run's loop changes by itself.
LEMMA RunTypesKept ==
    ASSUME RunTypes, NEW r \in Runs, NEW to \in Idle \cup Saving \cup Storing \cup {"finish"}, Goes(r, to),
           log' \in Seq(RealMessages), latest' = latest \/ latest' \in Snapshots \cup {NoSnapshot},
           session' = session \/ (\E s \in Seq(AnyMessages) : session' = [session EXCEPT ![r] = s]),
           said' = said \/ (\E s \in Seq(RealMessages) : said' = [said EXCEPT ![r] = s]),
           rs' = rs \/ (\E s \in RunStates : rs' = [rs EXCEPT ![r] = s]),
           plan' = plan \/ (\E p \in Plans : plan' = [plan EXCEPT ![r] = p])
    PROVE  RunTypes'
<1> DEFINE Pcs == Idle \cup Saving \cup Storing \cup {"finish"}
           M == Seq(AnyMessages)
           S == Seq(RealMessages)
<1>1. /\ latest' \in Snapshots \cup {NoSnapshot} /\ pc \in [Runs -> Pcs] /\ session \in [Runs -> M]
      /\ rs \in [Runs -> RunStates] /\ plan \in [Runs -> Plans] /\ said \in [Runs -> S]
  BY RealAreMessages DEF RunTypes
<1>2. /\ to \in Pcs /\ log' \in S
      /\ session' = session \/ \E s \in M : session' = [session EXCEPT ![r] = s]
      /\ said' = said \/ \E s \in S : said' = [said EXCEPT ![r] = s]
  OBVIOUS
<1> HIDE DEF Pcs, M, S
<1>3. pc' \in [Runs -> Pcs] BY <1>1, <1>2 DEF Goes
<1>4. session' \in [Runs -> M] BY <1>1, <1>2
<1>5. said' \in [Runs -> S] BY <1>1, <1>2
<1>6. rs' \in [Runs -> RunStates] BY <1>1
<1>7. plan' \in [Runs -> Plans] BY <1>1
<1>8. MessagesType = M BY RealAreMessages DEF M
<1> QED BY <1>1, <1>2, <1>3, <1>4, <1>5, <1>6, <1>7, <1>8 DEF RunTypes, Pcs, M, S

\* A step that goes on with the loop or ends the run, and saves nothing.
LEMMA LoopStep ==
    ASSUME RunInv, NEW r \in Runs, pc[r] \in Saving,
           NEW to \in Saving \cup {"finish"}, Goes(r, to),
           NEW ms \in Seq(RealMessages), StartsWhole(ms),
           session' = [session EXCEPT ![r] = @ \o ms],
           said' = said \/ (\E s \in Seq(RealMessages) : said' = [said EXCEPT ![r] = s]),
           rs' = rs \/ (\E s \in RunStates : /\ rs' = [rs EXCEPT ![r] = s]
                                             /\ s.snapshot = rs[r].snapshot
                                             /\ s.savedTo = rs[r].savedTo),
           plan' = plan \/ (\E p \in Plans : plan' = [plan EXCEPT ![r] = p]),
           to = "compact" => plan'[r].next \in {"llm", "loop"}, to # "compactSave",
           log' = log, latest' = latest
    PROVE  RunInv'
<1>1. /\ pc \in [Runs -> Idle \cup Saving \cup Storing \cup {"finish"}]
      /\ session \in [Runs -> MessagesType] /\ rs \in [Runs -> RunStates]
      /\ log \in Seq(RealMessages) /\ OneAtATime /\ LogIs
  BY DEF RunInv, RunTypes
<1>2. session[r] \in Seq(RealMessages) BY WorkFacts
<1>3. session'[r] = session[r] \o ms BY <1>1
<1>4. session[r] \o ms \in Seq(AnyMessages) BY <1>2, ConcatProperties, RealAreMessages
<1>5. pc'[r] = to BY <1>1 DEF Goes
<1>6. rs'[r].snapshot = rs[r].snapshot /\ rs'[r].savedTo = rs[r].savedTo BY <1>1
<1>7. RunTypes'
  <2>1. \E s \in Seq(AnyMessages) : session' = [session EXCEPT ![r] = s] BY <1>4
  <2>2. rs' = rs \/ \E s \in RunStates : rs' = [rs EXCEPT ![r] = s] OBVIOUS
  <2> QED BY <1>1, <2>1, <2>2, RunTypesKept DEF RunInv
<1>8. LogIs' /\ WorkIs(r)' /\ FinishIs(r)' BY <1>3, <1>5, <1>6, Works
<1>9. PlanIs(r)' BY <1>5 DEF PlanIs, Saving, Storing
<1>10. pc[r] \notin Idle BY DEF Saving, Idle
<1>11. pc' = [pc EXCEPT ![r] = to] BY DEF Goes
<1> QED BY <1>7, <1>8, <1>9, <1>10, <1>11, Assembled

\* The same, of a step that adds no message.
LEMMA QuietStep ==
    ASSUME RunInv, NEW r \in Runs, pc[r] \in Saving,
           NEW to \in Saving \cup {"finish"}, Goes(r, to),
           rs' = rs \/ (\E s \in RunStates : /\ rs' = [rs EXCEPT ![r] = s]
                                             /\ s.snapshot = rs[r].snapshot
                                             /\ s.savedTo = rs[r].savedTo),
           plan' = plan \/ (\E p \in Plans : plan' = [plan EXCEPT ![r] = p]),
           to = "compact" => plan'[r].next \in {"llm", "loop"}, to # "compactSave",
           UNCHANGED <<log, latest, session, said>>
    PROVE  RunInv'
<1>1. session \in [Runs -> MessagesType] BY DEF RunInv, RunTypes
<1>2. <<>> \in Seq(RealMessages) /\ StartsWhole(<<>>) BY DEF StartsWhole
<1>3. session[r] \in Seq(RealMessages) BY WorkFacts
<1>4. session[r] \o <<>> = session[r] BY <1>3, ConcatEmptySeq
<1>5. session' = [session EXCEPT ![r] = @ \o <<>>] BY <1>1, <1>4
<1> QED BY <1>2, <1>5, LoopStep

LEMMA RunStateIs ==
    ASSUME RunInv, NEW r \in Runs
    PROVE  rs[r] \in RunStates /\ rs \in [Runs -> RunStates] /\ plan \in [Runs -> Plans]
BY DEF RunInv, RunTypes

LEMMA CountedIs ==
    ASSUME NEW s \in RunStates
    PROVE  Counted(s) \in RunStates /\ Counted(s).snapshot = s.snapshot /\ Counted(s).savedTo = s.savedTo
BY DEF Counted, RunStates

LEMMA LoopEndsStep == ASSUME RunInv, NEW r \in Runs, LoopEnds(r) PROVE RunInv'
<1>1. pc[r] \in Saving BY DEF LoopEnds, Saving
<1> QED BY <1>1, QuietStep DEF LoopEnds

LEMMA LoopCompactsStep == ASSUME RunInv, NEW r \in Runs, LoopCompacts(r) PROVE RunInv'
<1>1. pc[r] \in Saving /\ "compact" \in Saving BY DEF LoopCompacts, Saving
<1> DEFINE s == [rs[r] EXCEPT !.compactions = @ + 1]
           p == [next |-> "llm"]
<1>2. /\ s \in RunStates /\ rs' = [rs EXCEPT ![r] = s]
      /\ s.snapshot = rs[r].snapshot /\ s.savedTo = rs[r].savedTo
  <2>1. rs[r] \in RunStates /\ rs[r].compactions + 1 \in Int BY RunStateIs DEF RunStates
  <2>2. s \in RunStates BY <2>1 DEF RunStates
  <2>3. s.snapshot = rs[r].snapshot /\ s.savedTo = rs[r].savedTo BY <2>1 DEF RunStates
  <2>4. rs' = [rs EXCEPT ![r] = s] BY RunStateIs DEF LoopCompacts
  <2> QED BY <2>2, <2>3, <2>4
<1>3. p \in Plans /\ plan' = [plan EXCEPT ![r] = p] /\ plan'[r].next = "llm"
  BY RunStateIs DEF LoopCompacts, Plans
<1> HIDE DEF s, p
<1>4. Goes(r, "compact") /\ UNCHANGED <<log, latest, session, said>> BY DEF LoopCompacts
<1> QED BY <1>1, <1>2, <1>3, <1>4, QuietStep

LEMMA LoopCallsStep == ASSUME RunInv, NEW r \in Runs, LoopCalls(r) PROVE RunInv'
<1>1. pc[r] \in Saving /\ "llm" \in Saving BY DEF LoopCalls, Saving
<1>2. rs' = [rs EXCEPT ![r] = Counted(rs[r])] BY DEF LoopCalls
<1>3. Goes(r, "llm") /\ UNCHANGED <<log, latest, session, said>> /\ plan' = plan BY DEF LoopCalls
<1> QED BY <1>1, <1>2, <1>3, QuietStep, CountedIs, RunStateIs

LEMMA LLMFailsStep == ASSUME RunInv, NEW r \in Runs, LLMFails(r) PROVE RunInv'
<1>1. pc[r] \in Saving BY DEF LLMFails, Saving
<1> QED BY <1>1, QuietStep DEF LLMFails

LEMMA CompactFailsStep == ASSUME RunInv, NEW r \in Runs, CompactFails(r) PROVE RunInv'
<1>1. pc[r] \in Saving BY DEF CompactFails, Saving
<1>2. NoPlan \in Plans BY DEF NoPlan, Plans
<1> QED BY <1>1, <1>2, QuietStep DEF CompactFails

LEMMA ContextTooLongStep == ASSUME RunInv, NEW r \in Runs, ContextTooLong(r) PROVE RunInv'
<1>1. pc[r] \in Saving /\ "compact" \in Saving BY DEF ContextTooLong, Saving
<1>2. UNCHANGED <<log, latest, session, said>> BY DEF ContextTooLong
<1>3. CASE MayCompactOnError(r)
  <2> DEFINE s == [rs[r] EXCEPT !.compactedOnError = TRUE]
             p == [next |-> "loop"]
  <2>1. /\ s \in RunStates /\ rs' = [rs EXCEPT ![r] = s]
        /\ s.snapshot = rs[r].snapshot /\ s.savedTo = rs[r].savedTo
    BY <1>3, RunStateIs DEF ContextTooLong, RunStates
  <2>2. p \in Plans /\ plan' = [plan EXCEPT ![r] = p] /\ plan'[r].next = "loop"
    BY <1>3, RunStateIs DEF ContextTooLong, Plans
  <2>3. Goes(r, "compact") BY <1>3 DEF ContextTooLong
  <2> HIDE DEF s, p
  <2> QED BY <1>1, <1>2, <2>1, <2>2, <2>3, QuietStep
<1>4. CASE ~MayCompactOnError(r)
  <2>1. Goes(r, "finish") /\ rs' = rs /\ plan' = plan BY <1>4 DEF ContextTooLong
  <2> QED BY <1>1, <1>2, <2>1, QuietStep
<1> QED BY <1>3, <1>4

-----------------------------------------------------------------------------
(* The LLM's answers. *)

LEMMA SaidLength == ASSUME RunInv, NEW r \in Runs PROVE Len(said[r]) \in Nat /\ said[r] \in Seq(RealMessages)
BY DEF RunInv, RunTypes

LEMMA CallsToolsStep == ASSUME RunInv, NEW r \in Runs, CallsTools(r) PROVE RunInv'
<1> DEFINE n == Len(said[r])
           e(i) == Msg(IF i = 1 THEN "call" ELSE "tool", r, n + i)
           ms == [i \in 1 .. CallsPerRound + 1 |-> e(i)]
           s == [rs[r] EXCEPT !.compactedOnError = FALSE, !.rounds = @ + 1]
<1>1. pc[r] \in Saving BY DEF CallsTools, Saving
<1>2. n \in Nat /\ CallsPerRound + 1 \in Nat /\ 1 \in 1 .. CallsPerRound + 1
  BY SaidLength, RunConstants
<1>3. ASSUME NEW i \in 1 .. CallsPerRound + 1 PROVE e(i) \in RealMessages
  <2>1. n + i \in Nat \ {0} BY <1>2
  <2> QED BY <2>1, MsgReal
<1>4. ms \in Seq(RealMessages)
  <2> HIDE DEF e
  <2> QED BY <1>2, <1>3
<1>5. StartsWhole(ms)
  <2>1. n + 1 \in Nat \ {0} BY <1>2
  <2>2. ms[1] = Msg("call", r, n + 1) BY <1>2
  <2>3. ~Msg("call", r, n + 1).tool BY <2>1, MsgReal
  <2> HIDE DEF ms
  <2> QED BY <2>2, <2>3 DEF StartsWhole
<1>6. session' = [session EXCEPT ![r] = @ \o ms] /\ said' = [said EXCEPT ![r] = @ \o Replayable(ms)]
  BY DEF CallsTools, Adds
<1> HIDE DEF ms
<1>7. said' = [said EXCEPT ![r] = said[r] \o Replayable(ms)] /\ said[r] \o Replayable(ms) \in Seq(RealMessages)
  BY <1>4, <1>6, SaidLength, RealIsReplayable, ConcatProperties
<1>8. /\ s \in RunStates /\ rs' = [rs EXCEPT ![r] = s]
      /\ s.snapshot = rs[r].snapshot /\ s.savedTo = rs[r].savedTo
  <2>1. rs[r] \in RunStates /\ rs[r].rounds + 1 \in Int BY RunStateIs DEF RunStates
  <2>2. s \in RunStates BY <2>1 DEF RunStates
  <2>3. s.snapshot = rs[r].snapshot /\ s.savedTo = rs[r].savedTo BY <2>1 DEF RunStates
  <2>4. rs' = [rs EXCEPT ![r] = s] BY RunStateIs DEF CallsTools
  <2> QED BY <2>2, <2>3, <2>4
<1> HIDE DEF s
<1>9. PICK to \in {"finish", "checkpoint", "loop"} : Goes(r, to) BY DEF CallsTools
<1>10. to \in Saving \cup {"finish"} /\ to # "compact" /\ to # "compactSave" BY DEF Saving
<1>11. UNCHANGED <<log, latest>> /\ plan' = plan BY DEF CallsTools
<1> QED BY <1>1, <1>4, <1>5, <1>6, <1>7, <1>8, <1>9, <1>10, <1>11, LoopStep

LEMMA AnswersStep == ASSUME RunInv, NEW r \in Runs, Answers(r) PROVE RunInv'
<1>1. PICK kind \in {"answer", "empty"} : Adds(r, <<Msg(kind, r, Len(said[r]) + 1)>>) BY DEF Answers
<1> DEFINE m == Msg(kind, r, Len(said[r]) + 1)
           s == [rs[r] EXCEPT !.compactedOnError = FALSE]
<1>2. pc[r] \in Saving BY DEF Answers, Saving
<1>3. /\ m \in AnyMessages /\ (kind # "empty" => m \in RealMessages)
      /\ (m.tool <=> kind = "tool") /\ m.kind = kind
  <2>1. Len(said[r]) + 1 \in Nat \ {0} BY SaidLength
  <2> QED BY <2>1, MsgReal
<1> HIDE DEF m
<1>4. session' = [session EXCEPT ![r] = @ \o <<m>>] /\ said' = [said EXCEPT ![r] = @ \o Replayable(<<m>>)]
  BY <1>1 DEF Adds, m
<1>5. /\ s \in RunStates /\ rs' = [rs EXCEPT ![r] = s]
      /\ s.snapshot = rs[r].snapshot /\ s.savedTo = rs[r].savedTo
  BY RunStateIs DEF Answers, RunStates
<1> HIDE DEF s
<1>6. Goes(r, "finish") /\ log' = log /\ latest' = latest /\ plan' = plan BY DEF Answers
<1>7. <<m>> \in Seq(AnyMessages) /\ <<m>> \in MessagesType BY <1>3, RealAreMessages
<1>8. said' = [said EXCEPT ![r] = said[r] \o Replayable(<<m>>)] /\ said[r] \o Replayable(<<m>>) \in Seq(RealMessages)
  BY <1>4, <1>7, SaidLength, ReplayableIsReal, ConcatProperties
<1>9. CASE kind = "answer"
  <2>1. <<m>> \in Seq(RealMessages) /\ StartsWhole(<<m>>) BY <1>3, <1>9 DEF StartsWhole
  <2>2. \E z \in Seq(RealMessages) : said' = [said EXCEPT ![r] = z] BY <1>8
  <2>3. \E z \in RunStates : /\ rs' = [rs EXCEPT ![r] = z]
                             /\ z.snapshot = rs[r].snapshot /\ z.savedTo = rs[r].savedTo
    BY <1>5
  <2>4. "finish" \in Saving \cup {"finish"} /\ "finish" # "compact" /\ "finish" # "compactSave" OBVIOUS
  <2> HIDE DEF Saving
  <2>5. session' = [session EXCEPT ![r] = @ \o <<m>>] BY <1>4
  <2> QED BY <1>2, <1>6, <2>1, <2>2, <2>3, <2>4, <2>5, LoopStep
<1>10. CASE kind = "empty"
  <2>1. /\ session \in [Runs -> MessagesType] /\ rs \in [Runs -> RunStates]
        /\ pc \in [Runs -> Idle \cup Saving \cup Storing \cup {"finish"}]
        /\ log \in Seq(RealMessages) /\ LogIs
    BY DEF RunInv, RunTypes
  <2>2. /\ session[r] \in Seq(RealMessages) /\ Fresh(r) \in Seq(RealMessages)
        /\ rs[r].savedTo \in 0 .. Len(session[r]) /\ StartsWhole(Fresh(r))
    BY <1>2, WorkFacts
  <2>3. session[r] \in Seq(AnyMessages) BY <2>2, RealAreMessages
  <2>4. session[r] \o <<m>> \in Seq(AnyMessages) BY <1>7, <2>3, ConcatProperties
  <2>5. RunTypes'
    <3>1. \E z \in Seq(AnyMessages) : session' = [session EXCEPT ![r] = z] BY <1>4, <2>1, <2>4
    <3> QED BY <1>5, <1>6, <1>8, <2>1, <3>1, RunTypesKept DEF RunInv
  <2>6. Unsaved(r)' = Fresh(r)
    <3>1. session'[r] = session[r] \o <<m>> /\ rs'[r].savedTo = rs[r].savedTo BY <1>4, <1>5, <2>1
    <3>2. SubSeq(session[r] \o <<m>>, rs[r].savedTo + 1, Len(session[r] \o <<m>>))
              = SubSeq(session[r], rs[r].savedTo + 1, Len(session[r])) \o <<m>>
      BY <1>7, <2>2, <2>3, EndGrows
    <3>3. Unsaved(r)' = Replayable(Fresh(r) \o <<m>>) BY <3>1, <3>2 DEF Unsaved, Fresh
    <3>4. Replayable(Fresh(r) \o <<m>>) = Fresh(r) BY <1>3, <1>10, <2>2, ReplayableMore
    <3> QED BY <3>3, <3>4
  <2>7. FinishIs(r)' BY <2>2, <2>6 DEF FinishIs, StartsWhole
  <2>8. pc'[r] = "finish" BY <1>6, <2>1 DEF Goes
  <2>9. WorkIs(r)' /\ PlanIs(r)' BY <2>8 DEF WorkIs, PlanIs, Saving, Storing
  <2>10. LogIs' BY <1>6, <2>1, LogKept
  <2>11. pc[r] \notin Idle /\ pc' = [pc EXCEPT ![r] = "finish"] BY <1>2, <1>6 DEF Goes, Saving, Idle
  <2> QED BY <2>5, <2>7, <2>9, <2>10, <2>11, Assembled
<1> QED BY <1>9, <1>10

-----------------------------------------------------------------------------
(* Saves. *)

\* What a run saves at its end.
LEMMA UnsavedIs ==
    ASSUME RunInv, NEW r \in Runs
    PROVE  /\ Unsaved(r) \in Seq(RealMessages) /\ log \o Unsaved(r) \in Seq(RealMessages)
           /\ pc[r] \in Saving \cup Storing \cup {"finish"} => StartsWhole(Unsaved(r))
<1>1. session[r] \in Seq(AnyMessages) /\ rs[r].savedTo \in Nat /\ log \in Seq(RealMessages)
  BY RealAreMessages DEF RunInv, RunTypes, RunStates
<1>2. Unsaved(r) \in Seq(RealMessages)
  <2> DEFINE a == rs[r].savedTo + 1
             z == Len(session[r])
  <2>1. a \in Int /\ z \in Int /\ \A i \in a .. z : session[r][i] \in AnyMessages BY <1>1
  <2> HIDE DEF a, z
  <2>2. SubSeq(session[r], a, z) \in Seq(AnyMessages) BY <2>1, SubSeqProperties
  <2> QED BY <2>2, RealAreMessages, ReplayableIsReal DEF Unsaved, a, z
<1>3. pc[r] \in Saving \cup Storing => StartsWhole(Unsaved(r)) BY WorkFacts
<1>4. pc[r] = "finish" => StartsWhole(Unsaved(r)) BY DEF RunInv, FinishIs
<1> QED BY <1>1, <1>2, <1>3, <1>4, ConcatProperties

\* A save that is made, or fails, adds what was not saved, or nothing.
LEMMA SaveIs ==
    ASSUME RunInv, NEW r \in Runs, pc[r] \in Saving \cup {"finish"},
           log' = log \/ log' = log \o Unsaved(r), latest' = latest
    PROVE  LogIs' /\ log' \in Seq(RealMessages)
<1>1. LogIs /\ log \in Seq(RealMessages) BY DEF RunInv, RunTypes
<1>2. /\ Unsaved(r) \in Seq(RealMessages) /\ log \o Unsaved(r) \in Seq(RealMessages)
      /\ StartsWhole(Unsaved(r))
  BY UnsavedIs
<1>3. CASE log' = log BY <1>1, <1>3, LogKept
<1>4. CASE log' = log \o Unsaved(r) BY <1>1, <1>2, <1>4, LogSaves
<1> QED BY <1>3, <1>4

LEMMA SaveEndsRunStep == ASSUME RunInv, NEW r \in Runs, SaveEndsRun(r) PROVE RunInv'
<1>1. pc[r] \in Saving BY DEF SaveEndsRun, Saving
<1>2. log' = log \/ log' = log \o Unsaved(r) BY DEF SaveEndsRun, SaveFails
<1>3. /\ Goes(r, "finish") /\ latest' = latest /\ session' = session /\ rs' = rs /\ said' = said
      /\ plan' = [plan EXCEPT ![r] = NoPlan]
  BY DEF SaveEndsRun
<1>4. LogIs' /\ log' \in Seq(RealMessages) BY <1>1, <1>2, <1>3, SaveIs
<1>5. NoPlan \in Plans BY DEF NoPlan, Plans
<1>6. RunTypes' BY <1>3, <1>4, <1>5, RunTypesKept DEF RunInv
<1>7. pc \in [Runs -> Idle \cup Saving \cup Storing \cup {"finish"}] BY DEF RunInv, RunTypes
<1>8. pc'[r] = "finish" BY <1>3, <1>7 DEF Goes
<1>9. WorkIs(r)' /\ PlanIs(r)' BY <1>8 DEF WorkIs, PlanIs, Saving, Storing
<1>10. FinishIs(r)'
  <2>1. Unsaved(r)' = Unsaved(r) BY <1>3 DEF Unsaved
  <2>2. StartsWhole(Unsaved(r)) BY <1>1, UnsavedIs
  <2> QED BY <2>1, <2>2 DEF FinishIs, StartsWhole
<1>11. pc[r] \notin Idle /\ pc' = [pc EXCEPT ![r] = "finish"] BY <1>1, <1>3 DEF Goes, Saving, Idle
<1> QED BY <1>4, <1>6, <1>9, <1>10, <1>11, Assembled

LEMMA FinishStep == ASSUME RunInv, NEW r \in Runs, Finish(r) PROVE RunInv'
<1>1. pc[r] = "finish" BY DEF Finish
<1>2. log' = log \/ log' = log \o Unsaved(r) BY DEF Finish, SaveOk, SaveFails
<1> DEFINE s == [rs[r] EXCEPT !.saveFailed = TRUE]
<1>3. s \in RunStates /\ (rs' = rs \/ rs' = [rs EXCEPT ![r] = s])
  BY RunStateIs DEF Finish, RunStates
<1> HIDE DEF s
<1>4. /\ Goes(r, "ended") /\ latest' = latest /\ session' = session /\ plan' = plan /\ said' = said
  BY DEF Finish
<1>5. LogIs' /\ log' \in Seq(RealMessages) BY <1>1, <1>2, <1>4, SaveIs
<1>6. "ended" \in Idle BY DEF Idle
<1>7. RunTypes' BY <1>3, <1>4, <1>5, <1>6, RunTypesKept DEF RunInv
<1>8. pc \in [Runs -> Idle \cup Saving \cup Storing \cup {"finish"}] BY DEF RunInv, RunTypes
<1>9. pc'[r] = "ended" BY <1>4, <1>8 DEF Goes
<1>10. WorkIs(r)' /\ PlanIs(r)' /\ FinishIs(r)' BY <1>9 DEF WorkIs, PlanIs, FinishIs, Saving, Storing
<1>11. pc[r] \notin Idle /\ pc' = [pc EXCEPT ![r] = "ended"] BY <1>1, <1>4 DEF Goes, Idle
<1> QED BY <1>5, <1>7, <1>10, <1>11, Assembled

LEMMA CheckpointSavedStep == ASSUME RunInv, NEW r \in Runs, CheckpointSaved(r) PROVE RunInv'
<1> DEFINE R == RealMessages
           s == SavedUpTo(rs[r], Len(session[r]))
<1>1. pc[r] = "checkpoint" /\ pc[r] \in Saving /\ pc[r] \notin Storing BY DEF CheckpointSaved, Saving, Storing
<1>2. /\ session[r] \in Seq(R) /\ TailOf(r) \in Seq(R) /\ Fresh(r) \in Seq(R) /\ log \in Seq(R)
      /\ TailStart(r) \in 0 .. Len(session[r]) /\ Unsaved(r) = Fresh(r)
  BY <1>1, WorkFacts
<1>3. log' = log \o Fresh(r) BY <1>2 DEF CheckpointSaved, SaveOk
<1>4. Goes(r, "loop") /\ latest' = latest /\ session' = session /\ plan' = plan /\ said' = said
  BY DEF CheckpointSaved
<1>5. /\ s \in RunStates /\ rs' = [rs EXCEPT ![r] = s]
      /\ s.snapshot = rs[r].snapshot /\ s.savedTo = Len(session[r])
  <2>1. Len(session[r]) \in Nat /\ rs[r] \in RunStates BY <1>2, RunStateIs
  <2> QED BY <2>1, RunStateIs DEF CheckpointSaved, SavedUpTo, RunStates
<1> HIDE DEF s
<1>6. LogIs' /\ log' \in Seq(R) BY <1>1, <1>2, <1>3, <1>4, SaveIs
<1>7. "loop" \in Saving /\ "loop" \notin Storing BY DEF Saving, Storing
<1>8. RunTypes' BY <1>4, <1>5, <1>6, <1>7, RunTypesKept DEF RunInv
<1>9. pc'[r] = "loop"
  <2>1. pc \in [Runs -> Idle \cup Saving \cup Storing \cup {"finish"}] BY DEF RunInv, RunTypes
  <2> QED BY <1>4, <2>1 DEF Goes
<1>10. PICK before \in Seq(R) :
          /\ log \o Fresh(r) = before \o TailOf(r)
          /\ Said(before) = Recorded(rs[r].snapshot) /\ Covered(latest) <= Len(before)
  BY <1>1 DEF RunInv, WorkIs, Given
<1>11. rs'[r].snapshot = rs[r].snapshot /\ rs'[r].savedTo = Len(session[r])
  BY <1>5, RunStateIs
<1>12. TailStart(r)' = TailStart(r) BY <1>11 DEF TailStart
<1>13. TailOf(r)' = TailOf(r) BY <1>4, <1>12 DEF TailOf
<1>14. Fresh(r)' = <<>>
  <2>1. Fresh(r)' = SubSeq(session[r], Len(session[r]) + 1, Len(session[r])) BY <1>4, <1>11 DEF Fresh
  <2>2. Len(session[r]) \in Nat BY <1>2
  <2> QED BY <2>1, <2>2, SubSeqEmpty
<1>15. Given(r)' = before \o TailOf(r)'
  <2>1. Given(r)' = log' \o <<>> BY <1>7, <1>9, <1>14 DEF Given
  <2>2. log' \o <<>> = log' BY <1>6, ConcatEmptySeq
  <2> QED BY <1>3, <1>10, <1>13, <2>1, <2>2
<1>16. WorkIs(r)'
  <2>1. StartsWhole(Fresh(r))' BY <1>14 DEF StartsWhole
  <2>2. rs'[r].savedTo \in TailStart(r)' .. Len(session'[r]) BY <1>2, <1>4, <1>11, <1>12
  <2>3. (Covered(latest) <= Len(before))' BY <1>4, <1>10 DEF Covered
  <2>4. Said(before) = Recorded(rs[r].snapshot)' BY <1>10, <1>11 DEF Recorded
  <2>5. session'[r] \in Seq(R) BY <1>2, <1>4
  <2> QED BY <1>15, <2>1, <2>2, <2>3, <2>4, <2>5 DEF WorkIs
<1>17. PlanIs(r)' /\ FinishIs(r)' BY <1>9 DEF PlanIs, FinishIs, Storing
<1>18. pc[r] \notin Idle /\ pc' = [pc EXCEPT ![r] = "loop"] BY <1>1, <1>4 DEF Goes, Idle
<1> QED BY <1>6, <1>8, <1>16, <1>17, <1>18, Assembled

-----------------------------------------------------------------------------
(* Compactions. *)

LEMMA CompactPlanStep == ASSUME RunInv, NEW r \in Runs, CompactPlan(r) PROVE RunInv'
<1> DEFINE R == RealMessages
           tail == TailOf(r)
           previous == rs[r].snapshot
<1>1. pc[r] = "compact" /\ pc[r] \in Saving /\ "compactSave" \in Saving BY DEF CompactPlan, Saving
<1>2. UNCHANGED <<log, latest, session, said>> BY DEF CompactPlan
<1>3. tail \in Seq(R) /\ Len(tail) \in Nat BY <1>1, WorkFacts
<1>4. plan[r].next \in {"llm", "loop"} BY <1>1 DEF RunInv, PlanIs
<1>5. PICK k \in 0 .. Len(tail) :
          LET split == SplitPoint(tail, k)
              older == SubSeq(tail, 1, split)
              kept == SubSeq(tail, split + 1, Len(tail))
          IN  IF split = 0
              THEN Continue(r, rs[r])
              ELSE /\ plan' = [plan EXCEPT ![r] =
                         [next |-> @.next, kept |-> kept, upTo |-> -1,
                          snapshot |->
                              [of |-> StandsFor(previous, older),
                               pinned |-> Pinned(older, kept, previous), upTo |-> -1]]]
                   /\ Goes(r, "compactSave")
                   /\ UNCHANGED rs
  BY DEF CompactPlan
<1> DEFINE split == SplitPoint(tail, k)
           older == SubSeq(tail, 1, split)
           kept == SubSeq(tail, split + 1, Len(tail))
<1>6. k \in Int BY <1>3
<1> HIDE DEF tail, R
<1>7. split \in 0 .. Len(tail) /\ (split < Len(tail) => ~tail[split + 1].tool)
  BY <1>3, <1>6, SplitPointIs
<1>8. CASE split = 0
  <2>1. Continue(r, rs[r]) BY <1>5, <1>8
  <2> DEFINE s == IF plan[r].next = "llm" THEN Counted(rs[r]) ELSE rs[r]
  <2>2. s \in RunStates /\ s.snapshot = rs[r].snapshot /\ s.savedTo = rs[r].savedTo
    BY RunStateIs, CountedIs
  <2>3. rs' = [rs EXCEPT ![r] = s] /\ plan' = [plan EXCEPT ![r] = NoPlan] /\ Goes(r, plan[r].next)
    BY <2>1 DEF Continue
  <2> HIDE DEF s
  <2>4. NoPlan \in Plans BY DEF NoPlan, Plans
  <2>5. plan[r].next \in Saving \cup {"finish"} /\ plan[r].next # "compact" /\ plan[r].next # "compactSave"
    BY <1>4 DEF Saving
  <2> QED BY <1>1, <1>2, <2>2, <2>3, <2>4, <2>5, QuietStep
<1>9. CASE split # 0
  <2> DEFINE new == [of |-> StandsFor(previous, older), pinned |-> Pinned(older, kept, previous), upTo |-> -1]
             p == [next |-> plan[r].next, kept |-> kept, upTo |-> -1, snapshot |-> new]
  <2>1. /\ older \in Seq(R) /\ kept \in Seq(R) /\ Len(kept) = Len(tail) - split
        /\ tail = older \o kept
    BY <1>3, <1>7, EndOf
  <2>2. plan' = [plan EXCEPT ![r] = p] /\ Goes(r, "compactSave") /\ rs' = rs
    BY <1>5, <1>9 DEF tail
  <2>3. StartsWhole(kept)
    <3>1. ASSUME kept # <<>> PROVE ~kept[1].tool
      <4>1. split < Len(tail)
        <5>1. Len(kept) # 0 BY <2>1, <3>1
        <5> QED BY <1>3, <1>7, <2>1, <5>1
      <4>2. kept[1] = tail[split + 1] BY <1>3, <1>7, <4>1
      <4> QED BY <1>7, <4>1, <4>2
    <3> QED BY <3>1 DEF StartsWhole
  <2>4. previous \in Snapshots \cup {NoSnapshot} BY TailStartIs DEF RunInv
  <2>5. StandsFor(previous, older) = Recorded(previous) \o Said(older) BY DEF StandsFor, Recorded
  <2>6. Recorded(previous) \in Seq(MessageIds) BY <2>4 DEF Recorded, Snapshots
  <2>7. Said(older) \in Seq(MessageIds) BY <2>1, RealSaid DEF R
  <2>8. StandsFor(previous, older) \in Seq(MessageIds) BY <2>5, <2>6, <2>7, ConcatProperties
  <2>9. Pinned(older, kept, previous) \in Seq(R) BY <2>1, <2>4, PinnedIsReal DEF R
  <2>10. new \in Snapshots /\ new.of = Recorded(previous) \o Said(older)
    <3> HIDE DEF older, kept, previous
    <3> QED BY <2>5, <2>8, <2>9 DEF Snapshots, R
  <2> HIDE DEF new
  <2>11. p \in FullPlans
    <3> HIDE DEF older, kept, previous
    <3> QED BY <1>4, <2>1, <2>10 DEF FullPlans, R
  <2>12. p \in Plans /\ p.kept = kept /\ p.snapshot = new BY <2>11 DEF Plans
  <2> HIDE DEF older, kept, previous, p
  <2>13. plan'[r] = p BY <2>2, RunStateIs
  <2>14. pc'[r] = "compactSave"
    <3>1. pc \in [Runs -> Idle \cup Saving \cup Storing \cup {"finish"}] BY DEF RunInv, RunTypes
    <3> QED BY <2>2, <3>1 DEF Goes
  <2>15. RunTypes'
    <3>1. log' \in Seq(RealMessages) BY <1>2 DEF RunInv, RunTypes
    <3> QED BY <1>1, <1>2, <2>2, <2>12, <3>1, RunTypesKept DEF RunInv
  <2>16. LogIs' /\ WorkIs(r)' /\ FinishIs(r)'
    <3>1. <<>> \in Seq(RealMessages) /\ StartsWhole(<<>>) BY DEF StartsWhole
    <3>2. session[r] \in Seq(RealMessages) BY <1>1, WorkFacts
    <3>3. session'[r] = session[r] \o <<>> BY <1>2, <3>2, ConcatEmptySeq
    <3> QED BY <1>1, <1>2, <2>2, <2>14, <3>1, <3>3, Works
  <2>17. PlanIs(r)'
    <3>1. TailOf(r)' = tail BY <1>2, <2>2 DEF TailOf, TailStart, tail
    <3>2. TailOf(r)' = older \o plan'[r].kept /\ plan'[r].snapshot.of = Recorded(rs[r].snapshot)' \o Said(older)
      BY <2>1, <2>2, <2>10, <2>12, <2>13, <3>1 DEF Recorded, previous
    <3>3. plan'[r] \in FullPlans /\ StartsWhole(plan[r].kept)'
      BY <2>3, <2>11, <2>12, <2>13 DEF StartsWhole
    <3> QED BY <2>1, <2>14, <3>2, <3>3 DEF PlanIs, R
  <2>18. pc[r] \notin Idle /\ pc' = [pc EXCEPT ![r] = "compactSave"] BY <1>1, <2>2 DEF Goes, Idle
  <2> QED BY <2>15, <2>16, <2>17, <2>18, Assembled
<1> QED BY <1>8, <1>9

LEMMA CompactSavedStep == ASSUME RunInv, NEW r \in Runs, CompactSaved(r) PROVE RunInv'
<1> DEFINE R == RealMessages
<1>1. /\ pc[r] = "compactSave" /\ pc[r] \in Saving /\ pc[r] \notin Storing
      /\ "compactLoad" \in Storing
  BY DEF CompactSaved, Saving, Storing
<1>2. Unsaved(r) = Fresh(r) BY <1>1, WorkFacts
<1>3. log' = log \o Unsaved(r) /\ log' = log \o Fresh(r) BY <1>2 DEF CompactSaved, SaveOk
<1>4. /\ Goes(r, "compactLoad") /\ latest' = latest /\ session' = session /\ rs' = rs /\ plan' = plan
      /\ said' = said
  BY DEF CompactSaved
<1>5. LogIs' /\ log' \in Seq(R) BY <1>1, <1>3, <1>4, SaveIs
<1>6. RunTypes' BY <1>1, <1>4, <1>5, RunTypesKept DEF RunInv
<1>7. pc'[r] = "compactLoad"
  <2>1. pc \in [Runs -> Idle \cup Saving \cup Storing \cup {"finish"}] BY DEF RunInv, RunTypes
  <2> QED BY <1>4, <2>1 DEF Goes
<1>8. WorkIs(r)'
  <2>1. Given(r)' = Given(r) BY <1>1, <1>3, <1>7 DEF Given
  <2>2. TailOf(r)' = TailOf(r) /\ TailStart(r)' = TailStart(r) /\ Fresh(r)' = Fresh(r)
    BY <1>4 DEF TailOf, TailStart, Fresh
  <2>3. WorkIs(r) BY DEF RunInv
  <2> QED BY <1>1, <1>4, <2>1, <2>2, <2>3 DEF WorkIs, Recorded, Covered, StartsWhole
<1>9. PlanIs(r)'
  <2>1. TailOf(r)' = TailOf(r) BY <1>4 DEF TailOf, TailStart
  <2>2. PlanIs(r) BY DEF RunInv
  <2> QED BY <1>1, <1>4, <1>7, <2>1, <2>2 DEF PlanIs, Recorded, StartsWhole
<1>10. FinishIs(r)' BY <1>7 DEF FinishIs
<1>11. pc[r] \notin Idle /\ pc' = [pc EXCEPT ![r] = "compactLoad"] BY <1>1, <1>4 DEF Goes, Idle
<1> QED BY <1>5, <1>6, <1>8, <1>9, <1>10, <1>11, Assembled

\* What a compaction has taken apart, when it is stored.
LEMMA StoringFacts ==
    ASSUME RunInv, NEW r \in Runs, pc[r] \in Storing
    PROVE  /\ plan[r] \in FullPlans /\ StartsWhole(plan[r].kept) /\ plan[r].kept \in Seq(RealMessages)
           /\ plan[r].snapshot \in Snapshots
           /\ \E before, older \in Seq(RealMessages) :
                  /\ TailOf(r) = older \o plan[r].kept
                  /\ log = before \o TailOf(r)
                  /\ log = (before \o older) \o plan[r].kept
                  /\ before \o older \in Seq(RealMessages)
                  /\ Len(before \o older) = Len(before) + Len(older)
                  /\ Len(log) = Len(before) + Len(older) + Len(plan[r].kept)
                  /\ Said(before \o older) = plan[r].snapshot.of
                  /\ Covered(latest) <= Len(before)
<1> DEFINE R == RealMessages
           kept == plan[r].kept
<1>1. PICK before \in Seq(R) : /\ log = before \o TailOf(r)
                               /\ Said(before) = Recorded(rs[r].snapshot)
                               /\ Covered(latest) <= Len(before)
  BY DEF RunInv, WorkIs, Given
<1>2. plan[r] \in FullPlans /\ StartsWhole(kept) BY DEF RunInv, PlanIs
<1>3. PICK older \in Seq(R) : /\ TailOf(r) = older \o kept
                              /\ plan[r].snapshot.of = Recorded(rs[r].snapshot) \o Said(older)
  BY DEF RunInv, PlanIs
<1>4. kept \in Seq(R) /\ plan[r].snapshot \in Snapshots BY <1>2 DEF FullPlans
<1> HIDE DEF kept
<1>5. log = (before \o older) \o kept
  <2>1. (before \o older) \o kept = before \o (older \o kept) BY <1>4, RealJoined
  <2> QED BY <1>1, <1>3, <2>1
<1>6. before \o older \in Seq(R) /\ Len(before \o older) = Len(before) + Len(older) BY CutAt
<1>7. Len(log) = Len(before \o older) + Len(kept) BY <1>4, <1>5, <1>6, CutAt
<1>8. Said(before \o older) = Said(before) \o Said(older) BY RealSaid
<1>9. Said(before \o older) = plan[r].snapshot.of BY <1>1, <1>3, <1>8
<1> QED BY <1>1, <1>2, <1>3, <1>4, <1>5, <1>6, <1>7, <1>9 DEF kept

\* The session that a compaction leaves.
LEMMA NewSession ==
    ASSUME NEW s \in Snapshots \cup {NoSnapshot}, NEW kept \in Seq(RealMessages)
    PROVE  LET new == <<System>> \o SummaryMessages(s) \o kept
               front == 1 + Len(SummaryMessages(s))
           IN  /\ new \in Seq(RealMessages) /\ Len(new) \in Nat /\ front \in Nat
               /\ Len(new) = front + Len(kept) /\ Len(new) \in front .. Len(new)
               /\ SubSeq(new, 1, front) = <<System>> \o SummaryMessages(s)
               /\ SubSeq(new, front + 1, Len(new)) = kept
<1> DEFINE a == <<System>> \o SummaryMessages(s)
           n == 1 + Len(SummaryMessages(s))
           new == a \o kept
<1>1. a \in Seq(RealMessages) /\ Len(a) = n /\ n \in Nat BY SummaryReal
<1> HIDE DEF a, n, new
<1>2. /\ a \o kept \in Seq(RealMessages) /\ Len(a \o kept) = Len(a) + Len(kept)
      /\ SubSeq(a \o kept, 1, Len(a)) = a
      /\ SubSeq(a \o kept, Len(a) + 1, Len(a \o kept)) = kept
  BY <1>1, RealCut
<1>3. /\ new \in Seq(RealMessages) /\ Len(new) = n + Len(kept)
      /\ SubSeq(new, 1, n) = a /\ SubSeq(new, n + 1, Len(new)) = kept
  BY <1>1, <1>2 DEF new
<1>4. Len(kept) \in Nat OBVIOUS
<1>5. Len(new) \in Nat /\ Len(new) \in n .. Len(new) BY <1>1, <1>3, <1>4
<1> QED BY <1>1, <1>3, <1>5 DEF a, n, new

\* The session is replaced.
LEMMA CompactedStep ==
    ASSUME NoSnapshot \notin Snapshots,
           RunInv, NEW r \in Runs, pc[r] \in Storing,
           NEW stored \in Snapshots \cup {NoSnapshot}, Compacted(r, stored),
           log' = log, said' = said, latest' \in Snapshots \cup {NoSnapshot}, LogIs',
           Covered(latest') <= Len(log) - Len(plan[r].kept)
    PROVE  RunInv'
<1> DEFINE R == RealMessages
           kept == plan[r].kept
           snapshot == plan[r].snapshot
           new == <<System>> \o SummaryMessages(snapshot) \o kept
           s == SavedUpTo([rs[r] EXCEPT !.snapshot = snapshot, !.stored = stored], Len(new))
           t == IF plan[r].next = "llm" THEN Counted(s) ELSE s
<1>1. kept \in Seq(R) /\ snapshot \in Snapshots /\ StartsWhole(kept) /\ plan[r].next \in {"llm", "loop"}
  BY StoringFacts DEF FullPlans
<1>2. PICK before \in Seq(R), older \in Seq(R) :
          /\ log = (before \o older) \o kept /\ before \o older \in Seq(R)
          /\ Len(before \o older) = Len(before) + Len(older)
          /\ Len(log) = Len(before) + Len(older) + Len(kept)
          /\ Said(before \o older) = snapshot.of
  BY StoringFacts
<1>3. session' = [session EXCEPT ![r] = new] /\ Continue(r, s) BY DEF Compacted
<1>5. /\ new \in Seq(R) /\ new \in Seq(AnyMessages) /\ Len(new) \in Nat
      /\ Len(new) \in 1 + Len(SummaryMessages(snapshot)) .. Len(new)
      /\ SubSeq(new, 1 + Len(SummaryMessages(snapshot)) + 1, Len(new)) = kept
  BY <1>1, NewSession, RealAreMessages
<1> HIDE DEF new
<1>6. s \in RunStates /\ s.snapshot = snapshot /\ s.savedTo = Len(new)
  BY <1>1, <1>5, RunStateIs DEF SavedUpTo, RunStates
<1> HIDE DEF s
<1>7. t \in RunStates /\ t.snapshot = snapshot /\ t.savedTo = Len(new) BY <1>6, CountedIs
<1>8. rs' = [rs EXCEPT ![r] = t] /\ plan' = [plan EXCEPT ![r] = NoPlan] /\ Goes(r, plan[r].next)
  BY <1>3 DEF Continue
<1> HIDE DEF t
<1>9. plan[r].next \in Saving /\ plan[r].next # "compact" /\ plan[r].next # "compactSave"
  BY <1>1 DEF Saving
<1>10. RunTypes'
  <2>1. log' \in Seq(RealMessages) BY DEF RunInv, RunTypes
  <2>2. NoPlan \in Plans BY DEF NoPlan, Plans
  <2> QED BY <1>3, <1>5, <1>7, <1>8, <1>9, <2>1, <2>2, RunTypesKept DEF RunInv
<1>11. rs'[r] = t /\ pc'[r] = plan[r].next /\ session'[r] = new
  <2>1. /\ pc \in [Runs -> Idle \cup Saving \cup Storing \cup {"finish"}]
        /\ session \in [Runs -> MessagesType] /\ rs \in [Runs -> RunStates]
    BY DEF RunInv, RunTypes
  <2> QED BY <1>3, <1>8, <2>1 DEF Goes
<1>12. TailStart(r)' = 1 + Len(SummaryMessages(snapshot)) BY <1>7, <1>11 DEF TailStart, SummaryMessages
<1>13. TailOf(r)' = kept BY <1>5, <1>11, <1>12 DEF TailOf
<1>14. Fresh(r)' = <<>>
  <2>1. Fresh(r)' = SubSeq(new, Len(new) + 1, Len(new)) BY <1>7, <1>11 DEF Fresh
  <2> QED BY <1>5, <2>1, SubSeqEmpty
<1>15. Given(r)' = (before \o older) \o TailOf(r)'
  <2>1. pc'[r] \notin Storing BY <1>9, <1>11 DEF Storing, Saving
  <2>2. Given(r)' = log \o <<>> BY <1>14, <2>1 DEF Given
  <2>3. log \in Seq(R) BY DEF RunInv, RunTypes
  <2>4. log \o <<>> = log BY <2>3, ConcatEmptySeq
  <2> QED BY <1>2, <1>13, <2>2, <2>4
<1>16. WorkIs(r)'
  <2>1. StartsWhole(Fresh(r))' BY <1>14 DEF StartsWhole
  <2>2. rs'[r].savedTo \in TailStart(r)' .. Len(session'[r])
    <3>1. rs'[r].savedTo = Len(new) /\ Len(session'[r]) = Len(new) BY <1>7, <1>11
    <3> QED BY <1>5, <1>12, <3>1
  <2>3. (Covered(latest) <= Len(before \o older))'
    <3>1. Len(before \o older) = Len(log) - Len(kept)
      <4>1. Len(before) \in Nat /\ Len(older) \in Nat /\ Len(kept) \in Nat BY <1>1
      <4> QED BY <1>2, <4>1
    <3>2. Covered(latest)' = Covered(latest') BY DEF Covered
    <3> QED BY <3>1, <3>2
  <2>4. Said(before \o older) = Recorded(rs[r].snapshot)'
    <3>1. snapshot # NoSnapshot BY <1>1
    <3> QED BY <1>2, <1>7, <1>11, <3>1 DEF Recorded
  <2>5. session'[r] \in Seq(R) BY <1>5, <1>11
  <2> QED BY <1>2, <1>15, <2>1, <2>2, <2>3, <2>4, <2>5 DEF WorkIs
<1>17. PlanIs(r)' /\ FinishIs(r)' BY <1>1, <1>11 DEF PlanIs, FinishIs, Storing
<1>18. pc[r] \notin Idle /\ pc' = [pc EXCEPT ![r] = plan[r].next] BY <1>8 DEF Goes, Idle, Storing
<1> QED BY <1>9, <1>10, <1>16, <1>17, <1>18, Assembled

\* The tail that is loaded is the rest of the log, with its cursors.
LEMMA LoadedTail ==
    ASSUME NEW head \in Seq(RealMessages), NEW rest \in Seq(RealMessages), log = head \o rest,
           latest \in Snapshots \cup {NoSnapshot}, Len(head) = Covered(latest), StartsWhole(rest)
    PROVE  Tail_(log, 0, latest)
               = [i \in 1 .. Len(rest) |-> [message |-> rest[i], cursor |-> Len(head) + i - 1]]
<1> DEFINE R == RealMessages
           n == Len(head)
           e(i) == [message |-> log[n + i], cursor |-> 0 + n + i - 1]
<1>1. /\ n \in Nat /\ Len(rest) \in Nat /\ log \in Seq(R) /\ Len(log) = n + Len(rest)
      /\ \A i \in 1 .. Len(rest) : log[n + i] = rest[i]
  <2>1. Len(head) \in Nat /\ Len(rest) \in Nat OBVIOUS
  <2>2. log \in Seq(R) /\ Len(log) = n + Len(rest) BY RealCut
  <2>3. \A i \in 1 .. Len(rest) : (head \o rest)[Len(head) + i] = rest[i] BY RealAt
  <2> QED BY <2>1, <2>2, <2>3
<1>2. SplitPoint(log, n) = n
  <2>1. CASE rest = <<>>
    <3>1. n = Len(log) /\ n \in Int BY <1>1, <2>1
    <3> HIDE DEF n
    <3> QED BY <1>1, <3>1, SplitPointIs
  <2>2. CASE rest # <<>>
    <3>1. Len(rest) > 0 BY <2>2
    <3>2. log[n + 1] = rest[1] /\ 0 <= n /\ n < Len(log) /\ n \in Int BY <1>1, <3>1
    <3>3. ~log[n + 1].tool BY <2>2, <3>2 DEF StartsWhole
    <3> HIDE DEF n
    <3> QED BY <1>1, <3>2, <3>3, SplitPointIs
  <2> QED BY <2>1, <2>2
<1>3. n = IF latest = NoSnapshot \/ latest.upTo + 1 < 0 THEN 0 ELSE latest.upTo + 1 - 0
  <2>1. latest # NoSnapshot => latest.upTo \in Int BY DEF Snapshots
  <2>2. latest # NoSnapshot => n = latest.upTo + 1 BY DEF Covered
  <2>3. latest = NoSnapshot => n = 0 BY DEF Covered
  <2> HIDE DEF n
  <2> QED BY <1>1, <2>1, <2>2, <2>3
<1> HIDE DEF n
<1>4. Tail_(log, 0, latest) = [i \in 1 .. Len(log) - n |-> e(i)] BY <1>2, <1>3 DEF Tail_
<1>5. Len(log) - n = Len(rest) BY <1>1
<1>6. ASSUME NEW i \in 1 .. Len(rest) PROVE e(i) = [message |-> rest[i], cursor |-> n + i - 1]
  <2>1. 0 + n + i - 1 = n + i - 1 BY <1>1
  <2> QED BY <1>1, <2>1
<1> HIDE DEF e
<1>7. [i \in 1 .. Len(rest) |-> e(i)]
          = [i \in 1 .. Len(rest) |-> [message |-> rest[i], cursor |-> n + i - 1]]
  BY <1>6
<1> QED BY <1>4, <1>5, <1>7 DEF n

\* The cursor of a compaction is of the last message it covers.
LEMMA CursorIs ==
    ASSUME RunInv, NEW r \in Runs, pc[r] = "compactLoad"
    PROVE  LET behind == Tail_(log, 0, latest)
               logged == Picked(behind, {i \in DOMAIN behind : behind[i].message.kind # "empty"})
               tail == Replayable(TailOf(r))
               covered == Len(Replayable(SubSeq(TailOf(r), 1, Len(TailOf(r)) - Len(plan[r].kept))))
               starts == {s \in 0 .. Len(logged) - Len(tail) :
                             \A i \in DOMAIN tail : logged[s + i].message = tail[i]}
               upTo == LastCovered(logged, Max(starts), covered)
           IN  covered > 0 => upTo \in Int /\ upTo + 1 = Len(log) - Len(plan[r].kept)
<1> DEFINE behind == Tail_(log, 0, latest)
           logged == Picked(behind, {i \in DOMAIN behind : behind[i].message.kind # "empty"})
           tail == Replayable(TailOf(r))
           covered == Len(Replayable(SubSeq(TailOf(r), 1, Len(TailOf(r)) - Len(plan[r].kept))))
           starts == {s \in 0 .. Len(logged) - Len(tail) :
                         \A i \in DOMAIN tail : logged[s + i].message = tail[i]}
           upTo == LastCovered(logged, Max(starts), covered)
<1> SUFFICES ASSUME covered > 0
             PROVE  upTo \in Int /\ upTo + 1 = Len(log) - Len(plan[r].kept)
  OBVIOUS
<1> DEFINE R == RealMessages
           kept == plan[r].kept
<1>1. pc[r] \in Storing BY DEF Storing
<1>2. kept \in Seq(R) /\ log \in Seq(R) /\ TailOf(r) \in Seq(R) BY <1>1, StoringFacts, WorkFacts
<1>3. PICK before \in Seq(R), older \in Seq(R) :
          /\ TailOf(r) = older \o kept /\ log = before \o TailOf(r)
          /\ Len(log) = Len(before) + Len(older) + Len(kept)
          /\ Covered(latest) <= Len(before)
  BY <1>1, StoringFacts
<1>4. PICK head \in Seq(R), rest \in Seq(R) :
          log = head \o rest /\ Len(head) = Covered(latest) /\ StartsWhole(rest)
  BY DEF RunInv, LogIs
<1>5. /\ Len(head) \in Nat /\ Len(rest) \in Nat /\ Len(before) \in Nat /\ Len(older) \in Nat
      /\ Len(kept) \in Nat
  BY <1>2
<1>6. Tail_(log, 0, latest)
          = [i \in 1 .. Len(rest) |-> [message |-> rest[i], cursor |-> Len(head) + i - 1]]
  <2>1. latest \in Snapshots \cup {NoSnapshot} BY DEF RunInv, RunTypes
  <2> QED BY <1>4, <2>1, LoadedTail
<1> DEFINE I == {i \in DOMAIN behind : behind[i].message.kind # "empty"}
           B == [message : R, cursor : Int]
<1>7. /\ behind \in Seq(B) /\ Len(behind) = Len(rest) /\ DOMAIN behind = 1 .. Len(rest)
      /\ \A i \in 1 .. Len(rest) : behind[i].message = rest[i] /\ behind[i].cursor = Len(head) + i - 1
  <2> DEFINE e(i) == [message |-> rest[i], cursor |-> Len(head) + i - 1]
  <2>1. ASSUME NEW i \in 1 .. Len(rest) PROVE e(i) \in B /\ e(i).message = rest[i] /\ e(i).cursor = Len(head) + i - 1
    <3>1. rest[i] \in R /\ Len(head) + i - 1 \in Int BY <1>5
    <3> HIDE DEF R
    <3> QED BY <3>1
  <2>2. behind = [i \in 1 .. Len(rest) |-> e(i)] BY <1>6
  <2> HIDE DEF e, behind, B
  <2>3. behind \in Seq(B) /\ Len(behind) = Len(rest) /\ DOMAIN behind = 1 .. Len(rest)
    <3>1. \A i \in 1 .. Len(rest) : e(i) \in B BY <2>1
    <3> QED BY <1>5, <2>2, <3>1
  <2>4. ASSUME NEW i \in 1 .. Len(rest)
        PROVE  behind[i].message = rest[i] /\ behind[i].cursor = Len(head) + i - 1
    <3>1. behind[i] = e(i) BY <2>2
    <3> QED BY <2>1, <3>1
  <2> QED BY <2>3, <2>4
<1>8. 1 .. Len(behind) \subseteq I
  <2>1. \A i \in 1 .. Len(rest) : rest[i].kind # "empty"
    <3>1. \A i \in 1 .. Len(rest) : rest[i] \in RealMessages BY <1>4
    <3> QED BY <3>1, RealAreMessages
  <2> HIDE DEF behind
  <2> QED BY <1>7, <2>1
<1>9. logged = behind
  <2>1. logged = Picked(behind, I) OBVIOUS
  <2> HIDE DEF behind, I, B, logged
  <2> QED BY <1>7, <1>8, <2>1, PickedAll
<1> HIDE DEF behind, I, B, logged
<1>10. tail = older \o kept /\ Len(tail) = Len(older) + Len(kept) /\ DOMAIN tail = 1 .. Len(tail)
  <2>1. tail = TailOf(r) BY <1>2, RealIsReplayable DEF tail
  <2>2. Len(older \o kept) = Len(older) + Len(kept) BY <1>2, RealCut
  <2>3. DOMAIN tail = 1 .. Len(tail) BY <1>2, <2>1, LenProperties
  <2> QED BY <1>3, <2>1, <2>2, <2>3
<1>11. covered = Len(older)
  <2>1. TailOf(r) = older \o kept /\ Len(TailOf(r)) - Len(kept) = Len(older)
    <3>1. Len(older \o kept) = Len(older) + Len(kept) BY <1>2, RealCut
    <3> QED BY <1>3, <1>5, <3>1
  <2>2. SubSeq(older \o kept, 1, Len(older)) = older BY <1>2, RealCut
  <2>3. Replayable(older) = older BY RealIsReplayable
  <2> QED BY <2>1, <2>2, <2>3
<1> DEFINE d == Len(before) - Len(head)
<1>12. before \o tail = head \o rest /\ tail \in Seq(R) BY <1>2, <1>3, <1>4, <1>10
<1>13. /\ Len(head) + Len(rest) = Len(before) + Len(tail)
       /\ \A i \in 1 .. Len(tail) : d + i \in 1 .. Len(rest) /\ rest[d + i] = tail[i]
  <2>1. head \o rest = before \o tail /\ Len(head) <= Len(before) BY <1>3, <1>4, <1>12
  <2>2. CutsTheSame(head, rest, before, tail) BY <1>12, RealShift
  <2> HIDE DEF tail
  <2> QED BY <2>1, <2>2 DEF CutsTheSame
<1>14. d \in Nat /\ d = Len(logged) - Len(tail) /\ Len(tail) \in Nat
  <2> DEFINE h == Len(head)
             q == Len(rest)
             b == Len(before)
             t == Len(tail)
  <2>1. h \in Nat /\ q \in Nat /\ b \in Nat /\ h <= b BY <1>3, <1>4, <1>5
  <2>2. t \in Nat BY <1>12
  <2>3. h + q = b + t /\ d = b - h /\ Len(logged) = q BY <1>7, <1>9, <1>13
  <2> HIDE DEF h, q, b, t, d
  <2>4. d \in Nat /\ d = q - t BY <2>1, <2>2, <2>3
  <2> QED BY <2>2, <2>3, <2>4 DEF q, t
<1> HIDE DEF d
<1>15. d \in starts
  <2>1. d \in 0 .. Len(logged) - Len(tail) BY <1>14
  <2>2. \A i \in DOMAIN tail : logged[d + i].message = tail[i] BY <1>7, <1>9, <1>10, <1>13
  <2> QED BY <2>1, <2>2
<1>16. Max(starts) = d
  <2>1. \A y \in starts : y \in Int /\ y <= d BY <1>14
  <2>2. \E x \in starts : \A y \in starts : x >= y BY <1>14, <1>15, <2>1
  <2>3. Max(starts) \in starts /\ \A y \in starts : Max(starts) >= y BY <2>2 DEF Max
  <2> DEFINE m == Max(starts)
  <2>4. m \in Int /\ m <= d /\ m >= d BY <1>15, <2>1, <2>3
  <2> HIDE DEF m
  <2>5. m = d BY <1>14, <2>4
  <2> QED BY <2>5 DEF m
<1>17. covered \in 1 .. Len(tail) BY <1>5, <1>10, <1>11
<1>18. LastCovered(logged, Max(starts), covered) = Len(head) + (d + covered) - 1
  <2>1. d + covered \in 1 .. Len(rest) BY <1>13, <1>17
  <2> QED BY <1>7, <1>9, <1>16, <2>1 DEF LastCovered
<1>19. Len(log) - Len(kept) = Len(before) + Len(older) BY <1>3, <1>5
<1> DEFINE l == LastCovered(logged, Max(starts), covered)
           h == Len(head)
           b == Len(before)
<1>20. h \in Nat /\ b \in Nat /\ covered \in Nat /\ d = b - h /\ d \in Nat BY <1>5, <1>11, <1>14 DEF d
<1>21. l = h + (d + covered) - 1 BY <1>18
<1> HIDE DEF l, h, b
<1>22. l \in Int /\ l + 1 = b + covered BY <1>20, <1>21
<1> QED BY <1>11, <1>19, <1>22 DEF l, b

\* The memory's snapshot covers no message that the session keeps.
LEMMA KeptIsBehind ==
    ASSUME RunInv, NEW r \in Runs, pc[r] \in Storing
    PROVE  Covered(latest) <= Len(log) - Len(plan[r].kept)
<1>1. PICK before \in Seq(RealMessages), older \in Seq(RealMessages) :
          /\ Len(log) = Len(before) + Len(older) + Len(plan[r].kept)
          /\ Covered(latest) <= Len(before)
  BY StoringFacts
<1>2. plan[r].kept \in Seq(RealMessages) BY StoringFacts
<1>3. Len(before) \in Nat /\ Len(older) \in Nat /\ Len(plan[r].kept) \in Nat BY <1>2
<1>4. latest \in Snapshots \cup {NoSnapshot} BY DEF RunInv, RunTypes
<1>5. Covered(latest) \in Int BY <1>4 DEF Covered, Snapshots
<1> QED BY <1>1, <1>3, <1>5

LEMMA CompactLoadStep ==
    ASSUME NoSnapshot \notin Snapshots, RunInv, NEW r \in Runs, CompactLoad(r) PROVE RunInv'
<1> DEFINE behind == Tail_(log, 0, latest)
           logged == Picked(behind, {i \in DOMAIN behind : behind[i].message.kind # "empty"})
           tail == Replayable(TailOf(r))
           covered == Len(Replayable(SubSeq(TailOf(r), 1, Len(TailOf(r)) - Len(plan[r].kept))))
           starts == {s \in 0 .. Len(logged) - Len(tail) :
                         \A i \in DOMAIN tail : logged[s + i].message = tail[i]}
           upTo == LastCovered(logged, Max(starts), covered)
           found == Same(latest, rs[r].stored) /\ covered > 0 /\ starts # {}
<1>1. pc[r] = "compactLoad" /\ pc[r] \in Storing BY DEF CompactLoad, Storing
<1>2. UNCHANGED <<log, latest, said>> BY DEF CompactLoad
<1>3. /\ found => /\ plan' = [plan EXCEPT ![r].upTo = upTo]
                  /\ Goes(r, "compactStore") /\ UNCHANGED <<session, rs>>
      /\ ~found => Compacted(r, rs[r].stored)
  BY DEF CompactLoad
<1>4. found => upTo \in Int /\ upTo + 1 = Len(log) - Len(plan[r].kept) BY <1>1, CursorIs
<1> HIDE DEF found, upTo, logged, tail, covered, starts
<1>5. LogIs' /\ log \in Seq(RealMessages) /\ latest \in Snapshots \cup {NoSnapshot}
  BY <1>2, LogKept DEF RunInv, RunTypes
<1>6. CASE ~found
  <2>1. rs[r].stored \in Snapshots \cup {NoSnapshot} BY RunStateIs DEF RunStates
  <2>2. Covered(latest') <= Len(log) - Len(plan[r].kept)
    <3>1. Covered(latest') = Covered(latest) BY <1>2 DEF Covered
    <3> QED BY <1>1, <3>1, KeptIsBehind
  <2> QED BY <1>1, <1>2, <1>3, <1>5, <1>6, <2>1, <2>2, CompactedStep
<1>7. CASE found
  <2> DEFINE p == [plan[r] EXCEPT !.upTo = upTo]
  <2>1. plan' = [plan EXCEPT ![r] = p] /\ Goes(r, "compactStore") /\ session' = session /\ rs' = rs
    BY <1>3, <1>7
  <2>2. /\ p \in FullPlans /\ p.kept = plan[r].kept /\ p.snapshot = plan[r].snapshot
        /\ p.upTo = upTo /\ p.next = plan[r].next
    <3>1. plan[r] \in FullPlans BY <1>1, StoringFacts
    <3> QED BY <1>4, <1>7, <3>1 DEF FullPlans
  <2> HIDE DEF p
  <2>3. p \in Plans BY <2>2 DEF Plans
  <2>4. "compactStore" \in Storing /\ "compactStore" \notin Saving BY DEF Storing, Saving
  <2>5. RunTypes' BY <1>2, <1>5, <2>1, <2>3, <2>4, RunTypesKept DEF RunInv
  <2>6. plan'[r] = p /\ pc'[r] = "compactStore"
    <3>1. /\ pc \in [Runs -> Idle \cup Saving \cup Storing \cup {"finish"}]
          /\ plan \in [Runs -> Plans]
      BY DEF RunInv, RunTypes
    <3> QED BY <2>1, <3>1 DEF Goes
  <2>7. TailOf(r)' = TailOf(r) /\ TailStart(r)' = TailStart(r) /\ Fresh(r)' = Fresh(r)
    BY <2>1 DEF TailOf, TailStart, Fresh
  <2>8. WorkIs(r)'
    <3>1. Given(r)' = Given(r) BY <1>1, <1>2, <2>4, <2>6 DEF Given
    <3>2. WorkIs(r) BY DEF RunInv
    <3> QED BY <1>1, <1>2, <2>1, <2>7, <3>1, <3>2 DEF WorkIs, Recorded, Covered, StartsWhole
  <2>9. PlanIs(r)'
    <3>1. /\ StartsWhole(plan[r].kept)
          /\ \E older \in Seq(RealMessages) :
                 /\ TailOf(r) = older \o plan[r].kept
                 /\ plan[r].snapshot.of = Recorded(rs[r].snapshot) \o Said(older)
      BY <1>1 DEF RunInv, PlanIs
    <3>2. /\ StartsWhole(plan[r].kept)'
          /\ \E older \in Seq(RealMessages) :
                 /\ TailOf(r)' = older \o plan'[r].kept
                 /\ plan'[r].snapshot.of = Recorded(rs[r].snapshot)' \o Said(older)
      BY <2>1, <2>2, <2>6, <2>7, <3>1 DEF StartsWhole, Recorded
    <3>3. plan'[r].upTo + 1 = Len(log') - Len(plan'[r].kept) BY <1>2, <1>4, <1>7, <2>2, <2>6
    <3> QED BY <2>2, <2>6, <3>2, <3>3 DEF PlanIs
  <2>10. FinishIs(r)' BY <2>6 DEF FinishIs
  <2>11. pc[r] \notin Idle /\ pc' = [pc EXCEPT ![r] = "compactStore"] BY <1>1, <2>1 DEF Goes, Idle
  <2> QED BY <1>5, <2>5, <2>8, <2>9, <2>10, <2>11, Assembled
<1> QED BY <1>6, <1>7

LEMMA CompactStoreFailsStep ==
    ASSUME NoSnapshot \notin Snapshots, RunInv, NEW r \in Runs, CompactStoreFails(r) PROVE RunInv'
<1>1. pc[r] \in Storing BY DEF CompactStoreFails, Storing
<1>2. Compacted(r, rs[r].stored) /\ log' = log /\ latest' = latest /\ said' = said
  BY DEF CompactStoreFails
<1>3. LogIs' /\ latest \in Snapshots \cup {NoSnapshot} BY <1>2, LogKept DEF RunInv, RunTypes
<1>4. rs[r].stored \in Snapshots \cup {NoSnapshot} BY RunStateIs DEF RunStates
<1>5. Covered(latest') <= Len(log) - Len(plan[r].kept)
  <2>1. Covered(latest') = Covered(latest) BY <1>2 DEF Covered
  <2> QED BY <1>1, <2>1, KeptIsBehind
<1> QED BY <1>1, <1>2, <1>3, <1>4, <1>5, CompactedStep

\* The snapshot is stored: it stands for the log up to the messages kept.
LEMMA CompactStoreStep ==
    ASSUME NoSnapshot \notin Snapshots, RunInv, NEW r \in Runs, CompactStore(r) PROVE RunInv'
<1> DEFINE R == RealMessages
           snapshot == [plan[r].snapshot EXCEPT !.upTo = plan[r].upTo]
           kept == plan[r].kept
           ok == Cutoff(latest, rs[r].stored, plan[r].upTo, Len(log)) = "ok"
<1>1. pc[r] = "compactStore" /\ pc[r] \in Storing BY DEF CompactStore, Storing
<1>2. /\ log' = log /\ said' = said
      /\ ok => latest' = snapshot /\ Compacted(r, snapshot)
      /\ ~ok => latest' = latest /\ Compacted(r, rs[r].stored)
  BY DEF CompactStore
<1>3. /\ plan[r] \in FullPlans /\ plan[r].snapshot \in Snapshots /\ kept \in Seq(R)
      /\ StartsWhole(kept)
  BY <1>1, StoringFacts
<1>4. plan[r].upTo + 1 = Len(log) - Len(kept) BY <1>1 DEF RunInv, PlanIs
<1>5. /\ snapshot \in Snapshots /\ snapshot.of = plan[r].snapshot.of
      /\ snapshot.upTo = plan[r].upTo
  BY <1>3 DEF FullPlans, Snapshots
<1>6. latest \in Snapshots \cup {NoSnapshot} /\ rs[r].stored \in Snapshots \cup {NoSnapshot}
  <2>1. rs[r].stored \in Snapshots \cup {NoSnapshot} BY RunStateIs DEF RunStates
  <2> QED BY <2>1 DEF RunInv, RunTypes
<1> HIDE DEF ok, snapshot
<1>7. CASE ok
  <2>1. PICK before \in Seq(R), older \in Seq(R) :
            /\ log = (before \o older) \o kept /\ before \o older \in Seq(R)
            /\ Len(before \o older) = Len(before) + Len(older)
            /\ Len(log) = Len(before) + Len(older) + Len(kept)
            /\ Said(before \o older) = plan[r].snapshot.of
    BY <1>1, StoringFacts
  <2>2. Len(before) \in Nat /\ Len(older) \in Nat /\ Len(kept) \in Nat BY <1>3
  <2>3. Len(before \o older) = Len(log) - Len(kept) BY <2>1, <2>2
  <2>4. Covered(latest') = Len(log) - Len(kept) /\ Recorded(latest') = plan[r].snapshot.of
    <3>1. latest' = snapshot /\ snapshot # NoSnapshot BY <1>2, <1>5, <1>7
    <3> QED BY <1>4, <1>5, <3>1 DEF Covered, Recorded
  <2>5. LogIs'
    <3>1. /\ log' = (before \o older) \o kept
          /\ Len(before \o older) = Covered(latest') /\ Said(before \o older) = Recorded(latest')
      BY <1>2, <2>1, <2>3, <2>4
    <3> QED BY <1>3, <2>1, <3>1 DEF LogIs, StartsWhole, Covered, Recorded
  <2>6. Covered(latest') <= Len(log) - Len(kept)
    <3> DEFINE n == Len(log) - Len(kept)
    <3>1. n \in Int BY <2>1, <2>2
    <3>2. Covered(latest') = n BY <2>4
    <3> HIDE DEF n
    <3>3. Covered(latest') <= n BY <3>1, <3>2
    <3> QED BY <3>3 DEF n
  <2>7. Compacted(r, snapshot) /\ latest' \in Snapshots \cup {NoSnapshot} BY <1>2, <1>5, <1>7
  <2> QED BY <1>1, <1>2, <1>5, <2>5, <2>6, <2>7, CompactedStep
<1>8. CASE ~ok
  <2>1. Compacted(r, rs[r].stored) /\ latest' = latest BY <1>2, <1>8
  <2>2. LogIs' BY <1>2, <2>1, LogKept DEF RunInv
  <2>3. Covered(latest') <= Len(log) - Len(kept)
    <3>1. Covered(latest') = Covered(latest) BY <2>1 DEF Covered
    <3> QED BY <1>1, <3>1, KeptIsBehind
  <2> QED BY <1>1, <1>2, <1>6, <2>1, <2>2, <2>3, CompactedStep
<1> QED BY <1>7, <1>8

-----------------------------------------------------------------------------
(* The start of a run, and the theorem. *)

\* A run that nothing changes.
LEMMA StillIdle ==
    ASSUME RunInv, NEW q \in Runs, pc'[q] = pc[q],
           UNCHANGED <<log, latest, session, rs, plan, said>>
    PROVE  (WorkIs(q) /\ PlanIs(q) /\ FinishIs(q))'
<1>1. WorkIs(q) /\ PlanIs(q) /\ FinishIs(q) BY DEF RunInv
<1>2. /\ TailStart(q)' = TailStart(q) /\ TailOf(q)' = TailOf(q) /\ Fresh(q)' = Fresh(q)
      /\ Unsaved(q)' = Unsaved(q)
  BY DEF TailStart, TailOf, Fresh, Unsaved
<1>3. Given(q)' = Given(q) BY <1>2 DEF Given
<1>4. WorkIs(q)' BY <1>1, <1>2, <1>3 DEF WorkIs, StartsWhole, Recorded, Covered
<1>5. PlanIs(q)' BY <1>1, <1>2 DEF PlanIs, StartsWhole, Recorded
<1>6. FinishIs(q)' BY <1>1, <1>2 DEF FinishIs, StartsWhole
<1> QED BY <1>4, <1>5, <1>6

LEMMA StartFailsStep == ASSUME RunInv, NEW r \in Runs, StartFails(r) PROVE RunInv'
<1>1. /\ pc[r] = "new" /\ Goes(r, "ended")
      /\ UNCHANGED <<log, latest, session, rs, plan, said>>
  BY DEF StartFails
<1>2. pc \in [Runs -> Idle \cup Saving \cup Storing \cup {"finish"}]
      /\ log \in Seq(RealMessages) /\ LogIs
  BY DEF RunInv, RunTypes
<1>3. "ended" \in Idle BY DEF Idle
<1>4. RunTypes' BY <1>1, <1>2, <1>3, RunTypesKept DEF RunInv
<1>5. LogIs' BY <1>1, <1>2, LogKept
<1>6. pc' = [pc EXCEPT ![r] = "ended"] /\ pc'[r] = "ended" /\ pc[r] \in Idle
  BY <1>1, <1>2 DEF Goes, Idle
<1>7. OneAtATime'
  <2>1. \A q \in Runs : pc'[q] \notin Idle => pc[q] \notin Idle BY <1>2, <1>3, <1>6
  <2>2. OneAtATime BY DEF RunInv
  <2> QED BY <2>1, <2>2 DEF OneAtATime
<1>8. ASSUME NEW q \in Runs PROVE (WorkIs(q) /\ PlanIs(q) /\ FinishIs(q))'
  <2>1. CASE q = r BY <1>6, <2>1 DEF WorkIs, PlanIs, FinishIs, Saving, Storing
  <2>2. CASE q # r
    <3>1. pc'[q] = pc[q] BY <1>2, <1>6, <2>2
    <3> QED BY <1>1, <3>1, StillIdle
  <2> QED BY <2>1, <2>2
<1> QED BY <1>4, <1>5, <1>7, <1>8 DEF RunInv

\* The session is built from the summary and the rest of the log.
LEMMA StartStep == ASSUME ~Concurrent, RunInv, NEW r \in Runs, Start(r) PROVE RunInv'
<1> DEFINE R == RealMessages
           behind == Tail_(log, 0, latest)
           front == <<System>> \o SummaryMessages(latest)
<1>1. /\ pc[r] = "new" /\ Goes(r, "loop") /\ \A q \in Runs : pc[q] \in Idle
      /\ log' = log /\ latest' = latest /\ plan' = plan
  BY DEF Start, Idle
<1>2. PICK head \in Seq(R), rest \in Seq(R) :
          /\ log = head \o rest
          /\ Len(head) = Covered(latest) /\ Said(head) = Recorded(latest)
          /\ StartsWhole(rest)
  BY DEF RunInv, LogIs
<1>3. log \in Seq(R) /\ latest \in Snapshots \cup {NoSnapshot} /\ LogIs BY DEF RunInv, RunTypes
<1>4. [i \in DOMAIN behind |-> behind[i].message] = rest
  <2> DEFINE e(i) == [message |-> rest[i], cursor |-> Len(head) + i - 1]
  <2>1. behind = [i \in 1 .. Len(rest) |-> e(i)] BY <1>2, <1>3, LoadedTail
  <2>2. \A i \in 1 .. Len(rest) : e(i).message = rest[i] OBVIOUS
  <2> HIDE DEF behind, e
  <2>3. DOMAIN behind = 1 .. Len(rest) /\ \A i \in 1 .. Len(rest) : behind[i].message = rest[i]
    BY <2>1, <2>2
  <2>4. [i \in DOMAIN behind |-> behind[i].message] = [i \in 1 .. Len(rest) |-> rest[i]] BY <2>3
  <2>5. rest = [i \in 1 .. Len(rest) |-> rest[i]] OBVIOUS
  <2> QED BY <2>4, <2>5
<1>5. Replayable(rest) = rest BY RealIsReplayable
<1> DEFINE loaded == front \o rest
           new(input) == loaded \o input
           s == [rs[r] EXCEPT !.snapshot = latest, !.stored = latest, !.savedTo = Len(loaded)]
<1>6. PICK input \in {<<>>, <<Msg("user", r, 1)>>} :
          /\ session' = [session EXCEPT ![r] = new(input)]
          /\ said' = [said EXCEPT ![r] = input]
          /\ rs' = [rs EXCEPT ![r].snapshot = latest, ![r].stored = latest,
                              ![r].savedTo = Len(loaded)]
  <2> HIDE DEF front, behind
  <2> QED BY <1>4, <1>5 DEF Start, front, behind
<1>7. input \in Seq(R) /\ StartsWhole(input)
  <2> DEFINE m == Msg("user", r, 1)
  <2>1. m \in R /\ ~m.tool BY MsgReal
  <2> HIDE DEF m, R
  <2>2. input = <<>> \/ input = <<m>> BY <1>6 DEF m
  <2>3. CASE input = <<>>
    <3>1. <<>> \in Seq(R) OBVIOUS
    <3> QED BY <2>3, <3>1 DEF StartsWhole
  <2>4. CASE input = <<m>>
    <3>1. <<m>> \in Seq(R) /\ <<m>>[1] = m BY <2>1
    <3> QED BY <2>1, <2>4, <3>1 DEF StartsWhole
  <2> QED BY <2>2, <2>3, <2>4
<1>8. /\ front \in Seq(R) /\ Len(front) = 1 + Len(SummaryMessages(latest))
      /\ Len(SummaryMessages(latest)) \in Nat
  BY <1>3, SummaryReal
<1>9. rest \o input \in Seq(R) /\ head \o (rest \o input) = log \o input
  BY <1>2, <1>7, RealJoined, RealCut, ZenonT(30)
<1>10. new(input) = front \o (rest \o input)
  <2> HIDE DEF front
  <2> QED BY <1>7, <1>8, RealJoined
<1> DEFINE n == Len(front)
<1>11. /\ new(input) \in Seq(R) /\ n \in Nat /\ Len(new(input)) \in Nat
       /\ SubSeq(new(input), n + 1, Len(new(input))) = rest \o input
  <2> HIDE DEF front, loaded
  <2>1. /\ front \o (rest \o input) \in Seq(R)
        /\ SubSeq(front \o (rest \o input), Len(front) + 1, Len(front \o (rest \o input)))
               = rest \o input
    BY <1>8, <1>9, RealCut
  <2>2. Len(front) \in Nat /\ Len(new(input)) \in Nat BY <1>8, <1>10, <2>1
  <2> QED BY <1>10, <2>1, <2>2
<1>12. /\ SubSeq(new(input), Len(loaded) + 1, Len(new(input))) = input
       /\ Len(loaded) \in n .. Len(new(input)) /\ Len(loaded) \in Nat
  <2> HIDE DEF front
  <2>1. loaded \in Seq(R) /\ Len(loaded) = n + Len(rest) BY <1>8, RealCut
  <2> HIDE DEF loaded
  <2>2. /\ SubSeq(loaded \o input, Len(loaded) + 1, Len(loaded \o input)) = input
        /\ Len(loaded \o input) = Len(loaded) + Len(input)
    BY <1>7, <2>1, RealCut
  <2>3. Len(rest) \in Nat /\ Len(input) \in Nat /\ n \in Nat BY <1>7, <1>11
  <2>4. new(input) = loaded \o input BY DEF loaded
  <2> DEFINE b == Len(rest)
             c == Len(input)
             l == Len(loaded)
             z == Len(new(input))
  <2>5. l = n + b /\ z = l + c /\ n \in Nat /\ b \in Nat /\ c \in Nat BY <2>1, <2>2, <2>3, <2>4
  <2> HIDE DEF n, b, c, l, z
  <2>6. l \in n .. z /\ l \in Nat BY <2>5
  <2> HIDE DEF new
  <2>7. SubSeq(new(input), Len(loaded) + 1, Len(new(input))) = input BY <2>2, <2>4
  <2> QED BY <2>6, <2>7 DEF l, z
<1> HIDE DEF front, loaded, new, n
<1>13. s \in RunStates /\ s.snapshot = latest /\ s.savedTo = Len(loaded)
  BY <1>3, <1>12, RunStateIs DEF RunStates
<1>14. rs' = [rs EXCEPT ![r] = s]
  <2>1. rs \in [Runs -> RunStates] BY DEF RunInv, RunTypes
  <2> QED BY <1>6, <2>1
<1> HIDE DEF s
<1>15. RunTypes'
  <2>1. new(input) \in Seq(AnyMessages) BY <1>11, RealAreMessages
  <2>2. "loop" \in Saving BY DEF Saving
  <2> QED BY <1>1, <1>3, <1>6, <1>7, <1>13, <1>14, <2>1, <2>2, RunTypesKept DEF RunInv
<1>16. pc'[r] = "loop" /\ session'[r] = new(input) /\ rs'[r] = s
  <2>1. /\ pc \in [Runs -> Idle \cup Saving \cup Storing \cup {"finish"}]
        /\ session \in [Runs -> MessagesType] /\ rs \in [Runs -> RunStates]
    BY DEF RunInv, RunTypes
  <2> QED BY <1>1, <1>6, <1>14, <2>1 DEF Goes
<1>17. LogIs' BY <1>1, <1>3, LogKept
<1>18. WorkIs(r)'
  <2>1. TailStart(r)' = n BY <1>8, <1>13, <1>16 DEF TailStart, n, SummaryMessages
  <2>2. TailOf(r)' = rest \o input BY <1>11, <1>16, <2>1 DEF TailOf
  <2>3. Fresh(r)' = input BY <1>12, <1>13, <1>16 DEF Fresh
  <2>4. pc'[r] \notin Storing BY <1>16 DEF Storing
  <2>5. Given(r)' = head \o TailOf(r)' BY <1>1, <1>9, <2>2, <2>3, <2>4 DEF Given
  <2>6. StartsWhole(Fresh(r))' BY <1>7, <2>3 DEF StartsWhole
  <2>7. rs'[r].savedTo \in TailStart(r)' .. Len(session'[r]) BY <1>12, <1>13, <1>16, <2>1
  <2>8. Said(head) = Recorded(rs[r].snapshot)' BY <1>2, <1>13, <1>16 DEF Recorded
  <2>9. (Covered(latest) <= Len(head))'
    <3>1. Len(head) \in Nat /\ Covered(latest') = Len(head) BY <1>1, <1>2 DEF Covered
    <3> QED BY <3>1
  <2> QED BY <1>11, <1>16, <2>5, <2>6, <2>7, <2>8, <2>9 DEF WorkIs
<1>19. PlanIs(r)' /\ FinishIs(r)' BY <1>16 DEF PlanIs, FinishIs, Storing
<1>20. pc' = [pc EXCEPT ![r] = "loop"] BY <1>1 DEF Goes
<1> QED BY <1>1, <1>15, <1>17, <1>18, <1>19, <1>20, Assembled

LEMMA RunsStart == Init => RunInv
<1> SUFFICES ASSUME Init PROVE RunInv OBVIOUS
<1>1. /\ log = <<>> /\ latest = NoSnapshot /\ pc = [r \in Runs |-> "new"]
      /\ session = [r \in Runs |-> <<>>] /\ rs = [r \in Runs |-> NewRun]
      /\ plan = [r \in Runs |-> NoPlan] /\ said = [r \in Runs |-> <<>>]
  BY DEF Init
<1>2. <<>> \in Seq(RealMessages) /\ <<>> \in MessagesType BY RealAreMessages
<1>3. NewRun \in RunStates BY DEF NewRun, RunStates
<1>4. NoPlan \in Plans BY DEF NoPlan, Plans
<1>5. RunTypes BY <1>1, <1>2, <1>3, <1>4 DEF RunTypes, Idle
<1>6. \A r \in Runs : pc[r] \in Idle /\ pc[r] = "new" BY <1>1 DEF Idle
<1>7. LogIs
  <2>1. <<>> \o <<>> = <<>> /\ Len(<<>>) = 0 BY <1>2, ConcatEmptySeq
  <2>2. StartsWhole(<<>>) BY DEF StartsWhole
  <2>3. Covered(latest) = 0 /\ Recorded(latest) = <<>> BY <1>1 DEF Covered, Recorded
  <2>4. /\ log = <<>> \o <<>>
        /\ Len(<<>>) = Covered(latest) /\ Said(<<>>) = Recorded(latest)
    BY <1>1, <2>1, <2>3, SaidNothing
  <2> QED BY <1>2, <2>2, <2>4 DEF LogIs
<1>8. ASSUME NEW r \in Runs PROVE WorkIs(r) /\ PlanIs(r) /\ FinishIs(r)
  BY <1>6 DEF WorkIs, PlanIs, FinishIs, Saving, Storing
<1> QED BY <1>5, <1>6, <1>7, <1>8 DEF RunInv, OneAtATime

LEMMA RunsStep ==
    ASSUME ~Concurrent, NoSnapshot \notin Snapshots, RunInv, [Next]_vars PROVE RunInv'
<1>1. CASE UNCHANGED vars
  <2>1. UNCHANGED <<log, latest, pc, session, rs, plan, said>> BY <1>1 DEF vars
  <2>2. RunTypes' /\ OneAtATime' BY <2>1 DEF RunInv, RunTypes, OneAtATime
  <2>3. LogIs' BY <2>1, LogKept DEF RunInv
  <2>4. ASSUME NEW q \in Runs PROVE (WorkIs(q) /\ PlanIs(q) /\ FinishIs(q))'
    BY <2>1, StillIdle
  <2> QED BY <2>2, <2>3, <2>4 DEF RunInv
<1>2. ASSUME NEW r \in Runs, Start(r) PROVE RunInv' BY <1>2, StartStep
<1>3. ASSUME NEW r \in Runs, StartFails(r) PROVE RunInv' BY <1>3, StartFailsStep
<1>4. ASSUME NEW r \in Runs, Step(r) PROVE RunInv'
  BY <1>4, LoopEndsStep, LoopCompactsStep, LoopCallsStep, AnswersStep, CallsToolsStep,
     LLMFailsStep, ContextTooLongStep, CheckpointSavedStep, SaveEndsRunStep, FinishStep,
     CompactPlanStep, CompactFailsStep, CompactSavedStep, CompactLoadStep,
     CompactStoreFailsStep, CompactStoreStep
  DEF Step
<1> QED BY <1>1, <1>2, <1>3, <1>4 DEF Next

LEMMA RunsForgetNothing == RunInv => NothingForgotten
<1> SUFFICES ASSUME RunInv, latest # NoSnapshot
             PROVE  latest.of = Said(SubSeq(log, 1, latest.upTo + 1))
  BY DEF NothingForgotten
<1>1. PICK head \in Seq(RealMessages), rest \in Seq(RealMessages) :
          log = head \o rest /\ Len(head) = Covered(latest) /\ Said(head) = Recorded(latest)
  BY DEF RunInv, LogIs
<1>2. SubSeq(log, 1, Len(head)) = head BY <1>1, RealCut
<1> QED BY <1>1, <1>2 DEF Covered, Recorded

\* Runs in turn on a memory never lose a message of its log from the conversations
\* that start from its snapshot (compactSession, agent/agent.go; AppendSnapshot,
\* memory/snapshot.go), however many messages, runs, rounds, failed saves and
\* compactions there are.
THEOREM NothingIsForgotten ==
    ASSUME ~Concurrent, NoSnapshot \notin Snapshots
    PROVE  Spec => []NothingForgotten
<1>1. Init => RunInv BY RunsStart
<1>2. RunInv /\ [Next]_vars => RunInv' BY RunsStep
<1>3. RunInv => NothingForgotten BY RunsForgetNothing
<1> QED BY <1>1, <1>2, <1>3, PTL DEF Spec
=============================================================================
