------------------------------ MODULE HuntProofs ------------------------------
(* Theorems about the papers of a hunt and what is learned from it, for every *)
(* value of the constants: a scope adopted out of documents keeps what they   *)
(* exclude out, a readiness report is of one store, a request sent for an     *)
(* engagement carries its identity and nobody else's, what is handed over is  *)
(* what was bundled and of one target, the memory of hunts keeps the newest   *)
(* lines, and a recall stays within its engagement.                           *)
EXTENDS ScopeAdoption, Engagement, Evidence, HuntMemory, SequenceTheorems, FiniteSetTheorems, TLAPS

-----------------------------------------------------------------------------
(* Sequences.                                                                 *)

IsSequence(s) == s \in Seq(ToSet(s))

\* The last n elements of a sequence, all of them when there are no more.
LastOnes(s, n) == SubSeq(s, Max({1, Len(s) - n + 1}), Len(s))

LEMMA SequenceIs ==
    ASSUME NEW T, NEW q \in Seq(T)
    PROVE  IsSequence(q) /\ Len(q) \in Nat /\ DOMAIN q = 1..Len(q)
<1>1. Len(q) \in Nat /\ DOMAIN q = 1..Len(q) /\ q \in [1..Len(q) -> T]
    BY LenProperties
<1>2. q \in [1..Len(q) -> ToSet(q)]
    BY <1>1 DEF ToSet
<1>3. q \in Seq(ToSet(q))
    BY <1>1, <1>2
<1> QED BY <1>1, <1>3 DEF IsSequence

LEMMA AppendedIs ==
    ASSUME NEW s, IsSequence(s), NEW x
    PROVE  /\ IsSequence(Append(s, x)) /\ Len(s) \in Nat /\ Len(Append(s, x)) = Len(s) + 1
           /\ DOMAIN s = 1..Len(s) /\ DOMAIN Append(s, x) = 1..(Len(s) + 1)
           /\ \A i \in 1..Len(s) : Append(s, x)[i] = s[i]
           /\ Append(s, x)[Len(s) + 1] = x
<1> DEFINE T == ToSet(s) \cup {x}
<1>1. s \in Seq(T) /\ x \in T
  <2>1. s \in Seq(ToSet(s))
    BY DEF IsSequence
  <2> HIDE DEF T
  <2>2. ToSet(s) \subseteq T /\ x \in T
    BY DEF T
  <2> QED BY <2>1, <2>2
<1>2. /\ Append(s, x) \in Seq(T) /\ Len(Append(s, x)) = Len(s) + 1
      /\ \A i \in 1..Len(s) : Append(s, x)[i] = s[i]
      /\ Append(s, x)[Len(s) + 1] = x
    BY <1>1, AppendProperties
<1> QED BY <1>1, <1>2, SequenceIs

LEMMA PartIs ==
    ASSUME NEW s, IsSequence(s), NEW a \in 1..(Len(s) + 1), NEW b \in 0..Len(s), a <= b + 1
    PROVE  /\ IsSequence(SubSeq(s, a, b)) /\ Len(SubSeq(s, a, b)) = b - a + 1
           /\ DOMAIN SubSeq(s, a, b) = 1..(b - a + 1)
           /\ \A i \in 1..(b - a + 1) : SubSeq(s, a, b)[i] = s[a + i - 1]
<1> DEFINE p == SubSeq(s, a, b)
<1>1. s \in Seq(ToSet(s)) /\ Len(s) \in Nat /\ DOMAIN s = 1..Len(s)
    BY LenProperties DEF IsSequence
<1>2. \A i \in a..b : s[i] \in ToSet(s)
    BY <1>1 DEF ToSet
<1>3. a \in Int /\ b \in Int
    BY <1>1
<1>4. /\ p \in Seq(ToSet(s)) /\ Len(p) = IF a <= b THEN b - a + 1 ELSE 0
      /\ \A i \in 1..(b - a + 1) : p[i] = s[a + i - 1]
    BY <1>2, <1>3, SubSeqProperties
<1>5. Len(p) = b - a + 1
    BY <1>3, <1>4
<1> HIDE DEF p
<1>6. IsSequence(p) /\ DOMAIN p = 1..Len(p)
    BY <1>4, SequenceIs
<1> QED BY <1>4, <1>5, <1>6 DEF p

LEMMA EmptyIs == IsSequence(<<>>) /\ Len(<<>>) = 0 /\ DOMAIN <<>> = {}
<1>1. <<>> \in Seq(ToSet(<<>>))
    OBVIOUS
<1> QED BY <1>1 DEF IsSequence

\* Two sequences of one length and the same elements.
LEMMA SameIs ==
    ASSUME NEW s, NEW t, IsSequence(s), IsSequence(t), Len(s) = Len(t), \A i \in 1..Len(s) : s[i] = t[i]
    PROVE  s = t
<1> DEFINE T == ToSet(s) \cup ToSet(t)
<1>1. s \in Seq(T) /\ t \in Seq(T)
  <2>1. s \in Seq(ToSet(s)) /\ t \in Seq(ToSet(t))
    BY DEF IsSequence
  <2>2. ToSet(s) \subseteq T /\ ToSet(t) \subseteq T
    OBVIOUS
  <2> HIDE DEF T
  <2> QED BY <2>1, <2>2
<1> QED BY <1>1, SeqEqual

LEMMA LastOnesIs ==
    ASSUME NEW s, IsSequence(s), NEW n \in Nat \ {0}
    PROVE  /\ LastOnes(s, n) = SubSeq(s, IF Len(s) >= n THEN Len(s) - n + 1 ELSE 1, Len(s))
           /\ IsSequence(LastOnes(s, n)) /\ Len(s) \in Nat
           /\ Len(LastOnes(s, n)) = IF Len(s) >= n THEN n ELSE Len(s)
<1>1. Len(s) \in Nat
    BY LenProperties DEF IsSequence
<1>2. \A x, y \in Int : Max({x, y}) = IF x >= y THEN x ELSE y
    BY DEF Max
<1> DEFINE a == IF Len(s) >= n THEN Len(s) - n + 1 ELSE 1
<1>3. Max({1, Len(s) - n + 1}) = a
  <2>1. 1 \in Int /\ Len(s) - n + 1 \in Int
    BY <1>1
  <2>2. Max({1, Len(s) - n + 1}) = IF 1 >= Len(s) - n + 1 THEN 1 ELSE Len(s) - n + 1
    BY <1>2, <2>1
  <2> QED BY <1>1, <2>2
<1>4. a \in 1..(Len(s) + 1) /\ Len(s) \in 0..Len(s) /\ a <= Len(s) + 1
    BY <1>1
<1> HIDE DEF a
<1>5. IsSequence(SubSeq(s, a, Len(s))) /\ Len(SubSeq(s, a, Len(s))) = Len(s) - a + 1
    BY <1>4, PartIs
<1>6. LastOnes(s, n) = SubSeq(s, a, Len(s))
    BY <1>3 DEF LastOnes
<1>7. Len(LastOnes(s, n)) = IF Len(s) >= n THEN n ELSE Len(s)
  <2>1. Len(LastOnes(s, n)) = Len(s) - a + 1
    BY <1>5, <1>6
  <2>2. a = IF Len(s) >= n THEN Len(s) - n + 1 ELSE 1
    BY DEF a
  <2> QED BY <1>1, <2>1, <2>2
<1>8. IsSequence(LastOnes(s, n))
    BY <1>5, <1>6
<1> QED BY <1>1, <1>6, <1>7, <1>8 DEF a

-----------------------------------------------------------------------------
(* What is picked of a sequence.                                              *)

\* Positions are finitely many naturals.
Positions(P) == P \subseteq Nat /\ IsFiniteSet(P)

\* Ranks number the positions in their order.
LEMMA RankIs ==
    ASSUME NEW P, Positions(P)
    PROVE  /\ Cardinality(P) \in Nat
           /\ \A i \in P : RankIn(P, i) \in 1..Cardinality(P)
           /\ \A i, j \in P : i < j => RankIn(P, i) < RankIn(P, j)
<1>1. Cardinality(P) \in Nat
    BY FS_CardinalityType DEF Positions
<1>2. ASSUME NEW i \in P PROVE RankIn(P, i) \in 1..Cardinality(P)
  <2> DEFINE upTo == {j \in P : j <= i}
  <2>1. /\ IsFiniteSet(upTo) /\ Cardinality(upTo) <= Cardinality(P) /\ Cardinality(upTo) \in Nat
    BY FS_Subset, FS_CardinalityType, upTo \in SUBSET P DEF Positions
  <2>2. i \in upTo
    BY DEF Positions
  <2>3. Cardinality(upTo) # 0
    BY <2>1, <2>2, FS_EmptySet
  <2> QED BY <1>1, <2>1, <2>3 DEF RankIn
<1>3. ASSUME NEW i \in P, NEW j \in P, i < j PROVE RankIn(P, i) < RankIn(P, j)
  <2> DEFINE A == {k \in P : k <= i}
             B == {k \in P : k <= j}
  <2>1. IsFiniteSet(B) /\ Cardinality(B) \in Nat
    BY FS_Subset, FS_CardinalityType, B \in SUBSET P DEF Positions
  <2>2. A \in SUBSET B /\ j \in B /\ j \notin A
    <3>1. \A k \in P : k \in Nat
      BY DEF Positions
    <3> QED BY <1>3, <3>1
  <2>3. IsFiniteSet(A) /\ Cardinality(A) <= Cardinality(B) /\ Cardinality(A) # Cardinality(B)
    BY <2>1, <2>2, FS_Subset
  <2>4. Cardinality(A) \in Nat
    BY <2>3, FS_CardinalityType
  <2> QED BY <2>1, <2>3, <2>4 DEF RankIn
<1> QED BY <1>1, <1>2, <1>3

\* There is one position of each rank.
LEMMA NthIs ==
    ASSUME NEW P, Positions(P)
    PROVE  /\ \A k \in 1..Cardinality(P) : NthOf(P, k) \in P /\ RankIn(P, NthOf(P, k)) = k
           /\ \A i \in P : NthOf(P, RankIn(P, i)) = i
           /\ \A k, l \in 1..Cardinality(P) : k < l => NthOf(P, k) < NthOf(P, l)
<1> DEFINE n == Cardinality(P)
           ranks == [i \in P |-> RankIn(P, i)]
<1>1. /\ n \in Nat /\ \A i \in P : RankIn(P, i) \in 1..n
      /\ \A i, j \in P : i < j => RankIn(P, i) < RankIn(P, j)
    BY RankIs
<1>2. \A i, j \in P : RankIn(P, i) = RankIn(P, j) => i = j
  <2> SUFFICES ASSUME NEW i \in P, NEW j \in P, RankIn(P, i) = RankIn(P, j), i # j PROVE FALSE
    OBVIOUS
  <2>1. i < j \/ j < i
    BY DEF Positions
  <2>2. RankIn(P, i) \in Nat /\ RankIn(P, j) \in Nat
    BY <1>1
  <2> QED BY <1>1, <2>1, <2>2
<1>3. ranks \in Surjection(P, 1..n)
  <2>1. ranks \in Injection(P, 1..n)
    BY <1>1, <1>2 DEF Injection, IsInjective
  <2>2. IsFiniteSet(1..n) /\ Cardinality(1..n) = n
    BY <1>1, FS_Interval
  <2> QED BY <2>1, <2>2, FS_Injection
<1>4. \A k \in 1..n : \E i \in P : RankIn(P, i) = k
    BY <1>3 DEF Surjection
<1>5. \A k \in 1..n : NthOf(P, k) \in P /\ RankIn(P, NthOf(P, k)) = k
    BY <1>4 DEF NthOf
<1>6. \A i \in P : NthOf(P, RankIn(P, i)) = i
    BY <1>1, <1>2, <1>5
<1>7. ASSUME NEW k \in 1..n, NEW l \in 1..n, k < l PROVE NthOf(P, k) < NthOf(P, l)
  <2>1. PICK i \in P, j \in P : i = NthOf(P, k) /\ j = NthOf(P, l) /\ RankIn(P, i) = k /\ RankIn(P, j) = l
    BY <1>5
  <2>2. i < j \/ j < i \/ i = j
    BY DEF Positions
  <2>3. ~(j < i) /\ i # j
    BY <1>1, <1>7, <2>1
  <2> QED BY <2>1, <2>2, <2>3
<1> QED BY <1>5, <1>6, <1>7

\* What is picked of a sequence: that many of its elements, those at the positions.
LEMMA PickedIs ==
    ASSUME NEW s, NEW P, Positions(P)
    PROVE  /\ IsSequence(Picked(s, P)) /\ Len(Picked(s, P)) = Cardinality(P)
           /\ Cardinality(P) \in Nat /\ DOMAIN Picked(s, P) = 1..Cardinality(P)
           /\ \A k \in 1..Cardinality(P) : NthOf(P, k) \in P /\ Picked(s, P)[k] = s[NthOf(P, k)]
           /\ \A i \in P : RankIn(P, i) \in 1..Cardinality(P) /\ Picked(s, P)[RankIn(P, i)] = s[i]
           /\ ToSet(Picked(s, P)) = {s[i] : i \in P}
<1> DEFINE n == Cardinality(P)
           q == Picked(s, P)
           T == {s[i] : i \in P}
<1>1. n \in Nat /\ \A i \in P : RankIn(P, i) \in 1..n
    BY RankIs
<1>2. \A k \in 1..n : NthOf(P, k) \in P /\ q[k] = s[NthOf(P, k)]
    BY NthIs DEF Picked
<1>3. q \in [1..n -> T]
    BY <1>2 DEF Picked
<1>4. q \in Seq(T)
    BY <1>1, <1>3
<1>5. Len(q) = n /\ IsSequence(q) /\ DOMAIN q = 1..n
  <2>1. Len(q) \in Nat /\ IsSequence(q) /\ DOMAIN q = 1..Len(q)
    BY <1>4, SequenceIs
  <2>2. DOMAIN q = 1..n
    BY <1>3
  <2>3. \A a, b \in Nat : 1..a = 1..b => a = b
    <3> SUFFICES ASSUME NEW a \in Nat, NEW b \in Nat, 1..a = 1..b, a # b PROVE FALSE
      OBVIOUS
    <3>1. (a \in 1..a <=> a >= 1) /\ (b \in 1..b <=> b >= 1) /\ (a \in 1..b <=> a >= 1 /\ a <= b)
            /\ (b \in 1..a <=> b >= 1 /\ b <= a)
      OBVIOUS
    <3> QED BY <3>1
  <2> QED BY <1>1, <2>1, <2>2, <2>3
<1>6. \A i \in P : q[RankIn(P, i)] = s[i]
    BY <1>1, <1>2, NthIs
<1>7. ToSet(q) = T
    BY <1>1, <1>2, <1>5, <1>6 DEF ToSet
<1> QED BY <1>1, <1>2, <1>5, <1>6, <1>7

\* A set of positions has its least and its greatest.
LEMMA EndsAre ==
    ASSUME NEW P, Positions(P), P # {}
    PROVE  /\ Min(P) \in P /\ \A i \in P : Min(P) <= i
           /\ Max(P) \in P /\ \A i \in P : i <= Max(P)
<1> DEFINE n == Cardinality(P)
<1>1. n \in Nat /\ n # 0
    BY FS_CardinalityType, FS_EmptySet DEF Positions
<1>2. /\ \A k \in 1..n : NthOf(P, k) \in P
      /\ \A i \in P : NthOf(P, RankIn(P, i)) = i /\ RankIn(P, i) \in 1..n
      /\ \A k, l \in 1..n : k < l => NthOf(P, k) < NthOf(P, l)
    BY NthIs, RankIs
<1>3. PICK least, most : least = NthOf(P, 1) /\ most = NthOf(P, n)
    OBVIOUS
<1> HIDE DEF n
<1>4. least \in P /\ most \in P
    BY <1>1, <1>2, <1>3
<1>5. ASSUME NEW i \in P PROVE least <= i /\ i <= most
  <2>1. PICK k \in 1..n : i = NthOf(P, k)
    BY <1>2
  <2>2. least \in Nat /\ most \in Nat /\ i \in Nat
    BY <1>4 DEF Positions
  <2>3. (k = 1 \/ least < i) /\ (k = n \/ i < most)
    BY <1>1, <1>2, <1>3, <2>1
  <2> QED BY <1>3, <2>1, <2>2, <2>3
<1>6. Min(P) \in P /\ \A i \in P : Min(P) <= i
    BY <1>4, <1>5 DEF Min
<1>7. Max(P) \in P /\ \A i \in P : i <= Max(P)
    BY <1>4, <1>5 DEF Max
<1> QED BY <1>6, <1>7

\* What a function takes a finite set to is finite.
LEMMA ImageIsFinite ==
    ASSUME NEW f, IsFiniteSet(DOMAIN f), f = [x \in DOMAIN f |-> f[x]]
    PROVE  /\ IsFiniteSet({f[x] : x \in DOMAIN f})
           /\ Cardinality({f[x] : x \in DOMAIN f}) <= Cardinality(DOMAIN f)
<1>1. f \in Surjection(DOMAIN f, {f[x] : x \in DOMAIN f})
    BY DEF Surjection
<1> QED BY <1>1, FS_Surjection

\* The elements of a sequence are finitely many, and so are its positions.
LEMMA PlacesAreFinite ==
    ASSUME NEW s, IsSequence(s)
    PROVE  /\ Len(s) \in Nat /\ DOMAIN s = 1..Len(s) /\ IsFiniteSet(ToSet(s))
           /\ \A P \in SUBSET DOMAIN s : Positions(P) /\ Cardinality(P) \in Nat /\ Cardinality(P) <= Len(s)
<1>1. Len(s) \in Nat /\ DOMAIN s = 1..Len(s) /\ s = [i \in 1..Len(s) |-> s[i]]
    BY LenProperties DEF IsSequence
<1>2. IsFiniteSet(1..Len(s)) /\ Cardinality(1..Len(s)) = Len(s)
  <2>1. \A n \in Nat : IsFiniteSet(1..n) /\ Cardinality(1..n) = n
    BY FS_Interval
  <2> QED BY <1>1, <2>1
<1>3. IsFiniteSet(ToSet(s))
    BY <1>1, <1>2, ImageIsFinite DEF ToSet
<1>4. ASSUME NEW P \in SUBSET DOMAIN s
      PROVE  Positions(P) /\ Cardinality(P) \in Nat /\ Cardinality(P) <= Len(s)
  <2>1. IsFiniteSet(P) /\ Cardinality(P) <= Len(s)
    BY <1>1, <1>2, FS_Subset
  <2>2. P \subseteq Nat
    BY <1>1
  <2> QED BY <2>1, <2>2, FS_CardinalityType DEF Positions
<1> QED BY <1>1, <1>3, <1>4

\* Sets whose elements correspond, one to one, are of one size.
LEMMA SameSize ==
    ASSUME NEW S, NEW T, IsFiniteSet(S), NEW f \in [S -> T],
           \A x, y \in S : f[x] = f[y] => x = y,  \A y \in T : \E x \in S : f[x] = y
    PROVE  IsFiniteSet(T) /\ Cardinality(T) = Cardinality(S)
<1>1. f \in Bijection(S, T)
    BY DEF Bijection, Injection, IsInjective, Surjection
<1>2. ExistsBijection(S, T)
    BY <1>1 DEF ExistsBijection
<1> QED BY <1>2, FS_Bijection

\* Positions of two sequences that correspond, in order, pick the same of both.
LEMMA PickedSame ==
    ASSUME NEW s, NEW t, NEW P, NEW Q, Positions(P), Positions(Q), NEW f \in [P -> Q],
           \A i, j \in P : i < j => f[i] < f[j],
           \A q \in Q : \E i \in P : f[i] = q,
           \A i \in P : s[i] = t[f[i]]
    PROVE  Picked(s, P) = Picked(t, Q)
<1>1. P \subseteq Nat /\ Q \subseteq Nat /\ IsFiniteSet(P) /\ IsFiniteSet(Q)
    BY DEF Positions
<1>2. \A i, j \in P : f[i] < f[j] <=> i < j
  <2> SUFFICES ASSUME NEW i \in P, NEW j \in P, f[i] < f[j], ~(i < j) PROVE FALSE
    OBVIOUS
  <2>1. f[i] \in Nat /\ f[j] \in Nat /\ i \in Nat /\ j \in Nat
    BY <1>1
  <2>2. i = j \/ f[j] < f[i]
    BY <2>1
  <2> QED BY <2>1, <2>2
<1>3. \A i, j \in P : f[i] = f[j] => i = j
  <2> SUFFICES ASSUME NEW i \in P, NEW j \in P, f[i] = f[j], i # j PROVE FALSE
    OBVIOUS
  <2>1. f[i] \in Nat /\ i \in Nat /\ j \in Nat
    BY <1>1
  <2> QED BY <2>1, <1>2
<1>4. Cardinality(P) = Cardinality(Q)
    BY <1>1, <1>3, SameSize
<1>5. ASSUME NEW i \in P PROVE RankIn(P, i) = RankIn(Q, f[i])
  <2> DEFINE A == {j \in P : j <= i}
             B == {q \in Q : q <= f[i]}
             g == [j \in A |-> f[j]]
  <2>1. \A j \in A : g[j] \in B
    <3> SUFFICES ASSUME NEW j \in A PROVE f[j] <= f[i] /\ f[j] \in Q
      OBVIOUS
    <3>1. j \in P /\ j \in Nat /\ i \in Nat /\ f[j] \in Nat /\ f[i] \in Nat /\ f[j] \in Q
      BY <1>1
    <3> QED BY <3>1
  <2>2. \A q \in B : \E j \in A : g[j] = q
    <3> SUFFICES ASSUME NEW q \in B PROVE \E j \in A : f[j] = q
      OBVIOUS
    <3>1. PICK j \in P : f[j] = q
      OBVIOUS
    <3>2. j \in Nat /\ i \in Nat /\ f[j] \in Nat /\ f[i] \in Nat /\ f[j] <= f[i]
      BY <1>1, <3>1
    <3>3. j <= i
      BY <1>2, <3>2
    <3> QED BY <3>1, <3>3
  <2>3. \A j, k \in A : g[j] = g[k] => j = k
    BY <1>3
  <2>4. IsFiniteSet(A)
    BY <1>1, FS_Subset, A \subseteq P
  <2>5. g \in [A -> B]
    BY <2>1
  <2> HIDE DEF A, B, g
  <2>6. Cardinality(A) = Cardinality(B)
    BY <2>2, <2>3, <2>4, <2>5, SameSize
  <2> USE DEF A, B
  <2> QED BY <2>6 DEF RankIn
<1> DEFINE n == Cardinality(P)
<1>6. n \in Nat /\ \A k \in 1..n : NthOf(P, k) \in P /\ RankIn(P, NthOf(P, k)) = k
    BY NthIs, RankIs
<1>7. \A q \in Q : NthOf(Q, RankIn(Q, q)) = q
    BY NthIs
<1>8. \A k \in 1..n : NthOf(Q, k) = f[NthOf(P, k)]
  <2> SUFFICES ASSUME NEW k \in 1..n PROVE NthOf(Q, k) = f[NthOf(P, k)]
    OBVIOUS
  <2>1. PICK i \in P : i = NthOf(P, k) /\ RankIn(P, i) = k
    BY <1>6
  <2>2. RankIn(Q, f[i]) = k /\ f[i] \in Q
    BY <2>1, <1>5
  <2> QED BY <2>1, <2>2, <1>7
<1>9. \A k \in 1..n : s[NthOf(P, k)] = t[NthOf(Q, k)]
    BY <1>6, <1>8
<1> QED BY <1>4, <1>9 DEF Picked

\* Of all the positions, the sequence.
LEMMA PickedAll ==
    ASSUME NEW s, IsSequence(s)
    PROVE  Picked(s, DOMAIN s) = s
<1>1. /\ Len(s) \in Nat /\ DOMAIN s = 1..Len(s) /\ Positions(DOMAIN s)
    BY PlacesAreFinite
<1>2. \A m \in Nat : IsFiniteSet(1..m) /\ Cardinality(1..m) = m
    BY FS_Interval
<1>3. Cardinality(DOMAIN s) = Len(s)
    BY <1>1, <1>2
<1>4. \A i \in 1..Len(s) : RankIn(DOMAIN s, i) = i
  <2> SUFFICES ASSUME NEW i \in 1..Len(s) PROVE RankIn(1..Len(s), i) = i
    BY <1>1
  <2>1. {j \in 1..Len(s) : j <= i} = 1..i
    BY <1>1
  <2>2. Cardinality(1..i) = i
    BY <1>2, i \in Nat
  <2> QED BY <2>1, <2>2 DEF RankIn
<1>5. /\ IsSequence(Picked(s, DOMAIN s)) /\ Len(Picked(s, DOMAIN s)) = Len(s)
      /\ \A i \in DOMAIN s : Picked(s, DOMAIN s)[RankIn(DOMAIN s, i)] = s[i]
    BY <1>1, <1>3, PickedIs
<1> QED BY <1>1, <1>4, <1>5, SameIs

\* Of no positions, nothing.
LEMMA PickedNone == \A s : Picked(s, {}) = <<>>
<1> SUFFICES ASSUME NEW s PROVE Picked(s, {}) = <<>>
    OBVIOUS
<1>1. Positions({}) /\ Cardinality({}) = 0
    BY FS_EmptySet DEF Positions
<1>2. IsSequence(Picked(s, {})) /\ Len(Picked(s, {})) = 0
    BY <1>1, PickedIs
<1> QED BY <1>2, EmptyIs, SameIs

\* What follows another sequence.
LEMMA JoinedIs ==
    ASSUME NEW s, NEW t, IsSequence(s), IsSequence(t)
    PROVE  /\ IsSequence(s \o t) /\ Len(s) \in Nat /\ Len(t) \in Nat /\ Len(s \o t) = Len(s) + Len(t)
           /\ DOMAIN (s \o t) = 1..(Len(s) + Len(t)) /\ DOMAIN s = 1..Len(s) /\ DOMAIN t = 1..Len(t)
           /\ \A i \in 1..Len(s) : (s \o t)[i] = s[i]
           /\ \A i \in 1..Len(t) : (s \o t)[Len(s) + i] = t[i]
<1> DEFINE T == ToSet(s) \cup ToSet(t)
<1>1. s \in Seq(T) /\ t \in Seq(T)
  <2>1. s \in Seq(ToSet(s)) /\ t \in Seq(ToSet(t))
    BY DEF IsSequence
  <2>2. ToSet(s) \subseteq T /\ ToSet(t) \subseteq T
    OBVIOUS
  <2> HIDE DEF T
  <2> QED BY <2>1, <2>2
<1>2. s \o t \in Seq(T) /\ Len(s \o t) = Len(s) + Len(t) /\ Len(s) \in Nat /\ Len(t) \in Nat
    BY <1>1, ConcatProperties, LenProperties
<1>3. /\ \A i \in 1..Len(s) : (s \o t)[i] = s[i]
      /\ \A i \in 1..Len(t) : (s \o t)[Len(s) + i] = t[i]
  <2>1. \A i \in 1..(Len(s) + Len(t)) : (s \o t)[i] = IF i <= Len(s) THEN s[i] ELSE t[i - Len(s)]
    BY <1>1, ConcatProperties
  <2>2. \A i \in 1..Len(t) : Len(s) + i \in 1..(Len(s) + Len(t)) /\ ~(Len(s) + i <= Len(s)) /\ Len(s) + i - Len(s) = i
    BY <1>2
  <2>3. \A i \in 1..Len(s) : i \in 1..(Len(s) + Len(t)) /\ i <= Len(s)
    BY <1>2
  <2> QED BY <2>1, <2>2, <2>3
<1>4. IsSequence(s \o t) /\ DOMAIN (s \o t) = 1..Len(s \o t) /\ DOMAIN s = 1..Len(s) /\ DOMAIN t = 1..Len(t)
    BY <1>1, <1>2, SequenceIs
<1> QED BY <1>2, <1>3, <1>4

-----------------------------------------------------------------------------
(* The scope.                                                                 *)

\* Exclusion c is among the rules, as its own rule or as one of the same name,
\* for which scopeRulesFromProposal does not add another (scopeProposal.ts:493).
IsKept(c, listed) == ToRule(c) \in listed \/ \E r \in listed : r.host = c

Proposals == {ProposeScope(docs[f]) : f \in Folders}

\* What an Add in flight will write, with the scope it read, keeps every
\* exclusion of the proposal it was made of and includes none of them.
AddKeeps ==
    adding # Idle =>
        /\ \A c \in adding.from.exclude :
              IsName(c) /\ IsKept(c, adding.current.exclude \cup adding.rules.exclude)
        /\ \A r \in adding.rules.include : r.host \notin adding.from.exclude

AdoptionInv ==
    /\ docs \in Documents /\ root \in Folders /\ reading \subseteq Folders
    /\ proposal = NoProposal \/ proposal \in Proposals
    /\ picked \subseteq reviewed /\ picked \cap unticked = {}
    /\ AddKeeps
    /\ cache = NoCache \/ cache = stored
    /\ \A c \in adopted : IsName(c) /\ IsKept(c, stored.exclude)

-----------------------------------------------------------------------------
(* Names, proposals and the rules made of them.                               *)

\* The parts of a proposal are apart, and of names.
LEMMA ProposalParts ==
    ASSUME docs \in Documents, NEW p \in Proposals
    PROVE  /\ p.exclude \cap (p.include \cup p.unclear) = {}
           /\ \A h \in p.exclude \cup p.include \cup p.unclear : IsName(h)
<1>1. PICK f \in Folders : p = ProposeScope(docs[f])
    BY DEF Proposals
<1> DEFINE seen == FoldLeft(TakeNaming, [seen |-> <<>>, omitted |-> {}], Namings(docs[f])).seen
           With(d) == {h \in Named(docs[f]) : h \in DOMAIN seen /\ seen[h] = d}
<1>2. /\ p.include = With("include") /\ p.exclude = With("exclude") /\ p.unclear = With("unclear")
    BY <1>1 DEF ProposeScope
<1>3. \A h \in Named(docs[f]) : IsName(h)
    BY DocumentsAssumption
<1>4. p.exclude \cap (p.include \cup p.unclear) = {}
  <2> SUFFICES ASSUME NEW h \in p.exclude, h \in p.include \cup p.unclear PROVE FALSE
    OBVIOUS
  <2>1. seen[h] = "exclude" BY <1>2
  <2>2. seen[h] = "include" \/ seen[h] = "unclear" BY <1>2
  <2> QED BY <2>1, <2>2
<1>5. \A h \in p.exclude \cup p.include \cup p.unclear : IsName(h)
  <2> HIDE DEF seen
  <2> QED BY <1>2, <1>3
<1> QED BY <1>4, <1>5

\* No rule made of a name bears the name of another: its host is that name, or
\* begins with a label no name has.
LEMMA RuleHost ==
    ASSUME NEW h, IsName(h), NEW c, IsName(c), ToRule(h).host = c
    PROVE  h = c
<1>1. CASE IsWild(h)
  <2>1. c = <<"**">> \o Tail(h)
    BY <1>1 DEF ToRule
  <2>2. h \in Seq(STRING) /\ h # <<>> /\ c[1] # "**"
    BY DEF IsName
  <2>3. Tail(h) \in Seq(STRING)
    BY <2>2, HeadTailProperties
  <2>4. c[1] = "**"
    BY <2>1, <2>3
  <2> QED BY <2>2, <2>4
<1>2. CASE ~IsWild(h)
    BY <1>2 DEF ToRule
<1> QED BY <1>1, <1>2

\* The rule made of a name refuses what the name covers (scopeProposal.ts:476).
LEMMA RuleRefuses ==
    ASSUME NEW c, IsName(c), NEW config, ToRule(c) \in config.exclude,
           NEW t, Covers(c, t.host)
    PROVE  ~EvaluateScope(config, t)
<1>1. c \in Seq(STRING) /\ c # <<>>
    BY DEF IsName
<1>2. HostMatches(ToRule(c), t.host)
  <2>1. CASE IsWild(c)
    <3> DEFINE pattern == <<"**">> \o Tail(c)
    <3>1. /\ ToRule(c).hostMatch = "wildcard" /\ ToRule(c).host = pattern
      BY <2>1 DEF ToRule
    <3> DEFINE Labels == STRING \cup {"**"}
    <3>2. /\ Tail(c) \in Seq(Labels) /\ Len(Tail(c)) = Len(c) - 1 /\ Len(c) \in Nat
      <4>1. c \in Seq(Labels)
        BY <1>1
      <4> QED BY <1>1, <4>1, HeadTailProperties
    <3>3. /\ pattern \in Seq(Labels) /\ pattern # <<>> /\ pattern[1] = "**" /\ Len(pattern) = Len(c)
      <4>1. <<"**">> \in Seq(Labels) /\ Len(<<"**">>) = 1 /\ <<"**">>[1] = "**"
        OBVIOUS
      <4>2. /\ pattern \in Seq(Labels) /\ Len(pattern) = 1 + Len(Tail(c)) /\ pattern[1] = "**"
        BY <3>2, <4>1, ConcatProperties
      <4> HIDE DEF pattern
      <4> QED BY <3>2, <4>2
    <3>4. Tail(pattern) = Tail(c)
      BY <3>2
    <3>5. IsSuffix(Tail(c), t.host) /\ Len(t.host) >= Len(c)
      BY <2>1 DEF Covers
    <3>6. GlobMatches(pattern, t.host)
      <4> HIDE DEF pattern
      <4> QED BY <3>3, <3>4, <3>5 DEF GlobMatches, IsWild
    <3> HIDE DEF pattern
    <3> QED BY <3>1, <3>6 DEF HostMatches
  <2>2. CASE ~IsWild(c)
    BY <2>2 DEF ToRule, Covers, HostMatches
  <2> QED BY <2>1, <2>2
<1>3. ToRule(c).enabled /\ ToRule(c).ports = {}
    BY DEF ToRule
<1> QED BY <1>2, <1>3 DEF RuleMatches, EvaluateScope

-----------------------------------------------------------------------------
(* The steps.                                                                 *)

\* What is drawn is seen, and no host is both ticked and unticked.
LEMMA DrawKeeps ==
    ASSUME NEW p, NEW on, NEW n, NEW picks, NEW off, NEW seen,
           DrawRows(p, on, n, picks, off, seen),
           picks \subseteq seen \cup Visible(p, on, n), picks \cap off = {}
    PROVE  picked' \subseteq reviewed' /\ picked' \cap unticked' = {}
BY DEF DrawRows

\* An Add of a proposal keeps its exclusions and includes none of them.
LEMMA AddSelectedKeeps ==
    ASSUME AdoptionInv, AddSelected
    PROVE  AddKeeps'
<1>1. proposal \in Proposals /\ docs \in Documents
    BY DEF AdoptionInv, AddSelected
<1> DEFINE chosen == picked \cap reviewed
           drafts == ScopeRulesFromProposal(proposal, chosen, stored)
<1>2. /\ adding'.current = stored /\ adding'.from = proposal /\ adding'.rules = drafts
    BY DEF AddSelected
<1>3. /\ proposal.exclude \cap (proposal.include \cup proposal.unclear) = {}
      /\ \A h \in proposal.exclude \cup proposal.include \cup proposal.unclear : IsName(h)
    BY <1>1, ProposalParts
<1>4. ASSUME NEW c \in proposal.exclude
      PROVE  IsName(c) /\ IsKept(c, stored.exclude \cup drafts.exclude)
  <2>1. CASE c \in {r.host : r \in stored.exclude}
    BY <2>1, <1>3 DEF IsKept
  <2>2. CASE c \notin {r.host : r \in stored.exclude}
    <3>1. ToRule(c) \in drafts.exclude
      BY <2>2 DEF ScopeRulesFromProposal
    <3> HIDE DEF drafts
    <3> QED BY <3>1, <1>3 DEF IsKept
  <2> QED BY <2>1, <2>2
<1>5. ASSUME NEW r \in drafts.include
      PROVE  r.host \notin proposal.exclude
  <2>1. PICK h \in proposal.include \cup proposal.unclear : r = ToRule(h)
    BY DEF ScopeRulesFromProposal
  <2> QED BY <2>1, <1>3, RuleHost
<1> HIDE DEF drafts
<1> QED BY <1>2, <1>4, <1>5 DEF AddKeeps

\* Every step keeps the invariant.
LEMMA AdoptionStep ==
    ASSUME AdoptionInv, [ScopeAdoptionNext]_scopeAdoptionVars
    PROVE  AdoptionInv'
<1>1. CASE UNCHANGED scopeAdoptionVars
    BY <1>1 DEF AdoptionInv, Proposals, AddKeeps, scopeAdoptionVars, readVars, tickVars, scopeVars
<1>2. ASSUME NEW f \in Folders, SwitchFolder(f) PROVE AdoptionInv'
    BY <1>2 DEF AdoptionInv, SwitchFolder, Proposals, AddKeeps, tickVars, scopeVars
<1>3. ASSUME NEW f \in Folders, ReadDone(f) PROVE AdoptionInv'
  <2>1. proposal' \in Proposals'
    BY <1>3 DEF ReadDone, Proposals
  <2>2. picked' \subseteq reviewed' /\ picked' \cap unticked' = {}
    <3>1. DrawRows(proposal', FALSE, Page, {}, {}, {})
      BY <1>3 DEF ReadDone
    <3>2. PICK p : p = proposal' OBVIOUS
    <3>3. DrawRows(p, FALSE, Page, {}, {}, {})
      BY <3>1, <3>2
    <3> QED BY <3>3 DEF DrawRows
  <2> QED BY <1>3, <2>1, <2>2 DEF AdoptionInv, ReadDone, AddKeeps, scopeVars
<1>4. CASE Reread
    BY <1>4 DEF AdoptionInv, Reread, Proposals, AddKeeps, tickVars, scopeVars
<1>5. CASE FilterHosts
  <2>1. picked' \subseteq reviewed' /\ picked' \cap unticked' = {}
    BY <1>5 DEF FilterHosts, DrawRows, AdoptionInv
  <2> QED BY <1>5, <2>1 DEF AdoptionInv, FilterHosts, Proposals, AddKeeps, readVars, scopeVars
<1>6. CASE ShowMore
  <2>1. picked' \subseteq reviewed' /\ picked' \cap unticked' = {}
    BY <1>6 DEF ShowMore, DrawRows, AdoptionInv
  <2> QED BY <1>6, <2>1 DEF AdoptionInv, ShowMore, Proposals, AddKeeps, readVars, scopeVars
<1>7. ASSUME NEW h, TickHost(h) PROVE AdoptionInv'
  <2>1. picked' \subseteq reviewed' /\ picked' \cap unticked' = {}
    BY <1>7 DEF TickHost, DrawRows, AdoptionInv
  <2> QED BY <1>7, <2>1 DEF AdoptionInv, TickHost, Proposals, AddKeeps, readVars, scopeVars
<1>8. CASE AddSelected
    BY <1>8, AddSelectedKeeps DEF AdoptionInv, AddSelected, Proposals, readVars, tickVars
<1>9. CASE WriteScope
  <2>1. \A c \in adopted' : IsName(c) /\ IsKept(c, stored'.exclude)
    BY <1>9 DEF AdoptionInv, AddKeeps, WriteScope, StoreScope
  <2> QED BY <1>9, <2>1 DEF AdoptionInv, WriteScope, StoreScope, Proposals, AddKeeps, readVars, tickVars
<1>10. ASSUME NEW scope, EditScope(scope) PROVE AdoptionInv'
    BY <1>10 DEF AdoptionInv, EditScope, StoreScope, Proposals, AddKeeps, readVars, tickVars
<1>11. CASE AskGate
    BY <1>11 DEF AdoptionInv, AskGate, Proposals, AddKeeps, readVars, tickVars
<1> QED BY <1>1, <1>2, <1>3, <1>4, <1>5, <1>6, <1>7, <1>8, <1>9, <1>10, <1>11
        DEF ScopeAdoptionNext, AddRule, RemoveRule, ToggleRule

-----------------------------------------------------------------------------
(* The theorems.                                                              *)

\* What an Add in flight carries, what the view has ticked and what the stored
\* scope holds fit together in every state, whatever is read, ticked, written
\* and edited in between (EngagementView.tsx:216-253, ScopeView.tsx:73).
THEOREM AdoptionInductive == ScopeAdoptionSpec => []AdoptionInv
<1>1. ScopeAdoptionInit => AdoptionInv
    BY DEF ScopeAdoptionInit, AdoptionInv, AddKeeps
<1>2. AdoptionInv /\ [ScopeAdoptionNext]_scopeAdoptionVars => AdoptionInv'
    BY AdoptionStep
<1> QED BY <1>1, <1>2, PTL DEF ScopeAdoptionSpec

\* The invariant says what the property says.
LEMMA AdoptionImplies == AdoptionInv => ScopeAdoptionCorrect
<1> SUFFICES ASSUME AdoptionInv PROVE ScopeAdoptionCorrect
    OBVIOUS
<1>1. GateScope = stored
    BY DEF AdoptionInv, GateScope
<1>2. ExcludedStaysOut
  <2> SUFFICES ASSUME NEW c \in adopted, NEW t \in Targets, Covers(c, t.host), Reached(t)
               PROVE  \E r \in stored.exclude : r.host = c /\ r # ToRule(c)
    BY DEF ExcludedStaysOut
  <2>1. IsName(c) /\ IsKept(c, stored.exclude)
    BY DEF AdoptionInv
  <2>2. ToRule(c) \notin stored.exclude
    BY <1>1, <2>1, RuleRefuses DEF Reached
  <2> QED BY <2>1, <2>2 DEF IsKept
<1>3. GateIsCurrent
    BY <1>1 DEF GateIsCurrent
<1>4. TicksAreTheOperators
    BY DEF AdoptionInv, AddKeeps, TicksAreTheOperators
<1> QED BY <1>2, <1>3, <1>4 DEF ScopeAdoptionCorrect

\* What adopted documents put out of scope stays out until an edit by hand, the
\* gate decides by the scope as it is stored, and nothing the operator did not
\* see is ticked (scopeProposal.ts:486, metaRepo.ts:63, EngagementView.tsx:97).
THEOREM ScopeAdopted == ScopeAdoptionSpec => []ScopeAdoptionCorrect
BY AdoptionInductive, AdoptionImplies, PTL

-----------------------------------------------------------------------------
(* The readiness report.                                                      *)

InputFields == {"project", "authorization", "included", "ca", "identity", "proxy", "exchanges", "read"}

\* What was read is what is there.
InputsHold(in) ==
    /\ in.project = store.project
    /\ in.authorization = profile[store.project].authorization
    /\ in.included <=> store.project \in included
    /\ in.ca = ca[store.project]
    /\ in.proxy = proxy

\* The stores are numbered as they are opened.  A report in the making is of a
\* store that was open, which will not be opened again under its number; one
\* that was not disturbed is of the store that is open, and says what is there.
ReportInv ==
    /\ edits.opens \in Nat /\ DOMAIN edits = {"made", "opens", "reports"}
    /\ store = Closed \/ (store.project \in Projects /\ store.gen \in 1..edits.opens)
    /\ report.phase \in {"none", "counting", "inputs", "summary", "done", "failed"}
    /\ report.phase \in {"counting", "inputs"} => DOMAIN report = {"phase", "of", "moved"}
    /\ report.phase \in {"summary", "done"} =>
          DOMAIN report = {"phase", "of", "moved", "in"} /\ DOMAIN report.in = InputFields
    /\ report.phase \in {"counting", "inputs", "summary"} =>
          /\ report.of.project \in Projects /\ report.of.gen \in 1..edits.opens
          /\ report.moved \/ report.of = store
    /\ report.phase = "summary" =>
          /\ report.of = store => report.in.read = store
          /\ report.moved \/ InputsHold(report.in)
    /\ report.phase = "done" =>
          /\ report.in.read = report.of
          /\ \/ report.moved
             \/ store = Closed /\ ~report.in.included
             \/ store.project \in Projects /\ store.gen # 0 /\ InputsHold(report.in)

\* The report blocks on five grounds and no other.
LEMMA ReadyMeans ==
    ASSUME NEW in
    PROVE  Ready(BuildPreflight(in)) <=>
              /\ in.project # "none" /\ in.authorization /\ in.included
              /\ in.ca # "expired" /\ in.proxy # "exposed"
<1> DEFINE checks == BuildPreflight(in)
<1>1. DOMAIN checks = {"authorization", "scope", "ca", "identity", "proxy", "history"}
    BY DEF BuildPreflight
<1>2. checks.authorization # "blocker" <=> in.project # "none" /\ in.authorization
    BY DEF BuildPreflight
<1>3. checks.scope # "blocker" <=> in.included
    BY DEF BuildPreflight
<1>4. checks.ca # "blocker" <=> in.ca # "expired"
    BY DEF BuildPreflight
<1>5. checks.identity # "blocker"
  <2>1. UserAgentCheck(in.identity) \in {"warning", "ok"}
    BY DEF UserAgentCheck
  <2> QED BY <2>1 DEF BuildPreflight
<1>6. checks.proxy # "blocker" <=> in.proxy # "exposed"
    BY DEF BuildPreflight
<1>7. checks.history # "blocker"
    BY DEF BuildPreflight
<1> HIDE DEF checks
<1>8. Ready(checks) <=> /\ checks.authorization # "blocker" /\ checks.scope # "blocker"
                        /\ checks.ca # "blocker" /\ checks.identity # "blocker"
                        /\ checks.proxy # "blocker" /\ checks.history # "blocker"
    BY <1>1 DEF Ready
<1>9. Ready(checks) <=> /\ in.project # "none" /\ in.authorization /\ in.included
                        /\ in.ca # "expired" /\ in.proxy # "exposed"
    BY <1>2, <1>3, <1>4, <1>5, <1>6, <1>7, <1>8
<1> QED BY <1>9 DEF checks

\* Whatever touches the project disturbs the report, and nothing else of it.
LEMMA TouchedKeeps ==
    ASSUME ReportInv, Touched,
           \/ store' = store /\ edits'.opens = edits.opens
           \/ store' = Closed /\ edits'.opens = edits.opens
           \/ store'.project \in Projects /\ store'.gen = edits.opens + 1 /\ edits'.opens = edits.opens + 1,
           DOMAIN edits' = {"made", "opens", "reports"}
    PROVE  ReportInv'
<1>1. /\ edits'.opens \in Nat
      /\ store' = Closed \/ (store'.project \in Projects /\ store'.gen \in 1..edits'.opens)
    BY DEF ReportInv
<1>2. CASE report.phase \in {"none", "failed"}
  <2>1. report' = report
    BY <1>2 DEF Touched
  <2> QED BY <1>1, <1>2, <2>1 DEF ReportInv
<1>3. CASE report.phase \in {"counting", "inputs"}
  <2>1. report' = [report EXCEPT !.moved = TRUE]
    BY <1>3 DEF Touched
  <2>2. report'.phase = report.phase /\ report'.of = report.of /\ report'.moved = TRUE /\ DOMAIN report' = DOMAIN report
    BY <1>3, <2>1 DEF ReportInv
  <2> QED BY <1>1, <1>3, <2>2 DEF ReportInv
<1>4. CASE report.phase \in {"summary", "done"}
  <2>1. report' = [report EXCEPT !.moved = TRUE]
    BY <1>4 DEF Touched
  <2>2. /\ report'.phase = report.phase /\ report'.of = report.of /\ report'.in = report.in
        /\ report'.moved = TRUE /\ DOMAIN report' = DOMAIN report
    BY <1>4, <2>1 DEF ReportInv
  <2>3. report.phase = "summary" /\ report'.of = store' => report.in.read = store'
    BY <2>2 DEF ReportInv, Closed
  <2>4. DOMAIN report = {"phase", "of", "moved", "in"} /\ DOMAIN report.in = InputFields
    BY <1>4 DEF ReportInv
  <2>5. report.phase = "summary" => report.of.project \in Projects /\ report.of.gen \in 1..edits'.opens
    BY DEF ReportInv
  <2>6. report.phase = "done" => report.in.read = report.of
    BY DEF ReportInv
  <2> QED BY <1>1, <1>4, <2>2, <2>3, <2>4, <2>5, <2>6 DEF ReportInv
<1> QED BY <1>2, <1>3, <1>4 DEF ReportInv

LEMMA EditKeeps ==
    ASSUME ReportInv, Edit, UNCHANGED store
    PROVE  ReportInv'
<1>1. edits'.opens = edits.opens /\ DOMAIN edits' = DOMAIN edits
    BY DEF Edit, ReportInv
<1> QED BY <1>1, TouchedKeeps DEF Edit, ReportInv

LEMMA BeginKeeps ==
    ASSUME ReportInv, BeginPreflight
    PROVE  ReportInv'
<1>1. edits'.opens = edits.opens /\ DOMAIN edits' = DOMAIN edits /\ store' = store
    BY DEF BeginPreflight, ReportInv
<1>2. CASE store = Closed
  <2>1. /\ report'.phase = "done" /\ report'.in = NoProjectInputs /\ report'.of = Closed
        /\ DOMAIN report' = {"phase", "of", "moved", "in"}
    BY <1>2 DEF BeginPreflight
  <2>2. /\ NoProjectInputs.read = Closed /\ ~NoProjectInputs.included
        /\ DOMAIN NoProjectInputs = InputFields
    BY DEF NoProjectInputs, InputFields
  <2>3. /\ report'.in.read = report'.of /\ ~report'.in.included /\ DOMAIN report'.in = InputFields
    BY <2>1, <2>2
  <2>4. store' = Closed
    BY <1>1, <1>2
  <2> HIDE DEF NoProjectInputs
  <2> QED BY <1>1, <2>1, <2>3, <2>4 DEF ReportInv
<1>3. CASE store # Closed
  <2>1. /\ report'.phase \in {"inputs", "counting"} /\ report'.of = store /\ report'.moved = FALSE
        /\ DOMAIN report' = {"phase", "of", "moved"}
    BY <1>3 DEF BeginPreflight
  <2> QED BY <1>1, <1>3, <2>1 DEF ReportInv
<1> QED BY <1>2, <1>3

LEMMA CountKeeps ==
    ASSUME ReportInv, CountHosts
    PROVE  ReportInv'
<1>1. /\ report'.phase = "inputs" /\ report'.of = report.of /\ report'.moved = report.moved
      /\ DOMAIN report' = DOMAIN report
    BY DEF CountHosts, ReportInv
<1> QED BY <1>1 DEF CountHosts, ReportInv

LEMMA TakeKeeps ==
    ASSUME ReportInv, TakeInputs
    PROVE  ReportInv'
<1>1. UNCHANGED <<store, profile, included, ca, proxy, edits>>
    BY DEF TakeInputs
<1>2. CASE store = Closed
    BY <1>1, <1>2 DEF TakeInputs, ReportInv
<1>3. CASE store # Closed
  <2>1. /\ report'.phase = "summary" /\ report'.of = report.of /\ report'.moved = report.moved
        /\ DOMAIN report' = {"phase", "of", "moved", "in"}
    BY <1>3 DEF TakeInputs
  <2>2. /\ report'.in.project = report.of.project /\ report'.in.authorization = profile[store.project].authorization
        /\ report'.in.included <=> report.of.project \in included
        /\ report'.in.ca = ca[store.project] /\ report'.in.proxy = proxy /\ report'.in.read = store
        /\ DOMAIN report'.in = InputFields
    BY <1>3 DEF TakeInputs, InputFields
  <2>3. report.moved \/ InputsHold(report.in)'
    BY <1>1, <2>2 DEF InputsHold, ReportInv, TakeInputs
  <2> QED BY <1>1, <1>3, <2>1, <2>2, <2>3 DEF ReportInv, TakeInputs
<1> QED BY <1>2, <1>3

LEMMA FinishKeeps ==
    ASSUME ReportInv, FinishPreflight
    PROVE  ReportInv'
<1>1. UNCHANGED <<store, profile, included, ca, proxy, edits>>
    BY DEF FinishPreflight
<1>2. CASE report.of # store
    BY <1>1, <1>2 DEF FinishPreflight, ReportInv
<1>3. CASE report.of = store
  <2>1. PICK n : report' = [report EXCEPT !.phase = "done", !.in.exchanges = n]
    BY <1>3 DEF FinishPreflight
  <2>2. /\ report'.phase = "done" /\ report'.of = report.of /\ report'.moved = report.moved
        /\ report'.in = [report.in EXCEPT !.exchanges = n] /\ DOMAIN report' = DOMAIN report
    BY <2>1 DEF ReportInv, FinishPreflight
  <2>3. /\ DOMAIN report'.in = DOMAIN report.in
        /\ \A f \in InputFields \ {"exchanges"} : report'.in[f] = report.in[f]
    BY <2>2 DEF ReportInv, FinishPreflight
  <2>4. /\ report'.in.project = report.in.project /\ report'.in.authorization = report.in.authorization
        /\ report'.in.included = report.in.included /\ report'.in.ca = report.in.ca
        /\ report'.in.proxy = report.in.proxy /\ report'.in.read = report.in.read
    BY <2>3 DEF InputFields
  <2>5. report.moved \/ InputsHold(report.in)'
    BY <1>1, <2>4 DEF InputsHold, ReportInv, FinishPreflight
  <2>6. report.phase = "summary" /\ DOMAIN report = {"phase", "of", "moved", "in"} /\ DOMAIN report.in = InputFields
    BY DEF ReportInv, FinishPreflight
  <2>7. store.project \in Projects /\ store.gen # 0 /\ report.in.read = store
    BY <1>3, <2>6 DEF ReportInv
  <2> QED BY <1>1, <1>3, <2>2, <2>3, <2>4, <2>5, <2>6, <2>7 DEF ReportInv
<1> QED BY <1>2, <1>3

LEMMA EngagementStep ==
    ASSUME ReportInv, [EngagementNext]_engagementVars
    PROVE  ReportInv'
<1>1. CASE UNCHANGED engagementVars
    BY <1>1 DEF ReportInv, InputsHold, engagementVars
<1>2. CASE OpenProject
  <2>1. PICK p \in Projects : store' = [project |-> p, gen |-> edits.opens + 1]
    BY <1>2 DEF OpenProject
  <2>2. edits'.opens = edits.opens + 1 /\ DOMAIN edits' = DOMAIN edits /\ Touched
    BY <1>2 DEF OpenProject, ReportInv
  <2> QED BY <2>1, <2>2, TouchedKeeps DEF ReportInv
<1>3. CASE CloseProject
    BY <1>3, TouchedKeeps DEF CloseProject, ReportInv
<1>4. ASSUME NEW source, NEW hs, Record(source, hs) PROVE ReportInv'
    BY <1>4, TouchedKeeps DEF Record, ReportInv
<1>5. CASE SetEngagementProfile \/ SetScope \/ ChangeCa \/ ChangeProxy
    BY <1>5, EditKeeps DEF SetEngagementProfile, SetScope, ChangeCa, ChangeProxy
<1>6. CASE Generate \/ Browse
    BY <1>4, <1>6 DEF Generate, Browse
<1> QED BY <1>1, <1>2, <1>3, <1>5, <1>6, BeginKeeps, CountKeeps, TakeKeeps, FinishKeeps DEF EngagementNext

\* A report in the making knows whether it was disturbed, and which store it is
\* of, in every state (session.ts:1607).
THEOREM ReportInductive == EngagementSpec => []ReportInv
<1>1. EngagementInit => ReportInv
    BY DEF EngagementInit, ReportInv, Nothing, Closed
<1>2. ReportInv /\ [EngagementNext]_engagementVars => ReportInv'
    BY EngagementStep
<1> QED BY <1>1, <1>2, PTL DEF EngagementSpec

LEMMA ReportImplies == ReportInv => ReadinessHolds
<1> SUFFICES ASSUME ReportInv, report.phase = "done"
             PROVE  report.in.read = report.of /\ (~report.moved => ReadyMeansReady)
    BY DEF ReadinessHolds, ReportIsOfOneProject, ReadyMeansReady
<1>1. report.in.read = report.of
    BY DEF ReportInv
<1>2. ASSUME ~report.moved PROVE ReadyMeansReady
  <2>1. PICK in : in = report.in
    OBVIOUS
  <2>2. Briefing = IF Ready(BuildPreflight(in)) THEN "briefing" ELSE "BLOCKED"
    <3>1. Ready(BuildPreflight(report.in)) <=> Ready(BuildPreflight(in))
      BY <2>1
    <3> QED BY <3>1 DEF Briefing
  <2>3. CASE store = Closed /\ ~in.included
    BY <2>2, <2>3, ReadyMeans DEF ReadyMeansReady
  <2>4. CASE store.project \in Projects /\ store.gen # 0 /\ InputsHold(in)
    <3>1. store # Closed /\ in.project # "none"
      BY <2>4, ProjectsAssumption DEF Closed, InputsHold
    <3> QED BY <2>2, <2>4, <3>1, ReadyMeans DEF ReadyMeansReady, InputsHold
  <2> QED BY <1>2, <2>1, <2>3, <2>4 DEF ReportInv
<1> QED BY <1>1, <1>2

\* A finished report is of one store, and one that nothing disturbed says ready
\* exactly when the project is (session.ts:962, 1607).
THEOREM ReadinessTrue == EngagementSpec => []ReadinessHolds
BY ReportInductive, ReportImplies, PTL

-----------------------------------------------------------------------------
(* The identity on a request.                                                 *)

\* Headers of which no two have one name.
Apart(hs) == IsSequence(hs) /\ \A k, l \in DOMAIN hs : Lower[hs[k].name] = Lower[hs[l].name] => k = l

\* Each required header is there once, and nothing else goes by its name.
Carries(hs, required) ==
    /\ IsSequence(hs)
    /\ \A i \in AskedFor(hs, required) : hs[i] \in ToSet(required)
    /\ \A i, j \in AskedFor(hs, required) : Lower[hs[i].name] = Lower[hs[j].name] => i = j
    /\ Names(required) \subseteq Names(hs)

\* Where a header of a request went: what is not asked for stays as it was, what
\* is asked for is the required one, and those that were not there come after.
RewrittenAs(out, hs, required, stays, added) ==
    /\ stays = {i \in DOMAIN hs : i \in AskedFor(hs, required) => i \in Firsts(hs)}
    /\ added = {k \in DOMAIN required : Lower[required[k].name] \notin Names(hs)}
    /\ IsSequence(out) /\ DOMAIN out = 1..(Cardinality(stays) + Cardinality(added))
    /\ Len(out) = Cardinality(stays) + Cardinality(added)
    /\ \A k \in 1..Cardinality(stays) :
          IF NthOf(stays, k) \in AskedFor(hs, required)
          THEN out[k] \in ToSet(required) /\ Lower[out[k].name] = Lower[hs[NthOf(stays, k)].name]
          ELSE out[k] = hs[NthOf(stays, k)]
    /\ \A k \in 1..Cardinality(added) : out[Cardinality(stays) + k] = required[NthOf(added, k)]

\* The k-th header of it either stays or is added.
StaysOrAdded(k, out, hs, required, stays, added) ==
    \/ /\ k \in 1..Cardinality(stays)
       /\ NthOf(stays, k) \in stays /\ Lower[out[k].name] = Lower[hs[NthOf(stays, k)].name]
       /\ k \in AskedFor(out, required) <=> NthOf(stays, k) \in AskedFor(hs, required)
       /\ IF k \in AskedFor(out, required) THEN out[k] \in ToSet(required) ELSE out[k] = hs[NthOf(stays, k)]
    \/ \E l \in 1..Cardinality(added) :
          /\ k = Cardinality(stays) + l /\ NthOf(added, l) \in added
          /\ out[k] = required[NthOf(added, l)] /\ out[k] \in ToSet(required)
          /\ k \in AskedFor(out, required) /\ Lower[out[k].name] \notin Names(hs)

\* The positions of a set, numbered in their order.
Numbered(P) ==
    /\ Positions(P) /\ Cardinality(P) \in Nat
    /\ \A k \in 1..Cardinality(P) : NthOf(P, k) \in P
    /\ \A k, l \in 1..Cardinality(P) : k < l => NthOf(P, k) < NthOf(P, l)
    /\ \A i \in P : \E k \in 1..Cardinality(P) : NthOf(P, k) = i

\* The one header of a name that is asked for.
LEMMA OneOfName ==
    ASSUME NEW required, Apart(required), NEW n, n \in Names(required)
    PROVE  \E h \in ToSet(required) : /\ Lower[h.name] = n
                                      /\ \A w \in ToSet(required) : Lower[w.name] = n => w = h
<1>1. PICK k \in DOMAIN required : n = Lower[required[k].name]
    BY DEF Names
<1>2. required[k] \in ToSet(required)
    BY DEF ToSet
<1>3. \A w \in ToSet(required) : Lower[w.name] = n => w = required[k]
    BY <1>1 DEF ToSet, Apart
<1> QED BY <1>1, <1>2, <1>3

LEMMA IdentifiedIs ==
    ASSUME NEW hs, IsSequence(hs), NEW required, Apart(required)
    PROVE  \E stays \in SUBSET DOMAIN hs, added \in SUBSET DOMAIN required :
              RewrittenAs(Identified(hs, required), hs, required, stays, added)
<1> DEFINE Entry(n) == CHOOSE h \in ToSet(required) : Lower[h.name] = Lower[n]
           rewritten == [i \in DOMAIN hs |-> IF i \in AskedFor(hs, required) THEN Entry(hs[i].name) ELSE hs[i]]
           stays == {i \in DOMAIN hs : i \in AskedFor(hs, required) => i \in Firsts(hs)}
           added == {k \in DOMAIN required : Lower[required[k].name] \notin Names(hs)}
           out == Picked(rewritten, stays) \o Picked(required, added)
<1>1. Identified(hs, required) = out
    BY DEF Identified
<1>2. \A i \in DOMAIN hs : i \in AskedFor(hs, required) =>
          rewritten[i] \in ToSet(required) /\ Lower[rewritten[i].name] = Lower[hs[i].name]
  <2> SUFFICES ASSUME NEW i \in DOMAIN hs, i \in AskedFor(hs, required)
               PROVE  Entry(hs[i].name) \in ToSet(required) /\ Lower[Entry(hs[i].name).name] = Lower[hs[i].name]
    OBVIOUS
  <2>1. Lower[hs[i].name] \in Names(required)
    BY DEF AskedFor
  <2>2. \E h \in ToSet(required) : Lower[h.name] = Lower[hs[i].name]
    BY <2>1, OneOfName
  <2> QED BY <2>2
<1>3. \A i \in DOMAIN hs : i \notin AskedFor(hs, required) => rewritten[i] = hs[i]
    OBVIOUS
<1>4. stays \in SUBSET DOMAIN hs /\ added \in SUBSET DOMAIN required
    OBVIOUS
<1> HIDE DEF rewritten
<1>5. Positions(stays) /\ Positions(added)
    BY <1>4, PlacesAreFinite DEF Apart
<1> HIDE DEF stays, added
<1> DEFINE front == Picked(rewritten, stays)
           back == Picked(required, added)
<1>6. /\ IsSequence(front) /\ Len(front) = Cardinality(stays) /\ Cardinality(stays) \in Nat
      /\ \A k \in 1..Cardinality(stays) : NthOf(stays, k) \in stays /\ front[k] = rewritten[NthOf(stays, k)]
    BY <1>5, PickedIs
<1>7. /\ IsSequence(back) /\ Len(back) = Cardinality(added) /\ Cardinality(added) \in Nat
      /\ \A k \in 1..Cardinality(added) : back[k] = required[NthOf(added, k)]
    BY <1>5, PickedIs
<1> HIDE DEF front, back
<1>8. out = front \o back
    BY DEF front, back
<1> HIDE DEF out
<1>9. /\ IsSequence(out) /\ Len(out) = Cardinality(stays) + Cardinality(added)
      /\ DOMAIN out = 1..(Cardinality(stays) + Cardinality(added))
      /\ \A k \in 1..Cardinality(stays) : out[k] = front[k]
      /\ \A k \in 1..Cardinality(added) : out[Cardinality(stays) + k] = back[k]
    BY SMTT(30), <1>6, <1>7, <1>8, JoinedIs
<1>10. \A k \in 1..Cardinality(stays) :
          IF NthOf(stays, k) \in AskedFor(hs, required)
          THEN out[k] \in ToSet(required) /\ Lower[out[k].name] = Lower[hs[NthOf(stays, k)].name]
          ELSE out[k] = hs[NthOf(stays, k)]
  <2> SUFFICES ASSUME NEW k \in 1..Cardinality(stays)
               PROVE  IF NthOf(stays, k) \in AskedFor(hs, required)
                      THEN out[k] \in ToSet(required) /\ Lower[out[k].name] = Lower[hs[NthOf(stays, k)].name]
                      ELSE out[k] = hs[NthOf(stays, k)]
    OBVIOUS
  <2>1. PICK i : i = NthOf(stays, k)
    OBVIOUS
  <2>2. out[k] = rewritten[i] /\ i \in DOMAIN hs
    BY <1>4, <1>6, <1>9, <2>1
  <2> QED BY <1>2, <1>3, <2>1, <2>2
<1>11. \A k \in 1..Cardinality(added) : out[Cardinality(stays) + k] = required[NthOf(added, k)]
    BY <1>7, <1>9
<1>12. RewrittenAs(out, hs, required, stays, added)
    BY <1>9, <1>10, <1>11 DEF RewrittenAs, stays, added
<1> QED BY <1>1, <1>4, <1>12

\* A request is never longer than with all that is required.
LEMMA RewriteIsBounded ==
    ASSUME NEW hs, IsSequence(hs), NEW required, Apart(required), NEW out,
           NEW stays \in SUBSET DOMAIN hs, NEW added \in SUBSET DOMAIN required,
           RewrittenAs(out, hs, required, stays, added)
    PROVE  Len(out) <= Len(hs) + Len(required) /\ Numbered(stays) /\ Numbered(added)
<1>1. /\ Positions(stays) /\ Cardinality(stays) <= Len(hs) /\ Len(hs) \in Nat
      /\ Positions(added) /\ Cardinality(added) <= Len(required) /\ Len(required) \in Nat
    BY PlacesAreFinite DEF Apart
<1>2. Cardinality(stays) \in Nat /\ Cardinality(added) \in Nat
    BY <1>1, RankIs
<1>3. Len(out) <= Len(hs) + Len(required)
    BY <1>1, <1>2 DEF RewrittenAs
<1>4. \A P : Positions(P) => Numbered(P)
    BY NthIs, RankIs DEF Numbered
<1> QED BY <1>1, <1>3, <1>4

\* Where a header of the rewritten request came from.
LEMMA ComesFrom ==
    ASSUME NEW hs, IsSequence(hs), NEW required, Apart(required), NEW out,
           NEW stays \in SUBSET DOMAIN hs, NEW added \in SUBSET DOMAIN required,
           RewrittenAs(out, hs, required, stays, added), NEW k \in DOMAIN out
    PROVE  StaysOrAdded(k, out, hs, required, stays, added)
<1>1. /\ Cardinality(stays) \in Nat /\ Cardinality(added) \in Nat
      /\ \A j \in 1..Cardinality(stays) : NthOf(stays, j) \in stays
      /\ \A j \in 1..Cardinality(added) : NthOf(added, j) \in added
    BY RewriteIsBounded DEF Numbered
<1>2. DOMAIN out = 1..(Cardinality(stays) + Cardinality(added))
    BY DEF RewrittenAs
<1>3. CASE k \in 1..Cardinality(stays)
  <2>1. PICK i \in stays : i = NthOf(stays, k)
    BY <1>1, <1>3
  <2>2. IF i \in AskedFor(hs, required)
        THEN out[k] \in ToSet(required) /\ Lower[out[k].name] = Lower[hs[i].name]
        ELSE out[k] = hs[i]
    BY <1>3, <2>1 DEF RewrittenAs
  <2>3. Lower[out[k].name] = Lower[hs[i].name]
    BY <2>2
  <2>4. k \in AskedFor(out, required) <=> i \in AskedFor(hs, required)
    BY <2>3 DEF AskedFor
  <2> QED BY <1>3, <2>1, <2>2, <2>3, <2>4 DEF StaysOrAdded
<1>4. CASE k \notin 1..Cardinality(stays)
  <2>1. PICK l \in 1..Cardinality(added) : k = Cardinality(stays) + l
    <3>1. k - Cardinality(stays) \in 1..Cardinality(added) /\ k = Cardinality(stays) + (k - Cardinality(stays))
      BY <1>1, <1>2, <1>4
    <3> QED BY <3>1
  <2>2. PICK i \in added : i = NthOf(added, l)
    BY <1>1
  <2>3. out[k] = required[i]
    BY <2>1, <2>2 DEF RewrittenAs
  <2>4. Lower[required[i].name] \notin Names(hs)
    BY DEF RewrittenAs
  <2>5. required[i] \in ToSet(required) /\ Lower[required[i].name] \in Names(required)
    BY DEF ToSet, Names
  <2>6. k \in AskedFor(out, required)
    BY <2>3, <2>5 DEF AskedFor
  <2> QED BY <2>1, <2>2, <2>3, <2>4, <2>5, <2>6 DEF StaysOrAdded
<1> QED BY <1>3, <1>4

\* The rewritten request has each required header once.
LEMMA RewriteCarries ==
    ASSUME NEW hs, IsSequence(hs), NEW required, Apart(required), NEW out,
           NEW stays \in SUBSET DOMAIN hs, NEW added \in SUBSET DOMAIN required,
           RewrittenAs(out, hs, required, stays, added)
    PROVE  Carries(out, required)
<1>1. IsSequence(out) /\ DOMAIN out = 1..(Cardinality(stays) + Cardinality(added))
    BY DEF RewrittenAs
<1>2. /\ Positions(stays) /\ Positions(added)
      /\ Cardinality(stays) \in Nat /\ Cardinality(added) \in Nat
      /\ \A k, l \in 1..Cardinality(stays) : k < l => NthOf(stays, k) < NthOf(stays, l)
      /\ \A i \in stays : \E k \in 1..Cardinality(stays) : NthOf(stays, k) = i
      /\ \A k, l \in 1..Cardinality(added) : k < l => NthOf(added, k) < NthOf(added, l)
      /\ \A i \in added : \E k \in 1..Cardinality(added) : NthOf(added, k) = i
  <2>1. Numbered(stays) /\ Numbered(added)
    BY RewriteIsBounded
  <2> QED BY <2>1 DEF Numbered
<1>3. \A i \in AskedFor(out, required) : out[i] \in ToSet(required)
  <2> SUFFICES ASSUME NEW i \in AskedFor(out, required) PROVE out[i] \in ToSet(required)
    OBVIOUS
  <2>1. i \in DOMAIN out
    BY DEF AskedFor
  <2> QED BY <2>1, ComesFrom DEF StaysOrAdded
<1>4. \A i, j \in AskedFor(out, required) : Lower[out[i].name] = Lower[out[j].name] => i = j
  <2> SUFFICES ASSUME NEW i \in AskedFor(out, required), NEW j \in AskedFor(out, required),
                      Lower[out[i].name] = Lower[out[j].name]
               PROVE  i = j
    OBVIOUS
  <2>1. i \in DOMAIN out /\ j \in DOMAIN out /\ i \in Nat /\ j \in Nat
    BY <1>1, <1>2 DEF AskedFor
  <2> DEFINE Stayed(k) == /\ k \in 1..Cardinality(stays) /\ NthOf(stays, k) \in stays
                          /\ Lower[out[k].name] = Lower[hs[NthOf(stays, k)].name]
                          /\ NthOf(stays, k) \in AskedFor(hs, required)
             Added(k) == \E l \in 1..Cardinality(added) :
                            /\ k = Cardinality(stays) + l /\ NthOf(added, l) \in added
                            /\ out[k] = required[NthOf(added, l)] /\ Lower[out[k].name] \notin Names(hs)
  <2>2. (Stayed(i) \/ Added(i)) /\ (Stayed(j) \/ Added(j))
    BY <2>1, ComesFrom DEF StaysOrAdded
  <2>3. \A k : Stayed(k) => Lower[out[k].name] \in Names(hs)
    BY DEF Names
  <2>4. CASE Stayed(i) /\ Stayed(j)
    <3>1. PICK a \in stays : a = NthOf(stays, i) /\ a \in AskedFor(hs, required) /\ Lower[out[i].name] = Lower[hs[a].name]
      BY <2>4
    <3>2. PICK b \in stays : b = NthOf(stays, j) /\ b \in AskedFor(hs, required) /\ Lower[out[j].name] = Lower[hs[b].name]
      BY <2>4
    <3>3. a \in Firsts(hs) /\ b \in Firsts(hs)
      BY <3>1, <3>2 DEF RewrittenAs
    <3>4. Len(hs) \in Nat /\ DOMAIN hs = 1..Len(hs)
      BY PlacesAreFinite
    <3>5. a \in 1..Len(hs) /\ b \in 1..Len(hs)
      BY <3>4
    <3>6. ~(a < b) /\ ~(b < a)
      <4>1. a < b => a \in 1..(b - 1)
        BY <3>4, <3>5
      <4>2. b < a => b \in 1..(a - 1)
        BY <3>4, <3>5
      <4>3. Lower[hs[a].name] = Lower[hs[b].name]
        BY <3>1, <3>2
      <4> QED BY <3>3, <4>1, <4>2, <4>3 DEF Firsts
    <3>7. ~(i < j) /\ ~(j < i)
      BY <1>2, <2>4, <3>1, <3>2, <3>6
    <3> QED BY <2>1, <3>7
  <2>5. CASE Added(i) /\ Added(j)
    <3>1. PICK k \in 1..Cardinality(added) : i = Cardinality(stays) + k /\ out[i] = required[NthOf(added, k)] /\ NthOf(added, k) \in added
      BY <2>5
    <3>2. PICK l \in 1..Cardinality(added) : j = Cardinality(stays) + l /\ out[j] = required[NthOf(added, l)] /\ NthOf(added, l) \in added
      BY <2>5
    <3>3. NthOf(added, k) = NthOf(added, l)
      BY <3>1, <3>2 DEF Apart
    <3>4. NthOf(added, k) \in Nat
      BY <1>2, <3>1 DEF Positions
    <3>5. ~(k < l) /\ ~(l < k)
      BY <1>2, <3>3, <3>4
    <3> QED BY <1>2, <3>1, <3>2, <3>5
  <2>6. CASE (Stayed(i) /\ Added(j)) \/ (Added(i) /\ Stayed(j))
    BY <2>3, <2>6
  <2> HIDE DEF Stayed, Added
  <2> QED BY <2>2, <2>4, <2>5, <2>6
<1>5. Names(required) \subseteq Names(out)
  <2> SUFFICES ASSUME NEW n, n \in Names(required) PROVE \E i \in DOMAIN out : Lower[out[i].name] = n
    BY DEF Names
  <2>1. CASE n \in Names(hs)
    <3> DEFINE places == {i \in DOMAIN hs : Lower[hs[i].name] = n}
    <3>1. places # {} /\ Positions(places)
      <4>1. places \in SUBSET DOMAIN hs /\ places # {}
        BY <2>1 DEF Names
      <4> HIDE DEF places
      <4> QED BY <4>1, PlacesAreFinite
    <3>2. PICK i \in places : \A j \in places : i <= j
      <4> HIDE DEF places
      <4> QED BY <3>1, EndsAre
    <3>3. i \in Firsts(hs)
      <4>1. Len(hs) \in Nat /\ DOMAIN hs = 1..Len(hs) /\ i \in 1..Len(hs)
        BY PlacesAreFinite
      <4>2. ASSUME NEW j \in 1..(i - 1), Lower[hs[j].name] = n PROVE FALSE
        <5>1. j \in places /\ j < i /\ j \in Nat /\ i \in Nat
          BY <4>1, <4>2
        <5>2. i <= j
          BY <3>2, <5>1
        <5> QED BY <5>1, <5>2
      <4> QED BY <4>2 DEF Firsts
    <3>4. i \in stays
      BY <3>3 DEF RewrittenAs
    <3>5. PICK k \in 1..Cardinality(stays) : NthOf(stays, k) = i
      BY <1>2, <3>4
    <3>6. k \in DOMAIN out
      BY <1>1, <1>2
    <3>7. i \in AskedFor(hs, required)
      BY DEF AskedFor
    <3>8. Lower[out[k].name] = Lower[hs[i].name]
      BY <3>5, <3>7 DEF RewrittenAs
    <3> QED BY <3>6, <3>8
  <2>2. CASE n \notin Names(hs)
    <3>1. PICK i \in DOMAIN required : n = Lower[required[i].name]
      BY DEF Names
    <3>2. i \in added
      BY <2>2, <3>1 DEF RewrittenAs
    <3>3. PICK l \in 1..Cardinality(added) : NthOf(added, l) = i
      BY <1>2, <3>2
    <3>4. Cardinality(stays) + l \in DOMAIN out
      BY <1>1, <1>2
    <3>5. out[Cardinality(stays) + l] = required[i]
      BY <3>3 DEF RewrittenAs
    <3> QED BY <3>1, <3>4, <3>5
  <2> QED BY <2>1, <2>2
<1> QED BY <1>1, <1>3, <1>4, <1>5 DEF Carries

\* What is not asked for stays as it was written, in its order.
LEMMA OthersStay ==
    ASSUME NEW hs, IsSequence(hs), NEW required, Apart(required), NEW out,
           NEW stays \in SUBSET DOMAIN hs, NEW added \in SUBSET DOMAIN required,
           RewrittenAs(out, hs, required, stays, added)
    PROVE  Picked(out, DOMAIN out \ AskedFor(out, required)) = Picked(hs, DOMAIN hs \ AskedFor(hs, required))
<1> DEFINE P == DOMAIN out \ AskedFor(out, required)
           Q == DOMAIN hs \ AskedFor(hs, required)
           f == [k \in P |-> NthOf(stays, k)]
<1>1. /\ \A k, l \in 1..Cardinality(stays) : k < l => NthOf(stays, k) < NthOf(stays, l)
      /\ \A i \in stays : \E k \in 1..Cardinality(stays) : NthOf(stays, k) = i
      /\ Cardinality(stays) \in Nat /\ Cardinality(added) \in Nat
  <2>1. Numbered(stays) /\ Numbered(added)
    BY RewriteIsBounded
  <2> QED BY <2>1 DEF Numbered
<1>2. \A k \in P : k \in 1..Cardinality(stays) /\ f[k] \in Q /\ out[k] = hs[f[k]]
  <2> SUFFICES ASSUME NEW k \in P
               PROVE  /\ k \in 1..Cardinality(stays) /\ NthOf(stays, k) \in Q
                      /\ out[k] = hs[NthOf(stays, k)]
    OBVIOUS
  <2>1. k \in DOMAIN out /\ k \notin AskedFor(out, required)
    OBVIOUS
  <2>2. /\ k \in 1..Cardinality(stays) /\ NthOf(stays, k) \in stays
        /\ NthOf(stays, k) \notin AskedFor(hs, required) /\ out[k] = hs[NthOf(stays, k)]
    <3>1. StaysOrAdded(k, out, hs, required, stays, added)
      BY <2>1, ComesFrom
    <3> QED BY <2>1, <3>1 DEF StaysOrAdded
  <2> QED BY <2>2
<1>3. \A q \in Q : \E k \in P : f[k] = q
  <2> SUFFICES ASSUME NEW q \in Q PROVE \E k \in P : NthOf(stays, k) = q
    OBVIOUS
  <2>1. q \in stays
    BY DEF RewrittenAs
  <2>2. PICK k \in 1..Cardinality(stays) : NthOf(stays, k) = q
    BY <1>1, <2>1
  <2>3. k \in DOMAIN out
    BY <1>1 DEF RewrittenAs
  <2>4. out[k] = hs[q]
    BY <2>2 DEF RewrittenAs
  <2>5. k \notin AskedFor(out, required)
    BY <2>4 DEF AskedFor
  <2> QED BY <2>2, <2>3, <2>5
<1>4. \A i, j \in P : i < j => f[i] < f[j]
    BY <1>1, <1>2
<1>5. Positions(P) /\ Positions(Q)
    BY PlacesAreFinite DEF RewrittenAs
<1>6. f \in [P -> Q]
    BY <1>2
<1> HIDE DEF P, Q, f
<1>7. Picked(out, P) = Picked(hs, Q)
    BY <1>2, <1>3, <1>4, <1>5, <1>6, PickedSame
<1> QED BY <1>7 DEF P, Q

\* A request that has what is required is left as it is.
LEMMA CarriedStays ==
    ASSUME NEW hs, NEW required, Apart(required), Carries(hs, required)
    PROVE  Identified(hs, required) = hs
<1> DEFINE Entry(n) == CHOOSE h \in ToSet(required) : Lower[h.name] = Lower[n]
           rewritten == [i \in DOMAIN hs |-> IF i \in AskedFor(hs, required) THEN Entry(hs[i].name) ELSE hs[i]]
           stays == {i \in DOMAIN hs : i \in AskedFor(hs, required) => i \in Firsts(hs)}
           added == {k \in DOMAIN required : Lower[required[k].name] \notin Names(hs)}
<1>1. Identified(hs, required) = Picked(rewritten, stays) \o Picked(required, added)
    BY DEF Identified
<1>2. /\ IsSequence(hs) /\ Len(hs) \in Nat /\ DOMAIN hs = 1..Len(hs)
      /\ hs = [i \in DOMAIN hs |-> hs[i]]
    BY PlacesAreFinite DEF Carries, IsSequence
<1>3. rewritten = hs
  <2>1. ASSUME NEW i \in AskedFor(hs, required) PROVE Entry(hs[i].name) = hs[i]
    <3>1. Lower[hs[i].name] \in Names(required) /\ hs[i] \in ToSet(required)
      BY DEF AskedFor, Carries
    <3>2. \E h \in ToSet(required) : /\ Lower[h.name] = Lower[hs[i].name]
                                     /\ \A w \in ToSet(required) : Lower[w.name] = Lower[hs[i].name] => w = h
      BY <3>1, OneOfName
    <3> QED BY <3>1, <3>2
  <2> HIDE DEF Entry
  <2>2. \A i \in DOMAIN hs : (IF i \in AskedFor(hs, required) THEN Entry(hs[i].name) ELSE hs[i]) = hs[i]
    BY <2>1
  <2> QED BY <1>2, <2>2
<1>4. stays = DOMAIN hs
  <2>1. ASSUME NEW i \in AskedFor(hs, required) PROVE i \in Firsts(hs)
    <3>1. i \in DOMAIN hs
      BY DEF AskedFor
    <3>2. ASSUME NEW j \in 1..(i - 1), Lower[hs[j].name] = Lower[hs[i].name] PROVE FALSE
      <4>1. j \in DOMAIN hs /\ j # i
        BY <1>2, <3>1
      <4>2. j \in AskedFor(hs, required)
        BY <3>2, <4>1 DEF AskedFor
      <4> QED BY <3>2, <4>1, <4>2 DEF Carries
    <3> QED BY <3>1, <3>2 DEF Firsts
  <2> QED BY <2>1 DEF AskedFor
<1>5. added = {}
    BY DEF Carries, Names
<1>6. Picked(rewritten, stays) = hs /\ Picked(required, added) = <<>>
    BY <1>2, <1>3, <1>4, <1>5, PickedAll, PickedNone
<1>7. hs \o <<>> = hs
  <2>1. hs \in Seq(ToSet(hs))
    BY <1>2 DEF IsSequence
  <2> QED BY <2>1, ConcatEmptySeq
<1> QED BY <1>1, <1>6, <1>7

\* A request that has what is required misses nothing of it.
LEMMA CarriedIsThere ==
    ASSUME NEW hs, NEW required, Apart(required), Carries(hs, required), NEW w \in ToSet(required)
    PROVE  LET got == {i \in DOMAIN hs : Lower[hs[i].name] = Lower[w.name]}
           IN Cardinality(got) = 1 /\ \A i \in got : hs[i].value = w.value
<1> DEFINE got == {i \in DOMAIN hs : Lower[hs[i].name] = Lower[w.name]}
<1>1. Lower[w.name] \in Names(required)
    BY DEF ToSet, Names
<1>2. PICK i \in DOMAIN hs : Lower[hs[i].name] = Lower[w.name]
    BY <1>1 DEF Carries, Names
<1>3. \A j \in got : j \in AskedFor(hs, required)
    BY <1>1 DEF AskedFor
<1>4. got = {i}
    BY <1>2, <1>3 DEF Carries
<1>5. Cardinality(got) = 1
    BY <1>4, FS_Singleton
<1>6. \A j \in got : hs[j] = w
  <2> SUFFICES ASSUME NEW j \in got PROVE hs[j] = w
    OBVIOUS
  <2>1. hs[j] \in ToSet(required) /\ Lower[hs[j].name] = Lower[w.name]
    BY <1>3 DEF Carries
  <2>2. \E h \in ToSet(required) : \A v \in ToSet(required) : Lower[v.name] = Lower[w.name] => v = h
    BY <1>1, OneOfName
  <2> QED BY <2>1, <2>2
<1> QED BY <1>5, <1>6

\* What a profile requires: valid headers of different names, no more than the
\* limit and the User-Agent.
LEMMA RequiredIs ==
    ASSUME NEW prof, IsSequence(prof.headers)
    PROVE  /\ Apart(RequiredIdentityHeaders(prof))
           /\ \A h \in ToSet(RequiredIdentityHeaders(prof)) : Valid(h)
           /\ Len(RequiredIdentityHeaders(prof)) <= MaxIdentityHeaders + 1
<1> DEFINE hs == prof.headers
           P == {i \in DOMAIN hs : /\ Valid(hs[i]) /\ Lower[hs[i].name] # UserAgent
                                   /\ \A j \in 1..(i - 1) : Valid(hs[j]) => Lower[hs[j].name] # Lower[hs[i].name]}
           others == Sendable(prof)
           first == IF HasUserAgent(prof) THEN <<Header(UserAgent, prof.ua)>> ELSE <<>>
           room == Max({1, MaxIdentityHeaders - Len(first)})
           m == Min({room, Len(others)})
<1>1. others = Picked(hs, P)
    BY DEF Sendable
<1>2. P \in SUBSET DOMAIN hs /\ Len(hs) \in Nat /\ DOMAIN hs = 1..Len(hs) /\ Positions(P)
  <2>1. P \in SUBSET DOMAIN hs
    OBVIOUS
  <2> HIDE DEF P
  <2> QED BY <2>1, PlacesAreFinite
<1>3. \A i, j \in P : i < j => Lower[hs[i].name] # Lower[hs[j].name]
  <2> SUFFICES ASSUME NEW i \in P, NEW j \in P, i < j PROVE Lower[hs[i].name] # Lower[hs[j].name]
    OBVIOUS
  <2>1. i \in 1..(j - 1) /\ Valid(hs[i])
    BY <1>2
  <2> QED BY <2>1
<1>4. \A i \in P : Valid(hs[i]) /\ Lower[hs[i].name] # UserAgent
    OBVIOUS
<1> HIDE DEF P
<1>5. /\ IsSequence(others) /\ Len(others) \in Nat /\ DOMAIN others = 1..Len(others)
      /\ \A k \in 1..Len(others) : NthOf(P, k) \in P /\ others[k] = hs[NthOf(P, k)]
      /\ \A k, l \in 1..Len(others) : k < l => NthOf(P, k) < NthOf(P, l)
    BY <1>1, <1>2, PickedIs, NthIs
<1>6. \A k \in 1..Len(others) : Valid(others[k]) /\ Lower[others[k].name] # UserAgent
    BY <1>4, <1>5
<1>7. \A k, l \in 1..Len(others) : k < l => Lower[others[k].name] # Lower[others[l].name]
    BY <1>3, <1>5
<1>8. /\ IsSequence(first) /\ Len(first) \in {0, 1} /\ DOMAIN first = 1..Len(first)
      /\ \A k \in 1..Len(first) : Valid(first[k]) /\ Lower[first[k].name] = UserAgent
  <2>1. CASE HasUserAgent(prof)
    <3> DEFINE ua == Header(UserAgent, prof.ua)
    <3>1. Valid(ua) /\ Lower[ua.name] = UserAgent
      BY <2>1, IdentityAssumption DEF Valid, Header, HasUserAgent
    <3>2. first = <<ua>>
      BY <2>1
    <3> HIDE DEF ua
    <3>3. <<ua>> \in Seq({ua}) /\ Len(<<ua>>) = 1 /\ <<ua>>[1] = ua
      OBVIOUS
    <3>4. IsSequence(<<ua>>) /\ DOMAIN <<ua>> = 1..1
      BY <3>3, SequenceIs
    <3>5. 1..1 = {1}
      OBVIOUS
    <3> HIDE DEF first
    <3> QED BY <3>1, <3>2, <3>3, <3>4, <3>5
  <2>2. CASE ~HasUserAgent(prof)
    <3>1. first = <<>> /\ 1..0 = {}
      BY <2>2
    <3> HIDE DEF first
    <3> QED BY <3>1, EmptyIs
  <2> QED BY <2>1, <2>2
<1> HIDE DEF first, others
<1>9. room \in Nat /\ m \in 0..Len(others) /\ m <= room /\ room + Len(first) <= MaxIdentityHeaders + 1
  <2>1. \A x, y \in Int : Max({x, y}) = IF x >= y THEN x ELSE y
    BY DEF Max
  <2>2. \A x, y \in Int : Min({x, y}) = IF x <= y THEN x ELSE y
    BY DEF Min
  <2>3. MaxIdentityHeaders \in Nat \ {0} /\ Len(first) \in {0, 1}
    BY <1>8, IdentityAssumption
  <2>4. 1 \in Int /\ MaxIdentityHeaders - Len(first) \in Int
    BY <2>3
  <2>5. room = IF 1 >= MaxIdentityHeaders - Len(first) THEN 1 ELSE MaxIdentityHeaders - Len(first)
    BY <2>1, <2>4
  <2> HIDE DEF room
  <2>6. PICK r, l, most : r = room /\ l = Len(first) /\ most = MaxIdentityHeaders
    OBVIOUS
  <2>7. r \in Nat /\ r + l <= most + 1
    <3>1. most \in Nat /\ most >= 1 /\ (l = 0 \/ l = 1)
      BY <2>3, <2>6
    <3>2. r = IF 1 >= most - l THEN 1 ELSE most - l
      BY <2>5, <2>6
    <3> QED BY <3>1, <3>2
  <2>8. PICK k : k = Len(others) /\ k \in Nat
    BY <1>5
  <2>9. m = IF r <= k THEN r ELSE k
    BY <2>2, <2>6, <2>7, <2>8
  <2>10. m \in 0..k /\ m <= r
    <3> HIDE DEF m
    <3> QED BY <2>7, <2>8, <2>9
  <2> QED BY <2>6, <2>7, <2>8, <2>10
<1> HIDE DEF room
<1> DEFINE part == SubSeq(others, 1, m)
<1>10. RequiredIdentityHeaders(prof) = first \o part
    BY DEF RequiredIdentityHeaders, first, others, room
<1> HIDE DEF m
<1>11. /\ IsSequence(part) /\ Len(part) = m /\ DOMAIN part = 1..m
       /\ \A i \in 1..m : part[i] = others[i]
  <2>1. 1 \in 1..(Len(others) + 1) /\ 1 <= m + 1 /\ m - 1 + 1 = m
    BY <1>5, <1>9
  <2>2. /\ IsSequence(part) /\ Len(part) = m - 1 + 1 /\ DOMAIN part = 1..(m - 1 + 1)
        /\ \A i \in 1..(m - 1 + 1) : part[i] = others[1 + i - 1]
    BY <1>5, <1>9, <2>1, PartIs
  <2>3. \A i \in 1..m : 1 + i - 1 = i
    OBVIOUS
  <2> QED BY <2>1, <2>2, <2>3
<1> HIDE DEF part
<1>12. PICK required : required = first \o part
    OBVIOUS
<1>13. /\ IsSequence(required) /\ Len(required) = Len(first) + m /\ DOMAIN required = 1..(Len(first) + m)
       /\ \A i \in 1..Len(first) : required[i] = first[i]
       /\ \A i \in 1..m : required[Len(first) + i] = part[i]
    BY <1>8, <1>11, <1>12, JoinedIs
<1>14. \A k \in DOMAIN required : \/ k \in 1..Len(first) /\ required[k] = first[k]
                                  \/ \E i \in 1..m : k = Len(first) + i /\ required[k] = others[i]
  <2> SUFFICES ASSUME NEW k \in 1..(Len(first) + m), k \notin 1..Len(first)
               PROVE  \E i \in 1..m : k = Len(first) + i /\ required[k] = others[i]
    BY <1>13
  <2>1. k - Len(first) \in 1..m /\ k = Len(first) + (k - Len(first))
    BY <1>8, <1>9
  <2> QED BY <1>11, <1>13, <2>1
<1>15. \A k \in DOMAIN required : Valid(required[k])
    BY <1>6, <1>8, <1>9, <1>14
<1>16. \A k, l \in DOMAIN required : Lower[required[k].name] = Lower[required[l].name] => k = l
  <2> SUFFICES ASSUME NEW k \in DOMAIN required, NEW l \in DOMAIN required,
                      Lower[required[k].name] = Lower[required[l].name]
               PROVE  k = l
    OBVIOUS
  <2>1. \A i \in 1..m : i \in 1..Len(others)
    BY <1>5, <1>9
  <2>2. CASE k \in 1..Len(first) /\ l \in 1..Len(first)
    BY <1>8, <2>2
  <2>3. CASE \E i \in 1..m : k = Len(first) + i /\ required[k] = others[i]
    <3>1. PICK i \in 1..m : k = Len(first) + i /\ required[k] = others[i]
      BY <2>3
    <3>2. Lower[required[k].name] # UserAgent
      BY <1>6, <2>1, <3>1
    <3>3. PICK j \in 1..m : l = Len(first) + j /\ required[l] = others[j]
      BY <1>8, <1>14, <3>2
    <3>4. ~(i < j) /\ ~(j < i)
      BY <1>7, <2>1, <3>1, <3>3
    <3>5. i \in Nat /\ j \in Nat
      BY <1>9
    <3> QED BY <3>1, <3>3, <3>4, <3>5
  <2>4. CASE \E j \in 1..m : l = Len(first) + j /\ required[l] = others[j]
    <3>1. PICK j \in 1..m : l = Len(first) + j /\ required[l] = others[j]
      BY <2>4
    <3>2. Lower[required[l].name] # UserAgent
      BY <1>6, <2>1, <3>1
    <3>3. \E i \in 1..m : k = Len(first) + i /\ required[k] = others[i]
      BY <1>8, <1>14, <3>2
    <3> QED BY <2>3, <3>3
  <2> QED BY <1>14, <2>2, <2>3, <2>4
<1>17. Apart(required)
    BY <1>13, <1>16 DEF Apart
<1>18. \A h \in ToSet(required) : Valid(h)
    BY <1>15 DEF ToSet
<1>19. Len(required) <= MaxIdentityHeaders + 1
    BY <1>8, <1>9, <1>13, IdentityAssumption
<1> QED BY <1>10, <1>12, <1>17, <1>18, <1>19

\* Headers of different names have as many names.
LEMMA NamesOfApart ==
    ASSUME NEW hs, Apart(hs)
    PROVE  Cardinality(Names(hs)) = Len(hs)
<1> DEFINE f == [k \in DOMAIN hs |-> Lower[hs[k].name]]
<1>1. Len(hs) \in Nat /\ DOMAIN hs = 1..Len(hs)
    BY PlacesAreFinite DEF Apart
<1>2. \A n \in Nat : IsFiniteSet(1..n) /\ Cardinality(1..n) = n
    BY FS_Interval
<1>3. f \in [DOMAIN hs -> Names(hs)]
    BY DEF Names
<1>4. \A n \in Names(hs) : \E k \in DOMAIN hs : f[k] = n
    BY DEF Names
<1>5. \A k, l \in DOMAIN hs : f[k] = f[l] => k = l
    BY DEF Apart
<1> HIDE DEF f
<1>6. Cardinality(Names(hs)) = Cardinality(DOMAIN hs)
    BY <1>1, <1>2, <1>3, <1>4, <1>5, SameSize
<1> QED BY <1>1, <1>2, <1>6

\* The newest rows: as many as the limit allows, the last of them among them.
LEMMA NewestIs ==
    ASSUME NEW rows, Positions(rows)
    PROVE  /\ Newest(rows) \subseteq rows /\ Positions(Newest(rows))
           /\ Cardinality(Newest(rows)) = Min({Limit, Cardinality(rows)})
           /\ rows # {} => Max(rows) \in Newest(rows)
<1> DEFINE n == Cardinality(rows)
           low == IF n > Limit THEN n - Limit + 1 ELSE 1
           f == [k \in low..n |-> NthOf(rows, k)]
<1>1. n \in Nat /\ Limit \in Nat \ {0} /\ rows \subseteq Nat /\ IsFiniteSet(rows)
    BY FS_CardinalityType, IdentityAssumption DEF Positions
<1>2. \A i \in rows : RankIn(rows, i) \in 1..n
    BY RankIs
<1>3. \A i \in rows : i \in Newest(rows) <=> RankIn(rows, i) >= low
  <2> SUFFICES ASSUME NEW i \in rows
               PROVE  Cardinality({j \in rows : j > i}) < Limit <=> RankIn(rows, i) >= low
    BY DEF Newest
  <2> DEFINE A == {j \in rows : j <= i}
             B == {j \in rows : j > i}
  <2>1. A \cup B = rows /\ A \cap B = {}
    <3>1. i \in Nat /\ \A j \in rows : j \in Nat
      BY <1>1
    <3>2. \A j \in rows : (j <= i \/ j > i) /\ ~(j <= i /\ j > i)
      BY <3>1
    <3> QED BY <3>2
  <2>2. IsFiniteSet(A) /\ IsFiniteSet(B)
    BY <1>1, FS_Subset, A \in SUBSET rows, B \in SUBSET rows
  <2> HIDE DEF A, B
  <2>3. Cardinality(A) \in Nat /\ Cardinality(B) \in Nat /\ Cardinality(A \cap B) = 0
    BY <2>1, <2>2, FS_CardinalityType, FS_EmptySet
  <2>4. Cardinality(A \cup B) = Cardinality(A) + Cardinality(B) - Cardinality(A \cap B)
    BY <2>2, FS_Union
  <2>5. n = Cardinality(A) + Cardinality(B)
    <3>1. n = Cardinality(A \cup B)
      BY <2>1
    <3> HIDE DEF n
    <3> QED BY <2>3, <2>4, <3>1
  <2>6. Cardinality(B) < Limit <=> Cardinality(A) >= low
    <3>1. PICK a, b, k, l : a = Cardinality(A) /\ b = Cardinality(B) /\ k = n /\ l = Limit
      OBVIOUS
    <3>2. a \in Nat \ {0} /\ b \in Nat /\ k = a + b /\ l \in Nat \ {0}
      <4>1. Cardinality(A) \in 1..n
        BY <1>2 DEF RankIn, A
      <4> QED BY <1>1, <2>3, <2>5, <3>1, <4>1
    <3>3. b < l <=> a >= (IF k > l THEN k - l + 1 ELSE 1)
      <4>1. CASE k > l
        BY <3>2, <4>1
      <4>2. CASE ~(k > l)
        BY <3>2, <4>2
      <4> QED BY <4>1, <4>2
    <3> QED BY <3>1, <3>3
  <2> QED BY <2>6 DEF RankIn, A, B
<1>4. /\ \A k \in 1..n : NthOf(rows, k) \in rows /\ RankIn(rows, NthOf(rows, k)) = k
      /\ \A i \in rows : NthOf(rows, RankIn(rows, i)) = i
    BY NthIs
<1>5. low \in 1..(n + 1) /\ low \in Int /\ \A k \in low..n : k \in 1..n /\ k >= low
    BY <1>1
<1>6. /\ f \in [low..n -> Newest(rows)]
      /\ \A k, l \in low..n : f[k] = f[l] => k = l
      /\ \A i \in Newest(rows) : \E k \in low..n : f[k] = i
  <2> HIDE DEF low
  <2>1. f \in [low..n -> Newest(rows)]
    <3>1. \A k \in low..n : NthOf(rows, k) \in Newest(rows)
      BY <1>3, <1>4, <1>5
    <3> QED BY <3>1
  <2>2. \A k, l \in low..n : f[k] = f[l] => k = l
    BY <1>4, <1>5
  <2>3. \A i \in Newest(rows) : \E k \in low..n : f[k] = i
    <3> SUFFICES ASSUME NEW i \in Newest(rows) PROVE \E k \in low..n : NthOf(rows, k) = i
      OBVIOUS
    <3>1. i \in rows
      BY DEF Newest
    <3>2. RankIn(rows, i) \in low..n
      BY <1>1, <1>2, <1>3, <1>5, <3>1
    <3> QED BY <1>4, <3>1, <3>2
  <2> QED BY <2>1, <2>2, <2>3
<1> HIDE DEF f
<1>7. IsFiniteSet(low..n) /\ Cardinality(low..n) = IF low > n THEN 0 ELSE n - low + 1
  <2> HIDE DEF low
  <2>1. \A a, b \in Int : IsFiniteSet(a..b) /\ Cardinality(a..b) = IF a > b THEN 0 ELSE b - a + 1
    BY FS_Interval
  <2>2. PICK a, b : a = low /\ b = n /\ a \in Int /\ b \in Int
    BY <1>1, <1>5
  <2>3. IsFiniteSet(a..b) /\ Cardinality(a..b) = IF a > b THEN 0 ELSE b - a + 1
    BY <2>1, <2>2
  <2> QED BY <2>2, <2>3
<1>8. Cardinality(Newest(rows)) = Cardinality(low..n)
  <2>1. PICK S : S = low..n
    OBVIOUS
  <2>2. /\ f \in [S -> Newest(rows)] /\ IsFiniteSet(S)
        /\ \A k, l \in S : f[k] = f[l] => k = l
        /\ \A i \in Newest(rows) : \E k \in S : f[k] = i
    BY <1>6, <1>7, <2>1
  <2>3. Cardinality(Newest(rows)) = Cardinality(S)
    BY <2>2, SameSize
  <2> QED BY <2>1, <2>3
<1>9. Cardinality(Newest(rows)) = Min({Limit, n})
  <2>1. \A x, y \in Int : Min({x, y}) = IF x <= y THEN x ELSE y
    BY DEF Min
  <2>2. Min({Limit, n}) = IF Limit <= n THEN Limit ELSE n
    BY <1>1, <2>1
  <2>3. (IF low > n THEN 0 ELSE n - low + 1) = IF Limit <= n THEN Limit ELSE n
    BY <1>1
  <2> QED BY <1>7, <1>8, <2>2, <2>3
<1>10. Newest(rows) \subseteq rows /\ Positions(Newest(rows))
  <2>1. Newest(rows) \in SUBSET rows
    BY DEF Newest
  <2> QED BY <1>1, <2>1, FS_Subset DEF Positions
<1>11. ASSUME rows # {} PROVE Max(rows) \in Newest(rows)
  <2>1. PICK i \in rows : i = Max(rows) /\ \A j \in rows : j <= i
    BY <1>11, EndsAre
  <2>2. \A j \in rows : ~(j > i)
    BY <1>1, <2>1
  <2>3. {j \in rows : j > i} = {}
    BY <2>2
  <2>4. Cardinality({j \in rows : j > i}) < Limit
    BY <1>1, <2>3, FS_EmptySet
  <2> QED BY <2>1, <2>4 DEF Newest
<1> QED BY <1>9, <1>10, <1>11

\* A generated request in the history is one that was written, with the identity
\* of the profile it was sent under.
WireInv ==
    /\ profile = [p \in Projects |-> profile[p]] /\ \A p \in Projects : IsSequence(profile[p].headers)
    /\ IsSequence(history)
    /\ \A i \in DOMAIN history :
          /\ IsSequence(history[i].under.headers)
          /\ Generated(history[i]) =>
                \E hs \in Requests : history[i].headers = ApplyIdentity(hs, history[i].under)

IdentityInv == ReportInv /\ WireInv

LEMMA RecordsWire ==
    ASSUME IdentityInv, NEW source, NEW headers, Record(source, headers),
           source \in {"repeater", "variation"} =>
              \E hs \in Requests : headers = ApplyIdentity(hs, profile[store.project])
    PROVE  WireInv'
<1>1. store.project \in Projects /\ profile' = profile
    BY DEF Record, IdentityInv, ReportInv
<1>2. PICK row : /\ history' = Append(history, row)
                 /\ row.source = source /\ row.headers = headers /\ row.under = profile[store.project]
    BY DEF Record
<1>3. /\ IsSequence(history') /\ DOMAIN history = 1..Len(history) /\ Len(history) \in Nat
      /\ DOMAIN history' = 1..(Len(history) + 1)
      /\ \A i \in 1..Len(history) : history'[i] = history[i]
      /\ history'[Len(history) + 1] = row
    BY <1>2, AppendedIs DEF IdentityInv, WireInv
<1>4. /\ IsSequence(row.under.headers)
      /\ Generated(row) => \E hs \in Requests : row.headers = ApplyIdentity(hs, row.under)
    BY <1>1, <1>2 DEF IdentityInv, WireInv, Generated
<1>5. ASSUME NEW i \in DOMAIN history'
      PROVE  /\ IsSequence(history'[i].under.headers)
             /\ Generated(history'[i]) =>
                   \E hs \in Requests : history'[i].headers = ApplyIdentity(hs, history'[i].under)
  <2>1. CASE i \in 1..Len(history)
    <3>1. history'[i] = history[i] /\ i \in DOMAIN history
      BY <1>3, <2>1
    <3> QED BY <3>1 DEF IdentityInv, WireInv
  <2>2. CASE i = Len(history) + 1
    BY <1>3, <1>4, <2>2
  <2> QED BY <1>3, <2>1, <2>2
<1> QED BY <1>1, <1>3, <1>5 DEF IdentityInv, WireInv

LEMMA WireStep == IdentityInv /\ [EngagementNext]_engagementVars => WireInv'
<1> SUFFICES ASSUME IdentityInv, [EngagementNext]_engagementVars PROVE WireInv'
    OBVIOUS
<1>1. CASE UNCHANGED <<profile, history>>
    BY <1>1 DEF IdentityInv, WireInv
<1>2. CASE SetEngagementProfile
  <2>1. PICK prof \in Profiles : profile' = [profile EXCEPT ![store.project] = prof]
    BY <1>2 DEF SetEngagementProfile
  <2>2. IsSequence(prof.headers)
    BY IdentityAssumption DEF IsSequence
  <2>3. /\ profile' = [p \in Projects |-> profile'[p]]
        /\ \A p \in Projects : profile'[p] = IF p = store.project THEN prof ELSE profile[p]
    BY <2>1 DEF IdentityInv, WireInv
  <2>4. history' = history
    BY <1>2 DEF SetEngagementProfile
  <2> QED BY <2>2, <2>3, <2>4 DEF IdentityInv, WireInv
<1>3. CASE Generate
    BY <1>3, RecordsWire DEF Generate
<1>4. CASE Browse
    BY <1>4, RecordsWire DEF Browse
<1>5. CASE UNCHANGED engagementVars
    BY <1>1, <1>5 DEF engagementVars
<1>6. CASE BeginPreflight \/ CountHosts \/ TakeInputs \/ FinishPreflight
    BY <1>1, <1>6 DEF BeginPreflight, CountHosts, TakeInputs, FinishPreflight
<1>7. CASE OpenProject \/ CloseProject \/ SetScope \/ ChangeCa \/ ChangeProxy
    BY <1>1, <1>7 DEF OpenProject, CloseProject, SetScope, ChangeCa, ChangeProxy
<1> QED BY <1>2, <1>3, <1>4, <1>5, <1>6, <1>7 DEF EngagementNext

\* Every generated request in the history was written by someone and carries the
\* identity of the profile it was sent under, in every state (identity.ts:70).
THEOREM WireInductive == EngagementSpec => []IdentityInv
<1>1. EngagementInit => WireInv
  <2> SUFFICES ASSUME EngagementInit PROVE WireInv
    OBVIOUS
  <2>1. PICK s \in Starts : profile = s.profile
    BY DEF EngagementInit
  <2>2. history = <<>>
    BY DEF EngagementInit
  <2> QED BY <2>1, <2>2, IdentityAssumption, EmptyIs DEF WireInv, IsSequence
<1>2. IdentityInv /\ [EngagementNext]_engagementVars => WireInv'
    BY WireStep
<1> QED BY <1>1, <1>2, ReportInductive, PTL DEF EngagementSpec, IdentityInv

LEMMA IdentityReaches == IdentityInv => IdentityOnWire
<1> SUFFICES ASSUME IdentityInv, NEW i \in DOMAIN history,
                    Generated(history[i]), IdentityEnforced(history[i].under)
             PROVE  LET r == history[i]
                        required == RequiredIdentityHeaders(r.under)
                        Others(hs) == Picked(hs, DOMAIN hs \ AskedFor(hs, required))
                    IN /\ Missing(r.headers, r.under) = {}
                       /\ ApplyIdentity(r.headers, r.under) = r.headers
                       /\ \E hs \in Requests : /\ Others(r.headers) = Others(hs)
                                               /\ Len(r.headers) <= Len(hs) + Len(required)
    BY DEF IdentityOnWire
<1>1. PICK prof, out, required : /\ prof = history[i].under /\ out = history[i].headers
                                 /\ required = RequiredIdentityHeaders(prof)
    OBVIOUS
<1>2. PICK hs \in Requests : out = ApplyIdentity(hs, prof)
    BY <1>1 DEF IdentityInv, WireInv
<1>3. IsSequence(prof.headers) /\ IsSequence(hs)
    BY <1>1, IdentityAssumption DEF IdentityInv, WireInv, IsSequence
<1>4. Apart(required)
    BY <1>1, <1>3, RequiredIs
<1>5. out = Identified(hs, required)
    BY <1>1, <1>2 DEF ApplyIdentity
<1>6. PICK stays \in SUBSET DOMAIN hs, added \in SUBSET DOMAIN required :
              RewrittenAs(out, hs, required, stays, added)
    BY <1>3, <1>4, <1>5, IdentifiedIs
<1>7. Carries(out, required)
    BY <1>3, <1>4, <1>6, RewriteCarries
<1>8. Missing(out, prof) = {}
  <2>1. ASSUME NEW w \in ToSet(required)
        PROVE  LET got == {j \in DOMAIN out : Lower[out[j].name] = Lower[w.name]}
               IN ~(Cardinality(got) # 1 \/ \E j \in got : out[j].value # w.value)
    BY <1>4, <1>7, CarriedIsThere
  <2> QED BY <1>1, <2>1 DEF Missing
<1>9. ApplyIdentity(out, prof) = out
  <2>1. Identified(out, required) = out
    BY <1>4, <1>7, CarriedStays
  <2> QED BY <1>1, <2>1 DEF ApplyIdentity
<1>10. Picked(out, DOMAIN out \ AskedFor(out, required)) = Picked(hs, DOMAIN hs \ AskedFor(hs, required))
    BY <1>3, <1>4, <1>6, OthersStay
<1>11. Len(out) <= Len(hs) + Len(required)
    BY <1>3, <1>4, <1>6, RewriteIsBounded
<1> QED BY <1>1, <1>8, <1>9, <1>10, <1>11

LEMMA OnlyValidIsAdded == IdentityInv => NothingInvalidIsAdded
<1> SUFFICES ASSUME IdentityInv, NEW p \in Projects
             PROVE  LET required == RequiredIdentityHeaders(profile[p])
                    IN /\ \A h \in ToSet(required) : Valid(h)
                       /\ Len(required) <= MaxIdentityHeaders + 1 /\ Cardinality(Names(required)) = Len(required)
    BY DEF NothingInvalidIsAdded
<1>1. PICK prof, required : prof = profile[p] /\ required = RequiredIdentityHeaders(prof)
    OBVIOUS
<1>2. IsSequence(prof.headers)
    BY <1>1 DEF IdentityInv, WireInv
<1>3. /\ Apart(required) /\ \A h \in ToSet(required) : Valid(h)
      /\ Len(required) <= MaxIdentityHeaders + 1
    BY <1>1, <1>2, RequiredIs
<1>4. Cardinality(Names(required)) = Len(required)
    BY <1>3, NamesOfApart
<1> QED BY <1>1, <1>3, <1>4

LEMMA SampleIsOfSent == IdentityInv => ComplianceIsMeasured
<1> SUFFICES ASSUME IdentityInv, store # Closed
             PROVE  LET p == store.project
                        sent == {i \in RowsOf(p) : Generated(history[i])}
                    IN /\ Compliance(p).sampled = Min({Limit, Cardinality(sent)})
                       /\ (sent # {} /\ UserAgentCheck(Compliance(p)) = "ok") =>
                            Missing(history[Max(sent)].headers, profile[p]) = {}
    BY DEF ComplianceIsMeasured
<1>1. PICK p : p = store.project
    OBVIOUS
<1> DEFINE sent == {i \in RowsOf(p) : Generated(history[i])}
<1>2. Positions(sent)
  <2>1. sent \in SUBSET DOMAIN history /\ IsSequence(history)
    BY DEF RowsOf, IdentityInv, WireInv
  <2> HIDE DEF sent
  <2> QED BY <2>1, PlacesAreFinite
<1>3. Sample(p) = Newest(sent)
    BY DEF Sample
<1> HIDE DEF sent
<1>4. PICK rows : rows = Newest(sent)
    OBVIOUS
<1>5. /\ rows \subseteq sent /\ Positions(rows) /\ Cardinality(rows) = Min({Limit, Cardinality(sent)})
      /\ sent # {} => Max(sent) \in rows
    BY <1>2, <1>4, NewestIs
<1> DEFINE good == {i \in rows : Missing(history[i].headers, profile[p]) = {}}
<1>6. PICK c : c = Compliance(p) /\ c.sampled = Cardinality(rows) /\ c.compliant = Cardinality(good)
  <2>1. Sample(p) = rows
    BY <1>3, <1>4
  <2>2. Compliance(p).sampled = Cardinality(Sample(p))
    BY DEF Compliance
  <2>3. Compliance(p).compliant = Cardinality({i \in Sample(p) : Missing(history[i].headers, profile[p]) = {}})
    BY DEF Compliance
  <2>4. {i \in Sample(p) : Missing(history[i].headers, profile[p]) = {}} = good
    BY <2>1
  <2> HIDE DEF good
  <2> QED BY <2>1, <2>2, <2>3, <2>4
<1>7. ASSUME sent # {}, UserAgentCheck(c) = "ok"
      PROVE  Missing(history[Max(sent)].headers, profile[p]) = {}
  <2>1. Max(sent) \in rows
    BY <1>5, <1>7
  <2>2. ~(c.sampled > 0 /\ c.compliant < c.sampled)
    BY <1>7 DEF UserAgentCheck
  <2>3. good \in SUBSET rows
    OBVIOUS
  <2> HIDE DEF good
  <2>4. IsFiniteSet(rows) /\ IsFiniteSet(good) /\ Cardinality(good) <= Cardinality(rows)
    BY <1>5, <2>3, FS_Subset DEF Positions
  <2>5. Cardinality(rows) \in Nat /\ Cardinality(good) \in Nat /\ Cardinality(rows) # 0
    BY <2>1, <2>4, FS_CardinalityType, FS_EmptySet
  <2>6. Cardinality(good) = Cardinality(rows)
    BY <1>6, <2>2, <2>4, <2>5
  <2>7. good = rows
    BY <2>3, <2>4, <2>6, FS_Subset
  <2> QED BY <2>1, <2>7 DEF good
<1> QED BY <1>1, <1>5, <1>6, <1>7 DEF sent

\* Generated traffic identifies itself as its profile asks, with nothing in it
\* that could not be sent, and is measured as such (identity.ts, session.ts:1255).
THEOREM IdentityKept == EngagementSpec => []IdentityHolds
<1>1. IdentityInv => IdentityHolds
    BY IdentityReaches, OnlyValidIsAdded, SampleIsOfSent DEF IdentityHolds
<1> QED BY <1>1, WireInductive, PTL

-----------------------------------------------------------------------------
(* The evidence of a target.                                                  *)

EvidenceHosts == {Canonical[t] : t \in Wanted}
LogRows == {"exported", "handed-over"} \X EvidenceHosts
JobFields == {"phase", "kind", "from", "host", "got", "mine", "next", "files", "readFrom", "briefing"}

\* Logged rows are of what is on disk or was started, and so is the row that
\* the job in the making will write; a run begins of a job that has no word to
\* stop in what it was told.
EvidenceInv ==
    /\ DOMAIN logged = Stores /\ \A p \in Stores : logged[p] \in Seq(LogRows)
    /\ job.phase \in {"none", "rendering", "dialog", "deciding", "written", "starting", "done", "failed"}
    /\ open \in Stores \cup {NoStore}
    /\ job.phase # "none" =>
          /\ DOMAIN job = JobFields
          /\ job.host \in EvidenceHosts /\ job.got.findings \subseteq Flagged
    /\ job.phase = "written" => \E b \in disk : b.host = job.host
    /\ job.phase = "starting" => StopCondition(job) = "none"
    /\ FindingsPointInside
    /\ NoRunAgainstTheHandoff
    /\ AuditIsOfWhatHappened

\* A job that goes on keeps its host and what was collected.
GoesOn(phases) ==
    /\ DOMAIN job' = JobFields /\ job'.phase \in phases
    /\ job'.host = job.host /\ job'.got = job.got

\* One more row in the log of one store.
LEMMA LoggedRow ==
    ASSUME DOMAIN logged = Stores, \A p \in Stores : logged[p] \in Seq(LogRows),
           open \in Stores, NEW row \in LogRows,
           logged' = [logged EXCEPT ![open] = Append(@, row)]
    PROVE  /\ DOMAIN logged' = Stores /\ \A p \in Stores : logged'[p] \in Seq(LogRows)
           /\ \A p \in Stores : \A x \in ToSet(logged'[p]) : x \in ToSet(logged[p]) \/ x = row
<1>1. /\ DOMAIN logged' = Stores /\ logged'[open] = Append(logged[open], row)
      /\ \A p \in Stores \ {open} : logged'[p] = logged[p]
    OBVIOUS
<1>2. \A s \in Seq(LogRows) : /\ Append(s, row) \in Seq(LogRows)
                              /\ \A x \in ToSet(Append(s, row)) : x \in ToSet(s) \/ x = row
  <2> SUFFICES ASSUME NEW s \in Seq(LogRows)
               PROVE  /\ Append(s, row) \in Seq(LogRows)
                      /\ \A x \in ToSet(Append(s, row)) : x \in ToSet(s) \/ x = row
    OBVIOUS
  <2>1. /\ Append(s, row) \in Seq(LogRows) /\ Len(Append(s, row)) = Len(s) + 1
        /\ \A i \in 1..Len(s) : Append(s, row)[i] = s[i]
        /\ Append(s, row)[Len(s) + 1] = row
    BY AppendProperties
  <2>2. DOMAIN s = 1..Len(s) /\ DOMAIN Append(s, row) = 1..(Len(s) + 1) /\ Len(s) \in Nat
    BY <2>1, LenProperties
  <2> QED BY <2>1, <2>2 DEF ToSet
<1> QED BY <1>1, <1>2

\* What is said of runs and audit rows stays when no row is written and the
\* disk and the runs only grow.
LEMMA NothingLogged ==
    ASSUME EvidenceInv, UNCHANGED logged, disk \subseteq disk', started \subseteq started'
    PROVE  AuditIsOfWhatHappened'
BY DEF EvidenceInv, AuditIsOfWhatHappened

\* A job that goes on, writing nothing.
LEMMA JobGoesOn ==
    ASSUME EvidenceInv, UNCHANGED <<logged, disk, started>>, open' \in Stores \cup {NoStore},
           GoesOn({"rendering", "dialog", "deciding", "starting", "done", "failed"}), job.phase # "none",
           job'.phase = "starting" => StopCondition(job) = "none"
    PROVE  EvidenceInv'
<1>1. StopCondition(job)' = StopCondition(job)
    BY DEF StopCondition, GoesOn
<1>2. FindingsPointInside' /\ NoRunAgainstTheHandoff'
    BY DEF EvidenceInv, FindingsPointInside, NoRunAgainstTheHandoff
<1> QED BY <1>1, <1>2, NothingLogged DEF EvidenceInv, GoesOn

LEMMA BeginEvidence ==
    ASSUME EvidenceInv, NEW kind, NEW h \in Wanted, Begin(kind, h)
    PROVE  EvidenceInv'
<1>1. /\ DOMAIN job' = JobFields /\ job'.phase = "rendering" /\ job'.host = Canonical[h]
      /\ job'.got = CollectTargetEvidence(open, Canonical[h])
    BY DEF Begin, JobFields
<1>2. job'.got.findings \subseteq Flagged
    BY <1>1 DEF CollectTargetEvidence
<1>3. UNCHANGED <<open, logged, disk, started>>
    BY DEF Begin
<1>4. FindingsPointInside' /\ NoRunAgainstTheHandoff'
    BY <1>3 DEF EvidenceInv, FindingsPointInside, NoRunAgainstTheHandoff
<1>5. job'.host \in EvidenceHosts
    BY <1>1 DEF EvidenceHosts
<1> QED BY <1>1, <1>2, <1>3, <1>4, <1>5, NothingLogged DEF EvidenceInv

\* A bundle on disk points at files of its own.
LEMMA BundlePoints ==
    ASSUME job.got.findings \subseteq Flagged
    PROVE  \A f \in Bundle(job).handoff.findings :
              /\ f.exchange \in Flagged /\ (f.file # "none" => f.file \in ToSet(Bundle(job).files))
              /\ f.file = "none" => f.exchange \notin ToSet(Bundle(job).files)
<1>1. Bundle(job).files = job.files
    BY DEF Bundle
<1>2. Bundle(job).handoff.findings = {HandoffFinding(job, id) : id \in job.got.findings}
    BY DEF Bundle, BuildHandoff
<1>3. ASSUME NEW id \in Flagged
      PROVE  LET f == HandoffFinding(job, id) IN
              /\ f.exchange \in Flagged /\ (f.file # "none" => f.file \in ToSet(job.files))
              /\ f.file = "none" => f.exchange \notin ToSet(job.files)
    BY <1>3, FlaggedAssumption DEF HandoffFinding
<1> QED BY <1>1, <1>2, <1>3

LEMMA WriteKeeps ==
    ASSUME EvidenceInv, WriteBundle
    PROVE  EvidenceInv'
<1>1. job.phase = "dialog" /\ UNCHANGED <<open, logged, started>> /\ DOMAIN job = JobFields
      /\ job.host \in EvidenceHosts /\ job.got.findings \subseteq Flagged
    BY DEF WriteBundle, EvidenceInv
<1>2. CASE job' = [job EXCEPT !.phase = "failed"] /\ UNCHANGED disk
  <2>1. GoesOn({"failed"})
    BY <1>1, <1>2 DEF GoesOn, JobFields
  <2> QED BY <1>1, <1>2, <2>1, JobGoesOn DEF GoesOn, EvidenceInv
<1>3. CASE job' = [job EXCEPT !.phase = "written"] /\ disk' = disk \cup {Bundle(job)}
  <2>1. GoesOn({"written"})
    BY <1>1, <1>3 DEF GoesOn, JobFields
  <2>2. FindingsPointInside'
    BY <1>1, <1>3, BundlePoints DEF EvidenceInv, FindingsPointInside
  <2>3. NoRunAgainstTheHandoff'
    BY <1>1 DEF EvidenceInv, NoRunAgainstTheHandoff
  <2>4. Bundle(job) \in disk' /\ Bundle(job).host = job'.host
    BY <1>3, <2>1 DEF Bundle, GoesOn
  <2> QED BY <1>1, <1>3, <2>1, <2>2, <2>3, <2>4, NothingLogged DEF EvidenceInv, GoesOn
<1> QED BY <1>2, <1>3 DEF WriteBundle

LEMMA RecordKeeps ==
    ASSUME EvidenceInv, RecordEvidenceExport
    PROVE  EvidenceInv'
<1>1. /\ job.phase = "written" /\ UNCHANGED <<open, disk, started>>
      /\ DOMAIN job = JobFields /\ job.host \in EvidenceHosts
      /\ \E b \in disk : b.host = job.host
    BY DEF RecordEvidenceExport, EvidenceInv
<1>2. GoesOn({"done"})
    BY <1>1 DEF RecordEvidenceExport, GoesOn, JobFields
<1>3. CASE open = NoStore
    BY <1>1, <1>2, <1>3, JobGoesOn DEF RecordEvidenceExport, EvidenceInv, GoesOn
<1>4. CASE open # NoStore
  <2>1. PICK row : row = <<"exported", job.host>>
    OBVIOUS
  <2>2. open \in Stores /\ row \in LogRows /\ logged' = [logged EXCEPT ![open] = Append(@, row)]
    BY <1>1, <1>4, <2>1 DEF RecordEvidenceExport, EvidenceInv, LogRows
  <2>3. /\ DOMAIN logged' = Stores /\ \A p \in Stores : logged'[p] \in Seq(LogRows)
        /\ \A p \in Stores : \A x \in ToSet(logged'[p]) : x \in ToSet(logged[p]) \/ x = row
    BY <2>2, LoggedRow DEF EvidenceInv
  <2>4. AuditIsOfWhatHappened'
    BY <1>1, <2>1, <2>3 DEF EvidenceInv, AuditIsOfWhatHappened
  <2>5. FindingsPointInside' /\ NoRunAgainstTheHandoff'
    BY <1>1 DEF EvidenceInv, FindingsPointInside, NoRunAgainstTheHandoff
  <2> QED BY <1>1, <1>2, <2>3, <2>4, <2>5 DEF EvidenceInv, GoesOn
<1> QED BY <1>3, <1>4

LEMMA StartKeeps ==
    ASSUME EvidenceInv, StartMeshRun
    PROVE  EvidenceInv'
<1>1. /\ job.phase = "starting" /\ UNCHANGED <<open, disk>>
      /\ DOMAIN job = JobFields /\ job.host \in EvidenceHosts /\ StopCondition(job) = "none"
    BY DEF StartMeshRun, EvidenceInv
<1>2. GoesOn({"done"})
    BY <1>1 DEF StartMeshRun, GoesOn, JobFields
<1> DEFINE one == [host |-> job.host, from |-> job.from, said |-> BuildHandoff(job)]
<1>3. started' = started \cup {one}
    BY DEF StartMeshRun
<1>4. one.host = job.host /\ one.said.stop = "none" /\ one.said.inScope
  <2>1. job.got.inScope
    BY <1>1 DEF StopCondition
  <2> QED BY <1>1, <2>1 DEF BuildHandoff
<1> HIDE DEF one
<1>5. FindingsPointInside' /\ NoRunAgainstTheHandoff'
    BY <1>1, <1>3, <1>4 DEF EvidenceInv, FindingsPointInside, NoRunAgainstTheHandoff
<1>6. CASE open = NoStore
  <2>1. UNCHANGED logged
    BY <1>6 DEF StartMeshRun
  <2> QED BY <1>1, <1>2, <1>3, <1>5, <2>1, NothingLogged DEF EvidenceInv, GoesOn
<1>7. CASE open # NoStore
  <2>1. PICK row : row = <<"handed-over", job.host>>
    OBVIOUS
  <2>2. open \in Stores /\ row \in LogRows /\ logged' = [logged EXCEPT ![open] = Append(@, row)]
    BY <1>1, <1>7, <2>1 DEF StartMeshRun, EvidenceInv, LogRows
  <2>3. /\ DOMAIN logged' = Stores /\ \A p \in Stores : logged'[p] \in Seq(LogRows)
        /\ \A p \in Stores : \A x \in ToSet(logged'[p]) : x \in ToSet(logged[p]) \/ x = row
    BY <2>2, LoggedRow DEF EvidenceInv
  <2>4. AuditIsOfWhatHappened'
    BY <1>1, <1>3, <1>4, <2>1, <2>3 DEF EvidenceInv, AuditIsOfWhatHappened
  <2> QED BY <1>1, <1>2, <1>5, <2>3, <2>4 DEF EvidenceInv, GoesOn
<1> QED BY <1>6, <1>7

LEMMA EvidenceStep ==
    ASSUME EvidenceInv, [EvidenceNext]_evidenceVars
    PROVE  EvidenceInv'
<1>1. CASE UNCHANGED evidenceVars
    BY <1>1 DEF evidenceVars, EvidenceInv, FindingsPointInside, NoRunAgainstTheHandoff,
                AuditIsOfWhatHappened, StopCondition
<1>2. ASSUME NEW h \in Wanted, BuildTargetEvidenceBundle(h) \/ HandoffTargetToMesh(h)
      PROVE  EvidenceInv'
    BY <1>2, BeginEvidence DEF BuildTargetEvidenceBundle, HandoffTargetToMesh
<1>3. CASE RenderNext
  <2>1. job.phase = "rendering" /\ DOMAIN job = JobFields
    BY <1>3 DEF RenderNext, EvidenceInv
  <2>2. GoesOn({"rendering", "failed"})
    BY <1>3, <2>1 DEF RenderNext, GoesOn, JobFields
  <2> QED BY <1>3, <2>1, <2>2, JobGoesOn DEF RenderNext, EvidenceInv, GoesOn
<1>4. CASE Brief
  <2>1. job.phase = "rendering" /\ DOMAIN job = JobFields
    BY <1>4 DEF Brief, EvidenceInv
  <2>2. GoesOn({"dialog", "deciding"})
    BY <1>4, <2>1 DEF Brief, GoesOn, JobFields
  <2> QED BY <1>4, <2>1, <2>2, JobGoesOn DEF Brief, EvidenceInv, GoesOn
<1>5. CASE CancelSave
  <2>1. job.phase = "dialog" /\ DOMAIN job = JobFields
    BY <1>5 DEF CancelSave, EvidenceInv
  <2>2. GoesOn({"done"})
    BY <1>5, <2>1 DEF CancelSave, GoesOn, JobFields
  <2> QED BY <1>5, <2>1, <2>2, JobGoesOn DEF CancelSave, EvidenceInv, GoesOn
<1>6. CASE Decide
  <2>1. job.phase = "deciding" /\ DOMAIN job = JobFields
    BY <1>6 DEF Decide, EvidenceInv
  <2>2. GoesOn({"failed", "starting"}) /\ (job'.phase = "starting" => StopCondition(job) = "none")
    BY <1>6, <2>1 DEF Decide, GoesOn, JobFields
  <2> QED BY <1>6, <2>1, <2>2, JobGoesOn DEF Decide, EvidenceInv, GoesOn
<1>7. CASE NoKey
  <2>1. job.phase = "starting" /\ DOMAIN job = JobFields
    BY <1>7 DEF NoKey, EvidenceInv
  <2>2. GoesOn({"failed"})
    BY <1>7, <2>1 DEF NoKey, GoesOn, JobFields
  <2> QED BY <1>7, <2>1, <2>2, JobGoesOn DEF NoKey, EvidenceInv, GoesOn
<1>8. CASE SwitchProject \/ ClearHistory \/ SetRules
  <2>1. UNCHANGED <<logged, job, disk, started>> /\ open' \in Stores \cup {NoStore}
    BY <1>8 DEF SwitchProject, ClearHistory, SetRules, Turn, EvidenceInv
  <2> QED BY <2>1, NothingLogged DEF EvidenceInv, FindingsPointInside, NoRunAgainstTheHandoff, StopCondition
<1> QED BY <1>1, <1>2, <1>3, <1>4, <1>5, <1>6, <1>7, <1>8, WriteKeeps, RecordKeeps, StartKeeps
        DEF EvidenceNext

\* The audit log is of what is on disk or was started in every state, while the
\* operator switches projects, clears histories and edits scopes.
THEOREM EvidenceInductive == EvidenceSpec => []EvidenceInv
<1>1. EvidenceInit => EvidenceInv
  <2> SUFFICES ASSUME EvidenceInit PROVE EvidenceInv
    OBVIOUS
  <2>1. <<>> \in Seq(LogRows) /\ DOMAIN <<>> = {}
    OBVIOUS
  <2>2. \A p \in Stores : logged[p] = <<>>
    BY DEF EvidenceInit
  <2>3. AuditIsOfWhatHappened
    BY <2>1, <2>2 DEF AuditIsOfWhatHappened, ToSet
  <2>4. FindingsPointInside /\ NoRunAgainstTheHandoff
    BY DEF EvidenceInit, FindingsPointInside, NoRunAgainstTheHandoff
  <2> QED BY <2>1, <2>2, <2>3, <2>4 DEF EvidenceInit, EvidenceInv, NoJob
<1>2. EvidenceInv /\ [EvidenceNext]_evidenceVars => EvidenceInv'
    BY EvidenceStep
<1> QED BY <1>1, <1>2, PTL DEF EvidenceSpec

-----------------------------------------------------------------------------
(* What is collected.                                                         *)
\* Rows of which no two have one identifier.
EachOnce(rows) == IsSequence(rows) /\ \A i, j \in DOMAIN rows : rows[i].id = rows[j].id => i = j

\* What is picked of such rows.
LEMMA PicksOnce ==
    ASSUME NEW rows, EachOnce(rows), NEW P \in SUBSET DOMAIN rows
    PROVE  /\ EachOnce(Picked(rows, P)) /\ Len(Picked(rows, P)) = Cardinality(P)
           /\ Cardinality(P) \in Nat /\ Cardinality(P) <= Len(rows) /\ Len(rows) \in Nat
           /\ \A k \in DOMAIN Picked(rows, P) : \E i \in P : Picked(rows, P)[k] = rows[i]
<1>1. /\ Positions(P) /\ Cardinality(P) \in Nat /\ Cardinality(P) <= Len(rows) /\ Len(rows) \in Nat
    BY PlacesAreFinite DEF EachOnce
<1> DEFINE q == Picked(rows, P)
           n == Cardinality(P)
<1>2. /\ IsSequence(q) /\ Len(q) = n /\ DOMAIN q = 1..n
      /\ \A k \in 1..n : NthOf(P, k) \in P /\ q[k] = rows[NthOf(P, k)]
    BY <1>1, PickedIs
<1>3. \A k, l \in 1..n : k < l => NthOf(P, k) < NthOf(P, l)
    BY <1>1, NthIs
<1> HIDE DEF q, n
<1>4. \A k, l \in DOMAIN q : q[k].id = q[l].id => k = l
  <2> SUFFICES ASSUME NEW k \in 1..n, NEW l \in 1..n, q[k].id = q[l].id, k # l PROVE FALSE
    BY <1>2
  <2>1. PICK a \in P : a = NthOf(P, k) /\ q[k] = rows[a]
    BY <1>2
  <2>2. PICK b \in P : b = NthOf(P, l) /\ q[l] = rows[b]
    BY <1>2
  <2>3. a = b
    BY <2>1, <2>2 DEF EachOnce
  <2>4. a \in Nat /\ k \in Nat /\ l \in Nat
    BY <1>1 DEF Positions, n
  <2>5. k < l \/ l < k
    BY <2>4
  <2>6. NthOf(P, k) < NthOf(P, l) \/ NthOf(P, l) < NthOf(P, k)
    BY <1>3, <2>5
  <2>7. a < a
    BY <2>1, <2>2, <2>3, <2>6
  <2> QED BY <2>4, <2>7
<1>5. \A k \in DOMAIN q : \E i \in P : q[k] = rows[i]
    BY <1>2
<1>6. EachOnce(q)
    BY <1>2, <1>4 DEF EachOnce
<1> QED BY <1>1, <1>2, <1>5, <1>6 DEF q, n

\* What a project may hold: what it held at first, or nothing.
IsHistory(rows, p) == rows = <<>> \/ \E h \in Histories : rows = h[p]

\* Rows of one host out of what a project once held, each once, and the files
\* made so far of those that were rendered.
Collected(from, host, rows, next, files) ==
    /\ from \in Stores /\ EachOnce(rows) /\ next \in 1..(Len(rows) + 1)
    /\ \A k \in DOMAIN rows : /\ rows[k].host \in Spelled(host)
                              /\ \E h \in Histories : rows[k] \in ToSet(h[from])
    /\ IsSequence(files) /\ Len(files) <= next - 1
    /\ \A i \in DOMAIN files : \E k \in 1..(next - 1) : files[i] = rows[k].id
    /\ \A i, j \in DOMAIN files : files[i] = files[j] => i = j

\* As long as the operator did nothing, what was counted is what is there.
CountedNow ==
    /\ job.got.available = Cardinality(Exact(job.from, job.host))
    /\ job.got.findings = {held[job.from][i].id : i \in Exact(job.from, job.host)} \cap Flagged

CollectionInv ==
    /\ turns \in Nat /\ held = [p \in Stores |-> held[p]] /\ \A p \in Stores : IsHistory(held[p], p)
    /\ job.phase # "none" =>
          /\ Collected(job.from, job.host, job.mine, job.next, job.files)
          /\ job.got.available \in Nat /\ Len(job.mine) <= job.got.available
    /\ job.phase = "rendering" /\ turns = 0 => CountedNow
    /\ OnlyOneTarget

LEMMA HistoryIs ==
    ASSUME NEW p \in Stores, NEW rows, IsHistory(rows, p)
    PROVE  /\ EachOnce(rows)
           /\ \A i \in DOMAIN rows : /\ \E h \in Histories : rows[i] \in ToSet(h[p])
                                     /\ rows[i].host \in DOMAIN Canonical
                                     /\ <<rows[i].host, Canonical[rows[i].host]>> \in LikeHost
<1>1. CASE rows = <<>>
    BY <1>1, EmptyIs DEF EachOnce
<1>2. ASSUME NEW h \in Histories, rows = h[p]
      PROVE  /\ EachOnce(rows)
             /\ \A i \in DOMAIN rows : /\ \E g \in Histories : rows[i] \in ToSet(g[p])
                                       /\ rows[i].host \in DOMAIN Canonical
                                       /\ <<rows[i].host, Canonical[rows[i].host]>> \in LikeHost
  <2>1. /\ rows \in Seq(ToSet(rows))
        /\ \A i, j \in DOMAIN rows : rows[i].id = rows[j].id => i = j
        /\ \A i \in DOMAIN rows : /\ rows[i].host \in DOMAIN Canonical
                                  /\ <<rows[i].host, Canonical[rows[i].host]>> \in LikeHost
    BY <1>2, HistoriesAssumption
  <2>2. \A i \in DOMAIN rows : rows[i] \in ToSet(h[p])
    BY <1>2 DEF ToSet
  <2> QED BY <2>1, <2>2 DEF EachOnce, IsSequence
<1> QED BY <1>1, <1>2 DEF IsHistory

\* Files of different rows are as many as they are.
LEMMA FilesCount ==
    ASSUME NEW files, IsSequence(files), \A i, j \in DOMAIN files : files[i] = files[j] => i = j
    PROVE  Cardinality(ToSet(files)) = Len(files) /\ Len(files) \in Nat
<1> DEFINE f == [i \in DOMAIN files |-> files[i]]
<1>1. Len(files) \in Nat /\ DOMAIN files = 1..Len(files)
    BY PlacesAreFinite
<1>2. \A n \in Nat : IsFiniteSet(1..n) /\ Cardinality(1..n) = n
    BY FS_Interval
<1>3. /\ f \in [DOMAIN files -> ToSet(files)]
      /\ \A i, j \in DOMAIN files : f[i] = f[j] => i = j
      /\ \A x \in ToSet(files) : \E i \in DOMAIN files : f[i] = x
    BY DEF ToSet
<1>4. IsFiniteSet(DOMAIN files) /\ Cardinality(DOMAIN files) = Len(files)
    BY <1>1, <1>2
<1> HIDE DEF f
<1>5. Cardinality(ToSet(files)) = Cardinality(DOMAIN files)
    BY <1>3, <1>4, SameSize
<1> QED BY <1>1, <1>4, <1>5

LEMMA BeginsCollection ==
    ASSUME CollectionInv, EvidenceInv, NEW kind, NEW t \in Wanted, Begin(kind, t)
    PROVE  CollectionInv'
<1>1. PICK p, host : p = open /\ p \in Stores /\ host = Canonical[t]
    BY DEF Begin, EvidenceInv
<1>2. UNCHANGED <<held, disk, turns>>
    BY DEF Begin
<1> DEFINE exact == Exact(p, host)
           got == CollectTargetEvidence(p, host)
           P == {i \in exact : RankIn(exact, i) <= MaxExchanges}
           Q == {i \in DOMAIN got.exchanges : LowerCase[got.exchanges[i].host] = host}
           rows == Mine(host, got.exchanges)
<1>3. /\ job'.phase = "rendering" /\ job'.from = p /\ job'.host = host /\ job'.got = got
      /\ job'.mine = rows /\ job'.next = 1 /\ job'.files = <<>>
    BY <1>1 DEF Begin
<1>4. /\ got.exchanges = Picked(held[p], P) /\ got.available = Cardinality(exact)
      /\ got.findings = {held[p][i].id : i \in exact} \cap Flagged
    BY DEF CollectTargetEvidence
<1>5. exact \in SUBSET DOMAIN held[p] /\ \A i \in exact : Canonical[held[p][i].host] = host
    BY DEF Exact, Scanned, Like
<1>6. /\ EachOnce(held[p])
      /\ \A i \in DOMAIN held[p] : /\ \E h \in Histories : held[p][i] \in ToSet(h[p])
                                   /\ held[p][i].host \in DOMAIN Canonical
  <2>1. PICK r : r = held[p] /\ IsHistory(r, p)
    BY <1>1 DEF CollectionInv
  <2>2. /\ EachOnce(r)
        /\ \A i \in DOMAIN r : /\ \E h \in Histories : r[i] \in ToSet(h[p])
                               /\ r[i].host \in DOMAIN Canonical
    BY <1>1, <2>1, HistoryIs
  <2> QED BY <2>1, <2>2
<1>7. Positions(exact) /\ Cardinality(exact) \in Nat
  <2> HIDE DEF exact
  <2> QED BY <1>5, <1>6, PlacesAreFinite DEF EachOnce
<1>8. P \subseteq exact /\ P \in SUBSET DOMAIN held[p]
    BY <1>5
<1>9. Cardinality(P) <= Cardinality(exact)
  <2> HIDE DEF exact, P
  <2> QED BY <1>7, <1>8, FS_Subset DEF Positions
<1> HIDE DEF exact, P
<1>10. /\ EachOnce(got.exchanges) /\ Len(got.exchanges) = Cardinality(P)
       /\ \A k \in DOMAIN got.exchanges : \E i \in P : got.exchanges[k] = held[p][i]
    BY <1>4, <1>6, <1>8, PicksOnce
<1>11. rows = Picked(got.exchanges, Q) /\ Q \in SUBSET DOMAIN got.exchanges
    BY DEF Mine
<1> HIDE DEF got, Q
<1>12. /\ EachOnce(rows) /\ Len(rows) <= Len(got.exchanges) /\ Len(rows) \in Nat /\ Len(got.exchanges) \in Nat
       /\ \A k \in DOMAIN rows : \E i \in Q : rows[k] = got.exchanges[i]
  <2> HIDE DEF rows
  <2> QED BY <1>10, <1>11, PicksOnce
<1> HIDE DEF rows
<1>13. \A k \in DOMAIN rows : /\ rows[k].host \in Spelled(host)
                              /\ \E h \in Histories : rows[k] \in ToSet(h[p])
  <2> SUFFICES ASSUME NEW k \in DOMAIN rows
               PROVE  rows[k].host \in Spelled(host) /\ \E h \in Histories : rows[k] \in ToSet(h[p])
    OBVIOUS
  <2>1. PICK i \in DOMAIN held[p] : i \in exact /\ rows[k] = held[p][i]
    BY <1>8, <1>10, <1>11, <1>12
  <2> QED BY <1>5, <1>6, <2>1 DEF Spelled
<1>14. Collected(p, host, rows, 1, <<>>)
  <2>1. 1 \in 1..(Len(rows) + 1)
    BY <1>12
  <2>2. PICK none : none = <<>> /\ IsSequence(none) /\ Len(none) <= 1 - 1 /\ DOMAIN none = {}
    BY EmptyIs
  <2>3. Collected(p, host, rows, 1, none)
    BY <1>1, <1>12, <1>13, <2>1, <2>2 DEF Collected
  <2> QED BY <2>2, <2>3
<1>15. Len(rows) <= got.available /\ got.available \in Nat
    BY <1>4, <1>7, <1>9, <1>10, <1>12
<1>16. CountedNow'
  <2>1. Exact(p, host)' = Exact(p, host)
    BY <1>2 DEF Exact, Scanned, Like
  <2>2. CountedNow' <=> /\ job'.got.available = Cardinality(Exact(p, host)')
                        /\ job'.got.findings = {held'[p][i].id : i \in Exact(p, host)'} \cap Flagged
    BY <1>3 DEF CountedNow, Exact, Scanned, Like
  <2> QED BY <1>2, <1>3, <1>4, <2>1, <2>2 DEF exact
<1>17. OnlyOneTarget'
    BY <1>2 DEF CollectionInv, OnlyOneTarget
<1> QED BY <1>2, <1>3, <1>14, <1>15, <1>16, <1>17 DEF CollectionInv

\* One more file, or none, of the next of the rows.
LEMMA RendersOne ==
    ASSUME NEW from, NEW host, NEW rows, NEW next, NEW files, Collected(from, host, rows, next, files),
           next <= Len(rows)
    PROVE  /\ Collected(from, host, rows, next + 1, files)
           /\ Collected(from, host, rows, next + 1, Append(files, rows[next].id))
<1>1. /\ EachOnce(rows) /\ next \in 1..(Len(rows) + 1) /\ IsSequence(files) /\ Len(files) <= next - 1
      /\ \A i \in DOMAIN files : \E k \in 1..(next - 1) : files[i] = rows[k].id
      /\ \A i, j \in DOMAIN files : files[i] = files[j] => i = j
    BY DEF Collected
<1>2. Len(rows) \in Nat /\ DOMAIN rows = 1..Len(rows) /\ Len(files) \in Nat
    BY <1>1, PlacesAreFinite DEF EachOnce
<1>3. /\ next \in DOMAIN rows /\ next + 1 \in 1..(Len(rows) + 1) /\ next \in 1..(next + 1 - 1)
      /\ \A k \in 1..(next - 1) : k \in 1..(next + 1 - 1) /\ k \in DOMAIN rows /\ k # next
      /\ Len(files) <= next + 1 - 1 /\ Len(files) + 1 <= next + 1 - 1
    BY <1>1, <1>2
<1>4. Collected(from, host, rows, next + 1, files)
  <2>1. \A i \in DOMAIN files : \E k \in 1..(next + 1 - 1) : files[i] = rows[k].id
    BY <1>1, <1>3
  <2> QED BY <1>1, <1>3, <2>1 DEF Collected
<1> DEFINE more == Append(files, rows[next].id)
<1>5. /\ IsSequence(more) /\ Len(more) = Len(files) + 1
      /\ DOMAIN files = 1..Len(files) /\ DOMAIN more = 1..(Len(files) + 1)
      /\ \A i \in 1..Len(files) : more[i] = files[i]
      /\ more[Len(files) + 1] = rows[next].id
    BY <1>1, AppendedIs
<1> HIDE DEF more
<1>6. \A i \in DOMAIN more : i \in DOMAIN files \/ i = Len(files) + 1
  <2>1. PICK n \in Nat : n = Len(files)
    BY <1>2
  <2>2. \A i \in 1..(n + 1) : i \in 1..n \/ i = n + 1
    OBVIOUS
  <2>3. DOMAIN more = 1..(n + 1) /\ DOMAIN files = 1..n
    BY <1>5, <2>1
  <2> QED BY <2>1, <2>2, <2>3
<1>7. \A i \in DOMAIN more : \E k \in 1..(next + 1 - 1) : more[i] = rows[k].id
  <2> SUFFICES ASSUME NEW i \in DOMAIN more PROVE \E k \in 1..(next + 1 - 1) : more[i] = rows[k].id
    OBVIOUS
  <2>1. CASE i \in DOMAIN files
    <3>1. more[i] = files[i]
      BY <1>5, <2>1
    <3>2. PICK k \in 1..(next - 1) : files[i] = rows[k].id
      BY <1>1, <2>1
    <3> QED BY <1>3, <3>1, <3>2
  <2>2. CASE i = Len(files) + 1
    BY <1>3, <1>5, <2>2
  <2> QED BY <1>6, <2>1, <2>2
<1>8. \A i \in DOMAIN files : files[i] # rows[next].id
  <2> SUFFICES ASSUME NEW i \in DOMAIN files, files[i] = rows[next].id PROVE FALSE
    OBVIOUS
  <2>1. PICK k \in 1..(next - 1) : files[i] = rows[k].id
    BY <1>1
  <2>2. k \in DOMAIN rows /\ k # next /\ rows[k].id = rows[next].id
    BY <1>3, <2>1
  <2> QED BY <1>1, <1>3, <2>2 DEF EachOnce
<1>9. \A i, j \in DOMAIN more : more[i] = more[j] => i = j
    BY <1>1, <1>5, <1>6, <1>8
<1>10. Collected(from, host, rows, next + 1, more)
    BY <1>1, <1>3, <1>5, <1>7, <1>9 DEF Collected
<1> QED BY <1>4, <1>10 DEF more

\* What is written to the disk is a bundle of one target.
LEMMA BundleIsOfOne ==
    ASSUME CollectionInv, job.phase # "none"
    PROVE  LET b == Bundle(job)
               theirs(p) == {r \in UNION {ToSet(h[p]) : h \in Histories} : r.host \in Spelled(b.host)}
           IN /\ ToSet(b.files) \subseteq {r.id : r \in theirs(b.from)}
              /\ Cardinality(ToSet(b.files)) = Len(b.files) /\ b.count = Len(b.files)
              /\ b.count <= b.available
<1>1. PICK b : b = Bundle(job)
    OBVIOUS
<1>2. PICK from, host, rows, next, files, available :
          /\ from = job.from /\ host = job.host /\ rows = job.mine /\ next = job.next /\ files = job.files
          /\ available = job.got.available
    OBVIOUS
<1>3. /\ b.host = host /\ b.from = from /\ b.files = files /\ b.count = Len(files) /\ b.available = available
    BY <1>1, <1>2 DEF Bundle
<1>4. Collected(from, host, rows, next, files) /\ available \in Nat /\ Len(rows) <= available
    BY <1>2 DEF CollectionInv
<1>5. /\ EachOnce(rows) /\ next \in 1..(Len(rows) + 1) /\ IsSequence(files) /\ Len(files) <= next - 1
      /\ \A i \in DOMAIN files : \E k \in 1..(next - 1) : files[i] = rows[k].id
      /\ \A i, j \in DOMAIN files : files[i] = files[j] => i = j
      /\ \A k \in DOMAIN rows : rows[k].host \in Spelled(host) /\ \E h \in Histories : rows[k] \in ToSet(h[from])
    BY <1>4 DEF Collected
<1>6. Cardinality(ToSet(files)) = Len(files) /\ Len(files) \in Nat
    BY <1>5, FilesCount
<1>7. Len(rows) \in Nat /\ DOMAIN rows = 1..Len(rows)
    BY <1>5, PlacesAreFinite DEF EachOnce
<1>8. Len(files) <= available /\ \A k \in 1..(next - 1) : k \in DOMAIN rows
    BY <1>4, <1>5, <1>6, <1>7
<1> DEFINE theirs == {r \in UNION {ToSet(h[from]) : h \in Histories} : r.host \in Spelled(host)}
<1>9. \A k \in DOMAIN rows : rows[k] \in theirs
    BY <1>5
<1> HIDE DEF theirs
<1>10. ToSet(files) \subseteq {r.id : r \in theirs}
  <2> SUFFICES ASSUME NEW i \in DOMAIN files PROVE files[i] \in {r.id : r \in theirs}
    BY DEF ToSet
  <2>1. PICK k \in DOMAIN rows : files[i] = rows[k].id
    BY <1>5, <1>8
  <2> QED BY <1>9, <2>1
<1> QED BY <1>1, <1>3, <1>6, <1>8, <1>10 DEF theirs

\* A job that goes on, with what it has collected.
LEMMA KeepsCollection ==
    ASSUME CollectionInv, job.phase # "none", UNCHANGED <<held, disk, turns>>,
           job'.from = job.from, job'.host = job.host, job'.got = job.got, job'.mine = job.mine,
           Collected(job.from, job.host, job.mine, job'.next, job'.files),
           job'.phase = "rendering" => job.phase = "rendering"
    PROVE  CollectionInv'
<1>1. OnlyOneTarget'
    BY DEF CollectionInv, OnlyOneTarget
<1>2. CountedNow' <=> CountedNow
    BY DEF CountedNow, Exact, Scanned, Like
<1> QED BY <1>1, <1>2 DEF CollectionInv

LEMMA CollectionStep ==
    ASSUME CollectionInv, EvidenceInv, [EvidenceNext]_evidenceVars
    PROVE  CollectionInv'
<1>1. CASE UNCHANGED evidenceVars
  <2>1. UNCHANGED <<open, held, job, disk, turns>>
    BY <1>1 DEF evidenceVars
  <2>2. OnlyOneTarget' /\ (CountedNow' <=> CountedNow)
    BY SMTT(30), <2>1 DEF CollectionInv, OnlyOneTarget, CountedNow, Exact, Scanned, Like
  <2> QED BY <2>1, <2>2 DEF CollectionInv
<1>2. ASSUME NEW h \in Wanted, BuildTargetEvidenceBundle(h) \/ HandoffTargetToMesh(h)
      PROVE  CollectionInv'
    BY <1>2, BeginsCollection DEF BuildTargetEvidenceBundle, HandoffTargetToMesh
<1>3. job.phase # "none" =>
          DOMAIN job = JobFields /\ Collected(job.from, job.host, job.mine, job.next, job.files)
    BY DEF EvidenceInv, CollectionInv
<1>4. CASE RenderNext
  <2>1. /\ job.phase = "rendering" /\ job.next <= Len(job.mine) /\ DOMAIN job = JobFields
        /\ UNCHANGED <<held, disk, turns>>
    BY <1>3, <1>4 DEF RenderNext
  <2>2. PICK from, host, rows, next, files :
            /\ from = job.from /\ host = job.host /\ rows = job.mine /\ next = job.next /\ files = job.files
            /\ Collected(from, host, rows, next, files) /\ next <= Len(rows)
    BY <1>3, <2>1
  <2>3. /\ Collected(from, host, rows, next + 1, files)
        /\ Collected(from, host, rows, next + 1, Append(files, rows[next].id))
    BY <2>2, RendersOne
  <2>4. /\ job'.from = from /\ job'.host = host /\ job'.got = job.got /\ job'.mine = rows
        /\ \/ job'.next = next /\ job'.files = files
           \/ job'.next = next + 1 /\ (job'.files = files \/ job'.files = Append(files, rows[next].id))
    BY <1>4, <2>1, <2>2 DEF RenderNext, JobFields
  <2>5. Collected(from, host, rows, job'.next, job'.files)
    BY <2>2, <2>3, <2>4
  <2> QED BY <2>1, <2>2, <2>4, <2>5, KeepsCollection
<1>5. CASE Brief \/ CancelSave \/ Decide \/ NoKey \/ RecordEvidenceExport \/ StartMeshRun
  <2>1. job.phase # "none" /\ UNCHANGED <<held, disk, turns>>
    BY <1>5 DEF Brief, CancelSave, Decide, NoKey, RecordEvidenceExport, StartMeshRun
  <2>2. /\ job'.from = job.from /\ job'.host = job.host /\ job'.got = job.got /\ job'.mine = job.mine
        /\ job'.next = job.next /\ job'.files = job.files
        /\ job'.phase # "rendering"
    BY <1>3, <1>5, <2>1 DEF Brief, CancelSave, Decide, NoKey, RecordEvidenceExport, StartMeshRun, JobFields
  <2> QED BY <1>3, <2>1, <2>2, KeepsCollection
<1>6. CASE WriteBundle
  <2>1. /\ job.phase = "dialog" /\ UNCHANGED <<held, turns>>
        /\ disk' = disk \/ disk' = disk \cup {Bundle(job)}
    BY <1>6 DEF WriteBundle
  <2>2. /\ job'.from = job.from /\ job'.host = job.host /\ job'.got = job.got /\ job'.mine = job.mine
        /\ job'.next = job.next /\ job'.files = job.files
        /\ job'.phase \in {"written", "failed"}
    BY <1>3, <1>6, <2>1 DEF WriteBundle, JobFields
  <2>3. OnlyOneTarget'
    <3>1. OnlyOneTarget
      BY DEF CollectionInv
    <3>2. PICK one : one = Bundle(job)
      OBVIOUS
    <3>3. LET theirs(p) == {r \in UNION {ToSet(h[p]) : h \in Histories} : r.host \in Spelled(one.host)}
          IN /\ ToSet(one.files) \subseteq {r.id : r \in theirs(one.from)}
             /\ Cardinality(ToSet(one.files)) = Len(one.files) /\ one.count = Len(one.files)
             /\ one.count <= one.available
      BY <2>1, <3>2, BundleIsOfOne
    <3>4. \A b \in disk' : b \in disk \/ b = one
      BY <2>1, <3>2
    <3> QED BY <3>1, <3>3, <3>4 DEF OnlyOneTarget
  <2>4. Collected(job.from, job.host, job.mine, job.next, job.files)
    BY <1>3, <2>1
  <2> QED BY <2>1, <2>2, <2>3, <2>4 DEF CollectionInv
<1>7. CASE SwitchProject \/ ClearHistory \/ SetRules
  <2>1. UNCHANGED <<job, disk>> /\ turns' = turns + 1
    BY <1>7 DEF SwitchProject, ClearHistory, SetRules, Turn
  <2>2. turns' \in Nat /\ turns' # 0
    BY <2>1 DEF CollectionInv
  <2>3. held' = [p \in Stores |-> held'[p]] /\ \A p \in Stores : held'[p] = held[p] \/ held'[p] = <<>>
    BY <1>7 DEF SwitchProject, ClearHistory, SetRules, CollectionInv
  <2>4. \A p \in Stores : IsHistory(held'[p], p)
    BY <2>3 DEF CollectionInv, IsHistory
  <2>5. OnlyOneTarget'
    BY <2>1 DEF CollectionInv, OnlyOneTarget
  <2> QED BY <2>1, <2>2, <2>3, <2>4, <2>5 DEF CollectionInv
<1> QED BY <1>1, <1>2, <1>4, <1>5, <1>6, <1>7 DEF EvidenceNext

\* What a job has collected is of one host, each exchange once, and as much as
\* it says, in every state (session.ts:1003).
THEOREM CollectionInductive == EvidenceSpec => [](EvidenceInv /\ CollectionInv)
<1>1. EvidenceInit => CollectionInv
  <2> SUFFICES ASSUME EvidenceInit PROVE CollectionInv
    OBVIOUS
  <2>1. PICK h \in Histories : held = h
    BY DEF EvidenceInit
  <2>2. held = [p \in Stores |-> held[p]] /\ \A p \in Stores : IsHistory(held[p], p)
    BY <2>1, HistoriesAssumption DEF IsHistory
  <2>3. job.phase = "none" /\ disk = {} /\ turns = 0
    BY DEF EvidenceInit, NoJob
  <2> QED BY <2>2, <2>3 DEF CollectionInv, OnlyOneTarget
<1>2. EvidenceInv /\ CollectionInv /\ [EvidenceNext]_evidenceVars => CollectionInv'
    BY CollectionStep
<1> QED BY <1>1, <1>2, EvidenceInductive, PTL DEF EvidenceSpec

\* What was counted is what the open project has of the host, as long as no
\* more rows match than are scanned.
LEMMA CountsAreExact == EvidenceInv /\ CollectionInv => CountsAreOfTheHost
<1> SUFFICES ASSUME EvidenceInv, CollectionInv, job.phase = "rendering", turns = 0,
                    Cardinality(Like(job.from, job.host)) <= ScanCap
             PROVE  LET rows == {r \in ToSet(held[job.from]) : r.host \in Spelled(job.host)}
                    IN job.got.available = Cardinality(rows) /\ job.got.findings = {r.id : r \in rows} \cap Flagged
    BY DEF CountsAreOfTheHost
<1>1. PICK p, host, all, like, exact :
          /\ p = job.from /\ host = job.host /\ all = held[p] /\ like = Like(p, host) /\ exact = Exact(p, host)
    OBVIOUS
<1>2. p \in Stores /\ IsHistory(all, p)
    BY <1>1 DEF CollectionInv, Collected
<1>3. /\ EachOnce(all)
      /\ \A i \in DOMAIN all : /\ all[i].host \in DOMAIN Canonical
                               /\ <<all[i].host, Canonical[all[i].host]>> \in LikeHost
    BY <1>2, HistoryIs
<1>4. job.got.available = Cardinality(exact) /\ job.got.findings = {all[i].id : i \in exact} \cap Flagged
    BY <1>1 DEF CollectionInv, CountedNow
<1>5. like = {i \in DOMAIN all : <<all[i].host, host>> \in LikeHost}
    BY <1>1 DEF Like
<1>6. Positions(like) /\ Cardinality(like) \in Nat
  <2>1. like \in SUBSET DOMAIN all
    BY <1>5
  <2> QED BY <1>3, <2>1, PlacesAreFinite DEF EachOnce
<1>7. \A i \in like : LET before == Cardinality({j \in like : j < i}) IN before - (before % PageSize) < ScanCap
  <2> SUFFICES ASSUME NEW i \in like
               PROVE  LET before == Cardinality({j \in like : j < i}) IN before - (before % PageSize) < ScanCap
    OBVIOUS
  <2> DEFINE B == {j \in like : j < i}
  <2>1. B \in SUBSET like /\ i \notin B
    BY <1>6 DEF Positions
  <2> HIDE DEF B
  <2>2. IsFiniteSet(B) /\ Cardinality(B) \in Nat /\ Cardinality(B) <= Cardinality(like)
        /\ (Cardinality(like) = Cardinality(B) => like = B)
    BY <1>6, <2>1, FS_Subset, FS_CardinalityType DEF Positions
  <2>3. Cardinality(B) < Cardinality(like)
    BY <1>6, <2>1, <2>2
  <2>4. PICK n, c, size : n = Cardinality(B) /\ c = ScanCap /\ size = PageSize
    OBVIOUS
  <2>5. n \in Nat /\ c \in Nat /\ size \in Nat \ {0} /\ n < c
    BY <1>1, <1>6, <2>2, <2>3, <2>4, HistoriesAssumption
  <2>6. n % size \in 0..(size - 1)
    BY <2>5
  <2>7. n - (n % size) < c
    BY <2>5, <2>6
  <2> QED BY <2>4, <2>7 DEF B
<1>8. exact = {i \in DOMAIN all : Canonical[all[i].host] = host}
  <2>1. Scanned(p, host) = like
    BY <1>1, <1>7 DEF Scanned
  <2>2. exact = {i \in like : Canonical[all[i].host] = host}
    BY <1>1, <2>1 DEF Exact
  <2>3. \A i \in DOMAIN all : Canonical[all[i].host] = host => i \in like
    BY <1>3, <1>5
  <2> QED BY <1>5, <2>2, <2>3
<1> DEFINE rows == {r \in ToSet(all) : r.host \in Spelled(host)}
           f == [i \in exact |-> all[i]]
<1>9. /\ \A i \in exact : all[i] \in rows
      /\ \A r \in rows : \E i \in exact : all[i] = r
    BY <1>3, <1>8 DEF ToSet, Spelled
<1>10. \A i, j \in exact : all[i] = all[j] => i = j
    BY <1>3, <1>8 DEF EachOnce
<1> HIDE DEF rows
<1>11. IsFiniteSet(exact)
  <2>1. exact \in SUBSET DOMAIN all
    BY <1>8
  <2> QED BY <1>3, <2>1, PlacesAreFinite DEF EachOnce, Positions
<1>12. f \in [exact -> rows] /\ (\A i, j \in exact : f[i] = f[j] => i = j) /\ \A r \in rows : \E i \in exact : f[i] = r
    BY <1>9, <1>10
<1> HIDE DEF f
<1>13. Cardinality(rows) = Cardinality(exact)
    BY <1>11, <1>12, SameSize
<1>14. {all[i].id : i \in exact} = {r.id : r \in rows}
    BY <1>9
<1> QED BY <1>1, <1>4, <1>13, <1>14 DEF rows

\* A handed over finding points into its bundle, no run begins against its own
\* handoff, a bundle is of one target and as much as was counted, and the audit
\* log of every project tells of what happened, whatever the operator does
\* meanwhile (session.ts:1123, 1146, 1177).
THEOREM HandoffsHold == EvidenceSpec => []HandoffHolds
<1>1. EvidenceInv /\ CollectionInv => HandoffHolds
    BY CountsAreExact DEF EvidenceInv, CollectionInv, HandoffHolds
<1> QED BY <1>1, CollectionInductive, PTL

-----------------------------------------------------------------------------
(* The memory of hunts.                                                       *)

\* Lines as they were recorded, each once.
Genuine(lines) ==
    /\ IsSequence(lines)
    /\ \A i \in DOMAIN lines : lines[i].id \in 1..Len(made) /\ lines[i] = LineOf(lines[i].id)
    /\ \A i, j \in DOMAIN lines : i # j => lines[i].id # lines[j].id

Lacks(lines, id) == \A i \in DOMAIN lines : lines[i].id # id

\* A record that is still to be appended is nowhere yet.
Pending(c) ==
    LET id == calls[c].record.id
    IN /\ DOMAIN calls[c] = {"phase", "record"}
       /\ id \in 1..Len(made) /\ calls[c].record = LineOf(id)
       /\ Lacks(file, id)
       /\ \A d \in Calls : /\ calls[d].phase \in {"rewriting", "filling"} => Lacks(calls[d].body, id)
                           /\ calls[d].phase = "appending" /\ d # c => calls[d].record.id # id

Rewrites(call) ==
    /\ DOMAIN call = {"phase", "body"}
    /\ Genuine(call.body) /\ Len(call.body) = MaxRecords

\* Every line there is, or on its way to the file, is one that was made.
LinesInv ==
    /\ IsSequence(made) /\ \A i \in 1..Len(made) : LineOf(i).id = i
    /\ IsSequence(kept) /\ Genuine(file)
    /\ DOMAIN calls = Calls
    /\ \A c \in Calls :
         /\ calls[c].phase \in {"returned", "recalling", "appending", "reading", "rewriting", "filling", "clearing"}
         /\ calls[c].phase = "appending" => Pending(c)
         /\ calls[c].phase \in {"rewriting", "filling"} => Rewrites(calls[c])

\* The file of a call that has appended and not yet counted: the end of what
\* is kept, and nothing dropped below the bound.
EndsWell ==
    \E k \in 1..(Len(kept) + 1) :
        /\ file = SubSeq(kept, k, Len(kept))
        /\ Len(file) >= MaxRecords \/ k = 1

\* What the one writing call finds.
Finds(c) ==
    /\ calls[c].phase \in {"appending", "clearing"} => file = LastOnes(kept, MaxRecords)
    /\ calls[c].phase = "reading" => EndsWell
    /\ calls[c].phase \in {"rewriting", "filling"} => calls[c].body = LastOnes(kept, MaxRecords)

NobodyWrites == \A c \in Calls : ~Writing(c)

\* Calls that never overlapped write one at a time, each from where the last
\* one left the file.
InTurn ==
    /\ \A c, d \in Calls : Writing(c) /\ Writing(d) => c = d
    /\ \A c \in Calls : Finds(c)
    /\ NobodyWrites => file = LastOnes(kept, MaxRecords)

MemoryInv == LinesInv /\ (~overlapped => InTurn)

-----------------------------------------------------------------------------
(* The steps.                                                                 *)

\* The lines of a part of a genuine file are genuine, and no others.
LEMMA PartIsGenuine ==
    ASSUME NEW lines, Genuine(lines), NEW a \in 1..(Len(lines) + 1), NEW b \in 0..Len(lines), a <= b + 1
    PROVE  /\ Genuine(SubSeq(lines, a, b)) /\ Len(SubSeq(lines, a, b)) = b - a + 1
           /\ \A i \in DOMAIN SubSeq(lines, a, b) : \E j \in DOMAIN lines : SubSeq(lines, a, b)[i] = lines[j]
<1> DEFINE part == SubSeq(lines, a, b)
<1>1. IsSequence(lines) /\ Len(lines) \in Nat /\ DOMAIN lines = 1..Len(lines)
    BY SequenceIs DEF Genuine, IsSequence
<1>2. /\ IsSequence(part) /\ Len(part) = b - a + 1 /\ DOMAIN part = 1..(b - a + 1)
      /\ \A i \in 1..(b - a + 1) : part[i] = lines[a + i - 1]
    BY <1>1, PartIs
<1> HIDE DEF part
<1>3. \A i \in DOMAIN part : a + i - 1 \in DOMAIN lines /\ part[i] = lines[a + i - 1]
    BY <1>1, <1>2
<1>4. \A i \in DOMAIN part : part[i].id \in 1..Len(made) /\ part[i] = LineOf(part[i].id)
    BY <1>3 DEF Genuine
<1>5. ASSUME NEW i \in DOMAIN part, NEW j \in DOMAIN part, i # j PROVE part[i].id # part[j].id
  <2>1. a + i - 1 # a + j - 1
    BY <1>1, <1>2, <1>5
  <2> QED BY <1>3, <2>1 DEF Genuine
<1>6. Genuine(part)
    BY <1>2, <1>4, <1>5 DEF Genuine
<1> QED BY <1>2, <1>3, <1>6 DEF part

\* A line that is in the file, in what a call will write, or the one call c
\* was to append.
Known(c, id) ==
    \/ \E i \in DOMAIN file : file[i].id = id
    \/ \E d \in Calls : /\ calls[d].phase \in {"rewriting", "filling"}
                        /\ \E i \in DOMAIN calls[d].body : calls[d].body[i].id = id
    \/ calls[c].phase = "appending" /\ calls[c].record.id = id

\* One call moves on, and the file and what it will write hold known lines.
LEMMA LinesStay ==
    ASSUME LinesInv, UNCHANGED made, IsSequence(kept'), NEW c \in Calls, NEW v,
           calls' = [calls EXCEPT ![c] = v], NEW lines, file' = lines, Genuine(lines),
           v.phase \in {"returned", "recalling", "reading", "rewriting", "filling", "clearing"},
           v.phase \in {"rewriting", "filling"} =>
               Rewrites(v) /\ \A i \in DOMAIN v.body : Known(c, v.body[i].id),
           \A i \in DOMAIN lines : Known(c, lines[i].id)
    PROVE  LinesInv'
<1>1. /\ DOMAIN calls' = Calls /\ calls'[c] = v /\ \A d \in Calls \ {c} : calls'[d] = calls[d]
    BY DEF LinesInv
<1>2. \A l : Genuine(l)' <=> Genuine(l)
    BY DEF Genuine, LineOf
<1>3. Genuine(file)'
    BY <1>2
<1>4. ASSUME NEW d \in Calls
      PROVE  /\ calls'[d].phase \in {"returned", "recalling", "appending", "reading", "rewriting", "filling", "clearing"}
             /\ calls'[d].phase \in {"rewriting", "filling"} => Rewrites(calls[d])'
  <2>1. CASE d = c
    BY <1>1, <1>2, <2>1 DEF Rewrites
  <2>2. CASE d # c
    BY <1>1, <1>2, <2>2 DEF LinesInv, Rewrites
  <2> QED BY <2>1, <2>2
<1>5. ASSUME NEW d \in Calls, calls'[d].phase = "appending" PROVE Pending(d)'
  <2>1. d # c /\ calls'[d] = calls[d] /\ Pending(d)
    BY <1>1, <1>5 DEF LinesInv
  <2>2. PICK id : id = calls[d].record.id
    OBVIOUS
  <2>3. ~Known(c, id)
    BY <2>1, <2>2 DEF Pending, Lacks, Known
  <2>4. Lacks(lines, id)
    BY <2>3 DEF Lacks
  <2>5. ASSUME NEW e \in Calls, calls'[e].phase \in {"rewriting", "filling"} PROVE Lacks(calls'[e].body, id)
    <3>1. CASE e = c
      BY <1>1, <2>3, <2>5, <3>1 DEF Lacks
    <3>2. CASE e # c
      BY <1>1, <2>1, <2>2, <2>5, <3>2 DEF Pending
    <3> QED BY <3>1, <3>2
  <2>6. ASSUME NEW e \in Calls, calls'[e].phase = "appending", e # d PROVE calls'[e].record.id # id
    BY <1>1, <2>1, <2>2, <2>6 DEF Pending
  <2>7. LineOf(id)' = LineOf(id)
    BY DEF LineOf
  <2> QED BY <2>1, <2>2, <2>4, <2>5, <2>6, <2>7 DEF Pending, Lacks
<1> QED BY <1>1, <1>3, <1>4, <1>5 DEF LinesInv, LineOf

\* The same where the file stays.
LEMMA FileStays ==
    ASSUME LinesInv, UNCHANGED <<made, kept, file>>, NEW c \in Calls, NEW v, calls' = [calls EXCEPT ![c] = v],
           v.phase \in {"returned", "recalling", "reading", "rewriting", "filling", "clearing"},
           v.phase \in {"rewriting", "filling"} =>
               Rewrites(v) /\ \A i \in DOMAIN v.body : Known(c, v.body[i].id)
    PROVE  LinesInv'
<1>1. PICK lines : lines = file
    OBVIOUS
<1>2. file' = lines /\ Genuine(lines) /\ \A i \in DOMAIN lines : Known(c, lines[i].id)
    BY <1>1 DEF LinesInv, Known
<1>3. IsSequence(kept') /\ UNCHANGED made
    BY DEF LinesInv
<1> QED BY <1>2, <1>3, LinesStay

\* One call moves on while nothing overlapped.
LEMMA CallIs ==
    ASSUME LinesInv, NEW c \in Calls, NEW v, calls' = [calls EXCEPT ![c] = v]
    PROVE  /\ calls'[c] = v /\ \A d \in Calls \ {c} : calls'[d] = calls[d]
           /\ Writing(c)' <=> v.phase \notin {"returned", "recalling"}
           /\ \A d \in Calls \ {c} : Writing(d)' <=> Writing(d)
BY DEF LinesInv, Writing

LEMMA RecordHunt ==
    ASSUME MemoryInv, NEW c \in Calls, RecordHuntOutcome(c)
    PROVE  MemoryInv'
<1>1. PICK r, x : /\ r.id = Len(made) + 1 /\ x.line = r /\ made' = Append(made, x)
                  /\ Call(c, [phase |-> "appending", record |-> r])
  <2> DEFINE input == Outcomes[Len(made) + 1]
             r0 == [id |-> Len(made) + 1, program |-> RecordLabel(engaged), host |-> input.host,
                    shape |-> PathShape(input.path), klass |-> input.klass, outcome |-> input.outcome,
                    note |-> Clean(input.note)]
             x0 == [line |-> r0, input |-> input, by |-> engaged]
  <2>1. r0.id = Len(made) + 1 /\ x0.line = r0
    OBVIOUS
  <2>2. made' = Append(made, x0) /\ Call(c, [phase |-> "appending", record |-> r0])
    BY DEF RecordHuntOutcome
  <2> HIDE DEF r0, x0
  <2> QED BY <2>1, <2>2
<1>2. PICK v : v = [phase |-> "appending", record |-> r]
    OBVIOUS
<1>3. /\ v.phase = "appending" /\ v.record = r /\ DOMAIN v = {"phase", "record"}
      /\ calls[c].phase = "returned" /\ calls' = [calls EXCEPT ![c] = v]
    BY <1>1, <1>2 DEF Call, Returned
<1>4. UNCHANGED <<file, kept>> /\ LinesInv
    BY DEF RecordHuntOutcome, MemoryInv
<1>5. /\ calls'[c] = v /\ \A d \in Calls \ {c} : calls'[d] = calls[d]
      /\ DOMAIN calls' = Calls /\ \A d \in Calls \ {c} : Writing(d)' <=> Writing(d)
    BY <1>3, <1>4, CallIs DEF LinesInv
<1>6. /\ IsSequence(made)' /\ Len(made) \in Nat /\ Len(made') = Len(made) + 1
      /\ \A i \in 1..Len(made) : made'[i] = made[i]
      /\ made'[Len(made) + 1] = x
    BY <1>1, <1>4, AppendedIs DEF LinesInv
<1>7. \A i \in 1..Len(made) : made'[i].line = made[i].line /\ i \in 1..Len(made')
    BY <1>6
<1>8. PICK n : n = Len(made) + 1 /\ n \in Nat /\ r.id = n /\ made'[n].line = r
    BY <1>1, <1>6
<1>9. \A i \in 1..Len(made') : made'[i].line.id = i
  <2> SUFFICES ASSUME NEW i \in 1..Len(made') PROVE made'[i].line.id = i
    OBVIOUS
  <2>1. i \in 1..Len(made) \/ i = n
    BY <1>6, <1>8
  <2> QED BY <1>4, <1>7, <1>8, <2>1 DEF LinesInv, LineOf
<1>10. \A l : Genuine(l) => Genuine(l)'
    BY <1>7 DEF Genuine, LineOf
<1>11. \A l : Genuine(l) => Lacks(l, n)
    BY <1>6, <1>8 DEF Genuine, Lacks
<1>12. Pending(c)'
  <2>1. \A d \in Calls : calls'[d].phase \in {"rewriting", "filling"} => Lacks(calls'[d].body, n)
    BY <1>3, <1>4, <1>5, <1>11 DEF LinesInv, Rewrites
  <2>2. \A d \in Calls \ {c} : calls'[d].phase = "appending" => calls'[d].record.id # n
    BY <1>4, <1>5, <1>6, <1>8 DEF LinesInv, Pending
  <2>3. Lacks(file', n) /\ n \in 1..Len(made')
    BY <1>4, <1>6, <1>8, <1>11 DEF LinesInv
  <2>4. calls'[c].record.id = n /\ calls'[c].record = made'[n].line /\ DOMAIN calls'[c] = {"phase", "record"}
    BY <1>3, <1>5, <1>8
  <2> QED BY <2>1, <2>2, <2>3, <2>4 DEF Pending, Lacks, LineOf
<1>13. ASSUME NEW d \in Calls \ {c}, calls'[d].phase = "appending" PROVE Pending(d)'
  <2>1. Pending(d) /\ calls'[d] = calls[d]
    BY <1>4, <1>5, <1>13 DEF LinesInv
  <2>2. PICK id : id = calls[d].record.id
    OBVIOUS
  <2>3. /\ id \in 1..Len(made) /\ id # n /\ calls[d].record = made[id].line
        /\ DOMAIN calls[d] = {"phase", "record"} /\ Lacks(file, id)
    BY <1>6, <1>8, <2>1, <2>2 DEF Pending, LineOf
  <2>4. ASSUME NEW e \in Calls
        PROVE  /\ calls'[e].phase \in {"rewriting", "filling"} => Lacks(calls'[e].body, id)
               /\ calls'[e].phase = "appending" /\ e # d => calls'[e].record.id # id
    <3>1. CASE e = c
      BY <1>3, <1>5, <1>8, <2>3, <3>1
    <3>2. CASE e # c
      BY <1>5, <2>1, <2>2, <3>2 DEF Pending
    <3> QED BY <3>1, <3>2
  <2>5. calls'[d].record.id = id /\ calls'[d].record = made'[id].line /\ id \in 1..Len(made') /\ Lacks(file', id)
    BY <1>4, <1>7, <2>1, <2>2, <2>3
  <2>6. DOMAIN calls'[d] = {"phase", "record"}
    BY <2>1, <2>3
  <2> QED BY <2>4, <2>5, <2>6 DEF Pending, Lacks, LineOf
<1>14. ASSUME NEW d \in Calls
       PROVE  /\ calls'[d].phase \in {"returned", "recalling", "appending", "reading", "rewriting", "filling", "clearing"}
              /\ calls'[d].phase \in {"rewriting", "filling"} => Rewrites(calls[d])'
    BY <1>3, <1>4, <1>5, <1>10 DEF LinesInv, Rewrites
<1>15. LinesInv'
    BY <1>4, <1>5, <1>6, <1>9, <1>10, <1>12, <1>13, <1>14 DEF LinesInv, LineOf
<1>16. ASSUME ~overlapped' PROVE InTurn'
  <2>1. InTurn /\ NobodyWrites
    BY <1>3, <1>16 DEF RecordHuntOutcome, Overlaps, MemoryInv, NobodyWrites, Writing
  <2>2. file' = LastOnes(kept, MaxRecords)' /\ \A d \in Calls \ {c} : ~Writing(d)'
    BY <1>4, <1>5, <2>1 DEF InTurn, NobodyWrites
  <2>3. \A d \in Calls : Finds(d)'
    BY <1>3, <1>5, <2>2 DEF Finds, Writing
  <2> QED BY <2>2, <2>3 DEF InTurn, NobodyWrites
<1> QED BY <1>15, <1>16 DEF MemoryInv

\* One call moves on while no other writes, and leaves what it is to find.
LEMMA TurnStays ==
    ASSUME LinesInv, NEW c \in Calls, NEW v, calls' = [calls EXCEPT ![c] = v],
           \A d \in Calls \ {c} : ~Writing(d),
           v.phase \in {"returned", "recalling"} => file' = LastOnes(kept', MaxRecords),
           Finds(c)'
    PROVE  InTurn'
<1>1. /\ calls'[c] = v /\ \A d \in Calls \ {c} : ~Writing(d)'
      /\ Writing(c)' <=> v.phase \notin {"returned", "recalling"}
    BY CallIs
<1>2. \A d \in Calls \ {c} : Finds(d)'
    BY <1>1 DEF Finds, Writing
<1>3. NobodyWrites' => file' = LastOnes(kept', MaxRecords)
    BY <1>1 DEF NobodyWrites
<1> QED BY <1>1, <1>2, <1>3 DEF InTurn, LastOnes

LEMMA RestIs ==
    ASSUME NEW s, IsSequence(s), NEW a \in 1..(Len(s) + 1)
    PROVE  /\ Len(s) \in Nat /\ IsSequence(SubSeq(s, a, Len(s))) /\ Len(SubSeq(s, a, Len(s))) = Len(s) - a + 1
           /\ \A i \in 1..(Len(s) - a + 1) : SubSeq(s, a, Len(s))[i] = s[a + i - 1]
<1>1. Len(s) \in Nat /\ Len(s) \in 0..Len(s) /\ a <= Len(s) + 1
    BY SequenceIs DEF IsSequence
<1> QED BY <1>1, PartIs

\* The rest of the end of a sequence is an end of it.
LEMMA EndOfEnd ==
    ASSUME NEW s, IsSequence(s), NEW k \in 1..(Len(s) + 1), NEW f, f = SubSeq(s, k, Len(s)),
           NEW a \in 1..(Len(f) + 1)
    PROVE  /\ IsSequence(f) /\ Len(s) \in Nat /\ Len(f) = Len(s) - k + 1
           /\ SubSeq(f, a, Len(f)) = SubSeq(s, k + a - 1, Len(s))
<1>1. /\ IsSequence(f) /\ Len(s) \in Nat /\ Len(f) \in Nat /\ Len(f) = Len(s) - k + 1
      /\ \A i \in 1..(Len(s) - k + 1) : f[i] = s[k + i - 1]
  <2>1. /\ Len(s) \in Nat /\ IsSequence(f) /\ Len(f) = Len(s) - k + 1
        /\ \A i \in 1..(Len(s) - k + 1) : f[i] = s[k + i - 1]
    BY RestIs
  <2> QED BY <2>1
<1>2. PICK b, t, u : b = k + a - 1 /\ t = SubSeq(f, a, Len(f)) /\ u = SubSeq(s, b, Len(s))
    OBVIOUS
<1>3. b \in 1..(Len(s) + 1)
    BY <1>1, <1>2
<1>4. IsSequence(t) /\ Len(t) = Len(f) - a + 1 /\ \A i \in 1..(Len(f) - a + 1) : t[i] = f[a + i - 1]
  <2>1. IsSequence(f)
    BY <1>1
  <2>2. /\ IsSequence(SubSeq(f, a, Len(f))) /\ Len(SubSeq(f, a, Len(f))) = Len(f) - a + 1
        /\ \A i \in 1..(Len(f) - a + 1) : SubSeq(f, a, Len(f))[i] = f[a + i - 1]
    BY <2>1, RestIs
  <2> QED BY <1>2, <2>2
<1>5. IsSequence(u) /\ Len(u) = Len(s) - b + 1 /\ \A i \in 1..(Len(s) - b + 1) : u[i] = s[b + i - 1]
  <2>1. /\ IsSequence(SubSeq(s, b, Len(s))) /\ Len(SubSeq(s, b, Len(s))) = Len(s) - b + 1
        /\ \A i \in 1..(Len(s) - b + 1) : SubSeq(s, b, Len(s))[i] = s[b + i - 1]
    BY <1>3, RestIs
  <2> QED BY <1>2, <2>1
<1>6. ASSUME NEW i \in 1..Len(t) PROVE t[i] = u[i]
  <2>1. /\ i \in 1..(Len(f) - a + 1) /\ i \in 1..(Len(s) - b + 1)
        /\ a + i - 1 \in 1..(Len(s) - k + 1) /\ k + (a + i - 1) - 1 = b + i - 1
    BY <1>1, <1>2, <1>3, <1>4
  <2> QED BY <1>1, <1>4, <1>5, <2>1
<1>7. Len(t) = Len(u)
    BY <1>1, <1>2, <1>4, <1>5
<1>8. t = u
    BY <1>4, <1>5, <1>6, <1>7, SameIs
<1> QED BY <1>1, <1>2, <1>8

\* What is appended to a sequence is appended to its end.
LEMMA EndGrows ==
    ASSUME NEW s, IsSequence(s), NEW k \in 1..(Len(s) + 1), NEW x
    PROVE  Append(SubSeq(s, k, Len(s)), x) = SubSeq(Append(s, x), k, Len(s) + 1)
<1> DEFINE f == SubSeq(s, k, Len(s))
           g == Append(s, x)
           t == Append(f, x)
           u == SubSeq(g, k, Len(s) + 1)
<1>1. Len(s) \in Nat /\ Len(s) \in 0..Len(s) /\ k <= Len(s) + 1
    BY SequenceIs DEF IsSequence
<1>2. IsSequence(f) /\ Len(f) = Len(s) - k + 1 /\ \A i \in 1..(Len(s) - k + 1) : f[i] = s[k + i - 1]
    BY <1>1, PartIs
<1> HIDE DEF f
<1>3. /\ IsSequence(g) /\ Len(g) = Len(s) + 1 /\ \A i \in 1..Len(s) : g[i] = s[i]
      /\ g[Len(s) + 1] = x
    BY AppendedIs
<1> HIDE DEF g
<1>4. /\ IsSequence(t) /\ Len(t) = Len(f) + 1 /\ \A i \in 1..Len(f) : t[i] = f[i]
      /\ t[Len(f) + 1] = x /\ Len(f) \in Nat
  <2>1. IsSequence(f)
    BY <1>2
  <2> QED BY <2>1, AppendedIs
<1> HIDE DEF t
<1>5. /\ IsSequence(u) /\ Len(u) = Len(s) + 1 - k + 1
      /\ \A i \in 1..(Len(s) + 1 - k + 1) : u[i] = g[k + i - 1]
  <2>1. k \in 1..(Len(g) + 1) /\ Len(s) + 1 \in 0..Len(g) /\ k <= Len(s) + 1 + 1
    BY <1>1, <1>3
  <2> QED BY <1>3, <2>1, PartIs
<1> HIDE DEF u
<1>6. ASSUME NEW i \in 1..Len(t) PROVE t[i] = u[i]
  <2>1. CASE i \in 1..Len(f)
    <3>1. k + i - 1 \in 1..Len(s) /\ i \in 1..(Len(s) - k + 1) /\ i \in 1..(Len(s) + 1 - k + 1)
      BY <1>1, <1>2, <2>1
    <3> QED BY <1>2, <1>3, <1>4, <1>5, <2>1, <3>1
  <2>2. CASE i = Len(f) + 1
    <3>1. k + i - 1 = Len(s) + 1 /\ i \in 1..(Len(s) + 1 - k + 1)
      BY <1>1, <1>2, <2>2
    <3> QED BY <1>3, <1>4, <1>5, <2>2, <3>1
  <2>3. i \in 1..Len(f) \/ i = Len(f) + 1
    BY <1>4
  <2> QED BY <2>1, <2>2, <2>3
<1>7. Len(t) = Len(u)
    BY <1>1, <1>2, <1>4, <1>5
<1>8. t = u
    BY <1>4, <1>5, <1>6, <1>7, SameIs
<1> QED BY <1>8 DEF f, g, t, u

LEMMA AppendsLine ==
    ASSUME MemoryInv, NEW c \in Calls, AppendLine(c)
    PROVE  MemoryInv'
<1>1. LinesInv /\ Pending(c) /\ calls[c].phase = "appending" /\ UNCHANGED <<made, overlapped>>
    BY DEF AppendLine, MemoryInv, LinesInv
<1>2. CASE calls' = [calls EXCEPT ![c] = Returned] /\ UNCHANGED <<file, kept>>
  <2>1. PICK v : v = Returned
    OBVIOUS
  <2>2. v.phase = "returned" /\ calls' = [calls EXCEPT ![c] = v] /\ UNCHANGED <<made, kept, file>>
    BY <1>1, <1>2, <2>1 DEF Returned
  <2>3. LinesInv'
    BY <1>1, <2>2, FileStays
  <2>4. ASSUME ~overlapped' PROVE InTurn'
    <3>1. InTurn /\ Writing(c)
      BY <1>1, <2>4 DEF MemoryInv, Writing
    <3>2. (\A d \in Calls \ {c} : ~Writing(d)) /\ file' = LastOnes(kept', MaxRecords)
      BY <1>1, <2>2, <3>1 DEF InTurn, Finds
    <3>3. Finds(c)'
      BY <1>1, <2>2, CallIs DEF Finds
    <3> QED BY <1>1, <2>2, <3>2, <3>3, TurnStays
  <2> QED BY <2>3, <2>4 DEF MemoryInv
<1>3. CASE /\ file' = Append(file, calls[c].record) /\ kept' = Append(kept, calls[c].record)
           /\ calls' = [calls EXCEPT ![c].phase = "reading"]
  <2>1. PICK r, v, lines, ends : /\ r = calls[c].record /\ v = [calls[c] EXCEPT !.phase = "reading"]
                                 /\ lines = file /\ ends = kept
    OBVIOUS
  <2>2. /\ r.id \in 1..Len(made) /\ r = LineOf(r.id) /\ Lacks(lines, r.id)
        /\ v.phase = "reading" /\ calls' = [calls EXCEPT ![c] = v]
        /\ Genuine(lines) /\ IsSequence(lines) /\ IsSequence(ends)
    BY <1>1, <1>3, <2>1 DEF Pending, LinesInv, Genuine
  <2>3. PICK more : more = Append(lines, r) /\ file' = more
    BY <1>3, <2>1
  <2>4. /\ IsSequence(more) /\ Len(lines) \in Nat /\ DOMAIN lines = 1..Len(lines)
        /\ DOMAIN more = 1..(Len(lines) + 1) /\ Len(more) = Len(lines) + 1
        /\ \A i \in 1..Len(lines) : more[i] = lines[i]
        /\ more[Len(lines) + 1] = r
    BY <2>2, <2>3, AppendedIs
  <2>5. Genuine(more)
    <3>1. \A i \in DOMAIN more : i \in DOMAIN lines \/ i = Len(lines) + 1
      BY <2>4
    <3>2. \A i \in DOMAIN more : more[i].id \in 1..Len(made) /\ more[i] = LineOf(more[i].id)
      BY <2>2, <2>4, <3>1 DEF Genuine
    <3>3. ASSUME NEW i \in DOMAIN more, NEW j \in DOMAIN more, i # j PROVE more[i].id # more[j].id
      <4>1. CASE i \in DOMAIN lines /\ j \in DOMAIN lines
        BY <2>2, <2>4, <3>3, <4>1 DEF Genuine
      <4>2. CASE i \in DOMAIN lines /\ j = Len(lines) + 1
        BY <2>2, <2>4, <4>2 DEF Lacks
      <4>3. CASE i = Len(lines) + 1 /\ j \in DOMAIN lines
        BY <2>2, <2>4, <4>3 DEF Lacks
      <4> QED BY <3>1, <3>3, <4>1, <4>2, <4>3
    <3> QED BY <2>4, <3>2, <3>3 DEF Genuine
  <2>6. \A i \in DOMAIN more : Known(c, more[i].id)
    <3>1. \A i \in DOMAIN more : i \in DOMAIN lines \/ i = Len(lines) + 1
      BY <2>4
    <3> QED BY <1>1, <2>1, <2>4, <3>1 DEF Known
  <2>7. kept' = Append(ends, r) /\ IsSequence(kept')
    BY <1>3, <2>1, <2>2, AppendedIs
  <2>8. LinesInv'
    BY <1>1, <2>2, <2>3, <2>5, <2>6, <2>7, LinesStay
  <2>9. ASSUME ~overlapped' PROVE InTurn'
    <3>1. InTurn /\ Writing(c)
      BY <1>1, <2>9 DEF MemoryInv, Writing
    <3>2. (\A d \in Calls \ {c} : ~Writing(d)) /\ lines = LastOnes(ends, MaxRecords)
      BY <1>1, <2>1, <3>1 DEF InTurn, Finds
    <3>3. PICK k : k = IF Len(ends) >= MaxRecords THEN Len(ends) - MaxRecords + 1 ELSE 1
      OBVIOUS
    <3>4. /\ Len(ends) \in Nat /\ lines = SubSeq(ends, k, Len(ends)) /\ k \in 1..(Len(ends) + 1)
          /\ Len(lines) = IF Len(ends) >= MaxRecords THEN MaxRecords ELSE Len(ends)
      <4>1. /\ LastOnes(ends, MaxRecords) = SubSeq(ends, IF Len(ends) >= MaxRecords THEN Len(ends) - MaxRecords + 1 ELSE 1, Len(ends))
            /\ Len(ends) \in Nat
            /\ Len(LastOnes(ends, MaxRecords)) = IF Len(ends) >= MaxRecords THEN MaxRecords ELSE Len(ends)
        BY <2>2, LastOnesIs, MemoryAssumption
      <4>2. k \in 1..(Len(ends) + 1)
        BY <3>3, <4>1, MemoryAssumption
      <4> QED BY <3>2, <3>3, <4>1, <4>2
    <3>5. more = SubSeq(Append(ends, r), k, Len(ends) + 1)
      BY <2>2, <2>3, <3>4, EndGrows
    <3>6. Len(Append(ends, r)) = Len(ends) + 1
      BY <2>2, AppendedIs
    <3>7. file' = SubSeq(kept', k, Len(kept')) /\ k \in 1..(Len(kept') + 1)
      <4>1. Len(kept') = Len(ends) + 1 /\ more = SubSeq(kept', k, Len(ends) + 1)
        BY <2>7, <3>5, <3>6
      <4>2. k \in 1..(Len(ends) + 1 + 1)
        BY <3>4
      <4> QED BY <2>3, <4>1, <4>2
    <3>8. Len(file') >= MaxRecords \/ k = 1
      BY <2>3, <2>4, <3>3, <3>4, MemoryAssumption
    <3>9. EndsWell'
      BY <3>7, <3>8 DEF EndsWell
    <3>10. Finds(c)'
      BY <1>1, <2>2, <3>9, CallIs DEF Finds
    <3> QED BY <1>1, <2>2, <3>2, <3>10, TurnStays
  <2> QED BY <2>8, <2>9 DEF MemoryInv
<1> QED BY <1>2, <1>3 DEF AppendLine

LEMMA Compacts ==
    ASSUME MemoryInv, NEW c \in Calls, CompactIfNeeded(c)
    PROVE  MemoryInv'
<1>1. PICK lines, ends : lines = file /\ ends = kept
    OBVIOUS
<1>2. /\ LinesInv /\ calls[c].phase = "reading" /\ UNCHANGED <<made, overlapped, file, kept>>
      /\ Genuine(lines) /\ IsSequence(lines) /\ IsSequence(ends) /\ Len(lines) \in Nat
    BY <1>1, SequenceIs DEF CompactIfNeeded, MemoryInv, LinesInv, Genuine, IsSequence
<1>3. ASSUME ~overlapped' PROVE (\A d \in Calls \ {c} : ~Writing(d)) /\ EndsWell
  <2>1. InTurn /\ Writing(c)
    BY <1>2, <1>3 DEF MemoryInv, Writing
  <2> QED BY <1>2, <2>1 DEF InTurn, Finds
<1>4. CASE Len(lines) <= MaxRecords
  <2>1. PICK v : v = Returned
    OBVIOUS
  <2>2. v.phase = "returned" /\ calls' = [calls EXCEPT ![c] = v]
    BY <1>1, <1>4, <2>1 DEF CompactIfNeeded, Returned
  <2>3. LinesInv'
    BY <1>2, <2>2, FileStays
  <2>4. ASSUME ~overlapped' PROVE InTurn'
    <3>1. PICK k : /\ k \in 1..(Len(ends) + 1) /\ lines = SubSeq(ends, k, Len(ends))
                   /\ (Len(lines) >= MaxRecords \/ k = 1)
      BY <1>1, <1>3, <2>4 DEF EndsWell
    <3>2. /\ LastOnes(ends, MaxRecords) = SubSeq(ends, IF Len(ends) >= MaxRecords THEN Len(ends) - MaxRecords + 1 ELSE 1, Len(ends))
          /\ Len(ends) \in Nat
      BY <1>2, LastOnesIs, MemoryAssumption
    <3>3. IsSequence(ends)
      BY <1>2
    <3>4. Len(lines) = Len(ends) - k + 1
      <4>1. Len(SubSeq(ends, k, Len(ends))) = Len(ends) - k + 1
        BY <3>1, <3>3, RestIs
      <4> QED BY <3>1, <4>1
    <3>5. k = IF Len(ends) >= MaxRecords THEN Len(ends) - MaxRecords + 1 ELSE 1
      BY <1>4, <3>1, <3>2, <3>4, MemoryAssumption, SMTT(30)
    <3>6. file' = LastOnes(kept', MaxRecords)
      BY <1>1, <1>2, <3>1, <3>2, <3>5
    <3>7. Finds(c)'
      BY <1>2, <2>2, CallIs DEF Finds
    <3> QED BY <1>2, <1>3, <2>2, <2>4, <3>6, <3>7, TurnStays
  <2> QED BY <2>3, <2>4 DEF MemoryInv
<1>5. CASE ~(Len(lines) <= MaxRecords)
  <2>1. PICK a, body, v : /\ a = Len(lines) - MaxRecords + 1 /\ body = SubSeq(lines, a, Len(lines))
                          /\ v = [phase |-> "rewriting", body |-> body]
    OBVIOUS
  <2>2. /\ v.phase = "rewriting" /\ v.body = body /\ DOMAIN v = {"phase", "body"}
        /\ calls' = [calls EXCEPT ![c] = v]
    BY <1>1, <1>5, <2>1 DEF CompactIfNeeded, Compacted
  <2>3. a \in 1..(Len(lines) + 1) /\ a > 1 /\ Len(lines) \in 0..Len(lines) /\ a <= Len(lines) + 1
    BY <1>2, <1>5, <2>1, MemoryAssumption
  <2>4. /\ Genuine(body) /\ Len(body) = Len(lines) - a + 1
        /\ \A i \in DOMAIN body : \E j \in DOMAIN lines : body[i] = lines[j]
    <3>1. Genuine(lines)
      BY <1>2
    <3>2. /\ Genuine(SubSeq(lines, a, Len(lines))) /\ Len(SubSeq(lines, a, Len(lines))) = Len(lines) - a + 1
          /\ \A i \in DOMAIN SubSeq(lines, a, Len(lines)) : \E j \in DOMAIN lines : SubSeq(lines, a, Len(lines))[i] = lines[j]
      BY <2>3, <3>1, PartIsGenuine, ZenonT(60)
    <3> QED BY <2>1, <3>2
  <2>5. Len(body) = MaxRecords
    BY <1>2, <2>1, <2>4, MemoryAssumption
  <2>6. Rewrites(v) /\ \A i \in DOMAIN v.body : Known(c, v.body[i].id)
    BY <1>1, <2>2, <2>4, <2>5 DEF Rewrites, Known
  <2>7. LinesInv'
    BY <1>2, <2>2, <2>6, FileStays
  <2>8. ASSUME ~overlapped' PROVE InTurn'
    <3>1. PICK k : k \in 1..(Len(ends) + 1) /\ lines = SubSeq(ends, k, Len(ends))
      BY <1>1, <1>3, <2>8 DEF EndsWell
    <3>2. /\ LastOnes(ends, MaxRecords) = SubSeq(ends, IF Len(ends) >= MaxRecords THEN Len(ends) - MaxRecords + 1 ELSE 1, Len(ends))
          /\ Len(ends) \in Nat
      BY <1>2, LastOnesIs, MemoryAssumption
    <3>3. Len(lines) = Len(ends) - k + 1 /\ body = SubSeq(ends, k + a - 1, Len(ends))
      <4>1. /\ IsSequence(ends) /\ k \in 1..(Len(ends) + 1)
            /\ lines = SubSeq(ends, k, Len(ends)) /\ a \in 1..(Len(lines) + 1)
        BY <1>2, <2>3, <3>1
      <4>2. Len(lines) = Len(ends) - k + 1 /\ SubSeq(lines, a, Len(lines)) = SubSeq(ends, k + a - 1, Len(ends))
        BY <4>1, EndOfEnd
      <4> QED BY <2>1, <4>2
    <3>4. k + a - 1 = Len(ends) - MaxRecords + 1 /\ Len(ends) >= MaxRecords
      BY <1>5, <2>1, <3>1, <3>2, <3>3, MemoryAssumption
    <3>5. body = LastOnes(ends, MaxRecords)
      BY <3>2, <3>3, <3>4
    <3>6. Finds(c)'
      BY <1>1, <1>2, <2>2, <3>5, CallIs DEF Finds
    <3> QED BY <1>2, <1>3, <2>2, <2>8, <3>6, TurnStays
  <2> QED BY <2>7, <2>8 DEF MemoryInv
<1> QED BY <1>4, <1>5

LEMMA BeginsRewrite ==
    ASSUME MemoryInv, NEW c \in Calls, BeginRewrite(c)
    PROVE  MemoryInv'
<1>1. PICK n \in 0..(MaxRecords - 1) : file' = SubSeq(calls[c].body, 1, n)
    BY DEF BeginRewrite
<1>2. PICK body, v, lines : /\ body = calls[c].body /\ v = [calls[c] EXCEPT !.phase = "filling"]
                            /\ lines = SubSeq(body, 1, n)
    OBVIOUS
<1>3. /\ LinesInv /\ calls[c].phase = "rewriting" /\ UNCHANGED <<made, overlapped, kept>>
      /\ DOMAIN calls[c] = {"phase", "body"} /\ Genuine(body) /\ Len(body) = MaxRecords /\ IsSequence(kept)
    BY <1>2 DEF BeginRewrite, MemoryInv, LinesInv, Rewrites
<1>4. /\ v.phase = "filling" /\ v.body = body /\ DOMAIN v = {"phase", "body"}
      /\ calls' = [calls EXCEPT ![c] = v] /\ file' = lines
    BY <1>1, <1>2, <1>3 DEF BeginRewrite
<1>5. 1 \in 1..(Len(body) + 1) /\ n \in 0..Len(body) /\ 1 <= n + 1
    BY <1>3, MemoryAssumption
<1>6. Genuine(lines) /\ \A i \in DOMAIN lines : \E j \in DOMAIN body : lines[i] = body[j]
  <2>1. Genuine(body)
    BY <1>3
  <2>2. /\ Genuine(SubSeq(body, 1, n))
        /\ \A i \in DOMAIN SubSeq(body, 1, n) : \E j \in DOMAIN body : SubSeq(body, 1, n)[i] = body[j]
    BY <1>5, <2>1, PartIsGenuine
  <2> QED BY <1>2, <2>2
<1>7. \A i \in DOMAIN body : Known(c, body[i].id)
    BY <1>2, <1>3 DEF Known
<1>8. \A i \in DOMAIN lines : Known(c, lines[i].id)
    BY <1>6, <1>7
<1>9. Rewrites(v)
    BY <1>3, <1>4 DEF Rewrites
<1>10. LinesInv'
    BY <1>3, <1>4, <1>6, <1>7, <1>8, <1>9, LinesStay
<1>11. ASSUME ~overlapped' PROVE InTurn'
  <2>1. InTurn /\ Writing(c)
    BY <1>3, <1>11 DEF MemoryInv, Writing
  <2>2. (\A d \in Calls \ {c} : ~Writing(d)) /\ body = LastOnes(kept, MaxRecords)
    BY <1>2, <1>3, <2>1 DEF InTurn, Finds
  <2>3. Finds(c)'
    BY <1>3, <1>4, <2>2, CallIs, ZenonT(60) DEF Finds
  <2>4. LinesInv /\ calls' = [calls EXCEPT ![c] = v] /\ v.phase \notin {"returned", "recalling"}
    BY <1>3, <1>4
  <2>5. \A d \in Calls \ {c} : ~Writing(d)
    BY <2>2
  <2> QED BY <2>3, <2>4, <2>5, TurnStays
<1> QED BY <1>10, <1>11 DEF MemoryInv

LEMMA EndsRewrite ==
    ASSUME MemoryInv, NEW c \in Calls, EndRewrite(c)
    PROVE  MemoryInv'
<1>1. PICK body, v : body = calls[c].body /\ v = Returned
    OBVIOUS
<1>2. /\ LinesInv /\ calls[c].phase = "filling" /\ UNCHANGED <<made, overlapped, kept>>
      /\ Genuine(body) /\ IsSequence(kept)
    BY <1>1 DEF EndRewrite, MemoryInv, LinesInv, Rewrites
<1>3. v.phase = "returned" /\ calls' = [calls EXCEPT ![c] = v] /\ file' = body
    BY <1>1 DEF EndRewrite, Returned
<1>4. \A i \in DOMAIN body : Known(c, body[i].id)
    BY <1>1, <1>2 DEF Known
<1>5. LinesInv'
    BY <1>2, <1>3, <1>4, LinesStay
<1>6. ASSUME ~overlapped' PROVE InTurn'
  <2>1. InTurn /\ Writing(c)
    BY <1>2, <1>6 DEF MemoryInv, Writing
  <2>2. (\A d \in Calls \ {c} : ~Writing(d)) /\ file' = LastOnes(kept', MaxRecords)
    BY <1>1, <1>2, <1>3, <2>1 DEF InTurn, Finds
  <2>3. Finds(c)'
    BY <1>2, <1>3, CallIs DEF Finds
  <2> QED BY <1>2, <1>3, <2>2, <2>3, TurnStays
<1> QED BY <1>5, <1>6 DEF MemoryInv

LEMMA Clears ==
    ASSUME MemoryInv, NEW c \in Calls, ClearHuntMemory(c)
    PROVE  MemoryInv'
<1>1. PICK v : v = [phase |-> "clearing"]
    OBVIOUS
<1>2. /\ LinesInv /\ calls[c].phase = "returned" /\ UNCHANGED <<made, kept, file>>
      /\ v.phase = "clearing" /\ calls' = [calls EXCEPT ![c] = v]
    BY <1>1 DEF ClearHuntMemory, Call, Returned, MemoryInv
<1>3. LinesInv'
    BY <1>2, FileStays
<1>4. ASSUME ~overlapped' PROVE InTurn'
  <2>1. InTurn /\ (\A d \in Calls \ {c} : ~Writing(d)) /\ NobodyWrites
    BY <1>2, <1>4 DEF ClearHuntMemory, Overlaps, MemoryInv, NobodyWrites, Writing
  <2>2. file = LastOnes(kept, MaxRecords)
    BY <2>1 DEF InTurn
  <2>3. Finds(c)'
    BY <1>2, <2>2, CallIs DEF Finds
  <2> QED BY <1>2, <2>1, <2>3, TurnStays
<1> QED BY <1>3, <1>4 DEF MemoryInv

LEMMA NoneAreLast ==
    ASSUME NEW s, IsSequence(s), Len(s) = 0
    PROVE  IsSequence(LastOnes(s, MaxRecords)) /\ Len(LastOnes(s, MaxRecords)) = 0
<1>1. /\ IsSequence(LastOnes(s, MaxRecords))
      /\ Len(LastOnes(s, MaxRecords)) = IF Len(s) >= MaxRecords THEN MaxRecords ELSE Len(s)
    BY LastOnesIs, MemoryAssumption
<1>2. ~(0 >= MaxRecords)
    BY MemoryAssumption
<1> QED BY <1>1, <1>2

LEMMA Removes ==
    ASSUME MemoryInv, NEW c \in Calls, RemoveFile(c)
    PROVE  MemoryInv'
<1>1. PICK v, lines : v = Returned /\ lines = <<>>
    OBVIOUS
<1>2. /\ LinesInv /\ calls[c].phase = "clearing" /\ UNCHANGED <<made, overlapped>>
      /\ v.phase = "returned" /\ calls' = [calls EXCEPT ![c] = v] /\ file' = lines /\ kept' = lines
    BY <1>1 DEF RemoveFile, Returned, MemoryInv
<1>3. IsSequence(lines) /\ Len(lines) = 0 /\ DOMAIN lines = {}
    BY <1>1, EmptyIs
<1>4. Genuine(lines) /\ \A i \in DOMAIN lines : Known(c, lines[i].id)
    BY <1>3 DEF Genuine
<1>5. LinesInv'
    BY <1>2, <1>3, <1>4, LinesStay
<1>6. ASSUME ~overlapped' PROVE InTurn'
  <2>1. InTurn /\ Writing(c)
    BY <1>2, <1>6 DEF MemoryInv, Writing
  <2>2. \A d \in Calls \ {c} : ~Writing(d)
    BY <2>1 DEF InTurn
  <2>3. LastOnes(lines, MaxRecords) = lines
    <3>1. IsSequence(LastOnes(lines, MaxRecords)) /\ Len(LastOnes(lines, MaxRecords)) = 0
      BY <1>3, NoneAreLast
    <3> QED BY <1>3, <3>1, SameIs
  <2>4. Finds(c)'
    BY <1>2, CallIs DEF Finds
  <2> QED BY <1>2, <2>2, <2>3, <2>4, TurnStays
<1> QED BY <1>5, <1>6 DEF MemoryInv

\* A recall writes nothing.
LEMMA Recalls ==
    ASSUME MemoryInv, UNCHANGED <<made, kept, file, overlapped>>, NEW c \in Calls, NEW v,
           calls' = [calls EXCEPT ![c] = v],
           calls[c].phase \in {"returned", "recalling"}, v.phase \in {"returned", "recalling"}
    PROVE  MemoryInv'
<1>1. LinesInv /\ LinesInv'
    BY FileStays DEF MemoryInv
<1>2. ASSUME ~overlapped' PROVE InTurn'
  <2>1. InTurn
    BY <1>2 DEF MemoryInv
  <2>2. /\ calls'[c] = v /\ \A d \in Calls \ {c} : calls'[d] = calls[d]
        /\ \A d \in Calls : Writing(d)' <=> Writing(d)
    BY <1>1, CallIs DEF Writing
  <2>3. \A d \in Calls : Finds(d)'
    BY <2>1, <2>2 DEF InTurn, Finds, EndsWell
  <2> QED BY <2>1, <2>2, <2>3 DEF InTurn, NobodyWrites
<1> QED BY <1>1, <1>2 DEF MemoryInv

LEMMA Dies ==
    ASSUME MemoryInv, Die
    PROVE  MemoryInv'
<1>1. /\ DOMAIN calls' = Calls /\ (\A d \in Calls : calls'[d].phase = "returned")
      /\ overlapped' = TRUE /\ UNCHANGED <<file, made, kept>>
    BY DEF Die, Returned
<1>2. LinesInv'
    BY <1>1 DEF MemoryInv, LinesInv, Genuine, LineOf
<1> QED BY <1>1, <1>2 DEF MemoryInv

LEMMA HuntVarsStay ==
    ASSUME MemoryInv, UNCHANGED <<file, calls, made, kept, overlapped>>
    PROVE  MemoryInv'
<1>1. \A l : Genuine(l)' <=> Genuine(l)
    BY DEF Genuine, LineOf
<1>2. LinesInv'
    BY <1>1 DEF MemoryInv, LinesInv, LineOf, Pending, Rewrites
<1>3. InTurn' <=> InTurn
    BY DEF InTurn, NobodyWrites, Writing, Finds, EndsWell
<1> QED BY <1>2, <1>3 DEF MemoryInv

LEMMA MemoryStep == MemoryInv /\ [HuntNext]_huntVars => MemoryInv'
<1> SUFFICES ASSUME MemoryInv, [HuntNext]_huntVars PROVE MemoryInv'
    OBVIOUS
<1>1. CASE UNCHANGED huntVars
    BY <1>1, HuntVarsStay DEF huntVars
<1>2. CASE SwitchEngagement
    BY <1>2, HuntVarsStay DEF SwitchEngagement
<1>3. CASE Die
    BY <1>3, Dies
<1>4. ASSUME NEW c \in Calls,
             RecordHuntOutcome(c) \/ AppendLine(c) \/ CompactIfNeeded(c) \/ BeginRewrite(c)
                 \/ EndRewrite(c) \/ ClearHuntMemory(c) \/ RemoveFile(c)
      PROVE  MemoryInv'
    BY <1>4, RecordHunt, AppendsLine, Compacts, BeginsRewrite, EndsRewrite, Clears, Removes
<1>5. ASSUME NEW c \in Calls, EndRecall(c) PROVE MemoryInv'
  <2>1. PICK v : v = Returned
    OBVIOUS
  <2>2. v.phase = "returned" /\ calls' = [calls EXCEPT ![c] = v] /\ calls[c].phase = "recalling"
    BY <1>5, <2>1 DEF EndRecall, Returned
  <2> QED BY <1>5, <2>2, Recalls DEF EndRecall
<1>6. ASSUME NEW c \in Calls, NEW all \in BOOLEAN, NEW host \in QueryHosts, RecallHuntHistory(c, all, host)
      PROVE  MemoryInv'
  <2>1. CASE UNCHANGED <<file, engaged, calls, made, kept, overlapped>>
    BY <2>1, HuntVarsStay
  <2>2. CASE \E call : Call(c, call) /\ call.phase = "recalling" /\ UNCHANGED <<file, made, kept, overlapped>>
    <3>1. PICK v : Call(c, v) /\ v.phase = "recalling"
      BY <2>2
    <3>2. calls' = [calls EXCEPT ![c] = v] /\ calls[c].phase = "returned"
      BY <3>1 DEF Call, Returned
    <3> QED BY <2>2, <3>1, <3>2, Recalls
  <2>3. PICK v : v = [phase |-> "recalling", by |-> engaged, all |-> all,
                      query |-> [host |-> host, klass |-> NoProgram,
                                 program |-> IF all THEN NoProgram ELSE RecallLabel(engaged)]]
    OBVIOUS
  <2>4. v.phase = "recalling"
    BY <2>3
  <2> QED BY <1>6, <2>1, <2>2, <2>3, <2>4 DEF RecallHuntHistory
<1> QED BY <1>1, <1>2, <1>3, <1>4, <1>5, <1>6 DEF HuntNext

LEMMA MemoryStarts == HuntInit => MemoryInv
<1> SUFFICES ASSUME HuntInit PROVE MemoryInv
    OBVIOUS
<1>1. PICK none : none = <<>> /\ file = none /\ made = none /\ kept = none
    BY DEF HuntInit
<1>2. IsSequence(none) /\ Len(none) = 0 /\ DOMAIN none = {}
    BY <1>1, EmptyIs
<1>3. DOMAIN calls = Calls /\ \A c \in Calls : calls[c].phase = "returned"
    BY DEF HuntInit, Returned
<1>4. LinesInv
    BY <1>1, <1>2, <1>3 DEF LinesInv, Genuine
<1>5. LastOnes(none, MaxRecords) = none
  <2>1. IsSequence(LastOnes(none, MaxRecords)) /\ Len(LastOnes(none, MaxRecords)) = 0
    BY <1>2, NoneAreLast
  <2> QED BY <1>2, <2>1, SameIs
<1>6. InTurn
    BY <1>1, <1>3, <1>5 DEF InTurn, NobodyWrites, Writing, Finds
<1> QED BY <1>4, <1>6 DEF MemoryInv

\* Every line of the memory's file, and of what a call will write there, is one
\* that was recorded, each once; and calls that never overlapped write one at a
\* time, each from the newest lines (huntMemory.ts:152-240).
THEOREM MemoryInductive == MemorySpec => []MemoryInv
<1>1. HuntInit => MemoryInv
    BY MemoryStarts
<1>2. MemoryInv /\ [HuntNext]_huntVars => MemoryInv'
    BY MemoryStep
<1> QED BY <1>1, <1>2, PTL DEF MemorySpec

\* The memory holds genuine lines alone, and the newest of them when no two
\* writing calls overlapped (huntMemory.ts:152-240).
THEOREM MemoryKeeps == MemorySpec => []MemoryCorrect
<1>1. MemoryInv => MemoryCorrect
  <2> SUFFICES ASSUME MemoryInv PROVE MemoryCorrect
    OBVIOUS
  <2>1. NewestAreKept
    BY DEF MemoryInv, InTurn, NobodyWrites, LastOnes, NewestAreKept
  <2>2. ASSUME \A c \in Calls : ~Writing(c), ~overlapped PROVE Len(file) <= MaxRecords
    <3>1. PICK ends : ends = kept /\ IsSequence(ends) /\ file = LastOnes(ends, MaxRecords)
      BY <2>2 DEF MemoryInv, LinesInv, InTurn, NobodyWrites
    <3>2. Len(ends) \in Nat /\ Len(file) = IF Len(ends) >= MaxRecords THEN MaxRecords ELSE Len(ends)
      BY <3>1, LastOnesIs, MemoryAssumption
    <3> QED BY <3>2, MemoryAssumption
  <2>3. LinesAreGenuine
    BY <2>2 DEF MemoryInv, LinesInv, Genuine, LinesAreGenuine
  <2> QED BY <2>1, <2>3 DEF MemoryCorrect
<1> QED BY <1>1, MemoryInductive, PTL

-----------------------------------------------------------------------------
(* What is recalled.                                                          *)

\* Lines of a file, each of its own time.
Distinct(lines) ==
    /\ IsSequence(lines) /\ \A i \in DOMAIN lines : lines[i].id \in Nat
    /\ \A i, j \in DOMAIN lines : i # j => lines[i].id # lines[j].id

\* The label a recall goes by: none for one over all engagements, else that of
\* the engagement it was made from.
Fits(by, everything, label) ==
    IF everything THEN label = NoProgram ELSE label # NoProgram /\ label = RecallLabel(by)

AnswerInv ==
    /\ \A c \in Calls : calls[c].phase = "recalling" => Fits(calls[c].by, calls[c].all, calls[c].query.program)
    /\ answer.entries # {} =>
          /\ Fits(answer.by, answer.all, answer.label) /\ Distinct(answer.read)
          /\ \E query : query.program = answer.label /\ answer.entries = Recall(answer.read, query)

NotesInv ==
    \A i \in 1..Len(made) :
        /\ made[i].line.note = Clean(made[i].input.note)
        /\ \E k \in DOMAIN Outcomes : made[i].input = Outcomes[k]

RecallsInv == MemoryInv /\ AnswerInv /\ NotesInv

\* An entry merges the lines of its shape and class that match, and those alone.
LEMMA EntryIs ==
    ASSUME NEW lines, Distinct(lines), NEW query, NEW e \in Recall(lines, query)
    PROVE  \E rows \in SUBSET DOMAIN lines :
              /\ rows = {j \in Matched(lines, query) : lines[j].shape = e.shape /\ lines[j].klass = e.klass}
              /\ rows # {} /\ Positions(rows)
              /\ e = MergedEntry(lines, rows, query)
<1>1. PICK i \in Matched(lines, query) : e = MergedEntry(lines, OfKind(lines, Matched(lines, query), i), query)
    BY DEF Recall, Merge
<1> DEFINE rows == OfKind(lines, Matched(lines, query), i)
<1>2. i \in rows /\ rows \in SUBSET DOMAIN lines
    BY DEF OfKind, Matched
<1>3. Positions(rows) /\ rows # {}
    BY <1>2, PlacesAreFinite DEF Distinct
<1>4. Min(rows) \in rows
    BY <1>3, EndsAre
<1>5. e.shape = lines[Min(rows)].shape /\ e.klass = lines[Min(rows)].klass
    BY <1>1 DEF MergedEntry
<1>6. e.shape = lines[i].shape /\ e.klass = lines[i].klass
    BY <1>4, <1>5 DEF OfKind
<1>7. rows = {j \in Matched(lines, query) : lines[j].shape = e.shape /\ lines[j].klass = e.klass}
    BY <1>6 DEF OfKind
<1> QED BY <1>1, <1>2, <1>3, <1>7

\* Three sets apart within another.
LEMMA ApartIs ==
    ASSUME NEW S, IsFiniteSet(S), NEW A \in SUBSET S, NEW B \in SUBSET S, NEW C \in SUBSET S,
           A \cap B = {}, (A \cup B) \cap C = {}
    PROVE  Cardinality(A) + Cardinality(B) + Cardinality(C) <= Cardinality(S)
<1>1. IsFiniteSet(A) /\ IsFiniteSet(B) /\ IsFiniteSet(C) /\ IsFiniteSet(A \cup B) /\ IsFiniteSet((A \cup B) \cup C)
    BY FS_Subset, A \cup B \in SUBSET S, (A \cup B) \cup C \in SUBSET S
<1>2. /\ Cardinality(A) \in Nat /\ Cardinality(B) \in Nat /\ Cardinality(C) \in Nat /\ Cardinality(S) \in Nat
      /\ Cardinality(A \cup B) \in Nat
    BY <1>1, FS_CardinalityType
<1>3. Cardinality(A \cup B) = Cardinality(A) + Cardinality(B)
  <2>1. Cardinality(A \cap B) = 0
    BY FS_EmptySet
  <2>2. Cardinality(A \cup B) = Cardinality(A) + Cardinality(B) - Cardinality(A \cap B)
    BY <1>1, FS_Union
  <2> QED BY <1>2, <2>1, <2>2
<1>4. Cardinality((A \cup B) \cup C) = Cardinality(A \cup B) + Cardinality(C)
  <2>1. Cardinality((A \cup B) \cap C) = 0
    BY FS_EmptySet
  <2>2. Cardinality((A \cup B) \cup C) = Cardinality(A \cup B) + Cardinality(C) - Cardinality((A \cup B) \cap C)
    BY <1>1, FS_Union
  <2> QED BY <1>2, <2>1, <2>2
<1>5. Cardinality((A \cup B) \cup C) <= Cardinality(S)
    BY FS_Subset, (A \cup B) \cup C \in SUBSET S
<1> QED BY <1>2, <1>3, <1>4, <1>5

Tells(e, lines, rows, program) ==
    /\ e.confirmed + e.refuted + e.inconclusive \in 0..Cardinality(rows)
    /\ e.lastSeen \in {lines[i].id : i \in rows}
    /\ e.hosts \subseteq {lines[i].host : i \in rows}
    /\ program = NoProgram => e.hosts = {}

\* Of its rows an entry tells each outcome once, the last of their times and
\* their hosts.
LEMMA EntryCounts ==
    ASSUME NEW lines, Distinct(lines), NEW rows \in SUBSET DOMAIN lines, rows # {}, NEW query,
           NEW e, e = MergedEntry(lines, rows, query)
    PROVE  Tells(e, lines, rows, query.program)
<1> DEFINE With(outcome) == {i \in rows : lines[i].outcome = outcome}
<1>1. Positions(rows)
    BY PlacesAreFinite DEF Distinct
<1>2. /\ e.confirmed = Cardinality(With("confirmed")) /\ e.refuted = Cardinality(With("refuted"))
      /\ e.inconclusive = Cardinality(With("inconclusive"))
    BY DEF MergedEntry
<1>3. e.confirmed + e.refuted + e.inconclusive \in 0..Cardinality(rows)
  <2>1. /\ With("confirmed") \cap With("refuted") = {}
        /\ (With("confirmed") \cup With("refuted")) \cap With("inconclusive") = {}
    OBVIOUS
  <2>2. /\ With("confirmed") \in SUBSET rows /\ With("refuted") \in SUBSET rows
        /\ With("inconclusive") \in SUBSET rows /\ IsFiniteSet(rows)
    BY <1>1 DEF Positions
  <2>3. Cardinality(With("confirmed")) + Cardinality(With("refuted")) + Cardinality(With("inconclusive"))
            <= Cardinality(rows)
    BY <2>1, <2>2, ApartIs
  <2>4. /\ Cardinality(With("confirmed")) \in Nat /\ Cardinality(With("refuted")) \in Nat
        /\ Cardinality(With("inconclusive")) \in Nat /\ Cardinality(rows) \in Nat
    BY <2>2, FS_Subset, FS_CardinalityType
  <2> HIDE DEF With
  <2> QED BY <1>2, <2>3, <2>4
<1>4. e.lastSeen \in {lines[i].id : i \in rows}
  <2> DEFINE id == [i \in rows |-> lines[i].id]
             ids == {id[i] : i \in DOMAIN id}
  <2>1. IsFiniteSet(DOMAIN id) /\ id = [x \in DOMAIN id |-> id[x]]
    BY <1>1 DEF Positions
  <2>2. IsFiniteSet(ids)
    <3> HIDE DEF id
    <3> QED BY <2>1, ImageIsFinite
  <2>3. ids = {lines[i].id : i \in rows} /\ ids # {} /\ ids \subseteq Nat
    BY DEF Distinct
  <2>4. Max({lines[i].id : i \in rows}) \in {lines[i].id : i \in rows}
    BY <2>2, <2>3, EndsAre DEF Positions
  <2>5. e.lastSeen = Max({lines[i].id : i \in rows})
    BY DEF MergedEntry
  <2> QED BY <2>4, <2>5
<1>5. e.hosts = IF query.program = NoProgram THEN {} ELSE {lines[i].host : i \in rows}
    BY DEF MergedEntry
<1> QED BY <1>3, <1>4, <1>5 DEF Tells

\* Rows are as many as the lines they are of.
LEMMA LinesOfRows ==
    ASSUME NEW lines, Distinct(lines), NEW rows \in SUBSET DOMAIN lines, NEW mine \in SUBSET ToSet(lines),
           \A i \in rows : lines[i] \in mine
    PROVE  Cardinality(rows) <= Cardinality(mine)
<1> DEFINE line == [i \in rows |-> lines[i]]
<1>1. IsFiniteSet(mine)
    BY PlacesAreFinite, FS_Subset DEF Distinct
<1>2. line \in Injection(rows, mine)
  <2>1. \A i, j \in rows : lines[i] = lines[j] => i = j
    BY DEF Distinct
  <2> QED BY <2>1 DEF Injection, IsInjective
<1> QED BY <1>1, <1>2, FS_Injection

LEMMA AnswerIsOfTheEngagement == AnswerInv => RecallIsOfTheEngagement
<1> SUFFICES ASSUME AnswerInv, NEW e \in answer.entries
             PROVE  LET mine == {r \in ToSet(answer.read) : r.shape = e.shape /\ r.klass = e.klass
                                                            /\ (answer.all \/ r.program = answer.label)}
                    IN /\ e.confirmed + e.refuted + e.inconclusive <= Cardinality(mine)
                       /\ e.lastSeen \in {r.id : r \in mine}
                       /\ e.hosts \subseteq {r.host : r \in mine} /\ (answer.all => e.hosts = {})
                       /\ ~answer.all => answer.label # NoProgram /\ answer.label = RecallLabel(answer.by)
    BY DEF RecallIsOfTheEngagement
<1>1. PICK lines, query : /\ lines = answer.read /\ query.program = answer.label /\ Distinct(lines)
                          /\ e \in Recall(lines, query) /\ Fits(answer.by, answer.all, answer.label)
    BY DEF AnswerInv
<1>2. PICK rows \in SUBSET DOMAIN lines :
              /\ rows = {j \in Matched(lines, query) : lines[j].shape = e.shape /\ lines[j].klass = e.klass}
              /\ rows # {} /\ e = MergedEntry(lines, rows, query)
    BY <1>1, EntryIs
<1> DEFINE mine == {r \in ToSet(lines) : r.shape = e.shape /\ r.klass = e.klass
                                         /\ (answer.all \/ r.program = answer.label)}
<1>3. \A i \in rows : lines[i] \in mine
  <2> SUFFICES ASSUME NEW i \in rows PROVE lines[i] \in mine
    OBVIOUS
  <2>1. lines[i] \in ToSet(lines) /\ lines[i].shape = e.shape /\ lines[i].klass = e.klass
    BY <1>2 DEF ToSet
  <2>2. query.program \in {NoProgram, lines[i].program}
    BY <1>2 DEF Matched, MatchesQuery
  <2>3. answer.all \/ answer.label # NoProgram
    BY <1>1 DEF Fits
  <2> QED BY <1>1, <2>1, <2>2, <2>3
<1>4. Cardinality(rows) <= Cardinality(mine) /\ Cardinality(rows) \in Nat /\ Cardinality(mine) \in Nat
  <2>1. mine \in SUBSET ToSet(lines)
    OBVIOUS
  <2>2. Cardinality(rows) <= Cardinality(mine)
    BY <1>1, <1>3, <2>1, LinesOfRows
  <2>3. IsFiniteSet(mine) /\ IsFiniteSet(rows)
    BY <1>1, <2>1, PlacesAreFinite, FS_Subset DEF Distinct, Positions
  <2> QED BY <2>2, <2>3, FS_CardinalityType
<1>5. Tells(e, lines, rows, query.program)
    BY <1>1, <1>2, EntryCounts
<1>7. e.confirmed + e.refuted + e.inconclusive <= Cardinality(mine)
    BY <1>4, <1>5 DEF Tells
<1>8. e.lastSeen \in {r.id : r \in mine} /\ e.hosts \subseteq {r.host : r \in mine}
  <2> HIDE DEF mine
  <2> QED BY <1>3, <1>5 DEF Tells
<1>9. /\ answer.all => e.hosts = {}
      /\ ~answer.all => answer.label # NoProgram /\ answer.label = RecallLabel(answer.by)
    BY <1>1, <1>5 DEF Fits, Tells
<1> QED BY <1>1, <1>7, <1>8, <1>9

LEMMA AnswerIsPerShape == AnswerInv => LessonsTransfer
<1> SUFFICES ASSUME AnswerInv, NEW d \in answer.entries, NEW e \in answer.entries,
                    d.shape = e.shape, d.klass = e.klass
             PROVE  d = e
    BY DEF LessonsTransfer
<1>1. PICK lines, query : /\ lines = answer.read /\ Distinct(lines)
                          /\ d \in Recall(lines, query) /\ e \in Recall(lines, query)
    BY DEF AnswerInv
<1>2. PICK rows : /\ rows = {j \in Matched(lines, query) : lines[j].shape = e.shape /\ lines[j].klass = e.klass}
                  /\ e = MergedEntry(lines, rows, query)
    BY <1>1, EntryIs
<1>3. PICK others : /\ others = {j \in Matched(lines, query) : lines[j].shape = d.shape /\ lines[j].klass = d.klass}
                    /\ d = MergedEntry(lines, others, query)
    BY <1>1, EntryIs
<1> QED BY <1>2, <1>3

\* Only tokens of the masked note are kept of one that is looked at whole.
LEMMA CleanIs ==
    ASSUME NEW note, note \in Seq({note[k] : k \in DOMAIN note}), Len(note) <= MaxRaw
    PROVE  \A k \in DOMAIN Clean(note) : \E l \in DOMAIN Masked(note) : Clean(note)[k] = Masked(note)[l]
<1>1. IsSequence(note)
    BY SequenceIs
<1>2. \A a, b \in Int : Min({a, b}) = IF a <= b THEN a ELSE b
    BY DEF Min
<1>3. Len(note) \in Nat /\ DOMAIN note = 1..Len(note)
    BY <1>1, PlacesAreFinite
<1>4. FirstTokens(note, MaxRaw) = note
  <2>1. Min({MaxRaw, Len(note)}) = Len(note)
    BY <1>2, <1>3, NotesAssumption
  <2>2. /\ IsSequence(SubSeq(note, 1, Len(note))) /\ Len(SubSeq(note, 1, Len(note))) = Len(note)
        /\ \A i \in 1..Len(note) : SubSeq(note, 1, Len(note))[i] = note[i]
    <3>1. /\ 1 \in 1..(Len(note) + 1) /\ Len(note) \in 0..Len(note) /\ 1 <= Len(note) + 1
      BY <1>3
    <3>2. /\ IsSequence(SubSeq(note, 1, Len(note))) /\ Len(SubSeq(note, 1, Len(note))) = Len(note) - 1 + 1
          /\ \A i \in 1..(Len(note) - 1 + 1) : SubSeq(note, 1, Len(note))[i] = note[1 + i - 1]
      BY <1>1, <3>1, PartIs
    <3> QED BY <1>3, <3>2
  <2>3. SubSeq(note, 1, Len(note)) = note
    BY <1>1, <2>2, SameIs
  <2> QED BY <2>1, <2>3 DEF FirstTokens
<1>5. IsSequence(Masked(note))
  <2> DEFINE whole(i) == i < Len(note) /\ note[i] = SecretHead /\ note[i + 1] = SecretTail
             told == [i \in DOMAIN note |-> IF whole(i) THEN "[REDACTED]" ELSE note[i]]
             left == {i \in DOMAIN note : ~(i > 1 /\ whole(i - 1))}
  <2>1. Positions(left)
    BY <1>1, PlacesAreFinite
  <2>2. Masked(note) = Picked(told, left)
    BY DEF Masked
  <2> HIDE DEF left, told
  <2> QED BY <2>1, <2>2, PickedIs
<1>6. PICK m, n : m = Masked(note) /\ IsSequence(m) /\ n = Min({MaxNote, Len(m)})
    BY <1>5
<1>7. Clean(note) = SubSeq(m, 1, n)
    BY <1>4, <1>6 DEF Clean, FirstTokens
<1>8. Len(m) \in Nat /\ DOMAIN m = 1..Len(m) /\ n \in 0..Len(m)
  <2>1. Len(m) \in Nat /\ DOMAIN m = 1..Len(m)
    BY <1>6, PlacesAreFinite
  <2> QED BY SMTT(30), <1>2, <1>6, <2>1, NotesAssumption
<1>9. DOMAIN SubSeq(m, 1, n) = 1..n /\ \A k \in 1..n : SubSeq(m, 1, n)[k] = m[k]
  <2>1. /\ 1 \in 1..(Len(m) + 1) /\ n \in 0..Len(m) /\ 1 <= n + 1
    BY <1>8
  <2>2. /\ DOMAIN SubSeq(m, 1, n) = 1..(n - 1 + 1)
        /\ \A k \in 1..(n - 1 + 1) : SubSeq(m, 1, n)[k] = m[1 + k - 1]
    BY ZenonT(60), <1>6, <2>1, PartIs
  <2> QED BY <1>8, <2>2
<1> QED BY <1>6, <1>7, <1>8, <1>9

LEMMA NotesAreMasked == MemoryInv /\ NotesInv => NoPartOfASecret
<1> SUFFICES ASSUME MemoryInv, NotesInv, NEW i \in DOMAIN made,
                    Len(made[i].input.note) <= MaxRaw,
                    {k \in DOMAIN Masked(made[i].input.note) :
                        Masked(made[i].input.note)[k] \in {SecretHead, SecretTail}} = {}
             PROVE  {k \in DOMAIN made[i].line.note : made[i].line.note[k] \in {SecretHead, SecretTail}} = {}
    BY DEF NoPartOfASecret
<1>1. i \in 1..Len(made)
    BY PlacesAreFinite DEF MemoryInv, LinesInv
<1>2. PICK note : /\ note = made[i].input.note /\ made[i].line.note = Clean(note)
                  /\ note \in Seq({note[k] : k \in DOMAIN note})
  <2>1. PICK note : note = made[i].input.note
    OBVIOUS
  <2>2. made[i].line.note = Clean(note)
    BY <1>1, <2>1 DEF NotesInv
  <2>3. PICK k \in DOMAIN Outcomes : made[i].input = Outcomes[k]
    BY <1>1 DEF NotesInv
  <2>4. note = Outcomes[k].note
    BY <2>1, <2>3
  <2>5. note \in Seq({note[l] : l \in DOMAIN note})
    BY <2>4, NotesAssumption
  <2> QED BY <2>1, <2>2, <2>5
<1>3. \A k \in DOMAIN Clean(note) : \E l \in DOMAIN Masked(note) : Clean(note)[k] = Masked(note)[l]
    BY <1>2, CleanIs
<1> QED BY <1>2, <1>3

-----------------------------------------------------------------------------
(* The steps. *)

LEMMA RecallsStart == HuntInit => AnswerInv /\ NotesInv
<1> SUFFICES ASSUME HuntInit PROVE AnswerInv /\ NotesInv
    OBVIOUS
<1>1. answer.entries = {} /\ \A c \in Calls : calls[c].phase = "returned"
    BY DEF HuntInit, NoAnswer, Returned
<1>2. 1..Len(made) = {}
    BY EmptyIs DEF HuntInit
<1> QED BY <1>1, <1>2 DEF AnswerInv, NotesInv

\* A step that is not an answer leaves none, and the recalls under way as they are.
LEMMA NoAnswerStays ==
    ASSUME AnswerInv, answer'.entries = {},
           \A c \in Calls : calls'[c].phase = "recalling" => calls'[c] = calls[c]
    PROVE  AnswerInv'
BY DEF AnswerInv

\* One call goes to a phase that is no recall.
LEMMA OthersRecall ==
    ASSUME LinesInv, NEW c \in Calls, NEW v, calls' = [calls EXCEPT ![c] = v], v.phase # "recalling"
    PROVE  \A d \in Calls : calls'[d].phase = "recalling" => calls'[d] = calls[d]
BY DEF LinesInv

LEMMA RecordsNote ==
    ASSUME LinesInv, NotesInv, NEW c \in Calls, RecordHuntOutcome(c)
    PROVE  NotesInv' /\ \A d \in Calls : calls'[d].phase = "recalling" => calls'[d] = calls[d]
<1>1. PICK input, r, x :
                /\ \E k \in DOMAIN Outcomes : input = Outcomes[k]
                /\ r.note = Clean(input.note) /\ x.line = r /\ x.input = input
                /\ made' = Append(made, x) /\ Call(c, [phase |-> "appending", record |-> r])
  <2> DEFINE input == Outcomes[Len(made) + 1]
             r0 == [id |-> Len(made) + 1, program |-> RecordLabel(engaged), host |-> input.host,
                    shape |-> PathShape(input.path), klass |-> input.klass, outcome |-> input.outcome,
                    note |-> Clean(input.note)]
             x0 == [line |-> r0, input |-> input, by |-> engaged]
  <2>1. r0.note = Clean(input.note) /\ x0.line = r0 /\ x0.input = input
    OBVIOUS
  <2>2. made' = Append(made, x0) /\ Call(c, [phase |-> "appending", record |-> r0])
    BY DEF RecordHuntOutcome
  <2>3. Len(made) + 1 \in DOMAIN Outcomes
    <3>1. Len(made) \in Nat /\ Len(made) < Len(Outcomes)
      BY PlacesAreFinite DEF RecordHuntOutcome, LinesInv
    <3>2. Len(Outcomes) \in Nat /\ DOMAIN Outcomes = 1..Len(Outcomes)
      BY NotesAssumption, SequenceIs
    <3> QED BY <3>1, <3>2
  <2>4. PICK k \in DOMAIN Outcomes : input = Outcomes[k]
    BY <2>3
  <2> HIDE DEF r0, x0, input
  <2> QED BY <2>1, <2>2, <2>4
<1>2. PICK v : v = [phase |-> "appending", record |-> r]
    OBVIOUS
<1>3. v.phase = "appending" /\ calls' = [calls EXCEPT ![c] = v]
    BY <1>1, <1>2 DEF Call
<1>4. \A d \in Calls : calls'[d].phase = "recalling" => calls'[d] = calls[d]
    BY <1>3, OthersRecall
<1>5. NotesInv'
  <2>1. /\ Len(made) \in Nat /\ Len(made') = Len(made) + 1
        /\ \A i \in 1..Len(made) : made'[i] = made[i]
        /\ made'[Len(made) + 1] = x
    BY <1>1, AppendedIs DEF LinesInv
  <2> SUFFICES ASSUME NEW i \in 1..(Len(made) + 1)
               PROVE  /\ made'[i].line.note = Clean(made'[i].input.note)
                      /\ \E l \in DOMAIN Outcomes : made'[i].input = Outcomes[l]
    BY <2>1 DEF NotesInv
  <2>2. CASE i = Len(made) + 1
    BY <1>1, <2>1, <2>2
  <2>3. CASE i # Len(made) + 1
    BY <2>1, <2>3 DEF NotesInv
  <2> QED BY <2>2, <2>3
<1> QED BY <1>4, <1>5

LEMMA GenuineIsDistinct == \A lines : Genuine(lines) /\ Len(made) \in Nat => Distinct(lines)
BY DEF Genuine, Distinct

LEMMA EndsRecall ==
    ASSUME LinesInv, AnswerInv, NEW c \in Calls, EndRecall(c)
    PROVE  AnswerInv'
<1>1. PICK v, call, lines : v = Returned /\ call = calls[c] /\ lines = file
    OBVIOUS
<1>2. /\ v.phase = "returned" /\ calls' = [calls EXCEPT ![c] = v] /\ call.phase = "recalling"
      /\ answer' = [by |-> call.by, label |-> call.query.program, all |-> call.all,
                    read |-> lines, entries |-> Recall(lines, call.query)]
    BY <1>1 DEF EndRecall, Returned
<1>3. /\ answer'.by = call.by /\ answer'.label = call.query.program /\ answer'.all = call.all
      /\ answer'.read = lines /\ answer'.entries = Recall(lines, call.query)
    BY <1>2
<1>4. Fits(call.by, call.all, call.query.program)
    BY <1>1, <1>2 DEF AnswerInv
<1>5. Distinct(lines)
    BY <1>1, GenuineIsDistinct, PlacesAreFinite DEF LinesInv
<1>6. \A d \in Calls : calls'[d].phase = "recalling" => calls'[d] = calls[d]
    BY <1>2, OthersRecall
<1>7. \A d \in Calls : calls'[d].phase = "recalling" =>
                           Fits(calls'[d].by, calls'[d].all, calls'[d].query.program)
    BY <1>6 DEF AnswerInv
<1> QED BY <1>3, <1>4, <1>5, <1>7 DEF AnswerInv, Fits

LEMMA BeginsRecall ==
    ASSUME LinesInv, AnswerInv, NEW c \in Calls, NEW everything \in BOOLEAN, NEW host,
           RecallHuntHistory(c, everything, host)
    PROVE  AnswerInv'
<1> DEFINE label == IF everything THEN NoProgram ELSE RecallLabel(engaged)
<1>1. CASE ~everything /\ label = NoProgram
  <2>1. answer'.entries = {} /\ UNCHANGED calls
    BY <1>1 DEF RecallHuntHistory, NoAnswer
  <2> QED BY <2>1, NoAnswerStays
<1>2. CASE everything \/ label # NoProgram
  <2>1. PICK q, v : /\ q = [host |-> host, klass |-> NoProgram, program |-> label]
                    /\ v = [phase |-> "recalling", by |-> engaged, all |-> everything, query |-> q]
    OBVIOUS
  <2>2. calls' = [calls EXCEPT ![c] = v] /\ answer' = NoAnswer
    BY <1>2, <2>1 DEF RecallHuntHistory, Call
  <2>3. answer'.entries = {}
    BY <2>2 DEF NoAnswer
  <2>4. v.by = engaged /\ v.all = everything /\ v.query.program = label
    BY <2>1
  <2>5. Fits(v.by, v.all, v.query.program)
    BY <1>2, <2>4 DEF Fits
  <2>6. calls'[c] = v /\ \A d \in Calls \ {c} : calls'[d] = calls[d]
    BY <2>2 DEF LinesInv
  <2> QED BY <2>3, <2>5, <2>6 DEF AnswerInv, Fits
<1> QED BY <1>1, <1>2

LEMMA RecallsStep == RecallsInv /\ [HuntNext]_huntVars => RecallsInv'
<1> SUFFICES ASSUME RecallsInv, [HuntNext]_huntVars PROVE AnswerInv' /\ NotesInv'
    BY MemoryStep DEF RecallsInv
<1>1. LinesInv /\ AnswerInv /\ NotesInv
    BY DEF RecallsInv, MemoryInv
<1>2. CASE UNCHANGED huntVars
    BY <1>1, <1>2 DEF huntVars, AnswerInv, NotesInv, Fits
<1>3. CASE answer' = NoAnswer
           /\ \/ \E c \in Calls : \/ RecordHuntOutcome(c) \/ AppendLine(c) \/ CompactIfNeeded(c) \/ BeginRewrite(c)
                                  \/ EndRewrite(c) \/ ClearHuntMemory(c) \/ RemoveFile(c)
              \/ SwitchEngagement \/ Die
  <2>1. answer'.entries = {}
    BY <1>3 DEF NoAnswer
  <2>2. ASSUME NEW c \in Calls, NEW v, calls' = [calls EXCEPT ![c] = v], v.phase # "recalling"
        PROVE  AnswerInv'
    BY <1>1, <2>1, <2>2, OthersRecall, NoAnswerStays
  <2>3. ASSUME NEW c \in Calls, RecordHuntOutcome(c) PROVE AnswerInv' /\ NotesInv'
    BY <1>1, <2>1, <2>3, RecordsNote, NoAnswerStays
  <2>4. ASSUME NEW c \in Calls, AppendLine(c) PROVE AnswerInv' /\ NotesInv'
    <3>1. NotesInv'
      BY <1>1, <2>4 DEF AppendLine, NotesInv
    <3>2. PICK v : calls' = [calls EXCEPT ![c] = v] /\ v.phase # "recalling"
      <4>1. CASE calls' = [calls EXCEPT ![c].phase = "reading"]
        <5>1. PICK v : v = [calls[c] EXCEPT !.phase = "reading"]
          OBVIOUS
        <5>2. calls[c].phase = "appending"
          BY <2>4 DEF AppendLine
        <5>3. v.phase = "reading"
          BY <1>1, <5>1, <5>2 DEF LinesInv, Pending
        <5> QED BY <4>1, <5>1, <5>3
      <4>2. CASE calls' = [calls EXCEPT ![c] = Returned]
        <5>1. PICK v : v = Returned
          OBVIOUS
        <5>2. v.phase # "recalling"
          BY <5>1 DEF Returned
        <5> QED BY <4>2, <5>1, <5>2
      <4> QED BY <2>4, <4>1, <4>2 DEF AppendLine
    <3> QED BY <2>2, <3>1, <3>2
  <2>5. ASSUME NEW c \in Calls, CompactIfNeeded(c) PROVE AnswerInv' /\ NotesInv'
    <3>1. NotesInv'
      BY <1>1, <2>5 DEF CompactIfNeeded, NotesInv
    <3>2. PICK v : v = IF Len(file) <= MaxRecords THEN Returned ELSE [phase |-> "rewriting", body |-> Compacted(file)]
      OBVIOUS
    <3>3. calls' = [calls EXCEPT ![c] = v] /\ v.phase # "recalling"
      BY <2>5, <3>2 DEF CompactIfNeeded, Returned
    <3> QED BY <2>2, <3>1, <3>3
  <2>6. ASSUME NEW c \in Calls, BeginRewrite(c) PROVE AnswerInv' /\ NotesInv'
    <3>1. NotesInv'
      BY <1>1, <2>6 DEF BeginRewrite, NotesInv
    <3>2. PICK v : v = [calls[c] EXCEPT !.phase = "filling"]
      OBVIOUS
    <3>3. calls[c].phase = "rewriting" /\ calls' = [calls EXCEPT ![c] = v]
      BY <2>6, <3>2 DEF BeginRewrite
    <3>4. v.phase = "filling"
      BY <1>1, <3>2, <3>3 DEF LinesInv, Rewrites
    <3> QED BY <2>2, <3>1, <3>3, <3>4
  <2>7. ASSUME NEW c \in Calls, EndRewrite(c) \/ RemoveFile(c) PROVE AnswerInv' /\ NotesInv'
    <3>1. NotesInv'
      BY <1>1, <2>7 DEF EndRewrite, RemoveFile, NotesInv
    <3>2. PICK v : v = Returned
      OBVIOUS
    <3>3. calls' = [calls EXCEPT ![c] = v] /\ v.phase # "recalling"
      BY <2>7, <3>2 DEF EndRewrite, RemoveFile, Returned
    <3> QED BY <2>2, <3>1, <3>3
  <2>8. ASSUME NEW c \in Calls, ClearHuntMemory(c) PROVE AnswerInv' /\ NotesInv'
    <3>1. NotesInv'
      BY <1>1, <2>8 DEF ClearHuntMemory, NotesInv
    <3>2. PICK v : v = [phase |-> "clearing"]
      OBVIOUS
    <3>3. calls' = [calls EXCEPT ![c] = v] /\ v.phase # "recalling"
      BY <2>8, <3>2 DEF ClearHuntMemory, Call
    <3> QED BY <2>2, <3>1, <3>3
  <2>9. CASE SwitchEngagement
    BY <1>1, <2>1, <2>9, NoAnswerStays DEF SwitchEngagement, NotesInv
  <2>10. CASE Die
    <3>1. \A c \in Calls : calls'[c].phase = "returned"
      BY <2>10 DEF Die, Returned
    <3>2. NotesInv'
      BY <1>1, <2>10 DEF Die, NotesInv
    <3> QED BY <1>1, <2>1, <3>1, <3>2, NoAnswerStays
  <2> QED BY <1>3, <2>3, <2>4, <2>5, <2>6, <2>7, <2>8, <2>9, <2>10
<1>4. ASSUME NEW c \in Calls, EndRecall(c) PROVE AnswerInv' /\ NotesInv'
    BY <1>1, <1>4, EndsRecall DEF EndRecall, NotesInv
<1>5. ASSUME NEW c \in Calls, NEW all \in BOOLEAN, NEW host \in QueryHosts, RecallHuntHistory(c, all, host)
      PROVE  AnswerInv' /\ NotesInv'
  <2>1. UNCHANGED made
    BY <1>5 DEF RecallHuntHistory
  <2> QED BY <1>1, <1>5, <2>1, BeginsRecall DEF NotesInv
<1> QED BY <1>2, <1>3, <1>4, <1>5 DEF HuntNext

\* What is recalled is recalled for the engagement that asked, and a record
\* keeps of its note what was cleaned (huntMemory.ts:138, 248).
THEOREM RecallsInductive == MemorySpec => []RecallsInv
<1>1. HuntInit => RecallsInv
    BY MemoryStarts, RecallsStart DEF RecallsInv
<1>2. RecallsInv /\ [HuntNext]_huntVars => RecallsInv'
    BY RecallsStep
<1> QED BY <1>1, <1>2, PTL DEF MemorySpec

\* Recalls stay within their engagement, tell the same of one shape, and notes
\* hold no part of a secret (huntMemory.ts:138, 248; session.ts:1350).
THEOREM RecallsStayCorrect == MemorySpec => []RecallsCorrect
<1>1. RecallsInv => RecallsCorrect
    BY AnswerIsOfTheEngagement, AnswerIsPerShape, NotesAreMasked DEF RecallsInv, RecallsCorrect
<1> QED BY <1>1, RecallsInductive, PTL
=============================================================================
