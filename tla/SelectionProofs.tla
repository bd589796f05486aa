-------------------------- MODULE SelectionProofs --------------------------
(***************************************************************************)
(* Proofs about Selection, for any sequence and any positions of it: each  *)
(* position is selected once, in order, and the selection grows as the     *)
(* loop over the sequence goes on.                                         *)
(*                                                                         *)
(* The induction is over a set: the naturals it holds for.  It rests on    *)
(* every nonempty set of naturals having a least element, which the        *)
(* library states of well-founded relations without a predicate parameter. *)
(***************************************************************************)
EXTENDS Integers, Sequences, Selection, FiniteSetTheorems, WellFoundedInduction, TLAPS

\* A nonempty set of naturals has a least element.
LEMMA LeastNatural ==
    ASSUME NEW T \in SUBSET Nat, T # {}
    PROVE  \E n \in T : \A m \in T : n <= m
  <1> DEFINE R == OpToRel(<, Nat)
  <1>1. IsWellFoundedOn(R, Nat)
    BY NatLessThanWellFounded
  <1>2. \A x, y \in Nat : <<x, y>> \in R <=> x < y
    BY DEF OpToRel
  <1> HIDE DEF R
  <1>3. PICK x \in T : \A y \in T : ~(<<y, x>> \in R)
    BY <1>1, WFMin
  <1>4. ASSUME NEW y \in T PROVE x <= y
    <2>1. x \in Nat /\ y \in Nat /\ ~(y < x)
      BY <1>2, <1>3
    <2> QED
      BY <2>1
  <1> QED
    BY <1>4

\* Induction: a set that has 0 and with n also n + 1 has all naturals.
LEMMA SetInduction ==
    ASSUME NEW S, 0 \in S, \A n \in Nat : n \in S => n + 1 \in S
    PROVE  \A n \in Nat : n \in S
  <1> SUFFICES ASSUME Nat \ S # {} PROVE FALSE
    OBVIOUS
  <1>1. PICK n \in Nat \ S : \A m \in Nat \ S : n <= m
    <2>1. Nat \ S \in SUBSET Nat
      OBVIOUS
    <2> QED
      BY <2>1, LeastNatural
  <1>2. n - 1 \in Nat /\ n = (n - 1) + 1
    <2>1. n # 0
      OBVIOUS
    <2> QED
      BY <2>1
  <1>3. n - 1 \in S
    BY <1>1, <1>2
  <1> QED
    BY <1>2, <1>3

-----------------------------------------------------------------------------
(* Ranks.                                                                  *)

\* The positions up to i are finitely many, and at most all.
LEMMA RankType ==
    ASSUME NEW n \in Nat, NEW P \in SUBSET (1 .. n), NEW i
    PROVE  /\ IsFiniteSet(P) /\ Cardinality(P) \in Nat
           /\ IsFiniteSet({j \in P : j <= i})
           /\ Rank(P, i) \in Nat /\ Rank(P, i) <= Cardinality(P)
  <1>1. IsFiniteSet(P)
    <2>1. IsFiniteSet(1 .. n)
      BY FS_Interval
    <2> QED
      BY <2>1, FS_Subset
  <1>2. {j \in P : j <= i} \in SUBSET P
    OBVIOUS
  <1> QED
    BY <1>1, <1>2, FS_Subset, FS_CardinalityType DEF Rank

\* Ranks grow with the positions.
LEMMA RankGrows ==
    ASSUME NEW n \in Nat, NEW P \in SUBSET (1 .. n), NEW i \in P, NEW j \in P, i < j
    PROVE  Rank(P, i) < Rank(P, j)
  <1> DEFINE I == {k \in P : k <= i}
             J == {k \in P : k <= j}
  <1>1. I \in SUBSET J /\ j \in J /\ j \notin I
    <2>1. i \in Nat /\ j \in Nat /\ \A k \in P : k \in Nat
      OBVIOUS
    <2>2. \A k \in P : k <= i => k <= j
      BY <2>1
    <2>3. I \in SUBSET J
      BY <2>2
    <2>4. j \in J
      BY <2>1
    <2>5. j \notin I
      BY <2>1
    <2> QED
      BY <2>3, <2>4, <2>5
  <1>2. IsFiniteSet(J) /\ Cardinality(J) \in Nat /\ Cardinality(I) \in Nat
    BY RankType DEF Rank
  <1> HIDE DEF I, J
  <1>3. Cardinality(I) <= Cardinality(J) /\ Cardinality(I) # Cardinality(J)
    BY <1>1, <1>2, FS_Subset
  <1>4. Cardinality(I) < Cardinality(J)
    BY <1>2, <1>3
  <1> QED
    BY <1>4 DEF Rank, I, J

\* Every position has a rank from 1 on.
LEMMA RankPositive ==
    ASSUME NEW n \in Nat, NEW P \in SUBSET (1 .. n), NEW i \in P
    PROVE  Rank(P, i) \in 1 .. Cardinality(P)
  <1> DEFINE I == {k \in P : k <= i}
  <1>1. i \in I
    OBVIOUS
  <1>2. IsFiniteSet(I) /\ Cardinality(I) \in Nat /\ Cardinality(I) <= Cardinality(P)
        /\ Cardinality(P) \in Nat
    BY RankType DEF Rank
  <1> HIDE DEF I
  <1>3. Cardinality(I) # 0
    BY <1>1, <1>2, FS_EmptySet
  <1> QED
    BY <1>2, <1>3 DEF Rank, I

\* A last position more leaves the other ranks, and takes the rank after them.
LEMMA RankOfLast ==
    ASSUME NEW n \in Nat, NEW P \in SUBSET (1 .. n)
    PROVE  /\ Cardinality(P \cup {n + 1}) = Cardinality(P) + 1
           /\ Rank(P \cup {n + 1}, n + 1) = Cardinality(P) + 1
           /\ \A i \in P : Rank(P \cup {n + 1}, i) = Rank(P, i)
  <1> DEFINE Q == P \cup {n + 1}
  <1>1. Cardinality(Q) = Cardinality(P) + 1
    <2>1. IsFiniteSet(P)
      BY RankType
    <2>2. n + 1 \notin P
      OBVIOUS
    <2> QED
      BY <2>1, <2>2, FS_AddElement
  <1>2. {j \in Q : j <= n + 1} = Q
    <2>1. \A j \in Q : j <= n + 1
      OBVIOUS
    <2> QED
      BY <2>1
  <1>3. ASSUME NEW i \in P PROVE {j \in Q : j <= i} = {j \in P : j <= i}
    OBVIOUS
  <1> HIDE DEF Q
  <1>4. Rank(Q, n + 1) = Cardinality(P) + 1 /\ \A i \in P : Rank(Q, i) = Rank(P, i)
    BY <1>1, <1>2, <1>3 DEF Rank
  <1> QED
    BY <1>1, <1>4 DEF Q

\* Every rank is that of a position.
LEMMA EveryRank ==
    ASSUME NEW n \in Nat, NEW P \in SUBSET (1 .. n), NEW k \in 1 .. Cardinality(P)
    PROVE  \E i \in P : Rank(P, i) = k
  <1> DEFINE Has(m) == \A Q \in SUBSET (1 .. m) :
                          \A q \in 1 .. Cardinality(Q) : \E i \in Q : Rank(Q, i) = q
             S == {m \in Nat : Has(m)}
  <1>1. 0 \in S
    <2>1. \A Q \in SUBSET (1 .. 0) : Q = {}
      OBVIOUS
    <2>2. Cardinality({}) = 0
      BY FS_EmptySet
    <2>3. \A Q \in SUBSET (1 .. 0) : 1 .. Cardinality(Q) = {}
      BY <2>1, <2>2
    <2> QED
      BY <2>3
  <1>2. ASSUME NEW m \in Nat, m \in S PROVE m + 1 \in S
    <2> SUFFICES ASSUME NEW Q \in SUBSET (1 .. m + 1), NEW q \in 1 .. Cardinality(Q)
                 PROVE  \E i \in Q : Rank(Q, i) = q
      OBVIOUS
    <2>1. CASE m + 1 \notin Q
      <3>1. Q \in SUBSET (1 .. m)
        BY <2>1
      <3> QED
        BY <1>2, <3>1
    <2>2. CASE m + 1 \in Q
      <3> DEFINE Z == Q \ {m + 1}
      <3>1. Z \in SUBSET (1 .. m) /\ Q = Z \cup {m + 1}
        BY <2>2
      <3> HIDE DEF Z
      <3>2. Cardinality(Z) \in Nat
        BY <3>1, RankType
      <3>3. /\ Cardinality(Q) = Cardinality(Z) + 1
            /\ Rank(Q, m + 1) = Cardinality(Z) + 1
            /\ \A i \in Z : Rank(Q, i) = Rank(Z, i)
        BY <3>1, RankOfLast
      <3>4. CASE q = Cardinality(Z) + 1
        BY <2>2, <3>3, <3>4
      <3>5. CASE q # Cardinality(Z) + 1
        <4>1. q \in 1 .. Cardinality(Z)
          BY <3>2, <3>3, <3>5
        <4>2. PICK i \in Z : Rank(Z, i) = q
          BY <1>2, <3>1, <4>1
        <4> QED
          BY <3>1, <3>3, <4>2
      <3> QED
        BY <3>4, <3>5
    <2> QED
      BY <2>1, <2>2
  <1> HIDE DEF S
  <1>3. n \in S
    BY <1>1, <1>2, SetInduction
  <1> QED
    BY <1>3 DEF S

-----------------------------------------------------------------------------
(* What Nth and Selected give.                                             *)

\* The k-th position is one of P, and there are k up to it.
LEMMA NthFacts ==
    ASSUME NEW n \in Nat, NEW P \in SUBSET (1 .. n), NEW k \in 1 .. Cardinality(P)
    PROVE  Nth(P, k) \in P /\ Rank(P, Nth(P, k)) = k
  BY EveryRank DEF Nth

\* Ranks tell positions apart.
LEMMA RankInjective ==
    ASSUME NEW n \in Nat, NEW P \in SUBSET (1 .. n), NEW i \in P, NEW j \in P,
           Rank(P, i) = Rank(P, j)
    PROVE  i = j
  <1>1. Rank(P, i) \in Nat /\ Rank(P, j) \in Nat
    BY RankType
  <1>2. i < j => Rank(P, i) < Rank(P, j)
    BY RankGrows
  <1>3. j < i => Rank(P, j) < Rank(P, i)
    BY RankGrows
  <1>4. i \in Nat /\ j \in Nat
    OBVIOUS
  <1>5. ~(Rank(P, i) < Rank(P, j)) /\ ~(Rank(P, j) < Rank(P, i))
    BY <1>1
  <1> QED
    BY <1>2, <1>3, <1>4, <1>5

\* A position is the one of its rank.
LEMMA NthOfRank ==
    ASSUME NEW n \in Nat, NEW P \in SUBSET (1 .. n), NEW i \in P
    PROVE  Nth(P, Rank(P, i)) = i
  <1>1. Rank(P, i) \in 1 .. Cardinality(P)
    BY RankPositive
  <1>2. Nth(P, Rank(P, i)) \in P /\ Rank(P, Nth(P, Rank(P, i))) = Rank(P, i)
    BY <1>1, NthFacts
  <1> QED
    BY <1>2, RankInjective

\* Nth keeps the order.
LEMMA NthGrows ==
    ASSUME NEW n \in Nat, NEW P \in SUBSET (1 .. n),
           NEW k \in 1 .. Cardinality(P), NEW l \in 1 .. Cardinality(P), k < l
    PROVE  Nth(P, k) < Nth(P, l)
  <1> DEFINE a == Nth(P, k)
             b == Nth(P, l)
  <1>1. /\ a \in P /\ Rank(P, a) = k
        /\ b \in P /\ Rank(P, b) = l
    BY NthFacts
  <1> HIDE DEF a, b
  <1>2. a # b /\ ~(b < a)
    <2>1. b < a => Rank(P, b) < Rank(P, a)
      BY <1>1, RankGrows
    <2> QED
      BY <1>1, <2>1
  <1>3. a < b
    BY <1>1, <1>2
  <1> QED
    BY <1>3 DEF a, b

\* The selection has an element for every position and no other.
THEOREM SelectedFacts ==
    ASSUME NEW T, NEW s \in Seq(T), NEW P \in SUBSET DOMAIN s
    PROVE  /\ Selected(s, P) \in Seq(T)
           /\ Len(Selected(s, P)) = Cardinality(P) /\ Cardinality(P) \in Nat
           /\ \A k \in 1 .. Cardinality(P) : Nth(P, k) \in P /\ Selected(s, P)[k] = s[Nth(P, k)]
           /\ \A i \in P : Rank(P, i) \in 1 .. Cardinality(P)
                           /\ Selected(s, P)[Rank(P, i)] = s[i]
  <1>1. DOMAIN s = 1 .. Len(s) /\ Len(s) \in Nat /\ P \in SUBSET (1 .. Len(s))
    OBVIOUS
  <1>2. Cardinality(P) \in Nat
    BY <1>1, RankType
  <1>3. ASSUME NEW k \in 1 .. Cardinality(P)
        PROVE  Nth(P, k) \in P /\ Selected(s, P)[k] = s[Nth(P, k)] /\ s[Nth(P, k)] \in T
    <2>1. Nth(P, k) \in P
      BY <1>1, NthFacts
    <2> QED
      BY <2>1 DEF Selected
  <1>4. ASSUME NEW i \in P
        PROVE  Rank(P, i) \in 1 .. Cardinality(P) /\ Selected(s, P)[Rank(P, i)] = s[i]
    <2>1. Rank(P, i) \in 1 .. Cardinality(P) /\ Nth(P, Rank(P, i)) = i
      BY <1>1, RankPositive, NthOfRank
    <2> QED
      BY <1>3, <2>1
  <1>5. Selected(s, P) \in [1 .. Cardinality(P) -> T]
    BY <1>3 DEF Selected
  <1>6. Selected(s, P) \in Seq(T) /\ Len(Selected(s, P)) = Cardinality(P)
    BY <1>2, <1>5
  <1> QED
    BY <1>2, <1>3, <1>4, <1>6

\* The k-th position depends on the ranks only.
LEMMA NthOfLast ==
    ASSUME NEW n \in Nat, NEW P \in SUBSET (1 .. n)
    PROVE  /\ Nth(P \cup {n + 1}, Cardinality(P) + 1) = n + 1
           /\ \A k \in 1 .. Cardinality(P) : Nth(P \cup {n + 1}, k) = Nth(P, k)
  <1> DEFINE Q == P \cup {n + 1}
  <1>1. Q \in SUBSET (1 .. n + 1) /\ n + 1 \in Nat /\ n + 1 \in Q /\ P \subseteq Q
    OBVIOUS
  <1>2. /\ Rank(Q, n + 1) = Cardinality(P) + 1
        /\ \A i \in P : Rank(Q, i) = Rank(P, i)
    BY RankOfLast
  <1> HIDE DEF Q
  <1>3. Nth(Q, Cardinality(P) + 1) = n + 1
    <2>1. Nth(Q, Rank(Q, n + 1)) = n + 1
      BY <1>1, NthOfRank
    <2> QED
      BY <1>2, <2>1
  <1>4. ASSUME NEW k \in 1 .. Cardinality(P) PROVE Nth(Q, k) = Nth(P, k)
    <2>1. Nth(P, k) \in P /\ Rank(P, Nth(P, k)) = k
      BY NthFacts
    <2>2. Nth(P, k) \in Q /\ Rank(Q, Nth(P, k)) = k
      BY <1>1, <1>2, <2>1
    <2>3. Nth(Q, Rank(Q, Nth(P, k))) = Nth(P, k)
      BY <1>1, <2>2, NthOfRank
    <2> QED
      BY <2>2, <2>3
  <1> QED
    BY <1>3, <1>4 DEF Q

\* What the loop over a sequence does: it starts with nothing, an element that is let
\* through is pushed, any other is passed over.
THEOREM SelectedIsTheLoop ==
    ASSUME NEW T, NEW s \in Seq(T), NEW e \in T, NEW P \in SUBSET DOMAIN s
    PROVE  /\ Selected(s, {}) = <<>>
           /\ Selected(Append(s, e), P) = Selected(s, P)
           /\ Selected(Append(s, e), P \cup {Len(s) + 1}) = Append(Selected(s, P), e)
  <1> DEFINE n == Len(s)
             c == Cardinality(P)
             Q == P \cup {n + 1}
             a == Append(s, e)
  <1>1. /\ DOMAIN s = 1 .. n /\ n \in Nat /\ P \in SUBSET (1 .. n)
        /\ a \in Seq(T) /\ Len(a) = n + 1 /\ a[n + 1] = e /\ \A i \in 1 .. n : a[i] = s[i]
    OBVIOUS
  <1>2. c \in Nat
    BY <1>1, RankType
  <1>3. Selected(s, {}) = <<>>
    <2>1. Cardinality({}) = 0
      BY FS_EmptySet
    <2>2. 1 .. Cardinality({}) = {}
      BY <2>1
    <2> QED
      BY <2>2 DEF Selected
  <1> HIDE DEF n, c, Q, a
  <1>4. ASSUME NEW k \in 1 .. c PROVE a[Nth(P, k)] = s[Nth(P, k)]
    <2>1. Nth(P, k) \in P
      BY <1>1, NthFacts DEF c
    <2> QED
      BY <1>1, <2>1
  <1>5. Selected(a, P) = Selected(s, P)
    BY <1>4 DEF Selected, c
  <1>6. Selected(a, Q) = Append(Selected(s, P), e)
    <2>1. /\ Cardinality(Q) = c + 1
          /\ Nth(Q, c + 1) = n + 1 /\ \A k \in 1 .. c : Nth(Q, k) = Nth(P, k)
      BY <1>1, RankOfLast, NthOfLast DEF c, Q
    <2>2. /\ Selected(s, P) \in Seq(T) /\ Len(Selected(s, P)) = c
          /\ \A k \in 1 .. c : Selected(s, P)[k] = s[Nth(P, k)]
      BY SelectedFacts DEF c
    <2>3. Selected(a, Q) = [k \in 1 .. c + 1 |-> a[Nth(Q, k)]]
      BY <2>1 DEF Selected
    <2>4. a[Nth(Q, c + 1)] = e /\ \A k \in 1 .. c : a[Nth(Q, k)] = Selected(s, P)[k]
      BY <1>1, <1>4, <2>1, <2>2
    <2> HIDE DEF Q
    <2>5. /\ Append(Selected(s, P), e) \in Seq(T) /\ Len(Append(Selected(s, P), e)) = c + 1
          /\ Append(Selected(s, P), e)[c + 1] = e
          /\ \A k \in 1 .. c : Append(Selected(s, P), e)[k] = Selected(s, P)[k]
      BY <1>2, <2>2
    <2>6. \A k \in 1 .. c + 1 : a[Nth(Q, k)] = Append(Selected(s, P), e)[k]
      BY <1>2, <2>4, <2>5
    <2>7. Append(Selected(s, P), e) = [k \in 1 .. c + 1 |-> Append(Selected(s, P), e)[k]]
      <3> DEFINE b == Append(Selected(s, P), e)
      <3>1. b \in Seq(T) /\ Len(b) = c + 1
        BY <2>5
      <3> HIDE DEF b
      <3>2. b = [k \in 1 .. Len(b) |-> b[k]]
        BY <3>1
      <3> QED
        BY <3>1, <3>2 DEF b
    <2> QED
      BY <2>3, <2>6, <2>7
  <1> QED
    BY <1>3, <1>5, <1>6 DEF a, Q, n
=============================================================================
