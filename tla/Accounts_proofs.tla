--------------------------- MODULE Accounts_proofs ---------------------------
(* Any number of requests, accounts, deletions and pods: the tables stay     *)
(* whole, every answer was true, accounts and follows change as the abstract *)
(* graph does, and a listing misses and repeats only what changes of its     *)
(* past make it.                                                             *)
EXTENDS Accounts, FiniteSetTheorems, SequenceTheorems, TLAPS
-----------------------------------------------------------------------------
(* The order of a listing: offsets number the follows of one user from zero *)

\* A set of follows in which nobody follows the same user twice.
Tidy(op, S) ==
    /\ S \subseteq Follows
    /\ IsFiniteSet(S)
    /\ \A f, g \in S : Owner(op, f) = Owner(op, g) /\ Other(op, f) = Other(op, g) => f = g

\* The k rows of the listing of user o from offset m on.
Part(op, S, o, m, k) ==
    {f \in S : Owner(op, f) = o /\ Offset(op, f, S) >= m /\ Offset(op, f, S) < m + k}

Before(op, S, x) == {f \in S : Precedes(op, f, x)}

LEMMA FollowTypes ==
    ASSUME NEW op, NEW f \in Follows
    PROVE  Owner(op, f) \in Nat /\ Other(op, f) \in Nat /\ f.at \in Nat
BY AccountsAssumption DEF Follows, Ids, Owner, Other

LEMMA PrecedesOrder ==
    ASSUME NEW op, NEW f \in Follows, NEW g \in Follows
    PROVE  /\ ~Precedes(op, f, f)
           /\ Precedes(op, f, g) => ~Precedes(op, g, f)
           /\ \A h \in Follows : Precedes(op, f, g) /\ Precedes(op, g, h) => Precedes(op, f, h)
           /\ Owner(op, f) = Owner(op, g) /\ Other(op, f) # Other(op, g)
                => Precedes(op, f, g) \/ Precedes(op, g, f)
BY FollowTypes DEF Precedes

LEMMA OffsetType ==
    ASSUME NEW op, NEW S, IsFiniteSet(S), NEW f
    PROVE  /\ IsFiniteSet(Before(op, S, f))
           /\ Offset(op, f, S) = Cardinality(Before(op, S, f))
           /\ Offset(op, f, S) \in Nat
<1>1. IsFiniteSet(Before(op, S, f)) /\ Offset(op, f, S) = Cardinality(Before(op, S, f))
  BY FS_Subset DEF Before, Offset
<1> QED
  BY <1>1, FS_CardinalityType

LEMMA OffsetGrows ==
    ASSUME NEW op, NEW S, Tidy(op, S), NEW f \in S, NEW g \in Follows, Precedes(op, f, g)
    PROVE  Offset(op, f, S) < Offset(op, g, S)
<1>1. f \in Follows /\ S \subseteq Follows /\ IsFiniteSet(S)
  BY DEF Tidy
<1>2. Before(op, S, f) \subseteq Before(op, S, g)
  BY <1>1, PrecedesOrder DEF Before
<1>3. f \in Before(op, S, g) /\ f \notin Before(op, S, f)
  BY <1>1, PrecedesOrder DEF Before
<1>4. /\ Cardinality(Before(op, S, f)) <= Cardinality(Before(op, S, g))
      /\ Cardinality(Before(op, S, g)) # Cardinality(Before(op, S, f))
  BY <1>1, <1>2, <1>3, OffsetType, FS_Subset
<1> QED
  BY <1>1, <1>4, OffsetType

LEMMA OffsetMonotone ==
    ASSUME NEW op, NEW S, NEW T, IsFiniteSet(T), S \subseteq T, NEW f
    PROVE  Offset(op, f, S) <= Offset(op, f, T)
<1>1. IsFiniteSet(S)
  BY FS_Subset
<1>2. Before(op, S, f) \subseteq Before(op, T, f)
  BY DEF Before
<1> QED
  BY <1>1, <1>2, OffsetType, FS_Subset

LEMMA OffsetsDiffer ==
    ASSUME NEW op, NEW S, Tidy(op, S), NEW f \in S, NEW g \in S,
           Owner(op, f) = Owner(op, g), Offset(op, f, S) = Offset(op, g, S)
    PROVE  f = g
<1>1. f \in Follows /\ g \in Follows /\ IsFiniteSet(S)
  BY DEF Tidy
<1>2. /\ Precedes(op, f, g) => Offset(op, f, S) < Offset(op, g, S)
      /\ Precedes(op, g, f) => Offset(op, g, S) < Offset(op, f, S)
  BY <1>1, OffsetGrows
<1>3. ~Precedes(op, f, g) /\ ~Precedes(op, g, f)
  BY <1>1, <1>2, OffsetType
<1> QED
  BY <1>1, <1>3, PrecedesOrder DEF Tidy

LEMMA OffsetsOrder ==
    ASSUME NEW op, NEW S, Tidy(op, S), NEW f \in S, NEW g \in S,
           Owner(op, f) = Owner(op, g), Offset(op, f, S) < Offset(op, g, S)
    PROVE  Precedes(op, f, g)
<1>1. f \in Follows /\ g \in Follows /\ IsFiniteSet(S)
  BY DEF Tidy
<1>2. Precedes(op, g, f) => Offset(op, g, S) < Offset(op, f, S)
  BY <1>1, OffsetGrows
<1>3. ~Precedes(op, g, f) /\ f # g
  BY <1>1, <1>2, OffsetType
<1> QED
  BY <1>1, <1>3, PrecedesOrder DEF Tidy

\* No offset is left out before that of g.
LEMMA OffsetsFilled ==
    ASSUME NEW op, NEW S, Tidy(op, S), NEW g \in S, NEW i \in Nat, i < Offset(op, g, S)
    PROVE  \E y \in S : Owner(op, y) = Owner(op, g) /\ Offset(op, y, S) = i
<1> DEFINE B == Before(op, S, g)
           n == Offset(op, g, S)
           N == 0..(n - 1)
           at == [y \in B |-> Offset(op, y, S)]
<1>1. IsFiniteSet(S) /\ S \subseteq Follows /\ g \in Follows
  BY DEF Tidy
<1>2. IsFiniteSet(B) /\ n = Cardinality(B) /\ n \in Nat
  BY <1>1, OffsetType
<1>3. \A y \in B : y \in S /\ Owner(op, y) = Owner(op, g) /\ Offset(op, y, S) \in N
  <2> SUFFICES ASSUME NEW y \in B
               PROVE  y \in S /\ Owner(op, y) = Owner(op, g) /\ Offset(op, y, S) \in N
    OBVIOUS
  <2>1. y \in S /\ Precedes(op, y, g)
    BY DEF Before
  <2>2. Offset(op, y, S) < n /\ Offset(op, y, S) \in Nat
    BY <1>1, <2>1, OffsetGrows, OffsetType
  <2>3. Offset(op, y, S) \in N
    BY <1>2, <2>2
  <2> QED
    BY <2>1, <2>3 DEF Precedes
<1>4. IsFiniteSet(N) /\ Cardinality(N) = n
  <2>1. 0 \in Int /\ n - 1 \in Int /\ (0 > n - 1 => n = 0) /\ n - 1 - 0 + 1 = n
    BY <1>2
  <2> HIDE DEF n
  <2> QED
    BY <2>1, FS_Interval
<1> HIDE DEF B, n
<1>5. at \in Injection(B, N)
  <2>1. at \in [B -> N]
    BY <1>3
  <2>2. \A y, z \in B : at[y] = at[z] => y = z
    BY <1>3, OffsetsDiffer
  <2> QED
    BY <2>1, <2>2 DEF Injection, IsInjective
<1>6. at \in Surjection(B, N)
  BY <1>2, <1>4, <1>5, FS_Injection
<1>7. i \in N
  BY <1>2 DEF n
<1>8. PICK y \in B : at[y] = i
  BY <1>6, <1>7 DEF Surjection
<1> QED
  BY <1>3, <1>8

\* k rows are at most k follows, and k of them when there are more to come.
LEMMA PartSize ==
    ASSUME NEW op, NEW S, Tidy(op, S), NEW o, NEW m \in Nat, NEW k \in Nat
    PROVE  /\ IsFiniteSet(Part(op, S, o, m, k)) /\ Cardinality(Part(op, S, o, m, k)) \in Nat
           /\ Cardinality(Part(op, S, o, m, k)) <= k
           /\ \A g \in S : Owner(op, g) = o /\ Offset(op, g, S) >= m + k
                => Cardinality(Part(op, S, o, m, k)) = k
<1> DEFINE P == Part(op, S, o, m, k)
           N == m..(m + k - 1)
           at == [y \in P |-> Offset(op, y, S)]
<1>1. IsFiniteSet(S)
  BY DEF Tidy
<1>2. \A y \in P : y \in S /\ Owner(op, y) = o /\ Offset(op, y, S) \in N
  BY <1>1, OffsetType DEF Part
<1>3. \A y \in S : Owner(op, y) = o /\ Offset(op, y, S) \in N => y \in P
  BY <1>1, OffsetType DEF Part
<1>4. IsFiniteSet(N) /\ Cardinality(N) = k
  <2>1. m \in Int /\ m + k - 1 \in Int /\ (m > m + k - 1 => k = 0) /\ m + k - 1 - m + 1 = k
    OBVIOUS
  <2> QED
    BY <2>1, FS_Interval
<1> HIDE DEF P
<1>5. at \in Injection(P, N)
  <2>1. at \in [P -> N]
    BY <1>2
  <2>2. \A y, z \in P : at[y] = at[z] => y = z
    BY <1>2, OffsetsDiffer
  <2> QED
    BY <2>1, <2>2 DEF Injection, IsInjective
<1>6. IsFiniteSet(P) /\ Cardinality(P) <= k
  BY <1>4, <1>5, FS_Injection
<1>7. ASSUME NEW g \in S, Owner(op, g) = o, Offset(op, g, S) >= m + k
      PROVE  Cardinality(P) = k
  <2>1. \A i \in N : \E y \in P : at[y] = i
    <3> SUFFICES ASSUME NEW i \in N
                 PROVE  \E y \in P : at[y] = i
      OBVIOUS
    <3>1. i \in Nat /\ i < Offset(op, g, S)
      BY <1>1, <1>7, OffsetType
    <3>2. PICK y \in S : Owner(op, y) = o /\ Offset(op, y, S) = i
      BY <1>7, <3>1, OffsetsFilled
    <3> QED
      BY <1>3, <3>2
  <2>2. at \in Surjection(P, N)
    BY <1>5, <2>1 DEF Injection, Surjection
  <2> QED
    BY <1>4, <1>5, <2>2, FS_Injection
<1>8. Cardinality(P) \in Nat
  BY <1>6, FS_CardinalityType
<1> QED
  BY <1>6, <1>7, <1>8 DEF P

\* Counting.
LEMMA UnionBound ==
    ASSUME NEW A, NEW B, NEW C, IsFiniteSet(A), IsFiniteSet(B), C \subseteq A \cup B
    PROVE  /\ IsFiniteSet(C)
           /\ Cardinality(A) \in Nat /\ Cardinality(B) \in Nat /\ Cardinality(C) \in Nat
           /\ Cardinality(C) <= Cardinality(A) + Cardinality(B)
<1>1. /\ IsFiniteSet(A \cup B)
      /\ Cardinality(A \cup B) = Cardinality(A) + Cardinality(B) - Cardinality(A \cap B)
  BY FS_Union
<1>2. IsFiniteSet(C) /\ Cardinality(C) <= Cardinality(A \cup B)
  BY <1>1, FS_Subset
<1>3. IsFiniteSet(A \cap B)
  BY FS_Subset
<1>4. Cardinality(A) \in Nat /\ Cardinality(B) \in Nat /\ Cardinality(C) \in Nat
      /\ Cardinality(A \cap B) \in Nat
  BY <1>2, <1>3, FS_CardinalityType
<1> QED
  BY <1>1, <1>2, <1>4

LEMMA DisjointSum ==
    ASSUME NEW A, NEW B, NEW C, IsFiniteSet(C), A \subseteq C, B \subseteq C, A \cap B = {}
    PROVE  /\ IsFiniteSet(A) /\ IsFiniteSet(B)
           /\ Cardinality(A) \in Nat /\ Cardinality(B) \in Nat /\ Cardinality(C) \in Nat
           /\ Cardinality(A) + Cardinality(B) <= Cardinality(C)
           /\ C = A \cup B => Cardinality(A) + Cardinality(B) = Cardinality(C)
<1>1. IsFiniteSet(A) /\ IsFiniteSet(B) /\ A \cup B \subseteq C
  BY FS_Subset
<1>2. /\ Cardinality(A \cup B) = Cardinality(A) + Cardinality(B) - Cardinality(A \cap B)
      /\ Cardinality(A \cup B) <= Cardinality(C)
  BY <1>1, FS_Union, FS_Subset
<1>3. Cardinality(A \cap B) = 0
  BY FS_EmptySet
<1>4. Cardinality(A) \in Nat /\ Cardinality(B) \in Nat /\ Cardinality(C) \in Nat
  BY <1>1, FS_CardinalityType
<1>5. Cardinality(A \cup B) = Cardinality(A) + Cardinality(B)
  BY <1>2, <1>3, <1>4
<1>6. C = A \cup B => Cardinality(A \cup B) = Cardinality(C)
  OBVIOUS
<1> QED
  BY <1>1, <1>2, <1>4, <1>5, <1>6

LEMMA DisjointBound ==
    ASSUME NEW A, NEW B, NEW C, IsFiniteSet(C), A \subseteq C, B \subseteq C, A \cap B = {}
    PROVE  Cardinality(A) + Cardinality(B) <= Cardinality(C)
BY DisjointSum

LEMMA TidySubset ==
    ASSUME NEW op, NEW S, Tidy(op, S), NEW T, T \subseteq S
    PROVE  Tidy(op, T)
BY FS_Subset DEF Tidy

\* When follows come, a page's end moves past those that came before it.
LEMMA PartGrows ==
    ASSUME NEW op, NEW T, Tidy(op, T), NEW S, S \subseteq T, NEW o, NEW L \in Nat
    PROVE  LET P == Part(op, S, o, 0, L)
               Q == Part(op, T, o, 0, L)
           IN  /\ Q \subseteq P \cup (Q \ S)
               /\ \A x \in Follows : Cardinality(Before(op, Q, x))
                                        <= Cardinality(Before(op, P, x)) + Cardinality(Q \ S)
<1> DEFINE P == Part(op, S, o, 0, L)
           Q == Part(op, T, o, 0, L)
<1>1. IsFiniteSet(S) /\ IsFiniteSet(T) /\ Tidy(op, S)
  BY TidySubset DEF Tidy
<1>2. \A f \in S : /\ Offset(op, f, S) \in Nat /\ Offset(op, f, T) \in Nat
                   /\ Offset(op, f, S) <= Offset(op, f, T)
  BY <1>1, OffsetType, OffsetMonotone
<1>3. Q \cap S \subseteq P
  BY <1>2 DEF Part
<1>4. IsFiniteSet(P) /\ IsFiniteSet(Q) /\ IsFiniteSet(Q \ S)
  <2>1. IsFiniteSet(P) /\ IsFiniteSet(Q)
    BY <1>1, PartSize
  <2> HIDE DEF P, Q
  <2> QED
    BY <2>1, FS_Subset
<1> HIDE DEF P, Q
<1>5. ASSUME NEW x \in Follows
      PROVE  Cardinality(Before(op, Q, x))
                <= Cardinality(Before(op, P, x)) + Cardinality(Q \ S)
  <2>1. Before(op, Q, x) \subseteq Before(op, P, x) \cup (Q \ S)
    BY <1>3 DEF Before
  <2>2. IsFiniteSet(Before(op, P, x))
    BY <1>4, OffsetType
  <2> QED
    BY <1>4, <2>1, <2>2, UnionBound
<1>6. Q \subseteq P \cup (Q \ S)
  BY <1>3
<1> QED
  BY <1>5, <1>6 DEF P, Q

\* When follows go, no more of the rest move before a page's end than went.
LEMMA PartShrinks ==
    ASSUME NEW op, NEW S, Tidy(op, S), NEW T, T \subseteq S, NEW o, NEW L \in Nat
    PROVE  LET P == Part(op, S, o, 0, L)
               Q == Part(op, T, o, 0, L)
           IN  /\ Cardinality(Q \ P) <= Cardinality(P \ T)
               /\ \A x \in Follows :
                     Cardinality(Before(op, Q, x)) <= Cardinality(Before(op, P, x))
<1> DEFINE P == Part(op, S, o, 0, L)
           Q == Part(op, T, o, 0, L)
<1>1. IsFiniteSet(S) /\ IsFiniteSet(T) /\ Tidy(op, T) /\ S \subseteq Follows
  BY TidySubset DEF Tidy
<1>2. \A f \in T : /\ Offset(op, f, S) \in Nat /\ Offset(op, f, T) \in Nat
                   /\ Offset(op, f, T) <= Offset(op, f, S)
  BY <1>1, OffsetType, OffsetMonotone
<1>3. P \cap T \subseteq Q /\ Q \subseteq T /\ P \subseteq S
  BY <1>2 DEF Part
<1>4. /\ IsFiniteSet(P) /\ IsFiniteSet(Q) /\ Cardinality(Q) <= L
      /\ \A g \in S : Owner(op, g) = o /\ Offset(op, g, S) >= L => Cardinality(P) = L
  <2>1. 0 \in Nat /\ 0 + L = L
    OBVIOUS
  <2>2. IsFiniteSet(Q) /\ Cardinality(Q) <= L
    BY <1>1, <2>1, PartSize
  <2>3. /\ IsFiniteSet(P)
        /\ \A g \in S : Owner(op, g) = o /\ Offset(op, g, S) >= 0 + L => Cardinality(P) = L
    BY <2>1, PartSize
  <2> QED
    BY <2>1, <2>2, <2>3
<1>5. \A g \in S : Owner(op, g) = o /\ g \notin P => Offset(op, g, S) >= L
  BY <1>1, OffsetType DEF Part
<1>6. \A f \in P : Owner(op, f) = o /\ Offset(op, f, S) < L /\ Offset(op, f, S) \in Nat
  BY <1>1, OffsetType DEF Part
<1>7. \A f \in Q : Owner(op, f) = o
  BY DEF Part
<1> HIDE DEF P, Q
<1>8. Cardinality(P) \in Nat /\ Cardinality(Q) \in Nat
  BY <1>4, FS_CardinalityType
<1>9. Cardinality(Q \ P) <= Cardinality(P \ T)
  <2>1. /\ Cardinality(Q \ P) + Cardinality(P \cap T) = Cardinality(Q)
        /\ Cardinality(Q \ P) \in Nat /\ Cardinality(P \cap T) \in Nat
    <3>1. (Q \ P) \cap (P \cap T) = {} /\ Q = (Q \ P) \cup (P \cap T)
      BY <1>3
    <3> QED
      BY <1>4, <3>1, DisjointSum
  <2>2. /\ Cardinality(P \ T) + Cardinality(P \cap T) = Cardinality(P)
        /\ Cardinality(P \ T) \in Nat
    <3>1. (P \ T) \cap (P \cap T) = {} /\ P = (P \ T) \cup (P \cap T)
      OBVIOUS
    <3> QED
      BY <1>4, <3>1, DisjointSum
  <2>3. CASE Q \subseteq P
    <3>1. Q \ P = {}
      BY <2>3
    <3>2. Cardinality(Q \ P) = 0
      BY <3>1, FS_EmptySet
    <3> QED
      BY <2>2, <3>2
  <2>4. CASE ~(Q \subseteq P)
    <3>1. Cardinality(P) = L
      BY <1>3, <1>4, <1>5, <1>7, <2>4
    <3> QED
      BY <1>4, <1>8, <2>1, <2>2, <3>1
  <2> QED
    BY <2>3, <2>4
<1>10. ASSUME NEW x \in Follows
       PROVE  Cardinality(Before(op, Q, x)) <= Cardinality(Before(op, P, x))
  <2>1. IsFiniteSet(Before(op, P, x)) /\ IsFiniteSet(Before(op, Q, x))
    BY <1>4, OffsetType
  <2>2. CASE Before(op, Q, x) \subseteq P
    <3>1. Before(op, Q, x) \subseteq Before(op, P, x)
      BY <2>2 DEF Before
    <3> QED
      BY <2>1, <3>1, FS_Subset
  <2>3. ASSUME NEW h \in Before(op, Q, x), h \notin P
        PROVE  Cardinality(Before(op, Q, x)) <= Cardinality(Before(op, P, x))
    <3>1. h \in Q /\ h \in S /\ Owner(op, h) = o /\ Precedes(op, h, x)
      BY <1>3, <1>7 DEF Before
    <3>2. Offset(op, h, S) >= L /\ Offset(op, h, S) \in Nat /\ Cardinality(P) = L
      BY <1>1, <1>4, <1>5, <2>3, <3>1, OffsetType
    <3>3. ASSUME NEW f \in P PROVE Precedes(op, f, x)
      <4>1. Offset(op, f, S) < Offset(op, h, S)
        BY <1>6, <3>2
      <4>2. f \in S /\ Owner(op, f) = Owner(op, h)
        BY <1>3, <1>6, <3>1
      <4>3. Precedes(op, f, h)
        BY <3>1, <4>1, <4>2, OffsetsOrder
      <4> QED
        BY <1>1, <3>1, <4>2, <4>3, PrecedesOrder
    <3>4. Before(op, P, x) = P
      BY <3>3 DEF Before
    <3>5. Before(op, Q, x) \subseteq Q
      BY DEF Before
    <3>6. Cardinality(Before(op, Q, x)) <= Cardinality(Q)
      BY <1>4, <3>5, FS_Subset
    <3>7. Cardinality(Before(op, Q, x)) \in Nat
      BY <2>1, FS_CardinalityType
    <3> QED
      BY <1>4, <1>8, <3>2, <3>4, <3>6, <3>7
  <2> QED
    BY <2>2, <2>3
<1> QED
  BY <1>9, <1>10 DEF P, Q

\* The rows of a page in order: there is such a sequence, and it has them all.
InOrder(op, S, P, rows) ==
    /\ rows \in [1..Cardinality(P) -> P]
    /\ \A i, j \in 1..Cardinality(P) :
          i < j => Offset(op, rows[i], S) < Offset(op, rows[j], S)

LEMMA RowsExist ==
    ASSUME NEW op, NEW S, Tidy(op, S), NEW o, NEW m \in Nat, NEW k \in Nat
    PROVE  \E rows : InOrder(op, S, Part(op, S, o, m, k), rows)
<1> DEFINE P == Part(op, S, o, m, k)
           n == Cardinality(P)
           at(i) == CHOOSE y \in P : Offset(op, y, S) = m + i - 1
           rows == [i \in 1..n |-> at(i)]
<1>1. IsFiniteSet(S) /\ IsFiniteSet(P) /\ n \in Nat /\ n <= k
  BY PartSize DEF Tidy
<1>2. \A y \in P : y \in S /\ Owner(op, y) = o /\ Offset(op, y, S) \in m..(m + k - 1)
  BY <1>1, OffsetType DEF Part
<1>3. \A y \in S : Owner(op, y) = o /\ Offset(op, y, S) \in m..(m + k - 1) => y \in P
  BY <1>1, OffsetType DEF Part
<1>4. ASSUME NEW i \in 1..n
      PROVE  \E y \in P : Offset(op, y, S) = m + i - 1
  <2>1. \E g \in P : Offset(op, g, S) >= m + n - 1
    <3> SUFFICES ASSUME \A g \in P : Offset(op, g, S) < m + n - 1
                 PROVE  FALSE
      BY <1>1, <1>2
    <3>1. P \subseteq Part(op, S, o, m, n - 1)
      BY <1>1, <1>2, <1>4 DEF Part
    <3>2. /\ IsFiniteSet(Part(op, S, o, m, n - 1))
          /\ Cardinality(Part(op, S, o, m, n - 1)) <= n - 1
          /\ Cardinality(Part(op, S, o, m, n - 1)) \in Nat
      <4>1. n - 1 \in Nat
        BY <1>1, <1>4
      <4> HIDE DEF n
      <4> QED
        BY <4>1, PartSize
    <3>3. n <= Cardinality(Part(op, S, o, m, n - 1))
      BY <3>1, <3>2, FS_Subset
    <3> QED
      BY <1>1, <3>2, <3>3
  <2>2. PICK g \in P : Offset(op, g, S) >= m + n - 1
    BY <2>1
  <2>3. CASE Offset(op, g, S) = m + i - 1
    BY <2>3
  <2>4. CASE Offset(op, g, S) # m + i - 1
    <3>1. m + i - 1 \in Nat /\ m + i - 1 < Offset(op, g, S)
      BY <1>1, <1>2, <1>4, <2>2, <2>4
    <3>2. PICK y \in S : Owner(op, y) = Owner(op, g) /\ Offset(op, y, S) = m + i - 1
      BY <1>2, <2>2, <3>1, OffsetsFilled
    <3>3. m + i - 1 \in m..(m + k - 1)
      BY <1>1, <1>4
    <3> QED
      BY <1>2, <1>3, <2>2, <3>2, <3>3
  <2> QED
    BY <2>3, <2>4
<1> HIDE DEF P, n
<1>5. \A i \in 1..n : at(i) \in P /\ Offset(op, at(i), S) = m + i - 1
  BY <1>4
<1>6. InOrder(op, S, P, rows)
  <2>1. rows \in [1..n -> P]
    BY <1>5
  <2>2. \A i \in 1..n : Offset(op, rows[i], S) = m + i - 1
    BY <1>5
  <2> HIDE DEF rows
  <2>3. \A i, j \in 1..n : i < j => Offset(op, rows[i], S) < Offset(op, rows[j], S)
    BY <1>1, <2>2
  <2> QED
    BY <2>1, <2>3 DEF InOrder, n
<1> QED
  BY <1>6 DEF P

LEMMA RowsCover ==
    ASSUME NEW op, NEW S, Tidy(op, S), NEW P, IsFiniteSet(P), P \subseteq S, NEW rows,
           InOrder(op, S, P, rows)
    PROVE  {rows[i] : i \in 1..Cardinality(P)} = P
<1> DEFINE n == Cardinality(P)
<1>1. n \in Nat /\ IsFiniteSet(S) /\ rows \in [1..n -> P]
  BY FS_CardinalityType DEF Tidy, InOrder
<1>2. \A i, j \in 1..n : rows[i] = rows[j] => i = j
  <2> SUFFICES ASSUME NEW i \in 1..n, NEW j \in 1..n, rows[i] = rows[j], i # j
               PROVE  FALSE
    OBVIOUS
  <2>1. Offset(op, rows[i], S) \in Nat
    BY <1>1, OffsetType
  <2>2. i < j \/ j < i
    BY <1>1
  <2> QED
    BY <2>1, <2>2 DEF InOrder
<1>3. rows \in Injection(1..n, P)
  BY <1>1, <1>2 DEF Injection, IsInjective
<1>4. IsFiniteSet(1..n) /\ Cardinality(1..n) = n
  <2>1. 1 \in Int /\ n \in Int /\ (1 > n => n = 0) /\ n - 1 + 1 = n
    BY <1>1
  <2> HIDE DEF n
  <2> QED
    BY <2>1, FS_Interval
<1>5. rows \in Surjection(1..n, P)
  BY <1>3, <1>4, FS_Injection
<1> QED
  BY <1>1, <1>5 DEF Surjection

\* Reading on: a page lies behind all that was passed, so what a client has
\* seen before an end of the page grows by as much as it has passed.
LEMMA ReadOn ==
    ASSUME NEW op, NEW S, Tidy(op, S), NEW o, NEW L \in Nat, NEW k \in Nat,
           NEW seen, IsFiniteSet(seen), seen \subseteq Follows, NEW extra \in Nat,
           L <= extra + Cardinality(seen),
           \A x \in Follows : Cardinality(Before(op, Part(op, S, o, 0, L), x))
                                 <= extra + Cardinality(Before(op, seen, x))
    PROVE  LET P == Part(op, S, o, 0, L)
               G == Part(op, S, o, L, k)
           IN  /\ L + Cardinality(G) <= extra + Cardinality(seen \cup G)
               /\ \A x \in Follows : Cardinality(Before(op, P \cup G, x))
                                        <= extra + Cardinality(Before(op, seen \cup G, x))
<1> DEFINE P == Part(op, S, o, 0, L)
           G == Part(op, S, o, L, k)
           all == seen \cup G
<1>1. IsFiniteSet(S) /\ S \subseteq Follows
  BY DEF Tidy
<1>2. /\ IsFiniteSet(P) /\ IsFiniteSet(G)
      /\ Cardinality(P) <= L
      /\ \A g \in S : Owner(op, g) = o /\ Offset(op, g, S) >= L => Cardinality(P) = L
  <2>1. 0 \in Nat /\ 0 + L = L
    OBVIOUS
  <2>2. /\ IsFiniteSet(P) /\ Cardinality(P) <= L
        /\ \A g \in S : Owner(op, g) = o /\ Offset(op, g, S) >= 0 + L => Cardinality(P) = L
    BY <2>1, PartSize
  <2>3. IsFiniteSet(G)
    BY PartSize
  <2> QED
    BY <2>1, <2>2, <2>3
<1>3. /\ \A f \in P : f \in S /\ Owner(op, f) = o
                      /\ Offset(op, f, S) \in Nat /\ Offset(op, f, S) < L
      /\ \A g \in G : g \in S /\ Owner(op, g) = o
                      /\ Offset(op, g, S) \in Nat /\ Offset(op, g, S) >= L
  BY <1>1, OffsetType DEF Part
<1>4. \A x \in Follows : Cardinality(Before(op, P, x)) <= extra + Cardinality(Before(op, seen, x))
  OBVIOUS
<1> HIDE DEF P, G
<1>5. IsFiniteSet(all) /\ IsFiniteSet(P \cup G)
  BY <1>2, FS_Union
<1>6. \A x : /\ IsFiniteSet(Before(op, all, x)) /\ Cardinality(Before(op, all, x)) \in Nat
             /\ IsFiniteSet(Before(op, P, x)) /\ Cardinality(Before(op, P, x)) \in Nat
             /\ IsFiniteSet(Before(op, G, x)) /\ Cardinality(Before(op, G, x)) \in Nat
             /\ IsFiniteSet(Before(op, seen, x)) /\ Cardinality(Before(op, seen, x)) \in Nat
             /\ Cardinality(Before(op, seen, x)) <= Cardinality(Before(op, all, x))
  <2> SUFFICES ASSUME NEW x
      PROVE  /\ IsFiniteSet(Before(op, all, x)) /\ Cardinality(Before(op, all, x)) \in Nat
             /\ IsFiniteSet(Before(op, P, x)) /\ Cardinality(Before(op, P, x)) \in Nat
             /\ IsFiniteSet(Before(op, G, x)) /\ Cardinality(Before(op, G, x)) \in Nat
             /\ IsFiniteSet(Before(op, seen, x)) /\ Cardinality(Before(op, seen, x)) \in Nat
             /\ Cardinality(Before(op, seen, x)) <= Cardinality(Before(op, all, x))
    OBVIOUS
  <2>1. /\ IsFiniteSet(Before(op, all, x)) /\ IsFiniteSet(Before(op, P, x))
        /\ IsFiniteSet(Before(op, G, x)) /\ IsFiniteSet(Before(op, seen, x))
    BY <1>2, <1>5, OffsetType
  <2>2. Before(op, seen, x) \subseteq Before(op, all, x)
    BY DEF Before
  <2> QED
    BY <2>1, <2>2, FS_Subset, FS_CardinalityType
<1>7. CASE G = {}
  <2>1. all = seen /\ P \cup G = P
    BY <1>7
  <2>2. Cardinality(G) = 0
    BY <1>7, FS_EmptySet
  <2>3. L + Cardinality(G) <= extra + Cardinality(all)
    BY <2>1, <2>2
  <2> HIDE DEF all
  <2> QED
    BY <1>4, <2>1, <2>3 DEF P, G, all
<1>8. ASSUME G # {}
      PROVE  \E y \in Follows : /\ \A f \in P : Precedes(op, f, y)
                                /\ \A g \in G : g = y \/ Precedes(op, y, g)
                                /\ Cardinality(P) = L
  <2>1. PICK g \in G : TRUE
    BY <1>8
  <2>2. \E y \in S : Owner(op, y) = o /\ Offset(op, y, S) = L
    <3>1. CASE Offset(op, g, S) = L
      BY <1>3, <2>1, <3>1
    <3>2. CASE L < Offset(op, g, S)
      <4>1. \E y \in S : Owner(op, y) = Owner(op, g) /\ Offset(op, y, S) = L
        BY <1>3, <2>1, <3>2, OffsetsFilled
      <4> QED
        BY <1>3, <2>1, <4>1
    <3> QED
      BY <1>3, <2>1, <3>1, <3>2
  <2>3. PICK y \in S : Owner(op, y) = o /\ Offset(op, y, S) = L
    BY <2>2
  <2>4. \A f \in P : Precedes(op, f, y)
    BY <1>3, <2>3, OffsetsOrder
  <2>5. ASSUME NEW h \in G
        PROVE  h = y \/ Precedes(op, y, h)
    <3>1. h \in S /\ Owner(op, h) = Owner(op, y) /\ Offset(op, h, S) >= L /\ Offset(op, h, S) \in Nat
      BY <1>3, <2>3
    <3>2. CASE Offset(op, h, S) = L
      BY <2>3, <3>1, <3>2, OffsetsDiffer
    <3>3. CASE Offset(op, h, S) # L
      <4>1. Offset(op, y, S) < Offset(op, h, S)
        BY <2>3, <3>1, <3>3
      <4> QED
        BY <2>3, <3>1, <4>1, OffsetsOrder
    <3> QED
      BY <3>2, <3>3
  <2>6. Cardinality(P) = L
    BY <1>2, <2>3
  <2>7. y \in Follows
    BY <1>1
  <2> QED
    BY <2>4, <2>5, <2>6, <2>7
<1>9. CASE G # {}
  <2>1. PICK y \in Follows : /\ \A f \in P : Precedes(op, f, y)
                             /\ \A g \in G : g = y \/ Precedes(op, y, g)
                             /\ Cardinality(P) = L
    BY <1>8, <1>9
  <2> DEFINE B == Before(op, seen, y)
  <2>2. L <= extra + Cardinality(B) /\ Cardinality(B) \in Nat /\ B \subseteq seen
    <3>1. Before(op, P, y) = P
      BY <2>1 DEF Before
    <3>2. B \subseteq seen
      BY DEF Before
    <3> QED
      BY <1>4, <1>6, <2>1, <3>1, <3>2
  <2>3. B \cap G = {}
    BY <1>1, <1>3, <2>1, PrecedesOrder DEF Before
  <2> HIDE DEF B
  <2>4. L + Cardinality(G) <= extra + Cardinality(all)
    <3>1. B \subseteq all /\ G \subseteq all /\ IsFiniteSet(all)
      BY <1>5, <2>2
    <3> HIDE DEF all
    <3>2. Cardinality(B) + Cardinality(G) <= Cardinality(all)
      BY <2>3, <3>1, DisjointBound
    <3>3. Cardinality(G) \in Nat /\ Cardinality(all) \in Nat
      BY <1>2, <3>1, FS_CardinalityType
    <3> DEFINE b == Cardinality(B)
               g == Cardinality(G)
               a == Cardinality(all)
    <3>4. L <= extra + b /\ b + g <= a /\ b \in Nat /\ g \in Nat /\ a \in Nat
      BY <2>2, <3>2, <3>3
    <3> HIDE DEF b, g, a
    <3>5. L + g <= extra + a
      BY <3>4
    <3> QED
      BY <3>5 DEF g, a
  <2>5. ASSUME NEW x \in Follows
        PROVE  Cardinality(Before(op, P \cup G, x)) <= extra + Cardinality(Before(op, all, x))
    <3> DEFINE H == Before(op, G, x)
    <3>1. Before(op, P \cup G, x) = Before(op, P, x) \cup H
      BY DEF Before
    <3>2. CASE H = {}
      <4>1. Before(op, P \cup G, x) = Before(op, P, x)
        BY <3>1, <3>2
      <4> HIDE DEF all
      <4> QED
        BY <1>4, <1>6, <4>1
    <3>3. CASE H # {}
      <4>1. PICK g \in H : g \in G /\ Precedes(op, g, x)
        BY <3>3 DEF Before
      <4>2. Precedes(op, y, x)
        BY <1>1, <1>3, <2>1, <4>1, PrecedesOrder
      <4> DEFINE K == Before(op, all, x)
      <4>3. B \subseteq K /\ H \subseteq K /\ B \cap H = {} /\ IsFiniteSet(K)
        <5>1. B \subseteq K /\ H \subseteq K /\ B \cap H = {}
          BY <2>3, <4>2, PrecedesOrder DEF B, Before
        <5> HIDE DEF all
        <5> QED
          BY <1>6, <5>1
      <4> HIDE DEF H, all, K
      <4>4. /\ Cardinality(B) + Cardinality(H) <= Cardinality(K)
            /\ Cardinality(H) \in Nat /\ Cardinality(K) \in Nat /\ IsFiniteSet(H)
        BY <4>3, DisjointSum
      <4>5. Before(op, P \cup G, x) \subseteq P \cup H
        BY <3>1 DEF Before
      <4> DEFINE p == Cardinality(Before(op, P \cup G, x))
                 h == Cardinality(H)
                 b == Cardinality(B)
                 e == Cardinality(K)
      <4>6. p <= L + h /\ p \in Nat
        BY <1>2, <2>1, <4>4, <4>5, UnionBound
      <4>7. e \in Nat /\ h \in Nat /\ b \in Nat /\ b + h <= e /\ L <= extra + b
        BY <2>2, <4>4
      <4> HIDE DEF p, h, b, e
      <4>8. p <= extra + e
        BY <4>6, <4>7
      <4> QED
        BY <4>8 DEF p, e, K
    <3> QED
      BY <3>2, <3>3
  <2> QED
    BY <2>4, <2>5 DEF P, G, all
<1> QED
  BY <1>7, <1>9

\* After a page, all that lies before its end was passed or is on it; a short
\* page is the last one.
LEMMA PageEnds ==
    ASSUME NEW op, NEW S, Tidy(op, S), NEW o, NEW L \in Nat, NEW k \in Nat
    PROVE  LET P == Part(op, S, o, 0, L)
               G == Part(op, S, o, L, k)
           IN  /\ Part(op, S, o, 0, L + Cardinality(G)) \subseteq P \cup G
               /\ Cardinality(G) < k => \A f \in S : Owner(op, f) = o => f \in P \cup G
<1> DEFINE P == Part(op, S, o, 0, L)
           G == Part(op, S, o, L, k)
           n == Cardinality(G)
<1>1. IsFiniteSet(S)
  BY DEF Tidy
<1>2. /\ n \in Nat /\ n <= k
      /\ \A g \in S : Owner(op, g) = o /\ Offset(op, g, S) >= L + k => n = k
  BY PartSize
<1>3. \A f \in S : Owner(op, f) = o /\ Offset(op, f, S) < L + k => f \in P \cup G
  BY <1>1, OffsetType DEF Part
<1> HIDE DEF n
<1>4. Part(op, S, o, 0, L + n) \subseteq P \cup G
  <2> SUFFICES ASSUME NEW f \in Part(op, S, o, 0, L + n)
               PROVE  f \in P \cup G
    OBVIOUS
  <2>1. f \in S /\ Owner(op, f) = o /\ Offset(op, f, S) < L + k
    BY <1>1, <1>2, OffsetType DEF Part
  <2> QED
    BY <1>3, <2>1
<1>5. n < k => \A f \in S : Owner(op, f) = o => f \in P \cup G
  BY <1>1, <1>2, <1>3, OffsetType
<1> QED
  BY <1>4, <1>5 DEF n
-----------------------------------------------------------------------------
(* The tables *)

USE AccountsAssumption

\* What an answered request leaves.
LEMMA EndsLeaves ==
    ASSUME AccountsTypeOK, NEW r \in Requests, NEW from, NEW reply \in Working \cup Answers,
           Ends(r, from, reply)
    PROVE  /\ phase[r] = from
           /\ phase' \in [Requests -> Working \cup Answers]
           /\ caller' \in [Requests -> Users \cup {NoUser}]
           /\ target' \in [Requests -> Users \cup {NoUser}]
           /\ gone' \in [Requests -> BOOLEAN]
           /\ asked' = asked
           /\ phase'[r] = reply /\ caller'[r] = NoUser /\ target'[r] = NoUser
           /\ reply \in Working => gone'[r] = gone[r]
           /\ \A q \in Requests \ {r} :
                 /\ phase'[q] = phase[q] /\ gone'[q] = gone[q]
                 /\ caller'[q] = caller[q] /\ target'[q] = target[q]
<1> USE DEF AccountsTypeOK, Ends, Moves
<1>1. /\ phase' = [phase EXCEPT ![r] = reply]
      /\ caller' = [caller EXCEPT ![r] = NoUser]
      /\ target' = [target EXCEPT ![r] = NoUser]
      /\ gone' = [gone EXCEPT ![r] = gone[r] /\ reply \in Working]
      /\ asked' = asked /\ phase[r] = from
  OBVIOUS
<1>2. /\ phase' \in [Requests -> Working \cup Answers] /\ phase'[r] = reply
      /\ \A q \in Requests \ {r} : phase'[q] = phase[q]
  BY <1>1
<1>3. /\ caller' \in [Requests -> Users \cup {NoUser}] /\ caller'[r] = NoUser
      /\ \A q \in Requests \ {r} : caller'[q] = caller[q]
  BY <1>1
<1>4. /\ target' \in [Requests -> Users \cup {NoUser}] /\ target'[r] = NoUser
      /\ \A q \in Requests \ {r} : target'[q] = target[q]
  BY <1>1
<1>5. /\ gone' \in [Requests -> BOOLEAN]
      /\ \A q \in Requests \ {r} : gone'[q] = gone[q]
      /\ reply \in Working => gone'[r] = gone[r]
  BY <1>1
<1> QED BY <1>1, <1>2, <1>3, <1>4, <1>5

\* A step of one request that leaves the accounts alone keeps the invariant if
\* what it has now looked up is right and its follows are.
LEMMA RequestStepKeeps ==
    ASSUME AccountsInv, NEW r \in Requests, UNCHANGED <<users, lastId>>,
           follows' \subseteq Follows, EdgesConnect', OneEdgeEach',
           phase' \in [Requests -> Working \cup Answers],
           asked' \in [Requests -> Asked],
           caller' \in [Requests -> Users \cup {NoUser}],
           target' \in [Requests -> Users \cup {NoUser}],
           gone' \in [Requests -> BOOLEAN],
           \A q \in Requests \ {r} :
              /\ phase'[q] = phase[q] /\ gone'[q] = gone[q] /\ asked'[q] = asked[q]
              /\ caller'[q] = caller[q] /\ target'[q] = target[q],
           caller'[r] \in {caller[r], NoUser} \cup users,
           target'[r] \in {target[r], NoUser} \cup users,
           Remembered(r)', Witnessed(r)', Resting(r)'
    PROVE  AccountsInv'
<1> USE DEF AccountsInv
<1>1. AccountsTypeOK' BY DEF AccountsTypeOK
<1>2. OwnKeys' BY DEF OwnKeys
<1>3. IdsGivenOnce'
  <2>1. \A q \in Requests : \A v \in {caller'[q], target'[q]} \ {NoUser} :
           v \in {caller[q], target[q]} \cup users
    OBVIOUS
  <2>2. \A u, v \in users : u.id = v.id => u = v
    BY DEF OwnKeys
  <2> QED BY <2>1, <2>2 DEF IdsGivenOnce
<1>4. ASSUME NEW q \in Requests PROVE Remembered(q)' /\ Witnessed(q)' /\ Resting(q)'
  <2>1. CASE q = r BY <2>1
  <2>2. CASE q # r
    <3>1. phase'[q] = phase[q] /\ gone'[q] = gone[q] /\ asked'[q] = asked[q]
          /\ caller'[q] = caller[q] /\ target'[q] = target[q]
      BY <2>2
    <3> QED BY <3>1 DEF Remembered, Witnessed, Holds, Resting
  <2> QED BY <2>1, <2>2
<1> QED BY <1>1, <1>2, <1>3, <1>4

LEMMA LocalStep ==
    ASSUME AccountsInv, NEW r \in Requests, UNCHANGED tables,
           phase' \in [Requests -> Working \cup Answers],
           asked' \in [Requests -> Asked],
           caller' \in [Requests -> Users \cup {NoUser}],
           target' \in [Requests -> Users \cup {NoUser}],
           gone' \in [Requests -> BOOLEAN],
           \A q \in Requests \ {r} :
              /\ phase'[q] = phase[q] /\ gone'[q] = gone[q] /\ asked'[q] = asked[q]
              /\ caller'[q] = caller[q] /\ target'[q] = target[q],
           caller'[r] \in {caller[r], NoUser} \cup users,
           target'[r] \in {target[r], NoUser} \cup users,
           Remembered(r)', Witnessed(r)', Resting(r)'
    PROVE  AccountsInv'
<1>1. UNCHANGED <<users, lastId>> /\ follows' \subseteq Follows /\ EdgesConnect' /\ OneEdgeEach'
  BY DEF AccountsInv, AccountsTypeOK, EdgesConnect, OneEdgeEach, tables
<1> QED BY <1>1, RequestStepKeeps

\* The end of a request that leaves the accounts alone.
LEMMA EndKeeps ==
    ASSUME AccountsInv, NEW r \in Requests, UNCHANGED <<users, lastId>>, NEW from,
           follows' \subseteq Follows, EdgesConnect', OneEdgeEach',
           NEW reply \in Answers, Ends(r, from, reply)
    PROVE  AccountsInv'
<1>1. AccountsTypeOK BY DEF AccountsInv
<1>2. reply \in Working \cup Answers /\ reply \notin Working
  BY DEF Working, Answers
<1>3. /\ phase' \in [Requests -> Working \cup Answers]
      /\ caller' \in [Requests -> Users \cup {NoUser}]
      /\ target' \in [Requests -> Users \cup {NoUser}]
      /\ gone' \in [Requests -> BOOLEAN]
      /\ asked' = asked
      /\ phase'[r] = reply /\ caller'[r] = NoUser /\ target'[r] = NoUser
      /\ \A q \in Requests \ {r} :
            /\ phase'[q] = phase[q] /\ gone'[q] = gone[q]
            /\ caller'[q] = caller[q] /\ target'[q] = target[q]
  BY <1>1, <1>2, EndsLeaves
<1>4. Remembered(r)' /\ Witnessed(r)' /\ Resting(r)'
  BY <1>2, <1>3 DEF Remembered, Witnessed, Working, Resting
<1>5. asked' \in [Requests -> Asked]
  BY <1>1, <1>3 DEF AccountsTypeOK
<1> QED BY <1>3, <1>4, <1>5, RequestStepKeeps
\* The end of a request that changes no table.
LEMMA QuietEnd ==
    ASSUME AccountsInv, NEW r \in Requests, UNCHANGED tables, NEW from,
           NEW reply \in Answers, Ends(r, from, reply)
    PROVE  AccountsInv'
<1>1. UNCHANGED <<users, lastId>> /\ follows' \subseteq Follows /\ EdgesConnect' /\ OneEdgeEach'
  BY DEF AccountsInv, AccountsTypeOK, EdgesConnect, OneEdgeEach, tables
<1> QED BY <1>1, EndKeeps
-----------------------------------------------------------------------------
(* Steps that read *)

LEMMA RequestKeeps ==
    ASSUME AccountsInv, NEW r \in Requests, NEW a \in Asked, Request(r, a)
    PROVE  AccountsInv'
<1> USE DEF Request
<1>1. AccountsTypeOK BY DEF AccountsInv
<1>2. FirstPhase(a.op) \in {"authenticating", "finding", "acting"}
      /\ (FirstPhase(a.op) = "authenticating" => a.op \in {"follow", "unfollow"})
      /\ (FirstPhase(a.op) = "finding" => a.op \in {"followers", "following"})
      /\ (FirstPhase(a.op) = "acting" => a.op = "register")
  <2>1. a.op \in Ops BY DEF Ops
  <2> QED BY <2>1 DEF FirstPhase, Ops
<1>3. /\ phase' \in [Requests -> Working \cup Answers]
      /\ phase'[r] = FirstPhase(a.op)
      /\ \A q \in Requests \ {r} : phase'[q] = phase[q]
  BY <1>1, <1>2 DEF AccountsTypeOK, Working
<1>4. /\ asked' \in [Requests -> Asked]
      /\ asked'[r] = a
      /\ \A q \in Requests \ {r} : asked'[q] = asked[q]
  BY <1>1 DEF AccountsTypeOK
<1>5. /\ gone' \in [Requests -> BOOLEAN]
      /\ gone'[r] = (~Holds(a.by) \/ ~Holds(a.name))
      /\ \A q \in Requests \ {r} : gone'[q] = gone[q]
  <2>1. gone' = [gone EXCEPT ![r] = ~Holds(a.by) \/ ~Holds(a.name)]
    OBVIOUS
  <2>2. gone \in [Requests -> BOOLEAN]
    BY <1>1 DEF AccountsTypeOK
  <2>3. (~Holds(a.by) \/ ~Holds(a.name)) \in BOOLEAN
    OBVIOUS
  <2> HIDE DEF Request
  <2> QED BY <2>1, <2>2, <2>3, Zenon
<1>6. UNCHANGED <<tables, caller, target>>
  OBVIOUS
<1>7. caller[r] = NoUser /\ target[r] = NoUser
  BY DEF AccountsInv, Resting
<1>8. Remembered(r)' /\ Witnessed(r)' /\ Resting(r)'
  <2>1. Remembered(r)' /\ Resting(r)'
    BY <1>2, <1>3, <1>4, <1>6, <1>7 DEF Remembered, Resting, Working
  <2>2. Witnessed(r)'
    BY <1>3, <1>4, <1>5, <1>6, <1>7 DEF Witnessed, Holds, tables
  <2> QED BY <2>1, <2>2
<1>9. caller \in [Requests -> Users \cup {NoUser}] /\ target \in [Requests -> Users \cup {NoUser}]
  BY <1>1 DEF AccountsTypeOK
<1> HIDE DEF Request
<1> QED BY <1>3, <1>4, <1>5, <1>6, <1>8, <1>9, LocalStep

LEMMA AuthenticateKeeps ==
    ASSUME AccountsInv, NEW r \in Requests, Authenticate(r)
    PROVE  AccountsInv'
<1> USE DEF Authenticate, Moves
<1>1. AccountsTypeOK BY DEF AccountsInv
<1>2. PICK u \in users : u.name = asked[r].by /\ caller' = [caller EXCEPT ![r] = u]
  OBVIOUS
<1>3. u \in Users /\ asked[r].op \in Ops
  BY <1>1 DEF AccountsTypeOK
<1>4. /\ phase' \in [Requests -> Working \cup Answers]
      /\ phase[r] = "authenticating" /\ phase'[r] = "finding"
      /\ \A q \in Requests \ {r} : phase'[q] = phase[q]
  BY <1>1 DEF AccountsTypeOK, Working
<1>5. /\ caller' \in [Requests -> Users \cup {NoUser}]
      /\ caller'[r] = u
      /\ \A q \in Requests \ {r} : caller'[q] = caller[q]
  BY <1>1, <1>2, <1>3 DEF AccountsTypeOK
<1>6. Remembered(r)' /\ Witnessed(r)' /\ Resting(r)'
  <2>1. Witnessed(r) /\ Remembered(r) BY DEF AccountsInv
  <2>2. u # NoUser BY <1>3
  <2> QED BY <1>2, <1>4, <1>5, <2>1, <2>2 DEF Remembered, Witnessed, Holds, tables, Working, Resting
<1>7. UNCHANGED <<tables, asked, target, gone>>
  OBVIOUS
<1>8. /\ asked \in [Requests -> Asked]
      /\ target \in [Requests -> Users \cup {NoUser}]
      /\ gone \in [Requests -> BOOLEAN]
  BY <1>1 DEF AccountsTypeOK
<1> HIDE DEF Authenticate
<1> QED BY <1>4, <1>5, <1>6, <1>7, <1>8, LocalStep

LEMMA FindKeeps ==
    ASSUME AccountsInv, NEW r \in Requests, Find(r)
    PROVE  AccountsInv'
<1> USE DEF Find, Moves
<1>1. AccountsTypeOK BY DEF AccountsInv
<1>2. PICK u \in users : u.name = asked[r].name /\ ~Self(r, u) /\ target' = [target EXCEPT ![r] = u]
  OBVIOUS
<1>3. u \in Users
  BY <1>1 DEF AccountsTypeOK
<1>4. /\ phase' \in [Requests -> Working \cup Answers]
      /\ phase[r] = "finding" /\ phase'[r] = "acting"
      /\ \A q \in Requests \ {r} : phase'[q] = phase[q]
  BY <1>1 DEF AccountsTypeOK, Working
<1>5. /\ target' \in [Requests -> Users \cup {NoUser}]
      /\ target'[r] = u
      /\ \A q \in Requests \ {r} : target'[q] = target[q]
  BY <1>1, <1>2, <1>3 DEF AccountsTypeOK
<1>6. Remembered(r)' /\ Witnessed(r)' /\ Resting(r)'
  <2>1. Witnessed(r) /\ Remembered(r) BY DEF AccountsInv
  <2>2. u # NoUser BY <1>3
  <2>3. asked[r].op = "follow" => u.id # caller[r].id
    BY <1>2 DEF Self
  <2> QED BY <1>2, <1>4, <1>5, <2>1, <2>2, <2>3 DEF Remembered, Witnessed, Holds, tables, Working, Resting
<1>7. UNCHANGED <<tables, asked, caller, gone>>
  OBVIOUS
<1>8. /\ asked \in [Requests -> Asked]
      /\ caller \in [Requests -> Users \cup {NoUser}]
      /\ gone \in [Requests -> BOOLEAN]
  BY <1>1 DEF AccountsTypeOK
<1> HIDE DEF Find
<1> QED BY <1>4, <1>5, <1>6, <1>7, <1>8, LocalStep

LEMMA ReadPageKeeps ==
    ASSUME AccountsInv, NEW r \in Requests, ReadPage(r)
    PROVE  AccountsInv'
<1>1. AccountsTypeOK /\ Witnessed(r) BY DEF AccountsInv
<1>2. /\ phase[r] = "acting" /\ asked[r].op \in {"followers", "following"}
      /\ UNCHANGED tables
      /\ Ends(r, "acting", "ok") \/ Ends(r, "acting", "finding")
  BY DEF ReadPage
<1>3. CASE Ends(r, "acting", "ok")
  BY <1>2, <1>3, QuietEnd DEF Answers
<1>4. CASE Ends(r, "acting", "finding")
  <2>1. "finding" \in Working \cup Answers /\ "finding" \in Working
    BY DEF Working
  <2>2. /\ phase' \in [Requests -> Working \cup Answers]
        /\ caller' \in [Requests -> Users \cup {NoUser}]
        /\ target' \in [Requests -> Users \cup {NoUser}]
        /\ gone' \in [Requests -> BOOLEAN]
        /\ asked' = asked
        /\ phase'[r] = "finding" /\ caller'[r] = NoUser /\ target'[r] = NoUser
        /\ gone'[r] = gone[r]
        /\ \A q \in Requests \ {r} :
              /\ phase'[q] = phase[q] /\ gone'[q] = gone[q]
              /\ caller'[q] = caller[q] /\ target'[q] = target[q]
    BY <1>1, <1>4, <2>1, EndsLeaves
  <2>3. Remembered(r)' /\ Resting(r)'
    BY <1>2, <2>1, <2>2 DEF Remembered, Resting
  <2>4. Witnessed(r)'
    BY <1>1, <1>2, <2>2 DEF Witnessed, Holds, Working, tables
  <2>5. asked' \in [Requests -> Asked]
    BY <1>1, <2>2 DEF AccountsTypeOK
  <2> QED BY <1>2, <2>2, <2>3, <2>4, <2>5, LocalStep
<1> QED BY <1>2, <1>3, <1>4
-----------------------------------------------------------------------------
(* Steps that write *)

LEMMA InsertFollowKeeps ==
    ASSUME AccountsInv, NEW r \in Requests, InsertFollow(r)
    PROVE  AccountsInv'
<1>1. AccountsTypeOK /\ EdgesConnect /\ OneEdgeEach /\ Remembered(r)
  BY DEF AccountsInv
<1>2. /\ phase[r] = "acting" /\ asked[r].op = "follow"
      /\ <<caller[r].id, target[r].id>> \notin Edges
      /\ caller[r] \in users /\ target[r] \in users
      /\ UNCHANGED <<users, lastId>>
      /\ Ends(r, "acting", "ok")
  BY DEF InsertFollow, Acts, Present
<1>3. PICK t \in Stamps :
        follows' = follows \cup {[follower |-> caller[r].id, followed |-> target[r].id, at |-> t]}
  BY DEF InsertFollow
<1> DEFINE f == [follower |-> caller[r].id, followed |-> target[r].id, at |-> t]
<1>4. f \in Follows /\ f.follower = caller[r].id /\ f.followed = target[r].id
  BY <1>1, <1>2 DEF AccountsTypeOK, Users, Follows
<1>5. caller[r].id # target[r].id
  BY <1>1, <1>2 DEF Remembered
<1>6. follows' = follows \cup {f}
  BY <1>3
<1>7. \A g \in follows : ~(g.follower = f.follower /\ g.followed = f.followed)
  BY <1>2, <1>4 DEF Edges
<1> HIDE DEF f
<1>8. follows' \subseteq Follows
  BY <1>1, <1>4, <1>6 DEF AccountsTypeOK
<1>9. EdgesConnect'
  BY <1>1, <1>2, <1>4, <1>5, <1>6 DEF EdgesConnect
<1>10. OneEdgeEach'
  BY <1>1, <1>6, <1>7 DEF OneEdgeEach
<1> QED BY <1>2, <1>8, <1>9, <1>10, EndKeeps DEF Answers

LEMMA DeleteFollowKeeps ==
    ASSUME AccountsInv, NEW r \in Requests, DeleteFollow(r)
    PROVE  AccountsInv'
<1>1. /\ UNCHANGED <<users, lastId>>
      /\ Ends(r, "acting", "ok")
      /\ follows' \subseteq follows
  BY DEF DeleteFollow
<1>2. follows' \subseteq Follows /\ EdgesConnect' /\ OneEdgeEach'
  BY <1>1 DEF AccountsInv, AccountsTypeOK, EdgesConnect, OneEdgeEach
<1> QED BY <1>1, <1>2, EndKeeps DEF Answers

LEMMA InsertUserKeeps ==
    ASSUME AccountsInv, NEW r \in Requests, InsertUser(r)
    PROVE  AccountsInv'
<1> DEFINE u == [id |-> lastId + 1, name |-> asked[r].name, email |-> asked[r].email]
<1>1. /\ AccountsTypeOK /\ OwnKeys /\ IdsGivenOnce /\ EdgesConnect
      /\ \A q \in Requests : Remembered(q) /\ Witnessed(q) /\ Resting(q)
  BY DEF AccountsInv
<1>2. /\ phase[r] = "acting" /\ asked[r].op = "register"
      /\ ~Taken(asked[r])
      /\ users' = users \cup {u} /\ lastId' = lastId + 1
      /\ phase' = [phase EXCEPT ![r] = "refreshing"]
      /\ target' = [target EXCEPT ![r] = u]
      /\ UNCHANGED <<follows, asked, caller, gone>>
  BY DEF InsertUser, Acts, Moves, NextId
<1>3. u \in Users /\ u.id = lastId + 1 /\ u.name = asked[r].name /\ u.email = asked[r].email /\ u # NoUser
  BY <1>1 DEF AccountsTypeOK, Users, Ids
<1> HIDE DEF u
<1>4. /\ phase' \in [Requests -> Working \cup Answers] /\ phase'[r] = "refreshing"
      /\ target' \in [Requests -> Users \cup {NoUser}] /\ target'[r] = u
      /\ \A q \in Requests \ {r} : phase'[q] = phase[q] /\ target'[q] = target[q]
  BY <1>1, <1>2, <1>3 DEF AccountsTypeOK, Working
<1>5. AccountsTypeOK'
  BY <1>1, <1>2, <1>3, <1>4 DEF AccountsTypeOK
<1>6. \A v \in users : v.id # u.id /\ v.name # u.name /\ v.email # u.email /\ v.id <= lastId /\ v.id \in Nat
  BY <1>1, <1>2, <1>3 DEF IdsGivenOnce, Taken, AccountsTypeOK, Users, Ids
<1>7. OwnKeys'
  BY <1>1, <1>2, <1>6 DEF OwnKeys
<1>8. IdsGivenOnce'
  <2>1. \A v \in users' : v.id <= lastId'
    BY <1>1, <1>2, <1>3, <1>6 DEF AccountsTypeOK
  <2>2. ASSUME NEW q \in Requests, NEW v \in {caller'[q], target'[q]} \ {NoUser}
        PROVE  v.id <= lastId' /\ \A w \in users' : w.id = v.id => w = v
    <3>1. CASE v = u
      BY <1>2, <1>3, <1>6, <3>1, <2>1
    <3>2. CASE v # u
      <4>1. v \in {caller[q], target[q]} \ {NoUser}
        BY <1>2, <1>4, <3>2
      <4>2. v \in Users /\ v.id \in Nat
        BY <1>1, <4>1 DEF AccountsTypeOK, Users, Ids
      <4>3. v.id <= lastId /\ \A w \in users : w.id = v.id => w = v
        BY <1>1, <4>1 DEF IdsGivenOnce
      <4>4. lastId \in Nat
        BY <1>1 DEF AccountsTypeOK
      <4> QED BY <1>2, <1>3, <4>2, <4>3, <4>4
    <3> QED BY <3>1, <3>2
  <2> QED BY <2>1, <2>2 DEF IdsGivenOnce
<1>9. EdgesConnect' /\ OneEdgeEach'
  BY <1>1, <1>2 DEF AccountsInv, EdgesConnect, OneEdgeEach
<1>10. ASSUME NEW q \in Requests PROVE Remembered(q)' /\ Witnessed(q)' /\ Resting(q)'
  <2>1. CASE q = r
    BY <1>1, <1>2, <1>3, <1>4, <2>1 DEF Remembered, Witnessed, Resting, Working
  <2>2. CASE q # r
    <3>1. /\ phase'[q] = phase[q] /\ target'[q] = target[q] /\ asked'[q] = asked[q]
          /\ caller'[q] = caller[q] /\ gone'[q] = gone[q]
      BY <1>2, <1>4, <2>2
    <3>2. \A n : Holds(n) => Holds(n)'
      BY <1>2 DEF Holds
    <3> QED BY <1>1, <1>2, <3>1, <3>2 DEF Remembered, Witnessed, Resting
  <2> QED BY <2>1, <2>2
<1> QED BY <1>5, <1>7, <1>8, <1>9, <1>10 DEF AccountsInv

LEMMA DeleteUserKeeps ==
    ASSUME AccountsInv, NEW u \in users, DeleteUser(u)
    PROVE  AccountsInv'
<1>1. /\ AccountsTypeOK /\ OwnKeys /\ IdsGivenOnce /\ EdgesConnect /\ OneEdgeEach
      /\ \A q \in Requests : Remembered(q) /\ Witnessed(q) /\ Resting(q)
  BY DEF AccountsInv
<1>2. /\ users' = users \ {u} /\ UNCHANGED <<lastId, phase, asked, caller, target>>
      /\ follows' = {f \in follows : u.id \notin {f.follower, f.followed}}
      /\ gone' = [r \in Requests |->
                    gone[r] \/ (phase[r] \in Working /\ u.name \in {asked[r].by, asked[r].name})]
  BY DEF DeleteUser, request
<1>3. gone' \in [Requests -> BOOLEAN]
  BY <1>1, <1>2, Zenon DEF AccountsTypeOK
<1>4. AccountsTypeOK'
  BY <1>1, <1>2, <1>3 DEF AccountsTypeOK
<1>5. OwnKeys' /\ IdsGivenOnce' /\ OneEdgeEach'
  BY <1>1, <1>2 DEF OwnKeys, IdsGivenOnce, OneEdgeEach
<1>6. EdgesConnect'
  BY <1>1, <1>2 DEF EdgesConnect
<1>7. ASSUME NEW q \in Requests PROVE Remembered(q)' /\ Witnessed(q)' /\ Resting(q)'
  <2>1. Remembered(q)' /\ Resting(q)'
    BY <1>1, <1>2 DEF Remembered, Resting
  <2>2. ASSUME phase[q] \in Working, ~gone'[q], asked[q].op # "register"
        PROVE  /\ Holds(asked[q].by)' /\ Holds(asked[q].name)'
               /\ {caller[q], target[q]} \subseteq users' \cup {NoUser}
    <3>1. ~gone[q] /\ u.name # asked[q].by /\ u.name # asked[q].name
      BY <1>2, <2>2
    <3>2. /\ Holds(asked[q].by) /\ Holds(asked[q].name)
          /\ {caller[q], target[q]} \subseteq users \cup {NoUser}
      BY <1>1, <2>2, <3>1 DEF Witnessed
    <3>3. Holds(asked[q].by)' /\ Holds(asked[q].name)'
      BY <1>2, <3>1, <3>2 DEF Holds
    <3>4. caller[q] # u /\ target[q] # u
      BY <1>1, <3>1 DEF Remembered, AccountsTypeOK
    <3> QED BY <1>2, <3>2, <3>3, <3>4
  <2> QED BY <1>2, <2>1, <2>2 DEF Witnessed
<1> QED BY <1>4, <1>5, <1>6, <1>7 DEF AccountsInv

LEMMA RequestStepInvariant ==
    ASSUME AccountsInv, NEW r \in Requests, RequestStep(r)
    PROVE  AccountsInv'
<1>1. CASE \E a \in Asked : Request(r, a)
  BY <1>1, RequestKeeps
<1>2. CASE Authenticate(r) \/ Find(r) \/ ReadPage(r)
  BY <1>2, AuthenticateKeeps, FindKeeps, ReadPageKeeps
<1>3. CASE AuthenticateFails(r) \/ FindSelf(r) \/ FindFails(r)
  BY <1>3, QuietEnd DEF AuthenticateFails, FindSelf, FindFails, Answers
<1>4. CASE InsertDuplicate(r) \/ InsertOrphaned(r) \/ InsertConflict(r)
  BY <1>4, QuietEnd DEF InsertDuplicate, InsertOrphaned, InsertConflict, Answers
<1>5. CASE Refresh(r)
  BY <1>5, QuietEnd DEF Refresh, Answers
<1>6. CASE InsertFollow(r) \/ DeleteFollow(r) \/ InsertUser(r)
  BY <1>6, InsertFollowKeeps, DeleteFollowKeeps, InsertUserKeeps
<1> QED BY <1>1, <1>2, <1>3, <1>4, <1>5, <1>6 DEF RequestStep

LEMMA InitHolds ==
    ASSUME AccountsInit
    PROVE  AccountsInv
<1> USE DEF AccountsInit
<1>1. PICK a \in Asked : asked = [r \in Requests |-> a]
  OBVIOUS
<1>2. phase \in [Requests -> Working \cup Answers] /\ \A r \in Requests : phase[r] = "ok"
  BY DEF Answers
<1>3. AccountsTypeOK
  BY <1>1, <1>2 DEF AccountsTypeOK
<1>4. OwnKeys /\ IdsGivenOnce /\ EdgesConnect /\ OneEdgeEach
  BY DEF OwnKeys, IdsGivenOnce, EdgesConnect, OneEdgeEach
<1>5. ASSUME NEW r \in Requests PROVE Remembered(r) /\ Witnessed(r) /\ Resting(r)
  <2>1. caller[r] = NoUser /\ target[r] = NoUser /\ phase[r] \notin Working
    BY <1>2 DEF Working
  <2> QED BY <1>2, <2>1 DEF Remembered, Witnessed, Resting
<1> QED BY <1>3, <1>4, <1>5 DEF AccountsInv

\* The tables and what requests remember of them stay right, in every behaviour.
THEOREM AccountsInvariant == AccountsSpec => []AccountsInv
<1>1. AccountsInv /\ [AccountsNext]_accountsVars => AccountsInv'
  <2> SUFFICES ASSUME AccountsInv, [AccountsNext]_accountsVars
               PROVE  AccountsInv'
    OBVIOUS
  <2>1. CASE \E r \in Requests : RequestStep(r)
    BY <2>1, RequestStepInvariant
  <2>2. CASE \E u \in users : DeleteUser(u)
    BY <2>2, DeleteUserKeeps
  <2>3. CASE UNCHANGED accountsVars
    BY <2>3 DEF accountsVars, tables, request, AccountsInv, AccountsTypeOK, OwnKeys, IdsGivenOnce,
                EdgesConnect, OneEdgeEach, Remembered, Witnessed, Resting, Holds
  <2> QED BY <2>1, <2>2, <2>3 DEF AccountsNext
<1> QED BY <1>1, InitHolds, PTL DEF AccountsSpec
-----------------------------------------------------------------------------
(* The answers *)

LEMMA OthersUnanswered ==
    ASSUME AccountsInv, NEW q \in Requests, RequestStep(q), NEW r \in Requests, r # q
    PROVE  phase'[r] = phase[r] /\ asked'[r] = asked[r]
<1>1. phase \in [Requests -> Working \cup Answers] /\ asked \in [Requests -> Asked]
  BY DEF AccountsInv, AccountsTypeOK
<1>2. CASE \E a \in Asked : Request(q, a)
  BY <1>1, <1>2 DEF Request
<1>3. CASE Authenticate(q) \/ Find(q) \/ InsertUser(q)
  BY <1>1, <1>3 DEF Authenticate, Find, InsertUser, Moves
<1>4. CASE \E from, reply : Ends(q, from, reply)
  BY <1>1, <1>4 DEF Ends, Moves
<1>5. CASE AuthenticateFails(q) \/ FindSelf(q) \/ FindFails(q)
  BY <1>4, <1>5 DEF AuthenticateFails, FindSelf, FindFails
<1>6. CASE InsertFollow(q) \/ InsertDuplicate(q) \/ InsertOrphaned(q) \/ DeleteFollow(q)
  BY <1>4, <1>6 DEF InsertFollow, InsertDuplicate, InsertOrphaned, DeleteFollow
<1>7. CASE InsertConflict(q) \/ Refresh(q) \/ ReadPage(q)
  BY <1>4, <1>7 DEF InsertConflict, Refresh, ReadPage
<1> QED BY <1>2, <1>3, <1>5, <1>6, <1>7 DEF RequestStep

\* The two accounts of a follow, seen through their names.
LEMMA FollowingOf ==
    ASSUME AccountsInv, NEW r \in Requests, Acts(r, "follow") \/ Acts(r, "unfollow")
    PROVE  /\ caller[r].name = asked[r].by /\ target[r].name = asked[r].name
           /\ caller[r] \in Users /\ target[r] \in Users
           /\ gone[r] \/ (caller[r] \in users /\ target[r] \in users)
           /\ caller[r] \in users /\ target[r] \in users /\ <<caller[r].id, target[r].id>> \in Edges
              => Following(asked[r].by, asked[r].name)
<1>1. AccountsTypeOK /\ Remembered(r) /\ Witnessed(r)
  BY DEF AccountsInv
<1>2. caller[r] # NoUser /\ target[r] # NoUser
      /\ caller[r].name = asked[r].by /\ target[r].name = asked[r].name
  BY <1>1 DEF Acts, Remembered
<1>3. gone[r] \/ (caller[r] \in users /\ target[r] \in users)
  BY <1>1, <1>2 DEF Witnessed, Acts, Working
<1> QED BY <1>1, <1>2, <1>3 DEF AccountsTypeOK, Following

\* An edge of the table has accounts at both ends.
LEMMA EdgeHasAccounts ==
    ASSUME AccountsInv, NEW u \in Users, NEW v \in Users, <<u.id, v.id>> \in Edges
    PROVE  \E a, b \in users : a.id = u.id /\ b.id = v.id
BY DEF AccountsInv, EdgesConnect, Edges

LEMMA FollowAnswersTrue ==
    ASSUME AccountsInv, NEW r \in Requests,
           InsertFollow(r) \/ InsertDuplicate(r) \/ InsertOrphaned(r) \/ DeleteFollow(r)
    PROVE  TrueAnswer(r)
<1> DEFINE c == caller[r]
           t == target[r]
<1>1. /\ AccountsTypeOK /\ OwnKeys /\ IdsGivenOnce /\ EdgesConnect
      /\ phase \in [Requests -> Working \cup Answers]
  BY DEF AccountsInv, AccountsTypeOK
<1>2. /\ c.name = asked[r].by /\ t.name = asked[r].name /\ c \in Users /\ t \in Users
      /\ gone[r] \/ (c \in users /\ t \in users)
      /\ c \in users /\ t \in users /\ <<c.id, t.id>> \in Edges => Following(asked[r].by, asked[r].name)
  BY FollowingOf DEF InsertFollow, InsertDuplicate, InsertOrphaned, DeleteFollow
<1>3. c # NoUser /\ t # NoUser
  BY <1>2
<1>4. CASE InsertFollow(r)
  <2>1. /\ asked[r].op = "follow" /\ phase'[r] = "ok" /\ users' = users
        /\ c \in users /\ t \in users
    BY <1>1, <1>4 DEF InsertFollow, Acts, Ends, Moves, Present
  <2>2. PICK s \in Stamps : follows' = follows \cup {[follower |-> c.id, followed |-> t.id, at |-> s]}
    BY <1>4 DEF InsertFollow
  <2>3. <<c.id, t.id>> \in Edges'
    BY <2>2 DEF Edges
  <2>4. Following(asked[r].by, asked[r].name)'
    <3>1. \E u, v \in users' : u.name = asked[r].by /\ v.name = asked[r].name /\ <<u.id, v.id>> \in Edges'
      BY <1>2, <2>1, <2>3
    <3>2. asked' = asked
      BY <1>4 DEF InsertFollow, Ends
    <3> QED BY <3>1, <3>2 DEF Following
  <2> QED BY <2>1, <2>4 DEF TrueAnswer
<1>5. CASE InsertDuplicate(r)
  <2>1. /\ asked[r].op = "follow" /\ phase'[r] = "ok" /\ asked' = asked
        /\ users' = users /\ follows' = follows /\ <<c.id, t.id>> \in Edges
    BY <1>1, <1>5 DEF InsertDuplicate, Acts, Ends, Moves, tables
  <2>2. \E a, b \in users : a.id = c.id /\ b.id = t.id
    BY <1>2, <2>1, EdgeHasAccounts
  <2>3. c \in users /\ t \in users
    BY <1>1, <1>3, <2>2 DEF IdsGivenOnce
  <2>4. Following(asked[r].by, asked[r].name)'
    BY <1>2, <2>1, <2>3 DEF Following, Edges
  <2> QED BY <2>1, <2>4 DEF TrueAnswer
<1>6. CASE InsertOrphaned(r)
  <2>1. /\ phase'[r] = "unknown" /\ ~(c \in users /\ t \in users)
    BY <1>1, <1>6 DEF InsertOrphaned, Ends, Moves, Present
  <2> QED BY <1>2, <2>1 DEF TrueAnswer
<1>7. CASE DeleteFollow(r)
  <2>1. /\ asked[r].op = "unfollow" /\ phase'[r] = "ok" /\ asked' = asked /\ users' = users
        /\ follows' = {f \in follows : <<f.follower, f.followed>> # <<c.id, t.id>>}
    BY <1>1, <1>7 DEF DeleteFollow, Acts, Ends, Moves
  <2>2. CASE gone[r]
    BY <2>1, <2>2 DEF TrueAnswer
  <2>3. CASE c \in users /\ t \in users
    <3>1. ASSUME NEW u \in users, NEW v \in users, u.name = asked[r].by, v.name = asked[r].name
          PROVE  <<u.id, v.id>> \notin Edges'
      <4>1. u = c /\ v = t
        BY <1>1, <1>2, <2>3, <3>1 DEF OwnKeys
      <4> QED BY <2>1, <4>1 DEF Edges
    <3>2. ~Following(asked[r].by, asked[r].name)'
      BY <2>1, <3>1 DEF Following
    <3> QED BY <2>1, <3>2 DEF TrueAnswer
  <2> QED BY <1>2, <2>2, <2>3
<1> QED BY <1>4, <1>5, <1>6, <1>7

LEMMA OtherAnswersTrue ==
    ASSUME AccountsInv, NEW r \in Requests, RequestStep(r),
           ~(InsertFollow(r) \/ InsertDuplicate(r) \/ InsertOrphaned(r) \/ DeleteFollow(r))
    PROVE  TrueAnswer(r)
<1>1. /\ AccountsTypeOK /\ OwnKeys /\ IdsGivenOnce
      /\ Remembered(r) /\ Witnessed(r)
      /\ phase \in [Requests -> Working \cup Answers]
  BY DEF AccountsInv, AccountsTypeOK
<1>2. Working \cap Answers = {}
  BY DEF Working, Answers
<1>3. asked[r].op \in Ops
  BY <1>1 DEF AccountsTypeOK
<1>4. CASE \E a \in Asked : Request(r, a)
  BY <1>4 DEF Request, TrueAnswer
<1>5. CASE Authenticate(r) \/ Find(r) \/ InsertUser(r)
  BY <1>1, <1>2, <1>5 DEF Authenticate, Find, InsertUser, Moves, TrueAnswer, Working
<1>6. CASE AuthenticateFails(r)
  <2>1. phase[r] = "authenticating" /\ phase'[r] = "denied" /\ ~Holds(asked[r].by)
    BY <1>1, <1>6 DEF AuthenticateFails, Ends, Moves
  <2>2. asked[r].op # "register" => gone[r]
    BY <1>1, <2>1 DEF Witnessed, Working
  <2> QED BY <1>1, <2>1, <2>2 DEF TrueAnswer, Remembered
<1>7. CASE FindSelf(r)
  <2>1. phase[r] = "finding" /\ phase'[r] = "denied" /\ asked[r].op = "follow"
    BY <1>1, <1>7 DEF FindSelf, Ends, Moves, Self
  <2>2. PICK u \in users : u.name = asked[r].name /\ u.id = caller[r].id
    BY <1>7 DEF FindSelf, Self
  <2>3. caller[r] # NoUser /\ caller[r].name = asked[r].by
    BY <1>1, <2>1 DEF Remembered
  <2>4. u = caller[r]
    BY <1>1, <2>2, <2>3 DEF IdsGivenOnce
  <2> QED BY <2>1, <2>2, <2>3, <2>4 DEF TrueAnswer
<1>8. CASE FindFails(r)
  <2>1. phase[r] = "finding" /\ phase'[r] = "unknown" /\ ~Holds(asked[r].name)
    BY <1>1, <1>8 DEF FindFails, Ends, Moves
  <2>2. gone[r]
    BY <1>1, <2>1 DEF Witnessed, Working, Remembered
  <2> QED BY <2>1, <2>2 DEF TrueAnswer
<1>9. CASE InsertConflict(r)
  BY <1>1, <1>9 DEF InsertConflict, Ends, Moves, TrueAnswer
<1>10. CASE Refresh(r)
  <2>1. /\ phase[r] = "refreshing" /\ phase'[r] = IF target[r] \in users THEN "ok" ELSE "error"
        /\ users' = users /\ asked' = asked
    BY <1>1, <1>10 DEF Refresh, Ends, Moves, Present, tables
  <2>2. asked[r].op = "register" /\ target[r].name = asked[r].name
    BY <1>1, <2>1 DEF Remembered
  <2> QED BY <2>1, <2>2 DEF TrueAnswer, Holds
<1>11. CASE ReadPage(r)
  <2>1. asked[r].op \in {"followers", "following"} /\ phase'[r] \in {"ok", "finding"}
    BY <1>1, <1>11 DEF ReadPage, Ends, Moves
  <2> QED BY <2>1 DEF TrueAnswer
<1> QED BY <1>4, <1>5, <1>6, <1>7, <1>8, <1>9, <1>10, <1>11 DEF RequestStep

\* What a client is told was true, in every behaviour.
THEOREM AccountsAnswersAreTrue == AccountsSpec => AnswersAreTrue
<1>1. AccountsInv /\ [AccountsNext]_accountsVars
      => [\A r \in Requests : TrueAnswer(r)]_accountsVars
  <2> SUFFICES ASSUME AccountsInv, AccountsNext, NEW r \in Requests
               PROVE  TrueAnswer(r)
    OBVIOUS
  <2>1. Working \cap Answers = {}
    BY DEF Working, Answers
  <2>2. CASE RequestStep(r)
    BY <2>2, FollowAnswersTrue, OtherAnswersTrue
  <2>3. CASE \E q \in Requests \ {r} : RequestStep(q)
    BY <2>1, <2>3, OthersUnanswered DEF TrueAnswer
  <2>4. CASE \E u \in users : DeleteUser(u)
    BY <2>1, <2>4 DEF DeleteUser, request, TrueAnswer
  <2> QED BY <2>2, <2>3, <2>4 DEF AccountsNext
<1> QED BY <1>1, AccountsInvariant, PTL DEF AccountsSpec, AnswersAreTrue
-----------------------------------------------------------------------------
(* The abstract graph *)

LEMMA GraphInitHolds ==
    ASSUME AccountsInit
    PROVE  Graph!GraphInit
BY DEF AccountsInit, Graph!GraphInit, Edges

\* Each step of the service is a step of the graph, or none.
LEMMA InsertFollowConnects ==
    ASSUME AccountsInv, NEW r \in Requests, InsertFollow(r)
    PROVE  Graph!GraphNext
<1> DEFINE c == caller[r]
           t == target[r]
<1>1. /\ phase[r] = "acting" /\ asked[r].op = "follow"
      /\ c \in users /\ t \in users /\ UNCHANGED <<users, lastId>>
  BY DEF InsertFollow, Acts, Present
<1>2. PICK s \in Stamps : follows' = follows \cup {[follower |-> c.id, followed |-> t.id, at |-> s]}
  BY DEF InsertFollow
<1>3. Edges' = Edges \cup {<<c.id, t.id>>}
  <2> DEFINE f == [follower |-> c.id, followed |-> t.id, at |-> s]
             Pair(g) == <<g.follower, g.followed>>
  <2>1. Pair(f) = <<c.id, t.id>> /\ follows' = follows \cup {f}
    BY <1>2
  <2>2. Edges = {Pair(g) : g \in follows} /\ Edges' = {Pair(g) : g \in follows'}
    BY DEF Edges
  <2> HIDE DEF f, Pair
  <2>3. \A e \in Edges' : e \in Edges \cup {Pair(f)}
    BY <2>1, <2>2
  <2>4. \A e \in Edges \cup {Pair(f)} : e \in Edges'
    BY <2>1, <2>2
  <2> QED BY <2>1, <2>3, <2>4
<1>4. c # t
  BY <1>1 DEF AccountsInv, Remembered
<1>5. Graph!Connect(c, t)
  BY <1>1, <1>3, <1>4 DEF Graph!Connect
<1> QED BY <1>1, <1>5 DEF Graph!GraphNext

LEMMA DeleteFollowDisconnects ==
    ASSUME AccountsInv, NEW r \in Requests, DeleteFollow(r)
    PROVE  Graph!GraphNext \/ UNCHANGED Graph!graphVars
<1> DEFINE c == caller[r]
           t == target[r]
<1>1. /\ UNCHANGED <<users, lastId>>
      /\ follows' = {f \in follows : <<f.follower, f.followed>> # <<c.id, t.id>>}
  BY DEF DeleteFollow
<1>2. Edges' = Edges \ {<<c.id, t.id>>}
  BY <1>1 DEF Edges
<1>3. c \in Users /\ t \in Users
  BY FollowingOf DEF DeleteFollow
<1>4. CASE <<c.id, t.id>> \in Edges
  <2>1. PICK a, b \in users : a.id = c.id /\ b.id = t.id
    BY <1>3, <1>4, EdgeHasAccounts
  <2>2. Graph!Disconnect(a, b)
    BY <1>1, <1>2, <2>1 DEF Graph!Disconnect
  <2> QED BY <2>2 DEF Graph!GraphNext
<1>5. CASE <<c.id, t.id>> \notin Edges
  BY <1>1, <1>2, <1>5 DEF Graph!graphVars
<1> QED BY <1>4, <1>5

LEMMA InsertUserJoins ==
    ASSUME AccountsInv, NEW r \in Requests, InsertUser(r)
    PROVE  Graph!GraphNext
<1> DEFINE u == [id |-> lastId + 1, name |-> asked[r].name, email |-> asked[r].email]
<1>1. /\ ~Taken(asked[r]) /\ users' = users \cup {u} /\ lastId' = lastId + 1 /\ follows' = follows
  BY DEF InsertUser, NextId
<1>2. /\ \A b \in users : u.name # b.name /\ u.email # b.email
      /\ lastId \in Nat
  BY <1>1 DEF Taken, AccountsInv, AccountsTypeOK
<1>3. u \in users' \ users
  BY <1>1, <1>2
<1>4. Edges' = Edges
  BY <1>1 DEF Edges
<1>5. Graph!Join
  BY <1>1, <1>2, <1>3, <1>4 DEF Graph!Join
<1> QED BY <1>5 DEF Graph!GraphNext

LEMMA DeleteUserGoesAway ==
    ASSUME AccountsInv, NEW u \in users, DeleteUser(u)
    PROVE  Graph!GraphNext
<1>1. /\ users' = users \ {u} /\ lastId' = lastId
      /\ follows' = {f \in follows : u.id \notin {f.follower, f.followed}}
  BY DEF DeleteUser
<1>2. Edges' = {e \in Edges : u.id \notin {e[1], e[2]}}
  BY <1>1 DEF Edges
<1>3. Graph!GoAway(u)
  BY <1>1, <1>2 DEF Graph!GoAway
<1> QED BY <1>3 DEF Graph!GraphNext

LEMMA OtherStepsStutter ==
    ASSUME NEW r \in Requests, RequestStep(r),
           ~(InsertFollow(r) \/ DeleteFollow(r) \/ InsertUser(r))
    PROVE  UNCHANGED Graph!graphVars
<1>1. UNCHANGED tables
  BY DEF RequestStep, Request, Authenticate, AuthenticateFails, Find, FindSelf, FindFails,
         InsertDuplicate, InsertOrphaned, InsertConflict, Refresh, ReadPage
<1> QED BY <1>1 DEF tables, Graph!graphVars, Edges

\* Accounts and follows change as the abstract graph does.
THEOREM AccountsImplementGraph == AccountsSpec => ImplementsSocialGraph
<1>1. AccountsInv /\ [AccountsNext]_accountsVars => [Graph!GraphNext]_(Graph!graphVars)
  <2> SUFFICES ASSUME AccountsInv, [AccountsNext]_accountsVars
               PROVE  Graph!GraphNext \/ UNCHANGED Graph!graphVars
    OBVIOUS
  <2>1. CASE \E r \in Requests : RequestStep(r)
    BY <2>1, InsertFollowConnects, DeleteFollowDisconnects, InsertUserJoins, OtherStepsStutter
  <2>2. CASE \E u \in users : DeleteUser(u)
    BY <2>2, DeleteUserGoesAway
  <2>3. CASE UNCHANGED accountsVars
    BY <2>3 DEF accountsVars, tables, Graph!graphVars, Edges
  <2> QED BY <2>1, <2>2, <2>3 DEF AccountsNext
<1> QED BY <1>1, GraphInitHolds, AccountsInvariant, PTL DEF AccountsSpec, ImplementsSocialGraph, Graph!GraphSpec
-----------------------------------------------------------------------------
(* The listings under way *)

Lists(r) == asked[r].op \in {"followers", "following"}

Seen(r) == {listed[r][i] : i \in DOMAIN listed[r]}

\* What a listing misses for good once it is over.
Missed(r) == {f \in steady[r] \ Seen(r) :
                \E u \in users : u.id = Owner(asked[r].op, f) /\ u.name = asked[r].name}

\* Of what was there all the time and lies before the end of the last page, the
\* client lacks no more than were moved there by what went.
Caught(r) ==
    /\ steady[r] \subseteq follows
    /\ Cardinality((steady[r] \cap Passed(r, follows)) \ Seen(r)) <= skipped[r]

\* Before any follow there lie, of those passed, no more than the client has
\* seen before it and came in there.
Charted(r) ==
    \A x \in Follows : Cardinality(Before(asked[r].op, Passed(r, follows), x))
                          <= shifted[r] + Cardinality(Before(asked[r].op, Seen(r), x))

\* Whoever holds the name after the user that was found brings no follows that
\* were there all the time.
NoHeir(r) ==
    \A u \in users : u.name = asked[r].name /\ u # target[r]
        => \A f \in steady[r] : Owner(asked[r].op, f) # u.id

ListingOf(r) ==
    /\ ~Lists(r) => listed[r] = <<>> /\ steady[r] = {}
    /\ IsFiniteSet(steady[r])
    /\ \A f \in steady[r] : f.follower <= lastId /\ f.followed <= lastId
    /\ Len(listed[r]) <= shifted[r] + Cardinality(Seen(r))
    /\ phase[r] \in Working => Caught(r) /\ Charted(r)
    /\ phase[r] = "acting" /\ Lists(r) => NoHeir(r)
    /\ phase[r] = "ok" => Cardinality(Missed(r)) <= skipped[r]

ListingInv == ListingTypeOK /\ IsFiniteSet(follows) /\ \A r \in Requests : ListingOf(r)

LEMMA FollowsTidy ==
    ASSUME AccountsInv, IsFiniteSet(follows), NEW op
    PROVE  Tidy(op, follows)
<1>1. follows \subseteq Follows /\ OneEdgeEach
  BY DEF AccountsInv, AccountsTypeOK
<1> QED
  BY <1>1 DEF Tidy, OneEdgeEach, Owner, Other

\* Passed follows are the first ones of the present holder of the name.
LEMMA PassedPart ==
    ASSUME AccountsInv, ListingTypeOK, NEW r \in Requests, NEW all, IsFiniteSet(all)
    PROVE  /\ ~Lists(r) \/ ~Holds(asked[r].name) => Passed(r, all) = {}
           /\ Lists(r) => \A u \in users : u.name = asked[r].name
                => Passed(r, all) = Part(asked[r].op, all, u.id, 0, Len(listed[r]))
<1>1. ~Lists(r) \/ ~Holds(asked[r].name) => Passed(r, all) = {}
  BY DEF Passed, Lists, Holds
<1>2. ASSUME Lists(r), NEW u \in users, u.name = asked[r].name
      PROVE  Passed(r, all) = Part(asked[r].op, all, u.id, 0, Len(listed[r]))
  <2>1. \A v \in users : v.name = asked[r].name => v = u
    BY <1>2 DEF AccountsInv, OwnKeys
  <2>2. Len(listed[r]) \in Nat
    BY DEF ListingTypeOK
  <2>3. \A f \in all : Offset(asked[r].op, f, all) >= 0
                       /\ Offset(asked[r].op, f, all) \in Nat
    BY OffsetType
  <2>4. Passed(r, all) = {f \in all : /\ Owner(asked[r].op, f) = u.id
                                      /\ Offset(asked[r].op, f, all) < Len(listed[r])}
    BY <1>2, <2>1 DEF Passed, Lists
  <2> QED
    BY <2>2, <2>3, <2>4 DEF Part
<1> QED
  BY <1>1, <1>2

LEMMA PassedFinite ==
    ASSUME NEW r, NEW all, IsFiniteSet(all)
    PROVE  IsFiniteSet(Passed(r, all)) /\ Passed(r, all) \subseteq all
<1>1. Passed(r, all) \subseteq all
  BY DEF Passed
<1> QED
  BY <1>1, FS_Subset

LEMMA SeenType ==
    ASSUME ListingTypeOK, NEW r \in Requests
    PROVE  IsFiniteSet(Seen(r)) /\ Seen(r) \subseteq Follows /\ Cardinality(Seen(r)) \in Nat
<1> DEFINE l == listed[r]
           n == Len(l)
           S == Seen(r)
<1>1. l \in Seq(Follows) /\ n \in Nat /\ DOMAIN l = 1..n
  BY DEF ListingTypeOK
<1>2. l \in Surjection(1..n, S)
  BY <1>1 DEF Surjection, Seen
<1>3. IsFiniteSet(1..n)
  BY <1>1, FS_Interval
<1>4. IsFiniteSet(S)
  BY <1>2, <1>3, FS_Surjection
<1> QED
  BY <1>1, <1>4, FS_CardinalityType DEF Seen

\* Nothing changes for a listing whose request, follows and users stay.
LEMMA ListingStays ==
    ASSUME AccountsInv, ListingInv, NEW r \in Requests, UNCHANGED <<users, follows, lastId>>,
           asked'[r] = asked[r], listed'[r] = listed[r], steady'[r] = steady[r],
           skipped'[r] = skipped[r], shifted'[r] = shifted[r],
           phase'[r] \in Working => phase[r] \in Working,
           phase'[r] = "ok" => phase[r] = "ok" \/ ~Lists(r),
           phase'[r] = "acting" /\ Lists(r)
             => (phase[r] = "acting" /\ target'[r] = target[r])
                \/ (target'[r] \in users /\ target'[r].name = asked[r].name)
    PROVE  ListingOf(r)'
<1>1. ListingOf(r)
  BY DEF ListingInv
<1>2. /\ Lists(r)' = Lists(r) /\ Seen(r)' = Seen(r) /\ Missed(r)' = Missed(r)
      /\ Passed(r, follows)' = Passed(r, follows)
  BY DEF Lists, Seen, Missed, Passed
<1>3. (phase[r] \in Working => Caught(r) /\ Charted(r)) =>
        (phase'[r] \in Working => Caught(r)' /\ Charted(r)')
  BY <1>2 DEF Caught, Charted
<1>4. phase'[r] = "acting" /\ Lists(r)' => NoHeir(r)'
  <2> SUFFICES ASSUME phase'[r] = "acting", Lists(r)
               PROVE  NoHeir(r)'
    BY <1>2
  <2>1. CASE phase[r] = "acting" /\ target'[r] = target[r]
    BY <1>1, <2>1 DEF ListingOf, NoHeir
  <2>2. CASE target'[r] \in users /\ target'[r].name = asked[r].name
    BY <2>2 DEF NoHeir, AccountsInv, OwnKeys
  <2> QED
    BY <2>1, <2>2
<1>5. phase'[r] = "ok" => Cardinality(Missed(r)) <= skipped[r]
  <2>1. CASE ~Lists(r)
    <3>1. Missed(r) = {}
      BY <1>1, <2>1 DEF Missed, ListingOf
    <3>2. Cardinality(Missed(r)) = 0 /\ skipped[r] \in Nat
      BY <3>1, FS_EmptySet DEF ListingInv, ListingTypeOK
    <3> QED
      BY <3>2
  <2>2. CASE Lists(r)
    BY <1>1, <2>2 DEF ListingOf
  <2> QED
    BY <2>1, <2>2
<1> QED
  BY <1>1, <1>2, <1>3, <1>4, <1>5 DEF ListingOf

LEMMA AllListingsStay ==
    ASSUME AccountsInv, ListingInv, UNCHANGED <<tables, asked, listing>>,
           \A r \in Requests :
             /\ phase'[r] \in Working => phase[r] \in Working
             /\ phase'[r] = "ok" => phase[r] = "ok" \/ ~Lists(r)
             /\ phase'[r] = "acting" /\ Lists(r)
                  => (phase[r] = "acting" /\ target'[r] = target[r])
                     \/ (target'[r] \in users /\ target'[r].name = asked[r].name)
    PROVE  ListingInv'
<1>1. ListingTypeOK' /\ IsFiniteSet(follows)'
  BY DEF ListingInv, ListingTypeOK, listing, tables
<1>2. ASSUME NEW r \in Requests PROVE ListingOf(r)'
  BY ListingStays DEF tables, listing
<1> QED
  BY <1>1, <1>2 DEF ListingInv

\* How the passed follows change with the table.
LEMMA PassedMoves ==
    ASSUME AccountsInv, ListingInv, NEW r \in Requests,
           NEW T, follows \subseteq T \/ T \subseteq follows, \A op : Tidy(op, T)
    PROVE  LET P == Passed(r, follows)
               Q == Passed(r, T)
           IN  /\ Cardinality((Q \cap follows) \ P) <= Cardinality(P \ T)
               /\ \A x \in Follows : Cardinality(Before(asked[r].op, Q, x))
                    <= Cardinality(Before(asked[r].op, P, x)) + Cardinality(Q \ follows)
<1> DEFINE P == Passed(r, follows)
           Q == Passed(r, T)
           op == asked[r].op
<1>1. IsFiniteSet(T) /\ IsFiniteSet(follows) /\ Tidy(op, T) /\ Tidy(op, follows)
  BY FollowsTidy DEF ListingInv, Tidy
<1>2. IsFiniteSet(P) /\ IsFiniteSet(Q) /\ P \subseteq follows /\ Q \subseteq T
  BY <1>1, PassedFinite
<1>3. \A x : /\ IsFiniteSet(Before(op, P, x)) /\ Cardinality(Before(op, P, x)) \in Nat
             /\ IsFiniteSet(Before(op, Q, x)) /\ Cardinality(Before(op, Q, x)) \in Nat
  <2> HIDE DEF P, Q, op
  <2> QED
    BY <1>2, OffsetType, FS_CardinalityType
<1>4. /\ IsFiniteSet(P \ T) /\ Cardinality(P \ T) \in Nat
      /\ IsFiniteSet(Q \ follows) /\ Cardinality(Q \ follows) \in Nat
  <2> HIDE DEF P, Q
  <2> QED
    BY <1>2, FS_Subset, FS_CardinalityType
<1>5. CASE ~Lists(r) \/ ~Holds(asked[r].name)
  <2>1. P = {} /\ Q = {}
    BY <1>1, <1>5, PassedPart DEF ListingInv
  <2> DEFINE M == (Q \cap follows) \ P
             went == Cardinality(P \ T)
             come == Cardinality(Q \ follows)
  <2>2. M = {} /\ \A x : Before(op, Q, x) = {}
    BY <2>1 DEF Before
  <2>3. Cardinality({}) = 0
    BY FS_EmptySet
  <2>4. went \in Nat /\ come \in Nat
    BY <1>4
  <2> HIDE DEF P, Q, op, M, went, come
  <2>5. Cardinality(M) = 0
    BY <2>2, <2>3
  <2>6. Cardinality(M) <= went
    BY <2>4, <2>5
  <2>7. ASSUME NEW x \in Follows
        PROVE  Cardinality(Before(op, Q, x)) <= Cardinality(Before(op, P, x)) + come
    <3> DEFINE before == Cardinality(Before(op, P, x))
    <3>1. Cardinality(Before(op, Q, x)) = 0
      BY <2>2, <2>3
    <3>2. before \in Nat
      BY <1>3
    <3> HIDE DEF before
    <3>3. 0 <= before + come
      BY <2>4, <3>2
    <3> QED
      BY <3>1, <3>3 DEF before
  <2> QED
    BY <2>6, <2>7 DEF P, Q, op, M, went, come
<1>6. ASSUME Lists(r), NEW u \in users, u.name = asked[r].name
      PROVE  /\ Cardinality((Q \cap follows) \ P) <= Cardinality(P \ T)
             /\ \A x \in Follows : Cardinality(Before(op, Q, x))
                    <= Cardinality(Before(op, P, x)) + Cardinality(Q \ follows)
  <2>1. /\ P = Part(op, follows, u.id, 0, Len(listed[r]))
        /\ Q = Part(op, T, u.id, 0, Len(listed[r]))
    BY <1>1, <1>6, PassedPart DEF ListingInv
  <2>2. Len(listed[r]) \in Nat
    BY DEF ListingInv, ListingTypeOK
  <2> HIDE DEF P, Q, op
  <2>3. CASE follows \subseteq T
    <3>1. /\ Q \subseteq P \cup (Q \ follows)
          /\ \A x \in Follows : Cardinality(Before(op, Q, x))
                    <= Cardinality(Before(op, P, x)) + Cardinality(Q \ follows)
      BY <1>1, <2>1, <2>2, <2>3, PartGrows
    <3>2. (Q \cap follows) \ P = {}
      BY <3>1
    <3>3. Cardinality((Q \cap follows) \ P) = 0
      BY <3>2, FS_EmptySet
    <3>4. Cardinality((Q \cap follows) \ P) <= Cardinality(P \ T)
      <4> DEFINE went == Cardinality(P \ T)
      <4>1. went \in Nat
        BY <1>4
      <4> HIDE DEF went
      <4>2. 0 <= went
        BY <4>1
      <4> QED
        BY <3>3, <4>2 DEF went
    <3> QED
      BY <3>1, <3>4
  <2>4. CASE T \subseteq follows
    <3>1. /\ Cardinality(Q \ P) <= Cardinality(P \ T)
          /\ \A x \in Follows : Cardinality(Before(op, Q, x)) <= Cardinality(Before(op, P, x))
      BY <1>1, <2>1, <2>2, <2>4, PartShrinks
    <3>2. (Q \cap follows) \ P = Q \ P
      BY <1>2, <2>4
    <3> DEFINE come == Cardinality(Q \ follows)
    <3>3. come \in Nat
      BY <1>4
    <3> HIDE DEF come
    <3>4. ASSUME NEW x \in Follows
          PROVE  Cardinality(Before(op, Q, x)) <= Cardinality(Before(op, P, x)) + come
      <4> DEFINE before == Cardinality(Before(op, P, x))
                 after == Cardinality(Before(op, Q, x))
      <4>1. before \in Nat /\ after \in Nat /\ after <= before
        BY <1>3, <3>1
      <4> HIDE DEF before, after
      <4>2. after <= before + come
        BY <3>3, <4>1
      <4> QED
        BY <4>2 DEF before, after
    <3>5. Cardinality((Q \cap follows) \ P) <= Cardinality(P \ T)
      BY <3>1, <3>2
    <3> QED
      BY <3>4, <3>5 DEF come
  <2> QED
    BY <2>3, <2>4
<1> QED
  BY <1>5, <1>6 DEF Holds

\* A follow that comes or goes, at an offset passed or not.
LEMMA NoticedKeeps ==
    ASSUME AccountsInv, AccountsInv', ListingInv, Noticed,
           follows \subseteq follows' \/ follows' \subseteq follows, IsFiniteSet(follows'),
           users' \subseteq users, UNCHANGED <<lastId, asked, listed>>,
           \A r \in Requests :
             /\ phase'[r] \in Working => phase[r] \in Working
             /\ phase'[r] = "ok" => phase[r] = "ok" \/ ~Lists(r)
             /\ phase'[r] = "acting" /\ Lists(r) => phase[r] = "acting" /\ target'[r] = target[r]
    PROVE  ListingInv'
<1> DEFINE Gone(r) == Cardinality(Passed(r, follows) \ follows')
           New(r) == Cardinality(Passed(r, follows') \ follows)
           Open(r) == phase[r] \in Working
<1>1. /\ steady' = [r \in Requests |-> IF Open(r) THEN steady[r] \cap follows' ELSE steady[r]]
      /\ skipped' = [r \in Requests |-> IF Open(r) THEN skipped[r] + Gone(r) ELSE skipped[r]]
      /\ shifted' = [r \in Requests |-> IF Open(r) THEN shifted[r] + New(r) ELSE shifted[r]]
  BY DEF Noticed
<1>2. ListingTypeOK /\ IsFiniteSet(follows)
  BY DEF ListingInv
<1>3. \A r \in Requests : Gone(r) \in Nat /\ New(r) \in Nat
  <2> SUFFICES ASSUME NEW r \in Requests PROVE Gone(r) \in Nat /\ New(r) \in Nat
    OBVIOUS
  <2>1. IsFiniteSet(Passed(r, follows)) /\ IsFiniteSet(Passed(r, follows'))
    BY <1>2, PassedFinite
  <2>2. IsFiniteSet(Passed(r, follows) \ follows') /\ IsFiniteSet(Passed(r, follows') \ follows)
    BY <2>1, FS_Subset
  <2> QED
    BY <2>2, FS_CardinalityType
<1>4. \A op : Tidy(op, follows')
  <2>1. follows' \subseteq Follows /\ OneEdgeEach'
    BY DEF AccountsInv, AccountsTypeOK
  <2> QED
    BY <2>1 DEF Tidy, OneEdgeEach, Owner, Other
<1> HIDE DEF Gone, New, Open
<1>5. ListingTypeOK'
  BY <1>1, <1>2, <1>3 DEF ListingTypeOK
<1>6. ASSUME NEW r \in Requests PROVE ListingOf(r)'
  <2> DEFINE P == Passed(r, follows)
             Q == Passed(r, follows')
             op == asked[r].op
  <2>1. /\ ListingOf(r) /\ skipped[r] \in Nat /\ shifted[r] \in Nat /\ Len(listed[r]) \in Nat
        /\ Gone(r) \in Nat /\ New(r) \in Nat
    BY <1>2, <1>3 DEF ListingInv, ListingTypeOK
  <2>2. /\ asked'[r] = asked[r] /\ listed'[r] = listed[r]
        /\ Lists(r)' = Lists(r) /\ Seen(r)' = Seen(r)
    BY DEF Lists, Seen
  <2>3. /\ Open(r) => /\ steady'[r] = steady[r] \cap follows'
                      /\ skipped'[r] = skipped[r] + Gone(r) /\ shifted'[r] = shifted[r] + New(r)
        /\ ~Open(r) => /\ steady'[r] = steady[r]
                       /\ skipped'[r] = skipped[r] /\ shifted'[r] = shifted[r]
    BY <1>1
  <2>4. steady'[r] \subseteq steady[r]
    BY <2>3
  <2>5. (~Lists(r) => listed'[r] = <<>> /\ steady'[r] = {})
    BY <2>1, <2>2, <2>4 DEF ListingOf
  <2>6. /\ IsFiniteSet(steady'[r])
        /\ \A f \in steady'[r] : f.follower <= lastId' /\ f.followed <= lastId'
    BY <2>1, <2>4, FS_Subset DEF ListingOf
  <2>7. Len(listed'[r]) <= shifted'[r] + Cardinality(Seen(r))
    <3>1. Cardinality(Seen(r)) \in Nat
      BY <1>2, SeenType
    <3>2. Len(listed[r]) <= shifted[r] + Cardinality(Seen(r))
      BY <2>1 DEF ListingOf
    <3> QED
      BY <2>1, <2>2, <2>3, <3>1, <3>2
  <2>8. Passed(r, follows)' \subseteq Q
    BY <2>2 DEF Passed
  <2>9. ASSUME Open(r) PROVE Caught(r)' /\ Charted(r)'
    <3>1. /\ Cardinality((Q \cap follows) \ P) <= Gone(r)
          /\ \A x \in Follows : Cardinality(Before(op, Q, x))
                    <= Cardinality(Before(op, P, x)) + New(r)
      BY <1>4, PassedMoves DEF Gone, New
    <3>2. Caught(r) /\ Charted(r)
      BY <2>1, <2>9 DEF ListingOf, Open
    <3>3. IsFiniteSet(P) /\ IsFiniteSet(Q)
      BY <1>2, PassedFinite
    <3> DEFINE A == (steady[r] \cap P) \ Seen(r)
               B == (Q \cap follows) \ P
               C == (steady[r] \cap follows' \cap Passed(r, follows)') \ Seen(r)
    <3>4. Cardinality(C) <= skipped[r] + Gone(r)
      <4>1. C \subseteq A \cup B
        BY <2>8, <3>2 DEF Caught
      <4>2. IsFiniteSet(A) /\ IsFiniteSet(B)
        BY <3>3, FS_Subset
      <4>3. Cardinality(A) <= skipped[r]
        BY <3>2 DEF Caught
      <4>4. Cardinality(B) <= Gone(r)
        BY <3>1
      <4> HIDE DEF A, B, C
      <4>5. /\ Cardinality(C) <= Cardinality(A) + Cardinality(B)
            /\ Cardinality(A) \in Nat /\ Cardinality(B) \in Nat /\ Cardinality(C) \in Nat
        BY <4>1, <4>2, UnionBound
      <4> QED
        BY <2>1, <4>3, <4>4, <4>5
    <3>5. Caught(r)'
      BY <2>2, <2>3, <2>9, <3>4 DEF Caught
    <3>6. ASSUME NEW x \in Follows
          PROVE  Cardinality(Before(op, Passed(r, follows)', x))
                    <= shifted[r] + New(r) + Cardinality(Before(op, Seen(r), x))
      <4> DEFINE a == Cardinality(Before(op, Passed(r, follows)', x))
                 b == Cardinality(Before(op, Q, x))
                 c == Cardinality(Before(op, P, x))
                 d == Cardinality(Before(op, Seen(r), x))
      <4>1. Before(op, Passed(r, follows)', x) \subseteq Before(op, Q, x)
        BY <2>8 DEF Before
      <4>2. IsFiniteSet(Before(op, Q, x)) /\ IsFiniteSet(Before(op, P, x))
            /\ IsFiniteSet(Before(op, Seen(r), x))
        BY <1>2, <3>3, OffsetType, SeenType
      <4>3. a <= b /\ a \in Nat /\ b \in Nat /\ c \in Nat /\ d \in Nat
        BY <4>1, <4>2, FS_Subset, FS_CardinalityType
      <4>4. b <= c + New(r)
        BY <3>1
      <4>5. c <= shifted[r] + d
        BY <3>2 DEF Charted
      <4> HIDE DEF a, b, c, d
      <4>6. a <= shifted[r] + New(r) + d
        BY <2>1, <4>3, <4>4, <4>5
      <4> QED
        BY <4>6 DEF a, d
    <3>7. Charted(r)'
      BY <2>2, <2>3, <2>9, <3>6 DEF Charted
    <3> QED
      BY <3>5, <3>7
  <2>10. phase'[r] \in Working => Caught(r)' /\ Charted(r)'
    BY <2>9 DEF Open
  <2>11. phase'[r] = "acting" /\ Lists(r)' => NoHeir(r)'
    <3> SUFFICES ASSUME phase'[r] = "acting", Lists(r)
                 PROVE  NoHeir(r)'
      BY <2>2
    <3>1. NoHeir(r) /\ target'[r] = target[r]
      BY <2>1 DEF ListingOf
    <3> QED
      BY <2>2, <2>4, <3>1 DEF NoHeir
  <2>12. phase'[r] = "ok" => Cardinality(Missed(r)') <= skipped'[r]
    <3> SUFFICES ASSUME phase'[r] = "ok"
                 PROVE  Cardinality(Missed(r)') <= skipped'[r]
      OBVIOUS
    <3>1. CASE ~Lists(r)
      <4>1. Missed(r)' = {}
        BY <2>5, <3>1 DEF Missed
      <4>2. Cardinality(Missed(r)') = 0
        BY <4>1, FS_EmptySet
      <4> QED
        BY <2>1, <2>3, <4>2
    <3>2. CASE Lists(r)
      <4>1. phase[r] = "ok" /\ ~Open(r)
        BY <3>2 DEF Open, Working
      <4>2. Missed(r)' \subseteq Missed(r)
        BY <2>2, <2>4 DEF Missed
      <4>3. IsFiniteSet(Missed(r))
        BY <2>1, FS_Subset DEF Missed, ListingOf
      <4>4. Cardinality(Missed(r)') <= Cardinality(Missed(r)) /\ Cardinality(Missed(r)) \in Nat
            /\ Cardinality(Missed(r)') \in Nat
        BY <4>2, <4>3, FS_Subset, FS_CardinalityType
      <4>5. Cardinality(Missed(r)) <= skipped[r]
        BY <2>1, <4>1 DEF ListingOf
      <4> QED
        BY <2>1, <2>3, <4>1, <4>4, <4>5
    <3> QED
      BY <3>1, <3>2
  <2> QED
    BY <2>2, <2>5, <2>6, <2>7, <2>10, <2>11, <2>12 DEF ListingOf
<1> QED
  BY <1>5, <1>6 DEF ListingInv

\* A step of one request that leaves its listing alone.
LEMMA QuietStep ==
    ASSUME AccountsInv, ListingInv, NEW r \in Requests, UNCHANGED <<tables, asked, listing>>,
           \A q \in Requests \ {r} : phase'[q] = phase[q] /\ target'[q] = target[q],
           phase'[r] \in Working => phase[r] \in Working,
           phase'[r] = "ok" => ~Lists(r),
           phase'[r] = "acting" => target'[r] \in users /\ target'[r].name = asked[r].name
    PROVE  ListingInv'
<1>1. ASSUME NEW q \in Requests
      PROVE  /\ phase'[q] \in Working => phase[q] \in Working
             /\ phase'[q] = "ok" => phase[q] = "ok" \/ ~Lists(q)
             /\ phase'[q] = "acting" /\ Lists(q)
                  => (phase[q] = "acting" /\ target'[q] = target[q])
                     \/ (target'[q] \in users /\ target'[q].name = asked[q].name)
  <2>1. CASE q = r
    BY <2>1
  <2>2. CASE q # r
    BY <2>2
  <2> QED
    BY <2>1, <2>2
<1> QED
  BY <1>1, AllListingsStay

LEMMA QuietEndStays ==
    ASSUME AccountsInv, ListingInv, NEW r \in Requests, UNCHANGED <<tables, listing>>,
           NEW from, NEW reply \in Answers, Ends(r, from, reply), reply = "ok" => ~Lists(r)
    PROVE  ListingInv'
<1>1. AccountsTypeOK /\ reply \in Working \cup Answers
  BY DEF AccountsInv
<1>2. /\ phase'[r] = reply /\ asked' = asked
      /\ \A q \in Requests \ {r} : phase'[q] = phase[q] /\ target'[q] = target[q]
  BY <1>1, EndsLeaves
<1>3. reply \notin Working /\ reply # "acting"
  BY DEF Working, Answers
<1> QED
  BY <1>2, <1>3, QuietStep

LEMMA LookUpStays ==
    ASSUME AccountsInv, ListingInv, NEW r \in Requests, Authenticate(r) \/ Find(r)
    PROVE  ListingInv'
<1>1. /\ phase \in [Requests -> Working \cup Answers]
      /\ target \in [Requests -> Users \cup {NoUser}]
  BY DEF AccountsInv, AccountsTypeOK
<1>2. CASE Authenticate(r)
  <2>1. /\ UNCHANGED <<tables, asked, listing>> /\ target' = target
        /\ phase[r] = "authenticating" /\ phase' = [phase EXCEPT ![r] = "finding"]
    BY <1>2 DEF Authenticate, Moves
  <2>2. phase'[r] = "finding" /\ \A q \in Requests \ {r} : phase'[q] = phase[q]
    BY <1>1, <2>1
  <2>3. phase[r] \in Working
    BY <2>1 DEF Working
  <2> QED
    BY <2>1, <2>2, <2>3, QuietStep
<1>3. CASE Find(r)
  <2>1. /\ UNCHANGED <<tables, asked, listing>>
        /\ phase[r] = "finding" /\ phase' = [phase EXCEPT ![r] = "acting"]
    BY <1>3 DEF Find, Moves
  <2>2. PICK u \in users : u.name = asked[r].name /\ target' = [target EXCEPT ![r] = u]
    BY <1>3 DEF Find
  <2>3. /\ phase'[r] = "acting" /\ target'[r] = u
        /\ \A q \in Requests \ {r} : phase'[q] = phase[q] /\ target'[q] = target[q]
    BY <1>1, <2>1, <2>2
  <2>4. phase[r] \in Working
    BY <2>1 DEF Working
  <2> QED
    BY <2>1, <2>2, <2>3, <2>4, QuietStep
<1> QED
  BY <1>2, <1>3

\* No follow that there is, or ever was, is of an account still to come.
LEMMA FollowsOfThePast ==
    ASSUME AccountsInv, NEW f \in follows
    PROVE  f.follower <= lastId /\ f.followed <= lastId
<1>1. PICK u \in users, v \in users : f.follower = u.id /\ f.followed = v.id
  BY DEF AccountsInv, EdgesConnect
<1> QED
  BY <1>1 DEF AccountsInv, IdsGivenOnce

LEMMA RequestOpens ==
    ASSUME AccountsInv, ListingInv, NEW r \in Requests, NEW a \in Asked, Request(r, a)
    PROVE  ListingInv'
<1>1. /\ phase \in [Requests -> Working \cup Answers] /\ asked \in [Requests -> Asked]
      /\ follows \subseteq Follows /\ ListingTypeOK /\ IsFiniteSet(follows)
  BY DEF AccountsInv, AccountsTypeOK, ListingInv
<1>2. /\ phase' = [phase EXCEPT ![r] = FirstPhase(a.op)]
      /\ asked' = [asked EXCEPT ![r] = a]
      /\ listed' = [listed EXCEPT ![r] = <<>>]
      /\ steady' = [steady EXCEPT ![r] = IF a.op \in {"followers", "following"} THEN follows ELSE {}]
      /\ skipped' = [skipped EXCEPT ![r] = 0]
      /\ shifted' = [shifted EXCEPT ![r] = 0]
      /\ UNCHANGED <<users, follows, lastId, caller, target>>
  BY DEF Request, tables
<1>3. /\ phase'[r] = FirstPhase(a.op) /\ asked'[r] = a /\ listed'[r] = <<>>
      /\ steady'[r] = (IF a.op \in {"followers", "following"} THEN follows ELSE {})
      /\ skipped'[r] = 0 /\ shifted'[r] = 0
      /\ \A q \in Requests \ {r} :
            /\ phase'[q] = phase[q] /\ asked'[q] = asked[q] /\ listed'[q] = listed[q]
            /\ steady'[q] = steady[q] /\ skipped'[q] = skipped[q] /\ shifted'[q] = shifted[q]
  BY <1>1, <1>2 DEF ListingTypeOK
<1>4. ListingTypeOK' /\ IsFiniteSet(follows')
  <2>1. <<>> \in Seq(Follows)
    OBVIOUS
  <2> QED
    BY <1>1, <1>2, <2>1 DEF ListingTypeOK
<1>5. ListingOf(r)'
  <2>1. Lists(r)' = (a.op \in {"followers", "following"}) /\ Seen(r)' = {}
    BY <1>3 DEF Lists, Seen
  <2>2. steady'[r] \subseteq follows /\ IsFiniteSet(steady'[r])
    BY <1>1, <1>3, FS_EmptySet
  <2>3. \A f \in steady'[r] : f.follower <= lastId' /\ f.followed <= lastId'
    BY <1>2, <2>2, FollowsOfThePast
  <2>4. Passed(r, follows)' = {}
    <3>1. \A f \in follows : Offset(a.op, f, follows) \in Nat
      BY <1>1, OffsetType
    <3>2. Len(listed'[r]) = 0
      BY <1>3
    <3> QED
      BY <1>2, <1>3, <3>1, <3>2 DEF Passed
  <2>5. Cardinality({}) = 0
    BY FS_EmptySet
  <2>6. Len(listed'[r]) <= shifted'[r] + Cardinality(Seen(r)')
    BY <1>3, <2>1, <2>5
  <2>7. Caught(r)'
    <3>1. (steady'[r] \cap Passed(r, follows)') \ Seen(r)' = {}
      BY <2>4
    <3>2. Cardinality((steady'[r] \cap Passed(r, follows)') \ Seen(r)') = 0
      BY <2>5, <3>1
    <3>3. 0 <= skipped'[r]
      BY <1>3
    <3> QED
      BY <1>2, <2>2, <3>2, <3>3 DEF Caught
  <2>8. Charted(r)'
    <3>1. \A x : Before(a.op, {}, x) = {}
      BY DEF Before
    <3>2. \A x : Cardinality(Before(a.op, {}, x)) <= 0 + Cardinality(Before(a.op, {}, x))
      BY <2>5, <3>1
    <3> QED
      BY <1>3, <2>1, <2>4, <3>2 DEF Charted
  <2>9. phase'[r] # "ok" /\ (phase'[r] = "acting" => ~Lists(r)')
    <3>1. a.op \in Ops
      OBVIOUS
    <3> QED
      BY <1>3, <2>1, <3>1 DEF FirstPhase, Ops
  <2>10. ~Lists(r)' => listed'[r] = <<>> /\ steady'[r] = {}
    BY <1>3, <2>1
  <2> QED
    BY <2>2, <2>3, <2>6, <2>7, <2>8, <2>9, <2>10 DEF ListingOf
<1>6. ASSUME NEW q \in Requests \ {r} PROVE ListingOf(q)'
  BY <1>2, <1>3, <1>6, ListingStays
<1> QED
  BY <1>4, <1>5, <1>6 DEF ListingInv

\* A new account has no follows, and brings none back.
LEMMA InsertUserStays ==
    ASSUME AccountsInv, ListingInv, NEW r \in Requests, InsertUser(r)
    PROVE  ListingInv'
<1> DEFINE u == [id |-> lastId + 1, name |-> asked[r].name, email |-> asked[r].email]
<1>1. /\ users' = users \cup {u} /\ lastId' = lastId + 1
      /\ UNCHANGED <<follows, asked, listing>>
      /\ phase[r] = "acting" /\ asked[r].op = "register"
      /\ phase' = [phase EXCEPT ![r] = "refreshing"]
      /\ target' = [target EXCEPT ![r] = u]
  BY DEF InsertUser, NextId, Acts, Moves
<1>2. /\ phase \in [Requests -> Working \cup Answers]
      /\ target \in [Requests -> Users \cup {NoUser}] /\ lastId \in Nat
  BY DEF AccountsInv, AccountsTypeOK
<1>3. /\ phase'[r] = "refreshing" /\ phase[r] \in Working
      /\ \A q \in Requests \ {r} : phase'[q] = phase[q] /\ target'[q] = target[q]
  BY <1>1, <1>2 DEF Working
<1>4. ListingTypeOK' /\ IsFiniteSet(follows')
  BY <1>1 DEF ListingInv, ListingTypeOK, listing
<1>5. u.id = lastId + 1
  OBVIOUS
<1> HIDE DEF u
<1>6. ASSUME NEW q \in Requests PROVE ListingOf(q)'
  <2>1. /\ ListingOf(q)
        /\ asked'[q] = asked[q] /\ listed'[q] = listed[q] /\ steady'[q] = steady[q]
        /\ skipped'[q] = skipped[q] /\ shifted'[q] = shifted[q]
    BY <1>1 DEF ListingInv, listing
  <2>2. \A f \in follows \cup steady[q] : f.follower <= lastId /\ f.followed <= lastId
    BY <2>1, FollowsOfThePast DEF ListingOf
  <2>3. \A f \in follows \cup steady[q] : f.follower \in Nat /\ f.followed \in Nat
    BY DEF AccountsInv, AccountsTypeOK, ListingInv, ListingTypeOK, Follows, Ids
  <2>4. \A f \in follows \cup steady[q] : u.id # Owner(asked[q].op, f)
    BY <1>2, <1>5, <2>2, <2>3 DEF Owner
  <2>5. /\ Lists(q)' = Lists(q) /\ Seen(q)' = Seen(q)
        /\ Passed(q, follows)' = Passed(q, follows) /\ Missed(q)' = Missed(q)
    BY <1>1, <2>1, <2>4 DEF Lists, Seen, Passed, Missed
  <2>6. \A f \in steady'[q] : f.follower <= lastId' /\ f.followed <= lastId'
    BY <1>1, <1>2, <2>1, <2>2, <2>3
  <2>7. phase'[q] \in Working => phase[q] \in Working /\ Caught(q)' /\ Charted(q)'
    BY <1>1, <1>3, <2>1, <2>5 DEF ListingOf, Caught, Charted
  <2>8. phase'[q] = "acting" /\ Lists(q)' => NoHeir(q)'
    <3> SUFFICES ASSUME phase'[q] = "acting", Lists(q)
                 PROVE  NoHeir(q)'
      BY <2>5
    <3>1. phase[q] = "acting" /\ target'[q] = target[q]
      BY <1>3
    <3> QED
      BY <1>1, <2>1, <2>4, <3>1 DEF NoHeir, ListingOf
  <2>9. phase'[q] = "ok" => Cardinality(Missed(q)') <= skipped'[q]
    BY <1>3, <2>1, <2>5 DEF ListingOf
  <2> QED
    BY <2>1, <2>5, <2>6, <2>7, <2>8, <2>9 DEF ListingOf
<1> QED
  BY <1>4, <1>6 DEF ListingInv
LEMMA PageRows ==
    ASSUME AccountsInv, ListingInv, NEW r \in Requests
    PROVE  LET G == Page(r)
           IN  /\ G = Part(asked[r].op, follows, target[r].id, Len(listed[r]), PageSize)
               /\ IsFiniteSet(G) /\ Cardinality(G) \in Nat
               /\ Rows(r) \in Seq(Follows) /\ Len(Rows(r)) = Cardinality(G)
               /\ {Rows(r)[i] : i \in 1..Cardinality(G)} = G
<1> DEFINE G == Page(r)
           op == asked[r].op
           o == target[r].id
           L == Len(listed[r])
           n == Cardinality(G)
           rows == Rows(r)
<1>1. /\ IsFiniteSet(follows) /\ follows \subseteq Follows /\ L \in Nat
  BY DEF ListingInv, ListingTypeOK, AccountsInv, AccountsTypeOK
<1>2. Tidy(op, follows)
  BY <1>1, FollowsTidy
<1>3. \A f \in follows : Offset(op, f, follows) \in Nat
  BY <1>1, OffsetType
<1>4. G = Part(op, follows, o, L, PageSize)
  <2>1. \A i \in Nat : i \in L..(L + PageSize - 1) <=> i >= L /\ i < L + PageSize
    BY <1>1
  <2> HIDE DEF L
  <2>2. G = {f \in follows : Owner(op, f) = o /\ Offset(op, f, follows) \in L..(L + PageSize - 1)}
    BY DEF Page, L
  <2> HIDE DEF G, op, o
  <2> QED
    BY <1>3, <2>1, <2>2 DEF Part
<1>5. IsFiniteSet(G) /\ n \in Nat
  <2> HIDE DEF L, op, o, G
  <2>1. PageSize \in Nat
    OBVIOUS
  <2> QED
    BY <1>1, <1>2, <1>4, <2>1, PartSize
<1>6. G \subseteq follows
  BY DEF Page
<1>7. InOrder(op, follows, G, rows)
  <2>1. PageSize \in Nat
    OBVIOUS
  <2>2. \E s : InOrder(op, follows, Part(op, follows, o, L, PageSize), s)
    <3> HIDE DEF L, op, o
    <3> QED
      BY <1>1, <1>2, <2>1, RowsExist
  <2>3. \E s : InOrder(op, follows, G, s)
    <3> HIDE DEF L, op, o, G
    <3> QED
      BY <1>4, <2>2
  <2>4. rows = CHOOSE s \in [1..n -> G] : \A i, j \in 1..n :
                 i < j => Offset(op, s[i], follows) < Offset(op, s[j], follows)
    BY DEF Rows
  <2> HIDE DEF L, op, o, G, n, rows
  <2>5. \E s \in [1..n -> G] : \A i, j \in 1..n :
                 i < j => Offset(op, s[i], follows) < Offset(op, s[j], follows)
    BY <2>3 DEF InOrder, n
  <2> QED
    BY <2>4, <2>5 DEF InOrder, n
<1> HIDE DEF G, op, o, L, n, rows
<1>8. rows \in [1..n -> Follows]
  BY <1>1, <1>6, <1>7 DEF InOrder, n
<1>9. rows \in Seq(Follows) /\ Len(rows) = n
  BY <1>5, <1>8
<1>10. {rows[i] : i \in 1..n} = G
  BY <1>2, <1>5, <1>6, <1>7, RowsCover DEF n
<1> QED
  BY <1>4, <1>5, <1>9, <1>10 DEF G, op, o, L, n, rows
\* A page adds to what the client has seen just what it then has passed.
LEMMA PageCharts ==
    ASSUME AccountsInv, ListingInv, NEW r \in Requests, ReadPage(r)
    PROVE  ListingOf(r)'
<1> DEFINE G == Page(r)
           op == asked[r].op
           t == target[r]
           L == Len(listed[r])
           n == Cardinality(G)
           P == Passed(r, follows)
           P2 == Passed(r, follows)'
           seen == Seen(r)
           reply == IF Len(Rows(r)) < PageSize THEN "ok" ELSE "finding"
<1>1. /\ AccountsTypeOK /\ ListingTypeOK /\ IsFiniteSet(follows) /\ ListingOf(r)
      /\ L \in Nat /\ skipped[r] \in Nat /\ shifted[r] \in Nat
      /\ PageSize \in Nat /\ PageSize > 0 /\ Tidy(op, follows)
  BY FollowsTidy DEF ListingInv, ListingTypeOK, AccountsInv
<1>2. /\ listed' = [listed EXCEPT ![r] = listed[r] \o Rows(r)]
      /\ Ends(r, "acting", reply)
      /\ phase[r] = "acting" /\ Lists(r)
      /\ UNCHANGED <<users, follows, lastId, steady, skipped, shifted>>
  BY DEF ReadPage, tables, Lists
<1>3. /\ asked' = asked /\ phase'[r] = reply
  <2>1. reply \in Working \cup Answers
    BY DEF Working, Answers
  <2> HIDE DEF reply
  <2> QED
    BY <1>1, <1>2, <2>1, EndsLeaves
<1>4. t # NoUser /\ t.name = asked[r].name
  BY <1>2 DEF AccountsInv, Remembered, Lists
<1>5. /\ G = Part(op, follows, t.id, L, PageSize)
      /\ IsFiniteSet(G) /\ n \in Nat
      /\ Rows(r) \in Seq(Follows) /\ Len(Rows(r)) = n
      /\ {Rows(r)[i] : i \in 1..n} = G
  BY PageRows
<1>6. IsFiniteSet(seen) /\ seen \subseteq Follows /\ Cardinality(seen) \in Nat
  BY <1>1, SeenType
<1>7. reply = (IF n < PageSize THEN "ok" ELSE "finding")
  BY <1>5
<1>8. Len(listed'[r]) = L + n /\ Seen(r)' = seen \cup G
  <2> DEFINE old == listed[r]
             rows == Rows(r)
             new == listed'[r]
  <2>1. /\ old \in Seq(Follows) /\ rows \in Seq(Follows) /\ new = old \o rows
        /\ L = Len(old) /\ n = Len(rows)
    BY <1>1, <1>2, <1>5 DEF ListingTypeOK
  <2>2. /\ new \in Seq(Follows) /\ Len(new) = L + n
        /\ \A i \in 1..(L + n) : new[i] = IF i <= L THEN old[i] ELSE rows[i - L]
    <3> HIDE DEF old, rows, new, L, n
    <3> QED
      BY <2>1, ConcatProperties
  <2>3. DOMAIN new = 1..(L + n) /\ DOMAIN old = 1..L
    BY <2>1, <2>2, LenProperties
  <2>4. seen = {old[i] : i \in 1..L} /\ Seen(r)' = {new[i] : i \in 1..(L + n)}
    BY <2>3 DEF Seen
  <2>5. G = {rows[i] : i \in 1..n}
    BY <1>5
  <2> HIDE DEF old, rows, new, L, n, seen, G
  <2>6. ASSUME NEW f \in Seen(r)' PROVE f \in seen \cup G
    <3>1. PICK i \in 1..(L + n) : f = new[i]
      BY <2>4
    <3>2. CASE i <= L
      <4>1. i \in 1..L
        BY <1>1, <3>2
      <4> QED
        BY <2>2, <2>4, <3>1, <3>2, <4>1
    <3>3. CASE ~(i <= L)
      <4>1. i - L \in 1..n
        BY <1>1, <1>5, <3>3
      <4> QED
        BY <2>2, <2>5, <3>1, <3>3, <4>1
    <3> QED
      BY <3>2, <3>3
  <2>7. ASSUME NEW f \in seen \cup G PROVE f \in Seen(r)'
    <3>1. CASE f \in seen
      <4>1. PICK i \in 1..L : f = old[i]
        BY <2>4, <3>1
      <4>2. i \in 1..(L + n) /\ i <= L
        BY <1>1, <1>5
      <4> QED
        BY <2>2, <2>4, <4>1, <4>2
    <3>2. CASE f \in G
      <4>1. PICK i \in 1..n : f = rows[i]
        BY <2>5, <3>2
      <4>2. PICK j \in 1..(L + n) : ~(j <= L) /\ j - L = i
        <5> DEFINE k == L + i
        <5>1. k \in 1..(L + n) /\ ~(k <= L) /\ k - L = i
          BY <1>1, <1>5
        <5> HIDE DEF k
        <5> QED
          BY <5>1
      <4>3. new[j] = rows[j - L]
        BY <2>2, <4>2
      <4> QED
        BY <2>4, <4>1, <4>2, <4>3
    <3> QED
      BY <3>1, <3>2
  <2> QED
    BY <2>2, <2>6, <2>7 DEF new
<1>9. /\ Lists(r)'
      /\ \A f \in steady'[r] : f.follower <= lastId' /\ f.followed <= lastId'
      /\ IsFiniteSet(steady'[r])
  BY <1>1, <1>2, <1>3 DEF Lists, ListingOf
<1>10. phase'[r] # "acting" /\ (phase'[r] \in Working => phase'[r] = "finding")
  BY <1>3 DEF Working
<1>11. steady[r] \subseteq follows /\ Cardinality((steady[r] \cap P) \ seen) <= skipped[r]
       /\ Charted(r) /\ L <= shifted[r] + Cardinality(seen) /\ NoHeir(r)
  BY <1>1, <1>2 DEF ListingOf, Caught, Working
<1>12. P2 = {f \in follows : /\ \E u \in users : u.id = Owner(op, f) /\ u.name = asked[r].name
                             /\ Offset(op, f, follows) < L + n}
  BY <1>2, <1>3, <1>8 DEF Passed, Lists
<1>13. IsFiniteSet((steady[r] \cap P) \ seen)
  <2>1. IsFiniteSet(steady[r])
    BY <1>1 DEF ListingOf
  <2> HIDE DEF P, seen
  <2> QED
    BY <2>1, FS_Subset
<1>14. ASSUME NEW C, C \subseteq (steady[r] \cap P) \ seen
       PROVE  Cardinality(C) <= skipped[r]
  <2> DEFINE D == (steady[r] \cap P) \ seen
             c == Cardinality(C)
             d == Cardinality(D)
  <2>1. IsFiniteSet(D) /\ d <= skipped[r]
    BY <1>11, <1>13
  <2>2. C \subseteq D
    BY <1>14
  <2> HIDE DEF D
  <2>3. c <= d /\ c \in Nat /\ d \in Nat
    BY <2>1, <2>2, FS_Subset, FS_CardinalityType
  <2> HIDE DEF c, d
  <2>4. c <= skipped[r]
    BY <1>1, <2>1, <2>3
  <2> QED
    BY <2>4 DEF c
<1> HIDE DEF G, L, n, seen, reply, P, P2
<1>15. CASE t \in users
  <2>1. \A u \in users : u.name = asked[r].name => u = t
    BY <1>4, <1>15 DEF AccountsInv, OwnKeys
  <2>2. P = Part(op, follows, t.id, 0, L)
    BY <1>1, <1>2, <1>4, <1>15, PassedPart DEF L, P, ListingInv
  <2>3. \A x \in Follows : Cardinality(Before(op, Part(op, follows, t.id, 0, L), x))
                              <= shifted[r] + Cardinality(Before(op, seen, x))
    BY <1>11, <2>2 DEF Charted, P, seen
  <2>4. /\ L + n <= shifted[r] + Cardinality(seen \cup G)
        /\ \A x \in Follows : Cardinality(Before(op, P \cup G, x))
                                 <= shifted[r] + Cardinality(Before(op, seen \cup G, x))
    <3> HIDE DEF op, t
    <3> QED
      BY <1>1, <1>5, <1>6, <1>11, <2>2, <2>3, ReadOn DEF n
  <2>5. /\ Part(op, follows, t.id, 0, L + n) \subseteq P \cup G
        /\ n < PageSize => \A f \in follows : Owner(op, f) = t.id => f \in P \cup G
    <3> HIDE DEF op, t
    <3> QED
      BY <1>1, <1>5, <2>2, PageEnds DEF n
  <2>6. P2 \subseteq P \cup G
    <3>1. \A f \in P2 : /\ f \in follows /\ Owner(op, f) = t.id
                        /\ Offset(op, f, follows) \in Nat /\ Offset(op, f, follows) < L + n
      BY <1>1, <1>12, <2>1, OffsetType
    <3>2. P2 \subseteq Part(op, follows, t.id, 0, L + n)
      BY <1>1, <1>5, <3>1 DEF Part
    <3> QED
      BY <2>5, <3>2
  <2>7. Caught(r)'
    <3>1. (steady[r] \cap P2) \ (seen \cup G) \subseteq (steady[r] \cap P) \ seen
      BY <2>6
    <3>2. Cardinality((steady[r] \cap P2) \ (seen \cup G)) <= skipped[r]
      BY <1>14, <3>1
    <3> QED
      BY <1>2, <1>8, <1>11, <3>2 DEF Caught, P2
  <2>8. ASSUME NEW x \in Follows
        PROVE  Cardinality(Before(op, P2, x)) <= shifted[r] + Cardinality(Before(op, seen \cup G, x))
    <3> DEFINE a == Cardinality(Before(op, P2, x))
               b == Cardinality(Before(op, P \cup G, x))
               d == Cardinality(Before(op, seen \cup G, x))
    <3>1. IsFiniteSet(P) /\ IsFiniteSet(P \cup G) /\ IsFiniteSet(seen \cup G)
      BY <1>1, <1>5, <1>6, PassedFinite, FS_Union DEF P
    <3>2. IsFiniteSet(Before(op, P \cup G, x)) /\ IsFiniteSet(Before(op, seen \cup G, x))
      BY <3>1, OffsetType
    <3>3. Before(op, P2, x) \subseteq Before(op, P \cup G, x)
      BY <2>6 DEF Before
    <3>4. a <= b /\ a \in Nat /\ b \in Nat /\ d \in Nat
      BY <3>2, <3>3, FS_Subset, FS_CardinalityType
    <3>5. b <= shifted[r] + d
      BY <2>4
    <3> HIDE DEF a, b, d
    <3>6. a <= shifted[r] + d
      BY <1>1, <3>4, <3>5
    <3> QED
      BY <3>6 DEF a, d
  <2>9. Charted(r)'
    BY <1>2, <1>3, <1>8, <2>8 DEF Charted, P2
  <2>10. phase'[r] = "ok" => Cardinality(Missed(r)') <= skipped'[r]
    <3> SUFFICES ASSUME phase'[r] = "ok"
                 PROVE  Cardinality(Missed(r)') <= skipped[r]
      BY <1>2
    <3>1. \A f \in follows : Owner(op, f) = t.id => f \in P \cup G
      BY <1>3, <1>7, <2>5
    <3>2. Missed(r)' \subseteq (steady[r] \cap P) \ seen
      BY <1>2, <1>3, <1>8, <1>11, <2>1, <3>1 DEF Missed
    <3> QED
      BY <1>14, <3>2
  <2>11. Len(listed'[r]) <= shifted'[r] + Cardinality(Seen(r)')
    BY <1>2, <1>8, <2>4
  <2> QED
    BY <1>9, <1>10, <2>7, <2>9, <2>10, <2>11 DEF ListingOf
<1>16. CASE t \notin users
  <2>1. \A f \in follows : Owner(op, f) # t.id
    <3> SUFFICES ASSUME NEW f \in follows, Owner(op, f) = t.id
                 PROVE  FALSE
      OBVIOUS
    <3>1. PICK u \in users : u.id = t.id
      BY DEF AccountsInv, EdgesConnect, Owner
    <3> QED
      BY <1>4, <1>16, <3>1 DEF AccountsInv, IdsGivenOnce
  <2>2. G = {}
    BY <2>1 DEF G, Page
  <2>3. n = 0
    BY <2>2, FS_EmptySet DEF n
  <2>4. phase'[r] = "ok" /\ "ok" \notin Working
    BY <1>1, <1>3, <1>7, <2>3 DEF Working
  <2>5. Missed(r)' = {}
    BY <1>2, <1>3, <1>11, <1>16 DEF Missed, NoHeir
  <2>6. Cardinality(Missed(r)') = 0
    BY <2>5, FS_EmptySet
  <2>7. Cardinality(Missed(r)') <= skipped'[r]
    BY <1>1, <1>2, <2>6
  <2>8. Len(listed'[r]) <= shifted'[r] + Cardinality(Seen(r)')
    <3>1. L + n = L /\ seen \cup G = seen
      BY <1>1, <2>2, <2>3
    <3> QED
      BY <1>2, <1>8, <1>11, <3>1
  <2> QED
    BY <1>9, <1>10, <2>4, <2>7, <2>8 DEF ListingOf
<1> QED
  BY <1>15, <1>16

LEMMA ReadPageStays ==
    ASSUME AccountsInv, ListingInv, NEW r \in Requests, ReadPage(r)
    PROVE  ListingInv'
<1> DEFINE reply == IF Len(Rows(r)) < PageSize THEN "ok" ELSE "finding"
<1>1. /\ listed' = [listed EXCEPT ![r] = listed[r] \o Rows(r)]
      /\ Ends(r, "acting", reply)
      /\ UNCHANGED <<users, follows, lastId, steady, skipped, shifted>>
  BY DEF ReadPage, tables
<1>2. AccountsTypeOK /\ ListingTypeOK /\ IsFiniteSet(follows) /\ reply \in Working \cup Answers
  BY DEF AccountsInv, ListingInv, Working, Answers
<1> HIDE DEF reply
<1>3. asked' = asked /\ \A q \in Requests \ {r} : phase'[q] = phase[q] /\ target'[q] = target[q]
  BY <1>1, <1>2, EndsLeaves
<1>4. \A q \in Requests \ {r} : listed'[q] = listed[q]
  BY <1>1, <1>2 DEF ListingTypeOK
<1>5. ListingTypeOK' /\ IsFiniteSet(follows')
  <2>1. listed[r] \in Seq(Follows) /\ Rows(r) \in Seq(Follows)
    BY <1>2, PageRows DEF ListingTypeOK
  <2>2. listed[r] \o Rows(r) \in Seq(Follows)
    BY <2>1, ConcatProperties
  <2> QED
    BY <1>1, <1>2, <2>2 DEF ListingTypeOK
<1>6. ASSUME NEW q \in Requests \ {r} PROVE ListingOf(q)'
  BY <1>1, <1>3, <1>4, <1>6, ListingStays
<1> QED
  BY <1>5, <1>6, PageCharts DEF ListingInv
LEMMA WritesStay ==
    ASSUME AccountsInv, ListingInv, NEW r \in Requests, InsertFollow(r) \/ DeleteFollow(r)
    PROVE  ListingInv'
<1>1. AccountsTypeOK /\ IsFiniteSet(follows) /\ "ok" \in Working \cup Answers
  BY DEF AccountsInv, ListingInv, Answers
<1>2. /\ Ends(r, "acting", "ok") /\ asked[r].op \in {"follow", "unfollow"}
      /\ Noticed /\ UNCHANGED <<users, lastId, listed>>
  BY DEF InsertFollow, DeleteFollow, Acts
<1>3. /\ phase'[r] = "ok" /\ asked' = asked
      /\ \A q \in Requests \ {r} : phase'[q] = phase[q] /\ target'[q] = target[q]
  BY <1>1, <1>2, EndsLeaves
<1>4. AccountsInv'
  BY RequestStepInvariant DEF RequestStep
<1>5. (follows \subseteq follows' \/ follows' \subseteq follows) /\ IsFiniteSet(follows')
  <2>1. CASE InsertFollow(r)
    <3>1. \E f : follows' = follows \cup {f}
      BY <2>1 DEF InsertFollow
    <3> QED
      BY <1>1, <3>1, FS_AddElement
  <2>2. CASE DeleteFollow(r)
    <3>1. follows' \subseteq follows
      BY <2>2 DEF DeleteFollow
    <3> QED
      BY <1>1, <3>1, FS_Subset
  <2> QED
    BY <2>1, <2>2
<1>6. ASSUME NEW q \in Requests
      PROVE  /\ phase'[q] \in Working => phase[q] \in Working
             /\ phase'[q] = "ok" => phase[q] = "ok" \/ ~Lists(q)
             /\ phase'[q] = "acting" /\ Lists(q)
                  => phase[q] = "acting" /\ target'[q] = target[q]
  <2>1. CASE q = r
    BY <1>2, <1>3, <2>1 DEF Working, Lists
  <2>2. CASE q # r
    BY <1>3, <2>2
  <2> QED
    BY <2>1, <2>2
<1> QED
  BY <1>2, <1>3, <1>4, <1>5, <1>6, NoticedKeeps

LEMMA DeleteUserStays ==
    ASSUME AccountsInv, ListingInv, NEW u \in users, DeleteUser(u)
    PROVE  ListingInv'
<1>1. /\ users' \subseteq users /\ follows' \subseteq follows /\ Noticed
      /\ UNCHANGED <<lastId, asked, listed, phase, target>>
  BY DEF DeleteUser, request
<1>2. AccountsInv' /\ IsFiniteSet(follows')
  BY <1>1, DeleteUserKeeps, FS_Subset DEF ListingInv
<1> QED
  BY <1>1, <1>2, NoticedKeeps

LEMMA ListingInit ==
    ASSUME AccountsInit
    PROVE  ListingInv
<1>1. /\ follows = {} /\ phase = [r \in Requests |-> "ok"]
      /\ listed = [r \in Requests |-> <<>>] /\ steady = [r \in Requests |-> {}]
      /\ skipped = [r \in Requests |-> 0] /\ shifted = [r \in Requests |-> 0]
  BY DEF AccountsInit
<1>2. IsFiniteSet({}) /\ Cardinality({}) = 0 /\ <<>> \in Seq(Follows)
  BY FS_EmptySet
<1>3. ListingTypeOK
  BY <1>1, <1>2 DEF ListingTypeOK
<1>4. ASSUME NEW r \in Requests PROVE ListingOf(r)
  <2>1. Seen(r) = {} /\ Missed(r) = {}
    BY <1>1 DEF Seen, Missed
  <2>2. Len(listed[r]) <= shifted[r] + Cardinality(Seen(r)) /\ Cardinality(Missed(r)) <= skipped[r]
    BY <1>1, <1>2, <2>1
  <2> QED
    BY <1>1, <1>2, <2>2 DEF ListingOf, Working
<1> QED
  BY <1>1, <1>2, <1>3, <1>4 DEF ListingInv

LEMMA ListingStep ==
    ASSUME AccountsInv, ListingInv, [AccountsNext]_accountsVars
    PROVE  ListingInv'
<1>1. ASSUME NEW r \in Requests, RequestStep(r) PROVE ListingInv'
  <2>1. CASE \E a \in Asked : Request(r, a)
    BY <2>1, RequestOpens
  <2>2. CASE Authenticate(r) \/ Find(r)
    BY <2>2, LookUpStays
  <2>3. CASE AuthenticateFails(r) \/ FindSelf(r)
    <3>1. UNCHANGED <<tables, listing>> /\ \E from : Ends(r, from, "denied")
      BY <2>3 DEF AuthenticateFails, FindSelf
    <3> QED
      BY <3>1, QuietEndStays DEF Answers
  <2>4. CASE FindFails(r) \/ InsertOrphaned(r)
    <3>1. UNCHANGED <<tables, listing>> /\ \E from : Ends(r, from, "unknown")
      BY <2>4 DEF FindFails, InsertOrphaned
    <3> QED
      BY <3>1, QuietEndStays DEF Answers
  <2>5. CASE InsertDuplicate(r)
    <3>1. UNCHANGED <<tables, listing>> /\ Ends(r, "acting", "ok") /\ ~Lists(r)
      BY <2>5 DEF InsertDuplicate, Acts, Lists
    <3> QED
      BY <3>1, QuietEndStays DEF Answers
  <2>6. CASE InsertConflict(r)
    <3>1. UNCHANGED <<tables, listing>> /\ Ends(r, "acting", "taken")
      BY <2>6 DEF InsertConflict
    <3> QED
      BY <3>1, QuietEndStays DEF Answers
  <2>7. CASE Refresh(r)
    <3>1. /\ UNCHANGED <<tables, listing>> /\ phase[r] = "refreshing"
          /\ \E reply \in Answers : Ends(r, "refreshing", reply)
      BY <2>7 DEF Refresh, Ends, Moves, Answers
    <3>2. ~Lists(r)
      BY <3>1 DEF AccountsInv, Remembered, Lists
    <3> QED
      BY <3>1, <3>2, QuietEndStays
  <2>8. CASE InsertFollow(r) \/ DeleteFollow(r)
    BY <2>8, WritesStay
  <2>9. CASE InsertUser(r)
    BY <2>9, InsertUserStays
  <2>10. CASE ReadPage(r)
    BY <2>10, ReadPageStays
  <2> QED
    BY <1>1, <2>1, <2>2, <2>3, <2>4, <2>5, <2>6, <2>7, <2>8, <2>9, <2>10 DEF RequestStep
<1>2. CASE UNCHANGED accountsVars
  <2>1. UNCHANGED <<tables, asked, listing, phase, target>>
    BY <1>2 DEF accountsVars, request
  <2> QED
    BY <2>1, AllListingsStay
<1> QED
  BY <1>1, <1>2, DeleteUserStays DEF AccountsNext

\* Every page of every listing keeps the client's copy, what it has passed and
\* the history together.
THEOREM AccountsListing == AccountsSpec => []ListingInv
<1> QED
  BY ListingInit, ListingStep, AccountsInvariant, PTL DEF AccountsSpec

\* However many changes meet a listing and at whatever page size, the client
\* misses only what others pushed back and sees twice only what others pushed on.
THEOREM AccountsListingExact == AccountsSpec => []ListingExact
<1>1. ListingInv => ListingExact
  <2> SUFFICES ASSUME ListingInv, NEW r \in Requests
               PROVE  /\ phase[r] = "ok" => Cardinality(Missed(r)) <= skipped[r]
                      /\ Len(listed[r]) - Cardinality(Seen(r)) <= shifted[r]
    BY DEF ListingInv, ListingExact, Missed, Seen
  <2>1. ListingOf(r) /\ ListingTypeOK
    BY DEF ListingInv
  <2> DEFINE l == Len(listed[r])
             s == Cardinality(Seen(r))
             k == shifted[r]
  <2>2. l \in Nat /\ s \in Nat /\ k \in Nat /\ l <= k + s
    BY <2>1, SeenType DEF ListingOf, ListingTypeOK
  <2> HIDE DEF l, s, k
  <2>3. l - s <= k
    BY <2>2
  <2> QED
    BY <2>1, <2>3 DEF ListingOf, l, s, k
<1> QED
  BY <1>1, AccountsListing, PTL
=============================================================================
