-------------------------- MODULE OpSetRowsProofs ---------------------------
(***************************************************************************)
(* What the operators of OpSet on sequences of rows return, for any document *)
(* and any batch: sequences and what is left of them, the registers of rows, *)
(* the rows of an element with those of a batch, and which of them wins.   *)
(***************************************************************************)
EXTENDS OpSetProofs, SequenceTheorems

-----------------------------------------------------------------------------
(* Counting *)

\* Induction over the natural numbers, for a set.
LEMMA AllNumbers ==
    ASSUME NEW T \in SUBSET Nat, 0 \in T, \A n \in T : n + 1 \in T
    PROVE  T = Nat
  <1> DEFINE R == Nat \ T
  <1>1. ASSUME R # {} PROVE FALSE
    <2>1. PICK n \in R : \A m \in R : ~(<<m, n>> \in OpToRel(<, Nat))
      BY <1>1, NatLessThanWellFounded, WFMin
    <2>2. n - 1 \in R
      <3>1. n \in Nat /\ n # 0
        BY <2>1
      <3>2. n - 1 \in Nat /\ (n - 1) + 1 = n
        BY <3>1
      <3>3. n - 1 \notin T
        BY <2>1, <3>2
      <3> QED
        BY <3>2, <3>3
    <2>3. <<n - 1, n>> \in OpToRel(<, Nat)
      BY <2>1, <2>2 DEF OpToRel
    <2> QED BY <2>1, <2>2, <2>3
  <1> QED BY <1>1

\* A nonempty set of numbers has a least one.
LEMMA LeastNumber ==
    ASSUME NEW T \in SUBSET Nat, T # {}
    PROVE  \E n \in T : \A m \in T : n <= m
  <1>1. PICK n \in T : \A m \in T : ~(<<m, n>> \in OpToRel(<, Nat))
    BY NatLessThanWellFounded, WFMin
  <1>2. \A m \in T : n <= m
    <2> TAKE m \in T
    <2>1. m \in Nat /\ n \in Nat /\ <<m, n>> \notin OpToRel(<, Nat)
      BY <1>1
    <2>2. ~(m < n)
      BY <2>1 DEF OpToRel
    <2>3. m \in Nat /\ n \in Nat
      OBVIOUS
    <2> QED
      BY <2>2, <2>3
  <1> QED
    BY <1>2

\* Min(T) is the least of the numbers T.
LEMMA MinIs ==
    ASSUME NEW T \in SUBSET Nat, T # {}
    PROVE  Min(T) \in T /\ \A m \in T : Min(T) <= m
  <1>1. PICK n \in T : \A m \in T : n <= m
    BY LeastNumber
  <1> QED
    BY <1>1 DEF Min

\* Max(T) is the greatest of the numbers T, which are bounded.
LEMMA MaxIs ==
    ASSUME NEW T \in SUBSET Nat, NEW b \in Nat, \A n \in T : n <= b, T # {}
    PROVE  Max(T) \in T /\ \A m \in T : m <= Max(T)
  <1> DEFINE U == {b - n : n \in T}
  <1>1. PICK u \in U : \A v \in U : u <= v
    <2>1. \A n \in T : b - n \in Nat
      OBVIOUS
    <2>2. U \in SUBSET Nat /\ U # {}
      BY <2>1
    <2> HIDE DEF U
    <2> QED
      BY <2>2, LeastNumber
  <1>2. PICK n \in T : u = b - n
    OBVIOUS
  <1>3. \A m \in T : m <= n
    <2> TAKE m \in T
    <2>1. b - m \in U
      OBVIOUS
    <2> QED
      BY <1>1, <1>2, <2>1
  <1> QED
    BY <1>3 DEF Max

\* A strict order R of the finite set S numbers its elements by how many are below.
LEMMA RankIs ==
    ASSUME NEW S, IsFiniteSet(S), NEW R,
           \A i \in S : <<i, i>> \notin R,
           \A i, j, k \in S : <<i, j>> \in R /\ <<j, k>> \in R => <<i, k>> \in R,
           \A i, j \in S : i = j \/ <<i, j>> \in R \/ <<j, i>> \in R
    PROVE  /\ \A k \in 1 .. Cardinality(S) :
                  \E i \in S : Cardinality({j \in S : <<j, i>> \in R}) = k - 1
           /\ \A i \in S : Cardinality({j \in S : <<j, i>> \in R}) \in 0 .. Cardinality(S) - 1
           /\ \A i, j \in S : <<i, j>> \in R <=>
                  Cardinality({l \in S : <<l, i>> \in R}) < Cardinality({l \in S : <<l, j>> \in R})
  <1> DEFINE Below(i) == {j \in S : <<j, i>> \in R}
             N == Cardinality(S)
             f == [i \in S |-> Cardinality(Below(i))]
  <1>1. N \in Nat
    BY FS_CardinalityType
  <1>2. ASSUME NEW i \in S
        PROVE  Cardinality(Below(i)) \in 0 .. N - 1 /\ IsFiniteSet(Below(i))
    <2>1. Below(i) \in SUBSET S /\ Below(i) # S
      OBVIOUS
    <2> HIDE DEF Below
    <2>2. IsFiniteSet(Below(i)) /\ Cardinality(Below(i)) <= N /\ Cardinality(Below(i)) # N
      BY <2>1, FS_Subset
    <2>3. Cardinality(Below(i)) \in Nat
      BY <2>2, FS_CardinalityType
    <2> HIDE DEF N
    <2> QED
      BY <1>1, <2>2, <2>3
  <1>3. ASSUME NEW i \in S, NEW j \in S, <<i, j>> \in R
        PROVE  Cardinality(Below(i)) < Cardinality(Below(j))
    <2>1. Below(i) \in SUBSET Below(j)
      BY <1>3
    <2>2. i \in Below(j) /\ i \notin Below(i)
      BY <1>3
    <2> HIDE DEF Below
    <2>3. Cardinality(Below(i)) <= Cardinality(Below(j)) /\ Cardinality(Below(i)) # Cardinality(Below(j))
      BY <1>2, <2>1, <2>2, FS_Subset
    <2> QED
      BY <1>1, <1>2, <2>3 DEF N
  <1>4. \A i, j \in S : <<i, j>> \in R <=> Cardinality(Below(i)) < Cardinality(Below(j))
    <2> TAKE i, j \in S
    <2>1. Cardinality(Below(i)) \in Nat /\ Cardinality(Below(j)) \in Nat
      <3> HIDE DEF Below, N
      <3> QED
        BY <1>1, <1>2
    <2>2. i = j \/ <<i, j>> \in R \/ <<j, i>> \in R
      OBVIOUS
    <2> HIDE DEF Below
    <2> QED
      BY <1>3, <2>1, <2>2
  <1>5. f \in Injection(S, 0 .. N - 1)
    <2>1. f \in [S -> 0 .. N - 1]
      <3> HIDE DEF Below, N
      <3> QED
        BY <1>2
    <2>2. \A i, j \in S : f[i] = f[j] => i = j
      <3> TAKE i, j \in S
      <3>1. Cardinality(Below(i)) \in Nat /\ Cardinality(Below(j)) \in Nat
        <4> HIDE DEF Below, N
        <4> QED
          BY <1>1, <1>2
      <3>2. i = j \/ <<i, j>> \in R \/ <<j, i>> \in R
        OBVIOUS
      <3> HIDE DEF Below
      <3> QED
        BY <1>4, <3>1, <3>2
    <2> HIDE DEF f, N
    <2> QED
      BY <2>1, <2>2 DEF Injection, IsInjective
  <1>6. f \in Surjection(S, 0 .. N - 1)
    <2>1. IsFiniteSet(0 .. N - 1) /\ Cardinality(0 .. N - 1) = N
      <3> HIDE DEF N
      <3> QED
        BY <1>1, FS_Interval
    <2> HIDE DEF f
    <2> QED
      BY <1>5, <2>1, FS_Injection
  <1>7. \A k \in 1 .. N : \E i \in S : Cardinality(Below(i)) = k - 1
    <2> TAKE k \in 1 .. N
    <2>1. k - 1 \in 0 .. N - 1
      <3> HIDE DEF N
      <3> QED
        BY <1>1
    <2>2. PICK i \in S : f[i] = k - 1
      <3> HIDE DEF f, N
      <3> QED
        BY <1>6, <2>1 DEF Surjection
    <2> QED
      BY <2>2
  <1> HIDE DEF N
  <1> QED
    BY <1>2, <1>4, <1>7 DEF N

-----------------------------------------------------------------------------
(* Sequences *)

\* A function on 1 .. n is a sequence.
LEMMA FunctionIsSeq ==
    ASSUME NEW S, NEW n \in Nat, NEW f \in [1 .. n -> S]
    PROVE  f \in Seq(S) /\ Len(f) = n /\ DOMAIN f = 1 .. n
  BY SeqDef

\* No two places of the sequence s hold the same.
Distinct(s) == \A m, n \in DOMAIN s : s[m] = s[n] => m = n

\* The members of a sequence, which are finitely many.
LEMMA SetOfSeq ==
    ASSUME NEW T, NEW s \in Seq(T)
    PROVE  /\ Len(s) \in Nat /\ DOMAIN s = 1 .. Len(s)
           /\ \A n \in 1 .. Len(s) : s[n] \in T /\ s[n] \in ToSet(s)
           /\ \A x : x \in ToSet(s) <=> \E n \in 1 .. Len(s) : s[n] = x
           /\ ToSet(s) \subseteq T
           /\ IsFiniteSet(ToSet(s))
  <1>1. Len(s) \in Nat /\ DOMAIN s = 1 .. Len(s) /\ s \in [1 .. Len(s) -> T]
    BY LenProperties
  <1>2. \A n \in 1 .. Len(s) : s[n] \in T /\ s[n] \in ToSet(s)
    BY <1>1 DEF ToSet
  <1>3. \A x : x \in ToSet(s) <=> \E n \in 1 .. Len(s) : s[n] = x
    BY <1>1 DEF ToSet
  <1>4. s \in Surjection(1 .. Len(s), ToSet(s))
    <2>1. s \in [1 .. Len(s) -> ToSet(s)]
      BY <1>1, <1>2
    <2> QED
      BY <1>3, <2>1 DEF Surjection
  <1>5. IsFiniteSet(1 .. Len(s))
    BY <1>1, FS_Interval
  <1>6. IsFiniteSet(ToSet(s))
    BY <1>4, <1>5, FS_Surjection
  <1> QED
    BY <1>1, <1>2, <1>3, <1>6

\* A sequence without repetition is as long as it has members.
LEMMA DistinctLen ==
    ASSUME NEW T, NEW s \in Seq(T), Distinct(s)
    PROVE  Len(s) = Cardinality(ToSet(s))
  <1>1. Len(s) \in Nat /\ DOMAIN s = 1 .. Len(s) /\ s \in [1 .. Len(s) -> T]
    BY LenProperties
  <1>2. s \in Injection(1 .. Len(s), ToSet(s)) /\ s \in Surjection(1 .. Len(s), ToSet(s))
    <2>1. s \in [1 .. Len(s) -> ToSet(s)]
      BY <1>1, SetOfSeq
    <2>2. IsInjective(s)
      BY <1>1 DEF Distinct, IsInjective
    <2>3. \A x \in ToSet(s) : \E n \in 1 .. Len(s) : s[n] = x
      BY <1>1, SetOfSeq
    <2> QED
      BY <2>1, <2>2, <2>3 DEF Injection, Surjection
  <1>3. IsFiniteSet(ToSet(s)) /\ IsFiniteSet(1 .. Len(s)) /\ Cardinality(1 .. Len(s)) = Len(s)
    BY <1>1, SetOfSeq, FS_Interval
  <1>4. Cardinality(1 .. Len(s)) = Cardinality(ToSet(s))
    BY <1>2, <1>3, FS_Injection
  <1> QED
    BY <1>3, <1>4

\* Ascending(S) has the identifiers S, each once, in their order.
LEMMA AscendingIs ==
    ASSUME NEW S \in SUBSET (Nat \X Nat), IsFiniteSet(S)
    PROVE  /\ Ascending(S) \in Seq(S)
           /\ Len(Ascending(S)) = Cardinality(S)
           /\ Cardinality(S) \in Nat
           /\ ToSet(Ascending(S)) = S
           /\ \A k, l \in 1 .. Cardinality(S) : Less(Ascending(S)[k], Ascending(S)[l]) <=> k < l
           /\ Distinct(Ascending(S))
  <1> DEFINE R == {p \in S \X S : Less(p[1], p[2])}
             N == Cardinality(S)
             A == Ascending(S)
             Below(i) == {j \in S : Less(j, i)}
  <1>0. N \in Nat
    BY FS_CardinalityType
  <1>1. \A i, j \in S : <<i, j>> \in R <=> Less(i, j)
    BY DEF Less
  <1>2. /\ \A i \in S : <<i, i>> \notin R
        /\ \A i, j, k \in S : <<i, j>> \in R /\ <<j, k>> \in R => <<i, k>> \in R
        /\ \A i, j \in S : i = j \/ <<i, j>> \in R \/ <<j, i>> \in R
    <2> HIDE DEF R
    <2> QED
      BY <1>1, LessIsOrder
  <1>3. \A i \in S : {j \in S : <<j, i>> \in R} = Below(i)
    <2> HIDE DEF R
    <2> QED
      BY <1>1
  <1>4. /\ \A k \in 1 .. N : \E i \in S : Cardinality({j \in S : <<j, i>> \in R}) = k - 1
        /\ \A i \in S : Cardinality({j \in S : <<j, i>> \in R}) \in 0 .. N - 1
        /\ \A i, j \in S : <<i, j>> \in R <=>
               Cardinality({l \in S : <<l, i>> \in R}) < Cardinality({l \in S : <<l, j>> \in R})
    <2> HIDE DEF R
    <2> QED
      BY <1>2, RankIs
  <1>5. /\ \A k \in 1 .. N : \E i \in S : Cardinality(Below(i)) = k - 1
        /\ \A i \in S : Cardinality(Below(i)) \in 0 .. N - 1
        /\ \A i, j \in S : Less(i, j) <=> Cardinality(Below(i)) < Cardinality(Below(j))
    <2> HIDE DEF R, Below, N
    <2> QED
      BY <1>1, <1>3, <1>4
  <1>6. A = [k \in 1 .. N |-> CHOOSE i \in S : Cardinality(Below(i)) = k - 1]
    BY DEF Ascending
  <1> HIDE DEF A, Below, N, R
  <1>7. \A k \in 1 .. N : A[k] \in S /\ Cardinality(Below(A[k])) = k - 1
    BY <1>5, <1>6
  <1>8. A \in [1 .. N -> S]
    BY <1>6, <1>7
  <1>9. A \in Seq(S) /\ Len(A) = N /\ DOMAIN A = 1 .. N
    BY <1>0, <1>8, FunctionIsSeq
  <1>10. \A k, l \in 1 .. N : Less(A[k], A[l]) <=> k < l
    <2> TAKE k, l \in 1 .. N
    <2>1. A[k] \in S /\ A[l] \in S
      BY <1>7
    <2>2. Less(A[k], A[l]) <=> Cardinality(Below(A[k])) < Cardinality(Below(A[l]))
      BY <1>5, <2>1
    <2>3. Less(A[k], A[l]) <=> k - 1 < l - 1
      BY <1>7, <2>2
    <2> QED
      BY <1>0, <2>3
  <1>11. \A i \in S : \E k \in 1 .. N : A[k] = i
    <2> TAKE i \in S
    <2> DEFINE k == Cardinality(Below(i)) + 1
    <2>1. k \in 1 .. N
      BY <1>0, <1>5
    <2>2. A[k] \in S /\ Cardinality(Below(A[k])) = Cardinality(Below(i))
      BY <1>0, <1>5, <1>7, <2>1
    <2>3. ~Less(A[k], i) /\ ~Less(i, A[k])
      BY <1>0, <1>5, <2>2
    <2>4. A[k] = i
      BY <2>2, <2>3, LessIsOrder
    <2> QED
      BY <2>1, <2>4
  <1>12. ToSet(A) = S
    BY <1>7, <1>9, <1>11 DEF ToSet
  <1>13. Distinct(A)
    <2> SUFFICES ASSUME NEW k \in 1 .. N, NEW l \in 1 .. N, A[k] = A[l]
                 PROVE  k = l
      BY <1>9 DEF Distinct
    <2>1. ~Less(A[k], A[l]) /\ ~Less(A[l], A[k])
      BY <1>7, LessIsOrder
    <2> QED
      BY <1>0, <1>10, <2>1
  <1> QED
    BY <1>0, <1>9, <1>10, <1>12, <1>13 DEF A, N

\* Nth(N, k) goes through the numbers N in their order.
LEMMA NthIs ==
    ASSUME NEW N \in SUBSET Nat, IsFiniteSet(N)
    PROVE  /\ Cardinality(N) \in Nat
           /\ \A k \in 1 .. Cardinality(N) : Nth(N, k) \in N
           /\ \A n \in N : \E k \in 1 .. Cardinality(N) : Nth(N, k) = n
           /\ \A k, l \in 1 .. Cardinality(N) : Nth(N, k) < Nth(N, l) <=> k < l
  <1> DEFINE R == {p \in N \X N : p[1] < p[2]}
             C == Cardinality(N)
             Below(n) == {m \in N : m < n}
             UpTo(n) == {m \in N : m <= n}
  <1>0. C \in Nat
    BY FS_CardinalityType
  <1>1. \A i, j \in N : <<i, j>> \in R <=> i < j
    OBVIOUS
  <1>2. /\ \A i \in N : <<i, i>> \notin R
        /\ \A i, j, k \in N : <<i, j>> \in R /\ <<j, k>> \in R => <<i, k>> \in R
        /\ \A i, j \in N : i = j \/ <<i, j>> \in R \/ <<j, i>> \in R
    <2> HIDE DEF R
    <2> QED
      BY <1>1
  <1>3. \A i \in N : {j \in N : <<j, i>> \in R} = Below(i)
    <2> HIDE DEF R
    <2> QED
      BY <1>1
  <1>4. /\ \A k \in 1 .. C : \E i \in N : Cardinality({j \in N : <<j, i>> \in R}) = k - 1
        /\ \A i \in N : Cardinality({j \in N : <<j, i>> \in R}) \in 0 .. C - 1
        /\ \A i, j \in N : <<i, j>> \in R <=>
               Cardinality({l \in N : <<l, i>> \in R}) < Cardinality({l \in N : <<l, j>> \in R})
    <2> HIDE DEF R
    <2> QED
      BY <1>2, RankIs
  <1>5. /\ \A k \in 1 .. C : \E i \in N : Cardinality(Below(i)) = k - 1
        /\ \A i \in N : Cardinality(Below(i)) \in 0 .. C - 1
        /\ \A i, j \in N : i < j <=> Cardinality(Below(i)) < Cardinality(Below(j))
    <2> HIDE DEF R, Below, C
    <2> QED
      BY <1>1, <1>3, <1>4
  <1>A. \A n \in N : n \in Nat /\ Cardinality(Below(n)) \in Nat
    <2> HIDE DEF Below, C
    <2> QED
      BY <1>0, <1>5
  <1>6. \A n \in N : Cardinality(UpTo(n)) = Cardinality(Below(n)) + 1
    <2> TAKE n \in N
    <2>0. n \in Nat /\ \A m \in N : m \in Nat
      OBVIOUS
    <2>1. n \notin Below(n) /\ Below(n) \in SUBSET N
      BY <2>0
    <2>3. UpTo(n) = Below(n) \cup {n}
      <3>1. \A m \in N : m <= n <=> m < n \/ m = n
        BY <2>0
      <3> QED
        BY <3>1
    <2> HIDE DEF UpTo, Below
    <2>2. IsFiniteSet(Below(n))
      BY <2>1, FS_Subset
    <2> QED
      BY <2>1, <2>2, <2>3, FS_AddElement
  <1>7. \A k : Nth(N, k) = CHOOSE n \in N : Cardinality(UpTo(n)) = k
    BY DEF Nth
  <1> HIDE DEF Below, UpTo, C, R
  <1>8. \A k \in 1 .. C : Nth(N, k) \in N /\ Cardinality(Below(Nth(N, k))) = k - 1
    <2> TAKE k \in 1 .. C
    <2>1. PICK n \in N : Cardinality(Below(n)) = k - 1
      BY <1>5
    <2>2. Cardinality(UpTo(n)) = k
      BY <1>0, <1>6, <2>1
    <2>3. Nth(N, k) \in N /\ Cardinality(UpTo(Nth(N, k))) = k
      BY <1>7, <2>2
    <2>4. ASSUME NEW x \in N, Cardinality(UpTo(x)) = k
          PROVE  Cardinality(Below(x)) = k - 1
      BY <1>0, <1>6, <1>A, <2>4
    <2> QED
      BY <2>3, <2>4
  <1>9. \A k, l \in 1 .. C : Nth(N, k) < Nth(N, l) <=> k < l
    <2> TAKE k, l \in 1 .. C
    <2>1. Nth(N, k) \in N /\ Nth(N, l) \in N
      BY <1>8
    <2>2. Nth(N, k) < Nth(N, l) <=> Cardinality(Below(Nth(N, k))) < Cardinality(Below(Nth(N, l)))
      BY <1>5, <2>1
    <2>3. Nth(N, k) < Nth(N, l) <=> k - 1 < l - 1
      BY <1>8, <2>2
    <2> QED
      BY <1>0, <2>3
  <1>10. \A n \in N : \E k \in 1 .. C : Nth(N, k) = n
    <2> TAKE n \in N
    <2>1. PICK k \in 1 .. C : k = Cardinality(Below(n)) + 1
      BY <1>0, <1>5
    <2>2. Nth(N, k) \in N /\ Cardinality(Below(Nth(N, k))) = Cardinality(Below(n))
      BY <1>0, <1>5, <1>8, <2>1
    <2>3. ASSUME NEW x \in N, Cardinality(Below(x)) = Cardinality(Below(n))
          PROVE  x = n
      <3>1. ~(x < n) /\ ~(n < x)
        BY <1>5, <1>A, <2>3
      <3> QED
        BY <1>A, <3>1
    <2>4. Nth(N, k) = n
      BY <2>2, <2>3
    <2> QED
      BY <2>1, <2>4
  <1> QED
    BY <1>0, <1>8, <1>9, <1>10 DEF C

\* Only(s, V) is what of s is in V, in the same order.
LEMMA OnlyIs ==
    ASSUME NEW T, NEW s \in Seq(T), NEW V
    PROVE  /\ Only(s, V) \in Seq(T)
           /\ Len(Only(s, V)) \in Nat /\ DOMAIN Only(s, V) = 1 .. Len(Only(s, V))
           /\ \E f :
                  /\ \A k \in 1 .. Len(Only(s, V)) :
                         f[k] \in 1 .. Len(s) /\ Only(s, V)[k] = s[f[k]] /\ s[f[k]] \in V
                  /\ \A n \in 1 .. Len(s) : s[n] \in V => \E k \in 1 .. Len(Only(s, V)) : f[k] = n
                  /\ \A k, l \in 1 .. Len(Only(s, V)) : f[k] < f[l] <=> k < l
  <1> DEFINE kept == {n \in DOMAIN s : s[n] \in V}
             C == Cardinality(kept)
             f == [k \in 1 .. C |-> Nth(kept, k)]
             w == Only(s, V)
  <1>1. Len(s) \in Nat /\ DOMAIN s = 1 .. Len(s) /\ \A n \in 1 .. Len(s) : s[n] \in T
    BY LenProperties
  <1>2. kept \in SUBSET (1 .. Len(s)) /\ kept \in SUBSET Nat /\ IsFiniteSet(kept)
    <2>1. kept \in SUBSET (1 .. Len(s))
      BY <1>1
    <2>2. IsFiniteSet(1 .. Len(s))
      BY <1>1, FS_Interval
    <2> HIDE DEF kept
    <2>3. IsFiniteSet(kept)
      BY <2>1, <2>2, FS_Subset
    <2>4. 1 .. Len(s) \subseteq Nat
      BY <1>1
    <2> QED
      BY <2>1, <2>3, <2>4
  <1>3. /\ C \in Nat
        /\ \A k \in 1 .. C : Nth(kept, k) \in kept
        /\ \A n \in kept : \E k \in 1 .. C : Nth(kept, k) = n
        /\ \A k, l \in 1 .. C : Nth(kept, k) < Nth(kept, l) <=> k < l
    <2> HIDE DEF kept
    <2> QED
      BY <1>2, NthIs
  <1>4. w = [k \in 1 .. C |-> s[Nth(kept, k)]]
    BY DEF Only
  <1> HIDE DEF w, C
  <1>5. \A k \in 1 .. C : Nth(kept, k) \in 1 .. Len(s) /\ s[Nth(kept, k)] \in V /\ s[Nth(kept, k)] \in T
    BY <1>1, <1>3
  <1>6. w \in [1 .. C -> T]
    BY <1>4, <1>5
  <1>7. w \in Seq(T) /\ Len(w) = C /\ DOMAIN w = 1 .. C
    BY <1>3, <1>6, FunctionIsSeq
  <1>8. \A k \in 1 .. C : f[k] \in 1 .. Len(s) /\ w[k] = s[f[k]] /\ s[f[k]] \in V
    BY <1>4, <1>5
  <1>9. \A n \in 1 .. Len(s) : s[n] \in V => \E k \in 1 .. C : f[k] = n
    BY <1>1, <1>3
  <1>10. \A k, l \in 1 .. C : f[k] < f[l] <=> k < l
    BY <1>3
  <1> HIDE DEF f, kept
  <1> QED
    BY <1>3, <1>7, <1>8, <1>9, <1>10 DEF w

\* The sequence s has x somewhere before y.
Precedes(s, x, y) == \E m, n \in DOMAIN s : m < n /\ s[m] = x /\ s[n] = y

\* The sequence w has what of s is in V, in its order.
Keeps(w, s, V) ==
    /\ ToSet(w) = ToSet(s) \cap V
    /\ Distinct(s) => Distinct(w)
    /\ \A x, y : Precedes(w, x, y) <=> x \in V /\ y \in V /\ Precedes(s, x, y)

\* Only(s, V) keeps the members of s that are in V, and their order.
LEMMA OnlyHas ==
    ASSUME NEW T, NEW s \in Seq(T), NEW V
    PROVE  Only(s, V) \in Seq(T) /\ Keeps(Only(s, V), s, V)
  <1> DEFINE w == Only(s, V)
             N == Len(w)
  <1>1. Len(s) \in Nat /\ DOMAIN s = 1 .. Len(s) /\ \A n \in 1 .. Len(s) : s[n] \in T
    BY LenProperties
  <1>2. w \in Seq(T) /\ N \in Nat /\ DOMAIN w = 1 .. N
    BY OnlyIs
  <1>3. PICK f :
            /\ \A k \in 1 .. N : f[k] \in 1 .. Len(s) /\ w[k] = s[f[k]] /\ s[f[k]] \in V
            /\ \A n \in 1 .. Len(s) : s[n] \in V => \E k \in 1 .. N : f[k] = n
            /\ \A k, l \in 1 .. N : f[k] < f[l] <=> k < l
    BY OnlyIs
  <1> HIDE DEF w, N
  <1>4. ToSet(w) = ToSet(s) \cap V
    <2>1. ASSUME NEW x \in ToSet(w) PROVE x \in ToSet(s) \cap V
      BY <1>1, <1>2, <1>3 DEF ToSet
    <2>2. ASSUME NEW x \in ToSet(s), x \in V PROVE x \in ToSet(w)
      <3>1. PICK n \in 1 .. Len(s) : s[n] = x
        BY <1>1 DEF ToSet
      <3>2. PICK k \in 1 .. N : f[k] = n
        BY <1>3, <2>2, <3>1
      <3> QED
        BY <1>2, <1>3, <3>1, <3>2 DEF ToSet
    <2> QED
      BY <2>1, <2>2
  <1>5. ASSUME Distinct(s) PROVE Distinct(w)
    <2> SUFFICES ASSUME NEW k \in 1 .. N, NEW l \in 1 .. N, w[k] = w[l]
                 PROVE  k = l
      BY <1>2 DEF Distinct
    <2>1. f[k] = f[l] /\ f[k] \in 1 .. Len(s)
      BY <1>1, <1>3, <1>5 DEF Distinct
    <2>2. ~(k < l) /\ ~(l < k)
      BY <1>1, <1>3, <2>1
    <2> QED
      BY <1>2, <2>2
  <1>6. ASSUME NEW x, NEW y, Precedes(w, x, y)
        PROVE  x \in V /\ y \in V /\ Precedes(s, x, y)
    <2>1. PICK m \in 1 .. N, n \in 1 .. N : m < n /\ w[m] = x /\ w[n] = y
      BY <1>2, <1>6 DEF Precedes
    <2>2. f[m] \in 1 .. Len(s) /\ f[n] \in 1 .. Len(s) /\ f[m] < f[n]
      BY <1>3, <2>1
    <2> QED
      BY <1>1, <1>3, <2>1, <2>2 DEF Precedes
  <1>7. ASSUME NEW x \in V, NEW y \in V, Precedes(s, x, y)
        PROVE  Precedes(w, x, y)
    <2>1. PICK m \in 1 .. Len(s), n \in 1 .. Len(s) : m < n /\ s[m] = x /\ s[n] = y
      BY <1>1, <1>7 DEF Precedes
    <2>2. PICK k \in 1 .. N, l \in 1 .. N : f[k] = m /\ f[l] = n
      BY <1>3, <2>1
    <2>3. k < l /\ w[k] = x /\ w[l] = y
      BY <1>3, <2>1, <2>2
    <2> QED
      BY <1>2, <2>3 DEF Precedes
  <1>8. Keeps(w, s, V)
    BY <1>4, <1>5, <1>6, <1>7 DEF Keeps
  <1> QED
    BY <1>2, <1>8 DEF w

\* The rows a to b start at one of the places from and end before the next.
Block(d, from, a, b) ==
    /\ a \in from /\ b \in a .. Len(d.order)
    /\ \A n \in a + 1 .. b : n \notin from
    /\ b = Len(d.order) \/ b + 1 \in from

\* The groups are the blocks, one for each place where one starts.
LEMMA GroupedIs ==
    ASSUME NEW d, NEW T, d.order \in Seq(T), NEW from \in SUBSET (1 .. Len(d.order))
    PROVE  /\ \A g \in ToSet(Grouped(d, from)) :
                  \E a, b \in 1 .. Len(d.order) : Block(d, from, a, b) /\ g = SubSeq(d.order, a, b)
           /\ \A a \in from : \E b \in 1 .. Len(d.order) :
                  Block(d, from, a, b) /\ SubSeq(d.order, a, b) \in ToSet(Grouped(d, from))
  <1> DEFINE C == Cardinality(from)
             L == Len(d.order)
             end(k) == IF k < C THEN Nth(from, k + 1) - 1 ELSE L
             G == Grouped(d, from)
  <1>1. L \in Nat
    BY LenProperties
  <1>2. IsFiniteSet(from) /\ from \in SUBSET Nat
    <2>1. IsFiniteSet(1 .. L)
      BY <1>1, FS_Interval
    <2>2. 1 .. L \subseteq Nat
      BY <1>1
    <2> QED
      BY <2>1, <2>2, FS_Subset
  <1>3. /\ C \in Nat
        /\ \A k \in 1 .. C : Nth(from, k) \in from
        /\ \A n \in from : \E k \in 1 .. C : Nth(from, k) = n
        /\ \A k, l \in 1 .. C : Nth(from, k) < Nth(from, l) <=> k < l
    BY <1>2, NthIs
  <1>4. G = [k \in 1 .. C |-> SubSeq(d.order, Nth(from, k), end(k))]
    BY DEF Grouped
  <1> HIDE DEF G, C, L
  <1>5. ASSUME NEW k \in 1 .. C
        PROVE  end(k) \in 1 .. L /\ Block(d, from, Nth(from, k), end(k))
    <2> DEFINE a == Nth(from, k)
    <2>1. a \in from /\ a \in 1 .. L
      BY <1>3 DEF L
    <2>2. CASE k < C
      <3> DEFINE z == Nth(from, k + 1)
      <3>1. k + 1 \in 1 .. C /\ k < k + 1
        BY <1>3, <2>2
      <3>2. z \in from /\ z \in 1 .. L /\ a < z
        BY <1>3, <3>1 DEF L
      <3>3. ASSUME NEW n \in from, a < n
            PROVE  z <= n
        <4>1. PICK l \in 1 .. C : Nth(from, l) = n
          BY <1>3
        <4>2. k < l
          BY <1>3, <3>3, <4>1
        <4>3. ~(l < k + 1)
          BY <1>3, <4>2
        <4>4. ~(n < z)
          BY <1>3, <3>1, <4>1, <4>3
        <4>5. n \in Nat /\ z \in Nat
          BY <1>2, <3>2
        <4> QED
          BY <4>4, <4>5
      <3>4. end(k) = z - 1
        BY <2>2
      <3> HIDE DEF z, a, end
      <3>5. \A n \in a + 1 .. z - 1 : n \notin from
        BY <1>1, <2>1, <3>2, <3>3
      <3>6. z - 1 \in a .. L /\ (z - 1) + 1 = z
        BY <1>1, <2>1, <3>2
      <3> QED
        BY <1>1, <2>1, <3>2, <3>4, <3>5, <3>6 DEF Block, a, L
    <2>3. CASE ~(k < C)
      <3>1. k = C /\ end(k) = L
        BY <1>3, <2>3
      <3>2. ASSUME NEW n \in from PROVE ~(a < n)
        <4>1. PICK l \in 1 .. C : Nth(from, l) = n
          BY <1>3
        <4> QED
          BY <1>3, <3>1, <4>1
      <3> HIDE DEF a, end
      <3>3. \A n \in a + 1 .. L : n \notin from
        BY <1>1, <2>1, <3>2
      <3> QED
        BY <1>1, <2>1, <3>1, <3>3 DEF Block, a, L
    <2> QED
      BY <2>2, <2>3
  <1> HIDE DEF end
  <1>6. \A k \in 1 .. C : Nth(from, k) \in 1 .. L
    BY <1>3 DEF L
  <1>7. \A g \in ToSet(G) : \E k \in 1 .. C : g = SubSeq(d.order, Nth(from, k), end(k))
    BY <1>4 DEF ToSet
  <1>8. \A k \in 1 .. C : SubSeq(d.order, Nth(from, k), end(k)) \in ToSet(G)
    BY <1>4 DEF ToSet
  <1>9. \A g \in ToSet(G) : \E a, b \in 1 .. L : Block(d, from, a, b) /\ g = SubSeq(d.order, a, b)
    BY <1>5, <1>6, <1>7
  <1>10. \A a \in from : \E b \in 1 .. L : Block(d, from, a, b) /\ SubSeq(d.order, a, b) \in ToSet(G)
    BY <1>3, <1>5, <1>8
  <1> QED
    BY <1>9, <1>10 DEF G, L

\* Blocks do not overlap.
LEMMA BlocksApart ==
    ASSUME NEW d, Len(d.order) \in Nat, NEW from \in SUBSET (1 .. Len(d.order)),
           NEW a \in from, NEW b, Block(d, from, a, b),
           NEW g \in from, NEW h, Block(d, from, g, h), NEW n \in a .. b, n \in g .. h
    PROVE  a = g /\ b = h
  <1>1. /\ a \in 1 .. Len(d.order) /\ g \in 1 .. Len(d.order)
        /\ b \in 1 .. Len(d.order) /\ h \in 1 .. Len(d.order) /\ a <= b /\ g <= h
    BY DEF Block
  <1>2. \A m \in from : m \in 1 .. Len(d.order) /\ ~(a + 1 <= m /\ m <= b) /\ ~(g + 1 <= m /\ m <= h)
    BY <1>1 DEF Block
  <1>3. a = g
    BY <1>1, <1>2
  <1>4. b = h
    <2>1. b = Len(d.order) \/ b + 1 \in from
      BY DEF Block
    <2>2. h = Len(d.order) \/ h + 1 \in from
      BY DEF Block
    <2>3. ~(b < h)
      BY <1>1, <1>2, <1>3, <2>1
    <2>4. ~(h < b)
      BY <1>1, <1>2, <1>3, <2>2
    <2> QED
      BY <1>1, <2>3, <2>4
  <1> QED
    BY <1>3, <1>4

\* Each row after the first of the places from is in a block.
LEMMA BlockOf ==
    ASSUME NEW d, NEW T, d.order \in Seq(T), NEW from \in SUBSET (1 .. Len(d.order)),
           NEW n \in 1 .. Len(d.order), \E a \in from : a <= n
    PROVE  \E a, b \in 1 .. Len(d.order) : Block(d, from, a, b) /\ n \in a .. b
  <1> DEFINE L == Len(d.order)
             A == {a \in from : a <= n}
  <1>1. L \in Nat
    BY LenProperties
  <1>A. n \in Nat /\ \A a \in from : a \in Nat
    BY <1>1
  <1> HIDE DEF L
  <1>2. A \in SUBSET Nat /\ A # {} /\ \A a \in A : a <= n
    BY <1>A
  <1>3. PICK a : a = Max(A)
    OBVIOUS
  <1>4. a \in A /\ \A m \in A : m <= a
    <2> HIDE DEF A
    <2> QED
      BY <1>2, <1>3, <1>A, MaxIs
  <1>5. a \in from /\ a <= n /\ \A m \in from : m <= n => m <= a
    BY <1>4
  <1> HIDE DEF A
  <1>6. PICK b \in 1 .. L : Block(d, from, a, b)
    BY <1>5, GroupedIs DEF L
  <1>7. a \in 1 .. L
    BY <1>5 DEF L
  <1>8. n <= b
    <2>1. b = L \/ b + 1 \in from
      BY <1>6 DEF Block, L
    <2>2. a <= b
      BY <1>1, <1>6, <1>7 DEF Block, L
    <2>3. n \in 1 .. L
      BY DEF L
    <2> QED
      BY <1>1, <1>5, <1>6, <1>7, <2>1, <2>2, <2>3
  <1>9. n \in a .. b
    BY <1>1, <1>5, <1>6, <1>7, <1>8 DEF L
  <1> QED
    BY <1>6, <1>7, <1>9 DEF L

\* What a part of a sequence of different rows has.
LEMMA PartHas ==
    ASSUME NEW T, NEW s \in Seq(T), NEW a \in 1 .. Len(s), NEW b \in a .. Len(s)
    PROVE  /\ SubSeq(s, a, b) \in Seq(T)
           /\ Len(SubSeq(s, a, b)) = b - a + 1
           /\ \A k \in 1 .. b - a + 1 : SubSeq(s, a, b)[k] = s[a + k - 1]
           /\ \A x : x \in ToSet(SubSeq(s, a, b)) <=> \E n \in a .. b : s[n] = x
           /\ Distinct(s) => Distinct(SubSeq(s, a, b))
  <1> DEFINE L == Len(s)
             w == SubSeq(s, a, b)
  <1>1. L \in Nat /\ \A n \in 1 .. L : s[n] \in T
    BY LenProperties
  <1>2. a \in Int /\ b \in Int /\ a <= b /\ 1 <= a /\ b <= L
    BY <1>1
  <1>3. \A n \in a .. b : s[n] \in T
    BY <1>1, <1>2
  <1>4. /\ w \in Seq(T)
        /\ Len(w) = IF a <= b THEN b - a + 1 ELSE 0
        /\ \A k \in 1 .. b - a + 1 : w[k] = s[a + k - 1]
    BY <1>2, <1>3, SubSeqProperties
  <1> HIDE DEF w, L
  <1>5. Len(w) = b - a + 1 /\ DOMAIN w = 1 .. b - a + 1
    BY <1>2, <1>4, LenProperties
  <1>6. \A x : x \in ToSet(w) <=> \E n \in a .. b : s[n] = x
    <2>1. ASSUME NEW x \in ToSet(w) PROVE \E n \in a .. b : s[n] = x
      <3>1. PICK k \in 1 .. b - a + 1 : w[k] = x
        BY <1>5, <2>1 DEF ToSet
      <3>2. a + k - 1 \in a .. b
        BY <1>2
      <3> QED
        BY <1>4, <3>1, <3>2
    <2>2. ASSUME NEW n \in a .. b PROVE s[n] \in ToSet(w)
      <3>1. n - a + 1 \in 1 .. b - a + 1 /\ a + (n - a + 1) - 1 = n
        BY <1>2
      <3>2. w[n - a + 1] = s[n]
        BY <1>4, <3>1
      <3> QED
        BY <1>5, <3>1, <3>2 DEF ToSet
    <2> QED
      BY <2>1, <2>2
  <1>7. ASSUME Distinct(s) PROVE Distinct(w)
    <2> SUFFICES ASSUME NEW k \in 1 .. b - a + 1, NEW l \in 1 .. b - a + 1, w[k] = w[l]
                 PROVE  k = l
      BY <1>5 DEF Distinct
    <2>1. s[a + k - 1] = s[a + l - 1]
      BY <1>4
    <2>2. a + k - 1 \in 1 .. L /\ a + l - 1 \in 1 .. L
      BY <1>1, <1>2
    <2>3. DOMAIN s = 1 .. L
      BY LenProperties DEF L
    <2>4. a + k - 1 = a + l - 1
      BY <1>7, <2>1, <2>2, <2>3 DEF Distinct
    <2> QED
      BY <1>2, <2>4
  <1> QED
    BY <1>4, <1>5, <1>6, <1>7 DEF w

\* Around finds the block of a row.
LEMMA AroundIs ==
    ASSUME NEW d, NEW T, d.order \in Seq(T), Distinct(d.order),
           NEW from \in SUBSET (1 .. Len(d.order)),
           NEW n \in 1 .. Len(d.order), \E a \in from : a <= n
    PROVE  \E a, b \in 1 .. Len(d.order) :
               /\ Block(d, from, a, b) /\ n \in a .. b
               /\ Around(Grouped(d, from), d.order[n]) = SubSeq(d.order, a, b)
  <1> DEFINE G == Grouped(d, from)
             L == Len(d.order)
             i == d.order[n]
  <1>1. L \in Nat /\ DOMAIN d.order = 1 .. L
    BY LenProperties
  <1>2. \A a, b \in 1 .. L : Block(d, from, a, b) => b \in a .. L
    BY DEF Block
  <1>3. ASSUME NEW a \in 1 .. L, NEW b \in 1 .. L, Block(d, from, a, b), i \in ToSet(SubSeq(d.order, a, b))
        PROVE  n \in a .. b
    <2>1. b \in a .. L
      BY <1>2, <1>3
    <2>2. PICK m \in a .. b : d.order[m] = i
      BY <1>3, <2>1, PartHas
    <2>3. m \in 1 .. L
      BY <1>1, <2>1
    <2> QED
      BY <1>1, <2>2, <2>3 DEF Distinct
  <1>4. PICK a0 \in 1 .. L, b0 \in 1 .. L : Block(d, from, a0, b0) /\ n \in a0 .. b0
    BY BlockOf
  <1>5. a0 \in from /\ b0 \in a0 .. L
    BY <1>4 DEF Block
  <1>6. PICK b1 \in 1 .. L : Block(d, from, a0, b1) /\ SubSeq(d.order, a0, b1) \in ToSet(G)
    BY <1>5, GroupedIs
  <1>7. b1 = b0
    <2>1. a0 \in a0 .. b0 /\ a0 \in a0 .. b1
      BY <1>1, <1>4, <1>6 DEF Block
    <2> QED
      BY <1>1, <1>4, <1>5, <1>6, <2>1, BlocksApart
  <1>8. i \in ToSet(SubSeq(d.order, a0, b0))
    BY <1>4, <1>5, PartHas
  <1>9. Around(G, i) \in ToSet(G) /\ i \in ToSet(Around(G, i))
    BY <1>6, <1>7, <1>8 DEF Around
  <1>10. PICK a \in 1 .. L, b \in 1 .. L : Block(d, from, a, b) /\ Around(G, i) = SubSeq(d.order, a, b)
    BY <1>9, GroupedIs
  <1>11. n \in a .. b
    BY <1>3, <1>9, <1>10
  <1> QED
    BY <1>10, <1>11

\* A row put at the place p of the sequence s.
LEMMA InsertAtIs ==
    ASSUME NEW T, NEW s \in Seq(T), NEW p \in 1 .. Len(s) + 1, NEW x \in T
    PROVE  /\ InsertAt(s, p, x) \in Seq(T)
           /\ Len(InsertAt(s, p, x)) = Len(s) + 1
           /\ \A n \in 1 .. Len(s) : n < p => InsertAt(s, p, x)[n] = s[n]
           /\ InsertAt(s, p, x)[p] = x
           /\ \A n \in 1 .. Len(s) : p <= n => InsertAt(s, p, x)[n + 1] = s[n]
  <1> DEFINE L == Len(s)
             a == SubSeq(s, 1, p - 1)
             b == SubSeq(s, p, L)
  <1>0. L \in Nat /\ \A k \in 1 .. L : s[k] \in T
    BY LenProperties
  <1>1. /\ InsertAt(s, p, x) \in Seq(T)
        /\ Len(InsertAt(s, p, x)) = L + 1
        /\ \A k \in 1 .. L + 1 :
               InsertAt(s, p, x)[k] = IF k < p THEN s[k] ELSE IF k = p THEN x ELSE s[k - 1]
    <2> HIDE DEF L
    <2>0. p \in 1 .. L + 1 /\ p \in Int /\ p - 1 \in Int /\ L \in Int
      BY <1>0 DEF L
    <2>1. \A k \in 1 .. p - 1 : s[k] \in T
      BY <1>0, <2>0
    <2>2. \A k \in p .. L : s[k] \in T
      BY <1>0, <2>0
    <2>3. /\ a \in Seq(T) /\ Len(a) = IF 1 <= p - 1 THEN p - 1 - 1 + 1 ELSE 0
          /\ \A k \in 1 .. p - 1 - 1 + 1 : a[k] = s[1 + k - 1]
      BY <2>0, <2>1, SubSeqProperties
    <2>4. /\ b \in Seq(T) /\ Len(b) = IF p <= L THEN L - p + 1 ELSE 0
          /\ \A k \in 1 .. L - p + 1 : b[k] = s[p + k - 1]
      BY <2>0, <2>2, SubSeqProperties
    <2> HIDE DEF a, b
    <2>5. /\ a \in Seq(T) /\ Len(a) = p - 1 /\ \A k \in 1 .. p - 1 : a[k] = s[k]
          /\ b \in Seq(T) /\ Len(b) = L - p + 1 /\ \A k \in 1 .. L - p + 1 : b[k] = s[p + k - 1]
      BY <1>0, <2>0, <2>3, <2>4
    <2>6. <<x>> \in Seq(T) /\ Len(<<x>>) = 1 /\ <<x>>[1] = x
      OBVIOUS
    <2>7. /\ a \o <<x>> \in Seq(T) /\ Len(a \o <<x>>) = Len(a) + 1
          /\ \A k \in 1 .. Len(a) + 1 : (a \o <<x>>)[k] = IF k <= Len(a) THEN a[k] ELSE <<x>>[k - Len(a)]
      BY <2>5, <2>6, ConcatProperties
    <2>8. /\ a \o <<x>> \in Seq(T) /\ Len(a \o <<x>>) = p
          /\ \A k \in 1 .. p : (a \o <<x>>)[k] = IF k < p THEN s[k] ELSE x
      BY <2>0, <2>5, <2>6, <2>7
    <2> DEFINE c == a \o <<x>>
    <2> HIDE DEF c
    <2>9. /\ c \o b \in Seq(T) /\ Len(c \o b) = Len(c) + Len(b)
          /\ \A k \in 1 .. Len(c) + Len(b) : (c \o b)[k] = IF k <= Len(c) THEN c[k] ELSE b[k - Len(c)]
      BY <2>5, <2>8, ConcatProperties DEF c
    <2>10. c \o b = InsertAt(s, p, x)
      BY DEF InsertAt, a, b, c, L
    <2>11. Len(c) = p /\ \A k \in 1 .. p : c[k] = IF k < p THEN s[k] ELSE x
      BY <2>8 DEF c
    <2>12. Len(c) + Len(b) = L + 1
      BY <2>0, <2>5, <2>11
    <2>13. ASSUME NEW k \in 1 .. L + 1
           PROVE  (c \o b)[k] = IF k < p THEN s[k] ELSE IF k = p THEN x ELSE s[k - 1]
      <3>1. CASE k <= p
        <4>1. k \in 1 .. p /\ (c \o b)[k] = c[k]
          BY <2>0, <2>9, <2>11, <2>12, <3>1
        <4> QED
          BY <2>0, <2>11, <4>1
      <3>2. CASE p < k
        <4>1. (c \o b)[k] = b[k - p]
          BY <2>0, <2>9, <2>11, <2>12, <3>2
        <4>2. k - p \in 1 .. L - p + 1 /\ p + (k - p) - 1 = k - 1
          BY <2>0, <3>2
        <4> QED
          BY <2>0, <2>5, <3>2, <4>1, <4>2
      <3>3. k \in Int
        BY <2>0
      <3>4. k <= p \/ p < k
        BY <2>0, <3>3
      <3> QED
        BY <3>1, <3>2, <3>4
    <2> QED
      BY <2>9, <2>10, <2>12, <2>13
  <1>2. Len(s) \in Nat
    BY LenProperties
  <1>3. \A n \in 1 .. Len(s) : n \in 1 .. Len(s) + 1 /\ n + 1 \in 1 .. Len(s) + 1 /\ (n + 1) - 1 = n
    BY <1>2
  <1>4. \A n \in 1 .. Len(s) : n < p => InsertAt(s, p, x)[n] = s[n]
    BY <1>1, <1>3
  <1>5. InsertAt(s, p, x)[p] = x
    BY <1>1, <1>2
  <1>6. \A n \in 1 .. Len(s) : p <= n => InsertAt(s, p, x)[n + 1] = s[n]
    <2> TAKE n \in 1 .. Len(s)
    <2>1. p <= n => ~(n + 1 < p) /\ n + 1 # p
      BY <1>2
    <2> QED
      BY <1>1, <1>3, <2>1
  <1> QED
    BY <1>1, <1>4, <1>5, <1>6

\* What the sequence w has that is s with x at the place p: x is before what
\* was at p or later, and nothing else changes its order.
LEMMA InsertAtHas ==
    ASSUME NEW T, NEW s \in Seq(T), Distinct(s), NEW p \in 1 .. Len(s) + 1, NEW x \in T, x \notin ToSet(s),
           NEW w, w = InsertAt(s, p, x)
    PROVE  /\ w \in Seq(T) /\ Len(w) = Len(s) + 1
           /\ ToSet(w) = ToSet(s) \cup {x}
           /\ Distinct(w)
           /\ \A y, z \in ToSet(s) : Precedes(w, y, z) <=> Precedes(s, y, z)
           /\ \A n \in 1 .. Len(s) : /\ Precedes(w, s[n], x) <=> n < p
                                     /\ Precedes(w, x, s[n]) <=> p <= n
           /\ p > 1 => w[1] = s[1]
           /\ p = 1 => w[1] = x
  <1> DEFINE L == Len(s)
             up(n) == IF n < p THEN n ELSE n + 1
  <1>1. L \in Nat /\ DOMAIN s = 1 .. L /\ \A n \in 1 .. L : s[n] \in ToSet(s) /\ s[n] # x
    BY LenProperties, SetOfSeq
  <1>2. /\ w \in Seq(T) /\ Len(w) = L + 1 /\ DOMAIN w = 1 .. L + 1
        /\ \A n \in 1 .. L : n < p => w[n] = s[n]
        /\ w[p] = x
        /\ \A n \in 1 .. L : p <= n => w[n + 1] = s[n]
    BY InsertAtIs, LenProperties
  <1> HIDE DEF L
  <1>3. p \in 1 .. L + 1
    BY DEF L
  <1>4. \A n \in 1 .. L : up(n) \in 1 .. L + 1 /\ up(n) # p /\ w[up(n)] = s[n]
    BY <1>1, <1>2, <1>3
  <1>5. \A m, n \in 1 .. L : up(m) < up(n) <=> m < n
    BY <1>1, <1>3
  <1>6. \A k \in 1 .. L + 1 : k # p => \E n \in 1 .. L : up(n) = k
    <2> TAKE k \in 1 .. L + 1
    <2>1. CASE k < p
      <3>1. k \in 1 .. L /\ up(k) = k
        BY <1>1, <1>3, <2>1
      <3> QED
        BY <3>1
    <2>2. CASE p < k
      <3>1. k - 1 \in 1 .. L /\ up(k - 1) = k
        BY <1>1, <1>3, <2>2
      <3> QED
        BY <3>1
    <2> QED
      BY <1>1, <1>3, <2>1, <2>2
  <1>7. \A n \in 1 .. L : (up(n) < p <=> n < p) /\ (p < up(n) <=> p <= n)
    BY <1>1, <1>3
  <1> HIDE DEF up
  <1>8. \A k \in 1 .. L + 1 : w[k] = x => k = p
    BY <1>1, <1>4, <1>6
  <1>9. \A n \in 1 .. L, k \in 1 .. L + 1 : w[k] = s[n] => k = up(n)
    <2> TAKE n \in 1 .. L, k \in 1 .. L + 1
    <2>1. SUFFICES ASSUME w[k] = s[n] PROVE k = up(n)
      OBVIOUS
    <2>2. k # p
      BY <1>1, <1>2, <2>1
    <2>3. PICK m \in 1 .. L : up(m) = k
      BY <1>6, <2>2
    <2>4. s[m] = s[n]
      BY <1>4, <2>1, <2>3
    <2>5. m = n
      BY <1>1, <2>4 DEF Distinct
    <2> QED
      BY <2>3, <2>5
  <1>10. ToSet(w) = ToSet(s) \cup {x}
    <2>1. \A k \in 1 .. L + 1 : w[k] = x \/ w[k] \in ToSet(s)
      BY <1>1, <1>2, <1>4, <1>6
    <2>2. \A n \in 1 .. L : s[n] \in ToSet(w)
      BY <1>2, <1>4 DEF ToSet
    <2>3. x \in ToSet(w)
      BY <1>2, <1>3 DEF ToSet
    <2>4. \A y \in ToSet(w) : \E k \in 1 .. L + 1 : w[k] = y
      BY <1>2 DEF ToSet
    <2>5. \A y \in ToSet(s) : \E n \in 1 .. L : s[n] = y
      BY <1>1 DEF ToSet
    <2> QED
      BY <2>1, <2>2, <2>3, <2>4, <2>5
  <1>11. Distinct(w)
    <2> SUFFICES ASSUME NEW k \in 1 .. L + 1, NEW l \in 1 .. L + 1, w[k] = w[l]
                 PROVE  k = l
      BY <1>2 DEF Distinct
    <2>1. CASE k = p
      BY <1>2, <1>8, <2>1
    <2>2. CASE k # p
      BY <1>4, <1>6, <1>9, <2>2
    <2> QED
      BY <2>1, <2>2
  <1>12. \A m, n \in 1 .. L : Precedes(w, s[m], s[n]) <=> m < n
    <2> TAKE m, n \in 1 .. L
    <2>1. ASSUME m < n PROVE Precedes(w, s[m], s[n])
      <3>1. up(m) < up(n) /\ up(m) \in DOMAIN w /\ up(n) \in DOMAIN w
        BY <1>2, <1>4, <1>5, <2>1
      <3> QED
        BY <1>4, <3>1 DEF Precedes
    <2>2. ASSUME Precedes(w, s[m], s[n]) PROVE m < n
      <3>1. PICK k \in 1 .. L + 1, l \in 1 .. L + 1 : k < l /\ w[k] = s[m] /\ w[l] = s[n]
        BY <1>2, <2>2 DEF Precedes
      <3>2. k = up(m) /\ l = up(n)
        BY <1>9, <3>1
      <3> QED
        BY <1>5, <3>1, <3>2
    <2> QED
      BY <2>1, <2>2
  <1>13. \A m, n \in 1 .. L : Precedes(s, s[m], s[n]) <=> m < n
    <2> TAKE m, n \in 1 .. L
    <2> QED
      BY <1>1 DEF Precedes, Distinct
  <1>14. \A y, z \in ToSet(s) : Precedes(w, y, z) <=> Precedes(s, y, z)
    <2> TAKE y, z \in ToSet(s)
    <2>1. PICK m \in 1 .. L, n \in 1 .. L : s[m] = y /\ s[n] = z
      BY <1>1 DEF ToSet
    <2> QED
      BY <1>12, <1>13, <2>1
  <1>15. \A n \in 1 .. L : /\ Precedes(w, s[n], x) <=> n < p
                           /\ Precedes(w, x, s[n]) <=> p <= n
    <2> TAKE n \in 1 .. L
    <2>1. Precedes(w, s[n], x) <=> up(n) < p
      <3>1. ASSUME up(n) < p PROVE Precedes(w, s[n], x)
        BY <1>2, <1>3, <1>4, <3>1 DEF Precedes
      <3>2. ASSUME Precedes(w, s[n], x) PROVE up(n) < p
        BY <1>2, <1>8, <1>9, <3>2 DEF Precedes
      <3> QED
        BY <3>1, <3>2
    <2>2. Precedes(w, x, s[n]) <=> p < up(n)
      <3>1. ASSUME p < up(n) PROVE Precedes(w, x, s[n])
        BY <1>2, <1>3, <1>4, <3>1 DEF Precedes
      <3>2. ASSUME Precedes(w, x, s[n]) PROVE p < up(n)
        BY <1>2, <1>8, <1>9, <3>2 DEF Precedes
      <3> QED
        BY <3>1, <3>2
    <2> QED
      BY <1>7, <2>1, <2>2
  <1>16. p > 1 => w[1] = s[1]
    <2> SUFFICES ASSUME p > 1 PROVE w[1] = s[1]
      OBVIOUS
    <2>1. 1 \in 1 .. L /\ 1 < p
      BY <1>1, <1>3
    <2> QED
      BY <1>2, <2>1
  <1> QED
    BY <1>2, <1>10, <1>11, <1>14, <1>15, <1>16 DEF L

-----------------------------------------------------------------------------
(* Registers *)

\* Places of rows where registers begin.
From(d) ==
    {n \in DOMAIN d.order : IF object = "list" THEN d.ops[d.order[n]].insert ELSE n = 1}

\* What rows of operations among S are about.
Elements(d, S) == IF object = "list" THEN {i \in S : d.ops[i].insert} ELSE {Head0}

\* Operations refer to elements that have smaller identifiers.
OpsOK(d) ==
    /\ object \in {"map", "list"}
    /\ DOMAIN d.ops \in SUBSET (Nat \X Nat)
    /\ IsFiniteSet(DOMAIN d.ops)
    /\ \A i \in DOMAIN d.ops :
           /\ i # Head0
           /\ d.ops[i].insert => object = "list" /\ HasRow(d, i) /\ ~IsInc(d, i)
           /\ IF object = "list"
              THEN \/ d.ops[i].insert /\ d.ops[i].ref = Head0
                   \/ /\ d.ops[i].ref \in DOMAIN d.ops
                      /\ d.ops[d.ops[i].ref].insert /\ Less(d.ops[i].ref, i)
              ELSE d.ops[i].ref = Head0

\* The document d has the rows of the operations H, which refer to each other only.
RowsOK(d, H) ==
    /\ H \subseteq DOMAIN d.ops
    /\ d.order \in Seq(H)
    /\ Distinct(d.order)
    /\ ToSet(d.order) = {i \in H : HasRow(d, i)}
    /\ object = "list" /\ d.order # <<>> => d.ops[d.order[1]].insert
    /\ \A i \in H : d.ops[i].ref \in H \cup {Head0}

\* Where the register of e is, if it has rows.
LEMMA RegisterIs ==
    ASSUME NEW d, NEW H, RowsOK(d, H), NEW e
    PROVE  \/ RegisterOf(d, e) = <<>> /\ \A a \in From(d) : Elem(d, d.order[a]) # e
           \/ \E a, b \in 1 .. Len(d.order) :
                  /\ Block(d, From(d), a, b) /\ Elem(d, d.order[a]) = e
                  /\ RegisterOf(d, e) = SubSeq(d.order, a, b)
  <1> DEFINE L == Len(d.order)
             G == {g \in ToSet(Registers(d)) : Elem(d, g[1]) = e}
  <1>1. Registers(d) = Grouped(d, From(d))
    BY DEF Registers, From
  <1>2. d.order \in Seq(H) /\ L \in Nat /\ DOMAIN d.order = 1 .. L
    BY LenProperties DEF RowsOK
  <1>3. From(d) \in SUBSET (1 .. L)
    BY <1>2 DEF From
  <1>4. /\ \A g \in ToSet(Registers(d)) : \E a, b \in 1 .. L : Block(d, From(d), a, b) /\ g = SubSeq(d.order, a, b)
        /\ \A a \in From(d) : \E b \in 1 .. L :
               Block(d, From(d), a, b) /\ SubSeq(d.order, a, b) \in ToSet(Registers(d))
    BY <1>1, <1>2, <1>3, GroupedIs
  <1>5. ASSUME NEW a \in 1 .. L, NEW b \in 1 .. L, Block(d, From(d), a, b)
        PROVE  SubSeq(d.order, a, b)[1] = d.order[a]
    <2>1. b \in a .. L
      BY <1>5 DEF Block
    <2>2. \A k \in 1 .. b - a + 1 : SubSeq(d.order, a, b)[k] = d.order[a + k - 1]
      BY <1>2, <2>1, PartHas
    <2>3. 1 \in 1 .. b - a + 1 /\ a + 1 - 1 = a
      BY <1>2, <2>1
    <2> QED
      BY <2>2, <2>3
  <1>6. RegisterOf(d, e) = IF G = {} THEN <<>> ELSE CHOOSE g \in G : TRUE
    BY DEF RegisterOf
  <1>7. CASE G = {}
    <2>1. ASSUME NEW a \in From(d), Elem(d, d.order[a]) = e
          PROVE  FALSE
      <3>1. PICK b \in 1 .. L : Block(d, From(d), a, b) /\ SubSeq(d.order, a, b) \in ToSet(Registers(d))
        BY <1>4
      <3>2. SubSeq(d.order, a, b)[1] = d.order[a]
        BY <1>3, <1>5, <3>1
      <3> QED
        BY <1>7, <2>1, <3>1, <3>2
    <2> QED
      BY <1>6, <1>7, <2>1
  <1>8. CASE G # {}
    <2>1. RegisterOf(d, e) \in G
      BY <1>6, <1>8
    <2>2. RegisterOf(d, e) \in ToSet(Registers(d)) /\ Elem(d, RegisterOf(d, e)[1]) = e
      BY <2>1
    <2>3. PICK a \in 1 .. L, b \in 1 .. L : Block(d, From(d), a, b) /\ RegisterOf(d, e) = SubSeq(d.order, a, b)
      BY <1>4, <2>2
    <2> QED
      BY <1>5, <2>2, <2>3
  <1> QED
    BY <1>7, <1>8

\* Different registers begin with rows of different elements.
LEMMA FromApart ==
    ASSUME NEW d, NEW H, OpsOK(d), RowsOK(d, H), NEW a \in From(d), NEW b \in From(d),
           Elem(d, d.order[a]) = Elem(d, d.order[b])
    PROVE  a = b
  BY DEF From, Elem, RowsOK, Distinct

\* The register of e has rows of the document in their order, first that of e.
LEMMA RegisterHas ==
    ASSUME NEW d, NEW H, OpsOK(d), RowsOK(d, H), NEW e,
           NEW reg, reg = RegisterOf(d, e)
    PROVE  /\ reg \in Seq(H) /\ Distinct(reg)
           /\ ToSet(reg) \subseteq ToSet(d.order)
           /\ \A x, y \in ToSet(reg) : Precedes(reg, x, y) <=> Precedes(d.order, x, y)
           /\ object = "list" /\ reg # <<>> => reg[1] = e /\ e \in H /\ d.ops[e].insert
           /\ object = "list" /\ e \in H /\ d.ops[e].insert => reg # <<>>
           /\ object = "list" => \A i \in ToSet(reg) : d.ops[i].insert => i = e
  <1> DEFINE L == Len(d.order)
  <1>1. d.order \in Seq(H) /\ L \in Nat /\ DOMAIN d.order = 1 .. L /\ Distinct(d.order)
        /\ \A n \in 1 .. L : d.order[n] \in H
    BY LenProperties DEF RowsOK
  <1>2. CASE reg = <<>> /\ \A a \in From(d) : Elem(d, d.order[a]) # e
    <2>1. reg \in Seq(H) /\ Distinct(reg) /\ ToSet(reg) = {}
      BY <1>2 DEF Distinct, ToSet
    <2>2. ASSUME object = "list", e \in H, d.ops[e].insert PROVE FALSE
      <3>1. e \in ToSet(d.order)
        BY <2>2 DEF RowsOK, OpsOK
      <3>2. PICK a \in 1 .. L : d.order[a] = e
        BY <1>1, <3>1 DEF ToSet
      <3> QED
        BY <1>1, <1>2, <2>2, <3>2 DEF From, Elem
    <2> QED
      BY <1>2, <2>1, <2>2
  <1>3. ASSUME NEW a \in 1 .. L, NEW b \in 1 .. L, Block(d, From(d), a, b),
               Elem(d, d.order[a]) = e, reg = SubSeq(d.order, a, b)
        PROVE  /\ reg \in Seq(H) /\ Distinct(reg)
               /\ ToSet(reg) \subseteq ToSet(d.order)
               /\ \A x, y \in ToSet(reg) : Precedes(reg, x, y) <=> Precedes(d.order, x, y)
               /\ object = "list" /\ reg # <<>> => reg[1] = e /\ e \in H /\ d.ops[e].insert
               /\ object = "list" /\ e \in H /\ d.ops[e].insert => reg # <<>>
               /\ object = "list" => \A i \in ToSet(reg) : d.ops[i].insert => i = e
    <2>1. b \in a .. L /\ a \in From(d) /\ \A n \in a + 1 .. b : n \notin From(d)
      BY <1>3 DEF Block
    <2>2. a \in Int /\ b \in Int /\ 1 <= a /\ a <= b /\ b <= L
      BY <1>1, <2>1
    <2>3. /\ reg \in Seq(H) /\ Distinct(reg) /\ Len(reg) = b - a + 1
          /\ \A k \in 1 .. b - a + 1 : reg[k] = d.order[a + k - 1]
          /\ \A x : x \in ToSet(reg) <=> \E n \in a .. b : d.order[n] = x
      BY <1>1, <1>3, <2>1, PartHas
    <2>4. DOMAIN reg = 1 .. b - a + 1 /\ reg # <<>>
      BY <2>2, <2>3, LenProperties, EmptySeq
    <2>5. ToSet(reg) \subseteq ToSet(d.order)
      <3>1. \A n \in a .. b : n \in 1 .. L
        BY <1>1, <2>2
      <3> QED
        BY <1>1, <2>3, <3>1 DEF ToSet
    <2>6. ASSUME NEW x \in ToSet(reg), NEW y \in ToSet(reg)
          PROVE  Precedes(reg, x, y) <=> Precedes(d.order, x, y)
      <3>1. PICK m \in a .. b, n \in a .. b : d.order[m] = x /\ d.order[n] = y
        BY <2>3
      <3>2. m - a + 1 \in 1 .. b - a + 1 /\ n - a + 1 \in 1 .. b - a + 1
            /\ a + (m - a + 1) - 1 = m /\ a + (n - a + 1) - 1 = n
            /\ m \in 1 .. L /\ n \in 1 .. L
        <4>1. m \in Int /\ n \in Int /\ a <= m /\ m <= b /\ a <= n /\ n <= b
          BY <2>2
        <4>2. m \in 1 .. L /\ n \in 1 .. L
          BY <1>1, <2>2, <4>1
        <4> QED
          BY <2>2, <4>1, <4>2
      <3>3. reg[m - a + 1] = x /\ reg[n - a + 1] = y
        BY <2>3, <3>1, <3>2
      <3>4. Precedes(d.order, x, y) <=> m < n
        BY <1>1, <3>1, <3>2 DEF Precedes, Distinct
      <3>5. Precedes(reg, x, y) <=> m - a + 1 < n - a + 1
        BY <2>3, <2>4, <3>2, <3>3 DEF Precedes, Distinct
      <3>6. m - a + 1 < n - a + 1 <=> m < n
        BY <2>2, <3>2
      <3> QED
        BY <3>4, <3>5, <3>6
    <2>7. ASSUME object = "list" PROVE reg[1] = e /\ e \in H /\ d.ops[e].insert
      <3>1. 1 \in 1 .. b - a + 1 /\ a + 1 - 1 = a
        BY <2>2
      <3>2. reg[1] = d.order[a]
        BY <2>3, <3>1
      <3>3. d.ops[d.order[a]].insert
        BY <2>1, <2>7 DEF From
      <3> QED
        BY <1>1, <1>3, <3>2, <3>3 DEF Elem
    <2>8. ASSUME object = "list", NEW i \in ToSet(reg), d.ops[i].insert
          PROVE  i = e
      <3>1. PICK n \in a .. b : d.order[n] = i
        BY <2>3
      <3>2. n \in 1 .. L /\ n \in From(d)
        BY <1>1, <2>2, <2>8, <3>1 DEF From
      <3>3. n = a
        BY <2>1, <2>2, <3>2
      <3> QED
        BY <1>3, <2>8, <3>1, <3>3 DEF Elem
    <2> QED
      BY <2>3, <2>4, <2>5, <2>6, <2>7, <2>8
  <1> QED
    BY <1>2, <1>3, RegisterIs

\* Each row is in one register; registers lie one after the other.
LEMMA RegistersPart ==
    ASSUME NEW d, NEW H, OpsOK(d), RowsOK(d, H)
    PROVE  /\ \A x \in ToSet(d.order) : \E e \in Elements(d, H) : x \in ToSet(RegisterOf(d, e))
           /\ \A e, f, x : x \in ToSet(RegisterOf(d, e)) /\ x \in ToSet(RegisterOf(d, f)) => e = f
           /\ \A e, f, x, y : /\ x \in ToSet(RegisterOf(d, e)) /\ y \in ToSet(RegisterOf(d, f))
                              /\ e # f /\ object = "list"
                              => (Precedes(d.order, x, y) <=> Precedes(d.order, e, f))
  <1> DEFINE L == Len(d.order)
             In(e, a, b) == /\ Block(d, From(d), a, b) /\ Elem(d, d.order[a]) = e
                            /\ RegisterOf(d, e) = SubSeq(d.order, a, b)
  <1>1. d.order \in Seq(H) /\ L \in Nat /\ DOMAIN d.order = 1 .. L /\ Distinct(d.order)
        /\ \A n \in 1 .. L : d.order[n] \in H
    BY LenProperties DEF RowsOK
  <1>2. From(d) \in SUBSET (1 .. L)
    BY <1>1 DEF From
  <1>3. ASSUME NEW e, NEW x \in ToSet(RegisterOf(d, e))
        PROVE  \E a, b \in 1 .. L : In(e, a, b) /\ \E n \in a .. b : d.order[n] = x
    <2>1. RegisterOf(d, e) # <<>>
      BY DEF ToSet
    <2>2. PICK a \in 1 .. L, b \in 1 .. L : In(e, a, b)
      BY <2>1, RegisterIs
    <2>3. b \in a .. L
      BY <2>2 DEF Block
    <2>4. x \in ToSet(SubSeq(d.order, a, b))
      BY <2>2
    <2>5. \E n \in a .. b : d.order[n] = x
      <3> HIDE DEF In
      <3> QED
        BY <1>1, <2>3, <2>4, PartHas
    <2> QED
      BY <2>2, <2>5
  <1>4. ASSUME NEW x \in ToSet(d.order)
        PROVE  \E e \in Elements(d, H) : x \in ToSet(RegisterOf(d, e))
    <2>1. PICK n \in 1 .. L : d.order[n] = x
      BY <1>1 DEF ToSet
    <2>2. 1 \in From(d) /\ 1 <= n /\ 1 \in 1 .. L
      <3>1. 1 \in 1 .. L /\ 1 <= n
        BY <1>1
      <3>2. d.order # <<>>
        BY <1>1, <3>1
      <3> QED
        BY <1>1, <3>1, <3>2 DEF From, RowsOK
    <2>3. PICK a \in 1 .. L, b \in 1 .. L : Block(d, From(d), a, b) /\ n \in a .. b
      BY <1>1, <1>2, <2>2, BlockOf
    <2> DEFINE e == Elem(d, d.order[a])
    <2>4. a \in From(d)
      BY <2>3 DEF Block
    <2>5. e \in Elements(d, H)
      <3>1. CASE object = "list"
        BY <1>1, <2>4, <3>1 DEF From, Elem, Elements
      <3>2. CASE object # "list"
        BY <1>1, <3>2 DEF OpsOK, Elem, Elements, RowsOK
      <3> QED
        BY <3>1, <3>2
    <2>6. PICK a1 \in 1 .. L, b1 \in 1 .. L : In(e, a1, b1)
      BY <2>4, RegisterIs
    <2>7. a1 \in From(d)
      BY <2>6 DEF Block
    <2>8. a1 = a
      BY <2>4, <2>6, <2>7, FromApart
    <2>9. a \in a .. b /\ a \in a .. b1
      BY <1>1, <2>3, <2>6, <2>8 DEF Block
    <2>10. b1 = b
      BY <1>1, <1>2, <2>3, <2>4, <2>6, <2>8, <2>9, BlocksApart
    <2>11. b \in a .. L
      BY <2>3 DEF Block
    <2>12. x \in ToSet(SubSeq(d.order, a, b))
      BY <1>1, <2>1, <2>3, <2>11, PartHas
    <2>13. RegisterOf(d, e) = SubSeq(d.order, a, b)
      BY <2>6, <2>8, <2>10
    <2> HIDE DEF e
    <2> QED
      BY <2>5, <2>12, <2>13
  <1>5. ASSUME NEW e, NEW f, NEW x, x \in ToSet(RegisterOf(d, e)), x \in ToSet(RegisterOf(d, f))
        PROVE  e = f
    <2>1. PICK a \in 1 .. L, b \in 1 .. L : In(e, a, b) /\ \E n \in a .. b : d.order[n] = x
      BY <1>3, <1>5
    <2>2. PICK g \in 1 .. L, h \in 1 .. L : In(f, g, h) /\ \E n \in g .. h : d.order[n] = x
      BY <1>3, <1>5
    <2>3. PICK n \in a .. b : d.order[n] = x
      BY <2>1
    <2>4. PICK m \in g .. h : d.order[m] = x
      BY <2>2
    <2>5. a \in From(d) /\ g \in From(d) /\ b \in a .. L /\ h \in g .. L
      BY <2>1, <2>2 DEF Block
    <2>6. n \in 1 .. L /\ m \in 1 .. L
      BY <1>1, <2>5
    <2>7. m = n
      BY <1>1, <2>3, <2>4, <2>6 DEF Distinct
    <2>8. a = g
      BY <1>1, <1>2, <2>1, <2>2, <2>5, <2>7, BlocksApart
    <2> QED
      BY <2>1, <2>2, <2>8
  <1>6. ASSUME NEW e, NEW f, NEW x, NEW y, x \in ToSet(RegisterOf(d, e)), y \in ToSet(RegisterOf(d, f)),
               e # f, object = "list"
        PROVE  Precedes(d.order, x, y) <=> Precedes(d.order, e, f)
    <2>1. PICK a \in 1 .. L, b \in 1 .. L : In(e, a, b) /\ \E n \in a .. b : d.order[n] = x
      BY <1>3, <1>6
    <2>2. PICK g \in 1 .. L, h \in 1 .. L : In(f, g, h) /\ \E n \in g .. h : d.order[n] = y
      BY <1>3, <1>6
    <2>3. PICK n \in a .. b : d.order[n] = x
      BY <2>1
    <2>4. PICK m \in g .. h : d.order[m] = y
      BY <2>2
    <2>5. a \in From(d) /\ g \in From(d) /\ b \in a .. L /\ h \in g .. L
          /\ (\A k \in a + 1 .. b : k \notin From(d)) /\ (\A k \in g + 1 .. h : k \notin From(d))
      BY <2>1, <2>2 DEF Block
    <2>6. n \in 1 .. L /\ m \in 1 .. L
      BY <1>1, <2>5
    <2>7. d.order[a] = e /\ d.order[g] = f /\ a # g
      <3>1. d.ops[d.order[a]].insert /\ d.ops[d.order[g]].insert
        BY <1>6, <2>5 DEF From
      <3> QED
        BY <1>6, <2>1, <2>2, <3>1 DEF Elem
    <2>8. Precedes(d.order, e, f) <=> a < g
      BY <1>1, <2>7 DEF Precedes, Distinct
    <2>9. Precedes(d.order, x, y) <=> n < m
      BY <1>1, <2>3, <2>4, <2>6 DEF Precedes, Distinct
    <2>10. n < m <=> a < g
      BY <1>1, <2>5, <2>6, <2>7
    <2> QED
      BY <2>8, <2>9, <2>10
  <1> QED
    BY <1>4, <1>5, <1>6

-----------------------------------------------------------------------------
(* Recursion *)

\* N steps stay in X.
StaysIn(X, N, step) == \A x \in X, n \in 1 .. N : step[<<x, n>>] \in X

\* The function f takes N steps from b.
Follows(f, X, b, N, step) ==
    /\ f \in [0 .. N -> X]
    /\ f[0] = b
    /\ \A n \in 1 .. N : f[n] = step[<<f[n - 1], n>>]

\* A function on 0 .. N is defined by its first value and a step.
LEMMA Recursion ==
    ASSUME NEW X, NEW b \in X, NEW N \in Nat, NEW step, StaysIn(X, N, step)
    PROVE  \E f : Follows(f, X, b, N, step)
  <1> DEFINE Steps(k, f) == f[0] = b /\ \A n \in 1 .. k : f[n] = step[<<f[n - 1], n>>]
             T == {k \in Nat : k <= N => \E f \in [0 .. k -> X] : Steps(k, f)}
  <1>1. 0 \in T
    <2>1. [n \in 0 .. 0 |-> b] \in [0 .. 0 -> X] /\ Steps(0, [n \in 0 .. 0 |-> b])
      OBVIOUS
    <2> HIDE DEF Steps
    <2> QED
      BY <2>1
  <1>2. ASSUME NEW k \in T PROVE k + 1 \in T
    <2> SUFFICES ASSUME k + 1 <= N
                 PROVE  \E f \in [0 .. k + 1 -> X] : Steps(k + 1, f)
      OBVIOUS
    <2>1. k \in Nat /\ k <= N /\ k + 1 \in 1 .. N
      OBVIOUS
    <2>2. PICK f \in [0 .. k -> X] : Steps(k, f)
      BY <2>1
    <2> DEFINE g == [n \in 0 .. k + 1 |-> IF n <= k THEN f[n] ELSE step[<<f[k], k + 1>>]]
    <2>3. step[<<f[k], k + 1>>] \in X
      BY <2>1 DEF StaysIn
    <2>4. g \in [0 .. k + 1 -> X]
      BY <2>1, <2>3
    <2>5. g[0] = b
      BY <2>1, <2>2
    <2>6. ASSUME NEW n \in 1 .. k + 1 PROVE g[n] = step[<<g[n - 1], n>>]
      <3>1. n - 1 \in 0 .. k /\ g[n - 1] = f[n - 1]
        BY <2>1
      <3>2. CASE n <= k
        BY <2>1, <2>2, <3>1, <3>2
      <3>3. CASE n = k + 1
        <4>1. n - 1 = k /\ ~(n <= k) /\ n \in 0 .. k + 1
          BY <2>1, <3>3
        <4>2. g[n] = step[<<f[k], k + 1>>]
          BY <4>1
        <4>3. g[n - 1] = f[k]
          BY <3>1, <4>1
        <4> HIDE DEF g
        <4> QED
          BY <3>3, <4>2, <4>3
      <3>4. n <= k \/ n = k + 1
        BY <2>1
      <3> QED
        BY <3>2, <3>3, <3>4
    <2> HIDE DEF g
    <2> QED
      BY <2>4, <2>5, <2>6
  <1>3. T = Nat
    <2> HIDE DEF T
    <2>1. T \in SUBSET Nat
      BY DEF T
    <2> QED
      BY <1>1, <1>2, <2>1, AllNumbers
  <1>4. N \in T
    BY <1>3
  <1> QED
    BY <1>4 DEF Follows

\* Induction from 0 to N.
LEMMA UpTo ==
    ASSUME NEW N \in Nat, NEW S \in SUBSET (0 .. N), 0 \in S,
           \A n \in 1 .. N : n - 1 \in S => n \in S
    PROVE  S = 0 .. N
  <1> DEFINE T == {k \in Nat : k <= N => k \in S}
  <1>1. 0 \in T
    OBVIOUS
  <1>2. ASSUME NEW k \in T PROVE k + 1 \in T
    <2> SUFFICES ASSUME k + 1 <= N PROVE k + 1 \in S
      OBVIOUS
    <2>1. k + 1 \in 1 .. N /\ (k + 1) - 1 = k /\ k <= N
      OBVIOUS
    <2>2. k \in S
      BY <2>1
    <2> QED
      BY <2>1, <2>2
  <1>3. T = Nat
    <2>1. T \in SUBSET Nat
      OBVIOUS
    <2> HIDE DEF T
    <2> QED
      BY <1>1, <1>2, <2>1, AllNumbers
  <1>4. \A n \in 0 .. N : n \in Nat /\ n <= N
    OBVIOUS
  <1>5. \A n \in 0 .. N : n \in S
    BY <1>3, <1>4
  <1> QED
    BY <1>5

-----------------------------------------------------------------------------
(* The rows of an element with those of a batch *)

\* A sequence of members of S is one of members of T.
LEMMA SeqWithin ==
    ASSUME NEW S, NEW T, NEW s \in Seq(S), ToSet(s) \subseteq T
    PROVE  s \in Seq(T)
  <1>1. Len(s) \in Nat /\ DOMAIN s = 1 .. Len(s) /\ \A n \in 1 .. Len(s) : s[n] \in ToSet(s)
    BY LenProperties, SetOfSeq
  <1>2. s \in [1 .. Len(s) -> T]
    BY <1>1, LenProperties
  <1> QED
    BY <1>1, <1>2, FunctionIsSeq

\* A row is put before the first row with a greater identifier.
LEMMA PlacedIs ==
    ASSUME NEW T \in SUBSET (Nat \X Nat), NEW rows \in Seq(T), NEW i \in T
    PROVE  \E p \in 1 .. Len(rows) + 1 :
               /\ Placed(rows, i) = InsertAt(rows, p, i)
               /\ \A n \in 1 .. Len(rows) : n < p => ~Less(i, rows[n])
               /\ p <= Len(rows) => Less(i, rows[p])
  <1> DEFINE later == {n \in DOMAIN rows : Less(i, rows[n])}
             L == Len(rows)
  <1>1. L \in Nat /\ DOMAIN rows = 1 .. L
    BY LenProperties
  <1>2. Placed(rows, i) = InsertAt(rows, IF later = {} THEN L + 1 ELSE Min(later), i)
    BY DEF Placed
  <1>3. CASE later = {}
    <2>1. Placed(rows, i) = InsertAt(rows, L + 1, i)
      BY <1>2, <1>3
    <2>2. \A n \in 1 .. L : ~Less(i, rows[n])
      BY <1>1, <1>3
    <2>3. L + 1 \in 1 .. L + 1 /\ ~(L + 1 <= L)
      BY <1>1
    <2> HIDE DEF L
    <2> QED
      BY <2>1, <2>2, <2>3 DEF L
  <1>4. CASE later # {}
    <2>1. later \in SUBSET Nat
      BY <1>1
    <2>2. PICK p : p = Min(later)
      OBVIOUS
    <2>3. p \in later /\ \A m \in later : p <= m
      <3> HIDE DEF later
      <3> QED
        BY <1>4, <2>1, <2>2, MinIs
    <2>4. p \in 1 .. L /\ Less(i, rows[p])
      BY <1>1, <2>3
    <2>5. ASSUME NEW n \in 1 .. L, n < p PROVE ~Less(i, rows[n])
      <3>1. ASSUME Less(i, rows[n]) PROVE p <= n
        BY <1>1, <2>3, <3>1
      <3>2. n \in Int /\ p \in Int
        BY <1>1, <2>4
      <3> QED
        BY <2>5, <3>1, <3>2
    <2>6. Placed(rows, i) = InsertAt(rows, p, i)
      BY <1>2, <1>4, <2>2
    <2>7. p \in 1 .. L + 1
      BY <1>1, <2>4
    <2> QED
      BY <2>4, <2>5, <2>6, <2>7
  <1> QED
    BY <1>3, <1>4

\* Rows that are not before e are in the order of their identifiers.
Sorted(rows, e) ==
    \A x, y \in ToSet(rows) : ~Less(x, e) /\ ~Less(y, e) /\ Precedes(rows, x, y) => Less(x, y)

\* The rows w are those given and i in its place.
Puts(T, rows, i, w) ==
    /\ w \in Seq(T) /\ Distinct(w)
    /\ ToSet(w) = ToSet(rows) \cup {i}
    /\ \A x, y \in ToSet(rows) : Precedes(w, x, y) <=> Precedes(rows, x, y)
    /\ rows = <<>> => w[1] = i
    /\ rows # <<>> /\ Less(rows[1], i) => w[1] = rows[1]
    /\ \A e \in Nat \X Nat : ~Less(i, e) /\ Sorted(rows, e) => Sorted(w, e)
    /\ w # <<>>

\* A row in its place is added and moves no others.
LEMMA PlacedHas ==
    ASSUME NEW T \in SUBSET (Nat \X Nat), NEW rows \in Seq(T), Distinct(rows),
           NEW i \in T, i \notin ToSet(rows), NEW w, w = Placed(rows, i)
    PROVE  Puts(T, rows, i, w)
  <1> DEFINE L == Len(rows)
  <1>1. L \in Nat /\ DOMAIN rows = 1 .. L /\ \A n \in 1 .. L : rows[n] \in T /\ rows[n] \in ToSet(rows)
    BY LenProperties, SetOfSeq
  <1>2. PICK p \in 1 .. L + 1 :
             /\ w = InsertAt(rows, p, i)
             /\ \A n \in 1 .. L : n < p => ~Less(i, rows[n])
             /\ p <= L => Less(i, rows[p])
    BY PlacedIs
  <1>3. /\ w \in Seq(T) /\ Len(w) = L + 1
        /\ ToSet(w) = ToSet(rows) \cup {i}
        /\ Distinct(w)
        /\ \A y, z \in ToSet(rows) : Precedes(w, y, z) <=> Precedes(rows, y, z)
        /\ \A n \in 1 .. L : /\ Precedes(w, rows[n], i) <=> n < p
                             /\ Precedes(w, i, rows[n]) <=> p <= n
        /\ p > 1 => w[1] = rows[1]
        /\ p = 1 => w[1] = i
    BY <1>2, InsertAtHas
  <1>4. w # <<>>
    BY <1>1, <1>3, EmptySeq
  <1>5. rows = <<>> => w[1] = i
    <2> SUFFICES ASSUME rows = <<>> PROVE w[1] = i
      OBVIOUS
    <2>1. L = 0
      BY EmptySeq
    <2>2. p = 1
      BY <1>2, <2>1
    <2> QED
      BY <1>3, <2>2
  <1>6. rows # <<>> /\ Less(rows[1], i) => w[1] = rows[1]
    <2> SUFFICES ASSUME rows # <<>>, Less(rows[1], i) PROVE w[1] = rows[1]
      OBVIOUS
    <2>1. L # 0
      BY EmptySeq
    <2>2. 1 \in 1 .. L /\ rows[1] \in T
      BY <1>1, <2>1
    <2>3. ~Less(i, rows[1])
      BY <2>2, LessIsOrder
    <2>4. p # 1
      BY <1>1, <1>2, <2>2, <2>3
    <2>5. p > 1
      BY <1>1, <1>2, <2>4
    <2> QED
      BY <1>3, <2>5
  <1>7. ASSUME NEW e \in Nat \X Nat, ~Less(i, e), Sorted(rows, e) PROVE Sorted(w, e)
    <2> SUFFICES ASSUME NEW x \in ToSet(w), NEW y \in ToSet(w), ~Less(x, e), ~Less(y, e), Precedes(w, x, y)
                 PROVE  Less(x, y)
      BY DEF Sorted
    <2>0. ToSet(rows) \subseteq T
      BY SetOfSeq
    <2>1. CASE x # i /\ y # i
      BY <1>3, <1>7, <2>1 DEF Sorted
    <2>2. CASE y = i
      <3>1. x # i
        <4>1. PICK m, n \in DOMAIN w : m < n /\ w[m] = x /\ w[n] = y
          BY DEF Precedes
        <4>2. DOMAIN w = 1 .. L + 1 /\ m # n
          BY <1>1, <1>3, <4>1, LenProperties
        <4> QED
          BY <1>3, <2>2, <4>1, <4>2 DEF Distinct
      <3>2. PICK n \in 1 .. L : rows[n] = x
        BY <1>1, <1>3, <3>1 DEF ToSet
      <3>3. n < p
        BY <1>3, <2>2, <3>2
      <3>4. ~Less(i, x)
        BY <1>2, <3>2, <3>3
      <3> QED
        BY <1>1, <2>2, <3>1, <3>2, <3>4, LessIsOrder
    <2>3. CASE x = i /\ y # i
      <3>1. PICK n \in 1 .. L : rows[n] = y
        BY <1>1, <1>3, <2>3 DEF ToSet
      <3>2. p <= n
        BY <1>3, <2>3, <3>1
      <3>3. p \in 1 .. L /\ Less(i, rows[p])
        BY <1>1, <1>2, <3>2
      <3>4. CASE p = n
        BY <2>3, <3>1, <3>3, <3>4
      <3>5. CASE p < n
        <4>1. Precedes(rows, rows[p], y)
          BY <1>1, <3>1, <3>3, <3>5 DEF Precedes
        <4>2. ~Less(rows[p], e)
          BY <1>1, <1>7, <3>3, LessIsOrder
        <4>3. Less(rows[p], y)
          BY <1>1, <1>7, <3>1, <3>3, <4>1, <4>2 DEF Sorted
        <4> QED
          BY <1>1, <2>3, <3>1, <3>3, <4>3, LessIsOrder
      <3> QED
        BY <1>1, <1>2, <3>2, <3>4, <3>5
    <2> QED
      BY <2>1, <2>2, <2>3
  <1> QED
    BY <1>3, <1>4, <1>5, <1>6, <1>7 DEF Puts

\* A batch is among the operations of the document and has no rows yet.
BatchOK(d, B) ==
    /\ OpsOK(d)
    /\ B \subseteq DOMAIN d.ops
    /\ RowsOK(d, DOMAIN d.ops \ B)

\* What the batch has on the element e.
NewOn(d, B, e) == {i \in B : Elem(d, i) = e}

\* What is new on the element e, in its order.
LEMMA NewHas ==
    ASSUME NEW d, NEW B, BatchOK(d, B), NEW e \in Elements(d, DOMAIN d.ops),
           NEW new, new = Ascending(NewOn(d, B, e))
    PROVE  /\ new \in Seq(DOMAIN d.ops) /\ Len(new) \in Nat
           /\ ToSet(new) = NewOn(d, B, e)
           /\ Distinct(new)
           /\ \A k \in 1 .. Len(new) : new[k] \in B /\ Elem(d, new[k]) = e
           /\ \A k, l \in 1 .. Len(new) : Less(new[k], new[l]) <=> k < l
           /\ \A k \in 1 .. Len(new) : ~Less(new[k], e)
           /\ object = "list" /\ e \in B => Len(new) > 0 /\ new[1] = e
           /\ object = "list" => \A k \in 1 .. Len(new) : new[k] = e \/ Less(e, new[k])
  <1> DEFINE S == {i \in B : Elem(d, i) = e}
  <1>1. S \in SUBSET DOMAIN d.ops /\ S \in SUBSET (Nat \X Nat) /\ IsFiniteSet(S)
    <2>1. S \in SUBSET DOMAIN d.ops /\ IsFiniteSet(DOMAIN d.ops) /\ DOMAIN d.ops \in SUBSET (Nat \X Nat)
      BY DEF BatchOK, OpsOK
    <2> HIDE DEF S
    <2> QED
      BY <2>1, FS_Subset
  <1>2. /\ new \in Seq(S) /\ Len(new) = Cardinality(S) /\ Cardinality(S) \in Nat
        /\ ToSet(new) = S
        /\ \A k, l \in 1 .. Cardinality(S) : Less(new[k], new[l]) <=> k < l
        /\ Distinct(new)
    <2> HIDE DEF S
    <2>1. new = Ascending(S)
      BY DEF S, NewOn
    <2> QED
      BY <1>1, <2>1, AscendingIs
  <1> HIDE DEF S
  <1>3. new \in Seq(DOMAIN d.ops) /\ \A k \in 1 .. Len(new) : new[k] \in S
    BY <1>1, <1>2, LenProperties, SeqWithin
  <1>4. \A k \in 1 .. Len(new) : new[k] \in B /\ Elem(d, new[k]) = e
    BY <1>3 DEF S
  <1>5. e \in Nat \X Nat
    BY DEF Elements, BatchOK, OpsOK, Head0
  <1>6. ASSUME object = "list", NEW i \in S PROVE i = e \/ Less(e, i)
    BY <1>6 DEF S, Elem, BatchOK, OpsOK
  <1>7. ASSUME NEW i \in S PROVE ~Less(i, e)
    <2>1. CASE object = "list"
      BY <1>1, <1>5, <1>6, <2>1, LessIsOrder
    <2>2. CASE object # "list"
      <3>1. e = <<0, 0>> /\ i \in Nat \X Nat
        BY <1>1, <2>2 DEF Elements, Head0
      <3> QED
        BY <3>1 DEF Less
    <2> QED
      BY <2>1, <2>2
  <1>8. ASSUME object = "list", e \in B PROVE Len(new) > 0 /\ new[1] = e
    <2>1. e \in S
      BY <1>8 DEF S, Elem, Elements
    <2>2. PICK k \in 1 .. Len(new) : new[k] = e
      BY <1>2, <2>1, SetOfSeq
    <2>3. 1 \in 1 .. Len(new) /\ Len(new) > 0
      BY <1>2, <2>2
    <2>4. ~Less(new[1], e)
      BY <1>3, <1>7, <2>3
    <2>5. ~(1 < k)
      BY <1>2, <2>2, <2>3, <2>4
    <2>6. k = 1
      BY <1>2, <2>2, <2>5
    <2> QED
      BY <2>2, <2>3, <2>6
  <1> QED
    BY <1>2, <1>3, <1>4, <1>6, <1>7, <1>8 DEF S, NewOn

\* From the rows reg the function f goes by the operations of the sequence new.
PlacesAll(reg, new, f) ==
    f = [n \in 0 .. Len(new) |-> IF n = 0 THEN reg ELSE Placed(f[n - 1], new[n])]

\* OnElement goes from the register by the operations of the batch.
LEMMA OnElementIs ==
    ASSUME NEW d, NEW B, NEW e, NEW new, new = Ascending(NewOn(d, B, e)),
           \E f : PlacesAll(RegisterOf(d, e), new, f)
    PROVE  \E f : PlacesAll(RegisterOf(d, e), new, f) /\ OnElement(d, B, e) = f[Len(new)]
  <1> DEFINE placed[n \in 0 .. Len(new)] ==
            IF n = 0 THEN RegisterOf(d, e) ELSE Placed(placed[n - 1], new[n])
  <1>1. placed = [n \in 0 .. Len(new) |-> IF n = 0 THEN RegisterOf(d, e) ELSE Placed(placed[n - 1], new[n])]
    <2>1. \E f : f = [n \in 0 .. Len(new) |-> IF n = 0 THEN RegisterOf(d, e) ELSE Placed(f[n - 1], new[n])]
      BY DEF PlacesAll
    <2> QED
      BY <2>1
  <1>2. PlacesAll(RegisterOf(d, e), new, placed)
    <2> HIDE DEF placed
    <2> QED
      BY <1>1 DEF PlacesAll
  <1>3. OnElement(d, B, e) = placed[Len(new)]
    BY DEF OnElement, NewOn
  <1> HIDE DEF placed
  <1> QED
    BY <1>2, <1>3

\* What is on an element: its register and what the batch has on it, first the
\* element itself, and in the order of identifiers if the register was.
LEMMA OnElementHas ==
    ASSUME NEW d, NEW B, BatchOK(d, B), NEW e \in Elements(d, DOMAIN d.ops),
           NEW w, w = OnElement(d, B, e), NEW reg, reg = RegisterOf(d, e)
    PROVE  /\ w \in Seq(DOMAIN d.ops) /\ Distinct(w)
           /\ ToSet(w) = ToSet(reg) \cup NewOn(d, B, e)
           /\ \A x, y \in ToSet(reg) : Precedes(w, x, y) <=> Precedes(reg, x, y)
           /\ object = "list" => w # <<>> /\ w[1] = e
           /\ Sorted(reg, e) => Sorted(w, e)
  <1> DEFINE D == DOMAIN d.ops
             new == Ascending(NewOn(d, B, e))
             N == Len(new)
             Is(f) == PlacesAll(reg, new, f)
  <1>0. new = Ascending(NewOn(d, B, e))
    OBVIOUS
  <1> HIDE DEF new
  <1>1. /\ new \in Seq(D) /\ N \in Nat
        /\ ToSet(new) = NewOn(d, B, e)
        /\ Distinct(new)
        /\ \A k \in 1 .. N : new[k] \in B /\ Elem(d, new[k]) = e
        /\ \A k, l \in 1 .. N : Less(new[k], new[l]) <=> k < l
        /\ \A k \in 1 .. N : ~Less(new[k], e)
        /\ object = "list" /\ e \in B => N > 0 /\ new[1] = e
        /\ object = "list" => \A k \in 1 .. N : new[k] = e \/ Less(e, new[k])
    BY <1>0, NewHas
  <1>2. /\ reg \in Seq(D \ B) /\ Distinct(reg) /\ D \in SUBSET (Nat \X Nat) /\ B \subseteq D
        /\ object = "list" /\ reg # <<>> => reg[1] = e /\ e \in D \ B
        /\ object = "list" /\ e \in D \ B => reg # <<>>
        /\ object = "list" => e \in D
    <2>1. OpsOK(d) /\ RowsOK(d, D \ B) /\ B \subseteq D
      BY DEF BatchOK
    <2>2. object = "list" => e \in D /\ d.ops[e].insert
      BY DEF Elements
    <2> QED
      BY <2>1, <2>2, RegisterHas DEF OpsOK
  <1>3. reg \in Seq(D) /\ ToSet(reg) \subseteq D \ B
    <2>1. ToSet(reg) \subseteq D \ B
      BY <1>2, SetOfSeq
    <2> QED
      BY <1>2, <2>1, LenProperties, SeqDef
  <1>4. e \in Nat \X Nat
    BY DEF Elements, BatchOK, OpsOK, Head0
  <1> DEFINE In(n) == {new[k] : k \in 1 .. n}
             Inv(g, n) == /\ g \in Seq(D) /\ Distinct(g)
                          /\ ToSet(g) = ToSet(reg) \cup In(n)
                          /\ \A x, y \in ToSet(reg) : Precedes(g, x, y) <=> Precedes(reg, x, y)
                          /\ object = "list" /\ (reg # <<>> \/ n > 0) => g # <<>> /\ g[1] = e
                          /\ n = 0 => g = reg
                          /\ Sorted(reg, e) => Sorted(g, e)
  <1>5. \E f : Is(f)
    <2> DEFINE step == [p \in Seq(D) \X (1 .. N) |-> Placed(p[1], new[p[2]])]
    <2>1. StaysIn(Seq(D), N, step)
      <3> SUFFICES ASSUME NEW g \in Seq(D), NEW n \in 1 .. N PROVE step[<<g, n>>] \in Seq(D)
        BY DEF StaysIn
      <3>1. new[n] \in D
        BY <1>1, <1>2
      <3>2. \E p \in 1 .. Len(g) + 1 : Placed(g, new[n]) = InsertAt(g, p, new[n])
        BY <1>2, <3>1, PlacedIs
      <3>3. Placed(g, new[n]) \in Seq(D)
        BY <3>1, <3>2, InsertAtIs
      <3> HIDE DEF N, D
      <3> QED
        BY <3>3
    <2>2. PICK f : Follows(f, Seq(D), reg, N, step)
      <3>1. reg \in Seq(D) /\ N \in Nat
        BY <1>1, <1>3
      <3> HIDE DEF step, N, new, D
      <3> QED
        BY <2>1, <3>1, Recursion
    <2>5. f \in [0 .. N -> Seq(D)]
      BY <2>2 DEF Follows
    <2>3. ASSUME NEW n \in 1 .. N PROVE f[n] = Placed(f[n - 1], new[n])
      <3>1. n - 1 \in 0 .. N
        BY <1>1
      <3>2. <<f[n - 1], n>> \in Seq(D) \X (1 .. N)
        BY <2>5, <3>1
      <3> HIDE DEF N, new, D
      <3> QED
        BY <2>2, <3>2 DEF Follows
    <2>4. Is(f)
      <3>1. \A n \in 0 .. N : f[n] = IF n = 0 THEN reg ELSE Placed(f[n - 1], new[n])
        <4>1. \A n \in 0 .. N : n = 0 \/ n \in 1 .. N
          BY <1>1
        <4> HIDE DEF N, new, D, step
        <4> QED
          BY <2>2, <2>3, <4>1 DEF Follows
      <3>2. f = [n \in 0 .. N |-> IF n = 0 THEN reg ELSE Placed(f[n - 1], new[n])]
        <4> HIDE DEF N, new, D, step
        <4> QED
          BY <2>5, <3>1
      <3> QED
        BY <3>2 DEF PlacesAll
    <2> QED
      BY <2>4
  <1>6. PICK f : Is(f) /\ w = f[N]
    BY <1>0, <1>5, OnElementIs
  <1>7. f[0] = reg /\ \A n \in 1 .. N : f[n] = Placed(f[n - 1], new[n])
    <2>1. 0 \in 0 .. N /\ \A n \in 1 .. N : n \in 0 .. N /\ n # 0
      BY <1>1
    <2>2. f = [n \in 0 .. N |-> IF n = 0 THEN reg ELSE Placed(f[n - 1], new[n])]
      BY <1>6 DEF PlacesAll
    <2> HIDE DEF N
    <2> QED
      BY <2>1, <2>2
  <1> DEFINE S == {n \in 0 .. N : Inv(f[n], n)}
  <1>8. 0 \in S
    <2>1. In(0) = {}
      OBVIOUS
    <2>2. Inv(reg, 0)
      <3> HIDE DEF In, N, new, D
      <3> QED
        BY <1>2, <1>3, <2>1
    <2>3. 0 \in 0 .. N
      BY <1>1
    <2> HIDE DEF Inv
    <2> QED
      BY <1>7, <2>2, <2>3
  <1>9. ASSUME NEW n \in 1 .. N, n - 1 \in S PROVE n \in S
    <2>0. n - 1 \in 0 .. N /\ n \in 0 .. N /\ n > 0 /\ N \in Nat
      BY <1>1
    <2> DEFINE g == f[n - 1]
               i == new[n]
    <2>1. Inv(g, n - 1) /\ f[n] = Placed(g, i)
      <3> HIDE DEF Inv
      <3> QED
        BY <1>7, <1>9
    <2>2. i \in D /\ i \in B /\ Elem(d, i) = e /\ ~Less(i, e)
      BY <1>1, <1>2
    <2>3. i \notin In(n - 1)
      <3>1. \A k \in 1 .. n - 1 : k \in 1 .. N /\ k # n
        BY <2>0
      <3>2. DOMAIN new = 1 .. N
        BY <1>1, LenProperties
      <3> HIDE DEF N, new
      <3> QED
        BY <1>1, <3>1, <3>2 DEF Distinct
    <2>4. In(n) = In(n - 1) \cup {i}
      <3>1. \A k : k \in 1 .. n <=> k \in 1 .. n - 1 \/ k = n
        BY <2>0
      <3> HIDE DEF new
      <3> QED
        BY <3>1
    <2> HIDE DEF In, new, N, D, g, i
    <2>5. i \notin ToSet(g)
      BY <1>3, <2>1, <2>2, <2>3
    <2> DEFINE h == f[n]
    <2>6. /\ h \in Seq(D) /\ Distinct(h)
          /\ ToSet(h) = ToSet(g) \cup {i}
          /\ \A x, y \in ToSet(g) : Precedes(h, x, y) <=> Precedes(g, x, y)
          /\ g = <<>> => h[1] = i
          /\ g # <<>> /\ Less(g[1], i) => h[1] = g[1]
          /\ \A x \in Nat \X Nat : ~Less(i, x) /\ Sorted(g, x) => Sorted(h, x)
          /\ h # <<>>
      <3>1. D \in SUBSET (Nat \X Nat) /\ g \in Seq(D) /\ Distinct(g) /\ i \in D /\ h = Placed(g, i)
        BY <1>2, <2>1, <2>2
      <3> HIDE DEF h, Inv
      <3>2. Puts(D, g, i, h)
        BY <2>5, <3>1, PlacedHas
      <3> QED
        BY <3>2 DEF Puts
    <2> HIDE DEF h
    <2>7. ASSUME object = "list" PROVE h[1] = e
      <3>1. CASE reg # <<>> \/ n - 1 > 0
        <4>1. g # <<>> /\ g[1] = e
          BY <2>1, <2>7, <3>1
        <4>2. e \in ToSet(g)
          <5>1. 1 \in DOMAIN g
            BY <2>1, <4>1, LenProperties, EmptySeq
          <5> QED
            BY <4>1, <5>1 DEF ToSet
        <4>3. Less(e, i)
          BY <1>1, <2>0, <2>5, <2>7, <4>2 DEF i
        <4> QED
          BY <2>6, <4>1, <4>3
      <3>2. CASE reg = <<>> /\ n = 1
        <4>1. g = <<>>
          BY <2>1, <3>2
        <4>2. e \in B
          BY <1>2, <2>7, <3>2
        <4>3. i = e
          BY <1>1, <2>7, <3>2, <4>2 DEF i
        <4> QED
          BY <2>6, <4>1, <4>3
      <3> QED
        BY <2>0, <3>1, <3>2
    <2>8. Inv(h, n)
      <3>1. \A x \in ToSet(reg) : x \in ToSet(g)
        BY <2>1
      <3> QED
        BY <1>4, <2>0, <2>1, <2>2, <2>4, <2>6, <2>7, <3>1
    <2> HIDE DEF Inv
    <2> QED
      BY <2>0, <2>8 DEF h
  <1>10. N \in S
    <2>1. S \in SUBSET (0 .. N) /\ N \in Nat
      BY <1>1
    <2> HIDE DEF S, N
    <2>2. S = 0 .. N
      BY <1>8, <1>9, <2>1, UpTo
    <2> QED
      BY <2>1, <2>2
  <1>11. Inv(w, N)
    <2> HIDE DEF Inv
    <2> QED
      BY <1>6, <1>10
  <1>12. In(N) = NewOn(d, B, e)
    <2>1. ToSet(new) = In(N)
      <3>1. DOMAIN new = 1 .. N
        BY <1>1, LenProperties
      <3> HIDE DEF new, N
      <3> QED
        BY <3>1 DEF ToSet
    <2> HIDE DEF In, new, N
    <2> QED
      BY <1>1, <2>1
  <1>13. object = "list" => reg # <<>> \/ N > 0
    BY <1>1, <1>2
  <1> HIDE DEF In, N, new
  <1> QED
    BY <1>11, <1>12, <1>13

-----------------------------------------------------------------------------
(* The winner of a register after a batch *)

\* The row i was visible before the batch, and is after it.
WasSeen(d, B, i) == i \notin B /\ IsVisibleAt(d, i, DOMAIN d.ops \ B)
Stays(d, B, i) ==
    IF i \in B THEN IsVisibleChange(d, B, i) ELSE WasSeen(d, B, i) /\ ~IsDeletedBy(d, B, i)

\* What Top says of rows of the operations D.
TopStates(D) ==
    [is : {"nothing", "change", "doc", "expose"}, at : D \cup {Head0}, hide : SUBSET (D \cup {Head0})]

\* After n of the rows w: the last one that stays is at the place a, if any; of
\* the others those of the batch are hidden, and those of the document are or
\* have one behind them that was visible.
TopAt(d, B, w, n, t, a) ==
    /\ t \in TopStates(DOMAIN d.ops)
    /\ a \in 0 .. n
    /\ t.is = "nothing" <=> a = 0
    /\ a = 0 => t.hide = {}
    /\ a > 0 => t.at = w[a] /\ Stays(d, B, w[a])
    /\ \A k \in a + 1 .. n : ~Stays(d, B, w[k])
    /\ t.is \in {"doc", "expose"} => w[a] \notin B
    /\ t.is = "change" => w[a] \in B
    /\ t.is = "doc" => \A k \in a + 1 .. n : ~WasSeen(d, B, w[k])
    /\ t.is = "expose" => \E k \in a + 1 .. n : WasSeen(d, B, w[k])
    /\ \A x \in t.hide : \E k \in 1 .. a - 1 : x = w[k] /\ Stays(d, B, w[k])
    /\ \A k \in 1 .. a - 1 : Stays(d, B, w[k]) => 
           IF w[k] \in B THEN w[k] \in t.hide
           ELSE w[k] \in t.hide \/ \E l \in k + 1 .. n : WasSeen(d, B, w[l])

\* A row more.
LEMMA TopStepIs ==
    ASSUME NEW d, NEW B, NEW w \in Seq(DOMAIN d.ops), NEW n \in Nat, n + 1 <= Len(w), NEW t, NEW a,
           TopAt(d, B, w, n, t, a)
    PROVE  \E b : TopAt(d, B, w, n + 1, TopStep(d, B, t, w[n + 1]), b)
  <1> DEFINE i == w[n + 1]
             u == TopStep(d, B, t, i)
             D == DOMAIN d.ops
  <1>1. i \in D /\ n + 1 \in Nat /\ a \in Nat /\ a <= n
    <2>1. n + 1 \in 1 .. Len(w) /\ a \in 0 .. n
      BY LenProperties DEF TopAt
    <2>2. a \in Nat /\ a <= n
      BY <2>1
    <2> QED
      BY <2>1, <2>2, LenProperties
  <1>2. t \in TopStates(D)
    BY DEF TopAt
  <1> HIDE DEF D
  <1>3. /\ t.is \in {"nothing", "change", "doc", "expose"} /\ t.at \in D \cup {Head0}
        /\ t.hide \in SUBSET (D \cup {Head0})
    BY <1>2 DEF TopStates
  <1>4. \A k : k \in a + 1 .. n + 1 <=> k \in a + 1 .. n \/ k = n + 1
    BY <1>1
  <1>5. \A k \in 1 .. a - 1 : k \in Int /\ \A l : l \in k + 1 .. n => l \in k + 1 .. n + 1
    BY <1>1
  <1>6. CASE i \in B /\ IsVisibleChange(d, B, i)
    <2>1. u = [t EXCEPT !.is = "change", !.at = i,
                        !.hide = IF t.is \in {"change", "doc"} THEN @ \cup {t.at} ELSE @]
      BY <1>6 DEF TopStep
    <2>2. /\ u.is = "change" /\ u.at = i
          /\ u.hide = IF t.is \in {"change", "doc"} THEN t.hide \cup {t.at} ELSE t.hide
          /\ u \in TopStates(D)
      <3> DEFINE hide == IF t.is \in {"change", "doc"} THEN t.hide \cup {t.at} ELSE t.hide
      <3>1. hide \in SUBSET (D \cup {Head0})
        BY <1>3
      <3>2. u = [is |-> "change", at |-> i, hide |-> hide]
        BY <1>2, <2>1 DEF TopStates
      <3> HIDE DEF hide, i, u
      <3>3. u \in TopStates(D)
        BY <1>1, <3>1, <3>2 DEF TopStates, i
      <3>4. u.is = "change" /\ u.at = i /\ u.hide = hide
        BY <3>2
      <3> QED
        BY <3>3, <3>4 DEF hide
    <2> HIDE DEF u, i
    <2>3. Stays(d, B, i)
      BY <1>6 DEF Stays
    <2>4. \A x \in u.hide : \E k \in 1 .. (n + 1) - 1 : x = w[k] /\ Stays(d, B, w[k])
      <3> SUFFICES ASSUME NEW x \in u.hide
                   PROVE  \E k \in 1 .. (n + 1) - 1 : x = w[k] /\ Stays(d, B, w[k])
        OBVIOUS
      <3>1. CASE x \in t.hide
        <4>1. PICK k \in 1 .. a - 1 : x = w[k] /\ Stays(d, B, w[k])
          BY <3>1 DEF TopAt
        <4>2. k \in 1 .. (n + 1) - 1
          BY <1>1
        <4> QED
          BY <4>1, <4>2
      <3>2. CASE x = t.at /\ t.is \in {"change", "doc"}
        <4>1. a > 0 /\ t.at = w[a] /\ Stays(d, B, w[a])
          BY <1>1, <3>2 DEF TopAt
        <4>2. a \in 1 .. (n + 1) - 1
          BY <1>1, <4>1
        <4> QED
          BY <3>2, <4>1, <4>2
      <3> QED
        BY <2>2, <3>1, <3>2
    <2>5. ASSUME NEW k \in 1 .. (n + 1) - 1, Stays(d, B, w[k])
          PROVE  IF w[k] \in B THEN w[k] \in u.hide
                 ELSE w[k] \in u.hide \/ \E l \in k + 1 .. n + 1 : WasSeen(d, B, w[l])
      <3>1. CASE k \in 1 .. a - 1
        <4>1. IF w[k] \in B THEN w[k] \in t.hide
              ELSE w[k] \in t.hide \/ \E l \in k + 1 .. n : WasSeen(d, B, w[l])
          BY <2>5, <3>1 DEF TopAt
        <4> QED
          BY <1>5, <2>2, <3>1, <4>1
      <3>2. CASE k = a
        <4>1. a > 0 /\ t.at = w[a] /\ t.is # "nothing"
          BY <1>1, <3>2 DEF TopAt
        <4>2. CASE t.is \in {"change", "doc"}
          BY <2>2, <3>2, <4>1, <4>2
        <4>3. CASE t.is = "expose"
          <5>1. w[a] \notin B /\ \E l \in a + 1 .. n : WasSeen(d, B, w[l])
            BY <4>3 DEF TopAt
          <5>2. \A l : l \in a + 1 .. n => l \in a + 1 .. n + 1
            BY <1>1
          <5> QED
            BY <3>2, <5>1, <5>2
        <4> QED
          BY <1>3, <4>1, <4>2, <4>3
      <3>3. CASE k \in a + 1 .. n
        BY <2>5, <3>3 DEF TopAt
      <3>4. k \in 1 .. a - 1 \/ k = a \/ k \in a + 1 .. n
        BY <1>1
      <3> QED
        BY <3>1, <3>2, <3>3, <3>4
    <2>6. n + 1 > 0 /\ n + 1 \in 0 .. n + 1 /\ \A k : k \notin (n + 1) + 1 .. n + 1
      BY <1>1
    <2>7. TopAt(d, B, w, n + 1, u, n + 1)
      BY <1>1, <1>6, <2>2, <2>3, <2>4, <2>5, <2>6 DEF TopAt, i, D
    <2> QED
      BY <2>7 DEF u, i
  <1>7. CASE \/ i \in B /\ ~IsVisibleChange(d, B, i)
             \/ i \notin B /\ ~WasSeen(d, B, i)
    <2>1. u = t
      BY <1>7 DEF TopStep, WasSeen
    <2>2. ~Stays(d, B, i) /\ ~WasSeen(d, B, i)
      BY <1>7 DEF Stays, WasSeen
    <2>3. a \in 0 .. n + 1
      BY <1>1
    <2>4. TopAt(d, B, w, n + 1, t, a)
      BY <1>4, <1>5, <2>2, <2>3 DEF TopAt, i
    <2> QED
      BY <2>1, <2>4
  <1>8. CASE i \notin B /\ WasSeen(d, B, i) /\ IsDeletedBy(d, B, i)
    <2>1. u = [t EXCEPT !.is = IF @ = "doc" THEN "expose" ELSE @]
      BY <1>8 DEF TopStep, WasSeen
    <2>2. /\ u.is = IF t.is = "doc" THEN "expose" ELSE t.is
          /\ u.at = t.at /\ u.hide = t.hide /\ u \in TopStates(D)
      BY <1>2, <1>3, <2>1 DEF TopStates
    <2> HIDE DEF u, i
    <2>3. ~Stays(d, B, i)
      BY <1>8 DEF Stays
    <2>4. a \in 0 .. n + 1 /\ n + 1 \in a + 1 .. n + 1
      BY <1>1
    <2>5. /\ u.is # "doc"
          /\ u.is = "nothing" <=> t.is = "nothing"
          /\ u.is = "expose" <=> t.is \in {"doc", "expose"}
          /\ u.is = "change" <=> t.is = "change"
      BY <2>2
    <2>6. TopAt(d, B, w, n + 1, u, a)
      <3>1. /\ u \in TopStates(DOMAIN d.ops) /\ a \in 0 .. n + 1
            /\ u.is = "nothing" <=> a = 0
            /\ a = 0 => u.hide = {}
            /\ a > 0 => u.at = w[a] /\ Stays(d, B, w[a])
        BY <2>2, <2>4, <2>5 DEF TopAt, D
      <3>2. \A k \in a + 1 .. n + 1 : ~Stays(d, B, w[k])
        BY <1>4, <2>3 DEF TopAt, i
      <3>3. /\ u.is \in {"doc", "expose"} => w[a] \notin B
            /\ u.is = "change" => w[a] \in B
        BY <2>5 DEF TopAt
      <3>4. \E k \in a + 1 .. n + 1 : WasSeen(d, B, w[k])
        BY <1>8, <2>4 DEF i
      <3>5. \A x \in u.hide : \E k \in 1 .. a - 1 : x = w[k] /\ Stays(d, B, w[k])
        BY <2>2 DEF TopAt
      <3>6. \A k \in 1 .. a - 1 : Stays(d, B, w[k]) => 
               IF w[k] \in B THEN w[k] \in u.hide
               ELSE w[k] \in u.hide \/ \E l \in k + 1 .. n + 1 : WasSeen(d, B, w[l])
        BY <1>5, <2>2 DEF TopAt
      <3> QED
        BY <2>5, <3>1, <3>2, <3>3, <3>4, <3>5, <3>6 DEF TopAt
    <2> QED
      BY <2>6 DEF u, i
  <1>9. CASE i \notin B /\ WasSeen(d, B, i) /\ ~IsDeletedBy(d, B, i)
    <2>1. u = [t EXCEPT !.is = "doc", !.at = i,
                        !.hide = IF t.is = "change" THEN @ \cup {t.at} ELSE @]
      BY <1>9 DEF TopStep, WasSeen
    <2>2. /\ u.is = "doc" /\ u.at = i
          /\ u.hide = IF t.is = "change" THEN t.hide \cup {t.at} ELSE t.hide
          /\ u \in TopStates(D)
      <3> DEFINE hide == IF t.is = "change" THEN t.hide \cup {t.at} ELSE t.hide
      <3>1. hide \in SUBSET (D \cup {Head0})
        BY <1>3
      <3>2. u = [is |-> "doc", at |-> i, hide |-> hide]
        BY <1>2, <2>1 DEF TopStates
      <3> HIDE DEF hide, i, u
      <3>3. u \in TopStates(D)
        BY <1>1, <3>1, <3>2 DEF TopStates, i
      <3>4. u.is = "doc" /\ u.at = i /\ u.hide = hide
        BY <3>2
      <3> QED
        BY <3>3, <3>4 DEF hide
    <2> HIDE DEF u, i
    <2>3. Stays(d, B, i)
      BY <1>9 DEF Stays
    <2>4. \A x \in u.hide : \E k \in 1 .. (n + 1) - 1 : x = w[k] /\ Stays(d, B, w[k])
      <3> SUFFICES ASSUME NEW x \in u.hide
                   PROVE  \E k \in 1 .. (n + 1) - 1 : x = w[k] /\ Stays(d, B, w[k])
        OBVIOUS
      <3>1. CASE x \in t.hide
        <4>1. PICK k \in 1 .. a - 1 : x = w[k] /\ Stays(d, B, w[k])
          BY <3>1 DEF TopAt
        <4>2. k \in 1 .. (n + 1) - 1
          BY <1>1
        <4> QED
          BY <4>1, <4>2
      <3>2. CASE x = t.at /\ t.is = "change"
        <4>1. a > 0 /\ t.at = w[a] /\ Stays(d, B, w[a])
          BY <1>1, <3>2 DEF TopAt
        <4>2. a \in 1 .. (n + 1) - 1
          BY <1>1, <4>1
        <4> QED
          BY <3>2, <4>1, <4>2
      <3> QED
        BY <2>2, <3>1, <3>2
    <2>5. ASSUME NEW k \in 1 .. (n + 1) - 1, Stays(d, B, w[k])
          PROVE  IF w[k] \in B THEN w[k] \in u.hide
                 ELSE w[k] \in u.hide \/ \E l \in k + 1 .. n + 1 : WasSeen(d, B, w[l])
      <3>1. n + 1 \in k + 1 .. n + 1 /\ WasSeen(d, B, w[n + 1])
        BY <1>1, <1>9 DEF i
      <3>2. CASE k \in 1 .. a - 1
        <4>1. w[k] \in B => w[k] \in t.hide
          BY <2>5, <3>2 DEF TopAt
        <4> QED
          BY <2>2, <3>1, <4>1
      <3>3. CASE k = a
        <4>1. a > 0 /\ t.at = w[a] /\ t.is # "nothing"
          BY <1>1, <3>3 DEF TopAt
        <4>2. w[a] \in B => t.is = "change"
          BY <1>3, <4>1 DEF TopAt
        <4> QED
          BY <2>2, <3>1, <3>3, <4>1, <4>2
      <3>4. CASE k \in a + 1 .. n
        BY <2>5, <3>4 DEF TopAt
      <3>5. k \in 1 .. a - 1 \/ k = a \/ k \in a + 1 .. n
        BY <1>1
      <3> QED
        BY <3>2, <3>3, <3>4, <3>5
    <2>6. n + 1 > 0 /\ n + 1 \in 0 .. n + 1 /\ \A k : k \notin (n + 1) + 1 .. n + 1
      BY <1>1
    <2>7. TopAt(d, B, w, n + 1, u, n + 1)
      BY <1>1, <1>9, <2>2, <2>3, <2>4, <2>5, <2>6 DEF TopAt, i, D
    <2> QED
      BY <2>7 DEF u, i
  <1> QED
    BY <1>6, <1>7, <1>8, <1>9

\* From nothing the function f goes by the rows w.
Tops(d, B, w, f) ==
    f = [n \in 0 .. Len(w) |-> IF n = 0 THEN [is |-> "nothing", at |-> Head0, hide |-> {}]
                               ELSE TopStep(d, B, f[n - 1], w[n])]

\* TopOf goes by the rows of the element.
LEMMA TopOfGoes ==
    ASSUME NEW d, NEW B, NEW e, NEW w, w = OnElement(d, B, e), \E f : Tops(d, B, w, f)
    PROVE  \E f : Tops(d, B, w, f) /\ TopOf(d, B, e) = f[Len(w)]
  <1> DEFINE top[n \in 0 .. Len(w)] ==
            IF n = 0 THEN [is |-> "nothing", at |-> Head0, hide |-> {}]
            ELSE TopStep(d, B, top[n - 1], w[n])
  <1>1. top = [n \in 0 .. Len(w) |-> IF n = 0 THEN [is |-> "nothing", at |-> Head0, hide |-> {}]
                                     ELSE TopStep(d, B, top[n - 1], w[n])]
    <2>1. \E f : f = [n \in 0 .. Len(w) |-> IF n = 0 THEN [is |-> "nothing", at |-> Head0, hide |-> {}]
                               ELSE TopStep(d, B, f[n - 1], w[n])]
      BY DEF Tops
    <2> QED
      BY <2>1
  <1>2. Tops(d, B, w, top)
    <2> HIDE DEF top
    <2> QED
      BY <1>1 DEF Tops
  <1>3. TopOf(d, B, e) = top[Len(w)]
    BY DEF TopOf
  <1> HIDE DEF top
  <1> QED
    BY <1>2, <1>3

\* What becomes the winner of the rows w, and what is hidden.
LEMMA TopOfIs ==
    ASSUME NEW d, NEW B, NEW e, NEW w, w = OnElement(d, B, e), w \in Seq(DOMAIN d.ops)
    PROVE  \E a : TopAt(d, B, w, Len(w), TopOf(d, B, e), a)
  <1> DEFINE D == DOMAIN d.ops
             N == Len(w)
             X == {t \in TopStates(D) : TRUE}
             none == [is |-> "nothing", at |-> Head0, hide |-> {}]
             step == [p \in TopStates(D) \X (1 .. N) |-> TopStep(d, B, p[1], w[p[2]])]
  <1>1. N \in Nat /\ \A n \in 1 .. N : w[n] \in D
    BY LenProperties
  <1>2. none \in TopStates(D)
    BY DEF TopStates
  <1>3. StaysIn(TopStates(D), N, step)
    <2> SUFFICES ASSUME NEW t \in TopStates(D), NEW n \in 1 .. N PROVE step[<<t, n>>] \in TopStates(D)
      BY DEF StaysIn
    <2> DEFINE i == w[n]
    <2>1. i \in D
      BY <1>1
    <2>2. step[<<t, n>>] = TopStep(d, B, t, i)
      <3> HIDE DEF N, D
      <3> QED
        OBVIOUS
    <2> HIDE DEF i, step, N, D
    <2>3. /\ t = [is |-> t.is, at |-> t.at, hide |-> t.hide]
          /\ t.is \in {"nothing", "change", "doc", "expose"} /\ t.at \in D \cup {Head0}
          /\ t.hide \in SUBSET (D \cup {Head0})
      BY DEF TopStates
    <2>4. ASSUME NEW is \in {"nothing", "change", "doc", "expose"}, NEW hide \in SUBSET (D \cup {Head0})
          PROVE  /\ [is |-> is, at |-> i, hide |-> hide] \in TopStates(D)
                 /\ [is |-> is, at |-> t.at, hide |-> hide] \in TopStates(D)
      BY <2>1, <2>3 DEF TopStates
    <2>5. \/ TopStep(d, B, t, i) = t
          \/ \E is \in {"nothing", "change", "doc", "expose"}, hide \in SUBSET (D \cup {Head0}) :
                \/ TopStep(d, B, t, i) = [is |-> is, at |-> i, hide |-> hide]
                \/ TopStep(d, B, t, i) = [is |-> is, at |-> t.at, hide |-> hide]
      <3>1. CASE i \in B /\ IsVisibleChange(d, B, i)
        <4> DEFINE hide == IF t.is \in {"change", "doc"} THEN t.hide \cup {t.at} ELSE t.hide
        <4>1. hide \in SUBSET (D \cup {Head0})
          BY <2>3
        <4>2. TopStep(d, B, t, i) = [is |-> "change", at |-> i, hide |-> hide]
          BY <2>3, <3>1 DEF TopStep
        <4> HIDE DEF hide
        <4> QED
          BY <4>1, <4>2
      <3>2. CASE i \notin B /\ IsVisibleAt(d, i, DOMAIN d.ops \ B) /\ IsDeletedBy(d, B, i)
        <4>1. TopStep(d, B, t, i) = [is |-> IF t.is = "doc" THEN "expose" ELSE t.is, at |-> t.at, hide |-> t.hide]
          BY <2>3, <3>2 DEF TopStep
        <4> QED
          BY <2>3, <4>1
      <3>3. CASE i \notin B /\ IsVisibleAt(d, i, DOMAIN d.ops \ B) /\ ~IsDeletedBy(d, B, i)
        <4> DEFINE hide == IF t.is = "change" THEN t.hide \cup {t.at} ELSE t.hide
        <4>1. hide \in SUBSET (D \cup {Head0})
          BY <2>3
        <4>2. TopStep(d, B, t, i) = [is |-> "doc", at |-> i, hide |-> hide]
          BY <2>3, <3>3 DEF TopStep
        <4> HIDE DEF hide
        <4> QED
          BY <4>1, <4>2
      <3>4. CASE (i \in B /\ ~IsVisibleChange(d, B, i)) \/ (i \notin B /\ ~IsVisibleAt(d, i, DOMAIN d.ops \ B))
        BY <3>4 DEF TopStep
      <3> QED
        BY <3>1, <3>2, <3>3, <3>4
    <2> QED
      BY <2>2, <2>4, <2>5
  <1>4. \E f : Tops(d, B, w, f)
    <2> HIDE DEF step, none
    <2>1. PICK f : Follows(f, TopStates(D), none, N, step)
      <3> HIDE DEF N
      <3> QED
        BY <1>1, <1>2, <1>3, Recursion
    <2>2. f \in [0 .. N -> TopStates(D)] /\ f[0] = none /\ \A n \in 1 .. N : f[n] = step[<<f[n - 1], n>>]
      BY <2>1 DEF Follows
    <2>3. ASSUME NEW n \in 1 .. N PROVE f[n] = TopStep(d, B, f[n - 1], w[n])
      <3>1. n - 1 \in 0 .. N
        BY <1>1
      <3>2. <<f[n - 1], n>> \in TopStates(D) \X (1 .. N)
        BY <2>2, <3>1
      <3>3. step[<<f[n - 1], n>>] = TopStep(d, B, f[n - 1], w[n])
        <4> HIDE DEF N, D
        <4> QED
          BY <3>2 DEF step
      <3> QED
        BY <2>2, <3>3
    <2>4. \A n \in 0 .. N : f[n] = IF n = 0 THEN none ELSE TopStep(d, B, f[n - 1], w[n])
      <3>1. \A n \in 0 .. N : n = 0 \/ n \in 1 .. N
        BY <1>1
      <3> HIDE DEF N, D
      <3> QED
        BY <2>2, <2>3, <3>1
    <2>5. f = [n \in 0 .. N |-> IF n = 0 THEN none ELSE TopStep(d, B, f[n - 1], w[n])]
      <3> HIDE DEF N, D
      <3> QED
        BY <2>2, <2>4
    <2> QED
      BY <2>5 DEF Tops, none
  <1>5. PICK f : Tops(d, B, w, f) /\ TopOf(d, B, e) = f[N]
    BY <1>4, TopOfGoes
  <1>6. f[0] = none /\ \A n \in 1 .. N : f[n] = TopStep(d, B, f[n - 1], w[n])
    <2>1. 0 \in 0 .. N /\ \A n \in 1 .. N : n \in 0 .. N /\ n # 0
      BY <1>1
    <2>2. f = [n \in 0 .. N |-> IF n = 0 THEN none ELSE TopStep(d, B, f[n - 1], w[n])]
      BY <1>5 DEF Tops
    <2> HIDE DEF N, none
    <2> QED
      BY <2>1, <2>2
  <1> DEFINE S == {n \in 0 .. N : \E a : TopAt(d, B, w, n, f[n], a)}
  <1>7. 0 \in S
    <2>1. TopAt(d, B, w, 0, none, 0)
      <3>1. 0 \in 0 .. 0 /\ (\A k : k \notin 0 + 1 .. 0) /\ \A k : k \notin 1 .. 0 - 1
        OBVIOUS
      <3>2. none.is = "nothing" /\ none.hide = {}
        OBVIOUS
      <3> HIDE DEF none
      <3> QED
        BY <1>2, <3>1, <3>2 DEF TopAt
    <2>2. 0 \in 0 .. N
      BY <1>1
    <2> HIDE DEF none
    <2> QED
      BY <1>6, <2>1, <2>2
  <1>8. ASSUME NEW n \in 1 .. N, n - 1 \in S PROVE n \in S
    <2>1. n - 1 \in Nat /\ (n - 1) + 1 = n /\ (n - 1) + 1 <= Len(w) /\ n \in 0 .. N
      BY <1>1
    <2>2. PICK a : TopAt(d, B, w, n - 1, f[n - 1], a)
      BY <1>8
    <2>3. \E b : TopAt(d, B, w, (n - 1) + 1, TopStep(d, B, f[n - 1], w[(n - 1) + 1]), b)
      <3> HIDE DEF N
      <3> QED
        BY <2>1, <2>2, TopStepIs
    <2>4. f[n] = TopStep(d, B, f[n - 1], w[n])
      BY <1>6
    <2>5. \E b : TopAt(d, B, w, n, f[n], b)
      BY <2>1, <2>3, <2>4
    <2> QED
      BY <2>1, <2>5
  <1>9. N \in S
    <2>1. S \in SUBSET (0 .. N) /\ N \in Nat
      BY <1>1
    <2> HIDE DEF S, N
    <2>2. S = 0 .. N
      BY <1>7, <1>8, <2>1, UpTo
    <2> QED
      BY <2>1, <2>2
  <1> QED
    BY <1>5, <1>9

=============================================================================
