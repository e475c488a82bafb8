-------------------------- MODULE OpSetOrderProofs --------------------------
(***************************************************************************)
(* Theorems about the order of the rows of OpSet and its winners, for any  *)
(* replicas and bounds: a walk through the tree of inserts is a matter of the *)
(* paths to its elements, so replicas with the same operations have the same *)
(* lists; edits and batches keep the rows of each element in the order of  *)
(* their identifiers and the greatest of what is visible there the winner; *)
(* values are never among the rows of other elements, and so a load finds  *)
(* the indexes and the deletes that edits and batches made; and a cursor   *)
(* leads back to the index that it was made for.                           *)
(***************************************************************************)
EXTENDS OpSetTreeProofs, Cursors

-----------------------------------------------------------------------------
(* Sequences in the same order *)

\* Two sequences of the same members in the same order are equal.
LEMMA SameOrder ==
    ASSUME NEW T, NEW s \in Seq(T), NEW t \in Seq(T), Distinct(s), Distinct(t),
           ToSet(s) = ToSet(t), \A x, y : Precedes(s, x, y) => Precedes(t, x, y)
    PROVE  s = t
  <1> DEFINE L == Len(s)
             bad == {n \in 1 .. L : s[n] # t[n]}
  <1>1. /\ L \in Nat /\ DOMAIN s = 1 .. L
        /\ \A n \in 1 .. L : s[n] \in ToSet(s)
        /\ \A x \in ToSet(s) : \E n \in 1 .. L : s[n] = x
    BY SetOfSeq
  <1>2. Len(t) = L
    BY DistinctLen
  <1>3. /\ DOMAIN t = 1 .. L
        /\ \A n \in 1 .. L : t[n] \in ToSet(t)
        /\ \A x \in ToSet(t) : \E n \in 1 .. L : t[n] = x
    BY <1>2, SetOfSeq
  <1>4. ASSUME bad # {} PROVE FALSE
    <2>1. bad \in SUBSET Nat
      BY <1>1
    <2>2. PICK n \in bad : \A m \in bad : n <= m
      <3> HIDE DEF bad
      <3> QED
        BY <1>4, <2>1, LeastNumber
    <2>3. n \in 1 .. L /\ s[n] # t[n] /\ \A m \in 1 .. L : m < n => s[m] = t[m]
      <3>1. \A m \in 1 .. L : m < n => m \notin bad
        BY <1>1, <2>2
      <3> QED
        BY <2>2, <3>1
    <2>4. PICK k \in 1 .. L : t[k] = s[n]
      BY <1>1, <1>3, <2>3
    <2>5. PICK l \in 1 .. L : s[l] = t[n]
      BY <1>1, <1>3, <2>3
    <2>6. k # n /\ l # n
      BY <2>3, <2>4, <2>5
    <2>7. ~(k < n)
      <3> SUFFICES ASSUME k < n PROVE FALSE
        OBVIOUS
      <3>1. s[k] = s[n]
        BY <2>3, <2>4
      <3> QED
        BY <1>1, <2>3, <2>6, <3>1 DEF Distinct
    <2>8. ~(l < n)
      <3> SUFFICES ASSUME l < n PROVE FALSE
        OBVIOUS
      <3>1. t[l] = t[n]
        BY <2>3, <2>5
      <3> QED
        BY <1>3, <2>3, <2>6, <3>1 DEF Distinct
    <2>9. n < l /\ n < k
      BY <1>1, <2>3, <2>6, <2>7, <2>8
    <2>10. Precedes(s, s[n], t[n])
      BY <1>1, <2>3, <2>5, <2>9 DEF Precedes
    <2>11. PICK a, b \in 1 .. L : a < b /\ t[a] = s[n] /\ t[b] = t[n]
      <3>1. Precedes(t, s[n], t[n])
        BY <2>10
      <3> QED
        BY <1>3, <3>1 DEF Precedes
    <2>12. a = k /\ b = n
      BY <1>3, <2>3, <2>4, <2>11 DEF Distinct
    <2> QED
      BY <1>1, <2>3, <2>9, <2>11, <2>12
  <1>5. \A n \in 1 .. L : s[n] = t[n]
    BY <1>4
  <1> QED
    BY <1>1, <1>2, <1>5, SeqEqual

-----------------------------------------------------------------------------
(* Paths through the tree of elements *)

\* What an operation refers to has a smaller counter, and counters are bounded.
CountersFall(d) ==
    /\ \E b \in Nat : \A i \in DOMAIN d.ops : i[1] < b
    /\ \A i \in DOMAIN d.ops :
           d.ops[i].ref = Head0 \/ (d.ops[i].ref \in DOMAIN d.ops /\ d.ops[i].ref[1] < i[1])

\* The paths f of the operations I.
Paths(d, I, f) ==
    f = [i \in I |-> IF d.ops[i].ref = Head0 THEN <<i>> ELSE Append(f[d.ops[i].ref], i)]

\* A sequence of one member.
LEMMA OneMember ==
    ASSUME NEW T, NEW x \in T
    PROVE  <<x>> \in Seq(T) /\ Len(<<x>>) = 1 /\ <<x>>[1] = x
  OBVIOUS

\* Paths to all operations exist.
LEMMA PathsExist ==
    ASSUME NEW d, DOMAIN d.ops \in SUBSET (Nat \X Nat), CountersFall(d)
    PROVE  \E f : Paths(d, DOMAIN d.ops, f)
  <1> DEFINE D == DOMAIN d.ops
             below(n) == {i \in D : i[1] < n}
             N == {n \in Nat : \E f : Paths(d, below(n), f)}
  <1>1. 0 \in N
    <2>1. below(0) = {}
      OBVIOUS
    <2> DEFINE f == [i \in {} |-> Head0]
    <2>2. f = [i \in {} |-> IF d.ops[i].ref = Head0 THEN <<i>> ELSE Append(f[d.ops[i].ref], i)]
      OBVIOUS
    <2>3. Paths(d, {}, f)
      <3> HIDE DEF f
      <3> QED
        BY <2>2 DEF Paths
    <2> QED
      BY <2>1, <2>3
  <1>2. ASSUME NEW n \in N PROVE n + 1 \in N
    <2>1. PICK f : Paths(d, below(n), f)
      OBVIOUS
    <2> DEFINE I == below(n + 1)
               g == [i \in I |-> IF d.ops[i].ref = Head0 THEN <<i>> ELSE Append(f[d.ops[i].ref], i)]
    <2>2. ASSUME NEW i \in below(n) PROVE g[i] = f[i]
      <3>1. i \in I
        BY <1>2
      <3>2. g[i] = IF d.ops[i].ref = Head0 THEN <<i>> ELSE Append(f[d.ops[i].ref], i)
        BY <3>1
      <3>3. f[i] = IF d.ops[i].ref = Head0 THEN <<i>> ELSE Append(f[d.ops[i].ref], i)
        <4> HIDE DEF below, g, I
        <4> QED
          BY <2>1 DEF Paths
      <3> QED
        BY <3>2, <3>3
    <2>3. ASSUME NEW i \in I, d.ops[i].ref # Head0 PROVE g[d.ops[i].ref] = f[d.ops[i].ref]
      <3>1. d.ops[i].ref \in below(n)
        BY <1>2, <2>3 DEF CountersFall
      <3> QED
        BY <2>2, <3>1
    <2>4. Paths(d, I, g)
      <3>1. g = [i \in I |-> IF d.ops[i].ref = Head0 THEN <<i>> ELSE Append(g[d.ops[i].ref], i)]
        <4>1. \A i \in I : (IF d.ops[i].ref = Head0 THEN <<i>> ELSE Append(f[d.ops[i].ref], i))
                             = (IF d.ops[i].ref = Head0 THEN <<i>> ELSE Append(g[d.ops[i].ref], i))
          BY <2>3
        <4>2. g = [i \in I |-> IF d.ops[i].ref = Head0 THEN <<i>> ELSE Append(f[d.ops[i].ref], i)]
          OBVIOUS
        <4> HIDE DEF g, I
        <4> QED
          BY <4>1, <4>2
      <3> HIDE DEF g
      <3> QED
        BY <3>1 DEF Paths
    <2>5. n + 1 \in Nat /\ \E h : Paths(d, below(n + 1), h)
      <3> HIDE DEF g
      <3> QED
        BY <1>2, <2>4
    <2> QED
      BY <2>5
  <1>3. N = Nat
    <2>1. N \in SUBSET Nat
      OBVIOUS
    <2> HIDE DEF N
    <2> QED
      BY <1>1, <1>2, <2>1, AllNumbers
  <1>4. PICK b \in Nat : \A i \in D : i[1] < b
    BY DEF CountersFall
  <1>5. below(b) = D
    BY <1>4
  <1>6. b \in N
    BY <1>3
  <1> QED
    BY <1>5, <1>6

\* The path p leads to x, from the front along references.
IsPath(d, p, x) ==
    /\ p \in Seq(DOMAIN d.ops) /\ Len(p) > 0
    /\ p[Len(p)] = x
    /\ d.ops[p[1]].ref = Head0
    /\ \A k \in 1 .. Len(p) - 1 : d.ops[p[k + 1]].ref = p[k]

\* A path with one element more.
LEMMA PathGoesOn ==
    ASSUME NEW d, NEW p, NEW x \in DOMAIN d.ops, IsPath(d, p, d.ops[x].ref), NEW q, q = Append(p, x)
    PROVE  IsPath(d, q, x)
  <1> DEFINE L == Len(p)
  <1>1. L \in Nat /\ L > 0 /\ p \in Seq(DOMAIN d.ops)
    BY LenProperties DEF IsPath
  <1>2. q \in Seq(DOMAIN d.ops) /\ Len(q) = L + 1 /\ q[L + 1] = x /\ \A n \in 1 .. L : q[n] = p[n]
    BY <1>1, AppendProperties
  <1>3. ASSUME NEW k \in 1 .. L PROVE d.ops[q[k + 1]].ref = q[k]
    <2>1. CASE k = L
      BY <1>1, <1>2, <2>1 DEF IsPath
    <2>2. CASE k # L
      <3>1. k \in 1 .. L - 1 /\ k + 1 \in 1 .. L
        BY <1>1, <2>2
      <3>2. d.ops[p[k + 1]].ref = p[k]
        BY <3>1 DEF IsPath
      <3> QED
        BY <1>2, <3>1, <3>2
    <2> QED
      BY <2>1, <2>2
  <1>4. d.ops[q[1]].ref = Head0
    <2>1. 1 \in 1 .. L
      BY <1>1
    <2> QED
      BY <1>2, <2>1 DEF IsPath
  <1> QED
    BY <1>1, <1>2, <1>3, <1>4 DEF IsPath

\* PathOf gives each operation its path.
LEMMA PathOfIs ==
    ASSUME NEW d, DOMAIN d.ops \in SUBSET (Nat \X Nat), CountersFall(d),
           NEW x \in DOMAIN d.ops
    PROVE  IsPath(d, PathOf(d)[x], x)
  <1> DEFINE D == DOMAIN d.ops
             path[i \in D] == IF d.ops[i].ref = Head0 THEN <<i>> ELSE Append(path[d.ops[i].ref], i)
  <1>1. path = [i \in D |-> IF d.ops[i].ref = Head0 THEN <<i>> ELSE Append(path[d.ops[i].ref], i)]
    <2>1. \E f : f = [i \in D |-> IF d.ops[i].ref = Head0 THEN <<i>> ELSE Append(f[d.ops[i].ref], i)]
      BY PathsExist DEF Paths
    <2> QED
      BY <2>1
  <1>2. PathOf(d) = path
    BY DEF PathOf
  <1> HIDE DEF path
  <1>3. ASSUME NEW i \in D
        PROVE  path[i] = IF d.ops[i].ref = Head0 THEN <<i>> ELSE Append(path[d.ops[i].ref], i)
    BY <1>1
  <1> DEFINE N == {n \in Nat : \A i \in D : i[1] < n => IsPath(d, path[i], i)}
  <1>4. 0 \in N
    OBVIOUS
  <1>5. ASSUME NEW n \in N PROVE n + 1 \in N
    <2> SUFFICES ASSUME NEW i \in D, i[1] < n + 1 PROVE IsPath(d, path[i], i)
      OBVIOUS
    <2>1. CASE d.ops[i].ref = Head0
      <3>1. path[i] = <<i>>
        BY <1>3, <2>1
      <3> DEFINE p == path[i]
      <3> HIDE DEF p, D
      <3>2. p \in Seq(D) /\ Len(p) = 1 /\ p[1] = i
        <4>1. p = <<i>> /\ i \in D
          BY <3>1 DEF p
        <4> QED
          BY <4>1, OneMember
      <3>3. IsPath(d, p, i)
        BY <2>1, <3>2 DEF IsPath, D
      <3> QED
        BY <3>3 DEF p
    <2>2. CASE d.ops[i].ref # Head0
      <3>1. path[i] = Append(path[d.ops[i].ref], i)
        BY <1>3, <2>2
      <3>2. d.ops[i].ref \in D /\ d.ops[i].ref[1] < i[1]
        BY <2>2 DEF CountersFall
      <3>3. d.ops[i].ref[1] < n
        BY <3>2
      <3>4. IsPath(d, path[d.ops[i].ref], d.ops[i].ref)
        BY <3>2, <3>3
      <3> QED
        BY <3>1, <3>4, PathGoesOn
    <2> QED
      BY <2>1, <2>2
  <1>6. N = Nat
    <2>1. N \in SUBSET Nat
      OBVIOUS
    <2> HIDE DEF N
    <2> QED
      BY <1>4, <1>5, <2>1, AllNumbers
  <1>7. x[1] + 1 \in N /\ x[1] < x[1] + 1
    BY <1>6
  <1> QED
    BY <1>2, <1>7

\* All elements of a list in the order of a tree.
Tree(d, s) ==
    /\ object = "list" /\ OpsOK(d)
    /\ OrderOf(d, s) /\ InTree(d, s)

\* Elements on a path come one after the other, the later made later.
LEMMA PathRises ==
    ASSUME NEW d, NEW s, Tree(d, s), NEW e \in ToSet(s), NEW p, IsPath(d, p, e)
    PROVE  /\ \A k \in 1 .. Len(p) : p[k] \in ToSet(s)
           /\ \A k, l \in 1 .. Len(p) : k < l => Precedes(s, p[k], p[l]) /\ Less(p[k], p[l])
  <1> DEFINE L == Len(p)
             E == Elements(d, DOMAIN d.ops)
  <1>1. L \in Nat /\ p \in Seq(DOMAIN d.ops) /\ L > 0 /\ DOMAIN p = 1 .. L
        /\ \A k \in 1 .. L : p[k] \in DOMAIN d.ops
    BY LenProperties, ElementOfSeq DEF IsPath
  <1>2. s \in Seq(E) /\ Distinct(s) /\ ToSet(s) = E
    BY DEF Tree, OrderOf
  <1>3. ASSUME NEW k \in 1 .. L - 1
        PROVE  k \in 1 .. L /\ k + 1 \in 1 .. L /\ d.ops[p[k + 1]].ref = p[k]
    BY <1>1, <1>3 DEF IsPath
  <1>4. ASSUME NEW k \in 1 .. L PROVE p[k] \in ToSet(s) /\ p[k] # Head0 /\ p[k] \in Nat \X Nat
    <2>1. p[k] # Head0 /\ p[k] \in Nat \X Nat
      BY <1>1 DEF Tree, OpsOK
    <2>2. CASE k = L
      BY <2>1, <2>2 DEF IsPath
    <2>3. CASE k # L
      <3>1. k \in 1 .. L - 1
        <4>1. L \in Nat /\ k \in 1 .. L /\ k # L
          BY <1>1, <2>3
        <4> HIDE DEF L
        <4> QED
          BY <4>1
      <3>2. d.ops[p[k + 1]].ref = p[k] /\ p[k + 1] \in DOMAIN d.ops
        BY <1>1, <1>3, <3>1
      <3>3. p[k] \in E
        BY <1>1, <2>1, <3>2 DEF Tree, OpsOK, Elements
      <3> QED
        BY <1>2, <2>1, <3>3
    <2> QED
      BY <2>2, <2>3
  <1>5. ASSUME NEW k \in 1 .. L - 1 PROVE Precedes(s, p[k], p[k + 1]) /\ Less(p[k], p[k + 1])
    <2>1. p[k + 1] \in ToSet(s) /\ p[k] # Head0 /\ d.ops[p[k + 1]].ref = p[k] /\ p[k + 1] \in DOMAIN d.ops
      BY <1>1, <1>3, <1>4
    <2>2. Precedes(s, p[k], p[k + 1])
      BY <2>1 DEF Tree, InTree
    <2>3. Less(p[k], p[k + 1])
      BY <2>1 DEF Tree, OpsOK
    <2> QED
      BY <2>2, <2>3
  <1> DEFINE N == {l \in 0 .. L : \A k \in 1 .. L : k < l => Precedes(s, p[k], p[l]) /\ Less(p[k], p[l])}
  <1>6. 0 \in N
    BY <1>1
  <1>7. ASSUME NEW l \in 1 .. L, l - 1 \in N PROVE l \in N
    <2> SUFFICES ASSUME NEW k \in 1 .. L, k < l PROVE Precedes(s, p[k], p[l]) /\ Less(p[k], p[l])
      BY <1>1
    <2> DEFINE j == l - 1
    <2>1. j \in 1 .. L - 1 /\ j + 1 = l /\ j \in 1 .. L
      BY <1>1
    <2>2. Precedes(s, p[j], p[l]) /\ Less(p[j], p[l])
      BY <1>5, <2>1
    <2>3. CASE k = j
      BY <2>2, <2>3
    <2>4. CASE k # j
      <3>1. k < j
        BY <1>1, <2>1, <2>4
      <3>2. Precedes(s, p[k], p[j]) /\ Less(p[k], p[j])
        BY <1>7, <3>1
      <3>3. Precedes(s, p[k], p[l])
        <4> HIDE DEF j
        <4> QED
          BY <1>2, <2>2, <3>2, PrecedesIsOrder
      <3>4. Less(p[k], p[l])
        <4>1. p[k] \in Nat \X Nat /\ p[j] \in Nat \X Nat /\ p[l] \in Nat \X Nat
          BY <1>4, <2>1
        <4> HIDE DEF j
        <4> QED
          BY <2>2, <3>2, <4>1, LessIsOrder
      <3> QED
        BY <3>3, <3>4
    <2> QED
      BY <2>3, <2>4
  <1>8. N = 0 .. L
    <2>1. N \in SUBSET (0 .. L)
      OBVIOUS
    <2> HIDE DEF N
    <2> QED
      BY <1>1, <1>6, <1>7, <2>1, UpTo
  <1>9. \A l \in 1 .. L : l \in N
    BY <1>1, <1>8
  <1> QED
    BY <1>4, <1>9

\* What was inserted at the same place as an element on the path, and comes after
\* it, comes after all that follows on the path.
LEMMA SubtreeTogether ==
    ASSUME NEW d, NEW s, Tree(d, s), NEW e \in ToSet(s), NEW p, IsPath(d, p, e), NEW k \in 1 .. Len(p),
           NEW b \in ToSet(s), Precedes(s, p[k], b), d.ops[b].ref = d.ops[p[k]].ref
    PROVE  Precedes(s, e, b)
  <1> DEFINE L == Len(p)
             E == Elements(d, DOMAIN d.ops)
             a == p[k]
  <1>1. L \in Nat /\ L > 0 /\ L \in 1 .. L /\ p[L] = e
    BY LenProperties DEF IsPath
  <1>2. s \in Seq(E) /\ Distinct(s) /\ ToSet(s) = E /\ E \subseteq Nat \X Nat
    BY DEF Tree, OrderOf, Elements, OpsOK
  <1>3. \A j \in 1 .. L : p[j] \in ToSet(s)
    BY PathRises
  <1>4. \A i, j \in 1 .. L : i < j => Precedes(s, p[i], p[j]) /\ Less(p[i], p[j])
    BY PathRises
  <1>5. Less(b, a)
    <2>1. b # Head0
      BY <1>2 DEF Tree, OpsOK, Elements
    <2>2. d.ops[b].ref = Head0 \/ Precedes(s, d.ops[b].ref, a)
      BY <1>3 DEF Tree, InTree
    <2> QED
      BY <1>3, <2>2 DEF Tree, InTree
  <1>6. \A x \in ToSet(s) : ~Precedes(s, x, x)
    BY <1>2, PrecedesIsOrder
  <1>7. a \in Nat \X Nat /\ b \in Nat \X Nat /\ ~Less(a, b)
    <2>1. a \in Nat \X Nat /\ b \in Nat \X Nat
      BY <1>2, <1>3
    <2> QED
      BY <1>5, <2>1, LessIsOrder
  <1>8. ASSUME NEW j \in 1 .. L, k < j, Precedes(s, p[j - 1], b) PROVE Precedes(s, p[j], b)
    <2>1. j - 1 \in 1 .. L - 1 /\ j - 1 + 1 = j
      BY <1>1, <1>8
    <2>2. d.ops[p[j]].ref = p[j - 1]
      BY <2>1 DEF IsPath
    <2>3. ~Precedes(s, b, p[j])
      <3> SUFFICES ASSUME Precedes(s, b, p[j]) PROVE FALSE
        OBVIOUS
      <3>1. Less(p[j], b)
        BY <1>3, <1>8, <2>2 DEF Tree, InTree
      <3>2. Less(a, p[j])
        BY <1>4, <1>8
      <3>3. p[j] \in Nat \X Nat
        BY <1>2, <1>3
      <3>4. Less(a, b)
        <4> HIDE DEF a
        <4> QED
          BY <1>7, <3>1, <3>2, <3>3, LessIsOrder
      <3> QED
        BY <1>7, <3>4
    <2>4. p[j] # b
      <3> SUFFICES ASSUME p[j] = b PROVE FALSE
        OBVIOUS
      <3>1. Less(a, b)
        BY <1>4, <1>8
      <3> QED
        BY <1>7, <3>1
    <2> QED
      BY <1>2, <1>3, <2>3, <2>4, PrecedesIsOrder
  <1> DEFINE N == {j \in 0 .. L : k <= j => Precedes(s, p[j], b)}
  <1>9. 0 \in N
    BY <1>1
  <1>10. ASSUME NEW j \in 1 .. L, j - 1 \in N PROVE j \in N
    <2> SUFFICES ASSUME k <= j PROVE Precedes(s, p[j], b)
      OBVIOUS
    <2>1. CASE k = j
      BY <2>1
    <2>2. CASE k < j
      <3>1. Precedes(s, p[j - 1], b)
        BY <1>10, <2>2
      <3> QED
        BY <1>8, <2>2, <3>1
    <2> QED
      BY <2>1, <2>2
  <1>11. N = 0 .. L
    <2>1. N \in SUBSET (0 .. L)
      OBVIOUS
    <2> HIDE DEF N
    <2> QED
      BY <1>1, <1>9, <1>10, <2>1, UpTo
  <1>12. L \in N
    BY <1>1, <1>11
  <1> QED
    BY <1>1, <1>12

\* The path q leaves p behind it: it goes on from it, or turns off to what was
\* inserted earlier.
Leads(p, q) ==
    \E n \in 0 .. Len(p) :
        /\ n <= Len(q)
        /\ SubSeq(p, 1, n) = SubSeq(q, 1, n)
        /\ n < Len(q) /\ (n < Len(p) => Less(q[n + 1], p[n + 1]))

\* Sequences begin alike if their first members are the same.
LEMMA SamePrefix ==
    ASSUME NEW T, NEW p \in Seq(T), NEW q \in Seq(T), NEW n \in Nat, n <= Len(p), n <= Len(q)
    PROVE  SubSeq(p, 1, n) = SubSeq(q, 1, n) <=> \A k \in 1 .. n : p[k] = q[k]
  <1>1. ASSUME NEW s \in Seq(T), n <= Len(s)
        PROVE  /\ SubSeq(s, 1, n) \in Seq(T) /\ Len(SubSeq(s, 1, n)) = n
               /\ \A k \in 1 .. n : SubSeq(s, 1, n)[k] = s[k]
    <2>1. CASE n = 0
      BY <2>1, SubSeqProperties, LenProperties
    <2>2. CASE n # 0
      <3>1. Len(s) \in Nat /\ 1 \in 1 .. Len(s) /\ n \in 1 .. Len(s)
        BY <1>1, <2>2, LenProperties
      <3>2. \A k \in 1 .. n : 1 + k - 1 = k
        OBVIOUS
      <3> QED
        BY <3>1, <3>2, PartHas
    <2> QED
      BY <2>1, <2>2
  <1>2. /\ SubSeq(p, 1, n) \in Seq(T) /\ Len(SubSeq(p, 1, n)) = n
        /\ \A k \in 1 .. n : SubSeq(p, 1, n)[k] = p[k]
    BY <1>1
  <1>3. /\ SubSeq(q, 1, n) \in Seq(T) /\ Len(SubSeq(q, 1, n)) = n
        /\ \A k \in 1 .. n : SubSeq(q, 1, n)[k] = q[k]
    BY <1>1
  <1>4. ASSUME \A k \in 1 .. n : p[k] = q[k] PROVE SubSeq(p, 1, n) = SubSeq(q, 1, n)
    <2> DEFINE v == SubSeq(p, 1, n)
               w == SubSeq(q, 1, n)
    <2>1. Len(v) = Len(w) /\ \A k \in 1 .. Len(v) : v[k] = w[k]
      BY <1>2, <1>3, <1>4
    <2>2. v \in Seq(T) /\ w \in Seq(T)
      BY <1>2, <1>3
    <2> HIDE DEF v, w
    <2>3. v = w
      BY <2>1, <2>2, SeqEqual
    <2> QED
      BY <2>3 DEF v, w
  <1>5. ASSUME SubSeq(p, 1, n) = SubSeq(q, 1, n) PROVE \A k \in 1 .. n : p[k] = q[k]
    <2> TAKE k \in 1 .. n
    <2>1. SubSeq(p, 1, n)[k] = SubSeq(q, 1, n)[k]
      BY <1>5
    <2>2. SubSeq(p, 1, n)[k] = p[k]
      BY <1>2
    <2>3. SubSeq(q, 1, n)[k] = q[k]
      BY <1>3
    <2> QED
      BY <2>1, <2>2, <2>3
  <1> QED
    BY <1>4, <1>5

\* Where the path q turns off from p.
TurnsAt(p, q, n) ==
    /\ n \in Nat /\ n <= Len(p) /\ n < Len(q)
    /\ \A k \in 1 .. n : p[k] = q[k]
    /\ n < Len(p) => Less(q[n + 1], p[n + 1])

\* Leads, place by place.
LEMMA LeadsIs ==
    ASSUME NEW T, NEW p \in Seq(T), NEW q \in Seq(T)
    PROVE  Leads(p, q) <=> \E n : TurnsAt(p, q, n)
  <1>1. Len(p) \in Nat /\ Len(q) \in Nat
    BY LenProperties
  <1>2. ASSUME NEW n, TurnsAt(p, q, n) PROVE Leads(p, q)
    <2>1. n \in 0 .. Len(p) /\ n <= Len(q) /\ n \in Nat /\ n <= Len(p)
      BY <1>1, <1>2 DEF TurnsAt
    <2>2. SubSeq(p, 1, n) = SubSeq(q, 1, n)
      BY <1>2, <2>1, SamePrefix DEF TurnsAt
    <2> QED
      BY <1>2, <2>1, <2>2 DEF Leads, TurnsAt
  <1>3. ASSUME Leads(p, q) PROVE \E n : TurnsAt(p, q, n)
    <2>1. PICK n \in 0 .. Len(p) :
              /\ n <= Len(q)
              /\ SubSeq(p, 1, n) = SubSeq(q, 1, n)
              /\ n < Len(q) /\ (n < Len(p) => Less(q[n + 1], p[n + 1]))
      BY <1>3 DEF Leads
    <2>2. n \in Nat /\ n <= Len(p)
      BY <1>1
    <2>3. \A k \in 1 .. n : p[k] = q[k]
      BY <2>1, <2>2, SamePrefix
    <2>4. TurnsAt(p, q, n)
      BY <2>1, <2>2, <2>3 DEF TurnsAt
    <2> QED
      BY <2>4
  <1> QED
    BY <1>2, <1>3

\* Paths do not lead behind each other in turn.
LEMMA LeadsOneWay ==
    ASSUME NEW T \in SUBSET (Nat \X Nat), NEW p \in Seq(T), NEW q \in Seq(T), Leads(p, q), Leads(q, p)
    PROVE  FALSE
  <1>1. PICK n : TurnsAt(p, q, n)
    BY LeadsIs
  <1>2. PICK m : TurnsAt(q, p, m)
    BY LeadsIs
  <1>3. /\ Len(p) \in Nat /\ Len(q) \in Nat /\ n \in Nat /\ m \in Nat
        /\ n <= Len(p) /\ n < Len(q) /\ m <= Len(q) /\ m < Len(p)
    BY <1>1, <1>2, LenProperties DEF TurnsAt
  <1>4. \A k \in 1 .. Len(p) : p[k] \in Nat \X Nat
    BY ElementOfSeq
  <1>5. \A k \in 1 .. Len(q) : q[k] \in Nat \X Nat
    BY ElementOfSeq
  <1>6. CASE n < m
    <2>1. n + 1 \in 1 .. m /\ n + 1 \in 1 .. Len(p) /\ n < Len(p)
      BY <1>3, <1>6
    <2>2. q[n + 1] = p[n + 1]
      BY <1>2, <2>1 DEF TurnsAt
    <2>3. Less(q[n + 1], p[n + 1])
      BY <1>1, <2>1 DEF TurnsAt
    <2>4. p[n + 1] \in Nat \X Nat
      BY <1>4, <2>1
    <2> QED
      BY <2>2, <2>3, <2>4, LessIsOrder
  <1>7. CASE m < n
    <2>1. m + 1 \in 1 .. n /\ m + 1 \in 1 .. Len(q) /\ m < Len(q)
      BY <1>3, <1>7
    <2>2. q[m + 1] = p[m + 1]
      BY <1>1, <2>1 DEF TurnsAt
    <2>3. Less(p[m + 1], q[m + 1])
      BY <1>2, <2>1 DEF TurnsAt
    <2>4. q[m + 1] \in Nat \X Nat
      BY <1>5, <2>1
    <2> QED
      BY <2>2, <2>3, <2>4, LessIsOrder
  <1>8. CASE n = m
    <2>1. n < Len(p) /\ m < Len(q) /\ n + 1 \in 1 .. Len(p) /\ n + 1 \in 1 .. Len(q)
      BY <1>3, <1>8
    <2>2. Less(q[n + 1], p[n + 1])
      BY <1>1, <2>1 DEF TurnsAt
    <2>3. Less(p[n + 1], q[n + 1])
      BY <1>2, <1>8, <2>1 DEF TurnsAt
    <2>4. p[n + 1] \in Nat \X Nat /\ q[n + 1] \in Nat \X Nat
      BY <1>4, <1>5, <2>1
    <2>5. Less(p[n + 1], p[n + 1])
      BY <2>2, <2>3, <2>4, LessIsOrder
    <2> QED
      BY <2>4, <2>5, LessIsOrder
  <1> QED
    BY <1>3, <1>6, <1>7, <1>8

\* In a tree the path to a later element leads behind that to an earlier one.
LEMMA TreeLeads ==
    ASSUME NEW d, NEW s, Tree(d, s), NEW e \in ToSet(s), NEW f \in ToSet(s), Precedes(s, e, f),
           NEW p, IsPath(d, p, e), NEW q, IsPath(d, q, f)
    PROVE  Leads(p, q)
  <1> DEFINE C == {n \in Nat : n <= Len(p) /\ n <= Len(q) /\ \A k \in 1 .. n : p[k] = q[k]}
             E == Elements(d, DOMAIN d.ops)
  <1>1. /\ Len(p) \in Nat /\ Len(q) \in Nat /\ Len(p) > 0 /\ Len(q) > 0
        /\ p \in Seq(DOMAIN d.ops) /\ q \in Seq(DOMAIN d.ops)
        /\ p[Len(p)] = e /\ q[Len(q)] = f
    BY LenProperties DEF IsPath
  <1>2. s \in Seq(E) /\ Distinct(s) /\ ToSet(s) = E
    BY DEF Tree, OrderOf
  <1>3. \A x, y \in ToSet(s) : ~(Precedes(s, x, y) /\ Precedes(s, y, x))
    BY <1>2, PrecedesIsOrder
  <1>4. /\ \A k \in 1 .. Len(p) : p[k] \in ToSet(s)
        /\ \A k, l \in 1 .. Len(p) : k < l => Precedes(s, p[k], p[l])
    BY PathRises
  <1>5. /\ \A k \in 1 .. Len(q) : q[k] \in ToSet(s)
        /\ \A k, l \in 1 .. Len(q) : k < l => Precedes(s, q[k], q[l])
    BY PathRises
  <1>6. PICK n \in C : \A m \in C : m <= n
    <2>1. C \in SUBSET Nat /\ \A m \in C : m <= Len(p)
      OBVIOUS
    <2>2. 0 \in C
      BY <1>1
    <2> HIDE DEF C
    <2> QED
      BY <1>1, <2>1, <2>2, MaxIs
  <1>7. n \in Nat /\ n <= Len(p) /\ n <= Len(q) /\ \A k \in 1 .. n : p[k] = q[k]
    OBVIOUS
  <1>8. n < Len(q)
    <2> SUFFICES ASSUME n = Len(q) PROVE FALSE
      BY <1>1, <1>7
    <2>1. n \in 1 .. n /\ n \in 1 .. Len(p) /\ Len(p) \in 1 .. Len(p)
      BY <1>1, <1>7
    <2>2. p[n] = f
      BY <1>1, <1>7, <2>1
    <2>3. n = Len(p) \/ n < Len(p)
      BY <1>1, <1>7
    <2>4. f = e \/ Precedes(s, f, e)
      BY <1>1, <1>4, <2>1, <2>2, <2>3
    <2> QED
      BY <1>3, <2>4
  <1>9. ASSUME n < Len(p) PROVE Less(q[n + 1], p[n + 1])
    <2> DEFINE k == n + 1
               a == q[k]
               b == p[k]
    <2>1. k \in 1 .. Len(p) /\ k \in 1 .. Len(q) /\ k \in Nat
      BY <1>1, <1>7, <1>8, <1>9
    <2>2. a # b
      <3> SUFFICES ASSUME a = b PROVE FALSE
        OBVIOUS
      <3>1. \A j \in 1 .. k : j \in 1 .. n \/ j = k
        BY <1>7
      <3>2. k \in C
        BY <1>7, <2>1, <3>1
      <3>3. k <= n
        BY <1>6, <3>2
      <3> QED
        BY <1>7, <3>3
    <2>3. a \in ToSet(s) /\ b \in ToSet(s)
      BY <1>4, <1>5, <2>1
    <2>4. d.ops[a].ref = d.ops[b].ref /\ (d.ops[a].ref = Head0 \/ Precedes(s, d.ops[a].ref, b))
      <3>1. CASE n = 0
        BY <1>1, <3>1 DEF IsPath
      <3>2. CASE n # 0
        <4>1. n \in 1 .. Len(p) - 1 /\ n \in 1 .. Len(q) - 1 /\ n \in 1 .. n /\ n \in 1 .. Len(p) /\ n < k
          BY <1>1, <1>7, <1>8, <1>9, <3>2
        <4>2. d.ops[b].ref = p[n] /\ d.ops[a].ref = q[n] /\ p[n] = q[n]
          BY <1>7, <4>1 DEF IsPath
        <4>3. Precedes(s, p[n], b)
          BY <1>4, <2>1, <4>1
        <4> QED
          BY <4>2, <4>3
      <3> QED
        BY <3>1, <3>2
    <2> HIDE DEF k, a, b
    <2>5. ~Precedes(s, a, b)
      <3> SUFFICES ASSUME Precedes(s, a, b) PROVE FALSE
        OBVIOUS
      <3>1. Precedes(s, f, b)
        <4>1. Precedes(s, q[k], b) /\ d.ops[b].ref = d.ops[q[k]].ref
          BY <2>4 DEF a
        <4> QED
          BY <2>1, <2>3, <4>1, SubtreeTogether
      <3>2. b = e \/ Precedes(s, b, e)
        <4>1. k = Len(p) \/ k < Len(p)
          BY <1>1, <2>1
        <4>2. Len(p) \in 1 .. Len(p)
          BY <1>1
        <4> QED
          BY <1>1, <1>4, <2>1, <4>1, <4>2 DEF b
      <3>3. Precedes(s, f, e)
        BY <1>2, <3>1, <3>2, PrecedesIsOrder
      <3> QED
        BY <1>3, <3>3
    <2>6. Precedes(s, b, a)
      BY <1>2, <2>2, <2>3, <2>5, PrecedesIsOrder
    <2>7. Less(a, b)
      BY <2>3, <2>4, <2>6 DEF Tree, InTree
    <2> QED
      BY <2>7 DEF a, b, k
  <1>10. TurnsAt(p, q, n)
    BY <1>7, <1>8, <1>9 DEF TurnsAt
  <1> QED
    BY <1>1, <1>10, LeadsIs

-----------------------------------------------------------------------------
(* Rows in the order of the tree *)

\* The rows of an element lie in its register in the order of their identifiers;
\* besides there are only increments of another element, older than this one.
RegOK(d) ==
    \A e \in Elements(d, DOMAIN d.ops) :
        /\ Sorted(RegisterOf(d, e), e)
        /\ \A x \in ToSet(RegisterOf(d, e)) : Elem(d, x) = e \/ (IsInc(d, x) /\ Less(x, e))

\* The row i has its place before the row j.
ComesBefore(d, i, j) ==
    \/ Elem(d, i) = Elem(d, j) /\ Less(i, j)
    \/ object = "list" /\ Leads(PathOf(d)[Elem(d, i)], PathOf(d)[Elem(d, j)])

\* The rows without increments.
Plain(d) == Only(d.order, {i \in DOMAIN d.ops : ~IsInc(d, i)})

\* Values and inserts are in the rows, and deletes are not.
LEMMA PlainHas ==
    ASSUME NEW d, TreeOK(d)
    PROVE  /\ Plain(d) \in Seq(DOMAIN d.ops) /\ Distinct(Plain(d))
           /\ ToSet(Plain(d)) = {i \in DOMAIN d.ops : HasRow(d, i) /\ ~IsInc(d, i)}
           /\ \A x, y : Precedes(Plain(d), x, y) => Precedes(d.order, x, y) /\ ~IsInc(d, x) /\ ~IsInc(d, y)
  <1> DEFINE V == {i \in DOMAIN d.ops : ~IsInc(d, i)}
             w == Plain(d)
  <1>1. /\ d.order \in Seq(DOMAIN d.ops) /\ Distinct(d.order)
        /\ ToSet(d.order) = {i \in DOMAIN d.ops : HasRow(d, i)}
    BY DEF TreeOK, RowsOK
  <1>2. w = Only(d.order, V)
    BY DEF Plain
  <1> HIDE DEF w, V
  <1>3. w \in Seq(DOMAIN d.ops) /\ Keeps(w, d.order, V)
    BY <1>1, <1>2, OnlyHas
  <1>4. /\ ToSet(w) = ToSet(d.order) \cap V
        /\ Distinct(w)
        /\ \A x, y : Precedes(w, x, y) <=> x \in V /\ y \in V /\ Precedes(d.order, x, y)
    BY <1>1, <1>3 DEF Keeps
  <1>5. ToSet(w) = {i \in DOMAIN d.ops : HasRow(d, i) /\ ~IsInc(d, i)}
    BY <1>1, <1>4 DEF V
  <1>6. \A x, y : Precedes(w, x, y) => Precedes(d.order, x, y) /\ ~IsInc(d, x) /\ ~IsInc(d, y)
    BY <1>4 DEF V
  <1> QED
    BY <1>3, <1>4, <1>5, <1>6 DEF w

\* The element of an operation is not later than it.
LEMMA ElementEarlier ==
    ASSUME NEW d, OpsOK(d), NEW x \in DOMAIN d.ops, NEW e, e = Elem(d, x)
    PROVE  e \in Nat \X Nat /\ x \in Nat \X Nat /\ ~Less(x, e) /\ (HasRow(d, x) => e \in Elements(d, DOMAIN d.ops))
  <1>1. x \in Nat \X Nat
    BY DEF OpsOK
  <1>2. CASE e = x
    BY <1>1, <1>2, LessIsOrder DEF OpsOK, Elem, Elements
  <1>3. CASE e # x /\ object = "list"
    <2>1. ~d.ops[x].insert
      BY <1>3 DEF Elem
    <2>2. e \in DOMAIN d.ops /\ d.ops[e].insert /\ Less(e, x)
      BY <1>3, <2>1 DEF OpsOK, Elem
    <2>3. e \in Nat \X Nat
      BY <2>2 DEF OpsOK
    <2>4. ~Less(x, e)
      BY <1>1, <2>2, <2>3, LessIsOrder
    <2> QED
      BY <1>1, <1>3, <2>2, <2>3, <2>4 DEF Elements
  <1>4. CASE e # x /\ object # "list"
    <2>1. e = Head0
      BY <1>4 DEF OpsOK, Elem
    <2>2. ~Less(x, Head0)
      BY <1>1 DEF Less, Head0
    <2>3. Head0 \in Nat \X Nat
      BY DEF Head0
    <2> QED
      BY <1>1, <1>4, <2>1, <2>2, <2>3 DEF Elements
  <1> QED
    BY <1>2, <1>3, <1>4

\* Rows whose registers are in order are in the order of the tree.
LEMMA RowsInOrder ==
    ASSUME NEW d, TreeOK(d), RegOK(d), CountersFall(d), NEW i, NEW j, Precedes(Plain(d), i, j)
    PROVE  ComesBefore(d, i, j)
  <1> DEFINE D == DOMAIN d.ops
  <1>1. /\ Precedes(d.order, i, j) /\ ~IsInc(d, i) /\ ~IsInc(d, j)
        /\ OpsOK(d) /\ RowsOK(d, D)
    BY PlainHas DEF TreeOK
  <1>2. d.order \in Seq(D) /\ Distinct(d.order)
    BY <1>1 DEF RowsOK
  <1>3. i \in ToSet(d.order) /\ j \in ToSet(d.order) /\ i \in D /\ j \in D
    <2>1. i \in ToSet(d.order) /\ j \in ToSet(d.order)
      BY <1>1, <1>2, PrecedesIsOrder
    <2> QED
      BY <1>2, <2>1, SetOfSeq
  <1>4. PICK e \in Elements(d, D) : i \in ToSet(RegisterOf(d, e))
    BY <1>1, <1>3, RegistersPart
  <1>5. PICK f \in Elements(d, D) : j \in ToSet(RegisterOf(d, f))
    BY <1>1, <1>3, RegistersPart
  <1>6. Elem(d, i) = e /\ Elem(d, j) = f
    BY <1>1, <1>4, <1>5 DEF RegOK
  <1>7. CASE e = f
    <2>1. Precedes(RegisterOf(d, e), i, j)
      BY <1>1, <1>4, <1>5, <1>7, RegisterHas
    <2>2. ~Less(i, e) /\ ~Less(j, e)
      BY <1>1, <1>3, <1>6, <1>7, ElementEarlier
    <2>3. Less(i, j)
      BY <1>4, <1>5, <1>7, <2>1, <2>2 DEF RegOK, Sorted
    <2> QED
      BY <1>6, <1>7, <2>3 DEF ComesBefore
  <1>8. CASE e # f
    <2>1. object = "list" /\ e \in D /\ f \in D
      BY <1>8 DEF Elements
    <2>2. Precedes(d.order, e, f)
      BY <1>1, <1>4, <1>5, <1>8, <2>1, RegistersPart
    <2>3. /\ Listed(d) \in Seq(Elements(d, D)) /\ Distinct(Listed(d))
          /\ ToSet(Listed(d)) = Elements(d, D)
          /\ Precedes(Listed(d), e, f)
      BY <1>1, <2>1, <2>2, ListedHas
    <2>4. Tree(d, Listed(d))
      BY <1>1, <2>1, <2>3 DEF Tree, TreeOK, OrderOf
    <2>5. IsPath(d, PathOf(d)[e], e) /\ IsPath(d, PathOf(d)[f], f)
      <3>1. D \in SUBSET (Nat \X Nat)
        BY <1>1 DEF OpsOK
      <3> QED
        BY <2>1, <3>1, PathOfIs
    <2>6. Leads(PathOf(d)[e], PathOf(d)[f])
      BY <2>3, <2>4, <2>5, TreeLeads
    <2> QED
      BY <1>6, <2>1, <2>6 DEF ComesBefore
  <1> QED
    BY <1>7, <1>8

\* The order of the tree goes one way.
LEMMA ComesOneWay ==
    ASSUME NEW d, OpsOK(d), CountersFall(d), NEW i \in DOMAIN d.ops, NEW j \in DOMAIN d.ops,
           HasRow(d, i), HasRow(d, j), ComesBefore(d, i, j), ComesBefore(d, j, i)
    PROVE  FALSE
  <1> DEFINE D == DOMAIN d.ops
             e == Elem(d, i)
             f == Elem(d, j)
  <1>1. D \in SUBSET (Nat \X Nat)
    BY DEF OpsOK
  <1>2. CASE Less(i, j) /\ Less(j, i)
    <2>1. i \in Nat \X Nat /\ j \in Nat \X Nat
      BY <1>1
    <2>2. Less(i, i)
      BY <1>2, <2>1, LessIsOrder
    <2> QED
      BY <2>1, <2>2, LessIsOrder
  <1>3. CASE object = "list"
    <2>1. e \in D /\ f \in D
      BY <1>3, ElementEarlier DEF Elements
    <2> DEFINE p == PathOf(d)[e]
               q == PathOf(d)[f]
    <2>2. p \in Seq(D) /\ q \in Seq(D)
      <3>1. IsPath(d, p, e) /\ IsPath(d, q, f)
        BY <1>1, <2>1, PathOfIs
      <3> QED
        BY <3>1 DEF IsPath
    <2>3. CASE e = f
      <3>1. (Less(i, j) /\ Less(j, i)) \/ Leads(p, p)
        BY <2>3 DEF ComesBefore
      <3> HIDE DEF p
      <3> QED
        BY <1>1, <1>2, <2>2, <3>1, LeadsOneWay
    <2>4. CASE e # f
      <3>1. Leads(p, q) /\ Leads(q, p)
        BY <2>4 DEF ComesBefore
      <3> HIDE DEF p, q
      <3> QED
        BY <1>1, <2>2, <3>1, LeadsOneWay
    <2> QED
      BY <2>3, <2>4
  <1>4. CASE object # "list"
    BY <1>2, <1>4 DEF ComesBefore
  <1> QED
    BY <1>3, <1>4

\* So documents with the same operations have the same rows but for increments.
LEMMA PlainConverge ==
    ASSUME NEW c, NEW d, TreeOK(c), RegOK(c), TreeOK(d), RegOK(d), CountersFall(d), c.ops = d.ops
    PROVE  Plain(c) = Plain(d)
  <1> DEFINE D == DOMAIN d.ops
             s == Plain(c)
             t == Plain(d)
  <1>1. /\ \A x : HasRow(c, x) <=> HasRow(d, x)
        /\ \A x : IsInc(c, x) <=> IsInc(d, x)
        /\ \A x : Elem(c, x) = Elem(d, x)
        /\ DOMAIN c.ops = D
    BY DEF HasRow, IsInc, Elem
  <1>2. /\ s \in Seq(D) /\ Distinct(s)
        /\ ToSet(s) = {i \in D : HasRow(d, i) /\ ~IsInc(d, i)}
    BY <1>1, PlainHas
  <1>3. /\ t \in Seq(D) /\ Distinct(t)
        /\ ToSet(t) = {i \in D : HasRow(d, i) /\ ~IsInc(d, i)}
    BY PlainHas
  <1>4. CountersFall(c) /\ PathOf(c) = PathOf(d)
    BY DEF CountersFall, PathOf
  <1>5. ASSUME NEW x, NEW y, Precedes(s, x, y) PROVE ComesBefore(d, x, y)
    <2>1. ComesBefore(c, x, y)
      BY <1>4, <1>5, RowsInOrder
    <2> QED
      BY <1>1, <1>4, <2>1 DEF ComesBefore
  <1>6. ASSUME NEW x, NEW y, Precedes(t, x, y) PROVE ComesBefore(d, x, y)
    BY <1>6, RowsInOrder
  <1> HIDE DEF s, t
  <1>7. ASSUME NEW x, NEW y, Precedes(s, x, y) PROVE Precedes(t, x, y)
    <2>1. x \in ToSet(s) /\ y \in ToSet(s) /\ ~Precedes(s, y, x) /\ x # y
      BY <1>2, <1>7, PrecedesIsOrder
    <2>2. x \in ToSet(t) /\ y \in ToSet(t) /\ x \in D /\ y \in D /\ HasRow(d, x) /\ HasRow(d, y)
      BY <1>2, <1>3, <2>1
    <2>3. ~Precedes(t, y, x)
      <3> SUFFICES ASSUME Precedes(t, y, x) PROVE FALSE
        OBVIOUS
      <3>1. ComesBefore(d, x, y) /\ ComesBefore(d, y, x)
        BY <1>5, <1>6, <1>7
      <3> QED
        BY <2>2, <3>1, ComesOneWay DEF TreeOK
    <2> QED
      BY <1>3, <2>1, <2>2, <2>3, PrecedesIsOrder
  <1>8. s = t
    BY <1>2, <1>3, <1>7, SameOrder
  <1> QED
    BY <1>8 DEF s, t

-----------------------------------------------------------------------------
(* Registers after an edit *)

\* The row x comes after the element e and before the next one.
Lies(d, E, e, x) ==
    /\ x = e \/ Precedes(d.order, e, x)
    /\ \A z \in E : z # e /\ Precedes(d.order, e, z) => Precedes(d.order, x, z)

\* Such rows are its register.
LEMMA LiesIs ==
    ASSUME NEW d, NEW H, OpsOK(d), RowsOK(d, H), object = "list",
           NEW E, E = Elements(d, H), NEW e \in E, NEW x \in ToSet(d.order)
    PROVE  x \in ToSet(RegisterOf(d, e)) <=> Lies(d, E, e, x)
  <1> DEFINE s == d.order
  <1>1. s \in Seq(H) /\ Distinct(s)
    BY DEF RowsOK
  <1>2. /\ \A y, z : Precedes(s, y, z) => y \in ToSet(s) /\ z \in ToSet(s) /\ ~Precedes(s, z, y)
        /\ \A y : ~Precedes(s, y, y)
        /\ \A x1, y, z : Precedes(s, x1, y) /\ Precedes(s, y, z) => Precedes(s, x1, z)
    BY <1>1, PrecedesIsOrder
  <1>3. ASSUME NEW f \in E
        PROVE  /\ f \in ToSet(RegisterOf(d, f))
               /\ \A y \in ToSet(RegisterOf(d, f)) : y = f \/ Precedes(s, f, y)
    <2> DEFINE reg == RegisterOf(d, f)
    <2>1. f \in H /\ d.ops[f].insert
      BY <1>3 DEF Elements
    <2>2. /\ reg \in Seq(H) /\ reg # <<>> /\ reg[1] = f
          /\ \A y, z \in ToSet(reg) : Precedes(reg, y, z) <=> Precedes(s, y, z)
      BY <2>1, RegisterHas
    <2> HIDE DEF reg
    <2>3. Len(reg) \in Nat /\ Len(reg) > 0 /\ DOMAIN reg = 1 .. Len(reg) /\ 1 \in 1 .. Len(reg)
      BY <2>2, EmptySeq, LenProperties
    <2>4. f \in ToSet(reg)
      BY <2>2, <2>3, SetOfSeq
    <2>5. ASSUME NEW y \in ToSet(reg), y # f PROVE Precedes(s, f, y)
      <3>1. PICK n \in 1 .. Len(reg) : reg[n] = y
        BY <2>2, SetOfSeq
      <3>2. n # 1
        BY <2>2, <2>5, <3>1
      <3>3. 1 < n
        BY <2>3, <3>2
      <3>4. Precedes(reg, f, y)
        BY <2>2, <2>3, <3>1, <3>3 DEF Precedes
      <3> QED
        BY <2>2, <2>4, <3>4
    <2> QED
      BY <2>4, <2>5 DEF reg
  <1>4. PICK f \in E : x \in ToSet(RegisterOf(d, f))
    BY RegistersPart
  <1>5. CASE f = e
    <2>1. x \in ToSet(RegisterOf(d, e))
      BY <1>4, <1>5
    <2>2. x = e \/ Precedes(s, e, x)
      BY <1>3, <2>1
    <2>3. ASSUME NEW z \in E, z # e, Precedes(s, e, z) PROVE Precedes(s, x, z)
      <3>1. z \in ToSet(RegisterOf(d, z)) /\ e \in ToSet(RegisterOf(d, e))
        BY <1>3
      <3>2. Precedes(s, x, z) <=> Precedes(s, e, z)
        BY <2>1, <2>3, <3>1, RegistersPart
      <3> QED
        BY <2>3, <3>2
    <2> QED
      BY <2>1, <2>2, <2>3 DEF Lies
  <1>6. CASE f # e
    <2>1. x \notin ToSet(RegisterOf(d, e))
      BY <1>4, <1>6, RegistersPart
    <2>2. ~Lies(d, E, e, x)
      <3> SUFFICES ASSUME Lies(d, E, e, x) PROVE FALSE
        OBVIOUS
      <3>1. x # e
        BY <1>3, <2>1
      <3>2. Precedes(s, e, x)
        BY <3>1 DEF Lies
      <3>3. Precedes(s, e, x) <=> Precedes(s, e, f)
        BY <1>3, <1>4, <1>6, RegistersPart
      <3>4. Precedes(s, x, f)
        BY <1>6, <3>2, <3>3 DEF Lies
      <3>5. x = f \/ Precedes(s, f, x)
        BY <1>3, <1>4
      <3> QED
        BY <1>2, <3>4, <3>5
    <2> QED
      BY <2>1, <2>2
  <1> QED
    BY <1>5, <1>6

\* All rows of a map are one register.
LEMMA MapRegister ==
    ASSUME NEW d, NEW H, OpsOK(d), RowsOK(d, H), object # "list"
    PROVE  ToSet(RegisterOf(d, Head0)) = ToSet(d.order)
  <1>1. Elements(d, H) = {Head0}
    BY DEF Elements
  <1>2. \A x \in ToSet(d.order) : x \in ToSet(RegisterOf(d, Head0))
    BY <1>1, RegistersPart
  <1>3. ToSet(RegisterOf(d, Head0)) \subseteq ToSet(d.order)
    BY RegisterHas
  <1> QED
    BY <1>2, <1>3

\* The rows w have the row i after the element g and before those that follow.
Within(d, g, i, w) ==
    object = "list" =>
        /\ Precedes(w, g, i)
        /\ \A z \in Elements(d, DOMAIN d.ops) :
               z # g /\ Precedes(d.order, g, z) => Precedes(w, i, z)

\* They have it behind the register of the element.
AtEndOf(d, g, i, w) ==
    /\ Within(d, g, i, w)
    /\ \A y \in ToSet(RegisterOf(d, g)) : ~Precedes(w, i, y)

\* The rows w have i among those of d.
RowAmong(d, i, w) ==
    /\ ToSet(w) = ToSet(d.order) \cup {i}
    /\ \A x, y \in ToSet(d.order) : Precedes(w, x, y) <=> Precedes(d.order, x, y)

\* The operation i is no insert; its row, if it has one, is among those of its
\* element.
UpdatesWithin(d, i, o, e) ==
    /\ ~o.insert
    /\ IF o.type = "del" THEN e.order = d.order
       ELSE RowAmong(d, i, e.order) /\ Within(d, o.ref, i, e.order)

\* It is behind them.
Updates(d, i, o, e) ==
    /\ ~o.insert
    /\ IF o.type = "del" THEN e.order = d.order
       ELSE RowAmong(d, i, e.order) /\ AtEndOf(d, o.ref, i, e.order)

\* What is the same in a document with one operation more.
LEMMA MoreIs ==
    ASSUME NEW d, TreeOK(d), NEW i, NEW o, NEW e, OneMore(d, i, o, e)
    PROVE  /\ i \notin ToSet(d.order) /\ ToSet(d.order) \subseteq DOMAIN d.ops
           /\ \A j \in DOMAIN d.ops : /\ Elem(e, j) = Elem(d, j)
                                      /\ IsInc(e, j) <=> IsInc(d, j)
                                      /\ IsCounter(e, j) <=> IsCounter(d, j)
                                      /\ HasRow(e, j) <=> HasRow(d, j)
                                      /\ Less(j, i)
           /\ ~o.insert => Elem(e, i) = o.ref /\ Elements(e, DOMAIN e.ops) = Elements(d, DOMAIN d.ops)
           /\ o.insert => /\ Elem(e, i) = i
                          /\ object = "list" => Elements(e, DOMAIN e.ops) = Elements(d, DOMAIN d.ops) \cup {i}
  <1>1. ToSet(d.order) \subseteq DOMAIN d.ops
    BY DEF TreeOK, RowsOK
  <1>2. /\ i \notin DOMAIN d.ops /\ DOMAIN e.ops = DOMAIN d.ops \cup {i} /\ e.ops[i] = o
        /\ \A j \in DOMAIN d.ops : e.ops[j] = d.ops[j] /\ Less(j, i)
    BY DEF OneMore
  <1>3. \A j \in DOMAIN d.ops : /\ Elem(e, j) = Elem(d, j)
                                /\ IsInc(e, j) <=> IsInc(d, j)
                                /\ IsCounter(e, j) <=> IsCounter(d, j)
                                /\ HasRow(e, j) <=> HasRow(d, j)
    BY <1>2 DEF Elem, IsInc, IsCounter, HasRow
  <1>4. ~o.insert => Elem(e, i) = o.ref /\ Elements(e, DOMAIN e.ops) = Elements(d, DOMAIN d.ops)
    BY <1>2 DEF Elem, Elements
  <1>5. o.insert => /\ Elem(e, i) = i
                    /\ object = "list" => Elements(e, DOMAIN e.ops) = Elements(d, DOMAIN d.ops) \cup {i}
    BY <1>2 DEF Elem, Elements
  <1> QED
    BY <1>1, <1>2, <1>3, <1>4, <1>5

\* The rows of the register of g are of g and in order.
RegOn(d, g) ==
    /\ \A x \in ToSet(RegisterOf(d, g)) : Elem(d, x) = g \/ (IsInc(d, x) /\ Less(x, g))
    /\ \A x, y \in ToSet(RegisterOf(d, g)) :
           ~Less(x, g) /\ ~Less(y, g) /\ Precedes(d.order, x, y) => Less(x, y)

\* Rows of a register are in the order of all rows.
LEMMA RegOnIs ==
    ASSUME NEW d, TreeOK(d)
    PROVE  RegOK(d) <=> \A g \in Elements(d, DOMAIN d.ops) : RegOn(d, g)
  <1>1. ASSUME NEW g
        PROVE  \A x, y \in ToSet(RegisterOf(d, g)) :
                   Precedes(RegisterOf(d, g), x, y) <=> Precedes(d.order, x, y)
    BY RegisterHas DEF TreeOK
  <1> QED
    BY <1>1 DEF RegOK, RegOn, Sorted

\* Which rows lie in a register after an edit that inserts nothing.
LEMMA UpdateRegister ==
    ASSUME NEW d, TreeOK(d), NEW i, NEW o, NEW e, OneMore(d, i, o, e), TreeOK(e), UpdatesWithin(d, i, o, e),
           o.ref \in Elements(d, DOMAIN d.ops), NEW g \in Elements(d, DOMAIN d.ops),
           NEW x \in ToSet(RegisterOf(e, g))
    PROVE  x \in ToSet(RegisterOf(d, g)) \/ (x = i /\ g = o.ref /\ o.type # "del")
  <1> DEFINE E == Elements(d, DOMAIN d.ops)
  <1>1. OpsOK(d) /\ RowsOK(d, DOMAIN d.ops) /\ OpsOK(e) /\ RowsOK(e, DOMAIN e.ops)
    BY DEF TreeOK
  <1>2. E = Elements(e, DOMAIN e.ops) /\ ~o.insert
    BY MoreIs DEF UpdatesWithin
  <1>3. x \in ToSet(e.order)
    BY <1>1, RegisterHas
  <1>4. /\ ToSet(d.order) \subseteq ToSet(e.order)
        /\ \A y, z \in ToSet(d.order) : Precedes(e.order, y, z) <=> Precedes(d.order, y, z)
        /\ x \in ToSet(d.order) \/ (x = i /\ o.type # "del")
    BY <1>3 DEF UpdatesWithin, RowAmong
  <1>5. CASE object = "list"
    <2>1. E \subseteq ToSet(d.order)
      BY <1>1, <1>5 DEF Elements, OpsOK, RowsOK
    <2>2. Lies(e, E, g, x)
      BY <1>1, <1>2, <1>3, <1>5, LiesIs
    <2>3. CASE x \in ToSet(d.order)
      <3>1. Lies(d, E, g, x)
        BY <1>4, <2>1, <2>2, <2>3 DEF Lies
      <3> QED
        BY <1>1, <1>5, <2>3, <3>1, LiesIs
    <2>4. CASE x = i /\ o.type # "del"
      <3>1. Within(d, o.ref, i, e.order)
        BY <2>4 DEF UpdatesWithin
      <3>2. Lies(e, E, o.ref, i)
        BY <1>4, <1>5, <2>1, <3>1 DEF Within, Lies
      <3>3. i \in ToSet(RegisterOf(e, o.ref))
        BY <1>1, <1>2, <1>3, <1>5, <2>4, <3>2, LiesIs
      <3>4. g = o.ref
        BY <1>1, <2>4, <3>3, RegistersPart
      <3> QED
        BY <2>4, <3>4
    <2> QED
      BY <1>4, <2>3, <2>4
  <1>6. CASE object # "list"
    <2>1. g = Head0 /\ o.ref = Head0
      BY <1>6 DEF Elements
    <2>2. ToSet(RegisterOf(d, Head0)) = ToSet(d.order)
      BY <1>1, <1>6, MapRegister
    <2> QED
      BY <1>4, <2>1, <2>2
  <1> QED
    BY <1>5, <1>6

\* Registers stay in order.
LEMMA UpdateKeepsReg ==
    ASSUME NEW d, TreeOK(d), RegOK(d), NEW i, NEW o, NEW e, OneMore(d, i, o, e), TreeOK(e),
           Updates(d, i, o, e), o.ref \in Elements(d, DOMAIN d.ops)
    PROVE  RegOK(e)
  <1> DEFINE E == Elements(d, DOMAIN d.ops)
  <1>1. OpsOK(d) /\ RowsOK(d, DOMAIN d.ops) /\ OpsOK(e) /\ RowsOK(e, DOMAIN e.ops)
    BY DEF TreeOK
  <1>2. E = Elements(e, DOMAIN e.ops) /\ ~o.insert /\ Elem(e, i) = o.ref
    BY MoreIs DEF Updates
  <1>3. ASSUME NEW g \in E PROVE RegOn(e, g)
    <2> DEFINE R == ToSet(RegisterOf(d, g))
    <2>1. RegOn(d, g)
      BY RegOnIs
    <2>2. R \subseteq ToSet(d.order)
      BY <1>1, RegisterHas
    <2>3. \A x \in R : /\ x \in DOMAIN d.ops /\ Elem(e, x) = Elem(d, x)
                       /\ IsInc(e, x) <=> IsInc(d, x)
                       /\ Less(x, i)
      BY <2>2, MoreIs
    <2>4. \A x \in ToSet(RegisterOf(e, g)) : x \in R \/ (x = i /\ g = o.ref /\ o.type # "del")
      <3>1. UpdatesWithin(d, i, o, e)
        BY DEF Updates, UpdatesWithin, AtEndOf
      <3> QED
        BY <3>1, UpdateRegister
    <2> HIDE DEF R
    <2>5. ASSUME NEW x \in ToSet(RegisterOf(e, g)) PROVE Elem(e, x) = g \/ (IsInc(e, x) /\ Less(x, g))
      BY <1>2, <2>1, <2>3, <2>4 DEF RegOn, R
    <2>6. ASSUME NEW x \in ToSet(RegisterOf(e, g)), NEW y \in ToSet(RegisterOf(e, g)),
                 ~Less(x, g), ~Less(y, g), Precedes(e.order, x, y)
          PROVE  Less(x, y)
      <3>1. CASE x \in R /\ y \in R
        <4>1. Precedes(d.order, x, y)
          BY <2>2, <2>6, <3>1 DEF Updates, RowAmong
        <4> QED
          BY <2>1, <2>6, <3>1, <4>1 DEF RegOn, R
      <3>2. CASE x \in R /\ y = i
        BY <2>3, <3>2
      <3>3. CASE x = i /\ y \in R /\ g = o.ref /\ o.type # "del"
        BY <2>6, <3>3 DEF Updates, AtEndOf, R
      <3>4. CASE x = i /\ y = i
        <4>1. e.order \in Seq(DOMAIN e.ops) /\ Distinct(e.order)
          BY <1>1 DEF RowsOK
        <4> QED
          BY <2>6, <3>4, <4>1, PrecedesIsOrder
      <3> QED
        BY <2>4, <3>1, <3>2, <3>3, <3>4
    <2> QED
      BY <2>5, <2>6 DEF RegOn
  <1> QED
    BY <1>2, <1>3, RegOnIs

\* The row of the insert i is among those of d, before other elements or before
\* increments.
InsertFits(d, i, e) ==
    /\ object = "list"
    /\ RowAmong(d, i, e.order)
    /\ \A x \in ToSet(d.order) :
           Precedes(e.order, i, x) =>
               \/ IsInc(d, x)
               \/ \E z \in Elements(d, DOMAIN d.ops) :
                      Precedes(e.order, i, z) /\ (z = x \/ Precedes(e.order, z, x))

\* Which rows lie in a register after an insert.
LEMMA InsertRegister ==
    ASSUME NEW d, TreeOK(d), NEW i, NEW o, NEW e, OneMore(d, i, o, e), TreeOK(e), o.insert,
           InsertFits(d, i, e), NEW g \in Elements(e, DOMAIN e.ops), NEW x \in ToSet(RegisterOf(e, g))
    PROVE  /\ g = i => x = i \/ (x \in ToSet(d.order) /\ IsInc(d, x))
           /\ g # i => g \in Elements(d, DOMAIN d.ops) /\ x \in ToSet(d.order) /\ x \in ToSet(RegisterOf(d, g))
  <1> DEFINE E == Elements(d, DOMAIN d.ops)
             F == Elements(e, DOMAIN e.ops)
  <1>1. OpsOK(d) /\ RowsOK(d, DOMAIN d.ops) /\ OpsOK(e) /\ RowsOK(e, DOMAIN e.ops) /\ object = "list"
    BY DEF TreeOK, InsertFits
  <1>2. F = E \cup {i}
    BY <1>1, MoreIs
  <1>3. E \subseteq ToSet(d.order) /\ ToSet(e.order) = ToSet(d.order) \cup {i}
    BY <1>1 DEF Elements, OpsOK, RowsOK, InsertFits, RowAmong
  <1>4. \A y, z \in ToSet(d.order) : Precedes(e.order, y, z) <=> Precedes(d.order, y, z)
    BY DEF InsertFits, RowAmong
  <1>5. i \notin ToSet(d.order) /\ e.order \in Seq(DOMAIN e.ops) /\ Distinct(e.order)
    BY <1>1, MoreIs DEF RowsOK
  <1>6. x \in ToSet(e.order) /\ (e.ops[x].insert => x = g)
    BY <1>1, RegisterHas
  <1>7. Lies(e, F, g, x)
    BY <1>1, <1>6, LiesIs
  <1>8. ASSUME g = i, x # i PROVE x \in ToSet(d.order) /\ IsInc(d, x)
    <2>1. x \in ToSet(d.order)
      BY <1>3, <1>6, <1>8
    <2>2. Precedes(e.order, i, x)
      BY <1>7, <1>8 DEF Lies
    <2>3. ~\E z \in E : Precedes(e.order, i, z) /\ (z = x \/ Precedes(e.order, z, x))
      <3> SUFFICES ASSUME NEW z \in E, Precedes(e.order, i, z), z = x \/ Precedes(e.order, z, x)
                   PROVE  FALSE
        OBVIOUS
      <3>1. z # i /\ z \in F
        BY <1>2, <1>3, <1>5
      <3>2. Precedes(e.order, x, z)
        BY <1>7, <1>8, <3>1 DEF Lies
      <3> QED
        BY <1>5, <3>2, PrecedesIsOrder
    <2> QED
      BY <2>1, <2>2, <2>3 DEF InsertFits
  <1>9. ASSUME g # i PROVE g \in E /\ x \in ToSet(d.order) /\ x \in ToSet(RegisterOf(d, g))
    <2>1. g \in E /\ g \in ToSet(d.order)
      BY <1>2, <1>3, <1>9
    <2>2. x # i
      BY <1>6, <1>9 DEF OneMore
    <2>3. x \in ToSet(d.order)
      BY <1>3, <1>6, <2>2
    <2>4. Lies(d, E, g, x)
      BY <1>2, <1>3, <1>4, <1>7, <2>1, <2>3 DEF Lies
    <2> QED
      BY <1>1, <2>1, <2>3, <2>4, LiesIs
  <1> QED
    BY <1>8, <1>9

\* Then, too, registers stay in order.
LEMMA InsertKeepsReg ==
    ASSUME NEW d, TreeOK(d), RegOK(d), NEW i, NEW o, NEW e, OneMore(d, i, o, e), TreeOK(e),
           o.insert, InsertFits(d, i, e)
    PROVE  RegOK(e)
  <1> DEFINE F == Elements(e, DOMAIN e.ops)
  <1>1. e.order \in Seq(DOMAIN e.ops) /\ Distinct(e.order) /\ Elem(e, i) = i
    BY MoreIs DEF TreeOK, RowsOK
  <1>2. \A x \in ToSet(d.order) : /\ x \in DOMAIN d.ops /\ Elem(e, x) = Elem(d, x)
                                  /\ IsInc(e, x) <=> IsInc(d, x)
                                  /\ Less(x, i)
    BY MoreIs
  <1>3. \A y, z \in ToSet(d.order) : Precedes(e.order, y, z) <=> Precedes(d.order, y, z)
    BY DEF InsertFits, RowAmong
  <1>4. RegOn(e, i)
    <2>1. ASSUME NEW x \in ToSet(RegisterOf(e, i)), i \in F, x # i PROVE IsInc(e, x) /\ Less(x, i)
      BY <1>2, <2>1, InsertRegister
    <2>2. ASSUME NEW x \in ToSet(RegisterOf(e, i)), NEW y \in ToSet(RegisterOf(e, i)), i \in F,
                 ~Less(x, i), ~Less(y, i), Precedes(e.order, x, y)
          PROVE  Less(x, y)
      <3>1. x = i /\ y = i
        BY <2>1, <2>2
      <3> QED
        BY <1>1, <2>2, <3>1, PrecedesIsOrder
    <2>3. i \in F
      BY MoreIs DEF InsertFits
    <2> QED
      BY <1>1, <2>1, <2>2, <2>3 DEF RegOn
  <1>5. ASSUME NEW g \in F, g # i PROVE RegOn(e, g)
    <2> DEFINE R == ToSet(RegisterOf(d, g))
    <2>1. \A x \in ToSet(RegisterOf(e, g)) : x \in R /\ x \in ToSet(d.order) /\ g \in Elements(d, DOMAIN d.ops)
      BY <1>5, InsertRegister
    <2> HIDE DEF R
    <2>2. ASSUME NEW x \in ToSet(RegisterOf(e, g)) PROVE RegOn(d, g)
      BY <2>1, RegOnIs
    <2>3. ASSUME NEW x \in ToSet(RegisterOf(e, g)) PROVE Elem(e, x) = g \/ (IsInc(e, x) /\ Less(x, g))
      BY <1>2, <2>1, <2>2 DEF RegOn, R
    <2>4. ASSUME NEW x \in ToSet(RegisterOf(e, g)), NEW y \in ToSet(RegisterOf(e, g)),
                 ~Less(x, g), ~Less(y, g), Precedes(e.order, x, y)
          PROVE  Less(x, y)
      <3>1. Precedes(d.order, x, y)
        BY <1>3, <2>1, <2>4
      <3> QED
        BY <2>1, <2>2, <2>4, <3>1 DEF RegOn, R
    <2> QED
      BY <2>3, <2>4 DEF RegOn
  <1>6. \A g \in F : RegOn(e, g)
    BY <1>4, <1>5
  <1> QED
    BY <1>6, RegOnIs

-----------------------------------------------------------------------------
(* The elements of a list *)

\* What the operations of a document refer to was counted before them.
LEMMA CountersFallIs ==
    ASSUME RowsInv, NEW r \in Replica
    PROVE  CountersFall(doc[r])
  <1> DEFINE d == doc[r]
             N == Cardinality(DOMAIN made)
  <1>1. OpInv /\ IdsInv /\ DocOK(r)
    BY DEF RowsInv, IndexInv, OpInv
  <1>2. N \in Nat
    BY <1>1, FS_CardinalityType DEF OpInv, IdsOK
  <1>3. \A i \in DOMAIN d.ops : /\ i \in DOMAIN made /\ made[i].past \subseteq DOMAIN d.ops
                                /\ d.ops[i] = made[i].o
    BY <1>1 DEF DocOK, Held
  <1>4. \A i \in DOMAIN d.ops : i[1] < N + 1
    <2> SUFFICES ASSUME NEW i \in DOMAIN d.ops PROVE i[1] < N + 1
      OBVIOUS
    <2>1. i[1] \in 1 .. N
      BY <1>1, <1>3 DEF IdsInv
    <2> HIDE DEF N
    <2> QED
      BY <1>2, <2>1
  <1>5. \E b \in Nat : \A i \in DOMAIN d.ops : i[1] < b
    <2> HIDE DEF N
    <2>1. N + 1 \in Nat
      BY <1>2
    <2> QED
      BY <1>4, <2>1
  <1>6. ASSUME NEW i \in DOMAIN d.ops
        PROVE  d.ops[i].ref = Head0 \/ (d.ops[i].ref \in DOMAIN d.ops /\ d.ops[i].ref[1] < i[1])
    <2>1. PastOK(i) /\ RefersBack(i)
      BY <1>1, <1>3, <1>6 DEF OpInv
    <2>2. i \in DOMAIN made /\ made[i].past \subseteq DOMAIN d.ops /\ d.ops[i] = made[i].o
      BY <1>3, <1>6
    <2> HIDE DEF d
    <2> QED
      BY <2>1, <2>2 DEF RefersBack, Earlier, PastOK
  <1> QED
    BY <1>5, <1>6 DEF CountersFall

\* The elements of a list are in the order of its tree.
ListInTree(r) ==
    LET s == Listed(doc[r])
    IN  \A m, n \in DOMAIN s : m < n => Leads(PathOf(doc[r])[s[m]], PathOf(doc[r])[s[n]])

\* So they are where edits and batches have put them.
LEMMA ListIsTree ==
    ASSUME RowsInv, NEW r \in Replica, object = "list", NEW s, s = Listed(doc[r])
    PROVE  /\ Tree(doc[r], s)
           /\ \A x, y : Precedes(s, x, y) => Leads(PathOf(doc[r])[x], PathOf(doc[r])[y])
  <1> DEFINE d == doc[r]
  <1>1. TreeOK(d) /\ CountersFall(d)
    BY CountersFallIs DEF RowsInv
  <1>2. OpsOK(d) /\ RowsOK(d, DOMAIN d.ops) /\ InTree(d, s)
    BY <1>1 DEF TreeOK
  <1> HIDE DEF d
  <1>3. s \in Seq(Elements(d, DOMAIN d.ops)) /\ Distinct(s) /\ ToSet(s) = Elements(d, DOMAIN d.ops)
    BY <1>2, ListedHas DEF d
  <1>4. Tree(d, s)
    BY <1>2, <1>3 DEF Tree, OrderOf
  <1>5. ASSUME NEW x, NEW y, Precedes(s, x, y)
        PROVE  Leads(PathOf(d)[x], PathOf(d)[y])
    <2>1. x \in ToSet(s) /\ y \in ToSet(s)
      BY <1>3, <1>5, PrecedesIsOrder
    <2>2. x \in DOMAIN d.ops /\ y \in DOMAIN d.ops
      BY <1>3, <2>1 DEF Elements
    <2>3. DOMAIN d.ops \in SUBSET (Nat \X Nat)
      BY <1>2 DEF OpsOK
    <2>4. IsPath(d, PathOf(d)[x], x) /\ IsPath(d, PathOf(d)[y], y)
      BY <1>1, <2>2, <2>3, PathOfIs
    <2> QED
      BY <1>4, <1>5, <2>1, <2>4, TreeLeads
  <1> QED
    BY <1>4, <1>5 DEF d

\* Lists with the same operations have the same elements in the same order.
ListsAgree ==
    object = "list" =>
        \A r, s \in Replica :
            DOMAIN doc[r].ops = DOMAIN doc[s].ops => Listed(doc[r]) = Listed(doc[s])

\* And are in the order of the tree of their inserts.
ListsInTree == object = "list" => \A r \in Replica : ListInTree(r)

\* Every document gives its elements the one order that its tree has.
LEMMA ListsAre ==
    ASSUME RowsInv
    PROVE  ListsAgree /\ ListsInTree
  <1>1. ASSUME object = "list", NEW r \in Replica, NEW s \in Replica,
               DOMAIN doc[r].ops = DOMAIN doc[s].ops
        PROVE  Listed(doc[r]) = Listed(doc[s])
    <2> DEFINE c == doc[r]
               d == doc[s]
    <2>1. DocOK(r) /\ DocOK(s) /\ TreeOK(c) /\ TreeOK(d)
      BY <1>1 DEF RowsInv, IndexInv, OpInv
    <2>2. c.ops = [i \in Held(r) |-> made[i].o] /\ d.ops = [i \in Held(s) |-> made[i].o] /\ Held(r) = Held(s)
      BY <1>1, <2>1 DEF DocOK, Held
    <2>3. c.ops = d.ops
      BY <2>2
    <2>4. PathOf(c) = PathOf(d)
      BY <2>3 DEF PathOf
    <2>5. Tree(c, Listed(c)) /\ \A x, y : Precedes(Listed(c), x, y) => Leads(PathOf(c)[x], PathOf(c)[y])
      BY <1>1, ListIsTree
    <2>6. Tree(d, Listed(d)) /\ \A x, y : Precedes(Listed(d), x, y) => Leads(PathOf(d)[x], PathOf(d)[y])
      BY <1>1, ListIsTree
    <2>7. OrderOf(c, Listed(c)) /\ OrderOf(d, Listed(d)) /\ OpsOK(d)
      BY <2>5, <2>6 DEF Tree
    <2>8. Elements(c, DOMAIN c.ops) = Elements(d, DOMAIN d.ops)
      BY <2>3 DEF Elements
    <2>9. CountersFall(d)
      BY <1>1, CountersFallIs
    <2> DEFINE E == Elements(d, DOMAIN d.ops)
    <2> HIDE DEF c, d
    <2>10. DOMAIN d.ops \in SUBSET (Nat \X Nat) /\ E \subseteq DOMAIN d.ops
      BY <1>1, <2>7 DEF OpsOK, Elements
    <2>11. ASSUME NEW x, NEW y, Precedes(Listed(c), x, y)
           PROVE  Precedes(Listed(d), x, y)
      <3>1. x \in ToSet(Listed(c)) /\ y \in ToSet(Listed(c)) /\ x # y
        BY <2>7, <2>11, PrecedesIsOrder DEF OrderOf
      <3>2. x \in E /\ y \in E
        BY <2>7, <2>8, <3>1 DEF OrderOf
      <3>3. x \in DOMAIN d.ops /\ y \in DOMAIN d.ops
        BY <2>10, <3>2
      <3>4. IsPath(d, PathOf(d)[x], x) /\ IsPath(d, PathOf(d)[y], y)
        BY <2>9, <2>10, <3>3, PathOfIs
      <3>5. PathOf(d)[x] \in Seq(DOMAIN d.ops) /\ PathOf(d)[y] \in Seq(DOMAIN d.ops)
        BY <3>4 DEF IsPath
      <3>6. Leads(PathOf(d)[x], PathOf(d)[y])
        BY <2>4, <2>5, <2>11
      <3>7. ~Leads(PathOf(d)[y], PathOf(d)[x])
        BY <2>10, <3>5, <3>6, LeadsOneWay
      <3>8. x \in ToSet(Listed(d)) /\ y \in ToSet(Listed(d))
        BY <2>7, <3>2 DEF OrderOf
      <3> QED
        BY <2>6, <2>7, <3>1, <3>7, <3>8, PrecedesIsOrder DEF OrderOf
    <2>12. Listed(c) \in Seq(E) /\ Listed(d) \in Seq(E) /\ Distinct(Listed(c)) /\ Distinct(Listed(d))
           /\ ToSet(Listed(c)) = ToSet(Listed(d))
      BY <2>7, <2>8 DEF OrderOf
    <2>13. Listed(c) = Listed(d)
      <3> HIDE DEF E
      <3> QED
        BY <2>11, <2>12, SameOrder
    <2> QED
      BY <2>13 DEF c, d
  <1>2. ASSUME object = "list", NEW r \in Replica PROVE ListInTree(r)
    <2> DEFINE s == Listed(doc[r])
               path == PathOf(doc[r])
    <2>1. \A x, y : Precedes(s, x, y) => Leads(path[x], path[y])
      BY <1>2, ListIsTree
    <2>2. \A m, n \in DOMAIN s : m < n => Precedes(s, s[m], s[n])
      BY DEF Precedes
    <2> HIDE DEF s, path
    <2>3. \A m, n \in DOMAIN s : m < n => Leads(path[s[m]], path[s[n]])
      BY <2>1, <2>2
    <2> QED
      BY <2>3 DEF ListInTree, s, path
  <1> QED
    BY <1>1, <1>2 DEF ListsAgree, ListsInTree

-----------------------------------------------------------------------------
(* The place of a row that updates its element *)

\* Behind the register that begins at the place a and ends at the place b.
LEMMA BehindRegister ==
    ASSUME NEW d, TreeOK(d), NEW i, NEW o, NEW e, OneMore(d, i, o, e), ~o.insert, object = "list",
           NEW a \in 1 .. Len(d.order), NEW b \in 1 .. Len(d.order), Block(d, From(d), a, b),
           o.ref = d.order[a],
           IF o.type = "del" THEN e.order = d.order ELSE e.order = InsertAt(d.order, b + 1, i)
    PROVE  Updates(d, i, o, e)
  <1> DEFINE w == e.order
             g == o.ref
             T == DOMAIN d.ops \cup {i}
  <1>1. OpsOK(d) /\ RowsOK(d, DOMAIN d.ops)
    BY DEF TreeOK
  <1>2. d.order \in Seq(DOMAIN d.ops) /\ Distinct(d.order)
    BY <1>1 DEF RowsOK
  <1>3. d.order \in Seq(T) /\ i \in T /\ i \notin ToSet(d.order)
    BY <1>2, MoreIs
  <1>4. CASE o.type = "del"
    BY <1>4 DEF Updates
  <1>5. CASE o.type # "del"
    <2>1. w = InsertAt(d.order, b + 1, i) /\ Len(d.order) \in Nat
      BY <1>2, <1>5, LenProperties
    <2>2. b + 1 \in 1 .. Len(d.order) + 1
      BY <2>1
    <2> HIDE DEF w, T
    <2>3. ToSet(w) = ToSet(d.order) \cup {i} /\ \A x, y \in ToSet(d.order) : Precedes(w, x, y) <=> Precedes(d.order, x, y)
      BY <1>2, <1>3, <2>1, <2>2, InsertAtHas
    <2>4. \A n \in 1 .. Len(d.order) : Precedes(w, d.order[n], i) <=> n < b + 1
      BY <1>2, <1>3, <2>1, <2>2, InsertAtHas
    <2>5. \A n \in 1 .. Len(d.order) : Precedes(w, i, d.order[n]) <=> b + 1 <= n
      BY <1>2, <1>3, <2>1, <2>2, InsertAtHas
    <2>6. RowAmong(d, i, w)
      BY <2>3 DEF RowAmong
    <2>7. a \in From(d) /\ b \in a .. Len(d.order) /\ \A n \in a + 1 .. b : n \notin From(d)
      BY DEF Block
    <2>8. Precedes(w, g, i)
      <3>1. a < b + 1
        BY <2>7
      <3> QED
        BY <2>4, <3>1
    <2>9. ASSUME NEW z \in Elements(d, DOMAIN d.ops), z # g, Precedes(d.order, g, z)
          PROVE  Precedes(w, i, z)
      <3>1. PICK m, n \in DOMAIN d.order : m < n /\ d.order[m] = g /\ d.order[n] = z
        BY <2>9 DEF Precedes
      <3>2. m = a /\ n \in 1 .. Len(d.order) /\ m \in 1 .. Len(d.order)
        BY <1>2, <3>1, LenProperties DEF Distinct
      <3>3. n \in From(d)
        BY <2>9, <3>1 DEF From, Elements
      <3>4. b + 1 <= n
        BY <2>7, <3>1, <3>2, <3>3
      <3> QED
        BY <2>5, <3>1, <3>2, <3>4
    <2>10. ASSUME NEW y \in ToSet(RegisterOf(d, g)) PROVE ~Precedes(w, i, y)
      <3>1. Elem(d, d.order[a]) = g
        <4>1. d.ops[d.order[a]].insert
          BY <2>7 DEF From
        <4> QED
          BY <4>1 DEF Elem
      <3>2. PICK a1, b1 \in 1 .. Len(d.order) :
                  /\ Block(d, From(d), a1, b1) /\ Elem(d, d.order[a1]) = g
                  /\ RegisterOf(d, g) = SubSeq(d.order, a1, b1)
        BY <1>1, <2>7, <3>1, RegisterIs
      <3>3. a1 = a /\ a1 \in From(d) /\ b1 \in a1 .. Len(d.order)
        BY <1>1, <2>7, <3>1, <3>2, FromApart DEF Block
      <3>4. \A x : x \in ToSet(SubSeq(d.order, a1, b1)) <=> \E n \in a1 .. b1 : d.order[n] = x
        BY <1>2, <3>3, PartHas
      <3>5. PICK n \in a1 .. b1 : d.order[n] = y
        BY <2>10, <3>2, <3>4
      <3>6. b1 = b
        <4>1. From(d) \in SUBSET (1 .. Len(d.order)) /\ a \in a .. b /\ a \in a1 .. b1
          BY <2>1, <2>7, <3>3 DEF From
        <4> QED
          BY <2>1, <2>7, <3>2, <3>3, <4>1, BlocksApart
      <3>7. n \in 1 .. Len(d.order) /\ ~(b + 1 <= n)
        BY <3>3, <3>5, <3>6
      <3> QED
        BY <2>5, <3>5, <3>7
    <2>11. AtEndOf(d, g, i, w)
      BY <2>8, <2>9, <2>10 DEF AtEndOf, Within
    <2> QED
      BY <1>5, <2>6, <2>11 DEF Updates, w
  <1> QED
    BY <1>4, <1>5

\* Behind all rows of a map.
LEMMA BehindAll ==
    ASSUME NEW d, TreeOK(d), NEW i, NEW o, NEW e, OneMore(d, i, o, e), ~o.insert, object # "list",
           IF o.type = "del" THEN e.order = d.order ELSE e.order = InsertAt(d.order, Len(d.order) + 1, i)
    PROVE  Updates(d, i, o, e)
  <1> DEFINE w == e.order
             T == DOMAIN d.ops \cup {i}
             N == Len(d.order)
  <1>1. OpsOK(d) /\ RowsOK(d, DOMAIN d.ops)
    BY DEF TreeOK
  <1>2. d.order \in Seq(DOMAIN d.ops) /\ Distinct(d.order)
    BY <1>1 DEF RowsOK
  <1>3. d.order \in Seq(T) /\ i \in T /\ i \notin ToSet(d.order)
    BY <1>2, MoreIs
  <1>4. CASE o.type = "del"
    BY <1>4 DEF Updates
  <1>5. CASE o.type # "del"
    <2>1. w = InsertAt(d.order, N + 1, i) /\ N \in Nat
      BY <1>2, <1>5, LenProperties
    <2>2. N + 1 \in 1 .. N + 1
      BY <2>1
    <2> HIDE DEF w, T
    <2>3. ToSet(w) = ToSet(d.order) \cup {i} /\ \A x, y \in ToSet(d.order) : Precedes(w, x, y) <=> Precedes(d.order, x, y)
      BY <1>2, <1>3, <2>1, <2>2, InsertAtHas
    <2>4. \A n \in 1 .. N : Precedes(w, i, d.order[n]) <=> N + 1 <= n
      BY <1>2, <1>3, <2>1, <2>2, InsertAtHas
    <2>5. ASSUME NEW y \in ToSet(RegisterOf(d, o.ref)) PROVE ~Precedes(w, i, y)
      <3>1. y \in ToSet(d.order)
        BY <1>1, <2>5, RegisterHas
      <3>2. PICK n \in 1 .. N : d.order[n] = y
        BY <1>2, <3>1, SetOfSeq
      <3>3. ~(N + 1 <= n)
        BY <2>1, <3>2
      <3> QED
        BY <2>4, <3>2, <3>3
    <2>6. RowAmong(d, i, w) /\ AtEndOf(d, o.ref, i, w)
      BY <1>1, <2>3, <2>5 DEF RowAmong, AtEndOf, Within
    <2> QED
      BY <1>5, <2>6 DEF Updates, w
  <1> QED
    BY <1>4, <1>5

-----------------------------------------------------------------------------
(* What is found *)

\* What is visible has a row and is no increment.
SeenOK(d) == \A x \in d.vis : x \in ToSet(d.order) /\ ~IsInc(d, x)

\* What is visible on the element g.
SeenOn(d, g) == {y \in d.vis : Elem(d, y) = g}

\* The register of the element g is at the places a to b.
RegisterAt(d, g, a, b) ==
    /\ a \in 1 .. Len(d.order) /\ b \in 1 .. Len(d.order)
    /\ Block(d, From(d), a, b) /\ g = d.order[a]

\* Its rows.
LEMMA RegisterAtHas ==
    ASSUME NEW d, TreeOK(d), object = "list", NEW g, NEW a, NEW b, RegisterAt(d, g, a, b)
    PROVE  /\ g \in Elements(d, DOMAIN d.ops)
           /\ RegisterOf(d, g) = SubSeq(d.order, a, b)
           /\ \A n \in a .. b : n \in 1 .. Len(d.order) /\ d.order[n] \in ToSet(RegisterOf(d, g))
  <1>1. OpsOK(d) /\ RowsOK(d, DOMAIN d.ops)
    BY DEF TreeOK
  <1>2. d.order \in Seq(DOMAIN d.ops) /\ Distinct(d.order) /\ Len(d.order) \in Nat
    BY <1>1, LenProperties DEF RowsOK
  <1>3. a \in From(d) /\ b \in a .. Len(d.order) /\ a \in 1 .. Len(d.order) /\ g = d.order[a]
    BY DEF RegisterAt, Block
  <1>4. d.ops[g].insert /\ Elem(d, g) = g /\ g \in DOMAIN d.ops
    BY <1>2, <1>3 DEF From, Elem
  <1>5. PICK a1, b1 \in 1 .. Len(d.order) :
              /\ Block(d, From(d), a1, b1) /\ Elem(d, d.order[a1]) = g
              /\ RegisterOf(d, g) = SubSeq(d.order, a1, b1)
    BY <1>1, <1>3, <1>4, RegisterIs
  <1>6. a1 = a /\ b1 \in a1 .. Len(d.order)
    BY <1>1, <1>3, <1>4, <1>5, FromApart DEF Block
  <1>7. b1 = b
    <2>1. From(d) \in SUBSET (1 .. Len(d.order)) /\ a \in a .. b /\ a \in a1 .. b1 /\ Block(d, From(d), a, b)
      BY <1>2, <1>3, <1>6 DEF From, RegisterAt
    <2> QED
      BY <1>2, <1>3, <1>5, <1>6, <2>1, BlocksApart
  <1>8. \A x : x \in ToSet(SubSeq(d.order, a, b)) <=> \E n \in a .. b : d.order[n] = x
    BY <1>2, <1>3, PartHas
  <1>9. ASSUME NEW n \in a .. b PROVE n \in 1 .. Len(d.order) /\ d.order[n] \in ToSet(RegisterOf(d, g))
    BY <1>2, <1>3, <1>5, <1>6, <1>7, <1>8
  <1> QED
    BY <1>4, <1>5, <1>6, <1>7, <1>9 DEF Elements

\* The row x is in the register of the element g, which is found around it.
IsAround(d, x, g, a, b) ==
    /\ RegisterAt(d, g, a, b)
    /\ x \in ToSet(RegisterOf(d, g))
    /\ Around(Registers(d), x) = SubSeq(d.order, a, b)

\* The register around a row.
LEMMA RegisterAround ==
    ASSUME NEW d, TreeOK(d), object = "list", NEW x \in ToSet(d.order)
    PROVE  \E g, a, b : IsAround(d, x, g, a, b)
  <1>1. OpsOK(d) /\ RowsOK(d, DOMAIN d.ops)
    BY DEF TreeOK
  <1>2. d.order \in Seq(DOMAIN d.ops) /\ Distinct(d.order) /\ Len(d.order) \in Nat
    BY <1>1, LenProperties DEF RowsOK
  <1>3. PICK n \in 1 .. Len(d.order) : d.order[n] = x
    BY <1>2, SetOfSeq
  <1>4. From(d) \in SUBSET (1 .. Len(d.order)) /\ 1 \in From(d)
    <2>1. d.order # <<>> /\ 1 \in 1 .. Len(d.order) /\ DOMAIN d.order = 1 .. Len(d.order)
      BY <1>2, <1>3, LenProperties
    <2>2. d.ops[d.order[1]].insert
      BY <1>1, <2>1 DEF RowsOK
    <2> QED
      BY <2>1, <2>2 DEF From
  <1>5. \E a \in From(d) : a <= n
    BY <1>3, <1>4
  <1>6. PICK a, b \in 1 .. Len(d.order) :
               /\ Block(d, From(d), a, b) /\ n \in a .. b
               /\ Around(Grouped(d, From(d)), d.order[n]) = SubSeq(d.order, a, b)
    BY <1>2, <1>3, <1>4, <1>5, AroundIs
  <1>7. RegisterAt(d, d.order[a], a, b)
    BY <1>6 DEF RegisterAt
  <1>8. x \in ToSet(RegisterOf(d, d.order[a]))
    BY <1>3, <1>6, <1>7, RegisterAtHas
  <1>9. Registers(d) = Grouped(d, From(d))
    BY DEF Registers, From
  <1>10. IsAround(d, x, d.order[a], a, b)
    BY <1>3, <1>6, <1>7, <1>8, <1>9 DEF IsAround
  <1> QED
    BY <1>10

\* What is visible in a register is what is visible on its element.
LEMMA SeenInRegister ==
    ASSUME NEW d, TreeOK(d), RegOK(d), SeenOK(d), NEW g \in Elements(d, DOMAIN d.ops)
    PROVE  d.vis \cap ToSet(RegisterOf(d, g)) = SeenOn(d, g)
  <1>1. OpsOK(d) /\ RowsOK(d, DOMAIN d.ops)
    BY DEF TreeOK
  <1>2. ASSUME NEW y \in d.vis, NEW f \in Elements(d, DOMAIN d.ops), y \in ToSet(RegisterOf(d, f))
        PROVE  Elem(d, y) = f
    BY <1>2 DEF RegOK, SeenOK
  <1>3. ASSUME NEW y \in d.vis
        PROVE  \E f \in Elements(d, DOMAIN d.ops) : y \in ToSet(RegisterOf(d, f))
    BY <1>1, <1>3, RegistersPart DEF SeenOK
  <1> QED
    BY <1>2, <1>3 DEF SeenOn

\* Of what is visible on an element the last row is the greatest.
LEMMA WinnerIs ==
    ASSUME NEW d, TreeOK(d), RegOK(d), SeenOK(d), NEW g \in Elements(d, DOMAIN d.ops),
           NEW found, found = SeenOn(d, g), found # {}, NEW u, u = Winner(d, found)
    PROVE  u \in found /\ u \in ToSet(d.order) /\ \A y \in found : ~Less(u, y)
  <1>1. OpsOK(d) /\ RowsOK(d, DOMAIN d.ops)
    BY DEF TreeOK
  <1>2. d.order \in Seq(DOMAIN d.ops) /\ Distinct(d.order) /\ Len(d.order) \in Nat
        /\ DOMAIN d.order = 1 .. Len(d.order)
    BY <1>1, LenProperties DEF RowsOK
  <1> DEFINE M == {n \in DOMAIN d.order : d.order[n] \in found}
             m == Max(M)
  <1>3. m \in M /\ \A n \in M : n <= m
    <2>1. PICK y \in found : TRUE
      OBVIOUS
    <2>2. y \in ToSet(d.order)
      BY DEF SeenOn, SeenOK
    <2>3. PICK n \in 1 .. Len(d.order) : d.order[n] = y
      BY <1>2, <2>2, SetOfSeq
    <2>4. M # {} /\ M \in SUBSET Nat /\ \A j \in M : j <= Len(d.order)
      BY <1>2, <2>3
    <2> HIDE DEF M
    <2> QED
      BY <1>2, <2>4, MaxIs
  <1>4. u = d.order[m]
    BY DEF Winner
  <1>5. u \in found
    BY <1>3, <1>4
  <1> HIDE DEF m, M
  <1>6. \A y \in found : y \in ToSet(d.order) /\ y \in ToSet(RegisterOf(d, g)) /\ Elem(d, y) = g
    <2>1. \A y \in found : y \in ToSet(d.order) /\ Elem(d, y) = g
      BY DEF SeenOn, SeenOK
    <2>2. found = d.vis \cap ToSet(RegisterOf(d, g))
      BY SeenInRegister
    <2> QED
      BY <2>1, <2>2
  <1>7. ASSUME NEW y \in found, Less(u, y) PROVE FALSE
    <2>2. u \in DOMAIN d.ops /\ y \in DOMAIN d.ops /\ DOMAIN d.ops \in SUBSET (Nat \X Nat)
      BY <1>1, <1>2, <1>5, <1>6, <1>7, SetOfSeq DEF OpsOK
    <2>3. PICK n \in 1 .. Len(d.order) : d.order[n] = y
      BY <1>2, <1>6, <1>7, SetOfSeq
    <2>4. n \in M
      BY <1>2, <1>7, <2>3 DEF M
    <2>5. n <= m /\ m \in 1 .. Len(d.order)
      BY <1>2, <1>3, <2>4 DEF M
    <2>6. u # y
      BY <1>7, <2>2, LessIsOrder
    <2>7. n < m
      BY <1>4, <2>3, <2>5, <2>6
    <2>8. Precedes(d.order, y, u)
      BY <1>2, <1>4, <2>3, <2>5, <2>7 DEF Precedes
    <2>9. ~Less(u, g) /\ ~Less(y, g)
      BY <1>1, <1>5, <1>6, <2>2, ElementEarlier
    <2>10. RegOn(d, g)
      BY RegOnIs
    <2>11. Less(y, u)
      BY <1>5, <1>6, <2>8, <2>9, <2>10 DEF RegOn
    <2> QED
      BY <1>7, <2>2, <2>11, LessIsOrder
  <1> QED
    BY <1>5, <1>6, <1>7

\* An index of a list finds what is visible on one element, in its register.
LEMMA FoundOnElement ==
    ASSUME NEW d, TreeOK(d), RegOK(d), SeenOK(d), d.top \subseteq d.vis, object = "list", NEW k,
           NEW found, found = At(Found(d, {}), k), found # {}
    PROVE  \E g, a, b : /\ RegisterAt(d, g, a, b)
                        /\ found = SeenOn(d, g)
                        /\ RangeAt(d, {}, k) = SubSeq(d.order, a, b)
                        /\ RefAt(d, found) = g
                        /\ Winner(d, found) \in found
                        /\ \A y \in found : ~Less(Winner(d, found), y)
  <1> DEFINE tops == Only(d.order, d.top)
             G == Registers(d)
             F == Found(d, {})
  <1>1. OpsOK(d) /\ RowsOK(d, DOMAIN d.ops)
    BY DEF TreeOK
  <1>2. d.order \in Seq(DOMAIN d.ops) /\ Distinct(d.order) /\ Len(d.order) \in Nat
    BY <1>1, LenProperties DEF RowsOK
  <1>3. F = [n \in DOMAIN tops |-> d.vis \cap ToSet(Around(G, tops[n]))]
    BY DEF Found
  <1>4. k \in DOMAIN F /\ found = F[k]
    BY DEF At
  <1>5. tops \in Seq(DOMAIN d.ops) /\ ToSet(tops) = ToSet(d.order) \cap d.top
    BY <1>2, OnlyHas DEF Keeps
  <1> HIDE DEF F, tops
  <1>6. k \in DOMAIN tops /\ found = d.vis \cap ToSet(Around(G, tops[k]))
    BY <1>3, <1>4
  <1>7. tops[k] \in ToSet(d.order)
    BY <1>5, <1>6, SetOfSeq
  <1> DEFINE x == tops[k]
  <1> HIDE DEF x
  <1>8. PICK g, a, b : RegisterAt(d, g, a, b) /\ Around(G, x) = SubSeq(d.order, a, b)
    <2>1. x \in ToSet(d.order)
      BY <1>7 DEF x
    <2>2. \E g, a, b : IsAround(d, x, g, a, b)
      BY <2>1, RegisterAround
    <2> QED
      BY <2>2 DEF IsAround
  <1>9. g \in Elements(d, DOMAIN d.ops) /\ RegisterOf(d, g) = SubSeq(d.order, a, b)
    BY <1>8, RegisterAtHas
  <1>10. found = SeenOn(d, g)
    BY <1>6, <1>8, <1>9, SeenInRegister DEF x
  <1> DEFINE u == Winner(d, found)
  <1>13. u \in found /\ u \in ToSet(d.order) /\ \A y \in found : ~Less(u, y)
    BY <1>9, <1>10, WinnerIs
  <1> HIDE DEF u
  <1>14. u \in ToSet(d.order) /\ u \in ToSet(RegisterOf(d, g)) /\ Elem(d, u) = g
    <2>1. found = d.vis \cap ToSet(RegisterOf(d, g))
      BY <1>9, <1>10, SeenInRegister
    <2>2. Elem(d, u) = g
      BY <1>10, <1>13 DEF SeenOn
    <2> QED
      BY <1>13, <2>1, <2>2
  <1>15. RangeAt(d, {}, k) = SubSeq(d.order, a, b)
    <2>1. PICK g2, a2, b2 : RegisterAt(d, g2, a2, b2) /\ u \in ToSet(RegisterOf(d, g2))
                            /\ Around(G, u) = SubSeq(d.order, a2, b2)
      <3>1. \E h, p, q : IsAround(d, u, h, p, q)
        BY <1>14, RegisterAround
      <3> QED
        BY <3>1 DEF IsAround
    <2>2. g2 = g
      BY <1>1, <1>14, <2>1, RegistersPart
    <2>3. Around(G, u) = SubSeq(d.order, a, b)
      BY <1>9, <2>1, <2>2, RegisterAtHas
    <2>4. RangeAt(d, {}, k) = Around(G, u)
      BY <1>4 DEF RangeAt, u, F
    <2> QED
      BY <2>3, <2>4
  <1>16. RefAt(d, found) = g
    BY <1>10 DEF RefAt, ElemOf, SeenOn
  <1> QED
    BY <1>8, <1>10, <1>13, <1>15, <1>16 DEF u

-----------------------------------------------------------------------------
(* Rows that lie together *)

\* Every row is in the register of its element.
AllAtHome(d) == \A x \in ToSet(d.order) : x \in ToSet(RegisterOf(d, Elem(d, x)))

\* The rows at the places a to b, where no other element begins, are of one element.
LEMMA RunIs ==
    ASSUME NEW d, NEW T, d.order \in Seq(T), NEW a \in 1 .. Len(d.order), NEW b \in 1 .. Len(d.order),
           Block(d, Changes(d), a, b), NEW n \in a .. b
    PROVE  Elem(d, d.order[n]) = Elem(d, d.order[a])
  <1> DEFINE N == {k \in Nat : a + k <= b => Elem(d, d.order[a + k]) = Elem(d, d.order[a])}
  <1>1. a \in Nat /\ b \in Nat /\ Len(d.order) \in Nat /\ DOMAIN d.order = 1 .. Len(d.order) /\ n \in Nat
    BY LenProperties
  <1>2. 0 \in N
    BY <1>1
  <1>3. ASSUME NEW k \in N PROVE k + 1 \in N
    <2> SUFFICES ASSUME a + (k + 1) <= b
                 PROVE  Elem(d, d.order[a + (k + 1)]) = Elem(d, d.order[a])
      BY <1>1
    <2> DEFINE m == a + (k + 1)
    <2>1. m \in a + 1 .. b /\ m \in 1 .. Len(d.order) /\ m # 1 /\ m - 1 = a + k /\ a + k <= b
      BY <1>1
    <2> HIDE DEF m
    <2>2. m \notin Changes(d)
      BY <2>1 DEF Block
    <2>3. Elem(d, d.order[m]) = Elem(d, d.order[m - 1])
      BY <1>1, <2>1, <2>2 DEF Changes
    <2> QED
      BY <2>1, <2>3 DEF m
  <1>4. N = Nat
    <2>1. N \in SUBSET Nat
      OBVIOUS
    <2> HIDE DEF N
    <2> QED
      BY <1>2, <1>3, <2>1, AllNumbers
  <1>5. n - a \in N /\ a + (n - a) = n /\ n <= b
    BY <1>1, <1>4
  <1> QED
    BY <1>5

\* If groups that begin at different places are the same, so are their parts.
LEMMA SameGroups ==
    ASSUME NEW d, NEW T, d.order \in Seq(T), Distinct(d.order),
           NEW from \in SUBSET (1 .. Len(d.order)), NEW to \in SUBSET (1 .. Len(d.order)),
           Grouped(d, from) = Grouped(d, to), NEW a \in from, NEW b, Block(d, from, a, b)
    PROVE  Block(d, to, a, b)
  <1>1. Len(d.order) \in Nat /\ DOMAIN d.order = 1 .. Len(d.order)
    BY LenProperties
  <1>2. PICK c \in 1 .. Len(d.order) :
               Block(d, from, a, c) /\ SubSeq(d.order, a, c) \in ToSet(Grouped(d, from))
    BY GroupedIs
  <1>3. a \in 1 .. Len(d.order) /\ b \in a .. Len(d.order) /\ c \in a .. Len(d.order)
    BY <1>2 DEF Block
  <1>4. b = c
    <2>1. a \in a .. b /\ a \in a .. c
      BY <1>1, <1>3
    <2> QED
      BY <1>1, <1>2, <2>1, BlocksApart
  <1>5. PICK g, h \in 1 .. Len(d.order) :
               Block(d, to, g, h) /\ SubSeq(d.order, a, b) = SubSeq(d.order, g, h)
    <2>1. PICK w : w = SubSeq(d.order, a, b)
      OBVIOUS
    <2>2. w \in ToSet(Grouped(d, to))
      BY <1>2, <1>4, <2>1
    <2>3. \E g, h \in 1 .. Len(d.order) : Block(d, to, g, h) /\ w = SubSeq(d.order, g, h)
      BY <2>2, GroupedIs
    <2> QED
      BY <2>1, <2>3
  <1>6. h \in g .. Len(d.order)
    BY <1>5 DEF Block
  <1>7. Len(SubSeq(d.order, a, b)) = b - a + 1 /\ SubSeq(d.order, a, b)[1] = d.order[a]
    <2>1. Len(SubSeq(d.order, a, b)) = b - a + 1
          /\ \A k \in 1 .. b - a + 1 : SubSeq(d.order, a, b)[k] = d.order[a + k - 1]
      BY <1>3, PartHas
    <2>2. 1 \in 1 .. b - a + 1 /\ a + 1 - 1 = a
      BY <1>1, <1>3
    <2> QED
      BY <2>1, <2>2
  <1>8. Len(SubSeq(d.order, g, h)) = h - g + 1 /\ SubSeq(d.order, g, h)[1] = d.order[g]
    <2>1. Len(SubSeq(d.order, g, h)) = h - g + 1
          /\ \A k \in 1 .. h - g + 1 : SubSeq(d.order, g, h)[k] = d.order[g + k - 1]
      BY <1>6, PartHas
    <2>2. 1 \in 1 .. h - g + 1 /\ g + 1 - 1 = g
      BY <1>1, <1>5, <1>6
    <2> QED
      BY <2>1, <2>2
  <1>9. a = g
    <2>1. d.order[a] = d.order[g]
      BY <1>5, <1>7, <1>8
    <2> QED
      BY <1>1, <1>3, <2>1 DEF Distinct
  <1>10. b = h
    <2>1. b - a + 1 = h - g + 1
      BY <1>5, <1>7, <1>8
    <2> QED
      BY <1>1, <1>3, <1>6, <1>9, <2>1
  <1> QED
    BY <1>5, <1>9, <1>10

\* The rows of a list lie together if and only if all are in the registers of
\* their elements.
LEMMA TogetherIs ==
    ASSUME NEW d, TreeOK(d), object = "list"
    PROVE  Together(d) <=> AllAtHome(d)
  <1> DEFINE L == Len(d.order)
  <1>1. OpsOK(d) /\ RowsOK(d, DOMAIN d.ops)
    BY DEF TreeOK
  <1>2. d.order \in Seq(DOMAIN d.ops) /\ Distinct(d.order) /\ L \in Nat /\ DOMAIN d.order = 1 .. L
        /\ ToSet(d.order) \subseteq DOMAIN d.ops
    BY <1>1, LenProperties DEF RowsOK
  <1>3. Runs(d) = Grouped(d, Changes(d)) /\ Registers(d) = Grouped(d, From(d))
    BY DEF Runs, Registers, Changes, From
  <1>4. Changes(d) \in SUBSET (1 .. L) /\ From(d) \in SUBSET (1 .. L)
    BY <1>2 DEF Changes, From
  <1>5. ASSUME NEW n \in 1 .. L
        PROVE  \E g, a, b : RegisterAt(d, g, a, b) /\ n \in a .. b
    <2>1. d.order[n] \in ToSet(d.order)
      BY <1>2, SetOfSeq
    <2>2. PICK g, a, b : IsAround(d, d.order[n], g, a, b)
      BY <2>1, RegisterAround
    <2>3. RegisterAt(d, g, a, b) /\ d.order[n] \in ToSet(SubSeq(d.order, a, b))
      BY <2>2, RegisterAtHas DEF IsAround
    <2>4. a \in 1 .. L /\ b \in a .. L
      BY <2>3 DEF RegisterAt, Block
    <2>5. PICK m \in a .. b : d.order[m] = d.order[n]
      BY <1>2, <2>3, <2>4, PartHas
    <2>6. m = n
      BY <1>2, <2>4, <2>5 DEF Distinct
    <2> QED
      BY <2>3, <2>5, <2>6
  <1>6. ASSUME Together(d) PROVE AllAtHome(d)
    <2> SUFFICES ASSUME NEW x \in ToSet(d.order)
                 PROVE  x \in ToSet(RegisterOf(d, Elem(d, x)))
      BY DEF AllAtHome
    <2>1. PICK n \in 1 .. L : d.order[n] = x
      BY <1>2, SetOfSeq
    <2>2. PICK g, a, b : RegisterAt(d, g, a, b) /\ n \in a .. b
      BY <1>5
    <2>3. a \in From(d) /\ a \in 1 .. L /\ b \in 1 .. L /\ Block(d, From(d), a, b) /\ g = d.order[a]
      BY <2>2 DEF RegisterAt, Block
    <2>4. Block(d, Changes(d), a, b)
      BY <1>2, <1>3, <1>4, <1>6, <2>3, SameGroups DEF Together
    <2>5. Elem(d, x) = Elem(d, g)
      BY <1>2, <2>1, <2>2, <2>3, <2>4, RunIs
    <2>6. Elem(d, g) = g
      BY <1>2, <2>3 DEF From, Elem
    <2>7. x \in ToSet(RegisterOf(d, g))
      BY <2>1, <2>2, RegisterAtHas
    <2> QED
      BY <2>5, <2>6, <2>7
  <1>7. ASSUME AllAtHome(d) PROVE Together(d)
    <2>1. ASSUME NEW n \in 1 .. L PROVE n \in From(d) <=> n \in Changes(d)
      <3>1. PICK g, a, b : RegisterAt(d, g, a, b) /\ n \in a .. b
        BY <1>5
      <3>2. a \in From(d) /\ a \in 1 .. L /\ b \in a .. L /\ (\A m \in a + 1 .. b : m \notin From(d))
            /\ g = d.order[a]
        BY <3>1 DEF RegisterAt, Block
      <3>3. \A m \in a .. b : m \in 1 .. L /\ d.order[m] \in ToSet(RegisterOf(d, g))
        BY <3>1, RegisterAtHas
      <3>4. \A m \in 1 .. L : d.order[m] \in ToSet(d.order)
        BY <1>2, SetOfSeq
      <3>5. \A m \in 1 .. L : \A f : d.order[m] \in ToSet(RegisterOf(d, f)) => Elem(d, d.order[m]) = f
        BY <1>1, <1>7, <3>4, RegistersPart DEF AllAtHome
      <3>6. CASE n = a
        <4>1. n = 1 => n \in Changes(d)
          BY <1>2 DEF Changes
        <4>2. ASSUME n # 1 PROVE n \in Changes(d)
          <5>1. n - 1 \in 1 .. L
            BY <1>2, <4>2
          <5>2. PICK g2, a2, b2 : RegisterAt(d, g2, a2, b2) /\ n - 1 \in a2 .. b2
            BY <1>5, <5>1
          <5>3. a2 \in 1 .. L /\ g2 = d.order[a2] /\ d.order[n - 1] \in ToSet(RegisterOf(d, g2)) /\ a2 <= n - 1
            <6>1. a2 \in 1 .. L /\ g2 = d.order[a2] /\ b2 \in 1 .. L
              BY <5>2 DEF RegisterAt
            <6>2. d.order[n - 1] \in ToSet(RegisterOf(d, g2))
              BY <5>2, RegisterAtHas
            <6>3. a2 <= n - 1
              BY <1>2, <5>2, <6>1
            <6> QED
              BY <6>1, <6>2, <6>3
          <5>4. g2 # g
            BY <1>2, <3>2, <3>6, <5>3 DEF Distinct
          <5>5. Elem(d, d.order[n - 1]) = g2
            BY <3>5, <5>1, <5>3
          <5>6. Elem(d, d.order[n]) = g
            <6>1. n \in a .. b
              BY <3>1
            <6> QED
              BY <3>3, <3>5, <6>1
          <5> QED
            BY <1>2, <5>4, <5>5, <5>6 DEF Changes
        <4> QED
          BY <3>2, <3>6, <4>1, <4>2
      <3>7. CASE n # a
        <4>1. n \in a + 1 .. b /\ n \in a .. b /\ n - 1 \in a .. b /\ n # 1
          BY <1>2, <3>1, <3>2, <3>7
        <4>2. Elem(d, d.order[n]) = g /\ Elem(d, d.order[n - 1]) = g
          BY <3>3, <3>5, <4>1
        <4>3. n \notin Changes(d)
          BY <4>1, <4>2 DEF Changes
        <4> QED
          BY <3>2, <4>1, <4>3
      <3> QED
        BY <3>6, <3>7
    <2>2. From(d) = Changes(d)
      BY <1>4, <2>1
    <2> QED
      BY <1>3, <2>2 DEF Together
  <1> QED
    BY <1>6, <1>7

\* If rows lie together, an index at any heads finds rows in one register.
LEMMA FoundTogether ==
    ASSUME NEW d, TreeOK(d), Together(d), object = "list", NEW S, S # {}, NEW k,
           NEW found, found = At(Found(d, S), k), found # {}
    PROVE  \E g, a, b : /\ RegisterAt(d, g, a, b)
                        /\ RangeAt(d, S, k) = SubSeq(d.order, a, b)
                        /\ RefAt(d, found) = g
                        /\ \A y \in found : Elem(d, y) = g
  <1> DEFINE G == Registers(d)
             V == Visible(d, S)
             shows == Only(G, {g \in ToSet(G) : ToSet(g) \cap V # {}})
             F == Found(d, S)
  <1>1. OpsOK(d) /\ RowsOK(d, DOMAIN d.ops) /\ AllAtHome(d)
    BY TogetherIs DEF TreeOK
  <1>2. d.order \in Seq(DOMAIN d.ops) /\ Distinct(d.order) /\ Len(d.order) \in Nat
        /\ DOMAIN d.order = 1 .. Len(d.order)
    BY <1>1, LenProperties DEF RowsOK
  <1>3. From(d) \in SUBSET (1 .. Len(d.order)) /\ G = Grouped(d, From(d))
    BY <1>2 DEF From, Registers
  <1>4. F = [n \in DOMAIN shows |-> V \cap ToSet(shows[n])]
    BY DEF Found, Seen, Together
  <1>5. k \in DOMAIN F /\ found = F[k]
    BY DEF At
  <1>6. shows \in Seq(ToSet(G)) /\ ToSet(shows) \subseteq ToSet(G)
    <2>1. G \in Seq(ToSet(G))
      BY <1>2, <1>3, GroupedSeq
    <2> HIDE DEF G
    <2> QED
      BY <2>1, OnlyHas DEF Keeps
  <1> HIDE DEF F, shows, G, V
  <1>7. k \in DOMAIN shows /\ found = V \cap ToSet(shows[k])
    BY <1>4, <1>5
  <1>8. shows[k] \in ToSet(G)
    BY <1>6, <1>7, SetOfSeq
  <1>9. PICK a, b \in 1 .. Len(d.order) : Block(d, From(d), a, b) /\ shows[k] = SubSeq(d.order, a, b)
    <2>1. PICK w : w = shows[k]
      OBVIOUS
    <2>2. w \in ToSet(Grouped(d, From(d)))
      BY <1>3, <1>8, <2>1
    <2>3. \E a, b \in 1 .. Len(d.order) : Block(d, From(d), a, b) /\ w = SubSeq(d.order, a, b)
      BY <1>2, <1>3, <2>2, GroupedIs
    <2> QED
      BY <2>1, <2>3
  <1> DEFINE g == d.order[a]
  <1>10. RegisterAt(d, g, a, b)
    BY <1>9 DEF RegisterAt
  <1> HIDE DEF g
  <1>11. g \in Elements(d, DOMAIN d.ops) /\ RegisterOf(d, g) = SubSeq(d.order, a, b)
    BY <1>10, RegisterAtHas
  <1>12. \A y \in found : y \in ToSet(d.order) /\ y \in ToSet(RegisterOf(d, g)) /\ Elem(d, y) = g
    <2>1. \A y \in found : y \in ToSet(RegisterOf(d, g))
      BY <1>7, <1>9, <1>11
    <2>2. \A y \in ToSet(RegisterOf(d, g)) : y \in ToSet(d.order)
      BY <1>1, RegisterHas
    <2>3. \A y \in ToSet(d.order) : \A f : y \in ToSet(RegisterOf(d, f)) => Elem(d, y) = f
      BY <1>1, RegistersPart DEF AllAtHome
    <2> QED
      BY <2>1, <2>2, <2>3
  <1> DEFINE M == {n \in DOMAIN d.order : d.order[n] \in found}
             u == Winner(d, found)
  <1>13. u \in found
    <2>1. PICK y \in found : TRUE
      OBVIOUS
    <2>2. PICK n \in 1 .. Len(d.order) : d.order[n] = y
      BY <1>2, <1>12, SetOfSeq
    <2>3. M # {} /\ M \in SUBSET Nat /\ \A j \in M : j <= Len(d.order)
      BY <1>2, <2>1, <2>2
    <2>4. u = d.order[Max(M)]
      BY DEF Winner
    <2> HIDE DEF u
    <2>5. Max(M) \in M
      <3> HIDE DEF M
      <3> QED
        BY <1>2, <2>3, MaxIs
    <2> QED
      BY <2>4, <2>5
  <1> HIDE DEF u, M
  <1>14. RangeAt(d, S, k) = SubSeq(d.order, a, b)
    <2>1. PICK g2, a2, b2 : RegisterAt(d, g2, a2, b2) /\ u \in ToSet(RegisterOf(d, g2))
                            /\ Around(Registers(d), u) = SubSeq(d.order, a2, b2)
      <3>1. \E h, p, q : IsAround(d, u, h, p, q)
        BY <1>12, <1>13, RegisterAround
      <3> QED
        BY <3>1 DEF IsAround
    <2>2. g2 = g
      BY <1>1, <1>12, <1>13, <2>1, RegistersPart
    <2>3. Around(Registers(d), u) = SubSeq(d.order, a, b)
      BY <1>11, <2>1, <2>2, RegisterAtHas
    <2>4. RangeAt(d, S, k) = Around(Registers(d), u)
      BY <1>5 DEF RangeAt, u, F, Together
    <2> QED
      BY <2>3, <2>4
  <1>15. RefAt(d, found) = g
    BY <1>12 DEF RefAt, ElemOf
  <1> QED
    BY <1>10, <1>12, <1>14, <1>15

\* Rows that lie together after one more did so before.
LEMMA WereTogether ==
    ASSUME NEW d, TreeOK(d), NEW i, NEW o, NEW e, OneMore(d, i, o, e), TreeOK(e), object = "list",
           e.order = d.order \/ RowAmong(d, i, e.order), Together(e)
    PROVE  Together(d)
  <1> DEFINE E == Elements(d, DOMAIN d.ops)
  <1>1. OpsOK(d) /\ RowsOK(d, DOMAIN d.ops) /\ OpsOK(e) /\ RowsOK(e, DOMAIN e.ops) /\ AllAtHome(e)
    BY TogetherIs DEF TreeOK
  <1>2. /\ d.order \in Seq(DOMAIN d.ops) /\ Distinct(d.order) /\ ToSet(d.order) \subseteq DOMAIN d.ops
        /\ e.order \in Seq(DOMAIN e.ops) /\ Distinct(e.order)
    BY <1>1 DEF RowsOK
  <1>3. /\ ToSet(d.order) \subseteq ToSet(e.order)
        /\ \A x, y \in ToSet(d.order) : Precedes(e.order, x, y) <=> Precedes(d.order, x, y)
    BY DEF RowAmong
  <1>4. (\A x \in DOMAIN d.ops : Elem(e, x) = Elem(d, x)) /\ DOMAIN d.ops \subseteq DOMAIN e.ops
        /\ \A x \in DOMAIN d.ops : e.ops[x] = d.ops[x]
    BY MoreIs DEF OneMore
  <1>5. E \subseteq ToSet(d.order) /\ E \subseteq Elements(e, DOMAIN e.ops)
    <2>1. \A x \in DOMAIN d.ops : d.ops[x].insert => HasRow(d, x)
      BY <1>1 DEF OpsOK
    <2> QED
      BY <1>1, <1>4, <2>1 DEF Elements, RowsOK
  <1>6. ASSUME NEW x \in ToSet(d.order) PROVE x \in ToSet(RegisterOf(d, Elem(d, x)))
    <2> DEFINE g == Elem(d, x)
    <2>1. x \in DOMAIN d.ops /\ HasRow(d, x) /\ Elem(e, x) = g
      BY <1>1, <1>2, <1>4 DEF RowsOK
    <2>2. g \in E
      BY <1>1, <2>1, ElementEarlier
    <2>3. x \in ToSet(RegisterOf(e, g)) /\ x \in ToSet(e.order)
      BY <1>1, <1>3, <2>1 DEF AllAtHome
    <2> HIDE DEF g, E
    <2>4. Lies(e, Elements(e, DOMAIN e.ops), g, x)
      BY <1>1, <1>5, <2>2, <2>3, LiesIs
    <2>5. Lies(d, E, g, x)
      <3>1. x = g \/ Precedes(d.order, g, x)
        BY <1>3, <1>5, <2>2, <2>4 DEF Lies
      <3>2. ASSUME NEW z \in E, z # g, Precedes(d.order, g, z) PROVE Precedes(d.order, x, z)
        <4>1. Precedes(e.order, g, z) /\ z \in Elements(e, DOMAIN e.ops)
          BY <1>3, <1>5, <2>2, <3>2
        <4>2. Precedes(e.order, x, z)
          BY <2>4, <3>2, <4>1 DEF Lies
        <4> QED
          BY <1>3, <1>5, <4>2
      <3> QED
        BY <3>1, <3>2 DEF Lies
    <2>6. x \in ToSet(RegisterOf(d, g))
      BY <1>1, <2>2, <2>5, LiesIs DEF E
    <2> QED
      BY <2>6 DEF g
  <1>7. AllAtHome(d)
    BY <1>6 DEF AllAtHome
  <1> QED
    BY <1>7, TogetherIs

-----------------------------------------------------------------------------
(* Edits keep registers in order *)

\* What is known of a document and its indexes.
LEMMA DocIs ==
    ASSUME RowsInv, NEW r \in Replica, NEW d, d = doc[r]
    PROVE  /\ TreeOK(d) /\ OpsOK(d) /\ RowsOK(d, DOMAIN d.ops)
           /\ SeenOK(d) /\ d.top \subseteq d.vis /\ DOMAIN d = Fields /\ DOMAIN d.ops = Held(r)
           /\ \A j \in Held(r) : d.ops[j] = made[j].o
  <1>1. TreeOK(d) /\ d.top \subseteq d.vis /\ DocOK(r) /\ IndexOK(r)
    BY DEF RowsInv, IndexInv, OpInv
  <1>2. d.vis \subseteq ToSet(d.order) /\ DOMAIN d = Fields
    BY VisibleInRows
  <1>3. DOMAIN d.ops = Held(r) /\ \A j \in Held(r) : d.ops[j] = made[j].o
    BY <1>1 DEF DocOK, Held
  <1>4. \A x \in d.vis : x \in Held(r) /\ made[x].o.type # "inc"
    BY <1>1 DEF IndexOK, VisOf
  <1>5. SeenOK(d)
    BY <1>2, <1>3, <1>4 DEF SeenOK, IsInc
  <1> QED
    BY <1>1, <1>2, <1>3, <1>5 DEF TreeOK

\* An insert has its row in front of an element or of increments.
LEMMA InsertFitsIn ==
    ASSUME RowsInv, NEW r \in Replica, NEW S \in Scopes(r), NEW o, NEW e, Edits(r, S, o, e),
           InsertsRow(r, S, o, e), NEW i, i = NextId(r, S)
    PROVE  InsertFits(doc[r], i, e)
  <1> DEFINE d == doc[r]
             N == Len(d.order)
             T == DOMAIN d.ops \cup {i}
             F == IF S = {} THEN Found(d, S) ELSE Seen(d, S, Registers(d))
  <1>1. TreeOK(d) /\ OpsOK(d) /\ RowsOK(d, DOMAIN d.ops) /\ DOMAIN d = Fields
    BY DocIs
  <1>2. OneMore(d, i, o, e)
    BY EditAdds
  <1>3. /\ object = "list" /\ o.insert /\ o.type \in {"set", "counter"}
        /\ \/ o.ref = Head0 /\ e = WithRow(d, i, o, 0)
           \/ e = WithRow(d, i, o, InsertPos(d, o.ref)) /\ o.ref # Head0
    <2>1. /\ object = "list" /\ o.insert /\ o.type \in {"set", "counter"}
          /\ \/ o.ref = Head0 /\ e = WithRow(d, i, o, 0)
             \/ e = WithRow(d, i, o, InsertPos(d, o.ref)) /\ \E k : At(F, k) # {} /\ o.ref = ElemOf(d, At(F, k))
      BY DEF InsertsRow
    <2>2. ASSUME NEW k, At(F, k) # {}, o.ref = ElemOf(d, At(F, k)) PROVE o.ref # Head0
      <3>1. At(F, k) \subseteq InView(d, S) /\ OpInv
        BY FoundIsVisible, ScopeIsClosed DEF RowsInv, IndexInv
      <3> HIDE DEF F
      <3>2. o.ref \in InView(d, S)
        BY <2>1, <2>2, <3>1, ElementInView
      <3>3. o.ref \in DOMAIN d.ops
        BY <3>1, <3>2, ScopeIsClosed DEF Held
      <3> QED
        BY <1>1, <3>3 DEF OpsOK
    <2> QED
      BY <2>1, <2>2
  <1> HIDE DEF d, F
  <1>4. d.order \in Seq(DOMAIN d.ops) /\ Distinct(d.order) /\ N \in Nat /\ DOMAIN d.order = 1 .. N
        /\ d.order \in Seq(T) /\ i \in T /\ i \notin ToSet(d.order)
    BY <1>1, <1>2, MoreIs, LenProperties DEF RowsOK
  <1>5. ASSUME NEW pos, e = WithRow(d, i, o, pos) PROVE e.order = InsertAt(d.order, pos + 1, i)
    BY <1>1, <1>3, <1>5 DEF WithRow, Fields
  <1> DEFINE w == e.order
             Behind(p, n) == \/ IsInc(d, d.order[n])
                             \/ \E m \in 1 .. N : p <= m /\ m <= n /\ d.ops[d.order[m]].insert
             AllBehind(p) == \A n \in 1 .. N : n >= p => Behind(p, n)
  <1> HIDE DEF T, w, N, AllBehind
  <1>6. ASSUME NEW p \in 1 .. N + 1, w = InsertAt(d.order, p, i), AllBehind(p)
        PROVE  InsertFits(d, i, e)
    <2>1. ToSet(w) = ToSet(d.order) \cup {i} /\ \A x, y \in ToSet(d.order) : Precedes(w, x, y) <=> Precedes(d.order, x, y)
      BY <1>4, <1>6, InsertAtHas DEF N
    <2>2. \A n \in 1 .. N : Precedes(w, i, d.order[n]) <=> p <= n
      BY <1>4, <1>6, InsertAtHas DEF N
    <2>3. ASSUME NEW x \in ToSet(d.order), Precedes(w, i, x), ~IsInc(d, x)
          PROVE  \E z \in Elements(d, DOMAIN d.ops) :
                      Precedes(w, i, z) /\ (z = x \/ Precedes(w, z, x))
      <3>1. PICK n \in 1 .. N : d.order[n] = x
        BY <1>4, <2>3, SetOfSeq DEF N
      <3>2. n >= p
        BY <1>4, <1>6, <2>2, <2>3, <3>1
      <3>3. PICK m \in 1 .. N : p <= m /\ m <= n /\ d.ops[d.order[m]].insert
        BY <1>6, <2>3, <3>1, <3>2 DEF AllBehind
      <3> DEFINE z == d.order[m]
      <3>4. z \in Elements(d, DOMAIN d.ops) /\ z \in ToSet(d.order)
        BY <1>3, <1>4, <3>3, SetOfSeq DEF Elements, N
      <3>5. Precedes(w, i, z)
        BY <2>2, <3>3
      <3>6. z = x \/ Precedes(d.order, z, x)
        <4>1. m = n \/ m < n
          BY <1>4, <3>3
        <4> QED
          BY <1>4, <3>1, <3>3, <4>1 DEF Precedes
      <3>7. z = x \/ Precedes(w, z, x)
        BY <2>1, <2>3, <3>4, <3>6
      <3> QED
        BY <3>4, <3>5, <3>7
    <2> QED
      BY <1>3, <2>1, <2>3 DEF InsertFits, RowAmong, w
  <1>7. CASE o.ref = Head0 /\ e = WithRow(d, i, o, 0)
    <2>1. w = InsertAt(d.order, 1, i)
      BY <1>5, <1>7 DEF w
    <2>2. ASSUME NEW n \in 1 .. N
          PROVE  \E m \in 1 .. N : 1 <= m /\ m <= n /\ d.ops[d.order[m]].insert
      <3>1. 1 \in 1 .. N /\ d.order # <<>>
        BY <1>4, LenProperties DEF N
      <3>2. d.ops[d.order[1]].insert
        BY <1>1, <1>3, <3>1 DEF RowsOK
      <3> QED
        BY <1>4, <3>1, <3>2
    <2>3. 1 \in 1 .. N + 1
      BY <1>4
    <2>4. AllBehind(1)
      BY <2>2 DEF AllBehind
    <2> QED
      BY <1>6, <2>1, <2>3, <2>4 DEF d
  <1>8. CASE e = WithRow(d, i, o, InsertPos(d, o.ref)) /\ o.ref # Head0
    <2> DEFINE pos == InsertPos(d, o.ref)
               at == CHOOSE n \in DOMAIN d.order : d.order[n] = o.ref
               later == {n \in DOMAIN d.order : n > at /\ d.ops[d.order[n]].insert}
               rest == {n \in DOMAIN d.order : ~IsInc(d, d.order[n])}
    <2>1. pos = IF later # {} THEN Min(later) - 1 ELSE Max(rest)
      BY DEF InsertPos
    <2>2. o.ref \in DOMAIN d.ops /\ d.ops[o.ref].insert
      <3>1. OpInv /\ BasedOn(r, S, o)
        BY DEF RowsInv, IndexInv, Edits
      <3>2. o.ref \in InView(doc[r], S) /\ made[o.ref].o.insert
        BY <1>3, <1>8, <3>1 DEF BasedOn
      <3>3. o.ref \in Held(r)
        BY <3>1, <3>2, ScopeIsClosed
      <3> QED
        BY <3>2, <3>3, DocIs DEF d
    <2>3. pos \in 1 .. N
      BY <1>1, <2>2, InsertPosIs DEF N
    <2>4. w = InsertAt(d.order, pos + 1, i)
      BY <1>5, <1>8 DEF w
    <2> HIDE DEF pos
    <2>5. pos + 1 \in 1 .. N + 1
      BY <1>4, <2>3
    <2>6. ASSUME NEW n \in 1 .. N, n >= pos + 1, ~IsInc(d, d.order[n])
          PROVE  \E m \in 1 .. N : pos + 1 <= m /\ m <= n /\ d.ops[d.order[m]].insert
      <3>1. later \subseteq 1 .. N /\ rest \subseteq 1 .. N /\ n \in rest
        BY <1>4, <2>6
      <3>2. later \in SUBSET Nat /\ rest \in SUBSET Nat /\ \A m \in rest : m <= N
        BY <1>4, <3>1
      <3>3. CASE later # {}
        <4> DEFINE m == Min(later)
        <4>1. m \in later
          <5> HIDE DEF later
          <5> QED
            BY <3>2, <3>3, MinIs
        <4> HIDE DEF m
        <4>2. m \in 1 .. N /\ d.ops[d.order[m]].insert
          BY <1>4, <4>1
        <4>3. pos = m - 1
          BY <2>1, <3>3 DEF m
        <4>4. pos + 1 = m /\ m <= n
          BY <1>4, <2>6, <4>2, <4>3
        <4> QED
          BY <1>4, <4>2, <4>4
      <3>4. CASE later = {}
        <4>1. \A m \in rest : m <= Max(rest)
          <5> HIDE DEF rest
          <5> QED
            BY <1>4, <3>1, <3>2, MaxIs
        <4>2. n <= pos
          BY <2>1, <3>1, <3>4, <4>1
        <4> QED
          BY <1>4, <2>3, <2>6, <4>2
      <3> QED
        BY <3>3, <3>4
    <2>7. AllBehind(pos + 1)
      BY <2>6 DEF AllBehind
    <2> QED
      BY <1>6, <2>4, <2>5, <2>7 DEF d
  <1> QED
    BY <1>3, <1>7, <1>8

-----------------------------------------------------------------------------
(* Other edits *)

\* What an operation o with the identifier i shows, and what it hides.
Shows(o, i)  == IF o.type \in {"inc", "del"} THEN {} ELSE {i}
Hides(d, o)  == {p \in o.pred : ~Counts(d, o, p)}

\* What wins if the edit shows and hides it, and what after reset_top.
TopEdited(d, i, o) == (d.top \cup Shows(o, i)) \ Hides(d, o)
TopLast(top, seen) == (top \ ToSet(seen)) \cup (IF seen = <<>> THEN {} ELSE {Last(seen)})

\* An operation overwrites what the document has, an increment counters only.
LEMMA EditMeets ==
    ASSUME RowsInv, ~MixedIncrements, NEW r \in Replica, NEW S \in Scopes(r), NEW o, NEW e, Edits(r, S, o, e),
           NEW d, d = doc[r]
    PROVE  /\ o.pred \subseteq DOMAIN d.ops
           /\ o.type = "inc" => \A p \in o.pred : IsCounter(d, p)
           /\ DocAfter(d, NextId(r, S), o, e)
  <1>1. OpInv /\ BasedOn(r, S, o) /\ DocAfter(d, NextId(r, S), o, e)
    BY DEF RowsInv, IndexInv, Edits
  <1>2. o.pred \subseteq Held(r) /\ (o.type = "inc" => \A p \in o.pred : made[p].o.type = "counter")
    BY <1>1, ScopeIsClosed DEF BasedOn
  <1>3. DOMAIN d.ops = Held(r) /\ \A j \in Held(r) : d.ops[j] = made[j].o
    BY DocIs
  <1> QED
    BY <1>1, <1>2, <1>3 DEF IsCounter

\* The row of an edit, and what wins (splice, add_succ, reset_top; what follows
\* changes nothing as long as increments meet counters).
LEMMA UpdatedHas ==
    ASSUME NEW d, DOMAIN d = Fields, NEW i, i \notin DOMAIN d.ops, NEW o, o.pred \subseteq DOMAIN d.ops,
           o.type = "inc" => \A p \in o.pred : IsCounter(d, p),
           NEW S, NEW rows, NEW e, e = Updated(d, i, o, S, rows)
    PROVE  /\ e.order = IF o.type = "del" THEN d.order ELSE InsertAt(d.order, EndOf(d, rows) + 1, i)
           /\ e.top = IF S = {} THEN TopEdited(d, i, o)
                      ELSE TopLast(TopEdited(d, i, o), Only(Append(rows, i), e.vis))
  <1> DEFINE w == WithRow(d, i, o, EndOf(d, rows))
             f == WithSucc(w, i)
             t == IF S = {} THEN f ELSE TopReset(f, Append(rows, i))
  <1>1. e = CounterExposed(t, i)
    BY DEF Updated
  <1>2. /\ w.order = IF o.type = "del" THEN d.order ELSE InsertAt(d.order, EndOf(d, rows) + 1, i)
        /\ w.top = d.top \cup Shows(o, i)
        /\ DOMAIN w = Fields /\ w.ops = With(d.ops, i, o)
    BY DEF WithRow, Fields, Shows
  <1>3. w.ops[i] = o /\ \A p \in o.pred : w.ops[p] = d.ops[p]
    BY <1>2 DEF With
  <1> HIDE DEF w
  <1>4. f.order = w.order /\ DOMAIN f = Fields /\ f.ops = w.ops
        /\ f.top = w.top \ {p \in w.ops[i].pred : ~(IsInc(w, i) /\ IsCounter(w, p))}
    BY <1>2 DEF WithSucc, Fields
  <1>5. {p \in w.ops[i].pred : ~(IsInc(w, i) /\ IsCounter(w, p))} = Hides(d, o)
    BY <1>3 DEF Hides, Counts, IsInc, IsCounter
  <1>6. f.top = TopEdited(d, i, o)
    BY <1>2, <1>4, <1>5 DEF TopEdited
  <1> HIDE DEF f
  <1>7. /\ t.order = f.order /\ t.ops = f.ops /\ t.vis = f.vis
        /\ t.top = IF S = {} THEN f.top ELSE TopLast(f.top, Only(Append(rows, i), f.vis))
    BY <1>4 DEF TopReset, TopLast, Fields
  <1> HIDE DEF t
  <1>8. e = t
    <2>1. t.ops[i] = o /\ \A p \in o.pred : t.ops[p] = d.ops[p]
      BY <1>3, <1>4, <1>7
    <2>2. o.type = "inc" => {p \in o.pred : IsCounter(t, p)} = o.pred
      BY <2>1 DEF IsCounter
    <2> QED
      BY <1>1, <2>1, <2>2 DEF CounterExposed, IsInc
  <1> QED
    BY <1>2, <1>4, <1>6, <1>7, <1>8

\* An edit of what is found has its row at the end of its register.
LEMMA UpdateFits ==
    ASSUME RowsInv, ~MixedIncrements, NEW r \in Replica, NEW S \in Scopes(r), NEW o, NEW e,
           Edits(r, S, o, e), UpdatesRow(r, S, o, e), NEW i, i = NextId(r, S),
           object = "list" => IF S = {} THEN RegOK(doc[r]) ELSE Together(doc[r])
    PROVE  Updates(doc[r], i, o, e) /\ o.ref \in Elements(doc[r], Held(r))
  <1> DEFINE d == doc[r]
             N == Len(d.order)
  <1>1. /\ TreeOK(d) /\ OpsOK(d) /\ RowsOK(d, DOMAIN d.ops)
        /\ SeenOK(d) /\ d.top \subseteq d.vis /\ DOMAIN d = Fields /\ DOMAIN d.ops = Held(r)
    BY DocIs
  <1>2. OneMore(d, i, o, e)
    BY EditAdds
  <1>3. o.pred \subseteq DOMAIN d.ops /\ (o.type = "inc" => \A p \in o.pred : IsCounter(d, p))
    BY EditMeets
  <1>4. PICK k : /\ ~o.insert
                 /\ At(Found(d, S), k) # {} \/ (object = "map" /\ k = 1)
                 /\ o.ref = RefAt(d, At(Found(d, S), k))
                 /\ e = Updated(d, i, o, S, RangeAt(d, S, k))
    BY DEF UpdatesRow
  <1> DEFINE rows == RangeAt(d, S, k)
             found == At(Found(d, S), k)
  <1> HIDE DEF d
  <1>5. e.order = IF o.type = "del" THEN d.order ELSE InsertAt(d.order, EndOf(d, rows) + 1, i)
    BY <1>1, <1>2, <1>3, <1>4, UpdatedHas DEF OneMore
  <1>6. d.order \in Seq(DOMAIN d.ops) /\ Distinct(d.order) /\ N \in Nat /\ DOMAIN d.order = 1 .. N
    BY <1>1, LenProperties DEF RowsOK
  <1>7. CASE object = "list"
    <2>1. found # {} /\ IF S = {} THEN RegOK(d) ELSE Together(d)
      BY <1>4, <1>7 DEF d
    <2>2. PICK g, a, b : RegisterAt(d, g, a, b) /\ rows = SubSeq(d.order, a, b) /\ RefAt(d, found) = g
      <3> DEFINE fnd == At(Found(d, {}), k)
      <3>1. CASE S = {}
        <4>1. \E g, a, b : /\ RegisterAt(d, g, a, b)
                          /\ fnd = SeenOn(d, g)
                          /\ RangeAt(d, {}, k) = SubSeq(d.order, a, b)
                          /\ RefAt(d, fnd) = g
                          /\ Winner(d, fnd) \in fnd
                          /\ \A y \in fnd : ~Less(Winner(d, fnd), y)
          BY <1>1, <1>7, <2>1, <3>1, FoundOnElement
        <4> QED
          BY <3>1, <4>1
      <3>2. CASE S # {}
        <4>1. PICK f : f = found
          OBVIOUS
        <4>2. \E g, a, b : /\ RegisterAt(d, g, a, b)
                          /\ RangeAt(d, S, k) = SubSeq(d.order, a, b)
                          /\ RefAt(d, f) = g
                          /\ \A y \in f : Elem(d, y) = g
          BY <1>1, <1>7, <2>1, <3>2, <4>1, FoundTogether
        <4> QED
          BY <4>1, <4>2
      <3> QED
        BY <3>1, <3>2
    <2>3. a \in 1 .. N /\ b \in a .. N /\ Block(d, From(d), a, b) /\ g = d.order[a]
      BY <2>2 DEF RegisterAt, Block
    <2>4. rows # <<>> /\ Last(rows) = d.order[b]
      <3>1. SubSeq(d.order, a, b) \in Seq(DOMAIN d.ops)
        BY <1>6, <2>3, PartHas
      <3>2. Len(SubSeq(d.order, a, b)) = b - a + 1
        BY <1>6, <2>3, PartHas
      <3>3. \A j \in 1 .. b - a + 1 : SubSeq(d.order, a, b)[j] = d.order[a + j - 1]
        BY <1>6, <2>3, PartHas
      <3> HIDE DEF rows
      <3>4. Len(rows) = b - a + 1 /\ rows[b - a + 1] = d.order[b] /\ Len(rows) > 0
        BY <1>6, <2>2, <2>3, <3>2, <3>3
      <3>5. rows # <<>>
        BY <3>4
      <3> QED
        BY <3>4, <3>5 DEF Last
    <2> HIDE DEF rows
    <2>5. EndOf(d, rows) = b
      <3>1. \A n \in DOMAIN d.order : d.order[n] = Last(rows) <=> n = b
        BY <1>6, <2>3, <2>4 DEF Distinct
      <3>2. b \in DOMAIN d.order
        BY <1>6, <2>3
      <3> QED
        BY <2>4, <3>1, <3>2 DEF EndOf
    <2>6. Updates(d, i, o, e)
      <3>1. o.ref = d.order[a] /\ b \in 1 .. N
        BY <1>4, <1>6, <2>2, <2>3
      <3>2. IF o.type = "del" THEN e.order = d.order ELSE e.order = InsertAt(d.order, b + 1, i)
        BY <1>5, <2>5
      <3> QED
        BY <1>1, <1>2, <1>4, <1>7, <2>3, <3>1, <3>2, BehindRegister
    <2>7. o.ref \in Elements(d, Held(r))
      <3>1. g \in Elements(d, DOMAIN d.ops)
        BY <1>1, <1>7, <2>2, RegisterAtHas
      <3> QED
        BY <1>1, <1>4, <2>2, <3>1
    <2> QED
      BY <2>6, <2>7 DEF d
  <1>8. CASE object # "list"
    <2>1. object = "map"
      BY <1>1, <1>8 DEF OpsOK
    <2>2. rows = d.order
      BY <2>1 DEF RangeAt
    <2>3. EndOf(d, rows) = N
      <3>1. CASE d.order = <<>>
        BY <2>2, <3>1, LenProperties DEF EndOf
      <3>2. CASE d.order # <<>>
        <4>1. N > 0 /\ N \in DOMAIN d.order
          BY <1>6, <3>2, EmptySeq
        <4>2. Last(d.order) = d.order[N]
          BY DEF Last
        <4>3. \A n \in DOMAIN d.order : d.order[n] = Last(d.order) <=> n = N
          BY <1>6, <4>1, <4>2 DEF Distinct
        <4> QED
          BY <2>2, <3>2, <4>1, <4>3 DEF EndOf
      <3> QED
        BY <3>1, <3>2
    <2>4. IF o.type = "del" THEN e.order = d.order ELSE e.order = InsertAt(d.order, N + 1, i)
      BY <1>5, <2>3
    <2>5. Updates(d, i, o, e)
      BY <1>1, <1>2, <1>4, <1>8, <2>4, BehindAll
    <2>6. o.ref \in Elements(d, Held(r))
      BY <1>4, <2>1 DEF RefAt, Elements
    <2> QED
      BY <2>5, <2>6 DEF d
  <1> QED
    BY <1>7, <1>8

\* The document e is that after an edit which inserts or is about what was found.
EditOf(r, S, i, o, e) ==
    /\ Edits(r, S, o, e)
    /\ InsertsRow(r, S, o, e) \/ UpdatesRow(r, S, o, e)
    /\ i = NextId(r, S)
    /\ object = "list" /\ S # {} => Together(doc[r])

\* Its rows are in order.
LEMMA EditTree ==
    ASSUME RowsInv, ~MixedIncrements, NEW r \in Replica, NEW S \in Scopes(r), NEW i, NEW o, NEW e,
           EditOf(r, S, i, o, e)
    PROVE  TreeOK(e) /\ OneMore(doc[r], i, o, e)
  <1>1. RowPut(doc[r], i, o, e.order)
    BY InsertRowIs, UpdateRowIs DEF EditOf
  <1>2. OneMore(doc[r], i, o, e) /\ OpsOK(e)
    BY EditAdds DEF EditOf
  <1> QED
    BY <1>1, <1>2, RowAdded DEF RowsInv

\* Registers stay in order.
LEMMA EditKeepsReg ==
    ASSUME RowsInv, ~MixedIncrements, NEW r \in Replica, NEW S \in Scopes(r), NEW i, NEW o, NEW e,
           EditOf(r, S, i, o, e), RegOK(doc[r])
    PROVE  RegOK(e)
  <1>1. TreeOK(e) /\ OneMore(doc[r], i, o, e) /\ TreeOK(doc[r])
    BY EditTree DEF RowsInv
  <1>2. CASE InsertsRow(r, S, o, e)
    <2>1. InsertFits(doc[r], i, e) /\ o.insert
      BY <1>2, InsertFitsIn DEF EditOf, InsertsRow
    <2> QED
      BY <1>1, <2>1, InsertKeepsReg
  <1>3. CASE UpdatesRow(r, S, o, e)
    <2>1. Updates(doc[r], i, o, e) /\ o.ref \in Elements(doc[r], DOMAIN doc[r].ops)
      BY <1>3, UpdateFits DEF EditOf, Held
    <2> QED
      BY <1>1, <2>1, UpdateKeepsReg
  <1> QED
    BY <1>2, <1>3 DEF EditOf

\* Rows that lie together after an edit did so before.
LEMMA EditWereTogether ==
    ASSUME RowsInv, ~MixedIncrements, NEW r \in Replica, NEW S \in Scopes(r), NEW o, NEW e,
           Edits(r, S, o, e), InsertsRow(r, S, o, e) \/ UpdatesRow(r, S, o, e),
           object = "list", Together(e)
    PROVE  Together(doc[r])
  <1> DEFINE d == doc[r]
             i == NextId(r, S)
  <1>1. TreeOK(d) /\ OpsOK(d) /\ RowsOK(d, DOMAIN d.ops)
    BY DocIs
  <1>2. OneMore(d, i, o, e) /\ OpsOK(e)
    BY EditAdds
  <1>3. RowPut(d, i, o, e.order)
    BY InsertRowIs, UpdateRowIs
  <1> HIDE DEF d, i
  <1>4. TreeOK(e)
    BY <1>1, <1>2, <1>3, RowAdded
  <1>5. e.order = d.order \/ RowAmong(d, i, e.order)
    <2>1. CASE o.type = "del"
      BY <1>3, <2>1 DEF RowPut
    <2>2. CASE o.type # "del"
      <3>1. RowsOK(e, DOMAIN e.ops)
        BY <1>4 DEF TreeOK
      <3>2. \A x, y \in ToSet(d.order) : Precedes(e.order, x, y) <=> Precedes(d.order, x, y)
        BY <1>1, <1>2, <1>3, RowPutHas
      <3>3. \A j \in DOMAIN d.ops : HasRow(e, j) <=> HasRow(d, j)
        BY <1>1, <1>2, MoreIs
      <3>4. HasRow(e, i) /\ DOMAIN e.ops = DOMAIN d.ops \cup {i}
        BY <1>2, <2>2 DEF OneMore, HasRow
      <3>5. ToSet(e.order) = ToSet(d.order) \cup {i}
        BY <1>1, <3>1, <3>3, <3>4 DEF RowsOK
      <3> QED
        BY <3>2, <3>5 DEF RowAmong
    <2> QED
      BY <2>1, <2>2
  <1> QED
    BY <1>1, <1>2, <1>4, <1>5, WereTogether DEF d

-----------------------------------------------------------------------------
(* The winners *)

\* What wins is the greatest of what is visible on its element.
Wins(d, x) == \A y \in SeenOn(d, Elem(d, x)) : ~Less(x, y)
TopOK(d) == d.top = {x \in d.vis : Wins(d, x)}

\* What is hidden leaves nothing on the element g, or its winner.
LeavesWinner(d, g, h) ==
    \/ h = {}
    \/ h = SeenOn(d, g)
    \/ \E w \in SeenOn(d, g) : h = SeenOn(d, g) \ {w} /\ \A y \in SeenOn(d, g) : ~Less(w, y)

\* Then what still is visible still wins, or what is new.
LEMMA TopAfter ==
    ASSUME NEW d, NEW e, TopOK(d), NEW i, i \notin d.vis, ~Less(i, i), NEW g, Elem(e, i) = g,
           \A x \in d.vis : Elem(e, x) = Elem(d, x),
           NEW n \in {{}, {i}}, NEW h \in SUBSET SeenOn(d, g),
           IF n = {i} THEN h = SeenOn(d, g) ELSE LeavesWinner(d, g, h),
           e.vis = (d.vis \cup n) \ h, e.top = (d.top \cup n) \ h
    PROVE  TopOK(e)
  <1>1. \A x : x \in d.top <=> x \in d.vis /\ Wins(d, x)
    BY DEF TopOK
  <1>2. ASSUME NEW x \in d.vis, x \notin h, Elem(d, x) # g
        PROVE  Wins(e, x) <=> Wins(d, x)
    <2>1. SeenOn(e, Elem(e, x)) = SeenOn(d, Elem(d, x))
      BY <1>2 DEF SeenOn
    <2> QED
      BY <2>1 DEF Wins
  <1>3. CASE n = {i}
    <2>1. h = SeenOn(d, g)
      BY <1>3
    <2>2. SeenOn(e, g) = {i}
      BY <1>3, <2>1 DEF SeenOn
    <2>3. Wins(e, i) /\ i \in e.vis /\ i \in e.top
      BY <1>3, <2>2 DEF Wins, SeenOn
    <2>4. ASSUME NEW x \in e.vis, x # i PROVE x \in e.top <=> Wins(e, x)
      <3>1. x \in d.vis /\ x \notin h /\ Elem(d, x) # g
        BY <1>3, <2>1, <2>4 DEF SeenOn
      <3>2. x \in e.top <=> x \in d.top
        BY <1>3, <2>4, <3>1
      <3> QED
        BY <1>1, <1>2, <3>1, <3>2
    <2>5. e.top \subseteq e.vis
      BY <1>1
    <2> QED
      BY <2>3, <2>4, <2>5 DEF TopOK
  <1>4. CASE n = {}
    <2>1. e.vis = d.vis \ h /\ e.top = d.top \ h /\ LeavesWinner(d, g, h)
      BY <1>4
    <2>2. ASSUME NEW x \in e.vis PROVE Wins(e, x) <=> Wins(d, x)
      <3>1. x \in d.vis /\ x \notin h
        BY <2>1, <2>2
      <3>2. CASE Elem(d, x) # g
        BY <1>2, <3>1, <3>2
      <3>3. CASE Elem(d, x) = g
        <4>1. x \in SeenOn(d, g) /\ Elem(e, x) = g
          BY <3>1, <3>3 DEF SeenOn
        <4>2. SeenOn(e, g) = SeenOn(d, g) \ h
          BY <2>1 DEF SeenOn
        <4>3. CASE h = {}
          BY <3>3, <4>1, <4>2, <4>3 DEF Wins
        <4>4. CASE h # {}
          <5>1. PICK w \in SeenOn(d, g) : h = SeenOn(d, g) \ {w} /\ \A y \in SeenOn(d, g) : ~Less(w, y)
            BY <2>1, <3>1, <4>1, <4>4 DEF LeavesWinner
          <5>2. x = w /\ SeenOn(e, g) = {w}
            BY <3>1, <4>1, <4>2, <5>1
          <5> QED
            BY <3>3, <4>1, <5>1, <5>2 DEF Wins
        <4> QED
          BY <4>3, <4>4
      <3> QED
        BY <3>2, <3>3
    <2>3. \A x : x \in e.top <=> x \in e.vis /\ Wins(e, x)
      BY <1>1, <2>1, <2>2
    <2> QED
      BY <2>3 DEF TopOK
  <1> QED
    BY <1>3, <1>4

-----------------------------------------------------------------------------
(* Edits keep the winners *)

\* All that a map shows is on its key.
LEMMA SeenOnKey ==
    ASSUME NEW d, OpsOK(d), RowsOK(d, DOMAIN d.ops), SeenOK(d), object # "list"
    PROVE  SeenOn(d, Head0) = d.vis /\ \A x \in DOMAIN d.ops : Elem(d, x) = Head0
  <1>1. \A x \in DOMAIN d.ops : Elem(d, x) = Head0
    BY DEF OpsOK, Elem
  <1>2. d.vis \subseteq DOMAIN d.ops
    BY DEF SeenOK, RowsOK
  <1> QED
    BY <1>1, <1>2 DEF SeenOn

\* It is found at the index 1 and nowhere else.
LEMMA FoundOnKey ==
    ASSUME NEW d, OpsOK(d), RowsOK(d, DOMAIN d.ops), SeenOK(d), object # "list", NEW k,
           NEW found, found = At(Found(d, {}), k), found # {} \/ k = 1
    PROVE  found = d.vis
  <1> DEFINE G == Runs(d)
             V == d.vis
             W == {g \in ToSet(G) : ToSet(g) \cap V # {}}
             shows == Only(G, W)
             N == Len(d.order)
  <1>1. d.order \in Seq(DOMAIN d.ops) /\ N \in Nat /\ DOMAIN d.order = 1 .. N
    BY LenProperties DEF RowsOK
  <1>2. \A n \in DOMAIN d.order : Elem(d, d.order[n]) = Head0
    <2>1. \A n \in 1 .. N : d.order[n] \in DOMAIN d.ops
      BY <1>1, SetOfSeq
    <2> QED
      BY <1>1, <2>1, SeenOnKey
  <1>3. \A n \in 1 .. N : n \in Changes(d) <=> n = 1
    <2>1. \A n \in 1 .. N : n # 1 => n - 1 \in DOMAIN d.order
      BY <1>1
    <2> QED
      BY <1>1, <1>2, <2>1 DEF Changes
  <1>4. Changes(d) \in SUBSET (1 .. N) /\ G = Grouped(d, Changes(d))
    BY <1>1 DEF Changes, Runs
  <1>5. ASSUME NEW g \in ToSet(G) PROVE V \cap ToSet(g) = V
    <2>1. PICK a, b \in 1 .. N : Block(d, Changes(d), a, b) /\ g = SubSeq(d.order, a, b)
      BY <1>1, <1>4, <1>5, GroupedIs
    <2>2. a = 1 /\ b \in a .. N
      BY <1>3, <2>1 DEF Block
    <2>3. b = N
      <3>1. b = N \/ b + 1 = 1
        <4>1. b = N \/ b + 1 \in Changes(d)
          BY <2>1 DEF Block
        <4> QED
          BY <1>1, <1>3, <1>4, <2>1, <4>1
      <3> QED
        BY <1>1, <2>1, <3>1
    <2>4. \A x : x \in ToSet(SubSeq(d.order, a, b)) <=> \E n \in a .. b : d.order[n] = x
      BY <1>1, <2>2, PartHas
    <2>5. \A x \in ToSet(d.order) : x \in ToSet(g)
      BY <1>1, <2>1, <2>2, <2>3, <2>4, SetOfSeq
    <2> QED
      BY <2>5 DEF SeenOK
  <1>6. V # {} => ToSet(G) # {}
    <2> SUFFICES ASSUME V # {} PROVE ToSet(G) # {}
      OBVIOUS
    <2>1. N > 0
      <3>1. PICK x \in V : x \in ToSet(d.order)
        BY DEF SeenOK
      <3>2. \E n \in 1 .. N : d.order[n] = x
        BY <1>1, <3>1, SetOfSeq
      <3> QED
        BY <1>1, <3>2
    <2>2. 1 \in Changes(d)
      BY <1>1, <1>3, <2>1
    <2> QED
      BY <1>1, <1>4, <2>2, GroupedIs
  <1>7. G \in Seq(ToSet(G))
    BY <1>1, <1>4, GroupedSeq
  <1> HIDE DEF G
  <1>8. shows \in Seq(ToSet(G)) /\ ToSet(shows) = ToSet(G) \cap W
    BY <1>7, OnlyHas DEF Keeps
  <1>9. Found(d, {}) = [n \in DOMAIN shows |-> V \cap ToSet(shows[n])]
    <2>1. object = "map"
      BY DEF OpsOK
    <2> QED
      BY <2>1 DEF Found, Seen, Visible, G
  <1> HIDE DEF W, shows
  <1>10. \A n \in DOMAIN shows : shows[n] \in ToSet(G) /\ V \cap ToSet(shows[n]) = V
    BY <1>5, <1>8, SetOfSeq
  <1>11. CASE k \in DOMAIN shows
    BY <1>9, <1>10, <1>11 DEF At
  <1>12. CASE k \notin DOMAIN shows
    <2>1. found = {} /\ k = 1
      BY <1>9, <1>12 DEF At
    <2>2. V = {}
      <3> SUFFICES ASSUME V # {} PROVE FALSE
        OBVIOUS
      <3>1. PICK g \in ToSet(G) : TRUE
        BY <1>6
      <3>2. g \in W
        BY <1>5, <3>1 DEF W
      <3>3. g \in ToSet(shows)
        BY <1>8, <3>1, <3>2
      <3>4. Len(shows) \in Nat /\ DOMAIN shows = 1 .. Len(shows) /\ \E n \in 1 .. Len(shows) : shows[n] = g
        BY <1>8, <3>3, SetOfSeq
      <3> QED
        BY <1>12, <2>1, <3>4
    <2> QED
      BY <2>1, <2>2
  <1> QED
    BY <1>11, <1>12

\* What is found is what is visible on the element that it is about.
LEMMA FoundIs ==
    ASSUME NEW d, TreeOK(d), RegOK(d), SeenOK(d), d.top \subseteq d.vis, NEW k,
           NEW found, found = At(Found(d, {}), k), found # {} \/ (object = "map" /\ k = 1),
           NEW g, g = RefAt(d, found)
    PROVE  /\ found = SeenOn(d, g)
           /\ found # {} => Winner(d, found) \in found /\ \A y \in found : ~Less(Winner(d, found), y)
  <1>1. OpsOK(d) /\ RowsOK(d, DOMAIN d.ops)
    BY DEF TreeOK
  <1>2. CASE object = "list"
    <2>1. found # {}
      BY <1>2
    <2> QED
      BY <1>2, <2>1, FoundOnElement
  <1>3. CASE object # "list"
    <2>1. g = Head0 /\ g \in Elements(d, DOMAIN d.ops)
      BY <1>1, <1>3 DEF RefAt, OpsOK, Elements
    <2>2. found = d.vis
      BY <1>1, <1>3, FoundOnKey
    <2>3. found = SeenOn(d, g)
      BY <1>1, <1>3, <2>1, <2>2, SeenOnKey
    <2> QED
      BY <2>1, <2>3, WinnerIs
  <1> QED
    BY <1>2, <1>3

\* An insert wins its element.
LEMMA InsertKeepsTop ==
    ASSUME RowsInv, ~MixedIncrements, NEW r \in Replica, NEW S \in Scopes(r), NEW i, NEW o, NEW e,
           EditOf(r, S, i, o, e), InsertsRow(r, S, o, e), TopOK(doc[r])
    PROVE  TopOK(e)
  <1> DEFINE d == doc[r]
  <1>1. TreeOK(d) /\ OpsOK(d) /\ SeenOK(d) /\ RowsOK(d, DOMAIN d.ops) /\ d.vis \subseteq DOMAIN d.ops
    <2>1. TreeOK(d) /\ OpsOK(d) /\ SeenOK(d) /\ RowsOK(d, DOMAIN d.ops)
      BY DocIs
    <2> QED
      BY <2>1 DEF SeenOK, RowsOK
  <1>2. OneMore(d, i, o, e) /\ o.insert /\ o.pred = {} /\ o.type \in {"set", "counter"} /\ object = "list"
    BY EditTree DEF InsertsRow
  <1>3. e.top = d.top \cup {i} /\ i = NextId(r, S)
    BY InsertRowIs DEF EditOf
  <1>4. e.vis = d.vis \cup {i}
    <2>1. DocAfter(d, i, o, e)
      BY <1>3 DEF EditOf, Edits
    <2>2. o.type \notin {"inc", "del"} /\ {p \in o.pred : ~Counts(d, o, p)} = {}
      BY <1>2
    <2> QED
      BY <2>1, <2>2 DEF DocAfter
  <1>5. Elem(e, i) = i /\ (\A x \in DOMAIN d.ops : Elem(e, x) = Elem(d, x)) /\ i \notin DOMAIN d.ops
    BY <1>1, <1>2, MoreIs DEF OneMore
  <1>6. i \in Nat \X Nat
    BY <1>3, NextIdIsNew DEF RowsInv, IndexInv
  <1> HIDE DEF d
  <1>7. SeenOn(d, i) = {}
    <2>1. ASSUME NEW y \in d.vis PROVE Elem(d, y) \in DOMAIN d.ops
      <3>1. y \in DOMAIN d.ops /\ HasRow(d, y)
        BY <1>1, <2>1 DEF SeenOK, RowsOK
      <3>2. Elem(d, y) \in Elements(d, DOMAIN d.ops)
        BY <1>1, <3>1, ElementEarlier
      <3> QED
        BY <1>2, <3>2 DEF Elements
    <2> QED
      BY <1>5, <2>1 DEF SeenOn
  <1>8. TopOK(d)
    BY DEF d
  <1> DEFINE n == {i}
             h == {}
  <1>9. /\ i \notin d.vis /\ ~Less(i, i) /\ \A x \in d.vis : Elem(e, x) = Elem(d, x)
        /\ n \in {{}, {i}} /\ h \in SUBSET SeenOn(d, i)
        /\ IF n = {i} THEN h = SeenOn(d, i) ELSE LeavesWinner(d, i, h)
        /\ e.vis = (d.vis \cup n) \ h /\ e.top = (d.top \cup n) \ h
    BY <1>1, <1>3, <1>4, <1>5, <1>6, <1>7, LessIsOrder
  <1> HIDE DEF n, h
  <1> QED
    BY <1>5, <1>8, <1>9, TopAfter

\* So does what overwrites all that was found; who deletes the others leaves
\* the winner, and who increments leaves all.
LEMMA UpdateKeepsTop ==
    ASSUME RowsInv, ~MixedIncrements, NEW r \in Replica, NEW i, NEW o, NEW e, {} \in Scopes(r),
           EditOf(r, {}, i, o, e), UpdatesRow(r, {}, o, e), RegOK(doc[r]), TopOK(doc[r])
    PROVE  TopOK(e)
  <1> DEFINE d == doc[r]
  <1>1. /\ TreeOK(d) /\ OpsOK(d) /\ SeenOK(d) /\ RowsOK(d, DOMAIN d.ops) /\ d.vis \subseteq DOMAIN d.ops
        /\ d.top \subseteq d.vis /\ DOMAIN d = Fields
    <2>1. /\ TreeOK(d) /\ OpsOK(d) /\ SeenOK(d) /\ RowsOK(d, DOMAIN d.ops)
          /\ d.top \subseteq d.vis /\ DOMAIN d = Fields
      BY DocIs
    <2> QED
      BY <2>1 DEF SeenOK, RowsOK
  <1>2. OneMore(d, i, o, e) /\ i = NextId(r, {}) /\ i \notin DOMAIN d.ops
    BY EditTree DEF EditOf, OneMore
  <1>3. PICK k : /\ ~o.insert
                 /\ At(Found(d, {}), k) # {} \/ (object = "map" /\ k = 1)
                 /\ o.ref = RefAt(d, At(Found(d, {}), k))
                 /\ \/ o.pred = At(Found(d, {}), k)
                    \/ /\ o.type = "del"
                       /\ o.pred = At(Found(d, {}), k) \ {Winner(d, At(Found(d, {}), k))}
                 /\ e = Updated(d, i, o, {}, RangeAt(d, {}, k))
    BY <1>2 DEF UpdatesRow
  <1>4. /\ o.pred \subseteq DOMAIN d.ops
        /\ o.type = "inc" => \A p \in o.pred : IsCounter(d, p)
        /\ DocAfter(d, i, o, e)
    BY <1>2, EditMeets DEF EditOf
  <1>5. RegOK(d) /\ TopOK(d) /\ i \in Nat \X Nat
    BY <1>2, NextIdIsNew DEF RowsInv, IndexInv
  <1> HIDE DEF d
  <1> DEFINE found == At(Found(d, {}), k)
             g == o.ref
             n == Shows(o, i)
             h == Hides(d, o)
  <1>6. e.top = (d.top \cup n) \ h /\ e.vis = (d.vis \cup n) \ h
    <2>1. e.top = TopEdited(d, i, o)
      BY <1>1, <1>2, <1>3, <1>4, UpdatedHas
    <2> QED
      BY <1>4, <2>1 DEF TopEdited, DocAfter, Shows, Hides
  <1>7. found = SeenOn(d, g) /\ (found # {} => Winner(d, found) \in found /\ \A y \in found : ~Less(Winner(d, found), y))
    BY <1>1, <1>3, <1>5, FoundIs
  <1>8. /\ Elem(e, i) = g /\ \A x \in d.vis : Elem(e, x) = Elem(d, x)
        /\ i \notin d.vis /\ ~Less(i, i)
    BY <1>1, <1>2, <1>3, <1>5, MoreIs, LessIsOrder
  <1> HIDE DEF found, g
  <1>9. /\ n \in {{}, {i}} /\ h \in SUBSET SeenOn(d, g)
        /\ IF n = {i} THEN h = SeenOn(d, g) ELSE LeavesWinner(d, g, h)
    <2>1. o.pred = found \/ (o.type = "del" /\ o.pred = found \ {Winner(d, found)})
      BY <1>3 DEF found
    <2>2. CASE o.type = "inc"
      <3>1. n = {} /\ h = {}
        BY <1>4, <2>2 DEF Shows, Hides, Counts, IsCounter
      <3> QED
        BY <3>1 DEF LeavesWinner
    <2>3. CASE o.type = "del"
      <3>1. n = {} /\ h = o.pred
        BY <2>3 DEF Shows, Hides, Counts
      <3>2. CASE o.pred = found
        BY <1>7, <3>1, <3>2 DEF LeavesWinner
      <3>3. CASE o.pred = found \ {Winner(d, found)} /\ found # {}
        BY <1>7, <3>1, <3>3 DEF LeavesWinner
      <3> QED
        BY <2>1, <3>2, <3>3
    <2>4. CASE o.type \notin {"inc", "del"}
      <3>1. n = {i} /\ h = o.pred
        BY <2>4 DEF Shows, Hides, Counts
      <3> QED
        BY <1>7, <2>1, <2>4, <3>1
    <2> QED
      BY <2>2, <2>3, <2>4
  <1> HIDE DEF n, h
  <1> QED
    BY <1>5, <1>6, <1>8, <1>9, TopAfter

\* The document e is d after what is done to the element g, whose rows are rows,
\* in order: i is behind them, n is shown and h hidden.
Resets(d, e, g, T, rows, i, n, h) ==
    /\ TopOK(d) /\ rows \in Seq(T) /\ Distinct(rows)
    /\ i \in T /\ i \notin ToSet(rows) /\ i \notin d.vis
    /\ d.vis \cap ToSet(rows) = SeenOn(d, g)
    /\ \A y, z \in SeenOn(d, g) : Precedes(rows, y, z) => Less(y, z) /\ ~Less(z, y)
    /\ \A y \in SeenOn(d, g) : Less(y, i) /\ ~Less(i, y)
    /\ \A x \in d.vis \cup {i} : ~Less(x, x)
    /\ Elem(e, i) = g /\ \A x \in d.vis : Elem(e, x) = Elem(d, x)
    /\ n \in {{}, {i}} /\ i \notin h /\ \A x \in h : Elem(d, x) = g
    /\ e.vis = (d.vis \cup n) \ h
    /\ e.top = TopLast((d.top \cup n) \ h, Only(Append(rows, i), e.vis))

\* Then the last of the rows that still is visible wins (reset_top).
LEMMA ResetWins ==
    ASSUME NEW d, NEW e, NEW g, NEW T, NEW rows, NEW i, NEW n, NEW h, Resets(d, e, g, T, rows, i, n, h)
    PROVE  TopOK(e)
  <1> USE DEF Resets
  <1> DEFINE all == Append(rows, i)
             seen == Only(all, e.vis)
  <1>1. /\ all \in Seq(T) /\ Distinct(all)
        /\ ToSet(all) = ToSet(rows) \cup {i}
        /\ \A y, z : Precedes(all, y, z) => Precedes(rows, y, z) \/ (y \in ToSet(rows) /\ z = i)
    <2>1. Appends(all, rows, i)
      BY DEF Appends
    <2> QED
      BY <2>1, AppendHas
  <1>2. e.top = TopLast((d.top \cup n) \ h, seen)
    OBVIOUS
  <1> HIDE DEF all
  <1>3. seen \in Seq(T) /\ Keeps(seen, all, e.vis)
    BY <1>1, OnlyHas
  <1> HIDE DEF seen
  <1>4. \A x : x \in d.top <=> x \in d.vis /\ Wins(d, x)
    BY DEF TopOK
  <1>5. ToSet(seen) = SeenOn(e, g)
    <2>1. \A x : x \in ToSet(seen) <=> x \in e.vis /\ (x \in ToSet(rows) \/ x = i)
      BY <1>1, <1>3 DEF Keeps
    <2>2. \A x \in e.vis : x = i \/ (x \in d.vis /\ x # i)
      OBVIOUS
    <2>3. \A x \in d.vis : x \in ToSet(rows) <=> Elem(d, x) = g
      BY DEF SeenOn
    <2>4. ASSUME NEW x \in e.vis PROVE x \in ToSet(seen) <=> Elem(e, x) = g
      BY <2>1, <2>2, <2>3
    <2>5. \A x : x \in ToSet(seen) => x \in e.vis
      BY <2>1
    <2> QED
      BY <2>4, <2>5 DEF SeenOn
  <1>6. \A x \in SeenOn(e, g) : x \in e.vis /\ (x = i \/ x \in SeenOn(d, g))
    BY DEF SeenOn
  <1>7. \A y, z \in SeenOn(e, g) : Precedes(seen, y, z) => Less(y, z) /\ ~Less(z, y)
    <2>1. ASSUME NEW y \in SeenOn(e, g), NEW z \in SeenOn(e, g), Precedes(seen, y, z)
          PROVE  Less(y, z) /\ ~Less(z, y)
      <3>1. Precedes(rows, y, z) \/ (y \in ToSet(rows) /\ z = i)
        BY <1>1, <1>3, <2>1 DEF Keeps
      <3>2. \A u, v : Precedes(rows, u, v) => u \in ToSet(rows) /\ v \in ToSet(rows)
        BY PrecedesIsOrder
      <3>3. y \in ToSet(rows)
        BY <3>1, <3>2
      <3>4. y \in SeenOn(d, g)
        BY <1>6, <3>3
      <3>5. CASE z = i
        BY <3>4, <3>5
      <3>6. CASE z # i
        <4>1. Precedes(rows, y, z) /\ z \in SeenOn(d, g)
          BY <1>6, <3>1, <3>6
        <4> QED
          BY <3>4, <4>1
      <3> QED
        BY <3>5, <3>6
    <2> QED
      BY <2>1
  <1>8. ASSUME NEW x \in e.vis, Elem(e, x) # g
        PROVE  x \in e.top <=> Wins(e, x)
    <2>1. x \in d.vis /\ x \notin h /\ x # i /\ Elem(d, x) = Elem(e, x)
      BY <1>8
    <2>2. SeenOn(e, Elem(e, x)) = SeenOn(d, Elem(d, x))
      <3>1. \A y : y \in SeenOn(e, Elem(e, x)) => y \in SeenOn(d, Elem(d, x))
        BY <1>8, <2>1 DEF SeenOn
      <3>2. \A y : y \in SeenOn(d, Elem(d, x)) => y \in SeenOn(e, Elem(e, x))
        BY <1>8, <2>1 DEF SeenOn
      <3> QED
        BY <3>1, <3>2
    <2>3. Wins(e, x) <=> Wins(d, x)
      BY <2>2 DEF Wins
    <2>4. x \notin ToSet(seen)
      BY <1>5, <1>8 DEF SeenOn
    <2>5. seen # <<>> => Last(seen) \in ToSet(seen)
      <3>1. Len(seen) \in Nat /\ (seen # <<>> => Len(seen) \in 1 .. Len(seen))
        BY <1>3, EmptySeq, LenProperties
      <3>2. \A m \in 1 .. Len(seen) : seen[m] \in ToSet(seen)
        BY <1>3, SetOfSeq
      <3> QED
        BY <3>1, <3>2 DEF Last
    <2>6. x \in e.top <=> x \in (d.top \cup n) \ h
      BY <1>2, <2>4, <2>5 DEF TopLast
    <2>7. x \in (d.top \cup n) \ h <=> x \in d.top
      BY <2>1
    <2> QED
      BY <1>4, <2>1, <2>3, <2>6, <2>7
  <1>9. e.top \subseteq e.vis
    <2>1. (d.top \cup n) \ h \subseteq e.vis
      BY <1>4
    <2>2. seen # <<>> => Last(seen) \in ToSet(seen)
      <3>1. Len(seen) \in Nat /\ (seen # <<>> => Len(seen) \in 1 .. Len(seen))
        BY <1>3, EmptySeq, LenProperties
      <3>2. \A m \in 1 .. Len(seen) : seen[m] \in ToSet(seen)
        BY <1>3, SetOfSeq
      <3> QED
        BY <3>1, <3>2 DEF Last
    <2>3. ToSet(seen) \subseteq e.vis
      BY <1>5, <1>6
    <2> QED
      BY <1>2, <2>1, <2>2, <2>3 DEF TopLast
  <1>10. ASSUME NEW x \in e.vis, Elem(e, x) = g
         PROVE  x \in e.top <=> Wins(e, x)
    <2>1. x \in ToSet(seen) /\ seen # <<>>
      <3>1. x \in ToSet(seen)
        BY <1>5, <1>10 DEF SeenOn
      <3>2. ToSet(<<>>) = {}
        BY DEF ToSet
      <3> QED
        BY <3>1, <3>2
    <2> DEFINE m == Len(seen)
               u == Last(seen)
    <2>2. m \in 1 .. m /\ m \in Nat /\ DOMAIN seen = 1 .. m
      BY <1>3, <2>1, EmptySeq, LenProperties
    <2>3. u = seen[m] /\ u \in ToSet(seen)
      BY <1>3, <2>2, SetOfSeq DEF Last
    <2>4. x \in e.top <=> x = u
      BY <1>2, <2>1 DEF TopLast
    <2> HIDE DEF u, m
    <2>5. ASSUME NEW y \in SeenOn(e, g), y # u PROVE Less(y, u) /\ ~Less(u, y)
      <3>1. PICK l \in 1 .. m : seen[l] = y
        BY <1>3, <1>5, <2>5, SetOfSeq DEF m
      <3>2. l < m
        BY <2>2, <2>3, <2>5, <3>1
      <3>3. Precedes(seen, y, u)
        BY <2>2, <2>3, <3>1, <3>2 DEF Precedes
      <3> QED
        BY <1>5, <1>7, <2>3, <2>5, <3>3
    <2>6. ~Less(u, u) /\ u \in SeenOn(e, g)
      <3>1. u \in SeenOn(e, g)
        BY <1>5, <2>3
      <3>2. u \in d.vis \cup {i}
        BY <1>6, <3>1 DEF SeenOn
      <3> QED
        BY <3>1, <3>2
    <2>7. Wins(e, x) <=> \A y \in SeenOn(e, g) : ~Less(x, y)
      BY <1>10 DEF Wins
    <2>8. CASE x = u
      BY <2>4, <2>5, <2>6, <2>7, <2>8
    <2>9. CASE x # u
      <3>1. x \in SeenOn(e, g)
        BY <1>10 DEF SeenOn
      <3>2. Less(x, u)
        BY <2>5, <2>9, <3>1
      <3> QED
        BY <2>4, <2>6, <2>7, <2>9, <3>2
    <2> QED
      BY <2>8, <2>9
  <1> QED
    BY <1>8, <1>9, <1>10 DEF TopOK

\* What is found at any heads and put there leaves the last of the rows around it
\* as the winner.
LEMMA ResetKeepsTop ==
    ASSUME RowsInv, ~MixedIncrements, NEW r \in Replica, NEW S \in Scopes(r), S # {}, NEW i, NEW o, NEW e,
           EditOf(r, S, i, o, e), UpdatesRow(r, S, o, e), RegOK(doc[r]), TopOK(doc[r])
    PROVE  TopOK(e)
  <1> DEFINE d == doc[r]
             T == DOMAIN d.ops \cup {i}
  <1>1. /\ TreeOK(d) /\ OpsOK(d) /\ SeenOK(d) /\ RowsOK(d, DOMAIN d.ops) /\ d.vis \subseteq DOMAIN d.ops
        /\ d.top \subseteq d.vis /\ DOMAIN d = Fields
    <2>1. /\ TreeOK(d) /\ OpsOK(d) /\ SeenOK(d) /\ RowsOK(d, DOMAIN d.ops)
          /\ d.top \subseteq d.vis /\ DOMAIN d = Fields
      BY DocIs
    <2> QED
      BY <2>1 DEF SeenOK, RowsOK
  <1>2. /\ OneMore(d, i, o, e) /\ i = NextId(r, S) /\ i \notin DOMAIN d.ops
        /\ object = "list" => Together(d)
    BY EditTree DEF EditOf, OneMore
  <1>3. PICK k : /\ ~o.insert
                 /\ At(Found(d, S), k) # {} \/ (object = "map" /\ k = 1)
                 /\ o.ref = RefAt(d, At(Found(d, S), k))
                 /\ o.pred \subseteq At(Found(d, S), k)
                 /\ e = Updated(d, i, o, S, RangeAt(d, S, k))
    BY <1>2 DEF UpdatesRow
  <1>4. /\ o.pred \subseteq DOMAIN d.ops
        /\ o.type = "inc" => \A p \in o.pred : IsCounter(d, p)
        /\ DocAfter(d, i, o, e)
    BY <1>2, EditMeets DEF EditOf
  <1>5. RegOK(d) /\ TopOK(d) /\ i \in Nat \X Nat
    BY <1>2, NextIdIsNew DEF RowsInv, IndexInv
  <1> HIDE DEF d
  <1> DEFINE g == o.ref
             rows == RangeAt(d, S, k)
             n == Shows(o, i)
             h == Hides(d, o)
  <1>6. /\ e.top = TopLast((d.top \cup n) \ h, Only(Append(rows, i), e.vis))
        /\ e.vis = (d.vis \cup n) \ h
    <2>1. e.top = TopLast(TopEdited(d, i, o), Only(Append(rows, i), e.vis))
      BY <1>1, <1>2, <1>3, <1>4, UpdatedHas
    <2> QED
      BY <1>4, <2>1 DEF TopEdited, DocAfter, Shows, Hides
  <1>7. /\ Elem(e, i) = g /\ \A x \in d.vis : Elem(e, x) = Elem(d, x)
        /\ i \notin d.vis /\ \A x \in DOMAIN d.ops : Less(x, i)
        /\ i \notin ToSet(d.order)
    BY <1>1, <1>2, <1>3, MoreIs
  <1>8. /\ d.order \in Seq(T) /\ Distinct(d.order) /\ i \in T /\ i \notin h
        /\ DOMAIN d.ops \in SUBSET (Nat \X Nat)
    BY <1>1, <1>2, <1>4, MoreIs DEF RowsOK, T, OpsOK, Hides
  <1> HIDE DEF rows, g, n, h, T
  <1>9. /\ g \in Elements(d, DOMAIN d.ops)
        /\ rows \in Seq(T) /\ Distinct(rows)
        /\ ToSet(rows) = ToSet(RegisterOf(d, g))
        /\ \A y, z : Precedes(rows, y, z) => Precedes(d.order, y, z)
        /\ \A x \in o.pred : Elem(d, x) = g
    <2>1. CASE object = "list"
      <3>1. PICK f : f = At(Found(d, S), k)
        OBVIOUS
      <3>2. f # {} /\ Together(d)
        BY <1>2, <1>3, <2>1, <3>1
      <3>3. PICK u, a, b : /\ RegisterAt(d, u, a, b)
                           /\ rows = SubSeq(d.order, a, b)
                           /\ RefAt(d, f) = u
                           /\ \A y \in f : Elem(d, y) = u
        BY <1>1, <2>1, <3>1, <3>2, FoundTogether DEF rows
      <3>4. u = g
        BY <1>3, <3>1, <3>3 DEF g
      <3>5. g \in Elements(d, DOMAIN d.ops) /\ RegisterOf(d, g) = rows
        BY <1>1, <2>1, <3>3, <3>4, RegisterAtHas
      <3>6. /\ RegisterOf(d, g) \in Seq(DOMAIN d.ops) /\ Distinct(RegisterOf(d, g))
            /\ \A y, z \in ToSet(RegisterOf(d, g)) :
                  Precedes(RegisterOf(d, g), y, z) <=> Precedes(d.order, y, z)
        BY <1>1, RegisterHas
      <3>7. rows \in Seq(T)
        <4>1. rows \in Seq(DOMAIN d.ops) /\ DOMAIN d.ops \subseteq T
          BY <3>5, <3>6 DEF T
        <4> QED
          BY <4>1
      <3>8. \A y, z : Precedes(rows, y, z) => y \in ToSet(rows) /\ z \in ToSet(rows)
        BY <3>5, <3>6, PrecedesIsOrder
      <3> QED
        BY <1>3, <3>1, <3>3, <3>4, <3>5, <3>6, <3>7, <3>8
    <2>2. CASE object # "list"
      <3>1. object = "map" /\ g = Head0
        BY <1>1, <1>3, <2>2 DEF OpsOK, RefAt, g
      <3>2. rows = d.order
        BY <3>1 DEF RangeAt, rows
      <3>3. ToSet(RegisterOf(d, Head0)) = ToSet(d.order)
        BY <1>1, <2>2, MapRegister
      <3>4. \A x \in DOMAIN d.ops : Elem(d, x) = Head0
        BY <1>1, <2>2, SeenOnKey
      <3> QED
        BY <1>4, <1>8, <2>2, <3>1, <3>2, <3>3, <3>4 DEF Elements
    <2> QED
      BY <2>1, <2>2
  <1>10. i \notin ToSet(rows) /\ d.vis \cap ToSet(rows) = SeenOn(d, g)
    <2>1. ToSet(rows) \subseteq ToSet(d.order)
      BY <1>1, <1>9, RegisterHas
    <2> QED
      BY <1>1, <1>5, <1>7, <1>9, <2>1, SeenInRegister
  <1>11. \A x \in d.vis : Less(x, i) /\ ~Less(i, x) /\ ~Less(x, x) /\ ~Less(i, i)
    BY <1>1, <1>5, <1>7, <1>8, LessIsOrder
  <1>12. \A y, z \in SeenOn(d, g) : Precedes(rows, y, z) => Less(y, z) /\ ~Less(z, y)
    <2>1. ASSUME NEW y \in SeenOn(d, g), NEW z \in SeenOn(d, g), Precedes(rows, y, z)
          PROVE  Less(y, z) /\ ~Less(z, y)
      <3>1. RegOn(d, g)
        BY <1>1, <1>5, <1>9, RegOnIs
      <3>2. y \in ToSet(RegisterOf(d, g)) /\ z \in ToSet(RegisterOf(d, g))
        BY <1>9, <1>10
      <3>3. /\ y \in DOMAIN d.ops /\ HasRow(d, y) /\ Elem(d, y) = g
            /\ z \in DOMAIN d.ops /\ HasRow(d, z) /\ Elem(d, z) = g
        BY <1>1 DEF SeenOn, SeenOK, RowsOK
      <3>4. ~Less(y, g) /\ ~Less(z, g)
        BY <1>1, <3>3, ElementEarlier
      <3>5. Less(y, z)
        BY <1>9, <2>1, <3>1, <3>2, <3>4 DEF RegOn
      <3> QED
        BY <1>8, <3>3, <3>5, LessIsOrder
    <2> QED
      BY <2>1
  <1>13. n \in {{}, {i}} /\ (\A x \in h : Elem(d, x) = g)
    BY <1>9 DEF n, h, Shows, Hides
  <1>14. \A y \in SeenOn(d, g) : Less(y, i) /\ ~Less(i, y)
    BY <1>11 DEF SeenOn
  <1>15. \A x \in d.vis \cup {i} : ~Less(x, x)
    BY <1>5, <1>11, LessIsOrder
  <1>16. Resets(d, e, g, T, rows, i, n, h)
    BY <1>5, <1>6, <1>7, <1>8, <1>9, <1>10, <1>12, <1>13, <1>14, <1>15 DEF Resets
  <1> QED
    BY <1>16, ResetWins

\* Whatever an edit does, the greatest of what is visible on an element wins.
LEMMA EditKeepsTop ==
    ASSUME RowsInv, ~MixedIncrements, NEW r \in Replica, NEW S \in Scopes(r), NEW i, NEW o, NEW e,
           EditOf(r, S, i, o, e), RegOK(doc[r]), TopOK(doc[r])
    PROVE  TopOK(e)
  <1>1. CASE InsertsRow(r, S, o, e)
    BY <1>1, InsertKeepsTop
  <1>2. CASE UpdatesRow(r, S, o, e) /\ S = {}
    BY <1>2, UpdateKeepsTop
  <1>3. CASE UpdatesRow(r, S, o, e) /\ S # {}
    BY <1>3, ResetKeepsTop
  <1> QED
    BY <1>1, <1>2, <1>3 DEF EditOf

-----------------------------------------------------------------------------
(* Batches keep registers in order *)

\* The registers that a batch finds have the rows they had.
LEMMA RegistersAsBefore ==
    ASSUME RowsInv, NEW r \in Replica, NEW B \in SUBSET (DOMAIN made \ Held(r)),
           NEW d, GotBatch(r, B, d), NEW e \in Elements(d, Held(r))
    PROVE  /\ ToSet(RegisterOf(d, e)) = ToSet(RegisterOf(doc[r], e))
           /\ e \in Elements(doc[r], Held(r))
  <1> DEFINE b == doc[r]
             H == Held(r)
  <1>1. /\ TreeOK(b) /\ OpsOK(b) /\ RowsOK(b, DOMAIN b.ops) /\ DOMAIN b.ops = H
        /\ \A j \in H : b.ops[j] = made[j].o
    BY DocIs
  <1>2. /\ BatchOK(d, B) /\ OpsOK(d) /\ DOMAIN d.ops \ B = H /\ DOMAIN d.ops = H \cup B
    BY BatchFinds DEF TreeBefore
  <1>3. RowsOK(d, H) /\ d.order = b.order /\ \A j \in H : d.ops[j] = b.ops[j]
    BY <1>1, <1>2 DEF BatchOK, GotBatch
  <1> HIDE DEF b, H
  <1>4. Elements(d, H) = Elements(b, H) /\ e \in Elements(d, H)
    BY <1>3 DEF Elements, H
  <1>5. \A x \in ToSet(d.order) : x \in ToSet(RegisterOf(d, e)) <=> x \in ToSet(RegisterOf(b, e))
    <2>1. CASE object = "list"
      <3> DEFINE E == Elements(d, H)
      <3>1. E = Elements(b, DOMAIN b.ops) /\ E = Elements(d, H)
        BY <1>1, <1>4
      <3> HIDE DEF E
      <3>2. e \in E
        BY <1>4, <3>1
      <3>3. \A x \in ToSet(d.order) : x \in ToSet(RegisterOf(d, e)) <=> Lies(d, E, e, x)
        BY <1>2, <1>3, <2>1, <3>1, <3>2, LiesIs
      <3>4. \A x \in ToSet(b.order) : x \in ToSet(RegisterOf(b, e)) <=> Lies(b, E, e, x)
        BY <1>1, <2>1, <3>1, <3>2, LiesIs
      <3>5. \A x : Lies(d, E, e, x) <=> Lies(b, E, e, x)
        BY <1>3 DEF Lies
      <3> QED
        BY <1>3, <3>3, <3>4, <3>5
    <2>2. CASE object # "list"
      <3>1. e = Head0
        BY <1>4, <2>2 DEF Elements
      <3>2. ToSet(RegisterOf(d, Head0)) = ToSet(d.order) /\ ToSet(RegisterOf(b, Head0)) = ToSet(b.order)
        BY <1>1, <1>2, <1>3, <2>2, MapRegister
      <3> QED
        BY <1>3, <3>1, <3>2
    <2> QED
      BY <2>1, <2>2
  <1>6. ToSet(RegisterOf(d, e)) \subseteq ToSet(d.order) /\ ToSet(RegisterOf(b, e)) \subseteq ToSet(b.order)
    BY <1>1, <1>2, <1>3, RegisterHas
  <1> QED
    BY <1>3, <1>4, <1>5, <1>6 DEF b, H

\* The registers that a batch finds are in order.
LEMMA RegistersBefore ==
    ASSUME RowsInv, NEW r \in Replica, NEW B \in SUBSET (DOMAIN made \ Held(r)),
           NEW d, GotBatch(r, B, d), RegOK(doc[r]), NEW e \in Elements(d, DOMAIN d.ops)
    PROVE  RegOn(d, e)
  <1> DEFINE b == doc[r]
             H == Held(r)
  <1>1. /\ TreeOK(b) /\ OpsOK(b) /\ RowsOK(b, DOMAIN b.ops) /\ DOMAIN b.ops = H
        /\ \A j \in H : b.ops[j] = made[j].o
    BY DocIs
  <1>2. /\ BatchOK(d, B) /\ OpsOK(d) /\ DOMAIN d.ops \ B = H /\ DOMAIN d.ops = H \cup B
    BY BatchFinds DEF TreeBefore
  <1>3. RowsOK(d, H) /\ d.order = b.order /\ \A j \in H : d.ops[j] = b.ops[j]
    BY <1>1, <1>2 DEF BatchOK, GotBatch
  <1> HIDE DEF b, H
  <1>4. \A j \in H : Elem(d, j) = Elem(b, j) /\ (IsInc(d, j) <=> IsInc(b, j))
    BY <1>3 DEF Elem, IsInc
  <1>5. Elements(d, H) = Elements(b, H)
    BY <1>3 DEF Elements
  <1>6. ToSet(d.order) \subseteq H
    BY <1>3 DEF RowsOK
  <1>7. ToSet(RegisterOf(d, e)) \subseteq ToSet(d.order)
    BY <1>2, <1>3, RegisterHas
  <1>8. CASE e \in Elements(d, H)
    <2>1. ToSet(RegisterOf(d, e)) = ToSet(RegisterOf(b, e))
      BY <1>8, RegistersAsBefore DEF b, H
    <2>2. RegOn(b, e)
      <3>1. e \in Elements(b, DOMAIN b.ops) /\ RegOK(b)
        BY <1>1, <1>5, <1>8 DEF b
      <3> QED
        BY <1>1, <3>1, RegOnIs
    <2> QED
      BY <1>3, <1>4, <1>6, <1>7, <2>1, <2>2 DEF RegOn
  <1>9. CASE e \notin Elements(d, H)
    <2>1. object = "list" /\ e \notin H
      BY <1>2, <1>9 DEF Elements
    <2>2. RegisterOf(d, e) = <<>>
      BY <1>2, <1>3, <2>1, RegisterHas
    <2>3. ToSet(RegisterOf(d, e)) = {}
      BY <2>2 DEF ToSet
    <2> QED
      BY <2>3 DEF RegOn
  <1> QED
    BY <1>8, <1>9

\* The rows of a register after a batch are those on its element.
LEMMA RegisterAfter ==
    ASSUME NEW d, NEW B, BatchOK(d, B), NEW s, OrderOf(d, s), NEW c, c.ops = d.ops, TreeOK(c),
           RowsAre(d, B, s, c.order), NEW e \in Elements(d, DOMAIN d.ops),
           NEW x \in ToSet(RegisterOf(c, e))
    PROVE  x \in ToSet(OnElement(d, B, e)) /\ x \in ToSet(c.order)
  <1> DEFINE w == c.order
             E == Elements(d, DOMAIN d.ops)
  <1>1. OpsOK(c) /\ RowsOK(c, DOMAIN c.ops)
    BY DEF TreeOK
  <1>2. x \in ToSet(w)
    BY <1>1, RegisterHas
  <1>3. E = Elements(c, DOMAIN c.ops)
    BY DEF Elements
  <1>4. w \in Seq(DOMAIN d.ops) /\ Distinct(w) /\ \A y : y \in ToSet(w) <=> y \in DOMAIN d.ops /\ HasRow(d, y)
    BY DEF RowsAre
  <1>5. PICK f \in E : x \in ToSet(OnElement(d, B, f))
    BY <1>2, <1>4, OnElementsPart
  <1>6. CASE f = e
    BY <1>2, <1>5, <1>6
  <1>7. CASE f # e
    <2>1. object = "list"
      BY <1>5, <1>7 DEF Elements
    <2>2. Lies(c, E, e, x)
      <3>1. e \in E
        OBVIOUS
      <3> HIDE DEF E
      <3>2. x \in ToSet(RegisterOf(c, e)) <=> Lies(c, E, e, x)
        BY <1>1, <1>2, <1>3, <2>1, <3>1, LiesIs
      <3> QED
        BY <3>2
    <2>3. \A g \in E : g \in ToSet(OnElement(d, B, g)) /\ g \in ToSet(w) /\ g \in ToSet(s)
      <3>1. ASSUME NEW g \in E PROVE g \in ToSet(OnElement(d, B, g)) /\ g \in ToSet(w) /\ g \in ToSet(s)
        <4>1. OnElement(d, B, g) \in Seq(DOMAIN d.ops) /\ OnElement(d, B, g) # <<>> /\ OnElement(d, B, g)[1] = g
          BY <2>1, <3>1, OnElementHas
        <4>2. g \in ToSet(OnElement(d, B, g))
          <5>1. 1 \in 1 .. Len(OnElement(d, B, g))
            BY <4>1, EmptySeq, LenProperties
          <5> QED
            BY <4>1, <5>1, SetOfSeq
        <4>3. g \in DOMAIN d.ops /\ d.ops[g].insert
          BY <2>1, <3>1 DEF Elements
        <4>4. HasRow(d, g)
          BY <4>3 DEF BatchOK, OpsOK
        <4> QED
          BY <1>4, <3>1, <4>2, <4>3, <4>4 DEF OrderOf
      <3> QED
        BY <3>1
    <2>4. x # e
      BY <1>5, <1>7, <2>3, OnElementsPart
    <2>5. Precedes(w, e, x)
      BY <2>2, <2>4 DEF Lies
    <2>6. Precedes(s, e, f) \/ Precedes(s, f, e)
      BY <1>7, <2>3, PrecedesIsOrder DEF OrderOf
    <2>7. CASE Precedes(s, f, e)
      <3>1. Precedes(w, x, e)
        BY <1>2, <1>5, <2>3, <2>7 DEF RowsAre
      <3> QED
        BY <1>4, <2>5, <3>1, PrecedesIsOrder
    <2>8. CASE Precedes(s, e, f)
      <3>1. Precedes(w, e, f)
        BY <2>3, <2>8 DEF RowsAre
      <3>2. Precedes(w, x, f)
        BY <1>7, <2>2, <3>1 DEF Lies
      <3>3. CASE x = f
        BY <1>4, <3>2, <3>3, PrecedesIsOrder
      <3>4. CASE x # f
        <4> DEFINE v == OnElement(d, B, f)
        <4>1. v \in Seq(DOMAIN d.ops) /\ v # <<>> /\ v[1] = f
          BY <1>5, <2>1, OnElementHas
        <4> HIDE DEF v
        <4>2. PICK n \in 1 .. Len(v) : v[n] = x
          BY <1>5, <4>1, SetOfSeq DEF v
        <4>3. n # 1 /\ 1 \in DOMAIN v /\ n \in DOMAIN v /\ 1 < n
          BY <3>4, <4>1, <4>2, LenProperties
        <4>4. Precedes(v, f, x)
          BY <4>1, <4>2, <4>3 DEF Precedes
        <4>5. Precedes(w, f, x)
          BY <1>2, <1>5, <2>3, <4>4 DEF RowsAre, v
        <4> QED
          BY <1>4, <3>2, <4>5, PrecedesIsOrder
      <3> QED
        BY <3>3, <3>4
    <2> QED
      BY <2>6, <2>7, <2>8
  <1> QED
    BY <1>6, <1>7

\* What is on an element is of it, or an older increment, and in order.
LEMMA OnElementOrder ==
    ASSUME RowsInv, NEW r \in Replica, NEW B \in SUBSET (DOMAIN made \ Held(r)),
           NEW d, GotBatch(r, B, d), RegOK(doc[r]), NEW e \in Elements(d, DOMAIN d.ops)
    PROVE  /\ \A x \in ToSet(OnElement(d, B, e)) : Elem(d, x) = e \/ (IsInc(d, x) /\ Less(x, e))
           /\ Sorted(OnElement(d, B, e), e)
  <1>1. BatchOK(d, B) /\ OpsOK(d) /\ RowsOK(d, DOMAIN d.ops \ B)
    BY BatchFinds DEF TreeBefore, BatchOK
  <1>2. RegOn(d, e)
    BY RegistersBefore
  <1>3. \A x \in ToSet(OnElement(d, B, e)) : Elem(d, x) = e \/ (IsInc(d, x) /\ Less(x, e))
    BY <1>1, <1>2, OnElementRows DEF RegOn
  <1>4. Sorted(RegisterOf(d, e), e)
    <2>1. \A x, y \in ToSet(RegisterOf(d, e)) : Precedes(RegisterOf(d, e), x, y) <=> Precedes(d.order, x, y)
      BY <1>1, RegisterHas
    <2> QED
      BY <1>2, <2>1 DEF RegOn, Sorted
  <1>5. Sorted(OnElement(d, B, e), e)
    BY <1>1, <1>4, OnElementHas
  <1> QED
    BY <1>3, <1>5

\* Registers stay in order.
LEMMA BatchKeepsReg ==
    ASSUME RowsInv, NEW r \in Replica, NEW B \in SUBSET (DOMAIN made \ Held(r)),
           NEW d, GotBatch(r, B, d), RegOK(doc[r]), NEW s, OrderOf(d, s),
           NEW c, c.ops = d.ops, TreeOK(c), RowsAre(d, B, s, c.order)
    PROVE  RegOK(c)
  <1>1. BatchOK(d, B) /\ OpsOK(d)
    BY BatchFinds DEF TreeBefore
  <1>2. Elements(c, DOMAIN c.ops) = Elements(d, DOMAIN d.ops)
    BY DEF Elements
  <1>3. ASSUME NEW e \in Elements(d, DOMAIN d.ops) PROVE RegOn(c, e)
    <2>1. \A x \in ToSet(RegisterOf(c, e)) : x \in ToSet(OnElement(d, B, e))
      BY <1>1, <1>3, RegisterAfter
    <2>2. \A x \in ToSet(OnElement(d, B, e)) : Elem(d, x) = e \/ (IsInc(d, x) /\ Less(x, e))
      BY <1>3, OnElementOrder
    <2>3. Sorted(OnElement(d, B, e), e)
      BY <1>3, OnElementOrder
    <2>4. \A x \in DOMAIN d.ops : Elem(c, x) = Elem(d, x) /\ (IsInc(c, x) <=> IsInc(d, x))
      BY DEF Elem, IsInc
    <2>5. \A x \in ToSet(OnElement(d, B, e)) : x \in DOMAIN d.ops
      BY <1>1, <1>3, OnElementRows
    <2>6. ASSUME NEW x \in ToSet(RegisterOf(c, e)), NEW y \in ToSet(RegisterOf(c, e)),
                 ~Less(x, e), ~Less(y, e), Precedes(c.order, x, y)
          PROVE  Less(x, y)
      <3>1. x \in ToSet(OnElement(d, B, e)) /\ y \in ToSet(OnElement(d, B, e))
        BY <2>1, <2>6
      <3>2. \/ \E f \in Elements(d, DOMAIN d.ops) : Precedes(OnElement(d, B, f), x, y)
            \/ \E f, g \in Elements(d, DOMAIN d.ops) :
                  /\ Precedes(s, f, g)
                  /\ x \in ToSet(OnElement(d, B, f)) /\ y \in ToSet(OnElement(d, B, g))
        BY <2>6 DEF RowsAre
      <3>3. CASE \E f \in Elements(d, DOMAIN d.ops) : Precedes(OnElement(d, B, f), x, y)
        <4>1. PICK f \in Elements(d, DOMAIN d.ops) : Precedes(OnElement(d, B, f), x, y)
          BY <3>3
        <4>2. OnElement(d, B, f) \in Seq(DOMAIN d.ops) /\ Distinct(OnElement(d, B, f))
          BY <1>1, <4>1, OnElementHas
        <4>3. x \in ToSet(OnElement(d, B, f))
          BY <4>1, <4>2, PrecedesIsOrder
        <4>4. f = e
          BY <1>1, <1>3, <3>1, <4>1, <4>3, OnElementsPart
        <4> QED
          BY <2>3, <2>6, <3>1, <4>1, <4>4 DEF Sorted
      <3>4. CASE \E f, g \in Elements(d, DOMAIN d.ops) :
                  /\ Precedes(s, f, g)
                  /\ x \in ToSet(OnElement(d, B, f)) /\ y \in ToSet(OnElement(d, B, g))
        <4>1. PICK f, g \in Elements(d, DOMAIN d.ops) :
                  /\ Precedes(s, f, g)
                  /\ x \in ToSet(OnElement(d, B, f)) /\ y \in ToSet(OnElement(d, B, g))
          BY <3>4
        <4>2. f = e /\ g = e
          BY <1>1, <1>3, <3>1, <4>1, OnElementsPart
        <4> QED
          BY <4>1, <4>2, PrecedesIsOrder DEF OrderOf
      <3> QED
        BY <3>2, <3>3, <3>4
    <2> QED
      BY <2>1, <2>2, <2>4, <2>5, <2>6 DEF RegOn
  <1> QED
    BY <1>2, <1>3, RegOnIs

\* Rows that lie together after a batch did so before.
LEMMA BatchWereTogether ==
    ASSUME RowsInv, NEW r \in Replica, NEW B \in SUBSET (DOMAIN made \ Held(r)),
           NEW d, GotBatch(r, B, d), NEW s, OrderOf(d, s),
           NEW c, c.ops = d.ops, TreeOK(c), RowsAre(d, B, s, c.order), object = "list", Together(c)
    PROVE  Together(doc[r])
  <1> DEFINE b == doc[r]
             H == Held(r)
  <1>1. TreeOK(b) /\ OpsOK(b) /\ RowsOK(b, H) /\ DOMAIN b.ops = H
    BY DocIs
  <1>2. /\ BatchOK(d, B) /\ OpsOK(d) /\ DOMAIN d.ops \ B = H /\ DOMAIN d.ops = H \cup B
    BY BatchFinds DEF TreeBefore
  <1>3. RowsOK(d, H) /\ d.order = b.order /\ \A j \in H : d.ops[j] = b.ops[j]
    <2>1. \A j \in H : b.ops[j] = made[j].o
      BY DocIs
    <2> QED
      BY <1>2, <2>1 DEF BatchOK, GotBatch
  <1> HIDE DEF b, H
  <1>4. ASSUME NEW x \in ToSet(b.order) PROVE x \in ToSet(RegisterOf(b, Elem(b, x)))
    <2>1. PICK e \in Elements(d, H) : x \in ToSet(RegisterOf(d, e))
      BY <1>2, <1>3, <1>4, RegistersPart
    <2>2. x \in ToSet(RegisterOf(b, e))
      BY <2>1, RegistersAsBefore DEF b, H
    <2>3. e \in Elements(d, DOMAIN d.ops)
      BY <1>2, <2>1 DEF Elements
    <2>4. x \in H /\ x \in DOMAIN d.ops /\ x \notin B /\ HasRow(d, x) /\ Elem(b, x) = Elem(d, x)
      BY <1>2, <1>3, <1>4 DEF RowsOK, Elem
    <2>5. x \in ToSet(OnElement(d, B, e))
      <3>1. PICK g \in Elements(d, DOMAIN d.ops) : x \in ToSet(OnElement(d, B, g))
        BY <1>2, <2>4, OnElementsPart
      <3>2. x \in ToSet(RegisterOf(d, g))
        BY <1>2, <2>4, <3>1, OnElementRows
      <3>3. g = e
        BY <1>2, <1>3, <2>1, <3>2, RegistersPart
      <3> QED
        BY <3>1, <3>3
    <2>6. PICK f : f = Elem(d, x)
      OBVIOUS
    <2>7. f \in Elements(d, DOMAIN d.ops)
      BY <1>2, <2>4, <2>6, ElementEarlier
    <2>8. x \in ToSet(RegisterOf(c, f))
      <3>1. AllAtHome(c) /\ x \in ToSet(c.order) /\ Elem(c, x) = f
        BY <2>4, <2>6, TogetherIs DEF RowsAre, Elem
      <3> QED
        BY <3>1 DEF AllAtHome
    <2>9. x \in ToSet(OnElement(d, B, f))
      BY <1>2, <2>7, <2>8, RegisterAfter
    <2>10. e = f
      BY <1>2, <2>3, <2>5, <2>7, <2>9, OnElementsPart
    <2> QED
      BY <2>2, <2>4, <2>6, <2>10
  <1>5. AllAtHome(b)
    BY <1>4 DEF AllAtHome
  <1> QED
    BY <1>1, <1>5, TogetherIs DEF b

-----------------------------------------------------------------------------
(* Batches keep the winners *)

\* The document c is d with the rows and indexes of a batch B, which came to r.
Arrived(r, B, d, c) ==
    /\ RowsInv
    /\ r \in Replica /\ B \in SUBSET (DOMAIN made \ Held(r))
    /\ GotBatch(r, B, d)
    /\ RegOK(doc[r]) /\ TopOK(doc[r])
    /\ DOMAIN c = Fields /\ c.ops = d.ops
    /\ c.order = RowsWith(d, B, ElementsWith(d, B))
    /\ c.vis = (d.vis \ GoneWith(d, B)) \cup FreshOf(d, B)
    /\ c.top = TopWith(d, B, ElementsWith(d, B))

\* What is visible then is what stays of the rows on its element.
LEMMA StaysOn ==
    ASSUME NEW r, NEW B, NEW d, NEW c, Arrived(r, B, d, c)
    PROVE  /\ \A x \in DOMAIN d.ops : HasRow(d, x) => (x \in c.vis <=> Stays(d, B, x))
           /\ \A x \in c.vis : x \in DOMAIN d.ops /\ HasRow(d, x) /\ ~IsInc(d, x)
           /\ \A x \in d.vis : x \in DOMAIN d.ops /\ HasRow(d, x) /\ ~IsInc(d, x) /\ x \notin B /\ WasSeen(d, B, x)
           /\ \A e \in Elements(d, DOMAIN d.ops) : \A x \in ToSet(OnElement(d, B, e)) :
                  WasSeen(d, B, x) => x \in d.vis /\ Elem(d, x) = e
  <1>1. /\ RowsInv /\ r \in Replica /\ B \in SUBSET (DOMAIN made \ Held(r)) /\ GotBatch(r, B, d) /\ RegOK(doc[r])
        /\ c.vis = (d.vis \ GoneWith(d, B)) \cup FreshOf(d, B)
    BY DEF Arrived
  <1>2. BatchOK(d, B) /\ DOMAIN d.ops = Held(r) \cup B /\ DOMAIN d.ops \ B = Held(r)
    BY <1>1, BatchFinds DEF TreeBefore
  <1>3. \A x \in DOMAIN d.ops : HasRow(d, x) => (x \in c.vis <=> Stays(d, B, x))
    BY <1>1, StaysIs
  <1>4. ASSUME NEW x \in d.vis
        PROVE  x \in DOMAIN d.ops /\ HasRow(d, x) /\ ~IsInc(d, x) /\ x \notin B /\ x \in Held(r)
    <2>1. SeenOK(doc[r]) /\ RowsOK(doc[r], DOMAIN doc[r].ops) /\ DOMAIN doc[r].ops = Held(r)
          /\ \A j \in Held(r) : doc[r].ops[j] = made[j].o
      BY <1>1, DocIs
    <2>2. d.vis = doc[r].vis /\ d.ops = [j \in Held(r) \cup B |-> made[j].o]
      BY <1>1 DEF GotBatch
    <2>3. x \in ToSet(doc[r].order) /\ ~IsInc(doc[r], x)
      BY <1>4, <2>1, <2>2 DEF SeenOK
    <2>4. x \in Held(r) /\ HasRow(doc[r], x)
      BY <2>1, <2>3 DEF RowsOK
    <2>5. d.ops[x] = doc[r].ops[x]
      BY <2>1, <2>2, <2>4
    <2> QED
      BY <1>2, <2>3, <2>4, <2>5 DEF IsInc, HasRow
  <1>5. \A x \in d.vis : WasSeen(d, B, x)
    BY <1>1, <1>4, StaysIs
  <1>6. \A x \in FreshOf(d, B) : x \in B /\ HasRow(d, x) /\ ~IsInc(d, x)
    BY DEF FreshOf, IsVisibleChange
  <1>7. \A x \in c.vis : x \in DOMAIN d.ops /\ HasRow(d, x) /\ ~IsInc(d, x)
    BY <1>1, <1>2, <1>4, <1>6
  <1>8. ASSUME NEW e \in Elements(d, DOMAIN d.ops), NEW x \in ToSet(OnElement(d, B, e)), WasSeen(d, B, x)
        PROVE  x \in d.vis /\ Elem(d, x) = e
    <2>1. x \notin B /\ ~IsInc(d, x)
      BY <1>8 DEF WasSeen, IsVisibleAt
    <2>2. x \in DOMAIN d.ops /\ HasRow(d, x)
      BY <1>2, <1>8, <2>1, OnElementRows
    <2>3. x \in d.vis
      BY <1>1, <1>2, <1>8, <2>1, <2>2, StaysIs
    <2> QED
      BY <1>1, <1>8, <2>1, <2>3, OnElementOrder
  <1> QED
    BY <1>3, <1>4, <1>5, <1>7, <1>8

\* The row x is the last one that stays of those on the element e.
LastStays(d, B, e, x) ==
    /\ x \in ToSet(OnElement(d, B, e)) /\ Stays(d, B, x)
    /\ \A y \in ToSet(OnElement(d, B, e)) : Stays(d, B, y) => y = x \/ Precedes(OnElement(d, B, e), y, x)

\* What is visible is on its element, and wins if it is the last there.
LEMMA LastWins ==
    ASSUME NEW r, NEW B, NEW d, NEW c, Arrived(r, B, d, c), NEW x \in c.vis, NEW e, e = Elem(d, x)
    PROVE  /\ e \in Elements(d, DOMAIN d.ops) /\ x \in ToSet(OnElement(d, B, e))
           /\ Wins(c, x) <=> LastStays(d, B, e, x)
  <1> DEFINE w == OnElement(d, B, e)
  <1>1. /\ RowsInv /\ r \in Replica /\ B \in SUBSET (DOMAIN made \ Held(r)) /\ GotBatch(r, B, d) /\ RegOK(doc[r])
        /\ c.ops = d.ops
    BY DEF Arrived
  <1>2. BatchOK(d, B) /\ OpsOK(d)
    BY <1>1, BatchFinds DEF TreeBefore
  <1>3. ASSUME NEW y \in c.vis, Elem(d, y) = e PROVE e \in Elements(d, DOMAIN d.ops) /\ y \in ToSet(w)
    <2>1. y \in DOMAIN d.ops /\ HasRow(d, y) /\ ~IsInc(d, y)
      BY <1>3, StaysOn
    <2>2. e \in Elements(d, DOMAIN d.ops)
      BY <1>2, <1>3, <2>1, ElementEarlier
    <2>3. PICK f \in Elements(d, DOMAIN d.ops) : y \in ToSet(OnElement(d, B, f))
      BY <1>2, <2>1, OnElementsPart
    <2>4. Elem(d, y) = f
      BY <1>1, <2>1, <2>3, OnElementOrder
    <2> QED
      BY <1>3, <2>2, <2>3, <2>4
  <1>4. e \in Elements(d, DOMAIN d.ops) /\ x \in ToSet(w)
    BY <1>3
  <1>5. ASSUME NEW y \in ToSet(w), Stays(d, B, y) PROVE y \in c.vis /\ Elem(d, y) = e
    <2>1. y \in DOMAIN d.ops /\ (y \notin B => HasRow(d, y)) /\ (y \in B => Elem(d, y) = e)
      BY <1>2, <1>4, <1>5, OnElementRows
    <2>2. HasRow(d, y)
      BY <1>5, <2>1 DEF Stays, IsVisibleChange
    <2>3. y \in c.vis
      BY <1>5, <2>1, <2>2, StaysOn
    <2>4. ~IsInc(d, y)
      BY <2>3, StaysOn
    <2> QED
      BY <1>1, <1>4, <1>5, <2>3, <2>4, OnElementOrder
  <1>6. Stays(d, B, x) /\ x \in DOMAIN d.ops
    BY StaysOn
  <1>7. \A y : y \in SeenOn(c, e) <=> y \in ToSet(w) /\ Stays(d, B, y)
    <2>1. \A y : Elem(c, y) = Elem(d, y)
      BY <1>1 DEF Elem
    <2>2. \A y \in c.vis : Stays(d, B, y)
      BY StaysOn
    <2> HIDE DEF w
    <2> QED
      BY <1>3, <1>5, <2>1, <2>2 DEF SeenOn
  <1>8. Elem(c, x) = e
    BY <1>1 DEF Elem
  <1>9. w \in Seq(DOMAIN d.ops) /\ Distinct(w) /\ Sorted(w, e)
    BY <1>1, <1>2, <1>4, OnElementHas, OnElementOrder
  <1>10. DOMAIN d.ops \in SUBSET (Nat \X Nat)
    BY <1>2 DEF OpsOK
  <1>11. ASSUME NEW y \in SeenOn(c, e)
         PROVE  y \in ToSet(w) /\ y \in DOMAIN d.ops /\ ~Less(y, e)
    <2>1. y \in ToSet(w) /\ y \in c.vis /\ Elem(d, y) = e /\ y \in DOMAIN d.ops
      BY <1>5, <1>7, <1>11, StaysOn
    <2> QED
      BY <1>2, <2>1, ElementEarlier
  <1> HIDE DEF w
  <1>12. x \in SeenOn(c, e)
    BY <1>4, <1>6, <1>7
  <1>13. ASSUME NEW y \in SeenOn(c, e), y # x
         PROVE  ~Less(x, y) <=> Precedes(w, y, x)
    <2>1. y \in ToSet(w) /\ x \in ToSet(w) /\ ~Less(x, e) /\ ~Less(y, e) /\ x \in Nat \X Nat /\ y \in Nat \X Nat
      BY <1>10, <1>11, <1>12, <1>13
    <2>2. Precedes(w, y, x) \/ Precedes(w, x, y)
      BY <1>9, <1>13, <2>1, PrecedesIsOrder
    <2>3. (Precedes(w, y, x) => Less(y, x)) /\ (Precedes(w, x, y) => Less(x, y))
      BY <1>9, <2>1 DEF Sorted
    <2>4. Less(y, x) => ~Less(x, y)
      BY <2>1, LessIsOrder
    <2> QED
      BY <2>2, <2>3, <2>4
  <1>14. ~Less(x, x)
    BY <1>6, <1>10, LessIsOrder
  <1>15. Wins(c, x) <=> \A y \in SeenOn(c, e) : y = x \/ Precedes(w, y, x)
    BY <1>8, <1>13, <1>14 DEF Wins
  <1>16. LastStays(d, B, e, x) <=> \A y \in SeenOn(c, e) : y = x \/ Precedes(w, y, x)
    BY <1>4, <1>6, <1>7 DEF LastStays, w
  <1> QED
    BY <1>4, <1>15, <1>16 DEF w

\* A row of the document that was visible comes behind x on the element e.
SeenBehind(d, B, e, x) ==
    \E y \in ToSet(OnElement(d, B, e)) : Precedes(OnElement(d, B, e), x, y) /\ WasSeen(d, B, y)

\* What t says of the rows on the element e, of which some stay.
LastIs(d, B, e, t, x) ==
    /\ t.is \in {"change", "doc", "expose"} /\ t.at = x
    /\ t.is = "change" <=> x \in B
    /\ t.is = "doc" => ~SeenBehind(d, B, e, x)

Tells(d, B, e, t) ==
    /\ \A x : LastStays(d, B, e, x) => LastIs(d, B, e, t, x)
    /\ t.is = "expose" => LastStays(d, B, e, t.at)
    /\ \A x \in ToSet(OnElement(d, B, e)) :
           Stays(d, B, x) /\ ~LastStays(d, B, e, x) =>
               x \in t.hide \/ (x \notin B /\ SeenBehind(d, B, e, x))
    /\ \A x \in t.hide : x \in ToSet(OnElement(d, B, e)) /\ ~LastStays(d, B, e, x)

\* Top tells which row is the last that stays (TopStep).
LEMMA TopTells ==
    ASSUME NEW d, NEW B, BatchOK(d, B), NEW e \in Elements(d, DOMAIN d.ops), NEW t, t = TopOf(d, B, e)
    PROVE  Tells(d, B, e, t)
  <1> DEFINE w == OnElement(d, B, e)
             n == Len(w)
  <1>1. w \in Seq(DOMAIN d.ops) /\ Distinct(w)
    BY OnElementHas
  <1>2. PICK a : TopAt(d, B, w, n, t, a)
    BY <1>1, TopOfIs
  <1> HIDE DEF w, n
  <1>3. n \in Nat /\ DOMAIN w = 1 .. n /\ a \in 0 .. n /\ a \in Nat
        /\ (\A k \in 1 .. n : w[k] \in ToSet(w)) /\ \A x \in ToSet(w) : \E k \in 1 .. n : w[k] = x
    <2>1. a \in 0 .. n
      BY <1>2 DEF TopAt
    <2> QED
      BY <1>1, <2>1, SetOfSeq DEF n
  <1>4. \A k, l \in 1 .. n : Precedes(w, w[k], w[l]) <=> k < l
    BY <1>1, <1>3 DEF Precedes, Distinct
  <1>5. \A k \in 1 .. n : LastStays(d, B, e, w[k]) <=> Stays(d, B, w[k]) /\ \A l \in 1 .. n : Stays(d, B, w[l]) => l <= k
    <2> SUFFICES ASSUME NEW k \in 1 .. n
                 PROVE  LastStays(d, B, e, w[k]) <=> Stays(d, B, w[k]) /\ \A l \in 1 .. n : Stays(d, B, w[l]) => l <= k
      OBVIOUS
    <2>1. \A l \in 1 .. n : l <= k <=> w[l] = w[k] \/ Precedes(w, w[l], w[k])
      <3>1. \A l \in 1 .. n : w[l] = w[k] <=> l = k
        BY <1>1, <1>3 DEF Distinct
      <3> QED
        BY <1>3, <1>4, <3>1
    <2>2. LastStays(d, B, e, w[k]) <=>
              Stays(d, B, w[k]) /\ \A y \in ToSet(w) : Stays(d, B, y) => y = w[k] \/ Precedes(w, y, w[k])
      BY <1>3 DEF LastStays, w
    <2> QED
      BY <1>3, <2>1, <2>2
  <1>6. \A k \in 1 .. n : Stays(d, B, w[k]) => k <= a
    <2>1. \A k \in a + 1 .. n : ~Stays(d, B, w[k])
      BY <1>2 DEF TopAt
    <2> QED
      BY <1>3, <2>1
  <1>7. a > 0 => a \in 1 .. n /\ t.at = w[a] /\ Stays(d, B, w[a])
    <2>1. a > 0 => t.at = w[a] /\ Stays(d, B, w[a])
      BY <1>2 DEF TopAt
    <2> QED
      BY <1>3, <2>1
  <1>8. \A k \in 1 .. n : LastStays(d, B, e, w[k]) <=> k = a
    BY <1>3, <1>5, <1>6, <1>7
  <1>9. t.is \in {"nothing", "change", "doc", "expose"} /\ (t.is = "nothing" <=> a = 0)
    BY <1>2 DEF TopAt, TopStates
  <1>10. \A k \in 1 .. n : SeenBehind(d, B, e, w[k]) <=> \E l \in k + 1 .. n : WasSeen(d, B, w[l])
    <2> SUFFICES ASSUME NEW k \in 1 .. n
                 PROVE  SeenBehind(d, B, e, w[k]) <=> \E l \in k + 1 .. n : WasSeen(d, B, w[l])
      OBVIOUS
    <2>1. SeenBehind(d, B, e, w[k]) <=> \E y \in ToSet(w) : Precedes(w, w[k], y) /\ WasSeen(d, B, y)
      BY DEF SeenBehind, w
    <2>2. \A l \in 1 .. n : Precedes(w, w[k], w[l]) <=> l \in k + 1 .. n
      BY <1>3, <1>4
    <2>3. \A l \in k + 1 .. n : l \in 1 .. n
      BY <1>3
    <2> QED
      BY <1>3, <2>1, <2>2, <2>3
  <1>11. ASSUME NEW x, LastStays(d, B, e, x) PROVE LastIs(d, B, e, t, x)
    <2>1. PICK k \in 1 .. n : w[k] = x
      BY <1>3, <1>11 DEF LastStays, w
    <2>2. k = a /\ a > 0 /\ x = w[a] /\ t.at = x
      BY <1>3, <1>7, <1>8, <1>11, <2>1
    <2>3. t.is \in {"change", "doc", "expose"}
      BY <1>9, <2>2
    <2>4. t.is = "change" <=> x \in B
      BY <1>2, <2>2, <2>3 DEF TopAt
    <2>5. t.is = "doc" => ~SeenBehind(d, B, e, x)
      <3>1. t.is = "doc" => \A l \in a + 1 .. n : ~WasSeen(d, B, w[l])
        BY <1>2 DEF TopAt
      <3> QED
        BY <1>10, <2>1, <2>2, <3>1
    <2> QED
      BY <2>2, <2>3, <2>4, <2>5 DEF LastIs
  <1>12. t.is = "expose" => LastStays(d, B, e, t.at)
    BY <1>3, <1>7, <1>8, <1>9
  <1>13. ASSUME NEW x \in ToSet(w), Stays(d, B, x), ~LastStays(d, B, e, x)
         PROVE  x \in t.hide \/ (x \notin B /\ SeenBehind(d, B, e, x))
    <2>1. PICK k \in 1 .. n : w[k] = x
      BY <1>3, <1>13
    <2>2. k \in 1 .. a - 1
      BY <1>3, <1>6, <1>8, <1>13, <2>1
    <2>3. IF w[k] \in B THEN w[k] \in t.hide
          ELSE w[k] \in t.hide \/ \E l \in k + 1 .. n : WasSeen(d, B, w[l])
      BY <1>2, <1>13, <2>1, <2>2 DEF TopAt
    <2> QED
      BY <1>10, <2>1, <2>3
  <1>14. ASSUME NEW x \in t.hide PROVE x \in ToSet(w) /\ ~LastStays(d, B, e, x)
    <2>1. PICK k \in 1 .. a - 1 : x = w[k]
      BY <1>2, <1>14 DEF TopAt
    <2>2. k \in 1 .. n /\ k # a
      BY <1>3
    <2> QED
      BY <1>3, <1>8, <2>1, <2>2
  <1> QED
    BY <1>11, <1>12, <1>13, <1>14 DEF Tells, w

\* What is hidden or wins again, element by element.
LEMMA HiddenIs ==
    ASSUME NEW d, NEW B, NEW s, ToSet(s) = Elements(d, DOMAIN d.ops), NEW x
    PROVE  /\ x \in Hidden(d, B, s) <=> \E f \in Elements(d, DOMAIN d.ops) : x \in TopOf(d, B, f).hide
           /\ x \in Exposed(d, B, s) <=>
                  \E f \in Elements(d, DOMAIN d.ops) : TopOf(d, B, f).is = "expose" /\ TopOf(d, B, f).at = x
  BY DEF Hidden, Exposed

\* After a batch the greatest of what is visible on an element wins.
LEMMA BatchKeepsTop ==
    ASSUME NEW r, NEW B, NEW d, NEW c, Arrived(r, B, d, c)
    PROVE  TopOK(c)
  <1> DEFINE s == ElementsWith(d, B)
             E == Elements(d, DOMAIN d.ops)
             b == doc[r]
  <1>1. /\ RowsInv /\ r \in Replica /\ B \in SUBSET (DOMAIN made \ Held(r)) /\ GotBatch(r, B, d)
        /\ RegOK(doc[r]) /\ RegOK(b) /\ TopOK(b) /\ c.ops = d.ops
        /\ c.top = TopWith(d, B, s)
        /\ c.vis = (d.vis \ GoneWith(d, B)) \cup FreshOf(d, B)
    BY DEF Arrived
  <1>2. BatchOK(d, B) /\ OpsOK(d) /\ TreeBefore(d, B) /\ DOMAIN d.ops = Held(r) \cup B
    BY <1>1, BatchFinds DEF TreeBefore
  <1>3. ToSet(s) = E
    BY <1>2, ElementsOrder DEF OrderOf
  <1>4. c.top \subseteq c.vis
    BY <1>1, BatchRows DEF Arrived
  <1>5. \A f \in E : Tells(d, B, f, TopOf(d, B, f))
    BY <1>2, TopTells
  <1>6. d.top = b.top /\ d.vis = b.vis /\ d.top \subseteq d.vis
        /\ \A x \in d.vis : x \in d.top <=> \A y \in d.vis : Elem(d, y) = Elem(d, x) => ~Less(x, y)
    <2>1. d.top = b.top /\ d.vis = b.vis
      BY <1>1 DEF GotBatch
    <2>2. b.top \subseteq b.vis
      BY <1>1 DEF RowsInv
    <2>3. \A x \in b.vis : Elem(b, x) = Elem(d, x)
      <3>1. DOMAIN b.ops = Held(r) /\ (\A j \in Held(r) : b.ops[j] = made[j].o) /\ SeenOK(b) /\ RowsOK(b, DOMAIN b.ops)
        BY <1>1, DocIs
      <3>2. \A j \in Held(r) : d.ops[j] = made[j].o
        BY <1>1 DEF GotBatch
      <3>3. \A x \in b.vis : x \in Held(r)
        BY <3>1 DEF SeenOK, RowsOK
      <3> QED
        BY <3>1, <3>2, <3>3 DEF Elem
    <2>4. \A x \in b.vis : x \in b.top <=> \A y \in b.vis : Elem(b, y) = Elem(b, x) => ~Less(x, y)
      BY <1>1 DEF TopOK, Wins, SeenOn
    <2> QED
      BY <2>1, <2>2, <2>3, <2>4
  <1> HIDE DEF s, E, b
  <1>7. ASSUME NEW x \in c.vis, NEW e, e = Elem(d, x), NEW t, t = TopOf(d, B, e)
        PROVE  x \in c.top <=> Wins(c, x)
    <2> DEFINE w == OnElement(d, B, e)
    <2>1. e \in E /\ x \in ToSet(w) /\ (Wins(c, x) <=> LastStays(d, B, e, x))
      BY <1>7, LastWins DEF E
    <2>2. Tells(d, B, e, t)
      BY <1>5, <1>7, <2>1
    <2>3. w \in Seq(DOMAIN d.ops) /\ Distinct(w) /\ Sorted(w, e) /\ DOMAIN d.ops \in SUBSET (Nat \X Nat)
      <3>1. e \in Elements(d, DOMAIN d.ops)
        BY <2>1 DEF E
      <3>2. w \in Seq(DOMAIN d.ops) /\ Distinct(w)
        BY <1>2, <3>1, OnElementHas
      <3>3. Sorted(w, e)
        BY <1>1, <3>1, OnElementOrder
      <3> QED
        BY <1>2, <3>2, <3>3 DEF OpsOK
    <2>4. x \in DOMAIN d.ops /\ HasRow(d, x) /\ Stays(d, B, x)
      BY <1>7, StaysOn
    <2>5. x \in GoneWith(d, B) => x \notin d.vis \/ x \in FreshOf(d, B)
      BY <1>1, <1>7
    <2>6. x \in FreshOf(d, B) => x \in B
      BY DEF FreshOf
    <2>7. x \in B => x \in FreshOf(d, B)
      BY <1>1, <2>4, StaysIs
    <2>8. x \in Hidden(d, B, s) <=> x \in t.hide
      <3>1. x \in Hidden(d, B, s) <=> \E f \in E : x \in TopOf(d, B, f).hide
        BY <1>3, HiddenIs DEF E
      <3>2. ASSUME NEW f \in E, x \in TopOf(d, B, f).hide PROVE f = e
        <4>1. x \in ToSet(OnElement(d, B, f))
          BY <1>5, <3>2 DEF Tells
        <4> QED
          BY <1>2, <2>1, <3>2, <4>1, OnElementsPart DEF E
      <3> QED
        BY <1>7, <2>1, <3>1, <3>2
    <2>9. x \in Exposed(d, B, s) <=> t.is = "expose" /\ t.at = x
      <3>1. x \in Exposed(d, B, s) <=> \E f \in E : TopOf(d, B, f).is = "expose" /\ TopOf(d, B, f).at = x
        BY <1>3, HiddenIs DEF E
      <3>2. ASSUME NEW f \in E, TopOf(d, B, f).is = "expose" /\ TopOf(d, B, f).at = x PROVE f = e
        <4>1. x \in ToSet(OnElement(d, B, f))
          BY <1>5, <3>2 DEF Tells, LastStays
        <4> QED
          BY <1>2, <2>1, <3>2, <4>1, OnElementsPart DEF E
      <3> QED
        BY <1>7, <2>1, <3>1, <3>2
    <2>10. x \in c.top <=> \/ x \in d.top /\ x \notin t.hide /\ x \notin GoneWith(d, B)
                           \/ t.is = "expose" /\ t.at = x /\ x \notin GoneWith(d, B)
                           \/ x \in FreshOf(d, B) /\ x \notin t.hide
      <3>1. c.top = (((d.top \ Hidden(d, B, s)) \cup Exposed(d, B, s)) \ GoneWith(d, B))
                       \cup (FreshOf(d, B) \ Hidden(d, B, s))
        BY <1>1 DEF TopWith
      <3> QED
        BY <2>8, <2>9, <3>1
    <2>11. x \notin B => x \in d.vis /\ x \notin GoneWith(d, B)
      BY <1>1, <1>7, <2>5, <2>6
    <2>12. x \in B => x \notin d.vis
      BY StaysOn
    <2>13. ASSUME NEW y, y \in d.vis, Elem(d, y) = e PROVE y \in ToSet(w) /\ WasSeen(d, B, y) /\ ~Less(y, e)
      <3>1. y \in DOMAIN d.ops /\ HasRow(d, y) /\ ~IsInc(d, y) /\ WasSeen(d, B, y)
        BY <2>13, StaysOn
      <3>2. PICK f \in E : y \in ToSet(OnElement(d, B, f))
        BY <1>2, <3>1, OnElementsPart DEF E
      <3>3. f = e
        <4>1. f \in Elements(d, DOMAIN d.ops)
          BY <3>2 DEF E
        <4>2. Elem(d, y) = f
          BY <1>1, <3>1, <3>2, <4>1, OnElementOrder
        <4> QED
          BY <2>13, <4>2
      <3> QED
        BY <1>2, <2>13, <3>1, <3>2, <3>3, ElementEarlier
    <2>14. ~Less(x, e)
      BY <1>2, <1>7, <2>4, ElementEarlier
    <2>15. ASSUME x \notin B PROVE x \in d.top <=> ~SeenBehind(d, B, e, x)
      <3>1. x \in d.vis
        BY <2>11, <2>15
      <3>2. x \in d.top <=> \A y \in d.vis : Elem(d, y) = e => ~Less(x, y)
        BY <1>6, <1>7, <3>1
      <3>3. ASSUME NEW y \in d.vis, Elem(d, y) = e PROVE Less(x, y) <=> Precedes(w, x, y)
        <4>1. y \in ToSet(w) /\ ~Less(y, e)
          BY <2>13, <3>3
        <4>2. y = x \/ Precedes(w, x, y) \/ Precedes(w, y, x)
          BY <2>1, <2>3, <4>1, PrecedesIsOrder
        <4>3. (Precedes(w, x, y) => Less(x, y)) /\ (Precedes(w, y, x) => Less(y, x))
          BY <2>1, <2>3, <2>14, <4>1 DEF Sorted
        <4>4. x \in Nat \X Nat /\ y \in Nat \X Nat
          BY <2>3, <2>4, <3>3, StaysOn
        <4>5. ~Less(x, x) /\ (Less(y, x) => ~Less(x, y)) /\ ~Precedes(w, x, x)
          BY <2>3, <4>4, LessIsOrder, PrecedesIsOrder
        <4> QED
          BY <4>2, <4>3, <4>5, <2>3, PrecedesIsOrder
      <3>4. SeenBehind(d, B, e, x) <=> \E y \in d.vis : Elem(d, y) = e /\ Precedes(w, x, y)
        <4>1. \A y \in ToSet(w) : WasSeen(d, B, y) => y \in d.vis /\ Elem(d, y) = e
          BY <2>1, StaysOn DEF E
        <4> QED
          BY <2>13, <4>1 DEF SeenBehind
      <3> QED
        BY <3>2, <3>3, <3>4
    <2> HIDE DEF w
    <2>16. CASE LastStays(d, B, e, x)
      <3>1. LastIs(d, B, e, t, x) /\ x \notin t.hide
        BY <2>2, <2>16 DEF Tells
      <3>2. CASE x \in B
        BY <2>1, <2>7, <2>10, <2>16, <3>1, <3>2
      <3>3. CASE x \notin B
        <4>1. t.is \in {"doc", "expose"} /\ t.at = x /\ (t.is = "doc" => ~SeenBehind(d, B, e, x))
          BY <3>1, <3>3 DEF LastIs
        <4> QED
          BY <2>1, <2>10, <2>11, <2>15, <2>16, <3>1, <3>3, <4>1
      <3> QED
        BY <3>2, <3>3
    <2>17. CASE ~LastStays(d, B, e, x)
      <3>1. x \in t.hide \/ (x \notin B /\ SeenBehind(d, B, e, x))
        BY <2>1, <2>2, <2>4, <2>17 DEF Tells, w
      <3>2. ~(t.is = "expose" /\ t.at = x)
        BY <2>2, <2>17 DEF Tells
      <3> QED
        BY <2>1, <2>6, <2>10, <2>15, <2>17, <3>1, <3>2
    <2> QED
      BY <2>16, <2>17
  <1>8. \A x \in c.vis : x \in c.top <=> Wins(c, x)
    BY <1>7
  <1> QED
    BY <1>4, <1>8 DEF TopOK

-----------------------------------------------------------------------------
(* The order of rows and the winners, in every document *)

\* If isolated transactions find all rows of an element, the rows of each element
\* are in the order of their identifiers, and what wins is the greatest of what is
\* visible there.
InOrder(d) == Findable(d) => RegOK(d) /\ TopOK(d)

OrderInv == RowsInv /\ \A r \in Replica : InOrder(doc[r])

\* At most one operation is in order.
LEMMA OneIsInOrder ==
    ASSUME NEW d, TreeOK(d), NEW i, \A x \in DOMAIN d.ops : x = i,
           d.vis \subseteq ToSet(d.order), d.top = d.vis
    PROVE  RegOK(d) /\ TopOK(d)
  <1>1. OpsOK(d) /\ RowsOK(d, DOMAIN d.ops)
    BY DEF TreeOK
  <1>2. \A x \in ToSet(d.order) : x \in DOMAIN d.ops
    BY <1>1 DEF RowsOK
  <1>3. \A x \in DOMAIN d.ops : ~Less(x, x)
    BY <1>1, LessIsOrder DEF OpsOK
  <1>4. TopOK(d)
    <2>1. \A x \in d.vis : Wins(d, x)
      BY <1>2, <1>3 DEF Wins, SeenOn
    <2> QED
      BY <2>1 DEF TopOK
  <1>5. ASSUME NEW e \in Elements(d, DOMAIN d.ops)
        PROVE  /\ Sorted(RegisterOf(d, e), e)
               /\ \A x \in ToSet(RegisterOf(d, e)) : Elem(d, x) = e
    <2> DEFINE reg == RegisterOf(d, e)
    <2>1. /\ reg \in Seq(DOMAIN d.ops) /\ Distinct(reg) /\ ToSet(reg) \subseteq ToSet(d.order)
          /\ object = "list" /\ reg # <<>> => reg[1] = e /\ e \in DOMAIN d.ops /\ d.ops[e].insert
      BY <1>1, RegisterHas
    <2> HIDE DEF reg
    <2>2. \A x, y \in ToSet(reg) : ~Precedes(reg, x, y)
      <3>1. \A x, y \in ToSet(reg) : x = y
        BY <1>2, <2>1
      <3> QED
        BY <2>1, <3>1, PrecedesIsOrder
    <2>3. ASSUME NEW x \in ToSet(reg) PROVE Elem(d, x) = e
      <3>1. x \in DOMAIN d.ops
        BY <1>2, <2>1
      <3>2. CASE object = "list"
        <4>1. reg # <<>>
          BY <2>3 DEF ToSet
        <4>2. e \in DOMAIN d.ops /\ d.ops[e].insert
          BY <2>1, <3>2, <4>1
        <4>3. x = e
          BY <3>1, <4>2
        <4> QED
          BY <4>2, <4>3 DEF Elem
      <3>3. CASE object # "list"
        BY <1>1, <3>1, <3>3 DEF OpsOK, Elem, Elements
      <3> QED
        BY <3>2, <3>3
    <2> QED
      BY <2>2, <2>3 DEF Sorted, reg
  <1> QED
    BY <1>4, <1>5 DEF RegOK

\* So replicas start in order.
LEMMA InitInOrder ==
    ASSUME Init
    PROVE  RowsInv /\ \A r \in Replica : RegOK(doc[r]) /\ TopOK(doc[r])
  <1> DEFINE AllInOrder == \A r \in Replica : RegOK(doc[r]) /\ TopOK(doc[r])
  <1>1. RowsInv /\ object \in {"map", "list"}
    BY InitRows, OpSetAssumption DEF Init
  <1>2. ASSUME NEW d, NEW i, \A r \in Replica : doc[r] = d, DOMAIN d.ops \subseteq {i}, d.top = d.vis
        PROVE  AllInOrder
    <2>1. ASSUME NEW r \in Replica PROVE RegOK(doc[r]) /\ TopOK(doc[r])
      <3>1. d = doc[r]
        BY <1>2
      <3>2. TreeOK(d) /\ d.vis \subseteq ToSet(d.order)
        BY <1>1, <3>1, VisibleInRows
      <3>3. RegOK(d) /\ TopOK(d)
        BY <1>2, <3>2, OneIsInOrder
      <3> QED
        BY <3>1, <3>3
    <2> QED
      BY <2>1
  <1> HIDE DEF AllInOrder
  <1>3. ASSUME object = "map" PROVE AllInOrder
    <2> DEFINE d == EmptyDoc
    <2>1. \A r \in Replica : doc[r] = d
      BY <1>3 DEF Init
    <2>2. DOMAIN d.ops = {} /\ d.top = d.vis
      BY DEF EmptyDoc
    <2> HIDE DEF d
    <2> QED
      BY <1>2, <2>1, <2>2
  <1>4. ASSUME object = "list" PROVE AllInOrder
    <2> DEFINE i == <<1, Own[CHOOSE r \in Replica : TRUE][1]>>
    <2>1. PICK type \in {"set", "counter"} : doc = [s \in Replica |-> FirstDoc(i, type, 0)]
      BY <1>4 DEF Init
    <2> DEFINE o == Op(type, 0, TRUE, Head0, {})
               d == FirstDoc(i, type, 0)
    <2> HIDE DEF i
    <2>2. o.type \notin {"inc", "del"}
      BY DEF Op
    <2>3. d = WithRow(EmptyDoc, i, o, 0)
      BY DEF FirstDoc
    <2>4. DOMAIN EmptyDoc = Fields /\ EmptyDoc.ops = <<>> /\ EmptyDoc.vis = {} /\ EmptyDoc.top = {}
      BY DEF EmptyDoc, Fields
    <2>5. \A r \in Replica : doc[r] = d
      BY <2>1
    <2> HIDE DEF o, d
    <2>6. d.ops = With(<<>>, i, o) /\ d.vis = {i} /\ d.top = {i}
      BY <2>2, <2>3, <2>4 DEF WithRow, Fields
    <2>7. DOMAIN d.ops \subseteq {i} /\ d.top = d.vis
      BY <2>6 DEF With
    <2> QED
      BY <1>2, <2>5, <2>7
  <1> QED
    BY <1>1, <1>3, <1>4 DEF AllInOrder

LEMMA InitOrder == Init => OrderInv
  BY InitInOrder DEF OrderInv, InOrder

\* The registers of a document are a matter of the document.
LEMMA SameRegisters ==
    ASSUME object' = object, NEW d
    PROVE  /\ Elements(d, DOMAIN d.ops)' = Elements(d, DOMAIN d.ops)
           /\ Registers(d)' = Registers(d)
           /\ \A e : RegisterOf(d, e)' = RegisterOf(d, e)
  <1>1. Elements(d, DOMAIN d.ops)' = Elements(d, DOMAIN d.ops)
    BY DEF Elements
  <1>2. Registers(d)' = Registers(d)
    <2> DEFINE F(b) == {n \in DOMAIN d.order : IF b = "list" THEN d.ops[d.order[n]].insert ELSE n = 1}
    <2>1. F(object') = F(object)
      OBVIOUS
    <2>2. Registers(d) = Grouped(d, F(object)) /\ Registers(d)' = Grouped(d, F(object'))
      BY DEF Registers
    <2> HIDE DEF F
    <2> QED
      BY <2>1, <2>2
  <1>3. ASSUME NEW e PROVE RegisterOf(d, e)' = RegisterOf(d, e)
    <2> DEFINE G(R) == {g \in ToSet(R) : Elem(d, g[1]) = e}
               P(R) == IF G(R) = {} THEN <<>> ELSE CHOOSE g \in G(R) : TRUE
    <2>1. RegisterOf(d, e) = P(Registers(d)) /\ RegisterOf(d, e)' = P(Registers(d)')
      BY DEF RegisterOf
    <2> HIDE DEF P
    <2> QED
      BY <1>2, <2>1
  <1> QED
    BY <1>1, <1>2, <1>3

\* And whether it is in order.
LEMMA OrderAsBefore ==
    ASSUME object' = object, NEW d, InOrder(d)
    PROVE  InOrder(d)'
  <1>1. /\ Elements(d, DOMAIN d.ops)' = Elements(d, DOMAIN d.ops)
        /\ Registers(d)' = Registers(d)
        /\ \A e : RegisterOf(d, e)' = RegisterOf(d, e)
    BY SameRegisters
  <1>2. Together(d)' <=> Together(d)
    BY <1>1 DEF Together
  <1>3. Findable(d)' <=> Findable(d)
    BY <1>2 DEF Findable
  <1>4. RegOK(d) => RegOK(d)'
    BY <1>1 DEF RegOK
  <1>5. TopOK(d)' <=> TopOK(d)
    OBVIOUS
  <1> QED
    BY <1>3, <1>4, <1>5 DEF InOrder

\* It is then if it was another name of it.
LEMMA InOrderOfAnother ==
    ASSUME NEW d, InOrder(d)', NEW r \in Replica, d = doc'[r]
    PROVE  InOrder(doc[r])'
  BY DEF InOrder, Findable, Together, RegOK, TopOK

\* One document is another, in order, and the others are as they were.
LEMMA OneChanges ==
    ASSUME OrderInv, RowsInv', object' = object, NEW r \in Replica, NEW c, InOrder(c),
           \A s \in Replica : doc'[s] = IF s = r THEN c ELSE doc[s]
    PROVE  OrderInv'
  <1>1. ASSUME NEW s \in Replica PROVE InOrder(doc[s])'
    <2>1. PICK d : d = doc'[s]
      OBVIOUS
    <2>2. InOrder(d)
      <3>1. CASE s = r
        BY <2>1, <3>1
      <3>2. CASE s # r
        BY <2>1, <3>2 DEF OrderInv
      <3> QED
        BY <3>1, <3>2
    <2>3. InOrder(d)'
      BY <2>2, OrderAsBefore
    <2> QED
      BY <2>1, <2>3, InOrderOfAnother
  <1> QED
    BY <1>1 DEF OrderInv

\* Every step keeps all documents in order.
LEMMA StepOrder ==
    ASSUME OrderInv, [Next]_vars, ~MixedIncrements
    PROVE  OrderInv'
  <1>1. RowsInv /\ OpInv /\ RowsInv'
    BY StepRows DEF OrderInv, RowsInv, IndexInv
  <1>2. ASSUME NEW r \in Replica, NEW S \in Scopes(r), NEW o, NEW e, Edits(r, S, o, e),
               InsertsRow(r, S, o, e) \/ UpdatesRow(r, S, o, e)
        PROVE  OrderInv'
    <2>1. ASSUME Findable(e) PROVE RegOK(e) /\ TopOK(e)
      <3>1. Findable(doc[r])
        BY <1>1, <1>2, <2>1, EditWereTogether DEF Findable
      <3>2. RegOK(doc[r]) /\ TopOK(doc[r])
        BY <3>1 DEF OrderInv, InOrder
      <3>3. object = "list" /\ S # {} => Together(doc[r])
        BY <3>1 DEF Findable, Scopes
      <3>4. PICK i : i = NextId(r, S)
        OBVIOUS
      <3>5. EditOf(r, S, i, o, e)
        BY <1>2, <3>3, <3>4 DEF EditOf
      <3> QED
        BY <1>1, <3>2, <3>5, EditKeepsReg, EditKeepsTop
    <2>5. InOrder(e)
      BY <2>1 DEF InOrder
    <2>6. \A s \in Replica : doc'[s] = IF s = r THEN e ELSE doc[s]
      BY <1>1, <1>2 DEF Edits, OpInv
    <2>7. object' = object
      BY <1>2 DEF Edits
    <2> QED
      BY <1>1, <2>5, <2>6, <2>7, OneChanges
  <1>3. ASSUME NEW r \in Replica, NEW B \in SUBSET (DOMAIN made \ Held(r)), Deliver(r, B)
        PROVE  OrderInv'
    <2>1. PICK d :
              /\ DOMAIN d = Fields
              /\ d.ops = [j \in Held(r) \cup B |-> made[j].o]
              /\ d.succ = doc[r].succ /\ d.vis = doc[r].vis
              /\ d.order = doc[r].order /\ d.top = doc[r].top
              /\ \A b \in B : made[b].past \subseteq Held(r) \cup B
              /\ doc' = [doc EXCEPT ![r] = Batched(d, B)]
              /\ DOMAIN Batched(d, B) = Fields
              /\ Batched(d, B).ops = d.ops
              /\ Batched(d, B).vis = (d.vis \ GoneWith(d, B)) \cup FreshOf(d, B)
              /\ Batched(d, B).order = RowsWith(d, B, ElementsWith(d, B))
              /\ Batched(d, B).top = TopWith(d, B, ElementsWith(d, B))
              /\ UNCHANGED <<object, made>>
      BY <1>1, <1>3, DeliverAdds
    <2>2. GotBatch(r, B, d)
      BY <2>1 DEF GotBatch
    <2>3. PICK c : c = Batched(d, B)
      OBVIOUS
    <2>4. /\ DOMAIN c = Fields /\ c.ops = d.ops
          /\ c.order = RowsWith(d, B, ElementsWith(d, B))
          /\ c.vis = (d.vis \ GoneWith(d, B)) \cup FreshOf(d, B)
          /\ c.top = TopWith(d, B, ElementsWith(d, B))
      BY <2>1, <2>3
    <2>5. PICK s : s = ElementsWith(d, B)
      OBVIOUS
    <2>6. OrderOf(d, s) /\ TreeOK(c) /\ RowsAre(d, B, s, c.order)
      <3>1. TreeBefore(d, B)
        BY <1>1, <2>2, BatchFinds
      <3>2. OrderOf(d, s)
        BY <2>5, <3>1, ElementsOrder
      <3> QED
        BY <1>1, <2>2, <2>4, <2>5, <3>2, BatchRows
    <2>7. InOrder(c)
      <3>1. ASSUME Findable(c) PROVE RegOK(c) /\ TopOK(c)
        <4>1. Findable(doc[r])
          BY <1>1, <2>2, <2>4, <2>6, <3>1, BatchWereTogether DEF Findable
        <4>2. RegOK(doc[r]) /\ TopOK(doc[r])
          BY <4>1 DEF OrderInv, InOrder
        <4>3. RegOK(c)
          BY <1>1, <2>2, <2>4, <2>6, <4>2, BatchKeepsReg
        <4>4. Arrived(r, B, d, c)
          BY <1>1, <2>2, <2>4, <4>2 DEF Arrived
        <4> QED
          BY <4>3, <4>4, BatchKeepsTop
      <3> QED
        BY <3>1 DEF InOrder
    <2>8. \A u \in Replica : doc'[u] = IF u = r THEN c ELSE doc[u]
      BY <1>1, <2>1, <2>3 DEF OpInv
    <2>9. object' = object
      BY <2>1
    <2> QED
      BY <1>1, <2>7, <2>8, <2>9, OneChanges
  <1>4. CASE UNCHANGED vars
    <2>1. object' = object /\ doc' = doc
      BY <1>4 DEF vars
    <2>2. ASSUME NEW s \in Replica PROVE InOrder(doc[s])'
      <3>1. PICK d : d = doc[s]
        OBVIOUS
      <3>2. InOrder(d) /\ d = doc'[s]
        BY <2>1, <3>1 DEF OrderInv
      <3> QED
        BY <2>1, <3>2, OrderAsBefore, InOrderOfAnother
    <2> QED
      BY <1>1, <2>2 DEF OrderInv
  <1>5. \/ \E r \in Replica : \E S \in Scopes(r) : \E o, e :
               /\ Edits(r, S, o, e)
               /\ InsertsRow(r, S, o, e) \/ UpdatesRow(r, S, o, e)
        \/ \E r \in Replica : \E B \in SUBSET (DOMAIN made \ Held(r)) : Deliver(r, B)
        \/ UNCHANGED vars
    <2>1. \/ \E r \in Replica : \E S \in Scopes(r) : \E o, e :
                 /\ Edits(r, S, o, e)
                 /\ InsertsRow(r, S, o, e) \/ UpdatesRow(r, S, o, e)
                 /\ Cardinality(DOMAIN made) < MaxOps
          \/ \E r \in Replica : \E B \in SUBSET (DOMAIN made \ Held(r)) : Deliver(r, B)
          \/ UNCHANGED vars
      BY <1>1, StepIs
    <2> QED
      BY <2>1
  <1> QED
    BY <1>2, <1>3, <1>4, <1>5

\* Documents that are in order have their rows in the order of the tree.
LEMMA RowsAreInOrder ==
    ASSUME OrderInv
    PROVE  InTreeOrder
  <1>1. ASSUME NEW r \in Replica, NEW m \in DOMAIN Plain(doc[r]), NEW n \in DOMAIN Plain(doc[r]), m < n,
               Findable(doc[r])
        PROVE  ComesBefore(doc[r], Plain(doc[r])[m], Plain(doc[r])[n])
    <2>1. RowsInv /\ TreeOK(doc[r]) /\ RegOK(doc[r])
      BY <1>1 DEF OrderInv, InOrder, RowsInv
    <2>2. CountersFall(doc[r])
      BY <2>1, CountersFallIs
    <2>3. Precedes(Plain(doc[r]), Plain(doc[r])[m], Plain(doc[r])[n])
      BY <1>1 DEF Precedes
    <2> QED
      BY <2>1, <2>2, <2>3, RowsInOrder
  <1>2. ASSUME NEW r \in Replica, Findable(doc[r])
        PROVE  \A m, n \in DOMAIN Plain(doc[r]) : m < n => ComesBefore(doc[r], Plain(doc[r])[m], Plain(doc[r])[n])
    BY <1>1, <1>2
  <1> QED
    BY <1>2 DEF InTreeOrder, ComesBefore, Plain, Leads

\* Documents that are in order and have the same operations are the same.
LEMMA InOrderAgree ==
    ASSUME OrderInv
    PROVE  Converges
  <1>1. RowsInv /\ IndexInv
    BY DEF OrderInv, RowsInv
  <1>2. ASSUME NEW r \in Replica, NEW s \in Replica, DOMAIN doc[r].ops = DOMAIN doc[s].ops
        PROVE  doc[r].ops = doc[s].ops /\ doc[r].succ = doc[s].succ /\ doc[r].vis = doc[s].vis
    <2>1. /\ doc[r].ops = [i \in Held(r) |-> made[i].o]
          /\ doc[s].ops = [i \in Held(s) |-> made[i].o]
          /\ IndexOK(r) /\ IndexOK(s)
      BY <1>1 DEF IndexInv, OpInv, DocOK
    <2> QED
      BY <1>2, <2>1 DEF IndexOK, Held
  <1>3. SameIndexes
    BY <1>2 DEF SameIndexes
  <1>4. ASSUME NEW r \in Replica, NEW s \in Replica, DOMAIN doc[r].ops = DOMAIN doc[s].ops,
               Findable(doc[r]), Findable(doc[s])
        PROVE  Plain(doc[r]) = Plain(doc[s]) /\ doc[r].top = doc[s].top
    <2>1. PICK c, d : c = doc[r] /\ d = doc[s]
      OBVIOUS
    <2>2. c.ops = d.ops /\ c.vis = d.vis
      BY <1>2, <1>4, <2>1
    <2>3. TreeOK(c) /\ RegOK(c) /\ TreeOK(d) /\ RegOK(d) /\ TopOK(c) /\ TopOK(d)
      BY <1>1, <1>4, <2>1 DEF OrderInv, InOrder, RowsInv
    <2>4. CountersFall(d)
      BY <1>1, <2>1, CountersFallIs
    <2>5. Plain(c) = Plain(d)
      BY <2>2, <2>3, <2>4, PlainConverge
    <2>6. \A x : Wins(c, x) <=> Wins(d, x)
      BY <2>2 DEF Wins, SeenOn, Elem
    <2> QED
      BY <2>1, <2>2, <2>3, <2>5, <2>6 DEF TopOK
  <1> QED
    BY <1>3, <1>4 DEF Converges, Plain

-----------------------------------------------------------------------------
(* Values stay with their elements *)

\* The register of g has no rows of other elements but increments.
HomeOn(d, g) == \A x \in ToSet(RegisterOf(d, g)) : Elem(d, x) = g \/ IsInc(d, x)

\* So have all registers, also when rows have come apart.
AtHome(d) == \A g \in Elements(d, DOMAIN d.ops) : HomeOn(d, g)

\* Then values are in the registers of their elements.
LEMMA HomeIs ==
    ASSUME NEW d, TreeOK(d), AtHome(d), NEW x \in ToSet(d.order), ~IsInc(d, x)
    PROVE  Elem(d, x) \in Elements(d, DOMAIN d.ops) /\ x \in ToSet(RegisterOf(d, Elem(d, x)))
  <1>1. PICK g \in Elements(d, DOMAIN d.ops) : x \in ToSet(RegisterOf(d, g))
    BY RegistersPart DEF TreeOK
  <1>2. Elem(d, x) = g
    BY <1>1 DEF AtHome, HomeOn
  <1> QED
    BY <1>1, <1>2

\* An update within its register keeps them there.
LEMMA UpdateKeepsHome ==
    ASSUME NEW d, TreeOK(d), AtHome(d), NEW i, NEW o, NEW e, OneMore(d, i, o, e), TreeOK(e),
           UpdatesWithin(d, i, o, e), o.ref \in Elements(d, DOMAIN d.ops)
    PROVE  AtHome(e)
  <1>1. Elements(d, DOMAIN d.ops) = Elements(e, DOMAIN e.ops) /\ ~o.insert /\ Elem(e, i) = o.ref
    BY MoreIs DEF UpdatesWithin
  <1>2. ASSUME NEW g \in Elements(d, DOMAIN d.ops), NEW x \in ToSet(RegisterOf(e, g))
        PROVE  Elem(e, x) = g \/ IsInc(e, x)
    <2>1. x \in ToSet(RegisterOf(d, g)) \/ (x = i /\ g = o.ref)
      BY <1>2, UpdateRegister
    <2>2. ASSUME x \in ToSet(RegisterOf(d, g)) PROVE Elem(e, x) = g \/ IsInc(e, x)
      <3>1. x \in DOMAIN d.ops
        BY <2>2, RegisterHas, MoreIs DEF TreeOK
      <3>2. Elem(d, x) = g \/ IsInc(d, x)
        BY <1>2, <2>2 DEF AtHome, HomeOn
      <3> QED
        BY <3>1, <3>2, MoreIs
    <2> QED
      BY <1>1, <2>1, <2>2
  <1> QED
    BY <1>1, <1>2 DEF AtHome, HomeOn

\* So does an insert.
LEMMA InsertKeepsHome ==
    ASSUME NEW d, TreeOK(d), AtHome(d), NEW i, NEW o, NEW e, OneMore(d, i, o, e), TreeOK(e),
           o.insert, InsertFits(d, i, e)
    PROVE  AtHome(e)
  <1>1. Elem(e, i) = i
    BY MoreIs
  <1>2. \A x \in ToSet(d.order) : Elem(e, x) = Elem(d, x) /\ (IsInc(e, x) <=> IsInc(d, x))
    BY MoreIs
  <1>3. ASSUME NEW g \in Elements(e, DOMAIN e.ops), NEW x \in ToSet(RegisterOf(e, g))
        PROVE  Elem(e, x) = g \/ IsInc(e, x)
    <2>1. CASE g = i
      BY <1>1, <1>2, <1>3, <2>1, InsertRegister
    <2>2. CASE g # i
      <3>1. g \in Elements(d, DOMAIN d.ops) /\ x \in ToSet(d.order) /\ x \in ToSet(RegisterOf(d, g))
        BY <1>3, <2>2, InsertRegister
      <3> QED
        BY <1>2, <3>1 DEF AtHome, HomeOn
    <2> QED
      BY <2>1, <2>2
  <1> QED
    BY <1>3 DEF AtHome, HomeOn

\* So does a batch.
LEMMA BatchKeepsHome ==
    ASSUME RowsInv, NEW r \in Replica, NEW B \in SUBSET (DOMAIN made \ Held(r)),
           NEW d, GotBatch(r, B, d), AtHome(doc[r]), NEW s, OrderOf(d, s),
           NEW c, c.ops = d.ops, TreeOK(c), RowsAre(d, B, s, c.order)
    PROVE  AtHome(c)
  <1>1. BatchOK(d, B) /\ OpsOK(d) /\ DOMAIN d.ops = Held(r) \cup B /\ DOMAIN d.ops \ B = Held(r)
    BY BatchFinds DEF TreeBefore
  <1>2. Elements(c, DOMAIN c.ops) = Elements(d, DOMAIN d.ops)
    BY DEF Elements
  <1>3. \A x \in DOMAIN d.ops : Elem(c, x) = Elem(d, x) /\ (IsInc(c, x) <=> IsInc(d, x))
    BY DEF Elem, IsInc
  <1>4. \A x \in Held(r) : Elem(doc[r], x) = Elem(d, x) /\ (IsInc(doc[r], x) <=> IsInc(d, x))
    <2>1. \A x \in Held(r) : doc[r].ops[x] = d.ops[x]
      BY DocIs DEF GotBatch
    <2> QED
      BY <2>1 DEF Elem, IsInc
  <1>5. ASSUME NEW e \in Elements(d, DOMAIN d.ops), NEW x \in ToSet(RegisterOf(c, e))
        PROVE  Elem(c, x) = e \/ IsInc(c, x)
    <2>1. x \in ToSet(OnElement(d, B, e))
      BY <1>1, <1>5, RegisterAfter
    <2>2. x \in DOMAIN d.ops /\ (x \in B => Elem(d, x) = e)
          /\ (x \notin B => x \in ToSet(RegisterOf(d, e)) /\ x \in ToSet(d.order))
      BY <1>1, <1>5, <2>1, OnElementRows
    <2>3. ASSUME x \notin B PROVE Elem(d, x) = e \/ IsInc(d, x)
      <3>1. x \in Held(r) /\ x \in ToSet(RegisterOf(d, e))
        BY <1>1, <2>2, <2>3
      <3>2. e \in Elements(d, Held(r))
        <4>1. CASE object = "list"
          <5>1. RegisterOf(d, e) # <<>>
            <6>1. RegisterOf(d, e) \in Seq(DOMAIN d.ops \ B)
              BY <1>1, RegisterHas DEF BatchOK
            <6> QED
              BY <3>1, <6>1, SetOfSeq
          <5>2. e \in Held(r) /\ d.ops[e].insert
            BY <1>1, <4>1, <5>1, RegisterHas DEF BatchOK
          <5> QED
            BY <4>1, <5>2 DEF Elements
        <4>2. CASE object # "list"
          BY <1>5, <4>2 DEF Elements
        <4> QED
          BY <4>1, <4>2
      <3>3. ToSet(RegisterOf(d, e)) = ToSet(RegisterOf(doc[r], e)) /\ e \in Elements(doc[r], Held(r))
        BY <3>2, RegistersAsBefore
      <3>4. Elem(doc[r], x) = e \/ IsInc(doc[r], x)
        BY <3>1, <3>3 DEF AtHome, HomeOn, Held
      <3> QED
        BY <1>4, <3>1, <3>4
    <2> QED
      BY <1>3, <2>2, <2>3
  <1> QED
    BY <1>2, <1>5 DEF AtHome, HomeOn

\* A row behind one of the register of g is within it.
LEMMA RowBehind ==
    ASSUME NEW d, TreeOK(d), object = "list", NEW i, NEW o, NEW e, OneMore(d, i, o, e),
           NEW g \in Elements(d, DOMAIN d.ops), NEW n \in 1 .. Len(d.order),
           d.order[n] \in ToSet(RegisterOf(d, g)), e.order = InsertAt(d.order, n + 1, i)
    PROVE  RowAmong(d, i, e.order) /\ Within(d, g, i, e.order)
  <1> DEFINE w == e.order
             T == DOMAIN d.ops \cup {i}
             N == Len(d.order)
             E == Elements(d, DOMAIN d.ops)
  <1>1. OpsOK(d) /\ RowsOK(d, DOMAIN d.ops)
    BY DEF TreeOK
  <1>2. d.order \in Seq(DOMAIN d.ops) /\ Distinct(d.order) /\ N \in Nat /\ DOMAIN d.order = 1 .. N
    BY <1>1, LenProperties DEF RowsOK
  <1>3. d.order \in Seq(T) /\ i \in T /\ i \notin ToSet(d.order)
    BY <1>2, MoreIs
  <1>4. w = InsertAt(d.order, n + 1, i) /\ n + 1 \in 1 .. N + 1
    BY <1>2
  <1>5. d.order[n] \in ToSet(d.order)
    BY <1>2, SetOfSeq
  <1>6. Lies(d, E, g, d.order[n])
    BY <1>1, <1>5, LiesIs
  <1> HIDE DEF w, T, E
  <1>7. /\ ToSet(w) = ToSet(d.order) \cup {i}
        /\ \A x, y \in ToSet(d.order) : Precedes(w, x, y) <=> Precedes(d.order, x, y)
    BY <1>2, <1>3, <1>4, InsertAtHas
  <1>8. \A m \in 1 .. N : Precedes(w, d.order[m], i) <=> m < n + 1
    BY <1>2, <1>3, <1>4, InsertAtHas
  <1>9. \A m \in 1 .. N : Precedes(w, i, d.order[m]) <=> n + 1 <= m
    BY <1>2, <1>3, <1>4, InsertAtHas
  <1>10. Precedes(w, g, i)
    <2>1. CASE d.order[n] = g
      <3>1. n < n + 1
        BY <1>2
      <3> QED
        BY <1>8, <2>1, <3>1
    <2>2. CASE Precedes(d.order, g, d.order[n])
      <3>1. PICK m, l \in DOMAIN d.order : m < l /\ d.order[m] = g /\ d.order[l] = d.order[n]
        BY <2>2 DEF Precedes
      <3>2. l = n
        BY <1>2, <3>1 DEF Distinct
      <3>3. m \in 1 .. N /\ m < n + 1
        BY <1>2, <3>1, <3>2
      <3> QED
        BY <1>8, <3>1, <3>3
    <2> QED
      BY <1>6, <2>1, <2>2 DEF Lies
  <1>11. ASSUME NEW z \in E, z # g, Precedes(d.order, g, z) PROVE Precedes(w, i, z)
    <2>1. Precedes(d.order, d.order[n], z)
      BY <1>6, <1>11 DEF Lies
    <2>2. PICK l, m \in DOMAIN d.order : l < m /\ d.order[l] = d.order[n] /\ d.order[m] = z
      BY <2>1 DEF Precedes
    <2>3. l = n
      BY <1>2, <2>2 DEF Distinct
    <2>4. m \in 1 .. N /\ n + 1 <= m
      BY <1>2, <2>2, <2>3
    <2> QED
      BY <1>9, <2>2, <2>4
  <1> QED
    BY <1>7, <1>10, <1>11 DEF RowAmong, Within, w, E

\* The last of the rows that are found is one of them.
LEMMA WinnerIn ==
    ASSUME NEW d, NEW T, d.order \in Seq(T), NEW found \in SUBSET ToSet(d.order), found # {}
    PROVE  Winner(d, found) \in found
  <1> DEFINE M == {n \in DOMAIN d.order : d.order[n] \in found}
  <1>1. Len(d.order) \in Nat /\ DOMAIN d.order = 1 .. Len(d.order)
    BY LenProperties
  <1>2. PICK y \in found : TRUE
    OBVIOUS
  <1>3. PICK n \in 1 .. Len(d.order) : d.order[n] = y
    BY <1>2, SetOfSeq
  <1>4. M # {} /\ M \in SUBSET Nat /\ \A j \in M : j <= Len(d.order)
    BY <1>1, <1>2, <1>3
  <1>5. Max(M) \in M
    <2> HIDE DEF M
    <2> QED
      BY <1>1, <1>4, MaxIs
  <1>6. Winner(d, found) = d.order[Max(M)]
    BY DEF Winner
  <1> QED
    BY <1>5, <1>6

\* What is found at the index k is of the element g, and the rows around it end in
\* the register of g.
FoundAt(d, S, k, g) ==
    /\ g \in Elements(d, DOMAIN d.ops)
    /\ RefAt(d, At(Found(d, S), k)) = g
    /\ \A y \in At(Found(d, S), k) : y \in ToSet(d.order) /\ Elem(d, y) = g
    /\ \E a, b \in 1 .. Len(d.order) :
           /\ b \in a .. Len(d.order)
           /\ RangeAt(d, S, k) = SubSeq(d.order, a, b)
           /\ d.order[b] \in ToSet(RegisterOf(d, g))

\* By the index of winners ...
LEMMA FoundAtTop ==
    ASSUME NEW d, TreeOK(d), AtHome(d), SeenOK(d), d.top \subseteq d.vis, object = "list", NEW k,
           NEW found, found = At(Found(d, {}), k), found # {}
    PROVE  \E g : FoundAt(d, {}, k, g)
  <1> DEFINE tops == Only(d.order, d.top)
             G == Registers(d)
             F == Found(d, {})
  <1>1. OpsOK(d) /\ RowsOK(d, DOMAIN d.ops)
    BY DEF TreeOK
  <1>2. d.order \in Seq(DOMAIN d.ops) /\ Distinct(d.order) /\ Len(d.order) \in Nat
    BY <1>1, LenProperties DEF RowsOK
  <1>3. F = [n \in DOMAIN tops |-> d.vis \cap ToSet(Around(G, tops[n]))]
    BY DEF Found
  <1>4. k \in DOMAIN F /\ found = F[k]
    BY DEF At
  <1>5. tops \in Seq(DOMAIN d.ops) /\ ToSet(tops) = ToSet(d.order) \cap d.top
    BY <1>2, OnlyHas DEF Keeps
  <1> HIDE DEF F, tops
  <1>6. k \in DOMAIN tops /\ found = d.vis \cap ToSet(Around(G, tops[k]))
    BY <1>3, <1>4
  <1>7. PICK x : x = tops[k]
    OBVIOUS
  <1>8. x \in ToSet(d.order)
    BY <1>5, <1>6, <1>7, SetOfSeq
  <1>9. PICK g, a, b : IsAround(d, x, g, a, b)
    BY <1>8, RegisterAround
  <1>10. g \in Elements(d, DOMAIN d.ops) /\ found = d.vis \cap ToSet(RegisterOf(d, g))
    BY <1>6, <1>7, <1>9, RegisterAtHas DEF IsAround
  <1>11. \A y \in found : y \in ToSet(d.order) /\ Elem(d, y) = g /\ y \in ToSet(RegisterOf(d, g))
    BY <1>10 DEF SeenOK, AtHome, HomeOn
  <1>12. PICK u : u = Winner(d, found)
    OBVIOUS
  <1>13. u \in found
    BY <1>2, <1>11, <1>12, WinnerIn
  <1>14. u \in ToSet(d.order) /\ u \in ToSet(RegisterOf(d, g))
    BY <1>11, <1>13
  <1>15. PICK h, p, q : IsAround(d, u, h, p, q)
    BY <1>14, RegisterAround
  <1>16. RegisterAt(d, h, p, q) /\ u \in ToSet(RegisterOf(d, h)) /\ Around(G, u) = SubSeq(d.order, p, q)
    BY <1>15 DEF IsAround
  <1>17. h = g
    BY <1>1, <1>14, <1>16, RegistersPart
  <1>18. p \in 1 .. Len(d.order) /\ q \in 1 .. Len(d.order) /\ q \in p .. Len(d.order)
    BY <1>16 DEF RegisterAt, Block
  <1>19. d.order[q] \in ToSet(RegisterOf(d, g))
    <2>1. q \in p .. q
      BY <1>2, <1>18
    <2> QED
      BY <1>16, <1>17, <2>1, RegisterAtHas
  <1>20. RangeAt(d, {}, k) = SubSeq(d.order, p, q)
    BY <1>4, <1>12, <1>16 DEF RangeAt, F
  <1>21. RefAt(d, found) = g
    BY <1>11 DEF RefAt, ElemOf
  <1> QED
    BY <1>10, <1>11, <1>18, <1>19, <1>20, <1>21 DEF FoundAt

\* The row z comes after the row x of the register of g and before the next element.
LEMMA LaterInRegister ==
    ASSUME NEW d, TreeOK(d), object = "list", NEW g \in Elements(d, DOMAIN d.ops),
           NEW m \in 1 .. Len(d.order), d.order[m] \in ToSet(RegisterOf(d, g)),
           NEW n \in 1 .. Len(d.order), m <= n,
           \A l \in m .. n : d.order[l] \in Elements(d, DOMAIN d.ops) => d.order[l] = g
    PROVE  d.order[n] \in ToSet(RegisterOf(d, g))
  <1> DEFINE N == Len(d.order)
             E == Elements(d, DOMAIN d.ops)
             x == d.order[m]
             z == d.order[n]
  <1>1. OpsOK(d) /\ RowsOK(d, DOMAIN d.ops)
    BY DEF TreeOK
  <1>2. d.order \in Seq(DOMAIN d.ops) /\ Distinct(d.order) /\ N \in Nat /\ DOMAIN d.order = 1 .. N
    BY <1>1, LenProperties DEF RowsOK
  <1>3. x \in ToSet(d.order) /\ z \in ToSet(d.order)
    BY <1>2, SetOfSeq
  <1>4. Lies(d, E, g, x)
    BY <1>1, <1>3, LiesIs
  <1>5. CASE m = n
    BY <1>5
  <1>6. CASE m # n
    <2>1. Precedes(d.order, x, z)
      <3>1. m < n
        BY <1>2, <1>6
      <3> QED
        BY <1>2, <3>1 DEF Precedes
    <2>2. Precedes(d.order, g, z)
      BY <1>2, <1>4, <2>1, PrecedesIsOrder DEF Lies
    <2>3. ASSUME NEW f \in E, f # g, Precedes(d.order, g, f) PROVE Precedes(d.order, z, f)
      <3>1. Precedes(d.order, x, f)
        BY <1>4, <2>3 DEF Lies
      <3>2. PICK l, k \in DOMAIN d.order : l < k /\ d.order[l] = x /\ d.order[k] = f
        BY <3>1 DEF Precedes
      <3>3. l = m
        BY <1>2, <3>2 DEF Distinct
      <3>4. k \in 1 .. N /\ m <= k
        BY <1>2, <3>2, <3>3
      <3>5. ~(k \in m .. n)
        BY <2>3, <3>2
      <3>6. n < k
        BY <1>2, <3>4, <3>5
      <3> QED
        BY <1>2, <3>2, <3>6 DEF Precedes
    <2>4. Lies(d, E, g, z)
      BY <2>2, <2>3 DEF Lies
    <2> QED
      BY <1>1, <1>3, <2>4, LiesIs
  <1> QED
    BY <1>5, <1>6

\* ... or operation by operation, at any heads.
LEMMA FoundAtHeads ==
    ASSUME NEW d, TreeOK(d), AtHome(d), object = "list", NEW S, S # {}, NEW k,
           NEW found, found = At(Found(d, S), k), found # {}
    PROVE  \E g : FoundAt(d, S, k, g)
  <1> DEFINE N == Len(d.order)
  <1>1. OpsOK(d) /\ RowsOK(d, DOMAIN d.ops)
    BY DEF TreeOK
  <1>2. d.order \in Seq(DOMAIN d.ops) /\ Distinct(d.order) /\ N \in Nat /\ DOMAIN d.order = 1 .. N
    BY <1>1, LenProperties DEF RowsOK
  <1>3. Changes(d) \in SUBSET (1 .. N) /\ Runs(d) = Grouped(d, Changes(d))
    BY <1>2 DEF Changes, Runs
  <1>4. Found(d, S) = Seen(d, S, Grouped(d, Changes(d)))
    BY <1>3 DEF Found
  <1>5. PICK w \in ToSet(Grouped(d, Changes(d))) : found = Visible(d, S) \cap ToSet(w)
    BY <1>2, <1>3, <1>4, SeenIs
  <1>6. PICK a, b \in 1 .. N : Block(d, Changes(d), a, b) /\ w = SubSeq(d.order, a, b)
    BY <1>2, <1>3, <1>5, GroupedIs
  <1>7. PICK g : g = Elem(d, d.order[a])
    OBVIOUS
  <1>8. \A y \in found : y \in ToSet(d.order) /\ Elem(d, y) = g /\ ~IsInc(d, y)
    <2> SUFFICES ASSUME NEW y \in found PROVE y \in ToSet(d.order) /\ Elem(d, y) = g /\ ~IsInc(d, y)
      OBVIOUS
    <2>1. b \in a .. N
      BY <1>6 DEF Block
    <2>2. PICK n \in a .. b : d.order[n] = y
      BY <1>2, <1>5, <1>6, <2>1, PartHas
    <2>3. Elem(d, y) = g
      BY <1>2, <1>6, <1>7, <2>2, RunIs
    <2>4. n \in 1 .. N
      BY <1>2, <2>1, <2>2
    <2>5. y \in ToSet(d.order)
      BY <1>2, <2>2, <2>4, SetOfSeq
    <2>6. ~IsInc(d, y)
      BY <1>5 DEF Visible, IsVisibleAt
    <2> QED
      BY <2>3, <2>5, <2>6
  <1>9. PICK u : u = Winner(d, found)
    OBVIOUS
  <1>10. u \in found
    BY <1>2, <1>8, <1>9, WinnerIn
  <1>11. g \in Elements(d, DOMAIN d.ops) /\ u \in ToSet(RegisterOf(d, g))
    BY <1>8, <1>10, HomeIs
  <1>12. PICK n \in 1 .. N : d.order[n] = u
    BY <1>2, <1>8, <1>10, SetOfSeq
  <1>13. PICK p, q \in 1 .. N : /\ Block(d, Changes(d), p, q) /\ n \in p .. q
                                /\ Around(Runs(d), u) = SubSeq(d.order, p, q)
    <2>1. \E c \in Changes(d) : c <= n
      BY <1>2, <1>12 DEF Changes
    <2>2. \E p, q \in 1 .. N : /\ Block(d, Changes(d), p, q) /\ n \in p .. q
                              /\ Around(Grouped(d, Changes(d)), d.order[n]) = SubSeq(d.order, p, q)
      BY <1>2, <1>3, <2>1, AroundIs
    <2> QED
      BY <1>3, <1>12, <2>2
  <1>14. q \in p .. N
    BY <1>13 DEF Block
  <1>15. d.order[q] \in ToSet(RegisterOf(d, g))
    <2>1. \A l \in p .. q : Elem(d, d.order[l]) = g
      <3>1. \A l \in p .. q : Elem(d, d.order[l]) = Elem(d, d.order[p])
        BY <1>2, <1>13, RunIs
      <3> QED
        BY <1>8, <1>10, <1>12, <1>13, <3>1
    <2>2. \A l \in n .. q : d.order[l] \in Elements(d, DOMAIN d.ops) => d.order[l] = g
      <3> SUFFICES ASSUME NEW l \in n .. q, d.order[l] \in Elements(d, DOMAIN d.ops) PROVE d.order[l] = g
        OBVIOUS
      <3>1. l \in p .. q
        BY <1>2, <1>12, <1>13, <1>14
      <3>2. d.ops[d.order[l]].insert
        BY DEF Elements
      <3> QED
        BY <2>1, <3>1, <3>2 DEF Elem
    <2>3. q \in 1 .. N /\ n <= q
      BY <1>2, <1>12, <1>13
    <2> QED
      BY <1>11, <1>12, <2>2, <2>3, LaterInRegister
  <1>16. RangeAt(d, S, k) = SubSeq(d.order, p, q)
    <2>1. k \in DOMAIN Found(d, S) /\ found = Found(d, S)[k]
      BY DEF At
    <2> QED
      BY <1>9, <1>13, <2>1 DEF RangeAt
  <1>17. RefAt(d, found) = g
    BY <1>8 DEF RefAt, ElemOf
  <1> QED
    BY <1>8, <1>11, <1>14, <1>15, <1>16, <1>17 DEF FoundAt

\* An edit of what is found has its row within the register of its element, whose
\* rows it overwrites, also when rows have come apart.
LEMMA UpdateIsHome ==
    ASSUME RowsInv, ~MixedIncrements, NEW r \in Replica, NEW S \in Scopes(r), NEW o, NEW e,
           Edits(r, S, o, e), UpdatesRow(r, S, o, e), NEW i, i = NextId(r, S), AtHome(doc[r])
    PROVE  /\ UpdatesWithin(doc[r], i, o, e) /\ o.ref \in Elements(doc[r], Held(r))
           /\ \A p \in o.pred : p \in ToSet(doc[r].order) /\ Elem(doc[r], p) = o.ref
  <1> DEFINE d == doc[r]
             N == Len(d.order)
  <1>1. /\ TreeOK(d) /\ OpsOK(d) /\ RowsOK(d, DOMAIN d.ops)
        /\ SeenOK(d) /\ d.top \subseteq d.vis /\ DOMAIN d = Fields /\ DOMAIN d.ops = Held(r)
    BY DocIs
  <1>2. OneMore(d, i, o, e)
    BY EditAdds
  <1>3. o.pred \subseteq DOMAIN d.ops /\ (o.type = "inc" => \A p \in o.pred : IsCounter(d, p))
    BY EditMeets
  <1>4. PICK k : /\ ~o.insert
                 /\ At(Found(d, S), k) # {} \/ (object = "map" /\ k = 1)
                 /\ o.ref = RefAt(d, At(Found(d, S), k))
                 /\ o.pred \subseteq At(Found(d, S), k)
                 /\ e = Updated(d, i, o, S, RangeAt(d, S, k))
    BY DEF UpdatesRow
  <1> DEFINE rows == RangeAt(d, S, k)
             found == At(Found(d, S), k)
  <1> HIDE DEF d
  <1>5. e.order = IF o.type = "del" THEN d.order ELSE InsertAt(d.order, EndOf(d, rows) + 1, i)
    BY <1>1, <1>2, <1>3, <1>4, UpdatedHas DEF OneMore
  <1>6. d.order \in Seq(DOMAIN d.ops) /\ Distinct(d.order) /\ N \in Nat /\ DOMAIN d.order = 1 .. N
    BY <1>1, LenProperties DEF RowsOK
  <1>7. CASE object = "list"
    <2>1. found # {} /\ AtHome(d)
      BY <1>4, <1>7 DEF d
    <2>2. PICK g : FoundAt(d, S, k, g)
      <3>1. CASE S = {}
        BY <1>1, <1>7, <2>1, <3>1, FoundAtTop
      <3>2. CASE S # {}
        BY <1>1, <1>7, <2>1, <3>2, FoundAtHeads
      <3> QED
        BY <3>1, <3>2
    <2>3. /\ g \in Elements(d, DOMAIN d.ops) /\ RefAt(d, found) = g
          /\ \A y \in found : y \in ToSet(d.order) /\ Elem(d, y) = g
      BY <2>2 DEF FoundAt
    <2>4. PICK a, b \in 1 .. N : /\ b \in a .. N /\ rows = SubSeq(d.order, a, b)
                                 /\ d.order[b] \in ToSet(RegisterOf(d, g))
      BY <2>2 DEF FoundAt
    <2>5. rows # <<>> /\ Last(rows) = d.order[b]
      <3>1. SubSeq(d.order, a, b) \in Seq(DOMAIN d.ops)
        BY <1>6, <2>4, PartHas
      <3>2. Len(SubSeq(d.order, a, b)) = b - a + 1
        BY <1>6, <2>4, PartHas
      <3>3. \A j \in 1 .. b - a + 1 : SubSeq(d.order, a, b)[j] = d.order[a + j - 1]
        BY <1>6, <2>4, PartHas
      <3> HIDE DEF rows
      <3>4. Len(rows) = b - a + 1 /\ rows[b - a + 1] = d.order[b] /\ Len(rows) > 0
        BY <1>6, <2>4, <3>2, <3>3
      <3>5. rows # <<>>
        BY <3>4
      <3> QED
        BY <3>4, <3>5 DEF Last
    <2> HIDE DEF rows
    <2>6. EndOf(d, rows) = b
      <3>1. \A n \in DOMAIN d.order : d.order[n] = Last(rows) <=> n = b
        BY <1>6, <2>4, <2>5 DEF Distinct
      <3>2. b \in DOMAIN d.order
        BY <1>6, <2>4
      <3> QED
        BY <2>5, <3>1, <3>2 DEF EndOf
    <2>7. UpdatesWithin(d, i, o, e)
      <3>1. CASE o.type = "del"
        BY <1>4, <1>5, <3>1 DEF UpdatesWithin
      <3>2. CASE o.type # "del"
        <4>1. e.order = InsertAt(d.order, b + 1, i)
          BY <1>5, <2>6, <3>2
        <4>2. RowAmong(d, i, e.order) /\ Within(d, g, i, e.order)
          BY <1>1, <1>2, <1>7, <2>3, <2>4, <4>1, RowBehind
        <4> QED
          BY <1>4, <2>3, <3>2, <4>2 DEF UpdatesWithin
      <3> QED
        BY <3>1, <3>2
    <2> QED
      BY <1>1, <1>4, <2>3, <2>7 DEF d
  <1>8. CASE object # "list"
    <2>1. object = "map"
      BY <1>1, <1>8 DEF OpsOK
    <2>2. Updates(d, i, o, e)
      BY <1>8, UpdateFits DEF d
    <2>3. UpdatesWithin(d, i, o, e)
      BY <2>2 DEF Updates, UpdatesWithin, AtEndOf
    <2>4. o.ref = Head0 /\ Head0 \in Elements(d, Held(r))
      BY <1>4, <2>1 DEF RefAt, Elements
    <2>5. \A p \in o.pred : p \in ToSet(d.order)
      <3>1. d.vis \subseteq ToSet(d.order)
        BY <1>1 DEF SeenOK
      <3>2. At(Found(d, S), k) \subseteq ToSet(d.order)
        BY <1>6, <3>1, FoundInRows
      <3> QED
        BY <1>4, <3>2
    <2>6. \A p \in o.pred : Elem(d, p) = Head0
      BY <1>1, <1>3, <1>8, SeenOnKey
    <2> QED
      BY <2>3, <2>4, <2>5, <2>6 DEF d
  <1> QED
    BY <1>7, <1>8

\* Whatever an edit does, values stay with their elements.
LEMMA EditKeepsHome ==
    ASSUME RowsInv, ~MixedIncrements, NEW r \in Replica, NEW S \in Scopes(r), NEW o, NEW e,
           Edits(r, S, o, e), InsertsRow(r, S, o, e) \/ UpdatesRow(r, S, o, e), AtHome(doc[r])
    PROVE  AtHome(e)
  <1>1. PICK i : i = NextId(r, S)
    OBVIOUS
  <1>2. TreeOK(doc[r]) /\ OneMore(doc[r], i, o, e) /\ TreeOK(e)
    <2>1. RowPut(doc[r], i, o, e.order)
      BY <1>1, InsertRowIs, UpdateRowIs
    <2>2. OneMore(doc[r], i, o, e) /\ OpsOK(e) /\ TreeOK(doc[r])
      BY <1>1, EditAdds DEF RowsInv
    <2> QED
      BY <2>1, <2>2, RowAdded
  <1>3. CASE InsertsRow(r, S, o, e)
    <2>1. InsertFits(doc[r], i, e) /\ o.insert
      BY <1>1, <1>3, InsertFitsIn DEF InsertsRow
    <2> QED
      BY <1>2, <2>1, InsertKeepsHome
  <1>4. CASE UpdatesRow(r, S, o, e)
    <2>1. UpdatesWithin(doc[r], i, o, e) /\ o.ref \in Elements(doc[r], DOMAIN doc[r].ops)
      BY <1>1, <1>4, UpdateIsHome DEF Held
    <2> QED
      BY <1>2, <2>1, UpdateKeepsHome
  <1> QED
    BY <1>3, <1>4

\* A document is a record.
IsRecord(d) == d = [f \in DOMAIN d |-> d[f]]

LEMMA EditIsRecord ==
    ASSUME NEW r, NEW S, NEW o, NEW e, InsertsRow(r, S, o, e) \/ UpdatesRow(r, S, o, e)
    PROVE  IsRecord(e)
  <1>1. ASSUME NEW d, NEW i, NEW p PROVE IsRecord(WithRow(d, i, o, p))
    <2>1. PICK c : c = [d EXCEPT !.ops = With(@, i, o)]
      OBVIOUS
    <2>2. IsRecord(c)
      BY <2>1 DEF IsRecord
    <2>3. CASE o.type = "del"
      BY <2>1, <2>2, <2>3 DEF WithRow
    <2>4. CASE o.type = "inc"
      <3>1. WithRow(d, i, o, p) = [c EXCEPT !.order = InsertAt(@, p + 1, i)]
        BY <2>1, <2>4 DEF WithRow
      <3> QED
        BY <3>1 DEF IsRecord
    <2>5. CASE o.type \notin {"inc", "del"}
      <3>1. WithRow(d, i, o, p) =
                [c EXCEPT !.order = InsertAt(@, p + 1, i), !.vis = @ \cup {i}, !.top = @ \cup {i}]
        BY <2>1, <2>5 DEF WithRow
      <3> QED
        BY <3>1 DEF IsRecord
    <2> QED
      BY <2>3, <2>4, <2>5
  <1>2. ASSUME NEW d, NEW i PROVE IsRecord(WithSucc(d, i))
    BY DEF WithSucc, IsRecord
  <1>3. ASSUME NEW d, NEW rows PROVE IsRecord(TopReset(d, rows))
    BY DEF TopReset, IsRecord
  <1>4. ASSUME NEW d, NEW i, IsRecord(d) PROVE IsRecord(CounterExposed(d, i))
    BY <1>4 DEF CounterExposed, IsRecord
  <1>5. CASE InsertsRow(r, S, o, e)
    BY <1>1, <1>5 DEF InsertsRow
  <1>6. CASE UpdatesRow(r, S, o, e)
    <2>1. PICK d, i, rows : e = Updated(d, i, o, S, rows)
      BY <1>6 DEF UpdatesRow
    <2>2. PICK c : c = WithSucc(WithRow(d, i, o, EndOf(d, rows)), i)
      OBVIOUS
    <2>3. PICK b : b = IF S = {} THEN c ELSE TopReset(c, Append(rows, i))
      OBVIOUS
    <2>4. IsRecord(b)
      BY <1>2, <1>3, <2>2, <2>3
    <2>5. e = CounterExposed(b, i)
      BY <2>1, <2>2, <2>3 DEF Updated
    <2> QED
      BY <1>4, <2>4, <2>5
  <1> QED
    BY <1>5, <1>6

\* An operation overwrites rows of the element it refers to, an insert nothing and
\* a delete something.
OwnElement(i) ==
    LET o == made[i].o
    IN  /\ \A p \in o.pred :
               /\ made[p].o.type # "del"
               /\ o.ref = IF made[p].o.insert THEN p ELSE made[p].o.ref
        /\ o.insert => o.pred = {}
        /\ o.type = "del" => o.pred # {}

HomeInv ==
    /\ RowsInv
    /\ \A i \in DOMAIN made : OwnElement(i)
    /\ \A r \in Replica : AtHome(doc[r]) /\ IsRecord(doc[r])

\* So does what an edit makes.
LEMMA EditOwns ==
    ASSUME RowsInv, ~MixedIncrements, NEW r \in Replica, NEW S \in Scopes(r), NEW o, NEW e,
           Edits(r, S, o, e), InsertsRow(r, S, o, e) \/ UpdatesRow(r, S, o, e), AtHome(doc[r]),
           \A i \in DOMAIN made : OwnElement(i)
    PROVE  \A i \in DOMAIN made' : OwnElement(i)'
  <1>1. PICK i : i = NextId(r, S)
    OBVIOUS
  <1>2. OpInv /\ \A j \in DOMAIN made : RefersBack(j) /\ PastOK(j)
    BY DEF RowsInv, IndexInv, OpInv
  <1>3. /\ i \notin DOMAIN made /\ DOMAIN made' = DOMAIN made \cup {i} /\ made'[i].o = o
        /\ \A j \in DOMAIN made : made'[j] = made[j]
    BY <1>1, <1>2, EditMakes
  <1>4. ASSUME NEW j \in DOMAIN made PROVE OwnElement(j)'
    <2>1. made[j].o.pred \subseteq DOMAIN made
      BY <1>2 DEF RefersBack, PastOK, Earlier
    <2>2. made'[j] = made[j] /\ \A p \in made[j].o.pred : made'[p] = made[p]
      BY <1>3, <2>1
    <2>3. OwnElement(j)
      OBVIOUS
    <2> QED
      BY <2>2, <2>3 DEF OwnElement
  <1>5. OwnElement(i)'
    <2>1. CASE InsertsRow(r, S, o, e)
      <3>1. o.pred = {} /\ o.insert /\ o.type # "del"
        BY <2>1 DEF InsertsRow
      <3> QED
        BY <1>3, <3>1 DEF OwnElement
    <2>2. CASE UpdatesRow(r, S, o, e)
      <3>1. ~o.insert /\ (o.type = "del" => o.pred # {})
        BY <2>2 DEF UpdatesRow
      <3>2. \A p \in o.pred : p \in ToSet(doc[r].order) /\ Elem(doc[r], p) = o.ref
        BY <1>1, <2>2, UpdateIsHome
      <3>3. ASSUME NEW p \in o.pred
            PROVE  /\ made'[p].o.type # "del"
                   /\ o.ref = IF made'[p].o.insert THEN p ELSE made'[p].o.ref
        <4>1. p \in Held(r) /\ HasRow(doc[r], p) /\ doc[r].ops[p] = made[p].o
          <5>1. RowsOK(doc[r], DOMAIN doc[r].ops) /\ \A j \in Held(r) : doc[r].ops[j] = made[j].o
            BY DocIs
          <5> QED
            BY <3>2, <5>1 DEF RowsOK, Held
        <4>2. made'[p] = made[p]
          BY <1>2, <1>3, <4>1 DEF OpInv, DocOK
        <4> QED
          BY <3>2, <4>1, <4>2 DEF Elem, HasRow
      <3> QED
        BY <1>3, <3>1, <3>3 DEF OwnElement
    <2> QED
      BY <2>1, <2>2
  <1> QED
    BY <1>3, <1>4, <1>5

\* Whether values are with their elements is a matter of the document.
LEMMA HomeAsBefore ==
    ASSUME object' = object, NEW d, AtHome(d)
    PROVE  AtHome(d)'
  <1>1. /\ Elements(d, DOMAIN d.ops)' = Elements(d, DOMAIN d.ops)
        /\ \A e : RegisterOf(d, e)' = RegisterOf(d, e)
    BY SameRegisters
  <1> QED
    BY <1>1 DEF AtHome, HomeOn

\* One document is another, and the others are as they were.
LEMMA HomeStays ==
    ASSUME \A s \in Replica : AtHome(doc[s]), object' = object, NEW r \in Replica, NEW c, AtHome(c),
           \A s \in Replica : doc'[s] = IF s = r THEN c ELSE doc[s]
    PROVE  \A s \in Replica : AtHome(doc[s])'
  <1> SUFFICES ASSUME NEW s \in Replica PROVE AtHome(doc[s])'
    OBVIOUS
  <1>1. PICK d : d = doc'[s]
    OBVIOUS
  <1>2. AtHome(d)
    <2>1. CASE s = r
      BY <1>1, <2>1
    <2>2. CASE s # r
      BY <1>1, <2>2
    <2> QED
      BY <2>1, <2>2
  <1>3. AtHome(d)'
    BY <1>2, HomeAsBefore
  <1> QED
    BY <1>1, <1>3 DEF AtHome, HomeOn

\* So replicas start.
LEMMA InitHome == Init => HomeInv
  <1> SUFFICES ASSUME Init
               PROVE  HomeInv
    OBVIOUS
  <1>1. RowsInv /\ object \in {"map", "list"}
    BY InitInOrder, OpSetAssumption DEF Init
  <1>2. \A r \in Replica : AtHome(doc[r])
    BY InitInOrder DEF AtHome, HomeOn, RegOK
  <1>4. \A r \in Replica : IsRecord(doc[r])
    <2>1. IsRecord(EmptyDoc)
      BY DEF IsRecord, EmptyDoc
    <2>2. ASSUME NEW i, NEW type \in {"set", "counter"} PROVE IsRecord(FirstDoc(i, type, 0))
      <3> DEFINE o == Op(type, 0, TRUE, Head0, {})
      <3>1. o.type \notin {"inc", "del"}
        BY DEF Op
      <3> HIDE DEF o
      <3>2. PICK d : d = EmptyDoc
        OBVIOUS
      <3>3. FirstDoc(i, type, 0) = WithRow(d, i, o, 0)
        BY <3>2 DEF FirstDoc, o
      <3>4. IsRecord(WithRow(d, i, o, 0))
        BY <3>1 DEF WithRow, IsRecord
      <3> QED
        BY <3>3, <3>4
    <2>3. CASE object = "map"
      BY <2>1, <2>3 DEF Init
    <2>4. CASE object = "list"
      <3>1. PICK type, j : type \in {"set", "counter"} /\ doc = [s \in Replica |-> FirstDoc(j, type, 0)]
        BY <2>4 DEF Init
      <3> QED
        BY <2>2, <3>1
    <2> QED
      BY <1>1, <2>3, <2>4
  <1>3. ASSUME NEW i \in DOMAIN made PROVE OwnElement(i)
    <2>1. object = "list"
      <3>1. object = "map" => DOMAIN made = {}
        BY DEF Init
      <3> QED
        BY <1>1, <3>1
    <2>2. PICK type \in {"set", "counter"} :
              \E j : made = With(<<>>, j, [o |-> FirstDoc(j, type, 0).ops[j], past |-> {j}])
      BY <2>1 DEF Init
    <2> PICK j : made = With(<<>>, j, [o |-> FirstDoc(j, type, 0).ops[j], past |-> {j}])
      BY <2>2
    <2>3. FirstDoc(j, type, 0).ops[j] = Op(type, 0, TRUE, Head0, {})
      <3> DEFINE o == Op(type, 0, TRUE, Head0, {})
      <3>1. o.type \notin {"inc", "del"}
        BY DEF Op
      <3>2. DOMAIN EmptyDoc = Fields /\ EmptyDoc.ops = <<>>
        BY DEF EmptyDoc, Fields
      <3>3. FirstDoc(j, type, 0) = WithRow(EmptyDoc, j, o, 0)
        BY DEF FirstDoc
      <3> HIDE DEF o
      <3>4. FirstDoc(j, type, 0).ops = With(<<>>, j, o)
        BY <3>1, <3>2, <3>3 DEF WithRow, Fields
      <3> QED
        BY <3>4 DEF With, o
    <2>4. i = j /\ made[i].o = Op(type, 0, TRUE, Head0, {})
      <3>1. PICK x : x = [o |-> FirstDoc(j, type, 0).ops[j], past |-> {j}]
        OBVIOUS
      <3>2. x.o = Op(type, 0, TRUE, Head0, {})
        BY <2>3, <3>1
      <3>3. made = With(<<>>, j, x)
        BY <3>1
      <3>4. DOMAIN made = {j} /\ made[j] = x
        BY <3>3 DEF With
      <3> QED
        BY <3>2, <3>4
    <2>5. made[i].o.insert /\ made[i].o.pred = {} /\ made[i].o.type # "del"
      <3>1. PICK q : q = Op(type, 0, TRUE, Head0, {})
        OBVIOUS
      <3>2. q.insert /\ q.pred = {} /\ q.type = type /\ q = made[i].o
        BY <2>4, <3>1 DEF Op
      <3>3. type # "del"
        BY <2>2
      <3> QED
        BY <3>2, <3>3
    <2> QED
      BY <2>5 DEF OwnElement
  <1> QED
    BY <1>1, <1>2, <1>3, <1>4 DEF HomeInv

\* Every step keeps it so.
LEMMA StepHome ==
    ASSUME HomeInv, [Next]_vars, ~MixedIncrements
    PROVE  HomeInv'
  <1>1. RowsInv /\ OpInv /\ RowsInv'
    BY StepRows DEF HomeInv, RowsInv, IndexInv
  <1>2. ASSUME NEW r \in Replica, NEW S \in Scopes(r), NEW o, NEW e, Edits(r, S, o, e),
               InsertsRow(r, S, o, e) \/ UpdatesRow(r, S, o, e)
        PROVE  HomeInv'
    <2>1. AtHome(e) /\ IsRecord(e)
      BY <1>1, <1>2, EditKeepsHome, EditIsRecord DEF HomeInv
    <2>2. \A i \in DOMAIN made' : OwnElement(i)'
      BY <1>1, <1>2, EditOwns DEF HomeInv
    <2>3. \A s \in Replica : doc'[s] = IF s = r THEN e ELSE doc[s]
      BY <1>1, <1>2 DEF Edits, OpInv
    <2>4. object' = object
      BY <1>2 DEF Edits
    <2>5. \A s \in Replica : AtHome(doc[s])'
      BY <2>1, <2>3, <2>4, HomeStays DEF HomeInv
    <2>6. \A s \in Replica : IsRecord(doc'[s])
      BY <2>1, <2>3 DEF HomeInv
    <2> QED
      BY <1>1, <2>2, <2>5, <2>6 DEF HomeInv, IsRecord
  <1>3. ASSUME NEW r \in Replica, NEW B \in SUBSET (DOMAIN made \ Held(r)), Deliver(r, B)
        PROVE  HomeInv'
    <2>1. PICK d :
              /\ DOMAIN d = Fields
              /\ d.ops = [j \in Held(r) \cup B |-> made[j].o]
              /\ d.succ = doc[r].succ /\ d.vis = doc[r].vis
              /\ d.order = doc[r].order /\ d.top = doc[r].top
              /\ \A b \in B : made[b].past \subseteq Held(r) \cup B
              /\ doc' = [doc EXCEPT ![r] = Batched(d, B)]
              /\ DOMAIN Batched(d, B) = Fields
              /\ Batched(d, B).ops = d.ops
              /\ Batched(d, B).vis = (d.vis \ GoneWith(d, B)) \cup FreshOf(d, B)
              /\ Batched(d, B).order = RowsWith(d, B, ElementsWith(d, B))
              /\ Batched(d, B).top = TopWith(d, B, ElementsWith(d, B))
              /\ UNCHANGED <<object, made>>
      BY <1>1, <1>3, DeliverAdds
    <2>2. GotBatch(r, B, d)
      BY <2>1 DEF GotBatch
    <2>3. PICK c : c = Batched(d, B)
      OBVIOUS
    <2>4. /\ DOMAIN c = Fields /\ c.ops = d.ops
          /\ c.order = RowsWith(d, B, ElementsWith(d, B))
          /\ c.vis = (d.vis \ GoneWith(d, B)) \cup FreshOf(d, B)
          /\ c.top = TopWith(d, B, ElementsWith(d, B))
      BY <2>1, <2>3
    <2>5. PICK s : s = ElementsWith(d, B)
      OBVIOUS
    <2>6. OrderOf(d, s) /\ TreeOK(c) /\ RowsAre(d, B, s, c.order)
      <3>1. TreeBefore(d, B)
        BY <1>1, <2>2, BatchFinds
      <3>2. OrderOf(d, s)
        BY <2>5, <3>1, ElementsOrder
      <3> QED
        BY <1>1, <2>2, <2>4, <2>5, <3>2, BatchRows
    <2>7. AtHome(c)
      BY <1>1, <2>2, <2>4, <2>6, BatchKeepsHome DEF HomeInv
    <2>8. \A u \in Replica : doc'[u] = IF u = r THEN c ELSE doc[u]
      BY <1>1, <2>1, <2>3 DEF OpInv
    <2>9. object' = object /\ made' = made
      BY <2>1
    <2>10. \A u \in Replica : AtHome(doc[u])'
      BY <2>7, <2>8, <2>9, HomeStays DEF HomeInv
    <2>11. \A i \in DOMAIN made' : OwnElement(i)'
      BY <2>9 DEF HomeInv, OwnElement
    <2>12. \A u \in Replica : IsRecord(doc'[u])
      <3>1. IsRecord(c)
        BY <2>3 DEF Batched, IsRecord
      <3> QED
        BY <2>8, <3>1 DEF HomeInv
    <2> QED
      BY <1>1, <2>10, <2>11, <2>12 DEF HomeInv, IsRecord
  <1>4. CASE UNCHANGED vars
    <2>1. object' = object /\ doc' = doc /\ made' = made
      BY <1>4 DEF vars
    <2>2. \A i \in DOMAIN made' : OwnElement(i)'
      BY <2>1 DEF HomeInv, OwnElement
    <2>3. ASSUME NEW s \in Replica PROVE AtHome(doc[s])'
      <3>1. PICK d : d = doc[s]
        OBVIOUS
      <3>2. AtHome(d) /\ d = doc'[s]
        BY <2>1, <3>1 DEF HomeInv
      <3>3. AtHome(d)'
        BY <2>1, <3>2, HomeAsBefore
      <3> QED
        BY <3>2, <3>3 DEF AtHome, HomeOn
    <2>4. \A s \in Replica : IsRecord(doc[s])'
      BY <2>1 DEF HomeInv, IsRecord
    <2> QED
      BY <1>1, <2>2, <2>3, <2>4 DEF HomeInv
  <1>5. \/ \E r \in Replica : \E S \in Scopes(r) : \E o, e :
               /\ Edits(r, S, o, e)
               /\ InsertsRow(r, S, o, e) \/ UpdatesRow(r, S, o, e)
        \/ \E r \in Replica : \E B \in SUBSET (DOMAIN made \ Held(r)) : Deliver(r, B)
        \/ UNCHANGED vars
    <2>1. \/ \E r \in Replica : \E S \in Scopes(r) : \E o, e :
                 /\ Edits(r, S, o, e)
                 /\ InsertsRow(r, S, o, e) \/ UpdatesRow(r, S, o, e)
                 /\ Cardinality(DOMAIN made) < MaxOps
          \/ \E r \in Replica : \E B \in SUBSET (DOMAIN made \ Held(r)) : Deliver(r, B)
          \/ UNCHANGED vars
      BY <1>1, StepIs
    <2> QED
      BY <2>1
  <1> QED
    BY <1>2, <1>3, <1>4, <1>5

-----------------------------------------------------------------------------
(* Loading *)

\* A group of rows is a register.
LEMMA RegisterGroup ==
    ASSUME NEW d, TreeOK(d), NEW a \in 1 .. Len(d.order), NEW b \in 1 .. Len(d.order),
           Block(d, From(d), a, b)
    PROVE  \E g \in Elements(d, DOMAIN d.ops) : ToSet(SubSeq(d.order, a, b)) = ToSet(RegisterOf(d, g))
  <1>1. OpsOK(d) /\ RowsOK(d, DOMAIN d.ops)
    BY DEF TreeOK
  <1>2. d.order \in Seq(DOMAIN d.ops) /\ Len(d.order) \in Nat /\ DOMAIN d.order = 1 .. Len(d.order)
    BY <1>1, LenProperties DEF RowsOK
  <1>3. CASE object = "list"
    <2>1. PICK g : g = d.order[a]
      OBVIOUS
    <2>2. RegisterAt(d, g, a, b)
      BY <2>1 DEF RegisterAt
    <2>3. g \in Elements(d, DOMAIN d.ops) /\ RegisterOf(d, g) = SubSeq(d.order, a, b)
      BY <1>3, <2>2, RegisterAtHas
    <2> QED
      BY <2>3
  <1>4. CASE object # "list"
    <2>1. a = 1 /\ b \in a .. Len(d.order) /\ b = Len(d.order)
      <3>1. \A n : n \in From(d) => n = 1
        BY <1>4 DEF From
      <3> QED
        BY <1>2, <3>1 DEF Block
    <2>2. \A x : x \in ToSet(SubSeq(d.order, a, b)) <=> x \in ToSet(d.order)
      <3>1. \A x : x \in ToSet(SubSeq(d.order, a, b)) <=> \E n \in a .. b : d.order[n] = x
        BY <1>2, <2>1, PartHas
      <3>2. \A x : x \in ToSet(d.order) <=> \E n \in 1 .. Len(d.order) : d.order[n] = x
        BY <1>2, SetOfSeq
      <3> QED
        BY <2>1, <3>1, <3>2
    <2>3. ToSet(RegisterOf(d, Head0)) = ToSet(d.order)
      BY <1>1, <1>4, MapRegister
    <2>4. Head0 \in Elements(d, DOMAIN d.ops)
      BY <1>4 DEF Elements
    <2>5. ToSet(SubSeq(d.order, a, b)) = ToSet(d.order)
      BY <2>2
    <2> QED
      BY <2>3, <2>4, <2>5
  <1> QED
    BY <1>3, <1>4

\* If rows lie together, the rows around a row are the register of its element.
LEMMA RunsAre ==
    ASSUME NEW d, TreeOK(d), Together(d)
    PROVE  /\ \A x \in ToSet(d.order) :
                  /\ Elem(d, x) \in Elements(d, DOMAIN d.ops) /\ x \in ToSet(RegisterOf(d, Elem(d, x)))
                  /\ Around(Runs(d), x) \in ToSet(Runs(d))
                  /\ ToSet(Around(Runs(d), x)) = ToSet(RegisterOf(d, Elem(d, x)))
           /\ \A w \in ToSet(Runs(d)) :
                  \E g \in Elements(d, DOMAIN d.ops) : ToSet(w) = ToSet(RegisterOf(d, g))
  <1> DEFINE N == Len(d.order)
  <1>1. OpsOK(d) /\ RowsOK(d, DOMAIN d.ops)
    BY DEF TreeOK
  <1>2. d.order \in Seq(DOMAIN d.ops) /\ Distinct(d.order) /\ N \in Nat /\ DOMAIN d.order = 1 .. N
    BY <1>1, LenProperties DEF RowsOK
  <1>3. From(d) \in SUBSET (1 .. N) /\ Runs(d) = Grouped(d, From(d))
    BY <1>2 DEF From, Together, Registers
  <1>4. ASSUME NEW w \in ToSet(Runs(d))
        PROVE  \E g \in Elements(d, DOMAIN d.ops) : ToSet(w) = ToSet(RegisterOf(d, g))
    <2>1. PICK a, b \in 1 .. N : Block(d, From(d), a, b) /\ w = SubSeq(d.order, a, b)
      BY <1>2, <1>3, GroupedIs
    <2> QED
      BY <2>1, RegisterGroup
  <1>5. ASSUME NEW x \in ToSet(d.order)
        PROVE  /\ Elem(d, x) \in Elements(d, DOMAIN d.ops) /\ x \in ToSet(RegisterOf(d, Elem(d, x)))
               /\ Around(Runs(d), x) \in ToSet(Runs(d))
               /\ ToSet(Around(Runs(d), x)) = ToSet(RegisterOf(d, Elem(d, x)))
    <2>1. PICK n \in 1 .. N : d.order[n] = x
      BY <1>2, SetOfSeq
    <2>2. \E c \in From(d) : c <= n
      <3>1. d.order # <<>> /\ 1 \in 1 .. N
        BY <1>2, <2>1
      <3>2. object = "list" => d.ops[d.order[1]].insert
        BY <1>1, <3>1 DEF RowsOK
      <3>3. 1 \in From(d)
        BY <1>2, <3>1, <3>2 DEF From
      <3> QED
        BY <2>1, <3>3
    <2>3. PICK a, b \in 1 .. N : /\ Block(d, From(d), a, b) /\ n \in a .. b
                                 /\ Around(Grouped(d, From(d)), d.order[n]) = SubSeq(d.order, a, b)
      BY <1>2, <1>3, <2>2, AroundIs
    <2>4. a \in From(d) /\ b \in a .. N
      BY <2>3 DEF Block
    <2>5. SubSeq(d.order, a, b) \in ToSet(Grouped(d, From(d)))
      <3>1. PICK c \in 1 .. N : Block(d, From(d), a, c) /\ SubSeq(d.order, a, c) \in ToSet(Grouped(d, From(d)))
        BY <1>2, <1>3, <2>4, GroupedIs
      <3>2. c \in a .. N
        BY <3>1 DEF Block
      <3>3. a \in a .. b /\ a \in a .. c
        BY <1>2, <2>4, <3>2
      <3>4. b = c
        BY <1>2, <1>3, <2>3, <2>4, <3>1, <3>3, BlocksApart
      <3> QED
        BY <3>1, <3>4
    <2>6. PICK g \in Elements(d, DOMAIN d.ops) : ToSet(SubSeq(d.order, a, b)) = ToSet(RegisterOf(d, g))
      BY <2>3, RegisterGroup
    <2>7. x \in ToSet(RegisterOf(d, g))
      <3>1. x \in ToSet(SubSeq(d.order, a, b))
        BY <1>2, <2>1, <2>3, <2>4, PartHas
      <3> QED
        BY <2>6, <3>1
    <2>8. Elem(d, x) = g
      <3>1. CASE object = "list"
        <4>1. AllAtHome(d)
          BY <3>1, TogetherIs
        <4> QED
          BY <1>1, <2>7, <4>1, RegistersPart DEF AllAtHome
      <3>2. CASE object # "list"
        <4>1. x \in DOMAIN d.ops
          BY <1>1 DEF RowsOK
        <4> QED
          BY <1>1, <3>2, <4>1 DEF OpsOK, Elem, Elements
      <3> QED
        BY <3>1, <3>2
    <2> QED
      BY <1>3, <2>1, <2>3, <2>5, <2>6, <2>7, <2>8
  <1> QED
    BY <1>4, <1>5

\* What is seen of groups: what is visible of each that shows something.
LEMMA SeenAre ==
    ASSUME NEW d, NEW T, d.order \in Seq(T), NEW from \in SUBSET (1 .. Len(d.order)), NEW S,
           NEW F, F = Seen(d, S, Grouped(d, from)), NEW V, V = Visible(d, S)
    PROVE  /\ \A k \in DOMAIN F : \E w \in ToSet(Grouped(d, from)) : F[k] = V \cap ToSet(w) /\ F[k] # {}
           /\ \A w \in ToSet(Grouped(d, from)) :
                  V \cap ToSet(w) # {} => \E k \in DOMAIN F : F[k] = V \cap ToSet(w)
  <1>1. PICK G : G = Grouped(d, from)
    OBVIOUS
  <1> DEFINE W == {g \in ToSet(G) : ToSet(g) \cap V # {}}
             shows == Only(G, W)
  <1>2. F = [k \in DOMAIN shows |-> V \cap ToSet(shows[k])]
    BY <1>1 DEF Seen
  <1>3. G \in Seq(ToSet(G))
    BY <1>1, GroupedSeq
  <1> HIDE DEF W
  <1>4. shows \in Seq(ToSet(G)) /\ ToSet(shows) = ToSet(G) \cap W
    BY <1>3, OnlyHas DEF Keeps
  <1> HIDE DEF shows
  <1>5. DOMAIN shows = 1 .. Len(shows) /\ (\A k \in 1 .. Len(shows) : shows[k] \in ToSet(shows))
        /\ \A w \in ToSet(shows) : \E k \in 1 .. Len(shows) : shows[k] = w
    BY <1>4, SetOfSeq
  <1>6. ASSUME NEW k \in DOMAIN F
        PROVE  \E w \in ToSet(G) : F[k] = V \cap ToSet(w) /\ F[k] # {}
    <2>1. F[k] = V \cap ToSet(shows[k]) /\ shows[k] \in ToSet(G) /\ shows[k] \in W
      BY <1>2, <1>4, <1>5
    <2>2. ToSet(shows[k]) \cap V # {}
      BY <2>1 DEF W
    <2> QED
      BY <2>1, <2>2
  <1>7. ASSUME NEW w \in ToSet(G), V \cap ToSet(w) # {}
        PROVE  \E k \in DOMAIN F : F[k] = V \cap ToSet(w)
    <2>1. w \in ToSet(shows)
      BY <1>4, <1>7 DEF W
    <2>2. PICK k \in DOMAIN shows : shows[k] = w
      BY <1>5, <2>1
    <2> QED
      BY <1>2, <2>2
  <1> QED
    BY <1>1, <1>6, <1>7

\* The last visible rows of registers are the winners (IndexBuilder).
LEMMA TopIsRebuilt ==
    ASSUME NEW d, TreeOK(d), RegOK(d), SeenOK(d), TopOK(d), Together(d), NEW S,
           Visible(d, S) \cap ToSet(d.order) = d.vis,
           NEW F, F = Seen(d, S, Runs(d))
    PROVE  {Winner(d, F[k]) : k \in DOMAIN F} = d.top
  <1> DEFINE V == Visible(d, S)
             E == Elements(d, DOMAIN d.ops)
  <1>1. OpsOK(d) /\ RowsOK(d, DOMAIN d.ops)
    BY DEF TreeOK
  <1>2. d.order \in Seq(DOMAIN d.ops) /\ From(d) \in SUBSET (1 .. Len(d.order)) /\ Runs(d) = Grouped(d, From(d))
        /\ ToSet(d.order) \subseteq DOMAIN d.ops
    <2>1. d.order \in Seq(DOMAIN d.ops) /\ DOMAIN d.order = 1 .. Len(d.order)
          /\ ToSet(d.order) \subseteq DOMAIN d.ops
      BY <1>1, LenProperties DEF RowsOK
    <2> QED
      BY <2>1 DEF From, Together, Registers
  <1> HIDE DEF V, E
  <1>3. PICK G : G = Runs(d)
    OBVIOUS
  <1>4. /\ \A k \in DOMAIN F : \E w \in ToSet(G) : F[k] = V \cap ToSet(w) /\ F[k] # {}
        /\ \A w \in ToSet(G) : V \cap ToSet(w) # {} => \E k \in DOMAIN F : F[k] = V \cap ToSet(w)
    <2>1. F = Seen(d, S, Grouped(d, From(d))) /\ V = Visible(d, S)
      BY <1>2 DEF V
    <2> QED
      BY <1>2, <1>3, <2>1, SeenAre
  <1>5. ASSUME NEW g \in E PROVE V \cap ToSet(RegisterOf(d, g)) = SeenOn(d, g)
    <2>1. d.vis \cap ToSet(RegisterOf(d, g)) = SeenOn(d, g)
      BY <1>5, SeenInRegister DEF E
    <2>2. ToSet(RegisterOf(d, g)) \subseteq ToSet(d.order)
      BY <1>1, RegisterHas
    <2> QED
      BY <2>1, <2>2 DEF V
  <1>6. ASSUME NEW k \in DOMAIN F PROVE Winner(d, F[k]) \in d.top
    <2>1. PICK w \in ToSet(G) : F[k] = V \cap ToSet(w) /\ F[k] # {}
      BY <1>4, <1>6
    <2>2. PICK g \in E : ToSet(w) = ToSet(RegisterOf(d, g))
      BY <1>3, <2>1, RunsAre DEF E
    <2>3. F[k] = SeenOn(d, g) /\ SeenOn(d, g) # {}
      BY <1>5, <2>1, <2>2
    <2>4. PICK u : u = Winner(d, SeenOn(d, g))
      OBVIOUS
    <2>5. u \in SeenOn(d, g) /\ \A y \in SeenOn(d, g) : ~Less(u, y)
      BY <2>2, <2>3, <2>4, WinnerIs DEF E
    <2>6. u \in d.vis /\ Elem(d, u) = g
      BY <2>5 DEF SeenOn
    <2>7. Wins(d, u)
      BY <2>5, <2>6 DEF Wins
    <2> QED
      BY <2>3, <2>4, <2>6, <2>7 DEF TopOK
  <1>7. ASSUME NEW x \in d.top PROVE \E k \in DOMAIN F : Winner(d, F[k]) = x
    <2>1. x \in d.vis /\ Wins(d, x) /\ x \in ToSet(d.order)
      BY <1>7 DEF TopOK, SeenOK
    <2>2. PICK g : g = Elem(d, x)
      OBVIOUS
    <2>3. g \in E /\ Around(G, x) \in ToSet(G) /\ ToSet(Around(G, x)) = ToSet(RegisterOf(d, g))
      BY <1>3, <2>1, <2>2, RunsAre DEF E
    <2>4. x \in SeenOn(d, g)
      BY <2>1, <2>2 DEF SeenOn
    <2>5. V \cap ToSet(Around(G, x)) = SeenOn(d, g)
      BY <1>5, <2>3
    <2>6. PICK k \in DOMAIN F : F[k] = SeenOn(d, g)
      BY <1>4, <2>3, <2>4, <2>5
    <2>7. PICK u : u = Winner(d, SeenOn(d, g))
      OBVIOUS
    <2>8. u \in SeenOn(d, g) /\ u \in ToSet(d.order) /\ \A y \in SeenOn(d, g) : ~Less(u, y)
      BY <2>3, <2>4, <2>7, WinnerIs DEF E
    <2>9. ~Less(u, x) /\ ~Less(x, u)
      BY <2>1, <2>2, <2>4, <2>8 DEF Wins
    <2>10. u \in Nat \X Nat /\ x \in Nat \X Nat
      BY <1>1, <1>2, <2>1, <2>8 DEF OpsOK
    <2>11. u = x
      BY <2>9, <2>10, LessIsOrder
    <2> QED
      BY <2>6, <2>7, <2>11
  <1> QED
    BY <1>6, <1>7

\* The successors of a document are what its operations overwrite.
LEMMA OverwrittenAre ==
    ASSUME RowsInv, NEW r \in Replica, NEW d, d = doc[r]
    PROVE  /\ \A s \in d.succ :
                  /\ s.by \in DOMAIN d.ops /\ s.of \in DOMAIN d.ops /\ s.of \in d.ops[s.by].pred
                  /\ \E q, c, x : s = [of |-> q, by |-> c, inc |-> x]
                  /\ s.inc = (IsInc(d, s.by) /\ IsCounter(d, s.of))
           /\ \A b \in DOMAIN d.ops : \A p \in d.ops[b].pred : \E s \in d.succ : s.of = p /\ s.by = b
  <1>1. DOMAIN d.ops = Held(r) /\ \A j \in Held(r) : d.ops[j] = made[j].o
    BY DocIs
  <1>2. d.succ = SuccOf(Held(r)) /\ Held(r) \subseteq DOMAIN made
    BY DEF RowsInv, IndexInv, IndexOK, OpInv, DocOK
  <1>3. ASSUME NEW b \in Held(r) PROVE made[b].o.pred \subseteq Held(r)
    <2>1. made[b].o.pred \subseteq made[b].past
      BY <1>2 DEF RowsInv, IndexInv, OpInv, RefersBack, Earlier
    <2>2. made[b].past \subseteq Held(r)
      BY DEF RowsInv, IndexInv, OpInv, DocOK
    <2> QED
      BY <2>1, <2>2
  <1>4. ASSUME NEW s \in d.succ
        PROVE  /\ s.by \in DOMAIN d.ops /\ s.of \in DOMAIN d.ops /\ s.of \in d.ops[s.by].pred
               /\ \E q, c, x : s = [of |-> q, by |-> c, inc |-> x]
               /\ s.inc = (IsInc(d, s.by) /\ IsCounter(d, s.of))
    <2>1. PICK b, p : /\ b \in Held(r) /\ p \in made[b].o.pred
                      /\ s = [of |-> p, by |-> b, inc |-> made[b].o.type = "inc"]
      BY <1>2 DEF SuccOf
    <2>2. p \in Held(r) /\ p \in d.ops[b].pred /\ (made[b].o.type = "inc" <=> IsInc(d, b))
      BY <1>1, <1>3, <2>1 DEF IsInc
    <2>3. made[b].o.type = "inc" => IsCounter(d, p)
      BY <1>1, <1>2, <2>1, <2>2 DEF RowsInv, IndexInv, IncrementsCounters, IsCounter
    <2>4. (made[b].o.type = "inc") = (IsInc(d, b) /\ IsCounter(d, p))
      BY <2>2, <2>3
    <2>5. s.of = p /\ s.by = b /\ s.inc = (made[b].o.type = "inc")
      BY <2>1
    <2>6. s.inc = (IsInc(d, s.by) /\ IsCounter(d, s.of))
      BY <2>4, <2>5
    <2>7. \E q, c, x : s = [of |-> q, by |-> c, inc |-> x]
      BY <2>1
    <2>8. s.by \in DOMAIN d.ops /\ s.of \in DOMAIN d.ops /\ s.of \in d.ops[s.by].pred
      BY <1>1, <2>1, <2>2, <2>5
    <2> QED
      BY <2>6, <2>7, <2>8, Zenon
  <1>5. ASSUME NEW b \in DOMAIN d.ops, NEW p \in d.ops[b].pred
        PROVE  \E s \in d.succ : s.of = p /\ s.by = b
    <2>1. PICK s : s = [of |-> p, by |-> b, inc |-> made[b].o.type = "inc"]
      OBVIOUS
    <2>2. s \in SuccOf(Held(r))
      BY <1>1, <2>1 DEF SuccOf
    <2> QED
      BY <1>2, <2>1, <2>2
  <1> QED
    BY <1>4, <1>5

\* A load finds the indexes as they are.
LEMMA LoadIs ==
    ASSUME OrderInv, HomeInv, NEW r \in Replica, NEW d, d = doc[r], Together(d)
    PROVE  Loaded(d) = d
  <1> DEFINE S == DOMAIN d.ops
             vis(c) == {i \in ToSet(d.order) : IsVisibleAt(c, i, S)}
             shows == Seen(d, S, Runs(d))
             top == {Winner(d, shows[k]) : k \in DOMAIN shows}
             again(s) == [s EXCEPT !.inc = IsInc(d, s.by) /\ IsCounter(d, s.of)]
  <1>1. RowsInv /\ IsRecord(d) /\ RegOK(d) /\ TopOK(d)
    BY DEF OrderInv, HomeInv, InOrder, Findable
  <1>2. TreeOK(d) /\ RowsOK(d, S) /\ SeenOK(d) /\ DOMAIN d = Fields /\ S = Held(r)
    BY <1>1, DocIs
  <1>3. {again(s) : s \in d.succ} = d.succ
    <2>1. ASSUME NEW s \in d.succ PROVE again(s) = s
      <3>1. PICK p, b, x : s = [of |-> p, by |-> b, inc |-> x]
        BY <1>1, OverwrittenAre
      <3>2. x = (IsInc(d, s.by) /\ IsCounter(d, s.of))
        BY <1>1, <3>1, OverwrittenAre
      <3>3. again(s) = [s EXCEPT !.inc = x]
        BY <3>2
      <3> QED
        BY <3>1, <3>3
    <2> QED
      BY <2>1
  <1>4. [d EXCEPT !.succ = d.succ] = d
    BY <1>1, <1>2 DEF IsRecord, Fields
  <1>5. vis(d) = d.vis
    <2>1. d.vis = {i \in S : HasRow(d, i) /\ IsVisibleAt(d, i, S)}
      BY <1>1, <1>2, IndexSaysVisible DEF RowsInv, IndexIsScope
    <2>2. ToSet(d.order) = {i \in S : HasRow(d, i)}
      BY <1>2 DEF RowsOK
    <2> QED
      BY <2>1, <2>2
  <1>6. top = d.top
    <2>1. Visible(d, S) \cap ToSet(d.order) = d.vis
      <3>1. CASE S = {}
        <4>1. Visible(d, S) = d.vis
          BY <3>1 DEF Visible
        <4> QED
          BY <1>2, <4>1 DEF SeenOK
      <3>2. CASE S # {}
        <4>1. Visible(d, S) = {i \in S : IsVisibleAt(d, i, S)}
          BY <3>2 DEF Visible
        <4>2. ToSet(d.order) \subseteq S
          BY <1>2 DEF RowsOK
        <4>3. Visible(d, S) \cap ToSet(d.order) = vis(d)
          BY <4>1, <4>2
        <4> QED
          BY <1>5, <4>3
      <3> QED
        BY <3>1, <3>2
    <2>2. PICK F : F = shows
      OBVIOUS
    <2>3. {Winner(d, F[k]) : k \in DOMAIN F} = d.top
      <3>1. PICK T : T = S
        OBVIOUS
      <3>2. Visible(d, T) \cap ToSet(d.order) = d.vis /\ F = Seen(d, T, Runs(d))
        BY <2>1, <2>2, <3>1
      <3> HIDE DEF S, shows
      <3> QED
        BY <1>1, <1>2, <3>2, TopIsRebuilt
    <2> QED
      BY <2>2, <2>3
  <1>7. Loaded(d) = [[d EXCEPT !.succ = {again(s) : s \in d.succ}] EXCEPT
                        !.vis = vis([d EXCEPT !.succ = {again(s) : s \in d.succ}]), !.top = top]
    BY DEF Loaded
  <1>8. PICK c : c = [d EXCEPT !.succ = {again(s) : s \in d.succ}]
    OBVIOUS
  <1> HIDE DEF again, vis, top, shows
  <1>9. c = d
    BY <1>3, <1>4, <1>8
  <1>10. Loaded(d) = [c EXCEPT !.vis = vis(c), !.top = top]
    BY <1>7, <1>8
  <1>11. Loaded(d) = [d EXCEPT !.vis = d.vis, !.top = d.top]
    BY <1>5, <1>6, <1>9, <1>10
  <1> QED
    BY <1>1, <1>2, <1>11 DEF IsRecord, Fields

\* A load finds the deletes that were made.
LEMMA DeletesComeBack ==
    ASSUME HomeInv, NEW r \in Replica, NEW d, d = doc[r], Together(d)
    PROVE  ComesBack(d)
  <1>1. RowsInv /\ TreeOK(d) /\ OpsOK(d) /\ RowsOK(d, DOMAIN d.ops)
    BY DocIs DEF HomeInv
  <1>2. PICK G : G = Runs(d)
    OBVIOUS
  <1> DEFINE deleted == {i \in DOMAIN d.ops : ~HasRow(d, i)}
             found == {s \in d.succ : s.by \notin ToSet(Around(G, s.of))}
  <1>3. \A x \in ToSet(d.order) :
            /\ Elem(d, x) \in Elements(d, DOMAIN d.ops) /\ x \in ToSet(RegisterOf(d, Elem(d, x)))
            /\ ToSet(Around(G, x)) = ToSet(RegisterOf(d, Elem(d, x)))
    BY <1>1, <1>2, RunsAre
  <1>4. ToSet(d.order) = {i \in DOMAIN d.ops : HasRow(d, i)}
    BY <1>1 DEF RowsOK
  <1>5. \A i \in DOMAIN d.ops : i \in DOMAIN made /\ d.ops[i] = made[i].o
    <2>1. DOMAIN d.ops = Held(r) /\ \A j \in Held(r) : d.ops[j] = made[j].o
      BY <1>1, DocIs
    <2>2. Held(r) \subseteq DOMAIN made
      BY <1>1 DEF RowsInv, IndexInv, OpInv, DocOK
    <2> QED
      BY <2>1, <2>2
  <1>6. ASSUME NEW i \in DOMAIN d.ops, NEW p \in d.ops[i].pred
        PROVE  p \in ToSet(d.order) /\ ~d.ops[i].insert /\ d.ops[i].ref = Elem(d, p)
    <2>1. p \in DOMAIN d.ops
      BY <1>1, <1>6, OverwrittenAre
    <2>2. i \in DOMAIN made /\ d.ops[i] = made[i].o /\ d.ops[p] = made[p].o
      BY <1>5, <2>1
    <2>3. OwnElement(i)
      BY <2>2 DEF HomeInv
    <2>4. /\ d.ops[p].type # "del" /\ ~d.ops[i].insert
          /\ d.ops[i].ref = IF d.ops[p].insert THEN p ELSE d.ops[p].ref
      BY <1>6, <2>2, <2>3 DEF OwnElement
    <2> QED
      BY <1>4, <2>1, <2>4 DEF HasRow, Elem
  <1>7. ASSUME NEW s \in found
        PROVE  \E i \in deleted : <<s.by, Elem(d, s.of)>> = <<i, d.ops[i].ref>>
    <2>1. s.by \in DOMAIN d.ops /\ s.of \in d.ops[s.by].pred
      BY <1>1, <1>7, OverwrittenAre
    <2>2. s.of \in ToSet(d.order) /\ ~d.ops[s.by].insert /\ d.ops[s.by].ref = Elem(d, s.of)
      BY <1>6, <2>1
    <2>3. ASSUME HasRow(d, s.by) PROVE FALSE
      <3>1. s.by \in ToSet(d.order) /\ Elem(d, s.by) = Elem(d, s.of)
        BY <1>4, <2>1, <2>2, <2>3 DEF Elem
      <3>2. s.by \in ToSet(Around(G, s.of))
        BY <1>3, <2>2, <3>1
      <3> QED
        BY <1>7, <3>2
    <2> QED
      BY <2>1, <2>2, <2>3
  <1>8. ASSUME NEW i \in deleted
        PROVE  \E s \in found : <<s.by, Elem(d, s.of)>> = <<i, d.ops[i].ref>>
    <2>1. PICK p : p \in d.ops[i].pred
      <3>1. i \in DOMAIN made /\ d.ops[i] = made[i].o
        BY <1>5, <1>8
      <3>2. OwnElement(i) /\ made[i].o.type = "del"
        BY <1>8, <3>1 DEF HomeInv, HasRow
      <3> QED
        BY <3>1, <3>2 DEF OwnElement
    <2>2. PICK s \in d.succ : s.of = p /\ s.by = i
      BY <1>1, <1>8, <2>1, OverwrittenAre
    <2>3. p \in ToSet(d.order) /\ d.ops[i].ref = Elem(d, p)
      BY <1>6, <1>8, <2>1
    <2>4. i \notin ToSet(Around(G, p))
      <3>1. ToSet(Around(G, p)) = ToSet(RegisterOf(d, Elem(d, p)))
        BY <1>3, <2>3
      <3>2. ToSet(RegisterOf(d, Elem(d, p))) \subseteq ToSet(d.order)
        BY <1>1, RegisterHas
      <3> QED
        BY <1>4, <1>8, <3>1, <3>2
    <2> QED
      BY <2>2, <2>3, <2>4
  <1>9. Rebuilt(d) = {<<s.by, Elem(d, s.of)>> : s \in found}
    BY <1>2 DEF Rebuilt
  <1> HIDE DEF found, deleted
  <1>10. Rebuilt(d) = {<<i, d.ops[i].ref>> : i \in deleted}
    BY <1>7, <1>8, <1>9
  <1> QED
    BY <1>10 DEF ComesBack, deleted

\* In the order of the invariant, with values at home.
LEMMA LoadFinds ==
    ASSUME OrderInv, HomeInv
    PROVE  LoadRebuilds
  <1> SUFFICES ASSUME NEW r \in Replica, Together(doc[r])
               PROVE  ComesBack(doc[r]) /\ Loaded(doc[r]) = doc[r]
    BY DEF LoadRebuilds
  <1>1. PICK d : d = doc[r]
    OBVIOUS
  <1>2. ComesBack(d) /\ Loaded(d) = d
    BY <1>1, DeletesComeBack, LoadIs
  <1> QED
    BY <1>1, <1>2

-----------------------------------------------------------------------------
(* Cursors *)

\* As many as there are numbers.
LEMMA CountTo ==
    ASSUME NEW n \in Nat, NEW f, \A k, l \in 1 .. n : f[k] = f[l] => k = l,
           NEW T, \A x : x \in T <=> \E k \in 1 .. n : f[k] = x
    PROVE  IsFiniteSet(T) /\ Cardinality(T) = n
  <1> DEFINE g == [k \in 1 .. n |-> f[k]]
  <1>1. g \in Surjection(1 .. n, T)
    BY DEF Surjection
  <1>2. g \in Injection(1 .. n, T)
    BY <1>1 DEF Surjection, Injection, IsInjective
  <1>3. IsFiniteSet(1 .. n) /\ Cardinality(1 .. n) = n
    BY FS_Interval
  <1> QED
    BY <1>1, <1>2, <1>3, FS_Surjection

\* The groups G are the rows a[k] to b[k], one after the other.
LaidOut(d, G, a, b) ==
    /\ \A k \in DOMAIN G : /\ a[k] \in 1 .. Len(d.order) /\ b[k] \in a[k] .. Len(d.order)
                           /\ G[k] = SubSeq(d.order, a[k], b[k])
    /\ \A k, l \in DOMAIN G : k < l => b[k] < a[l]

\* So are groups of rows.
LEMMA GroupsAre ==
    ASSUME NEW d, NEW T, d.order \in Seq(T), NEW from \in SUBSET (1 .. Len(d.order)),
           NEW G, G = Grouped(d, from)
    PROVE  /\ Len(G) \in Nat /\ DOMAIN G = 1 .. Len(G)
           /\ \E a, b : LaidOut(d, G, a, b)
  <1> DEFINE C == Cardinality(from)
             L == Len(d.order)
             a == [k \in 1 .. C |-> Nth(from, k)]
             b == [k \in 1 .. C |-> IF k < C THEN Nth(from, k + 1) - 1 ELSE L]
  <1>1. L \in Nat
    BY LenProperties
  <1>2. IsFiniteSet(from) /\ from \in SUBSET Nat
    <2>1. IsFiniteSet(1 .. L)
      BY <1>1, FS_Interval
    <2>2. 1 .. L \subseteq Nat
      BY <1>1
    <2> QED
      BY <2>1, <2>2, FS_Subset
  <1>3. /\ C \in Nat
        /\ \A k \in 1 .. C : Nth(from, k) \in from
        /\ \A k, l \in 1 .. C : Nth(from, k) < Nth(from, l) <=> k < l
    BY <1>2, NthIs
  <1>4. G = [k \in 1 .. C |-> SubSeq(d.order, Nth(from, k), IF k < C THEN Nth(from, k + 1) - 1 ELSE L)]
    BY DEF Grouped
  <1> HIDE DEF C, L
  <1>5. DOMAIN G = 1 .. C /\ \A k \in 1 .. C : G[k] = SubSeq(d.order, a[k], b[k])
    BY <1>4
  <1>6. Len(G) = C
    <2>1. G \in Seq(ToSet(G))
      BY GroupedSeq
    <2>2. Len(G) \in Nat /\ DOMAIN G = 1 .. Len(G)
      BY <2>1, LenProperties
    <2> QED
      BY <1>3, <1>5, <2>2
  <1>7. \A k \in 1 .. C : a[k] \in 1 .. L
    BY <1>3 DEF L
  <1>8. ASSUME NEW k \in 1 .. C PROVE b[k] \in a[k] .. L
    <2>1. CASE k < C
      <3>1. k + 1 \in 1 .. C /\ k < k + 1
        BY <1>3, <2>1
      <3>2. Nth(from, k) < Nth(from, k + 1) /\ Nth(from, k) \in 1 .. L /\ Nth(from, k + 1) \in 1 .. L
        BY <1>3, <3>1 DEF L
      <3> QED
        BY <1>1, <2>1, <3>2
    <2>2. CASE ~(k < C)
      BY <1>1, <1>7, <2>2
    <2> QED
      BY <2>1, <2>2
  <1>9. ASSUME NEW k \in 1 .. C, NEW l \in 1 .. C, k < l PROVE b[k] < a[l]
    <2>1. k < C /\ k + 1 \in 1 .. C /\ ~(l < k + 1)
      BY <1>3, <1>9
    <2>2. ~(Nth(from, l) < Nth(from, k + 1)) /\ Nth(from, l) \in 1 .. L /\ Nth(from, k + 1) \in 1 .. L
      BY <1>3, <2>1 DEF L
    <2>3. b[k] = Nth(from, k + 1) - 1 /\ a[l] = Nth(from, l)
      BY <2>1
    <2> QED
      BY <1>1, <2>2, <2>3
  <1> HIDE DEF a, b
  <1>10. LaidOut(d, G, a, b)
    BY <1>5, <1>7, <1>8, <1>9 DEF LaidOut, L
  <1> QED
    BY <1>3, <1>5, <1>6, <1>10 DEF L

\* The place of the row that is at n.
LEMMA PlaceOf ==
    ASSUME NEW d, NEW T, d.order \in Seq(T), Distinct(d.order), NEW n \in 1 .. Len(d.order)
    PROVE  PosOf(d, d.order[n]) = n
  <1>1. DOMAIN d.order = 1 .. Len(d.order)
    BY LenProperties
  <1> QED
    BY <1>1 DEF PosOf, Distinct

\* Row by row a cursor made for what is found leads back to it: what was found before
\* ends before it.
LEMMA SlowReturns ==
    ASSUME NEW d, NEW T, d.order \in Seq(T), Distinct(d.order), NEW S, S # {},
           NEW F, F = Seen(d, S, Runs(d)), NEW k \in DOMAIN F, NEW i, i = Winner(d, F[k])
    PROVE  k \in Nat /\ i \in S /\ FoundSlow(d, S, i) = [index |-> k - 1, visible |-> TRUE]
  <1> DEFINE V == Visible(d, S)
             N == Len(d.order)
             from == {n \in DOMAIN d.order : n = 1 \/ Elem(d, d.order[n]) # Elem(d, d.order[n - 1])}
             R == Runs(d)
             W == {g \in ToSet(R) : \E j \in ToSet(g) : IsVisibleAt(d, j, S)}
             G == Showing(d, S)
  <1>1. V = {j \in S : IsVisibleAt(d, j, S)} /\ \A j : IsVisibleAt(d, j, S) => j \in S
    BY DEF Visible, IsVisibleAt
  <1>2. N \in Nat /\ DOMAIN d.order = 1 .. N /\ \A n \in 1 .. N : d.order[n] \in ToSet(d.order)
    BY SetOfSeq
  <1>3. R = Grouped(d, from) /\ from \in SUBSET (1 .. N)
    BY <1>2 DEF Runs
  <1>4. W = {g \in ToSet(R) : ToSet(g) \cap V # {}} /\ G = Only(R, W)
    BY <1>1 DEF Showing
  <1>5. F = [m \in DOMAIN G |-> V \cap ToSet(G[m])]
    BY <1>4 DEF Seen
  <1> HIDE DEF V, W, R, G, from
  <1>6. R \in Seq(ToSet(R))
    BY <1>3, GroupedSeq
  <1>7. /\ Len(R) \in Nat /\ DOMAIN R = 1 .. Len(R)
        /\ \E a, b : LaidOut(d, R, a, b)
    BY <1>3, GroupsAre
  <1>8. PICK a, b : LaidOut(d, R, a, b)
    BY <1>7
  <1>9. /\ Len(G) \in Nat /\ DOMAIN G = 1 .. Len(G)
        /\ \E f : /\ \A m \in 1 .. Len(G) : f[m] \in 1 .. Len(R) /\ G[m] = R[f[m]] /\ R[f[m]] \in W
                  /\ \A n \in 1 .. Len(R) : R[n] \in W => \E m \in 1 .. Len(G) : f[m] = n
                  /\ \A m, l \in 1 .. Len(G) : f[m] < f[l] <=> m < l
    <2>1. PICK U : U = ToSet(R)
      OBVIOUS
    <2>2. R \in Seq(U)
      BY <1>6, <2>1
    <2>3. /\ Len(Only(R, W)) \in Nat /\ DOMAIN Only(R, W) = 1 .. Len(Only(R, W))
          /\ \E f : /\ \A m \in 1 .. Len(Only(R, W)) : f[m] \in 1 .. Len(R) /\ Only(R, W)[m] = R[f[m]] /\ R[f[m]] \in W
                    /\ \A n \in 1 .. Len(R) : R[n] \in W => \E m \in 1 .. Len(Only(R, W)) : f[m] = n
                    /\ \A m, l \in 1 .. Len(Only(R, W)) : f[m] < f[l] <=> m < l
      BY <2>2, OnlyIs
    <2> QED
      BY <1>4, <2>3
  <1>10. PICK f : /\ \A m \in 1 .. Len(G) : f[m] \in 1 .. Len(R) /\ G[m] = R[f[m]] /\ R[f[m]] \in W
                  /\ \A m, l \in 1 .. Len(G) : f[m] < f[l] <=> m < l
    BY <1>9
  <1> DEFINE A(m) == a[f[m]]
             B(m) == b[f[m]]
  <1>11. \A m \in DOMAIN G : A(m) \in 1 .. N /\ B(m) \in A(m) .. N /\ G[m] = SubSeq(d.order, A(m), B(m))
    BY <1>7, <1>8, <1>9, <1>10 DEF LaidOut
  <1>12. \A m, l \in DOMAIN G : m < l => B(m) < A(l)
    BY <1>7, <1>8, <1>9, <1>10 DEF LaidOut
  <1> HIDE DEF A, B
  <1>13. \A m \in DOMAIN G : PosOf(d, Last(G[m])) = B(m)
    <2> SUFFICES ASSUME NEW m \in DOMAIN G
                 PROVE  PosOf(d, Last(G[m])) = B(m)
      OBVIOUS
    <2>1. PICK p, q : p = A(m) /\ q = B(m)
      OBVIOUS
    <2>2. p \in 1 .. N /\ q \in p .. N /\ G[m] = SubSeq(d.order, p, q)
      BY <1>11, <2>1
    <2>3. Len(G[m]) = q - p + 1 /\ \A n \in 1 .. q - p + 1 : G[m][n] = d.order[p + n - 1]
      BY <2>2, PartHas
    <2>4. q - p + 1 \in 1 .. q - p + 1 /\ p + (q - p + 1) - 1 = q /\ q \in 1 .. N
      BY <1>2, <2>2
    <2>5. Last(G[m]) = d.order[q]
      BY <2>3, <2>4 DEF Last
    <2> QED
      BY <2>1, <2>4, <2>5, PlaceOf
  <1>14. k \in DOMAIN G /\ F[k] = V \cap ToSet(G[k]) /\ F[k] # {}
    <2>1. k \in DOMAIN G /\ F[k] = V \cap ToSet(G[k])
      BY <1>5
    <2>2. G[k] \in W
      BY <1>9, <1>10, <2>1
    <2> QED
      BY <1>4, <2>1, <2>2
  <1>15. \A x : x \in ToSet(G[k]) <=> \E n \in A(k) .. B(k) : d.order[n] = x
    <2>1. PICK p, q : p = A(k) /\ q = B(k)
      OBVIOUS
    <2>2. p \in 1 .. N /\ q \in p .. N /\ G[k] = SubSeq(d.order, p, q)
      BY <1>11, <1>14, <2>1
    <2>3. \A x : x \in ToSet(SubSeq(d.order, p, q)) <=> \E n \in p .. q : d.order[n] = x
      BY <2>2, PartHas
    <2> QED
      BY <2>1, <2>2, <2>3
  <1>16. i \in F[k]
    <2>1. F[k] \subseteq ToSet(d.order)
      <3>1. A(k) \in 1 .. N /\ B(k) \in A(k) .. N
        BY <1>11, <1>14
      <3>2. A(k) .. B(k) \subseteq 1 .. N
        BY <1>2, <3>1
      <3> QED
        BY <1>2, <1>14, <1>15, <3>2
    <2> QED
      BY <1>14, <2>1, WinnerIn
  <1>17. i \in S /\ IsVisibleAt(d, i, S) /\ i \in ToSet(G[k])
    BY <1>1, <1>14, <1>16
  <1>18. PICK p \in A(k) .. B(k) : d.order[p] = i
    BY <1>15, <1>17
  <1>19. PosOf(d, i) = p /\ A(k) \in 1 .. N /\ B(k) \in 1 .. N /\ p \in 1 .. N
    <2>1. A(k) \in 1 .. N /\ B(k) \in A(k) .. N
      BY <1>11, <1>14
    <2>2. p \in 1 .. N /\ B(k) \in 1 .. N
      BY <1>2, <2>1
    <2> QED
      BY <1>18, <2>1, <2>2, PlaceOf
  <1> DEFINE at == {m \in DOMAIN G : PosOf(d, Last(G[m])) >= PosOf(d, i)}
  <1>20. k \in at
    BY <1>13, <1>14, <1>18, <1>19
  <1>21. ASSUME NEW m \in at PROVE k <= m
    <2>1. m \in DOMAIN G /\ B(m) >= p
      BY <1>13, <1>19
    <2>2. B(m) \in 1 .. N
      <3>1. A(m) \in 1 .. N /\ B(m) \in A(m) .. N
        BY <1>11, <2>1
      <3> QED
        BY <1>2, <3>1
    <2>3. ~(m < k)
      BY <1>12, <1>14, <1>18, <1>19, <2>1, <2>2
    <2> QED
      BY <1>9, <1>14, <2>1, <2>3
  <1>22. k \in Nat /\ at \subseteq Nat
    BY <1>9, <1>14
  <1>23. Min(at) = k /\ at # {}
    BY <1>20, <1>21, <1>22 DEF Min
  <1>24. FoundSlow(d, S, i) = [index |-> k - 1, visible |-> i \in ToSet(G[k]) /\ IsVisibleAt(d, i, S)]
    BY <1>23 DEF FoundSlow, G
  <1> QED
    BY <1>17, <1>22, <1>24

\* By the index of winners a cursor leads back to where it was made: what wins at an
\* index is the winner that gave it.
LEMMA FastReturns ==
    ASSUME NEW d, TreeOK(d), RegOK(d), SeenOK(d), TopOK(d), object = "list",
           NEW F, F = Found(d, {}), NEW k \in DOMAIN F, NEW i, i = Winner(d, F[k])
    PROVE  k \in Nat /\ i \in DOMAIN d.ops /\ FoundFast(d, i) = [index |-> k - 1, visible |-> TRUE]
  <1> DEFINE tops == Only(d.order, d.top)
             G == Registers(d)
             N == Len(d.order)
             E == Elements(d, DOMAIN d.ops)
  <1>1. OpsOK(d) /\ RowsOK(d, DOMAIN d.ops)
    BY DEF TreeOK
  <1>2. d.order \in Seq(DOMAIN d.ops) /\ Distinct(d.order) /\ N \in Nat /\ DOMAIN d.order = 1 .. N
        /\ ToSet(d.order) \subseteq DOMAIN d.ops
    BY <1>1, LenProperties DEF RowsOK
  <1>3. F = [n \in DOMAIN tops |-> d.vis \cap ToSet(Around(G, tops[n]))]
    BY DEF Found
  <1>4. /\ Len(tops) \in Nat /\ DOMAIN tops = 1 .. Len(tops)
        /\ \E f : /\ \A m \in 1 .. Len(tops) :
                         f[m] \in 1 .. N /\ tops[m] = d.order[f[m]] /\ d.order[f[m]] \in d.top
                  /\ \A n \in 1 .. N : d.order[n] \in d.top => \E m \in 1 .. Len(tops) : f[m] = n
                  /\ \A m, l \in 1 .. Len(tops) : f[m] < f[l] <=> m < l
    <2>1. PICK U, s, V : U = DOMAIN d.ops /\ s = d.order /\ V = d.top
      OBVIOUS
    <2>2. s \in Seq(U)
      BY <1>2, <2>1
    <2>3. /\ Len(Only(s, V)) \in Nat /\ DOMAIN Only(s, V) = 1 .. Len(Only(s, V))
          /\ \E f : /\ \A m \in 1 .. Len(Only(s, V)) : f[m] \in 1 .. Len(s) /\ Only(s, V)[m] = s[f[m]] /\ s[f[m]] \in V
                    /\ \A n \in 1 .. Len(s) : s[n] \in V => \E m \in 1 .. Len(Only(s, V)) : f[m] = n
                    /\ \A m, l \in 1 .. Len(Only(s, V)) : f[m] < f[l] <=> m < l
      BY <2>2, OnlyIs
    <2> QED
      BY <2>1, <2>3
  <1>5. PICK f : /\ \A m \in 1 .. Len(tops) :
                        f[m] \in 1 .. N /\ tops[m] = d.order[f[m]] /\ d.order[f[m]] \in d.top
                 /\ \A n \in 1 .. N : d.order[n] \in d.top => \E m \in 1 .. Len(tops) : f[m] = n
                 /\ \A m, l \in 1 .. Len(tops) : f[m] < f[l] <=> m < l
    BY <1>4
  <1> HIDE DEF tops, G, E
  <1>6. k \in 1 .. Len(tops) /\ F[k] = d.vis \cap ToSet(Around(G, tops[k])) /\ k \in Nat
    BY <1>3, <1>4
  <1>7. PICK x : x = tops[k]
    OBVIOUS
  <1>8. f[k] \in 1 .. N /\ x = d.order[f[k]] /\ x \in d.top
    BY <1>5, <1>6, <1>7
  <1>9. x \in ToSet(d.order) /\ PosOf(d, x) = f[k]
    BY <1>2, <1>8, PlaceOf, SetOfSeq
  <1>10. i = x
    <2>1. PICK g, a, b : IsAround(d, x, g, a, b)
      BY <1>9, RegisterAround
    <2>2. g \in E /\ F[k] = d.vis \cap ToSet(RegisterOf(d, g)) /\ x \in ToSet(RegisterOf(d, g))
      BY <1>6, <1>7, <2>1, RegisterAtHas DEF IsAround, E, G
    <2>3. F[k] = SeenOn(d, g)
      BY <2>2, SeenInRegister DEF E
    <2>4. x \in d.vis /\ Wins(d, x)
      BY <1>8 DEF TopOK
    <2>5. x \in SeenOn(d, g)
      BY <2>2, <2>3, <2>4
    <2>6. i \in SeenOn(d, g) /\ i \in ToSet(d.order) /\ \A y \in SeenOn(d, g) : ~Less(i, y)
      BY <2>2, <2>3, <2>5, WinnerIs DEF E
    <2>7. ~Less(i, x) /\ ~Less(x, i)
      BY <2>4, <2>5, <2>6 DEF Wins, SeenOn
    <2>8. i \in Nat \X Nat /\ x \in Nat \X Nat
      BY <1>1, <1>2, <1>9, <2>6 DEF OpsOK
    <2> QED
      BY <2>7, <2>8, LessIsOrder
  <1> DEFINE before == {n \in 1 .. PosOf(d, i) - 1 : d.order[n] \in d.top}
  <1>11. Cardinality(before) = k - 1
    <2>1. k - 1 \in Nat /\ \A m \in 1 .. k - 1 : m \in 1 .. Len(tops) /\ m < k
      BY <1>4, <1>6
    <2>2. \A m, l \in 1 .. k - 1 : f[m] = f[l] => m = l
      <3> SUFFICES ASSUME NEW m \in 1 .. k - 1, NEW l \in 1 .. k - 1, f[m] = f[l]
                   PROVE  m = l
        OBVIOUS
      <3>1. m \in 1 .. Len(tops) /\ l \in 1 .. Len(tops) /\ f[m] \in Nat
        BY <1>2, <1>5, <2>1
      <3>2. ~(m < l) /\ ~(l < m)
        BY <1>5, <3>1
      <3> QED
        BY <3>2
    <2>3. ASSUME NEW n \in before PROVE \E m \in 1 .. k - 1 : f[m] = n
      <3>1. n \in 1 .. N /\ n < f[k] /\ d.order[n] \in d.top
        BY <1>2, <1>8, <1>9, <1>10
      <3>2. PICK m \in 1 .. Len(tops) : f[m] = n
        BY <1>5, <3>1
      <3>3. m < k
        BY <1>5, <1>6, <3>1, <3>2
      <3> QED
        BY <1>4, <1>6, <3>2, <3>3
    <2>4. ASSUME NEW m \in 1 .. k - 1 PROVE f[m] \in before
      <3>1. m \in 1 .. Len(tops) /\ m < k
        BY <2>1
      <3>2. f[m] \in 1 .. N /\ d.order[f[m]] \in d.top /\ f[m] < f[k]
        BY <1>5, <1>6, <3>1
      <3> QED
        BY <1>2, <1>8, <1>9, <1>10, <3>2
    <2>5. \A n : n \in before <=> \E m \in 1 .. k - 1 : f[m] = n
      BY <2>3, <2>4
    <2> HIDE DEF before
    <2> QED
      BY <2>1, <2>2, <2>5, CountTo
  <1>12. FoundFast(d, i) = [index |-> k - 1, visible |-> TRUE]
    <2>1. i \in d.top
      BY <1>8, <1>10
    <2> QED
      BY <1>11, <2>1 DEF FoundFast
  <1> QED
    BY <1>2, <1>6, <1>9, <1>10, <1>12

\* A cursor leads back.
LEMMA CursorsLeadBack ==
    ASSUME OrderInv
    PROVE  CursorsReturn
  <1> SUFFICES ASSUME object = "list", NEW r \in Replica, NEW S \in Resolvable(r),
                      S # {} \/ Findable(doc[r]), NEW k \in DOMAIN Found(doc[r], S)
               PROVE  PositionOf(doc[r], S, CursorAt(doc[r], Found(doc[r], S), k - 1), "before") = k - 1
    BY DEF CursorsReturn
  <1>1. PICK d, F, i : d = doc[r] /\ F = Found(d, S) /\ i = Winner(d, F[k])
    OBVIOUS
  <1>2. RowsInv /\ (Findable(d) => RegOK(d) /\ TopOK(d))
    BY <1>1 DEF OrderInv, InOrder
  <1>3. TreeOK(d) /\ SeenOK(d) /\ d.order \in Seq(DOMAIN d.ops) /\ Distinct(d.order)
    BY <1>1, <1>2, DocIs DEF RowsOK
  <1>4. k \in Nat /\ i \in InView(d, S) /\ FoundId(d, S, i) = [index |-> k - 1, visible |-> TRUE]
    <2>1. CASE S = {}
      <3>1. F = Found(d, {}) /\ k \in DOMAIN F /\ RegOK(d) /\ TopOK(d)
        BY <1>1, <1>2, <2>1
      <3>2. k \in Nat /\ i \in DOMAIN d.ops /\ FoundFast(d, i) = [index |-> k - 1, visible |-> TRUE]
        BY <1>1, <1>3, <3>1, FastReturns
      <3> QED
        BY <2>1, <3>2 DEF InView, FoundId
    <2>2. CASE S # {}
      <3>1. F = Seen(d, S, Runs(d)) /\ k \in DOMAIN F
        BY <1>1, <2>2 DEF Found
      <3>2. k \in Nat /\ i \in S /\ FoundSlow(d, S, i) = [index |-> k - 1, visible |-> TRUE]
        <4>1. PICK U : U = DOMAIN d.ops
          OBVIOUS
        <4>2. d.order \in Seq(U) /\ Distinct(d.order)
          BY <1>3, <4>1
        <4>3. i = Winner(d, F[k])
          BY <1>1
        <4> QED
          BY <2>2, <3>1, <4>2, <4>3, SlowReturns
      <3> QED
        BY <2>2, <3>2 DEF InView, FoundId
    <2> QED
      BY <2>1, <2>2
  <1>5. CursorAt(d, F, k - 1) = i
    BY <1>1, <1>4 DEF CursorAt
  <1>6. PositionOf(d, S, i, "before") = k - 1
    BY <1>4 DEF PositionOf, IsKnown
  <1> QED
    BY <1>1, <1>5, <1>6

-----------------------------------------------------------------------------
(* Theorems *)

\* Replicas with the same operations show the elements of a list, also deleted
\* ones, in the same order: by their identifiers, the path from the front decides,
\* whether they were inserted here, isolated, or came in whatever batches.
THEOREM ListsConverge == ~MixedIncrements => (Spec => []ListsAgree)
  BY ListsAre, RowsInvariant, PTL

\* A list is read in the order of its tree: each element before what was inserted
\* after it, what was inserted later at the same place first.
THEOREM ListsAreTrees == ~MixedIncrements => (Spec => []ListsInTree)
  BY ListsAre, RowsInvariant, PTL

\* Unless increments meet other values, every document in which isolated
\* transactions find all rows of an element has these in the order of their
\* identifiers, and the greatest of what is visible there wins, whatever edits
\* find and batches bring.
THEOREM OrderInvariant == ~MixedIncrements => (Spec => []OrderInv)
  <1> SUFFICES ASSUME ~MixedIncrements
               PROVE  Spec => []OrderInv
    OBVIOUS
  <1> QED
    BY InitOrder, StepOrder, PTL DEF Spec

\* Hence rows are in the order of the tree of elements (untangle_inserts,
\* OpsFoundIter): along the path to their element, and on one element by their
\* identifiers.
THEOREM RowsKeepTreeOrder == ~MixedIncrements => (Spec => []InTreeOrder)
  BY OrderInvariant, RowsAreInOrder, PTL

\* And replicas with the same operations are equal in rows, successors, visible
\* rows and winners, however the operations came.
THEOREM ReplicasConverge == ~MixedIncrements => (Spec => []Converges)
  BY OrderInvariant, InOrderAgree, PTL

\* Unless increments meet other values, the register of an element never has a value
\* of another one, in whatever scope it was made, and what an operation overwrites
\* are rows of the element that it refers to, also when rows have come apart.
THEOREM HomeInvariant == ~MixedIncrements => (Spec => []HomeInv)
  <1> SUFFICES ASSUME ~MixedIncrements
               PROVE  Spec => []HomeInv
    OBVIOUS
  <1> QED
    BY InitHome, StepHome, PTL DEF Spec

\* Unless increments meet other values, and as long as the rows of each element lie
\* together, a load rebuilds the indexes from the rows as edits and batches have kept
\* them up (IndexBuilder), and finds each delete among the successors once
\* (ChangeCollector).
THEOREM LoadsRebuild == ~MixedIncrements => (Spec => []LoadRebuilds)
  <1> SUFFICES ASSUME ~MixedIncrements
               PROVE  Spec => []LoadRebuilds
    OBVIOUS
  <1> QED
    BY OrderInvariant, HomeInvariant, LoadFinds, PTL

\* Unless increments meet other values, a cursor made for an index (get_cursor_for)
\* leads back to it (get_cursor_position_for, seek_list_opid): at any heads row by
\* row, and by the index of winners in every document in which isolated
\* transactions find all rows of an element.
THEOREM CursorsComeBack == ~MixedIncrements => (Spec => []CursorsReturn)
  BY OrderInvariant, CursorsLeadBack, PTL

=============================================================================
