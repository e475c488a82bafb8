-------------------------- MODULE OpSetTreeProofs ---------------------------
(***************************************************************************)
(* Theorems about the rows of OpSet, for any replicas and bounds: the walk of *)
(* a batch through a list (untangle_inserts) puts elements where the tree of *)
(* inserts has them, as edits do, each document has the rows of its operations *)
(* once and in registers that begin with their element, and what wins is   *)
(* visible.  Sequences are compared by what is before what.                *)
(***************************************************************************)
EXTENDS OpSetRowsProofs

-----------------------------------------------------------------------------
(* The elements of a list with those of a batch *)

\* Coming before is a strict order of the members of a sequence.
LEMMA PrecedesIsOrder ==
    ASSUME NEW T, NEW s \in Seq(T), Distinct(s)
    PROVE  /\ \A x, y : Precedes(s, x, y) => x \in ToSet(s) /\ y \in ToSet(s) /\ ~Precedes(s, y, x)
           /\ \A x : ~Precedes(s, x, x)
           /\ \A x, y, z : Precedes(s, x, y) /\ Precedes(s, y, z) => Precedes(s, x, z)
           /\ \A x, y \in ToSet(s) : x = y \/ Precedes(s, x, y) \/ Precedes(s, y, x)
  <1>1. /\ Len(s) \in Nat /\ DOMAIN s = 1 .. Len(s)
        /\ \A n \in 1 .. Len(s) : s[n] \in ToSet(s)
        /\ \A x \in ToSet(s) : \E n \in 1 .. Len(s) : s[n] = x
    BY SetOfSeq
  <1>2. \A m, n \in 1 .. Len(s) : s[m] = s[n] => m = n
    BY <1>1 DEF Distinct
  <1>3. \A x, y : Precedes(s, x, y) <=> \E m, n \in 1 .. Len(s) : m < n /\ s[m] = x /\ s[n] = y
    BY <1>1 DEF Precedes
  <1>4. \A x : ~Precedes(s, x, x)
    BY <1>1, <1>2, <1>3
  <1>5. \A x, y, z : Precedes(s, x, y) /\ Precedes(s, y, z) => Precedes(s, x, z)
    <2> TAKE x, y, z
    <2>1. SUFFICES ASSUME Precedes(s, x, y), Precedes(s, y, z) PROVE Precedes(s, x, z)
      OBVIOUS
    <2>2. PICK m, n \in 1 .. Len(s) : m < n /\ s[m] = x /\ s[n] = y
      BY <1>3, <2>1
    <2>3. PICK k, l \in 1 .. Len(s) : k < l /\ s[k] = y /\ s[l] = z
      BY <1>3, <2>1
    <2>4. n = k
      BY <1>2, <2>2, <2>3
    <2>5. m < l
      BY <1>1, <2>2, <2>3, <2>4
    <2> QED
      BY <1>3, <2>2, <2>3, <2>5
  <1>6. \A x, y \in ToSet(s) : x = y \/ Precedes(s, x, y) \/ Precedes(s, y, x)
    <2> TAKE x, y \in ToSet(s)
    <2>1. PICK m \in 1 .. Len(s) : s[m] = x
      BY <1>1
    <2>2. PICK n \in 1 .. Len(s) : s[n] = y
      BY <1>1
    <2>3. m = n \/ m < n \/ n < m
      BY <1>1
    <2> QED
      BY <1>3, <2>1, <2>2, <2>3
  <1>7. \A x, y : Precedes(s, x, y) => x \in ToSet(s) /\ y \in ToSet(s)
    BY <1>1, <1>3
  <1> QED
    BY <1>4, <1>5, <1>6, <1>7

\* The sequence w is s with x at its end, or s and t.
Appends(w, s, x) == w = Append(s, x)
Joins(w, s, t) == w = s \o t

\* A member more at the end.
LEMMA AppendHas ==
    ASSUME NEW T, NEW s \in Seq(T), Distinct(s), NEW x \in T, x \notin ToSet(s),
           NEW w, Appends(w, s, x)
    PROVE  /\ w \in Seq(T) /\ Distinct(w)
           /\ ToSet(w) = ToSet(s) \cup {x}
           /\ \A y, z : Precedes(w, y, z) => Precedes(s, y, z) \/ (y \in ToSet(s) /\ z = x)
           /\ \A y, z : Precedes(s, y, z) => Precedes(w, y, z)
           /\ \A y \in ToSet(s) : Precedes(w, y, x)
  <1> DEFINE L == Len(s)
  <1>1. /\ L \in Nat /\ DOMAIN s = 1 .. L
        /\ \A n \in 1 .. L : s[n] \in ToSet(s) /\ s[n] # x
        /\ \A y \in ToSet(s) : \E n \in 1 .. L : s[n] = y
    BY SetOfSeq
  <1>2. /\ w \in Seq(T) /\ Len(w) = L + 1
        /\ \A n \in 1 .. L : w[n] = s[n]
        /\ w[L + 1] = x
    BY AppendProperties DEF Appends
  <1>3. DOMAIN w = 1 .. L + 1 /\ \A y : y \in ToSet(w) <=> \E n \in 1 .. L + 1 : w[n] = y
    <2>1. w \in Seq(T) /\ Len(w) = L + 1
      BY <1>2
    <2>2. DOMAIN w = 1 .. Len(w) /\ \A y : y \in ToSet(w) <=> \E n \in 1 .. Len(w) : w[n] = y
      BY <2>1, SetOfSeq
    <2> QED
      BY <2>1, <2>2
  <1> HIDE DEF L
  <1>4. ToSet(w) = ToSet(s) \cup {x}
    <2>1. \A y : y \in ToSet(w) <=> y \in ToSet(s) \/ y = x
      <3> TAKE y
      <3>1. ASSUME y \in ToSet(w) PROVE y \in ToSet(s) \/ y = x
        <4>1. PICK n \in 1 .. L + 1 : w[n] = y
          BY <1>3, <3>1
        <4>2. n \in 1 .. L \/ n = L + 1
          BY <1>1
        <4> QED
          BY <1>1, <1>2, <4>1, <4>2
      <3>2. ASSUME y \in ToSet(s) PROVE y \in ToSet(w)
        <4>1. PICK n \in 1 .. L : s[n] = y
          BY <1>1, <3>2
        <4>2. n \in 1 .. L + 1
          BY <1>1
        <4> QED
          BY <1>2, <1>3, <4>1, <4>2
      <3>3. x \in ToSet(w)
        <4>1. L + 1 \in 1 .. L + 1
          BY <1>1
        <4> QED
          BY <1>2, <1>3, <4>1
      <3> QED
        BY <3>1, <3>2, <3>3
    <2> QED
      BY <2>1
  <1>5. Distinct(w)
    <2> SUFFICES ASSUME NEW m \in 1 .. L + 1, NEW n \in 1 .. L + 1, w[m] = w[n], m # n
                 PROVE  FALSE
      BY <1>3 DEF Distinct
    <2>1. \/ m \in 1 .. L /\ n \in 1 .. L
          \/ m \in 1 .. L /\ n = L + 1
          \/ m = L + 1 /\ n \in 1 .. L
      BY <1>1
    <2>2. \A k, l \in 1 .. L : s[k] = s[l] => k = l
      BY <1>1 DEF Distinct
    <2> QED
      BY <1>1, <1>2, <2>1, <2>2
  <1>6. ASSUME NEW y, NEW z
        PROVE  /\ Precedes(w, y, z) => Precedes(s, y, z) \/ (y \in ToSet(s) /\ z = x)
               /\ Precedes(s, y, z) => Precedes(w, y, z)
               /\ y \in ToSet(s) /\ z = x => Precedes(w, y, z)
    <2>1. ASSUME Precedes(w, y, z) PROVE Precedes(s, y, z) \/ (y \in ToSet(s) /\ z = x)
      <3>1. PICK m, n \in 1 .. L + 1 : m < n /\ w[m] = y /\ w[n] = z
        BY <1>3, <2>1 DEF Precedes
      <3>2. m \in 1 .. L /\ (n \in 1 .. L \/ n = L + 1)
        BY <1>1, <3>1
      <3>3. y = s[m] /\ y \in ToSet(s)
        BY <1>1, <1>2, <3>1, <3>2
      <3>4. CASE n \in 1 .. L
        <4>1. z = s[n]
          BY <1>2, <3>1, <3>4
        <4> QED
          BY <1>1, <3>1, <3>2, <3>3, <3>4, <4>1 DEF Precedes
      <3>5. CASE n = L + 1
        BY <1>2, <3>1, <3>3, <3>5
      <3> QED
        BY <3>2, <3>4, <3>5
    <2>2. ASSUME Precedes(s, y, z) PROVE Precedes(w, y, z)
      <3>1. PICK m, n \in 1 .. L : m < n /\ s[m] = y /\ s[n] = z
        BY <1>1, <2>2 DEF Precedes
      <3>2. m \in 1 .. L + 1 /\ n \in 1 .. L + 1 /\ w[m] = y /\ w[n] = z
        BY <1>1, <1>2, <3>1
      <3> QED
        BY <1>3, <3>1, <3>2 DEF Precedes
    <2>3. ASSUME y \in ToSet(s), z = x PROVE Precedes(w, y, z)
      <3>1. PICK m \in 1 .. L : s[m] = y
        BY <1>1, <2>3
      <3>2. m \in 1 .. L + 1 /\ L + 1 \in 1 .. L + 1 /\ m < L + 1 /\ w[m] = y /\ w[L + 1] = z
        BY <1>1, <1>2, <2>3, <3>1
      <3> QED
        BY <1>3, <3>2 DEF Precedes
    <2> QED
      BY <2>1, <2>2, <2>3
  <1> QED
    BY <1>2, <1>4, <1>5, <1>6

\* A sequence of identifiers in their order.
Rising(s) == \A k, l \in DOMAIN s : k < l => Less(s[k], s[l])

\* One rising sequence after another.
LEMMA RisingTogether ==
    ASSUME NEW T \in SUBSET (Nat \X Nat), NEW s \in Seq(T), NEW t \in Seq(T), Rising(s), Rising(t),
           \A x \in ToSet(s), y \in ToSet(t) : Less(x, y),
           NEW w, Joins(w, s, t)
    PROVE  /\ w \in Seq(T) /\ Rising(w)
           /\ ToSet(w) = ToSet(s) \cup ToSet(t)
           /\ Len(w) = Len(s) + Len(t)
           /\ \A n \in 1 .. Len(s) : w[n] = s[n]
           /\ \A n \in Len(s) + 1 .. Len(w) : w[n] \in ToSet(t)
  <1> DEFINE L == Len(s)
             M == Len(t)
  <1>1. /\ L \in Nat /\ DOMAIN s = 1 .. L /\ M \in Nat /\ DOMAIN t = 1 .. M
        /\ \A n \in 1 .. L : s[n] \in ToSet(s)
        /\ \A n \in 1 .. M : t[n] \in ToSet(t)
        /\ \A y \in ToSet(s) : \E n \in 1 .. L : s[n] = y
        /\ \A y \in ToSet(t) : \E n \in 1 .. M : t[n] = y
    BY SetOfSeq
  <1>2. /\ w \in Seq(T) /\ Len(w) = L + M
        /\ \A n \in 1 .. L + M : w[n] = IF n <= L THEN s[n] ELSE t[n - L]
    BY ConcatProperties DEF Joins
  <1>3. DOMAIN w = 1 .. L + M /\ \A y : y \in ToSet(w) <=> \E n \in 1 .. L + M : w[n] = y
    BY <1>2, SetOfSeq
  <1> HIDE DEF L, M
  <1>4. \A n \in 1 .. L : n \in 1 .. L + M /\ w[n] = s[n] /\ w[n] \in ToSet(s)
    BY <1>1, <1>2
  <1>5. \A n \in 1 .. M : L + n \in 1 .. L + M /\ w[L + n] = t[n] /\ w[L + n] \in ToSet(t)
    <2> TAKE n \in 1 .. M
    <2>1. L + n \in 1 .. L + M /\ ~(L + n <= L) /\ (L + n) - L = n
      BY <1>1
    <2>2. w[L + n] = t[n]
      BY <1>2, <2>1
    <2> QED
      BY <1>1, <2>1, <2>2
  <1>6. \A n \in L + 1 .. L + M : \E k \in 1 .. M : n = L + k
    <2> TAKE n \in L + 1 .. L + M
    <2>1. n - L \in 1 .. M /\ n = L + (n - L)
      BY <1>1
    <2> QED
      BY <2>1
  <1>7. \A n \in 1 .. L + M : n \in 1 .. L \/ n \in L + 1 .. L + M
    BY <1>1
  <1>8. ToSet(w) = ToSet(s) \cup ToSet(t)
    <2>1. ASSUME NEW y \in ToSet(w) PROVE y \in ToSet(s) \/ y \in ToSet(t)
      <3>1. PICK n \in 1 .. L + M : w[n] = y
        BY <1>3
      <3>2. CASE n \in 1 .. L
        BY <1>4, <3>1, <3>2
      <3>3. CASE n \in L + 1 .. L + M
        BY <1>5, <1>6, <3>1, <3>3
      <3> QED
        BY <1>7, <3>2, <3>3
    <2>2. \A y \in ToSet(s) : y \in ToSet(w)
      BY <1>1, <1>3, <1>4
    <2>3. \A y \in ToSet(t) : y \in ToSet(w)
      BY <1>1, <1>3, <1>5
    <2> QED
      BY <2>1, <2>2, <2>3
  <1>9. Rising(w)
    <2> SUFFICES ASSUME NEW m \in 1 .. L + M, NEW n \in 1 .. L + M, m < n
                 PROVE  Less(w[m], w[n])
      BY <1>3 DEF Rising
    <2>1. CASE m \in 1 .. L /\ n \in 1 .. L
      BY <1>1, <1>4, <2>1 DEF Rising
    <2>2. CASE m \in 1 .. L /\ n \in L + 1 .. L + M
      BY <1>4, <1>5, <1>6, <2>2
    <2>3. CASE m \in L + 1 .. L + M /\ n \in L + 1 .. L + M
      <3>1. PICK k \in 1 .. M : m = L + k
        BY <1>6, <2>3
      <3>2. PICK l \in 1 .. M : n = L + l
        BY <1>6, <2>3
      <3>3. k < l
        BY <1>1, <3>1, <3>2
      <3>4. Less(t[k], t[l])
        BY <1>1, <3>3 DEF Rising
      <3> QED
        BY <1>5, <3>1, <3>2, <3>4
    <2>4. ~(m \in L + 1 .. L + M /\ n \in 1 .. L)
      BY <1>1
    <2> QED
      BY <1>7, <2>1, <2>2, <2>3, <2>4
  <1>10. \A n \in L + 1 .. L + M : w[n] \in ToSet(t)
    BY <1>5, <1>6
  <1> QED
    BY <1>2, <1>4, <1>8, <1>9, <1>10 DEF L, M

\* A rising sequence without its last member.
LEMMA RisingFront ==
    ASSUME NEW T \in SUBSET (Nat \X Nat), NEW s \in Seq(T), Rising(s), Len(s) > 0
    PROVE  /\ Front(s) \in Seq(T) /\ Rising(Front(s))
           /\ Last(s) \in ToSet(s)
           /\ Len(Front(s)) = Len(s) - 1
           /\ \A n \in 1 .. Len(s) - 1 : Front(s)[n] = s[n]
           /\ ToSet(Front(s)) = ToSet(s) \ {Last(s)}
           /\ \A y \in ToSet(Front(s)) : Less(y, Last(s))
  <1> DEFINE L == Len(s)
             w == Front(s)
  <1>1. /\ L \in Nat /\ L > 0 /\ DOMAIN s = 1 .. L
        /\ \A n \in 1 .. L : s[n] \in ToSet(s) /\ s[n] \in T
        /\ \A y \in ToSet(s) : \E n \in 1 .. L : s[n] = y
    BY SetOfSeq
  <1>2. Last(s) = s[L]
    BY DEF Last
  <1>3. w \in Seq(T) /\ Len(w) = L - 1 /\ \A n \in 1 .. L - 1 : w[n] = s[n]
    BY <1>1, SubSeqProperties DEF Front
  <1>4. DOMAIN w = 1 .. L - 1 /\ \A y : y \in ToSet(w) <=> \E n \in 1 .. L - 1 : w[n] = y
    BY <1>3, SetOfSeq
  <1> HIDE DEF L, w
  <1>5. \A n \in 1 .. L - 1 : n \in 1 .. L /\ n < L /\ L \in 1 .. L
    BY <1>1
  <1>6. \A n \in 1 .. L - 1 : Less(s[n], s[L])
    BY <1>1, <1>5 DEF Rising
  <1>7. Rising(w)
    BY <1>1, <1>3, <1>4, <1>5 DEF Rising
  <1>8. \A y \in ToSet(w) : Less(y, s[L])
    BY <1>3, <1>4, <1>6
  <1>9. L \in 1 .. L
    BY <1>1
  <1>10. ToSet(w) = ToSet(s) \ {s[L]}
    <2>1. ~Less(s[L], s[L])
      BY <1>1, <1>9, LessIsOrder
    <2>2. \A y \in ToSet(w) : y \in ToSet(s) /\ y # s[L]
      BY <1>1, <1>3, <1>4, <1>5, <1>8, <2>1
    <2>3. ASSUME NEW y \in ToSet(s), y # s[L] PROVE y \in ToSet(w)
      <3>1. PICK n \in 1 .. L : s[n] = y
        BY <1>1
      <3>2. n # L
        BY <2>3, <3>1
      <3>3. n \in 1 .. L - 1
        BY <1>1, <3>2
      <3> QED
        BY <1>3, <1>4, <3>1, <3>3
    <2> QED
      BY <2>2, <2>3
  <1> QED
    BY <1>1, <1>2, <1>3, <1>7, <1>8, <1>9, <1>10 DEF L, w

-----------------------------------------------------------------------------
(* The walk through the elements of a list *)

\* What is between an element and the one it was inserted after came later.
InTree(d, s) ==
    \A x \in ToSet(s) :
        /\ d.ops[x].ref = Head0 \/ Precedes(s, d.ops[x].ref, x)
        /\ \A y \in ToSet(s) :
               Precedes(s, y, x) /\ (d.ops[x].ref = Head0 \/ Precedes(s, d.ops[x].ref, y)) => Less(x, y)

\* The element x may come at the end of the elements s.
Fits(d, s, x) ==
    /\ d.ops[x].ref = Head0 \/ d.ops[x].ref \in ToSet(s)
    /\ \A y \in ToSet(s) : d.ops[x].ref = Head0 \/ Precedes(s, d.ops[x].ref, y) => Less(x, y)

\* What fits may be added at the end of a tree.
LEMMA InTreeAppend ==
    ASSUME NEW d, NEW T, NEW s \in Seq(T), Distinct(s), NEW x \in T, x \notin ToSet(s),
           NEW w, Appends(w, s, x), InTree(d, s), Fits(d, s, x)
    PROVE  InTree(d, w)
  <1>1. /\ w \in Seq(T) /\ Distinct(w)
        /\ ToSet(w) = ToSet(s) \cup {x}
        /\ \A y, v : Precedes(w, y, v) => Precedes(s, y, v) \/ (y \in ToSet(s) /\ v = x)
        /\ \A y, v : Precedes(s, y, v) => Precedes(w, y, v)
        /\ \A y \in ToSet(s) : Precedes(w, y, x)
    BY AppendHas
  <1>2. \A y, z : Precedes(s, y, z) => y \in ToSet(s) /\ z \in ToSet(s)
    BY PrecedesIsOrder
  <1> SUFFICES ASSUME NEW y \in ToSet(w)
               PROVE  /\ d.ops[y].ref = Head0 \/ Precedes(w, d.ops[y].ref, y)
                      /\ \A z \in ToSet(w) :
                             Precedes(w, z, y) /\ (d.ops[y].ref = Head0 \/ Precedes(w, d.ops[y].ref, z))
                             => Less(y, z)
    BY DEF InTree
  <1> DEFINE p == d.ops[y].ref
  <1>3. CASE y = x
    <2>1. p = Head0 \/ Precedes(w, p, y)
      BY <1>1, <1>3 DEF Fits
    <2>2. ASSUME NEW z \in ToSet(w), Precedes(w, z, y), p = Head0 \/ Precedes(w, p, z) PROVE Less(y, z)
      <3>1. z \in ToSet(s)
        BY <1>1, <1>2, <1>3, <2>2
      <3>2. p = Head0 \/ Precedes(s, p, z)
        BY <1>1, <2>2, <3>1
      <3> QED
        BY <1>3, <3>1, <3>2 DEF Fits
    <2> QED
      BY <2>1, <2>2
  <1>4. CASE y # x
    <2>1. y \in ToSet(s)
      BY <1>1, <1>4
    <2>2. p = Head0 \/ Precedes(w, p, y)
      BY <1>1, <2>1 DEF InTree
    <2>3. ASSUME NEW z \in ToSet(w), Precedes(w, z, y), p = Head0 \/ Precedes(w, p, z) PROVE Less(y, z)
      <3>1. z \in ToSet(s) /\ Precedes(s, z, y)
        BY <1>1, <1>2, <1>4, <2>3
      <3>2. p = Head0 \/ Precedes(s, p, z)
        BY <1>1, <2>3, <3>1
      <3> QED
        BY <2>1, <3>1, <3>2 DEF InTree
    <2> QED
      BY <2>2, <2>3
  <1> QED
    BY <1>3, <1>4

\* What fits does so after a later element, and after its own reference.
LEMMA FitsNext ==
    ASSUME NEW d, NEW T, NEW s \in Seq(T), Distinct(s), NEW x \in T, x \notin ToSet(s), x # Head0,
           NEW w, Appends(w, s, x), NEW z, \/ Fits(d, s, z) /\ Less(z, x)
                                           \/ d.ops[z].ref = x
    PROVE  Fits(d, w, z)
  <1>1. /\ w \in Seq(T) /\ Distinct(w)
        /\ ToSet(w) = ToSet(s) \cup {x}
        /\ \A y, v : Precedes(w, y, v) => Precedes(s, y, v) \/ (y \in ToSet(s) /\ v = x)
        /\ \A y, v : Precedes(s, y, v) => Precedes(w, y, v)
        /\ \A y \in ToSet(s) : Precedes(w, y, x)
    BY AppendHas
  <1>2. \A y, v : Precedes(s, y, v) => y \in ToSet(s) /\ v \in ToSet(s)
    BY PrecedesIsOrder
  <1> DEFINE p == d.ops[z].ref
  <1>3. CASE Fits(d, s, z) /\ Less(z, x)
    <2>1. p = Head0 \/ p \in ToSet(w)
      BY <1>1, <1>3 DEF Fits
    <2>2. ASSUME NEW y \in ToSet(w), p = Head0 \/ Precedes(w, p, y) PROVE Less(z, y)
      <3>1. CASE y = x
        BY <1>3, <3>1
      <3>2. CASE y \in ToSet(s) /\ y # x
        <4>1. p = Head0 \/ Precedes(s, p, y)
          BY <1>1, <2>2, <3>2
        <4> QED
          BY <1>3, <3>2, <4>1 DEF Fits
      <3> QED
        BY <1>1, <3>1, <3>2
    <2> QED
      BY <2>1, <2>2 DEF Fits
  <1>4. CASE p = x
    <2>1. p \in ToSet(w) /\ p # Head0
      BY <1>1, <1>4
    <2>2. \A y : ~Precedes(w, p, y)
      BY <1>1, <1>2, <1>4
    <2> QED
      BY <2>1, <2>2 DEF Fits
  <1> QED
    BY <1>3, <1>4

\* The inserts of the batch after e.
LEMMA ChildrenHas ==
    ASSUME NEW d, NEW B, BatchOK(d, B), object = "list", NEW e, NEW c, c = InsertsAfter(d, B, e)
    PROVE  /\ c \in Seq(Elements(d, B)) /\ Rising(c)
           /\ \A x : x \in ToSet(c) <=> x \in Elements(d, B) /\ d.ops[x].ref = e
           /\ e # Head0 => \A x \in ToSet(c) : Less(e, x)
  <1> DEFINE S == {i \in B : d.ops[i].insert /\ d.ops[i].ref = e}
  <1>1. /\ S \in SUBSET (Nat \X Nat) /\ IsFiniteSet(S)
        /\ \A x : x \in S <=> x \in Elements(d, B) /\ d.ops[x].ref = e
    <2>1. S \subseteq DOMAIN d.ops
      BY DEF BatchOK
    <2>2. IsFiniteSet(S) /\ S \in SUBSET (Nat \X Nat)
      BY <2>1, FS_Subset DEF BatchOK, OpsOK
    <2> QED
      BY <2>2 DEF Elements
  <1>2. c = Ascending(S)
    BY DEF InsertsAfter
  <1>3. e # Head0 => \A x \in S : Less(e, x)
    BY DEF BatchOK, OpsOK
  <1>4. S \subseteq Elements(d, B)
    BY <1>1
  <1> HIDE DEF S
  <1>5. /\ c \in Seq(S) /\ Len(c) = Cardinality(S) /\ ToSet(c) = S
        /\ \A k, l \in 1 .. Cardinality(S) : Less(c[k], c[l]) <=> k < l
    BY <1>1, <1>2, AscendingIs
  <1>6. DOMAIN c = 1 .. Cardinality(S)
    BY <1>5, SetOfSeq
  <1>7. Rising(c)
    BY <1>5, <1>6 DEF Rising
  <1>8. c \in Seq(Elements(d, B))
    BY <1>4, <1>5, SeqWithin
  <1> QED
    BY <1>1, <1>3, <1>5, <1>7, <1>8

\* A batch of inserts, the elements P of the document behind us: what of the
\* batch is on the stack or passed is what was inserted at the front or after
\* what was passed; all that waits may come next.
Walk(d, B, u, P) ==
    /\ u.stack \in Seq(Elements(d, B)) /\ Rising(u.stack)
    /\ u.elements \in Seq(Elements(d, DOMAIN d.ops)) /\ Distinct(u.elements)
    /\ \A x \in ToSet(u.stack) : x \notin ToSet(u.elements)
    /\ \A x : (x \in ToSet(u.elements) /\ x \notin B) <=> x \in P
    /\ \A x \in Elements(d, B) :
           x \in ToSet(u.stack) \cup ToSet(u.elements) <=>
               d.ops[x].ref \in ToSet(u.elements) \cup {Head0}
    /\ InTree(d, u.elements)
    /\ \A x \in ToSet(u.stack) : Fits(d, u.elements, x)
    /\ \A x \in Elements(d, DOMAIN d.ops \ B) \ P :
           d.ops[x].ref \in P \cup {Head0} => Fits(d, u.elements, x)

\* Inserts of the batch that come before all elements that could be next.
Clear(d, B, P) ==
    {x \in Elements(d, B) : \A z \in Elements(d, DOMAIN d.ops \ B) \ P :
                                d.ops[z].ref \in P \cup {Head0} => Less(z, x)}

\* The stack s without x is k.
Leaves(B, s, x, k) == \A y : y \in ToSet(s) <=> y \in ToSet(k) \/ (y = x /\ x \in B)

\* The elements P of the document and x, if it is one.
Passes(B, P, x, Q) == \A y : y \in Q <=> y \in P \/ (y = x /\ x \notin B)

\* All elements of the document that could be next are before x.
IsNext(d, B, P, x) ==
    \A z \in Elements(d, DOMAIN d.ops \ B) :
        z \notin P /\ z # x /\ d.ops[z].ref \in P \cup {Head0} => Less(z, x)

\* The members of t are those of s and x.
Adds(t, s, x) == ToSet(t) = ToSet(s) \cup {x}

\* The stack s is k with what the batch has later than x.
Grows(d, B, s, k, x) ==
    /\ Len(s) >= Len(k)
    /\ \A n \in 1 .. Len(k) : s[n] = k[n]
    /\ \A n \in Len(k) + 1 .. Len(s) : s[n] \in Elements(d, B) /\ Less(x, s[n])

\* The element x is passed, and what the batch inserts after it is put on what
\* is left of the stack.
LEMMA PassedIs ==
    ASSUME NEW d, NEW B, BatchOK(d, B), object = "list",
           NEW P, NEW u, Walk(d, B, u, P),
           NEW x \in Elements(d, DOMAIN d.ops), x \notin ToSet(u.elements), Fits(d, u.elements, x),
           NEW k \in Seq(Elements(d, B)), Rising(k), \A y \in ToSet(k) : Less(y, x),
           Leaves(B, u.stack, x, k), NEW Q, Passes(B, P, x, Q), IsNext(d, B, P, x),
           NEW v, Joins(v.stack, k, InsertsAfter(d, B, x)), Appends(v.elements, u.elements, x)
    PROVE  /\ Walk(d, B, v, Q)
           /\ Adds(v.elements, u.elements, x)
           /\ Grows(d, B, v.stack, k, x)
  <1> DEFINE D == DOMAIN d.ops
             c == InsertsAfter(d, B, x)
             E == ToSet(u.elements)
             ref(y) == d.ops[y].ref
  <1>1. /\ D \in SUBSET (Nat \X Nat) /\ B \subseteq D /\ x \in D /\ x # Head0
        /\ Elements(d, B) \subseteq B /\ Elements(d, B) \subseteq Elements(d, D)
        /\ \A y \in Elements(d, D) \ Elements(d, B) : y \notin B
        /\ \A y \in D : y # Head0
    BY DEF BatchOK, OpsOK, Elements
  <1>2. /\ c \in Seq(Elements(d, B)) /\ Rising(c)
        /\ \A y : y \in ToSet(c) <=> y \in Elements(d, B) /\ ref(y) = x
        /\ \A y \in ToSet(c) : Less(x, y)
    BY <1>1, ChildrenHas
  <1>3. \A y \in ToSet(k) : y \in Elements(d, B)
    BY SetOfSeq
  <1>4. \A y \in ToSet(k), z \in ToSet(c) : Less(y, z)
    <2> TAKE y \in ToSet(k), z \in ToSet(c)
    <2>1. y \in Nat \X Nat /\ z \in Nat \X Nat /\ x \in Nat \X Nat
      BY <1>1, <1>2, <1>3
    <2>2. Less(y, x) /\ Less(x, z)
      BY <1>2
    <2> QED
      BY <2>1, <2>2, LessIsOrder
  <1>5. Elements(d, B) \in SUBSET (Nat \X Nat)
    BY <1>1
  <1>6. /\ v.stack \in Seq(Elements(d, B)) /\ Rising(v.stack)
        /\ ToSet(v.stack) = ToSet(k) \cup ToSet(c)
        /\ Len(v.stack) = Len(k) + Len(c)
        /\ \A n \in 1 .. Len(k) : v.stack[n] = k[n]
        /\ \A n \in Len(k) + 1 .. Len(v.stack) : v.stack[n] \in ToSet(c)
    BY <1>2, <1>4, <1>5, RisingTogether
  <1>7. u.elements \in Seq(Elements(d, D)) /\ Distinct(u.elements)
    BY DEF Walk
  <1>8. /\ v.elements \in Seq(Elements(d, D)) /\ Distinct(v.elements)
        /\ ToSet(v.elements) = E \cup {x}
    BY <1>7, AppendHas
  <1>9. InTree(d, u.elements)
    BY DEF Walk
  <1>10. InTree(d, v.elements)
    BY <1>7, <1>9, InTreeAppend
  <1>11. \A z : (Fits(d, u.elements, z) /\ Less(z, x)) \/ ref(z) = x => Fits(d, v.elements, z)
    BY <1>1, <1>7, FitsNext
  <1>12. /\ \A y \in ToSet(u.stack) : y \notin E /\ Fits(d, u.elements, y)
         /\ \A y : (y \in E /\ y \notin B) <=> y \in P
         /\ \A y \in Elements(d, B) : y \in ToSet(u.stack) \cup E <=> ref(y) \in E \cup {Head0}
         /\ \A y \in Elements(d, DOMAIN d.ops \ B) \ P : ref(y) \in P \cup {Head0} => Fits(d, u.elements, y)
    BY DEF Walk
  <1>13. \A y \in ToSet(v.stack) : y \notin ToSet(v.elements)
    <2> TAKE y \in ToSet(v.stack)
    <2>1. CASE y \in ToSet(k)
      <3>1. y \in ToSet(u.stack) /\ Less(y, x)
        BY <2>1 DEF Leaves
      <3>2. y # x
        BY <1>1, <3>1, LessIsOrder
      <3> QED
        BY <1>8, <1>12, <3>1, <3>2
    <2>2. CASE y \in ToSet(c)
      <3>1. y \in Elements(d, B) /\ ref(y) = x /\ Less(x, y)
        BY <1>2, <2>2
      <3>2. y # x
        BY <1>1, <3>1, LessIsOrder
      <3>3. y \notin E
        BY <1>1, <1>12, <3>1
      <3> QED
        BY <1>8, <3>2, <3>3
    <2> QED
      BY <1>6, <2>1, <2>2
  <1>14. \A y : (y \in ToSet(v.elements) /\ y \notin B) <=> y \in Q
    BY <1>8, <1>12 DEF Passes
  <1>15. \A y \in Elements(d, B) :
             y \in ToSet(v.stack) \cup ToSet(v.elements) <=> ref(y) \in ToSet(v.elements) \cup {Head0}
    <2> TAKE y \in Elements(d, B)
    <2>1. y \in B
      BY <1>1
    <2>2. y \in ToSet(v.stack) \cup ToSet(v.elements) <=> 
              y \in ToSet(u.stack) \/ y \in E \/ ref(y) = x
      BY <1>2, <1>6, <1>8, <2>1 DEF Leaves
    <2> QED
      BY <1>8, <1>12, <2>2
  <1>16. \A y \in ToSet(v.stack) : Fits(d, v.elements, y)
    <2> TAKE y \in ToSet(v.stack)
    <2>1. CASE y \in ToSet(k)
      BY <1>11, <1>12, <2>1 DEF Leaves
    <2>2. CASE y \in ToSet(c)
      BY <1>2, <1>11, <2>2
    <2> QED
      BY <1>6, <2>1, <2>2
  <1>17. \A y \in Elements(d, DOMAIN d.ops \ B) \ Q : ref(y) \in Q \cup {Head0} => Fits(d, v.elements, y)
    <2> TAKE y \in Elements(d, DOMAIN d.ops \ B) \ Q
    <2>1. SUFFICES ASSUME ref(y) \in Q \cup {Head0} PROVE Fits(d, v.elements, y)
      OBVIOUS
    <2>2. CASE ref(y) = x
      BY <1>11, <2>2
    <2>3. CASE ref(y) \in P \cup {Head0}
      <3>1. y \notin P /\ Fits(d, u.elements, y)
        BY <1>12, <2>3 DEF Passes
      <3>2. y \notin B
        BY DEF Elements
      <3>3. y # x
        BY <3>2 DEF Passes
      <3>4. Less(y, x)
        BY <2>3, <3>1, <3>3 DEF IsNext
      <3> QED
        BY <1>11, <3>1, <3>4
    <2>4. ref(y) = x \/ ref(y) \in P \cup {Head0}
      BY <2>1 DEF Passes
    <2> QED
      BY <2>2, <2>3, <2>4
  <1>18. Walk(d, B, v, Q)
    BY <1>6, <1>8, <1>10, <1>13, <1>14, <1>15, <1>16, <1>17 DEF Walk
  <1>19. Len(k) \in Nat /\ Len(c) \in Nat
    BY <1>2, LenProperties
  <1>20. \A y \in ToSet(c) : y \in Elements(d, B) /\ Less(x, y)
    BY <1>2
  <1>21. Len(v.stack) >= Len(k) /\ Len(v.stack) \in Nat
    BY <1>6, <1>19
  <1> QED
    BY <1>6, <1>8, <1>18, <1>20, <1>21 DEF Grows, Adds

\* The top of the stack s has given way to what is clear.
Lowers(d, B, P, t, s) ==
    /\ Len(t) >= Len(s) - 1
    /\ \A n \in 1 .. Len(s) - 1 : t[n] = s[n]
    /\ \A n \in Len(s) .. Len(t) : t[n] \in Clear(d, B, P)

\* The top of the stack is passed.
LEMMA UnstackedIs ==
    ASSUME NEW d, NEW B, BatchOK(d, B), object = "list",
           NEW P, NEW u, Walk(d, B, u, P), Len(u.stack) > 0, Last(u.stack) \in Clear(d, B, P),
           NEW v, v = Unstacked(d, B, u)
    PROVE  /\ Walk(d, B, v, P)
           /\ Adds(v.elements, u.elements, Last(u.stack))
           /\ Last(u.stack) \in B \ ToSet(u.elements)
           /\ Lowers(d, B, P, v.stack, u.stack)
  <1> DEFINE D == DOMAIN d.ops
             x == Last(u.stack)
             k == Front(u.stack)
  <1>1. /\ D \in SUBSET (Nat \X Nat) /\ Elements(d, B) \subseteq B /\ B \subseteq D
        /\ Elements(d, B) \subseteq Elements(d, D) /\ Elements(d, D) \subseteq D
        /\ Elements(d, DOMAIN d.ops \ B) \subseteq D
    BY DEF BatchOK, OpsOK, Elements
  <1>2. u.stack \in Seq(Elements(d, B)) /\ Rising(u.stack) /\ Len(u.stack) \in Nat
    BY LenProperties DEF Walk
  <1>3. Elements(d, B) \in SUBSET (Nat \X Nat)
    BY <1>1
  <1>4. /\ k \in Seq(Elements(d, B)) /\ Rising(k) /\ x \in ToSet(u.stack)
        /\ Len(k) = Len(u.stack) - 1 
        /\ \A n \in 1 .. Len(u.stack) - 1 : k[n] = u.stack[n]
        /\ ToSet(k) = ToSet(u.stack) \ {x}
        /\ \A y \in ToSet(k) : Less(y, x)
    BY <1>2, <1>3, RisingFront
  <1>5. x \in Elements(d, B) /\ x \in B /\ x \in Elements(d, D)
    BY <1>1 DEF Clear
  <1>6. x \notin ToSet(u.elements) /\ Fits(d, u.elements, x)
    BY <1>4 DEF Walk
  <1>7. Leaves(B, u.stack, x, k)
    BY <1>4, <1>5 DEF Leaves
  <1>8. Passes(B, P, x, P)
    BY <1>5 DEF Passes
  <1>9. IsNext(d, B, P, x)
    BY DEF Clear, IsNext
  <1>10. Joins(v.stack, k, InsertsAfter(d, B, x)) /\ Appends(v.elements, u.elements, x)
    BY DEF Joins, Appends, Unstacked
  <1> HIDE DEF x, k
  <1>11. k \in Seq(Elements(d, B)) /\ Rising(k) /\ (\A y \in ToSet(k) : Less(y, x))
    BY <1>4
  <1>12. x \in Elements(d, DOMAIN d.ops) /\ x \notin ToSet(u.elements) /\ Fits(d, u.elements, x)
    BY <1>5, <1>6
  <1>13. Walk(d, B, v, P)
    BY <1>11, <1>12, <1>7, <1>8, <1>9, <1>10, PassedIs
  <1>14. Grows(d, B, v.stack, k, x)
    BY <1>11, <1>12, <1>7, <1>8, <1>9, <1>10, PassedIs
  <1>15. Len(v.stack) \in Nat
    BY <1>13, LenProperties DEF Walk
  <1>16. Len(v.stack) >= Len(k) /\ \A n \in 1 .. Len(k) : v.stack[n] = k[n]
    BY <1>14 DEF Grows
  <1>17. Adds(v.elements, u.elements, x)
    BY <1>11, <1>12, <1>7, <1>8, <1>9, <1>10, PassedIs
  <1>18. \A n \in Len(k) + 1 .. Len(v.stack) : v.stack[n] \in Elements(d, B) /\ Less(x, v.stack[n])
    BY <1>14 DEF Grows
  <1>19. ASSUME NEW y \in Elements(d, B), Less(x, y) PROVE y \in Clear(d, B, P)
    <2> SUFFICES ASSUME NEW z \in Elements(d, DOMAIN d.ops \ B) \ P, d.ops[z].ref \in P \cup {Head0}
                 PROVE  Less(z, y)
      BY DEF Clear
    <2>1. Less(z, x)
      BY DEF Clear, x
    <2>2. x \in Nat \X Nat /\ y \in Nat \X Nat /\ z \in Nat \X Nat
      BY <1>1, <1>5
    <2> QED
      BY <1>19, <2>1, <2>2, LessIsOrder
  <1>20. (Len(u.stack) - 1) + 1 = Len(u.stack)
    BY <1>2
  <1>21. Len(v.stack) >= Len(u.stack) - 1 /\ Len(v.stack) \in Nat
    BY <1>4, <1>16, <1>15
  <1>22. \A n \in 1 .. Len(u.stack) - 1 : v.stack[n] = u.stack[n]
    BY <1>4, <1>16
  <1>23. \A n \in Len(u.stack) .. Len(v.stack) : v.stack[n] \in Clear(d, B, P)
    BY <1>4, <1>18, <1>19, <1>20
  <1> QED
    BY <1>5, <1>6, <1>13, <1>17, <1>21, <1>22, <1>23 DEF x, Lowers

\* States of the walk.
WalkStates(d, B) == [stack : Seq(Elements(d, B)), elements : Seq(Elements(d, DOMAIN d.ops))]

\* Any step stays among them.
LEMMA UnstackedStays ==
    ASSUME NEW d, NEW B, BatchOK(d, B), object = "list", NEW u \in WalkStates(d, B), Len(u.stack) > 0
    PROVE  Unstacked(d, B, u) \in WalkStates(d, B)
  <1> DEFINE D == DOMAIN d.ops
             x == Last(u.stack)
  <1>1. u.stack \in Seq(Elements(d, B)) /\ u.elements \in Seq(Elements(d, D)) /\ Len(u.stack) \in Nat
    BY LenProperties DEF WalkStates
  <1>2. x \in Elements(d, B)
    BY <1>1, SetOfSeq DEF Last
  <1>3. x \in Elements(d, D)
    BY <1>2 DEF BatchOK, Elements
  <1>4. Front(u.stack) \in Seq(Elements(d, B))
    <2>1. \A n \in 1 .. Len(u.stack) - 1 : u.stack[n] \in Elements(d, B)
      BY <1>1, ElementOfSeq
    <2>2. 1 \in Int /\ Len(u.stack) - 1 \in Int
      BY <1>1
    <2> QED
      BY <1>1, <2>1, <2>2, SubSeqProperties DEF Front
  <1>5. InsertsAfter(d, B, x) \in Seq(Elements(d, B))
    BY ChildrenHas
  <1>6. Front(u.stack) \o InsertsAfter(d, B, x) \in Seq(Elements(d, B))
    BY <1>4, <1>5, ConcatProperties
  <1>7. Append(u.elements, x) \in Seq(Elements(d, D))
    BY <1>1, <1>3, AppendProperties
  <1>8. Unstacked(d, B, u) = [stack |-> Front(u.stack) \o InsertsAfter(d, B, x), elements |-> Append(u.elements, x)]
    BY DEF Unstacked
  <1> QED
    BY <1>6, <1>7, <1>8 DEF WalkStates

\* From u the function f takes inserts from the stack until n are left.
Unstacks(d, B, u, n, f) ==
    f = [k \in 0 .. Cardinality(B) |->
            IF k = 0 THEN u
            ELSE LET v == f[k - 1] IN IF Len(v.stack) > n THEN Unstacked(d, B, v) ELSE v]

\* UnstackedTo goes on as often as the batch has operations.
LEMMA UnstackedToGoes ==
    ASSUME NEW d, NEW B, NEW u, NEW n, \E f : Unstacks(d, B, u, n, f)
    PROVE  \E f : Unstacks(d, B, u, n, f) /\ UnstackedTo(d, B, u, n) = f[Cardinality(B)]
  <1> DEFINE after[k \in 0 .. Cardinality(B)] ==
            IF k = 0 THEN u
            ELSE LET v == after[k - 1] IN IF Len(v.stack) > n THEN Unstacked(d, B, v) ELSE v
  <1>1. after = [k \in 0 .. Cardinality(B) |->
            IF k = 0 THEN u
            ELSE LET v == after[k - 1] IN IF Len(v.stack) > n THEN Unstacked(d, B, v) ELSE v]
    <2>1. \E f : f = [k \in 0 .. Cardinality(B) |->
            IF k = 0 THEN u
            ELSE LET v == f[k - 1] IN IF Len(v.stack) > n THEN Unstacked(d, B, v) ELSE v]
      BY DEF Unstacks
    <2> QED
      BY <2>1
  <1>2. Unstacks(d, B, u, n, after)
    <2> HIDE DEF after
    <2> QED
      BY <1>1 DEF Unstacks
  <1>3. UnstackedTo(d, B, u, n) = after[Cardinality(B)]
    BY DEF UnstackedTo
  <1> HIDE DEF after
  <1> QED
    BY <1>2, <1>3

\* The function exists.
LEMMA UnstacksExists ==
    ASSUME NEW d, NEW B, BatchOK(d, B), object = "list", NEW u \in WalkStates(d, B), NEW n \in Nat
    PROVE  \E f : Unstacks(d, B, u, n, f)
  <1> DEFINE X == WalkStates(d, B)
             N == Cardinality(B)
             next(v) == IF Len(v.stack) > n THEN Unstacked(d, B, v) ELSE v
             step == [p \in X \X (1 .. N) |-> next(p[1])]
  <1>1. N \in Nat
    BY FS_Subset, FS_CardinalityType DEF BatchOK, OpsOK
  <1>2. \A v \in X : next(v) \in X
    <2> TAKE v \in X
    <2>1. CASE Len(v.stack) > n
      <3>1. Len(v.stack) \in Nat
        BY LenProperties DEF WalkStates
      <3>2. Len(v.stack) > 0
        BY <2>1, <3>1
      <3> QED
        BY <2>1, <3>2, UnstackedStays
    <2>2. CASE ~(Len(v.stack) > n)
      BY <2>2
    <2> QED
      BY <2>1, <2>2
  <1>3. ASSUME NEW v \in X, NEW k \in 1 .. N PROVE step[<<v, k>>] = next(v)
    <2> HIDE DEF N, X, next
    <2> QED
      OBVIOUS
  <1> HIDE DEF X, N, step, next
  <1>4. StaysIn(X, N, step)
    BY <1>2, <1>3 DEF StaysIn
  <1>5. u \in X
    BY DEF X
  <1>6. PICK f : Follows(f, X, u, N, step)
    BY <1>1, <1>4, <1>5, Recursion
  <1>7. f \in [0 .. N -> X] /\ f[0] = u /\ \A k \in 1 .. N : f[k] = step[<<f[k - 1], k>>]
    BY <1>6 DEF Follows
  <1>8. ASSUME NEW k \in 1 .. N PROVE f[k] = next(f[k - 1])
    <2>1. k - 1 \in 0 .. N
      BY <1>1
    <2>2. f[k - 1] \in X
      BY <1>7, <2>1
    <2> QED
      BY <1>3, <1>7, <2>2
  <1>9. \A k \in 0 .. N : k = 0 \/ k \in 1 .. N
    BY <1>1
  <1>10. \A k \in 0 .. N : f[k] = IF k = 0 THEN u ELSE next(f[k - 1])
    BY <1>7, <1>8, <1>9
  <1>11. f = [k \in 0 .. N |-> IF k = 0 THEN u ELSE next(f[k - 1])]
    BY <1>7, <1>10
  <1> QED
    BY <1>11 DEF Unstacks, N, next

\* After j steps: n of the inserts are left, or j of the batch are passed.
Unstacking(d, B, P, u, n, j, v) ==
    /\ v \in WalkStates(d, B)
    /\ Walk(d, B, v, P)
    /\ Len(v.stack) >= n
    /\ \A k \in 1 .. n : v.stack[k] = u.stack[k]
    /\ \A k \in n + 1 .. Len(v.stack) : v.stack[k] \in Clear(d, B, P)
    /\ Len(v.stack) = n \/ Cardinality(ToSet(v.elements) \cap B) >= j

\* As long as more than n inserts are left, one more of the batch is passed.
LEMMA UnstackingGoesOn ==
    ASSUME NEW d, NEW B, BatchOK(d, B), object = "list", NEW P, NEW u, NEW n \in Nat, NEW j \in Nat,
           NEW v, Unstacking(d, B, P, u, n, j, v), Len(v.stack) > n
    PROVE  Unstacking(d, B, P, u, n, j + 1, Unstacked(d, B, v))
  <1> DEFINE x == Last(v.stack)
             w == Unstacked(d, B, v)
  <1>1. /\ v \in WalkStates(d, B) /\ Walk(d, B, v, P)
        /\ \A k \in 1 .. n : v.stack[k] = u.stack[k]
        /\ \A k \in n + 1 .. Len(v.stack) : v.stack[k] \in Clear(d, B, P)
        /\ Len(v.stack) = n \/ Cardinality(ToSet(v.elements) \cap B) >= j
    BY DEF Unstacking
  <1>2. Len(v.stack) \in Nat /\ v.elements \in Seq(Elements(d, DOMAIN d.ops))
    BY <1>1, LenProperties DEF Walk
  <1>3. x \in Clear(d, B, P)
    <2>1. Len(v.stack) \in n + 1 .. Len(v.stack)
      BY <1>2
    <2> QED
      BY <1>1, <2>1 DEF Last
  <1>4. Len(v.stack) > 0
    BY <1>2
  <1> HIDE DEF x, w
  <1>5. Walk(d, B, w, P)
    BY <1>1, <1>3, <1>4, UnstackedIs DEF x, w
  <1>6. Adds(w.elements, v.elements, x)
    BY <1>1, <1>3, <1>4, UnstackedIs DEF x, w
  <1>7. x \in B \ ToSet(v.elements)
    BY <1>1, <1>3, <1>4, UnstackedIs DEF x, w
  <1>8. Lowers(d, B, P, w.stack, v.stack)
    BY <1>1, <1>3, <1>4, UnstackedIs DEF x, w
  <1>9. /\ Len(w.stack) >= Len(v.stack) - 1
        /\ \A k \in 1 .. Len(v.stack) - 1 : w.stack[k] = v.stack[k]
        /\ \A k \in Len(v.stack) .. Len(w.stack) : w.stack[k] \in Clear(d, B, P)
    BY <1>8 DEF Lowers
  <1>10. w \in WalkStates(d, B)
    BY <1>1, <1>4, UnstackedStays DEF w
  <1>11. Len(w.stack) \in Nat
    BY <1>5, LenProperties DEF Walk
  <1>12. Len(w.stack) >= n
    BY <1>2, <1>9, <1>11
  <1>13. \A k \in 1 .. n : w.stack[k] = u.stack[k]
    <2> TAKE k \in 1 .. n
    <2>1. k \in 1 .. Len(v.stack) - 1
      BY <1>2
    <2> QED
      BY <1>1, <1>9, <2>1
  <1>14. \A k \in n + 1 .. Len(w.stack) : w.stack[k] \in Clear(d, B, P)
    <2> TAKE k \in n + 1 .. Len(w.stack)
    <2>1. CASE k \in 1 .. Len(v.stack) - 1
      <3>1. k \in n + 1 .. Len(v.stack)
        BY <1>2, <2>1
      <3> QED
        BY <1>1, <1>9, <2>1, <3>1
    <2>2. CASE k \in Len(v.stack) .. Len(w.stack)
      BY <1>9, <2>2
    <2> QED
      BY <1>2, <1>11, <2>1, <2>2
  <1>15. Cardinality(ToSet(w.elements) \cap B) >= j + 1
    <2>1. IsFiniteSet(B)
      BY FS_Subset DEF BatchOK, OpsOK
    <2>2. IsFiniteSet(ToSet(v.elements) \cap B)
      BY <2>1, FS_Subset
    <2>3. ToSet(w.elements) \cap B = (ToSet(v.elements) \cap B) \cup {x}
      BY <1>6, <1>7 DEF Adds
    <2>4. Cardinality(ToSet(w.elements) \cap B) = Cardinality(ToSet(v.elements) \cap B) + 1
      BY <1>7, <2>2, <2>3, FS_AddElement
    <2>5. Cardinality(ToSet(v.elements) \cap B) \in Nat
      BY <2>2, FS_CardinalityType
    <2>6. Cardinality(ToSet(v.elements) \cap B) >= j
      BY <1>1, <1>2
    <2> QED
      BY <2>4, <2>5, <2>6
  <1> QED
    BY <1>5, <1>10, <1>12, <1>13, <1>14, <1>15 DEF Unstacking, w

\* The stack s down to its first n inserts.
Cut(s, n, t) == Len(t) = n /\ \A k \in 1 .. n : t[k] = s[k]

\* What is clear is passed until n inserts are left.
LEMMA UnstackedToIs ==
    ASSUME NEW d, NEW B, BatchOK(d, B), object = "list", NEW P,
           NEW u \in WalkStates(d, B), Walk(d, B, u, P), NEW n \in Nat, n <= Len(u.stack),
           \A k \in n + 1 .. Len(u.stack) : u.stack[k] \in Clear(d, B, P),
           NEW v, v = UnstackedTo(d, B, u, n)
    PROVE  v \in WalkStates(d, B) /\ Walk(d, B, v, P) /\ Cut(u.stack, n, v.stack)
  <1> DEFINE N == Cardinality(B)
  <1>1. IsFiniteSet(B) /\ N \in Nat
    BY FS_Subset, FS_CardinalityType DEF BatchOK, OpsOK
  <1>2. PICK f : Unstacks(d, B, u, n, f) /\ v = f[N]
    <2>1. \E f : Unstacks(d, B, u, n, f)
      BY UnstacksExists
    <2> QED
      BY <2>1, UnstackedToGoes
  <1>3. /\ f[0] = u
        /\ \A k \in 1 .. N : f[k] = IF Len(f[k - 1].stack) > n THEN Unstacked(d, B, f[k - 1]) ELSE f[k - 1]
    <2>1. f = [k \in 0 .. N |->
            IF k = 0 THEN u
            ELSE IF Len(f[k - 1].stack) > n THEN Unstacked(d, B, f[k - 1]) ELSE f[k - 1]]
      BY <1>2 DEF Unstacks
    <2>2. 0 \in 0 .. N /\ \A k \in 1 .. N : k \in 0 .. N /\ k # 0
      BY <1>1
    <2> HIDE DEF N
    <2> QED
      BY <2>1, <2>2
  <1> DEFINE S == {j \in 0 .. N : Unstacking(d, B, P, u, n, j, f[j])}
  <1>4. 0 \in S
    <2>1. IsFiniteSet(ToSet(u.elements) \cap B)
      BY <1>1, FS_Subset
    <2>2. Cardinality(ToSet(u.elements) \cap B) >= 0
      BY <2>1, FS_CardinalityType
    <2>3. Len(u.stack) >= n
      BY LenProperties DEF Walk
    <2>4. 0 \in 0 .. N
      BY <1>1
    <2> QED
      BY <1>3, <2>2, <2>3, <2>4 DEF Unstacking
  <1>5. ASSUME NEW j \in 1 .. N, j - 1 \in S PROVE j \in S
    <2> DEFINE w == f[j - 1]
    <2>1. j - 1 \in Nat /\ (j - 1) + 1 = j /\ j \in 0 .. N
      BY <1>1
    <2>2. Unstacking(d, B, P, u, n, j - 1, w)
      BY <1>5
    <2>3. f[j] = IF Len(w.stack) > n THEN Unstacked(d, B, w) ELSE w
      BY <1>3
    <2> HIDE DEF w
    <2>4. CASE Len(w.stack) > n
      <3>1. Unstacking(d, B, P, u, n, (j - 1) + 1, Unstacked(d, B, w))
        BY <2>1, <2>2, <2>4, UnstackingGoesOn
      <3> QED
        BY <2>1, <2>3, <2>4, <3>1
    <2>5. CASE ~(Len(w.stack) > n)
      <3>1. Len(w.stack) \in Nat
        BY <2>2, LenProperties DEF Unstacking, Walk
      <3>2. Len(w.stack) = n
        BY <2>2, <2>5, <3>1 DEF Unstacking
      <3>3. Unstacking(d, B, P, u, n, j, w)
        BY <2>2, <3>2 DEF Unstacking
      <3> QED
        BY <2>1, <2>3, <2>5, <3>3
    <2> QED
      BY <2>4, <2>5
  <1>6. N \in S
    <2>1. S \in SUBSET (0 .. N)
      OBVIOUS
    <2> HIDE DEF S, N
    <2>2. S = 0 .. N
      BY <1>1, <1>4, <1>5, <2>1, UpTo
    <2> QED
      BY <1>1, <2>2
  <1>7. Unstacking(d, B, P, u, n, N, v)
    BY <1>2, <1>6
  <1>8. Len(v.stack) \in Nat /\ v.stack \in Seq(Elements(d, B)) /\ v.elements \in Seq(Elements(d, DOMAIN d.ops))
    BY <1>7, LenProperties DEF Unstacking, Walk
  <1>9. Len(v.stack) = n
    <2> SUFFICES ASSUME Cardinality(ToSet(v.elements) \cap B) >= N, Len(v.stack) > 0 PROVE FALSE
      BY <1>7, <1>8 DEF Unstacking
    <2>1. ToSet(v.elements) \cap B \subseteq B
      OBVIOUS
    <2>2. /\ Cardinality(ToSet(v.elements) \cap B) \in Nat
          /\ Cardinality(ToSet(v.elements) \cap B) <= N
          /\ Cardinality(ToSet(v.elements) \cap B) = N => ToSet(v.elements) \cap B = B
      BY <1>1, <2>1, FS_Subset, FS_CardinalityType
    <2>3. B \subseteq ToSet(v.elements)
      BY <1>1, <2>2
    <2>4. v.stack[1] \in ToSet(v.stack) /\ v.stack[1] \in Elements(d, B)
      <3>1. 1 \in 1 .. Len(v.stack)
        BY <1>8
      <3> QED
        BY <1>8, <3>1, SetOfSeq
    <2>5. v.stack[1] \in B
      BY <2>4 DEF Elements
    <2> QED
      BY <1>7, <2>3, <2>4, <2>5 DEF Unstacking, Walk
  <1> QED
    BY <1>7, <1>9 DEF Unstacking, Cut

\* A state of the walk stays one.
LEMMA UnstackedToStays ==
    ASSUME NEW d, NEW B, BatchOK(d, B), object = "list", NEW u \in WalkStates(d, B), NEW n \in Nat
    PROVE  UnstackedTo(d, B, u, n) \in WalkStates(d, B)
  <1> DEFINE N == Cardinality(B)
  <1>1. N \in Nat
    BY FS_Subset, FS_CardinalityType DEF BatchOK, OpsOK
  <1>2. PICK f : Unstacks(d, B, u, n, f) /\ UnstackedTo(d, B, u, n) = f[N]
    <2>1. \E f : Unstacks(d, B, u, n, f)
      BY UnstacksExists
    <2> QED
      BY <2>1, UnstackedToGoes
  <1>3. /\ f[0] = u
        /\ \A k \in 1 .. N : f[k] = IF Len(f[k - 1].stack) > n THEN Unstacked(d, B, f[k - 1]) ELSE f[k - 1]
    <2>1. f = [k \in 0 .. N |->
            IF k = 0 THEN u
            ELSE IF Len(f[k - 1].stack) > n THEN Unstacked(d, B, f[k - 1]) ELSE f[k - 1]]
      BY <1>2 DEF Unstacks
    <2>2. 0 \in 0 .. N /\ \A k \in 1 .. N : k \in 0 .. N /\ k # 0
      BY <1>1
    <2> HIDE DEF N
    <2> QED
      BY <2>1, <2>2
  <1> DEFINE S == {j \in 0 .. N : f[j] \in WalkStates(d, B)}
  <1>4. 0 \in S
    BY <1>1, <1>3
  <1>5. ASSUME NEW j \in 1 .. N, j - 1 \in S PROVE j \in S
    <2> DEFINE w == f[j - 1]
    <2>1. j \in 0 .. N /\ w \in WalkStates(d, B)
      BY <1>1, <1>5
    <2>2. f[j] = IF Len(w.stack) > n THEN Unstacked(d, B, w) ELSE w
      BY <1>3
    <2> HIDE DEF w
    <2>3. Len(w.stack) \in Nat
      BY <2>1, LenProperties DEF WalkStates
    <2>4. Len(w.stack) > n => Unstacked(d, B, w) \in WalkStates(d, B)
      BY <2>1, <2>3, UnstackedStays
    <2> QED
      BY <2>1, <2>2, <2>4
  <1>6. N \in S
    <2>1. S \in SUBSET (0 .. N)
      OBVIOUS
    <2> HIDE DEF S, N
    <2>2. S = 0 .. N
      BY <1>1, <1>4, <1>5, <2>1, UpTo
    <2> QED
      BY <1>1, <2>2
  <1> QED
    BY <1>2, <1>6

\* A set of numbers that has all that are less than one of them.
LEMMA Downward ==
    ASSUME NEW L \in Nat, NEW A \in SUBSET (1 .. L), \A k \in A : \A j \in 1 .. k : j \in A
    PROVE  A = 1 .. Cardinality(A) /\ Cardinality(A) \in 0 .. L
  <1>1. CASE A = {}
    <2>1. Cardinality(A) = 0
      BY <1>1, FS_EmptySet
    <2> QED
      BY <1>1, <2>1
  <1>2. CASE A # {}
    <2>1. A \in SUBSET Nat /\ \A n \in A : n <= L
      OBVIOUS
    <2>2. PICK m \in A : \A k \in A : k <= m
      BY <1>2, <2>1, MaxIs
    <2>3. m \in 1 .. L /\ m \in Nat
      OBVIOUS
    <2>4. \A k \in A : k \in 1 .. m
      BY <2>1, <2>2, <2>3
    <2>5. A = 1 .. m
      BY <2>2, <2>4
    <2>6. Cardinality(1 .. m) = m
      BY <2>3, FS_Interval
    <2> QED
      BY <2>3, <2>5, <2>6
  <1> QED
    BY <1>1, <1>2

\* The first n of the elements s.
Firsts(s, n) == {s[k] : k \in 1 .. n}

\* The elements of the document before a batch.
OldOK(d, B, old) ==
    /\ old \in Seq(Elements(d, DOMAIN d.ops \ B)) /\ Distinct(old)
    /\ ToSet(old) = Elements(d, DOMAIN d.ops \ B)
    /\ InTree(d, old)

\* The next element of the document is passed, and before it the inserts of
\* the batch that are later.
LEMMA UntangledIs ==
    ASSUME NEW d, NEW B, BatchOK(d, B), object = "list", NEW old, OldOK(d, B, old),
           NEW m \in 1 .. Len(old), NEW u \in WalkStates(d, B), Walk(d, B, u, Firsts(old, m - 1)),
           NEW w, w = Untangled(d, B, u, old[m])
    PROVE  Walk(d, B, w, Firsts(old, m))
  <1> DEFINE e == old[m]
             D == DOMAIN d.ops
             O == Elements(d, DOMAIN d.ops \ B)
             P == Firsts(old, m - 1)
             Q == Firsts(old, m)
             A == {k \in DOMAIN u.stack : Less(u.stack[k], e)}
             n == Cardinality(A)
             v == UnstackedTo(d, B, u, n)
             L == Len(u.stack)
  <1>1. /\ old \in Seq(O) /\ Distinct(old) /\ ToSet(old) = O /\ InTree(d, old)
        /\ Len(old) \in Nat /\ DOMAIN old = 1 .. Len(old)
        /\ \A k \in 1 .. Len(old) : old[k] \in O
        /\ \A x \in O : \E k \in 1 .. Len(old) : old[k] = x
        /\ e \in O
    <2>1. old \in Seq(O) /\ Distinct(old) /\ ToSet(old) = O /\ InTree(d, old)
      BY DEF OldOK
    <2> QED
      BY <2>1, SetOfSeq
  <1>2. /\ O \in SUBSET (Nat \X Nat) /\ O \subseteq Elements(d, D)
        /\ \A x \in O : x \notin B
        /\ Elements(d, B) \in SUBSET (Nat \X Nat) /\ \A x \in Elements(d, B) : x \in B
    BY DEF BatchOK, OpsOK, Elements
  <1>3. \A j, k \in 1 .. Len(old) : old[j] = old[k] => j = k
    BY <1>1 DEF Distinct
  <1>4. e \notin P
    BY <1>1, <1>3 DEF Firsts
  <1>5. Passes(B, P, e, Q)
    <2> SUFFICES ASSUME NEW y PROVE y \in Q <=> y \in P \/ (y = e /\ e \notin B)
      BY DEF Passes
    <2>1. e \notin B
      BY <1>1, <1>2
    <2>2. \A k : k \in 1 .. m <=> k \in 1 .. m - 1 \/ k = m
      BY <1>1
    <2>3. y \in Q <=> \E k \in 1 .. m : y = old[k]
      BY DEF Firsts
    <2>4. y \in P <=> \E k \in 1 .. m - 1 : y = old[k]
      BY DEF Firsts
    <2> QED
      BY <2>1, <2>2, <2>3, <2>4
  <1>6. d.ops[e].ref \in P \cup {Head0}
    <2>1. SUFFICES ASSUME d.ops[e].ref # Head0 PROVE d.ops[e].ref \in P
      OBVIOUS
    <2>2. Precedes(old, d.ops[e].ref, e)
      BY <1>1, <2>1 DEF InTree
    <2>3. PICK j, k \in 1 .. Len(old) : j < k /\ old[j] = d.ops[e].ref /\ old[k] = e
      BY <1>1, <2>2 DEF Precedes
    <2>4. k = m
      BY <1>3, <2>3
    <2>5. j \in 1 .. m - 1
      BY <1>1, <2>3, <2>4
    <2> QED
      BY <2>3, <2>5 DEF Firsts
  <1>7. IsNext(d, B, P, e)
    <2> SUFFICES ASSUME NEW z \in O, z \notin P, z # e, d.ops[z].ref \in P \cup {Head0}
                 PROVE  Less(z, e)
      BY DEF IsNext
    <2>1. PICK k \in 1 .. Len(old) : old[k] = z
      BY <1>1
    <2>2. k \notin 1 .. m - 1 /\ k # m
      BY <2>1 DEF Firsts
    <2>3. m < k
      BY <1>1, <2>2
    <2>4. Precedes(old, e, z)
      BY <1>1, <2>1, <2>3 DEF Precedes
    <2>5. d.ops[z].ref = Head0 \/ Precedes(old, d.ops[z].ref, e)
      <3> SUFFICES ASSUME d.ops[z].ref \in P PROVE Precedes(old, d.ops[z].ref, e)
        OBVIOUS
      <3>1. PICK j \in 1 .. m - 1 : old[j] = d.ops[z].ref
        BY DEF Firsts
      <3>2. j \in 1 .. Len(old) /\ j < m
        BY <1>1
      <3> QED
        BY <1>1, <3>1, <3>2 DEF Precedes
    <2> QED
      BY <1>1, <2>4, <2>5 DEF InTree
  <1>8. u.stack \in Seq(Elements(d, B)) /\ Rising(u.stack) /\ L \in Nat /\ DOMAIN u.stack = 1 .. L
    BY LenProperties DEF Walk
  <1>9. \A k \in 1 .. L : u.stack[k] \in Elements(d, B)
    BY <1>8, ElementOfSeq
  <1>10. A = 1 .. n /\ n \in 0 .. L
    <2>1. \A k \in A : \A j \in 1 .. k : j \in A
      <3> TAKE k \in A
      <3> TAKE j \in 1 .. k
      <3>1. j \in 1 .. L /\ (j = k \/ j < k)
        BY <1>8
      <3>2. CASE j < k
        <4>1. Less(u.stack[j], u.stack[k])
          BY <1>8, <3>1, <3>2 DEF Rising
        <4>2. Less(u.stack[k], e)
          OBVIOUS
        <4>3. u.stack[j] \in Nat \X Nat /\ u.stack[k] \in Nat \X Nat /\ e \in Nat \X Nat
          BY <1>1, <1>2, <1>8, <1>9, <3>1
        <4>4. Less(u.stack[j], e)
          BY <4>1, <4>2, <4>3, LessIsOrder
        <4> QED
          BY <1>8, <3>1, <4>4
      <3> QED
        BY <3>1, <3>2
    <2>2. A \in SUBSET (1 .. L)
      BY <1>8
    <2> HIDE DEF A, L
    <2> QED
      BY <1>8, <2>1, <2>2, Downward
  <1>11. \A k \in n + 1 .. L : Less(e, u.stack[k])
    <2> TAKE k \in n + 1 .. L
    <2>1. k \in 1 .. L /\ k \notin 1 .. n
      BY <1>8, <1>10
    <2>2. k \notin A
      BY <1>10, <2>1
    <2>3. ~Less(u.stack[k], e)
      BY <1>8, <2>1, <2>2
    <2>4. u.stack[k] # e /\ u.stack[k] \in Nat \X Nat /\ e \in Nat \X Nat
      BY <1>1, <1>2, <1>9, <2>1
    <2> QED
      BY <2>3, <2>4, LessIsOrder
  <1>12. \A k \in 1 .. n : Less(u.stack[k], e)
    BY <1>10
  <1> HIDE DEF A
  <1>13. \A k \in n + 1 .. L : u.stack[k] \in Clear(d, B, P)
    <2> TAKE k \in n + 1 .. L
    <2>1. u.stack[k] \in Elements(d, B)
      BY <1>8, <1>9, <1>10
    <2> SUFFICES ASSUME NEW z \in O \ P, d.ops[z].ref \in P \cup {Head0} PROVE Less(z, u.stack[k])
      BY <2>1 DEF Clear
    <2>2. z = e \/ Less(z, e)
      BY <1>7 DEF IsNext
    <2>3. z \in Nat \X Nat /\ e \in Nat \X Nat /\ u.stack[k] \in Nat \X Nat
      BY <1>1, <1>2, <2>1
    <2> QED
      BY <1>11, <2>2, <2>3, LessIsOrder
  <1>14. n \in Nat /\ n <= L
    BY <1>8, <1>10
  <1> HIDE DEF n, e, P, Q
  <1>15. v \in WalkStates(d, B) /\ Walk(d, B, v, P) /\ Cut(u.stack, n, v.stack)
    BY <1>13, <1>14, UnstackedToIs DEF P
  <1>16. v.stack \in Seq(Elements(d, B)) /\ Rising(v.stack)
    BY <1>15 DEF Walk
  <1>17. \A y \in ToSet(v.stack) : Less(y, e)
    <2> TAKE y \in ToSet(v.stack)
    <2>1. PICK k \in 1 .. Len(v.stack) : v.stack[k] = y
      BY <1>16, SetOfSeq
    <2>2. k \in 1 .. n /\ y = u.stack[k]
      BY <1>15, <2>1 DEF Cut
    <2> QED
      BY <1>12, <2>2
  <1>18. e \notin B /\ e \in Elements(d, DOMAIN d.ops)
    BY <1>1, <1>2
  <1>19. e \notin ToSet(v.elements) /\ Fits(d, v.elements, e)
    <2>1. \A x : (x \in ToSet(v.elements) /\ x \notin B) <=> x \in P
      BY <1>15 DEF Walk
    <2>2. \A x \in O \ P : d.ops[x].ref \in P \cup {Head0} => Fits(d, v.elements, x)
      BY <1>15 DEF Walk
    <2> QED
      BY <1>1, <1>4, <1>6, <1>18, <2>1, <2>2
  <1>20. Leaves(B, v.stack, e, v.stack)
    BY <1>18 DEF Leaves
  <1>21. Joins(w.stack, v.stack, InsertsAfter(d, B, e)) /\ Appends(w.elements, v.elements, e)
    BY DEF Joins, Appends, Untangled, v, n, A, e
  <1> HIDE DEF v
  <1>22. Walk(d, B, w, Q)
    BY <1>5, <1>7, <1>15, <1>16, <1>17, <1>18, <1>19, <1>20, <1>21, PassedIs
  <1> QED
    BY <1>22 DEF Q

\* The elements of the rows of a list.
Listed(d) == Only(d.order, {i \in DOMAIN d.ops : d.ops[i].insert})

\* They are in the rows of the document.
LEMMA ListedHas ==
    ASSUME NEW d, NEW H, OpsOK(d), RowsOK(d, H), object = "list"
    PROVE  /\ Listed(d) \in Seq(Elements(d, H)) /\ Distinct(Listed(d))
           /\ ToSet(Listed(d)) = Elements(d, H)
           /\ \A x, y \in Elements(d, H) : Precedes(Listed(d), x, y) <=> Precedes(d.order, x, y)
  <1> DEFINE V == {i \in DOMAIN d.ops : d.ops[i].insert}
  <1>1. /\ d.order \in Seq(H) /\ Distinct(d.order) /\ H \subseteq DOMAIN d.ops
        /\ ToSet(d.order) = {i \in H : HasRow(d, i)}
    BY DEF RowsOK
  <1>2. \A i \in V : HasRow(d, i)
    BY DEF OpsOK
  <1>3. Elements(d, H) = H \cap V
    BY <1>1 DEF Elements
  <1>4. ToSet(d.order) \cap V = Elements(d, H)
    BY <1>1, <1>2, <1>3
  <1>5. Listed(d) = Only(d.order, V)
    BY DEF Listed
  <1> HIDE DEF V
  <1>6. Listed(d) \in Seq(H) /\ Keeps(Listed(d), d.order, V)
    BY <1>1, <1>5, OnlyHas
  <1>7. /\ ToSet(Listed(d)) = ToSet(d.order) \cap V
        /\ Distinct(Listed(d))
        /\ \A x, y : Precedes(Listed(d), x, y) <=> x \in V /\ y \in V /\ Precedes(d.order, x, y)
    BY <1>1, <1>6 DEF Keeps
  <1>8. Listed(d) \in Seq(Elements(d, H))
    BY <1>4, <1>6, <1>7, SeqWithin
  <1> QED
    BY <1>3, <1>4, <1>7, <1>8

\* Before the first element of the document.
LEMMA WalkBegins ==
    ASSUME NEW d, NEW B, BatchOK(d, B), object = "list",
           NEW u, u = [stack |-> InsertsAfter(d, B, Head0), elements |-> <<>>]
    PROVE  u \in WalkStates(d, B) /\ Walk(d, B, u, {})
  <1> DEFINE c == InsertsAfter(d, B, Head0)
             T == Elements(d, DOMAIN d.ops)
  <1>1. /\ c \in Seq(Elements(d, B)) /\ Rising(c)
        /\ \A x : x \in ToSet(c) <=> x \in Elements(d, B) /\ d.ops[x].ref = Head0
    BY ChildrenHas
  <1>2. <<>> \in Seq(T) /\ Distinct(<<>>) /\ ToSet(<<>>) = {}
    BY DEF ToSet, Distinct
  <1>3. u.stack = c /\ u.elements = <<>>
    OBVIOUS
  <1>4. u \in WalkStates(d, B)
    BY <1>1, <1>2 DEF WalkStates
  <1> HIDE DEF c, T
  <1>5. \A x : d.ops[x].ref = Head0 => Fits(d, <<>>, x)
    BY <1>2 DEF Fits
  <1>6. InTree(d, <<>>)
    BY <1>2 DEF InTree
  <1>7. \A x \in ToSet(c) : x \notin ToSet(<<>>)
    BY <1>2
  <1>8. \A x : (x \in ToSet(<<>>) /\ x \notin B) <=> x \in {}
    BY <1>2
  <1>9. \A x \in Elements(d, B) : x \in ToSet(c) \cup ToSet(<<>>) <=> d.ops[x].ref \in ToSet(<<>>) \cup {Head0}
    BY <1>1, <1>2
  <1>10. \A x \in ToSet(c) : Fits(d, <<>>, x)
    BY <1>1, <1>5
  <1>11. \A x \in Elements(d, DOMAIN d.ops \ B) \ {} : d.ops[x].ref \in {} \cup {Head0} => Fits(d, <<>>, x)
    BY <1>5
  <1>12. <<>> \in Seq(Elements(d, DOMAIN d.ops)) /\ Distinct(<<>>)
    BY <1>2 DEF T
  <1> QED
    BY <1>1, <1>3, <1>4, <1>6, <1>7, <1>8, <1>9, <1>10, <1>11, <1>12 DEF Walk

\* A state of the walk stays one.
LEMMA UntangledStays ==
    ASSUME NEW d, NEW B, BatchOK(d, B), object = "list", NEW u \in WalkStates(d, B),
           NEW e \in Elements(d, DOMAIN d.ops)
    PROVE  Untangled(d, B, u, e) \in WalkStates(d, B)
  <1> DEFINE n == Cardinality({k \in DOMAIN u.stack : Less(u.stack[k], e)})
             v == UnstackedTo(d, B, u, n)
  <1>1. n \in Nat
    <2>1. DOMAIN u.stack = 1 .. Len(u.stack) /\ Len(u.stack) \in Nat
      BY LenProperties DEF WalkStates
    <2>2. IsFiniteSet({k \in DOMAIN u.stack : Less(u.stack[k], e)})
      <3>1. IsFiniteSet(1 .. Len(u.stack))
        BY <2>1, FS_Interval
      <3>2. {k \in DOMAIN u.stack : Less(u.stack[k], e)} \subseteq 1 .. Len(u.stack)
        BY <2>1
      <3> QED
        BY <3>1, <3>2, FS_Subset
    <2> QED
      BY <2>2, FS_CardinalityType
  <1>2. Untangled(d, B, u, e) = [stack |-> v.stack \o InsertsAfter(d, B, e), elements |-> Append(v.elements, e)]
    BY DEF Untangled
  <1> HIDE DEF n
  <1>3. v \in WalkStates(d, B)
    BY <1>1, UnstackedToStays
  <1> HIDE DEF v
  <1>4. v.stack \in Seq(Elements(d, B)) /\ v.elements \in Seq(Elements(d, DOMAIN d.ops))
    BY <1>3 DEF WalkStates
  <1>5. InsertsAfter(d, B, e) \in Seq(Elements(d, B))
    BY ChildrenHas
  <1>6. v.stack \o InsertsAfter(d, B, e) \in Seq(Elements(d, B))
    BY <1>4, <1>5, ConcatProperties
  <1>7. Append(v.elements, e) \in Seq(Elements(d, DOMAIN d.ops))
    BY <1>4, AppendProperties
  <1> QED
    BY <1>2, <1>6, <1>7 DEF WalkStates

\* The function f walks through the elements old.
Walks(d, B, old, f) ==
    f = [n \in 0 .. Len(old) |->
            IF n = 0 THEN [stack |-> InsertsAfter(d, B, Head0), elements |-> <<>>]
            ELSE Untangled(d, B, f[n - 1], old[n])]

\* ElementsWith walks through the elements of the document.
LEMMA ElementsWithGoes ==
    ASSUME NEW d, NEW B, NEW old, old = Listed(d), object = "list", \E f : Walks(d, B, old, f)
    PROVE  \E f : Walks(d, B, old, f) /\ ElementsWith(d, B) = UnstackedTo(d, B, f[Len(old)], 0).elements
  <1> DEFINE walked[n \in 0 .. Len(old)] ==
            IF n = 0 THEN [stack |-> InsertsAfter(d, B, Head0), elements |-> <<>>]
            ELSE Untangled(d, B, walked[n - 1], old[n])
  <1>1. walked = [n \in 0 .. Len(old) |->
            IF n = 0 THEN [stack |-> InsertsAfter(d, B, Head0), elements |-> <<>>]
            ELSE Untangled(d, B, walked[n - 1], old[n])]
    <2>1. \E f : f = [n \in 0 .. Len(old) |->
            IF n = 0 THEN [stack |-> InsertsAfter(d, B, Head0), elements |-> <<>>]
            ELSE Untangled(d, B, f[n - 1], old[n])]
      BY DEF Walks
    <2> QED
      BY <2>1
  <1>2. Walks(d, B, old, walked)
    <2> HIDE DEF walked
    <2> QED
      BY <1>1 DEF Walks
  <1>3. ElementsWith(d, B) = UnstackedTo(d, B, walked[Len(old)], 0).elements
    BY DEF ElementsWith, Listed
  <1> HIDE DEF walked
  <1> QED
    BY <1>2, <1>3

\* The function exists.
LEMMA WalksExists ==
    ASSUME NEW d, NEW B, BatchOK(d, B), object = "list",
           NEW old \in Seq(Elements(d, DOMAIN d.ops \ B))
    PROVE  \E f : Walks(d, B, old, f)
  <1> DEFINE X == WalkStates(d, B)
             N == Len(old)
             u == [stack |-> InsertsAfter(d, B, Head0), elements |-> <<>>]
             step == [p \in X \X (1 .. N) |-> Untangled(d, B, p[1], old[p[2]])]
  <1>1. N \in Nat /\ \A n \in 1 .. N : old[n] \in Elements(d, DOMAIN d.ops)
    <2>1. N \in Nat /\ \A n \in 1 .. N : old[n] \in Elements(d, DOMAIN d.ops \ B)
      BY LenProperties, ElementOfSeq
    <2> QED
      BY <2>1 DEF Elements
  <1>2. u \in X
    BY WalkBegins
  <1>3. ASSUME NEW v \in X, NEW k \in 1 .. N PROVE step[<<v, k>>] = Untangled(d, B, v, old[k])
    <2> HIDE DEF N, X
    <2> QED
      OBVIOUS
  <1> HIDE DEF N, step, u
  <1>4. StaysIn(X, N, step)
    <2>1. \A v \in X, k \in 1 .. N : Untangled(d, B, v, old[k]) \in X
      BY <1>1, UntangledStays
    <2> QED
      BY <1>3, <2>1 DEF StaysIn
  <1> HIDE DEF X
  <1>5. PICK f : Follows(f, X, u, N, step)
    BY <1>1, <1>2, <1>4, Recursion
  <1>6. f \in [0 .. N -> X] /\ f[0] = u /\ \A k \in 1 .. N : f[k] = step[<<f[k - 1], k>>]
    BY <1>5 DEF Follows
  <1>7. ASSUME NEW k \in 1 .. N PROVE f[k] = Untangled(d, B, f[k - 1], old[k])
    <2>1. k - 1 \in 0 .. N
      BY <1>1
    <2>2. f[k - 1] \in X
      BY <1>6, <2>1
    <2> QED
      BY <1>3, <1>6, <2>2
  <1>8. \A k \in 0 .. N : k = 0 \/ k \in 1 .. N
    BY <1>1
  <1>9. \A k \in 0 .. N : f[k] = IF k = 0 THEN u ELSE Untangled(d, B, f[k - 1], old[k])
    BY <1>6, <1>7, <1>8
  <1>10. f = [k \in 0 .. N |-> IF k = 0 THEN u ELSE Untangled(d, B, f[k - 1], old[k])]
    BY <1>6, <1>9
  <1> QED
    BY <1>10 DEF Walks, N, u

\* All inserts of the batch have been passed when none waits.
LEMMA WalkEnds ==
    ASSUME NEW d, NEW B, BatchOK(d, B), object = "list", NEW u,
           Walk(d, B, u, Elements(d, DOMAIN d.ops \ B)), ToSet(u.stack) = {}
    PROVE  ToSet(u.elements) = Elements(d, DOMAIN d.ops)
  <1> DEFINE D == DOMAIN d.ops
             E == ToSet(u.elements)
             M == Elements(d, B) \ E
  <1>1. /\ u.elements \in Seq(Elements(d, DOMAIN d.ops))
        /\ \A x : (x \in E /\ x \notin B) <=> x \in Elements(d, DOMAIN d.ops \ B)
        /\ \A x \in Elements(d, B) : x \in E <=> d.ops[x].ref \in E \cup {Head0}
    BY DEF Walk
  <1>2. E \subseteq Elements(d, D)
    BY <1>1, SetOfSeq
  <1>3. /\ Elements(d, D) = Elements(d, B) \cup Elements(d, DOMAIN d.ops \ B)
        /\ D \in SUBSET (Nat \X Nat) /\ IsFiniteSet(D) /\ Elements(d, B) \subseteq D
        /\ Elements(d, B) \subseteq B
    BY DEF BatchOK, OpsOK, Elements
  <1>4. ASSUME M # {} PROVE FALSE
    <2> DEFINE s == Ascending(M)
    <2>1. M \in SUBSET (Nat \X Nat) /\ IsFiniteSet(M)
      BY <1>3, FS_Subset
    <2>2. /\ s \in Seq(M) /\ Len(s) = Cardinality(M) /\ Cardinality(M) \in Nat
          /\ ToSet(s) = M
          /\ \A k, l \in 1 .. Cardinality(M) : Less(s[k], s[l]) <=> k < l
      <3> HIDE DEF M
      <3> QED
        BY <2>1, AscendingIs
    <2> HIDE DEF s
    <2>3. Cardinality(M) # 0
      BY <1>4, <2>1, FS_EmptySet
    <2>4. 1 \in 1 .. Cardinality(M)
      BY <2>2, <2>3
    <2> DEFINE x == s[1]
    <2>5. x \in M
      BY <2>2, <2>4, ElementOfSeq
    <2>6. \A y \in M : ~Less(y, x)
      <3> TAKE y \in M
      <3>1. PICK k \in 1 .. Cardinality(M) : s[k] = y
        <4> HIDE DEF M
        <4> QED
          BY <2>2, SetOfSeq
      <3>2. ~(k < 1)
        BY <2>2
      <3> QED
        BY <2>2, <2>4, <3>1, <3>2
    <2> HIDE DEF x
    <2>7. x \in Elements(d, B) /\ x \notin E /\ d.ops[x].ref \notin E \cup {Head0}
      BY <1>1, <2>5
    <2> DEFINE p == d.ops[x].ref
    <2>8. p \in D /\ d.ops[p].insert /\ Less(p, x)
      BY <1>3, <2>7 DEF BatchOK, OpsOK
    <2>9. p \in Elements(d, B)
      <3>1. p \notin Elements(d, DOMAIN d.ops \ B)
        BY <1>1, <2>7
      <3> QED
        BY <2>8, <3>1 DEF Elements
    <2>10. p \in M
      BY <2>7, <2>9
    <2> QED
      BY <2>6, <2>8, <2>10
  <1>5. Elements(d, B) \subseteq E
    BY <1>4
  <1> QED
    BY <1>1, <1>2, <1>3, <1>5

\* A batch comes among the elements of a list, which stay the tree they are.
LEMMA ElementsWithHas ==
    ASSUME NEW d, NEW B, BatchOK(d, B), object = "list", InTree(d, Listed(d)),
           NEW s, s = ElementsWith(d, B)
    PROVE  /\ s \in Seq(Elements(d, DOMAIN d.ops)) /\ Distinct(s)
           /\ ToSet(s) = Elements(d, DOMAIN d.ops)
           /\ InTree(d, s)
  <1> DEFINE old == Listed(d)
             N == Len(old)
             O == Elements(d, DOMAIN d.ops \ B)
  <1>1. old \in Seq(O) /\ Distinct(old) /\ ToSet(old) = O
    <2>1. OpsOK(d) /\ RowsOK(d, DOMAIN d.ops \ B)
      BY DEF BatchOK
    <2> QED
      BY <2>1, ListedHas
  <1>2. OldOK(d, B, old)
    BY <1>1 DEF OldOK
  <1> HIDE DEF old
  <1>3. N \in Nat /\ \A n \in 1 .. N : old[n] \in Elements(d, DOMAIN d.ops)
    <2>1. N \in Nat /\ \A n \in 1 .. N : old[n] \in O
      BY <1>1, LenProperties, ElementOfSeq
    <2> QED
      BY <2>1 DEF Elements
  <1>4. PICK f : Walks(d, B, old, f) /\ s = UnstackedTo(d, B, f[N], 0).elements
    <2>1. \E f : Walks(d, B, old, f)
      BY <1>1, WalksExists
    <2>2. \E f : Walks(d, B, old, f) /\ ElementsWith(d, B) = UnstackedTo(d, B, f[Len(old)], 0).elements
      BY <2>1, ElementsWithGoes DEF old
    <2> QED
      BY <2>2
  <1>5. /\ f[0] = [stack |-> InsertsAfter(d, B, Head0), elements |-> <<>>]
        /\ \A n \in 1 .. N : f[n] = Untangled(d, B, f[n - 1], old[n])
    <2>1. f = [n \in 0 .. N |->
            IF n = 0 THEN [stack |-> InsertsAfter(d, B, Head0), elements |-> <<>>]
            ELSE Untangled(d, B, f[n - 1], old[n])]
      BY <1>4 DEF Walks
    <2>2. 0 \in 0 .. N /\ \A k \in 1 .. N : k \in 0 .. N /\ k # 0
      BY <1>3
    <2> HIDE DEF N
    <2> QED
      BY <2>1, <2>2
  <1> DEFINE S == {n \in 0 .. N : f[n] \in WalkStates(d, B) /\ Walk(d, B, f[n], Firsts(old, n))}
  <1>6. 0 \in S
    <2>1. f[0] \in WalkStates(d, B) /\ Walk(d, B, f[0], {})
      BY <1>5, WalkBegins
    <2>2. Firsts(old, 0) = {}
      BY DEF Firsts
    <2>3. 0 \in 0 .. N
      BY <1>3
    <2> QED
      BY <2>1, <2>2, <2>3
  <1>7. ASSUME NEW n \in 1 .. N, n - 1 \in S PROVE n \in S
    <2> DEFINE u == f[n - 1]
    <2>1. u \in WalkStates(d, B) /\ Walk(d, B, u, Firsts(old, n - 1))
      BY <1>7
    <2>2. f[n] = Untangled(d, B, u, old[n])
      BY <1>5
    <2> HIDE DEF u
    <2>3. Walk(d, B, f[n], Firsts(old, n))
      BY <1>2, <2>1, <2>2, UntangledIs
    <2>4. f[n] \in WalkStates(d, B)
      BY <1>3, <2>1, <2>2, UntangledStays
    <2>5. n \in 0 .. N
      BY <1>3
    <2> QED
      BY <2>3, <2>4, <2>5
  <1>8. N \in S
    <2>1. S \in SUBSET (0 .. N)
      OBVIOUS
    <2> HIDE DEF S, N
    <2>2. S = 0 .. N
      BY <1>3, <1>6, <1>7, <2>1, UpTo
    <2> QED
      BY <1>3, <2>2
  <1>9. Firsts(old, N) = O
    <2>1. \A x : x \in ToSet(old) <=> \E n \in 1 .. Len(old) : old[n] = x
      BY <1>1, SetOfSeq
    <2> QED
      BY <1>1, <2>1 DEF Firsts
  <1> DEFINE u == f[N]
             v == UnstackedTo(d, B, u, 0)
  <1>10. u \in WalkStates(d, B) /\ Walk(d, B, u, O)
    BY <1>8, <1>9
  <1> HIDE DEF u
  <1>11. \A k \in 0 + 1 .. Len(u.stack) : u.stack[k] \in Clear(d, B, O)
    <2> TAKE k \in 0 + 1 .. Len(u.stack)
    <2>1. u.stack[k] \in Elements(d, B)
      <3>1. u.stack \in Seq(Elements(d, B)) /\ k \in 1 .. Len(u.stack)
        BY <1>10 DEF Walk
      <3> QED
        BY <3>1, ElementOfSeq
    <2> QED
      BY <2>1 DEF Clear
  <1>12. 0 \in Nat /\ 0 <= Len(u.stack)
    BY <1>10, LenProperties DEF Walk
  <1>13. v \in WalkStates(d, B) /\ Walk(d, B, v, O) /\ Cut(u.stack, 0, v.stack)
    BY <1>10, <1>11, <1>12, UnstackedToIs
  <1>14. s = v.elements
    BY <1>4 DEF u
  <1> HIDE DEF v
  <1>15. ToSet(v.stack) = {}
    <2>1. Len(v.stack) = 0 /\ v.stack \in Seq(Elements(d, B))
      BY <1>13 DEF Cut, Walk
    <2>2. \A x : x \in ToSet(v.stack) <=> \E n \in 1 .. Len(v.stack) : v.stack[n] = x
      BY <2>1, SetOfSeq
    <2> QED
      BY <2>1, <2>2
  <1>16. ToSet(v.elements) = Elements(d, DOMAIN d.ops)
    BY <1>13, <1>15, WalkEnds
  <1> QED
    BY <1>13, <1>14, <1>16 DEF Walk

-----------------------------------------------------------------------------
(* The rows after a batch *)

\* A sequence and one of other members.
LEMMA JoinHas ==
    ASSUME NEW T, NEW s \in Seq(T), NEW t \in Seq(T), Distinct(s), Distinct(t),
           \A x \in ToSet(s) : x \notin ToSet(t), NEW w, Joins(w, s, t)
    PROVE  /\ w \in Seq(T) /\ Distinct(w)
           /\ \A x : x \in ToSet(w) => x \in ToSet(s) \/ x \in ToSet(t)
           /\ \A x \in ToSet(s) : x \in ToSet(w)
           /\ \A x \in ToSet(t) : x \in ToSet(w)
           /\ \A x, y : Precedes(w, x, y) =>
                  Precedes(s, x, y) \/ Precedes(t, x, y) \/ (x \in ToSet(s) /\ y \in ToSet(t))
           /\ \A x, y : Precedes(s, x, y) => Precedes(w, x, y)
           /\ \A x, y : Precedes(t, x, y) => Precedes(w, x, y)
           /\ \A x \in ToSet(s), y \in ToSet(t) : Precedes(w, x, y)
  <1> DEFINE L == Len(s)
             M == Len(t)
  <1>1. /\ L \in Nat /\ DOMAIN s = 1 .. L /\ M \in Nat /\ DOMAIN t = 1 .. M
        /\ \A n \in 1 .. L : s[n] \in ToSet(s)
        /\ \A n \in 1 .. M : t[n] \in ToSet(t)
        /\ \A y \in ToSet(s) : \E n \in 1 .. L : s[n] = y
        /\ \A y \in ToSet(t) : \E n \in 1 .. M : t[n] = y
    BY SetOfSeq
  <1>2. /\ w \in Seq(T) /\ Len(w) = L + M
        /\ \A n \in 1 .. L + M : w[n] = IF n <= L THEN s[n] ELSE t[n - L]
    BY ConcatProperties DEF Joins
  <1>3. DOMAIN w = 1 .. L + M /\ \A y : y \in ToSet(w) <=> \E n \in 1 .. L + M : w[n] = y
    <2>1. w \in Seq(T) /\ Len(w) = L + M
      BY <1>2
    <2>2. DOMAIN w = 1 .. Len(w) /\ \A y : y \in ToSet(w) <=> \E n \in 1 .. Len(w) : w[n] = y
      BY <2>1, SetOfSeq
    <2> QED
      BY <2>1, <2>2
  <1> HIDE DEF L, M
  <1>4. \A n \in 1 .. L : n \in 1 .. L + M /\ w[n] = s[n]
    BY <1>1, <1>2
  <1>5. \A n \in 1 .. M : L + n \in 1 .. L + M /\ w[L + n] = t[n]
    <2> TAKE n \in 1 .. M
    <2>1. L + n \in 1 .. L + M /\ ~(L + n <= L) /\ (L + n) - L = n
      BY <1>1
    <2>2. w[L + n] = t[n]
      BY <1>2, <2>1
    <2> QED
      BY <2>1, <2>2
  <1>6. \A n \in 1 .. L + M : n \in 1 .. L \/ \E k \in 1 .. M : n = L + k
    <2> TAKE n \in 1 .. L + M
    <2>1. n \in 1 .. L \/ (n - L \in 1 .. M /\ n = L + (n - L))
      BY <1>1
    <2> QED
      BY <2>1
  <1>7. \A x : x \in ToSet(w) => x \in ToSet(s) \/ x \in ToSet(t)
    <2> TAKE x
    <2>1. SUFFICES ASSUME x \in ToSet(w) PROVE x \in ToSet(s) \/ x \in ToSet(t)
      OBVIOUS
    <2>2. PICK n \in 1 .. L + M : w[n] = x
      BY <1>3, <2>1
    <2>3. CASE n \in 1 .. L
      BY <1>1, <1>4, <2>2, <2>3
    <2>4. CASE \E k \in 1 .. M : n = L + k
      BY <1>1, <1>5, <2>2, <2>4
    <2> QED
      BY <1>6, <2>3, <2>4
  <1>8. \A x \in ToSet(s) : x \in ToSet(w)
    BY <1>1, <1>3, <1>4
  <1>9. \A x \in ToSet(t) : x \in ToSet(w)
    BY <1>1, <1>3, <1>5
  <1>10. Distinct(w)
    <2> SUFFICES ASSUME NEW m \in 1 .. L + M, NEW n \in 1 .. L + M, w[m] = w[n]
                 PROVE  m = n
      BY <1>3 DEF Distinct
    <2>1. CASE m \in 1 .. L /\ n \in 1 .. L
      BY <1>1, <1>4, <2>1 DEF Distinct
    <2>2. CASE m \in 1 .. L /\ \E k \in 1 .. M : n = L + k
      BY <1>1, <1>4, <1>5, <2>2
    <2>3. CASE n \in 1 .. L /\ \E k \in 1 .. M : m = L + k
      BY <1>1, <1>4, <1>5, <2>3
    <2>4. CASE (\E k \in 1 .. M : m = L + k) /\ (\E k \in 1 .. M : n = L + k)
      <3>1. PICK k \in 1 .. M : m = L + k
        BY <2>4
      <3>2. PICK l \in 1 .. M : n = L + l
        BY <2>4
      <3>3. t[k] = t[l]
        BY <1>5, <3>1, <3>2
      <3>4. k = l
        BY <1>1, <3>3 DEF Distinct
      <3> QED
        BY <3>1, <3>2, <3>4
    <2> QED
      BY <1>6, <2>1, <2>2, <2>3, <2>4
  <1>11. ASSUME NEW x, NEW y, Precedes(w, x, y)
         PROVE  Precedes(s, x, y) \/ Precedes(t, x, y) \/ (x \in ToSet(s) /\ y \in ToSet(t))
    <2>1. PICK m, n \in 1 .. L + M : m < n /\ w[m] = x /\ w[n] = y
      BY <1>3, <1>11 DEF Precedes
    <2>2. CASE m \in 1 .. L /\ n \in 1 .. L
      <3>1. s[m] = x /\ s[n] = y
        BY <1>4, <2>1, <2>2
      <3> QED
        BY <1>1, <2>1, <2>2, <3>1 DEF Precedes
    <2>3. CASE m \in 1 .. L /\ \E k \in 1 .. M : n = L + k
      BY <1>1, <1>4, <1>5, <2>1, <2>3
    <2>4. CASE n \in 1 .. L /\ \E k \in 1 .. M : m = L + k
      <3>1. PICK k \in 1 .. M : m = L + k
        BY <2>4
      <3>2. ~(m < n)
        BY <1>1, <2>4, <3>1
      <3> QED
        BY <2>1, <3>2
    <2>5. CASE (\E k \in 1 .. M : m = L + k) /\ (\E k \in 1 .. M : n = L + k)
      <3>1. PICK k \in 1 .. M : m = L + k
        BY <2>5
      <3>2. PICK l \in 1 .. M : n = L + l
        BY <2>5
      <3>3. k < l
        BY <1>1, <2>1, <3>1, <3>2
      <3>4. t[k] = x /\ t[l] = y
        BY <1>5, <2>1, <3>1, <3>2
      <3> QED
        BY <1>1, <3>3, <3>4 DEF Precedes
    <2> QED
      BY <1>6, <2>2, <2>3, <2>4, <2>5
  <1>12. ASSUME NEW x, NEW y, Precedes(s, x, y) PROVE Precedes(w, x, y)
    <2>1. PICK m, n \in 1 .. L : m < n /\ s[m] = x /\ s[n] = y
      BY <1>1, <1>12 DEF Precedes
    <2>2. m \in DOMAIN w /\ n \in DOMAIN w /\ w[m] = x /\ w[n] = y
      BY <1>3, <1>4, <2>1
    <2> QED
      BY <2>1, <2>2 DEF Precedes
  <1>13. ASSUME NEW x, NEW y, Precedes(t, x, y) PROVE Precedes(w, x, y)
    <2>1. PICK m, n \in 1 .. M : m < n /\ t[m] = x /\ t[n] = y
      BY <1>1, <1>13 DEF Precedes
    <2>2. L + m \in DOMAIN w /\ L + n \in DOMAIN w /\ w[L + m] = x /\ w[L + n] = y
      BY <1>3, <1>5, <2>1
    <2>3. L + m < L + n
      BY <1>1, <2>1
    <2> QED
      BY <2>2, <2>3 DEF Precedes
  <1>14. ASSUME NEW x \in ToSet(s), NEW y \in ToSet(t) PROVE Precedes(w, x, y)
    <2>1. PICK m \in 1 .. L : s[m] = x
      BY <1>1
    <2>2. PICK n \in 1 .. M : t[n] = y
      BY <1>1
    <2>3. m \in DOMAIN w /\ L + n \in DOMAIN w /\ w[m] = x /\ w[L + n] = y
      BY <1>3, <1>4, <1>5, <2>1, <2>2
    <2>4. m < L + n
      BY <1>1
    <2> QED
      BY <2>3, <2>4 DEF Precedes
  <1> QED
    BY <1>2, <1>7, <1>8, <1>9, <1>10, <1>11, <1>12, <1>13, <1>14

\* Sequences without common members.
Apart(seqs) ==
    /\ \A k \in DOMAIN seqs : Distinct(seqs[k])
    /\ \A k, l \in DOMAIN seqs : \A x \in ToSet(seqs[k]) : x \in ToSet(seqs[l]) => k = l

\* The sequence w is the first n of them one after the other.
Parts(seqs, n, w) ==
    /\ Distinct(w)
    /\ \A x : x \in ToSet(w) <=> \E k \in 1 .. n : x \in ToSet(seqs[k])
    /\ \A x, y : Precedes(w, x, y) <=>
           \/ \E k \in 1 .. n : Precedes(seqs[k], x, y)
           \/ \E k, l \in 1 .. n : k < l /\ x \in ToSet(seqs[k]) /\ y \in ToSet(seqs[l])

\* One more.
LEMMA PartsGoOn ==
    ASSUME NEW T, NEW seqs \in Seq(Seq(T)), Apart(seqs), NEW n \in 1 .. Len(seqs),
           NEW w \in Seq(T), Parts(seqs, n - 1, w), NEW v, Joins(v, w, seqs[n])
    PROVE  v \in Seq(T) /\ Parts(seqs, n, v)
  <1> DEFINE t == seqs[n]
  <1>1. /\ Len(seqs) \in Nat /\ DOMAIN seqs = 1 .. Len(seqs) /\ t \in Seq(T) /\ Distinct(t)
        /\ n - 1 \in Nat
    BY LenProperties, ElementOfSeq DEF Apart
  <1>2. \A k : k \in 1 .. n <=> k \in 1 .. n - 1 \/ k = n
    BY <1>1
  <1>3. \A k \in 1 .. n - 1 : k \in 1 .. Len(seqs) /\ k # n /\ k < n
    BY <1>1
  <1>4. /\ Distinct(w)
        /\ \A x : x \in ToSet(w) <=> \E k \in 1 .. n - 1 : x \in ToSet(seqs[k])
        /\ \A x, y : Precedes(w, x, y) <=>
               \/ \E k \in 1 .. n - 1 : Precedes(seqs[k], x, y)
               \/ \E k, l \in 1 .. n - 1 : k < l /\ x \in ToSet(seqs[k]) /\ y \in ToSet(seqs[l])
    BY DEF Parts
  <1>5. \A x \in ToSet(w) : x \notin ToSet(t)
    <2> SUFFICES ASSUME NEW x \in ToSet(w), x \in ToSet(t) PROVE FALSE
      OBVIOUS
    <2>1. PICK k \in 1 .. n - 1 : x \in ToSet(seqs[k])
      BY <1>4
    <2> QED
      BY <1>1, <1>3, <2>1 DEF Apart
  <1> HIDE DEF t
  <1>6. Joins(v, w, t)
    BY DEF t
  <1>7. /\ v \in Seq(T) /\ Distinct(v)
        /\ \A x : x \in ToSet(v) => x \in ToSet(w) \/ x \in ToSet(t)
        /\ \A x \in ToSet(w) : x \in ToSet(v)
        /\ \A x \in ToSet(t) : x \in ToSet(v)
        /\ \A x, y : Precedes(v, x, y) =>
               Precedes(w, x, y) \/ Precedes(t, x, y) \/ (x \in ToSet(w) /\ y \in ToSet(t))
        /\ \A x, y : Precedes(w, x, y) => Precedes(v, x, y)
        /\ \A x, y : Precedes(t, x, y) => Precedes(v, x, y)
        /\ \A x \in ToSet(w), y \in ToSet(t) : Precedes(v, x, y)
    BY <1>1, <1>4, <1>5, <1>6, JoinHas
  <1>8. ASSUME NEW x PROVE x \in ToSet(v) <=> \E k \in 1 .. n : x \in ToSet(seqs[k])
    <2>1. (\E k \in 1 .. n : x \in ToSet(seqs[k])) <=> x \in ToSet(w) \/ x \in ToSet(t)
      BY <1>2, <1>4 DEF t
    <2> QED
      BY <1>7, <2>1
  <1>9. ASSUME NEW x, NEW y
        PROVE  Precedes(v, x, y) <=>
               \/ \E k \in 1 .. n : Precedes(seqs[k], x, y)
               \/ \E k, l \in 1 .. n : k < l /\ x \in ToSet(seqs[k]) /\ y \in ToSet(seqs[l])
    <2>1. ASSUME Precedes(v, x, y)
          PROVE  \/ \E k \in 1 .. n : Precedes(seqs[k], x, y)
                 \/ \E k, l \in 1 .. n : k < l /\ x \in ToSet(seqs[k]) /\ y \in ToSet(seqs[l])
      <3>1. CASE Precedes(w, x, y)
        BY <1>2, <1>4, <3>1
      <3>2. CASE Precedes(t, x, y)
        BY <1>2, <3>2 DEF t
      <3>3. CASE x \in ToSet(w) /\ y \in ToSet(t)
        <4>1. PICK k \in 1 .. n - 1 : x \in ToSet(seqs[k])
          BY <1>4, <3>3
        <4>2. k \in 1 .. n /\ n \in 1 .. n /\ k < n /\ y \in ToSet(seqs[n])
          BY <1>2, <1>3, <3>3 DEF t
        <4> QED
          BY <4>1, <4>2
      <3> QED
        BY <1>7, <2>1, <3>1, <3>2, <3>3
    <2>2. ASSUME NEW k \in 1 .. n, Precedes(seqs[k], x, y) PROVE Precedes(v, x, y)
      <3>1. CASE k = n
        BY <1>7, <2>2, <3>1 DEF t
      <3>2. CASE k \in 1 .. n - 1
        BY <1>4, <1>7, <2>2, <3>2
      <3> QED
        BY <1>2, <3>1, <3>2
    <2>3. ASSUME NEW k \in 1 .. n, NEW l \in 1 .. n, k < l, x \in ToSet(seqs[k]), y \in ToSet(seqs[l])
          PROVE  Precedes(v, x, y)
      <3>1. k \in 1 .. n - 1
        BY <1>1, <2>3
      <3>2. CASE l = n
        <4>1. x \in ToSet(w) /\ y \in ToSet(t)
          BY <1>4, <2>3, <3>1, <3>2 DEF t
        <4> QED
          BY <1>7, <4>1
      <3>3. CASE l \in 1 .. n - 1
        <4>1. Precedes(w, x, y)
          BY <1>4, <2>3, <3>1, <3>3
        <4> QED
          BY <1>7, <4>1
      <3> QED
        BY <1>2, <3>2, <3>3
    <2> QED
      BY <2>1, <2>2, <2>3
  <1>10. Parts(seqs, n, v)
    BY <1>7, <1>8, <1>9 DEF Parts
  <1> QED
    BY <1>7, <1>10

\* The function f puts one more to it at a time.
Flattens(seqs, f) == f = [i \in 1 .. Len(seqs) |-> IF i = 1 THEN seqs[i] ELSE f[i - 1] \o seqs[i]]

\* FlattenSeq goes on by one sequence at a time.
LEMMA FlattenGoes ==
    ASSUME NEW seqs, Len(seqs) # 0, \E f : Flattens(seqs, f)
    PROVE  \E f : Flattens(seqs, f) /\ FlattenSeq(seqs) = f[Len(seqs)]
  <1> DEFINE flatten[i \in 1 .. Len(seqs)] == IF i = 1 THEN seqs[i] ELSE flatten[i - 1] \o seqs[i]
  <1>1. flatten = [i \in 1 .. Len(seqs) |-> IF i = 1 THEN seqs[i] ELSE flatten[i - 1] \o seqs[i]]
    <2>1. \E f : f = [i \in 1 .. Len(seqs) |-> IF i = 1 THEN seqs[i] ELSE f[i - 1] \o seqs[i]]
      BY DEF Flattens
    <2> QED
      BY <2>1
  <1>2. Flattens(seqs, flatten)
    <2> HIDE DEF flatten
    <2> QED
      BY <1>1 DEF Flattens
  <1>3. FlattenSeq(seqs) = flatten[Len(seqs)]
    BY DEF FlattenSeq
  <1> HIDE DEF flatten
  <1> QED
    BY <1>2, <1>3

\* The function exists.
LEMMA FlattenExists ==
    ASSUME NEW T, NEW seqs \in Seq(Seq(T))
    PROVE  \E f : Flattens(seqs, f)
  <1> DEFINE X == Seq(T)
             N == Len(seqs)
             step == [p \in X \X (1 .. N) |-> p[1] \o seqs[p[2]]]
  <1>1. N \in Nat /\ \A n \in 1 .. N : seqs[n] \in X
    BY LenProperties, ElementOfSeq
  <1>2. <<>> \in X
    OBVIOUS
  <1>3. ASSUME NEW v \in X, NEW k \in 1 .. N PROVE step[<<v, k>>] = v \o seqs[k]
    <2> HIDE DEF N, X
    <2> QED
      OBVIOUS
  <1>4. ASSUME NEW v \in X, NEW k \in 1 .. N PROVE v \o seqs[k] \in X
    BY <1>1, ConcatProperties
  <1>5. ASSUME NEW v \in X PROVE <<>> \o v = v
    BY ConcatProperties
  <1> HIDE DEF N, step, X
  <1>6. StaysIn(X, N, step)
    BY <1>3, <1>4 DEF StaysIn
  <1>7. PICK g : Follows(g, X, <<>>, N, step)
    BY <1>1, <1>2, <1>6, Recursion
  <1>8. g \in [0 .. N -> X] /\ g[0] = <<>> /\ \A k \in 1 .. N : g[k] = step[<<g[k - 1], k>>]
    BY <1>7 DEF Follows
  <1>9. ASSUME NEW k \in 1 .. N PROVE g[k] = g[k - 1] \o seqs[k]
    <2>1. k - 1 \in 0 .. N
      BY <1>1
    <2>2. g[k - 1] \in X
      BY <1>8, <2>1
    <2> QED
      BY <1>3, <1>8, <2>2
  <1> DEFINE f == [i \in 1 .. N |-> g[i]]
  <1>10. ASSUME NEW i \in 1 .. N PROVE f[i] = IF i = 1 THEN seqs[i] ELSE f[i - 1] \o seqs[i]
    <2>1. CASE i = 1
      <3>1. g[1] = <<>> \o seqs[1]
        <4>1. 1 - 1 = 0 /\ 1 \in 1 .. N
          BY <2>1
        <4>2. g[1] = g[1 - 1] \o seqs[1]
          BY <1>9, <4>1
        <4> QED
          BY <1>8, <4>1, <4>2
      <3> QED
        BY <1>1, <1>5, <2>1, <3>1
    <2>2. CASE i # 1
      <3>1. i - 1 \in 1 .. N
        BY <1>1, <2>2
      <3> QED
        BY <1>9, <2>2, <3>1
    <2> QED
      BY <2>1, <2>2
  <1>11. f = [i \in 1 .. N |-> IF i = 1 THEN seqs[i] ELSE f[i - 1] \o seqs[i]]
    <2>1. f = [i \in 1 .. N |-> f[i]]
      OBVIOUS
    <2> HIDE DEF f
    <2> QED
      BY <1>10, <2>1
  <1>12. Flattens(seqs, f)
    <2> HIDE DEF f
    <2> QED
      BY <1>11 DEF Flattens, N
  <1> QED
    BY <1>12

\* FlattenSeq puts all of them together.
LEMMA FlattenIs ==
    ASSUME NEW T, NEW seqs \in Seq(Seq(T)), Apart(seqs), NEW w, w = FlattenSeq(seqs)
    PROVE  w \in Seq(T) /\ Parts(seqs, Len(seqs), w)
  <1> DEFINE N == Len(seqs)
  <1>1. N \in Nat /\ DOMAIN seqs = 1 .. N /\ \A n \in 1 .. N : seqs[n] \in Seq(T)
    BY LenProperties, ElementOfSeq
  <1>2. ASSUME NEW v, v = <<>> PROVE v \in Seq(T) /\ Parts(seqs, 0, v)
    <2>1. v \in Seq(T) /\ DOMAIN v = {} /\ ToSet(v) = {}
      BY <1>2 DEF ToSet
    <2>2. \A k : k \notin 1 .. 0
      OBVIOUS
    <2> QED
      BY <2>1, <2>2 DEF Parts, Distinct, Precedes
  <1>3. CASE N = 0
    <2>1. w = seqs
      BY <1>3 DEF FlattenSeq
    <2>2. w = <<>>
      BY <1>3, <2>1, EmptySeq
    <2> QED
      BY <1>2, <1>3, <2>2
  <1>4. CASE N # 0
    <2>1. PICK f : Flattens(seqs, f) /\ w = f[N]
      BY <1>4, FlattenExists, FlattenGoes
    <2>2. \A i \in 1 .. N : f[i] = IF i = 1 THEN seqs[i] ELSE f[i - 1] \o seqs[i]
      <3>1. f = [i \in 1 .. N |-> IF i = 1 THEN seqs[i] ELSE f[i - 1] \o seqs[i]]
        BY <2>1 DEF Flattens
      <3> HIDE DEF N
      <3> QED
        BY <3>1
    <2> DEFINE S == {n \in 0 .. N : n = 0 \/ (f[n] \in Seq(T) /\ Parts(seqs, n, f[n]))}
    <2>3. 0 \in S
      BY <1>1
    <2>4. ASSUME NEW n \in 1 .. N, n - 1 \in S PROVE n \in S
      <3>1. \E u : u \in Seq(T) /\ Parts(seqs, n - 1, u) /\ Joins(f[n], u, seqs[n])
        <4>1. CASE n = 1
          <5>1. n - 1 = 0
            BY <4>1
          <5>2. f[n] = seqs[n]
            BY <2>2, <4>1
          <5>3. <<>> \o seqs[n] = seqs[n]
            BY <1>1, ConcatProperties
          <5>4. <<>> \in Seq(T) /\ Parts(seqs, 0, <<>>)
            BY <1>2
          <5>5. Joins(f[n], <<>>, seqs[n])
            BY <5>2, <5>3 DEF Joins
          <5> QED
            BY <5>1, <5>4, <5>5
        <4>2. CASE n # 1
          <5>1. n - 1 # 0
            BY <1>1, <4>2
          <5>2. f[n - 1] \in Seq(T) /\ Parts(seqs, n - 1, f[n - 1])
            BY <2>4, <5>1
          <5>3. f[n] = f[n - 1] \o seqs[n]
            BY <2>2, <4>2
          <5>4. Joins(f[n], f[n - 1], seqs[n])
            BY <5>3 DEF Joins
          <5> QED
            BY <5>2, <5>4
        <4> QED
          BY <4>1, <4>2
      <3>2. f[n] \in Seq(T) /\ Parts(seqs, n, f[n])
        BY <3>1, PartsGoOn
      <3>3. n \in 0 .. N
        BY <1>1
      <3> QED
        BY <3>2, <3>3
    <2>5. N \in S
      <3>1. S \in SUBSET (0 .. N)
        OBVIOUS
      <3> HIDE DEF S, N
      <3>2. S = 0 .. N
        BY <1>1, <2>3, <2>4, <3>1, UpTo
      <3> QED
        BY <1>1, <3>2
    <2> QED
      BY <1>4, <2>1, <2>5
  <1> QED
    BY <1>3, <1>4

\* All elements in an order.
OrderOf(d, s) ==
    /\ s \in Seq(Elements(d, DOMAIN d.ops)) /\ Distinct(s)
    /\ ToSet(s) = Elements(d, DOMAIN d.ops)

\* What is on an element is on no other, and all operations are on one.
LEMMA OnElementsPart ==
    ASSUME NEW d, NEW B, BatchOK(d, B)
    PROVE  /\ \A e, f \in Elements(d, DOMAIN d.ops) : \A x \in ToSet(OnElement(d, B, e)) :
                  x \in ToSet(OnElement(d, B, f)) => e = f
           /\ \A x \in DOMAIN d.ops : HasRow(d, x) =>
                  \E e \in Elements(d, DOMAIN d.ops) : x \in ToSet(OnElement(d, B, e))
           /\ object = "list" => \A e \in Elements(d, DOMAIN d.ops) :
                  \A x \in ToSet(OnElement(d, B, e)) : d.ops[x].insert => x = e
  <1> DEFINE D == DOMAIN d.ops
             H == D \ B
             E == Elements(d, DOMAIN d.ops)
  <1>1. OpsOK(d) /\ RowsOK(d, H) /\ B \subseteq D
    BY DEF BatchOK
  <1>2. \A e \in E : ToSet(OnElement(d, B, e)) = ToSet(RegisterOf(d, e)) \cup NewOn(d, B, e)
    BY OnElementHas
  <1>3. \A e : \A x \in ToSet(RegisterOf(d, e)) : x \in ToSet(d.order) /\ x \in H
    <2> TAKE e
    <2>1. ToSet(RegisterOf(d, e)) \subseteq ToSet(d.order)
      BY <1>1, RegisterHas
    <2>2. ToSet(d.order) \subseteq H
      BY <1>1 DEF RowsOK
    <2> QED
      BY <2>1, <2>2
  <1>4. /\ \A x \in ToSet(d.order) : \E e \in Elements(d, H) : x \in ToSet(RegisterOf(d, e))
        /\ \A e, f, x : x \in ToSet(RegisterOf(d, e)) /\ x \in ToSet(RegisterOf(d, f)) => e = f
    BY <1>1, RegistersPart
  <1>5. \A e : \A x \in NewOn(d, B, e) : x \in B /\ Elem(d, x) = e
    BY DEF NewOn
  <1>6. ASSUME NEW e \in E, NEW f \in E, NEW x \in ToSet(OnElement(d, B, e)), x \in ToSet(OnElement(d, B, f))
        PROVE  e = f
    <2>1. CASE x \in B
      <3>1. x \in NewOn(d, B, e) /\ x \in NewOn(d, B, f)
        BY <1>2, <1>3, <1>6, <2>1
      <3> QED
        BY <1>5, <3>1
    <2>2. CASE x \notin B
      <3>1. x \in ToSet(RegisterOf(d, e)) /\ x \in ToSet(RegisterOf(d, f))
        BY <1>2, <1>5, <1>6, <2>2
      <3> QED
        BY <1>4, <3>1
    <2> QED
      BY <2>1, <2>2
  <1>7. ASSUME NEW x \in D, HasRow(d, x) PROVE \E e \in E : x \in ToSet(OnElement(d, B, e))
    <2>1. CASE x \in B
      <3>1. Elem(d, x) \in E
        BY <1>1 DEF OpsOK, Elements, Elem
      <3>2. x \in NewOn(d, B, Elem(d, x))
        BY <2>1 DEF NewOn
      <3> QED
        BY <1>2, <3>1, <3>2
    <2>2. CASE x \notin B
      <3>1. x \in ToSet(d.order)
        BY <1>1, <1>7, <2>2 DEF RowsOK
      <3>2. PICK e \in Elements(d, H) : x \in ToSet(RegisterOf(d, e))
        BY <1>4, <3>1
      <3>3. e \in E
        BY DEF Elements
      <3> QED
        BY <1>2, <3>2, <3>3
    <2> QED
      BY <2>1, <2>2
  <1>8. ASSUME object = "list", NEW e \in E, NEW x \in ToSet(OnElement(d, B, e)), d.ops[x].insert
        PROVE  x = e
    <2>1. CASE x \in NewOn(d, B, e)
      BY <1>5, <1>8, <2>1 DEF Elem
    <2>2. CASE x \in ToSet(RegisterOf(d, e))
      BY <1>1, <1>8, <2>2, RegisterHas
    <2> QED
      BY <1>2, <2>1, <2>2
  <1> QED
    BY <1>6, <1>7, <1>8

\* Rows are in the order of their elements, and on an element as they are there.
RowsAre(d, B, s, w) ==
    /\ w \in Seq(DOMAIN d.ops) /\ Distinct(w)
    /\ \A x : x \in ToSet(w) <=> x \in DOMAIN d.ops /\ HasRow(d, x)
    /\ \A e \in Elements(d, DOMAIN d.ops) : \A x, y \in ToSet(w) :
           Precedes(OnElement(d, B, e), x, y) => Precedes(w, x, y)
    /\ \A e, f \in Elements(d, DOMAIN d.ops) : \A x, y \in ToSet(w) :
           /\ Precedes(s, e, f)
           /\ x \in ToSet(OnElement(d, B, e)) /\ y \in ToSet(OnElement(d, B, f))
           => Precedes(w, x, y)
    /\ \A x, y : Precedes(w, x, y) =>
           \/ \E e \in Elements(d, DOMAIN d.ops) : Precedes(OnElement(d, B, e), x, y)
           \/ \E e, f \in Elements(d, DOMAIN d.ops) :
                  /\ Precedes(s, e, f)
                  /\ x \in ToSet(OnElement(d, B, e)) /\ y \in ToSet(OnElement(d, B, f))

\* The rows after a batch are so.
LEMMA RowsWithHas ==
    ASSUME NEW d, NEW B, BatchOK(d, B), NEW s, OrderOf(d, s), NEW w, w = RowsWith(d, B, s)
    PROVE  RowsAre(d, B, s, w)
  <1> DEFINE D == DOMAIN d.ops
             E == Elements(d, DOMAIN d.ops)
             V == {i \in DOMAIN d.ops : HasRow(d, i)}
             on(e) == OnElement(d, B, e)
             seqs == [k \in DOMAIN s |-> Only(OnElement(d, B, s[k]), V)]
             N == Len(s)
  <1>1. /\ N \in Nat /\ DOMAIN s = 1 .. N /\ \A k \in 1 .. N : s[k] \in E
        /\ \A e \in E : \E k \in 1 .. N : s[k] = e
        /\ \A k, l \in 1 .. N : s[k] = s[l] => k = l
    <2>1. s \in Seq(E) /\ ToSet(s) = E /\ Distinct(s)
      BY DEF OrderOf
    <2>2. N \in Nat /\ DOMAIN s = 1 .. N /\ (\A k \in 1 .. N : s[k] \in E)
          /\ \A e : e \in ToSet(s) <=> \E k \in 1 .. N : s[k] = e
      BY <2>1, SetOfSeq
    <2> QED
      BY <2>1, <2>2 DEF Distinct
  <1>2. \A e \in E : on(e) \in Seq(D) /\ Distinct(on(e))
    BY OnElementHas
  <1>3. \A e \in E : Only(on(e), V) \in Seq(D) /\ Keeps(Only(on(e), V), on(e), V)
    BY <1>2, OnlyHas
  <1>4. w = FlattenSeq(seqs)
    BY DEF RowsWith
  <1>5. /\ DOMAIN seqs = 1 .. N
        /\ \A k \in 1 .. N : seqs[k] = Only(on(s[k]), V)
    BY <1>1
  <1> HIDE DEF V, on, N
  <1>6. seqs \in Seq(Seq(D)) /\ Len(seqs) = N
    <2>1. seqs \in [1 .. N -> Seq(D)]
      BY <1>1, <1>3, <1>5
    <2> HIDE DEF seqs, D
    <2> QED
      BY <1>1, <2>1, FunctionIsSeq
  <1> HIDE DEF seqs, D, E
  <1>7. \A k \in 1 .. N :
            /\ Distinct(seqs[k])
            /\ ToSet(seqs[k]) = ToSet(on(s[k])) \cap V
            /\ \A x, y : Precedes(seqs[k], x, y) <=> x \in V /\ y \in V /\ Precedes(on(s[k]), x, y)
    BY <1>1, <1>2, <1>3, <1>5 DEF Keeps
  <1>8. /\ \A e, f \in E : \A x \in ToSet(on(e)) : x \in ToSet(on(f)) => e = f
        /\ \A x \in D : HasRow(d, x) => \E e \in E : x \in ToSet(on(e))
    BY OnElementsPart DEF on, D, E
  <1>9. Apart(seqs)
    <2>1. ASSUME NEW k \in 1 .. N, NEW l \in 1 .. N, NEW x \in ToSet(seqs[k]), x \in ToSet(seqs[l])
          PROVE  k = l
      <3>1. x \in ToSet(on(s[k])) /\ x \in ToSet(on(s[l])) /\ s[k] \in E /\ s[l] \in E
        BY <1>1, <1>7, <2>1
      <3>2. s[k] = s[l]
        BY <1>8, <3>1
      <3> QED
        BY <1>1, <3>2
    <2> QED
      BY <1>5, <1>7, <2>1 DEF Apart
  <1>10. w \in Seq(D) /\ Parts(seqs, N, w)
    BY <1>4, <1>6, <1>9, FlattenIs
  <1>11. /\ Distinct(w)
         /\ \A x : x \in ToSet(w) <=> \E k \in 1 .. N : x \in ToSet(seqs[k])
         /\ \A x, y : Precedes(w, x, y) <=>
                \/ \E k \in 1 .. N : Precedes(seqs[k], x, y)
                \/ \E k, l \in 1 .. N : k < l /\ x \in ToSet(seqs[k]) /\ y \in ToSet(seqs[l])
    BY <1>10 DEF Parts
  <1>12. \A x : x \in V <=> x \in D /\ HasRow(d, x)
    BY DEF V, D
  <1>13. ASSUME NEW x PROVE x \in ToSet(w) <=> x \in D /\ HasRow(d, x)
    <2>1. ASSUME x \in ToSet(w) PROVE x \in V
      BY <1>7, <1>11, <2>1
    <2>2. ASSUME x \in V PROVE x \in ToSet(w)
      <3>1. PICK e \in E : x \in ToSet(on(e))
        BY <1>8, <1>12, <2>2
      <3>2. PICK k \in 1 .. N : s[k] = e
        BY <1>1
      <3>3. x \in ToSet(seqs[k])
        BY <1>7, <2>2, <3>1, <3>2
      <3> QED
        BY <1>11, <3>3
    <2> QED
      BY <1>12, <2>1, <2>2
  <1>14. \A x \in ToSet(w) : x \in V
    BY <1>12, <1>13
  <1>15. ASSUME NEW e \in E, NEW x \in ToSet(w), NEW y \in ToSet(w), Precedes(on(e), x, y)
         PROVE  Precedes(w, x, y)
    <2>1. PICK k \in 1 .. N : s[k] = e
      BY <1>1
    <2>2. Precedes(seqs[k], x, y)
      BY <1>7, <1>14, <1>15, <2>1
    <2> QED
      BY <1>11, <2>2
  <1>16. ASSUME NEW e \in E, NEW f \in E, NEW x \in ToSet(w), NEW y \in ToSet(w), Precedes(s, e, f),
                x \in ToSet(on(e)), y \in ToSet(on(f))
         PROVE  Precedes(w, x, y)
    <2>1. PICK k, l \in 1 .. N : k < l /\ s[k] = e /\ s[l] = f
      BY <1>1, <1>16 DEF Precedes
    <2>2. x \in ToSet(seqs[k]) /\ y \in ToSet(seqs[l])
      BY <1>7, <1>14, <1>16, <2>1
    <2> QED
      BY <1>11, <2>1, <2>2
  <1>17. ASSUME NEW x, NEW y, Precedes(w, x, y)
         PROVE  \/ \E e \in E : Precedes(on(e), x, y)
                \/ \E e, f \in E : Precedes(s, e, f) /\ x \in ToSet(on(e)) /\ y \in ToSet(on(f))
    <2>1. CASE \E k \in 1 .. N : Precedes(seqs[k], x, y)
      BY <1>1, <1>7, <2>1
    <2>2. CASE \E k, l \in 1 .. N : k < l /\ x \in ToSet(seqs[k]) /\ y \in ToSet(seqs[l])
      <3>1. PICK k, l \in 1 .. N : k < l /\ x \in ToSet(seqs[k]) /\ y \in ToSet(seqs[l])
        BY <2>2
      <3>2. Precedes(s, s[k], s[l])
        BY <1>1, <3>1 DEF Precedes
      <3>3. x \in ToSet(on(s[k])) /\ y \in ToSet(on(s[l])) /\ s[k] \in E /\ s[l] \in E
        BY <1>1, <1>7, <3>1
      <3> QED
        BY <3>2, <3>3
    <2> QED
      BY <1>11, <1>17, <2>1, <2>2
  <1> QED
    BY <1>10, <1>11, <1>13, <1>15, <1>16, <1>17 DEF RowsAre, on, D, E

\* A document with its rows: a list is a tree of its inserts.
TreeOK(d) ==
    /\ OpsOK(d)
    /\ RowsOK(d, DOMAIN d.ops)
    /\ object = "list" => InTree(d, Listed(d))

\* One that is about to get the batch B.
TreeBefore(d, B) == BatchOK(d, B) /\ (object = "list" => InTree(d, Listed(d)))

\* The elements come in an order.
LEMMA ElementsOrder ==
    ASSUME NEW d, NEW B, TreeBefore(d, B), NEW s, s = ElementsWith(d, B)
    PROVE  OrderOf(d, s) /\ (object = "list" => InTree(d, s))
  <1>1. BatchOK(d, B) /\ object \in {"map", "list"}
    BY DEF TreeBefore, BatchOK, OpsOK
  <1>2. CASE object = "list"
    <2>1. InTree(d, Listed(d))
      BY <1>2 DEF TreeBefore
    <2> QED
      BY <1>1, <1>2, <2>1, ElementsWithHas DEF OrderOf
  <1>3. CASE object = "map"
    <2>1. s = <<Head0>> /\ Elements(d, DOMAIN d.ops) = {Head0}
      BY <1>3 DEF ElementsWith, Elements
    <2>2. ASSUME NEW x PROVE <<x>> \in Seq({x}) /\ Distinct(<<x>>) /\ ToSet(<<x>>) = {x}
      BY DEF Distinct, ToSet
    <2> HIDE DEF Head0
    <2> QED
      BY <1>3, <2>1, <2>2 DEF OrderOf
  <1> QED
    BY <1>1, <1>2, <1>3

\* Elements are a tree in one order of rows if they are in another with the same
\* of them before others.
LEMMA InTreeAlike ==
    ASSUME NEW d, NEW c, NEW s, \A x \in ToSet(s) : c.ops[x].ref = d.ops[x].ref,
           InTree(d, s), NEW t, ToSet(t) = ToSet(s), NEW U, \A x : x \in U <=> x \in ToSet(s),
           \A x, y : Precedes(s, x, y) => x \in U /\ y \in U,
           \A x, y \in U : Precedes(t, x, y) <=> Precedes(s, x, y)
    PROVE  InTree(c, t)
  <1> SUFFICES ASSUME NEW x \in ToSet(t)
               PROVE  /\ c.ops[x].ref = Head0 \/ Precedes(t, c.ops[x].ref, x)
                      /\ \A y \in ToSet(t) :
                            Precedes(t, y, x) /\ (c.ops[x].ref = Head0 \/ Precedes(t, c.ops[x].ref, y))
                            => Less(x, y)
    BY DEF InTree
  <1>1. d.ops[x].ref = Head0 \/ Precedes(s, d.ops[x].ref, x)
    BY DEF InTree
  <1>2. c.ops[x].ref = Head0 \/ (Precedes(t, c.ops[x].ref, x) /\ c.ops[x].ref \in U)
    BY <1>1
  <1>3. ASSUME NEW y \in ToSet(t), Precedes(t, y, x), c.ops[x].ref = Head0 \/ Precedes(t, c.ops[x].ref, y)
        PROVE  Less(x, y)
    <2>1. Precedes(s, y, x)
      BY <1>3
    <2>2. d.ops[x].ref = Head0 \/ Precedes(s, d.ops[x].ref, y)
      BY <1>2, <1>3
    <2> QED
      BY <2>1, <2>2 DEF InTree
  <1> QED
    BY <1>2, <1>3

\* A batch keeps a document's rows in order.
LEMMA BatchedRows ==
    ASSUME NEW d, NEW B, TreeBefore(d, B), NEW s, s = ElementsWith(d, B),
           NEW c, c.ops = d.ops, c.order = RowsWith(d, B, s)
    PROVE  TreeOK(c) /\ RowsAre(d, B, s, c.order)
  <1> DEFINE D == DOMAIN d.ops
             E == Elements(d, DOMAIN d.ops)
             w == c.order
             on(e) == OnElement(d, B, e)
  <1>1. BatchOK(d, B) /\ OpsOK(d) /\ OrderOf(d, s) /\ (object = "list" => InTree(d, s))
    BY ElementsOrder DEF TreeBefore, BatchOK
  <1>2. RowsAre(d, B, s, w)
    BY <1>1, RowsWithHas
  <1>3. OpsOK(c)
    BY <1>1 DEF OpsOK, HasRow, IsInc
  <1>4. w \in Seq(D) /\ Distinct(w) /\ \A x : x \in ToSet(w) <=> x \in D /\ HasRow(d, x)
    BY <1>2 DEF RowsAre
  <1>5. /\ \A e, f \in E : \A x \in ToSet(on(e)) : x \in ToSet(on(f)) => e = f
        /\ \A x \in D : HasRow(d, x) => \E e \in E : x \in ToSet(on(e))
        /\ object = "list" => \A e \in E : \A x \in ToSet(on(e)) : d.ops[x].insert => x = e
    BY <1>1, OnElementsPart
  <1>6. \A e \in E : /\ on(e) \in Seq(D) /\ Distinct(on(e))
                     /\ object = "list" => on(e) # <<>> /\ on(e)[1] = e
    BY <1>1, OnElementHas
  <1>7. ASSUME object = "list", NEW e \in E PROVE e \in ToSet(on(e)) /\ e \in ToSet(w) /\ d.ops[e].insert
    <2>1. on(e) \in Seq(D) /\ on(e) # <<>> /\ on(e)[1] = e
      BY <1>6, <1>7
    <2>2. 1 \in 1 .. Len(on(e))
      BY <2>1, EmptySeq, LenProperties
    <2>3. e \in ToSet(on(e))
      BY <2>1, <2>2, SetOfSeq
    <2>4. e \in D /\ d.ops[e].insert
      BY <1>7 DEF Elements
    <2>5. HasRow(d, e)
      BY <1>1, <2>4 DEF OpsOK
    <2> QED
      BY <1>4, <2>3, <2>4, <2>5
  <1>8. \A e : \A x, y : e \in E /\ Precedes(on(e), x, y) => x \in ToSet(on(e)) /\ y \in ToSet(on(e)) /\ x # y
    <2> TAKE e
    <2> TAKE x, y
    <2>1. SUFFICES ASSUME e \in E, Precedes(on(e), x, y) PROVE x \in ToSet(on(e)) /\ y \in ToSet(on(e)) /\ x # y
      OBVIOUS
    <2> QED
      BY <1>6, <2>1, PrecedesIsOrder
  <1> HIDE DEF on, E
  <1>9. \A x, y : Precedes(w, x, y) => 
            \/ \E e \in E : Precedes(on(e), x, y)
            \/ \E e, f \in E : Precedes(s, e, f) /\ x \in ToSet(on(e)) /\ y \in ToSet(on(f))
    BY <1>2 DEF RowsAre, on, E
  <1>10. ASSUME object = "list", w # <<>> PROVE d.ops[w[1]].insert
    <2> DEFINE x == w[1]
    <2>1. Len(w) \in Nat /\ 1 \in 1 .. Len(w) /\ x \in ToSet(w)
      <3>1. Len(w) \in Nat /\ Len(w) > 0
        BY <1>4, <1>10, EmptySeq, LenProperties
      <3>2. 1 \in 1 .. Len(w)
        BY <3>1
      <3> QED
        BY <1>4, <3>1, <3>2, SetOfSeq
    <2>2. \A y : ~Precedes(w, y, x)
      <3> SUFFICES ASSUME NEW y, Precedes(w, y, x) PROVE FALSE
        OBVIOUS
      <3>1. PICK m, n \in DOMAIN w : m < n /\ w[m] = y /\ w[n] = x
        BY DEF Precedes
      <3>2. DOMAIN w = 1 .. Len(w)
        BY <1>4, LenProperties
      <3>3. n = 1
        BY <1>4, <2>1, <3>1, <3>2 DEF Distinct
      <3> QED
        BY <2>1, <3>1, <3>2, <3>3
    <2> HIDE DEF x
    <2>3. x \in D /\ HasRow(d, x)
      BY <1>4, <2>1
    <2>4. PICK e \in E : x \in ToSet(on(e))
      BY <1>5, <2>3 DEF on, E
    <2>5. e \in ToSet(on(e)) /\ e \in ToSet(w) /\ d.ops[e].insert
      BY <1>7, <1>10
    <2>6. CASE x = e
      BY <2>5, <2>6 DEF x
    <2>7. CASE x # e
      <3>1. Precedes(on(e), e, x)
        <4>1. on(e) \in Seq(D) /\ on(e) # <<>> /\ on(e)[1] = e
          BY <1>6, <1>10 DEF on, E
        <4>2. PICK n \in 1 .. Len(on(e)) : on(e)[n] = x
          BY <2>4, <4>1, SetOfSeq
        <4>3. 1 \in 1 .. Len(on(e)) /\ 1 < n /\ DOMAIN on(e) = 1 .. Len(on(e))
          BY <2>7, <4>1, <4>2, LenProperties
        <4> QED
          BY <4>1, <4>2, <4>3 DEF Precedes
      <3>2. Precedes(w, e, x)
        BY <1>2, <2>1, <2>5, <3>1 DEF RowsAre, on, E
      <3> QED
        BY <2>2, <3>2
    <2> QED
      BY <2>6, <2>7
  <1>11. RowsOK(c, DOMAIN c.ops)
    <2>1. \A x : HasRow(c, x) <=> HasRow(d, x)
      BY DEF HasRow
    <2>2. ToSet(w) = {i \in D : HasRow(c, i)}
      BY <1>4, <2>1
    <2>3. \A i \in D : d.ops[i].ref \in D \cup {Head0}
      BY <1>1 DEF OpsOK
    <2> QED
      BY <1>4, <1>10, <2>2, <2>3 DEF RowsOK
  <1>12. ASSUME object = "list" PROVE InTree(c, Listed(c))
    <2>1. /\ ToSet(Listed(c)) = Elements(c, DOMAIN c.ops)
          /\ \A x, y \in Elements(c, DOMAIN c.ops) : Precedes(Listed(c), x, y) <=> Precedes(w, x, y)
      BY <1>3, <1>11, <1>12, ListedHas
    <2>2. Elements(c, DOMAIN c.ops) = E
      BY DEF Elements, E
    <2>3. s \in Seq(E) /\ Distinct(s) /\ ToSet(s) = E /\ InTree(d, s)
      BY <1>1, <1>12 DEF OrderOf, E
    <2>4. ASSUME NEW x \in E, NEW y \in E PROVE Precedes(w, x, y) <=> Precedes(s, x, y)
      <3>1. x \in ToSet(on(x)) /\ y \in ToSet(on(y)) /\ x \in ToSet(w) /\ y \in ToSet(w)
            /\ d.ops[x].insert /\ d.ops[y].insert
        BY <1>7, <1>12
      <3>2. Precedes(s, x, y) => Precedes(w, x, y)
        BY <1>2, <3>1 DEF RowsAre, on, E
      <3>3. ASSUME NEW e \in E, Precedes(on(e), x, y) PROVE FALSE
        <4>1. x \in ToSet(on(e)) /\ y \in ToSet(on(e)) /\ x # y
          BY <1>8, <3>3
        <4>2. x = e /\ y = e
          BY <1>5, <1>12, <3>1, <4>1 DEF on, E
        <4> QED
          BY <4>1, <4>2
      <3>4. ASSUME NEW e \in E, NEW f \in E, Precedes(s, e, f), x \in ToSet(on(e)), y \in ToSet(on(f))
            PROVE  Precedes(s, x, y)
        <4>1. x = e /\ y = f
          BY <1>5, <1>12, <3>1, <3>4 DEF on, E
        <4> QED
          BY <3>4, <4>1
      <3> QED
        BY <1>9, <3>2, <3>3, <3>4
    <2>5. \A x, y : Precedes(s, x, y) => x \in E /\ y \in E
      BY <2>3, PrecedesIsOrder
    <2>6. \A x, y \in E : Precedes(Listed(c), x, y) <=> Precedes(s, x, y)
      BY <2>1, <2>2, <2>4
    <2>7. ToSet(Listed(c)) = ToSet(s)
      BY <2>1, <2>2, <2>3
    <2>8. \A x : x \in E <=> x \in ToSet(s)
      BY <2>3
    <2>9. \A x \in ToSet(s) : c.ops[x].ref = d.ops[x].ref
      OBVIOUS
    <2> HIDE DEF E
    <2> QED
      BY <2>3, <2>5, <2>6, <2>7, <2>8, <2>9, InTreeAlike
  <1> QED
    BY <1>2, <1>3, <1>11, <1>12 DEF TreeOK

-----------------------------------------------------------------------------
(* Operations of a document *)

\* Counters go no further than the number of operations.
IdsInv ==
    /\ Cardinality(DOMAIN made) <= MaxOps + 1
    /\ \A i \in DOMAIN made :
           /\ i[1] \in 1 .. Cardinality(DOMAIN made)
           /\ i[2] \in {Own[r][k] : r \in Replica, k \in {1, 2}}

\* A new identifier counts on from an operation that is held.
LEMMA NextIdCounts ==
    ASSUME OpInv, NEW r \in Replica, NEW S
    PROVE  NextId(r, S)[1] = 1 \/ \E j \in Held(r) : NextId(r, S)[1] = j[1] + 1
  <1> DEFINE T == {Head0} \cup Held(r)
             g == Greatest(T)
  <1>1. DocOK(r) /\ IdsOK
    BY DEF OpInv
  <1>2. T \in SUBSET (Nat \X Nat) /\ IsFiniteSet(T) /\ T # {}
    <2>1. Held(r) \in SUBSET DOMAIN made
      BY <1>1 DEF DocOK
    <2>2. IsFiniteSet(Held(r))
      BY <1>1, <2>1, FS_Subset DEF IdsOK
    <2>3. IsFiniteSet(Held(r) \cup {Head0})
      BY <2>2, FS_AddElement
    <2>4. Held(r) \cup {Head0} = T
      OBVIOUS
    <2>5. Head0 \in Nat \X Nat
      BY DEF Head0
    <2>6. Held(r) \subseteq Nat \X Nat
      BY <1>1, <2>1 DEF IdsOK
    <2> QED
      BY <2>3, <2>4, <2>5, <2>6
  <1>3. g \in T
    BY <1>2, GreatestIs
  <1>4. NextId(r, S)[1] = 1 + g[1]
    BY DEF NextId, Held
  <1>5. g = Head0 \/ g \in Held(r)
    BY <1>3
  <1>6. Head0[1] = 0 /\ g[1] \in Nat
    BY <1>2, <1>3 DEF Head0
  <1> HIDE DEF g
  <1> QED
    BY <1>4, <1>5, <1>6

\* An edit keeps within the count.
LEMMA EditKeepsIds ==
    ASSUME OpInv, IdsInv, NEW r \in Replica, NEW S \in Scopes(r), NEW o, NEW e, Edits(r, S, o, e),
           Cardinality(DOMAIN made) < MaxOps
    PROVE  IdsInv'
  <1> DEFINE i == NextId(r, S)
             D == DOMAIN made
             N == Cardinality(DOMAIN made)
  <1>1. i \notin D /\ DOMAIN made' = D \cup {i}
    BY EditMakes
  <1>2. IsFiniteSet(D) /\ N \in Nat /\ Cardinality(D \cup {i}) = N + 1
    BY <1>1, FS_AddElement, FS_CardinalityType DEF OpInv, IdsOK
  <1>3. i[1] = 1 \/ \E j \in Held(r) : i[1] = j[1] + 1
    BY NextIdCounts
  <1>4. i \in Nat \X Nat /\ i[2] \in {Own[r][1], Own[r][2]}
    BY NextIdIsNew
  <1>5. Held(r) \subseteq D /\ MaxOps \in Nat
    BY OpSetAssumption DEF OpInv, DocOK
  <1> HIDE DEF i, N
  <1>6. \A j \in D : j[1] \in 1 .. N /\ j[2] \in {Own[s][k] : s \in Replica, k \in {1, 2}}
    BY DEF IdsInv, N
  <1>7. i[1] \in 1 .. N + 1
    BY <1>2, <1>3, <1>5, <1>6
  <1>8. i[2] \in {Own[s][k] : s \in Replica, k \in {1, 2}}
    BY <1>4
  <1>9. Cardinality(DOMAIN made') = N + 1
    BY <1>1, <1>2
  <1>10. \A j \in DOMAIN made' : j[1] \in 1 .. N + 1 /\ j[2] \in {Own[s][k] : s \in Replica, k \in {1, 2}}
    BY <1>1, <1>2, <1>6, <1>7, <1>8
  <1>11. N + 1 <= MaxOps + 1
    BY <1>2, <1>5 DEF N
  <1> QED
    BY <1>9, <1>10, <1>11 DEF IdsInv

\* What operations refer to.
LEMMA OpsAre ==
    ASSUME OpInv, IdsInv, NEW r \in Replica, NEW d, NEW B \in SUBSET DOMAIN made,
           d.ops = [i \in Held(r) \cup B |-> made[i].o],
           \A b \in B : made[b].past \subseteq Held(r) \cup B
    PROVE  /\ OpsOK(d)
           /\ DOMAIN d.ops = Held(r) \cup B
           /\ \A i \in Held(r) : d.ops[i].ref \in Held(r) \cup {Head0}
           /\ \A i \in Held(r) \cup B : d.ops[i].pred \subseteq Held(r) \cup B
  <1> DEFINE D == Held(r) \cup B
  <1>1. /\ object \in {"map", "list"} /\ IdsOK
        /\ \A i \in DOMAIN made : PastOK(i) /\ RefersBack(i)
        /\ DocOK(r)
    BY DEF OpInv
  <1>2. D \subseteq DOMAIN made /\ Held(r) \subseteq DOMAIN made
        /\ (\A i \in D : made[i].past \subseteq D) /\ \A i \in Held(r) : made[i].past \subseteq Held(r)
    BY <1>1 DEF DocOK
  <1>3. DOMAIN d.ops = D /\ \A i \in D : d.ops[i] = made[i].o
    OBVIOUS
  <1>4. D \in SUBSET (Nat \X Nat) /\ IsFiniteSet(D)
    <2>1. IsFiniteSet(D)
      BY <1>1, <1>2, FS_Subset DEF IdsOK
    <2> QED
      BY <1>1, <1>2, <2>1 DEF IdsOK
  <1> HIDE DEF D
  <1>5. ASSUME NEW i \in D
        PROVE  /\ i # Head0
               /\ d.ops[i].insert => object = "list" /\ HasRow(d, i) /\ ~IsInc(d, i)
               /\ IF object = "list"
                  THEN \/ d.ops[i].insert /\ d.ops[i].ref = Head0
                       \/ /\ d.ops[i].ref \in D
                          /\ d.ops[d.ops[i].ref].insert /\ Less(d.ops[i].ref, i)
                  ELSE d.ops[i].ref = Head0
               /\ d.ops[i].pred \subseteq D
    <2>1. i \in DOMAIN made /\ PastOK(i) /\ RefersBack(i) /\ d.ops[i] = made[i].o
      BY <1>1, <1>2, <1>3
    <2>2. i[1] \in 1 .. Cardinality(DOMAIN made)
      BY <2>1 DEF IdsInv
    <2>3. i # Head0
      BY <2>2 DEF Head0
    <2>4. \A j \in Earlier(i) : j \in D /\ Less(j, i) /\ d.ops[j] = made[j].o
      BY <1>2, <1>3, <2>1 DEF Earlier, PastOK, Less
    <2> QED
      BY <2>1, <2>3, <2>4 DEF RefersBack, HasRow, IsInc
  <1>6. ASSUME NEW i \in Held(r) PROVE d.ops[i].ref \in Held(r) \cup {Head0}
    <2>1. i \in D /\ i \in DOMAIN made /\ PastOK(i) /\ RefersBack(i) /\ d.ops[i] = made[i].o
      BY <1>1, <1>2, <1>3 DEF D
    <2>2. \A j \in Earlier(i) : j \in Held(r)
      BY <1>2 DEF Earlier
    <2> QED
      BY <2>1, <2>2 DEF RefersBack
  <1>7. OpsOK(d)
    BY <1>1, <1>3, <1>4, <1>5 DEF OpsOK
  <1> QED
    BY <1>3, <1>5, <1>6, <1>7 DEF D

-----------------------------------------------------------------------------
(* The row of an edit *)

\* The place p is in front for an insert at the front, else behind the element
\* that an insert refers to and its rows, and not in front.
PlaceFits(d, o, p) ==
    /\ p \in 1 .. Len(d.order) + 1
    /\ object = "list" =>
           IF o.insert
           THEN \/ o.ref = Head0 /\ p = 1
                \/ \E at \in 1 .. p - 1 :
                       /\ d.order[at] = o.ref
                       /\ \A n \in at + 1 .. p - 1 : ~d.ops[d.order[n]].insert
           ELSE p > 1

\* The rows after an operation o with the identifier i.
RowPut(d, i, o, order) ==
    IF o.type = "del" THEN order = d.order
    ELSE \E p : PlaceFits(d, o, p) /\ order = InsertAt(d.order, p, i)

\* The document e is d with the operation i, the greatest.
OneMore(d, i, o, e) ==
    /\ i \notin DOMAIN d.ops
    /\ DOMAIN e.ops = DOMAIN d.ops \cup {i}
    /\ e.ops[i] = o
    /\ \A j \in DOMAIN d.ops : e.ops[j] = d.ops[j] /\ Less(j, i)

\* The rows stay in order.
LEMMA RowPutHas ==
    ASSUME NEW d, OpsOK(d), RowsOK(d, DOMAIN d.ops), NEW i, NEW o, NEW e, OneMore(d, i, o, e), OpsOK(e),
           RowPut(d, i, o, e.order)
    PROVE  /\ RowsOK(e, DOMAIN e.ops)
           /\ \A x, y \in ToSet(d.order) : Precedes(e.order, x, y) <=> Precedes(d.order, x, y)
           /\ object = "list" /\ o.insert =>
                  \/ o.ref = Head0 /\ \A x : ~Precedes(e.order, x, i)
                  \/ /\ Precedes(e.order, o.ref, i)
                     /\ \A x : /\ Precedes(e.order, o.ref, x) /\ Precedes(e.order, x, i)
                               => ~d.ops[x].insert
  <1> DEFINE D == DOMAIN d.ops
             C == DOMAIN e.ops
             w == e.order
             s == d.order
  <1>1. /\ i \notin D /\ C = D \cup {i} /\ e.ops[i] = o
        /\ \A j \in D : e.ops[j] = d.ops[j] /\ Less(j, i)
    BY DEF OneMore
  <1>2. /\ s \in Seq(D) /\ Distinct(s) /\ ToSet(s) = {j \in D : HasRow(d, j)}
        /\ object = "list" /\ s # <<>> => d.ops[s[1]].insert
    BY DEF RowsOK
  <1>3. s \in Seq(C) /\ (\A j \in D : HasRow(e, j) <=> HasRow(d, j)) /\ (HasRow(e, i) <=> o.type # "del")
    <2>1. D \subseteq C
      BY <1>1
    <2>2. s \in Seq(C)
      <3> HIDE DEF D, C
      <3> QED
        BY <1>2, <2>1, SeqWithin, SetOfSeq
    <2> QED
      BY <1>1, <2>2 DEF HasRow
  <1>4. \A j \in C : e.ops[j].ref \in C \cup {Head0}
    BY DEF OpsOK
  <1>5. Len(s) \in Nat /\ DOMAIN s = 1 .. Len(s) /\ \A n \in 1 .. Len(s) : s[n] \in D /\ s[n] \in ToSet(s)
    BY <1>2, SetOfSeq
  <1>6. CASE o.type = "del"
    <2>1. w = s
      BY <1>6 DEF RowPut
    <2>2. ~(object = "list" /\ o.insert)
      <3>1. o.insert => HasRow(e, i)
        BY <1>1 DEF OpsOK
      <3> QED
        BY <1>3, <1>6, <3>1
    <2>3. ToSet(w) = {j \in C : HasRow(e, j)}
      BY <1>1, <1>2, <1>3, <1>6, <2>1
    <2>4. object = "list" /\ w # <<>> => e.ops[w[1]].insert
      <3> SUFFICES ASSUME object = "list", s # <<>> PROVE e.ops[s[1]].insert
        BY <2>1
      <3>1. Len(s) > 0
        BY <1>2, <1>5, EmptySeq
      <3> QED
        BY <1>1, <1>2, <1>5, <3>1
    <2>5. RowsOK(e, C)
      BY <1>2, <1>3, <1>4, <2>1, <2>3, <2>4 DEF RowsOK
    <2> QED
      BY <2>1, <2>2, <2>5
  <1>7. CASE o.type # "del"
    <2>1. PICK p : PlaceFits(d, o, p) /\ w = InsertAt(s, p, i)
      BY <1>7 DEF RowPut
    <2>2. p \in 1 .. Len(s) + 1
      BY <2>1 DEF PlaceFits
    <2>3. i \in C /\ i \notin ToSet(s)
      BY <1>1, <1>2
    <2> HIDE DEF C, D
    <2>4. /\ w \in Seq(C) /\ Len(w) = Len(s) + 1
          /\ ToSet(w) = ToSet(s) \cup {i}
          /\ Distinct(w)
          /\ \A y, z \in ToSet(s) : Precedes(w, y, z) <=> Precedes(s, y, z)
          /\ \A n \in 1 .. Len(s) : /\ Precedes(w, s[n], i) <=> n < p
                                    /\ Precedes(w, i, s[n]) <=> p <= n
          /\ p > 1 => w[1] = s[1]
          /\ p = 1 => w[1] = i
      <3> HIDE DEF s, w
      <3>1. s \in Seq(C) /\ Distinct(s) /\ w = InsertAt(s, p, i)
        BY <1>2, <1>3, <2>1
      <3> QED
        BY <2>2, <2>3, <3>1, InsertAtHas
    <2>5. ToSet(w) = {j \in C : HasRow(e, j)}
      BY <1>1, <1>2, <1>3, <1>7, <2>4 DEF C, D
    <2>6. ASSUME object = "list" PROVE e.ops[w[1]].insert
      <3>1. CASE p = 1
        BY <1>1, <2>1, <2>4, <2>6, <3>1 DEF PlaceFits
      <3>2. CASE p > 1
        <4>1. 1 \in 1 .. Len(s)
          BY <1>5, <2>2, <3>2
        <4>2. s # <<>> /\ s[1] \in D
          BY <1>5, <4>1
        <4> QED
          BY <1>1, <1>2, <2>4, <2>6, <3>2, <4>2
      <3> QED
        BY <2>2, <3>1, <3>2
    <2>7. RowsOK(e, C)
      BY <1>4, <2>4, <2>5, <2>6 DEF RowsOK, C
    <2>8. ASSUME object = "list", o.insert
          PROVE  \/ o.ref = Head0 /\ \A x : ~Precedes(w, x, i)
                 \/ /\ Precedes(w, o.ref, i)
                    /\ \A x : Precedes(w, o.ref, x) /\ Precedes(w, x, i) => ~d.ops[x].insert
      <3>1. \A x, y : Precedes(w, x, y) => x \in ToSet(w) /\ y \in ToSet(w) /\ x # y
        BY <2>4, PrecedesIsOrder
      <3>2. \A x : Precedes(w, x, i) => \E n \in 1 .. Len(s) : x = s[n] /\ n < p
        <4> SUFFICES ASSUME NEW x, Precedes(w, x, i) PROVE \E n \in 1 .. Len(s) : x = s[n] /\ n < p
          OBVIOUS
        <4>1. x \in ToSet(s)
          BY <2>4, <3>1
        <4>2. PICK n \in 1 .. Len(s) : s[n] = x
          BY <1>2, <4>1, SetOfSeq
        <4> QED
          BY <2>4, <4>2
      <3>3. CASE o.ref = Head0 /\ p = 1
        BY <3>2, <3>3
      <3>4. CASE \E at \in 1 .. p - 1 :
                       /\ s[at] = o.ref
                       /\ \A n \in at + 1 .. p - 1 : ~d.ops[s[n]].insert
        <4>1. PICK at \in 1 .. p - 1 : s[at] = o.ref /\ \A n \in at + 1 .. p - 1 : ~d.ops[s[n]].insert
          BY <3>4
        <4>2. at \in 1 .. Len(s) /\ at < p
          BY <1>5, <2>2
        <4>3. Precedes(w, o.ref, i)
          BY <2>4, <4>1, <4>2
        <4>4. ASSUME NEW x, Precedes(w, o.ref, x), Precedes(w, x, i) PROVE ~d.ops[x].insert
          <5>1. PICK n \in 1 .. Len(s) : x = s[n] /\ n < p
            BY <3>2, <4>4
          <5>2. Precedes(s, s[at], s[n])
            BY <1>5, <2>4, <4>1, <4>2, <4>4, <5>1
          <5>3. PICK k, l \in 1 .. Len(s) : k < l /\ s[k] = s[at] /\ s[l] = s[n]
            BY <1>5, <5>2 DEF Precedes
          <5>4. k = at /\ l = n
            BY <1>2, <1>5, <4>2, <5>1, <5>3 DEF Distinct
          <5>5. n \in at + 1 .. p - 1
            BY <1>5, <2>2, <4>2, <5>1, <5>3, <5>4
          <5> QED
            BY <4>1, <5>1, <5>5
        <4> QED
          BY <4>3, <4>4
      <3> QED
        BY <2>1, <2>8, <3>3, <3>4 DEF PlaceFits
    <2> QED
      BY <2>4, <2>7, <2>8 DEF C
  <1> QED
    BY <1>6, <1>7

\* And a list stays a tree: what was inserted last is in front of all that was
\* inserted at its place.
LEMMA RowAdded ==
    ASSUME NEW d, TreeOK(d), NEW i, NEW o, NEW e, OneMore(d, i, o, e), OpsOK(e),
           RowPut(d, i, o, e.order)
    PROVE  TreeOK(e)
  <1> DEFINE D == DOMAIN d.ops
             C == DOMAIN e.ops
             w == e.order
             s == Listed(d)
             t == Listed(e)
             E == Elements(d, D)
             F == Elements(e, C)
  <1>1. /\ i \notin D /\ C = D \cup {i} /\ e.ops[i] = o
        /\ \A j \in D : e.ops[j] = d.ops[j] /\ Less(j, i)
    BY DEF OneMore
  <1>2. OpsOK(d) /\ RowsOK(d, D) /\ (object = "list" => InTree(d, s))
    BY DEF TreeOK
  <1>3. /\ RowsOK(e, C)
        /\ \A x, y \in ToSet(d.order) : Precedes(w, x, y) <=> Precedes(d.order, x, y)
        /\ object = "list" /\ o.insert =>
               \/ o.ref = Head0 /\ \A x : ~Precedes(w, x, i)
               \/ /\ Precedes(w, o.ref, i)
                  /\ \A x : Precedes(w, o.ref, x) /\ Precedes(w, x, i) => ~d.ops[x].insert
    BY <1>2, RowPutHas
  <1>4. ASSUME object = "list" PROVE InTree(e, t)
    <2>1. s \in Seq(E) /\ Distinct(s) /\ ToSet(s) = E
          /\ \A x, y \in E : Precedes(s, x, y) <=> Precedes(d.order, x, y)
      BY <1>2, <1>4, ListedHas
    <2>2. t \in Seq(F) /\ Distinct(t) /\ ToSet(t) = F
          /\ \A x, y \in F : Precedes(t, x, y) <=> Precedes(w, x, y)
      BY <1>3, <1>4, ListedHas
    <2>3. \A x : x \in F <=> x \in E \/ (x = i /\ o.insert)
      BY <1>1, <1>4 DEF Elements
    <2>4. \A x \in E : x \in D /\ d.ops[x].insert /\ x \in ToSet(d.order) /\ e.ops[x] = d.ops[x] /\ Less(x, i)
      BY <1>1, <1>2, <1>4 DEF Elements, RowsOK, OpsOK
    <2>5. \A x, y : Precedes(t, x, y) => x \in F /\ y \in F
      BY <2>2, PrecedesIsOrder
    <2>6. \A x, y : Precedes(s, x, y) => x \in E /\ y \in E
      BY <2>1, PrecedesIsOrder
    <2>7. \A x, y \in E : Precedes(t, x, y) <=> Precedes(s, x, y)
      BY <1>3, <2>1, <2>2, <2>3, <2>4
    <2>8. InTree(d, s)
      BY <1>2, <1>4
    <2> HIDE DEF E, F, s, t, w, C, D
    <2>9. SUFFICES ASSUME NEW x \in F
                   PROVE  /\ e.ops[x].ref = Head0 \/ Precedes(t, e.ops[x].ref, x)
                          /\ \A y \in F : /\ Precedes(t, y, x)
                                          /\ e.ops[x].ref = Head0 \/ Precedes(t, e.ops[x].ref, y)
                                          => Less(x, y)
      BY <2>2 DEF InTree
    <2>10. CASE x \in E
      <3>1. d.ops[x].ref = Head0 \/ Precedes(s, d.ops[x].ref, x)
        BY <2>1, <2>8, <2>10 DEF InTree
      <3>2. \A y \in E : /\ Precedes(s, y, x) /\ (d.ops[x].ref = Head0 \/ Precedes(s, d.ops[x].ref, y))
                         => Less(x, y)
        BY <2>1, <2>8, <2>10 DEF InTree
      <3>3. e.ops[x].ref = d.ops[x].ref
        BY <2>4, <2>10
      <3>4. e.ops[x].ref = Head0 \/ (e.ops[x].ref \in E /\ Precedes(t, e.ops[x].ref, x))
        BY <2>6, <2>7, <3>1, <3>3
      <3>5. ASSUME NEW y \in F, Precedes(t, y, x), e.ops[x].ref = Head0 \/ Precedes(t, e.ops[x].ref, y)
            PROVE  Less(x, y)
        <4>1. CASE y \in E
          BY <2>7, <2>10, <3>2, <3>3, <3>4, <3>5, <4>1
        <4>2. CASE y = i
          BY <2>4, <2>10, <4>2
        <4> QED
          BY <2>3, <4>1, <4>2
      <3> QED
        BY <3>4, <3>5
    <2>11. CASE x = i /\ o.insert
      <3>1. CASE o.ref = Head0 /\ \A y : ~Precedes(w, y, i)
        <4>1. \A y \in F : ~Precedes(t, y, x)
          BY <2>2, <2>11, <3>1
        <4> QED
          BY <1>1, <2>11, <3>1, <4>1
      <3>2. CASE /\ Precedes(w, o.ref, i)
                 /\ \A y : Precedes(w, o.ref, y) /\ Precedes(w, y, i) => ~d.ops[y].insert
        <4>1. o.ref # Head0 => o.ref \in F
          BY <1>1, <1>4, <2>11 DEF OpsOK, F, Elements, C
        <4>2. o.ref = Head0 \/ Precedes(t, o.ref, x)
          BY <2>2, <2>11, <3>2, <4>1
        <4>3. o.ref # Head0
          <5>1. Head0 \notin C
            BY DEF OpsOK, C
          <5>2. o.ref \in ToSet(w)
            BY <1>3, <3>2, PrecedesIsOrder DEF RowsOK, w
          <5>3. o.ref \in C
            BY <1>3, <5>2 DEF RowsOK, w
          <5> QED
            BY <5>1, <5>3
        <4>4. ASSUME NEW y \in F, Precedes(t, y, x), Precedes(t, o.ref, y)
              PROVE  FALSE
          <5>1. Precedes(w, o.ref, y) /\ Precedes(w, y, i)
            BY <2>2, <2>5, <2>11, <4>1, <4>3, <4>4
          <5>2. ~d.ops[y].insert
            BY <3>2, <5>1
          <5>3. y # i
            BY <2>2, <2>11, <4>4, PrecedesIsOrder
          <5> QED
            BY <2>3, <2>4, <5>2, <5>3
        <4> QED
          BY <1>1, <2>11, <4>2, <4>3, <4>4
      <3> QED
        BY <1>3, <1>4, <2>11, <3>1, <3>2 DEF w
    <2> QED
      BY <2>3, <2>10, <2>11
  <1> QED
    BY <1>3, <1>4 DEF TreeOK

-----------------------------------------------------------------------------
(* The places of edits *)

\* Where rows of one element next to each other begin.
Changes(d) == {n \in DOMAIN d.order : n = 1 \/ Elem(d, d.order[n]) # Elem(d, d.order[n - 1])}

\* Groups are sequences of the sequences they consist of.
LEMMA GroupedSeq ==
    ASSUME NEW d, NEW T, d.order \in Seq(T), NEW from \in SUBSET (1 .. Len(d.order))
    PROVE  Grouped(d, from) \in Seq(ToSet(Grouped(d, from)))
  <1> DEFINE G == Grouped(d, from)
             N == Cardinality(from)
  <1>1. N \in Nat
    <2>1. Len(d.order) \in Nat
      BY LenProperties
    <2>2. IsFiniteSet(1 .. Len(d.order))
      BY <2>1, FS_Interval
    <2> QED
      BY <2>2, FS_Subset, FS_CardinalityType
  <1>2. DOMAIN G = 1 .. N /\ \E g : G = [k \in 1 .. N |-> g[k]]
    <2> DEFINE end(k) == IF k < Cardinality(from) THEN Nth(from, k + 1) - 1 ELSE Len(d.order)
               g == [k \in 1 .. N |-> SubSeq(d.order, Nth(from, k), end(k))]
    <2>1. G = g
      BY DEF Grouped
    <2>2. DOMAIN g = 1 .. N /\ g = [k \in 1 .. N |-> g[k]]
      OBVIOUS
    <2> HIDE DEF g, G, N
    <2> QED
      BY <2>1, <2>2
  <1> HIDE DEF G, N
  <1>3. ToSet(G) = {G[k] : k \in 1 .. N}
    BY <1>2 DEF ToSet
  <1>4. G \in [1 .. N -> ToSet(G)]
    BY <1>2, <1>3
  <1>5. G \in Seq(ToSet(G))
    BY <1>1, <1>4, FunctionIsSeq
  <1> QED
    BY <1>5 DEF G

\* What is seen of groups is of one of them, and visible.
LEMMA SeenIs ==
    ASSUME NEW d, NEW T, d.order \in Seq(T), NEW from \in SUBSET (1 .. Len(d.order)), NEW S, NEW k,
           NEW found, found = At(Seen(d, S, Grouped(d, from)), k), found # {}
    PROVE  \E g \in ToSet(Grouped(d, from)) : found = Visible(d, S) \cap ToSet(g)
  <1> DEFINE G == Grouped(d, from)
             V == Visible(d, S)
             W == {g \in ToSet(G) : ToSet(g) \cap V # {}}
             shows == Only(G, W)
             F == Seen(d, S, G)
  <1>1. F = [n \in DOMAIN shows |-> V \cap ToSet(shows[n])]
    BY DEF Seen
  <1>2. k \in DOMAIN F /\ found = F[k]
    BY DEF At
  <1>3. G \in Seq(ToSet(G))
    BY GroupedSeq
  <1> HIDE DEF G, V, F, W
  <1>4. shows \in Seq(ToSet(G))
    BY <1>3, OnlyHas
  <1> HIDE DEF shows
  <1>5. k \in DOMAIN shows /\ found = V \cap ToSet(shows[k])
    BY <1>1, <1>2
  <1>6. shows[k] \in ToSet(G)
    BY <1>4, <1>5, SetOfSeq
  <1> QED
    BY <1>5, <1>6 DEF G, V

\* Rows that are found are visible rows of the document.
LEMMA FoundInRows ==
    ASSUME NEW d, NEW T, d.order \in Seq(T), d.vis \subseteq ToSet(d.order), NEW S, NEW k
    PROVE  /\ At(Found(d, S), k) \subseteq Visible(d, S) \cap ToSet(d.order)
           /\ At(Seen(d, S, Registers(d)), k) \subseteq Visible(d, S) \cap ToSet(d.order)
  <1>1. From(d) \in SUBSET (1 .. Len(d.order)) /\ Changes(d) \in SUBSET (1 .. Len(d.order))
    BY LenProperties DEF From, Changes
  <1>2. ASSUME NEW from \in SUBSET (1 .. Len(d.order)), NEW g \in ToSet(Grouped(d, from))
        PROVE  ToSet(g) \subseteq ToSet(d.order)
    <2>1. PICK a, b \in 1 .. Len(d.order) : Block(d, from, a, b) /\ g = SubSeq(d.order, a, b)
      BY <1>2, GroupedIs
    <2>2. \A x \in ToSet(g) : \E n \in a .. b : d.order[n] = x
      <3>1. b \in a .. Len(d.order)
        BY <2>1 DEF Block
      <3>2. \A x : x \in ToSet(SubSeq(d.order, a, b)) <=> \E n \in a .. b : d.order[n] = x
        BY <3>1, PartHas
      <3> QED
        BY <2>1, <3>2
    <2>3. \A n \in a .. b : n \in 1 .. Len(d.order)
      BY LenProperties
    <2> QED
      BY <2>2, <2>3, SetOfSeq
  <1>3. ASSUME NEW from \in SUBSET (1 .. Len(d.order))
        PROVE  At(Seen(d, S, Grouped(d, from)), k) \subseteq Visible(d, S) \cap ToSet(d.order)
    <2> DEFINE found == At(Seen(d, S, Grouped(d, from)), k)
    <2>1. found # {} => \E g \in ToSet(Grouped(d, from)) : found = Visible(d, S) \cap ToSet(g)
      BY SeenIs
    <2> QED
      BY <1>2, <2>1
  <1>4. Registers(d) = Grouped(d, From(d)) /\ Runs(d) = Grouped(d, Changes(d))
    BY DEF Registers, Runs, From, Changes
  <1>5. At(Seen(d, S, Registers(d)), k) \subseteq Visible(d, S) \cap ToSet(d.order)
        /\ At(Seen(d, S, Runs(d)), k) \subseteq Visible(d, S) \cap ToSet(d.order)
    BY <1>1, <1>3, <1>4
  <1>6. CASE object = "map" \/ S # {}
    BY <1>5, <1>6 DEF Found
  <1>7. CASE ~(object = "map" \/ S # {})
    <2>1. Visible(d, S) = d.vis
      BY <1>7 DEF Visible
    <2> QED
      BY <1>5, <2>1, FoundIsVisible
  <1> QED
    BY <1>5, <1>6, <1>7

\* The place of what is inserted after the element e.
LEMMA InsertPosIs ==
    ASSUME NEW d, OpsOK(d), RowsOK(d, DOMAIN d.ops), NEW e \in DOMAIN d.ops, d.ops[e].insert
    PROVE  \E at \in 1 .. InsertPos(d, e) :
               /\ InsertPos(d, e) \in 1 .. Len(d.order)
               /\ d.order[at] = e
               /\ \A n \in at + 1 .. InsertPos(d, e) : ~d.ops[d.order[n]].insert
  <1> DEFINE at == CHOOSE n \in DOMAIN d.order : d.order[n] = e
             N == Len(d.order)
             later == {n \in DOMAIN d.order : n > at /\ d.ops[d.order[n]].insert}
             rest == {n \in DOMAIN d.order : ~IsInc(d, d.order[n])}
  <1>1. d.order \in Seq(DOMAIN d.ops) /\ ToSet(d.order) = {j \in DOMAIN d.ops : HasRow(d, j)}
    BY DEF RowsOK
  <1>2. HasRow(d, e) /\ ~IsInc(d, e)
    BY DEF OpsOK
  <1>3. N \in Nat /\ DOMAIN d.order = 1 .. N /\ \E n \in 1 .. N : d.order[n] = e
    BY <1>1, <1>2, SetOfSeq
  <1>4. at \in 1 .. N /\ d.order[at] = e
    BY <1>3
  <1> HIDE DEF at, N
  <1>5. later \in SUBSET Nat /\ later \subseteq 1 .. N /\ rest \in SUBSET Nat /\ at \in rest
        /\ (\A n \in rest : n <= N) /\ rest \subseteq 1 .. N
    BY <1>2, <1>3, <1>4
  <1>6. InsertPos(d, e) = IF later # {} THEN Min(later) - 1 ELSE Max(rest)
    BY DEF InsertPos, at
  <1>7. CASE later # {}
    <2> DEFINE m == Min(later)
    <2>1. m \in later /\ \A n \in later : m <= n
      BY <1>5, <1>7, MinIs
    <2> HIDE DEF m
    <2>2. m \in 1 .. N /\ at < m
      BY <1>3, <2>1
    <2>3. ASSUME NEW n \in at + 1 .. m - 1 PROVE ~d.ops[d.order[n]].insert
      <3>1. n \in 1 .. N /\ n > at /\ ~(m <= n)
        BY <1>3, <1>4, <2>2
      <3>2. n \notin later
        BY <2>1, <3>1
      <3> QED
        BY <1>3, <3>1, <3>2
    <2> HIDE DEF later
    <2>4. m - 1 \in 1 .. N /\ at \in 1 .. m - 1
      BY <1>3, <1>4, <2>2
    <2> QED
      BY <1>4, <1>6, <1>7, <2>3, <2>4 DEF N, m
  <1>8. CASE later = {}
    <2>1. Max(rest) \in rest /\ \A m \in rest : m <= Max(rest)
      <3> HIDE DEF rest
      <3> QED
        BY <1>3, <1>5, MaxIs
    <2>2. Max(rest) \in 1 .. N /\ at <= Max(rest)
      BY <1>5, <2>1
    <2>3. ASSUME NEW n \in at + 1 .. Max(rest) PROVE ~d.ops[d.order[n]].insert
      <3>1. n \in 1 .. N /\ n > at
        BY <1>3, <1>4, <2>2
      <3> QED
        BY <1>3, <1>8, <3>1
    <2> HIDE DEF rest
    <2>4. at \in 1 .. Max(rest)
      BY <1>3, <1>4, <2>2
    <2> QED
      BY <1>4, <1>6, <1>8, <2>2, <2>3, <2>4 DEF N
  <1> QED
    BY <1>7, <1>8

\* The place of an edit of the rows found.
LEMMA UpdatePlace ==
    ASSUME NEW d, OpsOK(d), RowsOK(d, DOMAIN d.ops), d.vis \subseteq ToSet(d.order), NEW S, NEW k,
           At(Found(d, S), k) # {} \/ object = "map",
           NEW p, p = EndOf(d, RangeAt(d, S, k)) + 1
    PROVE  /\ p \in 1 .. Len(d.order) + 1 /\ (object = "list" => p > 1)
           /\ RangeAt(d, S, k) \in Seq(DOMAIN d.ops)
  <1> DEFINE N == Len(d.order)
             rows == RangeAt(d, S, k)
             end == CHOOSE n \in DOMAIN d.order : d.order[n] = Last(rows)
  <1>1. d.order \in Seq(DOMAIN d.ops) /\ Distinct(d.order) /\ object \in {"map", "list"}
    BY DEF RowsOK, OpsOK
  <1>2. N \in Nat /\ DOMAIN d.order = 1 .. N
    BY <1>1, LenProperties
  <1>3. CASE object = "map"
    <2>1. rows = d.order
      BY <1>3 DEF RangeAt
    <2>4. rows \in Seq(DOMAIN d.ops)
      BY <1>1, <2>1
    <2>2. CASE d.order = <<>>
      BY <1>2, <1>3, <2>1, <2>2, <2>4 DEF EndOf
    <2>3. CASE d.order # <<>>
      <3>1. N > 0
        BY <1>1, <1>2, <2>3, EmptySeq
      <3>2. Last(rows) = d.order[N] /\ N \in 1 .. N
        BY <1>2, <2>1, <3>1 DEF Last
      <3>3. end \in 1 .. N
        BY <1>2, <3>2
      <3> QED
        BY <1>2, <1>3, <2>1, <2>3, <2>4, <3>3 DEF EndOf
    <2> QED
      BY <2>2, <2>3, <2>4
  <1>4. CASE object = "list"
    <2> DEFINE found == At(Found(d, S), k)
               from == IF S = {} THEN From(d) ELSE Changes(d)
               M == {n \in DOMAIN d.order : d.order[n] \in found}
    <2>1. found # {} /\ found = Found(d, S)[k]
      BY <1>4 DEF At
    <2>2. found \subseteq ToSet(d.order)
      BY <1>1, FoundInRows
    <2> HIDE DEF found
    <2>3. M # {} /\ M \in SUBSET Nat /\ \A n \in M : n <= N
      <3>1. PICK x \in found : x \in ToSet(d.order)
        BY <2>1, <2>2
      <3>2. \E n \in 1 .. N : d.order[n] = x
        BY <1>1, <3>1, SetOfSeq
      <3> QED
        BY <1>2, <3>1, <3>2
    <2>4. Max(M) \in M
      <3> HIDE DEF M
      <3> QED
        BY <1>2, <2>3, MaxIs
    <2> DEFINE n == Max(M)
    <2>5. n \in 1 .. N /\ Winner(d, found) = d.order[n]
      BY <1>2, <2>4 DEF Winner
    <2> HIDE DEF n
    <2>6. rows = Around(Grouped(d, from), d.order[n])
      BY <1>4, <2>1, <2>5 DEF RangeAt, Registers, Runs, From, Changes
    <2>7. from \in SUBSET (1 .. N) /\ 1 \in from
      <3>1. N >= 1 /\ d.order # <<>>
        BY <1>2, <2>5
      <3>2. d.ops[d.order[1]].insert
        BY <1>4, <3>1 DEF RowsOK
      <3> QED
        BY <1>2, <1>4, <3>1, <3>2 DEF From, Changes
    <2> HIDE DEF from
    <2>8. PICK a, b \in 1 .. N : Block(d, from, a, b) /\ n \in a .. b /\ rows = SubSeq(d.order, a, b)
      <3>1. \E a \in from : a <= n
        BY <2>5, <2>7
      <3>2. \E a, b \in 1 .. Len(d.order) :
               /\ Block(d, from, a, b) /\ n \in a .. b
               /\ Around(Grouped(d, from), d.order[n]) = SubSeq(d.order, a, b)
        BY <1>1, <2>5, <2>7, <3>1, AroundIs
      <3> QED
        BY <2>6, <3>2
    <2> HIDE DEF rows
    <2>9. b \in a .. N
      BY <2>8 DEF Block
    <2>10. rows \in Seq(DOMAIN d.ops) /\ Len(rows) = b - a + 1 /\ \A j \in 1 .. b - a + 1 : rows[j] = d.order[a + j - 1]
      <3> DEFINE t == SubSeq(d.order, a, b)
      <3>1. a \in 1 .. Len(d.order) /\ b \in a .. Len(d.order)
        BY <2>8, <2>9
      <3> HIDE DEF t
      <3>4. t = SubSeq(d.order, a, b)
        BY DEF t
      <3>5. t \in Seq(DOMAIN d.ops)
        BY <1>1, <3>1, <3>4, PartHas
      <3>6. Len(t) = b - a + 1
        BY <1>1, <3>1, <3>4, PartHas
      <3>2. t \in Seq(DOMAIN d.ops) /\ Len(t) = b - a + 1
        BY <3>5, <3>6
      <3>3. \A j \in 1 .. b - a + 1 : t[j] = d.order[a + j - 1]
        BY <1>1, <3>1, <3>4, PartHas
      <3> QED
        BY <2>8, <3>2, <3>3, <3>4
    <2>11. rows # <<>> /\ Last(rows) = d.order[b]
      BY <1>2, <2>8, <2>9, <2>10 DEF Last
    <2>12. end \in 1 .. N
      BY <1>2, <2>8, <2>11
    <2>13. EndOf(d, rows) = end
      BY <2>11 DEF EndOf
    <2> HIDE DEF end
    <2> QED
      BY <1>2, <2>10, <2>12, <2>13 DEF rows
  <1> QED
    BY <1>1, <1>3, <1>4

\* Every document has its rows in order, and what wins is visible.
RowsInv ==
    /\ IndexInv
    /\ IdsInv
    /\ \A r \in Replica : TreeOK(doc[r]) /\ doc[r].top \subseteq doc[r].vis

\* What is visible has a row.
LEMMA VisibleInRows ==
    ASSUME RowsInv, NEW r \in Replica
    PROVE  doc[r].vis \subseteq ToSet(doc[r].order) /\ DOMAIN doc[r] = Fields /\ TreeOK(doc[r])
  <1>1. TreeOK(doc[r]) /\ IndexOK(r) /\ DocOK(r)
    BY DEF RowsInv, IndexInv, OpInv
  <1>2. \A i \in Held(r) : doc[r].ops[i] = made[i].o
    BY <1>1 DEF DocOK
  <1>3. ToSet(doc[r].order) = {i \in Held(r) : HasRow(doc[r], i)}
    BY <1>1 DEF TreeOK, RowsOK, Held
  <1> QED
    BY <1>1, <1>2, <1>3 DEF IndexOK, VisOf, HasRow, DocOK

\* What the document is after an edit, but for rows.
LEMMA EditAdds ==
    ASSUME RowsInv, NEW r \in Replica, NEW S \in Scopes(r), NEW o, NEW e, Edits(r, S, o, e),
           NEW i, i = NextId(r, S)
    PROVE  OneMore(doc[r], i, o, e) /\ OpsOK(e)
  <1> DEFINE d == doc[r]
             D == Held(r)
  <1>1. OpInv /\ DocOK(r) /\ OpsOK(d) /\ D = DOMAIN d.ops
    BY DEF RowsInv, IndexInv, OpInv, TreeOK, Held
  <1>2. i \in Nat \X Nat /\ i \notin DOMAIN made /\ DOMAIN e.ops = D \cup {i}
        /\ e.ops[i] = o /\ \A j \in D : e.ops[j] = d.ops[j]
    <2>1. i \in Nat \X Nat /\ i \notin DOMAIN made
      BY <1>1, NextIdIsNew
    <2>2. e.ops = With(d.ops, i, o)
      BY DEF Edits, DocAfter
    <2>3. i \notin D
      BY <1>1, <2>1 DEF DocOK
    <2> HIDE DEF d
    <2>4. DOMAIN e.ops = DOMAIN d.ops \cup {i} /\ e.ops[i] = o
      BY <2>2 DEF With
    <2>5. \A j \in DOMAIN d.ops : j # i => e.ops[j] = d.ops[j]
      BY <2>2 DEF With
    <2> QED
      BY <1>1, <2>1, <2>3, <2>4, <2>5
  <1>3. (\A j \in D : j[1] < i[1]) /\ (i[1] = 1 \/ \E j \in D : i[1] = j[1] + 1)
    BY <1>1, NextIdIsNew, NextIdCounts
  <1>4. D \subseteq DOMAIN made /\ D \subseteq Nat \X Nat /\ \A j \in D : d.ops[j] = made[j].o
    BY <1>1 DEF DocOK, OpsOK
  <1>5. BasedOn(r, S, o) /\ InView(d, S) \subseteq D
    BY <1>1, ScopeIsClosed DEF Edits
  <1> HIDE DEF D
  <1>6. i \notin D /\ (\A j \in D : Less(j, i)) /\ i # Head0
    <2>1. i[1] # 0
      BY <1>3, <1>4
    <2> QED
      BY <1>2, <1>3, <1>4, <2>1 DEF Less, Head0
  <1>7. OneMore(d, i, o, e)
    BY <1>1, <1>2, <1>6 DEF OneMore
  <1>8. IsFiniteSet(D \cup {i}) /\ D \cup {i} \in SUBSET (Nat \X Nat) /\ object \in {"map", "list"}
    BY <1>1, <1>2, <1>4, FS_AddElement DEF OpsOK
  <1>9. ASSUME NEW j \in D
        PROVE  /\ j # Head0
               /\ e.ops[j].insert => object = "list" /\ HasRow(e, j) /\ ~IsInc(e, j)
               /\ IF object = "list"
                  THEN \/ e.ops[j].insert /\ e.ops[j].ref = Head0
                       \/ /\ e.ops[j].ref \in D
                          /\ e.ops[e.ops[j].ref].insert /\ Less(e.ops[j].ref, j)
                  ELSE e.ops[j].ref = Head0
    BY <1>1, <1>2 DEF OpsOK, HasRow, IsInc
  <1>10. /\ o.insert => object = "list" /\ HasRow(e, i) /\ ~IsInc(e, i)
         /\ IF object = "list"
            THEN \/ o.insert /\ o.ref = Head0
                 \/ o.ref \in D /\ e.ops[o.ref].insert /\ Less(o.ref, i)
            ELSE o.ref = Head0
    <2>1. \A j \in InView(d, S) : j \in D /\ e.ops[j] = made[j].o
      BY <1>2, <1>4, <1>5
    <2> QED
      BY <1>2, <1>5, <1>6, <2>1 DEF BasedOn, HasRow, IsInc
  <1>11. ASSUME NEW j \in DOMAIN e.ops
         PROVE  /\ j # Head0
                /\ e.ops[j].insert => object = "list" /\ HasRow(e, j) /\ ~IsInc(e, j)
                /\ IF object = "list"
                   THEN \/ e.ops[j].insert /\ e.ops[j].ref = Head0
                        \/ /\ e.ops[j].ref \in DOMAIN e.ops
                           /\ e.ops[e.ops[j].ref].insert /\ Less(e.ops[j].ref, j)
                   ELSE e.ops[j].ref = Head0
    BY <1>2, <1>6, <1>9, <1>10
  <1>12. OpsOK(e)
    BY <1>2, <1>8, <1>11 DEF OpsOK
  <1> QED
    BY <1>7, <1>12

\* Where the row of an edit is put, and what wins.
LEMMA InsertRowIs ==
    ASSUME RowsInv, NEW r \in Replica, NEW S \in Scopes(r), NEW o, NEW e, Edits(r, S, o, e),
           InsertsRow(r, S, o, e), NEW i, i = NextId(r, S)
    PROVE  RowPut(doc[r], i, o, e.order) /\ e.top \subseteq e.vis /\ e.top = doc[r].top \cup {i}
  <1> DEFINE d == doc[r]
             F == IF S = {} THEN Found(d, S) ELSE Seen(d, S, Registers(d))
  <1>1. /\ object = "list" /\ o.insert /\ o.pred = {} /\ o.type \in {"set", "counter"}
        /\ \/ o.ref = Head0 /\ e = WithRow(d, i, o, 0)
           \/ /\ \E k : At(F, k) # {} /\ o.ref = ElemOf(d, At(F, k))
              /\ e = WithRow(d, i, o, InsertPos(d, o.ref))
    BY DEF InsertsRow
  <1>2. d.vis \subseteq ToSet(d.order) /\ DOMAIN d = Fields /\ OpsOK(d) /\ RowsOK(d, DOMAIN d.ops)
        /\ d.top \subseteq d.vis
    BY VisibleInRows DEF TreeOK, RowsInv
  <1>3. OpInv /\ Held(r) = DOMAIN d.ops /\ \A j \in Held(r) : d.ops[j] = made[j].o
    BY DEF RowsInv, IndexInv, OpInv, DocOK, Held
  <1>4. ASSUME NEW pos, e = WithRow(d, i, o, pos)
        PROVE  e.order = InsertAt(d.order, pos + 1, i) /\ e.vis = d.vis \cup {i} /\ e.top = d.top \cup {i}
    <2>1. o.type # "del" /\ o.type # "inc"
      BY <1>1
    <2> HIDE DEF d
    <2> QED
      BY <1>2, <1>4, <2>1 DEF WithRow, Fields
  <1>5. CASE o.ref = Head0 /\ e = WithRow(d, i, o, 0)
    <2>1. e.order = InsertAt(d.order, 1, i)
      BY <1>4, <1>5
    <2>2. PlaceFits(d, o, 1)
      <3>1. Len(d.order) \in Nat
        BY <1>2, LenProperties DEF RowsOK
      <3> QED
        BY <1>1, <1>5, <3>1 DEF PlaceFits
    <2> QED
      BY <1>1, <1>2, <1>4, <1>5, <2>1, <2>2 DEF RowPut
  <1>6. CASE /\ \E k : At(F, k) # {} /\ o.ref = ElemOf(d, At(F, k))
             /\ e = WithRow(d, i, o, InsertPos(d, o.ref))
    <2>1. PICK k : At(F, k) # {} /\ o.ref = ElemOf(d, At(F, k))
      BY <1>6
    <2>2. At(F, k) \subseteq InView(d, S)
      BY <1>3, FoundIsVisible, ScopeIsClosed
    <2> HIDE DEF F
    <2>3. o.ref \in InView(d, S) /\ made[o.ref].o.insert
      BY <1>1, <1>3, <2>1, <2>2, ElementInView
    <2>4. o.ref \in DOMAIN d.ops /\ d.ops[o.ref].insert
      BY <1>3, <2>3, ScopeIsClosed
    <2> DEFINE pos == InsertPos(d, o.ref)
    <2>5. PICK at \in 1 .. pos :
               /\ pos \in 1 .. Len(d.order)
               /\ d.order[at] = o.ref
               /\ \A n \in at + 1 .. pos : ~d.ops[d.order[n]].insert
      BY <1>2, <2>4, InsertPosIs
    <2>6. e.order = InsertAt(d.order, pos + 1, i)
      BY <1>4, <1>6
    <2> HIDE DEF pos
    <2>7. Len(d.order) \in Nat
      BY <1>2, LenProperties DEF RowsOK
    <2>8. pos + 1 \in 1 .. Len(d.order) + 1 /\ at \in 1 .. (pos + 1) - 1 /\ (pos + 1) - 1 = pos
      BY <2>5, <2>7
    <2>9. PlaceFits(d, o, pos + 1)
      BY <1>1, <2>5, <2>8 DEF PlaceFits
    <2> QED
      BY <1>1, <1>2, <1>4, <1>6, <2>6, <2>9 DEF RowPut
  <1> QED
    BY <1>1, <1>5, <1>6

\* Another operation is put behind the rows it is about; then, again, only visible
\* rows win.
LEMMA UpdateRowIs ==
    ASSUME RowsInv, ~MixedIncrements, NEW r \in Replica, NEW S \in Scopes(r), NEW o, NEW e,
           Edits(r, S, o, e), UpdatesRow(r, S, o, e), NEW i, i = NextId(r, S)
    PROVE  RowPut(doc[r], i, o, e.order) /\ e.top \subseteq e.vis
  <1> DEFINE d == doc[r]
             D == DOMAIN d.ops
  <1>1. PICK k : /\ ~o.insert
                 /\ At(Found(d, S), k) # {} \/ (object = "map" /\ k = 1)
                 /\ e = Updated(d, i, o, S, RangeAt(d, S, k))
    BY DEF UpdatesRow
  <1>2. d.vis \subseteq ToSet(d.order) /\ DOMAIN d = Fields /\ OpsOK(d) /\ RowsOK(d, D)
        /\ d.top \subseteq d.vis
    BY VisibleInRows DEF TreeOK, RowsInv
  <1> DEFINE rows == RangeAt(d, S, k)
             p == EndOf(d, rows) + 1
             w == WithRow(d, i, o, EndOf(d, rows))
             f == WithSucc(w, i)
             t == IF S = {} THEN f ELSE TopReset(f, Append(rows, i))
  <1>3. p \in 1 .. Len(d.order) + 1 /\ (object = "list" => p > 1) /\ rows \in Seq(D)
    BY <1>1, <1>2, UpdatePlace
  <1>4. e = CounterExposed(t, i)
    BY <1>1 DEF Updated
  <1> HIDE DEF rows, p
  <1>5. /\ w.order = IF o.type = "del" THEN d.order ELSE InsertAt(d.order, p, i)
        /\ w.top \subseteq w.vis /\ DOMAIN w = Fields
        /\ w.ops = With(d.ops, i, o)
    BY <1>2 DEF WithRow, Fields, p
  <1> HIDE DEF w
  <1>6. f.order = w.order /\ f.top \subseteq f.vis /\ DOMAIN f = Fields /\ f.ops = w.ops
    BY <1>5 DEF WithSucc, Fields
  <1> HIDE DEF f
  <1>7. t.order = f.order /\ t.top \subseteq t.vis /\ DOMAIN t = Fields /\ t.ops = f.ops
    <2>1. CASE S = {}
      BY <1>6, <2>1
    <2>2. CASE S # {}
      <3> DEFINE all == Append(rows, i)
                 seen == Only(all, f.vis)
      <3>1. all \in Seq(D \cup {i})
        BY <1>3
      <3> HIDE DEF all
      <3>2. seen \in Seq(D \cup {i}) /\ ToSet(seen) = ToSet(all) \cap f.vis
        BY <3>1, OnlyHas DEF Keeps
      <3> HIDE DEF seen
      <3>3. seen # <<>> => Last(seen) \in f.vis
        <4> SUFFICES ASSUME seen # <<>> PROVE Last(seen) \in f.vis
          OBVIOUS
        <4>1. Len(seen) \in 1 .. Len(seen)
          BY <3>2, EmptySeq, LenProperties
        <4>2. Last(seen) \in ToSet(seen)
          BY <3>2, <4>1, SetOfSeq DEF Last
        <4> QED
          BY <3>2, <4>2
      <3>4. TopReset(f, all) = [f EXCEPT !.top = (@ \ ToSet(seen)) \cup (IF seen = <<>> THEN {} ELSE {Last(seen)})]
        BY DEF TopReset, seen
      <3>5. t = TopReset(f, all)
        BY <2>2 DEF all
      <3> QED
        BY <1>6, <3>3, <3>4, <3>5 DEF Fields
    <2> QED
      BY <2>1, <2>2
  <1> HIDE DEF t
  <1>8. e = t
    <2>1. ASSUME o.type = "inc" PROVE {q \in o.pred : IsCounter(t, q)} = o.pred
      <3>1. BasedOn(r, S, o)
        BY DEF Edits
      <3>2. OpInv
        BY DEF RowsInv, IndexInv
      <3>3. \A q \in o.pred : q \in Held(r) /\ made[q].o.type = "counter"
        BY <2>1, <3>1, <3>2, ScopeIsClosed DEF BasedOn
      <3>4. i \notin DOMAIN made /\ Held(r) \subseteq DOMAIN made /\ \A q \in Held(r) : d.ops[q] = made[q].o
        BY <3>2, NextIdIsNew DEF OpInv, DocOK
      <3>5. t.ops = With(d.ops, i, o) /\ Held(r) = DOMAIN d.ops
        BY <1>5, <1>6, <1>7 DEF Held
      <3> HIDE DEF d
      <3>6. \A q \in o.pred : t.ops[q] = d.ops[q]
        BY <3>3, <3>4, <3>5 DEF With
      <3> QED
        BY <3>3, <3>4, <3>6 DEF IsCounter
    <2>2. t.ops[i] = o
      BY <1>5, <1>6, <1>7 DEF With
    <2> QED
      BY <1>4, <2>1, <2>2 DEF CounterExposed, IsInc
  <1>9. e.top \subseteq e.vis /\ e.order = IF o.type = "del" THEN d.order ELSE InsertAt(d.order, p, i)
    BY <1>5, <1>6, <1>7, <1>8
  <1>10. PlaceFits(d, o, p)
    BY <1>1, <1>3 DEF PlaceFits
  <1> QED
    BY <1>9, <1>10 DEF RowPut

-----------------------------------------------------------------------------
(* Batches *)

\* The document d is doc[r] with the operations of the batch B that are needed
\* for each other.
GotBatch(r, B, d) ==
    /\ DOMAIN d = Fields
    /\ d.ops = [j \in Held(r) \cup B |-> made[j].o]
    /\ d.succ = doc[r].succ /\ d.vis = doc[r].vis
    /\ d.order = doc[r].order /\ d.top = doc[r].top
    /\ \A b \in B : made[b].past \subseteq Held(r) \cup B

\* A batch finds a document whose rows are in order.
LEMMA BatchFinds ==
    ASSUME RowsInv, NEW r \in Replica, NEW B \in SUBSET (DOMAIN made \ Held(r)),
           NEW d, GotBatch(r, B, d)
    PROVE  /\ TreeBefore(d, B) /\ DOMAIN d.ops = Held(r) \cup B /\ DOMAIN d.ops \ B = Held(r)
           /\ OpsOK(d)
           /\ \A i \in DOMAIN d.ops : d.ops[i].pred \subseteq DOMAIN d.ops
           /\ \A i \in Held(r) : d.ops[i].pred \subseteq Held(r)
  <1> DEFINE H == Held(r)
             D == DOMAIN d.ops
             c == doc[r]
  <1>1. OpInv /\ IdsInv /\ DocOK(r) /\ TreeOK(c) /\ H = DOMAIN c.ops
    BY DEF RowsInv, IndexInv, OpInv, Held
  <1>2. /\ d.ops = [j \in H \cup B |-> made[j].o] /\ d.order = c.order
        /\ \A b \in B : made[b].past \subseteq H \cup B
    BY DEF GotBatch
  <1>3. /\ OpsOK(d) /\ D = H \cup B
        /\ \A i \in H : d.ops[i].ref \in H \cup {Head0}
        /\ \A i \in H \cup B : d.ops[i].pred \subseteq H \cup B
    BY <1>1, <1>2, OpsAre
  <1>4. D \ B = H
    BY <1>3
  <1>5. \A j \in H : d.ops[j] = c.ops[j]
    BY <1>1, <1>2 DEF DocOK
  <1>6. OpsOK(c) /\ RowsOK(c, H) /\ (object = "list" => InTree(c, Listed(c)))
    BY <1>1 DEF TreeOK
  <1>7. \A i \in H : d.ops[i].pred \subseteq H
    <2>1. \A i \in H : i \in DOMAIN made /\ made[i].past \subseteq H /\ RefersBack(i)
      BY <1>1 DEF OpInv, DocOK
    <2> QED
      BY <1>2, <2>1 DEF RefersBack, Earlier
  <1> HIDE DEF H, D, c
  <1>8. RowsOK(d, H)
    <2>1. H \subseteq D /\ d.order \in Seq(H) /\ Distinct(d.order)
      BY <1>2, <1>3, <1>6 DEF RowsOK
    <2>2. ToSet(d.order) = {i \in H : HasRow(d, i)}
      BY <1>2, <1>5, <1>6 DEF RowsOK, HasRow
    <2>3. ASSUME object = "list", d.order # <<>> PROVE d.ops[d.order[1]].insert
      <3>1. d.order[1] \in H
        <4>1. 1 \in 1 .. Len(d.order)
          BY <2>1, <2>3, EmptySeq, LenProperties
        <4> QED
          BY <2>1, <4>1, SetOfSeq
      <3> QED
        BY <1>2, <1>5, <1>6, <2>3, <3>1 DEF RowsOK
    <2> QED
      BY <1>3, <2>1, <2>2, <2>3 DEF RowsOK, D
  <1>9. BatchOK(d, B)
    BY <1>3, <1>4, <1>8 DEF BatchOK, D
  <1>10. ASSUME object = "list" PROVE InTree(d, Listed(d))
    <2>1. /\ ToSet(Listed(d)) = Elements(d, H)
          /\ \A x, y \in Elements(d, H) : Precedes(Listed(d), x, y) <=> Precedes(d.order, x, y)
      BY <1>3, <1>8, <1>10, ListedHas
    <2>2. /\ Listed(c) \in Seq(Elements(c, H)) /\ Distinct(Listed(c)) /\ ToSet(Listed(c)) = Elements(c, H)
          /\ \A x, y \in Elements(c, H) : Precedes(Listed(c), x, y) <=> Precedes(c.order, x, y)
      BY <1>6, <1>10, ListedHas
    <2>3. Elements(d, H) = Elements(c, H)
      BY <1>5 DEF Elements
    <2>4. \A x, y : Precedes(Listed(c), x, y) => x \in Elements(c, H) /\ y \in Elements(c, H)
      BY <2>2, PrecedesIsOrder
    <2>5. \A x \in ToSet(Listed(c)) : d.ops[x].ref = c.ops[x].ref
      <3>1. Elements(c, H) \subseteq H
        BY <1>10 DEF Elements
      <3> QED
        BY <1>5, <2>2, <3>1
    <2>6. \A x, y \in Elements(c, H) : Precedes(Listed(d), x, y) <=> Precedes(Listed(c), x, y)
      BY <1>2, <2>1, <2>2, <2>3
    <2>7. ToSet(Listed(d)) = ToSet(Listed(c)) /\ \A x : x \in Elements(c, H) <=> x \in ToSet(Listed(c))
      BY <2>1, <2>2, <2>3
    <2>8. InTree(c, Listed(c))
      BY <1>6, <1>10
    <2> QED
      BY <2>4, <2>5, <2>6, <2>7, <2>8, InTreeAlike
  <1> QED
    BY <1>3, <1>4, <1>7, <1>9, <1>10 DEF TreeBefore, D, H

\* What stays of the document is visible and not gone.
LEMMA StaysIs ==
    ASSUME RowsInv, NEW r \in Replica, NEW B \in SUBSET (DOMAIN made \ Held(r)),
           NEW d, GotBatch(r, B, d), NEW x \in DOMAIN d.ops, HasRow(d, x)
    PROVE  /\ x \in Held(r) => (WasSeen(d, B, x) <=> x \in d.vis)
           /\ x \in Held(r) => (IsDeletedBy(d, B, x) <=> x \in GoneWith(d, B))
           /\ x \in B => (Stays(d, B, x) <=> x \in FreshOf(d, B))
           /\ Stays(d, B, x) <=> x \in (d.vis \ GoneWith(d, B)) \cup FreshOf(d, B)
  <1> DEFINE H == Held(r)
  <1>0. IndexInv /\ OpInv
    BY DEF RowsInv, IndexInv
  <1>1. DocOK(r) /\ IndexOK(r) /\ H \subseteq DOMAIN made /\ H \cap B = {}
    BY <1>0 DEF IndexInv, OpInv, DocOK
  <1>2. DOMAIN d.ops = H \cup B /\ DOMAIN d.ops \ B = H /\ \A i \in H \cup B : d.ops[i] = made[i].o
    BY BatchFinds DEF GotBatch
  <1>3. \A b \in H \cup B : b \in DOMAIN made /\ IncrementsCounters(b) /\ made[b].o.pred \subseteq H \cup B
    <2>1. \A b \in DOMAIN d.ops : d.ops[b].pred \subseteq DOMAIN d.ops
      BY BatchFinds
    <2>2. \A b \in DOMAIN made : IncrementsCounters(b)
      BY <1>0 DEF IndexInv
    <2>3. \A b \in H \cup B : b \in DOMAIN made
      BY <1>1
    <2> HIDE DEF H
    <2> QED
      BY <1>2, <2>1, <2>2, <2>3
  <1>4. \A b \in H : made[b].o.pred \subseteq H
    <2>1. \A b \in H : d.ops[b].pred \subseteq H
      BY BatchFinds
    <2> HIDE DEF H
    <2> QED
      BY <1>2, <2>1
  <1> HIDE DEF H
  <1>5. ASSUME x \in H PROVE WasSeen(d, B, x) <=> x \in d.vis
    <2>1. ASSUME NEW s \in SuccOf(H)
          PROVE  /\ s.by \in H /\ s.of \in made[s.by].o.pred
                 /\ s.inc <=> made[s.by].o.type = "inc"
      BY SuccessorsAre
    <2>2. ASSUME NEW b \in H, NEW p \in made[b].o.pred
          PROVE  \E s \in SuccOf(H) : s.of = p /\ s.by = b
      BY SuccessorsAre
    <2>3. d.succ = SuccOf(H) /\ d.vis = VisOf(H)
      BY <1>1 DEF IndexOK, H, GotBatch
    <2>4. \A b \in H : x \in made[b].o.pred /\ made[b].o.type = "inc" => IsCounter(d, x)
      BY <1>2, <1>3, <1>5 DEF IncrementsCounters, IsCounter
    <2>5. IsVisibleAt(d, x, H)
              <=> ~IsInc(d, x) /\ \A s \in SuccOf(H) : s.of = x => IsCounter(d, x) /\ s.inc
      BY <1>5, <2>1, <2>3 DEF IsVisibleAt, Succ
    <2>6. IsVisibleAt(d, x, H)
              <=> ~IsInc(d, x) /\ \A b \in H : x \in made[b].o.pred => made[b].o.type = "inc"
      BY <2>1, <2>2, <2>4, <2>5
    <2>7. x \in d.vis <=> ~IsInc(d, x) /\ \A b \in H : x \in made[b].o.pred => made[b].o.type = "inc"
      BY <1>2, <1>5, <2>3 DEF VisOf, HasRow, IsInc
    <2>8. x \notin B /\ (WasSeen(d, B, x) <=> IsVisibleAt(d, x, H))
      BY <1>1, <1>2, <1>5 DEF WasSeen
    <2> QED
      BY <2>6, <2>7, <2>8
  <1>6. ASSUME x \in H PROVE IsDeletedBy(d, B, x) <=> x \in GoneWith(d, B)
    <2>1. SuccWith(d, B) = SuccOf(B)
      <3>1. ASSUME NEW b \in B, NEW p \in made[b].o.pred
            PROVE  (IsInc(d, b) /\ (p \in B \/ IsCounter(d, p))) <=> made[b].o.type = "inc"
        BY <1>2, <1>3 DEF IsInc, IsCounter, IncrementsCounters
      <3>2. \A b \in B : d.ops[b].pred = made[b].o.pred
        BY <1>2
      <3> QED
        BY <3>1, <3>2 DEF SuccWith, SuccOf
    <2>2. GoneWith(d, B) = {t.of : t \in {u \in SuccOf(B) : u.of \notin B /\ ~u.inc}}
      BY <2>1 DEF GoneWith
    <2>3. ASSUME NEW t \in SuccOf(B), t.of \notin B, ~t.inc
          PROVE  \E b \in B : t.of \in made[b].o.pred /\ made[b].o.type # "inc"
      BY <2>3, SuccessorsAre
    <2>4. ASSUME NEW b \in B, x \in made[b].o.pred, made[b].o.type # "inc"
          PROVE  \E t \in SuccOf(B) : t.of \notin B /\ ~t.inc /\ t.of = x
      <3>1. PICK t \in SuccOf(B) : t.of = x /\ t.by = b
        BY <2>4, SuccessorsAre
      <3>2. ~t.inc
        BY <2>4, <3>1, SuccessorsAre
      <3> QED
        BY <1>1, <1>6, <3>1, <3>2
    <2>5. IsDeletedBy(d, B, x) <=> \E b \in B : x \in made[b].o.pred /\ made[b].o.type # "inc"
      BY <1>2 DEF IsDeletedBy, IsInc
    <2> QED
      BY <2>2, <2>3, <2>4, <2>5
  <1>7. x \in B => (Stays(d, B, x) <=> x \in FreshOf(d, B))
    BY DEF Stays, FreshOf
  <1>8. FreshOf(d, B) \subseteq B /\ d.vis \subseteq H
    BY <1>1 DEF FreshOf, GotBatch, DocOK, H
  <1>9. Stays(d, B, x) <=> x \in (d.vis \ GoneWith(d, B)) \cup FreshOf(d, B)
    BY <1>1, <1>2, <1>5, <1>6, <1>7, <1>8 DEF Stays, WasSeen
  <1> QED
    BY <1>5, <1>6, <1>7, <1>9 DEF H

\* Rows on an element are rows of the document or of the batch.
LEMMA OnElementRows ==
    ASSUME NEW d, NEW B, BatchOK(d, B), NEW e \in Elements(d, DOMAIN d.ops),
           NEW x \in ToSet(OnElement(d, B, e))
    PROVE  /\ x \in DOMAIN d.ops
           /\ x \notin B => x \in ToSet(RegisterOf(d, e)) /\ x \in ToSet(d.order) /\ HasRow(d, x)
           /\ x \in B => Elem(d, x) = e
  <1> DEFINE w == OnElement(d, B, e)
             reg == RegisterOf(d, e)
  <1>1. w \in Seq(DOMAIN d.ops) /\ ToSet(w) = ToSet(reg) \cup NewOn(d, B, e)
    BY OnElementHas
  <1>2. OpsOK(d) /\ RowsOK(d, DOMAIN d.ops \ B)
    BY DEF BatchOK
  <1>3. reg \in Seq(DOMAIN d.ops \ B) /\ ToSet(reg) \subseteq ToSet(d.order)
    BY <1>2, RegisterHas
  <1>4. x \in DOMAIN d.ops
    BY <1>1, SetOfSeq
  <1>5. \A y \in ToSet(reg) : y \in DOMAIN d.ops \ B /\ y \in ToSet(d.order)
    BY <1>3, SetOfSeq
  <1>6. \A y \in ToSet(d.order) : HasRow(d, y)
    BY <1>2 DEF RowsOK
  <1>7. x \in NewOn(d, B, e) => x \in B /\ Elem(d, x) = e
    BY DEF NewOn
  <1> HIDE DEF w, reg
  <1> QED
    BY <1>1, <1>4, <1>5, <1>6, <1>7 DEF w, reg

\* What wins again is visible and stays so.
LEMMA ExposedStays ==
    ASSUME NEW d, NEW B, BatchOK(d, B), NEW e \in Elements(d, DOMAIN d.ops), TopOf(d, B, e).is = "expose",
           NEW x, x = TopOf(d, B, e).at
    PROVE  x \in DOMAIN d.ops /\ x \notin B /\ HasRow(d, x) /\ Stays(d, B, x)
  <1> DEFINE w == OnElement(d, B, e)
             t == TopOf(d, B, e)
  <1>1. w \in Seq(DOMAIN d.ops)
    BY OnElementHas
  <1>2. PICK a : TopAt(d, B, w, Len(w), t, a)
    BY <1>1, TopOfIs
  <1>3. a \in 0 .. Len(w) /\ a # 0 /\ x = w[a] /\ Stays(d, B, w[a]) /\ w[a] \notin B
    BY <1>2 DEF TopAt
  <1>4. a \in 1 .. Len(w)
    BY <1>1, <1>3, LenProperties
  <1>5. x \in ToSet(w)
    BY <1>1, <1>3, <1>4, SetOfSeq
  <1> HIDE DEF w, t
  <1>6. x \in ToSet(OnElement(d, B, e))
    BY <1>5 DEF w
  <1> QED
    BY <1>3, <1>6, OnElementRows

\* A batch keeps the rows of a document in order and lets only visible rows win.
LEMMA BatchRows ==
    ASSUME RowsInv, NEW r \in Replica, NEW B \in SUBSET (DOMAIN made \ Held(r)),
           NEW d, GotBatch(r, B, d), NEW c, DOMAIN c = Fields, c.ops = d.ops,
           c.order = RowsWith(d, B, ElementsWith(d, B)),
           c.vis = (d.vis \ GoneWith(d, B)) \cup FreshOf(d, B),
           c.top = TopWith(d, B, ElementsWith(d, B))
    PROVE  TreeOK(c) /\ RowsAre(d, B, ElementsWith(d, B), c.order) /\ c.top \subseteq c.vis
  <1> DEFINE s == ElementsWith(d, B)
  <1>1. TreeBefore(d, B) /\ BatchOK(d, B) /\ DOMAIN d.ops = Held(r) \cup B
    BY BatchFinds DEF TreeBefore
  <1>2. TreeOK(c) /\ RowsAre(d, B, s, c.order)
    BY <1>1, BatchedRows
  <1>3. ToSet(s) = Elements(d, DOMAIN d.ops)
    BY <1>1, ElementsOrder DEF OrderOf
  <1>4. d.top \subseteq d.vis
    BY DEF RowsInv, GotBatch
  <1> HIDE DEF s
  <1>5. Exposed(d, B, s) \subseteq c.vis
    <2> SUFFICES ASSUME NEW x \in Exposed(d, B, s) PROVE x \in c.vis
      OBVIOUS
    <2>1. PICK e \in ToSet(s) : TopOf(d, B, e).is = "expose" /\ x = TopOf(d, B, e).at
      BY DEF Exposed
    <2>2. x \in DOMAIN d.ops /\ HasRow(d, x) /\ Stays(d, B, x)
      <3>1. BatchOK(d, B) /\ e \in Elements(d, DOMAIN d.ops)
        BY <1>1, <1>3
      <3> QED
        BY <2>1, <3>1, ExposedStays
    <2> QED
      BY <2>2, StaysIs
  <1>6. c.top = (((d.top \ Hidden(d, B, s)) \cup Exposed(d, B, s)) \ GoneWith(d, B))
                    \cup (FreshOf(d, B) \ Hidden(d, B, s))
    BY DEF TopWith, s
  <1>7. c.top \subseteq c.vis
    BY <1>4, <1>5, <1>6
  <1> QED
    BY <1>2, <1>7 DEF s

-----------------------------------------------------------------------------
(* Theorems *)

\* The first row.
LEMMA InsertAtFront ==
    ASSUME NEW x
    PROVE  InsertAt(<<>>, 1, x) = <<x>>
  <1>1. InsertAt(<<>>, 1, x) = SubSeq(<<>>, 1, 0) \o <<x>> \o SubSeq(<<>>, 1, 0)
    BY DEF InsertAt
  <1>2. SubSeq(<<>>, 1, 0) = <<>>
    OBVIOUS
  <1>3. <<>> \o <<x>> = <<x>> /\ <<x>> \o <<>> = <<x>>
    OBVIOUS
  <1> QED
    BY <1>1, <1>2, <1>3

\* The document that replicas start with.
LEMMA InitRows == Init => RowsInv
  <1> SUFFICES ASSUME Init
               PROVE  RowsInv
    OBVIOUS
  <1>1. IndexInv
    BY InitIndexes
  <1>2. object \in {"map", "list"} /\ MaxOps \in Nat
    BY OpSetAssumption DEF Init
  <1>3. CASE object = "map"
    <2>1. made = <<>> /\ doc = [r \in Replica |-> EmptyDoc] /\ DOMAIN made = {}
      BY <1>3 DEF Init
    <2>2. IdsInv
      BY <1>2, <2>1, FS_EmptySet DEF IdsInv
    <2> DEFINE d == EmptyDoc
    <2>3. d.ops = <<>> /\ DOMAIN d.ops = {} /\ d.order = <<>> /\ d.top = {} /\ d.vis = {}
      BY DEF EmptyDoc
    <2> HIDE DEF d
    <2>4. OpsOK(d)
      BY <1>2, <2>3, FS_EmptySet DEF OpsOK
    <2>5. RowsOK(d, DOMAIN d.ops)
      <3>1. <<>> \in Seq({}) /\ Distinct(<<>>) /\ ToSet(<<>>) = {}
        BY DEF Distinct, ToSet
      <3> QED
        BY <2>3, <3>1 DEF RowsOK
    <2>6. TreeOK(d)
      BY <1>3, <2>4, <2>5 DEF TreeOK
    <2>7. \A r \in Replica : doc[r] = d
      BY <2>1 DEF d
    <2> QED
      BY <1>1, <2>2, <2>3, <2>6, <2>7 DEF RowsInv
  <1>4. CASE object = "list"
    <2> DEFINE first == CHOOSE r \in Replica : TRUE
               i == <<1, Own[first][1]>>
    <2>1. PICK type \in {"set", "counter"} :
              /\ made = With(<<>>, i, [o |-> FirstDoc(i, type, 0).ops[i], past |-> {i}])
              /\ doc = [s \in Replica |-> FirstDoc(i, type, 0)]
      BY <1>4 DEF Init
    <2> DEFINE o == Op(type, 0, TRUE, Head0, {})
               d == FirstDoc(i, type, 0)
    <2>2. first \in Replica /\ Own[first][1] \in {Own[r][k] : r \in Replica, k \in {1, 2}}
      <3>1. first \in Replica
        BY OpSetAssumption
      <3> HIDE DEF first
      <3>2. 1 \in {1, 2}
        OBVIOUS
      <3> QED
        BY <3>1, <3>2
    <2>3. i[1] = 1 /\ i[2] = Own[first][1] /\ i \in Nat \X Nat /\ i # Head0
      <3> HIDE DEF first
      <3>1. Own[first][1] \in Nat
        BY <2>2, OpSetAssumption
      <3> QED
        BY <3>1 DEF Head0
    <2> HIDE DEF i, first
    <2>4. o.type = type /\ o.insert /\ o.ref = Head0
      BY DEF Op
    <2>5. DOMAIN EmptyDoc = Fields /\ EmptyDoc.ops = <<>> /\ EmptyDoc.order = <<>> /\ EmptyDoc.vis = {}
          /\ EmptyDoc.top = {}
      BY DEF EmptyDoc, Fields
    <2>6. InsertAt(<<>>, 1, i) \in Seq({i}) /\ Distinct(InsertAt(<<>>, 1, i)) /\ ToSet(InsertAt(<<>>, 1, i)) = {i}
          /\ InsertAt(<<>>, 1, i)[1] = i
      <3> DEFINE x == i
      <3> HIDE DEF x
      <3>1. InsertAt(<<>>, 1, x) = <<x>>
        BY InsertAtFront
      <3>2. <<x>> \in Seq({x}) /\ Distinct(<<x>>) /\ ToSet(<<x>>) = {x} /\ <<x>>[1] = x
        BY DEF Distinct, ToSet
      <3> QED
        BY <3>1, <3>2 DEF x
    <2> DEFINE w == InsertAt(<<>>, 1, i)
    <2>7. d.ops = With(<<>>, i, o) /\ d.order = w /\ d.vis = {i} /\ d.top = {i}
      <3> HIDE DEF o, w
      <3>1. d = WithRow(EmptyDoc, i, o, 0)
        BY DEF FirstDoc, o
      <3>2. o.type \notin {"inc", "del"}
        BY <2>4
      <3> HIDE DEF d
      <3>3. d.order = InsertAt(EmptyDoc.order, 0 + 1, i)
        BY <2>5, <3>1, <3>2 DEF WithRow, Fields
      <3>4. d.order = w
        BY <2>5, <3>3 DEF w
      <3>5. d.ops = With(<<>>, i, o) /\ d.vis = {i} /\ d.top = {i}
        BY <2>5, <3>1, <3>2 DEF WithRow, Fields
      <3> QED
        BY <3>4, <3>5
    <2> HIDE DEF o, d, w
    <2>8. DOMAIN d.ops = {i} /\ d.ops[i] = o
      BY <2>7 DEF With
    <2>9. OpsOK(d)
      <3>1. HasRow(d, i) /\ ~IsInc(d, i)
        BY <2>4, <2>8 DEF HasRow, IsInc
      <3> QED
        BY <1>2, <1>4, <2>3, <2>4, <2>8, <3>1, FS_Singleton DEF OpsOK
    <2>10. RowsOK(d, DOMAIN d.ops)
      <3>1. HasRow(d, i) /\ d.ops[i].insert /\ d.ops[i].ref = Head0
        BY <2>4, <2>8 DEF HasRow
      <3> QED
        BY <2>6, <2>7, <2>8, <3>1 DEF RowsOK, w
    <2>11. InTree(d, Listed(d))
      <3>1. ToSet(Listed(d)) = Elements(d, {i}) /\ Listed(d) \in Seq(Elements(d, {i})) /\ Distinct(Listed(d))
        BY <1>4, <2>8, <2>9, <2>10, ListedHas
      <3>2. \A x \in ToSet(Listed(d)) : x = i
        BY <1>4, <3>1 DEF Elements
      <3>3. \A x, y : Precedes(Listed(d), x, y) => x \in ToSet(Listed(d)) /\ y \in ToSet(Listed(d)) /\ x # y
        BY <3>1, PrecedesIsOrder
      <3>4. \A x, y : ~Precedes(Listed(d), x, y)
        BY <3>2, <3>3
      <3>5. \A x \in ToSet(Listed(d)) : d.ops[x].ref = Head0
        BY <2>4, <2>8, <3>2
      <3> QED
        BY <3>4, <3>5 DEF InTree
    <2>12. TreeOK(d)
      BY <2>9, <2>10, <2>11 DEF TreeOK
    <2>13. \A r \in Replica : doc[r] = d
      BY <2>1 DEF d
    <2>14. IdsInv
      <3>1. DOMAIN made = {i}
        BY <2>1 DEF With
      <3>2. Cardinality(DOMAIN made) = 1
        BY <3>1, FS_Singleton
      <3> QED
        BY <1>2, <2>2, <2>3, <3>1, <3>2 DEF IdsInv
    <2> QED
      BY <1>1, <2>7, <2>12, <2>13, <2>14 DEF RowsInv
  <1> QED
    BY <1>2, <1>3, <1>4

\* Every step keeps the rows of all documents in order.
LEMMA StepRows ==
    ASSUME RowsInv, [Next]_vars, ~MixedIncrements
    PROVE  RowsInv'
  <1>1. OpInv /\ IndexInv
    BY DEF RowsInv, IndexInv
  <1>2. ASSUME NEW r \in Replica, NEW S \in Scopes(r), NEW o, NEW e, Edits(r, S, o, e),
               InsertsRow(r, S, o, e) \/ UpdatesRow(r, S, o, e), Cardinality(DOMAIN made) < MaxOps
        PROVE  RowsInv'
    <2>1. IndexInv' /\ IdsInv'
      BY <1>1, <1>2, EditIndexes, EditKeepsIds DEF RowsInv
    <2> DEFINE i == NextId(r, S)
    <2>2. \A s \in Replica : doc'[s] = IF s = r THEN e ELSE doc[s]
      BY <1>1, <1>2 DEF Edits, OpInv
    <2>3. OneMore(doc[r], i, o, e) /\ OpsOK(e)
      BY <1>2, EditAdds
    <2>4. RowPut(doc[r], i, o, e.order) /\ e.top \subseteq e.vis
      BY <1>2, InsertRowIs, UpdateRowIs
    <2>5. TreeOK(e)
      BY <2>3, <2>4, RowAdded DEF RowsInv
    <2>6. object' = object
      BY <1>2 DEF Edits
    <2>7. ASSUME NEW s \in Replica
          PROVE  TreeOK(doc[s])' /\ (doc[s].top \subseteq doc[s].vis)'
      <3>1. TreeOK(doc'[s]) /\ doc'[s].top \subseteq doc'[s].vis
        BY <2>2, <2>4, <2>5 DEF RowsInv
      <3> QED
        BY <2>6, <3>1 DEF TreeOK, OpsOK, RowsOK
    <2> QED
      BY <2>1, <2>7 DEF RowsInv
  <1>3. ASSUME NEW r \in Replica, NEW B \in SUBSET (DOMAIN made \ Held(r)), Deliver(r, B)
        PROVE  RowsInv'
    <2>1. IndexInv'
      BY <1>1, <1>3, DeliverIndexes
    <2>2. PICK d :
              /\ DOMAIN d = Fields
              /\ d.ops = [j \in Held(r) \cup B |-> made[j].o]
              /\ d.succ = doc[r].succ /\ d.vis = doc[r].vis
              /\ d.order = doc[r].order /\ d.top = doc[r].top
              /\ \A b \in B : made[b].past \subseteq Held(r) \cup B
              /\ doc' = [doc EXCEPT ![r] = Batched(d, B)]
              /\ DOMAIN Batched(d, B) = Fields
              /\ Batched(d, B).ops = d.ops
              /\ Batched(d, B).vis = (d.vis \ GoneWith(d, B)) \cup FreshOf(d, B)
              /\ Batched(d, B).order = RowsWith(d, B, ElementsWith(d, B))
              /\ Batched(d, B).top = TopWith(d, B, ElementsWith(d, B))
              /\ UNCHANGED <<object, made>>
      BY <1>1, <1>3, DeliverAdds
    <2>3. GotBatch(r, B, d)
      BY <2>2 DEF GotBatch
    <2> DEFINE c == Batched(d, B)
    <2>4. TreeOK(c) /\ c.top \subseteq c.vis
      <3> HIDE DEF c
      <3>1. /\ DOMAIN c = Fields /\ c.ops = d.ops
            /\ c.order = RowsWith(d, B, ElementsWith(d, B))
            /\ c.vis = (d.vis \ GoneWith(d, B)) \cup FreshOf(d, B)
            /\ c.top = TopWith(d, B, ElementsWith(d, B))
        BY <2>2 DEF c
      <3> QED
        BY <2>3, <3>1, BatchRows
    <2> HIDE DEF c
    <2>5. \A s \in Replica : doc'[s] = IF s = r THEN c ELSE doc[s]
      BY <1>1, <2>2 DEF c, OpInv
    <2>6. IdsInv'
      BY <2>2 DEF IdsInv, RowsInv
    <2>7. ASSUME NEW s \in Replica
          PROVE  TreeOK(doc[s])' /\ (doc[s].top \subseteq doc[s].vis)'
      <3>1. TreeOK(doc'[s]) /\ doc'[s].top \subseteq doc'[s].vis
        BY <2>4, <2>5 DEF RowsInv
      <3> QED
        BY <2>2, <3>1 DEF TreeOK, OpsOK, RowsOK
    <2> QED
      BY <2>1, <2>6, <2>7 DEF RowsInv
  <1>4. CASE UNCHANGED vars
    <2>1. IndexInv'
      BY <1>1, <1>4, StutterKeeps
    <2>2. object' = object /\ doc' = doc /\ made' = made
      BY <1>4 DEF vars
    <2>3. IdsInv'
      BY <2>2 DEF IdsInv, RowsInv
    <2> QED
      BY <2>1, <2>2, <2>3 DEF RowsInv, TreeOK, OpsOK, RowsOK
  <1> QED
    BY <1>1, <1>2, <1>3, <1>4, StepIs

\* Unless increments meet other values, every document has the rows of its
\* operations, once each, registers begin with the row of their insert, a list
\* is a tree of its inserts, and what wins is visible.
THEOREM RowsInvariant == ~MixedIncrements => (Spec => []RowsInv)
  <1> SUFFICES ASSUME ~MixedIncrements
               PROVE  Spec => []RowsInv
    OBVIOUS
  <1> QED
    BY InitRows, StepRows, PTL DEF Spec

\* Hence operations have the identifiers of their actors, and rows and indexes
\* are about operations that the document has.
THEOREM TypeCorrectness == ~MixedIncrements => (Spec => []TypeOK)
  <1>1. ASSUME NEW r \in Replica, RowsInv
        PROVE  LET d == doc[r]
               IN  /\ DOMAIN d.ops \subseteq DOMAIN made
                   /\ ToSet(d.order) = {i \in DOMAIN d.ops : HasRow(d, i)}
                   /\ Len(d.order) = Cardinality(ToSet(d.order))
                   /\ d.top \subseteq d.vis /\ d.vis \subseteq ToSet(d.order)
    <2>1. DocOK(r)
      BY <1>1 DEF RowsInv, IndexInv, OpInv
    <2>2. RowsOK(doc[r], DOMAIN doc[r].ops) /\ doc[r].top \subseteq doc[r].vis
      BY <1>1 DEF RowsInv, TreeOK
    <2>3. doc[r].vis \subseteq ToSet(doc[r].order)
      BY <1>1, VisibleInRows
    <2>4. Len(doc[r].order) = Cardinality(ToSet(doc[r].order))
      BY <2>2, DistinctLen DEF RowsOK
    <2> QED
      BY <2>1, <2>2, <2>3, <2>4 DEF DocOK, RowsOK, Held
  <1>2. ASSUME RowsInv, object \in Objects PROVE TypeOK
    <2>1. OpInv /\ IdsInv
      BY <1>2 DEF RowsInv, IndexInv
    <2>2. DOMAIN made \subseteq Ids
      <3> SUFFICES ASSUME NEW i \in DOMAIN made PROVE i \in Ids
        OBVIOUS
      <3>1. i \in Nat \X Nat /\ Cardinality(DOMAIN made) \in Nat
        BY <2>1, FS_CardinalityType DEF OpInv, IdsOK
      <3>2. i = <<i[1], i[2]>>
        BY <3>1
      <3> DEFINE N == Cardinality(DOMAIN made)
      <3>3. i[1] \in 1 .. N /\ N <= MaxOps + 1 /\ i[2] \in {Own[r][k] : r \in Replica, k \in {1, 2}}
        BY <2>1 DEF IdsInv
      <3>4. MaxOps \in Nat /\ N \in Nat
        BY <3>1, OpSetAssumption
      <3> HIDE DEF N
      <3>5. i[1] \in 1 .. MaxOps + 1
        BY <3>3, <3>4
      <3> QED
        BY <3>2, <3>3, <3>5 DEF Ids
    <2>3. \A i \in DOMAIN made : i \in made[i].past /\ made[i].past \subseteq DOMAIN made
      BY <2>1 DEF OpInv, PastOK
    <2> QED
      BY <1>1, <1>2, <2>2, <2>3 DEF TypeOK
  <1>3. Spec => [](object \in Objects)
    <2>1. Init => object \in Objects
      BY DEF Init
    <2>2. object \in Objects /\ [Next]_vars => (object \in Objects)'
      <3>1. ASSUME NEW r \in Replica, Edit(r) PROVE object' = object
        <4>1. \A S, k, t, v : Insert(r, S, k, t, v) => object' = object
          BY DEF Insert, Record
        <4>2. \A S, k, t, v : Update(r, S, k, t, v) => object' = object
          BY DEF Update, Record
        <4>3. \A S, k : ResolveConflict(r, S, k) => object' = object
          BY DEF ResolveConflict, Record
        <4> QED
          BY <3>1, <4>1, <4>2, <4>3 DEF Edit
      <3>2. ASSUME NEW r \in Replica, NEW B, Deliver(r, B) PROVE object' = object
        BY <3>2 DEF Deliver
      <3> QED
        BY <3>1, <3>2 DEF Next, vars
    <2> QED
      BY <2>1, <2>2, PTL DEF Spec
  <1> SUFFICES ASSUME ~MixedIncrements
               PROVE  Spec => []TypeOK
    OBVIOUS
  <1>4. Spec => []RowsInv
    BY RowsInvariant
  <1> QED
    BY <1>2, <1>3, <1>4, PTL

=============================================================================
