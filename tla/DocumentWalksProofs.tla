------------------------ MODULE DocumentWalksProofs ------------------------
(***************************************************************************)
(* The walks of fork_at and get_changes_added find what Document says they *)
(* find, for every graph of changes and every order in which hashes are    *)
(* pushed.                                                                 *)
(***************************************************************************)
EXTENDS DocumentWalks, DocumentProofs, FiniteSetTheorems

\* The hashes that are still to be visited.
Stacked == {stack[i] : i \in 1 .. Len(stack)}

\* fork_at at the hashes H: what was found lies in their past, and what is not
\* found yet is on the stack.
ForkWalk(r, t, H) ==
    /\ r # t /\ ~panicked[r]
    /\ seen = H \cup Listed
    /\ H \subseteq Listed \cup Stacked
    /\ Listed \subseteq graph[r]
    /\ Listed \cup Stacked \subseteq Past(H)
    /\ DepsOf(Listed) \subseteq Listed \cup Stacked

\* merge: what was found is missing in r, and what is not found yet is on the
\* stack.
MergeWalk(r, t) ==
    /\ ~panicked[r] /\ ~panicked[t]
    /\ seen = Listed
    /\ Listed \subseteq graph[t] \ graph[r]
    /\ Stacked \subseteq graph[t]
    /\ heads[t] \subseteq graph[r] \cup Listed \cup Stacked
    /\ DepsOf(Listed) \subseteq graph[r] \cup Listed \cup Stacked
    /\ \A i, j \in 1 .. Len(out) : out[i] = out[j] => i = j

\* A walk is what its call says.
WalksOK ==
    /\ IsFiniteSet(made)
    /\ stack \in Seq(Hash)
    /\ out \in Seq(Hash)
    /\ \A r, t \in Replica :
           /\ Running("fork_at", r, t) => \E H \in SUBSET made : ForkWalk(r, t, H)
           /\ Running("merge", r, t) => MergeWalk(r, t)

-----------------------------------------------------------------------------
(* Stacks *)

\* A set that is pushed in any order is pushed completely.
LEMMA ListsAll ==
    ASSUME NEW S \in SUBSET Hash, IsFiniteSet(S), NEW q \in SetToSeqs(S)
    PROVE  /\ q \in Seq(Hash)
           /\ {q[i] : i \in 1 .. Len(q)} = S
  <1> DEFINE n == Cardinality(S)
  <1>1. n \in Nat
    BY FS_CardinalityType
  <1>2. q \in [1 .. n -> S] /\ \A i, j \in 1 .. n : i # j => q[i] # q[j]
    BY DEF SetToSeqs
  <1>3. IsFiniteSet(1 .. n) /\ Cardinality(1 .. n) = n
    BY <1>1, FS_Interval
  <1> HIDE DEF n
  <1>4. q \in Injection(1 .. n, S)
    BY <1>2 DEF Injection, IsInjective
  <1>5. q \in Surjection(1 .. n, S)
    BY <1>3, <1>4, FS_Injection DEF n
  <1>6. \A x \in S : \E i \in 1 .. n : q[i] = x
    BY <1>5 DEF Surjection
  <1>7. q \in Seq(Hash) /\ Len(q) = n
    BY <1>1, <1>2
  <1> QED
    BY <1>2, <1>6, <1>7

\* A sequence without its last element.
LEMMA FrontOf ==
    ASSUME NEW q \in Seq(Hash), q # <<>>
    PROVE  /\ Len(q) \in Nat /\ Len(q) >= 1
           /\ Last(q) = q[Len(q)]
           /\ Front(q) \in Seq(Hash) /\ Len(Front(q)) = Len(q) - 1
           /\ \A i \in 1 .. Len(q) - 1 : Front(q)[i] = q[i]
  <1> DEFINE n == Len(q)
  <1>1. n \in Nat /\ n >= 1 /\ \A i \in 1 .. n : q[i] \in Hash
    OBVIOUS
  <1>2. Front(q) = [i \in 1 .. n - 1 |-> q[i]]
    BY <1>1 DEF Front
  <1> HIDE DEF n
  <1>3. Front(q) \in Seq(Hash) /\ Len(Front(q)) = n - 1
    BY <1>1, <1>2
  <1> QED
    BY <1>1, <1>2, <1>3 DEF Last, n

\* Visiting the last hash of the stack takes one occurrence of it away and
\* adds what is pushed.
LEMMA PopsAndPushes ==
    ASSUME stack \in Seq(Hash), stack # <<>>, NEW S \in SUBSET Hash, IsFiniteSet(S),
           PopAndPush(S)
    PROVE  /\ stack' \in Seq(Hash)
           /\ Stacked \subseteq Stacked' \cup {Last(stack)}
           /\ Stacked' \subseteq Stacked \cup S
           /\ S \subseteq Stacked'
           /\ Last(stack) \in Stacked
  <1>1. PICK new \in SetToSeqs(S) : stack' = Front(stack) \o new
    BY DEF PopAndPush
  <1>2. new \in Seq(Hash) /\ {new[i] : i \in 1 .. Len(new)} = S
    BY ListsAll
  <1> DEFINE n == Len(stack)
             front == Front(stack)
             k == Len(new)
  <1>3. n \in Nat /\ n >= 1 /\ Last(stack) = stack[n]
    BY FrontOf
  <1>4. /\ front \in Seq(Hash) /\ Len(front) = n - 1
        /\ \A i \in 1 .. n - 1 : front[i] = stack[i]
    BY FrontOf
  <1>5. k \in Nat
    BY <1>2
  <1> HIDE DEF front, n, k
  <1>6. /\ stack' \in Seq(Hash) /\ Len(stack') = n - 1 + k
        /\ \A i \in 1 .. n - 1 : stack'[i] = stack[i]
        /\ \A i \in 1 .. k : stack'[n - 1 + i] = new[i]
    <2>1. stack' = front \o new
      BY <1>1 DEF front
    <2>2. Len(new) = k
      BY DEF k
    <2>3. front \o new \in Seq(Hash)
      BY <1>2, <1>4
    <2>4. Len(front \o new) = n - 1 + k
      BY <1>2, <1>3, <1>4, <1>5, <2>2
    <2>5. \A i \in 1 .. n - 1 : (front \o new)[i] = front[i]
      BY <1>2, <1>3, <1>4, <1>5, <2>2
    <2>6. \A i \in 1 .. k : (front \o new)[n - 1 + i] = new[i]
      <3>1. \A i \in 1 .. k : n - 1 + i \in n .. n - 1 + k /\ (n - 1 + i) - (n - 1) = i
        BY <1>3, <1>5
      <3>2. \A j \in n .. n - 1 + k : (front \o new)[j] = new[j - (n - 1)]
        BY <1>2, <1>3, <1>4, <1>5, <2>2
      <3> QED
        BY <3>1, <3>2
    <2> QED
      BY <2>1, <2>3, <2>4, <2>5, <2>6, <1>4
  <1>7. \A i \in 1 .. n : i = n \/ i \in 1 .. n - 1
    BY <1>3
  <1>8. \A i \in 1 .. n - 1 : i \in 1 .. n - 1 + k /\ i \in 1 .. n
    BY <1>3, <1>5
  <1>9. \A i \in 1 .. k : n - 1 + i \in 1 .. n - 1 + k
    BY <1>3, <1>5
  <1>10. \A i \in 1 .. n - 1 + k :
            i \in 1 .. n - 1 \/ (i - n + 1 \in 1 .. k /\ i = n - 1 + (i - n + 1))
    BY <1>3, <1>5
  <1>11. n \in 1 .. n
    BY <1>3
  <1>12. Stacked = {stack[i] : i \in 1 .. n} /\ Stacked' = {stack'[i] : i \in 1 .. n - 1 + k}
    BY <1>6 DEF Stacked, n
  <1>13. S = {new[i] : i \in 1 .. k}
    BY <1>2 DEF k
  <1>14. Stacked \subseteq Stacked' \cup {stack[n]}
    BY <1>6, <1>7, <1>8, <1>12
  <1>15. Stacked' \subseteq Stacked \cup S
    BY <1>6, <1>8, <1>10, <1>12, <1>13
  <1>16. S \subseteq Stacked'
    BY <1>6, <1>9, <1>12, <1>13
  <1> QED
    BY <1>3, <1>6, <1>11, <1>12, <1>14, <1>15, <1>16

\* Finding one more hash.
LEMMA VisitLists ==
    ASSUME out \in Seq(Hash), NEW h \in Hash, Visit(h)
    PROVE  /\ out' \in Seq(Hash)
           /\ seen' = seen \cup {h}
           /\ Listed' = Listed \cup {h}
           /\ h \notin Listed /\ (\A i, j \in 1 .. Len(out) : out[i] = out[j] => i = j)
                  => \A i, j \in 1 .. Len(out') : out'[i] = out'[j] => i = j
  <1> DEFINE n == Len(out)
  <1>1. /\ out' \in Seq(Hash) /\ n \in Nat /\ Len(out') = n + 1
        /\ \A i \in 1 .. n : out'[i] = out[i]
        /\ out'[n + 1] = h
        /\ seen' = seen \cup {h}
    BY DEF Visit
  <1> HIDE DEF n
  <1>2. /\ \A i \in 1 .. n + 1 : i = n + 1 \/ i \in 1 .. n
        /\ \A i \in 1 .. n : i \in 1 .. n + 1
        /\ n + 1 \in 1 .. n + 1
    BY <1>1
  <1>3. Listed = {out[i] : i \in 1 .. n} /\ Listed' = {out'[i] : i \in 1 .. n + 1}
    BY <1>1 DEF Listed, n
  <1>4. Listed' = Listed \cup {h}
    BY <1>1, <1>2, <1>3
  <1>5. ASSUME h \notin Listed, \A i, j \in 1 .. n : out[i] = out[j] => i = j,
               NEW i \in 1 .. n + 1, NEW j \in 1 .. n + 1, out'[i] = out'[j]
        PROVE  i = j
    BY <1>1, <1>2, <1>3, <1>5
  <1> QED
    BY <1>1, <1>4, <1>5 DEF n

-----------------------------------------------------------------------------
(* Calls *)

\* One call runs at a time.
LEMMA OneCall ==
    ASSUME NEW name, NEW r, NEW t, Running(name, r, t)
    PROVE  /\ call # <<>>
           /\ \A n, q, u : Running(n, q, u) => n = name /\ q = r /\ u = t
  BY DEF Running

\* A walk that does not touch the documents keeps what is said of them.
LEMMA SameDocuments ==
    ASSUME UNCHANGED vars
    PROVE  /\ made' = made /\ deps' = deps /\ graph' = graph /\ heads' = heads
           /\ panicked' = panicked
           /\ \A S : DepsOf(S)' = DepsOf(S) /\ Past(S)' = Past(S)
  BY DEF vars, history, document, DepsOf, Past

\* What a document holds, with what that depends on, was made.
LEMMA HeldIsMade ==
    ASSUME IInv, NEW r \in Replica
    PROVE  /\ graph[r] \subseteq made /\ made \subseteq Hash
           /\ heads[r] \subseteq graph[r]
           /\ \A h \in graph[r] : deps[h] \subseteq graph[r]
  BY DEF IInv, OnlyMade, TypeOK, CausallyClosed, HeadsExact, Maximal, DepsOf

\* Pasts of changes that were made are closed.
LEMMA PastClosed ==
    ASSUME HInv, NEW H \in SUBSET made
    PROVE  /\ H \subseteq Past(H)
           /\ Past(H) \subseteq made
           /\ \A h \in Past(H) : deps[h] \subseteq Past(H)
  BY DEF HInv, PastSound, Past, DepsOf

WInv == IInv /\ HInv /\ WalksOK

\* After a return no call runs.
LEMMA ReturnPreserves ==
    ASSUME Return, IsFiniteSet(made)'
    PROVE  WalksOK'
  <1>1. call' = <<>> /\ stack' = <<>> /\ out' = <<>>
    BY DEF Return
  <1>2. \A n, r, t : ~Running(n, r, t)'
    BY <1>1 DEF Running
  <1>3. <<>> \in Seq(Hash)
    OBVIOUS
  <1> QED
    BY <1>1, <1>2, <1>3 DEF WalksOK

\* What a started call sets up.
LEMMA StartSets ==
    ASSUME WInv, NEW name, NEW r, NEW t, NEW S \in SUBSET made, NEW visited,
           Start(name, r, t, S, visited)
    PROVE  /\ UNCHANGED vars
           /\ stack' \in Seq(Hash) /\ out' \in Seq(Hash)
           /\ Stacked' = S /\ Listed' = {} /\ seen' = visited /\ Len(out') = 0
           /\ \A n, q, u : Running(n, q, u)' => n = name /\ q = r /\ u = t
  <1>1. /\ UNCHANGED vars /\ call' = <<name, r, t>> /\ out' = <<>> /\ seen' = visited
        /\ stack' \in SetToSeqs(S)
    BY DEF Start
  <1>2. IsFiniteSet(S) /\ S \subseteq Hash
    BY FS_Subset DEF WInv, WalksOK, IInv, TypeOK
  <1>3. stack' \in Seq(Hash) /\ {stack'[i] : i \in 1 .. Len(stack')} = S
    BY <1>1, <1>2, ListsAll
  <1>4. out' \in Seq(Hash) /\ Len(out') = 0 /\ {out'[i] : i \in 1 .. Len(out')} = {}
    BY <1>1
  <1>5. Stacked' = S /\ Listed' = {}
    BY <1>3, <1>4 DEF Stacked, Listed
  <1> QED
    BY <1>1, <1>3, <1>4, <1>5 DEF Running

LEMMA StartForkAtPreserves ==
    ASSUME WInv, NEW r \in Replica, NEW t \in Replica, NEW H \in SUBSET made,
           StartForkAt(r, t, H)
    PROVE  WalksOK'
  <1>1. Start("fork_at", r, t, H, H) /\ r # t /\ ~panicked[r]
    BY DEF StartForkAt
  <1>2. /\ UNCHANGED vars
        /\ stack' \in Seq(Hash) /\ out' \in Seq(Hash)
        /\ Stacked' = H /\ Listed' = {} /\ seen' = H
        /\ \A n, q, u : Running(n, q, u)' => n = "fork_at" /\ q = r /\ u = t
    BY <1>1, StartSets, Zenon
  <1>3. H \subseteq Past(H)
    BY PastClosed DEF WInv
  <1>4. DepsOf({}) = {}
    BY DEF DepsOf
  <1>5. ForkWalk(r, t, H)'
    BY <1>1, <1>2, <1>3, <1>4, SameDocuments DEF ForkWalk
  <1>6. H \in SUBSET made' /\ IsFiniteSet(made')
    BY <1>2, SameDocuments DEF WInv, WalksOK
  <1>7. \A q, u : ~Running("merge", q, u)'
    BY <1>2
  <1> QED
    BY <1>2, <1>5, <1>6, <1>7 DEF WalksOK

LEMMA StartMergePreserves ==
    ASSUME WInv, NEW r \in Replica, NEW t \in Replica, StartMerge(r, t)
    PROVE  WalksOK'
  <1>1. Start("merge", r, t, heads[t], {}) /\ ~panicked[r] /\ ~panicked[t]
    BY DEF StartMerge
  <1>2. heads[t] \subseteq graph[t] /\ graph[t] \subseteq made
    BY HeldIsMade DEF WInv
  <1>3. /\ UNCHANGED vars
        /\ stack' \in Seq(Hash) /\ out' \in Seq(Hash)
        /\ Stacked' = heads[t] /\ Listed' = {} /\ seen' = {} /\ Len(out') = 0
        /\ \A n, q, u : Running(n, q, u)' => n = "merge" /\ q = r /\ u = t
    BY <1>1, <1>2, StartSets, Zenon
  <1>4. DepsOf({}) = {}
    BY DEF DepsOf
  <1>5. MergeWalk(r, t)'
    BY <1>1, <1>2, <1>3, <1>4, SameDocuments DEF MergeWalk
  <1>6. IsFiniteSet(made')
    BY <1>3, SameDocuments DEF WInv, WalksOK
  <1>7. \A q, u : ~Running("fork_at", q, u)'
    BY <1>3
  <1> QED
    BY <1>3, <1>5, <1>6, <1>7 DEF WalksOK

-----------------------------------------------------------------------------
(* fork_at *)

\* One hash of fork_at: it goes from the stack to what was found, and its
\* dependencies that were not visited come on the stack.
LEMMA ForkAtStepPreserves ==
    ASSUME WInv, NEW r \in Replica, NEW t \in Replica, ForkAtStep(r, t)
    PROVE  WalksOK'
  <1> DEFINE h == Last(stack)
             S == deps[h] \ seen
  <1>1. /\ Running("fork_at", r, t) /\ stack # <<>> /\ h \in graph[r]
        /\ PopAndPush(S) /\ Visit(h)
        /\ UNCHANGED vars /\ call' = call
    BY DEF ForkAtStep, ForkPushes
  <1>2. stack \in Seq(Hash) /\ out \in Seq(Hash) /\ IsFiniteSet(made)
    BY DEF WInv, WalksOK
  <1>3. PICK H \in SUBSET made : ForkWalk(r, t, H)
    BY <1>1 DEF WInv, WalksOK
  <1>4. h \in Hash /\ deps[h] \subseteq made /\ made \subseteq Hash
    BY <1>1, HeldIsMade DEF WInv
  <1>5. S \in SUBSET Hash /\ IsFiniteSet(S)
    BY <1>2, <1>4, FS_Subset
  <1> HIDE DEF h
  <1>6. /\ stack' \in Seq(Hash)
        /\ Stacked \subseteq Stacked' \cup {h}
        /\ Stacked' \subseteq Stacked \cup S
        /\ S \subseteq Stacked'
        /\ h \in Stacked
    BY <1>1, <1>2, <1>5, PopsAndPushes DEF h
  <1>7. out' \in Seq(Hash) /\ seen' = seen \cup {h} /\ Listed' = Listed \cup {h}
    BY <1>1, <1>2, <1>4, VisitLists
  <1>8. /\ made' = made /\ graph' = graph /\ panicked' = panicked
        /\ \A X : DepsOf(X)' = DepsOf(X) /\ Past(X)' = Past(X)
    BY <1>1, SameDocuments
  <1>9. ForkWalk(r, t, H)'
    <2>1. /\ r # t /\ ~panicked[r]
          /\ seen = H \cup Listed
          /\ H \subseteq Listed \cup Stacked
          /\ Listed \subseteq graph[r]
          /\ Listed \cup Stacked \subseteq Past(H)
          /\ DepsOf(Listed) \subseteq Listed \cup Stacked
      BY <1>3 DEF ForkWalk
    <2>2. deps[h] \subseteq Past(H)
      BY <2>1, <1>6, PastClosed DEF WInv
    <2>3. Listed' \cup Stacked' \subseteq Past(H)
      BY <2>1, <2>2, <1>6, <1>7
    <2>4. deps[h] \subseteq Listed' \cup Stacked'
      BY <2>1, <1>6, <1>7
    <2>5. DepsOf(Listed \cup {h}) = DepsOf(Listed) \cup deps[h]
      BY DEF DepsOf
    <2>6. DepsOf(Listed)' = DepsOf(Listed \cup {h})
      BY <1>7, <1>8
    <2>7. DepsOf(Listed)' \subseteq Listed' \cup Stacked'
      BY <2>1, <2>4, <2>5, <2>6, <1>6, <1>7
    <2>8. seen' = H \cup Listed' /\ H \subseteq Listed' \cup Stacked' /\ Listed' \subseteq graph[r]
      BY <2>1, <1>1, <1>6, <1>7
    <2>9. Past(H)' = Past(H)
      BY <1>8
    <2> QED
      BY <2>1, <2>3, <2>7, <2>8, <2>9, <1>8 DEF ForkWalk
  <1>10. \A q, u : Running("fork_at", q, u)' => q = r /\ u = t
    BY <1>1 DEF Running
  <1>11. \A q, u : ~Running("merge", q, u)'
    BY <1>1 DEF Running
  <1> QED
    BY <1>2, <1>3, <1>6, <1>7, <1>8, <1>9, <1>10, <1>11 DEF WalksOK

\* When the stack of fork_at is empty, what was found is the past of the given
\* hashes.
LEMMA ForkAtFinds ==
    ASSUME WInv, NEW r \in Replica, NEW t \in Replica, NEW H \in SUBSET made,
           ForkWalk(r, t, H), stack = <<>>
    PROVE  Listed = Past(H) /\ H \subseteq graph[r] /\ Listed = Past(H) \cap graph[r]
  <1>1. Stacked = {}
    BY DEF Stacked
  <1>2. /\ H \subseteq Listed /\ Listed \subseteq graph[r] /\ Listed \subseteq Past(H)
        /\ DepsOf(Listed) \subseteq Listed
    BY <1>1 DEF ForkWalk
  <1>3. Listed \in SUBSET made
    BY <1>2, HeldIsMade DEF WInv
  <1>4. Past(Listed) \subseteq Listed
    BY <1>2, <1>3 DEF WInv, HInv, PastLeast
  <1>5. Past(H) \subseteq Past(Listed)
    BY <1>2 DEF Past
  <1> QED
    BY <1>2, <1>4, <1>5

\* The whole walk is one ForkAt of Document.
LEMMA ForkAtImplements ==
    ASSUME WInv, NEW r \in Replica, NEW t \in Replica, ForkAtReturn(r, t)
    PROVE  /\ \E H \in SUBSET made : ForkAt(r, t, H)
           /\ made' = made
           /\ Return
  <1>1. /\ Running("fork_at", r, t) /\ stack = <<>>
        /\ \E b \in Base : FreshActor(b) /\ actor' = [actor EXCEPT ![t] = b]
        /\ AbsorbInto(t, {}, {}, {}, 0, Listed)
        /\ panicked' = [panicked EXCEPT ![t] = FALSE]
        /\ UNCHANGED <<history, disk>>
        /\ Return
    BY DEF ForkAtReturn
  <1>2. PICK H \in SUBSET made : ForkWalk(r, t, H)
    BY <1>1 DEF WInv, WalksOK
  <1>3. H \subseteq graph[r] /\ Listed = Past(H) \cap graph[r]
    BY <1>1, <1>2, ForkAtFinds
  <1>4. r # t /\ ~panicked[r]
    BY <1>2 DEF ForkWalk
  <1>5. AbsorbInto(t, {}, {}, {}, 0, Past(H) \cap graph[r])
    BY <1>1, <1>3
  <1>6. ForkAt(r, t, H)
    BY <1>1, <1>3, <1>4, <1>5 DEF ForkAt
  <1> QED
    BY <1>1, <1>6 DEF history

-----------------------------------------------------------------------------
(* merge *)

\* One hash of get_changes_added that is missing and was not found before.
LEMMA MergeStepPreserves ==
    ASSUME WInv, NEW r \in Replica, NEW t \in Replica, MergeStep(r, t)
    PROVE  WalksOK'
  <1> DEFINE h == Last(stack)
             S == deps[h]
  <1>1. /\ Running("merge", r, t) /\ stack # <<>> /\ h \notin seen /\ h \notin graph[r]
        /\ PopAndPush(S) /\ Visit(h)
        /\ UNCHANGED vars /\ call' = call
    BY DEF MergeStep, IsAdded
  <1>2. /\ stack \in Seq(Hash) /\ out \in Seq(Hash) /\ IsFiniteSet(made)
        /\ MergeWalk(r, t)
    BY <1>1 DEF WInv, WalksOK
  <1>3. h \in Stacked
    <2>1. Len(stack) \in 1 .. Len(stack)
      BY <1>1, <1>2
    <2> QED
      BY <2>1 DEF Stacked, Last
  <1>4. /\ ~panicked[r] /\ ~panicked[t]
        /\ seen = Listed
        /\ Listed \subseteq graph[t] \ graph[r]
        /\ Stacked \subseteq graph[t]
        /\ heads[t] \subseteq graph[r] \cup Listed \cup Stacked
        /\ DepsOf(Listed) \subseteq graph[r] \cup Listed \cup Stacked
        /\ \A i, j \in 1 .. Len(out) : out[i] = out[j] => i = j
    BY <1>2 DEF MergeWalk
  <1>5. h \in graph[t] /\ h \in Hash /\ S \subseteq graph[t] /\ S \subseteq made /\ made \subseteq Hash
    BY <1>3, <1>4, HeldIsMade DEF WInv
  <1>6. S \in SUBSET Hash /\ IsFiniteSet(S)
    BY <1>2, <1>5, FS_Subset
  <1> HIDE DEF h
  <1>7. /\ stack' \in Seq(Hash)
        /\ Stacked \subseteq Stacked' \cup {h}
        /\ Stacked' \subseteq Stacked \cup S
        /\ S \subseteq Stacked'
    BY <1>1, <1>2, <1>6, PopsAndPushes DEF h
  <1>8. /\ out' \in Seq(Hash) /\ seen' = seen \cup {h} /\ Listed' = Listed \cup {h}
        /\ \A i, j \in 1 .. Len(out') : out'[i] = out'[j] => i = j
    BY <1>1, <1>2, <1>4, <1>5, VisitLists
  <1>9. /\ made' = made /\ graph' = graph /\ heads' = heads /\ panicked' = panicked
        /\ \A X : DepsOf(X)' = DepsOf(X)
    BY <1>1, SameDocuments
  <1>10. MergeWalk(r, t)'
    <2>1. DepsOf(Listed \cup {h}) = DepsOf(Listed) \cup deps[h]
      BY DEF DepsOf
    <2>2. DepsOf(Listed)' = DepsOf(Listed \cup {h})
      BY <1>8, <1>9
    <2>3. DepsOf(Listed)' \subseteq graph[r] \cup Listed' \cup Stacked'
      <3>1. DepsOf(Listed) \cup deps[h] \subseteq graph[r] \cup Listed' \cup Stacked'
        BY <1>4, <1>7, <1>8
      <3> QED
        BY <2>1, <2>2, <3>1
    <2>4. /\ seen' = Listed'
          /\ Listed' \subseteq graph[t] \ graph[r]
          /\ Stacked' \subseteq graph[t]
          /\ heads[t] \subseteq graph[r] \cup Listed' \cup Stacked'
      BY <1>1, <1>4, <1>5, <1>7, <1>8
    <2> QED
      BY <2>3, <2>4, <1>4, <1>8, <1>9 DEF MergeWalk
  <1>11. \A q, u : Running("merge", q, u)' => q = r /\ u = t
    BY <1>1 DEF Running
  <1>12. \A q, u : ~Running("fork_at", q, u)'
    BY <1>1 DEF Running
  <1> QED
    BY <1>2, <1>7, <1>8, <1>9, <1>10, <1>11, <1>12 DEF WalksOK

\* One hash of get_changes_added that is held or was found before.
LEMMA MergeSkipPreserves ==
    ASSUME WInv, NEW r \in Replica, NEW t \in Replica, MergeSkip(r, t)
    PROVE  WalksOK'
  <1> DEFINE h == Last(stack)
  <1>1. /\ Running("merge", r, t) /\ stack # <<>> /\ (h \in seen \/ h \in graph[r])
        /\ stack' = Front(stack)
        /\ UNCHANGED vars /\ call' = call /\ seen' = seen /\ out' = out
    BY DEF MergeSkip, IsAdded
  <1>2. /\ stack \in Seq(Hash) /\ out \in Seq(Hash) /\ IsFiniteSet(made)
        /\ MergeWalk(r, t)
    BY <1>1 DEF WInv, WalksOK
  <1>3. /\ stack' \in Seq(Hash)
        /\ Stacked' \subseteq Stacked
        /\ Stacked \subseteq Stacked' \cup {h}
    <2> DEFINE n == Len(stack)
    <2>1. n \in Nat /\ n >= 1 /\ h = stack[n]
      BY <1>1, <1>2, FrontOf
    <2>2. /\ stack' \in Seq(Hash) /\ Len(stack') = n - 1
          /\ \A i \in 1 .. n - 1 : stack'[i] = stack[i]
      BY <1>1, <1>2, FrontOf
    <2>3. Stacked = {stack[i] : i \in 1 .. n} /\ Stacked' = {stack'[i] : i \in 1 .. n - 1}
      BY <2>2 DEF Stacked
    <2>4. /\ \A i \in 1 .. n : i = n \/ i \in 1 .. n - 1
          /\ \A i \in 1 .. n - 1 : i \in 1 .. n
      BY <2>1
    <2> HIDE DEF n, h
    <2> QED
      BY <2>1, <2>2, <2>3, <2>4
  <1> HIDE DEF h
  <1>4. Listed' = Listed
    BY <1>1 DEF Listed
  <1>5. /\ made' = made /\ graph' = graph /\ heads' = heads /\ panicked' = panicked
        /\ \A X : DepsOf(X)' = DepsOf(X)
    BY <1>1, SameDocuments
  <1>6. DepsOf(Listed)' = DepsOf(Listed)
    BY <1>4, <1>5
  <1>7. MergeWalk(r, t)'
    BY <1>1, <1>2, <1>3, <1>4, <1>5, <1>6 DEF MergeWalk
  <1>8. \A q, u : Running("merge", q, u)' => q = r /\ u = t
    BY <1>1 DEF Running
  <1>9. \A q, u : ~Running("fork_at", q, u)'
    BY <1>1 DEF Running
  <1> QED
    BY <1>1, <1>2, <1>3, <1>5, <1>7, <1>8, <1>9 DEF WalksOK

\* When the stack of get_changes_added is empty, it found what is missing.
LEMMA MergeFinds ==
    ASSUME WInv, NEW r \in Replica, NEW t \in Replica, MergeWalk(r, t), stack = <<>>
    PROVE  Listed = graph[t] \ graph[r]
  <1>1. Stacked = {}
    BY DEF Stacked
  <1> DEFINE G == graph[r] \cup Listed
  <1>2. /\ Listed \subseteq graph[t] \ graph[r]
        /\ heads[t] \subseteq G
        /\ DepsOf(Listed) \subseteq G
    BY <1>1 DEF MergeWalk
  <1>3. G \in SUBSET made
    BY <1>2, HeldIsMade DEF WInv
  <1>4. DepsOf(G) \subseteq G
    <2>1. DepsOf(graph[r]) \subseteq graph[r]
      BY DEF WInv, IInv, CausallyClosed
    <2>2. DepsOf(G) = DepsOf(graph[r]) \cup DepsOf(Listed)
      BY DEF DepsOf
    <2> QED
      BY <2>1, <2>2, <1>2
  <1>5. Past(G) \subseteq G
    BY <1>3, <1>4 DEF WInv, HInv, PastLeast
  <1>6. Past(heads[t]) \subseteq Past(G)
    BY <1>2 DEF Past
  <1>7. Past(heads[t]) = graph[t]
    BY HeadsCover DEF WInv
  <1> QED
    BY <1>2, <1>5, <1>6, <1>7

\* The whole walk is one Merge of Document.
LEMMA MergeImplements ==
    ASSUME WInv, NEW r \in Replica, NEW t \in Replica, MergeReturn(r, t)
    PROVE  Merge(r, t) /\ made' = made /\ Return
  <1>1. Running("merge", r, t) /\ stack = <<>> /\ Absorb(r, Listed) /\ Return
    BY DEF MergeReturn
  <1>2. MergeWalk(r, t)
    BY <1>1 DEF WInv, WalksOK
  <1>3. Listed = graph[t] \ graph[r] /\ ~panicked[t]
    BY <1>1, <1>2, MergeFinds DEF MergeWalk
  <1> QED
    BY <1>1, <1>3 DEF Merge, Absorb, history

-----------------------------------------------------------------------------
(* The other steps *)

\* A walk that goes on, or starts, leaves the documents alone.
LEMMA WalkSteps ==
    ASSUME WInv, NEW r \in Replica, NEW t \in Replica,
           \/ \E H \in SUBSET made : StartForkAt(r, t, H)
           \/ ForkAtStep(r, t)
           \/ StartMerge(r, t)
           \/ MergeStep(r, t)
           \/ MergeSkip(r, t)
    PROVE  UNCHANGED vars /\ WalksOK'
  <1>1. UNCHANGED vars
    BY DEF StartForkAt, ForkAtStep, StartMerge, MergeStep, MergeSkip, Start
  <1>2. WalksOK'
    BY StartForkAtPreserves, ForkAtStepPreserves, StartMergePreserves,
       MergeStepPreserves, MergeSkipPreserves
  <1> QED
    BY <1>1, <1>2

\* A call that returns does one step of Document, or none.
LEMMA WalkReturns ==
    ASSUME WInv, NEW r \in Replica, NEW t \in Replica,
           \/ ForkAtInvalid(r, t)
           \/ ForkAtReturn(r, t)
           \/ Restart(r, t)
           \/ MergeReturn(r, t)
    PROVE  [Next]_vars /\ WalksOK'
  <1>1. CASE ForkAtInvalid(r, t)
    <2>1. UNCHANGED vars /\ Return
      BY <1>1 DEF ForkAtInvalid
    <2>2. made' = made
      BY <2>1, SameDocuments
    <2> QED
      BY <2>1, <2>2, ReturnPreserves DEF WInv, WalksOK
  <1>2. CASE ForkAtReturn(r, t)
    <2>1. /\ \E H \in SUBSET made : ForkAt(r, t, H)
          /\ made' = made /\ Return
      BY <1>2, ForkAtImplements
    <2>2. Next
      BY <2>1 DEF Next
    <2> QED
      BY <2>1, <2>2, ReturnPreserves DEF WInv, WalksOK
  <1>3. CASE Restart(r, t)
    <2>1. Load(r) /\ Return /\ made' = made
      BY <1>3 DEF Restart, Load, history
    <2>2. Next
      BY <2>1 DEF Next
    <2> QED
      BY <2>1, <2>2, ReturnPreserves DEF WInv, WalksOK
  <1>4. CASE MergeReturn(r, t)
    <2>1. Merge(r, t) /\ made' = made /\ Return
      BY <1>4, MergeImplements
    <2>2. Next
      BY <2>1 DEF Next
    <2> QED
      BY <2>1, <2>2, ReturnPreserves DEF WInv, WalksOK
  <1> QED
    BY <1>1, <1>2, <1>3, <1>4

\* The unwrap of fork_at that fails.
LEMMA ForkAtPanicPreserves ==
    ASSUME WInv, NEW r \in Replica, NEW t \in Replica, ForkAtPanic(r, t)
    PROVE  UNCHANGED vars /\ WalksOK'
  <1>1. /\ UNCHANGED vars /\ stack' = stack /\ out' = <<>>
        /\ call' = <<"panicked", r, t>>
    BY DEF ForkAtPanic
  <1>2. \A q, u : ~Running("fork_at", q, u)' /\ ~Running("merge", q, u)'
    BY <1>1 DEF Running
  <1>3. <<>> \in Seq(Hash) /\ made' = made
    BY <1>1, SameDocuments
  <1> QED
    BY <1>1, <1>2, <1>3 DEF WInv, WalksOK

\* What happens between the calls.
LEMMA EditPreserves ==
    ASSUME WInv, NEW r \in Replica, Edit(r)
    PROVE  Next /\ WalksOK'
  <1>1. /\ call = <<>> /\ call' = call /\ stack' = stack /\ seen' = seen /\ out' = out
        /\ Commit(r) \/ EmptyCommit(r) \/ \E B \in SUBSET made : ApplyChanges(r, B)
    BY DEF Edit, walk
  <1>2. Next
    BY <1>1 DEF Next
  <1>3. IsFiniteSet(made')
    <2>1. ASSUME NEW n, CommitOnHeads(r, n)
          PROVE  IsFiniteSet(made')
      <3>1. \E h : made' = made \cup {h}
        BY <2>1 DEF CommitOnHeads, AddLocalChange, RecordChange
      <3> QED
        BY <3>1, FS_AddElement DEF WInv, WalksOK
    <2>2. ASSUME NEW B, ApplyChanges(r, B)
          PROVE  IsFiniteSet(made')
      BY <2>2 DEF ApplyChanges, Absorb, history, WInv, WalksOK
    <2> QED
      BY <1>1, <2>1, <2>2 DEF Commit, EmptyCommit
  <1>4. \A n, q, u : ~Running(n, q, u)'
    BY <1>1 DEF Running
  <1> QED
    BY <1>1, <1>2, <1>3, <1>4 DEF WInv, WalksOK

\* Every step of the walks is a step of Document or leaves it alone.
LEMMA StepImplements ==
    ASSUME WInv, [WalkNext]_walkVars
    PROVE  [Next]_vars /\ WInv'
  <1>1. [Next]_vars /\ WalksOK'
    <2>1. CASE UNCHANGED walkVars
      <3>1. UNCHANGED vars /\ call' = call /\ stack' = stack /\ seen' = seen /\ out' = out
        BY <2>1 DEF walkVars, walk
      <3>2. Stacked' = Stacked /\ Listed' = Listed
        BY <3>1 DEF Stacked, Listed
      <3>3. /\ made' = made /\ graph' = graph /\ heads' = heads /\ panicked' = panicked
            /\ \A S : DepsOf(S)' = DepsOf(S) /\ Past(S)' = Past(S)
        BY <3>1, SameDocuments
      <3>4. DepsOf(Listed)' = DepsOf(Listed)
        BY <3>2, <3>3
      <3>5. \A n, r, t : Running(n, r, t)' <=> Running(n, r, t)
        BY <3>1 DEF Running
      <3>6. \A r, t, H : ForkWalk(r, t, H) => ForkWalk(r, t, H)'
        BY <3>1, <3>2, <3>3, <3>4 DEF ForkWalk
      <3>7. \A r, t : MergeWalk(r, t) => MergeWalk(r, t)'
        BY <3>1, <3>2, <3>3, <3>4 DEF MergeWalk
      <3>8. WalksOK'
        BY <3>1, <3>3, <3>5, <3>6, <3>7 DEF WInv, WalksOK
      <3> QED
        BY <3>1, <3>8
    <2>2. ASSUME NEW r \in Replica, NEW t \in Replica,
                 \/ \E H \in SUBSET made : StartForkAt(r, t, H)
                 \/ ForkAtStep(r, t)
                 \/ StartMerge(r, t)
                 \/ MergeStep(r, t)
                 \/ MergeSkip(r, t)
          PROVE  [Next]_vars /\ WalksOK'
      BY <2>2, WalkSteps
    <2>3. ASSUME NEW r \in Replica, NEW t \in Replica,
                 \/ ForkAtInvalid(r, t)
                 \/ ForkAtReturn(r, t)
                 \/ Restart(r, t)
                 \/ MergeReturn(r, t)
          PROVE  [Next]_vars /\ WalksOK'
      BY <2>3, WalkReturns
    <2>4. ASSUME NEW r \in Replica, NEW t \in Replica, ForkAtPanic(r, t)
          PROVE  [Next]_vars /\ WalksOK'
      BY <2>4, ForkAtPanicPreserves
    <2>5. ASSUME NEW r \in Replica, Edit(r)
          PROVE  [Next]_vars /\ WalksOK'
      BY <2>5, EditPreserves
    <2> QED
      BY <2>1, <2>2, <2>3, <2>4, <2>5 DEF WalkNext
  <1>2. IInv' /\ HInv'
    BY <1>1, StepPreserves, StepKeepsHistory DEF WInv
  <1> QED
    BY <1>1, <1>2 DEF WInv

\* The walks keep their invariant.
THEOREM WalksHold == WalkSpec => []WInv
  <1>1. WalkInit => WInv
    <2> SUFFICES ASSUME WalkInit
                 PROVE  WInv
      OBVIOUS
    <2>1. Init /\ call = <<>> /\ stack = <<>> /\ out = <<>>
      BY DEF WalkInit
    <2>2. \A n, r, t : ~Running(n, r, t)
      BY <2>1 DEF Running
    <2>3. IsFiniteSet(made)
      BY <2>1, FS_EmptySet DEF Init
    <2>4. <<>> \in Seq(Hash)
      OBVIOUS
    <2> QED
      BY <2>1, <2>2, <2>3, <2>4, InitIInv, InitHInv DEF WInv, WalksOK
  <1>2. WInv /\ [WalkNext]_walkVars => WInv'
    BY StepImplements
  <1> QED
    BY <1>1, <1>2, PTL DEF WalkSpec

\* get_changes_added collects each missing change once, in any graph and in
\* any order of the hashes.
THEOREM MergeAlwaysCollects == WalkSpec => []MergeCollects
  <1>1. WInv => MergeCollects
    <2> SUFFICES ASSUME WInv, NEW r \in Replica, NEW t \in Replica, Running("merge", r, t)
                 PROVE  Collectable /\ (stack = <<>> => Listed = graph[t] \ graph[r])
      BY DEF MergeCollects
    <2>1. MergeWalk(r, t)
      BY DEF WInv, WalksOK
    <2>2. Collectable
      BY <2>1 DEF MergeWalk, Collectable
    <2> QED
      BY <2>1, <2>2, MergeFinds
  <1> QED
    BY <1>1, WalksHold, PTL

\* What fork_at and merge do hash by hash is what Document does in one step.
THEOREM WalksImplementDocument == WalkSpec => ImplementsDocument
  <1>1. WalkInit => Init
    BY DEF WalkInit
  <1>2. WInv /\ [WalkNext]_walkVars => [Next]_vars
    BY StepImplements
  <1> QED
    BY <1>1, <1>2, WalksHold, PTL DEF WalkSpec, ImplementsDocument, Spec

=============================================================================
