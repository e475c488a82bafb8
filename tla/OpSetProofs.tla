----------------------------- MODULE OpSetProofs -----------------------------
(***************************************************************************)
(* Theorems about the operations of OpSet, for any replicas and bounds:    *)
(* what the identifiers, the predecessors and the elements of operations   *)
(* refer to, and that the successors and the index of what is visible      *)
(* depend on the operations of a document alone, not on how they came.     *)
(***************************************************************************)
EXTENDS OpSet, TLAPS, FiniteSetTheorems, WellFoundedInduction

Held(r) == DOMAIN doc[r].ops

Fields == {"ops", "order", "succ", "vis", "top"}

\* Identifiers count from one; they are finitely many.
IdsOK ==
    /\ DOMAIN made \in SUBSET (Nat \X Nat)
    /\ IsFiniteSet(DOMAIN made)

\* What an operation is based on is closed and was counted before it.
PastOK(i) ==
    /\ i \in made[i].past
    /\ made[i].past \subseteq DOMAIN made
    /\ \A j \in made[i].past : made[j].past \subseteq made[i].past
    /\ \A j \in made[i].past \ {i} : j[1] < i[1]

\* An operation overwrites, and refers to, operations that it is based on; what
\* it refers to in a list is an element.
Earlier(i) == made[i].past \ {i}
RefersBack(i) ==
    LET o == made[i].o
    IN  /\ o.pred \subseteq Earlier(i)
        /\ o.insert => o.type # "inc" /\ o.type # "del" /\ object = "list"
        /\ IF object = "list"
           THEN \/ o.insert /\ o.ref = Head0
                \/ o.ref \in Earlier(i) /\ made[o.ref].o.insert
           ELSE o.ref = Head0

\* Unless increments may meet other values they only meet counters.
IncrementsCounters(i) ==
    made[i].o.type = "inc" => \A p \in made[i].o.pred : made[p].o.type = "counter"

\* A document holds operations as they were made, with all they are based on,
\* and all of its own actors.
DocOK(r) ==
    /\ DOMAIN doc[r] = Fields
    /\ doc[r].ops = [i \in Held(r) |-> made[i].o]
    /\ Held(r) \subseteq DOMAIN made
    /\ \A i \in Held(r) : made[i].past \subseteq Held(r)
    /\ doc[r].vis \subseteq Held(r)
    /\ \A i \in DOMAIN made : i[2] \in {Own[r][1], Own[r][2]} => i \in Held(r)

OpInv ==
    /\ object \in {"map", "list"}
    /\ IdsOK
    /\ \A i \in DOMAIN made : PastOK(i) /\ RefersBack(i)
    /\ doc = [r \in Replica |-> doc[r]]
    /\ \A r \in Replica : DocOK(r)

\* The successors that the operations S have among each other.
SuccOf(S) ==
    UNION {{[of |-> p, by |-> b, inc |-> made[b].o.type = "inc"] : p \in made[b].o.pred} : b \in S}

\* Of the operations S, the values that no other one overwrote or deleted.
VisOf(S) ==
    {i \in S : /\ made[i].o.type \notin {"inc", "del"}
               /\ \A b \in S : i \in made[b].o.pred => made[b].o.type = "inc"}

\* Successors and visible rows are what the operations say.
IndexOK(r) ==
    /\ doc[r].succ = SuccOf(Held(r))
    /\ doc[r].vis = VisOf(Held(r))

IndexInv ==
    /\ OpInv
    /\ \A i \in DOMAIN made : IncrementsCounters(i)
    /\ \A r \in Replica : IndexOK(r)

\* What the operation i overwrites, and the element it refers to unless it is at
\* the front or in a map, is held by the document and has a smaller counter.
RefersToEarlier(r, i) ==
    LET o == doc[r].ops[i]
    IN  /\ \A p \in o.pred : p \in Held(r) /\ p[1] < i[1]
        /\ o.ref # Head0 =>
               o.ref \in Held(r) /\ o.ref[1] < i[1] /\ doc[r].ops[o.ref].insert

RefersToHeld == \A r \in Replica : \A i \in Held(r) : RefersToEarlier(r, i)

\* No identifier is given twice and no operation changes once it is made, also
\* with isolated transactions and with operations that came meanwhile (NextId
\* from the greatest counter of the document, with_concurrency).
IdsAreNew == \A i \in DOMAIN made : i \in DOMAIN made' /\ made'[i] = made[i]

\* The index of visible rows is what reading the operations one by one finds.
IndexIsScope ==
    \A r \in Replica :
        doc[r].vis = {i \in Held(r) : HasRow(doc[r], i) /\ IsVisibleAt(doc[r], i, Held(r))}

-----------------------------------------------------------------------------
(* Identifiers *)

\* Identifiers are in a strict order.
LEMMA LessIsOrder ==
    ASSUME NEW i \in Nat \X Nat, NEW j \in Nat \X Nat, NEW k \in Nat \X Nat
    PROVE  /\ ~Less(i, i)
           /\ Less(i, j) /\ Less(j, k) => Less(i, k)
           /\ i = j \/ Less(i, j) \/ Less(j, i)
  BY DEF Less

\* Finitely many identifiers have a greatest: one with the fewest above it.
LEMMA GreatestIs ==
    ASSUME NEW S \in SUBSET (Nat \X Nat), IsFiniteSet(S), S # {}
    PROVE  Greatest(S) \in S /\ \A j \in S \ {Greatest(S)} : Less(j, Greatest(S))
  <1> DEFINE Above(i) == {j \in S : Less(i, j)}
             N == {Cardinality(Above(i)) : i \in S}
  <1>1. ASSUME NEW i \in S
        PROVE  IsFiniteSet(Above(i)) /\ Cardinality(Above(i)) \in Nat
    <2>1. Above(i) \in SUBSET S
      OBVIOUS
    <2> HIDE DEF Above
    <2> QED
      BY <2>1, FS_Subset, FS_CardinalityType
  <1>2. N \in SUBSET Nat /\ N # {}
    <2> HIDE DEF Above
    <2> QED
      BY <1>1
  <1>3. PICK n \in N : \A m \in N : ~(<<m, n>> \in OpToRel(<, Nat))
    <2> HIDE DEF N
    <2> QED
      BY <1>2, NatLessThanWellFounded, WFMin
  <1>4. \A m \in N : ~(m < n)
    BY <1>2, <1>3 DEF OpToRel
  <1>5. PICK i \in S : n = Cardinality(Above(i))
    OBVIOUS
  <1>6. ASSUME NEW j \in S, Less(i, j)
        PROVE  FALSE
    <2>1. Above(j) \in SUBSET Above(i)
      BY <1>6, LessIsOrder
    <2>2. j \in Above(i) /\ j \notin Above(j)
      BY <1>6, LessIsOrder
    <2>3. Cardinality(Above(j)) \in N
      OBVIOUS
    <2> HIDE DEF Above, N
    <2>4. Cardinality(Above(j)) <= Cardinality(Above(i)) /\ Cardinality(Above(j)) # Cardinality(Above(i))
      BY <1>1, <2>1, <2>2, FS_Subset
    <2>5. Cardinality(Above(j)) < n
      BY <1>1, <1>5, <2>4
    <2> QED
      BY <1>4, <2>3, <2>5
  <1>7. \A j \in S \ {i} : Less(j, i)
    BY <1>6, LessIsOrder
  <1> HIDE DEF Above, N
  <1> QED
    BY <1>7 DEF Greatest

\* What an edit may see is held, closed, and visible is what it may overwrite.
LEMMA ScopeIsClosed ==
    ASSUME OpInv, NEW r \in Replica, NEW S \in Scopes(r)
    PROVE  /\ InView(doc[r], S) \subseteq Held(r)
           /\ \A j \in InView(doc[r], S) : made[j].past \subseteq InView(doc[r], S)
           /\ Visible(doc[r], S) \subseteq InView(doc[r], S)
           /\ S \subseteq Held(r)
  <1>1. DocOK(r) /\ \A i \in DOMAIN made : PastOK(i)
    BY DEF OpInv
  <1>2. CASE S = {}
    BY <1>1, <1>2 DEF InView, Visible, DocOK, Held
  <1>3. CASE S # {}
    <2>1. PICK i \in Held(r) : S = made[i].past
      BY <1>3 DEF Scopes, Held
    <2>2. i \in DOMAIN made /\ S \subseteq Held(r) /\ \A j \in S : made[j].past \subseteq S
      BY <1>1, <2>1 DEF DocOK, PastOK
    <2> QED
      BY <1>3, <2>2 DEF InView, Visible
  <1> QED
    BY <1>2, <1>3

\* An edit gets an identifier that no operation has, greater than all it knows.
LEMMA NextIdIsNew ==
    ASSUME OpInv, NEW r \in Replica, NEW S
    PROVE  /\ NextId(r, S) \in Nat \X Nat
           /\ NextId(r, S) \notin DOMAIN made
           /\ \A j \in Held(r) : j[1] < NextId(r, S)[1]
           /\ NextId(r, S)[2] \in {Own[r][1], Own[r][2]}
  <1> DEFINE T == {Head0} \cup Held(r)
             g == Greatest(T)
  <1>1. DocOK(r) /\ IdsOK
    BY DEF OpInv
  <1>2. T \in SUBSET (Nat \X Nat) /\ IsFiniteSet(T) /\ T # {}
    <2>1. Held(r) \in SUBSET DOMAIN made
      BY <1>1 DEF DocOK
    <2>2. IsFiniteSet(Held(r))
      BY <1>1, <2>1, FS_Subset DEF IdsOK
    <2>3. IsFiniteSet(Held(r) \cup {Head0})
      BY <2>2, FS_AddElement
    <2>4. Held(r) \cup {Head0} = T
      OBVIOUS
    <2>5. Head0 \in Nat \X Nat
      BY DEF Head0
    <2>6. Held(r) \subseteq Nat \X Nat
      BY <1>1, <2>1 DEF IdsOK
    <2> QED
      BY <2>3, <2>4, <2>5, <2>6
  <1>3. g \in T /\ \A j \in T \ {g} : Less(j, g)
    BY <1>2, GreatestIs
  <1>4. g[1] \in Nat /\ \A j \in Held(r) : j[1] \in Nat /\ j[1] <= g[1]
    BY <1>2, <1>3 DEF Less
  <1>5. NextId(r, S) = <<1 + g[1], ActorFor(r, S)>>
    BY DEF NextId, Held
  <1>6. ActorFor(r, S) \in {Own[r][1], Own[r][2]} /\ ActorFor(r, S) \in Nat
    BY OpSetAssumption DEF ActorFor
  <1> HIDE DEF g, T
  <1>7. \A j \in Held(r) : j[1] < 1 + g[1]
    BY <1>4
  <1>8. NextId(r, S) \notin Held(r)
    BY <1>4, <1>5, <1>7
  <1>9. NextId(r, S) \notin DOMAIN made
    BY <1>1, <1>5, <1>6, <1>8 DEF DocOK
  <1> QED
    BY <1>4, <1>5, <1>6, <1>7, <1>9

-----------------------------------------------------------------------------
(* Successors *)

\* The successors of the operations S are theirs and all of them.
LEMMA SuccessorsAre ==
    ASSUME NEW S
    PROVE  /\ \A s \in SuccOf(S) : /\ s.by \in S /\ s.of \in made[s.by].o.pred
                                   /\ s.inc <=> made[s.by].o.type = "inc"
           /\ \A b \in S : \A p \in made[b].o.pred : \E s \in SuccOf(S) : s.of = p /\ s.by = b
  <1>1. ASSUME NEW s \in SuccOf(S)
        PROVE  /\ s.by \in S /\ s.of \in made[s.by].o.pred
               /\ s.inc <=> made[s.by].o.type = "inc"
    <2>1. PICK b \in S : \E p \in made[b].o.pred :
                   s = [of |-> p, by |-> b, inc |-> made[b].o.type = "inc"]
      BY Zenon DEF SuccOf
    <2>2. PICK p \in made[b].o.pred : s = [of |-> p, by |-> b, inc |-> made[b].o.type = "inc"]
      BY <2>1
    <2>3. s.of = p /\ s.by = b /\ s.inc = (made[b].o.type = "inc")
      BY <2>2, Zenon
    <2> QED
      BY <2>3
  <1>2. ASSUME NEW b \in S, NEW p \in made[b].o.pred
        PROVE  \E s \in SuccOf(S) : s.of = p /\ s.by = b
    <2> DEFINE s == [of |-> p, by |-> b, inc |-> made[b].o.type = "inc"]
    <2>1. s \in {[of |-> q, by |-> b, inc |-> made[b].o.type = "inc"] : q \in made[b].o.pred}
      BY Zenon
    <2>2. s.of = p /\ s.by = b
      BY Zenon
    <2> HIDE DEF s
    <2>3. s \in SuccOf(S)
      BY <2>1, Zenon DEF SuccOf
    <2> QED
      BY <2>2, <2>3
  <1> QED
    BY <1>1, <1>2

-----------------------------------------------------------------------------
(* Edits *)

\* An operation overwrites what is in view and refers to an element in view;
\* an increment meets counters only, unless it may meet others.
BasedOn(r, S, o) ==
    /\ o.pred \subseteq InView(doc[r], S)
    /\ o.insert => o.type # "inc" /\ o.type # "del" /\ object = "list"
    /\ IF object = "list"
       THEN \/ o.insert /\ o.ref = Head0
            \/ o.ref \in InView(doc[r], S) /\ made[o.ref].o.insert
       ELSE o.ref = Head0
    /\ ~MixedIncrements /\ o.type = "inc" => \A p \in o.pred : made[p].o.type = "counter"

\* The increment o counts for p in the document d.
Counts(d, o, p) == o.type = "inc" /\ d.ops[p].type = "counter"

\* The document e is d after the operation o with the identifier i.
DocAfter(d, i, o, e) ==
    /\ DOMAIN e = Fields
    /\ e.ops = With(d.ops, i, o)
    /\ e.succ = d.succ \cup {[of |-> p, by |-> i, inc |-> Counts(d, o, p)] : p \in o.pred}
    /\ e.vis = (d.vis \cup (IF o.type \in {"inc", "del"} THEN {} ELSE {i}))
                   \ {p \in o.pred : ~Counts(d, o, p)}

\* What a step of an edit with the scope S does.
Edits(r, S, o, e) ==
    /\ BasedOn(r, S, o)
    /\ DocAfter(doc[r], NextId(r, S), o, e)
    /\ made' = With(made, NextId(r, S),
                    [o |-> o, past |-> {NextId(r, S)} \cup InView(doc[r], S)])
    /\ doc' = [doc EXCEPT ![r] = e]
    /\ object' = object

\* An insert has a row of its own, in front or after the element it refers to.
InsertsRow(r, S, o, e) ==
    LET d == doc[r]
        F == IF S = {} THEN Found(d, S) ELSE Seen(d, S, Registers(d))
        i == NextId(r, S)
    IN  /\ object = "list" /\ o.insert /\ o.pred = {} /\ o.type \in {"set", "counter"}
        /\ \/ o.ref = Head0 /\ e = WithRow(d, i, o, 0)
           \/ /\ \E k : At(F, k) # {} /\ o.ref = ElemOf(d, At(F, k))
              /\ e = WithRow(d, i, o, InsertPos(d, o.ref))

\* Another operation is about what was found, and overwrites it or all but the
\* winner; a delete does overwrite something.
UpdatesRow(r, S, o, e) ==
    LET d == doc[r]
    IN  \E k : LET found == At(Found(d, S), k)
               IN  /\ ~o.insert
                   /\ found # {} \/ (object = "map" /\ k = 1)
                   /\ o.ref = RefAt(d, found)
                   /\ \/ o.pred = found
                      \/ o.type = "del" /\ o.pred = found \ {Winner(d, found)}
                   /\ o.type = "del" => o.pred # {}
                   /\ e = Updated(d, NextId(r, S), o, S, RangeAt(d, S, k))

\* What is found at an index is visible in the scope.
LEMMA FoundIsVisible ==
    ASSUME NEW d, NEW S, NEW k, NEW G
    PROVE  /\ At(Found(d, S), k) \subseteq Visible(d, S)
           /\ At(Seen(d, S, G), k) \subseteq Visible(d, S)
  BY DEF At, Found, Seen, Visible

\* The element of rows in view is in view.
LEMMA ElementInView ==
    ASSUME OpInv, object = "list", NEW r \in Replica, NEW S \in Scopes(r),
           NEW rows \in SUBSET InView(doc[r], S), rows # {},
           NEW e, e = ElemOf(doc[r], rows)
    PROVE  e \in InView(doc[r], S) /\ made[e].o.insert
  <1> DEFINE V == InView(doc[r], S)
  <1>1. V \subseteq Held(r) /\ \A j \in V : made[j].past \subseteq V
    BY ScopeIsClosed
  <1>2. PICK i \in rows : e = Elem(doc[r], i)
    BY DEF ElemOf
  <1>3. i \in V
    OBVIOUS
  <1> HIDE DEF V
  <1>4. DocOK(r) /\ i \in Held(r) /\ i \in DOMAIN made /\ RefersBack(i) /\ i \in made[i].past
    BY <1>1, <1>3 DEF OpInv, DocOK, PastOK
  <1>5. doc[r].ops[i] = made[i].o
    BY <1>4 DEF DocOK
  <1>6. CASE made[i].o.insert
    BY <1>2, <1>3, <1>5, <1>6 DEF Elem, V
  <1>7. CASE ~made[i].o.insert
    <2>1. e = made[i].o.ref
      BY <1>2, <1>5, <1>7 DEF Elem
    <2>2. e \in Earlier(i) /\ made[e].o.insert
      BY <1>4, <1>7, <2>1 DEF RefersBack
    <2> QED
      BY <1>1, <1>3, <2>2 DEF Earlier, V
  <1> QED
    BY <1>6, <1>7

\* The row of an operation and what it overwrites (splice, add_succ, reset_top).
LEMMA UpdatedIs ==
    ASSUME NEW d, DOMAIN d = Fields, NEW i, i \notin DOMAIN d.ops, NEW S, NEW rows,
           NEW o, o.pred \subseteq DOMAIN d.ops
    PROVE  DocAfter(d, i, o, Updated(d, i, o, S, rows))
  <1> DEFINE w == WithRow(d, i, o, EndOf(d, rows))
             e == WithSucc(w, i)
             t == IF S = {} THEN e ELSE TopReset(e, Append(rows, i))
  <1>1. /\ DOMAIN w = Fields
        /\ w.ops = With(d.ops, i, o)
        /\ w.succ = d.succ
        /\ w.vis = d.vis \cup (IF o.type \in {"inc", "del"} THEN {} ELSE {i})
    BY DEF WithRow, Fields
  <1>2. w.ops[i] = o /\ \A p \in o.pred : w.ops[p] = d.ops[p]
    BY <1>1 DEF With
  <1> HIDE DEF w
  <1>3. /\ DOMAIN e = Fields
        /\ e.ops = w.ops
        /\ e.succ = w.succ \cup {[of |-> p, by |-> i, inc |-> Counts(d, o, p)] : p \in o.pred}
        /\ e.vis = w.vis \ {p \in o.pred : ~Counts(d, o, p)}
    BY <1>1, <1>2 DEF WithSucc, Counts, IsInc, IsCounter, Fields
  <1> HIDE DEF e
  <1>4. DOMAIN t = Fields /\ t.ops = e.ops /\ t.succ = e.succ /\ t.vis = e.vis
    BY <1>3 DEF TopReset, Fields
  <1>5. Updated(d, i, o, S, rows) = CounterExposed(t, i)
    BY DEF Updated, t, e, w
  <1> HIDE DEF t
  <1> DEFINE u == CounterExposed(t, i)
  <1>6. DOMAIN u = Fields /\ u.ops = t.ops /\ u.succ = t.succ /\ u.vis = t.vis
    BY <1>4 DEF CounterExposed, Fields
  <1> HIDE DEF u
  <1> QED
    BY <1>1, <1>3, <1>4, <1>5, <1>6 DEF DocAfter, u

\* An insert is an edit: it overwrites nothing and refers to an element in view.
LEMMA InsertEdits ==
    ASSUME OpInv, NEW r \in Replica, NEW S \in Scopes(r), NEW k, NEW type \in Inserted, NEW value,
           Insert(r, S, k, type, value)
    PROVE  \E o, e : Edits(r, S, o, e) /\ InsertsRow(r, S, o, e)
  <1> DEFINE d == doc[r]
             F == IF S = {} THEN Found(d, S) ELSE Seen(d, S, Registers(d))
             i == NextId(r, S)
             ref == IF k = 0 THEN Head0 ELSE ElemOf(d, At(F, k))
             o == Op(type, value, TRUE, ref, {})
             e == WithRow(d, i, o, IF k = 0 THEN 0 ELSE InsertPos(d, ref))
  <1>1. /\ object = "list"
        /\ k = 0 \/ At(F, k) # {}
        /\ made' = With(made, i, [o |-> o, past |-> {i} \cup InView(d, S)])
        /\ doc' = [doc EXCEPT ![r] = e]
        /\ object' = object
    BY DEF Insert, Record
  <1>2. At(F, k) \subseteq InView(d, S)
    BY FoundIsVisible, ScopeIsClosed
  <1>3. k # 0 => ref \in InView(d, S) /\ made[ref].o.insert
    BY <1>1, <1>2, ElementInView
  <1>4. /\ o.type \notin {"inc", "del"} /\ o.insert /\ o.pred = {} /\ o.ref = ref
    BY OpSetAssumption DEF Op
  <1>5. BasedOn(r, S, o)
    <2> HIDE DEF o
    <2> QED
      BY <1>1, <1>3, <1>4 DEF BasedOn
  <1>6. DocAfter(d, i, o, e)
    <2>1. DOMAIN d = Fields
      BY DEF OpInv, DocOK
    <2> HIDE DEF o, d, i, ref
    <2>2. /\ DOMAIN e = Fields
          /\ e.ops = With(d.ops, i, o)
          /\ e.succ = d.succ
          /\ e.vis = d.vis \cup {i}
      BY <1>4, <2>1 DEF WithRow, Fields
    <2> HIDE DEF e
    <2> QED
      BY <1>4, <2>2 DEF DocAfter
  <1>7. InsertsRow(r, S, o, e)
    <2>1. o.type \in {"set", "counter"}
      BY OpSetAssumption DEF Op
    <2>2. CASE k = 0
      <3>1. ref = Head0 /\ e = WithRow(d, i, o, 0)
        BY <2>2
      <3> HIDE DEF o, e, F, i, ref
      <3> QED
        BY <1>1, <1>4, <2>1, <3>1 DEF InsertsRow, i
    <2>3. CASE k # 0
      <3>1. At(F, k) # {} /\ ref = ElemOf(d, At(F, k)) /\ e = WithRow(d, i, o, InsertPos(d, ref))
        BY <1>1, <2>3
      <3> HIDE DEF o, e, i, ref
      <3> QED
        BY <1>1, <1>4, <2>1, <3>1 DEF InsertsRow, i
    <2> QED
      BY <2>2, <2>3
  <1> HIDE DEF o, e, F
  <1> QED
    BY <1>1, <1>5, <1>6, <1>7 DEF Edits

\* A put, a delete or an increment is one: it is about what was found, and
\* overwrites that.
LEMMA UpdateEdits ==
    ASSUME OpInv, NEW r \in Replica, NEW S \in Scopes(r), NEW k,
           NEW type \in {"set", "counter", "inc", "del"}, NEW value,
           Update(r, S, k, type, value)
    PROVE  \E o, e : Edits(r, S, o, e) /\ UpdatesRow(r, S, o, e)
  <1> DEFINE d == doc[r]
             found == At(Found(d, S), k)
             i == NextId(r, S)
             ref == RefAt(d, found)
             o == Op(type, value, FALSE, ref, found)
             e == Updated(d, i, o, S, RangeAt(d, S, k))
  <1>1. /\ found # {} \/ object = "map"
        /\ type = "inc" => MixedIncrements \/ \A p \in found : IsCounter(d, p)
        /\ made' = With(made, i, [o |-> o, past |-> {i} \cup InView(d, S)])
        /\ doc' = [doc EXCEPT ![r] = e]
        /\ object' = object
    BY DEF Update, Record
  <1>2. DocOK(r) /\ object \in {"map", "list"}
    BY DEF OpInv
  <1>3. found \subseteq InView(d, S) /\ InView(d, S) \subseteq Held(r)
    BY FoundIsVisible, ScopeIsClosed
  <1>4. o.type = type /\ ~o.insert /\ o.pred = found /\ o.ref = ref
    BY DEF Op
  <1> HIDE DEF found, o, e
  <1>5. IF object = "list" THEN ref \in InView(d, S) /\ made[ref].o.insert ELSE ref = Head0
    <2>1. CASE object = "list"
      BY <1>1, <1>3, <2>1, ElementInView DEF RefAt
    <2> QED
      BY <1>2, <2>1 DEF RefAt
  <1>6. \A p \in found : IsCounter(d, p) => made[p].o.type = "counter"
    BY <1>2, <1>3 DEF DocOK, IsCounter
  <1>7. BasedOn(r, S, o)
    BY <1>1, <1>3, <1>4, <1>5, <1>6 DEF BasedOn
  <1>8. DocAfter(d, i, o, e)
    BY <1>2, <1>3, <1>4, NextIdIsNew, UpdatedIs DEF e, DocOK, Held
  <1>9. UpdatesRow(r, S, o, e)
    <2>1. /\ found # {} \/ (object = "map" /\ k = 1)
          /\ type = "del" => found # {}
      BY DEF Update, found
    <2> QED
      BY <1>4, <2>1 DEF UpdatesRow, e, found
  <1> QED
    BY <1>1, <1>7, <1>8, <1>9 DEF Edits

\* So is a put of the value that wins, which deletes the others.
LEMMA ResolveEdits ==
    ASSUME OpInv, NEW r \in Replica, NEW S \in Scopes(r), NEW k, ResolveConflict(r, S, k)
    PROVE  \E o, e : Edits(r, S, o, e) /\ UpdatesRow(r, S, o, e)
  <1> DEFINE d == doc[r]
             found == At(Found(d, S), k)
             i == NextId(r, S)
             ref == RefAt(d, found)
             pred == found \ {Winner(d, found)}
             o == Op("del", 0, FALSE, ref, pred)
             e == Updated(d, i, o, S, RangeAt(d, S, k))
  <1>1. /\ Cardinality(found) > 1
        /\ made' = With(made, i, [o |-> o, past |-> {i} \cup InView(d, S)])
        /\ doc' = [doc EXCEPT ![r] = e]
        /\ object' = object
    BY DEF ResolveConflict, Record
  <1>2. DocOK(r) /\ object \in {"map", "list"}
    BY DEF OpInv
  <1>3. found \subseteq InView(d, S) /\ InView(d, S) \subseteq Held(r)
    BY FoundIsVisible, ScopeIsClosed
  <1>4. o.type = "del" /\ ~o.insert /\ o.pred = pred /\ o.ref = ref
    BY DEF Op
  <1> HIDE DEF found, o, e
  <1>5. found # {}
    BY <1>1, FS_EmptySet
  <1>6. IF object = "list" THEN ref \in InView(d, S) /\ made[ref].o.insert ELSE ref = Head0
    <2>1. CASE object = "list"
      BY <1>3, <1>5, <2>1, ElementInView DEF RefAt
    <2> QED
      BY <1>2, <2>1 DEF RefAt
  <1>7. BasedOn(r, S, o)
    BY <1>3, <1>4, <1>6 DEF BasedOn
  <1>8. DocAfter(d, i, o, e)
    BY <1>2, <1>3, <1>4, NextIdIsNew, UpdatedIs DEF e, DocOK, Held
  <1>9. UpdatesRow(r, S, o, e)
    <2>1. pred # {}
      <3> DEFINE w == Winner(d, found)
      <3> HIDE DEF w
      <3>1. SUFFICES ASSUME found \subseteq {w}
                     PROVE  FALSE
        BY DEF w
      <3>2. found = {w}
        BY <1>5, <3>1
      <3>3. Cardinality(found) = 1
        BY <3>2, FS_Singleton
      <3> QED
        BY <1>1, <3>3
    <2> QED
      BY <1>4, <1>5, <2>1 DEF UpdatesRow, e, found
  <1> QED
    BY <1>1, <1>7, <1>8, <1>9 DEF Edits

\* What an edit makes is new; the operations made before stay as they are.
LEMMA EditMakes ==
    ASSUME OpInv, NEW r \in Replica, NEW S \in Scopes(r), NEW o, NEW e, Edits(r, S, o, e),
           NEW i, i = NextId(r, S)
    PROVE  /\ i \in Nat \X Nat /\ i \notin DOMAIN made
           /\ DOMAIN made' = DOMAIN made \cup {i}
           /\ made'[i].o = o /\ made'[i].past = {i} \cup InView(doc[r], S)
           /\ \A j \in DOMAIN made : made'[j] = made[j]
           /\ \A s \in Replica : doc'[s] = IF s = r THEN e ELSE doc[s]
           /\ doc' = [s \in Replica |-> doc'[s]]
           /\ DOMAIN e.ops = Held(r) \cup {i}
           /\ e.ops[i] = o /\ \A j \in Held(r) : e.ops[j] = doc[r].ops[j]
  <1>1. i \in Nat \X Nat /\ i \notin DOMAIN made
    BY NextIdIsNew
  <1>2. /\ made' = With(made, i, [o |-> o, past |-> {i} \cup InView(doc[r], S)])
        /\ doc' = [doc EXCEPT ![r] = e]
        /\ e.ops = With(doc[r].ops, i, o)
    BY DEF Edits, DocAfter
  <1>3. DOMAIN doc = Replica /\ doc = [s \in Replica |-> doc[s]] /\ Held(r) \subseteq DOMAIN made
    BY DEF OpInv, DocOK
  <1>4. \A s \in Replica : doc'[s] = IF s = r THEN e ELSE doc[s]
    BY <1>2, <1>3
  <1>5. doc' = [s \in Replica |-> doc'[s]]
    BY <1>2, <1>3
  <1> QED
    BY <1>1, <1>2, <1>3, <1>4, <1>5 DEF With, Held

\* An edit adds an operation that is based on what its document holds.
LEMMA EditKeepsOps ==
    ASSUME OpInv, NEW r \in Replica, NEW S \in Scopes(r), NEW o, NEW e, Edits(r, S, o, e)
    PROVE  OpInv'
  <1> DEFINE i == NextId(r, S)
             V == InView(doc[r], S)
  <1>1. /\ i \in Nat \X Nat /\ i \notin DOMAIN made
        /\ DOMAIN made' = DOMAIN made \cup {i}
        /\ made'[i].o = o /\ made'[i].past = {i} \cup V
        /\ \A j \in DOMAIN made : made'[j] = made[j]
        /\ \A s \in Replica : doc'[s] = IF s = r THEN e ELSE doc[s]
        /\ doc' = [s \in Replica |-> doc'[s]]
        /\ DOMAIN e.ops = Held(r) \cup {i}
        /\ e.ops[i] = o /\ \A j \in Held(r) : e.ops[j] = doc[r].ops[j]
    BY EditMakes
  <1>2. (\A j \in Held(r) : j[1] < i[1]) /\ i[2] \in {Own[r][1], Own[r][2]}
    BY NextIdIsNew
  <1>3. V \subseteq Held(r) /\ \A j \in V : made[j].past \subseteq V
    BY ScopeIsClosed
  <1>4. BasedOn(r, S, o) /\ DocAfter(doc[r], i, o, e) /\ object' = object
    BY DEF Edits
  <1>5. /\ IdsOK
        /\ \A j \in DOMAIN made : PastOK(j) /\ RefersBack(j)
        /\ \A s \in Replica : DocOK(s)
        /\ object \in {"map", "list"}
    BY DEF OpInv
  <1>6. V \subseteq DOMAIN made /\ Held(r) \subseteq DOMAIN made /\ i \notin V
    BY <1>1, <1>3, <1>5 DEF DocOK
  <1> HIDE DEF i, V
  <1>7. IdsOK'
    <2>1. IsFiniteSet(DOMAIN made \cup {i})
      BY <1>5, FS_AddElement DEF IdsOK
    <2> QED
      BY <1>1, <1>5, <2>1 DEF IdsOK
  <1>8. ASSUME NEW j \in DOMAIN made'
        PROVE  PastOK(j)'
    <2>1. CASE j = i
      <3>1. \A h \in V : made'[h].past \subseteq {i} \cup V
        BY <1>1, <1>3, <1>6
      <3> QED
        BY <1>1, <1>2, <1>3, <1>6, <2>1, <3>1 DEF PastOK
    <2>2. CASE j \in DOMAIN made
      <3>1. PastOK(j) /\ made'[j] = made[j]
        BY <1>1, <1>5, <2>2
      <3>2. \A h \in made[j].past : made'[h] = made[h]
        BY <1>1, <3>1 DEF PastOK
      <3> QED
        BY <1>1, <3>1, <3>2 DEF PastOK
    <2> QED
      BY <1>1, <2>1, <2>2
  <1>9. ASSUME NEW j \in DOMAIN made'
        PROVE  RefersBack(j)'
    <2>1. CASE j = i
      <3>1. made'[j].past \ {j} = V
        BY <1>1, <1>6, <2>1
      <3>2. \A h \in V : made'[h] = made[h]
        BY <1>1, <1>6
      <3> QED
        BY <1>1, <1>4, <2>1, <3>1, <3>2 DEF RefersBack, Earlier, BasedOn, V
    <2>2. CASE j \in DOMAIN made
      <3>1. PastOK(j) /\ RefersBack(j) /\ made'[j] = made[j]
        BY <1>1, <1>5, <2>2
      <3>2. \A h \in made[j].past : made'[h] = made[h]
        BY <1>1, <3>1 DEF PastOK
      <3> QED
        BY <1>4, <3>1, <3>2 DEF RefersBack, Earlier
    <2> QED
      BY <1>1, <2>1, <2>2
  <1>10. ASSUME NEW s \in Replica
         PROVE  DocOK(s)'
    <2>1. CASE s = r
      <3>1. DocOK(r)
        BY <1>5
      <3>2. doc'[s] = e /\ Held(s)' = Held(r) \cup {i}
        BY <1>1, <2>1 DEF Held
      <3>3. e.ops = [j \in Held(r) \cup {i} |-> made'[j].o]
        <4>1. e.ops = With(doc[r].ops, i, o)
          BY <1>4 DEF DocAfter
        <4>2. \A j \in Held(r) \cup {i} : e.ops[j] = made'[j].o
          BY <1>1, <1>6, <3>1 DEF DocOK
        <4> QED
          BY <1>1, <4>1, <4>2 DEF With
      <3>4. \A j \in Held(r) \cup {i} : made'[j].past \subseteq Held(r) \cup {i}
        BY <1>1, <1>3, <1>6, <3>1 DEF DocOK
      <3>5. e.vis \subseteq Held(r) \cup {i} /\ DOMAIN e = Fields
        BY <1>4, <3>1 DEF DocAfter, DocOK
      <3>6. \A j \in DOMAIN made' : j[2] \in {Own[r][1], Own[r][2]} => j \in Held(r) \cup {i}
        BY <1>1, <3>1 DEF DocOK
      <3> QED
        BY <1>1, <1>6, <2>1, <3>2, <3>3, <3>4, <3>5, <3>6 DEF DocOK
    <2>2. CASE s # r
      <3>1. DocOK(s) /\ doc'[s] = doc[s] /\ Held(s)' = Held(s)
        BY <1>1, <1>5, <2>2 DEF Held
      <3>2. i[2] \notin {Own[s][1], Own[s][2]}
        BY <1>2, <2>2, OpSetAssumption
      <3>3. \A j \in Held(s) : made'[j] = made[j]
        BY <1>1, <3>1 DEF DocOK
      <3>4. doc[s].ops = [j \in Held(s) |-> made'[j].o]
        BY <3>1, <3>3 DEF DocOK
      <3> QED
        BY <1>1, <3>1, <3>2, <3>3, <3>4 DEF DocOK
    <2> QED
      BY <2>1, <2>2
  <1> QED
    BY <1>1, <1>4, <1>5, <1>7, <1>8, <1>9, <1>10 DEF OpInv

\* One more operation: what it overwrites has it as successor and is hidden by
\* it unless it increments.
LEMMA EditIndexes ==
    ASSUME IndexInv, ~MixedIncrements, NEW r \in Replica, NEW S \in Scopes(r), NEW o, NEW e,
           Edits(r, S, o, e)
    PROVE  IndexInv'
  <1> DEFINE i == NextId(r, S)
             V == InView(doc[r], S)
             H == Held(r)
  <1>1. OpInv /\ OpInv'
    BY EditKeepsOps DEF IndexInv
  <1>2. /\ i \notin DOMAIN made
        /\ DOMAIN made' = DOMAIN made \cup {i}
        /\ made'[i].o = o
        /\ \A j \in DOMAIN made : made'[j] = made[j]
        /\ \A s \in Replica : doc'[s] = IF s = r THEN e ELSE doc[s]
        /\ DOMAIN e.ops = H \cup {i}
    BY <1>1, EditMakes
  <1>3. /\ \A s \in Replica : DocOK(s) /\ IndexOK(s)
        /\ \A j \in DOMAIN made : PastOK(j) /\ RefersBack(j) /\ IncrementsCounters(j)
    BY DEF OpInv, IndexInv
  <1>4. \A s \in Replica : Held(s) \subseteq DOMAIN made
    BY <1>3 DEF DocOK
  <1>5. BasedOn(r, S, o) /\ DocAfter(doc[r], i, o, e) /\ V \subseteq H
    BY <1>1, ScopeIsClosed DEF Edits
  <1>6. \A j \in DOMAIN made : i \notin made[j].o.pred /\ made[j].o.pred \subseteq DOMAIN made
    BY <1>2, <1>3 DEF RefersBack, Earlier, PastOK
  <1>7. /\ o.pred \subseteq H /\ i \notin o.pred /\ H \subseteq DOMAIN made /\ i \notin H
        /\ o.type = "inc" => \A p \in o.pred : made[p].o.type = "counter"
    BY <1>2, <1>4, <1>5 DEF BasedOn
  <1>8. \A p \in o.pred : Counts(doc[r], o, p) <=> o.type = "inc"
    <2>1. \A p \in H : doc[r].ops[p] = made[p].o
      BY <1>3 DEF DocOK
    <2> HIDE DEF H
    <2> QED
      BY <1>7, <2>1 DEF Counts
  <1> HIDE DEF i, V
  <1>9. ASSUME NEW j \in DOMAIN made'
        PROVE  IncrementsCounters(j)'
    <2>1. CASE j = i
      BY <1>2, <1>7, <2>1 DEF IncrementsCounters
    <2>2. CASE j \in DOMAIN made
      <3>1. \A p \in made[j].o.pred : made'[p] = made[p]
        BY <1>2, <1>6, <2>2
      <3> QED
        BY <1>2, <1>3, <2>2, <3>1 DEF IncrementsCounters
    <2> QED
      BY <1>2, <2>1, <2>2
  <1>10. ASSUME NEW s \in Replica
         PROVE  IndexOK(s)'
    <2>1. CASE s # r
      <3>1. doc'[s] = doc[s] /\ Held(s)' = Held(s) /\ IndexOK(s) /\ Held(s) \subseteq DOMAIN made
        BY <1>2, <1>3, <1>4, <2>1 DEF Held
      <3>2. \A j \in Held(s) : made'[j] = made[j]
        BY <1>2, <3>1
      <3>3. SuccOf(Held(s))' = SuccOf(Held(s))
        BY <3>1, <3>2 DEF SuccOf
      <3>4. VisOf(Held(s))' = VisOf(Held(s))
        BY <3>1, <3>2 DEF VisOf
      <3> QED
        BY <3>1, <3>3, <3>4 DEF IndexOK
    <2>2. CASE s = r
      <3>1. doc'[s] = e /\ Held(s)' = H \cup {i} /\ IndexOK(r)
        BY <1>2, <1>3, <2>2 DEF Held
      <3>2. \A j \in H : made'[j] = made[j]
        BY <1>2, <1>7
      <3>3. SuccOf(Held(s))' = SuccOf(H) \cup {[of |-> p, by |-> i, inc |-> o.type = "inc"] : p \in o.pred}
        BY <1>2, <3>1, <3>2 DEF SuccOf
      <3>4. e.succ = SuccOf(Held(s))'
        <4>1. {[of |-> p, by |-> i, inc |-> Counts(doc[r], o, p)] : p \in o.pred}
                  = {[of |-> p, by |-> i, inc |-> o.type = "inc"] : p \in o.pred}
          BY <1>8 DEF Counts
        <4>2. e.succ = SuccOf(H) \cup {[of |-> p, by |-> i, inc |-> Counts(doc[r], o, p)] : p \in o.pred}
          BY <1>5, <3>1 DEF DocAfter, IndexOK
        <4> HIDE DEF H
        <4> QED
          BY <3>3, <4>1, <4>2
      <3>5. VisOf(Held(s))' = (VisOf(H) \cup (IF o.type \in {"inc", "del"} THEN {} ELSE {i}))
                                  \ {p \in o.pred : o.type # "inc"}
        BY <1>2, <1>6, <1>7, <3>1, <3>2 DEF VisOf
      <3>6. e.vis = VisOf(Held(s))'
        BY <1>5, <1>8, <3>1, <3>5 DEF DocAfter, IndexOK
      <3> QED
        BY <3>1, <3>4, <3>6 DEF IndexOK
    <2> QED
      BY <2>1, <2>2
  <1> QED
    BY <1>1, <1>9, <1>10 DEF IndexInv

-----------------------------------------------------------------------------
(* Batches *)

\* A batch adds its operations and leaves the others as they are.
LEMMA DeliverAdds ==
    ASSUME OpInv, NEW r \in Replica, NEW B \in SUBSET (DOMAIN made \ Held(r)), Deliver(r, B)
    PROVE  \E d :
               /\ DOMAIN d = Fields
               /\ d.ops = [j \in Held(r) \cup B |-> made[j].o]
               /\ d.succ = doc[r].succ /\ d.vis = doc[r].vis
               /\ d.order = doc[r].order /\ d.top = doc[r].top
               /\ \A b \in B : made[b].past \subseteq Held(r) \cup B
               /\ doc' = [doc EXCEPT ![r] = Batched(d, B)]
               /\ DOMAIN Batched(d, B) = Fields
               /\ Batched(d, B).ops = d.ops
               /\ Batched(d, B).succ = d.succ \cup SuccWith(d, B)
               /\ Batched(d, B).vis = (d.vis \ GoneWith(d, B)) \cup FreshOf(d, B)
               /\ Batched(d, B).order = RowsWith(d, B, ElementsWith(d, B))
               /\ Batched(d, B).top = TopWith(d, B, ElementsWith(d, B))
               /\ UNCHANGED <<object, made>>
  <1> DEFINE d == [doc[r] EXCEPT !.ops = [b \in B \cup DOMAIN @ |->
                                              IF b \in B THEN made[b].o ELSE @[b]]]
  <1>1. DocOK(r)
    BY DEF OpInv
  <1>2. DOMAIN d = Fields /\ d.succ = doc[r].succ /\ d.vis = doc[r].vis
        /\ d.order = doc[r].order /\ d.top = doc[r].top
    BY <1>1 DEF DocOK, Fields
  <1>3. d.ops = [b \in B \cup Held(r) |-> IF b \in B THEN made[b].o ELSE doc[r].ops[b]]
    BY <1>1 DEF DocOK, Fields, Held
  <1>4. d.ops = [j \in Held(r) \cup B |-> made[j].o]
    <2>1. \A j \in Held(r) : doc[r].ops[j] = made[j].o
      BY <1>1 DEF DocOK
    <2> HIDE DEF d
    <2> QED
      BY <1>3, <2>1
  <1>5. /\ \A b \in B : made[b].past \subseteq DOMAIN d.ops
        /\ doc' = [doc EXCEPT ![r] = Batched(d, B)]
        /\ UNCHANGED <<object, made>>
    BY DEF Deliver
  <1> HIDE DEF d
  <1>6. /\ DOMAIN Batched(d, B) = Fields
        /\ Batched(d, B).ops = d.ops
        /\ Batched(d, B).succ = d.succ \cup SuccWith(d, B)
        /\ Batched(d, B).vis = (d.vis \ GoneWith(d, B)) \cup FreshOf(d, B)
        /\ Batched(d, B).order = RowsWith(d, B, ElementsWith(d, B))
        /\ Batched(d, B).top = TopWith(d, B, ElementsWith(d, B))
    BY <1>2 DEF Batched, Fields
  <1> QED
    BY <1>2, <1>4, <1>5, <1>6

\* A batch brings operations together with all they are based on.
LEMMA DeliverKeepsOps ==
    ASSUME OpInv, NEW r \in Replica, NEW B \in SUBSET (DOMAIN made \ Held(r)), Deliver(r, B)
    PROVE  OpInv'
  <1>1. PICK d :
            /\ d.ops = [j \in Held(r) \cup B |-> made[j].o]
            /\ d.vis = doc[r].vis
            /\ \A b \in B : made[b].past \subseteq Held(r) \cup B
            /\ doc' = [doc EXCEPT ![r] = Batched(d, B)]
            /\ DOMAIN Batched(d, B) = Fields
            /\ Batched(d, B).ops = d.ops
            /\ Batched(d, B).vis = (d.vis \ GoneWith(d, B)) \cup FreshOf(d, B)
            /\ UNCHANGED <<object, made>>
    BY DeliverAdds
  <1>2. /\ object \in {"map", "list"} /\ IdsOK
        /\ \A j \in DOMAIN made : PastOK(j) /\ RefersBack(j)
        /\ doc = [s \in Replica |-> doc[s]]
        /\ \A s \in Replica : DocOK(s)
    BY DEF OpInv
  <1>3. /\ \A s \in Replica : doc'[s] = IF s = r THEN Batched(d, B) ELSE doc[s]
        /\ doc' = [s \in Replica |-> doc'[s]]
    BY <1>1, <1>2
  <1>4. object' \in {"map", "list"} /\ IdsOK'
    BY <1>1, <1>2 DEF IdsOK
  <1>5. \A j \in DOMAIN made' : PastOK(j)' /\ RefersBack(j)'
    BY <1>1, <1>2 DEF PastOK, RefersBack, Earlier
  <1>6. ASSUME NEW s \in Replica
        PROVE  DocOK(s)'
    <2>1. CASE s # r
      BY <1>1, <1>2, <1>3, <2>1 DEF DocOK, Held
    <2>2. CASE s = r
      <3>1. doc'[s] = Batched(d, B) /\ Held(s)' = Held(r) \cup B
        BY <1>1, <1>3, <2>2 DEF Held
      <3>2. FreshOf(d, B) \subseteq B
        BY DEF FreshOf
      <3> QED
        BY <1>1, <1>2, <2>2, <3>1, <3>2 DEF DocOK
    <2> QED
      BY <2>1, <2>2
  <1> QED
    BY <1>3, <1>4, <1>5, <1>6 DEF OpInv

\* Many operations at once: what they hide and what they show is what one after
\* the other would.
LEMMA DeliverIndexes ==
    ASSUME IndexInv, NEW r \in Replica, NEW B \in SUBSET (DOMAIN made \ Held(r)), Deliver(r, B)
    PROVE  IndexInv'
  <1> DEFINE H == Held(r)
  <1>1. OpInv /\ OpInv'
    BY DeliverKeepsOps DEF IndexInv
  <1>2. PICK d :
            /\ d.ops = [j \in H \cup B |-> made[j].o]
            /\ d.succ = doc[r].succ /\ d.vis = doc[r].vis
            /\ \A b \in B : made[b].past \subseteq H \cup B
            /\ doc' = [doc EXCEPT ![r] = Batched(d, B)]
            /\ Batched(d, B).ops = d.ops
            /\ Batched(d, B).succ = d.succ \cup SuccWith(d, B)
            /\ Batched(d, B).vis = (d.vis \ GoneWith(d, B)) \cup FreshOf(d, B)
            /\ UNCHANGED <<object, made>>
    BY <1>1, DeliverAdds
  <1>3. /\ \A s \in Replica : DocOK(s) /\ IndexOK(s)
        /\ \A j \in DOMAIN made : PastOK(j) /\ RefersBack(j) /\ IncrementsCounters(j)
        /\ doc = [s \in Replica |-> doc[s]]
    BY DEF OpInv, IndexInv
  <1>4. \A s \in Replica : doc'[s] = IF s = r THEN Batched(d, B) ELSE doc[s]
    BY <1>2, <1>3
  <1>5. H \subseteq DOMAIN made /\ \A h \in H : made[h].past \subseteq H
    BY <1>3 DEF DocOK
  <1>6. /\ \A b \in B : made[b].o.pred \subseteq H \cup B
        /\ \A h \in H : made[h].o.pred \subseteq H
    BY <1>2, <1>3, <1>5 DEF RefersBack, Earlier
  <1>7. \A b \in B : made[b].o.type = "inc" => \A p \in made[b].o.pred : made[p].o.type = "counter"
    BY <1>3 DEF IncrementsCounters
  <1>8. \A j \in H \cup B : d.ops[j] = made[j].o
    BY <1>2
  <1> HIDE DEF H
  <1>9. SuccWith(d, B) = SuccOf(B)
    <2>1. ASSUME NEW b \in B, NEW p \in made[b].o.pred
          PROVE  (IsInc(d, b) /\ (p \in B \/ IsCounter(d, p))) <=> made[b].o.type = "inc"
      BY <1>6, <1>7, <1>8 DEF IsInc, IsCounter
    <2>2. \A b \in B : d.ops[b].pred = made[b].o.pred
      BY <1>8
    <2> QED
      BY <2>1, <2>2 DEF SuccWith, SuccOf
  <1>10. GoneWith(d, B) = {p \in H : \E b \in B : p \in made[b].o.pred /\ made[b].o.type # "inc"}
    <2>1. GoneWith(d, B) = {t.of : t \in {u \in SuccOf(B) : u.of \notin B /\ ~u.inc}}
      BY <1>9 DEF GoneWith
    <2>2. ASSUME NEW t \in SuccOf(B), t.of \notin B, ~t.inc
          PROVE  t.of \in H /\ \E b \in B : t.of \in made[b].o.pred /\ made[b].o.type # "inc"
      BY <1>6, <2>2, SuccessorsAre
    <2>3. ASSUME NEW p \in H, NEW b \in B, p \in made[b].o.pred, made[b].o.type # "inc"
          PROVE  \E t \in SuccOf(B) : t.of \notin B /\ ~t.inc /\ t.of = p
      <3>1. PICK t \in SuccOf(B) : t.of = p /\ t.by = b
        BY <2>3, SuccessorsAre
      <3>2. p \notin B
        BY DEF H
      <3>3. ~t.inc
        BY <2>3, <3>1, SuccessorsAre
      <3> QED
        BY <3>1, <3>2, <3>3
    <2> QED
      BY <2>1, <2>2, <2>3
  <1>11. FreshOf(d, B) = VisOf(B)
    BY <1>8 DEF FreshOf, IsVisibleChange, HasRow, IsInc, IsDeletedBy, VisOf
  <1>12. VisOf(H \cup B) = (VisOf(H) \ GoneWith(d, B)) \cup VisOf(B)
    <2>1. H \cap B = {}
      BY DEF H
    <2>2. \A j \in H : j \in VisOf(H \cup B) <=> j \in VisOf(H) /\ j \notin GoneWith(d, B)
      BY <1>10 DEF VisOf
    <2>3. \A j \in B : j \in VisOf(H \cup B) <=> j \in VisOf(B)
      BY <1>6, <2>1 DEF VisOf
    <2>4. VisOf(H \cup B) \subseteq H \cup B /\ VisOf(H) \subseteq H /\ VisOf(B) \subseteq B
      BY DEF VisOf
    <2>5. GoneWith(d, B) \subseteq H
      BY <1>10
    <2> QED
      BY <2>1, <2>2, <2>3, <2>4, <2>5
  <1>13. SuccOf(H \cup B) = SuccOf(H) \cup SuccOf(B)
    BY DEF SuccOf
  <1>14. ASSUME NEW s \in Replica
         PROVE  IndexOK(s)'
    <2>2. CASE s # r
      BY <1>2, <1>3, <1>4, <2>2 DEF IndexOK, Held, SuccOf, VisOf
    <2>3. CASE s = r
      <3>1. doc'[s] = Batched(d, B) /\ Held(s)' = H \cup B /\ IndexOK(r)
        BY <1>2, <1>3, <1>4, <2>3 DEF Held
      <3>2. doc'[s].succ = SuccOf(H \cup B) /\ doc'[s].vis = VisOf(H \cup B)
        BY <1>2, <1>9, <1>11, <1>12, <1>13, <3>1 DEF IndexOK, H
      <3>3. SuccOf(Held(s))' = SuccOf(H \cup B) /\ VisOf(Held(s))' = VisOf(H \cup B)
        BY <1>2, <3>1 DEF SuccOf, VisOf
      <3> QED
        BY <3>2, <3>3 DEF IndexOK
    <2> QED
      BY <2>2, <2>3
  <1>15. \A j \in DOMAIN made' : IncrementsCounters(j)'
    BY <1>2, <1>3 DEF IncrementsCounters
  <1> QED
    BY <1>1, <1>14, <1>15 DEF IndexInv

-----------------------------------------------------------------------------
(* Theorems *)

\* The documents that replicas start with.
LEMMA InitIndexes == Init => IndexInv
  <1> SUFFICES ASSUME Init
               PROVE  IndexInv
    OBVIOUS
  <1>1. object \in {"map", "list"} /\ DOMAIN EmptyDoc = Fields
    BY OpSetAssumption DEF Init, EmptyDoc, Fields
  <1>2. CASE object = "map"
    <2>1. made = <<>> /\ doc = [r \in Replica |-> EmptyDoc] /\ DOMAIN made = {}
      BY <1>2 DEF Init
    <2>2. \A r \in Replica : doc[r] = EmptyDoc /\ Held(r) = {} /\ EmptyDoc.ops = <<>>
              /\ EmptyDoc.vis = {} /\ EmptyDoc.succ = {}
      BY <2>1 DEF EmptyDoc, Held
    <2>3. SuccOf({}) = {} /\ VisOf({}) = {}
      BY DEF SuccOf, VisOf
    <2>4. doc = [r \in Replica |-> doc[r]]
      BY <2>1
    <2>5. IdsOK
      BY <2>1, FS_EmptySet DEF IdsOK
    <2>6. <<>> = [i \in {} |-> made[i].o]
      OBVIOUS
    <2>7. \A r \in Replica : DocOK(r)
      BY <1>1, <2>1, <2>2, <2>6 DEF DocOK
    <2>8. \A r \in Replica : IndexOK(r)
      BY <2>2, <2>3 DEF IndexOK
    <2> QED
      BY <1>1, <2>1, <2>4, <2>5, <2>7, <2>8 DEF IndexInv, OpInv
  <1>3. CASE object = "list"
    <2> DEFINE i == <<1, Own[CHOOSE r \in Replica : TRUE][1]>>
    <2>1. PICK type \in {"set", "counter"} :
              /\ made = With(<<>>, i, [o |-> FirstDoc(i, type, 0).ops[i], past |-> {i}])
              /\ doc = [s \in Replica |-> FirstDoc(i, type, 0)]
      BY <1>3 DEF Init
    <2> DEFINE o == Op(type, 0, TRUE, Head0, {})
               d == FirstDoc(i, type, 0)
    <2>2. i \in Nat \X Nat
      <3>1. (CHOOSE r \in Replica : TRUE) \in Replica
        BY OpSetAssumption
      <3> HIDE DEF i
      <3>2. \A r \in Replica : Own[r][1] \in Nat
        BY OpSetAssumption
      <3> QED
        BY <3>1, <3>2 DEF i
    <2> HIDE DEF i
    <2>3. o.type = type /\ o.insert /\ o.pred = {} /\ o.ref = Head0
      BY DEF Op
    <2>4. DOMAIN EmptyDoc = Fields /\ EmptyDoc.ops = <<>> /\ EmptyDoc.succ = {} /\ EmptyDoc.vis = {}
      BY <1>1 DEF EmptyDoc
    <2>5. DOMAIN d = Fields /\ d.ops = With(<<>>, i, o) /\ d.succ = {} /\ d.vis = {i}
      <3> HIDE DEF o
      <3>1. d = WithRow(EmptyDoc, i, o, 0)
        BY DEF FirstDoc, o
      <3>2. o.type \notin {"inc", "del"}
        BY <2>3
      <3> HIDE DEF d
      <3> QED
        BY <2>4, <3>1, <3>2 DEF WithRow, Fields
    <2> HIDE DEF o, d
    <2>6. DOMAIN d.ops = {i} /\ d.ops[i] = o
      BY <2>5 DEF With
    <2>7. DOMAIN made = {i} /\ made[i].o = o /\ made[i].past = {i}
      BY <2>1, <2>6 DEF With, d
    <2>8. d.ops = [j \in {i} |-> made[j].o]
      BY <2>5, <2>6, <2>7 DEF With
    <2>9. \A r \in Replica : doc[r] = d /\ Held(r) = {i}
      BY <2>1, <2>6 DEF Held, d
    <2>10. IdsOK
      BY <2>2, <2>7, FS_Singleton DEF IdsOK
    <2>11. PastOK(i) /\ RefersBack(i) /\ IncrementsCounters(i)
      BY <1>3, <2>3, <2>7 DEF PastOK, RefersBack, IncrementsCounters
    <2>12. \A r \in Replica : DocOK(r)
      BY <2>5, <2>7, <2>8, <2>9 DEF DocOK
    <2>13. SuccOf({i}) = {} /\ VisOf({i}) = {i}
      BY <2>3, <2>7 DEF SuccOf, VisOf
    <2>14. \A r \in Replica : IndexOK(r)
      BY <2>5, <2>9, <2>13 DEF IndexOK
    <2>15. doc = [r \in Replica |-> doc[r]]
      BY <2>1
    <2> QED
      BY <1>1, <2>7, <2>10, <2>11, <2>12, <2>14, <2>15 DEF IndexInv, OpInv
  <1> QED
    BY <1>1, <1>2, <1>3

\* A step edits in a scope or delivers a batch.
LEMMA StepIs ==
    ASSUME OpInv, [Next]_vars
    PROVE  \/ \E r \in Replica : \E S \in Scopes(r) : \E o, e :
                  /\ Edits(r, S, o, e)
                  /\ InsertsRow(r, S, o, e) \/ UpdatesRow(r, S, o, e)
                  /\ Cardinality(DOMAIN made) < MaxOps
           \/ \E r \in Replica : \E B \in SUBSET (DOMAIN made \ Held(r)) : Deliver(r, B)
           \/ UNCHANGED vars
  <1>1. ASSUME NEW r \in Replica, Edit(r)
        PROVE  \E S \in Scopes(r) : \E o, e :
                  /\ Edits(r, S, o, e)
                  /\ InsertsRow(r, S, o, e) \/ UpdatesRow(r, S, o, e)
                  /\ Cardinality(DOMAIN made) < MaxOps
    <2>2. Cardinality(DOMAIN made) < MaxOps
      BY <1>1 DEF Edit
    <2>1. PICK S \in Scopes(r) : \E k \in 0 .. Len(Found(doc[r], S)) + 1 :
              \/ \E t \in Inserted : \E v \in Values(t) : Insert(r, S, k, t, v)
              \/ \E t \in {"set", "counter", "inc", "del"} :
                     \E v \in Values(t) : Update(r, S, k, t, v)
              \/ ResolveConflict(r, S, k)
      BY <1>1 DEF Edit
    <2> QED
      BY <2>1, <2>2, InsertEdits, UpdateEdits, ResolveEdits
  <1> QED
    BY <1>1 DEF Next, Held

\* A step that changes nothing keeps everything.
LEMMA StutterKeeps ==
    ASSUME UNCHANGED vars
    PROVE  /\ OpInv => OpInv'
           /\ IndexInv => IndexInv'
           /\ IdsAreNew
  BY DEF vars, OpInv, IdsOK, PastOK, RefersBack, Earlier, DocOK, Held, IdsAreNew,
         IndexInv, IncrementsCounters, IndexOK, SuccOf, VisOf

\* The index of what is visible is what the successors say.
LEMMA IndexSaysVisible ==
    ASSUME IndexInv
    PROVE  IndexIsScope
  <1>1. ASSUME NEW r \in Replica
        PROVE  doc[r].vis = {i \in Held(r) : HasRow(doc[r], i) /\ IsVisibleAt(doc[r], i, Held(r))}
    <2> DEFINE H == Held(r)
               d == doc[r]
    <2>1. DocOK(r) /\ IndexOK(r) /\ H \subseteq DOMAIN made
      BY DEF IndexInv, OpInv, DocOK
    <2>2. \A i \in H : d.ops[i] = made[i].o
      BY <2>1 DEF DocOK
    <2>3. \A b \in H : IncrementsCounters(b) /\ made[b].o.pred \subseteq H
      BY <2>1 DEF IndexInv, OpInv, RefersBack, Earlier, DocOK
    <2> HIDE DEF H
    <2>4. ASSUME NEW i \in H, HasRow(d, i), ~IsInc(d, i)
          PROVE  IsVisibleAt(d, i, H)
                     <=> \A b \in H : i \in made[b].o.pred => made[b].o.type = "inc"
      <3>1. ASSUME NEW s \in SuccOf(H)
            PROVE  /\ s.by \in H /\ s.of \in made[s.by].o.pred
                   /\ s.inc <=> made[s.by].o.type = "inc"
        BY SuccessorsAre
      <3>2. ASSUME NEW b \in H, NEW p \in made[b].o.pred
            PROVE  \E s \in SuccOf(H) : s.of = p /\ s.by = b
        BY SuccessorsAre
      <3>3. d.succ = SuccOf(H)
        BY <2>1 DEF IndexOK, H
      <3>4. \A b \in H : i \in made[b].o.pred /\ made[b].o.type = "inc" => IsCounter(d, i)
        BY <2>2, <2>3 DEF IncrementsCounters, IsCounter
      <3>5. IsVisibleAt(d, i, H)
                <=> \A s \in SuccOf(H) : s.of = i => IsCounter(d, i) /\ s.inc
        BY <2>4, <3>1, <3>3 DEF IsVisibleAt, Succ
      <3> QED
        BY <3>1, <3>2, <3>4, <3>5
    <2>5. d.vis = VisOf(H)
      BY <2>1 DEF IndexOK, H
    <2>6. \A i \in H : (HasRow(d, i) /\ ~IsInc(d, i)) <=> made[i].o.type \notin {"inc", "del"}
      BY <2>2 DEF HasRow, IsInc
    <2>7. \A i \in H : IsVisibleAt(d, i, H) => ~IsInc(d, i)
      BY DEF IsVisibleAt
    <2> QED
      BY <2>4, <2>5, <2>6, <2>7 DEF VisOf, H
  <1> QED
    BY <1>1 DEF IndexIsScope

\* Every operation is based on a closed set of earlier operations, which has all
\* that it overwrites and the element it refers to; every document has its
\* operations as they were made, with all they are based on.
THEOREM OperationsInvariant == Spec => []OpInv
  <1>1. Init => OpInv
    BY InitIndexes DEF IndexInv
  <1>2. OpInv /\ [Next]_vars => OpInv'
    BY StepIs, EditKeepsOps, DeliverKeepsOps, StutterKeeps
  <1> QED
    BY <1>1, <1>2, PTL DEF Spec

\* No identifier is given twice: what was made stays, whoever edits, in the
\* current state or isolated, and whatever arrived before.
THEOREM IdentifiersAreNew == Spec => [][IdsAreNew]_vars
  <1>1. OpInv /\ [Next]_vars => IdsAreNew
    <2> SUFFICES ASSUME OpInv, [Next]_vars
                 PROVE  IdsAreNew
      OBVIOUS
    <2>1. ASSUME NEW r \in Replica, NEW S \in Scopes(r), NEW o, NEW e, Edits(r, S, o, e)
          PROVE  IdsAreNew
      BY <2>1, EditMakes DEF IdsAreNew
    <2>2. ASSUME NEW r \in Replica, NEW B \in SUBSET (DOMAIN made \ Held(r)), Deliver(r, B)
          PROVE  IdsAreNew
      BY <2>2 DEF Deliver, IdsAreNew
    <2> QED
      BY <2>1, <2>2, StepIs, StutterKeeps
  <1> QED
    BY <1>1, OperationsInvariant, PTL DEF Spec

\* A document never lacks what one of its operations overwrites or the element
\* that it refers to, and both were counted before it: elements form a tree.
THEOREM ReferencesAreHeld == Spec => []RefersToHeld
  <1>1. ASSUME OpInv, NEW r \in Replica, NEW i \in Held(r)
        PROVE  RefersToEarlier(r, i)
    <2>1. i \in DOMAIN made /\ made[i].past \subseteq Held(r) /\ doc[r].ops[i] = made[i].o
      BY <1>1 DEF OpInv, DocOK
    <2>2. PastOK(i) /\ RefersBack(i) /\ \A j \in Held(r) : doc[r].ops[j] = made[j].o
      BY <1>1, <2>1 DEF OpInv, DocOK
    <2> QED
      BY <2>1, <2>2 DEF RefersToEarlier, RefersBack, Earlier, PastOK
  <1>2. OpInv => RefersToHeld
    BY <1>1 DEF RefersToHeld
  <1> QED
    BY <1>2, OperationsInvariant, PTL

\* Unless increments meet other values, the successors and the visible rows of
\* a document are what its operations say.
THEOREM IndexesAreExact == ~MixedIncrements => (Spec => []IndexInv)
  <1> SUFFICES ASSUME ~MixedIncrements
               PROVE  Spec => []IndexInv
    OBVIOUS
  <1>1. IndexInv /\ [Next]_vars => IndexInv'
    BY StepIs, EditIndexes, DeliverIndexes, StutterKeeps DEF IndexInv
  <1> QED
    BY <1>1, InitIndexes, PTL DEF Spec

\* Then replicas that have the same operations agree in them, in all successors
\* and in what is visible, however the operations came.
THEOREM IndexesConverge == ~MixedIncrements => (Spec => []SameIndexes)
  <1>1. ASSUME IndexInv, NEW r \in Replica, NEW s \in Replica, Held(r) = Held(s)
        PROVE  doc[r].ops = doc[s].ops /\ doc[r].succ = doc[s].succ /\ doc[r].vis = doc[s].vis
    <2>1. /\ doc[r].ops = [i \in Held(r) |-> made[i].o]
          /\ doc[s].ops = [i \in Held(s) |-> made[i].o]
          /\ IndexOK(r) /\ IndexOK(s)
      BY <1>1 DEF IndexInv, OpInv, DocOK
    <2> QED
      BY <1>1, <2>1 DEF IndexOK
  <1>2. IndexInv => SameIndexes
    BY <1>1 DEF SameIndexes, Held
  <1> QED
    BY <1>2, IndexesAreExact, PTL

\* And the index of visible rows, kept up with each edit and batch, is what a
\* reader who looks at every operation finds (Op::visible, scope_to_clock).
THEOREM IndexIsWhatIsVisible == ~MixedIncrements => (Spec => []IndexIsScope)
  BY IndexSaysVisible, IndexesAreExact, PTL

=============================================================================
