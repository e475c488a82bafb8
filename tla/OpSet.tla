------------------------------- MODULE OpSet -------------------------------
(***************************************************************************)
(* The operations of one object: a map with one key, or a list.  Replicas  *)
(* edit it (transaction/inner.rs), also isolated at an older state, and    *)
(* apply the changes of the others in batches (op_set2/change/batch.rs).   *)
(*                                                                         *)
(* The rows of an object are ordered by element and, within an element, by *)
(* identifier; the row of the insert comes first.  All rows of a map's key *)
(* or of a list's element make up its register.  Deletes have no row: they *)
(* leave their identifier with the rows they delete, as successor.  Two    *)
(* indexes are kept up with each edit: the rows that are visible and, for  *)
(* each register, the visible row that wins.  The code finds a register by *)
(* the inserts around it or by rows with the same element next to each     *)
(* other, which differs once rows have come apart.                         *)
(*                                                                         *)
(* A change has one operation, so that an operation stands for its change. *)
(* All increments are by one, and a list starts with one element.          *)
(***************************************************************************)
EXTENDS Integers, Sequences, FiniteSets, SequencesExt, Functions

CONSTANTS
    Replica,
    Own,                \* the actor of a replica and what with_concurrency
                        \* makes of it
    Objects,            \* the types of objects: "map", "list"
    Scalar,             \* values that are not counters, numbers
    Inserted,           \* what is inserted: "set", "counter"
    MaxOps,             \* bound on the operations
    Isolation,          \* whether replicas also edit isolated
    MixedIncrements     \* whether increments also meet other values

ASSUME OpSetAssumption ==
    /\ Replica # {}
    /\ Objects \subseteq {"map", "list"}
    /\ Scalar \subseteq Nat
    /\ Inserted \subseteq {"set", "counter"}
    /\ MaxOps \in Nat
    /\ Isolation \in BOOLEAN
    /\ MixedIncrements \in BOOLEAN
    /\ \A r, s \in Replica, k, l \in {1, 2} :
           /\ Own[r][k] \in Nat \ {0}
           /\ Own[r][k] = Own[s][l] => r = s /\ k = l

VARIABLES
    object,     \* the type of the object
    made,       \* the operations of all changes, with what they are based on
    doc,        \* the documents
    shown       \* what an application shows that follows the patches

vars == <<object, made, doc, shown>>

-----------------------------------------------------------------------------
(* Operations *)

\* Operation identifiers are a counter and an actor.
Less(i, j) == i[1] < j[1] \/ (i[1] = j[1] /\ i[2] < j[2])

\* The reference of an insert at the front, and the key of the map.
Head0 == <<0, 0>>

Greatest(S) == CHOOSE i \in S : \A j \in S \ {i} : Less(j, i)

Ascending(S) ==
    [k \in 1 .. Cardinality(S) |-> CHOOSE i \in S : Cardinality({j \in S : Less(j, i)}) = k - 1]

\* The k-th of the numbers N.
Nth(N, k) == CHOOSE n \in N : Cardinality({m \in N : m <= n}) = k

\* What of the sequence s is in V, in its order.
Only(s, V) ==
    LET kept == {n \in DOMAIN s : s[n] \in V}
    IN  [k \in 1 .. Cardinality(kept) |-> s[Nth(kept, k)]]

\* elemid_or_key
Elem(d, i) == IF d.ops[i].insert THEN i ELSE d.ops[i].ref

IsCounter(d, i) == d.ops[i].type = "counter"
IsInc(d, i)     == d.ops[i].type = "inc"

\* Mutant of HasRow: deletes get rows.
HasRowAlike(d, i) == TRUE

HasRow(d, i) == d.ops[i].type # "del"

\* The successors of i among the operations S.
Succ(d, i, S) == {s \in d.succ : s.of = i /\ s.by \in S}

\* Op::visible and scope_to_clock: what deletes a counter is a successor that
\* is no increment, what deletes another value is any successor.
IsVisibleAt(d, i, S) ==
    /\ i \in S
    /\ ~IsInc(d, i)
    /\ \A s \in Succ(d, i, S) : IsCounter(d, i) /\ s.inc

\* The value of a row, counters with the increments among S.
ValueAt(d, i, S) ==
    IF IsCounter(d, i)
    THEN [counter |-> TRUE, n |-> Cardinality({s \in Succ(d, i, S) : s.inc})]
    ELSE [counter |-> FALSE, n |-> d.ops[i].value]

-----------------------------------------------------------------------------
(* Reading.  A scope is the operations an isolated transaction may see; an  *)
(* empty scope stands for none, where the indexes are used.                 *)

InView(d, S) == IF S = {} THEN DOMAIN d.ops ELSE S

\* The rows in groups, one from each of the places given.
Grouped(d, from) ==
    LET end(k) == IF k < Cardinality(from) THEN Nth(from, k + 1) - 1 ELSE Len(d.order)
    IN  [k \in 1 .. Cardinality(from) |-> SubSeq(d.order, Nth(from, k), end(k))]

\* The registers that the inserts delimit (list_register_at_pos).
Registers(d) ==
    Grouped(d, {n \in DOMAIN d.order : IF object = "list" THEN d.ops[d.order[n]].insert ELSE n = 1})

\* The rows of one element next to each other (OpsFoundIter).
Runs(d) ==
    Grouped(d, {n \in DOMAIN d.order : n = 1 \/ Elem(d, d.order[n]) # Elem(d, d.order[n - 1])})

\* The one of the groups G that has the row i.
Around(G, i) == CHOOSE g \in ToSet(G) : i \in ToSet(g)

\* What is visible, by the index or operation by operation.
Visible(d, S) == IF S = {} THEN d.vis ELSE {i \in S : IsVisibleAt(d, i, S)}

\* What is visible of the groups G, without those that show nothing.
Seen(d, S, G) ==
    LET V == Visible(d, S)
        shows == Only(G, {g \in ToSet(G) : ToSet(g) \cap V # {}})
    IN  [k \in DOMAIN shows |-> V \cap ToSet(shows[k])]

\* seek_ops_by_map_key and seek_ops_by_index: the visible rows of what has a
\* value, for lists found by the index of winners or one by one.
Found(d, S) ==
    IF object = "map" \/ S # {} THEN Seen(d, S, Runs(d))
    ELSE LET tops == Only(d.order, d.top)
             G == Registers(d)
         IN  [k \in DOMAIN tops |-> d.vis \cap ToSet(Around(G, tops[k]))]

\* What is found at the index k, if anything.
At(F, k) == IF k \in DOMAIN F THEN F[k] ELSE {}

\* Of the rows found the last one wins; they are about the same element.
Winner(d, rows) == d.order[Max({n \in DOMAIN d.order : d.order[n] \in rows})]
ElemOf(d, rows) == Elem(d, CHOOSE i \in rows : TRUE)

\* All rows of what has the index k, visible or not.
RangeAt(d, S, k) ==
    IF object = "map" THEN d.order
    ELSE Around(IF S = {} THEN Registers(d) ELSE Runs(d), Winner(d, Found(d, S)[k]))

\* The values in view.
ValuesOf(d, S, F) == [k \in DOMAIN F |-> ValueAt(d, Winner(d, F[k]), InView(d, S))]
View(d, S) == ValuesOf(d, S, Found(d, S))

-----------------------------------------------------------------------------
(* Edits of a document d.  An operation o is a record of type, value, insert, *)
(* ref, pred and past; it gets the identifier i.                              *)

\* The function f with the value x for i.
With(f, i, x) == [j \in DOMAIN f \cup {i} |-> IF j = i THEN x ELSE f[j]]

\* Mutant of EndOf: the end of all rows.
EndOfAlike(d, rows) == Len(d.order)

\* The number of rows up to the last of the given ones.
EndOf(d, rows) == IF rows = <<>> THEN 0 ELSE CHOOSE n \in DOMAIN d.order : d.order[n] = Last(rows)

\* InsertQuery: what is inserted after e comes before the next insert or, if
\* there is none, after the last row that is no increment.
InsertPos(d, e) ==
    LET at == CHOOSE n \in DOMAIN d.order : d.order[n] = e
        later == {n \in DOMAIN d.order : n > at /\ d.ops[d.order[n]].insert}
    IN  IF later # {} THEN Min(later) - 1
        ELSE Max({n \in DOMAIN d.order : ~IsInc(d, d.order[n])})

\* splice: a row of its own, which is visible and wins unless it increments.
WithRow(d, i, o, pos) ==
    LET e == [d EXCEPT !.ops = With(@, i, o)]
    IN  CASE o.type = "del" -> e
          [] o.type = "inc" -> [e EXCEPT !.order = InsertAt(@, pos + 1, i)]
          [] OTHER -> [e EXCEPT !.order = InsertAt(@, pos + 1, i),
                                !.vis = @ \cup {i},
                                !.top = @ \cup {i}]

\* add_succ: an increment counts for a counter and deletes anything else.
WithSucc(d, i) ==
    LET counts(p) == IsInc(d, i) /\ IsCounter(d, p)
        hidden == {p \in d.ops[i].pred : ~counts(p)}
    IN  [d EXCEPT !.succ = @ \cup {[of |-> p, by |-> i, inc |-> counts(p)] : p \in d.ops[i].pred},
                  !.vis = @ \ hidden,
                  !.top = @ \ hidden]

\* reset_top: the last visible one of these rows wins.
TopReset(d, rows) ==
    LET seen == Only(rows, d.vis)
    IN  [d EXCEPT !.top = (@ \ ToSet(seen)) \cup (IF seen = <<>> THEN {} ELSE {Last(seen)})]

\* What follows in local_list_op: an increment may reveal a counter.
CounterExposed(d, i) ==
    LET pred == d.ops[i].pred
        counters == {p \in pred : IsCounter(d, p)}
    IN  IF object = "list" /\ IsInc(d, i) /\ Greatest(counters) # Greatest(pred)
        THEN [d EXCEPT !.top = @ \cup {Greatest(counters)}]
        ELSE d

\* insert_local_op
Updated(d, i, o, S, rows) ==
    LET e == WithSucc(WithRow(d, i, o, EndOf(d, rows)), i)
    IN  CounterExposed(IF S = {} THEN e ELSE TopReset(e, Append(rows, i)), i)

-----------------------------------------------------------------------------
(* Patches, as changes of the sequence of values an application shows *)

Shifted(v, n) == IF v.counter THEN [v EXCEPT !.n = @ + n] ELSE v

ShowPut(s, k, v) == IF object = "map" THEN <<v>> ELSE IF k \in DOMAIN s THEN [s EXCEPT ![k] = v] ELSE s
ShowInsert(s, k, v) == IF k \in 1 .. Len(s) + 1 THEN InsertAt(s, k, v) ELSE s
ShowDelete(s, k) == IF k \in DOMAIN s THEN RemoveAt(s, k) ELSE s
ShowIncrement(s, k, n) == IF k \in DOMAIN s THEN [s EXCEPT ![k] = Shifted(@, n)] ELSE s

-----------------------------------------------------------------------------
(* Local operations *)

\* The actor of a transaction with the scope S (isolate_actor).
ActorFor(r, S) ==
    IF S = {} \/ \A i \in DOMAIN doc[r].ops : i[2] = Own[r][1] => i \in S
    THEN Own[r][1] ELSE Own[r][2]

NextId(r, S) ==
    <<1 + Greatest({Head0} \cup DOMAIN doc[r].ops)[1], ActorFor(r, S)>>

\* Whether two actors are enough (isolate_actor would go on to a third).
ScopeIsUsable(r, S) == \A i \in DOMAIN doc[r].ops : i[2] = ActorFor(r, S) => i \in S

\* The states a replica may be isolated at, and none.
Scopes(r) ==
    {{}} \cup (IF Isolation
               THEN {S \in {made[i].past : i \in DOMAIN doc[r].ops} : ScopeIsUsable(r, S)}
               ELSE {})

Op(type, value, insert, ref, pred) ==
    [type |-> type, value |-> value, insert |-> insert, ref |-> ref, pred |-> pred]

\* The document d of the replica r after the operation i, shown as s by who
\* follows the patches.  Who is isolated is shown the difference on return.
Record(r, S, i, o, d, s) ==
    /\ made' = With(made, i, [o |-> o, past |-> {i} \cup InView(doc[r], S)])
    /\ doc' = [doc EXCEPT ![r] = d]
    /\ shown' = [shown EXCEPT ![r] = IF S = {} THEN s ELSE View(d, {})]
    /\ UNCHANGED object

\* do_insert: after the element before the index k.
Insert(r, S, k, type, value) ==
    LET d == doc[r]
        F == IF S = {} THEN Found(d, S) ELSE Seen(d, S, Registers(d))
        i == NextId(r, S)
        e == IF k = 0 THEN Head0 ELSE ElemOf(d, At(F, k))
        o == Op(type, value, TRUE, e, {})
    IN  /\ object = "list"
        /\ k = 0 \/ At(F, k) # {}
        /\ Record(r, S, i, o, WithRow(d, i, o, IF k = 0 THEN 0 ELSE InsertPos(d, e)),
                  ShowInsert(shown[r], k + 1, ValueAt(WithRow(d, i, o, 0), i, {i})))

\* What an operation on the rows found refers to.
RefAt(d, found) == IF object = "map" THEN Head0 ELSE ElemOf(d, found)

\* put, delete and increment of what the index k holds (local_op).  A key of a
\* map may be put without holding anything.
Update(r, S, k, type, value) ==
    LET d == doc[r]
        found == At(Found(d, S), k)
        i == NextId(r, S)
        o == Op(type, value, FALSE, RefAt(d, found), found)
        e == Updated(d, i, o, S, RangeAt(d, S, k))
        now == ValueAt(e, i, {i})
    IN  /\ found # {} \/ (object = "map" /\ k = 1 /\ type \in {"set", "counter"})
        /\ type = "inc" =>
               /\ \E p \in found : IsCounter(d, p)
               /\ MixedIncrements \/ \A p \in found : IsCounter(d, p)
        /\ type \in {"set", "counter"} /\ found # {} =>
               now # ValueAt(d, Winner(d, found), InView(d, S))
        /\ Record(r, S, i, o, e,
                  CASE type = "del" -> ShowDelete(shown[r], k)
                    [] type = "inc" -> ShowIncrement(shown[r], k, 1)
                    [] OTHER -> ShowPut(shown[r], k, now))

\* A put of the value that wins already deletes the others (resolve_action).
ResolveConflict(r, S, k) ==
    LET d == doc[r]
        found == At(Found(d, S), k)
        i == NextId(r, S)
        o == Op("del", 0, FALSE, RefAt(d, found), found \ {Winner(d, found)})
    IN  /\ Cardinality(found) > 1
        /\ Record(r, S, i, o, Updated(d, i, o, S, RangeAt(d, S, k)), shown[r])

-----------------------------------------------------------------------------
(* Batches: d holds the operations of a batch B already, rows and indexes do *)
(* not (import_ops).                                                         *)

\* The register of the element e, without rows if the element is new.
RegisterOf(d, e) ==
    LET G == {g \in ToSet(Registers(d)) : Elem(d, g[1]) = e}
    IN  IF G = {} THEN <<>> ELSE CHOOSE g \in G : TRUE

\* The operation i before the first row with a greater identifier.
Placed(rows, i) ==
    LET later == {n \in DOMAIN rows : Less(i, rows[n])}
    IN  InsertAt(rows, IF later = {} THEN Len(rows) + 1 ELSE Min(later), i)

\* The operations of the batch on the element e take their places among the
\* rows of its register by identifier.
OnElement(d, B, e) ==
    LET new == Ascending({i \in B : Elem(d, i) = e})
        placed[n \in 0 .. Len(new)] ==
            IF n = 0 THEN RegisterOf(d, e) ELSE Placed(placed[n - 1], new[n])
    IN  placed[Len(new)]

\* An operation of the batch deletes i (process_pred): increments never do.
IsDeletedBy(d, B, i) == \E b \in B : i \in d.ops[b].pred /\ ~IsInc(d, b)

\* Mutant of IsVisibleChange: a value overwritten in its batch stays.
IsVisibleChangeAlike(d, B, i) == HasRow(d, i) /\ ~IsInc(d, i)

\* ChangeOp::visible
IsVisibleChange(d, B, i) == HasRow(d, i) /\ ~IsInc(d, i) /\ ~IsDeletedBy(d, B, i)

\* Top: which row of a register wins, which is hidden by that.
TopStep(d, B, t, i) ==
    IF i \in B
    THEN IF ~IsVisibleChange(d, B, i) THEN t
         ELSE [t EXCEPT !.is = "change", !.at = i,
                        !.hide = IF t.is \in {"change", "doc"} THEN @ \cup {t.at} ELSE @]
    ELSE IF ~IsVisibleAt(d, i, DOMAIN d.ops \ B) THEN t
         ELSE IF IsDeletedBy(d, B, i) THEN [t EXCEPT !.is = IF @ = "doc" THEN "expose" ELSE @]
         ELSE [t EXCEPT !.is = "doc", !.at = i,
                        !.hide = IF t.is = "change" THEN @ \cup {t.at} ELSE @]

TopOf(d, B, e) ==
    LET rows == OnElement(d, B, e)
        top[n \in 0 .. Len(rows)] ==
            IF n = 0 THEN [is |-> "nothing", at |-> Head0, hide |-> {}]
            ELSE TopStep(d, B, top[n - 1], rows[n])
    IN  top[Len(rows)]

\* Mutant of Hidden: only rows of the batch give way.
HiddenAlike(d, B, elements) == UNION {TopOf(d, B, e).hide : e \in ToSet(elements)} \cap B

\* The rows that give way to a later one, and those that win again.
Hidden(d, B, elements) == UNION {TopOf(d, B, e).hide : e \in ToSet(elements)}
Exposed(d, B, elements) ==
    {TopOf(d, B, e).at : e \in {f \in ToSet(elements) : TopOf(d, B, f).is = "expose"}}

\* Mutant of InsertsAfter: the earliest on top.
InsertsAfterAlike(d, B, e) == Reverse(Ascending({i \in B : d.ops[i].insert /\ d.ops[i].ref = e}))

\* The inserts of the batch after the element e, the latest on top of the stack.
InsertsAfter(d, B, e) == Ascending({i \in B : d.ops[i].insert /\ d.ops[i].ref = e})

\* untangle_inner: the top of the stack becomes an element.
Unstacked(d, B, u) ==
    LET i == Last(u.stack)
    IN  [stack |-> Front(u.stack) \o InsertsAfter(d, B, i), elements |-> Append(u.elements, i)]

\* Take inserts from the stack until n are left.
UnstackedTo(d, B, u, n) ==
    LET after[k \in 0 .. Cardinality(B)] ==
            IF k = 0 THEN u
            ELSE LET v == after[k - 1]
                 IN  IF Len(v.stack) > n THEN Unstacked(d, B, v) ELSE v
    IN  after[Cardinality(B)]

\* untangle_inserts: the inserts later than the element e of the document come
\* before it, then it and what the batch inserts after it.
Untangled(d, B, u, e) ==
    LET v == UnstackedTo(d, B, u, Cardinality({k \in DOMAIN u.stack : Less(u.stack[k], e)}))
    IN  [stack |-> v.stack \o InsertsAfter(d, B, e), elements |-> Append(v.elements, e)]

\* The elements of a list after the batch (walk_list, finish_inserts).
ElementsWith(d, B) ==
    LET old == Only(d.order, {i \in DOMAIN d.ops : d.ops[i].insert})
        walked[n \in 0 .. Len(old)] ==
            IF n = 0 THEN [stack |-> InsertsAfter(d, B, Head0), elements |-> <<>>]
            ELSE Untangled(d, B, walked[n - 1], old[n])
    IN  IF object = "map" THEN <<Head0>> ELSE UnstackedTo(d, B, walked[Len(old)], 0).elements

\* The rows after the batch, element by element.
RowsWith(d, B, elements) ==
    FlattenSeq([k \in DOMAIN elements |->
                   Only(OnElement(d, B, elements[k]), {i \in DOMAIN d.ops : HasRow(d, i)})])

\* Successors in the batch count by what increments, those in the document as
\* add_succ says.
SuccWith(d, B) ==
    UNION {{[of |-> p, by |-> b, inc |-> IsInc(d, b) /\ (p \in B \/ IsCounter(d, p))] :
            p \in d.ops[b].pred} : b \in B}

\* What the batch deletes of the document.
GoneWith(d, B) == {s.of : s \in {t \in SuccWith(d, B) : t.of \notin B /\ ~t.inc}}

\* What the batch shows.
FreshOf(d, B) == {i \in B : IsVisibleChange(d, B, i)}

TopWith(d, B, elements) ==
    LET hidden == Hidden(d, B, elements)
    IN  (((d.top \ hidden) \cup Exposed(d, B, elements)) \ GoneWith(d, B))
            \cup (FreshOf(d, B) \ hidden)

\* apply: the rows in their order, the successors and both indexes.
Batched(d, B) ==
    LET elements == ElementsWith(d, B)
    IN  [d EXCEPT
            !.order = RowsWith(d, B, elements),
            !.succ = @ \cup SuccWith(d, B),
            !.vis = (@ \ GoneWith(d, B)) \cup FreshOf(d, B),
            !.top = TopWith(d, B, elements)]

-----------------------------------------------------------------------------
(* The patches of a batch *)

\* What is known of a register: the value of the document and of the batch.
NoValue == [known |-> FALSE]
Value(i, v, gone) == [known |-> TRUE, id |-> i, v |-> v, deleted |-> gone, expose |-> FALSE]

\* OpValueOption::set
ValueSet(x, i, v, gone) ==
    IF gone /\ x.known /\ ~x.deleted THEN [x EXCEPT !.expose = TRUE] ELSE Value(i, v, gone)

\* do_increment
ValueIncremented(d, x, i) ==
    LET pred == d.ops[i].pred
        c == IF x.change.known THEN x.change
             ELSE IF x.doc.known /\ x.doc.id \in pred /\ ~x.doc.deleted THEN x.doc ELSE NoValue
    IN  [x EXCEPT !.change = IF c.known /\ c.id \in pred THEN [c EXCEPT !.v = Shifted(@, 1)] ELSE c]

\* ValueState: process_doc_op and process_change_op.  Values come without the
\* increments they got.
ValueStep(d, B, x, i) ==
    IF i \in B
    THEN IF IsInc(d, i) THEN ValueIncremented(d, x, i)
         ELSE IF ~IsVisibleChange(d, B, i) THEN x
         ELSE [x EXCEPT !.change = ValueSet(@, i, ValueAt(d, i, {i}), FALSE)]
    ELSE IF ~IsVisibleAt(d, i, DOMAIN d.ops \ B) THEN x
         ELSE [x EXCEPT !.doc = ValueSet(@, i, ValueAt(d, i, {i}), IsDeletedBy(d, B, i))]

\* list_flush and map_process: what the register x at the index k shows.  A value
\* of the batch that lost only flags a conflict.
Flushed(x, k, s) ==
    IF ~x.change.known /\ ~x.doc.known THEN s
    ELSE IF ~x.doc.known
         THEN IF object = "map" THEN ShowPut(s, k, x.change.v) ELSE ShowInsert(s, k, x.change.v)
    ELSE IF ~x.change.known
         THEN IF x.doc.expose THEN ShowPut(s, k, x.doc.v)
              ELSE IF x.doc.deleted THEN ShowDelete(s, k) ELSE s
    ELSE IF x.change.id = x.doc.id
         THEN ShowIncrement(s, k, IF x.doc.v.counter THEN x.change.v.n - x.doc.v.n ELSE 0)
    ELSE IF Less(x.change.id, x.doc.id) THEN s ELSE ShowPut(s, k, x.change.v)

\* The rows of a register that the batch leaves visible.
Left(d, B, e) ==
    {i \in ToSet(OnElement(d, B, e)) :
        IF i \in B THEN IsVisibleChange(d, B, i)
        ELSE IsVisibleAt(d, i, DOMAIN d.ops \ B) /\ ~IsDeletedBy(d, B, i)}

\* Mutant of Width: an element without a value keeps its place.
WidthAlike(d, B, e) == 1

\* Whether an element of the document keeps its place.  After the last row of
\* a list only the last operation counts (finish_updates).
Width(d, B, e) ==
    LET all == OnElement(d, B, e)
        atEnd == object = "list" /\ Last(Registers(d))[1] = e /\ Last(all) \in B
        counting == IF atEnd THEN {Last(all)} ELSE ToSet(all)
    IN  IF Left(d, B, e) \cap counting # {} THEN 1 ELSE 0

\* What is shown after the patches of a batch, element by element.
Patched(d, B, t) ==
    LET Step(p, e) ==
            IF e \notin B
            THEN LET x == FoldLeft(LAMBDA y, i : ValueStep(d, B, y, i),
                                   [doc |-> NoValue, change |-> NoValue], OnElement(d, B, e))
                 IN  [at |-> p.at + Width(d, B, e), s |-> Flushed(x, p.at + 1, p.s)]
            ELSE IF Left(d, B, e) = {} THEN p
            ELSE [at |-> p.at + 1,
                  s |-> ShowInsert(p.s, p.at + 1, ValueAt(Batched(d, B), Greatest(Left(d, B, e)), DOMAIN d.ops))]
    IN  FoldLeft(Step, [at |-> 0, s |-> t], ElementsWith(d, B)).s

-----------------------------------------------------------------------------
(* The system *)

\* A replica gets changes of others, with all that they are based on.
Deliver(r, B) ==
    LET d == [doc[r] EXCEPT !.ops = [b \in B \cup DOMAIN @ |-> IF b \in B THEN made[b].o ELSE @[b]]]
    IN  /\ B # {}
        /\ \A b \in B : made[b].past \subseteq DOMAIN d.ops
        /\ doc' = [doc EXCEPT ![r] = Batched(d, B)]
        /\ shown' = [shown EXCEPT ![r] = Patched(d, B, @)]
        /\ UNCHANGED <<object, made>>

\* A load rebuilds the indexes from the rows (IndexBuilder) ...
Loaded(d) ==
    LET e == [d EXCEPT !.succ = {[s EXCEPT !.inc = IsInc(d, s.by) /\ IsCounter(d, s.of)] : s \in @}]
        vis == {i \in ToSet(d.order) : IsVisibleAt(e, i, DOMAIN d.ops)}
        shows == Seen(d, DOMAIN d.ops, Runs(d))
    IN  [e EXCEPT !.vis = vis, !.top = {Winner(d, shows[k]) : k \in DOMAIN shows}]

\* ... and the deletes from the successors that have no row among those of the
\* element (ChangeCollector).  Deletes are operations and their elements.
Rebuilt(d) ==
    {<<s.by, Elem(d, s.of)>> : s \in {t \in d.succ : t.by \notin ToSet(Around(Runs(d), t.of))}}

EmptyDoc == [ops |-> <<>>, order |-> <<>>, succ |-> {}, vis |-> {}, top |-> {}]

\* The list that all replicas start with.
FirstDoc(i, type, value) ==
    LET o == Op(type, value, TRUE, Head0, {}) IN WithRow(EmptyDoc, i, o, 0)

Init ==
    /\ object \in Objects
    /\ IF object = "map"
       THEN made = <<>> /\ doc = [r \in Replica |-> EmptyDoc]
       ELSE \E type \in {"set", "counter"} :
                LET i == <<1, Own[CHOOSE r \in Replica : TRUE][1]>>
                    d == FirstDoc(i, type, 0)
                IN  /\ made = With(<<>>, i, [o |-> d.ops[i], past |-> {i}])
                    /\ doc = [s \in Replica |-> d]
    /\ shown = [r \in Replica |-> View(doc[r], {})]

\* The values of an edit of the type t.
Values(t) == IF t = "set" THEN Scalar ELSE {0}

Edit(r) ==
    /\ Cardinality(DOMAIN made) < MaxOps
    /\ \E S \in Scopes(r) : \E k \in 0 .. Len(Found(doc[r], S)) + 1 :
        \/ \E t \in Inserted : \E v \in Values(t) : Insert(r, S, k, t, v)
        \/ \E t \in {"set", "counter", "inc", "del"} :
               \E v \in Values(t) : Update(r, S, k, t, v)
        \/ ResolveConflict(r, S, k)

Next ==
    \E r \in Replica :
        \/ Edit(r)
        \/ \E B \in SUBSET (DOMAIN made \ DOMAIN doc[r].ops) : Deliver(r, B)

Spec == Init /\ [][Next]_vars

-----------------------------------------------------------------------------
(* Properties *)

Ids == (1 .. MaxOps + 1) \X {Own[r][k] : r \in Replica, k \in {1, 2}}

\* Operations have the identifiers of their actors, rows and indexes are about
\* operations the document has, and what wins is visible.
TypeOK ==
    /\ object \in Objects
    /\ DOMAIN made \subseteq Ids
    /\ \A i \in DOMAIN made : i \in made[i].past /\ made[i].past \subseteq DOMAIN made
    /\ \A r \in Replica :
           LET d == doc[r]
           IN  /\ DOMAIN d.ops \subseteq DOMAIN made
               /\ ToSet(d.order) = {i \in DOMAIN d.ops : HasRow(d, i)}
               /\ Len(d.order) = Cardinality(ToSet(d.order))
               /\ d.top \subseteq d.vis /\ d.vis \subseteq ToSet(d.order)

\* Replicas with the same operations have the same successors and the same
\* visible rows, in whatever order and batches the operations came.
SameIndexes ==
    \A r, s \in Replica :
        DOMAIN doc[r].ops = DOMAIN doc[s].ops =>
            /\ doc[r].ops = doc[s].ops
            /\ doc[r].succ = doc[s].succ
            /\ doc[r].vis = doc[s].vis

\* The rows of each element lie next to each other: no increment was left behind
\* what was inserted after its element.
Together(d) == Runs(d) = Registers(d)

\* Isolated transactions on a list find all rows of an element only then.
Findable(d) == Isolation /\ object = "list" => Together(d)

\* Replicas with the same operations are equal in every successor and index and,
\* if isolated transactions find their rows, in rows but for the places of
\* increments and in what wins, however the operations came: made here, isolated,
\* or in batches.
Converges ==
    LET Ordered(d) == Only(d.order, {i \in DOMAIN d.ops : ~IsInc(d, i)})
    IN  /\ SameIndexes
        /\ \A r, s \in Replica :
               DOMAIN doc[r].ops = DOMAIN doc[s].ops /\ Findable(doc[r]) /\ Findable(doc[s]) =>
                   Ordered(doc[r]) = Ordered(doc[s]) /\ doc[r].top = doc[s].top

\* The deletes that a load finds are those that were made: each operation comes
\* back once.
ComesBack(d) == Rebuilt(d) = {<<i, d.ops[i].ref>> : i \in {j \in DOMAIN d.ops : ~HasRow(d, j)}}

\* Unless rows have come apart, a load finds the operations and the indexes as
\* edits and batches have kept them up.
LoadRebuilds ==
    \A r \in Replica :
        LET d == doc[r]
        IN  Together(d) => ComesBack(d) /\ Loaded(d) = d

\* A saved document can be loaded and its changes can be collected.
ChangesComeBack == \A r \in Replica : ComesBack(doc[r])

\* The elements from the front to i, each inserted after the one before.
PathOf(d) ==
    LET path[i \in DOMAIN d.ops] ==
            IF d.ops[i].ref = Head0 THEN <<i>> ELSE Append(path[d.ops[i].ref], i)
    IN  path

\* A list is the tree of its inserts, each element before what was inserted
\* after it, what was inserted later at the same place first; the rows of an
\* element but increments follow it in the order of their identifiers.
InTreeOrder ==
    \A r \in Replica :
        LET d == doc[r]
            path == PathOf(d)
            Before(i, j) ==
                LET p == path[i]
                    q == path[j]
                IN  \E n \in 0 .. Len(p) :
                        /\ n <= Len(q)
                        /\ SubSeq(p, 1, n) = SubSeq(q, 1, n)
                        /\ n < Len(q) /\ (n < Len(p) => Less(q[n + 1], p[n + 1]))
            rows == Only(d.order, {i \in DOMAIN d.ops : ~IsInc(d, i)})
        IN  Findable(d) => \A m, n \in DOMAIN rows : m < n =>
                LET i == rows[m]
                    j == rows[n]
                IN  \/ Elem(d, i) = Elem(d, j) /\ Less(i, j)
                    \/ object = "list" /\ Before(Elem(d, i), Elem(d, j))

\* Who made the operation i.
MakerOf(i) == CHOOSE r \in Replica : \E k \in {1, 2} : Own[r][k] = i[2]

\* An edit changes what its transaction reads, also an isolated one, in the one
\* place it is about, by what it says, and nothing else.
EditsShow ==
    [][\A i \in DOMAIN made' \ DOMAIN made :
           LET r == MakerOf(i)
               o == made'[i].o
               S == made'[i].past \ {i}
               new == View(doc'[r], made'[i].past)
               F == Found(doc[r], S)
               old == ValuesOf(doc[r], S, F)
               at == {n \in DOMAIN F : ElemOf(doc[r], F[n]) = o.ref}
               k == IF at = {} THEN 0 ELSE Min(at)
               v == ValueAt(doc'[r], i, {i})
           IN  CASE o.insert -> new = InsertAt(old, k + 1, v)
                 [] o.type = "inc" -> new = [old EXCEPT ![k] = Shifted(@, 1)]
                 [] o.type = "del" -> new \in {old, RemoveAt(old, k)}
                 [] OTHER -> IF k \in DOMAIN old THEN new = [old EXCEPT ![k] = v] ELSE new = <<v>>]_vars

\* Who shows what the document holds still does after the patches of an edit or
\* of a batch of one change, unless a counter lost to a later value, which may
\* win again.
PatchesSuffice ==
    [][\A r \in Replica :
           /\ shown[r] = View(doc[r], {})
           /\ \A i \in doc[r].vis \ doc[r].top : ~IsCounter(doc[r], i)
           /\ Cardinality(DOMAIN doc'[r].ops \ DOMAIN doc[r].ops) = 1
           => shown'[r] = View(doc'[r], {})]_vars

\* Reading by the index of winners gives what reading row by row gives.
FastIsSlow ==
    \A r \in Replica : View(doc[r], {}) = View(doc[r], DOMAIN doc[r].ops)

=============================================================================
