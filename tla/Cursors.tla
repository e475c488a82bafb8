------------------------------ MODULE Cursors ------------------------------
(***************************************************************************)
(* Cursors into the lists of OpSet (cursor.rs): the identifier of the      *)
(* operation whose value an index showed, and the way to move once that    *)
(* value is gone.  A cursor is kept while the list changes, carried to     *)
(* other replicas, and resolved in the current state by the index of       *)
(* winners or at older heads row by row.  Indexes count from 0.            *)
(***************************************************************************)
EXTENDS OpSet

Move == {"before", "after"}

\* The error InvalidCursor.
Invalid == -1

\* The place of a row (get_op_id_pos).
PosOf(d, i) == CHOOSE n \in DOMAIN d.order : d.order[n] = i

\* op_cursor_to_opid: a cursor of an actor or a change that is not in view is
\* an error.
IsKnown(d, S, i) == i \in InView(d, S)

\* get_cursor: the operation that wins at the index k of what was found.
CursorAt(d, F, k) == Winner(d, F[k + 1])

\* Mutant of FoundFast: all values of a conflict count.
FoundFastAlike(d, i) ==
    [index |-> Cardinality({n \in 1 .. PosOf(d, i) - 1 : d.order[n] \in d.vis}), visible |-> i \in d.top]

\* seek_list_opid_fast: how many rows win before that of i.
FoundFast(d, i) ==
    [index |-> Cardinality({n \in 1 .. PosOf(d, i) - 1 : d.order[n] \in d.top}), visible |-> i \in d.top]

\* The elements that show something, as rows next to each other.
Showing(d, S) == Only(Runs(d), {g \in ToSet(Runs(d)) : \E j \in ToSet(g) : IsVisibleAt(d, j, S)})

\* Mutant of FoundSlow: only an element that begins later is found.
FoundSlowAlike(d, S, i) ==
    LET G == Showing(d, S)
        at == {k \in DOMAIN G : PosOf(d, G[k][1]) >= PosOf(d, i)}
    IN  IF at = {} THEN [index |-> Invalid, visible |-> FALSE]
        ELSE [index |-> Min(at) - 1,
              visible |-> i \in ToSet(G[Min(at)]) /\ IsVisibleAt(d, i, S)]

\* seek_list_opid_slow: the first element that shows something and ends after
\* the row of i; none if there is no such element.
FoundSlow(d, S, i) ==
    LET G == Showing(d, S)
        at == {k \in DOMAIN G : PosOf(d, Last(G[k])) >= PosOf(d, i)}
    IN  IF at = {} THEN [index |-> Invalid, visible |-> FALSE]
        ELSE [index |-> Min(at) - 1,
              visible |-> i \in ToSet(G[Min(at)]) /\ IsVisibleAt(d, i, S)]

\* seek_list_opid
FoundId(d, S, i) == IF S = {} THEN FoundFast(d, i) ELSE FoundSlow(d, S, i)

\* MoveCursor::Before: to the nearest visible one among the element of i, what
\* that was inserted after, and so on.
Before(d, S, i) ==
    LET up[j \in DOMAIN d.ops] ==
            LET e == d.ops[j].ref
            IN  IF e = Head0 THEN 0
                ELSE LET f == FoundId(d, S, e)
                     IN  IF f.index = Invalid THEN 0 ELSE IF f.visible THEN f.index ELSE up[e]
    IN  up[i]

\* get_cursor_position, in the current state or at the heads of the scope S.
PositionOf(d, S, i, move) ==
    IF ~IsKnown(d, S, i) THEN Invalid
    ELSE LET f == FoundId(d, S, i)
         IN  IF move = "after" \/ f.index \in {Invalid, 0} \/ f.visible THEN f.index
             ELSE Before(d, S, i)

-----------------------------------------------------------------------------
(* Properties *)

\* What cursors of a document may be resolved at: its current state, also row
\* by row, and the past of each of its changes.
Resolvable(r) == {{}, DOMAIN doc[r].ops} \cup {made[i].past : i \in DOMAIN doc[r].ops}

\* What a cursor may name: any value, since any was shown when it was put.
Target(d) == {i \in ToSet(d.order) : ~IsInc(d, i)}

\* How many of the elements found come before that of i in the list.
Preceding(d, F, i) ==
    Cardinality({k \in DOMAIN F : PosOf(d, ElemOf(d, F[k])) < PosOf(d, Elem(d, i))})

\* A cursor made for an index leads back to it and does not move: the search by
\* index and the search by identifier agree, in any state, by the index of winners
\* only if isolated transactions find their rows.  (Of those that move to what
\* comes after, CursorsStay says more.)
CursorsReturn ==
    object = "list" =>
        \A r \in Replica : \A S \in Resolvable(r) :
            LET F == Found(doc[r], S)
            IN  S # {} \/ Findable(doc[r]) => \A k \in DOMAIN F :
                    PositionOf(doc[r], S, CursorAt(doc[r], F, k - 1), "before") = k - 1

\* Wherever a cursor is resolved, it is at its element or, once that shows
\* nothing, at the next one that does: nothing that comes before it is passed
\* over or counted twice.  At heads there has to be a next one; in the current
\* state a value that lost to an earlier one and is gone leads one too far.  A
\* cursor that moves back never lands behind one that moves on.
CursorsStay ==
    object = "list" =>
        \A r \in Replica : \A S \in Resolvable(r) :
            LET d == doc[r]
                F == Found(d, S)
            IN  \A i \in Target(d) \cap InView(d, S) :
                    LET p == PositionOf(d, S, i, "after")
                        n == Preceding(d, F, i)
                    IN  /\ \/ p = n
                           \/ S # {} /\ n = Len(F) /\ p = Invalid
                           \/ /\ S = {} /\ p = n + 1
                              /\ \E w \in d.top : Elem(d, w) = Elem(d, i) /\ Less(w, i)
                        /\ PositionOf(d, S, i, "before") <= p

=============================================================================
