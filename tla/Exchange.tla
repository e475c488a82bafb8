------------------------------ MODULE Exchange ------------------------------
(***************************************************************************)
(* What the synchronisation of two documents promises: each of them holds  *)
(* a causally closed set of changes that only grows, by changes the other  *)
(* one holds or that come from outside, and as long as one of them holds a *)
(* change the other lacks, the other one eventually takes over some.       *)
(***************************************************************************)
EXTENDS Integers, FiniteSets

CONSTANTS
    Peer,       \* the two documents
    Hash,       \* the changes
    Deps,       \* hash -> hashes the change depends on
    Local       \* peer -> changes that may come from outside of the exchange

VARIABLE held   \* peer -> changes of its graph

Closed(S) == \A h \in S : Deps[h] \subseteq S

Init == held \in [Peer -> {S \in SUBSET Hash : Closed(S)}]

\* The document p gets the changes S.
Grow(p, S) ==
    /\ S # {} /\ S \cap held[p] = {}
    /\ Closed(held[p] \cup S)
    /\ held' = [held EXCEPT ![p] = @ \cup S]

Known == UNION {held[p] : p \in Peer}

Learn(p) == \E S \in SUBSET (Local[p] \cup Known) : Grow(p, S)

\* The steps among them that take over something from the other document.
Take(p) ==
    \E S \in SUBSET (Local[p] \cup Known) : S \cap Known # {} /\ Grow(p, S)

Next == \E p \in Peer : Learn(p)

Spec == Init /\ [][Next]_held /\ \A p \in Peer : WF_held(Take(p))
=============================================================================
