------------------------------ MODULE Document ------------------------------
(***************************************************************************)
(* The document of the bundled Automerge core (automerge.rs,               *)
(* change_graph.rs, op_set2/change/batch.rs): replicas that commit         *)
(* changes, exchange them in any order, queue the ones whose dependencies  *)
(* are missing, fork, save, crash and load.                                *)
(*                                                                         *)
(* A change is immutable and named by its hash.  Its operations are        *)
(* abstracted to how many there are and to the last operation counter they *)
(* take.  Actor identifiers are never handed to two replicas, so a hash is *)
(* named by the actor and sequence number of its change.                   *)
(***************************************************************************)
EXTENDS Integers, FiniteSets

CONSTANTS
    Replica,            \* the documents (one per process)
    Base,               \* the actor identifiers documents are created with
    MaxLevel,           \* bound on ActorId::with_concurrency
    MaxSeq,             \* bound on the changes of one actor
    MaxOp,              \* bound on operation counters
    MaxChanges          \* bound on the changes made by all the actors

ASSUME DocumentAssumption ==
    /\ MaxLevel \in Nat
    /\ MaxSeq \in Nat
    /\ MaxOp \in Nat
    /\ MaxChanges \in Nat

Actor == Base \X (0 .. MaxLevel)
Hash  == Actor \X (1 .. MaxSeq)
OpCounter == 0 .. MaxOp

ActorOf(h) == h[1]
BaseOf(h)  == h[1][1]
SeqNum(h)  == h[2]

VARIABLES
    \* The changes that exist anywhere, and what each of them contains.
    made,       \* hashes of the changes ever committed
    deps,       \* hash -> hashes the change depends on
    past,       \* hash -> the change and all its ancestors (derived from deps)
    nOps,       \* hash -> number of operations
    opEnd,      \* hash -> Change::max_op
    \* The documents.
    graph,      \* replica -> change_graph.nodes_by_hash
    heads,      \* replica -> deps, kept equal to change_graph.heads
    queue,      \* replica -> queue, changes that are not causally ready
    maxOp,      \* replica -> max_op
    actor,      \* replica -> actor
    panicked,   \* replica -> an assertion failed and the process is gone
    disk        \* the last bytes written by save()

history  == <<made, deps, past, nOps, opEnd>>
document == <<graph, heads, queue, maxOp, actor, panicked>>
vars     == <<history, document, disk>>

-----------------------------------------------------------------------------
(* Changes and graphs of changes *)

DepsOf(S) == UNION {deps[h] : h \in S}
Past(H)   == UNION {past[h] : h \in H}

IsMax(m, S) == m \in S /\ \A k \in S : k <= m

\* The changes of G no other change of G depends on.
Maximal(G) == G \ DepsOf(G)

\* seq_index[a] is gapless (the assertion of add_changes), so the next
\* sequence number is one past the last change of the actor.
IsNextSeq(G, a, s) == <<a, s>> \notin G /\ (s > 1 => <<a, s - 1>> \in G)

IsLastSeq(G, a, s) == <<a, s>> \in G /\ <<a, s + 1>> \notin G

\* Mutants of GetHashes: the clock of the heads is read one too low, or one
\* too high.
GetHashesAndLast(G, H) ==
    {h \in G : \A g \in Past(H) : ActorOf(g) = ActorOf(h) => SeqNum(g) <= SeqNum(h)}

GetHashesButNext(G, H) ==
    {h \in G : \A g \in Past(H) : ActorOf(g) = ActorOf(h) => SeqNum(g) + 1 < SeqNum(h)}

\* get_hashes: per actor, what lies beyond the sequence number that the
\* clock of the heads H records.
GetHashes(G, H) ==
    {h \in G : \A g \in Past(H) : ActorOf(g) = ActorOf(h) => SeqNum(g) < SeqNum(h)}

\* Mutant of MissingDeps: the queue is not looked at.
MissingHeads(G, Q, H) == (H \ G) \ Q

\* get_missing_deps
MissingDeps(G, Q, H) == ((DepsOf(Q) \cup H) \ G) \ Q

\* Mutants of Ready: changes are applied without waiting for their
\* dependencies, or the queue is gone through only once.
ReadyAtOnce(G, P) == P

ReadyInOnePass(G, P) == {h \in P : deps[h] \subseteq G}

\* The changes of P that become causally ready, one after the other, on top
\* of the graph G.
Ready(G, P) == UNION {S \in SUBSET P : \A h \in S : deps[h] \subseteq G \cup S}

-----------------------------------------------------------------------------
(* Committing a change *)

\* Mutant of RecordChange: max_op is taken for the number of operations.
RecordChangeSwapped(h, D, n, last) ==
    /\ made'  = made \cup {h}
    /\ deps'  = [deps EXCEPT ![h] = D]
    /\ past'  = [past EXCEPT ![h] = {h} \cup Past(D)]
    /\ nOps'  = [nOps EXCEPT ![h] = last]
    /\ opEnd' = [opEnd EXCEPT ![h] = n]

\* The new change h on top of D: n operations, up to the counter last.
RecordChange(h, D, n, last) ==
    /\ made'  = made \cup {h}
    /\ deps'  = [deps EXCEPT ![h] = D]
    /\ past'  = [past EXCEPT ![h] = {h} \cup Past(D)]
    /\ nOps'  = [nOps EXCEPT ![h] = n]
    /\ opEnd' = [opEnd EXCEPT ![h] = last]

\* Transaction::commit_impl and update_history: the change <<a, s>> on top of
\* the hashes D with n operations.
AddLocalChange(r, a, s, D, n) ==
    LET h == <<a, s>> IN
    /\ Cardinality(made) < MaxChanges
    /\ maxOp[r] + n \in OpCounter
    /\ RecordChange(h, D, n, maxOp[r] + n)
    /\ graph' = [graph EXCEPT ![r] = @ \cup {h}]
    /\ heads' = [heads EXCEPT ![r] = (@ \ D) \cup {h}]
    /\ maxOp' = [maxOp EXCEPT ![r] = @ + n]
    /\ UNCHANGED <<queue, actor, panicked, disk>>

\* transaction_args(None): on top of the heads and of the actor's last change.
CommitOnHeads(r, n) ==
    LET a == <<actor[r], 0>> IN
    \E s \in 1 .. MaxSeq :
        /\ ~panicked[r]
        /\ IsNextSeq(graph[r], a, s)
        /\ AddLocalChange(r, a, s,
               heads[r] \cup (IF s > 1 THEN {<<a, s - 1>>} ELSE {}), n)

Commit(r)      == CommitOnHeads(r, 1)
EmptyCommit(r) == CommitOnHeads(r, 0)

\* Clock::covers for the clock of the heads H.
Covers(H, a, m) == \E h \in Past(H) : ActorOf(h) = a /\ opEnd[h] >= m

\* Mutant of UsableAt: the heads are not looked at.
UsableAnywhere(G, H, a) == TRUE

\* The test of isolate_actor: the actor has no operation yet, or the heads H
\* already cover its last one.
UsableAt(G, H, a) ==
    \A s \in 1 .. MaxSeq :
        IsLastSeq(G, a, s) =>
            opEnd[<<a, s>>] = 0 \/ Covers(H, a, opEnd[<<a, s>>])

\* transaction_args(Some(heads)): a commit isolated at the heads H, by the
\* first concurrency level of the actor that is usable there.
CommitAt(r, H) ==
    \E l \in 0 .. MaxLevel, s \in 1 .. MaxSeq :
        LET a(k) == <<actor[r], k>> IN
        /\ ~panicked[r]
        /\ H \subseteq graph[r]
        /\ UsableAt(graph[r], H, a(l))
        /\ \A k \in 0 .. l - 1 : ~UsableAt(graph[r], H, a(k))
        /\ IsNextSeq(graph[r], a(l), s)
        /\ AddLocalChange(r, a(l), s, H, 1)

-----------------------------------------------------------------------------
(* Applying changes *)

\* add_changes asserts that a change has the sequence number after the last
\* one of its actor.  Among the new changes, those that are not ordered by
\* their dependencies are added in any order.
SeqGap(G, new) ==
    \E h \in new : SeqNum(h) > 1 /\ <<ActorOf(h), SeqNum(h) - 1>> \notin G \cup new

SeqMayFail(G, new) ==
    \E h \in new :
        /\ SeqNum(h) > 1
        /\ <<ActorOf(h), SeqNum(h) - 1>> \notin G \cup (past[h] \cap new)

\* Mutants of UpdateHeads: what the new changes depend on stays a head, or the
\* old heads are forgotten.
HeadsStay(H, new) == H \cup new

HeadsForgotten(H, new) == new \ DepsOf(new)

\* update_heads for each of the new changes.
UpdateHeads(H, new) == (H \cup new) \ DepsOf(new)

\* Mutant of IsMaxOpWith: the document's own operations do not count.
IsMaxOpOf(k, m, new) == IsMax(k, {0} \cup {opEnd[h] : h \in new})

\* The operation counter after the new changes, when it was m.
IsMaxOpWith(k, m, new) == IsMax(k, {m} \cup {opEnd[h] : h \in new})

\* apply_changes_batch on a document with graph G, heads H, queue Q and
\* operation counter m: r becomes the result.
AbsorbInto(r, G, H, Q, m, B) ==
    LET P   == (Q \cup B) \ G
        new == Ready(G, P)
    IN  /\ ~SeqGap(G, new)
        /\ graph' = [graph EXCEPT ![r] = G \cup new]
        /\ queue' = [queue EXCEPT ![r] = P \ new]
        /\ heads' = [heads EXCEPT ![r] = UpdateHeads(H, new)]
        /\ \E k \in OpCounter :
               /\ IsMaxOpWith(k, m, new)
               /\ maxOp' = [maxOp EXCEPT ![r] = k]

Absorb(r, B) ==
    /\ ~panicked[r]
    /\ AbsorbInto(r, graph[r], heads[r], queue[r], maxOp[r], B)
    /\ UNCHANGED <<history, actor, panicked, disk>>

\* Changes arrive from anywhere: any of them, in any order, any number of
\* times.
ApplyChanges(r, B) == Absorb(r, B)

\* merge: get_changes_added, then apply_changes.
Merge(r, t) ==
    /\ ~panicked[t]
    /\ Absorb(r, graph[t] \ graph[r])

\* am_get_changes(t, heads of r), then am_apply_changes.
Pull(r, t) ==
    /\ ~panicked[t]
    /\ Absorb(r, GetHashes(graph[t], heads[r] \cap graph[t]))

\* The assertion fails and the process is gone; no other one notices.
Panic(r) ==
    /\ panicked' = [panicked EXCEPT ![r] = TRUE]
    /\ UNCHANGED <<history, graph, heads, queue, maxOp, actor, disk>>

ApplyPanics(r, B) ==
    /\ ~panicked[r]
    /\ SeqMayFail(graph[r], Ready(graph[r], (queue[r] \cup B) \ graph[r]))
    /\ Panic(r)

-----------------------------------------------------------------------------
(* Forking, saving and loading *)

\* Mutant of FreshActor: only the documents at hand are looked at.
UnusedActor(b) == \A q \in Replica : actor[q] # b

\* ActorId::random
FreshActor(b) ==
    /\ \A q \in Replica : actor[q] # b
    /\ \A h \in made : BaseOf(h) # b

\* fork: a clone with an actor of its own replaces the document t.
Fork(r, t) ==
    /\ r # t
    /\ ~panicked[r]
    /\ \E b \in Base :
           /\ FreshActor(b)
           /\ actor' = [actor EXCEPT ![t] = b]
    /\ graph' = [graph EXCEPT ![t] = graph[r]]
    /\ heads' = [heads EXCEPT ![t] = heads[r]]
    /\ queue' = [queue EXCEPT ![t] = queue[r]]
    /\ maxOp' = [maxOp EXCEPT ![t] = maxOp[r]]
    /\ panicked' = [panicked EXCEPT ![t] = FALSE]
    /\ UNCHANGED <<history, disk>>

\* fork_at: a new document, with an actor of its own, that holds the changes
\* of r up to the hashes H replaces the document t.
ForkAt(r, t, H) ==
    /\ r # t
    /\ ~panicked[r]
    /\ H \subseteq graph[r]
    /\ \E b \in Base :
           /\ FreshActor(b)
           /\ actor' = [actor EXCEPT ![t] = b]
    /\ AbsorbInto(t, {}, {}, {}, 0, Past(H) \cap graph[r])
    /\ panicked' = [panicked EXCEPT ![t] = FALSE]
    /\ UNCHANGED <<history, disk>>

\* The new document of fork_at fails the assertion.
ForkAtPanics(r, H) ==
    /\ ~panicked[r]
    /\ H \subseteq graph[r]
    /\ SeqMayFail({}, Past(H) \cap graph[r])
    /\ Panic(r)

\* save: the change graph as a document chunk, then the queued changes.
Save(r) ==
    /\ ~panicked[r]
    /\ disk' = [graph |-> graph[r], queue |-> queue[r]]
    /\ UNCHANGED <<history, document>>

\* load: heads and operation counter are recomputed from the changes and
\* operations in the file (reconstruct_document), and the queued changes are
\* applied again.  What the document held before is lost: a crash, or a
\* restart.
Load(r) ==
    /\ \E b \in Base :
           /\ FreshActor(b)
           /\ actor' = [actor EXCEPT ![r] = b]
    /\ \E m \in OpCounter :
           /\ IsMax(m, {0} \cup {opEnd[h] : h \in {g \in disk.graph : nOps[g] > 0}})
           /\ AbsorbInto(r, disk.graph, Maximal(disk.graph), {}, m, disk.queue)
    /\ panicked' = [panicked EXCEPT ![r] = FALSE]
    /\ UNCHANGED <<history, disk>>

-----------------------------------------------------------------------------
Init ==
    /\ made  = {}
    /\ deps  = [h \in Hash |-> {}]
    /\ past  = [h \in Hash |-> {}]
    /\ nOps  = [h \in Hash |-> 0]
    /\ opEnd = [h \in Hash |-> 0]
    /\ graph = [r \in Replica |-> {}]
    /\ heads = [r \in Replica |-> {}]
    /\ queue = [r \in Replica |-> {}]
    /\ maxOp = [r \in Replica |-> 0]
    /\ actor \in {f \in [Replica -> Base] : \A r, t \in Replica : f[r] = f[t] => r = t}
    /\ panicked = [r \in Replica |-> FALSE]
    /\ disk = [graph |-> {}, queue |-> {}]

Next ==
    \E r \in Replica :
        \/ Commit(r)
        \/ EmptyCommit(r)
        \/ \E H \in SUBSET made : CommitAt(r, H)
        \/ \E B \in SUBSET made : ApplyChanges(r, B)
        \/ \E B \in SUBSET made : ApplyPanics(r, B)
        \/ \E t \in Replica : Merge(r, t)
        \/ \E t \in Replica : Pull(r, t)
        \/ \E t \in Replica : Fork(r, t)
        \/ \E t \in Replica, H \in SUBSET made : ForkAt(r, t, H)
        \/ \E H \in SUBSET made : ForkAtPanics(r, H)
        \/ Save(r)
        \/ Load(r)

Spec == Init /\ [][Next]_vars

-----------------------------------------------------------------------------
(* Properties *)

\* Every variable has its type.
TypeOK ==
    /\ made \in SUBSET Hash
    /\ deps \in [Hash -> SUBSET Hash]
    /\ past \in [Hash -> SUBSET Hash]
    /\ nOps \in [Hash -> {0, 1}]
    /\ opEnd \in [Hash -> OpCounter]
    /\ graph \in [Replica -> SUBSET Hash]
    /\ heads \in [Replica -> SUBSET Hash]
    /\ queue \in [Replica -> SUBSET Hash]
    /\ maxOp \in [Replica -> OpCounter]
    /\ actor \in [Replica -> Base]
    /\ panicked \in [Replica -> BOOLEAN]
    /\ disk \in [graph : SUBSET Hash, queue : SUBSET Hash]

\* A document never holds a change without its dependencies, whatever order
\* changes arrive in (is_causally_ready, add_change's MissingDep).
CausallyClosed == \A r \in Replica : DepsOf(graph[r]) \subseteq graph[r]

\* A change waits in the queue exactly as long as a dependency is missing:
\* none is forgotten there and none is kept twice
\* (pop_next_causally_ready_change).
QueueWaits ==
    \A r \in Replica :
        /\ queue[r] \cap graph[r] = {}
        /\ \A h \in queue[r] : ~(deps[h] \subseteq graph[r])

\* The heads maintained change by change (update_heads, update_deps) are the
\* maximal changes of the graph.
HeadsExact == \A r \in Replica : heads[r] = Maximal(graph[r])

\* Documents with the same heads hold the same changes.
HeadsDetermineGraph ==
    \A r, t \in Replica : heads[r] = heads[t] => graph[r] = graph[t]

\* The changes named by get_missing_deps, with their ancestors, are all a
\* peer has to send for the queue to drain.
MissingDepsSuffice ==
    \A r \in Replica :
        LET missing == MissingDeps(graph[r], queue[r], {}) IN
        \A h \in queue[r] : past[h] \subseteq graph[r] \cup queue[r] \cup Past(missing)

\* No application of changes can fail the assertion on sequence numbers in
\* ChangeGraph::add_changes.
NoSeqGap == \A r \in Replica : ~panicked[r]

\* Every change is based on the one before it of the same actor.
ActorsOrdered ==
    \A h \in made : SeqNum(h) > 1 => <<ActorOf(h), SeqNum(h) - 1>> \in past[h]

\* isolate_actor keeps the changes of an actor in order (ActorsOrdered), save
\* those it makes after an empty commit; while it does, no application of
\* changes fails the assertion.
NoSeqGapInOrder == ActorsOrdered => NoSeqGap

\* Only an empty change of the same actor is ever left out of the past of a
\* change.
OrderedButForEmpty ==
    \A g, h \in made :
        ActorOf(g) = ActorOf(h) /\ SeqNum(g) < SeqNum(h) /\ nOps[g] > 0 => g \in past[h]

\* get_hashes finds exactly the changes that are not ancestors of the given
\* heads, although it only compares sequence numbers per actor, as long as
\* the changes of each actor are in order.
GetHashesExact ==
    ActorsOrdered =>
        \A r \in Replica : \A H \in SUBSET graph[r] :
            GetHashes(graph[r], H) = graph[r] \ Past(H)

\* The operation counter of a document is the largest one of its changes,
\* also after a load that recomputes it from the operations alone, so a new
\* operation is later than everything the document holds.
OpCounterExact ==
    \A r \in Replica : IsMax(maxOp[r], {0} \cup {opEnd[h] : h \in graph[r]})

\* Two changes of one actor never share an operation identifier.
OpIdsUnique ==
    \A g, h \in made :
        ActorOf(g) = ActorOf(h) /\ g # h =>
            (opEnd[g] - nOps[g] + 1 .. opEnd[g])
                \cap (opEnd[h] - nOps[h] + 1 .. opEnd[h]) = {}

\* A commit never takes the name (actor and sequence number) of a change that
\* exists somewhere else, also after a crash that lost changes.
ChangesImmutable ==
    [][\A h \in made : deps'[h] = deps[h] /\ opEnd'[h] = opEnd[h]]_vars

\* Loading what was saved gives back the graph and the queue that were saved.
LoadRestores ==
    [][\A r \in Replica : Load(r) =>
           /\ graph'[r] = disk.graph
           /\ queue'[r] = disk.queue]_vars

\* merge and get_changes/apply_changes leave nothing of the other document
\* behind, and fork_at gives the document as it was at the given heads.
TransfersComplete ==
    [][\A r, t \in Replica :
           /\ Merge(r, t) \/ (Pull(r, t) /\ ActorsOrdered) => graph[t] \subseteq graph'[r]
           /\ \A H \in SUBSET made :
                  ForkAt(r, t, H) => graph'[t] = Past(H) /\ queue'[t] = {}]_vars
=============================================================================
