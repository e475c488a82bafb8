--------------------------- MODULE DocumentProofs ---------------------------
(***************************************************************************)
(* Theorems about Document, for every set of replicas and actors and every *)
(* bound.                                                                  *)
(*                                                                         *)
(* The inductive invariant adds to the stated properties what keeps        *)
(* changes apart: two documents never have the same actor, and a document  *)
(* holds every change that was ever made by its own actor, so the name a   *)
(* commit takes is new.                                                    *)
(***************************************************************************)
EXTENDS Document, TLAPS

\* Only changes that were made are depended on, held, queued or saved.
OnlyMade ==
    /\ DepsOf(made) \subseteq made
    /\ \A r \in Replica : graph[r] \subseteq made /\ queue[r] \subseteq made
    /\ disk.graph \subseteq made
    /\ disk.queue \subseteq made

ActorsDistinct == \A r, t \in Replica : actor[r] = actor[t] => r = t

OwnChangesHeld ==
    \A r \in Replica, h \in made : BaseOf(h) = actor[r] => h \in graph[r]

\* Nothing in the queue, not even several changes together, is ready.
QueueDrained ==
    \A r \in Replica :
        /\ queue[r] \cap graph[r] = {}
        /\ Ready(graph[r], queue[r]) = {}

\* The saved document satisfies what a live one does.
DiskSound ==
    /\ DepsOf(disk.graph) \subseteq disk.graph
    /\ disk.queue \cap disk.graph = {}
    /\ Ready(disk.graph, disk.queue) = {}

IInv ==
    /\ TypeOK
    /\ OnlyMade
    /\ ActorsDistinct
    /\ OwnChangesHeld
    /\ CausallyClosed
    /\ QueueDrained
    /\ HeadsExact
    /\ DiskSound

-----------------------------------------------------------------------------
(* The drain of the queue *)

\* What becomes ready has all its dependencies in the graph or among what
\* becomes ready (is_causally_ready).
LEMMA ReadyClosed ==
    ASSUME NEW G, NEW P
    PROVE  /\ Ready(G, P) \subseteq P
           /\ DepsOf(Ready(G, P)) \subseteq G \cup Ready(G, P)
  BY DEF Ready, DepsOf

\* A queue from which nothing becomes ready holds no change whose
\* dependencies are all there.
LEMMA DrainedWaits ==
    ASSUME NEW G, NEW Q, Ready(G, Q) = {}, NEW h \in Q
    PROVE  ~(deps[h] \subseteq G)
  <1> SUFFICES ASSUME deps[h] \subseteq G
               PROVE  FALSE
    OBVIOUS
  <1>1. {h} \in SUBSET Q /\ \A g \in {h} : deps[g] \subseteq G \cup {h}
    OBVIOUS
  <1> QED
    BY <1>1 DEF Ready

\* What applying P to the graph G leads to when new becomes ready: a closed
\* graph, exact heads and a drained queue.
Extends(G, P, new) ==
    /\ new \subseteq P
    /\ DepsOf(G \cup new) \subseteq G \cup new
    /\ (P \ new) \cap (G \cup new) = {}
    /\ Ready(G \cup new, P \ new) = {}
    /\ (Maximal(G) \cup new) \ DepsOf(new) = Maximal(G \cup new)

\* Draining the queue has that effect.
LEMMA AbsorbSound ==
    ASSUME NEW G, NEW P, P \cap G = {}, DepsOf(G) \subseteq G
    PROVE  Extends(G, P, Ready(G, P))
  <1> DEFINE new == Ready(G, P)
  <1>1. new \subseteq P /\ DepsOf(new) \subseteq G \cup new
    BY ReadyClosed
  <1>2. DepsOf(G \cup new) = DepsOf(G) \cup DepsOf(new)
    BY DEF DepsOf
  <1>3. DepsOf(G \cup new) \subseteq G \cup new
    BY <1>1, <1>2
  <1>4. Ready(G \cup new, P \ new) = {}
    <2> SUFFICES ASSUME NEW S \in SUBSET (P \ new),
                        \A h \in S : deps[h] \subseteq (G \cup new) \cup S
                 PROVE  S = {}
      BY DEF Ready
    <2>1. S \cup new \in SUBSET P /\ \A h \in S \cup new : deps[h] \subseteq G \cup (S \cup new)
      BY <1>1 DEF DepsOf
    <2>2. S \cup new \subseteq new
      BY <2>1 DEF Ready
    <2> QED
      BY <2>2
  <1>5. (Maximal(G) \cup new) \ DepsOf(new) = Maximal(G \cup new)
    BY <1>1, <1>2 DEF Maximal
  <1> QED
    BY <1>1, <1>3, <1>4, <1>5 DEF Extends

-----------------------------------------------------------------------------
(* A local commit *)

\* A commit takes a name no change has and depends on changes its document
\* holds (transaction_args).
CommitReady(r, a, s, D) ==
    /\ a \in Actor
    /\ s \in 1 .. MaxSeq
    /\ a[1] = actor[r]
    /\ <<a, s>> \notin graph[r]
    /\ D \subseteq graph[r]

\* A commit on the heads (transaction_args without heads) is such a commit.
LEMMA CommitOnHeadsReady ==
    ASSUME IInv, NEW r \in Replica, NEW n \in {0, 1}, CommitOnHeads(r, n)
    PROVE  \E a, s, D : CommitReady(r, a, s, D) /\ AddLocalChange(r, a, s, D, n)
  <1> DEFINE a == <<actor[r], 0>>
  <1>1. a \in Actor /\ a[1] = actor[r]
    BY DocumentAssumption DEF IInv, TypeOK, Actor
  <1>2. PICK s \in 1 .. MaxSeq :
            /\ IsNextSeq(graph[r], a, s)
            /\ AddLocalChange(r, a, s,
                   heads[r] \cup (IF s > 1 THEN {<<a, s - 1>>} ELSE {}), n)
    BY DEF CommitOnHeads
  <1> DEFINE D == heads[r] \cup (IF s > 1 THEN {<<a, s - 1>>} ELSE {})
  <1>3. D \subseteq graph[r]
    BY <1>2 DEF IsNextSeq, IInv, HeadsExact, Maximal
  <1> QED
    BY <1>1, <1>2, <1>3 DEF CommitReady, IsNextSeq

\* So is a commit isolated at older heads (isolate_actor).
LEMMA CommitAtReady ==
    ASSUME IInv, NEW r \in Replica, NEW H, CommitAt(r, H)
    PROVE  \E a, s, D : CommitReady(r, a, s, D) /\ AddLocalChange(r, a, s, D, 1)
  <1>1. PICK l \in 0 .. MaxLevel, s \in 1 .. MaxSeq :
            /\ H \subseteq graph[r]
            /\ IsNextSeq(graph[r], <<actor[r], l>>, s)
            /\ AddLocalChange(r, <<actor[r], l>>, s, H, 1)
    BY DEF CommitAt
  <1>2. <<actor[r], l>> \in Actor
    BY DEF IInv, TypeOK, Actor
  <1> QED
    BY <1>1, <1>2 DEF CommitReady, IsNextSeq

\* The name is new everywhere, because nobody else commits for this actor.
LEMMA CommitNameFresh ==
    ASSUME IInv, NEW r \in Replica, NEW a, NEW s, NEW D, CommitReady(r, a, s, D)
    PROVE  <<a, s>> \in Hash \ made
  BY DEF CommitReady, IInv, OwnChangesHeld, BaseOf, Hash

\* A commit keeps the inductive invariant and every change already made.
LEMMA LocalChangePreserves ==
    ASSUME IInv, NEW r \in Replica, NEW a, NEW s, NEW D, NEW n \in {0, 1},
           CommitReady(r, a, s, D), AddLocalChange(r, a, s, D, n)
    PROVE  IInv' /\ \A h \in made : deps'[h] = deps[h] /\ opEnd'[h] = opEnd[h]
  <1> DEFINE h == <<a, s>>
  <1>1. h \in Hash /\ h \notin made
    BY CommitNameFresh
  <1> USE DEF IInv
  <1>2. D \subseteq graph[r] /\ graph[r] \subseteq made /\ made \subseteq Hash
    BY DEF CommitReady, OnlyMade, TypeOK
  <1>3. /\ made' = made \cup {h}
        /\ deps' = [deps EXCEPT ![h] = D]
        /\ graph' = [graph EXCEPT ![r] = @ \cup {h}]
        /\ heads' = [heads EXCEPT ![r] = (@ \ D) \cup {h}]
        /\ UNCHANGED <<queue, actor, panicked, disk>>
    BY DEF AddLocalChange, RecordChange
  <1>4. /\ deps'[h] = D
        /\ \A g \in made : deps'[g] = deps[g]
    BY <1>1, <1>2, <1>3 DEF TypeOK
  <1>5. /\ graph'[r] = graph[r] \cup {h}
        /\ heads'[r] = (heads[r] \ D) \cup {h}
        /\ \A q \in Replica \ {r} : graph'[q] = graph[q] /\ heads'[q] = heads[q]
    BY <1>3 DEF TypeOK
  <1>6. \A S \in SUBSET made : DepsOf(S)' = DepsOf(S)
    <2> SUFFICES ASSUME NEW S \in SUBSET made
                 PROVE  UNION {deps'[g] : g \in S} = UNION {deps[g] : g \in S}
      BY DEF DepsOf
    <2> QED
      BY <1>4
  <1>7. DepsOf(graph[r] \cup {h})' = DepsOf(graph[r]) \cup D
    <2>1. UNION {deps'[g] : g \in graph[r] \cup {h}}
             = (UNION {deps[g] : g \in graph[r]}) \cup D
      BY <1>2, <1>4
    <2> QED
      BY <2>1, <1>5 DEF DepsOf
  <1>8. TypeOK'
    <2>1. D \subseteq Hash
      BY <1>2
    <2>2. {h} \cup Past(D) \subseteq Hash
      BY <1>1, <2>1 DEF Past, TypeOK
    <2>3. maxOp[r] + n \in OpCounter
      BY DEF AddLocalChange, RecordChange
    <2> QED
      BY <1>1, <1>2, <2>1, <2>2, <2>3 DEF TypeOK, AddLocalChange, RecordChange
  <1>9. OnlyMade'
    <2>1. DepsOf(made \cup {h})' \subseteq made'
      <3>1. UNION {deps'[g] : g \in made \cup {h}}
               = (UNION {deps[g] : g \in made}) \cup D
        BY <1>4
      <3>2. (UNION {deps[g] : g \in made}) \cup D \subseteq made \cup {h}
        BY <1>2 DEF OnlyMade, DepsOf
      <3> QED
        BY <1>3, <3>1, <3>2 DEF DepsOf
    <2>2. DepsOf(made)' \subseteq made'
      BY <2>1, <1>3 DEF DepsOf
    <2> QED
      BY <1>3, <1>5, <2>2 DEF OnlyMade
  <1>10. ActorsDistinct'
    BY <1>3 DEF ActorsDistinct
  <1>11. OwnChangesHeld'
    <2>1. BaseOf(h) = actor[r]
      BY DEF CommitReady, BaseOf
    <2>2. \A q \in Replica : actor[q] = actor[r] => q = r
      BY DEF ActorsDistinct
    <2> QED
      BY <1>3, <1>5, <2>1, <2>2 DEF OwnChangesHeld, BaseOf
  <1>12. \A q \in Replica \ {r} : DepsOf(graph[q])' = DepsOf(graph[q])
    <2> SUFFICES ASSUME NEW q \in Replica \ {r}
                 PROVE  DepsOf(graph[q])' = DepsOf(graph[q])
      OBVIOUS
    <2>1. graph[q] \in SUBSET made /\ graph'[q] = graph[q]
      BY <1>5 DEF OnlyMade
    <2> QED
      BY <2>1, <1>4 DEF DepsOf
  <1>13. CausallyClosed'
    BY <1>2, <1>5, <1>7, <1>12 DEF CausallyClosed, DepsOf
  <1>14. QueueDrained'
    <2> SUFFICES ASSUME NEW q \in Replica
                 PROVE  /\ queue[q] \cap graph'[q] = {}
                        /\ Ready(graph[q], queue[q])' = {}
      BY <1>3 DEF QueueDrained, Ready
    <2>1. /\ queue[q] \subseteq made
          /\ queue[q] \cap graph[q] = {}
          /\ Ready(graph[q], queue[q]) = {}
      BY DEF OnlyMade, QueueDrained
    <2>2. queue[q] \cap graph'[q] = {}
      BY <2>1, <1>1, <1>5
    <2>3. ASSUME NEW S \in SUBSET queue[q],
                 \A g \in S : deps'[g] \subseteq graph'[q] \cup S
          PROVE  \A g \in S : deps[g] \subseteq graph[q] \cup S
      <3>1. \A g \in S : deps[g] \subseteq made /\ deps'[g] = deps[g]
        BY <2>1, <1>4 DEF OnlyMade, DepsOf
      <3> QED
        BY <2>3, <3>1, <1>1, <1>5
    <2>4. Ready(graph[q], queue[q])' = {}
      BY <2>1, <2>3, <1>3 DEF Ready
    <2> QED
      BY <2>2, <2>4
  <1>15. HeadsExact'
    <2>1. heads'[r] = Maximal(graph[r])'
      <3>1. heads[r] = graph[r] \ DepsOf(graph[r]) /\ DepsOf(graph[r]) \subseteq graph[r]
        BY DEF HeadsExact, Maximal, CausallyClosed
      <3>2. DepsOf(graph[r])' = DepsOf(graph[r]) \cup D
        BY <1>5, <1>7 DEF DepsOf
      <3> QED
        BY <3>1, <3>2, <1>1, <1>2, <1>5 DEF Maximal
    <2>2. \A q \in Replica \ {r} : heads'[q] = Maximal(graph[q])'
      BY <1>5, <1>12 DEF HeadsExact, Maximal
    <2> QED
      BY <2>1, <2>2 DEF HeadsExact
  <1>16. DiskSound'
    <2>1. DepsOf(disk.graph)' = DepsOf(disk.graph)
      <3>1. disk.graph \in SUBSET made
        BY DEF OnlyMade
      <3> QED
        BY <3>1, <1>3, <1>4 DEF DepsOf
    <2>2. \A g \in disk.queue : deps'[g] = deps[g]
      BY <1>4 DEF OnlyMade
    <2>3. Ready(disk.graph, disk.queue)' = Ready(disk.graph, disk.queue)
      BY <1>3, <2>2 DEF Ready
    <2> QED
      BY <1>3, <2>1, <2>3 DEF DiskSound
  <1>17. \A g \in made : deps'[g] = deps[g] /\ opEnd'[g] = opEnd[g]
    BY <1>1, <1>2, <1>4 DEF TypeOK, AddLocalChange, RecordChange
  <1> QED
    BY <1>8, <1>9, <1>10, <1>11, <1>13, <1>14, <1>15, <1>16, <1>17

-----------------------------------------------------------------------------
(* Changes from elsewhere *)

\* Applying changes (apply_changes_batch) keeps the inductive invariant.
LEMMA AbsorbPreserves ==
    ASSUME IInv, NEW r \in Replica, NEW B \in SUBSET made, Absorb(r, B)
    PROVE  IInv'
  <1> DEFINE P == (queue[r] \cup B) \ graph[r]
             new == Ready(graph[r], P)
  <1> USE DEF IInv
  <1>1. P \cap graph[r] = {} /\ DepsOf(graph[r]) \subseteq graph[r]
    BY DEF CausallyClosed
  <1> HIDE DEF P
  <1>2. Extends(graph[r], P, new)
    BY <1>1, AbsorbSound
  <1> HIDE DEF new
  <1>3. /\ new \subseteq P
        /\ DepsOf(graph[r] \cup new) \subseteq graph[r] \cup new
        /\ (P \ new) \cap (graph[r] \cup new) = {}
        /\ Ready(graph[r] \cup new, P \ new) = {}
        /\ (Maximal(graph[r]) \cup new) \ DepsOf(new) = Maximal(graph[r] \cup new)
    BY <1>2 DEF Extends
  <1>4. P \subseteq made /\ graph[r] \subseteq made /\ made \subseteq Hash
    BY DEF OnlyMade, TypeOK, P
  <1>5. /\ graph' = [graph EXCEPT ![r] = graph[r] \cup new]
        /\ queue' = [queue EXCEPT ![r] = P \ new]
        /\ heads' = [heads EXCEPT ![r] = (heads[r] \cup new) \ DepsOf(new)]
        /\ UNCHANGED <<history, actor, panicked, disk>>
    BY DEF Absorb, AbsorbInto, UpdateHeads, P, new
  <1>6. PICK k \in OpCounter : maxOp' = [maxOp EXCEPT ![r] = k]
    BY DEF Absorb, AbsorbInto
  <1>7. UNCHANGED <<made, deps, past, nOps, opEnd, actor, panicked, disk>>
    BY <1>5 DEF history
  <1>8. TypeOK'
    BY <1>3, <1>4, <1>5, <1>6, <1>7 DEF TypeOK
  <1>9. /\ graph'[r] = graph[r] \cup new
        /\ queue'[r] = P \ new
        /\ heads'[r] = (heads[r] \cup new) \ DepsOf(new)
        /\ \A q \in Replica \ {r} :
               graph'[q] = graph[q] /\ queue'[q] = queue[q] /\ heads'[q] = heads[q]
    BY <1>5 DEF TypeOK
  <1>10. OnlyMade'
    BY <1>3, <1>4, <1>7, <1>9 DEF OnlyMade, DepsOf
  <1>11. ActorsDistinct' /\ OwnChangesHeld'
    BY <1>7, <1>9 DEF ActorsDistinct, OwnChangesHeld
  <1>12. CausallyClosed' /\ QueueDrained'
    BY <1>3, <1>7, <1>9 DEF CausallyClosed, QueueDrained, DepsOf, Ready
  <1>13. HeadsExact'
    <2>1. heads'[r] = Maximal(graph[r] \cup new)
      BY <1>3, <1>9 DEF HeadsExact
    <2> QED
      BY <2>1, <1>7, <1>9 DEF HeadsExact, Maximal, DepsOf
  <1>14. DiskSound'
    BY <1>7 DEF DiskSound, DepsOf, Ready
  <1> QED
    BY <1>8, <1>10, <1>11, <1>12, <1>13, <1>14

\* So does a failed assertion, which changes no document.
LEMMA PanicPreserves ==
    ASSUME IInv, NEW r \in Replica, Panic(r)
    PROVE  IInv'
  <1>1. UNCHANGED <<made, deps, past, nOps, opEnd, graph, heads, queue, maxOp,
                    actor, disk>>
    BY DEF Panic, history
  <1>2. TypeOK'
    BY <1>1 DEF Panic, IInv, TypeOK
  <1>3. /\ OnlyMade' /\ ActorsDistinct' /\ OwnChangesHeld' /\ CausallyClosed'
        /\ QueueDrained' /\ HeadsExact' /\ DiskSound'
    BY <1>1 DEF IInv, OnlyMade, ActorsDistinct, OwnChangesHeld, CausallyClosed,
                QueueDrained, HeadsExact, DiskSound, DepsOf, Maximal, Ready
  <1> QED
    BY <1>2, <1>3 DEF IInv

-----------------------------------------------------------------------------
(* Forking, saving and loading *)

\* A document that starts over with a fresh actor holds all of the actor's
\* changes: there are none.
LEMMA FreshActorSound ==
    ASSUME IInv, NEW t \in Replica, NEW b \in Base, FreshActor(b),
           actor' = [actor EXCEPT ![t] = b], made' = made,
           \A q \in Replica \ {t} : graph[q] \subseteq graph'[q]
    PROVE  ActorsDistinct' /\ OwnChangesHeld'
  <1>1. /\ actor'[t] = b
        /\ \A q \in Replica \ {t} : actor'[q] = actor[q] /\ actor[q] # b
    BY DEF FreshActor, IInv, TypeOK
  <1> QED
    BY <1>1 DEF FreshActor, ActorsDistinct, OwnChangesHeld, IInv

\* fork keeps the inductive invariant: the clone has an actor of its own.
LEMMA ForkPreserves ==
    ASSUME IInv, NEW r \in Replica, NEW t \in Replica, Fork(r, t)
    PROVE  IInv'
  <1> USE DEF IInv
  <1>1. PICK b \in Base : FreshActor(b) /\ actor' = [actor EXCEPT ![t] = b]
    BY DEF Fork
  <1>2. UNCHANGED <<made, deps, past, nOps, opEnd, disk>>
    BY DEF Fork, history
  <1>3. /\ graph'[t] = graph[r] /\ heads'[t] = heads[r] /\ queue'[t] = queue[r]
        /\ \A q \in Replica \ {t} :
               graph'[q] = graph[q] /\ queue'[q] = queue[q] /\ heads'[q] = heads[q]
    BY DEF Fork, TypeOK
  <1>4. TypeOK'
    BY <1>1, <1>2 DEF Fork, TypeOK
  <1>5. ActorsDistinct' /\ OwnChangesHeld'
    BY <1>1, <1>2, <1>3, FreshActorSound
  <1>6. OnlyMade' /\ CausallyClosed' /\ QueueDrained' /\ HeadsExact'
    BY <1>2, <1>3 DEF OnlyMade, CausallyClosed, QueueDrained, HeadsExact, DepsOf, Maximal, Ready
  <1>7. DiskSound'
    BY <1>2 DEF DiskSound, DepsOf, Ready
  <1> QED
    BY <1>4, <1>5, <1>6, <1>7

\* fork_at keeps the inductive invariant: the changes are applied to an empty
\* document.
LEMMA ForkAtPreserves ==
    ASSUME IInv, NEW r \in Replica, NEW t \in Replica, NEW H, ForkAt(r, t, H)
    PROVE  IInv'
  <1> DEFINE P == Past(H) \cap graph[r]
             new == Ready({}, P)
  <1> USE DEF IInv
  <1>1. PICK b \in Base : FreshActor(b) /\ actor' = [actor EXCEPT ![t] = b]
    BY DEF ForkAt
  <1>2. UNCHANGED <<made, deps, past, nOps, opEnd, disk>>
    BY DEF ForkAt, history
  <1>3. P \subseteq made /\ made \subseteq Hash
    BY DEF OnlyMade, TypeOK
  <1> HIDE DEF P
  <1>4. P \cap {} = {} /\ DepsOf({}) \subseteq {}
    BY DEF DepsOf
  <1>5. Extends({}, P, new)
    BY <1>4, AbsorbSound
  <1> HIDE DEF new
  <1>6. /\ new \subseteq P
        /\ DepsOf(new) \subseteq new
        /\ (P \ new) \cap new = {}
        /\ Ready(new, P \ new) = {}
        /\ new \ DepsOf(new) = Maximal(new)
    <2>1. {} \cup new = new /\ Maximal({}) \cup new = new
      BY DEF Maximal
    <2> QED
      BY <1>5, <2>1 DEF Extends
  <1>7. /\ graph' = [graph EXCEPT ![t] = new]
        /\ queue' = [queue EXCEPT ![t] = P \ new]
        /\ heads' = [heads EXCEPT ![t] = new \ DepsOf(new)]
        /\ \E k \in OpCounter : maxOp' = [maxOp EXCEPT ![t] = k]
    <2>1. ({} \cup P) \ {} = P /\ {} \cup new = new
      OBVIOUS
    <2>2. AbsorbInto(t, {}, {}, {}, 0, P)
      BY DEF ForkAt, P
    <2> QED
      BY <2>1, <2>2 DEF AbsorbInto, UpdateHeads, new
  <1>8. TypeOK'
    BY <1>1, <1>2, <1>3, <1>6, <1>7 DEF ForkAt, TypeOK
  <1>9. /\ graph'[t] = new /\ queue'[t] = P \ new
        /\ heads'[t] = Maximal(new)
        /\ \A q \in Replica \ {t} :
               graph'[q] = graph[q] /\ queue'[q] = queue[q] /\ heads'[q] = heads[q]
    BY <1>6, <1>7 DEF TypeOK
  <1>10. ActorsDistinct' /\ OwnChangesHeld'
    BY <1>1, <1>2, <1>9, FreshActorSound
  <1>11. OnlyMade'
    BY <1>2, <1>3, <1>6, <1>9 DEF OnlyMade, DepsOf
  <1>12. CausallyClosed' /\ QueueDrained'
    BY <1>2, <1>6, <1>9 DEF CausallyClosed, QueueDrained, DepsOf, Ready
  <1>13. HeadsExact'
    BY <1>2, <1>9 DEF HeadsExact, Maximal, DepsOf
  <1>14. DiskSound'
    BY <1>2 DEF DiskSound, DepsOf, Ready
  <1> QED
    BY <1>8, <1>10, <1>11, <1>12, <1>13, <1>14

\* save keeps the inductive invariant: it writes what is in memory.
LEMMA SavePreserves ==
    ASSUME IInv, NEW r \in Replica, Save(r)
    PROVE  IInv'
  <1> USE DEF IInv
  <1>1. UNCHANGED <<made, deps, past, nOps, opEnd, graph, heads, queue, maxOp,
                    actor, panicked>>
    BY DEF Save, history, document
  <1>2. disk'.graph = graph[r] /\ disk'.queue = queue[r]
    BY DEF Save
  <1>3. TypeOK'
    BY <1>1 DEF Save, TypeOK
  <1>4. /\ OnlyMade' /\ ActorsDistinct' /\ OwnChangesHeld'
        /\ CausallyClosed' /\ QueueDrained' /\ HeadsExact'
    BY <1>1, <1>2 DEF OnlyMade, ActorsDistinct, OwnChangesHeld, CausallyClosed,
                      QueueDrained, HeadsExact, DepsOf, Maximal, Ready
  <1>5. DiskSound'
    BY <1>1, <1>2 DEF DiskSound, CausallyClosed, QueueDrained, DepsOf, Ready
  <1> QED
    BY <1>3, <1>4, <1>5

\* load keeps the inductive invariant: nothing saved in the queue is ready.
LEMMA LoadPreserves ==
    ASSUME IInv, NEW r \in Replica, Load(r)
    PROVE  /\ IInv'
           /\ graph'[r] = disk.graph
           /\ queue'[r] = disk.queue
  <1> USE DEF IInv
  <1>1. PICK b \in Base : FreshActor(b) /\ actor' = [actor EXCEPT ![r] = b]
    BY DEF Load
  <1>2. UNCHANGED <<made, deps, past, nOps, opEnd, disk>>
    BY DEF Load, history
  <1>3. PICK m \in OpCounter :
            AbsorbInto(r, disk.graph, Maximal(disk.graph), {}, m, disk.queue)
    BY DEF Load
  <1>4. ({} \cup disk.queue) \ disk.graph = disk.queue
    BY DEF DiskSound
  <1>5. Ready(disk.graph, disk.queue) = {} /\ DepsOf({}) = {}
    BY DEF DiskSound, DepsOf
  <1>6. /\ graph' = [graph EXCEPT ![r] = disk.graph]
        /\ queue' = [queue EXCEPT ![r] = disk.queue]
        /\ heads' = [heads EXCEPT ![r] = Maximal(disk.graph)]
        /\ \E k \in OpCounter : maxOp' = [maxOp EXCEPT ![r] = k]
    <2>1. /\ graph' = [graph EXCEPT ![r] = disk.graph \cup {}]
          /\ queue' = [queue EXCEPT ![r] = disk.queue \ {}]
          /\ heads' = [heads EXCEPT ![r] = (Maximal(disk.graph) \cup {}) \ {}]
          /\ \E k \in OpCounter : maxOp' = [maxOp EXCEPT ![r] = k]
      BY <1>3, <1>4, <1>5 DEF AbsorbInto, UpdateHeads
    <2>2. /\ disk.graph \cup {} = disk.graph
          /\ disk.queue \ {} = disk.queue
          /\ (Maximal(disk.graph) \cup {}) \ {} = Maximal(disk.graph)
      OBVIOUS
    <2> QED
      BY <2>1, <2>2
  <1>7. disk.graph \subseteq Hash /\ disk.queue \subseteq Hash
    BY DEF TypeOK
  <1>8. TypeOK'
    BY <1>1, <1>2, <1>6, <1>7 DEF Load, TypeOK, Maximal
  <1>9. /\ graph'[r] = disk.graph /\ queue'[r] = disk.queue
        /\ heads'[r] = Maximal(disk.graph)
        /\ \A q \in Replica \ {r} :
               graph'[q] = graph[q] /\ queue'[q] = queue[q] /\ heads'[q] = heads[q]
    BY <1>6 DEF TypeOK
  <1>10. ActorsDistinct' /\ OwnChangesHeld'
    BY <1>1, <1>2, <1>9, FreshActorSound
  <1>11. OnlyMade' /\ CausallyClosed' /\ QueueDrained' /\ HeadsExact'
    BY <1>2, <1>9 DEF OnlyMade, CausallyClosed, QueueDrained, HeadsExact, DiskSound,
                      DepsOf, Maximal, Ready
  <1>12. DiskSound'
    BY <1>2 DEF DiskSound, DepsOf, Ready
  <1> QED
    BY <1>8, <1>9, <1>10, <1>11, <1>12

-----------------------------------------------------------------------------
(* The theorems *)

\* New documents satisfy the inductive invariant.
LEMMA InitIInv == Init => IInv
  <1> SUFFICES ASSUME Init
               PROVE  IInv
    OBVIOUS
  <1>1. 0 \in OpCounter
    BY DocumentAssumption DEF OpCounter
  <1>2. TypeOK
    BY <1>1 DEF Init, TypeOK
  <1>3. \A P : P = {} => DepsOf(P) = {} /\ Ready(P, P) = {}
    BY DEF DepsOf, Ready
  <1>4. OnlyMade /\ ActorsDistinct /\ OwnChangesHeld /\ DiskSound
    BY <1>3 DEF Init, OnlyMade, ActorsDistinct, OwnChangesHeld, DiskSound
  <1>5. CausallyClosed /\ QueueDrained /\ HeadsExact
    BY <1>3 DEF Init, CausallyClosed, QueueDrained, HeadsExact, Maximal
  <1> QED
    BY <1>2, <1>4, <1>5 DEF IInv

\* Every step keeps the inductive invariant and the changes already made.
LEMMA StepPreserves ==
    ASSUME IInv, [Next]_vars
    PROVE  /\ IInv'
           /\ \A h \in made : deps'[h] = deps[h] /\ opEnd'[h] = opEnd[h]
  <1>1. CASE UNCHANGED vars
    BY <1>1 DEF vars, history, document, IInv, TypeOK, OnlyMade, ActorsDistinct,
                OwnChangesHeld, CausallyClosed, QueueDrained, HeadsExact, DiskSound,
                DepsOf, Maximal, Ready
  <1>2. ASSUME NEW r \in Replica, NEW n \in {0, 1}, CommitOnHeads(r, n)
        PROVE  IInv' /\ \A h \in made : deps'[h] = deps[h] /\ opEnd'[h] = opEnd[h]
    BY <1>2, CommitOnHeadsReady, LocalChangePreserves
  <1>3. ASSUME NEW r \in Replica, NEW H, CommitAt(r, H)
        PROVE  IInv' /\ \A h \in made : deps'[h] = deps[h] /\ opEnd'[h] = opEnd[h]
    BY <1>3, CommitAtReady, LocalChangePreserves
  <1>4. ASSUME NEW r \in Replica, NEW B \in SUBSET made, Absorb(r, B)
        PROVE  IInv' /\ UNCHANGED <<deps, opEnd>>
    BY <1>4, AbsorbPreserves DEF Absorb, history
  <1>5. ASSUME NEW r \in Replica, NEW t \in Replica, Merge(r, t) \/ Pull(r, t)
        PROVE  IInv' /\ UNCHANGED <<deps, opEnd>>
    <2>1. graph[t] \ graph[r] \in SUBSET made
      BY DEF IInv, OnlyMade
    <2>2. GetHashes(graph[t], heads[r] \cap graph[t]) \in SUBSET made
      BY DEF IInv, OnlyMade, GetHashes
    <2> QED
      BY <1>4, <1>5, <2>1, <2>2 DEF Merge, Pull
  <1>6. ASSUME NEW r \in Replica, Panic(r)
        PROVE  IInv' /\ UNCHANGED <<deps, opEnd>>
    BY <1>6, PanicPreserves DEF Panic, history
  <1>7. ASSUME NEW r \in Replica, NEW t \in Replica, Fork(r, t)
        PROVE  IInv' /\ UNCHANGED <<deps, opEnd>>
    BY <1>7, ForkPreserves DEF Fork, history
  <1>8. ASSUME NEW r \in Replica, Save(r)
        PROVE  IInv' /\ UNCHANGED <<deps, opEnd>>
    BY <1>8, SavePreserves DEF Save, history
  <1>9. ASSUME NEW r \in Replica, Load(r)
        PROVE  IInv' /\ UNCHANGED <<deps, opEnd>>
    BY <1>9, LoadPreserves DEF Load, history
  <1>10. ASSUME NEW r \in Replica, NEW t \in Replica, NEW H, ForkAt(r, t, H)
         PROVE  IInv' /\ UNCHANGED <<deps, opEnd>>
    BY <1>10, ForkAtPreserves DEF ForkAt, history
  <1> QED
    BY <1>1, <1>2, <1>3, <1>4, <1>5, <1>6, <1>7, <1>8, <1>9, <1>10
       DEF Next, Commit, EmptyCommit, ApplyChanges, ApplyPanics, ForkAtPanics

\* The inductive invariant holds in every reachable state.
THEOREM InvariantHolds == Spec => []IInv
  <1>1. IInv /\ [Next]_vars => IInv'
    BY StepPreserves
  <1> QED
    BY InitIInv, <1>1, PTL DEF Spec

\* Every variable keeps its type, whatever the replicas do.
THEOREM TypeCorrect == Spec => []TypeOK
  <1>1. IInv => TypeOK
    BY DEF IInv
  <1> QED
    BY InvariantHolds, <1>1, PTL

\* No order, loss or repetition of changes, crash or restart makes a document
\* hold a change without its dependencies.
THEOREM AlwaysCausallyClosed == Spec => []CausallyClosed
  <1>1. IInv => CausallyClosed
    BY DEF IInv
  <1> QED
    BY InvariantHolds, <1>1, PTL

\* Whatever is queued is really waiting for a dependency.
THEOREM AlwaysQueueWaits == Spec => []QueueWaits
  <1>1. IInv => QueueWaits
    BY DrainedWaits DEF IInv, QueueDrained, QueueWaits
  <1> QED
    BY InvariantHolds, <1>1, PTL

\* The incrementally maintained heads are the maximal changes.
THEOREM AlwaysHeadsExact == Spec => []HeadsExact
  <1>1. IInv => HeadsExact
    BY DEF IInv
  <1> QED
    BY InvariantHolds, <1>1, PTL

\* A change never changes: no commit reuses an actor and sequence number.
THEOREM NoNameReused == Spec => ChangesImmutable
  <1>1. IInv /\ [Next]_vars =>
            [\A h \in made : deps'[h] = deps[h] /\ opEnd'[h] = opEnd[h]]_vars
    BY StepPreserves
  <1> QED
    BY InvariantHolds, <1>1, PTL DEF Spec, ChangesImmutable

\* A load gives back the saved graph and queue: no queued change is lost and
\* none is applied by reading it.
THEOREM SavedDocumentComesBack == Spec => LoadRestores
  <1>1. IInv /\ [Next]_vars =>
            [\A r \in Replica : Load(r) =>
                /\ graph'[r] = disk.graph
                /\ queue'[r] = disk.queue]_vars
    BY LoadPreserves
  <1> QED
    BY InvariantHolds, <1>1, PTL DEF Spec, LoadRestores

-----------------------------------------------------------------------------
(* History: what past holds, how sequence numbers and operation counters   *)
(* grow.  Nothing here is proved by induction over a graph.  What one would *)
(* show that way (closed sets contain the pasts of their members, maximal  *)
(* changes cover a set) is stated for all sets of changes at once and kept *)
(* by every commit, which puts one change on top of those that exist.      *)

\* The past of a change holds it and, with each change, what that depends on.
PastSound ==
    \A h \in made : h \in past[h] /\ past[h] \subseteq made /\ DepsOf(past[h]) \subseteq past[h]

\* ... and it is the least such set.
PastLeast == \A G \in SUBSET made : DepsOf(G) \subseteq G => Past(G) \subseteq G

\* Each change of a set is in the past of a maximal one.
MaximalCovers == \A G \in SUBSET made : G \subseteq Past(Maximal(G))

\* The sequence numbers of an actor have no gap.
SeqsGapless == \A h \in made : \A k \in 1 .. SeqNum(h) : <<ActorOf(h), k>> \in made

\* Operations are counted from one.
OpsCounted == \A h \in made : nOps[h] <= opEnd[h]

\* A later change of an actor starts counting after an earlier one.
CountersGrow ==
    \A g, h \in made :
        ActorOf(g) = ActorOf(h) /\ SeqNum(g) < SeqNum(h) => opEnd[g] <= opEnd[h] - nOps[h]

\* The counter of an empty change is that of an operation in its past.
EmptyCounted ==
    \A h \in made : nOps[h] = 0 /\ opEnd[h] > 0 =>
        \E g \in past[h] : nOps[g] > 0 /\ opEnd[g] >= opEnd[h]

\* ActorsOrdered reaches back to the first change of an actor.
OrderedThroughout ==
    ActorsOrdered =>
        \A g, h \in made : ActorOf(g) = ActorOf(h) /\ SeqNum(g) < SeqNum(h) => g \in past[h]

\* What is inductive together with IInv.
HInv ==
    /\ PastSound
    /\ PastLeast
    /\ MaximalCovers
    /\ SeqsGapless
    /\ OpsCounted
    /\ CountersGrow
    /\ EmptyCounted
    /\ OrderedThroughout
    /\ OrderedButForEmpty
    /\ OpCounterExact
    /\ NoSeqGapInOrder

-----------------------------------------------------------------------------
(* Pasts *)

\* The past of a change holds the pasts of its members.
LEMMA PastTransitive ==
    ASSUME PastSound, PastLeast, NEW h \in made, NEW g \in past[h]
    PROVE  past[g] \subseteq past[h]
  <1>1. past[h] \in SUBSET made /\ DepsOf(past[h]) \subseteq past[h]
    BY DEF PastSound
  <1>2. Past(past[h]) \subseteq past[h]
    BY <1>1 DEF PastLeast
  <1> QED
    BY <1>2 DEF Past

\* A closed set holds what its members are based on.
LEMMA ClosedHoldsPast ==
    ASSUME PastLeast, NEW G \in SUBSET made, DepsOf(G) \subseteq G, NEW h \in G
    PROVE  past[h] \subseteq G
  BY DEF PastLeast, Past

\* The heads of a document stand for all that it holds.
LEMMA HeadsCover ==
    ASSUME IInv, HInv, NEW r \in Replica
    PROVE  Past(heads[r]) = graph[r]
  <1>1. /\ graph[r] \in SUBSET made
        /\ DepsOf(graph[r]) \subseteq graph[r]
        /\ heads[r] = Maximal(graph[r])
    BY DEF IInv, OnlyMade, CausallyClosed, HeadsExact
  <1>2. Past(graph[r]) \subseteq graph[r] /\ graph[r] \subseteq Past(heads[r])
    BY <1>1 DEF HInv, PastLeast, MaximalCovers
  <1>3. heads[r] \subseteq graph[r]
    BY <1>1 DEF Maximal
  <1> QED
    BY <1>2, <1>3 DEF Past

-----------------------------------------------------------------------------
(* A local commit *)

\* What is committed is based on all that its document holds, or is isolated
\* where the actor is usable.
CommitBased(r, a, s, D, n) ==
    /\ CommitReady(r, a, s, D)
    /\ IsNextSeq(graph[r], a, s)
    /\ graph[r] \subseteq Past(D) \/ (n = 1 /\ UsableAt(graph[r], D, a))

\* A commit on the heads (transaction_args without heads) is based on all.
LEMMA CommitOnHeadsBased ==
    ASSUME IInv, HInv, NEW r \in Replica, NEW n \in {0, 1}, CommitOnHeads(r, n)
    PROVE  \E a, s, D : CommitBased(r, a, s, D, n) /\ AddLocalChange(r, a, s, D, n)
  <1> DEFINE a == <<actor[r], 0>>
  <1>1. a \in Actor /\ a[1] = actor[r]
    BY DocumentAssumption DEF IInv, TypeOK, Actor
  <1>2. PICK s \in 1 .. MaxSeq :
            /\ IsNextSeq(graph[r], a, s)
            /\ AddLocalChange(r, a, s,
                   heads[r] \cup (IF s > 1 THEN {<<a, s - 1>>} ELSE {}), n)
    BY DEF CommitOnHeads
  <1> DEFINE D == heads[r] \cup (IF s > 1 THEN {<<a, s - 1>>} ELSE {})
  <1>3. D \subseteq graph[r]
    BY <1>2 DEF IsNextSeq, IInv, HeadsExact, Maximal
  <1>4. graph[r] \subseteq Past(D)
    BY HeadsCover DEF Past
  <1> QED
    BY <1>1, <1>2, <1>3, <1>4 DEF CommitBased, CommitReady, IsNextSeq

\* A commit isolated at older heads is made where isolate_actor allows it.
LEMMA CommitAtBased ==
    ASSUME IInv, NEW r \in Replica, NEW H, CommitAt(r, H)
    PROVE  \E a, s, D : CommitBased(r, a, s, D, 1) /\ AddLocalChange(r, a, s, D, 1)
  <1>1. PICK l \in 0 .. MaxLevel, s \in 1 .. MaxSeq :
            /\ H \subseteq graph[r]
            /\ UsableAt(graph[r], H, <<actor[r], l>>)
            /\ IsNextSeq(graph[r], <<actor[r], l>>, s)
            /\ AddLocalChange(r, <<actor[r], l>>, s, H, 1)
    BY DEF CommitAt
  <1>2. <<actor[r], l>> \in Actor
    BY DEF IInv, TypeOK, Actor
  <1> QED
    BY <1>1, <1>2 DEF CommitBased, CommitReady, IsNextSeq

\* The new change h on top of D with n operations, and nothing else that
\* matters here.
Appended(r, h, D, n) ==
    /\ h \in Hash \ made
    /\ D \subseteq graph[r]
    /\ graph[r] \subseteq made
    /\ made' = made \cup {h}
    /\ deps'[h] = D
    /\ past'[h] = {h} \cup Past(D)
    /\ nOps'[h] = n
    /\ opEnd'[h] = maxOp[r] + n
    /\ \A g \in made : /\ deps'[g] = deps[g]
                       /\ past'[g] = past[g]
                       /\ nOps'[g] = nOps[g]
                       /\ opEnd'[g] = opEnd[g]

\* A commit does that.
LEMMA CommitAppends ==
    ASSUME IInv, NEW r \in Replica, NEW a, NEW s, NEW D, NEW n \in {0, 1},
           CommitReady(r, a, s, D), AddLocalChange(r, a, s, D, n)
    PROVE  Appended(r, <<a, s>>, D, n)
  <1> DEFINE h == <<a, s>>
  <1>1. h \in Hash \ made
    BY CommitNameFresh
  <1>2. D \subseteq graph[r] /\ graph[r] \subseteq made /\ made \subseteq Hash
    BY DEF CommitReady, IInv, OnlyMade, TypeOK
  <1>3. /\ made' = made \cup {h}
        /\ deps' = [deps EXCEPT ![h] = D]
        /\ past' = [past EXCEPT ![h] = {h} \cup Past(D)]
        /\ nOps' = [nOps EXCEPT ![h] = n]
        /\ opEnd' = [opEnd EXCEPT ![h] = maxOp[r] + n]
    BY DEF AddLocalChange, RecordChange
  <1> HIDE DEF h
  <1> QED
    BY <1>1, <1>2, <1>3 DEF Appended, IInv, TypeOK, h

\* Nothing changes for sets of changes that were made before.
LEMMA OldSetsStay ==
    ASSUME NEW r, NEW h, NEW D, NEW n, Appended(r, h, D, n), NEW S \in SUBSET made
    PROVE  DepsOf(S)' = DepsOf(S) /\ Past(S)' = Past(S)
  <1>1. \A g \in S : deps'[g] = deps[g] /\ past'[g] = past[g]
    BY DEF Appended
  <1> QED
    BY <1>1 DEF DepsOf, Past

\* The past of the new change is sound and the least one.
LEMMA AppendedPast ==
    ASSUME IInv, HInv, NEW r \in Replica, NEW h, NEW D, NEW n, Appended(r, h, D, n)
    PROVE  PastSound' /\ PastLeast'
  <1> USE DEF HInv
  <1>1. D \in SUBSET made /\ h \notin made /\ made' = made \cup {h}
    BY DEF Appended
  <1>2. /\ Past(D) \subseteq made
        /\ D \subseteq Past(D)
        /\ DepsOf(Past(D)) \subseteq Past(D)
    BY <1>1 DEF PastSound, Past, DepsOf
  <1>3. deps'[h] = D /\ past'[h] = {h} \cup Past(D)
    BY DEF Appended
  <1>4. PastSound'
    <2> SUFFICES ASSUME NEW g \in made \cup {h}
                 PROVE  g \in past'[g] /\ past'[g] \subseteq made' /\ DepsOf(past[g])' \subseteq past'[g]
      BY <1>1 DEF PastSound
    <2>1. CASE g \in made
      <3>1. past'[g] = past[g] /\ past[g] \in SUBSET made
        BY <2>1 DEF Appended, PastSound
      <3>2. \A f \in past[g] : deps'[f] = deps[f]
        BY <3>1 DEF Appended
      <3> QED
        BY <2>1, <3>1, <3>2, <1>1 DEF PastSound, DepsOf
    <2>2. CASE g = h
      <3>1. \A f \in Past(D) : deps'[f] = deps[f]
        BY <1>2 DEF Appended
      <3>2. UNION {deps'[f] : f \in {h} \cup Past(D)} = D \cup DepsOf(Past(D))
        BY <3>1, <1>3 DEF DepsOf
      <3> QED
        BY <2>2, <3>2, <1>1, <1>2, <1>3 DEF DepsOf
    <2> QED
      BY <2>1, <2>2
  <1>5. PastLeast'
    <2> SUFFICES ASSUME NEW G \in SUBSET (made \cup {h}),
                        UNION {deps'[g] : g \in G} \subseteq G,
                        NEW g \in G
                 PROVE  past'[g] \subseteq G
      BY <1>1 DEF PastLeast, Past, DepsOf
    <2> DEFINE F == G \ {h}
    <2>1. F \in SUBSET made /\ \A f \in F : deps'[f] = deps[f] /\ deps[f] \subseteq made
      BY DEF Appended, IInv, OnlyMade, DepsOf
    <2>2. DepsOf(F) \subseteq F
      BY <2>1, <1>1 DEF DepsOf
    <2>3. Past(F) \subseteq F
      BY <2>1, <2>2 DEF PastLeast
    <2>4. CASE g \in F
      BY <2>4, <2>1, <2>3 DEF Past, Appended
    <2>5. CASE g = h
      <3>1. D \subseteq F
        BY <2>5, <1>1, <1>3
      <3>2. Past(D) \subseteq Past(F)
        BY <3>1 DEF Past
      <3> QED
        BY <2>3, <2>5, <3>2, <1>3
    <2> QED
      BY <2>4, <2>5
  <1> QED
    BY <1>4, <1>5

\* The new change and what was maximal and is not in D are maximal.
LEMMA AppendedMaximal ==
    ASSUME IInv, HInv, NEW r \in Replica, NEW h, NEW D, NEW n, Appended(r, h, D, n)
    PROVE  MaximalCovers'
  <1> USE DEF HInv
  <1>1. D \in SUBSET made /\ h \notin made /\ made' = made \cup {h}
    BY DEF Appended
  <1>2. deps'[h] = D /\ past'[h] = {h} \cup Past(D)
    BY DEF Appended
  <1> SUFFICES ASSUME NEW G \in SUBSET (made \cup {h}), NEW g \in G
               PROVE  \E m \in G : (\A f \in G : m \notin deps'[f]) /\ g \in past'[m]
    <2>1. ASSUME NEW G \in SUBSET (made \cup {h}), NEW g \in G,
                 NEW m \in G, \A f \in G : m \notin deps'[f], g \in past'[m]
          PROVE  g \in Past(Maximal(G))'
      <3>1. m \in Maximal(G)'
        BY <2>1 DEF Maximal, DepsOf
      <3> QED
        BY <2>1, <3>1 DEF Past
    <2> QED
      BY <2>1, <1>1 DEF MaximalCovers
  <1> DEFINE F == G \ {h}
  <1>3. F \in SUBSET made /\ \A f \in F : deps'[f] = deps[f] /\ past'[f] = past[f] /\ deps[f] \subseteq made
    BY DEF Appended, IInv, OnlyMade, DepsOf
  <1>4. h \in G => \A f \in G : h \notin deps'[f]
    BY <1>1, <1>2, <1>3
  <1>5. CASE g = h
    BY <1>2, <1>4, <1>5
  <1>6. CASE g \in F
    <2>1. PICK m \in F : (\A f \in F : m \notin deps[f]) /\ g \in past[m]
      <3>1. g \in Past(Maximal(F))
        BY <1>3, <1>6 DEF MaximalCovers
      <3>2. PICK m \in Maximal(F) : g \in past[m]
        BY <3>1 DEF Past
      <3> QED
        BY <3>2 DEF Maximal, DepsOf
    <2>2. CASE h \in G /\ m \in D
      <3>1. g \in Past(D)
        BY <2>1, <2>2 DEF Past
      <3> QED
        BY <3>1, <2>2, <1>2, <1>4
    <2>3. CASE h \notin G \/ m \notin D
      BY <2>1, <2>3, <1>2, <1>3
    <2> QED
      BY <2>2, <2>3
  <1> QED
    BY <1>5, <1>6

\* The other changes of the actor are in the document and earlier.
LEMMA OwnChangesEarlier ==
    ASSUME IInv, HInv, NEW r \in Replica, NEW a, NEW s, NEW D, NEW n,
           CommitBased(r, a, s, D, n), NEW g \in made, ActorOf(g) = a
    PROVE  g \in graph[r] /\ g = <<a, SeqNum(g)>> /\ SeqNum(g) \in 1 .. s - 1
  <1>1. g \in Hash /\ s \in Nat
    BY DocumentAssumption DEF IInv, TypeOK, CommitBased, CommitReady
  <1>2. g = <<a, SeqNum(g)>> /\ SeqNum(g) \in Nat /\ SeqNum(g) >= 1
    BY <1>1, DocumentAssumption DEF Hash, ActorOf, SeqNum
  <1>3. g \in graph[r]
    BY DEF CommitBased, CommitReady, IInv, OwnChangesHeld, BaseOf, ActorOf
  <1>4. <<a, s>> \notin made
    BY CommitNameFresh DEF CommitBased
  <1>5. s \notin 1 .. SeqNum(g)
    BY <1>4 DEF HInv, SeqsGapless
  <1> QED
    BY <1>1, <1>2, <1>3, <1>5, DocumentAssumption DEF CommitBased, CommitReady

\* The sequence numbers go on without a gap.
LEMMA AppendedSeqs ==
    ASSUME IInv, HInv, NEW r \in Replica, NEW a, NEW s, NEW D, NEW n,
           CommitBased(r, a, s, D, n), Appended(r, <<a, s>>, D, n)
    PROVE  SeqsGapless'
  <1> DEFINE h == <<a, s>>
  <1>1. made' = made \cup {h} /\ graph[r] \subseteq made
    BY DEF Appended
  <1>2. s \in Nat /\ (s > 1 => <<a, s - 1>> \in graph[r])
    BY DEF CommitBased, CommitReady, IsNextSeq
  <1> SUFFICES ASSUME NEW g \in made \cup {h}, NEW k \in 1 .. SeqNum(g)
               PROVE  <<ActorOf(g), k>> \in made \cup {h}
    BY <1>1 DEF SeqsGapless
  <1>3. CASE g \in made
    BY <1>3 DEF HInv, SeqsGapless
  <1>4. CASE g = h
    <2>1. ActorOf(g) = a /\ SeqNum(g) = s
      BY <1>4 DEF ActorOf, SeqNum
    <2>2. CASE k = s
      BY <2>1, <2>2
    <2>3. CASE k # s
      <3>1. s > 1 /\ k \in 1 .. s - 1
        BY <2>1, <2>3, <1>2
      <3>2. <<a, s - 1>> \in made
        BY <3>1, <1>1, <1>2
      <3>3. ActorOf(<<a, s - 1>>) = a /\ SeqNum(<<a, s - 1>>) = s - 1
        BY DEF ActorOf, SeqNum
      <3> QED
        BY <3>1, <3>2, <3>3, <2>1 DEF HInv, SeqsGapless
    <2> QED
      BY <2>2, <2>3
  <1> QED
    BY <1>3, <1>4

\* Counters are numbers, and that of a document is not below any of its changes.
LEMMA CountersBelow ==
    ASSUME IInv, HInv, NEW r \in Replica
    PROVE  /\ maxOp[r] \in Nat
           /\ \A g \in made : g \in Hash /\ opEnd[g] \in Nat /\ nOps[g] \in {0, 1}
           /\ \A g \in graph[r] : opEnd[g] <= maxOp[r]
           /\ maxOp[r] > 0 => \E g \in graph[r] : opEnd[g] = maxOp[r]
  BY DocumentAssumption DEF IInv, TypeOK, OpCounter, HInv, OpCounterExact, IsMax

\* The new change counts on from what its document holds.
LEMMA AppendedCounters ==
    ASSUME IInv, HInv, NEW r \in Replica, NEW a, NEW s, NEW D, NEW n \in {0, 1},
           CommitBased(r, a, s, D, n), Appended(r, <<a, s>>, D, n)
    PROVE  OpsCounted' /\ CountersGrow' /\ EmptyCounted'
  <1> DEFINE h == <<a, s>>
  <1>1. made' = made \cup {h} /\ h \notin made
    BY DEF Appended
  <1>2. nOps'[h] = n /\ opEnd'[h] = maxOp[r] + n /\ past'[h] = {h} \cup Past(D)
    BY DEF Appended
  <1>3. ActorOf(h) = a /\ SeqNum(h) = s
    BY DEF ActorOf, SeqNum
  <1>4. \A g \in made : opEnd'[g] = opEnd[g] /\ nOps'[g] = nOps[g] /\ past'[g] = past[g]
    BY DEF Appended
  <1>5. \A g \in made : ActorOf(g) = a => g \in graph[r] /\ SeqNum(g) \in 1 .. s - 1
    BY OwnChangesEarlier
  <1>6. s \in Nat
    BY DEF CommitBased, CommitReady
  <1> HIDE DEF h
  <1>7. CountersGrow'
    <2> SUFFICES ASSUME NEW g \in made \cup {h}, NEW f \in made \cup {h},
                        ActorOf(g) = ActorOf(f), SeqNum(g) < SeqNum(f)
                 PROVE  opEnd'[g] <= opEnd'[f] - nOps'[f]
      BY <1>1 DEF CountersGrow
    <2>1. CASE g \in made /\ f \in made
      BY <2>1, <1>4 DEF HInv, CountersGrow
    <2>2. CASE g \in made /\ f = h
      <3>1. opEnd[g] <= maxOp[r]
        BY <2>2, <1>3, <1>5, CountersBelow
      <3> QED
        BY <3>1, <2>2, <1>2, <1>4, CountersBelow
    <2>3. CASE g = h
      <3>1. ActorOf(f) = a /\ s < SeqNum(f)
        BY <2>3, <1>3
      <3>2. f # h
        BY <3>1, <1>3, <1>6
      <3> QED
        BY <3>1, <3>2, <1>5, <1>6
    <2> QED
      BY <2>1, <2>2, <2>3
  <1>8. EmptyCounted'
    <2> SUFFICES ASSUME NEW f \in made \cup {h}, nOps'[f] = 0, opEnd'[f] > 0
                 PROVE  \E g \in past'[f] : nOps'[g] > 0 /\ opEnd'[g] >= opEnd'[f]
      BY <1>1 DEF EmptyCounted
    <2>1. CASE f \in made
      <3>1. past[f] \subseteq made
        BY <2>1 DEF HInv, PastSound
      <3> QED
        BY <2>1, <3>1, <1>4 DEF HInv, EmptyCounted
    <2>2. CASE f = h
      <3>1. n = 0 /\ opEnd'[h] = maxOp[r]
        BY <2>2, <1>2, CountersBelow
      <3>2. graph[r] \subseteq past'[h]
        BY <3>1, <1>2 DEF CommitBased
      <3>3. PICK g \in graph[r] : opEnd[g] = maxOp[r]
        BY <3>1, <2>2, CountersBelow
      <3>4. g \in made /\ past[g] \subseteq graph[r]
        <4>1. graph[r] \in SUBSET made /\ DepsOf(graph[r]) \subseteq graph[r]
          BY DEF IInv, OnlyMade, CausallyClosed
        <4> QED
          BY <4>1, <3>3, ClosedHoldsPast DEF HInv
      <3>5. CASE nOps[g] > 0
        BY <3>1, <3>2, <3>3, <3>4, <3>5, <2>2, <1>4, CountersBelow
      <3>6. CASE nOps[g] = 0
        <4>1. PICK e \in past[g] : nOps[e] > 0 /\ opEnd[e] >= opEnd[g]
          BY <3>1, <3>3, <3>4, <3>6, <2>2 DEF HInv, EmptyCounted
        <4>2. e \in made
          BY <4>1, <3>4 DEF HInv, PastSound
        <4> QED
          BY <4>1, <4>2, <3>1, <3>2, <3>3, <3>4, <2>2, <1>4
      <3> QED
        BY <3>4, <3>5, <3>6, CountersBelow
    <2> QED
      BY <2>1, <2>2
  <1>9. OpsCounted'
    BY <1>1, <1>2, <1>4, CountersBelow DEF HInv, OpsCounted
  <1> QED
    BY <1>7, <1>8, <1>9

\* What an isolated commit leaves out of its past is empty (isolate_actor).
LEMMA UsableCovers ==
    ASSUME IInv, HInv, NEW r \in Replica, NEW a, NEW s, NEW D, NEW n,
           CommitBased(r, a, s, D, n), NEW g \in made, ActorOf(g) = a, nOps[g] > 0
    PROVE  g \in Past(D)
  <1>1. g \in graph[r] /\ g = <<a, SeqNum(g)>> /\ SeqNum(g) \in 1 .. s - 1
    BY OwnChangesEarlier
  <1>2. CASE graph[r] \subseteq Past(D)
    BY <1>1, <1>2
  <1>3. CASE UsableAt(graph[r], D, a)
    <2> DEFINE p == <<a, s - 1>>
    <2>1. s \in 1 .. MaxSeq /\ s > 1 /\ s - 1 \in 1 .. MaxSeq
      BY <1>1, DocumentAssumption DEF CommitBased, CommitReady
    <2>2. IsLastSeq(graph[r], a, s - 1)
      <3>1. <<a, s - 1>> \in graph[r] /\ <<a, s>> \notin graph[r]
        BY <2>1 DEF CommitBased, IsNextSeq
      <3>2. (s - 1) + 1 = s
        BY <2>1
      <3> QED
        BY <3>1, <3>2 DEF IsLastSeq
    <2>3. p \in made /\ ActorOf(p) = a /\ SeqNum(p) = s - 1
      BY <2>2 DEF IsLastSeq, IInv, OnlyMade, ActorOf, SeqNum
    <2>4. opEnd[p] = 0 \/ Covers(D, a, opEnd[p])
      BY <1>3, <2>1, <2>2 DEF UsableAt
    <2> HIDE DEF p
    <2>5. opEnd[g] <= opEnd[p] /\ opEnd[g] > 0
      <3>1. g = p \/ SeqNum(g) < SeqNum(p)
        BY <1>1, <2>1, <2>3 DEF p
      <3>2. opEnd[g] <= opEnd[p]
        BY <3>1, <2>3, CountersBelow DEF HInv, CountersGrow
      <3> QED
        BY <3>2, CountersBelow DEF HInv, OpsCounted
    <2>6. PICK f \in Past(D) : ActorOf(f) = a /\ opEnd[f] >= opEnd[p]
      BY <2>4, <2>5, <2>3, CountersBelow DEF Covers
    <2>7. PICK d \in D : f \in past[d]
      BY <2>6 DEF Past
    <2>8. d \in made /\ f \in made
      BY <2>7 DEF CommitBased, CommitReady, IInv, OnlyMade, HInv, PastSound
    <2>9. f = <<a, SeqNum(f)>> /\ SeqNum(f) \in 1 .. s - 1
      BY <2>6, <2>8, OwnChangesEarlier
    <2>10. ~(SeqNum(f) < SeqNum(g))
      <3> SUFFICES ASSUME SeqNum(f) < SeqNum(g)
                   PROVE  FALSE
        OBVIOUS
      <3>1. opEnd[f] <= opEnd[g] - nOps[g]
        BY <2>6, <2>8 DEF HInv, CountersGrow
      <3> QED
        BY <3>1, <2>3, <2>5, <2>6, <2>8, CountersBelow
    <2>11. CASE f = g
      BY <2>6, <2>11
    <2>12. CASE f # g
      <3>1. SeqNum(g) < SeqNum(f)
        BY <2>9, <2>10, <2>12, <1>1
      <3>2. g \in past[f]
        BY <3>1, <2>6, <2>8 DEF HInv, OrderedButForEmpty
      <3>3. past[f] \subseteq past[d]
        BY <2>7, <2>8, PastTransitive DEF HInv
      <3> QED
        BY <3>2, <3>3, <2>7 DEF Past
    <2> QED
      BY <2>11, <2>12
  <1> QED
    BY <1>2, <1>3 DEF CommitBased

\* The changes of each actor stay in the order they were in.
LEMMA AppendedOrder ==
    ASSUME IInv, HInv, NEW r \in Replica, NEW a, NEW s, NEW D, NEW n \in {0, 1},
           CommitBased(r, a, s, D, n), Appended(r, <<a, s>>, D, n)
    PROVE  /\ OrderedButForEmpty'
           /\ OrderedThroughout'
           /\ ActorsOrdered' => ActorsOrdered
  <1> DEFINE h == <<a, s>>
  <1>1. made' = made \cup {h} /\ h \notin made /\ past'[h] = {h} \cup Past(D)
    BY DEF Appended
  <1>2. ActorOf(h) = a /\ SeqNum(h) = s /\ s \in Nat
    BY DEF ActorOf, SeqNum, CommitBased, CommitReady
  <1>3. \A g \in made : nOps'[g] = nOps[g] /\ past'[g] = past[g]
    BY DEF Appended
  <1>4. \A g \in made : ActorOf(g) = a => g = <<a, SeqNum(g)>> /\ SeqNum(g) \in 1 .. s - 1
    BY OwnChangesEarlier
  <1>5. ASSUME ActorsOrdered' PROVE ActorsOrdered
    BY <1>1, <1>3, <1>5 DEF ActorsOrdered
  <1>6. ASSUME NEW g \in made \cup {h}, NEW f \in made \cup {h},
               ActorOf(g) = ActorOf(f), SeqNum(g) < SeqNum(f)
        PROVE  /\ g \in made
               /\ f = h => ActorOf(g) = a /\ SeqNum(g) \in 1 .. s - 1 /\ g = <<a, SeqNum(g)>>
    <2>1. CASE g = h
      <3>1. ActorOf(f) = a /\ s < SeqNum(f)
        BY <2>1, <1>2, <1>6
      <3>2. f # h
        BY <3>1, <1>2
      <3> QED
        BY <3>1, <3>2, <1>2, <1>4
    <2>2. CASE g \in made
      BY <2>2, <1>2, <1>4, <1>6
    <2> QED
      BY <2>1, <2>2
  <1>7. OrderedButForEmpty'
    <2> SUFFICES ASSUME NEW g \in made \cup {h}, NEW f \in made \cup {h},
                        ActorOf(g) = ActorOf(f), SeqNum(g) < SeqNum(f), nOps'[g] > 0
                 PROVE  g \in past'[f]
      BY <1>1 DEF OrderedButForEmpty
    <2>1. CASE f \in made
      BY <2>1, <1>3, <1>6 DEF HInv, OrderedButForEmpty
    <2>2. CASE f = h
      <3>1. g \in made /\ ActorOf(g) = a /\ nOps[g] > 0
        BY <2>2, <1>3, <1>6
      <3>2. g \in Past(D)
        BY <3>1, UsableCovers
      <3> QED
        BY <3>2, <2>2, <1>1
    <2> QED
      BY <2>1, <2>2
  <1>8. OrderedThroughout'
    <2> SUFFICES ASSUME ActorsOrdered',
                        NEW g \in made \cup {h}, NEW f \in made \cup {h},
                        ActorOf(g) = ActorOf(f), SeqNum(g) < SeqNum(f)
                 PROVE  g \in past'[f]
      BY <1>1 DEF OrderedThroughout
    <2>1. CASE f \in made
      BY <2>1, <1>3, <1>5, <1>6 DEF HInv, OrderedThroughout
    <2>2. CASE f = h
      <3> DEFINE p == <<a, s - 1>>
      <3>1. g \in made /\ ActorOf(g) = a /\ SeqNum(g) \in 1 .. s - 1 /\ g = <<a, SeqNum(g)>>
        BY <2>2, <1>6
      <3>2. s > 1 /\ p # h /\ ActorOf(p) = a /\ SeqNum(p) = s - 1
        BY <3>1, <1>2 DEF ActorOf, SeqNum
      <3>3. p \in past'[h]
        BY <3>2, <1>1, <1>2 DEF ActorsOrdered
      <3> HIDE DEF p
      <3>4. PICK d \in D : p \in past[d]
        BY <3>2, <3>3, <1>1 DEF Past
      <3>5. d \in made /\ p \in made
        BY <3>4 DEF CommitBased, CommitReady, IInv, OnlyMade, HInv, PastSound
      <3>6. g = p \/ SeqNum(g) < SeqNum(p)
        BY <3>1, <3>2, <1>2 DEF p
      <3>7. g \in past[p]
        BY <3>1, <3>2, <3>5, <3>6, <1>5 DEF HInv, OrderedThroughout, PastSound
      <3>8. past[p] \subseteq past[d]
        BY <3>4, <3>5, PastTransitive DEF HInv
      <3> QED
        BY <3>4, <3>7, <3>8, <2>2, <1>1 DEF Past
    <2> QED
      BY <2>1, <2>2
  <1> QED
    BY <1>5, <1>7, <1>8

\* A commit keeps what is inductive.
LEMMA LocalChangeKeepsHistory ==
    ASSUME IInv, HInv, NEW r \in Replica, NEW a, NEW s, NEW D, NEW n \in {0, 1},
           CommitBased(r, a, s, D, n), AddLocalChange(r, a, s, D, n)
    PROVE  HInv'
  <1> DEFINE h == <<a, s>>
  <1>1. Appended(r, h, D, n)
    BY CommitAppends DEF CommitBased
  <1>2. PastSound' /\ PastLeast' /\ MaximalCovers'
    BY <1>1, AppendedPast, AppendedMaximal
  <1>3. SeqsGapless' /\ OpsCounted' /\ CountersGrow' /\ EmptyCounted'
    BY <1>1, AppendedSeqs, AppendedCounters
  <1>4. OrderedButForEmpty' /\ OrderedThroughout' /\ (ActorsOrdered' => ActorsOrdered)
    BY <1>1, AppendedOrder
  <1> HIDE DEF h
  <1>5. /\ graph'[r] = graph[r] \cup {h}
        /\ maxOp'[r] = maxOp[r] + n
        /\ \A q \in Replica \ {r} : graph'[q] = graph[q] /\ maxOp'[q] = maxOp[q]
        /\ panicked' = panicked
    BY DEF AddLocalChange, IInv, TypeOK, h
  <1>6. OpCounterExact'
    <2> SUFFICES ASSUME NEW q \in Replica
                 PROVE  IsMax(maxOp'[q], {0} \cup {opEnd'[g] : g \in graph'[q]})
      BY DEF OpCounterExact, IsMax
    <2>1. \A g \in graph[q] : opEnd'[g] = opEnd[g]
      BY <1>1 DEF Appended, IInv, OnlyMade
    <2>2. CASE q = r
      <3>1. opEnd'[h] = maxOp[r] + n
        BY <1>1 DEF Appended
      <3>2. \A g \in graph[r] : opEnd'[g] \in Nat /\ opEnd'[g] <= maxOp[r] + n
        BY <2>1, <2>2, CountersBelow DEF IInv, OnlyMade
      <3> QED
        BY <3>1, <3>2, <2>2, <1>5, CountersBelow DEF IsMax
    <2>3. CASE q # r
      <3>1. IsMax(maxOp[q], {0} \cup {opEnd[g] : g \in graph[q]})
        BY DEF HInv, OpCounterExact
      <3> QED
        BY <3>1, <2>1, <2>3, <1>5 DEF IsMax
    <2> QED
      BY <2>2, <2>3
  <1>7. NoSeqGapInOrder'
    BY <1>4, <1>5 DEF HInv, NoSeqGapInOrder, NoSeqGap
  <1> QED
    BY <1>2, <1>3, <1>4, <1>6, <1>7 DEF HInv

-----------------------------------------------------------------------------
(* Steps that make no change *)

\* What such a step has to keep.
LEMMA SameHistory ==
    ASSUME HInv, UNCHANGED history, OpCounterExact', NoSeqGapInOrder'
    PROVE  HInv'
  <1>1. made' = made /\ deps' = deps /\ past' = past /\ nOps' = nOps /\ opEnd' = opEnd
    BY DEF history
  <1>2. PastSound' /\ PastLeast' /\ MaximalCovers' /\ SeqsGapless'
    <2>1. PastSound'
      BY <1>1 DEF HInv, PastSound, DepsOf
    <2>2. PastLeast'
      BY <1>1 DEF HInv, PastLeast, Past, DepsOf
    <2>3. MaximalCovers'
      BY <1>1 DEF HInv, MaximalCovers, Past, Maximal, DepsOf
    <2>4. SeqsGapless'
      BY <1>1 DEF HInv, SeqsGapless
    <2> QED
      BY <2>1, <2>2, <2>3, <2>4
  <1>3. OpsCounted' /\ CountersGrow' /\ EmptyCounted'
    BY <1>1 DEF HInv, OpsCounted, CountersGrow, EmptyCounted
  <1>4. OrderedThroughout' /\ OrderedButForEmpty'
    BY <1>1 DEF HInv, OrderedThroughout, OrderedButForEmpty, ActorsOrdered
  <1> QED
    BY <1>2, <1>3, <1>4 DEF HInv

\* The counter m of the changes G and the new ones give that of all
\* (update_history for each change).
LEMMA CountersJoin ==
    ASSUME IInv, HInv, NEW G \in SUBSET made, NEW new \in SUBSET made,
           NEW m, NEW k,
           IsMax(m, {0} \cup {opEnd[h] : h \in G}), IsMaxOpWith(k, m, new)
    PROVE  IsMax(k, {0} \cup {opEnd[h] : h \in G \cup new})
  <1>1. \A h \in made : opEnd[h] \in Nat
    BY DocumentAssumption DEF IInv, TypeOK, OpCounter
  <1>2. m \in Nat /\ k \in Nat /\ m <= k /\ \A h \in new : opEnd[h] <= k
    BY <1>1 DEF IsMax, IsMaxOpWith
  <1>3. \A h \in G \cup new : opEnd[h] <= k
    BY <1>1, <1>2 DEF IsMax
  <1>4. k \in {0} \cup {opEnd[h] : h \in G \cup new}
    BY DEF IsMax, IsMaxOpWith
  <1> QED
    BY <1>2, <1>3, <1>4 DEF IsMax

\* What becomes of the counter of r when changes are applied to the graph G.
LEMMA AbsorbCounts ==
    ASSUME IInv, HInv, UNCHANGED history, NEW r \in Replica,
           NEW G \in SUBSET made, NEW H, NEW Q \in SUBSET made, NEW m,
           NEW B \in SUBSET made,
           IsMax(m, {0} \cup {opEnd[h] : h \in G}), AbsorbInto(r, G, H, Q, m, B)
    PROVE  OpCounterExact'
  <1> DEFINE new == Ready(G, (Q \cup B) \ G)
  <1>1. new \in SUBSET made
    BY DEF Ready
  <1>2. graph' = [graph EXCEPT ![r] = G \cup new]
    BY DEF AbsorbInto
  <1>3. PICK k \in OpCounter : IsMaxOpWith(k, m, new) /\ maxOp' = [maxOp EXCEPT ![r] = k]
    BY DEF AbsorbInto
  <1> HIDE DEF new
  <1>4. IsMax(k, {0} \cup {opEnd[h] : h \in G \cup new})
    BY <1>1, <1>3, CountersJoin
  <1>5. opEnd' = opEnd
    BY DEF history
  <1>6. /\ graph'[r] = G \cup new /\ maxOp'[r] = k
        /\ \A q \in Replica \ {r} : graph'[q] = graph[q] /\ maxOp'[q] = maxOp[q]
    BY <1>2, <1>3 DEF IInv, TypeOK
  <1> SUFFICES ASSUME NEW q \in Replica
               PROVE  IsMax(maxOp'[q], {0} \cup {opEnd[h] : h \in graph'[q]})
    BY <1>5 DEF OpCounterExact, IsMax
  <1>7. CASE q = r
    BY <1>4, <1>6, <1>7
  <1>8. CASE q # r
    BY <1>6, <1>8 DEF HInv, OpCounterExact
  <1> QED
    BY <1>7, <1>8

\* Applying changes keeps the counter; nothing fails.
LEMMA AbsorbKeepsHistory ==
    ASSUME IInv, HInv, NEW r \in Replica, NEW B \in SUBSET made, Absorb(r, B)
    PROVE  HInv'
  <1>1. UNCHANGED history /\ panicked' = panicked
    BY DEF Absorb
  <1>2. OpCounterExact'
    <2>1. graph[r] \in SUBSET made /\ queue[r] \in SUBSET made
      BY DEF IInv, OnlyMade
    <2>2. IsMax(maxOp[r], {0} \cup {opEnd[h] : h \in graph[r]})
      BY DEF HInv, OpCounterExact
    <2>3. AbsorbInto(r, graph[r], heads[r], queue[r], maxOp[r], B)
      BY DEF Absorb
    <2> QED
      BY <2>1, <2>2, <2>3, <1>1, AbsorbCounts
  <1>3. NoSeqGapInOrder'
    BY <1>1 DEF HInv, NoSeqGapInOrder, NoSeqGap, ActorsOrdered, history
  <1> QED
    BY <1>1, <1>2, <1>3, SameHistory

\* A document that starts over has not failed.
LEMMA StartsOver ==
    ASSUME IInv, HInv, UNCHANGED history, NEW t \in Replica,
           panicked' = [panicked EXCEPT ![t] = FALSE]
    PROVE  NoSeqGapInOrder'
  BY DEF IInv, TypeOK, HInv, NoSeqGapInOrder, NoSeqGap, ActorsOrdered, history

\* fork takes the counter over, fork_at counts from zero.
LEMMA ForksKeepHistory ==
    ASSUME IInv, HInv, NEW r \in Replica, NEW t \in Replica, NEW H,
           Fork(r, t) \/ ForkAt(r, t, H)
    PROVE  HInv'
  <1>1. UNCHANGED history /\ panicked' = [panicked EXCEPT ![t] = FALSE]
    BY DEF Fork, ForkAt
  <1>2. CASE Fork(r, t)
    <2>1. /\ graph'[t] = graph[r] /\ maxOp'[t] = maxOp[r]
          /\ \A q \in Replica \ {t} : graph'[q] = graph[q] /\ maxOp'[q] = maxOp[q]
      BY <1>2 DEF Fork, IInv, TypeOK
    <2>2. OpCounterExact'
      <3>1. opEnd' = opEnd
        BY <1>1 DEF history
      <3> SUFFICES ASSUME NEW q \in Replica
                   PROVE  IsMax(maxOp'[q], {0} \cup {opEnd[h] : h \in graph'[q]})
        BY <3>1 DEF OpCounterExact, IsMax
      <3>2. CASE q = t
        BY <2>1, <3>2 DEF HInv, OpCounterExact
      <3>3. CASE q # t
        BY <2>1, <3>3 DEF HInv, OpCounterExact
      <3> QED
        BY <3>2, <3>3
    <2> QED
      BY <2>2, <1>1, StartsOver, SameHistory
  <1>3. CASE ForkAt(r, t, H)
    <2>1. AbsorbInto(t, {}, {}, {}, 0, Past(H) \cap graph[r])
      BY <1>3 DEF ForkAt
    <2>2. {} \in SUBSET made /\ Past(H) \cap graph[r] \in SUBSET made
      BY DEF IInv, OnlyMade
    <2>3. IsMax(0, {0} \cup {opEnd[h] : h \in {}})
      BY DEF IsMax
    <2>4. OpCounterExact'
      BY <2>1, <2>2, <2>3, <1>1, AbsorbCounts
    <2> QED
      BY <2>4, <1>1, StartsOver, SameHistory
  <1> QED
    BY <1>2, <1>3

\* A load counts the operations of the file only, which is enough.
LEMMA LoadKeepsHistory ==
    ASSUME IInv, HInv, NEW r \in Replica, Load(r)
    PROVE  HInv'
  <1>1. UNCHANGED history /\ panicked' = [panicked EXCEPT ![r] = FALSE]
    BY DEF Load
  <1>2. PICK m \in OpCounter :
            /\ IsMax(m, {0} \cup {opEnd[h] : h \in {g \in disk.graph : nOps[g] > 0}})
            /\ AbsorbInto(r, disk.graph, Maximal(disk.graph), {}, m, disk.queue)
    BY DEF Load
  <1>3. disk.graph \in SUBSET made /\ disk.queue \in SUBSET made /\ {} \in SUBSET made
    BY DEF IInv, OnlyMade
  <1>4. \A h \in made : opEnd[h] \in Nat /\ nOps[h] \in {0, 1}
    BY <1>3, DocumentAssumption DEF IInv, TypeOK, OpCounter
  <1>5. m \in Nat
    BY <1>2, DocumentAssumption DEF OpCounter
  <1>6. ASSUME NEW h \in disk.graph PROVE opEnd[h] <= m
    <2>1. CASE nOps[h] > 0 \/ opEnd[h] = 0
      BY <2>1, <1>2, <1>3, <1>4, <1>5 DEF IsMax
    <2>2. CASE nOps[h] = 0 /\ opEnd[h] > 0
      <3>1. PICK g \in past[h] : nOps[g] > 0 /\ opEnd[g] >= opEnd[h]
        BY <2>2, <1>3 DEF HInv, EmptyCounted
      <3>2. past[h] \subseteq disk.graph
        BY <1>3, ClosedHoldsPast DEF IInv, DiskSound, HInv
      <3>3. opEnd[g] <= m
        BY <3>1, <3>2, <1>2 DEF IsMax
      <3> QED
        BY <3>1, <3>2, <3>3, <1>3, <1>4, <1>5
    <2> QED
      BY <2>1, <2>2, <1>3, <1>4
  <1>7. IsMax(m, {0} \cup {opEnd[h] : h \in disk.graph})
    BY <1>2, <1>5, <1>6 DEF IsMax
  <1>8. OpCounterExact'
    BY <1>1, <1>2, <1>3, <1>7, AbsorbCounts
  <1> QED
    BY <1>1, <1>8, StartsOver, SameHistory

\* Among ordered changes that are closed, none comes before the one that the
\* assertion of add_changes asks for.
LEMMA OrderedNeverFails ==
    ASSUME IInv, HInv, ActorsOrdered, NEW G \in SUBSET made, NEW new \in SUBSET made,
           DepsOf(G \cup new) \subseteq G \cup new
    PROVE  ~SeqMayFail(G, new)
  <1> SUFFICES ASSUME NEW h \in new, SeqNum(h) > 1
               PROVE  <<ActorOf(h), SeqNum(h) - 1>> \in G \cup (past[h] \cap new)
    BY DEF SeqMayFail
  <1>1. <<ActorOf(h), SeqNum(h) - 1>> \in past[h]
    BY DEF ActorsOrdered
  <1>2. past[h] \subseteq G \cup new
    <2>1. G \cup new \in SUBSET made /\ h \in G \cup new
      OBVIOUS
    <2> QED
      BY <2>1, ClosedHoldsPast DEF HInv
  <1> QED
    BY <1>1, <1>2

\* The past of what a document holds is held, and closed.
LEMMA PastHeld ==
    ASSUME IInv, HInv, NEW r \in Replica, NEW H \in SUBSET graph[r]
    PROVE  /\ Past(H) \subseteq graph[r]
           /\ DepsOf(Past(H)) \subseteq Past(H)
  <1>1. graph[r] \in SUBSET made /\ DepsOf(graph[r]) \subseteq graph[r]
    BY DEF IInv, OnlyMade, CausallyClosed
  <1>2. Past(graph[r]) \subseteq graph[r]
    BY <1>1 DEF HInv, PastLeast
  <1>3. \A h \in H : DepsOf(past[h]) \subseteq past[h]
    BY <1>1 DEF HInv, PastSound
  <1> QED
    BY <1>2, <1>3 DEF Past, DepsOf

\* When the assertion fails, changes of an actor were out of order.
LEMMA PanicsKeepHistory ==
    ASSUME IInv, HInv, NEW r \in Replica,
           \/ \E B \in SUBSET made : ApplyPanics(r, B)
           \/ \E H \in SUBSET made : ForkAtPanics(r, H)
    PROVE  HInv'
  <1>1. /\ UNCHANGED <<history, graph, maxOp>>
        /\ panicked' = [panicked EXCEPT ![r] = TRUE]
    BY DEF ApplyPanics, ForkAtPanics, Panic
  <1>2. CASE \E B \in SUBSET made : ApplyPanics(r, B)
    <2>1. PICK B \in SUBSET made : ApplyPanics(r, B)
      BY <1>2
    <2> DEFINE P == (queue[r] \cup B) \ graph[r]
    <2>2. graph[r] \in SUBSET made /\ P \in SUBSET made
      BY DEF IInv, OnlyMade
    <2>3. SeqMayFail(graph[r], Ready(graph[r], P))
      BY <2>1 DEF ApplyPanics
    <2>4. P \cap graph[r] = {} /\ DepsOf(graph[r]) \subseteq graph[r]
      BY DEF IInv, CausallyClosed
    <2> HIDE DEF P
    <2>5. Extends(graph[r], P, Ready(graph[r], P))
      BY <2>4, AbsorbSound
    <2>6. Ready(graph[r], P) \in SUBSET made
      BY <2>2 DEF Ready
    <2>7. DepsOf(graph[r] \cup Ready(graph[r], P)) \subseteq graph[r] \cup Ready(graph[r], P)
      BY <2>5 DEF Extends
    <2>8. ~ActorsOrdered
      BY <2>2, <2>3, <2>6, <2>7, OrderedNeverFails
    <2> QED
      BY <2>8, <1>1, SameHistory DEF HInv, NoSeqGapInOrder, ActorsOrdered, history, OpCounterExact, IsMax
  <1>3. CASE \E H \in SUBSET made : ForkAtPanics(r, H)
    <2>1. PICK H \in SUBSET made : ForkAtPanics(r, H)
      BY <1>3
    <2>2. H \in SUBSET graph[r] /\ SeqMayFail({}, Past(H) \cap graph[r])
      BY <2>1 DEF ForkAtPanics
    <2>3. Past(H) \subseteq graph[r] /\ DepsOf(Past(H)) \subseteq Past(H)
      BY <2>2, PastHeld
    <2>4. Past(H) \cap graph[r] = Past(H) /\ {} \cup Past(H) = Past(H)
      BY <2>3
    <2>5. {} \in SUBSET made /\ Past(H) \in SUBSET made
      BY <2>3 DEF IInv, OnlyMade
    <2>6. ~ActorsOrdered
      BY <2>2, <2>3, <2>4, <2>5, OrderedNeverFails
    <2> QED
      BY <2>6, <1>1, SameHistory DEF HInv, NoSeqGapInOrder, ActorsOrdered, history, OpCounterExact, IsMax
  <1> QED
    BY <1>2, <1>3

-----------------------------------------------------------------------------
(* What exchanges take over *)

\* get_hashes is exact as long as the changes of each actor are in order.
LEMMA GetHashesSound ==
    ASSUME IInv, HInv, ActorsOrdered, NEW r \in Replica, NEW H \in SUBSET graph[r]
    PROVE  GetHashes(graph[r], H) = graph[r] \ Past(H)
  <1>1. graph[r] \subseteq made /\ made \subseteq Hash /\ Past(H) \subseteq graph[r]
    BY PastHeld DEF IInv, OnlyMade, TypeOK
  <1>2. \A h \in Hash : h = <<ActorOf(h), SeqNum(h)>> /\ SeqNum(h) \in Nat
    BY DocumentAssumption DEF Hash, ActorOf, SeqNum
  <1>3. ASSUME NEW h \in GetHashes(graph[r], H) PROVE h \in graph[r] \ Past(H)
    BY <1>1, <1>2, <1>3 DEF GetHashes
  <1>4. ASSUME NEW h \in graph[r] \ Past(H), NEW g \in Past(H), ActorOf(g) = ActorOf(h)
        PROVE  SeqNum(g) < SeqNum(h)
    <2> SUFFICES ASSUME ~(SeqNum(g) < SeqNum(h))
                 PROVE  FALSE
      OBVIOUS
    <2>1. g \in made /\ h \in made /\ g # h
      BY <1>1
    <2>2. SeqNum(h) < SeqNum(g)
      BY <2>1, <1>1, <1>2, <1>4
    <2>3. h \in past[g]
      BY <2>1, <2>2, <1>4 DEF HInv, OrderedThroughout
    <2>4. PICK d \in H : g \in past[d]
      BY DEF Past
    <2>5. past[g] \subseteq past[d]
      BY <2>4, <1>1, PastTransitive DEF HInv
    <2> QED
      BY <2>3, <2>4, <2>5 DEF Past
  <1> QED
    BY <1>3, <1>4 DEF GetHashes

\* Who gets all that the document of t has in addition takes it over.
LEMMA AbsorbTakesAll ==
    ASSUME IInv, NEW r \in Replica, NEW t \in Replica, NEW B \in SUBSET made,
           graph[t] \ graph[r] \subseteq B, Absorb(r, B)
    PROVE  graph[t] \subseteq graph'[r]
  <1> DEFINE P == (queue[r] \cup B) \ graph[r]
             S == graph[t] \ graph[r]
  <1>1. graph'[r] = graph[r] \cup Ready(graph[r], P)
    BY DEF Absorb, AbsorbInto, IInv, TypeOK
  <1>2. S \in SUBSET P /\ \A h \in S : deps[h] \subseteq graph[r] \cup S
    BY DEF IInv, CausallyClosed, DepsOf
  <1>3. S \subseteq Ready(graph[r], P)
    BY <1>2 DEF Ready
  <1> QED
    BY <1>1, <1>3

\* So it is after merge and after get_changes with the receiver's heads.
LEMMA TransferTakesAll ==
    ASSUME IInv, HInv, NEW r \in Replica, NEW t \in Replica,
           Merge(r, t) \/ (Pull(r, t) /\ ActorsOrdered)
    PROVE  graph[t] \subseteq graph'[r]
  <1>1. graph[t] \in SUBSET made
    BY DEF IInv, OnlyMade
  <1>2. CASE Merge(r, t)
    BY <1>1, <1>2, AbsorbTakesAll DEF Merge
  <1>3. CASE Pull(r, t) /\ ActorsOrdered
    <2> DEFINE H == heads[r] \cap graph[t]
    <2>1. GetHashes(graph[t], H) = graph[t] \ Past(H)
      BY <1>3, GetHashesSound
    <2>2. Past(H) \subseteq graph[r]
      BY HeadsCover DEF Past
    <2>3. graph[t] \ graph[r] \subseteq GetHashes(graph[t], H)
      BY <2>1, <2>2
    <2>4. GetHashes(graph[t], H) \in SUBSET made
      BY <2>1, <1>1
    <2> QED
      BY <2>3, <2>4, <1>3, AbsorbTakesAll DEF Pull
  <1> QED
    BY <1>2, <1>3

\* fork_at gives the past of its heads and queues nothing.
LEMMA ForkAtTakesPast ==
    ASSUME IInv, HInv, NEW r \in Replica, NEW t \in Replica, NEW H, ForkAt(r, t, H)
    PROVE  graph'[t] = Past(H) /\ queue'[t] = {}
  <1>1. H \in SUBSET graph[r] /\ AbsorbInto(t, {}, {}, {}, 0, Past(H) \cap graph[r])
    BY DEF ForkAt
  <1>2. Past(H) \subseteq graph[r] /\ DepsOf(Past(H)) \subseteq Past(H)
    BY <1>1, PastHeld
  <1>3. ({} \cup (Past(H) \cap graph[r])) \ {} = Past(H)
    BY <1>2
  <1>4. Ready({}, Past(H)) = Past(H)
    BY <1>2 DEF Ready, DepsOf
  <1>5. /\ graph' = [graph EXCEPT ![t] = {} \cup Past(H)]
        /\ queue' = [queue EXCEPT ![t] = Past(H) \ Past(H)]
    BY <1>1, <1>3, <1>4 DEF AbsorbInto
  <1> QED
    BY <1>5 DEF IInv, TypeOK

-----------------------------------------------------------------------------
(* The theorems *)

\* Without changes there is no history.
LEMMA InitHInv == Init => HInv
  <1> SUFFICES ASSUME Init
               PROVE  HInv
    OBVIOUS
  <1>1. made = {}
    BY DEF Init
  <1>2. PastSound /\ SeqsGapless /\ OpsCounted /\ CountersGrow /\ EmptyCounted
    BY <1>1 DEF PastSound, SeqsGapless, OpsCounted, CountersGrow, EmptyCounted
  <1>3. OrderedThroughout /\ OrderedButForEmpty
    BY <1>1 DEF OrderedThroughout, OrderedButForEmpty
  <1>4. PastLeast /\ MaximalCovers
    BY <1>1 DEF PastLeast, MaximalCovers, Past
  <1>5. OpCounterExact
    BY DEF Init, OpCounterExact, IsMax
  <1>6. NoSeqGapInOrder
    BY DEF Init, NoSeqGapInOrder, NoSeqGap
  <1> QED
    BY <1>2, <1>3, <1>4, <1>5, <1>6 DEF HInv

\* Every step keeps what is inductive.
LEMMA StepKeepsHistory ==
    ASSUME IInv, HInv, [Next]_vars
    PROVE  HInv'
  <1>1. CASE UNCHANGED vars
    <2>1. UNCHANGED history /\ UNCHANGED <<graph, maxOp, panicked>>
      BY <1>1 DEF vars, document
    <2> QED
      BY <2>1, SameHistory DEF HInv, NoSeqGapInOrder, NoSeqGap, ActorsOrdered,
                               OpCounterExact, IsMax, history
  <1>2. ASSUME NEW r \in Replica, NEW n \in {0, 1}, CommitOnHeads(r, n)
        PROVE  HInv'
    BY <1>2, CommitOnHeadsBased, LocalChangeKeepsHistory
  <1>3. ASSUME NEW r \in Replica, NEW H, CommitAt(r, H)
        PROVE  HInv'
    BY <1>3, CommitAtBased, LocalChangeKeepsHistory
  <1>4. ASSUME NEW r \in Replica, NEW B \in SUBSET made, Absorb(r, B)
        PROVE  HInv'
    BY <1>4, AbsorbKeepsHistory
  <1>5. ASSUME NEW r \in Replica, NEW t \in Replica, Merge(r, t) \/ Pull(r, t)
        PROVE  HInv'
    <2>1. graph[t] \ graph[r] \in SUBSET made
      BY DEF IInv, OnlyMade
    <2>2. GetHashes(graph[t], heads[r] \cap graph[t]) \in SUBSET made
      BY DEF IInv, OnlyMade, GetHashes
    <2> QED
      BY <1>4, <1>5, <2>1, <2>2 DEF Merge, Pull
  <1>6. ASSUME NEW r \in Replica, NEW t \in Replica, NEW H, Fork(r, t) \/ ForkAt(r, t, H)
        PROVE  HInv'
    BY <1>6, ForksKeepHistory
  <1>7. ASSUME NEW r \in Replica,
               \/ \E B \in SUBSET made : ApplyPanics(r, B)
               \/ \E H \in SUBSET made : ForkAtPanics(r, H)
        PROVE  HInv'
    BY <1>7, PanicsKeepHistory
  <1>8. ASSUME NEW r \in Replica, Save(r)
        PROVE  HInv'
    <2>1. UNCHANGED history /\ UNCHANGED <<graph, maxOp, panicked>>
      BY <1>8 DEF Save, document
    <2> QED
      BY <2>1, SameHistory DEF HInv, NoSeqGapInOrder, NoSeqGap, ActorsOrdered,
                               OpCounterExact, IsMax, history
  <1>9. ASSUME NEW r \in Replica, Load(r)
        PROVE  HInv'
    BY <1>9, LoadKeepsHistory
  <1> QED
    BY <1>1, <1>2, <1>3, <1>4, <1>5, <1>6, <1>7, <1>8, <1>9
       DEF Next, Commit, EmptyCommit, ApplyChanges

\* The history stays as it should in every reachable state.
THEOREM HistoryHolds == Spec => [](IInv /\ HInv)
  <1>1. Init => IInv /\ HInv
    BY InitIInv, InitHInv
  <1>2. IInv /\ HInv /\ [Next]_vars => (IInv /\ HInv)'
    BY StepPreserves, StepKeepsHistory
  <1> QED
    BY <1>1, <1>2, PTL DEF Spec

\* Two documents with the same heads hold the same changes, so peers may
\* compare their heads only.
THEOREM HeadsAlwaysDetermineGraph == Spec => []HeadsDetermineGraph
  <1>1. IInv /\ HInv => HeadsDetermineGraph
    <2> SUFFICES ASSUME IInv, HInv, NEW r \in Replica, NEW t \in Replica, heads[r] = heads[t]
                 PROVE  graph[r] = graph[t]
      BY DEF HeadsDetermineGraph
    <2>1. Past(heads[r]) = graph[r] /\ Past(heads[t]) = graph[t]
      BY HeadsCover
    <2> QED
      BY <2>1
  <1> QED
    BY HistoryHolds, <1>1, PTL

\* Who sends what get_missing_deps names, with its ancestors, sends all that
\* the queued changes wait for.
THEOREM MissingDepsAlwaysSuffice == Spec => []MissingDepsSuffice
  <1>1. IInv /\ HInv => MissingDepsSuffice
    <2> SUFFICES ASSUME IInv, HInv, NEW r \in Replica, NEW h \in queue[r]
                 PROVE  past[h] \subseteq graph[r] \cup queue[r]
                            \cup Past(MissingDeps(graph[r], queue[r], {}))
      BY DEF MissingDepsSuffice
    <2> DEFINE missing == MissingDeps(graph[r], queue[r], {})
               G == graph[r] \cup queue[r] \cup Past(missing)
    <2>1. /\ graph[r] \subseteq made /\ queue[r] \subseteq made
          /\ DepsOf(graph[r]) \subseteq graph[r] /\ DepsOf(made) \subseteq made
      BY DEF IInv, OnlyMade, CausallyClosed
    <2>2. missing \subseteq made /\ DepsOf(queue[r]) \subseteq graph[r] \cup queue[r] \cup missing
      BY <2>1 DEF MissingDeps, DepsOf
    <2> HIDE DEF missing
    <2>3. /\ Past(missing) \subseteq made
          /\ missing \subseteq Past(missing)
          /\ DepsOf(Past(missing)) \subseteq Past(missing)
      BY <2>2 DEF HInv, PastSound, Past, DepsOf
    <2>4. G \in SUBSET made /\ DepsOf(G) \subseteq G /\ h \in G
      <3>1. DepsOf(G) = DepsOf(graph[r]) \cup DepsOf(queue[r]) \cup DepsOf(Past(missing))
        BY DEF DepsOf
      <3> QED
        BY <3>1, <2>1, <2>2, <2>3
    <2> HIDE DEF G
    <2>5. past[h] \subseteq G
      BY <2>4, ClosedHoldsPast DEF HInv
    <2> QED
      BY <2>5 DEF G, missing
  <1> QED
    BY HistoryHolds, <1>1, PTL

\* The operation counter is that of the latest change, also after a load.
THEOREM AlwaysOpCounterExact == Spec => []OpCounterExact
  <1>1. HInv => OpCounterExact
    BY DEF HInv
  <1> QED
    BY HistoryHolds, <1>1, PTL

\* No operation identifier is given out twice, whatever was lost in a crash.
THEOREM OpIdsAlwaysUnique == Spec => []OpIdsUnique
  <1>1. IInv /\ HInv => OpIdsUnique
    <2> SUFFICES ASSUME IInv, HInv, NEW g \in made, NEW h \in made,
                        ActorOf(g) = ActorOf(h), g # h,
                        NEW i \in opEnd[g] - nOps[g] + 1 .. opEnd[g],
                        i \in opEnd[h] - nOps[h] + 1 .. opEnd[h]
                 PROVE  FALSE
      BY DEF OpIdsUnique
    <2>1. /\ opEnd[g] \in Nat /\ opEnd[h] \in Nat
          /\ nOps[g] \in {0, 1} /\ nOps[h] \in {0, 1}
          /\ g = <<ActorOf(g), SeqNum(g)>> /\ h = <<ActorOf(h), SeqNum(h)>>
          /\ SeqNum(g) \in Nat /\ SeqNum(h) \in Nat
      BY DocumentAssumption DEF IInv, TypeOK, OpCounter, Hash, ActorOf, SeqNum
    <2>2. CASE SeqNum(g) < SeqNum(h)
      <3>1. opEnd[g] <= opEnd[h] - nOps[h]
        BY <2>2 DEF HInv, CountersGrow
      <3> QED
        BY <3>1, <2>1
    <2>3. CASE SeqNum(h) < SeqNum(g)
      <3>1. opEnd[h] <= opEnd[g] - nOps[g]
        BY <2>3 DEF HInv, CountersGrow
      <3> QED
        BY <3>1, <2>1
    <2> QED
      BY <2>1, <2>2, <2>3
  <1> QED
    BY HistoryHolds, <1>1, PTL

\* isolate_actor never leaves an operation out of the past of a later change
\* of the same actor.
THEOREM AlwaysOrderedButForEmpty == Spec => []OrderedButForEmpty
  <1>1. HInv => OrderedButForEmpty
    BY DEF HInv
  <1> QED
    BY HistoryHolds, <1>1, PTL

\* The assertion of add_changes fails only after changes of an actor came out
\* of order.
THEOREM AlwaysNoSeqGapInOrder == Spec => []NoSeqGapInOrder
  <1>1. HInv => NoSeqGapInOrder
    BY DEF HInv
  <1> QED
    BY HistoryHolds, <1>1, PTL

\* Comparing sequence numbers finds the right changes while they are ordered.
THEOREM GetHashesAlwaysExact == Spec => []GetHashesExact
  <1>1. IInv /\ HInv => GetHashesExact
    BY GetHashesSound DEF GetHashesExact
  <1> QED
    BY HistoryHolds, <1>1, PTL

\* Merges and pulls leave nothing behind; fork_at gives the past of its heads.
THEOREM TransfersAlwaysComplete == Spec => TransfersComplete
  <1>1. IInv /\ HInv /\ [Next]_vars =>
            [\A r, t \in Replica :
                /\ Merge(r, t) \/ (Pull(r, t) /\ ActorsOrdered) => graph[t] \subseteq graph'[r]
                /\ \A H \in SUBSET made :
                       ForkAt(r, t, H) => graph'[t] = Past(H) /\ queue'[t] = {}]_vars
    BY TransferTakesAll, ForkAtTakesPast
  <1> QED
    BY HistoryHolds, <1>1, PTL DEF Spec, TransfersComplete

=============================================================================
