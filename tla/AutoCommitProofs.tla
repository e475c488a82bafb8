-------------------------- MODULE AutoCommitProofs --------------------------
(***************************************************************************)
(* Theorems about AutoCommit, for any actors, bounds and changes of        *)
(* others: commits extend what could be read, isolation holds, saves are   *)
(* complete; and, for callers who ask no diffs of an isolated document,    *)
(* log, cursor and cache agree.                                            *)
(***************************************************************************)
EXTENDS AutoCommit, TLAPS, FiniteSetTheorems, FunctionTheorems

(* What a document is in every state. *)

IsLog(log) ==
    /\ DOMAIN log = {"active", "actors", "add", "del", "ids"}
    /\ log.active \in BOOLEAN
    /\ log.actors \in SUBSET ActorId

IsDoc(d) ==
    /\ DOMAIN d = {"graph", "past", "opEnd", "empty", "tx", "isolation", "log"}
    /\ d.graph \in SUBSET Hash
    /\ d.past \in [Hash -> SUBSET Hash]
    /\ d.empty \in SUBSET d.graph
    /\ d.isolation \in [on : BOOLEAN, at : SUBSET d.graph]
    /\ IsLog(d.log)
    /\ d.log.add \in SUBSET d.graph
    /\ d.log.del \in SUBSET d.graph

\* The past of a change holds the pasts of its members.
PastsNest(d) ==
    \A h \in d.graph :
        /\ h \in d.past[h]
        /\ d.past[h] \subseteq d.graph
        /\ \A g \in d.past[h] : d.past[g] \subseteq d.past[h]

\* Every change is in the past of a head.
HeadsCover(d) == d.graph \subseteq Past(d, Heads(d))

\* The changes of an actor are numbered without gaps.
Numbered(d) ==
    /\ IsFiniteSet(d.graph)
    /\ \A a \in ActorId : LastSeq(d, a) \in Nat
    /\ \A h \in Hash : h \in d.graph <=> SeqOf(h) <= LastSeq(d, ActorOf(h))

\* A log is only followed once there is a change.
LogNeedsChange(d) == d.log.active => d.graph # {}

Sound(d) ==
    /\ IsDoc(d)
    /\ PastsNest(d)
    /\ HeadsCover(d)
    /\ Numbered(d)
    /\ LogNeedsChange(d)

\* An open transaction makes the next change of its actor, on top of all that
\* can be read.
TxSound(d) ==
    \A t \in d.tx :
        /\ d.tx = {t}
        /\ DOMAIN t = {"actor", "seq", "ops", "deps"}
        /\ t.actor \in ActorId \ Peer
        /\ t.seq = LastSeq(d, t.actor) + 1
        /\ t.seq <= MaxSeq
        /\ t.ops \in {0, 1}
        /\ t.deps \in SUBSET d.graph
        /\ Past(d, t.deps) = Past(d, ViewHeads(d))

\* e holds what d holds, and more.
Grown(d, e) ==
    /\ d.graph \subseteq e.graph
    /\ \A h \in d.graph : e.past[h] = d.past[h]
    /\ e.empty \cap d.graph = d.empty

-----------------------------------------------------------------------------
(* Views *)

\* What is read at heads that were known stays the same.
LEMMA ViewStays ==
    ASSUME NEW d, NEW e, Sound(d), Grown(d, e), NEW H \in SUBSET d.graph
    PROVE  /\ Past(e, H) = Past(d, H)
           /\ ViewAt(e, H) = ViewAt(d, H)
           /\ Past(d, H) \subseteq d.graph
  <1>1. \A h \in H : e.past[h] = d.past[h] /\ d.past[h] \subseteq d.graph
    BY DEF Grown, Sound, PastsNest
  <1>2. Past(e, H) = Past(d, H)
    BY <1>1 DEF Past
  <1>3. Past(d, H) \subseteq d.graph
    BY <1>1 DEF Past
  <1> QED
    BY <1>2, <1>3 DEF ViewAt, Grown

\* At its heads a document shows all of its changes.
LEMMA HeadsShowAll ==
    ASSUME NEW d, Sound(d)
    PROVE  /\ Heads(d) \in SUBSET d.graph
           /\ Past(d, Heads(d)) = d.graph
           /\ ViewAt(d, Heads(d)) = d.graph \ d.empty
           /\ \A H \in SUBSET d.graph : H \subseteq Past(d, H) /\ Past(d, H) \subseteq d.graph
           /\ ViewHeads(d) \in SUBSET d.graph
           /\ View(d) \subseteq d.graph
  <1>1. Heads(d) \in SUBSET d.graph
    BY DEF Heads
  <1>2. \A H \in SUBSET d.graph : H \subseteq Past(d, H) /\ Past(d, H) \subseteq d.graph
    BY DEF Sound, PastsNest, Past
  <1>3. Past(d, Heads(d)) = d.graph
    BY <1>1, <1>2 DEF Sound, HeadsCover
  <1>4. ViewHeads(d) \in SUBSET d.graph
    BY <1>1 DEF Sound, IsDoc, ViewHeads
  <1> QED
    BY <1>1, <1>2, <1>3, <1>4 DEF ViewAt, View

\* The next change of an actor is new, and numbered as it should be.
LEMMA NextNumber ==
    ASSUME NEW d, Numbered(d), d.graph \in SUBSET Hash, NEW a \in ActorId,
           NEW e, e.graph = d.graph \cup {<<a, LastSeq(d, a) + 1>>},
           <<a, LastSeq(d, a) + 1>> \in Hash
    PROVE  /\ <<a, LastSeq(d, a) + 1>> \notin d.graph
           /\ LastSeq(e, a) = LastSeq(d, a) + 1
           /\ \A b \in ActorId \ {a} : LastSeq(e, b) = LastSeq(d, b)
           /\ Numbered(e)
  <1> DEFINE h == <<a, LastSeq(d, a) + 1>>
             Of(f, b) == {g \in f.graph : ActorOf(g) = b}
  <1>1. ActorOf(h) = a /\ SeqOf(h) = LastSeq(d, a) + 1
    BY DEF ActorOf, SeqOf
  <1>2. LastSeq(d, a) \in Nat
    BY DEF Numbered
  <1>3. h \notin d.graph
    BY <1>1, <1>2 DEF Numbered
  <1>4. IsFiniteSet(d.graph) /\ \A b : IsFiniteSet(Of(d, b))
    BY FS_Subset DEF Numbered
  <1>5. Of(e, a) = Of(d, a) \cup {h} /\ h \notin Of(d, a)
    BY <1>1, <1>3
  <1>6. \A b \in ActorId \ {a} : Of(e, b) = Of(d, b)
    BY <1>1
  <1>7. LastSeq(e, a) = LastSeq(d, a) + 1
    <2> HIDE DEF h, Of
    <2>1. Cardinality(Of(d, a) \cup {h}) = Cardinality(Of(d, a)) + 1
      BY <1>4, <1>5, FS_AddElement
    <2> QED
      BY <2>1, <1>5 DEF LastSeq, Of
  <1>8. \A b \in ActorId \ {a} : LastSeq(e, b) = LastSeq(d, b)
    BY <1>6 DEF LastSeq
  <1>9. IsFiniteSet(e.graph)
    <2>1. e.graph = d.graph \cup {h}
      OBVIOUS
    <2> HIDE DEF h
    <2> QED
      BY <1>4, <2>1, FS_AddElement
  <1>10. \A b \in ActorId : LastSeq(e, b) \in Nat
    BY <1>2, <1>7, <1>8 DEF Numbered
  <1>11. ASSUME NEW g \in Hash
         PROVE  g \in e.graph <=> SeqOf(g) <= LastSeq(e, ActorOf(g))
    <2>1. g = <<ActorOf(g), SeqOf(g)>> /\ ActorOf(g) \in ActorId /\ SeqOf(g) \in Nat
      BY DEF Hash, ActorOf, SeqOf
    <2>2. g \in d.graph <=> SeqOf(g) <= LastSeq(d, ActorOf(g))
      BY DEF Numbered
    <2>3. CASE ActorOf(g) = a
      <3>1. g = h <=> SeqOf(g) = LastSeq(d, a) + 1
        BY <2>1, <2>3, <1>1
      <3> HIDE DEF h
      <3> QED
        BY <3>1, <2>1, <2>2, <2>3, <1>2, <1>7 DEF h
    <2>4. CASE ActorOf(g) # a
      BY <2>1, <2>2, <2>4, <1>1, <1>8
    <2> QED
      BY <2>3, <2>4
  <1> QED
    BY <1>3, <1>7, <1>8, <1>9, <1>10, <1>11 DEF Numbered

\* e is d with the change h of the actor a on top of the hashes D.
IsRecording(d, a, D, n, h, e) ==
    /\ Sound(e)
    /\ Grown(d, e)
    /\ h \notin d.graph
    /\ e.graph = d.graph \cup {h}
    /\ e.past[h] = {h} \cup Past(d, D)
    /\ e.empty = IF n = 0 THEN d.empty \cup {h} ELSE d.empty
    /\ e.tx = d.tx /\ e.isolation = d.isolation /\ e.log = d.log
    /\ LastSeq(e, a) = LastSeq(d, a) + 1
    /\ \A b \in ActorId \ {a} : LastSeq(e, b) = LastSeq(d, b)

\* A document with the next change of an actor is as sound, and shows at older
\* heads what it did.
LEMMA RecordedSound ==
    ASSUME NEW d, Sound(d), NEW a \in ActorId, NEW D \in SUBSET d.graph, NEW S, NEW n \in {0, 1},
           NEW h \in Hash, h = <<a, LastSeq(d, a) + 1>>,
           NEW e, e = Recorded(d, h, D, S, n)
    PROVE  IsRecording(d, a, D, n, h, e)
  <1> DEFINE P == {h} \cup Past(d, D)
  <1>1. /\ DOMAIN e = DOMAIN d
        /\ e.graph = d.graph \cup {h}
        /\ e.past = [d.past EXCEPT ![h] = P]
        /\ e.empty = IF n = 0 THEN d.empty \cup {h} ELSE d.empty
        /\ e.tx = d.tx /\ e.isolation = d.isolation /\ e.log = d.log
    <2>1. IsDoc(d)
      BY DEF Sound
    <2> QED
      BY <2>1 DEF Recorded, IsDoc
  <1>2. /\ h \notin d.graph
        /\ LastSeq(e, a) = LastSeq(d, a) + 1
        /\ \A b \in ActorId \ {a} : LastSeq(e, b) = LastSeq(d, b)
        /\ Numbered(e)
    <2>1. Numbered(d) /\ d.graph \in SUBSET Hash
      BY DEF Sound, IsDoc
    <2>2. e.graph = d.graph \cup {<<a, LastSeq(d, a) + 1>>} /\ <<a, LastSeq(d, a) + 1>> \in Hash
      BY <1>1
    <2> QED
      BY <2>1, <2>2, NextNumber
  <1>3. \A g \in Past(d, D) : g \in d.graph /\ d.past[g] \subseteq Past(d, D)
    BY DEF Sound, PastsNest, Past
  <1>4. P \in SUBSET Hash /\ P \subseteq e.graph
    BY <1>1, <1>3 DEF Sound, IsDoc
  <1>5. e.past \in [Hash -> SUBSET Hash] /\ e.past[h] = P
    BY <1>1, <1>4 DEF Sound, IsDoc
  <1>6. \A g \in d.graph : e.past[g] = d.past[g]
    BY <1>1, <1>2 DEF Sound, IsDoc
  <1>7. Grown(d, e)
    BY <1>1, <1>2, <1>6 DEF Grown, Sound, IsDoc
  <1>8. PastsNest(e)
    <2> SUFFICES ASSUME NEW g \in e.graph
                 PROVE  /\ g \in e.past[g]
                        /\ e.past[g] \subseteq e.graph
                        /\ \A k \in e.past[g] : e.past[k] \subseteq e.past[g]
      BY DEF PastsNest
    <2>1. CASE g \in d.graph
      BY <2>1, <1>1, <1>6 DEF Sound, PastsNest
    <2>2. CASE g = h
      BY <2>2, <1>3, <1>4, <1>5, <1>6
    <2> QED
      BY <2>1, <2>2, <1>1
  <1>9. HeadsCover(e)
    <2>1. h \in Heads(e)
      BY <1>1, <1>2, <1>6 DEF Heads, Sound, PastsNest
    <2>2. \A k \in Heads(d) : k \in P \/ k \in Heads(e)
      BY <1>1, <1>2, <1>5, <1>6 DEF Heads
    <2> SUFFICES ASSUME NEW g \in e.graph PROVE \E k \in Heads(e) : g \in e.past[k]
      BY DEF HeadsCover, Past
    <2>3. CASE g = h
      BY <2>1, <2>3, <1>5
    <2>4. CASE g \in d.graph
      <3>1. PICK k \in Heads(d) : g \in d.past[k]
        BY <2>4 DEF Sound, HeadsCover, Past
      <3>2. k \in d.graph
        BY DEF Heads
      <3>3. CASE k \in P
        <4>1. k \in Past(d, D)
          BY <3>2, <3>3, <1>2
        <4> QED
          BY <4>1, <3>1, <1>3, <1>5, <2>1
      <3>4. CASE k \in Heads(e)
        BY <3>1, <3>2, <3>4, <1>6
      <3> QED
        BY <3>3, <3>4, <2>2
    <2> QED
      BY <2>3, <2>4, <1>1
  <1>10. IsDoc(e)
    BY <1>1, <1>5 DEF Sound, IsDoc
  <1>11. LogNeedsChange(e)
    BY <1>1 DEF LogNeedsChange
  <1>12. Sound(e)
    BY <1>2, <1>8, <1>9, <1>10, <1>11 DEF Sound
  <1> QED
    BY <1>1, <1>2, <1>5, <1>7, <1>12 DEF IsRecording

-----------------------------------------------------------------------------
(* The patch log *)

\* The log of e leads from wherever that of d started to what e shows.
Traced(d, e) ==
    /\ e.log.active = d.log.active
    /\ d.log.active => \A V : Apply(d.log, V) = View(d) => Apply(e.log, V) = View(e)

\* The log l is log with the patches that turn the view old into the view new.
LeadsOn(log, l, old, new) ==
    /\ IsLog(l)
    /\ l.active = log.active
    /\ l.actors = log.actors
    /\ l.add \subseteq log.add \cup new
    /\ l.del \subseteq log.del \cup old
    /\ log.active => \A V : Apply(log, V) = old => Apply(l, V) = new

\* A log that led to the view old leads to the view new.
LEMMA LoggedLeads ==
    ASSUME NEW log, IsLog(log), NEW old, NEW new, NEW actors,
           NEW l, l = Logged(log, new \ old, old \ new, actors)
    PROVE  LeadsOn(log, l, old, new)
  <1>1. CASE ~log.active
    BY <1>1 DEF Logged, LeadsOn
  <1>2. CASE log.active
    <2>1. /\ DOMAIN l = DOMAIN log
          /\ l.active = log.active
          /\ l.actors = log.actors
          /\ l.add = (log.add \ (old \ new)) \cup (new \ old)
          /\ l.del = (log.del \ (new \ old)) \cup (old \ new)
      BY <1>2 DEF Logged, IsLog
    <2>2. ASSUME NEW V, Apply(log, V) = old
          PROVE  Apply(l, V) = new
      BY <2>1, <2>2 DEF Apply
    <2> QED
      BY <2>1, <2>2 DEF IsLog, LeadsOn
  <1> QED
    BY <1>1, <1>2

\* Bringing the actors of a log in line changes no patch.
LEMMA MigratedLeads ==
    ASSUME NEW log, IsLog(log), NEW actors \in SUBSET ActorId,
           NEW l, l = Migrated(log, actors)
    PROVE  /\ IsLog(l)
           /\ l.active = log.active
           /\ l.add = log.add
           /\ l.del = log.del
           /\ \A V : Apply(l, V) = Apply(log, V)
  <1>1. /\ DOMAIN l = DOMAIN log
        /\ l.active = log.active
        /\ l.actors \in SUBSET ActorId
        /\ l.add = log.add
        /\ l.del = log.del
    BY DEF Migrated, IsLog
  <1> QED
    BY <1>1 DEF Apply, IsLog

\* Changes and patches add up.
LEMMA StepsCompose ==
    ASSUME NEW d, NEW e, NEW f
    PROVE  /\ Grown(d, e) /\ Grown(e, f) => Grown(d, f)
           /\ Traced(d, e) /\ Traced(e, f) => Traced(d, f)
  BY DEF Grown, Traced

-----------------------------------------------------------------------------
(* Transactions *)

Actual(d) == \A t \in d.tx : t.actor \in ActorId

\* The actors of a document are actors.
LEMMA ActorsTyped ==
    ASSUME NEW d, d.graph \in SUBSET Hash, Actual(d)
    PROVE  Actors(d) \in SUBSET ActorId
  BY DEF Actors, Actual, Hash, ActorOf

\* What closing the transaction of d may have done.
IsClosing(d, e) ==
    \/ /\ e.graph = d.graph /\ e.empty = d.empty
       /\ e.isolation = d.isolation /\ e.log = d.log
       /\ View(e) = View(d)
    \/ \E h \in Hash \ d.graph :
           /\ ActorOf(h) \notin Peer
           /\ e.graph = d.graph \cup {h} /\ e.empty = d.empty
           /\ e.isolation.on = d.isolation.on
           /\ View(e) = View(d) \cup {h}
           /\ e.past[h] \ e.empty = View(d) \cup {h}

\* Closing a transaction makes at most one change, which extends what was read
\* and can be read itself.
LEMMA ClosedSound ==
    ASSUME NEW d, Sound(d), TxSound(d), NEW e, e = Closed(d)
    PROVE  /\ Sound(e)
           /\ e.tx = {}
           /\ Grown(d, e)
           /\ Traced(d, e)
           /\ IsClosing(d, e)
           /\ \A b \in Peer : LastSeq(e, b) = LastSeq(d, b)
  <1>1. CASE \A t \in d.tx : t.ops = 0
    <2>1. e = [d EXCEPT !.tx = {}]
      BY <1>1 DEF Closed
    <2>2. /\ DOMAIN e = DOMAIN d
          /\ e.graph = d.graph /\ e.past = d.past /\ e.empty = d.empty /\ e.tx = {}
          /\ e.isolation = d.isolation /\ e.log = d.log
      BY <2>1 DEF Sound, IsDoc
    <2>3. Heads(e) = Heads(d) /\ (\A H : Past(e, H) = Past(d, H)) /\ \A b : LastSeq(e, b) = LastSeq(d, b)
      BY <2>2 DEF Heads, Past, LastSeq
    <2>4. View(e) = View(d)
      BY <2>2, <2>3 DEF View, ViewAt, ViewHeads
    <2>5. IsDoc(e) /\ PastsNest(e) /\ LogNeedsChange(e)
      BY <2>2 DEF Sound, IsDoc, PastsNest, LogNeedsChange
    <2>6. HeadsCover(e) /\ Numbered(e)
      BY <2>2, <2>3 DEF Sound, HeadsCover, Numbered
    <2> QED
      BY <2>2, <2>3, <2>4, <2>5, <2>6 DEF Sound, IsDoc, Grown, Traced, IsClosing
  <1>2. CASE ~\A t \in d.tx : t.ops = 0
    <2>1. PICK t \in d.tx : t = CHOOSE u \in d.tx : TRUE
      BY <1>2
    <2>2. PICK h : h = <<t.actor, t.seq>>
      OBVIOUS
    <2>3. PICK c : c = Recorded(d, h, t.deps, d.graph, 1)
      OBVIOUS
    <2>4. e = [c EXCEPT !.tx = {},
                        !.isolation = IsolatedAt(c, h),
                        !.log = Logged(d.log, {h}, {}, Actors(d))]
      BY <1>2, <2>1, <2>2, <2>3 DEF Closed
    <2>5. /\ t.actor \in ActorId \ Peer
          /\ t.seq = LastSeq(d, t.actor) + 1 /\ t.seq <= MaxSeq
          /\ t.deps \in SUBSET d.graph
          /\ Past(d, t.deps) = Past(d, ViewHeads(d))
      BY DEF TxSound
    <2>h. h \in Hash /\ h = <<t.actor, LastSeq(d, t.actor) + 1>> /\ ActorOf(h) = t.actor
      <3>1. LastSeq(d, t.actor) \in Nat
        BY <2>5 DEF Sound, Numbered
      <3> QED
        BY <3>1, <2>2, <2>5, AutoCommitAssumption DEF Hash, ActorOf
    <2>c. /\ Sound(c)
          /\ Grown(d, c)
          /\ h \notin d.graph
          /\ c.graph = d.graph \cup {h}
          /\ c.past[h] = {h} \cup Past(d, t.deps)
          /\ c.empty = d.empty
          /\ c.tx = d.tx /\ c.isolation = d.isolation /\ c.log = d.log
          /\ \A b \in ActorId \ {t.actor} : LastSeq(c, b) = LastSeq(d, b)
      <3>1. PICK a \in ActorId, D \in SUBSET d.graph, n \in {0, 1} : a = t.actor /\ D = t.deps /\ n = 1
        BY <2>5
      <3>2. c = Recorded(d, h, D, d.graph, n) /\ h = <<a, LastSeq(d, a) + 1>> /\ h \in Hash
        BY <2>3, <2>h, <3>1
      <3>3. IsRecording(d, a, D, n, h, c)
        BY <3>1, <3>2, RecordedSound
      <3> QED
        BY <3>1, <3>3 DEF IsRecording
    <2>6. /\ DOMAIN e = DOMAIN c
          /\ e.graph = c.graph /\ e.past = c.past /\ e.empty = c.empty /\ e.tx = {}
          /\ e.isolation = IsolatedAt(c, h)
          /\ e.log = Logged(d.log, {h}, {}, Actors(d))
      BY <2>4, <2>c DEF Sound, IsDoc
    <2>7. /\ e.isolation \in [on : BOOLEAN, at : SUBSET e.graph]
          /\ e.isolation.on = d.isolation.on
          /\ d.isolation.on => e.isolation.at = {h}
      <3>1. c.isolation \in [on : BOOLEAN, at : SUBSET c.graph] /\ h \in c.graph
        BY <2>c DEF Sound, IsDoc
      <3> QED
        BY <3>1, <2>c, <2>6 DEF IsolatedAt
    <2>8. Heads(e) = Heads(c) /\ (\A H : Past(e, H) = Past(c, H)) /\ \A b : LastSeq(e, b) = LastSeq(c, b)
      BY <2>6 DEF Heads, Past, LastSeq
    <2>9. Past(d, ViewHeads(d)) \subseteq d.graph /\ d.empty \subseteq d.graph
      BY HeadsShowAll DEF Sound, IsDoc
    <2>10. View(e) = View(d) \cup {h} /\ e.past[h] \ e.empty = View(d) \cup {h}
      <3>1. e.past[h] \ e.empty = View(d) \cup {h}
        BY <2>5, <2>c, <2>6, <2>9 DEF View, ViewAt
      <3>2. CASE d.isolation.on
        <4>1. ViewHeads(e) = {h}
          BY <3>2, <2>7 DEF ViewHeads
        <4>2. Past(e, {h}) = e.past[h]
          BY DEF Past
        <4> QED
          BY <3>1, <4>1, <4>2 DEF View, ViewAt
      <3>3. CASE ~d.isolation.on
        <4>1. ViewHeads(e) = Heads(c) /\ ViewHeads(d) = Heads(d)
          BY <3>3, <2>7, <2>8 DEF ViewHeads
        <4>2. Past(e, Heads(c)) = c.graph
          BY <2>c, <2>8, HeadsShowAll
        <4>3. Past(d, Heads(d)) = d.graph
          BY HeadsShowAll
        <4> QED
          BY <3>1, <4>1, <4>2, <4>3, <2>c, <2>6, <2>9 DEF View, ViewAt
      <3> QED
        BY <3>1, <3>2, <3>3
    <2>11. View(d) \subseteq d.graph
      BY HeadsShowAll
    <2>12. /\ IsLog(e.log)
           /\ e.log.active = d.log.active
           /\ e.log.add \subseteq d.log.add \cup View(e)
           /\ e.log.del \subseteq d.log.del \cup View(d)
           /\ Traced(d, e)
      <3>1. View(e) \ View(d) = {h} /\ View(d) \ View(e) = {}
        BY <2>c, <2>10, <2>11
      <3>2. IsLog(d.log) /\ e.log = Logged(d.log, View(e) \ View(d), View(d) \ View(e), Actors(d))
        BY <3>1, <2>6 DEF Sound, IsDoc
      <3>3. LeadsOn(d.log, e.log, View(d), View(e))
        BY <3>2, LoggedLeads
      <3> QED
        BY <3>3 DEF LeadsOn, Traced
    <2>13. IsDoc(e)
      <3>1. e.log.add \subseteq e.graph /\ e.log.del \subseteq e.graph
        BY <2>c, <2>6, <2>10, <2>11, <2>12 DEF Sound, IsDoc
      <3> QED
        BY <3>1, <2>c, <2>6, <2>7, <2>12 DEF Sound, IsDoc
    <2>14. PastsNest(e) /\ LogNeedsChange(e)
      BY <2>c, <2>6, <2>12 DEF Sound, PastsNest, LogNeedsChange
    <2>15. HeadsCover(e) /\ Numbered(e)
      BY <2>c, <2>6, <2>8 DEF Sound, HeadsCover, Numbered
    <2>16. Grown(d, e)
      BY <2>c, <2>6 DEF Grown
    <2>17. IsClosing(d, e)
      BY <2>5, <2>h, <2>c, <2>6, <2>7, <2>10 DEF IsClosing
    <2>18. \A b \in Peer : LastSeq(e, b) = LastSeq(d, b)
      BY <2>5, <2>c, <2>8, AutoCommitAssumption
    <2> QED
      BY <2>6, <2>12, <2>13, <2>14, <2>15, <2>16, <2>17, <2>18 DEF Sound
  <1> QED
    BY <1>1, <1>2

\* e differs from d at most in its transaction, its isolation and its log.
SameChanges(d, e) ==
    /\ e.graph = d.graph
    /\ e.past = d.past
    /\ e.empty = d.empty

\* With the same changes the same is read.
LEMMA ReadAlike ==
    ASSUME NEW d, NEW e, SameChanges(d, e)
    PROVE  /\ Heads(e) = Heads(d)
           /\ \A H : Past(e, H) = Past(d, H)
           /\ \A H : ViewAt(e, H) = ViewAt(d, H)
           /\ \A a : LastSeq(e, a) = LastSeq(d, a)
           /\ PastsNest(d) => PastsNest(e)
           /\ HeadsCover(d) => HeadsCover(e)
           /\ Numbered(d) => Numbered(e)
           /\ d.empty \subseteq d.graph => Grown(d, e)
           /\ e.isolation = d.isolation => ViewHeads(e) = ViewHeads(d) /\ View(e) = View(d)
  <1>1. Heads(e) = Heads(d) /\ (\A H : Past(e, H) = Past(d, H)) /\ \A a : LastSeq(e, a) = LastSeq(d, a)
    BY DEF SameChanges, Heads, Past, LastSeq
  <1>2. \A H : ViewAt(e, H) = ViewAt(d, H)
    BY <1>1 DEF SameChanges, ViewAt
  <1>3. PastsNest(d) => PastsNest(e)
    BY DEF SameChanges, PastsNest
  <1>4. HeadsCover(d) => HeadsCover(e)
    BY <1>1 DEF SameChanges, HeadsCover
  <1>5. Numbered(d) => Numbered(e)
    BY <1>1 DEF SameChanges, Numbered
  <1>6. d.empty \subseteq d.graph => Grown(d, e)
    BY DEF SameChanges, Grown
  <1>7. e.isolation = d.isolation => ViewHeads(e) = ViewHeads(d) /\ View(e) = View(d)
    BY <1>1, <1>2 DEF ViewHeads, View
  <1> QED
    BY <1>1, <1>2, <1>3, <1>4, <1>5, <1>6, <1>7

\* The actors an application makes its changes with are not those of others.
OwnActors ==
    /\ 1 \in DOMAIN own
    /\ \A l \in DOMAIN own : own[l] \in ActorId \ Peer

\* e is d with a transaction open.
IsOpening(d, e) ==
    /\ Sound(e)
    /\ TxSound(e)
    /\ SameChanges(d, e)
    /\ e.isolation = d.isolation
    /\ Traced(d, e)

\* Opening a transaction changes nothing that can be read, and the transaction
\* will make the next change of its actor, on top of all of it.
LEMMA OpenedSound ==
    ASSUME NEW d, Sound(d), TxSound(d), OwnActors,
           NEW e \in OpenedFor(d), WithinBounds(e)
    PROVE  IsOpening(d, e)
  <1>1. CASE d.tx # {}
    <2>1. e = d
      BY <1>1 DEF OpenedFor
    <2> QED
      BY <2>1 DEF IsOpening, SameChanges, Traced
  <1>2. CASE d.tx = {}
    <2>1. PICK l \in LevelsFor(d) :
              e = [Opened(d, l) EXCEPT !.log = Migrated(Opened(d, l).log, Actors(Opened(d, l)))]
      BY <1>2 DEF OpenedFor
    <2>2. PICK o : o = Opened(d, l)
      OBVIOUS
    <2>3. PICK deps : deps = IF d.isolation.on THEN d.isolation.at ELSE Heads(d) \cup LastOf(d, own[l])
      OBVIOUS
    <2>4. PICK t : t = [actor |-> own[l], seq |-> LastSeq(d, own[l]) + 1, ops |-> 0, deps |-> deps]
      OBVIOUS
    <2>5. o = [d EXCEPT !.tx = {t}]
      BY <2>2, <2>3, <2>4 DEF Opened
    <2>6. /\ DOMAIN o = DOMAIN d /\ SameChanges(d, o) /\ o.tx = {t}
          /\ o.isolation = d.isolation /\ o.log = d.log
      BY <2>5 DEF Sound, IsDoc, SameChanges
    <2>7. /\ DOMAIN t = {"actor", "seq", "ops", "deps"}
          /\ t.actor = own[l] /\ t.seq = LastSeq(d, own[l]) + 1 /\ t.ops = 0 /\ t.deps = deps
      BY <2>4
    <2>8. own[l] \in ActorId \ Peer
      BY DEF OwnActors, LevelsFor
    <2>9. e = [o EXCEPT !.log = Migrated(d.log, Actors(o))]
      BY <2>1, <2>2, <2>6
    <2>10. /\ DOMAIN e = DOMAIN d /\ SameChanges(d, e) /\ e.tx = {t}
           /\ e.isolation = d.isolation /\ e.log = Migrated(d.log, Actors(o))
      BY <2>6, <2>9 DEF Sound, IsDoc, SameChanges
    <2>11. Actors(o) \in SUBSET ActorId
      BY <2>6, <2>7, <2>8, ActorsTyped DEF SameChanges, Sound, IsDoc, Actual
    <2>12. /\ IsLog(e.log) /\ e.log.active = d.log.active
           /\ e.log.add = d.log.add /\ e.log.del = d.log.del
           /\ \A V : Apply(e.log, V) = Apply(d.log, V)
      BY <2>10, <2>11, MigratedLeads DEF Sound, IsDoc
    <2>13. Past(d, deps) = Past(d, ViewHeads(d)) /\ deps \in SUBSET d.graph
      <3>1. CASE d.isolation.on
        BY <2>3, <3>1 DEF ViewHeads, Sound, IsDoc
      <3>2. CASE ~d.isolation.on
        <4>1. deps = Heads(d) \cup LastOf(d, own[l]) /\ ViewHeads(d) = Heads(d)
          BY <2>3, <3>2 DEF ViewHeads
        <4>2. LastOf(d, own[l]) \subseteq d.graph
          BY DEF LastOf
        <4>3. Past(d, Heads(d)) = d.graph /\ Heads(d) \in SUBSET d.graph /\ Past(d, deps) \subseteq d.graph
          BY <4>1, <4>2, HeadsShowAll
        <4>4. Past(d, Heads(d)) \subseteq Past(d, deps)
          BY <4>1 DEF Past
        <4> QED
          BY <4>1, <4>2, <4>3, <4>4
      <3> QED
        BY <3>1, <3>2
    <2>14. /\ \A H : Past(e, H) = Past(d, H)
           /\ LastSeq(e, own[l]) = LastSeq(d, own[l])
           /\ ViewHeads(e) = ViewHeads(d) /\ View(e) = View(d)
           /\ PastsNest(e) /\ HeadsCover(e) /\ Numbered(e)
      BY <2>10, ReadAlike DEF Sound
    <2>15. TxSound(e)
      <3>1. t.seq <= MaxSeq
        BY <2>10 DEF WithinBounds
      <3>2. e.graph = d.graph
        BY <2>10 DEF SameChanges
      <3> QED
        BY <2>7, <2>8, <2>10, <2>13, <2>14, <3>1, <3>2 DEF TxSound
    <2>16. IsDoc(e) /\ LogNeedsChange(e)
      BY <2>10, <2>12 DEF Sound, IsDoc, SameChanges, LogNeedsChange
    <2>17. Traced(d, e)
      BY <2>12, <2>14 DEF Traced
    <2> QED
      BY <2>10, <2>14, <2>15, <2>16, <2>17 DEF IsOpening, Sound
  <1> QED
    BY <1>1, <1>2

-----------------------------------------------------------------------------
(* From one document to the next *)

\* What CommitExtendsView says of the changes of e that are new.
Extends(d, e) ==
    \A h \in e.graph \ e.empty :
        h \notin d.graph /\ ActorOf(h) \notin Peer => e.past[h] \ e.empty = View(d) \cup {h}

\* What IsolationHolds says of a step that isolates nothing.
Isolates(d, e) ==
    d.isolation.on /\ e.isolation.on => \A h \in View(e) \ View(d) : ActorOf(h) \notin Peer

\* A step to a sound document, seen by an application that looks away.
Step(d, e) ==
    /\ Sound(e)
    /\ TxSound(e)
    /\ Grown(d, e)
    /\ Extends(d, e)
    /\ Isolates(d, e)

\* Closing a transaction is such a step, and leaves none.
LEMMA ClosedSteps ==
    ASSUME NEW d, Sound(d), TxSound(d), NEW e, e = Closed(d)
    PROVE  Step(d, e) /\ Traced(d, e) /\ e.tx = {}
  <1>1. /\ Sound(e) /\ e.tx = {} /\ Grown(d, e) /\ Traced(d, e) /\ IsClosing(d, e)
    BY ClosedSound
  <1>2. TxSound(e)
    BY <1>1 DEF TxSound
  <1>3. Extends(d, e)
    BY <1>1 DEF IsClosing, Extends
  <1>4. Isolates(d, e)
    BY <1>1 DEF IsClosing, Isolates
  <1> QED
    BY <1>1, <1>2, <1>3, <1>4 DEF Step

\* After a step, more changes by others or without effect that do not show in
\* an isolated document.
LEMMA StepThenGrow ==
    ASSUME NEW d, NEW c, NEW e, Step(d, c),
           Sound(e), TxSound(e), Grown(c, e),
           \A h \in (e.graph \ e.empty) \ c.graph : ActorOf(h) \in Peer,
           d.isolation.on /\ e.isolation.on => c.isolation.on /\ View(e) = View(c)
    PROVE  Step(d, e)
  <1>1. Grown(d, e)
    BY StepsCompose DEF Step
  <1>2. Extends(d, e)
    <2> SUFFICES ASSUME NEW h \in e.graph \ e.empty, h \notin d.graph, ActorOf(h) \notin Peer
                 PROVE  e.past[h] \ e.empty = View(d) \cup {h}
      BY DEF Extends
    <2>1. h \in c.graph
      OBVIOUS
    <2>2. e.past[h] = c.past[h] /\ e.empty \cap c.graph = c.empty
      BY <2>1 DEF Grown
    <2>3. c.past[h] \subseteq c.graph
      BY <2>1 DEF Step, Sound, PastsNest
    <2>4. c.past[h] \ c.empty = View(d) \cup {h}
      BY <2>1, <2>2 DEF Step, Extends
    <2> QED
      BY <2>2, <2>3, <2>4
  <1>3. Isolates(d, e)
    BY DEF Step, Isolates
  <1> QED
    BY <1>1, <1>2, <1>3 DEF Step

\* What is read after a change: nothing else if it is empty or the document is
\* isolated, and the change itself otherwise.
LEMMA RecordedView ==
    ASSUME NEW d, Sound(d), NEW a, NEW D, NEW n \in {0, 1}, NEW h, NEW e, IsRecording(d, a, D, n, h, e)
    PROVE  View(e) = IF d.isolation.on \/ n = 0 THEN View(d) ELSE View(d) \cup {h}
  <1>1. /\ Sound(e) /\ Grown(d, e) /\ h \notin d.graph
        /\ e.graph = d.graph \cup {h} /\ e.isolation = d.isolation
        /\ e.empty = IF n = 0 THEN d.empty \cup {h} ELSE d.empty
    BY DEF IsRecording
  <1>2. CASE d.isolation.on
    <2>1. ViewHeads(e) = d.isolation.at /\ ViewHeads(d) = d.isolation.at /\ d.isolation.at \in SUBSET d.graph
      BY <1>1, <1>2 DEF ViewHeads, Sound, IsDoc
    <2>2. ViewAt(e, d.isolation.at) = ViewAt(d, d.isolation.at)
      BY <1>1, <2>1, ViewStays
    <2> QED
      BY <1>2, <2>1, <2>2 DEF View
  <1>3. CASE ~d.isolation.on
    <2>1. View(e) = e.graph \ e.empty /\ View(d) = d.graph \ d.empty
      BY <1>1, <1>3, HeadsShowAll DEF View, ViewHeads
    <2>2. d.empty \subseteq d.graph
      BY DEF Sound, IsDoc
    <2> QED
      BY <1>1, <1>3, <2>1, <2>2
  <1> QED
    BY <1>2, <1>3

\* A document that differs in its log is as sound, if the log is.
LEMMA RelogSound ==
    ASSUME NEW d, Sound(d), TxSound(d), NEW e, NEW l,
           e = [d EXCEPT !.log = l],
           IsLog(l), l.add \subseteq d.graph, l.del \subseteq d.graph,
           l.active => d.graph # {}
    PROVE  /\ Sound(e) /\ TxSound(e) /\ Grown(d, e) /\ SameChanges(d, e)
           /\ e.isolation = d.isolation /\ View(e) = View(d) /\ e.log = l
  <1>1. /\ DOMAIN e = DOMAIN d /\ SameChanges(d, e)
        /\ e.isolation = d.isolation /\ e.tx = d.tx /\ e.log = l
    BY DEF Sound, IsDoc, SameChanges
  <1>2. /\ PastsNest(e) /\ HeadsCover(e) /\ Numbered(e) /\ Grown(d, e)
        /\ \A H : Past(e, H) = Past(d, H)
        /\ \A a : LastSeq(e, a) = LastSeq(d, a)
        /\ ViewHeads(e) = ViewHeads(d) /\ View(e) = View(d)
    BY <1>1, ReadAlike DEF Sound, IsDoc
  <1>3. IsDoc(e) /\ LogNeedsChange(e)
    BY <1>1 DEF Sound, IsDoc, SameChanges, LogNeedsChange
  <1>4. TxSound(e)
    BY <1>1, <1>2 DEF TxSound, SameChanges
  <1> QED
    BY <1>1, <1>2, <1>3, <1>4 DEF Sound

-----------------------------------------------------------------------------
(* What is kept beside the document *)

\* The heads kept are changes of the document d.
KeptHeads(d) == cursor \cup saveCursor \cup cache.before \cup cache.after \subseteq d.graph

\* The file holds what lies before the save cursor, and no change of an actor
\* without the ones before it.
FileFits(d) ==
    /\ file \subseteq d.graph
    /\ Past(d, saveCursor) \subseteq file
    /\ \A g \in file : \A h \in Hash : ActorOf(h) = ActorOf(g) /\ SeqOf(h) <= SeqOf(g) => h \in file

\* CacheExact, of the document d.
CacheFits(d) == cache.on => Apply(cache, ViewAt(d, cache.before)) = ViewAt(d, cache.after)

\* The patch log leads from the diff cursor to what d shows.
LogFits(d) == d.log.active => Apply(d.log, ViewAt(d, cursor)) = View(d)

\* The application shows what could be read at the diff cursor.
ReaderFits(d) == reader = ViewAt(d, cursor)

\* What holds if no diff is asked of an isolated document.
DiffsFit(d) == ~DiffIsolated => CacheFits(d) /\ LogFits(d) /\ ReaderFits(d)

Inv ==
    /\ Sound(doc)
    /\ TxSound(doc)
    /\ OwnActors
    /\ KeptHeads(doc)
    /\ FileFits(doc)
    /\ DiffsFit(doc)

\* What is kept stays right while changes are made and the log is kept up.
LEMMA KeptStays ==
    ASSUME NEW d, NEW e, Sound(d), Grown(d, e), KeptHeads(d), FileFits(d)
    PROVE  /\ KeptHeads(e)
           /\ FileFits(e)
           /\ CacheFits(d) => CacheFits(e)
           /\ ReaderFits(d) => ReaderFits(e)
           /\ Traced(d, e) /\ LogFits(d) => LogFits(e)
  <1>1. /\ cursor \in SUBSET d.graph /\ saveCursor \in SUBSET d.graph
        /\ cache.before \in SUBSET d.graph /\ cache.after \in SUBSET d.graph
        /\ d.graph \subseteq e.graph
    BY DEF KeptHeads, Grown
  <1>2. /\ Past(e, saveCursor) = Past(d, saveCursor)
        /\ ViewAt(e, cursor) = ViewAt(d, cursor)
        /\ ViewAt(e, cache.before) = ViewAt(d, cache.before)
        /\ ViewAt(e, cache.after) = ViewAt(d, cache.after)
    BY <1>1, ViewStays
  <1>3. KeptHeads(e)
    BY <1>1 DEF KeptHeads
  <1>4. FileFits(e)
    BY <1>1, <1>2 DEF FileFits
  <1>5. CacheFits(d) => CacheFits(e)
    BY <1>2 DEF CacheFits
  <1>6. ReaderFits(d) => ReaderFits(e)
    BY <1>2 DEF ReaderFits
  <1>7. Traced(d, e) /\ LogFits(d) => LogFits(e)
    BY <1>2 DEF LogFits, Traced
  <1> QED
    BY <1>3, <1>4, <1>5, <1>6, <1>7

\* The variables beside the document and its actors.
kept == <<cursor, cache, reader, saveCursor, file>>

\* A step that keeps the log up and touches nothing beside the document.
LEMMA StepKeeps ==
    ASSUME Inv, Sound(doc'), TxSound(doc'), Grown(doc, doc'), Traced(doc, doc'), OwnActors',
           UNCHANGED kept
    PROVE  Inv'
  <1>1. /\ KeptHeads(doc') /\ FileFits(doc')
        /\ DiffsFit(doc')
    BY KeptStays DEF Inv, DiffsFit
  <1>2. KeptHeads(doc)' /\ FileFits(doc)' /\ DiffsFit(doc)'
    BY <1>1 DEF kept, KeptHeads, FileFits, DiffsFit, CacheFits, LogFits, ReaderFits
  <1> QED
    BY <1>2 DEF Inv

-----------------------------------------------------------------------------
(* Steps that keep the log up *)

\* Keeping the log of a document with a new change changes nothing.
LEMMA SameLog ==
    ASSUME NEW d, NEW h, NEW D, NEW S, NEW n, NEW r, r = Recorded(d, h, D, S, n), NEW l, l = r.log
    PROVE  r = [r EXCEPT !.log = l]
  BY DEF Recorded

\* A step that keeps the log up.
LogStep(d, e) == Step(d, e) /\ Traced(d, e)

\* With the same changes and the same view it is a step, of no account.
LEMMA OpeningSteps ==
    ASSUME NEW d, Sound(d), TxSound(d), NEW e, IsOpening(d, e)
    PROVE  LogStep(d, e) /\ View(e) = View(d)
  <1>1. Sound(e) /\ TxSound(e) /\ SameChanges(d, e) /\ e.isolation = d.isolation /\ Traced(d, e)
    BY DEF IsOpening
  <1>2. Grown(d, e) /\ View(e) = View(d)
    BY <1>1, ReadAlike DEF Sound, IsDoc
  <1>3. Extends(d, e) /\ Isolates(d, e)
    BY <1>1, <1>2 DEF Extends, Isolates, SameChanges
  <1> QED
    BY <1>1, <1>2, <1>3 DEF LogStep, Step

\* An edit opens a transaction, if there is none, and counts in it.
LEMMA EditSteps ==
    ASSUME Inv, NEW n \in {0, 1}, Edit(n)
    PROVE  LogStep(doc, doc')
  <1>1. PICK d \in OpenedFor(doc) :
            /\ WithinBounds(d)
            /\ doc' = [d EXCEPT !.tx = {[t EXCEPT !.ops = IF n > @ THEN n ELSE @] : t \in @}]
    BY DEF Edit
  <1>2. IsOpening(doc, d)
    BY <1>1, OpenedSound DEF Inv
  <1>3. Sound(d) /\ TxSound(d) /\ SameChanges(doc, d) /\ d.isolation = doc.isolation /\ Traced(doc, d)
    BY <1>2 DEF IsOpening
  <1>4. PICK e : e = doc'
    OBVIOUS
  <1>5. /\ DOMAIN e = DOMAIN d /\ SameChanges(d, e) /\ e.isolation = d.isolation /\ e.log = d.log
        /\ e.tx = {[t EXCEPT !.ops = IF n > @ THEN n ELSE @] : t \in d.tx}
    BY <1>1, <1>3, <1>4 DEF Sound, IsDoc, SameChanges
  <1>6. /\ PastsNest(e) /\ HeadsCover(e) /\ Numbered(e) /\ Grown(d, e)
        /\ ViewHeads(e) = ViewHeads(d) /\ View(e) = View(d)
        /\ \A H : Past(e, H) = Past(d, H)
        /\ \A a : LastSeq(e, a) = LastSeq(d, a)
    BY <1>3, <1>5, ReadAlike DEF Sound, IsDoc
  <1>7. IsDoc(e) /\ LogNeedsChange(e)
    BY <1>3, <1>5 DEF Sound, IsDoc, SameChanges, LogNeedsChange
  <1>8. TxSound(e)
    <2> SUFFICES ASSUME NEW u \in e.tx
                 PROVE  /\ e.tx = {u}
                        /\ DOMAIN u = {"actor", "seq", "ops", "deps"}
                        /\ u.actor \in ActorId \ Peer
                        /\ u.seq = LastSeq(e, u.actor) + 1
                        /\ u.seq <= MaxSeq
                        /\ u.ops \in {0, 1}
                        /\ u.deps \in SUBSET e.graph
                        /\ Past(e, u.deps) = Past(e, ViewHeads(e))
      BY DEF TxSound
    <2>1. PICK t \in d.tx : u = [t EXCEPT !.ops = IF n > @ THEN n ELSE @]
      BY <1>5
    <2>2. /\ d.tx = {t}
          /\ DOMAIN t = {"actor", "seq", "ops", "deps"}
          /\ t.actor \in ActorId \ Peer
          /\ t.seq = LastSeq(d, t.actor) + 1
          /\ t.seq <= MaxSeq
          /\ t.ops \in {0, 1}
          /\ t.deps \in SUBSET d.graph
          /\ Past(d, t.deps) = Past(d, ViewHeads(d))
      BY <1>3 DEF TxSound
    <2>3. /\ DOMAIN u = DOMAIN t /\ u.actor = t.actor /\ u.seq = t.seq /\ u.deps = t.deps
          /\ u.ops = IF n > t.ops THEN n ELSE t.ops
      BY <2>1, <2>2
    <2>4. e.tx = {u}
      BY <1>5, <2>1, <2>2
    <2>5. u.ops \in {0, 1}
      BY <2>2, <2>3
    <2> QED
      BY <1>5, <1>6, <2>2, <2>3, <2>4, <2>5 DEF SameChanges
  <1>9. IsOpening(doc, e)
    <2>1. Traced(d, e)
      BY <1>5, <1>6 DEF Traced
    <2>2. SameChanges(doc, e) /\ Traced(doc, e)
      BY <1>3, <1>5, <2>1, StepsCompose DEF SameChanges
    <2> QED
      BY <1>3, <1>5, <1>6, <1>7, <1>8, <2>2 DEF IsOpening, Sound
  <1> QED
    BY <1>4, <1>9, OpeningSteps DEF Inv

\* A commit opens a transaction, if there is none, and closes it.
LEMMA CommitSteps ==
    ASSUME Inv, Commit
    PROVE  /\ LogStep(doc, doc')
           /\ \A h \in doc'.graph \ doc.graph : View(doc') = View(doc) \cup {h}
  <1>1. PICK d \in OpenedFor(doc) : WithinBounds(d) /\ doc' = Closed(d)
    BY DEF Commit
  <1>2. IsOpening(doc, d)
    BY <1>1, OpenedSound DEF Inv
  <1>3. Sound(d) /\ TxSound(d) /\ SameChanges(doc, d) /\ Traced(doc, d) /\ View(d) = View(doc)
        /\ LogStep(doc, d) /\ d.isolation = doc.isolation
    BY <1>2, OpeningSteps DEF Inv, IsOpening
  <1>4. PICK e : e = doc'
    OBVIOUS
  <1>5. Step(d, e) /\ Traced(d, e) /\ IsClosing(d, e)
    BY <1>1, <1>3, <1>4, ClosedSteps, ClosedSound
  <1>6. Step(doc, e)
    <2>1. Extends(doc, e)
      BY <1>3, <1>5 DEF Step, Extends, SameChanges
    <2>2. Isolates(doc, e)
      BY <1>3, <1>5 DEF Step, Isolates
    <2>3. Grown(doc, e)
      BY <1>3, <1>5, StepsCompose DEF Step, LogStep
    <2> QED
      BY <1>5, <2>1, <2>2, <2>3 DEF Step
  <1>7. Traced(doc, e)
    BY <1>3, <1>5, StepsCompose
  <1>8. \A h \in e.graph \ doc.graph : View(e) = View(doc) \cup {h}
    BY <1>3, <1>5 DEF IsClosing, SameChanges
  <1> QED
    BY <1>4, <1>6, <1>7, <1>8 DEF LogStep

\* Most calls close the transaction and otherwise only read.
LEMMA ReadSteps ==
    ASSUME Inv, doc' = Closed(doc)
    PROVE  /\ LogStep(doc, doc')
           /\ \A h \in doc'.graph \ doc.graph : View(doc') = View(doc) \cup {h}
  <1>1. PICK e : e = doc'
    OBVIOUS
  <1>2. Step(doc, e) /\ Traced(doc, e) /\ IsClosing(doc, e)
    BY <1>1, ClosedSteps, ClosedSound DEF Inv
  <1> QED
    BY <1>1, <1>2 DEF LogStep, IsClosing

\* A rollback drops the transaction.
LEMMA RollbackSteps ==
    ASSUME Inv, doc' = [doc EXCEPT !.tx = {}]
    PROVE  LogStep(doc, doc')
  <1>1. PICK e : e = doc'
    OBVIOUS
  <1>2. /\ DOMAIN e = DOMAIN doc /\ SameChanges(doc, e)
        /\ e.isolation = doc.isolation /\ e.log = doc.log /\ e.tx = {}
    BY <1>1 DEF Inv, Sound, IsDoc, SameChanges
  <1>3. PastsNest(e) /\ HeadsCover(e) /\ Numbered(e) /\ View(e) = View(doc)
    BY <1>2, ReadAlike DEF Inv, Sound
  <1>4. IsDoc(e) /\ LogNeedsChange(e) /\ TxSound(e) /\ Traced(doc, e)
    BY <1>2, <1>3 DEF Inv, Sound, IsDoc, SameChanges, LogNeedsChange, TxSound, Traced
  <1>5. IsOpening(doc, e)
    BY <1>2, <1>3, <1>4 DEF IsOpening, Sound
  <1> QED
    BY <1>1, <1>5, OpeningSteps DEF Inv

\* The log l leads on from that of c to what r shows.
LogAfter(c, r, l) ==
    /\ IsLog(l)
    /\ l.active = c.log.active
    /\ l.add \subseteq r.graph /\ l.del \subseteq r.graph
    /\ l.active => \A V : Apply(c.log, V) = View(c) => Apply(l, V) = View(r)

\* Closing the transaction, recording the next change of an actor and bringing
\* the log in line is one step that keeps the log up.
LEMMA RecordingSteps ==
    ASSUME NEW d, Sound(d), TxSound(d), NEW c, c = Closed(d),
           NEW a \in ActorId, NEW D \in SUBSET c.graph, NEW n \in {0, 1}, NEW h, NEW r,
           IsRecording(c, a, D, n, h, r), n = 1 => ActorOf(h) \in Peer,
           NEW e, NEW l, e = [r EXCEPT !.log = l], LogAfter(c, r, l)
    PROVE  LogStep(d, e)
  <1>1. Step(d, c) /\ Traced(d, c) /\ c.tx = {} /\ Sound(c)
    BY ClosedSteps DEF Step
  <1>2. /\ Sound(r) /\ Grown(c, r) /\ r.tx = {} /\ r.isolation = c.isolation /\ r.log = c.log
        /\ r.graph = c.graph \cup {h}
        /\ r.empty = IF n = 0 THEN c.empty \cup {h} ELSE c.empty
    BY <1>1 DEF IsRecording
  <1>3. View(r) = IF c.isolation.on \/ n = 0 THEN View(c) ELSE View(c) \cup {h}
    BY <1>1, RecordedView
  <1>4. TxSound(r)
    BY <1>2 DEF TxSound
  <1>5. l.active => r.graph # {}
    BY <1>2
  <1>6. /\ Sound(e) /\ TxSound(e) /\ Grown(r, e) /\ SameChanges(r, e)
        /\ e.isolation = r.isolation /\ View(e) = View(r) /\ e.log = l
    BY <1>2, <1>4, <1>5, RelogSound DEF LogAfter
  <1>7. Grown(c, e)
    BY <1>2, <1>6, StepsCompose
  <1>8. Traced(c, e)
    BY <1>2, <1>6 DEF Traced, LogAfter
  <1>9. \A g \in (e.graph \ e.empty) \ c.graph : ActorOf(g) \in Peer
    BY <1>2, <1>6 DEF SameChanges
  <1>10. e.isolation.on => c.isolation.on /\ View(e) = View(c)
    BY <1>2, <1>3, <1>6
  <1>11. Step(d, e)
    BY <1>1, <1>6, <1>7, <1>9, <1>10, StepThenGrow
  <1>12. Traced(d, e)
    BY <1>1, <1>8, StepsCompose
  <1> QED
    BY <1>11, <1>12 DEF LogStep

\* An empty change does not show, and logs nothing.
LEMMA EmptyChangeSteps ==
    ASSUME Inv, EmptyChange
    PROVE  LogStep(doc, doc')
  <1>1. PICK c : c = Closed(doc)
    OBVIOUS
  <1>2. Sound(c)
    BY <1>1, ClosedSteps DEF Inv, Step
  <1>3. PICK a \in ActorId : a = own[1]
    BY DEF Inv, OwnActors
  <1>4. PICK h : h = <<a, LastSeq(c, a) + 1>>
    OBVIOUS
  <1>5. PICK D \in SUBSET c.graph, n \in {0, 1} : D = Heads(c) \cup LastOf(c, a) /\ n = 0
    BY DEF Heads, LastOf
  <1>6. PICK r : r = doc'
    OBVIOUS
  <1>7. r = Recorded(c, h, D, c.graph, n) /\ SeqOf(h) <= MaxSeq
    BY <1>1, <1>3, <1>4, <1>5, <1>6 DEF EmptyChange
  <1>8. h \in Hash
    <2>1. LastSeq(c, a) \in Nat
      BY <1>2 DEF Sound, Numbered
    <2> QED
      BY <2>1, <1>4, <1>7, AutoCommitAssumption DEF Hash, SeqOf
  <1>9. IsRecording(c, a, D, n, h, r)
    BY <1>2, <1>4, <1>7, <1>8, RecordedSound
  <1>10. IsDoc(r) /\ r.log = c.log
    BY <1>9 DEF IsRecording, Sound
  <1>11. PICK l : l = r.log
    OBVIOUS
  <1>12. r = [r EXCEPT !.log = l]
    BY <1>7, <1>11, SameLog
  <1>13. View(r) = View(c)
    BY <1>2, <1>5, <1>9, RecordedView
  <1>14. LogAfter(c, r, l)
    BY <1>10, <1>11, <1>13 DEF LogAfter, IsDoc
  <1>15. n = 1 => ActorOf(h) \in Peer
    BY <1>5
  <1>16. Sound(doc) /\ TxSound(doc)
    BY DEF Inv
  <1> QED
    BY <1>1, <1>6, <1>9, <1>12, <1>14, <1>15, <1>16, RecordingSteps

\* The change of another document, on top of what it may know.
LEMMA ReceivedRecording ==
    ASSUME Inv, NEW b \in Peer, NEW D, D \in {{}, Heads(Closed(doc))}, CanReceive(b, D),
           NEW c, c = Closed(doc), NEW h, h = <<b, LastSeq(doc, b) + 1>>,
           NEW r, r = Received(b, D)
    PROVE  /\ Sound(c)
           /\ ActorOf(h) \in Peer
           /\ b \in ActorId
           /\ \E E \in SUBSET c.graph : IsRecording(c, b, E, 1, h, r)
  <1>1. Sound(c) /\ LastSeq(c, b) = LastSeq(doc, b)
    BY ClosedSound DEF Inv
  <1>2. b \in ActorId
    BY AutoCommitAssumption
  <1>3. PICK E \in SUBSET c.graph, n \in {0, 1} : E = D \cup LastOf(c, b) /\ n = 1
    BY DEF Heads, LastOf
  <1>4. h = <<b, LastSeq(c, b) + 1>> /\ r = Recorded(c, h, E, Past(c, E), n)
    BY <1>1, <1>3 DEF Received
  <1>5. h \in Hash
    <2>1. LastSeq(c, b) \in Nat
      BY <1>1, <1>2 DEF Sound, Numbered
    <2>2. LastSeq(c, b) < MaxSeq
      BY <1>1 DEF CanReceive
    <2> QED
      BY <2>1, <2>2, <1>2, <1>4, AutoCommitAssumption DEF Hash
  <1>6. IsRecording(c, b, E, n, h, r)
    BY <1>1, <1>2, <1>4, <1>5, RecordedSound
  <1>7. ActorOf(h) \in Peer
    BY DEF ActorOf
  <1> QED
    BY <1>1, <1>2, <1>3, <1>6, <1>7

\* The actors of a document without a transaction are actors.
LEMMA ClosedActors ==
    ASSUME NEW d, Sound(d), d.tx = {}
    PROVE  Actors(d) \in SUBSET ActorId
  BY ActorsTyped DEF Sound, IsDoc, Actual

\* A document that is not isolated logs what it received; one that is has
\* nothing to log.
LEMMA SharedLog ==
    ASSUME NEW c, Sound(c), NEW r, Sound(r), r.tx = {}, r.log = c.log,
           c.graph \subseteq r.graph, View(c) \subseteq View(r),
           r.isolation.on => View(r) = View(c),
           NEW l, l = LoggedIfShared(r, View(r) \ View(c))
    PROVE  LogAfter(c, r, l)
  <1>1. IsLog(c.log) /\ c.log.add \subseteq r.graph /\ c.log.del \subseteq r.graph
    BY DEF Sound, IsDoc
  <1>2. CASE r.isolation.on
    BY <1>1, <1>2 DEF LoggedIfShared, LogAfter
  <1>3. CASE ~r.isolation.on
    <2>1. PICK m : m = Migrated(c.log, Actors(r))
      OBVIOUS
    <2>2. Actors(r) \in SUBSET ActorId
      BY ClosedActors
    <2>3. /\ IsLog(m) /\ m.active = c.log.active
          /\ m.add = c.log.add /\ m.del = c.log.del
          /\ \A V : Apply(m, V) = Apply(c.log, V)
      BY <1>1, <2>1, <2>2, MigratedLeads
    <2>4. View(c) \ View(r) = {}
      OBVIOUS
    <2>5. l = Logged(m, View(r) \ View(c), View(c) \ View(r), Actors(r))
      BY <1>3, <2>1, <2>4 DEF LoggedIfShared
    <2>6. LeadsOn(m, l, View(c), View(r))
      BY <2>3, <2>5, LoggedLeads
    <2>7. View(r) \subseteq r.graph
      BY HeadsShowAll
    <2> QED
      BY <1>1, <2>3, <2>6, <2>7 DEF LeadsOn, LogAfter
  <1> QED
    BY <1>2, <1>3

\* What others send is logged, unless the document is isolated.
LEMMA ReceiveSteps ==
    ASSUME Inv, NEW b \in Peer, NEW D, D \in {{}, Heads(Closed(doc))}, Receive(b, D)
    PROVE  LogStep(doc, doc')
  <1>1. PICK c : c = Closed(doc)
    OBVIOUS
  <1>2. PICK h : h = <<b, LastSeq(doc, b) + 1>>
    OBVIOUS
  <1>3. PICK r : r = Received(b, D)
    OBVIOUS
  <1>4. CanReceive(b, D) /\ doc' = [r EXCEPT !.log = LoggedIfShared(r, {h})]
    BY <1>2, <1>3 DEF Receive
  <1>5. /\ Sound(c) /\ ActorOf(h) \in Peer /\ b \in ActorId
        /\ \E E \in SUBSET c.graph : IsRecording(c, b, E, 1, h, r)
    BY <1>1, <1>2, <1>3, <1>4, ReceivedRecording
  <1>6. PICK E \in SUBSET c.graph, n \in {0, 1} : n = 1 /\ IsRecording(c, b, E, n, h, r)
    BY <1>5
  <1>7. View(r) = IF c.isolation.on \/ n = 0 THEN View(c) ELSE View(c) \cup {h}
    BY <1>5, <1>6, RecordedView
  <1>8. /\ Sound(r) /\ r.isolation = c.isolation /\ r.log = c.log /\ r.tx = c.tx
        /\ h \notin c.graph /\ c.graph \subseteq r.graph
    BY <1>6 DEF IsRecording
  <1>9. c.tx = {}
    BY <1>1, ClosedSteps DEF Inv
  <1>10. PICK l : l = LoggedIfShared(r, View(r) \ View(c))
    OBVIOUS
  <1>11. r.isolation.on => View(r) = View(c)
    BY <1>7, <1>8
  <1>12. View(c) \subseteq View(r)
    BY <1>7
  <1>13. LogAfter(c, r, l)
    BY <1>5, <1>8, <1>9, <1>10, <1>11, <1>12, SharedLog
  <1>14. PICK e : e = doc'
    OBVIOUS
  <1>15. e = [r EXCEPT !.log = l]
    <2>1. CASE r.isolation.on
      BY <2>1, <1>4, <1>10, <1>14 DEF LoggedIfShared
    <2>2. CASE ~r.isolation.on
      <3>1. View(c) \subseteq c.graph
        BY <1>5, HeadsShowAll
      <3>2. View(r) \ View(c) = {h}
        BY <2>2, <3>1, <1>6, <1>7, <1>8
      <3> QED
        BY <3>2, <1>4, <1>10, <1>14
    <2> QED
      BY <2>1, <2>2
  <1>16. Sound(doc) /\ TxSound(doc)
    BY DEF Inv
  <1> QED
    BY <1>1, <1>5, <1>6, <1>13, <1>14, <1>15, <1>16, RecordingSteps

\* Nothing new: the log is brought in line with the actors, if that.
LEMMA ReceiveNothingSteps ==
    ASSUME Inv, ReceiveNothing
    PROVE  LogStep(doc, doc')
  <1>1. PICK c : c = Closed(doc)
    OBVIOUS
  <1>2. PICK e : e = doc'
    OBVIOUS
  <1>3. Step(doc, c) /\ Traced(doc, c) /\ c.tx = {} /\ Sound(c) /\ TxSound(c)
    BY <1>1, ClosedSteps DEF Inv, Step
  <1>4. CASE e = doc
    BY <1>2, <1>4 DEF Inv, LogStep, Step, Grown, Extends, Isolates, Traced, Sound, IsDoc
  <1>5. CASE e = [c EXCEPT !.log = LoggedIfShared(c, {})]
    <2>1. PICK l : l = LoggedIfShared(c, {})
      OBVIOUS
    <2>2. View(c) \ View(c) = {}
      OBVIOUS
    <2>3. LogAfter(c, c, l)
      BY <1>3, <2>1, <2>2, SharedLog
    <2>4. c.log.active => c.graph # {}
      BY <1>3 DEF Sound, LogNeedsChange
    <2>5. /\ Sound(e) /\ TxSound(e) /\ Grown(c, e) /\ SameChanges(c, e)
          /\ e.isolation = c.isolation /\ View(e) = View(c) /\ e.log = l
      BY <1>3, <1>5, <2>1, <2>3, <2>4, RelogSound DEF LogAfter
    <2>6. Traced(c, e)
      BY <2>3, <2>5 DEF LogAfter, Traced
    <2>7. Step(doc, e)
      BY <1>3, <2>5, StepThenGrow DEF SameChanges
    <2> QED
      BY <1>2, <1>3, <2>6, <2>7, StepsCompose DEF LogStep
  <1> QED
    BY <1>1, <1>2, <1>4, <1>5 DEF ReceiveNothing

\* An empty document takes over what is loaded; its log is not active.
LEMMA LoadSteps ==
    ASSUME Inv, NEW b \in Peer, LoadIntoEmpty(b)
    PROVE  LogStep(doc, doc')
  <1>1. PICK c : c = Closed(doc)
    OBVIOUS
  <1>2. PICK h : h = <<b, LastSeq(doc, b) + 1>>
    OBVIOUS
  <1>3. PICK D : D = {}
    OBVIOUS
  <1>4. PICK r : r = doc'
    OBVIOUS
  <1>5. CanReceive(b, D) /\ r = Received(b, D) /\ c.graph = {}
    BY <1>1, <1>3, <1>4 DEF LoadIntoEmpty
  <1>6. D \in {{}, Heads(Closed(doc))}
    BY <1>3
  <1>7. /\ Sound(c) /\ ActorOf(h) \in Peer /\ b \in ActorId
        /\ \E E \in SUBSET c.graph : IsRecording(c, b, E, 1, h, r)
    BY <1>1, <1>2, <1>5, <1>6, ReceivedRecording
  <1>8. PICK E \in SUBSET c.graph, n \in {0, 1} : n = 1 /\ IsRecording(c, b, E, n, h, r)
    BY <1>7
  <1>9. Sound(r) /\ r.log = c.log /\ c.graph \subseteq r.graph
    BY <1>8 DEF IsRecording
  <1>10. PICK l : l = r.log
    OBVIOUS
  <1>11. LogAfter(c, r, l)
    <2>1. ~c.log.active
      BY <1>5, <1>7 DEF Sound, LogNeedsChange
    <2> QED
      BY <2>1, <1>9, <1>10 DEF LogAfter, Sound, IsDoc
  <1>12. r = [r EXCEPT !.log = l]
    <2>1. r = Recorded(c, <<b, LastSeq(c, b) + 1>>, LastOf(c, b), Past(c, LastOf(c, b)), 1)
      BY <1>1, <1>3, <1>5 DEF Received
    <2> QED
      BY <2>1, <1>10, SameLog
  <1>13. Sound(doc) /\ TxSound(doc)
    BY DEF Inv
  <1> QED
    BY <1>1, <1>4, <1>7, <1>8, <1>11, <1>12, <1>13, RecordingSteps

-----------------------------------------------------------------------------
(* Isolation *)

\* Under the isolation i the document c is read at the heads H.
LooksAt(c, i, H) ==
    /\ i \in [on : BOOLEAN, at : SUBSET c.graph]
    /\ H \in SUBSET c.graph
    /\ H = IF i.on THEN i.at ELSE Heads(c)

\* The document c under an isolation i that shows the heads H.
Patched(c, i, H) == [c EXCEPT !.log = PatchTo(c, H), !.isolation = i]

\* e is the document c under the isolation i.
IsPatched(c, i, e) ==
    /\ Sound(e) /\ TxSound(e) /\ SameChanges(c, e) /\ Grown(c, e)
    /\ e.isolation = i /\ Traced(c, e)

\* Looking at other heads logs the way there.
LEMMA PatchedSound ==
    ASSUME NEW c, Sound(c), c.tx = {}, NEW i, NEW H, LooksAt(c, i, H),
           NEW e, e = Patched(c, i, H)
    PROVE  IsPatched(c, i, e)
  <1>1. PICK l : l = PatchTo(c, H)
    OBVIOUS
  <1>2. /\ DOMAIN e = DOMAIN c /\ SameChanges(c, e)
        /\ e.isolation = i /\ e.tx = {} /\ e.log = l
    BY <1>1 DEF Patched, Sound, IsDoc, SameChanges
  <1>3. /\ Heads(e) = Heads(c)
        /\ \A K : ViewAt(e, K) = ViewAt(c, K)
        /\ PastsNest(e) /\ HeadsCover(e) /\ Numbered(e) /\ Grown(c, e)
    BY <1>2, ReadAlike DEF Sound, IsDoc
  <1>4. ViewHeads(e) = H /\ View(e) = ViewAt(c, H)
    <2>1. H = IF i.on THEN i.at ELSE Heads(c)
      BY DEF LooksAt
    <2>2. ViewHeads(e) = IF i.on THEN i.at ELSE Heads(c)
      BY <1>2, <1>3 DEF ViewHeads
    <2> QED
      BY <2>1, <2>2, <1>3 DEF View
  <1>5. View(c) \subseteq c.graph /\ ViewAt(c, H) \subseteq c.graph
    <2>1. View(c) \subseteq c.graph /\ Past(c, H) \subseteq c.graph
      BY HeadsShowAll DEF LooksAt
    <2> QED
      BY <2>1 DEF ViewAt
  <1>6. IsLog(c.log) /\ c.log.add \subseteq c.graph /\ c.log.del \subseteq c.graph
    BY DEF Sound, IsDoc
  <1>7. LeadsOn(c.log, l, View(c), View(e))
    <2>1. CASE ViewHeads(c) = H
      <3>1. l = c.log /\ View(e) = View(c)
        BY <2>1, <1>1, <1>4 DEF PatchTo, View
      <3> QED
        BY <3>1, <1>6 DEF LeadsOn
    <2>2. CASE ViewHeads(c) # H
      <3>1. l = Logged(c.log, View(e) \ View(c), View(c) \ View(e), Actors(c))
        BY <2>2, <1>1, <1>4 DEF PatchTo
      <3> QED
        BY <3>1, <1>6, LoggedLeads
    <2> QED
      BY <2>1, <2>2
  <1>8. IsDoc(e) /\ LogNeedsChange(e)
    BY <1>2, <1>4, <1>5, <1>6, <1>7 DEF Sound, IsDoc, SameChanges, LogNeedsChange, LeadsOn, LooksAt
  <1>9. TxSound(e) /\ Traced(c, e)
    BY <1>2, <1>7 DEF TxSound, Traced, LeadsOn
  <1> QED
    BY <1>2, <1>3, <1>8, <1>9 DEF Sound, IsPatched

\* What a step that isolates or integrates has in common with the others.
ViewStep(d, e) == Sound(e) /\ TxSound(e) /\ Grown(d, e) /\ Traced(d, e) /\ Extends(d, e)

\* To isolate or to integrate is to close the transaction and look elsewhere.
LEMMA PatchedSteps ==
    ASSUME NEW d, Sound(d), TxSound(d), NEW c, c = Closed(d), NEW i, NEW H, LooksAt(c, i, H),
           NEW e, e = Patched(c, i, H)
    PROVE  ViewStep(d, e) /\ e.isolation = i
  <1>1. Step(d, c) /\ Traced(d, c) /\ c.tx = {} /\ Sound(c)
    BY ClosedSteps DEF Step
  <1>2. /\ Sound(e) /\ TxSound(e) /\ SameChanges(c, e) /\ Grown(c, e)
        /\ e.isolation = i /\ Traced(c, e)
    BY <1>1, PatchedSound DEF IsPatched
  <1>3. Grown(d, e) /\ Traced(d, e)
    BY <1>1, <1>2, StepsCompose DEF Step
  <1>4. Extends(d, e)
    BY <1>1, <1>2 DEF Step, Extends, SameChanges
  <1> QED
    BY <1>2, <1>3, <1>4 DEF ViewStep

\* Isolation at heads somebody may know.
LEMMA IsolateSteps ==
    ASSUME Inv, NEW H \in KnownHeads, Isolate(H)
    PROVE  ViewStep(doc, doc')
  <1>1. PICK c : c = Closed(doc)
    OBVIOUS
  <1>2. PICK i : i = [on |-> TRUE, at |-> H]
    OBVIOUS
  <1>3. PICK e : e = doc'
    OBVIOUS
  <1>4. e = Patched(c, i, H)
    BY <1>1, <1>2, <1>3 DEF Isolate, Patched
  <1>5. Sound(doc) /\ TxSound(doc)
    BY DEF Inv
  <1>6. H \in SUBSET c.graph
    <2>1. Grown(doc, c)
      BY <1>1, <1>5, ClosedSteps DEF Step
    <2> QED
      BY <2>1 DEF Grown, KnownHeads
  <1>7. LooksAt(c, i, H)
    BY <1>2, <1>6 DEF LooksAt
  <1>8. ViewStep(doc, e)
    BY <1>1, <1>4, <1>5, <1>7, PatchedSteps
  <1> QED
    BY <1>3, <1>8

\* The end of it.
LEMMA IntegrateSteps ==
    ASSUME Inv, Integrate
    PROVE  ViewStep(doc, doc') /\ Isolates(doc, doc')
  <1>1. PICK c : c = Closed(doc)
    OBVIOUS
  <1>2. PICK i : i = [on |-> FALSE, at |-> {}]
    OBVIOUS
  <1>3. PICK e : e = doc'
    OBVIOUS
  <1>4. PICK H : H = Heads(c)
    OBVIOUS
  <1>5. e = Patched(c, i, H)
    BY <1>1, <1>2, <1>3, <1>4 DEF Integrate, Patched
  <1>6. Sound(doc) /\ TxSound(doc)
    BY DEF Inv
  <1>7. H \in SUBSET c.graph
    BY <1>4 DEF Heads
  <1>8. LooksAt(c, i, H)
    BY <1>2, <1>4, <1>7 DEF LooksAt
  <1>9. ViewStep(doc, e) /\ e.isolation = i
    BY <1>1, <1>5, <1>6, <1>8, PatchedSteps
  <1> QED
    BY <1>2, <1>3, <1>9 DEF Isolates

-----------------------------------------------------------------------------
(* Diffs *)

\* The transaction closed, the document is as good, and what is kept still
\* fits it.
LEMMA ClosedKeeps ==
    ASSUME Inv, NEW c, c = Closed(doc)
    PROVE  /\ Step(doc, c) /\ Traced(doc, c) /\ c.tx = {} /\ Sound(c) /\ TxSound(c)
           /\ KeptHeads(c) /\ FileFits(c) /\ DiffsFit(c)
           /\ c.isolation.on = doc.isolation.on
  <1>1. Step(doc, c) /\ Traced(doc, c) /\ c.tx = {} /\ IsClosing(doc, c)
    BY ClosedSteps, ClosedSound DEF Inv
  <1>2. Sound(c) /\ TxSound(c) /\ Grown(doc, c)
    BY <1>1 DEF Step
  <1>3. KeptHeads(c) /\ FileFits(c) /\ DiffsFit(c)
    BY <1>1, <1>2, KeptStays DEF Inv, DiffsFit
  <1>4. c.isolation.on = doc.isolation.on
    BY <1>1 DEF IsClosing
  <1> QED
    BY <1>1, <1>2, <1>3, <1>4

\* A document that is not isolated shows what lies under its heads.
LEMMA SharedView ==
    ASSUME NEW d, ~d.isolation.on
    PROVE  View(d) = ViewAt(d, Heads(d))
  BY DEF View, ViewHeads

\* With another log only, a closed transaction is still one step.
LEMMA RelogSteps ==
    ASSUME NEW d, NEW c, Step(d, c), c.tx = {}, NEW e, NEW l,
           e = [c EXCEPT !.log = l],
           IsLog(l), l.add = {}, l.del = {}, l.active => c.graph # {}
    PROVE  /\ Step(d, e) /\ SameChanges(c, e) /\ Grown(c, e) /\ View(e) = View(c) /\ e.log = l
           /\ e.isolation = c.isolation
  <1>1. Sound(c) /\ TxSound(c)
    BY DEF Step
  <1>2. /\ Sound(e) /\ TxSound(e) /\ Grown(c, e) /\ SameChanges(c, e)
        /\ e.isolation = c.isolation /\ View(e) = View(c) /\ e.log = l
    BY <1>1, RelogSound
  <1>3. Step(d, e)
    BY <1>2, StepThenGrow DEF SameChanges
  <1> QED
    BY <1>2, <1>3

\* What moving the diff cursor of the closed document c does.
IsMove(c) ==
    /\ Step(doc, doc')
    /\ SameChanges(c, doc')
    /\ cursor' \subseteq c.graph
    /\ ~c.isolation.on =>
           /\ View(c) = ViewAt(c, cursor')
           /\ View(doc') = View(c)
           /\ doc'.log.active => Apply(doc'.log, View(c)) = View(c)

\* The diff cursor is moved to the heads, and the log starts over there.
LEMMA MoveSteps ==
    ASSUME Inv, NEW c, c = Closed(doc), MoveCursor(c)
    PROVE  IsMove(c)
  <1>1. /\ Step(doc, c) /\ c.tx = {} /\ Sound(c) /\ KeptHeads(c)
    BY ClosedKeeps
  <1>2. Heads(c) \in SUBSET c.graph /\ View(c) \subseteq c.graph
    BY <1>1, HeadsShowAll
  <1>3. PICK e : e = doc'
    OBVIOUS
  <1>4. CASE c.graph = {}
    <2>1. e = c /\ cursor' = cursor
      BY <1>3, <1>4 DEF MoveCursor
    <2>2. ~c.log.active
      BY <1>1, <1>4 DEF Sound, LogNeedsChange
    <2>3. cursor = {}
      BY <1>1, <1>4 DEF KeptHeads
    <2>4. View(c) = ViewAt(c, cursor)
      BY <1>2, <1>4, <2>3 DEF ViewAt, Past
    <2> QED
      BY <1>1, <1>3, <1>4, <2>1, <2>2, <2>3, <2>4 DEF IsMove, SameChanges
  <1>5. CASE c.graph # {}
    <2>1. PICK l : l = Truncated(c.log)
      OBVIOUS
    <2>2. e = [c EXCEPT !.log = l] /\ cursor' = Heads(c)
      BY <1>3, <1>5, <2>1 DEF MoveCursor
    <2>3. IsLog(c.log)
      BY <1>1 DEF Sound, IsDoc
    <2>4. IsLog(l) /\ l.add = {} /\ l.del = {}
      BY <2>1, <2>3 DEF Truncated, IsLog
    <2>5. Step(doc, e) /\ SameChanges(c, e) /\ View(e) = View(c) /\ e.log = l
      BY <1>1, <1>5, <2>2, <2>4, RelogSteps
    <2>6. \A V : Apply(l, V) = V
      BY <2>4 DEF Apply
    <2> QED
      BY <1>2, <1>3, <2>2, <2>5, <2>6, SharedView DEF IsMove
  <1> QED
    BY <1>4, <1>5

\* The invariant after the diff cursor was moved, if the reader came along.
LEMMA MoveKeeps ==
    ASSUME Inv, NEW c, c = Closed(doc), IsMove(c), DiffAllowed,
           UNCHANGED <<own, file, saveCursor>>,
           cache'.before \cup cache'.after \subseteq c.graph,
           ~DiffIsolated => reader' = View(c),
           ~DiffIsolated /\ cache'.on => Apply(cache', ViewAt(c, cache'.before)) = ViewAt(c, cache'.after)
    PROVE  Inv'
  <1>1. /\ Sound(c) /\ KeptHeads(c) /\ FileFits(c)
        /\ c.isolation.on = doc.isolation.on
    BY ClosedKeeps
  <1>2. PICK e : e = doc'
    OBVIOUS
  <1>3. Sound(e) /\ TxSound(e) /\ SameChanges(c, e)
    BY <1>2 DEF IsMove, Step
  <1>4. (\A H : Past(e, H) = Past(c, H)) /\ \A H : ViewAt(e, H) = ViewAt(c, H)
    BY <1>3, ReadAlike
  <1>5. KeptHeads(doc)'
    BY <1>1, <1>2, <1>3 DEF KeptHeads, SameChanges, IsMove
  <1>6. FileFits(doc)'
    BY <1>1, <1>2, <1>3, <1>4 DEF FileFits, SameChanges
  <1>7. ASSUME ~DiffIsolated
        PROVE  CacheFits(doc)' /\ LogFits(doc)' /\ ReaderFits(doc)'
    <2>1. ~c.isolation.on
      BY <1>1, <1>7 DEF DiffAllowed
    <2>2. CacheFits(doc)'
      BY <1>2, <1>4, <1>7 DEF CacheFits
    <2>3. ReaderFits(doc)'
      BY <1>2, <1>4, <1>7, <2>1 DEF ReaderFits, IsMove
    <2>4. LogFits(doc)'
      BY <1>2, <1>4, <2>1 DEF LogFits, IsMove
    <2> QED
      BY <2>2, <2>3, <2>4
  <1>8. OwnActors'
    BY DEF Inv, OwnActors
  <1> QED
    BY <1>2, <1>3, <1>5, <1>6, <1>7, <1>8 DEF Inv, DiffsFit

\* The diff k is stored under the heads it was asked for, and leads from one to
\* the other.
IsDiff(c, before, after, k) ==
    /\ k.before = before
    /\ k.after = after
    /\ CacheFits(c) /\ LogFits(c) /\ ~c.isolation.on
           => Apply(k, ViewAt(c, before)) = ViewAt(c, after)

\* What diff returns leads from one pair of heads to the other, whether it was
\* in the cache, in the log or found by comparing them.
LEMMA DiffedExact ==
    ASSUME NEW c, Sound(c), KeptHeads(c),
           NEW before \in SUBSET c.graph, NEW after \in SUBSET c.graph,
           NEW k, k = Diffed(c, before, after)
    PROVE  IsDiff(c, before, after, k)
  <1>1. CASE Hit(cache, before, after)
    <2>1. k = cache /\ cache.on /\ cache.before = before /\ cache.after = after
      BY <1>1 DEF Diffed, Hit
    <2> QED
      BY <2>1 DEF CacheFits, IsDiff
  <1>2. CASE ~Hit(cache, before, after)
    <2>1. k.before = before /\ k.after = after
      BY <1>2 DEF Diffed
    <2>2. CASE after = Heads(c) /\ before = cursor /\ c.log.active
      <3>1. k.add = c.log.add /\ k.del = c.log.del
        BY <1>2, <2>2 DEF Diffed
      <3>2. \A V : Apply(k, V) = Apply(c.log, V)
        BY <3>1 DEF Apply
      <3> QED
        BY <2>1, <2>2, <3>2, SharedView DEF LogFits, IsDiff
    <2>3. CASE ~(after = Heads(c) /\ before = cursor /\ c.log.active)
      <3>1. /\ k.add = ViewAt(c, after) \ ViewAt(c, before)
            /\ k.del = ViewAt(c, before) \ ViewAt(c, after)
        BY <1>2, <2>3 DEF Diffed
      <3> QED
        BY <2>1, <3>1 DEF Apply, IsDiff
    <2> QED
      BY <2>2, <2>3
  <1> QED
    BY <1>1, <1>2

\* The cursor follows the application.
LEMMA UpdateDiffCursorKeeps ==
    ASSUME Inv, UpdateDiffCursor
    PROVE  Step(doc, doc') /\ Inv'
  <1>1. PICK c : c = Closed(doc)
    OBVIOUS
  <1>2. /\ DiffAllowed /\ MoveCursor(c) /\ reader' = View(c)
        /\ UNCHANGED <<outside, cache, saveCursor>>
    BY <1>1 DEF UpdateDiffCursor
  <1>3. IsMove(c)
    BY <1>1, <1>2, MoveSteps
  <1>4. KeptHeads(c) /\ DiffsFit(c)
    BY <1>1, ClosedKeeps
  <1>5. UNCHANGED <<own, file, saveCursor, cache>>
    BY <1>2 DEF outside
  <1>6. cache'.before \cup cache'.after \subseteq c.graph
    BY <1>4, <1>5 DEF KeptHeads
  <1>7. ~DiffIsolated /\ cache'.on => Apply(cache', ViewAt(c, cache'.before)) = ViewAt(c, cache'.after)
    BY <1>4, <1>5 DEF DiffsFit, CacheFits
  <1>8. Inv'
    BY <1>1, <1>2, <1>3, <1>5, <1>6, <1>7, MoveKeeps
  <1> QED
    BY <1>3, <1>8 DEF IsMove

\* The application follows the cursor, by the patches it is given.
LEMMA DiffIncrementalKeeps ==
    ASSUME Inv, DiffIncremental
    PROVE  /\ Step(doc, doc') /\ Inv'
           /\ ~DiffIsolated => reader' = View(doc')
  <1>1. PICK c : c = Closed(doc)
    OBVIOUS
  <1>2. /\ DiffAllowed /\ cache' = Diffed(c, cursor, Heads(c))
        /\ reader' = Apply(cache', reader) /\ MoveCursor(c)
        /\ UNCHANGED <<own, file, saveCursor>>
    BY <1>1 DEF DiffIncremental, outside
  <1>3. IsMove(c)
    BY <1>1, <1>2, MoveSteps
  <1>4. Sound(c) /\ KeptHeads(c) /\ DiffsFit(c) /\ c.isolation.on = doc.isolation.on
    BY <1>1, ClosedKeeps
  <1>5. PICK k : k = cache'
    OBVIOUS
  <1>6. PICK after : after = Heads(c)
    OBVIOUS
  <1>7. cursor \in SUBSET c.graph /\ after \in SUBSET c.graph /\ k = Diffed(c, cursor, after)
    BY <1>2, <1>4, <1>5, <1>6, HeadsShowAll DEF KeptHeads
  <1>8. IsDiff(c, cursor, after, k)
    BY <1>4, <1>7, DiffedExact
  <1>9. cache'.before \cup cache'.after \subseteq c.graph
    BY <1>5, <1>7, <1>8 DEF IsDiff
  <1>10. ASSUME ~DiffIsolated
         PROVE  /\ reader' = View(c)
                /\ Apply(cache', ViewAt(c, cache'.before)) = ViewAt(c, cache'.after)
                /\ View(doc') = View(c)
    <2>1. ~c.isolation.on
      BY <1>2, <1>4, <1>10 DEF DiffAllowed
    <2>2. CacheFits(c) /\ LogFits(c) /\ ReaderFits(c)
      BY <1>4, <1>10 DEF DiffsFit
    <2>3. Apply(k, ViewAt(c, cursor)) = ViewAt(c, after) /\ View(c) = ViewAt(c, after)
      BY <1>6, <1>8, <2>1, <2>2, SharedView DEF IsDiff
    <2>4. reader' = View(c)
      BY <1>2, <1>5, <2>2, <2>3 DEF ReaderFits
    <2> QED
      BY <1>3, <1>5, <1>8, <2>1, <2>3, <2>4 DEF IsMove, IsDiff
  <1>11. Inv'
    BY <1>1, <1>2, <1>3, <1>9, <1>10, MoveKeeps
  <1> QED
    BY <1>3, <1>10, <1>11 DEF IsMove

\* The cursor, the log and the application start over; the cache stays.
LEMMA ResetDiffCursorKeeps ==
    ASSUME Inv, ResetDiffCursor
    PROVE  Step(doc, doc') /\ Inv'
  <1>1. PICK c : c = Closed(doc)
    OBVIOUS
  <1>2. PICK e : e = doc'
    OBVIOUS
  <1>3. PICK l : l = NoLog
    OBVIOUS
  <1>4. /\ e = [c EXCEPT !.log = l]
        /\ cursor' = {} /\ reader' = {}
        /\ UNCHANGED <<own, file, cache, saveCursor>>
    BY <1>1, <1>2, <1>3 DEF ResetDiffCursor, outside
  <1>5. /\ Step(doc, c) /\ c.tx = {} /\ Sound(c)
        /\ KeptHeads(c) /\ FileFits(c) /\ DiffsFit(c)
    BY <1>1, ClosedKeeps
  <1>6. IsLog(l) /\ l.add = {} /\ l.del = {} /\ ~l.active
    BY <1>3 DEF NoLog, IsLog
  <1>7. Step(doc, e) /\ SameChanges(c, e) /\ Grown(c, e) /\ e.log = l
    BY <1>4, <1>5, <1>6, RelogSteps
  <1>8. (\A H : Past(e, H) = Past(c, H)) /\ \A H : ViewAt(e, H) = ViewAt(c, H)
    BY <1>7, ReadAlike
  <1>9. KeptHeads(doc)' /\ FileFits(doc)'
    BY <1>2, <1>4, <1>5, <1>7, <1>8 DEF KeptHeads, FileFits, SameChanges
  <1>10. DiffsFit(doc)'
    <2>1. ViewAt(e, {}) = {}
      BY DEF ViewAt, Past
    <2>2. ReaderFits(doc)' /\ LogFits(doc)'
      BY <1>2, <1>4, <1>6, <1>7, <2>1 DEF ReaderFits, LogFits
    <2>3. CacheFits(c) => CacheFits(doc)'
      BY <1>2, <1>4, <1>8 DEF CacheFits
    <2> QED
      BY <1>5, <2>2, <2>3 DEF DiffsFit
  <1>11. OwnActors'
    BY <1>4 DEF Inv, OwnActors
  <1> QED
    BY <1>2, <1>7, <1>9, <1>10, <1>11 DEF Inv, Step

\* A diff between any heads only changes the cache.
LEMMA DiffKeeps ==
    ASSUME Inv, NEW before, before \in {{}, cursor}, Diff(before, ViewHeads(Closed(doc)))
    PROVE  Step(doc, doc') /\ Inv'
  <1>1. PICK c : c = Closed(doc)
    OBVIOUS
  <1>2. PICK k : k = cache'
    OBVIOUS
  <1>3. PICK after : after = ViewHeads(c)
    OBVIOUS
  <1>4. /\ DiffAllowed /\ doc' = c /\ k = Diffed(c, before, after)
        /\ UNCHANGED <<own, file, cursor, reader, saveCursor>>
    BY <1>1, <1>2, <1>3 DEF Diff, outside
  <1>5. /\ Step(doc, c) /\ Sound(c) /\ TxSound(c)
        /\ KeptHeads(c) /\ FileFits(c) /\ DiffsFit(c)
        /\ c.isolation.on = doc.isolation.on
    BY <1>1, ClosedKeeps
  <1>6. before \in SUBSET c.graph /\ after \in SUBSET c.graph /\ k = Diffed(c, before, after)
    BY <1>3, <1>4, <1>5, HeadsShowAll DEF KeptHeads
  <1>7. IsDiff(c, before, after, k)
    BY <1>5, <1>6, DiffedExact
  <1>8. KeptHeads(doc)' /\ FileFits(doc)' /\ OwnActors'
    BY <1>2, <1>4, <1>5, <1>6, <1>7 DEF IsDiff, KeptHeads, FileFits, Inv, OwnActors
  <1>9. DiffsFit(doc)'
    <2>1. ~DiffIsolated => ~c.isolation.on
      BY <1>4, <1>5 DEF DiffAllowed
    <2>2. ~DiffIsolated => CacheFits(doc)'
      BY <1>2, <1>4, <1>5, <1>7, <2>1 DEF IsDiff, DiffsFit, CacheFits
    <2>3. (LogFits(c) => LogFits(doc)') /\ (ReaderFits(c) => ReaderFits(doc)')
      BY <1>4 DEF LogFits, ReaderFits
    <2> QED
      BY <1>5, <2>2, <2>3 DEF DiffsFit
  <1> QED
    BY <1>4, <1>5, <1>8, <1>9 DEF Inv

-----------------------------------------------------------------------------
(* Saving *)

\* What comes before a change of the document, of the same actor, is in it.
LEMMA NoGaps ==
    ASSUME NEW d, Sound(d), NEW g \in d.graph, NEW h \in Hash,
           ActorOf(h) = ActorOf(g), SeqOf(h) <= SeqOf(g)
    PROVE  h \in d.graph
  <1>1. /\ ActorOf(g) \in ActorId /\ SeqOf(g) \in Nat /\ SeqOf(h) \in Nat /\ g \in Hash
    BY AutoCommitAssumption DEF Sound, IsDoc, Hash, ActorOf, SeqOf
  <1>2. SeqOf(g) <= LastSeq(d, ActorOf(g)) /\ LastSeq(d, ActorOf(g)) \in Nat
    BY <1>1 DEF Sound, Numbered
  <1>3. SeqOf(h) <= LastSeq(d, ActorOf(h))
    BY <1>1, <1>2
  <1> QED
    BY <1>3 DEF Sound, Numbered

\* A save and an incremental save leave a file with every change.
LEMMA SaveKeeps ==
    ASSUME Inv, Save \/ SaveIncremental
    PROVE  LogStep(doc, doc') /\ Inv' /\ file' = doc'.graph
  <1>1. PICK c : c = Closed(doc)
    OBVIOUS
  <1>2. doc' = c /\ UNCHANGED <<own, diffs>>
    BY <1>1 DEF Save, SaveIncremental
  <1>3. /\ Step(doc, c) /\ Traced(doc, c) /\ Sound(c) /\ TxSound(c)
        /\ KeptHeads(c) /\ FileFits(c) /\ DiffsFit(c)
    BY <1>1, ClosedKeeps
  <1>4. Heads(c) \in SUBSET c.graph
    BY <1>3, HeadsShowAll
  <1>5. file' = c.graph /\ saveCursor' \subseteq c.graph
    <2>1. CASE Save
      BY <1>1, <1>4, <2>1 DEF Save
    <2>2. CASE SaveIncremental
      <3>1. file' = file \cup GetHashes(c, saveCursor)
        BY <1>1, <2>2 DEF SaveIncremental
      <3>2. saveCursor' = saveCursor \/ saveCursor' = Heads(c)
        BY <1>1, <2>2 DEF SaveIncremental
      <3>3. ASSUME NEW h \in c.graph, h \notin GetHashes(c, saveCursor)
            PROVE  h \in file
        <4>1. PICK g \in Past(c, saveCursor) : ActorOf(g) = ActorOf(h) /\ ~(SeqOf(g) < SeqOf(h))
          BY <3>3 DEF GetHashes
        <4>2. g \in file /\ g \in Hash /\ h \in Hash
          BY <1>3 DEF FileFits, Sound, IsDoc
        <4>3. SeqOf(h) <= SeqOf(g)
          BY <4>1, <4>2, AutoCommitAssumption DEF Hash, SeqOf
        <4> QED
          BY <1>3, <4>1, <4>2, <4>3 DEF FileFits
      <3>4. file \subseteq c.graph /\ GetHashes(c, saveCursor) \subseteq c.graph
        BY <1>3 DEF FileFits, GetHashes
      <3>5. saveCursor \subseteq c.graph
        BY <1>3 DEF KeptHeads
      <3> QED
        BY <1>4, <3>1, <3>2, <3>3, <3>4, <3>5
    <2> QED
      BY <2>1, <2>2
  <1>6. KeptHeads(doc)'
    BY <1>2, <1>3, <1>5 DEF KeptHeads, diffs
  <1>7. FileFits(doc)'
    <2>1. Past(c, saveCursor') \subseteq c.graph
      BY <1>3, <1>5, HeadsShowAll
    <2>2. \A g \in c.graph : \A h \in Hash :
              ActorOf(h) = ActorOf(g) /\ SeqOf(h) <= SeqOf(g) => h \in c.graph
      BY <1>3, NoGaps
    <2> QED
      BY <1>2, <1>5, <2>1, <2>2 DEF FileFits
  <1>8. DiffsFit(doc)' /\ OwnActors'
    BY <1>2, <1>3 DEF diffs, DiffsFit, CacheFits, LogFits, ReaderFits, Inv, OwnActors
  <1> QED
    BY <1>2, <1>3, <1>5, <1>6, <1>7, <1>8 DEF Inv, LogStep

-----------------------------------------------------------------------------
(* The invariant *)

\* Changes that are in their own pasts are in the past of all of them.
LEMMA OwnPast ==
    ASSUME NEW d, NEW S, \A h \in S : h \in d.past[h]
    PROVE  S \subseteq Past(d, S)
  BY DEF Past

\* A document with the changes G, each on top of nothing.
StartsWith(d, G, past, isolation) ==
    /\ DOMAIN d = {"graph", "past", "opEnd", "empty", "tx", "isolation", "log"}
    /\ d.graph = G /\ d.past = past /\ d.empty = {} /\ d.tx = {}
    /\ d.isolation = isolation /\ d.log = NoLog

\* A new document, or a loaded one with a change of another actor, is sound.
LEMMA InitSound ==
    ASSUME NEW G, G \in {{}} \cup {{<<b, 1>>} : b \in Peer},
           NEW past, past = [h \in Hash |-> IF h \in G THEN {h} ELSE {}],
           NEW isolation, isolation = [on |-> FALSE, at |-> {}],
           NEW d, StartsWith(d, G, past, isolation)
    PROVE  Sound(d) /\ TxSound(d)
  <1>0. /\ DOMAIN d = {"graph", "past", "opEnd", "empty", "tx", "isolation", "log"}
        /\ d.graph = G /\ d.past = past /\ d.empty = {} /\ d.tx = {}
        /\ d.isolation = isolation /\ d.log = NoLog
    BY DEF StartsWith
  <1>1. 1 \in 1 .. MaxSeq
    BY AutoCommitAssumption
  <1>2. \A b \in Peer : <<b, 1>> \in Hash
    BY <1>1, AutoCommitAssumption DEF Hash
  <1>3. G \in SUBSET Hash
    BY <1>2
  <1>4. IsFiniteSet(G)
    <2>1. CASE G = {}
      BY <2>1, FS_EmptySet
    <2>2. ASSUME NEW b \in Peer, G = {<<b, 1>>}
          PROVE  IsFiniteSet(G)
      <3>1. PICK h : h = <<b, 1>>
        OBVIOUS
      <3>2. IsFiniteSet({h})
        BY FS_Singleton
      <3> QED
        BY <2>2, <3>1, <3>2
    <2> QED
      BY <2>1, <2>2
  <1>5. \A a \in ActorId : LastSeq(d, a) = IF <<a, 1>> \in G THEN 1 ELSE 0
    <2> SUFFICES ASSUME NEW a \in ActorId
                 PROVE  LastSeq(d, a) = IF <<a, 1>> \in G THEN 1 ELSE 0
      OBVIOUS
    <2>1. PICK S : S = {h \in d.graph : ActorOf(h) = a}
      OBVIOUS
    <2>2. LastSeq(d, a) = Cardinality(S)
      BY <2>1 DEF LastSeq
    <2>3. CASE <<a, 1>> \in G
      <3>1. PICK h : h = <<a, 1>>
        OBVIOUS
      <3>2. S = {h}
        BY <1>0, <2>1, <2>3, <3>1 DEF ActorOf
      <3>3. Cardinality({h}) = 1
        BY FS_Singleton
      <3> QED
        BY <2>2, <2>3, <3>2, <3>3
    <2>4. CASE <<a, 1>> \notin G
      <3>1. S = {}
        BY <1>0, <2>1, <2>4 DEF ActorOf
      <3> QED
        BY <2>2, <2>4, <3>1, FS_EmptySet
    <2> QED
      BY <2>3, <2>4
  <1>6. Numbered(d)
    <2>1. ASSUME NEW h \in Hash
          PROVE  h \in d.graph <=> SeqOf(h) <= LastSeq(d, ActorOf(h))
      <3>1. h = <<ActorOf(h), SeqOf(h)>> /\ ActorOf(h) \in ActorId /\ SeqOf(h) \in 1 .. MaxSeq
        BY DEF Hash, ActorOf, SeqOf
      <3>2. h \in G <=> SeqOf(h) = 1 /\ <<ActorOf(h), 1>> \in G
        BY <3>1
      <3>3. PICK n : n = LastSeq(d, ActorOf(h))
        OBVIOUS
      <3>4. n = IF <<ActorOf(h), 1>> \in G THEN 1 ELSE 0
        BY <3>1, <3>3, <1>5
      <3>5. SeqOf(h) \in Nat /\ SeqOf(h) >= 1
        BY <3>1, AutoCommitAssumption
      <3>6. CASE <<ActorOf(h), 1>> \in G
        BY <1>0, <3>2, <3>3, <3>4, <3>5, <3>6
      <3>7. CASE <<ActorOf(h), 1>> \notin G
        BY <1>0, <3>2, <3>3, <3>4, <3>5, <3>7
      <3> QED
        BY <3>6, <3>7
    <2>2. \A a \in ActorId : LastSeq(d, a) \in Nat
      <3> SUFFICES ASSUME NEW a \in ActorId PROVE LastSeq(d, a) \in Nat
        OBVIOUS
      <3>1. LastSeq(d, a) = 0 \/ LastSeq(d, a) = 1
        BY <1>5
      <3> QED
        BY <3>1
    <2>3. IsFiniteSet(d.graph)
      BY <1>0, <1>4
    <2> QED
      BY <2>1, <2>2, <2>3 DEF Numbered
  <1>7. \A h \in G : d.past[h] = {h}
    BY <1>0, <1>3
  <1>8. PastsNest(d)
    BY <1>0, <1>7 DEF PastsNest
  <1>9. Heads(d) = G
    BY <1>0, <1>7 DEF Heads
  <1>10. HeadsCover(d)
    <2>1. \A h \in d.graph : h \in d.past[h]
      BY <1>0, <1>7
    <2>2. d.graph \subseteq Past(d, d.graph)
      BY <2>1, OwnPast
    <2> QED
      BY <1>0, <1>9, <2>2 DEF HeadsCover
  <1>11. IsLog(NoLog) /\ ~NoLog.active /\ NoLog.add = {} /\ NoLog.del = {}
    BY DEF NoLog, IsLog
  <1>12. IsDoc(d)
    <2>1. past \in [Hash -> SUBSET Hash]
      BY <1>3
    <2>2. isolation \in [on : BOOLEAN, at : SUBSET G]
      OBVIOUS
    <2> QED
      BY <1>0, <1>3, <1>11, <2>1, <2>2 DEF IsDoc
  <1>13. LogNeedsChange(d) /\ TxSound(d)
    BY <1>0, <1>11 DEF LogNeedsChange, TxSound
  <1> QED
    BY <1>6, <1>8, <1>10, <1>12, <1>13 DEF Sound

\* The invariant holds in the beginning.
LEMMA InitInv ==
    ASSUME Init
    PROVE  Inv
  <1>1. PICK G \in {{}} \cup {{<<b, 1>>} : b \in Peer} :
            /\ doc = [graph |-> G,
                      past  |-> [h \in Hash |-> IF h \in G THEN {h} ELSE {}],
                      opEnd |-> [h \in Hash |-> IF h \in G THEN 1 ELSE 0],
                      empty |-> {},
                      tx |-> {},
                      isolation |-> [on |-> FALSE, at |-> {}],
                      log |-> NoLog]
            /\ file = G
    BY DEF Init
  <1>2. PICK past : past = [h \in Hash |-> IF h \in G THEN {h} ELSE {}]
    OBVIOUS
  <1>3. PICK opEnd : opEnd = [h \in Hash |-> IF h \in G THEN 1 ELSE 0]
    OBVIOUS
  <1>4. PICK isolation : isolation = [on |-> FALSE, at |-> {}]
    OBVIOUS
  <1>5. doc = [graph |-> G, past |-> past, opEnd |-> opEnd, empty |-> {}, tx |-> {},
               isolation |-> isolation, log |-> NoLog]
    BY <1>1, <1>2, <1>3, <1>4
  <1>6. /\ DOMAIN doc = {"graph", "past", "opEnd", "empty", "tx", "isolation", "log"}
        /\ doc.graph = G /\ doc.past = past /\ doc.empty = {} /\ doc.tx = {}
        /\ doc.isolation = isolation /\ doc.log = NoLog
    BY <1>5
  <1>7. Sound(doc) /\ TxSound(doc)
    BY <1>2, <1>4, <1>6, InitSound DEF StartsWith
  <1>8. /\ own = Own /\ cursor = {} /\ saveCursor = {} /\ reader = {}
        /\ ~cache.on /\ cache.before = {} /\ cache.after = {}
    BY DEF Init, NoCache
  <1>9. OwnActors
    BY <1>8, AutoCommitAssumption DEF OwnActors
  <1>10. KeptHeads(doc)
    BY <1>8 DEF KeptHeads
  <1>11. Past(doc, {}) = {} /\ ViewAt(doc, {}) = {}
    BY DEF Past, ViewAt
  <1>12. FileFits(doc)
    <2>1. \A g \in doc.graph : \A h \in Hash :
              ActorOf(h) = ActorOf(g) /\ SeqOf(h) <= SeqOf(g) => h \in doc.graph
      BY <1>7, NoGaps
    <2> QED
      BY <1>1, <1>6, <1>8, <1>11, <2>1 DEF FileFits
  <1>13. DiffsFit(doc)
    BY <1>6, <1>8, <1>11 DEF DiffsFit, CacheFits, LogFits, ReaderFits, NoLog
  <1> QED
    BY <1>7, <1>9, <1>10, <1>12, <1>13 DEF Inv

\* Some step isolates the document.
Isolating == \E H \in KnownHeads : Isolate(H)

\* The calls that keep the log up, and what is kept with it.
LEMMA LogStepKeeps ==
    ASSUME Inv, LogStep(doc, doc'), OwnActors', UNCHANGED <<file, diffs, saveCursor>>
    PROVE  Inv' /\ Step(doc, doc')
  BY StepKeeps DEF LogStep, Step, kept, diffs

\* Every step keeps the invariant, lets no commit lose what was read, and
\* shows an isolated document nothing of others.
LEMMA NextKeeps ==
    ASSUME Inv, Next
    PROVE  Inv' /\ Extends(doc, doc') /\ (Isolating \/ Isolates(doc, doc'))
  <1>1. OwnActors
    BY DEF Inv
  <1>2. UNCHANGED own => OwnActors'
    BY <1>1 DEF OwnActors
  <1>3. ASSUME LogStep(doc, doc'), OwnActors', UNCHANGED <<file, diffs, saveCursor>>
        PROVE  Inv' /\ Extends(doc, doc') /\ Isolates(doc, doc')
    BY <1>3, LogStepKeeps DEF Step
  <1>4. ASSUME NEW n \in {0, 1}, Edit(n) PROVE Inv' /\ Extends(doc, doc') /\ Isolates(doc, doc')
    BY <1>2, <1>3, <1>4, EditSteps DEF Edit, outside
  <1>5. CASE Commit
    BY <1>2, <1>3, <1>5, CommitSteps DEF Commit, outside
  <1>6. ASSUME UNCHANGED <<doc, own, file, diffs, saveCursor>>
        PROVE  Inv' /\ Extends(doc, doc') /\ Isolates(doc, doc')
    <2>1. LogStep(doc, doc')
      BY <1>6 DEF Inv, LogStep, Step, Grown, Extends, Isolates, Traced, Sound, IsDoc
    <2> QED
      BY <1>2, <1>3, <1>6, <2>1
  <1>7. CASE OpenPanics
    BY <1>6, <1>7 DEF OpenPanics
  <1>8. CASE Rollback
    BY <1>2, <1>3, <1>8, RollbackSteps DEF Rollback, outside
  <1>9. CASE EmptyChange
    BY <1>2, <1>3, <1>9, EmptyChangeSteps DEF EmptyChange, outside
  <1>10. CASE Read
    BY <1>2, <1>3, <1>10, ReadSteps DEF Read, outside
  <1>11. ASSUME NEW a \in ActorId, SetActor(a) PROVE Inv' /\ Extends(doc, doc') /\ Isolates(doc, doc')
    <2>1. doc' = Closed(doc) /\ own' = <<a>> /\ a \notin Peer /\ UNCHANGED <<file, diffs, saveCursor>>
      BY <1>11 DEF SetActor
    <2>2. OwnActors'
      BY <2>1 DEF OwnActors
    <2> QED
      BY <1>3, <2>1, <2>2, ReadSteps
  <1>12. ASSUME NEW H \in KnownHeads, Isolate(H) PROVE Inv' /\ Extends(doc, doc')
    <2>1. ViewStep(doc, doc')
      BY <1>12, IsolateSteps
    <2>2. UNCHANGED <<own, kept>>
      BY <1>12 DEF Isolate, outside, diffs, kept
    <2> QED
      BY <1>2, <2>1, <2>2, StepKeeps DEF ViewStep
  <1>13. CASE Integrate
    <2>1. ViewStep(doc, doc') /\ Isolates(doc, doc')
      BY <1>13, IntegrateSteps
    <2>2. UNCHANGED <<own, kept>>
      BY <1>13 DEF Integrate, outside, diffs, kept
    <2> QED
      BY <1>2, <2>1, <2>2, StepKeeps DEF ViewStep
  <1>14. ASSUME NEW b \in Peer, NEW D \in {{}, Heads(Closed(doc))}, Receive(b, D)
         PROVE  Inv' /\ Extends(doc, doc') /\ Isolates(doc, doc')
    BY <1>2, <1>3, <1>14, ReceiveSteps DEF Receive, outside
  <1>15. ASSUME NEW b \in Peer, NEW D \in {{}, Heads(Closed(doc))}, ReceivePanics(b, D)
         PROVE  Inv' /\ Extends(doc, doc') /\ Isolates(doc, doc')
    BY <1>6, <1>15 DEF ReceivePanics
  <1>16. CASE ReceiveNothing
    BY <1>2, <1>3, <1>16, ReceiveNothingSteps DEF ReceiveNothing
  <1>17. ASSUME NEW b \in Peer, LoadIntoEmpty(b) PROVE Inv' /\ Extends(doc, doc') /\ Isolates(doc, doc')
    BY <1>2, <1>3, <1>17, LoadSteps DEF LoadIntoEmpty, outside
  <1>18. CASE UpdateDiffCursor
    BY <1>18, UpdateDiffCursorKeeps DEF Step
  <1>19. CASE ResetDiffCursor
    BY <1>19, ResetDiffCursorKeeps DEF Step
  <1>20. ASSUME NEW before \in {{}, cursor}, Diff(before, ViewHeads(Closed(doc)))
         PROVE  Inv' /\ Extends(doc, doc') /\ Isolates(doc, doc')
    BY <1>20, DiffKeeps DEF Step
  <1>21. CASE DiffIncremental
    BY <1>21, DiffIncrementalKeeps DEF Step
  <1>22. CASE Save \/ SaveIncremental
    BY <1>22, SaveKeeps DEF LogStep, Step
  <1> QED
    BY <1>4, <1>5, <1>7, <1>8, <1>9, <1>10, <1>11, <1>12, <1>13, <1>14, <1>15, <1>16, <1>17,
       <1>18, <1>19, <1>20, <1>21, <1>22 DEF Next, Isolating

\* The invariant holds in every reachable state.
LEMMA Invariant == Spec => []Inv
  <1>1. Inv /\ UNCHANGED vars => Inv'
    BY DEF vars, outside, diffs, Inv, OwnActors, KeptHeads, FileFits, DiffsFit, CacheFits, LogFits, ReaderFits
  <1>2. Inv /\ [Next]_vars => Inv'
    BY <1>1, NextKeeps
  <1>3. Init => Inv
    BY InitInv
  <1> QED
    BY <1>2, <1>3, PTL DEF Spec

-----------------------------------------------------------------------------
(* Theorems *)

\* Every variable has its type.
THEOREM TypeCorrect == Spec => []TypeOK
  <1>1. Inv => TypeOK
    <2> SUFFICES ASSUME Inv PROVE TypeOK
      OBVIOUS
    <2>1. Sound(doc) /\ TxSound(doc) /\ KeptHeads(doc)
      BY DEF Inv
    <2>2. ASSUME NEW t \in doc.tx
          PROVE  /\ <<t.actor, t.seq>> \in Hash \ doc.graph
                 /\ t.deps \subseteq doc.graph
                 /\ t.ops \in {0, 1}
      <3>1. /\ t.actor \in ActorId /\ t.seq = LastSeq(doc, t.actor) + 1 /\ t.seq <= MaxSeq
            /\ t.deps \in SUBSET doc.graph /\ t.ops \in {0, 1}
        BY <2>1 DEF TxSound
      <3>2. LastSeq(doc, t.actor) \in Nat
        BY <2>1, <3>1 DEF Sound, Numbered
      <3>3. <<t.actor, t.seq>> \in Hash
        BY <3>1, <3>2, AutoCommitAssumption DEF Hash
      <3>4. PICK h \in Hash : h = <<t.actor, t.seq>>
        BY <3>3
      <3>5. ActorOf(h) = t.actor /\ SeqOf(h) = t.seq
        BY <3>4 DEF ActorOf, SeqOf
      <3>6. h \in doc.graph => t.seq <= LastSeq(doc, t.actor)
        BY <2>1, <3>5 DEF Sound, Numbered
      <3>7. h \notin doc.graph
        BY <3>1, <3>2, <3>6
      <3> QED
        BY <3>1, <3>4, <3>7
    <2> QED
      BY <2>1, <2>2 DEF TypeOK, Sound, IsDoc, IsLog, KeptHeads
  <1> QED
    BY <1>1, Invariant, PTL

\* A commit depends on what could be read when it was made, and can be read
\* itself, isolated or not.
THEOREM CommitsExtendView == Spec => CommitExtendsView
  <1>1. ASSUME Inv, Next, NEW h \in doc'.graph \ doc'.empty, h \notin doc.graph, ActorOf(h) \notin Peer
        PROVE  /\ doc'.past[h] \ doc'.empty = View(doc) \cup {h}
               /\ Commit \/ Read => View(doc') = View(doc) \cup {h}
    <2>1. doc'.past[h] \ doc'.empty = View(doc) \cup {h}
      BY <1>1, NextKeeps DEF Extends
    <2>2. CASE Commit
      BY <1>1, <2>1, <2>2, CommitSteps
    <2>3. CASE Read
      BY <1>1, <2>1, <2>3, ReadSteps DEF Read
    <2> QED
      BY <2>1, <2>2, <2>3
  <1> DEFINE Kept ==
        \A h \in doc'.graph \ doc'.empty :
            h \notin doc.graph /\ ActorOf(h) \notin Peer =>
                /\ doc'.past[h] \ doc'.empty = View(doc) \cup {h}
                /\ Commit \/ Read => View(doc') = View(doc) \cup {h}
  <1>2. Inv /\ [Next]_vars => [Kept]_vars
    BY <1>1
  <1> QED
    BY <1>2, Invariant, PTL DEF Spec, CommitExtendsView

\* What others made meanwhile never shows in an isolated document.
THEOREM IsolationIsKept == Spec => IsolationHolds
  <1> DEFINE Held ==
        doc.isolation.on /\ doc'.isolation.on /\ ~(\E H \in KnownHeads : Isolate(H)) =>
            \A h \in View(doc') \ View(doc) : ActorOf(h) \notin Peer
  <1>1. Inv /\ [Next]_vars => [Held]_vars
    BY NextKeeps DEF Isolating, Isolates
  <1> QED
    BY <1>1, Invariant, PTL DEF Spec, IsolationHolds

\* Every save, incremental or not, leaves a file with all the changes.
THEOREM SavesAreComplete == Spec => SavedComplete
  <1>1. Inv /\ [Next]_vars => [Save \/ SaveIncremental => file' = doc'.graph]_vars
    BY SaveKeeps
  <1> QED
    BY <1>1, Invariant, PTL DEF Spec, SavedComplete

\* Unless diffs are asked of an isolated document, the diff cache holds the
\* difference of the heads it is stored under.
THEOREM CacheIsExact == ~DiffIsolated => (Spec => []CacheExact)
  <1> SUFFICES ASSUME ~DiffIsolated PROVE Spec => []CacheExact
    OBVIOUS
  <1>1. Inv => CacheExact
    BY DEF Inv, DiffsFit, CacheFits, CacheExact
  <1> QED
    BY <1>1, Invariant, PTL

\* Unless diffs are asked of an isolated document, an application that follows
\* diff_incremental always shows what it would read.
THEOREM ReaderIsExact == ~DiffIsolated => (Spec => ReaderFollows)
  <1> SUFFICES ASSUME ~DiffIsolated PROVE Spec => ReaderFollows
    OBVIOUS
  <1>1. Inv /\ [Next]_vars => [DiffIncremental => reader' = View(doc')]_vars
    BY DiffIncrementalKeeps
  <1> QED
    BY <1>1, Invariant, PTL DEF Spec, ReaderFollows

-----------------------------------------------------------------------------
(* The patch log: an identifier in it is the place of its actor in the     *)
(* log's list of actors, wherever migrate_actors inserted others, unless   *)
(* patches of another list were mixed in.                                  *)

\* The list of the actors L begins with the list of A.
Covers(L, A) == A \subseteq L /\ \A l \in L \ A, a \in A : a < l

\* Identifiers are places in the log's own list of actors.
IdsExact(log) ==
    \A i \in log.ids :
        /\ DOMAIN i = {"at", "of"}
        /\ ActorOf(i.of) \in log.actors
        /\ i.at = Rank(ActorOf(i.of), log.actors)

\* The log knows the actors of a document with an open transaction.
OpenCovered(d) == d.tx # {} => Covers(d.log.actors, Actors(d))

LogInv ==
    /\ aligned => IdsExact(doc.log)
    /\ OpenCovered(doc)

-----------------------------------------------------------------------------
(* Places in sorted lists *)

UpTo(a, S) == {b \in S : b <= a}

\* Actors come in the order of their numbers, at most one at each place.
LEMMA RanksGrow ==
    ASSUME NEW S \in SUBSET Nat, IsFiniteSet(S), NEW a \in Nat, NEW b \in S
    PROVE  /\ Rank(a, S) \in Nat
           /\ a < b => Rank(a, S) < Rank(b, S)
           /\ b <= a => Rank(b, S) <= Rank(a, S)
           /\ Rank(b, S) >= 1
  <1> DEFINE A == UpTo(a, S)
             B == UpTo(b, S)
  <1>1. A \in SUBSET S /\ B \in SUBSET S
    BY DEF UpTo
  <1>2. IsFiniteSet(A) /\ IsFiniteSet(B)
    BY <1>1, FS_Subset
  <1>3. Cardinality(A) \in Nat /\ Cardinality(B) \in Nat
    BY <1>2, FS_CardinalityType
  <1>4. Cardinality(A) = Rank(a, S) /\ Cardinality(B) = Rank(b, S)
    BY DEF Rank, UpTo
  <1>5. a < b => A \subseteq B /\ b \in B /\ b \notin A
    <2>1. b <= b /\ (a < b => ~(b <= a)) /\ \A c \in S : a < b /\ c <= a => c <= b
      OBVIOUS
    <2> QED
      BY <2>1 DEF UpTo
  <1>6. b <= a => B \subseteq A
    <2>1. \A c \in S : b <= a /\ c <= b => c <= a
      OBVIOUS
    <2> QED
      BY <2>1 DEF UpTo
  <1>7. {b} \in SUBSET B
    BY DEF UpTo
  <1>8. Cardinality({b}) = 1
    BY FS_Singleton
  <1> HIDE DEF A, B
  <1>9. a < b => Cardinality(A) < Cardinality(B)
    <2>1. ASSUME A \in SUBSET B, A # B
          PROVE  Cardinality(A) < Cardinality(B)
      <3>1. Cardinality(A) <= Cardinality(B) /\ Cardinality(A) # Cardinality(B)
        BY <1>2, <2>1, FS_Subset
      <3> QED
        BY <3>1, <1>3
    <2> QED
      BY <2>1, <1>5
  <1>10. b <= a => Cardinality(B) <= Cardinality(A)
    BY <1>2, <1>6, FS_Subset
  <1>11. Cardinality(B) >= 1
    BY <1>2, <1>7, <1>8, FS_Subset
  <1> QED
    BY <1>3, <1>4, <1>9, <1>10, <1>11

\* The actors up to one take all the places up to its own.
LEMMA RanksFill ==
    ASSUME NEW S \in SUBSET Nat, IsFiniteSet(S), NEW a \in S
    PROVE  {Rank(b, S) : b \in UpTo(a, S)} = 1 .. Rank(a, S)
  <1> DEFINE B == UpTo(a, S)
             n == Rank(a, S)
             f == [b \in B |-> Rank(b, S)]
  <1>1. n \in Nat /\ B \subseteq S /\ \A b \in B : b <= a
    BY RanksGrow DEF UpTo
  <1>2. ASSUME NEW b \in B
        PROVE  Rank(b, S) \in 1 .. n
    <2>1. b \in S /\ b \in Nat /\ a \in Nat /\ b <= a
      BY <1>1
    <2>2. Rank(b, S) \in Nat /\ Rank(b, S) <= n /\ Rank(b, S) >= 1
      BY <2>1, RanksGrow
    <2> QED
      BY <2>2, <1>1
  <1>3. \A b, c \in B : Rank(b, S) = Rank(c, S) => b = c
    <2> SUFFICES ASSUME NEW b \in B, NEW c \in B, b # c
                 PROVE  Rank(b, S) # Rank(c, S)
      OBVIOUS
    <2>1. b \in Nat /\ c \in Nat /\ b \in S /\ c \in S
      BY <1>1
    <2> HIDE DEF B
    <2>2. /\ Rank(b, S) \in Nat /\ Rank(c, S) \in Nat
          /\ b < c => Rank(b, S) < Rank(c, S)
          /\ c < b => Rank(c, S) < Rank(b, S)
      BY <2>1, RanksGrow
    <2> QED
      BY <2>1, <2>2
  <1>4. Cardinality(B) = n
    BY DEF Rank, UpTo
  <1>5. IsFiniteSet(1 .. n) /\ Cardinality(1 .. n) = n
    BY <1>1, FS_Interval
  <1> HIDE DEF B, n
  <1>6. f \in Injection(B, 1 .. n)
    BY <1>2, <1>3 DEF Injection, IsInjective
  <1>7. f \in Surjection(B, 1 .. n)
    BY <1>4, <1>5, <1>6, FS_Injection
  <1>8. \A i \in 1 .. n : \E b \in B : Rank(b, S) = i
    BY <1>7 DEF Surjection
  <1> QED
    BY <1>2, <1>8 DEF B, n

\* In a list that begins with another one, its actors have the same places.
LEMMA CoveredRank ==
    ASSUME NEW L, NEW A, A \subseteq Nat, L \subseteq Nat, Covers(L, A), NEW a \in A
    PROVE  Rank(a, L) = Rank(a, A)
  <1>1. \A b \in L \ A : ~(b <= a)
    <2> SUFFICES ASSUME NEW b \in L \ A
                 PROVE  ~(b <= a)
      OBVIOUS
    <2>1. a < b /\ a \in Nat /\ b \in Nat
      BY DEF Covers
    <2> QED
      BY <2>1
  <1>2. {b \in L : b <= a} = {b \in A : b <= a}
    BY <1>1 DEF Covers
  <1> QED
    BY <1>2 DEF Rank

-----------------------------------------------------------------------------
(* migrate_actors *)

\* The number of free places below a free place tells it from all others.
LEMMA FreePlaceUnique ==
    ASSUME NEW places, NEW j \in Nat \ places, NEW k \in Nat \ places,
           Cardinality((1 .. j) \ places) = Cardinality((1 .. k) \ places)
    PROVE  ~(j < k)
  <1> SUFFICES ASSUME j < k
               PROVE  FALSE
    OBVIOUS
  <1> DEFINE J == (1 .. j) \ places
             K == (1 .. k) \ places
  <1>1. IsFiniteSet(1 .. k)
    BY FS_Interval
  <1>2. K \in SUBSET (1 .. k)
    OBVIOUS
  <1>3. IsFiniteSet(K)
    BY <1>1, <1>2, FS_Subset
  <1>4. J \in SUBSET K
    OBVIOUS
  <1>5. k \in K /\ k \notin J
    OBVIOUS
  <1> HIDE DEF J, K
  <1>6. K = J
    BY <1>3, <1>4, FS_Subset DEF J, K
  <1> QED
    BY <1>5, <1>6

\* The places up to that of an actor of the old list, without those of the
\* actors inserted before it, are the places of the old list up to it.
LEMMA InsertedBefore ==
    ASSUME NEW S \in SUBSET Nat, NEW A \in SUBSET Nat, IsFiniteSet(S \cup A), NEW a \in S,
           NEW T, T = S \cup A
    PROVE  (1 .. Rank(a, T)) \ Inserted(S, A) = {Rank(b, T) : b \in UpTo(a, S)}
  <1> DEFINE new == {b \in A \ S : \E l \in S : b < l}
  <1>1. T \in SUBSET Nat /\ a \in T /\ IsFiniteSet(T)
    OBVIOUS
  <1>2. 1 .. Rank(a, T) = {Rank(b, T) : b \in UpTo(a, T)}
    BY <1>1, RanksFill
  <1>3. Inserted(S, A) = {Rank(b, T) : b \in new}
    BY DEF Inserted
  <1>4. UpTo(a, T) = UpTo(a, S) \cup {b \in A \ S : b <= a}
    BY DEF UpTo
  <1>5. \A b \in A \ S : b <= a => b \in new
    <2> SUFFICES ASSUME NEW b \in A \ S, b <= a
                 PROVE  b < a
      OBVIOUS
    <2>1. b \in Nat /\ a \in Nat /\ b # a
      OBVIOUS
    <2> QED
      BY <2>1
  <1>6. \A b, c \in T : Rank(b, T) = Rank(c, T) => b = c
    <2> SUFFICES ASSUME NEW b \in T, NEW c \in T, b # c
                 PROVE  Rank(b, T) # Rank(c, T)
      OBVIOUS
    <2>1. b \in Nat /\ c \in Nat
      BY <1>1
    <2>2. /\ Rank(b, T) \in Nat /\ Rank(c, T) \in Nat
          /\ b < c => Rank(b, T) < Rank(c, T)
          /\ c < b => Rank(c, T) < Rank(b, T)
      BY <1>1, <2>1, RanksGrow
    <2> QED
      BY <2>1, <2>2
  <1>7. new \subseteq T /\ new \cap UpTo(a, S) = {} /\ UpTo(a, S) \subseteq T
    BY DEF UpTo
  <1> HIDE DEF new
  <1>8. ASSUME NEW b \in UpTo(a, S)
        PROVE  Rank(b, T) \notin Inserted(S, A)
    BY <1>3, <1>6, <1>7
  <1> QED
    BY <1>2, <1>3, <1>4, <1>5, <1>8

\* An identifier is shifted to the place its actor has in the longer list.
LEMMA ShiftedExact ==
    ASSUME NEW S \in SUBSET Nat, NEW A \in SUBSET Nat, IsFiniteSet(S \cup A), NEW a \in S
    PROVE  Shifted(Rank(a, S), Inserted(S, A)) = Rank(a, S \cup A)
  <1> DEFINE T == S \cup A
             places == Inserted(S, A)
             i == Rank(a, S)
             j == Rank(a, T)
             free == (1 .. j) \ places
  <1>1. T \in SUBSET Nat /\ a \in T /\ IsFiniteSet(S) /\ a \in Nat
    BY FS_Subset
  <1>2. i \in Nat /\ j \in Nat /\ i >= 1 /\ j >= 1
    BY <1>1, RanksGrow
  <1>3. free = {Rank(b, T) : b \in UpTo(a, S)}
    BY InsertedBefore
  <1>4. a \in UpTo(a, S)
    BY <1>1 DEF UpTo
  <1>5. j \in free
    BY <1>3, <1>4
  <1>6. Cardinality(free) = i
    <2> DEFINE f == [b \in UpTo(a, S) |-> Rank(b, T)]
    <2>1. \A b \in UpTo(a, S), c \in UpTo(a, S) : Rank(b, T) = Rank(c, T) => b = c
      <3> SUFFICES ASSUME NEW b \in UpTo(a, S), NEW c \in UpTo(a, S), b # c
                   PROVE  Rank(b, T) # Rank(c, T)
        OBVIOUS
      <3>1. b \in Nat /\ c \in Nat /\ b \in T /\ c \in T
        BY DEF UpTo
      <3>2. /\ Rank(b, T) \in Nat /\ Rank(c, T) \in Nat
            /\ b < c => Rank(b, T) < Rank(c, T)
            /\ c < b => Rank(c, T) < Rank(b, T)
        BY <1>1, <3>1, RanksGrow
      <3> QED
        BY <3>1, <3>2
    <2>2. UpTo(a, S) \in SUBSET S
      BY DEF UpTo
    <2>3. IsFiniteSet(UpTo(a, S))
      BY <1>1, <2>2, FS_Subset
    <2> HIDE DEF free
    <2>4. f \in Bijection(UpTo(a, S), free)
      BY <1>3, <2>1 DEF Bijection, Injection, Surjection, IsInjective
    <2>5. ExistsBijection(UpTo(a, S), free)
      BY <2>4 DEF ExistsBijection
    <2>6. Cardinality(free) = Cardinality(UpTo(a, S))
      BY <2>3, <2>5, FS_Bijection
    <2> QED
      BY <2>6 DEF Rank, UpTo
  <1>7. j \in i .. i + Cardinality(places)
    <2>1. IsFiniteSet(1 .. j) /\ Cardinality(1 .. j) = j
      BY <1>2, FS_Interval
    <2>2. IsFiniteSet(places)
      <3> DEFINE new == {b \in A \ S : \E l \in S : b < l}
                 f == [b \in new |-> Rank(b, T)]
      <3>1. places = {Rank(b, T) : b \in new}
        BY DEF Inserted
      <3>2. IsFiniteSet(new)
        <4>1. new \in SUBSET T
          OBVIOUS
        <4> QED
          BY <4>1, FS_Subset
      <3> HIDE DEF new, places
      <3>3. f \in Surjection(new, places)
        BY <3>1 DEF Surjection
      <3> QED
        BY <3>2, <3>3, FS_Surjection
    <2>3. Cardinality(free) = j - Cardinality((1 .. j) \cap places)
      BY <2>1, FS_Difference
    <2>4. (1 .. j) \cap places \in SUBSET places
      OBVIOUS
    <2>5. Cardinality((1 .. j) \cap places) <= Cardinality(places)
      BY <2>2, <2>4, FS_Subset
    <2>6. Cardinality((1 .. j) \cap places) \in Nat /\ Cardinality(places) \in Nat
      BY <2>2, <2>4, FS_Subset, FS_CardinalityType
    <2> HIDE DEF i, j, places, free
    <2> QED
      BY <1>2, <1>6, <2>3, <2>5, <2>6
  <1> DEFINE Fits(k) == k \notin places /\ Cardinality((1 .. k) \ places) = i
  <1>8. Fits(j)
    BY <1>5, <1>6
  <1>9. ASSUME NEW k \in i .. i + Cardinality(places), Fits(k)
        PROVE  k = j
    <2>1. k \in Nat \ places /\ j \in Nat \ places
      BY <1>2, <1>8, <1>9
    <2>2. Cardinality((1 .. j) \ places) = Cardinality((1 .. k) \ places)
      BY <1>8, <1>9
    <2> HIDE DEF j, places
    <2>3. ~(j < k) /\ ~(k < j)
      BY <2>1, <2>2, FreePlaceUnique
    <2> QED
      BY <2>1, <2>3
  <1>10. Shifted(i, places) = CHOOSE k \in i .. i + Cardinality(places) : Fits(k)
    BY DEF Shifted
  <1> HIDE DEF Fits, i, j, places
  <1>11. (CHOOSE k \in i .. i + Cardinality(places) : Fits(k)) = j
    BY <1>7, <1>8, <1>9
  <1> QED
    BY <1>10, <1>11 DEF i, j, places

\* Lists of actors are finite.
LEMMA ActorsFinite ==
    ASSUME NEW S, S \subseteq ActorId
    PROVE  IsFiniteSet(S) /\ S \in SUBSET Nat
  BY AutoCommitAssumption, FS_Subset

\* A log that was brought in line names the same actors, and its list begins
\* with that of the document.
LEMMA MigratedExact ==
    ASSUME NEW log, IsLog(log), NEW actors \in SUBSET ActorId, ~Mismatch(log, actors),
           NEW m, m = Migrated(log, actors)
    PROVE  /\ IsLog(m)
           /\ Covers(m.actors, actors)
           /\ IdsExact(log) => IdsExact(m)
  <1>1. IsLog(m)
    BY MigratedLeads
  <1>2. CASE log.actors = {}
    <2>1. m.actors = actors /\ m.ids = log.ids
      BY <1>2 DEF Migrated, IsLog
    <2> QED
      BY <1>1, <1>2, <2>1 DEF Covers, IdsExact
  <1>3. CASE log.actors # {}
    <2> DEFINE S == log.actors
               T == S \cup actors
               places == Inserted(S, actors)
    <2>1. m.actors = T /\ m.ids = {[i EXCEPT !.at = Shifted(i.at, places)] : i \in log.ids}
      BY <1>3 DEF Migrated, IsLog
    <2>2. S \in SUBSET Nat /\ actors \in SUBSET Nat /\ IsFiniteSet(T)
      BY ActorsFinite DEF IsLog
    <2>3. Covers(T, actors)
      <3> SUFFICES ASSUME NEW l \in S \ actors, NEW a \in actors
                   PROVE  a < l
        BY DEF Covers
      <3>1. ~(l < a) /\ l # a
        BY DEF Mismatch
      <3>2. l \in Nat /\ a \in Nat
        BY <2>2
      <3> QED
        BY <3>1, <3>2
    <2>4. ASSUME IdsExact(log), NEW j \in m.ids
          PROVE  /\ DOMAIN j = {"at", "of"}
                 /\ ActorOf(j.of) \in T
                 /\ j.at = Rank(ActorOf(j.of), T)
      <3>1. PICK i \in log.ids : j = [i EXCEPT !.at = Shifted(i.at, places)]
        BY <2>1, <2>4
      <3>2. DOMAIN i = {"at", "of"} /\ ActorOf(i.of) \in S /\ i.at = Rank(ActorOf(i.of), S)
        BY <2>4 DEF IdsExact
      <3> HIDE DEF places
      <3>3. DOMAIN j = {"at", "of"} /\ j.of = i.of /\ j.at = Shifted(i.at, places)
        BY <3>1, <3>2
      <3>4. PICK a \in S : a = ActorOf(i.of)
        BY <3>2
      <3>5. Shifted(Rank(a, S), places) = Rank(a, T)
        BY <2>2, ShiftedExact DEF places
      <3> QED
        BY <3>2, <3>3, <3>4, <3>5
    <2> HIDE DEF T
    <2> QED
      BY <1>1, <2>1, <2>3, <2>4 DEF IdsExact
  <1> QED
    BY <1>2, <1>3

\* Logging under a list of actors the log's list begins with.
LEMMA LoggedExact ==
    ASSUME NEW log, IsLog(log), NEW actors \in SUBSET ActorId, NEW add, NEW del,
           log.active => Covers(log.actors, actors),
           \A h \in add : ActorOf(h) \in actors,
           NEW m, m = Logged(log, add, del, actors)
    PROVE  /\ m.actors = log.actors
           /\ IdsExact(log) => IdsExact(m)
  <1>1. CASE ~log.active
    BY <1>1 DEF Logged
  <1>2. CASE log.active
    <2> DEFINE Id(h) == [at |-> Rank(ActorOf(h), actors), of |-> h]
    <2>1. m.actors = log.actors /\ m.ids = log.ids \cup {Id(h) : h \in add}
      BY <1>2 DEF Logged, IsLog
    <2>2. ASSUME NEW h \in add
          PROVE  /\ DOMAIN Id(h) = {"at", "of"}
                 /\ ActorOf(Id(h).of) \in log.actors
                 /\ Id(h).at = Rank(ActorOf(Id(h).of), log.actors)
      <3>1. PICK a \in actors : a = ActorOf(h)
        OBVIOUS
      <3>2. log.actors \subseteq Nat /\ actors \subseteq Nat
        BY ActorsFinite DEF IsLog
      <3>3. Rank(a, log.actors) = Rank(a, actors) /\ a \in log.actors
        BY <1>2, <3>2, CoveredRank DEF Covers
      <3>4. Id(h).of = h /\ Id(h).at = Rank(a, actors) /\ DOMAIN Id(h) = {"at", "of"}
        BY <3>1
      <3> QED
        BY <3>1, <3>3, <3>4
    <2> HIDE DEF Id
    <2> QED
      BY <2>1, <2>2 DEF IdsExact
  <1> QED
    BY <1>1, <1>2

-----------------------------------------------------------------------------
(* Transactions *)

\* What e makes of d's log is as exact, and covers its transaction.
KeepsExact(d, e) ==
    /\ IdsExact(d.log) => IdsExact(e.log)
    /\ OpenCovered(e)

\* Closing a transaction logs its change under actors the log knows.
LEMMA ClosedExact ==
    ASSUME NEW d, Sound(d), TxSound(d), OpenCovered(d), NEW c, c = Closed(d)
    PROVE  /\ KeepsExact(d, c)
           /\ Sound(c) /\ c.tx = {} /\ Actors(c) \in SUBSET ActorId
  <1>1. Sound(c) /\ c.tx = {}
    BY ClosedSound
  <1>2. Actors(c) \in SUBSET ActorId
    BY <1>1, ClosedActors
  <1>3. CASE \A t \in d.tx : t.ops = 0
    <2>1. c = [d EXCEPT !.tx = {}]
      BY <1>3 DEF Closed
    <2>2. c.log = d.log
      BY <2>1 DEF Sound, IsDoc
    <2> QED
      BY <1>1, <1>2, <2>2 DEF KeepsExact, OpenCovered
  <1>4. CASE ~\A t \in d.tx : t.ops = 0
    <2>1. PICK t \in d.tx : t = CHOOSE u \in d.tx : TRUE
      BY <1>4
    <2>2. PICK h : h = <<t.actor, t.seq>>
      OBVIOUS
    <2>3. PICK r : r = Recorded(d, h, t.deps, d.graph, 1)
      OBVIOUS
    <2>4. c = [r EXCEPT !.tx = {},
                        !.isolation = IsolatedAt(r, h),
                        !.log = Logged(d.log, {h}, {}, Actors(d))]
      BY <1>4, <2>1, <2>2, <2>3 DEF Closed
    <2>5. DOMAIN r = DOMAIN d
      BY <2>3 DEF Recorded
    <2>6. c.log = Logged(d.log, {h}, {}, Actors(d))
      BY <2>4, <2>5 DEF Sound, IsDoc
    <2>7. \A g \in {h} : ActorOf(g) \in Actors(d)
      BY <2>1, <2>2 DEF ActorOf, Actors
    <2>8. Actors(d) \in SUBSET ActorId
      BY ActorsTyped DEF Sound, IsDoc, Actual, TxSound
    <2>9. Covers(d.log.actors, Actors(d)) /\ IsLog(d.log)
      BY <2>1 DEF OpenCovered, Sound, IsDoc
    <2>10. IdsExact(d.log) => IdsExact(c.log)
      BY <2>6, <2>7, <2>8, <2>9, LoggedExact
    <2> QED
      BY <1>1, <1>2, <2>10 DEF KeepsExact, OpenCovered
  <1> QED
    BY <1>3, <1>4

\* Opening a transaction brings the log in line first.
LEMMA OpenedExact ==
    ASSUME NEW d, Sound(d), TxSound(d), OwnActors, OpenCovered(d), ~OpenFails(d),
           NEW e \in OpenedFor(d)
    PROVE  KeepsExact(d, e)
  <1>1. CASE d.tx # {}
    <2>1. e = d
      BY <1>1 DEF OpenedFor
    <2> QED
      BY <2>1 DEF KeepsExact
  <1>2. CASE d.tx = {}
    <2>1. PICK l \in LevelsFor(d) :
              e = [Opened(d, l) EXCEPT !.log = Migrated(Opened(d, l).log, Actors(Opened(d, l)))]
      BY <1>2 DEF OpenedFor
    <2>2. PICK o : o = Opened(d, l)
      OBVIOUS
    <2>3. PICK t : /\ o = [d EXCEPT !.tx = {t}]
                   /\ t.actor = own[l]
      <3>1. PICK deps : deps = IF d.isolation.on THEN d.isolation.at
                               ELSE Heads(d) \cup LastOf(d, own[l])
        OBVIOUS
      <3>2. PICK t : t = [actor |-> own[l], seq |-> LastSeq(d, own[l]) + 1, ops |-> 0, deps |-> deps]
        OBVIOUS
      <3>3. o = [d EXCEPT !.tx = {t}]
        BY <2>2, <3>1, <3>2 DEF Opened
      <3>4. t.actor = own[l]
        BY <3>2
      <3> QED
        BY <3>3, <3>4
    <2>4. /\ DOMAIN o = DOMAIN d
          /\ o.graph = d.graph /\ o.log = d.log /\ o.tx = {t}
      BY <2>3 DEF Sound, IsDoc
    <2>5. own[l] \in ActorId
      BY DEF OwnActors, LevelsFor
    <2>6. Actors(o) \in SUBSET ActorId
      BY <2>3, <2>4, <2>5, ActorsTyped DEF Sound, IsDoc, Actual
    <2>7. ~Mismatch(d.log, Actors(o))
      BY <1>2, <2>2 DEF OpenFails
    <2>8. PICK m : m = Migrated(d.log, Actors(o))
      OBVIOUS
    <2>9. e = [o EXCEPT !.log = m]
      BY <2>1, <2>2, <2>4, <2>8
    <2>10. e.log = m /\ e.graph = o.graph /\ e.tx = o.tx
      BY <2>4, <2>9 DEF Sound, IsDoc
    <2>11. Actors(e) = Actors(o)
      BY <2>10 DEF Actors
    <2>12. Covers(m.actors, Actors(o)) /\ (IdsExact(d.log) => IdsExact(m))
      BY <2>6, <2>7, <2>8, MigratedExact DEF Sound, IsDoc
    <2> QED
      BY <2>10, <2>11, <2>12 DEF KeepsExact, OpenCovered
  <1> QED
    BY <1>1, <1>2

\* A document that differs from a closed one in its log, if that.
LEMMA ClosedKeepsExact ==
    ASSUME NEW d, NEW c, NEW e, KeepsExact(d, c), e.tx = {},
           IdsExact(c.log) => IdsExact(e.log)
    PROVE  KeepsExact(d, e)
  BY DEF KeepsExact, OpenCovered

\* Recording a change leaves the log alone.
LEMMA RecordedKeepsLog ==
    ASSUME NEW d, IsDoc(d), NEW h, NEW D, NEW S, NEW n, NEW r, r = Recorded(d, h, D, S, n)
    PROVE  /\ DOMAIN r = DOMAIN d
           /\ r.log = d.log /\ r.tx = d.tx /\ r.isolation = d.isolation
           /\ r.graph = d.graph \cup {h}
  <1>1. DOMAIN r = DOMAIN d
    BY DEF Recorded
  <1> QED
    BY <1>1 DEF Recorded, IsDoc

LEMMA EditExact ==
    ASSUME Inv, OpenCovered(doc), NEW n \in {0, 1}, Edit(n)
    PROVE  KeepsExact(doc, doc')
  <1>1. PICK d \in OpenedFor(doc) :
            /\ WithinBounds(d)
            /\ doc' = [d EXCEPT !.tx = {[t EXCEPT !.ops = IF n > @ THEN n ELSE @] : t \in @}]
    BY DEF Edit
  <1>2. Sound(d) /\ TxSound(d)
    BY <1>1, OpenedSound DEF Inv, IsOpening
  <1>3. KeepsExact(doc, d)
    BY <1>1, OpenedExact DEF Inv, Edit
  <1>4. PICK e : e = doc'
    OBVIOUS
  <1> DEFINE Counted(t) == [t EXCEPT !.ops = IF n > @ THEN n ELSE @]
  <1>5. /\ e.log = d.log /\ e.graph = d.graph
        /\ e.tx = {Counted(t) : t \in d.tx}
    BY <1>1, <1>2, <1>4 DEF Sound, IsDoc
  <1>6. \A t \in d.tx : Counted(t).actor = t.actor
    BY <1>2 DEF TxSound
  <1> HIDE DEF Counted
  <1>7. {t.actor : t \in e.tx} = {t.actor : t \in d.tx} /\ (e.tx # {} => d.tx # {})
    BY <1>5, <1>6
  <1>8. Actors(e) = Actors(d)
    BY <1>5, <1>7 DEF Actors
  <1> QED
    BY <1>3, <1>4, <1>5, <1>7, <1>8 DEF KeepsExact, OpenCovered

LEMMA CommitExact ==
    ASSUME Inv, OpenCovered(doc), Commit
    PROVE  KeepsExact(doc, doc')
  <1>1. PICK d \in OpenedFor(doc) : WithinBounds(d) /\ doc' = Closed(d)
    BY DEF Commit
  <1>2. Sound(d) /\ TxSound(d)
    BY <1>1, OpenedSound DEF Inv, IsOpening
  <1>3. KeepsExact(doc, d)
    BY <1>1, OpenedExact DEF Inv, Commit
  <1>4. KeepsExact(d, doc')
    BY <1>1, <1>2, <1>3, ClosedExact DEF KeepsExact
  <1> QED
    BY <1>3, <1>4 DEF KeepsExact

LEMMA EmptyChangeExact ==
    ASSUME Inv, OpenCovered(doc), EmptyChange
    PROVE  KeepsExact(doc, doc')
  <1>1. PICK c : c = Closed(doc)
    OBVIOUS
  <1>2. PICK e : e = doc'
    OBVIOUS
  <1>3. KeepsExact(doc, c) /\ Sound(c) /\ c.tx = {}
    BY <1>1, ClosedExact DEF Inv
  <1>4. e.log = c.log /\ e.tx = c.tx
    BY <1>1, <1>2, <1>3, RecordedKeepsLog DEF EmptyChange, Sound
  <1> QED
    BY <1>2, <1>3, <1>4, ClosedKeepsExact

-----------------------------------------------------------------------------
(* Changes of others *)

\* What is received is logged after the log was brought in line.
LEMMA SharedExact ==
    ASSUME NEW r, IsLog(r.log), NEW actors, actors = Actors(r), actors \in SUBSET ActorId,
           ~ReceiveFails(r), NEW new, \A h \in new : ActorOf(h) \in actors,
           NEW l, l = LoggedIfShared(r, new)
    PROVE  IdsExact(r.log) => IdsExact(l)
  <1>1. CASE r.isolation.on
    BY <1>1 DEF LoggedIfShared
  <1>2. CASE ~r.isolation.on
    <2>1. PICK m : m = Migrated(r.log, actors)
      OBVIOUS
    <2>2. ~Mismatch(r.log, actors)
      BY <1>2 DEF ReceiveFails
    <2>3. IsLog(m) /\ Covers(m.actors, actors) /\ (IdsExact(r.log) => IdsExact(m))
      BY <2>1, <2>2, MigratedExact
    <2>4. l = Logged(m, new, {}, actors)
      BY <1>2, <2>1 DEF LoggedIfShared
    <2>5. IdsExact(m) => IdsExact(l)
      BY <2>3, <2>4, LoggedExact
    <2> QED
      BY <2>3, <2>5
  <1> QED
    BY <1>1, <1>2

LEMMA ReceiveExact ==
    ASSUME Inv, OpenCovered(doc), NEW b \in Peer, NEW D, Receive(b, D)
    PROVE  KeepsExact(doc, doc')
  <1>1. PICK c : c = Closed(doc)
    OBVIOUS
  <1>2. PICK h : h = <<b, LastSeq(doc, b) + 1>>
    OBVIOUS
  <1>3. PICK r : r = Received(b, D)
    OBVIOUS
  <1>4. PICK e : e = doc'
    OBVIOUS
  <1>5. ~ReceiveFails(r) /\ e = [r EXCEPT !.log = LoggedIfShared(r, {h})]
    BY <1>2, <1>3, <1>4 DEF Receive
  <1>6. KeepsExact(doc, c) /\ Sound(c) /\ c.tx = {} /\ Actors(c) \in SUBSET ActorId
    BY <1>1, ClosedExact DEF Inv
  <1>7. PICK g : g = <<b, LastSeq(c, b) + 1>>
    OBVIOUS
  <1>8. LastSeq(c, b) = LastSeq(doc, b)
    BY <1>1, ClosedSound DEF Inv
  <1>9. PICK E : E = D \cup LastOf(c, b)
    OBVIOUS
  <1>10. r = Recorded(c, g, E, Past(c, E), 1)
    BY <1>1, <1>3, <1>7, <1>9 DEF Received
  <1>11. /\ DOMAIN r = DOMAIN c
         /\ r.log = c.log /\ r.tx = c.tx /\ r.graph = c.graph \cup {g}
    BY <1>6, <1>10, RecordedKeepsLog DEF Sound
  <1>12. g = h /\ ActorOf(g) = b /\ b \in ActorId
    BY <1>2, <1>7, <1>8, AutoCommitAssumption DEF ActorOf
  <1>13. Actors(r) = Actors(c) \cup {b}
    BY <1>6, <1>11, <1>12 DEF Actors
  <1>14. PICK l : l = LoggedIfShared(r, {h})
    OBVIOUS
  <1>15. IdsExact(r.log) => IdsExact(l)
    <2>1. IsLog(r.log) /\ Actors(r) \in SUBSET ActorId
      BY <1>6, <1>11, <1>12, <1>13 DEF Sound, IsDoc
    <2>2. \A k \in {h} : ActorOf(k) \in Actors(r)
      BY <1>12, <1>13
    <2> QED
      BY <1>5, <1>14, <2>1, <2>2, SharedExact
  <1>16. e.log = l /\ e.tx = r.tx
    BY <1>5, <1>6, <1>11, <1>14 DEF Sound, IsDoc
  <1> QED
    BY <1>4, <1>6, <1>11, <1>15, <1>16, ClosedKeepsExact

LEMMA ReceiveNothingExact ==
    ASSUME Inv, OpenCovered(doc), ReceiveNothing
    PROVE  KeepsExact(doc, doc')
  <1>1. PICK c : c = Closed(doc)
    OBVIOUS
  <1>2. PICK e : e = doc'
    OBVIOUS
  <1>3. KeepsExact(doc, c) /\ Sound(c) /\ c.tx = {} /\ Actors(c) \in SUBSET ActorId
    BY <1>1, ClosedExact DEF Inv
  <1>4. CASE e = doc
    BY <1>2, <1>4 DEF KeepsExact
  <1>5. CASE ~ReceiveFails(c) /\ e = [c EXCEPT !.log = LoggedIfShared(c, {})]
    <2>1. PICK l : l = LoggedIfShared(c, {})
      OBVIOUS
    <2>2. IdsExact(c.log) => IdsExact(l)
      BY <1>3, <1>5, <2>1, SharedExact DEF Sound, IsDoc
    <2>3. e.log = l /\ e.tx = c.tx
      BY <1>3, <1>5, <2>1 DEF Sound, IsDoc
    <2> QED
      BY <1>2, <1>3, <2>2, <2>3, ClosedKeepsExact
  <1> QED
    BY <1>1, <1>2, <1>4, <1>5 DEF ReceiveNothing

LEMMA LoadExact ==
    ASSUME Inv, OpenCovered(doc), NEW b \in Peer, LoadIntoEmpty(b)
    PROVE  KeepsExact(doc, doc')
  <1>1. PICK c : c = Closed(doc)
    OBVIOUS
  <1>2. PICK e : e = doc'
    OBVIOUS
  <1>3. KeepsExact(doc, c) /\ Sound(c) /\ c.tx = {}
    BY <1>1, ClosedExact DEF Inv
  <1>4. PICK E : E = {} \cup LastOf(c, b)
    OBVIOUS
  <1>5. e = Recorded(c, <<b, LastSeq(c, b) + 1>>, E, Past(c, E), 1)
    BY <1>1, <1>2, <1>4 DEF LoadIntoEmpty, Received
  <1>6. e.log = c.log /\ e.tx = c.tx
    BY <1>3, <1>5, RecordedKeepsLog DEF Sound
  <1> QED
    BY <1>2, <1>3, <1>6, ClosedKeepsExact

-----------------------------------------------------------------------------
(* Isolation and diffs *)

\* What isolation or its end logs is right, unless the log has other actors.
LEMMA PatchedExact ==
    ASSUME Inv, OpenCovered(doc), NEW c, c = Closed(doc), NEW i, NEW H, LooksAt(c, i, H),
           NEW e, e = Patched(c, i, H)
    PROVE  /\ OpenCovered(e)
           /\ StaysAligned(c, H) => aligned /\ (IdsExact(doc.log) => IdsExact(e.log))
  <1>1. KeepsExact(doc, c) /\ Sound(c) /\ c.tx = {} /\ Actors(c) \in SUBSET ActorId
    BY ClosedExact DEF Inv
  <1>2. PICK l : l = PatchTo(c, H)
    OBVIOUS
  <1>3. e.log = l /\ e.tx = {}
    BY <1>1, <1>2 DEF Patched, Sound, IsDoc
  <1>4. ASSUME StaysAligned(c, H)
        PROVE  aligned /\ (IdsExact(c.log) => IdsExact(l))
    <2>1. CASE ViewHeads(c) = H
      BY <1>2, <1>4, <2>1 DEF PatchTo, StaysAligned
    <2>2. CASE ViewHeads(c) # H
      <3>1. PICK gained, lost : /\ gained = ViewAt(c, H) \ View(c)
                                /\ l = Logged(c.log, gained, lost, Actors(c))
        BY <1>2, <2>2 DEF PatchTo
      <3>2. c.log.active => Covers(c.log.actors, Actors(c))
        BY <1>4, <2>2 DEF StaysAligned, Covers
      <3>3. ViewAt(c, H) \subseteq c.graph
        <4>1. Past(c, H) \subseteq c.graph
          BY <1>1, HeadsShowAll DEF LooksAt
        <4> QED
          BY <4>1 DEF ViewAt
      <3>4. \A h \in gained : ActorOf(h) \in Actors(c)
        BY <3>1, <3>3 DEF Actors
      <3>5. IsLog(c.log)
        BY <1>1 DEF Sound, IsDoc
      <3>6. IdsExact(c.log) => IdsExact(l)
        BY <1>1, <3>1, <3>2, <3>4, <3>5, LoggedExact
      <3> QED
        BY <1>4, <3>6 DEF StaysAligned
    <2> QED
      BY <2>1, <2>2
  <1> QED
    BY <1>1, <1>3, <1>4 DEF KeepsExact, OpenCovered

LEMMA IsolateExact ==
    ASSUME Inv, LogInv, NEW H \in KnownHeads, Isolate(H)
    PROVE  LogInv'
  <1>1. PICK c : c = Closed(doc)
    OBVIOUS
  <1>2. PICK i : i = [on |-> TRUE, at |-> H]
    OBVIOUS
  <1>3. doc' = Patched(c, i, H) /\ aligned' = StaysAligned(c, H)
    BY <1>1, <1>2 DEF Isolate, Patched
  <1>4. H \in SUBSET c.graph
    <2>1. Grown(doc, c)
      BY <1>1, ClosedSound DEF Inv
    <2> QED
      BY <2>1 DEF Grown, KnownHeads
  <1>5. LooksAt(c, i, H)
    BY <1>2, <1>4 DEF LooksAt
  <1>6. OpenCovered(doc') /\ (aligned' => aligned /\ (IdsExact(doc.log) => IdsExact(doc'.log)))
    BY <1>1, <1>3, <1>5, PatchedExact DEF LogInv
  <1> QED
    BY <1>6 DEF LogInv, OpenCovered, Actors, IdsExact

LEMMA IntegrateExact ==
    ASSUME Inv, LogInv, Integrate
    PROVE  LogInv'
  <1>1. PICK c : c = Closed(doc)
    OBVIOUS
  <1>2. PICK i : i = [on |-> FALSE, at |-> {}]
    OBVIOUS
  <1>3. PICK H \in SUBSET c.graph : H = Heads(c)
    BY DEF Heads
  <1>4. doc' = Patched(c, i, H) /\ aligned' = StaysAligned(c, H)
    BY <1>1, <1>2, <1>3 DEF Integrate, Patched
  <1>5. LooksAt(c, i, H)
    BY <1>2, <1>3 DEF LooksAt
  <1>6. OpenCovered(doc') /\ (aligned' => aligned /\ (IdsExact(doc.log) => IdsExact(doc'.log)))
    BY <1>1, <1>4, <1>5, PatchedExact DEF LogInv
  <1> QED
    BY <1>6 DEF LogInv, OpenCovered, Actors, IdsExact

\* The log starts over without identifiers.
LEMMA MoveExact ==
    ASSUME Inv, LogInv, MoveCursor(Closed(doc))
    PROVE  LogInv'
  <1>1. PICK c : c = Closed(doc)
    OBVIOUS
  <1>2. KeepsExact(doc, c) /\ Sound(c) /\ c.tx = {}
    BY <1>1, ClosedExact DEF Inv, LogInv
  <1>3. CASE c.graph = {}
    <2>1. doc' = c /\ aligned' = aligned
      BY <1>1, <1>3 DEF MoveCursor
    <2> QED
      BY <1>2, <2>1 DEF LogInv, KeepsExact, OpenCovered, Actors, IdsExact
  <1>4. CASE c.graph # {}
    <2>1. doc' = [c EXCEPT !.log = Truncated(c.log)]
      BY <1>1, <1>4 DEF MoveCursor
    <2>2. doc'.log = Truncated(c.log) /\ doc'.tx = {}
      BY <1>2, <2>1 DEF Sound, IsDoc
    <2>3. Truncated(c.log).ids = {}
      BY <1>2 DEF Truncated, Sound, IsDoc, IsLog
    <2> QED
      BY <2>2, <2>3 DEF LogInv, OpenCovered, IdsExact
  <1> QED
    BY <1>3, <1>4

LEMMA ResetDiffCursorExact ==
    ASSUME Inv, LogInv, ResetDiffCursor
    PROVE  LogInv'
  <1>1. PICK c : c = Closed(doc)
    OBVIOUS
  <1>2. Sound(c) /\ c.tx = {}
    BY <1>1, ClosedExact DEF Inv, LogInv
  <1>3. doc' = [c EXCEPT !.log = NoLog]
    BY <1>1 DEF ResetDiffCursor
  <1>4. doc'.log = NoLog /\ doc'.tx = {}
    BY <1>2, <1>3 DEF Sound, IsDoc
  <1>5. NoLog.ids = {}
    BY DEF NoLog
  <1> QED
    BY <1>4, <1>5 DEF LogInv, OpenCovered, IdsExact

-----------------------------------------------------------------------------
(* Every step *)

\* A step that mixes in no patches of other lists.
LEMMA KeepsLogInv ==
    ASSUME LogInv, KeepsExact(doc, doc'), UNCHANGED aligned
    PROVE  LogInv'
  BY DEF LogInv, KeepsExact, OpenCovered, Actors, IdsExact

\* Most calls only close the transaction.
LEMMA ReadExact ==
    ASSUME Inv, LogInv, doc' = Closed(doc), UNCHANGED aligned
    PROVE  LogInv'
  <1>1. KeepsExact(doc, doc')
    BY ClosedExact DEF Inv, LogInv
  <1> QED
    BY <1>1, KeepsLogInv

LEMMA UnchangedExact ==
    ASSUME LogInv, UNCHANGED <<doc, aligned>>
    PROVE  LogInv'
  BY DEF LogInv, OpenCovered, Actors, IdsExact

LEMMA RollbackExact ==
    ASSUME Inv, LogInv, Rollback
    PROVE  LogInv'
  <1>1. doc' = [doc EXCEPT !.tx = {}] /\ UNCHANGED aligned
    BY DEF Rollback
  <1>2. doc'.log = doc.log /\ doc'.tx = {}
    BY <1>1 DEF Inv, Sound, IsDoc
  <1>3. KeepsExact(doc, doc')
    BY <1>2 DEF KeepsExact, OpenCovered
  <1> QED
    BY <1>1, <1>3, KeepsLogInv

LEMMA StepExact ==
    ASSUME Inv, LogInv, [Next]_vars
    PROVE  LogInv'
  <1>1. OpenCovered(doc)
    BY DEF LogInv
  <1>2. CASE UNCHANGED vars
    BY <1>2, UnchangedExact DEF vars
  <1>3. ASSUME NEW n \in {0, 1}, Edit(n)
        PROVE  LogInv'
    BY <1>1, <1>3, EditExact, KeepsLogInv DEF Edit
  <1>4. CASE Commit
    BY <1>1, <1>4, CommitExact, KeepsLogInv DEF Commit
  <1>5. CASE OpenPanics
    BY <1>5, UnchangedExact DEF OpenPanics
  <1>6. CASE Rollback
    BY <1>6, RollbackExact
  <1>7. CASE EmptyChange
    BY <1>1, <1>7, EmptyChangeExact, KeepsLogInv DEF EmptyChange
  <1>8. CASE Read
    BY <1>8, ReadExact DEF Read
  <1>9. ASSUME NEW a \in ActorId, SetActor(a)
        PROVE  LogInv'
    BY <1>9, ReadExact DEF SetActor
  <1>10. ASSUME NEW H \in KnownHeads, Isolate(H)
         PROVE  LogInv'
    BY <1>10, IsolateExact
  <1>11. CASE Integrate
    BY <1>11, IntegrateExact
  <1>12. ASSUME NEW b \in Peer, NEW D, Receive(b, D)
         PROVE  LogInv'
    BY <1>1, <1>12, ReceiveExact, KeepsLogInv DEF Receive
  <1>13. ASSUME NEW b \in Peer, NEW D, ReceivePanics(b, D)
         PROVE  LogInv'
    BY <1>13, UnchangedExact DEF ReceivePanics
  <1>14. CASE ReceiveNothing
    BY <1>1, <1>14, ReceiveNothingExact, KeepsLogInv DEF ReceiveNothing
  <1>15. ASSUME NEW b \in Peer, LoadIntoEmpty(b)
         PROVE  LogInv'
    BY <1>1, <1>15, LoadExact, KeepsLogInv DEF LoadIntoEmpty
  <1>16. CASE UpdateDiffCursor
    BY <1>16, MoveExact DEF UpdateDiffCursor
  <1>17. CASE ResetDiffCursor
    BY <1>17, ResetDiffCursorExact
  <1>18. ASSUME NEW before, NEW after, Diff(before, after)
         PROVE  LogInv'
    BY <1>18, ReadExact DEF Diff
  <1>19. CASE DiffIncremental
    BY <1>19, MoveExact DEF DiffIncremental
  <1>20. CASE Save \/ SaveIncremental
    BY <1>20, ReadExact DEF Save, SaveIncremental
  <1> QED
    BY <1>2, <1>3, <1>4, <1>5, <1>6, <1>7, <1>8, <1>9, <1>10, <1>11, <1>12, <1>13, <1>14,
       <1>15, <1>16, <1>17, <1>18, <1>19, <1>20 DEF Next

LEMMA InitExact ==
    ASSUME Init
    PROVE  LogInv
  <1>1. doc.tx = {} /\ doc.log = NoLog
    BY DEF Init
  <1>2. NoLog.ids = {}
    BY DEF NoLog
  <1> QED
    BY <1>1, <1>2 DEF LogInv, OpenCovered, IdsExact

\* The identifiers of the patch log are places in its own list of actors, and
\* that list begins with the document's while a transaction is open.
THEOREM LogIsExact == Spec => []LogInv
  <1>1. Inv /\ LogInv /\ [Next]_vars => LogInv'
    BY StepExact
  <1> QED
    BY <1>1, InitExact, Invariant, PTL DEF Spec

\* When the log knows the actors of the document, its identifiers name what
\* they were logged for, however many actors migrate_actors put before them,
\* unless patches of another list of actors were mixed in.
THEOREM MigrationIsExact == Spec => []MigrationExact
  <1>1. LogInv => MigrationExact
    BY DEF LogInv, IdsExact, MigrationExact, IdsResolve
  <1> QED
    BY <1>1, LogIsExact, PTL

=============================================================================
