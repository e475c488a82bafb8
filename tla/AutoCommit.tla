----------------------------- MODULE AutoCommit -----------------------------
(***************************************************************************)
(* The AutoCommit wrapper around a document (autocommit.rs) with its patch *)
(* log (patches/patch_log.rs): a transaction that is opened by the first   *)
(* edit and closed by almost every other call, isolation at older heads,   *)
(* the diff cursor with the patch log and the diff cache behind it, and    *)
(* incremental saves.                                                      *)
(*                                                                         *)
(* The operations of a change are abstracted to whether there are any.     *)
(* Patches are abstracted to the changes whose effect they add and remove, *)
(* and to the operation identifiers they name.  An identifier is an index  *)
(* into the sorted list of the actors of the document, as in the code;     *)
(* ActorId is a set of numbers in the order of the actors' bytes.          *)
(***************************************************************************)
EXTENDS Integers, FiniteSets

CONSTANTS
    ActorId,        \* actor identifiers, numbers
    Own,            \* the first actor of the document and what
                    \* with_concurrency makes of it, level by level
    Peer,           \* the actors of the other documents
    MaxSeq,         \* bound on the changes of one actor
    MaxChanges,     \* bound on the changes of the document
    DiffIsolated    \* whether diffs are also asked of an isolated document

ASSUME AutoCommitAssumption ==
    /\ ActorId \subseteq Nat \ {0}
    /\ IsFiniteSet(ActorId)
    /\ DOMAIN Own \subseteq Nat /\ 1 \in DOMAIN Own
    /\ \A l \in DOMAIN Own : Own[l] \in ActorId
    /\ Peer \subseteq ActorId \ {Own[l] : l \in DOMAIN Own}
    /\ MaxSeq \in Nat \ {0}
    /\ MaxChanges \in Nat
    /\ DiffIsolated \in BOOLEAN

Hash == ActorId \X (1 .. MaxSeq)
ActorOf(h) == h[1]
SeqOf(h)   == h[2]

VARIABLES
    doc,        \* the document, the transaction, the isolation, the patch log
    own,        \* the document's actor, and what with_concurrency makes of it
    cursor,     \* diff_cursor
    cache,      \* diff_cache
    saveCursor, \* save_cursor
    file,       \* the changes in the last save and the increments after it
    reader,     \* what an application shows that follows diff_incremental
    aligned,    \* no patches of another list of actors entered the log
    panicked    \* an unwrap failed and the process is gone

outside == <<own, file, panicked>>
diffs   == <<cursor, cache, reader>>
vars    == <<doc, outside, diffs, saveCursor, aligned>>

-----------------------------------------------------------------------------
(* The document d *)

Past(d, H) == UNION {d.past[h] : h \in H}

Heads(d) == {h \in d.graph : \A g \in d.graph \ {h} : h \notin d.past[g]}

\* The changes with an effect on what is read at the heads H.
ViewAt(d, H) == Past(d, H) \ d.empty

\* AutoCommit::get_heads
ViewHeads(d) == IF d.isolation.on THEN d.isolation.at ELSE Heads(d)

View(d) == ViewAt(d, ViewHeads(d))

\* The actors of the document: those with changes, and the one of an open
\* transaction, which is removed again when the transaction leaves no change
\* (commit, rollback and remove_unused_actors).
Actors(d) == {ActorOf(h) : h \in d.graph} \cup {t.actor : t \in d.tx}

\* Mutant of LastSeq: empty changes do not count.
LastSeqWithOps(d, a) == Cardinality({h \in d.graph \ d.empty : ActorOf(h) = a})

LastSeq(d, a) == Cardinality({h \in d.graph : ActorOf(h) = a})

LastOf(d, a) == {h \in d.graph : ActorOf(h) = a /\ SeqOf(h) = LastSeq(d, a)}

\* max_op of a document with the changes S.
MaxOp(d, S) ==
    CHOOSE m \in {0} \cup {d.opEnd[h] : h \in S} : \A h \in S : d.opEnd[h] <= m

-----------------------------------------------------------------------------
(* The patch log *)

NoLog == [active |-> FALSE, actors |-> {}, add |-> {}, del |-> {}, ids |-> {}]

Rank(a, S) == Cardinality({b \in S : b <= a})

\* make_patches: the view of somebody at the view V after the patches p.
Apply(p, V) == (V \ p.del) \cup p.add

\* What is logged for the changes whose effect appears and disappears.  A log
\* that is not active is cut before it is read, so its patches are left out.
Logged(log, add, del, actors) ==
    IF log.active
    THEN [log EXCEPT !.add = (@ \ del) \cup add,
                     !.del = (@ \ add) \cup del,
                     !.ids = @ \cup {[at |-> Rank(ActorOf(h), actors), of |-> h] : h \in add}]
    ELSE log

\* migrate_actors gives up: an actor of the log is not in the document and
\* comes before one that is.
Mismatch(log, actors) == \E l \in log.actors \ actors, a \in actors : l < a

\* The places where migrate_actors inserts actors before the end of the list.
Inserted(old, actors) ==
    {Rank(a, old \cup actors) : a \in {b \in actors \ old : \E l \in old : b < l}}

\* Mutant of Shifted: identifiers are left as they are.
NotShifted(i, places) == i

\* with_new_actor for each place in turn.
Shifted(i, places) ==
    CHOOSE j \in i .. i + Cardinality(places) :
        /\ j \notin places
        /\ Cardinality((1 .. j) \ places) = i

\* migrate_actors
Migrated(log, actors) ==
    IF log.actors = {}
    THEN [log EXCEPT !.actors = actors]
    ELSE [log EXCEPT
            !.actors = log.actors \cup actors,
            !.ids = {[i EXCEPT !.at = Shifted(i.at, Inserted(log.actors, actors))] : i \in log.ids}]

\* patch_to: from the heads in view to the heads H.
PatchTo(d, H) ==
    IF ViewHeads(d) = H THEN d.log
    ELSE Logged(d.log, ViewAt(d, H) \ View(d), View(d) \ ViewAt(d, H), Actors(d))

\* patch_to logs identifiers of the document, whatever the log's actors are.
StaysAligned(d, H) ==
    aligned /\ (d.log.active /\ ViewHeads(d) # H => d.log.actors = Actors(d))

-----------------------------------------------------------------------------
(* Transactions *)

\* The change h on top of the hashes D, with n operations (none or one), made
\* in a document with the changes S.
Recorded(d, h, D, S, n) ==
    [d EXCEPT !.graph = @ \cup {h},
              !.past[h] = {h} \cup Past(d, D),
              !.opEnd[h] = MaxOp(d, S) + n,
              !.empty = IF n = 0 THEN @ \cup {h} ELSE @]

\* Mutants of IsolatedAt: the isolation stays where it was, or takes in what
\* was merged meanwhile.
IsolatedStill(d, h) == d.isolation

IsolatedAtHeads(d, h) == [d.isolation EXCEPT !.at = IF d.isolation.on THEN Heads(d) ELSE @]

\* An isolated document sees its commit h.
IsolatedAt(d, h) == [d.isolation EXCEPT !.at = IF d.isolation.on THEN {h} ELSE @]

\* ensure_transaction_closed
Closed(d) ==
    IF \A t \in d.tx : t.ops = 0
    THEN [d EXCEPT !.tx = {}]
    ELSE LET t == CHOOSE t \in d.tx : TRUE
             h == <<t.actor, t.seq>>
             e == Recorded(d, h, t.deps, d.graph, 1)
         IN  [e EXCEPT !.tx = {},
                       !.isolation = IsolatedAt(e, h),
                       !.log = Logged(d.log, {h}, {}, Actors(d))]

\* The test of isolate_actor for one actor: it has no operations yet, or the
\* heads H cover its last one.
UsableAt(d, H, a) ==
    \A h \in LastOf(d, a) :
        \/ d.opEnd[h] = 0
        \/ \E g \in Past(d, H) : ActorOf(g) = a /\ d.opEnd[g] >= d.opEnd[h]

\* The levels of with_concurrency the next transaction may use: exactly one,
\* unless the bound on levels is reached.
LevelsFor(d) ==
    IF d.isolation.on
    THEN {l \in DOMAIN own :
             /\ UsableAt(d, d.isolation.at, own[l])
             /\ \A k \in 1 .. l - 1 : ~UsableAt(d, d.isolation.at, own[k])}
    ELSE {1}

\* ensure_transaction_open, apart from the patch log.
Opened(d, l) ==
    [d EXCEPT !.tx =
        {[actor |-> own[l],
          seq   |-> LastSeq(d, own[l]) + 1,
          ops   |-> 0,
          deps  |-> IF d.isolation.on THEN d.isolation.at
                    ELSE Heads(d) \cup LastOf(d, own[l])]}]

\* The document with a transaction open.
OpenedFor(d) ==
    IF d.tx # {} THEN {d}
    ELSE {[e EXCEPT !.log = Migrated(e.log, Actors(e))] : e \in {Opened(d, l) : l \in LevelsFor(d)}}

OpenFails(d) == d.tx = {} /\ \E l \in LevelsFor(d) : Mismatch(d.log, Actors(Opened(d, l)))

WithinBounds(d) ==
    /\ Cardinality(d.graph) + Cardinality(d.tx) <= MaxChanges
    /\ \A t \in d.tx : t.seq <= MaxSeq

\* put, insert, delete, ...: an edit that fails leaves the transaction open.
Edit(n) ==
    /\ ~panicked
    /\ ~OpenFails(doc)
    /\ \E d \in OpenedFor(doc) :
           /\ WithinBounds(d)
           /\ doc' = [d EXCEPT !.tx = {[t EXCEPT !.ops = IF n > @ THEN n ELSE @] : t \in @}]
    /\ UNCHANGED <<outside, diffs, saveCursor, aligned>>

\* commit_with: opens a transaction first, even if it stays empty.
Commit ==
    /\ ~panicked
    /\ ~OpenFails(doc)
    /\ \E d \in OpenedFor(doc) : WithinBounds(d) /\ doc' = Closed(d)
    /\ UNCHANGED <<outside, diffs, saveCursor, aligned>>

OpenPanics ==
    /\ ~panicked
    /\ OpenFails(doc)
    /\ panicked' = TRUE
    /\ UNCHANGED <<doc, own, file, diffs, saveCursor, aligned>>

Rollback ==
    /\ ~panicked
    /\ doc' = [doc EXCEPT !.tx = {}]
    /\ UNCHANGED <<outside, diffs, saveCursor, aligned>>

\* empty_change: on the heads of the document, isolated or not.
EmptyChange ==
    LET d == Closed(doc)
        h == <<own[1], LastSeq(d, own[1]) + 1>>
    IN  /\ ~panicked
        /\ Cardinality(d.graph) < MaxChanges
        /\ SeqOf(h) <= MaxSeq
        /\ doc' = Recorded(d, h, Heads(d) \cup LastOf(d, own[1]), d.graph, 0)
        /\ UNCHANGED <<outside, diffs, saveCursor, aligned>>

\* get_heads, get_changes, fork, set_actor to the same actor, ...: calls that
\* close the transaction and otherwise only read.
Read ==
    /\ ~panicked
    /\ doc' = Closed(doc)
    /\ UNCHANGED <<outside, diffs, saveCursor, aligned>>

\* set_actor, to an actor nobody uses; once in a behaviour, to bound it.
SetActor(a) ==
    /\ ~panicked
    /\ own = Own
    /\ a \notin Peer
    /\ \A l \in DOMAIN own : own[l] # a
    /\ a \notin Actors(Closed(doc))
    /\ doc' = Closed(doc)
    /\ own' = <<a>>
    /\ UNCHANGED <<file, panicked, diffs, saveCursor, aligned>>

-----------------------------------------------------------------------------
(* Isolation *)

Isolate(H) ==
    LET d == Closed(doc) IN
    /\ ~panicked
    /\ doc' = [d EXCEPT !.log = PatchTo(d, H), !.isolation = [on |-> TRUE, at |-> H]]
    /\ aligned' = StaysAligned(d, H)
    /\ UNCHANGED <<outside, diffs, saveCursor>>

\* Mutant of Integrate: nothing is logged.
IntegrateQuietly ==
    LET d == Closed(doc) IN
    /\ ~panicked
    /\ doc' = [d EXCEPT !.isolation = [on |-> FALSE, at |-> {}]]
    /\ aligned' = StaysAligned(d, Heads(d))
    /\ UNCHANGED <<outside, diffs, saveCursor>>

Integrate ==
    LET d == Closed(doc) IN
    /\ ~panicked
    /\ doc' = [d EXCEPT !.log = PatchTo(d, Heads(d)), !.isolation = [on |-> FALSE, at |-> {}]]
    /\ aligned' = StaysAligned(d, Heads(d))
    /\ UNCHANGED <<outside, diffs, saveCursor>>

-----------------------------------------------------------------------------
(* Changes from other documents *)

\* The document with the next change of the actor b, on top of the hashes D,
\* its transaction closed.
Received(b, D) ==
    LET d == Closed(doc)
        E == D \cup LastOf(d, b)
    IN  Recorded(d, <<b, LastSeq(d, b) + 1>>, E, Past(d, E), 1)

CanReceive(b, D) ==
    /\ ~panicked
    /\ Cardinality(Closed(doc).graph) < MaxChanges
    /\ LastSeq(doc, b) < MaxSeq

ReceiveFails(d) == ~d.isolation.on /\ Mismatch(d.log, Actors(d))

\* The patch log after the changes new; an isolated document uses a log of its
\* own that is thrown away.
LoggedIfShared(d, new) ==
    IF d.isolation.on THEN d.log
    ELSE Logged(Migrated(d.log, Actors(d)), new, {}, Actors(d))

\* apply_changes, merge, load_incremental and receive_sync_message.
Receive(b, D) ==
    LET d == Received(b, D)
        h == <<b, LastSeq(doc, b) + 1>>
    IN  /\ CanReceive(b, D)
        /\ ~ReceiveFails(d)
        /\ doc' = [d EXCEPT !.log = LoggedIfShared(d, {h})]
        /\ UNCHANGED <<outside, diffs, saveCursor, aligned>>

ReceivePanics(b, D) ==
    /\ CanReceive(b, D)
    /\ ReceiveFails(Received(b, D))
    /\ panicked' = TRUE
    /\ UNCHANGED <<doc, own, file, diffs, saveCursor, aligned>>

\* There is nothing new: the patch log is migrated all the same.
ReceiveNothing ==
    LET d == Closed(doc) IN
    /\ ~panicked
    /\ IF ReceiveFails(d)
       THEN panicked' = TRUE /\ UNCHANGED doc
       ELSE panicked' = panicked /\ doc' = [d EXCEPT !.log = LoggedIfShared(d, {})]
    /\ UNCHANGED <<own, file, diffs, saveCursor, aligned>>

\* load_incremental on an empty document takes the loaded document over; the
\* patch log cannot be active there.
LoadIntoEmpty(b) ==
    /\ CanReceive(b, {})
    /\ Closed(doc).graph = {}
    /\ doc' = Received(b, {})
    /\ UNCHANGED <<outside, diffs, saveCursor, aligned>>

-----------------------------------------------------------------------------
(* Diffs *)

NoCache == [on |-> FALSE, before |-> {}, after |-> {}, add |-> {}, del |-> {}]

\* Mutant of Hit: the cache is looked up by the first heads alone.
HitBefore(c, before, after) == c.on /\ c.before = before

Hit(c, before, after) == c.on /\ c.before = before /\ c.after = after

\* diff: the cache, else the patch log if it spans the two heads, else both
\* are compared.  The result is what the cache holds afterwards.
Diffed(d, before, after) ==
    IF Hit(cache, before, after) THEN cache
    ELSE LET indexed == after = Heads(d) /\ before = cursor /\ d.log.active
             gained  == ViewAt(d, after) \ ViewAt(d, before)
             lost    == ViewAt(d, before) \ ViewAt(d, after)
         IN  [on |-> TRUE, before |-> before, after |-> after,
              add |-> IF indexed THEN d.log.add ELSE gained,
              del |-> IF indexed THEN d.log.del ELSE lost]

Truncated(log) == [log EXCEPT !.active = TRUE, !.add = {}, !.del = {}, !.ids = {}]

\* How the caller uses diffs: not of an isolated document, unless DiffIsolated.
DiffAllowed == ~panicked /\ (doc.isolation.on => DiffIsolated)

\* update_diff_cursor, of a document d that is closed: no effect without heads.
MoveCursor(d) ==
    IF d.graph = {}
    THEN doc' = d /\ UNCHANGED <<cursor, aligned>>
    ELSE /\ doc' = [d EXCEPT !.log = Truncated(d.log)]
         /\ cursor' = Heads(d)
         /\ aligned' = TRUE

\* The application shows what it reads, and follows from there.
UpdateDiffCursor ==
    LET d == Closed(doc) IN
    /\ DiffAllowed
    /\ MoveCursor(d)
    /\ reader' = View(d)
    /\ UNCHANGED <<outside, cache, saveCursor>>

ResetDiffCursor ==
    /\ ~panicked
    /\ doc' = [Closed(doc) EXCEPT !.log = NoLog]
    /\ cursor' = {}
    /\ reader' = {}
    /\ aligned' = TRUE
    /\ UNCHANGED <<outside, cache, saveCursor>>

Diff(before, after) ==
    LET d == Closed(doc) IN
    /\ DiffAllowed
    /\ doc' = d
    /\ cache' = Diffed(d, before, after)
    /\ UNCHANGED <<outside, cursor, reader, saveCursor, aligned>>

DiffIncremental ==
    LET d == Closed(doc) IN
    /\ DiffAllowed
    /\ cache' = Diffed(d, cursor, Heads(d))
    /\ reader' = Apply(cache', reader)
    /\ MoveCursor(d)
    /\ UNCHANGED <<outside, saveCursor>>

-----------------------------------------------------------------------------
(* Saving *)

\* Mutant of GetHashes: the clock is read one too high.
GetHashesButNext(d, H) ==
    {h \in d.graph : \A g \in Past(d, H) : ActorOf(g) = ActorOf(h) => SeqOf(g) + 1 < SeqOf(h)}

\* get_changes: what lies beyond the sequence numbers of the clock of H.
GetHashes(d, H) ==
    {h \in d.graph : \A g \in Past(d, H) : ActorOf(g) = ActorOf(h) => SeqOf(g) < SeqOf(h)}

Save ==
    LET d == Closed(doc) IN
    /\ ~panicked
    /\ doc' = d
    /\ file' = d.graph
    /\ saveCursor' = Heads(d)
    /\ UNCHANGED <<own, panicked, diffs, aligned>>

\* save_incremental, appended to the file.
SaveIncremental ==
    LET d == Closed(doc)
        new == GetHashes(d, saveCursor)
    IN  /\ ~panicked
        /\ doc' = d
        /\ file' = file \cup new
        /\ saveCursor' = IF new = {} THEN saveCursor ELSE Heads(d)
        /\ UNCHANGED <<own, panicked, diffs, aligned>>

-----------------------------------------------------------------------------
\* A new document, or one loaded from a file with a change of another actor.
Init ==
    /\ \E G \in {{}} \cup {{<<b, 1>>} : b \in Peer} :
           /\ doc = [graph |-> G,
                     past  |-> [h \in Hash |-> IF h \in G THEN {h} ELSE {}],
                     opEnd |-> [h \in Hash |-> IF h \in G THEN 1 ELSE 0],
                     empty |-> {},
                     tx |-> {},
                     isolation |-> [on |-> FALSE, at |-> {}],
                     log |-> NoLog]
           /\ file = G
    /\ own = Own
    /\ cursor = {}
    /\ cache = NoCache
    /\ saveCursor = {}
    /\ reader = {}
    /\ aligned = TRUE
    /\ panicked = FALSE

\* The hashes a caller may know as heads of the document.
KnownHeads == {H \in SUBSET doc.graph : \A g, h \in H : g # h => g \notin doc.past[h]}

Next ==
    \/ \E n \in {0, 1} : Edit(n)
    \/ Commit
    \/ OpenPanics
    \/ Rollback
    \/ EmptyChange
    \/ Read
    \/ \E a \in ActorId : SetActor(a)
    \/ \E H \in KnownHeads : Isolate(H)
    \/ Integrate
    \/ \E b \in Peer, D \in {{}, Heads(Closed(doc))} : Receive(b, D)
    \/ \E b \in Peer, D \in {{}, Heads(Closed(doc))} : ReceivePanics(b, D)
    \/ ReceiveNothing
    \/ \E b \in Peer : LoadIntoEmpty(b)
    \/ UpdateDiffCursor
    \/ ResetDiffCursor
    \/ \E before \in {{}, cursor} : Diff(before, ViewHeads(Closed(doc)))
    \/ DiffIncremental
    \/ Save
    \/ SaveIncremental

Spec == Init /\ [][Next]_vars

-----------------------------------------------------------------------------
(* Properties *)

\* Every variable has its type.
TypeOK ==
    /\ doc.graph \in SUBSET Hash
    /\ doc.empty \in SUBSET doc.graph
    /\ doc.isolation \in [on : BOOLEAN, at : SUBSET doc.graph]
    /\ \A t \in doc.tx :
           /\ <<t.actor, t.seq>> \in Hash \ doc.graph
           /\ t.deps \subseteq doc.graph
           /\ t.ops \in {0, 1}
    /\ doc.log.actors \in SUBSET ActorId
    /\ doc.log.add \cup doc.log.del \subseteq doc.graph
    /\ cursor \cup saveCursor \cup cache.before \cup cache.after \subseteq doc.graph

\* An application that follows diff_incremental always shows what it would
\* read, whatever was committed, received, isolated and integrated between two
\* calls (patch_log, diff_cursor and diff_cache agree).
ReaderFollows == [][DiffIncremental => reader' = View(doc')]_vars

\* What the diff cache holds is the difference of the heads it is stored
\* under.
CacheExact ==
    cache.on => Apply(cache, ViewAt(doc, cache.before)) = ViewAt(doc, cache.after)

\* A commit depends on what could be read when it was made, and can be read
\* itself, isolated or not (ensure_transaction_closed moves the isolation).
CommitExtendsView ==
    [][\A h \in doc'.graph \ doc'.empty :
           h \notin doc.graph /\ ActorOf(h) \notin Peer =>
               /\ doc'.past[h] \ doc'.empty = View(doc) \cup {h}
               /\ Commit \/ Read => View(doc') = View(doc) \cup {h}]_vars

\* What others made meanwhile never shows in an isolated document.
IsolationHolds ==
    [][doc.isolation.on /\ doc'.isolation.on /\ ~(\E H \in KnownHeads : Isolate(H)) =>
           \A h \in View(doc') \ View(doc) : ActorOf(h) \notin Peer]_vars

\* The file of a save and the incremental saves after it holds every change of
\* the document, although an isolated document names other heads.
SavedComplete == [][Save \/ SaveIncremental => file' = doc'.graph]_vars

\* The identifiers in the patch log name the operations they were logged for.
IdsResolve ==
    \A i \in doc.log.ids : i.at = Rank(ActorOf(i.of), Actors(Closed(doc)))

\* Whenever the patch log knows the actors of the document, its identifiers are
\* right, however many actors were put before them since they were logged
\* (migrate_actors), unless patches of another list of actors were mixed in.
MigrationExact == aligned /\ doc.log.actors = Actors(Closed(doc)) => IdsResolve

\* The actors of the patch log can always be brought in line with those of the
\* document: no unwrap of migrate_actors fails.
NeverMismatched == ~panicked
=============================================================================
