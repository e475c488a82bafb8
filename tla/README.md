# A TLA+ model of automerge-r

automerge-r is an R binding (`src/R`, `src/src/*.c`) around the Automerge core
that it bundles (`src/src/automerge/rust`): a Rust library (`automerge`), its
column store (`hexane`) and a C interface (`automerge-c`).  What can go wrong in
ways a test hardly reaches lies in the core: documents that exchange changes in
any order, that crash and come back, peers that find out over sessions that
break off what the other one lacks, a wrapper that commits behind its caller's
back, and values that have to be the same wherever the same operations arrived.
This directory models that part, checks it with TLC, and proves with TLAPS every
property of the change graph and of its walks, every safety property of the sync
protocol and of the wrapper, and of the operation set that identifiers are new
and that its successors and visible rows depend on the operations alone.

Paths without a prefix below are relative to
`src/src/automerge/rust/automerge/src/`.

## 1. The system

| part | state it keeps | operations | what makes it correct |
|---|---|---|---|
| Document (`automerge.rs`, `change_graph.rs`, `op_set2/change/batch.rs`, `transaction/inner.rs`) | the change graph, its heads (twice: `deps` and `change_graph.heads`), the queue of changes that wait for dependencies, `max_op`, the actor | commit, empty commit, isolated commit, apply, merge, get_changes, fork, fork_at, save, load | the graph is causally closed, the queue holds what waits and nothing else, heads and counters are exact, nothing is lost or renamed |
| Graph walks (`automerge.rs`, `op_set2/change/collector.rs`) | a stack, the hashes seen, the hashes found | `fork_at`, `get_changes_added` | they find the right changes, each once |
| Sync protocol (`sync.rs`, `sync/state.rs`, `sync/bloom.rs`) | per peer a `sync::State`; messages under way | `generate_sync_message`, `receive_sync_message`, encoding and decoding a state | the exchange ends, and then both sides are equal; what counts as sent is not lost |
| AutoCommit (`autocommit.rs`, `patches/patch_log.rs`) | an open transaction, the isolation, diff and save cursors, a patch log, a diff cache | every call of the document, implicit commits, isolate, integrate, diff | reads, diffs and commits agree on the heads they are about |
| Operation set (`op_set2/`, `transaction/inner.rs`, `marks.rs`) | operations ordered by object, key and identifier, successors, indexes | put, delete, insert, increment, mark, apply | documents with the same changes show the same values |
| Patches and diffs (`patches/`, `iter/`) | a log of events | make_patches, diff | the patches turn the old view into the new one |
| Storage (`storage/`) | none | parse and write chunks | load after save is the identity |
| Cursors (`cursor.rs`, `op_set2/op_set.rs`) | none | make, resolve | a cursor stays at its element |
| Column store (`hexane`) | slabs of encoded runs | splice, seek, save, load | it behaves like a vector |
| C interface (`automerge-c`) | results that own items | all of the above | a result outlives its items |
| R binding (`src/R`, `src/src/*.c`) | external pointers, protection chains, finalizers | all of the above, `am_sync` | no pointer is used after its document is freed |

How they interact.  An R call runs to its end on one thread: it unwraps an
external pointer, calls one C function and wraps the result.  `am_put` and the
other editing calls go to an `AutoCommit`, which opens a transaction when it
needs one and closes it before any call that looks at the history.  A closed
transaction becomes a change in the document's graph.  Documents meet in four
ways: `am_merge` (a walk over the other graph, then `apply_changes`),
`am_get_changes`/`am_apply_changes` (changes as bytes, by any channel),
`am_save`/`am_load`, and the sync protocol, whose messages the caller carries.
There are no threads and no shared memory; all concurrency is between documents,
and everything hard comes from the order in which changes and messages reach
them, from what a crash takes away, and from sync states that outlive the
documents they were about.  Inside a document two things are as hard: the calls
of `AutoCommit`, which share one open transaction, isolation and patch log, and
the rows and indexes of the operation set, which local edits, isolated edits,
batches and loads each keep up in their own way.

The hazards of this code, each with its line and the properties that would
notice, are listed in `PROJECT.json`.

## 2. The modules

    Document          replicas, changes, graphs, queues, saving and loading
      DocumentWalks   the same, with the two walks hash by hash; implements Document
      DocumentProofs  the inductive invariants of Document, of graphs and of histories
        DocumentWalksProofs     the walks, and that they implement Document
    Exchange          what a synchronisation promises
      SyncProtocol    two peers, their sync states and messages; implements Exchange
        SyncProofs    what the protocol keeps safe, the safety of Exchange, and
                      that silence means that both documents are equal
    AutoCommit        one document behind its wrapper: transactions, isolation, diffs
      AutoCommitProofs  commits, isolation, saves and diffs agree on the heads they
                      are about, and the identifiers of the patch log name their actors
    OpSet             the rows and indexes of one object on several replicas
      Cursors         positions in its lists that outlive their elements
      OpSetProofs     identifiers, references, successors and visible rows
        OpSetRowsProofs       what the operators on sequences of rows compute
          OpSetTreeProofs     batches and edits keep a list the tree of its inserts
            OpSetOrderProofs  the tree decides the order of rows; replicas converge;
                              loads rebuild; cursors lead back
    MCDocument, MCWalks, MCSync, MCAutoCommit, MCOpSet   small instances for TLC

`AutoCommit` and `OpSet` abstract what `Document` models: a receipt brings one
change, and what `apply_changes` does with several, early or twice, is the
business of `Document`.  `Document` and `AutoCommit` in turn leave out what a
change contains, which `OpSet` is about.

### Document

One action is one call, from its start to its return: a document is borrowed
for as long as the call lasts, so nothing can come between its steps.

A change is immutable and named by a hash of its content.  The model names it by
actor and sequence number and remembers its content in `deps`, `nOps` and
`opEnd`.  This is possible because an actor identifier is never given to two
documents: `Document` leaves out that a caller sets one with `am_set_actor` or
loads one file twice under one actor, and with it the error
`DuplicateSeqNumber`.  `ChangesImmutable` says that a name is never taken twice,
which is what makes the abstraction sound.  `past` is derived from `deps`; it is
a variable so that no property needs recursion.

| model | code |
|---|---|
| `graph[r]`, `heads[r]`, `queue[r]`, `maxOp[r]`, `actor[r]` | `change_graph`, `deps` and `change_graph.heads`, `queue`, `max_op`, `actor` of `Automerge` |
| `Commit`, `EmptyCommit` | `transaction_args(None)`, then `commit_impl` and `update_history` |
| `CommitAt` | `transaction_args(Some(heads))` with `isolate_actor`; `UsableAt` is its test, the levels are those of `ActorId::with_concurrency` |
| `ApplyChanges` | `apply_changes_batch_log_patches`; `Ready` is the loop over the queue, `AbsorbInto` the whole call |
| `ApplyPanics`, `ForkAtPanics` | the same call, also by `fork_at` on its new document, when the assertion on sequence numbers in `add_changes` fails (or when the actor was never registered, because only a first change registers it) |
| `Merge`, `Pull` | `merge`; `am_get_changes` with the heads of the receiver, then `am_apply_changes` |
| `Fork`, `ForkAt` | `fork`, `fork_at`; the new document takes the place of another one, which may be thought of as closed |
| `Save`, `Load` | `save_with_options` with its defaults; `load_with_options`. `Load` is also the restart after a crash: what the document held is gone |

A load takes the heads and the operation counter from the file as
`reconstruct_document` does: the counter is recomputed from the operations that
exist, not from the changes, so that of an empty change is not counted.  That
this makes no difference is part of `OpCounterExact`.

A change that an actor commits on the heads also depends on the actor's last
change, if that is not a head (`transaction_args` pushes it).  An isolated
commit has no such dependency: that the changes of one actor are nevertheless in
order rests on the test in `isolate_actor`, which the property
`OrderedButForEmpty` is about.

### DocumentWalks

`fork_at` and `get_changes_added` as they run: a stack of hashes, what was seen,
what was found.  Hashes are in no particular order, so what is pushed is pushed
in any order.  `Collectable` says that the change collector can make changes of
what was found: a hash that is listed twice gets two builders, and only one of
them gets the operations.  Every returning walk is a step of `Document`
(`ImplementsDocument`).

### SyncProtocol and Exchange

Two peers with a fixed set of possible changes, so that the interesting graphs
can be given as constants.  `Learn` brings changes to a document from outside of
the exchange, at any time: its own commits and the changes of third parties,
these before their dependencies if `OutOfOrder` is set.

| model | code |
|---|---|
| `state[p]` | `sync::State`; `heard` tells `None` from an empty list for the three `their_` fields, which are set together |
| `GenerateReset`, `Generate` | the branches of `generate_sync_message` that return a message; `Speaks` is when one of them does |
| `Receive` | `receive_sync_message_inner` with `load_incremental` |
| `Reconnect` | messages under way are lost; each peer goes on with a new state or with the one it encoded (`shared_heads` only); with `MayLoseData` one of them comes back with an older document |
| `BloomFilter` | the hashes a filter claims to contain: those put into it and, if there are any, any of `FalsePositive` |
| `SendsDocument` | a whole saved document instead of changes, for a peer that says it has no heads and understands version 2 |

Inside a session messages are neither lost nor reordered, as the protocol asks
of its transport; what is lost is lost by a reconnect.  `Exchange` is the
abstract specification: documents grow, by changes that exist elsewhere, stay
causally closed, and as long as one of them lacks a change of the other it
eventually takes over some.

### AutoCommit

One action is one call.  Most calls begin with `ensure_transaction_closed`,
which `Closed` is, and an edit with `ensure_transaction_open`, which `OpenedFor`
is.  `doc` is the document with everything a call of the wrapper may change at
once: the graph, the open transaction `tx`, the isolation and the patch log.

| model | code |
|---|---|
| `doc.tx`, `doc.isolation`, `doc.log` | `transaction`, `isolation`, `patch_log` |
| `cursor`, `cache`, `saveCursor` | `diff_cursor`, `diff_cache`, `save_cursor` |
| `Edit`, `Commit`, `Rollback`, `EmptyChange`, `Read` | the editing calls, `commit_with`, `rollback`, `empty_change`, and every call that only closes the transaction |
| `Isolate`, `Integrate` | the same names, with `patch_to` |
| `Receive`, `ReceiveNothing`, `LoadIntoEmpty` | `apply_changes`, `merge`, `receive_sync_message`, `load_incremental` |
| `UpdateDiffCursor`, `ResetDiffCursor`, `Diff`, `DiffIncremental` | the same names |
| `Save`, `SaveIncremental` | the same names |
| `OpenPanics`, `ReceivePanics` | the unwrap of `migrate_actors`, after which the process is gone |

A patch is the change whose effect it adds or removes, so that a diff is two
sets of changes, and `reader` is what an application shows that applies them.
What the patch log keeps besides is the list of actors its identifiers index
into; `Migrated` inserts actors in front of others and shifts the identifiers,
as `with_new_actor` does.  `aligned` is an auxiliary variable: it is false once
`patch_to` wrote identifiers of the document into a log with another list.

### OpSet

One map key or one list.  A map has one key, since keys do not meet; an object
in an object is an object by itself.  A change has one operation, so an
operation stands for its change, and a batch is a set of operations with all
they are based on.

| model | code |
|---|---|
| `d.ops`, `d.order`, `d.succ` | the operations, their rows in the columns, the successor columns |
| `d.vis`, `d.top` | the indexes of visible rows and of winners (`op_set.rs`, `IndexBuilder`) |
| `Registers`, `Runs`, `Found`, `At`, `Winner` | `list_register_at_pos`, `OpsFoundIter`, `seek_ops_by_index` with the index and without; what is found at an index is a set of visible rows, of which the last one wins |
| `Insert`, `Update`, `ResolveConflict` | `do_insert`, `local_op` for put, delete and increment, and the branch of `resolve_action` that deletes what lost |
| `InsertPos`, `WithRow`, `WithSucc`, `TopReset`, `CounterExposed` | `InsertQuery`, `splice`, `add_succ`, `reset_top`, the end of `local_list_op` |
| `Deliver`, `Batched` | `apply_changes_batch_log_patches` after its loop: `walk_list`, `walk_map`, `import_ops` |
| `Untangled`, `ElementsWith`, `OnElement` | the two stacks of `Untangler` |
| `TopOf`, `Hidden`, `Exposed` | `Top` |
| `ValueStep`, `Flushed`, `Width`, `Patched` | `ValueState`, `list_flush` and `map_process`, the index an `Untangler` counts, the patches of a batch as what they do to `shown` |
| `Loaded`, `Rebuilt` | the indexes and the deletes as a load computes them from the rows (`IndexBuilder`, `ChangeCollector`) |

`Cursors` adds no step: a cursor is the identifier of an operation, anyone may
hold it at any time, and what can go wrong is what it resolves to.  `CursorAt` is
`get_cursor_for`, `PositionOf` and `Before` are `get_cursor_position_for`,
`FoundFast` and `FoundSlow` the two searches behind it.

Rows are kept by place, as the code keeps them, because the code finds the rows
of an element by the inserts around them in one function and by rows that are
next to each other in another, and the two differ once rows have come apart.
Three descriptions of the same indexes meet in this module, kept up edit by edit,
by batches and from nothing by a load; that they agree is what the properties
say.

## 3. What is checked

Run in this directory, `tlc -workers 2 -config <cfg> <module>`.

| run | module, cfg | result | distinct states |
|---|---|---|---|
| document | MCDocument, MCDocument.cfg | 14 properties hold | 37,907 |
| walks | MCWalks, MCWalks.cfg | 2 properties hold | 183,094 |
| sync | MCSync, MCSync.cfg | 6 properties hold | 95,880 |
| sync_loss | MCSync, MCSyncLoss.cfg | 3 properties hold | 142,871 |
| autocommit | MCAutoCommit, MCAutoCommit.cfg | 7 properties hold | 423,129 |
| opset | MCOpSet, MCOpSet.cfg | 8 properties hold | 101,221 |
| seq_gap | MCDocument, MCSeqGap.cfg | `NoSeqGap` is violated | |
| fork_at | MCWalks, MCForkAt.cfg | `ForkAtNeverPanics` is violated | |
| sync_stall | MCSync, MCSyncStall.cfg | `SilentOnlyWhenEqual` is violated | |
| autocommit_panic | MCAutoCommit, MCPatchLog.cfg | `NeverMismatched` is violated | |
| opset_mixed | MCOpSet, MCOpSetMixed.cfg | `FastIsSlow` is violated | |
| opset_rows | MCOpSet, MCRows.cfg | `ChangesComeBack` is violated | |

`CHECK_DEADLOCK FALSE` everywhere: the bounds end every behaviour of the
documents, and two peers that are in sync have nothing left to do.

**document.**  Whatever the order of commits, deliveries, merges, forks, saves,
crashes and loads: a document never holds a change without its dependencies
(`CausallyClosed`), a change waits exactly as long as it has to (`QueueWaits`),
what `get_missing_deps` asks for is enough to drain the queue
(`MissingDepsSuffice`), the heads are exact (`HeadsExact`) and determine the
document (`HeadsDetermineGraph`), which is why two peers may compare heads
only.  Operation counters never fall behind (`OpCounterExact`) and no operation
identifier is given out twice (`OpIdsUnique`), even after a crash that lost
changes other documents hold (`ChangesImmutable`).  A file gives back what was
saved, queue included (`LoadRestores`); merges and pulls leave nothing behind
and `fork_at` gives exactly the past of its heads (`TransfersComplete`).

Two properties are about the order of one actor's changes, on which
`get_hashes` and the assertion in `add_changes` rely without saying so.
`OrderedButForEmpty`: the test of `isolate_actor` can only lose an empty change
from the past of a later one.  `NoSeqGapInOrder` and `GetHashesExact`: as long
as it does not, no delivery fails the assertion and `get_hashes` finds the
right changes.

**walks.**  The walks give what `Document` says (`ImplementsDocument`), and that
of a merge finds what is missing and nothing else or twice (`MergeCollects`),
which is why its `unwrap` is safe.

**sync** is one session without losses, in which each side commits while
messages are under way and the Bloom filters may claim changes they do not
contain.  The exchange ends (`EventuallySilent`), never too early
(`SilentOnlyWhenEqual`); `sent_hashes` never suppresses a change the other side
will not get (`SentIsNotLost`); and the protocol implements `Exchange`.

**sync_loss** adds a reconnect after which one peer may have an older document
and either peer may or may not have kept its sync state, with two messages
under way at a time.

**autocommit.**  One wrapper with two actors of its own, changes of two others,
in every order of calls.  An application that follows `diff_incremental` shows
what it would read (`ReaderFollows`), although the patches come from the log, a
comparison or a cache; the cache is right about the heads it is stored under
(`CacheExact`); identifiers in the log survive new actors in front of them
(`MigrationExact`).  A commit depends on what could be read when it was made
(`CommitExtendsView`), nothing of others shows while isolated
(`IsolationHolds`), and a save with the increments after it is complete
(`SavedComplete`).

**opset.**  A map key or a list, two replicas, also isolated, batches of every
size.  Replicas with the same operations have the same elements, registers,
successors and indexes (`Converges`) but for the places of increments.  A load
finds the operations and indexes that edits and batches kept up
(`LoadRebuilds`), as long as rows have not come apart.  A list is its tree of
inserts, whoever placed them (`InTreeOrder`).  Rows have come apart when an
increment was left behind what was inserted after its element (see `opset_rows`);
`Together` says that none was.  Isolated transactions look for the rows of an
element next to each other, so where there are such transactions `InTreeOrder`
and `Converges` speak of lists whose rows lie together (`Findable`).  An edit changes what its
transaction reads, isolated or not, in its one place and nothing else
(`EditsShow`).  The patches of an edit or of a batch of one change lead from one
view to the next (`PatchesSuffice`).  A cursor made for an index leads back to it,
at heads in any state and by the index of winners where the document is `Findable`
(`CursorsReturn`); from any replica, at any heads and whatever
became of its value it points at its element or the next one, and never past
something visible, but for two cases that `CursorsStay` names (below).

**The runs that fail** each show the code doing something else than its
documentation, comments or assertions say; `PROJECT.json` quotes both.

- `seq_gap`: an empty commit makes `isolate_actor` take its actor for unused.
  The next change of the actor at older heads does not depend on the empty one,
  and a document that gets it alone fails an assertion.
- `fork_at`: a hash that is on the stack already is pushed again, the change is
  listed twice, and the collector's `MissingOps` is unwrapped.  Three ordinary
  commits of two actors are enough, and the order of two hashes.
- `sync_stall`: a peer that is asked for a change it does not hold returns
  `None`, whatever else it could send.  The other peer asks for such a change
  when one from a third party waits in its queue.
- `autocommit_panic`: a first transaction that leaves no change leaves its actor
  in the patch log but not in the document.  The next receipt, of nothing even,
  unwraps `PatchLogMismatch`.
- `opset_mixed`: an increment against a conflict of a counter with another value
  deletes the other value where it is made.  A batch takes it for an increment
  of both, so the indexes are wrong and an element is missing from reads by
  index until the document is loaded again.
- `opset_rows`: what is appended to a list whose last element is an incremented
  counter is put before the increment's row.  A load then takes the increment for
  a deletion, meets the row later and fails an assertion: the document can be
  saved and not loaded.

  What isolated transactions then do to the order of rows and to the winners is
  in the list below.

More that TLC shows when a constant or a property of a passing run is changed,
without a run of its own.

- MCSync.cfg with `Hash = {a, b, c, d}`, `Deps <- IslandDeps`, `Local <-
  IslandLocal`, `FalsePositive = {}` and `OutOfOrder = TRUE`: a change of a third party that leaves the
  queue because of a message becomes a shared head (`SharedHeadsAreShared`).
  The peers recover with a reset message.
- MCSyncLoss.cfg with `MaxWire = 1` and `MaxReconnect = 2`: two peers that both lost the changes a
  kept sync state calls shared; one of them sends reset messages for ever
  (`EventuallySilent`).
- MCOpSet.cfg with `Objects = {"list"}`, `Inserted = {"set", "counter"}` and `MaxOps = 5`, if
  `Findable` is taken out of `InTreeOrder` and `Converges`: an incremented counter,
  an element appended behind it (which lands before the increment's row), a put on
  the new element (which lands behind that row) and an isolated put on it (which
  finds the element's rows before that row only).  The identifiers of the element
  are out of order, and both values win.  With two winners on one element two
  indexes give the same cursor, so `CursorsReturn` has the same condition for the
  current state.
- MCAutoCommit.cfg with `DiffIsolated = TRUE`: `diff_incremental` of an isolated
  document moves the cursor to heads it does not show (`ReaderFollows`).
- `CursorsStay` without its exceptions: at heads where the element of a cursor
  and everything behind it are deleted, `seek_list_opid_slow` finds nothing and
  `get_cursor_position` fails with `InvalidCursor`, where `cursor.rs:69` promises
  the length, which the search by index gives; one insert and one delete are
  enough, and the assertion that the two searches agree (`op_set.rs:688`) fails
  in a debug build.  And a deleted value whose element shows a
  concurrent one with a smaller identifier stands behind that one, so a cursor to
  it is one too far by index and right at heads.
- In the same two searches a value that lost a conflict is visible at heads and
  not by index, and one that was overwritten in neither.  A cursor that moves
  back then leaves its element, although `cursor.rs:63` has it move only when the
  item is removed, and goes to what that was inserted after, which need not be
  the previous one.

### Bounds

| bound | value | why it is enough |
|---|---|---|
| `Replica`, `Base` | 2 documents, 3 actors | a third actor comes into play when a document is forked or restarted, and stands for third parties; the changes of all documents reach all others through `ApplyChanges`, in any order |
| `MaxChanges`, `MaxSeq`, `MaxOp` | 3, 2, 3 | an actor's second change (dependencies that are no head, gaps), two concurrent branches and one change on top of both, a queue with two changes that wait for each other |
| `MaxLevel` | 1 in document, 0 in walks | one step to another concurrency level of an actor; walks has no isolated commits |
| `Hash`, `Deps`, `Local` | 3 changes, 4 in the runs that fail | a chain of two on one side and a change on the other; with both of the chain falsely claimed a peer asks twice |
| `MaxWire` | 1 in sync, 2 in sync_loss | with 1 a message waits while its sender changes its mind; with 2 two messages of one sender are under way |
| `MaxReconnect` | 0 in sync, 1 in sync_loss | one crash and what recovery finds |
| `ActorId`, `Own`, `Peer` | 5 actors: 2 and 4 of the wrapper, 1 and 3 of others, 5 free | every actor can be put before and after an actor of the log, and between two of them; `SetActor` happens once |
| `MaxSeq`, `MaxChanges` of AutoCommit | 2, 2 | a change before and a change after a cursor, isolation at the first or at none, two actors to shift an identifier by |
| `Replica`, `Own` of OpSet | 2 replicas with 2 actors each | conflicts are between two; the second actor is one concurrency level, a third is left out by `ScopeIsUsable` |
| `MaxOps` | 4, the first element of a list included | a counter, an increment, a concurrent value and what overwrites them; three concurrent inserts at one place |
| `Scalar`, `Inserted` | one value that is no counter; inserts of it only, but the first element of a list may be a counter | a second value or a second element that is a counter only repeats cases |
| isolation in OpSet | at the past of any change the replica holds, not at no heads | any set of heads is the past of several changes; four operations leave room for two heads once |

Every increment is by one.  `MixedIncrements` is `FALSE` in the run that passes
because `opset_mixed` shows that with it the indexes go wrong.  `PatchesSuffice`
is about batches of one change, and leaves out a counter that lost to a later
value: an exposed value is logged as it was put, without the increments it got.
For batches of several changes the code is not that exact: after an increment or
deletion of the last element `finish_updates` (`op_set2/change/batch.rs:108`)
leaves it the width 0, so the elements inserted after it are logged one index too
early, and a value of the batch that lost to one that the same batch deletes is
logged as a conflict only (`batch.rs:668`).  `LoadRebuilds` is restricted to documents whose
rows are together, as `opset_rows` shows that they may not be; a register that
came apart changes what reads return only with five operations or more.

Documents and actors are interchangeable and are symmetry sets in the runs
of `Document`; none of these checks liveness.

### Fairness

`FairSpec` asks that each peer keeps generating a message when it has one and
there is room, and keeps receiving what is under way (`WF` on `GenerateReset`,
`Generate` and `Receive` of each peer).  This is the loop of `am_sync` in
`src/R/sync.R` and the one in the documentation of `sync.rs`: each round calls
`generate_sync_message` on both sides and delivers what it returns.  Nothing is
assumed of `Learn` and `Reconnect`.

## 4. What is proved

`tlapm` on each of the modules of proofs checks everything in it, for any
number of replicas, actors, changes, operations, levels, messages and
reconnects.  The assumptions are those of the modules on their constants:
`DocumentAssumption`, `SyncAssumption`, `AutoCommitAssumption` and
`OpSetAssumption`, that the bounds are natural numbers, that there is a replica
and there are two peers, that no two replicas, and no application and the
others, have an actor in common, and the types of the tables of changes and
values.

**DocumentProofs.**  `TypeOK`, `CausallyClosed` and `HeadsExact` are not
inductive together: whether a delivery keeps the queue right depends on what the
queue held, whether a commit takes a new name on who else may have used it, and a
load on what was saved.  The inductive invariant `IInv` adds

- `OnlyMade`: graphs, queues and the file hold changes that were made, and the
  dependencies of changes were made;
- `ActorsDistinct`: no two documents have one actor;
- `OwnChangesHeld`: a document holds every change of its actor, so its next
  sequence number is new everywhere;
- `QueueDrained`: no set of queued changes could be applied, which is stronger
  than `QueueWaits` and what `Ready` being a fixpoint gives;
- `DiskSound`: the saved graph and queue are as sound as those of a document.

`InvariantHolds` is `Spec => []IInv`, with one lemma per action.  The lemma
`AbsorbSound` is the heart of it: applying the ready changes of a set on top of
a closed graph gives a closed graph, leaves no ready change behind, and updates
the heads correctly.

**Histories (`DocumentProofs`).**  The other properties of `Document` are about the
past of changes, along which one would want to do induction.  The prover cannot,
so the invariant `HInv` states what the induction would show for every closed
set of changes at once, and each commit, which adds one change on top, keeps it:
every such set is the past of its maximal changes (`MaximalCovers`), holds the
changes of an actor without gaps (`SeqsGapless`) and reaches as far as its
counters say (`OpsCounted`, `CountersGrow`, `EmptyCounted`).  A document holds
such a set, and so does a file; heads determine a document since both sets are
the past of the same changes.  `OrderedThroughout` is what makes
`OrderedButForEmpty` inductive: the empty change that is passed over is in the
past of nothing the actor made since.

**DocumentWalksProofs.**  `WalksOK` says what a walk has done so far: what is
found lies in the right set, and all of that set that is not found yet is behind
a hash on the stack.  When the stack is empty what is found is closed, so it is
the past of the heads (`fork_at`) or all that is missing (`merge`), and the
return is a step of `Document`.

**SyncProofs.**  `IInv` (types, and that what counts as sent arrives) holds in
all runs, through crashes and reconnects.  `OrderlyInv` needs that no change
arrives before its dependencies from outside and that no peer loses changes: the
first is needed as the instance `IslandDeps` of section 3 shows, the second since
a peer that lost changes may still be asked to share them.  With them a
message says the truth about what its sender holds (`MessagesHonest`), which is
what shared heads are computed from; and every step of the protocol is one of
`Exchange` or leaves the documents alone (`ProtocolExchanges`).

**Silence (`SyncProofs`).**  That the exchange does not end too early is about the
three reasons for which `generate_sync_message` returns `None`, and needs the
conditions of `OrderlyInv`: with a change that waits for its dependencies
`sync_stall` violates it.  `SilenceInv` excludes two of the reasons.  A peer
that waits for an answer (`in_flight`) has its last message under way, or the
other peer read it and has said or still has to say something (`AnswerDue`); so
two peers never wait for each other.  And what a peer is asked for it holds
(`RequestsKnown`), so it never keeps silent for want of a change, nor needs the
reset message (`NoResetNeeded`).  What is left is that both heard each other's
heads and they are equal, and equal heads are equal documents since each change
of a document is below a head of it (`HeadsExist`, which is an invariant since
documents grow by changes whose dependencies they have: nothing is assumed of
the table `Deps`).

**AutoCommitProofs.**  The invariant `Inv` relates the document to all that is
kept beside it.  `Sound` and `TxSound` describe the document: pasts nest and are
covered by the heads, each actor's changes have no gaps, and an open transaction
will make the next change of its actor on top of exactly what can be read.
`FileFits` says that the file holds the past of the save cursor and no change
without the ones before it, which is what makes `get_changes` by clock complete.
`DiffsFit` says that the log leads from the diff cursor to the view, that the
cache is exact and that the reader shows the view at the cursor; it is stated for
callers who ask no diffs of an isolated document (`~DiffIsolated`), as it fails
otherwise.  A call first closes the transaction and then does its work, so its
proof composes two steps: `Step` (what was known reads the same as before, commits
extend the view, isolation holds) and `Traced` (wherever the log led, it now leads
on to the new view).

**The patch log (`AutoCommitProofs`).**  An identifier in the patch log is the place of its
actor in the log's own list, which is the number of actors up to it.
`migrate_actors` inserts the actors it lacks and shifts what is behind them, and
the lemmas about places show that the shifts add up to the new places.
`MigrationExact` speaks of a log that knows all actors of the document; the
invariant `LogInv` says for any list that identifiers are places in it
(`IdsExact`), and that with an open transaction the log's list begins with the
document's (`OpenCovered`): an edit logs with the document's numbers, which are
the log's only if no actor of the log alone comes before one of the document.
The hypothesis `aligned` is that of `MigrationExact` itself.

**OpSetProofs.**  `OpInv` is about the operations.  An operation is based on a
closed set of operations with smaller counters (`PastOK`), overwrites and refers
to members of that set, and in a list to an element (`RefersBack`); a document
has its operations as they were made, with all they are based on, and all those
of its own two actors (`DocOK`).  The last is why identifiers are new
(`IdentifiersAreNew`): an edit, isolated or not, counts on from all that its
document holds, so from every operation of its actor that was ever made.  `IndexInv` adds what `add_succ`,
`reset_top`, `import_ops` and the `Top` of a batch keep up in different ways: the
successors of a document are those its operations say, and its visible rows are
the values that nothing but increments overwrote.  Both are functions of the set
of operations, so replicas with the same operations agree in them, however they
came (`IndexesConverge`), and reading by index sees what reading operation by
operation does (`IndexIsWhatIsVisible`).  `IndexInv` needs that increments meet
counters only (`~MixedIncrements`), as `opset_mixed` violates it otherwise; the
theorems on `OpInv` do not.

**OpSetRowsProofs, OpSetTreeProofs.**  Edits put rows into a sequence one by one,
batches rebuild it from registers, stacks and folds, and `TypeOK` asks that no row
is lost, doubled or left over and that what wins is visible.  `RowsInv` adds to
`IndexInv`, for every document (`TreeOK`),

- its rows are its operations but deletes, each once, and a list begins with an
  insert (`RowsOK`), so that every row is in exactly one register;
- its elements are in an order that the tree of inserts allows (`InTree`):
  an element comes after the one it was inserted after, and what is between the
  two came later;
- what wins is visible.

The last needs the second, since a batch finds the rows of an element by walking
through the elements.  What the walk (`untangle_inserts`) has done is `Walk`: what
is on the stack or passed is exactly what was inserted at the front or after an
element that was passed, and everything that waits, on the stack or in the
document, may come next.  From that it follows that a batch of any size, whatever
it inserts and where, loses no element and leaves a list in the order in which
edits one by one would have put it.  Sequences are compared by what precedes what
(`Precedes`), since places shift.  `IdsInv` bounds counters by the number of
operations made.

The sequences are built by recursive functions and selections (`Only`, `Grouped`,
`FlattenSeq`, `OnElement`, `TopOf`, `UnstackedTo`).  That a recursive function is
what its equation says needs that such a function exists, and what it computes
needs an induction; both are done on sets of numbers (`AllNumbers`: a set of
numbers that has 0 and with each number the next one has all of them), which
needs no theorem with an operator as its parameter.

**OpSetOrderProofs.**  Where `InTree` says that an order of elements is one that
the tree allows, a fold over their paths from the front says which: of two
elements the one whose path is a beginning of the other's comes first, else the
one whose path takes the later insert where they part (`Leads`).  Any order in
which the tree is walked is this one, so the lists of replicas with the same
operations are equal (`ListsConverge`, `ListsAreTrees`), with no more than
`RowsInv`.  For rows and winners `OrderInv` adds, for every document,

- the rows of an element's register are of the element, or increments of an older
  one that were left behind, and are in the order of their identifiers but for
  these (`RegOK`);
- what wins is exactly the greatest of what is visible on its element (`TopOK`).

Each needs the other: an edit overwrites what it finds by the index of winners,
in the register around it, and puts its row at the end of that; a batch merges
what is new into a register by identifiers and finds the last row that stays
visible.  An edit hides all that is visible on its element, or all but the winner
(`LeavesWinner`), or it is isolated, hides some of it and makes the last of the
register's rows the winner (`Resets`).  The last is right only if an isolated
transaction finds the whole register.  This is `Findable`: on lists with isolated
transactions the rows of each element lie together.  No step puts rows together
that had come apart (`EditWereTogether`, `BatchWereTogether`), so the invariant
may be stated for the documents that are `Findable` now.

`LoadRebuilds` needs `HomeInv` besides, which holds whether or not rows have come
apart:

- the register of an element has no rows of other elements but increments
  (`AtHome`): the row of a value takes its place in the register of its element,
  found by whichever scope, as what is found is a value, and the last of the rows
  around a value that have its element lies in its register;
- what an operation overwrites has a row and is of the element that it refers to,
  an insert overwrites nothing and a delete something (`OwnElement`).

If rows lie together, the rows around a row are then the register of its element
(`RunsAre`).  So the last visible row of each is the winner of `TopOK`; a
successor without a row there has no row at all, so that it is a delete, of the
element of what it deletes; and each delete is found, since it deletes something
(`LoadsRebuild`).

A cursor is the greatest of what an index shows.  At heads it is on a row of the
group of rows that gave the index, all groups before end before that row, and so
the first group that shows something and ends after it is the same one, however
rows have come apart.  In the current state it is the winner that gave the index,
as `TopOK` leaves one winner to an element, and the winners before it are those of
the smaller indexes (`CursorsComeBack`).

Only model-checked:

- that the exchange ends (`EventuallySilent`) and the fairness of `Exchange`, as
  liveness is out of the prover's reach;
- of `OpSet` `EditsShow` and `PatchesSuffice`; and `CursorsStay` of `Cursors`, which
  besides winners and groups needs how an operation and the one it refers to lie
  to each other when rows have come apart.

## 5. What is not modelled

- Two documents with one actor identifier, the error `DuplicateSeqNumber` this
  leads to, and what it leaves behind in the queue.
- Text with its widths in characters and its own index, marks, objects in
  objects, several keys, transactions of several operations, increments by other
  amounts.  `OpSet` has no isolation at no heads and one concurrency level.
- Diffs between two states (`iter/`) and how `PatchBuilder` merges patches.
- Bytes: chunks, messages, checksums, columns and the errors of parsing them.
  This is most of the code by lines (`storage/`, `hexane`, `op_set2/op_set/`'s
  columns), and little of its control.
- The clock cache of the change graph, whose step of 16 changes is out of reach
  of these instances.
- Cursors into text, their constants for the start and the end and their formats.
- The C interface and the R binding, of which only the loop of `am_sync` appears,
  as fairness.

## 6. Plan

Done: `Document`, `DocumentWalks`, `SyncProtocol` with `Exchange` and
`AutoCommit`, all four with their proofs, and `OpSet` with `Cursors`, with proofs
about its operations, indexes, rows, winners, loads and the way back of cursors.  What is left, in order of what
matters most:

1. `BatchLoop`: the loop of `apply_changes_batch` change by change, with two
   histories of one actor, its error path, and the refinement of the one step
   that `Document` takes.
2. Text and marks on top of `OpSet`, and cursors into text.
3. The R binding: ownership of documents, objects and results under garbage
   collection, and the rounds of `am_sync`.
4. The clock cache with a smaller step, the Bloom filter bit by bit, and the
   slabs of `hexane`, as operators checked against their definitions.
