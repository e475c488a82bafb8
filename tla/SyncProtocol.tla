---------------------------- MODULE SyncProtocol ----------------------------
(***************************************************************************)
(* The synchronisation protocol of the bundled Automerge core (sync.rs):   *)
(* two peers that hold a document each, the sync state each of them keeps  *)
(* about the other, and the two reliable in-order streams between them.    *)
(* Either side generates and receives messages at any time, as long as it  *)
(* has something to say (am_sync's rounds are one such schedule), while    *)
(* changes also reach the documents from outside: local commits and        *)
(* changes of third parties.                                               *)
(*                                                                         *)
(* A Bloom filter is the set of the hashes it claims to contain: those it  *)
(* was built from and, unless it is empty, any false positives.  No change *)
(* shares its actor and sequence number with another one, and each change  *)
(* of an actor is based on the ones before it (ActorsOrdered in Document). *)
(***************************************************************************)
EXTENDS Integers, FiniteSets, Sequences

CONSTANTS
    Peer,           \* the two documents
    Hash,           \* the changes
    Deps,           \* hash -> hashes the change depends on
    Local,          \* peer -> changes that reach it from outside of the exchange
    FalsePositive,  \* hashes a Bloom filter may wrongly claim to contain
    OutOfOrder,     \* may a change from outside arrive before its dependencies?
    MayLoseData,    \* may a peer lose changes between two sessions?
    MaxWire,        \* bound on the messages on their way to a peer
    MaxReconnect    \* bound on the number of reconnections

ASSUME SyncAssumption ==
    /\ \E p, q \in Peer : p # q /\ Peer = {p, q}
    /\ Deps \in [Hash -> SUBSET Hash]
    /\ Local \in [Peer -> SUBSET Hash]
    /\ FalsePositive \subseteq Hash
    /\ OutOfOrder \in BOOLEAN
    /\ MayLoseData \in BOOLEAN
    /\ MaxWire \in Nat \ {0}
    /\ MaxReconnect \in Nat

VARIABLES
    graph,      \* peer -> changes of its change graph
    queue,      \* peer -> changes that wait for their dependencies
    state,      \* peer -> sync::State
    wire,       \* peer -> messages on their way to it
    reconnects  \* how often the peers reconnected

vars == <<graph, queue, state, wire, reconnects>>

Other(p) == CHOOSE q \in Peer : q # p

-----------------------------------------------------------------------------
(* Changes *)

DepsOf(S) == UNION {Deps[h] : h \in S}
Closed(S) == DepsOf(S) \subseteq S

\* A change and its ancestors: the least closed set around it.
Ancestors ==
    [h \in Hash |-> {g \in Hash : \A S \in SUBSET Hash : h \in S /\ Closed(S) => g \in S}]

Past(H) == UNION {Ancestors[h] : h \in H}

Heads(G) == G \ DepsOf(G)

\* get_missing_deps
MissingDeps(p, H) == ((DepsOf(queue[p]) \cup H) \ graph[p]) \ queue[p]

\* ChangeGraph::get_hashes: heads that are not in the graph are ignored.
GetHashes(G, H) == G \ Past(H \cap G)

\* Mutant of Ready: changes are applied without waiting for dependencies.
ReadyAtOnce(G, P) == P

\* apply_changes_batch
Ready(G, P) == UNION {S \in SUBSET P : \A h \in S : Deps[h] \subseteq G \cup S}

Absorb(p, B) ==
    LET P   == (queue[p] \cup B) \ graph[p]
        new == Ready(graph[p], P)
    IN  /\ graph' = [graph EXCEPT ![p] = @ \cup new]
        /\ queue' = [queue EXCEPT ![p] = P \ new]

-----------------------------------------------------------------------------
(* Sync states and messages *)

Have == [lastSync : SUBSET Hash, bloom : SUBSET Hash]

\* their_heads, their_need and their_have are None until heard is set; their
\* default values then act like None.
State == [
    sharedHeads   : SUBSET Hash,
    lastSentHeads : SUBSET Hash,
    heard         : BOOLEAN,
    theirHeads    : SUBSET Hash,
    theirNeed     : SUBSET Hash,
    theirHave     : SUBSET Have,
    sentHashes    : SUBSET Hash,
    inFlight      : BOOLEAN,
    haveResponded : BOOLEAN,
    supportsV2    : BOOLEAN]

\* State::new for no shared heads, State::decode of an encoded state otherwise.
NewState(shared) == [
    sharedHeads   |-> shared,
    lastSentHeads |-> {},
    heard         |-> FALSE,
    theirHeads    |-> {},
    theirNeed     |-> {},
    theirHave     |-> {},
    sentHashes    |-> {},
    inFlight      |-> FALSE,
    haveResponded |-> FALSE,
    supportsV2    |-> FALSE]

\* document: the changes are a whole saved document, which is never empty.
Message == [
    heads    : SUBSET Hash,
    need     : SUBSET Hash,
    have     : SUBSET Have,
    changes  : SUBSET Hash,
    document : BOOLEAN,
    caps     : BOOLEAN]

-----------------------------------------------------------------------------
(* generate_sync_message *)

OurHeads(p) == Heads(graph[p])
OurNeed(p)  == MissingDeps(p, state[p].theirHeads)

\* Mutant of BloomFilter: last_sync is nested once too often.
NestedBloomFilter(p, falsely) ==
    [lastSync |-> {state[p].sharedHeads},
     bloom    |-> GetHashes(graph[p], state[p].sharedHeads)]

\* make_bloom_filter
BloomFilter(p, falsely) ==
    LET hashes == GetHashes(graph[p], state[p].sharedHeads) IN
    [lastSync |-> state[p].sharedHeads,
     bloom    |-> IF hashes = {} THEN {} ELSE hashes \cup falsely]

OurHave(p, falsely) ==
    IF OurNeed(p) \subseteq state[p].theirHeads THEN {BloomFilter(p, falsely)} ELSE {}

\* Mutant of MustReset: the last sync has to be at our heads.
MustResetAtHeads(p) ==
    \E have \in state[p].theirHave : ~(have.lastSync \subseteq OurHeads(p))

\* The other peer's last sync is unknown here: this document lost changes.
MustReset(p) == \E have \in state[p].theirHave : ~(have.lastSync \subseteq graph[p])

\* The changes of hashes that are in unclaimed or depend on one of them.
WithDependents(hashes, unclaimed) ==
    {h \in hashes : Ancestors[h] \cap unclaimed # {}}

\* get_hashes_to_send
HashesToSend(p) ==
    LET s         == state[p]
        hashes    == GetHashes(graph[p], UNION {have.lastSync : have \in s.theirHave})
        unclaimed == {h \in hashes : \A have \in s.theirHave : h \notin have.bloom}
    IN  IF s.theirHave = {} THEN s.theirNeed
        ELSE s.theirNeed \cup WithDependents(hashes, unclaimed)

SendsDocument(p) ==
    state[p].heard /\ state[p].theirHeads = {} /\ state[p].supportsV2

\* The hashes of the changes in the next message.
SentHashes(p) ==
    IF ~state[p].heard THEN {}
    ELSE IF SendsDocument(p) THEN graph[p]
    ELSE HashesToSend(p) \ state[p].sentHashes

\* Mutant of SentSoFar: everything in the document counts as sent.
SentWhateverWeHold(p) == graph[p]

\* sent_hashes, extended by the hashes of the next message.
SentSoFar(p) == state[p].sentHashes \cup SentHashes(p)

\* get_changes_by_hashes fails for a hash that is not in the graph.
ChangesFound(p) == SentHashes(p) \subseteq graph[p]

\* Mutant of NothingToSay: new changes do not end the wait for an answer.
NothingWhileInFlight(p) ==
    LET s == state[p] IN
    /\ s.haveResponded
    /\ \/ s.heard /\ s.theirHeads = OurHeads(p) /\ SentHashes(p) = {}
       \/ s.inFlight

\* Mutant of NothingToSay: every message is answered.
NothingUntilAnswered(p) ==
    /\ state[p].lastSentHeads = OurHeads(p)
    /\ state[p].haveResponded
    /\ state[p].inFlight

\* The heads were sent already and either both sides are equal or the other
\* side has to answer first.
NothingToSay(p) ==
    LET s == state[p] IN
    /\ s.lastSentHeads = OurHeads(p)
    /\ s.haveResponded
    /\ \/ s.heard /\ s.theirHeads = OurHeads(p) /\ SentHashes(p) = {}
       \/ s.inFlight

\* generate_sync_message returns a message.
Speaks(p) == MustReset(p) \/ (ChangesFound(p) /\ ~NothingToSay(p))

Send(p, m) ==
    /\ Len(wire[Other(p)]) < MaxWire
    /\ wire' = [wire EXCEPT ![Other(p)] = Append(@, m)]

\* The message that asks for everything; the sync state stays as it is.
GenerateReset(p) ==
    /\ MustReset(p)
    /\ Send(p, [heads |-> OurHeads(p), need |-> {},
                have |-> {[lastSync |-> {}, bloom |-> {}]},
                changes |-> {}, document |-> FALSE, caps |-> TRUE])
    /\ UNCHANGED <<graph, queue, state, reconnects>>

Generate(p) ==
    /\ ~MustReset(p)
    /\ Speaks(p)
    /\ \E falsely \in SUBSET FalsePositive :
           Send(p, [heads |-> OurHeads(p), need |-> OurNeed(p),
                    have |-> OurHave(p, falsely),
                    changes |-> IF SendsDocument(p) THEN graph[p] \cup queue[p]
                                                    ELSE SentHashes(p),
                    document |-> SendsDocument(p),
                    caps |-> ~state[p].haveResponded])
    /\ state' = [state EXCEPT
           ![p].haveResponded = TRUE,
           ![p].lastSentHeads = OurHeads(p),
           ![p].sentHashes    = SentSoFar(p),
           ![p].inFlight      = TRUE]
    /\ UNCHANGED <<graph, queue, reconnects>>

-----------------------------------------------------------------------------
(* receive_sync_message_inner *)

\* Mutant of AdvanceHeads: all our heads count as shared.
AdvanceToOurHeads(old, new, shared) == new

\* advance_heads
AdvanceHeads(old, new, shared) == (new \ old) \cup (shared \cap new)

\* The sync state of p after the message m, received when the heads were old.
\* The primed graph is the one with the changes of the message.
StateAfter(p, m, old) ==
    LET s        == state[p]
        empty    == m.changes = {} /\ ~m.document
        advanced == IF empty THEN s.sharedHeads
                    ELSE AdvanceHeads(old, Heads(graph'[p]), s.sharedHeads)
        known    == m.heads \cap graph'[p]
        lost     == m.heads = {}
    IN  [sharedHeads   |-> IF known = m.heads THEN m.heads ELSE advanced \cup known,
         lastSentHeads |-> IF lost THEN {}
                           ELSE IF empty /\ m.heads = old THEN m.heads
                           ELSE s.lastSentHeads,
         heard         |-> TRUE,
         theirHeads    |-> m.heads,
         theirNeed     |-> m.need,
         theirHave     |-> m.have,
         sentHashes    |-> IF lost THEN {} ELSE s.sentHashes \ Past(known),
         inFlight      |-> FALSE,
         haveResponded |-> s.haveResponded,
         supportsV2    |-> s.supportsV2 \/ m.caps]

Receive(p) ==
    /\ wire[p] # <<>>
    /\ LET m == Head(wire[p]) IN
       /\ Absorb(p, m.changes)
       /\ state' = [state EXCEPT ![p] = StateAfter(p, m, OurHeads(p))]
    /\ wire' = [wire EXCEPT ![p] = Tail(@)]
    /\ UNCHANGED reconnects

-----------------------------------------------------------------------------
(* The surroundings *)

\* A commit, or changes from somewhere else.
Learn(p, h) ==
    /\ h \in Local[p] \ (graph[p] \cup queue[p])
    /\ OutOfOrder \/ Deps[h] \subseteq graph[p]
    /\ Absorb(p, {h})
    /\ UNCHANGED <<state, wire, reconnects>>

\* A new session: what was on its way is lost and each peer starts from its
\* encoded sync state or from a new one.  A peer may come back with an older
\* document.
Reconnect ==
    /\ reconnects < MaxReconnect
    /\ reconnects' = reconnects + 1
    /\ \E known \in SUBSET Peer :
           state' = [p \in Peer |->
               NewState(IF p \in known THEN state[p].sharedHeads ELSE {})]
    /\ wire' = [p \in Peer |-> <<>>]
    /\ \/ UNCHANGED <<graph, queue>>
       \/ /\ MayLoseData
          /\ \E p \in Peer, G \in SUBSET Hash :
                 /\ G \subseteq graph[p]
                 /\ Closed(G)
                 /\ graph' = [graph EXCEPT ![p] = G]
                 /\ queue' = [queue EXCEPT ![p] = {}]

-----------------------------------------------------------------------------
Init ==
    /\ graph = [p \in Peer |-> {}]
    /\ queue = [p \in Peer |-> {}]
    /\ state = [p \in Peer |-> NewState({})]
    /\ wire  = [p \in Peer |-> <<>>]
    /\ reconnects = 0

Next ==
    \/ \E p \in Peer :
           \/ GenerateReset(p)
           \/ Generate(p)
           \/ Receive(p)
           \/ \E h \in Hash : Learn(p, h)
    \/ Reconnect

\* Both peers keep generating and receiving messages, as the loop of am_sync
\* does.
Fairness ==
    \A p \in Peer :
        WF_vars(GenerateReset(p)) /\ WF_vars(Generate(p)) /\ WF_vars(Receive(p))

Spec     == Init /\ [][Next]_vars
FairSpec == Spec /\ Fairness

-----------------------------------------------------------------------------
(* Properties *)

\* Every variable has its type.
TypeOK ==
    /\ graph \in [Peer -> SUBSET Hash]
    /\ queue \in [Peer -> SUBSET Hash]
    /\ state \in [Peer -> State]
    /\ \A p \in Peer : \A i \in 1 .. Len(wire[p]) : wire[p][i] \in Message
    /\ reconnects \in 0 .. MaxReconnect

\* The hashes on the way to p.
OnTheWay(p) == UNION {wire[p][i].changes : i \in 1 .. Len(wire[p])}

\* A change is only left out because it was sent already (sent_hashes) when
\* the other peer has it or is about to receive it.
SentIsNotLost ==
    \A p \in Peer :
        state[p].sentHashes \subseteq
            graph[Other(p)] \cup queue[Other(p)] \cup OnTheWay(Other(p))

\* shared_heads: the hashes which we know both peers have.
SharedHeadsAreShared ==
    \A p \in Peer : \A q \in Peer : state[p].sharedHeads \subseteq graph[q]

Silent == \A p \in Peer : wire[p] = <<>> /\ ~Speaks(p)

\* When neither side has a message for the other one (am_sync's loop ends),
\* both hold the same changes.
SilentOnlyWhenEqual == Silent => \A p, q \in Peer : graph[p] = graph[q]

\* The exchange ends: am_sync's loop terminates once nothing new arrives, and
\* generate_sync_message returns None when there is nothing new to send.
EventuallySilent == <>[]Silent

\* The protocol implements the exchange of changes it stands for.
Exchanged == INSTANCE Exchange WITH held <- graph
ImplementsExchange == Exchanged!Spec
=============================================================================
