----------------------------- MODULE SyncProofs -----------------------------
(***************************************************************************)
(* Theorems about SyncProtocol, for every set of changes, any number of    *)
(* messages under way and of reconnects: what counts as sent is not lost;  *)
(* and, when changes arrive in order and no peer loses any, shared heads   *)
(* are shared and the documents grow as Exchange says.                     *)
(***************************************************************************)
EXTENDS SyncProtocol, TLAPS

\* The messages to a peer form a queue.
WireOK == wire \in [Peer -> Seq(Message)]

IInv ==
    /\ TypeOK
    /\ WireOK
    /\ SentIsNotLost

-----------------------------------------------------------------------------
\* There are two peers.
LEMMA TwoPeers ==
    ASSUME NEW p \in Peer
    PROVE  /\ Other(p) \in Peer \ {p}
           /\ \A q \in Peer : q = p \/ q = Other(p)
           /\ Other(Other(p)) = p
  <1>1. PICK a \in Peer, b \in Peer : a # b /\ Peer = {a, b}
    BY SyncAssumption
  <1>2. \A q \in Peer : \E o \in Peer : o # q
    BY <1>1
  <1>3. \A q \in Peer : Other(q) \in Peer /\ Other(q) # q
    BY <1>2 DEF Other
  <1> QED
    BY <1>1, <1>3

\* Receiving changes loses none.
LEMMA AbsorbKeeps ==
    ASSUME TypeOK, NEW p \in Peer, NEW B \in SUBSET Hash, Absorb(p, B)
    PROVE  /\ graph' \in [Peer -> SUBSET Hash]
           /\ queue' \in [Peer -> SUBSET Hash]
           /\ graph[p] \subseteq graph'[p]
           /\ graph'[p] \ graph[p] \subseteq queue[p] \cup B
           /\ graph'[p] \cup queue'[p] = graph[p] \cup queue[p] \cup B
           /\ queue'[p] \subseteq queue[p] \cup B
           /\ \A q \in Peer \ {p} : graph'[q] = graph[q] /\ queue'[q] = queue[q]
  <1> DEFINE P == (queue[p] \cup B) \ graph[p]
             new == Ready(graph[p], P)
  <1>1. new \subseteq P
    BY DEF Ready
  <1>2. /\ graph' = [graph EXCEPT ![p] = @ \cup new]
        /\ queue' = [queue EXCEPT ![p] = P \ new]
    BY DEF Absorb
  <1> HIDE DEF new
  <1> QED
    BY <1>1, <1>2 DEF TypeOK

\* What is sent to the other peer is on the way, then arrives.
LEMMA SendAppends ==
    ASSUME IInv, NEW p \in Peer, NEW m \in Message, Send(p, m)
    PROVE  /\ WireOK'
           /\ wire'[Other(p)] = Append(wire[Other(p)], m)
           /\ wire'[p] = wire[p]
           /\ OnTheWay(Other(p))' = OnTheWay(Other(p)) \cup m.changes
           /\ OnTheWay(p)' = OnTheWay(p)
  <1> DEFINE q == Other(p)
  <1>1. q \in Peer /\ q # p
    BY TwoPeers
  <1>2. wire' = [wire EXCEPT ![q] = Append(wire[q], m)] /\ wire \in [Peer -> Seq(Message)]
    BY DEF Send, IInv, WireOK
  <1> HIDE DEF q
  <1>3. wire'[q] = Append(wire[q], m) /\ wire'[p] = wire[p] /\ wire[q] \in Seq(Message)
    BY <1>1, <1>2
  <1>4. WireOK'
    BY <1>2, <1>3 DEF WireOK
  <1>5. /\ Len(wire'[q]) = Len(wire[q]) + 1
        /\ Len(wire[q]) \in Nat
        /\ \A i \in 1 .. Len(wire[q]) : wire'[q][i] = wire[q][i]
        /\ wire'[q][Len(wire[q]) + 1] = m
    BY <1>3
  <1>6. UNION {wire'[q][i].changes : i \in 1 .. Len(wire'[q])}
            = (UNION {wire[q][i].changes : i \in 1 .. Len(wire[q])}) \cup m.changes
    <2> DEFINE n == Len(wire[q])
    <2>1. 1 .. n + 1 = (1 .. n) \cup {n + 1}
      BY <1>5
    <2> HIDE DEF n
    <2> QED
      BY <1>5, <2>1 DEF n
  <1>7. OnTheWay(p)' = OnTheWay(p)
    BY <1>3 DEF OnTheWay
  <1> QED
    BY <1>3, <1>4, <1>6, <1>7 DEF OnTheWay, q

\* The first message to p leaves the queue.
LEMMA ReceiveTakes ==
    ASSUME IInv, NEW p \in Peer, wire[p] # <<>>, wire' = [wire EXCEPT ![p] = Tail(@)]
    PROVE  /\ WireOK'
           /\ Head(wire[p]) \in Message
           /\ OnTheWay(p) = Head(wire[p]).changes \cup OnTheWay(p)'
           /\ \A q \in Peer \ {p} : wire'[q] = wire[q]
  <1>1. wire \in [Peer -> Seq(Message)] /\ wire[p] \in Seq(Message)
    BY DEF IInv, WireOK
  <1>2. wire'[p] = Tail(wire[p]) /\ \A q \in Peer \ {p} : wire'[q] = wire[q]
    BY <1>1
  <1>3. WireOK'
    BY <1>1 DEF WireOK
  <1>4. /\ Head(wire[p]) = wire[p][1]
        /\ Len(wire[p]) \in Nat /\ Len(wire[p]) >= 1
        /\ wire[p][1] \in Message
        /\ Len(wire'[p]) = Len(wire[p]) - 1
        /\ \A i \in 1 .. Len(wire[p]) - 1 : wire'[p][i] = wire[p][i + 1]
    BY <1>1, <1>2
  <1>5. UNION {wire[p][i].changes : i \in 1 .. Len(wire[p])}
            = wire[p][1].changes \cup UNION {wire'[p][i].changes : i \in 1 .. Len(wire'[p])}
    <2> DEFINE n == Len(wire[p])
    <2>1. \A i \in 1 .. n : i = 1 \/ (i - 1 \in 1 .. n - 1 /\ (i - 1) + 1 = i)
      BY <1>4
    <2>2. \A i \in 1 .. n - 1 : i + 1 \in 1 .. n
      BY <1>4
    <2>3. 1 \in 1 .. n
      BY <1>4
    <2>4. Len(wire'[p]) = n - 1
      BY <1>4
    <2> HIDE DEF n
    <2>5. \A i \in 1 .. n : i = 1 \/ wire[p][i].changes = wire'[p][i - 1].changes
      BY <1>4, <2>1 DEF n
    <2>6. \A i \in 1 .. n - 1 : wire'[p][i].changes = wire[p][i + 1].changes
      BY <1>4 DEF n
    <2> DEFINE A == UNION {wire[p][i].changes : i \in 1 .. n}
               B == UNION {wire'[p][i].changes : i \in 1 .. n - 1}
    <2>7. A \subseteq wire[p][1].changes \cup B
      BY <2>1, <2>5
    <2>8. wire[p][1].changes \subseteq A
      BY <2>3
    <2>9. B \subseteq A
      BY <2>2, <2>6
    <2>10. A = wire[p][1].changes \cup B
      BY <2>7, <2>8, <2>9
    <2> QED
      BY <2>4, <2>10 DEF n
  <1> QED
    BY <1>2, <1>3, <1>4, <1>5 DEF OnTheWay

-----------------------------------------------------------------------------
(* Each step keeps the invariant *)

\* A reset message changes nothing but the wire.
LEMMA GenerateResetPreserves ==
    ASSUME IInv, NEW p \in Peer, GenerateReset(p)
    PROVE  IInv'
  <1> DEFINE m == [heads |-> OurHeads(p), need |-> {},
                   have |-> {[lastSync |-> {}, bloom |-> {}]},
                   changes |-> {}, document |-> FALSE, caps |-> TRUE]
             q == Other(p)
  <1>1. m \in Message
    BY DEF IInv, TypeOK, Message, Have, OurHeads, Heads
  <1>2. Send(p, m) /\ UNCHANGED <<graph, queue, state, reconnects>>
    BY DEF GenerateReset
  <1>3. m.changes = {}
    OBVIOUS
  <1> HIDE DEF m
  <1>4. /\ WireOK'
        /\ OnTheWay(q)' = OnTheWay(q)
        /\ OnTheWay(p)' = OnTheWay(p)
    BY <1>1, <1>2, <1>3, SendAppends
  <1>5. TypeOK'
    <2>1. \A r \in Peer : \A i \in 1 .. Len(wire'[r]) : wire'[r][i] \in Message
      BY <1>4 DEF WireOK
    <2> QED
      BY <2>1, <1>2 DEF IInv, TypeOK
  <1>6. \A r \in Peer : OnTheWay(r)' = OnTheWay(r)
    BY <1>4, TwoPeers
  <1>7. SentIsNotLost'
    BY <1>2, <1>6, TwoPeers DEF IInv, SentIsNotLost
  <1> QED
    BY <1>4, <1>5, <1>7 DEF IInv

\* What is put down as sent is in the message (sent_hashes).
LEMMA GeneratePreserves ==
    ASSUME IInv, NEW p \in Peer, Generate(p)
    PROVE  IInv'
  <1> DEFINE q == Other(p)
  <1>1. ChangesFound(p)
    BY DEF Generate, Speaks
  <1>2. SentHashes(p) \subseteq graph[p] /\ graph[p] \subseteq Hash /\ queue[p] \subseteq Hash
    BY <1>1 DEF ChangesFound, IInv, TypeOK
  <1>3. PICK falsely \in SUBSET FalsePositive :
            Send(p, [heads |-> OurHeads(p), need |-> OurNeed(p),
                     have |-> OurHave(p, falsely),
                     changes |-> IF SendsDocument(p) THEN graph[p] \cup queue[p]
                                                     ELSE SentHashes(p),
                     document |-> SendsDocument(p),
                     caps |-> ~state[p].haveResponded])
    BY DEF Generate
  <1> DEFINE m == [heads |-> OurHeads(p), need |-> OurNeed(p),
                   have |-> OurHave(p, falsely),
                   changes |-> IF SendsDocument(p) THEN graph[p] \cup queue[p]
                                                   ELSE SentHashes(p),
                   document |-> SendsDocument(p),
                   caps |-> ~state[p].haveResponded]
  <1>4. m \in Message
    <2>1. OurHeads(p) \subseteq Hash
      BY <1>2 DEF OurHeads, Heads
    <2>2. state[p] \in State
      BY DEF IInv, TypeOK
    <2>3. OurNeed(p) \subseteq Hash
      <3>1. DepsOf(queue[p]) \subseteq Hash
        BY <1>2, SyncAssumption DEF DepsOf
      <3> QED
        BY <2>2, <3>1 DEF OurNeed, MissingDeps, State
    <2>4. OurHave(p, falsely) \subseteq Have
      <3>1. GetHashes(graph[p], state[p].sharedHeads) \subseteq Hash
        BY <1>2 DEF GetHashes
      <3>2. falsely \subseteq Hash
        BY SyncAssumption
      <3>3. BloomFilter(p, falsely) \in Have
        BY <2>2, <3>1, <3>2 DEF BloomFilter, Have, State
      <3> QED
        BY <3>3 DEF OurHave
    <2>5. SendsDocument(p) \in BOOLEAN
      BY <2>2 DEF SendsDocument, State
    <2>6. (IF SendsDocument(p) THEN graph[p] \cup queue[p] ELSE SentHashes(p)) \subseteq Hash
      BY <1>2
    <2>7. (~state[p].haveResponded) \in BOOLEAN
      OBVIOUS
    <2> HIDE DEF m
    <2> QED
      BY <2>1, <2>3, <2>4, <2>5, <2>6, <2>7 DEF Message, m
  <1>5. SentHashes(p) \subseteq m.changes
    BY <1>2
  <1>6. Send(p, m)
    BY <1>3
  <1> HIDE DEF m
  <1>7. /\ WireOK'
        /\ OnTheWay(q)' = OnTheWay(q) \cup m.changes
        /\ OnTheWay(p)' = OnTheWay(p)
    BY <1>4, <1>6, SendAppends
  <1>8. UNCHANGED <<graph, queue, reconnects>>
    BY DEF Generate
  <1>9. state' = [state EXCEPT ![p] = [@ EXCEPT !.haveResponded = TRUE,
                                                !.lastSentHeads = OurHeads(p),
                                                !.sentHashes    = SentSoFar(p),
                                                !.inFlight      = TRUE]]
    BY DEF Generate
  <1>10. /\ state' \in [Peer -> State]
         /\ state'[p].sentHashes = state[p].sentHashes \cup SentHashes(p)
         /\ \A r \in Peer \ {p} : state'[r] = state[r]
    <2>1. state \in [Peer -> State] /\ state[p] \in State
      BY DEF IInv, TypeOK
    <2>2. OurHeads(p) \subseteq Hash /\ SentSoFar(p) \subseteq Hash
      BY <1>2, <2>1 DEF OurHeads, Heads, SentSoFar, State
    <2>3. [state[p] EXCEPT !.haveResponded = TRUE, !.lastSentHeads = OurHeads(p),
                           !.sentHashes = SentSoFar(p), !.inFlight = TRUE] \in State
      BY <2>1, <2>2 DEF State
    <2>4. [state[p] EXCEPT !.haveResponded = TRUE, !.lastSentHeads = OurHeads(p),
                           !.sentHashes = SentSoFar(p), !.inFlight = TRUE].sentHashes = SentSoFar(p)
      BY <2>1 DEF State
    <2> QED
      BY <2>1, <2>3, <2>4, <1>9 DEF SentSoFar
  <1>11. TypeOK'
    <2>1. \A r \in Peer : \A i \in 1 .. Len(wire'[r]) : wire'[r][i] \in Message
      BY <1>7 DEF WireOK
    <2> QED
      BY <2>1, <1>8, <1>10 DEF IInv, TypeOK
  <1>12. SentIsNotLost'
    <2> SUFFICES ASSUME NEW r \in Peer
                 PROVE  state'[r].sentHashes \subseteq
                            graph[Other(r)] \cup queue[Other(r)] \cup OnTheWay(Other(r))'
      BY <1>8 DEF SentIsNotLost
    <2>1. state[r].sentHashes \subseteq graph[Other(r)] \cup queue[Other(r)] \cup OnTheWay(Other(r))
      BY DEF IInv, SentIsNotLost
    <2>2. CASE r = p
      BY <2>1, <2>2, <1>5, <1>7, <1>10
    <2>3. CASE r # p
      <3>1. Other(r) = p
        BY <2>3, TwoPeers
      <3> QED
        BY <2>1, <2>3, <3>1, <1>7, <1>10
    <2> QED
      BY <2>2, <2>3
  <1> QED
    BY <1>7, <1>11, <1>12 DEF IInv

\* receive_sync_message: the changes of the message arrive, and what is put
\* down as sent shrinks.
LEMMA StateAfterTyped ==
    ASSUME TypeOK, graph' \in [Peer -> SUBSET Hash], NEW p \in Peer, NEW m \in Message,
           NEW old \in SUBSET Hash
    PROVE  /\ StateAfter(p, m, old) \in State
           /\ StateAfter(p, m, old).sentHashes \subseteq state[p].sentHashes
  <1> DEFINE s == state[p]
             empty == m.changes = {} /\ ~m.document
             advanced == IF empty THEN s.sharedHeads
                         ELSE AdvanceHeads(old, Heads(graph'[p]), s.sharedHeads)
             known == m.heads \cap graph'[p]
             lost == m.heads = {}
             shared == IF known = m.heads THEN m.heads ELSE advanced \cup known
             last == IF lost THEN {} ELSE IF empty /\ m.heads = old THEN m.heads
                     ELSE s.lastSentHeads
             sent == IF lost THEN {} ELSE s.sentHashes \ Past(known)
  <1>1. s \in State
    BY DEF TypeOK
  <1>2. /\ m.heads \subseteq Hash /\ m.need \subseteq Hash /\ m.have \subseteq Have
        /\ m.caps \in BOOLEAN
    BY DEF Message
  <1>3. Heads(graph'[p]) \subseteq Hash
    BY DEF Heads
  <1>4. shared \subseteq Hash
    BY <1>1, <1>2, <1>3 DEF AdvanceHeads, State
  <1>5. last \subseteq Hash
    BY <1>1, <1>2 DEF State
  <1>6. sent \subseteq s.sentHashes /\ s.sentHashes \subseteq Hash
    BY <1>1 DEF State
  <1>7. s.haveResponded \in BOOLEAN /\ (s.supportsV2 \/ m.caps) \in BOOLEAN
    BY <1>1, <1>2 DEF State
  <1> DEFINE after == [sharedHeads |-> shared, lastSentHeads |-> last, heard |-> TRUE,
                       theirHeads |-> m.heads, theirNeed |-> m.need,
                       theirHave |-> m.have, sentHashes |-> sent, inFlight |-> FALSE,
                       haveResponded |-> s.haveResponded,
                       supportsV2 |-> s.supportsV2 \/ m.caps]
  <1>8. StateAfter(p, m, old) = after
    BY DEF StateAfter
  <1> HIDE DEF shared, last, sent
  <1>9. after \in State /\ after.sentHashes = sent
    BY <1>2, <1>4, <1>5, <1>6, <1>7 DEF State
  <1> QED
    BY <1>6, <1>8, <1>9

LEMMA ReceivePreserves ==
    ASSUME IInv, NEW p \in Peer, Receive(p)
    PROVE  IInv'
  <1> DEFINE m == Head(wire[p])
             q == Other(p)
  <1>1. /\ Absorb(p, m.changes)
        /\ state' = [state EXCEPT ![p] = StateAfter(p, m, OurHeads(p))]
        /\ wire[p] # <<>>
        /\ wire' = [wire EXCEPT ![p] = Tail(@)]
        /\ UNCHANGED reconnects
    BY DEF Receive
  <1>2. /\ WireOK'
        /\ m \in Message
        /\ OnTheWay(p) = m.changes \cup OnTheWay(p)'
        /\ \A r \in Peer \ {p} : wire'[r] = wire[r]
    BY <1>1, ReceiveTakes
  <1> HIDE DEF m
  <1>3. m.changes \subseteq Hash
    BY <1>2 DEF Message
  <1>4. TypeOK
    BY DEF IInv
  <1>5. /\ graph' \in [Peer -> SUBSET Hash]
        /\ queue' \in [Peer -> SUBSET Hash]
        /\ graph'[p] \cup queue'[p] = graph[p] \cup queue[p] \cup m.changes
        /\ \A r \in Peer \ {p} : graph'[r] = graph[r] /\ queue'[r] = queue[r]
    BY <1>1, <1>3, <1>4, AbsorbKeeps
  <1>6. OurHeads(p) \subseteq Hash
    BY <1>4 DEF TypeOK, OurHeads, Heads
  <1>7. /\ StateAfter(p, m, OurHeads(p)) \in State
        /\ StateAfter(p, m, OurHeads(p)).sentHashes \subseteq state[p].sentHashes
    BY <1>2, <1>4, <1>5, <1>6, StateAfterTyped
  <1> DEFINE after == StateAfter(p, m, OurHeads(p))
  <1> HIDE DEF after
  <1>8. /\ state' \in [Peer -> State]
        /\ state'[p].sentHashes \subseteq state[p].sentHashes
        /\ \A r \in Peer \ {p} : state'[r] = state[r]
    BY <1>1, <1>4, <1>7 DEF TypeOK, after
  <1>9. TypeOK'
    <2>1. \A r \in Peer : \A i \in 1 .. Len(wire'[r]) : wire'[r][i] \in Message
      BY <1>2 DEF WireOK
    <2> QED
      BY <2>1, <1>1, <1>4, <1>5, <1>8 DEF TypeOK
  <1>10. SentIsNotLost'
    <2> SUFFICES ASSUME NEW r \in Peer
                 PROVE  state'[r].sentHashes \subseteq
                            graph'[Other(r)] \cup queue'[Other(r)] \cup OnTheWay(Other(r))'
      BY DEF SentIsNotLost
    <2>1. state'[r].sentHashes \subseteq
              graph[Other(r)] \cup queue[Other(r)] \cup OnTheWay(Other(r))
      BY <1>8 DEF IInv, SentIsNotLost
    <2>2. CASE r = p
      <3>1. q \in Peer \ {p}
        BY TwoPeers
      <3>2. OnTheWay(q)' = OnTheWay(q)
        BY <1>2, <3>1 DEF OnTheWay
      <3> QED
        BY <2>1, <2>2, <1>5, <3>1, <3>2
    <2>3. CASE r # p
      <3>1. Other(r) = p
        BY <2>3, TwoPeers
      <3> QED
        BY <2>1, <3>1, <1>2, <1>5
    <2> QED
      BY <2>2, <2>3
  <1> QED
    BY <1>2, <1>9, <1>10 DEF IInv

\* A commit, or a change from outside.
LEMMA LearnPreserves ==
    ASSUME IInv, NEW p \in Peer, NEW h \in Hash, Learn(p, h)
    PROVE  IInv'
  <1>1. Absorb(p, {h}) /\ UNCHANGED <<state, wire, reconnects>>
    BY DEF Learn
  <1>2. TypeOK
    BY DEF IInv
  <1>3. /\ graph' \in [Peer -> SUBSET Hash]
        /\ queue' \in [Peer -> SUBSET Hash]
        /\ graph'[p] \cup queue'[p] = graph[p] \cup queue[p] \cup {h}
        /\ \A r \in Peer \ {p} : graph'[r] = graph[r] /\ queue'[r] = queue[r]
    BY <1>1, <1>2, AbsorbKeeps
  <1>4. TypeOK' /\ WireOK'
    BY <1>1, <1>3 DEF IInv, TypeOK, WireOK
  <1>5. \A r \in Peer : graph[r] \cup queue[r] \subseteq graph'[r] \cup queue'[r]
    BY <1>3
  <1>6. \A r \in Peer : OnTheWay(r)' = OnTheWay(r)
    BY <1>1 DEF OnTheWay
  <1>7. SentIsNotLost'
    BY <1>1, <1>5, <1>6, TwoPeers DEF IInv, SentIsNotLost
  <1> QED
    BY <1>4, <1>7 DEF IInv

\* A new session starts with nothing put down as sent.
LEMMA ReconnectPreserves ==
    ASSUME IInv, Reconnect
    PROVE  IInv'
  <1>1. /\ wire' = [p \in Peer |-> <<>>]
        /\ reconnects < MaxReconnect /\ reconnects' = reconnects + 1
    BY DEF Reconnect
  <1>2. PICK known \in SUBSET Peer :
            state' = [p \in Peer |-> NewState(IF p \in known THEN state[p].sharedHeads ELSE {})]
    BY DEF Reconnect
  <1>3. /\ graph' \in [Peer -> SUBSET Hash]
        /\ queue' \in [Peer -> SUBSET Hash]
    BY DEF IInv, TypeOK, Reconnect
  <1>4. \A S \in SUBSET Hash : NewState(S) \in State /\ NewState(S).sentHashes = {}
    BY DEF NewState, State
  <1>5. \A p \in Peer : (IF p \in known THEN state[p].sharedHeads ELSE {}) \in SUBSET Hash
    BY DEF IInv, TypeOK, State
  <1>6. /\ state' \in [Peer -> State]
        /\ \A p \in Peer : state'[p].sentHashes = {}
    BY <1>2, <1>4, <1>5
  <1>7. reconnects' \in 0 .. MaxReconnect
    BY <1>1, SyncAssumption DEF IInv, TypeOK
  <1>8. WireOK'
    BY <1>1 DEF WireOK
  <1>9. TypeOK'
    <2>1. \A r \in Peer : \A i \in 1 .. Len(wire'[r]) : wire'[r][i] \in Message
      BY <1>8 DEF WireOK
    <2> QED
      BY <2>1, <1>3, <1>6, <1>7 DEF TypeOK
  <1>10. SentIsNotLost'
    BY <1>6 DEF SentIsNotLost
  <1> QED
    BY <1>8, <1>9, <1>10 DEF IInv

LEMMA InitIInv ==
    ASSUME Init
    PROVE  IInv
  <1>1. WireOK
    BY DEF Init, WireOK
  <1>2. NewState({}) \in State /\ NewState({}).sentHashes = {}
    BY DEF NewState, State
  <1>3. \A p \in Peer : state[p] = NewState({})
    BY DEF Init
  <1>4. TypeOK
    <2>1. \A p \in Peer : \A i \in 1 .. Len(wire[p]) : wire[p][i] \in Message
      BY <1>1 DEF WireOK
    <2>2. reconnects \in 0 .. MaxReconnect
      BY SyncAssumption DEF Init
    <2> QED
      BY <2>1, <2>2, <1>2 DEF Init, TypeOK
  <1>5. SentIsNotLost
    BY <1>2, <1>3 DEF SentIsNotLost
  <1> QED
    BY <1>1, <1>4, <1>5 DEF IInv

\* No step breaks the invariant.
LEMMA StepPreserves ==
    ASSUME IInv, [Next]_vars
    PROVE  IInv'
  <1>1. CASE UNCHANGED vars
    <2>1. UNCHANGED <<graph, queue, state, wire, reconnects>>
      BY <1>1 DEF vars
    <2> QED
      BY <2>1 DEF IInv, TypeOK, WireOK, SentIsNotLost, OnTheWay
  <1>2. ASSUME NEW p \in Peer, GenerateReset(p)
        PROVE  IInv'
    BY <1>2, GenerateResetPreserves
  <1>3. ASSUME NEW p \in Peer, Generate(p)
        PROVE  IInv'
    BY <1>3, GeneratePreserves
  <1>4. ASSUME NEW p \in Peer, Receive(p)
        PROVE  IInv'
    BY <1>4, ReceivePreserves
  <1>5. ASSUME NEW p \in Peer, NEW h \in Hash, Learn(p, h)
        PROVE  IInv'
    BY <1>5, LearnPreserves
  <1>6. CASE Reconnect
    BY <1>6, ReconnectPreserves
  <1> QED
    BY <1>1, <1>2, <1>3, <1>4, <1>5, <1>6 DEF Next

\* The invariant of every state: queues of messages, and what was sent.
THEOREM ProtocolInvariant == Spec => []IInv
  <1>1. Init => IInv
    BY InitIInv
  <1>2. IInv /\ [Next]_vars => IInv'
    BY StepPreserves
  <1> QED
    BY <1>1, <1>2, PTL DEF Spec

\* Every variable keeps its type, with any number of messages under way.
THEOREM ProtocolTyped == Spec => []TypeOK
  <1>1. IInv => TypeOK
    BY DEF IInv
  <1> QED
    BY <1>1, ProtocolInvariant, PTL

\* sent_hashes never holds a change back: the other peer has it, queues it or
\* is about to receive it, also across reconnects that lose changes.
THEOREM SentNeverLost == Spec => []SentIsNotLost
  <1>1. IInv => SentIsNotLost
    BY DEF IInv
  <1> QED
    BY <1>1, ProtocolInvariant, PTL

-----------------------------------------------------------------------------
(* In order and without lost changes *)

\* Changes arrive from outside after their dependencies, and no peer comes
\* back with an older document.
Orderly == ~OutOfOrder /\ ~MayLoseData

\* A document holds the dependencies of its changes.
GraphsClosed == \A p \in Peer : Closed(graph[p])

\* What waits for its dependencies came from the other peer.
QueuedIsHeld == \A p \in Peer : queue[p] \subseteq graph[Other(p)]

\* A message names heads its sender holds and brings nothing unheard of.
MessagesHonest ==
    \A p \in Peer : \A i \in 1 .. Len(wire[p]) :
        /\ wire[p][i].heads \subseteq graph[Other(p)]
        /\ wire[p][i].changes \subseteq graph[p] \cup graph[Other(p)]

OrderlyInv ==
    /\ GraphsClosed
    /\ QueuedIsHeld
    /\ MessagesHonest
    /\ SharedHeadsAreShared

\* A changed document is still closed.
LEMMA AbsorbCloses ==
    ASSUME TypeOK, GraphsClosed, NEW p \in Peer, NEW B \in SUBSET Hash, Absorb(p, B)
    PROVE  GraphsClosed'
  <1> DEFINE G == graph[p]
             P == (queue[p] \cup B) \ G
             new == Ready(G, P)
  <1>1. /\ graph \in [Peer -> SUBSET Hash]
        /\ graph' = [graph EXCEPT ![p] = @ \cup new]
    BY DEF Absorb, TypeOK
  <1>2. \A h \in new : Deps[h] \subseteq G \cup new
    BY DEF Ready
  <1>3. \A h \in G : Deps[h] \subseteq G
    BY DEF GraphsClosed, Closed, DepsOf
  <1> HIDE DEF new
  <1>4. Closed(G \cup new)
    BY <1>2, <1>3 DEF Closed, DepsOf
  <1>5. graph'[p] = G \cup new /\ \A q \in Peer \ {p} : graph'[q] = graph[q]
    BY <1>1
  <1> QED
    BY <1>4, <1>5 DEF GraphsClosed

\* Growing documents keep what is said of queues and messages.
LEMMA GrowingKeeps ==
    ASSUME IInv, OrderlyInv, graph' \in [Peer -> SUBSET Hash],
           \A p \in Peer : graph[p] \subseteq graph'[p]
    PROVE  /\ \A p \in Peer : queue[p] \subseteq graph'[Other(p)]
           /\ \A p \in Peer : \A i \in 1 .. Len(wire[p]) :
                  /\ wire[p][i].heads \subseteq graph'[Other(p)]
                  /\ wire[p][i].changes \subseteq graph'[p] \cup graph'[Other(p)]
           /\ \A p, q \in Peer : state[p].sharedHeads \subseteq graph'[q]
  <1>1. \A p \in Peer : Other(p) \in Peer
    BY TwoPeers
  <1> QED
    BY <1>1 DEF OrderlyInv, QueuedIsHeld, MessagesHonest, SharedHeadsAreShared

\* One more message of p that is honest.
LEMMA SendHonest ==
    ASSUME IInv, MessagesHonest, NEW p \in Peer, NEW m \in Message, Send(p, m),
           m.heads \subseteq graph[p], m.changes \subseteq graph[p] \cup graph[Other(p)],
           UNCHANGED graph
    PROVE  MessagesHonest'
  <1> DEFINE q == Other(p)
  <1>1. /\ wire'[q] = Append(wire[q], m)
        /\ wire'[p] = wire[p]
        /\ q \in Peer /\ q # p /\ Other(q) = p
        /\ \A r \in Peer : r = p \/ r = q
    BY SendAppends, TwoPeers
  <1>2. wire[q] \in Seq(Message)
    BY <1>1 DEF IInv, WireOK
  <1> HIDE DEF q
  <1>3. \A i \in 1 .. Len(wire'[q]) :
            wire'[q][i] = m \/ (i \in 1 .. Len(wire[q]) /\ wire'[q][i] = wire[q][i])
    BY <1>1, <1>2
  <1> SUFFICES ASSUME NEW r \in Peer, NEW i \in 1 .. Len(wire'[r])
               PROVE  /\ wire'[r][i].heads \subseteq graph[Other(r)]
                      /\ wire'[r][i].changes \subseteq graph[r] \cup graph[Other(r)]
    BY DEF MessagesHonest
  <1>4. CASE r = p
    BY <1>1, <1>4 DEF MessagesHonest
  <1>5. CASE r = q /\ wire'[q][i] = m
    BY <1>1, <1>5 DEF q
  <1>6. CASE r = q /\ wire'[q][i] # m
    BY <1>1, <1>3, <1>6 DEF MessagesHonest
  <1> QED
    BY <1>1, <1>4, <1>5, <1>6

LEMMA GenerateResetOrderly ==
    ASSUME IInv, OrderlyInv, NEW p \in Peer, GenerateReset(p)
    PROVE  OrderlyInv'
  <1> DEFINE m == [heads |-> OurHeads(p), need |-> {},
                   have |-> {[lastSync |-> {}, bloom |-> {}]},
                   changes |-> {}, document |-> FALSE, caps |-> TRUE]
  <1>1. m \in Message
    BY DEF IInv, TypeOK, Message, Have, OurHeads, Heads
  <1>2. Send(p, m) /\ UNCHANGED <<graph, queue, state>>
    BY DEF GenerateReset
  <1>3. m.changes = {} /\ m.heads \subseteq graph[p]
    BY DEF OurHeads, Heads
  <1> HIDE DEF m
  <1>4. MessagesHonest'
    BY <1>1, <1>2, <1>3, SendHonest DEF OrderlyInv
  <1> QED
    BY <1>2, <1>4 DEF OrderlyInv, GraphsClosed, QueuedIsHeld, SharedHeadsAreShared

LEMMA GenerateOrderly ==
    ASSUME IInv, IInv', OrderlyInv, NEW p \in Peer, Generate(p)
    PROVE  OrderlyInv'
  <1>1. SentHashes(p) \subseteq graph[p] /\ queue[p] \subseteq graph[Other(p)]
    BY DEF Generate, Speaks, ChangesFound, OrderlyInv, QueuedIsHeld
  <1>2. PICK falsely \in SUBSET FalsePositive :
            Send(p, [heads |-> OurHeads(p), need |-> OurNeed(p),
                     have |-> OurHave(p, falsely),
                     changes |-> IF SendsDocument(p) THEN graph[p] \cup queue[p]
                                                     ELSE SentHashes(p),
                     document |-> SendsDocument(p),
                     caps |-> ~state[p].haveResponded])
    BY DEF Generate
  <1> DEFINE m == [heads |-> OurHeads(p), need |-> OurNeed(p),
                   have |-> OurHave(p, falsely),
                   changes |-> IF SendsDocument(p) THEN graph[p] \cup queue[p]
                                                   ELSE SentHashes(p),
                   document |-> SendsDocument(p),
                   caps |-> ~state[p].haveResponded]
             q == Other(p)
  <1>3. /\ m.heads \subseteq graph[p]
        /\ m.changes \subseteq graph[p] \cup graph[q]
    BY <1>1 DEF OurHeads, Heads
  <1>4. Send(p, m)
    BY <1>2
  <1> HIDE DEF m
  <1>5. m \in Message
    <2>1. wire' = [wire EXCEPT ![q] = Append(wire[q], m)]
      BY <1>4 DEF Send
    <2>2. q \in Peer /\ wire \in [Peer -> Seq(Message)] /\ wire' \in [Peer -> Seq(Message)]
      BY TwoPeers DEF IInv, WireOK
    <2> HIDE DEF q
    <2>3. wire'[q] = Append(wire[q], m) /\ wire'[q] \in Seq(Message) /\ wire[q] \in Seq(Message)
      BY <2>1, <2>2
    <2>4. wire'[q][Len(wire[q]) + 1] = m /\ Len(wire'[q]) = Len(wire[q]) + 1
      BY <2>3
    <2> QED
      BY <2>3, <2>4
  <1>6. UNCHANGED <<graph, queue>>
    BY DEF Generate
  <1>7. MessagesHonest'
    BY <1>3, <1>4, <1>5, <1>6, SendHonest DEF OrderlyInv
  <1>8. \A r \in Peer : state'[r].sharedHeads = state[r].sharedHeads
    BY DEF Generate, IInv, TypeOK, State
  <1> QED
    BY <1>6, <1>7, <1>8 DEF OrderlyInv, GraphsClosed, QueuedIsHeld, SharedHeadsAreShared

\* shared_heads after a message: old shared heads, heads that became maximal
\* with the changes of the message, and heads of the other peer that are
\* known here; each of them is a change both hold.
LEMMA AdvancedIsShared ==
    ASSUME NEW p \in Peer, NEW m \in Message, NEW G,
           graph[p] \subseteq graph'[p], graph'[p] \ graph[p] \subseteq G,
           m.heads \subseteq G,
           state[p].sharedHeads \subseteq graph[p] \cap G
    PROVE  StateAfter(p, m, OurHeads(p)).sharedHeads \subseteq graph'[p] \cap G
  <1> DEFINE shared == state[p].sharedHeads
             empty == m.changes = {} /\ ~m.document
             new == Heads(graph'[p])
             old == Heads(graph[p])
             advanced == IF empty THEN shared ELSE AdvanceHeads(old, new, shared)
             known == m.heads \cap graph'[p]
  <1>1. new \ old \subseteq graph'[p] \cap G
    BY DEF Heads, DepsOf
  <1>2. advanced \subseteq graph'[p] \cap G
    <2>1. shared \subseteq graph'[p] \cap G
      OBVIOUS
    <2> HIDE DEF shared, new, old, empty
    <2> QED
      BY <1>1, <2>1 DEF AdvanceHeads
  <1>3. StateAfter(p, m, OurHeads(p)).sharedHeads
            = IF known = m.heads THEN m.heads ELSE advanced \cup known
    BY DEF StateAfter, OurHeads
  <1> HIDE DEF advanced
  <1> QED
    BY <1>2, <1>3

\* Receiving applies what one of the two peers holds already.
LEMMA ReceiveOrderly ==
    ASSUME IInv, OrderlyInv, NEW p \in Peer, Receive(p)
    PROVE  OrderlyInv'
  <1> DEFINE m == Head(wire[p])
             q == Other(p)
             after == StateAfter(p, m, OurHeads(p))
  <1>1. /\ Absorb(p, m.changes)
        /\ state' = [state EXCEPT ![p] = after]
        /\ wire[p] # <<>>
        /\ wire' = [wire EXCEPT ![p] = Tail(@)]
    BY DEF Receive
  <1>2. TypeOK
    BY DEF IInv
  <1>3. /\ m \in Message
        /\ q \in Peer /\ q # p /\ Other(q) = p
        /\ \A r \in Peer : r = p \/ r = q
    BY <1>1, ReceiveTakes, TwoPeers
  <1>4. /\ wire[p] \in Seq(Message)
        /\ wire \in [Peer -> Seq(Message)]
    BY DEF IInv, WireOK
  <1>5. /\ Len(wire[p]) \in Nat /\ Len(wire[p]) >= 1 /\ m = wire[p][1]
        /\ Len(wire'[p]) = Len(wire[p]) - 1
        /\ \A i \in 1 .. Len(wire[p]) - 1 : wire'[p][i] = wire[p][i + 1]
        /\ wire'[q] = wire[q]
    BY <1>1, <1>3, <1>4
  <1>6. m.heads \subseteq graph[q] /\ m.changes \subseteq graph[p] \cup graph[q]
    BY <1>5 DEF OrderlyInv, MessagesHonest
  <1> HIDE DEF m, q, after
  <1>7. m.changes \subseteq Hash
    BY <1>3 DEF Message
  <1>8. /\ graph' \in [Peer -> SUBSET Hash]
        /\ graph[p] \subseteq graph'[p]
        /\ graph'[p] \ graph[p] \subseteq queue[p] \cup m.changes
        /\ queue'[p] \subseteq queue[p] \cup m.changes
        /\ graph'[q] = graph[q] /\ queue'[q] = queue[q]
    BY <1>1, <1>2, <1>3, <1>7, AbsorbKeeps
  <1>9. queue[p] \subseteq graph[q]
    BY DEF OrderlyInv, QueuedIsHeld, q
  <1>10. \A r \in Peer : graph[r] \subseteq graph'[r]
    BY <1>3, <1>8
  <1>11. /\ queue[q] \subseteq graph'[p]
         /\ \A r \in Peer : \A i \in 1 .. Len(wire[r]) :
                /\ wire[r][i].heads \subseteq graph'[Other(r)]
                /\ wire[r][i].changes \subseteq graph'[r] \cup graph'[Other(r)]
         /\ \A r, o \in Peer : state[r].sharedHeads \subseteq graph'[o]
    BY <1>3, <1>8, <1>10, GrowingKeeps
  <1>12. GraphsClosed'
    BY <1>1, <1>2, <1>7, AbsorbCloses DEF OrderlyInv
  <1>13. QueuedIsHeld'
    <2>1. queue'[p] \subseteq graph'[q]
      <3>1. queue'[p] \subseteq (queue[p] \cup m.changes) \ graph[p]
        BY <1>1, <1>2 DEF Absorb, TypeOK
      <3> QED
        BY <3>1, <1>6, <1>8, <1>9
    <2>2. queue'[q] \subseteq graph'[p]
      BY <1>8, <1>11
    <2> QED
      BY <2>1, <2>2, <1>3 DEF QueuedIsHeld, q
  <1>14. MessagesHonest'
    <2> SUFFICES ASSUME NEW r \in Peer, NEW i \in 1 .. Len(wire'[r])
                 PROVE  \E j \in 1 .. Len(wire[r]) : wire'[r][i] = wire[r][j]
      BY <1>11 DEF MessagesHonest
    <2>1. CASE r = p
      <3>1. i + 1 \in 1 .. Len(wire[p]) /\ i \in 1 .. Len(wire[p]) - 1
        BY <1>5, <2>1
      <3> QED
        BY <3>1, <2>1, <1>5
    <2>2. CASE r = q
      BY <2>2, <1>5
    <2> QED
      BY <2>1, <2>2, <1>3
  <1>15. SharedHeadsAreShared'
    <2>1. state[p].sharedHeads \subseteq graph[p] \cap graph[q]
      BY <1>3 DEF OrderlyInv, SharedHeadsAreShared
    <2>2. after.sharedHeads \subseteq graph'[p] \cap graph[q]
      BY <2>1, <1>3, <1>6, <1>8, <1>9, AdvancedIsShared DEF after
    <2>3. /\ state'[p] = after
          /\ state'[q] = state[q]
      BY <1>1, <1>2, <1>3 DEF TypeOK
    <2> SUFFICES ASSUME NEW r \in Peer, NEW o \in Peer
                 PROVE  state'[r].sharedHeads \subseteq graph'[o]
      BY DEF SharedHeadsAreShared
    <2>4. CASE r = p
      BY <2>2, <2>3, <2>4, <1>3, <1>8
    <2>5. CASE r = q
      BY <2>3, <2>5, <1>11
    <2> QED
      BY <2>4, <2>5, <1>3
  <1> QED
    BY <1>12, <1>13, <1>14, <1>15 DEF OrderlyInv

\* A change that arrives after its dependencies is not queued.
LEMMA LearnOrderly ==
    ASSUME IInv, OrderlyInv, Orderly, NEW p \in Peer, NEW h \in Hash, Learn(p, h)
    PROVE  OrderlyInv'
  <1>1. /\ Absorb(p, {h})
        /\ Deps[h] \subseteq graph[p]
        /\ h \notin graph[p]
        /\ UNCHANGED <<state, wire>>
    BY DEF Learn, Orderly
  <1>2. TypeOK
    BY DEF IInv
  <1>3. /\ graph' \in [Peer -> SUBSET Hash]
        /\ graph[p] \subseteq graph'[p]
        /\ \A r \in Peer \ {p} : graph'[r] = graph[r] /\ queue'[r] = queue[r]
    BY <1>1, <1>2, AbsorbKeeps
  <1>4. \A r \in Peer : graph[r] \subseteq graph'[r]
    BY <1>3
  <1>5. queue'[p] \subseteq queue[p]
    <2> DEFINE P == (queue[p] \cup {h}) \ graph[p]
               new == Ready(graph[p], P)
    <2>1. queue'[p] = P \ new
      BY <1>2 DEF Absorb, TypeOK, Learn
    <2>2. {h} \in {S \in SUBSET P : \A g \in S : Deps[g] \subseteq graph[p] \cup S}
      BY <1>1
    <2>3. h \in new
      BY <2>2 DEF Ready
    <2> HIDE DEF new
    <2> QED
      BY <2>1, <2>3
  <1>6. \A r \in Peer : queue'[r] \subseteq queue[r]
    BY <1>3, <1>5
  <1>7. GraphsClosed'
    BY <1>1, <1>2, AbsorbCloses DEF OrderlyInv
  <1>8. /\ QueuedIsHeld'
        /\ MessagesHonest'
        /\ SharedHeadsAreShared'
    BY <1>1, <1>3, <1>4, <1>6, GrowingKeeps
    DEF QueuedIsHeld, MessagesHonest, SharedHeadsAreShared
  <1> QED
    BY <1>7, <1>8 DEF OrderlyInv

\* A new session starts from shared heads of the last one, or from none.
LEMMA ReconnectOrderly ==
    ASSUME IInv, OrderlyInv, Orderly, Reconnect
    PROVE  OrderlyInv'
  <1>1. /\ UNCHANGED <<graph, queue>>
        /\ wire' = [p \in Peer |-> <<>>]
    BY DEF Reconnect, Orderly
  <1>2. PICK known \in SUBSET Peer :
            state' = [p \in Peer |-> NewState(IF p \in known THEN state[p].sharedHeads ELSE {})]
    BY DEF Reconnect
  <1>3. \A S : NewState(S).sharedHeads = S
    BY DEF NewState
  <1>4. \A p \in Peer : state'[p].sharedHeads \subseteq state[p].sharedHeads
    BY <1>2, <1>3
  <1>5. SharedHeadsAreShared'
    BY <1>1, <1>4 DEF OrderlyInv, SharedHeadsAreShared
  <1>6. MessagesHonest'
    BY <1>1 DEF MessagesHonest
  <1> QED
    BY <1>1, <1>5, <1>6 DEF OrderlyInv, GraphsClosed, QueuedIsHeld

LEMMA InitOrderly ==
    ASSUME Init
    PROVE  OrderlyInv
  <1>1. NewState({}).sharedHeads = {}
    BY DEF NewState
  <1> QED
    BY <1>1
    DEF Init, OrderlyInv, GraphsClosed, QueuedIsHeld, MessagesHonest,
        SharedHeadsAreShared, Closed, DepsOf

LEMMA StepOrderly ==
    ASSUME IInv, OrderlyInv, Orderly, [Next]_vars
    PROVE  OrderlyInv'
  <1>1. CASE UNCHANGED vars
    <2>1. UNCHANGED <<graph, queue, state, wire>>
      BY <1>1 DEF vars
    <2> QED
      BY <2>1
      DEF OrderlyInv, GraphsClosed, QueuedIsHeld, MessagesHonest, SharedHeadsAreShared
  <1>2. ASSUME NEW p \in Peer, GenerateReset(p)
        PROVE  OrderlyInv'
    BY <1>2, GenerateResetOrderly
  <1>3. ASSUME NEW p \in Peer, Generate(p)
        PROVE  OrderlyInv'
    BY <1>3, StepPreserves, GenerateOrderly
  <1>4. ASSUME NEW p \in Peer, Receive(p)
        PROVE  OrderlyInv'
    BY <1>4, ReceiveOrderly
  <1>5. ASSUME NEW p \in Peer, NEW h \in Hash, Learn(p, h)
        PROVE  OrderlyInv'
    BY <1>5, LearnOrderly
  <1>6. CASE Reconnect
    BY <1>6, ReconnectOrderly
  <1> QED
    BY <1>1, <1>2, <1>3, <1>4, <1>5, <1>6 DEF Next

\* What both peers know of each other is true as long as changes arrive in
\* order and none are lost.
THEOREM OrderlyInvariant == Orderly => (Spec => []OrderlyInv)
  <1> SUFFICES ASSUME Orderly
               PROVE  Spec => []OrderlyInv
    OBVIOUS
  <1>1. Init => OrderlyInv
    BY InitOrderly
  <1>2. IInv /\ OrderlyInv /\ [Next]_vars => OrderlyInv'
    BY StepOrderly
  <1> QED
    BY <1>1, <1>2, ProtocolInvariant, PTL DEF Spec

\* shared_heads are hashes both peers have, whatever the Bloom filters claim.
THEOREM SharedHeadsStayShared == Orderly => (Spec => []SharedHeadsAreShared)
  <1> SUFFICES ASSUME Orderly
               PROVE  Spec => []SharedHeadsAreShared
    OBVIOUS
  <1>1. OrderlyInv => SharedHeadsAreShared
    BY DEF OrderlyInv
  <1> QED
    BY <1>1, OrderlyInvariant, PTL

-----------------------------------------------------------------------------
(* The safety part of ImplementsExchange *)

\* Exchange without its fairness.
ExchangeSafety == Exchanged!Init /\ [][Exchanged!Next]_graph

\* Both modules mean the same closed sets.
LEMMA ClosedIsClosed ==
    ASSUME NEW S
    PROVE  Closed(S) <=> Exchanged!Closed(S)
  BY DEF Closed, DepsOf, Exchanged!Closed

\* A document takes over changes that are known or come from outside.
LEMMA AbsorbGrows ==
    ASSUME IInv, OrderlyInv, NEW p \in Peer, NEW B \in SUBSET Hash, Absorb(p, B),
           queue[p] \cup B \subseteq Local[p] \cup graph[p] \cup graph[Other(p)]
    PROVE  [Exchanged!Next]_graph
  <1> DEFINE P == (queue[p] \cup B) \ graph[p]
             new == Ready(graph[p], P)
  <1>1. /\ graph \in [Peer -> SUBSET Hash]
        /\ graph' = [graph EXCEPT ![p] = @ \cup new]
        /\ new \subseteq P
    BY DEF Absorb, Ready, IInv, TypeOK
  <1>2. GraphsClosed'
    BY AbsorbCloses DEF IInv, OrderlyInv
  <1> HIDE DEF new
  <1>3. CASE new = {}
    BY <1>1, <1>3
  <1>4. CASE new # {}
    <2>1. graph'[p] = graph[p] \cup new
      BY <1>1
    <2>2. Exchanged!Closed(graph[p] \cup new)
      BY <1>2, <2>1, ClosedIsClosed DEF GraphsClosed
    <2>3. Exchanged!Grow(p, new)
      BY <1>1, <1>4, <2>2 DEF Exchanged!Grow
    <2>4. new \subseteq Local[p] \cup Exchanged!Known
      BY <1>1, TwoPeers DEF Exchanged!Known
    <2> QED
      BY <2>3, <2>4 DEF Exchanged!Next, Exchanged!Learn
  <1> QED
    BY <1>3, <1>4

LEMMA StepExchanges ==
    ASSUME IInv, OrderlyInv, Orderly, [Next]_vars
    PROVE  [Exchanged!Next]_graph
  <1>1. CASE UNCHANGED vars
    BY <1>1 DEF vars
  <1>2. ASSUME NEW p \in Peer, GenerateReset(p) \/ Generate(p)
        PROVE  UNCHANGED graph
    BY <1>2 DEF GenerateReset, Generate
  <1>3. ASSUME NEW p \in Peer, Receive(p)
        PROVE  [Exchanged!Next]_graph
    <2>1. Absorb(p, Head(wire[p]).changes) /\ wire[p] # <<>>
      BY <1>3 DEF Receive
    <2>2. Head(wire[p]) \in Message /\ Head(wire[p]) = wire[p][1] /\ 1 \in 1 .. Len(wire[p])
      <3>1. wire[p] \in Seq(Message)
        BY DEF IInv, WireOK
      <3> QED
        BY <2>1, <3>1
    <2>3. Head(wire[p]).changes \subseteq Hash
      BY <2>2 DEF Message
    <2>4. queue[p] \cup Head(wire[p]).changes \subseteq graph[p] \cup graph[Other(p)]
      BY <2>2 DEF OrderlyInv, QueuedIsHeld, MessagesHonest
    <2> QED
      BY <2>1, <2>3, <2>4, AbsorbGrows
  <1>4. ASSUME NEW p \in Peer, NEW h \in Hash, Learn(p, h)
        PROVE  [Exchanged!Next]_graph
    <2>1. Absorb(p, {h}) /\ h \in Local[p]
      BY <1>4 DEF Learn
    <2>2. queue[p] \cup {h} \subseteq Local[p] \cup graph[p] \cup graph[Other(p)]
      BY <2>1 DEF OrderlyInv, QueuedIsHeld
    <2> QED
      BY <2>1, <2>2, AbsorbGrows
  <1>5. CASE Reconnect
    BY <1>5 DEF Reconnect, Orderly
  <1> QED
    BY <1>1, <1>2, <1>3, <1>4, <1>5 DEF Next

\* Every step of the protocol is a step of Exchange or changes no document:
\* documents stay closed, only grow, and only by what the other one holds or
\* what comes from outside.
THEOREM ProtocolExchanges == Orderly => (Spec => ExchangeSafety)
  <1> SUFFICES ASSUME Orderly
               PROVE  Spec => ExchangeSafety
    OBVIOUS
  <1>1. Init => Exchanged!Init
    <2> SUFFICES ASSUME Init
                 PROVE  Exchanged!Init
      OBVIOUS
    <2>1. Exchanged!Closed({})
      BY DEF Exchanged!Closed
    <2> QED
      BY <2>1 DEF Init, Exchanged!Init
  <1>2. IInv /\ OrderlyInv /\ [Next]_vars => [Exchanged!Next]_graph
    BY StepExchanges
  <1> QED
    BY <1>1, <1>2, ProtocolInvariant, OrderlyInvariant, PTL DEF Spec, ExchangeSafety

-----------------------------------------------------------------------------
(* Silence: when neither peer has anything left to say, both hold the same  *)
(* changes, for every graph of changes that arrive in order, any false     *)
(* positives of the Bloom filters and any number of reconnects.            *)

\* The changes of both documents.
Held == UNION {graph[p] : p \in Peer}

\* No change depends on itself through others: sets of changes have heads.
HeadsExist == \A S \in SUBSET Held : S # {} => Heads(S) # {}

\* What a message asks for, or refers to, is in the document G.
Answerable(G, m) ==
    /\ m.need \subseteq G
    /\ \A have \in m.have : have.lastSync \subseteq G

\* So is what p remembers of the other peer, whose heads are its own.
RemembersTruly(p) ==
    /\ state[p].theirHeads \subseteq graph[Other(p)]
    /\ state[p].theirNeed \subseteq graph[p]
    /\ \A have \in state[p].theirHave : have.lastSync \subseteq graph[p]

RequestsKnown ==
    \A p \in Peer :
        /\ RemembersTruly(p)
        /\ \A i \in 1 .. Len(wire[p]) : Answerable(graph[p], wire[p][i])

\* While p waits for an answer, its last message is under way, or the other
\* peer has it and p's answer may be under way or still has to come.
Awaits(p) ==
    IF wire[Other(p)] # <<>>
    THEN wire[Other(p)][Len(wire[Other(p)])].heads = state[p].lastSentHeads
    ELSE \/ wire[p] # <<>>
         \/ /\ ~state[Other(p)].inFlight
            /\ state[Other(p)].theirHeads = state[p].lastSentHeads

AnswerDue == \A p \in Peer : state[p].inFlight => Awaits(p)

SilenceInv ==
    /\ HeadsExist
    /\ RequestsKnown
    /\ AnswerDue

-----------------------------------------------------------------------------
(* A document is the past of its heads *)

\* An ancestor's ancestors are ancestors.
LEMMA AncestorsGrow ==
    ASSUME NEW k \in Hash, NEW l \in Hash, k \in Deps[l]
    PROVE  Ancestors[k] \subseteq Ancestors[l]
  <1> SUFFICES ASSUME NEW g \in Ancestors[k], NEW S \in SUBSET Hash, l \in S, Closed(S)
               PROVE  g \in S
    BY DEF Ancestors
  <1>1. k \in S
    BY DEF Closed, DepsOf
  <1> QED
    BY <1>1 DEF Ancestors

\* Each change of a closed set is an ancestor of one of its heads.
LEMMA ClosedIsPast ==
    ASSUME NEW G \in SUBSET Hash, Closed(G),
           \A S \in SUBSET G : S # {} => Heads(S) # {}
    PROVE  Past(Heads(G)) = G
  <1>1. \A h \in G : Ancestors[h] \subseteq G
    BY DEF Ancestors
  <1>2. Past(Heads(G)) \subseteq G
    BY <1>1 DEF Past, Heads
  <1>3. ASSUME NEW g \in G
        PROVE  g \in Past(Heads(G))
    <2> DEFINE S == {k \in G : g \in Ancestors[k]}
    <2>1. g \in S
      BY DEF Ancestors
    <2>2. PICK k \in S : k \notin DepsOf(S)
      BY <2>1 DEF Heads
    <2>3. k \notin DepsOf(G)
      <3> SUFFICES ASSUME NEW l \in G, k \in Deps[l]
                   PROVE  FALSE
        BY DEF DepsOf
      <3>1. g \in Ancestors[l]
        BY <2>2, AncestorsGrow
      <3>2. l \in S
        BY <3>1
      <3> QED
        BY <2>2, <3>2 DEF DepsOf
    <2> QED
      BY <2>2, <2>3 DEF Heads, Past
  <1> QED
    BY <1>2, <1>3

\* Documents with the same heads are the same.
LEMMA HeadsTell ==
    ASSUME IInv, OrderlyInv, HeadsExist, NEW p \in Peer
    PROVE  graph[p] = Past(OurHeads(p))
  <1>1. graph[p] \in SUBSET Hash /\ Closed(graph[p]) /\ graph[p] \subseteq Held
    BY DEF IInv, TypeOK, OrderlyInv, GraphsClosed, Held
  <1>2. \A S \in SUBSET graph[p] : S # {} => Heads(S) # {}
    BY <1>1 DEF HeadsExist
  <1> QED
    BY <1>1, <1>2, ClosedIsPast DEF OurHeads

\* All that a peer's heads stand for is in a document that holds them.
LEMMA HeadsBringPast ==
    ASSUME IInv, OrderlyInv, NEW p \in Peer, NEW H, H \subseteq graph[p]
    PROVE  Past(H) \subseteq graph[p]
  <1>1. graph[p] \in SUBSET Hash /\ Closed(graph[p])
    BY DEF IInv, TypeOK, OrderlyInv, GraphsClosed
  <1>2. \A h \in graph[p] : Ancestors[h] \subseteq graph[p]
    BY <1>1 DEF Ancestors
  <1> QED
    BY <1>2 DEF Past

-----------------------------------------------------------------------------
(* What silence means *)

\* A peer that knows what it is asked for never has to start over, and finds
\* the changes to send.
LEMMA SpeaksUnlessDone ==
    ASSUME RequestsKnown, NEW p \in Peer
    PROVE  /\ ~MustReset(p)
           /\ ~Speaks(p) => NothingToSay(p)
  <1>1. RemembersTruly(p)
    BY DEF RequestsKnown
  <1>2. ~MustReset(p)
    BY <1>1 DEF MustReset, RemembersTruly
  <1>3. HashesToSend(p) \subseteq graph[p]
    <2>1. state[p].theirNeed \subseteq graph[p]
      BY <1>1 DEF RemembersTruly
    <2>2. \A H : GetHashes(graph[p], H) \subseteq graph[p]
      BY DEF GetHashes
    <2>3. \A S, U : WithDependents(S, U) \subseteq S
      BY DEF WithDependents
    <2> QED
      BY <2>1, <2>2, <2>3 DEF HashesToSend
  <1>4. ChangesFound(p)
    BY <1>3 DEF ChangesFound, SentHashes
  <1> QED
    BY <1>2, <1>4 DEF Speaks

\* Nobody waits for a message that is not coming, so one side at least has
\* heard the other one's heads.
LEMMA SilenceIsAgreement ==
    ASSUME IInv, OrderlyInv, SilenceInv, Silent
    PROVE  \A p, q \in Peer : graph[p] = graph[q]
  <1> SUFFICES ASSUME NEW p \in Peer
               PROVE  graph[p] = graph[Other(p)]
    BY TwoPeers
  <1> DEFINE q == Other(p)
  <1>1. q \in Peer /\ Other(q) = p
    BY TwoPeers
  <1>2. \A r \in Peer : wire[r] = <<>> /\ NothingToSay(r) /\ RemembersTruly(r)
    BY SpeaksUnlessDone DEF SilenceInv, Silent, RequestsKnown
  <1>3. \A r \in Peer : graph[r] = Past(OurHeads(r))
    BY HeadsTell DEF SilenceInv
  <1>4. ASSUME NEW r \in Peer, state[r].inFlight
        PROVE  /\ ~state[Other(r)].inFlight
               /\ state[Other(r)].theirHeads = OurHeads(r)
    BY <1>2, <1>4, TwoPeers DEF SilenceInv, AnswerDue, Awaits, NothingToSay
  <1>5. ASSUME NEW r \in Peer, ~state[r].inFlight
        PROVE  state[r].theirHeads = OurHeads(r)
    BY <1>2, <1>5 DEF NothingToSay
  <1> HIDE DEF q
  <1>6. CASE state[p].inFlight
    <2>1. OurHeads(p) = OurHeads(q)
      BY <1>1, <1>4, <1>5, <1>6 DEF q
    <2> QED
      BY <1>1, <1>3, <2>1 DEF q
  <1>7. CASE state[q].inFlight
    <2>1. OurHeads(p) = OurHeads(q)
      BY <1>1, <1>4, <1>5, <1>7
    <2> QED
      BY <1>1, <1>3, <2>1 DEF q
  <1>8. CASE ~state[p].inFlight /\ ~state[q].inFlight
    <2>1. OurHeads(p) \subseteq graph[q] /\ OurHeads(q) \subseteq graph[p]
      BY <1>1, <1>2, <1>5, <1>8 DEF RemembersTruly, q
    <2>2. graph[p] \subseteq graph[q] /\ graph[q] \subseteq graph[p]
      BY <1>1, <1>3, <2>1, HeadsBringPast
    <2> QED
      BY <2>2 DEF q
  <1> QED
    BY <1>6, <1>7, <1>8

-----------------------------------------------------------------------------
(* Messages come and go *)

\* A message that is sent is the last one.
LEMMA SentIsLast ==
    ASSUME IInv, NEW p \in Peer, NEW m \in Message, Send(p, m)
    PROVE  /\ wire'[p] = wire[p]
           /\ wire'[Other(p)] # <<>>
           /\ wire'[Other(p)][Len(wire'[Other(p)])] = m
           /\ \A i \in 1 .. Len(wire'[Other(p)]) :
                  \/ wire'[Other(p)][i] = m
                  \/ \E j \in 1 .. Len(wire[Other(p)]) : wire'[Other(p)][i] = wire[Other(p)][j]
  <1> DEFINE q == Other(p)
  <1>1. wire'[q] = Append(wire[q], m) /\ wire'[p] = wire[p] /\ q \in Peer
    BY SendAppends, TwoPeers
  <1>2. wire[q] \in Seq(Message)
    BY <1>1 DEF IInv, WireOK
  <1> HIDE DEF q
  <1>3. /\ Len(wire[q]) \in Nat
        /\ Len(wire'[q]) = Len(wire[q]) + 1
        /\ wire'[q][Len(wire[q]) + 1] = m
        /\ \A i \in 1 .. Len(wire[q]) : wire'[q][i] = wire[q][i]
        /\ wire'[q] # <<>>
    BY <1>1, <1>2
  <1>4. \A i \in 1 .. Len(wire'[q]) : i = Len(wire[q]) + 1 \/ i \in 1 .. Len(wire[q])
    BY <1>3
  <1>5. \A i \in 1 .. Len(wire'[q]) :
            wire'[q][i] = m \/ \E j \in 1 .. Len(wire[q]) : wire'[q][i] = wire[q][j]
    BY <1>3, <1>4
  <1>6. wire'[q][Len(wire'[q])] = m
    BY <1>3
  <1>7. wire'[q] # <<>> /\ wire'[p] = wire[p]
    BY <1>1, <1>3
  <1> QED
    BY <1>5, <1>6, <1>7 DEF q

\* Only messages are on the way.
LEMMA SentIsTyped ==
    ASSUME IInv, IInv', NEW p \in Peer, NEW m, Send(p, m)
    PROVE  m \in Message
  <1> DEFINE q == Other(p)
  <1>1. /\ wire' = [wire EXCEPT ![q] = Append(wire[q], m)]
        /\ q \in Peer
        /\ wire \in [Peer -> Seq(Message)] /\ wire' \in [Peer -> Seq(Message)]
    BY TwoPeers DEF Send, IInv, WireOK
  <1> HIDE DEF q
  <1>2. wire'[q] = Append(wire[q], m) /\ wire'[q] \in Seq(Message) /\ wire[q] \in Seq(Message)
    BY <1>1
  <1>3. wire'[q][Len(wire[q]) + 1] = m /\ Len(wire'[q]) = Len(wire[q]) + 1
    BY <1>2
  <1> QED
    BY <1>2, <1>3

\* A message that is received was the first one.
LEMMA TakenWasFirst ==
    ASSUME IInv, NEW p \in Peer, wire[p] # <<>>, wire' = [wire EXCEPT ![p] = Tail(@)]
    PROVE  /\ \E j \in 1 .. Len(wire[p]) : Head(wire[p]) = wire[p][j]
           /\ \A i \in 1 .. Len(wire'[p]) :
                  \E j \in 1 .. Len(wire[p]) : wire'[p][i] = wire[p][j]
           /\ wire'[p] # <<>> => wire'[p][Len(wire'[p])] = wire[p][Len(wire[p])]
           /\ wire'[p] = <<>> => Head(wire[p]) = wire[p][Len(wire[p])]
           /\ wire'[Other(p)] = wire[Other(p)]
  <1>1. /\ wire \in [Peer -> Seq(Message)]
        /\ wire[p] \in Seq(Message)
        /\ Other(p) \in Peer \ {p}
    BY TwoPeers DEF IInv, WireOK
  <1>2. wire'[p] = Tail(wire[p]) /\ wire'[Other(p)] = wire[Other(p)]
    BY <1>1
  <1>3. /\ Head(wire[p]) = wire[p][1]
        /\ Len(wire[p]) \in Nat /\ Len(wire[p]) >= 1
        /\ Len(wire'[p]) = Len(wire[p]) - 1
        /\ \A i \in 1 .. Len(wire[p]) - 1 : wire'[p][i] = wire[p][i + 1]
    BY <1>1, <1>2
  <1>4. wire'[p] # <<>> => Len(wire[p]) > 1
    BY <1>1, <1>2
  <1>5. \A i \in 1 .. Len(wire'[p]) : i + 1 \in 1 .. Len(wire[p]) /\ i \in 1 .. Len(wire[p]) - 1
    BY <1>3
  <1>6. 1 \in 1 .. Len(wire[p])
    BY <1>3
  <1>7. wire'[p] # <<>> => wire'[p][Len(wire'[p])] = wire[p][Len(wire[p])]
    <2> SUFFICES ASSUME wire'[p] # <<>>
                 PROVE  wire'[p][Len(wire'[p])] = wire[p][Len(wire[p])]
      OBVIOUS
    <2>1. Len(wire[p]) - 1 \in 1 .. Len(wire[p]) - 1 /\ (Len(wire[p]) - 1) + 1 = Len(wire[p])
      BY <1>3, <1>4
    <2> QED
      BY <1>3, <2>1
  <1>8. wire'[p] = <<>> => Len(wire[p]) = 1
    <2> SUFFICES ASSUME wire'[p] = <<>>
                 PROVE  Len(wire[p]) = 1
      OBVIOUS
    <2>1. Len(wire'[p]) = 0
      OBVIOUS
    <2> QED
      BY <1>3, <2>1
  <1> QED
    BY <1>2, <1>3, <1>5, <1>6, <1>7, <1>8

\* Growing documents keep what is said of requests.
LEMMA GrowingAnswers ==
    ASSUME RequestsKnown, NEW p \in Peer, \A r \in Peer : graph[r] \subseteq graph'[r]
    PROVE  /\ state'[p] = state[p] => RemembersTruly(p)'
           /\ \A i \in 1 .. Len(wire[p]) : Answerable(graph'[p], wire[p][i])
  <1>1. graph[p] \subseteq graph'[p] /\ graph[Other(p)] \subseteq graph'[Other(p)]
    BY TwoPeers
  <1>2. RemembersTruly(p)
    BY DEF RequestsKnown
  <1>3. state'[p] = state[p] => RemembersTruly(p)'
    BY <1>1, <1>2 DEF RemembersTruly
  <1>4. \A i \in 1 .. Len(wire[p]) : Answerable(graph[p], wire[p][i])
    BY DEF RequestsKnown
  <1> QED
    BY <1>1, <1>3, <1>4 DEF Answerable

-----------------------------------------------------------------------------
(* Each step keeps the invariant *)

\* Passing on changes that one of the peers has adds no cycle.
LEMMA HeldStays ==
    ASSUME HeadsExist, Held' \subseteq Held
    PROVE  HeadsExist'
  BY DEF HeadsExist, Heads, DepsOf

\* Neither does a change that arrives after its dependencies.
LEMMA LastHasNoDependents ==
    ASSUME HeadsExist, GraphsClosed, NEW p \in Peer, NEW h,
           h \notin graph[p], Deps[h] \subseteq graph[p], Held' \subseteq Held \cup {h}
    PROVE  HeadsExist'
  <1>1. \A k \in Held : Deps[k] \subseteq Held
    BY DEF Held, GraphsClosed, Closed, DepsOf
  <1>2. CASE h \in Held
    BY <1>2, HeldStays
  <1>3. CASE h \notin Held
    <2> SUFFICES ASSUME NEW S \in SUBSET (Held \cup {h}), S # {}
                 PROVE  Heads(S) # {}
      BY DEF HeadsExist, Heads, DepsOf
    <2>1. CASE h \in S
      <3>1. \A l \in S : h \notin Deps[l]
        BY <1>1, <1>3
      <3> QED
        BY <2>1, <3>1 DEF Heads, DepsOf
    <2>2. CASE h \notin S
      BY <2>2 DEF HeadsExist
    <2> QED
      BY <2>1, <2>2
  <1> QED
    BY <1>2, <1>3

\* What p asks for and refers to is in the other document: missing heads are
\* that peer's, and what waits in the queue came from it.
LEMMA AsksWhatIsHeld ==
    ASSUME IInv, OrderlyInv, RequestsKnown, NEW p \in Peer, NEW falsely
    PROVE  /\ OurNeed(p) \subseteq graph[Other(p)]
           /\ \A have \in OurHave(p, falsely) : have.lastSync \subseteq graph[Other(p)]
  <1>1. Other(p) \in Peer
    BY TwoPeers
  <1>2. DepsOf(queue[p]) \subseteq graph[Other(p)]
    BY <1>1 DEF OrderlyInv, QueuedIsHeld, GraphsClosed, Closed, DepsOf
  <1>3. state[p].theirHeads \subseteq graph[Other(p)]
    BY DEF RequestsKnown, RemembersTruly
  <1>4. state[p].sharedHeads \subseteq graph[Other(p)]
    BY <1>1 DEF OrderlyInv, SharedHeadsAreShared
  <1>5. BloomFilter(p, falsely).lastSync = state[p].sharedHeads
    BY DEF BloomFilter
  <1> QED
    BY <1>2, <1>3, <1>4, <1>5 DEF OurNeed, MissingDeps, OurHave

LEMMA GenerateSilence ==
    ASSUME IInv, IInv', OrderlyInv, SilenceInv, NEW p \in Peer, Generate(p)
    PROVE  SilenceInv'
  <1>1. PICK falsely \in SUBSET FalsePositive :
            Send(p, [heads |-> OurHeads(p), need |-> OurNeed(p),
                     have |-> OurHave(p, falsely),
                     changes |-> IF SendsDocument(p) THEN graph[p] \cup queue[p]
                                                     ELSE SentHashes(p),
                     document |-> SendsDocument(p),
                     caps |-> ~state[p].haveResponded])
    BY DEF Generate
  <1> DEFINE m == [heads |-> OurHeads(p), need |-> OurNeed(p),
                   have |-> OurHave(p, falsely),
                   changes |-> IF SendsDocument(p) THEN graph[p] \cup queue[p]
                                                   ELSE SentHashes(p),
                   document |-> SendsDocument(p),
                   caps |-> ~state[p].haveResponded]
             q == Other(p)
  <1>2. /\ m.heads = OurHeads(p)
        /\ m.need = OurNeed(p)
        /\ m.have = OurHave(p, falsely)
    OBVIOUS
  <1>3. Send(p, m)
    BY <1>1
  <1> HIDE DEF m
  <1>4. m \in Message
    BY <1>3, SentIsTyped
  <1>5. /\ q \in Peer /\ q # p /\ Other(q) = p
        /\ \A r \in Peer : r = p \/ r = q
    BY TwoPeers
  <1>6. /\ wire'[p] = wire[p]
        /\ wire'[q] # <<>>
        /\ wire'[q][Len(wire'[q])] = m
        /\ \A i \in 1 .. Len(wire'[q]) :
               wire'[q][i] = m \/ \E j \in 1 .. Len(wire[q]) : wire'[q][i] = wire[q][j]
    BY <1>3, <1>4, SentIsLast
  <1>7. UNCHANGED <<graph, queue>>
    BY DEF Generate
  <1>8. /\ state'[q] = state[q]
        /\ state'[p].lastSentHeads = OurHeads(p)
        /\ state'[p].theirHeads = state[p].theirHeads
        /\ state'[p].theirNeed = state[p].theirNeed
        /\ state'[p].theirHave = state[p].theirHave
    BY <1>5 DEF Generate, IInv, TypeOK, State
  <1> HIDE DEF q
  <1>9. RequestsKnown'
    <2>1. Answerable(graph[q], m)
      BY <1>2, AsksWhatIsHeld DEF SilenceInv, Answerable, q
    <2>2. \A r \in Peer : RemembersTruly(r)'
      BY <1>5, <1>7, <1>8 DEF SilenceInv, RequestsKnown, RemembersTruly
    <2>3. \A i \in 1 .. Len(wire'[q]) : Answerable(graph[q], wire'[q][i])
      BY <1>5, <1>6, <2>1 DEF SilenceInv, RequestsKnown
    <2>4. \A i \in 1 .. Len(wire'[p]) : Answerable(graph[p], wire'[p][i])
      BY <1>6 DEF SilenceInv, RequestsKnown
    <2> QED
      BY <1>5, <1>7, <2>2, <2>3, <2>4 DEF RequestsKnown
  <1>10. AnswerDue'
    <2>1. Awaits(p)'
      BY <1>2, <1>6, <1>8 DEF Awaits, q
    <2>2. state[q].inFlight => Awaits(q)'
      BY <1>5, <1>6, <1>8 DEF SilenceInv, AnswerDue, Awaits
    <2> QED
      BY <1>5, <1>8, <2>1, <2>2 DEF AnswerDue
  <1>11. HeadsExist'
    BY <1>7 DEF SilenceInv, HeadsExist, Held
  <1> QED
    BY <1>9, <1>10, <1>11 DEF SilenceInv

\* What a peer remembers of the other one is what the last message said.
LEMMA RemembersMessage ==
    ASSUME NEW p \in Peer, NEW m, NEW old
    PROVE  /\ StateAfter(p, m, old).theirHeads = m.heads
           /\ StateAfter(p, m, old).theirNeed = m.need
           /\ StateAfter(p, m, old).theirHave = m.have
           /\ StateAfter(p, m, old).inFlight = FALSE
  BY DEF StateAfter

LEMMA ReceiveSilence ==
    ASSUME IInv, OrderlyInv, SilenceInv, NEW p \in Peer, Receive(p)
    PROVE  SilenceInv'
  <1> DEFINE m == Head(wire[p])
             q == Other(p)
             after == StateAfter(p, m, OurHeads(p))
  <1>1. /\ Absorb(p, m.changes)
        /\ state' = [state EXCEPT ![p] = after]
        /\ wire[p] # <<>>
        /\ wire' = [wire EXCEPT ![p] = Tail(@)]
    BY DEF Receive
  <1>2. /\ q \in Peer /\ q # p /\ Other(q) = p
        /\ \A r \in Peer : r = p \/ r = q
        /\ m \in Message
    BY <1>1, ReceiveTakes, TwoPeers
  <1>3. /\ \E j \in 1 .. Len(wire[p]) : m = wire[p][j]
        /\ \A i \in 1 .. Len(wire'[p]) :
               \E j \in 1 .. Len(wire[p]) : wire'[p][i] = wire[p][j]
        /\ wire'[p] # <<>> => wire'[p][Len(wire'[p])] = wire[p][Len(wire[p])]
        /\ wire'[p] = <<>> => m = wire[p][Len(wire[p])]
        /\ wire'[q] = wire[q]
    BY <1>1, TakenWasFirst
  <1>4. /\ after.theirHeads = m.heads
        /\ after.theirNeed = m.need
        /\ after.theirHave = m.have
        /\ after.inFlight = FALSE
    BY RemembersMessage
  <1> HIDE DEF m, q, after
  <1>5. state'[p] = after /\ state'[q] = state[q]
    BY <1>1, <1>2 DEF IInv, TypeOK
  <1>6. /\ m.heads \subseteq graph[q]
        /\ m.changes \subseteq graph[p] \cup graph[q]
        /\ Answerable(graph[p], m)
    BY <1>3 DEF OrderlyInv, MessagesHonest, SilenceInv, RequestsKnown, q
  <1>7. m.changes \subseteq Hash
    BY <1>2 DEF Message
  <1>8. /\ graph[p] \subseteq graph'[p]
        /\ graph'[p] \ graph[p] \subseteq queue[p] \cup m.changes
        /\ graph'[q] = graph[q]
    BY <1>1, <1>2, <1>7, AbsorbKeeps DEF IInv
  <1>9. \A r \in Peer : graph[r] \subseteq graph'[r]
    BY <1>2, <1>8
  <1>10. HeadsExist'
    <2>1. graph'[p] \subseteq graph[p] \cup graph[q]
      BY <1>6, <1>8 DEF OrderlyInv, QueuedIsHeld, q
    <2>2. Held' \subseteq Held
      BY <1>2, <1>8, <2>1 DEF Held
    <2> QED
      BY <2>2, HeldStays DEF SilenceInv
  <1>11. RequestsKnown'
    <2>1. RemembersTruly(p)'
      BY <1>4, <1>5, <1>6, <1>8 DEF RemembersTruly, Answerable, q
    <2>2. RemembersTruly(q)'
      BY <1>2, <1>5, <1>9, GrowingAnswers DEF SilenceInv
    <2>3. \A r \in Peer : \A i \in 1 .. Len(wire[r]) : Answerable(graph'[r], wire[r][i])
      BY <1>9, GrowingAnswers DEF SilenceInv
    <2>4. \A i \in 1 .. Len(wire'[p]) : Answerable(graph'[p], wire'[p][i])
      BY <1>3, <2>3
    <2>5. \A i \in 1 .. Len(wire'[q]) : Answerable(graph'[q], wire'[q][i])
      BY <1>2, <1>3, <2>3
    <2> QED
      BY <1>2, <2>1, <2>2, <2>4, <2>5 DEF RequestsKnown
  <1>12. AnswerDue'
    <2>1. ~state'[p].inFlight
      BY <1>4, <1>5
    <2>2. ASSUME state'[q].inFlight
          PROVE  Awaits(q)'
      <3>1. wire[p][Len(wire[p])].heads = state[q].lastSentHeads
        BY <1>1, <1>2, <1>5, <2>2 DEF SilenceInv, AnswerDue, Awaits
      <3>2. CASE wire'[p] # <<>>
        BY <1>2, <1>3, <1>5, <3>1, <3>2 DEF Awaits
      <3>3. CASE wire'[p] = <<>>
        BY <1>2, <1>3, <1>4, <1>5, <2>1, <3>1, <3>3 DEF Awaits
      <3> QED
        BY <3>2, <3>3
    <2> QED
      BY <1>2, <2>1, <2>2 DEF AnswerDue
  <1> QED
    BY <1>10, <1>11, <1>12 DEF SilenceInv

LEMMA LearnSilence ==
    ASSUME IInv, OrderlyInv, SilenceInv, Orderly, NEW p \in Peer, NEW h \in Hash, Learn(p, h)
    PROVE  SilenceInv'
  <1>1. /\ Absorb(p, {h})
        /\ Deps[h] \subseteq graph[p]
        /\ h \notin graph[p]
        /\ UNCHANGED <<state, wire>>
    BY DEF Learn, Orderly
  <1>2. /\ graph[p] \subseteq graph'[p]
        /\ graph'[p] \ graph[p] \subseteq queue[p] \cup {h}
        /\ \A r \in Peer \ {p} : graph'[r] = graph[r]
    BY <1>1, AbsorbKeeps DEF IInv
  <1>3. \A r \in Peer : graph[r] \subseteq graph'[r]
    BY <1>2
  <1>4. HeadsExist'
    <2>1. graph'[p] \subseteq graph[p] \cup graph[Other(p)] \cup {h}
      BY <1>2 DEF OrderlyInv, QueuedIsHeld
    <2>2. Held' \subseteq Held \cup {h}
      BY <1>2, <2>1, TwoPeers DEF Held
    <2> QED
      BY <1>1, <2>2, LastHasNoDependents DEF SilenceInv, OrderlyInv
  <1>5. RequestsKnown'
    <2>1. \A r \in Peer : RemembersTruly(r)'
      BY <1>1, <1>3, GrowingAnswers DEF SilenceInv
    <2>2. \A r \in Peer : \A i \in 1 .. Len(wire[r]) : Answerable(graph'[r], wire[r][i])
      BY <1>3, GrowingAnswers DEF SilenceInv
    <2> QED
      BY <1>1, <2>1, <2>2 DEF RequestsKnown
  <1>6. AnswerDue'
    BY <1>1 DEF SilenceInv, AnswerDue, Awaits
  <1> QED
    BY <1>4, <1>5, <1>6 DEF SilenceInv

\* A new session remembers shared heads only, and waits for nothing.
LEMMA ReconnectSilence ==
    ASSUME SilenceInv, Orderly, Reconnect
    PROVE  SilenceInv'
  <1>1. /\ UNCHANGED graph
        /\ wire' = [p \in Peer |-> <<>>]
    BY DEF Reconnect, Orderly
  <1>2. PICK known \in SUBSET Peer :
            state' = [p \in Peer |-> NewState(IF p \in known THEN state[p].sharedHeads ELSE {})]
    BY DEF Reconnect
  <1>3. \A S : /\ NewState(S).theirHeads = {}
               /\ NewState(S).theirNeed = {}
               /\ NewState(S).theirHave = {}
               /\ ~NewState(S).inFlight
    BY DEF NewState
  <1>4. \A p \in Peer : /\ state'[p].theirHeads = {}
                        /\ state'[p].theirNeed = {}
                        /\ state'[p].theirHave = {}
                        /\ ~state'[p].inFlight
    BY <1>2, <1>3
  <1>5. RequestsKnown'
    BY <1>1, <1>4 DEF RequestsKnown, RemembersTruly
  <1>6. AnswerDue'
    BY <1>4 DEF AnswerDue
  <1>7. HeadsExist'
    BY <1>1 DEF SilenceInv, HeadsExist, Held
  <1> QED
    BY <1>5, <1>6, <1>7 DEF SilenceInv

LEMMA InitSilence ==
    ASSUME Init
    PROVE  SilenceInv
  <1>1. /\ NewState({}).theirHeads = {}
        /\ NewState({}).theirNeed = {}
        /\ NewState({}).theirHave = {}
        /\ ~NewState({}).inFlight
    BY DEF NewState
  <1>2. RequestsKnown
    BY <1>1 DEF Init, RequestsKnown, RemembersTruly
  <1>3. AnswerDue
    BY <1>1 DEF Init, AnswerDue
  <1>4. HeadsExist
    BY DEF Init, HeadsExist, Held
  <1> QED
    BY <1>2, <1>3, <1>4 DEF SilenceInv

LEMMA StepSilence ==
    ASSUME IInv, OrderlyInv, SilenceInv, Orderly, [Next]_vars
    PROVE  SilenceInv'
  <1>1. CASE UNCHANGED vars
    <2>1. UNCHANGED <<graph, state, wire>>
      BY <1>1 DEF vars
    <2>2. HeadsExist'
      BY <2>1 DEF SilenceInv, HeadsExist, Held
    <2>3. RequestsKnown'
      BY <2>1 DEF SilenceInv, RequestsKnown, RemembersTruly
    <2>4. AnswerDue'
      BY <2>1 DEF SilenceInv, AnswerDue, Awaits
    <2> QED
      BY <2>2, <2>3, <2>4 DEF SilenceInv
  <1>2. ASSUME NEW p \in Peer, GenerateReset(p)
        PROVE  SilenceInv'
    BY <1>2, SpeaksUnlessDone DEF SilenceInv, GenerateReset
  <1>3. ASSUME NEW p \in Peer, Generate(p)
        PROVE  SilenceInv'
    BY <1>3, StepPreserves, GenerateSilence
  <1>4. ASSUME NEW p \in Peer, Receive(p)
        PROVE  SilenceInv'
    BY <1>4, ReceiveSilence
  <1>5. ASSUME NEW p \in Peer, NEW h \in Hash, Learn(p, h)
        PROVE  SilenceInv'
    BY <1>5, LearnSilence
  <1>6. CASE Reconnect
    BY <1>6, ReconnectSilence
  <1> QED
    BY <1>1, <1>2, <1>3, <1>4, <1>5, <1>6 DEF Next

-----------------------------------------------------------------------------
\* Each peer knows what the other one asks for, and who waits is answered.
THEOREM SilenceInvariant == Orderly => (Spec => []SilenceInv)
  <1> SUFFICES ASSUME Orderly
               PROVE  Spec => []SilenceInv
    OBVIOUS
  <1>1. Init => SilenceInv
    BY InitSilence
  <1>2. IInv /\ OrderlyInv /\ SilenceInv /\ [Next]_vars => SilenceInv'
    BY StepSilence
  <1> QED
    BY <1>1, <1>2, ProtocolInvariant, OrderlyInvariant, PTL DEF Spec

\* When generate_sync_message returns None on both sides and nothing is under
\* way, both documents hold the same changes.
THEOREM SilentWhenEqual == Orderly => (Spec => []SilentOnlyWhenEqual)
  <1> SUFFICES ASSUME Orderly
               PROVE  Spec => []SilentOnlyWhenEqual
    OBVIOUS
  <1>1. IInv /\ OrderlyInv /\ SilenceInv => SilentOnlyWhenEqual
    BY SilenceIsAgreement DEF SilentOnlyWhenEqual
  <1> QED
    BY <1>1, ProtocolInvariant, OrderlyInvariant, SilenceInvariant, PTL

\* generate_sync_message never falls back to the message that asks for
\* everything: the other peer's last sync is known here.
THEOREM NoResetNeeded == Orderly => (Spec => [][\A p \in Peer : ~GenerateReset(p)]_vars)
  <1> SUFFICES ASSUME Orderly
               PROVE  Spec => [][\A p \in Peer : ~GenerateReset(p)]_vars
    OBVIOUS
  <1>1. SilenceInv => \A p \in Peer : ~GenerateReset(p)
    BY SpeaksUnlessDone DEF SilenceInv, GenerateReset
  <1> QED
    BY <1>1, SilenceInvariant, PTL

=============================================================================
