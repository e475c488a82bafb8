------------------------------- MODULE MCSync -------------------------------
(* SyncProtocol on small graphs of changes.                                 *)
EXTENDS SyncProtocol, TLC

CONSTANTS p1, p2, a, b, c, d

\* c follows a, b is concurrent to both; a may reach both peers on its own.
\* As a and c may both be false positives, a peer may have to ask for c and
\* then for a.
ChainDeps  == (a :> {}) @@ (b :> {}) @@ (c :> {a})
ChainLocal == (p1 :> {a, b}) @@ (p2 :> {a, c})
SplitLocal == (p1 :> {b}) @@ (p2 :> {a, c})

\* Three unrelated changes and b, which is based on a.  The first peer may
\* hold b without a, and in OrphanLocal nobody but a third party has a.
IslandDeps   == (a :> {}) @@ (b :> {a}) @@ (c :> {}) @@ (d :> {})
IslandLocal  == (p1 :> {b, d}) @@ (p2 :> {a, c})
OrphanLocal  == (p1 :> {b, d}) @@ (p2 :> {c})
=============================================================================
