--------------------------- MODULE DocumentWalks ---------------------------
(***************************************************************************)
(* The two depth-first walks over the change graph that Document takes as  *)
(* one step each: the one of fork_at, which collects what a document held  *)
(* at some heads, and the one of get_changes_added, which collects what a  *)
(* merge has to add.  Hashes are in no particular order, so the heads and  *)
(* the dependencies of a change are pushed in any order.  While a document *)
(* is borrowed by a walk nothing else happens.                             *)
(***************************************************************************)
EXTENDS Document, SequencesExt

VARIABLES
    call,   \* <<>>, or the running call and the documents it is about
    stack,  \* the hashes to visit, the next one last
    seen,   \* the hashes that were visited
    out     \* the hashes that were found, in this order

walk     == <<call, stack, seen, out>>
walkVars == <<vars, walk>>

Listed == {out[i] : i \in 1 .. Len(out)}

\* Pops the last hash of the stack and pushes the hashes S.
PopAndPush(S) == \E new \in SetToSeqs(S) : stack' = Front(stack) \o new

Visit(h) ==
    /\ out'  = Append(out, h)
    /\ seen' = seen \cup {h}

Start(name, r, t, S, visited) ==
    /\ call  = <<>>
    /\ call' = <<name, r, t>>
    /\ stack' \in SetToSeqs(S)
    /\ seen' = visited
    /\ out'  = <<>>
    /\ UNCHANGED vars

Running(name, r, t) == call = <<name, r, t>>

\* The call returns, and its variables are gone.
Return ==
    /\ call'  = <<>>
    /\ stack' = <<>>
    /\ seen'  = {}
    /\ out'   = <<>>

-----------------------------------------------------------------------------
(* fork_at(H) on the document r, the new document replaces t *)

StartForkAt(r, t, H) ==
    /\ r # t
    /\ ~panicked[r]
    /\ Start("fork_at", r, t, H, H)

\* Mutant of ForkPushes: the walk stays at the given heads.
ForkPushesNothing(h) == {}

\* The dependencies of h to visit: those that were not visited yet.
ForkPushes(h) == deps[h] \ seen

ForkAtStep(r, t) ==
    /\ Running("fork_at", r, t)
    /\ stack # <<>>
    /\ Last(stack) \in graph[r]
    /\ PopAndPush(ForkPushes(Last(stack)))
    /\ Visit(Last(stack))
    /\ UNCHANGED <<vars, call>>

\* InvalidHash
ForkAtInvalid(r, t) ==
    /\ Running("fork_at", r, t)
    /\ stack # <<>>
    /\ Last(stack) \notin graph[r]
    /\ Return
    /\ UNCHANGED vars

\* The change collector makes one builder per listed hash, and the operations
\* of a change go to one of them.  Any other one finishes with MissingOps,
\* unless the change is empty.
Collectable == \A i, j \in 1 .. Len(out) : out[i] = out[j] /\ i # j => nOps[out[i]] = 0

ForkAtReturn(r, t) ==
    /\ Running("fork_at", r, t)
    /\ stack = <<>>
    /\ Collectable
    /\ \E b \in Base :
           /\ FreshActor(b)
           /\ actor' = [actor EXCEPT ![t] = b]
    /\ AbsorbInto(t, {}, {}, {}, 0, Listed)
    /\ panicked' = [panicked EXCEPT ![t] = FALSE]
    /\ UNCHANGED <<history, disk>>
    /\ Return

\* unwrap() of MissingOps
ForkAtPanic(r, t) ==
    /\ Running("fork_at", r, t)
    /\ stack = <<>>
    /\ ~Collectable
    /\ call' = <<"panicked", r, t>>
    /\ UNCHANGED <<vars, stack>>
    /\ seen' = {}
    /\ out'  = <<>>

Restart(r, t) ==
    /\ Running("panicked", r, t)
    /\ Load(r)
    /\ Return

-----------------------------------------------------------------------------
(* merge: get_changes_added(t) on the document r, then apply_changes *)

StartMerge(r, t) ==
    /\ ~panicked[r] /\ ~panicked[t]
    /\ Start("merge", r, t, heads[t], {})

\* Mutant of IsAdded: what was found is found again.
IsNotHeld(r, h) == h \notin graph[r]

\* A change that has to be added and was not found before.
IsAdded(r, h) == h \notin seen /\ h \notin graph[r]

MergeStep(r, t) ==
    /\ Running("merge", r, t)
    /\ stack # <<>>
    /\ IsAdded(r, Last(stack))
    /\ PopAndPush(deps[Last(stack)])
    /\ Visit(Last(stack))
    /\ UNCHANGED <<vars, call>>

MergeSkip(r, t) ==
    /\ Running("merge", r, t)
    /\ stack # <<>>
    /\ ~IsAdded(r, Last(stack))
    /\ stack' = Front(stack)
    /\ UNCHANGED <<vars, call, seen, out>>

MergeReturn(r, t) ==
    /\ Running("merge", r, t)
    /\ stack = <<>>
    /\ Absorb(r, Listed)
    /\ Return

-----------------------------------------------------------------------------
\* What happens between the calls: commits and changes from elsewhere are
\* enough to build graphs to walk over.
Edit(r) ==
    /\ call = <<>>
    /\ Commit(r) \/ EmptyCommit(r) \/ \E B \in SUBSET made : ApplyChanges(r, B)
    /\ UNCHANGED walk

WalkInit ==
    /\ Init
    /\ call  = <<>>
    /\ stack = <<>>
    /\ seen  = {}
    /\ out   = <<>>

WalkNext ==
    \/ \E r, t \in Replica :
           \/ \E H \in SUBSET made : StartForkAt(r, t, H)
           \/ ForkAtStep(r, t)
           \/ ForkAtInvalid(r, t)
           \/ ForkAtReturn(r, t)
           \/ ForkAtPanic(r, t)
           \/ Restart(r, t)
           \/ StartMerge(r, t)
           \/ MergeStep(r, t)
           \/ MergeSkip(r, t)
           \/ MergeReturn(r, t)
    \/ \E r \in Replica : Edit(r)

WalkSpec == WalkInit /\ [][WalkNext]_walkVars

-----------------------------------------------------------------------------
(* Properties *)

\* Walk by walk, a document does what Document says it does in one step: a
\* fork has exactly the changes up to the given heads.
ImplementsDocument == Spec

\* get_changes_added finds no change twice, so its unwrap is safe, and it
\* finds exactly what the other document holds and this one does not.
MergeCollects ==
    \A r, t \in Replica : Running("merge", r, t) =>
        /\ Collectable
        /\ stack = <<>> => Listed = graph[t] \ graph[r]

\* fork_at at known heads gives a document ("Fork this document at the given
\* heads").
ForkAtNeverPanics == \A r, t \in Replica : ~Running("panicked", r, t)
=============================================================================
