-------------------------------- MODULE Ring --------------------------------
(***************************************************************************)
(* common/ring.go as it is written: the remotes are a slice kept sorted,   *)
(* every lookup is a binary search of the slice, and the mutators cut and  *)
(* paste slices.  Indices are those of the code, from 0.                   *)
(***************************************************************************)
EXTENDS Remotes, Integers, Sequences, FiniteSetsExt

VARIABLES nodes,      \* Ring.nodes
          panicked,   \* Remove has panicked
          called      \* the last call

vars == <<nodes, panicked, called>>

At(ns, i) == ns[i + 1]                          \* ns[i]
Slice(ns, from, to) == SubSeq(ns, from + 1, to) \* ns[from:to]

(* The remotes in the slice, as the set Remotes speaks of. *)
Members(ns) == {ns[i] : i \in 1 .. Len(ns)}

(* The first index for which P holds, or n: sort.Search over a sorted slice. *)
Search(n, P(_)) == Min({i \in 0 .. n - 1 : P(i)} \cup {n})

(* What Ring.Validate looks at: no address twice, no two remotes out of order. *)
Valid(ns) ==
  /\ ns \in Seq(Remote)
  /\ \A i, j \in 1 .. Len(ns) : i < j => Less(ns[i], ns[j])
  /\ UniqueAddr(Members(ns))

(* The slices a peer's ring may hold, which is what SetNodes is given. *)
Slices ==
  UNION {{ns \in [1 .. Cardinality(R) -> R] : Valid(ns)} : R \in {Q \in Rings : IsFiniteSet(Q)}}
----------------------------------------------------------------------------
(* Lookups *)

(* Mutant: off by one. *)
predecessorIndex_Itself(ns, r) ==
  LET i == Search(Len(ns), LAMBDA k : ~Less(At(ns, k), r))
  IN IF i < Len(ns) /\ i > 0 THEN i ELSE Len(ns) - 1

predecessorIndex(ns, r) ==
  LET i == Search(Len(ns), LAMBDA k : ~Less(At(ns, k), r))
  IN IF i < Len(ns) /\ i > 0 THEN i - 1 ELSE Len(ns) - 1

Predecessor(ns, r) ==
  IF Len(ns) = 0 THEN r
  ELSE IF Len(ns) = 1 THEN At(ns, 0)
  ELSE At(ns, predecessorIndex(ns, r))

successorIndex(ns, r) ==
  LET i == Search(Len(ns), LAMBDA k : Less(r, At(ns, k)))
  IN IF i < Len(ns) THEN i ELSE 0

Successor(ns, r) == At(ns, successorIndex(ns, r))

(* The search that indices and byteIndices share, with the order and the   *)
(* equality each of them uses: notBelow(i) is "at or after the key",       *)
(* equal(i) "at the key", above(i) "after the key".                        *)
searchIndices(n, notBelow(_), equal(_), above(_)) ==
  LET i == Search(n, notBelow)
      j == Search(n - i, LAMBDA k : above(k + i)) + i
  IN IF n = 0 THEN [before |-> -1, at |-> -1, after |-> -1]
     ELSE IF i = n THEN [before |-> n - 1, at |-> -1, after |-> 0]
     ELSE [before |-> IF i = 0 THEN n - 1 ELSE i - 1,
           at     |-> IF equal(i) THEN i ELSE -1,
           after  |-> IF ~equal(i) THEN i ELSE IF j < n THEN j ELSE 0]

(* Mutant: the first search goes past the position. *)
byteIndices_Past(ns, pos) ==
  searchIndices(Len(ns), LAMBDA i : pos < At(ns, i).pos,
                         LAMBDA i : pos = At(ns, i).pos,
                         LAMBDA i : pos < At(ns, i).pos)

byteIndices(ns, pos) ==
  searchIndices(Len(ns), LAMBDA i : pos <= At(ns, i).pos,
                         LAMBDA i : pos = At(ns, i).pos,
                         LAMBDA i : pos < At(ns, i).pos)

indices(ns, r) ==
  searchIndices(Len(ns), LAMBDA i : ~Less(At(ns, i), r),
                         LAMBDA i : r = At(ns, i),
                         LAMBDA i : Less(r, At(ns, i)))
----------------------------------------------------------------------------
(* Mutators *)

(* Mutant: the old remote stays. *)
without_Nothing(ns, r) == ns

(* The slice without the remote of r's address, if there is one: the loop  *)
(* of Add and Remove cuts the slice where it finds it.                     *)
without(ns, r) ==
  LET i == Search(Len(ns), LAMBDA k : At(ns, k).addr = r.addr)
  IN Slice(ns, 0, i) \o Slice(ns, i + 1, Len(ns))

insertSorted(ns, r) ==
  LET i == Search(Len(ns), LAMBDA k : Less(r, At(ns, k)))
  IN Slice(ns, 0, i) \o <<r>> \o Slice(ns, i, Len(ns))

Init == nodes = <<>> /\ panicked = FALSE /\ called = <<>>

Add(r) ==
  /\ called' = <<"Add", r>>
  /\ nodes' = IF r \in Members(nodes) THEN nodes ELSE insertSorted(without(nodes, r), r)
  /\ UNCHANGED panicked

(* Mutant: the last remote goes without a panic. *)
Remove_Last(r) ==
  /\ called' = <<"Remove", r>>
  /\ nodes' = without(nodes, r)
  /\ UNCHANGED panicked

Remove(r) ==
  /\ called' = <<"Remove", r>>
  /\ panicked' = (Len(nodes) = 1 /\ At(nodes, 0).addr = r.addr)
  /\ nodes' = IF panicked' THEN nodes ELSE without(nodes, r)

SetNodes(ns) ==
  /\ called' = <<"SetNodes", Members(ns)>>
  /\ nodes' = ns
  /\ UNCHANGED panicked

(* Mutant: the walk always ends before s. *)
cleaned_Short(ns, p, s) ==
  LET from == indices(ns, p).after
      to   == indices(ns, s).before
  IN IF from > to THEN Slice(ns, to, from)
                  ELSE Slice(ns, 0, from) \o Slice(ns, to, Len(ns))

cleaned(ns, p, s) ==
  LET from == indices(ns, p).after
      succ == indices(ns, s)
      to   == IF succ.at # -1 THEN succ.at ELSE succ.before
  IN IF from > to THEN Slice(ns, to, from)
                  ELSE Slice(ns, 0, from) \o Slice(ns, to, Len(ns))

(* Clean on an empty ring slices out of range; its callers add themselves  *)
(* first.                                                                  *)
Clean(p, s) ==
  /\ called' = <<"Clean", p, s>>
  /\ nodes # <<>>
  /\ nodes' = cleaned(nodes, p, s)
  /\ UNCHANGED panicked

Next ==
  /\ ~panicked
  /\ \/ \E r \in Remote : Add(r) \/ Remove(r)
     \/ \E ns \in Slices : SetNodes(ns)
     \/ \E p, s \in Remote : Clean(p, s)

Spec == Init /\ [][Next]_vars
----------------------------------------------------------------------------
(* The slice implements the set: every slice operation has the effect the  *)
(* abstract ring gives it.                                                 *)
Abstract == INSTANCE RingSet WITH members <- Members(nodes)

ImplementsRingSet == Abstract!Spec

(* Ring.Validate has nothing to panic about: every binary search of the    *)
(* ring relies on the order of the slice.                                  *)
ValidRing == Valid(nodes)

(* Predecessor and Successor find the neighbours on the circle of any      *)
(* remote, in the ring or not, wrapping at both ends.                      *)
NeighboursAreRight ==
  \A r \in Remote :
    /\ IsPredecessor(Predecessor(nodes, r), Members(nodes), r)
    /\ nodes # <<>> => IsSuccessor(Successor(nodes, r), Members(nodes), r)

(* Routing by position (Ring.Remotes): "before" is the last remote below   *)
(* the position or else the last of all, "at" the first at it, "after" the *)
(* first above it or else the first of all, however many remotes share it. *)
ByteIndicesAreRight ==
  \A pos \in Pos :
    LET ix     == byteIndices(nodes, pos)
        n      == Len(nodes)
        below  == {i \in 0 .. n - 1 : At(nodes, i).pos < pos}
        equal  == {i \in 0 .. n - 1 : At(nodes, i).pos = pos}
        higher == {i \in 0 .. n - 1 : At(nodes, i).pos > pos}
    IN n > 0 => /\ ix.before = IF below = {} THEN n - 1 ELSE Max(below)
                /\ ix.at = IF equal = {} THEN -1 ELSE Min(equal)
                /\ ix.after = IF higher = {} THEN 0 ELSE Min(higher)

(* Clean "removes any Nodes in this Ring between predecessor and successor *)
(* (exclusive)", and nothing else, when the successor is in the ring: the  *)
(* way Node.Ping calls it, with the remote it has just added.              *)
CleanRemovesBetween ==
  [][called'[1] = "Clean" /\ called'[3] \in Members(nodes) =>
       Members(nodes') = {x \in Members(nodes) : ~Between(x, called'[2], called'[3])}]_vars
============================================================================
