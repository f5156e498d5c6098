-------------------------------- MODULE Trie --------------------------------
(***************************************************************************)
(* radix/node.go, node_iterators.go: the radix tree that is a Merkle tree. *)
(*                                                                         *)
(* Operators only.  A key is a sequence of nibbles, two to a byte.  A node *)
(* is a record; its children are the sequence of those that are not nil,   *)
(* in the order of the array they have in the code, where the index is the *)
(* first nibble of a child's segment.  Only the root has no segment.       *)
(* A hash is the tuple of what it is made from.                            *)
(* What insertHelp and del return besides the node is what Get returns for *)
(* the key beforehand, and is left to the caller.                          *)
(***************************************************************************)
EXTENDS Integers, Sequences, SequencesExt, FiniteSetsExt

CONSTANT ZombieLifetime    \* for how long tombstones are kept: 24 hours in the code

ASSUME TrieAssumption == ZombieLifetime \in Nat

Nil    == [nil |-> TRUE]
NoTree == Nil
NoBytes == <<>>            \* nil and the empty slice: they hash alike

Common(a, b) ==            \* how many nibbles a and b share to begin with
  Cardinality({i \in 1 .. IF Len(a) < Len(b) THEN Len(a) ELSE Len(b) :
                 \A j \in 1 .. i : a[j] = b[j]})
Drop(s, i) == SubSeq(s, i + 1, Len(s))
Take(s, i) == SubSeq(s, 1, IF i < Len(s) THEN i ELSE Len(s))

nComp(a, b) ==
  LET i == Common(a, b)
  IN CASE a = b -> 0
       [] i = Len(a) -> -1
       [] i = Len(b) -> 1
       [] OTHER -> IF a[i + 1] < b[i + 1] THEN -1 ELSE 1
----------------------------------------------------------------------------
(* What a node reads of the Tree it contains *)

Size(t)     == IF t = NoTree THEN 0 ELSE t.root.byteSize + t.root.treeSize
RealSize(t) == IF t = NoTree THEN 0 ELSE t.root.realSize
Hash(t)     == IF t = NoTree THEN <<>> ELSE <<t.conf, t.root.hash>>

newNode(segment, byteValue, treeValue, timestamp, empty, use) ==
  [seg |-> segment, val |-> byteValue, tree |-> treeValue, ts |-> timestamp,
   hash |-> <<>>, kids |-> <<>>, empty |-> empty, use |-> use,
   treeSize |-> 0, byteSize |-> 0, realSize |-> 0]

(* children[nibble], and the children with another one there. *)
Child(n, nibble) ==
  IF \E i \in DOMAIN n.kids : n.kids[i].seg[1] = nibble
  THEN n.kids[CHOOSE i \in DOMAIN n.kids : n.kids[i].seg[1] = nibble] ELSE Nil
WithChild(n, nibble, child) ==
  [n EXCEPT !.kids = SelectSeq(@, LAMBDA c : c.seg[1] < nibble)
                     \o (IF child = Nil THEN <<>> ELSE <<child>>)
                     \o SelectSeq(@, LAMBDA c : c.seg[1] > nibble)]
SumOf(ks, Of(_)) == FoldSeq(LAMBDA c, s : Of(c) + s, 0, ks)
----------------------------------------------------------------------------
(* Mutant: a tombstone counts as a value. *)
hashed_Tombstones(n, key) ==
  [n EXCEPT
     !.treeSize = (IF "tree" \in n.use THEN Size(n.tree) ELSE 0) + SumOf(n.kids, LAMBDA c : c.treeSize),
     !.byteSize = (IF n.ts # 0 THEN 1 ELSE 0) + SumOf(n.kids, LAMBDA c : c.byteSize),
     !.realSize = RealSize(n.tree) + (IF n.ts # 0 THEN 1 ELSE 0) + SumOf(n.kids, LAMBDA c : c.realSize),
     !.hash = <<key, n.val, Hash(n.tree), [j \in DOMAIN n.kids |-> n.kids[j].hash]>>]

(* Sizes and hash are made anew from the node's own data and its children, *)
hashed(n, key) ==
  [n EXCEPT
     !.treeSize = (IF "tree" \in n.use THEN Size(n.tree) ELSE 0) + SumOf(n.kids, LAMBDA c : c.treeSize),
     !.byteSize = (IF "byte" \in n.use THEN 1 ELSE 0) + SumOf(n.kids, LAMBDA c : c.byteSize),
     !.realSize = RealSize(n.tree) + (IF n.ts # 0 THEN 1 ELSE 0) + SumOf(n.kids, LAMBDA c : c.realSize),
     !.hash = <<key, n.val, Hash(n.tree), [j \in DOMAIN n.kids |-> n.kids[j].hash]>>]

(* once the children that are old tombstones have been removed.            *)
RECURSIVE rehash(_, _, _), gc(_, _, _), del(_, _, _, _, _)
rehash(n, key, now) ==
  hashed([n EXCEPT !.kids = SelectSeq([j \in DOMAIN @ |-> gc(@[j], key, now)], LAMBDA c : c # Nil)],
         key)

(* An old sub tree without live values goes first (and leaves the node's   *)
(* sizes and hash as they were), then the node if it is an old tombstone.  *)
gc(n, prefix, now) ==
  IF n = Nil THEN Nil ELSE
  LET old(ts) == ts < now - ZombieLifetime
      m == IF ~n.empty /\ "tree" \in n.use /\ Size(n.tree) = 0 /\ old(n.tree.dataTs)
           THEN [n EXCEPT !.tree = NoTree, !.use = @ \ {"tree"}]
           ELSE n
  IN IF ~m.empty /\ m.use = {} /\ old(m.ts) THEN del(m, prefix, m.seg, {}, now) ELSE m

(* Mutant: a node's only child takes its place without its segment. *)
del_LosesSegment(n, prefix, segment, use, now) ==
  IF n = Nil THEN Nil ELSE
  LET i  == Common(segment, n.seg)
      ks == n.kids
      p  == prefix \o n.seg
      m(x) == WithChild(n, x, del(Child(n, x), p, Drop(segment, i), use, now))
  IN CASE segment = n.seg /\ n.use \ use = {} /\ Len(ks) = 0 /\ n.seg # <<>> -> Nil
       [] segment = n.seg /\ Len(ks) = 1 /\ n.seg # <<>> -> ks[1]
       [] segment # n.seg /\ i = Len(n.seg) -> rehash(m(segment[i + 1]), p, now)
       [] OTHER -> n

del(n, prefix, segment, use, now) ==
  IF n = Nil THEN Nil ELSE
  LET i  == Common(segment, n.seg)
      ks == n.kids
      p  == prefix \o n.seg
  IN CASE segment = n.seg /\ n.use \ use # {} ->
            rehash([n EXCEPT !.val  = IF "byte" \in n.use \cap use THEN NoBytes ELSE @,
                             !.tree = IF "tree" \in n.use \cap use THEN NoTree ELSE @,
                             !.use  = @ \ use], p, now)
       [] segment = n.seg /\ n.use \ use = {} /\ (Len(ks) > 1 \/ n.seg = <<>>) ->
            rehash([n EXCEPT !.val = NoBytes, !.tree = NoTree, !.empty = TRUE,
                             !.use = {}, !.ts = 0], p, now)
       [] segment = n.seg /\ n.use \ use = {} /\ Len(ks) = 1 /\ n.seg # <<>> ->
            [ks[1] EXCEPT !.seg = n.seg \o @]
       [] segment = n.seg /\ n.use \ use = {} /\ Len(ks) = 0 /\ n.seg # <<>> -> Nil
       [] segment # n.seg /\ i = Len(n.seg) ->
            LET x == segment[i + 1]
                m == WithChild(n, x, del(Child(n, x), p, Drop(segment, i), use, now))
            IN IF n.empty /\ p # <<>> /\ m.kids = <<>> THEN Nil ELSE rehash(m, p, now)
       [] OTHER -> n

(***************************************************************************)
(* Where the new node is put above an old one, both are hashed with the    *)
(* key the old one's cut segment would have under prefix: a hash depends   *)
(* on the order of the insertions.                                         *)
(***************************************************************************)
RECURSIVE insertHelp(_, _, _, _, _)
insertHelp(self, prefix, n, use, now) ==
  IF self = Nil THEN rehash(n, prefix \o n.seg, now) ELSE
  LET i == Common(self.seg, n.seg)
      cutSelf == [self EXCEPT !.seg = Drop(@, i)]
      cutN    == [n EXCEPT !.seg = Drop(@, i)]
  IN CASE n.seg = self.seg ->
            rehash([self EXCEPT !.val  = IF "byte" \in use THEN n.val ELSE @,
                                !.tree = IF "tree" \in use THEN n.tree ELSE @,
                                !.use  = (@ \ use) \cup (n.use \cap use),
                                !.empty = n.empty, !.ts = n.ts], prefix \o self.seg, now)
       [] n.seg # self.seg /\ i = Len(n.seg) ->
            LET p == prefix \o cutSelf.seg
            IN rehash([n EXCEPT !.kids = <<rehash(cutSelf, p, now)>>], p \o n.seg, now)
       [] n.seg # self.seg /\ i = Len(self.seg) ->
            LET p == prefix \o self.seg
                x == cutN.seg[1]
            IN rehash(WithChild(self, x, insertHelp(Child(self, x), p, cutN, use, now)), p, now)
       [] OTHER ->
            LET p == prefix \o Take(n.seg, i)
                branch == newNode(Take(n.seg, i), NoBytes, NoTree, 0, TRUE, {})
                one == WithChild(branch, cutN.seg[1], rehash(cutN, p \o cutN.seg, now))
            IN rehash(WithChild(one, cutSelf.seg[1], rehash(cutSelf, p \o cutSelf.seg, now)), p, now)

insert(n, new, now) == insertHelp(n, <<>>, new, new.use, now)
fakeDel(n, segment, use, timestamp, now) ==
  insertHelp(n, <<>>, newNode(segment, NoBytes, NoTree, timestamp, FALSE, {}), use, now)

RECURSIVE get(_, _)
get(n, segment) ==
  IF n = Nil \/ Common(segment, n.seg) < Len(n.seg)
  THEN [val |-> NoBytes, tree |-> NoTree, ts |-> 0, use |-> {}]
  ELSE IF segment = n.seg THEN [val |-> n.val, tree |-> n.tree, ts |-> n.ts, use |-> n.use]
       ELSE get(Child(n, segment[Len(n.seg) + 1]), Drop(segment, Len(n.seg)))
----------------------------------------------------------------------------
(* Prints *)

NoPrint(key) == [exists |-> FALSE, key |-> key, empty |-> FALSE, ts |-> 0, subTree |-> FALSE,
                 subPrints |-> <<>>, bytes |-> {}, treeHash |-> <<>>,
                 treeTs |-> 0, treeSize |-> 0]

RECURSIVE finger(_, _, _)
finger(n, key, segment) ==
  IF n = Nil THEN NoPrint(key) ELSE
  LET pushed == key \o n.seg
  IN CASE segment = n.seg ->
            [exists |-> TRUE, key |-> pushed, empty |-> n.empty, ts |-> n.ts,
             subTree |-> n.tree # NoTree,
             subPrints |-> [i \in DOMAIN n.kids |->
                              [key |-> pushed \o n.kids[i].seg, sum |-> n.kids[i].hash]],
             bytes |-> {n.val}, treeHash |-> Hash(n.tree),
             treeTs |-> IF n.tree = NoTree THEN 0 ELSE n.tree.dataTs,
             treeSize |-> Size(n.tree)]
       [] segment # n.seg /\ Common(segment, n.seg) = Len(n.seg) ->
            finger(Child(n, segment[Len(n.seg) + 1]), pushed, Drop(segment, Len(n.seg)))
       [] OTHER -> NoPrint(pushed)

(* Mutant: the older one covers. *)
coveredBy_Older(p, other) == other.ts < p.ts \/ p.bytes = other.bytes

(* Print.coveredBy: other is newer, or has the hash of the same bytes.     *)
coveredBy(p, other) == other.ts > p.ts \/ p.bytes = other.bytes
----------------------------------------------------------------------------
(* Iteration.  What an iterator is called with, in order; one that stops   *)
(* early sees the beginning.  A bound is a set: empty, or its one key.     *)

Wanted(n, use) == ~n.empty /\ (use = {} \/ n.use \cap use # {})
Seen(n, key) == [key |-> key, val |-> n.val, tree |-> n.tree, use |-> n.use, ts |-> n.ts]
Shown(n, key, yes) == IF yes THEN <<Seen(n, key)>> ELSE <<>>

RECURSIVE each(_, _, _), reverseEach(_, _, _)
each(n, prefix, use) ==
  LET key == prefix \o n.seg
  IN FlattenSeq(<<Shown(n, key, Wanted(n, use))>>
                \o [j \in DOMAIN n.kids |-> each(n.kids[j], key, use)])
reverseEach(n, prefix, use) ==
  LET key == prefix \o n.seg
      ks  == Reverse(n.kids)
  IN FlattenSeq([j \in DOMAIN ks |-> reverseEach(ks[j], key, use)]
                \o <<Shown(n, key, Wanted(n, use))>>)

(* mincmp and maxcmp, as cmps makes them of mininc and maxinc. *)
Within(key, min, max, mininc, maxinc) ==
  /\ \A m \in min : nComp(key, m) > (IF mininc THEN -1 ELSE 0)
  /\ \A m \in max : nComp(key, m) < (IF maxinc THEN 1 ELSE 0)

(* Mutant: the whole key of the child is compared. *)
Visited_Whole(key, min, max) ==
  /\ \A m \in min : nComp(key, m) > -1
  /\ \A m \in max : nComp(key, m) < 1

(* A child is visited if its key may begin a key within the bounds. *)
Visited(key, min, max) ==
  /\ \A m \in min : nComp(Take(key, Len(m)), Take(m, Len(key))) > -1
  /\ \A m \in max : nComp(Take(key, Len(m)), Take(m, Len(key))) < 1

RECURSIVE eachBetween(_, _, _, _, _, _, _), reverseEachBetween(_, _, _, _, _, _, _)
eachBetween(n, prefix, min, max, mininc, maxinc, use) ==
  LET key == prefix \o n.seg
      ks  == SelectSeq(n.kids, LAMBDA c : Visited(key \o c.seg, min, max))
  IN FlattenSeq(<<Shown(n, key, Wanted(n, use) /\ Within(key, min, max, mininc, maxinc))>>
                \o [j \in DOMAIN ks |-> eachBetween(ks[j], key, min, max, mininc, maxinc, use)])
reverseEachBetween(n, prefix, min, max, mininc, maxinc, use) ==
  LET key == prefix \o n.seg
      ks  == Reverse(SelectSeq(n.kids, LAMBDA c : Visited(key \o c.seg, min, max)))
  IN FlattenSeq([j \in DOMAIN ks |->
                   reverseEachBetween(ks[j], key, min, max, mininc, maxinc, use)]
                \o <<Shown(n, key, Wanted(n, use) /\ Within(key, min, max, mininc, maxinc))>>)
----------------------------------------------------------------------------
(* Counting, by the cached sizes *)

(* Mutant: tombstones count in every case. *)
Relevant_Real(n, use) == n.realSize

Relevant(n, use) ==
  IF use = {} THEN n.realSize
  ELSE (IF "byte" \in use THEN n.byteSize ELSE 0) + (IF "tree" \in use THEN n.treeSize ELSE 0)
Own(n, use) ==
  (IF use = {} \/ "byte" \in use \cap n.use THEN 1 ELSE 0)
  + (IF use = {} \/ "tree" \in use \cap n.use THEN Size(n.tree) ELSE 0)

(* A child wholly inside the bounds is not descended into. *)
RECURSIVE sizeBetween(_, _, _, _, _, _, _)
sizeBetween(n, prefix, min, max, mininc, maxinc, use) ==
  LET key == prefix \o n.seg
      Inside(k) == /\ \A m \in min : nComp(Take(k, Len(m)), Take(m, Len(k))) > 0
                   /\ \A m \in max : nComp(Take(k, Len(m)), Take(m, Len(k))) < 0
  IN (IF Wanted(n, use) /\ Within(key, min, max, mininc, maxinc) THEN Own(n, use) ELSE 0)
     + SumOf(SelectSeq(n.kids, LAMBDA c : Visited(key \o c.seg, min, max)),
             LAMBDA c : IF Inside(key \o c.seg) THEN Relevant(c, use)
                        ELSE sizeBetween(c, key, min, max, mininc, maxinc, use))

RECURSIVE indexOf(_, _, _, _, _)
indexOf(n, count, segment, use, up) ==
  LET i == Common(segment, n.seg)
      c == count + IF n.empty THEN 0 ELSE Own(n, use)
      ks == IF up THEN n.kids ELSE Reverse(n.kids)
      before == SelectSeq(ks, LAMBDA k : IF up THEN k.seg[1] < segment[i + 1]
                                               ELSE k.seg[1] > segment[i + 1])
      passed == c + SumOf(before, LAMBDA k : Relevant(k, use))
  IN CASE segment = n.seg -> [index |-> count, existed |-> n.use]
       [] segment # n.seg /\ i = Len(segment) -> [index |-> 0, existed |-> {}]
       [] segment # n.seg /\ i = Len(n.seg) ->
            IF Len(before) < Len(ks)
            THEN indexOf(ks[Len(before) + 1], passed, Drop(segment, i), use, up)
            ELSE [index |-> passed, existed |-> {}]
       [] OTHER ->
            [index |-> count
                       + (CASE up /\ segment[i + 1] > n.seg[i + 1] -> 1
                            [] ~up /\ segment[i + 1] < n.seg[i + 1] ->
                                 SumOf(ks, LAMBDA k : Relevant(k, use))
                            [] OTHER -> 0),
             existed |-> {}]

(* Between the min'th and the max'th: each entry with its index. *)
RECURSIVE eachBetweenIndex(_, _, _, _, _, _), reverseEachBetweenIndex(_, _, _, _, _, _)
eachBetweenIndex(n, prefix, count, min, max, use) ==
  LET key == prefix \o n.seg
      shown == /\ Wanted(n, use)
               /\ \A m \in min : count >= m
               /\ \A m \in max : count <= m
      c == count + IF shown THEN Own(n, use) ELSE 0
      ks == n.kids
      At(j) == c + SumOf(SubSeq(ks, 1, j - 1), LAMBDA k : Relevant(k, use))
  IN FlattenSeq(<<IF shown THEN <<[entry |-> Seen(n, key), index |-> count]>> ELSE <<>>>>
       \o [j \in DOMAIN ks |->
             IF /\ \A m \in min : Relevant(ks[j], use) + At(j) > m
                /\ \A m \in max : At(j) <= m
             THEN eachBetweenIndex(ks[j], key, At(j), min, max, use) ELSE <<>>])
reverseEachBetweenIndex(n, prefix, count, min, max, use) ==
  LET key == prefix \o n.seg
      ks == Reverse(n.kids)
      At(j) == count + SumOf(SubSeq(ks, 1, j - 1), LAMBDA k : Relevant(k, use))
      last == At(Len(ks) + 1)
      shown == /\ Wanted(n, use)
               /\ \A m \in min : last >= m
               /\ \A m \in max : last <= m
  IN FlattenSeq([j \in DOMAIN ks |->
             IF /\ \A m \in min : Relevant(ks[j], use) + At(j) > m
                /\ \A m \in max : At(j) <= m
             THEN reverseEachBetweenIndex(ks[j], key, At(j), min, max, use) ELSE <<>>]
       \o <<IF shown THEN <<[entry |-> Seen(n, key), index |-> last]>> ELSE <<>>>>)
============================================================================
