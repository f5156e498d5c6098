-------------------------------- MODULE Tree --------------------------------
(***************************************************************************)
(* A radix.Tree under any sequence of its operations, local ones and those *)
(* of a Sync.  Every operation has a timestamp of its own, as the timer    *)
(* gives them out; in between a tombstone's lifetime may pass.             *)
(***************************************************************************)
EXTENDS Queries

CONSTANTS Keys,       \* keys of the main tree
          SubKeys,    \* keys of the sub trees
          SubAt,      \* the keys of the main tree that may have one
          Vals,       \* the values that are put
          RangeKeys,  \* the keys that bound a range
          FirstPuts,  \* the sequences of addresses that a tree may be filled with at first
          MaxOps,     \* [n : number of operations after n first puts]
          MaxElapse   \* bound: how often a lifetime passes

ASSUME TreeAssumption ==
  /\ SubAt \subseteq Keys /\ RangeKeys \subseteq Keys
  /\ \A s \in FirstPuts : IsInjective(s) /\ MaxOps[Len(s)] \in Nat
  /\ MaxElapse \in Nat

VARIABLES tree,
          marks,   \* what is found in it, address by address
          now,     \* the time
          left,    \* how many operations are left
          op       \* the last one

vars == <<tree, marks, now, left, op>>

Addresses == {<<k>> : k \in Keys} \cup {<<k, s>> : k \in SubAt, s \in SubKeys}
AVal == CHOOSE v \in Vals : TRUE
NoMark == [val |-> NoBytes, ts |-> 0, live |-> FALSE]
Nothing == [is |-> "nothing", at |-> <<>>, mark |-> NoMark]

(* The tree after Put or SubPut at the addresses of s, one after the other. *)
RECURSIVE Built(_)
Built(s) ==
  IF s = <<>> THEN NewTreeTimer(0) ELSE
  LET before == Built(Front(s))
      a == Last(s)
      t == Len(s)
  IN IF Len(a) = 1 THEN Put(before, a[1], AVal, t, t) ELSE SubPut(before, a[1], a[2], AVal, t, t)

MarkAt(t, a) ==
  LET top == Get(t, a[1])
      e == IF Len(a) = 1 THEN top
           ELSE IF "tree" \in top.use /\ top.tree # NoTree THEN Get(top.tree, a[2])
           ELSE [val |-> NoBytes, ts |-> 0, use |-> {}]
  IN [val |-> e.val, ts |-> e.ts, live |-> "byte" \in e.use]
Marks(t) == [a \in {a \in Addresses : MarkAt(t, a).ts # 0} |-> MarkAt(t, a)]

Init ==
  /\ \E s \in FirstPuts :
       /\ tree = Built(s)
       /\ now = Len(s)
       /\ left = MaxOps[Len(s)]
  /\ marks = Marks(tree)
  /\ op = Nothing
----------------------------------------------------------------------------
(* One operation: the tree it leaves, and what it promises. *)
Do(t, promise) ==
  /\ left > 0
  /\ left' = left - 1
  /\ now' = now + 1
  /\ tree' = t
  /\ marks' = Marks(t)
  /\ op' = promise

T == now + 1                                   \* the time of the operation
Mark(a, m) == [is |-> "mark", at |-> a, mark |-> m]
Unmark(a) == [is |-> "unmark", at |-> a, mark |-> NoMark]
UnmarkSub(k) == [is |-> "unmark sub", at |-> <<k, <<>>>>, mark |-> NoMark]
NothingSub(k) == [Nothing EXCEPT !.at = <<k, <<>>>>]
Alive(v) == [val |-> v, ts |-> now + 1, live |-> TRUE]
Tombstone == [val |-> NoBytes, ts |-> now + 1, live |-> FALSE]

DoPut == \E k \in Keys, v \in Vals : Do(Put(tree, k, v, T, T), Mark(<<k>>, Alive(v)))
DoFakeDel == \E k \in Keys : Do(FakeDel(tree, k, T, T), Mark(<<k>>, Tombstone))
DoDel == \E k \in Keys : Do(Del(tree, k, T), Unmark(<<k>>))
DoClear == Do(Clear(tree, T, T), [Nothing EXCEPT !.is = "unmark all"])

(* A Sync puts what it has read, a value or a tombstone, or deletes it, if *)
(* the timestamp is still the one of the print it goes by.                 *)
Copy(present) == IF present THEN Alive(AVal) ELSE Tombstone
DoPutTimestamp ==
  \E k \in Keys, present \in BOOLEAN : \E expected \in {0, Get(tree, k).ts} :
    Do(PutTimestamp(tree, k, Copy(present).val, present, expected, T, T),
       IF Get(tree, k).ts = expected THEN Mark(<<k>>, Copy(present)) ELSE Nothing)
DoDelTimestamp ==
  \E k \in Keys : \E expected \in {0, Get(tree, k).ts} :
    Do(DelTimestamp(tree, k, expected, T),
       IF Get(tree, k).ts = expected THEN Unmark(<<k>>) ELSE Nothing)

DoSubPut ==
  \E k \in SubAt, s \in SubKeys, v \in Vals :
    Do(SubPut(tree, k, s, v, T, T), Mark(<<k, s>>, Alive(v)))
DoSubDel == \E k \in SubAt, s \in SubKeys : Do(SubDel(tree, k, s, T), Unmark(<<k, s>>))
DoSubFakeDel ==
  \E k \in SubAt, s \in SubKeys :
    Do(SubFakeDel(tree, k, s, T, T),
       IF HasSub(tree, k) THEN Mark(<<k, s>>, Tombstone) ELSE Nothing)
DoSubClear == \E k \in SubAt : Do(SubClear(tree, k, T, T), UnmarkSub(k))
DoSubKill == \E k \in SubAt : Do(SubKill(tree, k, T), UnmarkSub(k))

(* The first value that is copied into a sub tree is live there, even if   *)
(* it is a tombstone.                                                      *)
SubTs(k, s) == IF HasSub(tree, k) THEN Get(Sub(tree, k), s).ts ELSE 0
DoSubPutTimestamp ==
  \E k \in SubAt, s \in SubKeys, present \in BOOLEAN : \E expected \in {0, SubTs(k, s)} :
    Do(SubPutTimestamp(tree, k, s, Copy(present).val, present, expected, T, T),
       CASE ~HasSub(tree, k) -> Mark(<<k, s>>, Alive(Copy(present).val))
         [] HasSub(tree, k) /\ SubTs(k, s) = expected -> Mark(<<k, s>>, Copy(present))
         [] OTHER -> NothingSub(k))
DoSubDelTimestamp ==
  \E k \in SubAt, s \in SubKeys : \E expected \in {0, SubTs(k, s)} :
    Do(SubDelTimestamp(tree, k, s, expected, T),
       IF SubTs(k, s) = expected THEN Unmark(<<k, s>>) ELSE NothingSub(k))

SubDataTs(k) == IF HasSub(tree, k) THEN Sub(tree, k).dataTs ELSE 0
DoSubClearTimestamp ==
  \E k \in SubAt : \E expected \in {0, SubDataTs(k)} :
    Do(SubClearTimestamp(tree, k, expected, T, T),
       IF SubDataTs(k) = expected THEN UnmarkSub(k) ELSE NothingSub(k))
DoSubKillTimestamp ==
  \E k \in SubAt : \E expected \in {0, SubDataTs(k)} :
    Do(SubKillTimestamp(tree, k, expected, T),
       IF SubDataTs(k) = expected THEN UnmarkSub(k) ELSE NothingSub(k))

DoAddConfiguration ==
  \E c \in {"yes", "no"} : Do(AddConfiguration(tree, T, c, T), Nothing)
DoSubAddConfiguration ==
  \E k \in SubAt, c \in {"yes", "no"} : Do(SubAddConfiguration(tree, k, T, c, T), NothingSub(k))

Elapse ==
  /\ left > 0 /\ now < MaxElapse * (ZombieLifetime + 1)
  /\ now' = now + ZombieLifetime + 1
  /\ op' = Nothing
  /\ UNCHANGED <<tree, marks, left>>

Next ==
  \/ DoPut \/ DoFakeDel \/ DoDel \/ DoClear \/ DoPutTimestamp \/ DoDelTimestamp
  \/ DoSubPut \/ DoSubDel \/ DoSubFakeDel \/ DoSubClear \/ DoSubKill
  \/ DoSubPutTimestamp \/ DoSubDelTimestamp \/ DoSubClearTimestamp \/ DoSubKillTimestamp
  \/ DoAddConfiguration \/ DoSubAddConfiguration \/ Elapse

Spec == Init /\ [][Next]_vars
----------------------------------------------------------------------------
Live == {a \in DOMAIN marks : marks[a].live}

Trees == {tree} \cup {Sub(tree, k) : k \in {k \in SubAt : HasSub(tree, k)}}
InOrder == SetToSortSeq(Keys \cup SubKeys, LAMBDA a, b : nComp(a, b) < 0)
LiveKeys(t) == SelectSeq(InOrder, LAMBDA k : "byte" \in Get(t, k).use)
KeySeq(es) == [i \in DOMAIN es |-> es[i].key]

(***************************************************************************)
(* The tree is the map it promises to be: an operation changes no mark but *)
(* its own, whatever branches, merges and collections it makes on the way. *)
(***************************************************************************)
Map == INSTANCE KeyMap WITH Lifetime <- ZombieLifetime
ImplementsKeyMap == Map!Spec

(***************************************************************************)
(* Size counts what is live, in the tree and in its sub trees, from cached *)
(* counters; RealSize counts the marks, and until something next changes   *)
(* above it also those of a sub tree that gc has dropped, all of whose     *)
(* marks were tombstones of a lifetime ago.                                *)
(***************************************************************************)
Dropped == UNION {{<<k, s>> : s \in SubKeys} :
                    k \in {k \in SubAt : ~HasSub(tree, k) /\ now > ZombieLifetime}}
SizesAreRight ==
  /\ Size(tree) = Cardinality(Live)
  /\ RealSize(tree) \in Cardinality(DOMAIN marks) ..
                      Cardinality(DOMAIN marks) + Cardinality(Dropped)
  /\ \A t \in Trees \ {tree} :
       RealSize(t) = Cardinality({s \in SubKeys : Get(t, s).ts # 0})

(***************************************************************************)
(* Iterating and counting between any two bounds finds exactly the live    *)
(* keys between them, in order or in reverse.                              *)
(***************************************************************************)
Bounds == {{}} \cup {{k} : k \in RangeKeys}
RangesAreRight ==
  \A min, max \in Bounds :
  \A mininc \in {min # {}, FALSE}, maxinc \in {max # {}, FALSE} :
    LET In(k) == /\ \A m \in min : nComp(m, k) < 0 \/ (mininc /\ k = m)
                 /\ \A m \in max : nComp(k, m) < 0 \/ (maxinc /\ k = m)
    IN /\ \A t \in Trees :
            LET want == SelectSeq(LiveKeys(t), In)
            IN /\ KeySeq(EachBetween(t, min, max, mininc, maxinc)) = want
               /\ KeySeq(ReverseEachBetween(t, min, max, mininc, maxinc)) = Reverse(want)
       /\ SizeBetween(tree, min, max, mininc, maxinc)
            = Cardinality({a \in Live : In(a[1])})

(***************************************************************************)
(* Where no live key begins another, the index of every live key is its    *)
(* place, from the start and from the end, and finds the key again.        *)
(* (Below a live key the indices are wrong: IndexOf counts the shorter key *)
(* in both directions, and Index does not skip it.)                        *)
(***************************************************************************)
KeyAt(s) == [i \in DOMAIN s |-> s[i].entry.key]
PrefixFree(K) == \A a, b \in K : a # b => ~IsPrefix(a, b)
IndicesAreRight ==
  \A t \in Trees : PrefixFree(Range(LiveKeys(t))) =>
    LET order == LiveKeys(t)
        n == Len(order)
    IN /\ \A i \in 1 .. n :
            /\ IndexOf(t, order[i]).index = i - 1
            /\ ReverseIndexOf(t, order[i]).index = n - i
            /\ KeyAt(Index(t, i - 1)) = <<order[i]>>
            /\ KeyAt(ReverseIndex(t, n - i)) = <<order[i]>>
            /\ KeyAt(NextIndex(t, i - 1)) = (IF i < n THEN <<order[i + 1]>> ELSE <<>>)
            /\ KeyAt(PrevIndex(t, i - 1)) = (IF i > 1 THEN <<order[i - 1]>> ELSE <<>>)

(***************************************************************************)
(* A mirror holds the values of its tree with their keys, and no others,   *)
(* apart from entries without a value, which a copied tombstone leaves.    *)
(***************************************************************************)
MirrorAgrees ==
  \A t \in Trees :
    /\ (t.mirror # NoTree) <=> (t.conf = "yes")
    /\ t.mirror # NoTree =>
         LET shown == {Unmirrored(e) : e \in Range(Each(t.mirror))}
         IN {<<e.key, e.val, e.ts>> : e \in {e \in shown : e.key # NoBytes}}
            = {<<Get(t, k).val, k, Get(t, k).ts>> :
                 k \in {k \in Range(LiveKeys(t)) : Get(t, k).val # NoBytes}}

(***************************************************************************)
(* Slices of values, forwards and backwards, hold exactly the entries with *)
(* a value between the bounds, ordered by value, and counting agrees, and  *)
(* so do indices where no mirror key begins another.                       *)
(* (For values of one length that begin with no zero and a maximum that is *)
(* not 255: incrementBytes and the joined keys get the others wrong.)      *)
(***************************************************************************)
ValueBounds == {{}} \cup {{v} : v \in Vals}
MirrorReadsAreRight ==
  \A t \in {t \in Trees : t.mirror # NoTree}, min, max \in ValueBounds :
  \A mininc \in {min # {}, FALSE}, maxinc \in {max # {}, FALSE} :
    LET r == [min |-> min, max |-> max, minInc |-> mininc, maxInc |-> maxinc]
        slice == MirrorSlice(t, r)
        entries == {<<Get(t, k).val, k>> :
                      k \in {k \in Range(LiveKeys(t)) : Get(t, k).val # NoBytes}}
    IN /\ {<<e.key, e.val>> : e \in {e \in Range(slice) : e.key # NoBytes}}
            = {x \in entries : Within(x[1], min, max, mininc, maxinc)}
       /\ \A i \in 1 .. Len(slice) - 1 : nComp(slice[i].key, slice[i + 1].key) < 1
       /\ MirrorReverseSlice(t, r) = Reverse(slice)
       /\ MirrorSizeBetween(t, min, max, mininc, maxinc) = Len(slice)
       /\ slice # <<>> /\ min = {} => MirrorFirst(t) = <<slice[1]>>
       /\ slice # <<>> /\ max = {} => MirrorLast(t) = <<Last(slice)>>
       /\ min = {} /\ max = {} /\ PrefixFree(Range(KeySeq(Each(t.mirror)))) =>
            /\ \A i \in DOMAIN slice : MirrorIndex(t, i - 1) = <<slice[i]>>
            /\ \A v \in Vals :
                 LET places == {i \in DOMAIN slice : slice[i].key = v}
                 IN places # {} =>
                      /\ MirrorIndexOf(t, v).index = Min(places) - 1
                      /\ MirrorReverseIndexOf(t, v).index = Len(slice) - Min(places)

(***************************************************************************)
(* Reading page by page, each from the last key of the one before, and     *)
(* skipping forward through a buffer smaller than the tree, miss no live   *)
(* key and show none twice.                                                *)
(***************************************************************************)
Page(min, max, len) ==
  [min |-> min, max |-> max, minInc |-> FALSE, maxInc |-> FALSE, len |-> len]
RECURSIVE Paged(_, _, _, _)
Paged(t, last, len, up) ==
  LET page == IF up THEN SliceLen(t, Page(last, {}, len)) ELSE ReverseSliceLen(t, Page({}, last, len))
  IN IF page = <<>> THEN <<>> ELSE page \o Paged(t, {Last(page).key}, len, up)
AtLeast(t, min, inc) ==
  First1(SelectSeq(LiveKeys(t), LAMBDA k : Within(k, min, {}, inc, FALSE)))
PagesAreRight ==
  \A t \in Trees :
    /\ KeySeq(Paged(t, {}, 2, TRUE)) = LiveKeys(t)
    /\ KeySeq(Paged(t, {}, 1, FALSE)) = Reverse(LiveKeys(t))
    /\ \A j, k \in RangeKeys, inc \in BOOLEAN : nComp(j, k) < 1 =>
         LET one == Skip(NewSkipper, t, {}, TRUE)
             two == Skip(one.skipper, t, {j}, TRUE)
             three == Skip(two.skipper, t, {k}, inc)
         IN /\ KeySeq(one.result) = First1(LiveKeys(t))
            /\ KeySeq(two.result) = AtLeast(t, {j}, TRUE)
            /\ KeySeq(three.result) = AtLeast(t, {k}, inc)
============================================================================
