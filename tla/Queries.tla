------------------------------ MODULE Queries ------------------------------
(***************************************************************************)
(* The reads of a sub tree and of its mirror: the Mirror operations of     *)
(* radix/tree.go, the slices of dhash/api_functions.go and the buffered    *)
(* reader of dhash/set_ops.go that set expressions are evaluated with.     *)
(*                                                                         *)
(* t is the sub tree at the key of the request, or NoTree.  A bound is a   *)
(* set, empty for nil.  A value may be the key of several mirror entries.  *)
(***************************************************************************)
EXTENDS TreeOps

CONSTANT setOpBufferSize    \* 128 in the code

ASSUME QueriesAssumption == setOpBufferSize \in Nat \ {0}

(* A byte string as a number plus one, without leading zeros.  The number  *)
(* after 255 takes two bytes, and comes before 255 in the order of keys.   *)
RECURSIVE BytesOf(_)
BytesOf(i) == IF i = 0 THEN <<>> ELSE Append(Append(BytesOf(i \div 256), (i \div 16) % 16), i % 16)
incrementBytes(b) == BytesOf(FoldLeft(LAMBDA i, nibble : 16 * i + nibble, 0, b) + 1)

Incremented(bound) == {incrementBytes(b) : b \in bound}
----------------------------------------------------------------------------
(* The mirror *)

(* newMirrorIterator: the bounds once more, for the value alone. *)
Unmirror(es, min, max, mininc, maxinc) ==
  SelectSeq([i \in DOMAIN es |-> Unmirrored(es[i])],
            LAMBDA e : Within(e.key, min, max, mininc, maxinc))
(* Mutant: the inclusive maximum is compared with the joined keys. *)
MirrorMax_Same(max, maxinc) == max

(* An inclusive maximum becomes an exclusive one, the next number. *)
MirrorMax(max, maxinc) == IF maxinc THEN Incremented(max) ELSE max
MirrorEachBetween(t, min, max, mininc, maxinc) ==
  Unmirror(EachBetween(Mirror(t), min, MirrorMax(max, maxinc), mininc, FALSE),
           min, MirrorMax(max, maxinc), mininc, FALSE)
MirrorReverseEachBetween(t, min, max, mininc, maxinc) ==
  Unmirror(ReverseEachBetween(Mirror(t), min, MirrorMax(max, maxinc), mininc, FALSE),
           min, MirrorMax(max, maxinc), mininc, FALSE)
MirrorSizeBetween(t, min, max, mininc, maxinc) ==
  SizeBetween(Mirror(t), IF mininc THEN min ELSE Incremented(min), MirrorMax(max, maxinc),
              TRUE, FALSE)

UnmirrorIndex(es) == [i \in DOMAIN es |-> [es[i] EXCEPT !.entry = Unmirrored(@)]]
MirrorEachBetweenIndex(t, min, max) == UnmirrorIndex(EachBetweenIndex(Mirror(t), min, max))
MirrorReverseEachBetweenIndex(t, min, max) ==
  UnmirrorIndex(ReverseEachBetweenIndex(Mirror(t), min, max))
MirrorNextIndex(t, index) == UnmirrorIndex(NextIndex(Mirror(t), index))
MirrorPrevIndex(t, index) == UnmirrorIndex(PrevIndex(Mirror(t), index))

(* Where a value is: the place of the first entry that begins with it.  (A *)
(* value longer than that whole entry panics.)                             *)
Found(t, key) ==
  LET es == First1(MirrorEachBetween(t, {key}, {}, TRUE, FALSE))
  IN IF es # <<>> /\ Take(es[1].key, Len(key)) = key
     THEN [key |-> MirrorKey(key, es[1].val), existed |-> TRUE]
     ELSE [key |-> key, existed |-> FALSE]
MirrorIndexOf(t, key) ==
  [index |-> IndexOf(Mirror(t), Found(t, key).key).index, existed |-> Found(t, key).existed]
MirrorReverseIndexOf(t, key) ==
  [index |-> ReverseIndexOf(Mirror(t), Found(t, key).key).index, existed |-> Found(t, key).existed]

(* These take the mirror to have an entry: without one they panic.         *)
Cut(t, es) ==
  CASE Mirror(t) = NoTree -> <<>>
    [] Mirror(t) # NoTree /\ es = <<>> -> <<[panic |-> "slice bounds out of range"]>>
    [] OTHER -> <<Unmirrored(es[1])>>
MirrorFirst(t) == Cut(t, First_(Mirror(t)))
MirrorLast(t) == Cut(t, Last_(Mirror(t)))
MirrorIndex(t, n) ==
  LET found == Index(Mirror(t), n) IN Cut(t, [i \in DOMAIN found |-> found[i].entry])
----------------------------------------------------------------------------
(* Slices: a request r has min, max, minInc, maxInc, minIndex, maxIndex    *)
(* and len; an index counts only if its Inc is set.                        *)

Indices(r) == [min |-> IF r.minInc THEN {r.minIndex} ELSE {},
               max |-> IF r.maxInc THEN {r.maxIndex} ELSE {}]
(* The iterator that fills a slice looks at its length after it appends.   *)
UpTo(s, len) == Take(s, IF len < 1 THEN 1 ELSE len)

Slice(t, r) == EachBetween(t, r.min, r.max, r.minInc, r.maxInc)
ReverseSlice(t, r) == ReverseEachBetween(t, r.min, r.max, r.minInc, r.maxInc)
SliceIndex(t, r) == EachBetweenIndex(t, Indices(r).min, Indices(r).max)
ReverseSliceIndex(t, r) == ReverseEachBetweenIndex(t, Indices(r).min, Indices(r).max)
SliceLen(t, r) == UpTo(EachBetween(t, r.min, {}, r.minInc, FALSE), r.len)
ReverseSliceLen(t, r) == UpTo(ReverseEachBetween(t, {}, r.max, FALSE, r.maxInc), r.len)
MirrorSlice(t, r) == MirrorEachBetween(t, r.min, r.max, r.minInc, r.maxInc)
MirrorReverseSlice(t, r) == MirrorReverseEachBetween(t, r.min, r.max, r.minInc, r.maxInc)
MirrorSliceIndex(t, r) == MirrorEachBetweenIndex(t, Indices(r).min, Indices(r).max)
MirrorReverseSliceIndex(t, r) == MirrorReverseEachBetweenIndex(t, Indices(r).min, Indices(r).max)
MirrorSliceLen(t, r) == UpTo(MirrorEachBetween(t, r.min, {}, r.minInc, FALSE), r.len)
MirrorReverseSliceLen(t, r) == UpTo(MirrorReverseEachBetween(t, {}, r.max, FALSE, r.maxInc), r.len)
----------------------------------------------------------------------------
(* treeSkipper: reads a sub tree through a buffer *)

NewSkipper == [buffer |-> <<>>, currentIndex |-> 1]

(* From the tree of the node itself or, with SliceLen, of another one. *)
refill(t, min, inc) ==
  [buffer |-> UpTo(EachBetween(t, min, {}, inc, FALSE), setOpBufferSize), currentIndex |-> 1]

(* Mutant: the rest of the buffer is not looked through. *)
Skip_Next(skipper, t, min, inc) ==
  LET s == IF skipper.buffer = <<>> THEN refill(t, min, inc) ELSE skipper
      i == IF skipper.buffer = <<>> THEN 1 ELSE s.currentIndex + 1
      filled == refill(t, min, inc)
  IN IF i <= Len(s.buffer)
     THEN [skipper |-> [s EXCEPT !.currentIndex = i], result |-> <<s.buffer[i]>>]
     ELSE [skipper |-> filled, result |-> First1(filled.buffer)]

(* nextWithRefill: once the buffer is read it is filled from min on. *)
Skip(skipper, t, min, inc) ==
  LET s == IF skipper.buffer = <<>> THEN refill(t, min, inc) ELSE skipper
      ahead == {i \in s.currentIndex .. Len(s.buffer) :
                  \A m \in min : nComp(s.buffer[i].key, m) > (IF inc THEN -1 ELSE 0)}
      filled == refill(t, min, inc)
  IN CASE s.buffer = <<>> -> [skipper |-> s, result |-> <<>>]
       [] s.buffer # <<>> /\ ahead # {} ->
            [skipper |-> [s EXCEPT !.currentIndex = Min(ahead)],
             result |-> <<s.buffer[Min(ahead)]>>]
       [] OTHER -> [skipper |-> filled, result |-> First1(filled.buffer)]
============================================================================
