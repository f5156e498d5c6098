------------------------------ MODULE TreeOps ------------------------------
(***************************************************************************)
(* radix/tree.go: the operations of a Tree, as functions of the Tree, the  *)
(* arguments and the time the Tree's timer shows.  Each runs under the     *)
(* Tree's lock.  What they log is modelled in LogOps.                      *)
(*                                                                         *)
(* Of the configuration only "mirrored" has a meaning; conf is its value.  *)
(* Values are nibble sequences too, since the keys of a mirror are made of *)
(* them.  A mirror has no mirror of its own.                               *)
(***************************************************************************)
EXTENDS Trie

NewTreeTimer(now) ==
  [root |-> rehash(newNode(<<>>, NoBytes, NoTree, 0, TRUE, {}), <<>>, now),
   mirror |-> NoTree, conf |-> "", confTs |-> 0, dataTs |-> now]

escapeBytes(b) ==
  FlattenSeq([i \in 1 .. Len(b) \div 2 |->
                LET byte == <<b[2 * i - 1], b[2 * i]>>
                IN IF byte = <<0, 0>> THEN byte \o byte ELSE byte])
MirrorKey(value, key) == value \o <<0, 0>> \o escapeBytes(key)
(* The mirror iterators and Mirror* cut the key and the zero off again. *)
Unmirrored(e) ==
  [e EXCEPT !.key = Take(@, Len(@) - Len(escapeBytes(e.val)) - 2)]

put(t, key, byteValue, treeValue, use, timestamp, now) ==
  [t EXCEPT !.dataTs = timestamp,
            !.root = insert(@, newNode(key, byteValue, treeValue, timestamp, FALSE, use), now)]

mirrorPut(t, key, value, timestamp, now) ==
  IF t.mirror = NoTree THEN t
  ELSE [t EXCEPT !.mirror = put(@, MirrorKey(value, key), key, NoTree, {"byte"}, timestamp, now)]
mirrorFakeDel(t, key, value, timestamp, now) ==
  IF t.mirror = NoTree THEN t
  ELSE [t EXCEPT !.mirror.root = fakeDel(@, MirrorKey(value, key), {"byte"}, timestamp, now)]
mirrorDel(t, key, value, now) ==
  IF t.mirror = NoTree THEN t
  ELSE [t EXCEPT !.mirror.root = del(@, <<>>, MirrorKey(value, key), {"byte"}, now)]

(* What is in the tree already is put in the new mirror. *)
startMirroring(t, now) ==
  FoldSeq(LAMBDA e, u : mirrorPut(u, e.key, e.val, e.ts, now),
          [t EXCEPT !.mirror = NewTreeTimer(now)], each(t.root, <<>>, {"byte"}))
Configure(t, conf, ts, now) ==
  LET u == CASE conf = "yes" /\ t.conf # "yes" -> startMirroring(t, now)
             [] conf # "yes" /\ t.conf = "yes" -> [t EXCEPT !.mirror = NoTree]
             [] OTHER -> t
  IN [u EXCEPT !.conf = conf, !.confTs = ts]
AddConfiguration(t, ts, value, now) ==
  IF t.conf # value THEN Configure(t, value, ts, now) ELSE t
----------------------------------------------------------------------------
(* The main tree *)

Get(t, key) == get(t.root, key)

(* Mutant: the mirror keeps the value that is replaced. *)
Put_KeepsMirror(t, key, value, timestamp, now) ==
  mirrorPut(put(t, key, value, NoTree, {"byte"}, timestamp, now), key, value, timestamp, now)

Put(t, key, value, timestamp, now) ==
  LET old == Get(t, key)
      u == put(t, key, value, NoTree, {"byte"}, timestamp, now)
      existed == old.use # {}                              \* ex*byteValue
  IN mirrorPut(IF existed THEN mirrorDel(u, key, old.val, now) ELSE u,
               key, value, timestamp, now)

FakeDel(t, key, timestamp, now) ==
  LET old == Get(t, key)
      u == [t EXCEPT !.root = fakeDel(@, key, {"byte"}, timestamp, now)]
  IN IF "byte" \in old.use THEN mirrorFakeDel(u, key, old.val, timestamp, now) ELSE u

Del(t, key, now) ==
  LET old == Get(t, key)
      u == [t EXCEPT !.root = del(@, <<>>, key, {"byte"}, now)]
  IN IF "byte" \in old.use THEN mirrorDel(u, key, old.val, now) ELSE u

Clear(t, timestamp, now) ==
  LET fresh == NewTreeTimer(now).root
  IN [t EXCEPT !.dataTs = timestamp, !.root = fresh,
               !.mirror = IF @ = NoTree THEN @
                          ELSE [@ EXCEPT !.dataTs = timestamp, !.root = fresh]]

(* The compare-and-set operations of Sync: nothing happens unless the      *)
(* timestamp at the key is the expected one.                               *)

(* Mutants: whatever the timestamp is. *)
PutTimestamp_Always(t, key, value, present, expected, timestamp, now) ==
  LET node == newNode(key, value, NoTree, timestamp, FALSE, IF present THEN {"byte"} ELSE {})
  IN [t EXCEPT !.dataTs = timestamp, !.root = insertHelp(@, <<>>, node, {"byte"}, now)]
DelTimestamp_Always(t, key, expected, now) == [t EXCEPT !.root = del(@, <<>>, key, {"byte"}, now)]

PutTimestamp(t, key, value, present, expected, timestamp, now) ==
  LET old == Get(t, key)
      node == newNode(key, value, NoTree, timestamp, FALSE, IF present THEN {"byte"} ELSE {})
      u == [t EXCEPT !.dataTs = timestamp,
                     !.root = insertHelp(@, <<>>, node, {"byte"}, now)]
  IN IF old.ts # expected THEN t
     ELSE mirrorPut(mirrorDel(u, key, old.val, now), key, value, timestamp, now)
DelTimestamp(t, key, expected, now) ==
  LET old == Get(t, key)
  IN IF old.ts # expected THEN t
     ELSE mirrorDel([t EXCEPT !.root = del(@, <<>>, key, {"byte"}, now)], key, old.val, now)
----------------------------------------------------------------------------
(* The sub trees *)

newTreeWith(key, value, timestamp, now) ==
  PutTimestamp(NewTreeTimer(now), key, value, TRUE, 0, timestamp, now)

HasSub(t, key) == "tree" \in Get(t, key).use /\ Get(t, key).tree # NoTree
Sub(t, key) == IF HasSub(t, key) THEN Get(t, key).tree ELSE NoTree
(* put, and putTimestamp with the timestamp just read, of a sub tree. *)
PutSub(t, key, sub, now) == put(t, key, NoBytes, sub, {"tree"}, Get(t, key).ts, now)
DelSub(t, key, now) == [t EXCEPT !.root = del(@, <<>>, key, {"tree"}, now)]

SubPut(t, key, subKey, value, timestamp, now) ==
  PutSub(t, key, IF HasSub(t, key) THEN Put(Sub(t, key), subKey, value, timestamp, now)
                 ELSE newTreeWith(subKey, value, timestamp, now), now)
SubDel(t, key, subKey, now) ==
  LET sub == Del(Sub(t, key), subKey, now)
  IN IF ~HasSub(t, key) THEN t
     ELSE IF RealSize(sub) = 0 THEN DelSub(t, key, now) ELSE PutSub(t, key, sub, now)
SubFakeDel(t, key, subKey, timestamp, now) ==
  IF ~HasSub(t, key) THEN t
  ELSE PutSub(t, key, FakeDel(Sub(t, key), subKey, timestamp, now), now)
SubClear(t, key, timestamp, now) ==
  IF ~HasSub(t, key) THEN t ELSE PutSub(t, key, Clear(Sub(t, key), timestamp, now), now)
SubKill(t, key, now) == IF ~HasSub(t, key) THEN t ELSE DelSub(t, key, now)

(* A new sub tree holds the value as present, whatever present says. *)
SubPutTimestamp(t, key, subKey, value, present, subExpected, subTimestamp, now) ==
  LET sub == Get(t, key).tree
  IN PutSub(t, key, IF sub = NoTree THEN newTreeWith(subKey, value, subTimestamp, now)
                    ELSE PutTimestamp(sub, subKey, value, present, subExpected, subTimestamp, now),
            now)
SubDelTimestamp(t, key, subKey, subExpected, now) ==
  LET sub == DelTimestamp(Sub(t, key), subKey, subExpected, now)
  IN IF ~HasSub(t, key) THEN t
     ELSE IF Size(sub) = 0 THEN DelSub(t, key, now) ELSE PutSub(t, key, sub, now)
SubClearTimestamp(t, key, expected, timestamp, now) ==
  IF HasSub(t, key) /\ Sub(t, key).dataTs = expected
  THEN PutSub(t, key, Clear(Sub(t, key), timestamp, now), now) ELSE t
SubKillTimestamp(t, key, expected, now) ==
  IF HasSub(t, key) /\ Sub(t, key).dataTs = expected THEN DelSub(t, key, now) ELSE t

SubConfigure(t, key, conf, timestamp, now) ==
  PutSub(t, key, Configure(IF HasSub(t, key) THEN Sub(t, key) ELSE NewTreeTimer(now),
                           conf, timestamp, now), now)
SubConfiguration(t, key) == IF HasSub(t, key) THEN Sub(t, key).conf ELSE ""
SubAddConfiguration(t, key, ts, value, now) ==
  IF SubConfiguration(t, key) # value THEN SubConfigure(t, key, value, ts, now) ELSE t

Finger(t, key) == finger(t.root, <<>>, key)
SubFinger(t, key, subKey) ==
  IF HasSub(t, key) THEN Finger(Sub(t, key), subKey) ELSE NoPrint(<<>>)
----------------------------------------------------------------------------
(* Reading.  An iteration is the sequence of what it shows; a single entry *)
(* is a sequence of one, or none where the code says it does not exist.    *)
(* Reads of NoTree, of a sub tree or a mirror that is not there, see none. *)

First1(s) == Take(s, 1)

Each(t) == IF t = NoTree THEN <<>> ELSE each(t.root, <<>>, {"byte"})
ReverseEach(t) == IF t = NoTree THEN <<>> ELSE reverseEach(t.root, <<>>, {"byte"})
EachBetween(t, min, max, mininc, maxinc) ==
  IF t = NoTree THEN <<>> ELSE eachBetween(t.root, <<>>, min, max, mininc, maxinc, {"byte"})
ReverseEachBetween(t, min, max, mininc, maxinc) ==
  IF t = NoTree THEN <<>>
  ELSE reverseEachBetween(t.root, <<>>, min, max, mininc, maxinc, {"byte"})
EachBetweenIndex(t, min, max) ==
  IF t = NoTree THEN <<>> ELSE eachBetweenIndex(t.root, <<>>, 0, min, max, {"byte"})
ReverseEachBetweenIndex(t, min, max) ==
  IF t = NoTree THEN <<>> ELSE reverseEachBetweenIndex(t.root, <<>>, 0, min, max, {"byte"})

SizeBetween(t, min, max, mininc, maxinc) ==
  IF t = NoTree THEN 0
  ELSE sizeBetween(t.root, <<>>, min, max, mininc, maxinc, {"byte", "tree"})
RealSizeBetween(t, min, max, mininc, maxinc) ==
  sizeBetween(t.root, <<>>, min, max, mininc, maxinc, {})

IndexOf(t, key) ==
  IF t = NoTree THEN [index |-> 0, existed |-> {}] ELSE indexOf(t.root, 0, key, {"byte"}, TRUE)
ReverseIndexOf(t, key) ==
  IF t = NoTree THEN [index |-> 0, existed |-> {}] ELSE indexOf(t.root, 0, key, {"byte"}, FALSE)

PrevMarker(t, key) == First1(reverseEachBetween(t.root, <<>>, {}, {key}, FALSE, FALSE, {}))
NextMarker(t, key) == First1(eachBetween(t.root, <<>>, {key}, {}, FALSE, FALSE, {}))
NextMarkerIndex(t, index) == First1(eachBetweenIndex(t.root, <<>>, 0, {index}, {}, {}))
PrevMarkerIndex(t, index) == First1(reverseEachBetweenIndex(t.root, <<>>, 0, {}, {index}, {}))
Prev(t, key) == First1(ReverseEachBetween(t, {}, {key}, FALSE, FALSE))
Next_(t, key) == First1(EachBetween(t, {key}, {}, FALSE, FALSE))
NextIndex(t, index) == First1(EachBetweenIndex(t, {index + 1}, {index + 1}))
PrevIndex(t, index) == First1(EachBetweenIndex(t, {index - 1}, {index - 1}))
First_(t) == First1(Each(t))
Last_(t) == First1(ReverseEach(t))
Index(t, n) == First1(EachBetweenIndex(t, {n}, {n}))
ReverseIndex(t, n) == First1(ReverseEachBetweenIndex(t, {n}, {n}))

Mirror(t) == IF t = NoTree THEN NoTree ELSE t.mirror
============================================================================
