------------------------------- MODULE LogOps -------------------------------
(***************************************************************************)
(* The operations a radix.Tree logs (persistence.Op), what Tree.Restore    *)
(* makes of them when they are played back, and what Logger.snapshot keeps *)
(* of them.                                                                *)
(*                                                                         *)
(* A tree is reduced to what the log is there to bring back: the byte      *)
(* values under its keys, its sub trees with theirs, and configurations.   *)
(* Timestamps, tombstones and mirrors are not in it.                       *)
(***************************************************************************)
EXTENDS Naturals, SequencesExt

CONSTANTS Key, SubKey,   \* keys of the tree and of its sub trees
          Value,         \* byte values, and configurations
          Empty,         \* the key of no bytes, in Key and SubKey or not
          Nil            \* no key, no value

ASSUME LogOpsAssumption == Nil \notin Key \cup SubKey \cup Value /\ Empty # Nil

Op == [conf : BOOLEAN, put : BOOLEAN, clear : {"no", "clear", "kill"},
       key : Key \cup {Nil}, sub : SubKey \cup {Nil}, val : Value \cup {Nil}]

PutOp(k, s, v) == [conf |-> FALSE, put |-> TRUE, clear |-> "no", key |-> k, sub |-> s, val |-> v]
DelOp(k, s) == [conf |-> FALSE, put |-> FALSE, clear |-> "no", key |-> k, sub |-> s, val |-> Nil]
ClearOp(k, how) == [conf |-> FALSE, put |-> FALSE, clear |-> how, key |-> k, sub |-> Nil, val |-> Nil]
ConfOp(k, v) == [conf |-> TRUE, put |-> FALSE, clear |-> "no", key |-> k, sub |-> Nil, val |-> v]

(* gob leaves out a slice of no bytes, which is nil when it is read back. *)
OrNil(k) == IF k = Empty THEN Nil ELSE k
Written(op) == [op EXCEPT !.key = OrNil(@), !.sub = OrNil(@)]
----------------------------------------------------------------------------
(* Trees *)

NoSubTree == [there |-> FALSE, conf |-> Nil, bytes |-> [s \in SubKey |-> Nil]]
EmptyTree == [conf |-> Nil, bytes |-> [k \in Key |-> Nil], subs |-> [k \in Key |-> NoSubTree]]

(* Tree.RealSize is 0. *)
IsEmpty(sub) == \A s \in SubKey : sub.bytes[s] = Nil

Put(t, k, v) == [t EXCEPT !.bytes[k] = v]
Del(t, k) == [t EXCEPT !.bytes[k] = Nil]

SubPut(t, k, s, v) == [t EXCEPT !.subs[k] = [@ EXCEPT !.there = TRUE, !.bytes[s] = v]]

(* A sub tree that loses its last value goes, with its configuration. *)
SubDel(t, k, s) ==
  LET left == [t.subs[k] EXCEPT !.bytes[s] = Nil]
  IN [t EXCEPT !.subs[k] = IF IsEmpty(left) THEN NoSubTree ELSE left]

SubClear(t, k) == [t EXCEPT !.subs[k] = [@ EXCEPT !.bytes = NoSubTree.bytes]]
SubKill(t, k) == [t EXCEPT !.subs[k] = NoSubTree]
Configure(t, v) == [t EXCEPT !.conf = v]
SubConfigure(t, k, v) == [t EXCEPT !.subs[k] = [@ EXCEPT !.there = TRUE, !.conf = v]]
----------------------------------------------------------------------------
(* Playing a log back *)

(* What Restore does with one operation; nil is the key of no bytes. *)
Restore(t, op) ==
  LET k == IF op.key = Nil THEN Empty ELSE op.key IN
  CASE op.conf /\ op.key = Nil  -> Configure(t, op.val)
    [] op.conf /\ op.key # Nil  -> SubConfigure(t, k, op.val)
    [] op.put /\ op.sub = Nil   -> Put(t, k, op.val)
    [] op.put /\ op.sub # Nil   -> SubPut(t, k, op.sub, op.val)
    [] op.clear = "clear"       -> SubClear(t, k)
    [] op.clear = "kill"        -> SubKill(t, k)
    [] ~op.conf /\ ~op.put /\ op.clear = "no" /\ op.sub = Nil -> Del(t, k)
    [] ~op.conf /\ ~op.put /\ op.clear = "no" /\ op.sub # Nil -> SubDel(t, k, op.sub)

(* t after the operations, one after the other. *)
Replayed(t, ops) ==
  LET after[i \in 0 .. Len(ops)] == IF i = 0 THEN t ELSE Restore(after[i - 1], ops[i])
  IN after[Len(ops)]
Replay(ops) == Replayed(EmptyTree, ops)

(* Mutant: a cleared sub tree stays in the snapshot. *)
Compress_KeepsCleared(kept, op) ==
  LET samePlace == {c \in kept : c.conf = op.conf /\ c.key = op.key /\ c.sub = op.sub}
  IN IF op.conf \/ op.put THEN (kept \ samePlace) \cup {op} ELSE kept \ samePlace

(***************************************************************************)
(* What the maps of Logger.snapshot hold after one more operation: for     *)
(* every place written the last operation there.  A Clear without a key    *)
(* empties byteCompressor, one with a key drops a sub tree, and neither    *)
(* touches the configurations.                                             *)
(***************************************************************************)
Compress(kept, op) ==
  LET samePlace == {c \in kept : c.conf = op.conf /\ c.key = op.key /\ c.sub = op.sub}
      cleared   == {c \in kept : ~c.conf /\ IF op.key = Nil THEN c.sub = Nil
                                            ELSE c.key = op.key /\ c.sub # Nil}
  IN CASE op.conf \/ op.put -> (kept \ samePlace) \cup {op}
       [] op.clear # "no"   -> kept \ cleared
       [] OTHER             -> kept \ samePlace

Compressed(ops) ==
  LET kept[i \in 0 .. Len(ops)] == IF i = 0 THEN {} ELSE Compress(kept[i - 1], ops[i])
  IN kept[Len(ops)]

(* The order of the dump is that of Go's maps; every place occurs once. *)
Snapshot(ops) == SetToSeq(Compressed(ops))
============================================================================
