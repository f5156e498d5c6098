------------------------------ MODULE TreeLog ------------------------------
(***************************************************************************)
(* A radix.Tree with a Logger: which operation logs what.  The tree's lock *)
(* makes each operation and the Dump it ends with one step.                *)
(***************************************************************************)
EXTENDS LogOps

CONSTANTS MaxOps,          \* bound: operations logged
          MaxTombstones,   \* bound: tombstones another tree sends
          EmptyValue       \* what Put makes of a nil value

(* The values of the tree have bytes: EmptyValue is none of them. *)
ASSUME TreeLogAssumption == EmptyValue \notin Value \cup {Nil}

VARIABLES tree,   \* the tree in memory
          log     \* what its logger has written since it was last cleared

vars == <<tree, log>>

Init == tree = EmptyTree /\ log = <<>>

Logs(op) == log' = Append(log, Written(op))
LogsIf(cond, op) == IF cond THEN Logs(op) ELSE UNCHANGED log

TreePut(k, v) == tree' = Put(tree, k, v) /\ Logs(PutOp(k, Nil, v))
TreeDel(k) == tree' = Del(tree, k) /\ LogsIf(tree.bytes[k] # Nil, DelOp(k, Nil))

(* PutTimestamp with present = false, as Sync uses it to spread deletions: *)
(* the tree gets a tombstone, the log a Put of no bytes.                   *)
Tombstones == Cardinality({i \in DOMAIN log : log[i].val = EmptyValue})
TreePutTombstone(k) ==
  /\ Tombstones < MaxTombstones
  /\ tree' = Del(tree, k)
  /\ Logs(PutOp(k, Nil, EmptyValue))

TreeSubPut(k, s, v) == tree' = SubPut(tree, k, s, v) /\ Logs(PutOp(k, s, v))
TreeSubDel(k, s) ==
  tree' = SubDel(tree, k, s) /\ LogsIf(tree.subs[k].bytes[s] # Nil, DelOp(k, s))
TreeSubClear(k) ==
  tree' = SubClear(tree, k) /\ LogsIf(~IsEmpty(tree.subs[k]), ClearOp(k, "clear"))
TreeSubKill(k) ==
  tree' = SubKill(tree, k) /\ LogsIf(~IsEmpty(tree.subs[k]), ClearOp(k, "kill"))
TreeConfigure(v) == tree' = Configure(tree, v) /\ Logs(ConfOp(Nil, v))
TreeSubConfigure(k, v) == tree' = SubConfigure(tree, k, v) /\ Logs(ConfOp(k, v))

(* Clear empties the tree but for its configuration, and the log. *)
TreeClear == tree' = [EmptyTree EXCEPT !.conf = tree.conf] /\ log' = <<>>

Next ==
  /\ Len(log) < MaxOps
  /\ \/ TreeClear
     \/ \E v \in Value : TreeConfigure(v)
     \/ \E k \in Key :
          \/ TreeDel(k) \/ TreePutTombstone(k) \/ TreeSubClear(k) \/ TreeSubKill(k)
          \/ \E v \in Value : TreePut(k, v) \/ TreeSubConfigure(k, v)
          \/ \E s \in SubKey : TreeSubDel(k, s) \/ \E v \in Value : TreeSubPut(k, s, v)

Spec == Init /\ [][Next]_vars
----------------------------------------------------------------------------
(* The logs a restart may find: any first part of what was logged may have *)
(* become a snapshot by then.                                              *)
Restored ==
  {Replay(Snapshot(SubSeq(log, 1, i)) \o SubSeq(log, i + 1, Len(log))) : i \in 0 .. Len(log)}

(* Restore brings back every byte value of the tree and of its sub trees,  *)
(* and no other, wherever the log was turned into a snapshot; where        *)
(* another tree sent a tombstone it may leave a value of no bytes.         *)
DataSurvives ==
  \A t \in Restored :
    /\ \A k \in Key : tree.bytes[k] = IF t.bytes[k] = EmptyValue THEN Nil ELSE t.bytes[k]
    /\ \A k \in Key : t.subs[k].bytes = tree.subs[k].bytes
============================================================================
