--------------------------- MODULE TreeLogProofs ---------------------------
(***************************************************************************)
(* Proofs about TreeLog: what a tree logs restores its data, for every set *)
(* of keys that have bytes, every set of values and every number of        *)
(* operations.                                                             *)
(***************************************************************************)
EXTENDS TreeLog, LogOpsProofs

(* Keys of some bytes are written as they are: see Written. *)
KeysHaveBytes == Empty \notin Key \cup SubKey

Vals == Value \cup {Nil}
Logged == Value \cup {Nil, EmptyValue}
----------------------------------------------------------------------------
(* The log replayed has the data of the tree; a tombstone of another tree  *)
(* is a value of no bytes there.                                           *)
Bytes(v) == IF v = EmptyValue THEN Nil ELSE v
Agrees(t, u) ==
  \A k \in WrittenKey, s \in WrittenSub :
    IF s = Nil THEN At(t, k, s) = Bytes(At(u, k, s)) ELSE At(t, k, s) = At(u, k, s)

Good(t, l) == t \in TreeOf(Vals) /\ l \in Seq(Loggable(Logged)) /\ Agrees(t, Replay(l))
LogInv == Good(tree, log)

LEMMA ValueLemma ==
  /\ Nil \in Vals /\ Nil \in Logged /\ EmptyValue \in Logged /\ EmptyValue \notin Vals
  /\ Vals \subseteq Logged /\ Value \subseteq Vals
BY TreeLogAssumption DEF Vals, Logged

LEMMA KeysLemma ==
  ASSUME KeysHaveBytes
  PROVE  /\ WrittenKey = Key /\ WrittenSub = SubKey \cup {Nil}
         /\ \A k \in Key : KeyOf(k) = k /\ k # Nil
         /\ \A s \in SubKey : s # Nil
         /\ \A k \in Key \cup SubKey \cup {Nil} : OrNil(k) = k
BY LogOpsAssumption DEF KeysHaveBytes, WrittenKey, WrittenSub, KeyOf, OrNil

(* The operations of TreeLog and what is written of them. *)
LEMMA OpsLemma ==
  ASSUME KeysHaveBytes, NEW k \in Key, NEW s \in SubKey \cup {Nil}, NEW v \in Vals
  PROVE  /\ PutOp(k, s, v) \in Loggable(Vals) /\ Written(PutOp(k, s, v)) = PutOp(k, s, v)
         /\ DelOp(k, s) \in Loggable(Vals) /\ Written(DelOp(k, s)) = DelOp(k, s)
         /\ \A how \in {"clear", "kill"} :
              ClearOp(k, how) \in Loggable(Vals) /\ Written(ClearOp(k, how)) = ClearOp(k, how)
         /\ ConfOp(k, v) \in Loggable(Vals) /\ Written(ConfOp(k, v)) = ConfOp(k, v)
         /\ ConfOp(Nil, v) \in Loggable(Vals) /\ Written(ConfOp(Nil, v)) = ConfOp(Nil, v)
         /\ PutOp(k, Nil, EmptyValue) \in Loggable(Logged)
         /\ Written(PutOp(k, Nil, EmptyValue)) = PutOp(k, Nil, EmptyValue)
<1>1. /\ k \in WrittenKey \ {Nil} /\ s \in WrittenSub /\ Nil \in WrittenSub
      /\ OrNil(k) = k /\ OrNil(s) = s /\ OrNil(Nil) = Nil
  BY KeysLemma
<1>2. PutOp(k, Nil, EmptyValue) \in Loggable(Logged)
  BY <1>1, ValueLemma DEF Loggable
<1>3. /\ PutOp(k, s, v) \in Loggable(Vals) /\ DelOp(k, s) \in Loggable(Vals)
      /\ \A how \in {"clear", "kill"} : ClearOp(k, how) \in Loggable(Vals)
      /\ ConfOp(k, v) \in Loggable(Vals) /\ ConfOp(Nil, v) \in Loggable(Vals)
  BY <1>1 DEF Loggable
<1> QED
  BY <1>1, <1>2, <1>3, WrittenLemma

LEMMA MoreValues == Loggable(Vals) \subseteq Loggable(Logged)
BY ValueLemma DEF Loggable

(* One more operation logged: the tree and the log still agree when the    *)
(* tree shows the operation's effect, with a tombstone for no bytes.       *)
LEMMA LogStep ==
  ASSUME NEW t, NEW l, Good(t, l), NEW op \in Loggable(Logged), NEW u \in TreeOf(Vals),
         op.val = EmptyValue => op.sub = Nil,
         \A k \in WrittenKey, s \in WrittenSub :
           At(u, k, s) = IF s = Nil THEN Bytes(Effect(op, k, s, At(t, k, s)))
                         ELSE Effect(op, k, s, At(t, k, s))
  PROVE  Good(u, Append(l, op))
<1> DEFINE r == Replay(l)
<1>1. t \in TreeOf(Vals) /\ l \in Seq(Loggable(Logged)) /\ Agrees(t, r) /\ Nil \in Logged
  BY ValueLemma DEF Good
<1>2. Append(l, op) \in Seq(Loggable(Logged))
  BY <1>1
<1>3. r \in TreeOf(Logged) /\ Replay(Append(l, op)) = Restore(r, op)
  BY <1>1, EmptyTreeLemma, ReplayLemma DEF Replay
<1> HIDE DEF r
<1>4. ASSUME NEW k \in WrittenKey, NEW s \in WrittenSub
      PROVE  IF s = Nil THEN At(u, k, s) = Bytes(At(Restore(r, op), k, s))
             ELSE At(u, k, s) = At(Restore(r, op), k, s)
  <2>1. At(Restore(r, op), k, s) = Effect(op, k, s, At(r, k, s))
    BY <1>1, <1>3, RestoreLemma
  <2>2. IF s = Nil THEN At(t, k, s) = Bytes(At(r, k, s)) ELSE At(t, k, s) = At(r, k, s)
    BY <1>1 DEF Agrees
  <2>3. Bytes(Nil) = Nil /\ \A v : Bytes(Bytes(v)) = Bytes(v)
    BY ValueLemma DEF Bytes
  <2>4. \A v : Bytes(Effect(op, k, s, Bytes(v))) = Bytes(Effect(op, k, s, v))
    BY <2>3 DEF Effect
  <2> QED
    BY <2>1, <2>2, <2>4
<1>5. Agrees(u, Replay(Append(l, op)))
  BY <1>3, <1>4 DEF Agrees
<1> QED
  BY <1>2, <1>5 DEF Good

(* An operation of the tree that logs what Restore would do, or logs       *)
(* nothing when that would change no data.                                 *)
LEMMA OpStep ==
  ASSUME NEW t, NEW l, Good(t, l), NEW op \in Loggable(Vals)
  PROVE  /\ Good(Restore(t, op), Append(l, op))
         /\ (\A k \in WrittenKey, s \in WrittenSub : Effect(op, k, s, At(t, k, s)) = At(t, k, s))
              => Good(Restore(t, op), l)
<1> DEFINE u == Restore(t, op)
<1>1. t \in TreeOf(Vals) /\ l \in Seq(Loggable(Logged)) /\ Agrees(t, Replay(l)) /\ Nil \in Vals
  BY ValueLemma DEF Good
<1>2. u \in TreeOf(Vals) /\ \A k \in WrittenKey, s \in WrittenSub :
        At(u, k, s) = Effect(op, k, s, At(t, k, s))
  BY <1>1, RestoreLemma
<1> HIDE DEF u
<1>3. op \in Loggable(Logged) /\ op.val # EmptyValue
  BY MoreValues, ValueLemma, KindsLemma
<1>4. ASSUME NEW k \in WrittenKey PROVE At(u, k, Nil) # EmptyValue
  <2>1. At(u, k, Nil) = u.bytes[KeyOf(k)] /\ KeyOf(k) \in Key
    BY KeyLemma DEF At
  <2> QED
    BY <1>2, <2>1, ValueLemma DEF TreeOf
<1>5. \A k \in WrittenKey, s \in WrittenSub :
        At(u, k, s) = IF s = Nil THEN Bytes(Effect(op, k, s, At(t, k, s)))
                      ELSE Effect(op, k, s, At(t, k, s))
  BY <1>2, <1>4 DEF Bytes
<1>6. Good(u, Append(l, op))
  BY <1>2, <1>3, <1>5, LogStep
<1>7. ASSUME \A k \in WrittenKey, s \in WrittenSub : Effect(op, k, s, At(t, k, s)) = At(t, k, s)
      PROVE  Good(u, l)
  BY <1>1, <1>2, <1>7 DEF Good, Agrees
<1> QED
  BY <1>6, <1>7 DEF u

----------------------------------------------------------------------------
LEMMA InitLog == Init => LogInv
<1> SUFFICES ASSUME Init PROVE LogInv
  OBVIOUS
<1>1. tree = EmptyTree /\ log = <<>> /\ Nil \in Vals /\ Nil \in Logged
  BY ValueLemma DEF Init
<1>2. EmptyTree \in TreeOf(Vals) /\ EmptyTree \in TreeOf(Logged)
  BY <1>1, EmptyTreeLemma
<1>3. Replay(<<>>) = EmptyTree
  BY <1>1, <1>2, ReplayLemma DEF Replay
<1>4. \A k \in WrittenKey, s \in WrittenSub : At(EmptyTree, k, s) = Nil
  BY <1>1, EmptyTreeLemma
<1>5. <<>> \in Seq(Loggable(Logged))
  OBVIOUS
<1> QED
  BY <1>1, <1>2, <1>3, <1>4, <1>5, TreeLogAssumption DEF LogInv, Good, Agrees, Bytes

(* What an operation logs when it logs what Restore would do. *)
LEMMA Dumped ==
  ASSUME LogInv, NEW op \in Loggable(Vals), Written(op) = op, tree' = Restore(tree, op),
         \/ Logs(op)
         \/ /\ UNCHANGED log
            /\ \A k \in WrittenKey, s \in WrittenSub :
                 Effect(op, k, s, At(tree, k, s)) = At(tree, k, s)
  PROVE  LogInv'
BY OpStep DEF LogInv, Logs

LEMMA TombstoneStep ==
  ASSUME KeysHaveBytes, LogInv, NEW k \in Key, TreePutTombstone(k)
  PROVE  LogInv'
<1> DEFINE del == DelOp(k, Nil)
           put == PutOp(k, Nil, EmptyValue)
<1>1. /\ del \in Loggable(Vals) /\ put \in Loggable(Logged) /\ log' = Append(log, put)
      /\ tree' = Del(tree, k)
  BY OpsLemma, ValueLemma DEF TreePutTombstone, Logs
<1>2. tree \in TreeOf(Vals) /\ Good(tree, log) /\ Nil \in Vals
  BY ValueLemma DEF LogInv, Good
<1>3. Restore(tree, del) = Del(tree, k)
  BY KeysLemma DEF Restore, DelOp
<1>4. /\ tree' \in TreeOf(Vals)
      /\ \A l \in WrittenKey, s \in WrittenSub :
           At(tree', l, s) = Effect(del, l, s, At(tree, l, s))
  BY <1>1, <1>2, <1>3, RestoreLemma
<1>5. ASSUME NEW l \in WrittenKey PROVE At(tree, l, Nil) # EmptyValue
  <2>1. At(tree, l, Nil) = tree.bytes[KeyOf(l)] /\ KeyOf(l) \in Key
    BY KeyLemma DEF At
  <2> QED
    BY <1>2, <2>1, ValueLemma DEF TreeOf
<1>6. ASSUME NEW l \in WrittenKey, NEW s \in WrittenSub
      PROVE  At(tree', l, s) = IF s = Nil THEN Bytes(Effect(put, l, s, At(tree, l, s)))
                               ELSE Effect(put, l, s, At(tree, l, s))
  BY <1>4, <1>5, ValueLemma DEF Effect, DelOp, PutOp, Bytes
<1>7. put.sub = Nil
  BY DEF PutOp
<1> HIDE DEF put
<1>8. Good(tree', Append(log, put))
  BY <1>1, <1>2, <1>4, <1>6, <1>7, LogStep
<1> QED
  BY <1>1, <1>8 DEF LogInv

LEMMA StepLog == KeysHaveBytes /\ LogInv /\ [Next]_vars => LogInv'
<1> SUFFICES ASSUME KeysHaveBytes, LogInv, [Next]_vars PROVE LogInv'
  OBVIOUS
<1>0. tree \in TreeOf(Vals) /\ Nil \in Vals /\ Value \subseteq Vals
  BY ValueLemma DEF LogInv, Good
<1>1. CASE TreeClear
  <2>1. log' = <<>> /\ tree' = [EmptyTree EXCEPT !.conf = tree.conf] /\ tree.conf \in Vals
    BY <1>0, <1>1 DEF TreeClear, TreeOf
  <2>2. EmptyTree \in TreeOf(Vals) /\ EmptyTree \in TreeOf(Logged) /\ Nil \in Logged
    BY EmptyTreeLemma, ValueLemma
  <2>3. tree' \in TreeOf(Vals) /\ tree'.bytes = EmptyTree.bytes /\ tree'.subs = EmptyTree.subs
    BY <2>1, <2>2 DEF TreeOf
  <2>4. Replay(<<>>) = EmptyTree
    BY <2>2, ReplayLemma DEF Replay
  <2>5. \A k \in WrittenKey, s \in WrittenSub : At(EmptyTree, k, s) = Nil /\ At(tree', k, s) = Nil
    BY <1>0, <2>3, EmptyTreeLemma DEF At
  <2>6. <<>> \in Seq(Loggable(Logged))
    OBVIOUS
  <2> QED
    BY <2>1, <2>3, <2>4, <2>5, <2>6, TreeLogAssumption DEF LogInv, Good, Agrees, Bytes
<1>2. ASSUME NEW v \in Value, TreeConfigure(v) PROVE LogInv'
  <2> DEFINE op == ConfOp(Nil, v)
  <2>1. tree' = Restore(tree, op) /\ Logs(op)
    BY <1>2 DEF TreeConfigure, Restore, ConfOp
  <2>2. op \in Loggable(Vals) /\ Written(op) = op
    <3>1. OrNil(Nil) = Nil
      BY LogOpsAssumption DEF OrNil
    <3>2. op \in Loggable(Vals)
      BY <1>0 DEF Loggable
    <3> QED
      BY <3>1, <3>2, WrittenLemma
  <2> QED
    BY <2>1, <2>2, Dumped
<1>3. ASSUME NEW k \in Key, TreeDel(k) PROVE LogInv'
  <2> DEFINE op == DelOp(k, Nil)
  <2>1. op \in Loggable(Vals) /\ Written(op) = op
    BY <1>0, OpsLemma
  <2>2. tree' = Restore(tree, op)
    BY <1>3, KeysLemma DEF TreeDel, Restore, DelOp
  <2>3. Logs(op) \/ (UNCHANGED log /\ tree.bytes[k] = Nil)
    BY <1>3 DEF TreeDel, LogsIf
  <2>4. ASSUME tree.bytes[k] = Nil, NEW l \in WrittenKey, NEW s \in WrittenSub
        PROVE  Effect(op, l, s, At(tree, l, s)) = At(tree, l, s)
    BY <2>4, KeysLemma DEF Effect, At, DelOp
  <2> HIDE DEF op
  <2> QED
    BY <2>1, <2>2, <2>3, <2>4, Dumped
<1>4. ASSUME NEW k \in Key, TreeSubClear(k) \/ TreeSubKill(k) PROVE LogInv'
  <2> DEFINE how == IF TreeSubClear(k) THEN "clear" ELSE "kill"
             op == ClearOp(k, how)
  <2>0. how \in {"clear", "kill"}
    OBVIOUS
  <2>1. op \in Loggable(Vals) /\ Written(op) = op
    BY <1>0, <2>0, OpsLemma
  <2>2. tree' = Restore(tree, op)
    BY <1>4, KeysLemma DEF TreeSubClear, TreeSubKill, Restore, ClearOp
  <2>3. Logs(op) \/ (UNCHANGED log /\ IsEmpty(tree.subs[k]))
    BY <1>4 DEF TreeSubClear, TreeSubKill, LogsIf
  <2>4. ASSUME IsEmpty(tree.subs[k]), NEW l \in WrittenKey, NEW s \in WrittenSub
        PROVE  Effect(op, l, s, At(tree, l, s)) = At(tree, l, s)
    BY <2>0, <2>4, KeysLemma DEF Effect, At, ClearOp, IsEmpty
  <2> HIDE DEF op
  <2> QED
    BY <2>1, <2>2, <2>3, <2>4, Dumped
<1>5. ASSUME NEW k \in Key, NEW v \in Value, TreePut(k, v) PROVE LogInv'
  <2> DEFINE op == PutOp(k, Nil, v)
  <2>1. op \in Loggable(Vals) /\ Written(op) = op
    BY <1>0, OpsLemma
  <2>2. tree' = Restore(tree, op) /\ Logs(op)
    BY <1>5, KeysLemma DEF TreePut, Restore, PutOp
  <2> QED
    BY <2>1, <2>2, Dumped
<1>6. ASSUME NEW k \in Key, NEW v \in Value, TreeSubConfigure(k, v) PROVE LogInv'
  <2> DEFINE op == ConfOp(k, v)
  <2>1. op \in Loggable(Vals) /\ Written(op) = op
    BY <1>0, OpsLemma
  <2>2. tree' = Restore(tree, op) /\ Logs(op)
    BY <1>6, KeysLemma DEF TreeSubConfigure, Restore, ConfOp
  <2> QED
    BY <2>1, <2>2, Dumped
<1>7. ASSUME NEW k \in Key, NEW s \in SubKey, TreeSubDel(k, s) PROVE LogInv'
  <2> DEFINE op == DelOp(k, s)
  <2>1. op \in Loggable(Vals) /\ Written(op) = op
    BY <1>0, OpsLemma
  <2>2. tree' = Restore(tree, op)
    BY <1>7, KeysLemma DEF TreeSubDel, Restore, DelOp
  <2>3. Logs(op) \/ (UNCHANGED log /\ tree.subs[k].bytes[s] = Nil)
    BY <1>7 DEF TreeSubDel, LogsIf
  <2>4. ASSUME tree.subs[k].bytes[s] = Nil, NEW l \in WrittenKey, NEW x \in WrittenSub
        PROVE  Effect(op, l, x, At(tree, l, x)) = At(tree, l, x)
    BY <2>4, KeysLemma DEF Effect, At, DelOp
  <2> HIDE DEF op
  <2> QED
    BY <2>1, <2>2, <2>3, <2>4, Dumped
<1>8. ASSUME NEW k \in Key, NEW s \in SubKey, NEW v \in Value, TreeSubPut(k, s, v) PROVE LogInv'
  <2> DEFINE op == PutOp(k, s, v)
  <2>1. op \in Loggable(Vals) /\ Written(op) = op
    BY <1>0, OpsLemma
  <2>2. tree' = Restore(tree, op) /\ Logs(op)
    BY <1>8, KeysLemma DEF TreeSubPut, Restore, PutOp
  <2> QED
    BY <2>1, <2>2, Dumped
<1>9. CASE UNCHANGED vars
  BY <1>9 DEF vars, LogInv
<1> QED
  BY <1>1, <1>2, <1>3, <1>4, <1>5, <1>6, <1>7, <1>8, <1>9, TombstoneStep DEF Next

(* The log, and the log with any first part of it turned into a snapshot,  *)
(* restore what the tree holds.                                            *)
LEMMA LogInvIsEnough == KeysHaveBytes /\ LogInv => DataSurvives
<1> SUFFICES ASSUME KeysHaveBytes, LogInv,
                    NEW i \in 0 .. Len(log),
                    NEW t, t = Replay(Snapshot(SubSeq(log, 1, i)) \o SubSeq(log, i + 1, Len(log)))
             PROVE  /\ \A k \in Key : tree.bytes[k] = IF t.bytes[k] = EmptyValue THEN Nil ELSE t.bytes[k]
                    /\ \A k \in Key : t.subs[k].bytes = tree.subs[k].bytes
  BY DEF DataSurvives, Restored
<1> DEFINE a == SubSeq(log, 1, i)
           b == SubSeq(log, i + 1, Len(log))
<1>1. /\ tree \in TreeOf(Vals) /\ log \in Seq(Loggable(Logged)) /\ Agrees(tree, Replay(log))
      /\ Nil \in Logged
  BY ValueLemma DEF LogInv, Good
<1>2. /\ a \in Seq(Loggable(Logged)) /\ b \in Seq(Loggable(Logged)) /\ a \o b = log
  <2>1. Len(log) \in Nat /\ \A j \in 1 .. Len(log) : log[j] \in Loggable(Logged)
    BY <1>1
  <2>2. a \in Seq(Loggable(Logged))
    BY <2>1, SubSeqProperties
  <2>3. b \in Seq(Loggable(Logged))
    BY <2>1, SubSeqProperties
  <2>4. a \o b = SubSeq(log, 1, Len(log))
    <3>1. 1 \in 1 .. Len(log) + 1 /\ i \in 1 - 1 .. Len(log) /\ Len(log) \in i .. Len(log)
      BY <2>1
    <3> QED
      BY <1>1, <3>1, ConcatAdjacentSubSeq
  <2> QED
    BY <1>1, <2>2, <2>3, <2>4, SubSeqFull
<1>3. SameData(t, Replay(log)) /\ t \in TreeOf(Logged)
  <2> HIDE DEF a, b
  <2>1. t = Replay(Snapshot(a) \o b)
    BY DEF a, b
  <2>2. Snapshot(a) \o b \in Seq(Loggable(Logged)) /\ SameData(t, Replay(log))
    BY <1>1, <1>2, <2>1, SnapshotAndRest
  <2> QED
    BY <1>1, <2>1, <2>2, EmptyTreeLemma, ReplayLemma DEF Replay
<1>4. \A k \in WrittenKey, s \in WrittenSub :
        IF s = Nil THEN At(tree, k, s) = Bytes(At(t, k, s)) ELSE At(tree, k, s) = At(t, k, s)
  BY <1>1, <1>3 DEF SameData, Agrees
<1>5. ASSUME NEW k \in Key
      PROVE  /\ tree.bytes[k] = IF t.bytes[k] = EmptyValue THEN Nil ELSE t.bytes[k]
             /\ t.subs[k].bytes = tree.subs[k].bytes
  <2>1. tree.bytes[k] = Bytes(t.bytes[k])
    BY <1>4, KeysLemma DEF At
  <2>2. \A s \in SubKey : tree.subs[k].bytes[s] = t.subs[k].bytes[s]
    BY <1>4, KeysLemma DEF At
  <2>3. tree.subs[k].bytes \in [SubKey -> Vals] /\ t.subs[k].bytes \in [SubKey -> Logged]
    BY <1>1, <1>3 DEF TreeOf, SubTreeOf
  <2> QED
    BY <2>1, <2>2, <2>3 DEF Bytes
<1> QED
  BY <1>5

(* A radix.Tree with keys of some bytes logs enough: after any operations  *)
(* on it, its sub trees and configurations, and wherever its logger turned *)
(* the log into a snapshot, Restore brings back every value, and no other. *)
THEOREM LogRestoresData == ASSUME KeysHaveBytes PROVE Spec => []DataSurvives
<1>1. LogInv /\ [Next]_vars => LogInv'
  BY StepLog
<1>2. LogInv => DataSurvives
  BY LogInvIsEnough
<1> QED
  BY <1>1, <1>2, InitLog, PTL DEF Spec
============================================================================
