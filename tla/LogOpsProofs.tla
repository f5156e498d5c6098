---------------------------- MODULE LogOpsProofs ----------------------------
(***************************************************************************)
(* Proofs about LogOps for every set of keys and values: a log replayed in *)
(* parts is the log replayed, and a snapshot restores the data that the    *)
(* log it was made of restores.                                            *)
(***************************************************************************)
EXTENDS LogOps, SequenceTheorems, FiniteSetTheorems, DataInduction, TLAPS

(* The keys as gob writes them.  A key of a sub tree is not written as     *)
(* nil: nil there says that the operation is not about a sub tree.         *)
WrittenKey == {OrNil(k) : k \in Key}
WrittenSub == (SubKey \ {Empty}) \cup {Nil}
KeyOf(k) == IF k = Nil THEN Empty ELSE k

(* Operations and trees with values in V; a sub tree that is cleared has a *)
(* key of some bytes.                                                      *)
Loggable(V) ==
  {PutOp(k, s, v) : k \in WrittenKey, s \in WrittenSub, v \in V}
  \cup {DelOp(k, s) : k \in WrittenKey, s \in WrittenSub}
  \cup {ClearOp(k, how) : k \in WrittenKey \ {Nil}, how \in {"clear", "kill"}}
  \cup {ConfOp(k, v) : k \in WrittenKey \cup {Nil}, v \in V}

SubTreeOf(V) == [there : BOOLEAN, conf : V, bytes : [SubKey -> V]]
TreeOf(V) == [conf : V, bytes : [Key -> V], subs : [Key -> SubTreeOf(V)]]

(* The value at a place of a tree, and what an operation makes of it. *)
At(t, k, s) == IF s = Nil THEN t.bytes[KeyOf(k)] ELSE t.subs[KeyOf(k)].bytes[s]
Effect(op, k, s, v) ==
  IF op.conf THEN v
  ELSE IF op.clear # "no" THEN IF k = op.key /\ s # Nil THEN Nil ELSE v
  ELSE IF k = op.key /\ s = op.sub THEN op.val ELSE v

WithSub(t, k, sub) == [t EXCEPT !.subs[k] = sub]
WithValue(f, s, v) == [f EXCEPT ![s] = v]

SameData(t, u) == \A k \in WrittenKey, s \in WrittenSub : At(t, k, s) = At(u, k, s)
----------------------------------------------------------------------------
(* One operation *)

LEMMA KeyLemma ==
  /\ \A k \in WrittenKey : KeyOf(k) \in Key
  /\ \A k \in WrittenKey, l \in WrittenKey : KeyOf(k) = KeyOf(l) => k = l
  /\ \A k \in Key : OrNil(k) \in WrittenKey /\ KeyOf(OrNil(k)) = k
  /\ \A s \in WrittenSub : s # Nil => s \in SubKey
  /\ Nil \notin Key /\ Nil \notin SubKey /\ Nil \in WrittenSub
BY LogOpsAssumption DEF WrittenKey, WrittenSub, KeyOf, OrNil

(* Written changes the keys of an operation and nothing else of it. *)
Fields == {"conf", "put", "clear", "key", "sub", "val"}
SameBut(op, e) ==
  /\ op = [f \in Fields |-> op[f]] /\ e = [f \in Fields |-> e[f]]
  /\ e.conf = op.conf /\ e.put = op.put /\ e.clear = op.clear /\ e.val = op.val
  /\ e.key = OrNil(op.key) /\ e.sub = OrNil(op.sub)

LEMMA FieldsLemma ==
  ASSUME NEW op, NEW e, SameBut(op, e)
  PROVE  Written(op) = e
<1>1. op = [f \in Fields |-> op[f]] /\ e = [f \in Fields |-> e[f]]
  BY DEF SameBut
<1>2. \A f \in Fields : Written(op)[f] = e[f]
  <2>1. \A f \in Fields : Written(op)[f] = IF f = "key" THEN OrNil(op.key)
                                           ELSE IF f = "sub" THEN OrNil(op.sub) ELSE op[f]
    BY <1>1 DEF Written
  <2> QED
    BY <2>1 DEF SameBut, Fields
<1>3. Written(op) = [f \in Fields |-> Written(op)[f]]
  BY <1>1 DEF Written
<1> QED
  BY <1>1, <1>2, <1>3

LEMMA WrittenLemma ==
  ASSUME NEW k, NEW s, NEW v, NEW how
  PROVE  /\ Written(PutOp(k, s, v)) = PutOp(OrNil(k), OrNil(s), v)
         /\ Written(DelOp(k, s)) = DelOp(OrNil(k), OrNil(s))
         /\ Written(ClearOp(k, how)) = ClearOp(OrNil(k), how)
         /\ Written(ConfOp(k, v)) = ConfOp(OrNil(k), v)
<1>1. OrNil(Nil) = Nil
  BY DEF OrNil
<1>2. SameBut(PutOp(k, s, v), PutOp(OrNil(k), OrNil(s), v))
  BY DEF SameBut, Fields, PutOp
<1>3. SameBut(DelOp(k, s), DelOp(OrNil(k), OrNil(s)))
  BY DEF SameBut, Fields, DelOp
<1>4. SameBut(ClearOp(k, how), ClearOp(OrNil(k), how))
  BY <1>1 DEF SameBut, Fields, ClearOp
<1>5. SameBut(ConfOp(k, v), ConfOp(OrNil(k), v))
  BY <1>1 DEF SameBut, Fields, ConfOp
<1> QED
  BY <1>2, <1>3, <1>4, <1>5, FieldsLemma

LEMMA EmptyTreeLemma ==
  ASSUME NEW V, Nil \in V
  PROVE  /\ EmptyTree \in TreeOf(V)
         /\ \A k \in WrittenKey, s \in WrittenSub : At(EmptyTree, k, s) = Nil
<1>1. EmptyTree \in TreeOf(V)
  BY DEF EmptyTree, NoSubTree, TreeOf, SubTreeOf
<1>2. ASSUME NEW k \in WrittenKey, NEW s \in WrittenSub PROVE At(EmptyTree, k, s) = Nil
  BY KeyLemma DEF EmptyTree, NoSubTree, At
<1> QED
  BY <1>1, <1>2

LEMMA BooleanLemma ==
  ASSUME NEW V, NEW op \in Loggable(V)
  PROVE  op.conf \in BOOLEAN /\ op.put \in BOOLEAN
<1>1. \A k, s, v : PutOp(k, s, v).conf \in BOOLEAN /\ PutOp(k, s, v).put \in BOOLEAN
  BY DEF PutOp
<1>2. \A k, s : DelOp(k, s).conf \in BOOLEAN /\ DelOp(k, s).put \in BOOLEAN
  BY DEF DelOp
<1>3. \A k, how : ClearOp(k, how).conf \in BOOLEAN /\ ClearOp(k, how).put \in BOOLEAN
  BY DEF ClearOp
<1>4. \A k, v : ConfOp(k, v).conf \in BOOLEAN /\ ConfOp(k, v).put \in BOOLEAN
  BY DEF ConfOp
<1> QED
  BY <1>1, <1>2, <1>3, <1>4 DEF Loggable

(* The operations are of four kinds. *)
LEMMA KindsLemma ==
  ASSUME NEW V, NEW op \in Loggable(V)
  PROVE  \/ /\ op.conf /\ ~op.put /\ op.clear = "no" /\ op.sub = Nil
            /\ op.key \in WrittenKey \cup {Nil} /\ op.val \in V
         \/ /\ ~op.conf /\ op.put /\ op.clear = "no" /\ op.sub \in WrittenSub
            /\ op.key \in WrittenKey /\ op.val \in V
         \/ /\ ~op.conf /\ ~op.put /\ op.clear = "no" /\ op.sub \in WrittenSub
            /\ op.key \in WrittenKey /\ op.val = Nil
         \/ /\ ~op.conf /\ ~op.put /\ op.clear \in {"clear", "kill"} /\ op.sub = Nil
            /\ op.key \in WrittenKey \ {Nil} /\ op.val = Nil
BY DEF Loggable, PutOp, DelOp, ClearOp, ConfOp

(* A tree with another value at one of its keys, *)
LEMMA BytesLemma ==
  ASSUME NEW V, NEW t \in TreeOf(V), NEW k \in WrittenKey, NEW v \in V, NEW u,
         u = Put(t, KeyOf(k), v)
  PROVE  /\ u \in TreeOf(V)
         /\ \A l \in WrittenKey, s \in WrittenSub :
              At(u, l, s) = IF l = k /\ s = Nil THEN v ELSE At(t, l, s)
<1> DEFINE j == KeyOf(k)
<1>1. j \in Key
  BY KeyLemma
<1> HIDE DEF j
<1>2. u = [t EXCEPT !.bytes = [t.bytes EXCEPT ![j] = v]]
  BY DEF TreeOf, j, Put
<1>3. u \in TreeOf(V) /\ u.subs = t.subs /\ u.bytes = [t.bytes EXCEPT ![j] = v]
  BY <1>1, <1>2 DEF TreeOf
<1>4. ASSUME NEW l \in WrittenKey, NEW s \in WrittenSub
      PROVE  At(u, l, s) = IF l = k /\ s = Nil THEN v ELSE At(t, l, s)
  <2>1. KeyOf(l) \in Key /\ (KeyOf(l) = j <=> l = k)
    BY KeyLemma DEF j
  <2>2. t.bytes \in [Key -> V]
    BY DEF TreeOf
  <2> QED
    BY <1>1, <1>3, <2>1, <2>2 DEF At
<1> QED
  BY <1>3, <1>4

(* and one with another sub tree. *)
LEMMA SubsLemma ==
  ASSUME NEW V, NEW t \in TreeOf(V), NEW k \in WrittenKey, NEW sub \in SubTreeOf(V), NEW u,
         u = WithSub(t, KeyOf(k), sub)
  PROVE  /\ u \in TreeOf(V)
         /\ \A l \in WrittenKey, s \in WrittenSub :
              At(u, l, s) = IF l = k /\ s # Nil THEN sub.bytes[s] ELSE At(t, l, s)
<1> DEFINE j == KeyOf(k)
<1>1. j \in Key
  BY KeyLemma
<1> HIDE DEF j
<1>2. u = [t EXCEPT !.subs = [t.subs EXCEPT ![j] = sub]]
  BY DEF TreeOf, j, WithSub
<1>3. u \in TreeOf(V) /\ u.bytes = t.bytes /\ u.subs = [t.subs EXCEPT ![j] = sub]
  BY <1>1, <1>2 DEF TreeOf
<1>4. ASSUME NEW l \in WrittenKey, NEW s \in WrittenSub
      PROVE  At(u, l, s) = IF l = k /\ s # Nil THEN sub.bytes[s] ELSE At(t, l, s)
  <2>1. KeyOf(l) \in Key /\ (KeyOf(l) = j <=> l = k)
    BY KeyLemma DEF j
  <2>2. t.subs \in [Key -> SubTreeOf(V)]
    BY DEF TreeOf
  <2> QED
    BY <1>1, <1>3, <2>1, <2>2 DEF At
<1> QED
  BY <1>3, <1>4

(* The sub trees that the operations on them leave. *)
LEMMA SubTreeLemma ==
  ASSUME NEW V, Nil \in V, NEW t \in TreeOf(V), NEW k \in Key
  PROVE  /\ t.subs[k] \in SubTreeOf(V)
         /\ NoSubTree \in SubTreeOf(V) /\ \A s \in SubKey : NoSubTree.bytes[s] = Nil
         /\ \A v \in V : \E sub \in SubTreeOf(V) :
              /\ SubConfigure(t, k, v) = WithSub(t, k, sub)
              /\ sub.bytes = t.subs[k].bytes
         /\ \A s \in SubKey, v \in V : \E sub \in SubTreeOf(V) :
              /\ SubPut(t, k, s, v) = WithSub(t, k, sub)
              /\ sub.bytes = WithValue(t.subs[k].bytes, s, v)
         /\ \A s \in SubKey : \E sub \in SubTreeOf(V) :
              /\ SubDel(t, k, s) = WithSub(t, k, sub)
              /\ sub.bytes = WithValue(t.subs[k].bytes, s, Nil)
         /\ \E sub \in SubTreeOf(V) :
              /\ SubClear(t, k) = WithSub(t, k, sub)
              /\ sub.bytes = NoSubTree.bytes
<1> DEFINE b == t.subs[k]
<1>1. b \in SubTreeOf(V) /\ b.bytes \in [SubKey -> V]
  BY DEF TreeOf, SubTreeOf
<1>2. NoSubTree \in SubTreeOf(V) /\ \A s \in SubKey : NoSubTree.bytes[s] = Nil
  BY DEF NoSubTree, SubTreeOf
<1>3. ASSUME NEW v \in V
      PROVE  \E sub \in SubTreeOf(V) :
               /\ SubConfigure(t, k, v) = WithSub(t, k, sub)
               /\ sub.bytes = t.subs[k].bytes
  <2> DEFINE sub == [b EXCEPT !.there = TRUE, !.conf = v]
  <2>1. sub \in SubTreeOf(V) /\ sub.bytes = b.bytes
    BY <1>1 DEF SubTreeOf, WithValue
  <2>2. SubConfigure(t, k, v) = WithSub(t, k, sub)
    BY DEF SubConfigure, TreeOf, WithSub
  <2> QED
    BY <2>1, <2>2
<1>4. ASSUME NEW s \in SubKey, NEW v \in V
      PROVE  \E sub \in SubTreeOf(V) :
               /\ SubPut(t, k, s, v) = WithSub(t, k, sub)
               /\ sub.bytes = WithValue(t.subs[k].bytes, s, v)
  <2> DEFINE sub == [b EXCEPT !.there = TRUE, !.bytes[s] = v]
  <2>1. sub \in SubTreeOf(V) /\ sub.bytes = WithValue(b.bytes, s, v)
    BY <1>1 DEF SubTreeOf, WithValue
  <2>2. SubPut(t, k, s, v) = WithSub(t, k, sub)
    BY DEF SubPut, TreeOf, WithSub
  <2> QED
    BY <2>1, <2>2
<1>5. ASSUME NEW s \in SubKey
      PROVE  \E sub \in SubTreeOf(V) :
               /\ SubDel(t, k, s) = WithSub(t, k, sub)
               /\ sub.bytes = WithValue(t.subs[k].bytes, s, Nil)
  <2> DEFINE left == [b EXCEPT !.bytes[s] = Nil]
             sub == IF IsEmpty(left) THEN NoSubTree ELSE left
  <2>1. left \in SubTreeOf(V) /\ left.bytes = WithValue(b.bytes, s, Nil)
    BY <1>1 DEF SubTreeOf, WithValue
  <2>2. IsEmpty(left) => left.bytes = NoSubTree.bytes
    <3>1. left.bytes = [x \in SubKey |-> left.bytes[x]]
      BY <2>1 DEF SubTreeOf
    <3> QED
      BY <3>1 DEF NoSubTree, IsEmpty
  <2>3. sub \in SubTreeOf(V) /\ sub.bytes = left.bytes
    BY <1>2, <2>1, <2>2
  <2>4. SubDel(t, k, s) = WithSub(t, k, sub)
    BY DEF SubDel, WithSub
  <2> HIDE DEF sub
  <2> QED
    BY <2>1, <2>3, <2>4
<1>6. \E sub \in SubTreeOf(V) :
        /\ SubClear(t, k) = WithSub(t, k, sub)
        /\ sub.bytes = NoSubTree.bytes
  <2> DEFINE sub == [b EXCEPT !.bytes = NoSubTree.bytes]
  <2>1. sub \in SubTreeOf(V) /\ sub.bytes = NoSubTree.bytes
    BY <1>1, <1>2 DEF SubTreeOf
  <2>2. SubClear(t, k) = WithSub(t, k, sub)
    BY DEF SubClear, TreeOf, WithSub
  <2> QED
    BY <2>1, <2>2
<1> QED
  BY <1>1, <1>2, <1>3, <1>4, <1>5, <1>6


(* Restore has the effect that Effect says, at every place. *)
LEMMA RestoreLemma ==
  ASSUME NEW V, Nil \in V, NEW t \in TreeOf(V), NEW op \in Loggable(V)
  PROVE  /\ Restore(t, op) \in TreeOf(V)
         /\ \A k \in WrittenKey, s \in WrittenSub :
              At(Restore(t, op), k, s) = Effect(op, k, s, At(t, k, s))
<1> DEFINE r == Restore(t, op)
           k == KeyOf(op.key)
<1>0. /\ op.key \in WrittenKey => k \in Key
      /\ \A s \in WrittenSub : s # Nil => s \in SubKey
  BY KeyLemma
<1>1. CASE op.conf
  <2>1. op.sub = Nil /\ ~op.put /\ op.clear = "no" /\ op.key \in WrittenKey \cup {Nil} /\ op.val \in V
    BY <1>1, KindsLemma
  <2>2. CASE op.key = Nil
    <3>1. r = Configure(t, op.val)
      BY <1>1, <2>1, <2>2 DEF Restore
    <3>2. r \in TreeOf(V) /\ r.bytes = t.bytes /\ r.subs = t.subs
      BY <2>1, <3>1 DEF Configure, TreeOf
    <3> QED
      BY <1>1, <3>2 DEF At, Effect
  <2>3. CASE op.key # Nil
    <3>1. r = SubConfigure(t, k, op.val)
      BY <1>1, <2>1, <2>3 DEF Restore, KeyOf
    <3>2. PICK sub \in SubTreeOf(V) : /\ r = WithSub(t, k, sub)
                                      /\ sub.bytes = t.subs[k].bytes
      BY <1>0, <2>1, <2>3, <3>1, SubTreeLemma
    <3>3. /\ r \in TreeOf(V)
          /\ \A l \in WrittenKey, s \in WrittenSub :
               At(r, l, s) = IF l = op.key /\ s # Nil THEN sub.bytes[s] ELSE At(t, l, s)
      BY <2>1, <2>3, <3>2, SubsLemma
    <3> QED
      BY <1>1, <3>2, <3>3 DEF At, Effect
  <2> QED
    BY <2>2, <2>3
<1>2. CASE op.put
  <2>1. ~op.conf /\ op.clear = "no" /\ op.sub \in WrittenSub /\ op.key \in WrittenKey /\ op.val \in V
    BY <1>2, KindsLemma
  <2>2. CASE op.sub = Nil
    <3>1. r = Put(t, k, op.val)
      BY <1>2, <2>1, <2>2 DEF Restore, KeyOf
    <3>2. /\ r \in TreeOf(V)
          /\ \A l \in WrittenKey, s \in WrittenSub :
               At(r, l, s) = IF l = op.key /\ s = Nil THEN op.val ELSE At(t, l, s)
      BY <2>1, <3>1, BytesLemma
    <3> QED
      BY <2>1, <2>2, <3>2 DEF Effect
  <2>3. CASE op.sub # Nil
    <3>1. r = SubPut(t, k, op.sub, op.val)
      BY <1>2, <2>1, <2>3 DEF Restore, KeyOf
    <3>2. PICK sub \in SubTreeOf(V) : /\ r = WithSub(t, k, sub)
                                      /\ sub.bytes = WithValue(t.subs[k].bytes, op.sub, op.val)
      BY <1>0, <2>1, <2>3, <3>1, SubTreeLemma
    <3>3. /\ r \in TreeOf(V)
          /\ \A l \in WrittenKey, s \in WrittenSub :
               At(r, l, s) = IF l = op.key /\ s # Nil THEN sub.bytes[s] ELSE At(t, l, s)
      BY <2>1, <3>2, SubsLemma
    <3>4. t.subs[k].bytes \in [SubKey -> V]
      BY <1>0, <2>1, SubTreeLemma DEF SubTreeOf
    <3> QED
      BY <1>0, <2>1, <2>3, <3>2, <3>3, <3>4 DEF At, Effect, WithValue
  <2> QED
    BY <2>2, <2>3
<1>3. CASE op.clear # "no"
  <2>1. /\ ~op.conf /\ ~op.put /\ op.clear \in {"clear", "kill"} /\ op.sub = Nil
        /\ op.key \in WrittenKey /\ op.key # Nil
    BY <1>3, KindsLemma
  <2>2. PICK sub \in SubTreeOf(V) : /\ r = WithSub(t, k, sub)
                                    /\ sub.bytes = NoSubTree.bytes
    <3>1. CASE op.clear = "clear"
      <4>1. r = SubClear(t, k)
        BY <2>1, <3>1 DEF Restore, KeyOf
      <4> QED
        BY <1>0, <2>1, <4>1, SubTreeLemma
    <3>2. CASE op.clear = "kill"
      <4>1. r = WithSub(t, k, NoSubTree)
        BY <2>1, <3>2 DEF Restore, KeyOf, SubKill, WithSub
      <4> QED
        BY <1>0, <2>1, <4>1, SubTreeLemma
    <3> QED
      BY <2>1, <3>1, <3>2
  <2>3. /\ r \in TreeOf(V)
        /\ \A l \in WrittenKey, s \in WrittenSub :
             At(r, l, s) = IF l = op.key /\ s # Nil THEN sub.bytes[s] ELSE At(t, l, s)
    BY <2>1, <2>2, SubsLemma
  <2>4. \A s \in SubKey : sub.bytes[s] = Nil
    BY <1>0, <2>1, <2>2, SubTreeLemma
  <2> QED
    BY <1>0, <1>3, <2>1, <2>3, <2>4 DEF Effect
<1>4. CASE ~op.conf /\ ~op.put /\ op.clear = "no"
  <2>1. op.sub \in WrittenSub /\ op.key \in WrittenKey /\ op.val = Nil
    BY <1>4, KindsLemma
  <2>2. CASE op.sub = Nil
    <3>1. r = Put(t, k, Nil)
      BY <1>4, <2>1, <2>2 DEF Restore, KeyOf, Del, Put
    <3>2. /\ r \in TreeOf(V)
          /\ \A l \in WrittenKey, s \in WrittenSub :
               At(r, l, s) = IF l = op.key /\ s = Nil THEN Nil ELSE At(t, l, s)
      BY <2>1, <3>1, BytesLemma
    <3> QED
      BY <1>4, <2>1, <2>2, <3>2 DEF Effect
  <2>3. CASE op.sub # Nil
    <3>1. r = SubDel(t, k, op.sub)
      BY <1>4, <2>1, <2>3 DEF Restore, KeyOf
    <3>2. PICK sub \in SubTreeOf(V) : /\ r = WithSub(t, k, sub)
                                      /\ sub.bytes = WithValue(t.subs[k].bytes, op.sub, Nil)
      BY <1>0, <2>1, <2>3, <3>1, SubTreeLemma
    <3>3. /\ r \in TreeOf(V)
          /\ \A l \in WrittenKey, s \in WrittenSub :
               At(r, l, s) = IF l = op.key /\ s # Nil THEN sub.bytes[s] ELSE At(t, l, s)
      BY <2>1, <3>2, SubsLemma
    <3>4. t.subs[k].bytes \in [SubKey -> V]
      BY <1>0, <2>1, SubTreeLemma DEF SubTreeOf
    <3> QED
      BY <1>0, <1>4, <2>1, <2>3, <3>2, <3>3, <3>4 DEF At, Effect, WithValue
  <2> QED
    BY <2>2, <2>3
<1> QED
  BY <1>1, <1>2, <1>3, <1>4

(* So it respects SameData. *)
LEMMA RestoreRespects ==
  ASSUME NEW V, Nil \in V, NEW t \in TreeOf(V), NEW u \in TreeOf(V), NEW op \in Loggable(V),
         SameData(t, u)
  PROVE  SameData(Restore(t, op), Restore(u, op))
<1> SUFFICES ASSUME NEW k \in WrittenKey, NEW s \in WrittenSub
             PROVE  At(Restore(t, op), k, s) = At(Restore(u, op), k, s)
  BY DEF SameData
<1>1. At(Restore(t, op), k, s) = Effect(op, k, s, At(t, k, s))
  BY RestoreLemma
<1>2. At(Restore(u, op), k, s) = Effect(op, k, s, At(u, k, s))
  BY RestoreLemma
<1> QED
  BY <1>1, <1>2 DEF SameData
----------------------------------------------------------------------------
(* Logs *)

LEMMA ReplayRun ==
  ASSUME NEW V, Nil \in V, NEW t \in TreeOf(V), NEW ops \in Seq(Loggable(V))
  PROVE  \E g \in [0 .. Len(ops) -> TreeOf(V)] :
           /\ g[0] = t /\ \A i \in 1 .. Len(ops) : g[i] = Restore(g[i - 1], ops[i])
           /\ Replayed(t, ops) = g[Len(ops)]
<1> DEFINE n == Len(ops)
           F == [x \in TreeOf(V) \X Loggable(V) |-> Restore(x[1], x[2])]
           After(g) == [i \in 0 .. n |-> IF i = 0 THEN t ELSE Restore(g[i - 1], ops[i])]
           r == CHOOSE g : g = After(g)
<1>0. n \in Nat /\ \A i \in 1 .. n : ops[i] \in Loggable(V)
  OBVIOUS
<1>1. F \in [TreeOf(V) \X Loggable(V) -> TreeOf(V)]
  BY RestoreLemma
<1>2. \A x \in TreeOf(V), op \in Loggable(V) : F[<<x, op>>] = Restore(x, op)
  OBVIOUS
<1> HIDE DEF F
<1>3. PICK g \in [0 .. n -> TreeOf(V)] :
        g[0] = t /\ \A i \in 1 .. n : g[i] = F[<<g[i - 1], ops[i]>>]
  <2>1. RunsOf(TreeOf(V), F, t, ops) # {}
    BY <1>1, RunExists
  <2> QED
    BY <2>1 DEF RunsOf
<1> HIDE DEF n
<1>4. ASSUME NEW i \in 1 .. n PROVE g[i] = Restore(g[i - 1], ops[i])
  <2>1. i - 1 \in 0 .. n
    BY <1>0
  <2>2. g[i - 1] \in TreeOf(V)
    BY <1>3, <2>1
  <2> QED
    BY <1>0, <1>2, <1>3, <2>2
<1>5. g = After(g)
  BY <1>0, <1>3, <1>4
<1>6. r = After(r)
  BY <1>5
<1>7. Replayed(t, ops) = r[n]
  BY DEF Replayed, n
<1> HIDE DEF r
<1>8. \A i \in 0 .. n : r[i] = g[i]
  <2> DEFINE S == {i \in Nat : i \in 0 .. n => r[i] = g[i]}
  <2>1. 0 \in S
    BY <1>0, <1>3, <1>6
  <2>2. ASSUME NEW i \in Nat, i \in S PROVE i + 1 \in S
    <3> SUFFICES ASSUME i + 1 \in 0 .. n PROVE r[i + 1] = g[i + 1]
      OBVIOUS
    <3>1. i \in 0 .. n /\ i + 1 \in 1 .. n /\ (i + 1) - 1 = i /\ i + 1 # 0
      BY <1>0
    <3>2. r[i + 1] = Restore(r[i], ops[i + 1])
      BY <1>6, <3>1
    <3>3. g[i + 1] = Restore(g[i], ops[i + 1])
      BY <1>4, <3>1
    <3> QED
      BY <2>2, <3>1, <3>2, <3>3
  <2> HIDE DEF S
  <2>3. \A i \in Nat : i \in S
    BY <2>1, <2>2, NaturalSetInduction
  <2> QED
    BY <2>3 DEF S
<1>9. Replayed(t, ops) = g[n]
  BY <1>0, <1>7, <1>8
<1> QED
  BY <1>3, <1>4, <1>9 DEF n

(* What a run ends with is what Replayed is. *)
LEMMA ReplayIs ==
  ASSUME NEW V, Nil \in V, NEW t \in TreeOf(V), NEW ops \in Seq(Loggable(V)),
         NEW h, h[0] = t, \A i \in 1 .. Len(ops) : h[i] = Restore(h[i - 1], ops[i])
  PROVE  Replayed(t, ops) = h[Len(ops)]
<1> DEFINE n == Len(ops)
<1>0. n \in Nat
  OBVIOUS
<1>1. PICK g \in [0 .. n -> TreeOf(V)] :
        /\ g[0] = t /\ \A i \in 1 .. n : g[i] = Restore(g[i - 1], ops[i])
        /\ Replayed(t, ops) = g[n]
  BY ReplayRun
<1>2. \A i \in 1 .. n : h[i] = Restore(h[i - 1], ops[i])
  OBVIOUS
<1> HIDE DEF n
<1> DEFINE S == {i \in Nat : i \in 0 .. n => h[i] = g[i]}
<1>3. 0 \in S
  BY <1>1
<1>4. ASSUME NEW i \in Nat, i \in S PROVE i + 1 \in S
  <2> SUFFICES ASSUME i + 1 \in 0 .. n PROVE h[i + 1] = g[i + 1]
    OBVIOUS
  <2>1. i \in 0 .. n /\ i + 1 \in 1 .. n /\ (i + 1) - 1 = i
    BY <1>0
  <2>2. h[i + 1] = Restore(h[i], ops[i + 1]) /\ g[i + 1] = Restore(g[i], ops[i + 1])
    BY <1>1, <1>2, <2>1
  <2> QED
    BY <1>4, <2>1, <2>2
<1> HIDE DEF S
<1>5. \A i \in Nat : i \in S
  BY <1>3, <1>4, NaturalSetInduction
<1>6. h[n] = g[n]
  BY <1>0, <1>5 DEF S
<1> QED
  BY <1>1, <1>6 DEF n

(* No operations change nothing; the last one comes last; a log can be     *)
(* played in two parts.                                                    *)
LEMMA ReplayLemma ==
  ASSUME NEW V, Nil \in V, NEW t \in TreeOf(V)
  PROVE  /\ Replayed(t, <<>>) = t
         /\ \A a \in Seq(Loggable(V)) : Replayed(t, a) \in TreeOf(V)
         /\ \A a \in Seq(Loggable(V)), op \in Loggable(V) :
              Replayed(t, Append(a, op)) = Restore(Replayed(t, a), op)
         /\ \A a \in Seq(Loggable(V)), b \in Seq(Loggable(V)) :
              Replayed(t, a \o b) = Replayed(Replayed(t, a), b)
<1>1. Replayed(t, <<>>) = t
  <2> DEFINE e == <<>>
             h == [i \in {0} |-> t]
  <2>1. e \in Seq(Loggable(V)) /\ Len(e) = 0 /\ h[0] = t
    OBVIOUS
  <2>2. \A i \in 1 .. Len(e) : h[i] = Restore(h[i - 1], e[i])
    BY <2>1
  <2> HIDE DEF e, h
  <2>3. Replayed(t, e) = h[Len(e)]
    BY <2>1, <2>2, ReplayIs
  <2> QED
    BY <2>1, <2>3 DEF e
<1>2. \A a \in Seq(Loggable(V)) : Replayed(t, a) \in TreeOf(V)
  <2> TAKE a \in Seq(Loggable(V))
  <2>1. Len(a) \in 0 .. Len(a)
    OBVIOUS
  <2> QED
    BY <2>1, ReplayRun
<1>3. ASSUME NEW a \in Seq(Loggable(V)), NEW b \in Seq(Loggable(V))
      PROVE  Replayed(t, a \o b) = Replayed(Replayed(t, a), b)
  <2> DEFINE n == Len(a)
             m == Len(b)
             c == a \o b
             u == Replayed(t, a)
  <2>0. /\ n \in Nat /\ m \in Nat /\ c \in Seq(Loggable(V)) /\ Len(c) = n + m
        /\ \A i \in 1 .. n : c[i] = a[i]
        /\ \A i \in 1 .. m : c[n + i] = b[i]
    OBVIOUS
  <2>1. PICK g \in [0 .. n -> TreeOf(V)] :
          /\ g[0] = t /\ \A i \in 1 .. n : g[i] = Restore(g[i - 1], a[i])
          /\ u = g[n]
    BY ReplayRun
  <2>2. u \in TreeOf(V)
    BY <1>2
  <2> HIDE DEF n, c, u
  <2>3. PICK h \in [0 .. m -> TreeOf(V)] :
          /\ h[0] = u /\ \A i \in 1 .. m : h[i] = Restore(h[i - 1], b[i])
          /\ Replayed(u, b) = h[m]
    BY <2>2, ReplayRun
  <2> HIDE DEF m
  <2> DEFINE f == [i \in 0 .. n + m |-> IF i <= n THEN g[i] ELSE h[i - n]]
  <2>4. f[0] = t
    BY <2>0, <2>1
  <2>5. \A i \in 0 .. n : f[i] = g[i]
    BY <2>0
  <2>6. ASSUME NEW i \in 0 .. m PROVE f[n + i] = h[i]
    <3>1. n + i \in 0 .. n + m /\ (n + i) - n = i /\ (n + i <= n <=> i = 0)
      BY <2>0
    <3>2. f[n + i] = IF n + i <= n THEN g[n + i] ELSE h[(n + i) - n]
      BY <3>1
    <3>3. CASE i = 0
      <4>1. n + i = n /\ n + i <= n
        BY <2>0, <3>3
      <4> QED
        BY <2>1, <2>3, <3>2, <3>3, <4>1
    <3>4. CASE i # 0
      BY <3>1, <3>2, <3>4
    <3> QED
      BY <3>3, <3>4
  <2> HIDE DEF f
  <2>7. ASSUME NEW i \in 1 .. n + m PROVE f[i] = Restore(f[i - 1], c[i])
    <3>1. CASE i <= n
      <4>1. i \in 1 .. n /\ i \in 0 .. n /\ i - 1 \in 0 .. n
        BY <2>0, <3>1
      <4> QED
        BY <2>0, <2>1, <2>5, <4>1
    <3>2. CASE i > n
      <4> DEFINE j == i - n
      <4>1. j \in 1 .. m /\ j \in 0 .. m /\ j - 1 \in 0 .. m /\ i = n + j /\ i - 1 = n + (j - 1)
        BY <2>0, <3>2
      <4> HIDE DEF j
      <4> QED
        BY <2>0, <2>3, <2>6, <4>1, ZenonT(60)
    <3> QED
      BY <2>0, <3>1, <3>2
  <2>8. Replayed(t, c) = f[n + m]
    <3>1. \A i \in 1 .. Len(c) : f[i] = Restore(f[i - 1], c[i])
      BY <2>0, <2>7
    <3>2. Replayed(t, c) = f[Len(c)]
      BY <2>0, <2>4, <3>1, ReplayIs, ZenonT(60)
    <3> QED
      BY <2>0, <3>2
  <2>9. m \in 0 .. m
    BY <2>0
  <2> QED
    BY <2>3, <2>6, <2>8, <2>9 DEF c, u
<1>4. ASSUME NEW a \in Seq(Loggable(V)), NEW op \in Loggable(V)
      PROVE  Replayed(t, Append(a, op)) = Restore(Replayed(t, a), op)
  <2> DEFINE u == Replayed(t, a)
             b == <<op>>
             h == [i \in 0 .. 1 |-> IF i = 0 THEN u ELSE Restore(u, op)]
  <2>1. u \in TreeOf(V)
    BY <1>2
  <2> HIDE DEF u
  <2>2. b \in Seq(Loggable(V)) /\ Len(b) = 1 /\ b[1] = op /\ Append(a, op) = a \o b
    OBVIOUS
  <2> HIDE DEF b
  <2>3. h[0] = u /\ h[1] = Restore(u, op)
    OBVIOUS
  <2> HIDE DEF h
  <2>4. \A i \in 1 .. Len(b) : h[i] = Restore(h[i - 1], b[i])
    <3>1. \A i \in 1 .. 1 : i = 1 /\ i - 1 = 0
      OBVIOUS
    <3> QED
      BY <2>2, <2>3, <3>1
  <2>5. Replayed(u, b) = h[Len(b)]
    BY <2>1, <2>2, <2>3, <2>4, ReplayIs
  <2> QED
    BY <1>3, <2>2, <2>3, <2>5 DEF u
<1> QED
  BY <1>1, <1>2, <1>3, <1>4

(* Trees with the same data have the same data after the same log. *)
LEMMA ReplayRespects ==
  ASSUME NEW V, Nil \in V, NEW t \in TreeOf(V), NEW u \in TreeOf(V),
         NEW ops \in Seq(Loggable(V)), SameData(t, u)
  PROVE  SameData(Replayed(t, ops), Replayed(u, ops))
<1> DEFINE n == Len(ops)
<1>0. n \in Nat /\ \A i \in 1 .. n : ops[i] \in Loggable(V)
  OBVIOUS
<1>1. PICK g \in [0 .. n -> TreeOf(V)] :
        /\ g[0] = t /\ \A i \in 1 .. n : g[i] = Restore(g[i - 1], ops[i])
        /\ Replayed(t, ops) = g[n]
  BY ReplayRun
<1>2. PICK h \in [0 .. n -> TreeOf(V)] :
        /\ h[0] = u /\ \A i \in 1 .. n : h[i] = Restore(h[i - 1], ops[i])
        /\ Replayed(u, ops) = h[n]
  BY ReplayRun
<1> HIDE DEF n
<1> DEFINE S == {i \in Nat : i \in 0 .. n => SameData(g[i], h[i])}
<1>3. 0 \in S
  BY <1>1, <1>2
<1>4. ASSUME NEW i \in Nat, i \in S PROVE i + 1 \in S
  <2> SUFFICES ASSUME i + 1 \in 0 .. n PROVE SameData(g[i + 1], h[i + 1])
    OBVIOUS
  <2>1. i \in 0 .. n /\ i + 1 \in 1 .. n /\ (i + 1) - 1 = i
    BY <1>0
  <2>2. h[i + 1] = Restore(h[i], ops[i + 1]) /\ g[i + 1] = Restore(g[i], ops[i + 1])
    BY <1>1, <1>2, <2>1
  <2>3. g[i] \in TreeOf(V) /\ h[i] \in TreeOf(V) /\ SameData(g[i], h[i])
    BY <1>4, <2>1
  <2> QED
    BY <1>0, <2>1, <2>2, <2>3, RestoreRespects
<1> HIDE DEF S
<1>5. \A i \in Nat : i \in S
  BY <1>3, <1>4, NaturalSetInduction
<1>6. n \in 0 .. n
  BY <1>0
<1> QED
  BY <1>0, <1>1, <1>2, <1>5, <1>6 DEF S
----------------------------------------------------------------------------
(* Snapshots *)

(* The operations kept, one for every place written, say what is at every  *)
(* place of the tree.                                                      *)
Kept(V) == {op \in Loggable(V) : op.conf \/ op.put}
PutAt(c, k, s) == ~c.conf /\ c.key = k /\ c.sub = s
Describes(V, K, t) ==
  /\ K \subseteq Kept(V) /\ IsFiniteSet(K)
  /\ \A c, d \in K : c.conf = d.conf /\ c.key = d.key /\ c.sub = d.sub => c = d
  /\ \A k \in WrittenKey, s \in WrittenSub :
       /\ \A c \in K : PutAt(c, k, s) => At(t, k, s) = c.val
       /\ (\A c \in K : ~PutAt(c, k, s)) => At(t, k, s) = Nil

LEMMA CompressLemma ==
  ASSUME NEW V, Nil \in V, NEW t \in TreeOf(V), NEW op \in Loggable(V), NEW K, Describes(V, K, t)
  PROVE  Describes(V, Compress(K, op), Restore(t, op))
<1> DEFINE L == Compress(K, op)
           u == Restore(t, op)
           samePlace == {c \in K : c.conf = op.conf /\ c.key = op.key /\ c.sub = op.sub}
           cleared   == {c \in K : ~c.conf /\ c.key = op.key /\ c.sub # Nil}
<1>0. /\ K \subseteq Kept(V) /\ IsFiniteSet(K)
      /\ \A c, d \in K : c.conf = d.conf /\ c.key = d.key /\ c.sub = d.sub => c = d
  BY DEF Describes
<1>1. \A c \in K : (c.conf \in BOOLEAN) /\ (c.conf \/ c.put)
  BY <1>0, BooleanLemma DEF Kept
<1>2. ASSUME NEW k \in WrittenKey, NEW s \in WrittenSub
      PROVE  /\ \A c \in K : PutAt(c, k, s) => At(t, k, s) = c.val
             /\ (\A c \in K : ~PutAt(c, k, s)) => At(t, k, s) = Nil
             /\ At(u, k, s) = Effect(op, k, s, At(t, k, s))
  BY RestoreLemma DEF Describes
<1>3. CASE op.conf \/ op.put
  <2>0. op.clear = "no"
    BY <1>3, KindsLemma
  <2>1. L = (K \ samePlace) \cup {op}
    BY <1>3, <2>0 DEF Compress
  <2>2. L \subseteq Kept(V)
    BY <1>0, <1>3, <2>1 DEF Kept
  <2>3. IsFiniteSet(L)
    <3>1. IsFiniteSet(K \ samePlace)
      BY <1>0, FS_Difference
    <3> QED
      BY <2>1, <3>1, FS_AddElement
  <2>4. \A c, d \in L : c.conf = d.conf /\ c.key = d.key /\ c.sub = d.sub => c = d
    BY <1>0, <2>1
  <2>5. ASSUME NEW k \in WrittenKey, NEW s \in WrittenSub
        PROVE  /\ \A c \in L : PutAt(c, k, s) => At(u, k, s) = c.val
               /\ (\A c \in L : ~PutAt(c, k, s)) => At(u, k, s) = Nil
    <3>1. op.clear = "no" /\ (op.conf \in BOOLEAN) /\ (op.put \in BOOLEAN)
      BY <2>0, BooleanLemma
    <3>2. CASE PutAt(op, k, s)
      <4>1. At(u, k, s) = op.val
        BY <1>2, <3>1, <3>2 DEF Effect, PutAt
      <4>2. \A c \in L : PutAt(c, k, s) => c = op
        BY <1>1, <2>1, <3>1, <3>2 DEF PutAt
      <4> QED
        BY <2>1, <3>2, <4>1, <4>2
    <3>3. CASE ~PutAt(op, k, s)
      <4>1. At(u, k, s) = At(t, k, s)
        BY <1>2, <3>1, <3>3 DEF Effect, PutAt
      <4>2. \A c : c \in L /\ PutAt(c, k, s) <=> c \in K /\ PutAt(c, k, s)
        BY <1>1, <2>1, <3>1, <3>3 DEF PutAt
      <4> QED
        BY <1>2, <4>1, <4>2
    <3> QED
      BY <3>2, <3>3
  <2> QED
    BY <2>2, <2>3, <2>4, <2>5 DEF Describes
<1>4. CASE ~op.conf /\ ~op.put
  <2> DEFINE gone == IF op.clear # "no" THEN cleared ELSE samePlace
  <2>1. L = K \ gone
    BY <1>4, KindsLemma DEF Compress
  <2>2. /\ L \subseteq Kept(V) /\ IsFiniteSet(L)
        /\ \A c, d \in L : c.conf = d.conf /\ c.key = d.key /\ c.sub = d.sub => c = d
    <3>1. IsFiniteSet(K \ gone)
      BY <1>0, FS_Difference
    <3> QED
      BY <1>0, <2>1, <3>1
  <2>3. ASSUME NEW k \in WrittenKey, NEW s \in WrittenSub
        PROVE  /\ \A c \in L : PutAt(c, k, s) => At(u, k, s) = c.val
               /\ (\A c \in L : ~PutAt(c, k, s)) => At(u, k, s) = Nil
    <3> DEFINE hit == IF op.clear # "no" THEN k = op.key /\ s # Nil ELSE k = op.key /\ s = op.sub
    <3>1. op.val = Nil /\ op.conf = FALSE
      BY <1>4, KindsLemma
    <3>2. CASE hit
      <4>1. At(u, k, s) = Nil
        BY <1>2, <1>4, <3>1, <3>2 DEF Effect
      <4>2. \A c \in L : ~PutAt(c, k, s)
        BY <1>1, <2>1, <3>1, <3>2 DEF PutAt
      <4> QED
        BY <4>1, <4>2
    <3>3. CASE ~hit
      <4>1. At(u, k, s) = At(t, k, s)
        BY <1>2, <1>4, <3>1, <3>3 DEF Effect
      <4>2. \A c : c \in L /\ PutAt(c, k, s) <=> c \in K /\ PutAt(c, k, s)
        BY <1>1, <2>1, <3>1, <3>3 DEF PutAt
      <4> QED
        BY <1>2, <4>1, <4>2
    <3> QED
      BY <3>2, <3>3
  <2> QED
    BY <2>2, <2>3 DEF Describes
<1> QED
  BY <1>3, <1>4

LEMMA CompressRun ==
  ASSUME NEW V, NEW ops \in Seq(Loggable(V))
  PROVE  \E g \in [0 .. Len(ops) -> SUBSET Kept(V)] :
           /\ g[0] = {} /\ \A i \in 1 .. Len(ops) : g[i] = Compress(g[i - 1], ops[i])
           /\ Compressed(ops) = g[Len(ops)]
<1> DEFINE n == Len(ops)
           F == [x \in (SUBSET Kept(V)) \X Loggable(V) |-> Compress(x[1], x[2])]
           After(g) == [i \in 0 .. n |-> IF i = 0 THEN {} ELSE Compress(g[i - 1], ops[i])]
           r == CHOOSE g : g = After(g)
<1>0. n \in Nat /\ \A i \in 1 .. n : ops[i] \in Loggable(V)
  OBVIOUS
<1>1. F \in [(SUBSET Kept(V)) \X Loggable(V) -> SUBSET Kept(V)]
  <2>1. ASSUME NEW K \in SUBSET Kept(V), NEW op \in Loggable(V)
        PROVE  Compress(K, op) \in SUBSET Kept(V)
    <3>1. CASE op.conf \/ op.put
      <4>1. op.clear = "no" /\ op \in Kept(V)
        BY <3>1, KindsLemma DEF Kept
      <4> QED
        BY <3>1, <4>1 DEF Compress
    <3>2. CASE ~(op.conf \/ op.put) /\ op.clear # "no"
      BY <3>2 DEF Compress
    <3>3. CASE ~(op.conf \/ op.put) /\ op.clear = "no"
      BY <3>3 DEF Compress
    <3> QED
      BY <3>1, <3>2, <3>3
  <2> QED
    BY <2>1
<1>2. \A x \in SUBSET Kept(V), op \in Loggable(V) : F[<<x, op>>] = Compress(x, op)
  OBVIOUS
<1> HIDE DEF F
<1>3. PICK g \in [0 .. n -> SUBSET Kept(V)] :
        g[0] = {} /\ \A i \in 1 .. n : g[i] = F[<<g[i - 1], ops[i]>>]
  <2>1. {} \in SUBSET Kept(V)
    OBVIOUS
  <2>2. RunsOf(SUBSET Kept(V), F, {}, ops) # {}
    BY <1>1, <2>1, RunExists
  <2> QED
    BY <2>2 DEF RunsOf
<1> HIDE DEF n
<1>4. ASSUME NEW i \in 1 .. n PROVE g[i] = Compress(g[i - 1], ops[i])
  <2>1. i - 1 \in 0 .. n
    BY <1>0
  <2>2. g[i - 1] \in SUBSET Kept(V)
    BY <1>3, <2>1
  <2> QED
    BY <1>0, <1>2, <1>3, <2>2
<1>5. g = After(g)
  BY <1>0, <1>3, <1>4
<1>6. r = After(r)
  BY <1>5
<1>7. Compressed(ops) = r[n]
  BY DEF Compressed, n
<1> HIDE DEF r
<1>8. \A i \in 0 .. n : r[i] = g[i]
  <2> DEFINE S == {i \in Nat : i \in 0 .. n => r[i] = g[i]}
  <2>1. 0 \in S
    BY <1>0, <1>3, <1>6
  <2>2. ASSUME NEW i \in Nat, i \in S PROVE i + 1 \in S
    <3> SUFFICES ASSUME i + 1 \in 0 .. n PROVE r[i + 1] = g[i + 1]
      OBVIOUS
    <3>1. i \in 0 .. n /\ i + 1 \in 1 .. n /\ (i + 1) - 1 = i /\ i + 1 # 0
      BY <1>0
    <3>2. r[i + 1] = Compress(r[i], ops[i + 1])
      BY <1>6, <3>1
    <3>3. g[i + 1] = Compress(g[i], ops[i + 1])
      BY <1>4, <3>1
    <3> QED
      BY <2>2, <3>1, <3>2, <3>3
  <2> HIDE DEF S
  <2>3. \A i \in Nat : i \in S
    BY <2>1, <2>2, NaturalSetInduction
  <2> QED
    BY <2>3 DEF S
<1>9. Compressed(ops) = g[n]
  BY <1>0, <1>7, <1>8
<1> QED
  BY <1>3, <1>4, <1>9 DEF n

(* Nothing kept describes the empty tree, *)
LEMMA DescribesEmpty ==
  ASSUME NEW V, Nil \in V PROVE Describes(V, {}, EmptyTree)
BY EmptyTreeLemma, FS_EmptySet DEF Describes

(* so what snapshot keeps of a log describes what the log restores. *)
LEMMA CompressedDescribes ==
  ASSUME NEW V, Nil \in V, NEW ops \in Seq(Loggable(V))
  PROVE  Describes(V, Compressed(ops), Replay(ops))
<1> DEFINE n == Len(ops)
<1>0. n \in Nat /\ (\A i \in 1 .. n : ops[i] \in Loggable(V)) /\ EmptyTree \in TreeOf(V)
  BY EmptyTreeLemma
<1>1. PICK h \in [0 .. n -> TreeOf(V)] :
        /\ h[0] = EmptyTree /\ \A i \in 1 .. n : h[i] = Restore(h[i - 1], ops[i])
        /\ Replayed(EmptyTree, ops) = h[n]
  BY <1>0, ReplayRun
<1>2. PICK g \in [0 .. n -> SUBSET Kept(V)] :
        /\ g[0] = {} /\ \A i \in 1 .. n : g[i] = Compress(g[i - 1], ops[i])
        /\ Compressed(ops) = g[n]
  BY CompressRun
<1> HIDE DEF n
<1> DEFINE S == {i \in Nat : i \in 0 .. n => Describes(V, g[i], h[i])}
<1>3. 0 \in S
  BY <1>1, <1>2, DescribesEmpty
<1>4. ASSUME NEW i \in Nat, i \in S PROVE i + 1 \in S
  <2> SUFFICES ASSUME i + 1 \in 0 .. n PROVE Describes(V, g[i + 1], h[i + 1])
    OBVIOUS
  <2>1. i \in 0 .. n /\ i + 1 \in 1 .. n /\ (i + 1) - 1 = i
    BY <1>0
  <2>2. h[i + 1] = Restore(h[i], ops[i + 1]) /\ g[i + 1] = Compress(g[i], ops[i + 1])
    BY <1>1, <1>2, <2>1
  <2>3. h[i] \in TreeOf(V) /\ Describes(V, g[i], h[i])
    BY <1>4, <2>1
  <2> QED
    BY <1>0, <2>1, <2>2, <2>3, CompressLemma
<1> HIDE DEF S
<1>5. \A i \in Nat : i \in S
  BY <1>3, <1>4, NaturalSetInduction
<1>6. n \in 0 .. n
  BY <1>0
<1> QED
  BY <1>0, <1>1, <1>2, <1>5, <1>6 DEF S, Replay

(* SetToSeq lists a finite set, every member once. *)
LEMMA ListLemma ==
  ASSUME NEW K, IsFiniteSet(K)
  PROVE  /\ SetToSeq(K) \in Seq(K)
         /\ \A i, j \in 1 .. Len(SetToSeq(K)) : SetToSeq(K)[i] = SetToSeq(K)[j] => i = j
         /\ K = {SetToSeq(K)[i] : i \in 1 .. Len(SetToSeq(K))}
<1> DEFINE n == Cardinality(K)
           q == SetToSeq(K)
<1>1. n \in Nat /\ ExistsBijection(1 .. n, K)
  BY FS_CardinalityType
<1>2. \E f \in [1 .. n -> K] : IsInjective(f)
  BY <1>1 DEF ExistsBijection, Bijection, Injection
<1>3. q \in [1 .. n -> K] /\ IsInjective(q)
  BY <1>2 DEF SetToSeq
<1>4. q \in Seq(K) /\ Len(q) = n
  BY <1>1, <1>3
<1> HIDE DEF q, n
<1>5. q \in Injection(1 .. n, K)
  BY <1>3 DEF Injection
<1>6. Cardinality(1 .. n) = n
  <2>1. Cardinality(1 .. n) = IF 1 > n THEN 0 ELSE n - 1 + 1
    BY <1>1, FS_Interval
  <2> QED
    BY <1>1, <2>1
<1>7. q \in Surjection(1 .. n, K)
  BY <1>5, <1>6, FS_Injection DEF n
<1> QED
  BY <1>3, <1>4, <1>7 DEF IsInjective, Surjection, q

(* What is kept also describes what it restores itself, in any order. *)
LEMMA KeptDescribes ==
  ASSUME NEW V, Nil \in V, NEW K, NEW t, Describes(V, K, t)
  PROVE  SetToSeq(K) \in Seq(Loggable(V)) /\ Describes(V, K, Replay(SetToSeq(K)))
<1> DEFINE q == SetToSeq(K)
           n == Len(q)
           Part(i) == {q[j] : j \in 1 .. i}
<1>0. /\ K \subseteq Loggable(V) /\ IsFiniteSet(K)
      /\ \A c, d \in K : c.conf = d.conf /\ c.key = d.key /\ c.sub = d.sub => c = d
      /\ \A c \in K : c.conf \/ c.put
  BY DEF Describes, Kept
<1>1. /\ q \in Seq(K) /\ K = Part(n)
      /\ \A i, j \in 1 .. n : q[i] = q[j] => i = j
  BY <1>0, ListLemma
<1>2. q \in Seq(Loggable(V))
  BY <1>0, <1>1, SeqMonotonic
<1>3. n \in Nat /\ (\A i \in 1 .. n : q[i] \in K) /\ EmptyTree \in TreeOf(V)
  BY <1>1, EmptyTreeLemma
<1>4. PICK h \in [0 .. n -> TreeOf(V)] :
        /\ h[0] = EmptyTree /\ \A i \in 1 .. n : h[i] = Restore(h[i - 1], q[i])
        /\ Replayed(EmptyTree, q) = h[n]
  BY <1>2, <1>3, ReplayRun
<1> HIDE DEF q, n
<1> DEFINE S == {i \in Nat : i \in 0 .. n => Describes(V, Part(i), h[i])}
<1>5. 0 \in S
  <2>1. Part(0) = {}
    OBVIOUS
  <2> QED
    BY <1>4, <2>1, DescribesEmpty
<1>6. ASSUME NEW i \in Nat, i \in S PROVE i + 1 \in S
  <2> SUFFICES ASSUME i + 1 \in 0 .. n PROVE Describes(V, Part(i + 1), h[i + 1])
    OBVIOUS
  <2>1. i \in 0 .. n /\ i + 1 \in 1 .. n /\ (i + 1) - 1 = i
    BY <1>3
  <2> DEFINE c == q[i + 1]
  <2>2. c \in K /\ c \in Loggable(V) /\ (c.conf \/ c.put) /\ c.clear = "no"
    BY <1>0, <1>3, <2>1, KindsLemma
  <2>3. \A j \in 1 .. i : j \in 1 .. n /\ j # i + 1 /\ q[j] \in K /\ q[j] # c
    BY <1>1, <1>3, <2>1, SMTT(30)
  <2>4. Part(i + 1) = Part(i) \cup {c}
    <3>1. \A j : j \in 1 .. i + 1 <=> j \in 1 .. i \/ j = i + 1
      OBVIOUS
    <3> QED
      BY <3>1
  <2>5. \A d \in Part(i) : ~(d.conf = c.conf /\ d.key = c.key /\ d.sub = c.sub)
    BY <1>0, <2>2, <2>3
  <2> HIDE DEF c
  <2> HIDE DEF Part
  <2>6. Compress(Part(i), c) = Part(i + 1)
    BY <2>2, <2>4, <2>5 DEF Compress
  <2>7. h[i] \in TreeOf(V) /\ Describes(V, Part(i), h[i]) /\ h[i + 1] = Restore(h[i], c)
    BY <1>4, <1>6, <2>1 DEF c
  <2>8. Describes(V, Compress(Part(i), c), Restore(h[i], c))
    BY <2>2, <2>7, CompressLemma
  <2> QED
    BY <2>6, <2>7, <2>8
<1> HIDE DEF S
<1>7. \A i \in Nat : i \in S
  BY <1>5, <1>6, NaturalSetInduction
<1>8. n \in 0 .. n
  BY <1>3
<1>9. Describes(V, K, h[n])
  BY <1>1, <1>3, <1>7, <1>8 DEF S
<1> QED
  BY <1>2, <1>4, <1>9 DEF Replay, q

(* Whatever log a snapshot is made of, with deletions and sub trees that   *)
(* were cleared or killed, and in whatever order it lists what it keeps,   *)
(* it restores the values that the log restores, and no others.            *)
THEOREM SnapshotKeepsData ==
  ASSUME NEW V, Nil \in V, NEW ops \in Seq(Loggable(V))
  PROVE  /\ Snapshot(ops) \in Seq(Loggable(V))
         /\ SameData(Replay(Snapshot(ops)), Replay(ops))
<1> DEFINE K == Compressed(ops)
           q == SetToSeq(K)
<1>1. Describes(V, K, Replay(ops))
  BY CompressedDescribes
<1>2. q \in Seq(Loggable(V)) /\ Describes(V, K, Replay(q))
  BY <1>1, KeptDescribes
<1> HIDE DEF K, q
<1>3. SameData(Replay(q), Replay(ops))
  <2> SUFFICES ASSUME NEW k \in WrittenKey, NEW s \in WrittenSub
               PROVE  At(Replay(q), k, s) = At(Replay(ops), k, s)
    BY DEF SameData
  <2>1. CASE \E c \in K : PutAt(c, k, s)
    BY <1>1, <1>2, <2>1 DEF Describes
  <2>2. CASE \A c \in K : ~PutAt(c, k, s)
    BY <1>1, <1>2, <2>2 DEF Describes
  <2> QED
    BY <2>1, <2>2
<1> QED
  BY <1>2, <1>3 DEF Snapshot, K, q

(* The same with operations logged after the snapshot was made. *)
LEMMA SnapshotAndRest ==
  ASSUME NEW V, Nil \in V, NEW a \in Seq(Loggable(V)), NEW b \in Seq(Loggable(V))
  PROVE  /\ Snapshot(a) \o b \in Seq(Loggable(V))
         /\ SameData(Replay(Snapshot(a) \o b), Replay(a \o b))
<1> DEFINE q == Snapshot(a)
<1>1. q \in Seq(Loggable(V)) /\ SameData(Replay(q), Replay(a))
  BY SnapshotKeepsData
<1> HIDE DEF q
<1>2. EmptyTree \in TreeOf(V)
  BY EmptyTreeLemma
<1>3. /\ Replay(q \o b) = Replayed(Replay(q), b) /\ Replay(q) \in TreeOf(V)
      /\ Replay(a \o b) = Replayed(Replay(a), b) /\ Replay(a) \in TreeOf(V)
  BY <1>1, <1>2, ReplayLemma DEF Replay
<1>4. SameData(Replayed(Replay(q), b), Replayed(Replay(a), b))
  BY <1>1, <1>3, ReplayRespects
<1>5. q \o b \in Seq(Loggable(V))
  BY <1>1, ConcatProperties
<1> QED
  BY <1>3, <1>4, <1>5 DEF q

(* A snapshot lists operations of the log it is made of. *)
LEMMA SnapshotMembers ==
  ASSUME NEW V, Nil \in V, NEW B, B \subseteq Loggable(V), NEW ops \in Seq(B)
  PROVE  Snapshot(ops) \in Seq(B)
<1> DEFINE n == Len(ops)
<1>1. ops \in Seq(Loggable(V)) /\ n \in Nat /\ \A i \in 1 .. n : ops[i] \in B
  BY SeqMonotonic
<1>2. PICK g \in [0 .. n -> SUBSET Kept(V)] :
        /\ g[0] = {} /\ \A i \in 1 .. n : g[i] = Compress(g[i - 1], ops[i])
        /\ Compressed(ops) = g[n]
  BY <1>1, CompressRun
<1>3. IsFiniteSet(Compressed(ops))
  BY <1>1, CompressedDescribes DEF Describes
<1> HIDE DEF n
<1> DEFINE S == {i \in Nat : i \in 0 .. n => g[i] \subseteq B}
<1>4. 0 \in S
  BY <1>2
<1>5. ASSUME NEW i \in Nat, i \in S PROVE i + 1 \in S
  <2> SUFFICES ASSUME i + 1 \in 0 .. n PROVE g[i + 1] \subseteq B
    OBVIOUS
  <2>1. i \in 0 .. n /\ i + 1 \in 1 .. n /\ (i + 1) - 1 = i
    BY <1>1
  <2> DEFINE op == ops[i + 1]
             K == g[i]
  <2>2. K \subseteq B /\ op \in B /\ op \in Loggable(V) /\ g[i + 1] = Compress(K, op)
    BY <1>1, <1>2, <1>5, <2>1
  <2> HIDE DEF op, K
  <2>3. CASE op.conf \/ op.put
    <3>1. op.clear = "no"
      BY <2>2, <2>3, KindsLemma
    <3> QED
      BY <2>2, <2>3, <3>1 DEF Compress
  <2>4. CASE ~(op.conf \/ op.put) /\ op.clear # "no"
    BY <2>2, <2>4 DEF Compress
  <2>5. CASE ~(op.conf \/ op.put) /\ op.clear = "no"
    BY <2>2, <2>5 DEF Compress
  <2> QED
    BY <2>3, <2>4, <2>5
<1> HIDE DEF S
<1>6. \A i \in Nat : i \in S
  BY <1>4, <1>5, NaturalSetInduction
<1>7. Compressed(ops) \subseteq B
  BY <1>1, <1>2, <1>6 DEF S
<1>8. SetToSeq(Compressed(ops)) \in Seq(Compressed(ops))
  BY <1>3, ListLemma
<1> QED
  BY <1>7, <1>8, SeqMonotonic DEF Snapshot
============================================================================
