---------------------------- MODULE ClientProofs ----------------------------
(***************************************************************************)
(* What the loops of a cluster may do to its trees.  A mark is passed on   *)
(* by forwarded operations and by Syncs, and compared by its timestamp     *)
(* only.  The invariant says that this is enough: in the trees, in the     *)
(* operations under way and in the hands of the Syncs, marks of one time   *)
(* are the same mark, and none is from the future.  From this follow what  *)
(* MergeItems makes of the slices of all nodes and, in a ring that stands, *)
(* that no write is lost and none is missed by a later Get.                *)
(***************************************************************************)
EXTENDS Client, DataInduction, SequenceTheorems, FiniteSetTheorems, TLAPS

Mark == [ts : Nat, live : BOOLEAN]

(* The records of the model, by their fields. *)
Stale(w) == w.pc \in {"put", "delete"}
WalkOK(w) ==
  /\ w.todo \subseteq Key
  /\ \/ w = [pc |-> "finger", todo |-> w.todo]
     \/ /\ w = [pc |-> w.pc, todo |-> w.todo, key |-> w.key,
                mark |-> w.mark, expected |-> w.expected]
        /\ Stale(w)
SyncerOK(r) ==
  \/ r = Idle
  \/ /\ r = [pc |-> "sync", i |-> r.i, peer |-> r.peer, dir |-> r.dir, walk |-> r.walk]
     /\ WalkOK(r.walk) /\ r.walk.pc # "delete"
CleanerOK(c) ==
  \/ c = Idle
  \/ /\ c = [pc |-> "clean", from |-> c.from, owners |-> c.owners, index |-> c.index,
             walk |-> c.walk]
     /\ WalkOK(c.walk)
ThreadOK(t) ==
  /\ t = [item |-> t.item, stack |-> t.stack]
  /\ t.item = [key |-> t.item.key, mark |-> t.item.mark, sync |-> t.item.sync]
  /\ t.item.mark \in Mark

TreeOK == tree \in [Addr -> [Key -> Mark]]
ThreadsOK == \A t \in threads : ThreadOK(t)
SyncersOK == syncer = [n \in Addr |-> syncer[n]] /\ \A n \in Addr : SyncerOK(syncer[n])
CleanersOK == cleaner = [n \in Addr |-> cleaner[n]] /\ \A n \in Addr : CleanerOK(cleaner[n])

(* Every mark there is: in a tree, in an operation that has its timestamp, *)
(* in a Sync that has read it.                                             *)
Sent(t) == t.stack # <<Caller>>
TreeMarks == {tree[n][k] : n \in Addr, k \in Key}
ThreadMarks == {t.item.mark : t \in {u \in threads : Sent(u)}}
SyncMarks == {syncer[n].walk.mark :
                n \in {m \in Addr : syncer[m].pc = "sync" /\ Stale(syncer[m].walk)}}
CleanMarks == {cleaner[n].walk.mark :
                 n \in {m \in Addr : cleaner[m].pc = "clean" /\ Stale(cleaner[m].walk)}}
Marks == TreeMarks \cup ThreadMarks \cup SyncMarks \cup CleanMarks \cup {None}

OneMarkPerTime ==
  /\ \A m \in Marks : m \in Mark /\ m.ts <= clock
  /\ \A m, n \in Marks : m.ts = n.ts => m = n

Inv ==
  /\ clock \in Nat /\ alive \subseteq Addr
  /\ TreeOK /\ ThreadsOK /\ SyncersOK /\ CleanersOK
  /\ OneMarkPerTime
-----------------------------------------------------------------------------
LEMMA InvInit == Init => Inv
<1> SUFFICES ASSUME Init PROVE Inv
  OBVIOUS
<1> USE DEF Init, NodeInit
<1>1. clock \in Nat /\ alive \subseteq Addr /\ clock = 1
  OBVIOUS
<1>2. TreeOK
  BY DEF TreeOK, Mark, None
<1>3. ThreadsOK
  BY DEF ThreadsOK
<1>4. SyncersOK
  BY DEF SyncersOK, SyncerOK
<1>5. CleanersOK
  BY DEF CleanersOK, CleanerOK
<1>6. Marks \subseteq {[ts |-> 1, live |-> TRUE], None}
  <2>1. TreeMarks \subseteq {[ts |-> 1, live |-> TRUE], None}
    BY DEF TreeMarks
  <2>2. ThreadMarks = {}
    BY DEF ThreadMarks
  <2>3. SyncMarks = {} /\ CleanMarks = {}
    BY DEF SyncMarks, CleanMarks, Idle
  <2> QED
    BY <2>1, <2>2, <2>3 DEF Marks
<1>7. OneMarkPerTime
  <2> DEFINE first == [ts |-> 1, live |-> TRUE]
  <2>1. first \in Mark /\ first.ts = 1 /\ None \in Mark /\ None.ts = 0
    BY DEF Mark, None
  <2> HIDE DEF first
  <2>2. \A m \in Marks : m = first \/ m = None
    BY <1>6 DEF first
  <2>3. \A m \in Marks : m \in Mark /\ m.ts <= clock
    BY <1>1, <2>1, <2>2
  <2>4. \A m, n \in Marks : m.ts = n.ts => m = n
    BY <2>1, <2>2
  <2> QED
    BY <2>3, <2>4 DEF OneMarkPerTime
<1> QED
  BY <1>1, <1>2, <1>3, <1>4, <1>5, <1>7 DEF Inv
-----------------------------------------------------------------------------
(* An action that brings no new mark keeps the marks told apart. *)
LEMMA NoNewMark ==
  ASSUME OneMarkPerTime, clock' = clock, Marks' \subseteq Marks
  PROVE  OneMarkPerTime'
BY DEF OneMarkPerTime

(* Put, FakeDel, PutTimestamp and DelTimestamp: one mark of one tree. *)
LEMMA SetMark ==
  ASSUME TreeOK, NEW a, NEW b, NEW m \in Mark
  PROVE  /\ [tree EXCEPT ![a][b] = m] \in [Addr -> [Key -> Mark]]
         /\ \A n \in Addr, k \in Key :
              [tree EXCEPT ![a][b] = m][n][k] = IF n = a /\ k = b THEN m ELSE tree[n][k]
BY DEF TreeOK

LEMMA Facts ==
  ASSUME Inv
  PROVE  /\ None \in Marks /\ None \in Mark
         /\ None.ts = 0 /\ None.live = FALSE
         /\ \A n \in Addr, k \in Key : tree[n][k] \in Marks
         /\ \A t \in threads : Sent(t) => t.item.mark \in Marks
         /\ Marks \subseteq Mark
BY DEF Inv, OneMarkPerTime, Marks, TreeMarks, ThreadMarks, None, Mark

(* What a Sync does in one step, by the walk it is on. *)
Held(w) == Stale(w) => w.mark \in Marks
LEMMA OneStep ==
  ASSUME Inv, NEW w, WalkOK(w), Held(w), NEW src, NEW dst, NEW destructive \in BOOLEAN,
         NEW step \in Steps(w, src, dst, destructive)
  PROVE  /\ WalkOK(step.walk) /\ Held(step.walk)
         /\ step.tree \in [Addr -> [Key -> Mark]]
         /\ \A n \in Addr, k \in Key :
              /\ step.tree[n][k] \in Marks
              /\ \/ step.tree[n][k] = tree[n][k]
                 \/ step.tree[n][k].ts > tree[n][k].ts
                 \/ /\ w.pc = "delete" /\ w.key = k /\ w.mark = tree[n][k]
                    /\ n = src /\ step.tree[n][k] = None
         /\ w.pc = "delete" \/ ~destructive => step.walk.pc # "delete"
<1>1. TreeOK /\ alive \subseteq Addr /\ clock \in Nat
  BY DEF Inv
<1>2. CASE w.pc = "finger"
  <2>1. PICK k \in w.todo :
          step = [tree |-> tree,
                  walk |-> [pc |-> "put", todo |-> w.todo \ {k}, key |-> k,
                            mark |-> Seen(src, k), expected |-> Seen(dst, k)]]
    BY <1>2 DEF Steps
  <2>2. k \in Key /\ w.todo \subseteq Key
    BY DEF WalkOK
  <2>3. Seen(src, k) \in Marks
    BY <1>1, <2>2, Facts DEF Seen
  <2>4. step.tree = tree
    BY <2>1
  <2>5. step.walk = [pc |-> "put", todo |-> w.todo \ {k}, key |-> k,
                     mark |-> Seen(src, k), expected |-> Seen(dst, k)]
    BY <2>1
  <2>6. WalkOK(step.walk)
    BY <2>2, <2>5 DEF WalkOK, Stale
  <2>7. Held(step.walk) /\ step.walk.pc # "delete"
    BY <2>3, <2>5 DEF Held
  <2> QED
    BY <1>1, <2>4, <2>6, <2>7, Facts DEF TreeOK
<1>3. CASE w.pc = "put"
  <2>1. step = [tree |-> PutTimestamp(w, src, dst),
                walk |-> IF destructive /\ w.mark.ts > 0 THEN [w EXCEPT !.pc = "delete"]
                         ELSE Reading(w.todo)]
    BY <1>3 DEF Steps
  <2>2. /\ w = [pc |-> w.pc, todo |-> w.todo, key |-> w.key,
                mark |-> w.mark, expected |-> w.expected]
        /\ w.todo \subseteq Key
    BY <1>3 DEF WalkOK
  <2>3. w.mark \in Marks /\ w.mark \in Mark
    BY <1>3, Facts DEF Held, Stale
  <2>4. WalkOK(step.walk) /\ Held(step.walk)
    <3>1. CASE destructive /\ w.mark.ts > 0
      <4>1. step.walk = [pc |-> "delete", todo |-> w.todo, key |-> w.key,
                         mark |-> w.mark, expected |-> w.expected]
        BY <2>1, <2>2, <3>1
      <4> QED
        BY <2>2, <2>3, <4>1 DEF WalkOK, Held, Stale
    <3>2. CASE ~(destructive /\ w.mark.ts > 0)
      <4>1. step.walk = [pc |-> "finger", todo |-> w.todo]
        BY <2>1, <3>2 DEF Reading
      <4> QED
        BY <2>2, <4>1 DEF WalkOK, Held, Stale
    <3> QED
      BY <3>1, <3>2
  <2>5. ~destructive => step.walk.pc # "delete"
    BY <2>1 DEF Reading
  <2>6. step.tree = PutTimestamp(w, src, dst)
    BY <2>1
  <2>7. CASE step.tree = tree
    BY <1>1, <1>3, <2>4, <2>5, <2>7, Facts DEF TreeOK
  <2>8. CASE step.tree # tree
    <3>1. /\ step.tree = [tree EXCEPT ![dst][w.key] = w.mark]
          /\ ~coveredBy(w.mark, w.expected)
          /\ tree[dst][w.key].ts = w.expected.ts
      BY <2>6, <2>8 DEF PutTimestamp
    <3>2. /\ step.tree \in [Addr -> [Key -> Mark]]
          /\ \A n \in Addr, k \in Key :
               step.tree[n][k] = IF n = dst /\ k = w.key THEN w.mark ELSE tree[n][k]
      BY <1>1, <2>3, <3>1, SetMark
    <3>3. ASSUME NEW n \in Addr, NEW k \in Key
          PROVE  /\ step.tree[n][k] \in Marks
                 /\ step.tree[n][k] = tree[n][k] \/ step.tree[n][k].ts > tree[n][k].ts
      <4>1. CASE n = dst /\ k = w.key
        <5>1. step.tree[n][k] = w.mark /\ tree[n][k] \in Marks
          BY <3>2, <4>1, Facts
        <5>2. w.mark.ts \in Nat /\ tree[n][k].ts \in Nat
          BY <2>3, <5>1, Facts DEF Mark
        <5>3. ~(tree[n][k].ts > w.mark.ts)
          BY <3>1, <4>1 DEF coveredBy
        <5>4. w.mark.ts = tree[n][k].ts => w.mark = tree[n][k]
          BY <2>3, <5>1 DEF Inv, OneMarkPerTime
        <5> QED
          BY <2>3, <5>1, <5>2, <5>3, <5>4
      <4>2. CASE ~(n = dst /\ k = w.key)
        BY <3>2, <4>2, Facts
      <4> QED
        BY <4>1, <4>2
    <3> QED
      BY <1>3, <2>4, <2>5, <3>2, <3>3
  <2> QED
    BY <2>7, <2>8
<1>4. CASE w.pc = "delete"
  <2>1. step = [tree |-> DelTimestamp(w, src), walk |-> Reading(w.todo)]
    BY <1>4 DEF Steps
  <2>2. w.todo \subseteq Key
    BY DEF WalkOK
  <2>3. w.mark \in Marks
    BY <1>4 DEF Held, Stale
  <2>4. step.walk = [pc |-> "finger", todo |-> w.todo]
    BY <2>1 DEF Reading
  <2>5. WalkOK(step.walk) /\ Held(step.walk) /\ step.walk.pc # "delete"
    BY <2>2, <2>4 DEF WalkOK, Held, Stale
  <2>6. step.tree = DelTimestamp(w, src)
    BY <2>1
  <2>7. CASE step.tree = tree
    BY <1>1, <2>5, <2>7, Facts DEF TreeOK
  <2>8. CASE step.tree # tree
    <3>1. /\ step.tree = [tree EXCEPT ![src][w.key] = None]
          /\ tree[src][w.key].ts = w.mark.ts
      BY <2>6, <2>8 DEF DelTimestamp
    <3>2. /\ step.tree \in [Addr -> [Key -> Mark]]
          /\ \A n \in Addr, k \in Key :
               step.tree[n][k] = IF n = src /\ k = w.key THEN None ELSE tree[n][k]
      BY <1>1, <3>1, SetMark, Facts
    <3>3. ASSUME NEW n \in Addr, NEW k \in Key, n = src, k = w.key
          PROVE  w.mark = tree[n][k]
      <4>1. tree[n][k] \in Marks /\ tree[n][k].ts = w.mark.ts
        BY <3>1, <3>3, Facts
      <4> QED
        BY <2>3, <4>1 DEF Inv, OneMarkPerTime
    <3> QED
      BY <1>4, <2>5, <3>2, <3>3, Facts
  <2> QED
    BY <2>7, <2>8
<1>5. w.pc \in {"finger", "put", "delete"}
  BY DEF WalkOK, Stale
<1> QED
  BY <1>2, <1>3, <1>4, <1>5
-----------------------------------------------------------------------------
(* The parts of a step that brings no new mark. *)
ThreadIn(t) == ThreadOK(t) /\ (Sent(t) => t.item.mark \in Marks)
SyncerIn(r) == SyncerOK(r) /\ (r.pc = "sync" => Held(r.walk))
CleanerIn(c) == CleanerOK(c) /\ (c.pc = "clean" => Held(c.walk))
TreeKept ==
  tree' \in [Addr -> [Key -> Mark]] /\ \A n \in Addr, k \in Key : tree'[n][k] \in Marks
ThreadsKept == \A t \in threads' : ThreadIn(t)
SyncersKept == syncer' = [n \in Addr |-> syncer'[n]] /\ \A n \in Addr : SyncerIn(syncer'[n])
CleanersKept == cleaner' = [n \in Addr |-> cleaner'[n]] /\ \A n \in Addr : CleanerIn(cleaner'[n])

LEMMA Kept ==
  ASSUME Inv, clock' = clock, alive' \subseteq Addr,
         TreeKept, ThreadsKept, SyncersKept, CleanersKept
  PROVE  Inv'
<1>1. TreeOK'
  BY DEF TreeKept, TreeOK
<1>2. ThreadsOK'
  BY DEF ThreadsKept, ThreadsOK, ThreadIn
<1>3. SyncersOK'
  BY DEF SyncersKept, SyncersOK, SyncerIn
<1>4. CleanersOK'
  BY DEF CleanersKept, CleanersOK, CleanerIn
<1>5. Marks' \subseteq Marks
  <2>1. TreeMarks' \subseteq Marks
    BY DEF TreeMarks, TreeKept
  <2>2. ThreadMarks' \subseteq Marks
    BY DEF ThreadMarks, ThreadsKept, ThreadIn
  <2>3. SyncMarks' \subseteq Marks
    BY DEF SyncMarks, SyncersKept, SyncerIn, Held
  <2>4. CleanMarks' \subseteq Marks
    BY DEF CleanMarks, CleanersKept, CleanerIn, Held
  <2>5. None \in Marks
    BY DEF Marks
  <2> QED
    BY <2>1, <2>2, <2>3, <2>4, <2>5 DEF Marks
<1>6. OneMarkPerTime'
  BY <1>5, NoNewMark DEF Inv
<1> QED
  BY <1>1, <1>2, <1>3, <1>4, <1>6 DEF Inv

LEMMA Standing ==
  ASSUME Inv
  PROVE  /\ UNCHANGED tree => TreeKept
         /\ \A t \in threads : ThreadIn(t)
         /\ UNCHANGED threads => ThreadsKept
         /\ \A n \in Addr : SyncerIn(syncer[n])
         /\ UNCHANGED syncer => SyncersKept
         /\ \A n \in Addr : CleanerIn(cleaner[n])
         /\ UNCHANGED cleaner => CleanersKept
<1>1. UNCHANGED tree => TreeKept
  BY Facts DEF TreeKept, Inv, TreeOK
<1>2. \A t \in threads : ThreadIn(t)
  BY Facts DEF ThreadIn, Inv, ThreadsOK
<1>3. \A n \in Addr : SyncerIn(syncer[n])
  <2> SUFFICES ASSUME NEW n \in Addr, syncer[n].pc = "sync" PROVE Held(syncer[n].walk)
    BY DEF SyncerIn, Inv, SyncersOK
  <2> QED
    BY DEF Held, Marks, SyncMarks
<1>4. \A n \in Addr : CleanerIn(cleaner[n])
  <2> SUFFICES ASSUME NEW n \in Addr, cleaner[n].pc = "clean" PROVE Held(cleaner[n].walk)
    BY DEF CleanerIn, Inv, CleanersOK
  <2> QED
    BY DEF Held, Marks, CleanMarks
<1>5. UNCHANGED threads => ThreadsKept
  BY <1>2 DEF ThreadsKept
<1>6. UNCHANGED syncer => SyncersKept
  BY <1>3 DEF SyncersKept, Inv, SyncersOK
<1>7. UNCHANGED cleaner => CleanersKept
  BY <1>4 DEF CleanersKept, Inv, CleanersOK
<1> QED
  BY <1>1, <1>2, <1>3, <1>4, <1>5, <1>6, <1>7
-----------------------------------------------------------------------------
(* Operations under way.  A thread that does something has been sent: the  *)
(* innermost frame is not the client's.                                    *)
LEMMA Busy ==
  ASSUME NEW t, top(t).pc # "client"
  PROVE  Sent(t)
BY DEF Sent, top, Caller, Frame

LEMMA Restacked ==
  ASSUME Inv, NEW t \in threads, Sent(t), NEW stack
  PROVE  ThreadIn([t EXCEPT !.stack = stack])
<1>1. ThreadIn(t)
  BY Standing
<1>2. t = [item |-> t.item, stack |-> t.stack]
  BY <1>1 DEF ThreadIn, ThreadOK
<1>3. [t EXCEPT !.stack = stack] = [item |-> t.item, stack |-> stack]
  BY <1>2
<1> QED
  BY <1>1, <1>3 DEF ThreadIn, ThreadOK

LEMMA HandleKeeps ==
  ASSUME Inv, NEW t \in threads, Handle(t)
  PROVE  Inv'
<1>1. Sent(t)
  BY Busy DEF Handle
<1>2. ThreadsKept
  <2>1. PICK a, b : threads' \subseteq threads \cup {[t EXCEPT !.stack = a], [t EXCEPT !.stack = b]}
    BY DEF Handle, Becomes
  <2> QED
    BY <1>1, <2>1, Restacked, Standing DEF ThreadsKept
<1> QED
  BY <1>2, Standing, Kept DEF Handle, LoopsAndRing, Inv

LEMMA ForwardKeeps ==
  ASSUME Inv, NEW t \in threads, Forward(t)
  PROVE  Inv'
<1>1. Sent(t)
  BY Busy DEF Forward
<1>2. ThreadsKept
  <2>1. PICK a : threads' \subseteq threads \cup {[t EXCEPT !.stack = a]}
    BY DEF Forward, Becomes
  <2> QED
    BY <1>1, <2>1, Restacked, Standing DEF ThreadsKept
<1> QED
  BY <1>2, Standing, Kept DEF Forward, LoopsAndRing, Inv

LEMMA MarkSet ==
  ASSUME Inv, NEW a, NEW b, NEW m \in Marks, tree' = [tree EXCEPT ![a][b] = m]
  PROVE  TreeKept
<1> DEFINE new == [tree EXCEPT ![a][b] = m]
<1>1. /\ new \in [Addr -> [Key -> Mark]]
      /\ \A n \in Addr, k \in Key : new[n][k] = IF n = a /\ k = b THEN m ELSE tree[n][k]
  <2>1. TreeOK /\ m \in Mark
    BY Facts DEF Inv
  <2> QED
    BY <2>1, SetMark
<1>2. \A n \in Addr, k \in Key : new[n][k] \in Marks
  <2> HIDE DEF new
  <2> QED
    BY <1>1, Facts
<1>3. tree' = new
  OBVIOUS
<1> QED
  BY <1>1, <1>2, <1>3 DEF TreeKept

LEMMA AppliesKeeps ==
  ASSUME Inv, NEW t \in threads, Applies(t),
         tree' = [tree EXCEPT ![top(t).at][t.item.key] = t.item.mark]
  PROVE  Sent(t) /\ TreeKept
<1>1. Sent(t)
  BY Busy DEF Applies
<1>2. t.item.mark \in Marks /\ t.item.mark \in Mark
  BY <1>1, Facts
<1>3. TreeKept
  BY <1>2, MarkSet
<1> QED
  BY <1>1, <1>3

LEMMA ApplyKeeps ==
  ASSUME Inv, NEW t \in threads, Apply(t)
  PROVE  Inv'
<1>1. Sent(t) /\ TreeKept
  BY AppliesKeeps DEF Apply
<1>2. ThreadsKept
  <2>1. PICK a : threads' \subseteq threads \cup {[t EXCEPT !.stack = a]}
    BY DEF Apply, Becomes
  <2> QED
    BY <1>1, <2>1, Restacked, Standing DEF ThreadsKept
<1> QED
  BY <1>1, <1>2, Standing, Kept DEF Apply, LoopsAndRing, Inv

LEMMA AnswerKeeps ==
  ASSUME Inv, NEW t \in threads, ClientAnswer(t)
  PROVE  Inv'
<1>1. TreeKept
  BY AppliesKeeps DEF ClientAnswer, Answered
<1>2. ThreadsKept
  BY Standing DEF ThreadsKept, ClientAnswer
<1> QED
  BY <1>1, <1>2, Standing, Kept DEF ClientAnswer, LoopsAndRing, Inv

LEMMA WriteKeeps ==
  ASSUME Inv, NEW key, NEW live \in BOOLEAN, NEW sync, ClientWrite(key, live, sync)
  PROVE  Inv'
<1> DEFINE t == [item |-> [key |-> key, mark |-> [ts |-> 0, live |-> live], sync |-> sync],
                 stack |-> <<Caller>>]
<1>1. ThreadIn(t)
  BY DEF ThreadIn, ThreadOK, Sent, Mark
<1>2. threads' = threads \cup {t}
  BY DEF ClientWrite
<1>3. ThreadsKept
  BY <1>1, <1>2, Standing DEF ThreadsKept
<1> QED
  BY <1>3, Standing, Kept DEF ClientWrite, Inv

(* A call of the client is the only step that makes a mark: of a time that *)
(* no other has.                                                           *)
LEMMA CallKeeps ==
  ASSUME Inv, NEW t \in threads, ClientCall(t)
  PROVE  Inv'
<1>1. CASE clock' = clock /\ UNCHANGED threads
  BY <1>1, Standing, Kept DEF ClientCall, Inv
<1>2. CASE ~(clock' = clock /\ UNCHANGED threads)
  <2> DEFINE item == [t.item EXCEPT !.mark.ts = clock + 1]
  <2>1. /\ clock' = clock + 1
        /\ \E stack : threads' = (threads \ {t}) \cup {[item |-> item, stack |-> stack]}
        /\ UNCHANGED <<alive, tree, syncer, cleaner>>
    BY <1>2 DEF ClientCall
  <2>2. PICK stack : threads' = (threads \ {t}) \cup {[item |-> item, stack |-> stack]}
    BY <2>1
  <2>3. /\ t.item = [key |-> t.item.key, mark |-> t.item.mark, sync |-> t.item.sync]
        /\ t.item.mark \in Mark
    BY DEF Inv, ThreadsOK, ThreadOK
  <2>4. clock \in Nat
    BY DEF Inv
  <2> DEFINE new == [ts |-> clock + 1, live |-> t.item.mark.live]
  <2>5. item = [key |-> t.item.key, mark |-> new, sync |-> t.item.sync]
    BY <2>3 DEF Mark
  <2>6. new \in Mark /\ new.ts = clock + 1
    BY <2>3, <2>4 DEF Mark
  <2> HIDE DEF item, new
  <2>7. ThreadOK([item |-> item, stack |-> stack])
    BY <2>5, <2>6 DEF ThreadOK
  <2>8. ThreadsOK'
    BY <2>2, <2>7 DEF ThreadsOK, Inv
  <2>9. Marks' \subseteq Marks \cup {new}
    <3>1. TreeMarks' = TreeMarks /\ SyncMarks' = SyncMarks /\ CleanMarks' = CleanMarks
      BY <2>1 DEF TreeMarks, SyncMarks, CleanMarks
    <3>2. ThreadMarks' \subseteq ThreadMarks \cup {new}
      BY <2>2, <2>5 DEF ThreadMarks
    <3> QED
      BY <3>1, <3>2 DEF Marks
  <2>10. \A m \in Marks : m \in Mark /\ m.ts \in Nat /\ m.ts <= clock
    BY DEF Inv, OneMarkPerTime, Mark
  <2>11. \A m \in Marks' : m \in Mark /\ m.ts <= clock'
    BY <2>1, <2>4, <2>6, <2>9, <2>10
  <2>12. \A m, n \in Marks' : m.ts = n.ts => m = n
    <3> SUFFICES ASSUME NEW m \in Marks', NEW n \in Marks', m.ts = n.ts
                 PROVE  m = n
      OBVIOUS
    <3>1. CASE m \in Marks /\ n \in Marks
      BY <3>1 DEF Inv, OneMarkPerTime
    <3>2. CASE m = new \/ n = new
      BY <2>4, <2>6, <2>9, <2>10, <3>2
    <3> QED
      BY <2>9, <3>1, <3>2
  <2>13. OneMarkPerTime'
    BY <2>11, <2>12 DEF OneMarkPerTime
  <2>14. TreeOK' /\ SyncersOK' /\ CleanersOK'
    BY <2>1 DEF Inv, TreeOK, SyncersOK, CleanersOK
  <2> QED
    BY <2>1, <2>4, <2>8, <2>13, <2>14 DEF Inv
<1> QED
  BY <1>1, <1>2

LEMMA Alone == \A x : SubSeq(<<x>>, 1, 1) = <<x>>
<1> TAKE x
<1> DEFINE s == <<x>>
           u == SubSeq(s, 1, 1)
<1>1. s \in Seq({x}) /\ Len(s) = 1 /\ s[1] = x
  OBVIOUS
<1>2. u \in Seq({x}) /\ Len(u) = 1 /\ u[1] = s[1]
  BY <1>1, SubSeqProperties
<1> HIDE DEF s, u
<1>3. u = s
  BY <1>1, <1>2, SeqEqual
<1> QED
  BY <1>3 DEF s, u

(* A crash cuts stacks, and makes no operation of a call not yet sent. *)
LEMMA CrashKeeps ==
  ASSUME Inv, NEW n \in Addr, Crash(n)
  PROVE  Inv'
<1>1. ThreadsKept
  <2> SUFFICES ASSUME NEW u \in threads' PROVE ThreadIn(u)
    BY DEF ThreadsKept
  <2>1. PICK t \in threads : \E st \in Pieces(t.stack, n) : u = [t EXCEPT !.stack = st]
    BY DEF Crash
  <2>2. PICK st \in Pieces(t.stack, n) : u = [t EXCEPT !.stack = st]
    BY <2>1
  <2>3. CASE Sent(t)
    BY <2>2, <2>3, Restacked
  <2>4. CASE ~Sent(t)
    <3>1. t.stack = <<Caller>>
      BY <2>4 DEF Sent
    <3>2. st = <<Caller>>
      <4>1. PICK p \in (DOMAIN t.stack) \X (DOMAIN t.stack) : st = SubSeq(t.stack, p[1], p[2])
        BY DEF Pieces
      <4>2. p[1] = 1 /\ p[2] = 1
        BY <3>1, <4>1
      <4>3. SubSeq(<<Caller>>, 1, 1) = <<Caller>>
        BY Alone
      <4> QED
        BY <3>1, <4>1, <4>2, <4>3
    <3>3. ThreadIn(t)
      BY Standing
    <3>4. u = t
      BY <2>2, <3>1, <3>2, <3>3 DEF ThreadIn, ThreadOK
    <3> QED
      BY <3>3, <3>4
  <2> QED
    BY <2>3, <2>4
<1>2. SyncerIn(Idle) /\ CleanerIn(Idle)
  BY DEF SyncerIn, SyncerOK, CleanerIn, CleanerOK, Idle
<1>3. SyncersKept
  <2>1. syncer' = [syncer EXCEPT ![n] = Idle]
    BY DEF Crash
  <2> QED
    BY <1>2, <2>1, Standing DEF SyncersKept, Inv, SyncersOK
<1>4. CleanersKept
  <2>1. cleaner' = [cleaner EXCEPT ![n] = Idle]
    BY DEF Crash
  <2> QED
    BY <1>2, <2>1, Standing DEF CleanersKept, Inv, CleanersOK
<1> QED
  BY <1>1, <1>3, <1>4, Standing, Kept DEF Crash, Inv
-----------------------------------------------------------------------------
(* The loops *)

LEMMA SetSyncer ==
  ASSUME Inv, NEW n \in Addr, NEW r, SyncerIn(r), syncer' = [syncer EXCEPT ![n] = r]
  PROVE  SyncersKept
BY Standing DEF SyncersKept, Inv, SyncersOK

LEMMA SetCleaner ==
  ASSUME Inv, NEW n \in Addr, NEW c, CleanerIn(c), cleaner' = [cleaner EXCEPT ![n] = c]
  PROVE  CleanersKept
BY Standing DEF CleanersKept, Inv, CleanersOK

(* A Sync that begins. *)
LEMMA Begins ==
  ASSUME NEW todo, todo \subseteq Key
  PROVE  WalkOK(Reading(todo)) /\ Held(Reading(todo)) /\ Reading(todo).pc # "delete"
BY DEF WalkOK, Held, Stale, Reading

LEMMA RoundIn ==
  ASSUME NEW i, NEW peer, NEW dir, NEW todo, todo \subseteq Key
  PROVE  SyncerIn(Round(i, peer, dir, todo))
BY Begins DEF SyncerIn, SyncerOK, Round

LEMMA KeysOnly ==
  /\ \A n, peer : Push(n, peer) \subseteq Key /\ Pull(n, peer) \subseteq Key
  /\ \A c, n : Cleans(c, n) \subseteq Key
BY DEF Push, Pull, Cleans, Differing, Present

LEMMA IdleIn == SyncerIn(Idle) /\ CleanerIn(Idle)
BY DEF SyncerIn, SyncerOK, CleanerIn, CleanerOK, Idle

LEMMA SyncStartKeeps ==
  ASSUME Inv, NEW n \in Addr, SyncStart(n)
  PROVE  Inv'
<1>1. PICK s : syncer' = [syncer EXCEPT ![n] = Round(0, s, "push", Push(n, s.addr))]
  BY DEF SyncStart
<1>2. SyncersKept
  BY <1>1, RoundIn, KeysOnly, SetSyncer
<1> QED
  BY <1>2, Standing, Kept DEF SyncStart, RingStands, Inv

LEMMA SyncTurnKeeps ==
  ASSUME Inv, NEW n \in Addr, SyncTurn(n)
  PROVE  Inv'
<1>1. PICK r : /\ syncer' = [syncer EXCEPT ![n] = r]
               /\ \/ \E i, peer : r = Round(i, peer, "pull", Pull(n, peer.addr))
                  \/ \E i, peer : r = Round(i, peer, "push", Push(n, peer.addr))
                  \/ r = Idle
  BY DEF SyncTurn
<1>2. SyncerIn(r)
  BY <1>1, RoundIn, KeysOnly, IdleIn
<1>3. SyncersKept
  BY <1>1, <1>2, SetSyncer
<1> QED
  BY <1>3, Standing, Kept DEF SyncTurn, RingStands, Inv

LEMMA CleanStartKeeps ==
  ASSUME Inv, NEW n \in Addr, CleanStart(n)
  PROVE  Inv'
<1>1. CleanersKept
  <2>1. CASE UNCHANGED cleaner
    BY <2>1, Standing
  <2>2. CASE ~UNCHANGED cleaner
    <3>1. PICK key, os, todo :
            /\ todo \subseteq Key
            /\ cleaner' = [cleaner EXCEPT ![n] =
                 [pc |-> "clean", from |-> key, owners |-> os, index |-> 1, walk |-> Reading(todo)]]
      BY <2>2, KeysOnly DEF CleanStart
    <3>2. CleanerIn([pc |-> "clean", from |-> key, owners |-> os, index |-> 1,
                     walk |-> Reading(todo)])
      BY <3>1, Begins DEF CleanerIn, CleanerOK
    <3> QED
      BY <3>1, <3>2, SetCleaner
  <2> QED
    BY <2>1, <2>2
<1> QED
  BY <1>1, Standing, Kept DEF CleanStart, Inv

LEMMA CleanTurnKeeps ==
  ASSUME Inv, NEW n \in Addr, CleanTurn(n)
  PROVE  Inv'
<1> DEFINE old == cleaner[n]
           c == [old EXCEPT !.index = @ + 1]
<1>1. cleaner' = [cleaner EXCEPT ![n] =
        IF c.index > Len(c.owners) THEN Idle ELSE [c EXCEPT !.walk = Reading(Cleans(c, n))]]
  BY DEF CleanTurn
<1>2. old = [pc |-> "clean", from |-> old.from, owners |-> old.owners, index |-> old.index,
             walk |-> old.walk]
  BY Standing DEF CleanTurn, CleanerIn, CleanerOK, Idle
<1>3. c = [pc |-> "clean", from |-> old.from, owners |-> old.owners, index |-> old.index + 1,
           walk |-> old.walk]
  BY <1>2
<1> HIDE DEF c
<1>4. CleanerIn([c EXCEPT !.walk = Reading(Cleans(c, n))])
  <2> DEFINE w == Reading(Cleans(c, n))
  <2>1. WalkOK(w) /\ Held(w)
    BY Begins, KeysOnly
  <2> HIDE DEF w
  <2>2. [c EXCEPT !.walk = w] =
          [pc |-> "clean", from |-> old.from, owners |-> old.owners, index |-> old.index + 1,
           walk |-> w]
    BY <1>3
  <2>3. CleanerIn([c EXCEPT !.walk = w])
    BY <2>1, <2>2 DEF CleanerIn, CleanerOK
  <2> QED
    BY <2>3 DEF w
<1>5. CleanersKept
  BY <1>1, <1>4, IdleIn, SetCleaner
<1> QED
  BY <1>5, Standing, Kept DEF CleanTurn, RingStands, Inv

(* The step of a Sync that a loop makes, and what it may do to the trees. *)
LEMMA SyncWalkKeeps ==
  ASSUME Inv, NEW n \in Addr, SyncWalk(n)
  PROVE  Inv' /\ \A m \in Addr, k \in Key : LoopStep(m, k)
<1> DEFINE r == syncer[n]
           src == IF r.dir = "push" THEN n ELSE r.peer.addr
           dst == IF r.dir = "push" THEN r.peer.addr ELSE n
<1>1. PICK step \in Steps(r.walk, src, dst, FALSE) :
        tree' = step.tree /\ syncer' = [syncer EXCEPT ![n].walk = step.walk]
  BY DEF SyncWalk
<1>2. /\ r = [pc |-> "sync", i |-> r.i, peer |-> r.peer, dir |-> r.dir, walk |-> r.walk]
      /\ WalkOK(r.walk) /\ Held(r.walk) /\ r.walk.pc # "delete"
  BY Standing DEF SyncWalk, SyncerIn, SyncerOK, Idle
<1> HIDE DEF src, dst
<1>3. /\ WalkOK(step.walk) /\ Held(step.walk)
      /\ step.tree \in [Addr -> [Key -> Mark]]
      /\ \A m \in Addr, k \in Key :
           /\ step.tree[m][k] \in Marks
           /\ step.tree[m][k] = tree[m][k] \/ step.tree[m][k].ts > tree[m][k].ts
      /\ step.walk.pc # "delete"
  <2> DEFINE w == r.walk
             d == FALSE
  <2>1. WalkOK(w) /\ Held(w) /\ w.pc # "delete"
    BY <1>2
  <2>2. step \in Steps(w, src, dst, d) /\ d \in BOOLEAN /\ ~d
    OBVIOUS
  <2> HIDE DEF w, d
  <2> QED
    BY <2>1, <2>2, OneStep
<1>4. TreeKept
  BY <1>1, <1>3 DEF TreeKept
<1>7. \A m \in Addr, k \in Key : LoopStep(m, k)
  BY <1>1, <1>3 DEF LoopStep
<1>5. SyncersKept
  <2> DEFINE new == [r EXCEPT !.walk = step.walk]
  <2>1. new = [pc |-> "sync", i |-> r.i, peer |-> r.peer, dir |-> r.dir, walk |-> step.walk]
    BY <1>2
  <2>2. SyncerIn(new)
    BY <1>3, <2>1 DEF SyncerIn, SyncerOK
  <2>3. syncer' = [syncer EXCEPT ![n] = new]
    BY <1>1
  <2> QED
    BY <2>2, <2>3, SetSyncer
<1>6. Inv'
  BY <1>4, <1>5, Standing, Kept DEF SyncWalk, RingStands, Inv
<1> QED
  BY <1>6, <1>7

LEMMA CleanWalkKeeps ==
  ASSUME Inv, NEW n \in Addr, CleanWalk(n)
  PROVE  Inv' /\ \A m \in Addr, k \in Key : LoopStep(m, k)
<1> DEFINE c == cleaner[n]
           dst == c.owners[c.index].addr
           d == c.index = Len(c.owners) - 1
           w == c.walk
<1>1. PICK step \in Steps(w, n, dst, d) :
        tree' = step.tree /\ cleaner' = [cleaner EXCEPT ![n].walk = step.walk]
  BY DEF CleanWalk
<1>2. /\ c = [pc |-> "clean", from |-> c.from, owners |-> c.owners, index |-> c.index,
              walk |-> w]
      /\ WalkOK(w) /\ Held(w) /\ c.pc = "clean"
  BY Standing DEF CleanWalk, CleanerIn, CleanerOK, Idle
<1>3. d \in BOOLEAN
  OBVIOUS
<1> HIDE DEF dst, d
<1>4. /\ WalkOK(step.walk) /\ Held(step.walk)
      /\ step.tree \in [Addr -> [Key -> Mark]]
      /\ \A m \in Addr, k \in Key :
           /\ step.tree[m][k] \in Marks
           /\ \/ step.tree[m][k] = tree[m][k]
              \/ step.tree[m][k].ts > tree[m][k].ts
              \/ /\ w.pc = "delete" /\ w.key = k /\ w.mark = tree[m][k]
                 /\ m = n /\ step.tree[m][k] = None
  <2> HIDE DEF w
  <2> QED
    BY <1>1, <1>2, <1>3, OneStep
<1>5. TreeKept
  BY <1>1, <1>4 DEF TreeKept
<1>6. \A m \in Addr, k \in Key : LoopStep(m, k)
  BY <1>1, <1>2, <1>4 DEF LoopStep
<1>7. CleanersKept
  <2> DEFINE new == [c EXCEPT !.walk = step.walk]
  <2>1. new = [pc |-> "clean", from |-> c.from, owners |-> c.owners, index |-> c.index,
               walk |-> step.walk]
    BY <1>2
  <2>2. CleanerIn(new)
    BY <1>4, <2>1 DEF CleanerIn, CleanerOK
  <2>3. cleaner' = [cleaner EXCEPT ![n] = new]
    BY <1>1
  <2> QED
    BY <2>2, <2>3, SetCleaner
<1>8. Inv'
  BY <1>5, <1>7, Standing, Kept DEF CleanWalk, RingStands, Inv
<1> QED
  BY <1>6, <1>8
-----------------------------------------------------------------------------
(* What a loop does in a step in which it changes a tree. *)
Forwards ==
  tree' # tree /\ (syncer' # syncer \/ cleaner' # cleaner) =>
    \A n \in Addr, k \in Key : LoopStep(n, k)

LEMMA Standstill ==
  ASSUME Inv, UNCHANGED <<alive, clock, tree, threads, syncer, cleaner>>
  PROVE  Inv'
BY Standing, Kept DEF Inv

LEMMA Step ==
  ASSUME Inv, [Next]_vars
  PROVE  Inv' /\ Forwards
<1>1. CASE Write
  <2>1. PICK key \in budget.keys, live \in BOOLEAN : ClientWrite(key, live, budget.sync)
    BY <1>1 DEF Write
  <2>2. tree' = tree
    BY <2>1 DEF ClientWrite
  <2> QED
    BY <2>1, <2>2, WriteKeeps DEF Forwards
<1>2. CASE Run
  <2>1. CASE Serve
    <3>1. PICK t \in threads : Handle(t) \/ Forward(t)
      BY <2>1 DEF Serve
    <3>2. tree' = tree
      BY <3>1 DEF Handle, Forward
    <3> QED
      BY <3>1, <3>2, HandleKeeps, ForwardKeeps DEF Forwards
  <2>2. CASE \E t \in threads : Apply(t) \/ ClientAnswer(t) \/ ClientCall(t)
    <3>1. PICK t \in threads : Apply(t) \/ ClientAnswer(t) \/ ClientCall(t)
      BY <2>2
    <3>2. syncer' = syncer /\ cleaner' = cleaner
      BY <3>1 DEF Apply, ClientAnswer, ClientCall, LoopsAndRing
    <3> QED
      BY <3>1, <3>2, ApplyKeeps, AnswerKeeps, CallKeeps DEF Forwards
  <2> QED
    BY <1>2, <2>1, <2>2 DEF Run
<1>3. CASE Update \/ Get \/ \E key \in budget.keys : ClientGet(key)
  <2>1. UNCHANGED <<alive, clock, tree, threads, syncer, cleaner>>
    BY <1>3 DEF Update, Get, GetAnswer, GetAgain, GetStart, GetReturn, ClientGet,
                NodesStand, nodeVars
  <2> QED
    BY <2>1, Standstill DEF Forwards
<1>4. ASSUME NEW n \in Addr, Loops(n)
      PROVE  Inv' /\ Forwards
  <2>1. CASE SyncWalk(n)
    BY <2>1, SyncWalkKeeps DEF Forwards
  <2>2. CASE CleanWalk(n)
    BY <2>2, CleanWalkKeeps DEF Forwards
  <2>3. CASE SyncTurn(n) \/ CleanTurn(n) \/ CleanStart(n) \/ SyncStart(n)
    <3>1. tree' = tree
      BY <2>3 DEF SyncTurn, CleanTurn, CleanStart, SyncStart
    <3> QED
      BY <2>3, <3>1, SyncTurnKeeps, CleanTurnKeeps, CleanStartKeeps, SyncStartKeeps DEF Forwards
  <2> QED
    BY <1>4, <2>1, <2>2, <2>3 DEF Loops
<1>5. ASSUME NEW n \in Addr, Changes(n)
      PROVE  Inv' /\ Forwards
  <2>1. tree' = tree
    BY <1>5 DEF Changes, Migrate, Learn, Join, Crash
  <2>2. CASE Crash(n)
    BY <2>1, <2>2, CrashKeeps DEF Forwards
  <2>3. CASE Migrate(n) \/ Learn(n) \/ Join(n)
    <3>1. UNCHANGED <<alive, clock, threads, syncer, cleaner>>
      BY <2>3 DEF Migrate, Learn, Join, LoopsAndRing
    <3> QED
      BY <2>1, <3>1, Standstill DEF Forwards
  <2> QED
    BY <1>5, <2>2, <2>3 DEF Changes
<1>6. CASE UNCHANGED vars
  BY <1>6, Standstill DEF Forwards, vars, nodeVars
<1> QED
  BY <1>1, <1>2, <1>3, <1>4, <1>5, <1>6 DEF Next, Loop, Change

(***************************************************************************)
(* In every cluster, whatever its nodes, keys, Redundancy and scenarios:   *)
(* all copies of a mark that forwarded operations and Syncs have made can  *)
(* be told from others by their timestamps.                                *)
(***************************************************************************)
THEOREM ClientInductive == Spec => []Inv
<1>1. Inv /\ [Next]_vars => Inv'
  BY Step
<1> QED
  BY <1>1, InvInit, PTL DEF Spec

(***************************************************************************)
(* The loops move marks forward only: no PutTimestamp of a Sync, however   *)
(* late, undoes a write, and clean deletes no write but the one it has     *)
(* offered to the owner.                                                   *)
(***************************************************************************)
THEOREM LoopsNeverUndo == Spec => LoopsMoveForward
<1>1. Inv /\ [Next]_vars => Forwards
  BY Step
<1>2. Inv /\ [Next]_vars => [Forwards]_vars
  BY <1>1
<1> QED
  BY <1>2, ClientInductive, PTL DEF Spec, LoopsMoveForward, Forwards
-----------------------------------------------------------------------------
(* Rings: the lowest remote of a set, and the successor of a key. *)

LEMMA LowestIn ==
  ASSUME NEW S, S \subseteq Remote, S # {}
  PROVE  Lowest(S) \in S /\ \A x \in S : ~Less(x, Lowest(S))
<1>0. \A x \in S : x.pos \in Nat /\ x.addr \in Nat
  BY RemotesAssumption DEF Remote
<1> DEFINE P == {x.pos : x \in S}
<1>1. PICK p \in P : \A y \in P : p <= y
  BY <1>0, LeastNatural
<1> DEFINE T == {x \in S : x.pos = p}
           A == {x.addr : x \in T}
<1>2. PICK a \in A : \A y \in A : a <= y
  <2>1. A \subseteq Nat /\ A # {}
    BY <1>0, <1>1
  <2> QED
    BY <2>1, LeastNatural
<1>3. PICK s \in T : s.addr = a
  BY <1>2
<1>4. ASSUME NEW x \in S PROVE ~Less(x, s)
  <2>1. p <= x.pos /\ (x.pos = p => a <= x.addr)
    BY <1>1, <1>2
  <2> QED
    BY <1>0, <1>3, <2>1 DEF Less
<1> QED
  BY <1>3, <1>4 DEF Lowest

(* Remotes are ordered by position and address: no two are alike. *)
LEMMA SameRemote ==
  ASSUME NEW a \in Remote, NEW b \in Remote, ~Less(a, b), ~Less(b, a)
  PROVE  a = b
<1>1. a.pos \in Nat /\ b.pos \in Nat /\ a.addr \in Nat /\ b.addr \in Nat
  BY RemotesAssumption DEF Remote
<1>2. a.pos = b.pos /\ a.addr = b.addr
  BY <1>1 DEF Less
<1> QED
  BY <1>2 DEF Remote

LEMMA SuccessorIn ==
  ASSUME NEW R, R \subseteq Remote, R # {}
  PROVE  /\ \A key : SuccessorOf(R, key) \in R
         /\ \A r : Successor(R, r) \in R
<1>1. ASSUME NEW S, S \subseteq R PROVE Lowest(Or(S, R)) \in R
  <2>1. Or(S, R) \subseteq R /\ Or(S, R) # {}
    BY <1>1 DEF Or
  <2>2. Lowest(Or(S, R)) \in Or(S, R)
    BY <2>1, LowestIn
  <2> QED
    BY <2>1, <2>2
<1>2. ASSUME NEW key PROVE SuccessorOf(R, key) \in R
  BY <1>1 DEF SuccessorOf
<1>3. ASSUME NEW r PROVE Successor(R, r) \in R
  BY <1>1 DEF Successor
<1> QED
  BY <1>2, <1>3

(* What a clean gives away from a key on has the same successor: the range *)
(* it walks ends where that successor is.                                  *)
LEMMA SameSuccessor ==
  ASSUME NEW R, R \subseteq Remote, R # {}, NEW from \in Nat, NEW k \in Nat,
         InLimits(k, from, SuccessorOf(R, from).pos)
  PROVE  SuccessorOf(R, k) = SuccessorOf(R, from)
<1> DEFINE A(x) == {r \in R : r.pos > x}
           s == SuccessorOf(R, from)
<1>0. \A r \in R : r \in Remote /\ r.pos \in Nat
  BY RemotesAssumption DEF Remote
<1>1. s \in R
  BY SuccessorIn
<1>2. s = Lowest(Or(A(from), R)) /\ SuccessorOf(R, k) = Lowest(Or(A(k), R))
  BY DEF SuccessorOf
<1>3. from # s.pos /\ BetweenIE(k, from, s.pos)
  BY DEF InLimits
<1> HIDE DEF s
<1>4. CASE A(from) # {}
  <2>1. s = Lowest(A(from))
    BY <1>2, <1>4 DEF Or
  <2>2. s \in A(from) /\ \A x \in A(from) : ~Less(x, s)
    BY <1>4, <2>1, LowestIn
  <2>3. from <= k /\ k < s.pos
    BY <1>0, <1>1, <1>3, <2>2 DEF BetweenIE
  <2>4. s \in A(k) /\ A(k) \subseteq A(from)
    BY <1>0, <1>1, <2>3
  <2>5. SuccessorOf(R, k) = Lowest(A(k))
    BY <1>2, <2>4 DEF Or
  <2>6. Lowest(A(k)) \in A(k) /\ ~Less(s, Lowest(A(k)))
    BY <2>4, LowestIn
  <2>7. ~Less(Lowest(A(k)), s)
    BY <2>2, <2>4, <2>6
  <2>8. Lowest(A(k)) \in Remote /\ s \in Remote
    BY <1>0, <1>1, <2>6
  <2> QED
    BY <2>5, <2>6, <2>7, <2>8, SameRemote DEF s
<1>5. CASE A(from) = {}
  <2>1. s = Lowest(R)
    BY <1>2, <1>5 DEF Or
  <2>2. \A x \in R : x.pos <= from
    BY <1>0, <1>5
  <2>3. \A x \in R : s.pos <= x.pos
    <3>1. \A x \in R : ~Less(x, s)
      BY <2>1, LowestIn
    <3> QED
      BY <1>0, <1>1, <3>1 DEF Less
  <2>4. from <= k \/ k < s.pos
    BY <1>0, <1>1, <1>3, <2>2 DEF BetweenIE
  <2>5. CASE from <= k
    <3>1. A(k) = {}
      BY <1>0, <2>2, <2>5
    <3> QED
      BY <1>2, <2>1, <3>1 DEF Or, s
  <2>6. CASE k < s.pos
    <3>1. A(k) = R
      BY <1>0, <1>1, <2>3, <2>6
    <3> QED
      BY <1>2, <2>1, <3>1 DEF Or, s
  <2> QED
    BY <2>4, <2>5, <2>6
<1> QED
  BY <1>4, <1>5

LEMMA SomeOwner ==
  ASSUME NEW R, IsFiniteSet(R), R # {}
  PROVE  redundancy(R) \in Nat /\ redundancy(R) >= 1
<1>1. Cardinality(R) \in Nat /\ Cardinality(R) # 0
  BY FS_CardinalityType, FS_EmptySet
<1>2. Redundancy \in Nat /\ Redundancy # 0
  BY DHashAssumption
<1> DEFINE a == Redundancy
           b == Cardinality(R)
<1>3. \E x \in {a, b} : \A y \in {a, b} : x <= y
  <2> HIDE DEF a, b
  <2> QED
    BY <1>1, <1>2 DEF a, b
<1>4. Min({a, b}) \in {a, b}
  <2> HIDE DEF a, b
  <2> QED
    BY <1>3 DEF Min
<1> QED
  BY <1>1, <1>2, <1>4 DEF redundancy

(* The owners of a key begin with its successor, for a node and for a Conn. *)
LEMMA ChainBegins ==
  ASSUME NEW R, R \subseteq Remote, R # {}, NEW r \in R, NEW len \in Nat, len >= 1
  PROVE  DOMAIN Chain(R, r, len) = 1 .. len /\ Chain(R, r, len)[1] = r
<1> DEFINE F == [x \in R |-> Successor(R, x)]
           G(f) == [i \in 1 .. len |-> IF i = 1 THEN r ELSE Successor(R, f[i - 1])]
<1>1. F \in [R -> R]
  BY SuccessorIn
<1>2. PICK g \in [1 .. len -> R] : \A i \in 1 .. len : g[i] = IF i = 1 THEN r ELSE F[g[i - 1]]
  <2>1. IterationsOf(R, F, r, len) # {}
    <3> HIDE DEF F
    <3> QED
      BY <1>1, IterationExists
  <2> QED
    BY <2>1 DEF IterationsOf
<1>3. g = G(g)
  <2>1. \A i \in 1 .. len : i # 1 => i - 1 \in 1 .. len
    OBVIOUS
  <2>2. \A i \in 1 .. len : g[i] = IF i = 1 THEN r ELSE Successor(R, g[i - 1])
    BY <1>2, <2>1
  <2> QED
    BY <2>2
<1> DEFINE c == CHOOSE f : f = G(f)
<1>4. c = G(c)
  <2> HIDE DEF G
  <2> QED
    BY <1>3
<1>5. Chain(R, r, len) = c
  BY DEF Chain
<1> HIDE DEF c
<1>6. DOMAIN c = 1 .. len /\ c[1] = r
  BY <1>4
<1> QED
  BY <1>5, <1>6

LEMMA AskedIn ==
  ASSUME conn \subseteq Remote, conn # {}, IsFiniteSet(conn), NEW key
  PROVE  SuccessorOf(conn, key) \in Asked(key) /\ Asked(key) \subseteq conn
<1> DEFINE len == redundancy(conn)
           b == SuccessorOf(conn, key)
           F == [x \in conn |-> SuccessorOf(conn, x.pos)]
           G(f) == [i \in 1 .. len |-> SuccessorOf(conn, IF i = 1 THEN key ELSE f[i - 1].pos)]
<1>0. len \in Nat /\ len >= 1
  BY SomeOwner
<1>1. F \in [conn -> conn] /\ b \in conn
  BY SuccessorIn
<1> HIDE DEF len
<1>2. PICK g \in [1 .. len -> conn] : \A i \in 1 .. len : g[i] = IF i = 1 THEN b ELSE F[g[i - 1]]
  <2>1. IterationsOf(conn, F, b, len) # {}
    <3> HIDE DEF F, b
    <3> QED
      BY <1>0, <1>1, IterationExists
  <2> QED
    BY <2>1 DEF IterationsOf
<1>3. g = G(g)
  <2>1. \A i \in 1 .. len : i # 1 => i - 1 \in 1 .. len
    BY <1>0
  <2>2. ASSUME NEW i \in 1 .. len
        PROVE  g[i] = SuccessorOf(conn, IF i = 1 THEN key ELSE g[i - 1].pos)
    <3>1. CASE i = 1
      BY <1>2, <3>1
    <3>2. CASE i # 1
      BY <1>2, <2>1, <3>2
    <3> QED
      BY <3>1, <3>2
  <2> QED
    BY <2>2
<1> DEFINE c == CHOOSE f : f = G(f)
<1>4. c = G(c)
  <2> HIDE DEF G
  <2> QED
    BY <1>3
<1>5. Asked(key) = Range(c)
  BY DEF Asked, len
<1> HIDE DEF c
<1>6. DOMAIN c = 1 .. len /\ \A i \in 1 .. len : c[i] \in conn
  BY <1>4, SuccessorIn
<1>7. c[1] = b /\ 1 \in 1 .. len
  BY <1>0, <1>4
<1> QED
  BY <1>5, <1>6, <1>7 DEF Range
-----------------------------------------------------------------------------
(***************************************************************************)
(* A ring that stands: no node joins, crashes or moves, while operations   *)
(* are under way, Conns read and all loops run.                            *)
(***************************************************************************)
Stable == budget.crashes = 0 /\ budget.joins = 0 /\ budget.moves = 0

RingFixed ==
  /\ budget \in Budget /\ Stable
  /\ alive = Addr /\ member \subseteq Addr /\ member # {}
  /\ pos \in [Addr -> Pos]
  /\ view = [n \in Addr |-> IF n \in member THEN RealRing ELSE {Me(n)}]
  /\ conn = RealRing

(* The node that the operations on a key begin with. *)
First(k) == SuccessorOf(RealRing, k).addr

LEMMA RingFacts ==
  ASSUME RingFixed
  PROVE  /\ RealRing \subseteq Remote /\ RealRing # {} /\ IsFiniteSet(RealRing)
         /\ \A r \in RealRing : r.addr \in member
         /\ \A k : SuccessorOf(RealRing, k) \in RealRing /\ First(k) \in Addr
         /\ \A n \in Addr : /\ view[n] \subseteq Remote /\ view[n] # {} /\ IsFiniteSet(view[n])
                            /\ n \in member => view[n] = RealRing
                            /\ n \notin member => view[n] = {Me(n)}
<1> USE DEF RingFixed
<1>1. \A n \in Addr : Me(n) \in Remote /\ Me(n).addr = n
  BY DEF Me, Remote
<1>2. RealRing = {Me(n) : n \in member}
  BY DEF RealRing
<1>3. RealRing \subseteq Remote /\ RealRing # {} /\ \A r \in RealRing : r.addr \in member
  BY <1>1, <1>2
<1>4. IsFiniteSet(RealRing)
  <2>1. IsFiniteSet(member)
    BY DHashAssumption, FS_Subset
  <2> DEFINE f == [n \in member |-> Me(n)]
  <2>2. f \in Surjection(member, RealRing)
    BY <1>2 DEF Surjection
  <2> QED
    BY <2>1, <2>2, FS_Surjection
<1>5. ASSUME NEW k PROVE SuccessorOf(RealRing, k) \in RealRing /\ First(k) \in Addr
  BY <1>3, SuccessorIn DEF First
<1>6. ASSUME NEW n \in Addr
      PROVE  /\ view[n] \subseteq Remote /\ view[n] # {} /\ IsFiniteSet(view[n])
             /\ n \in member => view[n] = RealRing
             /\ n \notin member => view[n] = {Me(n)}
  <2>1. CASE n \in member
    BY <1>3, <1>4, <2>1
  <2>2. CASE n \notin member
    <3>1. view[n] = {Me(n)} /\ Me(n) \in Remote
      BY <1>1, <2>2
    <3>2. IsFiniteSet({Me(n)})
      BY FS_Singleton
    <3> QED
      BY <2>2, <3>1, <3>2
  <2> QED
    BY <2>1, <2>2
<1> QED
  BY <1>3, <1>4, <1>5, <1>6

(* Stacks of calls; only a client calls from outside the cluster. *)
Frames == [at : Addr, ttl : Int, pc : {"handle", "forward", "apply"}] \cup {Caller}
Stacks == Seq(Frames) \ {<<>>}
StacksOK == \A t \in threads : t.stack \in Stacks

(* The Get under way. *)
ReadOK ==
  \/ reading = NoRead
  \/ /\ reading = [pc |-> "get", key |-> reading.key, asked |-> reading.asked,
                   best |-> reading.best, floor |-> reading.floor]
     /\ reading.key \in Key /\ reading.asked \subseteq RealRing
     /\ reading.best \in Mark /\ reading.floor \in Nat

LEMMA TopFrame ==
  ASSUME NEW t, t.stack \in Stacks
  PROVE  /\ top(t) \in Frames /\ top(t) = t.stack[1]
         /\ top(t).pc # "client" => top(t).at \in Addr /\ top(t).ttl \in Int
         /\ Tail(t.stack) \in Seq(Frames) /\ Len(Tail(t.stack)) = Len(t.stack) - 1
<1>1. t.stack \in Seq(Frames) /\ t.stack # <<>>
  BY DEF Stacks
<1>2. top(t) = t.stack[1] /\ top(t) \in Frames
  BY <1>1 DEF top
<1>3. top(t).pc # "client" => top(t).at \in Addr /\ top(t).ttl \in Int
  BY <1>2 DEF Frames, Caller, Frame
<1> QED
  BY <1>1, <1>2, <1>3

(* With every node there and every ring the real one, nothing changes it. *)
LEMMA RingStays ==
  ASSUME RingFixed, StacksOK, ReadOK, [Next]_vars
  PROVE  /\ UNCHANGED <<alive, member, pos, view, conn>>
         /\ budget' \in Budget /\ Stable' /\ budget'.sync = budget.sync
<1> USE DEF RingFixed
<1>0. /\ budget \in Budget /\ Stable /\ alive = Addr
      /\ \A r \in Remote : r.addr \in alive
  BY DEF Remote
<1>1. CASE UNCHANGED <<alive, member, pos, view, conn, budget>>
  BY <1>0, <1>1 DEF Stable
<1>2. CASE Write
  <2>1. PICK key \in budget.keys, live \in BOOLEAN : ClientWrite(key, live, budget.sync)
    BY <1>2 DEF Write
  <2>2. UNCHANGED <<alive, member, pos, view, conn>>
    BY <2>1 DEF ClientWrite, ClientStands, clientVars
  <2>3. budget.writes > 0 /\ budget' = [budget EXCEPT !.writes = @ - 1]
    BY <2>1 DEF ClientWrite
  <2>4. budget' \in Budget /\ Stable' /\ budget'.sync = budget.sync
    BY <1>0, <2>3 DEF Budget, Stable
  <2> QED
    BY <2>2, <2>4
<1>3. CASE Serve /\ ClientStands
  <2>1. PICK t \in threads : Handle(t) \/ Forward(t)
    BY <1>3 DEF Serve
  <2>2. CASE Handle(t)
    BY <1>1, <1>3, <2>2 DEF Handle, LoopsAndRing, ClientStands, clientVars
  <2>3. CASE Forward(t)
    <3>1. top(t).at \in Addr
      BY <2>3, TopFrame DEF Forward, StacksOK
    <3>2. Successor(view[top(t).at], Me(top(t).at)).addr \in alive
      BY <1>0, <3>1, RingFacts, SuccessorIn
    <3> QED
      BY <1>1, <1>3, <2>3, <3>2 DEF Forward, LoopsAndRing, ClientStands, clientVars
  <2> QED
    BY <2>1, <2>2, <2>3
<1>4. ASSUME NEW t \in threads, (Apply(t) /\ ClientStands) \/ ClientAnswer(t) \/ ClientCall(t)
      PROVE  UNCHANGED <<alive, member, pos, view, conn, budget>>
  <2>1. SuccessorOf(conn, t.item.key).addr \in alive
    BY <1>0, RingFacts
  <2> QED
    BY <1>4, <2>1 DEF Apply, ClientAnswer, ClientCall, LoopsAndRing, ClientStands, clientVars
<1>5. ASSUME Update PROVE FALSE
  <2>1. PICK r \in conn : \/ r.addr \in alive /\ view[r.addr] # conn
                          \/ r.addr \notin alive
    BY <1>5 DEF Update
  <2>2. r.addr \in member /\ r.addr \in Addr
    BY RingFacts
  <2> QED
    BY <1>0, <2>1, <2>2, RingFacts
<1>6. ASSUME Get PROVE UNCHANGED <<alive, member, pos, view, conn, budget>>
  <2>1. \A r : reading.pc = "get" /\ r \in reading.asked => r.addr \in alive
    BY <1>0, RingFacts DEF ReadOK, NoRead
  <2> QED
    BY <1>6, <2>1 DEF Get, GetAnswer, GetAgain, GetStart, GetReturn, NodesStand, nodeVars
<1>7. CASE \E key \in budget.keys : ClientGet(key)
  <2>1. UNCHANGED <<alive, member, pos, view, conn>>
    BY <1>7 DEF ClientGet
  <2>2. budget.reads > 0 /\ budget' = [budget EXCEPT !.reads = @ - 1]
    BY <1>7 DEF ClientGet
  <2>3. budget' \in Budget /\ Stable' /\ budget'.sync = budget.sync
    BY <1>0, <2>2 DEF Budget, Stable
  <2> QED
    BY <2>1, <2>3
<1>8. ASSUME NEW n \in Addr, Loop(n)
      PROVE  UNCHANGED <<alive, member, pos, view, conn, budget>>
  <2>1. CASE CleanStart(n)
    <3>1. PICK key : \E os \in {owners(n, key)} : os[1].addr \notin alive \/ UNCHANGED view
      BY <2>1 DEF CleanStart
    <3>2. owners(n, key)[1].addr \in alive
      <4> DEFINE R == view[n]
      <4>1. R \subseteq Remote /\ R # {} /\ IsFiniteSet(R)
        BY RingFacts
      <4>2. SuccessorOf(R, key) \in R /\ redundancy(R) \in Nat /\ redundancy(R) >= 1
        BY <4>1, SuccessorIn, SomeOwner
      <4> HIDE DEF R
      <4>3. Chain(R, SuccessorOf(R, key), redundancy(R))[1] = SuccessorOf(R, key)
        BY <4>1, <4>2, ChainBegins
      <4> QED
        BY <1>0, <4>1, <4>2, <4>3 DEF owners, GetSuccessorFor, R
    <3>3. UNCHANGED view
      BY <3>1, <3>2
    <3> QED
      BY <1>8, <2>1, <3>3 DEF CleanStart, Loop, ClientStands, clientVars
  <2>2. CASE SyncStart(n)
    BY <1>8, <2>2 DEF SyncStart, RingStands, Loop, ClientStands, clientVars
  <2>3. CASE SyncWalk(n) \/ SyncTurn(n) \/ CleanWalk(n) \/ CleanTurn(n)
    BY <1>8, <2>3 DEF SyncWalk, SyncTurn, CleanWalk, CleanTurn, RingStands, Loop,
                      ClientStands, clientVars
  <2> QED
    BY <1>8, <2>1, <2>2, <2>3 DEF Loop, Loops
<1>9. ASSUME NEW n \in Addr, Change(n) PROVE FALSE
  <2>1. CASE Migrate(n)
    <3>1. Successor(view[n], Me(n)).addr \in alive
      BY <1>0, RingFacts, SuccessorIn
    <3> QED
      BY <1>0, <2>1, <3>1 DEF Migrate, Stable
  <2>2. CASE Learn(n)
    BY <2>2, RingFacts DEF Learn
  <2>3. CASE Join(n) \/ Crash(n)
    BY <1>0, <2>3 DEF Join, Crash, Stable
  <2> QED
    BY <1>9, <2>1, <2>2, <2>3 DEF Change, Changes
<1>10. CASE Run
  BY <1>1, <1>3, <1>4, <1>10 DEF Run
<1>11. CASE UNCHANGED vars
  BY <1>1, <1>11 DEF vars, nodeVars, clientVars
<1> QED
  BY <1>1, <1>2, <1>5, <1>6, <1>7, <1>8, <1>9, <1>10, <1>11 DEF Next
-----------------------------------------------------------------------------
(* A synchronous operation is the only one of its time, and its stack ends *)
(* in the client and the first owner of the key, which waits for the rest. *)
Rooted(stack, key) ==
  /\ stack[Len(stack)] = Caller
  /\ Len(stack) > 1 => /\ stack[Len(stack) - 1].at = First(key)
                       /\ stack[Len(stack) - 1].pc \in {"handle", "apply"}
ThreadsStable ==
  /\ StacksOK
  /\ \A t \in threads : /\ t.item.key \in Key /\ t.item.sync = budget.sync
                        /\ Sent(t) => acked[t.item.key] <= t.item.mark.ts
  /\ budget.sync => \A t \in threads : Rooted(t.stack, t.item.key) /\ threads = {t}
AckedOK == acked \in [Key -> Nat] /\ \A k \in Key : acked[k] <= clock

(* What a clean may give away: keys that begin elsewhere. *)
Foreign(n) == {k \in Key : First(k) # n}
Gives(n, c) ==
  /\ c.from \in Key
  /\ c.owners[1] = SuccessorOf(RealRing, c.from) /\ c.owners[1].addr # n
  /\ c.walk.todo \subseteq Foreign(n)
  /\ Stale(c.walk) => c.walk.key \in Foreign(n)
CleansForeign == \A n \in Addr : cleaner[n].pc = "clean" => Gives(n, cleaner[n])

(* The first owner has every write that has returned; and a Get has its    *)
(* answer, or is still to ask it.                                          *)
OwnersHave == \A k \in Key : acked[k] <= tree[First(k)][k].ts
ReadFresh ==
  reading.pc = "get" =>
    /\ reading.floor <= acked[reading.key]
    /\ \/ SuccessorOf(RealRing, reading.key) \in reading.asked
       \/ reading.floor <= reading.best.ts

StableInv ==
  /\ Inv /\ RingFixed /\ ThreadsStable /\ AckedOK /\ CleansForeign /\ OwnersHave
  /\ ReadOK /\ ReadFresh

SameRing == RealRing' = RealRing /\ budget'.sync = budget.sync

LEMMA Pushed ==
  ASSUME NEW stack \in Stacks, NEW f \in Frames
  PROVE  /\ <<f>> \o stack \in Stacks
         /\ \A key : Len(stack) > 1 /\ Rooted(stack, key) => Rooted(<<f>> \o stack, key)
<1> DEFINE s == <<f>> \o stack
           l == Len(stack)
<1>1. stack \in Seq(Frames) /\ l \in Nat /\ l >= 1
  BY DEF Stacks
<1>2. s \in Seq(Frames) /\ Len(s) = l + 1
  BY <1>1
<1>3. \A i \in 2 .. l + 1 : s[i] = stack[i - 1]
  BY <1>1
<1>4. s \in Stacks
  BY <1>1, <1>2 DEF Stacks
<1>5. ASSUME NEW key, l > 1, Rooted(stack, key) PROVE Rooted(s, key)
  <2>1. l + 1 \in 2 .. l + 1 /\ l \in 2 .. l + 1
    BY <1>1, <1>5
  <2>2. s[l + 1] = stack[l] /\ s[l] = stack[l - 1]
    BY <1>1, <1>3, <2>1
  <2> HIDE DEF s
  <2> QED
    BY <1>1, <1>2, <1>5, <2>2 DEF Rooted
<1> QED
  BY <1>4, <1>5

(* The frame on top goes on. *)
LEMMA Replaced ==
  ASSUME NEW stack \in Stacks, NEW f \in Frames, f.at = stack[1].at, f.pc = "apply",
         stack[1] # Caller
  PROVE  /\ <<f>> \o Tail(stack) \in Stacks
         /\ \A key : Rooted(stack, key) =>
              Rooted(<<f>> \o Tail(stack), key) /\ Len(<<f>> \o Tail(stack)) > 1
<1> DEFINE u == Tail(stack)
           s == <<f>> \o u
           l == Len(stack)
<1>1. stack \in Seq(Frames) /\ l \in Nat /\ l >= 1
  BY DEF Stacks
<1>2. u \in Seq(Frames) /\ Len(u) = l - 1 /\ \A i \in 1 .. l - 1 : u[i] = stack[i + 1]
  BY <1>1
<1> HIDE DEF u
<1>3. s \in Seq(Frames) /\ Len(s) = l /\ s[1] = f
  BY <1>1, <1>2
<1>4. \A i \in 2 .. l : s[i] = u[i - 1]
  BY <1>1, <1>2
<1> HIDE DEF s
<1>5. \A i \in 2 .. l : s[i] = stack[i]
  <2> TAKE i \in 2 .. l
  <2>1. i - 1 \in 1 .. l - 1 /\ (i - 1) + 1 = i
    BY <1>1
  <2> QED
    BY <1>2, <1>4, <2>1
<1>6. s \in Stacks
  BY <1>1, <1>3 DEF Stacks
<1>7. ASSUME NEW key, Rooted(stack, key) PROVE Rooted(s, key) /\ Len(s) > 1
  <2>1. l > 1
    BY <1>1, <1>7 DEF Rooted
  <2>2. l \in 2 .. l /\ s[l] = Caller
    BY <1>1, <1>5, <1>7, <2>1 DEF Rooted
  <2>3. CASE l = 2
    BY <1>3, <1>7, <2>1, <2>2, <2>3 DEF Rooted
  <2>4. CASE l # 2
    <3>1. l - 1 \in 2 .. l
      <4> HIDE DEF l
      <4> QED
        BY <1>1, <2>1, <2>4
    <3> QED
      BY <1>3, <1>5, <1>7, <2>1, <2>2, <3>1 DEF Rooted
  <2> QED
    BY <2>3, <2>4
<1> QED
  BY <1>6, <1>7 DEF s, u

(* A call returns to the one that made it. *)
LEMMA Popped ==
  ASSUME NEW stack \in Stacks, stack[1] # Caller
  PROVE  /\ Returned(Tail(stack)) # <<>> => Returned(Tail(stack)) \in Stacks
         /\ \A key : Rooted(stack, key) /\ Tail(stack) # <<Caller>> =>
              Rooted(Returned(Tail(stack)), key)
<1> DEFINE u == Tail(stack)
           v == Tail(u)
           l == Len(stack)
<1>1. stack \in Seq(Frames) /\ l \in Nat /\ l >= 1
  BY DEF Stacks
<1>2. u \in Seq(Frames) /\ Len(u) = l - 1 /\ \A i \in 1 .. l - 1 : u[i] = stack[i + 1]
  BY <1>1
<1> HIDE DEF u
<1>3. u # <<>> => /\ v \in Seq(Frames) /\ Len(v) = l - 2 /\ Head(u) = u[1]
                  /\ \A i \in 1 .. l - 2 : v[i] = u[i + 1]
  BY <1>1, <1>2
<1> HIDE DEF v
<1>4. Returned(u) # <<>> => Returned(u) \in Stacks
  BY <1>2, <1>3 DEF Returned, Stacks, v
<1>5. ASSUME NEW key, Rooted(stack, key), u # <<Caller>> PROVE Rooted(Returned(u), key)
  <2>1. l > 1 /\ stack[l] = Caller
    BY <1>1, <1>5 DEF Rooted
  <2>2. l # 2
    <3> SUFFICES ASSUME l = 2 PROVE FALSE
      OBVIOUS
    <3>1. Len(u) = 1 /\ u[1] = Caller
      BY <1>2, <2>1
    <3>2. u = <<Caller>>
      BY <1>2, <3>1
    <3> QED
      BY <1>5, <3>2
  <2>3. l > 2 /\ Len(u) = l - 1 /\ u # <<>>
    BY <1>1, <1>2, <2>1, <2>2
  <2>4. u[l - 1] = stack[l] /\ u[l - 2] = stack[l - 1]
    <3>1. l - 1 \in 1 .. l - 1 /\ l - 2 \in 1 .. l - 1 /\ (l - 1) + 1 = l /\ (l - 2) + 1 = l - 1
      BY <1>1, <2>3
    <3> QED
      BY <1>2, <3>1
  <2>5. stack[l - 1].at = First(key) /\ stack[l - 1].pc \in {"handle", "apply"}
    BY <1>5, <2>1 DEF Rooted
  <2>6. Rooted(u, key)
    <3>1. Len(u) - 1 = l - 2
      BY <1>1, <2>3
    <3> QED
      BY <2>1, <2>3, <2>4, <2>5, <3>1 DEF Rooted
  <2>7. CASE Head(u).pc = "forward"
    <3>1. Returned(u) = v
      BY <2>3, <2>7 DEF Returned, v
    <3>2. l > 3
      <4> SUFFICES ASSUME l = 3 PROVE FALSE
        BY <1>1, <2>3
      <4>1. l - 2 = 1 /\ u[1] = stack[l - 1]
        BY <2>4
      <4> QED
        BY <1>3, <2>3, <2>5, <2>7, <4>1
    <3>3. v[l - 2] = u[l - 1] /\ v[l - 3] = u[l - 2]
      <4>1. l - 2 \in 1 .. l - 2 /\ l - 3 \in 1 .. l - 2
            /\ (l - 2) + 1 = l - 1 /\ (l - 3) + 1 = l - 2
        BY <1>1, <3>2
      <4> QED
        BY <1>3, <2>3, <4>1
    <3>4. Len(v) = l - 2 /\ Len(v) - 1 = l - 3
      BY <1>1, <1>3, <2>3
    <3>5. Rooted(v, key)
      BY <2>1, <2>4, <2>5, <3>3, <3>4 DEF Rooted
    <3> QED
      BY <3>1, <3>5
  <2>8. CASE Head(u).pc # "forward"
    BY <2>6, <2>8 DEF Returned
  <2> QED
    BY <2>7, <2>8
<1> QED
  BY <1>4, <1>5 DEF u
-----------------------------------------------------------------------------
(* Operations under way, in a ring that stands. *)

LEMMA SameFirst ==
  ASSUME SameRing
  PROVE  /\ \A k : First(k)' = First(k)
         /\ \A stack, key : Rooted(stack, key)' <=> Rooted(stack, key)
         /\ \A n : Foreign(n)' = Foreign(n)
BY DEF SameRing, First, Rooted, Foreign

LEMMA NewStacks ==
  ASSUME StableInv, SameRing, UNCHANGED acked, NEW t \in threads, Sent(t),
         NEW S, S \subseteq Stacks,
         threads' = (threads \ {t}) \cup {[t EXCEPT !.stack = s] : s \in S},
         budget.sync => \A s, u \in S : s = u /\ Rooted(s, t.item.key)
  PROVE  ThreadsStable'
<1>0. ThreadsStable /\ ThreadsOK
  BY DEF StableInv, Inv
<1>1. ASSUME NEW s PROVE /\ [t EXCEPT !.stack = s].item = t.item
                         /\ [t EXCEPT !.stack = s].stack = s
  BY <1>0 DEF ThreadsOK, ThreadOK
<1>2. StacksOK'
  <2> SUFFICES ASSUME NEW u \in threads' PROVE u.stack \in Stacks
    BY DEF StacksOK, Stacks, Frames
  <2>1. CASE u \in threads
    BY <1>0, <2>1 DEF StacksOK, ThreadsStable
  <2>2. CASE u \notin threads
    <3>1. PICK s \in S : u = [t EXCEPT !.stack = s]
      BY <2>2
    <3> QED
      BY <1>1, <3>1
  <2> QED
    BY <2>1, <2>2
<1>3. ASSUME NEW u \in threads'
      PROVE  /\ u.item.key \in Key /\ u.item.sync = budget'.sync
             /\ Sent(u) => acked'[u.item.key] <= u.item.mark.ts
  <2>1. CASE u \in threads
    BY <1>0, <2>1 DEF ThreadsStable, SameRing
  <2>2. CASE u \notin threads
    <3>1. u.item = t.item
      BY <1>1, <2>2, ZenonT(60)
    <3> QED
      BY <1>0, <3>1 DEF ThreadsStable, SameRing
  <2> QED
    BY <2>1, <2>2
<1>4. ASSUME budget'.sync, NEW u \in threads'
      PROVE  Rooted(u.stack, u.item.key)' /\ threads' = {u}
  <2>1. budget.sync /\ threads = {t}
    BY <1>0, <1>4 DEF ThreadsStable, SameRing
  <2>2. threads' = {[t EXCEPT !.stack = s] : s \in S}
    BY <2>1
  <2>3. PICK s \in S : u = [t EXCEPT !.stack = s]
    BY <2>2
  <2>4. S = {s} /\ Rooted(s, t.item.key)
    BY <2>1
  <2>5. threads' = {u}
    BY <2>2, <2>3, <2>4
  <2>6. u.stack = s /\ u.item = t.item
    BY <1>1, <2>3
  <2>7. Rooted(u.stack, u.item.key)
    BY <2>4, <2>6
  <2> QED
    BY <2>5, <2>7 DEF Rooted, First, SameRing
<1> QED
  BY <1>2, <1>3, <1>4 DEF ThreadsStable, Sent

LEMMA HandleStable ==
  ASSUME StableInv, SameRing, UNCHANGED acked, NEW t \in threads, Handle(t)
  PROVE  ThreadsStable'
<1> DEFINE f == top(t)
           g == [f EXCEPT !.pc = "apply"]
           forward == Frame(f.at, f.ttl - 1, "forward")
           apply == <<g>> \o Tail(t.stack)
<1>0. ThreadsStable
  BY DEF StableInv
<1>1. Sent(t) /\ f.pc = "handle"
  BY Busy DEF Handle
<1>2. t.stack \in Stacks /\ (budget.sync => Rooted(t.stack, t.item.key))
  BY <1>0 DEF ThreadsStable, StacksOK
<1>3. f = t.stack[1] /\ f \in Frames /\ f # Caller
  BY <1>1, <1>2, TopFrame DEF Caller, Frame
<1>4. f \in [at : Addr, ttl : Int, pc : {"handle", "forward", "apply"}]
  BY <1>3 DEF Frames
<1>5. g \in Frames /\ g.at = f.at /\ g.pc = "apply" /\ forward \in Frames
  BY <1>4 DEF Frames, Frame
<1>6. /\ apply \in Stacks
      /\ budget.sync => Rooted(apply, t.item.key) /\ Len(apply) > 1
  <2> HIDE DEF g
  <2> QED
    BY <1>2, <1>3, <1>5, Replaced
<1>7. /\ <<forward>> \o apply \in Stacks
      /\ budget.sync => Rooted(<<forward>> \o apply, t.item.key)
  <2> HIDE DEF apply, forward
  <2> QED
    BY <1>5, <1>6, Pushed
<1>8. <<forward>> \in Stacks
  BY <1>5 DEF Stacks
<1>9. CASE t.item.sync
  <2> DEFINE S == {<<forward>> \o apply}
  <2>1. threads' = (threads \ {t}) \cup {[t EXCEPT !.stack = s] : s \in S}
    BY <1>9 DEF Handle, Becomes
  <2>2. S \subseteq Stacks /\ (budget.sync => \A s, u \in S : s = u /\ Rooted(s, t.item.key))
    BY <1>7
  <2> HIDE DEF S
  <2> QED
    BY <1>1, <2>1, <2>2, NewStacks
<1>10. CASE ~t.item.sync
  <2> DEFINE S == {apply, <<forward>>}
  <2>1. threads' = (threads \ {t}) \cup {[t EXCEPT !.stack = s] : s \in S}
    BY <1>10 DEF Handle
  <2>2. S \subseteq Stacks /\ ~budget.sync
    BY <1>0, <1>6, <1>8, <1>10 DEF ThreadsStable
  <2> HIDE DEF S
  <2> QED
    BY <1>1, <2>1, <2>2, NewStacks
<1> QED
  BY <1>9, <1>10

LEMMA ForwardStable ==
  ASSUME StableInv, SameRing, UNCHANGED <<acked, view>>, NEW t \in threads, Forward(t)
  PROVE  ThreadsStable'
<1>0. ThreadsStable /\ RingFixed
  BY DEF StableInv
<1>1. Sent(t) /\ top(t).pc = "forward"
  BY Busy DEF Forward
<1>2. t.stack \in Stacks /\ (budget.sync => Rooted(t.stack, t.item.key))
  BY <1>0 DEF ThreadsStable, StacksOK
<1>3. top(t) = t.stack[1] /\ top(t).at \in Addr /\ top(t).ttl \in Int
  BY <1>1, <1>2, TopFrame
<1> DEFINE s == Successor(view[top(t).at], Me(top(t).at))
           new == <<Frame(s.addr, top(t).ttl, "handle")>> \o t.stack
<1>4. s.addr \in Addr
  <2> DEFINE R == view[top(t).at]
             r == Me(top(t).at)
  <2>1. R \subseteq Remote /\ R # {}
    BY <1>0, <1>3, RingFacts
  <2> HIDE DEF R, r
  <2>2. Successor(R, r) \in Remote
    BY <2>1, SuccessorIn
  <2> QED
    BY <2>2 DEF Remote, R, r
<1>5. Frame(s.addr, top(t).ttl, "handle") \in Frames
  BY <1>3, <1>4 DEF Frames, Frame
<1>6. budget.sync => Len(t.stack) > 1
  <2>1. Len(t.stack) \in Nat /\ Len(t.stack) >= 1
    BY <1>2 DEF Stacks
  <2>2. t.stack[1] # Caller
    BY <1>1, <1>3 DEF Caller, Frame
  <2> QED
    BY <1>2, <2>1, <2>2 DEF Rooted
<1>7. new \in Stacks /\ (budget.sync => Rooted(new, t.item.key))
  BY <1>2, <1>5, <1>6, Pushed
<1>8. threads' = (threads \ {t}) \cup {[t EXCEPT !.stack = new]}
  BY <1>0, <1>4 DEF Forward, Becomes, RingFixed
<1> HIDE DEF new
<1> DEFINE S == {new}
<1>9. threads' = (threads \ {t}) \cup {[t EXCEPT !.stack = u] : u \in S}
  BY <1>8
<1>10. S \subseteq Stacks /\ (budget.sync => \A u, v \in S : u = v /\ Rooted(u, t.item.key))
  BY <1>7
<1> HIDE DEF S
<1> QED
  BY <1>1, <1>9, <1>10, NewStacks

LEMMA ApplyStable ==
  ASSUME StableInv, SameRing, UNCHANGED acked, NEW t \in threads, ~Answered(t), Apply(t)
  PROVE  ThreadsStable'
<1>0. ThreadsStable
  BY DEF StableInv
<1>1. Sent(t) /\ top(t).pc # "client" /\ Tail(t.stack) # <<Caller>>
  BY Busy DEF Apply, Applies, Answered
<1>2. t.stack \in Stacks /\ (budget.sync => Rooted(t.stack, t.item.key))
  BY <1>0 DEF ThreadsStable, StacksOK
<1>3. t.stack[1] # Caller
  BY <1>1, <1>2, TopFrame DEF Caller, Frame
<1> DEFINE rest == Returned(Tail(t.stack))
           S == IF rest = <<>> THEN {} ELSE {rest}
<1>4. /\ rest # <<>> => rest \in Stacks
      /\ budget.sync => Rooted(rest, t.item.key)
  BY <1>1, <1>2, <1>3, Popped
<1>5. threads' = (threads \ {t}) \cup {[t EXCEPT !.stack = s] : s \in S}
  BY DEF Apply, Becomes
<1>6. S \subseteq Stacks /\ (budget.sync => \A u, v \in S : u = v /\ Rooted(u, t.item.key))
  BY <1>4
<1> HIDE DEF S
<1> QED
  BY <1>1, <1>5, <1>6, NewStacks

LEMMA WriteStable ==
  ASSUME StableInv, SameRing, NEW key \in budget.keys, NEW live \in BOOLEAN,
         ClientWrite(key, live, budget.sync)
  PROVE  ThreadsStable'
<1> DEFINE t == [item |-> [key |-> key, mark |-> [ts |-> 0, live |-> live], sync |-> budget.sync],
                 stack |-> <<Caller>>]
<1>0. ThreadsStable /\ RingFixed
  BY DEF StableInv
<1>1. threads' = threads \cup {t} /\ UNCHANGED acked
  BY DEF ClientWrite, ClientStands, clientVars
<1>2. key \in Key
  BY <1>0 DEF RingFixed, Budget
<1>3. t.item.key = key /\ t.item.sync = budget.sync /\ t.stack = <<Caller>> /\ ~Sent(t)
  BY DEF Sent
<1>4. t.stack \in Stacks /\ Rooted(t.stack, key)
  BY <1>3 DEF Stacks, Frames, Rooted
<1> HIDE DEF t
<1>5. budget.sync => threads = {}
  <2> SUFFICES ASSUME budget.sync, NEW u \in threads PROVE FALSE
    OBVIOUS
  <2>1. u.stack[Len(u.stack)] = Caller
    BY <1>0 DEF ThreadsStable, Rooted
  <2> QED
    BY <2>1 DEF ClientWrite, Last
<1>6. StacksOK'
  BY <1>0, <1>1, <1>4 DEF ThreadsStable, StacksOK, Stacks, Frames
<1>7. \A u \in threads' : /\ u.item.key \in Key /\ u.item.sync = budget'.sync
                          /\ Sent(u) => acked'[u.item.key] <= u.item.mark.ts
  BY <1>0, <1>1, <1>2, <1>3 DEF ThreadsStable, SameRing
<1>8. ASSUME budget'.sync, NEW u \in threads'
      PROVE  Rooted(u.stack, u.item.key)' /\ threads' = {u}
  <2>1. threads' = {t} /\ u = t
    BY <1>1, <1>5, <1>8 DEF SameRing
  <2> QED
    BY <1>3, <1>4, <2>1 DEF Rooted, First, SameRing
<1> QED
  BY <1>6, <1>7, <1>8 DEF ThreadsStable, Sent

LEMMA CallStable ==
  ASSUME StableInv, SameRing, UNCHANGED conn, NEW t \in threads, ClientCall(t)
  PROVE  ThreadsStable' /\ AckedOK'
<1> DEFINE key == t.item.key
           s == SuccessorOf(conn, key)
           f == Frame(s.addr, redundancy(view[s.addr]), "handle")
           u == [item |-> [t.item EXCEPT !.mark.ts = clock + 1], stack |-> <<f, Caller>>]
<1>0. ThreadsStable /\ RingFixed /\ AckedOK /\ Inv
  BY DEF StableInv
<1>1. s = SuccessorOf(RealRing, key) /\ s.addr = First(key) /\ s.addr \in Addr
  BY <1>0, RingFacts DEF RingFixed, First
<1>2. /\ threads' = (threads \ {t}) \cup {u} /\ UNCHANGED acked
      /\ clock' = clock + 1
  BY <1>0, <1>1 DEF ClientCall, RingFixed
<1>3. f \in Frames /\ f.at = First(key) /\ f.pc = "handle"
  <2>1. redundancy(view[s.addr]) \in Nat
    BY <1>0, <1>1, RingFacts, SomeOwner
  <2> QED
    BY <1>1, <2>1 DEF Frames, Frame
<1>4. u.stack = <<f, Caller>>
  OBVIOUS
<1>5. u.stack \in Stacks /\ Rooted(u.stack, key)
  <2> HIDE DEF f, u, key
  <2>1. Caller \in Frames
    BY DEF Frames
  <2>2. u.stack \in Seq(Frames) /\ Len(u.stack) = 2 /\ u.stack[1] = f /\ u.stack[2] = Caller
    BY <1>3, <1>4, <2>1
  <2> QED
    BY <1>3, <2>2 DEF Stacks, Rooted
<1>6. key \in Key /\ t.item.sync = budget.sync
  BY <1>0 DEF ThreadsStable
<1>7. u.item.key = key /\ u.item.sync = budget.sync /\ u.item.mark.ts = clock + 1
  <2>1. /\ t.item = [key |-> t.item.key, mark |-> t.item.mark, sync |-> t.item.sync]
        /\ t.item.mark \in Mark
    BY <1>0 DEF Inv, ThreadsOK, ThreadOK
  <2> QED
    BY <1>6, <2>1 DEF Mark
<1>8. clock \in Nat /\ acked[key] \in Nat /\ acked[key] <= clock
  BY <1>0, <1>6 DEF AckedOK, Inv
<1> HIDE DEF u, key
<1>9. StacksOK'
  BY <1>0, <1>2, <1>5 DEF ThreadsStable, StacksOK, Stacks, Frames
<1>10. \A v \in threads' : /\ v.item.key \in Key /\ v.item.sync = budget'.sync
                           /\ Sent(v) => acked'[v.item.key] <= v.item.mark.ts
  <2>1. acked[key] <= clock + 1
    BY <1>8
  <2> QED
    BY <1>0, <1>2, <1>6, <1>7, <2>1 DEF ThreadsStable, SameRing
<1>11. ASSUME budget'.sync, NEW v \in threads'
       PROVE  Rooted(v.stack, v.item.key)' /\ threads' = {v}
  <2>1. threads = {t}
    BY <1>0, <1>11 DEF ThreadsStable, SameRing
  <2>2. threads' = {u} /\ v = u
    BY <1>2, <2>1
  <2> QED
    BY <1>5, <1>7, <2>2 DEF Rooted, First, SameRing
<1>12. AckedOK'
  <2>1. \A k \in Key : acked[k] \in Nat /\ acked[k] <= clock
    BY <1>0 DEF AckedOK
  <2> QED
    BY <1>0, <1>2, <1>8, <2>1 DEF AckedOK
<1> QED
  BY <1>9, <1>10, <1>11, <1>12 DEF ThreadsStable, Sent

(* Put and FakeDel bring nothing older than what has returned. *)
LEMMA AppliedHave ==
  ASSUME StableInv, SameRing, UNCHANGED acked, NEW t \in threads, Sent(t), NEW a,
         tree' = [tree EXCEPT ![a][t.item.key] = t.item.mark]
  PROVE  OwnersHave'
<1>0. ThreadsStable /\ RingFixed /\ Inv /\ TreeOK /\ OwnersHave
  BY DEF StableInv, Inv
<1>1. t.item.mark \in Mark /\ acked[t.item.key] <= t.item.mark.ts
  BY <1>0, Facts DEF ThreadsStable
<1> DEFINE key == t.item.key
           mark == t.item.mark
<1>2. \A n \in Addr, k \in Key :
        tree'[n][k] = IF n = a /\ k = key THEN mark ELSE tree[n][k]
  <2> HIDE DEF key, mark
  <2> QED
    BY <1>0, <1>1, SetMark DEF key, mark
<1> SUFFICES ASSUME NEW k \in Key PROVE acked[k] <= tree'[First(k)][k].ts
  BY SameFirst DEF OwnersHave
<1>3. First(k) \in Addr
  BY <1>0, RingFacts
<1>4. CASE First(k) = a /\ k = key
  BY <1>1, <1>2, <1>3, <1>4
<1>5. CASE ~(First(k) = a /\ k = key)
  BY <1>0, <1>2, <1>3, <1>5 DEF OwnersHave
<1> QED
  BY <1>4, <1>5

(* The answer comes from the first owner, once it has the write. *)
LEMMA AnswerStable ==
  ASSUME StableInv, SameRing, NEW t \in threads, ClientAnswer(t)
  PROVE  /\ ThreadsStable' /\ AckedOK' /\ OwnersHave'
         /\ \A k \in Key : acked[k] <= acked'[k]
<1> DEFINE key == t.item.key
           mark == t.item.mark
<1>0. ThreadsStable /\ RingFixed /\ Inv /\ TreeOK /\ OwnersHave /\ AckedOK
  BY DEF StableInv, Inv
<1>1. Sent(t) /\ top(t).pc # "client"
  BY Busy DEF ClientAnswer, Answered, Applies
<1>2. /\ key \in Key /\ t.item.sync = budget.sync /\ acked[key] <= mark.ts
      /\ mark \in Mark /\ mark.ts \in Nat /\ mark.ts <= clock /\ t.stack \in Stacks
  <2>1. mark \in Marks
    BY <1>0, <1>1, Facts
  <2> QED
    BY <1>0, <1>1, <2>1 DEF ThreadsStable, StacksOK, Inv, OneMarkPerTime, Mark
<1>3. /\ threads' = threads \ {t} /\ UNCHANGED clock
      /\ tree' = [tree EXCEPT ![top(t).at][key] = mark]
      /\ acked' = IF t.item.sync THEN [acked EXCEPT ![key] = mark.ts] ELSE acked
  BY DEF ClientAnswer, LoopsAndRing
<1>4. StacksOK'
  BY <1>0, <1>3 DEF ThreadsStable, StacksOK, Stacks, Frames
<1>5. \A k \in Key : acked[k] \in Nat /\ acked[k] <= clock
  BY <1>0 DEF AckedOK
<1>6. CASE ~budget.sync
  <2>1. UNCHANGED acked
    BY <1>2, <1>3, <1>6
  <2>2. AckedOK'
    BY <1>0, <1>3, <2>1 DEF AckedOK
  <2>3. OwnersHave'
    BY <1>1, <1>3, <2>1, AppliedHave
  <2>4. ThreadsStable'
    BY <1>0, <1>3, <1>4, <1>6, <2>1 DEF ThreadsStable, SameRing, Sent
  <2> QED
    BY <1>5, <2>1, <2>2, <2>3, <2>4
<1>7. CASE budget.sync
  <2>1. threads = {t} /\ Rooted(t.stack, key)
    BY <1>0, <1>7 DEF ThreadsStable
  <2>2. acked' = [acked EXCEPT ![key] = mark.ts]
    BY <1>2, <1>3, <1>7
  <2>3. ThreadsStable'
    <3>1. threads' = {}
      BY <1>3, <2>1
    <3> QED
      BY <1>4, <3>1 DEF ThreadsStable
  <2>4. AckedOK'
    BY <1>0, <1>2, <1>3, <2>2 DEF AckedOK
  <2>5. \A k \in Key : acked[k] <= acked'[k]
    BY <1>0, <1>2, <1>5, <2>2 DEF AckedOK
  <2>6. top(t).at = First(key)
    <3>1. Tail(t.stack) = <<Caller>> /\ top(t) = t.stack[1]
      BY <1>2, TopFrame DEF ClientAnswer, Answered
    <3>2. Len(t.stack) = 2
      <4> DEFINE l == Len(t.stack)
                 m == Len(Tail(t.stack))
      <4>1. m = l - 1 /\ l \in Nat
        BY <1>2, TopFrame DEF Stacks
      <4>2. m = 1
        <5>1. m = Len(<<Caller>>)
          BY <3>1, Zenon
        <5>2. Len(<<Caller>>) = 1
          OBVIOUS
        <5> QED
          BY <5>1, <5>2
      <4> HIDE DEF l, m
      <4>3. l = 2
        BY <4>1, <4>2
      <4> QED
        BY <4>3 DEF l
    <3> QED
      BY <2>1, <3>1, <3>2 DEF Rooted
  <2>7. \A n \in Addr, k \in Key :
          tree'[n][k] = IF n = First(key) /\ k = key THEN mark ELSE tree[n][k]
    <3> DEFINE a == First(key)
    <3>1. tree' = [tree EXCEPT ![a][key] = mark]
      BY <1>3, <2>6
    <3> HIDE DEF a, key, mark
    <3> QED
      BY <1>0, <1>2, <3>1, SetMark DEF a
  <2>8. OwnersHave'
    <3> SUFFICES ASSUME NEW k \in Key PROVE acked'[k] <= tree'[First(k)][k].ts
      BY SameFirst DEF OwnersHave
    <3>1. First(k) \in Addr
      BY <1>0, RingFacts
    <3>2. CASE k = key
      <4>1. tree'[First(k)][k] = mark
        BY <2>7, <3>1, <3>2
      <4>2. acked'[k] = mark.ts
        BY <1>0, <2>2, <3>2 DEF AckedOK
      <4> QED
        BY <1>2, <4>1, <4>2
    <3>3. CASE k # key
      <4>1. tree'[First(k)][k] = tree[First(k)][k]
        BY <2>7, <3>1, <3>3
      <4>2. acked'[k] = acked[k]
        BY <1>0, <2>2, <3>3 DEF AckedOK
      <4> QED
        BY <1>0, <4>1, <4>2 DEF OwnersHave
    <3> QED
      BY <3>2, <3>3
  <2> QED
    BY <2>3, <2>4, <2>5, <2>8
<1> QED
  BY <1>6, <1>7
-----------------------------------------------------------------------------
(* The loops, in a ring that stands. *)

LEMMA WalkKeys ==
  ASSUME NEW w, WalkOK(w), NEW src, NEW dst, NEW destructive \in BOOLEAN,
         NEW step \in Steps(w, src, dst, destructive)
  PROVE  /\ step.walk.todo \subseteq w.todo
         /\ Stale(step.walk) => step.walk.key \in w.todo \cup (IF Stale(w) THEN {w.key} ELSE {})
<1>1. CASE w.pc = "finger"
  <2>1. PICK k \in w.todo :
          step = [tree |-> tree,
                  walk |-> [pc |-> "put", todo |-> w.todo \ {k}, key |-> k,
                            mark |-> Seen(src, k), expected |-> Seen(dst, k)]]
    BY <1>1 DEF Steps
  <2>2. step.walk.todo = w.todo \ {k} /\ step.walk.key = k
    BY <2>1
  <2> QED
    BY <2>2
<1>2. CASE w.pc = "put"
  <2>1. step = [tree |-> PutTimestamp(w, src, dst),
                walk |-> IF destructive /\ w.mark.ts > 0 THEN [w EXCEPT !.pc = "delete"]
                         ELSE Reading(w.todo)]
    BY <1>2 DEF Steps
  <2>2. w = [pc |-> w.pc, todo |-> w.todo, key |-> w.key, mark |-> w.mark, expected |-> w.expected]
    BY <1>2 DEF WalkOK
  <2>3. CASE destructive /\ w.mark.ts > 0
    <3>1. step.walk = [pc |-> "delete", todo |-> w.todo, key |-> w.key,
                       mark |-> w.mark, expected |-> w.expected]
      BY <2>1, <2>2, <2>3
    <3> QED
      BY <1>2, <3>1 DEF Stale
  <2>4. CASE ~(destructive /\ w.mark.ts > 0)
    <3>1. step.walk = [pc |-> "finger", todo |-> w.todo]
      BY <2>1, <2>4 DEF Reading
    <3> QED
      BY <3>1 DEF Stale
  <2> QED
    BY <2>3, <2>4
<1>3. CASE w.pc = "delete"
  <2>1. step = [tree |-> DelTimestamp(w, src), walk |-> Reading(w.todo)]
    BY <1>3 DEF Steps
  <2>2. step.walk = [pc |-> "finger", todo |-> w.todo]
    BY <2>1 DEF Reading
  <2> QED
    BY <2>2 DEF Stale
<1>4. w.pc \in {"finger", "put", "delete"}
  BY DEF WalkOK, Stale
<1> QED
  BY <1>1, <1>2, <1>3, <1>4

(* What lies between a key and its first owner begins with that owner too. *)
LEMMA CleansAre ==
  ASSUME RingFixed, NEW n \in Addr, NEW c, c.from \in Key,
         c.owners[1] = SuccessorOf(RealRing, c.from), c.owners[1].addr # n
  PROVE  Cleans(c, n) \subseteq Foreign(n)
<1> SUFFICES ASSUME NEW k \in Cleans(c, n) PROVE k \in Foreign(n)
  OBVIOUS
<1>1. k \in Key /\ InLimits(k, c.from, c.owners[1].pos)
  BY DEF Cleans, Present, Differing
<1>2. k \in Nat /\ c.from \in Nat
  BY <1>1, DHashAssumption, RemotesAssumption
<1>3. RealRing \subseteq Remote /\ RealRing # {}
  BY RingFacts
<1>4. SuccessorOf(RealRing, k) = SuccessorOf(RealRing, c.from)
  BY <1>1, <1>2, <1>3, SameSuccessor
<1> QED
  BY <1>1, <1>4 DEF Foreign, First

LEMMA SetCleans ==
  ASSUME StableInv, SameRing, NEW n \in Addr, NEW c, c.pc = "clean" => Gives(n, c),
         cleaner' = [cleaner EXCEPT ![n] = c]
  PROVE  CleansForeign'
<1>1. CleansForeign /\ CleanersOK
  BY DEF StableInv, Inv
<1>2. \A m \in Addr : cleaner'[m] = IF m = n THEN c ELSE cleaner[m]
  BY <1>1 DEF CleanersOK
<1>3. \A m \in Addr : cleaner'[m].pc = "clean" => Gives(m, cleaner'[m])
  BY <1>1, <1>2 DEF CleansForeign
<1> QED
  BY <1>3, SameFirst DEF CleansForeign, Gives, SameRing

LEMMA CleanStartStable ==
  ASSUME StableInv, SameRing, UNCHANGED view, NEW n \in Addr, CleanStart(n)
  PROVE  CleansForeign'
<1>0. RingFixed /\ CleansForeign
  BY DEF StableInv
<1>1. CASE UNCHANGED cleaner
  BY <1>0, <1>1, SameFirst DEF CleansForeign, Gives, SameRing
<1>2. CASE ~UNCHANGED cleaner
  <2>1. PICK key, os :
          LET c == [pc |-> "clean", from |-> key, owners |-> os, index |-> 1, walk |-> Idle]
          IN /\ key = Min(circularNext(n)) /\ os = owners(n, key)
             /\ \A i \in DOMAIN os : os[i].addr # n
             /\ cleaner' = [cleaner EXCEPT ![n] = [c EXCEPT !.walk = Reading(Cleans(c, n))]]
    BY <1>2 DEF CleanStart
  <2> DEFINE c == [pc |-> "clean", from |-> key, owners |-> os, index |-> 1, walk |-> Idle]
             new == [c EXCEPT !.walk = Reading(Cleans(c, n))]
             R == view[n]
  <2>2. key \in Key
    <3>1. circularNext(n) \subseteq Key /\ circularNext(n) # {}
      BY DEF CleanStart, circularNext, After, Wrapped
    <3>2. circularNext(n) \subseteq Nat
      BY <3>1, DHashAssumption, RemotesAssumption
    <3>3. Min(circularNext(n)) \in circularNext(n)
      <4> DEFINE S == circularNext(n)
      <4>1. \E x \in S : \A y \in S : x <= y
        <5> HIDE DEF S
        <5> QED
          BY <3>1, <3>2, LeastNatural DEF S
      <4> HIDE DEF S
      <4> QED
        BY <4>1 DEF Min, S
    <3> QED
      BY <2>1, <3>1, <3>3
  <2>3. DOMAIN os = 1 .. redundancy(R) /\ os[1] = SuccessorOf(R, key) /\ 1 \in DOMAIN os
    <3>1. R \subseteq Remote /\ R # {} /\ IsFiniteSet(R)
      BY <1>0, RingFacts
    <3>2. SuccessorOf(R, key) \in R /\ redundancy(R) \in Nat /\ redundancy(R) >= 1
      BY <3>1, SuccessorIn, SomeOwner
    <3>3. os = Chain(R, SuccessorOf(R, key), redundancy(R))
      BY <2>1 DEF owners, GetSuccessorFor
    <3> HIDE DEF R
    <3> QED
      BY <3>1, <3>2, <3>3, ChainBegins
  <2>4. os[1].addr # n
    BY <2>1, <2>3
  <2>5. n \in member
    <3> SUFFICES ASSUME n \notin member PROVE FALSE
      OBVIOUS
    <3>1. R = {Me(n)} /\ R \subseteq Remote
      BY <1>0, RingFacts
    <3>2. os[1] \in {Me(n)}
      BY <2>3, <3>1, SuccessorIn
    <3> QED
      BY <2>4, <3>2 DEF Me
  <2>6. os[1] = SuccessorOf(RealRing, key)
    BY <1>0, <2>3, <2>5, RingFacts
  <2>7. c.from = key /\ c.owners = os
    OBVIOUS
  <2>8. Cleans(c, n) \subseteq Foreign(n)
    <3> HIDE DEF c
    <3> QED
      BY <1>0, <2>2, <2>4, <2>6, <2>7, CleansAre
  <2>9. new = [pc |-> "clean", from |-> key, owners |-> os, index |-> 1,
               walk |-> [pc |-> "finger", todo |-> Cleans(c, n)]]
    BY DEF Reading
  <2>10. Gives(n, new)
    <3> HIDE DEF c, new
    <3> QED
      BY <2>2, <2>4, <2>6, <2>8, <2>9 DEF Gives, Stale
  <2>11. cleaner' = [cleaner EXCEPT ![n] = new]
    BY <2>1
  <2> HIDE DEF new
  <2> QED
    BY <2>10, <2>11, SetCleans
<1> QED
  BY <1>1, <1>2

LEMMA CleanTurnStable ==
  ASSUME StableInv, SameRing, NEW n \in Addr, CleanTurn(n)
  PROVE  CleansForeign'
<1> DEFINE old == cleaner[n]
           c == [old EXCEPT !.index = @ + 1]
           w == Reading(Cleans(c, n))
           new == IF c.index > Len(c.owners) THEN Idle ELSE [c EXCEPT !.walk = w]
<1>0. RingFixed /\ Inv /\ CleansForeign
  BY DEF StableInv
<1>1. cleaner' = [cleaner EXCEPT ![n] = new] /\ old.pc = "clean"
  BY DEF CleanTurn
<1>2. old = [pc |-> "clean", from |-> old.from, owners |-> old.owners, index |-> old.index,
             walk |-> old.walk]
  BY <1>0, <1>1, Standing DEF CleanerIn, CleanerOK, Idle
<1>3. Gives(n, old)
  BY <1>0, <1>1 DEF CleansForeign
<1>4. c = [pc |-> "clean", from |-> old.from, owners |-> old.owners, index |-> old.index + 1,
           walk |-> old.walk]
  BY <1>2
<1> HIDE DEF c, old
<1>5. w.todo \subseteq Foreign(n) /\ ~Stale(w)
  <2>1. c.from = old.from /\ c.owners = old.owners
    BY <1>4
  <2>2. Cleans(c, n) \subseteq Foreign(n)
    BY <1>0, <1>3, <2>1, CleansAre DEF Gives
  <2> QED
    BY <2>2 DEF Reading, Stale
<1> HIDE DEF w
<1>6. [c EXCEPT !.walk = w] =
        [pc |-> "clean", from |-> old.from, owners |-> old.owners, index |-> old.index + 1,
         walk |-> w]
  BY <1>4
<1>7. Gives(n, [c EXCEPT !.walk = w])
  BY <1>3, <1>5, <1>6 DEF Gives
<1>8. new.pc = "clean" => Gives(n, new)
  BY <1>7 DEF Idle
<1> HIDE DEF new
<1> QED
  BY <1>1, <1>8, SetCleans

LEMMA CleanWalkStable ==
  ASSUME StableInv, SameRing, NEW n \in Addr, CleanWalk(n)
  PROVE  CleansForeign'
<1> DEFINE c == cleaner[n]
           dst == c.owners[c.index].addr
           d == c.index = Len(c.owners) - 1
           w == c.walk
<1>0. RingFixed /\ Inv /\ CleansForeign
  BY DEF StableInv
<1>1. PICK step \in Steps(w, n, dst, d) : cleaner' = [cleaner EXCEPT ![n].walk = step.walk]
  BY DEF CleanWalk
<1>2. /\ c = [pc |-> "clean", from |-> c.from, owners |-> c.owners, index |-> c.index,
              walk |-> w]
      /\ WalkOK(w) /\ c.pc = "clean"
  BY <1>0, Standing DEF CleanWalk, CleanerIn, CleanerOK, Idle
<1>3. d \in BOOLEAN
  OBVIOUS
<1>4. Gives(n, c)
  BY <1>0, <1>2 DEF CleansForeign
<1>5. /\ step.walk.todo \subseteq w.todo
      /\ Stale(step.walk) => step.walk.key \in w.todo \cup (IF Stale(w) THEN {w.key} ELSE {})
  <2> HIDE DEF w, d, dst
  <2> QED
    BY <1>1, <1>2, <1>3, WalkKeys
<1> DEFINE new == [c EXCEPT !.walk = step.walk]
<1>6. new = [pc |-> "clean", from |-> c.from, owners |-> c.owners, index |-> c.index,
             walk |-> step.walk]
  BY <1>2
<1>7. Gives(n, new)
  <2>1. w.todo \subseteq Foreign(n) /\ (Stale(w) => w.key \in Foreign(n))
    BY <1>4 DEF Gives
  <2>2. step.walk.todo \subseteq Foreign(n) /\ (Stale(step.walk) => step.walk.key \in Foreign(n))
    BY <1>5, <2>1
  <2> HIDE DEF w, c, new
  <2> QED
    BY <1>4, <1>6, <2>2 DEF Gives
<1>8. cleaner' = [cleaner EXCEPT ![n] = new]
  BY <1>1
<1> HIDE DEF new
<1> QED
  BY <1>7, <1>8, SetCleans

(* The loops take nothing from the first owner of a key. *)
LEMMA LoopsHave ==
  ASSUME StableInv, SameRing, UNCHANGED acked, TreeOK',
         \A n \in Addr, k \in Key : LoopStep(n, k)
  PROVE  OwnersHave'
<1>0. RingFixed /\ Inv /\ TreeOK /\ CleansForeign /\ OwnersHave /\ AckedOK
  BY DEF StableInv, Inv
<1> SUFFICES ASSUME NEW k \in Key PROVE acked[k] <= tree'[First(k)][k].ts
  BY SameFirst DEF OwnersHave
<1> DEFINE n == First(k)
<1>1. n \in Addr
  BY <1>0, RingFacts
<1>2. acked[k] <= tree[n][k].ts
  BY <1>0 DEF OwnersHave
<1>3. acked[k] \in Nat /\ tree[n][k].ts \in Nat /\ tree'[n][k].ts \in Nat
  BY <1>0, <1>1 DEF AckedOK, TreeOK, Mark
<1>4. ~(cleaner[n].pc = "clean" /\ cleaner[n].walk.pc = "delete" /\ cleaner[n].walk.key = k)
  BY <1>0, <1>1 DEF CleansForeign, Gives, Stale, Foreign
<1>5. tree'[n][k] = tree[n][k] \/ tree'[n][k].ts > tree[n][k].ts
  BY <1>1, <1>4 DEF LoopStep
<1> QED
  BY <1>2, <1>3, <1>5
-----------------------------------------------------------------------------
(* Reads, in a ring that stands. *)

LEMMA ReadStands ==
  ASSUME StableInv, SameRing, UNCHANGED reading, AckedOK',
         \A k \in Key : acked[k] <= acked'[k]
  PROVE  ReadOK' /\ ReadFresh'
<1>0. ReadOK /\ ReadFresh /\ AckedOK
  BY DEF StableInv
<1>1. ReadOK'
  BY <1>0 DEF ReadOK, SameRing, NoRead, Mark
<1>2. ASSUME reading.pc = "get" PROVE reading.floor <= acked'[reading.key]
  <2>1. reading.key \in Key /\ reading.floor \in Nat /\ reading.floor <= acked[reading.key]
    BY <1>0, <1>2 DEF ReadOK, ReadFresh, NoRead
  <2>2. acked[reading.key] \in Nat /\ acked'[reading.key] \in Nat
    BY <1>0, <2>1 DEF AckedOK
  <2> QED
    BY <2>1, <2>2
<1> QED
  BY <1>0, <1>1, <1>2 DEF ReadFresh, SameRing

LEMMA ReadBegins ==
  ASSUME StableInv, SameRing, UNCHANGED acked, NEW key \in Key,
         reading' = Asking(key, acked[key])
  PROVE  ReadOK' /\ ReadFresh'
<1>0. RingFixed /\ AckedOK
  BY DEF StableInv
<1>1. conn = RealRing /\ conn \subseteq Remote /\ conn # {} /\ IsFiniteSet(conn)
  BY <1>0, RingFacts DEF RingFixed
<1>2. SuccessorOf(RealRing, key) \in Asked(key) /\ Asked(key) \subseteq RealRing
  BY <1>1, AskedIn
<1>3. acked[key] \in Nat
  BY <1>0 DEF AckedOK
<1>4. reading' = [pc |-> "get", key |-> key, asked |-> Asked(key), best |-> None,
                  floor |-> acked[key]]
  BY DEF Asking
<1>5. None \in Mark
  BY DEF None, Mark
<1>6. /\ reading'.pc = "get" /\ reading'.key = key /\ reading'.asked = Asked(key)
      /\ reading'.best = None /\ reading'.floor = acked[key]
  BY <1>4
<1>7. ReadOK'
  BY <1>2, <1>3, <1>4, <1>5, <1>6 DEF ReadOK, SameRing, Mark
<1>8. ReadFresh'
  BY <1>2, <1>3, <1>6 DEF ReadFresh, SameRing
<1> QED
  BY <1>7, <1>8

LEMMA AnswerFresh ==
  ASSUME StableInv, SameRing, UNCHANGED acked, NEW r, GetAnswer(r)
  PROVE  ReadOK' /\ ReadFresh'
<1>0. ReadOK /\ ReadFresh /\ RingFixed /\ OwnersHave /\ AckedOK /\ Inv
  BY DEF StableInv
<1> DEFINE key == reading.key
           best == reading.best
           floor == reading.floor
           mark == tree[r.addr][key]
           new == Newest(best, mark)
           left == [reading EXCEPT !.asked = @ \ {r}]
<1>1. /\ reading = [pc |-> "get", key |-> key, asked |-> reading.asked, best |-> best,
                    floor |-> floor]
      /\ key \in Key /\ reading.asked \subseteq RealRing /\ best \in Mark /\ floor \in Nat
      /\ floor <= acked[key]
      /\ SuccessorOf(RealRing, key) \in reading.asked \/ floor <= best.ts
  BY <1>0 DEF GetAnswer, ReadOK, ReadFresh, NoRead
<1>2. /\ r \in reading.asked /\ r.addr \in Addr
      /\ reading' = [left EXCEPT !.best = Newest(@, mark)]
  BY <1>0, <1>1, RingFacts DEF GetAnswer, Remote
<1>3. reading' = [pc |-> "get", key |-> key, asked |-> reading.asked \ {r}, best |-> new,
                  floor |-> floor]
  <2>1. left = [pc |-> "get", key |-> key, asked |-> reading.asked \ {r}, best |-> best,
                floor |-> floor]
    BY <1>1
  <2> HIDE DEF left, mark, best, floor, key
  <2> QED
    BY <1>2, <2>1
<1>4. /\ reading'.pc = "get" /\ reading'.key = key /\ reading'.asked = reading.asked \ {r}
      /\ reading'.best = new /\ reading'.floor = floor
  BY <1>3
<1>5. mark \in Mark
  BY <1>0, <1>1, <1>2 DEF Inv, TreeOK
<1>6. new \in Mark /\ best.ts <= new.ts /\ mark.ts <= new.ts
  <2> HIDE DEF best, mark
  <2> QED
    BY <1>1, <1>5 DEF Newest, Mark
<1>7. r = SuccessorOf(RealRing, key) => floor <= mark.ts
  <2> SUFFICES ASSUME r = SuccessorOf(RealRing, key) PROVE floor <= mark.ts
    OBVIOUS
  <2>1. acked[key] <= mark.ts
    BY <1>0, <1>1 DEF OwnersHave, First
  <2>2. acked[key] \in Nat /\ mark.ts \in Nat
    BY <1>0, <1>1, <1>5 DEF AckedOK, Mark
  <2> HIDE DEF mark, key, floor
  <2> QED
    BY <1>1, <2>1, <2>2
<1>8. best.ts \in Nat /\ mark.ts \in Nat /\ new.ts \in Nat
  BY <1>1, <1>5, <1>6 DEF Mark
<1>9. SuccessorOf(RealRing, key) \in reading.asked \ {r} \/ floor <= new.ts
  <2> HIDE DEF mark, best, floor, key, new
  <2> QED
    BY <1>1, <1>6, <1>7, <1>8
<1>10. ReadOK'
  <2> HIDE DEF mark, best, floor, key, new
  <2> QED
    BY <1>1, <1>3, <1>4, <1>6 DEF ReadOK, SameRing, Mark
<1>11. ReadFresh'
  <2> HIDE DEF mark, best, floor, key, new
  <2> QED
    BY <1>1, <1>4, <1>9 DEF ReadFresh, SameRing
<1> QED
  BY <1>10, <1>11

LEMMA GetStable ==
  ASSUME StableInv, SameRing, Get
  PROVE  ReadOK' /\ ReadFresh' /\ UNCHANGED acked
<1>0. ReadOK /\ RingFixed
  BY DEF StableInv
<1>1. UNCHANGED acked
  BY DEF Get, GetAnswer, GetAgain, GetStart, GetReturn
<1>2. reading.pc # "again"
  BY <1>0 DEF ReadOK, NoRead
<1>3. \A r : reading.pc = "get" /\ r \in reading.asked => r.addr \in alive
  BY <1>0, RingFacts DEF ReadOK, NoRead, RingFixed
<1>4. (\E r : GetAnswer(r)) \/ reading' = NoRead
  BY <1>2, <1>3 DEF Get, GetAgain, GetStart, GetReturn
<1>5. ASSUME reading' = NoRead PROVE ReadOK' /\ ReadFresh'
  BY <1>5 DEF ReadOK, ReadFresh, NoRead
<1> QED
  BY <1>1, <1>4, <1>5, AnswerFresh
-----------------------------------------------------------------------------
LEMMA StableInit ==
  ASSUME Init, Stable
  PROVE  StableInv
<1> USE DEF Init, NodeInit
<1>1. Inv
  BY InvInit
<1>2. budget \in Budget
  BY DHashAssumption
<1>3. RingFixed
  <2>1. member \subseteq Addr /\ member # {}
    BY <1>2 DEF Budget
  <2>2. pos \in [Addr -> Pos]
    BY DHashAssumption
  <2> QED
    BY <1>2, <2>1, <2>2 DEF RingFixed
<1>4. ThreadsStable
  BY DEF ThreadsStable, StacksOK
<1>5. AckedOK
  BY DEF AckedOK
<1>6. CleansForeign
  BY DEF CleansForeign, Idle
<1>7. OwnersHave
  <2> SUFFICES ASSUME NEW k \in Key PROVE acked[k] <= tree[First(k)][k].ts
    BY DEF OwnersHave
  <2>1. First(k) \in Addr
    BY <1>3, RingFacts
  <2>2. First(k) \in RealOwners(k)
    <3> DEFINE R == RealRing
               s == SuccessorOf(R, k)
               c == Chain(R, s, redundancy(R))
    <3>1. R \subseteq Remote /\ R # {} /\ IsFiniteSet(R) /\ s \in R
      BY <1>3, RingFacts
    <3>2. redundancy(R) \in Nat /\ redundancy(R) >= 1
      BY <3>1, SomeOwner
    <3>3. DOMAIN c = 1 .. redundancy(R) /\ c[1] = s
      <4> HIDE DEF R, s
      <4> QED
        BY <3>1, <3>2, ChainBegins
    <3>4. s \in Range(c)
      <4> HIDE DEF c, s, R
      <4> QED
        BY <3>2, <3>3 DEF Range
    <3> QED
      BY <3>4 DEF RealOwners, First
  <2>3. tree[First(k)][k] = IF k \in budget.held THEN [ts |-> 1, live |-> TRUE] ELSE None
    BY <2>1, <2>2
  <2> QED
    BY <2>3 DEF None
<1>8. ReadOK /\ ReadFresh
  BY DEF ReadOK, ReadFresh, NoRead
<1> QED
  BY <1>1, <1>3, <1>4, <1>5, <1>6, <1>7, <1>8 DEF StableInv

(* What stands while something else changes. *)
LEMMA OthersStand ==
  ASSUME StableInv, SameRing
  PROVE  /\ UNCHANGED <<threads, acked>> => ThreadsStable'
         /\ UNCHANGED <<acked, clock>> => AckedOK'
         /\ UNCHANGED cleaner => CleansForeign'
         /\ UNCHANGED <<acked, tree>> => OwnersHave'
         /\ UNCHANGED <<reading, acked>> => ReadOK' /\ ReadFresh'
<1>0. ThreadsStable /\ AckedOK /\ CleansForeign /\ OwnersHave /\ ReadOK /\ ReadFresh
  BY DEF StableInv
<1>1. UNCHANGED <<threads, acked>> => ThreadsStable'
  BY <1>0, SameFirst DEF ThreadsStable, StacksOK, Stacks, Frames, SameRing, Sent
<1>2. UNCHANGED <<acked, clock>> => AckedOK'
  BY <1>0 DEF AckedOK
<1>3. UNCHANGED cleaner => CleansForeign'
  BY <1>0, SameFirst DEF CleansForeign, Gives, SameRing
<1>4. UNCHANGED <<acked, tree>> => OwnersHave'
  BY <1>0, SameFirst DEF OwnersHave
<1>5. UNCHANGED <<reading, acked>> => ReadOK' /\ ReadFresh'
  BY <1>0 DEF ReadOK, ReadFresh, SameRing, Mark
<1> QED
  BY <1>1, <1>2, <1>3, <1>4, <1>5

LEMMA StableStep ==
  ASSUME StableInv, [Next]_vars
  PROVE  StableInv'
<1>0. /\ Inv /\ RingFixed /\ ThreadsStable /\ StacksOK /\ AckedOK /\ ReadOK
      /\ \A k \in Key : acked[k] \in Nat
  BY DEF StableInv, ThreadsStable, AckedOK
<1>1. /\ UNCHANGED <<alive, member, pos, view, conn>>
      /\ budget' \in Budget /\ Stable' /\ budget'.sync = budget.sync
  BY <1>0, RingStays
<1>2. SameRing /\ RingFixed'
  BY <1>0, <1>1 DEF SameRing, RingFixed, RealRing, Me
<1>3. Inv'
  BY <1>0, Step
<1>4. CASE Write
  <2>1. PICK key \in budget.keys, live \in BOOLEAN : ClientWrite(key, live, budget.sync)
    BY <1>4 DEF Write
  <2>2. UNCHANGED <<acked, clock, cleaner, tree, reading>>
    BY <2>1 DEF ClientWrite, ClientStands, clientVars
  <2>3. ThreadsStable'
    BY <1>2, <2>1, WriteStable
  <2> QED
    BY <1>2, <1>3, <2>2, <2>3, OthersStand DEF StableInv
<1>5. CASE Serve /\ ClientStands
  <2>1. PICK t \in threads : Handle(t) \/ Forward(t)
    BY <1>5 DEF Serve
  <2>2. UNCHANGED <<acked, clock, cleaner, tree, reading>>
    BY <1>5, <2>1 DEF Handle, Forward, LoopsAndRing, ClientStands, clientVars
  <2>3. ThreadsStable'
    BY <1>1, <1>2, <2>1, <2>2, HandleStable, ForwardStable
  <2> QED
    BY <1>2, <1>3, <2>2, <2>3, OthersStand DEF StableInv
<1>6. ASSUME NEW t \in threads, ~Answered(t), Apply(t), ClientStands PROVE StableInv'
  <2>1. /\ UNCHANGED <<acked, clock, cleaner, reading>>
        /\ tree' = [tree EXCEPT ![top(t).at][t.item.key] = t.item.mark]
    BY <1>6 DEF Apply, LoopsAndRing, ClientStands, clientVars
  <2>2. Sent(t)
    BY <1>6, Busy DEF Apply, Applies
  <2>3. ThreadsStable' /\ OwnersHave'
    BY <1>2, <1>6, <2>1, <2>2, ApplyStable, AppliedHave
  <2> QED
    BY <1>2, <1>3, <2>1, <2>3, OthersStand DEF StableInv
<1>7. ASSUME NEW t \in threads, ClientAnswer(t) PROVE StableInv'
  <2>1. UNCHANGED <<clock, cleaner, reading>>
    BY <1>7 DEF ClientAnswer, LoopsAndRing
  <2>2. /\ ThreadsStable' /\ AckedOK' /\ OwnersHave'
        /\ \A k \in Key : acked[k] <= acked'[k]
    BY <1>2, <1>7, AnswerStable
  <2>3. ReadOK' /\ ReadFresh'
    BY <1>2, <2>1, <2>2, ReadStands
  <2> QED
    BY <1>2, <1>3, <2>1, <2>2, <2>3, OthersStand DEF StableInv
<1>8. ASSUME NEW t \in threads, ClientCall(t) PROVE StableInv'
  <2>1. UNCHANGED <<acked, cleaner, tree, reading>>
    BY <1>8 DEF ClientCall
  <2>2. ThreadsStable' /\ AckedOK'
    BY <1>1, <1>2, <1>8, CallStable
  <2> QED
    BY <1>2, <1>3, <2>1, <2>2, OthersStand DEF StableInv
<1>9. CASE Get
  <2>1. UNCHANGED <<threads, clock, cleaner, tree>>
    BY <1>9 DEF Get, GetAnswer, GetAgain, GetStart, GetReturn, NodesStand, nodeVars
  <2>2. ReadOK' /\ ReadFresh' /\ UNCHANGED acked
    BY <1>2, <1>9, GetStable
  <2> QED
    BY <1>2, <1>3, <2>1, <2>2, OthersStand DEF StableInv
<1>10. ASSUME NEW key \in budget.keys, ClientGet(key) PROVE StableInv'
  <2>1. UNCHANGED <<threads, clock, cleaner, tree, acked>>
    BY <1>10 DEF ClientGet
  <2>2. key \in Key
    BY <1>0 DEF RingFixed, Budget
  <2>3. ReadOK' /\ ReadFresh'
    BY <1>2, <1>10, <2>1, <2>2, ReadBegins DEF ClientGet
  <2> QED
    BY <1>2, <1>3, <2>1, <2>3, OthersStand DEF StableInv
<1>11. ASSUME NEW n \in Addr, Loop(n) PROVE StableInv'
  <2>1. UNCHANGED <<threads, clock, acked, reading>>
    BY <1>11 DEF Loop, Loops, SyncWalk, SyncTurn, CleanWalk, CleanTurn, CleanStart, SyncStart,
                 RingStands, ClientStands, clientVars
  <2>2. CleansForeign'
    <3>1. CASE CleanStart(n)
      BY <1>1, <1>2, <3>1, CleanStartStable
    <3>2. CASE CleanTurn(n)
      BY <1>2, <3>2, CleanTurnStable
    <3>3. CASE CleanWalk(n)
      BY <1>2, <3>3, CleanWalkStable
    <3>4. CASE SyncWalk(n) \/ SyncTurn(n) \/ SyncStart(n)
      <4>1. UNCHANGED cleaner
        BY <3>4 DEF SyncWalk, SyncTurn, SyncStart
      <4> QED
        BY <1>2, <4>1, OthersStand
    <3> QED
      BY <1>11, <3>1, <3>2, <3>3, <3>4 DEF Loop, Loops
  <2>3. OwnersHave'
    <3>1. CASE UNCHANGED tree
      BY <1>2, <2>1, <3>1, OthersStand
    <3>2. CASE SyncWalk(n) \/ CleanWalk(n)
      <4>1. \A m \in Addr, k \in Key : LoopStep(m, k)
        BY <1>0, <3>2, SyncWalkKeeps, CleanWalkKeeps
      <4>2. TreeOK'
        BY <1>3 DEF Inv
      <4> QED
        BY <1>2, <2>1, <4>1, <4>2, LoopsHave
    <3>3. CASE SyncTurn(n) \/ CleanTurn(n) \/ CleanStart(n) \/ SyncStart(n)
      BY <3>1, <3>3 DEF SyncTurn, CleanTurn, CleanStart, SyncStart
    <3> QED
      BY <1>11, <3>2, <3>3 DEF Loop, Loops
  <2> QED
    BY <1>2, <1>3, <2>1, <2>2, <2>3, OthersStand DEF StableInv
<1>12. ASSUME UNCHANGED <<threads, clock, cleaner, tree, acked, reading>> PROVE StableInv'
  BY <1>2, <1>3, <1>12, OthersStand DEF StableInv
<1>13. ASSUME Update PROVE StableInv'
  <2>1. UNCHANGED <<threads, clock, cleaner, tree, acked, reading>>
    BY <1>13 DEF Update, NodesStand, nodeVars
  <2> QED
    BY <1>12, <2>1
<1>14. ASSUME NEW n \in Addr, Change(n) PROVE StableInv'
  <2>1. ~Crash(n)
    BY <1>0 DEF Crash, RingFixed, Stable
  <2>2. UNCHANGED <<threads, clock, cleaner, tree, acked, reading>>
    BY <1>14, <2>1 DEF Change, Changes, Migrate, Learn, Join, LoopsAndRing, ClientStands, clientVars
  <2> QED
    BY <1>12, <2>2
<1>15. CASE UNCHANGED vars
  BY <1>12, <1>15 DEF vars, nodeVars, clientVars
<1>16. CASE Run
  BY <1>5, <1>6, <1>7, <1>8, <1>16 DEF Run
<1> QED
  BY <1>4, <1>9, <1>10, <1>11, <1>13, <1>14, <1>15, <1>16 DEF Next

(* Behaviours of a ring that stands from the beginning. *)
THEOREM StableInductive == Spec /\ Stable => []StableInv
<1>1. Init /\ Stable => StableInv
  BY StableInit
<1>2. StableInv /\ [Next]_vars => StableInv'
  BY StableStep
<1> QED
  BY <1>1, <1>2, PTL DEF Spec

(***************************************************************************)
(* As long as no node joins, crashes or moves, no loop of any node takes a *)
(* synchronous write away once it has returned: the first owner of the key *)
(* has it or a newer one.                                                  *)
(***************************************************************************)
THEOREM DurableInStableRing == Spec /\ Stable => []Durable
<1>1. ASSUME StableInv PROVE Durable
  <2> SUFFICES ASSUME NEW k \in Key PROVE \E n \in alive : tree[n][k].ts >= acked[k]
    BY DEF Durable
  <2>1. Inv /\ RingFixed /\ OwnersHave /\ AckedOK
    BY <1>1 DEF StableInv
  <2>2. First(k) \in Addr /\ alive = Addr
    BY <2>1, RingFacts DEF RingFixed
  <2>3. acked[k] <= tree[First(k)][k].ts /\ acked[k] \in Nat /\ tree[First(k)][k].ts \in Nat
    BY <2>1, <2>2 DEF OwnersHave, AckedOK, Inv, TreeOK, Mark
  <2>4. tree[First(k)][k].ts >= acked[k]
    BY <2>3
  <2> QED
    BY <2>2, <2>4
<1> QED
  BY <1>1, StableInductive, PTL

(***************************************************************************)
(* ... and every Get that begins after the write has returned finds it, in *)
(* whatever order the owners answer and whatever the loops do meanwhile.   *)
(***************************************************************************)
THEOREM FreshInStableRing == Spec /\ Stable => []ReadsAreFresh
<1>1. ASSUME StableInv PROVE ReadsAreFresh
  <2> SUFFICES ASSUME reading.pc = "get", reading.asked = {}
               PROVE  reading.best.ts >= reading.floor
    BY DEF ReadsAreFresh
  <2>1. ReadOK /\ ReadFresh
    BY <1>1 DEF StableInv
  <2>2. reading.floor <= reading.best.ts /\ reading.floor \in Nat /\ reading.best.ts \in Nat
    BY <2>1 DEF ReadOK, ReadFresh, NoRead, Mark
  <2> QED
    BY <2>2
<1> QED
  BY <1>1, StableInductive, PTL
-----------------------------------------------------------------------------
(* Merging.  Items with marks from M; sequences of them ordered by their   *)
(* keys, each key once; and what it means that one has the newest of X.    *)
Items(M) == [key : Key, mark : M]
Told(M) == M \subseteq Mark /\ \A m, n \in M : m.ts = n.ts => m = n
Before(a, b, up) == IF up THEN a < b ELSE a > b
Ordered(M, up) ==
  {q \in Seq(Items(M)) : \A i, j \in 1 .. Len(q) : i < j => Before(q[i].key, q[j].key, up)}
Holds(q, X) ==
  /\ \A i \in 1 .. Len(q) : q[i] \in X
  /\ \A x \in X : \E i \in 1 .. Len(q) : q[i].key = x.key /\ x.mark.ts <= q[i].mark.ts

LEMMA ItemFacts ==
  ASSUME NEW M, Told(M)
  PROVE  \A x \in Items(M) : /\ x.key \in Key /\ x.key \in Nat /\ x.mark \in M
                             /\ x.mark.ts \in Nat /\ x = [key |-> x.key, mark |-> x.mark]
<1> TAKE x \in Items(M)
<1>1. x.key \in Key /\ x.mark \in M /\ x = [key |-> x.key, mark |-> x.mark]
  BY DEF Items
<1>2. x.key \in Nat
  BY <1>1, DHashAssumption, RemotesAssumption
<1>3. x.mark.ts \in Nat
  BY <1>1 DEF Told, Mark
<1> QED
  BY <1>1, <1>2, <1>3

(* Three ways to put an item into an ordered sequence. *)
LEMMA AppendHolds ==
  ASSUME NEW M, Told(M), NEW up \in BOOLEAN, NEW q \in Ordered(M, up), NEW item \in Items(M),
         NEW X, Holds(q, X), \A i \in 1 .. Len(q) : Before(q[i].key, item.key, up)
  PROVE  Append(q, item) \in Ordered(M, up) /\ Holds(Append(q, item), X \cup {item})
<1> DEFINE r == Append(q, item)
           l == Len(q)
<1>1. q \in Seq(Items(M)) /\ l \in Nat
  BY DEF Ordered
<1>2. /\ r \in Seq(Items(M)) /\ Len(r) = l + 1 /\ r[l + 1] = item
      /\ \A i \in 1 .. l : r[i] = q[i]
  BY <1>1
<1> HIDE DEF r
<1>3. r \in Ordered(M, up)
  <2> SUFFICES ASSUME NEW i \in 1 .. l + 1, NEW j \in 1 .. l + 1, i < j
               PROVE  Before(r[i].key, r[j].key, up)
    BY <1>2 DEF Ordered
  <2>1. i \in 1 .. l /\ r[i] = q[i]
    BY <1>1, <1>2
  <2>2. CASE j = l + 1
    BY <1>2, <2>1, <2>2
  <2>3. CASE j # l + 1
    <3>1. j \in 1 .. l /\ r[j] = q[j]
      BY <1>1, <1>2, <2>3
    <3> QED
      BY <2>1, <3>1 DEF Ordered
  <2> QED
    BY <2>2, <2>3
<1>4. ASSUME NEW i \in 1 .. l + 1 PROVE r[i] \in X \cup {item}
  <2>1. CASE i = l + 1
    BY <1>2, <2>1
  <2>2. CASE i # l + 1
    <3>1. i \in 1 .. l
      BY <1>1, <2>2
    <3> QED
      BY <1>2, <3>1 DEF Holds
  <2> QED
    BY <2>1, <2>2
<1>5. ASSUME NEW x \in X \cup {item}
      PROVE  \E i \in 1 .. l + 1 : r[i].key = x.key /\ x.mark.ts <= r[i].mark.ts
  <2>1. CASE x = item
    <3>1. l + 1 \in 1 .. l + 1 /\ item.mark.ts \in Nat
      BY <1>1, ItemFacts
    <3> QED
      BY <1>2, <2>1, <3>1
  <2>2. CASE x \in X
    <3>1. PICK i \in 1 .. l : q[i].key = x.key /\ x.mark.ts <= q[i].mark.ts
      BY <2>2 DEF Holds
    <3>2. i \in 1 .. l + 1
      BY <1>1
    <3> QED
      BY <1>2, <3>1, <3>2
  <2> QED
    BY <2>1, <2>2
<1>6. Holds(r, X \cup {item})
  BY <1>2, <1>4, <1>5 DEF Holds
<1> QED
  BY <1>3, <1>6 DEF r

LEMMA ReplaceHolds ==
  ASSUME NEW M, Told(M), NEW up \in BOOLEAN, NEW q \in Ordered(M, up), NEW item \in Items(M),
         NEW X, X \subseteq Items(M), Holds(q, X), NEW i \in 1 .. Len(q), q[i].key = item.key,
         NEW r, r = [q EXCEPT ![i].mark = Newest(@, item.mark)]
  PROVE  r \in Ordered(M, up) /\ Holds(r, X \cup {item})
<1> DEFINE l == Len(q)
           new == [q[i] EXCEPT !.mark = Newest(@, item.mark)]
<1>1. q \in Seq(Items(M)) /\ l \in Nat /\ q[i] \in Items(M)
  BY DEF Ordered
<1>2. /\ q[i] = [key |-> item.key, mark |-> q[i].mark] /\ item = [key |-> item.key, mark |-> item.mark]
      /\ q[i].mark.ts \in Nat /\ item.mark.ts \in Nat
  BY <1>1, ItemFacts
<1>3. new = [key |-> item.key, mark |-> Newest(q[i].mark, item.mark)]
  BY <1>2
<1>4. /\ new = q[i] \/ new = item
      /\ new.key = item.key
      /\ q[i].mark.ts <= new.mark.ts /\ item.mark.ts <= new.mark.ts
  <2>1. CASE q[i].mark.ts < item.mark.ts
    <3>1. new = item
      BY <1>2, <1>3, <2>1 DEF Newest
    <3> HIDE DEF new
    <3> QED
      BY <1>2, <2>1, <3>1
  <2>2. CASE ~(q[i].mark.ts < item.mark.ts)
    <3>1. new = q[i]
      BY <1>2, <1>3, <2>2 DEF Newest
    <3> HIDE DEF new
    <3> QED
      BY <1>2, <2>2, <3>1
  <2> QED
    BY <2>1, <2>2
<1>5. r = [q EXCEPT ![i] = new]
  OBVIOUS
<1> HIDE DEF new
<1>6. /\ r \in Seq(Items(M)) /\ Len(r) = l
      /\ \A j \in 1 .. l : r[j] = IF j = i THEN new ELSE q[j]
  BY <1>1, <1>4, <1>5
<1>7. \A j \in 1 .. l : r[j].key = q[j].key
  BY <1>4, <1>6
<1>8. r \in Ordered(M, up)
  BY <1>6, <1>7 DEF Ordered
<1>9. \A j \in 1 .. l : r[j] \in X \cup {item}
  BY <1>4, <1>6 DEF Holds
<1>10. ASSUME NEW x \in X \cup {item}
       PROVE  \E j \in 1 .. l : r[j].key = x.key /\ x.mark.ts <= r[j].mark.ts
  <2>1. CASE x = item
    BY <1>4, <1>6, <2>1
  <2>2. CASE x \in X
    <3>1. PICK j \in 1 .. l : q[j].key = x.key /\ x.mark.ts <= q[j].mark.ts
      BY <2>2 DEF Holds
    <3>2. CASE j # i
      BY <1>6, <3>1, <3>2
    <3>3. CASE j = i
      <4>1. x.mark.ts \in Nat /\ new.mark.ts \in Nat
        BY <1>2, <1>4, <2>2, ItemFacts
      <4>2. x.mark.ts <= new.mark.ts
        BY <1>2, <1>4, <3>1, <3>3, <4>1
      <4> QED
        BY <1>4, <1>6, <3>1, <3>3, <4>2
    <3> QED
      BY <3>2, <3>3
  <2> QED
    BY <2>1, <2>2
<1>11. Holds(r, X \cup {item})
  BY <1>6, <1>9, <1>10 DEF Holds
<1> QED
  BY <1>8, <1>11

LEMMA InsertHolds ==
  ASSUME NEW M, Told(M), NEW up \in BOOLEAN, NEW q \in Ordered(M, up), NEW item \in Items(M),
         NEW X, Holds(q, X), NEW i \in 1 .. Len(q), Before(item.key, q[i].key, up),
         \A j \in 1 .. i - 1 : Before(q[j].key, item.key, up)
  PROVE  InsertAt(q, i, item) \in Ordered(M, up) /\ Holds(InsertAt(q, i, item), X \cup {item})
<1> DEFINE l == Len(q)
           a == SubSeq(q, 1, i - 1)
           b == SubSeq(q, i, l)
           r == InsertAt(q, i, item)
<1>1. q \in Seq(Items(M)) /\ l \in Nat /\ i \in 1 .. l
  BY DEF Ordered
<1>2. a \in Seq(Items(M)) /\ Len(a) = i - 1 /\ \A j \in 1 .. i - 1 : a[j] = q[j]
  <2>1. 1 <= (i - 1) + 1 /\ i - 1 <= l
    BY <1>1
  <2>2. a \in Seq(Items(M)) /\ Len(a) = i - 1
    BY <1>1
  <2>3. \A j \in 1 .. i - 1 : a[j] = q[j]
    BY <1>1
  <2> QED
    BY <2>2, <2>3
<1>3. b \in Seq(Items(M)) /\ Len(b) = l - i + 1 /\ \A j \in 1 .. l - i + 1 : b[j] = q[j + i - 1]
  BY <1>1
<1>4. r = (a \o <<item>>) \o b
  BY DEF InsertAt
<1> HIDE DEF a, b, r
<1>5. /\ a \o <<item>> \in Seq(Items(M)) /\ Len(a \o <<item>>) = i
      /\ (a \o <<item>>)[i] = item /\ \A j \in 1 .. i - 1 : (a \o <<item>>)[j] = q[j]
  BY <1>1, <1>2
<1> DEFINE c == a \o <<item>>
<1> HIDE DEF c
<1>6. /\ c \in Seq(Items(M)) /\ Len(c) = i /\ c[i] = item /\ \A j \in 1 .. i - 1 : c[j] = q[j]
      /\ r = c \o b
  BY <1>4, <1>5 DEF c
<1>7. /\ r \in Seq(Items(M)) /\ Len(r) = l + 1
      /\ \A j \in 1 .. i : r[j] = c[j]
      /\ \A j \in i + 1 .. l + 1 : r[j] = b[j - i]
  <2>1. /\ c \o b \in Seq(Items(M)) /\ Len(c \o b) = Len(c) + Len(b)
        /\ \A j \in 1 .. Len(c) + Len(b) :
             (c \o b)[j] = IF j <= Len(c) THEN c[j] ELSE b[j - Len(c)]
    BY <1>3, <1>6, ConcatProperties
  <2>2. Len(c) + Len(b) = l + 1
    BY <1>1, <1>3, <1>6
  <2>3. /\ r \in Seq(Items(M)) /\ Len(r) = l + 1
        /\ \A j \in 1 .. l + 1 : r[j] = IF j <= i THEN c[j] ELSE b[j - i]
    BY <1>6, <2>1, <2>2
  <2>4. \A j \in 1 .. i : j \in 1 .. l + 1 /\ j <= i
    BY <1>1
  <2>5. \A j \in i + 1 .. l + 1 : j \in 1 .. l + 1 /\ ~(j <= i)
    BY <1>1
  <2> QED
    BY <2>3, <2>4, <2>5
<1>8. /\ r[i] = item
      /\ \A j \in 1 .. i - 1 : r[j] = q[j]
      /\ \A j \in i + 1 .. l + 1 : r[j] = q[j - 1]
  <2>1. r[i] = item
    BY <1>1, <1>6, <1>7
  <2>2. ASSUME NEW j \in 1 .. i - 1 PROVE r[j] = q[j]
    <3>1. j \in 1 .. i
      BY <1>1
    <3> QED
      BY <1>6, <1>7, <3>1
  <2>3. ASSUME NEW j \in i + 1 .. l + 1 PROVE r[j] = q[j - 1]
    <3>1. j - i \in 1 .. l - i + 1 /\ (j - i) + i - 1 = j - 1
      BY <1>1
    <3> QED
      BY <1>3, <1>7, <3>1
  <2> QED
    BY <2>1, <2>2, <2>3
<1>9. \A j \in 1 .. l : q[j].key \in Nat /\ item.key \in Nat
  BY <1>1, ItemFacts
<1>10. \A j \in i .. l : Before(item.key, q[j].key, up)
  <2> TAKE j \in i .. l
  <2>1. j \in 1 .. l
    BY <1>1
  <2>2. j # i => Before(q[i].key, q[j].key, up)
    BY <1>1, <2>1 DEF Ordered
  <2> QED
    BY <1>1, <1>9, <2>1, <2>2 DEF Before
<1>11. r \in Ordered(M, up)
  <2> SUFFICES ASSUME NEW m \in 1 .. l + 1, NEW n \in 1 .. l + 1, m < n
               PROVE  Before(r[m].key, r[n].key, up)
    BY <1>7 DEF Ordered
  <2>1. CASE n < i
    <3>1. m \in 1 .. i - 1 /\ n \in 1 .. i - 1 /\ m \in 1 .. l /\ n \in 1 .. l
      BY <1>1, <2>1
    <3> QED
      BY <1>8, <3>1 DEF Ordered
  <2>2. CASE n = i
    <3>1. m \in 1 .. i - 1
      BY <1>1, <2>2
    <3> QED
      BY <1>8, <2>2, <3>1
  <2>3. CASE n > i /\ m < i
    <3>1. m \in 1 .. i - 1 /\ n \in i + 1 .. l + 1 /\ m \in 1 .. l /\ n - 1 \in 1 .. l /\ m < n - 1
      BY <1>1, <2>3
    <3> QED
      BY <1>8, <3>1 DEF Ordered
  <2>4. CASE n > i /\ m = i
    <3>1. n \in i + 1 .. l + 1 /\ n - 1 \in i .. l
      BY <1>1, <2>4
    <3> QED
      BY <1>8, <1>10, <2>4, <3>1
  <2>5. CASE n > i /\ m > i
    <3>1. /\ m \in i + 1 .. l + 1 /\ n \in i + 1 .. l + 1
          /\ m - 1 \in 1 .. l /\ n - 1 \in 1 .. l /\ m - 1 < n - 1
      BY <1>1, <2>5
    <3> QED
      BY <1>8, <3>1 DEF Ordered
  <2> QED
    BY <1>1, <2>1, <2>2, <2>3, <2>4, <2>5
<1>12. ASSUME NEW j \in 1 .. l + 1 PROVE r[j] \in X \cup {item}
  <2>1. j = i \/ j \in 1 .. i - 1 \/ j \in i + 1 .. l + 1
    BY <1>1
  <2>2. (j \in 1 .. i - 1 => j \in 1 .. l) /\ (j \in i + 1 .. l + 1 => j - 1 \in 1 .. l)
    BY <1>1
  <2> QED
    BY <1>8, <2>1, <2>2 DEF Holds
<1>13. ASSUME NEW x \in X \cup {item}
       PROVE  \E j \in 1 .. l + 1 : r[j].key = x.key /\ x.mark.ts <= r[j].mark.ts
  <2>1. CASE x = item
    <3>1. i \in 1 .. l + 1 /\ item.mark.ts \in Nat
      BY <1>1, ItemFacts
    <3> QED
      BY <1>8, <2>1, <3>1
  <2>2. CASE x \in X
    <3>1. PICK j \in 1 .. l : q[j].key = x.key /\ x.mark.ts <= q[j].mark.ts
      BY <2>2 DEF Holds
    <3>2. CASE j < i
      <4>1. j \in 1 .. i - 1 /\ j \in 1 .. l + 1
        BY <1>1, <3>2
      <4> QED
        BY <1>8, <3>1, <4>1
    <3>3. CASE ~(j < i)
      <4>1. j + 1 \in i + 1 .. l + 1 /\ j + 1 \in 1 .. l + 1 /\ (j + 1) - 1 = j
        BY <1>1, <3>3
      <4>2. r[j + 1] = q[j]
        BY <1>8, <4>1
      <4> QED
        BY <3>1, <4>1, <4>2
    <3> QED
      BY <3>2, <3>3
  <2> QED
    BY <2>1, <2>2
<1>14. Holds(r, X \cup {item})
  BY <1>7, <1>12, <1>13 DEF Holds
<1> QED
  BY <1>11, <1>14 DEF r

(* One item is merged. *)
LEMMA MergedHolds ==
  ASSUME NEW M, Told(M), NEW up \in BOOLEAN, NEW q \in Ordered(M, up), NEW item \in Items(M)
  PROVE  /\ Merged(q, item, up) \in Ordered(M, up)
         /\ \A X : X \subseteq Items(M) /\ Holds(q, X) => Holds(Merged(q, item, up), X \cup {item})
<1> DEFINE l == Len(q)
           at == {i \in DOMAIN q :
                    IF up THEN item.key <= q[i].key ELSE item.key >= q[i].key}
           i == Min(at)
           Y == {q[j] : j \in 1 .. l}
<1>1. q \in Seq(Items(M)) /\ l \in Nat /\ DOMAIN q = 1 .. l
  BY DEF Ordered
<1>2. \A j \in 1 .. l : q[j] \in Items(M) /\ q[j].key \in Nat /\ item.key \in Nat
  BY <1>1, ItemFacts
<1>3. Holds(q, Y) /\ Y \subseteq Items(M)
  <2>1. \A j \in 1 .. l : q[j].mark.ts \in Nat
    BY <1>2, ItemFacts
  <2> QED
    BY <1>2, <2>1 DEF Holds
<1>4. Merged(q, item, up) =
        CASE at = {} -> Append(q, item)
          [] at # {} /\ q[i].key = item.key -> [q EXCEPT ![i].mark = Newest(@, item.mark)]
          [] OTHER -> InsertAt(q, i, item)
  BY DEF Merged
<1>5. \A j \in 1 .. l : j \notin at => Before(q[j].key, item.key, up)
  BY <1>1, <1>2 DEF Before
<1>6. at # {} => /\ i \in 1 .. l
                 /\ q[i].key # item.key => Before(item.key, q[i].key, up)
                 /\ \A j \in 1 .. i - 1 : Before(q[j].key, item.key, up)
  <2> SUFFICES ASSUME at # {}
               PROVE  /\ i \in 1 .. l
                      /\ q[i].key # item.key => Before(item.key, q[i].key, up)
                      /\ \A j \in 1 .. i - 1 : Before(q[j].key, item.key, up)
    OBVIOUS
  <2>1. at \subseteq Nat /\ at \subseteq 1 .. l
    BY <1>1
  <2>2. i \in at /\ \A j \in at : i <= j
    <3> HIDE DEF at
    <3>1. \E x \in at : \A y \in at : x <= y
      BY <2>1, LeastNatural
    <3> QED
      BY <3>1 DEF Min
  <2>3. q[i].key # item.key => Before(item.key, q[i].key, up)
    <3> HIDE DEF i
    <3>1. i \in 1 .. l
      BY <2>1, <2>2
    <3>2. IF up THEN item.key <= q[i].key ELSE item.key >= q[i].key
      BY <2>2
    <3> QED
      BY <1>2, <3>1, <3>2 DEF Before
  <2>4. ASSUME NEW j \in 1 .. i - 1 PROVE Before(q[j].key, item.key, up)
    <3> HIDE DEF i, at
    <3>1. j \in 1 .. l /\ j < i /\ i \in Nat
      BY <1>1, <2>1, <2>2
    <3>2. j \notin at
      BY <2>1, <2>2, <3>1
    <3> QED
      BY <1>5, <3>1, <3>2
  <2> QED
    BY <2>1, <2>2, <2>3, <2>4
<1> HIDE DEF at, i
<1>7. ASSUME NEW X, X \subseteq Items(M), Holds(q, X)
      PROVE  /\ Merged(q, item, up) \in Ordered(M, up)
             /\ Holds(Merged(q, item, up), X \cup {item})
  <2>1. CASE at = {}
    <3>1. Merged(q, item, up) = Append(q, item)
      BY <1>4, <2>1
    <3>2. \A j \in 1 .. l : Before(q[j].key, item.key, up)
      BY <1>5, <2>1
    <3> QED
      BY <1>7, <3>1, <3>2, AppendHolds
  <2>2. CASE at # {} /\ q[i].key = item.key
    <3>1. Merged(q, item, up) = [q EXCEPT ![i].mark = Newest(@, item.mark)]
      BY <1>4, <2>2
    <3>2. i \in 1 .. Len(q) /\ q[i].key = item.key
      BY <1>6, <2>2
    <3> DEFINE r == Merged(q, item, up)
    <3>3. r = [q EXCEPT ![i].mark = Newest(@, item.mark)]
      BY <3>1
    <3> HIDE DEF r
    <3>4. r \in Ordered(M, up) /\ Holds(r, X \cup {item})
      BY <1>7, <3>2, <3>3, ReplaceHolds
    <3> QED
      BY <3>4 DEF r
  <2>3. CASE at # {} /\ q[i].key # item.key
    <3>1. Merged(q, item, up) = InsertAt(q, i, item)
      BY <1>4, <2>3
    <3>2. /\ i \in 1 .. l /\ Before(item.key, q[i].key, up)
          /\ \A j \in 1 .. i - 1 : Before(q[j].key, item.key, up)
      BY <1>6, <2>3
    <3> QED
      BY <1>7, <3>1, <3>2, InsertHolds
  <2> QED
    BY <2>1, <2>2, <2>3
<1> QED
  BY <1>3, <1>7

(* A slice is merged into another. *)
LEMMA MergedAllHolds ==
  ASSUME NEW M, Told(M), NEW up \in BOOLEAN, NEW q \in Ordered(M, up), NEW s \in Seq(Items(M))
  PROVE  /\ MergedAll(q, s, up) \in Ordered(M, up)
         /\ \A X : X \subseteq Items(M) /\ Holds(q, X) =>
              Holds(MergedAll(q, s, up), X \cup {s[i] : i \in 1 .. Len(s)})
<1> DEFINE T == Ordered(M, up)
           O == Items(M)
           n == Len(s)
           F == [x \in T \X O |-> Merged(x[1], x[2], up)]
           G(f) == [i \in 0 .. n |-> IF i = 0 THEN q ELSE Merged(f[i - 1], s[i], up)]
           r == CHOOSE f : f = G(f)
<1>0. n \in Nat /\ \A i \in 1 .. n : s[i] \in O
  OBVIOUS
<1>1. F \in [T \X O -> T] /\ \A x \in T, y \in O : F[<<x, y>>] = Merged(x, y, up)
  <2>1. \A x \in T, y \in O : Merged(x, y, up) \in T
    BY MergedHolds
  <2> HIDE DEF T, O
  <2> QED
    BY <2>1
<1>2. PICK g \in [0 .. n -> T] : g[0] = q /\ \A i \in 1 .. n : g[i] = F[<<g[i - 1], s[i]>>]
  <2>1. RunsOf(T, F, q, s) # {}
    <3> HIDE DEF T, O, F
    <3> QED
      BY <1>1, RunExists DEF T, O
  <2> QED
    BY <2>1 DEF RunsOf
<1>3. g = G(g)
  <2>1. ASSUME NEW i \in 0 .. n PROVE g[i] = IF i = 0 THEN q ELSE Merged(g[i - 1], s[i], up)
    <3>1. CASE i = 0
      BY <1>2, <3>1
    <3>2. CASE i # 0
      <4>1. i \in 1 .. n /\ i - 1 \in 0 .. n
        BY <1>0, <3>2
      <4>2. g[i - 1] \in T /\ s[i] \in O
        BY <1>0, <1>2, <4>1
      <4> HIDE DEF T, O, F
      <4> QED
        BY <1>1, <1>2, <3>2, <4>1, <4>2
    <3> QED
      BY <3>1, <3>2
  <2> HIDE DEF T
  <2> QED
    BY <2>1
<1>4. r = G(r)
  <2> HIDE DEF G
  <2> QED
    BY <1>3
<1>5. MergedAll(q, s, up) = r[n]
  BY DEF MergedAll
<1> HIDE DEF r
<1>6. /\ r[0] = q
      /\ \A i \in 1 .. n : r[i] = Merged(r[i - 1], s[i], up)
  BY <1>0, <1>4
<1> HIDE DEF n
<1>7. ASSUME NEW X, X \subseteq O, Holds(q, X)
      PROVE  r[n] \in T /\ Holds(r[n], X \cup {s[i] : i \in 1 .. n})
  <2> DEFINE Y(m) == X \cup {s[i] : i \in 1 .. m}
             S == {m \in Nat : m <= n => r[m] \in T /\ Holds(r[m], Y(m))}
  <2>1. 0 \in S
    <3>1. Y(0) = X
      OBVIOUS
    <3> QED
      BY <1>6, <1>7, <3>1
  <2>2. ASSUME NEW m \in Nat, m \in S PROVE m + 1 \in S
    <3> SUFFICES ASSUME m + 1 <= n PROVE r[m + 1] \in T /\ Holds(r[m + 1], Y(m + 1))
      OBVIOUS
    <3>1. r[m] \in T /\ Holds(r[m], Y(m)) /\ m + 1 \in 1 .. n /\ m <= n
      BY <1>0, <2>2
    <3>2. r[m + 1] = Merged(r[m], s[m + 1], up) /\ s[m + 1] \in O
      <4>1. (m + 1) - 1 = m
        OBVIOUS
      <4> QED
        BY <1>0, <1>6, <3>1, <4>1
    <3>3. Y(m) \subseteq O
      <4>1. 1 .. m \subseteq 1 .. n
        BY <1>0, <3>1
      <4> QED
        BY <1>0, <1>7, <4>1
    <3>4. Y(m + 1) = Y(m) \cup {s[m + 1]}
      <4>1. 1 .. m + 1 = (1 .. m) \cup {m + 1}
        OBVIOUS
      <4> QED
        BY <4>1
    <3> HIDE DEF Y
    <3> QED
      BY <3>1, <3>2, <3>3, <3>4, MergedHolds, SMTT(40)
  <2> HIDE DEF S
  <2>3. n \in S
    BY <1>0, <2>1, <2>2, NaturalSetInduction
  <2> QED
    BY <1>0, <2>3 DEF S
<1>8. r[n] \in T
  <2> DEFINE X == {q[j] : j \in 1 .. Len(q)}
  <2>1. q \in Seq(O)
    BY DEF Ordered
  <2>2. X \subseteq O
    BY <2>1
  <2>3. \A j \in 1 .. Len(q) : q[j].mark.ts \in Nat
    BY <2>1, ItemFacts
  <2>4. Holds(q, X)
    BY <2>3 DEF Holds
  <2> QED
    BY <1>7, <2>2, <2>4
<1> QED
  BY <1>5, <1>7, <1>8 DEF n

(* All slices are merged into the first. *)
LEMMA MergeItemsHolds ==
  ASSUME NEW M, Told(M), NEW up \in BOOLEAN, NEW slices \in Seq(Ordered(M, up)), Len(slices) >= 1
  PROVE  /\ MergeItems(slices, up) \in Ordered(M, up)
         /\ Holds(MergeItems(slices, up),
                  UNION {{slices[j][i] : i \in 1 .. Len(slices[j])} : j \in 1 .. Len(slices)})
<1> DEFINE T == Ordered(M, up)
           n == Len(slices)
           s == [j \in 1 .. n - 1 |-> slices[j + 1]]
           F == [x \in T \X T |-> MergedAll(x[1], x[2], up)]
           G(f) == [j \in 1 .. n |-> IF j = 1 THEN slices[1] ELSE MergedAll(f[j - 1], slices[j], up)]
           r == CHOOSE f : f = G(f)
           All1(q) == {q[i] : i \in 1 .. Len(q)}
<1>0. n \in Nat /\ n >= 1 /\ \A j \in 1 .. n : slices[j] \in T
  OBVIOUS
<1>1. F \in [T \X T -> T] /\ \A x, y \in T : F[<<x, y>>] = MergedAll(x, y, up)
  <2>1. \A y \in T : y \in Seq(Items(M))
    BY DEF Ordered
  <2>2. \A x, y \in T : MergedAll(x, y, up) \in T
    BY <2>1, MergedAllHolds
  <2> HIDE DEF T
  <2> QED
    BY <2>2
<1>2. s \in Seq(T) /\ Len(s) = n - 1 /\ \A j \in 1 .. n - 1 : s[j] = slices[j + 1]
  <2> HIDE DEF n, T
  <2>1. \A j \in 1 .. n - 1 : j + 1 \in 1 .. n
    BY <1>0
  <2>2. s \in [1 .. n - 1 -> T] /\ n - 1 \in Nat
    BY <1>0, <2>1
  <2> QED
    BY <2>2
<1> HIDE DEF n, s, F
<1>3. PICK g \in [0 .. n - 1 -> T] :
        g[0] = slices[1] /\ \A i \in 1 .. n - 1 : g[i] = F[<<g[i - 1], s[i]>>]
  <2>1. RunsOf(T, F, slices[1], s) # {}
    <3>1. slices[1] \in T
      BY <1>0
    <3> HIDE DEF T
    <3> QED
      BY <1>1, <1>2, <3>1, RunExists
  <2> HIDE DEF T
  <2> QED
    BY <1>2, <2>1 DEF RunsOf
<1> DEFINE h == [j \in 1 .. n |-> g[j - 1]]
<1>4. h = G(h)
  <2>1. ASSUME NEW j \in 1 .. n
        PROVE  h[j] = IF j = 1 THEN slices[1] ELSE MergedAll(h[j - 1], slices[j], up)
    <3>1. CASE j = 1
      BY <1>3, <3>1
    <3>2. CASE j # 1
      <4>1. j - 1 \in 1 .. n - 1 /\ j - 1 \in 1 .. n /\ (j - 1) + 1 = j /\ (j - 1) - 1 \in 0 .. n - 1
        BY <1>0, <3>2
      <4>2. h[j] = g[j - 1] /\ h[j - 1] = g[(j - 1) - 1] /\ s[j - 1] = slices[j]
        BY <1>2, <4>1
      <4>3. g[j - 1] = F[<<g[(j - 1) - 1], s[j - 1]>>]
        BY <1>3, <4>1
      <4>4. g[(j - 1) - 1] \in T /\ slices[j] \in T
        BY <1>0, <1>3, <4>1
      <4> HIDE DEF T, h
      <4> QED
        BY <1>1, <3>2, <4>2, <4>3, <4>4
    <3> QED
      BY <3>1, <3>2
  <2> QED
    BY <2>1
<1>5. r = G(r)
  <2> HIDE DEF G, h
  <2> QED
    BY <1>4
<1>6. MergeItems(slices, up) = r[n]
  BY DEF MergeItems, n
<1> HIDE DEF r
<1>7. r[1] = slices[1] /\ \A j \in 2 .. n : r[j] = MergedAll(r[j - 1], slices[j], up)
  BY <1>0, <1>5
<1> DEFINE Y(m) == UNION {All1(slices[j]) : j \in 1 .. m}
           S == {m \in Nat : 1 <= m /\ m <= n => r[m] \in T /\ Holds(r[m], Y(m))}
<1>8. \A j \in 1 .. n : slices[j] \in Seq(Items(M)) /\ All1(slices[j]) \subseteq Items(M)
  <2>1. \A q \in T : q \in Seq(Items(M))
    BY DEF Ordered
  <2> HIDE DEF T
  <2> QED
    BY <1>0, <2>1
<1>9. 0 \in S
  OBVIOUS
<1>10. ASSUME NEW m \in Nat, m \in S PROVE m + 1 \in S
  <2> SUFFICES ASSUME m + 1 <= n PROVE r[m + 1] \in T /\ Holds(r[m + 1], Y(m + 1))
    OBVIOUS
  <2>1. CASE m = 0
    <3>1. Y(m + 1) = All1(slices[1])
      BY <2>1
    <3>2. 1 \in 1 .. n /\ r[m + 1] = slices[1]
      BY <1>0, <1>7, <2>1
    <3>3. \A i \in 1 .. Len(slices[1]) : slices[1][i].mark.ts \in Nat
      BY <1>8, <3>2, ItemFacts
    <3>4. Holds(slices[1], All1(slices[1]))
      BY <3>3 DEF Holds
    <3> HIDE DEF Y, All1, T
    <3> QED
      BY <1>0, <3>1, <3>2, <3>4
  <2>2. CASE m # 0
    <3>1. r[m] \in T /\ Holds(r[m], Y(m)) /\ m + 1 \in 2 .. n /\ m + 1 \in 1 .. n /\ m <= n
      BY <1>0, <1>10, <2>2
    <3>2. r[m + 1] = MergedAll(r[m], slices[m + 1], up)
      <4>1. (m + 1) - 1 = m
        OBVIOUS
      <4> QED
        BY <1>7, <3>1, <4>1
    <3>3. Y(m) \subseteq Items(M)
      <4>1. 1 .. m \subseteq 1 .. n
        BY <1>0, <3>1
      <4> HIDE DEF All1
      <4> QED
        BY <1>8, <4>1
    <3>4. Y(m + 1) = Y(m) \cup All1(slices[m + 1])
      <4>1. 1 .. m + 1 = (1 .. m) \cup {m + 1}
        OBVIOUS
      <4> HIDE DEF All1
      <4> QED
        BY <4>1
    <3>5. slices[m + 1] \in Seq(Items(M))
      BY <1>8, <3>1
    <3> DEFINE q == r[m]
               u == slices[m + 1]
    <3>6. MergedAll(q, u, up) \in T /\ Holds(MergedAll(q, u, up), Y(m) \cup All1(u))
      <4> HIDE DEF Y, q, u
      <4> QED
        BY <3>1, <3>3, <3>5, MergedAllHolds, SMTT(40) DEF q, u
    <3> HIDE DEF Y, All1
    <3> QED
      BY <3>2, <3>4, <3>6
  <2> QED
    BY <2>1, <2>2
<1> HIDE DEF S
<1>11. n \in S
  BY <1>0, <1>9, <1>10, NaturalSetInduction
<1> QED
  BY <1>0, <1>6, <1>11 DEF S, n

(* A finite set of numbers has them in order. *)
Rising(S) ==
  {q \in [1 .. Cardinality(S) -> S] : \A i, j \in DOMAIN q : i < j => q[i] < q[j]}
LEMMA RisingExists ==
  ASSUME NEW U, U \subseteq Nat, IsFiniteSet(U)
  PROVE  Rising(U) # {}
<1> DEFINE S == {n \in Nat : \A T \in SUBSET U : Cardinality(T) = n => Rising(T) # {}}
<1>0. \A T \in SUBSET U : IsFiniteSet(T) /\ Cardinality(T) \in Nat
  BY FS_Subset, FS_CardinalityType
<1>1. 0 \in S
  <2> SUFFICES ASSUME NEW T \in SUBSET U, Cardinality(T) = 0 PROVE Rising(T) # {}
    OBVIOUS
  <2> DEFINE q == [i \in 1 .. 0 |-> i]
  <2>1. q \in Rising(T)
    BY DEF Rising
  <2> QED
    BY <2>1
<1>2. ASSUME NEW n \in Nat, n \in S PROVE n + 1 \in S
  <2> SUFFICES ASSUME NEW T \in SUBSET U, Cardinality(T) = n + 1 PROVE Rising(T) # {}
    OBVIOUS
  <2>1. T # {}
    BY FS_EmptySet
  <2>2. PICK x \in T : \A y \in T : x <= y
    BY <2>1, LeastNatural
  <2> DEFINE V == T \ {x}
  <2>3. V \in SUBSET U /\ Cardinality(V) = n
    <3>1. Cardinality(V) = Cardinality(T) - 1
      BY <1>0, FS_RemoveElement
    <3> QED
      BY <3>1
  <2>4. PICK p \in Rising(V) : TRUE
    BY <1>2, <2>3
  <2>5. p \in [1 .. n -> V] /\ \A i, j \in 1 .. n : i < j => p[i] < p[j]
    BY <2>3, <2>4 DEF Rising
  <2> DEFINE q == [i \in 1 .. n + 1 |-> IF i = 1 THEN x ELSE p[i - 1]]
  <2>6. \A i \in 1 .. n + 1 : i # 1 => i - 1 \in 1 .. n
    OBVIOUS
  <2>7. q \in [1 .. n + 1 -> T]
    BY <2>5, <2>6
  <2>8. ASSUME NEW i \in 1 .. n + 1, NEW j \in 1 .. n + 1, i < j PROVE q[i] < q[j]
    <3>1. j - 1 \in 1 .. n /\ q[j] = p[j - 1] /\ p[j - 1] \in V
      BY <2>5, <2>6, <2>8
    <3>2. CASE i = 1
      <4>1. q[i] = x /\ x <= p[j - 1] /\ x # p[j - 1] /\ x \in Nat /\ p[j - 1] \in Nat
        BY <2>2, <3>1, <3>2
      <4> QED
        BY <3>1, <4>1
    <3>3. CASE i # 1
      <4>1. i - 1 \in 1 .. n /\ q[i] = p[i - 1] /\ i - 1 < j - 1
        BY <2>6, <2>8, <3>3
      <4> QED
        BY <2>5, <3>1, <4>1
    <3> QED
      BY <3>2, <3>3
  <2>9. q \in Rising(T)
    <3> HIDE DEF q
    <3> QED
      BY <2>7, <2>8 DEF Rising
  <2> QED
    BY <2>9
<1> HIDE DEF S
<1>3. Cardinality(U) \in S
  BY <1>0, <1>1, <1>2, NaturalSetInduction
<1> QED
  BY <1>3 DEF S

LEMMA InOrderIs ==
  ASSUME NEW U, U \subseteq Nat, IsFiniteSet(U)
  PROVE  LET q == InOrder(U)
             n == Cardinality(U)
         IN  /\ n \in Nat /\ q \in [1 .. n -> U]
             /\ \A i, j \in 1 .. n : i < j => q[i] < q[j]
             /\ \A x \in U : \E i \in 1 .. n : q[i] = x
<1> DEFINE q == InOrder(U)
           n == Cardinality(U)
<1>1. n \in Nat
  BY FS_CardinalityType
<1>2. q \in [1 .. n -> U] /\ \A i, j \in DOMAIN q : i < j => q[i] < q[j]
  <2>1. \E p \in [1 .. n -> U] : \A i, j \in DOMAIN p : i < j => p[i] < p[j]
    BY RisingExists DEF Rising
  <2> HIDE DEF n
  <2> QED
    BY <2>1 DEF InOrder, n
<1>3. DOMAIN q = 1 .. n
  BY <1>2
<1> HIDE DEF q
<1>4. q \in Injection(1 .. n, U)
  <2>1. ASSUME NEW i \in 1 .. n, NEW j \in 1 .. n, q[i] = q[j] PROVE i = j
    <3>1. q[i] \in Nat /\ q[j] \in Nat
      BY <1>2
    <3>2. ~(i < j) /\ ~(j < i)
      BY <1>2, <1>3, <2>1, <3>1
    <3> QED
      BY <1>1, <3>2
  <2> QED
    BY <1>2, <2>1 DEF Injection, IsInjective
<1>5. q \in Surjection(1 .. n, U)
  <2>1. IsFiniteSet(1 .. n) /\ Cardinality(1 .. n) = n
    BY <1>1, FS_Interval
  <2> QED
    BY <1>4, <2>1, FS_Injection
<1>6. \A x \in U : \E i \in 1 .. n : q[i] = x
  BY <1>5 DEF Surjection
<1> QED
  BY <1>1, <1>2, <1>3, <1>6 DEF q

(* What a node answers. *)
Live(n) == {[key |-> k, mark |-> tree[n][k]] : k \in {x \in Key : tree[n][x].live}}
LEMMA SliceIs ==
  ASSUME Inv, NEW a \in Addr, NEW up \in BOOLEAN
  PROVE  /\ Slice(a, up) \in Ordered(Marks, up)
         /\ {Slice(a, up)[i] : i \in 1 .. Len(Slice(a, up))} = Live(a)
<1> DEFINE U == {k \in Key : tree[a][k].live}
           q == InOrder(U)
           n == Cardinality(U)
           items == [i \in DOMAIN q |-> [key |-> q[i], mark |-> tree[a][q[i]]]]
           r == Slice(a, up)
<1>1. U \subseteq Key /\ U \subseteq Nat /\ IsFiniteSet(U)
  BY DHashAssumption, RemotesAssumption, FS_Subset
<1> HIDE DEF U
<1>2. /\ n \in Nat /\ q \in [1 .. n -> U]
      /\ \A i, j \in 1 .. n : i < j => q[i] < q[j]
      /\ \A x \in U : \E i \in 1 .. n : q[i] = x
  BY <1>1, InOrderIs
<1>3. r = IF up THEN items ELSE Reverse(items)
  BY DEF Slice, U
<1> HIDE DEF q, n, r
<1>4. \A i \in 1 .. n : items[i] = [key |-> q[i], mark |-> tree[a][q[i]]] /\ items[i] \in Items(Marks)
  <2> TAKE i \in 1 .. n
  <2>1. q[i] \in Key /\ tree[a][q[i]] \in Marks
    BY <1>1, <1>2, Facts
  <2>2. items[i] = [key |-> q[i], mark |-> tree[a][q[i]]]
    BY <1>2
  <2> HIDE DEF items
  <2> QED
    BY <2>1, <2>2 DEF Items
<1>5. items \in Seq(Items(Marks)) /\ Len(items) = n
  <2>1. items \in [1 .. n -> Items(Marks)]
    BY <1>2, <1>4
  <2> HIDE DEF items
  <2> QED
    BY <1>2, <2>1
<1> HIDE DEF items
<1>6. \A i \in 1 .. n : items[i].key = q[i] /\ q[i] \in Nat
  <2> TAKE i \in 1 .. n
  <2>1. items[i] = [key |-> q[i], mark |-> tree[a][q[i]]]
    BY <1>4
  <2>3. items[i].key = q[i]
    BY <2>1
  <2>2. q[i] \in Nat
    BY <1>1, <1>2
  <2> QED
    BY <2>2, <2>3
<1>7. {items[i] : i \in 1 .. n} = Live(a)
  <2>1. \A i \in 1 .. n : items[i] \in Live(a)
    BY <1>2, <1>4 DEF Live, U
  <2>2. \A x \in Live(a) : \E i \in 1 .. n : items[i] = x
    <3> TAKE x \in Live(a)
    <3>1. PICK k \in U : x = [key |-> k, mark |-> tree[a][k]]
      BY DEF Live, U
    <3>2. PICK i \in 1 .. n : q[i] = k
      BY <1>2
    <3> QED
      BY <1>4, <3>1, <3>2
  <2> QED
    BY <2>1, <2>2
<1>8. CASE up
  <2>1. r = items
    BY <1>3, <1>8
  <2>2. items \in Ordered(Marks, up)
    BY <1>2, <1>5, <1>6, <1>8 DEF Ordered, Before
  <2> QED
    BY <1>5, <1>7, <2>1, <2>2 DEF r
<1>9. CASE ~up
  <2>1. r = [i \in 1 .. n |-> items[(n - i) + 1]]
    BY <1>3, <1>5, <1>9 DEF Reverse
  <2>2. \A i \in 1 .. n : (n - i) + 1 \in 1 .. n
    BY <1>2
  <2>3. r \in [1 .. n -> Items(Marks)]
    BY <1>4, <2>1, <2>2
  <2>4. r \in Seq(Items(Marks)) /\ Len(r) = n
    BY <1>2, <2>3
  <2>5. \A i \in 1 .. n : r[i] = items[(n - i) + 1]
    BY <2>1
  <2>6. ASSUME NEW i \in 1 .. n, NEW j \in 1 .. n, i < j
        PROVE  Before(r[i].key, r[j].key, up)
    <3>1. (n - j) + 1 \in 1 .. n /\ (n - i) + 1 \in 1 .. n /\ (n - j) + 1 < (n - i) + 1
      BY <1>2, <2>6
    <3>2. q[(n - j) + 1] < q[(n - i) + 1]
      BY <1>2, <3>1
    <3>3. r[i].key = q[(n - i) + 1] /\ r[j].key = q[(n - j) + 1]
      BY <1>6, <2>5, <3>1
    <3>4. q[(n - j) + 1] \in Nat /\ q[(n - i) + 1] \in Nat
      BY <1>6, <3>1
    <3> QED
      BY <1>9, <3>2, <3>3, <3>4 DEF Before
  <2>7. r \in Ordered(Marks, up)
    BY <2>4, <2>6 DEF Ordered
  <2>8. {r[i] : i \in 1 .. n} = {items[i] : i \in 1 .. n}
    <3>1. \A i \in 1 .. n : (n - ((n - i) + 1)) + 1 = i
      BY <1>2
    <3>2. \A i \in 1 .. n : items[i] = r[(n - i) + 1]
      BY <2>2, <2>5, <3>1
    <3> QED
      BY <2>2, <2>5, <3>2
  <2> QED
    BY <1>7, <2>4, <2>7, <2>8 DEF r
<1> QED
  BY <1>8, <1>9
-----------------------------------------------------------------------------
LEMMA MergesRight ==
  ASSUME Inv, Addr # {}
  PROVE  MergesAreRight
<1> SUFFICES ASSUME NEW up \in BOOLEAN
             PROVE  LET slices == [i \in DOMAIN AllNodes |-> Slice(AllNodes[i], up)]
                        merged == MergeItems(slices, up)
                        items == UNION {Range(slices[n]) : n \in DOMAIN slices}
                    IN /\ Range(merged) =
                            {x \in items : \A y \in items : x.key = y.key => y.mark.ts <= x.mark.ts}
                       /\ \A i \in 1 .. Len(merged) - 1 :
                            IF up THEN merged[i].key < merged[i + 1].key
                            ELSE merged[i].key > merged[i + 1].key
  BY DEF MergesAreRight
<1> DEFINE slices == [i \in DOMAIN AllNodes |-> Slice(AllNodes[i], up)]
           merged == MergeItems(slices, up)
           items == UNION {Range(slices[n]) : n \in DOMAIN slices}
           N == Cardinality(Addr)
           M == Marks
           X == UNION {{slices[j][i] : i \in 1 .. Len(slices[j])} : j \in 1 .. Len(slices)}
<1>1. N \in Nat /\ N >= 1 /\ AllNodes \in [1 .. N -> Addr]
  <2>1. Addr \subseteq Nat /\ IsFiniteSet(Addr)
    BY DHashAssumption, RemotesAssumption
  <2>2. N \in Nat /\ AllNodes \in [1 .. N -> Addr]
    BY <2>1, InOrderIs DEF AllNodes
  <2>3. N # 0
    BY <2>1, FS_EmptySet
  <2> QED
    BY <2>2, <2>3
<1>2. Told(M)
  BY DEF Inv, OneMarkPerTime, Told
<1>3. slices \in Seq(Ordered(M, up)) /\ Len(slices) = N /\ DOMAIN slices = 1 .. N
  <2> HIDE DEF N, M
  <2>1. \A i \in 1 .. N : Slice(AllNodes[i], up) \in Ordered(M, up)
    BY <1>1, SliceIs DEF M
  <2>2. slices \in [1 .. N -> Ordered(M, up)]
    BY <1>1, <2>1
  <2> QED
    BY <1>1, <2>2
<1> HIDE DEF slices, N, M
<1>4. merged \in Ordered(M, up) /\ Holds(merged, X)
  <2>1. Len(slices) >= 1
    BY <1>1, <1>3
  <2> QED
    BY <1>2, <1>3, <2>1, MergeItemsHolds
<1>5. \A j \in 1 .. N : slices[j] \in Seq(Items(M)) /\ DOMAIN slices[j] = 1 .. Len(slices[j])
  <2>1. \A j \in 1 .. N : slices[j] \in Seq(Items(M))
    BY <1>1, <1>3 DEF Ordered
  <2> QED
    BY <2>1
<1>6. items = X
  BY <1>3, <1>5 DEF Range
<1>7. X \subseteq Items(M)
  BY <1>3, <1>5
<1> HIDE DEF merged, items, X
<1>8. merged \in Seq(Items(M)) /\ Len(merged) \in Nat /\ DOMAIN merged = 1 .. Len(merged)
  BY <1>4 DEF Ordered
<1> DEFINE l == Len(merged)
<1>9. \A i, j \in 1 .. l : i < j => Before(merged[i].key, merged[j].key, up)
  BY <1>4 DEF Ordered
<1>10. \A i \in 1 .. l : merged[i] \in Items(M) /\ merged[i].key \in Nat /\ merged[i].mark.ts \in Nat
  BY <1>2, <1>8, ItemFacts
<1>11. \A i, j \in 1 .. l : merged[i].key = merged[j].key => i = j
  BY <1>8, <1>9, <1>10 DEF Before
<1>12. ASSUME NEW x \in Range(merged), NEW y \in X, x.key = y.key PROVE y.mark.ts <= x.mark.ts
  <2>1. PICK i \in 1 .. l : x = merged[i]
    BY <1>8 DEF Range
  <2>2. PICK j \in 1 .. l : merged[j].key = y.key /\ y.mark.ts <= merged[j].mark.ts
    BY <1>4 DEF Holds
  <2>3. i = j
    BY <1>11, <1>12, <2>1, <2>2
  <2> QED
    BY <2>1, <2>2, <2>3
<1>13. Range(merged) \subseteq X
  BY <1>4, <1>8 DEF Holds, Range
<1>14. ASSUME NEW x \in X, \A y \in X : x.key = y.key => y.mark.ts <= x.mark.ts
       PROVE  x \in Range(merged)
  <2>1. PICK j \in 1 .. l : merged[j].key = x.key /\ x.mark.ts <= merged[j].mark.ts
    BY <1>4 DEF Holds
  <2>2. merged[j] \in X /\ merged[j] \in Range(merged)
    BY <1>8, <1>13 DEF Range
  <2>3. merged[j].mark.ts <= x.mark.ts
    BY <1>14, <2>1, <2>2
  <2>4. /\ x = [key |-> x.key, mark |-> x.mark] /\ x.mark \in M /\ x.mark.ts \in Nat
        /\ merged[j] = [key |-> merged[j].key, mark |-> merged[j].mark]
        /\ merged[j].mark \in M /\ merged[j].mark.ts \in Nat
    BY <1>2, <1>7, <2>2, ItemFacts
  <2>5. merged[j].mark.ts = x.mark.ts
    BY <2>1, <2>3, <2>4
  <2>6. merged[j].mark = x.mark
    BY <1>2, <2>4, <2>5 DEF Told
  <2>7. merged[j] = x
    BY <2>1, <2>4, <2>6
  <2> QED
    BY <2>2, <2>7
<1>15. Range(merged) = {x \in items : \A y \in items : x.key = y.key => y.mark.ts <= x.mark.ts}
  BY <1>6, <1>12, <1>13, <1>14
<1>16. ASSUME NEW i \in 1 .. l - 1
       PROVE  IF up THEN merged[i].key < merged[i + 1].key ELSE merged[i].key > merged[i + 1].key
  <2>1. i \in 1 .. l /\ i + 1 \in 1 .. l /\ i < i + 1
    BY <1>8
  <2> QED
    BY <1>9, <2>1 DEF Before
<1> QED
  BY <1>15, <1>16 DEF merged, items, slices

(***************************************************************************)
(* In every cluster, at any time: the slices of all nodes merge to the     *)
(* newest value of every key, each once and in order, although the nodes   *)
(* disagree on what a key has and two marks are compared by time only.     *)
(***************************************************************************)
THEOREM MergesAlwaysRight == Spec => []MergesAreRight
<1>1. Init => Addr # {}
  BY DHashAssumption DEF Init, NodeInit, Budget
<1>2. Inv /\ Addr # {} => MergesAreRight
  BY MergesRight
<1> DEFINE Some == Addr # {}
<1>3. Some /\ [Next]_vars => Some'
  OBVIOUS
<1>4. Init => Some
  BY <1>1
<1>5. Inv /\ Some => MergesAreRight
  BY <1>2
<1> HIDE DEF Some
<1> QED
  BY <1>3, <1>4, <1>5, ClientInductive, PTL DEF Spec
=============================================================================
