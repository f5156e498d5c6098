---------------------------- MODULE LoggerProofs ----------------------------
(***************************************************************************)
(* Proofs about Logger, for every set of keys and values, every size of    *)
(* the logfiles and any number of operations, stops and crashes.           *)
(***************************************************************************)
EXTENDS Logger, LogOpsProofs

----------------------------------------------------------------------------
(* The inductive invariant *)

Vals == Value \cup {Nil}
ByteOps == {PutOp(k, Nil, v) : k \in WrittenKey, v \in Value} \cup {DelOp(k, Nil) : k \in WrittenKey}
File == [ts : Nat \ {0}, suffix : {"log", "snap", "unfinished"}, ops : Seq(ByteOps)]
IsData(f) == f.suffix \in {"log", "snap"}

(* Trees without sub trees and configurations. *)
PlainTree == {t \in TreeOf(Vals) : t.conf = Nil /\ t.subs = [k \in Key |-> NoSubTree]}

FilesOK ==
  /\ clock \in Nat \ {0} /\ files \subseteq File /\ IsFiniteSet(files)
  /\ \A f \in files : f.ts < clock
  /\ \A f, g \in files : f.ts = g.ts => f = g

Running == recorder.pc \in {"top", "swap", "select", "encode", "poll"}
RecorderOK ==
  /\ recorder \in [pc : {"none", "top", "swap", "new log", "select", "encode", "poll"},
                   file : Nat, op : Ops \cup {NoOp}]
  /\ IF recorder.pc = "encode" THEN recorder.op \in Ops ELSE recorder.op = NoOp
  /\ state = IF recorder.pc = "none" THEN "stopped" ELSE "recording"
  /\ Running =>
       /\ \E f \in files : f.ts = recorder.file /\ f.suffix = "log"
       /\ \A f \in files : IsData(f) => f.ts <= recorder.file

CallerOK ==
  /\ caller \in [pc : {"idle", "dumping", "stopping", "looking", "locking", "waiting", "stopped",
                       "clearing", "down"},
                 op : Ops \cup {NoOp}, then : {"stop", "clear", "restore"}, todo : SUBSET File]
  /\ recorder.pc = "none" <=>
       caller.pc \in {"looking", "locking", "waiting", "stopped", "clearing", "down"}
  /\ caller.pc = "dumping" => caller.op \in Ops
  /\ caller.pc \in {"idle", "dumping"} => caller.then # "restore"
  /\ caller.pc = "clearing" =>
       caller.then = "clear" /\ {f \in files : IsData(f)} \subseteq caller.todo
  /\ caller.then = "clear" /\ caller.pc \notin {"idle", "dumping"} => tree = EmptyTree

(* The files of Latest that are older than the snapshot being made. *)
Merged == {f \in Latest(files) : f.ts < snapper.ts}

SnapperControl ==
  /\ snapper \in [pc : {"none", "latest", "create", "started", "write", "rename", "clear", "done"},
                  ts : Nat, reads : SUBSET File, todo : SUBSET File]
  /\ snapping = IF snapper.pc = "none" THEN 0 ELSE 1
  /\ snapper.pc \in {"latest", "create", "started"} <=> recorder.pc = "swap"
  /\ caller.pc \in {"stopped", "clearing", "down"} => snapper.pc = "none"
  /\ snapper.pc \in {"write", "rename", "clear", "done"} /\ Running => snapper.ts < recorder.file

SnapperFiles ==
  /\ snapper.pc = "create" => snapper.reads = Latest(files)
  /\ snapper.pc \in {"started", "write"} => snapper.reads = Merged
  /\ snapper.pc \in {"started", "write", "rename"} =>
       /\ \E f \in files : f.ts = snapper.ts /\ f.suffix = "unfinished"
       /\ \A f \in Snapshots(files) : f.ts < snapper.ts
  /\ snapper.pc = "started" => \A f \in files : IsData(f) => f.ts < snapper.ts
  /\ snapper.pc = "rename" =>
       \A f \in files : f.ts = snapper.ts => f.ops = Snapshot(Contents(Merged))
  /\ snapper.pc \in {"clear", "done"} =>
       /\ \E f \in files : f.ts = snapper.ts /\ f.suffix = "snap"
       /\ \A f \in Snapshots(files) : f.ts <= snapper.ts
       /\ {f \in files : IsData(f) /\ f.ts < snapper.ts} \subseteq snapper.todo
       /\ \A f \in snapper.todo : f.ts < snapper.ts
  /\ snapper.pc = "done" => snapper.todo = {}

SnapperOK == SnapperControl /\ SnapperFiles

(* What a restart has to play for nothing to be lost: while the clean-up   *)
(* runs, the new snapshot and the logs after it.                           *)
Needed(F, s) ==
  IF s.pc \in {"clear", "done"}
  THEN {f \in F : f.ts = s.ts \/ (f.suffix = "log" /\ f.ts > s.ts)}
  ELSE Latest(F)
Relevant == Needed(files, snapper)
OnItsWay(t) == Applied(Applied(t, recorder.op), IF caller.pc = "dumping" THEN caller.op ELSE NoOp)

MemoryOK ==
  /\ tree \in PlainTree
  /\ Settled => OnItsWay(Replay(Contents(Relevant))) = tree

Inv == FilesOK /\ RecorderOK /\ CallerOK /\ SnapperOK /\ MemoryOK
----------------------------------------------------------------------------
(* The contents of files, in the order of their timestamps *)

Unique(F) == F \subseteq File /\ \A f, g \in F : f.ts = g.ts => f = g

LEMMA OpsAtLemma ==
  ASSUME NEW F, Unique(F)
  PROVE  /\ \A f \in F : OpsAt(F, f.ts) = f.ops
         /\ \A t : (\A f \in F : f.ts # t) => OpsAt(F, t) = <<>>
         /\ \A t : OpsAt(F, t) \in Seq(ByteOps)
<1>1. ASSUME NEW f \in F PROVE OpsAt(F, f.ts) = f.ops
  BY DEF OpsAt, Unique
<1>2. ASSUME NEW t, \A f \in F : f.ts # t PROVE OpsAt(F, t) = <<>>
  BY <1>2 DEF OpsAt
<1>3. ASSUME NEW t PROVE OpsAt(F, t) \in Seq(ByteOps)
  <2>1. CASE \E f \in F : f.ts = t
    BY <1>1, <2>1 DEF Unique, File
  <2>2. CASE \A f \in F : f.ts # t
    <3>1. <<>> \in Seq(ByteOps)
      OBVIOUS
    <3> QED
      BY <1>2, <2>2, <3>1
  <2> QED
    BY <2>1, <2>2
<1> QED
  BY <1>1, <1>2, <1>3

(* A run of the recursive function in UpTo ends with UpTo. *)
Reading(F, n) ==
  {h \in [0 .. n -> Seq(ByteOps)] :
     h[0] = <<>> /\ \A t \in 1 .. n : h[t] = h[t - 1] \o OpsAt(F, t)}

LEMMA UpToIs ==
  ASSUME NEW F, NEW n \in Nat, NEW h \in Reading(F, n)
  PROVE  UpTo(F, n) = h[n]
<1> DEFINE Run(g) == [t \in 0 .. n |-> IF t = 0 THEN <<>> ELSE g[t - 1] \o OpsAt(F, t)]
           r == CHOOSE g : g = Run(g)
<1>0. /\ h \in [0 .. n -> Seq(ByteOps)] /\ h[0] = <<>>
      /\ \A t \in 1 .. n : h[t] = h[t - 1] \o OpsAt(F, t)
  BY DEF Reading
<1>1. h = Run(h)
  <2>1. ASSUME NEW t \in 0 .. n PROVE h[t] = IF t = 0 THEN <<>> ELSE h[t - 1] \o OpsAt(F, t)
    <3>1. t # 0 => t \in 1 .. n
      OBVIOUS
    <3> QED
      BY <1>0, <3>1
  <2> QED
    BY <1>0, <2>1
<1>2. r = Run(r)
  BY <1>1
<1>3. UpTo(F, n) = r[n]
  BY DEF UpTo
<1> HIDE DEF r
<1> DEFINE S == {i \in Nat : i \in 0 .. n => r[i] = h[i]}
<1>4. 0 \in S
  BY <1>0, <1>2
<1>5. ASSUME NEW i \in Nat, i \in S PROVE i + 1 \in S
  <2> SUFFICES ASSUME i + 1 \in 0 .. n PROVE r[i + 1] = h[i + 1]
    OBVIOUS
  <2>1. i \in 0 .. n /\ i + 1 \in 1 .. n /\ (i + 1) - 1 = i /\ i + 1 # 0
    OBVIOUS
  <2>2. r[i + 1] = r[i] \o OpsAt(F, i + 1)
    BY <1>2, <2>1
  <2>3. h[i + 1] = h[i] \o OpsAt(F, i + 1)
    BY <1>0, <2>1
  <2> QED
    BY <1>5, <2>1, <2>2, <2>3
<1> HIDE DEF S
<1>6. \A i \in Nat : i \in S
  BY <1>4, <1>5, NaturalSetInduction
<1>7. r[n] = h[n]
  BY <1>6 DEF S
<1> QED
  BY <1>3, <1>7

LEMMA UpToLemma ==
  ASSUME NEW F, Unique(F)
  PROVE  /\ UpTo(F, 0) = <<>>
         /\ \A n \in Nat : UpTo(F, n) \in Seq(ByteOps)
         /\ \A n \in Nat : UpTo(F, n + 1) = UpTo(F, n) \o OpsAt(F, n + 1)
<1> DEFINE T == Seq(ByteOps)
           G == [x \in T \X T |-> x[1] \o x[2]]
<1>1. G \in [T \X T -> T] /\ \A a \in T, b \in T : G[<<a, b>>] = a \o b
  BY ConcatProperties
<1> HIDE DEF G
<1>2. ASSUME NEW n \in Nat PROVE Reading(F, n) # {}
  <2> DEFINE s == [t \in 1 .. n |-> OpsAt(F, t)]
  <2>1. s \in Seq(T) /\ Len(s) = n /\ \A t \in 1 .. n : s[t] = OpsAt(F, t) /\ s[t] \in T
    BY OpsAtLemma
  <2> HIDE DEF s
  <2>2. <<>> \in T
    OBVIOUS
  <2> HIDE DEF T
  <2>3. RunsOf(T, G, <<>>, s) # {}
    BY <1>1, <2>1, <2>2, RunExists
  <2>4. PICK h \in [0 .. n -> T] : h[0] = <<>> /\ \A t \in 1 .. n : h[t] = G[<<h[t - 1], s[t]>>]
    BY <2>1, <2>3 DEF RunsOf
  <2>5. ASSUME NEW t \in 1 .. n PROVE h[t] = h[t - 1] \o OpsAt(F, t)
    <3>1. t - 1 \in 0 .. n
      OBVIOUS
    <3>2. h[t - 1] \in T
      BY <2>4, <3>1
    <3> QED
      BY <1>1, <2>1, <2>4, <3>2
  <2> QED
    BY <2>4, <2>5 DEF Reading, T
<1>3. UpTo(F, 0) = <<>>
  <2>1. PICK h \in Reading(F, 0) : TRUE
    BY <1>2
  <2> QED
    BY <2>1, UpToIs DEF Reading
<1>4. ASSUME NEW n \in Nat
      PROVE  UpTo(F, n) \in T /\ UpTo(F, n + 1) = UpTo(F, n) \o OpsAt(F, n + 1)
  <2>0. n + 1 \in Nat
    OBVIOUS
  <2>1. PICK h \in Reading(F, n + 1) : TRUE
    BY <1>2, <2>0
  <2>2. UpTo(F, n + 1) = h[n + 1]
    BY <2>0, <2>1, UpToIs
  <2>3. /\ h \in [0 .. n + 1 -> T] /\ h[0] = <<>>
        /\ \A t \in 1 .. n + 1 : h[t] = h[t - 1] \o OpsAt(F, t)
    BY <2>1 DEF Reading
  <2> DEFINE k == [t \in 0 .. n |-> h[t]]
  <2>4. k \in [0 .. n -> T] /\ k[0] = <<>> /\ k[n] = h[n] /\ h[n] \in T
    BY <2>3
  <2>5. ASSUME NEW t \in 1 .. n PROVE k[t] = k[t - 1] \o OpsAt(F, t)
    <3>1. t \in 0 .. n /\ t - 1 \in 0 .. n /\ t \in 1 .. n + 1
      OBVIOUS
    <3>2. k[t] = h[t] /\ k[t - 1] = h[t - 1]
      BY <3>1
    <3> QED
      BY <2>3, <3>1, <3>2
  <2> HIDE DEF k
  <2>6. k \in Reading(F, n)
    BY <2>4, <2>5 DEF Reading
  <2>7. UpTo(F, n) = k[n]
    BY <2>6, UpToIs
  <2>8. h[n + 1] = h[n] \o OpsAt(F, n + 1)
    <3>1. n + 1 \in 1 .. n + 1 /\ (n + 1) - 1 = n
      OBVIOUS
    <3> QED
      BY <2>3, <3>1
  <2> QED
    BY <2>2, <2>4, <2>7, <2>8
<1> QED
  BY <1>3, <1>4

(* Only the operations at the timestamps matter, *)
LEMMA SameContents ==
  ASSUME NEW F, NEW G, Unique(F), Unique(G), \A t \in Nat : OpsAt(F, t) = OpsAt(G, t)
  PROVE  \A n \in Nat : UpTo(F, n) = UpTo(G, n)
<1> DEFINE S == {n \in Nat : UpTo(F, n) = UpTo(G, n)}
<1>1. 0 \in S
  BY UpToLemma
<1>2. ASSUME NEW n \in Nat, n \in S PROVE n + 1 \in S
  <2>1. UpTo(F, n + 1) = UpTo(F, n) \o OpsAt(F, n + 1)
    BY UpToLemma
  <2>2. UpTo(G, n + 1) = UpTo(G, n) \o OpsAt(G, n + 1)
    BY UpToLemma
  <2> QED
    BY <1>2, <2>1, <2>2
<1> HIDE DEF S
<1>3. \A n \in Nat : n \in S
  BY <1>1, <1>2, NaturalSetInduction
<1> QED
  BY <1>3 DEF S

(* and older files come before newer ones. *)
Before(A, B, p) == (\A f \in A : f.ts <= p) /\ (\A f \in B : f.ts > p)
LEMMA SplitContents ==
  ASSUME NEW A, NEW B, NEW p \in Nat, Unique(A), Unique(B), Before(A, B, p)
  PROVE  /\ Unique(A \cup B)
         /\ \A n \in Nat : UpTo(A \cup B, n) = UpTo(A, n) \o UpTo(B, n)
<1> DEFINE F == A \cup B
<1>0. (\A f \in A : f.ts <= p) /\ (\A f \in B : f.ts > p)
  BY DEF Before
<1>1. Unique(F)
  BY <1>0 DEF Unique, File
<1>2. ASSUME NEW t \in Nat, t <= p PROVE OpsAt(F, t) = OpsAt(A, t) /\ OpsAt(B, t) = <<>>
  <2>1. \A f \in B : f.ts # t
    BY <1>0, <1>2 DEF Unique, File
  <2>2. OpsAt(B, t) = <<>>
    BY <2>1, OpsAtLemma
  <2>3. CASE \E f \in A : f.ts = t
    BY <1>1, <2>2, <2>3, OpsAtLemma
  <2>4. CASE \A f \in A : f.ts # t
    BY <1>1, <2>1, <2>2, <2>4, OpsAtLemma
  <2> QED
    BY <2>3, <2>4
<1>3. ASSUME NEW t \in Nat, t > p PROVE OpsAt(F, t) = OpsAt(B, t) /\ OpsAt(A, t) = <<>>
  <2>1. \A f \in A : f.ts # t
    BY <1>0, <1>3 DEF Unique, File
  <2>2. OpsAt(A, t) = <<>>
    BY <2>1, OpsAtLemma
  <2>3. CASE \E f \in B : f.ts = t
    BY <1>1, <2>2, <2>3, OpsAtLemma
  <2>4. CASE \A f \in B : f.ts # t
    BY <1>1, <2>1, <2>2, <2>4, OpsAtLemma
  <2> QED
    BY <2>3, <2>4
<1> HIDE DEF F
<1> DEFINE S == {n \in Nat : UpTo(F, n) = UpTo(A, n) \o UpTo(B, n) /\ (n <= p => UpTo(B, n) = <<>>)}
<1>4. 0 \in S
  BY <1>1, UpToLemma, ConcatEmptySeq
<1>5. ASSUME NEW n \in Nat, n \in S PROVE n + 1 \in S
  <2> DEFINE a == UpTo(A, n)
             b == UpTo(B, n)
  <2>0. UpTo(F, n) = a \o b /\ (n <= p => b = <<>>)
    BY <1>5
  <2>1. /\ a \in Seq(ByteOps) /\ b \in Seq(ByteOps) /\ n + 1 \in Nat
        /\ OpsAt(A, n + 1) \in Seq(ByteOps) /\ OpsAt(B, n + 1) \in Seq(ByteOps)
        /\ UpTo(A, n + 1) = a \o OpsAt(A, n + 1)
        /\ UpTo(B, n + 1) = b \o OpsAt(B, n + 1)
        /\ UpTo(F, n + 1) = (a \o b) \o OpsAt(F, n + 1)
    <3>1. OpsAt(A, n + 1) \in Seq(ByteOps) /\ OpsAt(B, n + 1) \in Seq(ByteOps)
      BY OpsAtLemma
    <3>2. a \in Seq(ByteOps) /\ UpTo(A, n + 1) = a \o OpsAt(A, n + 1)
      BY UpToLemma
    <3>3. b \in Seq(ByteOps) /\ UpTo(B, n + 1) = b \o OpsAt(B, n + 1)
      BY UpToLemma
    <3>4. UpTo(F, n + 1) = UpTo(F, n) \o OpsAt(F, n + 1)
      BY <1>1, UpToLemma
    <3>5. n + 1 \in Nat
      OBVIOUS
    <3>6. UpTo(F, n + 1) = (a \o b) \o OpsAt(F, n + 1)
      BY <2>0, <3>4, Zenon
    <3> QED
      BY <3>1, <3>2, <3>3, <3>5, <3>6, Zenon
  <2> HIDE DEF a, b
  <2>2. CASE n + 1 <= p
    <3>1. b = <<>> /\ OpsAt(F, n + 1) = OpsAt(A, n + 1) /\ OpsAt(B, n + 1) = <<>>
      BY <1>2, <2>0, <2>1, <2>2
    <3>2. UpTo(B, n + 1) = <<>> /\ UpTo(F, n + 1) = UpTo(A, n + 1)
      BY <2>1, <3>1, ConcatEmptySeq
    <3>3. UpTo(A, n + 1) \in Seq(ByteOps)
      BY <2>1, UpToLemma
    <3>4. UpTo(F, n + 1) = UpTo(A, n + 1) \o UpTo(B, n + 1)
      BY <3>2, <3>3, ConcatEmptySeq
    <3> QED
      BY <2>1, <3>2, <3>4
  <2>3. CASE n + 1 > p
    <3>1. OpsAt(F, n + 1) = OpsAt(B, n + 1) /\ OpsAt(A, n + 1) = <<>> /\ ~(n + 1 <= p)
      BY <1>3, <2>1, <2>3
    <3>2. UpTo(A, n + 1) = a
      BY <2>1, <3>1, ConcatEmptySeq
    <3>3. (a \o b) \o OpsAt(B, n + 1) = a \o (b \o OpsAt(B, n + 1))
      BY <2>1, ConcatAssociative, SMTT(30)
    <3> QED
      BY <2>1, <3>1, <3>2, <3>3
  <2> QED
    BY <2>1, <2>2, <2>3
<1> HIDE DEF S
<1>6. \A n \in Nat : n \in S
  BY <1>4, <1>5, NaturalSetInduction
<1> QED
  BY <1>1, <1>6 DEF S, F

(* A single file. *)
LEMMA OneFile ==
  ASSUME NEW f \in File, NEW n \in Nat, f.ts <= n
  PROVE  Unique({f}) /\ UpTo({f}, n) = f.ops
<1>1. Unique({f}) /\ f.ts \in Nat /\ f.ts # 0 /\ f.ops \in Seq(ByteOps)
  BY DEF Unique, File
<1> DEFINE F == {f}
           S == {m \in Nat : /\ m < f.ts => UpTo(F, m) = <<>>
                             /\ m >= f.ts => UpTo(F, m) = f.ops}
<1>2. Unique(F) /\ \A h \in F : h = f
  BY <1>1
<1>3. \A t : OpsAt(F, t) = IF t = f.ts THEN f.ops ELSE <<>>
  BY <1>2, OpsAtLemma
<1> HIDE DEF F
<1>4. UpTo(F, 0) = <<>> /\ \A m \in Nat : UpTo(F, m + 1) = UpTo(F, m) \o OpsAt(F, m + 1)
  BY <1>2, UpToLemma
<1>5. 0 \in S
  <2>1. 0 < f.ts /\ ~(0 >= f.ts)
    BY <1>1
  <2> QED
    BY <1>4, <2>1
<1>6. ASSUME NEW m \in Nat, m \in S PROVE m + 1 \in S
  <2>1. UpTo(F, m + 1) = UpTo(F, m) \o OpsAt(F, m + 1)
    BY <1>4
  <2>2. <<>> \in Seq(ByteOps) /\ \A q \in Seq(ByteOps) : <<>> \o q = q /\ q \o <<>> = q
    BY ConcatEmptySeq
  <2>3. CASE m + 1 < f.ts
    <3>1. m < f.ts /\ m + 1 # f.ts /\ ~(m + 1 >= f.ts)
      BY <1>1, <2>3
    <3>2. UpTo(F, m + 1) = <<>>
      BY <1>3, <1>6, <2>1, <2>2, <3>1
    <3> QED
      BY <3>1, <3>2
  <2>4. CASE m + 1 = f.ts
    <3>1. m < f.ts /\ ~(m + 1 < f.ts)
      BY <1>1, <2>4
    <3>2. UpTo(F, m + 1) = f.ops
      BY <1>1, <1>3, <1>6, <2>1, <2>2, <2>4, <3>1
    <3> QED
      BY <3>1, <3>2
  <2>5. CASE m + 1 > f.ts
    <3>1. m >= f.ts /\ m + 1 # f.ts /\ ~(m + 1 < f.ts)
      BY <1>1, <2>5
    <3>2. UpTo(F, m + 1) = f.ops
      BY <1>1, <1>3, <1>6, <2>1, <2>2, <3>1
    <3> QED
      BY <3>1, <3>2
  <2> QED
    BY <1>1, <2>3, <2>4, <2>5
<1> HIDE DEF S
<1>7. n \in S
  BY <1>5, <1>6, NaturalSetInduction
<1> QED
  BY <1>1, <1>7 DEF S, F

(* The last file. *)
LEMMA LastContents ==
  ASSUME NEW A, NEW f \in File, NEW n \in Nat,
         Unique(A), \A h \in A : h.ts < f.ts, f.ts <= n
  PROVE  Unique(A \cup {f}) /\ UpTo(A \cup {f}, n) = UpTo(A, n) \o f.ops
<1>1. f.ts \in Nat \ {0} /\ \A h \in A : h.ts \in Nat
  BY DEF File, Unique
<1>2. PICK p \in Nat : f.ts = p + 1
  <2>1. f.ts - 1 \in Nat /\ f.ts = (f.ts - 1) + 1
    BY <1>1
  <2> QED
    BY <2>1
<1>3. \A h \in A : h.ts <= p
  BY <1>1, <1>2
<1> DEFINE B == {f}
<1>4. Unique(B) /\ UpTo(B, n) = f.ops
  BY OneFile
<1>5. \A h \in B : h.ts > p
  BY <1>2
<1> HIDE DEF B
<1>6. Before(A, B, p)
  BY <1>3, <1>5 DEF Before
<1>7. Unique(A \cup B) /\ \A m \in Nat : UpTo(A \cup B, m) = UpTo(A, m) \o UpTo(B, m)
  BY <1>4, <1>6, SplitContents, ZenonT(60)
<1> QED
  BY <1>4, <1>7 DEF B

(* A file that is new and empty. *)
LEMMA NewContents ==
  ASSUME NEW A, NEW f \in File, NEW n \in Nat,
         Unique(A), \A h \in A : h.ts # f.ts, f.ops = <<>>
  PROVE  Unique(A \cup {f}) /\ UpTo(A \cup {f}, n) = UpTo(A, n)
<1>1. Unique(A \cup {f})
  BY DEF Unique
<1>2. ASSUME NEW t \in Nat PROVE OpsAt(A \cup {f}, t) = OpsAt(A, t)
  <2>1. CASE t = f.ts
    <3>1. OpsAt(A, t) = <<>>
      BY <2>1, OpsAtLemma
    <3>2. OpsAt(A \cup {f}, f.ts) = f.ops
      BY <1>1, OpsAtLemma
    <3> QED
      BY <2>1, <3>1, <3>2
  <2>2. CASE \E h \in A : h.ts = t
    BY <1>1, <2>2, OpsAtLemma
  <2>3. CASE \A h \in A \cup {f} : h.ts # t
    BY <1>1, <2>3, OpsAtLemma
  <2> QED
    BY <2>1, <2>2, <2>3
<1> QED
  BY <1>1, <1>2, SameContents

(* When the clock advances, what was written stays what is read. *)
LEMMA LaterContents ==
  ASSUME NEW F, NEW n \in Nat, Unique(F), \A f \in F : f.ts # n + 1
  PROVE  UpTo(F, n + 1) = UpTo(F, n)
<1>1. OpsAt(F, n + 1) = <<>>
  BY OpsAtLemma
<1>2. UpTo(F, n + 1) = UpTo(F, n) \o <<>> /\ UpTo(F, n) \in Seq(ByteOps)
  BY <1>1, UpToLemma
<1> QED
  BY <1>2, ConcatEmptySeq
----------------------------------------------------------------------------
(* What the tree and the log hold: byte values only *)

LEMMA ByteOpsLemma ==
  /\ Nil \in Vals /\ ByteOps \subseteq Loggable(Vals)
  /\ \A op \in ByteOps : /\ ~op.conf /\ op.clear = "no" /\ op.sub = Nil /\ op.key \in WrittenKey
                         /\ op.val \in Vals /\ (op.put \/ op.val = Nil) /\ (op.put \in BOOLEAN)
<1>1. Nil \in WrittenSub /\ Value \subseteq Vals
  BY DEF WrittenSub, Vals
<1>2. ByteOps \subseteq Loggable(Vals)
  BY <1>1 DEF ByteOps, Loggable
<1>3. ASSUME NEW op \in ByteOps
      PROVE  /\ ~op.conf /\ op.clear = "no" /\ op.sub = Nil /\ op.key \in WrittenKey
             /\ op.val \in Vals /\ (op.put \/ op.val = Nil) /\ (op.put \in BOOLEAN)
  <2>1. CASE \E k \in WrittenKey, v \in Value : op = PutOp(k, Nil, v)
    BY <2>1 DEF PutOp, Vals
  <2>2. CASE \E k \in WrittenKey : op = DelOp(k, Nil)
    BY <2>2 DEF DelOp, Vals
  <2> QED
    BY <2>1, <2>2 DEF ByteOps
<1> QED
  BY <1>2, <1>3 DEF Vals

(* An operation on the tree and what is written of it do the same. *)
LEMMA OpsLemma ==
  ASSUME NEW op \in Ops
  PROVE  /\ op # NoOp /\ Written(op) \in ByteOps
         /\ \A t : Restore(t, op) = Restore(t, Written(op))
<1>0. OrNil(Nil) = Nil
  BY DEF OrNil
<1>1. CASE \E k \in Key, v \in Value : op = PutOp(k, Nil, v)
  <2>1. PICK k \in Key, v \in Value : op = PutOp(k, Nil, v)
    BY <1>1
  <2>2. Written(op) = PutOp(OrNil(k), Nil, v)
    BY <1>0, <2>1, WrittenLemma
  <2>3. OrNil(k) \in WrittenKey /\ KeyOf(OrNil(k)) = k /\ k # Nil
    BY KeyLemma
  <2>4. op # NoOp
    BY <2>1 DEF NoOp, PutOp, ConfOp
  <2>5. ASSUME NEW t PROVE Restore(t, op) = Restore(t, Written(op))
    <3>1. Restore(t, op) = Put(t, k, v)
      BY <2>1, <2>3 DEF Restore, PutOp
    <3>2. Restore(t, Written(op)) = Put(t, KeyOf(OrNil(k)), v)
      BY <2>2 DEF Restore, PutOp, KeyOf
    <3> QED
      BY <2>3, <3>1, <3>2
  <2> QED
    BY <2>2, <2>3, <2>4, <2>5 DEF ByteOps
<1>2. CASE \E k \in Key : op = DelOp(k, Nil)
  <2>1. PICK k \in Key : op = DelOp(k, Nil)
    BY <1>2
  <2>2. Written(op) = DelOp(OrNil(k), Nil)
    BY <1>0, <2>1, WrittenLemma
  <2>3. OrNil(k) \in WrittenKey /\ KeyOf(OrNil(k)) = k /\ k # Nil
    BY KeyLemma
  <2>4. op # NoOp
    BY <2>1 DEF NoOp, DelOp, ConfOp
  <2>5. ASSUME NEW t PROVE Restore(t, op) = Restore(t, Written(op))
    <3>1. Restore(t, op) = Del(t, k)
      BY <2>1, <2>3 DEF Restore, DelOp
    <3>2. Restore(t, Written(op)) = Del(t, KeyOf(OrNil(k)))
      BY <2>2 DEF Restore, DelOp, KeyOf
    <3> QED
      BY <2>3, <3>1, <3>2
  <2> QED
    BY <2>2, <2>3, <2>4, <2>5 DEF ByteOps
<1> QED
  BY <1>1, <1>2 DEF Ops

LEMMA PlainRestore ==
  ASSUME NEW t \in PlainTree
  PROVE  /\ \A op \in ByteOps : Restore(t, op) \in PlainTree
         /\ \A op \in Ops : Restore(t, op) \in PlainTree
<1>1. ASSUME NEW op \in ByteOps PROVE Restore(t, op) \in PlainTree
  <2>1. Nil \in Vals /\ op \in Loggable(Vals) /\ t \in TreeOf(Vals)
    BY ByteOpsLemma DEF PlainTree
  <2>2. Restore(t, op) \in TreeOf(Vals)
    BY <2>1, RestoreLemma
  <2>3. ~op.conf /\ op.clear = "no" /\ op.sub = Nil /\ (op.put \/ op.val = Nil) /\ (op.put \in BOOLEAN)
    BY ByteOpsLemma
  <2>4. Restore(t, op) = Put(t, KeyOf(op.key), op.val)
    <3>1. CASE op.put
      BY <2>3, <3>1 DEF Restore, KeyOf
    <3>2. CASE ~op.put
      BY <2>3, <3>2 DEF Restore, KeyOf, Del, Put
    <3> QED
      BY <3>1, <3>2
  <2>5. Put(t, KeyOf(op.key), op.val).conf = t.conf /\ Put(t, KeyOf(op.key), op.val).subs = t.subs
    BY <2>1 DEF Put, TreeOf
  <2> QED
    BY <2>2, <2>4, <2>5 DEF PlainTree
<1> QED
  BY <1>1, OpsLemma

LEMMA PlainReplay ==
  /\ EmptyTree \in PlainTree
  /\ \A ops \in Seq(ByteOps) : Replay(ops) \in PlainTree
<1>1. EmptyTree \in PlainTree /\ EmptyTree \in TreeOf(Vals)
  BY ByteOpsLemma, EmptyTreeLemma DEF PlainTree, EmptyTree
<1>2. ASSUME NEW ops \in Seq(ByteOps) PROVE Replay(ops) \in PlainTree
  <2> DEFINE n == Len(ops)
  <2>1. Nil \in Vals /\ ops \in Seq(Loggable(Vals)) /\ n \in Nat /\ \A i \in 1 .. n : ops[i] \in ByteOps
    BY ByteOpsLemma, SeqMonotonic
  <2>2. PICK g \in [0 .. n -> TreeOf(Vals)] :
          /\ g[0] = EmptyTree /\ \A i \in 1 .. n : g[i] = Restore(g[i - 1], ops[i])
          /\ Replayed(EmptyTree, ops) = g[n]
    BY <1>1, <2>1, ReplayRun
  <2> HIDE DEF n
  <2> DEFINE S == {i \in Nat : i \in 0 .. n => g[i] \in PlainTree}
  <2>3. 0 \in S
    BY <1>1, <2>2
  <2>4. ASSUME NEW i \in Nat, i \in S PROVE i + 1 \in S
    <3> SUFFICES ASSUME i + 1 \in 0 .. n PROVE g[i + 1] \in PlainTree
      OBVIOUS
    <3>1. i \in 0 .. n /\ i + 1 \in 1 .. n /\ (i + 1) - 1 = i
      BY <2>1
    <3>2. g[i] \in PlainTree /\ ops[i + 1] \in ByteOps /\ g[i + 1] = Restore(g[i], ops[i + 1])
      BY <2>1, <2>2, <2>4, <3>1
    <3> QED
      BY <3>2, PlainRestore
  <2> HIDE DEF S
  <2>5. n \in S
    BY <2>1, <2>3, <2>4, NaturalSetInduction
  <2> QED
    BY <2>1, <2>2, <2>5 DEF S, Replay
<1> QED
  BY <1>1, <1>2

(* Such trees are told apart by their data. *)
LEMMA PlainEqual ==
  ASSUME NEW t \in PlainTree, NEW u \in PlainTree, SameData(t, u)
  PROVE  t = u
<1>1. /\ t \in TreeOf(Vals) /\ t.conf = u.conf /\ t.subs = u.subs
      /\ u \in TreeOf(Vals)
  BY DEF PlainTree
<1>2. ASSUME NEW k \in Key PROVE t.bytes[k] = u.bytes[k]
  <2>1. OrNil(k) \in WrittenKey /\ KeyOf(OrNil(k)) = k /\ Nil \in WrittenSub
    BY KeyLemma
  <2>2. At(t, OrNil(k), Nil) = At(u, OrNil(k), Nil)
    BY <2>1 DEF SameData
  <2> QED
    BY <2>1, <2>2 DEF At
<1>3. t.bytes \in [Key -> Vals] /\ u.bytes \in [Key -> Vals]
  BY <1>1 DEF TreeOf
<1>4. t.bytes = u.bytes
  BY <1>2, <1>3
<1> QED
  BY <1>1, <1>4 DEF TreeOf

(* An operation more in the log is an operation more on the tree. *)
LEMMA ReplayOneMore ==
  ASSUME NEW ops \in Seq(ByteOps), NEW op \in ByteOps
  PROVE  Replay(Append(ops, op)) = Restore(Replay(ops), op)
<1>1. Nil \in Vals /\ ops \in Seq(Loggable(Vals)) /\ op \in Loggable(Vals)
  BY ByteOpsLemma, SeqMonotonic
<1>2. EmptyTree \in TreeOf(Vals)
  BY <1>1, EmptyTreeLemma
<1> QED
  BY <1>1, <1>2, ReplayLemma DEF Replay

(* A snapshot in the place of what it was made of changes nothing. *)
LEMMA ReplaySnapshot ==
  ASSUME NEW a \in Seq(ByteOps), NEW b \in Seq(ByteOps)
  PROVE  /\ Snapshot(a) \in Seq(ByteOps)
         /\ Replay(Snapshot(a) \o b) = Replay(a \o b)
<1>1. /\ Nil \in Vals /\ ByteOps \subseteq Loggable(Vals)
      /\ a \in Seq(Loggable(Vals)) /\ b \in Seq(Loggable(Vals))
  BY ByteOpsLemma, SeqMonotonic
<1>2. Snapshot(a) \in Seq(ByteOps)
  BY <1>1, SnapshotMembers
<1>3. SameData(Replay(Snapshot(a) \o b), Replay(a \o b))
  BY <1>1, SnapshotAndRest
<1>4. Snapshot(a) \o b \in Seq(ByteOps) /\ a \o b \in Seq(ByteOps)
  BY <1>2, ConcatProperties
<1>5. Replay(Snapshot(a) \o b) \in PlainTree /\ Replay(a \o b) \in PlainTree
  BY <1>4, PlainReplay
<1> QED
  BY <1>2, <1>3, <1>5, PlainEqual
----------------------------------------------------------------------------
(* Which files are played *)

(* Only the logs and the snapshots matter to Latest. *)
Data(F) == {f \in F : IsData(f)}

LEMMA LatestData ==
  ASSUME NEW F, NEW G, Data(F) = Data(G)
  PROVE  Latest(F) = Latest(G) /\ Snapshots(F) = Snapshots(G) /\ Latest(F) \subseteq Data(F)
<1>1. \A f : f \in F /\ IsData(f) <=> f \in G /\ IsData(f)
  BY DEF Data
<1>2. Snapshots(F) = Snapshots(G) /\ Snapshots(F) \subseteq Data(F)
  BY <1>1 DEF Snapshots, IsData, Data
<1> HIDE DEF Snapshots
<1> QED
  BY <1>1, <1>2 DEF Latest, IsData, Data, Snapshots

(* The newest log is played last. *)
LEMMA LatestLog ==
  ASSUME NEW A, NEW f, A \subseteq File, f \in File, f.suffix = "log",
         \A h \in A : IsData(h) => h.ts < f.ts
  PROVE  Latest(A \cup {f}) = Latest(A) \cup {f}
<1> DEFINE B == A \cup {f}
           first == {s \in Snapshots(A) : \A o \in Snapshots(A) : s.ts <= o.ts}
<1>1. Snapshots(B) = Snapshots(A)
  BY DEF Snapshots
<1>2. \A s \in first : s.ts < f.ts
  BY DEF Snapshots, IsData
<1>3. Latest(A) = first \cup {h \in A : h.suffix = "log" /\ \A s \in first : s.ts < h.ts}
  BY DEF Latest
<1>4. Latest(B) = first \cup {h \in B : h.suffix = "log" /\ \A s \in first : s.ts < h.ts}
  BY <1>1 DEF Latest
<1> HIDE DEF first
<1> QED
  BY <1>2, <1>3, <1>4

LEMMA NeededLog ==
  ASSUME NEW A, NEW f, NEW s, A \subseteq File, f \in File, f.suffix = "log",
         \A h \in A : IsData(h) => h.ts < f.ts,
         s.pc \in {"clear", "done"} => s.ts \in Nat /\ s.ts < f.ts
  PROVE  /\ Needed(A \cup {f}, s) = Needed(A, s) \cup {f}
         /\ Needed(A, s) \subseteq A
         /\ \A h \in Needed(A, s) : h.ts < f.ts
<1>0. Latest(A) \subseteq Data(A)
  BY LatestData
<1>1. CASE s.pc \in {"clear", "done"}
  <2>1. \A h \in A : h.suffix = "log" => h.ts < f.ts
    BY DEF IsData
  <2>2. f.ts \in Nat
    BY DEF File
  <2> QED
    BY <1>1, <2>1, <2>2 DEF Needed
<1>2. CASE s.pc \notin {"clear", "done"}
  <2>1. Needed(A, s) = Latest(A) /\ Needed(A \cup {f}, s) = Latest(A \cup {f})
    BY <1>2 DEF Needed
  <2>2. Latest(A \cup {f}) = Latest(A) \cup {f}
    BY LatestLog
  <2> QED
    BY <1>0, <2>1, <2>2 DEF Data
<1> QED
  BY <1>1, <1>2
----------------------------------------------------------------------------
(* One step *)

(* The files that the recorder and the snapshot work on. *)
LEMMA CurrentLemma ==
  ASSUME FilesOK, RecorderOK, Running
  PROVE  /\ Current \in files /\ Current.ts = recorder.file /\ Current.suffix = "log"
         /\ \A f \in files \ {Current} : IsData(f) => f.ts < Current.ts
<1>1. PICK f \in files : f.ts = recorder.file /\ f.suffix = "log"
  BY DEF RecorderOK
<1>2. Current = f
  BY <1>1 DEF Current, FilesOK
<1>3. ASSUME NEW h \in files \ {Current}, IsData(h) PROVE h.ts < Current.ts
  <2>1. h.ts <= recorder.file /\ h.ts # f.ts
    BY <1>1, <1>2, <1>3 DEF RecorderOK, FilesOK
  <2>2. h.ts \in Nat /\ f.ts \in Nat
    BY DEF FilesOK, File
  <2> QED
    BY <1>1, <1>2, <2>1, <2>2
<1> QED
  BY <1>1, <1>2, <1>3

LEMMA UnfinishedLemma ==
  ASSUME FilesOK, SnapperOK, snapper.pc \in {"started", "write", "rename"}
  PROVE  /\ Unfinished \in files /\ Unfinished.ts = snapper.ts
         /\ Unfinished.suffix = "unfinished"
<1>1. PICK f \in files : f.ts = snapper.ts /\ f.suffix = "unfinished"
  BY DEF SnapperOK, SnapperFiles
<1> QED
  BY <1>1 DEF Unfinished, FilesOK

(* Contents of a set of files. *)
LEMMA ContentsLemma ==
  ASSUME FilesOK, NEW F, F \subseteq files
  PROVE  Unique(F) /\ Contents(F) \in Seq(ByteOps) /\ UpTo(F, clock + 1) = UpTo(F, clock)
<1>1. Unique(F) /\ clock \in Nat
  BY DEF FilesOK, Unique
<1>2. Contents(F) \in Seq(ByteOps)
  BY <1>1, UpToLemma DEF Contents
<1>3. \A f \in F : f.ts # clock + 1
  BY DEF FilesOK, File
<1> QED
  BY <1>1, <1>2, <1>3, LaterContents

LEMMA InvInit == Init => Inv
<1> SUFFICES ASSUME Init PROVE Inv
  OBVIOUS
<1> DEFINE f == [ts |-> 1, suffix |-> "log", ops |-> <<>>]
<1>1. f \in File /\ f.ts = 1 /\ f.suffix = "log" /\ f.ops = <<>> /\ files = {f}
  BY DEF File, Init
<1> HIDE DEF f
<1>2. FilesOK
  <2>1. IsFiniteSet(files)
    BY <1>1, FS_Singleton
  <2>2. clock = 2
    BY DEF Init
  <2> QED
    BY <1>1, <2>1, <2>2 DEF FilesOK
<1>3. RecorderOK
  <2>1. /\ \E g \in files : g.ts = 1 /\ g.suffix = "log"
        /\ \A g \in files : g.ts <= 1
    BY <1>1
  <2>2. recorder = [pc |-> "top", file |-> 1, op |-> NoOp] /\ state = "recording"
    BY DEF Init
  <2> QED
    BY <2>1, <2>2 DEF RecorderOK, Running
<1>4. CallerOK
  BY <1>1 DEF CallerOK, Init
<1>5. SnapperOK
  BY DEF SnapperOK, SnapperControl, SnapperFiles, Init, NoSnapper
<1>6. MemoryOK
  <2>1. OpsAt(files, 1) = <<>> /\ Unique(files)
    BY <1>1, <1>2, OpsAtLemma DEF Unique
  <2>2. Data(files) = files /\ Snapshots(files) = {}
    BY <1>1 DEF Data, IsData, Snapshots
  <2>3. Latest(files) = files
    BY <1>1, <2>2 DEF Latest
  <2>4. Relevant = files
    BY <2>3 DEF Relevant, Needed, Init, NoSnapper
  <2>5. Contents(files) = <<>>
    <3>1. clock = 2 /\ f.ts <= 2 /\ 2 \in Nat
      BY <1>1 DEF Init
    <3>2. UpTo({f}, 2) = f.ops
      BY <1>1, <3>1, OneFile
    <3> QED
      BY <1>1, <3>1, <3>2 DEF Contents
  <2>6. Nil \in Vals /\ EmptyTree \in TreeOf(Vals) /\ EmptyTree \in PlainTree
    BY ByteOpsLemma, EmptyTreeLemma, PlainReplay
  <2>7. Replay(<<>>) = EmptyTree
    BY <2>6, ReplayLemma DEF Replay
  <2> QED
    BY <2>4, <2>5, <2>6, <2>7 DEF MemoryOK, OnItsWay, Applied, Init
<1> QED
  BY <1>2, <1>3, <1>4, <1>5, <1>6 DEF Inv

(* A step that leaves the files and the snapshot alone. *)
LEMMA QuietStep ==
  ASSUME FilesOK, SnapperFiles, UNCHANGED <<files, clock, snapper>>
  PROVE  FilesOK' /\ SnapperFiles' /\ Contents(Relevant)' = Contents(Relevant)
<1>1. FilesOK'
  BY DEF FilesOK
<1>2. Latest(files)' = Latest(files) /\ Snapshots(files)' = Snapshots(files)
  OBVIOUS
<1>3. Merged' = Merged
  BY <1>2 DEF Merged
<1>4. Contents(Merged)' = Contents(Merged)
  BY <1>3 DEF Contents
<1>5. SnapperFiles'
  BY <1>2, <1>3, <1>4 DEF SnapperFiles
<1>6. Relevant' = Relevant
  BY DEF Relevant
<1> QED
  BY <1>1, <1>5, <1>6 DEF Contents

(* What is on its way, step by step. *)
LEMMA AppliedLemma ==
  /\ \A t : Applied(t, NoOp) = t
  /\ \A t, op : op \in Ops => Applied(t, op) = Restore(t, op)
BY OpsLemma DEF Applied

LEMMA CallerKeeps ==
  ASSUME Inv,
         \/ \E op \in Ops : Dump(op)
         \/ \E then \in {"stop", "clear"} : Stop(then)
         \/ StopLooks \/ StopWaits \/ ClearBegins \/ Play
  PROVE  Inv'
<1>0. FilesOK /\ RecorderOK /\ CallerOK /\ SnapperControl /\ SnapperFiles /\ MemoryOK
  BY DEF Inv, SnapperOK
<1> DEFINE now == Replay(Contents(Relevant))
<1>1. /\ FilesOK' /\ SnapperFiles' /\ now' = now
      /\ UNCHANGED <<files, clock, state, snapping, recorder, snapper>>
  <2>1. UNCHANGED <<files, clock, state, snapping, recorder, snapper>>
    BY DEF Dump, Stop, StopLooks, StopWaits, ClearBegins, Play
  <2> QED
    BY <1>0, <2>1, QuietStep
<1>2. RecorderOK'
  BY <1>0, <1>1 DEF RecorderOK, Running
<1> HIDE DEF now
<1>3. CASE \E op \in Ops : Dump(op)
  <2>0. PICK op \in Ops : Dump(op)
    BY <1>3
  <2>1. CallerOK'
    BY <1>0, <1>1, <2>0 DEF CallerOK, Dump
  <2>2. SnapperControl'
    BY <1>0, <1>1, <2>0 DEF SnapperControl, CallerOK, Running, Dump
  <2>3. tree' \in PlainTree
    BY <1>0, <2>0, PlainRestore DEF MemoryOK, Dump
  <2>4. ASSUME Settled' PROVE OnItsWay(now)' = tree'
    <3>1. /\ caller.pc = "idle" /\ caller'.then = caller.then
          /\ caller'.pc = "dumping" /\ caller'.op = op
      BY <1>0, <2>0 DEF Dump, CallerOK
    <3>2. tree = Applied(Applied(now, recorder.op), NoOp)
      BY <1>0, <2>4, <3>1 DEF MemoryOK, Settled, OnItsWay, now
    <3>3. tree' = Restore(tree, op)
      BY <2>0 DEF Dump
    <3>4. OnItsWay(now)' = Applied(Applied(now, recorder.op), op)
      BY <1>1, <3>1 DEF OnItsWay
    <3> QED
      BY <3>2, <3>3, <3>4, AppliedLemma
  <2> QED
    BY <1>1, <1>2, <2>1, <2>2, <2>3, <2>4 DEF Inv, SnapperOK, MemoryOK, now
<1>4. CASE \E then \in {"stop", "clear"} : Stop(then)
  <2>0. PICK then \in {"stop", "clear"} : Stop(then)
    BY <1>4
  <2>1. CallerOK'
    BY <1>0, <1>1, <2>0 DEF CallerOK, RecorderOK, Stop
  <2>2. SnapperControl'
    BY <1>0, <1>1, <2>0 DEF SnapperControl, Running, Stop
  <2>3. tree' \in PlainTree
    BY <1>0, <2>0, PlainReplay DEF MemoryOK, Stop
  <2>4. ASSUME Settled' PROVE OnItsWay(now)' = tree'
    <3>1. /\ caller.pc = "idle" /\ caller.then # "restore" /\ caller'.then = then
          /\ caller'.pc = "stopping"
      BY <1>0, <2>0 DEF Stop, CallerOK
    <3>2. tree' = tree
      BY <2>0, <2>4, <3>1 DEF Stop, Settled
    <3>3. tree = Applied(Applied(now, recorder.op), NoOp)
      BY <1>0, <3>1 DEF MemoryOK, Settled, OnItsWay, now
    <3> QED
      BY <1>1, <3>1, <3>2, <3>3 DEF OnItsWay
  <2> QED
    BY <1>1, <1>2, <2>1, <2>2, <2>3, <2>4 DEF Inv, SnapperOK, MemoryOK, now
<1>5. CASE StopLooks \/ StopWaits
  <2>1. CallerOK'
    BY <1>0, <1>1, <1>5 DEF CallerOK, RecorderOK, StopLooks, StopWaits
  <2>2. SnapperControl'
    BY <1>0, <1>1, <1>5 DEF SnapperControl, CallerOK, Running, StopLooks, StopWaits
  <2>3. tree' \in PlainTree
    BY <1>0, <1>5 DEF MemoryOK, StopLooks, StopWaits
  <2>4. ASSUME Settled' PROVE OnItsWay(now)' = tree'
    <3>1. /\ caller.pc \in {"looking", "locking"} /\ caller'.then = caller.then
          /\ caller'.pc \in {"locking", "waiting", "stopped"} /\ tree' = tree
      BY <1>0, <1>5 DEF StopLooks, StopWaits, CallerOK
    <3>2. tree = Applied(Applied(now, recorder.op), NoOp)
      BY <1>0, <2>4, <3>1 DEF MemoryOK, Settled, OnItsWay, now
    <3> QED
      BY <1>1, <3>1, <3>2 DEF OnItsWay
  <2> QED
    BY <1>1, <1>2, <2>1, <2>2, <2>3, <2>4 DEF Inv, SnapperOK, MemoryOK, now
<1>6. CASE ClearBegins
  <2>1. CallerOK'
    BY <1>0, <1>1, <1>6 DEF CallerOK, RecorderOK, FilesOK, Older, IsData, ClearBegins
  <2>2. SnapperControl'
    BY <1>0, <1>1, <1>6 DEF SnapperControl, Running, ClearBegins
  <2>3. tree' \in PlainTree
    BY <1>0, <1>6 DEF MemoryOK, ClearBegins
  <2>4. ~Settled'
    BY <1>0, <1>6 DEF CallerOK, ClearBegins, Settled
  <2> QED
    BY <1>1, <1>2, <2>1, <2>2, <2>3, <2>4 DEF Inv, SnapperOK, MemoryOK
<1>7. CASE Play
  <2>1. CallerOK'
    BY <1>0, <1>1, <1>7 DEF CallerOK, RecorderOK, Play
  <2>2. SnapperControl'
    BY <1>0, <1>1, <1>7 DEF SnapperControl, Running, Play
  <2>3. Relevant = Latest(files) /\ recorder.op = NoOp
    BY <1>0, <1>7 DEF CallerOK, RecorderOK, SnapperControl, Play, Relevant, Needed
  <2>4. tree' = now
    BY <1>7, <2>3 DEF Play, Played, now
  <2>5. tree' \in PlainTree
    <3>1. Relevant \subseteq files
      BY <2>3, LatestData DEF Data
    <3> QED
      BY <1>0, <2>4, <3>1, ContentsLemma, PlainReplay DEF now
  <2>6. OnItsWay(now)' = tree'
    <3>1. caller'.pc = "stopped" /\ recorder'.op = NoOp
      BY <1>0, <1>1, <1>7, <2>3 DEF Play, CallerOK
    <3> QED
      BY <1>1, <2>4, <3>1, AppliedLemma DEF OnItsWay
  <2> QED
    BY <1>1, <1>2, <2>1, <2>2, <2>5, <2>6 DEF Inv, SnapperOK, MemoryOK, now
<1> QED
  BY <1>3, <1>4, <1>5, <1>6, <1>7

LEMMA RecorderKeeps ==
  ASSUME Inv, NoSwap \/ Receive \/ Poll \/ Stopped
  PROVE  Inv'
<1>0. FilesOK /\ RecorderOK /\ CallerOK /\ SnapperControl /\ SnapperFiles /\ MemoryOK
  BY DEF Inv, SnapperOK
<1> DEFINE now == Replay(Contents(Relevant))
<1>1. /\ FilesOK' /\ SnapperFiles' /\ now' = now
      /\ UNCHANGED <<tree, files, clock, snapping, snapper>>
  <2>1. UNCHANGED <<tree, files, clock, snapping, snapper>>
    BY DEF NoSwap, Receive, Poll, Stopped
  <2> QED
    BY <1>0, <2>1, QuietStep
<1>2. tree' \in PlainTree
  BY <1>0, <1>1 DEF MemoryOK
<1> HIDE DEF now
<1>3. CASE NoSwap \/ Poll
  <2>0. /\ UNCHANGED <<state, caller>> /\ recorder'.op = recorder.op
        /\ recorder.pc \in {"top", "poll"} /\ recorder'.pc \in {"select", "top"}
        /\ recorder' = [recorder EXCEPT !.pc = recorder'.pc]
    BY <1>0, <1>3 DEF NoSwap, Poll, RecorderOK
  <2>1. RecorderOK'
    BY <1>0, <1>1, <2>0 DEF RecorderOK, Running
  <2>2. CallerOK'
    BY <1>0, <1>1, <2>0 DEF CallerOK
  <2>3. SnapperControl'
    BY <1>0, <1>1, <2>0 DEF SnapperControl, RecorderOK, Running
  <2>4. ASSUME Settled' PROVE OnItsWay(now)' = tree'
    BY <1>0, <1>1, <2>0, <2>4 DEF MemoryOK, Settled, OnItsWay, now
  <2> QED
    BY <1>1, <1>2, <2>1, <2>2, <2>3, <2>4 DEF Inv, SnapperOK, MemoryOK, now
<1>4. CASE Receive
  <2>0. /\ UNCHANGED state /\ recorder.pc = "select" /\ recorder.op = NoOp
        /\ caller.pc = "dumping" /\ caller.op \in Ops
        /\ recorder' = [recorder EXCEPT !.pc = "encode", !.op = caller.op]
        /\ caller' = [caller EXCEPT !.pc = "idle", !.op = NoOp]
    BY <1>0, <1>4 DEF Receive, RecorderOK, CallerOK
  <2>1. RecorderOK'
    BY <1>0, <1>1, <2>0 DEF RecorderOK, Running
  <2>2. CallerOK'
    BY <1>0, <1>1, <2>0 DEF CallerOK, RecorderOK
  <2>3. SnapperControl'
    BY <1>0, <1>1, <2>0 DEF SnapperControl, CallerOK, RecorderOK, Running
  <2>4. ASSUME Settled' PROVE OnItsWay(now)' = tree'
    <3>1. /\ caller'.pc = "idle" /\ caller'.then = caller.then
          /\ recorder'.op = caller.op
      BY <1>0, <2>0 DEF CallerOK, RecorderOK
    <3>2. tree = Applied(Applied(now, NoOp), caller.op)
      BY <1>0, <2>0, <2>4, <3>1 DEF MemoryOK, Settled, OnItsWay, now
    <3>3. OnItsWay(now)' = Applied(Applied(now, caller.op), NoOp)
      BY <1>1, <3>1 DEF OnItsWay
    <3> QED
      BY <1>1, <3>2, <3>3, AppliedLemma
  <2> QED
    BY <1>1, <1>2, <2>1, <2>2, <2>3, <2>4 DEF Inv, SnapperOK, MemoryOK, now
<1>5. CASE Stopped
  <2>0. /\ state' = "stopped" /\ recorder.pc \in {"select", "poll"} /\ recorder.op = NoOp
        /\ caller.pc = "stopping" /\ caller' = [caller EXCEPT !.pc = "looking"]
        /\ recorder' = [pc |-> "none", file |-> 0, op |-> NoOp]
    BY <1>0, <1>5 DEF Stopped, RecorderOK, NoRecorder
  <2>1. RecorderOK'
    BY <2>0 DEF RecorderOK, Running
  <2>2. CallerOK'
    BY <1>0, <1>1, <2>0 DEF CallerOK
  <2>3. SnapperControl'
    BY <1>0, <1>1, <2>0 DEF SnapperControl, CallerOK, Running
  <2>4. ASSUME Settled' PROVE OnItsWay(now)' = tree'
    <3>1. caller'.pc = "looking" /\ caller'.then = caller.then /\ recorder'.op = NoOp
      BY <1>0, <2>0 DEF CallerOK
    <3>2. tree = Applied(Applied(now, NoOp), NoOp)
      BY <1>0, <2>0, <2>4, <3>1 DEF MemoryOK, Settled, OnItsWay, now
    <3> QED
      BY <1>1, <3>1, <3>2 DEF OnItsWay
  <2> QED
    BY <1>1, <1>2, <2>1, <2>2, <2>3, <2>4 DEF Inv, SnapperOK, MemoryOK, now
<1> QED
  BY <1>3, <1>4, <1>5

(* Swap starts a snapshot, a crash ends everything but the files. *)
LEMMA SwapKeeps ==
  ASSUME Inv, Swap
  PROVE  Inv'
<1>0. FilesOK /\ RecorderOK /\ CallerOK /\ SnapperControl /\ SnapperFiles /\ MemoryOK
  BY DEF Inv, SnapperOK
<1>1. /\ UNCHANGED <<tree, files, clock, state, caller>>
      /\ recorder.pc = "top" /\ recorder' = [recorder EXCEPT !.pc = "swap"]
      /\ snapper.pc = "none" /\ snapping' = 1 /\ snapper' = [snapper EXCEPT !.pc = "latest"]
  BY <1>0 DEF Swap, TooLarge, SnapperControl
<1>2. FilesOK'
  BY <1>0, <1>1 DEF FilesOK
<1>3. RecorderOK'
  BY <1>0, <1>1 DEF RecorderOK, Running
<1>4. CallerOK'
  BY <1>0, <1>1 DEF CallerOK, RecorderOK
<1>5. SnapperControl'
  BY <1>0, <1>1 DEF SnapperControl, CallerOK, RecorderOK, Running
<1>6. SnapperFiles'
  BY <1>0, <1>1 DEF SnapperFiles, SnapperControl
<1>7. MemoryOK'
  <2>1. Relevant' = Relevant
    BY <1>0, <1>1 DEF Relevant, Needed, SnapperControl
  <2>2. Contents(Relevant)' = Contents(Relevant)
    BY <1>1, <2>1 DEF Contents
  <2>3. recorder'.op = recorder.op
    BY <1>0, <1>1 DEF RecorderOK
  <2> QED
    BY <1>0, <1>1, <2>2, <2>3 DEF MemoryOK, Settled, OnItsWay
<1> QED
  BY <1>2, <1>3, <1>4, <1>5, <1>6, <1>7 DEF Inv, SnapperOK

LEMMA CrashKeeps ==
  ASSUME Inv, Crash
  PROVE  Inv'
<1>0. FilesOK
  BY DEF Inv
<1>1. FilesOK'
  BY <1>0 DEF FilesOK, Crash
<1>2. RecorderOK'
  BY DEF RecorderOK, Running, NoRecorder, Crash
<1>3. CallerOK'
  BY DEF CallerOK, NoRecorder, Crash
<1>4. SnapperControl' /\ SnapperFiles'
  BY DEF SnapperControl, SnapperFiles, NoSnapper, NoRecorder, Crash
<1>5. MemoryOK'
  BY PlainReplay DEF MemoryOK, Settled, Crash
<1> QED
  BY <1>1, <1>2, <1>3, <1>4, <1>5 DEF Inv, SnapperOK

(* The files that are not the newest log. *)
LEMMA MergedLog ==
  ASSUME NEW A, NEW f, NEW t \in Nat, A \subseteq File, f \in File, f.suffix = "log",
         \A h \in A : IsData(h) => h.ts < f.ts, t < f.ts
  PROVE  /\ {h \in Latest(A \cup {f}) : h.ts < t} = {h \in Latest(A) : h.ts < t}
         /\ Snapshots(A \cup {f}) = Snapshots(A)
<1>1. Latest(A \cup {f}) = Latest(A) \cup {f}
  BY LatestLog
<1>2. ~(f.ts < t)
  BY DEF File
<1>3. Snapshots(A \cup {f}) = Snapshots(A)
  BY DEF Snapshots
<1> QED
  BY <1>1, <1>2, <1>3

(* A new log: it is played last, and holds nothing yet. *)
LEMMA NewLogStep ==
  ASSUME FilesOK, SnapperControl, SnapperFiles, snapper.pc \notin {"create", "started"},
         files' = files \cup {NewFile("log")}, clock' = clock + 1, UNCHANGED snapper
  PROVE  /\ FilesOK' /\ SnapperFiles'
         /\ Contents(Relevant)' = Contents(Relevant)
         /\ \E f \in files' : f.ts = clock /\ f.suffix = "log"
         /\ \A f \in files' : f.ts <= clock
<1> DEFINE new == NewFile("log")
<1>0. clock \in Nat /\ clock # 0 /\ files \subseteq File /\ \A f \in files : f.ts < clock /\ f.ts \in Nat
  BY DEF FilesOK, File
<1>1. new \in File /\ new.ts = clock /\ new.suffix = "log" /\ new.ops = <<>>
  BY <1>0 DEF NewFile, File
<1> HIDE DEF new
<1>2. files' = files \cup {new} /\ \A f \in files : f.ts < new.ts
  BY <1>0, <1>1 DEF new
<1>3. FilesOK'
  <2>1. IsFiniteSet(files')
    BY <1>2, FS_AddElement DEF FilesOK
  <2>2. clock' \in Nat \ {0} /\ files' \subseteq File /\ \A f \in files' : f.ts < clock'
    BY <1>0, <1>1, <1>2
  <2>3. \A f, g \in files' : f.ts = g.ts => f = g
    BY <1>0, <1>1, <1>2 DEF FilesOK
  <2> QED
    BY <2>1, <2>2, <2>3 DEF FilesOK
<1>4. snapper.pc \in {"write", "rename", "clear", "done"} => snapper.ts \in Nat /\ snapper.ts < new.ts
  BY <1>0, <1>1 DEF SnapperFiles
<1>5. Contents(Relevant)' = Contents(Relevant)
  <2> DEFINE A == Needed(files, snapper)
  <2>0. /\ \A h \in files : IsData(h) => h.ts < new.ts
        /\ snapper.pc \in {"clear", "done"} => snapper.ts \in Nat /\ snapper.ts < new.ts
    BY <1>2, <1>4
  <2>1. Needed(files \cup {new}, snapper) = A \cup {new} /\ A \subseteq files
    BY <1>0, <1>1, <2>0, NeededLog
  <2>2. UpTo(A, clock + 1) = UpTo(A, clock) /\ Unique(A)
    BY <2>1, ContentsLemma
  <2>3. \A h \in A : h.ts # new.ts
    BY <1>0, <1>1, <2>1
  <2> HIDE DEF A
  <2>4. UpTo(A \cup {new}, clock + 1) = UpTo(A, clock + 1)
    <3>1. clock + 1 \in Nat
      BY <1>0
    <3> QED
      BY <1>1, <2>2, <2>3, <3>1, NewContents
  <2>5. Relevant' = A \cup {new}
    BY <1>2, <2>1 DEF Relevant
  <2> QED
    BY <2>2, <2>4, <2>5 DEF Contents, Relevant, A
<1>6. SnapperFiles'
  <2>1. CASE snapper.pc \in {"none", "latest"}
    BY <2>1 DEF SnapperFiles
  <2>2. CASE snapper.pc \in {"write", "rename"}
    <3>0. snapper.ts \in Nat /\ snapper.ts < new.ts /\ \A h \in files : IsData(h) => h.ts < new.ts
      BY <1>2, <1>4, <2>2
    <3>1. Merged' = Merged /\ Snapshots(files') = Snapshots(files)
      <4>1. /\ {h \in Latest(files \cup {new}) : h.ts < snapper.ts} = Merged
            /\ Snapshots(files \cup {new}) = Snapshots(files)
        BY <1>0, <1>1, <3>0, MergedLog DEF Merged
      <4> QED
        BY <1>2, <4>1 DEF Merged
    <3>2. Merged \subseteq files
      BY LatestData DEF Merged, Data
    <3>3. Contents(Merged)' = Contents(Merged)
      BY <3>1, <3>2, ContentsLemma DEF Contents
    <3>4. /\ \E f \in files' : f.ts = snapper.ts /\ f.suffix = "unfinished"
          /\ \A f \in Snapshots(files') : f.ts < snapper.ts
      BY <1>2, <2>2, <3>1 DEF SnapperFiles
    <3>5. \A f \in files' : f.ts = snapper.ts => f \in files
      BY <1>1, <1>2, <3>0
    <3> QED
      BY <2>2, <3>1, <3>3, <3>4, <3>5 DEF SnapperFiles
  <2>3. CASE snapper.pc \in {"clear", "done"}
    <3>1. Snapshots(files') = Snapshots(files)
      BY <1>1, <1>2 DEF Snapshots
    <3> QED
      BY <1>0, <1>1, <1>2, <1>4, <2>3, <3>1 DEF SnapperFiles
  <2> QED
    BY <2>1, <2>2, <2>3 DEF SnapperControl
<1> QED
  BY <1>0, <1>1, <1>2, <1>3, <1>5, <1>6

LEMMA NewLogKeeps ==
  ASSUME Inv, SwapLog \/ Record \/ Restart
  PROVE  Inv'
<1>0. FilesOK /\ RecorderOK /\ CallerOK /\ SnapperControl /\ SnapperFiles /\ MemoryOK
  BY DEF Inv, SnapperOK
<1> DEFINE now == Replay(Contents(Relevant))
<1>1. /\ UNCHANGED <<tree, snapping, snapper>> /\ snapper.pc \notin {"create", "started"}
      /\ files' = files \cup {NewFile("log")} /\ clock' = clock + 1
      /\ recorder'.file = clock /\ recorder'.op = NoOp /\ recorder.op = NoOp
      /\ state' = "recording"
  <2>1. CASE SwapLog
    BY <1>0, <2>1 DEF SwapLog, SnapperControl, RecorderOK
  <2>2. CASE Record \/ Restart
    <3>1. snapper.pc = "none" /\ recorder.pc = "none"
      BY <1>0, <2>2 DEF Record, Restart, SnapperControl, CallerOK
    <3>2. recorder.op = NoOp
      BY <1>0, <3>1 DEF RecorderOK
    <3> QED
      BY <2>2, <3>1, <3>2 DEF Record, Restart, StartRecording
  <2> QED
    BY <2>1, <2>2
<1>2. /\ FilesOK' /\ SnapperFiles' /\ now' = now
      /\ \E f \in files' : f.ts = clock /\ f.suffix = "log"
      /\ \A f \in files' : f.ts <= clock
  BY <1>0, <1>1, NewLogStep
<1> HIDE DEF now
<1>3. /\ recorder' \in [pc : {"top", "select"}, file : Nat, op : {NoOp}]
      /\ recorder.pc \in {"none", "new log"}
  <2>0. clock \in Nat
    BY <1>0 DEF FilesOK
  <2>1. CASE SwapLog
    BY <1>0, <1>1, <2>0, <2>1 DEF SwapLog, RecorderOK
  <2>2. CASE Record \/ Restart
    <3>1. recorder.pc = "none"
      BY <1>0, <2>2 DEF Record, Restart, CallerOK
    <3>2. recorder' = [pc |-> "top", file |-> clock, op |-> NoOp]
      BY <2>2 DEF Record, Restart, StartRecording
    <3> QED
      BY <2>0, <3>1, <3>2
  <2> QED
    BY <2>1, <2>2
<1>4. RecorderOK'
  BY <1>1, <1>2, <1>3 DEF RecorderOK, Running
<1>5. SnapperControl'
  <2>1. snapper.pc \in {"write", "rename", "clear", "done"} => snapper.ts < clock
    BY <1>0 DEF SnapperFiles, FilesOK
  <2>2. caller'.pc \notin {"stopped", "clearing", "down"}
    BY <1>0 DEF SwapLog, Record, Restart, CallerOK
  <2> QED
    BY <1>0, <1>1, <1>3, <2>1, <2>2 DEF SnapperControl, Running
<1>6. tree' \in PlainTree
  BY <1>0, <1>1 DEF MemoryOK
<1>7. CASE SwapLog
  <2>1. CallerOK'
    BY <1>0, <1>1, <1>3, <1>7 DEF CallerOK, SwapLog
  <2>2. ASSUME Settled' PROVE OnItsWay(now)' = tree'
    BY <1>0, <1>1, <1>2, <1>7, <2>2, ZenonT(60) DEF SwapLog, MemoryOK, Settled, OnItsWay, now
  <2> QED
    BY <1>2, <1>4, <1>5, <1>6, <2>1, <2>2 DEF Inv, SnapperOK, MemoryOK, now
<1>8. CASE Record
  <2>1. CallerOK'
    BY <1>0, <1>1, <1>3, <1>8 DEF CallerOK, Record
  <2>2. ASSUME Settled' PROVE OnItsWay(now)' = tree'
    <3>1. caller'.pc = "idle" /\ caller'.then = caller.then
      BY <1>0, <1>8 DEF Record, CallerOK
    <3>2. OnItsWay(now)' = now
      BY <1>1, <1>2, <3>1, AppliedLemma DEF OnItsWay
    <3>3. CASE caller.pc = "stopped" /\ caller.then = "stop"
      BY <1>0, <1>1, <3>2, <3>3, AppliedLemma DEF MemoryOK, Settled, OnItsWay, now
    <3>4. CASE caller.pc = "clearing" /\ caller.todo = {}
      <4>1. Data(files) = {} /\ snapper.pc = "none" /\ tree = EmptyTree
        BY <1>0, <3>4 DEF CallerOK, SnapperControl, Data
      <4>2. Relevant = {}
        BY <4>1, LatestData DEF Relevant, Needed
      <4>3. Contents(Relevant) = <<>>
        <5>1. Unique({}) /\ clock \in Nat
          BY <1>0 DEF Unique, FilesOK
        <5>2. \A t \in Nat : OpsAt({}, t) = <<>>
          BY DEF OpsAt
        <5> DEFINE S == {n \in Nat : UpTo({}, n) = <<>>}
        <5>3. 0 \in S
          BY <5>1, UpToLemma
        <5>4. ASSUME NEW n \in Nat, n \in S PROVE n + 1 \in S
          <6>1. UpTo({}, n + 1) = UpTo({}, n) \o OpsAt({}, n + 1)
            BY <5>1, UpToLemma
          <6> QED
            BY <5>2, <5>4, <6>1
        <5> HIDE DEF S
        <5>5. clock \in S
          BY <5>1, <5>3, <5>4, NaturalSetInduction
        <5> QED
          BY <4>2, <5>5 DEF S, Contents
      <4>4. Replay(<<>>) = EmptyTree
        BY ByteOpsLemma, EmptyTreeLemma, ReplayLemma DEF Replay
      <4> QED
        BY <1>1, <3>2, <4>1, <4>3, <4>4 DEF now
    <3> QED
      BY <1>8, <3>3, <3>4 DEF Record
  <2> QED
    BY <1>2, <1>4, <1>5, <1>6, <2>1, <2>2 DEF Inv, SnapperOK, MemoryOK, now
<1>9. CASE Restart
  <2>1. CallerOK'
    BY <1>0, <1>1, <1>3, <1>9 DEF CallerOK, Restart
  <2>2. ~Settled'
    BY <1>0, <1>9 DEF Restart, CallerOK, Settled
  <2> QED
    BY <1>2, <1>4, <1>5, <1>6, <2>1, <2>2 DEF Inv, SnapperOK, MemoryOK
<1> QED
  BY <1>7, <1>8, <1>9

(* Encode appends to the log that is played last. *)
LEMMA EncodeKeeps ==
  ASSUME Inv, Encode
  PROVE  Inv'
<1>0. FilesOK /\ RecorderOK /\ CallerOK /\ SnapperControl /\ SnapperFiles /\ MemoryOK
  BY DEF Inv, SnapperOK
<1> DEFINE op == recorder.op
           e == Written(op)
           f == Current
           g == [f EXCEPT !.ops = Append(@, e)]
           A == files \ {f}
<1>1. /\ UNCHANGED <<tree, clock, state, snapping, caller, snapper>>
      /\ recorder.pc = "encode" /\ recorder' = [recorder EXCEPT !.pc = "poll", !.op = NoOp]
      /\ files' = A \cup {g}
  BY DEF Encode
<1>2. Running /\ op \in Ops /\ e \in ByteOps /\ op # NoOp
  BY <1>0, <1>1, OpsLemma DEF Running, RecorderOK
<1>3. /\ f \in files /\ f.ts = recorder.file /\ f.suffix = "log"
      /\ \A h \in A : IsData(h) => h.ts < f.ts
  BY <1>0, <1>2, CurrentLemma
<1> HIDE DEF f, e
<1>4. /\ clock \in Nat /\ f \in File /\ f.ts < clock /\ f.ts \in Nat
      /\ A \subseteq File /\ Unique(files) /\ \A h \in files : h.ts \in Nat
  BY <1>0, <1>3 DEF FilesOK, File, Unique
<1>5. g \in File /\ g.ts = f.ts /\ g.suffix = f.suffix /\ g.ops = Append(f.ops, e)
  BY <1>2, <1>4, SMTT(30) DEF File
<1> HIDE DEF g
<1>6. files = A \cup {f} /\ \A h \in A : h.ts # f.ts
  BY <1>0, <1>3 DEF FilesOK
<1> HIDE DEF A, op
<1>7. FilesOK'
  <2>1. IsFiniteSet(files')
    <3>1. IsFiniteSet(A)
      BY <1>0, FS_Difference DEF A, FilesOK
    <3> QED
      BY <1>1, <3>1, FS_AddElement
  <2>2. clock' \in Nat \ {0} /\ files' \subseteq File /\ \A h \in files' : h.ts < clock'
    BY <1>0, <1>1, <1>4, <1>5, <1>6 DEF FilesOK
  <2>3. \A h, i \in files' : h.ts = i.ts => h = i
    BY <1>0, <1>1, <1>5, <1>6 DEF FilesOK
  <2> QED
    BY <2>1, <2>2, <2>3 DEF FilesOK
<1>8. RecorderOK'
  <2>1. /\ recorder' \in [pc : {"poll"}, file : Nat, op : {NoOp}]
        /\ recorder'.file = f.ts /\ state = "recording"
    BY <1>0, <1>1, <1>3 DEF RecorderOK
  <2>2. \A h \in files' : IsData(h) => h.ts <= f.ts
    BY <1>1, <1>3, <1>4, <1>5, <1>6
  <2>3. g \in files' /\ g.ts = f.ts /\ g.suffix = "log"
    BY <1>1, <1>3, <1>5
  <2> QED
    BY <1>1, <2>1, <2>2, <2>3 DEF RecorderOK, Running
<1>9. CallerOK'
  BY <1>0, <1>1 DEF CallerOK, RecorderOK
<1>10. SnapperControl'
  BY <1>0, <1>1 DEF SnapperControl, RecorderOK, Running
<1>11. snapper.pc \in {"write", "rename", "clear", "done"} => snapper.ts \in Nat /\ snapper.ts < f.ts
  BY <1>0, <1>2, <1>3 DEF SnapperControl
<1>12. SnapperFiles'
  <2>1. CASE snapper.pc = "none"
    BY <1>1, <2>1 DEF SnapperFiles
  <2>2. CASE snapper.pc \in {"write", "rename"}
    <3>0. snapper.ts \in Nat /\ snapper.ts < f.ts /\ snapper.ts < g.ts /\ \A h \in A : IsData(h) => h.ts < g.ts
      BY <1>3, <1>5, <1>11, <2>2
    <3>1. /\ {h \in Latest(A \cup {f}) : h.ts < snapper.ts} = {h \in Latest(A) : h.ts < snapper.ts}
          /\ Snapshots(A \cup {f}) = Snapshots(A)
      BY <1>3, <1>4, <3>0, MergedLog
    <3>2. /\ {h \in Latest(A \cup {g}) : h.ts < snapper.ts} = {h \in Latest(A) : h.ts < snapper.ts}
          /\ Snapshots(A \cup {g}) = Snapshots(A)
      BY <1>3, <1>4, <1>5, <3>0, MergedLog
    <3>3. Merged' = Merged /\ Snapshots(files') = Snapshots(files)
      BY <1>1, <1>6, <3>1, <3>2 DEF Merged
    <3>4. Contents(Merged)' = Contents(Merged)
      BY <1>1, <3>3 DEF Contents
    <3>5. /\ \E h \in files' : h.ts = snapper.ts /\ h.suffix = "unfinished"
          /\ \A h \in Snapshots(files') : h.ts < snapper.ts
      BY <1>0, <1>1, <1>3, <1>6, <2>2, <3>3 DEF SnapperFiles
    <3>6. \A h \in files' : h.ts = snapper.ts => h \in files
      BY <1>1, <1>4, <1>5, <1>6, <3>0
    <3> QED
      BY <1>0, <1>1, <2>2, <3>3, <3>4, <3>5, <3>6 DEF SnapperFiles
  <2>3. CASE snapper.pc \in {"clear", "done"}
    <3>1. Snapshots(files') = Snapshots(files)
      BY <1>1, <1>3, <1>5, <1>6 DEF Snapshots
    <3>2. \A h \in files' : h.ts < snapper.ts => h \in files
      BY <1>1, <1>4, <1>5, <1>6, <1>11, <2>3
    <3>3. \E h \in files' : h.ts = snapper.ts /\ h.suffix = "snap"
      BY <1>0, <1>1, <1>3, <1>6, <2>3 DEF SnapperFiles
    <3> QED
      BY <1>0, <1>1, <2>3, <3>1, <3>2, <3>3 DEF SnapperFiles
  <2> QED
    BY <1>0, <1>1, <2>1, <2>2, <2>3 DEF SnapperControl
<1>13. MemoryOK'
  <2> DEFINE N == Needed(A, snapper)
             c == Contents(Relevant)
  <2>0. /\ snapper.pc \in {"clear", "done"} => snapper.ts \in Nat /\ snapper.ts < f.ts
        /\ snapper.pc \in {"clear", "done"} => snapper.ts \in Nat /\ snapper.ts < g.ts
        /\ \A h \in A : IsData(h) => h.ts < g.ts
        /\ g.suffix = "log"
    BY <1>3, <1>5, <1>11
  <2>1. Needed(A \cup {f}, snapper) = N \cup {f} /\ N \subseteq A /\ \A h \in N : h.ts < f.ts
    BY <1>3, <1>4, <2>0, NeededLog
  <2>2. Needed(A \cup {g}, snapper) = N \cup {g}
    BY <1>4, <1>5, <2>0, NeededLog, ZenonT(60)
  <2> HIDE DEF N
  <2>3. Unique(N) /\ f.ts <= clock
    BY <1>0, <1>4, <2>1 DEF Unique, FilesOK, A
  <2>4. UpTo(N \cup {g}, clock) = Append(UpTo(N \cup {f}, clock), e)
    <3>1. \A h \in N : h.ts < f.ts
      BY <2>1
    <3>2. clock \in Nat /\ f \in File /\ e \in ByteOps
      BY <1>2, <1>4
    <3>3. g \in File /\ g.ts = f.ts /\ g.ops = Append(f.ops, e)
      BY <1>5
    <3>4. f.ops \in Seq(ByteOps) /\ UpTo(N, clock) \in Seq(ByteOps)
      BY <2>3, <3>2, UpToLemma DEF File
    <3>5. UpTo(N \cup {f}, clock) = UpTo(N, clock) \o f.ops
      BY <2>3, <3>1, <3>2, LastContents
    <3>6. UpTo(N \cup {g}, clock) = UpTo(N, clock) \o g.ops
      BY <2>3, <3>1, <3>2, <3>3, LastContents
    <3>7. \A a \in Seq(ByteOps), b \in Seq(ByteOps), x \in ByteOps :
            a \o Append(b, x) = Append(a \o b, x)
      OBVIOUS
    <3> QED
      BY <3>2, <3>3, <3>4, <3>5, <3>6, <3>7
  <2>5. Contents(Relevant)' = Append(c, e)
    BY <1>1, <1>6, <2>1, <2>2, <2>4 DEF Contents, Relevant
  <2>6. c \in Seq(ByteOps)
    <3>1. Relevant \subseteq files
      BY <1>6, <2>1 DEF Relevant
    <3> QED
      BY <1>0, <3>1, ContentsLemma
  <2> HIDE DEF c
  <2>7. Replay(Append(c, e)) = Applied(Replay(c), op)
    BY <1>2, <2>6, ReplayOneMore, OpsLemma, AppliedLemma DEF e
  <2>8. ASSUME Settled' PROVE OnItsWay(Replay(Contents(Relevant)))' = tree'
    <3>1. OnItsWay(Replay(c)) = tree
      BY <1>0, <1>1, <2>8 DEF MemoryOK, Settled, c
    <3>2. recorder'.op = NoOp
      BY <1>0, <1>1 DEF RecorderOK
    <3>3. Replay(Contents(Relevant))' = Applied(Replay(c), op)
      BY <2>5, <2>7
    <3> QED
      BY <1>1, <3>1, <3>2, <3>3, AppliedLemma DEF OnItsWay, op
  <2> QED
    BY <1>0, <1>1, <2>8 DEF MemoryOK
<1> QED
  BY <1>7, <1>8, <1>9, <1>10, <1>12, <1>13 DEF Inv, SnapperOK

(* Clear is alone with the files. *)
LEMMA ClearKeeps ==
  ASSUME Inv, ClearRemoves
  PROVE  Inv'
<1>0. FilesOK /\ RecorderOK /\ CallerOK /\ SnapperControl /\ SnapperFiles /\ MemoryOK
  BY DEF Inv, SnapperOK
<1>1. /\ UNCHANGED <<tree, clock, state, snapping, recorder, snapper>>
      /\ caller.pc = "clearing" /\ recorder.pc = "none" /\ snapper.pc = "none"
  BY <1>0 DEF ClearRemoves, CallerOK, SnapperControl
<1>2. PICK f \in caller.todo : /\ files' = files \ {f}
                               /\ caller' = [caller EXCEPT !.todo = caller.todo \ {f}]
  BY DEF ClearRemoves
<1>3. FilesOK'
  <2>1. IsFiniteSet(files')
    BY <1>0, <1>2, FS_Difference DEF FilesOK
  <2> QED
    BY <1>0, <1>1, <1>2, <2>1 DEF FilesOK
<1>4. RecorderOK'
  BY <1>0, <1>1 DEF RecorderOK, Running
<1>5. CallerOK'
  BY <1>0, <1>1, <1>2 DEF CallerOK
<1>6. SnapperControl'
  BY <1>0, <1>1, <1>2 DEF SnapperControl, CallerOK, Running
<1>7. SnapperFiles'
  BY <1>1 DEF SnapperFiles
<1>8. MemoryOK'
  BY <1>0, <1>1, <1>2 DEF MemoryOK, CallerOK, Settled
<1> QED
  BY <1>3, <1>4, <1>5, <1>6, <1>7, <1>8 DEF Inv, SnapperOK

(* The steps of the snapshot that leave the files alone. *)
LEMMA SnapperKeeps ==
  ASSUME Inv, SnapLatest \/ SnapStarted \/ SnapBroadcast \/ SnapDone
  PROVE  Inv'
<1>0. FilesOK /\ RecorderOK /\ CallerOK /\ SnapperControl /\ SnapperFiles /\ MemoryOK
  BY DEF Inv, SnapperOK
<1>1. UNCHANGED <<tree, files, clock, state>>
  BY DEF SnapLatest, SnapStarted, SnapBroadcast, SnapDone
<1>2. FilesOK'
  BY <1>0, <1>1 DEF FilesOK
<1>3. Latest(files') = Latest(files) /\ Snapshots(files') = Snapshots(files) /\ Latest(files) \subseteq File
  BY <1>0, <1>1, LatestData DEF FilesOK, Data
<1>4. RecorderOK'
  BY <1>0, <1>1 DEF SnapLatest, SnapStarted, SnapBroadcast, SnapDone, RecorderOK, Running
<1>5. CallerOK'
  BY <1>0, <1>1, ZenonT(60) DEF SnapLatest, SnapStarted, SnapBroadcast, SnapDone, RecorderOK, CallerOK
<1>6. /\ recorder'.op = recorder.op /\ caller'.op = caller.op /\ caller'.then = caller.then
      /\ caller'.pc = IF SnapBroadcast /\ caller.pc = "waiting" THEN "looking" ELSE caller.pc
  BY <1>0 DEF SnapLatest, SnapStarted, SnapBroadcast, SnapDone, RecorderOK, CallerOK
<1>7. SUFFICES SnapperControl' /\ SnapperFiles' /\ Relevant' = Relevant
  <2>1. ASSUME Relevant' = Relevant PROVE MemoryOK'
    <3>1. Contents(Relevant)' = Contents(Relevant)
      BY <1>1, <2>1 DEF Contents
    <3>2. caller'.pc = "dumping" <=> caller.pc = "dumping"
      BY <1>6
    <3>3. Settled' => Settled
      BY <1>6 DEF Settled
    <3> QED
      BY <1>0, <1>1, <1>6, <3>1, <3>2, <3>3 DEF MemoryOK, OnItsWay
  <2> QED
    BY <1>2, <1>4, <1>5, <2>1 DEF Inv, SnapperOK
<1>8. CASE SnapLatest
  <2>1. SnapperControl'
    BY <1>0, <1>3, <1>8 DEF SnapperControl, SnapLatest, Running
  <2>2. SnapperFiles'
    BY <1>0, <1>3, <1>8 DEF SnapperFiles, SnapperControl, SnapLatest
  <2>3. Relevant' = Relevant
    BY <1>0, <1>3, <1>8 DEF Relevant, Needed, SnapperControl, SnapLatest
  <2> QED
    BY <2>1, <2>2, <2>3
<1>9. CASE SnapStarted
  <2>0. /\ UNCHANGED <<snapping, caller>> /\ snapper.pc = "started" /\ recorder.pc = "swap"
        /\ snapper' = [snapper EXCEPT !.pc = "write"]
        /\ recorder' = [recorder EXCEPT !.pc = "new log"]
    BY <1>9 DEF SnapStarted
  <2>1. SnapperControl'
    BY <1>0, <2>0 DEF SnapperControl, RecorderOK, Running
  <2>2. snapper'.ts = snapper.ts /\ snapper'.reads = snapper.reads /\ snapper'.pc = "write"
    BY <1>0, <2>0 DEF SnapperControl
  <2>3. Merged' = Merged
    BY <1>3, <2>2 DEF Merged
  <2>4. SnapperFiles'
    BY <1>0, <1>1, <1>3, <2>0, <2>2, <2>3 DEF SnapperFiles
  <2>5. Relevant' = Relevant
    BY <1>3, <2>0, <2>2 DEF Relevant, Needed
  <2> QED
    BY <2>1, <2>4, <2>5
<1>10. CASE SnapBroadcast
  <2>0. /\ UNCHANGED <<snapping, recorder>> /\ snapper.pc = "clear" /\ snapper.todo = {}
        /\ snapper' = [snapper EXCEPT !.pc = "done"]
    BY <1>10 DEF SnapBroadcast
  <2>1. SnapperControl'
    BY <1>0, <1>6, <2>0 DEF SnapperControl, Running
  <2>2. snapper'.ts = snapper.ts /\ snapper'.todo = snapper.todo /\ snapper'.pc = "done"
    BY <1>0, <2>0 DEF SnapperControl
  <2>3. SnapperFiles'
    BY <1>0, <1>1, <1>3, <2>0, <2>2 DEF SnapperFiles
  <2>4. Relevant' = Relevant
    BY <1>1, <2>0, <2>2 DEF Relevant, Needed
  <2> QED
    BY <2>1, <2>3, <2>4
<1>11. CASE SnapDone
  <2>0. /\ UNCHANGED recorder /\ snapping' = 0 /\ snapper.pc = "done" /\ snapper' = NoSnapper
    BY <1>11 DEF SnapDone
  <2>1. SnapperControl'
    BY <1>0, <2>0 DEF SnapperControl, RecorderOK, Running, NoSnapper
  <2>2. SnapperFiles'
    BY <2>0 DEF SnapperFiles, NoSnapper
  <2>3. PICK s \in files : s.ts = snapper.ts /\ s.suffix = "snap"
    BY <1>0, <2>0 DEF SnapperFiles
  <2>4. \A f \in files : f.ts \in Nat /\ (f.ts = s.ts => f = s) /\ (IsData(f) => f.ts >= s.ts)
    <3>1. \A f \in files : f.ts \in Nat /\ (f.ts = s.ts => f = s)
      BY <1>0, <2>3 DEF FilesOK, File
    <3>2. \A f \in files : IsData(f) => ~(f.ts < s.ts)
      BY <1>0, <2>0, <2>3 DEF SnapperFiles
    <3> QED
      BY <2>3, <3>1, <3>2
  <2>5. Snapshots(files) = {s}
    <3>1. \A f \in Snapshots(files) : f.ts <= s.ts /\ f \in files /\ IsData(f)
      BY <1>0, <2>0, <2>3 DEF SnapperFiles, Snapshots, IsData
    <3>2. \A f \in Snapshots(files) : f.ts = s.ts
      BY <2>4, <3>1
    <3>3. s \in Snapshots(files)
      BY <2>3 DEF Snapshots
    <3> QED
      BY <2>4, <3>1, <3>2, <3>3
  <2>6. Latest(files) = {s} \cup {f \in files : f.suffix = "log" /\ s.ts < f.ts}
    BY <2>4, <2>5 DEF Latest
  <2>7. Relevant = {s} \cup {f \in files : f.suffix = "log" /\ s.ts < f.ts}
    BY <2>0, <2>3, <2>4 DEF Relevant, Needed
  <2>8. Relevant' = Latest(files)
    BY <1>3, <2>0 DEF Relevant, Needed, NoSnapper
  <2> QED
    BY <2>1, <2>2, <2>6, <2>7, <2>8
<1> QED
  BY <1>8, <1>9, <1>10, <1>11

(* Until it is renamed, nobody reads the snapshot's file. *)
LEMMA UnfinishedKeeps ==
  ASSUME Inv, SnapCreate \/ SnapWrite
  PROVE  Inv'
<1>0. FilesOK /\ RecorderOK /\ CallerOK /\ SnapperControl /\ SnapperFiles /\ MemoryOK
  BY DEF Inv, SnapperOK
<1>1. UNCHANGED <<tree, state, snapping, caller, recorder>>
  BY DEF SnapCreate, SnapWrite
<1>2. clock \in Nat /\ files \subseteq File /\ \A f \in files : f.ts < clock /\ f.ts \in Nat
  BY <1>0 DEF FilesOK, File
<1>3. SUFFICES /\ FilesOK' /\ Data(files') = Data(files) /\ clock' \in {clock, clock + 1}
               /\ SnapperControl' /\ SnapperFiles' /\ snapper'.pc \notin {"clear", "done"}
               /\ snapper.pc \notin {"clear", "done"}
  <2> SUFFICES ASSUME /\ FilesOK' /\ Data(files') = Data(files) /\ clock' \in {clock, clock + 1}
                      /\ SnapperControl' /\ SnapperFiles' /\ snapper'.pc \notin {"clear", "done"}
                      /\ snapper.pc \notin {"clear", "done"}
               PROVE  Inv'
    OBVIOUS
  <2>1. \A f : f \in files' /\ IsData(f) <=> f \in files /\ IsData(f)
    BY DEF Data
  <2>2. RecorderOK'
    <3>1. \A f : f.suffix = "log" => IsData(f)
      BY DEF IsData
    <3> QED
      BY <1>0, <1>1, <2>1, <3>1 DEF RecorderOK, Running
  <2>3. CallerOK'
    BY <1>0, <1>1, <2>1 DEF CallerOK
  <2>4. Relevant' = Latest(files) /\ Relevant = Latest(files) /\ Latest(files) \subseteq files
    BY LatestData DEF Relevant, Needed, Data
  <2>5. Contents(Relevant)' = Contents(Relevant)
    BY <1>0, <2>4, ContentsLemma DEF Contents
  <2>6. MemoryOK'
    BY <1>0, <1>1, <2>5 DEF MemoryOK, Settled, OnItsWay
  <2> QED
    BY <2>2, <2>3, <2>6 DEF Inv, SnapperOK
<1>4. CASE SnapCreate
  <2> DEFINE new == NewFile("unfinished")
  <2>1. new \in File /\ new.ts = clock /\ new.suffix = "unfinished"
    BY <1>0, <1>2 DEF NewFile, File, FilesOK
  <2>2. /\ snapper.pc = "create" /\ snapper' = [snapper EXCEPT !.pc = "started", !.ts = clock]
        /\ files' = files \cup {new} /\ clock' = clock + 1
    BY <1>4 DEF SnapCreate
  <2> HIDE DEF new
  <2>3. FilesOK'
    <3>1. IsFiniteSet(files')
      BY <1>0, <2>2, FS_AddElement DEF FilesOK
    <3>2. clock' \in Nat \ {0} /\ files' \subseteq File /\ \A f \in files' : f.ts < clock'
      BY <1>2, <2>1, <2>2
    <3>3. \A f, g \in files' : f.ts = g.ts => f = g
      BY <1>0, <1>2, <2>1, <2>2 DEF FilesOK
    <3> QED
      BY <3>1, <3>2, <3>3 DEF FilesOK
  <2>4. Data(files') = Data(files)
    BY <2>1, <2>2 DEF Data, IsData
  <2>5. SnapperControl'
    BY <1>0, <1>1, <1>2, <2>2 DEF SnapperControl, RecorderOK, Running
  <2>6. snapper'.pc = "started" /\ snapper'.ts = clock /\ snapper'.reads = snapper.reads
    BY <1>0, <2>2 DEF SnapperControl
  <2>7. SnapperFiles'
    <3>1. /\ Latest(files') = Latest(files) /\ Snapshots(files') = Snapshots(files)
          /\ Latest(files) \subseteq files
      BY <2>4, LatestData DEF Data
    <3>2. Merged' = Latest(files)
      BY <1>2, <2>6, <3>1 DEF Merged
    <3>3. snapper.reads = Latest(files)
      BY <1>0, <2>2 DEF SnapperFiles
    <3>4. \A f \in files' : IsData(f) => f.ts < clock
      BY <1>2, <2>4 DEF Data
    <3>5. \A f \in Snapshots(files') : f.ts < clock
      BY <1>2, <3>1 DEF Snapshots
    <3>6. \E f \in files' : f.ts = clock /\ f.suffix = "unfinished"
      BY <2>1, <2>2
    <3> QED
      BY <2>6, <3>2, <3>3, <3>4, <3>5, <3>6 DEF SnapperFiles
  <2> QED
    BY <2>2, <2>3, <2>4, <2>5, <2>6, <2>7
<1>5. CASE SnapWrite
  <2> DEFINE f == Unfinished
             c == Contents(snapper.reads)
             g == [f EXCEPT !.ops = Snapshot(c)]
  <2>1. /\ UNCHANGED clock /\ snapper.pc = "write"
        /\ files' = (files \ {f}) \cup {g}
        /\ snapper' = [snapper EXCEPT !.pc = "rename", !.reads = {}]
    BY <1>5 DEF SnapWrite
  <2>2. f \in files /\ f.ts = snapper.ts /\ f.suffix = "unfinished" /\ f \in File
    BY <1>0, <1>2, <2>1, UnfinishedLemma DEF SnapperOK
  <2> HIDE DEF f
  <2>3. snapper.reads = Merged /\ Merged \subseteq files
    BY <1>0, <2>1, LatestData DEF SnapperFiles, Merged, Data
  <2>4. c \in Seq(ByteOps)
    BY <1>0, <2>3, ContentsLemma
  <2> HIDE DEF c
  <2>5. Snapshot(c) \in Seq(ByteOps)
    BY <2>4, ReplaySnapshot
  <2>6. g \in File /\ g.ts = f.ts /\ g.suffix = "unfinished" /\ g.ops = Snapshot(c)
    BY <2>2, <2>5 DEF File
  <2> HIDE DEF g
  <2>7. FilesOK'
    <3>1. IsFiniteSet(files')
      <4>1. IsFiniteSet(files \ {f})
        BY <1>0, FS_Difference DEF FilesOK
      <4> QED
        BY <2>1, <4>1, FS_AddElement
    <3>2. clock' \in Nat \ {0} /\ files' \subseteq File /\ \A h \in files' : h.ts < clock'
      BY <1>0, <1>2, <2>1, <2>2, <2>6 DEF FilesOK
    <3>3. \A h, i \in files' : h.ts = i.ts => h = i
      BY <1>0, <2>1, <2>2, <2>6 DEF FilesOK
    <3> QED
      BY <3>1, <3>2, <3>3 DEF FilesOK
  <2>8. Data(files') = Data(files)
    BY <2>1, <2>2, <2>6 DEF Data, IsData
  <2>9. SnapperControl'
    BY <1>0, <1>1, <2>1 DEF SnapperControl, RecorderOK, Running
  <2>10. snapper'.pc = "rename" /\ snapper'.ts = snapper.ts
    BY <1>0, <2>1 DEF SnapperControl
  <2>11. SnapperFiles'
    <3>1. Latest(files') = Latest(files) /\ Snapshots(files') = Snapshots(files)
      BY <2>8, LatestData
    <3>2. Merged' = Merged
      BY <2>10, <3>1 DEF Merged
    <3>3. Contents(Merged)' = c
      BY <2>1, <2>3, <3>2 DEF Contents, c
    <3>4. \A h \in files' : h.ts = snapper.ts => h = g
      BY <1>0, <2>1, <2>2, <2>6 DEF FilesOK
    <3>5. g \in files' /\ g.ts = snapper.ts
      BY <2>1, <2>2, <2>6
    <3> QED
      BY <1>0, <2>1, <2>6, <2>10, <3>1, <3>3, <3>4, <3>5 DEF SnapperFiles
  <2> QED
    BY <2>1, <2>7, <2>8, <2>9, <2>10, <2>11
<1> QED
  BY <1>4, <1>5

(* Once renamed, the snapshot stands for the files it was made of. *)
LEMMA RenameKeeps ==
  ASSUME Inv, SnapRename
  PROVE  Inv'
<1>0. FilesOK /\ RecorderOK /\ CallerOK /\ SnapperControl /\ SnapperFiles /\ MemoryOK
  BY DEF Inv, SnapperOK
<1> DEFINE f == Unfinished
           s == [f EXCEPT !.suffix = "snap"]
           t == snapper.ts
<1>1. /\ UNCHANGED <<tree, clock, state, snapping, caller, recorder>>
      /\ snapper.pc = "rename" /\ files' = (files \ {f}) \cup {s}
      /\ snapper' = [snapper EXCEPT !.pc = "clear", !.todo = Older(files, t)]
  BY DEF SnapRename
<1>2. clock \in Nat /\ files \subseteq File /\ \A h \in files : h.ts < clock /\ h.ts \in Nat
  BY <1>0 DEF FilesOK, File
<1>3. f \in files /\ f.ts = t /\ f.suffix = "unfinished" /\ f \in File /\ t \in Nat
  BY <1>0, <1>1, <1>2, UnfinishedLemma DEF SnapperOK
<1> HIDE DEF f
<1>4. s \in File /\ s.ts = t /\ s.suffix = "snap" /\ s.ops = f.ops
  BY <1>3 DEF File
<1> HIDE DEF s
<1>5. \A h \in files : h.ts = t => h = f
  BY <1>0, <1>3 DEF FilesOK
<1>6. FilesOK'
  <2>1. IsFiniteSet(files')
    <3>1. IsFiniteSet(files \ {f})
      BY <1>0, FS_Difference DEF FilesOK
    <3> QED
      BY <1>1, <3>1, FS_AddElement
  <2>2. clock' \in Nat \ {0} /\ files' \subseteq File /\ \A h \in files' : h.ts < clock'
    BY <1>0, <1>1, <1>2, <1>3, <1>4 DEF FilesOK
  <2>3. \A h, i \in files' : h.ts = i.ts => h = i
    BY <1>0, <1>1, <1>3, <1>4 DEF FilesOK
  <2> QED
    BY <2>1, <2>2, <2>3 DEF FilesOK
<1>7. snapper'.pc = "clear" /\ snapper'.ts = t /\ snapper'.todo = Older(files, t)
  BY <1>0, <1>1 DEF SnapperControl
<1>8. RecorderOK'
  <2>1. Running => t < recorder.file
    BY <1>0, <1>1 DEF SnapperControl
  <2>2. ASSUME Running PROVE /\ \E h \in files' : h.ts = recorder.file /\ h.suffix = "log"
                             /\ \A h \in files' : IsData(h) => h.ts <= recorder.file
    <3>1. PICK h \in files : h.ts = recorder.file /\ h.suffix = "log"
      BY <1>0, <2>2 DEF RecorderOK
    <3>2. h \in files'
      BY <1>1, <1>3, <3>1
    <3>3. recorder.file \in Nat
      BY <1>2, <3>1
    <3>4. \A i \in files : IsData(i) => i.ts <= recorder.file
      BY <1>0, <2>2 DEF RecorderOK
    <3>5. s.ts <= recorder.file
      BY <1>3, <1>4, <2>1, <2>2, <3>3
    <3> QED
      BY <1>1, <3>1, <3>2, <3>4, <3>5
  <2> QED
    BY <1>0, <1>1, <2>2 DEF RecorderOK, Running
<1>9. CallerOK'
  BY <1>0, <1>1 DEF CallerOK, SnapperControl
<1>10. SnapperControl'
  <2>1. Older(files, t) \in SUBSET File
    BY <1>2 DEF Older
  <2> QED
    BY <1>0, <1>1, <2>1 DEF SnapperControl, Running
<1>11. \A h \in Snapshots(files) : h.ts < t
  BY <1>0, <1>1 DEF SnapperFiles
<1>12. SnapperFiles'
  <2>1. \E h \in files' : h.ts = t /\ h.suffix = "snap"
    BY <1>1, <1>4
  <2>2. \A h \in Snapshots(files') : h.ts <= t
    <3>1. \A h \in Snapshots(files') : h = s \/ h \in Snapshots(files)
      BY <1>1 DEF Snapshots
    <3> QED
      BY <1>2, <1>3, <1>4, <1>11, <3>1 DEF Snapshots
  <2>3. {h \in files' : IsData(h) /\ h.ts < t} \subseteq Older(files, t)
    BY <1>1, <1>3, <1>4 DEF Older, IsData
  <2>4. \A h \in Older(files, t) : h.ts < t
    BY DEF Older
  <2> QED
    BY <1>7, <2>1, <2>2, <2>3, <2>4 DEF SnapperFiles
<1> DEFINE N == {h \in files : h.suffix = "log" /\ h.ts > t}
           M == Merged
           S == {s}
<1>13. Relevant = M \cup N
  <2> DEFINE first == {h \in Snapshots(files) : \A o \in Snapshots(files) : h.ts <= o.ts}
  <2>1. Latest(files) = first \cup {h \in files : h.suffix = "log" /\ \A o \in first : o.ts < h.ts}
    BY DEF Latest
  <2>2. \A o \in first : o.ts < t /\ o \in files
    BY <1>11 DEF Snapshots
  <2> HIDE DEF first
  <2>3. N \subseteq Latest(files)
    <3>1. ASSUME NEW h \in N, NEW o \in first PROVE o.ts < h.ts
      BY <1>2, <1>3, <2>2
    <3> QED
      BY <2>1, <3>1
  <2>4. \A h \in Latest(files) : h.ts < t \/ h \in N
    <3>1. ASSUME NEW h \in Latest(files), ~(h.ts < t) PROVE h \in N
      <4>1. h \in files /\ h.suffix = "log"
        BY <2>1, <2>2, <3>1
      <4>2. h.ts # t
        BY <1>3, <1>5, <4>1
      <4> QED
        BY <1>2, <1>3, <3>1, <4>1, <4>2
    <3> QED
      BY <3>1
  <2>5. Relevant = Latest(files)
    BY <1>1 DEF Relevant, Needed
  <2> QED
    BY <2>3, <2>4, <2>5 DEF Merged
<1>14. Relevant' = S \cup N
  <2>1. Relevant' = {h \in files' : h.ts = t \/ (h.suffix = "log" /\ h.ts > t)}
    BY <1>7 DEF Relevant, Needed
  <2>2. ASSUME NEW h PROVE h \in files' /\ (h.ts = t \/ (h.suffix = "log" /\ h.ts > t)) <=> h \in S \cup N
    BY <1>1, <1>3, <1>4, <1>5
  <2> QED
    BY <2>1, <2>2
<1>15. /\ Unique(M) /\ Unique(N) /\ Contents(M) \in Seq(ByteOps) /\ Contents(N) \in Seq(ByteOps)
       /\ \A h \in M : h.ts <= t
       /\ \A h \in N : h.ts > t
  <2>1. M \subseteq files /\ N \subseteq files
    BY LatestData DEF Merged, Data
  <2>2. \A h \in M : h.ts <= t
    BY <1>2, <1>3, <2>1 DEF Merged
  <2> QED
    BY <1>0, <2>1, <2>2, ContentsLemma
<1>16. /\ Unique(S) /\ UpTo(S, clock) = Snapshot(Contents(M))
       /\ \A h \in S : h.ts <= t
  <2>1. s.ts <= clock /\ s.ts <= t
    BY <1>2, <1>3, <1>4
  <2>2. Unique({s}) /\ UpTo({s}, clock) = s.ops
    BY <1>2, <1>4, <2>1, OneFile
  <2>3. f.ops = Snapshot(Contents(Merged))
    BY <1>0, <1>1, <1>3 DEF SnapperFiles
  <2> QED
    BY <1>4, <2>1, <2>2, <2>3
<1> HIDE DEF N, M, S
<1>17. Contents(Relevant) = Contents(M) \o Contents(N)
  <2>0. Before(M, N, t)
    BY <1>15 DEF Before
  <2>1. \A n \in Nat : UpTo(M \cup N, n) = UpTo(M, n) \o UpTo(N, n)
    BY <1>3, <1>15, <2>0, SplitContents, ZenonT(60)
  <2> QED
    BY <1>2, <1>13, <2>1 DEF Contents
<1>18. Contents(Relevant)' = Snapshot(Contents(M)) \o Contents(N)
  <2>0. Before(S, N, t)
    BY <1>15, <1>16 DEF Before
  <2>1. \A n \in Nat : UpTo(S \cup N, n) = UpTo(S, n) \o UpTo(N, n)
    BY <1>3, <1>15, <1>16, <2>0, SplitContents, ZenonT(60)
  <2>2. UpTo(S \cup N, clock) = Snapshot(Contents(M)) \o UpTo(N, clock)
    BY <1>2, <1>16, <2>1
  <2> QED
    BY <1>1, <1>14, <2>2 DEF Contents
<1>19. Replay(Contents(Relevant))' = Replay(Contents(Relevant))
  BY <1>15, <1>17, <1>18, ReplaySnapshot
<1>20. MemoryOK'
  BY <1>0, <1>1, <1>19 DEF MemoryOK, Settled, OnItsWay
<1> QED
  BY <1>6, <1>8, <1>9, <1>10, <1>12, <1>20 DEF Inv, SnapperOK

(* The clean-up takes only what the new snapshot stands for. *)
LEMMA RemoveKeeps ==
  ASSUME Inv, SnapRemove
  PROVE  Inv'
<1>0. FilesOK /\ RecorderOK /\ CallerOK /\ SnapperControl /\ SnapperFiles /\ MemoryOK
  BY DEF Inv, SnapperOK
<1>1. UNCHANGED <<tree, clock, state, snapping, caller, recorder>> /\ snapper.pc = "clear"
  BY DEF SnapRemove
<1>2. PICK f \in snapper.todo : /\ files' = files \ {f}
                                /\ snapper' = [snapper EXCEPT !.todo = snapper.todo \ {f}]
  BY DEF SnapRemove
<1>3. f.ts < snapper.ts /\ f.ts \in Nat /\ snapper.ts \in Nat
  BY <1>0, <1>1 DEF SnapperFiles, SnapperControl, File
<1>4. snapper'.pc = "clear" /\ snapper'.ts = snapper.ts /\ snapper'.todo = snapper.todo \ {f}
  BY <1>0, <1>1, <1>2 DEF SnapperControl
<1>5. FilesOK'
  <2>1. IsFiniteSet(files')
    BY <1>0, <1>2, FS_Difference DEF FilesOK
  <2> QED
    BY <1>0, <1>1, <1>2, <2>1 DEF FilesOK
<1>6. RecorderOK'
  <2>0. recorder.file \in Nat /\ (Running => snapper.ts < recorder.file)
    BY <1>0, <1>1 DEF SnapperControl, RecorderOK
  <2>1. Running => f.ts # recorder.file
    BY <1>3, <2>0
  <2> QED
    BY <1>0, <1>1, <1>2, <2>1 DEF RecorderOK, Running
<1>7. CallerOK'
  BY <1>0, <1>1 DEF CallerOK, SnapperControl
<1>8. SnapperControl'
  BY <1>0, <1>1, <1>2 DEF SnapperControl, Running
<1>9. SnapperFiles'
  <2>1. \E h \in files' : h.ts = snapper.ts /\ h.suffix = "snap"
    BY <1>0, <1>1, <1>2, <1>3 DEF SnapperFiles
  <2>2. \A h \in Snapshots(files') : h.ts <= snapper.ts
    BY <1>0, <1>1, <1>2 DEF SnapperFiles, Snapshots
  <2> QED
    BY <1>0, <1>1, <1>2, <1>4, <2>1, <2>2 DEF SnapperFiles
<1>10. Relevant' = Relevant
  BY <1>1, <1>2, <1>3, <1>4 DEF Relevant, Needed
<1>11. Contents(Relevant)' = Contents(Relevant)
  BY <1>1, <1>10 DEF Contents
<1>12. MemoryOK'
  BY <1>0, <1>1, <1>11 DEF MemoryOK, Settled, OnItsWay
<1> QED
  BY <1>5, <1>6, <1>7, <1>8, <1>9, <1>12 DEF Inv, SnapperOK

LEMMA InvStep == Inv /\ [Next]_vars => Inv'
<1> SUFFICES ASSUME Inv, [Next]_vars PROVE Inv'
  OBVIOUS
<1>1. CASE \/ \E op \in Ops : Dump(op)
           \/ \E then \in {"stop", "clear"} : Stop(then)
           \/ StopLooks \/ StopWaits \/ ClearBegins \/ Play
  BY <1>1, CallerKeeps
<1>2. CASE ClearRemoves
  BY <1>2, ClearKeeps
<1>3. CASE SwapLog \/ Record \/ Restart
  BY <1>3, NewLogKeeps
<1>4. CASE Swap
  BY <1>4, SwapKeeps
<1>5. CASE NoSwap \/ Receive \/ Poll \/ Stopped
  BY <1>5, RecorderKeeps
<1>6. CASE Encode
  BY <1>6, EncodeKeeps
<1>7. CASE SnapLatest \/ SnapStarted \/ SnapBroadcast \/ SnapDone
  BY <1>7, SnapperKeeps
<1>8. CASE SnapCreate \/ SnapWrite
  BY <1>8, UnfinishedKeeps
<1>9. CASE SnapRename
  BY <1>9, RenameKeeps
<1>10. CASE SnapRemove
  BY <1>10, RemoveKeeps
<1>11. CASE Crash
  BY <1>11, CrashKeeps
<1>12. CASE UNCHANGED vars
  <2>1. /\ UNCHANGED <<tree, files, clock, state, snapping, caller, recorder, snapper>>
        /\ FilesOK /\ RecorderOK /\ CallerOK /\ SnapperControl /\ SnapperFiles /\ MemoryOK
    BY <1>12 DEF vars, Inv, SnapperOK
  <2>2. FilesOK' /\ SnapperFiles' /\ Contents(Relevant)' = Contents(Relevant)
    BY <2>1, QuietStep
  <2>3. RecorderOK'
    BY <2>1 DEF RecorderOK, Running
  <2>4. CallerOK'
    BY <2>1 DEF CallerOK
  <2>5. SnapperControl'
    BY <2>1 DEF SnapperControl, Running
  <2>6. MemoryOK'
    BY <2>1, <2>2 DEF MemoryOK, Settled, OnItsWay
  <2> QED
    BY <2>2, <2>3, <2>4, <2>5, <2>6 DEF Inv, SnapperOK
<1> QED
  BY <1>1, <1>2, <1>3, <1>4, <1>5, <1>6, <1>7, <1>8, <1>9, <1>10, <1>11, <1>12
     DEF Next, CallerStep, RecorderStep, SnapperStep
----------------------------------------------------------------------------
(* The theorems *)

(* The invariant: where the three goroutines can be, what files they find, *)
(* and that the files needed hold all that the tree has.                   *)
THEOREM LoggerInductive == Spec => []Inv
BY InvInit, InvStep, PTL DEF Spec

(* createLogger never gives a name twice, and the logger and its threads   *)
(* are in the states the code knows.                                       *)
THEOREM LoggerTypes == Spec => []TypeOK
<1>1. Inv => TypeOK
  BY DEF Inv, FilesOK, RecorderOK, CallerOK, SnapperOK, SnapperControl, File, TypeOK
<1> QED
  BY <1>1, LoggerInductive, PTL

(* Play and Clear run with no recorder and no snapshot at work, and the    *)
(* recorder's logfile is never one that a clean-up deletes.                *)
THEOREM FilesStaySafe == Spec => []FilesAreSafe
<1>1. Inv => FilesAreSafe
  BY DEF Inv, RecorderOK, CallerOK, SnapperOK, SnapperControl, Running, IsData, FilesAreSafe
<1> QED
  BY <1>1, LoggerInductive, PTL

(* A set of at most one member. *)
LEMMA AtMostOne ==
  ASSUME NEW F, IsFiniteSet(F), Cardinality(F) <= 1
  PROVE  \A a, b \in F : a = b
<1> SUFFICES ASSUME NEW a \in F, NEW b \in F, a # b PROVE FALSE
  OBVIOUS
<1>1. IsFiniteSet({a}) /\ Cardinality({a}) = 1
  BY FS_Singleton
<1>2. IsFiniteSet({a} \cup {b}) /\ Cardinality({a} \cup {b}) = 2
  BY <1>1, FS_AddElement
<1>3. Cardinality({a} \cup {b}) <= Cardinality(F)
  <2>1. {a} \cup {b} \subseteq F
    OBVIOUS
  <2> QED
    BY <2>1, FS_Subset
<1>4. Cardinality(F) \in Nat
  BY FS_CardinalityType
<1> QED
  BY <1>2, <1>3, <1>4

(* Wherever the process crashes, in a swap, a snapshot or its clean-up,    *)
(* Play brings back what the tree had, but for what was on its way to the  *)
(* logfile, as long as the directory holds at most one snapshot.           *)
THEOREM CrashesLoseNothing == Spec => []NothingLostWithOneSnapshot
<1>1. Inv => NothingLostWithOneSnapshot
  <2> SUFFICES ASSUME Inv, Settled, Cardinality(Snapshots(files)) <= 1 PROVE InMemory = tree
    BY DEF NothingLostWithOneSnapshot
  <2>0. FilesOK /\ SnapperFiles /\ MemoryOK
    BY DEF Inv, SnapperOK
  <2>1. Relevant = Latest(files)
    <3>1. CASE snapper.pc \notin {"clear", "done"}
      BY <3>1 DEF Relevant, Needed
    <3>2. CASE snapper.pc \in {"clear", "done"}
      <4>1. PICK s \in files : s.ts = snapper.ts /\ s.suffix = "snap"
        BY <2>0, <3>2 DEF SnapperFiles
      <4>2. Snapshots(files) \subseteq files /\ s \in Snapshots(files)
        BY <4>1 DEF Snapshots
      <4>3. IsFiniteSet(Snapshots(files))
        BY <2>0, <4>2, FS_Subset DEF FilesOK
      <4>4. \A a, b \in Snapshots(files) : a = b
        BY <4>3, AtMostOne
      <4>5. Snapshots(files) = {s}
        BY <4>2, <4>4
      <4>6. \A f \in files : f.ts \in Nat /\ (f.ts = s.ts => f = s)
        BY <2>0, <4>1 DEF FilesOK, File
      <4>7. Latest(files) = {s} \cup {f \in files : f.suffix = "log" /\ s.ts < f.ts}
        BY <4>5, <4>6 DEF Latest
      <4>8. Relevant = {s} \cup {f \in files : f.suffix = "log" /\ s.ts < f.ts}
        BY <3>2, <4>1, <4>6 DEF Relevant, Needed
      <4> QED
        BY <4>7, <4>8
    <3> QED
      BY <3>1, <3>2
  <2> QED
    BY <2>0, <2>1 DEF MemoryOK, OnItsWay, InMemory, Played
<1> QED
  BY <1>1, LoggerInductive, PTL
============================================================================
