-------------------------------- MODULE Sync --------------------------------
(***************************************************************************)
(* radix/sync.go, subtree_wrapper.go: a Sync copies what is newer from a   *)
(* source tree to a destination tree, one HashTree call at a time, while   *)
(* both trees are in use.  One of them is remote (remote_hash_tree.go):    *)
(* a call to it that fails answers with zeros and changes nothing, and the *)
(* Sync goes on.                                                           *)
(*                                                                         *)
(* The recursion is a stack of frames.  A frame is a call of synchronize,  *)
(* with the prints of the two nodes, after the beginning of Run where it   *)
(* is the first of a Sync; at is <<>> in the main tree and <<key>> in the  *)
(* sub tree at key, where the calls go through a subTreeWrapper.           *)
(***************************************************************************)
EXTENDS TreeOps

CONSTANTS Keys, SubKeys, SubAt,   \* as in Tree
          Scenarios               \* [tree, mode, now]: where a Sync begins

ASSUME SyncAssumption ==
  /\ SubAt \subseteq Keys
  /\ \A s \in Scenarios : s.mode.destructive => s.mode.remote = "dst"   \* as in clean

VARIABLES tree,      \* the two trees
          stack,     \* what the Sync is doing, innermost first
          mode,      \* [destructive, limits, remote, failures, writes]: limits is {} or
                     \* {<<from, to>>}, remote is the tree whose calls may fail, failures
                     \* and writes bound the two counters
          now,
          writes,    \* how many operations of others there have been
          failures,  \* how many calls have failed
          newest     \* the newest mark there has been at every address

vars == <<tree, stack, mode, now, writes, failures, newest>>

Sides == {"src", "dst"}
Addresses == {<<k>> : k \in Keys} \cup {<<k, s>> : k \in SubAt, s \in SubKeys}
NoMark == [val |-> NoBytes, ts |-> 0, live |-> FALSE]

MarkAt(t, a) ==
  LET top == Get(t, a[1])
      e == IF Len(a) = 1 THEN top
           ELSE IF HasSub(t, a[1]) THEN Get(top.tree, a[2])
           ELSE [val |-> NoBytes, ts |-> 0, use |-> {}]
  IN [val |-> e.val, ts |-> e.ts, live |-> "byte" \in e.use]
Newer(m, n) == IF n.ts > m.ts THEN n ELSE m

(* The newest mark at a in the two trees, unless the source's sub tree was *)
(* emptied after it: a Sync takes that for a Clear, at the time of the     *)
(* last Put or Clear, even if it was the deletion of something else.       *)
ClearedAt(t, a) ==
  IF Len(a) = 2 /\ HasSub(t, a[1]) /\ Size(Sub(t, a[1])) = 0 THEN Sub(t, a[1]).dataTs ELSE 0
NewestOf(ts, a) ==
  LET m == Newer(MarkAt(ts["src"], a), MarkAt(ts["dst"], a))
  IN IF ClearedAt(ts["src"], a) > m.ts THEN NoMark ELSE m

Frame(at, key, pc) ==
  [at |-> at, key |-> key, pc |-> pc, sp |-> NoPrint(<<>>), dp |-> NoPrint(<<>>),
   got |-> <<>>, next |-> 1]

Init ==
  /\ \E s \in Scenarios :
       /\ tree = s.tree /\ mode = s.mode /\ now = s.now
  /\ stack = <<Frame(<<>>, <<>>, "run")>>
  /\ failures = 0 /\ writes = 0
  /\ newest = [a \in Addresses |-> NewestOf(tree, a)]
----------------------------------------------------------------------------
(* Calls *)

top == Head(stack)
Goto(frame) == stack' = <<frame>> \o Tail(stack)
GotoPc(pc) == Goto([top EXCEPT !.pc = pc])
Call(frame, back) == stack' = <<frame, back>> \o Tail(stack)
Return == stack' = Tail(stack)
At(pc) == stack # <<>> /\ top.pc = pc

Works == UNCHANGED failures
Fails(side) == side = mode.remote /\ failures < mode.failures /\ failures' = failures + 1
Same == UNCHANGED <<mode, now, writes, newest>>
Reads == Same /\ UNCHANGED tree

(* What the wrapper makes of the calls in a sub tree. *)
HashAt(t) == IF top.at = <<>> THEN Hash(t) ELSE Finger(t, top.at[1]).treeHash
FingerAt(t) == IF top.at = <<>> THEN Finger(t, top.key) ELSE SubFinger(t, top.at[1], top.key)
ConfAt(t) ==
  LET u == IF top.at = <<>> THEN t ELSE Sub(t, top.at[1])
  IN IF u = NoTree THEN [conf |-> "", ts |-> 0] ELSE [conf |-> u.conf, ts |-> u.confTs]
GetAt(t) == MarkAt(t, top.at \o <<top.sp.key>>)
PutAt(t, m, expected) ==
  IF top.at = <<>> THEN PutTimestamp(t, top.sp.key, m.val, m.live, expected, m.ts, now)
  ELSE SubPutTimestamp(t, top.at[1], top.sp.key, m.val, m.live, expected, m.ts, now)
DelAt(t, expected) ==
  IF top.at = <<>> THEN DelTimestamp(t, top.sp.key, expected, now)
  ELSE SubDelTimestamp(t, top.at[1], top.sp.key, expected, now)
ConfigureAt(t, c) ==
  IF top.at = <<>> THEN Configure(t, c.conf, c.ts, now)
  ELSE SubConfigure(t, top.at[1], c.conf, c.ts, now)
----------------------------------------------------------------------------
(* Limits: within them the key space is a circle *)

BetweenII(x, from, to) ==
  CASE nComp(from, to) = 0 -> TRUE
    [] nComp(from, to) < 0 -> nComp(from, x) < 1 /\ nComp(x, to) < 1
    [] OTHER -> nComp(from, x) < 1 \/ nComp(x, to) < 1
BetweenIE(x, from, to) ==
  CASE nComp(from, to) = 0 -> TRUE
    [] nComp(from, to) < 0 -> nComp(from, x) < 1 /\ nComp(x, to) < 0
    [] OTHER -> nComp(from, x) < 1 \/ nComp(x, to) < 0

Limits == IF top.at = <<>> THEN mode.limits ELSE {}       \* a sub Sync has none
potentiallyWithinLimits(key) ==
  \A l \in Limits :
    LET m == Min({Len(key), Len(l[1]), Len(l[2])})
    IN BetweenII(Take(key, m), Take(l[1], m), Take(l[2], m))
withinLimits(key) == \A l \in Limits : BetweenIE(key, l[1], l[2])
----------------------------------------------------------------------------
(* Run *)

(* From and To are equal: nothing to do.  Unless it is destructive, the    *)
(* Sync begins with the hashes.                                            *)
RunEmpty ==
  /\ At("run") /\ \E l \in Limits : l[1] = l[2]
  /\ Return /\ Works /\ Reads
RunDestructive ==
  /\ At("run") /\ \A l \in Limits : l[1] # l[2]
  /\ mode.destructive
  /\ GotoPc("conf") /\ Works /\ Reads
RunHash ==
  /\ At("run") /\ \A l \in Limits : l[1] # l[2]
  /\ ~mode.destructive
  /\ \/ Works /\ Goto([top EXCEPT !.pc = "compare", !.got = HashAt(tree["src"])])
     \/ Fails("src") /\ Goto([top EXCEPT !.pc = "compare", !.got = <<>>])
  /\ Reads
RunCompare ==
  /\ At("compare")
  /\ \/ Works /\ (IF top.got = HashAt(tree["dst"]) THEN Return ELSE GotoPc("conf"))
     \/ Fails("dst") /\ (IF top.got = <<>> THEN Return ELSE GotoPc("conf"))
  /\ Reads

(* The configuration.  Nothing else in this model changes it, so that the  *)
(* two calls to the destination are one step.                              *)
RunConf ==
  /\ At("conf")
  /\ \/ Works /\ Goto([top EXCEPT !.pc = "configure", !.got = ConfAt(tree["src"])])
     \/ Fails("src") /\ Goto([top EXCEPT !.pc = "configure", !.got = [conf |-> "", ts |-> 0]])
  /\ Reads
RunConfigure ==
  /\ At("configure")
  /\ GotoPc("finger")
  /\ \/ /\ Works
        /\ tree' = IF top.got.ts > ConfAt(tree["dst"]).ts
                   THEN [tree EXCEPT !["dst"] = ConfigureAt(@, top.got)] ELSE tree
     \/ Fails("dst") /\ UNCHANGED tree
  /\ Same
----------------------------------------------------------------------------
(* synchronize *)

SourceFinger ==
  /\ At("finger")
  /\ \/ Works /\ Goto([top EXCEPT !.pc = "finger dst", !.got = <<>>, !.sp = FingerAt(tree["src"])])
     \/ Fails("src") /\ Goto([top EXCEPT !.pc = "finger dst", !.got = <<>>])
  /\ Reads
DestinationFinger ==
  /\ At("finger dst")
  /\ LET pc == CASE ~top.sp.exists -> "end"
                 [] top.sp.exists /\ ~top.sp.empty /\ withinLimits(top.sp.key) -> "tree"
                 [] OTHER -> "children"
     IN \/ Works /\ Goto([top EXCEPT !.pc = pc, !.dp = FingerAt(tree["dst"])])
        \/ Fails("dst") /\ Goto([top EXCEPT !.pc = pc])
  /\ Reads

(* A sub tree that differs: an empty one may have to be cleared, *)
SubDiffers == top.sp.subTree /\ top.sp.treeHash # top.dp.treeHash
SubCleared == top.sp.treeSize = 0 /\ top.dp.treeSize > 0 /\ top.sp.treeTs > top.dp.treeTs
SyncClear ==
  /\ At("tree") /\ SubDiffers /\ SubCleared
  /\ GotoPc("sub")
  /\ \/ /\ Works
        /\ tree' = [tree EXCEPT !["dst"] =
                      SubClearTimestamp(@, top.sp.key, top.dp.treeTs, top.sp.treeTs, now)]
     \/ Fails("dst") /\ UNCHANGED tree
  /\ Same
(* and is synchronized by a Sync of its own. *)
SyncSub ==
  /\ \/ At("tree") /\ SubDiffers /\ ~SubCleared
     \/ At("sub")
  /\ Call(Frame(<<top.sp.key>>, <<>>, "run"), [top EXCEPT !.pc = "bytes"])
  /\ Works /\ Reads
(* Equal ones are removed from the source of a destructive Sync. *)
SyncKill ==
  /\ At("tree") /\ top.sp.subTree /\ ~SubDiffers /\ mode.destructive
  /\ GotoPc("bytes")
  /\ tree' = [tree EXCEPT !["src"] = SubKillTimestamp(@, top.sp.key, top.sp.treeTs, now)]
  /\ Works /\ Same
SyncNoSub ==
  /\ At("tree") /\ ~SubDiffers /\ ~(top.sp.subTree /\ mode.destructive)
  /\ GotoPc("bytes") /\ Works /\ Reads

(* The byte value, or tombstone: it is read again, *)
AfterPut == IF mode.destructive THEN "delete" ELSE "children"
SyncGet ==
  /\ At("bytes") /\ top.sp.ts > 0 /\ ~coveredBy(top.sp, top.dp)
  /\ LET Got(m) == IF m.ts = top.sp.ts THEN Goto([top EXCEPT !.pc = "put", !.got = m])
                   ELSE GotoPc(AfterPut)
     IN \/ Works /\ Got(GetAt(tree["src"]))
        \/ Fails("src") /\ Got(NoMark)
  /\ Reads
SyncCovered ==
  /\ At("bytes") /\ (top.sp.ts = 0 \/ coveredBy(top.sp, top.dp))
  /\ GotoPc(IF top.sp.ts > 0 THEN AfterPut ELSE "children")
  /\ Works /\ Reads
(* put, unless the destination has changed, *)
SyncPut ==
  /\ At("put")
  /\ Goto([top EXCEPT !.pc = AfterPut, !.got = <<>>])
  /\ \/ Works /\ tree' = [tree EXCEPT !["dst"] = PutAt(@, top.got, top.dp.ts)]
     \/ Fails("dst") /\ UNCHANGED tree
  /\ Same
(* and deleted, unless the source has. *)
SyncDelete ==
  /\ At("delete")
  /\ GotoPc("children")
  /\ tree' = [tree EXCEPT !["src"] = DelAt(@, top.sp.ts)]
  /\ Works /\ Same

(* The children whose hashes differ, or all of them. *)
SumAt(p, nibble) == {q.sum : q \in {q \in Range(p.subPrints) : q.key[Len(p.key) + 1] = nibble}}
Dissimilar(q) == ~top.dp.exists \/ SumAt(top.dp, q.key[Len(top.sp.key) + 1]) # {q.sum}
SyncChild ==
  /\ At("children") /\ top.next <= Len(top.sp.subPrints)
  /\ LET q == top.sp.subPrints[top.next]
         rest == [top EXCEPT !.next = @ + 1]
     IN IF potentiallyWithinLimits(q.key) /\ (mode.destructive \/ Dissimilar(q))
        THEN Call(Frame(top.at, q.key, "finger"), rest)
        ELSE Goto(rest)
  /\ Works /\ Reads
SyncReturn ==
  /\ At("end") \/ (At("children") /\ top.next > Len(top.sp.subPrints))
  /\ Return /\ Works /\ Reads

SyncStep ==
  \/ RunEmpty \/ RunDestructive \/ RunHash \/ RunCompare \/ RunConf \/ RunConfigure
  \/ SourceFinger \/ DestinationFinger \/ SyncClear \/ SyncSub \/ SyncKill \/ SyncNoSub
  \/ SyncGet \/ SyncCovered \/ SyncPut \/ SyncDelete \/ SyncChild \/ SyncReturn
----------------------------------------------------------------------------
(* Meanwhile somebody writes to one of the trees. *)
Val(side) == IF side = "src" THEN <<1, 1>> ELSE <<1, 0>>
Written(side, a, m) ==
  LET t == tree[side]
  IN CASE Len(a) = 1 /\ m.live -> Put(t, a[1], m.val, m.ts, m.ts)
       [] Len(a) = 1 /\ ~m.live -> FakeDel(t, a[1], m.ts, m.ts)
       [] Len(a) = 2 /\ m.live -> SubPut(t, a[1], a[2], m.val, m.ts, m.ts)
       [] OTHER -> SubFakeDel(t, a[1], a[2], m.ts, m.ts)
Write ==
  /\ writes < mode.writes /\ stack # <<>>
  /\ \E side \in Sides, a \in Addresses, live \in BOOLEAN :
       LET m == [val |-> IF live THEN Val(side) ELSE NoBytes, ts |-> now + 1, live |-> live]
       IN /\ tree' = [tree EXCEPT ![side] = Written(side, a, m)]
          /\ newest' = [newest EXCEPT ![a] = Newer(@, MarkAt(tree'[side], a))]
  /\ now' = now + 1
  /\ writes' = writes + 1
  /\ UNCHANGED <<stack, mode, failures>>

Done == stack = <<>> /\ UNCHANGED vars

Next == SyncStep \/ Write \/ Done
Spec == Init /\ [][Next]_vars
----------------------------------------------------------------------------
Within_(a) == \A l \in mode.limits : l[1] # l[2] /\ BetweenIE(a[1], l[1], l[2])
Value(m) == IF m.live THEN m.val ELSE NoBytes

(***************************************************************************)
(* When a Sync that nothing disturbed has ended, the destination has the   *)
(* newest value of everything within the limits and, unless the Sync was   *)
(* destructive, the newest tombstones of the main tree.  It stops at equal *)
(* hashes, so that this is also what the hashes are for; insertHelp can    *)
(* give equal ones to trees of different keys that begin with the same     *)
(* shorter one (CollidingScenarios of MCSync), which Keys leaves out.      *)
(***************************************************************************)
NewestWins ==
  stack = <<>> /\ writes = 0 /\ failures = 0 =>
    \A a \in {a \in Addresses : Within_(a)} :
      newest[a].live \/ (Len(a) = 1 /\ ~mode.destructive) =>
        Value(MarkAt(tree["dst"], a)) = Value(newest[a])

(***************************************************************************)
(* Whatever is interleaved with it, a Sync never puts something older in   *)
(* the place of something newer, takes nothing from the destination but by *)
(* a Clear that is not older, nothing from the source unless it is         *)
(* destructive, and touches nothing outside its limits.                    *)
(***************************************************************************)
Forward(a) ==
  LET s == MarkAt(tree["src"], a)    d == MarkAt(tree["dst"], a)
      s2 == MarkAt(tree'["src"], a)  d2 == MarkAt(tree'["dst"], a)
  IN /\ s2 # s => mode.destructive /\ Within_(a)
     /\ d2 # d => Within_(a) /\ (d2.ts >= d.ts \/ (d2.ts = 0 /\ d.ts <= ClearedAt(tree["src"], a)))
MovesForward == [][writes' = writes => \A a \in Addresses : Forward(a)]_vars

(***************************************************************************)
(* "Destroy defines that this Sync will delete whatever it copies from the *)
(* source Tree": the newest value of an address is in one of the trees at  *)
(* every moment, even if a destructive Sync races with writers.            *)
(***************************************************************************)
NothingLost ==
  \A a \in Addresses :
    newest[a].live => \E side \in Sides : Value(MarkAt(tree[side], a)) = newest[a].val
============================================================================
