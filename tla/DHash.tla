------------------------------- MODULE DHash -------------------------------
(***************************************************************************)
(* dhash/dhash.go, api_functions.go, dhash_server.go: the nodes of a       *)
(* cluster.  A write is forwarded along the ring until Redundancy nodes    *)
(* have it; three loops per node repair what failures and changes of the   *)
(* ring leave behind: sync exchanges what a node owns with its successors, *)
(* clean gives away what it does not own, migrate moves the node towards a *)
(* more even load.                                                         *)
(*                                                                         *)
(* Abstractions.  A tree is a function from keys to marks: Tree and        *)
(* TreeOps describe it in full.  A radix.Sync is a walk over the keys that *)
(* differ when it begins, as Sync describes it: per key it reads the two   *)
(* marks, puts if neither has changed, and deletes if it is destructive.   *)
(* A node's ring becomes the real ring at some time after every change:    *)
(* that is what Discord's Convergence promises.  The clock is the same     *)
(* everywhere, which Timer is for.                                         *)
(***************************************************************************)
EXTENDS Remotes, SequencesExt

CONSTANTS Key,          \* keys: they share the ring with the positions
          Redundancy,   \* common.Redundancy
          MinOwned,     \* a node with no more than this does not migrate (10 in the code)
          FirstPos,     \* where the nodes begin
          Scenarios     \* one is chosen

(* A scenario: the first nodes, the keys they have values of, the keys the *)
(* client uses and how it writes, and bounds on what happens.              *)
Budget == [founders : (SUBSET Addr) \ {{}}, held : SUBSET Key, keys : SUBSET Key, sync : BOOLEAN,
           writes : Nat, reads : Nat, crashes : Nat, joins : Nat, moves : Nat]

ASSUME DHashAssumption ==
  /\ Key \subseteq Pos /\ IsFiniteSet(Key) /\ IsFiniteSet(Addr)
  /\ Redundancy \in Nat \ {0} /\ MinOwned \in Nat
  /\ FirstPos \in [Addr -> Pos]
  /\ Scenarios \subseteq Budget

VARIABLES alive,     \* the processes that run
          member,    \* the nodes that have joined
          pos,       \* their positions
          view,      \* the ring of every node, a set of remotes
          tree,      \* the marks of every node
          threads,   \* operations under way: [item, stack]
          syncer,    \* the sync loop of every node
          cleaner,   \* the clean loop of every node
          clock,     \* the network's time
          budget     \* what may still happen

nodeVars == <<alive, member, pos, view, tree, threads, syncer, cleaner, clock, budget>>

(* A mark is what a tree has under a key: when it was written, and whether *)
(* it is a value or a tombstone.                                           *)
None == [ts |-> 0, live |-> FALSE]
----------------------------------------------------------------------------
(* The ring *)

Me(n) == [pos |-> pos[n], addr |-> n]
RealRing == {Me(n) : n \in alive \cap member}
Lowest(R) == CHOOSE s \in R : \A x \in R : ~Less(x, s)
Highest(R) == CHOOSE s \in R : \A x \in R : ~Less(s, x)
Or(S, R) == IF S = {} THEN R ELSE S
Successor(R, r) == Lowest(Or({x \in R : Less(r, x)}, R))
Predecessor(R, r) == Highest(Or({x \in R : Less(x, r)}, R))
(* Ring.Remotes: the first remote after the key. *)
SuccessorOf(R, key) == Lowest(Or({x \in R : x.pos > key}, R))
redundancy(R) == Min({Redundancy, Cardinality(R)})
(* The first len remotes of R from r on. *)
Chain(R, r, len) ==
  LET chain[i \in 1 .. len] == IF i = 1 THEN r ELSE Successor(R, chain[i - 1])
  IN chain
(* Who should have a key. *)
RealOwners(k) == {r.addr : r \in Range(Chain(RealRing, SuccessorOf(RealRing, k), redundancy(RealRing)))}
RemoveNode(n, r) == view' = [view EXCEPT ![n] = RingRemove(@, r)]

BetweenIE(x, from, to) ==
  IF from < to THEN from <= x /\ x < to
  ELSE from = to \/ from <= x \/ x < to
(* From and To of a Sync: equal ones make it a Sync of nothing. *)
InLimits(x, from, to) == from # to /\ BetweenIE(x, from, to)
----------------------------------------------------------------------------
(* Writes: put, del and the Slave versions, with forwardOperation.         *)
(*                                                                         *)
(* A thread is a stack of frames, innermost first: a frame handles an      *)
(* operation ("handle", then "apply") or forwards it ("forward").          *)

Frame(n, ttl, pc) == [at |-> n, ttl |-> ttl, pc |-> pc]
top(t) == Head(t.stack)
Becomes(t, stack) == threads' = (threads \ {t}) \cup {[t EXCEPT !.stack = stack]}
LoopsAndRing == UNCHANGED <<alive, member, pos, syncer, cleaner, clock, budget>>

(* Mutant: every operation is forwarded by a goroutine. *)
Handle_Async(t) ==
  LET f == top(t)
      apply == <<[f EXCEPT !.pc = "apply"]>> \o Tail(t.stack)
  IN /\ f.pc = "handle" /\ f.ttl > 1
     /\ threads' = (threads \ {t}) \cup {[t EXCEPT !.stack = apply],
                                         [t EXCEPT !.stack = <<Frame(f.at, f.ttl - 1, "forward")>>]}
     /\ LoopsAndRing /\ UNCHANGED <<view, tree>>

(* A synchronous operation is forwarded first, any other by a goroutine.   *)
Handle(t) ==
  LET f == top(t)
      forward == Frame(f.at, f.ttl - 1, "forward")
      apply == <<[f EXCEPT !.pc = "apply"]>> \o Tail(t.stack)
  IN /\ f.pc = "handle" /\ f.ttl > 1
     /\ \/ t.item.sync /\ Becomes(t, <<forward>> \o apply)
        \/ /\ ~t.item.sync
           /\ threads' = (threads \ {t}) \cup {[t EXCEPT !.stack = apply],
                                               [t EXCEPT !.stack = <<forward>>]}
     /\ LoopsAndRing /\ UNCHANGED <<view, tree>>

(* tree.Put or tree.FakeDel, whatever the tree has; then the call returns, *)
(* and so does the forwardOperation that made it.                          *)
Applies(t) == top(t).pc = "apply" \/ (top(t).pc = "handle" /\ top(t).ttl <= 1)
Returned(stack) ==
  IF stack # <<>> /\ Head(stack).pc = "forward" THEN Tail(stack) ELSE stack
Apply(t) ==
  LET rest == Returned(Tail(t.stack))
  IN /\ Applies(t)
     /\ tree' = [tree EXCEPT ![top(t).at][t.item.key] = t.item.mark]
     /\ IF rest = <<>> THEN threads' = threads \ {t} ELSE Becomes(t, rest)
     /\ LoopsAndRing /\ UNCHANGED view

(* A successor that does not answer is removed, and the next one called.   *)
Forward(t) ==
  LET f == top(t)
      s == Successor(view[f.at], Me(f.at))
  IN /\ f.pc = "forward"
     /\ \/ /\ s.addr \in alive
           /\ Becomes(t, <<Frame(s.addr, f.ttl, "handle")>> \o t.stack)
           /\ UNCHANGED view
        \/ /\ s.addr \notin alive
           /\ RemoveNode(f.at, s)
           /\ UNCHANGED threads
     /\ LoopsAndRing /\ UNCHANGED tree

Serve == \E t \in threads : Handle(t) \/ Forward(t)
----------------------------------------------------------------------------
(* A walk: what a radix.Sync from src to dst does.  One of the two is the  *)
(* node of the loop and the other may be dead: its calls change nothing    *)
(* and answer with nothing.                                                *)

Seen(n, key) == IF n \in alive THEN tree[n][key] ELSE None
(* Print.coveredBy: newer, or the same bytes; all tombstones look alike.   *)
Bytes(m) == IF m.live THEN m.ts ELSE 0
coveredBy(m, d) == d.ts > m.ts \/ (d.ts > 0 /\ Bytes(m) = Bytes(d))
Differing(src, dst, from, to) ==
  {k \in Key : /\ InLimits(k, from, to)
               /\ Seen(src, k).ts > 0
               /\ ~coveredBy(Seen(src, k), Seen(dst, k))}
Present(src, from, to) == {k \in Key : InLimits(k, from, to) /\ Seen(src, k).ts > 0}

Idle == [pc |-> "idle"]
Reading(todo) == [pc |-> "finger", todo |-> todo]
(* Mutant: whatever the destination has by now. *)
PutTimestamp_Late(w, src, dst) ==
  IF /\ {src, dst} \subseteq alive
     /\ w.mark.ts > 0 /\ ~coveredBy(w.mark, w.expected)
     /\ tree[src][w.key].ts = w.mark.ts
  THEN [tree EXCEPT ![dst][w.key] = w.mark] ELSE tree

(* Only if neither mark has changed since it was read. *)
PutTimestamp(w, src, dst) ==
  IF /\ {src, dst} \subseteq alive
     /\ w.mark.ts > 0 /\ ~coveredBy(w.mark, w.expected)
     /\ tree[src][w.key].ts = w.mark.ts
     /\ tree[dst][w.key].ts = w.expected.ts
  THEN [tree EXCEPT ![dst][w.key] = w.mark] ELSE tree
DelTimestamp(w, src) ==
  IF tree[src][w.key].ts = w.mark.ts THEN [tree EXCEPT ![src][w.key] = None] ELSE tree

(* The steps of a walk: what it goes on with, and the trees. *)
Steps(w, src, dst, destructive) ==
  CASE w.pc = "finger" ->
         {[tree |-> tree,
           walk |-> [pc |-> "put", todo |-> w.todo \ {k}, key |-> k,
                     mark |-> Seen(src, k), expected |-> Seen(dst, k)]] : k \in w.todo}
    [] w.pc = "put" ->
         {[tree |-> PutTimestamp(w, src, dst),
           walk |-> IF destructive /\ w.mark.ts > 0 THEN [w EXCEPT !.pc = "delete"]
                    ELSE Reading(w.todo)]}
    [] OTHER -> {[tree |-> DelTimestamp(w, src), walk |-> Reading(w.todo)]}
Walked(w) == w.pc = "finger" /\ w.todo = {}
RingStands == UNCHANGED <<alive, member, pos, view, threads, clock, budget>>
----------------------------------------------------------------------------
(* sync *)

Owns(n) == <<Predecessor(view[n], Me(n)).pos, pos[n]>>
Push(n, peer) == LET o == Owns(n) IN Differing(n, peer, o[1], o[2])
Pull(n, peer) == LET o == Owns(n) IN Differing(peer, n, o[1], o[2])
Round(i, peer, dir, todo) ==
  [pc |-> "sync", i |-> i, peer |-> peer, dir |-> dir, walk |-> Reading(todo)]

(* A round goes through the next successors; one that would find nothing   *)
(* to do changes nothing and is left out.                                  *)
SyncStart(n) ==
  \E s \in {Successor(view[n], Me(n))} :
     /\ n \in alive /\ syncer[n] = Idle
     /\ \E p \in Range(Chain(view[n], s, redundancy(view[n]) - 1)) :
          Push(n, p.addr) \cup Pull(n, p.addr) # {}
     /\ syncer' = [syncer EXCEPT ![n] =
                     Round(0, s, "push", Push(n, s.addr))]
     /\ RingStands /\ UNCHANGED <<tree, cleaner>>
SyncWalk(n) ==
  LET r == syncer[n]
      src == IF r.dir = "push" THEN n ELSE r.peer.addr
      dst == IF r.dir = "push" THEN r.peer.addr ELSE n
  IN /\ n \in alive /\ r.pc = "sync"
     /\ \E step \in Steps(r.walk, src, dst, FALSE) :
          tree' = step.tree /\ syncer' = [syncer EXCEPT ![n].walk = step.walk]
     /\ RingStands /\ UNCHANGED cleaner
(* Mutant: only pushes. *)
SyncTurn_Push(n) ==
  LET r == syncer[n]
      next == Successor(view[n], r.peer)
  IN /\ n \in alive /\ r.pc = "sync" /\ Walked(r.walk)
     /\ syncer' = [syncer EXCEPT ![n] =
          IF r.i + 2 < redundancy(view[n]) THEN Round(r.i + 1, next, "push", Push(n, next.addr)) ELSE Idle]
     /\ RingStands /\ UNCHANGED <<tree, cleaner>>

(* From push to pull, from there to the next successor. *)
SyncTurn(n) ==
  LET r == syncer[n]
      next == Successor(view[n], r.peer)
  IN /\ n \in alive /\ r.pc = "sync" /\ Walked(r.walk)
     /\ syncer' = [syncer EXCEPT ![n] =
          CASE r.dir = "push" -> Round(r.i, r.peer, "pull", Pull(n, r.peer.addr))
            [] r.dir = "pull" /\ r.i + 2 < redundancy(view[n]) ->
                 Round(r.i + 1, next, "push", Push(n, next.addr))
            [] OTHER -> Idle]
     /\ RingStands /\ UNCHANGED <<tree, cleaner>>
----------------------------------------------------------------------------
(* clean *)

(* circularNext: the first marker after the node, round the ring.  The     *)
(* key zero is only found there if it holds a value.                       *)
After(n, p) == {k \in Key : tree[n][k].ts > 0 /\ k > p}
Wrapped(n) == IF 0 \in Key /\ tree[n][0].live THEN {0} ELSE After(n, 0)
circularNext(n) == IF After(n, pos[n]) # {} THEN After(n, pos[n]) ELSE Wrapped(n)

(* GetSuccessorFor, for a successor that confirms that the key is its own; *)
(* while it does not, the node asks on.                                    *)
GetSuccessorFor(n, key) == SuccessorOf(view[n], key)
Confirmed(n, key) ==
  LET s == GetSuccessorFor(n, key)
  IN s.addr = n \/ BetweenIE(key, Predecessor(view[s.addr], Me(s.addr)).pos, s.pos)
(* owners: the successor of the key and those after it. *)
owners(n, key) == Chain(view[n], GetSuccessorFor(n, key), redundancy(view[n]))

Cleans(c, n) == IF c.index = Len(c.owners) - 1 THEN Present(n, c.from, c.owners[1].pos)
                ELSE Differing(n, c.owners[c.index].addr, c.from, c.owners[1].pos)
CleanStart(n) ==
  /\ n \in alive /\ cleaner[n] = Idle /\ circularNext(n) # {}
  /\ \E key \in {Min(circularNext(n))} : \E os \in {owners(n, key)} :
       LET c == [pc |-> "clean", from |-> key, owners |-> os, index |-> 1, walk |-> Idle]
       IN \/ /\ os[1].addr \notin alive
             /\ RemoveNode(n, os[1])
             /\ UNCHANGED cleaner
          \/ /\ os[1].addr \in alive
             /\ \A i \in DOMAIN os : os[i].addr # n
             /\ Confirmed(n, key)
             /\ cleaner' = [cleaner EXCEPT ![n] = [c EXCEPT !.walk = Reading(Cleans(c, n))]]
             /\ UNCHANGED view
  /\ UNCHANGED <<alive, member, pos, tree, threads, syncer, clock, budget>>
(* The Sync to the last but one of the owners is destructive. *)
CleanWalk(n) ==
  LET c == cleaner[n]
      dst == c.owners[c.index].addr
      destructive == c.index = Len(c.owners) - 1
  IN /\ n \in alive /\ c.pc = "clean"
     /\ \E step \in Steps(c.walk, n, dst, destructive) :
          tree' = step.tree /\ cleaner' = [cleaner EXCEPT ![n].walk = step.walk]
     /\ RingStands /\ UNCHANGED syncer
CleanTurn(n) ==
  LET c == [cleaner[n] EXCEPT !.index = @ + 1]
  IN /\ n \in alive /\ cleaner[n].pc = "clean" /\ Walked(cleaner[n].walk)
     /\ cleaner' = [cleaner EXCEPT ![n] =
          IF c.index > Len(c.owners) THEN Idle ELSE [c EXCEPT !.walk = Reading(Cleans(c, n))]]
     /\ RingStands /\ UNCHANGED <<tree, syncer>>
----------------------------------------------------------------------------
(* migrate *)

Count(n, from, to) == Cardinality({k \in Key : tree[n][k].ts > 0 /\ from <= k /\ k < to})
All(n) == Cardinality({k \in Key : tree[n][k].ts > 0})
(* Owned: values and tombstones from the predecessor on. *)
Owned(n) ==
  LET p == Predecessor(view[n], Me(n))
  IN CASE p.pos < pos[n] -> Count(n, p.pos, pos[n])
       [] p.pos > pos[n] -> All(n) - Count(n, pos[n], p.pos)
       [] OTHER -> IF Less(p, Me(n)) THEN 0 ELSE All(n)
(* NextMarkerIndex: the marker at the index, if there is one. *)
MarkerAt(n, i) == {k \in Key : tree[n][k].ts > 0 /\ Count(n, 0, k) = i}

(* The clocks migrate looks at (no Sync, change of the ring or migration   *)
(* for two intervals) are left out: it may run at any time.  The keys of   *)
(* this module are as long as positions, so that changePosition has no     *)
(* zeros to add.                                                           *)
Wanted(n, s, delta) ==
  LET p == Predecessor(view[n], Me(n))
      afterNil == Count(n, 0, s.pos)       \* as the code has it: to the successor
  IN CASE p.pos <= pos[n] -> MarkerAt(n, Count(n, 0, pos[n]) - delta)
       [] afterNil > delta -> MarkerAt(n, afterNil - delta)
       [] OTHER -> MarkerAt(n, All(n) + afterNil - delta)
Migrate(n) ==
  LET s == Successor(view[n], Me(n))
      mine == Owned(n)
  IN /\ n \in alive
     /\ \/ /\ s.addr \notin alive
           /\ RemoveNode(n, s)
           /\ UNCHANGED <<pos, budget>>
        \/ /\ s.addr \in alive
           /\ mine > MinOwned /\ 2 * mine > 3 * Owned(s.addr)
           /\ \E p \in Wanted(n, s, (mine - Owned(s.addr)) \div 2) :
                /\ BetweenIE(p, Predecessor(view[n], Me(n)).pos, pos[n]) /\ p # pos[n]
                /\ pos' = [pos EXCEPT ![n] = p]
                /\ view' = [view EXCEPT ![n] = RingAdd(@, [pos |-> p, addr |-> n])]
           /\ budget.moves > 0 /\ budget' = [budget EXCEPT !.moves = @ - 1]
     /\ UNCHANGED <<alive, member, tree, threads, syncer, cleaner, clock>>
----------------------------------------------------------------------------
(* The ring changes *)

(* Discord brings a node's ring up to date, at some time and in one step:   *)
(* what the notifications and pings of many loops come to when they do.    *)
(* They need not (Convergence fails in Discord), so that what assumes that *)
(* every ring is repaired is only about behaviours in which it is.         *)
Learn(n) ==
  /\ n \in alive \cap member /\ view[n] # RealRing
  /\ view' = [view EXCEPT ![n] = RealRing]
  /\ LoopsAndRing /\ UNCHANGED <<tree, threads>>
Join(n) ==
  /\ n \in alive \ member
  /\ budget.joins > 0 /\ budget' = [budget EXCEPT !.joins = @ - 1]
  /\ member' = member \cup {n}
  /\ view' = [view EXCEPT ![n] = RealRing \cup {Me(n)}]
  /\ UNCHANGED <<alive, pos, tree, threads, syncer, cleaner, clock>>

(* A thread loses its frames on a node that dies: what those called goes   *)
(* on alone, and what called them sees an error, and calls another node.   *)
Pieces(stack, n) ==
  LET Cut(i) == i \notin DOMAIN stack \/ stack[i].at = n
  IN {SubSeq(stack, q[1], q[2]) : q \in
        {p \in (DOMAIN stack) \X (DOMAIN stack) :
           /\ Cut(p[1] - 1) /\ Cut(p[2] + 1)
           /\ p[1] <= p[2] /\ \A m \in p[1] .. p[2] : ~Cut(m)}}
Crash(n) ==
  /\ n \in alive
  /\ budget.crashes > 0 /\ budget' = [budget EXCEPT !.crashes = @ - 1]
  /\ alive' = alive \ {n}
  /\ threads' = UNION {{[t EXCEPT !.stack = st] : st \in Pieces(t.stack, n)} : t \in threads}
  /\ syncer' = [syncer EXCEPT ![n] = Idle]
  /\ cleaner' = [cleaner EXCEPT ![n] = Idle]
  /\ UNCHANGED <<member, pos, view, tree, clock>>

Loops(n) ==
  \/ SyncWalk(n) \/ SyncTurn(n) \/ CleanWalk(n) \/ CleanTurn(n)
  \/ CleanStart(n) \/ SyncStart(n)
Changes(n) == Migrate(n) \/ Learn(n) \/ Join(n) \/ Crash(n)

NodeInit ==
  /\ budget \in Scenarios
  /\ alive = Addr /\ member = budget.founders /\ pos = FirstPos
  /\ view = [n \in Addr |-> IF n \in member THEN RealRing ELSE {Me(n)}]
  /\ tree = [n \in Addr |-> [k \in Key |->
                IF k \in budget.held /\ n \in RealOwners(k) THEN [ts |-> 1, live |-> TRUE] ELSE None]]
  /\ threads = {}
  /\ syncer = [n \in Addr |-> Idle] /\ cleaner = [n \in Addr |-> Idle]
  /\ clock = 1
============================================================================
