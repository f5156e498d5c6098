------------------------------- MODULE Client -------------------------------
(***************************************************************************)
(* client/client.go with the cluster it talks to: a Conn knows a ring of   *)
(* its own, writes to the first owner of a key and reads the newest of     *)
(* what all the owners have.  A node that does not answer is removed, the  *)
(* ring fetched again from another and the operation repeated.             *)
(***************************************************************************)
EXTENDS DHash

VARIABLES conn,      \* the ring of the Conn
          acked,     \* the newest synchronous write that has returned, for every key
          reading    \* the Get under way

clientVars == <<conn, acked, reading>>
vars == <<nodeVars, clientVars>>

(* The frame of the client in a thread; a read, and no read. *)
Caller == Frame(0, 0, "client")
NoRead == [pc |-> "idle"]
ClientStands == UNCHANGED clientVars
NodesStand == UNCHANGED nodeVars

Init ==
  /\ NodeInit
  /\ conn = RealRing
  /\ acked = [k \in Key |-> IF k \in budget.held THEN 1 ELSE 0]
  /\ reading = NoRead

(***************************************************************************)
(* removeNode and Reconnect: the ring of any node that answers.  Reconnect *)
(* panics if there is none.                                                *)
(***************************************************************************)
Reconnect(r) ==
  \E m \in {x \in RingRemove(conn, r) : x.addr \in alive} : conn' = view[m.addr]

(* update: the regular check of the ring. *)
Update ==
  \E r \in conn :
    /\ \/ r.addr \in alive /\ view[r.addr] # conn /\ conn' = view[r.addr]
       \/ r.addr \notin alive /\ Reconnect(r)
    /\ UNCHANGED <<acked, reading>> /\ NodesStand
----------------------------------------------------------------------------
(* put and del *)

ClientWrite(key, live, sync) ==
  /\ budget.writes > 0 /\ budget' = [budget EXCEPT !.writes = @ - 1]
  /\ \A t \in threads : Last(t.stack) # Caller       \* one at a time
  /\ threads' = threads \cup
       {[item |-> [key |-> key, mark |-> [ts |-> 0, live |-> live], sync |-> sync],
         stack |-> <<Caller>>]}
  /\ ClientStands
  /\ UNCHANGED <<alive, member, pos, view, tree, syncer, cleaner, clock>>

(* The call; Node.Put gives the item its TTL and its timestamp. *)
ClientCall(t) ==
  LET s == SuccessorOf(conn, t.item.key)
  IN /\ t.stack = <<Caller>>
     /\ \/ /\ s.addr \in alive
           /\ threads' = (threads \ {t}) \cup
                {[item |-> [t.item EXCEPT !.mark.ts = clock + 1],
                  stack |-> <<Frame(s.addr, redundancy(view[s.addr]), "handle"), Caller>>]}
           /\ clock' = clock + 1
           /\ UNCHANGED conn
        \/ /\ s.addr \notin alive
           /\ Reconnect(s)
           /\ UNCHANGED <<threads, clock>>
     /\ UNCHANGED <<acked, reading>>
     /\ UNCHANGED <<alive, member, pos, view, tree, syncer, cleaner, budget>>

(* The answer, at the end of the first node's handler. *)
Answered(t) == Applies(t) /\ Tail(t.stack) = <<Caller>>
ClientAnswer(t) ==
  /\ Answered(t)
  /\ tree' = [tree EXCEPT ![top(t).at][t.item.key] = t.item.mark]
  /\ threads' = threads \ {t}
  /\ acked' = IF t.item.sync THEN [acked EXCEPT ![t.item.key] = t.item.mark.ts] ELSE acked
  /\ LoopsAndRing
  /\ UNCHANGED <<view, conn, reading>>
----------------------------------------------------------------------------
(* Get: findRecent *)

(* Mutant: only the first owner. *)
Asked_First(key) == {SuccessorOf(conn, key)}

(* The nodes the Conn takes for the owners of a key. *)
Asked(key) ==
  LET nodes[i \in 1 .. redundancy(conn)] ==
        SuccessorOf(conn, IF i = 1 THEN key ELSE nodes[i - 1].pos)
  IN Range(nodes)
Asking(key, floor) ==
  [pc |-> "get", key |-> key, asked |-> Asked(key), best |-> None, floor |-> floor]
ClientGet(key) ==
  /\ reading = NoRead
  /\ budget.reads > 0 /\ budget' = [budget EXCEPT !.reads = @ - 1]
  /\ reading' = Asking(key, acked[key])
  /\ UNCHANGED <<conn, acked>>
  /\ UNCHANGED <<alive, member, pos, view, tree, threads, syncer, cleaner, clock>>
Newest(m, n) == IF m.ts < n.ts THEN n ELSE m
GetAnswer(r) ==
  LET left == [reading EXCEPT !.asked = @ \ {r}]
  IN /\ reading.pc = "get" /\ r \in reading.asked /\ r.addr \in alive
     /\ reading' = [left EXCEPT !.best = Newest(@, tree[r.addr][reading.key])]
     /\ UNCHANGED <<conn, acked>> /\ NodesStand
(* A node that does not answer: from the beginning. *)
GetAgain(r) ==
  /\ reading.pc = "get" /\ r \in reading.asked /\ r.addr \notin alive
  /\ Reconnect(r)
  /\ reading' = [pc |-> "again", key |-> reading.key, floor |-> reading.floor]
  /\ UNCHANGED acked /\ NodesStand
GetStart ==
  /\ reading.pc = "again"
  /\ reading' = Asking(reading.key, reading.floor)
  /\ UNCHANGED <<conn, acked>> /\ NodesStand
GetReturn ==
  /\ reading.pc = "get" /\ reading.asked = {}
  /\ reading' = NoRead
  /\ UNCHANGED <<conn, acked>> /\ NodesStand
Get ==
  \/ \E r \in conn \cup (IF reading.pc = "get" THEN reading.asked ELSE {}) : GetAnswer(r) \/ GetAgain(r)
  \/ GetStart \/ GetReturn
----------------------------------------------------------------------------
(* mergeRecent: slices of the owners' trees, merged                        *)

(* Node.Slice and Node.ReverseSlice: values only, in the order of the keys *)
InOrder(S) ==
  CHOOSE q \in [1 .. Cardinality(S) -> S] : \A i, j \in DOMAIN q : i < j => q[i] < q[j]
Slice(n, up) ==
  LET keys == InOrder({k \in Key : tree[n][k].live})
      items == [i \in DOMAIN keys |-> [key |-> keys[i], mark |-> tree[n][keys[i]]]]
  IN IF up THEN items ELSE Reverse(items)
(* Mutant: the first of two items stays. *)
Merged_First(result, item, up) ==
  LET at == {i \in DOMAIN result :
               IF up THEN item.key <= result[i].key ELSE item.key >= result[i].key}
      i == Min(at)
  IN CASE at = {} -> Append(result, item)
       [] at # {} /\ result[i].key = item.key -> result
       [] OTHER -> InsertAt(result, i, item)

(* MergeItems: an item goes where the search for its key ends, over an     *)
(* older one of the same key.                                              *)
Merged(result, item, up) ==
  LET at == {i \in DOMAIN result :
               IF up THEN item.key <= result[i].key ELSE item.key >= result[i].key}
      i == Min(at)
  IN CASE at = {} -> Append(result, item)
       [] at # {} /\ result[i].key = item.key ->
            [result EXCEPT ![i].mark = Newest(@, item.mark)]
       [] OTHER -> InsertAt(result, i, item)
MergedAll(result, items, up) ==
  LET r[i \in 0 .. Len(items)] == IF i = 0 THEN result ELSE Merged(r[i - 1], items[i], up)
  IN r[Len(items)]
MergeItems(slices, up) ==
  LET r[j \in 1 .. Len(slices)] == IF j = 1 THEN slices[1] ELSE MergedAll(r[j - 1], slices[j], up)
  IN r[Len(slices)]
----------------------------------------------------------------------------
(* One write after another, all of them synchronous or none: budget.sync.  *)
Write == \E key \in budget.keys, live \in BOOLEAN : ClientWrite(key, live, budget.sync)
Run ==
  \/ Serve /\ ClientStands
  \/ \E t \in threads : (~Answered(t) /\ Apply(t) /\ ClientStands) \/ ClientAnswer(t) \/ ClientCall(t)
Loop(n) == Loops(n) /\ ClientStands
Change(n) == Changes(n) /\ ClientStands

Next ==
  \/ Write \/ Run \/ Update \/ Get
  \/ \E key \in budget.keys : ClientGet(key)
  \/ \E n \in Addr : Loop(n) \/ Change(n)

(* Goroutines run and the loops of a node go on.  That Discord repairs the *)
(* rings is a hypothesis, not what its code gives in every case.           *)
Work == Run \/ Get \/ \E n \in Addr : Loop(n)
Repair == \E n \in Addr : Learn(n) /\ ClientStands
Fairness == WF_vars(Work) /\ WF_vars(Repair)
Spec == Init /\ [][Next]_vars /\ Fairness
----------------------------------------------------------------------------
(***************************************************************************)
(* "... will not return until all nodes responsible for the written data   *)
(* has received the data": once a synchronous write has returned, it or a  *)
(* newer one is on a node that runs, whatever the loops do meanwhile, as   *)
(* long as fewer than Redundancy nodes have crashed.                       *)
(***************************************************************************)
Durable ==
  \A k \in Key : acked[k] > 0 => \E n \in alive : tree[n][k].ts >= acked[k]

(***************************************************************************)
(* A Get returns nothing older than the last synchronous write that had    *)
(* returned when it began, even with a ring that is out of date.           *)
(***************************************************************************)
ReadsAreFresh ==
  reading.pc = "get" /\ reading.asked = {} => reading.best.ts >= reading.floor

AllNodes == InOrder(Addr)

(***************************************************************************)
(* Slices of any nodes merge to the newest value of every key one of them  *)
(* has, each once and in order, forwards and backwards.                    *)
(***************************************************************************)
MergesAreRight ==
  \A up \in BOOLEAN :
    LET slices == [i \in DOMAIN AllNodes |-> Slice(AllNodes[i], up)]
        merged == MergeItems(slices, up)
        items == UNION {Range(slices[n]) : n \in DOMAIN slices}
    IN /\ Range(merged) =
            {x \in items : \A y \in items : x.key = y.key => y.mark.ts <= x.mark.ts}
       /\ \A i \in 1 .. Len(merged) - 1 :
            IF up THEN merged[i].key < merged[i + 1].key ELSE merged[i].key > merged[i + 1].key

(***************************************************************************)
(* The loops never undo a write: whatever arrives between the reading of   *)
(* two marks by a Sync and its PutTimestamp, no tree goes back to an older *)
(* or other mark of the same time.  Only the destructive Sync of a clean   *)
(* forgets a mark, and then the very one it has offered to the owner, not  *)
(* one that was written since.                                             *)
(***************************************************************************)
LoopStep(n, k) ==
  \/ tree'[n][k] = tree[n][k]
  \/ tree'[n][k].ts > tree[n][k].ts
  \/ /\ cleaner[n].pc = "clean"
     /\ cleaner[n].walk.pc = "delete"
     /\ cleaner[n].walk.key = k
     /\ cleaner[n].walk.mark = tree[n][k]
     /\ tree'[n][k] = None
LoopsMoveForward ==
  [][tree' # tree /\ (syncer' # syncer \/ cleaner' # cleaner) =>
       \A n \in Addr, k \in Key : LoopStep(n, k)]_vars

(***************************************************************************)
(* When the writes and the changes of the ring have come to an end, in the *)
(* long run all owners of a key have the same value or none, and no other  *)
(* node has it: except that clean never finds what lies at the very        *)
(* position of a node, where migrate puts every node it moves.  This holds *)
(* if every ring is repaired in the end (Repair): where Discord hands the  *)
(* remote of a dead node round for ever, nothing is claimed.               *)
(***************************************************************************)
Settled ==
  \A k \in Key :
    LET held == {Bytes(tree[n][k]) : n \in RealOwners(k)}
    IN /\ Cardinality(held) = 1
       /\ \A n \in alive \ RealOwners(k) : k # pos[n] => tree[n][k] = None
Converges == <>[]Settled
============================================================================
