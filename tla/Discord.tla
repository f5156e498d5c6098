------------------------------ MODULE Discord ------------------------------
(***************************************************************************)
(* discord/node.go: the nodes of a cluster each keep a ring of remotes and *)
(* repair it by calling each other.                                        *)
(*                                                                         *)
(* Every node runs two loops, notifySuccessor and pingPredecessor, each    *)
(* with at most one call under way.  The state of the call, and of the     *)
(* handler that serves it, is kept with the caller, in notify[n] and       *)
(* ping[n]; the handler runs at call.to.addr, also when the caller dies.   *)
(* Ring operations are atomic (Ring.lock); Node.routeLock makes whoever    *)
(* changes the ring exclude the other writers, but not the readers.        *)
(***************************************************************************)
EXTENDS Remotes

CONSTANTS Formed,        \* the nodes that form a ring to begin with
          FirstPos,      \* [Addr -> Pos]: where they are then
          ZeroPos,       \* the position NewNode gives a node
          MaxCrashes,    \* bound: processes killed
          MaxRestarts,   \* bound: processes started again at an old address
          MaxStops,      \* bound: calls of Stop
          MaxFailures,   \* bound: calls to a living process that fail
          MaxMoves       \* bound: calls of SetPosition from outside Join

ASSUME DiscordAssumption ==
  /\ Formed \subseteq Addr
  /\ ZeroPos \in Pos
  /\ FirstPos \in [Addr -> Pos]
  /\ {MaxCrashes, MaxRestarts, MaxStops, MaxFailures, MaxMoves} \subseteq Nat

VARIABLES state,      \* Node.state, and how the process ended
          position,   \* Node.position
          ring,       \* Node.ring
          moving,     \* SetPosition has set the position but not the ring yet
          notify,     \* the call of the notifySuccessor loop
          ping,       \* the call of the pingPredecessor loop
          join,       \* how far Join has come
          budget      \* what is left of the bounds

vars == <<state, position, ring, moving, notify, ping, join, budget>>

States == {"created", "started", "stopped", "crashed",
           "panicked: removing itself", "panicked: removing the last node"}

Alive(n) == state[n] \in {"started", "stopped"}
Self(n)  == [pos |-> position[n], addr |-> n]            \* Node.Remote

NoRemote == [pos |-> ZeroPos, addr |-> CHOOSE a \in Addr : TRUE]
IdleNotify == [pc |-> "idle", to |-> NoRemote, arg |-> NoRemote, pred |-> NoRemote]
IdlePing == [pc |-> "idle", to |-> NoRemote, hash |-> {},
             me |-> NoRemote, nodes |-> {}, pred |-> NoRemote]
NotJoined(n) == [pc |-> "no", peer |-> n, nodes |-> {}]
InFormedRing(n) == [pc |-> "formed", peer |-> n, nodes |-> {}]

(* The Ping handler of call k that holds m's routeLock across its steps.   *)
HoldsLock(k, m) == ping[k].pc \in {"addMe", "addPred", "clean"} /\ ping[k].to.addr = m
Unlocked(m) == \A k \in Addr : ~HoldsLock(k, m)

Init ==
  /\ state = [n \in Addr |-> IF n \in Formed THEN "started" ELSE "created"]
  /\ position = [n \in Addr |-> IF n \in Formed THEN FirstPos[n] ELSE ZeroPos]
  /\ ring = [n \in Addr |-> IF n \in Formed
                            THEN {[pos |-> FirstPos[k], addr |-> k] : k \in Formed}
                            ELSE {}]
  /\ moving = [n \in Addr |-> FALSE]
  /\ notify = [n \in Addr |-> IdleNotify]
  /\ ping = [n \in Addr |-> IdlePing]
  /\ join = [n \in Addr |-> IF n \in Formed THEN InFormedRing(n) ELSE NotJoined(n)]
  /\ budget = [crashes |-> MaxCrashes, restarts |-> MaxRestarts, stops |-> MaxStops,
               failures |-> MaxFailures, moves |-> MaxMoves]
----------------------------------------------------------------------------
(* Processes and calls *)

(***************************************************************************)
(* The process of n ends.  A call it was serving is back where its caller  *)
(* has sent it: Switchboard.Call dials again when the connection breaks.   *)
(* Of its own calls those already sent can still have an effect.           *)
(***************************************************************************)
Serving(call, n) ==
  call.to.addr = n /\ call.pc \in {"compare", "fetch", "apply", "addMe", "addPred", "clean"}
Resent(call) == [pc |-> "sent", to |-> call.to, hash |-> call.hash,
                 me |-> NoRemote, nodes |-> {}, pred |-> NoRemote]

Die(n, how) ==
  /\ state' = [state EXCEPT ![n] = how]
  /\ ring' = [ring EXCEPT ![n] = {}]
  /\ moving' = [moving EXCEPT ![n] = FALSE]
  /\ notify' = [notify EXCEPT ![n] = IF @.pc = "sent" THEN @ ELSE IdleNotify]
  /\ ping' = [k \in Addr |->
       CASE k = n /\ (ping[k].pc \in {"picked", "reply"} \/ ping[k].to.addr = n) -> IdlePing
         [] k # n /\ Serving(ping[k], n) -> Resent(ping[k])
         [] OTHER -> ping[k]]

(* A call to m cannot be made: nobody listens there, or (within the bound) *)
(* the network fails although m is another living process.                 *)
Unreachable(m) == state[m] # "started"
CallFails(n, m) ==
  \/ Unreachable(m) /\ UNCHANGED budget
  \/ /\ ~Unreachable(m) /\ m # n /\ budget.failures > 0
     /\ budget' = [budget EXCEPT !.failures = @ - 1]

(***************************************************************************)
(* RemoveNode(r) at n, as the last step of a call: done is what becomes of *)
(* the calls if n survives it.                                             *)
(***************************************************************************)
RemoveNode(n, r, notifyDone, pingDone) ==
  IF r.addr = n THEN Die(n, "panicked: removing itself")
  ELSE /\ Unlocked(n)
       /\ IF RemovesLast(ring[n], r)
          THEN Die(n, "panicked: removing the last node")
          ELSE /\ ring' = [ring EXCEPT ![n] = RingRemove(@, r)]
               /\ notify' = notifyDone
               /\ ping' = pingDone
               /\ UNCHANGED <<state, moving>>
----------------------------------------------------------------------------
(* notifySuccessor and the Notify handler *)

NotifyPick(n) ==
  /\ state[n] = "started" /\ notify[n].pc = "idle"
  /\ \E s \in ring[n] :
       /\ IsSuccessor(s, ring[n], Self(n))
       /\ notify' = [notify EXCEPT ![n] = [@ EXCEPT !.pc = "picked", !.to = s]]
  /\ UNCHANGED <<state, position, ring, moving, ping, join, budget>>

NotifySend(n) ==
  /\ Alive(n) /\ notify[n].pc = "picked"
  /\ notify' = [notify EXCEPT ![n] = [@ EXCEPT !.pc = "sent", !.arg = Self(n)]]
  /\ UNCHANGED <<state, position, ring, moving, ping, join, budget>>

(* Notify at the successor: add the caller, answer with the predecessor. *)
Notify(n) ==
  LET m == notify[n].to.addr IN
  /\ notify[n].pc = "sent" /\ Alive(m) /\ Unlocked(m)
  /\ ring' = [ring EXCEPT ![m] = RingAdd(@, notify[n].arg)]
  /\ \E p \in ring'[m] :
       /\ IsPredecessor(p, ring'[m], Self(m))
       /\ notify' = [notify EXCEPT ![n] =
            IF Alive(n) THEN [@ EXCEPT !.pc = "reply", !.pred = p] ELSE IdleNotify]
  /\ UNCHANGED <<state, position, moving, ping, join, budget>>

NotifyReply(n) ==
  /\ Alive(n) /\ notify[n].pc = "reply"
  /\ LET p == notify[n].pred
     IN IF p.addr = n THEN UNCHANGED ring
        ELSE Unlocked(n) /\ ring' = [ring EXCEPT ![n] = RingAdd(@, p)]
  /\ notify' = [notify EXCEPT ![n] = IdleNotify]
  /\ UNCHANGED <<state, position, moving, ping, join, budget>>

(* The connection breaks before the answer: the call is made again. *)
NotifyReplyLost(n) ==
  /\ Alive(n) /\ notify[n].pc = "reply"
  /\ CallFails(n, notify[n].to.addr)
  /\ notify' = [notify EXCEPT ![n] = [@ EXCEPT !.pc = "sent", !.pred = NoRemote]]
  /\ UNCHANGED <<state, position, ring, moving, ping, join>>

NotifyFails(n) ==
  /\ Alive(n) /\ notify[n].pc = "sent"
  /\ CallFails(n, notify[n].to.addr)
  /\ RemoveNode(n, notify[n].to, [notify EXCEPT ![n] = IdleNotify], ping)
  /\ UNCHANGED <<position, join>>
----------------------------------------------------------------------------
(* pingPredecessor and the Ping handler *)

PingPick(n) ==
  /\ state[n] = "started" /\ ping[n].pc = "idle"
  /\ \E p \in ring[n] :
       /\ IsPredecessor(p, ring[n], Self(n))
       /\ ping' = [ping EXCEPT ![n] = [@ EXCEPT !.pc = "picked", !.to = p]]
  /\ UNCHANGED <<state, position, ring, moving, notify, join, budget>>

PingSend(n) ==
  /\ Alive(n) /\ ping[n].pc = "picked"
  /\ ping' = [ping EXCEPT ![n] = [@ EXCEPT !.pc = "sent", !.hash = ring[n]]]
  /\ UNCHANGED <<state, position, ring, moving, notify, join, budget>>

(* Where a Ping handler ends: the answer is lost on a dead caller. *)
Answered(n) == IF Alive(n)
               THEN [ping[n] EXCEPT !.pc = "reply", !.pred = NoRemote]
               ELSE IdlePing

(* Ping at the predecessor m reads its own remote, *)
PingReceive(n) ==
  LET m == ping[n].to.addr IN
  /\ ping[n].pc = "sent" /\ Alive(m)
  /\ ping' = [ping EXCEPT ![n] = [@ EXCEPT !.pc = "compare", !.me = Self(m)]]
  /\ UNCHANGED <<state, position, ring, moving, notify, join, budget>>

(* and compares the caller's hash with its own.  A hash stands for the     *)
(* ring it was made from.                                                  *)
PingCompare(n) ==
  /\ ping[n].pc = "compare"
  /\ ping' = [ping EXCEPT ![n] = IF ping[n].hash # ring[ping[n].to.addr]
                                 THEN [@ EXCEPT !.pc = "fetch"]
                                 ELSE Answered(n)]
  /\ UNCHANGED <<state, position, ring, moving, notify, join, budget>>

(* The hashes differ: m calls Discord.Nodes back at the caller. *)
PingFetch(n) ==
  /\ ping[n].pc = "fetch" /\ Alive(n)
  /\ ping' = [ping EXCEPT ![n] = [@ EXCEPT !.pc = "apply", !.nodes = ring[n]]]
  /\ UNCHANGED <<state, position, ring, moving, notify, join, budget>>

PingFetchFails(n) ==
  LET m == ping[n].to.addr IN
  /\ ping[n].pc = "fetch"
  /\ CallFails(m, n)
  /\ RemoveNode(m, [pos |-> ZeroPos, addr |-> n], notify, [ping EXCEPT ![n] = Answered(n)])
  /\ UNCHANGED <<position, join>>

(* Mutant: without the routeLock. *)
PingSetNodes_NoLock(n) ==
  LET m == ping[n].to.addr IN
  /\ ping[n].pc = "apply"
  /\ \E p \in ring[m] :
       /\ IsPredecessor(p, ring[m], ping[n].me)
       /\ ping' = [ping EXCEPT ![n] = [@ EXCEPT !.pc = "addMe", !.pred = p, !.nodes = {}]]
  /\ ring' = [ring EXCEPT ![m] = ping[n].nodes]
  /\ UNCHANGED <<state, position, moving, notify, join, budget>>

PingSetNodes(n) ==
  LET m == ping[n].to.addr IN
  /\ ping[n].pc = "apply" /\ Unlocked(m)
  /\ \E p \in ring[m] :
       /\ IsPredecessor(p, ring[m], ping[n].me)
       /\ ping' = [ping EXCEPT ![n] = [@ EXCEPT !.pc = "addMe", !.pred = p, !.nodes = {}]]
  /\ ring' = [ring EXCEPT ![m] = ping[n].nodes]
  /\ UNCHANGED <<state, position, moving, notify, join, budget>>

PingAddMe(n) ==
  /\ ping[n].pc = "addMe"
  /\ ring' = [ring EXCEPT ![ping[n].to.addr] = RingAdd(@, ping[n].me)]
  /\ ping' = [ping EXCEPT ![n] = [@ EXCEPT !.pc = "addPred"]]
  /\ UNCHANGED <<state, position, moving, notify, join, budget>>

PingAddPred(n) ==
  /\ ping[n].pc = "addPred"
  /\ ring' = [ring EXCEPT ![ping[n].to.addr] = RingAdd(@, ping[n].pred)]
  /\ ping' = [ping EXCEPT ![n] = [@ EXCEPT !.pc = "clean"]]
  /\ UNCHANGED <<state, position, moving, notify, join, budget>>

PingClean(n) ==
  LET m == ping[n].to.addr IN
  /\ ping[n].pc = "clean"
  /\ \E e \in ring[m] :
       /\ CleanEnd(e, ring[m], ping[n].me)
       /\ ring' = [ring EXCEPT ![m] = RingClean(@, ping[n].pred, e)]
  /\ ping' = [ping EXCEPT ![n] = Answered(n)]
  /\ UNCHANGED <<state, position, moving, notify, join, budget>>

PingReply(n) ==
  /\ Alive(n) /\ ping[n].pc = "reply" /\ Unlocked(n)
  /\ ring' = [ring EXCEPT ![n] = RingAdd(@, ping[n].me)]
  /\ ping' = [ping EXCEPT ![n] = IdlePing]
  /\ UNCHANGED <<state, position, moving, notify, join, budget>>

PingReplyLost(n) ==
  /\ Alive(n) /\ ping[n].pc = "reply"
  /\ CallFails(n, ping[n].to.addr)
  /\ ping' = [ping EXCEPT ![n] = Resent(@)]
  /\ UNCHANGED <<state, position, ring, moving, notify, join>>

PingFails(n) ==
  /\ Alive(n) /\ ping[n].pc = "sent"
  /\ CallFails(n, ping[n].to.addr)
  /\ RemoveNode(n, ping[n].to, notify, [ping EXCEPT ![n] = IdlePing])
  /\ UNCHANGED <<position, join>>
----------------------------------------------------------------------------
(* Starting, joining, moving and ending *)

Start(n) ==
  /\ state[n] = "created"
  /\ state' = [state EXCEPT ![n] = "started"]
  /\ ring' = [ring EXCEPT ![n] = RingAdd(@, Self(n))]
  /\ UNCHANGED <<position, moving, notify, ping, join, budget>>

(* Join: fetch the peer's nodes, *)
JoinFetch(n, peer) ==
  /\ state[n] = "started" /\ join[n].pc = "no"
  /\ peer # n /\ Alive(peer)
  /\ join' = [join EXCEPT ![n] = [pc |-> "fetched", peer |-> peer, nodes |-> ring[peer]]]
  /\ UNCHANGED <<state, position, ring, moving, notify, ping, budget>>

(* Mutant: the slot lies beyond the last position. *)
JoinSetPosition_Beyond(n) ==
  /\ Alive(n) /\ join[n].pc = "fetched" /\ ~moving[n]
  /\ \E slot \in Pos : position' = [position EXCEPT ![n] = slot + 1]
  /\ moving' = [moving EXCEPT ![n] = TRUE]
  /\ join' = [join EXCEPT ![n] = [@ EXCEPT !.pc = "placed"]]
  /\ UNCHANGED <<state, ring, notify, ping, budget>>

(* take a free slot unless a position was set before, *)
JoinSetPosition(n) ==
  /\ Alive(n) /\ join[n].pc = "fetched" /\ ~moving[n]
  /\ IF position[n] = ZeroPos
     THEN /\ \E slot \in Pos : position' = [position EXCEPT ![n] = slot]
          /\ moving' = [moving EXCEPT ![n] = TRUE]
     ELSE UNCHANGED <<position, moving>>
  /\ join' = [join EXCEPT ![n] = [@ EXCEPT !.pc = "placed"]]
  /\ UNCHANGED <<state, ring, notify, ping, budget>>

(* replace the ring by what was fetched (which does not contain n), *)
JoinSetNodes(n) ==
  /\ Alive(n) /\ join[n].pc = "placed" /\ ~moving[n] /\ Unlocked(n)
  /\ ring' = [ring EXCEPT ![n] = join[n].nodes]
  /\ join' = [join EXCEPT ![n] = [@ EXCEPT !.pc = "set", !.nodes = {}]]
  /\ UNCHANGED <<state, position, moving, notify, ping, budget>>

(* and notify the peer, whose answer is ignored. *)
JoinNotify(n) ==
  LET peer == join[n].peer IN
  /\ Alive(n) /\ join[n].pc = "set" /\ Alive(peer) /\ Unlocked(peer)
  /\ ring' = [ring EXCEPT ![peer] = RingAdd(@, Self(n))]
  /\ join' = [join EXCEPT ![n] = [@ EXCEPT !.pc = "joined"]]
  /\ UNCHANGED <<state, position, moving, notify, ping, budget>>

JoinFails(n) ==
  /\ Alive(n) /\ join[n].pc = "set"
  /\ CallFails(n, join[n].peer)
  /\ join' = [join EXCEPT ![n] = [@ EXCEPT !.pc = "failed"]]
  /\ UNCHANGED <<state, position, ring, moving, notify, ping>>

(* SetPosition: the position changes first, *)
SetPosition(n, p) ==
  /\ state[n] = "started" /\ ~moving[n] /\ join[n].pc \notin {"fetched", "placed"}
  /\ budget.moves > 0 /\ p # position[n]
  /\ position' = [position EXCEPT ![n] = p]
  /\ moving' = [moving EXCEPT ![n] = TRUE]
  /\ budget' = [budget EXCEPT !.moves = @ - 1]
  /\ UNCHANGED <<state, ring, notify, ping, join>>

(* then, with the routeLock, the ring. *)
SetPositionAdd(n) ==
  /\ Alive(n) /\ moving[n] /\ Unlocked(n)
  /\ ring' = [ring EXCEPT ![n] = RingAdd(@, Self(n))]
  /\ moving' = [moving EXCEPT ![n] = FALSE]
  /\ UNCHANGED <<state, position, notify, ping, join, budget>>

(* Stop closes the listener and ends the loops; open connections stay. *)
Stop(n) ==
  /\ state[n] = "started" /\ budget.stops > 0
  /\ state' = [state EXCEPT ![n] = "stopped"]
  /\ budget' = [budget EXCEPT !.stops = @ - 1]
  /\ UNCHANGED <<position, ring, moving, notify, ping, join>>

Crash(n) ==
  /\ Alive(n) /\ budget.crashes > 0
  /\ Die(n, "crashed")
  /\ budget' = [budget EXCEPT !.crashes = @ - 1]
  /\ UNCHANGED <<position, join>>

(* A process is started again at the address of one that ended; what the *)
(* old one had sent and nobody received is lost.                          *)
NewNode(n) ==
  /\ ~Alive(n) /\ state[n] # "created" /\ budget.restarts > 0
  /\ budget' = [budget EXCEPT !.restarts = @ - 1]
  /\ ping[n].pc \in {"idle", "sent"}
  /\ notify' = [notify EXCEPT ![n] = IdleNotify]
  /\ ping' = [ping EXCEPT ![n] = IdlePing]
  /\ state' = [state EXCEPT ![n] = "created"]
  /\ position' = [position EXCEPT ![n] = ZeroPos]
  /\ join' = [join EXCEPT ![n] = NotJoined(n)]
  /\ UNCHANGED <<ring, moving>>
----------------------------------------------------------------------------
NotifyStep(n) ==
  \/ NotifyPick(n) \/ NotifySend(n) \/ Notify(n)
  \/ NotifyReply(n) \/ NotifyReplyLost(n) \/ NotifyFails(n)
PingStep(n) ==
  \/ PingPick(n) \/ PingSend(n) \/ PingReceive(n) \/ PingCompare(n)
  \/ PingFetch(n) \/ PingFetchFails(n)
  \/ PingSetNodes(n) \/ PingAddMe(n) \/ PingAddPred(n) \/ PingClean(n)
  \/ PingReply(n) \/ PingReplyLost(n) \/ PingFails(n)
JoinStep(n) ==
  \/ JoinSetPosition(n) \/ JoinSetNodes(n) \/ JoinNotify(n) \/ JoinFails(n)

Next ==
  \E n \in Addr :
    \/ NotifyStep(n) \/ PingStep(n) \/ JoinStep(n)
    \/ Start(n) \/ Stop(n) \/ Crash(n) \/ NewNode(n)
    \/ SetPositionAdd(n)
    \/ \E peer \in Addr : JoinFetch(n, peer)
    \/ \E p \in Pos : SetPosition(n, p)

Spec == Init /\ [][Next]_vars

(***************************************************************************)
(* The goroutines of a living process keep running: each loop comes round  *)
(* again after its sleep, a handler ends, a Join goes on.  Fairness is     *)
(* strong because a step may wait for the routeLock again and again, but   *)
(* never for good.                                                         *)
(***************************************************************************)
Fairness ==
  \A n \in Addr : SF_vars(NotifyStep(n)) /\ SF_vars(PingStep(n))
                 /\ SF_vars(JoinStep(n) \/ SetPositionAdd(n))

FairSpec == Spec /\ Fairness
----------------------------------------------------------------------------
NotifyCall == [pc : {"idle", "picked", "sent", "reply"},
               to : Remote, arg : Remote, pred : Remote]
PingCall == [pc : {"idle", "picked", "sent", "compare", "fetch", "apply", "addMe", "addPred",
                   "clean", "reply"},
             to : Remote, hash : SUBSET Remote, me : Remote,
             nodes : SUBSET Remote, pred : Remote]
JoinCall == [pc : {"no", "formed", "fetched", "placed", "set", "joined", "failed"},
             peer : Addr, nodes : SUBSET Remote]

TypeOK ==
  /\ state \in [Addr -> States]
  /\ position \in [Addr -> Pos]
  /\ ring \in [Addr -> SUBSET Remote]
  /\ moving \in [Addr -> BOOLEAN]
  /\ notify \in [Addr -> NotifyCall]
  /\ ping \in [Addr -> PingCall]
  /\ join \in [Addr -> JoinCall]
  /\ budget \in [crashes : Nat, restarts : Nat, stops : Nat, failures : Nat, moves : Nat]

(* No ring ever holds two remotes of one address (Ring.Validate), and      *)
(* neither does a ring on its way between two nodes.                       *)
OneRemotePerAddress ==
  \A n \in Addr : \A R \in {ring[n], ping[n].nodes, join[n].nodes} : UniqueAddr(R)

(* The ring of a running node is never empty: Successor, Random and        *)
(* GetSlot index it without looking.                                       *)
RingNeverEmpty == \A n \in Addr : Alive(n) => ring[n] # {}

(* n's own entry is safe from everyone: only a Join that has replaced the  *)
(* ring, or a Ping handler about to put it back, can leave n out of it.    *)
TookOver(n) == join[n].pc \in {"set", "joined", "failed"}
KeepsItself ==
  \A n \in Addr :
    /\ Alive(n) /\ ~TookOver(n)
    /\ \A k \in Addr : ~(HoldsLock(k, n) /\ ping[k].pc = "addMe")
    => HasAddr(ring[n], n)

(* "Why would you want to remove the last Node in the Ring?": a node that  *)
(* did not Join is never asked to.                                         *)
PanicOnlyAfterJoin ==
  \A n \in Addr : state[n] = "panicked: removing the last node" => TookOver(n)

(***************************************************************************)
(* The inductive invariant behind the four properties above: rings on      *)
(* their way are not empty either, a handler at work runs in a living      *)
(* process and answers for it, one handler at most holds a routeLock, and  *)
(* between the steps of Ping's update the ring holds what was just added.  *)
(***************************************************************************)
InFlight ==
  \A n \in Addr :
    /\ ping[n].pc = "apply" => ping[n].nodes # {}
    /\ join[n].pc \in {"fetched", "placed"} => join[n].nodes # {}

Handlers ==
  \A n \in Addr :
    /\ Serving(ping[n], ping[n].to.addr) =>
         Alive(ping[n].to.addr) /\ ping[n].me.addr = ping[n].to.addr
    /\ \A k, m \in Addr : HoldsLock(n, m) /\ HoldsLock(k, m) => n = k

Updating ==
  \A n \in Addr :
    /\ ping[n].pc = "addPred" => ping[n].me \in ring[ping[n].to.addr]
    /\ ping[n].pc = "clean" =>
         /\ ping[n].pred \in ring[ping[n].to.addr]
         /\ \/ ping[n].pred.addr = ping[n].to.addr
            \/ ping[n].me \in ring[ping[n].to.addr]

IInv == /\ TypeOK /\ OneRemotePerAddress /\ RingNeverEmpty /\ InFlight
        /\ Handlers /\ Updating /\ KeepsItself /\ PanicOnlyAfterJoin

(* Once nothing dies, joins or moves any more, the rings of all running    *)
(* members become the same and stay so: the members, where they are.       *)
Lone(n) == ring[n] = {Self(n)} /\ \A k \in Addr \ {n} : ~HasAddr(ring[k], n)
Members == {n \in Addr : state[n] = "started" /\ ~Lone(n)}
Converged == \A n \in Members : ring[n] = {Self(k) : k \in Members}
Convergence == <>[]Converged
============================================================================
