---------------------------- MODULE DiscordProofs ----------------------------
(***************************************************************************)
(* Proofs about Discord for every set of addresses and positions and every *)
(* bound: the routing rings stay well formed.                              *)
(***************************************************************************)
EXTENDS Discord, TLAPS

----------------------------------------------------------------------------
(* Rings *)

(* Ring.Add leaves a ring that holds the new remote and every address the  *)
(* ring held before.                                                       *)
LEMMA AddLemma ==
  ASSUME NEW R, NEW r \in Remote, IsRing(R)
  PROVE  /\ IsRing(RingAdd(R, r))
         /\ r \in RingAdd(R, r)
         /\ \A a \in Addr : HasAddr(R, a) => HasAddr(RingAdd(R, r), a)
         /\ \A x \in R : x.addr # r.addr => x \in RingAdd(R, r)
BY DEF IsRing, UniqueAddr, RingAdd, HasAddr

(* Ring.Remove leaves a ring; unless it panics the ring is not empty, and  *)
(* no other address is lost.                                               *)
LEMMA RemoveLemma ==
  ASSUME NEW R, NEW r \in Remote, IsRing(R)
  PROVE  /\ IsRing(RingRemove(R, r))
         /\ R # {} /\ ~RemovesLast(R, r) => RingRemove(R, r) # {}
         /\ \A a \in Addr : a # r.addr /\ HasAddr(R, a) => HasAddr(RingRemove(R, r), a)
<1>1. IsRing(RingRemove(R, r))
  BY DEF IsRing, UniqueAddr, RingRemove
<1>2. ASSUME R # {}, ~RemovesLast(R, r), RingRemove(R, r) = {} PROVE FALSE
  <2>1. \A x \in R : x.addr = r.addr
    BY <1>2 DEF RingRemove
  <2>2. PICK x \in R : TRUE
    BY <1>2
  <2>3. R = {x}
    BY <2>1, <2>2 DEF IsRing, UniqueAddr
  <2> QED
    BY <1>2, <2>1, <2>2, <2>3 DEF RemovesLast
<1>3. \A a \in Addr : a # r.addr /\ HasAddr(R, a) => HasAddr(RingRemove(R, r), a)
  BY DEF HasAddr, RingRemove
<1> QED
  BY <1>1, <1>2, <1>3

(* Ring.Clean leaves a ring that still holds both ends of the walk. *)
LEMMA CleanLemma ==
  ASSUME NEW R, NEW p \in Remote, NEW e \in R, IsRing(R)
  PROVE  /\ IsRing(RingClean(R, p, e))
         /\ e \in RingClean(R, p, e)
         /\ p \in R => p \in RingClean(R, p, e)
<1>1. IsRing(RingClean(R, p, e))
  BY DEF IsRing, UniqueAddr, RingClean
<1>2. e \in Remote
  BY DEF IsRing
<1>3. /\ e.pos \in Nat /\ e.addr \in Nat
      /\ p.pos \in Nat /\ p.addr \in Nat
  BY <1>2, RemotesAssumption DEF Remote
<1>4. ~Between(e, p, e) /\ ~Between(p, p, e)
  BY <1>3 DEF Between, Less
<1> QED
  BY <1>1, <1>4 DEF RingClean

LEMMA NoRemoteType ==
  ASSUME NEW n \in Addr
  PROVE  NoRemote \in Remote
BY DiscordAssumption DEF NoRemote, Remote
----------------------------------------------------------------------------
(* Type correctness *)

LEMMA IdleType ==
  ASSUME NEW n \in Addr
  PROVE  /\ IdleNotify \in NotifyCall
         /\ IdlePing \in PingCall
         /\ NotJoined(n) \in JoinCall
         /\ InFormedRing(n) \in JoinCall
BY NoRemoteType DEF InFormedRing, IdleNotify, IdlePing, NotJoined, NotifyCall, PingCall, JoinCall

LEMMA TypeInit == Init => TypeOK
<1> SUFFICES ASSUME Init PROVE TypeOK
  OBVIOUS
<1>1. state \in [Addr -> States]
  BY DEF Init, States
<1>2. position \in [Addr -> Pos]
  BY DiscordAssumption DEF Init
<1>3. ring \in [Addr -> SUBSET Remote]
  BY DiscordAssumption DEF Init, Remote
<1>4. moving \in [Addr -> BOOLEAN]
  BY DEF Init
<1>5. /\ notify \in [Addr -> NotifyCall]
      /\ ping \in [Addr -> PingCall]
  BY IdleType DEF Init
<1>6. join \in [Addr -> JoinCall]
  BY IdleType DEF Init
<1>7. budget \in [crashes : Nat, restarts : Nat, stops : Nat, failures : Nat, moves : Nat]
  BY DiscordAssumption DEF Init
<1> QED
  BY <1>1, <1>2, <1>3, <1>4, <1>5, <1>6, <1>7 DEF TypeOK

LEMMA SelfType ==
  ASSUME TypeOK, NEW n \in Addr
  PROVE  Self(n) \in Remote
BY DEF TypeOK, Self, Remote

LEMMA DieType ==
  ASSUME TypeOK, NEW n \in Addr, NEW how \in States, Die(n, how)
  PROVE  /\ state' \in [Addr -> States]
         /\ ring' \in [Addr -> SUBSET Remote]
         /\ moving' \in [Addr -> BOOLEAN]
         /\ notify' \in [Addr -> NotifyCall]
         /\ ping' \in [Addr -> PingCall]
<1>1. /\ state' \in [Addr -> States]
      /\ ring' \in [Addr -> SUBSET Remote]
      /\ moving' \in [Addr -> BOOLEAN]
  BY DEF TypeOK, Die
<1>2. notify' \in [Addr -> NotifyCall]
  BY IdleType DEF TypeOK, Die
<1>3. \A k \in Addr : Resent(ping[k]) \in PingCall
  BY NoRemoteType DEF TypeOK, Resent, PingCall
<1>4. ping' \in [Addr -> PingCall]
  BY <1>3, IdleType DEF TypeOK, Die
<1> QED
  BY <1>1, <1>2, <1>4

LEMMA CallFailsType ==
  ASSUME TypeOK, NEW n, NEW m, CallFails(n, m)
  PROVE  budget' \in [crashes : Nat, restarts : Nat, stops : Nat, failures : Nat, moves : Nat]
BY DEF TypeOK, CallFails

LEMMA RemoveNodeType ==
  ASSUME TypeOK, NEW n \in Addr, NEW r \in Remote,
         NEW N \in [Addr -> NotifyCall], NEW P \in [Addr -> PingCall],
         RemoveNode(n, r, N, P)
  PROVE  /\ state' \in [Addr -> States]
         /\ ring' \in [Addr -> SUBSET Remote]
         /\ moving' \in [Addr -> BOOLEAN]
         /\ notify' \in [Addr -> NotifyCall]
         /\ ping' \in [Addr -> PingCall]
<1>1. CASE Die(n, "panicked: removing itself") \/ Die(n, "panicked: removing the last node")
  BY <1>1, DieType DEF States
<1>2. CASE /\ ring' = [ring EXCEPT ![n] = RingRemove(@, r)]
           /\ notify' = N
           /\ ping' = P
           /\ UNCHANGED <<state, moving>>
  BY <1>2 DEF TypeOK, RingRemove
<1> QED
  BY <1>1, <1>2 DEF RemoveNode

LEMMA NotifyType ==
  ASSUME TypeOK, NEW n \in Addr, NotifyStep(n)
  PROVE  TypeOK'
<1> USE DEF TypeOK
<1>0. /\ notify[n] \in NotifyCall
      /\ notify[n].to \in Remote /\ notify[n].to.addr \in Addr
      /\ notify[n].arg \in Remote /\ notify[n].pred \in Remote
  BY DEF NotifyCall, Remote
<1>1. CASE NotifyPick(n)
  <2>1. PICK s \in ring[n] : notify' = [notify EXCEPT ![n] = [@ EXCEPT !.pc = "picked", !.to = s]]
    BY <1>1 DEF NotifyPick
  <2>2. s \in Remote
    OBVIOUS
  <2>3. [notify[n] EXCEPT !.pc = "picked", !.to = s] \in NotifyCall
    BY <1>0, <2>2 DEF NotifyCall
  <2> QED
    BY <1>1, <2>1, <2>3 DEF NotifyPick
<1>2. CASE NotifySend(n)
  BY <1>2, SelfType DEF NotifySend, NotifyCall
<1>3. CASE Notify(n)
  <2>1. ring' \in [Addr -> SUBSET Remote]
    BY <1>0, <1>3 DEF Notify, RingAdd
  <2>2. PICK p \in ring'[notify[n].to.addr] :
          notify' = [notify EXCEPT ![n] =
            IF Alive(n) THEN [@ EXCEPT !.pc = "reply", !.pred = p] ELSE IdleNotify]
    BY <1>3 DEF Notify
  <2>3. [notify[n] EXCEPT !.pc = "reply", !.pred = p] \in NotifyCall
    BY <1>0, <2>1 DEF NotifyCall
  <2>4. notify' \in [Addr -> NotifyCall]
    BY <1>0, <2>2, <2>3, IdleType
  <2> QED
    BY <1>3, <2>1, <2>4 DEF Notify
<1>4. CASE NotifyReply(n)
  BY <1>4, IdleType DEF NotifyReply, RingAdd, NotifyCall
<1>5. CASE NotifyReplyLost(n)
  BY <1>5, NoRemoteType, CallFailsType, ZenonT(60) DEF NotifyReplyLost, NotifyCall
<1>6. CASE NotifyFails(n)
  <2>1. notify[n].to \in Remote /\ [notify EXCEPT ![n] = IdleNotify] \in [Addr -> NotifyCall]
    BY IdleType DEF NotifyCall
  <2> QED
    BY <1>6, <2>1, RemoveNodeType, CallFailsType DEF NotifyFails
<1> QED
  BY <1>1, <1>2, <1>3, <1>4, <1>5, <1>6 DEF NotifyStep

LEMMA AnsweredType ==
  ASSUME TypeOK, NEW n \in Addr
  PROVE  Answered(n) \in PingCall
BY NoRemoteType, IdleType DEF TypeOK, Answered, PingCall

LEMMA PingType ==
  ASSUME TypeOK, NEW n \in Addr, PingStep(n)
  PROVE  TypeOK'
<1> USE DEF TypeOK
<1>0. /\ ping[n] \in PingCall
      /\ ping[n].to \in Remote /\ ping[n].to.addr \in Addr
      /\ ping[n].me \in Remote /\ ping[n].pred \in Remote
      /\ ping[n].nodes \in SUBSET Remote
  BY DEF PingCall, Remote
<1>1. CASE PingPick(n)
  <2>1. PICK p \in ring[n] : ping' = [ping EXCEPT ![n] = [@ EXCEPT !.pc = "picked", !.to = p]]
    BY <1>1 DEF PingPick
  <2>2. [ping[n] EXCEPT !.pc = "picked", !.to = p] \in PingCall
    BY <1>0 DEF PingCall
  <2> QED
    BY <1>1, <2>1, <2>2 DEF PingPick
<1>2. CASE PingSend(n)
  BY <1>2, ZenonT(60) DEF PingSend, PingCall
<1>3. CASE PingReceive(n)
  BY <1>0, <1>3, SelfType DEF PingReceive, PingCall
<1>4. CASE PingCompare(n)
  <2>1. [ping[n] EXCEPT !.pc = "fetch"] \in PingCall
    BY <1>0 DEF PingCall
  <2> QED
    BY <1>4, <2>1, AnsweredType DEF PingCompare
<1>5. CASE PingFetch(n)
  BY <1>5, ZenonT(60) DEF PingFetch, PingCall
<1>6. CASE PingFetchFails(n)
  <2>1. [ping EXCEPT ![n] = Answered(n)] \in [Addr -> PingCall]
    BY AnsweredType
  <2>2. [pos |-> ZeroPos, addr |-> n] \in Remote
    BY DiscordAssumption DEF Remote
  <2> QED
    BY <1>0, <1>6, <2>1, <2>2, RemoveNodeType, CallFailsType DEF PingFetchFails
<1>7. CASE PingSetNodes(n)
  <2>1. PICK p \in ring[ping[n].to.addr] :
          ping' = [ping EXCEPT ![n] = [@ EXCEPT !.pc = "addMe", !.pred = p, !.nodes = {}]]
    BY <1>7 DEF PingSetNodes
  <2>2. [ping[n] EXCEPT !.pc = "addMe", !.pred = p, !.nodes = {}] \in PingCall
    BY <1>0 DEF PingCall
  <2> QED
    BY <1>0, <1>7, <2>1, <2>2 DEF PingSetNodes
<1>8. CASE PingAddMe(n)
  BY <1>0, <1>8 DEF PingAddMe, RingAdd, PingCall
<1>9. CASE PingAddPred(n)
  BY <1>0, <1>9, SMTT(30) DEF PingAddPred, RingAdd, PingCall
<1>10. CASE PingClean(n)
  BY <1>0, <1>10, AnsweredType DEF PingClean, RingClean
<1>11. CASE PingReply(n)
  BY <1>0, <1>11, IdleType DEF PingReply, RingAdd
<1>12. CASE PingReplyLost(n)
  <2>1. Resent(ping[n]) \in PingCall
    BY NoRemoteType DEF Resent, PingCall
  <2> QED
    BY <1>12, <2>1, CallFailsType DEF PingReplyLost
<1>13. CASE PingFails(n)
  <2>1. [ping EXCEPT ![n] = IdlePing] \in [Addr -> PingCall]
    BY IdleType
  <2> QED
    BY <1>0, <1>13, <2>1, RemoveNodeType, CallFailsType DEF PingFails
<1> QED
  BY <1>1, <1>2, <1>3, <1>4, <1>5, <1>6, <1>7, <1>8, <1>9, <1>10, <1>11, <1>12, <1>13
     DEF PingStep

LEMMA JoinType ==
  ASSUME TypeOK, NEW n \in Addr,
         JoinStep(n) \/ (\E peer \in Addr : JoinFetch(n, peer)) \/ SetPositionAdd(n)
  PROVE  TypeOK'
<1> USE DEF TypeOK
<1>0. join[n] \in JoinCall /\ join[n].peer \in Addr /\ join[n].nodes \in SUBSET Remote
  BY DEF JoinCall
<1>1. ASSUME NEW peer \in Addr, JoinFetch(n, peer) PROVE TypeOK'
  BY <1>1 DEF JoinFetch, JoinCall
<1>2. CASE JoinSetPosition(n)
  <2>1. position' \in [Addr -> Pos] /\ moving' \in [Addr -> BOOLEAN]
    BY <1>2, ZenonT(60) DEF JoinSetPosition
  <2>2. join' \in [Addr -> JoinCall]
    BY <1>0, <1>2 DEF JoinSetPosition, JoinCall
  <2> QED
    BY <1>2, <2>1, <2>2 DEF JoinSetPosition
<1>3. CASE JoinSetNodes(n)
  BY <1>0, <1>3 DEF JoinSetNodes, JoinCall
<1>4. CASE JoinNotify(n)
  <2>1. [join[n] EXCEPT !.pc = "joined"] \in JoinCall
    BY <1>0 DEF JoinCall
  <2> QED
    BY <1>0, <1>4, <2>1, SelfType DEF JoinNotify, RingAdd
<1>5. CASE JoinFails(n)
  BY <1>0, <1>5, CallFailsType DEF JoinFails, JoinCall
<1>6. CASE SetPositionAdd(n)
  BY <1>6, SelfType DEF SetPositionAdd, RingAdd
<1> QED
  BY <1>1, <1>2, <1>3, <1>4, <1>5, <1>6 DEF JoinStep

LEMMA ProcessType ==
  ASSUME TypeOK, NEW n \in Addr,
         \/ Start(n) \/ Stop(n) \/ Crash(n) \/ NewNode(n)
         \/ \E p \in Pos : SetPosition(n, p)
  PROVE  TypeOK'
<1> USE DEF TypeOK
<1>1. CASE Start(n)
  BY <1>1, SelfType DEF Start, RingAdd, States
<1>2. CASE Stop(n)
  <2>1. state' \in [Addr -> States]
    BY <1>2 DEF Stop, States
  <2>2. budget' \in [crashes : Nat, restarts : Nat, stops : Nat, failures : Nat, moves : Nat]
    BY <1>2 DEF Stop
  <2> QED
    BY <1>2, <2>1, <2>2 DEF Stop
<1>3. CASE Crash(n)
  <2>1. "crashed" \in States
    BY DEF States
  <2> QED
    BY <1>3, <2>1, DieType DEF Crash
<1>4. CASE NewNode(n)
  <2>1. state' \in [Addr -> States]
    BY <1>4 DEF NewNode, States
  <2>2. budget' \in [crashes : Nat, restarts : Nat, stops : Nat, failures : Nat, moves : Nat]
    BY <1>4 DEF NewNode
  <2>3. /\ position' \in [Addr -> Pos]
        /\ notify' \in [Addr -> NotifyCall]
        /\ ping' \in [Addr -> PingCall]
        /\ join' \in [Addr -> JoinCall]
    BY <1>4, IdleType, DiscordAssumption DEF NewNode
  <2> QED
    BY <1>4, <2>1, <2>2, <2>3 DEF NewNode
<1>5. ASSUME NEW p \in Pos, SetPosition(n, p) PROVE TypeOK'
  BY <1>5 DEF SetPosition
<1> QED
  BY <1>1, <1>2, <1>3, <1>4, <1>5

(* Every step of the nodes keeps the state typed. *)
LEMMA TypeStep == TypeOK /\ [Next]_vars => TypeOK'
<1> SUFFICES ASSUME TypeOK, [Next]_vars PROVE TypeOK'
  OBVIOUS
<1>1. CASE Next
  BY <1>1, NotifyType, PingType, JoinType, ProcessType DEF Next
<1>2. CASE UNCHANGED vars
  BY <1>2 DEF vars, TypeOK
<1> QED
  BY <1>1, <1>2

(* The state stays typed: in particular every remote in a ring or in a     *)
(* call carries a position and an address of the cluster.                  *)
THEOREM TypeCorrect == Spec => []TypeOK
<1>1. Init => TypeOK
  BY TypeInit
<1>2. TypeOK /\ [Next]_vars => TypeOK'
  BY TypeStep
<1> QED
  BY <1>1, <1>2, PTL DEF Spec
----------------------------------------------------------------------------
(* The inductive invariant *)

(* A call that holds no routeLock and meets what the invariant asks. *)
Harmless(c) ==
  /\ c.pc \notin {"addMe", "addPred", "clean"}
  /\ UniqueAddr(c.nodes)
  /\ c.pc = "apply" => c.nodes # {}
  /\ Serving(c, c.to.addr) => c.me.addr = c.to.addr

(***************************************************************************)
(* The steps that neither end a process nor run under a routeLock held     *)
(* across steps preserve the invariant for one and the same reason: a ring *)
(* that changes is not locked afterwards and keeps its owner, and the      *)
(* calls that change are harmless.                                         *)
(***************************************************************************)
StateChange(k) ==
  \/ state'[k] = state[k]
  \/ Alive(k) /\ state'[k] = "stopped"
  \/ ~Alive(k) /\ state'[k] = "started" /\ HasAddr(ring'[k], k)
  \/ ~Alive(k) /\ state'[k] = "created"

RingChange(k) ==
  /\ UniqueAddr(ring'[k])
  /\ \/ ring'[k] = ring[k]
     \/ /\ Unlocked(k)'
        /\ ring'[k] # {}
        /\ HasAddr(ring[k], k) => HasAddr(ring'[k], k) \/ TookOver(k)'

PingChange(k) ==
  \/ ping'[k] = ping[k]
  \/ /\ ping[k].pc # "addMe"
     /\ Harmless(ping'[k])
     /\ Serving(ping'[k], ping'[k].to.addr) => Alive(ping'[k].to.addr)

JoinChange(k) ==
  \/ join'[k] = join[k]
  \/ /\ UniqueAddr(join'[k].nodes)
     /\ join'[k].pc \in {"fetched", "placed"} => join'[k].nodes # {}
     /\ TookOver(k) => TookOver(k)' \/ state'[k] = "created"

LEMMA OrdinaryStep ==
  ASSUME IInv, TypeOK',
         \A k \in Addr : StateChange(k),
         \A k \in Addr : RingChange(k),
         \A k \in Addr : PingChange(k),
         \A k \in Addr : JoinChange(k)
  PROVE  IInv'
<1> USE DEF IInv
<1>0. \A k \in Addr : ping[k].to.addr \in Addr /\ ping'[k].to.addr \in Addr
  BY DEF TypeOK, PingCall, Remote
<1>1. OneRemotePerAddress'
  BY DEF OneRemotePerAddress, Harmless, RingChange, PingChange, JoinChange
<1>2. RingNeverEmpty'
  BY DEF RingNeverEmpty, HasAddr, Alive, StateChange, RingChange
<1>3. InFlight'
  BY DEF InFlight, Harmless, PingChange, JoinChange
<1>4. \A k \in Addr : Alive(k) => Alive(k)'
  BY DEF Alive, StateChange
<1>5. Handlers'
  <2>1. ASSUME NEW k \in Addr, Serving(ping[k], ping[k].to.addr)'
        PROVE  Alive(ping[k].to.addr)' /\ (ping[k].me.addr = ping[k].to.addr)'
    <3>1. CASE ping'[k] = ping[k]
      <4>1. Alive(ping[k].to.addr) /\ ping[k].me.addr = ping[k].to.addr
        BY <2>1, <3>1 DEF Handlers, Serving
      <4>2. state'[ping[k].to.addr] \in {"started", "stopped"}
        BY <4>1, <1>0, <1>4 DEF Alive
      <4> QED
        BY <3>1, <4>1, <4>2 DEF Alive
    <3>2. CASE ping'[k] # ping[k]
      <4>1. Alive(ping'[k].to.addr) /\ ping'[k].me.addr = ping'[k].to.addr
        BY <2>1, <3>2 DEF PingChange, Harmless, Serving
      <4>2. state'[ping'[k].to.addr] \in {"started", "stopped"}
        BY <4>1, <1>0, <1>4 DEF Alive
      <4> QED
        BY <4>1, <4>2 DEF Alive
    <3> QED
      BY <3>1, <3>2
  <2>2. ASSUME NEW k \in Addr, NEW m \in Addr, HoldsLock(k, m)'
        PROVE  HoldsLock(k, m)
    BY <2>2 DEF HoldsLock, Harmless, PingChange
  <2> QED
    BY <2>1, <2>2 DEF Handlers
<1>6. Updating'
  <2>1. ASSUME NEW k \in Addr, (ping[k].pc \in {"addPred", "clean"})'
        PROVE  ping'[k] = ping[k] /\ ring'[ping[k].to.addr] = ring[ping[k].to.addr]
    <3>1. ping'[k] = ping[k]
      BY <2>1 DEF Harmless, PingChange
    <3>2. HoldsLock(k, ping[k].to.addr)'
      BY <2>1, <3>1 DEF HoldsLock
    <3> QED
      BY <1>0, <3>1, <3>2 DEF Unlocked, RingChange
  <2> QED
    BY <2>1 DEF Updating
<1>7. KeepsItself'
  <2> SUFFICES ASSUME NEW n \in Addr, Alive(n)', ~TookOver(n)',
                      \A k \in Addr : ~(HoldsLock(k, n) /\ ping[k].pc = "addMe")'
               PROVE  HasAddr(ring'[n], n)
    BY DEF KeepsItself
  <2>1. CASE ~Alive(n)
    BY <2>1 DEF Alive, StateChange
  <2>2. CASE Alive(n)
    <3>1. \A k \in Addr : ~(HoldsLock(k, n) /\ ping[k].pc = "addMe")
      BY DEF HoldsLock, PingChange
    <3>2. ~TookOver(n)
      BY DEF Alive, TookOver, JoinChange
    <3>3. HasAddr(ring[n], n)
      BY <2>2, <3>1, <3>2 DEF KeepsItself
    <3> QED
      BY <3>3 DEF RingChange
  <2> QED
    BY <2>1, <2>2
<1>8. PanicOnlyAfterJoin'
  <2> SUFFICES ASSUME NEW n \in Addr, state'[n] = "panicked: removing the last node"
               PROVE  TookOver(n)'
    BY DEF PanicOnlyAfterJoin
  <2>1. state[n] = "panicked: removing the last node"
    BY DEF StateChange
  <2>2. TookOver(n)
    BY <2>1 DEF PanicOnlyAfterJoin
  <2> QED
    BY <2>2 DEF JoinChange, TookOver
<1> QED
  BY <1>1, <1>2, <1>3, <1>5, <1>6, <1>7, <1>8

(* What does not change, changes as the lemma allows. *)
LEMMA Unchanged ==
  ASSUME IInv
  PROVE  /\ UNCHANGED state => \A k \in Addr : StateChange(k)
         /\ UNCHANGED ring => \A k \in Addr : RingChange(k)
         /\ UNCHANGED ping => \A k \in Addr : PingChange(k)
         /\ UNCHANGED join => \A k \in Addr : JoinChange(k)
BY DEF IInv, OneRemotePerAddress, StateChange, RingChange, PingChange, JoinChange

(* Adding a remote to a ring nobody has locked. *)
LEMMA AddChange ==
  ASSUME IInv, NEW m \in Addr, NEW r \in Remote, Unlocked(m)',
         ring' = [ring EXCEPT ![m] = RingAdd(@, r)]
  PROVE  \A k \in Addr : RingChange(k)
<1>1. \A k \in Addr : IsRing(ring[k])
  BY DEF IInv, TypeOK, OneRemotePerAddress, IsRing
<1>2. /\ IsRing(RingAdd(ring[m], r)) /\ RingAdd(ring[m], r) # {}
      /\ HasAddr(ring[m], m) => HasAddr(RingAdd(ring[m], r), m)
  BY <1>1, AddLemma
<1>3. ring'[m] = RingAdd(ring[m], r) /\ \A k \in Addr : k # m => ring'[k] = ring[k]
  BY DEF IInv, TypeOK
<1> QED
  BY <1>1, <1>2, <1>3 DEF RingChange, IsRing

(* A harmless change of the calls leaves a free routeLock free. *)
LEMMA StillUnlocked ==
  ASSUME NEW m, Unlocked(m), \A k \in Addr : PingChange(k)
  PROVE  Unlocked(m)'
BY DEF Unlocked, HoldsLock, PingChange, Harmless

(***************************************************************************)
(* The end of a process: its ring is gone, the calls it was serving are    *)
(* only sent, and no lock of it is held any more.                          *)
(***************************************************************************)
LEMMA DieInv ==
  ASSUME IInv, TypeOK', NEW n \in Addr, NEW how, Die(n, how), UNCHANGED join,
         how \notin {"started", "stopped"},
         how = "panicked: removing the last node" => TookOver(n)
  PROVE  IInv'
<1> USE DEF IInv
<1>0. /\ \A k \in Addr : ping[k].to.addr \in Addr
      /\ state'[n] = how /\ \A k \in Addr : k # n => state'[k] = state[k]
      /\ ring'[n] = {} /\ \A k \in Addr : k # n => ring'[k] = ring[k]
  BY ZenonT(60) DEF TypeOK, PingCall, Remote, Die
<1>1. \A k \in Addr :
        \/ ping'[k] = ping[k] /\ ~Serving(ping[k], n)
        \/ ping'[k].pc \in {"idle", "sent"} /\ ping'[k].nodes = {}
           /\ (ping[k].to.addr = n \/ ping[k].pc \in {"picked", "reply"})
  BY DEF Die, Serving, IdlePing, Resent
<1>2. ~Alive(n)' /\ \A k \in Addr : k # n => Alive(k)' = Alive(k)
  BY <1>0 DEF Alive
<1>3. \A k \in Addr : TookOver(k)' = TookOver(k)
  BY DEF TookOver
<1>4. OneRemotePerAddress'
  <2>1. UniqueAddr({})
    BY DEF UniqueAddr
  <2>2. ASSUME NEW k \in Addr
        PROVE  UniqueAddr(ring'[k]) /\ UniqueAddr(ping'[k].nodes) /\ UniqueAddr(join'[k].nodes)
    BY <1>0, <1>1, <2>1 DEF OneRemotePerAddress
  <2> QED
    BY <2>2 DEF OneRemotePerAddress
<1>5. RingNeverEmpty'
  BY <1>0, <1>2 DEF RingNeverEmpty
<1>6. InFlight'
  BY <1>1 DEF InFlight
<1>7. Handlers'
  <2>1. ASSUME NEW k \in Addr, Serving(ping[k], ping[k].to.addr)'
        PROVE  Alive(ping[k].to.addr)' /\ (ping[k].me.addr = ping[k].to.addr)'
    <3>1. ping'[k] = ping[k] /\ ~Serving(ping[k], n)
      BY <1>1, <2>1 DEF Serving
    <3>2. Serving(ping[k], ping[k].to.addr) /\ ping[k].to.addr # n
      BY <2>1, <3>1 DEF Serving
    <3>3. Alive(ping[k].to.addr) /\ ping[k].me.addr = ping[k].to.addr
      BY <3>2 DEF Handlers
    <3>4. state'[ping[k].to.addr] = state[ping[k].to.addr]
      BY <1>0, <3>2
    <3> QED
      BY <3>1, <3>3, <3>4 DEF Alive
  <2>2. ASSUME NEW k \in Addr, NEW m \in Addr, HoldsLock(k, m)'
        PROVE  HoldsLock(k, m)
    BY <1>1, <2>2 DEF HoldsLock
  <2> QED
    BY <2>1, <2>2 DEF Handlers
<1>8. Updating'
  <2>1. ASSUME NEW k \in Addr, (ping[k].pc \in {"addPred", "clean"})'
        PROVE  ping'[k] = ping[k] /\ ring'[ping[k].to.addr] = ring[ping[k].to.addr]
    BY <1>0, <1>1, <2>1 DEF Serving
  <2> QED
    BY <2>1 DEF Updating
<1>9. KeepsItself'
  <2> SUFFICES ASSUME NEW m \in Addr, Alive(m)', ~TookOver(m)',
                      \A k \in Addr : ~(HoldsLock(k, m) /\ ping[k].pc = "addMe")'
               PROVE  HasAddr(ring'[m], m)
    BY DEF KeepsItself
  <2>1. m # n /\ Alive(m)
    BY <1>2
  <2>2. \A k \in Addr : ~(HoldsLock(k, m) /\ ping[k].pc = "addMe")
    BY <1>1, <2>1 DEF HoldsLock
  <2>3. HasAddr(ring[m], m)
    BY <1>3, <2>1, <2>2 DEF KeepsItself
  <2> QED
    BY <1>0, <2>1, <2>3
<1>10. PanicOnlyAfterJoin'
  BY <1>0, <1>3 DEF PanicOnlyAfterJoin
<1> QED
  BY <1>4, <1>5, <1>6, <1>7, <1>8, <1>9, <1>10

(***************************************************************************)
(* RemoveNode: a node that did not Join is in its own ring, so the remote  *)
(* of another node is never the last one there.                            *)
(***************************************************************************)
LEMMA RemoveNodeInv ==
  ASSUME IInv, TypeOK', NEW n \in Addr, NEW r \in Remote, NEW N, NEW P,
         Alive(n), RemoveNode(n, r, N, P), UNCHANGED join,
         ping' = P => \A k \in Addr : PingChange(k)
  PROVE  IInv'
<1>1. CASE r.addr = n
  <2>1. Die(n, "panicked: removing itself")
    BY <1>1 DEF RemoveNode
  <2> QED
    BY <2>1, DieInv
<1>2. CASE r.addr # n /\ RemovesLast(ring[n], r)
  <2>1. Die(n, "panicked: removing the last node") /\ Unlocked(n)
    BY <1>2 DEF RemoveNode
  <2>2. ~HasAddr(ring[n], n)
    BY <1>2 DEF RemovesLast, HasAddr
  <2>3. TookOver(n)
    BY <2>1, <2>2 DEF IInv, KeepsItself, Unlocked
  <2> QED
    BY <2>1, <2>3, DieInv
<1>3. CASE r.addr # n /\ ~RemovesLast(ring[n], r)
  <2>1. /\ ring' = [ring EXCEPT ![n] = RingRemove(@, r)]
        /\ UNCHANGED state /\ ping' = P /\ Unlocked(n)
    BY <1>3 DEF RemoveNode
  <2>2. \A k \in Addr : IsRing(ring[k])
    BY DEF IInv, TypeOK, OneRemotePerAddress, IsRing
  <2>3. ring[n] # {}
    BY DEF IInv, RingNeverEmpty
  <2>4. /\ IsRing(RingRemove(ring[n], r)) /\ RingRemove(ring[n], r) # {}
        /\ HasAddr(ring[n], n) => HasAddr(RingRemove(ring[n], r), n)
    BY <1>3, <2>2, <2>3, RemoveLemma
  <2>5. ring'[n] = RingRemove(ring[n], r) /\ \A k \in Addr : k # n => ring'[k] = ring[k]
    BY <2>1 DEF IInv, TypeOK
  <2>6. Unlocked(n)'
    BY <2>1, StillUnlocked
  <2>7. \A k \in Addr : RingChange(k)
    BY <2>2, <2>4, <2>5, <2>6 DEF RingChange, IsRing
  <2> QED
    BY <2>1, <2>7, Unchanged, OrdinaryStep
<1> QED
  BY <1>1, <1>2, <1>3

LEMMA NotifyInv ==
  ASSUME IInv, TypeOK', NEW n \in Addr, NotifyStep(n)
  PROVE  IInv'
<1>0. /\ notify[n].to \in Remote /\ notify[n].to.addr \in Addr
      /\ notify[n].arg \in Remote /\ notify[n].pred \in Remote
  BY DEF IInv, TypeOK, NotifyCall, Remote
<1>1. CASE NotifyPick(n) \/ NotifySend(n) \/ NotifyReplyLost(n)
  BY <1>1, Unchanged, OrdinaryStep DEF NotifyPick, NotifySend, NotifyReplyLost
<1>2. CASE Notify(n)
  <2>0. PICK m \in Addr : m = notify[n].to.addr
    BY <1>0
  <2>1. /\ UNCHANGED <<state, ping, join>> /\ Unlocked(m)
        /\ ring' = [ring EXCEPT ![m] = RingAdd(@, notify[n].arg)]
    BY <1>2, <2>0 DEF Notify
  <2>2. Unlocked(m)'
    BY <2>1, Unchanged, StillUnlocked
  <2>3. \A k \in Addr : RingChange(k)
    BY <1>0, <2>1, <2>2, AddChange
  <2> QED
    BY <2>1, <2>3, Unchanged, OrdinaryStep
<1>3. CASE NotifyReply(n)
  <2>1. UNCHANGED <<state, ping, join>>
    BY <1>3 DEF NotifyReply
  <2>2. \A k \in Addr : RingChange(k)
    <3>1. CASE notify[n].pred.addr = n
      BY <1>3, <3>1, Unchanged DEF NotifyReply
    <3>2. CASE notify[n].pred.addr # n
      <4>1. Unlocked(n) /\ ring' = [ring EXCEPT ![n] = RingAdd(@, notify[n].pred)]
        BY <1>3, <3>2 DEF NotifyReply
      <4>2. Unlocked(n)'
        BY <2>1, <4>1, Unchanged, StillUnlocked
      <4> QED
        BY <1>0, <4>1, <4>2, AddChange
    <3> QED
      BY <3>1, <3>2
  <2> QED
    BY <2>1, <2>2, Unchanged, OrdinaryStep
<1>4. CASE NotifyFails(n)
  <2>1. /\ Alive(n) /\ UNCHANGED join
        /\ RemoveNode(n, notify[n].to, [notify EXCEPT ![n] = IdleNotify], ping)
    BY <1>4 DEF NotifyFails
  <2>2. ping' = ping => \A k \in Addr : PingChange(k)
    BY Unchanged
  <2> QED
    BY <1>0, <2>1, <2>2, RemoveNodeInv
<1> QED
  BY <1>1, <1>2, <1>3, <1>4 DEF NotifyStep

(* An answered call, and one made again, is harmless. *)
LEMMA AnsweredChange ==
  ASSUME IInv, NEW n \in Addr, ping[n].pc # "addMe",
         \/ ping' = [ping EXCEPT ![n] = Answered(n)]
         \/ ping' = [ping EXCEPT ![n] = IdlePing]
         \/ ping' = [ping EXCEPT ![n] = Resent(@)]
  PROVE  /\ \A k \in Addr : PingChange(k)
         /\ ping'[n].pc \in {"idle", "sent", "reply"}
<1>1. UniqueAddr(ping[n].nodes) /\ UniqueAddr({})
  BY DEF IInv, OneRemotePerAddress, UniqueAddr
<1>2. ping[n] \in PingCall /\ \A k \in Addr : k # n => ping'[k] = ping[k]
  BY DEF IInv, TypeOK
<1>3. ping'[n].pc \in {"idle", "sent", "reply"} /\ UniqueAddr(ping'[n].nodes)
  <2>1. CASE ping'[n] = Answered(n)
    <3>1. CASE Alive(n)
      <4>1. ping'[n] = [ping[n] EXCEPT !.pc = "reply", !.pred = NoRemote]
        BY <2>1, <3>1 DEF Answered
      <4>2. ping'[n].pc = "reply" /\ ping'[n].nodes = ping[n].nodes
        BY <1>2, <4>1 DEF PingCall
      <4> QED
        BY <1>1, <4>2
    <3>2. CASE ~Alive(n)
      BY <1>1, <2>1, <3>2 DEF Answered, IdlePing
    <3> QED
      BY <3>1, <3>2
  <2>2. CASE ping'[n] = IdlePing
    BY <1>1, <2>2 DEF IdlePing
  <2>3. CASE ping'[n] = Resent(ping[n])
    BY <1>1, <2>3 DEF Resent
  <2>4. ping'[n] = Answered(n) \/ ping'[n] = IdlePing \/ ping'[n] = Resent(ping[n])
    BY DEF IInv, TypeOK
  <2> QED
    BY <2>1, <2>2, <2>3, <2>4
<1>4. Harmless(ping'[n]) /\ ~Serving(ping'[n], ping'[n].to.addr)
  BY <1>3 DEF Harmless, Serving
<1> QED
  BY <1>2, <1>3, <1>4 DEF PingChange

LEMMA PingCallInv ==
  ASSUME IInv, TypeOK', NEW n \in Addr,
         \/ PingPick(n) \/ PingSend(n) \/ PingReceive(n) \/ PingCompare(n) \/ PingFetch(n)
         \/ PingFetchFails(n) \/ PingReply(n) \/ PingReplyLost(n) \/ PingFails(n)
  PROVE  IInv'
<1>0. /\ ping[n] \in PingCall
      /\ ping[n].to \in Remote /\ ping[n].to.addr \in Addr
      /\ ping[n].me \in Remote
      /\ UniqueAddr(ping[n].nodes)
  BY DEF IInv, TypeOK, PingCall, Remote, OneRemotePerAddress
<1>1. CASE PingPick(n)
  <2>1. PICK p : ping' = [ping EXCEPT ![n] = [@ EXCEPT !.pc = "picked", !.to = p]]
    BY <1>1 DEF PingPick
  <2>2. \A k \in Addr : PingChange(k)
    BY <1>0, <1>1, <2>1, ZenonT(60) DEF PingPick, PingChange, Harmless, Serving, IInv, TypeOK, PingCall
  <2> QED
    BY <1>1, <2>2, Unchanged, OrdinaryStep DEF PingPick
<1>2. CASE PingSend(n)
  <2>1. \A k \in Addr : PingChange(k)
    BY <1>0, <1>2 DEF PingSend, PingChange, Harmless, Serving, IInv, TypeOK, PingCall
  <2> QED
    BY <1>2, <2>1, Unchanged, OrdinaryStep DEF PingSend
<1>3. CASE PingReceive(n)
  <2>1. /\ ping'[n].pc = "compare" /\ ping'[n].nodes = ping[n].nodes
        /\ ping'[n].to = ping[n].to /\ ping'[n].me.addr = ping[n].to.addr
        /\ ping[n].pc # "addMe" /\ Alive(ping[n].to.addr)
        /\ \A k \in Addr : k # n => ping'[k] = ping[k]
    BY <1>0, <1>3 DEF PingReceive, Self, IInv, TypeOK, PingCall
  <2>2. \A k \in Addr : PingChange(k)
    BY <1>0, <2>1 DEF PingChange, Harmless, Serving
  <2> QED
    BY <1>3, <2>2, Unchanged, OrdinaryStep DEF PingReceive
<1>4. CASE PingCompare(n)
  <2>1. \A k \in Addr : PingChange(k)
    <3>1. CASE ping' = [ping EXCEPT ![n] = Answered(n)]
      BY <1>4, <3>1, AnsweredChange DEF PingCompare
    <3>2. CASE ping' = [ping EXCEPT ![n] = [@ EXCEPT !.pc = "fetch"]]
      <4>1. /\ ping'[n].pc = "fetch" /\ ping'[n].nodes = ping[n].nodes
            /\ ping'[n].to = ping[n].to /\ ping'[n].me = ping[n].me
            /\ \A k \in Addr : k # n => ping'[k] = ping[k]
        BY <1>0, <3>2 DEF IInv, TypeOK, PingCall
      <4>2. /\ ping[n].pc = "compare"
            /\ Alive(ping[n].to.addr) /\ ping[n].me.addr = ping[n].to.addr
        BY <1>4 DEF PingCompare, IInv, Handlers, Serving
      <4> QED
        BY <1>0, <4>1, <4>2 DEF PingChange, Harmless, Serving
    <3> QED
      BY <1>4, <3>1, <3>2 DEF PingCompare
  <2> QED
    BY <1>4, <2>1, Unchanged, OrdinaryStep DEF PingCompare
<1>5. CASE PingFetch(n)
  <2>1. /\ ping'[n].pc = "apply" /\ ping'[n].nodes = ring[n]
        /\ ping'[n].to = ping[n].to /\ ping'[n].me = ping[n].me
        /\ \A k \in Addr : k # n => ping'[k] = ping[k]
    BY <1>0, <1>5 DEF PingFetch, IInv, TypeOK, PingCall
  <2>2. /\ ping[n].pc = "fetch"
        /\ Alive(ping[n].to.addr) /\ ping[n].me.addr = ping[n].to.addr
    BY <1>5 DEF PingFetch, IInv, Handlers, Serving
  <2>3. ring[n] # {} /\ UniqueAddr(ring[n])
    BY <1>5 DEF PingFetch, IInv, RingNeverEmpty, OneRemotePerAddress
  <2>4. \A k \in Addr : PingChange(k)
    BY <2>1, <2>2, <2>3 DEF PingChange, Harmless, Serving
  <2> QED
    BY <1>5, <2>4, Unchanged, OrdinaryStep DEF PingFetch
<1>6. CASE PingFetchFails(n)
  <2>1. PICK m \in Addr : m = ping[n].to.addr
    BY <1>0
  <2>2. /\ ping[n].pc = "fetch" /\ UNCHANGED join
        /\ RemoveNode(m, [pos |-> ZeroPos, addr |-> n], notify, [ping EXCEPT ![n] = Answered(n)])
    BY <1>6, <2>1 DEF PingFetchFails
  <2>3. Alive(m)
    BY <2>1, <2>2 DEF IInv, Handlers, Serving
  <2>4. [pos |-> ZeroPos, addr |-> n] \in Remote
    BY DiscordAssumption DEF Remote
  <2>5. ping' = [ping EXCEPT ![n] = Answered(n)] => \A k \in Addr : PingChange(k)
    BY <2>2, AnsweredChange
  <2> QED
    BY <2>2, <2>3, <2>4, <2>5, RemoveNodeInv
<1>7. CASE PingReply(n)
  <2>1. \A k \in Addr : PingChange(k)
    BY <1>7, AnsweredChange DEF PingReply
  <2>2. Unlocked(n)'
    BY <1>7, <2>1, StillUnlocked DEF PingReply
  <2>3. \A k \in Addr : RingChange(k)
    BY <1>0, <1>7, <2>2, AddChange DEF PingReply
  <2> QED
    BY <1>7, <2>1, <2>3, Unchanged, OrdinaryStep DEF PingReply
<1>8. CASE PingReplyLost(n)
  <2>1. \A k \in Addr : PingChange(k)
    BY <1>8, AnsweredChange DEF PingReplyLost
  <2> QED
    BY <1>8, <2>1, Unchanged, OrdinaryStep DEF PingReplyLost
<1>9. CASE PingFails(n)
  <2>1. /\ Alive(n) /\ UNCHANGED join /\ ping[n].pc = "sent"
        /\ RemoveNode(n, ping[n].to, notify, [ping EXCEPT ![n] = IdlePing])
    BY <1>9 DEF PingFails
  <2>2. ping' = [ping EXCEPT ![n] = IdlePing] => \A k \in Addr : PingChange(k)
    BY <2>1, AnsweredChange
  <2> QED
    BY <1>0, <2>1, <2>2, RemoveNodeInv
<1> QED
  BY <1>1, <1>2, <1>3, <1>4, <1>5, <1>6, <1>7, <1>8, <1>9

(***************************************************************************)
(* A step under the routeLock of m, taken by the one handler that holds it *)
(* or takes it: n's call, after which the lock is still held.              *)
(***************************************************************************)
LEMMA LockedStep ==
  ASSUME IInv, TypeOK', NEW n \in Addr, NEW m \in Addr, NEW R,
         ping[n].to.addr = m, Serving(ping[n], m),
         \A k \in Addr : k # n => ~HoldsLock(k, m),
         UNCHANGED <<state, join>>,
         ring' = [ring EXCEPT ![m] = R], IsRing(R), R # {},
         \A k \in Addr : k # n => ping'[k] = ping[k],
         ping'[n].pc \in {"addMe", "addPred", "clean"},
         ping'[n].to = ping[n].to, ping'[n].me = ping[n].me,
         UniqueAddr(ping'[n].nodes),
         ping'[n].pc # "addMe" => HasAddr(R, m),
         ping'[n].pc = "addPred" => ping[n].me \in R,
         ping'[n].pc = "clean" =>
           ping'[n].pred \in R /\ (ping'[n].pred.addr = m \/ ping[n].me \in R)
  PROVE  IInv'
<1> USE DEF IInv
<1>0. /\ \A k \in Addr : ping[k].to.addr \in Addr
      /\ ring'[m] = R /\ \A k \in Addr : k # m => ring'[k] = ring[k]
      /\ ping'[n].to.addr = m
  BY DEF TypeOK, PingCall, Remote
<1>1. /\ \A k \in Addr : Alive(k)' = Alive(k)
      /\ \A k \in Addr : TookOver(k)' = TookOver(k)
  BY DEF Alive, TookOver
<1>2. Alive(m) /\ ping[n].me.addr = m
  BY DEF Handlers
<1>3. OneRemotePerAddress'
  <2>1. ASSUME NEW k \in Addr
        PROVE  UniqueAddr(ring'[k]) /\ UniqueAddr(ping'[k].nodes) /\ UniqueAddr(join'[k].nodes)
    BY <1>0 DEF OneRemotePerAddress, IsRing
  <2> QED
    BY <2>1 DEF OneRemotePerAddress
<1>4. RingNeverEmpty'
  BY <1>0, <1>1 DEF RingNeverEmpty
<1>5. InFlight'
  BY DEF InFlight
<1>6. Handlers'
  <2>1. ASSUME NEW k \in Addr, Serving(ping[k], ping[k].to.addr)'
        PROVE  Alive(ping[k].to.addr)' /\ (ping[k].me.addr = ping[k].to.addr)'
    <3>1. CASE k = n
      BY <1>0, <1>1, <1>2, <3>1 DEF Alive
    <3>2. CASE k # n
      <4>1. Alive(ping[k].to.addr) /\ ping[k].me.addr = ping[k].to.addr
        BY <2>1, <3>2 DEF Handlers, Serving
      <4> QED
        BY <3>2, <4>1 DEF Alive
    <3> QED
      BY <3>1, <3>2
  <2>2. ASSUME NEW k \in Addr, NEW i \in Addr, HoldsLock(k, i)'
        PROVE  (k = n /\ i = m) \/ (k # n /\ i # m /\ HoldsLock(k, i))
    BY <1>0, <2>2 DEF HoldsLock
  <2> QED
    BY <2>1, <2>2 DEF Handlers
<1>7. Updating'
  <2>1. ASSUME NEW k \in Addr, k # n, (ping[k].pc \in {"addPred", "clean"})'
        PROVE  ping'[k] = ping[k] /\ ring'[ping[k].to.addr] = ring[ping[k].to.addr]
    BY <1>0, <2>1 DEF HoldsLock
  <2> QED
    BY <1>0, <2>1 DEF Updating
<1>8. KeepsItself'
  <2> SUFFICES ASSUME NEW i \in Addr, Alive(i)', ~TookOver(i)',
                      \A k \in Addr : ~(HoldsLock(k, i) /\ ping[k].pc = "addMe")'
               PROVE  HasAddr(ring'[i], i)
    BY DEF KeepsItself
  <2>1. CASE i = m
    <3>1. ping'[n].pc # "addMe"
      BY <1>0, <2>1 DEF HoldsLock
    <3> QED
      BY <1>0, <2>1, <3>1
  <2>2. CASE i # m
    <3>1. \A k \in Addr : ~(HoldsLock(k, i) /\ ping[k].pc = "addMe")
      BY <2>2 DEF HoldsLock
    <3>2. HasAddr(ring[i], i)
      BY <1>1, <3>1 DEF KeepsItself
    <3> QED
      BY <1>0, <2>2, <3>2
  <2> QED
    BY <2>1, <2>2
<1>9. PanicOnlyAfterJoin'
  BY <1>1 DEF PanicOnlyAfterJoin
<1> QED
  BY <1>3, <1>4, <1>5, <1>6, <1>7, <1>8, <1>9

LEMMA PingLockInv ==
  ASSUME IInv, TypeOK', NEW n \in Addr,
         PingSetNodes(n) \/ PingAddMe(n) \/ PingAddPred(n) \/ PingClean(n)
  PROVE  IInv'
<1>0. PICK m \in Addr : m = ping[n].to.addr
  BY DEF IInv, TypeOK, PingCall, Remote
<1>1. /\ ping[n] \in PingCall /\ ping[n].me \in Remote /\ ping[n].pred \in Remote
      /\ ping[n].nodes \subseteq Remote /\ UniqueAddr(ping[n].nodes)
      /\ \A k \in Addr : IsRing(ring[k])
      /\ UniqueAddr({})
  BY DEF IInv, TypeOK, PingCall, OneRemotePerAddress, IsRing, UniqueAddr
<1>2. ping[n].pc \in {"apply", "addMe", "addPred", "clean"}
  BY DEF PingSetNodes, PingAddMe, PingAddPred, PingClean
<1>3. Serving(ping[n], m) /\ ping[n].me.addr = m /\ ring[m] # {}
  BY <1>0, <1>2 DEF Serving, IInv, Handlers, RingNeverEmpty
<1>4. ping[n].pc # "apply" => \A k \in Addr : k # n => ~HoldsLock(k, m)
  BY <1>0, <1>2 DEF IInv, Handlers, HoldsLock
<1>5. CASE PingSetNodes(n)
  <2>1. PICK p \in ring[m] :
          ping' = [ping EXCEPT ![n] = [@ EXCEPT !.pc = "addMe", !.pred = p, !.nodes = {}]]
    BY <1>0, <1>5 DEF PingSetNodes
  <2>2. /\ ping'[n].pc = "addMe" /\ ping'[n].nodes = {}
        /\ ping'[n].to = ping[n].to /\ ping'[n].me = ping[n].me
        /\ \A k \in Addr : k # n => ping'[k] = ping[k]
    BY <1>1, <2>1 DEF IInv, TypeOK, PingCall
  <2>3. /\ Unlocked(m) /\ UNCHANGED <<state, join>> /\ ping[n].nodes # {}
        /\ ring' = [ring EXCEPT ![m] = ping[n].nodes]
    BY <1>0, <1>5 DEF PingSetNodes, IInv, InFlight
  <2>4. IsRing(ping[n].nodes)
    BY <1>1 DEF IsRing
  <2> QED
    BY <1>0, <1>1, <1>3, <2>2, <2>3, <2>4, LockedStep DEF Unlocked
<1>6. CASE PingAddMe(n)
  <2>1. /\ ping'[n].pc = "addPred" /\ ping'[n].nodes = ping[n].nodes
        /\ ping'[n].to = ping[n].to /\ ping'[n].me = ping[n].me
        /\ \A k \in Addr : k # n => ping'[k] = ping[k]
    BY <1>1, <1>6 DEF PingAddMe, IInv, TypeOK, PingCall
  <2>2. /\ ping[n].pc = "addMe" /\ UNCHANGED <<state, join>>
        /\ ring' = [ring EXCEPT ![m] = RingAdd(ring[m], ping[n].me)]
    BY <1>0, <1>6 DEF PingAddMe
  <2>3. IsRing(RingAdd(ring[m], ping[n].me)) /\ ping[n].me \in RingAdd(ring[m], ping[n].me)
    BY <1>1, AddLemma
  <2>4. HasAddr(RingAdd(ring[m], ping[n].me), m)
    BY <1>3, <2>3 DEF HasAddr
  <2> QED
    BY <1>0, <1>1, <1>3, <1>4, <2>1, <2>2, <2>3, <2>4, LockedStep
<1>7. CASE PingAddPred(n)
  <2>1. /\ ping'[n].pc = "clean" /\ ping'[n].nodes = ping[n].nodes
        /\ ping'[n].to = ping[n].to /\ ping'[n].me = ping[n].me /\ ping'[n].pred = ping[n].pred
        /\ \A k \in Addr : k # n => ping'[k] = ping[k]
    BY <1>1, <1>7 DEF PingAddPred, IInv, TypeOK, PingCall
  <2>2. /\ ping[n].pc = "addPred" /\ UNCHANGED <<state, join>>
        /\ ring' = [ring EXCEPT ![m] = RingAdd(ring[m], ping[n].pred)]
    BY <1>0, <1>7 DEF PingAddPred
  <2>3. ping[n].me \in ring[m] /\ HasAddr(ring[m], m)
    BY <1>0, <1>3, <2>2 DEF IInv, Updating, HasAddr
  <2>4. /\ IsRing(RingAdd(ring[m], ping[n].pred))
        /\ ping[n].pred \in RingAdd(ring[m], ping[n].pred)
        /\ HasAddr(RingAdd(ring[m], ping[n].pred), m)
        /\ ping[n].pred.addr # m => ping[n].me \in RingAdd(ring[m], ping[n].pred)
    BY <1>1, <1>3, <2>3, AddLemma
  <2> QED
    BY <1>0, <1>1, <1>3, <1>4, <2>1, <2>2, <2>4, LockedStep
<1>8. CASE PingClean(n)
  <2>1. PICK e \in ring[m] : /\ CleanEnd(e, ring[m], ping[n].me)
                             /\ ring' = [ring EXCEPT ![m] = RingClean(@, ping[n].pred, e)]
    BY <1>0, <1>8 DEF PingClean
  <2>2. /\ ping[n].pc = "clean" /\ UNCHANGED <<state, join>>
        /\ ping' = [ping EXCEPT ![n] = Answered(n)]
    BY <1>8 DEF PingClean
  <2>3. (\A k \in Addr : PingChange(k)) /\ ping'[n].pc \in {"idle", "sent", "reply"}
    BY <2>2, AnsweredChange
  <2>4. /\ ping[n].pred \in ring[m]
        /\ ping[n].pred.addr = m \/ ping[n].me \in ring[m]
    BY <1>0, <2>2 DEF IInv, Updating
  <2>5. ring'[m] = RingClean(ring[m], ping[n].pred, e)
        /\ \A k \in Addr : k # m => ring'[k] = ring[k]
    BY <2>1 DEF IInv, TypeOK
  <2>6. /\ IsRing(ring'[m]) /\ e \in ring'[m] /\ ping[n].pred \in ring'[m]
    BY <1>1, <2>1, <2>4, <2>5, CleanLemma
  <2>7. HasAddr(ring'[m], m)
    BY <1>3, <2>1, <2>4, <2>6 DEF HasAddr, CleanEnd
  <2>8. Unlocked(m)'
    <3>1. ~HoldsLock(n, m)'
      BY <2>3 DEF HoldsLock
    <3>2. \A k \in Addr : k # n => ~HoldsLock(k, m)'
      BY <1>4, <2>2 DEF HoldsLock, IInv, TypeOK
    <3> QED
      BY <3>1, <3>2 DEF Unlocked
  <2>9. \A k \in Addr : RingChange(k)
    BY <1>1, <2>5, <2>6, <2>7, <2>8 DEF RingChange, IsRing
  <2> QED
    BY <2>2, <2>3, <2>9, Unchanged, OrdinaryStep
<1> QED
  BY <1>5, <1>6, <1>7, <1>8

LEMMA JoinInv ==
  ASSUME IInv, TypeOK', NEW n \in Addr,
         JoinStep(n) \/ SetPositionAdd(n) \/ \E peer \in Addr : JoinFetch(n, peer)
  PROVE  IInv'
<1>0. /\ join[n] \in JoinCall /\ join[n].peer \in Addr
      /\ UniqueAddr(join[n].nodes) /\ UniqueAddr({})
      /\ Self(n) \in Remote
  BY SelfType DEF IInv, TypeOK, JoinCall, OneRemotePerAddress, UniqueAddr
<1>1. CASE JoinSetPosition(n)
  <2>1. /\ join'[n].pc = "placed" /\ join'[n].nodes = join[n].nodes /\ join[n].pc = "fetched"
        /\ \A k \in Addr : k # n => join'[k] = join[k]
    BY <1>0, <1>1 DEF JoinSetPosition, IInv, TypeOK, JoinCall
  <2>2. \A k \in Addr : JoinChange(k)
    BY <1>0, <2>1 DEF JoinChange, TookOver, IInv, InFlight
  <2> QED
    BY <1>1, <2>2, Unchanged, OrdinaryStep DEF JoinSetPosition
<1>2. CASE JoinSetNodes(n)
  <2>1. /\ join'[n].pc = "set" /\ join'[n].nodes = {} /\ join[n].pc = "placed"
        /\ \A k \in Addr : k # n => join'[k] = join[k]
    BY <1>0, <1>2 DEF JoinSetNodes, IInv, TypeOK, JoinCall
  <2>2. (\A k \in Addr : JoinChange(k)) /\ TookOver(n)'
    BY <1>0, <2>1 DEF JoinChange, TookOver
  <2>3. Unlocked(n)'
    BY <1>2, Unchanged, StillUnlocked DEF JoinSetNodes
  <2>4. /\ ring'[n] = join[n].nodes /\ join[n].nodes # {}
        /\ \A k \in Addr : k # n => ring'[k] = ring[k]
    BY <1>2 DEF JoinSetNodes, IInv, TypeOK, InFlight
  <2>5. \A k \in Addr : RingChange(k)
    BY <1>0, <2>2, <2>3, <2>4 DEF RingChange, IInv, OneRemotePerAddress
  <2> QED
    BY <1>2, <2>2, <2>5, Unchanged, OrdinaryStep DEF JoinSetNodes
<1>3. CASE JoinNotify(n)
  <2>0. PICK peer \in Addr : peer = join[n].peer
    BY <1>0
  <2>1. /\ join'[n].pc = "joined" /\ join'[n].nodes = join[n].nodes
        /\ \A k \in Addr : k # n => join'[k] = join[k]
    BY <1>0, <1>3 DEF JoinNotify, IInv, TypeOK, JoinCall
  <2>2. \A k \in Addr : JoinChange(k)
    BY <1>0, <2>1 DEF JoinChange, TookOver
  <2>3. /\ UNCHANGED <<state, ping>> /\ Unlocked(peer)
        /\ ring' = [ring EXCEPT ![peer] = RingAdd(@, Self(n))]
    BY <1>3, <2>0 DEF JoinNotify
  <2>4. Unlocked(peer)'
    BY <2>3, Unchanged, StillUnlocked
  <2>5. \A k \in Addr : RingChange(k)
    BY <1>0, <2>3, <2>4, AddChange
  <2> QED
    BY <2>2, <2>3, <2>5, Unchanged, OrdinaryStep
<1>4. CASE JoinFails(n)
  <2>1. /\ join'[n].pc = "failed" /\ join'[n].nodes = join[n].nodes
        /\ \A k \in Addr : k # n => join'[k] = join[k]
    BY <1>0, <1>4 DEF JoinFails, IInv, TypeOK, JoinCall
  <2>2. \A k \in Addr : JoinChange(k)
    BY <1>0, <2>1 DEF JoinChange, TookOver
  <2> QED
    BY <1>4, <2>2, Unchanged, OrdinaryStep DEF JoinFails
<1>5. CASE SetPositionAdd(n)
  <2>1. Unlocked(n)'
    BY <1>5, Unchanged, StillUnlocked DEF SetPositionAdd
  <2>2. \A k \in Addr : RingChange(k)
    BY <1>0, <1>5, <2>1, AddChange DEF SetPositionAdd
  <2> QED
    BY <1>5, <2>2, Unchanged, OrdinaryStep DEF SetPositionAdd
<1>6. CASE \E peer \in Addr : JoinFetch(n, peer)
  <2>1. PICK peer \in Addr : JoinFetch(n, peer)
    BY <1>6
  <2>2. /\ join'[n].pc = "fetched" /\ join'[n].nodes = ring[peer] /\ join[n].pc = "no"
        /\ \A k \in Addr : k # n => join'[k] = join[k]
    BY <2>1 DEF JoinFetch, IInv, TypeOK
  <2>3. ring[peer] # {} /\ UniqueAddr(ring[peer])
    BY <2>1 DEF JoinFetch, IInv, RingNeverEmpty, OneRemotePerAddress
  <2>4. \A k \in Addr : JoinChange(k)
    BY <2>2, <2>3 DEF JoinChange, TookOver
  <2> QED
    BY <2>1, <2>4, Unchanged, OrdinaryStep DEF JoinFetch
<1> QED
  BY <1>1, <1>2, <1>3, <1>4, <1>5, <1>6 DEF JoinStep

LEMMA ProcessInv ==
  ASSUME IInv, TypeOK', NEW n \in Addr,
         \/ Start(n) \/ Stop(n) \/ Crash(n) \/ NewNode(n)
         \/ \E p \in Pos : SetPosition(n, p)
  PROVE  IInv'
<1>1. CASE Start(n)
  <2>1. /\ state'[n] = "started" /\ ~Alive(n) /\ \A k \in Addr : k # n => state'[k] = state[k]
        /\ UNCHANGED <<ping, join>>
        /\ ring' = [ring EXCEPT ![n] = RingAdd(@, Self(n))]
    BY <1>1 DEF Start, Alive, IInv, TypeOK
  <2>2. Unlocked(n)'
    <3>1. Unlocked(n)
      BY <2>1 DEF Unlocked, HoldsLock, IInv, Handlers, Serving
    <3> QED
      BY <2>1, <3>1, Unchanged, StillUnlocked
  <2>3. Self(n) \in Remote
    BY SelfType DEF IInv
  <2>4. \A k \in Addr : RingChange(k)
    BY <2>1, <2>2, <2>3, AddChange
  <2>5. HasAddr(ring'[n], n)
    <3>1. ring'[n] = RingAdd(ring[n], Self(n))
      BY <2>1 DEF IInv, TypeOK
    <3>2. Self(n) \in ring'[n]
      BY <3>1 DEF RingAdd
    <3> QED
      BY <3>2 DEF HasAddr, Self
  <2>6. \A k \in Addr : StateChange(k)
    BY <2>1, <2>5 DEF StateChange
  <2> QED
    BY <2>1, <2>4, <2>6, Unchanged, OrdinaryStep
<1>2. CASE Stop(n)
  <2>1. \A k \in Addr : StateChange(k)
    BY <1>2 DEF Stop, StateChange, Alive, IInv, TypeOK
  <2> QED
    BY <1>2, <2>1, Unchanged, OrdinaryStep DEF Stop
<1>3. CASE Crash(n)
  BY <1>3, DieInv DEF Crash
<1>4. CASE NewNode(n)
  <2>1. /\ ping' = [ping EXCEPT ![n] = IdlePing] /\ ping[n].pc # "addMe"
        /\ UNCHANGED ring
        /\ state'[n] = "created" /\ ~Alive(n) /\ \A k \in Addr : k # n => state'[k] = state[k]
        /\ join'[n] = NotJoined(n) /\ \A k \in Addr : k # n => join'[k] = join[k]
    BY <1>4 DEF NewNode, IInv, TypeOK
  <2>2. \A k \in Addr : PingChange(k)
    BY <2>1, AnsweredChange
  <2>3. \A k \in Addr : StateChange(k)
    BY <2>1 DEF StateChange
  <2>4. \A k \in Addr : JoinChange(k)
    BY <2>1 DEF JoinChange, NotJoined, UniqueAddr
  <2> QED
    BY <2>1, <2>2, <2>3, <2>4, Unchanged, OrdinaryStep
<1>5. CASE \E p \in Pos : SetPosition(n, p)
  BY <1>5, Unchanged, OrdinaryStep DEF SetPosition
<1> QED
  BY <1>1, <1>2, <1>3, <1>4, <1>5

(* A formed ring, or none, is a good beginning. *)
LEMMA InitInv == Init => IInv
<1> SUFFICES ASSUME Init PROVE IInv
  OBVIOUS
<1>1. /\ \A n \in Addr : ping[n] = IdlePing /\ join[n].nodes = {}
      /\ \A n \in Addr : join[n].pc \in {"formed", "no"}
  BY DEF Init, NotJoined, InFormedRing
<1>2. \A n \in Addr : ping[n].pc = "idle" /\ ping[n].nodes = {}
  BY <1>1 DEF IdlePing
<1>3. OneRemotePerAddress
  <2>1. ASSUME NEW n \in Addr PROVE UniqueAddr(ring[n]) /\ UniqueAddr({})
    BY DEF Init, UniqueAddr
  <2> QED
    BY <1>1, <1>2, <2>1 DEF OneRemotePerAddress
<1>4. ASSUME NEW n \in Addr, Alive(n) PROVE HasAddr(ring[n], n)
  <2>1. n \in Formed
    BY <1>4 DEF Init, Alive
  <2>2. [pos |-> FirstPos[n], addr |-> n] \in ring[n]
    BY <2>1 DEF Init
  <2> QED
    BY <2>2 DEF HasAddr
<1>5. RingNeverEmpty /\ KeepsItself
  BY <1>4 DEF RingNeverEmpty, KeepsItself, HasAddr
<1>6. InFlight /\ Handlers /\ Updating
  BY <1>1, <1>2 DEF InFlight, Handlers, Updating, Serving, HoldsLock
<1>7. PanicOnlyAfterJoin
  BY DEF Init, PanicOnlyAfterJoin
<1> QED
  BY <1>3, <1>5, <1>6, <1>7, TypeInit DEF IInv

LEMMA StepInv == IInv /\ [Next]_vars => IInv'
<1> SUFFICES ASSUME IInv, [Next]_vars PROVE IInv'
  OBVIOUS
<1>0. TypeOK'
  BY TypeStep DEF IInv
<1>1. CASE Next
  <2>1. PICK n \in Addr :
          \/ NotifyStep(n) \/ PingStep(n)
          \/ JoinStep(n) \/ SetPositionAdd(n) \/ (\E peer \in Addr : JoinFetch(n, peer))
          \/ Start(n) \/ Stop(n) \/ Crash(n) \/ NewNode(n)
          \/ (\E p \in Pos : SetPosition(n, p))
    BY <1>1 DEF Next
  <2>2. CASE PingStep(n)
    BY <1>0, <2>2, PingCallInv, PingLockInv DEF PingStep
  <2> QED
    BY <1>0, <2>1, <2>2, NotifyInv, JoinInv, ProcessInv
<1>2. CASE UNCHANGED vars
  BY <1>0, <1>2, Unchanged, OrdinaryStep DEF vars
<1> QED
  BY <1>1, <1>2

(* Every reachable state satisfies the inductive invariant: types, one     *)
(* remote per address in every ring and message, and no empty ring, at     *)
(* every step of the loops and handlers of node.go.                        *)
THEOREM Inductive == Spec => []IInv
  BY InitInv, StepInv, PTL DEF Spec

(* No interleaving of loops, handlers, joins, moves and crashes leaves a   *)
(* ring with two remotes of one address: Ring.Validate never panics.       *)
THEOREM NoDuplicateRemote == Spec => []OneRemotePerAddress
<1>1. IInv => OneRemotePerAddress
  BY DEF IInv
<1> QED
  BY <1>1, Inductive, PTL

(* A running node always has someone in its ring to answer with.           *)
THEOREM NeverWithoutRing == Spec => []RingNeverEmpty
<1>1. IInv => RingNeverEmpty
  BY DEF IInv
<1> QED
  BY <1>1, Inductive, PTL

(* Nobody can take a node that has not joined out of its own ring, however *)
(* stale the remotes are that the others send it.                          *)
THEOREM StaysInItsRing == Spec => []KeepsItself
<1>1. IInv => KeepsItself
  BY DEF IInv
<1> QED
  BY <1>1, Inductive, PTL

(* The panic of Ring.Remove needs a Join before it.                        *)
THEOREM NoPanicWithoutJoin == Spec => []PanicOnlyAfterJoin
<1>1. IInv => PanicOnlyAfterJoin
  BY DEF IInv
<1> QED
  BY <1>1, Inductive, PTL
============================================================================
