------------------------------- MODULE Timer -------------------------------
(***************************************************************************)
(* timenet/timer.go and dilations.go: a clock that is moved towards those  *)
(* of its peers, smoothly for the readers of ContinuousTime.               *)
(*                                                                         *)
(* The callers of ContinuousTime run concurrently with each other and with *)
(* one goroutine that samples peers (Run) or sets the time (Conform,       *)
(* Skew).  All of them use one sync.RWMutex, in which a waiting writer     *)
(* keeps new readers out.  Work under the write lock is one step.          *)
(***************************************************************************)
EXTENDS Integers, Sequences

CONSTANTS MaxCallers,   \* how many goroutines call ContinuousTime
          Deltas,       \* what a peer's time may differ from ours by
          MaxClock,     \* bound: the last time on the clock of the machine
          MaxSamples,   \* bound: calls of Sample
          MaxSkews      \* bound: calls of Conform and Skew

ASSUME TimerAssumption ==
  /\ Deltas \subseteq Int \ {0}
  /\ {MaxCallers, MaxClock, MaxSamples, MaxSkews} \subseteq Nat

Callers == 1 .. MaxCallers
Runner == 0             \* the goroutine of Run
Threads == {Runner} \cup Callers

VARIABLES clock,       \* time.Now
          state,       \* Timer.state
          offset,      \* Timer.offset
          dilations,   \* Timer.dilations.content
          reading,     \* how many read locks each thread has
          waiting,     \* the threads waiting for the write lock
          call,        \* [Callers -> the call of ContinuousTime under way]
          runner,      \* the job of the runner and how far it is
          budget,      \* what is left of the bounds
          total,       \* history: all adjustments and settings so far
          raced        \* history: a call has taken dilations that had ended off
                       \* the list while another one was in dilations.effect

vars == <<clock, state, offset, dilations, reading, waiting, call, runner, budget, total, raced>>

dilationFactor == 5

Abs(i) == IF i < 0 THEN -i ELSE i

(* dilation.effect: delta, spread over five times as long as it is.        *)
Done(d) == clock - d.from > dilationFactor * Abs(d.delta)
Effect(d) ==
  IF Done(d) THEN d.delta
  ELSE LET passed == (clock - d.from) \div dilationFactor
       IN IF d.delta < 0 THEN -passed ELSE passed

delta(ds) ==
  LET sum[i \in 0 .. Len(ds)] == IF i = 0 THEN 0 ELSE sum[i - 1] + ds[i].delta
  IN sum[Len(ds)]

(* The loop of dilations.effect: what the dilations that have ended and    *)
(* those that have not amount to, and the ones to keep.                    *)
NoEffects == [perm |-> 0, temp |-> 0, found |-> <<>>]
OneMore(e, d) ==
  IF Done(d) THEN [e EXCEPT !.perm = @ + Effect(d)]
  ELSE [e EXCEPT !.temp = @ + Effect(d), !.found = Append(@, d)]
Effects(ds) ==
  LET after[i \in 0 .. Len(ds)] == IF i = 0 THEN NoEffects ELSE OneMore(after[i - 1], ds[i])
  IN after[Len(ds)]

Idle == [pc |-> "idle", found |-> <<>>, perm |-> 0, temp |-> 0, result |-> 0]

Init ==
  /\ clock = 0 /\ state = "created" /\ offset = 0 /\ dilations = <<>>
  /\ reading = [t \in Threads |-> 0] /\ waiting = {}
  /\ call = [c \in Callers |-> Idle]
  /\ runner = [pc |-> "idle", job |-> "sample"]
  /\ budget = [samples |-> MaxSamples, skews |-> MaxSkews]
  /\ total = 0 /\ raced = FALSE
----------------------------------------------------------------------------
(* sync.RWMutex *)

RLock(t) == waiting = {} /\ reading' = [reading EXCEPT ![t] = @ + 1]
RUnlock(t, n) == reading' = [reading EXCEPT ![t] = @ - n]
AskLock(t) == waiting' = waiting \cup {t}
Locked(t) == /\ t \in waiting /\ \A o \in Threads : reading[o] = 0
             /\ waiting' = waiting \ {t}

(* A tick is as long as a dilation takes to gain or lose one unit, so that *)
(* the division in Effect is exact.                                        *)
Tick ==
  /\ clock < MaxClock
  /\ clock' = clock + dilationFactor
  /\ UNCHANGED <<state, offset, dilations, reading, waiting, call, runner, budget, total, raced>>
----------------------------------------------------------------------------
(* ContinuousTime *)

At(c, from, to) == call[c].pc = from /\ call' = [call EXCEPT ![c] = [@ EXCEPT !.pc = to]]

ContinuousTime(c) ==
  /\ call[c].pc = "idle"
  /\ call' = [call EXCEPT ![c] = [Idle EXCEPT !.pc = "scan"]]
  /\ RLock(c)
  /\ UNCHANGED <<clock, state, offset, dilations, waiting, runner, budget, total, raced>>

(* The list a call reads: the content, or, while another call is storing a *)
(* new one, the old array with the new length, since nothing keeps readers *)
(* apart and a slice is not written at once.  (The new array with the old  *)
(* length is the new list followed by zeros, which have no effect.)        *)
Readable(c) ==
  {dilations} \cup {SubSeq(dilations, 1, Len(call[o].found)) :
                     o \in {o \in Callers \ {c} : /\ call[o].pc = "store"
                                                  /\ Len(call[o].found) <= Len(dilations)}}

(* dilations.effect reads the list under the read lock, *)
Scan(c) ==
  /\ call[c].pc = "scan"
  /\ \E ds \in Readable(c) :
       call' = [call EXCEPT ![c] = [@ EXCEPT !.pc = "store", !.perm = Effects(ds).perm,
                                    !.temp = Effects(ds).temp, !.found = Effects(ds).found]]
  /\ UNCHANGED <<clock, state, offset, dilations, reading, waiting, runner, budget, total, raced>>

(* Storing this call's list changes the content that another call has read *)
(* and not yet replaced.                                                   *)
Races(c) == /\ call[c].found # dilations
            /\ \E o \in Callers \ {c} : call[o].pc = "store"

(* Mutant: a dilation that has ended is kept in the list. *)
Store_Keeps(c) ==
  /\ At(c, "store", "sum")
  /\ UNCHANGED <<clock, state, offset, dilations, reading, waiting, runner, budget, total, raced>>

(* and replaces it, still under the read lock. *)
Store(c) ==
  /\ At(c, "store", "sum")
  /\ dilations' = call[c].found
  /\ raced' = (raced \/ Races(c))
  /\ UNCHANGED <<clock, state, offset, reading, waiting, runner, budget, total>>

Sum(c) ==
  /\ call[c].pc = "sum"
  /\ call' = [call EXCEPT ![c] =
       [@ EXCEPT !.pc = IF call[c].perm # 0 THEN "ask" ELSE "return",
                 !.result = clock + offset + call[c].perm + call[c].temp]]
  /\ RUnlock(c, 1)
  /\ UNCHANGED <<clock, state, offset, dilations, waiting, runner, budget, total, raced>>

AskToAdd(c) ==
  /\ At(c, "ask", "add")
  /\ AskLock(c)
  /\ UNCHANGED <<clock, state, offset, dilations, reading, runner, budget, total, raced>>

Add(c) ==
  /\ At(c, "add", "return")
  /\ Locked(c)
  /\ offset' = offset + call[c].perm
  /\ UNCHANGED <<clock, state, dilations, reading, runner, budget, total, raced>>

Return(c) ==
  /\ call[c].pc = "return"
  /\ call' = [call EXCEPT ![c] = Idle]
  /\ UNCHANGED <<clock, state, offset, dilations, reading, waiting, runner, budget, total, raced>>

ContinuousTimeStep(c) ==
  ContinuousTime(c) \/ Scan(c) \/ Store(c) \/ Sum(c) \/ AskToAdd(c) \/ Add(c) \/ Return(c)
----------------------------------------------------------------------------
(* Run, Conform and Skew *)

Start ==
  /\ state = "created" /\ state' = "started"
  /\ UNCHANGED <<clock, offset, dilations, reading, waiting, call, runner, budget, total, raced>>
Stop ==
  /\ state = "started" /\ state' = "stopped"
  /\ UNCHANGED <<clock, offset, dilations, reading, waiting, call, runner, budget, total, raced>>

Goes(from, to) == runner.pc = from /\ runner' = [runner EXCEPT !.pc = to]

(* Sample chooses a peer under the read lock, Conform is given one. *)
Sample ==
  /\ runner.pc = "idle" /\ state = "started" /\ budget.samples > 0 /\ waiting = {}
  /\ runner' = [runner EXCEPT !.pc = "peer", !.job = "sample"]
  /\ budget' = [budget EXCEPT !.samples = @ - 1]
  /\ UNCHANGED <<clock, state, offset, dilations, reading, waiting, call, total, raced>>
Conform ==
  /\ runner.pc = "idle" /\ budget.skews > 0
  /\ runner' = [runner EXCEPT !.pc = "peer", !.job = "set"]
  /\ budget' = [budget EXCEPT !.skews = @ - 1]
  /\ UNCHANGED <<clock, state, offset, dilations, reading, waiting, call, total, raced>>
Skew ==
  /\ runner.pc = "idle" /\ budget.skews > 0
  /\ runner' = [runner EXCEPT !.pc = "ask", !.job = "set"]
  /\ budget' = [budget EXCEPT !.skews = @ - 1]
  /\ UNCHANGED <<clock, state, offset, dilations, reading, waiting, call, total, raced>>

(* timeAndLatency, once the peer has answered: a read lock, *)
PeerAnswers ==
  /\ Goes("peer", "actual") /\ RLock(Runner)
  /\ UNCHANGED <<clock, state, offset, dilations, waiting, call, budget, total, raced>>

(* and another one inside it, in ActualTime. *)
ActualTime ==
  /\ Goes("actual", "unlock") /\ RLock(Runner)
  /\ UNCHANGED <<clock, state, offset, dilations, waiting, call, budget, total, raced>>
(* Mutant: one of the two read locks is kept. *)
ActualTimeReturns_Keeps ==
  /\ Goes("unlock", "ask") /\ RUnlock(Runner, 1)
  /\ UNCHANGED <<clock, state, offset, dilations, waiting, call, budget, total, raced>>
ActualTimeReturns ==
  /\ Goes("unlock", "ask") /\ RUnlock(Runner, 2)
  /\ UNCHANGED <<clock, state, offset, dilations, waiting, call, budget, total, raced>>

AskToAdjust ==
  /\ Goes("ask", "adjust") /\ AskLock(Runner)
  /\ UNCHANGED <<clock, state, offset, dilations, reading, call, budget, total, raced>>

(* The end of Sample: a latency too far from the mean adjusts nothing. *)
Adjust ==
  /\ runner.job = "sample" /\ Goes("adjust", "idle") /\ Locked(Runner)
  /\ \/ UNCHANGED <<dilations, total>>
     \/ \E d \in Deltas : /\ dilations' = Append(dilations, [delta |-> d, from |-> clock])
                          /\ total' = total + d
  /\ UNCHANGED <<clock, state, offset, reading, call, budget, raced>>

(* The end of Conform and Skew. *)
Set ==
  /\ runner.job = "set" /\ Goes("adjust", "idle") /\ Locked(Runner)
  /\ \E d \in Deltas : offset' = offset + d /\ total' = total + d
  /\ UNCHANGED <<clock, state, dilations, reading, call, budget, raced>>

RunnerStep ==
  Sample \/ PeerAnswers \/ ActualTime \/ ActualTimeReturns \/ AskToAdjust \/ Adjust \/ Set

Next ==
  \/ Tick \/ Start \/ Stop \/ Conform \/ Skew \/ RunnerStep
  \/ \E c \in Callers : ContinuousTimeStep(c)

Spec == Init /\ [][Next]_vars

(* Go's scheduler lets every goroutine that can run do so. *)
Fairness == WF_vars(RunnerStep) /\ \A c \in Callers : WF_vars(ContinuousTimeStep(c))
FairSpec == Spec /\ Fairness
----------------------------------------------------------------------------
(* What the calls have taken off the list and not yet added to the offset. *)
Hands == [c \in Callers |->
            [delta |-> IF call[c].pc \in {"sum", "ask", "add"} THEN call[c].perm ELSE 0,
             from |-> 0]]

(* An adjustment is counted once, however many calls overlap: it is among  *)
(* the dilations, in the hands of one call of ContinuousTime between its   *)
(* two locks, or in the offset.  Excepted is the race of dilations.effect, *)
(* which writes under a read lock: once a call has taken dilations off the *)
(* list while another was in effect, these may count twice or not at all.  *)
AdjustedOnce == ~raced => offset + delta(dilations) + delta(Hands) = total

(* A sample of a peer ends, and so do Conform and Skew, unless a writer    *)
(* asks for the lock between the two read locks of timeAndLatency.         *)
SampleEnds ==
  runner.pc # "idle" ~> runner.pc = "idle" \/ (runner.pc = "actual" /\ waiting # {})
============================================================================
