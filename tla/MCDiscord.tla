----------------------------- MODULE MCDiscord -----------------------------
(* Model-checking instances of Discord: see the cfgs for their bounds. *)
EXTENDS Discord

MCFirstPos == [n \in Addr |-> n]

(***************************************************************************)
(* A bound on what TLC looks at, for the run that checks invariants: two   *)
(* calls overlap with one event (a crash, Stop, failing call or move) as   *)
(* long as no process has restarted; beyond that, with a second event or   *)
(* after a restart, one call is under way at a time.  The theorems of      *)
(* DiscordProofs have no such bound.                                       *)
(***************************************************************************)
Busy == Cardinality({n \in Addr : Alive(n) /\ notify[n].pc # "idle"})
        + Cardinality({n \in Addr : Alive(n) /\ ping[n].pc # "idle"})
EventsLeft == budget.crashes + budget.stops + budget.failures + budget.moves
Small == \/ Busy <= 1 /\ EventsLeft >= 2
         \/ Busy <= 2 /\ EventsLeft >= 3 /\ budget.restarts = 1

(* Where the ghost is looked for: a behaviour with two calls at a time is  *)
(* enough to refute Convergence, and is one of the loops as they are.      *)
TwoCalls == Busy <= 2
============================================================================
