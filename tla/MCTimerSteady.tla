--------------------------- MODULE MCTimerSteady ---------------------------
(***************************************************************************)
(* Model-checking instance of Timer with the history of the times that     *)
(* calls of ContinuousTime have returned.                                  *)
(***************************************************************************)
EXTENDS Timer, FiniteSetsExt

VARIABLES latest,   \* the latest time that a call has returned
          floor     \* [Callers -> latest when the call under way began]

Begins(c) == call[c].pc = "idle" /\ call'[c].pc # "idle"
Ends(c) == call[c].pc # "idle" /\ call'[c].pc = "idle"

SteadyInit == Init /\ latest = 0 /\ floor = [c \in Callers |-> 0]

SteadyNext ==
  /\ Next
  /\ latest' = Max({latest} \cup {call[c].result : c \in {c \in Callers : Ends(c)}})
  /\ floor' = [c \in Callers |-> IF Begins(c) THEN latest
                                 ELSE IF Ends(c) THEN 0 ELSE floor[c]]

SteadySpec == SteadyInit /\ [][SteadyNext]_<<vars, latest, floor>>

(* timer.go:69-70: the time that ContinuousTime returns is "guaranteed to  *)
(* never move backwards": a call returns no less than any call that had    *)
(* returned before it began, even if only behaviours without the race of   *)
(* dilations.effect count.                                                 *)
SteadyTime ==
  ~raced => \A c \in Callers : call[c].pc = "return" => floor[c] <= call[c].result

(* Peers are ahead of us, by more than a tick. *)
MCDeltas == {6}
============================================================================
