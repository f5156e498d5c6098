------------------------------ MODULE MCClient ------------------------------
(* Three nodes and two keys, which the first node of the ring owns. *)
EXTENDS Client

MCFirstPos == (1 :> 2) @@ (2 :> 4) @@ (3 :> 6)
Scenario == [founders |-> {1, 2, 3}, held |-> {1}, keys |-> {1}, sync |-> TRUE,
             writes |-> 0, reads |-> 0, crashes |-> 0, joins |-> 0, moves |-> 0]
(* A write, or a read, while the ring changes; two writes that may arrive  *)
(* in the wrong order.                                                     *)
Changing ==
  {[Scenario EXCEPT !.crashes = 1],
   [Scenario EXCEPT !.joins = 1, !.founders = {2, 3}],
   [Scenario EXCEPT !.moves = 1, !.held = {0, 1}]}
MCScenarios ==
  {[s EXCEPT !.writes = 1, !.reads = s.crashes] : s \in Changing}
    \cup {[s EXCEPT !.reads = 1] : s \in Changing}
    \cup {[Scenario EXCEPT !.crashes = c, !.writes = 2 - c, !.sync = FALSE] : c \in {0, 1}}
=============================================================================
