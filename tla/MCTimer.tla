------------------------------ MODULE MCTimer ------------------------------
(* Model-checking instance of Timer: see the cfg for its bounds. *)
EXTENDS Timer

MCDeltas == {-1, 1}
============================================================================
