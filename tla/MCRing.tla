------------------------------- MODULE MCRing -------------------------------
(* Model-checking instance of Ring: see the cfgs for its bounds. *)
EXTENDS Ring

(* What a state does next, and what is said of it, does not depend on the *)
(* call that led to it; the properties look at the calls of every step.   *)
MCView == <<nodes, panicked>>
============================================================================
