----------------------------- MODULE MCLogger ------------------------------
(* Model-checking instances of Logger: see the cfgs for their bounds. *)
EXTENDS Logger
============================================================================
