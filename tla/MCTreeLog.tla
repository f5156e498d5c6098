----------------------------- MODULE MCTreeLog -----------------------------
(* Model-checking instances of TreeLog: see the cfgs for their bounds. *)
EXTENDS TreeLog
============================================================================
