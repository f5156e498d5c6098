------------------------------ MODULE RingSet ------------------------------
(***************************************************************************)
(* What common.Ring promises its callers: a set of remotes with at most    *)
(* one remote per address, changed by Add, Remove, SetNodes and Clean.     *)
(***************************************************************************)
EXTENDS Remotes

VARIABLES members,   \* the remotes in the ring
          panicked,  \* Remove was asked to take the last remote away
          called     \* the last call, so that an implementation must do
                     \* what that call does, and not what another may do

vars == <<members, panicked, called>>

Init == members = {} /\ panicked = FALSE /\ called = <<>>

Add(r) ==
  /\ called' = <<"Add", r>>
  /\ members' = RingAdd(members, r)
  /\ UNCHANGED panicked

Remove(r) ==
  /\ called' = <<"Remove", r>>
  /\ panicked' = RemovesLast(members, r)
  /\ members' = IF RemovesLast(members, r) THEN members ELSE RingRemove(members, r)

SetNodes(R) ==
  /\ called' = <<"SetNodes", R>>
  /\ members' = R
  /\ UNCHANGED panicked

(* Clean is only defined for a ring that is not empty. *)
Clean(p, s) ==
  /\ called' = <<"Clean", p, s>>
  /\ members # {}
  /\ \E e \in members : CleanEnd(e, members, s) /\ members' = RingClean(members, p, e)
  /\ UNCHANGED panicked

Next ==
  /\ ~panicked
  /\ \/ \E r \in Remote : Add(r) \/ Remove(r)
     \/ \E R \in Rings : SetNodes(R)
     \/ \E p, s \in Remote : Clean(p, s)

Spec == Init /\ [][Next]_vars
============================================================================
