------------------------------- MODULE KeyMap -------------------------------
(***************************************************************************)
(* What a radix.Tree promises: a map from addresses to marks.  An address  *)
(* is <<key>> in the main tree or <<key, subKey>> in a sub tree; a mark    *)
(* has the value and the timestamp, and is live or a tombstone.  op is the *)
(* operation performed last: what it was, where, and the mark it made.     *)
(*                                                                         *)
(* An operation changes no mark but its own.  All that may vanish besides  *)
(* are tombstones: old ones, those of a sub tree in which nothing lives,   *)
(* and the one at a key whose sub tree is being worked on.                 *)
(***************************************************************************)
EXTENDS Integers, Sequences, TLC

CONSTANT Lifetime
VARIABLES marks, op, now

vars == <<marks, op, now>>

InSub(a, key) == Len(a) = 2 /\ a[1] = key

Forgettable(m, a) ==
  /\ ~m[a].live
  /\ \/ m[a].ts < now' - Lifetime
     \/ Len(a) = 2 /\ \A b \in DOMAIN m : InSub(b, a[1]) => ~m[b].live
     \/ InSub(op'.at, a[1])

(* The marks become m, apart from what is forgotten. *)
Becomes(m) ==
  /\ DOMAIN marks' \subseteq DOMAIN m
  /\ \A a \in DOMAIN m : IF a \in DOMAIN marks' THEN marks'[a] = m[a] ELSE Forgettable(m, a)

Without(A) == [a \in DOMAIN marks \ A |-> marks[a]]
Killed(m, a) == IF a \in DOMAIN m THEN (a :> [m[a] EXCEPT !.live = FALSE, !.val = <<>>]) @@ m ELSE m

(* Put, FakeDel and their kin. *)
Mark == op'.is = "mark" /\ Becomes((op'.at :> op'.mark) @@ marks)

(* Del and its kin: where there is a sub tree a tombstone may stay. *)
Unmark == op'.is = "unmark" /\ (Becomes(Without({op'.at})) \/ Becomes(Killed(marks, op'.at)))

(* SubClear and SubKill, Clear. *)
UnmarkSub ==
  op'.is = "unmark sub" /\ Becomes(Without({a \in DOMAIN marks : InSub(a, op'.at[1])}))
UnmarkAll == op'.is = "unmark all" /\ marks' = Without(DOMAIN marks)

(* Time passes, a configuration changes, or a comparison fails. *)
Nothing == op'.is = "nothing" /\ Becomes(marks)

Init == \A a \in DOMAIN marks : marks[a].live
Next == now' >= now /\ (Mark \/ Unmark \/ UnmarkSub \/ UnmarkAll \/ Nothing)
Spec == Init /\ [][Next]_vars
============================================================================
