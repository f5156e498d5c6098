------------------------------ MODULE Remotes ------------------------------
(***************************************************************************)
(* Remotes and what a ring of remotes promises, as operators on sets.      *)
(*                                                                         *)
(* A remote (common/remote.go) is the position and the address of a node.  *)
(* The code orders positions with bytes.Compare and addresses as strings;  *)
(* only their order is ever used, so both are natural numbers here.  A     *)
(* ring (common/ring.go) keeps at most one remote per address, ordered by  *)
(* position and then address, so the set of its remotes determines it.     *)
(***************************************************************************)
EXTENDS Naturals, FiniteSets

CONSTANTS Addr,   \* the addresses nodes broadcast
          Pos     \* the positions on the ring

ASSUME RemotesAssumption == Addr \subseteq Nat /\ Pos \subseteq Nat

Remote == [pos : Pos, addr : Addr]

(* Remote.Less: by position, then by address. *)
Less(a, b) ==
  \/ a.pos < b.pos
  \/ a.pos = b.pos /\ a.addr < b.addr

(* No two remotes of R share an address. *)
UniqueAddr(R) == \A a, b \in R : a.addr = b.addr => a = b

(* The sets of remotes a ring may hold. *)
IsRing(R) == R \subseteq Remote /\ UniqueAddr(R)
Rings == {R \in SUBSET Remote : IsRing(R)}

HasAddr(R, a) == \E r \in R : r.addr = a

(* Mutant: Add leaves the old remote of the address. *)
RingAdd_Both(R, r) == R \cup {r}

(* Ring.Add: the new remote replaces any other of the same address. *)
RingAdd(R, r) == {x \in R : x.addr # r.addr} \cup {r}

(* Mutants: no panic, and nothing removed. *)
RemovesLast_Never(R, r) == FALSE
RingRemove_Nothing(R, r) == R

(* Ring.Remove panics instead of removing the last remote. *)
RemovesLast(R, r) == \E x \in R : x.addr = r.addr /\ R = {x}

RingRemove(R, r) == {x \in R : x.addr # r.addr}

(***************************************************************************)
(* p is the predecessor of r in R: the greatest remote less than r, the    *)
(* greatest of all when none is less, and r itself when R is empty.        *)
(***************************************************************************)
IsPredecessor(p, R, r) ==
  LET lower == {x \in R : Less(x, r)}
      among == IF lower = {} THEN R ELSE lower
  IN IF R = {} THEN p = r
     ELSE p \in among /\ \A x \in among : ~Less(p, x)

(* s is the successor of r in R; Ring.Successor is undefined for R = {}. *)
IsSuccessor(s, R, r) ==
  LET higher == {x \in R : Less(r, x)}
      among  == IF higher = {} THEN R ELSE higher
  IN s \in among /\ \A x \in among : ~Less(x, s)

(* x lies strictly between p and s, walking the ring upwards from p; when  *)
(* p = s the walk goes all the way round.                                  *)
Between(x, p, s) ==
  IF Less(p, s) THEN Less(p, x) /\ Less(x, s)
                ELSE Less(p, x) \/ Less(x, s)

(***************************************************************************)
(* Ring.Clean as the code computes it: the walk ends at s when s is in the *)
(* ring, and at the remote before s when it is not.                        *)
(***************************************************************************)
CleanEnd(e, R, s) == IF s \in R THEN e = s ELSE IsPredecessor(e, R, s)

(* Mutant: the end of the walk goes too. *)
RingClean_EndToo(R, p, e) == {x \in R : ~Between(x, p, e) /\ x # e}

RingClean(R, p, e) == {x \in R : ~Between(x, p, e)}
============================================================================
