------------------------------- MODULE MCTree -------------------------------
(* Keys of one byte that share their first nibble or differ in it, one     *)
(* that another begins with, and the empty key.                            *)
EXTENDS Tree

MCKeys == {<<>>, <<0, 0>>, <<0, 1>>, <<0, 0, 0, 1>>, <<0, 0, 1, 0>>}
MCRangeKeys == {<<0, 0>>, <<0, 1>>}
(* Up to two first puts in any order, three up or down the key space. *)
AddressSeq == <<<<<<>>>>, <<<<0, 0>>>>, <<<<0, 0>>, <<0, 1>>>>, <<<<0, 0>>, <<1, 0>>>>,
                <<<<0, 0, 0, 1>>>>, <<<<0, 0, 1, 0>>>>, <<<<0, 1>>>>>>
Monotone(f) == (f[1] < f[2] /\ f[2] < f[3]) \/ (f[1] > f[2] /\ f[2] > f[3])
MCFirstPuts ==
  {[i \in DOMAIN f |-> AddressSeq[f[i]]] :
     f \in {f \in UNION {[1 .. n -> 1 .. 7] : n \in 0 .. 3} :
              IsInjective(f) /\ (Len(f) = 3 => Monotone(f))}}
MCMaxOps == 0 :> 2 @@ 1 :> 2 @@ 2 :> 1 @@ 3 :> 1
MCSubAt == {<<0, 0>>}
MCSubKeys == {<<0, 1>>, <<1, 0>>}
MCVals == {<<0, 1>>, <<1, 0>>}
(* No step and no invariant depends on the operation before it. *)
MCView == <<tree, now, left>>
=============================================================================
