------------------------------- MODULE MCSync -------------------------------
(***************************************************************************)
(* Two trees for every choice of what a few addresses hold in them: "o" is *)
(* an old value, "n" a newer one, "d" a tombstone newer than both.  The    *)
(* source is filled in the order of the addresses, the destination in the  *)
(* opposite one, since hashes depend on it.                                *)
(***************************************************************************)
EXTENDS Sync

MCKeys == {<<0, 0>>, <<0, 1>>, <<0, 0, 1, 0>>}
MCSubAt == {<<0, 0>>}
MCSubKeys == {<<0, 1>>, <<1, 0>>}

InOrder == <<<<<<0, 0, 1, 0>>>>, <<<<0, 0>>>>, <<<<0, 1>>>>,
             <<<<0, 0>>, <<0, 1>>>>, <<<<0, 0>>, <<1, 0>>>> >>

(* What was done at an address on both sides. *)
Old == <<"o">>
New == <<"n">>
Gone == <<"o", "d">>
Holds == {<<Old, <<>>>>, <<<<>>, Old>>, <<New, Old>>, <<Old, New>>, <<Gone, Old>>, <<Old, Gone>>}
Nowhere == <<<<>>, <<>>>>

(* One thing done at the i-th address. *)
Ts(i, what) == IF what = "o" THEN i ELSE 10 + i
Put1(t, a, v, ts) == IF Len(a) = 1 THEN Put(t, a[1], v, ts, ts) ELSE SubPut(t, a[1], a[2], v, ts, ts)
Fake1(t, a, ts) == IF Len(a) = 1 THEN FakeDel(t, a[1], ts, ts) ELSE SubFakeDel(t, a[1], a[2], ts, ts)
Done1(t, i, what) ==
  IF what = "d" THEN Fake1(t, InOrder[i], Ts(i, what))
  ELSE Put1(t, InOrder[i], IF what = "o" THEN <<0, 1>> ELSE <<1, 0>>, Ts(i, what))
RECURSIVE Fill(_, _)
Fill(t, steps) ==
  IF steps = <<>> THEN t
  ELSE Fill(Done1(t, Head(steps)[1], Head(steps)[2]), Tail(steps))
Order(side) == IF side = "src" THEN <<1, 2, 3, 4, 5>> ELSE <<5, 4, 3, 2, 1>>
StepsOf(holds, side) ==
  FlattenSeq([j \in 1 .. 5 |->
    LET i == Order(side)[j]
        done == holds[i][IF side = "src" THEN 1 ELSE 2]
    IN [m \in DOMAIN done |-> <<i, done[m]>>]])

(* What the addresses hold, at most n of them anything at all. *)
Contents(n) ==
  UNION {{[i \in 1 .. 5 |-> IF i \in S THEN f[i] ELSE Nowhere] : f \in [S -> Holds]} :
           S \in {S \in SUBSET (1 .. 5) : Cardinality(S) <= n}}

(* Where a Sync begins; cleared are the sides whose sub tree was cleared.  *)
Cleared(t, yes) == IF yes THEN SubClear(t, <<0, 0>>, 19, 19) ELSE t
Chosen(n, cleared, modes) == {[holds |-> h, cleared |-> cleared, mode |-> m] : h \in Contents(n), m \in modes}
Begin(choices) ==
  {[tree |-> [side \in Sides |-> Cleared(Fill(NewTreeTimer(0), StepsOf(c.holds, side)), side \in c.cleared)],
    mode |-> c.mode, now |-> 20] : c \in choices}
Mode(destructive, limits, remote, fails, others) ==
  [destructive |-> destructive, limits |-> limits, remote |-> remote,
   failures |-> fails, writes |-> others]
Ways == {{}, {<<<<0, 0>>, <<0, 1>>>>}, {<<<<0, 1>>, <<0, 0>>>>}, {<<<<0, 1>>, <<0, 1>>>>}}

MCScenarios ==
  Begin(UNION {Chosen(2, {}, {Mode(d, l, "dst", 0, 0) : d \in BOOLEAN, l \in Ways}),
               Chosen(3, {}, {Mode(FALSE, {}, "dst", 0, 0)}),
               Chosen(2, {"src"}, {Mode(d, {}, "dst", 0, 0) : d \in BOOLEAN}),
               Chosen(1, {}, {Mode(d, {}, "dst", 0, 1) : d \in BOOLEAN}),
               Chosen(1, {}, {Mode(FALSE, {}, r, 1, 0) : r \in {"src", "dst"}}),
               Chosen(1, {"src"}, {Mode(FALSE, {}, r, 1, 0) : r \in {"src", "dst"}})})

(* A destructive Sync to a remote tree that fails to answer once. *)
DestroyScenarios == Begin(Chosen(1, {}, {Mode(TRUE, {}, "dst", 1, 0)}))

(***************************************************************************)
(* Trees of different keys with the same hash.  On the source 00 is put    *)
(* above 000001, which insertHelp then hashes as 0001, and once more, which *)
(* makes the hash of 00 its own again.  A Sync takes this for the tree of  *)
(* 00 and 0001 and copies nothing: NewestWins fails.  The keys have to be  *)
(* among Keys.                                                             *)
(***************************************************************************)
CollidingKeys == {<<0, 0>>, <<0, 0, 0, 1>>, <<0, 0, 0, 0, 0, 1>>}
CollidingScenarios ==
  LET One(t, k, ts) == Put(t, k, <<0, 1>>, ts, ts)
      new == NewTreeTimer(0)
  IN {[tree |-> [src |-> One(One(One(new, <<0, 0, 0, 0, 0, 1>>, 1), <<0, 0>>, 2), <<0, 0>>, 2),
                 dst |-> One(One(new, <<0, 0>>, 2), <<0, 0, 0, 1>>, 1)],
       mode |-> Mode(FALSE, {}, "dst", 0, 0), now |-> 20]}
============================================================================
