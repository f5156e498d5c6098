---------------------------- MODULE TimerProofs ----------------------------
(***************************************************************************)
(* Proofs about Timer, for any number of goroutines that call              *)
(* ContinuousTime: what an adjustment amounts to is never lost and never   *)
(* counted twice, whatever peers answer and however calls and dilations    *)
(* overlap, until the race of dilations.effect has happened.               *)
(***************************************************************************)
EXTENDS Timer, DataInduction, TLAPS

Dilation == [delta : Int, from : Int]
Effected == [perm : Int, temp : Int, found : Seq(Dilation)]
----------------------------------------------------------------------------
(* The sum of the dilations *)

LEMMA DeltaRun ==
  ASSUME NEW ds \in Seq(Dilation)
  PROVE  \E g \in [0 .. Len(ds) -> Int] :
           /\ g[0] = 0 /\ \A i \in 1 .. Len(ds) : g[i] = g[i - 1] + ds[i].delta
           /\ delta(ds) = g[Len(ds)]
<1> DEFINE n == Len(ds)
           F == [x \in Int \X Dilation |-> x[1] + x[2].delta]
           After(g) == [i \in 0 .. n |-> IF i = 0 THEN 0 ELSE g[i - 1] + ds[i].delta]
           r == CHOOSE g : g = After(g)
<1>0. n \in Nat /\ \A i \in 1 .. n : ds[i] \in Dilation
  OBVIOUS
<1>1. F \in [Int \X Dilation -> Int] /\ \A x \in Int, d \in Dilation : F[<<x, d>>] = x + d.delta
  BY DEF Dilation
<1> HIDE DEF F
<1>2. PICK g \in [0 .. n -> Int] : g[0] = 0 /\ \A i \in 1 .. n : g[i] = F[<<g[i - 1], ds[i]>>]
  <2> DEFINE T == Int
  <2>1. F \in [T \X Dilation -> T] /\ 0 \in T
    BY <1>1
  <2> HIDE DEF T
  <2>2. RunsOf(T, F, 0, ds) # {}
    BY <2>1, RunExists
  <2> QED
    BY <2>2 DEF RunsOf, T
<1> HIDE DEF n
<1>3. ASSUME NEW i \in 1 .. n PROVE g[i] = g[i - 1] + ds[i].delta
  <2>1. i - 1 \in 0 .. n
    BY <1>0
  <2>2. g[i - 1] \in Int
    BY <1>2, <2>1
  <2> QED
    BY <1>0, <1>1, <1>2, <2>2
<1>4. g = After(g)
  BY <1>0, <1>2, <1>3
<1>5. r = After(r)
  BY <1>4
<1>6. delta(ds) = r[n]
  BY DEF delta, n
<1> HIDE DEF r
<1> DEFINE S == {i \in Nat : i \in 0 .. n => r[i] = g[i]}
<1>7. 0 \in S
  BY <1>0, <1>2, <1>5
<1>8. ASSUME NEW i \in Nat, i \in S PROVE i + 1 \in S
  <2> SUFFICES ASSUME i + 1 \in 0 .. n PROVE r[i + 1] = g[i + 1]
    OBVIOUS
  <2>1. i \in 0 .. n /\ i + 1 \in 1 .. n /\ (i + 1) - 1 = i /\ i + 1 # 0
    BY <1>0
  <2>2. r[i + 1] = r[i] + ds[i + 1].delta
    BY <1>5, <2>1
  <2>3. g[i + 1] = g[i] + ds[i + 1].delta
    BY <1>3, <2>1
  <2> QED
    BY <1>8, <2>1, <2>2, <2>3
<1> HIDE DEF S
<1>9. n \in S
  BY <1>0, <1>7, <1>8, NaturalSetInduction
<1>10. delta(ds) = g[n]
  BY <1>0, <1>6, <1>9 DEF S
<1> QED
  BY <1>2, <1>3, <1>10 DEF n

(* What such a run ends with is the sum. *)
LEMMA DeltaIs ==
  ASSUME NEW ds \in Seq(Dilation), NEW h, h[0] = 0,
         \A i \in 1 .. Len(ds) : h[i] = h[i - 1] + ds[i].delta
  PROVE  delta(ds) = h[Len(ds)]
<1> DEFINE n == Len(ds)
<1>1. PICK g \in [0 .. n -> Int] :
        /\ g[0] = 0 /\ \A i \in 1 .. n : g[i] = g[i - 1] + ds[i].delta
        /\ delta(ds) = g[n]
  BY DeltaRun
<1>2. n \in Nat /\ \A i \in 1 .. n : h[i] = h[i - 1] + ds[i].delta
  OBVIOUS
<1> HIDE DEF n
<1> DEFINE S == {i \in Nat : i \in 0 .. n => h[i] = g[i]}
<1>3. 0 \in S
  BY <1>1
<1>4. ASSUME NEW i \in Nat, i \in S PROVE i + 1 \in S
  <2> SUFFICES ASSUME i + 1 \in 0 .. n PROVE h[i + 1] = g[i + 1]
    OBVIOUS
  <2>1. i \in 0 .. n /\ i + 1 \in 1 .. n /\ (i + 1) - 1 = i
    BY <1>2
  <2>2. h[i + 1] = h[i] + ds[i + 1].delta /\ g[i + 1] = g[i] + ds[i + 1].delta
    BY <1>1, <1>2, <2>1
  <2> QED
    BY <1>4, <2>1, <2>2
<1> HIDE DEF S
<1>5. n \in S
  BY <1>2, <1>3, <1>4, NaturalSetInduction
<1> QED
  BY <1>1, <1>2, <1>5 DEF S, n

LEMMA DeltaLemma ==
  /\ delta(<<>>) = 0
  /\ \A ds \in Seq(Dilation) : delta(ds) \in Int
  /\ \A ds \in Seq(Dilation), d \in Dilation : delta(Append(ds, d)) = delta(ds) + d.delta
<1>1. delta(<<>>) = 0
  <2> DEFINE e == <<>>
             h == [i \in {0} |-> 0]
  <2>1. e \in Seq(Dilation) /\ Len(e) = 0 /\ h[0] = 0
    OBVIOUS
  <2>2. \A i \in 1 .. Len(e) : h[i] = h[i - 1] + e[i].delta
    BY <2>1
  <2> HIDE DEF e, h
  <2>3. delta(e) = h[Len(e)]
    BY <2>1, <2>2, DeltaIs
  <2> QED
    BY <2>1, <2>3 DEF e
<1>2. ASSUME NEW ds \in Seq(Dilation) PROVE delta(ds) \in Int
  <2>1. Len(ds) \in 0 .. Len(ds)
    OBVIOUS
  <2> QED
    BY <2>1, DeltaRun
<1>3. ASSUME NEW ds \in Seq(Dilation), NEW d \in Dilation
      PROVE  delta(Append(ds, d)) = delta(ds) + d.delta
  <2> DEFINE n == Len(ds)
             q == Append(ds, d)
  <2>1. PICK g \in [0 .. n -> Int] :
          /\ g[0] = 0 /\ \A i \in 1 .. n : g[i] = g[i - 1] + ds[i].delta
          /\ delta(ds) = g[n]
    BY DeltaRun
  <2>2. /\ n \in Nat /\ q \in Seq(Dilation) /\ Len(q) = n + 1 /\ q[n + 1] = d
        /\ \A i \in 1 .. n : q[i] = ds[i]
    OBVIOUS
  <2> HIDE DEF n, q
  <2> DEFINE h == [i \in 0 .. n + 1 |-> IF i = n + 1 THEN g[n] + d.delta ELSE g[i]]
  <2>3. h[0] = 0 /\ h[n + 1] = g[n] + d.delta /\ \A i \in 0 .. n : h[i] = g[i]
    BY <2>1, <2>2
  <2> HIDE DEF h
  <2>4. ASSUME NEW i \in 1 .. Len(q) PROVE h[i] = h[i - 1] + q[i].delta
    <3>1. CASE i = n + 1
      <4>1. i - 1 = n /\ n \in 0 .. n
        BY <2>2, <3>1
      <4> QED
        BY <2>2, <2>3, <3>1, <4>1
    <3>2. CASE i # n + 1
      <4>1. i \in 1 .. n /\ i \in 0 .. n /\ i - 1 \in 0 .. n
        BY <2>2, <3>2
      <4> QED
        BY <2>1, <2>2, <2>3, <4>1
    <3> QED
      BY <3>1, <3>2
  <2>5. delta(q) = h[Len(q)]
    BY <2>2, <2>3, <2>4, DeltaIs
  <2> QED
    BY <2>1, <2>2, <2>3, <2>5 DEF q
<1> QED
  BY <1>1, <1>2, <1>3
----------------------------------------------------------------------------
(* dilations.effect moves deltas from the list to its result *)

LEMMA OneMoreLemma ==
  ASSUME clock \in Int, NEW e \in Effected, NEW d \in Dilation
  PROVE  /\ OneMore(e, d) \in Effected
         /\ OneMore(e, d).perm + delta(OneMore(e, d).found) = e.perm + delta(e.found) + d.delta
<1>0. /\ e.perm \in Int /\ e.temp \in Int /\ e.found \in Seq(Dilation)
      /\ d.delta \in Int /\ d.from \in Int /\ delta(e.found) \in Int
  BY DeltaLemma DEF Effected, Dilation
<1>1. CASE Done(d)
  <2>1. Effect(d) = d.delta
    BY <1>1 DEF Effect
  <2>2. OneMore(e, d) = [e EXCEPT !.perm = e.perm + d.delta]
    BY <1>1, <2>1 DEF OneMore
  <2>3. /\ OneMore(e, d) \in Effected /\ OneMore(e, d).perm = e.perm + d.delta
        /\ OneMore(e, d).found = e.found
    BY <1>0, <2>2 DEF Effected
  <2> QED
    BY <1>0, <2>3
<1>2. CASE ~Done(d)
  <2>1. Effect(d) \in Int
    <3>1. (clock - d.from) \div dilationFactor \in Int
      BY <1>0 DEF dilationFactor
    <3> QED
      BY <1>2, <3>1 DEF Effect
  <2> DEFINE q == Append(e.found, d)
             t == e.temp + Effect(d)
  <2>2. OneMore(e, d) = [e EXCEPT !.temp = t, !.found = q]
    BY <1>2 DEF OneMore
  <2>3. q \in Seq(Dilation) /\ t \in Int /\ delta(q) = delta(e.found) + d.delta
    BY <1>0, <2>1, DeltaLemma
  <2> HIDE DEF q, t
  <2>4. OneMore(e, d) \in Effected /\ OneMore(e, d).perm = e.perm /\ OneMore(e, d).found = q
    BY <1>0, <2>2, <2>3 DEF Effected
  <2> QED
    BY <1>0, <2>3, <2>4
<1> QED
  BY <1>1, <1>2

(* What the loop of dilations.effect goes through. *)
LEMMA EffectsRun ==
  ASSUME clock \in Int, NEW ds \in Seq(Dilation)
  PROVE  \E g \in [0 .. Len(ds) -> Effected] :
           /\ g[0] = NoEffects /\ \A i \in 1 .. Len(ds) : g[i] = OneMore(g[i - 1], ds[i])
           /\ Effects(ds) = g[Len(ds)]
<1> DEFINE n == Len(ds)
           F == [x \in Effected \X Dilation |-> OneMore(x[1], x[2])]
           After(g) == [i \in 0 .. n |-> IF i = 0 THEN NoEffects ELSE OneMore(g[i - 1], ds[i])]
           r == CHOOSE g : g = After(g)
<1>0. n \in Nat /\ \A i \in 1 .. n : ds[i] \in Dilation
  OBVIOUS
<1>1. /\ F \in [Effected \X Dilation -> Effected]
      /\ \A e \in Effected, d \in Dilation : F[<<e, d>>] = OneMore(e, d)
  BY OneMoreLemma
<1> HIDE DEF F
<1>2. NoEffects \in Effected
  BY DEF NoEffects, Effected
<1>3. PICK g \in [0 .. n -> Effected] :
        g[0] = NoEffects /\ \A i \in 1 .. n : g[i] = F[<<g[i - 1], ds[i]>>]
  <2>1. RunsOf(Effected, F, NoEffects, ds) # {}
    BY <1>1, <1>2, RunExists
  <2> QED
    BY <2>1 DEF RunsOf
<1> HIDE DEF n
<1>4. ASSUME NEW i \in 1 .. n PROVE g[i] = OneMore(g[i - 1], ds[i])
  <2>1. i - 1 \in 0 .. n
    BY <1>0
  <2>2. g[i - 1] \in Effected
    BY <1>3, <2>1
  <2> QED
    BY <1>0, <1>1, <1>3, <2>2
<1>5. g = After(g)
  BY <1>0, <1>3, <1>4
<1>6. r = After(r)
  BY <1>5
<1>7. Effects(ds) = r[n]
  BY DEF Effects, n
<1> HIDE DEF r
<1> DEFINE S == {i \in Nat : i \in 0 .. n => r[i] = g[i]}
<1>9. 0 \in S
  BY <1>0, <1>3, <1>6
<1>10. ASSUME NEW i \in Nat, i \in S PROVE i + 1 \in S
  <2> SUFFICES ASSUME i + 1 \in 0 .. n PROVE r[i + 1] = g[i + 1]
    OBVIOUS
  <2>1. i \in 0 .. n /\ i + 1 \in 1 .. n /\ (i + 1) - 1 = i /\ i + 1 # 0
    BY <1>0
  <2>2. r[i + 1] = OneMore(r[i], ds[i + 1])
    BY <1>6, <2>1
  <2>3. g[i + 1] = OneMore(g[i], ds[i + 1])
    BY <1>4, <2>1
  <2> QED
    BY <1>10, <2>1, <2>2, <2>3
<1> HIDE DEF S
<1>11. n \in S
  BY <1>0, <1>9, <1>10, NaturalSetInduction
<1>12. Effects(ds) = g[n]
  BY <1>0, <1>7, <1>11 DEF S
<1> QED
  BY <1>3, <1>4, <1>12 DEF n

LEMMA EffectsLemma ==
  ASSUME clock \in Int, NEW ds \in Seq(Dilation)
  PROVE  /\ Effects(ds) \in Effected
         /\ Effects(ds).perm + delta(Effects(ds).found) = delta(ds)
<1> DEFINE n == Len(ds)
<1>0. n \in Nat /\ \A i \in 1 .. n : ds[i] \in Dilation
  OBVIOUS
<1>1. PICK g \in [0 .. n -> Effected] :
        /\ g[0] = NoEffects /\ \A i \in 1 .. n : g[i] = OneMore(g[i - 1], ds[i])
        /\ Effects(ds) = g[n]
  BY EffectsRun
<1>2. PICK s \in [0 .. n -> Int] :
        /\ s[0] = 0 /\ \A i \in 1 .. n : s[i] = s[i - 1] + ds[i].delta
        /\ delta(ds) = s[n]
  BY DeltaRun
<1> HIDE DEF n
<1> DEFINE S == {i \in Nat : i \in 0 .. n => g[i].perm + delta(g[i].found) = s[i]}
<1>3. 0 \in S
  BY <1>0, <1>1, <1>2, DeltaLemma DEF NoEffects
<1>4. ASSUME NEW i \in Nat, i \in S PROVE i + 1 \in S
  <2> SUFFICES ASSUME i + 1 \in 0 .. n PROVE g[i + 1].perm + delta(g[i + 1].found) = s[i + 1]
    OBVIOUS
  <2>1. i \in 0 .. n /\ i + 1 \in 1 .. n /\ (i + 1) - 1 = i
    BY <1>0
  <2>2. g[i + 1] = OneMore(g[i], ds[i + 1]) /\ g[i] \in Effected /\ ds[i + 1] \in Dilation
    BY <1>0, <1>1, <2>1
  <2>3. g[i + 1].perm + delta(g[i + 1].found) = g[i].perm + delta(g[i].found) + ds[i + 1].delta
    BY <2>2, OneMoreLemma
  <2>4. s[i + 1] = s[i] + ds[i + 1].delta
    BY <1>2, <2>1
  <2> QED
    BY <1>4, <2>1, <2>3, <2>4
<1> HIDE DEF S
<1>5. n \in S
  BY <1>0, <1>3, <1>4, NaturalSetInduction
<1>6. n \in 0 .. n /\ g[n].perm + delta(g[n].found) = s[n] /\ g[n] \in Effected
  BY <1>0, <1>1, <1>5 DEF S
<1> QED
  BY <1>1, <1>2, <1>6

(* The loop never keeps more than it reads. *)
LEMMA FoundLemma ==
  ASSUME clock \in Int, NEW ds \in Seq(Dilation)
  PROVE  Len(Effects(ds).found) <= Len(ds)
<1> DEFINE n == Len(ds)
<1>0. n \in Nat /\ \A i \in 1 .. n : ds[i] \in Dilation
  OBVIOUS
<1>1. PICK g \in [0 .. n -> Effected] :
        /\ g[0] = NoEffects /\ \A i \in 1 .. n : g[i] = OneMore(g[i - 1], ds[i])
        /\ Effects(ds) = g[n]
  BY EffectsRun
<1> HIDE DEF n
<1> DEFINE S == {i \in Nat : i \in 0 .. n => Len(g[i].found) <= i}
<1>2. 0 \in S
  BY <1>0, <1>1 DEF NoEffects
<1>3. ASSUME NEW i \in Nat, i \in S PROVE i + 1 \in S
  <2> SUFFICES ASSUME i + 1 \in 0 .. n PROVE Len(g[i + 1].found) <= i + 1
    OBVIOUS
  <2>1. i \in 0 .. n /\ i + 1 \in 1 .. n /\ (i + 1) - 1 = i
    BY <1>0
  <2> DEFINE e == g[i]
             d == ds[i + 1]
  <2>2. g[i + 1] = OneMore(e, d) /\ e \in Effected /\ e.found \in Seq(Dilation) /\ Len(e.found) <= i
    BY <1>0, <1>1, <1>3, <2>1 DEF Effected
  <2> HIDE DEF e, d
  <2>3. OneMore(e, d).found = e.found \/ OneMore(e, d).found = Append(e.found, d)
    BY <2>2 DEF OneMore, Effected
  <2> QED
    BY <2>2, <2>3
<1> HIDE DEF S
<1>4. n \in S
  BY <1>0, <1>2, <1>3, NaturalSetInduction
<1> QED
  BY <1>0, <1>1, <1>4 DEF S, n

(* Changing one member of a list changes its sum by as much. *)
LEMMA DeltaChange ==
  ASSUME NEW ds \in Seq(Dilation), NEW es \in Seq(Dilation), Len(es) = Len(ds),
         NEW k \in 1 .. Len(ds), \A i \in 1 .. Len(ds) : i # k => es[i].delta = ds[i].delta
  PROVE  delta(es) = delta(ds) + es[k].delta - ds[k].delta
<1> DEFINE n == Len(ds)
           x == es[k].delta - ds[k].delta
<1>a. \A i \in 1 .. n : ds[i] \in Dilation /\ es[i] \in Dilation
  OBVIOUS
<1>b. \A i \in 1 .. n : ds[i].delta \in Int /\ es[i].delta \in Int
  BY <1>a DEF Dilation
<1>0. /\ n \in Nat /\ k \in 1 .. n /\ ds[k].delta \in Int /\ es[k].delta \in Int
      /\ \A i \in 1 .. n : i # k => es[i].delta = ds[i].delta
      /\ \A i \in 1 .. n : ds[i].delta \in Int
  BY <1>b
<1>1. PICK g \in [0 .. n -> Int] :
        /\ g[0] = 0 /\ \A i \in 1 .. n : g[i] = g[i - 1] + ds[i].delta
        /\ delta(ds) = g[n]
  BY DeltaRun
<1>2. PICK h \in [0 .. n -> Int] :
        /\ h[0] = 0 /\ \A i \in 1 .. n : h[i] = h[i - 1] + es[i].delta
        /\ delta(es) = h[n]
  BY DeltaRun
<1> HIDE DEF n
<1>3. x \in Int /\ es[k].delta = ds[k].delta + x
  BY <1>0
<1> HIDE DEF x
<1> DEFINE S == {i \in Nat : i \in 0 .. n => h[i] = g[i] + (IF i >= k THEN x ELSE 0)}
<1>4. 0 \in S
  BY <1>0, <1>1, <1>2
<1>5. ASSUME NEW i \in Nat, i \in S PROVE i + 1 \in S
  <2> SUFFICES ASSUME i + 1 \in 0 .. n
               PROVE  h[i + 1] = g[i + 1] + (IF i + 1 >= k THEN x ELSE 0)
    OBVIOUS
  <2>1. i \in 0 .. n /\ i + 1 \in 1 .. n /\ (i + 1) - 1 = i
    BY <1>0
  <2>2. /\ h[i + 1] = h[i] + es[i + 1].delta /\ g[i + 1] = g[i] + ds[i + 1].delta
        /\ h[i] = g[i] + (IF i >= k THEN x ELSE 0)
        /\ g[i] \in Int /\ h[i] \in Int /\ ds[i + 1].delta \in Int
    BY <1>0, <1>1, <1>2, <1>5, <2>1
  <2>3. CASE i + 1 = k
    <3>1. es[i + 1].delta = ds[i + 1].delta + x
      BY <1>3, <2>3
    <3>2. h[i] = g[i]
      <4>1. ~(i >= k)
        BY <1>0, <2>3
      <4> QED
        BY <2>2, <4>1
    <3>3. h[i + 1] = g[i + 1] + x
      BY <1>3, <2>2, <3>1, <3>2
    <3> QED
      BY <1>0, <2>3, <3>3
  <2>4. CASE i + 1 # k
    <3>1. es[i + 1].delta = ds[i + 1].delta
      BY <1>0, <2>1, <2>4
    <3>2. (i + 1 >= k) <=> (i >= k)
      <4>1. k \in Int
        BY <1>0
      <4> QED
        BY <2>4, <4>1
    <3> QED
      BY <1>3, <2>2, <3>1, <3>2
  <2> QED
    BY <2>3, <2>4
<1> HIDE DEF S
<1>6. n \in S
  BY <1>0, <1>4, <1>5, NaturalSetInduction
<1>7. h[n] = g[n] + x /\ g[n] \in Int
  BY <1>0, <1>1, <1>6 DEF S
<1> QED
  BY <1>0, <1>1, <1>2, <1>7 DEF x
----------------------------------------------------------------------------
(* What the calls have in their hands *)

Hand(c) == IF call[c].pc \in {"sum", "ask", "add"} THEN call[c].perm ELSE 0

LEMMA HandsAre ==
  ASSUME \A c \in Callers : call[c].perm \in Int
  PROVE  /\ Hands \in Seq(Dilation) /\ Len(Hands) = MaxCallers /\ delta(Hands) \in Int
         /\ \A c \in Callers : Hands[c].delta = Hand(c)
<1> DEFINE one(c) == [delta |-> Hand(c), from |-> 0]
<1>0. MaxCallers \in Nat
  BY TimerAssumption
<1>1. \A c \in Callers : one(c) \in Dilation /\ one(c).delta = Hand(c)
  BY DEF Hand, Dilation
<1>2. Hands = [c \in 1 .. MaxCallers |-> one(c)]
  BY DEF Hands, Hand, Callers
<1> HIDE DEF one
<1>3. Hands \in Seq(Dilation) /\ Len(Hands) = MaxCallers /\ \A c \in Callers : Hands[c].delta = Hand(c)
  BY <1>0, <1>1, <1>2 DEF Callers
<1> QED
  BY <1>3, DeltaLemma

(* A step that changes what one call has changes the sum by as much. *)
LEMMA HandsChange ==
  ASSUME \A c \in Callers : call[c].perm \in Int /\ call'[c].perm \in Int,
         NEW k \in Callers, \A c \in Callers : c # k => Hand(c)' = Hand(c)
  PROVE  delta(Hands') = delta(Hands) + Hand(k)' - Hand(k)
<1>1. /\ Hands \in Seq(Dilation) /\ Len(Hands) = MaxCallers
      /\ \A c \in Callers : Hands[c].delta = Hand(c)
  BY HandsAre
<1>2. /\ Hands' \in Seq(Dilation) /\ Len(Hands') = MaxCallers
      /\ \A c \in Callers : Hands'[c].delta = Hand(c)'
  <2> DEFINE one(c) == [delta |-> Hand(c)', from |-> 0]
  <2>0. MaxCallers \in Nat
    BY TimerAssumption
  <2>1. \A c \in Callers : one(c) \in Dilation /\ one(c).delta = Hand(c)'
    BY DEF Hand, Dilation
  <2>2. Hands' = [c \in 1 .. MaxCallers |-> one(c)]
    BY DEF Hands, Hand, Callers
  <2> HIDE DEF one
  <2> QED
    BY <2>0, <2>1, <2>2 DEF Callers
<1>3. k \in 1 .. MaxCallers /\ \A i \in 1 .. MaxCallers : i # k => Hands'[i].delta = Hands[i].delta
  BY <1>1, <1>2 DEF Callers
<1>4. delta(Hands') = delta(Hands) + Hands'[k].delta - Hands[k].delta
  BY <1>1, <1>2, <1>3, DeltaChange
<1> QED
  BY <1>1, <1>2, <1>4
----------------------------------------------------------------------------
(* The inductive invariant *)

CallFields == {"pc", "found", "perm", "temp", "result"}
CallOK(c) ==
  /\ DOMAIN call[c] = CallFields
  /\ call[c].pc \in {"idle", "scan", "store", "sum", "ask", "add", "return"}
  /\ call[c].found \in Seq(Dilation) /\ call[c].perm \in Int

TimerOK ==
  /\ clock \in Int /\ offset \in Int /\ total \in Int /\ raced \in BOOLEAN
  /\ dilations \in Seq(Dilation) /\ DOMAIN call = Callers

(* A caller holds a read lock while it looks at the dilations and stores   *)
(* them, which keeps the runner from adding one.                           *)
LocksOK ==
  /\ reading \in [Threads -> Int]
  /\ \A c \in Callers : reading[c] = IF call[c].pc \in {"scan", "store", "sum"} THEN 1 ELSE 0

(* A call about to replace the list has divided the list there is between  *)
(* what it keeps and what it takes, or it has read a torn one, and then    *)
(* two calls are about to make the list shorter.                           *)
Fresh(c) == call[c].perm + delta(call[c].found) = delta(dilations)
Shortens(c) == call[c].pc = "store" /\ Len(call[c].found) < Len(dilations)
StoreOK(c) ==
  call[c].pc = "store" => Fresh(c) \/ (Shortens(c) /\ \E o \in Callers \ {c} : Shortens(o))

SumOK == offset + delta(dilations) + delta(Hands) = total

Types == TimerOK /\ LocksOK /\ \A c \in Callers : CallOK(c)
Inv == Types /\ (~raced => SumOK /\ \A c \in Callers : StoreOK(c))

LEMMA InvInit == Init => Inv
<1> SUFFICES ASSUME Init PROVE Inv
  OBVIOUS
<1>1. delta(<<>>) = 0 /\ <<>> \in Seq(Dilation)
  BY DeltaLemma
<1>2. \A c \in Callers : call[c] = Idle
  BY DEF Init
<1>3. DOMAIN Idle = CallFields /\ Idle.pc = "idle" /\ Idle.perm = 0 /\ Idle.found = <<>>
  BY DEF Idle, CallFields
<1>4. TimerOK
  <2>1. raced \in BOOLEAN
    BY Zenon DEF Init
  <2>2. DOMAIN call = Callers
    BY DEF Init
  <2>3. clock \in Int /\ offset \in Int /\ total \in Int /\ dilations \in Seq(Dilation)
    BY <1>1 DEF Init
  <2> QED
    BY <2>1, <2>2, <2>3 DEF TimerOK
<1>5. LocksOK
  BY <1>2, <1>3 DEF Init, LocksOK, Threads
<1>6. ASSUME NEW c \in Callers PROVE CallOK(c)
  <2>1. call[c] = Idle
    BY <1>2
  <2>2. call[c].found = <<>> /\ call[c].perm = 0 /\ call[c].pc = "idle" /\ DOMAIN call[c] = CallFields
    BY <1>3, <2>1
  <2> QED
    BY <1>1, <2>2 DEF CallOK
<1>7. \A c \in Callers : StoreOK(c)
  BY <1>2, <1>3 DEF StoreOK
<1>8. delta(Hands) = 0
  <2>1. Hands \in Seq(Dilation) /\ Len(Hands) = MaxCallers /\ MaxCallers \in Nat
          /\ \A c \in Callers : Hands[c].delta = 0
    BY <1>2, <1>3, HandsAre, TimerAssumption DEF Hand
  <2> DEFINE h == [i \in 0 .. MaxCallers |-> 0]
  <2>2. h[0] = 0 /\ h[MaxCallers] = 0
          /\ \A i \in 1 .. Len(Hands) : h[i] = h[i - 1] + Hands[i].delta
    BY <2>1 DEF Callers
  <2> HIDE DEF h
  <2> QED
    BY <2>1, <2>2, DeltaIs
<1>9. SumOK
  BY <1>1, <1>8 DEF Init, SumOK
<1> QED
  BY <1>4, <1>5, <1>6, <1>7, <1>9 DEF Inv, Types
----------------------------------------------------------------------------
(* The steps that move nothing *)

(* A step that leaves the list and the sums alone, and neither begins nor  *)
(* ends a call's stay between reading the list and replacing it.           *)
LEMMA QuietStep ==
  ASSUME Inv, Types', UNCHANGED <<offset, dilations, total, raced>>,
         \A c \in Callers : Hand(c)' = Hand(c),
         \A c \in Callers : call[c].pc = "store" \/ call'[c].pc = "store" => call'[c] = call[c]
  PROVE  Inv'
<1> SUFFICES ASSUME ~raced PROVE SumOK' /\ \A c \in Callers : StoreOK(c)'
  BY DEF Inv
<1>0. SumOK /\ (\A c \in Callers : StoreOK(c)) /\ \A c \in Callers : call[c].perm \in Int /\ call'[c].perm \in Int
  BY DEF Inv, Types, CallOK
<1>1. SumOK'
  <2>1. Hands' = Hands
    BY DEF Hands, Hand
  <2> QED
    BY <1>0, <2>1 DEF SumOK
<1>2. ASSUME NEW c \in Callers PROVE StoreOK(c)'
  <2> SUFFICES ASSUME call'[c].pc = "store"
               PROVE  Fresh(c)' \/ (Shortens(c)' /\ \E o \in Callers \ {c} : Shortens(o)')
    BY DEF StoreOK
  <2>1. call'[c] = call[c] /\ (Fresh(c) \/ (Shortens(c) /\ \E o \in Callers \ {c} : Shortens(o)))
    BY <1>0 DEF StoreOK
  <2>2. Fresh(c) => Fresh(c)'
    BY <2>1 DEF Fresh
  <2>3. \A o \in Callers : Shortens(o) => Shortens(o)'
    BY DEF Shortens
  <2> QED
    BY <2>1, <2>2, <2>3
<1> QED
  BY <1>1, <1>2

(* The steps of the runner, and of the clock. *)
LEMMA RunnerKeeps ==
  ASSUME Inv, Tick \/ Start \/ Stop \/ Conform \/ Skew \/ RunnerStep
  PROVE  Inv'
<1>0. TimerOK /\ LocksOK /\ \A c \in Callers : CallOK(c)
  BY DEF Inv, Types
<1>a. (\A c \in Callers : call[c].perm \in Int) /\ delta(Hands) \in Int /\ delta(dilations) \in Int
        /\ offset \in Int /\ total \in Int
  BY <1>0, HandsAre, DeltaLemma DEF CallOK, TimerOK
<1>1. CASE Tick \/ Start \/ Stop \/ Conform \/ Skew \/ Sample \/ AskToAdjust
             \/ PeerAnswers \/ ActualTime \/ ActualTimeReturns
  <2>1. UNCHANGED <<offset, dilations, call, total, raced>> /\ clock' \in {clock, clock + 5}
    BY <1>1 DEF Tick, Start, Stop, Conform, Skew, Sample, AskToAdjust, PeerAnswers, ActualTime,
                ActualTimeReturns, dilationFactor
  <2>2. reading' \in [Threads -> Int] /\ \A c \in Callers : reading'[c] = reading[c]
    <3>1. Runner \in Threads /\ (\A c \in Callers : c # Runner /\ c \in Threads) /\ reading \in [Threads -> Int]
      BY <1>0, TimerAssumption DEF Threads, LocksOK, Runner, Callers
    <3>2. \/ reading' = reading
          \/ reading' = [reading EXCEPT ![Runner] = reading[Runner] + 1]
          \/ reading' = [reading EXCEPT ![Runner] = reading[Runner] - 2]
      BY <1>1 DEF Tick, Start, Stop, Conform, Skew, Sample, AskToAdjust, PeerAnswers, ActualTime,
                  ActualTimeReturns, RLock, RUnlock
    <3> HIDE DEF Runner
    <3> QED
      BY <3>1, <3>2
  <2>3. TimerOK'
    BY <1>0, <2>1 DEF TimerOK
  <2>4. LocksOK'
    BY <1>0, <2>1, <2>2 DEF LocksOK
  <2>5. \A c \in Callers : CallOK(c)'
    BY <1>0, <2>1 DEF CallOK
  <2>6. \A c \in Callers : Hand(c)' = Hand(c)
    BY <2>1 DEF Hand
  <2> QED
    BY <2>1, <2>3, <2>4, <2>5, <2>6, QuietStep DEF Types
<1>2. CASE Adjust
  <2>1. /\ UNCHANGED <<clock, offset, reading, call, raced>> /\ \A o \in Threads : reading[o] = 0
    BY <1>2 DEF Adjust, Locked
  <2>2. \A c \in Callers : call[c].pc \notin {"scan", "store", "sum"}
    BY <1>0, <2>1 DEF LocksOK, Threads
  <2>3. PICK d \in Int : /\ dilations' \in Seq(Dilation) /\ total' = total + d
                         /\ delta(dilations') = delta(dilations) + d
    <3>0. total \in Int /\ clock \in Int /\ dilations \in Seq(Dilation) /\ delta(dilations) \in Int
      BY <1>0, DeltaLemma DEF TimerOK
    <3>1. CASE UNCHANGED <<dilations, total>>
      BY <3>0, <3>1
    <3>2. CASE \E d \in Deltas : /\ dilations' = Append(dilations, [delta |-> d, from |-> clock])
                                 /\ total' = total + d
      <4>1. PICK d \in Deltas : /\ dilations' = Append(dilations, [delta |-> d, from |-> clock])
                                /\ total' = total + d
        BY <3>2
      <4> DEFINE x == [delta |-> d, from |-> clock]
      <4>2. x \in Dilation /\ x.delta = d /\ d \in Int
        BY <3>0, TimerAssumption DEF Dilation
      <4> HIDE DEF x
      <4>3. Append(dilations, x) \in Seq(Dilation) /\ delta(Append(dilations, x)) = delta(dilations) + d
        BY <3>0, <4>2, DeltaLemma
      <4> QED
        BY <4>1, <4>2, <4>3 DEF x
    <3> QED
      BY <1>2, <3>1, <3>2 DEF Adjust
  <2>4. TimerOK'
    BY <1>0, <1>a, <2>1, <2>3 DEF TimerOK
  <2>5. LocksOK' /\ \A c \in Callers : CallOK(c)'
    BY <1>0, <2>1 DEF LocksOK, CallOK
  <2>6. \A c \in Callers : StoreOK(c)'
    BY <2>1, <2>2 DEF StoreOK
  <2>7. SumOK => SumOK'
    <3>1. Hands' = Hands
      BY <2>1 DEF Hands
    <3> QED
      BY <1>a, <2>1, <2>3, <3>1 DEF SumOK
  <2> QED
    BY <2>1, <2>4, <2>5, <2>6, <2>7 DEF Inv, Types
<1>3. CASE Set
  <2>1. UNCHANGED <<clock, dilations, reading, call, raced>>
    BY <1>3 DEF Set
  <2>2. PICK d \in Int : offset' = offset + d /\ total' = total + d
    BY <1>3, TimerAssumption DEF Set
  <2>3. TimerOK'
    BY <1>0, <1>a, <2>1, <2>2 DEF TimerOK
  <2>4. LocksOK' /\ \A c \in Callers : CallOK(c)'
    BY <1>0, <2>1 DEF LocksOK, CallOK
  <2>5. \A c \in Callers : StoreOK(c) => StoreOK(c)'
    BY <2>1 DEF StoreOK, Fresh, Shortens
  <2>6. SumOK => SumOK'
    <3>1. Hands' = Hands
      BY <2>1 DEF Hands
    <3> QED
      BY <1>a, <2>1, <2>2, <3>1 DEF SumOK
  <2> QED
    BY <2>1, <2>3, <2>4, <2>5, <2>6 DEF Inv, Types
<1> QED
  BY <1>1, <1>2, <1>3 DEF RunnerStep
----------------------------------------------------------------------------
(* The steps of a call *)

LEMMA CallTypes ==
  ASSUME Types, NEW c \in Callers, NEW r, DOMAIN r = CallFields,
         r.pc \in {"idle", "scan", "store", "sum", "ask", "add", "return"},
         r.found \in Seq(Dilation), r.perm \in Int, call' = [call EXCEPT ![c] = r],
         reading' = [reading EXCEPT ![c] = IF r.pc \in {"scan", "store", "sum"} THEN 1 ELSE 0],
         clock' \in Int, offset' \in Int, total' \in Int, raced' \in BOOLEAN,
         dilations' \in Seq(Dilation)
  PROVE  /\ Types' /\ call'[c] = r
         /\ \A o \in Callers : o # c => call'[o] = call[o]
         /\ \A o \in Callers : call[o].perm \in Int /\ call'[o].perm \in Int
<1>0. /\ DOMAIN call = Callers /\ reading \in [Threads -> Int] /\ c \in Threads
      /\ \A o \in Callers : CallOK(o) /\ o \in Threads
  BY DEF Types, TimerOK, LocksOK, Threads
<1>1. DOMAIN call' = Callers /\ call'[c] = r /\ \A o \in Callers : o # c => call'[o] = call[o]
  BY <1>0
<1>2. \A o \in Callers : CallOK(o)'
  BY <1>0, <1>1 DEF CallOK
<1>3. LocksOK'
  BY <1>0, <1>1 DEF LocksOK, Types
<1> QED
  BY <1>0, <1>1, <1>2, <1>3 DEF Types, TimerOK, CallOK

(* The steps that do not touch the list or the offset. *)
LEMMA CallQuiet ==
  ASSUME Inv, NEW c \in Callers, ContinuousTime(c) \/ Sum(c) \/ AskToAdd(c) \/ Return(c)
  PROVE  Inv'
<1>0. /\ Types /\ CallOK(c) /\ DOMAIN call[c] = CallFields /\ reading \in [Threads -> Int] /\ c \in Threads
      /\ call[c].perm \in Int /\ call[c].found \in Seq(Dilation) /\ DOMAIN call = Callers
      /\ reading[c] = IF call[c].pc \in {"scan", "store", "sum"} THEN 1 ELSE 0
      /\ clock \in Int /\ offset \in Int /\ total \in Int /\ raced \in BOOLEAN /\ dilations \in Seq(Dilation)
  BY DEF Inv, Types, TimerOK, LocksOK, CallOK, Threads
<1>1. UNCHANGED <<clock, offset, dilations, total, raced>>
  BY DEF ContinuousTime, Sum, AskToAdd, Return
<1>2. SUFFICES \E r : /\ DOMAIN r = CallFields /\ r.pc \in {"scan", "ask", "add", "return", "idle"}
                      /\ r.found \in Seq(Dilation) /\ r.perm \in Int
                      /\ call[c].pc # "store" /\ call' = [call EXCEPT ![c] = r]
                      /\ reading' = [reading EXCEPT ![c] = IF r.pc \in {"scan", "store", "sum"} THEN 1 ELSE 0]
                      /\ (IF r.pc \in {"ask", "add"} THEN r.perm ELSE 0) = Hand(c)
  <2>1. PICK r : /\ DOMAIN r = CallFields /\ r.pc \in {"scan", "ask", "add", "return", "idle"}
                 /\ r.found \in Seq(Dilation) /\ r.perm \in Int
                 /\ call[c].pc # "store" /\ call' = [call EXCEPT ![c] = r]
                 /\ reading' = [reading EXCEPT ![c] = IF r.pc \in {"scan", "store", "sum"} THEN 1 ELSE 0]
                 /\ (IF r.pc \in {"ask", "add"} THEN r.perm ELSE 0) = Hand(c)
    BY <1>2
  <2>2. Types' /\ call'[c] = r /\ \A o \in Callers : o # c => call'[o] = call[o]
    BY <1>0, <1>1, <2>1, CallTypes
  <2>3. \A o \in Callers : Hand(o)' = Hand(o)
    BY <2>1, <2>2 DEF Hand
  <2> QED
    BY <1>1, <2>1, <2>2, <2>3, QuietStep
<1>3. CASE ContinuousTime(c)
  <2> DEFINE r == [Idle EXCEPT !.pc = "scan"]
  <2>1. /\ call[c].pc = "idle" /\ call' = [call EXCEPT ![c] = r]
        /\ reading' = [reading EXCEPT ![c] = reading[c] + 1]
    BY <1>3 DEF ContinuousTime, RLock
  <2>2. DOMAIN r = CallFields /\ r.pc = "scan" /\ r.perm = 0 /\ r.found = <<>> /\ <<>> \in Seq(Dilation)
    BY DEF Idle, CallFields
  <2> HIDE DEF r
  <2>3. reading[c] + 1 = 1 /\ Hand(c) = 0
    BY <1>0, <2>1 DEF Hand
  <2>4. reading' = [reading EXCEPT ![c] = IF r.pc \in {"scan", "store", "sum"} THEN 1 ELSE 0]
    BY <2>1, <2>2, <2>3
  <2>5. (IF r.pc \in {"ask", "add"} THEN r.perm ELSE 0) = Hand(c)
    BY <2>2, <2>3
  <2>6. r.pc \in {"scan", "ask", "add", "return", "idle"} /\ r.found \in Seq(Dilation) /\ r.perm \in Int
          /\ call[c].pc # "store"
    BY <2>1, <2>2
  <2> QED
    BY <2>1, <2>2, <2>4, <2>5, <2>6, Zenon
<1>4. CASE Sum(c)
  <2> DEFINE pc == IF call[c].perm # 0 THEN "ask" ELSE "return"
             result == clock + offset + call[c].perm + call[c].temp
             r == [call[c] EXCEPT !.pc = pc, !.result = result]
  <2>1. call[c].pc = "sum" /\ reading' = [reading EXCEPT ![c] = reading[c] - 1]
    BY <1>4 DEF Sum, RUnlock
  <2>2. call' = [call EXCEPT ![c] = r]
    BY <1>4, Zenon DEF Sum
  <2>3. DOMAIN r = CallFields /\ r.pc = pc /\ r.perm = call[c].perm /\ r.found = call[c].found
    <3> HIDE DEF pc, result
    <3> QED
      BY <1>0 DEF CallFields
  <2> HIDE DEF r
  <2>4. reading[c] - 1 = 0 /\ Hand(c) = call[c].perm
    BY <1>0, <2>1 DEF Hand
  <2> QED
    BY <1>0, <2>1, <2>2, <2>3, <2>4
<1>5. CASE AskToAdd(c)
  <2> DEFINE r == [call[c] EXCEPT !.pc = "add"]
  <2>1. call[c].pc = "ask" /\ call' = [call EXCEPT ![c] = r] /\ reading' = reading
    BY <1>5 DEF AskToAdd, At
  <2>2. DOMAIN r = CallFields /\ r.pc = "add" /\ r.perm = call[c].perm /\ r.found = call[c].found
    BY <1>0 DEF CallFields
  <2> HIDE DEF r
  <2>3. reading = [reading EXCEPT ![c] = 0] /\ Hand(c) = call[c].perm
    BY <1>0, <2>1 DEF Hand
  <2> QED
    BY <1>0, <2>1, <2>2, <2>3
<1>6. CASE Return(c)
  <2>1. call[c].pc = "return" /\ call' = [call EXCEPT ![c] = Idle] /\ reading' = reading
    BY <1>6 DEF Return
  <2>2. DOMAIN Idle = CallFields /\ Idle.pc = "idle" /\ Idle.perm = 0 /\ Idle.found = <<>>
          /\ <<>> \in Seq(Dilation)
    BY DEF Idle, CallFields
  <2>3. reading = [reading EXCEPT ![c] = 0] /\ Hand(c) = 0
    BY <1>0, <2>1 DEF Hand
  <2> DEFINE r == Idle
  <2>4. reading' = [reading EXCEPT ![c] = IF r.pc \in {"scan", "store", "sum"} THEN 1 ELSE 0]
    BY <2>1, <2>2, <2>3
  <2>5. (IF r.pc \in {"ask", "add"} THEN r.perm ELSE 0) = Hand(c)
    BY <2>2, <2>3
  <2>6. r.pc \in {"scan", "ask", "add", "return", "idle"} /\ r.found \in Seq(Dilation) /\ r.perm \in Int
          /\ call[c].pc # "store" /\ call' = [call EXCEPT ![c] = r] /\ DOMAIN r = CallFields
    BY <2>1, <2>2
  <2> HIDE DEF r
  <2> QED
    BY <2>4, <2>5, <2>6, Zenon
<1> QED
  BY <1>3, <1>4, <1>5, <1>6

LEMMA ScanKeeps ==
  ASSUME Inv, NEW c \in Callers, Scan(c)
  PROVE  Inv'
<1>0. /\ Types /\ DOMAIN call[c] = CallFields /\ reading \in [Threads -> Int] /\ c \in Threads
      /\ (\A o \in Callers : call[o].perm \in Int /\ call[o].found \in Seq(Dilation))
      /\ reading[c] = IF call[c].pc \in {"scan", "store", "sum"} THEN 1 ELSE 0
      /\ clock \in Int /\ offset \in Int /\ total \in Int /\ raced \in BOOLEAN /\ dilations \in Seq(Dilation)
  BY DEF Inv, Types, TimerOK, LocksOK, CallOK, Threads
<1>1. UNCHANGED <<clock, offset, dilations, reading, total, raced>> /\ call[c].pc = "scan"
  BY DEF Scan
<1>2. PICK ds \in Readable(c) :
        call' = [call EXCEPT ![c] = [call[c] EXCEPT !.pc = "store", !.perm = Effects(ds).perm,
                                     !.temp = Effects(ds).temp, !.found = Effects(ds).found]]
  BY DEF Scan
(* The list that was read is the content, or a part of it while another    *)
(* call is about to make it as short.                                      *)
<1>3. /\ ds \in Seq(Dilation)
      /\ \/ ds = dilations
         \/ Len(ds) < Len(dilations) /\ \E o \in Callers \ {c} : Shortens(o)
  <2>1. CASE ds = dilations
    BY <1>0, <2>1
  <2>2. CASE ds # dilations
    <3>1. PICK o \in Callers \ {c} : /\ call[o].pc = "store" /\ Len(call[o].found) <= Len(dilations)
                                     /\ ds = SubSeq(dilations, 1, Len(call[o].found))
      BY <2>2 DEF Readable
    <3> DEFINE k == Len(call[o].found)
    <3>2. k \in Nat /\ k <= Len(dilations) /\ ds = SubSeq(dilations, 1, k)
      BY <1>0, <3>1
    <3> HIDE DEF k
    <3>3. ds \in Seq(Dilation) /\ Len(ds) = k
      BY <1>0, <3>2
    <3>4. k # Len(dilations)
      <4> SUFFICES ASSUME k = Len(dilations) PROVE FALSE
        OBVIOUS
      <4>1. ds = dilations
        BY <1>0, <3>2, <3>3
      <4> QED
        BY <2>2, <4>1
    <3>5. k < Len(dilations)
      BY <1>0, <3>2, <3>4
    <3> QED
      BY <3>1, <3>3, <3>5 DEF Shortens, k
  <2> QED
    BY <2>1, <2>2
<1> DEFINE e == Effects(ds)
           r == [call[c] EXCEPT !.pc = "store", !.perm = e.perm, !.temp = e.temp, !.found = e.found]
<1>4. e.perm \in Int /\ e.found \in Seq(Dilation) /\ e.perm + delta(e.found) = delta(ds)
        /\ Len(e.found) <= Len(ds)
  BY <1>0, <1>3, EffectsLemma, FoundLemma DEF Effected
<1> HIDE DEF e
<1>5. DOMAIN r = CallFields /\ r.pc = "store" /\ r.perm = e.perm /\ r.found = e.found
  BY <1>0 DEF CallFields
<1>6. call' = [call EXCEPT ![c] = r]
  BY <1>2 DEF e
<1> HIDE DEF r
<1>7. reading' = [reading EXCEPT ![c] = IF r.pc \in {"scan", "store", "sum"} THEN 1 ELSE 0]
  <2>1. reading' = [reading EXCEPT ![c] = 1]
    BY <1>0, <1>1
  <2> QED
    BY <1>5, <2>1
<1>8. Types' /\ call'[c] = r /\ \A o \in Callers : o # c => call'[o] = call[o]
  <2>1. r.pc \in {"idle", "scan", "store", "sum", "ask", "add", "return"}
          /\ r.found \in Seq(Dilation) /\ r.perm \in Int
    BY <1>4, <1>5
  <2> QED
    BY <1>0, <1>1, <1>5, <1>6, <1>7, <2>1, CallTypes
<1> SUFFICES ASSUME ~raced PROVE SumOK' /\ \A o \in Callers : StoreOK(o)'
  BY <1>1, <1>8 DEF Inv
<1>9. SumOK'
  <2>1. Hands' = Hands
    BY <1>1, <1>5, <1>8 DEF Hands
  <2> QED
    BY <1>1, <2>1 DEF SumOK, Inv
<1>10. \A o \in Callers : Shortens(o) => o # c /\ Shortens(o)'
  BY <1>1, <1>8 DEF Shortens
<1>11. StoreOK(c)'
  <2>1. CASE ds = dilations
    BY <1>1, <1>4, <1>5, <1>8, <2>1 DEF StoreOK, Fresh
  <2>2. CASE Len(ds) < Len(dilations) /\ \E o \in Callers \ {c} : Shortens(o)
    <3>1. Len(e.found) < Len(dilations)
      BY <1>0, <1>3, <1>4, <2>2
    <3>2. Shortens(c)'
      BY <1>1, <1>5, <1>8, <3>1 DEF Shortens
    <3> QED
      BY <1>10, <2>2, <3>2 DEF StoreOK
  <2> QED
    BY <1>3, <2>1, <2>2
<1>12. ASSUME NEW o \in Callers, o # c PROVE StoreOK(o)'
  <2>1. StoreOK(o) /\ call'[o] = call[o]
    BY <1>8, <1>12 DEF Inv
  <2>2. Fresh(o) => Fresh(o)'
    BY <1>1, <2>1 DEF Fresh
  <2> QED
    BY <1>10, <2>1, <2>2 DEF StoreOK
<1> QED
  BY <1>9, <1>11, <1>12

LEMMA StoreKeeps ==
  ASSUME Inv, NEW c \in Callers, Store(c)
  PROVE  Inv'
<1>0. /\ Types /\ DOMAIN call[c] = CallFields /\ reading \in [Threads -> Int] /\ c \in Threads
      /\ (\A o \in Callers : call[o].perm \in Int /\ call[o].found \in Seq(Dilation))
      /\ reading[c] = IF call[c].pc \in {"scan", "store", "sum"} THEN 1 ELSE 0
      /\ clock \in Int /\ offset \in Int /\ total \in Int /\ raced \in BOOLEAN /\ dilations \in Seq(Dilation)
  BY DEF Inv, Types, TimerOK, LocksOK, CallOK, Threads
<1> DEFINE r == [call[c] EXCEPT !.pc = "sum"]
<1>1. /\ UNCHANGED <<clock, offset, reading, total>> /\ call[c].pc = "store"
      /\ call' = [call EXCEPT ![c] = r] /\ dilations' = call[c].found
  BY DEF Store, At
<1>2. raced' = (raced \/ Races(c))
  BY DEF Store
<1>3. DOMAIN r = CallFields /\ r.pc = "sum" /\ r.perm = call[c].perm /\ r.found = call[c].found
  BY <1>0 DEF CallFields
<1> HIDE DEF r
<1>4. reading' = [reading EXCEPT ![c] = IF r.pc \in {"scan", "store", "sum"} THEN 1 ELSE 0]
  <2>1. reading' = [reading EXCEPT ![c] = 1]
    BY <1>0, <1>1
  <2> QED
    BY <1>3, <2>1
<1>5. /\ Types' /\ call'[c] = r /\ \A o \in Callers : o # c => call'[o] = call[o]
      /\ \A o \in Callers : call[o].perm \in Int /\ call'[o].perm \in Int
  <2>1. r.pc \in {"idle", "scan", "store", "sum", "ask", "add", "return"}
          /\ r.found \in Seq(Dilation) /\ r.perm \in Int /\ dilations' \in Seq(Dilation)
    BY <1>0, <1>1, <1>3
  <2>2. raced' \in BOOLEAN
    BY <1>2, Zenon
  <2> QED
    BY <1>0, <1>1, <1>3, <1>4, <2>1, <2>2, CallTypes
<1> SUFFICES ASSUME ~raced, ~Races(c) PROVE SumOK' /\ \A o \in Callers : StoreOK(o)'
  BY <1>2, <1>5 DEF Inv
<1>6. StoreOK(c) /\ SumOK /\ \A o \in Callers : StoreOK(o)
  BY DEF Inv
<1>7. call[c].found = dilations \/ \A o \in Callers \ {c} : call[o].pc # "store"
  BY DEF Races
<1>8. Fresh(c)
  <2> SUFFICES ASSUME Shortens(c), NEW o \in Callers \ {c}, Shortens(o) PROVE FALSE
    BY <1>1, <1>6 DEF StoreOK
  <2>1. call[c].found # dilations /\ call[o].pc = "store"
    BY <1>0 DEF Shortens
  <2> QED
    BY <1>7, <2>1
<1>9. SumOK'
  <2>1. Hand(c)' = call[c].perm /\ Hand(c) = 0 /\ \A o \in Callers : o # c => Hand(o)' = Hand(o)
    BY <1>1, <1>3, <1>5 DEF Hand
  <2>2. delta(Hands') = delta(Hands) + Hand(c)' - Hand(c)
    BY <1>5, <2>1, HandsChange
  <2>3. delta(Hands) \in Int /\ delta(call[c].found) \in Int /\ delta(dilations) \in Int /\ call[c].perm \in Int
    BY <1>0, <1>5, HandsAre, DeltaLemma
  <2>4. call[c].perm + delta(call[c].found) = delta(dilations)
          /\ offset + delta(dilations) + delta(Hands) = total
    BY <1>6, <1>8 DEF Fresh, SumOK
  <2>5. delta(Hands') = delta(Hands) + call[c].perm
    BY <2>1, <2>2, <2>3
  <2>6. offset + delta(call[c].found) + (delta(Hands) + call[c].perm) = total
    BY <1>0, <2>3, <2>4
  <2> QED
    BY <1>1, <2>5, <2>6 DEF SumOK
<1>10. ASSUME NEW o \in Callers PROVE StoreOK(o)'
  <2>1. CASE o = c
    BY <1>3, <1>5, <2>1 DEF StoreOK
  <2>2. CASE o # c /\ call[o].pc # "store"
    BY <1>5, <2>2 DEF StoreOK
  <2>3. CASE o # c /\ call[o].pc = "store"
    <3>1. call[c].found = dilations /\ call'[o] = call[o] /\ dilations' = dilations
      BY <1>1, <1>5, <1>7, <2>3
    <3>2. ~Shortens(c)
      BY <1>0, <3>1 DEF Shortens
    <3>3. \A p \in Callers : Shortens(p) => Shortens(p)'
      BY <1>5, <3>1, <3>2 DEF Shortens
    <3>4. Fresh(o) => Fresh(o)'
      BY <3>1 DEF Fresh
    <3> QED
      BY <1>6, <2>3, <3>1, <3>3, <3>4 DEF StoreOK
  <2> QED
    BY <2>1, <2>2, <2>3
<1> QED
  BY <1>9, <1>10

LEMMA AddKeeps ==
  ASSUME Inv, NEW c \in Callers, Add(c)
  PROVE  Inv'
<1>0. /\ Types /\ DOMAIN call[c] = CallFields /\ reading \in [Threads -> Int] /\ c \in Threads
      /\ call[c].perm \in Int /\ call[c].found \in Seq(Dilation)
      /\ reading[c] = IF call[c].pc \in {"scan", "store", "sum"} THEN 1 ELSE 0
      /\ clock \in Int /\ offset \in Int /\ total \in Int /\ raced \in BOOLEAN /\ dilations \in Seq(Dilation)
  BY DEF Inv, Types, TimerOK, LocksOK, CallOK, Threads
<1> DEFINE r == [call[c] EXCEPT !.pc = "return"]
<1>1. /\ UNCHANGED <<clock, dilations, reading, total, raced>> /\ call[c].pc = "add"
      /\ call' = [call EXCEPT ![c] = r] /\ offset' = offset + call[c].perm
  BY DEF Add, At
<1>2. DOMAIN r = CallFields /\ r.pc = "return" /\ r.perm = call[c].perm /\ r.found = call[c].found
  BY <1>0 DEF CallFields
<1> HIDE DEF r
<1>3. reading' = [reading EXCEPT ![c] = IF r.pc \in {"scan", "store", "sum"} THEN 1 ELSE 0]
  <2>1. reading' = [reading EXCEPT ![c] = 0]
    BY <1>0, <1>1
  <2> QED
    BY <1>2, <2>1
<1>4. /\ Types' /\ call'[c] = r /\ \A o \in Callers : o # c => call'[o] = call[o]
      /\ \A o \in Callers : call[o].perm \in Int /\ call'[o].perm \in Int
  <2>1. r.pc \in {"idle", "scan", "store", "sum", "ask", "add", "return"}
          /\ r.found \in Seq(Dilation) /\ r.perm \in Int /\ offset' \in Int
    BY <1>0, <1>1, <1>2
  <2> QED
    BY <1>0, <1>1, <1>2, <1>3, <2>1, CallTypes
<1> SUFFICES ASSUME ~raced PROVE SumOK' /\ \A o \in Callers : StoreOK(o)'
  BY <1>1, <1>4 DEF Inv
<1>5. SumOK /\ \A o \in Callers : StoreOK(o)
  BY DEF Inv
<1>6. SumOK'
  <2>1. Hand(c)' = 0 /\ Hand(c) = call[c].perm /\ \A o \in Callers : o # c => Hand(o)' = Hand(o)
    BY <1>1, <1>2, <1>4 DEF Hand
  <2>2. delta(Hands') = delta(Hands) + Hand(c)' - Hand(c)
    BY <1>4, <2>1, HandsChange
  <2>3. delta(Hands) \in Int /\ delta(dilations) \in Int /\ call[c].perm \in Int
    BY <1>0, <1>4, HandsAre, DeltaLemma
  <2>4. delta(Hands') = delta(Hands) - call[c].perm
    BY <2>1, <2>2, <2>3
  <2>5. (offset + call[c].perm) + delta(dilations) + (delta(Hands) - call[c].perm) = total
    BY <1>0, <1>5, <2>3 DEF SumOK
  <2> QED
    BY <1>1, <2>4, <2>5 DEF SumOK
<1>7. ASSUME NEW o \in Callers PROVE StoreOK(o)'
  <2>1. call'[c].pc # "store" /\ \A p \in Callers : Shortens(p) => Shortens(p)'
    BY <1>1, <1>2, <1>4 DEF Shortens
  <2>2. o # c /\ Fresh(o) => Fresh(o)'
    BY <1>1, <1>4 DEF Fresh
  <2> QED
    BY <1>4, <1>5, <2>1, <2>2 DEF StoreOK
<1> QED
  BY <1>6, <1>7
----------------------------------------------------------------------------
(* However many goroutines ask for the time, whatever peers answer and     *)
(* whenever the clock is set between the two locks of ContinuousTime, an   *)
(* adjustment ends up in the time once, unless one call has taken ended    *)
(* dilations off the list while another was in dilations.effect.           *)
THEOREM AdjustmentsCountOnce == Spec => []AdjustedOnce
<1>1. Inv /\ [Next]_vars => Inv'
  <2> SUFFICES ASSUME Inv, [Next]_vars PROVE Inv'
    OBVIOUS
  <2>1. CASE Tick \/ Start \/ Stop \/ Conform \/ Skew \/ RunnerStep
    BY <2>1, RunnerKeeps
  <2>2. CASE \E c \in Callers : ContinuousTimeStep(c)
    BY <2>2, CallQuiet, ScanKeeps, StoreKeeps, AddKeeps DEF ContinuousTimeStep
  <2>3. CASE UNCHANGED vars
    BY <2>3 DEF vars, Inv, Types, TimerOK, LocksOK, CallOK, SumOK, StoreOK, Fresh, Shortens, Hands
  <2> QED
    BY <2>1, <2>2, <2>3 DEF Next
<1>2. Inv => AdjustedOnce
  BY DEF Inv, SumOK, AdjustedOnce
<1> QED
  BY <1>1, <1>2, InvInit, PTL DEF Spec
============================================================================
