--------------------------- MODULE DataInduction ---------------------------
(***************************************************************************)
(* Facts about numbers that the proofs of several modules need.  They are  *)
(* stated over sets, not over operators: a set can be instantiated by the  *)
(* provers where a predicate that is a parameter cannot.                   *)
(***************************************************************************)
EXTENDS Integers, Sequences, WellFoundedInduction, TLAPS

(* Every set of natural numbers that is not empty has a least member. *)
LEMMA LeastNatural ==
  ASSUME NEW T, T \subseteq Nat, T # {}
  PROVE  \E x \in T : \A y \in T : x <= y
<1>1. PICK x \in T : \A y \in T : <<y, x>> \notin OpToRel(<, Nat)
  BY NatLessThanWellFounded, WFMin
<1>2. \A y \in T : ~(y < x)
  BY <1>1 DEF OpToRel
<1> QED
  BY <1>2

(* Induction: a set with 0 that is closed under successor holds them all. *)
LEMMA NaturalSetInduction ==
  ASSUME NEW S, 0 \in S, \A n \in Nat : n \in S => n + 1 \in S
  PROVE  \A n \in Nat : n \in S
<1> SUFFICES ASSUME Nat \ S # {} PROVE FALSE
  OBVIOUS
<1>1. PICK m \in Nat \ S : \A y \in Nat \ S : m <= y
  BY LeastNatural
<1>2. m - 1 \in Nat
  BY SMT
<1>3. m - 1 \in S
  BY <1>1, <1>2
<1>4. (m - 1) + 1 = m
  OBVIOUS
<1> QED
  BY <1>2, <1>3, <1>4

(* A step function, a first value and a list of inputs have a run. *)
RunsOf(T, F, b, s) ==
  {g \in [0 .. Len(s) -> T] : g[0] = b /\ \A i \in 1 .. Len(s) : g[i] = F[<<g[i - 1], s[i]>>]}

LEMMA RunExists ==
  ASSUME NEW T, NEW O, NEW F \in [T \X O -> T], NEW b \in T, NEW s \in Seq(O)
  PROVE  RunsOf(T, F, b, s) # {}
<1> DEFINE n == Len(s)
           Runs(m) == {g \in [0 .. m -> T] :
                         g[0] = b /\ \A i \in 1 .. m : g[i] = F[<<g[i - 1], s[i]>>]}
           S == {m \in Nat : m <= n => Runs(m) # {}}
<1>0. n \in Nat /\ \A i \in 1 .. n : s[i] \in O
  OBVIOUS
<1> HIDE DEF n
<1>1. 0 \in S
  <2> DEFINE g == [i \in 0 .. 0 |-> b]
  <2>1. g \in Runs(0)
    OBVIOUS
  <2> QED
    BY <2>1
<1>2. ASSUME NEW m \in Nat, m \in S PROVE m + 1 \in S
  <2> SUFFICES ASSUME m + 1 <= n PROVE Runs(m + 1) # {}
    OBVIOUS
  <2>1. PICK g \in Runs(m) : TRUE
    BY <1>0, <1>2
  <2> DEFINE h == [i \in 0 .. m + 1 |-> IF i = m + 1 THEN F[<<g[m], s[m + 1]>>] ELSE g[i]]
  <2>2. h \in [0 .. m + 1 -> T] /\ h[0] = b
    BY <1>0, <2>1
  <2>3. ASSUME NEW i \in 1 .. m + 1 PROVE h[i] = F[<<h[i - 1], s[i]>>]
    <3>1. CASE i = m + 1
      <4>1. i - 1 \in 0 .. m + 1 /\ i - 1 # m + 1 /\ i - 1 = m
        BY <3>1
      <4>2. h[i] = F[<<g[m], s[m + 1]>>] /\ h[i - 1] = g[m]
        BY <3>1, <4>1
      <4> QED
        BY <3>1, <4>2
    <3>2. CASE i # m + 1
      <4>1. i \in 1 .. m /\ i - 1 \in 0 .. m
        BY <3>2
      <4>2. h[i] = g[i] /\ h[i - 1] = g[i - 1]
        BY <4>1
      <4> QED
        BY <2>1, <4>1, <4>2
    <3> QED
      BY <3>1, <3>2
  <2> QED
    BY <2>2, <2>3
<1> HIDE DEF S
<1>3. n \in S
  BY <1>0, <1>1, <1>2, NaturalSetInduction
<1> QED
  BY <1>0, <1>3 DEF S, n, RunsOf

(* A value and a function from values to values have an iteration. *)
IterationsOf(T, F, b, n) ==
  {g \in [1 .. n -> T] : \A i \in 1 .. n : g[i] = IF i = 1 THEN b ELSE F[g[i - 1]]}

LEMMA IterationExists ==
  ASSUME NEW T, NEW F \in [T -> T], NEW b \in T, NEW n \in Nat
  PROVE  IterationsOf(T, F, b, n) # {}
<1> DEFINE Its(m) == {g \in [1 .. m -> T] :
                        \A i \in 1 .. m : g[i] = IF i = 1 THEN b ELSE F[g[i - 1]]}
           S == {m \in Nat : Its(m) # {}}
<1>1. 0 \in S
  <2> DEFINE g == [i \in 1 .. 0 |-> b]
  <2>1. g \in Its(0)
    OBVIOUS
  <2> QED
    BY <2>1
<1>2. ASSUME NEW m \in Nat, m \in S PROVE m + 1 \in S
  <2>1. PICK g \in Its(m) : TRUE
    BY <1>2
  <2> DEFINE last == IF m = 0 THEN b ELSE F[g[m]]
             h == [i \in 1 .. m + 1 |-> IF i = m + 1 THEN last ELSE g[i]]
  <2>2. last \in T
    <3>1. CASE m = 0
      BY <3>1
    <3>2. CASE m # 0
      <4>1. m \in 1 .. m
        BY <3>2
      <4> QED
        BY <2>1, <3>2, <4>1
    <3> QED
      BY <3>1, <3>2
  <2> HIDE DEF last
  <2>3. h \in [1 .. m + 1 -> T]
    BY <2>1, <2>2
  <2>4. ASSUME NEW i \in 1 .. m + 1 PROVE h[i] = IF i = 1 THEN b ELSE F[h[i - 1]]
    <3>1. CASE i = m + 1 /\ m = 0
      BY <3>1 DEF last
    <3>2. CASE i = m + 1 /\ m # 0
      <4>1. i - 1 \in 1 .. m + 1 /\ i - 1 # m + 1 /\ i - 1 = m /\ i # 1
        BY <3>2
      <4>2. h[i] = F[g[m]] /\ h[i - 1] = g[m]
        BY <3>2, <4>1 DEF last
      <4> QED
        BY <4>1, <4>2
    <3>3. CASE i # m + 1
      <4>1. i \in 1 .. m /\ (i # 1 => i - 1 \in 1 .. m)
        BY <3>3
      <4>2. h[i] = g[i] /\ (i # 1 => h[i - 1] = g[i - 1])
        BY <3>3, <4>1
      <4> QED
        BY <2>1, <4>1, <4>2
    <3> QED
      BY <3>1, <3>2, <3>3
  <2>5. h \in Its(m + 1)
    BY <2>3, <2>4
  <2> HIDE DEF h, Its
  <2> QED
    BY <2>5
<1> HIDE DEF S
<1>3. n \in S
  BY <1>1, <1>2, NaturalSetInduction
<1> QED
  BY <1>3 DEF S, IterationsOf
============================================================================
