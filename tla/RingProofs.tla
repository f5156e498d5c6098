----------------------------- MODULE RingProofs -----------------------------
(***************************************************************************)
(* Proofs about Ring for every set of addresses and positions: the slice   *)
(* stays sorted, the binary searches find what they look for, and the      *)
(* slice operations do to the set of remotes what RingSet says.            *)
(***************************************************************************)
EXTENDS Ring, SequenceTheorems, DataInduction, TLAPS

----------------------------------------------------------------------------
(* Remotes are totally ordered *)

LEMMA LessIsAnOrder ==
  ASSUME NEW a \in Remote, NEW b \in Remote
  PROVE  /\ a.pos \in Nat /\ a.addr \in Nat
         /\ ~Less(a, a)
         /\ a # b => Less(a, b) \/ Less(b, a)
         /\ Less(a, b) => ~Less(b, a)
         /\ \A c \in Remote : Less(a, b) /\ Less(b, c) => Less(a, c)
         /\ \A c \in Remote : Less(a, b) /\ ~Less(c, b) => Less(a, c)
         /\ \A c \in Remote : ~Less(b, a) /\ Less(b, c) => Less(a, c)
<1>1. \A x \in Remote : x.pos \in Nat /\ x.addr \in Nat
  BY RemotesAssumption DEF Remote
<1>2. a # b => a.pos # b.pos \/ a.addr # b.addr
  BY DEF Remote
<1> QED
  BY <1>1, <1>2 DEF Less

----------------------------------------------------------------------------
(* Searching *)

LEMMA MinLemma ==
  ASSUME NEW S, S \subseteq Nat, S # {}
  PROVE  Min(S) \in S /\ \A y \in S : Min(S) <= y
<1>1. \E x \in S : \A y \in S : x <= y
  BY LeastNatural
<1> QED
  BY <1>1 DEF Min

(* sort.Search: the index it returns is the first of those it looks for. *)
LEMMA SearchLemma ==
  ASSUME NEW n \in Nat, NEW T, T \subseteq 0 .. n - 1
  PROVE  /\ Min(T \cup {n}) \in 0 .. n
         /\ Min(T \cup {n}) < n => Min(T \cup {n}) \in T
         /\ \A k \in 0 .. n - 1 : k < Min(T \cup {n}) => k \notin T
<1> DEFINE m == Min(T \cup {n})
<1>1. T \cup {n} \subseteq Nat /\ T \cup {n} # {}
  OBVIOUS
<1>2. m \in T \cup {n} /\ \A y \in T \cup {n} : m <= y
  BY <1>1, MinLemma
<1> HIDE DEF m
<1>3. m \in 0 .. n /\ (m < n => m \in T) /\ \A k \in 0 .. n - 1 : k < m => k \notin T
  BY <1>2
<1> QED
  BY <1>3 DEF m

(* What is known of the members of a valid slice, by their indices. *)
LEMMA ValidLemma ==
  ASSUME NEW ns, Valid(ns)
  PROVE  /\ Len(ns) \in Nat
         /\ \A k \in 0 .. Len(ns) - 1 : At(ns, k) \in Remote /\ At(ns, k) \in Members(ns)
         /\ \A x \in Members(ns) : \E k \in 0 .. Len(ns) - 1 : x = At(ns, k)
         /\ \A j, k \in 0 .. Len(ns) - 1 : j < k => Less(At(ns, j), At(ns, k))
         /\ \A j, k \in 0 .. Len(ns) - 1 : Less(At(ns, j), At(ns, k)) => j < k
         /\ \A j, k \in 0 .. Len(ns) - 1 : At(ns, j).addr = At(ns, k).addr => j = k
         /\ IsRing(Members(ns))
         /\ Members(ns) = {} <=> Len(ns) = 0
         /\ ns = <<>> <=> Len(ns) = 0
<1>1. /\ ns \in Seq(Remote)
      /\ Len(ns) \in Nat
      /\ \A i \in 1 .. Len(ns) : ns[i] \in Remote
  BY LenProperties DEF Valid
<1>2. \A k \in 0 .. Len(ns) - 1 : At(ns, k) \in Remote /\ At(ns, k) \in Members(ns)
  BY <1>1 DEF At, Members
<1>3. \A x \in Members(ns) : \E k \in 0 .. Len(ns) - 1 : x = At(ns, k)
  <2> SUFFICES ASSUME NEW x \in Members(ns)
               PROVE  \E k \in 0 .. Len(ns) - 1 : x = At(ns, k)
    OBVIOUS
  <2>1. PICK i \in 1 .. Len(ns) : x = ns[i]
    BY DEF Members
  <2>2. i - 1 \in 0 .. Len(ns) - 1 /\ x = At(ns, i - 1)
    BY <1>1, <2>1 DEF At
  <2> QED
    BY <2>2
<1>4. \A j, k \in 0 .. Len(ns) - 1 : j < k => Less(At(ns, j), At(ns, k))
  BY <1>1 DEF Valid, At
<1>5. \A j, k \in 0 .. Len(ns) - 1 : Less(At(ns, j), At(ns, k)) => j < k
  <2> SUFFICES ASSUME NEW j \in 0 .. Len(ns) - 1, NEW k \in 0 .. Len(ns) - 1,
                      Less(At(ns, j), At(ns, k))
               PROVE  j < k
    OBVIOUS
  <2>1. CASE j = k
    BY <1>2, <2>1, LessIsAnOrder
  <2>2. CASE k < j
    BY <1>2, <1>4, <2>2, LessIsAnOrder
  <2> QED
    BY <1>1, <2>1, <2>2
<1>6. \A j, k \in 0 .. Len(ns) - 1 : At(ns, j).addr = At(ns, k).addr => j = k
  <2> SUFFICES ASSUME NEW j \in 0 .. Len(ns) - 1, NEW k \in 0 .. Len(ns) - 1,
                      At(ns, j).addr = At(ns, k).addr
               PROVE  j = k
    OBVIOUS
  <2>1. At(ns, j) = At(ns, k)
    BY <1>2 DEF Valid, UniqueAddr
  <2>2. ~Less(At(ns, j), At(ns, k)) /\ ~Less(At(ns, k), At(ns, j))
    BY <1>2, <2>1, LessIsAnOrder
  <2> QED
    BY <1>1, <1>4, <2>2
<1>7. IsRing(Members(ns))
  BY <1>1 DEF Valid, IsRing, Members
<1>8. Members(ns) = {} <=> Len(ns) = 0
  <2>1. ASSUME Len(ns) # 0 PROVE At(ns, 0) \in Members(ns)
    BY <1>1, <1>2, <2>1
  <2> QED
    BY <1>3, <2>1
<1>9. ns = <<>> <=> Len(ns) = 0
  BY <1>1, EmptySeq
<1> QED
  BY <1>1, <1>2, <1>3, <1>4, <1>5, <1>6, <1>7, <1>8, <1>9

(* The first index whose remote is not below r splits the slice at r. *)
NotBelow(ns, r) == Search(Len(ns), LAMBDA k : ~Less(At(ns, k), r))

LEMMA NotBelowLemma ==
  ASSUME NEW ns, Valid(ns), NEW r \in Remote
  PROVE  /\ NotBelow(ns, r) \in 0 .. Len(ns)
         /\ \A k \in 0 .. Len(ns) - 1 : k < NotBelow(ns, r) <=> Less(At(ns, k), r)
<1> DEFINE n == Len(ns)
           T == {k \in 0 .. n - 1 : ~Less(At(ns, k), r)}
           i == Min(T \cup {n})
<1>1. n \in Nat
  BY ValidLemma
<1>2. NotBelow(ns, r) = i
  BY DEF NotBelow, Search
<1>3. i \in 0 .. n /\ (i < n => i \in T) /\ \A k \in 0 .. n - 1 : k < i => k \notin T
  <2>1. T \subseteq 0 .. n - 1
    OBVIOUS
  <2> HIDE DEF T, n
  <2> QED
    BY <1>1, <2>1, SearchLemma
<1> HIDE DEF i
<1>4. ASSUME NEW k \in 0 .. n - 1, i <= k, Less(At(ns, k), r) PROVE FALSE
  <2>1. i \in 0 .. n - 1 /\ ~Less(At(ns, i), r)
    BY <1>1, <1>3, <1>4
  <2>2. At(ns, i) = At(ns, k) \/ Less(At(ns, i), At(ns, k))
    <3>1. i = k \/ i < k
      BY <1>1, <1>3, <1>4
    <3> QED
      BY <3>1, <2>1, ValidLemma
  <2>3. At(ns, i) \in Remote /\ At(ns, k) \in Remote
    BY <2>1, ValidLemma
  <2> QED
    BY <1>4, <2>1, <2>2, <2>3, LessIsAnOrder
<1>5. \A k \in 0 .. n - 1 : k < i <=> Less(At(ns, k), r)
  BY <1>1, <1>3, <1>4
<1> QED
  BY <1>2, <1>3, <1>5

(* The first index whose remote is above r. *)
Above(ns, r) == Search(Len(ns), LAMBDA k : Less(r, At(ns, k)))

LEMMA AboveLemma ==
  ASSUME NEW ns, Valid(ns), NEW r \in Remote
  PROVE  /\ Above(ns, r) \in 0 .. Len(ns)
         /\ \A k \in 0 .. Len(ns) - 1 : k < Above(ns, r) <=> ~Less(r, At(ns, k))
<1> DEFINE n == Len(ns)
           T == {k \in 0 .. n - 1 : Less(r, At(ns, k))}
           i == Min(T \cup {n})
<1>1. n \in Nat
  BY ValidLemma
<1>2. Above(ns, r) = i
  BY DEF Above, Search
<1>3. i \in 0 .. n /\ (i < n => i \in T) /\ \A k \in 0 .. n - 1 : k < i => k \notin T
  <2>1. T \subseteq 0 .. n - 1
    OBVIOUS
  <2> HIDE DEF T, n
  <2> QED
    BY <1>1, <2>1, SearchLemma
<1> HIDE DEF i
<1>4. ASSUME NEW k \in 0 .. n - 1, i <= k, ~Less(r, At(ns, k)) PROVE FALSE
  <2>1. i \in 0 .. n - 1 /\ Less(r, At(ns, i))
    BY <1>1, <1>3, <1>4
  <2>2. At(ns, i) = At(ns, k) \/ Less(At(ns, i), At(ns, k))
    <3>1. i = k \/ i < k
      BY <1>1, <1>3, <1>4
    <3> QED
      BY <3>1, <2>1, ValidLemma
  <2>3. At(ns, i) \in Remote /\ At(ns, k) \in Remote
    BY <2>1, ValidLemma
  <2> QED
    BY <1>4, <2>1, <2>2, <2>3, LessIsAnOrder
<1>5. \A k \in 0 .. n - 1 : k < i <=> ~Less(r, At(ns, k))
  BY <1>1, <1>3, <1>4
<1> QED
  BY <1>2, <1>3, <1>5
----------------------------------------------------------------------------
(* Cutting slices *)

(* A slice that takes its remotes in order from a valid one is valid. *)
LEMMA SubsliceLemma ==
  ASSUME NEW ns, Valid(ns), NEW c \in Seq(Remote), NEW f \in [1 .. Len(c) -> 1 .. Len(ns)],
         \A i \in 1 .. Len(c) : c[i] = ns[f[i]],
         \A i, j \in 1 .. Len(c) : i < j => f[i] < f[j]
  PROVE  Valid(c) /\ Members(c) \subseteq Members(ns)
<1>1. Members(c) \subseteq Members(ns)
  BY DEF Members
<1>2. \A i, j \in 1 .. Len(c) : i < j => Less(c[i], c[j])
  BY DEF Valid
<1>3. UniqueAddr(Members(c))
  BY <1>1 DEF Valid, UniqueAddr
<1> QED
  BY <1>1, <1>2, <1>3 DEF Valid

(* ns[from:to] *)
LEMMA SliceLemma ==
  ASSUME NEW ns, Valid(ns), NEW from \in 0 .. Len(ns), NEW to \in 0 .. Len(ns), from <= to
  PROVE  /\ Slice(ns, from, to) \in Seq(Remote)
         /\ Len(Slice(ns, from, to)) = to - from
         /\ \A i \in 1 .. to - from : Slice(ns, from, to)[i] = ns[from + i]
         /\ Valid(Slice(ns, from, to))
         /\ Members(Slice(ns, from, to)) \subseteq Members(ns)
         /\ \A k \in 0 .. Len(ns) - 1 :
              At(ns, k) \in Members(Slice(ns, from, to)) <=> from <= k /\ k < to
<1> DEFINE c == Slice(ns, from, to)
           f == [i \in 1 .. to - from |-> from + i]
<1>1. Len(ns) \in Nat /\ from \in Nat /\ to \in Nat
  BY ValidLemma
<1>2. \A i \in from + 1 .. to : ns[i] \in Remote
  BY <1>1, LenProperties DEF Valid
<1>3. /\ c \in Seq(Remote)
      /\ Len(c) = to - from
      /\ \A i \in 1 .. to - from : c[i] = ns[from + i]
  <2>1. from + 1 \in Int /\ to \in Int
    BY <1>1
  <2>2. /\ c \in Seq(Remote)
        /\ Len(c) = IF from + 1 <= to THEN to - (from + 1) + 1 ELSE 0
        /\ \A i \in 1 .. to - (from + 1) + 1 : c[i] = ns[from + 1 + i - 1]
    BY <1>2, <2>1, SubSeqProperties DEF Slice
  <2>3. to - (from + 1) + 1 = to - from /\ \A i \in Nat : from + 1 + i - 1 = from + i
    BY <1>1
  <2> HIDE DEF c
  <2> QED
    BY <1>1, <2>2, <2>3
<1> HIDE DEF c
<1>4. Valid(c) /\ Members(c) \subseteq Members(ns)
  <2>1. f \in [1 .. Len(c) -> 1 .. Len(ns)]
    BY <1>1, <1>3
  <2>2. \A i \in 1 .. Len(c) : c[i] = ns[f[i]]
    BY <1>3
  <2>3. \A i, j \in 1 .. Len(c) : i < j => f[i] < f[j]
    BY <1>1, <1>3
  <2> HIDE DEF f
  <2> QED
    BY <1>3, <2>1, <2>2, <2>3, SubsliceLemma
<1>5. ASSUME NEW k \in 0 .. Len(ns) - 1, from <= k, k < to PROVE At(ns, k) \in Members(c)
  <2>1. k + 1 - from \in 1 .. to - from /\ from + (k + 1 - from) = k + 1
    BY <1>1, <1>5
  <2> QED
    BY <1>3, <2>1 DEF At, Members
<1>6. ASSUME NEW k \in 0 .. Len(ns) - 1, At(ns, k) \in Members(c) PROVE from <= k /\ k < to
  <2>1. PICK i \in 1 .. to - from : At(ns, k) = ns[from + i]
    BY <1>3, <1>6 DEF Members
  <2>2. from + i - 1 \in 0 .. Len(ns) - 1 /\ At(ns, k) = At(ns, from + i - 1)
    BY <1>1, <2>1 DEF At
  <2>3. k = from + i - 1
    BY <2>2, ValidLemma
  <2> QED
    BY <1>1, <2>1, <2>3
<1> QED
  BY <1>3, <1>4, <1>5, <1>6 DEF c

(* append(ns[:from], ns[to:]...) *)
LEMMA CutLemma ==
  ASSUME NEW ns, Valid(ns), NEW from \in 0 .. Len(ns), NEW to \in 0 .. Len(ns), from <= to
  PROVE  LET c == Slice(ns, 0, from) \o Slice(ns, to, Len(ns))
         IN /\ Valid(c)
            /\ Members(c) \subseteq Members(ns)
            /\ \A k \in 0 .. Len(ns) - 1 : At(ns, k) \in Members(c) <=> k < from \/ to <= k
<1> DEFINE a == Slice(ns, 0, from)
           b == Slice(ns, to, Len(ns))
           c == a \o b
           n == Len(ns)
           f == [i \in 1 .. from + (n - to) |-> IF i <= from THEN i ELSE i + (to - from)]
<1>1. n \in Nat /\ 0 \in 0 .. n /\ n \in 0 .. n /\ 0 <= from /\ to <= n /\ from \in Nat /\ to \in Nat
  BY ValidLemma
<1>2. /\ a \in Seq(Remote) /\ Len(a) = from /\ \A i \in 1 .. from : a[i] = ns[i]
      /\ \A k \in 0 .. n - 1 : At(ns, k) \in Members(a) <=> k < from
  <2>1. /\ a \in Seq(Remote) /\ Len(a) = from - 0 /\ \A i \in 1 .. from - 0 : a[i] = ns[0 + i]
        /\ \A k \in 0 .. n - 1 : At(ns, k) \in Members(a) <=> 0 <= k /\ k < from
    BY <1>1, SliceLemma
  <2> HIDE DEF a
  <2> QED
    BY <1>1, <2>1
<1>3. /\ b \in Seq(Remote) /\ Len(b) = n - to /\ \A i \in 1 .. n - to : b[i] = ns[to + i]
      /\ \A k \in 0 .. n - 1 : At(ns, k) \in Members(b) <=> to <= k
  <2>1. /\ b \in Seq(Remote) /\ Len(b) = n - to /\ \A i \in 1 .. n - to : b[i] = ns[to + i]
        /\ \A k \in 0 .. n - 1 : At(ns, k) \in Members(b) <=> to <= k /\ k < n
    BY <1>1, SliceLemma
  <2> HIDE DEF b
  <2> QED
    BY <1>1, <2>1
<1> HIDE DEF a, b
<1>4. /\ c \in Seq(Remote) /\ Len(c) = from + (n - to)
      /\ \A i \in 1 .. from + (n - to) : c[i] = IF i <= from THEN a[i] ELSE b[i - from]
  <2>1. /\ c \in Seq(Remote) /\ Len(c) = Len(a) + Len(b)
        /\ \A i \in 1 .. Len(a) + Len(b) : c[i] = IF i <= Len(a) THEN a[i] ELSE b[i - Len(a)]
    BY <1>2, <1>3, ConcatProperties
  <2> HIDE DEF c
  <2> QED
    BY <1>2, <1>3, <2>1
<1> HIDE DEF c
<1>5. \A i \in 1 .. Len(c) : c[i] = ns[f[i]] /\ f[i] \in 1 .. n
  <2> SUFFICES ASSUME NEW i \in 1 .. Len(c) PROVE c[i] = ns[f[i]] /\ f[i] \in 1 .. n
    OBVIOUS
  <2>1. CASE i <= from
    BY <1>1, <1>2, <1>4, <2>1
  <2>2. CASE i > from
    <3>1. i - from \in 1 .. n - to /\ to + (i - from) = i + (to - from)
      BY <1>1, <1>4, <2>2
    <3>2. c[i] = b[i - from] /\ f[i] = i + (to - from)
      BY <1>1, <1>4, <2>2
    <3>3. b[i - from] = ns[to + (i - from)]
      BY <1>3, <3>1
    <3>4. i + (to - from) \in 1 .. n
      BY <1>1, <1>4, <2>2
    <3> HIDE DEF f
    <3> QED
      BY <3>1, <3>2, <3>3, <3>4
  <2> QED
    BY <1>1, <1>4, <2>1, <2>2
<1>6. Valid(c) /\ Members(c) \subseteq Members(ns)
  <2>1. f \in [1 .. Len(c) -> 1 .. Len(ns)]
    BY <1>4, <1>5
  <2>2. \A i, j \in 1 .. Len(c) : i < j => f[i] < f[j]
    BY <1>1, <1>4
  <2> HIDE DEF f
  <2> QED
    BY <1>4, <1>5, <2>1, <2>2, SubsliceLemma
<1>7. Members(c) = Members(a) \cup Members(b)
  <2>1. \A i \in 1 .. from : i \in 1 .. Len(c) /\ c[i] = a[i]
    BY <1>1, <1>4
  <2>2. \A i \in 1 .. n - to : from + i \in 1 .. Len(c) /\ c[from + i] = b[i]
    BY <1>1, <1>4
  <2>3. \A i \in 1 .. Len(c) : c[i] \in Members(a) \cup Members(b)
    <3> SUFFICES ASSUME NEW i \in 1 .. Len(c) PROVE c[i] \in Members(a) \cup Members(b)
      OBVIOUS
    <3>1. CASE i <= from
      BY <1>1, <1>2, <1>4, <3>1 DEF Members
    <3>2. CASE i > from
      <4>1. i - from \in 1 .. Len(b) /\ c[i] = b[i - from]
        BY <1>1, <1>3, <1>4, <3>2
      <4> QED
        BY <4>1 DEF Members
    <3> QED
      BY <1>1, <1>4, <3>1, <3>2
  <2>4. Members(c) \subseteq Members(a) \cup Members(b)
    <3> SUFFICES ASSUME NEW x \in Members(c) PROVE x \in Members(a) \cup Members(b)
      OBVIOUS
    <3>1. PICK i \in 1 .. Len(c) : x = c[i]
      BY DEF Members
    <3> QED
      BY <2>3, <3>1
  <2>5. Members(a) \subseteq Members(c) /\ Members(b) \subseteq Members(c)
    <3>1. \A x \in Members(a) : \E i \in 1 .. from : x = a[i]
      BY <1>2 DEF Members
    <3>2. \A x \in Members(b) : \E i \in 1 .. n - to : x = b[i]
      BY <1>3 DEF Members
    <3>3. \A i \in 1 .. Len(c) : c[i] \in Members(c)
      BY DEF Members
    <3> QED
      BY <2>1, <2>2, <3>1, <3>2, <3>3, SMTT(30)
  <2> QED
    BY <2>4, <2>5
<1> QED
  BY <1>2, <1>3, <1>6, <1>7 DEF a, b, c

(* Remove, and the first half of Add: only the remote of the address goes. *)
LEMMA WithoutLemma ==
  ASSUME NEW ns, Valid(ns), NEW r \in Remote
  PROVE  /\ Valid(without(ns, r))
         /\ Members(without(ns, r)) = RingRemove(Members(ns), r)
<1> DEFINE n == Len(ns)
           T == {k \in 0 .. n - 1 : At(ns, k).addr = r.addr}
           i == Min(T \cup {n})
           c == without(ns, r)
<1>1. n \in Nat
  BY ValidLemma
<1>2. c = Slice(ns, 0, i) \o Slice(ns, i + 1, n)
  BY DEF without, Search
<1>3. i \in 0 .. n /\ (i < n => i \in T) /\ \A k \in 0 .. n - 1 : k < i => k \notin T
  <2>1. T \subseteq 0 .. n - 1
    OBVIOUS
  <2> HIDE DEF T, n
  <2> QED
    BY <1>1, <2>1, SearchLemma
<1> HIDE DEF i, c
<1>4. CASE i < n
  <2>1. i \in 0 .. n /\ i + 1 \in 0 .. n /\ i <= i + 1 /\ i \in 0 .. n - 1
    BY <1>1, <1>3, <1>4
  <2>2. /\ Valid(c) /\ Members(c) \subseteq Members(ns)
        /\ \A k \in 0 .. n - 1 : At(ns, k) \in Members(c) <=> k < i \/ i + 1 <= k
    BY <1>2, <2>1, CutLemma
  <2>3. \A k \in 0 .. n - 1 : At(ns, k).addr = r.addr <=> k = i
    BY <1>3, <1>4, <2>1, ValidLemma
  <2>4. \A k \in 0 .. n - 1 : At(ns, k) \in Members(c) <=> At(ns, k).addr # r.addr
    BY <1>1, <2>1, <2>2, <2>3
  <2>5. \A x \in Members(ns) : x \in Members(c) <=> x.addr # r.addr
    BY <2>4, ValidLemma
  <2> QED
    BY <2>2, <2>5 DEF RingRemove, c
<1>5. CASE i = n
  <2>1. n \in 0 .. n /\ n <= n /\ 0 \in 0 .. n /\ 0 <= n
    BY <1>1
  <2>2. Slice(ns, n + 1, n) = <<>> /\ Slice(ns, n, n) = <<>>
    BY <1>1, SubSeqEmpty DEF Slice
  <2>3. /\ Valid(c) /\ Members(c) \subseteq Members(ns)
        /\ \A k \in 0 .. n - 1 : At(ns, k) \in Members(c) <=> k < n \/ n <= k
    BY <1>2, <1>5, <2>1, <2>2, CutLemma
  <2>4. \A k \in 0 .. n - 1 : At(ns, k) \in Members(c) /\ At(ns, k).addr # r.addr
    BY <1>1, <1>3, <1>5, <2>3
  <2>5. \A x \in Members(ns) : x \in Members(c) /\ x.addr # r.addr
    BY <2>4, ValidLemma
  <2> QED
    BY <2>3, <2>5 DEF RingRemove, c
<1> QED
  BY <1>1, <1>3, <1>4, <1>5

(* The second half of Add: the new remote goes where it belongs. *)
LEMMA InsertLemma ==
  ASSUME NEW ns, Valid(ns), NEW r \in Remote, \A x \in Members(ns) : x.addr # r.addr
  PROVE  /\ Valid(insertSorted(ns, r))
         /\ Members(insertSorted(ns, r)) = Members(ns) \cup {r}
<1> DEFINE n == Len(ns)
           i == Above(ns, r)
           a == Slice(ns, 0, i)
           b == Slice(ns, i, n)
           ar == a \o <<r>>
           c == insertSorted(ns, r)
<1>1. n \in Nat /\ \A k \in 1 .. n : ns[k] \in Remote
  BY ValidLemma, LenProperties DEF Valid
<1>2. c = ar \o b
  BY DEF insertSorted, Above
<1>3. /\ i \in 0 .. n /\ i \in Nat /\ i <= n
      /\ \A k \in 0 .. n - 1 : k < i <=> ~Less(r, At(ns, k))
  BY <1>1, AboveLemma
<1> HIDE DEF i
<1>4. /\ a \in Seq(Remote) /\ Len(a) = i /\ \A k \in 1 .. i : a[k] = ns[k]
  <2>1. 0 \in 0 .. n /\ 0 <= i
    BY <1>1, <1>3
  <2>2. a \in Seq(Remote) /\ Len(a) = i - 0 /\ \A k \in 1 .. i - 0 : a[k] = ns[0 + k]
    BY <1>3, <2>1, SliceLemma
  <2> HIDE DEF a
  <2> QED
    BY <1>3, <2>2
<1>5. b \in Seq(Remote) /\ Len(b) = n - i /\ \A k \in 1 .. n - i : b[k] = ns[i + k]
  <2>1. Len(ns) \in 0 .. Len(ns) /\ i \in 0 .. Len(ns) /\ i <= Len(ns)
    BY <1>1, <1>3
  <2>2. \A to \in 0 .. Len(ns) : i <= to =>
          /\ Slice(ns, i, to) \in Seq(Remote)
          /\ Len(Slice(ns, i, to)) = to - i
          /\ \A k \in 1 .. to - i : Slice(ns, i, to)[k] = ns[i + k]
    BY <2>1, SliceLemma
  <2> QED
    BY <2>1, <2>2
<1> HIDE DEF a, b
<1>6. /\ ar \in Seq(Remote) /\ Len(ar) = i + 1
      /\ \A k \in 1 .. i + 1 : ar[k] = IF k <= i THEN a[k] ELSE r
  <2>1. <<r>> \in Seq(Remote) /\ Len(<<r>>) = 1 /\ <<r>>[1] = r
    OBVIOUS
  <2>2. /\ ar \in Seq(Remote) /\ Len(ar) = Len(a) + Len(<<r>>)
        /\ \A k \in 1 .. Len(a) + Len(<<r>>) : ar[k] = IF k <= Len(a) THEN a[k] ELSE <<r>>[k - Len(a)]
    BY <1>4, <2>1, ConcatProperties
  <2>3. \A k \in 1 .. i + 1 : k <= i \/ k - i = 1
    BY <1>3
  <2> HIDE DEF ar
  <2> QED
    BY <1>3, <1>4, <2>1, <2>2, <2>3
<1> HIDE DEF ar
<1>7. /\ c \in Seq(Remote) /\ Len(c) = n + 1
      /\ \A k \in 1 .. i : c[k] = ns[k]
      /\ c[i + 1] = r
      /\ \A k \in i + 2 .. n + 1 : c[k] = ns[k - 1]
  <2>1. /\ c \in Seq(Remote) /\ Len(c) = Len(ar) + Len(b)
        /\ \A k \in 1 .. Len(ar) + Len(b) : c[k] = IF k <= Len(ar) THEN ar[k] ELSE b[k - Len(ar)]
    <3> HIDE DEF c
    <3> QED
      BY <1>2, <1>5, <1>6, ConcatProperties
  <2> HIDE DEF c
  <2>2. Len(ar) + Len(b) = n + 1
    BY <1>1, <1>3, <1>5, <1>6
  <2>3. \A k \in 1 .. i : c[k] = ns[k]
    BY <1>1, <1>3, <1>4, <1>6, <2>1, <2>2
  <2>4. c[i + 1] = r
    <3>1. i + 1 \in 1 .. n + 1 /\ i + 1 \in 1 .. i + 1 /\ ~(i + 1 <= i)
      BY <1>1, <1>3
    <3> QED
      BY <1>6, <2>1, <2>2, <3>1
  <2>5. ASSUME NEW k \in i + 2 .. n + 1 PROVE c[k] = ns[k - 1]
    <3>1. k \in 1 .. n + 1 /\ ~(k <= i + 1) /\ k - (i + 1) \in 1 .. n - i /\ i + (k - (i + 1)) = k - 1
      BY <1>1, <1>3
    <3> QED
      BY <1>5, <1>6, <2>1, <2>2, <3>1
  <2> QED
    BY <2>1, <2>2, <2>3, <2>4, <2>5
<1> HIDE DEF c
<1>8. Members(c) = Members(ns) \cup {r}
  <2>1. \A k \in 1 .. n + 1 : c[k] \in Members(ns) \cup {r}
    <3> SUFFICES ASSUME NEW k \in 1 .. n + 1 PROVE c[k] \in Members(ns) \cup {r}
      OBVIOUS
    <3>1. CASE k <= i
      BY <1>1, <1>3, <1>7, <3>1 DEF Members
    <3>2. CASE k = i + 1
      BY <1>7, <3>2
    <3>3. CASE k > i + 1
      <4>1. k - 1 \in 1 .. n /\ c[k] = ns[k - 1]
        BY <1>1, <1>3, <1>7, <3>3
      <4> QED
        BY <4>1 DEF Members
    <3> QED
      BY <1>1, <1>3, <3>1, <3>2, <3>3
  <2>2. ASSUME NEW k \in 1 .. n PROVE ns[k] \in Members(c)
    <3>1. CASE k <= i
      <4>1. k \in 1 .. Len(c) /\ c[k] = ns[k]
        BY <1>1, <1>3, <1>7, <3>1
      <4> QED
        BY <4>1 DEF Members
    <3>2. CASE k > i
      <4>1. k + 1 \in 1 .. Len(c) /\ c[k + 1] = ns[k + 1 - 1] /\ k + 1 - 1 = k
        BY <1>1, <1>3, <1>7, <3>2
      <4> QED
        BY <4>1 DEF Members
    <3> QED
      BY <1>1, <1>3, <3>1, <3>2
  <2>3. r \in Members(c)
    <3>1. i + 1 \in 1 .. Len(c)
      BY <1>1, <1>3, <1>7
    <3> QED
      BY <1>7, <3>1 DEF Members
  <2>4. \A x \in Members(c) : \E k \in 1 .. n + 1 : x = c[k]
    BY <1>7 DEF Members
  <2>5. \A x \in Members(ns) : \E k \in 1 .. n : x = ns[k]
    BY DEF Members
  <2> QED
    BY <2>1, <2>2, <2>3, <2>4, <2>5
<1>9. UniqueAddr(Members(c))
  BY <1>8 DEF Valid, UniqueAddr
<1>10. \A j, k \in 1 .. Len(c) : j < k => Less(c[j], c[k])
  <2>1. ASSUME NEW k \in 1 .. n, k <= i PROVE Less(ns[k], r)
    <3>1. k - 1 \in 0 .. n - 1 /\ At(ns, k - 1) = ns[k] /\ k - 1 < i
      BY <1>1, <1>3, <2>1 DEF At
    <3>2. ~Less(r, ns[k])
      BY <1>3, <3>1
    <3>3. ns[k] # r
      BY <2>1 DEF Members
    <3> QED
      BY <1>1, <3>2, <3>3, LessIsAnOrder
  <2>2. ASSUME NEW k \in 1 .. n, k > i PROVE Less(r, ns[k])
    <3>1. k - 1 \in 0 .. n - 1 /\ At(ns, k - 1) = ns[k] /\ ~(k - 1 < i)
      BY <1>1, <1>3, <2>2 DEF At
    <3> QED
      BY <1>3, <3>1
  <2>3. \A j, k \in 1 .. n : j < k => Less(ns[j], ns[k])
    BY DEF Valid
  <2> SUFFICES ASSUME NEW j \in 1 .. n + 1, NEW k \in 1 .. n + 1, j < k PROVE Less(c[j], c[k])
    BY <1>7
  <2>4. CASE k <= i
    BY <1>1, <1>3, <1>7, <2>3, <2>4
  <2>5. CASE k = i + 1
    <3>1. j \in 1 .. n /\ j <= i /\ c[j] = ns[j]
      BY <1>1, <1>3, <1>7, <2>5
    <3> QED
      BY <1>7, <2>1, <2>5, <3>1
  <2>6. CASE k > i + 1
    <3>1. k - 1 \in 1 .. n /\ k - 1 > i /\ c[k] = ns[k - 1]
      BY <1>1, <1>3, <1>7, <2>6
    <3>2. CASE j <= i
      <4>1. c[j] = ns[j] /\ j \in 1 .. n /\ j < k - 1
        BY <1>1, <1>3, <1>7, <2>6, <3>2
      <4> QED
        BY <2>3, <3>1, <4>1
    <3>3. CASE j = i + 1
      BY <1>7, <2>2, <3>1, <3>3
    <3>4. CASE j > i + 1
      <4>1. c[j] = ns[j - 1] /\ j - 1 \in 1 .. n /\ j - 1 < k - 1
        BY <1>1, <1>3, <1>7, <3>4
      <4> QED
        BY <2>3, <3>1, <4>1
    <3> QED
      BY <1>1, <1>3, <3>2, <3>3, <3>4
  <2> QED
    BY <1>1, <1>3, <2>4, <2>5, <2>6
<1> QED
  BY <1>7, <1>8, <1>9, <1>10 DEF Valid, c
----------------------------------------------------------------------------
(* Looking for a remote *)

(* indices finds the remotes before, at and after r, wrapping at the ends. *)
LEMMA IndicesLemma ==
  ASSUME NEW ns, Valid(ns), Len(ns) # 0, NEW r \in Remote
  PROVE  /\ indices(ns, r).before = IF NotBelow(ns, r) = 0 THEN Len(ns) - 1 ELSE NotBelow(ns, r) - 1
         /\ indices(ns, r).at =
              IF NotBelow(ns, r) < Len(ns) /\ r = At(ns, NotBelow(ns, r)) THEN NotBelow(ns, r) ELSE -1
         /\ indices(ns, r).after = IF Above(ns, r) < Len(ns) THEN Above(ns, r) ELSE 0
<1> DEFINE n == Len(ns)
           i == NotBelow(ns, r)
           u == Above(ns, r)
           T == {k \in 0 .. n - i - 1 : Less(r, At(ns, k + i))}
           m == Min(T \cup {n - i})
           found == [before |-> IF i = 0 THEN n - 1 ELSE i - 1,
                     at     |-> IF r = At(ns, i) THEN i ELSE -1,
                     after  |-> IF ~(r = At(ns, i)) THEN i ELSE IF m + i < n THEN m + i ELSE 0]
<1>1. n \in Nat /\ n # 0
  BY ValidLemma
<1>2. /\ i \in 0 .. n /\ \A k \in 0 .. n - 1 : k < i <=> Less(At(ns, k), r)
      /\ u \in 0 .. n /\ \A k \in 0 .. n - 1 : k < u <=> ~Less(r, At(ns, k))
  BY NotBelowLemma, AboveLemma
<1>3. indices(ns, r) = IF i = n THEN [before |-> n - 1, at |-> -1, after |-> 0] ELSE found
  BY <1>1 DEF indices, searchIndices, NotBelow, Search
<1>4. m \in 0 .. n - i /\ (m < n - i => m \in T) /\ \A k \in 0 .. n - i - 1 : k < m => k \notin T
  <2>1. n - i \in Nat /\ T \subseteq 0 .. n - i - 1
    BY <1>1, <1>2
  <2>2. \A q \in Nat : T \subseteq 0 .. q - 1 =>
          LET l == Min(T \cup {q})
          IN l \in 0 .. q /\ (l < q => l \in T) /\ \A k \in 0 .. q - 1 : k < l => k \notin T
    <3> HIDE DEF T
    <3> QED
      BY SearchLemma
  <2> HIDE DEF T
  <2> QED
    BY <2>1, <2>2
<1>5. \A k \in 0 .. n - 1 : At(ns, k) \in Remote
  BY ValidLemma
<1> HIDE DEF n, i, u, m
<1>6. CASE i = n
  <2>1. ASSUME u < n PROVE FALSE
    <3>1. u \in 0 .. n - 1 /\ u < i
      BY <1>1, <1>2, <1>6, <2>1
    <3>2. Less(At(ns, u), r) /\ Less(r, At(ns, u))
      BY <1>2, <3>1
    <3> QED
      BY <1>5, <3>1, <3>2, LessIsAnOrder
  <2> QED
    BY <1>1, <1>2, <1>3, <1>6, <2>1 DEF n, i, u
<1>7. CASE i < n /\ r # At(ns, i)
  <2>1. i \in 0 .. n - 1 /\ ~Less(At(ns, i), r)
    BY <1>1, <1>2, <1>7
  <2>2. Less(r, At(ns, i))
    BY <1>5, <1>7, <2>1, LessIsAnOrder
  <2>3. ~(i < u)
    BY <1>2, <2>1, <2>2
  <2>4. ASSUME u < i PROVE FALSE
    <3>1. u \in 0 .. n - 1
      BY <1>1, <1>2, <2>4
    <3>2. Less(At(ns, u), r) /\ Less(r, At(ns, u))
      BY <1>2, <2>4, <3>1
    <3> QED
      BY <1>5, <3>1, <3>2, LessIsAnOrder
  <2>5. u = i
    BY <1>1, <1>2, <2>3, <2>4
  <2>6. indices(ns, r) = found /\ found.after = i /\ found.at = -1
    BY <1>1, <1>2, <1>3, <1>7
  <2> QED
    BY <1>7, <2>5, <2>6 DEF n, i, u
<1>8. CASE i < n /\ r = At(ns, i)
  <2>1. i \in 0 .. n - 1 /\ i < u
    <3>1. i \in 0 .. n - 1
      BY <1>1, <1>2, <1>8
    <3>2. ~Less(r, At(ns, i))
      BY <1>8, LessIsAnOrder
    <3> QED
      BY <1>2, <3>1, <3>2
  <2>2. ASSUME m + i < u PROVE FALSE
    <3>1. m < n - i /\ m + i \in 0 .. n - 1
      BY <1>1, <1>2, <1>4, <2>2
    <3>2. Less(r, At(ns, m + i))
      BY <1>4, <3>1
    <3> QED
      BY <1>2, <2>2, <3>1, <3>2
  <2>3. ASSUME u < m + i PROVE FALSE
    <3>1. u \in 0 .. n - 1 /\ u - i \in 0 .. n - i - 1 /\ u - i < m /\ (u - i) + i = u
      BY <1>1, <1>2, <1>4, <2>1, <2>3
    <3>2. ~Less(r, At(ns, (u - i) + i))
      BY <1>4, <3>1
    <3> QED
      BY <1>1, <1>2, <3>1, <3>2
  <2>4. m + i = u
    BY <1>1, <1>2, <1>4, <2>2, <2>3
  <2>5. indices(ns, r) = found /\ found.after = (IF u < n THEN u ELSE 0) /\ found.at = i
    BY <1>1, <1>2, <1>3, <1>8, <2>4
  <2> QED
    BY <1>8, <2>5 DEF n, i, u
<1> QED
  BY <1>1, <1>2, <1>6, <1>7, <1>8

(* The remote before the first that is not below r is r's predecessor. *)
LEMMA BeforeLemma ==
  ASSUME NEW ns, Valid(ns), Len(ns) # 0, NEW r \in Remote,
         NEW b, b = IF NotBelow(ns, r) = 0 THEN Len(ns) - 1 ELSE NotBelow(ns, r) - 1
  PROVE  b \in 0 .. Len(ns) - 1 /\ IsPredecessor(At(ns, b), Members(ns), r)
<1> DEFINE n == Len(ns)
           i == NotBelow(ns, r)
           lower == {x \in Members(ns) : Less(x, r)}
<1>1. n \in Nat /\ n # 0 /\ Members(ns) # {}
  BY ValidLemma
<1>2. i \in 0 .. n /\ \A k \in 0 .. n - 1 : k < i <=> Less(At(ns, k), r)
  BY NotBelowLemma
<1>3. b \in 0 .. n - 1 /\ (i = 0 => b = n - 1) /\ (i # 0 => b = i - 1)
  BY <1>1, <1>2
<1>4. /\ \A k \in 0 .. n - 1 : At(ns, k) \in Remote /\ At(ns, k) \in Members(ns)
      /\ \A x \in Members(ns) : \E k \in 0 .. n - 1 : x = At(ns, k)
      /\ \A j, k \in 0 .. n - 1 : Less(At(ns, j), At(ns, k)) => j < k
  BY ValidLemma
<1> HIDE DEF n, i
<1>5. CASE i = 0
  <2>1. lower = {}
    BY <1>1, <1>2, <1>4, <1>5
  <2>2. \A x \in Members(ns) : ~Less(At(ns, b), x)
    BY <1>1, <1>3, <1>4, <1>5
  <2> QED
    BY <1>1, <1>3, <1>4, <2>1, <2>2 DEF IsPredecessor, n
<1>6. CASE i # 0
  <2>1. b < i
    BY <1>1, <1>2, <1>3, <1>6
  <2>2. At(ns, b) \in lower
    BY <1>2, <1>3, <1>4, <2>1
  <2>3. ASSUME NEW x \in lower PROVE ~Less(At(ns, b), x)
    <3>1. PICK k \in 0 .. n - 1 : x = At(ns, k)
      BY <1>4
    <3>2. k < i
      BY <1>2, <3>1
    <3>3. ~(b < k)
      BY <1>1, <1>2, <1>3, <1>6, <3>2
    <3> QED
      BY <1>3, <1>4, <3>1, <3>3
  <2> QED
    BY <1>1, <1>3, <2>2, <2>3 DEF IsPredecessor, n
<1> QED
  BY <1>5, <1>6

(* Clean, for any predecessor and successor, in the ring or not. *)
LEMMA CleanedLemma ==
  ASSUME NEW ns, Valid(ns), Len(ns) # 0, NEW p \in Remote, NEW s \in Remote
  PROVE  /\ Valid(cleaned(ns, p, s))
         /\ \E e \in Members(ns) : /\ CleanEnd(e, Members(ns), s)
                                   /\ Members(cleaned(ns, p, s)) = RingClean(Members(ns), p, e)
<1> DEFINE n == Len(ns)
           u == Above(ns, p)
           i == NotBelow(ns, s)
           b == IF i = 0 THEN n - 1 ELSE i - 1
           at == IF i < n /\ s = At(ns, i) THEN i ELSE -1
           from == IF u < n THEN u ELSE 0
           to == IF at # -1 THEN at ELSE b
           e == At(ns, to)
           c == cleaned(ns, p, s)
<1>1. n \in Nat /\ n # 0
  BY ValidLemma
<1>2. c = IF from > to THEN Slice(ns, to, from) ELSE Slice(ns, 0, from) \o Slice(ns, to, n)
  <2>1. indices(ns, p).after = from
    BY IndicesLemma
  <2>2. indices(ns, s).at = at /\ indices(ns, s).before = b
    BY IndicesLemma
  <2> HIDE DEF from, at, b
  <2> QED
    BY <2>1, <2>2 DEF cleaned
<1>3. /\ u \in 0 .. n /\ \A k \in 0 .. n - 1 : k < u <=> ~Less(p, At(ns, k))
      /\ i \in 0 .. n /\ \A k \in 0 .. n - 1 : k < i <=> Less(At(ns, k), s)
  BY NotBelowLemma, AboveLemma
<1>4. b \in 0 .. n - 1 /\ IsPredecessor(At(ns, b), Members(ns), s)
  BY BeforeLemma
<1>5. /\ \A k \in 0 .. n - 1 : At(ns, k) \in Remote /\ At(ns, k) \in Members(ns)
      /\ \A x \in Members(ns) : \E k \in 0 .. n - 1 : x = At(ns, k)
      /\ \A j, k \in 0 .. n - 1 : Less(At(ns, j), At(ns, k)) => j < k
      /\ \A j, k \in 0 .. n - 1 : j < k => Less(At(ns, j), At(ns, k))
  BY ValidLemma
<1> HIDE DEF b, c, u, i, n
<1>6. from \in 0 .. n - 1 /\ to \in 0 .. n - 1 /\ from \in 0 .. n /\ to \in 0 .. n
  BY <1>1, <1>3, <1>4
<1>7. e \in Members(ns) /\ CleanEnd(e, Members(ns), s)
  <2>1. CASE at # -1
    <3>1. e = s
      BY <2>1
    <3> QED
      BY <1>5, <1>6, <3>1 DEF CleanEnd
  <2>2. CASE at = -1
    <3>1. ASSUME s \in Members(ns) PROVE FALSE
      <4>1. PICK k \in 0 .. n - 1 : s = At(ns, k)
        BY <1>5, <3>1
      <4>2. ~Less(s, s)
        BY LessIsAnOrder
      <4>3. ~(k < i)
        BY <1>3, <4>1, <4>2
      <4>4. i \in 0 .. n - 1 /\ ~Less(At(ns, i), s)
        BY <1>1, <1>3, <4>1, <4>3
      <4>5. i # k
        BY <1>1, <1>3, <2>2, <4>1, <4>4
      <4>6. i < k
        BY <1>1, <1>3, <4>1, <4>3, <4>5
      <4> QED
        BY <1>5, <4>1, <4>4, <4>6
    <3> QED
      BY <1>4, <1>5, <1>6, <2>2, <3>1 DEF CleanEnd
  <2> QED
    BY <2>1, <2>2
<1>8. \A k \in 0 .. n - 1 : Less(At(ns, k), e) <=> k < to
  BY <1>5, <1>6
<1>9. Less(p, e) <=> ~(to < u)
  BY <1>3, <1>6
<1> HIDE DEF e, to, from
<1>10. CASE from > to
  <2>1. u < n /\ from = u
    BY <1>1, <1>3, <1>6, <1>10 DEF from
  <2>2. /\ Valid(c) /\ Members(c) \subseteq Members(ns)
        /\ \A k \in 0 .. n - 1 : At(ns, k) \in Members(c) <=> to <= k /\ k < from
    <3>1. to <= from /\ c = Slice(ns, to, from)
      BY <1>1, <1>2, <1>6, <1>10
    <3> QED
      BY <1>6, <3>1, SliceLemma DEF n
  <2>3. \A k \in 0 .. n - 1 : At(ns, k) \in Members(c) <=> ~Between(At(ns, k), p, e)
    BY <1>1, <1>3, <1>6, <1>8, <1>9, <1>10, <2>1, <2>2 DEF Between
  <2>4. \A x \in Members(ns) : x \in Members(c) <=> ~Between(x, p, e)
    BY <1>5, <2>3
  <2> QED
    BY <1>7, <2>2, <2>4 DEF RingClean, c
<1>11. CASE ~(from > to)
  <2>1. from <= to /\ n \in 0 .. n
    BY <1>1, <1>6, <1>11
  <2>2. /\ Valid(c) /\ Members(c) \subseteq Members(ns)
        /\ \A k \in 0 .. n - 1 : At(ns, k) \in Members(c) <=> k < from \/ to <= k
    <3>1. c = Slice(ns, 0, from) \o Slice(ns, to, n)
      BY <1>2, <1>11
    <3> QED
      BY <1>6, <2>1, <3>1, CutLemma DEF n
  <2>3. \A k \in 0 .. n - 1 : At(ns, k) \in Members(c) <=> ~Between(At(ns, k), p, e)
    <3>1. CASE u < n
      <4>1. from = u
        BY <3>1 DEF from
      <4> QED
        BY <1>1, <1>3, <1>6, <1>8, <1>9, <2>1, <2>2, <4>1 DEF Between
    <3>2. CASE ~(u < n)
      <4>1. from = 0 /\ u = n
        BY <1>1, <1>3, <3>2 DEF from
      <4> QED
        BY <1>1, <1>3, <1>6, <1>8, <1>9, <2>1, <2>2, <4>1 DEF Between
    <3> QED
      BY <3>1, <3>2
  <2>4. \A x \in Members(ns) : x \in Members(c) <=> ~Between(x, p, e)
    BY <1>5, <2>3
  <2> QED
    BY <1>7, <2>2, <2>4 DEF RingClean, c
<1> QED
  BY <1>10, <1>11

(* Predecessor of any remote. *)
LEMMA PredecessorLemma ==
  ASSUME NEW ns, Valid(ns), NEW r \in Remote
  PROVE  IsPredecessor(Predecessor(ns, r), Members(ns), r)
<1> DEFINE n == Len(ns)
           i == NotBelow(ns, r)
           b == IF i = 0 THEN n - 1 ELSE i - 1
<1>1. n \in Nat /\ (Members(ns) = {} <=> n = 0)
  BY ValidLemma
<1>2. CASE n = 0
  BY <1>1, <1>2 DEF Predecessor, IsPredecessor
<1>3. CASE n # 0
  <2>1. i \in 0 .. n
    BY NotBelowLemma
  <2>2. b \in 0 .. n - 1 /\ IsPredecessor(At(ns, b), Members(ns), r)
    BY <1>3, BeforeLemma
  <2>3. predecessorIndex(ns, r) = IF i < n /\ i > 0 THEN i - 1 ELSE n - 1
    BY DEF predecessorIndex, NotBelow
  <2> HIDE DEF i
  <2>4. predecessorIndex(ns, r) = b
    BY <1>1, <1>3, <2>1, <2>3
  <2>5. n = 1 => b = 0
    BY <2>1
  <2> HIDE DEF b
  <2> QED
    BY <1>3, <2>2, <2>4, <2>5 DEF Predecessor
<1> QED
  BY <1>2, <1>3

(* Successor of any remote. *)
LEMMA SuccessorLemma ==
  ASSUME NEW ns, Valid(ns), Len(ns) # 0, NEW r \in Remote
  PROVE  IsSuccessor(Successor(ns, r), Members(ns), r)
<1> DEFINE n == Len(ns)
           u == Above(ns, r)
           a == IF u < n THEN u ELSE 0
           higher == {x \in Members(ns) : Less(r, x)}
<1>1. n \in Nat /\ n # 0 /\ Members(ns) # {}
  BY ValidLemma
<1>2. u \in 0 .. n /\ \A k \in 0 .. n - 1 : k < u <=> ~Less(r, At(ns, k))
  BY AboveLemma
<1>3. Successor(ns, r) = At(ns, a)
  BY DEF Successor, successorIndex, Above
<1>4. /\ \A k \in 0 .. n - 1 : At(ns, k) \in Remote /\ At(ns, k) \in Members(ns)
      /\ \A x \in Members(ns) : \E k \in 0 .. n - 1 : x = At(ns, k)
      /\ \A j, k \in 0 .. n - 1 : Less(At(ns, j), At(ns, k)) => j < k
  BY ValidLemma
<1> HIDE DEF n, u
<1>5. a \in 0 .. n - 1
  BY <1>1, <1>2
<1>6. CASE u < n
  <2>1. a = u /\ At(ns, a) \in higher
    BY <1>1, <1>2, <1>4, <1>5, <1>6
  <2>2. ASSUME NEW x \in higher PROVE ~Less(x, At(ns, a))
    <3>1. PICK k \in 0 .. n - 1 : x = At(ns, k)
      BY <1>4
    <3>2. ~(k < u)
      BY <1>2, <3>1
    <3> QED
      BY <1>4, <1>5, <2>1, <3>1, <3>2
  <2> QED
    BY <1>3, <2>1, <2>2 DEF IsSuccessor
<1>7. CASE ~(u < n)
  <2>1. higher = {}
    BY <1>1, <1>2, <1>4, <1>7
  <2>2. a = 0 /\ \A x \in Members(ns) : ~Less(x, At(ns, a))
    BY <1>1, <1>4, <1>5, <1>7
  <2> QED
    BY <1>3, <1>4, <1>5, <2>1, <2>2 DEF IsSuccessor
<1> QED
  BY <1>6, <1>7
----------------------------------------------------------------------------
(* Looking for a position *)

LEMMA ExtremaLemma ==
  ASSUME NEW S, S \subseteq Int, NEW x \in S
  PROVE  /\ (\A y \in S : x <= y) => Min(S) = x
         /\ (\A y \in S : x >= y) => Max(S) = x
<1>1. ASSUME \A y \in S : x <= y PROVE Min(S) = x
  <2>1. \E z \in S : \A y \in S : z <= y
    BY <1>1
  <2>2. Min(S) \in S /\ \A y \in S : Min(S) <= y
    BY <2>1 DEF Min
  <2>3. x <= Min(S) /\ Min(S) <= x /\ Min(S) \in Int /\ x \in Int
    BY <1>1, <2>2
  <2> QED
    BY <2>3
<1>2. ASSUME \A y \in S : x >= y PROVE Max(S) = x
  <2>1. \E z \in S : \A y \in S : z >= y
    BY <1>2
  <2>2. Max(S) \in S /\ \A y \in S : Max(S) >= y
    BY <2>1 DEF Max
  <2>3. x >= Max(S) /\ Max(S) >= x /\ Max(S) \in Int /\ x \in Int
    BY <1>2, <2>2
  <2> QED
    BY <2>3
<1> QED
  BY <1>1, <1>2

(* Positions never fall along the slice. *)
LEMMA PositionLemma ==
  ASSUME NEW ns, Valid(ns)
  PROVE  /\ \A k \in 0 .. Len(ns) - 1 : At(ns, k).pos \in Nat
         /\ \A j, k \in 0 .. Len(ns) - 1 : j <= k => At(ns, j).pos <= At(ns, k).pos
<1>1. \A k \in 0 .. Len(ns) - 1 : At(ns, k) \in Remote /\ At(ns, k).pos \in Nat
  BY ValidLemma, LessIsAnOrder
<1>2. ASSUME NEW j \in 0 .. Len(ns) - 1, NEW k \in 0 .. Len(ns) - 1, j <= k
      PROVE  At(ns, j).pos <= At(ns, k).pos
  <2>1. CASE j = k
    BY <1>1, <2>1
  <2>2. CASE j < k
    <3>1. Less(At(ns, j), At(ns, k))
      BY <2>2, ValidLemma
    <3> QED
      BY <1>1, <3>1 DEF Less
  <2> QED
    BY <1>2, <2>1, <2>2
<1> QED
  BY <1>1, <1>2

(* byteIndices finds the last remote below a position, the first at it and *)
(* the first above it.                                                     *)
LEMMA ByteIndicesLemma ==
  ASSUME NEW ns, Valid(ns), Len(ns) # 0, NEW pos \in Pos
  PROVE  LET n      == Len(ns)
             ix     == byteIndices(ns, pos)
             below  == {k \in 0 .. n - 1 : At(ns, k).pos < pos}
             equal  == {k \in 0 .. n - 1 : At(ns, k).pos = pos}
             higher == {k \in 0 .. n - 1 : At(ns, k).pos > pos}
         IN /\ ix.before = IF below = {} THEN n - 1 ELSE Max(below)
            /\ ix.at = IF equal = {} THEN -1 ELSE Min(equal)
            /\ ix.after = IF higher = {} THEN 0 ELSE Min(higher)
<1> DEFINE n == Len(ns)
           ix == byteIndices(ns, pos)
           below == {k \in 0 .. n - 1 : At(ns, k).pos < pos}
           equal == {k \in 0 .. n - 1 : At(ns, k).pos = pos}
           higher == {k \in 0 .. n - 1 : At(ns, k).pos > pos}
           S == {k \in 0 .. n - 1 : pos <= At(ns, k).pos}
           i == Min(S \cup {n})
           T == {k \in 0 .. n - i - 1 : pos < At(ns, k + i).pos}
           m == Min(T \cup {n - i})
           found == [before |-> IF i = 0 THEN n - 1 ELSE i - 1,
                     at     |-> IF pos = At(ns, i).pos THEN i ELSE -1,
                     after  |-> IF ~(pos = At(ns, i).pos) THEN i ELSE IF m + i < n THEN m + i ELSE 0]
<1>1. n \in Nat /\ n # 0 /\ pos \in Nat
  BY ValidLemma, RemotesAssumption
<1>2. ix = IF i = n THEN [before |-> n - 1, at |-> -1, after |-> 0] ELSE found
  BY <1>1 DEF byteIndices, searchIndices, Search
<1>3. \A q \in Nat : \A Z \in SUBSET (0 .. q - 1) :
          LET l == Min(Z \cup {q})
          IN l \in 0 .. q /\ (l < q => l \in Z) /\ \A k \in 0 .. q - 1 : k < l => k \notin Z
  BY SearchLemma
<1>4. i \in 0 .. n /\ (i < n => i \in S) /\ \A k \in 0 .. n - 1 : k < i => k \notin S
  <2>1. S \in SUBSET (0 .. n - 1)
    OBVIOUS
  <2> HIDE DEF S, n
  <2> QED
    BY <1>1, <1>3, <2>1
<1>5. m \in 0 .. n - i /\ (m < n - i => m \in T) /\ \A k \in 0 .. n - i - 1 : k < m => k \notin T
  <2>1. n - i \in Nat /\ T \in SUBSET (0 .. n - i - 1)
    BY <1>1, <1>4
  <2> HIDE DEF T
  <2> QED
    BY <1>3, <2>1
<1>6. /\ \A k \in 0 .. n - 1 : At(ns, k).pos \in Nat
      /\ \A j, k \in 0 .. n - 1 : j <= k => At(ns, j).pos <= At(ns, k).pos
  BY PositionLemma
<1> HIDE DEF n, i, m, ix
<1>7. \A k \in 0 .. n - 1 : k < i <=> At(ns, k).pos < pos
  BY <1>1, <1>4, <1>6
<1>8. ix.before = IF below = {} THEN n - 1 ELSE Max(below)
  <2>1. ix.before = IF i = 0 THEN n - 1 ELSE i - 1
    BY <1>1, <1>2
  <2>2. CASE i = 0
    <3>1. below = {}
      BY <1>1, <1>7, <2>2
    <3> QED
      BY <2>1, <2>2, <3>1
  <2>3. CASE i # 0
    <3>1. i - 1 \in 0 .. n - 1 /\ i - 1 < i
      BY <1>1, <1>4, <2>3
    <3>2. i - 1 \in below /\ \A y \in below : i - 1 >= y
      BY <1>1, <1>4, <1>7, <3>1
    <3>3. below \subseteq Int
      OBVIOUS
    <3> HIDE DEF below
    <3>4. Max(below) = i - 1
      BY <3>2, <3>3, ExtremaLemma
    <3> QED
      BY <2>1, <2>3, <3>2, <3>4
  <2> QED
    BY <2>2, <2>3
<1>9. ix.at = IF equal = {} THEN -1 ELSE Min(equal)
  <2>1. CASE i < n /\ pos = At(ns, i).pos
    <3>1. i \in equal /\ \A y \in equal : i <= y
      BY <1>1, <1>4, <1>7, <2>1
    <3>2. equal \subseteq Int
      OBVIOUS
    <3>3. ix.at = i
      BY <1>1, <1>2, <1>4, <2>1
    <3> HIDE DEF equal
    <3>4. Min(equal) = i
      BY <3>1, <3>2, ExtremaLemma
    <3> QED
      BY <3>1, <3>3, <3>4
  <2>2. CASE ~(i < n /\ pos = At(ns, i).pos)
    <3>1. ix.at = -1
      BY <1>1, <1>2, <1>4, <2>2
    <3>2. ASSUME NEW k \in equal PROVE FALSE
      <4>1. k \in 0 .. n - 1 /\ ~(k < i) /\ At(ns, k).pos = pos
        BY <1>1, <1>7
      <4>2. i \in 0 .. n - 1 /\ i <= k
        BY <1>1, <1>4, <4>1
      <4>3. At(ns, i).pos <= pos /\ pos <= At(ns, i).pos
        <5>1. i < n
          BY <1>1, <4>2
        <5>2. pos <= At(ns, i).pos
          BY <1>4, <5>1
        <5>3. At(ns, i).pos <= At(ns, k).pos
          BY <1>6, <4>1, <4>2
        <5> QED
          BY <4>1, <5>2, <5>3
      <4> QED
        BY <1>1, <1>6, <2>2, <4>2, <4>3
    <3> QED
      BY <3>1, <3>2
  <2> QED
    BY <2>1, <2>2
<1>10. ix.after = IF higher = {} THEN 0 ELSE Min(higher)
  <2>1. ASSUME NEW h \in 0 .. n - 1, At(ns, h).pos > pos, ix.after = h,
               \A k \in 0 .. n - 1 : k < h => ~(At(ns, k).pos > pos)
        PROVE  ix.after = IF higher = {} THEN 0 ELSE Min(higher)
    <3>1. h \in higher /\ \A y \in higher : h <= y
      BY <1>1, <2>1
    <3>2. higher \subseteq Int
      OBVIOUS
    <3> HIDE DEF higher
    <3>3. Min(higher) = h
      BY <3>1, <3>2, ExtremaLemma
    <3> QED
      BY <2>1, <3>1, <3>3
  <2>2. CASE i = n
    <3>1. higher = {}
      BY <1>1, <1>6, <1>7, <2>2
    <3> QED
      BY <1>2, <2>2, <3>1
  <2>3. CASE i < n /\ pos # At(ns, i).pos
    <3>1. i \in 0 .. n - 1 /\ At(ns, i).pos > pos
      BY <1>1, <1>4, <1>6, <2>3
    <3>2. ix.after = i
      BY <1>2, <2>3, <3>1
    <3>3. \A k \in 0 .. n - 1 : k < i => ~(At(ns, k).pos > pos)
      BY <1>1, <1>6, <1>7
    <3> QED
      BY <2>1, <3>1, <3>2, <3>3
  <2>4. CASE i < n /\ pos = At(ns, i).pos
    <3>1. ASSUME NEW k \in 0 .. n - 1, k < m + i PROVE ~(At(ns, k).pos > pos)
      <4>1. CASE k < i
        BY <1>1, <1>6, <1>7, <4>1
      <4>2. CASE ~(k < i)
        <5>1. k - i \in 0 .. n - i - 1 /\ k - i < m /\ (k - i) + i = k
          BY <1>1, <1>4, <1>5, <3>1, <4>2
        <5>2. k - i \notin T
          BY <1>5, <5>1
        <5>3. ~(pos < At(ns, (k - i) + i).pos)
          BY <5>1, <5>2
        <5> QED
          BY <1>1, <1>6, <5>1, <5>3
      <4> QED
        BY <4>1, <4>2
    <3>2. ix.after = IF m + i < n THEN m + i ELSE 0
      BY <1>1, <1>2, <1>4, <2>4
    <3>3. CASE m + i < n
      <4>1. m + i \in 0 .. n - 1 /\ m < n - i
        BY <1>1, <1>4, <1>5, <3>3
      <4>2. pos < At(ns, m + i).pos
        BY <1>5, <4>1
      <4> QED
        BY <1>1, <1>6, <2>1, <3>1, <3>2, <3>3, <4>1, <4>2
    <3>4. CASE ~(m + i < n)
      <4>1. higher = {}
        BY <1>1, <1>4, <1>5, <3>1, <3>4
      <4> QED
        BY <3>2, <3>4, <4>1
    <3> QED
      BY <3>3, <3>4
  <2> QED
    BY <1>1, <1>4, <2>2, <2>3, <2>4
<1> QED
  BY <1>8, <1>9, <1>10 DEF n, ix
----------------------------------------------------------------------------
(* What every step does to the slice *)

(* Remove panics when the remote is the last one, as RingSet has it. *)
LEMMA LastLemma ==
  ASSUME NEW ns, Valid(ns), NEW r \in Remote
  PROVE  (Len(ns) = 1 /\ At(ns, 0).addr = r.addr) <=> RemovesLast(Members(ns), r)
<1>1. /\ Len(ns) \in Nat
      /\ \A k \in 0 .. Len(ns) - 1 : At(ns, k) \in Members(ns)
      /\ \A x \in Members(ns) : \E k \in 0 .. Len(ns) - 1 : x = At(ns, k)
      /\ \A j, k \in 0 .. Len(ns) - 1 : At(ns, j).addr = At(ns, k).addr => j = k
      /\ Members(ns) = {} <=> Len(ns) = 0
  BY ValidLemma
<1>2. ASSUME Len(ns) = 1, At(ns, 0).addr = r.addr PROVE RemovesLast(Members(ns), r)
  <2>1. 0 \in 0 .. Len(ns) - 1 /\ \A k \in 0 .. Len(ns) - 1 : k = 0
    BY <1>2
  <2>2. Members(ns) = {At(ns, 0)}
    BY <1>1, <2>1
  <2> QED
    BY <1>2, <2>2 DEF RemovesLast
<1>3. ASSUME RemovesLast(Members(ns), r) PROVE Len(ns) = 1 /\ At(ns, 0).addr = r.addr
  <2>1. PICK x \in Members(ns) : x.addr = r.addr /\ Members(ns) = {x}
    BY <1>3 DEF RemovesLast
  <2>2. Len(ns) # 0
    BY <1>1, <2>1
  <2>3. ASSUME Len(ns) > 1 PROVE FALSE
    <3>1. 0 \in 0 .. Len(ns) - 1 /\ 1 \in 0 .. Len(ns) - 1
      BY <1>1, <2>3
    <3>2. At(ns, 0) = x /\ At(ns, 1) = x
      BY <1>1, <2>1, <3>1
    <3> QED
      BY <1>1, <3>1, <3>2
  <2>4. Len(ns) = 1 /\ 0 \in 0 .. Len(ns) - 1
    <3>1. Len(ns) \in Nat /\ ~(Len(ns) > 1)
      BY <1>1, <2>3
    <3>2. \A n \in Nat : n # 0 /\ ~(n > 1) => n = 1 /\ 0 \in 0 .. n - 1
      OBVIOUS
    <3> QED
      BY <2>2, <3>1, <3>2
  <2> QED
    BY <1>1, <2>1, <2>4
<1> QED
  BY <1>2, <1>3

(* The operators of Remotes mean the same in the instance of RingSet. *)
LEMMA AbstractLemma ==
  /\ Abstract!Remote = Remote
  /\ Abstract!Rings = Rings
  /\ \A R, r : Abstract!RingAdd(R, r) = RingAdd(R, r)
  /\ \A R, r : Abstract!RingRemove(R, r) = RingRemove(R, r)
  /\ \A R, r : Abstract!RemovesLast(R, r) = RemovesLast(R, r)
  /\ \A R, p, e : Abstract!RingClean(R, p, e) = RingClean(R, p, e)
  /\ \A e, R, s : Abstract!CleanEnd(e, R, s) = CleanEnd(e, R, s)
<1>1. Abstract!Remote = Remote
  BY DEF Abstract!Remote, Remote
<1>2. Abstract!Rings = Rings
  BY <1>1 DEF Abstract!Rings, Rings, Abstract!IsRing, IsRing, Abstract!UniqueAddr, UniqueAddr
<1>3. /\ \A R, r : Abstract!RingAdd(R, r) = RingAdd(R, r)
      /\ \A R, r : Abstract!RingRemove(R, r) = RingRemove(R, r)
      /\ \A R, r : Abstract!RemovesLast(R, r) = RemovesLast(R, r)
  BY DEF Abstract!RingAdd, RingAdd, Abstract!RingRemove, RingRemove,
         Abstract!RemovesLast, RemovesLast
<1>4. \A R, p, e : Abstract!RingClean(R, p, e) = RingClean(R, p, e)
  BY DEF Abstract!RingClean, RingClean, Abstract!Between, Between, Abstract!Less, Less
<1>5. \A e, R, s : Abstract!CleanEnd(e, R, s) = CleanEnd(e, R, s)
  BY DEF Abstract!CleanEnd, CleanEnd, Abstract!IsPredecessor, IsPredecessor, Abstract!Less, Less
<1> QED
  BY <1>1, <1>2, <1>3, <1>4, <1>5

(* Each operation leaves a valid slice, and changes its set of remotes as  *)
(* RingSet says.                                                           *)
LEMMA AddStep ==
  ASSUME Valid(nodes), NEW r \in Remote, Add(r)
  PROVE  Valid(nodes)' /\ Abstract!Add(r)
<1>1. CASE r \in Members(nodes)
  <2>1. IsRing(Members(nodes))
    BY ValidLemma
  <2>2. RingAdd(Members(nodes), r) = Members(nodes)
    BY <1>1, <2>1 DEF RingAdd, IsRing, UniqueAddr
  <2>3. nodes' = nodes
    BY <1>1 DEF Add
  <2> QED
    BY <2>2, <2>3, AbstractLemma DEF Add, Abstract!Add, Valid, Members
<1>2. CASE r \notin Members(nodes)
  <2> DEFINE w == without(nodes, r)
  <2>1. Valid(w) /\ Members(w) = RingRemove(Members(nodes), r)
    BY WithoutLemma
  <2>2. nodes' = insertSorted(w, r)
    BY <1>2 DEF Add
  <2> HIDE DEF w
  <2>3. \A x \in Members(w) : x.addr # r.addr
    BY <2>1 DEF RingRemove
  <2>4. Valid(insertSorted(w, r)) /\ Members(insertSorted(w, r)) = Members(w) \cup {r}
    BY <2>1, <2>3, InsertLemma
  <2>5. Valid(nodes') /\ Members(nodes') = RingAdd(Members(nodes), r)
    BY <2>1, <2>2, <2>4 DEF RingAdd, RingRemove
  <2> QED
    BY <2>5, AbstractLemma DEF Add, Abstract!Add, Valid, Members
<1> QED
  BY <1>1, <1>2

LEMMA RemoveStep ==
  ASSUME Valid(nodes), NEW r \in Remote, Remove(r)
  PROVE  Valid(nodes)' /\ Abstract!Remove(r)
<1>1. panicked' = RemovesLast(Members(nodes), r)
  <2>1. RemovesLast(Members(nodes), r) \in BOOLEAN
    BY DEF RemovesLast
  <2> QED
    BY <2>1, LastLemma DEF Remove
<1>2. CASE panicked'
  <2>1. nodes' = nodes
    BY <1>2 DEF Remove
  <2> QED
    BY <1>1, <1>2, <2>1, AbstractLemma DEF Remove, Abstract!Remove, Valid, Members
<1>3. CASE ~panicked'
  <2>1. nodes' = without(nodes, r)
    BY <1>3 DEF Remove
  <2>2. Valid(nodes') /\ Members(nodes') = RingRemove(Members(nodes), r)
    BY <2>1, WithoutLemma
  <2> QED
    BY <1>1, <1>3, <2>2, AbstractLemma DEF Remove, Abstract!Remove, Valid, Members
<1> QED
  BY <1>2, <1>3

LEMMA SetNodesStep ==
  ASSUME NEW ns \in Slices, SetNodes(ns)
  PROVE  Valid(nodes)' /\ Members(ns) \in Rings /\ Abstract!SetNodes(Members(ns))
<1>1. Valid(ns)
  BY DEF Slices
<1>2. Members(ns) \in Rings
  BY <1>1, ValidLemma DEF Rings, IsRing
<1>3. nodes' = ns
  BY DEF SetNodes
<1> QED
  BY <1>1, <1>2, <1>3, AbstractLemma DEF SetNodes, Abstract!SetNodes, Valid, Members

LEMMA CleanStep ==
  ASSUME Valid(nodes), NEW p \in Remote, NEW s \in Remote, Clean(p, s)
  PROVE  Valid(nodes)' /\ Abstract!Clean(p, s)
<1>1. Len(nodes) # 0 /\ Members(nodes) # {}
  BY ValidLemma DEF Clean
<1>2. nodes' = cleaned(nodes, p, s)
  BY DEF Clean
<1>3. /\ Valid(nodes')
      /\ \E e \in Members(nodes) : /\ CleanEnd(e, Members(nodes), s)
                                   /\ Members(nodes') = RingClean(Members(nodes), p, e)
  BY <1>1, <1>2, CleanedLemma
<1> QED
  BY <1>1, <1>3, AbstractLemma DEF Clean, Abstract!Clean, Valid, Members

LEMMA StepLemma ==
  ASSUME Valid(nodes), [Next]_vars
  PROVE  Valid(nodes)' /\ [Abstract!Next]_(Abstract!vars)
<1>1. ASSUME NEW r \in Remote, Add(r), ~panicked PROVE Valid(nodes)' /\ Abstract!Next
  BY <1>1, AddStep, AbstractLemma DEF Abstract!Next
<1>2. ASSUME NEW r \in Remote, Remove(r), ~panicked PROVE Valid(nodes)' /\ Abstract!Next
  BY <1>2, RemoveStep, AbstractLemma DEF Abstract!Next
<1>3. ASSUME NEW ns \in Slices, SetNodes(ns), ~panicked PROVE Valid(nodes)' /\ Abstract!Next
  BY <1>3, SetNodesStep, AbstractLemma DEF Abstract!Next
<1>4. ASSUME NEW p \in Remote, NEW s \in Remote, Clean(p, s), ~panicked
      PROVE  Valid(nodes)' /\ Abstract!Next
  BY <1>4, CleanStep, AbstractLemma DEF Abstract!Next
<1>5. CASE UNCHANGED vars
  BY <1>5 DEF vars, Abstract!vars, Valid, Members
<1> QED
  BY <1>1, <1>2, <1>3, <1>4, <1>5 DEF Next
----------------------------------------------------------------------------
(* The theorems *)

(* Whatever is added, removed, set and cleaned, Ring.Validate has nothing  *)
(* to complain about.                                                      *)
THEOREM RingStaysValid == Spec => []ValidRing
<1>1. Init => ValidRing
  BY EmptySeq DEF Init, ValidRing, Valid, Members, UniqueAddr
<1>2. ValidRing /\ [Next]_vars => ValidRing'
  BY StepLemma DEF ValidRing
<1> QED
  BY <1>1, <1>2, PTL DEF Spec

(* Predecessor and Successor find the neighbours of every remote in every  *)
(* ring that can come about.                                               *)
THEOREM NeighboursFound == Spec => []NeighboursAreRight
<1>1. ValidRing => NeighboursAreRight
  BY PredecessorLemma, SuccessorLemma, ValidLemma DEF ValidRing, NeighboursAreRight
<1> QED
  BY <1>1, RingStaysValid, PTL

(* Ring.Remotes finds the remotes around every position. *)
THEOREM PositionsFound == Spec => []ByteIndicesAreRight
<1>1. ASSUME ValidRing PROVE ByteIndicesAreRight
  <2>1. Len(nodes) \in Nat
    BY <1>1, ValidLemma DEF ValidRing
  <2>2. CASE Len(nodes) > 0
    <3>1. Len(nodes) # 0
      BY <2>1, <2>2
    <3> QED
      BY <1>1, <3>1, ByteIndicesLemma DEF ValidRing, ByteIndicesAreRight
  <2>3. CASE ~(Len(nodes) > 0)
    BY <2>3 DEF ByteIndicesAreRight
  <2> QED
    BY <2>2, <2>3
<1> QED
  BY <1>1, RingStaysValid, PTL

(* Clean up to a remote of the ring takes the remotes between away and no  *)
(* others.                                                                 *)
THEOREM CleanIsExact == Spec => CleanRemovesBetween
<1> DEFINE A == called'[1] = "Clean" /\ called'[3] \in Members(nodes) =>
                  Members(nodes') = {x \in Members(nodes) : ~Between(x, called'[2], called'[3])}
<1>1. ValidRing /\ [Next]_vars => [A]_vars
  <2> SUFFICES ASSUME ValidRing, Next, called'[1] = "Clean", called'[3] \in Members(nodes)
               PROVE  Members(nodes') =
                        {x \in Members(nodes) : ~Between(x, called'[2], called'[3])}
    OBVIOUS
  <2>1. PICK p, s \in Remote : Clean(p, s)
    BY DEF Next, Add, Remove, SetNodes
  <2>2. called' = <<"Clean", p, s>> /\ Abstract!Clean(p, s)
    BY <2>1, CleanStep DEF Clean, ValidRing
  <2>3. PICK e \in Members(nodes) : /\ CleanEnd(e, Members(nodes), s)
                                    /\ Members(nodes') = RingClean(Members(nodes), p, e)
    BY <2>2, AbstractLemma DEF Abstract!Clean, Members
  <2> QED
    BY <2>2, <2>3 DEF CleanEnd, RingClean
<1> QED
  BY <1>1, RingStaysValid, PTL DEF Spec, CleanRemovesBetween

(* The slice implements the set: every behaviour of the slice code is one  *)
(* of RingSet, call by call.                                               *)
THEOREM SliceImplementsSet == Spec => ImplementsRingSet
<1>1. Init => Abstract!Init
  BY DEF Init, Abstract!Init, Members
<1>2. ValidRing /\ [Next]_vars => [Abstract!Next]_(Abstract!vars)
  BY StepLemma DEF ValidRing
<1> QED
  BY <1>1, <1>2, RingStaysValid, PTL DEF Spec, ImplementsRingSet, Abstract!Spec
============================================================================
