-------------------------- MODULE ContentCacheProofs --------------------------
(***************************************************************************)
(* Proofs about ContentCache and Archive, for any sites, readers,          *)
(* archives, directories, budgets, limits and number of uploads.           *)
(*                                                                         *)
(* The operators proved about go through a sequence or a set one element   *)
(* at a time: a recursive function for filepath.Clean, for both unpackings *)
(* and for the cache's loops, a fold for the sums.  Section 1 derives the  *)
(* induction they need from the well-foundedness of the subsets of a       *)
(* finite set; before a recursive function can be unfolded it is shown to  *)
(* exist (the lemmas named ...Exists).                                     *)
(*                                                                         *)
(* The inductive invariant is CacheInv.  The list and the map agree, the   *)
(* budget holds, the list is in the order of last use, and every upload's  *)
(* content is what unpackTar makes of its archive, whose properties        *)
(* sections 5 and 8 prove entry by entry.                                  *)
(***************************************************************************)
EXTENDS ContentCache, FiniteSetTheorems, SequenceTheorems, WellFoundedInduction, TLAPS


-----------------------------------------------------------------------------
(***************************************************************************)
(* 1. Induction.                                                           *)
(***************************************************************************)

\* Among some subsets of a finite set there is one with no smaller one: the
\* ordering by inclusion is well-founded.
LEMMA SmallestSet ==
    ASSUME NEW S, IsFiniteSet(S), NEW T \in SUBSET (SUBSET S), T # {}
    PROVE  \E x \in T : \A y \in T : y \subseteq x => y = x
<1>1. IsWellFoundedOn(StrictSubsetOrdering(S), FiniteSubsetsOf(S))
  BY FS_StrictSubsetOrderingWellFounded
<1>2. FiniteSubsetsOf(S) = SUBSET S
  BY FS_FiniteSubsetsOfFinite
<1>3. PICK x \in T : \A y \in T : ~(<<y, x>> \in StrictSubsetOrdering(S))
  BY <1>1, <1>2, WFMin
<1>4. \A y \in T : y \subseteq x /\ y # x => <<y, x>> \in StrictSubsetOrdering(S)
  BY DEF StrictSubsetOrdering
<1>5. \A y \in T : y \subseteq x => y = x
  BY <1>3, <1>4
<1> QED
  BY <1>5, Zenon

\* A set of naturals has a least element, from the intervals 0 .. k.
LEMMA LeastNat ==
    ASSUME NEW S, S \subseteq Nat, S # {}
    PROVE  \E n \in S : \A m \in S : n <= m
<1>1. PICK b \in S : TRUE
  OBVIOUS
<1> DEFINE T == {0 .. k : k \in {k \in S : k <= b}}
<1> DEFINE A == 0 .. b
<1>2. T \in SUBSET (SUBSET A)
  BY <1>1
<1>2a. T # {}
  BY <1>1
<1>3. IsFiniteSet(A)
  BY <1>1, FS_Interval
<1> HIDE DEF T, A
<1>4. PICK x \in T : \A y \in T : y \subseteq x => y = x
  BY <1>2, <1>2a, <1>3, SmallestSet
<1>5. PICK n \in S : n <= b /\ x = 0 .. n
  BY <1>4 DEF T
<1>6. ASSUME NEW m \in S, m < n PROVE FALSE
  <2>1. 0 .. m \in T
    BY <1>1, <1>5, <1>6 DEF T
  <2>2. 0 .. m \subseteq x /\ n \in x /\ n \notin 0 .. m
    BY <1>5, <1>6
  <2> QED
    BY <1>4, <2>1, <2>2
<1> QED
  BY <1>6

\* Induction over the naturals, about a set instead of a predicate.
LEMMA CountingInduction ==
    ASSUME NEW S, 0 \in S, \A n \in Nat : n \in S => n + 1 \in S
    PROVE  \A n \in Nat : n \in S
<1> SUFFICES ASSUME Nat \ S # {} PROVE FALSE
  OBVIOUS
<1>1. PICK n \in Nat \ S : \A m \in Nat \ S : n <= m
  BY LeastNat
<1> QED
  BY <1>1

\* Induction over the subsets of a finite set, likewise.
LEMMA SubsetInduction ==
    ASSUME NEW S, IsFiniteSet(S), NEW P,
           \A s \in SUBSET S : (\A t \in SUBSET s : t # s => t \in P) => s \in P
    PROVE  \A s \in SUBSET S : s \in P
<1> DEFINE T == {s \in SUBSET S : s \notin P}
<1>1. T \in SUBSET (SUBSET S)
  OBVIOUS
<1> SUFFICES ASSUME T # {} PROVE FALSE
  OBVIOUS
<1>2. PICK x \in T : \A y \in T : y \subseteq x => y = x
  <2> HIDE DEF T
  <2> QED
    BY <1>1, SmallestSet
<1>3. \A t \in SUBSET x : t # x => t \in P
  BY <1>2
<1> QED
  BY <1>2, <1>3

-----------------------------------------------------------------------------
(***************************************************************************)
(* 2. Sums: what SumFunctionOnSet adds up, for curBytes and for sizes.     *)
(***************************************************************************)

\* The element a fold or a loop over a set takes next.
Pick(s) == CHOOSE x \in s : TRUE

\* g adds up f over every subset of S.
Adds(g, f, S) == g = [s \in SUBSET S |-> IF s = {} THEN 0 ELSE f[Pick(s)] + g[s \ {Pick(s)}]]

\* A set that is not empty has an element to take.
LEMMA PickIn == \A s : s # {} => Pick(s) \in s
  BY DEF Pick

\* Two such functions agree where their arguments do.
LEMMA AddsAgree ==
    ASSUME NEW f1, NEW f2, NEW S1, NEW S2, NEW g1, NEW g2, NEW S,
           IsFiniteSet(S), S \subseteq S1, S \subseteq S2, \A x \in S : f1[x] = f2[x],
           Adds(g1, f1, S1), Adds(g2, f2, S2)
    PROVE  \A s \in SUBSET S : g1[s] = g2[s]
<1> DEFINE P == {s \in SUBSET S : g1[s] = g2[s]}
<1>1. ASSUME NEW s \in SUBSET S, \A t \in SUBSET s : t # s => t \in P
      PROVE  g1[s] = g2[s]
  <2>1. CASE s = {}
    BY <2>1 DEF Adds
  <2>2. CASE s # {}
    <3>1. Pick(s) \in s
      BY <2>2, PickIn
    <3>2. s \ {Pick(s)} \in SUBSET s /\ s \ {Pick(s)} # s
      BY <3>1
    <3>3. g1[s \ {Pick(s)}] = g2[s \ {Pick(s)}]
      BY <1>1, <3>2
    <3>4. s \in SUBSET S1 /\ s \in SUBSET S2 /\ f1[Pick(s)] = f2[Pick(s)]
      BY <3>1
    <3>5. g1[s] = f1[Pick(s)] + g1[s \ {Pick(s)}]
      BY <2>2, <3>4 DEF Adds
    <3>6. g2[s] = f2[Pick(s)] + g2[s \ {Pick(s)}]
      BY <2>2, <3>4 DEF Adds
    <3> QED
      BY <3>3, <3>4, <3>5, <3>6
  <2> QED
    BY <2>1, <2>2
<1>2. \A s \in SUBSET S : (\A t \in SUBSET s : t # s => t \in P) => s \in P
  BY <1>1
<1>3. \A s \in SUBSET S : s \in P
  <2> HIDE DEF P
  <2> QED
    BY <1>2, SubsetInduction
<1> QED
  BY <1>3

\* There is such a function: the recursion is well-founded.
LEMMA AddsExists ==
    ASSUME NEW f, NEW S, IsFiniteSet(S)
    PROVE  \E g : Adds(g, f, S)
<1> DEFINE P == {s \in SUBSET S : \E g : Adds(g, f, s)}
           h(t) == CHOOSE g : Adds(g, f, t)
<1>1. ASSUME NEW s \in SUBSET S, \A t \in SUBSET s : t # s => t \in P
      PROVE  \E g : Adds(g, f, s)
  <2> DEFINE less(t) == t \ {Pick(t)}
             e == [t \in SUBSET s |-> IF t = {} THEN 0 ELSE f[Pick(t)] + h(less(t))[less(t)]]
  <2>1. ASSUME NEW t \in SUBSET s, t # {} PROVE e[less(t)] = h(less(t))[less(t)]
    <3> DEFINE u == less(t)
    <3>1. u \in SUBSET s /\ u # s /\ u \in SUBSET S
      BY <2>1, PickIn
    <3>2. Adds(h(u), f, u)
      BY <1>1, <3>1
    <3>3. CASE u = {}
      BY <3>1, <3>2, <3>3 DEF Adds
    <3>4. CASE u # {}
      <4> DEFINE w == less(u)
      <4>1. w \in SUBSET u /\ w \in SUBSET s /\ w # s
        BY <3>1, <3>4, PickIn
      <4>2. Adds(h(w), f, w)
        BY <1>1, <4>1
      <4>3. IsFiniteSet(w)
        BY <4>1, FS_Subset
      <4>4. h(u)[w] = h(w)[w]
        <5> HIDE DEF h, w, u
        <5> QED
          BY <3>2, <4>1, <4>2, <4>3, AddsAgree
      <4>5. h(u)[u] = f[Pick(u)] + h(u)[w]
        <5> HIDE DEF h
        <5> QED BY <3>2, <3>4 DEF Adds
      <4>6. e[u] = f[Pick(u)] + h(w)[w]
        <5> HIDE DEF h
        <5> QED BY <3>1, <3>4
      <4> QED
        BY <4>4, <4>5, <4>6
    <3> QED
      BY <3>3, <3>4
  <2>2. e = [t \in SUBSET s |-> IF t = {} THEN 0 ELSE f[Pick(t)] + e[less(t)]]
    <3> HIDE DEF h, less
    <3>1. \A t \in SUBSET s : (IF t = {} THEN 0 ELSE f[Pick(t)] + h(less(t))[less(t)])
                              = (IF t = {} THEN 0 ELSE f[Pick(t)] + e[less(t)])
      <4> HIDE DEF e
      <4> QED BY <2>1
    <3>2. \A t \in SUBSET s : e[t] = (IF t = {} THEN 0 ELSE f[Pick(t)] + e[less(t)])
      BY <3>1
    <3> QED
      BY <3>2
  <2> QED
    <3> HIDE DEF e
    <3>1. Adds(e, f, s)
      BY <2>2 DEF Adds
    <3> QED BY <3>1
<1>2. \A s \in SUBSET S : (\A t \in SUBSET s : t # s => t \in P) => s \in P
  BY <1>1
<1>3. \A s \in SUBSET S : s \in P
  <2> HIDE DEF P
  <2> QED
    BY <1>2, SubsetInduction
<1> QED
  BY <1>3

\* The fold of the model, under a shorter name.
Sum(f, S) == SumFunctionOnSet(f, S)

\* The fold is such a function: what it computes can be unfolded.
LEMMA SumUnfolds ==
    ASSUME NEW f, NEW S, IsFiniteSet(S)
    PROVE  \E g : Adds(g, f, S) /\ Sum(f, S) = g[S]
<1>1. Sum(f, S) = (CHOOSE g : Adds(g, f, S))[S]
  BY DEF Sum, SumFunctionOnSet, FoldFunctionOnSet, MapThenFoldSet, Adds, Pick
<1>2. \E g : Adds(g, f, S)
  BY AddsExists
<1> QED
  BY <1>1, <1>2

\* A sum depends on the values at the elements of its set only.
LEMMA SumAgrees ==
    ASSUME NEW f1, NEW f2, NEW S, IsFiniteSet(S), \A x \in S : f1[x] = f2[x]
    PROVE  Sum(f1, S) = Sum(f2, S)
<1>1. PICK g1 : Adds(g1, f1, S) /\ Sum(f1, S) = g1[S]
  BY SumUnfolds
<1>2. PICK g2 : Adds(g2, f2, S) /\ Sum(f2, S) = g2[S]
  BY SumUnfolds
<1>3. S \in SUBSET S /\ S \subseteq S
  OBVIOUS
<1> QED
  BY <1>1, <1>2, <1>3, AddsAgree

\* A sum is its first element and the rest.
LEMMA SumStep ==
    ASSUME NEW f, NEW S, IsFiniteSet(S)
    PROVE  Sum(f, S) = IF S = {} THEN 0 ELSE f[Pick(S)] + Sum(f, S \ {Pick(S)})
<1>1. PICK g : Adds(g, f, S) /\ Sum(f, S) = g[S]
  BY SumUnfolds
<1> DEFINE T == S \ {Pick(S)}
<1>2. IsFiniteSet(T) /\ T \subseteq S /\ T \in SUBSET T /\ T \subseteq T
  BY FS_Subset
<1>3. PICK h : Adds(h, f, T) /\ Sum(f, T) = h[T]
  BY <1>2, SumUnfolds
<1>4. g[T] = h[T]
  <2> HIDE DEF T
  <2> QED
    BY <1>1, <1>2, <1>3, AddsAgree
<1>5. S \in SUBSET S
  OBVIOUS
<1>6. g[S] = IF S = {} THEN 0 ELSE f[Pick(S)] + g[T]
  BY <1>1, <1>5 DEF Adds
<1> QED
  BY <1>1, <1>3, <1>4, <1>6

\* A sum of sizes is a natural number.
LEMMA SumType ==
    ASSUME NEW f, NEW S, IsFiniteSet(S), \A x \in S : f[x] \in Nat
    PROVE  Sum(f, S) \in Nat
<1> DEFINE P == {s \in SUBSET S : Sum(f, s) \in Nat}
<1>1. ASSUME NEW s \in SUBSET S, \A t \in SUBSET s : t # s => t \in P
      PROVE  s \in P
  <2>1. IsFiniteSet(s)
    BY FS_Subset
  <2>2. s # {} => /\ f[Pick(s)] \in Nat
                  /\ s \ {Pick(s)} \in P
    BY <1>1, PickIn
  <2>3. Sum(f, s) = IF s = {} THEN 0 ELSE f[Pick(s)] + Sum(f, s \ {Pick(s)})
    BY <2>1, SumStep
  <2> QED
    BY <2>2, <2>3
<1>2. \A s \in SUBSET S : (\A t \in SUBSET s : t # s => t \in P) => s \in P
  BY <1>1
<1>3. \A s \in SUBSET S : s \in P
  <2> HIDE DEF P
  <2> QED
    BY <1>2, SubsetInduction
<1> QED
  BY <1>3

\* Any element may be taken out first: curBytes can be reduced by the charge of
\* whatever entry evict is given.
LEMMA SumRemoves ==
    ASSUME NEW f, NEW S, IsFiniteSet(S), \A x \in S : f[x] \in Nat
    PROVE  \A v \in S : Sum(f, S) = f[v] + Sum(f, S \ {v})
<1> DEFINE P == {s \in SUBSET S : \A v \in s : Sum(f, s) = f[v] + Sum(f, s \ {v})}
<1>1. ASSUME NEW s \in SUBSET S, \A t \in SUBSET s : t # s => t \in P, NEW v \in s
      PROVE  Sum(f, s) = f[v] + Sum(f, s \ {v})
  <2> DEFINE x == Pick(s)
  <2>1. IsFiniteSet(s) /\ x \in s
    BY FS_Subset, PickIn
  <2>2. Sum(f, s) = f[x] + Sum(f, s \ {x})
    BY <2>1, SumStep
  <2>3. CASE v = x
    BY <2>2, <2>3
  <2>4. CASE v # x
    <3> HIDE DEF x
    <3>1. Sum(f, s \ {x}) = f[v] + Sum(f, (s \ {x}) \ {v})
      BY <1>1, <2>1, <2>4
    <3>2. Sum(f, s \ {v}) = f[x] + Sum(f, (s \ {v}) \ {x})
      BY <1>1, <2>1, <2>4
    <3>3. (s \ {x}) \ {v} = (s \ {v}) \ {x}
      OBVIOUS
    <3>4. IsFiniteSet((s \ {v}) \ {x}) /\ \A y \in (s \ {v}) \ {x} : f[y] \in Nat
      BY <2>1, FS_Subset
    <3>5. Sum(f, (s \ {v}) \ {x}) \in Nat /\ f[v] \in Nat /\ f[x] \in Nat
      BY <2>1, <3>4, SumType
    <3> QED
      BY <2>2, <3>1, <3>2, <3>3, <3>5
  <2> QED
    BY <2>3, <2>4
<1>2. \A s \in SUBSET S : (\A t \in SUBSET s : t # s => t \in P) => s \in P
  BY <1>1
<1>3. \A s \in SUBSET S : s \in P
  <2> HIDE DEF P
  <2> QED
    BY <1>2, SubsetInduction
<1>4. S \in P
  BY <1>3
<1> QED
  BY <1>4

\* Larger values have a larger sum: what entries hold against their charge.
LEMMA SumMonotone ==
    ASSUME NEW f1, NEW f2, NEW S, IsFiniteSet(S),
           \A x \in S : f1[x] \in Nat /\ f2[x] \in Nat /\ f1[x] <= f2[x]
    PROVE  Sum(f1, S) <= Sum(f2, S)
<1> DEFINE P == {s \in SUBSET S : Sum(f1, s) <= Sum(f2, s)}
<1>1. ASSUME NEW s \in SUBSET S, \A t \in SUBSET s : t # s => t \in P
      PROVE  Sum(f1, s) <= Sum(f2, s)
  <2>1. IsFiniteSet(s)
    BY FS_Subset
  <2>2. CASE s = {}
    <3>1. Sum(f1, s) = 0
      BY <2>1, <2>2, SumStep
    <3>2. Sum(f2, s) = 0
      BY <2>1, <2>2, SumStep
    <3> QED
      BY <3>1, <3>2
  <2>3. CASE s # {}
    <3> DEFINE x == Pick(s)
               t == s \ {x}
    <3>1. x \in s /\ t \in P /\ IsFiniteSet(t) /\ t \in SUBSET S
      BY <1>1, <2>1, <2>3, PickIn, FS_Subset
    <3>2. /\ Sum(f1, s) = f1[x] + Sum(f1, t)
          /\ Sum(f2, s) = f2[x] + Sum(f2, t)
      BY <2>1, <2>3, SumStep
    <3>3. Sum(f1, t) \in Nat /\ Sum(f2, t) \in Nat
      <4> HIDE DEF t
      <4> QED BY <3>1, SumType
    <3> QED
      BY <3>1, <3>2, <3>3
  <2> QED
    BY <2>2, <2>3
<1>2. \A s \in SUBSET S : (\A t \in SUBSET s : t # s => t \in P) => s \in P
  BY <1>1
<1>3. \A s \in SUBSET S : s \in P
  <2> HIDE DEF P
  <2> QED
    BY <1>2, SubsetInduction
<1> QED
  BY <1>3

-----------------------------------------------------------------------------
(***************************************************************************)
(* 3. The methods of the cache (cache.go).                                 *)
(***************************************************************************)

\* Taking one element out of the list moves up the ones behind it.
LEMMA WithoutIs ==
    ASSUME NEW D, NEW s \in Seq(D), NEW i \in 1 .. Len(s)
    PROVE  /\ Without(s, i) \in Seq(D)
           /\ Len(Without(s, i)) = Len(s) - 1
           /\ \A j \in 1 .. Len(s) - 1 :
                 Without(s, i)[j] = IF j < i THEN s[j] ELSE s[j + 1]
<1> DEFINE a == SubSeq(s, 1, i - 1)
           b == SubSeq(s, i + 1, Len(s))
<1>1. a \in Seq(D) /\ Len(a) = i - 1 /\ \A j \in 1 .. i - 1 : a[j] = s[j]
  OBVIOUS
<1>2. b \in Seq(D) /\ Len(b) = Len(s) - i /\ \A j \in 1 .. Len(s) - i : b[j] = s[i + j]
  OBVIOUS
<1>3. Without(s, i) = a \o b
  BY DEF Without
<1> HIDE DEF a, b
<1>0. Len(s) \in Nat /\ i \in Int
  OBVIOUS
<1>4. a \o b \in Seq(D) /\ Len(a \o b) = Len(s) - 1
  <2>1. a \o b \in Seq(D) /\ Len(a \o b) = Len(a) + Len(b)
    BY <1>1, <1>2, ConcatProperties
  <2> QED
    BY <1>0, <1>1, <1>2, <2>1
<1>5. ASSUME NEW j \in 1 .. Len(s) - 1
      PROVE  (a \o b)[j] = IF j < i THEN s[j] ELSE s[j + 1]
  <2>1. CASE j < i
    BY <1>1, <1>2, <2>1
  <2>2. CASE j >= i
    <3>1. (a \o b)[j] = b[j - (i - 1)]
      BY <1>1, <1>2, <2>2
    <3>2. j - (i - 1) \in 1 .. Len(s) - i /\ i + (j - (i - 1)) = j + 1
      BY <2>2
    <3> QED
      BY <1>2, <2>2, <3>1, <3>2
  <2>3. j < i \/ j >= i
    BY <1>0
  <2> QED
    BY <2>1, <2>2, <2>3, Zenon
<1> QED
  BY <1>3, <1>4, <1>5

Versions == DOMAIN archive

Charges == [v \in Versions |-> Charge(v)]

CacheRecords == [ll : Seq(Versions), items : SUBSET Versions, curBytes : Nat]

Listed(c) == {c.ll[i] : i \in 1 .. Len(c.ll)}

\* <<x, y>>: x stands behind y in the list, so it was used before y.
Order(c) == {e \in Versions \X Versions :
                \E i, j \in 1 .. Len(c.ll) : j < i /\ e = <<c.ll[i], c.ll[j]>>}

\* List, map and curBytes describe the same entries, each once.
Consistent(c) ==
    /\ c \in CacheRecords
    /\ \A i, j \in 1 .. Len(c.ll) : c.ll[i] = c.ll[j] => i = j
    /\ c.items = Listed(c)
    /\ c.curBytes = Sum(Charges, c.items)

\* Finitely many versions, each of some size.
Priced == IsFiniteSet(Versions) /\ \A v \in Versions : Charge(v) \in Nat

\* The sum of the charges follows the set, one entry more or less.
LEMMA ChargesAdd ==
    ASSUME Priced, NEW S \in SUBSET Versions
    PROVE  /\ IsFiniteSet(S)
           /\ Sum(Charges, S) \in Nat
           /\ \A v \in S : Sum(Charges, S) = Charge(v) + Sum(Charges, S \ {v})
           /\ \A v \in Versions \ S : Sum(Charges, S \cup {v}) = Charge(v) + Sum(Charges, S)
<1>1. IsFiniteSet(S) /\ \A v \in S : Charges[v] = Charge(v) /\ Charges[v] \in Nat
  BY FS_Subset DEF Priced, Charges
<1>2. Sum(Charges, S) \in Nat
  BY <1>1, SumType
<1>3. \A v \in S : Sum(Charges, S) = Charge(v) + Sum(Charges, S \ {v})
  BY <1>1, SumRemoves
<1>4. ASSUME NEW v \in Versions \ S
      PROVE  Sum(Charges, S \cup {v}) = Charge(v) + Sum(Charges, S)
  <2> DEFINE T == S \cup {v}
  <2>1. IsFiniteSet(T) /\ \A x \in T : Charges[x] = Charge(x) /\ Charges[x] \in Nat
    BY <1>1, FS_AddElement DEF Priced, Charges
  <2>2. T \ {v} = S /\ v \in T
    BY <1>4
  <2> HIDE DEF T
  <2>3. Sum(Charges, T) = Charges[v] + Sum(Charges, T \ {v})
    BY <2>1, <2>2, SumRemoves
  <2> QED
    BY <2>1, <2>2, <2>3 DEF T
<1> QED
  BY <1>1, <1>2, <1>3, <1>4

\* evict leaves list, map and curBytes consistent and the other entries in
\* their order.
LEMMA EvictKeeps ==
    ASSUME Priced, NEW c, Consistent(c), NEW i \in 1 .. Len(c.ll)
    PROVE  /\ Consistent(evict(c, i))
           /\ evict(c, i).items = c.items \ {c.ll[i]}
           /\ Order(evict(c, i)) = {e \in Order(c) : e[1] # c.ll[i] /\ e[2] # c.ll[i]}
<1> DEFINE v == c.ll[i]
           s == Without(c.ll, i)
           d == evict(c, i)
<1>1. /\ c.ll \in Seq(Versions) /\ Len(c.ll) \in Nat /\ c.items \in SUBSET Versions
      /\ v \in Versions /\ v \in c.items /\ c.curBytes \in Nat
  BY DEF Consistent, CacheRecords, Listed
<1>2. /\ s \in Seq(Versions) /\ Len(s) = Len(c.ll) - 1
      /\ \A j \in 1 .. Len(c.ll) - 1 : s[j] = IF j < i THEN c.ll[j] ELSE c.ll[j + 1]
  BY <1>1, WithoutIs
<1>3. d.ll = s /\ d.items = c.items \ {v} /\ d.curBytes = c.curBytes - Charge(v)
      /\ d = [ll |-> s, items |-> c.items \ {v}, curBytes |-> c.curBytes - Charge(v)]
  BY DEF evict
<1>4. d.curBytes = Sum(Charges, d.items) /\ d.curBytes \in Nat
  <2>1. c.items \ {v} \in SUBSET Versions
    BY <1>1
  <2>2. Sum(Charges, c.items) = Charge(v) + Sum(Charges, c.items \ {v})
    BY <1>1, ChargesAdd
  <2>3. Sum(Charges, c.items \ {v}) \in Nat /\ Charge(v) \in Nat
    BY <1>1, <2>1, ChargesAdd DEF Priced
  <2>4. c.curBytes = Sum(Charges, c.items)
    BY DEF Consistent
  <2> QED
    BY <1>3, <2>2, <2>3, <2>4
<1> DEFINE n == Len(c.ll)
           up(j) == IF j < i THEN j ELSE j + 1
<1>5. \A j \in 1 .. n - 1 : up(j) \in 1 .. n /\ up(j) # i /\ s[j] = c.ll[up(j)]
  BY <1>1, <1>2
<1>6. \A k \in 1 .. n : k # i => \E j \in 1 .. n - 1 : up(j) = k
  <2> SUFFICES ASSUME NEW k \in 1 .. n, k # i PROVE \E j \in 1 .. n - 1 : up(j) = k
    OBVIOUS
  <2>1. CASE k < i
    <3>1. k \in 1 .. n - 1 /\ up(k) = k
      BY <1>1, <2>1
    <3> QED BY <3>1
  <2>2. CASE k > i
    <3>1. k - 1 \in 1 .. n - 1 /\ up(k - 1) = k
      BY <1>1, <2>2
    <3> QED BY <3>1
  <2> QED
    BY <1>1, <2>1, <2>2
<1>7. \A j, k \in 1 .. n - 1 : (up(j) = up(k) => j = k) /\ (j < k <=> up(j) < up(k))
  BY <1>1
<1>8. \A j, k \in 1 .. n : c.ll[j] = c.ll[k] => j = k
  BY DEF Consistent
<1>9. c.items = Listed(c)
  BY DEF Consistent
<1> HIDE DEF up, s, d
<1>10. \A j, k \in 1 .. n - 1 : s[j] = s[k] => j = k
  BY <1>5, <1>7, <1>8
<1>11. d.items = Listed(d)
  <2>1. ASSUME NEW x \in d.items PROVE x \in Listed(d)
    <3>1. PICK k \in 1 .. n : x = c.ll[k]
      BY <1>3, <1>9, <2>1 DEF Listed
    <3>2. k # i
      BY <1>3, <2>1, <3>1
    <3>3. PICK j \in 1 .. n - 1 : up(j) = k
      BY <1>6, <3>2
    <3> QED
      BY <1>2, <1>3, <1>5, <3>1, <3>3 DEF Listed
  <2>2. ASSUME NEW x \in Listed(d) PROVE x \in d.items
    <3>1. PICK j \in 1 .. n - 1 : x = s[j]
      BY <1>2, <1>3, <2>2 DEF Listed
    <3>2. x = c.ll[up(j)] /\ up(j) # i /\ up(j) \in 1 .. n
      BY <1>5, <3>1
    <3>3. x \in c.items /\ x # v
      BY <1>8, <1>9, <3>2 DEF Listed
    <3> QED
      BY <1>3, <3>3
  <2> QED
    BY <2>1, <2>2
<1>12. Consistent(d)
  BY <1>1, <1>2, <1>3, <1>4, <1>10, <1>11 DEF Consistent, CacheRecords
<1>13. Order(d) = {e \in Order(c) : e[1] # v /\ e[2] # v}
  <2>1. ASSUME NEW e \in Order(d) PROVE e \in Order(c) /\ e[1] # v /\ e[2] # v
    <3>1. PICK j, k \in 1 .. n - 1 : k < j /\ e = <<s[j], s[k]>>
      BY <1>2, <1>3, <2>1 DEF Order
    <3>2. up(k) < up(j) /\ e = <<c.ll[up(j)], c.ll[up(k)]>> /\ up(j) \in 1 .. n /\ up(k) \in 1 .. n
          /\ up(j) # i /\ up(k) # i
      BY <1>5, <1>7, <3>1
    <3>3. e \in Versions \X Versions
      BY <2>1 DEF Order
    <3>4. e \in Order(c)
      BY <3>2, <3>3 DEF Order
    <3>5. e[1] = c.ll[up(j)] /\ e[2] = c.ll[up(k)]
      BY <3>2
    <3> QED
      BY <1>8, <3>2, <3>4, <3>5
  <2>2. ASSUME NEW e \in Order(c), e[1] # v, e[2] # v PROVE e \in Order(d)
    <3>1. PICK j, k \in 1 .. n : k < j /\ e = <<c.ll[j], c.ll[k]>>
      BY <2>2 DEF Order
    <3>2. j # i /\ k # i
      BY <2>2, <3>1
    <3>3. PICK jj \in 1 .. n - 1 : up(jj) = j
      BY <1>6, <3>2
    <3>4. PICK kk \in 1 .. n - 1 : up(kk) = k
      BY <1>6, <3>2
    <3>5. kk < jj /\ e = <<s[jj], s[kk]>>
      BY <1>5, <1>7, <3>1, <3>3, <3>4
    <3>6. e \in Versions \X Versions
      BY <2>2 DEF Order
    <3> QED
      BY <1>2, <1>3, <3>5, <3>6 DEF Order
  <2> QED
    BY <2>1, <2>2
<1> QED
  BY <1>3, <1>12, <1>13 DEF d

\* PushFront of a new entry, before anything is evicted.
Pushed(c, v) ==
    [ll |-> <<v>> \o c.ll, items |-> c.items \cup {v}, curBytes |-> c.curBytes + Charge(v)]

\* PushFront of a version not in the map keeps them consistent and makes it the
\* most recently used.
LEMMA PushedKeeps ==
    ASSUME Priced, NEW c, Consistent(c), NEW v \in Versions, v \notin c.items
    PROVE  /\ Consistent(Pushed(c, v))
           /\ Len(Pushed(c, v).ll) = Len(c.ll) + 1
           /\ Pushed(c, v).ll[1] = v
           /\ \A j \in 1 .. Len(c.ll) : Pushed(c, v).ll[j + 1] = c.ll[j]
           /\ Order(Pushed(c, v)) = Order(c) \cup {<<x, v>> : x \in c.items}
<1> DEFINE s == <<v>> \o c.ll
           d == Pushed(c, v)
           n == Len(c.ll)
<1>1. /\ c.ll \in Seq(Versions) /\ n \in Nat /\ c.items \in SUBSET Versions
      /\ c.curBytes \in Nat
  BY DEF Consistent, CacheRecords
<1>2. <<v>> \in Seq(Versions) /\ Len(<<v>>) = 1 /\ <<v>>[1] = v
  OBVIOUS
<1>3. /\ s \in Seq(Versions) /\ Len(s) = 1 + n
      /\ \A j \in 1 .. 1 + n : s[j] = IF j <= 1 THEN <<v>>[j] ELSE c.ll[j - 1]
  BY <1>1, <1>2, ConcatProperties
<1> HIDE DEF s
<1>4. s[1] = v /\ \A j \in 1 .. n : s[j + 1] = c.ll[j]
  <2>1. s[1] = v
    BY <1>1, <1>2, <1>3
  <2>2. ASSUME NEW j \in 1 .. n PROVE s[j + 1] = c.ll[j]
    <3>1. j + 1 \in 1 .. 1 + n /\ ~(j + 1 <= 1) /\ (j + 1) - 1 = j
      BY <1>1
    <3> QED
      BY <1>3, <3>1
  <2> QED
    BY <2>1, <2>2
<1>5. d.ll = s /\ d.items = c.items \cup {v} /\ d.curBytes = c.curBytes + Charge(v)
      /\ d = [ll |-> s, items |-> c.items \cup {v}, curBytes |-> c.curBytes + Charge(v)]
  BY DEF Pushed, s
<1> HIDE DEF d
<1>6. d.curBytes = Sum(Charges, d.items) /\ d.curBytes \in Nat
  <2>1. Sum(Charges, c.items \cup {v}) = Charge(v) + Sum(Charges, c.items)
    BY <1>1, ChargesAdd
  <2>2. Sum(Charges, c.items) \in Nat /\ Charge(v) \in Nat
    BY <1>1, ChargesAdd DEF Priced
  <2>3. c.curBytes = Sum(Charges, c.items)
    BY DEF Consistent
  <2> QED
    BY <1>5, <2>1, <2>2, <2>3
<1>7. \A j \in 1 .. 1 + n : j = 1 \/ (j - 1 \in 1 .. n /\ s[j] = c.ll[j - 1])
  BY <1>1, <1>3
<1>8. c.items = Listed(c) /\ \A j \in 1 .. n : c.ll[j] \in c.items
  BY DEF Consistent, Listed
<1>9. \A j, k \in 1 .. n : c.ll[j] = c.ll[k] => j = k
  BY DEF Consistent
<1>10. ASSUME NEW j \in 1 .. 1 + n, NEW k \in 1 .. 1 + n, s[j] = s[k] PROVE j = k
  <2>1. CASE j = 1 /\ k = 1
    BY <2>1
  <2>2. CASE j # 1 /\ k # 1
    <3>1. j - 1 \in 1 .. n /\ k - 1 \in 1 .. n /\ c.ll[j - 1] = c.ll[k - 1]
      BY <1>7, <1>10, <2>2
    <3>2. j - 1 = k - 1
      BY <1>9, <3>1
    <3> QED
      BY <1>1, <3>2
  <2>3. CASE j = 1 /\ k # 1
    BY <1>4, <1>7, <1>8, <1>10, <2>3
  <2>4. CASE j # 1 /\ k = 1
    BY <1>4, <1>7, <1>8, <1>10, <2>4
  <2> QED
    BY <2>1, <2>2, <2>3, <2>4
<1>11. d.items = Listed(d)
  <2>1. ASSUME NEW x \in d.items PROVE x \in Listed(d)
    <3>1. CASE x = v
      <4>1. 1 \in 1 .. 1 + n
        BY <1>1
      <4> QED
        BY <1>3, <1>4, <1>5, <3>1, <4>1 DEF Listed
    <3>2. CASE x # v
      <4>1. PICK j \in 1 .. n : x = c.ll[j]
        BY <1>5, <1>8, <2>1, <3>2 DEF Listed
      <4>2. j + 1 \in 1 .. 1 + n
        BY <1>1
      <4> QED
        BY <1>3, <1>4, <1>5, <4>1, <4>2 DEF Listed
    <3> QED
      BY <3>1, <3>2
  <2>2. ASSUME NEW x \in Listed(d) PROVE x \in d.items
    <3>1. PICK j \in 1 .. 1 + n : x = s[j]
      BY <1>3, <1>5, <2>2 DEF Listed
    <3> QED
      BY <1>4, <1>5, <1>7, <1>8, <3>1
  <2> QED
    BY <2>1, <2>2
<1>12. Consistent(d)
  BY <1>1, <1>3, <1>5, <1>6, <1>10, <1>11 DEF Consistent, CacheRecords
<1>13. ASSUME NEW e \in Order(d) PROVE e \in Order(c) \cup {<<x, v>> : x \in c.items}
  <2>1. PICK i, j \in 1 .. 1 + n : j < i /\ e = <<s[i], s[j]>>
    BY <1>3, <1>5, <1>13 DEF Order
  <2>2. i # 1 /\ i - 1 \in 1 .. n /\ s[i] = c.ll[i - 1]
    BY <1>1, <1>7, <2>1
  <2>3. CASE j = 1
    BY <1>4, <1>8, <2>1, <2>2, <2>3
  <2>4. CASE j # 1
    <3>1. j - 1 \in 1 .. n /\ s[j] = c.ll[j - 1] /\ j - 1 < i - 1
      BY <1>1, <1>7, <2>1, <2>4
    <3>2. e \in Versions \X Versions
      BY <1>13 DEF Order
    <3> QED
      BY <2>1, <2>2, <3>1, <3>2 DEF Order
  <2> QED
    BY <2>3, <2>4
<1>14. ASSUME NEW e \in Order(c) \cup {<<x, v>> : x \in c.items} PROVE e \in Order(d)
  <2>1. CASE e \in Order(c)
    <3>1. PICK i, j \in 1 .. n : j < i /\ e = <<c.ll[i], c.ll[j]>>
      BY <2>1 DEF Order
    <3>2. i + 1 \in 1 .. 1 + n /\ j + 1 \in 1 .. 1 + n /\ j + 1 < i + 1
          /\ e = <<s[i + 1], s[j + 1]>>
      BY <1>1, <1>4, <3>1
    <3>3. e \in Versions \X Versions
      BY <2>1 DEF Order
    <3> QED
      BY <1>3, <1>5, <3>2, <3>3 DEF Order
  <2>2. CASE e \in {<<x, v>> : x \in c.items}
    <3>1. PICK x \in c.items : e = <<x, v>>
      BY <2>2
    <3>2. PICK i \in 1 .. n : x = c.ll[i]
      BY <1>8 DEF Listed
    <3>3. i + 1 \in 1 .. 1 + n /\ 1 \in 1 .. 1 + n /\ 1 < i + 1 /\ e = <<s[i + 1], s[1]>>
      BY <1>1, <1>4, <3>1, <3>2
    <3>4. e \in Versions \X Versions
      BY <1>1, <3>1
    <3> QED
      BY <1>3, <1>5, <3>3, <3>4 DEF Order
  <2> QED
    BY <1>14, <2>1, <2>2
<1>15. Order(d) = Order(c) \cup {<<x, v>> : x \in c.items}
  BY <1>13, <1>14
<1>16. Len(d.ll) = n + 1
  BY <1>1, <1>3, <1>5
<1> QED
  BY <1>4, <1>5, <1>12, <1>15, <1>16 DEF d

\* The element the map points to is in the list.
LEMMA PositionIs ==
    ASSUME NEW c, Consistent(c), NEW v \in c.items
    PROVE  Position(c, v) \in 1 .. Len(c.ll) /\ c.ll[Position(c, v)] = v
<1>1. c.ll \in Seq(Versions) /\ DOMAIN c.ll = 1 .. Len(c.ll) /\ Len(c.ll) \in Nat
  BY DEF Consistent, CacheRecords
<1>2. PICK i \in 1 .. Len(c.ll) : c.ll[i] = v
  BY DEF Consistent, Listed
<1>3. \A j \in 1 .. i - 1 : c.ll[j] # v
  BY <1>1, <1>2 DEF Consistent
<1> QED
  BY <1>1, <1>2, <1>3 DEF Position

\* MoveToFront, of get and of put, reorders the list and changes nothing else.
LEMMA MoveToFrontKeeps ==
    ASSUME Priced, NEW c, Consistent(c), NEW v \in c.items
    PROVE  /\ Consistent(MoveToFront(c, v))
           /\ MoveToFront(c, v).items = c.items
           /\ MoveToFront(c, v).curBytes = c.curBytes
           /\ Order(MoveToFront(c, v)) = {e \in Order(c) : e[1] # v /\ e[2] # v}
                                         \cup {<<x, v>> : x \in c.items \ {v}}
<1> DEFINE i == Position(c, v)
           d == evict(c, i)
<1>1. i \in 1 .. Len(c.ll) /\ c.ll[i] = v
  BY PositionIs
<1>2. /\ Consistent(d) /\ d.items = c.items \ {v}
      /\ Order(d) = {e \in Order(c) : e[1] # v /\ e[2] # v}
  BY <1>1, EvictKeeps
<1>3. v \in Versions /\ Charge(v) \in Nat /\ c \in CacheRecords /\ c.curBytes \in Int
  BY DEF Consistent, CacheRecords, Priced
<1>4. MoveToFront(c, v) = Pushed(d, v)
  <2> DEFINE s == <<v>> \o Without(c.ll, i)
  <2>1. MoveToFront(c, v) = [ll |-> s, items |-> c.items, curBytes |-> c.curBytes]
    <3>1. MoveToFront(c, v) = [c EXCEPT !.ll = s]
      BY DEF MoveToFront
    <3> HIDE DEF s
    <3> QED
      BY <1>3, <3>1 DEF CacheRecords
  <2>2. d.ll = Without(c.ll, i) /\ d.curBytes = c.curBytes - Charge(v)
    BY <1>1 DEF evict
  <2>3. (c.items \ {v}) \cup {v} = c.items /\ (c.curBytes - Charge(v)) + Charge(v) = c.curBytes
    BY <1>3
  <2> QED
    BY <1>2, <2>1, <2>2, <2>3 DEF Pushed
<1>5. v \notin d.items
  BY <1>2
<1> HIDE DEF d
<1>6. Consistent(Pushed(d, v)) /\ Order(Pushed(d, v)) = Order(d) \cup {<<x, v>> : x \in d.items}
  BY <1>2, <1>3, <1>5, PushedKeeps
<1>7. MoveToFront(c, v).items = c.items /\ MoveToFront(c, v).curBytes = c.curBytes
  BY <1>3 DEF MoveToFront, CacheRecords
<1> QED
  BY <1>2, <1>4, <1>6, <1>7

\* The cache after k evictions from the back.
Cut(c, k) ==
    LET some == {c.ll[i] : i \in 1 .. Len(c.ll) - k} IN
    [ll |-> SubSeq(c.ll, 1, Len(c.ll) - k), items |-> some, curBytes |-> Sum(Charges, some)]

\* It is consistent and keeps the front of the list.
LEMMA CutIs ==
    ASSUME Priced, NEW c, Consistent(c), NEW k \in 0 .. Len(c.ll)
    PROVE  /\ Consistent(Cut(c, k))
           /\ Len(Cut(c, k).ll) = Len(c.ll) - k
           /\ \A i \in 1 .. Len(c.ll) - k : Cut(c, k).ll[i] = c.ll[i]
           /\ Cut(c, k).items = {c.ll[i] : i \in 1 .. Len(c.ll) - k}
<1> DEFINE n == Len(c.ll)
           some == {c.ll[i] : i \in 1 .. n - k}
           s == SubSeq(c.ll, 1, n - k)
           d == Cut(c, k)
<1>1. c.ll \in Seq(Versions) /\ n \in Nat /\ \A i \in 1 .. n : c.ll[i] \in Versions
  BY DEF Consistent, CacheRecords
<1>2. s \in Seq(Versions) /\ Len(s) = n - k /\ \A i \in 1 .. n - k : s[i] = c.ll[i]
  BY <1>1
<1>3. some \in SUBSET Versions
  BY <1>1
<1>4. Sum(Charges, some) \in Nat
  <2> HIDE DEF some
  <2> QED BY <1>3, ChargesAdd
<1>5. d = [ll |-> s, items |-> some, curBytes |-> Sum(Charges, some)]
  BY DEF Cut
<1>6. d.ll = s /\ d.items = some /\ d.curBytes = Sum(Charges, some)
  BY <1>5
<1> HIDE DEF s, d
<1>7. \A i, j \in 1 .. n - k : s[i] = s[j] => i = j
  BY <1>1, <1>2 DEF Consistent
<1>8. some = {s[i] : i \in 1 .. n - k}
  BY <1>2
<1> HIDE DEF some
<1>9. Consistent(d)
  <2>1. d \in CacheRecords
    BY <1>2, <1>3, <1>4, <1>5 DEF CacheRecords
  <2>2. Listed(d) = some /\ Len(d.ll) = n - k
    BY <1>2, <1>6, <1>8 DEF Listed
  <2>3. \A i, j \in 1 .. Len(d.ll) : d.ll[i] = d.ll[j] => i = j
    BY <1>6, <1>7, <2>2
  <2> QED
    BY <1>6, <2>1, <2>2, <2>3 DEF Consistent
<1> QED
  BY <1>2, <1>6, <1>9 DEF d, some

\* No eviction, no change.
LEMMA CutNothing ==
    ASSUME NEW c, Consistent(c)
    PROVE  Cut(c, 0) = c
<1> DEFINE n == Len(c.ll)
<1>1. c.ll \in Seq(Versions) /\ n \in Nat /\ n - 0 = n /\ c \in CacheRecords
  BY DEF Consistent, CacheRecords
<1>2. SubSeq(c.ll, 1, n - 0) = c.ll
  BY <1>1
<1>3. c.items = {c.ll[i] : i \in 1 .. n - 0} /\ c.curBytes = Sum(Charges, c.items)
  BY <1>1 DEF Consistent, Listed
<1>4. Cut(c, 0) = [ll |-> c.ll, items |-> c.items, curBytes |-> c.curBytes]
  BY <1>2, <1>3 DEF Cut
<1> QED
  BY <1>1, <1>4 DEF CacheRecords

\* One eviction from the back more.
LEMMA CutOneMore ==
    ASSUME Priced, NEW c, Consistent(c), NEW k \in 1 .. Len(c.ll)
    PROVE  evict(Cut(c, k - 1), Len(c.ll) - k + 1) = Cut(c, k)
<1> DEFINE n == Len(c.ll)
           b == Cut(c, k - 1)
           d == Cut(c, k)
           i == n - k + 1
           e == evict(b, i)
<1>1. n \in Nat /\ k - 1 \in 0 .. n /\ k \in 0 .. n /\ i \in 1 .. n /\ n - (k - 1) = i
      /\ c.ll \in Seq(Versions)
  BY DEF Consistent, CacheRecords
<1>2. /\ Consistent(b) /\ Len(b.ll) = i /\ \A j \in 1 .. i : b.ll[j] = c.ll[j]
      /\ b.items = {c.ll[j] : j \in 1 .. i}
  <2> DEFINE m == k - 1
  <2> SUFFICES /\ Consistent(Cut(c, m)) /\ Len(Cut(c, m).ll) = n - m
               /\ \A j \in 1 .. n - m : Cut(c, m).ll[j] = c.ll[j]
               /\ Cut(c, m).items = {c.ll[j] : j \in 1 .. n - m}
    BY <1>1
  <2>1. m \in 0 .. n
    BY <1>1
  <2> HIDE DEF m
  <2> QED
    BY <2>1, CutIs
<1>3. /\ Consistent(d) /\ Len(d.ll) = n - k /\ \A j \in 1 .. n - k : d.ll[j] = c.ll[j]
      /\ d.items = {c.ll[j] : j \in 1 .. n - k}
  BY <1>1, CutIs
<1> HIDE DEF b, d
<1>4. Consistent(e) /\ e.items = b.items \ {b.ll[i]} /\ e.ll = Without(b.ll, i)
  <2>1. i \in 1 .. Len(b.ll)
    BY <1>1, <1>2
  <2>2. Consistent(e) /\ e.items = b.items \ {b.ll[i]}
    BY <1>2, <2>1, EvictKeeps
  <2> QED
    BY <2>2 DEF evict
<1>5. /\ b.ll \in Seq(Versions)
      /\ e.ll \in Seq(Versions) /\ Len(e.ll) = i - 1
      /\ \A j \in 1 .. i - 1 : e.ll[j] = b.ll[j]
  <2>1. b.ll \in Seq(Versions)
    BY <1>2 DEF Consistent, CacheRecords
  <2>2. i \in 1 .. Len(b.ll)
    BY <1>1, <1>2
  <2>3. /\ Without(b.ll, i) \in Seq(Versions) /\ Len(Without(b.ll, i)) = Len(b.ll) - 1
        /\ \A j \in 1 .. Len(b.ll) - 1 :
              Without(b.ll, i)[j] = IF j < i THEN b.ll[j] ELSE b.ll[j + 1]
    BY <2>1, <2>2, WithoutIs
  <2> HIDE DEF e, i
  <2> QED
    BY <1>1, <1>2, <1>4, <2>1, <2>3
<1>6. e.items = d.items
  <2>1. \A j \in 1 .. n - k : j \in 1 .. i /\ j # i
    BY <1>1
  <2>2. \A j \in 1 .. i : j # i => j \in 1 .. n - k
    BY <1>1
  <2>3. \A j \in 1 .. i : c.ll[j] = c.ll[i] => j = i
    BY <1>1 DEF Consistent
  <2>4. b.ll[i] = c.ll[i]
    BY <1>1, <1>2
  <2> HIDE DEF e, i
  <2> QED
    BY <1>2, <1>3, <1>4, <2>1, <2>2, <2>3, <2>4
<1>7. e.ll = d.ll
  <2>1. d.ll \in Seq(Versions)
    BY <1>3 DEF Consistent, CacheRecords
  <2>4. i - 1 = n - k /\ \A j \in 1 .. i - 1 : j \in 1 .. i
    BY <1>1
  <2> HIDE DEF e, i
  <2>2. Len(e.ll) = Len(d.ll)
    BY <1>3, <1>5, <2>4
  <2>3. \A j \in 1 .. Len(e.ll) : e.ll[j] = d.ll[j]
    BY <1>2, <1>3, <1>5, <2>4
  <2> QED
    BY <1>5, <2>1, <2>2, <2>3, SeqEqual
<1>8. e.curBytes = d.curBytes
  BY <1>3, <1>4, <1>6 DEF Consistent
<1>9. e \in CacheRecords /\ d \in CacheRecords
  BY <1>3, <1>4 DEF Consistent
<1> QED
  <2> HIDE DEF e
  <2>1. e = d
    BY <1>6, <1>7, <1>8, <1>9 DEF CacheRecords
  <2> QED
    BY <2>1 DEF e, d, b

\* g[k] is what k turns of the eviction loop leave.
Evicts(g, c) == g = [k \in 0 .. Len(c.ll) |->
                        IF k = 0 THEN c ELSE evict(g[k - 1], Len(c.ll) - k + 1)]

\* Every turn of the loop cuts one entry off the back.
LEMMA EvictsCuts ==
    ASSUME Priced, NEW c, Consistent(c), NEW g, Evicts(g, c)
    PROVE  \A k \in 0 .. Len(c.ll) : g[k] = Cut(c, k)
<1> DEFINE n == Len(c.ll)
           P == {k \in Nat : k \in 0 .. n => g[k] = Cut(c, k)}
<1>1. n \in Nat
  BY DEF Consistent, CacheRecords
<1>2. 0 \in P
  <2>1. 0 \in 0 .. n => g[0] = c
    BY DEF Evicts
  <2> QED
    BY <2>1, CutNothing
<1>3. ASSUME NEW k \in Nat, k \in P PROVE k + 1 \in P
  <2> SUFFICES ASSUME k + 1 \in 0 .. n PROVE g[k + 1] = Cut(c, k + 1)
    OBVIOUS
  <2> DEFINE m == k + 1
  <2>1. m \in 1 .. n /\ m # 0 /\ m - 1 = k /\ k \in 0 .. n
    BY <1>1
  <2>2. g[m] = evict(g[m - 1], n - m + 1)
    BY <2>1 DEF Evicts
  <2>3. g[m - 1] = Cut(c, m - 1)
    BY <1>3, <2>1
  <2> HIDE DEF m
  <2>4. evict(Cut(c, m - 1), n - m + 1) = Cut(c, m)
    BY <2>1, CutOneMore
  <2>5. g[m] = Cut(c, m)
    BY <2>2, <2>3, <2>4
  <2> QED
    BY <2>5 DEF m
<1>4. \A k \in Nat : k \in P
  <2> HIDE DEF P
  <2> QED BY <1>2, <1>3, CountingInduction
<1> QED
  BY <1>1, <1>4

\* There is such a function.
LEMMA CutsEvict ==
    ASSUME Priced, NEW c, Consistent(c)
    PROVE  \E g : Evicts(g, c)
<1> DEFINE n == Len(c.ll)
           g == [k \in 0 .. n |-> Cut(c, k)]
<1>1. n \in Nat
  BY DEF Consistent, CacheRecords
<1>2. ASSUME NEW k \in 0 .. n
      PROVE  g[k] = IF k = 0 THEN c ELSE evict(g[k - 1], n - k + 1)
  <2>1. CASE k = 0
    BY <2>1, CutNothing
  <2>2. CASE k # 0
    <3>1. k \in 1 .. n /\ k - 1 \in 0 .. n
      BY <1>1, <2>2
    <3>2. evict(Cut(c, k - 1), n - k + 1) = Cut(c, k)
      BY <3>1, CutOneMore
    <3> QED
      BY <2>2, <3>1, <3>2
  <2> QED
    BY <2>1, <2>2
<1>3. g = [k \in 0 .. n |-> IF k = 0 THEN c ELSE evict(g[k - 1], n - k + 1)]
  BY <1>2
<1>4. Evicts(g, c)
  <2> HIDE DEF g
  <2> QED BY <1>3 DEF Evicts
<1> QED
  BY <1>4

\* The condition of the loop does not hold any more.
Enough(c, k) == Cut(c, k).curBytes <= maxBytes \/ k = Len(c.ll)

\* The loop of put stops, at the first k at which the budget holds: it evicts
\* from the back, and no more than it has to.
LEMMA ShrinkCuts ==
    ASSUME Priced, NEW c, Consistent(c)
    PROVE  \E k \in 0 .. Len(c.ll) : /\ Shrink(c) = Cut(c, k) /\ Enough(c, k)
                                     /\ \A j \in 0 .. k - 1 : ~Enough(c, j)
<1> DEFINE n == Len(c.ll)
           after == CHOOSE g : Evicts(g, c)
           enough(k) == after[k].curBytes <= maxBytes \/ k = n
           first == CHOOSE k \in 0 .. n : enough(k) /\ \A j \in 0 .. k - 1 : ~enough(j)
<1>1. Shrink(c) = after[first]
  BY DEF Shrink, Evicts
<1>2. Evicts(after, c)
  BY CutsEvict
<1> HIDE DEF after
<1>3. \A k \in 0 .. n : after[k] = Cut(c, k)
  BY <1>2, EvictsCuts
<1>4. n \in Nat
  BY DEF Consistent, CacheRecords
<1>5. \A k \in 0 .. n : enough(k) <=> Enough(c, k)
  BY <1>3 DEF Enough
<1>6. enough(n)
  OBVIOUS
<1> HIDE DEF enough
<1>7. first \in 0 .. n /\ enough(first) /\ \A j \in 0 .. first - 1 : ~enough(j)
  <2> DEFINE T == {k \in 0 .. n : enough(k)}
  <2>1. T \subseteq Nat /\ T # {}
    BY <1>4, <1>6
  <2>2. PICK k \in T : \A j \in T : k <= j
    <3> HIDE DEF T
    <3> QED BY <2>1, LeastNat
  <2>3. k \in 0 .. n /\ enough(k) /\ \A j \in 0 .. k - 1 : ~enough(j)
    BY <1>4, <2>2
  <2> QED
    BY <2>3
<1> HIDE DEF first
<1>8. \A j \in 0 .. first - 1 : j \in 0 .. n
  BY <1>4, <1>7
<1> QED
  BY <1>1, <1>3, <1>5, <1>7, <1>8

\* The entries left keep their order.
LEMMA CutOrder ==
    ASSUME Priced, NEW c, Consistent(c), NEW k \in 0 .. Len(c.ll)
    PROVE  Order(Cut(c, k)) = {e \in Order(c) : e[1] \in Cut(c, k).items /\ e[2] \in Cut(c, k).items}
<1> DEFINE n == Len(c.ll)
           d == Cut(c, k)
<1>1. n \in Nat
  BY DEF Consistent, CacheRecords
<1>2. /\ Len(d.ll) = n - k /\ \A i \in 1 .. n - k : d.ll[i] = c.ll[i]
      /\ d.items = {c.ll[i] : i \in 1 .. n - k}
  BY CutIs
<1> HIDE DEF d
<1>3. \A i, j \in 1 .. n : c.ll[i] = c.ll[j] => i = j
  BY DEF Consistent
<1>4. \A i \in 1 .. n - k : i \in 1 .. n
  BY <1>1
<1>5. ASSUME NEW e \in Order(d)
      PROVE  e \in Order(c) /\ e[1] \in d.items /\ e[2] \in d.items
  <2>1. PICK i, j \in 1 .. n - k : j < i /\ e = <<c.ll[i], c.ll[j]>>
    BY <1>2, <1>5 DEF Order
  <2>2. e \in Versions \X Versions
    BY <1>5 DEF Order
  <2> QED
    BY <1>2, <1>4, <2>1, <2>2 DEF Order
<1>6. ASSUME NEW e \in Order(c), e[1] \in d.items, e[2] \in d.items PROVE e \in Order(d)
  <2>1. PICK i, j \in 1 .. n : j < i /\ e = <<c.ll[i], c.ll[j]>>
    BY <1>6 DEF Order
  <2>2. i \in 1 .. n - k /\ j \in 1 .. n - k
    <3>1. PICK a \in 1 .. n - k : e[1] = c.ll[a]
      BY <1>2, <1>6
    <3>2. PICK b \in 1 .. n - k : e[2] = c.ll[b]
      BY <1>2, <1>6
    <3>3. a = i /\ b = j
      BY <1>3, <1>4, <2>1, <3>1, <3>2
    <3> QED
      BY <3>3
  <2>3. e \in Versions \X Versions
    BY <1>6 DEF Order
  <2> QED
    BY <1>2, <2>1, <2>2, <2>3 DEF Order
<1> QED
  BY <1>5, <1>6 DEF d

\* What is cached fits the budget.
Frugal(c) == c.items # {} => maxBytes > 0 /\ c.curBytes <= maxBytes

\* The order of last use after v was used, as Used has it.
UsedLast(c, old, v) ==
    {e \in old : e[1] # v /\ {e[1], e[2]} \subseteq c.items}
    \cup {<<x, v>> : x \in {x \in c.items \ {v} : v \in c.items}}

\* What EvictsOldest asks of a put, said of two states of the cache.
OldestOut(c, d) ==
    LET out == c.items \ d.items IN
    out # {} =>
        /\ \A x \in out, y \in c.items \cap d.items : <<x, y>> \in Order(c)
        /\ \A x \in out : (\A z \in out \ {x} : <<z, x>> \in Order(c))
                           => d.curBytes + Charge(x) > maxBytes
        /\ \E v \in d.items \ c.items : TRUE

\* Inserting a version that fits keeps the cache consistent and within budget,
\* keeps the version, and takes out the least recently used entries only.
LEMMA InsertKeeps ==
    ASSUME Priced, maxBytes \in Int, NEW c, Consistent(c), NEW v \in Versions, v \notin c.items,
           maxBytes > 0, Charge(v) <= maxBytes
    PROVE  LET d == Insert(c, v) IN
           /\ Consistent(d) /\ Frugal(d) /\ d.items \subseteq c.items \cup {v}
           /\ Order(d) = UsedLast(d, Order(c), v)
           /\ OldestOut(c, d)
<1> DEFINE p == Pushed(c, v)
           n == Len(p.ll)
           d == Insert(c, v)
<1>1. d = Shrink(p)
  BY DEF Insert, Pushed
<1>2. /\ Consistent(p) /\ n = Len(c.ll) + 1 /\ p.ll[1] = v
      /\ \A j \in 1 .. Len(c.ll) : p.ll[j + 1] = c.ll[j]
      /\ Order(p) = Order(c) \cup {<<x, v>> : x \in c.items}
      /\ p.items = c.items \cup {v}
  <2>1. p.items = c.items \cup {v}
    BY DEF Pushed
  <2> QED
    BY <2>1, PushedKeeps
<1> HIDE DEF p
<1>3. PICK k \in 0 .. n : /\ Shrink(p) = Cut(p, k) /\ Enough(p, k)
                          /\ \A j \in 0 .. k - 1 : ~Enough(p, j)
  BY <1>2, ShrinkCuts
<1>4. Len(c.ll) \in Nat /\ n \in Nat /\ n >= 1
  BY <1>2 DEF Consistent, CacheRecords
<1>5. k <= n - 1
  <2> DEFINE m == n - 1
  <2>1. m \in 0 .. n /\ n - m = 1 /\ 1 .. 1 = {1}
    BY <1>4
  <2>2. Consistent(Cut(p, m)) /\ Cut(p, m).items = {p.ll[i] : i \in 1 .. n - m}
    <3> HIDE DEF m
    <3> QED BY <1>2, <2>1, CutIs
  <2>3. Cut(p, m).items = {v}
    <3> HIDE DEF m
    <3> QED BY <1>2, <2>1, <2>2
  <2>4. Cut(p, m).curBytes = Sum(Charges, {v})
    BY <2>2, <2>3 DEF Consistent
  <2>5. Sum(Charges, {v}) = Charge(v)
    <3>1. {v} \in SUBSET Versions /\ v \in {v} /\ {v} \ {v} = {}
      OBVIOUS
    <3>2. Sum(Charges, {v}) = Charge(v) + Sum(Charges, {v} \ {v})
      BY <3>1, ChargesAdd
    <3>3. Sum(Charges, {}) = 0
      BY FS_EmptySet, SumStep
    <3>4. Charge(v) \in Nat
      BY DEF Priced
    <3>5. Sum(Charges, {v}) = Charge(v) + 0
      BY <3>1, <3>2, <3>3
    <3> QED
      BY <3>4, <3>5
  <2>6. Enough(p, m)
    BY <2>4, <2>5 DEF Enough
  <2> QED
    BY <1>3, <1>4, <2>6
<1>6. /\ Consistent(d) /\ d.items = {p.ll[i] : i \in 1 .. n - k}
      /\ Order(d) = {e \in Order(p) : e[1] \in d.items /\ e[2] \in d.items}
      /\ d = Cut(p, k)
  <2>1. d = Cut(p, k)
    BY <1>1, <1>3
  <2>2. Consistent(Cut(p, k)) /\ Cut(p, k).items = {p.ll[i] : i \in 1 .. n - k}
    BY <1>2, CutIs
  <2>3. Order(Cut(p, k)) = {e \in Order(p) : e[1] \in Cut(p, k).items /\ e[2] \in Cut(p, k).items}
    BY <1>2, CutOrder
  <2> HIDE DEF d
  <2> QED
    BY <2>1, <2>2, <2>3
<1> HIDE DEF d
<1>7. n - k >= 1 /\ v \in d.items
  <2>1. 1 \in 1 .. n - k
    BY <1>4, <1>5
  <2> QED
    BY <1>2, <1>6, <2>1, <1>4, <1>5
<1>8. d.items \subseteq c.items \cup {v}
  <2>1. \A i \in 1 .. n - k : i \in 1 .. n
    BY <1>4
  <2>2. \A i \in 1 .. n : p.ll[i] \in p.items
    BY <1>2 DEF Consistent, Listed
  <2> QED
    BY <1>2, <1>6, <2>1, <2>2
<1>9. Frugal(d)
  BY <1>3, <1>4, <1>5, <1>6 DEF Frugal, Enough
<1>10. Order(d) = UsedLast(d, Order(c), v)
  <2>1. \A e \in Order(c) : e[1] \in c.items /\ e[2] \in c.items
    BY DEF Order, Consistent, Listed
  <2>2. ASSUME NEW e \in Order(d) PROVE e \in UsedLast(d, Order(c), v)
    <3>1. CASE e \in Order(c)
      BY <1>6, <2>1, <2>2, <3>1 DEF UsedLast
    <3>2. CASE e \in {<<x, v>> : x \in c.items}
      BY <1>6, <1>7, <2>2, <3>2 DEF UsedLast
    <3> QED
      BY <1>2, <1>6, <2>2, <3>1, <3>2
  <2>3. ASSUME NEW e \in UsedLast(d, Order(c), v) PROVE e \in Order(d)
    <3>1. CASE e \in Order(c) /\ e[1] \in d.items /\ e[2] \in d.items
      BY <1>2, <1>6, <3>1
    <3>2. CASE e \in {<<x, v>> : x \in d.items \ {v}}
      <4>1. PICK x \in d.items \ {v} : e = <<x, v>>
        BY <3>2
      <4>2. x \in c.items /\ e[1] = x /\ e[2] = v
        BY <1>8, <4>1
      <4> QED
        BY <1>2, <1>6, <1>7, <4>1, <4>2
    <3> QED
      BY <1>7, <2>3, <3>1, <3>2 DEF UsedLast
  <2> QED
    BY <2>2, <2>3
<1> DEFINE out == c.items \ d.items
<1>11. \A x \in out : \E i \in 1 .. n : x = p.ll[i] /\ i > n - k /\ x # v
  <2> SUFFICES ASSUME NEW x \in out
               PROVE  \E i \in 1 .. n : x = p.ll[i] /\ i > n - k /\ x # v
    OBVIOUS
  <2>1. x \in p.items
    BY <1>2
  <2>2. PICK i \in 1 .. n : x = p.ll[i]
    BY <1>2, <2>1 DEF Consistent, Listed
  <2>3. i > n - k
    BY <1>4, <1>6, <2>2
  <2> QED
    BY <2>2, <2>3
<1>12. \A i, j \in 1 .. n : p.ll[i] = p.ll[j] => i = j
  BY <1>2 DEF Consistent
<1>13. \A i, j \in 1 .. n : j < i => <<p.ll[i], p.ll[j]>> \in Order(p)
  <2>1. \A i \in 1 .. n : p.ll[i] \in Versions
    BY <1>2 DEF Consistent, CacheRecords, Listed
  <2> QED
    BY <2>1 DEF Order
<1>14. ASSUME NEW x \in out, NEW y \in c.items \cap d.items PROVE <<x, y>> \in Order(c)
  <2>1. PICK i \in 1 .. n : x = p.ll[i] /\ i > n - k
    BY <1>11
  <2>2. PICK j \in 1 .. n - k : y = p.ll[j]
    BY <1>6
  <2>3. j \in 1 .. n /\ j < i
    BY <1>4, <2>1, <2>2
  <2>4. <<x, y>> \in Order(p)
    BY <1>13, <2>1, <2>2, <2>3
  <2> QED
    BY <1>2, <2>4
<1>15. ASSUME NEW x \in out, \A z \in out \ {x} : <<z, x>> \in Order(c)
       PROVE  d.curBytes + Charge(x) > maxBytes
  <2> DEFINE a == n - k + 1
             w == p.ll[a]
  <2>1. PICK i \in 1 .. n : x = p.ll[i] /\ i > n - k
    BY <1>11
  <2>2. k >= 1 /\ a \in 1 .. n /\ a >= 2 /\ a > n - k
    BY <1>4, <1>7, <2>1
  <2> HIDE DEF a
  <2>3. w \in p.items /\ w # v /\ w \notin d.items
    <3>1. w \in p.items
      BY <1>2, <2>2 DEF Consistent, Listed
    <3>2. 1 \in 1 .. n /\ 1 # a
      BY <1>4, <2>2
    <3>3. w # v
      BY <1>2, <1>12, <2>2, <3>2
    <3>4. \A j \in 1 .. n - k : j \in 1 .. n /\ j # a
      BY <1>4, <2>2
    <3>5. w \notin d.items
      BY <1>6, <1>12, <2>2, <3>4
    <3> QED
      BY <3>1, <3>3, <3>5
  <2>4. w \in out
    BY <1>2, <2>3
  <2>5. x = w
    <3> SUFFICES ASSUME x # w PROVE FALSE
      OBVIOUS
    <3>1. <<w, x>> \in Order(p)
      BY <1>2, <1>15, <2>4
    <3>2. PICK ii, jj \in 1 .. n : jj < ii /\ <<w, x>> = <<p.ll[ii], p.ll[jj]>>
      BY <3>1 DEF Order
    <3>3. ii = a /\ jj = i
      BY <1>12, <2>1, <2>2, <3>2
    <3> QED
      BY <1>4, <2>1, <3>2, <3>3 DEF a
  <2> DEFINE b == Cut(p, k - 1)
  <2>6. k \in 1 .. n /\ k - 1 \in 0 .. k - 1 /\ k - 1 \in 0 .. n /\ k - 1 # n
        /\ n - (k - 1) = a /\ a \in 1 .. a
    BY <1>4, <2>2 DEF a
  <2>7. evict(b, a) = d
    BY <1>2, <1>6, <2>6, CutOneMore DEF a
  <2>8. b.ll[a] = w /\ Consistent(b)
    <3> DEFINE m == k - 1
    <3>1. m \in 0 .. n /\ n - m = a
      BY <2>6
    <3> HIDE DEF m
    <3>2. Consistent(Cut(p, m)) /\ \A j \in 1 .. n - m : Cut(p, m).ll[j] = p.ll[j]
      BY <1>2, <3>1, CutIs
    <3> QED
      BY <2>6, <3>1, <3>2 DEF m
  <2>9. ~(b.curBytes <= maxBytes)
    BY <1>3, <2>6 DEF Enough
  <2>10. d.curBytes = b.curBytes - Charge(w)
    <3> HIDE DEF b, w
    <3> QED BY <2>7, <2>8 DEF evict
  <2>11. b.curBytes \in Nat /\ Charge(w) \in Nat
    <3>1. w \in Versions
      BY <1>2, <2>3 DEF Consistent, CacheRecords
    <3> HIDE DEF b, w
    <3> QED BY <2>8, <3>1 DEF Consistent, CacheRecords, Priced
  <2> HIDE DEF b, w
  <2> QED
    BY <2>5, <2>9, <2>10, <2>11
<1>16. \E w \in d.items \ c.items : TRUE
  BY <1>7
<1>17. OldestOut(c, d)
  <2> HIDE DEF n
  <2> QED
    BY <1>14, <1>15, <1>16 DEF OldestOut
<1> QED
  BY <1>6, <1>8, <1>9, <1>10, <1>17 DEF d

\* The same of put, which refuses a version over budget and only moves one that
\* a concurrent request has put first.
LEMMA PutKeeps ==
    ASSUME Priced, maxBytes \in Int, NEW c, Consistent(c), Frugal(c), NEW v \in Versions
    PROVE  LET d == put(c, v) IN
           /\ Consistent(d) /\ Frugal(d) /\ d.items \subseteq c.items \cup {v}
           /\ Order(d) = UsedLast(d, Order(c), v)
           /\ OldestOut(c, d)
<1>1. \A e \in Order(c) : e[1] \in c.items /\ e[2] \in c.items
  BY DEF Order, Consistent, Listed
<1>2. v \in c.items => maxBytes > 0 /\ Charge(v) <= maxBytes
  <2> SUFFICES ASSUME v \in c.items PROVE maxBytes > 0 /\ Charge(v) <= maxBytes
    OBVIOUS
  <2>1. maxBytes > 0 /\ c.curBytes <= maxBytes
    BY DEF Frugal
  <2>2. c.items \in SUBSET Versions /\ c.items \ {v} \in SUBSET Versions
        /\ c.curBytes = Sum(Charges, c.items)
    BY DEF Consistent, CacheRecords
  <2>3. Sum(Charges, c.items) = Charge(v) + Sum(Charges, c.items \ {v})
    BY <2>2, ChargesAdd
  <2>4. Sum(Charges, c.items \ {v}) \in Nat /\ Charge(v) \in Nat
    BY <2>2, ChargesAdd DEF Priced
  <2> QED
    BY <2>1, <2>2, <2>3, <2>4
<1>3. CASE maxBytes <= 0 \/ Charge(v) > maxBytes
  <2>1. put(c, v) = c /\ v \notin c.items
    BY <1>2, <1>3 DEF put, Priced
  <2>2. Order(c) = UsedLast(c, Order(c), v)
    BY <1>1, <2>1 DEF UsedLast
  <2>3. OldestOut(c, c)
    BY DEF OldestOut
  <2> QED
    BY <2>1, <2>2, <2>3
<1>4. CASE ~(maxBytes <= 0 \/ Charge(v) > maxBytes) /\ v \in c.items
  <2> DEFINE d == MoveToFront(c, v)
  <2>1. put(c, v) = d
    BY <1>4 DEF put
  <2>2. /\ Consistent(d) /\ d.items = c.items /\ d.curBytes = c.curBytes
        /\ Order(d) = {e \in Order(c) : e[1] # v /\ e[2] # v}
                      \cup {<<x, v>> : x \in c.items \ {v}}
    BY <1>4, MoveToFrontKeeps
  <2> HIDE DEF d
  <2>3. Order(d) = UsedLast(d, Order(c), v)
    <3>1. ASSUME NEW e \in Order(c), e[1] # v, e[2] = v
          PROVE  e \in {<<x, v>> : x \in c.items \ {v}}
      <4>1. e = <<e[1], e[2]>>
        BY DEF Order
      <4> QED
        BY <1>1, <3>1, <4>1
    <3> QED
      BY <1>1, <1>4, <2>2, <3>1 DEF UsedLast
  <2>4. OldestOut(c, d)
    BY <2>2 DEF OldestOut
  <2>5. Frugal(d)
    BY <2>2 DEF Frugal
  <2> QED
    BY <2>1, <2>2, <2>3, <2>4, <2>5
<1>5. CASE ~(maxBytes <= 0 \/ Charge(v) > maxBytes) /\ v \notin c.items
  <2>1. put(c, v) = Insert(c, v) /\ maxBytes > 0 /\ Charge(v) <= maxBytes
    BY <1>5 DEF put, Priced
  <2> QED
    BY <1>5, <2>1, InsertKeeps
<1> QED
  BY <1>3, <1>4, <1>5

\* One turn of the loop of dropAll.
Drop(c, v) == evict(c, Position(c, v))

\* g[s] is the cache after the versions in s were dropped.
Drops(g, c, S) == g = [s \in SUBSET S |->
                          IF s = {} THEN c ELSE Drop(g[s \ {Pick(s)}], Pick(s))]

\* The loop over a subset does not depend on the set it is a subset of.
LEMMA DropsAgree ==
    ASSUME NEW c, NEW S1, NEW S2, NEW g1, NEW g2, NEW S,
           IsFiniteSet(S), S \subseteq S1, S \subseteq S2,
           Drops(g1, c, S1), Drops(g2, c, S2)
    PROVE  \A s \in SUBSET S : g1[s] = g2[s]
<1> DEFINE P == {s \in SUBSET S : g1[s] = g2[s]}
<1>1. ASSUME NEW s \in SUBSET S, \A t \in SUBSET s : t # s => t \in P
      PROVE  g1[s] = g2[s]
  <2>0. s \in SUBSET S1 /\ s \in SUBSET S2
    OBVIOUS
  <2>1. CASE s = {}
    BY <2>0, <2>1 DEF Drops
  <2>2. CASE s # {}
    <3>1. s \ {Pick(s)} \in SUBSET s /\ s \ {Pick(s)} # s
      BY <2>2, PickIn
    <3>2. g1[s \ {Pick(s)}] = g2[s \ {Pick(s)}]
      BY <1>1, <3>1
    <3>3. g1[s] = Drop(g1[s \ {Pick(s)}], Pick(s))
      BY <2>0, <2>2 DEF Drops
    <3>4. g2[s] = Drop(g2[s \ {Pick(s)}], Pick(s))
      BY <2>0, <2>2 DEF Drops
    <3> QED
      BY <3>2, <3>3, <3>4
  <2> QED
    BY <2>1, <2>2
<1>2. \A s \in SUBSET S : (\A t \in SUBSET s : t # s => t \in P) => s \in P
  BY <1>1
<1>3. \A s \in SUBSET S : s \in P
  <2> HIDE DEF P
  <2> QED
    BY <1>2, SubsetInduction
<1> QED
  BY <1>3

\* There is such a function.
LEMMA DropsExists ==
    ASSUME NEW c, NEW S, IsFiniteSet(S)
    PROVE  \E g : Drops(g, c, S)
<1> DEFINE P == {s \in SUBSET S : \E g : Drops(g, c, s)}
           h(t) == CHOOSE g : Drops(g, c, t)
<1>1. ASSUME NEW s \in SUBSET S, \A t \in SUBSET s : t # s => t \in P
      PROVE  \E g : Drops(g, c, s)
  <2> DEFINE less(t) == t \ {Pick(t)}
             e == [t \in SUBSET s |-> IF t = {} THEN c ELSE Drop(h(less(t))[less(t)], Pick(t))]
  <2>1. ASSUME NEW t \in SUBSET s, t # {} PROVE e[less(t)] = h(less(t))[less(t)]
    <3> DEFINE u == less(t)
    <3>1. u \in SUBSET s /\ u # s /\ u \in SUBSET S
      BY <2>1, PickIn
    <3>2. Drops(h(u), c, u)
      BY <1>1, <3>1
    <3>3. CASE u = {}
      BY <3>1, <3>2, <3>3 DEF Drops
    <3>4. CASE u # {}
      <4> DEFINE w == less(u)
      <4>1. w \in SUBSET u /\ w \in SUBSET s /\ w # s
        BY <3>1, <3>4, PickIn
      <4>2. Drops(h(w), c, w)
        BY <1>1, <4>1
      <4>3. IsFiniteSet(w)
        BY <4>1, FS_Subset
      <4>4. h(u)[w] = h(w)[w]
        <5> HIDE DEF h, w, u
        <5> QED
          BY <3>2, <4>1, <4>2, <4>3, DropsAgree
      <4>5. h(u)[u] = Drop(h(u)[w], Pick(u))
        <5> HIDE DEF h
        <5> QED BY <3>2, <3>4 DEF Drops
      <4>6. e[u] = Drop(h(w)[w], Pick(u))
        <5> HIDE DEF h
        <5> QED BY <3>1, <3>4
      <4> QED
        BY <4>4, <4>5, <4>6
    <3> QED
      BY <3>3, <3>4
  <2>2. e = [t \in SUBSET s |-> IF t = {} THEN c ELSE Drop(e[less(t)], Pick(t))]
    <3> HIDE DEF h, less
    <3>1. \A t \in SUBSET s : (IF t = {} THEN c ELSE Drop(h(less(t))[less(t)], Pick(t)))
                              = (IF t = {} THEN c ELSE Drop(e[less(t)], Pick(t)))
      <4> HIDE DEF e
      <4> QED BY <2>1
    <3>2. \A t \in SUBSET s : e[t] = (IF t = {} THEN c ELSE Drop(e[less(t)], Pick(t)))
      BY <3>1
    <3> QED
      BY <3>2
  <2> QED
    <3> HIDE DEF e
    <3>1. Drops(e, c, s)
      BY <2>2 DEF Drops
    <3> QED BY <3>1
<1>2. \A s \in SUBSET S : (\A t \in SUBSET s : t # s => t \in P) => s \in P
  BY <1>1
<1>3. \A s \in SUBSET S : s \in P
  <2> HIDE DEF P
  <2> QED
    BY <1>2, SubsetInduction
<1> QED
  BY <1>3

\* d is c without the entries in s.
Left(d, c, s) ==
    /\ Consistent(d) /\ d.items = c.items \ s /\ d.curBytes <= c.curBytes
    /\ Order(d) = {e \in Order(c) : e[1] \notin s /\ e[2] \notin s}

\* Every turn drops one version and leaves the others as they were.
LEMMA DropsLeave ==
    ASSUME Priced, NEW c, Consistent(c), NEW S \in SUBSET c.items, NEW g, Drops(g, c, S)
    PROVE  \A s \in SUBSET S : Left(g[s], c, s)
<1> DEFINE P == {s \in SUBSET S : Left(g[s], c, s)}
<1>0. IsFiniteSet(S) /\ c.curBytes \in Nat /\ c.items \in SUBSET Versions
  BY FS_Subset DEF Priced, Consistent, CacheRecords
<1>1. ASSUME NEW s \in SUBSET S, \A t \in SUBSET s : t # s => t \in P
      PROVE  Left(g[s], c, s)
  <2>1. CASE s = {}
    <3>1. g[s] = c
      BY <2>1 DEF Drops
    <3> QED
      BY <1>0, <2>1, <3>1 DEF Left
  <2>2. CASE s # {}
    <3> DEFINE v == Pick(s)
               t == s \ {v}
               b == g[t]
               i == Position(b, v)
    <3>1. v \in s /\ t \in SUBSET s /\ t # s
      BY <2>2, PickIn
    <3>2. Left(b, c, t)
      BY <1>1, <3>1
    <3>3. g[s] = evict(b, i)
      BY <2>2 DEF Drops, Drop
    <3> HIDE DEF v, b
    <3>4. v \in b.items
      BY <3>1, <3>2 DEF Left
    <3>5. i \in 1 .. Len(b.ll) /\ b.ll[i] = v
      BY <3>2, <3>4, PositionIs DEF Left
    <3> HIDE DEF i
    <3>6. /\ Consistent(evict(b, i)) /\ evict(b, i).items = b.items \ {v}
          /\ Order(evict(b, i)) = {e \in Order(b) : e[1] # v /\ e[2] # v}
      BY <3>2, <3>5, EvictKeeps DEF Left
    <3>7. evict(b, i).curBytes <= c.curBytes
      <4>1. evict(b, i).curBytes = b.curBytes - Charge(v)
        BY <3>5 DEF evict
      <4>2. b.curBytes \in Nat /\ Charge(v) \in Nat /\ b.curBytes <= c.curBytes
        BY <1>0, <3>1, <3>2 DEF Left, Consistent, CacheRecords, Priced
      <4> QED
        BY <1>0, <4>1, <4>2
    <3>8. b.items \ {v} = c.items \ s
      BY <3>1, <3>2 DEF Left
    <3>9. {e \in Order(b) : e[1] # v /\ e[2] # v} = {e \in Order(c) : e[1] \notin s /\ e[2] \notin s}
      BY <3>1, <3>2 DEF Left
    <3> QED
      BY <3>3, <3>6, <3>7, <3>8, <3>9 DEF Left
  <2> QED
    BY <2>1, <2>2
<1>2. \A s \in SUBSET S : (\A t \in SUBSET s : t # s => t \in P) => s \in P
  BY <1>1
<1>3. \A s \in SUBSET S : s \in P
  <2> HIDE DEF P
  <2> QED
    BY <1>0, <1>2, SubsetInduction
<1> QED
  BY <1>3

\* dropAll leaves exactly the other sites' entries, consistent and in their
\* order, whatever order the map is ranged over in.
LEMMA DropAllLeaves ==
    ASSUME Priced, NEW c, Consistent(c), NEW n
    PROVE  Left(dropAll(c, n), c, {v \in c.items : owner[v] = n})
<1> DEFINE mine == {v \in c.items : owner[v] = n}
           from == CHOOSE g : Drops(g, c, mine)
<1>1. dropAll(c, n) = from[mine]
  BY DEF dropAll, Drops, Drop, Pick
<1>2. IsFiniteSet(mine) /\ mine \in SUBSET c.items /\ mine \in SUBSET mine
  <2>1. mine \in SUBSET Versions
    BY DEF Consistent, CacheRecords
  <2> QED
    BY <2>1, FS_Subset DEF Priced
<1> HIDE DEF mine
<1>3. Drops(from, c, mine)
  BY <1>2, DropsExists
<1> HIDE DEF from
<1>4. Left(from[mine], c, mine)
  BY <1>2, <1>3, DropsLeave
<1> QED
  BY <1>1, <1>4 DEF mine

-----------------------------------------------------------------------------
(***************************************************************************)
(* 4. Paths and names: path.Dir, filepath.Clean, filepath.ToSlash and      *)
(* SafeTarPath.                                                            *)
(***************************************************************************)

\* Two paths have the same first n components.
Agree(p, q, n) == \A i \in 1 .. n : p[i] = q[i]

\* A sequence, whatever its components are.
Path(p) == \E X : p \in Seq(X)

\* What a path is to the provers.
LEMMA PathIs ==
    ASSUME NEW p, Path(p)
    PROVE  Len(p) \in Nat /\ DOMAIN p = 1 .. Len(p) /\ (p = <<>> <=> Len(p) = 0)
<1>1. PICK X : p \in Seq(X)
  BY DEF Path
<1> QED
  BY <1>1

\* The root of a site.
LEMMA EmptyPath == Path(<<>>) /\ Len(<<>>) = 0
<1>1. <<>> \in Seq({})
  OBVIOUS
<1> QED
  BY <1>1 DEF Path

\* Paths of the same length and components are equal.
LEMMA PathEqual ==
    ASSUME NEW p, NEW q, Path(p), Path(q), Len(p) = Len(q), Agree(p, q, Len(p))
    PROVE  p = q
<1>1. PICK X : p \in Seq(X)
  BY DEF Path
<1>2. PICK Y : q \in Seq(Y)
  BY DEF Path
<1>3. p \in Seq(X \cup Y) /\ q \in Seq(X \cup Y)
  BY <1>1, <1>2
<1>4. \A i \in 1 .. Len(p) : p[i] = q[i]
  BY DEF Agree
<1> QED
  BY <1>3, <1>4, SeqEqual

\* The first k components of a path.
LEMMA PrefixIs ==
    ASSUME NEW p, Path(p), NEW k \in 0 .. Len(p)
    PROVE  /\ Path(SubSeq(p, 1, k)) /\ Len(SubSeq(p, 1, k)) = k
           /\ Agree(SubSeq(p, 1, k), p, k)
<1>1. PICK X : p \in Seq(X)
  BY DEF Path
<1>2. /\ SubSeq(p, 1, k) \in Seq(X) /\ Len(SubSeq(p, 1, k)) = k
      /\ \A i \in 1 .. k : SubSeq(p, 1, k)[i] = p[i]
  BY <1>1
<1> QED
  BY <1>2 DEF Path, Agree

\* Dir takes off the last component.
LEMMA DirIs ==
    ASSUME NEW p, Path(p), p # <<>>
    PROVE  Path(Dir(p)) /\ Len(Dir(p)) = Len(p) - 1 /\ Agree(Dir(p), p, Len(p) - 1)
<1> DEFINE k == Len(p) - 1
<1>1. k \in 0 .. Len(p)
  BY PathIs
<1> HIDE DEF k
<1>2. /\ Path(SubSeq(p, 1, k)) /\ Len(SubSeq(p, 1, k)) = k
      /\ Agree(SubSeq(p, 1, k), p, k)
  BY <1>1, PrefixIs
<1> QED
  BY <1>2 DEF Dir, k

\* Append adds one.
LEMMA AppendIs ==
    ASSUME NEW p, Path(p), NEW c
    PROVE  /\ Path(Append(p, c)) /\ Len(Append(p, c)) = Len(p) + 1
           /\ Agree(Append(p, c), p, Len(p)) /\ Append(p, c)[Len(p) + 1] = c
<1>1. PICK X : p \in Seq(X)
  BY DEF Path
<1> DEFINE Y == X \cup {c}
<1>2. p \in Seq(Y) /\ c \in Y
  BY <1>1
<1> HIDE DEF Y
<1>3. /\ Append(p, c) \in Seq(Y) /\ Len(Append(p, c)) = Len(p) + 1
      /\ \A i \in 1 .. Len(p) : Append(p, c)[i] = p[i]
      /\ Append(p, c)[Len(p) + 1] = c
  BY <1>2
<1> QED
  BY <1>3 DEF Path, Agree

\* Paths can be joined.
LEMMA ConcatIs ==
    ASSUME NEW p, Path(p), NEW q, Path(q)
    PROVE  Path(p \o q)
<1>1. PICK X : p \in Seq(X)
  BY DEF Path
<1>2. PICK Y : q \in Seq(Y)
  BY DEF Path
<1>3. p \in Seq(X \cup Y) /\ q \in Seq(X \cup Y)
  BY <1>1, <1>2
<1>4. p \o q \in Seq(X \cup Y)
  BY <1>3, ConcatProperties
<1> QED
  BY <1>4 DEF Path

\* Agreement is an equivalence and holds for shorter prefixes.
LEMMA AgreeFacts ==
    /\ \A p, q, n : Agree(p, q, n) => Agree(q, p, n)
    /\ \A p, q, r, n : Agree(p, q, n) /\ Agree(q, r, n) => Agree(p, r, n)
    /\ \A p, q : \A n, m \in Int : Agree(p, q, n) /\ m <= n => Agree(p, q, m)
    /\ \A p : \A n : Agree(p, p, n)
<1>1. \A p, q : \A n, m \in Int : Agree(p, q, n) /\ m <= n => Agree(p, q, m)
  BY DEF Agree
<1> QED
  BY <1>1 DEF Agree

\* The same, for three paths at once.
LEMMA AgreeMore ==
    ASSUME NEW p, NEW q, NEW r, NEW n \in Int, NEW m \in Int, m <= n, Agree(p, q, n)
    PROVE  /\ Agree(p, q, m) /\ (m >= 1 => p[m] = q[m])
           /\ Agree(q, r, m) => Agree(p, r, m)
           /\ Agree(r, p, m) => Agree(r, q, m)
  BY DEF Agree

\* A path's prefixes are the paths it agrees with to their end.
LEMMA PrefixesIs ==
    ASSUME NEW p, Path(p)
    PROVE  \A q : q \in Prefixes(p) <=>
              Path(q) /\ Len(q) >= 1 /\ Len(q) <= Len(p) /\ Agree(q, p, Len(q))
<1>0. Len(p) \in Nat
  BY PathIs
<1>1. ASSUME NEW q \in Prefixes(p)
      PROVE  Path(q) /\ Len(q) >= 1 /\ Len(q) <= Len(p) /\ Agree(q, p, Len(q))
  <2>1. PICK k \in 1 .. Len(p) : q = SubSeq(p, 1, k)
    BY DEF Prefixes
  <2>2. k \in 0 .. Len(p) /\ k >= 1 /\ k <= Len(p)
    BY <1>0
  <2>3. Path(q) /\ Len(q) = k /\ Agree(q, p, k)
    BY <2>1, <2>2, PrefixIs
  <2> QED
    BY <2>2, <2>3
<1>2. ASSUME NEW q, Path(q), Len(q) >= 1, Len(q) <= Len(p), Agree(q, p, Len(q))
      PROVE  q \in Prefixes(p)
  <2> DEFINE k == Len(q)
  <2>1. k \in 1 .. Len(p) /\ k \in 0 .. Len(p)
    BY <1>0, <1>2, PathIs
  <2>2. /\ Path(SubSeq(p, 1, k)) /\ Len(SubSeq(p, 1, k)) = k /\ Agree(SubSeq(p, 1, k), p, k)
    BY <2>1, PrefixIs
  <2>3. Agree(q, SubSeq(p, 1, k), k)
    BY <1>2, <2>2, AgreeFacts
  <2>4. q = SubSeq(p, 1, k)
    BY <1>2, <2>2, <2>3, PathEqual
  <2> QED
    BY <2>1, <2>4 DEF Prefixes
<1> QED
  BY <1>1, <1>2

\* The prefixes of a path are ordered: its own, and those of Dir below it (the
\* ancestry addDir and MkdirAll register).
LEMMA PrefixOrder ==
    ASSUME NEW p, Path(p)
    PROVE  /\ p # <<>> => p \in Prefixes(p)
           /\ p # <<>> => Prefixes(p) = Prefixes(Dir(p)) \cup {p}
           /\ p = <<>> => Prefixes(p) = {} /\ Prefixes(Dir(p)) = {}
           /\ p \notin Prefixes(Dir(p))
           /\ Path(Dir(p))
           /\ \A q \in Prefixes(p) : /\ Path(q) /\ q # <<>> /\ Prefixes(q) \subseteq Prefixes(p)
                                     /\ \A r \in Prefixes(p) :
                                           Len(r) >= Len(q) => q \in Prefixes(r)
<1>0. Len(p) \in Nat /\ (p = <<>> <=> Len(p) = 0)
  BY PathIs
<1>1. CASE p = <<>>
  <2>1. Dir(p) = <<>>
    BY <1>1 DEF Dir
  <2>2. Prefixes(<<>>) = {}
    BY DEF Prefixes
  <2> QED
    BY <1>1, <2>1, <2>2
<1>2. CASE p # <<>>
  <2> DEFINE d == Dir(p)
  <2>1. Path(d) /\ Len(d) = Len(p) - 1 /\ Agree(d, p, Len(p) - 1)
    BY <1>2, DirIs
  <2> HIDE DEF d
  <2>2. p \in Prefixes(p)
    BY <1>0, <1>2, PrefixesIs, AgreeFacts
  <2>3. p \notin Prefixes(d)
    <3> SUFFICES ASSUME p \in Prefixes(d) PROVE FALSE
      OBVIOUS
    <3>1. Len(p) <= Len(d)
      BY <2>1, PrefixesIs
    <3> QED
      BY <1>0, <2>1, <3>1
  <2>4. ASSUME NEW q \in Prefixes(d) PROVE q \in Prefixes(p)
    <3>1. Path(q) /\ Len(q) >= 1 /\ Len(q) <= Len(d) /\ Agree(q, d, Len(q)) /\ Len(q) \in Nat
      BY <2>1, <2>4, PrefixesIs, PathIs
    <3>2. Agree(d, p, Len(q))
      BY <1>0, <2>1, <3>1, AgreeFacts
    <3>3. Agree(q, p, Len(q))
      BY <3>1, <3>2, AgreeFacts
    <3> QED
      BY <1>0, <2>1, <3>1, <3>3, PrefixesIs
  <2>5. ASSUME NEW q \in Prefixes(p), q # p PROVE q \in Prefixes(d)
    <3>1. Path(q) /\ Len(q) >= 1 /\ Len(q) <= Len(p) /\ Agree(q, p, Len(q)) /\ Len(q) \in Nat
      BY <2>5, PrefixesIs, PathIs
    <3>2. Len(q) # Len(p)
      BY <2>5, <3>1, PathEqual
    <3>3. Len(q) <= Len(d)
      BY <1>0, <2>1, <3>1, <3>2
    <3>4. Agree(d, p, Len(q))
      BY <1>0, <2>1, <3>1, <3>3, AgreeFacts
    <3>5. Agree(q, d, Len(q))
      BY <3>1, <3>4, AgreeFacts
    <3> QED
      BY <2>1, <3>1, <3>3, <3>5, PrefixesIs
  <2>6. ASSUME NEW q \in Prefixes(p)
        PROVE  Path(q) /\ q # <<>> /\ Len(q) \in Nat /\ Len(q) >= 1 /\ Len(q) <= Len(p)
               /\ Agree(q, p, Len(q))
    BY <2>6, PrefixesIs, PathIs
  <2>7. ASSUME NEW q \in Prefixes(p), NEW r \in Prefixes(p), Len(r) >= Len(q) PROVE q \in Prefixes(r)
    <3>1. /\ Path(q) /\ Len(q) \in Nat /\ Len(q) >= 1 /\ Agree(q, p, Len(q))
          /\ Path(r) /\ Len(r) \in Nat /\ Agree(r, p, Len(r))
      BY <2>6
    <3>2. Agree(p, r, Len(q))
      BY <2>7, <3>1, AgreeFacts
    <3>3. Agree(q, r, Len(q))
      BY <3>1, <3>2, AgreeFacts
    <3> QED
      BY <2>7, <3>1, <3>3, PrefixesIs
  <2>8. ASSUME NEW q \in Prefixes(p), NEW r \in Prefixes(q) PROVE r \in Prefixes(p)
    <3>1. /\ Path(q) /\ Len(q) \in Nat /\ Len(q) <= Len(p) /\ Agree(q, p, Len(q))
      BY <2>6
    <3>2. Path(r) /\ Len(r) >= 1 /\ Len(r) <= Len(q) /\ Agree(r, q, Len(r)) /\ Len(r) \in Nat
      BY <2>8, <3>1, PrefixesIs, PathIs
    <3>3. Agree(q, p, Len(r))
      BY <3>1, <3>2, AgreeFacts
    <3>4. Agree(r, p, Len(r))
      BY <3>2, <3>3, AgreeFacts
    <3> QED
      BY <1>0, <3>1, <3>2, <3>4, PrefixesIs
  <2> QED
    BY <1>2, <2>1, <2>2, <2>3, <2>4, <2>5, <2>6, <2>7, <2>8 DEF d
<1> QED
  BY <1>1, <1>2

\* Copying a path component by component.
LEMMA AppendedAgrees ==
    ASSUME NEW p, NEW s, Path(s), NEW k \in Nat, Len(s) = k, Agree(s, p, k)
    PROVE  LET t == Append(s, p[k + 1]) IN Path(t) /\ Len(t) = k + 1 /\ Agree(t, p, k + 1)
<1> DEFINE t == Append(s, p[k + 1])
<1>1. /\ Path(t) /\ Len(t) = k + 1 /\ (\A i \in 1 .. k : t[i] = s[i]) /\ t[k + 1] = p[k + 1]
  BY AppendIs DEF Agree
<1> HIDE DEF t
<1>2. ASSUME NEW i \in 1 .. k + 1 PROVE t[i] = p[i]
  <2>1. CASE i = k + 1
    BY <1>1, <2>1
  <2>2. CASE i # k + 1
    <3>1. i \in 1 .. k
      BY <2>2
    <3> QED
      BY <1>1, <3>1 DEF Agree
  <2> QED
    BY <2>1, <2>2
<1>3. Agree(t, p, k + 1)
  BY <1>2 DEF Agree
<1> QED
  BY <1>1, <1>3 DEF t

\* g[k] is what filepath.Clean makes of the first k components.
Cleans(g, name, n) == g = [k \in 0 .. n |-> IF k = 0 THEN <<>> ELSE Join(g[k - 1], name[k])]

\* There is such a function.
LEMMA CleansExists ==
    ASSUME NEW name, NEW n \in Nat
    PROVE  \E g : Cleans(g, name, n)
<1> DEFINE P == {k \in Nat : \E g : Cleans(g, name, k)}
<1>1. 0 \in P
  <2> DEFINE g == [k \in 0 .. 0 |-> <<>>]
  <2>1. \A k \in 0 .. 0 : g[k] = IF k = 0 THEN <<>> ELSE Join(g[k - 1], name[k])
    OBVIOUS
  <2>2. g = [k \in 0 .. 0 |-> IF k = 0 THEN <<>> ELSE Join(g[k - 1], name[k])]
    BY <2>1
  <2> HIDE DEF g
  <2>3. Cleans(g, name, 0)
    BY <2>2 DEF Cleans
  <2> QED
    BY <2>3
<1>2. ASSUME NEW m \in Nat, m \in P PROVE m + 1 \in P
  <2>1. PICK g : Cleans(g, name, m)
    BY <1>2
  <2> DEFINE h == [k \in 0 .. m + 1 |-> IF k = m + 1 THEN Join(g[m], name[m + 1]) ELSE g[k]]
  <2>2. \A k \in 0 .. m : g[k] = IF k = 0 THEN <<>> ELSE Join(g[k - 1], name[k])
    BY <2>1 DEF Cleans
  <2>3. ASSUME NEW k \in 0 .. m + 1
        PROVE  h[k] = IF k = 0 THEN <<>> ELSE Join(h[k - 1], name[k])
    <3>1. CASE k = m + 1
      <4>1. k # 0 /\ k - 1 = m /\ m \in 0 .. m + 1 /\ m # m + 1
        BY <3>1
      <4> QED
        BY <3>1, <4>1
    <3>2. CASE k # m + 1
      <4>1. k \in 0 .. m /\ (k # 0 => k - 1 \in 0 .. m + 1 /\ k - 1 # m + 1)
        BY <3>2
      <4> QED
        BY <2>2, <3>2, <4>1
    <3> QED
      BY <3>1, <3>2
  <2>4. h = [k \in 0 .. m + 1 |-> IF k = 0 THEN <<>> ELSE Join(h[k - 1], name[k])]
    BY <2>3
  <2> HIDE DEF h
  <2>5. Cleans(h, name, m + 1)
    BY <2>4 DEF Cleans
  <2> QED
    BY <2>5
<1>3. \A k \in Nat : k \in P
  <2> HIDE DEF P
  <2> QED BY <1>1, <1>2, CountingInduction
<1> QED
  BY <1>3

\* Clean can be unfolded component by component.
LEMMA CleanSteps ==
    ASSUME NEW name, Len(name) \in Nat
    PROVE  \E g : /\ Clean(name) = g[Len(name)]
                  /\ g[0] = <<>>
                  /\ \A k \in 1 .. Len(name) : g[k] = Join(g[k - 1], name[k])
<1> DEFINE g == CHOOSE g : Cleans(g, name, Len(name))
<1>1. Clean(name) = g[Len(name)]
  BY DEF Clean, Cleans
<1>2. Cleans(g, name, Len(name))
  BY CleansExists
<1> HIDE DEF g
<1>3. g[0] = <<>>
  BY <1>2 DEF Cleans
<1>4. ASSUME NEW k \in 1 .. Len(name) PROVE g[k] = Join(g[k - 1], name[k])
  <2>1. k \in 0 .. Len(name) /\ k # 0
    OBVIOUS
  <2> QED
    BY <1>2, <2>1 DEF Cleans
<1> QED
  BY <1>1, <1>3, <1>4

\* The components one component becomes when backslashes separate too.
Parted(c) == IF c \in DOMAIN Backslashed THEN Backslashed[c] ELSE <<c>>

More(done, c) == done \o Parted(c)

\* g[k] is what the first k components become.
Parts(g, p, n) == g = [k \in 0 .. n |-> IF k = 0 THEN <<>> ELSE More(g[k - 1], p[k])]

\* There is such a function.
LEMMA PartsExists ==
    ASSUME NEW p, NEW n \in Nat
    PROVE  \E g : Parts(g, p, n)
<1> DEFINE P == {k \in Nat : \E g : Parts(g, p, k)}
<1>1. 0 \in P
  <2> DEFINE g == [k \in 0 .. 0 |-> <<>>]
  <2>1. \A k \in 0 .. 0 : g[k] = IF k = 0 THEN <<>> ELSE More(g[k - 1], p[k])
    OBVIOUS
  <2>2. g = [k \in 0 .. 0 |-> IF k = 0 THEN <<>> ELSE More(g[k - 1], p[k])]
    BY <2>1
  <2> HIDE DEF g
  <2>3. Parts(g, p, 0)
    BY <2>2 DEF Parts
  <2> QED
    BY <2>3
<1>2. ASSUME NEW m \in Nat, m \in P PROVE m + 1 \in P
  <2>1. PICK g : Parts(g, p, m)
    BY <1>2
  <2> DEFINE h == [k \in 0 .. m + 1 |-> IF k = m + 1 THEN More(g[m], p[m + 1]) ELSE g[k]]
  <2>2. \A k \in 0 .. m : g[k] = IF k = 0 THEN <<>> ELSE More(g[k - 1], p[k])
    BY <2>1 DEF Parts
  <2>3. ASSUME NEW k \in 0 .. m + 1
        PROVE  h[k] = IF k = 0 THEN <<>> ELSE More(h[k - 1], p[k])
    <3>1. CASE k = m + 1
      <4>1. k # 0 /\ k - 1 = m /\ m \in 0 .. m + 1 /\ m # m + 1
        BY <3>1
      <4> QED
        BY <3>1, <4>1
    <3>2. CASE k # m + 1
      <4>1. k \in 0 .. m /\ (k # 0 => k - 1 \in 0 .. m + 1 /\ k - 1 # m + 1)
        BY <3>2
      <4> QED
        BY <2>2, <3>2, <4>1
    <3> QED
      BY <3>1, <3>2
  <2>4. h = [k \in 0 .. m + 1 |-> IF k = 0 THEN <<>> ELSE More(h[k - 1], p[k])]
    BY <2>3
  <2> HIDE DEF h
  <2>5. Parts(h, p, m + 1)
    BY <2>4 DEF Parts
  <2> QED
    BY <2>5
<1>3. \A k \in Nat : k \in P
  <2> HIDE DEF P
  <2> QED BY <1>1, <1>2, CountingInduction
<1> QED
  BY <1>3

\* filepathToSlash can be unfolded component by component.
LEMMA SlashSteps ==
    ASSUME NEW p, Len(p) \in Nat
    PROVE  \E g : /\ filepathToSlash(p) = Clean(g[Len(p)])
                  /\ g[0] = <<>>
                  /\ \A k \in 1 .. Len(p) : g[k] = More(g[k - 1], p[k])
<1> DEFINE g == CHOOSE g : Parts(g, p, Len(p))
<1>1. filepathToSlash(p) = Clean(g[Len(p)])
  BY DEF filepathToSlash, Parts, More, Parted
<1>2. Parts(g, p, Len(p))
  BY PartsExists
<1> HIDE DEF g
<1>3. g[0] = <<>>
  BY <1>2 DEF Parts
<1>4. ASSUME NEW k \in 1 .. Len(p) PROVE g[k] = More(g[k - 1], p[k])
  <2>1. k \in 0 .. Len(p) /\ k # 0
    OBVIOUS
  <2> QED
    BY <1>2, <2>1 DEF Parts
<1> QED
  BY <1>1, <1>3, <1>4

\* A step of Clean yields a path.
LEMMA JoinPath ==
    ASSUME NEW done, Path(done), NEW c
    PROVE  Path(Join(done, c))
<1>1. Path(Append(done, c))
  BY AppendIs
<1>2. done # <<>> => Path(Dir(done))
  BY DirIs
<1> QED
  BY <1>1, <1>2 DEF Join

\* Clean yields a path.
LEMMA CleanPath ==
    ASSUME NEW name, Path(name)
    PROVE  Path(Clean(name))
<1>0. Len(name) \in Nat
  BY PathIs
<1>1. PICK g : /\ Clean(name) = g[Len(name)]
               /\ g[0] = <<>>
               /\ \A k \in 1 .. Len(name) : g[k] = Join(g[k - 1], name[k])
  BY <1>0, CleanSteps
<1> DEFINE P == {k \in Nat : k <= Len(name) => Path(g[k])}
<1>2. 0 \in P
  BY <1>1, EmptyPath
<1>3. ASSUME NEW k \in Nat, k \in P PROVE k + 1 \in P
  <2> SUFFICES ASSUME k + 1 <= Len(name) PROVE Path(g[k + 1])
    OBVIOUS
  <2>1. k + 1 \in 1 .. Len(name) /\ (k + 1) - 1 = k /\ Path(g[k])
    BY <1>0, <1>3
  <2>2. g[k + 1] = Join(g[k], name[k + 1])
    BY <1>1, <2>1
  <2> QED
    BY <2>1, <2>2, JoinPath
<1>4. \A k \in Nat : k \in P
  <2> HIDE DEF P
  <2> QED BY <1>2, <1>3, CountingInduction
<1> QED
  BY <1>0, <1>1, <1>4

\* Parting a component yields a path.
LEMMA PartedPath == \A c : Path(Parted(c))
<1> SUFFICES ASSUME NEW c PROVE Path(Parted(c))
  OBVIOUS
<1>1. CASE c \in DOMAIN Backslashed
  BY <1>1, NamesAssumption DEF Parted, Path
<1>2. CASE c \notin DOMAIN Backslashed
  <2>1. <<c>> \in Seq({c})
    OBVIOUS
  <2> QED
    BY <1>2, <2>1 DEF Parted, Path
<1> QED
  BY <1>1, <1>2

\* filepathToSlash yields a path.
LEMMA SlashPath ==
    ASSUME NEW p, Path(p)
    PROVE  Path(filepathToSlash(p))
<1>0. Len(p) \in Nat
  BY PathIs
<1>1. PICK g : /\ filepathToSlash(p) = Clean(g[Len(p)])
               /\ g[0] = <<>>
               /\ \A k \in 1 .. Len(p) : g[k] = More(g[k - 1], p[k])
  BY <1>0, SlashSteps
<1> DEFINE P == {k \in Nat : k <= Len(p) => Path(g[k])}
<1>2. 0 \in P
  BY <1>1, EmptyPath
<1>3. ASSUME NEW k \in Nat, k \in P PROVE k + 1 \in P
  <2> SUFFICES ASSUME k + 1 <= Len(p) PROVE Path(g[k + 1])
    OBVIOUS
  <2>1. k + 1 \in 1 .. Len(p) /\ (k + 1) - 1 = k /\ Path(g[k])
    BY <1>0, <1>3
  <2>2. g[k + 1] = g[k] \o Parted(p[k + 1])
    BY <1>1, <2>1 DEF More
  <2> QED
    BY <2>1, <2>2, PartedPath, ConcatIs
<1>4. \A k \in Nat : k \in P
  <2> HIDE DEF P
  <2> QED BY <1>2, <1>3, CountingInduction
<1> QED
  BY <1>0, <1>1, <1>4, CleanPath

\* A truth value, counted.
One(b) == IF b THEN 1 ELSE 0

\* How many of the first k components are "..".
Ups(name, k) == Cardinality({j \in 1 .. k : name[j] = Up})

\* One component more, counted.
LEMMA UpsCount ==
    ASSUME NEW name
    PROVE  /\ Ups(name, 0) = 0
           /\ \A k \in Nat : /\ Ups(name, k) \in Nat
                             /\ Ups(name, k + 1) = Ups(name, k) + One(name[k + 1] = Up)
<1> DEFINE U(k) == {j \in 1 .. k : name[j] = Up}
<1>1. ASSUME NEW k \in Nat PROVE IsFiniteSet(U(k)) /\ Cardinality(U(k)) \in Nat
  <2>1. U(k) \in SUBSET (1 .. k) /\ IsFiniteSet(1 .. k)
    BY FS_Interval
  <2> QED
    BY <2>1, FS_Subset, FS_CardinalityType
<1>2. U(0) = {}
  OBVIOUS
<1>3. ASSUME NEW k \in Nat, name[k + 1] = Up
      PROVE  Cardinality(U(k + 1)) = Cardinality(U(k)) + 1
  <2>1. U(k + 1) = U(k) \cup {k + 1} /\ k + 1 \notin U(k)
    BY <1>3
  <2> HIDE DEF U
  <2> QED
    BY <1>1, <2>1, FS_AddElement
<1>4. ASSUME NEW k \in Nat, name[k + 1] # Up
      PROVE  Cardinality(U(k + 1)) = Cardinality(U(k))
  <2>1. U(k + 1) = U(k)
    BY <1>4
  <2> QED
    BY <2>1
<1>5. Cardinality({}) = 0
  BY FS_EmptySet
<1>6. \A k : Ups(name, k) = Cardinality(U(k))
  BY DEF Ups
<1>7. ASSUME NEW k \in Nat PROVE Cardinality(U(k + 1)) = Cardinality(U(k)) + One(name[k + 1] = Up)
  <2> HIDE DEF U
  <2>1. CASE name[k + 1] = Up
    BY <1>3, <2>1 DEF One
  <2>2. CASE name[k + 1] # Up
    <3>1. Cardinality(U(k + 1)) = Cardinality(U(k)) /\ Cardinality(U(k)) \in Nat
      BY <1>1, <1>4, <2>2
    <3> QED
      BY <2>2, <3>1 DEF One
  <2> QED
    BY <2>1, <2>2
<1>8. Ups(name, 0) = 0
  BY <1>2, <1>5, <1>6
<1> HIDE DEF U
<1> QED
  BY <1>1, <1>6, <1>7, <1>8

\* Only the first component can make a name absolute.
Rooted(name) == \A k \in 2 .. Len(name) : name[k] # Slash

\* After j components the name has not left its root.
Stays(name, j) == name[j] # Slash /\ Ups(name, j) <= j - Ups(name, j)

InsideTo(name, k) == \A j \in 1 .. k : Stays(name, j)

\* done is what is left of the first k components of a name that has stayed
\* inside: each ".." has taken one component away.
Descends(done, name, k) ==
    /\ Len(done) = k - 2 * Ups(name, k)
    /\ \A i \in 1 .. Len(done) : done[i] \notin {Up, Slash} /\ \E j \in 1 .. k : done[i] = name[j]

\* A cleaned name that SafeTarPath refuses.
Escapes(done) == done # <<>> /\ done[1] \in {Up, Slash}

\* No further component makes an escaping name acceptable.
LEMMA EscapeStays ==
    ASSUME NEW done, Path(done), Escapes(done), NEW c
    PROVE  Escapes(Join(done, c))
<1>1. Len(done) \in Nat /\ Len(done) # 0
  BY PathIs DEF Escapes
<1>2. Escapes(Append(done, c))
  <2>1. /\ Path(Append(done, c)) /\ Len(Append(done, c)) = Len(done) + 1
        /\ Append(done, c)[1] = done[1]
    BY <1>1, AppendIs DEF Agree
  <2>2. Append(done, c) # <<>>
    BY <1>1, <2>1, PathIs
  <2> QED
    BY <2>1, <2>2 DEF Escapes
<1>3. ASSUME done[Len(done)] # Up, done # <<Slash>> PROVE Escapes(Dir(done))
  <2>1. Path(Dir(done)) /\ Len(Dir(done)) = Len(done) - 1 /\ Agree(Dir(done), done, Len(done) - 1)
    BY DirIs DEF Escapes
  <2>2. Len(done) # 1
    <3> SUFFICES ASSUME Len(done) = 1 PROVE FALSE
      OBVIOUS
    <3>1. done[1] = Slash
      BY <1>3 DEF Escapes
    <3>2. <<Slash>> \in Seq({Slash}) /\ Len(<<Slash>>) = 1 /\ <<Slash>>[1] = Slash
      OBVIOUS
    <3>3. Path(<<Slash>>)
      BY <3>2 DEF Path
    <3>4. done = <<Slash>>
      BY <3>1, <3>2, <3>3, PathEqual DEF Agree
    <3> QED
      BY <1>3, <3>4
  <2>3. Dir(done)[1] = done[1] /\ Dir(done) # <<>>
    BY <1>1, <2>1, <2>2, PathIs DEF Agree
  <2> QED
    BY <2>3 DEF Escapes
<1> QED
  BY <1>2, <1>3 DEF Join

\* One component more either stays inside or escapes for good.
LEMMA DescentStep ==
    ASSUME NEW name, Path(name), Rooted(name), NEW k \in Nat, k + 1 <= Len(name),
           NEW done, Path(done), InsideTo(name, k), Descends(done, name, k)
    PROVE  LET next == Join(done, name[k + 1]) IN
           \/ InsideTo(name, k + 1) /\ Descends(next, name, k + 1)
           \/ ~InsideTo(name, k + 1) /\ Escapes(next)
<1> DEFINE c == name[k + 1]
           u == Ups(name, k)
           next == Join(done, c)
           len == Len(done)
<1>0. /\ Len(name) \in Nat /\ len \in Nat /\ (done = <<>> <=> len = 0)
      /\ DOMAIN done = 1 .. len
  BY PathIs
<1>1. u \in Nat /\ Ups(name, k + 1) = u + One(c = Up) /\ len = k - 2 * u
  BY UpsCount DEF Descends
<1>2. InsideTo(name, k + 1) <=> Stays(name, k + 1)
  <2>1. \A j \in 1 .. k + 1 : j \in 1 .. k \/ j = k + 1
    OBVIOUS
  <2>2. k + 1 \in 1 .. k + 1 /\ \A j \in 1 .. k : j \in 1 .. k + 1
    OBVIOUS
  <2> QED
    BY <2>1, <2>2 DEF InsideTo
<1>3. /\ Path(Append(done, c)) /\ Len(Append(done, c)) = len + 1
      /\ (\A i \in 1 .. len : Append(done, c)[i] = done[i]) /\ Append(done, c)[len + 1] = c
  BY AppendIs DEF Agree
<1>4. \A i \in 1 .. len : done[i] \notin {Up, Slash} /\ \E j \in 1 .. k : done[i] = name[j]
  BY DEF Descends
<1>5. ASSUME done = <<>>, c \in {Up, Slash} PROVE Escapes(Append(done, c))
  <2>1. Append(done, c)[1] = c /\ Len(Append(done, c)) = 1
    BY <1>0, <1>3, <1>5
  <2> DEFINE s == Append(done, c)
  <2>2. Path(s) /\ Len(s) = 1
    BY <1>3, <2>1
  <2> HIDE DEF s
  <2>3. s # <<>>
    BY <2>2, PathIs
  <2> QED
    BY <1>5, <2>1, <2>3 DEF Escapes, s
<1>6. CASE c = Slash
  <2>1. k = 0
    BY <1>0, <1>6 DEF Rooted
  <2>2. done = <<>>
    BY <1>0, <1>1, <2>1, UpsCount
  <2>3. next = Append(done, c)
    BY <2>2 DEF Join
  <2> QED
    BY <1>2, <1>5, <1>6, <2>2, <2>3 DEF Stays
<1>7. CASE c = Up /\ done = <<>>
  <2>1. ~InsideTo(name, k + 1)
    BY <1>0, <1>1, <1>2, <1>7 DEF One, Stays
  <2>2. next = Append(done, c)
    BY <1>7 DEF Join
  <2> QED
    BY <1>5, <1>7, <2>1, <2>2
<1>8. CASE c = Up /\ done # <<>>
  <2>1. done[len] \notin {Up, Slash} /\ len \in 1 .. len
    BY <1>0, <1>4, <1>8
  <2>2. done # <<Slash>>
    <3> SUFFICES ASSUME done = <<Slash>> PROVE FALSE
      OBVIOUS
    <3>1. done[len] = Slash
      OBVIOUS
    <3> QED
      BY <2>1, <3>1
  <2>3. next = Dir(done)
    BY <1>8, <2>1, <2>2 DEF Join
  <2>4. Path(next) /\ Len(next) = len - 1 /\ \A i \in 1 .. len - 1 : next[i] = done[i]
    BY <1>8, <2>3, DirIs DEF Agree
  <2>5. Len(next) = (k + 1) - 2 * Ups(name, k + 1) /\ InsideTo(name, k + 1)
    BY <1>0, <1>1, <1>2, <1>8, <2>4, NamesAssumption DEF One, Stays
  <2>6. ASSUME NEW i \in 1 .. Len(next)
        PROVE  next[i] \notin {Up, Slash} /\ \E j \in 1 .. k + 1 : next[i] = name[j]
    <3>1. next[i] = done[i] /\ i \in 1 .. len
      BY <1>0, <2>4, <2>6
    <3>2. PICK j \in 1 .. k : done[i] = name[j]
      BY <1>4, <3>1
    <3>3. j \in 1 .. k + 1
      OBVIOUS
    <3> QED
      BY <1>4, <3>1, <3>2, <3>3
  <2> HIDE DEF next
  <2>7. Descends(next, name, k + 1)
    BY <2>5, <2>6 DEF Descends
  <2> QED
    BY <2>5, <2>7 DEF next
<1>9. CASE c \notin {Up, Slash}
  <2>1. next = Append(done, c)
    BY <1>9 DEF Join
  <2>2. Len(next) = (k + 1) - 2 * Ups(name, k + 1) /\ InsideTo(name, k + 1)
    BY <1>0, <1>1, <1>2, <1>3, <1>9, <2>1 DEF One, Stays
  <2>3. ASSUME NEW i \in 1 .. Len(next)
        PROVE  next[i] \notin {Up, Slash} /\ \E j \in 1 .. k + 1 : next[i] = name[j]
    <3>1. CASE i = len + 1
      <4>1. next[i] = c /\ k + 1 \in 1 .. k + 1
        BY <1>3, <2>1, <3>1
      <4> QED
        BY <1>9, <4>1
    <3>2. CASE i # len + 1
      <4>1. i \in 1 .. len
        BY <1>0, <1>3, <2>1, <2>3, <3>2
      <4>2. next[i] = done[i]
        BY <1>3, <2>1, <4>1
      <4>3. PICK j \in 1 .. k : done[i] = name[j]
        BY <1>4, <4>1
      <4>4. j \in 1 .. k + 1
        OBVIOUS
      <4> QED
        BY <1>4, <4>1, <4>2, <4>3, <4>4
    <3> QED
      BY <3>1, <3>2
  <2> HIDE DEF next
  <2>4. Descends(next, name, k + 1)
    BY <2>2, <2>3 DEF Descends
  <2> QED
    BY <2>2, <2>4 DEF next
<1> HIDE DEF next, c
<1>10. c = Slash \/ c = Up \/ c \notin {Up, Slash}
  OBVIOUS
<1> QED
  BY <1>6, <1>7, <1>8, <1>9, <1>10 DEF next, c

\* SafeTarPath, which looks at the first component of the cleaned name, refuses
\* exactly the names that leave the root on the way; what it accepts cleans to
\* components of the name, none of them "..".
LEMMA SafeIsInside ==
    ASSUME NEW name, Path(name), Rooted(name)
    PROVE  /\ SafeTarPath(name) <=> Inside(name)
           /\ Inside(name) => \A i \in 1 .. Len(Clean(name)) :
                 /\ Clean(name)[i] \notin {Up, Slash}
                 /\ \E j \in 1 .. Len(name) : Clean(name)[i] = name[j]
<1>0. Len(name) \in Nat
  BY PathIs
<1>1. PICK g : /\ Clean(name) = g[Len(name)]
               /\ g[0] = <<>>
               /\ \A k \in 1 .. Len(name) : g[k] = Join(g[k - 1], name[k])
  BY <1>0, CleanSteps
<1> DEFINE Known(k) == /\ Path(g[k])
                       /\ \/ InsideTo(name, k) /\ Descends(g[k], name, k)
                          \/ ~InsideTo(name, k) /\ Escapes(g[k])
           P == {k \in Nat : k <= Len(name) => Known(k)}
<1>2. 0 \in P
  <2>1. InsideTo(name, 0)
    BY DEF InsideTo
  <2>2. Path(g[0]) /\ Descends(g[0], name, 0)
    BY <1>1, EmptyPath, UpsCount DEF Descends
  <2> QED
    BY <2>1, <2>2
<1>3. ASSUME NEW k \in Nat, k \in P PROVE k + 1 \in P
  <2> SUFFICES ASSUME k + 1 <= Len(name) PROVE Known(k + 1)
    OBVIOUS
  <2>1. k + 1 \in 1 .. Len(name) /\ (k + 1) - 1 = k /\ Known(k)
    BY <1>0, <1>3
  <2>2. g[k + 1] = Join(g[k], name[k + 1])
    BY <1>1, <2>1
  <2>3. Path(g[k + 1])
    BY <2>1, <2>2, JoinPath
  <2>4. CASE InsideTo(name, k) /\ Descends(g[k], name, k)
    BY <2>1, <2>2, <2>3, <2>4, DescentStep
  <2>5. CASE ~InsideTo(name, k) /\ Escapes(g[k])
    <3>1. ~InsideTo(name, k + 1)
      <4>1. \A j \in 1 .. k : j \in 1 .. k + 1
        OBVIOUS
      <4> QED
        BY <2>5, <4>1 DEF InsideTo
    <3> QED
      BY <2>1, <2>2, <2>3, <2>5, <3>1, EscapeStays
  <2> QED
    BY <2>1, <2>4, <2>5
<1>4. Known(Len(name))
  <2>1. \A k \in Nat : k \in P
    <3> HIDE DEF P
    <3> QED BY <1>2, <1>3, CountingInduction
  <2> QED
    BY <1>0, <2>1
<1>5. Inside(name) <=> InsideTo(name, Len(name))
  BY DEF Inside, InsideTo, Stays, Ups
<1>6. Path(Clean(name)) /\ Clean(name) = g[Len(name)]
  BY <1>1, <1>4
<1>7. SafeTarPath(name) <=> ~Escapes(Clean(name))
  <2>1. Clean(name) # <<>> => Head(Clean(name)) = Clean(name)[1]
    OBVIOUS
  <2> QED
    BY <2>1 DEF SafeTarPath, Escapes
<1>8. Descends(Clean(name), name, Len(name)) => ~Escapes(Clean(name))
  BY <1>6, PathIs DEF Descends, Escapes
<1> QED
  BY <1>4, <1>5, <1>6, <1>7, <1>8 DEF Descends

\* A name without ".." is clean already.
LEMMA CleanKeeps ==
    ASSUME NEW p, Path(p), \A i \in 1 .. Len(p) : p[i] # Up
    PROVE  Clean(p) = p
<1>0. Len(p) \in Nat
  BY PathIs
<1>1. PICK g : /\ Clean(p) = g[Len(p)]
               /\ g[0] = <<>>
               /\ \A k \in 1 .. Len(p) : g[k] = Join(g[k - 1], p[k])
  BY <1>0, CleanSteps
<1> DEFINE P == {k \in Nat : k <= Len(p) => Path(g[k]) /\ Len(g[k]) = k /\ Agree(g[k], p, k)}
<1>2. 0 \in P
  BY <1>1, EmptyPath DEF Agree
<1>3. ASSUME NEW k \in Nat, k \in P PROVE k + 1 \in P
  <2> SUFFICES ASSUME k + 1 <= Len(p)
               PROVE Path(g[k + 1]) /\ Len(g[k + 1]) = k + 1 /\ Agree(g[k + 1], p, k + 1)
    OBVIOUS
  <2>1. /\ k + 1 \in 1 .. Len(p) /\ (k + 1) - 1 = k
        /\ Path(g[k]) /\ Len(g[k]) = k /\ Agree(g[k], p, k)
    BY <1>0, <1>3
  <2>2. g[k + 1] = Append(g[k], p[k + 1])
    BY <1>1, <2>1 DEF Join
  <2> QED
    BY <2>1, <2>2, AppendedAgrees
<1>4. \A k \in Nat : k \in P
  <2> HIDE DEF P
  <2> QED BY <1>2, <1>3, CountingInduction
<1> QED
  BY <1>0, <1>1, <1>4, PathEqual

\* A name without backslashes is its own slash form.
LEMMA SlashKeeps ==
    ASSUME NEW p, Path(p), \A i \in 1 .. Len(p) : p[i] \notin {Up} \cup DOMAIN Backslashed
    PROVE  filepathToSlash(p) = p
<1>0. Len(p) \in Nat
  BY PathIs
<1>1. PICK g : /\ filepathToSlash(p) = Clean(g[Len(p)])
               /\ g[0] = <<>>
               /\ \A k \in 1 .. Len(p) : g[k] = More(g[k - 1], p[k])
  BY <1>0, SlashSteps
<1> DEFINE P == {k \in Nat : k <= Len(p) => Path(g[k]) /\ Len(g[k]) = k /\ Agree(g[k], p, k)}
<1>2. 0 \in P
  BY <1>1, EmptyPath DEF Agree
<1>3. ASSUME NEW k \in Nat, k \in P PROVE k + 1 \in P
  <2> SUFFICES ASSUME k + 1 <= Len(p)
               PROVE Path(g[k + 1]) /\ Len(g[k + 1]) = k + 1 /\ Agree(g[k + 1], p, k + 1)
    OBVIOUS
  <2>1. /\ k + 1 \in 1 .. Len(p) /\ (k + 1) - 1 = k
        /\ Path(g[k]) /\ Len(g[k]) = k /\ Agree(g[k], p, k)
    BY <1>0, <1>3
  <2>2. g[k + 1] = Append(g[k], p[k + 1])
    <3>1. g[k + 1] = g[k] \o <<p[k + 1]>>
      BY <1>1, <2>1 DEF More, Parted
    <3>2. PICK X : g[k] \in Seq(X)
      BY <2>1 DEF Path
    <3> QED
      BY <3>1, <3>2
  <2> QED
    BY <2>1, <2>2, AppendedAgrees
<1>4. \A k \in Nat : k \in P
  <2> HIDE DEF P
  <2> QED BY <1>2, <1>3, CountingInduction
<1>5. g[Len(p)] = p
  BY <1>0, <1>4, PathEqual
<1>6. Clean(p) = p
  BY CleanKeeps
<1> QED
  BY <1>1, <1>5, <1>6

-----------------------------------------------------------------------------
(***************************************************************************)
(* 5. Unpacking, entry by entry (memfs.go, tar.go).                        *)
(***************************************************************************)

\* A turn of the loop of unpackTar, which an error ends.
UnpackNext(m, a, k, l) == IF m.ok THEN UnpackEntry(m, a[k], k, l) ELSE m

\* g[k] is what unpackTar has built after k entries.
Reads(g, a, l, n) == g = [k \in 0 .. n |-> IF k = 0 THEN EmptyMemFS ELSE UnpackNext(g[k - 1], a, k, l)]

\* There is such a function.
LEMMA ReadsExists ==
    ASSUME NEW a, NEW l, NEW n \in Nat
    PROVE  \E g : Reads(g, a, l, n)
<1> DEFINE P == {k \in Nat : \E g : Reads(g, a, l, k)}
<1>1. 0 \in P
  <2> DEFINE g == [k \in 0 .. 0 |-> EmptyMemFS]
  <2>1. \A k \in 0 .. 0 : g[k] = IF k = 0 THEN EmptyMemFS ELSE UnpackNext(g[k - 1], a, k, l)
    OBVIOUS
  <2>2. g = [k \in 0 .. 0 |-> IF k = 0 THEN EmptyMemFS ELSE UnpackNext(g[k - 1], a, k, l)]
    BY <2>1
  <2> HIDE DEF g
  <2>3. Reads(g, a, l, 0)
    BY <2>2 DEF Reads
  <2> QED
    BY <2>3
<1>2. ASSUME NEW m \in Nat, m \in P PROVE m + 1 \in P
  <2>1. PICK g : Reads(g, a, l, m)
    BY <1>2
  <2> DEFINE h == [k \in 0 .. m + 1 |-> IF k = m + 1 THEN UnpackNext(g[m], a, m + 1, l) ELSE g[k]]
  <2>2. \A k \in 0 .. m : g[k] = IF k = 0 THEN EmptyMemFS ELSE UnpackNext(g[k - 1], a, k, l)
    BY <2>1 DEF Reads
  <2>3. ASSUME NEW k \in 0 .. m + 1
        PROVE  h[k] = IF k = 0 THEN EmptyMemFS ELSE UnpackNext(h[k - 1], a, k, l)
    <3>1. CASE k = m + 1
      <4>1. k # 0 /\ k - 1 = m /\ m \in 0 .. m + 1 /\ m # m + 1
        BY <3>1
      <4> QED
        BY <3>1, <4>1
    <3>2. CASE k # m + 1
      <4>1. k \in 0 .. m /\ (k # 0 => k - 1 \in 0 .. m + 1 /\ k - 1 # m + 1)
        BY <3>2
      <4> QED
        BY <2>2, <3>2, <4>1
    <3> QED
      BY <3>1, <3>2
  <2>4. h = [k \in 0 .. m + 1 |-> IF k = 0 THEN EmptyMemFS ELSE UnpackNext(h[k - 1], a, k, l)]
    BY <2>3
  <2> HIDE DEF h
  <2>5. Reads(h, a, l, m + 1)
    BY <2>4 DEF Reads
  <2> QED
    BY <2>5
<1>3. \A k \in Nat : k \in P
  <2> HIDE DEF P
  <2> QED BY <1>1, <1>2, CountingInduction
<1> QED
  BY <1>3

\* unpackTar can be unfolded entry by entry.
LEMMA UnpackSteps ==
    ASSUME NEW a, NEW l, Len(a) \in Nat
    PROVE  \E g : /\ unpackTar(a, l) = g[Len(a)]
                  /\ g[0] = EmptyMemFS
                  /\ \A k \in 1 .. Len(a) : g[k] = UnpackNext(g[k - 1], a, k, l)
<1> DEFINE g == CHOOSE g : Reads(g, a, l, Len(a))
<1>1. unpackTar(a, l) = g[Len(a)]
  BY DEF unpackTar, Unpack, Reads, UnpackNext
<1>2. Reads(g, a, l, Len(a))
  BY ReadsExists
<1> HIDE DEF g
<1>3. g[0] = EmptyMemFS
  BY <1>2 DEF Reads
<1>4. ASSUME NEW k \in 1 .. Len(a) PROVE g[k] = UnpackNext(g[k - 1], a, k, l)
  <2>1. k \in 0 .. Len(a) /\ k # 0
    OBVIOUS
  <2> QED
    BY <1>2, <2>1 DEF Reads
<1> QED
  BY <1>1, <1>3, <1>4

\* A sequence of entries that have sizes.
Sized(a) ==
    /\ Len(a) \in Nat /\ DOMAIN a = 1 .. Len(a)
    /\ \A i \in DOMAIN a : a[i].size \in Nat

\* The entries whose bytes a memFS holds.
Bytes(m) == {m.files[p] : p \in DOMAIN m.files}

MemFields == {"ok", "files", "isDir", "listed", "written"}

\* What a memFS holds is no more than what was read, and came from the first k
\* entries.
Accounted(m, a, k) ==
    /\ DOMAIN m = MemFields /\ m = [f \in MemFields |-> m[f]]
    /\ m.written \in Nat
    /\ Bytes(m) \subseteq 1 .. k
    /\ SizeOf(a, Bytes(m)) <= m.written

\* The size of a set of entries, one entry more.
LEMMA SizesAdd ==
    ASSUME NEW a, Sized(a), NEW S \in SUBSET DOMAIN a
    PROVE  /\ SizeOf(a, S) \in Nat
           /\ \A i \in DOMAIN a \ S : SizeOf(a, S \cup {i}) = a[i].size + SizeOf(a, S)
<1> DEFINE f == [i \in DOMAIN a |-> a[i].size]
<1>1. \A T : SizeOf(a, T) = Sum(f, T)
  BY DEF SizeOf, Sum
<1>2. IsFiniteSet(DOMAIN a) /\ IsFiniteSet(S) /\ \A i \in DOMAIN a : f[i] \in Nat /\ f[i] = a[i].size
  <2>1. IsFiniteSet(DOMAIN a)
    BY FS_Interval DEF Sized
  <2> QED
    BY <2>1, FS_Subset DEF Sized
<1> HIDE DEF f
<1>3. Sum(f, S) \in Nat
  BY <1>2, SumType
<1>4. ASSUME NEW i \in DOMAIN a \ S PROVE Sum(f, S \cup {i}) = a[i].size + Sum(f, S)
  <2> DEFINE T == S \cup {i}
  <2>1. IsFiniteSet(T) /\ (\A x \in T : f[x] \in Nat) /\ T \ {i} = S /\ i \in T
    BY <1>2, FS_AddElement
  <2> HIDE DEF T
  <2>2. Sum(f, T) = f[i] + Sum(f, T \ {i})
    BY <2>1, SumRemoves
  <2> QED
    BY <1>2, <2>1, <2>2 DEF T
<1> QED
  BY <1>1, <1>3, <1>4

\* One entry of unpackTar keeps the account: a path written twice is read twice
\* and held once.
LEMMA EntryAccounts ==
    ASSUME NEW a, Sized(a), NEW l \in Nat, NEW k \in 1 .. Len(a), NEW m, Accounted(m, a, k - 1)
    PROVE  Accounted(UnpackEntry(m, a[k], k, l), a, k)
<1> DEFINE e == a[k]
           p == filepathToSlash(Clean(e.name))
           safe == SafeTarPath(e.name)
<1>1. /\ e.size \in Nat /\ Bytes(m) \subseteq 1 .. k - 1 /\ m.written \in Nat
      /\ DOMAIN m = MemFields
      /\ SizeOf(a, Bytes(m)) <= m.written /\ SizeOf(a, Bytes(m)) \in Nat
  <2>1. Bytes(m) \in SUBSET DOMAIN a
    BY DEF Accounted, Sized
  <2> QED
    BY <2>1, SizesAdd DEF Accounted, Sized
<1>2. Bytes(m) \subseteq 1 .. k
  BY <1>1 DEF Sized
<1>3. ASSUME NEW m2, DOMAIN m2 = MemFields, m2 = [f \in MemFields |-> m2[f]],
             m2.files = m.files, m2.written = m.written
      PROVE  Accounted(m2, a, k)
  <2>1. Bytes(m2) = Bytes(m)
    BY <1>3 DEF Bytes
  <2> QED
    BY <1>1, <1>2, <1>3, <2>1 DEF Accounted
<1>4. Accounted(m, a, k)
  BY <1>3 DEF Accounted
<1>5. Accounted(Refuse(m), a, k)
  BY <1>1, <1>3 DEF Refuse, MemFields
<1>6. \A q : /\ DOMAIN addDir(m, q) = MemFields
             /\ addDir(m, q) = [f \in MemFields |-> addDir(m, q)[f]]
             /\ addDir(m, q).files = m.files /\ addDir(m, q).written = m.written
  BY <1>1 DEF addDir, MemFields
<1>7. Accounted(addDir(m, p), a, k)
  <2> HIDE DEF p
  <2> QED BY <1>3, <1>6
<1>8. Accounted(UnpackFile(m, p, e, k, l), a, k)
  <2> DEFINE w == m.written + Copied(m.written, e.size, l)
             b == addFile(m, p, k)
             u == [b EXCEPT !.written = w]
  <2> HIDE DEF p, e
  <2>1. UnpackFile(m, p, e, k, l) = IF TooLarge(w, l) THEN Refuse(m) ELSE u
    BY DEF UnpackFile
  <2>2. ~TooLarge(w, l) => w = m.written + e.size
    BY <1>1 DEF TooLarge, Copied
  <2>3. CASE TooLarge(w, l)
    BY <1>5, <2>1, <2>3
  <2>4. CASE ~TooLarge(w, l) /\ p \in DOMAIN m.files
    <3>1. u = [m EXCEPT !.written = w]
      BY <2>4 DEF addFile
    <3>2. /\ DOMAIN u = MemFields /\ u = [f \in MemFields |-> u[f]]
          /\ u.files = m.files /\ u.written = w
      BY <1>1, <3>1 DEF MemFields
    <3> HIDE DEF u, w
    <3>3. Bytes(u) = Bytes(m)
      BY <3>2 DEF Bytes
    <3>4. w \in Nat /\ m.written <= w
      BY <1>1, <2>2, <2>4
    <3>5. Accounted(u, a, k)
      BY <1>1, <1>2, <3>2, <3>3, <3>4 DEF Accounted
    <3> QED
      BY <2>1, <2>4, <3>5
  <2>5. CASE ~TooLarge(w, l) /\ p \notin DOMAIN m.files
    <3> DEFINE d == addDir(m, Dir(p))
    <3>1. /\ DOMAIN d = MemFields /\ d.files = m.files
          /\ b = [d EXCEPT !.files = With(@, p, k), !.listed = @ (+) SetToBag({p})]
      BY <1>6, <2>5 DEF addFile
    <3> HIDE DEF d
    <3>2. DOMAIN b = MemFields /\ b.files = With(m.files, p, k)
      <4> DEFINE x == With(d.files, p, k)
                 y == d.listed (+) SetToBag({p})
      <4>1. b = [d EXCEPT !.files = x, !.listed = y]
        BY <3>1
      <4> HIDE DEF x, y, b
      <4>2. DOMAIN b = MemFields /\ b.files = x
        BY <3>1, <4>1 DEF MemFields
      <4> QED
        BY <3>1, <4>2 DEF x
    <3> HIDE DEF b
    <3>3. /\ DOMAIN u = MemFields /\ u = [f \in MemFields |-> u[f]]
          /\ u.files = With(m.files, p, k) /\ u.written = w
      BY <3>2 DEF MemFields
    <3> HIDE DEF u, w
    <3>4. Bytes(u) = Bytes(m) \cup {k}
      <4>1. /\ DOMAIN u.files = DOMAIN m.files \cup {p}
            /\ u.files[p] = k
            /\ \A q \in DOMAIN m.files : u.files[q] = m.files[q]
        BY <2>5, <3>3 DEF With
      <4>2. ASSUME NEW x \in Bytes(u) PROVE x \in Bytes(m) \cup {k}
        BY <4>1 DEF Bytes
      <4>3. ASSUME NEW x \in Bytes(m) \cup {k} PROVE x \in Bytes(u)
        BY <4>1 DEF Bytes
      <4> QED
        BY <4>2, <4>3
    <3>5. SizeOf(a, Bytes(m) \cup {k}) = e.size + SizeOf(a, Bytes(m))
      <4>1. Bytes(m) \in SUBSET DOMAIN a /\ k \in DOMAIN a \ Bytes(m)
        BY <1>1 DEF Sized
      <4> QED
        BY <4>1, SizesAdd DEF e
    <3>6. w \in Nat /\ SizeOf(a, Bytes(u)) <= w
      BY <1>1, <2>2, <2>5, <3>4, <3>5
    <3>7. Bytes(u) \subseteq 1 .. k
      BY <1>2, <3>4 DEF Sized
    <3>8. Accounted(u, a, k)
      BY <3>3, <3>6, <3>7 DEF Accounted
    <3> QED
      BY <2>1, <2>5, <3>8
  <2> QED
    BY <2>3, <2>4, <2>5
<1>9. UnpackEntry(m, e, k, l) \in {m, Refuse(m), addDir(m, p), UnpackFile(m, p, e, k, l)}
  <2> HIDE DEF e
  <2>1. UnpackEntry(m, e, k, l) =
           CASE e.kind = "broken" \/ ~safe -> Refuse(m)
             [] e.kind = "dir" /\ safe /\ p # <<>> -> addDir(m, p)
             [] e.kind = "file" /\ safe /\ p # <<>> -> UnpackFile(m, p, e, k, l)
             [] OTHER -> m
    BY DEF UnpackEntry
  <2> HIDE DEF safe, p
  <2> QED
    BY <2>1
<1> QED
  BY <1>4, <1>5, <1>7, <1>8, <1>9

\* So no unpacked site holds more bytes than it is charged for.
LEMMA UnpackAccounts ==
    ASSUME NEW a, Sized(a), NEW l \in Nat
    PROVE  Accounted(unpackTar(a, l), a, Len(a))
<1>1. PICK g : /\ unpackTar(a, l) = g[Len(a)]
               /\ g[0] = EmptyMemFS
               /\ \A k \in 1 .. Len(a) : g[k] = UnpackNext(g[k - 1], a, k, l)
  BY UnpackSteps DEF Sized
<1> DEFINE P == {k \in Nat : k \in 0 .. Len(a) => Accounted(g[k], a, k)}
<1>2. 0 \in P
  <2> DEFINE m == EmptyMemFS
  <2>1. DOMAIN m = MemFields /\ m = [f \in MemFields |-> m[f]] /\ m.written = 0 /\ m.files = <<>>
    BY DEF EmptyMemFS, MemFields
  <2> HIDE DEF m
  <2>2. Bytes(m) = {}
    BY <2>1 DEF Bytes
  <2>3. SizeOf(a, {}) = 0
    BY FS_EmptySet, SumStep DEF SizeOf, Sum
  <2>4. SizeOf(a, Bytes(m)) <= m.written /\ m.written \in Nat /\ Bytes(m) \subseteq 1 .. 0
    BY <2>1, <2>2, <2>3
  <2>5. Accounted(m, a, 0)
    BY <2>1, <2>4 DEF Accounted
  <2> QED
    BY <1>1, <2>5 DEF m
<1>3. ASSUME NEW k \in Nat, k \in P PROVE k + 1 \in P
  <2> SUFFICES ASSUME k + 1 \in 0 .. Len(a) PROVE Accounted(g[k + 1], a, k + 1)
    OBVIOUS
  <2> DEFINE n == k + 1
  <2>1. n \in 1 .. Len(a) /\ n - 1 = k /\ k \in 0 .. Len(a)
    BY DEF Sized
  <2>2. Accounted(g[n - 1], a, n - 1)
    BY <1>3, <2>1
  <2> HIDE DEF n
  <2>3. Accounted(UnpackEntry(g[n - 1], a[n], n, l), a, n)
    BY <2>1, <2>2, EntryAccounts
  <2>4. Accounted(g[n - 1], a, n)
    BY <2>1, <2>2 DEF Accounted, Sized
  <2>5. Accounted(g[n], a, n)
    BY <1>1, <2>1, <2>3, <2>4 DEF UnpackNext
  <2> QED
    BY <2>5 DEF n
<1>4. \A k \in Nat : k \in P
  <2> HIDE DEF P
  <2> QED BY <1>2, <1>3, CountingInduction
<1> QED
  BY <1>1, <1>4 DEF Sized

\* The files and directories of a memFS.
Nodes(m) == DOMAIN m.files \cup m.isDir

\* Every node has its ancestry registered as directories, and is listed once
\* for each way it is used, as a file or as a directory.
Walkable(m) ==
    /\ DOMAIN m = MemFields
    /\ \A p \in Nodes(m) : Path(p) /\ p # <<>> /\ Prefixes(Dir(p)) \subseteq m.isDir
    /\ DOMAIN m.listed = Nodes(m)
    /\ \A p \in Nodes(m) : m.listed[p] = One(p \in DOMAIN m.files) + One(p \in m.isDir)

\* Appending names to the listings, counted.
LEMMA BagAdds ==
    ASSUME NEW B, NEW S
    PROVE  /\ DOMAIN (B (+) SetToBag(S)) = DOMAIN B \cup S
           /\ \A x \in DOMAIN B \cup S :
                 (B (+) SetToBag(S))[x] = (IF x \in DOMAIN B THEN B[x] ELSE 0) + One(x \in S)
BY DEF SetToBag, One, (+)

\* addDir registers the ancestry and lists only what is new.
LEMMA AddDirWalks ==
    ASSUME NEW m, Walkable(m), NEW dir, Path(dir)
    PROVE  /\ Walkable(addDir(m, dir))
           /\ addDir(m, dir).isDir = m.isDir \cup Prefixes(dir)
           /\ addDir(m, dir).files = m.files /\ addDir(m, dir).ok = m.ok
           /\ addDir(m, dir).written = m.written
<1> DEFINE new == {p \in Prefixes(dir) :
                     \A q \in Prefixes(dir) : Len(q) >= Len(p) => q \notin m.isDir}
           b == m.listed (+) SetToBag(new)
           d == addDir(m, dir)
<1>1. \A q \in m.isDir : Path(q) /\ Prefixes(q) \subseteq m.isDir
  <2> SUFFICES ASSUME NEW q \in m.isDir PROVE Path(q) /\ Prefixes(q) \subseteq m.isDir
    OBVIOUS
  <2>1. Path(q) /\ q # <<>> /\ Prefixes(Dir(q)) \subseteq m.isDir
    BY DEF Walkable, Nodes
  <2>2. Prefixes(q) = Prefixes(Dir(q)) \cup {q}
    BY <2>1, PrefixOrder
  <2> QED
    BY <2>1, <2>2
<1>2. new = Prefixes(dir) \ m.isDir
  <2>1. ASSUME NEW p \in new PROVE p \in Prefixes(dir) \ m.isDir
    <3>1. p \in Prefixes(dir)
      OBVIOUS
    <3>2. Len(p) >= Len(p)
      BY <3>1, PrefixesIs, PathIs
    <3> QED
      BY <3>1, <3>2
  <2>2. ASSUME NEW p \in Prefixes(dir) \ m.isDir PROVE p \in new
    <3> SUFFICES ASSUME NEW q \in Prefixes(dir), Len(q) >= Len(p), q \in m.isDir PROVE FALSE
      OBVIOUS
    <3>1. p \in Prefixes(q)
      BY PrefixOrder
    <3> QED
      BY <1>1, <3>1
  <2> QED
    BY <2>1, <2>2
<1>3. d = [m EXCEPT !.isDir = @ \cup new, !.listed = b]
  BY DEF addDir
<1>4. /\ DOMAIN d = MemFields /\ d.isDir = m.isDir \cup new /\ d.listed = b
      /\ d.files = m.files /\ d.ok = m.ok /\ d.written = m.written
  <2> HIDE DEF b, d, new
  <2> QED BY <1>3 DEF Walkable, MemFields
<1>5. /\ DOMAIN b = DOMAIN m.listed \cup new
      /\ \A x \in DOMAIN m.listed \cup new :
            b[x] = (IF x \in DOMAIN m.listed THEN m.listed[x] ELSE 0) + One(x \in new)
  <2> HIDE DEF new
  <2> QED BY BagAdds
<1> HIDE DEF b, d, new
<1>6. d.isDir = m.isDir \cup Prefixes(dir)
  BY <1>2, <1>4
<1>7. Nodes(d) = Nodes(m) \cup new /\ DOMAIN m.listed = Nodes(m)
  BY <1>4 DEF Nodes, Walkable
<1>8. ASSUME NEW p \in Nodes(d) PROVE Path(p) /\ p # <<>> /\ Prefixes(Dir(p)) \subseteq d.isDir
  <2>1. CASE p \in Nodes(m)
    BY <1>4, <2>1 DEF Walkable
  <2>2. CASE p \in Prefixes(dir)
    <3>1. Path(p) /\ p # <<>> /\ Prefixes(p) \subseteq Prefixes(dir)
      BY <2>2, PrefixOrder
    <3>2. Prefixes(Dir(p)) \subseteq Prefixes(p)
      BY <3>1, PrefixOrder
    <3> QED
      BY <1>6, <3>1, <3>2
  <2> QED
    BY <1>2, <1>7, <1>8, <2>1, <2>2
<1>9. ASSUME NEW p \in Nodes(d)
      PROVE  d.listed[p] = One(p \in DOMAIN d.files) + One(p \in d.isDir)
  <2>1. CASE p \in new
    <3>1. p \notin m.isDir
      BY <1>2, <2>1
    <3> QED
      BY <1>4, <1>5, <1>7, <2>1, <3>1 DEF Walkable, Nodes, One
  <2>2. CASE p \notin new
    <3>1. p \in Nodes(m)
      BY <1>7, <2>2
    <3> QED
      BY <1>4, <1>5, <1>7, <2>2, <3>1 DEF Walkable, Nodes, One
  <2> QED
    BY <2>1, <2>2
<1>10. Walkable(d)
  BY <1>4, <1>5, <1>7, <1>8, <1>9 DEF Walkable
<1> QED
  BY <1>4, <1>6, <1>10 DEF d

\* addFile registers the directory and lists the file once, also when it is
\* written again.
LEMMA AddFileWalks ==
    ASSUME NEW m, Walkable(m), NEW p, Path(p), p # <<>>, NEW i
    PROVE  Walkable(addFile(m, p, i))
<1> DEFINE f == addFile(m, p, i)
           d == addDir(m, Dir(p))
           x == With(d.files, p, i)
           y == d.listed (+) SetToBag({p})
<1>1. CASE p \in DOMAIN m.files
  BY <1>1 DEF addFile
<1>2. CASE p \notin DOMAIN m.files
  <2>1. /\ Walkable(d) /\ d.isDir = m.isDir \cup Prefixes(Dir(p))
        /\ d.files = m.files
    BY AddDirWalks, PrefixOrder
  <2>2. f = [d EXCEPT !.files = x, !.listed = y]
    BY <1>2 DEF addFile
  <2>3. DOMAIN x = DOMAIN m.files \cup {p}
    BY <2>1 DEF With
  <2>4. /\ DOMAIN y = DOMAIN d.listed \cup {p}
        /\ \A q \in DOMAIN d.listed \cup {p} :
              y[q] = (IF q \in DOMAIN d.listed THEN d.listed[q] ELSE 0) + One(q \in {p})
    BY BagAdds
  <2> HIDE DEF f, d, x, y
  <2>5. DOMAIN f = MemFields /\ f.isDir = d.isDir /\ f.files = x /\ f.listed = y
    BY <2>1, <2>2 DEF Walkable, MemFields
  <2>6. Nodes(f) = Nodes(d) \cup {p} /\ DOMAIN d.listed = Nodes(d)
    BY <2>1, <2>3, <2>5 DEF Nodes, Walkable
  <2>7. ASSUME NEW q \in Nodes(f) PROVE Path(q) /\ q # <<>> /\ Prefixes(Dir(q)) \subseteq f.isDir
    BY <2>1, <2>5, <2>6, <2>7 DEF Walkable
  <2>8. ASSUME NEW q \in Nodes(f)
        PROVE  f.listed[q] = One(q \in DOMAIN f.files) + One(q \in f.isDir)
    <3>1. CASE q = p
      BY <1>2, <2>1, <2>3, <2>4, <2>5, <2>6, <3>1 DEF Walkable, Nodes, One
    <3>2. CASE q # p
      BY <2>1, <2>3, <2>4, <2>5, <2>6, <2>8, <3>2 DEF Walkable, Nodes, One
    <3> QED
      BY <3>1, <3>2
  <2>9. Walkable(f)
    BY <2>4, <2>5, <2>6, <2>7, <2>8 DEF Walkable
  <2> QED
    BY <2>9 DEF f
<1> QED
  BY <1>1, <1>2

\* Refusing an entry or counting its bytes leaves the tree as it is.
LEMMA SetWrittenWalks ==
    ASSUME NEW m, Walkable(m)
    PROVE  /\ Walkable(Refuse(m))
           /\ \A w : Walkable([m EXCEPT !.written = w])
<1>1. ASSUME NEW m2, DOMAIN m2 = MemFields, m2.files = m.files, m2.isDir = m.isDir,
             m2.listed = m.listed
      PROVE  Walkable(m2)
  BY <1>1 DEF Walkable, Nodes
<1>2. DOMAIN m = MemFields
  BY DEF Walkable
<1>3. Walkable(Refuse(m))
  BY <1>1, <1>2 DEF Refuse, MemFields
<1>4. ASSUME NEW w PROVE Walkable([m EXCEPT !.written = w])
  BY <1>1, <1>2 DEF MemFields
<1> QED
  BY <1>3, <1>4

\* Every entry of unpackTar keeps the tree walkable.
LEMMA EntryWalks ==
    ASSUME NEW m, Walkable(m), NEW e, Path(e.name), NEW i, NEW l
    PROVE  Walkable(UnpackEntry(m, e, i, l))
<1> DEFINE p == filepathToSlash(Clean(e.name))
           safe == SafeTarPath(e.name)
           w == m.written + Copied(m.written, e.size, l)
<1>1. Path(p)
  BY CleanPath, SlashPath
<1>2. UnpackEntry(m, e, i, l) =
         CASE e.kind = "broken" \/ ~safe -> Refuse(m)
           [] e.kind = "dir" /\ safe /\ p # <<>> -> addDir(m, p)
           [] e.kind = "file" /\ safe /\ p # <<>> -> UnpackFile(m, p, e, i, l)
           [] OTHER -> m
  BY DEF UnpackEntry
<1> HIDE DEF p, safe
<1>3. UnpackFile(m, p, e, i, l) =
         IF TooLarge(w, l) THEN Refuse(m) ELSE [addFile(m, p, i) EXCEPT !.written = w]
  BY DEF UnpackFile
<1>4. Walkable(Refuse(m)) /\ Walkable(addDir(m, p))
  BY <1>1, SetWrittenWalks, AddDirWalks
<1>5. p # <<>> => Walkable([addFile(m, p, i) EXCEPT !.written = w])
  <2> HIDE DEF w
  <2> QED BY <1>1, AddFileWalks, SetWrittenWalks
<1> QED
  BY <1>2, <1>3, <1>4, <1>5

\* Every name is a path that only its first component can make absolute.
Named(a) == \A i \in DOMAIN a : Path(a[i].name) /\ Rooted(a[i].name)

\* After every entry the tree is walkable, so also when unpackTar returns.
LEMMA UnpackWalks ==
    ASSUME NEW a, Sized(a), Named(a), NEW l
    PROVE  \E g : /\ unpackTar(a, l) = g[Len(a)]
                  /\ g[0] = EmptyMemFS
                  /\ \A k \in 1 .. Len(a) : g[k] = UnpackNext(g[k - 1], a, k, l)
                  /\ \A k \in Nat : k <= Len(a) => Walkable(g[k])
<1>0. Len(a) \in Nat /\ DOMAIN a = 1 .. Len(a)
  BY DEF Sized
<1>1. PICK g : /\ unpackTar(a, l) = g[Len(a)]
               /\ g[0] = EmptyMemFS
               /\ \A k \in 1 .. Len(a) : g[k] = UnpackNext(g[k - 1], a, k, l)
  BY <1>0, UnpackSteps
<1> DEFINE P == {k \in Nat : k <= Len(a) => Walkable(g[k])}
<1>2. 0 \in P
  <2> DEFINE m == EmptyMemFS
  <2>1. DOMAIN m = MemFields /\ m.files = <<>> /\ m.isDir = {} /\ m.listed = EmptyBag
    BY DEF EmptyMemFS, MemFields
  <2>2. DOMAIN EmptyBag = {}
    BY DEF EmptyBag, SetToBag
  <2> HIDE DEF m
  <2>3. Nodes(m) = {}
    BY <2>1 DEF Nodes
  <2> QED
    BY <1>1, <2>1, <2>2, <2>3 DEF Walkable, m
<1>3. ASSUME NEW k \in Nat, k \in P PROVE k + 1 \in P
  <2> SUFFICES ASSUME k + 1 <= Len(a) PROVE Walkable(g[k + 1])
    OBVIOUS
  <2>1. k + 1 \in 1 .. Len(a) /\ (k + 1) - 1 = k /\ Walkable(g[k])
    BY <1>0, <1>3
  <2>2. g[k + 1] = IF g[k].ok THEN UnpackEntry(g[k], a[k + 1], k + 1, l) ELSE g[k]
    BY <1>1, <2>1 DEF UnpackNext
  <2>3. Path(a[k + 1].name)
    BY <1>0, <2>1 DEF Named
  <2> QED
    BY <2>1, <2>2, <2>3, EntryWalks
<1>4. \A k \in Nat : k \in P
  <2> HIDE DEF P
  <2> QED BY <1>2, <1>3, CountingInduction
<1> QED
  BY <1>0, <1>1, <1>4

\* A turn of the loop of extractTar.
ExtractNext(t, a, k, l) == IF t.ok THEN ExtractEntry(t, a[k], k, l) ELSE t

\* g[k] is what extractTar has written after k entries.
Extracts(g, a, l, n) == g = [k \in 0 .. n |-> IF k = 0 THEN EmptyDir ELSE ExtractNext(g[k - 1], a, k, l)]

\* There is such a function.
LEMMA ExtractsExists ==
    ASSUME NEW a, NEW l, NEW n \in Nat
    PROVE  \E g : Extracts(g, a, l, n)
<1> DEFINE P == {k \in Nat : \E g : Extracts(g, a, l, k)}
<1>1. 0 \in P
  <2> DEFINE g == [k \in 0 .. 0 |-> EmptyDir]
  <2>1. \A k \in 0 .. 0 : g[k] = IF k = 0 THEN EmptyDir ELSE ExtractNext(g[k - 1], a, k, l)
    OBVIOUS
  <2>2. g = [k \in 0 .. 0 |-> IF k = 0 THEN EmptyDir ELSE ExtractNext(g[k - 1], a, k, l)]
    BY <2>1
  <2> HIDE DEF g
  <2>3. Extracts(g, a, l, 0)
    BY <2>2 DEF Extracts
  <2> QED
    BY <2>3
<1>2. ASSUME NEW m \in Nat, m \in P PROVE m + 1 \in P
  <2>1. PICK g : Extracts(g, a, l, m)
    BY <1>2
  <2> DEFINE h == [k \in 0 .. m + 1 |-> IF k = m + 1 THEN ExtractNext(g[m], a, m + 1, l) ELSE g[k]]
  <2>2. \A k \in 0 .. m : g[k] = IF k = 0 THEN EmptyDir ELSE ExtractNext(g[k - 1], a, k, l)
    BY <2>1 DEF Extracts
  <2>3. ASSUME NEW k \in 0 .. m + 1
        PROVE  h[k] = IF k = 0 THEN EmptyDir ELSE ExtractNext(h[k - 1], a, k, l)
    <3>1. CASE k = m + 1
      <4>1. k # 0 /\ k - 1 = m /\ m \in 0 .. m + 1 /\ m # m + 1
        BY <3>1
      <4> QED
        BY <3>1, <4>1
    <3>2. CASE k # m + 1
      <4>1. k \in 0 .. m /\ (k # 0 => k - 1 \in 0 .. m + 1 /\ k - 1 # m + 1)
        BY <3>2
      <4> QED
        BY <2>2, <3>2, <4>1
    <3> QED
      BY <3>1, <3>2
  <2>4. h = [k \in 0 .. m + 1 |-> IF k = 0 THEN EmptyDir ELSE ExtractNext(h[k - 1], a, k, l)]
    BY <2>3
  <2> HIDE DEF h
  <2>5. Extracts(h, a, l, m + 1)
    BY <2>4 DEF Extracts
  <2> QED
    BY <2>5
<1>3. \A k \in Nat : k \in P
  <2> HIDE DEF P
  <2> QED BY <1>1, <1>2, CountingInduction
<1> QED
  BY <1>3

\* extractTar can be unfolded entry by entry.
LEMMA ExtractSteps ==
    ASSUME NEW a, NEW l, Len(a) \in Nat
    PROVE  \E g : /\ extractTar(a, l) = g[Len(a)]
                  /\ g[0] = EmptyDir
                  /\ \A k \in 1 .. Len(a) : g[k] = ExtractNext(g[k - 1], a, k, l)
<1> DEFINE g == CHOOSE g : Extracts(g, a, l, Len(a))
<1>1. extractTar(a, l) = g[Len(a)]
  BY DEF extractTar, Unpack, Extracts, ExtractNext
<1>2. Extracts(g, a, l, Len(a))
  BY ExtractsExists
<1> HIDE DEF g
<1>3. g[0] = EmptyDir
  BY <1>2 DEF Extracts
<1>4. ASSUME NEW k \in 1 .. Len(a) PROVE g[k] = ExtractNext(g[k - 1], a, k, l)
  <2>1. k \in 0 .. Len(a) /\ k # 0
    OBVIOUS
  <2> QED
    BY <1>2, <2>1 DEF Extracts
<1> QED
  BY <1>1, <1>3, <1>4

-----------------------------------------------------------------------------
(***************************************************************************)
(* 6. Directories as archives (WriteDirAsTar).                             *)
(***************************************************************************)

\* The order of filepath.WalkDir: a directory before what is in it, siblings by
\* name.
LEMMA BeforeIs ==
    ASSUME NEW p \in Seq(Nat) \ {<<>>}, NEW q \in Seq(Nat) \ {<<>>}
    PROVE  Before(p, q) <=> \/ Len(p) < Len(q) /\ Agree(p, q, Len(p))
                            \/ \E k \in 1 .. Len(p) : k <= Len(q) /\ p[k] < q[k] /\ Agree(p, q, k - 1)
<1>0. Len(p) \in Nat /\ Len(q) \in Nat /\ Len(p) >= 1 /\ Len(q) >= 1
  OBVIOUS
<1> DEFINE d == Dir(q)
<1>1. d \in Seq(Nat) /\ Len(d) = Len(q) - 1 /\ \A i \in 1 .. Len(q) - 1 : d[i] = q[i]
  <2> DEFINE n == Len(q) - 1
  <2>1. n \in 0 .. Len(q) /\ q \in Seq(Nat)
    BY <1>0
  <2> HIDE DEF n
  <2>2. /\ SubSeq(q, 1, n) \in Seq(Nat) /\ Len(SubSeq(q, 1, n)) = n
        /\ \A i \in 1 .. n : SubSeq(q, 1, n)[i] = q[i]
    BY <2>1
  <2> QED
    BY <2>2 DEF Dir, n
<1> HIDE DEF d
<1>2. \A k \in 1 .. Len(d) : /\ SubSeq(d, 1, k) \in Seq(Nat) /\ Len(SubSeq(d, 1, k)) = k
                             /\ \A i \in 1 .. k : SubSeq(d, 1, k)[i] = q[i]
  <2> SUFFICES ASSUME NEW k \in 1 .. Len(d)
               PROVE  /\ SubSeq(d, 1, k) \in Seq(Nat) /\ Len(SubSeq(d, 1, k)) = k
                      /\ \A i \in 1 .. k : SubSeq(d, 1, k)[i] = q[i]
    OBVIOUS
  <2>1. /\ SubSeq(d, 1, k) \in Seq(Nat) /\ Len(SubSeq(d, 1, k)) = k
        /\ \A i \in 1 .. k : SubSeq(d, 1, k)[i] = d[i]
    BY <1>1
  <2>2. \A i \in 1 .. k : i \in 1 .. Len(q) - 1
    BY <1>0, <1>1
  <2> QED
    BY <1>1, <2>1, <2>2
<1>3. p \in Prefixes(d) <=> Len(p) < Len(q) /\ Agree(p, q, Len(p))
  <2>1. ASSUME p \in Prefixes(d) PROVE Len(p) < Len(q) /\ Agree(p, q, Len(p))
    <3>1. PICK k \in 1 .. Len(d) : p = SubSeq(d, 1, k)
      BY <2>1 DEF Prefixes
    <3>2. Len(p) = k /\ \A i \in 1 .. k : p[i] = q[i]
      BY <1>2, <3>1
    <3> QED
      BY <1>0, <1>1, <3>1, <3>2 DEF Agree
  <2>2. ASSUME Len(p) < Len(q), Agree(p, q, Len(p)) PROVE p \in Prefixes(d)
    <3> DEFINE k == Len(p)
    <3>1. k \in 1 .. Len(d)
      BY <1>0, <1>1, <2>2
    <3>2. /\ SubSeq(d, 1, k) \in Seq(Nat) /\ Len(SubSeq(d, 1, k)) = k
          /\ \A i \in 1 .. k : SubSeq(d, 1, k)[i] = q[i]
      BY <1>2, <3>1
    <3>3. \A i \in 1 .. Len(p) : p[i] = SubSeq(d, 1, k)[i]
      BY <2>2, <3>2 DEF Agree
    <3>4. p = SubSeq(d, 1, k)
      BY <3>2, <3>3, SeqEqual
    <3> QED
      BY <3>1, <3>4 DEF Prefixes
  <2> QED
    BY <2>1, <2>2
<1>4. ASSUME NEW k \in 1 .. Len(p), k <= Len(q)
      PROVE  SubSeq(p, 1, k - 1) = SubSeq(q, 1, k - 1) <=> Agree(p, q, k - 1)
  <2> DEFINE a == SubSeq(p, 1, k - 1)
             b == SubSeq(q, 1, k - 1)
  <2>1. a \in Seq(Nat) /\ Len(a) = k - 1 /\ \A i \in 1 .. k - 1 : a[i] = p[i]
    BY <1>0
  <2>2. b \in Seq(Nat) /\ Len(b) = k - 1 /\ \A i \in 1 .. k - 1 : b[i] = q[i]
    BY <1>0, <1>4
  <2> HIDE DEF a, b
  <2>3. (\A i \in 1 .. Len(a) : a[i] = b[i]) => a = b
    BY <2>1, <2>2, SeqEqual
  <2>4. a = b <=> Agree(p, q, k - 1)
    BY <2>1, <2>2, <2>3 DEF Agree
  <2> QED
    BY <2>4 DEF a, b
<1> QED
  BY <1>3, <1>4 DEF Before, d

\* It is a strict total order.
LEMMA BeforeOrders ==
    ASSUME NEW S, S \subseteq Seq(Nat) \ {<<>>}
    PROVE  /\ \A p \in S : ~Before(p, p)
           /\ \A p, q, r \in S : Before(p, q) /\ Before(q, r) => Before(p, r)
           /\ \A p, q \in S : p # q => Before(p, q) \/ Before(q, p)
<1>0. \A p \in S : Len(p) \in Nat /\ \A i \in 1 .. Len(p) : p[i] \in Nat
  OBVIOUS
<1>1. ASSUME NEW p \in S PROVE ~Before(p, p)
  <2>1. p \in Seq(Nat) \ {<<>>}
    OBVIOUS
  <2> QED
    BY <1>0, <2>1, BeforeIs
<1>2. ASSUME NEW p \in S, NEW q \in S, NEW r \in S, Before(p, q), Before(q, r)
      PROVE  Before(p, r)
  <2>1. p \in Seq(Nat) \ {<<>>} /\ q \in Seq(Nat) \ {<<>>} /\ r \in Seq(Nat) \ {<<>>}
    OBVIOUS
  <2>2. \/ Len(p) < Len(q) /\ Agree(p, q, Len(p))
        \/ \E k \in 1 .. Len(p) : k <= Len(q) /\ p[k] < q[k] /\ Agree(p, q, k - 1)
    BY <1>2, <2>1, BeforeIs
  <2>3. \/ Len(q) < Len(r) /\ Agree(q, r, Len(q))
        \/ \E k \in 1 .. Len(q) : k <= Len(r) /\ q[k] < r[k] /\ Agree(q, r, k - 1)
    BY <1>2, <2>1, BeforeIs
  <2> SUFFICES \/ Len(p) < Len(r) /\ Agree(p, r, Len(p))
               \/ \E k \in 1 .. Len(p) : k <= Len(r) /\ p[k] < r[k] /\ Agree(p, r, k - 1)
    BY <2>1, BeforeIs
  <2>4. CASE Len(p) < Len(q) /\ Agree(p, q, Len(p)) /\ Len(q) < Len(r) /\ Agree(q, r, Len(q))
    BY <1>0, <2>4 DEF Agree
  <2>5. ASSUME Len(p) < Len(q), Agree(p, q, Len(p)),
               NEW k \in 1 .. Len(q), k <= Len(r), q[k] < r[k], Agree(q, r, k - 1)
        PROVE  \/ Len(p) < Len(r) /\ Agree(p, r, Len(p))
               \/ \E j \in 1 .. Len(p) : j <= Len(r) /\ p[j] < r[j] /\ Agree(p, r, j - 1)
    <3>1. CASE k <= Len(p)
      <4>1. k \in 1 .. Len(p) /\ p[k] = q[k] /\ \A i \in 1 .. k - 1 : i \in 1 .. Len(p)
        BY <1>0, <2>5, <3>1 DEF Agree
      <4>2. Agree(p, r, k - 1)
        BY <2>5, <4>1 DEF Agree
      <4> QED
        BY <2>5, <4>1, <4>2
    <3>2. CASE k > Len(p)
      <4>1. Len(p) \in Int /\ k - 1 \in Int /\ Len(p) <= k - 1 /\ Len(p) <= Len(p)
        BY <1>0, <3>2
      <4>2. Agree(q, r, Len(p))
        BY <2>5, <4>1, AgreeMore
      <4>3. Agree(p, r, Len(p))
        BY <2>5, <4>1, <4>2, AgreeMore
      <4>4. Len(p) < Len(r)
        BY <1>0, <2>5, <3>2
      <4> QED
        BY <4>3, <4>4
    <3> QED
      BY <1>0, <3>1, <3>2
  <2>6. ASSUME Len(q) < Len(r), Agree(q, r, Len(q)),
               NEW k \in 1 .. Len(p), k <= Len(q), p[k] < q[k], Agree(p, q, k - 1)
        PROVE  \E j \in 1 .. Len(p) : j <= Len(r) /\ p[j] < r[j] /\ Agree(p, r, j - 1)
    <3>1. q[k] = r[k] /\ k <= Len(r)
      BY <1>0, <2>6 DEF Agree
    <3>2. Agree(p, r, k - 1)
      BY <1>0, <2>6 DEF Agree
    <3> QED
      BY <2>6, <3>1, <3>2
  <2>7. ASSUME NEW k \in 1 .. Len(p), k <= Len(q), p[k] < q[k], Agree(p, q, k - 1),
               NEW m \in 1 .. Len(q), m <= Len(r), q[m] < r[m], Agree(q, r, m - 1)
        PROVE  \E j \in 1 .. Len(p) : j <= Len(r) /\ p[j] < r[j] /\ Agree(p, r, j - 1)
    <3>1. CASE k < m
      <4>0. k <= m - 1 /\ k - 1 <= m - 1 /\ k <= Len(r) /\ m - 1 \in Int /\ k - 1 \in Int /\ k >= 1
        BY <1>0, <2>7, <3>1
      <4>2. Agree(q, r, m - 1)
        BY <2>7
      <4>3. q[k] = r[k]
        BY <4>0, <4>2 DEF Agree
      <4>4. Agree(q, r, k - 1)
        BY <4>0, <4>2, AgreeMore
      <4>5. k - 1 <= k - 1
        BY <4>0
      <4>6. Agree(p, r, k - 1)
        BY <2>7, <4>0, <4>4, <4>5, AgreeMore
      <4>1. q[k] = r[k] /\ k <= Len(r) /\ Agree(p, r, k - 1)
        BY <4>0, <4>3, <4>6
      <4> QED
        BY <2>7, <4>1
    <3>2. CASE k = m
      <4>1. k \in 1 .. Len(r) /\ p[k] \in Nat /\ q[k] \in Nat /\ r[k] \in Nat
        BY <1>0, <2>7, <3>2
      <4>5. p[k] < q[k] /\ q[k] < r[k]
        BY <2>7, <3>2
      <4>6. \A x, y, z \in Nat : x < y /\ y < z => x < z
        OBVIOUS
      <4>2. p[k] < r[k]
        BY <4>1, <4>5, <4>6, Zenon
      <4>3. k - 1 \in Int /\ k - 1 <= k - 1
        BY <1>0
      <4>4. Agree(p, r, k - 1)
        BY <2>7, <3>2, <4>3, AgreeMore
      <4> QED
        BY <2>7, <3>2, <4>2, <4>4
    <3>3. CASE k > m
      <4>0. m <= k - 1 /\ m - 1 <= k - 1 /\ m \in 1 .. Len(p) /\ m - 1 \in Int /\ k - 1 \in Int /\ m >= 1
        BY <1>0, <2>7, <3>3
      <4>2. Agree(p, q, k - 1)
        BY <2>7
      <4>3. p[m] = q[m]
        BY <4>0, <4>2 DEF Agree
      <4>5. \A i \in 1 .. m - 1 : i \in 1 .. k - 1
        BY <4>0
      <4>4. Agree(p, r, m - 1)
        BY <2>7, <4>2, <4>5 DEF Agree
      <4>1. p[m] = q[m] /\ m \in 1 .. Len(p) /\ Agree(p, r, m - 1)
        BY <4>0, <4>3, <4>4
      <4> QED
        BY <2>7, <4>1
    <3> QED
      BY <1>0, <3>1, <3>2, <3>3
  <2> QED
    BY <2>2, <2>3, <2>4, <2>5, <2>6, <2>7
<1>3. ASSUME NEW p \in S, NEW q \in S, p # q PROVE Before(p, q) \/ Before(q, p)
  <2>1. p \in Seq(Nat) \ {<<>>} /\ q \in Seq(Nat) \ {<<>>}
    OBVIOUS
  <2> DEFINE T == {k \in Nat \ {0} : k <= Len(p) /\ k <= Len(q) /\ p[k] # q[k]}
  <2>2. CASE T = {}
    <3>1. ASSUME NEW i \in 1 .. Len(p), i <= Len(q) PROVE p[i] = q[i]
      <4>1. i \in Nat \ {0} /\ i <= Len(p)
        BY <1>0
      <4> QED
        BY <2>2, <3>1, <4>1
    <3>2. CASE Len(p) < Len(q)
      <4>1. Agree(p, q, Len(p))
        BY <1>0, <3>1, <3>2 DEF Agree
      <4> QED
        BY <2>1, <3>2, <4>1, BeforeIs
    <3>3. CASE Len(q) < Len(p)
      <4>1. Agree(q, p, Len(q))
        BY <1>0, <3>1, <3>3 DEF Agree
      <4> QED
        BY <2>1, <3>3, <4>1, BeforeIs
    <3>4. CASE Len(p) = Len(q)
      <4>1. \A i \in 1 .. Len(p) : p[i] = q[i]
        BY <1>0, <3>1, <3>4
      <4>2. p = q
        BY <2>1, <3>4, <4>1, SeqEqual
      <4> QED
        BY <1>3, <4>2
    <3> QED
      BY <1>0, <3>2, <3>3, <3>4
  <2>3. CASE T # {}
    <3>1. PICK k \in T : \A j \in T : k <= j
      <4>1. T \subseteq Nat
        OBVIOUS
      <4> HIDE DEF T
      <4> QED
        BY <2>3, <4>1, LeastNat
    <3>2. k \in 1 .. Len(p) /\ k \in 1 .. Len(q) /\ p[k] # q[k] /\ p[k] \in Nat /\ q[k] \in Nat
      BY <1>0, <3>1
    <3>3. ASSUME NEW i \in 1 .. k - 1 PROVE p[i] = q[i]
      <4>1. i \in Nat \ {0} /\ i <= Len(p) /\ i <= Len(q) /\ ~(k <= i)
        BY <1>0, <3>2
      <4>2. i \notin T
        BY <3>1, <4>1
      <4> QED
        BY <4>1, <4>2
    <3>4. Agree(p, q, k - 1) /\ Agree(q, p, k - 1)
      BY <3>3 DEF Agree
    <3>5. CASE p[k] < q[k]
      BY <1>0, <2>1, <3>2, <3>4, <3>5, BeforeIs
    <3>6. CASE q[k] < p[k]
      BY <1>0, <2>1, <3>2, <3>4, <3>6, BeforeIs
    <3> QED
      BY <3>2, <3>5, <3>6
  <2> QED
    BY <2>2, <2>3
<1> QED
  BY <1>1, <1>2, <1>3

\* The place of a path among those the walk visits.
Rank(S, p) == Cardinality({q \in S : Before(q, p)})

\* Every place is taken, by one path: the walk enumerates the directory.
LEMMA RanksTaken ==
    ASSUME NEW S, IsFiniteSet(S), S \subseteq Seq(Nat) \ {<<>>}
    PROVE  /\ Cardinality(S) \in Nat
           /\ \A k \in 1 .. Cardinality(S) : \E p \in S : Rank(S, p) = k - 1
           /\ \A p \in S : Rank(S, p) \in 0 .. Cardinality(S) - 1
           /\ \A p, q \in S : Rank(S, p) = Rank(S, q) => p = q
<1> DEFINE n == Cardinality(S)
           below(p) == {q \in S : Before(q, p)}
           T == 0 .. n - 1
           f == [p \in S |-> Rank(S, p)]
<1>1. n \in Nat
  BY FS_CardinalityType
<1>2. /\ \A p \in S : ~Before(p, p)
      /\ \A p, q, r \in S : Before(p, q) /\ Before(q, r) => Before(p, r)
      /\ \A p, q \in S : p # q => Before(p, q) \/ Before(q, p)
  BY BeforeOrders
<1>3. ASSUME NEW p \in S
      PROVE  IsFiniteSet(below(p)) /\ Rank(S, p) \in Nat /\ Rank(S, p) \in T
  <2>1. below(p) \in SUBSET S /\ p \notin below(p)
    BY <1>2
  <2>2. IsFiniteSet(below(p)) /\ Cardinality(below(p)) <= n /\ (n = Cardinality(below(p)) => S = below(p))
    <3> HIDE DEF below
    <3> QED BY <2>1, FS_Subset
  <2>3. Cardinality(below(p)) \in Nat
    BY <2>2, FS_CardinalityType
  <2>4. Cardinality(below(p)) # n
    BY <2>1, <2>2
  <2> QED
    BY <1>1, <2>2, <2>3, <2>4 DEF Rank
<1>4. ASSUME NEW p \in S, NEW q \in S, Before(p, q) PROVE Rank(S, p) < Rank(S, q)
  <2>1. below(p) \in SUBSET below(q) /\ p \in below(q) /\ p \notin below(p)
    BY <1>2, <1>4
  <2>2. Cardinality(below(p)) <= Cardinality(below(q))
        /\ (Cardinality(below(q)) = Cardinality(below(p)) => below(q) = below(p))
    <3>1. IsFiniteSet(below(q))
      BY <1>3
    <3> HIDE DEF below
    <3> QED BY <2>1, <3>1, FS_Subset
  <2>3. Rank(S, p) # Rank(S, q)
    BY <2>1, <2>2 DEF Rank
  <2>4. Rank(S, p) \in Nat /\ Rank(S, q) \in Nat
    BY <1>3
  <2> QED
    BY <2>2, <2>3, <2>4 DEF Rank
<1>5. \A p, q \in S : Rank(S, p) = Rank(S, q) => p = q
  <2> SUFFICES ASSUME NEW p \in S, NEW q \in S, Rank(S, p) = Rank(S, q), p # q PROVE FALSE
    OBVIOUS
  <2>1. Rank(S, p) \in Nat /\ Rank(S, q) \in Nat
    BY <1>3
  <2> QED
    BY <1>2, <1>4, <2>1
<1>7. IsFiniteSet(T) /\ Cardinality(T) = n
  <2>1. 0 \in Int /\ n - 1 \in Int
    BY <1>1
  <2>2. IsFiniteSet(T) /\ Cardinality(T) = IF 0 > n - 1 THEN 0 ELSE n - 1 - 0 + 1
    BY <2>1, FS_Interval
  <2> QED
    BY <1>1, <2>2
<1>9. ASSUME NEW k \in 1 .. n PROVE \E p \in S : Rank(S, p) = k - 1
  <2> SUFFICES ASSUME \A p \in S : Rank(S, p) # k - 1 PROVE FALSE
    OBVIOUS
  <2> DEFINE U == T \ {k - 1}
  <2>1. k - 1 \in T
    BY <1>1
  <2>2. IsFiniteSet(U) /\ Cardinality(U) = n - 1
    <3> HIDE DEF T
    <3> QED BY <1>7, <2>1, FS_RemoveElement
  <2>3. Cardinality(U) < Cardinality(S)
    BY <1>1, <2>2
  <2>4. f \in [S -> U]
    BY <1>3
  <2> HIDE DEF U
  <2>5. \E p, q \in S : p # q /\ f[p] = f[q]
    <3> HIDE DEF f
    <3> QED BY <2>2, <2>3, <2>4, FS_PigeonHole
  <2> QED
    BY <1>5, <2>5
<1> QED
  BY <1>1, <1>3, <1>5, <1>9

\* What is written: links are left out.
Kept(tree) == {p \in DOMAIN tree : tree[p].kind # "link"}

TarEntry(tree, p) == [kind |-> tree[p].kind, name |-> p, size |-> tree[p].size]

\* WriteDirAsTar writes one entry for each of them and nothing else.
LEMMA WrittenIs ==
    ASSUME NEW tree \in Trees
    PROVE  /\ Cardinality(Kept(tree)) \in Nat
           /\ Len(WriteDirAsTar(tree)) = Cardinality(Kept(tree))
           /\ WriteDirAsTar(tree) \in Seq({TarEntry(tree, p) : p \in Kept(tree)})
           /\ \A p \in Kept(tree) : \E k \in 1 .. Cardinality(Kept(tree)) :
                 WriteDirAsTar(tree)[k] = TarEntry(tree, p)
           /\ \A j, k \in 1 .. Cardinality(Kept(tree)) :
                 WriteDirAsTar(tree)[j] = WriteDirAsTar(tree)[k] => j = k
<1> DEFINE S == Kept(tree)
           n == Cardinality(S)
           nth(k) == CHOOSE p \in S : Rank(S, p) = k - 1
           w == WriteDirAsTar(tree)
           V == {TarEntry(tree, p) : p \in S}
<1>1. IsFiniteSet(S) /\ S \subseteq Seq(Nat) \ {<<>>}
  <2>1. IsFiniteSet(DOMAIN tree) /\ DOMAIN tree \subseteq Seq(Nat) \ {<<>>} /\ S \in SUBSET DOMAIN tree
    BY TreesAssumption DEF Kept
  <2> HIDE DEF S
  <2> QED
    BY <2>1, FS_Subset
<1>2. w = [k \in 1 .. n |-> TarEntry(tree, nth(k))]
  BY DEF WriteDirAsTar, Kept, Rank, TarEntry
<1> HIDE DEF S
<1>3. /\ n \in Nat
      /\ \A k \in 1 .. n : \E p \in S : Rank(S, p) = k - 1
      /\ \A p \in S : Rank(S, p) \in 0 .. n - 1
      /\ \A p, q \in S : Rank(S, p) = Rank(S, q) => p = q
  BY <1>1, RanksTaken
<1>4. \A k \in 1 .. n : nth(k) \in S /\ Rank(S, nth(k)) = k - 1
  BY <1>3
<1> HIDE DEF nth, w
<1>5. w \in Seq(V) /\ Len(w) = n
  <2>1. \A k \in 1 .. n : TarEntry(tree, nth(k)) \in V
    BY <1>4
  <2>2. w \in [1 .. n -> V]
    BY <1>2, <2>1
  <2> HIDE DEF V
  <2>3. w \in Seq(V)
    BY <1>3, <2>2
  <2>4. DOMAIN w = 1 .. n /\ DOMAIN w = 1 .. Len(w) /\ Len(w) \in Nat
    BY <2>2, <2>3
  <2> QED
    BY <1>3, <2>3, <2>4
<1>6. ASSUME NEW p \in S PROVE \E k \in 1 .. n : w[k] = TarEntry(tree, p)
  <2> DEFINE k == Rank(S, p) + 1
  <2>1. k \in 1 .. n /\ k - 1 = Rank(S, p)
    BY <1>3
  <2> HIDE DEF k
  <2>2. nth(k) = p
    BY <1>3, <1>4, <2>1
  <2> QED
    BY <1>2, <2>1, <2>2
<1>7. ASSUME NEW j \in 1 .. n, NEW k \in 1 .. n, w[j] = w[k] PROVE j = k
  <2>1. nth(j) = nth(k)
    BY <1>2, <1>7 DEF TarEntry
  <2>2. j - 1 = k - 1
    BY <1>4, <2>1
  <2> QED
    BY <1>3, <2>2
<1> QED
  BY <1>3, <1>5, <1>6, <1>7 DEF w, S

\* Every archive that can be uploaded, a walk cut short included, is a sequence
\* of entries that have sizes.
LEMMA OfferedSized ==
    ASSUME NEW u \in Offered
    PROVE  Sized(u.archive)
<1>1. ASSUME NEW a \in Archives, u = PushReaderWithExpiry(a) PROVE Sized(u.archive)
  <2>1. u.archive = a
    BY <1>1 DEF PushReaderWithExpiry
  <2>2. a \in Seq({a[i] : i \in DOMAIN a}) /\ \A i \in DOMAIN a : a[i].size \in Nat
    BY ArchivesAssumption
  <2>3. Len(a) \in Nat /\ DOMAIN a = 1 .. Len(a)
    BY <2>2
  <2> QED
    BY <2>1, <2>2, <2>3 DEF Sized
<1>2. ASSUME NEW tree \in Trees, NEW k \in 0 .. Len(WriteDirAsTar(tree)), u = PushWithExpiry(tree, k)
      PROVE  Sized(u.archive)
  <2> DEFINE w == WriteDirAsTar(tree)
             V == {TarEntry(tree, p) : p \in Kept(tree)}
             a == SubSeq(w, 1, k)
  <2>1. u.archive = a
    BY <1>2 DEF PushWithExpiry
  <2>2. w \in Seq(V) /\ Len(w) \in Nat
    BY WrittenIs
  <2>3. \A e \in V : e.size \in Nat
    BY TreesAssumption DEF TarEntry, Kept
  <2> HIDE DEF V, w
  <2>4. a \in Seq(V) /\ Len(a) = k
    BY <1>2, <2>2 DEF w
  <2> HIDE DEF a
  <2>5. DOMAIN a = 1 .. Len(a) /\ Len(a) \in Nat /\ \A i \in DOMAIN a : a[i] \in V
    BY <2>4
  <2> QED
    BY <2>1, <2>3, <2>5 DEF Sized
<1> QED
  BY <1>1, <1>2 DEF Offered

\* Their names are paths.
LEMMA OfferedNamed ==
    ASSUME NEW u \in Offered
    PROVE  Named(u.archive)
<1>1. ASSUME NEW a \in Archives, u = PushReaderWithExpiry(a) PROVE Named(u.archive)
  <2>1. u.archive = a
    BY <1>1 DEF PushReaderWithExpiry
  <2>2. \A i \in DOMAIN a : /\ a[i].name \in Seq({a[i].name[k] : k \in DOMAIN a[i].name})
                            /\ \A k \in 2 .. Len(a[i].name) : a[i].name[k] # Slash
    BY ArchivesAssumption
  <2> QED
    BY <2>1, <2>2 DEF Named, Path, Rooted
<1>2. ASSUME NEW tree \in Trees, NEW k \in 0 .. Len(WriteDirAsTar(tree)), u = PushWithExpiry(tree, k)
      PROVE  Named(u.archive)
  <2> DEFINE w == WriteDirAsTar(tree)
             V == {TarEntry(tree, p) : p \in Kept(tree)}
             a == SubSeq(w, 1, k)
  <2>1. u.archive = a
    BY <1>2 DEF PushWithExpiry
  <2>2. w \in Seq(V) /\ Len(w) \in Nat
    BY WrittenIs
  <2>3. ASSUME NEW e \in V PROVE Path(e.name) /\ Rooted(e.name)
    <3>1. PICK p \in Kept(tree) : e = TarEntry(tree, p)
      OBVIOUS
    <3>2. p \in Seq(Nat) /\ \A i \in DOMAIN p : p[i] \notin {Up, Slash}
      BY TreesAssumption DEF Kept
    <3>3. e.name = p
      BY <3>1 DEF TarEntry
    <3> QED
      BY <3>2, <3>3 DEF Path, Rooted
  <2> HIDE DEF V, w
  <2>4. a \in Seq(V) /\ Len(a) = k
    BY <1>2, <2>2 DEF w
  <2> HIDE DEF a
  <2>5. DOMAIN a = 1 .. Len(a) /\ Len(a) \in Nat /\ \A i \in DOMAIN a : a[i] \in V
    BY <2>4
  <2> QED
    BY <2>1, <2>3, <2>5 DEF Named
<1> QED
  BY <1>1, <1>2 DEF Offered

\* What the model pushes is among what can be uploaded.
LEMMA UploadsOffered == Uploads \subseteq Offered
<1>1. TypicalPushes \subseteq Offered
  BY TypicalAssumption DEF TypicalPushes, Offered
<1> QED
  BY <1>1 DEF Uploads

-----------------------------------------------------------------------------
(***************************************************************************)
(* 7. The inductive invariant.                                             *)
(***************************************************************************)

\* The archives, origins and contents of uploads.
Pushable == {u.archive : u \in Offered}

Origins == {u.origin : u \in Offered}

Expanded == {unpackTar(a, l) : a \in Pushable, l \in Limits}

\* The uploads so far, each with what unpackTar made of it.
History ==
    /\ archive \in Seq(Pushable) /\ owner \in Seq(Names) /\ content \in Seq(Expanded)
    /\ origin \in Seq(Origins)
    /\ Len(owner) = Len(archive) /\ Len(content) = Len(archive) /\ Len(origin) = Len(archive)
    /\ maxBytes \in Budgets /\ limit \in Limits
    /\ \A v \in DOMAIN archive : content[v] = unpackTar(archive[v], limit)

\* Types and history; list, map and curBytes consistent and within budget; the
\* list in the order of last use; a reader that is loading knows what.
CacheInv ==
    /\ TypeOK
    /\ History
    /\ Consistent(cache) /\ Frugal(cache)
    /\ older = Order(cache)
    /\ \A r \in Readers : at[r] # "idle" => want[r] # NoSite

\* Every version has a charge, and holds no more than that.
LEMMA Prices ==
    ASSUME History
    PROVE  /\ Priced /\ maxBytes \in Int
           /\ \A v \in Versions : Held(v) \in Nat /\ Held(v) <= Charge(v)
<1>1. archive \in Seq(Pushable) /\ Versions = 1 .. Len(archive) /\ Len(archive) \in Nat
  BY DEF History, Versions
<1>2. IsFiniteSet(Versions)
  BY <1>1, FS_Interval
<1>3. ASSUME NEW v \in Versions
      PROVE  Charge(v) \in Nat /\ Held(v) \in Nat /\ Held(v) <= Charge(v)
  <2> DEFINE a == archive[v]
             m == content[v]
  <2>1. a \in Pushable
    BY <1>1, <1>3 DEF Versions
  <2>2. Sized(a)
    BY <2>1, OfferedSized DEF Pushable
  <2>3. m = unpackTar(a, limit) /\ limit \in Nat
    BY <1>3, SettingsAssumption DEF History, Versions
  <2>4. Accounted(m, a, Len(a))
    <3> HIDE DEF a, m
    <3> QED BY <2>2, <2>3, UnpackAccounts
  <2>5. Held(v) = SizeOf(a, Bytes(m)) /\ Charge(v) = m.written
    BY DEF Held, Bytes, Charge
  <2>6. SizeOf(a, Bytes(m)) \in Nat
    <3>1. Bytes(m) \in SUBSET DOMAIN a
      BY <2>2, <2>4 DEF Accounted, Sized
    <3> HIDE DEF a, m
    <3> QED BY <2>2, <3>1, SizesAdd
  <2> QED
    BY <2>4, <2>5, <2>6 DEF Accounted
<1> QED
  BY <1>2, <1>3, SettingsAssumption DEF Priced, History

\* The list is as long as the map is large.
LEMMA ListCounts ==
    ASSUME NEW c, Consistent(c), Priced
    PROVE  Cardinality(c.items) = Len(c.ll)
<1> DEFINE n == Len(c.ll)
           f == [i \in 1 .. n |-> c.ll[i]]
           g == [x \in c.items |-> CHOOSE i \in 1 .. n : c.ll[i] = x]
<1>1. /\ n \in Nat /\ c.items \in SUBSET Versions
      /\ c.items = {c.ll[i] : i \in 1 .. n}
      /\ \A i, j \in 1 .. n : c.ll[i] = c.ll[j] => i = j
  BY DEF Consistent, CacheRecords, Listed
<1>2. IsFiniteSet(c.items) /\ IsFiniteSet(1 .. n) /\ Cardinality(1 .. n) = n
  <2>1. IsFiniteSet(c.items)
    BY <1>1, FS_Subset DEF Priced
  <2>0. 1 \in Int /\ n \in Int
    BY <1>1
  <2>2. IsFiniteSet(1 .. n) /\ Cardinality(1 .. n) = IF 1 > n THEN 0 ELSE n - 1 + 1
    <3> HIDE DEF n
    <3> QED BY <2>0, FS_Interval
  <2> QED
    BY <1>1, <2>1, <2>2
<1>3. Cardinality(c.items) \in Nat
  BY <1>2, FS_CardinalityType
<1>4. ASSUME Cardinality(c.items) < n PROVE FALSE
  <2>1. f \in [1 .. n -> c.items]
    BY <1>1
  <2>2. \E i, j \in 1 .. n : i # j /\ f[i] = f[j]
    <3> HIDE DEF f
    <3> QED BY <1>2, <1>4, <2>1, FS_PigeonHole
  <2> QED
    BY <1>1, <2>2
<1>5. ASSUME n < Cardinality(c.items) PROVE FALSE
  <2>1. \A x \in c.items : g[x] \in 1 .. n /\ c.ll[g[x]] = x
    BY <1>1
  <2>2. g \in [c.items -> 1 .. n]
    BY <2>1
  <2>3. \E x, y \in c.items : x # y /\ g[x] = g[y]
    <3> HIDE DEF g
    <3> QED BY <1>2, <1>5, <2>2, FS_PigeonHole
  <2> HIDE DEF g
  <2> QED
    BY <2>1, <2>3
<1> QED
  BY <1>1, <1>3, <1>4, <1>5

\* CacheInv is strong enough for what the cache promises.
LEMMA AccountsFollow == CacheInv => CacheAccounts
<1> SUFFICES ASSUME CacheInv PROVE CacheAccounts
  OBVIOUS
<1>1. /\ Priced /\ maxBytes \in Int
      /\ \A v \in Versions : Held(v) \in Nat /\ Held(v) <= Charge(v)
  BY Prices DEF CacheInv
<1>2. /\ cache.items = {cache.ll[i] : i \in DOMAIN cache.ll}
      /\ cache.items \in SUBSET Versions
      /\ cache.curBytes = Sum(Charges, cache.items)
  BY DEF CacheInv, Consistent, CacheRecords, Listed
<1>3. Cardinality(cache.items) = Len(cache.ll)
  BY <1>1, ListCounts DEF CacheInv
<1>4. Total(Charge, cache.items) = Sum(Charges, cache.items)
  BY DEF Total, Sum, Charges, Versions
<1> DEFINE helds == [v \in Versions |-> Held(v)]
<1>5. Total(Held, cache.items) = Sum(helds, cache.items)
  BY DEF Total, Sum, Versions
<1>6. Sum(helds, cache.items) <= Sum(Charges, cache.items)
  <2>1. IsFiniteSet(cache.items)
    BY <1>1, <1>2, ChargesAdd
  <2>2. \A v \in cache.items : helds[v] \in Nat /\ Charges[v] \in Nat /\ helds[v] <= Charges[v]
    BY <1>1, <1>2 DEF Charges, Priced
  <2> HIDE DEF helds
  <2> QED
    BY <2>1, <2>2, SumMonotone
<1>7. cache.items # {} => cache.curBytes <= maxBytes
  BY DEF CacheInv, Frugal
<1> QED
  BY <1>2, <1>3, <1>4, <1>5, <1>6, <1>7 DEF CacheAccounts

\* Without a new upload the versions and their charges stay as they are.
LEMMA SameUploads ==
    ASSUME archive' = archive, content' = content, maxBytes' = maxBytes
    PROVE  /\ Versions' = Versions
           /\ Consistent(cache)' <=> Consistent(cache')
           /\ Frugal(cache)' <=> Frugal(cache')
           /\ Order(cache)' = Order(cache')
<1>1. Versions' = Versions /\ \A v : Charge(v)' = Charge(v)
  BY DEF Versions, Charge
<1>2. Charges' = Charges
  BY <1>1 DEF Charges
<1>3. CacheRecords' = CacheRecords
  BY <1>1 DEF CacheRecords
<1> QED
  BY <1>1, <1>2, <1>3 DEF Consistent, Frugal, Order, Listed

\* newContentCache returns an empty, consistent cache.
LEMMA InitiallyConsistent ==
    ASSUME Init
    PROVE  CacheInv
<1>1. archive = <<>> /\ owner = <<>> /\ content = <<>> /\ origin = <<>>
      /\ cache = [ll |-> <<>>, items |-> {}, curBytes |-> 0]
  BY DEF Init
<1>2. Versions = {} /\ Len(archive) = 0
  BY <1>1 DEF Versions
<1>3. History
  BY <1>1, <1>2 DEF History, Init, Versions
<1>4. Sum(Charges, {}) = 0
  BY FS_EmptySet, SumStep
<1>5. cache.ll = <<>> /\ cache.items = {} /\ cache.curBytes = 0 /\ Len(cache.ll) = 0
  BY <1>1
<1>6. cache \in CacheRecords
  BY <1>1 DEF CacheRecords
<1>7. Listed(cache) = {} /\ Order(cache) = {}
  BY <1>5 DEF Listed, Order
<1>8. Consistent(cache) /\ Frugal(cache)
  BY <1>4, <1>5, <1>6, <1>7 DEF Consistent, Frugal
<1>9. TypeOK
  BY <1>1, <1>2, <1>5, BoundsAssumption DEF TypeOK, Init, Versions
<1> QED
  BY <1>3, <1>7, <1>8, <1>9 DEF CacheInv, Init

\* A new upload gets the next version, so nothing cached changes its meaning.
LEMMA ReplaceKeeps ==
    ASSUME CacheInv, NEW n \in Names, Replace(n)
    PROVE  CacheInv'
<1>1. PICK u \in Uploads :
          /\ archive' = Append(archive, u.archive)
          /\ owner' = Append(owner, n)
          /\ origin' = Append(origin, u.origin)
          /\ content' = Append(content, unpackTar(u.archive, limit))
          /\ \/ /\ live' = [live EXCEPT ![n] = Len(archive) + 1]
                /\ objects' = (objects \ {live[n]}) \cup {Len(archive) + 1}
                /\ putting' = Len(archive) + 1
             \/ UNCHANGED <<live, objects, putting>>
  BY DEF Replace
<1>2. UNCHANGED <<maxBytes, limit, cache, at, want, older>> /\ Len(archive) < MaxPushes
  BY DEF Replace
<1>3. u \in Offered
  BY UploadsOffered
<1>4. /\ archive \in Seq(Pushable) /\ owner \in Seq(Names) /\ content \in Seq(Expanded)
      /\ origin \in Seq(Origins)
      /\ Len(owner) = Len(archive) /\ Len(content) = Len(archive) /\ Len(origin) = Len(archive)
      /\ maxBytes \in Budgets /\ limit \in Limits
      /\ u.archive \in Pushable /\ u.origin \in Origins
      /\ unpackTar(u.archive, limit) \in Expanded
      /\ Len(archive) \in Nat
      /\ \A v \in DOMAIN archive : content[v] = unpackTar(archive[v], limit)
  BY <1>3 DEF CacheInv, History, Pushable, Origins, Expanded
<1> DEFINE k == Len(archive)
<1>5. /\ archive' \in Seq(Pushable) /\ Len(archive') = k + 1
      /\ archive'[k + 1] = u.archive /\ \A v \in 1 .. k : archive'[v] = archive[v]
  BY <1>1, <1>4
<1>6. /\ content' \in Seq(Expanded) /\ Len(content') = k + 1
      /\ content'[k + 1] = unpackTar(u.archive, limit) /\ \A v \in 1 .. k : content'[v] = content[v]
  BY <1>1, <1>4
<1>7. /\ owner' \in Seq(Names) /\ Len(owner') = k + 1
  BY <1>1, <1>4
<1>8. origin' \in Seq(Origins) /\ Len(origin') = k + 1
  BY <1>1, <1>4
<1>9. /\ DOMAIN archive = 1 .. k /\ DOMAIN archive' = 1 .. k + 1
      /\ \A v \in 1 .. k + 1 : (v \in 1 .. k) \/ (v = k + 1)
      /\ 1 .. k \subseteq 1 .. k + 1 /\ k + 1 \in 1 .. k + 1
  BY <1>4, <1>5
<1>10. History'
  <2>1. \A v \in DOMAIN archive' : content'[v] = unpackTar(archive'[v], limit)
    BY <1>4, <1>5, <1>6, <1>9
  <2> QED
    BY <1>2, <1>4, <1>5, <1>6, <1>7, <1>8, <2>1 DEF History
<1>11. Versions = 1 .. k /\ Versions' = 1 .. k + 1 /\ Versions \subseteq Versions'
  BY <1>9 DEF Versions
<1>12. \A v \in Versions : Charge(v)' = Charge(v)
  BY <1>6, <1>11 DEF Charge
<1>13. Priced /\ cache.items \in SUBSET Versions /\ IsFiniteSet(cache.items)
  <2>1. Priced
    BY Prices DEF CacheInv
  <2>2. cache.items \in SUBSET Versions
    BY DEF CacheInv, Consistent, CacheRecords
  <2> QED
    BY <2>1, <2>2, ChargesAdd
<1>14. Sum(Charges', cache.items) = Sum(Charges, cache.items)
  <2>1. \A v \in cache.items : Charges'[v] = Charges[v]
    BY <1>11, <1>12, <1>13 DEF Charges
  <2> QED
    BY <1>13, <2>1, SumAgrees
<1>15. cache \in CacheRecords'
  <2>1. cache \in CacheRecords
    BY DEF CacheInv, Consistent
  <2>2. \A s \in Seq(Versions) : s \in Seq(Versions')
    BY <1>11
  <2> QED
    BY <1>11, <2>1, <2>2 DEF CacheRecords
<1>16. Consistent(cache)'
  <2>1. Sum(Charges, cache.items)' = Sum(Charges', cache.items)
    BY <1>2 DEF Sum
  <2>2. Listed(cache)' = Listed(cache)
    BY <1>2 DEF Listed
  <2> QED
    BY <1>2, <1>14, <1>15, <2>1, <2>2 DEF CacheInv, Consistent
<1>17. Frugal(cache)'
  BY <1>2 DEF CacheInv, Frugal
<1>18. Order(cache)' = Order(cache)
  <2>1. \A i \in 1 .. Len(cache.ll) : cache.ll[i] \in Versions
    BY DEF CacheInv, Consistent, CacheRecords
  <2> DEFINE later(e) == \E i, j \in 1 .. Len(cache.ll) : j < i /\ e = <<cache.ll[i], cache.ll[j]>>
  <2>2. Order(cache) = {e \in Versions \X Versions : later(e)}
    BY DEF Order
  <2>3. Order(cache)' = {e \in Versions' \X Versions' : later(e)}
    BY <1>2 DEF Order
  <2>4. \A e : later(e) => e \in Versions \X Versions
    BY <2>1
  <2>5. \A e \in Versions \X Versions : e \in Versions' \X Versions'
    BY <1>11
  <2> HIDE DEF later
  <2> QED
    BY <2>2, <2>3, <2>4, <2>5
<1>19. TypeOK'
  <2>1. Len(archive') <= MaxPushes /\ Len(owner') = Len(archive') /\ Len(content') = Len(archive')
    BY <1>2, <1>4, <1>5, <1>6, <1>7, BoundsAssumption
  <2>2. \A v \in DOMAIN archive' : owner'[v] \in Names
    BY <1>5, <1>7
  <2>3. live' \in [Names -> DOMAIN archive' \cup {NoSite}]
        /\ objects' \subseteq DOMAIN archive' /\ putting' \in DOMAIN archive' \cup {NoSite}
    <3>1. /\ live \in [Names -> 1 .. k \cup {NoSite}] /\ objects \subseteq 1 .. k
          /\ putting \in 1 .. k \cup {NoSite}
      BY <1>9 DEF CacheInv, TypeOK
    <3> DEFINE K == 1 .. k
               L == DOMAIN archive'
               v == k + 1
    <3>0. K \subseteq L /\ v \in L
      BY <1>9
    <3> HIDE DEF K, L, v
    <3>2. CASE UNCHANGED <<live, objects, putting>>
      <4>1. live' \in [Names -> L \cup {NoSite}]
        BY <3>0, <3>1, <3>2 DEF K
      <4> QED
        BY <3>0, <3>1, <3>2, <4>1 DEF K, L
    <3>3. CASE /\ live' = [live EXCEPT ![n] = v]
               /\ objects' = (objects \ {live[n]}) \cup {v}
               /\ putting' = v
      <4>1. live' \in [Names -> L \cup {NoSite}]
        BY <3>0, <3>1, <3>3 DEF K
      <4>2. objects' \subseteq L
        BY <3>0, <3>1, <3>3 DEF K
      <4> QED
        BY <3>0, <3>3, <4>1, <4>2 DEF L
    <3> QED
      BY <1>1, <3>2, <3>3 DEF v
  <2> QED
    BY <1>2, <1>9, <2>1, <2>2, <2>3 DEF CacheInv, TypeOK
<1> QED
  BY <1>2, <1>10, <1>16, <1>17, <1>18, <1>19 DEF CacheInv

\* A put, of an upload or of a reader who loaded meanwhile, keeps the cache's
\* part of the invariant and takes out the oldest entries only.
LEMMA UsedIs ==
    ASSUME CacheInv, NEW v \in Versions, cache' = put(cache, v), Used(cache', v),
           archive' = archive, content' = content, maxBytes' = maxBytes
    PROVE  /\ Consistent(cache)' /\ Frugal(cache)' /\ older' = Order(cache)'
           /\ OldestOut(cache, cache')
<1>1. Priced /\ maxBytes \in Int /\ Consistent(cache) /\ Frugal(cache) /\ older = Order(cache)
  BY Prices DEF CacheInv
<1>2. /\ Consistent(cache') /\ Frugal(cache') /\ OldestOut(cache, cache')
      /\ Order(cache') = UsedLast(cache', Order(cache), v)
  BY <1>1, PutKeeps
<1>3. older' = UsedLast(cache', older, v)
  BY DEF Used, UsedLast
<1> QED
  BY <1>1, <1>2, <1>3, SameUploads

\* Every operation keeps the invariant, in whatever order requests interleave.
LEMMA StepKeeps ==
    ASSUME CacheInv, Next
    PROVE  CacheInv'
<1> DEFINE D == DOMAIN archive
<1>0. /\ live \in [Names -> D \cup {NoSite}] /\ objects \subseteq D /\ putting \in D \cup {NoSite}
      /\ at \in [Readers -> {"idle", "load", "put"}] /\ want \in [Readers -> D \cup {NoSite}]
      /\ \A r \in Readers : at[r] # "idle" => want[r] # NoSite
      /\ Consistent(cache) /\ Frugal(cache) /\ older = Order(cache) /\ Versions = D
      /\ Priced
  BY Prices DEF CacheInv, TypeOK, Versions
<1> DEFINE Fixed == UNCHANGED <<maxBytes, limit, archive, owner, origin, content>>
<1>1. ASSUME Fixed,
             /\ live' \in [Names -> D \cup {NoSite}] /\ objects' \subseteq D /\ putting' \in D \cup {NoSite}
             /\ at' \in [Readers -> {"idle", "load", "put"}] /\ want' \in [Readers -> D \cup {NoSite}]
             /\ \A r \in Readers : at'[r] # "idle" => want'[r] # NoSite,
             Consistent(cache)', Frugal(cache)', older' = Order(cache)'
      PROVE  CacheInv'
  <2>1. History'
    BY <1>1 DEF CacheInv, History
  <2>2. /\ \A i \in DOMAIN cache'.ll : cache'.ll[i] \in DOMAIN archive'
        /\ cache'.items \subseteq DOMAIN archive' /\ cache'.curBytes \in Nat
        /\ older' \subseteq (DOMAIN archive') \X (DOMAIN archive')
    BY <1>1 DEF Consistent, CacheRecords, Versions, Order
  <2>3. TypeOK'
    BY <1>1, <2>2 DEF CacheInv, TypeOK
  <2> QED
    BY <1>1, <2>1, <2>3 DEF CacheInv
<1>2. ASSUME UNCHANGED <<maxBytes, archive, content, cache, older>>
      PROVE  Consistent(cache)' /\ Frugal(cache)' /\ older' = Order(cache)'
  BY <1>0, <1>2, SameUploads
<1>3. CASE \E n \in Names : Replace(n)
  BY <1>3, ReplaceKeeps
<1>4. ASSUME NEW n \in Names, Delete(n) PROVE CacheInv'
  <2>1. /\ live' = [live EXCEPT ![n] = NoSite] /\ cache' = dropAll(cache, n)
        /\ older' = {e \in older : {e[1], e[2]} \subseteq cache'.items}
        /\ objects' = {v \in objects : owner[v] # n}
        /\ UNCHANGED <<maxBytes, limit, archive, owner, origin, content, putting, at, want>>
    BY <1>4 DEF Delete
  <2> DEFINE mine == {v \in cache.items : owner[v] = n}
  <2>2. Left(cache', cache, mine)
    BY <1>0, <2>1, DropAllLeaves
  <2>3. \A e \in Order(cache) : e[1] \in cache.items /\ e[2] \in cache.items
    BY <1>0 DEF Order, Consistent, Listed
  <2>4. older' = Order(cache')
    BY <1>0, <2>1, <2>2, <2>3 DEF Left
  <2>5. Consistent(cache')
    BY <2>2 DEF Left
  <2>6. Frugal(cache')
    <3>1. cache'.curBytes \in Nat /\ cache.curBytes \in Nat /\ cache'.curBytes <= cache.curBytes
          /\ cache'.items \subseteq cache.items
      BY <1>0, <2>2, <2>5 DEF Left, Consistent, CacheRecords
    <3>2. maxBytes \in Int
      BY Prices DEF CacheInv
    <3> QED
      BY <1>0, <3>1, <3>2 DEF Frugal
  <2>7. Consistent(cache)' /\ Frugal(cache)' /\ older' = Order(cache)'
    BY <2>1, <2>4, <2>5, <2>6, SameUploads
  <2>8. live' \in [Names -> D \cup {NoSite}] /\ objects' \subseteq D
    BY <1>0, <2>1
  <2> QED
    BY <1>0, <1>1, <2>1, <2>7, <2>8
<1>5. CASE PutOwn
  <2>1. /\ putting # NoSite /\ cache' = put(cache, putting) /\ Used(cache', putting)
        /\ putting' = NoSite
        /\ UNCHANGED <<maxBytes, limit, archive, owner, origin, content, live, objects, at, want>>
    BY <1>5 DEF PutOwn
  <2>2. putting \in Versions
    BY <1>0, <2>1
  <2>3. Consistent(cache)' /\ Frugal(cache)' /\ older' = Order(cache)'
    BY <2>1, <2>2, UsedIs
  <2> QED
    BY <1>0, <1>1, <2>1, <2>3
<1>6. ASSUME NEW r \in Readers, NEW n \in Names, Open(r, n) PROVE CacheInv'
  <2> DEFINE v == live[n]
  <2>1. /\ UNCHANGED <<maxBytes, limit, archive, owner, origin, content, live, objects, putting>>
        /\ v \in D \cup {NoSite}
    BY <1>0, <1>6 DEF Open
  <2>2. CASE UNCHANGED <<cache, older, at, want>>
    BY <1>0, <1>1, <1>2, <2>1, <2>2
  <2>3. CASE Hit(cache, v) /\ cache' = get(cache, v) /\ Used(cache', v) /\ UNCHANGED <<at, want>>
    <3>1. v \in cache.items /\ cache' = MoveToFront(cache, v)
      BY <2>3 DEF Hit, get
    <3>2. /\ Consistent(cache') /\ cache'.items = cache.items /\ cache'.curBytes = cache.curBytes
          /\ Order(cache') = {e \in Order(cache) : e[1] # v /\ e[2] # v}
                             \cup {<<x, v>> : x \in cache.items \ {v}}
      BY <1>0, <3>1, MoveToFrontKeeps
    <3>3. Frugal(cache')
      BY <1>0, <3>2 DEF Frugal
    <3>4. older' = Order(cache')
      <4>1. older' = {e \in Order(cache) : e[1] # v /\ {e[1], e[2]} \subseteq cache'.items}
                     \cup {<<x, v>> : x \in {x \in cache'.items \ {v} : v \in cache'.items}}
        BY <1>0, <2>3 DEF Used
      <4>2. \A e \in Order(cache) : e[1] \in cache.items /\ e[2] \in cache.items /\ e = <<e[1], e[2]>>
        BY <1>0 DEF Order, Consistent, Listed
      <4> HIDE DEF v
      <4>3. ASSUME NEW e \in Order(cache), e[1] # v, e[2] = v
            PROVE  e \in {<<x, v>> : x \in cache.items \ {v}}
        BY <4>2, <4>3
      <4> QED
        BY <3>1, <3>2, <4>1, <4>2, <4>3
    <3>5. Consistent(cache)' /\ Frugal(cache)' /\ older' = Order(cache)'
      BY <2>1, <3>2, <3>3, <3>4, SameUploads
    <3> QED
      BY <1>0, <1>1, <2>1, <2>3, <3>5
  <2>4. CASE /\ v # NoSite /\ ~Hit(cache, v) /\ cache' = get(cache, v)
             /\ at' = [at EXCEPT ![r] = "load"] /\ want' = [want EXCEPT ![r] = v]
             /\ UNCHANGED older
    <3>1. cache' = cache
      BY <2>4 DEF get
    <3>2. Consistent(cache)' /\ Frugal(cache)' /\ older' = Order(cache)'
      BY <1>2, <2>1, <2>4, <3>1
    <3> HIDE DEF v
    <3>3. /\ at' \in [Readers -> {"idle", "load", "put"}] /\ want' \in [Readers -> D \cup {NoSite}]
          /\ \A q \in Readers : at'[q] # "idle" => want'[q] # NoSite
      BY <1>0, <2>1, <2>4
    <3> QED
      BY <1>0, <1>1, <2>1, <3>2, <3>3
  <2> QED
    BY <1>6, <2>2, <2>3, <2>4 DEF Open
<1>7. ASSUME NEW r \in Readers, Load(r) PROVE CacheInv'
  <2>1. /\ UNCHANGED <<maxBytes, limit, archive, owner, origin, content, live, objects, cache, putting, older>>
        /\ at' \in [Readers -> {"idle", "load", "put"}] /\ want' \in [Readers -> D \cup {NoSite}]
        /\ \A q \in Readers : at'[q] # "idle" => want'[q] # NoSite
    BY <1>0, <1>7 DEF Load
  <2> QED
    BY <1>0, <1>1, <1>2, <2>1
<1>8. ASSUME NEW r \in Readers, PutLoaded(r) PROVE CacheInv'
  <2>1. /\ cache' = put(cache, want[r]) /\ Used(cache', want[r])
        /\ UNCHANGED <<maxBytes, limit, archive, owner, origin, content, live, objects, putting>>
        /\ at' = [at EXCEPT ![r] = "idle"] /\ want' = [want EXCEPT ![r] = NoSite]
        /\ want[r] \in Versions
    BY <1>0, <1>8 DEF PutLoaded
  <2>2. /\ at' \in [Readers -> {"idle", "load", "put"}] /\ want' \in [Readers -> D \cup {NoSite}]
        /\ \A q \in Readers : at'[q] # "idle" => want'[q] # NoSite
    BY <1>0, <2>1
  <2>3. Consistent(cache)' /\ Frugal(cache)' /\ older' = Order(cache)'
    BY <2>1, UsedIs
  <2> QED
    BY <1>0, <1>1, <2>1, <2>2, <2>3
<1> QED
  BY <1>3, <1>4, <1>5, <1>6, <1>7, <1>8 DEF Next

\* So does a step that changes nothing.
LEMMA StutterKeeps ==
    ASSUME CacheInv, UNCHANGED vars
    PROVE  CacheInv'
<1>1. Consistent(cache)' /\ Frugal(cache)' /\ older' = Order(cache)'
  BY SameUploads DEF CacheInv, vars
<1> QED
  BY <1>1 DEF CacheInv, TypeOK, History, vars

-----------------------------------------------------------------------------
(***************************************************************************)
(* 8. Both backends at once: extractTar beside unpackTar.                  *)
(***************************************************************************)

\* An entry the tar reader can read and SafeTarPath accepts.
SoundEntry(e) == e.kind # "broken" /\ Inside(e.name)

\* Both backends refuse any other entry, whatever came before it.
LEMMA UnsoundRefused ==
    ASSUME NEW e, Path(e.name), Rooted(e.name), ~SoundEntry(e), NEW m, NEW t, NEW i, NEW l
    PROVE  UnpackEntry(m, e, i, l) = Refuse(m) /\ ExtractEntry(t, e, i, l) = Refuse(t)
<1> DEFINE safe == SafeTarPath(e.name)
<1>1. e.kind = "broken" \/ ~safe
  BY SafeIsInside DEF SoundEntry
<1>2. UnpackEntry(m, e, i, l) = Refuse(m)
  BY <1>1 DEF UnpackEntry
<1>3. ExtractEntry(t, e, i, l) = Refuse(t)
  BY <1>1 DEF ExtractEntry
<1> QED
  BY <1>2, <1>3

\* What both do with a sound entry whose name has no backslash: unpackTar skips
\* the root itself, extractTar creates it.
LEMMA SoundRead ==
    ASSUME NEW e, Path(e.name), Rooted(e.name), SoundEntry(e), NEW m, NEW t, NEW i, NEW l,
           \A k \in 1 .. Len(e.name) : e.name[k] \notin DOMAIN Backslashed
    PROVE  LET p == Clean(e.name) IN
           /\ Path(p)
           /\ UnpackEntry(m, e, i, l) =
                 IF e.kind = "dir" /\ p # <<>> THEN addDir(m, p)
                 ELSE IF e.kind = "file" /\ p # <<>> THEN UnpackFile(m, p, e, i, l) ELSE m
           /\ ExtractEntry(t, e, i, l) =
                 IF e.kind = "dir" THEN MkdirAll(t, p)
                 ELSE IF e.kind = "file" THEN ExtractFile(t, p, e, i, l) ELSE t
<1> DEFINE p == Clean(e.name)
           safe == SafeTarPath(e.name)
           q == filepathToSlash(p)
<1>1. safe /\ e.kind # "broken"
  BY SafeIsInside DEF SoundEntry
<1>2. Path(p)
  BY CleanPath
<1>3. \A k \in 1 .. Len(p) : p[k] \notin {Up} \cup DOMAIN Backslashed
  BY SafeIsInside DEF SoundEntry
<1>4. q = p
  <2> HIDE DEF p
  <2> QED BY <1>2, <1>3, SlashKeeps
<1>5. UnpackEntry(m, e, i, l) =
         CASE e.kind = "broken" \/ ~safe -> Refuse(m)
           [] e.kind = "dir" /\ safe /\ q # <<>> -> addDir(m, q)
           [] e.kind = "file" /\ safe /\ q # <<>> -> UnpackFile(m, q, e, i, l)
           [] OTHER -> m
  BY DEF UnpackEntry
<1>6. ExtractEntry(t, e, i, l) =
         CASE e.kind = "broken" \/ ~safe -> Refuse(t)
           [] e.kind = "dir" /\ safe -> MkdirAll(t, p)
           [] e.kind = "file" /\ safe -> ExtractFile(t, p, e, i, l)
           [] OTHER -> t
  BY DEF ExtractEntry
<1> HIDE DEF p, safe, q
<1>7. UnpackEntry(m, e, i, l) =
         IF e.kind = "dir" /\ p # <<>> THEN addDir(m, p)
         ELSE IF e.kind = "file" /\ p # <<>> THEN UnpackFile(m, p, e, i, l) ELSE m
  BY <1>1, <1>4, <1>5
<1>8. ExtractEntry(t, e, i, l) =
         IF e.kind = "dir" THEN MkdirAll(t, p)
         ELSE IF e.kind = "file" THEN ExtractFile(t, p, e, i, l) ELSE t
  BY <1>1, <1>6
<1> QED
  BY <1>2, <1>7, <1>8 DEF p

TreeFields == {"ok", "files", "dirs", "written"}

\* MkdirAll creates the ancestry unless a file is in the way.
LEMMA MkdirIs ==
    ASSUME NEW t, DOMAIN t = TreeFields, NEW p
    PROVE  LET d == MkdirAll(t, p) IN
           /\ DOMAIN d = TreeFields
           /\ (Prefixes(p) \cap DOMAIN t.files = {}) =>
                 /\ d.ok = t.ok /\ d.files = t.files /\ d.written = t.written
                 /\ d.dirs = t.dirs \cup Prefixes(p)
<1> DEFINE x == t.dirs \cup Prefixes(p)
           d == MkdirAll(t, p)
<1>1. d = IF Prefixes(p) \cap DOMAIN t.files # {} THEN [t EXCEPT !.ok = FALSE]
          ELSE [t EXCEPT !.dirs = x]
  BY DEF MkdirAll, Refuse
<1> HIDE DEF x, d
<1>2. CASE Prefixes(p) \cap DOMAIN t.files # {}
  BY <1>1, <1>2 DEF TreeFields, d
<1>3. CASE Prefixes(p) \cap DOMAIN t.files = {}
  <2>1. d = [t EXCEPT !.dirs = x]
    BY <1>1, <1>3
  <2>2. /\ DOMAIN d = TreeFields /\ d.ok = t.ok /\ d.files = t.files /\ d.written = t.written
        /\ d.dirs = x
    BY <2>1 DEF TreeFields
  <2> QED
    BY <2>2 DEF d, x
<1> QED
  BY <1>2, <1>3

\* OpenFile creates or truncates a file unless a directory is in the way.
LEMMA OpenIs ==
    ASSUME NEW t, DOMAIN t = TreeFields, NEW p, NEW i
    PROVE  LET f == OpenFile(t, p, i) IN
           /\ DOMAIN f = TreeFields
           /\ (p \notin t.dirs \cup {<<>>}) =>
                 /\ f.ok = t.ok /\ f.dirs = t.dirs /\ f.written = t.written
                 /\ f.files = With(t.files, p, i)
<1> DEFINE x == With(t.files, p, i)
           f == OpenFile(t, p, i)
<1>1. f = IF p \in t.dirs \cup {<<>>} THEN [t EXCEPT !.ok = FALSE] ELSE [t EXCEPT !.files = x]
  BY DEF OpenFile, Refuse
<1> HIDE DEF x, f
<1>2. CASE p \in t.dirs \cup {<<>>}
  BY <1>1, <1>2 DEF TreeFields, f
<1>3. CASE p \notin t.dirs \cup {<<>>}
  <2>1. f = [t EXCEPT !.files = x]
    BY <1>1, <1>3
  <2>2. /\ DOMAIN f = TreeFields /\ f.ok = t.ok /\ f.dirs = t.dirs /\ f.written = t.written
        /\ f.files = x
    BY <2>1 DEF TreeFields
  <2> QED
    BY <2>2 DEF f, x
<1> QED
  BY <1>2, <1>3

\* What extracting a file leaves: an error over the limit, else the file.
Extracted(f, t, p, i, w, large) ==
    /\ DOMAIN f = TreeFields
    /\ large => f = Refuse(t)
    /\ (~large /\ t.ok /\ Prefixes(Dir(p)) \cap DOMAIN t.files = {}
        /\ p \notin t.dirs \cup Prefixes(Dir(p)) \cup {<<>>}) =>
          /\ f.ok = t.ok /\ f.dirs = t.dirs \cup Prefixes(Dir(p)) /\ f.written = w
          /\ f.files = With(t.files, p, i)

\* extractTar of a file entry does that.
LEMMA FileIs ==
    ASSUME NEW t, DOMAIN t = TreeFields, NEW p, NEW e, NEW i, NEW l \in Nat,
           NEW w, w = t.written + Copied(t.written, e.size, l)
    PROVE  Extracted(ExtractFile(t, p, e, i, l), t, p, i, w, TooLarge(w, l))
<1> DEFINE there == MkdirAll(t, Dir(p))
           made == IF there.ok THEN OpenFile(there, p, i) ELSE there
           f == ExtractFile(t, p, e, i, l)
<1>1. f = IF TooLarge(w, l) THEN [t EXCEPT !.ok = FALSE] ELSE [made EXCEPT !.written = w]
  BY DEF ExtractFile, Refuse
<1>2. /\ DOMAIN there = TreeFields
      /\ (Prefixes(Dir(p)) \cap DOMAIN t.files = {}) =>
            /\ there.ok = t.ok /\ there.files = t.files /\ there.written = t.written
            /\ there.dirs = t.dirs \cup Prefixes(Dir(p))
  BY MkdirIs
<1> HIDE DEF there
<1>3. /\ DOMAIN OpenFile(there, p, i) = TreeFields
      /\ (p \notin there.dirs \cup {<<>>}) =>
            /\ OpenFile(there, p, i).ok = there.ok /\ OpenFile(there, p, i).dirs = there.dirs
            /\ OpenFile(there, p, i).files = With(there.files, p, i)
  BY <1>2, OpenIs
<1>4. /\ DOMAIN made = TreeFields
      /\ (t.ok /\ Prefixes(Dir(p)) \cap DOMAIN t.files = {}
          /\ p \notin t.dirs \cup Prefixes(Dir(p)) \cup {<<>>}) =>
            /\ made.ok = t.ok /\ made.dirs = t.dirs \cup Prefixes(Dir(p))
            /\ made.files = With(t.files, p, i)
  BY <1>2, <1>3
<1> HIDE DEF made, f
<1>5. CASE TooLarge(w, l)
  BY <1>1, <1>5 DEF Extracted, Refuse, TreeFields, f
<1>6. CASE ~TooLarge(w, l)
  <2>1. f = [made EXCEPT !.written = w]
    BY <1>1, <1>6
  <2>2. /\ DOMAIN f = TreeFields /\ f.ok = made.ok /\ f.dirs = made.dirs /\ f.files = made.files
        /\ f.written = w
    BY <1>4, <2>1 DEF TreeFields
  <2> QED
    BY <1>4, <1>6, <2>2 DEF Extracted, f
<1> QED
  BY <1>5, <1>6

\* An entry of extractTar leaves a tree.
LEMMA ExtractShape ==
    ASSUME NEW t, DOMAIN t = TreeFields, NEW e, NEW i, NEW l \in Nat
    PROVE  DOMAIN ExtractEntry(t, e, i, l) = TreeFields
<1> DEFINE p == Clean(e.name)
           safe == SafeTarPath(e.name)
<1>1. ExtractEntry(t, e, i, l) \in {Refuse(t), MkdirAll(t, p), ExtractFile(t, p, e, i, l), t}
  <2>1. ExtractEntry(t, e, i, l) =
           CASE e.kind = "broken" \/ ~safe -> Refuse(t)
             [] e.kind = "dir" /\ safe -> MkdirAll(t, p)
             [] e.kind = "file" /\ safe -> ExtractFile(t, p, e, i, l)
             [] OTHER -> t
    BY DEF ExtractEntry
  <2> HIDE DEF p, safe
  <2> QED
    BY <2>1
<1>2. DOMAIN Refuse(t) = TreeFields
  BY DEF Refuse
<1> HIDE DEF p
<1>3. DOMAIN MkdirAll(t, p) = TreeFields
  BY MkdirIs
<1>4. DOMAIN ExtractFile(t, p, e, i, l) = TreeFields
  BY FileIs DEF Extracted
<1> QED
  BY <1>1, <1>2, <1>3, <1>4

\* What the archive asks for up to entry k: sound entries, the files, the
\* directories, and sizes within the limit.
SoundTo(a, k) == \A i \in 1 .. k : SoundEntry(a[i])

To(a, kind, k) == {i \in 1 .. k : a[i].kind = kind}

FilesTo(a, k) == {PathOf(a, i) : i \in To(a, "file", k)}

DirsTo(a, k) == (UNION {Prefixes(PathOf(a, i)) : i \in To(a, "dir", k)})
                \cup (UNION {Prefixes(Dir(PathOf(a, i))) : i \in To(a, "file", k)})

FitsTo(a, k, l) == l = 0 \/ SizeOf(a, To(a, "file", k)) <= l

\* The directories are the ancestries of the entries.
LEMMA InDirs ==
    ASSUME NEW a, NEW k
    PROVE  \A x : x \in DirsTo(a, k) <=>
              \/ \E i \in To(a, "dir", k) : x \in Prefixes(PathOf(a, i))
              \/ \E i \in To(a, "file", k) : x \in Prefixes(Dir(PathOf(a, i)))
<1> DEFINE A == UNION {Prefixes(PathOf(a, i)) : i \in To(a, "dir", k)}
           B == UNION {Prefixes(Dir(PathOf(a, i))) : i \in To(a, "file", k)}
<1>1. \A x : x \in A <=> \E i \in To(a, "dir", k) : x \in Prefixes(PathOf(a, i))
  BY Zenon
<1>2. \A x : x \in B <=> \E i \in To(a, "file", k) : x \in Prefixes(Dir(PathOf(a, i)))
  BY Zenon
<1>3. DirsTo(a, k) = A \cup B
  BY DEF DirsTo
<1> HIDE DEF A, B
<1> QED
  BY <1>1, <1>2, <1>3

\* What the archive asks for, one entry more.
LEMMA OneMore ==
    ASSUME NEW a, Sized(a), NEW k \in Nat, k + 1 <= Len(a)
    PROVE  LET n == k + 1
               p == PathOf(a, n) IN
           /\ SoundTo(a, n) <=> SoundTo(a, k) /\ SoundEntry(a[n])
           /\ a[n].kind = "file" => /\ To(a, "file", n) = To(a, "file", k) \cup {n}
                                    /\ FilesTo(a, n) = FilesTo(a, k) \cup {p}
                                    /\ DirsTo(a, n) = DirsTo(a, k) \cup Prefixes(Dir(p))
                                    /\ SizeOf(a, To(a, "file", n))
                                          = a[n].size + SizeOf(a, To(a, "file", k))
           /\ a[n].kind # "file" => /\ To(a, "file", n) = To(a, "file", k)
                                    /\ FilesTo(a, n) = FilesTo(a, k)
           /\ a[n].kind = "dir" => DirsTo(a, n) = DirsTo(a, k) \cup Prefixes(p)
           /\ a[n].kind \notin {"file", "dir"} => DirsTo(a, n) = DirsTo(a, k)
           /\ SizeOf(a, To(a, "file", k)) \in Nat /\ a[n].size \in Nat
<1> DEFINE n == k + 1
           P(i) == PathOf(a, i)
           T(kind, j) == To(a, kind, j)
<1>0. Len(a) \in Nat /\ n \in DOMAIN a /\ n \notin 1 .. k /\ 1 .. n = (1 .. k) \cup {n}
  BY DEF Sized
<1>1. SoundTo(a, n) <=> SoundTo(a, k) /\ SoundEntry(a[n])
  <2> HIDE DEF n
  <2> QED BY <1>0 DEF SoundTo
<1>2. \A kind : T(kind, n) = IF a[n].kind = kind THEN T(kind, k) \cup {n} ELSE T(kind, k)
  <2> HIDE DEF n
  <2> QED BY <1>0 DEF To
<1>3. T("file", k) \in SUBSET DOMAIN a /\ n \notin T("file", k)
  BY <1>0 DEF To, Sized
<1>4. \A j : /\ FilesTo(a, j) = {P(i) : i \in T("file", j)}
             /\ \A x : x \in DirsTo(a, j) <=> \/ \E i \in T("dir", j) : x \in Prefixes(P(i))
                                             \/ \E i \in T("file", j) : x \in Prefixes(Dir(P(i)))
  BY InDirs DEF FilesTo
<1>5. SizeOf(a, T("file", k)) \in Nat /\ a[n].size \in Nat
      /\ SizeOf(a, T("file", k) \cup {n}) = a[n].size + SizeOf(a, T("file", k))
  <2> HIDE DEF n, T
  <2> QED BY <1>0, <1>3, SizesAdd DEF Sized
<1> HIDE DEF n, P, T
<1>6. CASE a[n].kind = "file"
  <2>1. T("file", n) = T("file", k) \cup {n} /\ T("dir", n) = T("dir", k)
    BY <1>2, <1>6
  <2>2. FilesTo(a, n) = FilesTo(a, k) \cup {P(n)}
    BY <1>4, <2>1
  <2>3. DirsTo(a, n) = DirsTo(a, k) \cup Prefixes(Dir(P(n)))
    BY <1>4, <2>1
  <2> QED
    BY <1>1, <1>5, <1>6, <2>1, <2>2, <2>3 DEF n, P, T
<1>7. CASE a[n].kind = "dir"
  <2>1. T("file", n) = T("file", k) /\ T("dir", n) = T("dir", k) \cup {n}
    BY <1>2, <1>7
  <2>2. FilesTo(a, n) = FilesTo(a, k)
    BY <1>4, <2>1
  <2>3. DirsTo(a, n) = DirsTo(a, k) \cup Prefixes(P(n))
    BY <1>4, <2>1
  <2> QED
    BY <1>1, <1>5, <1>7, <2>1, <2>2, <2>3 DEF n, P, T
<1>8. CASE a[n].kind \notin {"file", "dir"}
  <2>1. T("file", n) = T("file", k) /\ T("dir", n) = T("dir", k)
    BY <1>2, <1>8
  <2>2. FilesTo(a, n) = FilesTo(a, k)
    BY <1>4, <2>1
  <2>3. \A x : x \in DirsTo(a, n) <=> x \in DirsTo(a, k)
    BY <1>4, <2>1
  <2>4. DirsTo(a, n) = DirsTo(a, k)
    BY <2>3
  <2> QED
    BY <1>1, <1>5, <1>8, <2>1, <2>2, <2>4 DEF n, P, T
<1> QED
  BY <1>6, <1>7, <1>8

\* Both backends have built what the first k entries ask for.
Built(m, t, a, k) ==
    /\ m.ok = TRUE /\ t.ok = TRUE
    /\ m.files = t.files /\ m.isDir = t.dirs /\ m.written = t.written
    /\ DOMAIN m.files = FilesTo(a, k) /\ m.isDir = DirsTo(a, k)
    /\ \A i \in To(a, "file", k) : m.files[PathOf(a, i)] = i
    /\ m.written = SizeOf(a, To(a, "file", k))

\* While the entries are sound and fit the limit both backends have built the
\* same tree, and once one is not both have failed.
Together(m, t, a, k, l) ==
    /\ Walkable(m) /\ DOMAIN t = TreeFields
    /\ SoundTo(a, k) /\ FitsTo(a, k, l) => Built(m, t, a, k)
    /\ ~(SoundTo(a, k) /\ FitsTo(a, k, l)) => m.ok = FALSE /\ t.ok = FALSE

\* In an archive without repeated or clashing paths the next entry clashes with
\* nothing built so far.
LEMMA PlainApart ==
    ASSUME NEW a, Sized(a), Named(a), Plain(a), NEW k \in Nat, k + 1 <= Len(a)
    PROVE  LET n == k + 1
               p == PathOf(a, n) IN
           /\ Path(p) /\ \A j \in 1 .. Len(a[n].name) : a[n].name[j] \notin DOMAIN Backslashed
           /\ a[n].kind = "file" => /\ p # <<>> /\ p \notin FilesTo(a, k) /\ p \notin DirsTo(a, k)
                                    /\ p \notin Prefixes(Dir(p))
                                    /\ Prefixes(Dir(p)) \cap FilesTo(a, k) = {}
           /\ a[n].kind = "dir" => Prefixes(p) \cap FilesTo(a, k) = {}
<1> DEFINE n == k + 1
           P(i) == PathOf(a, i)
<1>0. Len(a) \in Nat /\ DOMAIN a = 1 .. Len(a) /\ n \in DOMAIN a /\ n \notin 1 .. k
      /\ \A i \in 1 .. k : i \in DOMAIN a
  BY DEF Sized
<1>1. \A i \in DOMAIN a : Path(P(i))
  BY CleanPath DEF Named, PathOf
<1>2. \A i \in DOMAIN a : P(i) # <<>> => P(i) \in Prefixes(P(i))
  BY <1>1, PrefixOrder
<1>3. \A i \in DOMAIN a : Prefixes(Dir(P(i))) \subseteq Prefixes(P(i)) /\ P(i) \notin Prefixes(Dir(P(i)))
  <2> SUFFICES ASSUME NEW i \in DOMAIN a
               PROVE Prefixes(Dir(P(i))) \subseteq Prefixes(P(i)) /\ P(i) \notin Prefixes(Dir(P(i)))
    OBVIOUS
  <2>1. Path(P(i))
    BY <1>1
  <2> HIDE DEF P
  <2> QED
    BY <2>1, PrefixOrder
<1>4. /\ \A i \in Entries(a, "file") : /\ P(i) # <<>>
                                       /\ \A j \in Entries(a, "file") \cup Entries(a, "dir") :
                                             i # j => P(i) \notin Prefixes(P(j))
      /\ \A i \in DOMAIN a, c \in DOMAIN Backslashed : \A j \in DOMAIN a[i].name : a[i].name[j] # c
  BY DEF Plain
<1>5. \A i : a[i].kind = "file" /\ i \in DOMAIN a <=> i \in Entries(a, "file")
  BY DEF Entries
<1>6. \A i : a[i].kind = "dir" /\ i \in DOMAIN a <=> i \in Entries(a, "dir")
  BY DEF Entries
<1>7. /\ \A x : x \in FilesTo(a, k) <=> \E i \in 1 .. k : a[i].kind = "file" /\ x = P(i)
      /\ \A x \in DirsTo(a, k) : \E i \in 1 .. k : \/ a[i].kind = "dir" /\ x \in Prefixes(P(i))
                                                   \/ a[i].kind = "file" /\ x \in Prefixes(Dir(P(i)))
  <2>1. \A x : x \in FilesTo(a, k) <=> \E i \in 1 .. k : a[i].kind = "file" /\ x = P(i)
    BY DEF FilesTo, To
  <2> QED
    BY <2>1, InDirs DEF To
<1>8. \A j \in 1 .. Len(a[n].name) : a[n].name[j] \notin DOMAIN Backslashed
  <2>1. DOMAIN a[n].name = 1 .. Len(a[n].name)
    BY <1>0, PathIs DEF Named
  <2> QED
    BY <1>0, <1>4, <2>1
<1> HIDE DEF n, P
<1>9. ASSUME a[n].kind = "file"
      PROVE  /\ P(n) # <<>> /\ P(n) \notin FilesTo(a, k) /\ P(n) \notin DirsTo(a, k)
             /\ Prefixes(Dir(P(n))) \cap FilesTo(a, k) = {}
  <2>1. n \in Entries(a, "file") /\ P(n) # <<>>
    BY <1>0, <1>4, <1>5, <1>9
  <2>2. ASSUME NEW i \in 1 .. k, a[i].kind \in {"file", "dir"} PROVE P(n) \notin Prefixes(P(i))
    <3>1. i \in Entries(a, "file") \cup Entries(a, "dir") /\ i # n
      BY <1>0, <1>5, <1>6, <2>2
    <3> QED
      BY <1>4, <2>1, <3>1
  <2>3. P(n) \notin FilesTo(a, k)
    <3> SUFFICES ASSUME P(n) \in FilesTo(a, k) PROVE FALSE
      OBVIOUS
    <3>1. PICK i \in 1 .. k : a[i].kind = "file" /\ P(n) = P(i)
      BY <1>7
    <3>2. P(i) \in Prefixes(P(i))
      BY <1>0, <1>2, <2>1, <3>1
    <3> QED
      BY <2>2, <3>1, <3>2
  <2>4. P(n) \notin DirsTo(a, k)
    <3> SUFFICES ASSUME P(n) \in DirsTo(a, k) PROVE FALSE
      OBVIOUS
    <3>1. PICK i \in 1 .. k : \/ a[i].kind = "dir" /\ P(n) \in Prefixes(P(i))
                              \/ a[i].kind = "file" /\ P(n) \in Prefixes(Dir(P(i)))
      BY <1>7
    <3>2. P(n) \in Prefixes(P(i))
      BY <1>0, <1>3, <3>1
    <3> QED
      BY <2>2, <3>1, <3>2
  <2>5. ASSUME NEW x \in Prefixes(Dir(P(n))), x \in FilesTo(a, k) PROVE FALSE
    <3>1. PICK i \in 1 .. k : a[i].kind = "file" /\ x = P(i)
      BY <1>7, <2>5
    <3>2. P(i) \in Prefixes(P(n))
      BY <1>0, <1>3, <2>5, <3>1
    <3>3. i \in Entries(a, "file") /\ i # n
      BY <1>0, <1>5, <3>1
    <3> QED
      BY <1>4, <2>1, <3>2, <3>3
  <2> QED
    BY <2>1, <2>3, <2>4, <2>5
<1>10. ASSUME a[n].kind = "dir" PROVE Prefixes(P(n)) \cap FilesTo(a, k) = {}
  <2> SUFFICES ASSUME NEW x \in Prefixes(P(n)), x \in FilesTo(a, k) PROVE FALSE
    OBVIOUS
  <2>1. PICK i \in 1 .. k : a[i].kind = "file" /\ x = P(i)
    BY <1>7
  <2>2. i \in Entries(a, "file") /\ i # n /\ n \in Entries(a, "dir")
    BY <1>0, <1>5, <1>6, <1>10, <2>1
  <2> QED
    BY <1>4, <2>1, <2>2
<1> QED
  BY <1>0, <1>1, <1>3, <1>8, <1>9, <1>10 DEF n, P

\* Both cut off at the same byte: LimitReader reads one byte more than the rest
\* of the limit, which is enough to see that it is exceeded.
LEMMA SizesFit ==
    ASSUME NEW a, Sized(a), NEW k \in Nat, k + 1 <= Len(a), NEW l \in Nat
    PROVE  /\ a[k + 1].kind # "file" => (FitsTo(a, k + 1, l) <=> FitsTo(a, k, l))
           /\ FitsTo(a, k + 1, l) => FitsTo(a, k, l)
           /\ LET s == SizeOf(a, To(a, "file", k))
                  w == s + Copied(s, a[k + 1].size, l) IN
              a[k + 1].kind = "file" /\ FitsTo(a, k, l) =>
                 /\ TooLarge(w, l) <=> ~FitsTo(a, k + 1, l)
                 /\ ~TooLarge(w, l) => w = SizeOf(a, To(a, "file", k + 1))
<1> DEFINE n == k + 1
           s == SizeOf(a, To(a, "file", k))
           r == SizeOf(a, To(a, "file", n))
           b == a[n].size
<1>1. /\ s \in Nat /\ b \in Nat
      /\ a[n].kind = "file" => r = b + s
      /\ a[n].kind # "file" => r = s
  BY OneMore
<1>2. (FitsTo(a, n, l) <=> l = 0 \/ r <= l) /\ (FitsTo(a, k, l) <=> l = 0 \/ s <= l)
  BY DEF FitsTo
<1> HIDE DEF n, s, r, b
<1>3. a[n].kind # "file" => (FitsTo(a, n, l) <=> FitsTo(a, k, l))
  BY <1>1, <1>2
<1>4. FitsTo(a, n, l) => FitsTo(a, k, l)
  BY <1>1, <1>2
<1>5. ASSUME a[n].kind = "file", FitsTo(a, k, l)
      PROVE  /\ TooLarge(s + Copied(s, b, l), l) <=> ~FitsTo(a, n, l)
             /\ ~TooLarge(s + Copied(s, b, l), l) => s + Copied(s, b, l) = r
  BY <1>1, <1>2, <1>5 DEF TooLarge, Copied
<1> QED
  BY <1>3, <1>4, <1>5 DEF n, s, r, b

\* What addFile changes.
LEMMA AddedFileIs ==
    ASSUME NEW m, Walkable(m), NEW p, Path(p), p # <<>>, p \notin DOMAIN m.files, NEW i, NEW w
    PROVE  LET u == [addFile(m, p, i) EXCEPT !.written = w] IN
           /\ u.ok = m.ok /\ u.files = With(m.files, p, i) /\ u.written = w
           /\ u.isDir = m.isDir \cup Prefixes(Dir(p))
<1> DEFINE d == addDir(m, Dir(p))
           x == With(d.files, p, i)
           y == d.listed (+) SetToBag({p})
           b == addFile(m, p, i)
           u == [b EXCEPT !.written = w]
<1>1. /\ Walkable(d) /\ d.isDir = m.isDir \cup Prefixes(Dir(p)) /\ d.files = m.files /\ d.ok = m.ok
  BY AddDirWalks, PrefixOrder
<1>2. b = [d EXCEPT !.files = x, !.listed = y]
  BY DEF addFile
<1>3. x = With(m.files, p, i)
  BY <1>1
<1> HIDE DEF d, x, y, b
<1>4. DOMAIN b = MemFields /\ b.ok = d.ok /\ b.files = x /\ b.isDir = d.isDir
  BY <1>1, <1>2 DEF Walkable, MemFields
<1>5. u.ok = b.ok /\ u.files = b.files /\ u.isDir = b.isDir /\ u.written = w
  BY <1>4 DEF MemFields
<1> QED
  BY <1>1, <1>3, <1>4, <1>5 DEF b

\* A file entry keeps the backends together.
LEMMA FileTogether ==
    ASSUME NEW a, Sized(a), Named(a), Plain(a), NEW l \in Nat, NEW k \in Nat, k + 1 <= Len(a),
           NEW m, NEW t, Walkable(m), DOMAIN t = TreeFields, Built(m, t, a, k),
           FitsTo(a, k, l), a[k + 1].kind = "file"
    PROVE  LET e == a[k + 1]
               p == PathOf(a, k + 1)
               m2 == UnpackFile(m, p, e, k + 1, l)
               t2 == ExtractFile(t, p, e, k + 1, l) IN
           /\ FitsTo(a, k + 1, l) => Built(m2, t2, a, k + 1)
           /\ ~FitsTo(a, k + 1, l) => m2.ok = FALSE /\ t2.ok = FALSE
<1> DEFINE n == k + 1
           e == a[n]
           p == PathOf(a, n)
           m2 == UnpackFile(m, p, e, n, l)
           t2 == ExtractFile(t, p, e, n, l)
           w == m.written + Copied(m.written, e.size, l)
           u == [addFile(m, p, n) EXCEPT !.written = w]
<1>1. /\ Path(p) /\ p # <<>> /\ p \notin FilesTo(a, k) /\ p \notin DirsTo(a, k)
      /\ p \notin Prefixes(Dir(p)) /\ Prefixes(Dir(p)) \cap FilesTo(a, k) = {}
  BY PlainApart
<1>2. /\ m.ok = TRUE /\ t.ok = TRUE
      /\ m.files = t.files /\ m.isDir = t.dirs /\ m.written = t.written
      /\ DOMAIN m.files = FilesTo(a, k) /\ m.isDir = DirsTo(a, k)
      /\ \A i \in To(a, "file", k) : m.files[PathOf(a, i)] = i
      /\ m.written = SizeOf(a, To(a, "file", k))
  BY DEF Built
<1>3. /\ TooLarge(w, l) <=> ~FitsTo(a, n, l)
      /\ ~TooLarge(w, l) => w = SizeOf(a, To(a, "file", n))
  BY <1>2, SizesFit
<1>4. /\ To(a, "file", n) = To(a, "file", k) \cup {n}
      /\ FilesTo(a, n) = FilesTo(a, k) \cup {p}
      /\ DirsTo(a, n) = DirsTo(a, k) \cup Prefixes(Dir(p))
  BY OneMore
<1>5. m2 = IF TooLarge(w, l) THEN [m EXCEPT !.ok = FALSE] ELSE u
  BY DEF UnpackFile, Refuse
<1>6. /\ TooLarge(w, l) => t2 = Refuse(t)
      /\ (~TooLarge(w, l) /\ t.ok /\ Prefixes(Dir(p)) \cap DOMAIN t.files = {}
          /\ p \notin t.dirs \cup Prefixes(Dir(p)) \cup {<<>>}) =>
            /\ t2.ok = t.ok /\ t2.dirs = t.dirs \cup Prefixes(Dir(p)) /\ t2.written = w
            /\ t2.files = With(t.files, p, n)
  <2>1. w = t.written + Copied(t.written, e.size, l)
    BY <1>2
  <2> HIDE DEF w, p, e, n
  <2>2. Extracted(t2, t, p, n, w, TooLarge(w, l))
    BY <2>1, FileIs
  <2> HIDE DEF t2
  <2> QED BY <2>2 DEF Extracted
<1>7. /\ u.ok = m.ok /\ u.files = With(m.files, p, n) /\ u.written = w
      /\ u.isDir = m.isDir \cup Prefixes(Dir(p))
  <2> HIDE DEF p, e, n, w
  <2> QED BY <1>1, <1>2, AddedFileIs
<1> HIDE DEF u, w, t2, m2, p, e, n
<1>8. CASE TooLarge(w, l)
  <2>1. m2.ok = FALSE
    BY <1>5, <1>8 DEF Walkable, MemFields
  <2>2. t2.ok = FALSE
    BY <1>6, <1>8 DEF Refuse, TreeFields
  <2> QED
    BY <1>3, <1>8, <2>1, <2>2 DEF m2, t2, p, e, n
<1>9. CASE ~TooLarge(w, l)
  <2>1. m2 = u
    BY <1>5, <1>9
  <2>2. /\ t2.ok = TRUE /\ t2.dirs = t.dirs \cup Prefixes(Dir(p)) /\ t2.written = w
        /\ t2.files = With(t.files, p, n)
    BY <1>1, <1>2, <1>6, <1>9
  <2>3. /\ DOMAIN m2.files = FilesTo(a, n) /\ m2.files[p] = n
        /\ \A q \in DOMAIN m.files : m2.files[q] = m.files[q]
    <3> DEFINE f == m.files
               h == With(f, p, n)
    <3>1. m2.files = h /\ p \notin DOMAIN f
      BY <1>1, <1>2, <1>7, <2>1
    <3>2. DOMAIN h = DOMAIN f \cup {p} /\ h[p] = n /\ \A q \in DOMAIN f : h[q] = f[q]
      <4> HIDE DEF f
      <4> QED BY <3>1 DEF With
    <3> HIDE DEF h
    <3> QED
      BY <1>2, <1>4, <3>1, <3>2
  <2>4. ASSUME NEW i \in To(a, "file", n) PROVE m2.files[PathOf(a, i)] = i
    <3>1. CASE i = n
      BY <2>3, <3>1 DEF p
    <3>2. CASE i \in To(a, "file", k)
      <4>1. PathOf(a, i) \in DOMAIN m.files
        BY <1>2, <3>2 DEF FilesTo
      <4> QED
        BY <1>2, <2>3, <3>2, <4>1
    <3> QED
      BY <1>4, <3>1, <3>2
  <2>5. Built(m2, t2, a, n)
    <3>1. m2.ok = TRUE /\ m2.files = t2.files /\ m2.isDir = t2.dirs /\ m2.written = t2.written
      BY <1>2, <1>7, <2>1, <2>2
    <3>2. m2.isDir = DirsTo(a, n)
      BY <1>2, <1>4, <1>7, <2>1
    <3>3. m2.written = SizeOf(a, To(a, "file", n))
      BY <1>3, <1>7, <1>9, <2>1
    <3> QED
      BY <2>2, <2>3, <2>4, <3>1, <3>2, <3>3 DEF Built
  <2> QED
    BY <1>3, <1>9, <2>5 DEF m2, t2, p, e, n
<1> QED
  BY <1>8, <1>9

\* So does a directory entry.
LEMMA DirTogether ==
    ASSUME NEW a, Sized(a), Named(a), Plain(a), NEW k \in Nat, k + 1 <= Len(a),
           NEW m, NEW t, Walkable(m), DOMAIN t = TreeFields, Built(m, t, a, k),
           a[k + 1].kind = "dir"
    PROVE  LET p == PathOf(a, k + 1)
               m2 == IF p # <<>> THEN addDir(m, p) ELSE m
               t2 == MkdirAll(t, p) IN
           Built(m2, t2, a, k + 1)
<1> DEFINE n == k + 1
           p == PathOf(a, n)
           m2 == IF p # <<>> THEN addDir(m, p) ELSE m
           t2 == MkdirAll(t, p)
<1>1. Path(p) /\ Prefixes(p) \cap FilesTo(a, k) = {}
  BY PlainApart
<1>2. /\ m.ok = TRUE /\ t.ok = TRUE
      /\ m.files = t.files /\ m.isDir = t.dirs /\ m.written = t.written
      /\ DOMAIN m.files = FilesTo(a, k) /\ m.isDir = DirsTo(a, k)
      /\ \A i \in To(a, "file", k) : m.files[PathOf(a, i)] = i
      /\ m.written = SizeOf(a, To(a, "file", k))
  BY DEF Built
<1>3. /\ To(a, "file", n) = To(a, "file", k)
      /\ FilesTo(a, n) = FilesTo(a, k)
      /\ DirsTo(a, n) = DirsTo(a, k) \cup Prefixes(p)
  BY OneMore
<1> HIDE DEF p, n
<1>4. /\ t2.ok = t.ok /\ t2.files = t.files /\ t2.written = t.written
      /\ t2.dirs = t.dirs \cup Prefixes(p)
  <2>1. Prefixes(p) \cap DOMAIN t.files = {}
    BY <1>1, <1>2
  <2> QED
    BY <2>1, MkdirIs
<1>5. /\ m2.ok = m.ok /\ m2.files = m.files /\ m2.written = m.written
      /\ m2.isDir = m.isDir \cup Prefixes(p)
  <2>1. CASE p = <<>>
    BY <1>1, <2>1, PrefixOrder
  <2>2. CASE p # <<>>
    BY <1>1, <2>2, AddDirWalks
  <2> QED
    BY <2>1, <2>2
<1> HIDE DEF m2, t2
<1>6. Built(m2, t2, a, n)
  BY <1>2, <1>3, <1>4, <1>5 DEF Built
<1> QED
  BY <1>6 DEF m2, t2, p, n

\* So does every entry.
LEMMA EntryTogether ==
    ASSUME NEW a, Sized(a), Named(a), Plain(a), NEW l \in Nat, NEW k \in Nat, k + 1 <= Len(a),
           NEW m, NEW t, Together(m, t, a, k, l)
    PROVE  Together(UnpackNext(m, a, k + 1, l), ExtractNext(t, a, k + 1, l), a, k + 1, l)
<1> DEFINE n == k + 1
           e == a[n]
           p == PathOf(a, n)
           m2 == UnpackNext(m, a, n, l)
           t2 == ExtractNext(t, a, n, l)
           good(j) == SoundTo(a, j) /\ FitsTo(a, j, l)
<1>0. n \in DOMAIN a /\ Path(e.name) /\ Rooted(e.name)
  BY DEF Sized, Named
<1>1. Walkable(m) /\ DOMAIN t = TreeFields
  BY DEF Together
<1>2. Walkable(m2)
  BY <1>0, <1>1, EntryWalks DEF UnpackNext
<1>3. DOMAIN t2 = TreeFields
  BY <1>1, ExtractShape DEF ExtractNext
<1>4. /\ SoundTo(a, n) <=> SoundTo(a, k) /\ SoundEntry(e)
      /\ FitsTo(a, n, l) => FitsTo(a, k, l)
      /\ e.kind # "file" => (FitsTo(a, n, l) <=> FitsTo(a, k, l))
  BY OneMore, SizesFit
<1>5. \A j \in 1 .. Len(e.name) : e.name[j] \notin DOMAIN Backslashed
  BY PlainApart
<1> HIDE DEF n
<1> SUFFICES /\ good(n) => Built(m2, t2, a, n)
             /\ ~good(n) => m2.ok = FALSE /\ t2.ok = FALSE
  BY <1>2, <1>3 DEF Together, n
<1>6. CASE ~good(k)
  <2>1. m.ok = FALSE /\ t.ok = FALSE
    BY <1>6 DEF Together
  <2>2. m2 = m /\ t2 = t
    BY <2>1 DEF UnpackNext, ExtractNext
  <2>3. ~good(n)
    BY <1>4, <1>6
  <2> QED
    BY <2>1, <2>2, <2>3
<1>7. CASE good(k) /\ ~SoundEntry(e)
  <2>1. Built(m, t, a, k)
    BY <1>7 DEF Together
  <2>2. m2 = UnpackEntry(m, e, n, l) /\ t2 = ExtractEntry(t, e, n, l)
    BY <2>1 DEF Built, UnpackNext, ExtractNext
  <2>3. m2 = Refuse(m) /\ t2 = Refuse(t)
    BY <1>0, <1>7, <2>2, UnsoundRefused
  <2> HIDE DEF m2, t2
  <2>4. m2.ok = FALSE
    BY <1>1, <2>3 DEF Refuse, Walkable, MemFields
  <2>5. t2.ok = FALSE
    BY <1>1, <2>3 DEF Refuse, TreeFields
  <2> QED
    BY <1>4, <1>7, <2>4, <2>5
<1>8. CASE good(k) /\ SoundEntry(e)
  <2>1. Built(m, t, a, k)
    BY <1>8 DEF Together
  <2>2. m2 = UnpackEntry(m, e, n, l) /\ t2 = ExtractEntry(t, e, n, l)
    BY <2>1 DEF Built, UnpackNext, ExtractNext
  <2>3. /\ UnpackEntry(m, e, n, l) =
              IF e.kind = "dir" /\ p # <<>> THEN addDir(m, p)
              ELSE IF e.kind = "file" /\ p # <<>> THEN UnpackFile(m, p, e, n, l) ELSE m
        /\ ExtractEntry(t, e, n, l) =
              IF e.kind = "dir" THEN MkdirAll(t, p)
              ELSE IF e.kind = "file" THEN ExtractFile(t, p, e, n, l) ELSE t
    <3> HIDE DEF e
    <3> QED BY <1>0, <1>5, <1>8, SoundRead DEF PathOf, e
  <2>4. CASE e.kind = "file"
    <3>1. p # <<>>
      BY <2>4, PlainApart DEF n
    <3>2. m2 = UnpackFile(m, p, e, n, l) /\ t2 = ExtractFile(t, p, e, n, l)
      BY <2>2, <2>3, <2>4, <3>1
    <3>3. /\ FitsTo(a, n, l) => Built(UnpackFile(m, p, e, n, l), ExtractFile(t, p, e, n, l), a, n)
          /\ ~FitsTo(a, n, l) => /\ UnpackFile(m, p, e, n, l).ok = FALSE
                                 /\ ExtractFile(t, p, e, n, l).ok = FALSE
      BY <1>1, <1>8, <2>1, <2>4, FileTogether DEF n
    <3> QED
      BY <1>4, <1>8, <3>2, <3>3
  <2>5. CASE e.kind = "dir"
    <3>1. m2 = (IF p # <<>> THEN addDir(m, p) ELSE m) /\ t2 = MkdirAll(t, p)
      BY <2>2, <2>3, <2>5
    <3>2. Built(IF p # <<>> THEN addDir(m, p) ELSE m, MkdirAll(t, p), a, n)
      BY <1>1, <2>1, <2>5, DirTogether DEF n
    <3>3. Built(m2, t2, a, n)
      BY <3>1, <3>2
    <3> QED
      BY <1>4, <1>8, <2>5, <3>3
  <2>6. CASE e.kind \notin {"file", "dir"}
    <3>1. m2 = m /\ t2 = t
      BY <2>2, <2>3, <2>6
    <3>2. /\ To(a, "file", n) = To(a, "file", k)
          /\ FilesTo(a, n) = FilesTo(a, k) /\ DirsTo(a, n) = DirsTo(a, k)
      BY <2>6, OneMore DEF n
    <3>3. Built(m2, t2, a, n)
      BY <2>1, <3>1, <3>2 DEF Built
    <3> QED
      BY <1>4, <1>8, <2>6, <3>3
  <2> QED
    BY <2>4, <2>5, <2>6
<1> QED
  BY <1>6, <1>7, <1>8

\* So both end with the same tree or both fail.
LEMMA BothUnpack ==
    ASSUME NEW a, Sized(a), Named(a), Plain(a), NEW l \in Nat
    PROVE  Together(unpackTar(a, l), extractTar(a, l), a, Len(a), l)
<1>0. Len(a) \in Nat /\ DOMAIN a = 1 .. Len(a)
  BY DEF Sized
<1>1. PICK g : /\ unpackTar(a, l) = g[Len(a)]
               /\ g[0] = EmptyMemFS
               /\ \A k \in 1 .. Len(a) : g[k] = UnpackNext(g[k - 1], a, k, l)
               /\ \A k \in Nat : k <= Len(a) => Walkable(g[k])
  BY UnpackWalks
<1>2. PICK h : /\ extractTar(a, l) = h[Len(a)]
               /\ h[0] = EmptyDir
               /\ \A k \in 1 .. Len(a) : h[k] = ExtractNext(h[k - 1], a, k, l)
  BY <1>0, ExtractSteps
<1> DEFINE P == {k \in Nat : k <= Len(a) => Together(g[k], h[k], a, k, l)}
<1>3. 0 \in P
  <2> DEFINE m == EmptyMemFS
             t == EmptyDir
  <2>1. m.ok = TRUE /\ m.files = <<>> /\ m.isDir = {} /\ m.written = 0
    BY DEF EmptyMemFS
  <2>2. DOMAIN t = TreeFields /\ t.ok = TRUE /\ t.files = <<>> /\ t.dirs = {} /\ t.written = 0
    BY DEF EmptyDir, TreeFields
  <2>3. Walkable(m)
    BY <1>0, <1>1
  <2> HIDE DEF m, t
  <2>4. To(a, "file", 0) = {} /\ To(a, "dir", 0) = {}
    BY DEF To
  <2>5. FilesTo(a, 0) = {}
    BY <2>4 DEF FilesTo
  <2>6. DirsTo(a, 0) = {}
    BY <2>4, InDirs
  <2>7. SizeOf(a, {}) = 0
    BY FS_EmptySet, SumStep DEF SizeOf, Sum
  <2>8. SoundTo(a, 0) /\ FitsTo(a, 0, l)
    BY <2>4, <2>7 DEF SoundTo, FitsTo
  <2>9. Built(m, t, a, 0)
    BY <2>1, <2>2, <2>4, <2>5, <2>6, <2>7 DEF Built
  <2>10. Together(m, t, a, 0, l)
    BY <2>2, <2>3, <2>8, <2>9 DEF Together
  <2> QED
    BY <1>1, <1>2, <2>10 DEF m, t
<1>4. ASSUME NEW k \in Nat, k \in P PROVE k + 1 \in P
  <2> SUFFICES ASSUME k + 1 <= Len(a) PROVE Together(g[k + 1], h[k + 1], a, k + 1, l)
    OBVIOUS
  <2>1. k + 1 \in 1 .. Len(a) /\ (k + 1) - 1 = k /\ Together(g[k], h[k], a, k, l)
    BY <1>0, <1>4
  <2>2. g[k + 1] = UnpackNext(g[k], a, k + 1, l) /\ h[k + 1] = ExtractNext(h[k], a, k + 1, l)
    BY <1>1, <1>2, <2>1
  <2>3. Together(UnpackNext(g[k], a, k + 1, l), ExtractNext(h[k], a, k + 1, l), a, k + 1, l)
    BY <2>1, EntryTogether
  <2> QED
    BY <2>2, <2>3
<1>5. \A k \in Nat : k \in P
  <2> HIDE DEF P
  <2> QED BY <1>3, <1>4, CountingInduction
<1> QED
  BY <1>0, <1>1, <1>2, <1>5

\* Up to the last entry means: of the archive.
LEMMA WholeArchive ==
    ASSUME NEW a, Sized(a)
    PROVE  /\ SoundTo(a, Len(a)) <=> Sound(a)
           /\ To(a, "file", Len(a)) = Entries(a, "file")
           /\ FilesTo(a, Len(a)) = Files(a)
           /\ DirsTo(a, Len(a)) = Dirs(a)
           /\ \A l : FitsTo(a, Len(a), l) <=> Fits(a, l)
<1> DEFINE n == Len(a)
<1>1. DOMAIN a = 1 .. n
  BY DEF Sized
<1>2. SoundTo(a, n) <=> Sound(a)
  BY <1>1 DEF SoundTo, Sound, SoundEntry
<1>3. To(a, "file", n) = Entries(a, "file") /\ To(a, "dir", n) = Entries(a, "dir")
  BY <1>1 DEF To, Entries
<1> HIDE DEF n
<1>4. FilesTo(a, n) = Files(a)
  BY <1>3 DEF FilesTo, Files
<1>5. DirsTo(a, n) = Dirs(a)
  <2> DEFINE A == UNION {Prefixes(PathOf(a, i)) : i \in Entries(a, "dir")}
             B == UNION {Prefixes(Dir(p)) : p \in Files(a)}
             C == UNION {Prefixes(Dir(PathOf(a, i))) : i \in Entries(a, "file")}
  <2>1. DirsTo(a, n) = A \cup C
    BY <1>3 DEF DirsTo
  <2>2. Dirs(a) = A \cup B
    BY DEF Dirs
  <2>3. B = C
    <3>1. {Prefixes(Dir(p)) : p \in Files(a)} = {Prefixes(Dir(PathOf(a, i))) : i \in Entries(a, "file")}
      BY DEF Files
    <3> QED
      BY <3>1
  <2> HIDE DEF A, B, C
  <2> QED
    BY <2>1, <2>2, <2>3
<1>6. ASSUME NEW l PROVE FitsTo(a, n, l) <=> Fits(a, l)
  BY <1>3 DEF FitsTo, Fits
<1> QED
  BY <1>2, <1>3, <1>4, <1>5, <1>6 DEF n

\* An archive that is not sound is refused by both, clashing paths or not.
LEMMA UnsoundFails ==
    ASSUME NEW a, Sized(a), Named(a), NEW l \in Nat, ~Sound(a)
    PROVE  ~extractTar(a, l).ok /\ ~unpackTar(a, l).ok
<1>0. Len(a) \in Nat /\ DOMAIN a = 1 .. Len(a)
  BY DEF Sized
<1>1. PICK g : /\ unpackTar(a, l) = g[Len(a)]
               /\ g[0] = EmptyMemFS
               /\ \A k \in 1 .. Len(a) : g[k] = UnpackNext(g[k - 1], a, k, l)
               /\ \A k \in Nat : k <= Len(a) => Walkable(g[k])
  BY UnpackWalks
<1>2. PICK h : /\ extractTar(a, l) = h[Len(a)]
               /\ h[0] = EmptyDir
               /\ \A k \in 1 .. Len(a) : h[k] = ExtractNext(h[k - 1], a, k, l)
  BY <1>0, ExtractSteps
<1> DEFINE Q(k) == /\ DOMAIN h[k] = TreeFields
                   /\ h[k].ok => SoundTo(a, k)
                   /\ g[k].ok => SoundTo(a, k)
           P == {k \in Nat : k <= Len(a) => Q(k)}
<1>3. 0 \in P
  BY <1>2 DEF SoundTo, EmptyDir, TreeFields
<1>4. ASSUME NEW k \in Nat, k \in P PROVE k + 1 \in P
  <2> SUFFICES ASSUME k + 1 <= Len(a) PROVE Q(k + 1)
    OBVIOUS
  <2> DEFINE n == k + 1
             e == a[n]
  <2>1. n \in 1 .. Len(a) /\ n - 1 = k /\ Q(k) /\ Walkable(g[k])
    BY <1>0, <1>1, <1>4
  <2>2. Path(e.name) /\ Rooted(e.name)
    BY <1>0, <2>1 DEF Named
  <2>3. SoundTo(a, n) <=> SoundTo(a, k) /\ SoundEntry(e)
    BY OneMore
  <2>4. g[n] = UnpackNext(g[k], a, n, l) /\ h[n] = ExtractNext(h[k], a, n, l)
    BY <1>1, <1>2, <2>1
  <2> HIDE DEF n, Q
  <2>5. DOMAIN h[n] = TreeFields
    BY <2>1, <2>4, ExtractShape DEF ExtractNext, Q
  <2>6. CASE SoundEntry(e)
    <3>1. g[n].ok => g[k].ok
      BY <2>4 DEF UnpackNext
    <3>2. h[n].ok => h[k].ok
      BY <2>4 DEF ExtractNext
    <3> QED
      BY <2>1, <2>3, <2>5, <2>6, <3>1, <3>2 DEF Q, n
  <2>7. CASE ~SoundEntry(e)
    <3>1. UnpackEntry(g[k], e, n, l) = Refuse(g[k]) /\ ExtractEntry(h[k], e, n, l) = Refuse(h[k])
      BY <2>2, <2>7, UnsoundRefused
    <3>2. ~Refuse(g[k]).ok
      BY <2>1 DEF Refuse, Walkable, MemFields
    <3>3. ~Refuse(h[k]).ok
      BY <2>1 DEF Q, Refuse, TreeFields
    <3>4. ~g[n].ok /\ ~h[n].ok
      BY <2>4, <3>1, <3>2, <3>3 DEF UnpackNext, ExtractNext
    <3> QED
      BY <2>5, <3>4 DEF Q, n
  <2> QED
    BY <2>6, <2>7
<1>5. \A k \in Nat : k \in P
  <2> HIDE DEF P
  <2> QED BY <1>3, <1>4, CountingInduction
<1>6. Q(Len(a))
  BY <1>0, <1>5
<1>7. ~SoundTo(a, Len(a))
  BY WholeArchive
<1> QED
  BY <1>1, <1>2, <1>6, <1>7

\* On an archive without repeated or clashing paths both accept the same and
\* build the same, and the statistics count the bytes of its files.
LEMMA PlainAgrees ==
    ASSUME NEW a, Sized(a), Named(a), Plain(a), NEW l \in Nat
    PROVE  LET local == extractTar(a, l)
               mem == unpackTar(a, l) IN
           /\ local.ok = (Sound(a) /\ Fits(a, l)) /\ mem.ok = local.ok
           /\ mem.ok => /\ mem.files = local.files /\ mem.isDir = local.dirs
                        /\ DOMAIN mem.files = Files(a) /\ mem.isDir = Dirs(a)
                        /\ \A i \in Entries(a, "file") : mem.files[PathOf(a, i)] = i
                        /\ mem.written = SizeOf(a, {local.files[p] : p \in DOMAIN local.files})
<1> DEFINE n == Len(a)
           t == extractTar(a, l)
           m == unpackTar(a, l)
<1>1. Together(m, t, a, n, l)
  BY BothUnpack
<1>2. /\ SoundTo(a, n) <=> Sound(a)
      /\ To(a, "file", n) = Entries(a, "file") /\ FilesTo(a, n) = Files(a) /\ DirsTo(a, n) = Dirs(a)
      /\ FitsTo(a, n, l) <=> Fits(a, l)
  BY WholeArchive
<1> HIDE DEF m, t, n
<1>3. CASE Sound(a) /\ Fits(a, l)
  <2>1. Built(m, t, a, n)
    BY <1>1, <1>2, <1>3 DEF Together
  <2>2. {t.files[p] : p \in DOMAIN t.files} = Entries(a, "file")
    <3> DEFINE F == Entries(a, "file")
               P(i) == PathOf(a, i)
               f == t.files
    <3>1. DOMAIN f = {P(i) : i \in F} /\ \A i \in F : f[P(i)] = i
      BY <1>2, <2>1 DEF Built, FilesTo
    <3> HIDE DEF F, P, f
    <3>2. {f[p] : p \in DOMAIN f} = F
      BY <3>1
    <3> QED
      BY <3>2 DEF F, f
  <2>3. (Sound(a) /\ Fits(a, l)) = TRUE
    BY <1>3
  <2> QED
    BY <1>2, <1>3, <2>1, <2>2, <2>3 DEF Built, m, t
<1>4. CASE ~(Sound(a) /\ Fits(a, l))
  <2>1. m.ok = FALSE /\ t.ok = FALSE
    BY <1>1, <1>2, <1>4 DEF Together
  <2>2. (Sound(a) /\ Fits(a, l)) = FALSE
    BY <1>4
  <2> QED
    BY <2>1, <2>2 DEF m, t
<1> QED
  BY <1>3, <1>4

\* Every upload's content is what unpackTar makes of its archive.
LEMMA PushedIs ==
    ASSUME History, NEW v \in DOMAIN archive
    PROVE  /\ Sized(archive[v]) /\ Named(archive[v])
           /\ content[v] = unpackTar(archive[v], limit) /\ limit \in Nat
<1>1. archive[v] \in Pushable /\ content[v] = unpackTar(archive[v], limit)
  BY DEF History
<1>2. Sized(archive[v]) /\ Named(archive[v])
  BY <1>1, OfferedSized, OfferedNamed DEF Pushable
<1> QED
  BY <1>1, <1>2, SettingsAssumption DEF History

-----------------------------------------------------------------------------
(***************************************************************************)
(* 9. A directory pushed and published.                                    *)
(***************************************************************************)

Backslashes(tree) == \E p \in DOMAIN tree : \E k \in DOMAIN p : p[k] \in DOMAIN Backslashed

\* The files, or the directories, of a directory that is pushed.
OfKind(tree, kind) == {p \in DOMAIN tree : tree[p].kind = kind}

\* The walk meets clean names whose ancestry it has met as directories.
LEMMA TreePaths ==
    ASSUME NEW tree \in Trees, NEW p \in DOMAIN tree
    PROVE  /\ Path(p) /\ p # <<>> /\ Clean(p) = p /\ Inside(p)
           /\ \A q \in Prefixes(Dir(p)) : q \in OfKind(tree, "dir")
           /\ tree[p].kind \in {"dir", "file", "link"} /\ tree[p].size \in Nat
<1>1. /\ p \in Seq(Nat) /\ p # <<>> /\ \A k \in DOMAIN p : p[k] \notin {Up, Slash}
      /\ tree[p].kind \in {"dir", "file", "link"} /\ tree[p].size \in Nat
      /\ \A q \in Prefixes(Dir(p)) : q \in DOMAIN tree /\ tree[q].kind = "dir"
  BY TreesAssumption
<1>2. Path(p)
  BY <1>1 DEF Path
<1>3. \A k \in 1 .. Len(p) : p[k] # Up /\ p[k] # Slash
  BY <1>1
<1>4. Clean(p) = p
  BY <1>2, <1>3, CleanKeeps
<1>5. Inside(p)
  <2>0. Len(p) \in Nat
    BY <1>1
  <2>1. ASSUME NEW k \in 1 .. Len(p)
        PROVE  LET ups == Cardinality({j \in 1 .. k : p[j] = Up}) IN ups <= k - ups
    <3>1. {j \in 1 .. k : p[j] = Up} = {}
      BY <1>3, <2>0
    <3>2. Cardinality({j \in 1 .. k : p[j] = Up}) = 0
      BY <3>1, FS_EmptySet
    <3>3. 0 <= k - 0
      BY <2>0
    <3> HIDE <3>1
    <3> QED
      BY <3>2, <3>3
  <2> QED
    BY <1>3, <2>1 DEF Inside
<1> QED
  BY <1>1, <1>2, <1>4, <1>5 DEF OfKind

\* The archive of a directory has one entry for each path that is kept.
LEMMA TarIs ==
    ASSUME NEW tree \in Trees
    PROVE  LET a == WriteDirAsTar(tree) IN
           /\ Sized(a)
           /\ \A i \in DOMAIN a : LET p == a[i].name IN
                 /\ p \in Kept(tree) /\ PathOf(a, i) = p
                 /\ a[i].kind = tree[p].kind /\ a[i].size = tree[p].size
           /\ \A p \in Kept(tree) : \E i \in DOMAIN a : a[i].name = p
           /\ \A i, j \in DOMAIN a : a[i].name = a[j].name => i = j
<1> DEFINE a == WriteDirAsTar(tree)
           n == Cardinality(Kept(tree))
           V == {TarEntry(tree, p) : p \in Kept(tree)}
<1>1. /\ n \in Nat /\ Len(a) = n /\ a \in Seq(V)
      /\ \A p \in Kept(tree) : \E k \in 1 .. n : a[k] = TarEntry(tree, p)
      /\ \A j, k \in 1 .. n : a[j] = a[k] => j = k
  BY WrittenIs
<1>2. DOMAIN a = 1 .. n /\ \A i \in 1 .. n : a[i] \in V
  <2> HIDE DEF a, V, n
  <2> QED BY <1>1
<1>3. \A p : /\ TarEntry(tree, p).name = p /\ TarEntry(tree, p).kind = tree[p].kind
             /\ TarEntry(tree, p).size = tree[p].size
  BY DEF TarEntry
<1> HIDE DEF a, n
<1>4. \A i \in 1 .. n : a[i].name \in Kept(tree) /\ a[i] = TarEntry(tree, a[i].name)
  BY <1>2, <1>3
<1> HIDE DEF V
<1>5. ASSUME NEW i \in DOMAIN a
      PROVE  /\ a[i].name \in Kept(tree) /\ PathOf(a, i) = a[i].name
             /\ a[i].kind = tree[a[i].name].kind /\ a[i].size = tree[a[i].name].size
             /\ a[i].size \in Nat
  <2>1. a[i].name \in Kept(tree) /\ a[i] = TarEntry(tree, a[i].name)
    BY <1>2, <1>4
  <2>2. a[i].kind = tree[a[i].name].kind /\ a[i].size = tree[a[i].name].size
    BY <1>3, <2>1
  <2>3. Clean(a[i].name) = a[i].name /\ tree[a[i].name].size \in Nat
    BY <2>1, TreePaths DEF Kept
  <2> QED
    BY <2>1, <2>2, <2>3 DEF PathOf
<1>6. Sized(a)
  BY <1>1, <1>2, <1>5 DEF Sized
<1>7. \A p \in Kept(tree) : \E i \in DOMAIN a : a[i].name = p
  BY <1>1, <1>2, <1>3
<1>8. ASSUME NEW i \in DOMAIN a, NEW j \in DOMAIN a, a[i].name = a[j].name PROVE i = j
  <2>1. a[i] = a[j]
    BY <1>2, <1>4, <1>8
  <2> QED
    BY <1>1, <1>2, <2>1
<1> QED
  BY <1>5, <1>6, <1>7, <1>8 DEF a

\* It is sound and plain, and asks for that directory's files and directories.
LEMMA TarReads ==
    ASSUME NEW tree \in Trees, ~Backslashes(tree)
    PROVE  LET a == WriteDirAsTar(tree) IN
           /\ Sound(a) /\ Plain(a)
           /\ Files(a) = OfKind(tree, "file") /\ Dirs(a) = OfKind(tree, "dir")
<1> DEFINE a == WriteDirAsTar(tree)
           N(i) == a[i].name
<1>1. /\ \A i \in DOMAIN a : /\ N(i) \in Kept(tree) /\ PathOf(a, i) = N(i)
                             /\ a[i].kind = tree[N(i)].kind
      /\ \A p \in Kept(tree) : \E i \in DOMAIN a : N(i) = p
      /\ \A i, j \in DOMAIN a : N(i) = N(j) => i = j
  BY TarIs
<1>2. \A p \in Kept(tree) : p \in DOMAIN tree /\ tree[p].kind # "link"
  BY DEF Kept
<1>3. \A i \in DOMAIN a : /\ Path(N(i)) /\ N(i) # <<>> /\ Inside(N(i))
                          /\ \A q \in Prefixes(Dir(N(i))) : q \in OfKind(tree, "dir")
                          /\ tree[N(i)].kind \in {"dir", "file"}
  BY <1>1, <1>2, TreePaths
<1>4. Sound(a)
  BY <1>1, <1>3 DEF Sound
<1>5. \A i : /\ i \in Entries(a, "file") <=> i \in DOMAIN a /\ tree[N(i)].kind = "file"
             /\ i \in Entries(a, "dir") <=> i \in DOMAIN a /\ tree[N(i)].kind = "dir"
  BY <1>1 DEF Entries
<1>6. \A i \in DOMAIN a, c \in DOMAIN Backslashed : \A k \in DOMAIN a[i].name : a[i].name[k] # c
  BY <1>1, <1>2 DEF Backslashes
<1>7. \A i \in DOMAIN a : Prefixes(N(i)) = Prefixes(Dir(N(i))) \cup {N(i)}
  BY <1>3, PrefixOrder
<1> HIDE DEF N, a
<1>8. ASSUME NEW i \in Entries(a, "file"), NEW j \in Entries(a, "file") \cup Entries(a, "dir"), i # j
      PROVE  PathOf(a, i) \notin Prefixes(PathOf(a, j))
  <2> SUFFICES ASSUME N(i) \in Prefixes(N(j)) PROVE FALSE
    BY <1>1, <1>5
  <2>1. i \in DOMAIN a /\ j \in DOMAIN a /\ tree[N(i)].kind = "file"
    BY <1>5
  <2>2. N(i) # N(j)
    BY <1>1, <1>8, <2>1
  <2>3. N(i) \in OfKind(tree, "dir")
    BY <1>3, <1>7, <2>1, <2>2
  <2> QED
    BY <2>1, <2>3 DEF OfKind
<1>9. Plain(a)
  BY <1>1, <1>3, <1>5, <1>6, <1>8 DEF Plain
<1>10. Files(a) = OfKind(tree, "file")
  <2>1. ASSUME NEW x \in Files(a) PROVE x \in OfKind(tree, "file")
    BY <1>1, <1>2, <1>5 DEF Files, OfKind
  <2>2. ASSUME NEW x \in OfKind(tree, "file") PROVE x \in Files(a)
    <3>1. PICK i \in DOMAIN a : N(i) = x
      BY <1>1 DEF OfKind, Kept
    <3>2. i \in Entries(a, "file") /\ PathOf(a, i) = x
      BY <1>1, <1>5, <3>1 DEF OfKind
    <3> QED
      BY <3>2 DEF Files
  <2> QED
    BY <2>1, <2>2
<1>11. Dirs(a) = OfKind(tree, "dir")
  <2> DEFINE A == UNION {Prefixes(PathOf(a, i)) : i \in Entries(a, "dir")}
             B == UNION {Prefixes(Dir(p)) : p \in Files(a)}
  <2>1. \A x : x \in A <=> \E i \in Entries(a, "dir") : x \in Prefixes(PathOf(a, i))
    BY Zenon
  <2>2. \A x : x \in B <=> \E p \in Files(a) : x \in Prefixes(Dir(p))
    BY Zenon
  <2>3. Dirs(a) = A \cup B
    BY DEF Dirs
  <2> HIDE DEF A, B
  <2>4. ASSUME NEW x \in A PROVE x \in OfKind(tree, "dir")
    <3>1. PICK i \in Entries(a, "dir") : x \in Prefixes(PathOf(a, i))
      BY <2>1
    <3>2. i \in DOMAIN a /\ tree[N(i)].kind = "dir" /\ PathOf(a, i) = N(i)
      BY <1>1, <1>5
    <3>3. x \in Prefixes(Dir(N(i))) \/ x = N(i)
      BY <1>7, <3>1, <3>2
    <3> QED
      BY <1>1, <1>2, <1>3, <3>2, <3>3 DEF OfKind
  <2>5. ASSUME NEW x \in B PROVE x \in OfKind(tree, "dir")
    <3>1. PICK i \in Entries(a, "file") : x \in Prefixes(Dir(PathOf(a, i)))
      BY <2>2 DEF Files
    <3> QED
      BY <1>1, <1>3, <1>5, <3>1
  <2>6. ASSUME NEW x \in OfKind(tree, "dir") PROVE x \in A
    <3>1. PICK i \in DOMAIN a : N(i) = x
      BY <1>1 DEF OfKind, Kept
    <3>2. i \in Entries(a, "dir") /\ PathOf(a, i) = x /\ x \in Prefixes(PathOf(a, i))
      BY <1>1, <1>5, <1>7, <3>1 DEF OfKind
    <3> QED
      BY <2>1, <3>2
  <2> QED
    BY <2>3, <2>4, <2>5, <2>6
<1> QED
  BY <1>4, <1>9, <1>10, <1>11 DEF a

\* A published version was complete and unpacked without error.
Whole ==
    \A n \in Names : live[n] # NoSite =>
        LET v == live[n] IN
        /\ v \in DOMAIN archive /\ content[v].ok
        /\ \E u \in Offered : u.complete /\ archive[v] = u.archive /\ origin[v] = u.origin

\* handlePutSite publishes no upload whose body has no end and none that
\* unpackTar refuses.
LEMMA ReplaceWhole ==
    ASSUME CacheInv, Whole, NEW n \in Names, Replace(n)
    PROVE  Whole'
<1> DEFINE k == Len(archive)
           v == k + 1
<1>1. PICK u \in Uploads :
          /\ archive' = Append(archive, u.archive)
          /\ origin' = Append(origin, u.origin)
          /\ content' = Append(content, unpackTar(u.archive, limit))
          /\ \/ u.complete /\ content'[v].ok /\ live' = [live EXCEPT ![n] = v]
             \/ live' = live
  BY DEF Replace
<1>2. u \in Offered
  BY UploadsOffered
<1>3. /\ archive \in Seq(Pushable) /\ content \in Seq(Expanded) /\ origin \in Seq(Origins)
      /\ Len(content) = k /\ Len(origin) = k /\ k \in Nat
      /\ u.archive \in Pushable /\ u.origin \in Origins /\ unpackTar(u.archive, limit) \in Expanded
      /\ DOMAIN archive = 1 .. k /\ live \in [Names -> DOMAIN archive \cup {NoSite}]
  <2>1. live \in [Names -> DOMAIN archive \cup {NoSite}]
    BY DEF CacheInv, TypeOK
  <2>2. History
    BY DEF CacheInv
  <2>3. u.archive \in Pushable /\ u.origin \in Origins
    BY <1>2 DEF Pushable, Origins
  <2>4. unpackTar(u.archive, limit) \in Expanded
    BY <2>2, <2>3 DEF History, Expanded
  <2>5. DOMAIN archive = 1 .. k /\ k \in Nat
    BY <2>2 DEF History
  <2> QED
    BY <2>1, <2>2, <2>3, <2>4, <2>5 DEF History
<1>4. /\ DOMAIN archive' = 1 .. v /\ archive'[v] = u.archive
      /\ \A w \in 1 .. k : archive'[w] = archive[w]
  BY <1>1, <1>3
<1>5. \A w \in 1 .. k : content'[w] = content[w]
  BY <1>1, <1>3
<1>6. origin'[v] = u.origin /\ \A w \in 1 .. k : origin'[w] = origin[w]
  BY <1>1, <1>3
<1>7. v \in 1 .. v /\ \A w \in 1 .. k : w \in 1 .. v
  BY <1>3
<1> HIDE DEF k, v
<1>8. ASSUME NEW m \in Names, live'[m] # NoSite
      PROVE  /\ live'[m] \in DOMAIN archive' /\ content'[live'[m]].ok
             /\ \E x \in Offered : /\ x.complete
                                   /\ archive'[live'[m]] = x.archive /\ origin'[live'[m]] = x.origin
  <2>1. CASE live'[m] = live[m]
    <3> DEFINE w == live[m]
    <3>1. w # NoSite
      BY <1>8, <2>1
    <3>2. /\ w \in 1 .. k /\ content[w].ok
          /\ \E x \in Offered : x.complete /\ archive[w] = x.archive /\ origin[w] = x.origin
      BY <1>3, <3>1 DEF Whole
    <3> HIDE DEF w
    <3>3. content'[w].ok /\ archive'[w] = archive[w] /\ origin'[w] = origin[w] /\ w \in DOMAIN archive'
      BY <1>4, <1>5, <1>6, <1>7, <3>2
    <3>4. live'[m] = w
      BY <2>1 DEF w
    <3> QED
      BY <3>2, <3>3, <3>4
  <2>2. CASE u.complete /\ content'[v].ok /\ live'[m] = v
    BY <1>2, <1>4, <1>6, <1>7, <2>2
  <2>3. live'[m] = live[m] \/ (u.complete /\ content'[v].ok /\ live'[m] = v)
    BY <1>1, <1>3
  <2> QED
    BY <2>1, <2>2, <2>3
<1>9. Offered' = Offered
  BY DEF Offered
<1> QED
  BY <1>8, <1>9 DEF Whole

\* What publishes nothing keeps this.
LEMMA WholeKept ==
    ASSUME CacheInv, Whole, UNCHANGED <<archive, content, origin>>,
           \A n \in Names : live'[n] \in {live[n], NoSite}
    PROVE  Whole'
<1>1. Offered' = Offered
  BY DEF Offered
<1>2. ASSUME NEW n \in Names, live'[n] # NoSite PROVE live'[n] = live[n]
  BY <1>2
<1> QED
  BY <1>1, <1>2 DEF Whole

\* Every operation keeps it.
LEMMA StepsWhole ==
    ASSUME CacheInv, Whole, [Next]_vars
    PROVE  Whole'
<1>1. ASSUME NEW n \in Names, Replace(n) PROVE Whole'
  BY <1>1, ReplaceWhole
<1>2. ASSUME NEW n \in Names, Delete(n) PROVE Whole'
  <2>1. live' = [live EXCEPT ![n] = NoSite] /\ UNCHANGED <<archive, content, origin>>
    BY <1>2 DEF Delete
  <2>2. live \in [Names -> DOMAIN archive \cup {NoSite}]
    BY DEF CacheInv, TypeOK
  <2>3. \A m \in Names : live'[m] \in {live[m], NoSite}
    BY <2>1, <2>2
  <2> QED
    BY <2>1, <2>3, WholeKept
<1>3. ASSUME UNCHANGED <<archive, content, origin, live>> PROVE Whole'
  BY <1>3, WholeKept
<1>4. CASE PutOwn
  BY <1>3, <1>4 DEF PutOwn
<1>5. ASSUME NEW r \in Readers, NEW n \in Names, Open(r, n) PROVE Whole'
  BY <1>3, <1>5 DEF Open
<1>6. ASSUME NEW r \in Readers, Load(r) PROVE Whole'
  BY <1>3, <1>6 DEF Load
<1>7. ASSUME NEW r \in Readers, PutLoaded(r) PROVE Whole'
  BY <1>3, <1>7 DEF PutLoaded
<1>8. CASE UNCHANGED vars
  BY <1>3, <1>8 DEF vars
<1> QED
  BY <1>1, <1>2, <1>4, <1>5, <1>6, <1>7, <1>8 DEF Next

-----------------------------------------------------------------------------
(***************************************************************************)
(* 10. The theorems.                                                       *)
(***************************************************************************)

\* History is enough for a site to be walkable.
LEMMA WalkFollows == History => TreeWalkable
<1> SUFFICES ASSUME History, NEW v \in Latest, content[v].ok
             PROVE  LET mem == content[v]
                        nodes == DOMAIN mem.files \cup mem.isDir IN
                    /\ \A p \in nodes : Prefixes(Dir(p)) \subseteq mem.isDir
                    /\ \A dir \in mem.isDir \cup {<<>>} :
                          entriesFor(mem, dir) = [p \in {p \in nodes : Dir(p) = dir} |-> MemOpen(mem, p)]
                    /\ \A p \in nodes \ (DOMAIN mem.files \cap mem.isDir) :
                          BagIn(p, mem.listed) /\ mem.listed[p] = 1
  BY DEF TreeWalkable
<1> DEFINE m == content[v]
<1>1. v \in DOMAIN archive
  BY DEF Latest, History
<1>2. archive[v] \in Pushable /\ m = unpackTar(archive[v], limit)
  BY <1>1 DEF History
<1>3. Sized(archive[v]) /\ Named(archive[v])
  BY <1>2, OfferedSized, OfferedNamed DEF Pushable
<1>4. Walkable(m)
  <2>1. Len(archive[v]) \in Nat
    BY <1>3 DEF Sized
  <2> HIDE DEF m
  <2> QED BY <1>2, <1>3, <2>1, UnpackWalks
<1> HIDE DEF m
<1>5. \A p \in Nodes(m) : Prefixes(Dir(p)) \subseteq m.isDir
  BY <1>4 DEF Walkable
<1>6. ASSUME NEW dir
      PROVE  entriesFor(m, dir) = [p \in {p \in Nodes(m) : Dir(p) = dir} |-> MemOpen(m, p)]
  <2>1. entriesFor(m, dir) = [p \in {p \in Nodes(m) : Dir(p) = dir} |->
                                 IF p \in DOMAIN m.files THEN "file" ELSE "dir"]
    BY <1>4 DEF entriesFor, Walkable, BagToSet
  <2>2. \A p \in Nodes(m) : MemOpen(m, p) = IF p \in DOMAIN m.files THEN "file" ELSE "dir"
    BY DEF MemOpen, Nodes
  <2> QED
    BY <2>1, <2>2
<1>7. ASSUME NEW p \in Nodes(m) \ (DOMAIN m.files \cap m.isDir)
      PROVE  BagIn(p, m.listed) /\ m.listed[p] = 1
  BY <1>4 DEF Walkable, Nodes, One, BagIn, BagToSet
<1> QED
  BY <1>5, <1>6, <1>7 DEF m, Nodes

\* History is enough for the backends to agree.
LEMMA AgreementFollows == History => BackendsAgree
<1> SUFFICES ASSUME History, NEW v \in Latest
             PROVE  LET a == archive[v]
                        local == extractTar(a, limit)
                        mem == content[v] IN
                    /\ ~Sound(a) => ~local.ok /\ ~mem.ok
                    /\ Plain(a) => local.ok = (Sound(a) /\ Fits(a, limit)) /\ mem.ok = local.ok
                    /\ (Plain(a) /\ mem.ok) =>
                          /\ mem.files = local.files
                          /\ mem.isDir = local.dirs
                          /\ DOMAIN mem.files = Files(a) /\ mem.isDir = Dirs(a)
                          /\ mem.written = SizeOf(a, {local.files[p] : p \in DOMAIN local.files})
  BY DEF BackendsAgree
<1> DEFINE a == archive[v]
           t == extractTar(a, limit)
           m == unpackTar(a, limit)
<1>1. v \in DOMAIN archive
  BY DEF Latest, History
<1>2. Sized(a) /\ Named(a) /\ content[v] = m /\ limit \in Nat
  BY <1>1, PushedIs
<1>3. ~Sound(a) => ~t.ok /\ ~m.ok
  <2> HIDE DEF a
  <2> QED BY <1>2, UnsoundFails
<1>4. Plain(a) => /\ t.ok = (Sound(a) /\ Fits(a, limit)) /\ m.ok = t.ok
                  /\ m.ok => /\ m.files = t.files /\ m.isDir = t.dirs
                             /\ DOMAIN m.files = Files(a) /\ m.isDir = Dirs(a)
                             /\ m.written = SizeOf(a, {t.files[p] : p \in DOMAIN t.files})
  <2> HIDE DEF a
  <2> QED BY <1>2, PlainAgrees
<1> HIDE DEF a, t, m
<1> QED
  BY <1>2, <1>3, <1>4 DEF a, t

\* What is published from a directory is the directory.
LEMMA SurvivalFollows == CacheInv /\ Whole => DirectoriesSurvive
<1> SUFFICES ASSUME CacheInv, Whole, NEW v \in {live[n] : n \in Names} \ {NoSite},
                    origin[v] # NoTree, ~Backslashes(origin[v])
             PROVE  LET mem == content[v]
                        kept(k) == {p \in DOMAIN origin[v] : origin[v][p].kind = k} IN
                    /\ DOMAIN mem.files = kept("file")
                    /\ mem.isDir = kept("dir")
                    /\ \A p \in kept("file") : LET i == mem.files[p] IN
                          PathOf(archive[v], i) = p /\ archive[v][i].size = origin[v][p].size
                    /\ extractTar(archive[v], limit).ok
  BY DEF DirectoriesSurvive, Backslashes
<1>1. PICK u \in Offered : /\ u.complete /\ archive[v] = u.archive /\ origin[v] = u.origin
                           /\ v \in DOMAIN archive /\ content[v].ok
  BY DEF Whole
<1>2. PICK tree \in Trees : \E k \in 0 .. Len(WriteDirAsTar(tree)) : u = PushWithExpiry(tree, k)
  <2>1. ASSUME NEW a \in Archives, u = PushReaderWithExpiry(a) PROVE FALSE
    BY <1>1, <2>1 DEF PushReaderWithExpiry
  <2> QED
    BY <2>1 DEF Offered
<1> DEFINE a == WriteDirAsTar(tree)
           m == unpackTar(a, limit)
           t == extractTar(a, limit)
<1>3. origin[v] = tree /\ archive[v] = a
  <2>1. PICK k \in 0 .. Len(a) : u = PushWithExpiry(tree, k)
    BY <1>2
  <2>2. u.origin = tree /\ u.archive = SubSeq(a, 1, k) /\ k = Len(a)
    BY <1>1, <2>1 DEF PushWithExpiry
  <2>3. a \in Seq({TarEntry(tree, p) : p \in Kept(tree)})
    BY WrittenIs
  <2> HIDE DEF a
  <2>4. SubSeq(a, 1, Len(a)) = a
    BY <2>3
  <2> QED
    BY <1>1, <2>2, <2>4
<1>4. Sized(a) /\ Named(a) /\ content[v] = m /\ limit \in Nat
  BY <1>1, <1>3, PushedIs DEF CacheInv
<1>5. /\ Sound(a) /\ Plain(a)
      /\ Files(a) = OfKind(tree, "file") /\ Dirs(a) = OfKind(tree, "dir")
  BY <1>3, TarReads
<1>6. /\ m.ok = t.ok
      /\ m.ok => /\ DOMAIN m.files = Files(a) /\ m.isDir = Dirs(a)
                 /\ \A i \in Entries(a, "file") : m.files[PathOf(a, i)] = i
  <2> HIDE DEF a
  <2> QED BY <1>4, <1>5, PlainAgrees
<1>7. m.ok
  BY <1>1, <1>4
<1>8. ASSUME NEW p \in OfKind(tree, "file")
      PROVE  PathOf(a, m.files[p]) = p /\ a[m.files[p]].size = tree[p].size
  <2>1. PICK i \in Entries(a, "file") : PathOf(a, i) = p
    BY <1>5 DEF Files
  <2>2. m.files[p] = i
    BY <1>6, <1>7, <2>1
  <2>3. a[i].size = tree[p].size
    <3>1. i \in DOMAIN a
      BY DEF Entries
    <3>2. PathOf(a, i) = a[i].name /\ a[i].size = tree[a[i].name].size
      BY <3>1, TarIs
    <3> QED
      BY <2>1, <3>2
  <2> QED
    BY <2>1, <2>2, <2>3
<1> HIDE DEF a, m, t
<1> QED
  BY <1>3, <1>4, <1>5, <1>6, <1>7, <1>8 DEF OfKind, t

\* CacheInv is inductive: it holds in every state of every behaviour.
THEOREM CacheInvariance == Spec => []CacheInv
<1>1. Init => CacheInv
  BY InitiallyConsistent
<1>2. CacheInv /\ [Next]_vars => CacheInv'
  BY StepKeeps, StutterKeeps
<1> QED
  BY <1>1, <1>2, PTL DEF Spec

\* Every variable keeps its type; curBytes never becomes negative (evict
\* subtracts exactly what put had added).
THEOREM TypeCorrect == Spec => []TypeOK
<1>1. CacheInv => TypeOK
  BY DEF CacheInv
<1> QED
  BY <1>1, CacheInvariance, PTL

\* Whatever order requests load, put and delete in, the list and the map of the
\* cache hold the same entries once each, curBytes is what they were charged,
\* the budget holds, and no site takes more memory than it is charged for.
THEOREM CacheIsAccounted == Spec => []CacheAccounts
  BY AccountsFollow, CacheInvariance, PTL

\* A put evicts least recently used entries first, no more of them than the
\* budget asks for, and keeps what it put.
THEOREM OldestGoFirst == Spec => EvictsOldest
<1> DEFINE A == LET out == cache.items \ cache'.items IN
                (live' = live /\ out # {}) =>
                    /\ \A x \in out, y \in cache.items \cap cache'.items : <<x, y>> \in older
                    /\ \A x \in out : (\A z \in out \ {x} : <<z, x>> \in older)
                                       => cache'.curBytes + Charge(x) > maxBytes
                    /\ \E v \in cache'.items \ cache.items : TRUE
<1>1. ASSUME CacheInv, [Next]_vars PROVE [A]_vars
  <2>1. ASSUME cache'.items = cache.items PROVE A
    BY <2>1
  <2>2. ASSUME NEW v \in Versions, cache' = put(cache, v), Used(cache', v),
               archive' = archive, content' = content, maxBytes' = maxBytes
        PROVE  A
    <3>1. OldestOut(cache, cache') /\ older = Order(cache)
      BY <1>1, <2>2, UsedIs DEF CacheInv
    <3> QED
      BY <3>1 DEF OldestOut
  <2>3. CASE \E n \in Names : Replace(n)
    BY <2>1, <2>3 DEF Replace
  <2>4. CASE \E n \in Names : Delete(n)
    <3>1. PICK n \in Names : live[n] # NoSite /\ live' = [live EXCEPT ![n] = NoSite]
      BY <2>4 DEF Delete
    <3>2. live' # live
      BY <1>1, <3>1 DEF CacheInv, TypeOK
    <3> QED
      BY <3>2
  <2>5. CASE PutOwn
    <3>1. putting \in Versions
      BY <1>1, <2>5 DEF PutOwn, CacheInv, TypeOK, Versions
    <3> QED
      BY <2>2, <2>5, <3>1 DEF PutOwn
  <2>6. CASE \E r \in Readers, n \in Names : Open(r, n)
    <3>1. PICK r \in Readers, n \in Names : Open(r, n)
      BY <2>6
    <3>2. cache' = cache \/ cache' = get(cache, live[n])
      BY <3>1 DEF Open
    <3>3. get(cache, live[n]).items = cache.items
      <4>1. Priced /\ Consistent(cache)
        BY <1>1, Prices DEF CacheInv
      <4>2. CASE Hit(cache, live[n])
        BY <4>1, <4>2, MoveToFrontKeeps DEF get, Hit
      <4>3. CASE ~Hit(cache, live[n])
        BY <4>3 DEF get
      <4> QED
        BY <4>2, <4>3
    <3> QED
      BY <2>1, <3>2, <3>3
  <2>7. CASE \E r \in Readers : Load(r)
    BY <2>1, <2>7 DEF Load
  <2>8. CASE \E r \in Readers : PutLoaded(r)
    <3>1. PICK r \in Readers : PutLoaded(r)
      BY <2>8
    <3>2. want[r] \in Versions
      BY <1>1, <3>1 DEF PutLoaded, CacheInv, TypeOK, Versions
    <3> QED
      BY <2>2, <3>1, <3>2 DEF PutLoaded
  <2>9. CASE UNCHANGED vars
    BY <2>9
  <2> QED
    BY <1>1, <2>3, <2>4, <2>5, <2>6, <2>7, <2>8, <2>9 DEF Next
<1> QED
  BY <1>1, CacheInvariance, PTL DEF EvictsOldest, Spec

\* In every unpacked site the whole ancestry of a node is registered, and each
\* node is listed once, except a path that is both file and directory: this is
\* what memFS.Open and ReadDir rely on.
THEOREM SitesAreWalkable == Spec => []TreeWalkable
<1>1. CacheInv => TreeWalkable
  BY WalkFollows DEF CacheInv
<1> QED
  BY <1>1, CacheInvariance, PTL

\* storage.extractTar and s3store.unpackTar accept the same archives, cut off at
\* the same byte, and build the same site, for every archive without repeated
\* or clashing paths or backslashes; both refuse every archive with an unsafe
\* name or a damaged entry.
THEOREM BackendsDoAgree == Spec => []BackendsAgree
<1>1. CacheInv => BackendsAgree
  BY AgreementFollows DEF CacheInv
<1> QED
  BY <1>1, CacheInvariance, PTL

\* Only complete uploads that unpacked without error are ever published.
THEOREM PublishedWhole == Spec => []Whole
<1>1. Init => Whole
  BY DEF Init, Whole
<1>2. CacheInv /\ Whole /\ [Next]_vars => Whole'
  BY StepsWhole
<1> QED
  BY <1>1, <1>2, CacheInvariance, PTL DEF Spec

\* A site published by `crate push <dir>` is that directory, whole, from either
\* backend, whatever walks failed half-way before it.
THEOREM DirectoriesDoSurvive == Spec => []DirectoriesSurvive
<1>1. CacheInv /\ Whole => DirectoriesSurvive
  BY SurvivalFollows
<1> QED
  BY <1>1, CacheInvariance, PublishedWhole, PTL

=============================================================================
