----------------------------- MODULE FoldProofs -----------------------------
(***************************************************************************)
(* Induction over sequences and finite sets, without operators as          *)
(* parameters: a function computed one element at a time exists, and what  *)
(* the first value is and every step keeps, all values are.  Both are a    *)
(* least counterexample away from the order of the naturals.  From these,  *)
(* what the community modules' FlattenSeq and SumFunctionOnSet compute.    *)
(***************************************************************************)
EXTENDS Integers, Sequences, FiniteSets, SequencesExt, SequenceTheorems,
        FiniteSetTheorems, WellFoundedInduction, TLAPS

(* A set of naturals with a member has a least one. *)
LEMMA LeastNatural ==
  ASSUME NEW S, S \subseteq Nat, S # {}
  PROVE  \E m \in S : \A k \in S : m <= k
<1>1. PICK m \in S : \A k \in S : ~(<<k, m>> \in OpToRel(<, Nat))
  BY NatLessThanWellFounded, WFMin
<1>2. \A k \in S : m <= k
  <2> SUFFICES ASSUME NEW k \in S, ~(m <= k) PROVE FALSE
    OBVIOUS
  <2>1. <<k, m>> \in OpToRel(<, Nat)
    BY DEF OpToRel
  <2> QED BY <1>1, <2>1
<1> QED BY <1>2

(* Every value is in G when the first is and each step stays in G. *)
LEMMA StepsStay ==
  ASSUME NEW n \in Nat, NEW G, NEW f, f[0] \in G,
         \A i \in 1..n : f[i - 1] \in G => f[i] \in G
  PROVE  \A i \in 0..n : f[i] \in G
<1> DEFINE Out == {i \in 0..n : f[i] \notin G}
<1> SUFFICES ASSUME Out # {} PROVE FALSE
  OBVIOUS
<1>0. Out \subseteq Nat
  OBVIOUS
<1> HIDE DEF Out
<1>1. PICK m \in Out : \A k \in Out : m <= k
  BY <1>0, LeastNatural
<1> USE DEF Out
<1>2. m \in 1..n
  BY <1>1
<1>3. m - 1 \in 0..n /\ m - 1 \notin Out
  BY <1>1, <1>2
<1> QED BY <1>1, <1>2, <1>3

(* A function computed from its previous value, step by step in X, exists. *)
Steps(f, n, base, step) == f[0] = base /\ \A i \in 1..n : f[i] = step[<<i, f[i - 1]>>]

LEMMA StepsExist ==
  ASSUME NEW n \in Nat, NEW X, NEW base \in X, NEW step \in [(1..n) \X X -> X]
  PROVE  \E f \in [0..n -> X] : Steps(f, n, base, step)
<1> DEFINE Short == {m \in 0..n : ~ \E f \in [0..m -> X] : Steps(f, m, base, step)}
<1> SUFFICES ASSUME Short # {} PROVE FALSE
  OBVIOUS
<1>0. Short \subseteq Nat
  OBVIOUS
<1> HIDE DEF Short
<1>1. PICK m \in Short : \A k \in Short : m <= k
  BY <1>0, LeastNatural
<1> USE DEF Short
<1>2. m # 0
  <2>1. [i \in 0..0 |-> base] \in [0..0 -> X]
    OBVIOUS
  <2>2. Steps([i \in 0..0 |-> base], 0, base, step)
    BY DEF Steps
  <2> QED BY <2>1, <2>2
<1>3. m \in 1..n /\ m - 1 \in 0..n /\ m - 1 \notin Short
  BY <1>1, <1>2
<1>4. PICK g \in [0..(m - 1) -> X] : Steps(g, m - 1, base, step)
  BY <1>3
<1> DEFINE last == step[<<m, g[m - 1]>>]
           f == [i \in 0..m |-> IF i = m THEN last ELSE g[i]]
<1>5. g[m - 1] \in X
  BY <1>3
<1>6. last \in X
  BY <1>3, <1>5
<1> HIDE DEF last
<1>7. f \in [0..m -> X]
  BY <1>3, <1>6
<1>8. f[m] = last /\ \A i \in 0..(m - 1) : f[i] = g[i]
  BY <1>3
<1> HIDE DEF f
<1>9. Steps(f, m, base, step)
  <2>1. f[0] = base
    BY <1>3, <1>4, <1>8 DEF Steps
  <2>2. ASSUME NEW i \in 1..m PROVE f[i] = step[<<i, f[i - 1]>>]
    <3>1. CASE i = m
      BY <1>3, <1>8, <3>1, SMTT(30) DEF last
    <3>2. CASE i \in 1..(m - 1)
      BY <1>3, <1>4, <1>8, <3>2 DEF Steps
    <3> QED BY <1>3, <3>1, <3>2
  <2> QED BY <2>1, <2>2 DEF Steps
<1> QED BY <1>3, <1>7, <1>9

-----------------------------------------------------------------------------
(* FlattenSeq of the community modules: the items of the parts, no others. *)
LEMMA FlattenItems ==
  ASSUME NEW C, NEW parts \in Seq(Seq(C))
  PROVE  FlattenSeq(parts) \in Seq(C)
<1> DEFINE n == Len(parts)
           F(f) == f = [i \in 1..n |-> IF i = 1 THEN parts[i] ELSE f[i - 1] \o parts[i]]
           flatten == CHOOSE f : F(f)
<1>1. CASE n = 0
  <2>1. parts = <<>> /\ FlattenSeq(parts) = parts
    BY <1>1 DEF FlattenSeq
  <2>2. <<>> \in Seq(C)
    BY EmptySeq
  <2> QED BY <2>1, <2>2
<1>2. CASE n # 0
  <2>1. n \in Nat \ {0} /\ \A i \in 1..n : parts[i] \in Seq(C)
    BY <1>2
  <2> DEFINE X == Seq(C)
             step == [p \in (1..n) \X X |-> IF p[1] = 1 THEN parts[1] ELSE p[2] \o parts[p[1]]]
  <2>2. step \in [(1..n) \X X -> X]
    BY <2>1
  <2>3. <<>> \in X
    OBVIOUS
  <2> HIDE DEF X, step
  <2>4. PICK g \in [0..n -> X] : Steps(g, n, <<>>, step)
    BY <2>1, <2>2, <2>3, StepsExist
  <2> DEFINE h == [i \in 1..n |-> g[i]]
  <2> HIDE DEF F
  <2>5. \A i \in 1..n : g[i] = IF i = 1 THEN parts[i] ELSE g[i - 1] \o parts[i]
    <3> SUFFICES ASSUME NEW i \in 1..n PROVE g[i] = IF i = 1 THEN parts[i] ELSE g[i - 1] \o parts[i]
      OBVIOUS
    <3>0. i - 1 \in 0..n
      BY <2>1
    <3>1. g[i - 1] \in X
      BY <2>4, <3>0
    <3>2. <<i, g[i - 1]>> \in (1..n) \X X
      BY <3>1
    <3> QED BY <2>4, <3>2 DEF Steps, step
  <2>6. F(h)
    <3>1. \A i \in 1..n : i # 1 => g[i - 1] = h[i - 1]
      BY <2>1
    <3>2. h = [i \in 1..n |-> IF i = 1 THEN parts[i] ELSE h[i - 1] \o parts[i]]
      BY <2>5, <3>1
    <3> QED BY <3>2 DEF F
  <2>7. F(flatten)
    BY <2>6
  <2>8. flatten = [i \in 1..n |-> IF i = 1 THEN parts[i] ELSE flatten[i - 1] \o parts[i]]
    BY <2>7 DEF F
  <2>9. FlattenSeq(parts) = flatten[n]
    BY <1>2 DEF FlattenSeq, F
  <2> HIDE DEF flatten
  <2> HIDE DEF n
  <2> DEFINE k == [i \in 0..n |-> IF i = 0 THEN <<>> ELSE flatten[i]]
  <2>10. k[0] \in Seq(C) /\ \A i \in 1..n : k[i - 1] \in Seq(C) => k[i] \in Seq(C)
    <3>1. k[0] \in Seq(C)
      BY <2>1, EmptySeq
    <3>2. ASSUME NEW i \in 1..n, k[i - 1] \in Seq(C) PROVE k[i] \in Seq(C)
      <4>1. CASE i = 1
        BY <2>1, <2>8, <4>1
      <4>2. CASE i # 1
        <5>0. i - 1 \in 1..n
          BY <2>1, <4>2
        <5>1. i \in 0..n /\ i # 0 /\ i - 1 \in 0..n /\ i - 1 # 0
          BY <2>1, <5>0
        <5>2. k[i] = flatten[i] /\ k[i - 1] = flatten[i - 1]
          BY <5>1
        <5>3. flatten[i] = flatten[i - 1] \o parts[i]
          BY <2>8, <4>2
        <5> HIDE DEF k
        <5> QED BY <2>1, <3>2, <5>2, <5>3
      <4> QED BY <4>1, <4>2
    <3> QED BY <3>1, <3>2
  <2> HIDE DEF k
  <2>11. \A i \in 0..n : k[i] \in Seq(C)
    BY <2>1, <2>10, StepsStay
  <2>12. k[n] \in Seq(C)
    BY <2>1, <2>11
  <2> QED BY <2>1, <2>9, <2>12 DEF k
<1> QED BY <1>1, <1>2
-----------------------------------------------------------------------------
(* Sums over finite sets.                                                  *)

(* The element SumFunctionOnSet takes next, and the equations of its sums. *)
Picked(s) == CHOOSE x \in s : TRUE

SumsOver(g, fun, family) ==
  \A s \in family : g[s] = IF s = {} THEN 0 ELSE fun[Picked(s)] + g[s \ {Picked(s)}]

(* A family of subsets that has the empty one, and every one whose remainder *)
(* after the next element it has, has them all.                              *)
LEMMA SubsetsStay ==
  ASSUME NEW S, IsFiniteSet(S), NEW G, {} \in G,
         \A s \in SUBSET S : s # {} /\ s \ {Picked(s)} \in G => s \in G
  PROVE  \A s \in SUBSET S : s \in G
<1> DEFINE Out == {s \in SUBSET S : s \notin G}
           Sizes == {Cardinality(s) : s \in Out}
<1> SUFFICES ASSUME Out # {} PROVE FALSE
  OBVIOUS
<1>1. \A s \in SUBSET S : IsFiniteSet(s) /\ Cardinality(s) \in Nat
  BY FS_Subset, FS_CardinalityType
<1>2. Sizes \subseteq Nat /\ Sizes # {}
  BY <1>1
<1>3. \E m \in Sizes : \A k \in Sizes : m <= k
  <2> HIDE DEF Sizes
  <2> QED BY <1>2, LeastNatural
<1>4. PICK s \in Out : \A t \in Out : Cardinality(s) <= Cardinality(t)
  BY <1>3
<1>5. s # {} /\ Picked(s) \in s
  BY DEF Picked
<1>6. s \ {Picked(s)} \in SUBSET S /\ Cardinality(s \ {Picked(s)}) = Cardinality(s) - 1
  BY <1>1, <1>5, FS_RemoveElement
<1>7. s \ {Picked(s)} \notin Out
  BY <1>1, <1>4, <1>6
<1> QED BY <1>5, <1>6, <1>7

(* The sums of the subsets exist. *)
LEMMA SumsExist ==
  ASSUME NEW S, IsFiniteSet(S), NEW fun \in [S -> Nat]
  PROVE  \E g \in [SUBSET S -> Nat] : SumsOver(g, fun, SUBSET S)
<1> DEFINE n == Cardinality(S)
           Small(m) == {s \in SUBSET S : Cardinality(s) <= m}
           Short == {m \in 0..n : ~ \E g \in [Small(m) -> Nat] : SumsOver(g, fun, Small(m))}
<1>0. n \in Nat /\ \A s \in SUBSET S : IsFiniteSet(s) /\ Cardinality(s) \in 0..n
  BY FS_Subset, FS_CardinalityType
<1>1. Short = {}
  <2> SUFFICES ASSUME Short # {} PROVE FALSE
    OBVIOUS
  <2>0. Short \subseteq Nat
    BY <1>0
  <2> HIDE DEF Short
  <2>1. PICK m \in Short : \A k \in Short : m <= k
    BY <2>0, LeastNatural
  <2> USE DEF Short
  <2> HIDE DEF n
  <2>2. \A s \in SUBSET S : s # {} => /\ Picked(s) \in s
                                     /\ s \ {Picked(s)} \in SUBSET S
                                     /\ Cardinality(s \ {Picked(s)}) = Cardinality(s) - 1
    BY <1>0, FS_RemoveElement DEF Picked
  <2>3. m # 0
    <3> SUFFICES ASSUME m = 0 PROVE FALSE
      OBVIOUS
    <3>1. Small(0) = {{}}
      BY <1>0, FS_EmptySet
    <3> DEFINE g == [s \in Small(0) |-> 0]
    <3>2. g \in [Small(0) -> Nat] /\ SumsOver(g, fun, Small(0))
      BY <3>1 DEF SumsOver
    <3> QED BY <3>2
  <2>4. m \in 1..n /\ m - 1 \in 0..n /\ m - 1 \notin Short
    BY <1>0, <2>1, <2>3
  <2>5. PICK g \in [Small(m - 1) -> Nat] : SumsOver(g, fun, Small(m - 1))
    BY <2>4
  <2> DEFINE h == [s \in Small(m) |-> IF s = {} THEN 0 ELSE fun[Picked(s)] + g[s \ {Picked(s)}]]
  <2>6. \A s \in Small(m) : s # {} => s \ {Picked(s)} \in Small(m - 1)
    BY <1>0, <2>2, <2>4
  <2>7. h \in [Small(m) -> Nat]
    BY <2>2, <2>6
  <2>8. \A s \in Small(m - 1) : s \in Small(m) /\ h[s] = g[s]
    BY <1>0, <2>4, <2>5 DEF SumsOver
  <2>9. SumsOver(h, fun, Small(m))
    BY <2>6, <2>8 DEF SumsOver
  <2> QED BY <2>1, <2>7, <2>9
<1>2. Small(n) = SUBSET S
  BY <1>0
<1>3. \E g \in [Small(n) -> Nat] : SumsOver(g, fun, Small(n))
  BY <1>0, <1>1
<1> QED BY <1>2, <1>3

(* SumFunctionOnSet is one of them. *)
LEMMA SumUnfolds ==
  ASSUME NEW S, IsFiniteSet(S), NEW fun \in [S -> Nat]
  PROVE  \E g \in [SUBSET S -> Nat] :
            SumsOver(g, fun, SUBSET S) /\ SumFunctionOnSet(fun, S) = g[S]
<1> DEFINE F(g) == g = [s \in SUBSET S |-> IF s = {} THEN 0
                                           ELSE fun[CHOOSE x \in s : TRUE]
                                                + g[s \ {CHOOSE x \in s : TRUE}]]
           sums == CHOOSE g : F(g)
<1>1. PICK g \in [SUBSET S -> Nat] : SumsOver(g, fun, SUBSET S)
  BY SumsExist
<1>2. F(g)
  BY <1>1 DEF SumsOver, Picked
<1> HIDE DEF F
<1>3. F(sums)
  BY <1>2
<1>4. SumFunctionOnSet(fun, S) = sums[S]
  BY DEF SumFunctionOnSet, FoldFunctionOnSet, MapThenFoldSet, F
<1> HIDE DEF sums
<1>5. SumsOver(sums, fun, SUBSET S)
  BY <1>3 DEF F, SumsOver, Picked
<1>6. \A s \in SUBSET S : s \in {t \in SUBSET S : sums[t] \in Nat}
  <2> DEFINE G == {t \in SUBSET S : sums[t] \in Nat}
  <2>1. {} \in G
    <3>1. sums[{}] = 0
      BY <1>5 DEF SumsOver
    <3> QED BY <3>1
  <2>2. \A s \in SUBSET S : s # {} /\ s \ {Picked(s)} \in G => s \in G
    <3> SUFFICES ASSUME NEW s \in SUBSET S, s # {}, s \ {Picked(s)} \in G PROVE sums[s] \in Nat
      OBVIOUS
    <3>1. Picked(s) \in S
      BY DEF Picked
    <3>2. sums[s] = fun[Picked(s)] + sums[s \ {Picked(s)}]
      BY <1>5 DEF SumsOver
    <3>3. sums[s \ {Picked(s)}] \in Nat /\ fun[Picked(s)] \in Nat
      BY <3>1
    <3> QED BY <3>2, <3>3
  <2> HIDE DEF G
  <2> QED BY <2>1, <2>2, SubsetsStay DEF G
<1>7. sums \in [SUBSET S -> Nat]
  BY <1>3, <1>6 DEF F
<1> QED BY <1>4, <1>5, <1>7

(* Sums add up pointwise. *)
LEMMA SumAdds ==
  ASSUME NEW S, IsFiniteSet(S), NEW f \in [S -> Nat], NEW d \in [S -> Nat], NEW t \in [S -> Nat],
         \A x \in S : t[x] = f[x] + d[x]
  PROVE  SumFunctionOnSet(t, S) = SumFunctionOnSet(f, S) + SumFunctionOnSet(d, S)
<1>1. PICK a \in [SUBSET S -> Nat] : SumsOver(a, f, SUBSET S) /\ SumFunctionOnSet(f, S) = a[S]
  BY SumUnfolds
<1>2. PICK b \in [SUBSET S -> Nat] : SumsOver(b, d, SUBSET S) /\ SumFunctionOnSet(d, S) = b[S]
  BY SumUnfolds
<1>3. PICK c \in [SUBSET S -> Nat] : SumsOver(c, t, SUBSET S) /\ SumFunctionOnSet(t, S) = c[S]
  BY SumUnfolds
<1> DEFINE G == {s \in SUBSET S : c[s] = a[s] + b[s]}
<1>4. {} \in G
  <2>1. a[{}] = 0 /\ b[{}] = 0 /\ c[{}] = 0
    <3>1. a[{}] = 0
      BY <1>1 DEF SumsOver
    <3>2. b[{}] = 0
      BY <1>2 DEF SumsOver
    <3>3. c[{}] = 0
      BY <1>3 DEF SumsOver
    <3> QED BY <3>1, <3>2, <3>3
  <2> QED BY <2>1
<1>5. \A s \in SUBSET S : s # {} /\ s \ {Picked(s)} \in G => s \in G
  <2> SUFFICES ASSUME NEW s \in SUBSET S, s # {}, s \ {Picked(s)} \in G PROVE s \in G
    OBVIOUS
  <2>1. Picked(s) \in S /\ s \ {Picked(s)} \in SUBSET S
    BY DEF Picked
  <2> DEFINE r == s \ {Picked(s)}
  <2>2. a[s] = f[Picked(s)] + a[r]
    BY <1>1 DEF SumsOver
  <2>3. b[s] = d[Picked(s)] + b[r]
    BY <1>2 DEF SumsOver
  <2>4. c[s] = t[Picked(s)] + c[r]
    BY <1>3 DEF SumsOver
  <2>5. c[r] = a[r] + b[r] /\ r \in SUBSET S
    OBVIOUS
  <2> HIDE DEF r
  <2>6. /\ a[r] \in Nat /\ b[r] \in Nat
        /\ f[Picked(s)] \in Nat /\ d[Picked(s)] \in Nat
        /\ t[Picked(s)] = f[Picked(s)] + d[Picked(s)]
    BY <2>1, <2>5
  <2>7. c[s] = a[s] + b[s]
    BY <2>2, <2>3, <2>4, <2>5, <2>6
  <2> QED BY <2>7
<1> HIDE DEF G
<1>6. S \in G
  <2>1. \A s \in SUBSET S : s \in G
    BY <1>4, <1>5, SubsetsStay
  <2> QED BY <2>1
<1> QED BY <1>1, <1>2, <1>3, <1>6 DEF G

(* A sum is a natural number, and zero exactly when every summand is. *)
LEMMA SumIsNat ==
  ASSUME NEW S, IsFiniteSet(S), NEW f \in [S -> Nat]
  PROVE  /\ SumFunctionOnSet(f, S) \in Nat
         /\ \A x \in S : f[x] <= SumFunctionOnSet(f, S)
         /\ (\A x \in S : f[x] = 0) => SumFunctionOnSet(f, S) = 0
<1>1. PICK a \in [SUBSET S -> Nat] : SumsOver(a, f, SUBSET S) /\ SumFunctionOnSet(f, S) = a[S]
  BY SumUnfolds
<1>2. \A x \in S : f[x] <= a[S]
  <2> DEFINE G == {s \in SUBSET S : \A x \in s : f[x] <= a[s]}
  <2>1. {} \in G
    OBVIOUS
  <2>2. \A s \in SUBSET S : s # {} /\ s \ {Picked(s)} \in G => s \in G
    <3> SUFFICES ASSUME NEW s \in SUBSET S, s # {}, s \ {Picked(s)} \in G PROVE s \in G
      OBVIOUS
    <3>1. Picked(s) \in s /\ s \ {Picked(s)} \in SUBSET S
      BY DEF Picked
    <3>2. a[s] = f[Picked(s)] + a[s \ {Picked(s)}]
      BY <1>1 DEF SumsOver
    <3>3. a[s \ {Picked(s)}] \in Nat /\ \A x \in s : f[x] \in Nat
      BY <3>1
    <3>4. \A x \in s \ {Picked(s)} : f[x] <= a[s \ {Picked(s)}]
      OBVIOUS
    <3> QED BY <3>1, <3>2, <3>3, <3>4
  <2> HIDE DEF G
  <2>3. S \in G
    BY <2>1, <2>2, SubsetsStay
  <2> QED BY <2>3 DEF G
<1>3. ASSUME \A x \in S : f[x] = 0 PROVE a[S] = 0
  <2> DEFINE G == {s \in SUBSET S : a[s] = 0}
  <2>1. {} \in G
    BY <1>1 DEF SumsOver
  <2>2. \A s \in SUBSET S : s # {} /\ s \ {Picked(s)} \in G => s \in G
    BY <1>1, <1>3 DEF SumsOver, Picked
  <2> HIDE DEF G
  <2>3. S \in G
    BY <2>1, <2>2, SubsetsStay
  <2> QED BY <2>3 DEF G
<1> QED BY <1>1, <1>2, <1>3

(* Adding n to one summand adds n to the sum. *)
LEMMA SumOfOne ==
  ASSUME NEW S, IsFiniteSet(S), NEW y \in S, NEW n \in Nat
  PROVE  SumFunctionOnSet([x \in S |-> IF x = y THEN n ELSE 0], S) = n
<1> DEFINE f == [x \in S |-> IF x = y THEN n ELSE 0]
<1>0. f \in [S -> Nat]
  OBVIOUS
<1>1. f[y] = n /\ \A x \in S : x # y => f[x] = 0
  OBVIOUS
<1> HIDE DEF f
<1>2. PICK a \in [SUBSET S -> Nat] : SumsOver(a, f, SUBSET S) /\ SumFunctionOnSet(f, S) = a[S]
  BY <1>0, SumUnfolds
<1> DEFINE G == {s \in SUBSET S : a[s] = IF y \in s THEN n ELSE 0}
<1>3. {} \in G
  BY <1>2 DEF SumsOver
<1>4. \A s \in SUBSET S : s # {} /\ s \ {Picked(s)} \in G => s \in G
  <2> SUFFICES ASSUME NEW s \in SUBSET S, s # {}, s \ {Picked(s)} \in G PROVE s \in G
    OBVIOUS
  <2>1. Picked(s) \in s /\ s \ {Picked(s)} \in SUBSET S
    BY DEF Picked
  <2>2. a[s] = f[Picked(s)] + a[s \ {Picked(s)}]
    BY <1>2 DEF SumsOver
  <2> QED BY <1>1, <2>1, <2>2
<1> HIDE DEF G
<1>5. S \in G
  BY <1>3, <1>4, SubsetsStay
<1> QED BY <1>2, <1>5 DEF G, f

LEMMA SumGrows ==
  ASSUME NEW S, IsFiniteSet(S), NEW y \in S, NEW n \in Nat, NEW f \in [S -> Nat], NEW h \in [S -> Nat],
         \A x \in S : h[x] = f[x] + (IF x = y THEN n ELSE 0)
  PROVE  SumFunctionOnSet(h, S) = SumFunctionOnSet(f, S) + n
<1> DEFINE d == [x \in S |-> IF x = y THEN n ELSE 0]
<1>1. d \in [S -> Nat] /\ \A x \in S : h[x] = f[x] + d[x]
  OBVIOUS
<1>2. SumFunctionOnSet(d, S) = n
  BY SumOfOne
<1> HIDE DEF d
<1>3. SumFunctionOnSet(h, S) = SumFunctionOnSet(f, S) + SumFunctionOnSet(d, S)
  BY <1>1, SumAdds
<1> QED BY <1>2, <1>3
=============================================================================
