---------------------------- MODULE FoldLemmas ----------------------------
(***************************************************************************)
(* What the store's sums and sweeps compute, for inputs of any size: byte  *)
(* totals over finite sets of files, charging a shared file to the first   *)
(* entry that links it, listing entries in order, and going through such   *)
(* a listing one entry at a time.                                          *)
(*                                                                         *)
(* The induction is over a set of naturals, or of finite sets, that is     *)
(* given as a value, so that no step has an operator for a parameter.      *)
(***************************************************************************)
EXTENDS Naturals, FiniteSets, FiniteSetsExt, SequencesExt, Functions, FiniteSetTheorems, TLAPS

\* Induction on the number of entries a total or a sweep of the store has gone through.
LEMMA NatSetInduction ==
    ASSUME NEW T, T \subseteq Nat, 0 \in T, \A n \in T : n + 1 \in T
    PROVE  T = Nat
<1> SUFFICES ASSUME T # Nat PROVE FALSE
  OBVIOUS
<1> DEFINE U == Nat \ T
<1>1. U # {} /\ U \subseteq Nat
  OBVIOUS
<1>2. PICK x \in U : \A y \in U : ~(<<y, x>> \in OpToRel(<, Nat))
  BY <1>1, WFMin, NatLessThanWellFounded
<1>3. x # 0 /\ x \in Nat
  OBVIOUS
<1>4. x - 1 \in Nat /\ x - 1 < x
  BY <1>3
<1>5. x - 1 \in T
  <2> SUFFICES ASSUME x - 1 \notin T PROVE FALSE
    OBVIOUS
  <2>1. x - 1 \in U
    BY <1>4
  <2>2. <<x - 1, x>> \in OpToRel(<, Nat)
    BY <1>3, <1>4 DEF OpToRel
  <2> QED
    BY <2>1, <2>2, <1>2
<1>6. (x - 1) + 1 = x
  BY <1>3
<1> QED
  BY <1>5, <1>6

\* g folds step over the parts of S, taking c[s] out of the part s first.
Unfolds(g, S, base, step, c) ==
    g = [s \in SUBSET S |-> IF s = {} THEN base ELSE step[<<c[s], g[s \ {c[s]}]>>]]

\* Such a fold exists, so the CHOOSE by which the store's totals and sweeps are
\* defined names it.
LEMMA FoldExists ==
    ASSUME NEW S, IsFiniteSet(S), NEW V, NEW base \in V, NEW step \in [S \X V -> V],
           NEW c, \A s \in SUBSET S : s # {} => c[s] \in s
    PROVE  \E g \in [SUBSET S -> V] : Unfolds(g, S, base, step, c)
<1> DEFINE Small(n) == {s \in SUBSET S : Cardinality(s) <= n}
           Body(g, s) == IF s = {} THEN base ELSE step[<<c[s], g[s \ {c[s]}]>>]
           T == {n \in Nat : \E g \in [Small(n) -> V] : \A s \in Small(n) : g[s] = Body(g, s)}
<1>1. \A s \in SUBSET S : IsFiniteSet(s) /\ Cardinality(s) \in Nat /\ (Cardinality(s) = 0 => s = {})
  BY FS_Subset, FS_CardinalityType, FS_EmptySet
<1>2. 0 \in T
  <2> DEFINE g == [s \in Small(0) |-> base]
  <2>1. \A s \in Small(0) : s = {}
    BY <1>1
  <2>2. g \in [Small(0) -> V] /\ \A s \in Small(0) : g[s] = Body(g, s)
    BY <2>1
  <2> QED
    BY <2>2
<1>3. ASSUME NEW n \in T PROVE n + 1 \in T
  <2>0. n \in Nat
    OBVIOUS
  <2>1. PICK g \in [Small(n) -> V] : \A s \in Small(n) : g[s] = Body(g, s)
    OBVIOUS
  <2> DEFINE h == [s \in Small(n + 1) |-> Body(g, s)]
  <2>2. ASSUME NEW s \in Small(n + 1), s # {}
        PROVE  c[s] \in S /\ s \ {c[s]} \in Small(n) /\ s \ {c[s]} \in Small(n + 1)
    <3>1. s \in SUBSET S /\ c[s] \in s /\ s \ {c[s]} \in SUBSET S
      BY <2>2
    <3>2. Cardinality(s \ {c[s]}) = Cardinality(s) - 1
      BY <3>1, <1>1, FS_RemoveElement
    <3>3. Cardinality(s) \in Nat /\ Cardinality(s) <= n + 1 /\ Cardinality(s \ {c[s]}) \in Nat
      BY <3>1, <1>1
    <3>4. Cardinality(s \ {c[s]}) <= n /\ Cardinality(s \ {c[s]}) <= n + 1
      BY <2>0, <3>2, <3>3
    <3> QED
      BY <3>1, <3>4
  <2>3. ASSUME NEW s \in Small(n + 1) PROVE Body(g, s) \in V
    <3>1. CASE s = {}
      BY <3>1
    <3>2. CASE s # {}
      <4>1. c[s] \in S /\ g[s \ {c[s]}] \in V
        BY <3>2, <2>2
      <4> QED
        BY <3>2, <4>1
    <3> QED
      BY <3>1, <3>2
  <2>4. h \in [Small(n + 1) -> V]
    BY <2>3
  <2>5. ASSUME NEW s \in Small(n + 1) PROVE h[s] = Body(h, s)
    <3>1. CASE s = {}
      BY <3>1
    <3>2. CASE s # {}
      <4> DEFINE r == s \ {c[s]}
      <4>1. r \in Small(n) /\ r \in Small(n + 1)
        BY <2>2, <3>2
      <4>2. h[r] = Body(g, r)
        BY <4>1
      <4>3. g[r] = Body(g, r)
        BY <2>1, <4>1
      <4>4. h[r] = g[r]
        BY <4>2, <4>3
      <4> QED
        BY <3>2, <4>4
    <3> QED
      BY <3>1, <3>2
  <2> HIDE DEF h
  <2>6. \E k \in [Small(n + 1) -> V] : \A s \in Small(n + 1) : k[s] = Body(k, s)
    BY <2>4, <2>5, Zenon
  <2>7. n + 1 \in Nat
    BY <2>0
  <2> QED
    BY <2>6, <2>7, Zenon
<1> HIDE DEF T
<1>4. T = Nat
  <2>1. T \subseteq Nat
    BY DEF T
  <2> QED
    BY <1>2, <1>3, <2>1, NatSetInduction
<1>5. Cardinality(S) \in Nat
  BY FS_CardinalityType
<1>6. PICK g \in [Small(Cardinality(S)) -> V] : \A s \in Small(Cardinality(S)) : g[s] = Body(g, s)
  BY <1>4, <1>5 DEF T
<1>7. Small(Cardinality(S)) = SUBSET S
  BY FS_Subset
<1>8. g \in [SUBSET S -> V] /\ g = [s \in SUBSET S |-> Body(g, s)]
  BY <1>6, <1>7
<1> QED
  BY <1>8 DEF Unfolds

-----------------------------------------------------------------------------
\* w gives each of finitely many things a natural weight, as files have bytes.
Weights(w, S) == IsFiniteSet(S) /\ \A x \in S : w[x] \in Nat

\* How SumFunctionOnSet goes through a set.
Pick(s) == CHOOSE x \in s : TRUE
SumStep(w, g, s) == IF s = {} THEN 0 ELSE w[Pick(s)] + g[s \ {Pick(s)}]
SumIter(w, S) == CHOOSE g : g = [s \in SUBSET S |-> SumStep(w, g, s)]

\* SumFunctionOnSet adds up the elements one by one.
LEMMA SumDefined ==
    ASSUME NEW w, NEW S, Weights(w, S)
    PROVE  /\ SumFunctionOnSet(w, S) = SumIter(w, S)[S]
           /\ \A s \in SUBSET S : SumIter(w, S)[s] = SumStep(w, SumIter(w, S), s)
<1> DEFINE plus == [p \in S \X Nat |-> w[p[1]] + p[2]]
           some == [s \in SUBSET S |-> Pick(s)]
<1>1. plus \in [S \X Nat -> Nat]
  BY DEF Weights
<1>2. \A s \in SUBSET S : s # {} => some[s] \in s
  BY DEF Pick
<1>3. PICK g \in [SUBSET S -> Nat] : Unfolds(g, S, 0, plus, some)
  <2>1. 0 \in Nat
    OBVIOUS
  <2> HIDE DEF plus, some
  <2> QED
    BY <1>1, <1>2, <2>1, FoldExists DEF Weights
<1>4. g = [s \in SUBSET S |-> SumStep(w, g, s)]
  BY <1>2, <1>3 DEF Unfolds, SumStep
<1>5. SumIter(w, S) = [s \in SUBSET S |-> SumStep(w, SumIter(w, S), s)]
  BY <1>4 DEF SumIter
<1>6. SumFunctionOnSet(w, S) = SumIter(w, S)[S]
  BY DEF SumFunctionOnSet, FoldFunctionOnSet, MapThenFoldSet, SumIter, SumStep, Pick
<1> QED
  BY <1>5, <1>6

\* What is added up of a part does not depend on the whole.
LEMMA SumOfPart ==
    ASSUME NEW w, NEW S, Weights(w, S), NEW R \in SUBSET S
    PROVE  SumIter(w, S)[R] = SumFunctionOnSet(w, R)
<1> DEFINE g == SumIter(w, S)
           h == SumIter(w, R)
           T == {n \in Nat : \A s \in SUBSET R : Cardinality(s) <= n => g[s] = h[s]}
<1>1. IsFiniteSet(R) /\ Weights(w, R)
  BY FS_Subset DEF Weights
<1>2. \A s \in SUBSET R : IsFiniteSet(s) /\ Cardinality(s) \in Nat /\ (Cardinality(s) = 0 => s = {})
  BY <1>1, FS_Subset, FS_CardinalityType, FS_EmptySet
<1>3. \A s \in SUBSET S : g[s] = SumStep(w, g, s)
  BY SumDefined
<1>4. (\A s \in SUBSET R : h[s] = SumStep(w, h, s)) /\ SumFunctionOnSet(w, R) = h[R]
  BY <1>1, SumDefined
<1> HIDE DEF g, h
<1>5. g[{}] = h[{}]
  BY <1>3, <1>4 DEF SumStep
<1>6. 0 \in T
  BY <1>2, <1>5
<1>7. ASSUME NEW n \in T PROVE n + 1 \in T
  <2>0. n \in Nat /\ n + 1 \in Nat
    OBVIOUS
  <2>1. ASSUME NEW s \in SUBSET R, Cardinality(s) <= n + 1, s # {} PROVE g[s] = h[s]
    <3> DEFINE r == s \ {Pick(s)}
    <3>1. Pick(s) \in s /\ r \in SUBSET R /\ s \in SUBSET S
      BY <2>1 DEF Pick
    <3>2. Cardinality(r) = Cardinality(s) - 1
      BY <3>1, <1>2, FS_RemoveElement
    <3>3. Cardinality(r) <= n
      BY <3>1, <3>2, <1>2, <2>0, <2>1
    <3>4. g[r] = h[r]
      BY <3>1, <3>3
    <3>5. g[s] = w[Pick(s)] + g[r] /\ h[s] = w[Pick(s)] + h[r]
      BY <2>1, <3>1, <1>3, <1>4 DEF SumStep
    <3> QED
      BY <3>4, <3>5
  <2> QED
    BY <2>0, <2>1, <1>5
<1> HIDE DEF T
<1>8. T = Nat
  <2>1. T \subseteq Nat
    BY DEF T
  <2> QED
    BY <1>6, <1>7, <2>1, NatSetInduction
<1>9. g[R] = h[R]
  BY <1>2, <1>8 DEF T
<1> QED
  BY <1>9, <1>4 DEF g

\* The sum of nothing, and of something.
LEMMA SumBegins ==
    ASSUME NEW w, NEW S, Weights(w, S)
    PROVE  /\ S = {} => SumFunctionOnSet(w, S) = 0
           /\ S # {} => /\ Pick(S) \in S
                        /\ SumFunctionOnSet(w, S) = w[Pick(S)] + SumFunctionOnSet(w, S \ {Pick(S)})
<1>1. SumFunctionOnSet(w, S) = SumStep(w, SumIter(w, S), S)
  BY SumDefined
<1>2. ASSUME S # {} PROVE Pick(S) \in S
  BY <1>2 DEF Pick
<1>3. SumIter(w, S)[S \ {Pick(S)}] = SumFunctionOnSet(w, S \ {Pick(S)})
  BY SumOfPart
<1> QED
  BY <1>1, <1>2, <1>3 DEF SumStep

\* A sum of naturals is a natural, and any element may be taken out of it first.
LEMMA SumOfFinite ==
    ASSUME NEW w, NEW S, Weights(w, S)
    PROVE  /\ SumFunctionOnSet(w, S) \in Nat
           /\ \A x \in S : SumFunctionOnSet(w, S) = w[x] + SumFunctionOnSet(w, S \ {x})
<1> DEFINE Sum(s) == SumFunctionOnSet(w, s)
           T == {n \in Nat : \A s \in SUBSET S : Cardinality(s) <= n =>
                   Sum(s) \in Nat /\ \A x \in s : Sum(s) = w[x] + Sum(s \ {x})}
<1>1. \A s \in SUBSET S : /\ IsFiniteSet(s) /\ Cardinality(s) \in Nat /\ (Cardinality(s) = 0 => s = {})
                          /\ Weights(w, s)
  BY FS_Subset, FS_CardinalityType, FS_EmptySet DEF Weights
<1>2. Sum({}) = 0
  BY <1>1, SumBegins
<1>3. 0 \in T
  BY <1>1, <1>2
<1>4. ASSUME NEW n \in T PROVE n + 1 \in T
  <2>0. n \in Nat /\ n + 1 \in Nat
    OBVIOUS
  <2>1. ASSUME NEW s \in SUBSET S, Cardinality(s) <= n + 1, s # {}
        PROVE  Sum(s) \in Nat /\ \A x \in s : Sum(s) = w[x] + Sum(s \ {x})
    <3> DEFINE p == Pick(s)
    <3>1. p \in s /\ Sum(s) = w[p] + Sum(s \ {p})
      BY <2>1, <1>1, SumBegins
    <3> HIDE DEF p
    <3>2. ASSUME NEW x \in s
          PROVE  /\ s \ {x} \in SUBSET S /\ Cardinality(s \ {x}) <= n /\ w[x] \in Nat
                 /\ Sum(s \ {x}) \in Nat
                 /\ \A y \in s \ {x} : Sum(s \ {x}) = w[y] + Sum((s \ {x}) \ {y})
      <4>1. Cardinality(s \ {x}) = Cardinality(s) - 1
        BY <1>1, FS_RemoveElement
      <4>2. Cardinality(s \ {x}) <= n
        BY <4>1, <1>1, <2>0, <2>1
      <4>3. w[x] \in Nat
        BY DEF Weights
      <4> QED
        BY <4>2, <4>3
    <3>3. ASSUME NEW x \in s PROVE Sum(s) = w[x] + Sum(s \ {x})
      <4>1. CASE x = p
        BY <3>1, <4>1
      <4>2. CASE x # p
        <5>1. Sum(s \ {p}) = w[x] + Sum((s \ {p}) \ {x})
          BY <3>1, <3>2, <4>2
        <5>2. Sum(s \ {x}) = w[p] + Sum((s \ {x}) \ {p})
          BY <3>1, <3>2, <4>2
        <5>3. (s \ {p}) \ {x} = (s \ {x}) \ {p}
          OBVIOUS
        <5>4. (s \ {p}) \ {x} \in SUBSET S /\ Cardinality((s \ {p}) \ {x}) <= n
          <6>1. s \ {p} \in SUBSET S /\ Cardinality(s \ {p}) <= n
            BY <3>1, <3>2
          <6>2. Cardinality((s \ {p}) \ {x}) <= Cardinality(s \ {p})
            BY <6>1, <1>1, FS_Subset
          <6> QED
            BY <6>1, <6>2, <1>1, <2>0
        <5>5. Sum((s \ {p}) \ {x}) \in Nat
          BY <5>4
        <5>6. w[x] \in Nat /\ w[p] \in Nat
          BY <3>1, <3>2
        <5> DEFINE a == Sum(s \ {p})
                   b == Sum(s \ {x})
                   r == Sum((s \ {p}) \ {x})
        <5>7. Sum(s) = w[p] + a /\ a = w[x] + r /\ b = w[p] + r /\ r \in Nat
          BY <3>1, <5>1, <5>2, <5>3, <5>5
        <5> HIDE DEF a, b, r
        <5>8. Sum(s) = w[x] + b
          BY <5>6, <5>7
        <5> QED
          BY <5>8 DEF b
      <4> QED
        BY <4>1, <4>2
    <3> QED
      BY <3>1, <3>2, <3>3
  <2>2. \A s \in SUBSET S : Cardinality(s) <= n + 1 =>
             Sum(s) \in Nat /\ \A x \in s : Sum(s) = w[x] + Sum(s \ {x})
    BY <1>2, <2>1
  <2> QED
    BY <2>0, <2>2
<1> HIDE DEF T
<1>5. T = Nat
  <2>1. T \subseteq Nat
    BY DEF T
  <2> QED
    BY <1>3, <1>4, <2>1, NatSetInduction
<1>6. S \in SUBSET S /\ Cardinality(S) \in Nat /\ Cardinality(S) <= Cardinality(S)
  BY <1>1
<1>7. Sum(S) \in Nat /\ \A x \in S : Sum(S) = w[x] + Sum(S \ {x})
  BY <1>5, <1>6 DEF T
<1> QED
  BY <1>7

\* What holds of the empty set, and of a set with one element more, holds of
\* every finite set.
LEMMA SubsetInduction ==
    ASSUME NEW S, IsFiniteSet(S), NEW F, {} \in F,
           \A s \in SUBSET S, x \in S : s \in F => s \cup {x} \in F
    PROVE  S \in F
<1> DEFINE T == {n \in Nat : \A s \in SUBSET S : Cardinality(s) = n => s \in F}
<1>1. \A s \in SUBSET S : IsFiniteSet(s) /\ Cardinality(s) \in Nat /\ (Cardinality(s) = 0 <=> s = {})
  BY FS_Subset, FS_CardinalityType, FS_EmptySet
<1>2. 0 \in T
  BY <1>1
<1>3. ASSUME NEW n \in T PROVE n + 1 \in T
  <2>0. n \in Nat /\ n + 1 \in Nat /\ n + 1 # 0 /\ (n + 1) - 1 = n
    OBVIOUS
  <2>1. ASSUME NEW s \in SUBSET S, Cardinality(s) = n + 1 PROVE s \in F
    <3>1. PICK x \in s : TRUE
      BY <2>0, <2>1, <1>1
    <3>2. Cardinality(s \ {x}) = n
      <4>1. IsFiniteSet(s)
        BY <1>1
      <4>2. Cardinality(s \ {x}) = Cardinality(s) - 1
        BY <4>1, FS_RemoveElement
      <4> QED
        BY <2>0, <2>1, <4>2
    <3>3. s \ {x} \in F
      BY <3>2
    <3>4. (s \ {x}) \cup {x} = s /\ s \ {x} \in SUBSET S /\ x \in S
      OBVIOUS
    <3> QED
      BY <3>3, <3>4
  <2> QED
    BY <2>0, <2>1
<1> HIDE DEF T
<1>4. T = Nat
  <2>1. T \subseteq Nat
    BY DEF T
  <2> QED
    BY <1>2, <1>3, <2>1, NatSetInduction
<1>5. Cardinality(S) \in T
  BY <1>1, <1>4
<1> QED
  BY <1>5 DEF T

\* An element more adds its weight.
LEMMA SumAdd ==
    ASSUME NEW w, NEW S, Weights(w, S), NEW x, x \notin S, w[x] \in Nat
    PROVE  /\ Weights(w, S \cup {x})
           /\ SumFunctionOnSet(w, S \cup {x}) = w[x] + SumFunctionOnSet(w, S)
<1>1. Weights(w, S \cup {x})
  BY FS_AddElement DEF Weights
<1>2. (S \cup {x}) \ {x} = S /\ x \in S \cup {x}
  OBVIOUS
<1>3. SumFunctionOnSet(w, S \cup {x}) = w[x] + SumFunctionOnSet(w, (S \cup {x}) \ {x})
  BY <1>1, <1>2, SumOfFinite
<1> QED
  BY <1>1, <1>2, <1>3

\* An empty store takes no bytes.
LEMMA SumEmpty ==
    ASSUME NEW w PROVE Weights(w, {}) /\ SumFunctionOnSet(w, {}) = 0
<1>1. Weights(w, {})
  BY FS_EmptySet DEF Weights
<1> QED
  BY <1>1, SumBegins

\* Smaller weights make a smaller sum.
LEMMA SumPointwise ==
    ASSUME NEW v, NEW w, NEW S, Weights(v, S), Weights(w, S), \A x \in S : v[x] <= w[x]
    PROVE  SumFunctionOnSet(v, S) <= SumFunctionOnSet(w, S)
<1> DEFINE F == {s \in SUBSET S : SumFunctionOnSet(v, s) <= SumFunctionOnSet(w, s)}
<1>0. \A s \in SUBSET S : Weights(v, s) /\ Weights(w, s)
  BY FS_Subset DEF Weights
<1>1. {} \in F
  BY SumEmpty
<1>2. ASSUME NEW s \in SUBSET S, NEW x \in S, s \in F PROVE s \cup {x} \in F
  <2>1. CASE x \in s
    <3>1. s \cup {x} = s
      BY <2>1
    <3> QED
      BY <1>2, <3>1
  <2>2. CASE x \notin s
    <3> DEFINE a == SumFunctionOnSet(v, s)
               b == SumFunctionOnSet(w, s)
    <3>1. v[x] \in Nat /\ w[x] \in Nat /\ v[x] <= w[x]
      BY DEF Weights
    <3>2. SumFunctionOnSet(v, s \cup {x}) = v[x] + a /\ SumFunctionOnSet(w, s \cup {x}) = w[x] + b
      BY <1>0, <2>2, <3>1, SumAdd
    <3>3. a \in Nat /\ b \in Nat /\ a <= b
      BY <1>0, <1>2, SumOfFinite
    <3> HIDE DEF a, b
    <3>4. v[x] + a <= w[x] + b
      BY <3>1, <3>3
    <3> QED
      BY <3>2, <3>4
  <2> QED
    BY <2>1, <2>2
<1> HIDE DEF F
<1>3. S \in F
  BY <1>1, <1>2, SubsetInduction DEF Weights
<1> QED
  BY <1>3 DEF F

\* Only the weights of the elements matter.
LEMMA SumSame ==
    ASSUME NEW v, NEW w, NEW S, Weights(v, S), \A x \in S : v[x] = w[x]
    PROVE  SumFunctionOnSet(v, S) = SumFunctionOnSet(w, S)
<1>1. Weights(w, S)
  BY DEF Weights
<1>2. \A x \in S : v[x] <= w[x] /\ w[x] <= v[x]
  BY DEF Weights
<1>3. /\ SumFunctionOnSet(v, S) <= SumFunctionOnSet(w, S)
      /\ SumFunctionOnSet(w, S) <= SumFunctionOnSet(v, S)
  BY <1>1, <1>2, SumPointwise
<1>4. SumFunctionOnSet(v, S) \in Nat /\ SumFunctionOnSet(w, S) \in Nat
  BY <1>1, SumOfFinite
<1> QED
  BY <1>3, <1>4

\* The sum of two sets without a common element.
LEMMA SumDisjoint ==
    ASSUME NEW w, NEW S, NEW R, Weights(w, S), Weights(w, R), S \cap R = {}
    PROVE  /\ Weights(w, S \cup R)
           /\ SumFunctionOnSet(w, S \cup R) = SumFunctionOnSet(w, S) + SumFunctionOnSet(w, R)
<1> DEFINE b == SumFunctionOnSet(w, R)
           F == {s \in SUBSET S : /\ Weights(w, s \cup R)
                                  /\ SumFunctionOnSet(w, s \cup R) = SumFunctionOnSet(w, s) + b}
<1>0. \A s \in SUBSET S : Weights(w, s)
  BY FS_Subset DEF Weights
<1>1. b \in Nat
  BY SumOfFinite
<1> HIDE DEF b
<1>2. {} \in F
  <2>1. {} \cup R = R
    OBVIOUS
  <2> QED
    BY <1>1, <2>1, SumEmpty DEF b
<1>3. ASSUME NEW s \in SUBSET S, NEW x \in S, s \in F PROVE s \cup {x} \in F
  <2>1. CASE x \in s
    <3>1. s \cup {x} = s
      BY <2>1
    <3> QED
      BY <1>3, <3>1
  <2>2. CASE x \notin s
    <3> DEFINE a == SumFunctionOnSet(w, s)
               c == SumFunctionOnSet(w, s \cup R)
    <3>1. w[x] \in Nat /\ x \notin s \cup R /\ s \cup {x} \in SUBSET S
      BY <2>2 DEF Weights
    <3>2. Weights(w, s \cup R) /\ c = a + b
      BY <1>3
    <3>3. a \in Nat
      BY <1>0, SumOfFinite
    <3>4. SumFunctionOnSet(w, s \cup {x}) = w[x] + a
      BY <1>0, <2>2, <3>1, SumAdd
    <3>5. Weights(w, (s \cup R) \cup {x}) /\ SumFunctionOnSet(w, (s \cup R) \cup {x}) = w[x] + c
      BY <3>1, <3>2, SumAdd
    <3>6. (s \cup R) \cup {x} = (s \cup {x}) \cup R
      OBVIOUS
    <3> HIDE DEF a, c
    <3>7. w[x] + c = (w[x] + a) + b
      BY <1>1, <3>1, <3>2, <3>3
    <3> QED
      BY <3>1, <3>4, <3>5, <3>6, <3>7
  <2> QED
    BY <2>1, <2>2
<1> HIDE DEF F
<1>4. S \in F
  BY <1>2, <1>3, SubsetInduction DEF Weights
<1> QED
  BY <1>4 DEF F, b

\* A part weighs no more than the whole, and a union no more than its parts.
LEMMA SumSubset ==
    ASSUME NEW w, NEW S, Weights(w, S), NEW R \in SUBSET S
    PROVE  /\ Weights(w, R) /\ SumFunctionOnSet(w, R) <= SumFunctionOnSet(w, S)
           /\ SumFunctionOnSet(w, S) = SumFunctionOnSet(w, R) + SumFunctionOnSet(w, S \ R)
<1>1. Weights(w, R) /\ Weights(w, S \ R)
  BY FS_Subset DEF Weights
<1>2. R \cap (S \ R) = {} /\ R \cup (S \ R) = S
  OBVIOUS
<1>3. SumFunctionOnSet(w, S) = SumFunctionOnSet(w, R) + SumFunctionOnSet(w, S \ R)
  BY <1>1, <1>2, SumDisjoint
<1>4. SumFunctionOnSet(w, R) \in Nat /\ SumFunctionOnSet(w, S \ R) \in Nat
  BY <1>1, SumOfFinite
<1> QED
  BY <1>1, <1>3, <1>4

\* Files that two entries share are counted once in what they take together.
LEMMA SumUnion ==
    ASSUME NEW w, NEW S, NEW R, Weights(w, S), Weights(w, R)
    PROVE  /\ Weights(w, S \cup R)
           /\ SumFunctionOnSet(w, S \cup R) <= SumFunctionOnSet(w, S) + SumFunctionOnSet(w, R)
<1>1. Weights(w, S \ R)
  BY SumSubset
<1>2. (S \ R) \cap R = {} /\ (S \ R) \cup R = S \cup R
  OBVIOUS
<1>3. /\ Weights(w, S \cup R)
      /\ SumFunctionOnSet(w, S \cup R) = SumFunctionOnSet(w, S \ R) + SumFunctionOnSet(w, R)
  BY <1>1, <1>2, SumDisjoint
<1>4. SumFunctionOnSet(w, S \ R) <= SumFunctionOnSet(w, S)
  BY SumSubset
<1>5. /\ SumFunctionOnSet(w, S) \in Nat /\ SumFunctionOnSet(w, R) \in Nat
      /\ SumFunctionOnSet(w, S \ R) \in Nat
  BY <1>1, SumOfFinite
<1> QED
  BY <1>3, <1>4, <1>5

\* Every finite ranking is bounded.
LEMMA RankBound ==
    ASSUME NEW S, IsFiniteSet(S), NEW rank, \A e \in S : rank[e] \in Nat
    PROVE  \E n \in Nat : \A e \in S : rank[e] < n
<1> DEFINE F == {s \in SUBSET S : \E n \in Nat : \A e \in s : rank[e] < n}
<1>1. {} \in F
  OBVIOUS
<1>2. ASSUME NEW s \in SUBSET S, NEW x \in S, s \in F PROVE s \cup {x} \in F
  <2>1. PICK n \in Nat : \A e \in s : rank[e] < n
    BY <1>2
  <2> DEFINE m == n + rank[x] + 1
  <2>2. m \in Nat
    OBVIOUS
  <2>3. \A e \in s \cup {x} : rank[e] < m
    BY <2>1
  <2> HIDE DEF m
  <2>4. \E k \in Nat : \A e \in s \cup {x} : rank[e] < k
    BY <2>2, <2>3
  <2> QED
    BY <2>4
<1> HIDE DEF F
<1>3. S \in F
  BY <1>1, <1>2, SubsetInduction
<1> QED
  BY <1>3 DEF F

\* What the members of S have in all, and what those before e have.
Joined(A, S) == UNION {A[e] : e \in S}
Earlier(A, S, rank, e) == Joined(A, {f \in S : rank[f] < rank[e]})

\* An order that tells the members of S apart; a set of weighted things for each
\* of them; v charges each member for what no earlier one has.
Ranks(rank, S) ==
    /\ \A e \in S : rank[e] \in Nat
    /\ \A e, f \in S : rank[e] = rank[f] => e = f
Parts(w, A, S) == IsFiniteSet(S) /\ \A e \in S : Weights(w, A[e])
ChargesFirst(v, w, A, S, rank) ==
    \A e \in S : v[e] = SumFunctionOnSet(w, A[e] \ Earlier(A, S, rank, e))

\* Charging whatever is shared to the first that has it charges everything once,
\* in whichever order: assign_unique_entry_physical_bytes adds up to the union.
LEMMA ChargedOnce ==
    ASSUME NEW S, NEW rank, Ranks(rank, S), NEW A, NEW w, Parts(w, A, S),
           NEW v, ChargesFirst(v, w, A, S, rank)
    PROVE  /\ Weights(v, S) /\ Weights(w, Joined(A, S))
           /\ SumFunctionOnSet(v, S) = SumFunctionOnSet(w, Joined(A, S))
<1> DEFINE Below(n) == {e \in S : rank[e] < n}
           U(n) == Joined(A, Below(n))
           T == {n \in Nat : /\ Weights(w, U(n)) /\ Weights(v, Below(n))
                             /\ SumFunctionOnSet(v, Below(n)) = SumFunctionOnSet(w, U(n))}
<1>0. /\ IsFiniteSet(S) /\ \A e \in S : Weights(w, A[e])
      /\ \A e \in S : rank[e] \in Nat
      /\ \A e, f \in S : rank[e] = rank[f] => e = f
      /\ \A e \in S : v[e] = SumFunctionOnSet(w, A[e] \ Earlier(A, S, rank, e))
  BY DEF Ranks, Parts, ChargesFirst
<1>1. 0 \in T
  <2>1. Below(0) = {} /\ U(0) = {} /\ 0 \in Nat
    BY <1>0 DEF Joined
  <2>2. /\ Weights(w, {}) /\ SumFunctionOnSet(w, {}) = 0
        /\ Weights(v, {}) /\ SumFunctionOnSet(v, {}) = 0
    BY SumEmpty
  <2> HIDE DEF Below, U
  <2> QED
    BY <2>1, <2>2
<1>2. ASSUME NEW n \in T PROVE n + 1 \in T
  <2>0. n \in Nat /\ n + 1 \in Nat
    OBVIOUS
  <2>1. /\ Weights(w, U(n)) /\ Weights(v, Below(n))
        /\ SumFunctionOnSet(v, Below(n)) = SumFunctionOnSet(w, U(n))
    OBVIOUS
  <2>2. CASE \E x \in S : rank[x] = n
    <3>1. PICK x \in S : rank[x] = n
      BY <2>2
    <3>2. Below(n + 1) = Below(n) \cup {x} /\ x \notin Below(n)
      <4>1. \A e \in S : rank[e] < n + 1 <=> rank[e] < n \/ e = x
        BY <1>0, <2>0, <3>1
      <4>2. ~(rank[x] < n)
        BY <2>0, <3>1
      <4> QED
        BY <4>1, <4>2
    <3>3. U(n + 1) = U(n) \cup (A[x] \ U(n)) /\ U(n) \cap (A[x] \ U(n)) = {}
      <4>1. U(n + 1) = U(n) \cup A[x]
        BY <3>2 DEF Joined
      <4> QED
        BY <4>1
    <3>4. v[x] = SumFunctionOnSet(w, A[x] \ U(n))
      BY <1>0, <3>1 DEF Earlier
    <3>5. Weights(w, A[x] \ U(n))
      BY <1>0, SumSubset
    <3> HIDE DEF U, Below
    <3>6. v[x] \in Nat
      BY <3>4, <3>5, SumOfFinite
    <3>7. /\ Weights(v, Below(n + 1))
          /\ SumFunctionOnSet(v, Below(n + 1)) = v[x] + SumFunctionOnSet(v, Below(n))
      BY <2>1, <3>2, <3>6, SumAdd
    <3>8. /\ Weights(w, U(n + 1))
          /\ SumFunctionOnSet(w, U(n + 1)) = SumFunctionOnSet(w, U(n)) + v[x]
      BY <2>1, <3>3, <3>4, <3>5, SumDisjoint
    <3>9. SumFunctionOnSet(w, U(n)) \in Nat
      BY <2>1, SumOfFinite
    <3>10. SumFunctionOnSet(v, Below(n + 1)) = SumFunctionOnSet(w, U(n + 1))
      BY <2>1, <3>6, <3>7, <3>8, <3>9
    <3> QED
      BY <2>0, <3>7, <3>8, <3>10
  <2>3. CASE ~\E x \in S : rank[x] = n
    <3>1. Below(n + 1) = Below(n)
      <4>1. \A e \in S : rank[e] < n + 1 <=> rank[e] < n
        BY <1>0, <2>0, <2>3
      <4> QED
        BY <4>1
    <3> QED
      BY <2>0, <2>1, <3>1
  <2> QED
    BY <2>2, <2>3
<1> HIDE DEF T
<1>3. T = Nat
  <2>1. T \subseteq Nat
    BY DEF T
  <2> QED
    BY <1>1, <1>2, <2>1, NatSetInduction
<1>4. PICK n \in Nat : \A e \in S : rank[e] < n
  BY <1>0, RankBound
<1>5. Below(n) = S
  BY <1>4
<1>6. n \in T
  BY <1>3
<1> QED
  BY <1>5, <1>6 DEF T

-----------------------------------------------------------------------------
\* SetToSeqs(S) are the sequences that list every member of S once.
LEMMA SeqEnumerates ==
    ASSUME NEW S, IsFiniteSet(S), NEW order \in SetToSeqs(S)
    PROVE  /\ Cardinality(S) \in Nat /\ DOMAIN order = 1 .. Cardinality(S)
           /\ order \in [1 .. Cardinality(S) -> S] /\ ToSet(order) = S
           /\ \A e \in S : \E i \in 1 .. Cardinality(S) : order[i] = e
           /\ \A i, j \in 1 .. Cardinality(S) : order[i] = order[j] => i = j
<1> DEFINE D == 1 .. Cardinality(S)
<1>1. Cardinality(S) \in Nat
  BY FS_CardinalityType
<1>2. IsFiniteSet(D) /\ Cardinality(D) = Cardinality(S)
  BY <1>1, FS_Interval
<1>3. order \in [D -> S] /\ \A i, j \in D : i # j => order[i] # order[j]
  BY DEF SetToSeqs
<1> HIDE DEF D
<1>4. order \in Injection(D, S)
  BY <1>3 DEF Injection, IsInjective
<1>5. order \in Surjection(D, S)
  BY <1>2, <1>4, FS_Injection
<1>6. \A e \in S : \E i \in D : order[i] = e
  BY <1>5 DEF Surjection
<1>7. ToSet(order) = S /\ DOMAIN order = D
  BY <1>3, <1>6 DEF ToSet
<1> QED
  BY <1>1, <1>3, <1>6, <1>7 DEF D

\* The position of an entry in such a sequence is a rank.
LEMMA PositionsRank ==
    ASSUME NEW S, IsFiniteSet(S), NEW order \in SetToSeqs(S), NEW R \in SUBSET S
    PROVE  Ranks([e \in ToSet(order) |-> CHOOSE i \in DOMAIN order : order[i] = e], R)
<1> DEFINE rank == [e \in ToSet(order) |-> CHOOSE i \in DOMAIN order : order[i] = e]
           D == 1 .. Cardinality(S)
<1>1. /\ Cardinality(S) \in Nat /\ ToSet(order) = S /\ DOMAIN order = D
      /\ \A e \in S : \E i \in D : order[i] = e
  BY SeqEnumerates
<1>2. \A e \in S : rank[e] \in D /\ order[rank[e]] = e
  BY <1>1
<1>3. \A e \in S : rank[e] \in Nat
  BY <1>1, <1>2
<1> HIDE DEF rank, D
<1>4. Ranks(rank, R)
  BY <1>2, <1>3 DEF Ranks
<1> QED
  BY <1>4 DEF rank

\* R orders the members of S strictly and completely.
StrictOrder(R, S) ==
    /\ \A x, y \in S : x # y => <<x, y>> \in R \/ <<y, x>> \in R
    /\ \A x \in S : <<x, x>> \notin R
    /\ \A x, y, z \in S : <<x, y>> \in R /\ <<y, z>> \in R => <<x, z>> \in R

\* A finite set can be listed in such an order.
LEMMA SortedSeqExists ==
    ASSUME NEW S, IsFiniteSet(S), NEW R, StrictOrder(R, S)
    PROVE  \E s \in SetToSeqs(S) : \A i, j \in DOMAIN s : i < j => <<s[i], s[j]>> \in R
<1> DEFINE n == Cardinality(S)
           D == 1 .. n
           Down(x) == {y \in S : <<y, x>> \in R \/ y = x}
           rk == [x \in S |-> Cardinality(Down(x))]
<1>1. n \in Nat
  BY FS_CardinalityType
<1>2. IsFiniteSet(D) /\ Cardinality(D) = n
  BY <1>1, FS_Interval
<1>3. \A x \in S : /\ IsFiniteSet(Down(x)) /\ Down(x) # {} /\ Cardinality(Down(x)) \in Nat
                   /\ Cardinality(Down(x)) <= n
  <2> SUFFICES ASSUME NEW x \in S
               PROVE  /\ IsFiniteSet(Down(x)) /\ Down(x) # {} /\ Cardinality(Down(x)) \in Nat
                      /\ Cardinality(Down(x)) <= n
    OBVIOUS
  <2>1. Down(x) \in SUBSET S /\ x \in Down(x)
    OBVIOUS
  <2> HIDE DEF Down
  <2>2. IsFiniteSet(Down(x)) /\ Cardinality(Down(x)) <= n
    BY <2>1, FS_Subset
  <2> QED
    BY <2>1, <2>2, FS_CardinalityType
<1>4. rk \in [S -> D]
  <2>1. \A x \in S : Cardinality(Down(x)) # 0
    BY <1>3, FS_EmptySet
  <2>2. \A x \in S : Cardinality(Down(x)) \in D
    <3> HIDE DEF Down
    <3> QED
      BY <1>1, <1>3, <2>1
  <2> HIDE DEF Down, D
  <2> QED
    BY <2>2
<1>5. ASSUME NEW x \in S, NEW y \in S, <<x, y>> \in R PROVE rk[x] < rk[y]
  <2>1. Down(x) \subseteq Down(y) /\ y \in Down(y) /\ y \notin Down(x)
    BY <1>5 DEF StrictOrder
  <2>2. Down(x) \in SUBSET Down(y) /\ Down(x) # Down(y)
    BY <2>1
  <2>3. Cardinality(Down(x)) <= Cardinality(Down(y)) /\ Cardinality(Down(x)) # Cardinality(Down(y))
    BY <1>3, <2>2, FS_Subset
  <2>4. rk[x] = Cardinality(Down(x)) /\ rk[y] = Cardinality(Down(y))
    OBVIOUS
  <2>5. rk[x] \in Nat /\ rk[y] \in Nat
    BY <1>3, <2>4
  <2> HIDE DEF rk, Down
  <2> QED
    BY <2>3, <2>4, <2>5
<1>6. ASSUME NEW x \in S, NEW y \in S, rk[x] = rk[y] PROVE x = y
  <2> SUFFICES ASSUME x # y PROVE FALSE
    OBVIOUS
  <2>1. rk[x] \in Nat /\ rk[y] \in Nat
    BY <1>1, <1>4
  <2> HIDE DEF rk
  <2>2. <<x, y>> \in R \/ <<y, x>> \in R
    BY DEF StrictOrder
  <2> QED
    BY <1>5, <1>6, <2>1, <2>2
<1> HIDE DEF rk
<1>7. rk \in Injection(S, D)
  BY <1>4, <1>6 DEF Injection, IsInjective
<1>8. rk \in Surjection(S, D)
  BY <1>2, <1>7, FS_Injection
<1> DEFINE s == [i \in D |-> CHOOSE x \in S : rk[x] = i]
<1>9. \A i \in D : s[i] \in S /\ rk[s[i]] = i
  BY <1>8 DEF Surjection
<1>10. s \in SetToSeqs(S)
  BY <1>9 DEF SetToSeqs
<1>11. ASSUME NEW i \in D, NEW j \in D, i < j PROVE <<s[i], s[j]>> \in R
  <2>1. s[i] \in S /\ s[j] \in S /\ rk[s[i]] < rk[s[j]]
    BY <1>9, <1>11
  <2> HIDE DEF s
  <2>2. s[i] # s[j]
    BY <1>1, <1>4, <2>1
  <2>3. ~(<<s[j], s[i]>> \in R)
    <3>1. rk[s[i]] \in Nat /\ rk[s[j]] \in Nat
      BY <1>1, <1>4, <2>1
    <3> QED
      BY <1>5, <2>1, <3>1
  <2> QED
    BY <2>1, <2>2, <2>3 DEF StrictOrder
<1>12. DOMAIN s = D
  OBVIOUS
<1> HIDE DEF s
<1> QED
  BY <1>10, <1>11, <1>12

-----------------------------------------------------------------------------
\* The last position of a prefix, and what is left without it.
LEMMA PrefixEnds ==
    ASSUME NEW m \in Nat
    PROVE  /\ 1 .. (m + 1) # {} /\ Max(1 .. (m + 1)) = m + 1
           /\ (1 .. (m + 1)) \ {m + 1} = 1 .. m
<1>1. m + 1 \in 1 .. (m + 1) /\ \A y \in 1 .. (m + 1) : m + 1 >= y
  OBVIOUS
<1>2. \A x \in 1 .. (m + 1) : (\A y \in 1 .. (m + 1) : x >= y) => x = m + 1
  BY <1>1
<1>3. Max(1 .. (m + 1)) = m + 1
  BY <1>1, <1>2 DEF Max
<1> QED
  BY <1>1, <1>3

\* A finite set of naturals has a largest element.
LEMMA MaxIsMember ==
    ASSUME NEW S, S \subseteq Nat, IsFiniteSet(S), S # {}
    PROVE  Max(S) \in S /\ \A y \in S : Max(S) >= y
<1> DEFINE F == {s \in SUBSET S : s # {} => \E x \in s : \A y \in s : x >= y}
<1>1. {} \in F
  OBVIOUS
<1>2. ASSUME NEW s \in SUBSET S, NEW x \in S, s \in F PROVE s \cup {x} \in F
  <2>1. CASE s = {}
    BY <2>1
  <2>2. CASE s # {}
    <3>1. PICK z \in s : \A y \in s : z >= y
      BY <1>2, <2>2
    <3>2. z \in Nat /\ x \in Nat /\ \A y \in s : y \in Nat
      OBVIOUS
    <3>3. CASE z >= x
      BY <3>1, <3>2, <3>3
    <3>4. CASE ~(z >= x)
      <4>1. \A y \in s \cup {x} : x >= y
        BY <3>1, <3>2, <3>4
      <4> QED
        BY <4>1
    <3> QED
      BY <3>3, <3>4
  <2> QED
    BY <2>1, <2>2
<1> HIDE DEF F
<1>3. S \in F
  BY <1>1, <1>2, SubsetInduction
<1>4. \E x \in S : \A y \in S : x >= y
  BY <1>3 DEF F
<1> QED
  BY <1>4 DEF Max

\* A left fold is defined by its recursion on the last position.
LeftFold(g, n, base, step) ==
    /\ g[{}] = base
    /\ \A s \in SUBSET (1 .. n) : s # {} => /\ Max(s) \in s
                                          /\ g[s] = step[<<Max(s), g[s \ {Max(s)}]>>]

\* FoldLeft goes through a sequence of any length.
LEMMA FoldLeftExists ==
    ASSUME NEW n \in Nat, NEW V, NEW base \in V, NEW step \in [(1 .. n) \X V -> V]
    PROVE  \E g \in [SUBSET (1 .. n) -> V] : LeftFold(g, n, base, step)
<1> DEFINE c == [s \in SUBSET (1 .. n) |-> Max(s)]
<1>1. IsFiniteSet(1 .. n) /\ 1 .. n \subseteq Nat
  BY FS_Interval
<1>2. \A s \in SUBSET (1 .. n) : s # {} => c[s] \in s
  <2> SUFFICES ASSUME NEW s \in SUBSET (1 .. n), s # {} PROVE Max(s) \in s
    OBVIOUS
  <2>1. IsFiniteSet(s) /\ s \subseteq Nat
    BY <1>1, FS_Subset
  <2> QED
    BY <2>1, MaxIsMember
<1> HIDE DEF c
<1>3. PICK g \in [SUBSET (1 .. n) -> V] : Unfolds(g, 1 .. n, base, step, c)
  BY <1>1, <1>2, FoldExists
<1>4. LeftFold(g, n, base, step)
  BY <1>2, <1>3 DEF Unfolds, LeftFold, c
<1> QED
  BY <1>4
=============================================================================
