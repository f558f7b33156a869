------------------------------ MODULE SumLemmas ------------------------------
(***************************************************************************)
(* What SumFunctionOnSet of the community modules computes: facts about    *)
(* sums over finite sets, for the proofs about totals and quantities.      *)
(*                                                                         *)
(* The library's induction theorems take an operator, which the provers    *)
(* cannot instantiate.  Here induction is over a set: those subsets of S   *)
(* that have a property are all of them.                                   *)
(***************************************************************************)
EXTENDS Integers, Functions, FiniteSets, FiniteSetTheorems, TLAPS

(* A family of subsets of a finite set that contains a subset whenever it
   contains all smaller ones contains the set itself. *)
LEMMA SubsetInduction ==
  ASSUME NEW S, IsFiniteSet(S), NEW P,
         \A T \in SUBSET S : (\A U \in SUBSET T : U # T => U \in P) => T \in P
  PROVE  S \in P
<1>. DEFINE B == {T \in SUBSET S : T \notin P}
<1>. SUFFICES ASSUME S \notin P PROVE FALSE
  OBVIOUS
<1>1. IsWellFoundedOn(StrictSubsetOrdering(S), SUBSET S)
  <2>1. FiniteSubsetsOf(S) = SUBSET S
    BY FS_FiniteSubsetsOfFinite, Zenon
  <2>2. IsWellFoundedOn(StrictSubsetOrdering(S), FiniteSubsetsOf(S))
    BY FS_StrictSubsetOrderingWellFounded, Zenon
  <2>. QED  BY <2>1, <2>2, Zenon
<1>2. B \subseteq SUBSET S /\ B # {}
  OBVIOUS
<1>3. PICK T \in B : \A U \in B : ~ (<<U, T>> \in StrictSubsetOrdering(S))
  <2>. HIDE DEF B
  <2>. QED  BY <1>1, <1>2, WFMin
<1>4. ASSUME NEW U \in SUBSET T, U # T PROVE U \in P
  BY <1>3, <1>4 DEF StrictSubsetOrdering
<1>. QED  BY <1>3, <1>4

-----------------------------------------------------------------------------
(* The element a fold takes out of a set, and the function it folds with. *)
Pick(s) == CHOOSE x \in s : TRUE

Unfolds(g, f, S) ==
  g = [s \in SUBSET S |-> IF s = {} THEN 0 ELSE f[Pick(s)] + g[s \ {Pick(s)}]]

LEMMA PickIsElement == ASSUME NEW S, S # {} PROVE Pick(S) \in S
BY DEF Pick

LEMMA SumByFold ==
  ASSUME NEW f, NEW S
  PROVE  SumFunctionOnSet(f, S) = (CHOOSE g : Unfolds(g, f, S))[S]
BY DEF SumFunctionOnSet, FoldFunctionOnSet, MapThenFoldSet, Unfolds, Pick

(* Two such functions agree where both are defined. *)
LEMMA FoldIsUnique ==
  ASSUME NEW f, NEW S, NEW U, NEW T, IsFiniteSet(T), T \subseteq S, T \subseteq U,
         NEW g, Unfolds(g, f, S), NEW h, Unfolds(h, f, U)
  PROVE  g[T] = h[T]
<1>. DEFINE P == {V \in SUBSET T : g[V] = h[V]}
<1>1. ASSUME NEW V \in SUBSET T, \A W \in SUBSET V : W # V => W \in P
      PROVE  V \in P
  <2>1. CASE V = {}
    BY <2>1 DEF Unfolds
  <2>2. CASE V # {}
    <3>. DEFINE W == V \ {Pick(V)}
    <3>1. W \in SUBSET V /\ W # V
      BY <2>2, PickIsElement
    <3>2. g[W] = h[W]
      BY <1>1, <3>1
    <3>3. g[V] = f[Pick(V)] + g[W] /\ h[V] = f[Pick(V)] + h[W]
      BY <2>2 DEF Unfolds
    <3>. QED  BY <3>2, <3>3
  <2>. QED  BY <2>1, <2>2
<1>2. T \in P
  <2>. HIDE DEF P
  <2>. QED  BY <1>1, SubsetInduction
<1>. QED  BY <1>2

LEMMA FoldExists ==
  ASSUME NEW f, NEW S, IsFiniteSet(S)
  PROVE  \E g : Unfolds(g, f, S)
<1>. DEFINE P == {T \in SUBSET S : \E g : Unfolds(g, f, T)}
            h(T) == CHOOSE g : Unfolds(g, f, T)
<1>1. ASSUME NEW T \in SUBSET S, \A U \in SUBSET T : U # T => U \in P
      PROVE  T \in P
  <2>. DEFINE g == [s \in SUBSET T |-> IF s = {} THEN 0
                                       ELSE f[Pick(s)] + h(s \ {Pick(s)})[s \ {Pick(s)}]]
  <2>1. ASSUME NEW U \in SUBSET T, U # T PROVE Unfolds(h(U), f, U)
    BY <1>1, <2>1
  <2>2. ASSUME NEW U \in SUBSET T, U # T PROVE g[U] = h(U)[U]
    <3>1. CASE U = {}
      <4>1. Unfolds(h(U), f, U)
        BY <2>1, <2>2
      <4>2. h(U)[{}] = 0
        <5>. HIDE DEF h
        <5>. QED  BY <4>1 DEF Unfolds
      <4>. QED  BY <3>1, <4>2
    <3>2. CASE U # {}
      <4>. DEFINE V == U \ {Pick(U)}
      <4>1. V \in SUBSET U /\ V # U /\ V \in SUBSET T /\ V # T
        BY <3>2, PickIsElement
      <4>2. IsFiniteSet(V)
        BY <4>1, FS_Subset
      <4>3. Unfolds(h(V), f, V) /\ Unfolds(h(U), f, U)
        BY <2>1, <2>2, <4>1
      <4>4. h(V)[V] = h(U)[V]
        <5>. HIDE DEF h, V
        <5>. QED  BY <4>1, <4>2, <4>3, FoldIsUnique
      <4>5. h(U)[U] = f[Pick(U)] + h(U)[V]
        <5>. HIDE DEF h
        <5>. QED  BY <3>2, <4>3 DEF Unfolds
      <4>6. g[U] = f[Pick(U)] + h(V)[V]
        <5>. HIDE DEF h
        <5>. QED  BY <3>2
      <4>. QED  BY <4>4, <4>5, <4>6
    <3>. QED  BY <3>1, <3>2
  <2>3. ASSUME NEW s \in SUBSET T, s # {}
        PROVE  g[s \ {Pick(s)}] = h(s \ {Pick(s)})[s \ {Pick(s)}]
    <3>1. s \ {Pick(s)} \in SUBSET T /\ s \ {Pick(s)} # T
      BY <2>3, PickIsElement
    <3>. QED
      <4>. HIDE DEF g, h
      <4>. QED  BY <2>2, <3>1
  <2>4. Unfolds(g, f, T)
    <3>. HIDE DEF h
    <3>. QED  BY <2>3 DEF Unfolds
  <2>. QED  BY <2>4
<1>2. S \in P
  <2>. HIDE DEF P
  <2>. QED  BY <1>1, SubsetInduction
<1>. QED  BY <1>2

LEMMA SumUnfolds ==
  ASSUME NEW f, NEW S, IsFiniteSet(S)
  PROVE  /\ SumFunctionOnSet(f, {}) = 0
         /\ S # {} => SumFunctionOnSet(f, S)
                        = f[Pick(S)] + SumFunctionOnSet(f, S \ {Pick(S)})
<1>. DEFINE h(T) == CHOOSE g : Unfolds(g, f, T)
<1>1. ASSUME NEW T, IsFiniteSet(T) PROVE Unfolds(h(T), f, T)
  BY <1>1, FoldExists
<1>2. ASSUME NEW T PROVE SumFunctionOnSet(f, T) = h(T)[T]
  BY SumByFold
<1>. HIDE DEF h
<1>3. SumFunctionOnSet(f, {}) = 0
  BY <1>1, <1>2, FS_EmptySet DEF Unfolds
<1>4. ASSUME S # {} PROVE SumFunctionOnSet(f, S) = f[Pick(S)] + SumFunctionOnSet(f, S \ {Pick(S)})
  <2>. DEFINE T == S \ {Pick(S)}
  <2>1. IsFiniteSet(T) /\ T \subseteq S
    BY FS_Subset
  <2>2. h(S)[S] = f[Pick(S)] + h(S)[T]
    BY <1>1, <1>4 DEF Unfolds
  <2>3. h(S)[T] = h(T)[T]
    <3>. HIDE DEF T
    <3>. QED  BY <1>1, <2>1, FoldIsUnique
  <2>. QED  BY <1>2, <2>2, <2>3
<1>. QED  BY <1>3, <1>4

-----------------------------------------------------------------------------
LEMMA SumOfNothing == \A f : SumFunctionOnSet(f, {}) = 0
BY SumUnfolds, FS_EmptySet

(* A set of numbers that is closed under addition holds the sums of its
   members. *)
LEMMA SumIsClosed ==
  ASSUME NEW f, NEW S, IsFiniteSet(S), NEW Q, 0 \in Q,
         \A x, y \in Q : x + y \in Q, \A x \in S : f[x] \in Q
  PROVE  SumFunctionOnSet(f, S) \in Q
<1>. DEFINE P == {T \in SUBSET S : SumFunctionOnSet(f, T) \in Q}
<1>1. ASSUME NEW T \in SUBSET S, \A U \in SUBSET T : U # T => U \in P
      PROVE  T \in P
  <2>1. CASE T = {}
    BY <2>1, SumOfNothing
  <2>2. CASE T # {}
    <3>1. Pick(T) \in T /\ T \ {Pick(T)} \in P
      BY <1>1, <2>2, PickIsElement
    <3>2. SumFunctionOnSet(f, T) = f[Pick(T)] + SumFunctionOnSet(f, T \ {Pick(T)})
      BY <2>2, SumUnfolds, FS_Subset
    <3>. QED  BY <3>1, <3>2
  <2>. QED  BY <2>1, <2>2
<1>2. S \in P
  <2>. HIDE DEF P
  <2>. QED  BY <1>1, SubsetInduction
<1>. QED  BY <1>2

LEMMA SumIsInt ==
  ASSUME NEW f, NEW S, IsFiniteSet(S), \A x \in S : f[x] \in Int
  PROVE  SumFunctionOnSet(f, S) \in Int
<1>1. 0 \in Int /\ \A x, y \in Int : x + y \in Int
  OBVIOUS
<1>. QED  BY <1>1, SumIsClosed, Zenon

(* The order in which elements are taken out does not matter. *)
LEMMA SumTakesOut ==
  ASSUME NEW f, NEW S, IsFiniteSet(S), \A x \in S : f[x] \in Int, NEW a \in S
  PROVE  SumFunctionOnSet(f, S) = f[a] + SumFunctionOnSet(f, S \ {a})
<1>. DEFINE Sum(T) == SumFunctionOnSet(f, T)
            P == {T \in SUBSET S : \A x \in T : Sum(T) = f[x] + Sum(T \ {x})}
<1>1. ASSUME NEW T \in SUBSET S PROVE IsFiniteSet(T) /\ Sum(T) \in Int
  BY FS_Subset, SumIsInt
<1>2. ASSUME NEW T \in SUBSET S, T # {}
      PROVE  Sum(T) = f[Pick(T)] + Sum(T \ {Pick(T)})
  BY <1>1, <1>2, SumUnfolds
<1>. HIDE DEF Sum
<1>3. ASSUME NEW T \in SUBSET S, \A U \in SUBSET T : U # T => U \in P
      PROVE  T \in P
  <2>. SUFFICES ASSUME NEW x \in T PROVE Sum(T) = f[x] + Sum(T \ {x})
    OBVIOUS
  <2>. DEFINE p == Pick(T)
  <2>1. p \in T /\ Sum(T) = f[p] + Sum(T \ {p})
    BY <1>2, PickIsElement
  <2>2. CASE x # p
    <3>. DEFINE rest == Sum((T \ {p}) \ {x})
    <3>1. T \ {p} \in P /\ T \ {x} \in P
      BY <1>3, <2>1
    <3>2. Sum(T \ {p}) = f[x] + rest
      BY <2>1, <2>2, <3>1
    <3>3. (T \ {x}) \ {p} = (T \ {p}) \ {x}
      OBVIOUS
    <3>4. Sum(T \ {x}) = f[p] + rest
      BY <2>1, <2>2, <3>1, <3>3
    <3>5. rest \in Int /\ f[p] \in Int /\ f[x] \in Int
      BY <1>1, <2>1
    <3>. HIDE DEF rest, p
    <3>. QED  BY <2>1, <3>2, <3>4, <3>5
  <2>. QED  BY <2>1, <2>2
<1>4. S \in P
  <2>. HIDE DEF P
  <2>. QED  BY <1>3, SubsetInduction
<1>. QED  BY <1>4 DEF Sum

LEMMA SumTakesIn ==
  ASSUME NEW f, NEW S, IsFiniteSet(S), NEW a, a \notin S,
         \A x \in S \cup {a} : f[x] \in Int
  PROVE  SumFunctionOnSet(f, S \cup {a}) = f[a] + SumFunctionOnSet(f, S)
<1>1. (S \cup {a}) \ {a} = S /\ IsFiniteSet(S \cup {a})
  BY FS_AddElement
<1>2. SumFunctionOnSet(f, S \cup {a}) = f[a] + SumFunctionOnSet(f, (S \cup {a}) \ {a})
  BY <1>1, SumTakesOut
<1>. QED  BY <1>1, <1>2

(* Only the values on the set count. *)
LEMMA SumIsLocal ==
  ASSUME NEW f, NEW g, NEW S, IsFiniteSet(S), \A x \in S : f[x] = g[x]
  PROVE  SumFunctionOnSet(f, S) = SumFunctionOnSet(g, S)
<1>. DEFINE P == {T \in SUBSET S : SumFunctionOnSet(f, T) = SumFunctionOnSet(g, T)}
<1>1. ASSUME NEW T \in SUBSET S, \A U \in SUBSET T : U # T => U \in P
      PROVE  T \in P
  <2>1. CASE T = {}
    BY <2>1, SumOfNothing
  <2>2. CASE T # {}
    <3>1. Pick(T) \in T /\ T \ {Pick(T)} \in P
      BY <1>1, <2>2, PickIsElement
    <3>2. IsFiniteSet(T)
      BY FS_Subset
    <3>3. SumFunctionOnSet(f, T) = f[Pick(T)] + SumFunctionOnSet(f, T \ {Pick(T)})
      BY <2>2, <3>2, SumUnfolds
    <3>4. SumFunctionOnSet(g, T) = g[Pick(T)] + SumFunctionOnSet(g, T \ {Pick(T)})
      BY <2>2, <3>2, SumUnfolds
    <3>. QED  BY <3>1, <3>3, <3>4
  <2>. QED  BY <2>1, <2>2
<1>2. S \in P
  <2>. HIDE DEF P
  <2>. QED  BY <1>1, SubsetInduction
<1>. QED  BY <1>2

(* Where each element is replaced by one of its own that counts for at most
   one more or less, the sum is off by at most the number of elements. *)
LEMMA SumOfImage ==
  ASSUME NEW S, IsFiniteSet(S), NEW f, NEW g, NEW r,
         \A x \in S : f[x] \in Int /\ g[r[x]] \in Int /\ g[r[x]] - f[x] \in -1..1,
         \A x, y \in S : r[x] = r[y] => x = y,
         NEW R, R = {r[x] : x \in S}
  PROVE  /\ IsFiniteSet(R)
         /\ Cardinality(R) = Cardinality(S)
         /\ SumFunctionOnSet(g, R) \in Int
         /\ SumFunctionOnSet(g, R) - SumFunctionOnSet(f, S) <= Cardinality(S)
         /\ SumFunctionOnSet(f, S) - SumFunctionOnSet(g, R) <= Cardinality(S)
<1>. DEFINE I(T) == {r[x] : x \in T}
            F(T) == SumFunctionOnSet(f, T)
            G(T) == SumFunctionOnSet(g, T)
            Near(T) == /\ IsFiniteSet(I(T))
                       /\ Cardinality(I(T)) = Cardinality(T)
                       /\ G(I(T)) \in Int
                       /\ G(I(T)) - F(T) <= Cardinality(T)
                       /\ F(T) - G(I(T)) <= Cardinality(T)
            P == {T \in SUBSET S : Near(T)}
<1>1. ASSUME NEW T \in SUBSET S PROVE IsFiniteSet(T) /\ Cardinality(T) \in Nat /\ F(T) \in Int
  BY FS_Subset, FS_CardinalityType, SumIsInt
<1>2. ASSUME NEW T \in SUBSET S, \A U \in SUBSET T : U # T => U \in P
      PROVE  T \in P
  <2>1. CASE T = {}
    <3>1. I(T) = {} /\ IsFiniteSet({}) /\ Cardinality({}) = 0
      BY <2>1, FS_EmptySet
    <3>2. F(T) = 0 /\ G(I(T)) = 0
      BY <2>1, <3>1, SumOfNothing
    <3>3. IsFiniteSet(I(T)) /\ Cardinality(I(T)) = 0 /\ Cardinality(T) = 0
      BY <2>1, <3>1
    <3>. HIDE DEF I, F, G
    <3>. QED  BY <3>2, <3>3
  <2>2. CASE T # {}
    <3>1. PICK a \in T : TRUE
      BY <2>2
    <3>. DEFINE V == T \ {a}
    <3>2. /\ V \in SUBSET T /\ V # T /\ a \notin V /\ T = V \cup {a}
          /\ I(T) = I(V) \cup {r[a]} /\ r[a] \notin I(V)
      BY <3>1
    <3>3. V \in SUBSET S /\ IsFiniteSet(V) /\ Cardinality(V) \in Nat /\ F(V) \in Int /\ Near(V)
      BY <1>1, <1>2, <3>2
    <3>. HIDE DEF V, F, G, I
    <3>4. Cardinality(T) = Cardinality(V) + 1
      BY <3>2, <3>3, FS_AddElement
    <3>5. IsFiniteSet(I(T)) /\ Cardinality(I(T)) = Cardinality(I(V)) + 1
      <4>1. IsFiniteSet(I(V)) /\ I(T) = I(V) \cup {r[a]} /\ r[a] \notin I(V)
        BY <3>2, <3>3
      <4>2. /\ IsFiniteSet(I(V) \cup {r[a]})
            /\ Cardinality(I(V) \cup {r[a]}) = Cardinality(I(V)) + 1
        BY <4>1, FS_AddElement
      <4>. QED  BY <4>1, <4>2
    <3>6. F(T) = f[a] + F(V)
      <4>1. \A x \in V \cup {a} : f[x] \in Int
        BY <3>2
      <4>. QED  BY <3>2, <3>3, <4>1, SumTakesIn DEF F
    <3>7. G(I(T)) = g[r[a]] + G(I(V))
      <4>1. \A y \in I(V) \cup {r[a]} : g[y] \in Int
        BY <3>2 DEF I
      <4>. QED  BY <3>2, <3>3, <4>1, SumTakesIn DEF G
    <3>8. f[a] \in Int /\ g[r[a]] \in Int /\ g[r[a]] - f[a] \in -1..1
      BY <3>1
    <3>. QED  BY <3>3, <3>4, <3>5, <3>6, <3>7, <3>8
  <2>. QED  BY <2>1, <2>2
<1>3. S \in P
  <2>. HIDE DEF P
  <2>. QED  BY <1>2, SubsetInduction
<1>4. I(S) = R
  OBVIOUS
<1>5. Near(S)
  BY <1>3
<1>. HIDE DEF I
<1>. QED  BY <1>4, <1>5
=============================================================================
