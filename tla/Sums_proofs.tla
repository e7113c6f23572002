------------------------------ MODULE Sums_proofs ------------------------------
(***************************************************************************)
(* Sums over finite sets: what SumFunctionOnSet of the community modules    *)
(* returns, for the usage of an account and the requests of a time window.  *)
(* The library defines it by a recursive function, so a fact about every    *)
(* finite set needs induction.  The set theorems with a predicate as their  *)
(* parameter cannot be instantiated here; SmallestSubset takes their place: *)
(* of the subsets for which a claim fails, one is smallest.                 *)
(***************************************************************************)
EXTENDS Functions, FiniteSetTheorems, TLAPS

(* A set of subsets of a finite set has a smallest member: induction on     *)
(* subsets, without a predicate as a parameter.                             *)
LEMMA SmallestSubset ==
  ASSUME NEW S, IsFiniteSet(S), NEW B, B \subseteq SUBSET S, B # {}
  PROVE  \E T \in B : \A U \in SUBSET T : U # T => U \notin B
  <1>1. IsWellFoundedOn(StrictSubsetOrdering(S), SUBSET S)
    BY FS_FiniteSubsetsOfFinite, FS_StrictSubsetOrderingWellFounded, Zenon
  <1>2. \A R, A : IsWellFoundedOn(R, A) =>
          \A T : T \subseteq A /\ T # {} => \E x \in T : \A y \in T : ~ (<<y, x>> \in R)
    BY WFMin
  <1>3. \E x \in B : \A y \in B : ~ (<<y, x>> \in StrictSubsetOrdering(S))
    BY <1>1, <1>2, Zenon
  <1>4. PICK T \in B : \A y \in B : ~ (<<y, T>> \in StrictSubsetOrdering(S))
    BY <1>3
  <1> QED
    BY <1>4 DEF StrictSubsetOrdering

Pick(s) == CHOOSE x \in s : TRUE

(* g gives the sum of f over each subset of S.                              *)
Sums(g, f, S) ==
    g = [s \in SUBSET S |-> IF s = {} THEN 0 ELSE f[Pick(s)] + g[s \ {Pick(s)}]]

LEMMA PickIn ==
  ASSUME NEW S, S # {}
  PROVE  Pick(S) \in S
  BY DEF Pick

LEMMA SumsUnique ==
  ASSUME NEW S, IsFiniteSet(S), NEW f, NEW g, Sums(g, f, S), NEW T \in SUBSET S,
         NEW h, Sums(h, f, T)
  PROVE  \A U \in SUBSET T : h[U] = g[U]
  <1> DEFINE B == {U \in SUBSET T : h[U] # g[U]}
  <1> SUFFICES ASSUME B # {} PROVE FALSE
    OBVIOUS
  <1>1. B \subseteq SUBSET S
    OBVIOUS
  <1> HIDE DEF B
  <1>2. PICK U \in B : \A V \in SUBSET U : V # U => V \notin B
    BY <1>1, SmallestSubset
  <1>3. U \in SUBSET T /\ h[U] # g[U]
    BY DEF B
  <1>4. /\ h[U] = IF U = {} THEN 0 ELSE f[Pick(U)] + h[U \ {Pick(U)}]
        /\ g[U] = IF U = {} THEN 0 ELSE f[Pick(U)] + g[U \ {Pick(U)}]
    BY <1>3 DEF Sums
  <1>5. U # {}
    BY <1>3, <1>4
  <1>6. U \ {Pick(U)} \in SUBSET U /\ U \ {Pick(U)} # U
    BY <1>5, PickIn
  <1>7. h[U \ {Pick(U)}] = g[U \ {Pick(U)}]
    BY <1>2, <1>3, <1>6 DEF B
  <1> QED
    BY <1>3, <1>4, <1>7

LEMMA SumsExist ==
  ASSUME NEW S, IsFiniteSet(S), NEW f
  PROVE  \E g : Sums(g, f, S)
  <1> DEFINE B == {T \in SUBSET S : ~ \E g : Sums(g, f, T)}
  <1> SUFFICES ASSUME B # {} PROVE FALSE
    OBVIOUS
  <1>1. B \subseteq SUBSET S
    OBVIOUS
  <1> HIDE DEF B
  <1>2. PICK T \in B : \A V \in SUBSET T : V # T => V \notin B
    BY <1>1, SmallestSubset
  <1>3. T \in SUBSET S /\ ~ \E g : Sums(g, f, T)
    BY DEF B
  <1> DEFINE Of(U) == CHOOSE g : Sums(g, f, U)
             Sum(U) == Of(U)[U]
             G == [s \in SUBSET T |-> IF s = {} THEN 0 ELSE f[Pick(s)] + Sum(s \ {Pick(s)})]
  <1>4. ASSUME NEW U \in SUBSET T, U # T PROVE Sums(Of(U), f, U)
    BY <1>2, <1>3, <1>4 DEF B
  <1>5. ASSUME NEW s \in SUBSET T, s # {}
        PROVE  s \ {Pick(s)} \in SUBSET T /\ s \ {Pick(s)} # T /\ s \ {Pick(s)} # s
    BY <1>5, PickIn
  <1>6. ASSUME NEW U \in SUBSET T, U # T PROVE Sum(U) = G[U]
    <2>1. Sums(Of(U), f, U)
      BY <1>4, <1>6
    <2>2. Of(U)[U] = IF U = {} THEN 0 ELSE f[Pick(U)] + Of(U)[U \ {Pick(U)}]
      <3> HIDE DEF Of
      <3> QED BY <2>1 DEF Sums
    <2>3. CASE U = {}
      BY <2>2, <2>3
    <2>4. CASE U # {}
      <3> DEFINE V == U \ {Pick(U)}
      <3>1. V \in SUBSET T /\ V # T /\ V \in SUBSET U
        BY <1>5, <2>4
      <3>2. Sums(Of(V), f, V)
        BY <1>4, <3>1
      <3>3. IsFiniteSet(U)
        BY <1>3, FS_Subset
      <3>4. Of(V)[V] = Of(U)[V]
        <4> HIDE DEF Of, V
        <4> QED BY <2>1, <3>1, <3>2, <3>3, SumsUnique
      <3> HIDE DEF Of
      <3> QED
        BY <2>2, <2>4, <3>4
    <2> QED
      BY <2>3, <2>4
  <1>7. Sums(G, f, T)
    <2> SUFFICES ASSUME NEW s \in SUBSET T, s # {}
                 PROVE  Sum(s \ {Pick(s)}) = G[s \ {Pick(s)}]
      <3> HIDE DEF Sum
      <3> QED BY DEF Sums
    <2> HIDE DEF Sum, G
    <2> QED
      BY <1>5, <1>6
  <1> QED
    BY <1>3, <1>7

LEMMA SumUnfold ==
  ASSUME NEW S, IsFiniteSet(S), NEW f
  PROVE  \E g : Sums(g, f, S) /\ SumFunctionOnSet(f, S) = g[S]
  <1> DEFINE g == CHOOSE g : Sums(g, f, S)
  <1>1. Sums(g, f, S)
    BY SumsExist
  <1>2. SumFunctionOnSet(f, S) = g[S]
    BY DEF SumFunctionOnSet, FoldFunctionOnSet, MapThenFoldSet, Sums, Pick
  <1> QED
    BY <1>1, <1>2

LEMMA SumEmpty ==
  ASSUME NEW f
  PROVE  SumFunctionOnSet(f, {}) = 0
  BY SumUnfold, FS_EmptySet DEF Sums

LEMMA SumPick ==
  ASSUME NEW S, IsFiniteSet(S), S # {}, NEW f
  PROVE  SumFunctionOnSet(f, S) = f[Pick(S)] + SumFunctionOnSet(f, S \ {Pick(S)})
  <1> DEFINE R == S \ {Pick(S)}
  <1>1. R \in SUBSET S /\ IsFiniteSet(R)
    BY FS_Subset
  <1> HIDE DEF R
  <1>2. PICK g : Sums(g, f, S) /\ SumFunctionOnSet(f, S) = g[S]
    BY SumUnfold
  <1>3. PICK h : Sums(h, f, R) /\ SumFunctionOnSet(f, R) = h[R]
    BY <1>1, SumUnfold
  <1>4. h[R] = g[R]
    BY <1>1, <1>2, <1>3, SumsUnique
  <1>5. g[S] = f[Pick(S)] + g[R]
    BY <1>2 DEF Sums, R
  <1> QED
    BY <1>2, <1>3, <1>4, <1>5 DEF R

(* Sums of natural numbers.                                                 *)
LEMMA SumNat ==
  ASSUME NEW S, IsFiniteSet(S), NEW f, \A x \in S : f[x] \in Nat
  PROVE  SumFunctionOnSet(f, S) \in Nat
  <1> DEFINE B == {T \in SUBSET S : SumFunctionOnSet(f, T) \notin Nat}
  <1> SUFFICES ASSUME B # {} PROVE FALSE
    BY DEF B
  <1>1. B \subseteq SUBSET S
    OBVIOUS
  <1> HIDE DEF B
  <1>2. PICK T \in B : \A U \in SUBSET T : U # T => U \notin B
    BY <1>1, SmallestSubset
  <1>3. T \in SUBSET S /\ SumFunctionOnSet(f, T) \notin Nat /\ IsFiniteSet(T)
    BY FS_Subset DEF B
  <1>4. T # {}
    BY <1>3, SumEmpty
  <1> DEFINE R == T \ {Pick(T)}
  <1>5. Pick(T) \in T /\ R \in SUBSET T /\ R # T
    BY <1>4, PickIn
  <1>6. SumFunctionOnSet(f, T) = f[Pick(T)] + SumFunctionOnSet(f, R)
    BY <1>3, <1>4, SumPick
  <1> HIDE DEF R
  <1>7. SumFunctionOnSet(f, R) \in Nat
    BY <1>2, <1>3, <1>5 DEF B
  <1>8. f[Pick(T)] \in Nat
    BY <1>3, <1>5
  <1> QED
    BY <1>3, <1>6, <1>7, <1>8

(* Any element may be taken out, not only the one that the fold picks.      *)
LEMMA SumRemove ==
  ASSUME NEW S, IsFiniteSet(S), NEW f, \A x \in S : f[x] \in Nat, NEW e \in S
  PROVE  SumFunctionOnSet(f, S) = f[e] + SumFunctionOnSet(f, S \ {e})
  <1> DEFINE Sum(T) == SumFunctionOnSet(f, T)
             B == {T \in SUBSET S : \E x \in T : Sum(T) # f[x] + Sum(T \ {x})}
  <1> SUFFICES ASSUME B # {} PROVE FALSE
    OBVIOUS
  <1>1. B \subseteq SUBSET S
    OBVIOUS
  <1> HIDE DEF B
  <1>2. PICK T \in B : \A U \in SUBSET T : U # T => U \notin B
    BY <1>1, SmallestSubset
  <1>3. PICK x \in T : Sum(T) # f[x] + Sum(T \ {x})
    BY DEF B
  <1> DEFINE p == Pick(T)
  <1>4. T \in SUBSET S /\ IsFiniteSet(T) /\ p \in T
    BY <1>3, FS_Subset, PickIn DEF B
  <1> HIDE DEF p
  <1>5. \A U \in SUBSET T : IsFiniteSet(U) /\ Sum(U) \in Nat
    BY <1>4, FS_Subset, SumNat
  <1>6. Sum(T) = f[p] + Sum(T \ {p})
    BY <1>4, SumPick DEF p
  <1>7. x # p
    BY <1>3, <1>6
  <1>8. Sum(T \ {p}) = f[x] + Sum((T \ {p}) \ {x})
    <2> DEFINE U == T \ {p}
    <2>1. U \in SUBSET T /\ U # T /\ x \in U
      BY <1>4, <1>7
    <2> HIDE DEF U
    <2>2. Sum(U) = f[x] + Sum(U \ {x})
      <3> HIDE DEF Sum
      <3> QED BY <1>2, <1>4, <2>1 DEF B
    <2> QED
      BY <2>2 DEF U
  <1>9. Sum(T \ {x}) = f[p] + Sum((T \ {x}) \ {p})
    <2> DEFINE U == T \ {x}
    <2>1. U \in SUBSET T /\ U # T /\ p \in U
      BY <1>4, <1>7
    <2> HIDE DEF U
    <2>2. Sum(U) = f[p] + Sum(U \ {p})
      <3> HIDE DEF Sum
      <3> QED BY <1>2, <1>4, <2>1 DEF B
    <2> QED
      BY <2>2 DEF U
  <1>10. (T \ {p}) \ {x} = (T \ {x}) \ {p}
    OBVIOUS
  <1>11. f[x] \in Nat /\ f[p] \in Nat
    BY <1>4
  <1>12. Sum((T \ {x}) \ {p}) \in Nat
    BY <1>5
  <1> HIDE DEF Sum
  <1> QED
    BY <1>3, <1>6, <1>8, <1>9, <1>10, <1>11, <1>12

LEMMA SumAdd ==
  ASSUME NEW S, IsFiniteSet(S), NEW f, \A x \in S : f[x] \in Nat,
         NEW e, e \notin S, f[e] \in Nat
  PROVE  SumFunctionOnSet(f, S \cup {e}) = f[e] + SumFunctionOnSet(f, S)
  <1> DEFINE T == S \cup {e}
  <1>1. IsFiniteSet(T) /\ e \in T /\ T \ {e} = S /\ \A x \in T : f[x] \in Nat
    BY FS_AddElement
  <1> HIDE DEF T
  <1>2. SumFunctionOnSet(f, T) = f[e] + SumFunctionOnSet(f, T \ {e})
    BY <1>1, SumRemove
  <1> QED
    BY <1>1, <1>2 DEF T

(* The sum depends on the values on the set only.                           *)
LEMMA SumSame ==
  ASSUME NEW S, IsFiniteSet(S), NEW f, NEW g, \A x \in S : f[x] = g[x]
  PROVE  SumFunctionOnSet(f, S) = SumFunctionOnSet(g, S)
  <1> DEFINE B == {T \in SUBSET S : SumFunctionOnSet(f, T) # SumFunctionOnSet(g, T)}
  <1> SUFFICES ASSUME B # {} PROVE FALSE
    BY DEF B
  <1>1. B \subseteq SUBSET S
    OBVIOUS
  <1> HIDE DEF B
  <1>2. PICK T \in B : \A U \in SUBSET T : U # T => U \notin B
    BY <1>1, SmallestSubset
  <1>3. /\ T \in SUBSET S /\ IsFiniteSet(T)
        /\ SumFunctionOnSet(f, T) # SumFunctionOnSet(g, T)
    BY FS_Subset DEF B
  <1>4. T # {}
    BY <1>3, SumEmpty
  <1> DEFINE R == T \ {Pick(T)}
  <1>5. Pick(T) \in T /\ R \in SUBSET T /\ R # T
    BY <1>4, PickIn
  <1>6. /\ SumFunctionOnSet(f, T) = f[Pick(T)] + SumFunctionOnSet(f, R)
        /\ SumFunctionOnSet(g, T) = g[Pick(T)] + SumFunctionOnSet(g, R)
    BY <1>3, <1>4, SumPick
  <1> HIDE DEF R
  <1>7. SumFunctionOnSet(f, R) = SumFunctionOnSet(g, R)
    BY <1>2, <1>3, <1>5 DEF B
  <1>8. f[Pick(T)] = g[Pick(T)]
    BY <1>3, <1>5
  <1> QED
    BY <1>3, <1>6, <1>7, <1>8

(* A part of a set of natural numbers adds up to no more than the whole.    *)
LEMMA SumPart ==
  ASSUME NEW S, IsFiniteSet(S), NEW f, \A x \in S : f[x] \in Nat, NEW T \in SUBSET S
  PROVE  SumFunctionOnSet(f, T) <= SumFunctionOnSet(f, S)
  <1> DEFINE B == {U \in SUBSET S : T \subseteq U
                                     /\ ~(SumFunctionOnSet(f, T) <= SumFunctionOnSet(f, U))}
  <1> SUFFICES ASSUME B # {} PROVE FALSE
    BY DEF B
  <1>1. B \subseteq SUBSET S
    OBVIOUS
  <1> HIDE DEF B
  <1>2. PICK U \in B : \A V \in SUBSET U : V # U => V \notin B
    BY <1>1, SmallestSubset
  <1>3. /\ U \in SUBSET S /\ IsFiniteSet(U) /\ T \subseteq U
        /\ ~(SumFunctionOnSet(f, T) <= SumFunctionOnSet(f, U))
    BY FS_Subset DEF B
  <1>4. SumFunctionOnSet(f, T) \in Nat /\ SumFunctionOnSet(f, U) \in Nat
    BY <1>3, FS_Subset, SumNat
  <1>5. PICK e \in U : e \notin T
    BY <1>3, <1>4
  <1> DEFINE V == U \ {e}
  <1>6. V \in SUBSET U /\ V # U /\ T \subseteq V /\ V \in SUBSET S
    BY <1>3, <1>5
  <1>7. SumFunctionOnSet(f, U) = f[e] + SumFunctionOnSet(f, V)
    BY <1>3, SumRemove
  <1> HIDE DEF V
  <1>8. SumFunctionOnSet(f, T) <= SumFunctionOnSet(f, V)
    BY <1>2, <1>6 DEF B
  <1>9. SumFunctionOnSet(f, V) \in Nat /\ f[e] \in Nat
    BY <1>3, <1>6, FS_Subset, SumNat
  <1> QED
    BY <1>3, <1>4, <1>7, <1>8, <1>9
(* A set and the rest of it.                                                *)
LEMMA SumSplit ==
  ASSUME NEW S, IsFiniteSet(S), NEW f, \A x \in S : f[x] \in Nat, NEW T \in SUBSET S
  PROVE  SumFunctionOnSet(f, S) = SumFunctionOnSet(f, T) + SumFunctionOnSet(f, S \ T)
  <1> DEFINE B == {U \in SUBSET T : SumFunctionOnSet(f, S)
                                     # SumFunctionOnSet(f, U) + SumFunctionOnSet(f, S \ U)}
  <1> SUFFICES ASSUME B # {} PROVE FALSE
    BY DEF B
  <1>1. B \subseteq SUBSET T /\ IsFiniteSet(T)
    BY FS_Subset
  <1> HIDE DEF B
  <1>2. PICK U \in B : \A V \in SUBSET U : V # U => V \notin B
    BY <1>1, SmallestSubset
  <1>3. /\ U \in SUBSET S /\ U \in SUBSET T /\ IsFiniteSet(U) /\ IsFiniteSet(S \ U)
        /\ SumFunctionOnSet(f, S) # SumFunctionOnSet(f, U) + SumFunctionOnSet(f, S \ U)
    BY FS_Subset DEF B
  <1>4. SumFunctionOnSet(f, S) \in Nat /\ SumFunctionOnSet(f, S \ U) \in Nat
    BY <1>3, SumNat
  <1>5. CASE U = {}
    <2>1. S \ U = S
      BY <1>5
    <2> QED
      BY <1>3, <1>4, <1>5, <2>1, SumEmpty
  <1>6. CASE U # {}
    <2>1. PICK e \in U : TRUE
      BY <1>6
    <2> DEFINE V == U \ {e}
    <2>2. V \in SUBSET U /\ V # U /\ V \in SUBSET T /\ S \ V = (S \ U) \cup {e} /\ e \notin S \ U
      BY <1>3, <2>1
    <2>3. SumFunctionOnSet(f, U) = f[e] + SumFunctionOnSet(f, V)
      BY <1>3, <2>1, SumRemove
    <2>4. SumFunctionOnSet(f, (S \ U) \cup {e}) = f[e] + SumFunctionOnSet(f, S \ U)
      <3>1. \A x \in S \ U : f[x] \in Nat
        OBVIOUS
      <3>2. f[e] \in Nat
        BY <1>3, <2>1
      <3> QED
        BY <1>3, <2>2, <3>1, <3>2, SumAdd
    <2>5. SumFunctionOnSet(f, V) \in Nat /\ f[e] \in Nat
      <3>1. IsFiniteSet(V) /\ \A x \in V : f[x] \in Nat
        BY <1>3, <2>2, FS_Subset
      <3> QED
        BY <1>3, <2>1, <3>1, SumNat
    <2> HIDE DEF V
    <2>6. SumFunctionOnSet(f, S) = SumFunctionOnSet(f, V) + SumFunctionOnSet(f, S \ V)
      BY <1>2, <2>2 DEF B
    <2>7. SumFunctionOnSet(f, S \ V) = f[e] + SumFunctionOnSet(f, S \ U)
      BY <2>2, <2>4, Zenon
    <2> QED
      BY <1>3, <1>4, <2>3, <2>5, <2>6, <2>7
  <1> QED
    BY <1>5, <1>6

(* One value is raised by one.                                              *)
LEMMA SumRaised ==
  ASSUME NEW S, IsFiniteSet(S), NEW f, NEW g, \A x \in S : f[x] \in Nat,
         NEW e \in S, g[e] = f[e] + 1, \A x \in S \ {e} : g[x] = f[x]
  PROVE  SumFunctionOnSet(g, S) = SumFunctionOnSet(f, S) + 1
  <1>1. IsFiniteSet(S \ {e})
    BY FS_Subset
  <1>2. SumFunctionOnSet(g, S \ {e}) = SumFunctionOnSet(f, S \ {e})
    BY <1>1, SumSame
  <1>3. SumFunctionOnSet(f, S) = f[e] + SumFunctionOnSet(f, S \ {e})
    BY SumRemove
  <1>4. SumFunctionOnSet(g, S) = g[e] + SumFunctionOnSet(g, S \ {e})
    <2>1. \A x \in S : g[x] \in Nat
      OBVIOUS
    <2> QED
      BY <2>1, SumRemove
  <1>5. SumFunctionOnSet(f, S \ {e}) \in Nat
    BY <1>1, SumNat
  <1> QED
    BY <1>2, <1>3, <1>4, <1>5

(* Zeros add up to nothing.                                                 *)
LEMMA SumZero ==
  ASSUME NEW S, IsFiniteSet(S), NEW f, \A x \in S : f[x] = 0
  PROVE  SumFunctionOnSet(f, S) = 0
  <1> DEFINE B == {U \in SUBSET S : SumFunctionOnSet(f, U) # 0}
  <1> SUFFICES ASSUME B # {} PROVE FALSE
    BY DEF B
  <1>1. B \subseteq SUBSET S
    OBVIOUS
  <1> HIDE DEF B
  <1>2. PICK U \in B : \A V \in SUBSET U : V # U => V \notin B
    BY <1>1, SmallestSubset
  <1>3. U \in SUBSET S /\ IsFiniteSet(U) /\ SumFunctionOnSet(f, U) # 0
    BY FS_Subset DEF B
  <1>4. PICK e \in U : TRUE
    BY <1>3, SumEmpty
  <1> DEFINE V == U \ {e}
  <1>5. SumFunctionOnSet(f, U) = f[e] + SumFunctionOnSet(f, V)
    BY <1>3, <1>4, SumRemove
  <1>6. V \in SUBSET S /\ V \in SUBSET U /\ V # U
    BY <1>3, <1>4
  <1> HIDE DEF V
  <1>7. SumFunctionOnSet(f, V) = 0
    BY <1>2, <1>6 DEF B
  <1> QED
    BY <1>3, <1>4, <1>5, <1>7
=============================================================================
