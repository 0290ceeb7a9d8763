---------------------------- MODULE SumTheorems ----------------------------
(***************************************************************************)
(* Facts about SumFunctionOnSet (Functions), the sum of the values of a    *)
(* function over a finite set, which other modules count coins and objects *)
(* with.  Nothing here is about the server.                                *)
(*                                                                         *)
(* Each is proved by a smallest counterexample: a set of sets, all within  *)
(* a finite one, has a member with no other member inside it.              *)
(***************************************************************************)
EXTENDS Integers, Functions, FiniteSetTheorems, TLAPS

\* A nonempty set of subsets of a finite set has a minimal one.
LEMMA MinimalSet ==
  ASSUME NEW S, IsFiniteSet(S), NEW B \in SUBSET SUBSET S, B # {}
  PROVE  \E U \in B : \A V \in B : V \subseteq U => V = U
<1>1. IsWellFoundedOn(StrictSubsetOrdering(S), FiniteSubsetsOf(S))
  BY FS_StrictSubsetOrderingWellFounded
<1>2. FiniteSubsetsOf(S) = SUBSET S
  BY FS_FiniteSubsetsOfFinite
<1>3. PICK U \in B : \A V \in B : ~(<<V, U>> \in StrictSubsetOrdering(S))
  BY <1>1, <1>2, WFMin
<1>4. \A V \in B : V \subseteq U /\ V # U => <<V, U>> \in StrictSubsetOrdering(S)
  BY DEF StrictSubsetOrdering
<1>5. \A V \in B : V \subseteq U => V = U
  BY <1>3, <1>4
<1>6. QED  BY <1>5

\* A member of a set, as the sum takes it.
First(T) == CHOOSE x \in T : TRUE

\* The recursion of the sum, on the subsets of S.
IsAdder(g, F, S) ==
  g = [T \in SUBSET S |-> IF T = {} THEN 0 ELSE F[First(T)] + g[T \ {First(T)}]]

LEMMA SumAdder ==
  ASSUME NEW F, NEW S
  PROVE  SumFunctionOnSet(F, S) = (CHOOSE g : IsAdder(g, F, S))[S]
  BY DEF SumFunctionOnSet, FoldFunctionOnSet, MapThenFoldSet, IsAdder, First

LEMMA FirstIn == ASSUME NEW T, T # {} PROVE First(T) \in T
  BY DEF First

LEMMA AdderValue ==
  ASSUME NEW F, NEW S, NEW g, IsAdder(g, F, S), NEW T \in SUBSET S
  PROVE  g[T] = IF T = {} THEN 0 ELSE F[First(T)] + g[T \ {First(T)}]
  BY DEF IsAdder

\* Two of them agree where both are defined.
LEMMA AdderUnique ==
  ASSUME NEW F, NEW S, NEW R, NEW g, NEW h, IsAdder(g, F, S), IsAdder(h, F, R),
         NEW T, IsFiniteSet(T), T \subseteq S, T \subseteq R
  PROVE  g[T] = h[T]
<1> DEFINE B == {U \in SUBSET T : g[U] # h[U]}
<1>1. SUFFICES ASSUME B # {} PROVE FALSE
  BY T \in SUBSET T
<1>a. B \in SUBSET SUBSET T
  OBVIOUS
<1> HIDE DEF B
<1>2. PICK U \in B : \A V \in B : V \subseteq U => V = U
  BY <1>1, <1>a, MinimalSet
<1> USE DEF B
<1>3. U \in SUBSET S /\ U \in SUBSET R /\ g[U] # h[U]
  BY <1>2
<1>4. U # {}
  BY <1>3, AdderValue
<1> DEFINE W == U \ {First(U)}
<1>5. W \subseteq U /\ W # U /\ W \in SUBSET T
  BY <1>4, <1>2, FirstIn
<1>6. g[W] = h[W]
  BY <1>5, <1>2
<1>7. g[U] = F[First(U)] + g[W] /\ h[U] = F[First(U)] + h[W]
  BY <1>3, <1>4, AdderValue
<1>8. QED  BY <1>6, <1>7, <1>3

\* There is one on every finite set.
LEMMA AdderExists ==
  ASSUME NEW F, NEW S, IsFiniteSet(S)
  PROVE  \E g : IsAdder(g, F, S)
<1> DEFINE B == {U \in SUBSET S : ~ \E g : IsAdder(g, F, U)}
           A(U) == CHOOSE g : IsAdder(g, F, U)
<1>1. SUFFICES ASSUME B # {} PROVE FALSE
  BY S \in SUBSET S
<1>a. B \in SUBSET SUBSET S
  OBVIOUS
<1> HIDE DEF B
<1>2. PICK U \in B : \A V \in B : V \subseteq U => V = U
  BY <1>1, <1>a, MinimalSet
<1> USE DEF B
<1>3. \A V \in SUBSET U : V # U => IsAdder(A(V), F, V)
  BY <1>2
<1> DEFINE N(V) == IF V = {} THEN 0 ELSE F[First(V)] + A(V \ {First(V)})[V \ {First(V)}]
           g == [V \in SUBSET U |-> N(V)]
<1>4. \A V \in SUBSET U : IsFiniteSet(V)
  BY FS_Subset, U \in SUBSET S
<1>5. ASSUME NEW W \in SUBSET U, W # U
      PROVE  A(W)[W] = N(W)
  <2>1. IsAdder(A(W), F, W)
    BY <1>3, <1>5
  <2> HIDE DEF A
  <2>2. CASE W = {}
    BY <2>1, <2>2, AdderValue
  <2>3. CASE W # {}
    <3> DEFINE X == W \ {First(W)}
    <3>1. X \subseteq W /\ X # U /\ X \in SUBSET U
      BY <2>3, FirstIn
    <3>2. IsAdder(A(X), F, X)
      BY <3>1, <1>3
    <3>3. A(W)[X] = A(X)[X]
      BY <2>1, <3>1, <3>2, <1>4, AdderUnique
    <3>4. A(W)[W] = F[First(W)] + A(W)[X]
      BY <2>1, <2>3, AdderValue
    <3>5. QED  BY <3>3, <3>4, <2>3
  <2>4. QED  BY <2>2, <2>3
<1>6. ASSUME NEW V \in SUBSET U, V # {}
      PROVE  g[V] = F[First(V)] + g[V \ {First(V)}]
  <2> DEFINE W == V \ {First(V)}
  <2>1. W \in SUBSET U /\ W # U
    BY <1>6, FirstIn
  <2>2. A(W)[W] = N(W)
    BY <2>1, <1>5
  <2>3. g[W] = N(W)
    BY <2>1
  <2> HIDE DEF A
  <2>4. g[V] = F[First(V)] + A(W)[W]
    BY <1>6
  <2>5. QED  BY <2>2, <2>3, <2>4
<1>7. g[{}] = 0
  OBVIOUS
<1>8. g = [V \in SUBSET U |-> g[V]]
  OBVIOUS
<1> HIDE DEF g
<1>9. \A V \in SUBSET U :
        g[V] = IF V = {} THEN 0 ELSE F[First(V)] + g[V \ {First(V)}]
  BY <1>6, <1>7
<1>10. IsAdder(g, F, U)
  BY <1>8, <1>9 DEF IsAdder
<1>11. QED  BY <1>10, <1>2

LEMMA SumIsAdder ==
  ASSUME NEW F, NEW S, IsFiniteSet(S), NEW g, IsAdder(g, F, S)
  PROVE  SumFunctionOnSet(F, S) = g[S]
<1> DEFINE a == CHOOSE h : IsAdder(h, F, S)
<1>1. IsAdder(a, F, S)
  OBVIOUS
<1> HIDE DEF a
<1>2. a[S] = g[S]
  BY <1>1, AdderUnique
<1>3. QED  BY <1>2, SumAdder DEF a

LEMMA SumEmpty == ASSUME NEW F PROVE SumFunctionOnSet(F, {}) = 0
<1>1. IsFiniteSet({})  BY FS_EmptySet
<1>2. PICK g : IsAdder(g, F, {})  BY <1>1, AdderExists
<1>3. SumFunctionOnSet(F, {}) = g[{}]  BY <1>1, <1>2, SumIsAdder
<1>4. QED  BY <1>2, <1>3, AdderValue

LEMMA SumFirst ==
  ASSUME NEW F, NEW S, IsFiniteSet(S), S # {}
  PROVE  SumFunctionOnSet(F, S) = F[First(S)] + SumFunctionOnSet(F, S \ {First(S)})
<1> DEFINE W == S \ {First(S)}
<1>1. PICK g : IsAdder(g, F, S)  BY AdderExists
<1>2. IsFiniteSet(W)  BY FS_RemoveElement
<1>3. PICK h : IsAdder(h, F, W)  BY <1>2, AdderExists
<1>4. g[W] = h[W]  BY <1>1, <1>2, <1>3, AdderUnique
<1>5. SumFunctionOnSet(F, S) = g[S]  BY <1>1, SumIsAdder
<1>6. SumFunctionOnSet(F, W) = h[W]  BY <1>2, <1>3, SumIsAdder
<1>7. g[S] = F[First(S)] + g[W]  BY <1>1, AdderValue
<1>8. QED  BY <1>4, <1>5, <1>6, <1>7

-----------------------------------------------------------------------------
\* The sum of integers is one.
LEMMA SumInt ==
  ASSUME NEW S, IsFiniteSet(S), NEW F, \A x \in S : F[x] \in Int
  PROVE  SumFunctionOnSet(F, S) \in Int
<1> DEFINE B == {T \in SUBSET S : SumFunctionOnSet(F, T) \notin Int}
<1>1. SUFFICES ASSUME B # {} PROVE FALSE
  BY S \in SUBSET S
<1>a. B \in SUBSET SUBSET S
  OBVIOUS
<1> HIDE DEF B
<1>2. PICK U \in B : \A V \in B : V \subseteq U => V = U
  BY <1>1, <1>a, MinimalSet
<1> USE DEF B
<1>3. U # {}
  BY SumEmpty, SumFunctionOnSet(F, {}) \in Nat
<1> DEFINE W == U \ {First(U)}
<1>4. W \subseteq U /\ W # U /\ First(U) \in S /\ W \in SUBSET S
  BY <1>2, <1>3, FirstIn
<1>5. SumFunctionOnSet(F, W) \in Int
  BY <1>2, <1>4
<1>6. IsFiniteSet(U)
  BY FS_Subset, <1>2
<1>7. SumFunctionOnSet(F, U) = F[First(U)] + SumFunctionOnSet(F, W)
  BY <1>3, <1>6, SumFirst
<1>8. QED  BY <1>2, <1>4, <1>5, <1>7

LEMMA SumNat ==
  ASSUME NEW S, IsFiniteSet(S), NEW F, \A x \in S : F[x] \in Nat
  PROVE  SumFunctionOnSet(F, S) \in Nat
<1> DEFINE B == {T \in SUBSET S : SumFunctionOnSet(F, T) \notin Nat}
<1>1. SUFFICES ASSUME B # {} PROVE FALSE
  BY S \in SUBSET S
<1>a. B \in SUBSET SUBSET S
  OBVIOUS
<1> HIDE DEF B
<1>2. PICK U \in B : \A V \in B : V \subseteq U => V = U
  BY <1>1, <1>a, MinimalSet
<1> USE DEF B
<1>3. U # {}
  BY SumEmpty, SumFunctionOnSet(F, {}) \in Nat
<1> DEFINE W == U \ {First(U)}
<1>4. W \subseteq U /\ W # U /\ First(U) \in S /\ W \in SUBSET S
  BY <1>2, <1>3, FirstIn
<1>5. SumFunctionOnSet(F, W) \in Nat
  BY <1>2, <1>4
<1>6. IsFiniteSet(U)
  BY FS_Subset, <1>2
<1>7. SumFunctionOnSet(F, U) = F[First(U)] + SumFunctionOnSet(F, W)
  BY <1>3, <1>6, SumFirst
<1>8. QED  BY <1>2, <1>4, <1>5, <1>7

\* Any member may be taken out first.
LEMMA SumRemove ==
  ASSUME NEW S, IsFiniteSet(S), NEW F, \A x \in S : F[x] \in Int, NEW e \in S
  PROVE  SumFunctionOnSet(F, S) = F[e] + SumFunctionOnSet(F, S \ {e})
<1> DEFINE Right(T, d) == SumFunctionOnSet(F, T) = F[d] + SumFunctionOnSet(F, T \ {d})
           B == {T \in SUBSET S : \E d \in T : ~Right(T, d)}
<1>1. SUFFICES ASSUME B # {} PROVE FALSE
  BY S \in SUBSET S
<1>a. B \in SUBSET SUBSET S
  OBVIOUS
<1> HIDE DEF B
<1>2. PICK U \in B : \A V \in B : V \subseteq U => V = U
  BY <1>1, <1>a, MinimalSet
<1>3. PICK d \in U : ~Right(U, d)
  BY <1>2 DEF B
<1>4. U \in SUBSET S /\ IsFiniteSet(U)
  BY <1>a, FS_Subset
<1>5. PICK x : x = First(U)
  OBVIOUS
<1>6. x \in U /\ Right(U, x)
  BY <1>3, <1>4, <1>5, FirstIn, SumFirst
<1>7. x # d
  BY <1>3, <1>6
<1>8. \A V \in SUBSET U : V # U => \A y \in V : Right(V, y)
  BY <1>2, <1>4 DEF B
<1> HIDE DEF Right
<1>9. Right(U \ {x}, d) /\ Right(U \ {d}, x)
  <2>1. U \ {x} \in SUBSET U /\ U \ {x} # U /\ d \in U \ {x}
    BY <1>6, <1>7
  <2>2. U \ {d} \in SUBSET U /\ U \ {d} # U /\ x \in U \ {d}
    BY <1>6, <1>7
  <2>3. QED  BY <1>8, <2>1, <2>2
<1>10. PICK W : W = (U \ {x}) \ {d}
  OBVIOUS
<1>11. W = (U \ {d}) \ {x} /\ IsFiniteSet(W) /\ W \in SUBSET S
  BY <1>4, <1>10, FS_Subset
<1>12. SumFunctionOnSet(F, W) \in Int /\ F[x] \in Int /\ F[d] \in Int
  BY <1>4, <1>6, <1>11, SumInt
<1>13. SumFunctionOnSet(F, U) = F[d] + SumFunctionOnSet(F, U \ {d})
  <2>1. SumFunctionOnSet(F, U) = F[x] + SumFunctionOnSet(F, U \ {x})
    BY <1>6 DEF Right
  <2>2. SumFunctionOnSet(F, U \ {x}) = F[d] + SumFunctionOnSet(F, W)
    BY <1>9, <1>10 DEF Right
  <2>3. SumFunctionOnSet(F, U \ {d}) = F[x] + SumFunctionOnSet(F, W)
    BY <1>9, <1>11 DEF Right
  <2>4. QED  BY <2>1, <2>2, <2>3, <1>12
<1>14. QED  BY <1>3, <1>13 DEF Right
LEMMA SumAdd ==
  ASSUME NEW S, IsFiniteSet(S), NEW F, \A x \in S : F[x] \in Int,
         NEW e, e \notin S, F[e] \in Int
  PROVE  SumFunctionOnSet(F, S \cup {e}) = SumFunctionOnSet(F, S) + F[e]
<1>0. PICK T : T = S \cup {e}
  OBVIOUS
<1>1. IsFiniteSet(T) /\ T \ {e} = S /\ e \in T /\ \A x \in T : F[x] \in Int
  BY <1>0, FS_AddElement
<1>2. SumFunctionOnSet(F, T) = F[e] + SumFunctionOnSet(F, T \ {e})
  BY <1>1, SumRemove
<1>3. SumFunctionOnSet(F, S) \in Int
  BY SumInt
<1>4. SumFunctionOnSet(F, T) = F[e] + SumFunctionOnSet(F, S)
  BY <1>1, <1>2
<1>5. SumFunctionOnSet(F, S \cup {e}) = F[e] + SumFunctionOnSet(F, S)
  BY <1>0, <1>4
<1>6. QED  BY <1>3, <1>5

\* Only what the function gives on the set matters.
LEMMA SumSame ==
  ASSUME NEW S, IsFiniteSet(S), NEW F, NEW G, \A x \in S : F[x] = G[x]
  PROVE  SumFunctionOnSet(F, S) = SumFunctionOnSet(G, S)
<1> DEFINE B == {T \in SUBSET S : SumFunctionOnSet(F, T) # SumFunctionOnSet(G, T)}
<1>1. SUFFICES ASSUME B # {} PROVE FALSE
  BY S \in SUBSET S
<1>a. B \in SUBSET SUBSET S
  OBVIOUS
<1> HIDE DEF B
<1>2. PICK U \in B : \A V \in B : V \subseteq U => V = U
  BY <1>1, <1>a, MinimalSet
<1> USE DEF B
<1>3. U # {}
  BY SumEmpty
<1> DEFINE W == U \ {First(U)}
<1>4. W \subseteq U /\ W # U /\ First(U) \in S /\ W \in SUBSET S /\ IsFiniteSet(U)
  BY <1>2, <1>3, FirstIn, FS_Subset
<1>5. SumFunctionOnSet(F, W) = SumFunctionOnSet(G, W)
  BY <1>2, <1>4
<1>6. SumFunctionOnSet(F, U) = F[First(U)] + SumFunctionOnSet(F, W)
  BY <1>3, <1>4, SumFirst
<1>7. SumFunctionOnSet(G, U) = G[First(U)] + SumFunctionOnSet(G, W)
  BY <1>3, <1>4, SumFirst
<1>8. QED  BY <1>2, <1>4, <1>5, <1>6, <1>7

\* The sum over two sets that have nothing in common.
LEMMA SumUnion ==
  ASSUME NEW S, IsFiniteSet(S), NEW T, IsFiniteSet(T), S \cap T = {},
         NEW F, \A x \in S \cup T : F[x] \in Int
  PROVE  SumFunctionOnSet(F, S \cup T) = SumFunctionOnSet(F, S) + SumFunctionOnSet(F, T)
<1> DEFINE B == {R \in SUBSET T :
                   SumFunctionOnSet(F, S \cup R) # SumFunctionOnSet(F, S) + SumFunctionOnSet(F, R)}
<1>1. SUFFICES ASSUME B # {} PROVE FALSE
  BY T \in SUBSET T
<1>a. B \in SUBSET SUBSET T
  OBVIOUS
<1> HIDE DEF B
<1>2. PICK U \in B : \A V \in B : V \subseteq U => V = U
  BY <1>1, <1>a, MinimalSet
<1>3. U \in SUBSET T /\ IsFiniteSet(U) /\ SumFunctionOnSet(F, S) \in Int
  BY <1>a, FS_Subset, SumInt
<1>4. U # {}
  <2>1. SUFFICES ASSUME U = {} PROVE FALSE
    OBVIOUS
  <2>2. S \cup U = S /\ SumFunctionOnSet(F, U) = 0
    BY <2>1, SumEmpty
  <2>3. SumFunctionOnSet(F, S \cup U) # SumFunctionOnSet(F, S) + SumFunctionOnSet(F, U)
    BY <1>2 DEF B
  <2>4. SumFunctionOnSet(F, S \cup U) = SumFunctionOnSet(F, S)
    BY <2>2
  <2>5. QED  BY <1>3, <2>2, <2>3, <2>4
<1>5. PICK x : x = First(U)
  OBVIOUS
<1>6. PICK W : W = U \ {x}
  OBVIOUS
<1>7. x \in U /\ W \subseteq U /\ W # U /\ W \in SUBSET T /\ IsFiniteSet(W)
      /\ F[x] \in Int /\ SumFunctionOnSet(F, W) \in Int
  <2>1. x \in U
    BY <1>4, <1>5, FirstIn
  <2>2. W \subseteq U /\ W # U /\ W \in SUBSET T /\ IsFiniteSet(W) /\ F[x] \in Int
    BY <2>1, <1>3, <1>6, FS_Subset
  <2>3. QED  BY <2>1, <2>2, SumInt
<1>8. SumFunctionOnSet(F, S \cup W) = SumFunctionOnSet(F, S) + SumFunctionOnSet(F, W)
  BY <1>2, <1>7 DEF B
<1>9. SumFunctionOnSet(F, U) = F[x] + SumFunctionOnSet(F, W)
  BY <1>3, <1>6, <1>7, SumRemove
<1>10. PICK X : X = S \cup U
  OBVIOUS
<1>11. X \ {x} = S \cup W /\ x \in X /\ IsFiniteSet(X) /\ \A y \in X : F[y] \in Int
  BY <1>3, <1>6, <1>7, <1>10, FS_Union
<1>12. SumFunctionOnSet(F, X) = F[x] + SumFunctionOnSet(F, S \cup W)
  BY <1>11, SumRemove
<1>13. SumFunctionOnSet(F, S \cup U) = SumFunctionOnSet(F, S) + SumFunctionOnSet(F, U)
  BY <1>3, <1>7, <1>8, <1>9, <1>10, <1>12
<1>14. QED  BY <1>2, <1>13 DEF B

\* What is nothing does not count.
LEMMA SumZero ==
  ASSUME NEW S, IsFiniteSet(S), NEW F, \A x \in S : F[x] = 0
  PROVE  SumFunctionOnSet(F, S) = 0
<1> DEFINE B == {T \in SUBSET S : SumFunctionOnSet(F, T) # 0}
<1>1. SUFFICES ASSUME B # {} PROVE FALSE
  BY S \in SUBSET S
<1>a. B \in SUBSET SUBSET S
  OBVIOUS
<1> HIDE DEF B
<1>2. PICK U \in B : \A V \in B : V \subseteq U => V = U
  BY <1>1, <1>a, MinimalSet
<1> USE DEF B
<1>3. U # {}
  BY SumEmpty
<1> DEFINE W == U \ {First(U)}
<1>4. W \subseteq U /\ W # U /\ First(U) \in S /\ W \in SUBSET S /\ IsFiniteSet(U)
  BY <1>2, <1>3, FirstIn, FS_Subset
<1>5. SumFunctionOnSet(F, W) = 0
  BY <1>2, <1>4
<1>6. SumFunctionOnSet(F, U) = F[First(U)] + SumFunctionOnSet(F, W)
  BY <1>3, <1>4, SumFirst
<1>7. QED  BY <1>2, <1>4, <1>5, <1>6

\* One value changes.
LEMMA SumChange ==
  ASSUME NEW S, IsFiniteSet(S), NEW F, NEW G, NEW e \in S,
         \A x \in S : F[x] \in Int, G[e] \in Int,
         \A x \in S \ {e} : G[x] = F[x]
  PROVE  SumFunctionOnSet(G, S) = SumFunctionOnSet(F, S) + G[e] - F[e]
<1>1. PICK W : W = S \ {e}
  OBVIOUS
<1>2. IsFiniteSet(W) /\ (\A x \in W : F[x] \in Int) /\ (\A x \in S : G[x] \in Int)
  BY <1>1, FS_RemoveElement
<1>3. SumFunctionOnSet(F, W) = SumFunctionOnSet(G, W) /\ SumFunctionOnSet(F, W) \in Int
  BY <1>1, <1>2, SumSame, SumInt
<1>4. SumFunctionOnSet(F, S) = F[e] + SumFunctionOnSet(F, W)
  BY <1>1, SumRemove
<1>5. SumFunctionOnSet(G, S) = G[e] + SumFunctionOnSet(G, W)
  BY <1>1, <1>2, SumRemove
<1>6. QED  BY <1>3, <1>4, <1>5

\* Two values change.
DifferAt(F, G, S, e, f) ==
  \A x \in S : F[x] \in Int /\ G[x] \in Int /\ (x # e /\ x # f => G[x] = F[x])

LEMMA SumChangeTwo ==
  ASSUME NEW S, IsFiniteSet(S), NEW F, NEW G, NEW e, NEW f,
         e \in S, f \in S, e # f,
         DifferAt(F, G, S, e, f)
  PROVE  SumFunctionOnSet(G, S) = SumFunctionOnSet(F, S) + (G[e] - F[e]) + (G[f] - F[f])
<1> DEFINE H == [x \in S |-> IF x = e THEN G[x] ELSE F[x]]
<1>1. /\ H[e] = G[e] /\ H[f] = F[f]
      /\ \A x \in S : H[x] \in Int
      /\ \A x \in S \ {e} : H[x] = F[x]
      /\ \A x \in S \ {f} : G[x] = H[x]
  BY DEF DifferAt
<1> HIDE DEF H
<1>2. /\ \A x \in S : F[x] \in Int
      /\ F[e] \in Int /\ G[e] \in Int /\ F[f] \in Int /\ G[f] \in Int
  BY DEF DifferAt
<1>3. SumFunctionOnSet(H, S) = SumFunctionOnSet(F, S) + H[e] - F[e]
  BY <1>1, <1>2, SumChange
<1>4. SumFunctionOnSet(G, S) = SumFunctionOnSet(H, S) + G[f] - H[f]
  BY <1>1, <1>2, SumChange
<1>5. SumFunctionOnSet(F, S) \in Int
  BY <1>2, SumInt
<1> QED
  BY <1>1, <1>2, <1>3, <1>4, <1>5

\* Sums are added value by value.
LEMMA SumPlus ==
  ASSUME NEW S, IsFiniteSet(S), NEW F, NEW G, NEW H,
         \A x \in S : F[x] \in Int /\ G[x] \in Int /\ H[x] = F[x] + G[x]
  PROVE  SumFunctionOnSet(H, S) = SumFunctionOnSet(F, S) + SumFunctionOnSet(G, S)
<1> DEFINE B == {T \in SUBSET S :
                   SumFunctionOnSet(H, T) # SumFunctionOnSet(F, T) + SumFunctionOnSet(G, T)}
<1>1. SUFFICES ASSUME B # {} PROVE FALSE
  BY S \in SUBSET S
<1>a. B \in SUBSET SUBSET S
  OBVIOUS
<1> HIDE DEF B
<1>2. PICK U \in B : \A V \in B : V \subseteq U => V = U
  BY <1>1, <1>a, MinimalSet
<1> USE DEF B
<1>3. U # {}
  <2>1. SUFFICES ASSUME U = {} PROVE FALSE
    OBVIOUS
  <2>2. SumFunctionOnSet(F, U) = 0 /\ SumFunctionOnSet(G, U) = 0 /\ SumFunctionOnSet(H, U) = 0
    BY <2>1, SumEmpty
  <2>3. SumFunctionOnSet(H, U) # SumFunctionOnSet(F, U) + SumFunctionOnSet(G, U)
    OBVIOUS
  <2> HIDE DEF B
  <2>4. QED  BY <2>2, <2>3
<1>b. PICK x : x = First(U)
  OBVIOUS
<1>c. PICK W : W = U \ {x}
  OBVIOUS
<1>4. x \in U /\ W \subseteq U /\ W # U /\ x \in S /\ W \in SUBSET S /\ IsFiniteSet(U) /\ IsFiniteSet(W)
  BY <1>2, <1>3, <1>b, <1>c, FirstIn, FS_Subset
<1>5. SumFunctionOnSet(H, W) = SumFunctionOnSet(F, W) + SumFunctionOnSet(G, W)
  BY <1>2, <1>4
<1>6. SumFunctionOnSet(H, U) = H[x] + SumFunctionOnSet(H, W)
  BY <1>3, <1>4, <1>b, <1>c, SumFirst
<1>7. SumFunctionOnSet(F, U) = F[x] + SumFunctionOnSet(F, W)
  BY <1>3, <1>4, <1>b, <1>c, SumFirst
<1>8. SumFunctionOnSet(G, U) = G[x] + SumFunctionOnSet(G, W)
  BY <1>3, <1>4, <1>b, <1>c, SumFirst
<1>9. SumFunctionOnSet(F, W) \in Int /\ SumFunctionOnSet(G, W) \in Int
  BY <1>4, SumInt
<1>10. F[x] \in Int /\ G[x] \in Int /\ H[x] = F[x] + G[x]
  BY <1>4
<1> HIDE DEF B
<1>11. SumFunctionOnSet(H, U) = SumFunctionOnSet(F, U) + SumFunctionOnSet(G, U)
  BY <1>5, <1>6, <1>7, <1>8, <1>9, <1>10
<1>12. QED  BY <1>2, <1>11 DEF B

\* Leaving out what is nothing.
LEMMA SumExtend ==
  ASSUME NEW S, IsFiniteSet(S), NEW T \in SUBSET S, NEW F, NEW G,
         \A x \in T : F[x] \in Int,
         \A x \in S : G[x] = IF x \in T THEN F[x] ELSE 0
  PROVE  SumFunctionOnSet(G, S) = SumFunctionOnSet(F, T)
<1>1. PICK R : R = S \ T
  OBVIOUS
<1>2. IsFiniteSet(T) /\ IsFiniteSet(R) /\ S = T \cup R /\ T \cap R = {}
  BY <1>1, FS_Subset, FS_Difference
<1>3. SumFunctionOnSet(G, T \cup R) = SumFunctionOnSet(G, T) + SumFunctionOnSet(G, R)
  <2>1. \A x \in T \cup R : G[x] \in Int
    BY <1>1
  <2>2. QED  BY <2>1, <1>2, SumUnion
<1>4. SumFunctionOnSet(G, T) = SumFunctionOnSet(F, T)
  BY <1>2, SumSame
<1>5. SumFunctionOnSet(G, R) = 0
  BY <1>1, <1>2, SumZero
<1>6. SumFunctionOnSet(F, T) \in Int
  BY <1>2, SumInt
<1>7. QED  BY <1>2, <1>3, <1>4, <1>5, <1>6

LEMMA SumMonotone ==
  ASSUME NEW S, IsFiniteSet(S), NEW F, NEW G,
         \A x \in S : F[x] \in Int /\ G[x] \in Int /\ F[x] <= G[x]
  PROVE  SumFunctionOnSet(F, S) <= SumFunctionOnSet(G, S)
<1> DEFINE D == [x \in S |-> G[x] - F[x]]
<1>1. \A x \in S : D[x] \in Nat /\ D[x] \in Int /\ G[x] = F[x] + D[x]
  OBVIOUS
<1> HIDE DEF D
<1>2. SumFunctionOnSet(G, S) = SumFunctionOnSet(F, S) + SumFunctionOnSet(D, S)
  BY <1>1, SumPlus
<1>3. SumFunctionOnSet(D, S) \in Nat
  BY <1>1, SumNat
<1>4. SumFunctionOnSet(F, S) \in Int
  BY SumInt
<1>5. QED  BY <1>2, <1>3, <1>4

\* One member with a value, or none.
LEMMA SumPoint ==
  ASSUME NEW S, IsFiniteSet(S), NEW y, NEW n \in Int
  PROVE  SumFunctionOnSet([x \in S |-> IF x = y THEN n ELSE 0], S) = IF y \in S THEN n ELSE 0
<1> DEFINE F == [x \in S |-> IF x = y THEN n ELSE 0]
           Z == [x \in S |-> 0]
<1>1. CASE y \in S
  <2>1. /\ \A x \in S : Z[x] \in Int
        /\ \A x \in S \ {y} : F[x] = Z[x]
        /\ F[y] = n /\ Z[y] = 0
    BY <1>1
  <2>2. SumFunctionOnSet(Z, S) = 0
    BY SumZero
  <2> HIDE DEF F, Z
  <2>3. SumFunctionOnSet(F, S) = SumFunctionOnSet(Z, S) + F[y] - Z[y]
    BY <1>1, <2>1, SumChange
  <2>4. QED  BY <1>1, <2>1, <2>2, <2>3 DEF F
<1>2. CASE y \notin S
  <2>1. \A x \in S : F[x] = 0
    BY <1>2
  <2> HIDE DEF F
  <2>2. SumFunctionOnSet(F, S) = 0
    BY <2>1, SumZero
  <2>3. QED  BY <1>2, <2>2 DEF F
<1>3. QED  BY <1>1, <1>2

\* n goes from x to y, and is lost if y is no place.
LEMMA SumMove ==
  ASSUME NEW S, IsFiniteSet(S), NEW F, \A z \in S : F[z] \in Int,
         NEW x \in S, NEW y, NEW n \in Nat
  PROVE  SumFunctionOnSet([z \in S |-> F[z] + (IF z = y THEN n ELSE 0)
                                            - (IF z = x THEN n ELSE 0)], S)
           <= SumFunctionOnSet(F, S)
<1> DEFINE P == [z \in S |-> IF z = y THEN n ELSE 0]
           M == [z \in S |-> IF z = x THEN -n ELSE 0]
           A == [z \in S |-> F[z] + P[z]]
           G == [z \in S |-> F[z] + (IF z = y THEN n ELSE 0) - (IF z = x THEN n ELSE 0)]
<1>1. \A z \in S : /\ P[z] \in Int /\ M[z] \in Int /\ A[z] \in Int
                   /\ A[z] = F[z] + P[z] /\ G[z] = A[z] + M[z]
  OBVIOUS
<1>2. n \in Int /\ -n \in Int
  OBVIOUS
<1>3. SumFunctionOnSet(P, S) = IF y \in S THEN n ELSE 0
  BY <1>2, SumPoint
<1>4. SumFunctionOnSet(M, S) = -n
  BY <1>2, SumPoint
<1> HIDE DEF P, M, A, G
<1>5. SumFunctionOnSet(A, S) = SumFunctionOnSet(F, S) + SumFunctionOnSet(P, S)
  BY <1>1, SumPlus
<1>6. SumFunctionOnSet(G, S) = SumFunctionOnSet(A, S) + SumFunctionOnSet(M, S)
  BY <1>1, SumPlus
<1>7. SumFunctionOnSet(F, S) \in Int
  BY SumInt
<1>8. SumFunctionOnSet(G, S) <= SumFunctionOnSet(F, S)
  BY <1>3, <1>4, <1>5, <1>6, <1>7
<1>9. QED  BY <1>8 DEF G

\* Three such moves at once, and some may be lost.
Moves(F, G, S, a, u, l, b, v, m, c, w, n) ==
  \A z \in S : G[z] <= F[z] + (IF z = u THEN l ELSE 0) - (IF z = a THEN l ELSE 0)
                            + (IF z = v THEN m ELSE 0) - (IF z = b THEN m ELSE 0)
                            + (IF z = w THEN n ELSE 0) - (IF z = c THEN n ELSE 0)

LEMMA SumMoves ==
  ASSUME NEW S, IsFiniteSet(S), NEW F, NEW G, \A z \in S : F[z] \in Int /\ G[z] \in Int,
         NEW a \in S, NEW b \in S, NEW c \in S, NEW u, NEW v, NEW w,
         NEW l \in Nat, NEW m \in Nat, NEW n \in Nat,
         Moves(F, G, S, a, u, l, b, v, m, c, w, n)
  PROVE  SumFunctionOnSet(G, S) <= SumFunctionOnSet(F, S)
<1> DEFINE A == [z \in S |-> F[z] + (IF z = u THEN l ELSE 0) - (IF z = a THEN l ELSE 0)]
           B == [z \in S |-> A[z] + (IF z = v THEN m ELSE 0) - (IF z = b THEN m ELSE 0)]
           C == [z \in S |-> B[z] + (IF z = w THEN n ELSE 0) - (IF z = c THEN n ELSE 0)]
<1>1. \A z \in S : A[z] \in Int /\ B[z] \in Int /\ C[z] \in Int /\ G[z] <= C[z]
  BY DEF Moves
<1>2. SumFunctionOnSet(A, S) <= SumFunctionOnSet(F, S)
  BY SumMove
<1> HIDE DEF A
<1>3. SumFunctionOnSet(B, S) <= SumFunctionOnSet(A, S)
  BY <1>1, SumMove
<1> HIDE DEF B
<1>4. SumFunctionOnSet(C, S) <= SumFunctionOnSet(B, S)
  BY <1>1, SumMove
<1> HIDE DEF C
<1>5. SumFunctionOnSet(G, S) <= SumFunctionOnSet(C, S)
  BY <1>1, SumMonotone
<1>6. /\ SumFunctionOnSet(F, S) \in Int /\ SumFunctionOnSet(A, S) \in Int
      /\ SumFunctionOnSet(B, S) \in Int /\ SumFunctionOnSet(C, S) \in Int
      /\ SumFunctionOnSet(G, S) \in Int
  BY <1>1, SumInt
<1>7. QED  BY <1>2, <1>3, <1>4, <1>5, <1>6

\* A set with as many members as the sum of one each.
LEMMA SumOnes ==
  ASSUME NEW S, IsFiniteSet(S), NEW F, \A x \in S : F[x] = 1
  PROVE  SumFunctionOnSet(F, S) = Cardinality(S)
<1> DEFINE B == {T \in SUBSET S : SumFunctionOnSet(F, T) # Cardinality(T)}
<1>1. SUFFICES ASSUME B # {} PROVE FALSE
  BY S \in SUBSET S
<1>a. B \in SUBSET SUBSET S
  OBVIOUS
<1> HIDE DEF B
<1>2. PICK U \in B : \A V \in B : V \subseteq U => V = U
  BY <1>1, <1>a, MinimalSet
<1>3. U # {}
  <2>1. SUFFICES ASSUME U = {} PROVE FALSE
    OBVIOUS
  <2>2. SumFunctionOnSet(F, U) = 0 /\ Cardinality(U) = 0
    BY <2>1, SumEmpty, FS_EmptySet
  <2>3. QED  BY <1>2, <2>2 DEF B
<1>b. PICK x : x = First(U)
  OBVIOUS
<1>c. PICK W : W = U \ {x}
  OBVIOUS
<1>4. x \in U /\ W \subseteq U /\ W # U /\ x \in S /\ W \in SUBSET S /\ IsFiniteSet(U)
  BY <1>a, <1>2, <1>3, <1>b, <1>c, FirstIn, FS_Subset
<1>5. SumFunctionOnSet(F, W) = Cardinality(W)
  BY <1>2, <1>4 DEF B
<1>6. SumFunctionOnSet(F, U) = F[x] + SumFunctionOnSet(F, W)
  BY <1>3, <1>4, <1>b, <1>c, SumFirst
<1>7. Cardinality(W) = Cardinality(U) - 1 /\ Cardinality(U) \in Nat
  BY <1>4, <1>c, FS_RemoveElement, FS_CardinalityType
<1>8. SumFunctionOnSet(F, U) = Cardinality(U)
  BY <1>4, <1>5, <1>6, <1>7
<1>9. QED  BY <1>2, <1>8 DEF B

\* The parts of a set, counted apart: D gives each member of T its part.
Parts(D, T, S) ==
  /\ \A t \in T : D[t] \subseteq S
  /\ \A t, u \in T : t # u => D[t] \cap D[u] = {}

LEMMA SumParts ==
  ASSUME NEW S, IsFiniteSet(S), NEW T, IsFiniteSet(T), NEW F, \A x \in S : F[x] \in Int,
         NEW D, Parts(D, T, S), NEW G, \A t \in T : G[t] = SumFunctionOnSet(F, D[t])
  PROVE  SumFunctionOnSet(G, T) = SumFunctionOnSet(F, UNION {D[t] : t \in T})
<1> DEFINE All(R) == UNION {D[t] : t \in R}
           B == {R \in SUBSET T : SumFunctionOnSet(G, R) # SumFunctionOnSet(F, All(R))}
<1>1. SUFFICES ASSUME B # {} PROVE FALSE
  BY T \in SUBSET T
<1>2. B \in SUBSET SUBSET T
  OBVIOUS
<1> HIDE DEF B
<1>3. PICK R \in B : \A V \in B : V \subseteq R => V = R
  BY <1>1, <1>2, MinimalSet
<1> USE DEF B
<1>4. R \in SUBSET T /\ IsFiniteSet(R)
  BY FS_Subset
<1>5. R # {}
  <2>1. SumFunctionOnSet(G, {}) = 0 /\ SumFunctionOnSet(F, {}) = 0
    BY SumEmpty
  <2>2. All({}) = {}
    OBVIOUS
  <2> QED
    BY <1>3, <2>1, <2>2
<1>6. PICK e : e \in R
  BY <1>5
<1> DEFINE W == R \ {e}
<1>7. SumFunctionOnSet(G, W) = SumFunctionOnSet(F, All(W))
  <2>1. W \in SUBSET T /\ W \subseteq R /\ W # R
    BY <1>4, <1>6
  <2> QED
    BY <1>3, <2>1
<1>8. /\ D[e] \subseteq S /\ All(W) \subseteq S /\ D[e] \cap All(W) = {}
      /\ All(R) = D[e] \cup All(W)
  BY <1>4, <1>6 DEF Parts
<1>9. \A t \in R : G[t] \in Int
  <2> SUFFICES ASSUME NEW t \in R PROVE G[t] \in Int
    OBVIOUS
  <2>1. D[t] \subseteq S /\ G[t] = SumFunctionOnSet(F, D[t])
    BY <1>4 DEF Parts
  <2>2. IsFiniteSet(D[t]) /\ \A x \in D[t] : F[x] \in Int
    BY <2>1, FS_Subset
  <2> QED
    BY <2>1, <2>2, SumInt
<1> HIDE DEF B, All
<1>10. SumFunctionOnSet(G, R) = G[e] + SumFunctionOnSet(G, W)
  BY <1>4, <1>6, <1>9, SumRemove
<1>11. IsFiniteSet(D[e]) /\ IsFiniteSet(All(W)) /\ \A x \in D[e] \cup All(W) : F[x] \in Int
  BY <1>8, FS_Subset
<1>12. SumFunctionOnSet(F, D[e] \cup All(W)) = SumFunctionOnSet(F, D[e]) + SumFunctionOnSet(F, All(W))
  BY <1>8, <1>11, SumUnion
<1>13. G[e] = SumFunctionOnSet(F, D[e])
  BY <1>4, <1>6
<1>14. SumFunctionOnSet(G, R) = SumFunctionOnSet(F, All(R))
  BY <1>7, <1>8, <1>10, <1>12, <1>13
<1> QED
  BY <1>3, <1>14 DEF B

\* A set of numbers has a least one.
LEMMA Least ==
  ASSUME NEW n \in Nat, NEW B \in SUBSET (0..n), B # {}
  PROVE  \E k \in B : \A j \in B : k <= j
<1> DEFINE T == {0..k : k \in B}
<1>1. IsFiniteSet(0..n)
  BY FS_Interval
<1> DEFINE N == 0..n
<1>2. T \in SUBSET SUBSET N /\ T # {}
  <2>1. \A k \in B : 0..k \subseteq N
    OBVIOUS
  <2> HIDE DEF N
  <2>2. QED  BY <2>1
<1>3. PICK U \in T : \A V \in T : V \subseteq U => V = U
  <2>1. IsFiniteSet(N)
    BY <1>1
  <2> HIDE DEF T, N
  <2>2. QED  BY <2>1, <1>2, MinimalSet
<1>4. PICK k \in B : U = 0..k
  OBVIOUS
<1>5. ASSUME NEW j \in B, ~(k <= j)
      PROVE  FALSE
  <2>1. 0..j \subseteq U
    BY <1>4, <1>5
  <2>2. 0..j = 0..k
    BY <2>1, <1>3, <1>4
  <2>3. k \in 0..k /\ k \notin 0..j
    BY <1>5
  <2>4. QED  BY <2>2, <2>3
<1>6. QED  BY <1>5

\* A sum over numbers, one more at a time.
LEMMA SumNext ==
  ASSUME NEW k \in Nat \ {0}, NEW F, \A j \in 1..k : F[j] \in Int
  PROVE  SumFunctionOnSet(F, 1..k) = SumFunctionOnSet(F, 1..(k - 1)) + F[k]
<1>1. PICK S : S = 1..(k - 1)
  OBVIOUS
<1>2. IsFiniteSet(S) /\ k \notin S /\ 1..k = S \cup {k} /\ F[k] \in Int
  BY <1>1, FS_Interval
<1>3. \A j \in S : F[j] \in Int
  BY <1>1
<1>4. SumFunctionOnSet(F, S \cup {k}) = SumFunctionOnSet(F, S) + F[k]
  BY <1>2, <1>3, SumAdd
<1>5. QED  BY <1>1, <1>2, <1>4

\* The places behind m move up by one when m goes.
Behind(m, k) == IF k < m THEN k ELSE k + 1

\* A number put in between, at place m, is added to the sum.
LEMMA SumInsert ==
  ASSUME NEW n \in Nat, NEW m \in 1..(n + 1), NEW F, NEW G,
         \A k \in 1..(n + 1) : G[k] \in Int,
         \A k \in 1..n : F[k] = G[Behind(m, k)]
  PROVE  SumFunctionOnSet(G, 1..(n + 1)) = SumFunctionOnSet(F, 1..n) + G[m]
<1> DEFINE Up(H, j) == SumFunctionOnSet(H, 1..j)
           B == {j \in (m - 1)..n : Up(G, j + 1) # Up(F, j) + G[m]}
<1>1. SUFFICES ASSUME B # {} PROVE FALSE
  OBVIOUS
<1>2. PICK j \in B : \A i \in B : j <= i
  <2>1. B \in SUBSET (0..n)
    OBVIOUS
  <2> HIDE DEF B
  <2>2. QED  BY <2>1, <1>1, Least
<1>3. j \in Nat /\ m - 1 <= j /\ j <= n /\ Up(G, j + 1) # Up(F, j) + G[m]
  OBVIOUS
<1>4. j # m - 1 => Up(G, j) = Up(F, j - 1) + G[m]
  <2>1. j # m - 1 => j - 1 \notin B /\ j - 1 \in (m - 1)..n /\ (j - 1) + 1 = j
    BY <1>2, <1>3
  <2>2. QED  BY <2>1
<1>5. \A k \in 1..n : F[k] \in Int
  BY DEF Behind
<1> HIDE DEF B
<1>6. Up(G, j + 1) = Up(G, j) + G[j + 1]
  <2>1. j + 1 \in Nat \ {0} /\ (j + 1) - 1 = j /\ \A k \in 1..(j + 1) : G[k] \in Int
    BY <1>3
  <2>2. Up(G, j + 1) = Up(G, (j + 1) - 1) + G[j + 1]
    BY <2>1, SumNext
  <2>3. QED  BY <2>1, <2>2
<1>7. CASE j = m - 1
  <2>1. PICK S : S = 1..j
    OBVIOUS
  <2>0. j \in Nat /\ j <= n
    BY <1>3
  <2>a. \A k \in 1..j : k \in 1..n /\ Behind(m, k) = k
    BY <2>0, <1>7 DEF Behind
  <2>2. IsFiniteSet(S) /\ \A k \in S : F[k] = G[k]
    BY <2>0, <2>1, <2>a, FS_Interval
  <2>3. Up(F, j) = Up(G, j)
    BY <2>1, <2>2, SumSame
  <2>4. QED  BY <2>3, <1>3, <1>6, <1>7
<1>8. CASE j # m - 1
  <2>1. j \in Nat \ {0} /\ (\A k \in 1..j : F[k] \in Int) /\ F[j] = G[j + 1]
    BY <1>3, <1>5, <1>8 DEF Behind
  <2>2. Up(F, j) = Up(F, j - 1) + F[j]
    BY <2>1, SumNext
  <2>3. Up(F, j - 1) \in Int
    <3>1. PICK S : S = 1..(j - 1)
      OBVIOUS
    <3>2. IsFiniteSet(S) /\ \A k \in S : F[k] \in Int
      BY <3>1, <2>1, FS_Interval
    <3>3. QED  BY <3>1, <3>2, SumInt
  <2>4. F[j] \in Int /\ G[m] \in Int
    BY <2>1, <1>3
  <2> HIDE DEF Up
  <2>5. Up(G, j + 1) = (Up(F, j - 1) + G[m]) + F[j]
    BY <1>4, <1>6, <1>8, <2>1
  <2>6. Up(F, j) + G[m] = (Up(F, j - 1) + F[j]) + G[m]
    BY <2>2
  <2>7. QED  BY <1>3, <2>3, <2>4, <2>5, <2>6
<1>9. QED  BY <1>7, <1>8

=============================================================================
