---------------------------- MODULE SumTheorems ----------------------------
(***************************************************************************)
(* Sums over finite sets (SumFunctionOnSet of module Functions), for the   *)
(* books of the components: a sum is a number, has the same value whatever *)
(* order its terms are taken in, and changes by what one term changes.     *)
(*                                                                         *)
(* The fold is a recursive function on subsets.  It exists and is unique   *)
(* by induction on the size of the set (SumsExist, SumsAgree).  Each       *)
(* induction is by contradiction, from a counterexample of the least size  *)
(* (SmallestSet), which needs no theorem with an operator for a parameter. *)
(***************************************************************************)
EXTENDS Integers, FiniteSets, Functions, FiniteSetTheorems, WellFoundedInduction, TLAPS

-----------------------------------------------------------------------------
(* Induction over the size of a set, as a least counterexample *)

\* A set of numbers that is not empty has a least one.
LEMMA LeastNumber ==
  ASSUME NEW N \in SUBSET Nat, N # {} PROVE \E n \in N : \A m \in N : ~(m < n)
<1>1. PICK n \in N : \A m \in N : ~(<<m, n>> \in OpToRel(<, Nat))
  BY NatLessThanWellFounded, WFMin
<1>2. ASSUME NEW m \in N, m < n PROVE FALSE
  BY <1>1, <1>2 DEF OpToRel
<1> QED BY <1>1, <1>2

\* So has a set of finite sets one of the least size.
LEMMA SmallestSet ==
  ASSUME NEW F, F # {}, \A S \in F : IsFiniteSet(S)
  PROVE  \E S \in F : \A T \in F : ~(Cardinality(T) < Cardinality(S))
<1> DEFINE N == {Cardinality(S) : S \in F}
<1>1. N \in SUBSET Nat /\ N # {}
  BY FS_CardinalityType
<1>2. PICK n \in N : \A m \in N : ~(m < n)
  <2> HIDE DEF N
  <2> QED BY <1>1, LeastNumber
<1> QED BY <1>2

-----------------------------------------------------------------------------
(* The recursion of a sum *)

Picked(T) == CHOOSE x \in T : TRUE
Rest(T) == T \ {Picked(T)}
IsSums(g, f, S) == g = [T \in SUBSET S |-> IF T = {} THEN 0 ELSE f[Picked(T)] + g[Rest(T)]]
Sums(f, S) == CHOOSE g : IsSums(g, f, S)

\* The fold of the library is this recursion.
LEMMA SumIsSums == ASSUME NEW f, NEW S PROVE SumFunctionOnSet(f, S) = Sums(f, S)[S]
BY DEF SumFunctionOnSet, FoldFunctionOnSet, MapThenFoldSet, Sums, IsSums, Picked, Rest

\* Every step takes one element out.
LEMMA RestIsSmaller ==
  ASSUME NEW T, IsFiniteSet(T), T # {}
  PROVE  /\ Picked(T) \in T /\ Rest(T) \subseteq T /\ Rest(T) # T
         /\ IsFiniteSet(Rest(T)) /\ Cardinality(Rest(T)) < Cardinality(T)
<1>1. Picked(T) \in T
  BY DEF Picked
<1>2. IsFiniteSet(Rest(T)) /\ Cardinality(Rest(T)) = Cardinality(T) - 1
  BY <1>1, FS_RemoveElement DEF Rest
<1>3. Cardinality(T) \in Nat
  BY FS_CardinalityType
<1> QED BY <1>1, <1>2, <1>3 DEF Rest

\* Two solutions of the recursion are the same where both are defined.
LEMMA SumsAgree ==
  ASSUME NEW f, NEW U, NEW V, NEW g, NEW h, IsFiniteSet(U), IsSums(g, f, U), IsSums(h, f, V)
  PROVE  \A T \in SUBSET U : T \in SUBSET V => g[T] = h[T]
<1> DEFINE F == {T \in SUBSET U : T \in SUBSET V /\ g[T] # h[T]}
<1> SUFFICES ASSUME F # {} PROVE FALSE
  OBVIOUS
<1>1. \A T \in F : IsFiniteSet(T)
  BY FS_Subset
<1>2. PICK S \in F : \A T \in F : ~(Cardinality(T) < Cardinality(S))
  <2> HIDE DEF F
  <2> QED BY <1>1, SmallestSet
<1>3. g[S] = (IF S = {} THEN 0 ELSE f[Picked(S)] + g[Rest(S)]) /\ h[S] = (IF S = {} THEN 0 ELSE f[Picked(S)] + h[Rest(S)])
  BY DEF IsSums
<1>4. S # {}
  BY <1>3
<1>5. Rest(S) \in SUBSET U /\ Rest(S) \in SUBSET V /\ Cardinality(Rest(S)) < Cardinality(S)
  BY <1>1, <1>4, RestIsSmaller
<1>6. g[Rest(S)] = h[Rest(S)]
  BY <1>2, <1>5
<1> QED BY <1>3, <1>4, <1>6

\* There is a solution: each part is defined by the parts below it.
LEMMA SumsExist ==
  ASSUME NEW f, NEW V, IsFiniteSet(V) PROVE \E g : IsSums(g, f, V)
<1> DEFINE F == {S \in SUBSET V : ~\E g : IsSums(g, f, S)}
<1> SUFFICES ASSUME F # {} PROVE FALSE
  OBVIOUS
<1>1. \A T \in F : IsFiniteSet(T)
  BY FS_Subset
<1>2. PICK S \in F : \A T \in F : ~(Cardinality(T) < Cardinality(S))
  <2> HIDE DEF F
  <2> QED BY <1>1, SmallestSet
<1>3. \A T \in SUBSET S : T # S => IsSums(Sums(f, T), f, T)
  <2>1. TAKE T \in SUBSET S
  <2>2. HAVE T # S
  <2>3. Cardinality(T) < Cardinality(S)
    BY <1>1, <2>2, FS_Subset, FS_CardinalityType
  <2>4. \E g : IsSums(g, f, T)
    BY <1>2, <2>3
  <2> QED BY <2>4 DEF Sums
<1> DEFINE before(T) == Sums(f, T)[T]
           g == [T \in SUBSET S |-> IF T = {} THEN 0 ELSE f[Picked(T)] + before(Rest(T))]
<1>4. ASSUME NEW T \in SUBSET S, T # {} PROVE g[Rest(T)] = before(Rest(T))
  <2>1. IsFiniteSet(T)
    BY <1>1, FS_Subset
  <2>2. Rest(T) \in SUBSET S /\ Rest(T) # S /\ IsFiniteSet(Rest(T))
    BY <1>4, <2>1, RestIsSmaller
  <2>3. CASE Rest(T) = {}
    <3>1. IsSums(Sums(f, Rest(T)), f, Rest(T)) /\ Rest(T) \in SUBSET Rest(T)
      BY <1>3, <2>2
    <3>2. before(Rest(T)) = 0
      BY <2>3, <3>1 DEF IsSums
    <3> QED BY <2>2, <2>3, <3>2
  <2>4. CASE Rest(T) # {}
    <3> DEFINE R == Rest(T)
    <3>1. IsSums(Sums(f, R), f, R) /\ R \in SUBSET R
      BY <1>3, <2>2
    <3>2. before(R) = f[Picked(R)] + Sums(f, R)[Rest(R)]
      BY <2>4, <3>1 DEF IsSums
    <3>3. Rest(R) \in SUBSET R /\ Rest(R) # S /\ Rest(R) \in SUBSET S
      BY <2>2, <2>4, RestIsSmaller
    <3>4. IsSums(Sums(f, Rest(R)), f, Rest(R)) /\ Rest(R) \in SUBSET Rest(R)
      BY <1>3, <3>3
    <3>5. Sums(f, R)[Rest(R)] = Sums(f, Rest(R))[Rest(R)]
      BY <2>2, <3>1, <3>3, <3>4, SumsAgree
    <3>6. g[R] = f[Picked(R)] + before(Rest(R))
      BY <2>2, <2>4
    <3> QED BY <3>2, <3>5, <3>6
  <2> QED BY <2>3, <2>4
<1>5. IsSums(g, f, S)
  BY <1>4 DEF IsSums
<1> QED BY <1>2, <1>5

\* The sum of nothing is 0, any other the picked term and the rest.
LEMMA SumsOf ==
  ASSUME NEW f, NEW S, IsFiniteSet(S)
  PROVE  /\ S = {} => SumFunctionOnSet(f, S) = 0
         /\ S # {} => SumFunctionOnSet(f, S) = f[Picked(S)] + SumFunctionOnSet(f, Rest(S))
<1>1. IsSums(Sums(f, S), f, S) /\ S \in SUBSET S
  BY SumsExist DEF Sums
<1>2. CASE S = {}
  BY <1>1, <1>2, SumIsSums DEF IsSums
<1>3. CASE S # {}
  <2>1. IsFiniteSet(Rest(S)) /\ Rest(S) \in SUBSET S /\ Rest(S) \in SUBSET Rest(S)
    BY <1>3, RestIsSmaller
  <2>2. IsSums(Sums(f, Rest(S)), f, Rest(S))
    BY <2>1, SumsExist DEF Sums
  <2>3. Sums(f, S)[Rest(S)] = Sums(f, Rest(S))[Rest(S)]
    BY <1>1, <2>1, <2>2, SumsAgree
  <2>4. Sums(f, S)[S] = f[Picked(S)] + Sums(f, S)[Rest(S)]
    BY <1>1, <1>3 DEF IsSums
  <2> QED BY <1>3, <2>3, <2>4, SumIsSums
<1> QED BY <1>2, <1>3

-----------------------------------------------------------------------------
(* What the components need of sums *)

\* A sum of integers is an integer, one of naturals a natural.
THEOREM SumType ==
  ASSUME NEW f, NEW V, IsFiniteSet(V)
  PROVE  /\ (\A x \in V : f[x] \in Int) => SumFunctionOnSet(f, V) \in Int
         /\ (\A x \in V : f[x] \in Nat) => SumFunctionOnSet(f, V) \in Nat
<1>1. ASSUME NEW N, N \in {Int, Nat}, \A x \in V : f[x] \in N PROVE SumFunctionOnSet(f, V) \in N
  <2> DEFINE F == {S \in SUBSET V : SumFunctionOnSet(f, S) \notin N}
  <2> SUFFICES ASSUME F # {} PROVE FALSE
    OBVIOUS
  <2>1. \A T \in F : IsFiniteSet(T)
    BY FS_Subset
  <2>2. PICK S \in F : \A T \in F : ~(Cardinality(T) < Cardinality(S))
    <3> HIDE DEF F
    <3> QED BY <2>1, SmallestSet
  <2>3. S # {}
    <3>1. 0 \in N
      BY <1>1
    <3> QED BY <2>1, <3>1, SumsOf
  <2>4. Picked(S) \in S /\ Rest(S) \in SUBSET V /\ Cardinality(Rest(S)) < Cardinality(S)
    BY <2>1, <2>3, RestIsSmaller
  <2>5. SumFunctionOnSet(f, Rest(S)) \in N
    BY <2>2, <2>4
  <2>6. f[Picked(S)] \in N
    BY <1>1, <2>4
  <2>7. SumFunctionOnSet(f, S) = f[Picked(S)] + SumFunctionOnSet(f, Rest(S))
    BY <2>1, <2>3, SumsOf
  <2> HIDE DEF F
  <2>8. SumFunctionOnSet(f, S) \in N
    <3>1. \A a, b \in N : a + b \in N
      BY <1>1
    <3> QED BY <2>5, <2>6, <2>7, <3>1
  <2> QED BY <2>2, <2>8 DEF F
<1> QED BY <1>1

\* Functions that agree on a set have the same sum over it.
THEOREM SumSame ==
  ASSUME NEW f, NEW g, NEW V, IsFiniteSet(V), \A x \in V : f[x] = g[x]
  PROVE  SumFunctionOnSet(f, V) = SumFunctionOnSet(g, V)
<1> DEFINE F == {S \in SUBSET V : SumFunctionOnSet(f, S) # SumFunctionOnSet(g, S)}
<1> SUFFICES ASSUME F # {} PROVE FALSE
  OBVIOUS
<1>1. \A T \in F : IsFiniteSet(T)
  BY FS_Subset
<1>2. PICK S \in F : \A T \in F : ~(Cardinality(T) < Cardinality(S))
  <2> HIDE DEF F
  <2> QED BY <1>1, SmallestSet
<1>3. S # {}
  BY <1>1, SumsOf
<1>4. Picked(S) \in V /\ Rest(S) \in SUBSET V /\ Cardinality(Rest(S)) < Cardinality(S)
  BY <1>1, <1>3, RestIsSmaller
<1>5. SumFunctionOnSet(f, Rest(S)) = SumFunctionOnSet(g, Rest(S))
  BY <1>2, <1>4
<1>6. /\ SumFunctionOnSet(f, S) = f[Picked(S)] + SumFunctionOnSet(f, Rest(S))
      /\ SumFunctionOnSet(g, S) = g[Picked(S)] + SumFunctionOnSet(g, Rest(S))
  BY <1>1, <1>3, SumsOf
<1> QED BY <1>2, <1>4, <1>5, <1>6

\* One element more: whichever is taken out, the rest is the sum of the others.
THEOREM SumRemove ==
  ASSUME NEW f, NEW V, IsFiniteSet(V), \A x \in V : f[x] \in Int, NEW x \in V
  PROVE  SumFunctionOnSet(f, V) = f[x] + SumFunctionOnSet(f, V \ {x})
<1> DEFINE F == {S \in SUBSET V : \E y \in S : SumFunctionOnSet(f, S) # f[y] + SumFunctionOnSet(f, S \ {y})}
<1> SUFFICES ASSUME F # {} PROVE FALSE
  OBVIOUS
<1>1. \A T \in F : IsFiniteSet(T)
  BY FS_Subset
<1>2. PICK S \in F : \A T \in F : ~(Cardinality(T) < Cardinality(S))
  <2> HIDE DEF F
  <2> QED BY <1>1, SmallestSet
<1>3. PICK y \in S : SumFunctionOnSet(f, S) # f[y] + SumFunctionOnSet(f, S \ {y})
  <2>1. S \in F
    OBVIOUS
  <2> QED BY <2>1
<1>4. IsFiniteSet(S) /\ S \in SUBSET V
  BY <1>1
<1> DEFINE p == Picked(S)
<1>5. p \in S /\ Rest(S) = S \ {p}
  BY <1>4, RestIsSmaller DEF Rest
<1>6. SumFunctionOnSet(f, S) = f[p] + SumFunctionOnSet(f, S \ {p})
  BY <1>4, <1>5, SumsOf
<1>7. p # y
  BY <1>3, <1>6
<1>8. ASSUME NEW z \in S PROVE S \ {z} \in SUBSET V /\ Cardinality(S \ {z}) < Cardinality(S)
  <2>1. Cardinality(S \ {z}) = Cardinality(S) - 1 /\ Cardinality(S) \in Nat
    BY <1>4, FS_RemoveElement, FS_CardinalityType
  <2> QED BY <1>4, <2>1
<1>9. SumFunctionOnSet(f, S \ {p}) = f[y] + SumFunctionOnSet(f, (S \ {p}) \ {y})
  BY <1>2, <1>5, <1>7, <1>8
<1>10. SumFunctionOnSet(f, S \ {y}) = f[p] + SumFunctionOnSet(f, (S \ {y}) \ {p})
  BY <1>2, <1>5, <1>7, <1>8
<1>11. (S \ {p}) \ {y} = (S \ {y}) \ {p}
  OBVIOUS
<1>12. SumFunctionOnSet(f, (S \ {y}) \ {p}) \in Int
  <2>1. IsFiniteSet((S \ {y}) \ {p}) /\ (S \ {y}) \ {p} \in SUBSET V
    BY <1>4, FS_Subset
  <2> QED BY <2>1, SumType
<1>13. f[p] \in Int /\ f[y] \in Int
  BY <1>4, <1>5
<1>14. \A a, b, c \in Int : a + (b + c) = b + (a + c)
  OBVIOUS
<1> DEFINE C == SumFunctionOnSet(f, (S \ {y}) \ {p})
<1>15. SumFunctionOnSet(f, S \ {p}) = f[y] + C /\ SumFunctionOnSet(f, S \ {y}) = f[p] + C
  BY <1>9, <1>10, <1>11
<1> HIDE DEF F, p, C
<1>16. SumFunctionOnSet(f, S) = f[p] + (f[y] + C)
  BY <1>6, <1>15
<1>17. SumFunctionOnSet(f, S) # f[y] + (f[p] + C)
  BY <1>3, <1>15
<1> QED BY <1>12, <1>13, <1>14, <1>16, <1>17 DEF C

\* Nothing adds up to 0.
COROLLARY SumEmpty ==
  ASSUME NEW f PROVE SumFunctionOnSet(f, {}) = 0
BY SumsOf, FS_EmptySet

\* An element that was not there adds its term.
COROLLARY SumAdd ==
  ASSUME NEW f, NEW V, IsFiniteSet(V), NEW x, x \notin V, f[x] \in Int, \A y \in V : f[y] \in Int
  PROVE  SumFunctionOnSet(f, V \union {x}) = SumFunctionOnSet(f, V) + f[x]
<1>1. IsFiniteSet(V \union {x}) /\ (V \union {x}) \ {x} = V
  BY FS_AddElement
<1>2. SumFunctionOnSet(f, V \union {x}) = f[x] + SumFunctionOnSet(f, V)
  BY <1>1, SumRemove
<1>3. SumFunctionOnSet(f, V) \in Int
  BY SumType
<1> QED BY <1>2, <1>3

\* One value changes.
THEOREM SumChange ==
  ASSUME NEW f, NEW g, NEW V, IsFiniteSet(V), NEW x \in V,
         \A y \in V : f[y] \in Int /\ g[y] \in Int, \A y \in V \ {x} : f[y] = g[y]
  PROVE  SumFunctionOnSet(g, V) = SumFunctionOnSet(f, V) - f[x] + g[x]
<1>1. IsFiniteSet(V \ {x})
  BY FS_RemoveElement
<1>2. SumFunctionOnSet(f, V) = f[x] + SumFunctionOnSet(f, V \ {x})
  BY SumRemove
<1>3. SumFunctionOnSet(g, V) = g[x] + SumFunctionOnSet(g, V \ {x})
  BY SumRemove
<1>4. SumFunctionOnSet(f, V \ {x}) = SumFunctionOnSet(g, V \ {x}) /\ SumFunctionOnSet(f, V \ {x}) \in Int
  BY <1>1, SumSame, SumType
<1> QED BY <1>2, <1>3, <1>4

\* What is zero does not count.
THEOREM SumSupport ==
  ASSUME NEW f, NEW V, IsFiniteSet(V), NEW W \in SUBSET V,
         \A x \in V : f[x] \in Int, \A x \in V \ W : f[x] = 0
  PROVE  SumFunctionOnSet(f, V) = SumFunctionOnSet(f, W)
<1> DEFINE F == {S \in SUBSET V : W \subseteq S /\ SumFunctionOnSet(f, S) # SumFunctionOnSet(f, W)}
<1> SUFFICES ASSUME F # {} PROVE FALSE
  OBVIOUS
<1>1. \A T \in F : IsFiniteSet(T)
  BY FS_Subset
<1>2. PICK S \in F : \A T \in F : ~(Cardinality(T) < Cardinality(S))
  <2> HIDE DEF F
  <2> QED BY <1>1, SmallestSet
<1>3. S \in F
  OBVIOUS
<1>4. PICK x \in S \ W : TRUE
  BY <1>3
<1>5. IsFiniteSet(S) /\ x \in V /\ f[x] = 0 /\ S \ {x} \in SUBSET V /\ W \subseteq S \ {x}
  BY <1>1, <1>3
<1>6. Cardinality(S \ {x}) = Cardinality(S) - 1 /\ Cardinality(S) \in Nat /\ IsFiniteSet(S \ {x})
  BY <1>4, <1>5, FS_RemoveElement, FS_CardinalityType
<1>7. SumFunctionOnSet(f, S) = f[x] + SumFunctionOnSet(f, S \ {x})
  BY <1>3, <1>4, <1>5, SumRemove
<1>8. SumFunctionOnSet(f, S \ {x}) \in Int
  BY <1>5, <1>6, SumType
<1>9. S \ {x} \notin F
  BY <1>2, <1>6
<1> QED BY <1>3, <1>5, <1>7, <1>8, <1>9

\* Naturals: no term is more than the sum.
COROLLARY SumBounds ==
  ASSUME NEW f, NEW V, IsFiniteSet(V), \A y \in V : f[y] \in Nat, NEW x \in V
  PROVE  f[x] <= SumFunctionOnSet(f, V)
<1>1. IsFiniteSet(V \ {x})
  BY FS_RemoveElement
<1>2. SumFunctionOnSet(f, V) = f[x] + SumFunctionOnSet(f, V \ {x})
  BY SumRemove
<1>3. SumFunctionOnSet(f, V \ {x}) \in Nat
  BY <1>1, SumType
<1> QED BY <1>2, <1>3

\* Nothing but zeros add up to nothing.
COROLLARY SumZero ==
  ASSUME NEW f, NEW V, IsFiniteSet(V), \A x \in V : f[x] = 0
  PROVE  SumFunctionOnSet(f, V) = 0
<1>1. SumFunctionOnSet(f, V) = SumFunctionOnSet(f, {})
  BY SumSupport
<1>2. IsFiniteSet({})
  BY FS_EmptySet
<1> QED BY <1>1, <1>2, SumsOf
=============================================================================
