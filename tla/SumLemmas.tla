---------------------------- MODULE SumLemmas ----------------------------
(***************************************************************************)
(* Facts about SumFunctionOnSet of the community module Functions: the     *)
(* balance sheets of the vault, the payments and the lamport supply are    *)
(* all sums of a function over a finite set of accounts.                   *)
(*                                                                         *)
(* Induction over finite sets is done by minimal counterexample: the       *)
(* strict subset ordering is well founded, so a non-empty family of        *)
(* subsets of a finite set has a member with no proper subset in it.       *)
(***************************************************************************)
EXTENDS Integers, FiniteSets, Functions, FiniteSetTheorems,
        WellFoundedInduction, TLAPS

(* The element the fold removes from a set, and the fold's equation.       *)
Pick(s) == CHOOSE x \in s : TRUE
FoldOf(f, S, g) ==
  g = [s \in SUBSET S |-> IF s = {} THEN 0 ELSE f[Pick(s)] + g[s \ {Pick(s)}]]

(* A non-empty family of subsets of a finite set has a minimal member.     *)
LEMMA MinimalSubset ==
  ASSUME NEW S, IsFiniteSet(S), NEW C \in SUBSET (SUBSET S), C # {}
  PROVE  \E T \in C : \A U \in C : ~(U \subseteq T /\ U # T)
<1>1. IsWellFoundedOn(StrictSubsetOrdering(S), SUBSET S)
  BY FS_StrictSubsetOrderingWellFounded, FS_FiniteSubsetsOfFinite
<1>2. PICK T \in C : \A U \in C : <<U, T>> \notin StrictSubsetOrdering(S)
  BY <1>1, WFMin
<1>3. QED
  BY <1>2 DEF StrictSubsetOrdering

(* Two folds of one function agree wherever both are defined.              *)
LEMMA FoldUnique ==
  ASSUME NEW f, NEW S, IsFiniteSet(S),
         NEW T \in SUBSET S, NEW U \in SUBSET S, NEW g, NEW h,
         FoldOf(f, T, g), FoldOf(f, U, h)
  PROVE  \A V \in SUBSET (T \cap U) : g[V] = h[V]
<1> DEFINE C == {V \in SUBSET (T \cap U) : g[V] # h[V]}
<1>1. SUFFICES ASSUME C # {} PROVE FALSE
  OBVIOUS
<1>2. C \in SUBSET (SUBSET S)
  OBVIOUS
<1>3. PICK V \in C : \A W \in C : ~(W \subseteq V /\ W # V)
  <2> HIDE DEF C
  <2> QED BY <1>1, <1>2, MinimalSubset
<1>4. /\ g[V] = IF V = {} THEN 0 ELSE f[Pick(V)] + g[V \ {Pick(V)}]
      /\ h[V] = IF V = {} THEN 0 ELSE f[Pick(V)] + h[V \ {Pick(V)}]
  BY DEF FoldOf
<1>5. V # {}
  BY <1>4
<1>6. Pick(V) \in V
  BY <1>5 DEF Pick
<1>7. g[V \ {Pick(V)}] = h[V \ {Pick(V)}]
  BY <1>3, <1>6
<1>8. QED
  BY <1>4, <1>7

(* The fold exists on the subsets of every finite set.                     *)
LEMMA FoldExists ==
  ASSUME NEW f, NEW S, IsFiniteSet(S)
  PROVE  \A T \in SUBSET S : \E g : FoldOf(f, T, g)
<1> DEFINE C == {T \in SUBSET S : ~ \E g : FoldOf(f, T, g)}
<1>1. SUFFICES ASSUME C # {} PROVE FALSE
  OBVIOUS
<1>2. PICK T \in C : \A U \in C : ~(U \subseteq T /\ U # T)
  <2>1. C \in SUBSET (SUBSET S)
    OBVIOUS
  <2> HIDE DEF C
  <2> QED BY <1>1, <2>1, MinimalSubset
<1> DEFINE Fold(u)  == CHOOSE g : FoldOf(f, u, g)
           Value(u) == Fold(u)[u]
           G == [s \in SUBSET T |-> IF s = {} THEN 0
                                    ELSE f[Pick(s)] + Value(s \ {Pick(s)})]
<1>3. \A u \in SUBSET T : u # T => FoldOf(f, u, Fold(u))
  <2>1. \A u \in SUBSET T : u # T => \E g : FoldOf(f, u, g)
    BY <1>2
  <2> QED BY <2>1
<1> HIDE DEF Fold
<1>4. \A u \in SUBSET T : u # T => G[u] = Value(u)
  <2> SUFFICES ASSUME NEW u \in SUBSET T, u # T PROVE G[u] = Value(u)
    OBVIOUS
  <2>1. Fold(u)[u] = IF u = {} THEN 0 ELSE f[Pick(u)] + Fold(u)[u \ {Pick(u)}]
    <3>1. FoldOf(f, u, Fold(u)) BY <1>3
    <3> QED BY <3>1 DEF FoldOf
  <2>2. ASSUME u # {} PROVE Fold(u)[u \ {Pick(u)}] = Value(u \ {Pick(u)})
    <3> DEFINE v == u \ {Pick(u)}
    <3>1. v \in SUBSET T /\ v # T
      BY <2>2 DEF Pick
    <3>2. FoldOf(f, u, Fold(u)) /\ FoldOf(f, v, Fold(v))
      BY <1>3, <3>1
    <3>3. u \in SUBSET S /\ v \in SUBSET S /\ v \in SUBSET (u \cap v)
      BY <1>2
    <3> HIDE DEF v
    <3>4. \A V \in SUBSET (u \cap v) : Fold(u)[V] = Fold(v)[V]
      BY <3>2, <3>3, FoldUnique
    <3>5. Fold(u)[v] = Value(v)
      BY <3>3, <3>4
    <3> QED BY <3>5 DEF v
  <2> QED BY <2>1, <2>2
<1>5. FoldOf(f, T, G)
  <2>1. \A s \in SUBSET T : s # {} => s \ {Pick(s)} # T /\ s \ {Pick(s)} \in SUBSET T
    BY DEF Pick
  <2>2. \A s \in SUBSET T : s # {} => Value(s \ {Pick(s)}) = G[s \ {Pick(s)}]
    BY <2>1, <1>4
  <2>3. G = [s \in SUBSET T |-> IF s = {} THEN 0 ELSE f[Pick(s)] + G[s \ {Pick(s)}]]
    BY <2>2
  <2> QED BY <2>3 DEF FoldOf
<1>6. QED
  BY <1>2, <1>5

(* SumFunctionOnSet is that fold.                                          *)
LEMMA SumIsFold ==
  ASSUME NEW f, NEW S
  PROVE  SumFunctionOnSet(f, S) = (CHOOSE g : FoldOf(f, S, g))[S]
BY DEF SumFunctionOnSet, FoldFunctionOnSet, MapThenFoldSet, FoldOf, Pick

(* The sum over the empty set is 0; over another finite set it is the      *)
(* value at the picked element plus the sum over the rest.                 *)
LEMMA SumUnfold ==
  ASSUME NEW f, NEW S, IsFiniteSet(S)
  PROVE  SumFunctionOnSet(f, S) =
           IF S = {} THEN 0
           ELSE f[Pick(S)] + SumFunctionOnSet(f, S \ {Pick(S)})
<1> DEFINE R == S \ {Pick(S)}
           g == CHOOSE h : FoldOf(f, S, h)
           k == CHOOSE h : FoldOf(f, R, h)
<1>1. FoldOf(f, S, g) /\ FoldOf(f, R, k)
  BY FoldExists
<1>2. SumFunctionOnSet(f, S) = g[S] /\ SumFunctionOnSet(f, R) = k[R]
  BY SumIsFold
<1> HIDE DEF g, k
<1>3. g[S] = IF S = {} THEN 0 ELSE f[Pick(S)] + g[R]
  BY <1>1 DEF FoldOf
<1>4. g[R] = k[R]
  BY <1>1, FoldUnique
<1>5. QED
  BY <1>2, <1>3, <1>4

(* A sum of naturals is a natural.                                         *)
LEMMA SumNat ==
  ASSUME NEW S, IsFiniteSet(S), NEW f, \A x \in S : f[x] \in Nat
  PROVE  SumFunctionOnSet(f, S) \in Nat
<1> DEFINE C == {T \in SUBSET S : SumFunctionOnSet(f, T) \notin Nat}
<1>1. SUFFICES ASSUME C # {} PROVE FALSE
  OBVIOUS
<1>2. PICK T \in C : \A U \in C : ~(U \subseteq T /\ U # T)
  <2>1. C \in SUBSET (SUBSET S)
    OBVIOUS
  <2> HIDE DEF C
  <2> QED BY <1>1, <2>1, MinimalSubset
<1>3. IsFiniteSet(T)
  BY FS_Subset
<1>4. SumFunctionOnSet(f, T) =
        IF T = {} THEN 0
        ELSE f[Pick(T)] + SumFunctionOnSet(f, T \ {Pick(T)})
  BY <1>3, SumUnfold
<1>5. T # {} => Pick(T) \in T
  BY DEF Pick
<1>6. T # {} => SumFunctionOnSet(f, T \ {Pick(T)}) \in Nat
  BY <1>2, <1>5
<1>7. QED
  BY <1>4, <1>5, <1>6

(* A sum of zeros is zero.                                                 *)
LEMMA SumZero ==
  ASSUME NEW S, IsFiniteSet(S), NEW f, \A x \in S : f[x] = 0
  PROVE  SumFunctionOnSet(f, S) = 0
<1> DEFINE C == {T \in SUBSET S : SumFunctionOnSet(f, T) # 0}
<1>1. SUFFICES ASSUME C # {} PROVE FALSE
  OBVIOUS
<1>2. PICK T \in C : \A U \in C : ~(U \subseteq T /\ U # T)
  <2>1. C \in SUBSET (SUBSET S)
    OBVIOUS
  <2> HIDE DEF C
  <2> QED BY <1>1, <2>1, MinimalSubset
<1>3. IsFiniteSet(T)
  BY FS_Subset
<1>4. SumFunctionOnSet(f, T) =
        IF T = {} THEN 0
        ELSE f[Pick(T)] + SumFunctionOnSet(f, T \ {Pick(T)})
  BY <1>3, SumUnfold
<1>5. T # {} => Pick(T) \in T
  BY DEF Pick
<1>6. T # {} => SumFunctionOnSet(f, T \ {Pick(T)}) = 0
  BY <1>2, <1>5
<1>7. QED
  BY <1>4, <1>5, <1>6

(* A sum of ones counts.                                                   *)
LEMMA SumOfOnes ==
  ASSUME NEW S, IsFiniteSet(S), NEW f, \A x \in S : f[x] = 1
  PROVE  SumFunctionOnSet(f, S) = Cardinality(S)
<1> DEFINE C == {T \in SUBSET S : SumFunctionOnSet(f, T) # Cardinality(T)}
<1>1. SUFFICES ASSUME C # {} PROVE FALSE
  OBVIOUS
<1>2. PICK T \in C : \A U \in C : ~(U \subseteq T /\ U # T)
  <2>1. C \in SUBSET (SUBSET S)
    OBVIOUS
  <2> HIDE DEF C
  <2> QED BY <1>1, <2>1, MinimalSubset
<1> DEFINE p == Pick(T)
           R == T \ {p}
<1>3. IsFiniteSet(T) /\ T \in SUBSET S
  BY FS_Subset
<1>4. SumFunctionOnSet(f, T) = IF T = {} THEN 0 ELSE f[p] + SumFunctionOnSet(f, R)
  BY <1>3, SumUnfold
<1>5. T # {}
  <2>1. ASSUME T = {} PROVE SumFunctionOnSet(f, T) = Cardinality(T)
    BY <1>4, <2>1, FS_EmptySet
  <2> QED BY <2>1
<1>6. p \in T /\ p \in S
  BY <1>3, <1>5 DEF Pick
<1>7. SumFunctionOnSet(f, R) = Cardinality(R)
  BY <1>2, <1>6
<1>8. Cardinality(T) = Cardinality(R) + 1 /\ Cardinality(R) \in Nat
  <2> HIDE DEF p
  <2>1. IsFiniteSet(R)
    BY <1>3, FS_Subset
  <2>2. R \cup {p} = T /\ p \notin R
    BY <1>6
  <2> HIDE DEF R
  <2> QED BY <2>1, <2>2, FS_AddElement, FS_CardinalityType
<1>9. SumFunctionOnSet(f, T) = Cardinality(T)
  <2> HIDE DEF p, R, C
  <2> QED BY <1>4, <1>5, <1>6, <1>7, <1>8
<1> QED BY <1>9

(* The least number of a set.                                              *)
LEMMA LeastNumber ==
  ASSUME NEW S \in SUBSET Nat, S # {}
  PROVE  \E i \in S : \A j \in S : i <= j
<1>1. PICK n \in S : TRUE
  OBVIOUS
<1> DEFINE F == {0..i : i \in {j \in S : j <= n}}
<1>2. IsFiniteSet(0..n) /\ n \in Nat
  BY <1>1, FS_Interval
<1>3. F \in SUBSET (SUBSET (0..n)) /\ F # {}
  BY <1>1, <1>2
<1>4. PICK T \in F : \A U \in F : ~(U \subseteq T /\ U # T)
  <2> DEFINE D == 0..n
  <2>1. F \in SUBSET (SUBSET D) /\ IsFiniteSet(D) /\ F # {}
    BY <1>2, <1>3
  <2> HIDE DEF F, D
  <2>2. \E T \in F : \A U \in F : ~(U \subseteq T /\ U # T)
    BY <2>1, MinimalSubset
  <2> QED BY <2>2
<1>5. PICK i \in S : i <= n /\ T = 0..i
  OBVIOUS
<1>6. ASSUME NEW j \in S, j < i PROVE FALSE
  <2>1. 0..j \in F
    BY <1>2, <1>5, <1>6
  <2>2. i \in Nat /\ j \in Nat
    OBVIOUS
  <2>3. 0..j \subseteq 0..i /\ i \in 0..i /\ i \notin 0..j
    BY <1>6, <2>2
  <2>4. 0..j # T
    BY <1>5, <2>3
  <2> QED BY <1>4, <1>5, <2>1, <2>3, <2>4
<1>7. \A j \in S : i <= j
  BY <1>6
<1> QED BY <1>7

(* A sum of integers is an integer.                                        *)
LEMMA SumInt ==
  ASSUME NEW S, IsFiniteSet(S), NEW f, \A x \in S : f[x] \in Int
  PROVE  SumFunctionOnSet(f, S) \in Int
<1> DEFINE C == {T \in SUBSET S : SumFunctionOnSet(f, T) \notin Int}
<1>1. SUFFICES ASSUME C # {} PROVE FALSE
  OBVIOUS
<1>2. PICK T \in C : \A U \in C : ~(U \subseteq T /\ U # T)
  <2>1. C \in SUBSET (SUBSET S)
    OBVIOUS
  <2> HIDE DEF C
  <2> QED BY <1>1, <2>1, MinimalSubset
<1>3. IsFiniteSet(T)
  BY FS_Subset
<1>4. SumFunctionOnSet(f, T) =
        IF T = {} THEN 0
        ELSE f[Pick(T)] + SumFunctionOnSet(f, T \ {Pick(T)})
  BY <1>3, SumUnfold
<1>5. T # {} => Pick(T) \in T
  BY DEF Pick
<1>6. T # {} => SumFunctionOnSet(f, T \ {Pick(T)}) \in Int
  BY <1>2, <1>5
<1>7. QED
  BY <1>4, <1>5, <1>6

(* The sum depends only on the values at the members of the set.           *)
LEMMA SumSame ==
  ASSUME NEW S, IsFiniteSet(S), NEW f, NEW g, \A x \in S : f[x] = g[x]
  PROVE  SumFunctionOnSet(f, S) = SumFunctionOnSet(g, S)
<1> DEFINE C == {T \in SUBSET S : SumFunctionOnSet(f, T) # SumFunctionOnSet(g, T)}
<1>1. SUFFICES ASSUME C # {} PROVE FALSE
  OBVIOUS
<1>2. PICK T \in C : \A U \in C : ~(U \subseteq T /\ U # T)
  <2>1. C \in SUBSET (SUBSET S)
    OBVIOUS
  <2> HIDE DEF C
  <2> QED BY <1>1, <2>1, MinimalSubset
<1>3. IsFiniteSet(T)
  BY FS_Subset
<1>4. /\ SumFunctionOnSet(f, T) =
           IF T = {} THEN 0
           ELSE f[Pick(T)] + SumFunctionOnSet(f, T \ {Pick(T)})
      /\ SumFunctionOnSet(g, T) =
           IF T = {} THEN 0
           ELSE g[Pick(T)] + SumFunctionOnSet(g, T \ {Pick(T)})
  BY <1>3, SumUnfold
<1>5. T # {} => Pick(T) \in T
  BY DEF Pick
<1>6. T # {} => SumFunctionOnSet(f, T \ {Pick(T)}) = SumFunctionOnSet(g, T \ {Pick(T)})
  BY <1>2, <1>5
<1>7. QED
  BY <1>4, <1>5, <1>6

(* Changing the function at one member changes the sum by the difference.  *)
LEMMA SumUpdate ==
  ASSUME NEW S, IsFiniteSet(S), NEW f, NEW g, NEW x \in S,
         \A y \in S : f[y] \in Int /\ g[y] \in Int,
         \A y \in S \ {x} : f[y] = g[y]
  PROVE  SumFunctionOnSet(g, S) + f[x] = SumFunctionOnSet(f, S) + g[x]
<1> DEFINE C == {T \in SUBSET S : x \in T /\
                  ~ /\ SumFunctionOnSet(f, T) \in Int
                    /\ SumFunctionOnSet(g, T) = SumFunctionOnSet(f, T) + (g[x] - f[x])}
<1>1. SUFFICES ASSUME C # {} PROVE FALSE
  <2>1. C = {} => /\ SumFunctionOnSet(f, S) \in Int
                  /\ SumFunctionOnSet(g, S) = SumFunctionOnSet(f, S) + (g[x] - f[x])
    OBVIOUS
  <2> HIDE DEF C
  <2> QED BY <2>1
<1>2. PICK T \in C : \A U \in C : ~(U \subseteq T /\ U # T)
  <2>1. C \in SUBSET (SUBSET S)
    OBVIOUS
  <2> HIDE DEF C
  <2> QED BY <1>1, <2>1, MinimalSubset
<1> DEFINE p == Pick(T)
           R == T \ {p}
<1>3. IsFiniteSet(T) /\ IsFiniteSet(R) /\ p \in T
  <2>1. IsFiniteSet(T) BY FS_Subset
  <2>2. p \in T BY DEF Pick
  <2> QED BY <2>1, <2>2, FS_RemoveElement
<1>4. /\ SumFunctionOnSet(f, T) = f[p] + SumFunctionOnSet(f, R)
      /\ SumFunctionOnSet(g, T) = g[p] + SumFunctionOnSet(g, R)
  <2>1. T # {} BY <1>3
  <2> QED BY <1>3, <2>1, SumUnfold
<1>5. CASE p = x
  <2>1. SumFunctionOnSet(f, R) = SumFunctionOnSet(g, R)
    <3>1. \A y \in R : f[y] = g[y]
      BY <1>5
    <3> QED BY <1>3, <3>1, SumSame
  <2>2. SumFunctionOnSet(f, R) \in Int
    BY <1>3, SumInt
  <2> QED BY <1>4, <1>5, <2>1, <2>2
<1>6. CASE p # x
  <2>1. x \in R /\ R \in SUBSET S /\ R \subseteq T /\ R # T
    BY <1>3, <1>6
  <2>2. R \notin C
    <3> HIDE DEF C, R
    <3> QED BY <1>2, <2>1
  <2>3. /\ SumFunctionOnSet(f, R) \in Int
        /\ SumFunctionOnSet(g, R) = SumFunctionOnSet(f, R) + (g[x] - f[x])
    BY <2>1, <2>2
  <2>4. f[p] = g[p] /\ f[p] \in Int /\ g[x] \in Int /\ f[x] \in Int
    BY <1>3, <1>6
  <2> QED BY <1>4, <2>3, <2>4
<1>7. QED
  BY <1>5, <1>6

(* A member's value is at most the sum of naturals it belongs to, and so   *)
(* are the values at two members together.                                 *)
LEMMA SumBoundsMember ==
  ASSUME NEW S, IsFiniteSet(S), NEW f, \A y \in S : f[y] \in Nat, NEW x \in S
  PROVE  f[x] <= SumFunctionOnSet(f, S)
<1> DEFINE g == [y \in S |-> IF y = x THEN 0 ELSE f[y]]
<1>1. \A y \in S : f[y] \in Int /\ g[y] \in Int /\ g[y] \in Nat
  OBVIOUS
<1>2. SumFunctionOnSet(g, S) + f[x] = SumFunctionOnSet(f, S) + g[x]
  <2>1. \A y \in S \ {x} : f[y] = g[y]
    OBVIOUS
  <2> HIDE DEF g
  <2> QED BY <1>1, <2>1, SumUpdate
<1>3. SumFunctionOnSet(g, S) \in Nat /\ SumFunctionOnSet(f, S) \in Nat
  <2> HIDE DEF g
  <2> QED BY <1>1, SumNat
<1>4. QED
  BY <1>2, <1>3

(* Whichever member is taken out first, the rest adds up to the same.      *)
LEMMA SumRemove ==
  ASSUME NEW S, IsFiniteSet(S), NEW f, \A y \in S : f[y] \in Int, NEW x \in S
  PROVE  SumFunctionOnSet(f, S) = f[x] + SumFunctionOnSet(f, S \ {x})
<1> DEFINE Removes(T) == \A z \in T : SumFunctionOnSet(f, T) = f[z] + SumFunctionOnSet(f, T \ {z})
           C == {T \in SUBSET S : ~Removes(T)}
<1>1. SUFFICES ASSUME C # {} PROVE FALSE
  <2>1. C = {} => Removes(S)
    OBVIOUS
  <2> HIDE DEF C
  <2> QED BY <2>1
<1>2. PICK T \in C : \A U \in C : ~(U \subseteq T /\ U # T)
  <2>1. C \in SUBSET (SUBSET S)
    OBVIOUS
  <2> HIDE DEF C
  <2> QED BY <1>1, <2>1, MinimalSubset
<1>3. PICK z \in T : SumFunctionOnSet(f, T) # f[z] + SumFunctionOnSet(f, T \ {z})
  OBVIOUS
<1> DEFINE p == Pick(T)
<1>4. p \in T /\ T # {}
  BY <1>3 DEF Pick
<1>5. IsFiniteSet(T) /\ IsFiniteSet(T \ {z}) /\ IsFiniteSet(T \ {p}) /\ IsFiniteSet((T \ {p}) \ {z})
  BY FS_Subset
<1>6. SumFunctionOnSet(f, T) = f[p] + SumFunctionOnSet(f, T \ {p})
  BY <1>4, <1>5, SumUnfold
<1>7. p # z
  BY <1>3, <1>6
<1>8. T \ {p} \notin C /\ T \ {z} \notin C
  BY <1>2, <1>3, <1>4
<1>9. Removes(T \ {p}) /\ Removes(T \ {z})
  BY <1>8
<1>10. SumFunctionOnSet(f, T \ {p}) = f[z] + SumFunctionOnSet(f, (T \ {p}) \ {z})
  BY <1>3, <1>7, <1>9
<1>11. SumFunctionOnSet(f, T \ {z}) = f[p] + SumFunctionOnSet(f, (T \ {z}) \ {p})
  BY <1>4, <1>7, <1>9
<1>12. (T \ {z}) \ {p} = (T \ {p}) \ {z}
  OBVIOUS
<1>13. f[p] \in Int /\ f[z] \in Int /\ SumFunctionOnSet(f, (T \ {p}) \ {z}) \in Int
  BY <1>3, <1>4, <1>5, SumInt
<1>14. SumFunctionOnSet(f, T) = f[p] + (f[z] + SumFunctionOnSet(f, (T \ {p}) \ {z}))
  BY <1>6, <1>10, Zenon
<1>15. SumFunctionOnSet(f, T \ {z}) = f[p] + SumFunctionOnSet(f, (T \ {p}) \ {z})
  BY <1>11, <1>12, Zenon
<1> HIDE DEF p, C
<1>16. QED
  BY <1>3, <1>13, <1>14, <1>15

(* Members that add nothing do not count.                                  *)
LEMMA SumExtend ==
  ASSUME NEW S, IsFiniteSet(S), NEW T \in SUBSET S, NEW f, NEW g,
         \A y \in S : f[y] \in Int,
         \A y \in T : f[y] = g[y], \A y \in S \ T : f[y] = 0
  PROVE  SumFunctionOnSet(f, S) = SumFunctionOnSet(g, T)
<1> DEFINE C == {U \in SUBSET S : SumFunctionOnSet(f, U) # SumFunctionOnSet(f, U \cap T)}
<1>1. C = {}
  <2>1. SUFFICES ASSUME C # {} PROVE FALSE
    OBVIOUS
  <2>2. PICK U \in C : \A V \in C : ~(V \subseteq U /\ V # U)
    <3>1. C \in SUBSET (SUBSET S)
      OBVIOUS
    <3> HIDE DEF C
    <3> QED BY <2>1, <3>1, MinimalSubset
  <2> DEFINE p == Pick(U)
  <2>3. U # {}
    <3>1. U = {} => U \cap T = U
      OBVIOUS
    <3> QED BY <2>2, <3>1
  <2>4. p \in U
    BY <2>3 DEF Pick
  <2>5. IsFiniteSet(U) /\ IsFiniteSet(U \cap T)
    BY FS_Subset
  <2>6. U \ {p} \notin C
    BY <2>2, <2>4
  <2>7. SumFunctionOnSet(f, U \ {p}) = SumFunctionOnSet(f, (U \ {p}) \cap T)
    BY <2>6
  <2>8. SumFunctionOnSet(f, U) = f[p] + SumFunctionOnSet(f, U \ {p})
    BY <2>3, <2>5, SumUnfold
  <2>9. SumFunctionOnSet(f, U \ {p}) \in Int
    <3>1. IsFiniteSet(U \ {p})
      BY FS_Subset, <2>5
    <3> QED BY <3>1, SumInt
  <2>10. CASE p \in T
    <3>1. SumFunctionOnSet(f, U \cap T) = f[p] + SumFunctionOnSet(f, (U \cap T) \ {p})
      BY <2>4, <2>5, <2>10, SumRemove
    <3>2. (U \cap T) \ {p} = (U \ {p}) \cap T
      OBVIOUS
    <3> QED BY <2>2, <2>7, <2>8, <3>1, <3>2
  <2>11. CASE p \notin T
    <3>1. U \cap T = (U \ {p}) \cap T
      BY <2>11
    <3>2. f[p] = 0
      BY <2>4, <2>11
    <3> QED BY <2>2, <2>7, <2>8, <2>9, <3>1, <3>2
  <2> QED BY <2>10, <2>11
<1>2. SumFunctionOnSet(f, S) = SumFunctionOnSet(f, S \cap T)
  BY <1>1
<1>3. S \cap T = T
  OBVIOUS
<1>4. SumFunctionOnSet(f, T) = SumFunctionOnSet(g, T)
  BY FS_Subset, SumSame
<1>5. QED
  BY <1>2, <1>3, <1>4

(* The sum over two sets that share no member.                             *)
LEMMA SumDisjoint ==
  ASSUME NEW S, IsFiniteSet(S), NEW f, \A y \in S : f[y] \in Int,
         NEW A \in SUBSET S, NEW B \in SUBSET S, A \cap B = {}
  PROVE  SumFunctionOnSet(f, A \cup B) = SumFunctionOnSet(f, A) + SumFunctionOnSet(f, B)
<1> DEFINE C == {U \in SUBSET A :
                  SumFunctionOnSet(f, U \cup B) # SumFunctionOnSet(f, U) + SumFunctionOnSet(f, B)}
<1>1. SUFFICES ASSUME C # {} PROVE FALSE
  OBVIOUS
<1>2. PICK U \in C : \A V \in C : ~(V \subseteq U /\ V # U)
  <2>1. C \in SUBSET (SUBSET A) /\ IsFiniteSet(A)
    BY FS_Subset
  <2> HIDE DEF C
  <2> QED BY <1>1, <2>1, MinimalSubset
<1>3. \A V \in SUBSET S : IsFiniteSet(V) /\ SumFunctionOnSet(f, V) \in Int
  BY FS_Subset, SumInt
<1>4. U \in SUBSET S /\ U \cup B \in SUBSET S /\ U \cap B = {}
  BY <1>2
<1>5. U # {}
  <2>1. SumFunctionOnSet(f, {}) = 0
    BY <1>3, SumUnfold
  <2>2. SumFunctionOnSet(f, B) \in Int
    BY <1>3
  <2>3. SumFunctionOnSet(f, U \cup B) # SumFunctionOnSet(f, U) + SumFunctionOnSet(f, B)
    BY <1>2
  <2>4. SUFFICES ASSUME U = {} PROVE FALSE
    OBVIOUS
  <2>5. SumFunctionOnSet(f, U) = 0 /\ U \cup B = B
    BY <2>1, <2>4
  <2>6. SumFunctionOnSet(f, B) # 0 + SumFunctionOnSet(f, B)
    BY <2>3, <2>5, Zenon
  <2> QED BY <2>2, <2>6
<1> DEFINE p == Pick(U)
<1>6. p \in U
  BY <1>5 DEF Pick
<1>7. SumFunctionOnSet(f, (U \ {p}) \cup B) = SumFunctionOnSet(f, U \ {p}) + SumFunctionOnSet(f, B)
  <2>1. U \ {p} \notin C
    BY <1>2, <1>6
  <2> QED BY <1>2, <2>1
<1>8. SumFunctionOnSet(f, U) = f[p] + SumFunctionOnSet(f, U \ {p})
  BY <1>3, <1>4, <1>5, SumUnfold
<1>9. SumFunctionOnSet(f, U \cup B) = f[p] + SumFunctionOnSet(f, (U \ {p}) \cup B)
  <2>1. (U \cup B) \ {p} = (U \ {p}) \cup B
    BY <1>4, <1>6
  <2>2. p \in U \cup B /\ IsFiniteSet(U \cup B) /\ \A y \in U \cup B : f[y] \in Int
    BY <1>3, <1>4, <1>6
  <2> HIDE DEF p
  <2> QED BY <2>1, <2>2, SumRemove
<1>10. /\ SumFunctionOnSet(f, U \ {p}) \in Int /\ SumFunctionOnSet(f, B) \in Int /\ f[p] \in Int
       /\ SumFunctionOnSet(f, U \cup B) # SumFunctionOnSet(f, U) + SumFunctionOnSet(f, B)
  BY <1>2, <1>3, <1>4, <1>6
<1> HIDE DEF p, C
<1> QED BY <1>7, <1>8, <1>9, <1>10

(* The sum of the sums over parts that share no member is the sum over all *)
(* of them.                                                                *)
LEMMA SumParts ==
  ASSUME NEW S, IsFiniteSet(S), NEW f, \A y \in S : f[y] \in Int,
         NEW I, IsFiniteSet(I), NEW P, \A i \in I : P[i] \in SUBSET S,
         \A i, j \in I : i # j => P[i] \cap P[j] = {}
  PROVE  SumFunctionOnSet([i \in I |-> SumFunctionOnSet(f, P[i])], I) =
           SumFunctionOnSet(f, UNION {P[i] : i \in I})
<1> DEFINE g == [i \in I |-> SumFunctionOnSet(f, P[i])]
           All(J) == UNION {P[i] : i \in J}
           C == {J \in SUBSET I : SumFunctionOnSet(g, J) # SumFunctionOnSet(f, All(J))}
<1>1. SUFFICES ASSUME C # {} PROVE FALSE
  <2>1. C = {} => SumFunctionOnSet(g, I) = SumFunctionOnSet(f, All(I))
    OBVIOUS
  <2> HIDE DEF C
  <2> QED BY <2>1
<1>2. PICK J \in C : \A V \in C : ~(V \subseteq J /\ V # J)
  <2>1. C \in SUBSET (SUBSET I)
    OBVIOUS
  <2> HIDE DEF C
  <2> QED BY <1>1, <2>1, MinimalSubset
<1>3. J \in SUBSET I /\ IsFiniteSet(J) /\ SumFunctionOnSet(g, J) # SumFunctionOnSet(f, All(J))
  BY <1>2, FS_Subset
<1>4. J # {}
  <2>1. SumFunctionOnSet(f, {}) = 0 /\ SumFunctionOnSet(g, {}) = 0
    BY FS_EmptySet, SumUnfold
  <2>2. All({}) = {}
    OBVIOUS
  <2> HIDE DEF g, All
  <2> QED BY <1>3, <2>1, <2>2
<1> DEFINE p == Pick(J)
           R == J \ {p}
<1>5. p \in J /\ p \in I
  BY <1>3, <1>4 DEF Pick
<1>6. SumFunctionOnSet(g, R) = SumFunctionOnSet(f, All(R))
  <2>1. R \notin C /\ R \in SUBSET I
    BY <1>2, <1>3, <1>5
  <2> HIDE DEF R, g, All
  <2> QED BY <2>1
<1>7. SumFunctionOnSet(g, J) = SumFunctionOnSet(f, P[p]) + SumFunctionOnSet(g, R)
  <2>1. g[p] = SumFunctionOnSet(f, P[p])
    BY <1>5
  <2> HIDE DEF g
  <2> QED BY <1>3, <1>4, <2>1, SumUnfold
<1>8. SumFunctionOnSet(f, All(J)) = SumFunctionOnSet(f, P[p]) + SumFunctionOnSet(f, All(R))
  <2>1. All(J) = P[p] \cup All(R)
    BY <1>5
  <2>2. P[p] \in SUBSET S /\ All(R) \in SUBSET S /\ P[p] \cap All(R) = {}
    BY <1>3, <1>5
  <2> HIDE DEF All, p, R
  <2> QED BY <2>1, <2>2, SumDisjoint
<1> HIDE DEF p, R, g, All, C
<1> QED BY <1>3, <1>6, <1>7, <1>8

===========================================================================
