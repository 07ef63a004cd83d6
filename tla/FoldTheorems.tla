---------------------------- MODULE FoldTheorems ----------------------------
(***************************************************************************)
(* Recursive functions over finite sets: the sums the models write with    *)
(* MapThenSumSet, of the weights of a department's KPIs, of the lengths of *)
(* a task's blocks; a fold over a list; and what hangs together in a       *)
(* graph.  All of it rests on one fact, that a set of finite subsets has a *)
(* minimal member: it is shown by that a recursion has a solution, and     *)
(* that a sum does not depend on the order the fold takes the elements in. *)
(***************************************************************************)
EXTENDS Integers, FiniteSets, FiniteSetsExt, FiniteSetTheorems, WellFoundedInduction, TLAPS

\* The sum of w[x] over the elements of S.
SumOver(w, S) == MapThenSumSet(LAMBDA x : w[x], S)

\* The element that the fold takes first.
First(S) == CHOOSE x \in S : TRUE
Rest(S)  == S \ {First(S)}

\* g solves the recursion of the fold on the subsets of S.
Solves(w, S, g) ==
  g = [s \in SUBSET S |-> IF s = {} THEN 0 ELSE w[First(s)] + g[Rest(s)]]

\* The one that MapThenSumSet takes.
Solution(w, S) == CHOOSE g : Solves(w, S, g)

-----------------------------------------------------------------------------
(* Induction on finite sets. *)

\* Among some subsets of a finite set there is one that contains none of the others.
LEMMA MinimalSubset ==
  ASSUME NEW S, IsFiniteSet(S), NEW F \in SUBSET SUBSET S, F # {}
  PROVE  \E T \in F : \A U \in F : U \subseteq T => U = T
<1>1. F \subseteq FiniteSubsetsOf(S)
  BY FS_Subset DEF FiniteSubsetsOf
<1>2. \E T \in F : \A U \in F : ~(<<U, T>> \in StrictSubsetOrdering(S))
  BY <1>1, FS_StrictSubsetOrderingWellFounded, WFMin, Zenon
<1> QED BY <1>2 DEF StrictSubsetOrdering

\* A set of subsets of a finite set that has every member whose proper subsets it has,
\* has them all.
LEMMA SubsetInduction ==
  ASSUME NEW S, IsFiniteSet(S), NEW F,
         \A T \in SUBSET S : (\A U \in SUBSET T : U # T => U \in F) => T \in F
  PROVE  \A T \in SUBSET S : T \in F
<1> DEFINE Bad == {T \in SUBSET S : T \notin F}
<1>1. SUFFICES ASSUME Bad # {} PROVE FALSE
  OBVIOUS
<1>2. Bad \in SUBSET SUBSET S
  OBVIOUS
<1>3. \E T \in Bad : \A U \in Bad : U \subseteq T => U = T
  <2> HIDE DEF Bad
  <2> QED BY <1>1, <1>2, MinimalSubset
<1> QED BY <1>3

-----------------------------------------------------------------------------
(* The recursion. *)

\* The first element of a set is in it, and the rest is smaller.
LEMMA FirstOfIt ==
  ASSUME NEW S, S # {}
  PROVE  First(S) \in S /\ Rest(S) \in SUBSET S /\ Rest(S) # S
BY DEF First, Rest

\* Two solutions agree where both are defined.
LEMMA SolutionsAgree ==
  ASSUME NEW w, NEW S, IsFiniteSet(S), NEW T, NEW g, NEW h,
         Solves(w, S, g), Solves(w, T, h)
  PROVE  \A s \in SUBSET (S \cap T) : g[s] = h[s]
<1> DEFINE F == {s \in SUBSET (S \cap T) : g[s] = h[s]}
<1>1. IsFiniteSet(S \cap T)
  BY FS_Intersection
<1>2. ASSUME NEW s \in SUBSET (S \cap T), \A u \in SUBSET s : u # s => u \in F
      PROVE  s \in F
  <2>1. g[s] = IF s = {} THEN 0 ELSE w[First(s)] + g[Rest(s)]
    BY Zenon DEF Solves
  <2>2. h[s] = IF s = {} THEN 0 ELSE w[First(s)] + h[Rest(s)]
    BY Zenon DEF Solves
  <2>3. CASE s = {}
    BY <2>1, <2>2, <2>3
  <2>4. CASE s # {}
    BY <1>2, <2>1, <2>2, <2>4, FirstOfIt
  <2> QED BY <2>3, <2>4
<1>3. \A s \in SUBSET (S \cap T) : s \in F
  <2> HIDE DEF F
  <2> QED BY <1>1, <1>2, SubsetInduction, Zenon
<1> QED BY <1>3

\* There is one.
LEMMA SolutionExists ==
  ASSUME NEW w, NEW S, IsFiniteSet(S)
  PROVE  Solves(w, S, Solution(w, S))
<1> DEFINE F == {T \in SUBSET S : \E g : Solves(w, T, g)}
<1>1. ASSUME NEW T \in SUBSET S, \A U \in SUBSET T : U # T => U \in F
      PROVE  T \in F
  <2> DEFINE At(s) == Solution(w, s)[s]
             g == [s \in SUBSET T |-> IF s = {} THEN 0 ELSE w[First(s)] + At(Rest(s))]
  <2>1. \A U \in SUBSET T : U # T => Solves(w, U, Solution(w, U))
    BY <1>1 DEF Solution
  <2>2. ASSUME NEW s \in SUBSET T, s # {}
        PROVE  At(Rest(s)) = g[Rest(s)]
    <3> DEFINE u == Rest(s)
    <3>1. u \in SUBSET T /\ u # T
      BY <2>2, FirstOfIt
    <3>2. Solves(w, u, Solution(w, u))
      BY <2>1, <3>1
    <3>3. At(u) = IF u = {} THEN 0 ELSE w[First(u)] + Solution(w, u)[Rest(u)]
      BY <3>2, Zenon DEF Solves
    <3>4. ASSUME u # {} PROVE Solution(w, u)[Rest(u)] = At(Rest(u))
      <4>1. Rest(u) \in SUBSET T /\ Rest(u) # T /\ Rest(u) \in SUBSET u
        BY <3>1, <3>4, FirstOfIt
      <4>2. Solves(w, Rest(u), Solution(w, Rest(u)))
        BY <2>1, <4>1
      <4>3. IsFiniteSet(u)
        BY <3>1, FS_Subset
      <4>4. Rest(u) \in SUBSET (u \cap Rest(u))
        BY <4>1
      <4> HIDE DEF u
      <4>5. \A v \in SUBSET (u \cap Rest(u)) : Solution(w, u)[v] = Solution(w, Rest(u))[v]
        BY <3>2, <4>2, <4>3, SolutionsAgree
      <4> QED BY <4>4, <4>5
    <3>5. g[u] = IF u = {} THEN 0 ELSE w[First(u)] + At(Rest(u))
      BY <3>1
    <3> QED BY <3>3, <3>4, <3>5
  <2>3. g = [s \in SUBSET T |-> IF s = {} THEN 0 ELSE w[First(s)] + g[Rest(s)]]
    <3>1. \A s \in SUBSET T : g[s] = IF s = {} THEN 0 ELSE w[First(s)] + g[Rest(s)]
      <4> SUFFICES ASSUME NEW s \in SUBSET T
                   PROVE  g[s] = IF s = {} THEN 0 ELSE w[First(s)] + g[Rest(s)]
        OBVIOUS
      <4>1. g[s] = IF s = {} THEN 0 ELSE w[First(s)] + At(Rest(s))
        OBVIOUS
      <4> HIDE DEF g
      <4> QED BY <2>2, <4>1
    <3>2. g = [s \in SUBSET T |-> g[s]]
      OBVIOUS
    <3> HIDE DEF g
    <3> QED BY <3>1, <3>2
  <2>4. Solves(w, T, g)
    BY <2>3, Zenon DEF Solves
  <2> QED BY <2>4
<1>2. S \in SUBSET S
  OBVIOUS
<1>3. S \in F
  <2> HIDE DEF F
  <2> QED BY <1>1, <1>2, SubsetInduction, Zenon
<1> QED BY <1>3 DEF Solution

\* A sum is the value of the solution at the whole set.
LEMMA SumIsSolution ==
  ASSUME NEW w, NEW S
  PROVE  SumOver(w, S) = Solution(w, S)[S]
BY DEF SumOver, Solution, Solves, First, Rest, MapThenSumSet, MapThenFoldSet

-----------------------------------------------------------------------------
(* What a sum is. *)

\* The sum of nothing is 0.
LEMMA SumOfNone ==
  ASSUME NEW w
  PROVE  SumOver(w, {}) = 0
<1>1. Solves(w, {}, Solution(w, {}))
  BY SolutionExists, FS_EmptySet
<1>2. Solution(w, {})[{}] = 0
  BY <1>1 DEF Solves
<1> QED BY <1>2, SumIsSolution

\* The fold's own step.
LEMMA SumFirst ==
  ASSUME NEW w, NEW S, IsFiniteSet(S), S # {}
  PROVE  SumOver(w, S) = w[First(S)] + SumOver(w, Rest(S))
<1>1. Solves(w, S, Solution(w, S))
  BY SolutionExists
<1>2. Rest(S) \in SUBSET S /\ IsFiniteSet(Rest(S))
  BY FirstOfIt, FS_Subset
<1>3. Solves(w, Rest(S), Solution(w, Rest(S)))
  BY <1>2, SolutionExists
<1>4. Solution(w, S)[S] = w[First(S)] + Solution(w, S)[Rest(S)]
  <2>1. S \in SUBSET S
    OBVIOUS
  <2>2. Solution(w, S)[S] = IF S = {} THEN 0 ELSE w[First(S)] + Solution(w, S)[Rest(S)]
    BY <1>1, <2>1, Zenon DEF Solves
  <2> QED BY <2>2
<1>5. \A s \in SUBSET (S \cap Rest(S)) : Solution(w, S)[s] = Solution(w, Rest(S))[s]
  BY <1>1, <1>3, SolutionsAgree
<1>6. Rest(S) \in SUBSET (S \cap Rest(S))
  BY <1>2
<1> QED BY <1>4, <1>5, <1>6, SumIsSolution

\* A sum of integers is an integer.
LEMMA SumIsInt ==
  ASSUME NEW w, NEW S, IsFiniteSet(S), \A x \in S : w[x] \in Int
  PROVE  SumOver(w, S) \in Int
<1> DEFINE F == {T \in SUBSET S : SumOver(w, T) \in Int}
<1>1. ASSUME NEW T \in SUBSET S, \A U \in SUBSET T : U # T => U \in F
      PROVE  T \in F
  <2>1. CASE T = {}
    BY <2>1, SumOfNone
  <2>2. CASE T # {}
    <3>1. First(T) \in S /\ Rest(T) \in F
      BY <1>1, <2>2, FirstOfIt
    <3>2. IsFiniteSet(T)
      BY FS_Subset
    <3>3. SumOver(w, T) = w[First(T)] + SumOver(w, Rest(T))
      BY <2>2, <3>2, SumFirst
    <3>4. SumOver(w, Rest(T)) \in Int /\ w[First(T)] \in Int
      BY <3>1
    <3> QED BY <3>3, <3>4
  <2> QED BY <2>1, <2>2
<1>2. S \in F
  <2> HIDE DEF F
  <2> QED BY <1>1, SubsetInduction
<1> QED BY <1>2

\* Any element may be taken out first.
LEMMA SumRemove ==
  ASSUME NEW w, NEW S, IsFiniteSet(S), \A x \in S : w[x] \in Int, NEW y \in S
  PROVE  SumOver(w, S) = w[y] + SumOver(w, S \ {y})
<1> DEFINE F == {T \in SUBSET S : \A z \in T : SumOver(w, T) = w[z] + SumOver(w, T \ {z})}
<1>1. ASSUME NEW T \in SUBSET S, \A U \in SUBSET T : U # T => U \in F
      PROVE  T \in F
  <2> SUFFICES ASSUME NEW z \in T
               PROVE  SumOver(w, T) = w[z] + SumOver(w, T \ {z})
    OBVIOUS
  <2> DEFINE a == First(T)
  <2>1. IsFiniteSet(T) /\ a \in T /\ Rest(T) = T \ {a}
    BY FS_Subset, FirstOfIt DEF Rest
  <2>2. SumOver(w, T) = w[a] + SumOver(w, T \ {a})
    BY <2>1, SumFirst
  <2>3. CASE z = a
    BY <2>2, <2>3
  <2>4. CASE z # a
    <3> HIDE DEF a
    <3>1. T \ {a} \in F /\ T \ {z} \in F
      BY <1>1, <2>1
    <3>2. SumOver(w, T \ {a}) = w[z] + SumOver(w, (T \ {a}) \ {z})
      BY <2>4, <3>1
    <3>3. SumOver(w, T \ {z}) = w[a] + SumOver(w, (T \ {z}) \ {a})
      BY <2>1, <2>4, <3>1
    <3>4. (T \ {a}) \ {z} = (T \ {z}) \ {a}
      OBVIOUS
    <3>5. SumOver(w, (T \ {z}) \ {a}) \in Int
      <4>1. IsFiniteSet((T \ {z}) \ {a}) /\ (T \ {z}) \ {a} \subseteq S
        BY <2>1, FS_Subset
      <4> QED BY <4>1, SumIsInt
    <3>6. w[z] \in Int /\ w[a] \in Int
      BY <2>1
    <3>7. SumOver(w, (T \ {a}) \ {z}) = SumOver(w, (T \ {z}) \ {a})
      BY <3>4, Zenon
    <3> QED BY <2>2, <3>2, <3>3, <3>5, <3>6, <3>7, SMT
  <2> QED BY <2>3, <2>4
<1>2. S \in F
  <2> HIDE DEF F
  <2> QED BY <1>1, SubsetInduction
<1> QED BY <1>2

\* An element is added.
LEMMA SumAdd ==
  ASSUME NEW w, NEW S, IsFiniteSet(S), NEW y, y \notin S, \A x \in S \cup {y} : w[x] \in Int
  PROVE  SumOver(w, S \cup {y}) = w[y] + SumOver(w, S)
<1>1. IsFiniteSet(S \cup {y})
  BY FS_AddElement
<1>2. (S \cup {y}) \ {y} = S
  OBVIOUS
<1>3. SumOver(w, S \cup {y}) = w[y] + SumOver(w, (S \cup {y}) \ {y})
  <2>1. y \in S \cup {y}
    OBVIOUS
  <2> QED BY <1>1, <2>1, SumRemove
<1> QED BY <1>2, <1>3

\* A sum of natural numbers is one.
LEMMA SumIsNat ==
  ASSUME NEW w, NEW S, IsFiniteSet(S), \A x \in S : w[x] \in Nat
  PROVE  SumOver(w, S) \in Nat
<1> DEFINE F == {T \in SUBSET S : SumOver(w, T) \in Nat}
<1>1. ASSUME NEW T \in SUBSET S, \A U \in SUBSET T : U # T => U \in F
      PROVE  T \in F
  <2>1. CASE T = {}
    BY <2>1, SumOfNone
  <2>2. CASE T # {}
    <3>1. First(T) \in S /\ Rest(T) \in F
      BY <1>1, <2>2, FirstOfIt
    <3>2. IsFiniteSet(T)
      BY FS_Subset
    <3>3. SumOver(w, T) = w[First(T)] + SumOver(w, Rest(T))
      BY <2>2, <3>2, SumFirst
    <3>4. SumOver(w, Rest(T)) \in Nat /\ w[First(T)] \in Nat
      BY <3>1
    <3> QED BY <3>3, <3>4
  <2> QED BY <2>1, <2>2
<1>2. S \in F
  <2> HIDE DEF F
  <2> QED BY <1>1, SubsetInduction
<1> QED BY <1>2

\* Only what is added counts.
LEMMA SumsAgree ==
  ASSUME NEW w, NEW v, NEW S, IsFiniteSet(S), \A x \in S : w[x] = v[x]
  PROVE  SumOver(w, S) = SumOver(v, S)
<1> DEFINE F == {T \in SUBSET S : SumOver(w, T) = SumOver(v, T)}
<1>1. ASSUME NEW T \in SUBSET S, \A U \in SUBSET T : U # T => U \in F
      PROVE  T \in F
  <2>1. CASE T = {}
    BY <2>1, SumOfNone
  <2>2. CASE T # {}
    <3>1. First(T) \in S /\ Rest(T) \in F
      BY <1>1, <2>2, FirstOfIt
    <3>2. IsFiniteSet(T)
      BY FS_Subset
    <3>3. /\ SumOver(w, T) = w[First(T)] + SumOver(w, Rest(T))
          /\ SumOver(v, T) = v[First(T)] + SumOver(v, Rest(T))
      BY <2>2, <3>2, SumFirst
    <3>4. SumOver(w, Rest(T)) = SumOver(v, Rest(T)) /\ w[First(T)] = v[First(T)]
      BY <3>1
    <3> QED BY <3>3, <3>4
  <2> QED BY <2>1, <2>2
<1>2. S \in F
  <2> HIDE DEF F
  <2> QED BY <1>1, SubsetInduction
<1> QED BY <1>2

\* Of natural numbers, fewer add up to no more.
LEMMA SumOfFewer ==
  ASSUME NEW w, NEW S, IsFiniteSet(S), \A x \in S : w[x] \in Nat, NEW R \in SUBSET S
  PROVE  SumOver(w, R) <= SumOver(w, S)
<1> DEFINE F == {T \in SUBSET S : SumOver(w, R \cap T) <= SumOver(w, T)}
<1>1. ASSUME NEW T \in SUBSET S, \A U \in SUBSET T : U # T => U \in F
      PROVE  T \in F
  <2>1. CASE T = {}
    <3>1. R \cap T = {}
      BY <2>1
    <3> QED BY <2>1, <3>1, SumOfNone
  <2>2. CASE T # {}
    <3> DEFINE a == First(T)  Q == T \ {a}
    <3>1. a \in T /\ IsFiniteSet(T) /\ IsFiniteSet(R \cap T) /\ IsFiniteSet(Q)
      BY <2>2, FirstOfIt, FS_Subset
    <3> HIDE DEF a
    <3>2. Q \in F
      BY <1>1, <3>1
    <3>3. SumOver(w, T) = w[a] + SumOver(w, Q)
      BY <3>1, SumRemove
    <3>4. SumOver(w, Q) \in Nat /\ SumOver(w, R \cap Q) \in Nat /\ w[a] \in Nat
      <4>1. IsFiniteSet(R \cap Q)
        BY <3>1, FS_Subset
      <4> QED BY <3>1, <4>1, SumIsNat
    <3>5. SumOver(w, R \cap Q) <= SumOver(w, Q)
      BY <3>2
    <3>6. CASE a \in R
      <4>1. a \in R \cap T /\ (R \cap T) \ {a} = R \cap Q
        BY <3>1, <3>6
      <4>2. SumOver(w, R \cap T) = w[a] + SumOver(w, (R \cap T) \ {a})
        <5> HIDE DEF Q
        <5> QED BY <3>1, <4>1, SumRemove
      <4>3. SumOver(w, R \cap T) = w[a] + SumOver(w, R \cap Q)
        BY <4>1, <4>2
      <4>4. SumOver(w, R \cap T) <= SumOver(w, T)
        <5> HIDE DEF Q
        <5> QED BY <3>3, <3>4, <3>5, <4>3
      <4> QED BY <4>4
    <3>7. CASE a \notin R
      <4>1. R \cap T = R \cap Q
        BY <3>7
      <4>2. SumOver(w, R \cap T) = SumOver(w, R \cap Q)
        BY <4>1, Zenon
      <4>3. SumOver(w, R \cap T) <= SumOver(w, T)
        <5> HIDE DEF Q
        <5> QED BY <3>3, <3>4, <3>5, <4>2
      <4> QED BY <4>3
    <3> QED BY <3>6, <3>7
  <2> QED BY <2>1, <2>2
<1>2. S \in F
  <2> HIDE DEF F
  <2> QED BY <1>1, SubsetInduction
<1>3. R \cap S = R
  OBVIOUS
<1> QED BY <1>2, <1>3

-----------------------------------------------------------------------------
(* What is defined by recursion over a finite set. *)

\* Nothing is among its own parents, however far back.
Acyclic(I, parents) ==
  /\ IsFiniteSet(I) /\ parents \in [I -> SUBSET I]
  /\ \A S \in SUBSET I : S # {} => \E i \in S : parents[i] \cap S = {}

\* One round of a definition, which looks at the parents only.
Recurs(I, V, parents, G) ==
  /\ G \in [[I -> V] -> [I -> V]]
  /\ \A g, h \in [I -> V], i \in I : (\A j \in parents[i] : g[j] = h[j]) => G[g][i] = G[h][i]

(* A function that is defined by recursion over a finite set exists, if    *)
(* what it is defined from, the parents, never leads back to where it      *)
(* started.  G is one round of the definition.                             *)
LEMMA RecursiveFunction ==
  ASSUME NEW I, NEW V, V # {}, NEW parents, NEW G, Acyclic(I, parents), Recurs(I, V, parents, G)
  PROVE  \E f \in [I -> V] : f = G[f]
<1> DEFINE Closed(T) == \A i \in T : parents[i] \subseteq T
           Good(T)   == Closed(T) /\ \E f \in [I -> V] : \A i \in T : f[i] = G[f][i]
           Todo      == {S \in SUBSET I : Good(I \ S)}
<1>0. /\ IsFiniteSet(I) /\ parents \in [I -> SUBSET I]
      /\ \A S \in SUBSET I : S # {} => \E i \in S : parents[i] \cap S = {}
      /\ G \in [[I -> V] -> [I -> V]]
      /\ \A g, h \in [I -> V], i \in I : (\A j \in parents[i] : g[j] = h[j]) => G[g][i] = G[h][i]
  BY DEF Acyclic, Recurs
<1>1. I \in Todo
  <2>1. PICK v \in V : TRUE
    OBVIOUS
  <2>2. [i \in I |-> v] \in [I -> V] /\ I \ I = {}
    OBVIOUS
  <2> QED BY <2>2
<1>2. PICK S \in Todo : \A U \in Todo : U \subseteq S => U = S
  <2>1. Todo \in SUBSET SUBSET I /\ Todo # {}
    BY <1>1
  <2> HIDE DEF Todo
  <2> QED BY <1>0, <2>1, MinimalSubset
<1>3. Closed(I \ S) /\ S \in SUBSET I
  OBVIOUS
<1>4. PICK f \in [I -> V] : \A i \in I \ S : f[i] = G[f][i]
  OBVIOUS
<1>5. CASE S # {}
  <2>1. PICK i \in S : parents[i] \cap S = {}
    BY <1>0, <1>3, <1>5
  <2> DEFINE h == [f EXCEPT ![i] = G[f][i]]
  <2>2. G[f] \in [I -> V]
    BY <1>0, <1>4
  <2>3. h \in [I -> V] /\ i \in I /\ h[i] = G[f][i] /\ \A j \in I : j # i => h[j] = f[j]
    BY <1>3, <1>4, <2>2
  <2>4. \A j \in I \ (S \ {i}) : parents[j] \subseteq I \ S /\ parents[j] \subseteq I \ (S \ {i})
    BY <1>0, <1>3, <2>1
  <2> HIDE DEF h
  <2>5. ASSUME NEW j \in I \ (S \ {i}) PROVE h[j] = G[h][j]
    <3>1. \A k \in parents[j] : h[k] = f[k]
      BY <2>1, <2>3, <2>4
    <3>2. G[h][j] = G[f][j]
      BY <1>0, <1>4, <2>3, <3>1
    <3> QED BY <1>4, <2>3, <3>2
  <2>6. S \ {i} \in Todo
    BY <1>3, <2>3, <2>4, <2>5
  <2> HIDE DEF Todo
  <2> QED BY <1>2, <2>1, <2>6
<1>6. CASE S = {}
  <2>1. \A i \in I : f[i] = G[f][i]
    BY <1>4, <1>6
  <2>2. G[f] \in [I -> V]
    BY <1>0
  <2>3. f = G[f]
    BY <2>1, <2>2
  <2> QED BY <2>3
<1> QED BY <1>5, <1>6

-----------------------------------------------------------------------------
(* What is defined by a fold over a list. *)

\* The greatest of some numbers is one of them.
LEMMA GreatestIsOne ==
  ASSUME NEW n \in Nat, NEW S \in SUBSET (1 .. n), S # {}
  PROVE  Max(S) \in S
<1> DEFINE Above(x) == {y \in S : y > x}
           B == {Above(x) : x \in S}
<1>1. PICK T \in B : \A U \in B : U \subseteq T => U = T
  <2>1. IsFiniteSet(1 .. n)
    BY FS_Interval
  <2>2. B \in SUBSET SUBSET (1 .. n)
    OBVIOUS
  <2>3. B # {}
    OBVIOUS
  <2> DEFINE N == 1 .. n
  <2> HIDE DEF B, N
  <2>4. IsFiniteSet(N) /\ B \in SUBSET SUBSET N
    BY <2>1, <2>2 DEF N
  <2> QED BY <2>3, <2>4, MinimalSubset
<1>2. PICK x \in S : T = Above(x)
  OBVIOUS
<1>3. \A y \in S : x >= y
  <2> SUFFICES ASSUME NEW y \in S, y > x PROVE FALSE
    OBVIOUS
  <2>1. S \subseteq Int /\ x \in Int /\ y \in Int
    OBVIOUS
  <2>2. y \in T /\ y \notin Above(y)
    BY <1>2, <2>1
  <2>4. Above(y) \subseteq Above(x)
    <3>1. \A z \in S : z > y => z > x
      BY <2>1
    <3> QED BY <3>1
  <2>3. Above(y) \in B
    OBVIOUS
  <2> QED BY <1>1, <1>2, <2>2, <2>3, <2>4
<1> QED BY <1>3 DEF Max

\* Among some of the first numbers there is a least.
LEMMA LeastIsOne ==
  ASSUME NEW n \in Nat, NEW S \in SUBSET (0 .. n), S # {}
  PROVE  \E x \in S : \A y \in S : x <= y
<1> DEFINE Below(x) == {y \in S : y < x}
           B == {Below(x) : x \in S}
<1>1. PICK T \in B : \A U \in B : U \subseteq T => U = T
  <2>1. IsFiniteSet(0 .. n)
    BY FS_Interval
  <2>2. B \in SUBSET SUBSET (0 .. n)
    OBVIOUS
  <2>3. B # {}
    OBVIOUS
  <2> DEFINE N == 0 .. n
  <2> HIDE DEF B, N
  <2>4. IsFiniteSet(N) /\ B \in SUBSET SUBSET N
    BY <2>1, <2>2 DEF N
  <2> QED BY <2>3, <2>4, MinimalSubset
<1>2. PICK x \in S : T = Below(x)
  OBVIOUS
<1>3. \A y \in S : x <= y
  <2> SUFFICES ASSUME NEW y \in S, y < x PROVE FALSE
    OBVIOUS
  <2>1. S \subseteq Int /\ x \in Int /\ y \in Int
    OBVIOUS
  <2>2. y \in T /\ y \notin Below(y)
    BY <1>2, <2>1
  <2>3. Below(y) \subseteq Below(x)
    <3>1. \A z \in S : z < y => z < x
      BY <2>1
    <3> QED BY <3>1
  <2>4. Below(y) \in B
    OBVIOUS
  <2> QED BY <1>1, <1>2, <2>2, <2>3, <2>4
<1> QED BY <1>3

\* What is defined from one number to the next.
OneBefore(n) == [k \in 0 .. n |-> IF k = 0 THEN {} ELSE {k - 1}]

\* That is a recursion.
LEMMA NumbersAreOrdered == ASSUME NEW n \in Nat PROVE Acyclic(0 .. n, OneBefore(n))
<1>1. IsFiniteSet(0 .. n)
  BY FS_Interval
<1>2. OneBefore(n) \in [0 .. n -> SUBSET (0 .. n)]
  BY DEF OneBefore
<1>3. ASSUME NEW S \in SUBSET (0 .. n), S # {} PROVE \E k \in S : OneBefore(n)[k] \cap S = {}
  <2>1. PICK x \in S : \A y \in S : x <= y
    BY <1>3, LeastIsOne
  <2>2. OneBefore(n)[x] \cap S = {}
    BY <2>1 DEF OneBefore
  <2> QED BY <2>2
<1> DEFINE N == 0 .. n
<1> HIDE DEF N
<1>4. IsFiniteSet(N) /\ OneBefore(n) \in [N -> SUBSET N]
      /\ \A S \in SUBSET N : S # {} => \E k \in S : OneBefore(n)[k] \cap S = {}
  BY <1>1, <1>2, <1>3 DEF N
<1> QED BY <1>4 DEF Acyclic, N

\* Induction on the first numbers.
LEMMA UpToThere ==
  ASSUME NEW n \in Nat, NEW P, 0 \in P, \A k \in 0 .. (n - 1) : k \in P => k + 1 \in P
  PROVE  \A k \in 0 .. n : k \in P
<1> DEFINE S == {k \in 0 .. n : k \notin P}
<1>1. ASSUME S # {} PROVE FALSE
  <2>1. PICK x \in S : \A y \in S : x <= y
    <3>1. S \in SUBSET (0 .. n)
      OBVIOUS
    <3> HIDE DEF S
    <3> QED BY <1>1, <3>1, LeastIsOne
  <2>2. x # 0 /\ x - 1 \in 0 .. (n - 1) /\ x - 1 \notin S
    BY <2>1
  <2>3. x - 1 \in P /\ (x - 1) + 1 = x
    BY <2>2
  <2> QED BY <2>2, <2>3
<1> QED BY <1>1

\* The steps of a fold over the first places of a list: each set of places follows the
\* one without its last.
BeforeLast(n) == [s \in SUBSET (1 .. n) |-> IF s = {} THEN {} ELSE {s \ {Max(s)}}]

\* That is a recursion like any other.
LEMMA PlacesAreOrdered == ASSUME NEW n \in Nat PROVE Acyclic(SUBSET (1 .. n), BeforeLast(n))
<1> DEFINE I == SUBSET (1 .. n)
<1>1. IsFiniteSet(1 .. n) /\ IsFiniteSet(I)
  <2>1. IsFiniteSet(1 .. n)
    BY FS_Interval
  <2> DEFINE N == 1 .. n
  <2> HIDE DEF N
  <2>2. IsFiniteSet(SUBSET N)
    BY <2>1, FS_SUBSET DEF N
  <2> QED BY <2>1, <2>2 DEF N
<1>2. BeforeLast(n) \in [I -> SUBSET I]
  BY DEF BeforeLast
<1>3. ASSUME NEW T \in SUBSET I, T # {} PROVE \E s \in T : BeforeLast(n)[s] \cap T = {}
  <2>1. PICK s \in T : \A u \in T : u \subseteq s => u = s
    <3> DEFINE N == 1 .. n
    <3>1. IsFiniteSet(N) /\ T \in SUBSET SUBSET N /\ T # {}
      BY <1>1, <1>3
    <3> HIDE DEF N, I
    <3> QED BY <3>1, MinimalSubset
  <2>2. s # {} => Max(s) \in s
    BY GreatestIsOne
  <2> QED BY <2>1, <2>2 DEF BeforeLast
<1> QED BY <1>1, <1>2, <1>3 DEF Acyclic

-----------------------------------------------------------------------------
(* Inequalities between sums, and quotients. *)

\* Products distribute over sums.
LEMMA Distributes == \A a, x, y \in Int : a * (x + y) = a * x + a * y /\ a * x \in Int
OBVIOUS

(* An inequality that holds for every element holds for the sums.          *)
LEMMA SumsCompare ==
  ASSUME NEW S, IsFiniteSet(S), NEW f, NEW u, NEW c \in Int, NEW d \in Int, NEW e \in Int,
         \A i \in S : f[i] \in Int /\ u[i] \in Int /\ c * f[i] <= d * u[i] + e
  PROVE  c * SumOver(f, S) <= d * SumOver(u, S) + e * Cardinality(S)
<1> DEFINE F == {T \in SUBSET S : c * SumOver(f, T) <= d * SumOver(u, T) + e * Cardinality(T)}
<1>1. ASSUME NEW T \in SUBSET S, \A U \in SUBSET T : U # T => U \in F PROVE T \in F
  <2>1. IsFiniteSet(T)
    BY FS_Subset
  <2>2. CASE T = {}
    <3>1. SumOver(f, T) = 0 /\ SumOver(u, T) = 0 /\ Cardinality(T) = 0
      BY <2>2, SumOfNone, FS_EmptySet
    <3> QED BY <3>1
  <2>3. CASE T # {}
    <3>1. PICK y \in T : TRUE
      BY <2>3
    <3>2. T \ {y} \in F /\ IsFiniteSet(T \ {y})
      BY <1>1, <2>1, <3>1, FS_Subset
    <3>3. /\ SumOver(f, T) = f[y] + SumOver(f, T \ {y}) /\ SumOver(f, T \ {y}) \in Int
          /\ SumOver(u, T) = u[y] + SumOver(u, T \ {y}) /\ SumOver(u, T \ {y}) \in Int
      BY <2>1, <3>1, <3>2, SumRemove, SumIsInt
    <3>4. Cardinality(T) = Cardinality(T \ {y}) + 1 /\ Cardinality(T \ {y}) \in Int
      BY <2>1, <3>1, <3>2, FS_RemoveElement, FS_CardinalityType
    <3>5. /\ f[y] \in Int /\ u[y] \in Int /\ c * f[y] <= d * u[y] + e
          /\ c * SumOver(f, T \ {y}) <= d * SumOver(u, T \ {y}) + e * Cardinality(T \ {y})
      BY <3>1, <3>2
    <3> DEFINE Sf == SumOver(f, T \ {y})
               Su == SumOver(u, T \ {y})
               n  == Cardinality(T \ {y})
    <3> HIDE DEF Sf, Su, n
    <3>a. f[y] \in Int /\ Sf \in Int /\ u[y] \in Int /\ Su \in Int /\ n \in Int
      BY <3>3, <3>4, <3>5 DEF Sf, Su, n
    <3>b. c * (f[y] + Sf) = c * f[y] + c * Sf /\ c * f[y] \in Int /\ c * Sf \in Int
      BY ONLY <3>a, Distributes, c \in Int
    <3>c. d * (u[y] + Su) = d * u[y] + d * Su /\ d * u[y] \in Int /\ d * Su \in Int
      BY ONLY <3>a, Distributes, d \in Int
    <3>d. e * (n + 1) = e * n + e * 1 /\ e * n \in Int
      BY ONLY <3>a, Distributes, e \in Int, 1 \in Int
    <3>6. /\ c * (f[y] + Sf) = c * f[y] + c * Sf /\ d * (u[y] + Su) = d * u[y] + d * Su
          /\ e * (n + 1) = e * n + e * 1
          /\ c * f[y] \in Int /\ c * Sf \in Int /\ d * u[y] \in Int /\ d * Su \in Int /\ e * n \in Int
      BY <3>b, <3>c, <3>d
    <3>7. c * (f[y] + Sf) <= d * (u[y] + Su) + e * (n + 1)
      BY <3>5, <3>6 DEF Sf, Su, n
    <3>8. c * SumOver(f, T) <= d * SumOver(u, T) + e * Cardinality(T)
      BY <3>3, <3>4, <3>7 DEF Sf, Su, n
    <3> QED BY <3>8
  <2> QED BY <2>2, <2>3
<1>2. S \in F
  <2> HIDE DEF F
  <2> QED BY <1>1, SubsetInduction
<1> QED BY <1>2

\* Numbers that are at least, or at most, in proportion add up in proportion.
LEMMA SumsInProportion ==
  ASSUME NEW S, IsFiniteSet(S), NEW f, NEW u, NEW c \in Int,
         \A i \in S : f[i] \in Int /\ u[i] \in Int
  PROVE  /\ (\A i \in S : c * f[i] <= u[i]) => c * SumOver(f, S) <= SumOver(u, S)
         /\ (\A i \in S : u[i] <= c * f[i]) => SumOver(u, S) <= c * SumOver(f, S)
<1>1. PICK d \in Int : d = 1
  OBVIOUS
<1>2. PICK e \in Int : e = 0
  OBVIOUS
<1>3. SumOver(f, S) \in Int /\ SumOver(u, S) \in Int /\ Cardinality(S) \in Nat
  BY SumIsInt, FS_CardinalityType
<1>4. /\ \A x \in Int : d * x = x /\ e * x = e /\ x + e = x /\ c * x \in Int
  BY <1>1, <1>2
<1>5. ASSUME \A i \in S : c * f[i] <= u[i] PROVE c * SumOver(f, S) <= SumOver(u, S)
  <2>1. \A i \in S : f[i] \in Int /\ u[i] \in Int /\ c * f[i] <= d * u[i] + e
    BY <1>4, <1>5
  <2>2. c * SumOver(f, S) <= d * SumOver(u, S) + e * Cardinality(S)
    BY <2>1, SumsCompare
  <2> QED BY <1>3, <1>4, <2>2
<1>6. ASSUME \A i \in S : u[i] <= c * f[i] PROVE SumOver(u, S) <= c * SumOver(f, S)
  <2>1. \A i \in S : u[i] \in Int /\ f[i] \in Int /\ d * u[i] <= c * f[i] + e
    BY <1>4, <1>6
  <2>2. d * SumOver(u, S) <= c * SumOver(f, S) + e * Cardinality(S)
    BY <2>1, SumsCompare
  <2>3. d * SumOver(u, S) = SumOver(u, S) /\ e * Cardinality(S) = e
    BY <1>3, <1>4
  <2>4. c * SumOver(f, S) + e = c * SumOver(f, S)
    BY <1>3, <1>4
  <2> QED BY <2>2, <2>3, <2>4
<1> QED BY <1>5, <1>6

\* As many numbers add up to no less than as often the least, and no more than as
\* often the greatest.
LEMMA SumsOfMany ==
  ASSUME NEW S, IsFiniteSet(S), NEW u, NEW c \in Int, \A i \in S : u[i] \in Int
  PROVE  /\ (\A i \in S : c <= u[i]) => c * Cardinality(S) <= SumOver(u, S)
         /\ (\A i \in S : u[i] <= c) => SumOver(u, S) <= c * Cardinality(S)
<1>1. PICK d \in Int : d = 1
  OBVIOUS
<1>2. PICK z \in Int : z = 0
  OBVIOUS
<1>3. SumOver(u, S) \in Int /\ Cardinality(S) \in Int
  BY SumIsInt, FS_CardinalityType
<1>4. PICK b \in Int : b = 0 - c
  OBVIOUS
<1>5. \A x \in Int : d * x = x /\ z * x = z /\ z + x = x /\ c * x \in Int /\ b * x = 0 - c * x
  BY <1>1, <1>2, <1>4
<1>6. ASSUME \A i \in S : c <= u[i] PROVE c * Cardinality(S) <= SumOver(u, S)
  <2>1. \A i \in S : u[i] \in Int /\ u[i] \in Int /\ z * u[i] <= d * u[i] + b
    BY <1>2, <1>4, <1>5, <1>6
  <2>2. z * SumOver(u, S) <= d * SumOver(u, S) + b * Cardinality(S)
    BY <2>1, SumsCompare
  <2>3. /\ z * SumOver(u, S) = z /\ d * SumOver(u, S) = SumOver(u, S)
        /\ b * Cardinality(S) = 0 - c * Cardinality(S) /\ c * Cardinality(S) \in Int
    BY <1>3, <1>5
  <2>4. 0 <= SumOver(u, S) + (0 - c * Cardinality(S))
    BY <1>2, <2>2, <2>3
  <2> DEFINE n == c * Cardinality(S)
  <2> HIDE DEF n
  <2>5. n <= SumOver(u, S)
    BY <1>3, <2>3, <2>4 DEF n
  <2> QED BY <2>5 DEF n
<1>7. ASSUME \A i \in S : u[i] <= c PROVE SumOver(u, S) <= c * Cardinality(S)
  <2>1. \A i \in S : u[i] \in Int /\ u[i] \in Int /\ d * u[i] <= z * u[i] + c
    BY <1>2, <1>5, <1>7
  <2>2. d * SumOver(u, S) <= z * SumOver(u, S) + c * Cardinality(S)
    BY <2>1, SumsCompare
  <2> QED BY <1>2, <1>3, <1>5, <2>2
<1> QED BY <1>6, <1>7

\* What is at least as big in any multiple is at least as big.
LEMMA Cancels ==
  ASSUME NEW t \in Nat \ {0}, NEW a \in Int, NEW b \in Int, t * a <= t * b
  PROVE  a <= b
<1>1. CASE a > b
  <2>1. PICK k \in Nat : a = b + (k + 1)
    <3>1. a - b - 1 \in Nat /\ a = b + ((a - b - 1) + 1)
      BY <1>1
    <3> QED BY <3>1
  <2>2. t * a = t * b + t * (k + 1) /\ t * (k + 1) = t * k + t /\ t * k \in Nat /\ t * b \in Int
    <3>1. \A x, y \in Nat : x * y \in Nat /\ x * (y + 1) = x * y + x
      OBVIOUS
    <3>2. t * (b + (k + 1)) = t * b + t * (k + 1) /\ t * b \in Int
      BY Distributes
    <3> QED BY <2>1, <3>1, <3>2
  <2> QED BY <2>2
<1> QED BY <1>1

\* One of finitely many numbers is the least, and one the greatest.
LEMMA FiniteHasEnds ==
  ASSUME NEW N, N \subseteq Int, IsFiniteSet(N), N # {}
  PROVE  /\ \E x \in N : \A y \in N : x <= y
         /\ \E x \in N : \A y \in N : y <= x
<1>1. \E x \in N : \A y \in N : x <= y
  <2> DEFINE Under(x) == {y \in N : y < x}
             B == {Under(x) : x \in N}
  <2>1. PICK T \in B : \A U \in B : U \subseteq T => U = T
    <3>1. B \in SUBSET SUBSET N
      OBVIOUS
    <3>2. B # {}
      OBVIOUS
    <3>3. IsFiniteSet(N)
      OBVIOUS
    <3> HIDE DEF B
    <3> QED BY ONLY <3>1, <3>2, <3>3, MinimalSubset
  <2>2. PICK x \in N : T = Under(x)
    OBVIOUS
  <2>3. ASSUME NEW y \in N, y < x PROVE FALSE
    <3>1. N \subseteq Int /\ x \in Int /\ y \in Int
      OBVIOUS
    <3>2. y \in T /\ y \notin Under(y)
      BY <2>2, <2>3, <3>1
    <3>3. Under(y) \subseteq Under(x)
      <4>1. \A z \in N : z < y => z < x
        BY <2>3, <3>1
      <4> QED BY <4>1
    <3>4. Under(y) \in B
      OBVIOUS
    <3> QED BY <2>1, <2>2, <3>2, <3>3, <3>4
  <2> QED BY <2>2, <2>3
<1>2. \E x \in N : \A y \in N : y <= x
  <2> DEFINE Over(x) == {y \in N : y > x}
             B == {Over(x) : x \in N}
  <2>1. PICK T \in B : \A U \in B : U \subseteq T => U = T
    <3>1. B \in SUBSET SUBSET N
      OBVIOUS
    <3>2. B # {}
      OBVIOUS
    <3>3. IsFiniteSet(N)
      OBVIOUS
    <3> HIDE DEF B
    <3> QED BY ONLY <3>1, <3>2, <3>3, MinimalSubset
  <2>2. PICK x \in N : T = Over(x)
    OBVIOUS
  <2>3. ASSUME NEW y \in N, y > x PROVE FALSE
    <3>1. N \subseteq Int /\ x \in Int /\ y \in Int
      OBVIOUS
    <3>2. y \in T /\ y \notin Over(y)
      BY <2>2, <2>3, <3>1
    <3>3. Over(y) \subseteq Over(x)
      <4>1. \A z \in N : z > y => z > x
        BY <2>3, <3>1
      <4> QED BY <4>1
    <3>4. Over(y) \in B
      OBVIOUS
    <3> QED BY <2>1, <2>2, <3>2, <3>3, <3>4
  <2> QED BY <2>2, <2>3
<1> QED BY <1>1, <1>2

\* A quotient is rounded down.
LEMMA Quotient ==
  ASSUME NEW x \in Int, NEW d \in Nat \ {0}
  PROVE  /\ x \div d \in Int
         /\ d * (x \div d) <= x /\ x < d * (x \div d) + d
<1> QED OBVIOUS

=============================================================================
