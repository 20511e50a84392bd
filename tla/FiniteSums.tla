----------------------------- MODULE FiniteSums -----------------------------
(***************************************************************************)
(* What sums and products over finite sets are, for the proofs about the   *)
(* modules that count with MapThenSumSet and MapThenFoldSet: both satisfy  *)
(* the equation that defines them, a sum may be taken in any order, and    *)
(* what follows for sums that are bounded or changed in one term.          *)
(*                                                                         *)
(* Induction is on finite sets, as a minimal counterexample.               *)
(***************************************************************************)
EXTENDS Integers, FiniteSets, FiniteSetsExt, FiniteSetTheorems, WellFoundedInduction, TLAPS

\* The element a fold takes from a set first.
Pick(s) == CHOOSE x \in s : TRUE

Rest(s) == s \ {Pick(s)}

\* The sum of w[x] for x in S.
SumOver(w, S) == MapThenSumSet(LAMBDA x : w[x], S)

\* f gives each subset of S its sum, or its product, taken in the order of Pick.
Sums(f, w, S) ==
  f = [s \in SUBSET S |-> IF s = {} THEN 0 ELSE w[Pick(s)] + f[Rest(s)]]

Products(f, w, S) ==
  f = [s \in SUBSET S |-> IF s = {} THEN 1 ELSE w[Pick(s)] * f[Rest(s)]]

\* The same for any step from an element and a value to a value.
Folds(f, step, base, S) ==
  f = [s \in SUBSET S |-> IF s = {} THEN base ELSE step[<<Pick(s), f[Rest(s)]>>]]

-----------------------------------------------------------------------------
\* Of some subsets of a finite set one has no other of them inside.
LEMMA MinimalSubset ==
  ASSUME NEW S, IsFiniteSet(S), NEW D \in SUBSET (SUBSET S), D # {}
  PROVE  \E s \in D : \A r \in D : r \subseteq s => r = s
<1>1. IsWellFoundedOn(StrictSubsetOrdering(S), SUBSET S)
  BY FS_StrictSubsetOrderingWellFounded, FS_FiniteSubsetsOfFinite
<1>2. PICK s \in D : \A r \in D : ~(<<r, s>> \in StrictSubsetOrdering(S))
  BY <1>1, WFMin, Zenon
<1> QED
  BY <1>2 DEF StrictSubsetOrdering

\* Induction on the subsets of a finite set, one element at a time.
LEMMA SubsetInduction ==
  ASSUME NEW S, IsFiniteSet(S), NEW G, {} \in G,
         \A s \in SUBSET S : \A x \in s : s \ {x} \in G => s \in G
  PROVE  S \in G
<1> DEFINE D == {s \in SUBSET S : s \notin G}
<1>1. SUFFICES ASSUME D # {} PROVE FALSE
  OBVIOUS
<1>2. PICK s \in D : \A r \in D : r \subseteq s => r = s
  <2>1. D \in SUBSET (SUBSET S)
    OBVIOUS
  <2> HIDE DEF D
  <2> QED
    BY <1>1, <2>1, MinimalSubset
<1>3. PICK x \in s : TRUE
  BY <1>2
<1>4. s \ {x} \notin D /\ s \ {x} \in SUBSET S
  BY <1>2, <1>3
<1> QED
  BY <1>2, <1>3, <1>4

\* A nonempty set has a first element.
LEMMA PickIs ==
  ASSUME NEW s, s # {}
  PROVE  Pick(s) \in s /\ Rest(s) \subseteq s /\ Rest(s) # s
BY DEF Pick, Rest

\* Two folds agree on the sets both are about.
LEMMA FoldsAgree ==
  ASSUME NEW S, IsFiniteSet(S), NEW T, NEW U, S \subseteq T, S \subseteq U,
         NEW step, NEW base, NEW f, NEW g, Folds(f, step, base, T), Folds(g, step, base, U)
  PROVE  f[S] = g[S]
<1> DEFINE D == {s \in SUBSET S : f[s] # g[s]}
<1>1. SUFFICES ASSUME D # {} PROVE FALSE
  OBVIOUS
<1>2. PICK s \in D : \A r \in D : r \subseteq s => r = s
  <2>1. D \in SUBSET (SUBSET S)
    OBVIOUS
  <2> HIDE DEF D
  <2> QED
    BY <1>1, <2>1, MinimalSubset
<1>3. s \in SUBSET T /\ s \in SUBSET U
  BY <1>2
<1>4. s # {}
  BY <1>2, <1>3 DEF Folds
<1>5. Rest(s) \in SUBSET S /\ Rest(s) \notin D
  BY <1>2, <1>4, PickIs
<1>6. f[s] = step[<<Pick(s), f[Rest(s)]>>] /\ g[s] = step[<<Pick(s), g[Rest(s)]>>]
  BY <1>3, <1>4 DEF Folds
<1> QED
  BY <1>2, <1>5, <1>6

\* There is a fold over every finite set, and its values are of the type of the
\* step's.
LEMMA FoldExists ==
  ASSUME NEW S, IsFiniteSet(S), NEW V, NEW base \in V, NEW step \in [S \X V -> V]
  PROVE  \E f \in [SUBSET S -> V] : Folds(f, step, base, S)
<1> DEFINE Part(T) == CHOOSE f \in [SUBSET T -> V] : Folds(f, step, base, T)
           Has(T) == \E f \in [SUBSET T -> V] : Folds(f, step, base, T)
           D == {T \in SUBSET S : ~Has(T)}
<1>1. SUFFICES ASSUME D # {} PROVE FALSE
  OBVIOUS
<1>2. PICK T \in D : \A U \in D : U \subseteq T => U = T
  <2>1. D \in SUBSET (SUBSET S)
    OBVIOUS
  <2> HIDE DEF D
  <2> QED
    BY <1>1, <2>1, MinimalSubset
<1>3. ASSUME NEW U, U \subseteq T, U # T
      PROVE  Part(U) \in [SUBSET U -> V] /\ Folds(Part(U), step, base, U)
  BY <1>2, <1>3
<1> DEFINE f == [s \in SUBSET T |->
                   IF s = {} THEN base
                   ELSE step[<<Pick(s), Part(Rest(s))[Rest(s)]>>]]
<1> HIDE DEF Part
<1>4. f \in [SUBSET T -> V]
  <2>1. ASSUME NEW s \in SUBSET T, s # {}
        PROVE  step[<<Pick(s), Part(Rest(s))[Rest(s)]>>] \in V
    <3>1. Pick(s) \in S /\ Rest(s) \subseteq T /\ Rest(s) # T
      <4>1. Pick(s) \in s /\ Rest(s) = s \ {Pick(s)}
        BY <2>1, PickIs DEF Rest
      <4>2. T \subseteq S
        BY <1>2
      <4> QED
        BY <2>1, <4>1, <4>2
    <3>2. Part(Rest(s)) \in [SUBSET Rest(s) -> V]
      BY <1>3, <3>1
    <3>3. Part(Rest(s))[Rest(s)] \in V
      BY <3>2
    <3> QED
      BY <3>1, <3>3
  <2> QED
    BY <2>1
<1>5. ASSUME NEW s \in SUBSET T, s # T
      PROVE  f[s] = Part(s)[s]
  <2>0. Folds(Part(s), step, base, s) /\ s \in SUBSET s
    BY <1>3, <1>5
  <2>1. CASE s = {}
    BY <2>0, <2>1 DEF Folds
  <2>2. CASE s # {}
    <3>1. Rest(s) \subseteq s /\ Rest(s) \subseteq T /\ Rest(s) # T /\ IsFiniteSet(Rest(s))
      BY <1>2, <1>5, <2>2, PickIs, FS_Subset
    <3>2. Folds(Part(Rest(s)), step, base, Rest(s))
      BY <1>3, <3>1
    <3>3. Part(s)[Rest(s)] = Part(Rest(s))[Rest(s)]
      BY <2>0, <3>1, <3>2, FoldsAgree
    <3>4. Part(s)[s] = step[<<Pick(s), Part(s)[Rest(s)]>>]
      BY <2>0, <2>2 DEF Folds
    <3> QED
      BY <2>2, <3>3, <3>4
  <2> QED
    BY <2>1, <2>2
<1>6. ASSUME NEW s \in SUBSET T, s # {}
      PROVE  f[Rest(s)] = Part(Rest(s))[Rest(s)]
  <2>1. Rest(s) \in SUBSET T /\ Rest(s) # T
    BY <1>6, PickIs
  <2> QED
    BY <1>5, <2>1
<1>7. Folds(f, step, base, T)
  <2>1. \A s \in SUBSET T :
          (IF s = {} THEN base ELSE step[<<Pick(s), Part(Rest(s))[Rest(s)]>>])
            = (IF s = {} THEN base ELSE step[<<Pick(s), f[Rest(s)]>>])
    <3> HIDE DEF f
    <3> QED
      BY <1>6
  <2>2. f = [s \in SUBSET T |-> IF s = {} THEN base ELSE step[<<Pick(s), f[Rest(s)]>>]]
    BY <2>1
  <2> QED
    BY <2>2 DEF Folds
<1> QED
  BY <1>2, <1>4, <1>7

-----------------------------------------------------------------------------
(* Sums *)
\* The sums of the subsets of a finite set exist, and are integers if the terms
\* are.
LEMMA SumsExist ==
  ASSUME NEW S, IsFiniteSet(S), NEW w, \A x \in S : w[x] \in Int
  PROVE  \E f \in [SUBSET S -> Int] : Sums(f, w, S)
<1> DEFINE step == [p \in S \X Int |-> w[p[1]] + p[2]]
<1>1. step \in [S \X Int -> Int]
  OBVIOUS
<1>2. PICK f \in [SUBSET S -> Int] : Folds(f, step, 0, S)
  <2>1. 0 \in Int
    OBVIOUS
  <2> HIDE DEF step
  <2> QED
    BY <1>1, <2>1, FoldExists, Zenon
<1>3. ASSUME NEW s \in SUBSET S, s # {}
      PROVE  step[<<Pick(s), f[Rest(s)]>>] = w[Pick(s)] + f[Rest(s)]
  <2>1. Pick(s) \in S /\ Rest(s) \in SUBSET S
    BY <1>3, PickIs
  <2>2. f[Rest(s)] \in Int
    BY <1>2, <2>1
  <2> QED
    BY <2>1, <2>2
<1>4. f = [s \in SUBSET S |-> IF s = {} THEN 0 ELSE w[Pick(s)] + f[Rest(s)]]
  <2> HIDE DEF step
  <2>1. f = [s \in SUBSET S |-> IF s = {} THEN 0 ELSE step[<<Pick(s), f[Rest(s)]>>]]
    BY <1>2 DEF Folds
  <2> QED
    BY <1>3, <2>1
<1> QED
  BY <1>2, <1>4 DEF Sums

\* Two such functions agree on the sets both are about.
LEMMA SumsAgree ==
  ASSUME NEW S, IsFiniteSet(S), NEW T, NEW U, S \subseteq T, S \subseteq U,
         NEW w, NEW v, \A x \in S : w[x] = v[x],
         NEW f, NEW g, Sums(f, w, T), Sums(g, v, U)
  PROVE  f[S] = g[S]
<1> DEFINE D == {s \in SUBSET S : f[s] # g[s]}
<1>1. SUFFICES ASSUME D # {} PROVE FALSE
  OBVIOUS
<1>2. PICK s \in D : \A r \in D : r \subseteq s => r = s
  <2>1. D \in SUBSET (SUBSET S)
    OBVIOUS
  <2> HIDE DEF D
  <2> QED
    BY <1>1, <2>1, MinimalSubset
<1>3. s \in SUBSET T /\ s \in SUBSET U
  BY <1>2
<1>4. s # {}
  BY <1>2, <1>3 DEF Sums
<1>5. Rest(s) \in SUBSET S /\ Rest(s) \notin D /\ Pick(s) \in S
  BY <1>2, <1>4, PickIs
<1>6. f[s] = w[Pick(s)] + f[Rest(s)] /\ g[s] = v[Pick(s)] + g[Rest(s)]
  BY <1>3, <1>4 DEF Sums
<1> QED
  BY <1>2, <1>5, <1>6

\* SumOver is one of these sums.
LEMMA SumOverIs ==
  ASSUME NEW T, IsFiniteSet(T), NEW S \in SUBSET T, NEW w, \A x \in T : w[x] \in Int,
         NEW f, Sums(f, w, T)
  PROVE  SumOver(w, S) = f[S]
<1> DEFINE g == CHOOSE g : Sums(g, w, S)
<1>1. IsFiniteSet(S)
  BY FS_Subset
<1>2. Sums(g, w, S)
  BY <1>1, SumsExist
<1>3. SumOver(w, S) = g[S]
  BY DEF SumOver, MapThenSumSet, MapThenFoldSet, Sums, Pick, Rest
<1> HIDE DEF g
<1>4. f[S] = g[S]
  BY <1>1, <1>2, SumsAgree
<1> QED
  BY <1>3, <1>4

\* The equation of sums, the element taken out being the one Pick names.
LEMMA SumEquation ==
  ASSUME NEW S, IsFiniteSet(S), NEW w, \A x \in S : w[x] \in Int
  PROVE  /\ SumOver(w, S) \in Int
         /\ S = {} => SumOver(w, S) = 0
         /\ S # {} => SumOver(w, S) = w[Pick(S)] + SumOver(w, Rest(S))
<1>1. PICK f \in [SUBSET S -> Int] : Sums(f, w, S)
  BY SumsExist
<1>2. \A s \in SUBSET S : SumOver(w, s) = f[s]
  BY <1>1, SumOverIs
<1>3. S # {} => Rest(S) \in SUBSET S
  BY PickIs
<1>4. S \in SUBSET S
  OBVIOUS
<1>5. S = {} => f[S] = 0
  BY <1>1, <1>4 DEF Sums
<1>6. S # {} => f[S] = w[Pick(S)] + f[Rest(S)]
  BY <1>1, <1>4 DEF Sums
<1> QED
  BY <1>1, <1>2, <1>3, <1>4, <1>5, <1>6

\* Any element may be taken out of a sum.
LEMMA SumRemove ==
  ASSUME NEW S, IsFiniteSet(S), NEW w, \A y \in S : w[y] \in Int, NEW x \in S
  PROVE  SumOver(w, S) = w[x] + SumOver(w, S \ {x})
<1> DEFINE D == {s \in SUBSET S : \E z \in s : SumOver(w, s) # w[z] + SumOver(w, s \ {z})}
<1>1. SUFFICES ASSUME D # {} PROVE FALSE
  <2>1. S \in SUBSET S
    OBVIOUS
  <2> QED
    BY <1>1, <2>1
<1>2. PICK s \in D : \A r \in D : r \subseteq s => r = s
  <2>1. D \in SUBSET (SUBSET S)
    OBVIOUS
  <2> HIDE DEF D
  <2> QED
    BY <1>1, <2>1, MinimalSubset
<1>3. PICK z \in s : SumOver(w, s) # w[z] + SumOver(w, s \ {z})
  BY <1>2
<1> DEFINE y == Pick(s)
<1>4. y \in s /\ s \subseteq S
  BY <1>2, <1>3, PickIs
<1>5. \A r \in SUBSET S : IsFiniteSet(r) /\ SumOver(w, r) \in Int
  <2> TAKE r \in SUBSET S
  <2>1. IsFiniteSet(r)
    BY FS_Subset
  <2>2. \A q \in r : w[q] \in Int
    OBVIOUS
  <2> QED
    BY <2>1, <2>2, SumEquation
<1>6. SumOver(w, s) = w[y] + SumOver(w, s \ {y})
  <2>1. \A q \in s : w[q] \in Int
    BY <1>4
  <2> QED
    BY <1>4, <1>5, <2>1, SumEquation DEF Rest
<1>7. y # z
  BY <1>3, <1>6
<1>8. SumOver(w, s \ {y}) = w[z] + SumOver(w, (s \ {y}) \ {z})
  <2>1. s \ {y} \notin D /\ s \ {y} \in SUBSET S /\ z \in s \ {y}
    BY <1>2, <1>3, <1>4, <1>7
  <2> QED
    BY <2>1
<1>9. SumOver(w, s \ {z}) = w[y] + SumOver(w, (s \ {z}) \ {y})
  <2>1. s \ {z} \notin D /\ s \ {z} \in SUBSET S /\ y \in s \ {z}
    BY <1>2, <1>3, <1>4, <1>7
  <2> QED
    BY <2>1
<1>10. (s \ {y}) \ {z} = (s \ {z}) \ {y}
  OBVIOUS
<1>11. /\ w[y] \in Int /\ w[z] \in Int
       /\ SumOver(w, (s \ {y}) \ {z}) \in Int
  <2>1. (s \ {y}) \ {z} \in SUBSET S
    BY <1>4
  <2> QED
    BY <1>3, <1>4, <1>5, <2>1
<1> QED
  BY <1>3, <1>6, <1>8, <1>9, <1>10, <1>11

\* Sums of the same terms are the same.
LEMMA SumSame ==
  ASSUME NEW S, IsFiniteSet(S), NEW w, NEW v, \A x \in S : w[x] \in Int /\ v[x] = w[x]
  PROVE  SumOver(v, S) = SumOver(w, S)
<1>1. PICK f \in [SUBSET S -> Int] : Sums(f, w, S)
  BY SumsExist
<1>2. PICK g \in [SUBSET S -> Int] : Sums(g, v, S)
  BY SumsExist
<1>3. f[S] = g[S]
  BY <1>1, <1>2, SumsAgree
<1>4. SumOver(w, S) = f[S] /\ SumOver(v, S) = g[S]
  <2>1. S \in SUBSET S /\ \A x \in S : v[x] \in Int
    OBVIOUS
  <2> QED
    BY <1>1, <1>2, <2>1, SumOverIs
<1> QED
  BY <1>3, <1>4

\* A sum changes by what one term changes.
LEMMA SumChange ==
  ASSUME NEW S, IsFiniteSet(S), NEW w, NEW v, NEW x \in S,
         \A y \in S : w[y] \in Int /\ v[y] \in Int,
         \A y \in S \ {x} : v[y] = w[y]
  PROVE  /\ SumOver(w, S) \in Int /\ SumOver(v, S) \in Int
         /\ SumOver(v, S) = SumOver(w, S) + (v[x] - w[x])
<1>1. SumOver(w, S) = w[x] + SumOver(w, S \ {x})
  BY SumRemove
<1>2. SumOver(v, S) = v[x] + SumOver(v, S \ {x})
  BY SumRemove
<1>3. IsFiniteSet(S \ {x})
  BY FS_RemoveElement
<1>4. SumOver(v, S \ {x}) = SumOver(w, S \ {x})
  BY <1>3, SumSame
<1>5. SumOver(w, S \ {x}) \in Int
  BY <1>3, SumEquation
<1> QED
  BY <1>1, <1>2, <1>4, <1>5

\* A sum of equal terms.
LEMMA SumConstant ==
  ASSUME NEW S, IsFiniteSet(S), NEW c \in Int, NEW w, \A x \in S : w[x] = c
  PROVE  SumOver(w, S) = c * Cardinality(S)
<1> DEFINE G == {s \in SUBSET S : SumOver(w, s) = c * Cardinality(s)}
<1>1. {} \in G
  <2>1. SumOver(w, {}) = 0 /\ Cardinality({}) = 0
    BY SumEquation, FS_EmptySet
  <2> QED
    BY <2>1
<1>2. ASSUME NEW s \in SUBSET S, NEW x \in s, s \ {x} \in G
      PROVE  s \in G
  <2>1. IsFiniteSet(s) /\ \A y \in s : w[y] \in Int
    BY FS_Subset
  <2>2. SumOver(w, s) = c + SumOver(w, s \ {x})
    BY <2>1, SumRemove
  <2>3. Cardinality(s \ {x}) = Cardinality(s) - 1 /\ Cardinality(s) \in Nat
    BY <2>1, FS_RemoveElement, FS_CardinalityType
  <2>4. SumOver(w, s \ {x}) = c * (Cardinality(s) - 1)
    BY <1>2, <2>3
  <2>5. \A n \in Nat : c + c * (n - 1) = c * n
    OBVIOUS
  <2>6. SumOver(w, s) = c * Cardinality(s)
    BY <2>2, <2>3, <2>4, <2>5
  <2> QED
    BY <2>6
<1>3. S \in G
  <2> HIDE DEF G
  <2> QED
    BY <1>1, <1>2, SubsetInduction
<1> QED
  BY <1>3

\* Terms that compare, each scaled by the same factors, have sums that compare.
LEMMA SumScaled ==
  ASSUME NEW S, IsFiniteSet(S), NEW q, NEW a, NEW c \in Int, NEW p \in Int,
         \A x \in S : q[x] \in Int /\ a[x] \in Int /\ q[x] * c <= a[x] * p
  PROVE  /\ SumOver(q, S) \in Int /\ SumOver(a, S) \in Int
         /\ SumOver(q, S) * c <= SumOver(a, S) * p
<1> DEFINE G == {s \in SUBSET S : SumOver(q, s) * c <= SumOver(a, s) * p}
<1>0. \A s \in SUBSET S : IsFiniteSet(s) /\ SumOver(q, s) \in Int /\ SumOver(a, s) \in Int
  <2> TAKE s \in SUBSET S
  <2>1. IsFiniteSet(s) /\ \A x \in s : q[x] \in Int /\ a[x] \in Int
    BY FS_Subset
  <2> QED
    BY <2>1, SumEquation
<1>1. {} \in G
  <2>1. SumOver(q, {}) = 0 /\ SumOver(a, {}) = 0
    BY SumEquation, FS_EmptySet
  <2> QED
    BY <2>1
<1>2. ASSUME NEW s \in SUBSET S, NEW x \in s, s \ {x} \in G
      PROVE  s \in G
  <2>1. IsFiniteSet(s) /\ \A y \in s : q[y] \in Int /\ a[y] \in Int
    BY <1>0
  <2>2. /\ SumOver(q, s) = q[x] + SumOver(q, s \ {x})
        /\ SumOver(a, s) = a[x] + SumOver(a, s \ {x})
    BY <2>1, SumRemove
  <2>3. /\ SumOver(q, s \ {x}) \in Int /\ SumOver(a, s \ {x}) \in Int
        /\ q[x] \in Int /\ a[x] \in Int /\ q[x] * c <= a[x] * p
        /\ SumOver(q, s \ {x}) * c <= SumOver(a, s \ {x}) * p
    <3>1. s \ {x} \in SUBSET S /\ x \in S
      OBVIOUS
    <3> QED
      BY <1>0, <1>2, <3>1
  <2>4. \A m, n \in Int : (m + n) * c = m * c + n * c /\ (m + n) * p = m * p + n * p
    OBVIOUS
  <2>5. \A m \in Int : m * c \in Int /\ m * p \in Int
    OBVIOUS
  <2>6. SumOver(q, s) * c <= SumOver(a, s) * p
    <3> DEFINE m == SumOver(q, s \ {x})
               n == SumOver(a, s \ {x})
    <3>1. m \in Int /\ n \in Int /\ m * c <= n * p
      BY <2>3
    <3> HIDE DEF m, n
    <3>2. (q[x] + m) * c = q[x] * c + m * c /\ (a[x] + n) * p = a[x] * p + n * p
      BY <2>3, <2>4, <3>1
    <3>3. q[x] * c + m * c <= a[x] * p + n * p
      BY <2>3, <2>5, <3>1
    <3> QED
      BY <2>2, <3>2, <3>3 DEF m, n
  <2> QED
    BY <2>6
<1>3. S \in G
  <2> HIDE DEF G
  <2> QED
    BY <1>1, <1>2, SubsetInduction
<1> QED
  BY <1>0, <1>3

\* A sum of terms that are not negative is no less than each of them.
LEMMA SumAtLeast ==
  ASSUME NEW S, IsFiniteSet(S), NEW w, \A x \in S : w[x] \in Nat
  PROVE  SumOver(w, S) \in Nat /\ \A x \in S : w[x] <= SumOver(w, S)
<1>0. ASSUME NEW T \in SUBSET S PROVE SumOver(w, T) \in Nat
  <2> DEFINE zero == [x \in T |-> 0]
  <2>1. IsFiniteSet(T)
    BY FS_Subset
  <2>2. SumOver(zero, T) = 0 * Cardinality(T) /\ Cardinality(T) \in Nat
    BY <2>1, SumConstant, FS_CardinalityType
  <2>3. \A x \in T : zero[x] \in Int /\ w[x] \in Int /\ zero[x] * 1 <= w[x] * 1
    OBVIOUS
  <2> HIDE DEF zero
  <2>4. SumOver(w, T) \in Int /\ SumOver(zero, T) * 1 <= SumOver(w, T) * 1
    BY <2>1, <2>3, SumScaled
  <2> QED
    BY <2>2, <2>4
<1>1. ASSUME NEW x \in S PROVE w[x] <= SumOver(w, S)
  <2>1. SumOver(w, S) = w[x] + SumOver(w, S \ {x})
    BY SumRemove
  <2>2. SumOver(w, S \ {x}) \in Nat
    BY <1>0
  <2> QED
    BY <2>1, <2>2
<1> QED
  BY <1>0, <1>1

\* A sum of terms up to c is no more than c times their number, and less if
\* one of them is less than c.
LEMMA SumAtMost ==
  ASSUME NEW S, IsFiniteSet(S), NEW c \in Int, NEW w, \A x \in S : w[x] \in Int /\ w[x] <= c
  PROVE  /\ SumOver(w, S) \in Int /\ Cardinality(S) \in Nat
         /\ SumOver(w, S) <= c * Cardinality(S)
         /\ (\E x \in S : w[x] < c) => SumOver(w, S) < c * Cardinality(S)
<1>1. ASSUME NEW T \in SUBSET S
      PROVE  /\ SumOver(w, T) \in Int /\ Cardinality(T) \in Nat
             /\ SumOver(w, T) <= c * Cardinality(T)
  <2> DEFINE top == [x \in T |-> c]
  <2>1. IsFiniteSet(T) /\ Cardinality(T) \in Nat
    BY FS_Subset, FS_CardinalityType
  <2>2. \A x \in T : w[x] \in Int /\ top[x] = c /\ top[x] \in Int /\ w[x] * 1 <= top[x] * 1
    OBVIOUS
  <2> HIDE DEF top
  <2>3. SumOver(w, T) \in Int /\ SumOver(top, T) \in Int /\ SumOver(w, T) * 1 <= SumOver(top, T) * 1
    BY <2>1, <2>2, SumScaled
  <2>4. SumOver(top, T) = c * Cardinality(T)
    BY <2>1, <2>2, SumConstant
  <2> QED
    BY <2>1, <2>3, <2>4
<1>2. ASSUME NEW x \in S, w[x] < c
      PROVE  SumOver(w, S) < c * Cardinality(S)
  <2> DEFINE rest == S \ {x}
             n == Cardinality(rest)
  <2>1. SumOver(w, S) = w[x] + SumOver(w, rest)
    BY SumRemove
  <2>2. SumOver(w, rest) \in Int /\ n \in Nat /\ SumOver(w, rest) <= c * n
    BY <1>1
  <2>3. Cardinality(S) = n + 1
    <3>1. n = Cardinality(S) - 1
      BY FS_RemoveElement
    <3> QED
      BY <1>1, <3>1
  <2> HIDE DEF n, rest
  <2>4. c * (n + 1) = c * n + c /\ c * n \in Int
    BY <2>2
  <2>5. w[x] \in Int
    OBVIOUS
  <2> QED
    BY <1>2, <2>1, <2>2, <2>3, <2>4, <2>5
<1> QED
  BY <1>1, <1>2

\* The sum of two sums.
LEMMA SumPlus ==
  ASSUME NEW S, IsFiniteSet(S), NEW w, NEW v, NEW u,
         \A x \in S : w[x] \in Int /\ v[x] \in Int /\ u[x] = w[x] + v[x]
  PROVE  /\ SumOver(w, S) \in Int /\ SumOver(v, S) \in Int
         /\ SumOver(u, S) = SumOver(w, S) + SumOver(v, S)
<1> DEFINE G == {s \in SUBSET S : SumOver(u, s) = SumOver(w, s) + SumOver(v, s)}
<1>0. \A s \in SUBSET S : /\ IsFiniteSet(s)
                          /\ SumOver(w, s) \in Int /\ SumOver(v, s) \in Int
  <2> TAKE s \in SUBSET S
  <2>1. IsFiniteSet(s) /\ \A x \in s : w[x] \in Int /\ v[x] \in Int
    BY FS_Subset
  <2> QED
    BY <2>1, SumEquation
<1>1. {} \in G
  <2>1. SumOver(u, {}) = 0 /\ SumOver(w, {}) = 0 /\ SumOver(v, {}) = 0
    BY SumEquation, FS_EmptySet
  <2> QED
    BY <2>1
<1>2. ASSUME NEW s \in SUBSET S, NEW x \in s, s \ {x} \in G
      PROVE  s \in G
  <2>1. IsFiniteSet(s) /\ \A y \in s : w[y] \in Int /\ v[y] \in Int /\ u[y] \in Int
    BY <1>0
  <2>2. /\ SumOver(u, s) = u[x] + SumOver(u, s \ {x})
        /\ SumOver(w, s) = w[x] + SumOver(w, s \ {x})
        /\ SumOver(v, s) = v[x] + SumOver(v, s \ {x})
    BY <2>1, SumRemove
  <2>3. /\ SumOver(w, s \ {x}) \in Int /\ SumOver(v, s \ {x}) \in Int
        /\ w[x] \in Int /\ v[x] \in Int /\ u[x] = w[x] + v[x]
        /\ SumOver(u, s \ {x}) = SumOver(w, s \ {x}) + SumOver(v, s \ {x})
    BY <1>0, <1>2
  <2>4. SumOver(u, s) = SumOver(w, s) + SumOver(v, s)
    BY <2>2, <2>3
  <2> QED
    BY <2>4
<1>3. S \in G
  <2> HIDE DEF G
  <2> QED
    BY <1>1, <1>2, SubsetInduction
<1> QED
  BY <1>0, <1>3

\* The sum of some of the terms is no more than that of all, if none is negative.
LEMMA SumOfPart ==
  ASSUME NEW S, IsFiniteSet(S), NEW w, \A x \in S : w[x] \in Nat, NEW T \in SUBSET S
  PROVE  SumOver(w, T) <= SumOver(w, S)
<1> DEFINE G == {s \in SUBSET S : SumOver(w, s \cap T) <= SumOver(w, s)}
<1>0. \A s \in SUBSET S : IsFiniteSet(s) /\ SumOver(w, s) \in Int
  <2> TAKE s \in SUBSET S
  <2>1. IsFiniteSet(s) /\ \A x \in s : w[x] \in Int
    BY FS_Subset
  <2> QED
    BY <2>1, SumEquation
<1>1. {} \in G
  <2>1. SumOver(w, {}) = 0 /\ {} \cap T = {}
    BY SumEquation, FS_EmptySet
  <2> QED
    BY <2>1
<1>2. ASSUME NEW s \in SUBSET S, NEW x \in s, s \ {x} \in G
      PROVE  s \in G
  <2> DEFINE r == s \ {x}
             t == s \cap T
  <2>1. SumOver(w, s) = w[x] + SumOver(w, r)
    BY <1>0, SumRemove
  <2>2. /\ SumOver(w, r) \in Int /\ SumOver(w, r \cap T) \in Int
        /\ IsFiniteSet(t) /\ w[x] \in Nat
        /\ SumOver(w, r \cap T) <= SumOver(w, r)
    <3>1. r \in SUBSET S /\ r \cap T \in SUBSET S /\ t \in SUBSET S
      OBVIOUS
    <3> QED
      BY <1>0, <1>2, <3>1
  <2>3. CASE x \in T
    <3>1. r \cap T = t \ {x} /\ x \in t /\ \A y \in t : w[y] \in Int
      BY <2>3
    <3> HIDE DEF r, t
    <3>2. SumOver(w, t) = w[x] + SumOver(w, t \ {x})
      BY <2>2, <3>1, SumRemove
    <3>3. SumOver(w, t) <= SumOver(w, s)
      BY <2>1, <2>2, <3>1, <3>2
    <3> QED
      BY <3>3 DEF t
  <2>4. CASE x \notin T
    <3>1. r \cap T = t
      BY <2>4
    <3> HIDE DEF r, t
    <3>2. SumOver(w, t) <= SumOver(w, s)
      BY <2>1, <2>2, <3>1
    <3> QED
      BY <3>2 DEF t
  <2> QED
    BY <2>3, <2>4
<1>3. S \in G
  <2> HIDE DEF G
  <2> QED
    BY <1>1, <1>2, SubsetInduction
<1>4. S \cap T = T
  OBVIOUS
<1> QED
  BY <1>3, <1>4

\* The terms of a sum may be renamed.
LEMMA SumRenamed ==
  ASSUME NEW S, IsFiniteSet(S), NEW T, NEW f \in Bijection(S, T), NEW v, NEW w,
         \A x \in S : v[x] \in Int /\ w[f[x]] = v[x]
  PROVE  SumOver(v, S) = SumOver(w, T)
<1> DEFINE image(s) == {f[x] : x \in s}
           G == {s \in SUBSET S : IsFiniteSet(image(s)) /\ SumOver(v, s) = SumOver(w, image(s))}
<1>0. /\ \A x \in S : f[x] \in T
      /\ \A x, y \in S : f[x] = f[y] => x = y
      /\ \A t \in T : \E x \in S : f[x] = t
  BY DEF Bijection, Injection, IsInjective, Surjection
<1>1. {} \in G
  <2>1. SumOver(v, {}) = 0 /\ SumOver(w, {}) = 0 /\ image({}) = {} /\ IsFiniteSet({})
    BY SumEquation, FS_EmptySet
  <2> QED
    BY <2>1
<1>2. ASSUME NEW s \in SUBSET S, NEW x \in s, s \ {x} \in G
      PROVE  s \in G
  <2>1. IsFiniteSet(s) /\ \A y \in s : v[y] \in Int
    BY FS_Subset
  <2>2. SumOver(v, s) = v[x] + SumOver(v, s \ {x})
    BY <2>1, SumRemove
  <2>3. image(s \ {x}) = image(s) \ {f[x]} /\ image(s) = image(s \ {x}) \cup {f[x]}
        /\ f[x] \in image(s)
    BY <1>0
  <2>4. \A z \in image(s) : w[z] \in Int
    <3> TAKE z \in image(s)
    <3>1. PICK y \in s : z = f[y]
      OBVIOUS
    <3>2. v[y] \in Int /\ w[f[y]] = v[y]
      BY <2>1
    <3> QED
      BY <3>1, <3>2
  <2>5. IsFiniteSet(image(s \ {x})) /\ SumOver(v, s \ {x}) = SumOver(w, image(s \ {x}))
    BY <1>2
  <2>6. w[f[x]] = v[x]
    OBVIOUS
  <2> HIDE DEF image
  <2>7. IsFiniteSet(image(s))
    <3>1. IsFiniteSet(image(s \ {x}) \cup {f[x]})
      BY <2>5, FS_AddElement
    <3> QED
      BY <2>3, <3>1
  <2>8. SumOver(w, image(s)) = w[f[x]] + SumOver(w, image(s) \ {f[x]})
    BY <2>3, <2>4, <2>7, SumRemove
  <2>9. SumOver(v, s) = SumOver(w, image(s))
    BY <2>2, <2>3, <2>5, <2>6, <2>8
  <2> QED
    BY <2>7, <2>9
<1>3. S \in G
  <2> HIDE DEF G
  <2> QED
    BY <1>1, <1>2, SubsetInduction
<1>4. image(S) = T
  BY <1>0
<1> QED
  BY <1>3, <1>4

-----------------------------------------------------------------------------
(* Products *)
\* The products of the subsets of a finite set of positive numbers exist.
LEMMA ProductsExist ==
  ASSUME NEW S, IsFiniteSet(S), NEW w, \A x \in S : w[x] \in Nat \ {0}
  PROVE  \E f \in [SUBSET S -> Nat \ {0}] : Products(f, w, S)
<1> DEFINE Pos == Nat \ {0}
           step == [p \in S \X Pos |-> w[p[1]] * p[2]]
<1>1. step \in [S \X Pos -> Pos] /\ 1 \in Pos
  <2>1. \A m, n \in Nat \ {0} : m * n \in Nat \ {0}
    OBVIOUS
  <2>2. \A p \in S \X Pos : w[p[1]] * p[2] \in Pos
    BY <2>1
  <2> QED
    BY <2>2
<1>2. PICK f \in [SUBSET S -> Pos] : Folds(f, step, 1, S)
  <2> HIDE DEF step, Pos
  <2> QED
    BY <1>1, FoldExists, Zenon
<1>3. ASSUME NEW s \in SUBSET S, s # {}
      PROVE  step[<<Pick(s), f[Rest(s)]>>] = w[Pick(s)] * f[Rest(s)]
  <2>1. Pick(s) \in S /\ Rest(s) \in SUBSET S
    BY <1>3, PickIs
  <2>2. f[Rest(s)] \in Pos
    BY <1>2, <2>1
  <2> QED
    BY <2>1, <2>2
<1>4. f = [s \in SUBSET S |-> IF s = {} THEN 1 ELSE w[Pick(s)] * f[Rest(s)]]
  <2> HIDE DEF step
  <2>1. f = [s \in SUBSET S |-> IF s = {} THEN 1 ELSE step[<<Pick(s), f[Rest(s)]>>]]
    BY <1>2 DEF Folds
  <2> QED
    BY <1>3, <2>1
<1> QED
  BY <1>2, <1>4 DEF Products

\* A product of positive numbers is positive and no less than each of them.
LEMMA ProductAtLeast ==
  ASSUME NEW S, IsFiniteSet(S), NEW w, \A x \in S : w[x] \in Nat \ {0},
         NEW f, Products(f, w, S)
  PROVE  f[S] \in Nat \ {0} /\ \A x \in S : w[x] <= f[S]
<1> DEFINE Good(s) == f[s] \in Nat \ {0} /\ \A x \in s : w[x] <= f[s]
           D == {s \in SUBSET S : ~Good(s)}
<1>1. SUFFICES ASSUME D # {} PROVE FALSE
  OBVIOUS
<1>2. PICK s \in D : \A r \in D : r \subseteq s => r = s
  <2>1. D \in SUBSET (SUBSET S)
    OBVIOUS
  <2> HIDE DEF D
  <2> QED
    BY <1>1, <2>1, MinimalSubset
<1>3. s # {}
  <2>1. f[{}] = 1
    BY DEF Products
  <2>2. Good({})
    BY <2>1
  <2> HIDE DEF Good
  <2> QED
    BY <1>2, <2>2
<1>4. Rest(s) \in SUBSET S /\ Rest(s) \notin D /\ Pick(s) \in S /\ s = Rest(s) \cup {Pick(s)}
  BY <1>2, <1>3, PickIs DEF Rest
<1>5. f[s] = w[Pick(s)] * f[Rest(s)]
  BY <1>2, <1>3 DEF Products
<1>6. Good(Rest(s))
  BY <1>4
<1>7. \A m, n \in Nat \ {0} : m * n \in Nat \ {0} /\ m <= m * n /\ n <= m * n
  OBVIOUS
<1>8. f[s] \in Nat \ {0} /\ w[Pick(s)] <= f[s] /\ f[Rest(s)] <= f[s]
  BY <1>4, <1>5, <1>6, <1>7
<1>9. Good(s)
  BY <1>4, <1>6, <1>8
<1> QED
  BY <1>2, <1>9
=============================================================================
