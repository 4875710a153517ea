--------------------------- MODULE InductionLemmas ---------------------------
(***************************************************************************)
(* Induction, and what it says of sums, recursions and numbers.  The       *)
(* library states its induction theorems for an operator P(_); here        *)
(* induction is the choice of a least counterexample in a set, which needs *)
(* none: instead of "P holds for all n", "the set of the n where P holds is*)
(* closed under +1".  The sums and folds the community modules define      *)
(* remove one chosen element at a time; what is proved here is that the    *)
(* choice of the element of a sum does not matter, and that a fold of a    *)
(* sequence reads it from its first element to its last.                   *)
(***************************************************************************)
EXTENDS Integers, SequencesExt, FiniteSetTheorems, WellFoundedInduction, TLAPS

-----------------------------------------------------------------------------
(* Induction                                                               *)

(* A non-empty set of naturals has a least element.                        *)
LEMMA LeastNumber ==
    ASSUME NEW S \in SUBSET Nat, S # {}
    PROVE  \E n \in S : \A m \in S : n <= m
  <1>1. PICK n \in S : \A m \in S : <<m, n>> \notin OpToRel(<, Nat)
    BY NatLessThanWellFounded, WFMin
  <1>2. \A m \in S : ~(m < n)
    BY <1>1 DEF OpToRel
  <1> QED  BY <1>2

(* A non-empty set of numbers up to n has a highest.                       *)
LEMMA HighestNumber ==
    ASSUME NEW n \in Nat, NEW S \in SUBSET (0 .. n), S # {}
    PROVE  \E x \in S : \A y \in S : x >= y
  <1> DEFINE mirror == {n - y : y \in S}
  <1>1. mirror \in SUBSET Nat /\ mirror # {}
    <2>1. \A y \in S : n - y \in Nat
      OBVIOUS
    <2> QED  BY <2>1
  <1>2. PICK z \in mirror : \A m \in mirror : z <= m
    <2> HIDE DEF mirror
    <2> QED  BY <1>1, LeastNumber
  <1>3. PICK x \in S : z = n - x
    BY <1>2
  <1>4. \A y \in S : n - x <= n - y
    BY <1>2, <1>3
  <1> QED  BY <1>3, <1>4

(* A set that has 0 and the successor of each of its naturals has them all.*)
LEMMA NumberInduction ==
    ASSUME NEW T, 0 \in T, \A n \in Nat : n \in T => n + 1 \in T
    PROVE  Nat \subseteq T
  <1> SUFFICES ASSUME Nat \ T # {} PROVE FALSE
    OBVIOUS
  <1>1. PICK n \in Nat \ T : \A m \in Nat \ T : n <= m
    BY LeastNumber
  <1>2. n # 0 /\ n - 1 \in Nat /\ ~(n <= n - 1)
    BY <1>1
  <1>3. n - 1 \in T
    BY <1>1, <1>2
  <1>4. (n - 1) + 1 \in T /\ (n - 1) + 1 = n
    BY <1>2, <1>3
  <1> QED  BY <1>1, <1>4

(* A non-empty collection of subsets of a finite set has a minimal one.    *)
LEMMA MinimalSubset ==
    ASSUME NEW S, IsFiniteSet(S), NEW T \in SUBSET SUBSET S, T # {}
    PROVE  \E s \in T : \A x \in s : s \ {x} \notin T
  <1> DEFINE sizes == {Cardinality(s) : s \in T}
  <1>1. \A s \in T : IsFiniteSet(s) /\ Cardinality(s) \in Nat
    BY FS_Subset, FS_CardinalityType
  <1>2. PICK n \in sizes : \A m \in sizes : n <= m
    <2>1. sizes \in SUBSET Nat /\ sizes # {}
      BY <1>1
    <2> HIDE DEF sizes
    <2> QED  BY <2>1, LeastNumber
  <1>3. PICK s \in T : Cardinality(s) = n
    BY <1>2
  <1>4. ASSUME NEW x \in s, s \ {x} \in T
        PROVE  FALSE
    <2>1. Cardinality(s \ {x}) = n - 1 /\ n \in Nat
      BY <1>1, <1>3, FS_RemoveElement
    <2>2. n <= Cardinality(s \ {x})
      BY <1>2, <1>4
    <2> QED  BY <2>1, <2>2
  <1> QED  BY <1>3, <1>4

(* A collection of subsets of S that has the empty set and, with each of   *)
(* its members, that member and one more element of S, has every subset.   *)
LEMMA SubsetInduction ==
    ASSUME NEW S, IsFiniteSet(S), NEW C, {} \in C,
           \A s \in SUBSET S : \A x \in S \ s : s \in C => s \cup {x} \in C
    PROVE  SUBSET S \subseteq C
  <1> SUFFICES ASSUME (SUBSET S) \ C # {} PROVE FALSE
    OBVIOUS
  <1>1. PICK s \in (SUBSET S) \ C : \A x \in s : s \ {x} \notin (SUBSET S) \ C
    BY MinimalSubset
  <1>2. PICK x \in s : TRUE
    BY <1>1
  <1>3. s \ {x} \in C /\ s \ {x} \in SUBSET S /\ x \in S \ (s \ {x})
    BY <1>1, <1>2
  <1>4. s = (s \ {x}) \cup {x}
    BY <1>2
  <1> QED  BY <1>1, <1>3, <1>4

-----------------------------------------------------------------------------
(* Sums over finite sets                                                   *)

(* total[s] is the sum of f over s, whichever element is taken off first.  *)
SumsOf(f, S, total) ==
    /\ total \in [SUBSET S -> Int]
    /\ total[{}] = 0
    /\ \A s \in SUBSET S : \A x \in s : total[s] = f[x] + total[s \ {x}]

(* The function the definition of SumFunctionOnSet chooses.                *)
SumStep(f, S, h) ==
    [s \in SUBSET S |-> IF s = {} THEN 0
                        ELSE f[CHOOSE x \in s : TRUE] + h[s \ {CHOOSE x \in s : TRUE}]]

(* Every integer-valued function has such sums over a finite set.          *)
LEMMA SumsExist ==
    ASSUME NEW S, IsFiniteSet(S), NEW f, \A x \in S : f[x] \in Int
    PROVE  \E total : SumsOf(f, S, total)
  <1> DEFINE C == {s \in SUBSET S : \E total : SumsOf(f, s, total)}
  <1>1. {} \in C
    <2> DEFINE none == [s \in SUBSET {} |-> 0]
    <2>1. SumsOf(f, {}, none)
      BY DEF SumsOf
    <2> QED  BY <2>1
  <1>2. ASSUME NEW s \in SUBSET S, NEW y \in S \ s, s \in C
        PROVE  s \cup {y} \in C
    <2>1. PICK total : SumsOf(f, s, total)
      BY <1>2
    <2> DEFINE more == [u \in SUBSET (s \cup {y}) |->
                           IF y \in u THEN f[y] + total[u \ {y}] ELSE total[u]]
    <2>2. ASSUME NEW u \in SUBSET (s \cup {y}), y \in u
          PROVE  u \ {y} \in SUBSET s /\ total[u \ {y}] \in Int
                 /\ more[u] = f[y] + total[u \ {y}]
      BY <2>1, <2>2 DEF SumsOf
    <2>3. ASSUME NEW u \in SUBSET (s \cup {y}), y \notin u
          PROVE  u \in SUBSET s /\ total[u] \in Int /\ more[u] = total[u]
      BY <2>1, <2>3 DEF SumsOf
    <2>4. more \in [SUBSET (s \cup {y}) -> Int]
      <3>1. ASSUME NEW u \in SUBSET (s \cup {y}) PROVE more[u] \in Int
        <4>1. f[y] \in Int
          BY <1>2
        <4>2. CASE y \in u
          <5>1. more[u] = f[y] + total[u \ {y}] /\ total[u \ {y}] \in Int
            BY <4>2, <2>2
          <5> HIDE DEF more
          <5> QED  BY <4>1, <5>1
        <4>3. CASE y \notin u
          BY <4>3, <2>3
        <4> QED  BY <4>2, <4>3
      <3> QED  BY <3>1
    <2> HIDE DEF more
    <2>5. more[{}] = 0
      BY <2>1, <2>3 DEF SumsOf
    <2>6. ASSUME NEW u \in SUBSET (s \cup {y}), NEW x \in u
          PROVE  more[u] = f[x] + more[u \ {x}]
      <3>0. f[x] \in Int /\ f[y] \in Int /\ u \ {x} \in SUBSET (s \cup {y})
        BY <1>2
      <3>1. CASE y \notin u
        <4>1. total[u] = f[x] + total[u \ {x}]
          BY <2>1, <2>3, <3>1 DEF SumsOf
        <4> QED  BY <3>0, <3>1, <4>1, <2>3
      <3>2. CASE x = y
        <4>1. y \notin u \ {x}
          BY <3>2
        <4> QED  BY <3>0, <3>2, <4>1, <2>2, <2>3
      <3>3. CASE y \in u /\ x # y
        <4>1. u \ {y} \in SUBSET s /\ x \in u \ {y} /\ y \in u \ {x}
          BY <3>3
        <4>2. total[u \ {y}] = f[x] + total[(u \ {y}) \ {x}]
          BY <2>1, <4>1 DEF SumsOf
        <4>3. (u \ {y}) \ {x} = (u \ {x}) \ {y}
          OBVIOUS
        <4>4. /\ more[u] = f[y] + total[u \ {y}]
              /\ more[u \ {x}] = f[y] + total[(u \ {x}) \ {y}]
              /\ total[(u \ {x}) \ {y}] \in Int
          BY <3>0, <3>3, <4>1, <2>2
        <4>5. PICK z \in Int : z = total[(u \ {x}) \ {y}]
          BY <4>4
        <4>6. more[u] = f[y] + (f[x] + z) /\ more[u \ {x}] = f[y] + z
          BY <4>2, <4>3, <4>4, <4>5
        <4> QED  BY <3>0, <4>6
      <3> QED  BY <3>1, <3>2, <3>3
    <2>7. SumsOf(f, s \cup {y}, more)
      BY <2>4, <2>5, <2>6 DEF SumsOf
    <2> QED  BY <1>2, <2>7
  <1> HIDE DEF C
  <1>3. SUBSET S \subseteq C
    BY <1>1, <1>2, SubsetInduction
  <1> QED  BY <1>3 DEF C

(* They are the only function that solves the equation of the definition.  *)
LEMMA SumsUnique ==
    ASSUME NEW S, IsFiniteSet(S), NEW f, NEW total, SumsOf(f, S, total)
    PROVE  SumFunctionOnSet(f, S) = total[S]
  <1>1. total = SumStep(f, S, total)
    <2>1. ASSUME NEW s \in SUBSET S
          PROVE  total[s] = SumStep(f, S, total)[s]
      <3>1. CASE s = {}
        BY <3>1 DEF SumsOf, SumStep
      <3>2. CASE s # {}
        <4>1. (CHOOSE x \in s : TRUE) \in s
          BY <3>2
        <4> QED  BY <3>2, <4>1 DEF SumsOf, SumStep
      <3> QED  BY <3>1, <3>2
    <2> QED  BY <2>1 DEF SumsOf, SumStep
  <1>2. ASSUME NEW g, g = SumStep(f, S, g)
        PROVE  g = total
    <2>1. /\ DOMAIN g = SUBSET S /\ g = [s \in SUBSET S |-> g[s]]
          /\ \A s \in SUBSET S :
               g[s] = IF s = {} THEN 0
                      ELSE f[CHOOSE x \in s : TRUE] + g[s \ {CHOOSE x \in s : TRUE}]
      BY <1>2 DEF SumStep
    <2>2. \A s \in SUBSET S : g[s] = total[s]
      <3> DEFINE T == {s \in SUBSET S : g[s] # total[s]}
      <3> SUFFICES ASSUME T # {} PROVE FALSE
        OBVIOUS
      <3>1. PICK s \in T : \A x \in s : s \ {x} \notin T
        BY MinimalSubset
      <3>2. CASE s = {}
        BY <2>1, <3>1, <3>2 DEF SumsOf
      <3>3. CASE s # {}
        <4> DEFINE x == CHOOSE x \in s : TRUE
        <4>1. x \in s
          BY <3>3
        <4>2. g[s \ {x}] = total[s \ {x}]
          BY <3>1, <4>1
        <4>3. g[s] = f[x] + g[s \ {x}]
          BY <2>1, <3>1, <3>3
        <4>4. total[s] = f[x] + total[s \ {x}]
          BY <3>1, <4>1 DEF SumsOf
        <4> QED  BY <3>1, <4>2, <4>3, <4>4
      <3> QED  BY <3>2, <3>3
    <2> QED  BY <2>1, <2>2 DEF SumsOf
  <1>3. SumFunctionOnSet(f, S) = (CHOOSE h : h = SumStep(f, S, h))[S]
    BY DEF SumFunctionOnSet, FoldFunctionOnSet, MapThenFoldSet, SumStep
  <1> QED  BY <1>1, <1>2, <1>3

(* The sum over no element.                                                *)
LEMMA SumEmpty == \A f : SumFunctionOnSet(f, {}) = 0
  <1> SUFFICES ASSUME NEW f PROVE SumFunctionOnSet(f, {}) = 0
    OBVIOUS
  <1>1. IsFiniteSet({}) /\ \A x \in {} : f[x] \in Int
    BY FS_EmptySet
  <1>2. PICK total : SumsOf(f, {}, total)
    BY <1>1, SumsExist
  <1> QED  BY <1>1, <1>2, SumsUnique DEF SumsOf

(* A sum of integers is an integer, and the sum over one element more is   *)
(* that element's value more.                                              *)
LEMMA SumAdd ==
    ASSUME NEW S, IsFiniteSet(S), NEW f, \A x \in S : f[x] \in Int,
           NEW y, y \notin S, f[y] \in Int
    PROVE  /\ SumFunctionOnSet(f, S) \in Int
           /\ SumFunctionOnSet(f, S \cup {y}) = f[y] + SumFunctionOnSet(f, S)
  <1>1. IsFiniteSet(S \cup {y}) /\ \A x \in S \cup {y} : f[x] \in Int
    BY FS_AddElement
  <1>2. PICK total : SumsOf(f, S \cup {y}, total)
    BY <1>1, SumsExist
  <1>3. SumFunctionOnSet(f, S \cup {y}) = total[S \cup {y}]
    BY <1>1, <1>2, SumsUnique
  <1> DEFINE part == [s \in SUBSET S |-> total[s]]
  <1>4. SumsOf(f, S, part)
    BY <1>2 DEF SumsOf
  <1>5. SumFunctionOnSet(f, S) = part[S] /\ part[S] = total[S] /\ total[S] \in Int
    <2>1. part[S] = total[S] /\ total[S] \in Int
      BY <1>2 DEF SumsOf
    <2> HIDE DEF part
    <2> QED  BY <1>4, <2>1, SumsUnique
  <1>6. total[S \cup {y}] = f[y] + total[(S \cup {y}) \ {y}] /\ (S \cup {y}) \ {y} = S
    BY <1>2 DEF SumsOf
  <1> QED  BY <1>3, <1>5, <1>6

(* Functions that agree on a set have the same sum over it.                *)
LEMMA SumSame ==
    ASSUME NEW S, IsFiniteSet(S), NEW f, NEW g, \A x \in S : f[x] \in Int /\ g[x] = f[x]
    PROVE  SumFunctionOnSet(f, S) = SumFunctionOnSet(g, S)
  <1>1. PICK total : SumsOf(f, S, total)
    BY SumsExist
  <1>2. SumsOf(g, S, total)
    BY <1>1 DEF SumsOf
  <1> QED  BY <1>1, <1>2, SumsUnique

(* A sum of integers is an integer.                                        *)
LEMMA SumType ==
    ASSUME NEW S, IsFiniteSet(S), NEW f, \A x \in S : f[x] \in Int
    PROVE  SumFunctionOnSet(f, S) \in Int
  <1>1. PICK total : SumsOf(f, S, total)
    BY SumsExist
  <1>2. total[S] \in Int
    BY <1>1 DEF SumsOf
  <1> QED  BY <1>1, <1>2, SumsUnique

(* A sum over one element more, when the function was extended by it.      *)
LEMMA SumGrows ==
    ASSUME NEW S, IsFiniteSet(S), NEW f, \A x \in S : f[x] \in Int,
           NEW y, y \notin S, NEW g, g[y] \in Int, \A x \in S : g[x] = f[x]
    PROVE  SumFunctionOnSet(g, S \cup {y}) = g[y] + SumFunctionOnSet(f, S)
  <1>1. SumFunctionOnSet(g, S \cup {y}) = g[y] + SumFunctionOnSet(g, S)
    BY SumAdd
  <1>2. SumFunctionOnSet(f, S) = SumFunctionOnSet(g, S)
    BY SumSame
  <1> QED  BY <1>1, <1>2

(* A sum of naturals is a natural.                                         *)
LEMMA SumNatural ==
    ASSUME NEW S, IsFiniteSet(S), NEW f, \A x \in S : f[x] \in Nat
    PROVE  SumFunctionOnSet(f, S) \in Nat
  <1> DEFINE C == {s \in SUBSET S : SumFunctionOnSet(f, s) \in Nat}
  <1>1. {} \in C
    BY SumEmpty
  <1>2. ASSUME NEW s \in SUBSET S, NEW y \in S \ s, s \in C
        PROVE  s \cup {y} \in C
    <2>1. IsFiniteSet(s) /\ \A x \in s \cup {y} : f[x] \in Nat
      BY FS_Subset
    <2>2. SumFunctionOnSet(f, s \cup {y}) = f[y] + SumFunctionOnSet(f, s)
      BY <2>1, SumAdd
    <2> QED  BY <1>2, <2>1, <2>2
  <1>3. SUBSET S \subseteq C
    <2> HIDE DEF C
    <2> QED  BY <1>1, <1>2, SubsetInduction
  <1> QED  BY <1>3

-----------------------------------------------------------------------------
(* Recursion                                                               *)

(* g follows a recursion from base up to n.                                *)
Follows(base, step, n, g) ==
    g[0] = base /\ \A k \in 0 .. n - 1 : g[k + 1] = step[k][g[k]]

(* A function of the naturals may be defined by its value at 0 and by a    *)
(* step from each number to the next.                                      *)
LEMMA RecursionExists ==
    ASSUME NEW V, NEW base \in V, NEW step \in [Nat -> [V -> V]]
    PROVE  \E f \in [Nat -> V] :
               f[0] = base /\ \A k \in Nat : f[k + 1] = step[k][f[k]]
  <1> DEFINE T == {n \in Nat : \E g \in [0 .. n -> V] : Follows(base, step, n, g)}
  <1>1. 0 \in T
    <2> DEFINE g == [k \in 0 .. 0 |-> base]
    <2>1. g \in [0 .. 0 -> V] /\ Follows(base, step, 0, g)
      BY DEF Follows
    <2> QED  BY <2>1
  <1>2. ASSUME NEW n \in Nat, n \in T
        PROVE  n + 1 \in T
    <2>1. PICK g \in [0 .. n -> V] : Follows(base, step, n, g)
      BY <1>2
    <2> DEFINE more == [k \in 0 .. n + 1 |-> IF k = n + 1 THEN step[n][g[n]] ELSE g[k]]
    <2>2. more \in [0 .. n + 1 -> V]
      <3>1. g[n] \in V
        OBVIOUS
      <3>2. step[n][g[n]] \in V
        BY <3>1
      <3>3. \A k \in 0 .. n + 1 : k # n + 1 => k \in 0 .. n
        OBVIOUS
      <3> QED  BY <3>2, <3>3
    <2>3. more[0] = base
      BY <2>1 DEF Follows
    <2>4. ASSUME NEW k \in 0 .. (n + 1) - 1
          PROVE  more[k + 1] = step[k][more[k]]
      <3>1. k \in 0 .. n /\ k + 1 \in 0 .. n + 1 /\ more[k] = g[k]
        OBVIOUS
      <3>2. CASE k = n
        BY <3>1, <3>2
      <3>3. CASE k # n
        <4>1. k \in 0 .. n - 1 /\ more[k + 1] = g[k + 1]
          BY <3>1, <3>3
        <4> QED  BY <2>1, <3>1, <4>1 DEF Follows
      <3> QED  BY <3>2, <3>3
    <2> HIDE DEF more
    <2>5. Follows(base, step, n + 1, more)
      BY <2>3, <2>4 DEF Follows
    <2> QED  BY <2>2, <2>5
  <1> HIDE DEF T
  <1>3. Nat \subseteq T
    BY <1>1, <1>2, NumberInduction
  <1> DEFINE upto(n) == CHOOSE g \in [0 .. n -> V] : Follows(base, step, n, g)
             f == [n \in Nat |-> upto(n)[n]]
  <1>4. ASSUME NEW n \in Nat
        PROVE  upto(n) \in [0 .. n -> V] /\ Follows(base, step, n, upto(n))
    BY <1>3 DEF T
  <1> HIDE DEF upto
  <1>5. \A n \in Nat : upto(n)[n] \in V
    BY <1>4
  <1>6. f[0] = base
    BY <1>4 DEF Follows
  <1>7. ASSUME NEW n \in Nat
        PROVE  f[n + 1] = step[n][f[n]]
    <2> DEFINE Same == {k \in Nat : k <= n => upto(n)[k] = upto(n + 1)[k]}
    <2>1. 0 \in Same
      BY <1>4 DEF Follows
    <2>2. ASSUME NEW k \in Nat, k \in Same
          PROVE  k + 1 \in Same
      <3> SUFFICES ASSUME k + 1 <= n PROVE upto(n)[k + 1] = upto(n + 1)[k + 1]
        OBVIOUS
      <3>1. k \in 0 .. n - 1 /\ k \in 0 .. (n + 1) - 1 /\ n + 1 \in Nat
        OBVIOUS
      <3>2. upto(n)[k] = upto(n + 1)[k]
        BY <2>2
      <3> HIDE DEF Same
      <3> QED  BY <1>4, <3>1, <3>2 DEF Follows
    <2> HIDE DEF Same
    <2>3. n \in Same
      BY <2>1, <2>2, NumberInduction
    <2>4. upto(n)[n] = upto(n + 1)[n]
      BY <2>3 DEF Same
    <2>5. n \in 0 .. (n + 1) - 1 /\ n + 1 \in Nat
      OBVIOUS
    <2>6. upto(n + 1)[n + 1] = step[n][upto(n + 1)[n]]
      BY <1>4, <2>5 DEF Follows
    <2> QED  BY <2>4, <2>5, <2>6
  <1>8. f \in [Nat -> V]
    BY <1>5
  <1> HIDE DEF f
  <1> QED  BY <1>6, <1>7, <1>8

(* The same for functions into the naturals.                               *)
LEMMA NumberRecursion ==
    \A base \in Nat : \A step \in [Nat -> [Nat -> Nat]] :
        \E f \in [Nat -> Nat] : f[0] = base /\ \A k \in Nat : f[k + 1] = step[k][f[k]]
  <1> DEFINE V == Nat
  <1>1. \A base \in V : \A step \in [Nat -> [V -> V]] :
            \E f \in [Nat -> V] : f[0] = base /\ \A k \in Nat : f[k + 1] = step[k][f[k]]
    <2> HIDE DEF V
    <2> QED  BY RecursionExists
  <1> QED  BY <1>1

(* The same for the integers.                                              *)
LEMMA IntegerRecursion ==
    \A base \in Int : \A step \in [Nat -> [Int -> Int]] :
        \E f \in [Nat -> Int] : f[0] = base /\ \A k \in Nat : f[k + 1] = step[k][f[k]]
  <1> DEFINE V == Int
  <1>1. \A base \in V : \A step \in [Nat -> [V -> V]] :
            \E f \in [Nat -> V] : f[0] = base /\ \A k \in Nat : f[k + 1] = step[k][f[k]]
    <2> HIDE DEF V
    <2> QED  BY RecursionExists
  <1> QED  BY <1>1

(* h folds a sequence of steps over sets of its places, the highest last.  *)
FoldsBy(base, step, n, h) ==
    /\ h[{}] = base
    /\ \A s \in SUBSET (1 .. n) : \A m \in s :
           (\A k \in s : k <= m) => h[s] = step[m][h[s \ {m}]]

Foldable(V, base, step, n) ==
    \E h \in [SUBSET (1 .. n) -> V] : FoldsBy(base, step, n, h)

(* Such a fold exists.                                                     *)
LEMMA FoldExists ==
    ASSUME NEW V, NEW base \in V, NEW n \in Nat, NEW step \in [1 .. n -> [V -> V]]
    PROVE  Foldable(V, base, step, n)
  <1> DEFINE T == {k \in Nat : k <= n => Foldable(V, base, step, k)}
  <1>1. 0 \in T
    <2> DEFINE h == [s \in SUBSET (1 .. 0) |-> base]
    <2>1. h \in [SUBSET (1 .. 0) -> V] /\ FoldsBy(base, step, 0, h)
      BY DEF FoldsBy
    <2>2. Foldable(V, base, step, 0)
      BY <2>1 DEF Foldable
    <2> QED  BY <2>2
  <1>2. ASSUME NEW k \in Nat, k \in T
        PROVE  k + 1 \in T
    <2> SUFFICES ASSUME k + 1 <= n
                 PROVE  Foldable(V, base, step, k + 1)
      OBVIOUS
    <2>0. Foldable(V, base, step, k)
      BY <1>2
    <2>1. PICK h \in [SUBSET (1 .. k) -> V] : FoldsBy(base, step, k, h)
      BY <2>0 DEF Foldable
    <2> DEFINE more == [s \in SUBSET (1 .. k + 1) |->
                           IF k + 1 \in s THEN step[k + 1][h[s \ {k + 1}]] ELSE h[s]]
    <2>2. ASSUME NEW s \in SUBSET (1 .. k + 1)
          PROVE  /\ s \ {k + 1} \in SUBSET (1 .. k)
                 /\ k + 1 \notin s => s \in SUBSET (1 .. k)
      OBVIOUS
    <2>3. more \in [SUBSET (1 .. k + 1) -> V]
      <3>1. step[k + 1] \in [V -> V]
        OBVIOUS
      <3>2. \A s \in SUBSET (1 .. k + 1) : h[s \ {k + 1}] \in V
        BY <2>2
      <3>3. \A s \in SUBSET (1 .. k + 1) : step[k + 1][h[s \ {k + 1}]] \in V
        BY <3>1, <3>2
      <3>4. \A s \in SUBSET (1 .. k + 1) : k + 1 \notin s => h[s] \in V
        BY <2>2
      <3> QED  BY <3>3, <3>4
    <2>4. more[{}] = base
      BY <2>1 DEF FoldsBy
    <2>5. ASSUME NEW s \in SUBSET (1 .. k + 1), NEW m \in s, \A j \in s : j <= m
          PROVE  more[s] = step[m][more[s \ {m}]]
      <3>1. CASE m = k + 1
        <4>1. s \ {m} \in SUBSET (1 .. k + 1) /\ k + 1 \notin s \ {m}
          BY <3>1
        <4>2. more[s \ {m}] = h[s \ {k + 1}]
          BY <3>1, <4>1
        <4>3. more[s] = step[k + 1][h[s \ {k + 1}]]
          BY <3>1
        <4> QED  BY <3>1, <4>2, <4>3
      <3>2. CASE m # k + 1
        <4>1. k + 1 \notin s
          <5> SUFFICES ASSUME k + 1 \in s PROVE FALSE
            OBVIOUS
          <5>1. k + 1 <= m /\ m \in 1 .. k + 1
            BY <2>5
          <5> QED  BY <3>2, <5>1
        <4>2. s \in SUBSET (1 .. k) /\ s \ {m} \in SUBSET (1 .. k)
          BY <2>2, <4>1
        <4>3. more[s] = h[s] /\ more[s \ {m}] = h[s \ {m}]
          BY <4>1, <4>2
        <4>4. h[s] = step[m][h[s \ {m}]]
          BY <2>1, <2>5, <4>2 DEF FoldsBy
        <4> QED  BY <4>3, <4>4
      <3> QED  BY <3>1, <3>2
    <2> HIDE DEF more
    <2>6. FoldsBy(base, step, k + 1, more)
      BY <2>4, <2>5 DEF FoldsBy
    <2> QED  BY <2>3, <2>6 DEF Foldable
  <1> HIDE DEF T
  <1>3. n \in T
    BY <1>1, <1>2, NumberInduction
  <1> QED  BY <1>3 DEF T

(* Over the first k places such a fold is a recursion.                     *)
LEMMA FoldAlong ==
    ASSUME NEW base, NEW step, NEW n \in Nat, NEW h, FoldsBy(base, step, n, h)
    PROVE  /\ h[1 .. 0] = base
           /\ \A k \in 0 .. n - 1 : h[1 .. k + 1] = step[k + 1][h[1 .. k]]
  <1>1. 1 .. 0 = {}
    OBVIOUS
  <1>2. ASSUME NEW k \in 0 .. n - 1
        PROVE  h[1 .. k + 1] = step[k + 1][h[1 .. k]]
    <2>1. /\ 1 .. k + 1 \in SUBSET (1 .. n) /\ k + 1 \in 1 .. k + 1
          /\ \A j \in 1 .. k + 1 : j <= k + 1
          /\ (1 .. k + 1) \ {k + 1} = 1 .. k
      OBVIOUS
    <2> QED  BY <2>1 DEF FoldsBy
  <1> QED  BY <1>1, <1>2 DEF FoldsBy

-----------------------------------------------------------------------------
(* Positional numbers                                                      *)

(* The number whose digits in base b are s, the first the highest.         *)
ReadIn(b, s) == FoldLeft(LAMBDA value, digit : value * b + digit, 0, s)

(* The number read from digits, place by place.                            *)
LEMMA NumberRead ==
    ASSUME NEW b \in Int, NEW s \in Seq(Int)
    PROVE  \E f : /\ f[0] = 0
                  /\ \A k \in 0 .. Len(s) - 1 : f[k + 1] = f[k] * b + s[k + 1]
                  /\ ReadIn(b, s) = f[Len(s)]
  <1> DEFINE n == Len(s)
             step == [k \in 1 .. n |-> [v \in Int |-> v * b + s[k]]]
  <1>1. n \in Nat /\ DOMAIN s = 1 .. n /\ \A k \in 1 .. n : s[k] \in Int
    OBVIOUS
  <1>3. step \in [1 .. n -> [Int -> Int]]
    BY <1>1
  <1>4. \A k \in 1 .. n : \A v \in Int : step[k][v] = v * b + s[k]
    OBVIOUS
  <1> HIDE DEF step
  <1> DEFINE top(S) == CHOOSE x \in S : \A y \in S : x >= y
  <1>5. ASSUME NEW S \in SUBSET (1 .. n), S # {}
        PROVE  top(S) \in S /\ \A k \in S : k <= top(S)
    <2>1. S \subseteq Int
      BY <1>1
    <2>2. \E x \in S : \A y \in S : x >= y
      <3>1. n \in Nat /\ S \in SUBSET (0 .. n) /\ S # {}
        BY <1>1, <1>5
      <3> HIDE DEF n
      <3> QED  BY <3>1, HighestNumber
    <2> QED  BY <2>1, <2>2
  <1> HIDE DEF top
  <1> DEFINE follows(h) == h = [S \in SUBSET (1 .. n) |->
                                   IF S = {} THEN 0
                                   ELSE h[S \ {top(S)}] * b + s[top(S)]]
  <1>6. ReadIn(b, s) = (CHOOSE h : follows(h))[1 .. n]
    BY <1>1 DEF ReadIn, FoldLeft, MapThenFoldSet, Max, top
  <1>7. PICK h \in [SUBSET (1 .. n) -> Int] : FoldsBy(0, step, n, h)
    <2>1. n \in Nat /\ 0 \in Int
      BY <1>1
    <2>2. Foldable(Int, 0, step, n)
      <3> HIDE DEF n
      <3> QED  BY <1>3, <2>1, FoldExists
    <2> QED  BY <2>2 DEF Foldable
  <1>8. follows(h)
    <2>1. ASSUME NEW S \in SUBSET (1 .. n), S # {}
          PROVE  h[S] = h[S \ {top(S)}] * b + s[top(S)]
      <3>1. top(S) \in S /\ top(S) \in 1 .. n /\ S \ {top(S)} \in SUBSET (1 .. n)
        BY <1>5, <2>1
      <3>2. h[S] = step[top(S)][h[S \ {top(S)}]]
        BY <1>5, <1>7, <2>1, <3>1 DEF FoldsBy
      <3>3. h[S \ {top(S)}] \in Int
        BY <1>7, <3>1
      <3> QED  BY <1>4, <3>1, <3>2, <3>3
    <2>2. h[{}] = 0
      BY <1>7 DEF FoldsBy
    <2> QED  BY <1>7, <2>1, <2>2
  <1> DEFINE g == CHOOSE g : follows(g)
  <1>9. follows(g)
    BY <1>8
  <1>10. \A S \in SUBSET (1 .. n) : g[S] = IF S = {} THEN 0
                                           ELSE g[S \ {top(S)}] * b + s[top(S)]
    BY <1>9
  <1> HIDE DEF g, follows
  <1> DEFINE f == [k \in 0 .. n |-> g[1 .. k]]
  <1>11. f[0] = 0
    <2>1. 1 .. 0 = {} /\ {} \in SUBSET (1 .. n) /\ 0 \in 0 .. n
      BY <1>1
    <2>2. f[0] = g[{}]
      BY <2>1
    <2>3. g[{}] = 0
      BY <1>10, <2>1
    <2> QED  BY <2>2, <2>3
  <1>12. ASSUME NEW k \in 0 .. n - 1
         PROVE  f[k + 1] = f[k] * b + s[k + 1]
    <2>1. /\ 1 .. k + 1 \in SUBSET (1 .. n) /\ 1 .. k + 1 # {}
          /\ (1 .. k + 1) \ {k + 1} = 1 .. k
      BY <1>1
    <2>2. top(1 .. k + 1) = k + 1
      <3>1. top(1 .. k + 1) \in 1 .. k + 1 /\ k + 1 <= top(1 .. k + 1)
        <4>1. k + 1 \in 1 .. k + 1
          BY <1>1
        <4> QED  BY <1>5, <2>1, <4>1
      <3> QED  BY <3>1
    <2>3. g[1 .. k + 1] = g[1 .. k] * b + s[k + 1]
      BY <1>10, <2>1, <2>2
    <2> QED  BY <1>1, <2>3
  <1>13. ReadIn(b, s) = f[n]
    BY <1>1, <1>6 DEF g
  <1> HIDE DEF f
  <1> QED  BY <1>11, <1>12, <1>13

=============================================================================
