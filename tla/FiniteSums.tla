------------------------------ MODULE FiniteSums ------------------------------
(***************************************************************************)
(* Facts about the sum of a function over a finite set, SumFunctionOnSet   *)
(* of the community modules, which takes the elements one by one in an     *)
(* order it chooses.  The induction goes by a smallest set for which the   *)
(* claim fails: a claim about sets is the set of the sets it holds for.    *)
(***************************************************************************)
EXTENDS Functions, FiniteSetTheorems, TLAPS

\* Induction over the subsets of a finite set, Good being those the claim holds for.
LEMMA SetInduction ==
  ASSUME NEW S, IsFiniteSet(S), NEW Good, {} \in Good,
         \A T \in SUBSET S : T # {} /\ (\A x \in T : T \ {x} \in Good) => T \in Good
  PROVE  S \in Good
<1> DEFINE Bad == {T \in SUBSET S : T \notin Good}
<1>1. SUFFICES ASSUME S \notin Good PROVE FALSE
  OBVIOUS
<1>2. IsWellFoundedOn(StrictSubsetOrdering(S), SUBSET S)
  BY FS_StrictSubsetOrderingWellFounded, FS_FiniteSubsetsOfFinite
<1>3. Bad \subseteq SUBSET S /\ S \in Bad
  BY <1>1
<1> HIDE DEF Bad
<1>4. PICK T \in Bad : \A U \in Bad : ~(<<U, T>> \in StrictSubsetOrdering(S))
  BY <1>2, <1>3, WFMin
<1>5. T \in SUBSET S /\ T # {}
  BY <1>4 DEF Bad
<1>6. ASSUME NEW x \in T PROVE T \ {x} \in Good
  <2>1. T \ {x} \in SUBSET S /\ T \ {x} # T /\ T \ {x} \subseteq T
    BY <1>5, <1>6
  <2>2. <<T \ {x}, T>> \in StrictSubsetOrdering(S)
    BY <1>5, <2>1 DEF StrictSubsetOrdering
  <2> QED BY <1>4, <2>1, <2>2 DEF Bad
<1> QED BY <1>4, <1>5, <1>6 DEF Bad

\* Induction over the natural numbers, Good being those the claim holds for.
LEMMA NumberInduction ==
  ASSUME NEW Good, 0 \in Good, \A n \in Nat : n \in Good => n + 1 \in Good
  PROVE  Nat \subseteq Good
<1> SUFFICES ASSUME NEW n \in Nat PROVE n \in Good
  OBVIOUS
<1> DEFINE Sizes == {T \in SUBSET (1..n) : Cardinality(T) \in Good}
<1>1. IsFiniteSet(1..n) /\ Cardinality(1..n) = n
  BY FS_Interval
<1>2. {} \in Sizes
  BY FS_EmptySet
<1>3. ASSUME NEW T \in SUBSET (1..n), T # {}, \A x \in T : T \ {x} \in Sizes
      PROVE  T \in Sizes
  <2>1. PICK x \in T : TRUE
    BY <1>3
  <2>2. IsFiniteSet(T) /\ IsFiniteSet(T \ {x})
    BY <1>1, FS_Subset
  <2>3. Cardinality(T) = Cardinality(T \ {x}) + 1 /\ Cardinality(T \ {x}) \in Nat
    BY <2>1, <2>2, FS_RemoveElement, FS_CardinalityType
  <2> QED BY <1>3, <2>1, <2>3
<1> HIDE DEF Sizes
<1>4. 1..n \in Sizes
  BY <1>1, <1>2, <1>3, SetInduction
<1> QED BY <1>1, <1>4 DEF Sizes

-----------------------------------------------------------------------------
(* The recursion of the sum has a solution, and only one.                  *)

Iter(f, s, g) == IF s = {} THEN 0
                 ELSE LET x == CHOOSE z \in s : TRUE IN f[x] + g[s \ {x}]
IsSum(f, S, g) == g = [s \in SUBSET S |-> Iter(f, s, g)]
SumsBelow(f, S, g) == \A s \in SUBSET S : g[s] = Iter(f, s, g)

\* Two functions that satisfy the recursion agree, so that CHOOSE has no choice.
LEMMA SumUnique ==
  ASSUME NEW S, IsFiniteSet(S), NEW f, NEW g, NEW h, SumsBelow(f, S, g), SumsBelow(f, S, h)
  PROVE  g[S] = h[S]
<1> DEFINE Same == {s \in SUBSET S : g[s] = h[s]}
<1>1. {} \in Same
  BY DEF SumsBelow, Iter
<1>2. ASSUME NEW T \in SUBSET S, T # {}, \A x \in T : T \ {x} \in Same
      PROVE  T \in Same
  <2> DEFINE x == CHOOSE z \in T : TRUE
  <2>1. x \in T
    BY <1>2
  <2>2. g[T] = f[x] + g[T \ {x}] /\ h[T] = f[x] + h[T \ {x}]
    BY <1>2 DEF SumsBelow, Iter
  <2> HIDE DEF x
  <2> QED BY <1>2, <2>1, <2>2
<1> HIDE DEF Same
<1>3. S \in Same
  BY <1>1, <1>2, SetInduction
<1> QED BY <1>3 DEF Same

\* The recursion can be solved on every finite set.
LEMMA SumExists ==
  ASSUME NEW S, IsFiniteSet(S), NEW f
  PROVE  \E g : IsSum(f, S, g)
<1> DEFINE Summed == {T \in SUBSET S : \E g : IsSum(f, T, g)}
<1>1. {} \in Summed
  <2>1. IsSum(f, {}, [s \in SUBSET {} |-> 0])
    BY DEF IsSum, Iter
  <2> QED BY <2>1
<1>2. ASSUME NEW T \in SUBSET S, T # {}, \A x \in T : T \ {x} \in Summed
      PROVE  T \in Summed
  <2> DEFINE sum(u) == CHOOSE g : IsSum(f, u, g)
             first(s) == CHOOSE z \in s : TRUE
             whole == [s \in SUBSET T |->
                         IF s = {} THEN 0
                         ELSE f[first(s)] + sum(s \ {first(s)})[s \ {first(s)}]]
  <2>1. ASSUME NEW u \in SUBSET T, u # T
        PROVE  /\ IsFiniteSet(u)
               /\ \A s \in SUBSET u : sum(u)[s] = Iter(f, s, sum(u))
    <3>1. PICK x \in T : u \subseteq T \ {x}
      BY <2>1
    <3>2. PICK g : IsSum(f, T \ {x}, g)
      BY <1>2, <3>1
    <3>3. \A s \in SUBSET (T \ {x}) : g[s] = Iter(f, s, g)
      BY <3>2 DEF IsSum
    <3> DEFINE h == [s \in SUBSET u |-> g[s]]
    <3>4. ASSUME NEW s \in SUBSET u PROVE h[s] = Iter(f, s, h)
      <4>1. h[s] = Iter(f, s, g)
        BY <3>1, <3>3, <3>4
      <4>2. Iter(f, s, g) = Iter(f, s, h)
        BY <3>4 DEF Iter
      <4> QED BY <4>1, <4>2
    <3>5. IsSum(f, u, h)
      BY <3>4 DEF IsSum
    <3>6. IsSum(f, u, sum(u))
      BY <3>5
    <3>7. IsFiniteSet(u)
      BY FS_Subset
    <3> HIDE DEF sum
    <3> QED BY <3>6, <3>7 DEF IsSum
  <2>2. ASSUME NEW s \in SUBSET T PROVE whole[s] = Iter(f, s, whole)
    <3>1. CASE s = {}
      BY <3>1 DEF Iter
    <3>2. CASE s # {}
      <4> DEFINE x == first(s)
                 u == s \ {x}
      <4>1. x \in s /\ u \in SUBSET T /\ u # T
        BY <3>2
      <4>2. whole[s] = f[x] + sum(u)[u]
        BY <3>2
      <4>3. whole[u] = sum(u)[u]
        <5>1. CASE u = {}
          <6>1. sum(u)[u] = Iter(f, u, sum(u))
            BY <2>1, <4>1
          <6> QED BY <4>1, <5>1, <6>1 DEF Iter
        <5>2. CASE u # {}
          <6> DEFINE y == first(u)
                     v == u \ {y}
          <6>1. y \in u /\ v \in SUBSET T /\ v # T /\ v \in SUBSET u
            BY <4>1, <5>2
          <6>2. whole[u] = f[y] + sum(v)[v]
            BY <4>1, <5>2
          <6>3. sum(u)[u] = f[y] + sum(u)[v]
            <7>1. sum(u)[u] = Iter(f, u, sum(u))
              BY <2>1, <4>1
            <7> QED BY <5>2, <7>1 DEF Iter
          <6> HIDE DEF y, v, sum, u, x, first, whole
          <6>4. IsFiniteSet(v) /\ SumsBelow(f, v, sum(u)) /\ SumsBelow(f, v, sum(v))
            BY <2>1, <4>1, <6>1 DEF SumsBelow
          <6>5. sum(u)[v] = sum(v)[v]
            BY <6>4, SumUnique
          <6> QED BY <6>2, <6>3, <6>5
        <5> QED BY <5>1, <5>2
      <4>4. Iter(f, s, whole) = f[x] + whole[u]
        BY <3>2 DEF Iter
      <4> QED BY <4>2, <4>3, <4>4
    <3> QED BY <3>1, <3>2
  <2>3. IsSum(f, T, whole)
    BY <2>2 DEF IsSum
  <2> QED BY <2>3
<1> HIDE DEF Summed
<1>3. S \in Summed
  BY <1>1, <1>2, SetInduction
<1> QED BY <1>3 DEF Summed

\* The sum of the empty set, and of a set from the first element that is taken.
LEMMA SumFirst ==
  ASSUME NEW S, IsFiniteSet(S), NEW f
  PROVE  SumFunctionOnSet(f, S) =
           IF S = {} THEN 0
           ELSE LET x == CHOOSE z \in S : TRUE IN f[x] + SumFunctionOnSet(f, S \ {x})
<1> DEFINE sum(u) == CHOOSE g : IsSum(f, u, g)
<1>1. ASSUME NEW u, IsFiniteSet(u)
      PROVE  /\ SumFunctionOnSet(f, u) = sum(u)[u]
             /\ \A s \in SUBSET u : sum(u)[s] = Iter(f, s, sum(u))
  <2>1. SumFunctionOnSet(f, u) = sum(u)[u]
    BY DEF SumFunctionOnSet, FoldFunctionOnSet, MapThenFoldSet, IsSum, Iter
  <2>2. IsSum(f, u, sum(u))
    BY <1>1, SumExists
  <2> HIDE DEF sum
  <2> QED BY <2>1, <2>2 DEF IsSum
<1> HIDE DEF sum
<1>2. CASE S = {}
  BY <1>1, <1>2 DEF Iter
<1>3. CASE S # {}
  <2> DEFINE x == CHOOSE z \in S : TRUE
             u == S \ {x}
  <2>1. x \in S /\ u \in SUBSET S
    BY <1>3
  <2>2. IsFiniteSet(u)
    BY FS_RemoveElement
  <2>3. SumFunctionOnSet(f, S) = f[x] + sum(S)[u]
    <3>1. SumFunctionOnSet(f, S) = Iter(f, S, sum(S))
      BY <1>1
    <3> QED BY <1>3, <3>1 DEF Iter
  <2> HIDE DEF x, u
  <2>4. SumsBelow(f, u, sum(S)) /\ SumsBelow(f, u, sum(u))
    BY <1>1, <2>1, <2>2 DEF SumsBelow
  <2>5. sum(S)[u] = sum(u)[u]
    BY <2>2, <2>4, SumUnique
  <2>6. SumFunctionOnSet(f, S) = f[x] + SumFunctionOnSet(f, u)
    BY <1>1, <2>2, <2>3, <2>5
  <2> QED BY <1>3, <2>6 DEF x, u
<1> QED BY <1>2, <1>3

-----------------------------------------------------------------------------
(* What the sums of numbers are.                                           *)

\* The sum of one number.
LEMMA SumOfOne ==
  ASSUME NEW x, NEW f, DOMAIN f = {x}, f[x] \in Nat
  PROVE  SumFunction(f) = f[x]
<1>1. IsFiniteSet({x}) /\ {x} \ {x} = {} /\ (CHOOSE z \in {x} : TRUE) = x
  BY FS_Singleton
<1>2. SumFunctionOnSet(f, {x}) = f[x] + SumFunctionOnSet(f, {})
  BY <1>1, SumFirst
<1>3. SumFunctionOnSet(f, {}) = 0
  BY SumFirst, FS_EmptySet
<1> QED BY <1>2, <1>3 DEF SumFunction

\* A sum of natural numbers is one.
LEMMA SumNat ==
  ASSUME NEW S, IsFiniteSet(S), NEW f, \A x \in S : f[x] \in Nat
  PROVE  SumFunctionOnSet(f, S) \in Nat
<1> DEFINE sum(T) == SumFunctionOnSet(f, T)
           Good == {T \in SUBSET S : sum(T) \in Nat}
<1>1. \A T \in SUBSET S : IsFiniteSet(T)
  BY FS_Subset
<1>2. \A T \in SUBSET S : sum(T) = IF T = {} THEN 0
                                   ELSE LET x == CHOOSE z \in T : TRUE
                                        IN  f[x] + sum(T \ {x})
  BY <1>1, SumFirst
<1> HIDE DEF sum
<1>3. {} \in Good
  <2>1. sum({}) = 0
    BY <1>2
  <2> QED BY <2>1
<1>4. ASSUME NEW T \in SUBSET S, T # {}, \A x \in T : T \ {x} \in Good
      PROVE  T \in Good
  <2> DEFINE x == CHOOSE z \in T : TRUE
  <2>1. x \in T /\ sum(T) = f[x] + sum(T \ {x})
    BY <1>2, <1>4
  <2> HIDE DEF x
  <2> QED BY <1>4, <2>1
<1> HIDE DEF Good
<1>5. S \in Good
  BY <1>3, <1>4, SetInduction
<1> QED BY <1>5 DEF Good, sum

\* Every element can be taken first.
LEMMA SumRemove ==
  ASSUME NEW S, IsFiniteSet(S), NEW f, \A x \in S : f[x] \in Nat
  PROVE  \A x \in S : SumFunctionOnSet(f, S) = f[x] + SumFunctionOnSet(f, S \ {x})
<1> DEFINE sum(T) == SumFunctionOnSet(f, T)
           Good == {T \in SUBSET S : \A x \in T : sum(T) = f[x] + sum(T \ {x})}
<1>1. \A T \in SUBSET S : IsFiniteSet(T)
  BY FS_Subset
<1>2. ASSUME NEW T \in SUBSET S, T # {}
      PROVE  \E x \in T : sum(T) = f[x] + sum(T \ {x})
  <2>1. PICK x : x = CHOOSE z \in T : TRUE
    OBVIOUS
  <2>2. x \in T
    BY <1>2, <2>1
  <2>3. sum(T) = f[x] + sum(T \ {x})
    BY <1>1, <1>2, <2>1, SumFirst
  <2> HIDE DEF sum
  <2> QED BY <2>2, <2>3
<1>3. \A T \in SUBSET S : sum(T) \in Nat
  BY <1>1, SumNat
<1> HIDE DEF sum
<1>4. {} \in Good
  OBVIOUS
<1>5. ASSUME NEW T \in SUBSET S, T # {}, \A x \in T : T \ {x} \in Good
      PROVE  T \in Good
  <2>1. PICK x \in T : sum(T) = f[x] + sum(T \ {x})
    BY <1>2, <1>5
  <2>2. ASSUME NEW y \in T, y # x PROVE sum(T) = f[y] + sum(T \ {y})
    <3>1. sum(T \ {x}) = f[y] + sum((T \ {x}) \ {y})
      BY <1>5, <2>2
    <3>2. sum(T \ {y}) = f[x] + sum((T \ {y}) \ {x})
      BY <1>5, <2>2
    <3>3. sum((T \ {x}) \ {y}) = sum((T \ {y}) \ {x})
      <4>1. (T \ {x}) \ {y} = (T \ {y}) \ {x}
        OBVIOUS
      <4> QED BY <4>1
    <3>4. f[x] \in Nat /\ f[y] \in Nat
      OBVIOUS
    <3>5. sum((T \ {x}) \ {y}) \in Nat
      BY <1>3
    <3> HIDE DEF Good
    <3> QED BY <2>1, <3>1, <3>2, <3>3, <3>4, <3>5
  <2> QED BY <2>1, <2>2
<1> HIDE DEF Good
<1>6. S \in Good
  BY <1>4, <1>5, SetInduction
<1> QED BY <1>6 DEF Good, sum

\* The sum depends on the values alone.
LEMMA SumSame ==
  ASSUME NEW S, IsFiniteSet(S), NEW f, NEW g, \A x \in S : f[x] = g[x]
  PROVE  SumFunctionOnSet(f, S) = SumFunctionOnSet(g, S)
<1> DEFINE fsum(T) == SumFunctionOnSet(f, T)
           gsum(T) == SumFunctionOnSet(g, T)
           Good == {T \in SUBSET S : fsum(T) = gsum(T)}
<1>1. \A T \in SUBSET S : IsFiniteSet(T)
  BY FS_Subset
<1>2. \A T \in SUBSET S :
         LET x == CHOOSE z \in T : TRUE
         IN  /\ fsum(T) = IF T = {} THEN 0 ELSE f[x] + fsum(T \ {x})
             /\ gsum(T) = IF T = {} THEN 0 ELSE g[x] + gsum(T \ {x})
  BY <1>1, SumFirst
<1> HIDE DEF fsum, gsum
<1>3. {} \in Good
  <2>1. fsum({}) = 0 /\ gsum({}) = 0
    BY <1>2
  <2> QED BY <2>1
<1>4. ASSUME NEW T \in SUBSET S, T # {}, \A x \in T : T \ {x} \in Good
      PROVE  T \in Good
  <2> DEFINE x == CHOOSE z \in T : TRUE
  <2>1. x \in T /\ fsum(T) = f[x] + fsum(T \ {x}) /\ gsum(T) = g[x] + gsum(T \ {x})
    BY <1>2, <1>4
  <2> HIDE DEF x
  <2> QED BY <1>4, <2>1
<1> HIDE DEF Good
<1>5. S \in Good
  BY <1>3, <1>4, SetInduction
<1> QED BY <1>5 DEF Good, fsum, gsum

\* Sums are linear.
Combines(S, c, f, g, h) ==
  \A x \in S : f[x] \in Nat /\ g[x] \in Nat /\ h[x] = c * f[x] + g[x]

\* The sum of c * f + g is c times the sum of f, and the sum of g.
LEMMA SumLinear ==
  ASSUME NEW S, IsFiniteSet(S), NEW c \in Nat, NEW f, NEW g, NEW h, Combines(S, c, f, g, h)
  PROVE  SumFunctionOnSet(h, S) = c * SumFunctionOnSet(f, S) + SumFunctionOnSet(g, S)
<1>1. \A x \in S : f[x] \in Nat /\ g[x] \in Nat /\ h[x] = c * f[x] + g[x]
  BY DEF Combines
<1> DEFINE fsum(T) == SumFunctionOnSet(f, T)
           gsum(T) == SumFunctionOnSet(g, T)
           hsum(T) == SumFunctionOnSet(h, T)
           Good == {T \in SUBSET S : hsum(T) = c * fsum(T) + gsum(T)}
<1>2. \A T \in SUBSET S : IsFiniteSet(T)
  BY FS_Subset
<1>3. \A T \in SUBSET S : fsum(T) \in Nat /\ gsum(T) \in Nat
  BY <1>1, <1>2, SumNat
<1>4. fsum({}) = 0 /\ gsum({}) = 0 /\ hsum({}) = 0
  BY FS_EmptySet, SumFirst
<1>5. \A x \in S : h[x] \in Nat
  BY <1>1
<1>6. ASSUME NEW T \in SUBSET S, NEW x \in T
      PROVE  /\ fsum(T) = f[x] + fsum(T \ {x})
             /\ gsum(T) = g[x] + gsum(T \ {x})
             /\ hsum(T) = h[x] + hsum(T \ {x})
  <2>1. \A y \in T : f[y] \in Nat /\ g[y] \in Nat /\ h[y] \in Nat
    BY <1>1, <1>5
  <2> QED BY <1>2, <2>1, SumRemove
<1> HIDE DEF fsum, gsum, hsum
<1>7. {} \in Good
  BY <1>4
<1>8. ASSUME NEW T \in SUBSET S, T # {}, \A x \in T : T \ {x} \in Good
      PROVE  T \in Good
  <2>1. PICK x \in T : TRUE
    BY <1>8
  <2>2. hsum(T \ {x}) = c * fsum(T \ {x}) + gsum(T \ {x})
    BY <1>8
  <2>3. fsum(T \ {x}) \in Nat /\ gsum(T \ {x}) \in Nat /\ f[x] \in Nat /\ g[x] \in Nat
    BY <1>1, <1>3
  <2>4. c * (f[x] + fsum(T \ {x})) = c * f[x] + c * fsum(T \ {x})
    BY <2>3
  <2>5. c * f[x] \in Nat /\ c * fsum(T \ {x}) \in Nat
    BY <2>3
  <2>6. hsum(T) = (c * f[x] + g[x]) + hsum(T \ {x})
    BY <1>1, <1>6
  <2>7. fsum(T) = f[x] + fsum(T \ {x}) /\ gsum(T) = g[x] + gsum(T \ {x})
    BY <1>6
  <2>8. hsum(T) = c * fsum(T) + gsum(T)
    BY <2>2, <2>3, <2>4, <2>5, <2>6, <2>7
  <2> QED BY <2>8
<1> HIDE DEF Good
<1>9. S \in Good
  BY <1>7, <1>8, SetInduction
<1> QED BY <1>9 DEF Good, fsum, gsum, hsum

\* The number of elements of a part.
LEMMA SumCount ==
  ASSUME NEW S, IsFiniteSet(S), NEW A \in SUBSET S, NEW f,
         \A x \in S : f[x] = IF x \in A THEN 1 ELSE 0
  PROVE  SumFunctionOnSet(f, S) = Cardinality(A)
<1> DEFINE sum(T) == SumFunctionOnSet(f, T)
           Good == {T \in SUBSET S : sum(T) = Cardinality(A \cap T)}
<1>1. \A T \in SUBSET S : IsFiniteSet(T)
  BY FS_Subset
<1>2. ASSUME NEW T \in SUBSET S, NEW x \in T PROVE sum(T) = f[x] + sum(T \ {x})
  BY <1>1, SumRemove
<1>3. {} \in Good
  <2>1. sum({}) = 0 /\ A \cap {} = {}
    BY FS_EmptySet, SumFirst
  <2> QED BY <2>1, FS_EmptySet
<1> HIDE DEF sum
<1>4. ASSUME NEW T \in SUBSET S, T # {}, \A x \in T : T \ {x} \in Good
      PROVE  T \in Good
  <2>1. PICK x \in T : TRUE
    BY <1>4
  <2>2. sum(T) = f[x] + sum(T \ {x}) /\ sum(T \ {x}) = Cardinality(A \cap (T \ {x}))
    BY <1>2, <1>4
  <2>3. IsFiniteSet(A \cap T) /\ A \cap (T \ {x}) = (A \cap T) \ {x}
    BY <1>1
  <2>4. /\ Cardinality((A \cap T) \ {x}) = IF x \in A \cap T THEN Cardinality(A \cap T) - 1
                                           ELSE Cardinality(A \cap T)
        /\ Cardinality(A \cap T) \in Nat
    BY <2>3, FS_RemoveElement, FS_CardinalityType
  <2>5. sum(T \ {x}) = Cardinality((A \cap T) \ {x})
    BY <2>2, <2>3
  <2> QED BY <2>2, <2>4, <2>5
<1> HIDE DEF Good
<1>5. S \in Good
  BY <1>3, <1>4, SetInduction
<1>6. A \cap S = A
  OBVIOUS
<1> QED BY <1>5, <1>6 DEF Good, sum

\* Larger values have a larger sum.
LEMMA SumMonotone ==
  ASSUME NEW S, IsFiniteSet(S), NEW f, NEW g,
         \A x \in S : f[x] \in Nat /\ g[x] \in Nat /\ f[x] <= g[x]
  PROVE  SumFunctionOnSet(f, S) <= SumFunctionOnSet(g, S)
<1> DEFINE d == [x \in S |-> g[x] - f[x]]
<1>1. PICK one \in Nat : one = 1
  OBVIOUS
<1>2. \A x \in S : f[x] \in Nat /\ d[x] \in Nat /\ g[x] = one * f[x] + d[x]
  BY <1>1
<1> HIDE DEF d
<1>3. Combines(S, one, f, d, g)
  BY <1>2 DEF Combines
<1>4. SumFunctionOnSet(g, S) = one * SumFunctionOnSet(f, S) + SumFunctionOnSet(d, S)
  BY <1>1, <1>3, SumLinear
<1>5. SumFunctionOnSet(f, S) \in Nat /\ SumFunctionOnSet(d, S) \in Nat
  BY <1>2, SumNat
<1> QED BY <1>1, <1>4, <1>5

\* The sum over the union of two disjoint sets.
LEMMA SumUnion ==
  ASSUME NEW S, IsFiniteSet(S), NEW T, IsFiniteSet(T), S \cap T = {},
         NEW f, \A x \in S \cup T : f[x] \in Nat
  PROVE  SumFunctionOnSet(f, S \cup T) = SumFunctionOnSet(f, S) + SumFunctionOnSet(f, T)
<1> DEFINE sum(U) == SumFunctionOnSet(f, U)
           Good == {U \in SUBSET T : sum(S \cup U) = sum(S) + sum(U)}
<1>1. \A U \in SUBSET (S \cup T) : IsFiniteSet(U)
  BY FS_Subset, FS_Union
<1>2. ASSUME NEW U \in SUBSET (S \cup T), NEW x \in U PROVE sum(U) = f[x] + sum(U \ {x})
  BY <1>1, SumRemove
<1>3. \A U \in SUBSET (S \cup T) : sum(U) \in Nat
  BY <1>1, SumNat
<1>4. sum({}) = 0
  BY FS_EmptySet, SumFirst
<1> HIDE DEF sum
<1>5. {} \in Good
  <2>1. S \cup {} = S
    OBVIOUS
  <2> QED BY <1>3, <1>4, <2>1
<1>6. ASSUME NEW U \in SUBSET T, U # {}, \A x \in U : U \ {x} \in Good
      PROVE  U \in Good
  <2>1. PICK x \in U : TRUE
    BY <1>6
  <2>2. sum(S \cup U) = f[x] + sum((S \cup U) \ {x}) /\ sum(U) = f[x] + sum(U \ {x})
    BY <1>2
  <2>3. (S \cup U) \ {x} = S \cup (U \ {x})
    OBVIOUS
  <2>4. sum(S \cup (U \ {x})) = sum(S) + sum(U \ {x})
    BY <1>6
  <2>5. sum((S \cup U) \ {x}) = sum(S) + sum(U \ {x})
    BY <2>3, <2>4
  <2>6. f[x] \in Nat /\ sum(S) \in Nat /\ sum(U \ {x}) \in Nat
    BY <1>3
  <2>7. sum(S \cup U) = sum(S) + sum(U)
    BY <2>2, <2>5, <2>6
  <2> QED BY <2>7
<1> HIDE DEF Good
<1>7. T \in Good
  BY <1>5, <1>6, SetInduction
<1> QED BY <1>7 DEF Good, sum

\* Elements may be named otherwise.
LEMMA SumRenamed ==
  ASSUME NEW S, IsFiniteSet(S), NEW T, NEW p \in Bijection(S, T),
         NEW f, \A z \in T : f[z] \in Nat, NEW g, \A x \in S : g[x] = f[p[x]]
  PROVE  SumFunctionOnSet(g, S) = SumFunctionOnSet(f, T)
<1>1. /\ p \in [S -> T] /\ \A x, y \in S : p[x] = p[y] => x = y
      /\ \A z \in T : \E x \in S : p[x] = z
  BY DEF Bijection, Injection, IsInjective, Surjection
<1> DEFINE fsum(U) == SumFunctionOnSet(f, U)
           gsum(U) == SumFunctionOnSet(g, U)
           image(U) == {p[x] : x \in U}
           Good == {U \in SUBSET S : IsFiniteSet(image(U)) /\ gsum(U) = fsum(image(U))}
<1>2. \A U \in SUBSET S : IsFiniteSet(U)
  BY FS_Subset
<1>3. ASSUME NEW U \in SUBSET S, NEW x \in U PROVE gsum(U) = g[x] + gsum(U \ {x})
  <2>1. \A y \in U : g[y] \in Nat
    BY <1>1
  <2> QED BY <1>2, <2>1, SumRemove
<1>4. ASSUME NEW U \in SUBSET S, IsFiniteSet(image(U)), NEW x \in U
      PROVE  fsum(image(U)) = f[p[x]] + fsum(image(U) \ {p[x]})
  <2>1. image(U) \subseteq T /\ p[x] \in image(U)
    BY <1>1
  <2> HIDE DEF image
  <2> QED BY <1>4, <2>1, SumRemove
<1>5. fsum({}) = 0 /\ gsum({}) = 0 /\ image({}) = {}
  BY FS_EmptySet, SumFirst
<1>6. {} \in Good
  BY <1>5, FS_EmptySet
<1> HIDE DEF fsum, gsum
<1>7. ASSUME NEW U \in SUBSET S, U # {}, \A x \in U : U \ {x} \in Good
      PROVE  U \in Good
  <2>1. PICK x \in U : TRUE
    BY <1>7
  <2>2. image(U) \ {p[x]} = image(U \ {x}) /\ image(U) = image(U \ {x}) \cup {p[x]}
    BY <1>1
  <2>3. IsFiniteSet(image(U \ {x})) /\ gsum(U \ {x}) = fsum(image(U \ {x}))
    BY <1>7
  <2> HIDE DEF image
  <2>4. IsFiniteSet(image(U))
    <3>1. IsFiniteSet(image(U \ {x}) \cup {p[x]})
      BY <2>3, FS_AddElement
    <3> QED BY <2>2, <3>1
  <2>5. fsum(image(U)) = f[p[x]] + fsum(image(U \ {x}))
    <3>1. fsum(image(U) \ {p[x]}) = fsum(image(U \ {x}))
      BY <2>2
    <3>2. fsum(image(U)) = f[p[x]] + fsum(image(U) \ {p[x]})
      BY <1>4, <2>1, <2>4
    <3> QED BY <3>1, <3>2
  <2>6. gsum(U) = fsum(image(U))
    BY <1>3, <2>3, <2>5
  <2> QED BY <2>4, <2>6
<1>8. image(S) = T
  BY <1>1
<1> HIDE DEF Good
<1>9. S \in Good
  BY <1>6, <1>7, SetInduction
<1> HIDE DEF image
<1> QED BY <1>8, <1>9 DEF Good, fsum, gsum
=============================================================================
