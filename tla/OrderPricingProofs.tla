-------------------------- MODULE OrderPricingProofs --------------------------
(***************************************************************************)
(* What pricing does to a list of any length: nothing is lost when items   *)
(* are grouped and sorted, and the tax of a bill is rounded once per rate  *)
(* and shared fairly.                                                      *)
(***************************************************************************)
EXTENDS OrderPricing, FiniteSums, SequenceTheorems

\* A finite set whose elements come one after the other, before[x] being those in front of
\* x: the number of these is the place of x, and every place is taken once.
LEMMA Places ==
  ASSUME NEW S, IsFiniteSet(S), NEW before \in [S -> SUBSET S],
         \A x \in S : x \notin before[x],
         \A x, y \in S : y \in before[x] => before[y] \subseteq before[x],
         \A x, y \in S : x # y => x \in before[y] \/ y \in before[x]
  PROVE  /\ \A x \in S : Cardinality(before[x]) \in 0..(Cardinality(S) - 1)
         /\ \A x, y \in S : y \in before[x] => Cardinality(before[y]) < Cardinality(before[x])
         /\ \A x, y \in S : Cardinality(before[x]) = Cardinality(before[y]) => x = y
         /\ \A k \in 0..(Cardinality(S) - 1) : \E x \in S : Cardinality(before[x]) = k
         /\ \A k \in 0..Cardinality(S) : Cardinality({x \in S : Cardinality(before[x]) < k}) = k
<1> DEFINE place == [x \in S |-> Cardinality(before[x])]
           size == Cardinality(S)
<1>1. \A T \in SUBSET S : IsFiniteSet(T) /\ Cardinality(T) \in Nat
  BY FS_Subset, FS_CardinalityType
<1>2. size \in Nat
  BY <1>1
<1>3. ASSUME NEW x \in S PROVE place[x] \in 0..(size - 1)
  <2>1. before[x] \in SUBSET (S \ {x}) /\ before[x] \in SUBSET S
    OBVIOUS
  <2>2. IsFiniteSet(S \ {x}) /\ Cardinality(S \ {x}) = size - 1
    BY FS_RemoveElement
  <2>3. Cardinality(before[x]) <= size - 1
    BY <2>1, <2>2, FS_Subset
  <2> QED BY <1>1, <1>2, <2>1, <2>3
<1>4. ASSUME NEW x \in S, NEW y \in before[x] PROVE y \in S /\ place[y] < place[x]
  <2>1. y \in S /\ before[y] \in SUBSET before[x] /\ before[y] # before[x]
    BY <1>4
  <2>2. IsFiniteSet(before[x])
    BY <1>1
  <2>3. /\ Cardinality(before[y]) <= Cardinality(before[x])
        /\ Cardinality(before[y]) # Cardinality(before[x])
    BY <2>1, <2>2, FS_Subset
  <2>4. Cardinality(before[y]) \in Nat /\ Cardinality(before[x]) \in Nat
    BY <1>1, <2>1
  <2> QED BY <2>1, <2>3, <2>4
<1> HIDE DEF place
<1>5. \A x, y \in S : place[x] = place[y] => x = y
  BY <1>2, <1>3, <1>4
<1>6. place \in Injection(S, 0..(size - 1))
  BY <1>3, <1>5 DEF Injection, IsInjective, place
<1>7. \A k \in 0..(size - 1) : \E x \in S : place[x] = k
  <2>1. IsFiniteSet(0..(size - 1)) /\ Cardinality(0..(size - 1)) = size
    BY <1>2, FS_Interval
  <2>2. place \in Surjection(S, 0..(size - 1))
    BY <1>6, <2>1, FS_Injection
  <2> QED BY <2>2 DEF Surjection
<1>8. ASSUME NEW k \in 0..size PROVE Cardinality({x \in S : place[x] < k}) = k
  <2> DEFINE A == {x \in S : place[x] < k}
             f == [x \in A |-> place[x]]
  <2>1. IsFiniteSet(0..(k - 1)) /\ Cardinality(0..(k - 1)) = k
    <3>1. k \in Int /\ k >= 0 /\ 0 \in Int /\ k - 1 \in Int
      BY <1>2
    <3>2. Cardinality(0..(k - 1)) = IF 0 > k - 1 THEN 0 ELSE (k - 1) - 0 + 1
      BY <3>1, FS_Interval
    <3>3. IsFiniteSet(0..(k - 1))
      BY <3>1, FS_Interval
    <3> QED BY <3>1, <3>2, <3>3
  <2>2. f \in Injection(A, 0..(k - 1))
    BY <1>2, <1>3, <1>5 DEF Injection, IsInjective
  <2>3. f \in Surjection(A, 0..(k - 1))
    <3>1. f \in [A -> 0..(k - 1)]
      BY <2>2 DEF Injection
    <3>2. ASSUME NEW j \in 0..(k - 1) PROVE \E x \in A : f[x] = j
      <4>1. j \in 0..(size - 1) /\ j < k
        BY <1>2
      <4>2. PICK x \in S : place[x] = j
        BY <1>7, <4>1
      <4> QED BY <4>1, <4>2
    <3> HIDE DEF f, A
    <3> QED BY <3>1, <3>2 DEF Surjection
  <2> HIDE DEF f, A
  <2> QED BY <2>1, <2>2, <2>3, FS_Injection DEF A
<1>9. \A x \in S : place[x] = Cardinality(before[x])
  BY DEF place
<1>10. \A k : {x \in S : place[x] < k} = {x \in S : Cardinality(before[x]) < k}
  BY <1>9
<1> QED BY <1>3, <1>4, <1>5, <1>7, <1>8, <1>9, <1>10

-----------------------------------------------------------------------------
(* finalizeBillVat, for any units.                                         *)

Unit == {u \in [gross : Nat, rate : Nat] : u.rate > 0}

\* The code's division, for any numbers.
LEMMA Division ==
  ASSUME NEW a \in Nat, NEW d \in Nat, d > 0
  PROVE  /\ a \div d \in Nat /\ a % d \in 0..(d - 1)
         /\ a = d * (a \div d) + (a % d)
OBVIOUS

\* The units of a rate are finitely many positions of the list.
LEMMA GroupFinite ==
  ASSUME NEW units \in Seq(Unit), NEW rate
  PROVE  /\ IsFiniteSet(GroupOf(units, rate))
         /\ GroupOf(units, rate) \subseteq DOMAIN units
         /\ IsFiniteSet(DOMAIN units)
         /\ \A n \in DOMAIN units : units[n] \in Unit
<1>1. DOMAIN units = 1..Len(units) /\ Len(units) \in Nat
  OBVIOUS
<1>2. IsFiniteSet(1..Len(units))
  BY <1>1, FS_Interval
<1>3. GroupOf(units, rate) \in SUBSET (DOMAIN units)
  BY DEF GroupOf
<1> QED BY <1>1, <1>2, <1>3, FS_Subset

\* The share of a unit before rounding.
LEMMA Share ==
  ASSUME NEW u \in Unit
  PROVE  /\ divisor(u.rate) \in Nat /\ divisor(u.rate) > 1
         /\ u.gross * u.rate \in Nat
         /\ floor(u) \in Nat /\ remainder(u) \in 0..(divisor(u.rate) - 1)
         /\ u.gross * u.rate = divisor(u.rate) * floor(u) + remainder(u)
<1>1. u.gross \in Nat /\ u.rate \in Nat /\ u.rate > 0
  BY DEF Unit
<1>2. divisor(u.rate) \in Nat /\ divisor(u.rate) > 1 /\ u.gross * u.rate \in Nat
  BY <1>1 DEF divisor
<1> HIDE DEF divisor
<1>3. PICK a \in Nat, d \in Nat : a = u.gross * u.rate /\ d = divisor(u.rate)
  BY <1>2
<1>4. a \div d \in Nat /\ a % d \in 0..(d - 1) /\ a = d * (a \div d) + (a % d)
  BY <1>2, <1>3, Division
<1> QED BY <1>2, <1>3, <1>4 DEF floor, remainder

\* The units in front of another, in the order in which the cents are given out.
LEMMA AheadOrders ==
  ASSUME NEW units \in Seq(Unit), NEW rate, NEW G, G = GroupOf(units, rate)
  PROVE  /\ \A n \in G : Ahead(units, G, n) \in SUBSET G /\ n \notin Ahead(units, G, n)
         /\ \A m, n \in G : m \in Ahead(units, G, n)
                              => Ahead(units, G, m) \subseteq Ahead(units, G, n)
         /\ \A m, n \in G : m # n => m \in Ahead(units, G, n) \/ n \in Ahead(units, G, m)
<1>1. \A n \in G : n \in Nat /\ remainder(units[n]) \in Nat
  <2>1. ASSUME NEW n \in G PROVE n \in Nat /\ remainder(units[n]) \in Nat
    <3>1. n \in DOMAIN units /\ units[n] \in Unit /\ DOMAIN units = 1..Len(units)
      BY GroupFinite
    <3>2. remainder(units[n]) \in Nat
      BY <3>1, Share
    <3> QED BY <3>1, <3>2
  <2> QED BY <2>1
<1> QED BY <1>1 DEF Ahead

\* The cents that are left of a group once every unit has its share rounded down.
Left(units, G, rate) ==
  Tax(Gross(units, G), rate) - SumFunction([n \in G |-> floor(units[n])])

\* t is x / d, rounded half up.
Rounds(t, x, d) == 2 * (t * d) <= 2 * x + d /\ 2 * x + d < 2 * (t * d) + 2 * d

\* The tax of an amount is its exact tax, rounded half up.
LEMMA TaxRounds ==
  ASSUME NEW gross \in Nat, NEW rate \in Nat, rate > 0
  PROVE  Tax(gross, rate) \in Nat /\ Rounds(Tax(gross, rate), gross * rate, divisor(rate))
<1>1. divisor(rate) \in Nat /\ divisor(rate) > 0
  BY DEF divisor
<1> DEFINE d == divisor(rate)
           x == gross * rate
<1>2. x \in Nat /\ d \in Nat /\ d > 0 /\ gross * rate * 2 = 2 * x
  BY <1>1
<1>3. Tax(gross, rate) = (2 * x + d) \div (2 * d)
  BY <1>2 DEF Tax
<1> HIDE DEF d, x
<1>4. PICK t \in Nat, r \in 0..(2 * d - 1) :
         t = (2 * x + d) \div (2 * d) /\ 2 * x + d = (2 * d) * t + r
  <2>1. PICK a \in Nat, e \in Nat : a = 2 * x + d /\ e = 2 * d /\ e > 0
    BY <1>2
  <2>2. e > 0
    BY <2>1
  <2>3. a \div e \in Nat /\ a % e \in 0..(e - 1) /\ a = e * (a \div e) + (a % e)
    BY <2>2, Division
  <2> QED BY <2>1, <2>3
<1>5. (2 * d) * t = 2 * (t * d) /\ t * d \in Nat
  BY <1>2
<1>6. 2 * (t * d) <= 2 * x + d /\ 2 * x + d < 2 * (t * d) + 2 * d
  BY <1>2, <1>4, <1>5
<1> QED BY <1>3, <1>4, <1>6 DEF d, x, Rounds

\* No more cents are left than there are units with a part of a cent.
LEMMA LeftBounded ==
  ASSUME NEW units \in Seq(Unit), NEW rate \in Nat, rate > 0, NEW G, G = GroupOf(units, rate)
  PROVE  /\ Gross(units, G) \in Nat
         /\ SumFunction([n \in G |-> floor(units[n])]) \in Nat
         /\ Left(units, G, rate) \in Nat
         /\ Left(units, G, rate) \in 0..Cardinality({n \in G : remainder(units[n]) > 0})
<1> DEFINE d == divisor(rate)
           gross == [n \in G |-> units[n].gross]
           down == [n \in G |-> floor(units[n])]
           part == [n \in G |-> remainder(units[n])]
           exact == [n \in G |-> units[n].gross * rate]
           zero == [n \in G |-> 0]
           P == {n \in G : remainder(units[n]) > 0}
           one == [n \in G |-> IF n \in P THEN 1 ELSE 0]
           most == [n \in G |-> (d - 1) * one[n] + zero[n]]
           sum(f) == SumFunctionOnSet(f, G)
<1>1. IsFiniteSet(G)
  BY GroupFinite
<1>2. d \in Nat /\ d > 1
  BY DEF divisor
<1>3. ASSUME NEW n \in G
      PROVE  /\ gross[n] \in Nat /\ down[n] \in Nat /\ part[n] \in 0..(d - 1)
             /\ exact[n] = rate * gross[n] + zero[n]
             /\ exact[n] = d * down[n] + part[n]
  <2>1. PICK u \in Unit : u = units[n] /\ u.rate = rate
    BY GroupFinite DEF GroupOf
  <2>2. u.gross \in Nat
    BY DEF Unit
  <2>3. /\ floor(u) \in Nat /\ remainder(u) \in 0..(divisor(u.rate) - 1)
        /\ u.gross * u.rate = divisor(u.rate) * floor(u) + remainder(u)
    BY Share
  <2>4. u.gross * rate = rate * u.gross + 0
    BY <1>2, <2>2
  <2> HIDE DEF d
  <2>5. /\ floor(u) \in Nat /\ remainder(u) \in 0..(d - 1)
        /\ u.gross * rate = d * floor(u) + remainder(u)
    BY <2>1, <2>3 DEF d
  <2> QED BY <2>1, <2>2, <2>4, <2>5
<1>4. \A n \in G : zero[n] = 0 /\ part[n] = remainder(units[n])
  OBVIOUS
<1>5. P \in SUBSET G /\ \A n \in G : one[n] = IF n \in P THEN 1 ELSE 0
  OBVIOUS
<1>6. \A n \in G : most[n] = (d - 1) * one[n] + zero[n]
  OBVIOUS
<1>7. \A n \in G : n \in P <=> part[n] > 0
  OBVIOUS
<1>8. Gross(units, G) = sum(gross) /\ SumFunction(down) = sum(down)
  BY DEF Gross, SumFunction
<1> HIDE DEF gross, down, part, exact, zero, one, most, P, d, sum
<1>9. sum(gross) \in Nat /\ sum(down) \in Nat /\ sum(part) \in Nat
  <2>1. \A n \in G : part[n] \in Nat
    BY <1>2, <1>3
  <2> QED BY <1>1, <1>3, <2>1, SumNat DEF sum
<1>10. sum(zero) = 0
  <2>1. {} \in SUBSET G /\ \A n \in G : zero[n] = IF n \in {} THEN 1 ELSE 0
    BY <1>4
  <2> QED BY <1>1, <2>1, SumCount, FS_EmptySet DEF sum
<1>11. sum(exact) = rate * sum(gross) + sum(zero)
  <2>1. Combines(G, rate, gross, zero, exact)
    BY <1>3, <1>4 DEF Combines
  <2> QED BY <1>1, <1>2, <2>1, SumLinear DEF sum
<1>12. sum(exact) = d * sum(down) + sum(part)
  <2>1. Combines(G, d, down, part, exact)
    BY <1>2, <1>3 DEF Combines
  <2> QED BY <1>1, <1>2, <2>1, SumLinear DEF sum
<1>13. Cardinality(P) \in Nat
  BY <1>1, <1>5, FS_Subset, FS_CardinalityType
<1>14. sum(part) <= (d - 1) * Cardinality(P)
  <2>1. PICK e \in Nat : e = d - 1
    BY <1>2
  <2>2. Combines(G, e, one, zero, most)
    <3>1. \A n \in G : one[n] \in Nat /\ zero[n] \in Nat
      BY <1>4, <1>5
    <3> QED BY <1>6, <2>1, <3>1 DEF Combines
  <2>3. sum(most) = e * sum(one) + sum(zero)
    BY <1>1, <2>1, <2>2, SumLinear DEF sum
  <2>4. sum(one) = Cardinality(P)
    BY <1>1, <1>5, SumCount DEF sum
  <2>5. \A n \in G : part[n] \in Nat /\ most[n] \in Nat /\ part[n] <= most[n]
    <3>1. ASSUME NEW n \in G PROVE part[n] \in Nat /\ most[n] \in Nat /\ part[n] <= most[n]
      <4>1. part[n] \in 0..(d - 1) /\ zero[n] = 0
        BY <1>3, <1>4
      <4>2. CASE n \in P
        BY <1>2, <1>5, <1>6, <4>1, <4>2
      <4>3. CASE n \notin P
        BY <1>2, <1>5, <1>6, <1>7, <4>1, <4>3
      <4> QED BY <4>2, <4>3
    <3> QED BY <3>1
  <2>6. sum(part) <= sum(most)
    BY <1>1, <2>5, SumMonotone DEF sum
  <2>7. e * Cardinality(P) \in Nat
    BY <1>13
  <2> QED BY <1>10, <2>1, <2>3, <2>4, <2>6, <2>7
<1>15. PICK t \in Nat :
          /\ t = Tax(sum(gross), rate)
          /\ Rounds(t, sum(gross) * rate, d)
  <2>1. PICK g \in Nat : g = sum(gross)
    BY <1>9
  <2>2. Tax(g, rate) \in Nat /\ Rounds(Tax(g, rate), g * rate, divisor(rate))
    BY TaxRounds
  <2>3. d = divisor(rate)
    BY DEF d
  <2> QED BY <2>1, <2>2, <2>3
<1>16. Left(units, G, rate) = t - sum(down)
  BY <1>8, <1>15 DEF Left, down
<1>17. t - sum(down) \in 0..Cardinality(P)
  <2>1. PICK g \in Nat, q \in Nat, m \in Nat, c \in Nat :
           g = sum(gross) /\ q = sum(down) /\ m = sum(part) /\ c = Cardinality(P)
    BY <1>9, <1>13
  <2>2. g * rate = d * q + m
    <3>1. rate * g + 0 = d * q + m
      BY <1>10, <1>11, <1>12, <2>1
    <3> QED BY <1>2, <3>1
  <2>3. m <= (d - 1) * c
    BY <1>14, <2>1
  <2>4. PICK k \in Int : k = t - q
    BY <1>15
  <2>5. t * d = d * q + d * k
    BY <1>2, <2>4
  <2>55. PICK td \in Int, dq \in Int, dk \in Int, gr \in Int :
            td = t * d /\ dq = d * q /\ dk = d * k /\ gr = g * rate
    BY <1>2, <2>4
  <2>6. d * q \in Nat /\ d * k \in Int /\ d * c \in Nat /\ (d - 1) * c = d * c - c
    BY <1>2, <2>4
  <2>7. 2 * (d * k) <= 2 * m + d /\ 2 * m + d < 2 * (d * k) + 2 * d
    <3>1. 2 * (t * d) <= 2 * (g * rate) + d /\ 2 * (g * rate) + d < 2 * (t * d) + 2 * d
      BY <1>15, <2>1 DEF Rounds
    <3>2. 2 * td <= 2 * gr + d /\ 2 * gr + d < 2 * td + 2 * d
      BY <2>55, <3>1
    <3>3. td = dq + dk /\ gr = dq + m
      BY <2>2, <2>5, <2>55
    <3>4. 2 * dk <= 2 * m + d /\ 2 * m + d < 2 * dk + 2 * d
      BY <1>2, <3>2, <3>3
    <3> QED BY <2>55, <3>4
  <2>8. k >= 0
    <3>1. SUFFICES ASSUME k <= -1 PROVE FALSE
      BY <2>4
    <3>2. d * k <= d * (-1)
      BY <1>2, <3>1
    <3> QED BY <1>2, <2>6, <2>7, <3>2
  <2>9. k <= c
    <3>1. SUFFICES ASSUME k >= c + 1 PROVE FALSE
      BY <2>4
    <3>2. d * k >= d * (c + 1) /\ d * (c + 1) = d * c + d
      BY <1>2, <3>1
    <3> QED BY <1>2, <2>3, <2>6, <2>7, <3>2
  <2> QED BY <2>1, <2>4, <2>8, <2>9
<1>18. t - sum(down) \in Nat
  BY <1>13, <1>17
<1> QED BY <1>8, <1>9, <1>16, <1>17, <1>18 DEF P, down

\* A unit bears its tax rounded down, and a cent if few enough are ahead of it.
LEMMA TaxOfUnit ==
  ASSUME NEW units \in Seq(Unit), NEW n \in DOMAIN units,
         NEW rate, rate = units[n].rate, NEW G, G = GroupOf(units, rate)
  PROVE  taxByUnit(units)[n] =
           floor(units[n]) + IF Cardinality(Ahead(units, G, n)) < Left(units, G, rate) THEN 1 ELSE 0
<1> DEFINE rates == {units[m].rate : m \in DOMAIN units}
           left == [r \in rates |-> Left(units, GroupOf(units, r), r)]
<1>1. taxByUnit(units)[n] =
        floor(units[n]) + IF Cardinality(Ahead(units, G, n)) < left[rate] THEN 1 ELSE 0
  BY DEF taxByUnit, Left
<1>2. left[rate] = Left(units, G, rate)
  OBVIOUS
<1> QED BY <1>1, <1>2

\* The places of the units of one group.
LEMMA PlacesAhead ==
  ASSUME NEW units \in Seq(Unit), NEW rate, NEW G, G = GroupOf(units, rate)
  PROVE  /\ \A n \in G : Cardinality(Ahead(units, G, n)) \in Nat
         /\ \A m, n \in G : m \in Ahead(units, G, n) =>
              Cardinality(Ahead(units, G, m)) < Cardinality(Ahead(units, G, n))
         /\ \A k \in 0..Cardinality(G) :
              Cardinality({n \in G : Cardinality(Ahead(units, G, n)) < k}) = k
<1> DEFINE before == [n \in G |-> Ahead(units, G, n)]
<1>1. IsFiniteSet(G)
  BY GroupFinite
<1>2. /\ before \in [G -> SUBSET G]
      /\ \A n \in G : before[n] = Ahead(units, G, n)
      /\ \A n \in G : n \notin before[n]
      /\ \A m, n \in G : m \in before[n] => before[m] \subseteq before[n]
      /\ \A m, n \in G : m # n => m \in before[n] \/ n \in before[m]
  BY AheadOrders
<1> HIDE DEF before
<1>3. /\ \A n \in G : Cardinality(before[n]) \in 0..(Cardinality(G) - 1)
      /\ \A m, n \in G : m \in before[n] => Cardinality(before[m]) < Cardinality(before[n])
      /\ \A k \in 0..Cardinality(G) : Cardinality({n \in G : Cardinality(before[n]) < k}) = k
  BY <1>1, <1>2, Places
<1>4. ASSUME NEW k \in 0..Cardinality(G)
      PROVE  Cardinality({n \in G : Cardinality(Ahead(units, G, n)) < k}) = k
  <2>1. {n \in G : Cardinality(before[n]) < k} = {n \in G : Cardinality(Ahead(units, G, n)) < k}
    BY <1>2
  <2>2. Cardinality({n \in G : Cardinality(before[n]) < k}) = k
    BY <1>3
  <2> QED BY <2>1, <2>2
<1>5. ASSUME NEW n \in G PROVE Cardinality(Ahead(units, G, n)) \in Nat
  BY <1>1, <1>2, FS_Subset, FS_CardinalityType
<1> QED BY <1>2, <1>3, <1>4, <1>5

\* The taxes of a group add up to the tax of its gross.
LEMMA TaxesAddUp ==
  ASSUME NEW units \in Seq(Unit), NEW rate \in Nat, rate > 0,
         NEW G, G = GroupOf(units, rate)
  PROVE  SumFunction([n \in G |-> taxByUnit(units)[n]]) = Tax(Gross(units, G), rate)
<1> DEFINE down == [n \in G |-> floor(units[n])]
           taxes == [n \in G |-> taxByUnit(units)[n]]
           left == Left(units, G, rate)
           Lucky == {n \in G : Cardinality(Ahead(units, G, n)) < left}
           extra == [n \in G |-> IF n \in Lucky THEN 1 ELSE 0]
           P == {n \in G : remainder(units[n]) > 0}
           sum(f) == SumFunctionOnSet(f, G)
<1>1. IsFiniteSet(G) /\ G \subseteq DOMAIN units
  BY GroupFinite
<1>2. left \in 0..Cardinality(P) /\ sum(down) \in Nat
  BY LeftBounded DEF SumFunction
<1>3. left \in 0..Cardinality(G)
  <2>1. P \in SUBSET G
    OBVIOUS
  <2> HIDE DEF P
  <2>2. Cardinality(P) <= Cardinality(G) /\ Cardinality(G) \in Nat /\ Cardinality(P) \in Nat
    BY <1>1, <2>1, FS_Subset, FS_CardinalityType
  <2> QED BY <1>2, <2>2
<1>4. Cardinality(Lucky) = left
  <2> HIDE DEF left
  <2> QED BY <1>3, PlacesAhead
<1>5. Lucky \in SUBSET G /\ \A n \in G : extra[n] = IF n \in Lucky THEN 1 ELSE 0
  OBVIOUS
<1>6. Tax(Gross(units, G), rate) = left + sum(down)
  <2>1. Gross(units, G) \in Nat
    BY LeftBounded
  <2>2. Tax(Gross(units, G), rate) \in Nat
    BY <2>1, TaxRounds
  <2>3. left = Tax(Gross(units, G), rate) - sum(down)
    BY DEF Left, SumFunction
  <2> HIDE DEF left, down, sum
  <2> QED BY <1>2, <2>2, <2>3
<1>7. ASSUME NEW n \in G
      PROVE  down[n] \in Nat /\ extra[n] \in Nat /\ taxes[n] = down[n] + extra[n]
  <2>1. n \in DOMAIN units /\ units[n].rate = rate /\ units[n] \in Unit
    BY GroupFinite DEF GroupOf
  <2>2. floor(units[n]) \in Nat
    BY <2>1, Share
  <2>3. taxByUnit(units)[n] =
          floor(units[n]) + IF Cardinality(Ahead(units, G, n)) < left THEN 1 ELSE 0
    BY <2>1, TaxOfUnit
  <2> QED BY <2>2, <2>3
<1>8. sum(taxes) = SumFunction(taxes)
  BY DEF SumFunction
<1> HIDE DEF down, taxes, left, Lucky, extra, P, sum
<1>9. PICK one \in Nat : one = 1
  OBVIOUS
<1>10. Combines(G, one, down, extra, taxes)
  BY <1>7, <1>9 DEF Combines
<1>11. sum(taxes) = one * sum(down) + sum(extra)
  BY <1>1, <1>9, <1>10, SumLinear DEF sum
<1>12. sum(extra) = left
  BY <1>1, <1>4, <1>5, SumCount DEF sum
<1>13. sum(taxes) = Tax(Gross(units, G), rate)
  BY <1>2, <1>6, <1>9, <1>11, <1>12
<1> QED BY <1>8, <1>13 DEF taxes

-----------------------------------------------------------------------------
(* The shares of single units.                                             *)

\* A unit is given a cent only for the part of a cent that it lost.
LEMMA CentForAPart ==
  ASSUME NEW units \in Seq(Unit), NEW n \in DOMAIN units
  PROVE  /\ taxByUnit(units)[n] - floor(units[n]) \in {0, 1}
         /\ taxByUnit(units)[n] > floor(units[n]) => remainder(units[n]) > 0
<1> DEFINE rate == units[n].rate
           G == GroupOf(units, rate)
           P == {m \in G : remainder(units[m]) > 0}
<1>1. n \in G /\ IsFiniteSet(G) /\ \A m \in G : m \in DOMAIN units /\ units[m] \in Unit
  BY GroupFinite DEF GroupOf
<1>2. floor(units[n]) \in Nat /\ \A m \in G : remainder(units[m]) \in Nat
  <2>1. ASSUME NEW m \in G PROVE floor(units[m]) \in Nat /\ remainder(units[m]) \in Nat
    <3>1. PICK u \in Unit : u = units[m]
      BY <1>1
    <3>2. divisor(u.rate) \in Nat /\ floor(u) \in Nat /\ remainder(u) \in 0..(divisor(u.rate) - 1)
      BY Share
    <3> HIDE DEF G
    <3> QED BY <3>1, <3>2
  <2> QED BY <1>1, <2>1
<1>3. rate \in Nat /\ rate > 0
  BY <1>1 DEF Unit
<1> HIDE DEF rate
<1>4. taxByUnit(units)[n] =
        floor(units[n]) + IF Cardinality(Ahead(units, G, n)) < Left(units, G, rate) THEN 1 ELSE 0
  BY TaxOfUnit DEF rate
<1>5. Left(units, G, rate) \in 0..Cardinality(P)
  BY <1>3, LeftBounded
<1>6. ASSUME remainder(units[n]) = 0
      PROVE  ~(Cardinality(Ahead(units, G, n)) < Left(units, G, rate))
  <2>1. P \subseteq Ahead(units, G, n)
    BY <1>2, <1>6 DEF Ahead
  <2>2. Ahead(units, G, n) \in SUBSET G
    BY DEF Ahead
  <2> HIDE DEF G, P
  <2>3. IsFiniteSet(Ahead(units, G, n))
    BY <1>1, <2>2, FS_Subset
  <2>4. /\ Cardinality(P) <= Cardinality(Ahead(units, G, n))
        /\ Cardinality(P) \in Nat /\ Cardinality(Ahead(units, G, n)) \in Nat
    BY <2>1, <2>3, FS_Subset, FS_CardinalityType
  <2> QED BY <1>5, <2>4
<1> HIDE DEF G
<1>7. remainder(units[n]) \in Nat
  BY <1>1, <1>2
<1> QED BY <1>2, <1>4, <1>6, <1>7

\* A larger number has a larger quotient, or the same and a larger remainder.
LEMMA QuotientGrows ==
  ASSUME NEW d \in Nat, NEW q \in Nat, NEW p \in Nat, NEW r \in Nat, NEW t \in Nat,
         r < d, t < d, d * q + r < d * p + t
  PROVE  q < p \/ (q = p /\ r < t)
<1>1. d * q \in Nat /\ d * p \in Nat
  OBVIOUS
<1>2. CASE q >= p + 1
  <2>1. d * q >= d * (p + 1) /\ d * (p + 1) = d * p + d
    BY <1>2
  <2> QED BY <1>1, <2>1
<1>3. CASE q = p
  BY <1>1, <1>3
<1> QED BY <1>2, <1>3

\* At one rate a unit of higher price never bears less tax.
LEMMA MoreBearsMore ==
  ASSUME NEW units \in Seq(Unit), NEW m \in DOMAIN units, NEW n \in DOMAIN units,
         units[m].rate = units[n].rate, units[m].gross < units[n].gross
  PROVE  taxByUnit(units)[m] <= taxByUnit(units)[n]
<1>1. PICK u \in Unit, v \in Unit, rate \in Nat :
         /\ u = units[m] /\ v = units[n] /\ u.rate = rate /\ v.rate = rate
         /\ rate > 0 /\ u.gross < v.gross
  <2>1. units[m] \in Unit /\ units[n] \in Unit
    BY GroupFinite
  <2> QED BY <2>1 DEF Unit
<1>2. PICK G : G = GroupOf(units, rate)
  OBVIOUS
<1>3. m \in G /\ n \in G
  BY <1>1, <1>2 DEF GroupOf
<1>4. PICK left \in Nat : left = Left(units, G, rate)
  BY <1>1, <1>2, LeftBounded
<1>5. PICK i \in Nat, j \in Nat :
         /\ i = Cardinality(Ahead(units, G, m)) /\ j = Cardinality(Ahead(units, G, n))
         /\ n \in Ahead(units, G, m) => j < i
  BY <1>2, <1>3, PlacesAhead
<1>6. PICK x \in {0, 1}, y \in {0, 1} :
         x = (IF i < left THEN 1 ELSE 0) /\ y = (IF j < left THEN 1 ELSE 0)
  OBVIOUS
<1>7. /\ divisor(rate) \in Nat /\ divisor(rate) > 1
      /\ floor(u) \in Nat /\ remainder(u) \in 0..(divisor(rate) - 1)
      /\ u.gross * rate = divisor(rate) * floor(u) + remainder(u)
  BY <1>1, Share
<1>8. /\ floor(v) \in Nat /\ remainder(v) \in 0..(divisor(rate) - 1)
      /\ v.gross * rate = divisor(rate) * floor(v) + remainder(v)
  BY <1>1, Share
<1>9. PICK d \in Nat : d = divisor(rate)
  BY <1>7
<1>10. PICK q \in Nat, p \in Nat, r \in 0..(d - 1), t \in 0..(d - 1) :
         q = floor(u) /\ r = remainder(u) /\ p = floor(v) /\ t = remainder(v)
  BY <1>7, <1>8, <1>9
<1>11. /\ u.gross * rate = d * q + r /\ v.gross * rate = d * p + t
      /\ r \in Nat /\ t \in Nat /\ r < d /\ t < d
  <2>1. d * q = divisor(rate) * floor(u) /\ d * p = divisor(rate) * floor(v)
    BY <1>9, <1>10
  <2>2. r \in Nat /\ t \in Nat /\ r < d /\ t < d
    OBVIOUS
  <2>3. u.gross * rate = d * q + r
    BY <1>7, <1>10, <2>1, Zenon
  <2>4. v.gross * rate = d * p + t
    BY <1>8, <1>10, <2>1, Zenon
  <2> QED BY <2>2, <2>3, <2>4
<1>12. d * q + r < d * p + t
  <2>1. PICK a \in Nat, b \in Nat : a = u.gross /\ b = v.gross /\ a < b
    BY <1>1 DEF Unit
  <2>2. a * rate < b * rate
    BY <1>1, <2>1
  <2> QED BY <1>10, <1>11, <2>1, <2>2
<1>13. q < p \/ (q = p /\ r < t)
  BY <1>11, <1>12, QuotientGrows
<1>14. taxByUnit(units)[m] = q + x /\ taxByUnit(units)[n] = p + y
  <2>1. /\ taxByUnit(units)[m] =
             floor(units[m]) + IF Cardinality(Ahead(units, G, m)) < Left(units, G, rate) THEN 1 ELSE 0
        /\ taxByUnit(units)[n] =
             floor(units[n]) + IF Cardinality(Ahead(units, G, n)) < Left(units, G, rate) THEN 1 ELSE 0
    BY <1>1, <1>2, TaxOfUnit
  <2> QED BY <1>1, <1>4, <1>5, <1>6, <1>10, <1>11, <2>1
<1>15. CASE q < p
  BY <1>6, <1>14, <1>15
<1>16. CASE q = p /\ r < t
  <2>1. n \in Ahead(units, G, m)
    BY <1>1, <1>3, <1>10, <1>11, <1>16 DEF Ahead
  <2>2. j < i
    BY <1>5, <2>1
  <2>3. x <= y
    BY <1>4, <1>5, <1>6, <2>2
  <2>4. x \in Nat /\ y \in Nat
    BY <1>6
  <2> QED BY <1>14, <1>16, <2>3, <2>4
<1> QED BY <1>13, <1>15, <1>16

-----------------------------------------------------------------------------
(* normalizeOrderIntent, for any list.                                     *)

\* An item of a list or of its normal form, where quantities may have been added up.
Line == {l \in [foodId : Food, foodSizeId : Size, note : Note, quantity : Nat] : l.quantity > 0}
Keys == Food \X Size \X Note

\* The items counted by their quantity, each with the weight of its key.
Weigh(weight, list) == [n \in DOMAIN list |-> weight[Key(list[n])] * list[n].quantity]
Weighted(weight, list) == SumFunctionOnSet(Weigh(weight, list), DOMAIN list)

KeysOf(list) == {Key(list[n]) : n \in DOMAIN list}
OncePerKey(list) == \A m, n \in DOMAIN list : Key(list[m]) = Key(list[n]) => m = n

\* The weights of a list of items are finitely many natural numbers.
LEMMA LineType ==
  ASSUME NEW list \in Seq(Line), NEW weight \in [Keys -> Nat]
  PROVE  /\ IsFiniteSet(DOMAIN list) /\ DOMAIN list = 1..Len(list) /\ Len(list) \in Nat
         /\ \A n \in DOMAIN list :
              /\ list[n] \in Line /\ Key(list[n]) \in Keys /\ list[n].quantity \in Nat
              /\ Weigh(weight, list)[n] \in Nat
              /\ Weigh(weight, list)[n] = weight[Key(list[n])] * list[n].quantity
<1>1. DOMAIN list = 1..Len(list) /\ Len(list) \in Nat
  OBVIOUS
<1>2. IsFiniteSet(DOMAIN list)
  BY <1>1, FS_Interval
<1>3. ASSUME NEW n \in DOMAIN list
      PROVE  /\ list[n] \in Line /\ Key(list[n]) \in Keys /\ list[n].quantity \in Nat
             /\ Weigh(weight, list)[n] \in Nat
             /\ Weigh(weight, list)[n] = weight[Key(list[n])] * list[n].quantity
  <2>1. list[n] \in Line
    OBVIOUS
  <2>2. PICK k \in Keys, q \in Nat : k = Key(list[n]) /\ q = list[n].quantity
    BY <2>1 DEF Line, Keys, Key
  <2>3. weight[k] \in Nat /\ weight[k] * q \in Nat
    OBVIOUS
  <2>4. Weigh(weight, list)[n] = weight[Key(list[n])] * list[n].quantity
    BY DEF Weigh
  <2> QED BY <2>1, <2>2, <2>3, <2>4
<1> QED BY <1>1, <1>2, <1>3

\* The weight of a quantity that grows grows with it.
LEMMA Distributes ==
  ASSUME NEW w \in Nat, NEW q \in Nat, NEW i \in Nat
  PROVE  w * (q + i) = w * i + w * q /\ w * i \in Nat
OBVIOUS

\* One more item: its quantity is added where its key is, and at the end otherwise.
LEMMA AddKeeps ==
  ASSUME NEW groups \in Seq(Line), OncePerKey(groups), NEW item \in Line,
         NEW more, more = AddToGroup(groups, item)
  PROVE  /\ more \in Seq(Line) /\ OncePerKey(more)
         /\ KeysOf(more) = KeysOf(groups) \cup {Key(item)}
         /\ \A weight \in [Keys -> Nat] :
              Weighted(weight, more) = weight[Key(item)] * item.quantity + Weighted(weight, groups)
<1>1. CASE \E n \in DOMAIN groups : Key(groups[n]) = Key(item)
  <2>1. PICK at \in DOMAIN groups : Key(groups[at]) = Key(item)
    BY <1>1
  <2>2. more = [n \in DOMAIN groups |->
                  IF n = at THEN [groups[n] EXCEPT !.quantity = @ + item.quantity] ELSE groups[n]]
    BY <1>1, <2>1 DEF AddToGroup, OncePerKey
  <2>3. DOMAIN more = DOMAIN groups /\ DOMAIN groups = 1..Len(groups) /\ Len(groups) \in Nat
    BY <2>2
  <2>4. ASSUME NEW n \in DOMAIN groups
        PROVE  /\ more[n] \in Line /\ Key(more[n]) = Key(groups[n])
               /\ n # at => more[n] = groups[n]
               /\ n = at => more[n].quantity = groups[n].quantity + item.quantity
    <3>1. groups[n] \in Line
      OBVIOUS
    <3>2. CASE n = at
      <4>1. PICK old \in Line, i \in Nat : old = groups[n] /\ i = item.quantity
        BY <3>1 DEF Line
      <4>2. more[n] = [old EXCEPT !.quantity = @ + i]
        BY <2>2, <3>2, <4>1
      <4>3. /\ old \in [foodId : Food, foodSizeId : Size, note : Note, quantity : Nat]
            /\ old.quantity > 0
        BY <4>1 DEF Line
      <4>4. /\ more[n] \in [foodId : Food, foodSizeId : Size, note : Note, quantity : Nat]
            /\ more[n].quantity = old.quantity + i
            /\ <<more[n].foodId, more[n].foodSizeId, more[n].note>>
                 = <<old.foodId, old.foodSizeId, old.note>>
        BY <4>2, <4>3
      <4>5. more[n].quantity > 0
        BY <4>3, <4>4
      <4> QED BY <3>2, <4>1, <4>4, <4>5 DEF Line, Key
    <3>3. CASE n # at
      BY <2>2, <3>1, <3>3
    <3> QED BY <3>2, <3>3
  <2>5. more \in Seq(Line)
    BY <2>2, <2>3, <2>4
  <2>6. OncePerKey(more)
    BY <2>3, <2>4 DEF OncePerKey
  <2>7. KeysOf(more) = KeysOf(groups) \cup {Key(item)}
    BY <2>1, <2>3, <2>4 DEF KeysOf
  <2>8. ASSUME NEW weight \in [Keys -> Nat]
        PROVE  Weighted(weight, more) = weight[Key(item)] * item.quantity + Weighted(weight, groups)
    <3> DEFINE S == DOMAIN groups
               old == Weigh(weight, groups)
               new == Weigh(weight, more)
    <3>1. IsFiniteSet(S) /\ \A n \in S : old[n] \in Nat /\ new[n] \in Nat
      BY <2>3, <2>5, LineType
    <3>2. \A n \in S \ {at} : old[n] = new[n]
      BY <2>3, <2>4 DEF Weigh
    <3>3. PICK w \in Nat, q \in Nat, i \in Nat :
             /\ w = weight[Key(item)] /\ q = groups[at].quantity /\ i = item.quantity
             /\ old[at] = w * q /\ new[at] = w * (q + i)
      <4>1. groups[at] \in Line /\ item \in Line
        OBVIOUS
      <4>2. Key(item) \in Keys /\ groups[at].quantity \in Nat /\ item.quantity \in Nat
        BY <4>1 DEF Line, Keys, Key
      <4>3. old[at] = weight[Key(item)] * groups[at].quantity
        BY <2>1, <2>5, LineType
      <4>4. new[at] = weight[Key(item)] * (groups[at].quantity + item.quantity)
        BY <2>1, <2>3, <2>4 DEF Weigh
      <4> QED BY <4>2, <4>3, <4>4
    <3> HIDE DEF old, new, S
    <3>4. new[at] = w * i + old[at] /\ w * i \in Nat
      <4>1. w * (q + i) = w * i + w * q /\ w * i \in Nat
        BY Distributes
      <4> QED BY <3>3, <4>1
    <3>5. IsFiniteSet(S \ {at})
      BY <3>1, FS_Subset
    <3>6. SumFunctionOnSet(old, S \ {at}) = SumFunctionOnSet(new, S \ {at})
      BY <3>2, <3>5, SumSame
    <3>7. SumFunctionOnSet(old, S \ {at}) \in Nat
      BY <3>1, <3>5, SumNat
    <3>8. /\ SumFunctionOnSet(old, S) = old[at] + SumFunctionOnSet(old, S \ {at})
          /\ SumFunctionOnSet(new, S) = new[at] + SumFunctionOnSet(new, S \ {at})
      BY <3>1, SumRemove DEF S
    <3>9. /\ Weighted(weight, groups) = SumFunctionOnSet(old, S)
          /\ Weighted(weight, more) = SumFunctionOnSet(new, S)
      BY <2>3 DEF Weighted, old, new, S
    <3>10. old[at] \in Nat
      BY <3>1 DEF S
    <3> QED BY <3>3, <3>4, <3>6, <3>7, <3>8, <3>9, <3>10
  <2> QED BY <2>5, <2>6, <2>7, <2>8
<1>2. CASE \A n \in DOMAIN groups : Key(groups[n]) # Key(item)
  <2> DEFINE S == DOMAIN groups
             end == Len(groups) + 1
  <2>1. more = Append(groups, item)
    BY <1>2 DEF AddToGroup
  <2>2. S = 1..Len(groups) /\ Len(groups) \in Nat
    OBVIOUS
  <2>3. /\ more \in Seq(Line) /\ DOMAIN more = S \cup {end} /\ end \notin S
        /\ more[end] = item /\ \A n \in S : more[n] = groups[n]
    BY <2>1, <2>2
  <2> HIDE DEF S, end
  <2>4. OncePerKey(more)
    BY <1>2, <2>3 DEF OncePerKey, S
  <2>5. KeysOf(more) = KeysOf(groups) \cup {Key(item)}
    BY <2>3 DEF KeysOf, S
  <2>6. ASSUME NEW weight \in [Keys -> Nat]
        PROVE  Weighted(weight, more) = weight[Key(item)] * item.quantity + Weighted(weight, groups)
    <3> DEFINE old == Weigh(weight, groups)
               new == Weigh(weight, more)
    <3>1. IsFiniteSet(S) /\ IsFiniteSet(DOMAIN more) /\ \A n \in DOMAIN more : new[n] \in Nat
      BY <2>3, LineType DEF S
    <3>2. \A n \in S : old[n] = new[n]
      BY <2>3 DEF Weigh, S
    <3>3. new[end] = weight[Key(item)] * item.quantity
      BY <2>3 DEF Weigh
    <3> HIDE DEF old, new
    <3>4. PICK all : all = DOMAIN more /\ all \ {end} = S /\ end \in all
      BY <2>3
    <3>5. SumFunctionOnSet(new, all) = new[end] + SumFunctionOnSet(new, all \ {end})
      BY <3>1, <3>4, SumRemove
    <3>6. SumFunctionOnSet(old, S) = SumFunctionOnSet(new, S)
      BY <3>1, <3>2, SumSame
    <3> QED BY <3>3, <3>4, <3>5, <3>6 DEF Weighted, old, new, S
  <2> QED BY <2>3, <2>4, <2>5, <2>6
<1> QED BY <1>1, <1>2

\* The groups after each item of the list.
GroupsAfter(list, g) ==
  g = [n \in 0..Len(list) |-> IF n = 0 THEN <<>> ELSE AddToGroup(g[n - 1], list[n])]

\* The recursion over a list, which grouped is defined by, has a solution.
LEMMA GroupsExist ==
  ASSUME NEW list \in Seq(Line)
  PROVE  \E g : GroupsAfter(list, g) /\ grouped(list) = g[Len(list)]
<1> DEFINE Upto(m, g) ==
             g = [n \in 0..m |-> IF n = 0 THEN <<>> ELSE AddToGroup(g[n - 1], list[n])]
           Good == {m \in Nat : \E g : Upto(m, g)}
<1>1. 0 \in Good
  <2>1. Upto(0, [n \in 0..0 |-> <<>>])
    OBVIOUS
  <2> QED BY <2>1
<1>2. ASSUME NEW m \in Nat, m \in Good PROVE m + 1 \in Good
  <2>1. PICK g : Upto(m, g)
    BY <1>2
  <2> DEFINE h == [n \in 0..(m + 1) |-> IF n = m + 1 THEN AddToGroup(g[m], list[m + 1]) ELSE g[n]]
  <2>2. ASSUME NEW n \in 0..(m + 1)
        PROVE  h[n] = IF n = 0 THEN <<>> ELSE AddToGroup(h[n - 1], list[n])
    <3>1. CASE n = m + 1
      <4>1. n - 1 = m /\ n # 0 /\ m \in 0..(m + 1) /\ m # m + 1
        BY <3>1
      <4>2. h[m] = g[m] /\ h[n] = AddToGroup(g[m], list[n])
        BY <3>1, <4>1
      <4> HIDE DEF h
      <4> QED BY <4>1, <4>2
    <3>2. CASE n \in 0..m
      <4>1. h[n] = g[n] /\ (n # 0 => n - 1 \in 0..m /\ h[n - 1] = g[n - 1])
        BY <3>2
      <4>2. g[n] = IF n = 0 THEN <<>> ELSE AddToGroup(g[n - 1], list[n])
        BY <2>1, <3>2
      <4> HIDE DEF h
      <4> QED BY <4>1, <4>2
    <3> QED BY <3>1, <3>2
  <2>3. h = [n \in 0..(m + 1) |-> h[n]]
    OBVIOUS
  <2> HIDE DEF h
  <2>4. Upto(m + 1, h)
    BY <2>2, <2>3
  <2> QED BY <2>4
<1>3. Len(list) \in Nat
  OBVIOUS
<1> HIDE DEF Good
<1>4. Len(list) \in Good
  BY <1>1, <1>2, <1>3, NumberInduction
<1>5. \E g : GroupsAfter(list, g)
  BY <1>4 DEF Good, GroupsAfter
<1>6. GroupsAfter(list, CHOOSE g : GroupsAfter(list, g))
  BY <1>5
<1>7. grouped(list) = (CHOOSE g : GroupsAfter(list, g))[Len(list)]
  BY DEF grouped, GroupsAfter
<1> QED BY <1>6, <1>7

\* The items of the list that come first.
First(weight, list, n) == SumFunctionOnSet(Weigh(weight, list), 1..n)

\* Grouping keeps every key once, and every weight.
LEMMA GroupingKeeps ==
  ASSUME NEW list \in Seq(Line)
  PROVE  /\ grouped(list) \in Seq(Line) /\ OncePerKey(grouped(list))
         /\ KeysOf(grouped(list)) = KeysOf(list)
         /\ \A weight \in [Keys -> Nat] : Weighted(weight, grouped(list)) = Weighted(weight, list)
<1>1. PICK g : GroupsAfter(list, g) /\ grouped(list) = g[Len(list)]
  BY GroupsExist
<1>2. Len(list) \in Nat /\ DOMAIN list = 1..Len(list)
  OBVIOUS
<1> DEFINE Kept(n) ==
             /\ g[n] \in Seq(Line) /\ OncePerKey(g[n])
             /\ KeysOf(g[n]) = {Key(list[m]) : m \in 1..n}
             /\ \A weight \in [Keys -> Nat] : Weighted(weight, g[n]) = First(weight, list, n)
           Good == {n \in Nat : n <= Len(list) => Kept(n)}
<1>3. 0 \in Good
  <2>1. g[0] = <<>>
    BY <1>1, <1>2 DEF GroupsAfter
  <2>2. g[0] \in Seq(Line) /\ OncePerKey(g[0]) /\ KeysOf(g[0]) = {}
    BY <2>1 DEF OncePerKey, KeysOf
  <2>3. 1..0 = {} /\ DOMAIN g[0] = {}
    BY <2>1
  <2>4. ASSUME NEW weight \in [Keys -> Nat] PROVE Weighted(weight, g[0]) = First(weight, list, 0)
    <3>1. \A f : SumFunctionOnSet(f, {}) = 0
      BY FS_EmptySet, SumFirst
    <3> QED BY <2>3, <3>1 DEF Weighted, First
  <2> HIDE DEF Kept
  <2>5. Kept(0)
    BY <2>2, <2>3, <2>4 DEF Kept
  <2> QED BY <2>5
<1>4. ASSUME NEW n \in Nat, n \in Good PROVE n + 1 \in Good
  <2>1. SUFFICES ASSUME n + 1 <= Len(list) PROVE Kept(n + 1)
    OBVIOUS
  <2>2. Kept(n)
    BY <1>2, <1>4, <2>1
  <2>3. PICK item \in Line : item = list[n + 1]
    BY <1>2, <2>1
  <2>4. g[n + 1] = AddToGroup(g[n], item)
    <3>1. n + 1 \in 0..Len(list) /\ n + 1 # 0 /\ (n + 1) - 1 = n
      BY <1>2, <2>1
    <3>2. g[n + 1] = AddToGroup(g[(n + 1) - 1], list[n + 1])
      BY <1>1, <3>1 DEF GroupsAfter
    <3> QED BY <2>3, <3>1, <3>2
  <2>5. PICK groups \in Seq(Line) : groups = g[n] /\ OncePerKey(groups)
    BY <2>2
  <2>6. /\ g[n + 1] \in Seq(Line) /\ OncePerKey(g[n + 1])
        /\ KeysOf(g[n + 1]) = KeysOf(groups) \cup {Key(item)}
        /\ \A weight \in [Keys -> Nat] :
             Weighted(weight, g[n + 1]) = weight[Key(item)] * item.quantity + Weighted(weight, groups)
    BY <2>4, <2>5, AddKeeps
  <2>7. 1..(n + 1) = (1..n) \cup {n + 1} /\ (1..(n + 1)) \ {n + 1} = 1..n
    OBVIOUS
  <2>8. KeysOf(g[n + 1]) = {Key(list[m]) : m \in 1..(n + 1)}
    <3>1. {Key(list[m]) : m \in 1..(n + 1)} = {Key(list[m]) : m \in 1..n} \cup {Key(list[n + 1])}
      BY <2>7
    <3> QED BY <2>2, <2>3, <2>5, <2>6, <3>1
  <2>9. ASSUME NEW weight \in [Keys -> Nat]
        PROVE  Weighted(weight, g[n + 1]) = First(weight, list, n + 1)
    <3>1. PICK f : f = Weigh(weight, list)
      OBVIOUS
    <3>2. \A m \in 1..(n + 1) : f[m] \in Nat
      BY <1>2, <2>1, <3>1, LineType
    <3>3. f[n + 1] = weight[Key(item)] * item.quantity
      BY <1>2, <2>1, <2>3, <3>1 DEF Weigh
    <3>4. PICK T : T = 1..(n + 1) /\ IsFiniteSet(T) /\ n + 1 \in T /\ T \ {n + 1} = 1..n
      BY <2>7, FS_Interval
    <3>5. SumFunctionOnSet(f, T) = f[n + 1] + SumFunctionOnSet(f, T \ {n + 1})
      BY <3>2, <3>4, SumRemove
    <3>6. First(weight, list, n + 1) = weight[Key(item)] * item.quantity + First(weight, list, n)
      BY <3>1, <3>3, <3>4, <3>5 DEF First
    <3>7. Weighted(weight, groups) = First(weight, list, n)
      BY <2>2, <2>5
    <3> QED BY <2>6, <3>6, <3>7
  <2> HIDE DEF Good
  <2> QED BY <2>6, <2>8, <2>9
<1> HIDE DEF Good
<1>5. Len(list) \in Good
  BY <1>2, <1>3, <1>4, NumberInduction
<1>6. Kept(Len(list))
  BY <1>2, <1>5 DEF Good
<1> HIDE DEF Kept
<1>7. KeysOf(list) = {Key(list[m]) : m \in 1..Len(list)}
  BY <1>2 DEF KeysOf
<1>8. \A weight \in [Keys -> Nat] : Weighted(weight, list) = First(weight, list, Len(list))
  BY <1>2 DEF Weighted, First
<1> QED BY <1>1, <1>6, <1>7, <1>8 DEF Kept

\* What the assumption on the menu says, a fact at a time.
LEMMA CatalogType ==
  /\ Food \subseteq Nat /\ Size \subseteq Nat /\ MaxQuantity \in Nat
  /\ \A f \in Food : Price[f] \in Nat /\ rateBps[f] \in Nat /\ rateBps[f] > 0
  /\ \A s \in Size : moneyAdded[s] \in Nat
<1>1. Food \subseteq Nat /\ Size \subseteq Nat /\ MaxQuantity \in Nat
  BY PricingAssumption
<1>2. \A f \in Food : Price[f] \in Nat
  BY PricingAssumption
<1>3. \A s \in Size : moneyAdded[s] \in Nat
  BY PricingAssumption
<1>4. \A f \in Food : rateBps[f] \in Nat /\ rateBps[f] > 0
  BY PricingAssumption
<1> QED BY <1>1, <1>2, <1>3, <1>4

\* The code's comparison orders items; those of one food and size are not told apart.
LEMMA LessTransitive ==
  ASSUME NEW a \in Line, NEW b \in Line, NEW c \in Line
  PROVE  /\ Less(a, b) => ~Less(b, a)
         /\ ~Less(b, a) /\ ~Less(c, b) => ~Less(c, a)
         /\ Less(a, b) /\ ~Less(c, b) => Less(a, c)
         /\ ~Less(b, a) /\ Less(b, c) => Less(a, c)
<1>1. PICK f1 \in Nat, s1 \in Nat, f2 \in Nat, s2 \in Nat, f3 \in Nat, s3 \in Nat :
         /\ f1 = a.foodId /\ s1 = a.foodSizeId
         /\ f2 = b.foodId /\ s2 = b.foodSizeId
         /\ f3 = c.foodId /\ s3 = c.foodSizeId
  BY CatalogType DEF Line
<1> QED BY <1>1 DEF Less

\* Two items of a list are never at the same place: ties go by position.
LEMMA LessOrders ==
  ASSUME NEW list \in Seq(Line)
  PROVE  /\ \A n \in DOMAIN list : ~Before(list, n, n)
         /\ \A k, m, n \in DOMAIN list : Before(list, k, m) /\ Before(list, m, n) => Before(list, k, n)
         /\ \A m, n \in DOMAIN list : m # n => Before(list, m, n) \/ Before(list, n, m)
<1>1. \A n \in DOMAIN list : n \in Nat /\ list[n] \in Line
  OBVIOUS
<1>2. ASSUME NEW k \in DOMAIN list, NEW m \in DOMAIN list, NEW n \in DOMAIN list,
             Before(list, k, m), Before(list, m, n)
      PROVE  Before(list, k, n)
  <2>1. PICK a \in Line, b \in Line, c \in Line : a = list[k] /\ b = list[m] /\ c = list[n]
    BY <1>1
  <2>2. Less(a, b) \/ (~Less(b, a) /\ k < m)
    BY <1>2, <2>1 DEF Before
  <2>3. Less(b, c) \/ (~Less(c, b) /\ m < n)
    BY <1>2, <2>1 DEF Before
  <2>4. Less(a, c) \/ (~Less(c, a) /\ k < n)
    <3>1. k < m /\ m < n => k < n
      BY <1>1
    <3> QED BY <2>2, <2>3, <3>1, LessTransitive
  <2> QED BY <2>1, <2>4 DEF Before
<1>3. ASSUME NEW n \in DOMAIN list PROVE ~Before(list, n, n)
  <2>1. PICK i \in Nat, a \in Line : i = n /\ a = list[n]
    BY <1>1
  <2>2. ~(i < i) /\ ~Less(a, a)
    BY LessTransitive
  <2> QED BY <2>1, <2>2 DEF Before
<1>4. ASSUME NEW m \in DOMAIN list, NEW n \in DOMAIN list, m # n
      PROVE  Before(list, m, n) \/ Before(list, n, m)
  <2>1. m < n \/ n < m
    BY <1>1, <1>4
  <2> QED BY <2>1 DEF Before
<1> QED BY <1>2, <1>3, <1>4

\* Sorting permutes a list: from[k] is where the k-th item of the sorted list was.
Permutes(from, list) ==
  /\ from \in [DOMAIN list -> DOMAIN list]
  /\ \A m, n \in DOMAIN list : from[m] = from[n] => m = n
  /\ \A n \in DOMAIN list : \E k \in DOMAIN list : from[k] = n

\* The sorted list is the list in another order, the one of Before.
LEMMA SortPermutes ==
  ASSUME NEW list \in Seq(Line)
  PROVE  \E from : /\ Permutes(from, list)
                   /\ StableSort(list) = [k \in DOMAIN list |-> list[from[k]]]
                   /\ \A k, m \in DOMAIN list : k < m => Before(list, from[k], from[m])
<1> DEFINE S == DOMAIN list
           before == [n \in S |-> {m \in S : Before(list, m, n)}]
           from == [k \in S |-> CHOOSE n \in S : Place(list, n) = k]
<1>1. S = 1..Len(list) /\ Len(list) \in Nat
  OBVIOUS
<1>2. IsFiniteSet(S) /\ Cardinality(S) = Len(list)
  BY <1>1, FS_Interval
<1>3. /\ before \in [S -> SUBSET S]
      /\ \A n \in S : n \notin before[n]
      /\ \A m, n \in S : m \in before[n] => before[m] \subseteq before[n]
      /\ \A m, n \in S : m # n => m \in before[n] \/ n \in before[m]
  BY LessOrders
<1>4. \A n \in S : Place(list, n) = Cardinality(before[n]) + 1
  BY DEF Place
<1>5. \A m, n \in S : Before(list, m, n) <=> m \in before[n]
  OBVIOUS
<1> HIDE DEF before
<1>6. /\ \A n \in S : Cardinality(before[n]) \in 0..(Cardinality(S) - 1)
      /\ \A m, n \in S : m \in before[n] => Cardinality(before[m]) < Cardinality(before[n])
      /\ \A m, n \in S : Cardinality(before[m]) = Cardinality(before[n]) => m = n
      /\ \A k \in 0..(Cardinality(S) - 1) : \E n \in S : Cardinality(before[n]) = k
  <2> HIDE DEF S, from
  <2>1. /\ \A n \in S : n \notin before[n]
        /\ \A n, m \in S : m \in before[n] => before[m] \subseteq before[n]
        /\ \A n, m \in S : n # m => n \in before[m] \/ m \in before[n]
    BY <1>3
  <2>2. before \in [S -> SUBSET S] /\ IsFiniteSet(S)
    BY <1>2, <1>3
  <2> QED BY <2>1, <2>2, Places
<1>7. /\ \A n \in S : Place(list, n) \in S
      /\ \A m, n \in S : Before(list, m, n) => Place(list, m) < Place(list, n)
      /\ \A m, n \in S : Place(list, m) = Place(list, n) => m = n
      /\ \A k \in S : \E n \in S : Place(list, n) = k
  <2>1. ASSUME NEW k \in S PROVE \E n \in S : Place(list, n) = k
    <3>1. k - 1 \in 0..(Cardinality(S) - 1)
      BY <1>1, <1>2
    <3>2. PICK n \in S : Cardinality(before[n]) = k - 1
      BY <1>6, <3>1
    <3> QED BY <1>1, <1>4, <3>2
  <2>2. \A n \in S : Cardinality(before[n]) \in Nat /\ Cardinality(before[n]) < Len(list)
    BY <1>1, <1>2, <1>6
  <2>3. \A n \in S : Place(list, n) \in S
    BY <1>1, <1>4, <2>2
  <2>4. \A m, n \in S : Before(list, m, n) => Place(list, m) < Place(list, n)
    BY <1>4, <1>5, <1>6, <2>2
  <2>5. \A m, n \in S : Place(list, m) = Place(list, n) => m = n
    BY <1>4, <1>6, <2>2
  <2> QED BY <2>1, <2>3, <2>4, <2>5
<1>8. \A k \in S : from[k] \in S /\ Place(list, from[k]) = k
  BY <1>7
<1>9. StableSort(list) = [k \in S |-> list[from[k]]]
  BY DEF StableSort
<1>10. from \in [S -> S]
  BY <1>8
<1> HIDE DEF from
<1>11. Permutes(from, list)
  BY <1>7, <1>8, <1>10 DEF Permutes
<1>12. ASSUME NEW k \in S, NEW m \in S, k < m PROVE Before(list, from[k], from[m])
  <2>1. from[k] # from[m]
    BY <1>1, <1>8, <1>12
  <2>2. ~Before(list, from[m], from[k])
    <3>1. /\ from[k] \in S /\ Place(list, from[k]) = k
          /\ from[m] \in S /\ Place(list, from[m]) = m
      BY <1>8
    <3>2. Before(list, from[m], from[k]) => m < k
      BY <1>7, <3>1
    <3>3. k \in Nat /\ m \in Nat
      BY <1>1
    <3> QED BY <1>12, <3>2, <3>3
  <2> QED BY <1>8, <2>1, <2>2, LessOrders
<1> QED BY <1>9, <1>11, <1>12

\* What permuting a list keeps.
Permuted(moved, list) ==
  \E from : Permutes(from, list) /\ moved = [k \in DOMAIN list |-> list[from[k]]]

\* A list in another order has the same items, with the same weights.
LEMMA PermutingKeeps ==
  ASSUME NEW list \in Seq(Line), NEW moved, Permuted(moved, list)
  PROVE  /\ moved \in Seq(Line)
         /\ KeysOf(moved) = KeysOf(list)
         /\ OncePerKey(list) => OncePerKey(moved)
         /\ \A weight \in [Keys -> Nat] : Weighted(weight, moved) = Weighted(weight, list)
<1> DEFINE S == DOMAIN list
<1>1. PICK from : Permutes(from, list) /\ moved = [k \in DOMAIN list |-> list[from[k]]]
  BY DEF Permuted
<1>2. S = 1..Len(list) /\ Len(list) \in Nat /\ IsFiniteSet(S)
  BY FS_Interval
<1>3. from \in [S -> S] /\ (\A m, n \in S : from[m] = from[n] => m = n)
      /\ \A n \in S : \E k \in S : from[k] = n
  BY <1>1 DEF Permutes
<1>4. DOMAIN moved = S /\ \A k \in S : from[k] \in S /\ moved[k] = list[from[k]]
  BY <1>1, <1>3
<1>5. moved \in Seq(Line)
  <2>1. \A k \in S : list[from[k]] \in Line
    BY <1>3
  <2>2. moved \in [1..Len(list) -> Line]
    BY <1>1, <1>2, <2>1
  <2> QED BY <1>2, <2>2
<1> HIDE DEF S
<1>6. KeysOf(moved) = KeysOf(list)
  BY <1>3, <1>4 DEF KeysOf, S
<1>7. ASSUME OncePerKey(list) PROVE OncePerKey(moved)
  BY <1>3, <1>4, <1>7 DEF OncePerKey, S
<1>8. ASSUME NEW weight \in [Keys -> Nat] PROVE Weighted(weight, moved) = Weighted(weight, list)
  <2>1. PICK f, g : f = Weigh(weight, list) /\ g = Weigh(weight, moved)
    OBVIOUS
  <2>2. \A n \in S : f[n] \in Nat
    BY <2>1, LineType DEF S
  <2>3. \A k \in S : g[k] = f[from[k]]
    BY <1>4, <2>1 DEF Weigh, S
  <2>4. SumFunctionOnSet(g, S) = SumFunctionOnSet(f, S)
    <3>1. from \in Bijection(S, S)
      BY <1>3 DEF Bijection, Injection, IsInjective, Surjection
    <3> QED BY <1>2, <2>2, <2>3, <3>1, SumRenamed
  <2> QED BY <1>4, <2>1, <2>4 DEF Weighted, S
<1> QED BY <1>5, <1>6, <1>7, <1>8

\* Normalising keeps every key once, and every weight.
LEMMA IntentKeeps ==
  ASSUME NEW list \in Seq(Line)
  PROVE  /\ normalizeOrderIntent(list) \in Seq(Line) /\ OncePerKey(normalizeOrderIntent(list))
         /\ KeysOf(normalizeOrderIntent(list)) = KeysOf(list)
         /\ \A weight \in [Keys -> Nat] :
              Weighted(weight, normalizeOrderIntent(list)) = Weighted(weight, list)
<1>1. PICK groups \in Seq(Line) :
         /\ groups = grouped(list) /\ OncePerKey(groups) /\ KeysOf(groups) = KeysOf(list)
         /\ \A weight \in [Keys -> Nat] : Weighted(weight, groups) = Weighted(weight, list)
  BY GroupingKeeps
<1>2. PICK sorted : sorted = StableSort(groups)
  OBVIOUS
<1>3. Permuted(sorted, groups)
  BY <1>2, SortPermutes DEF Permuted
<1>4. /\ sorted \in Seq(Line) /\ KeysOf(sorted) = KeysOf(groups) /\ OncePerKey(sorted)
      /\ \A weight \in [Keys -> Nat] : Weighted(weight, sorted) = Weighted(weight, groups)
  BY <1>1, <1>3, PermutingKeeps
<1>5. normalizeOrderIntent(list) = sorted
  BY <1>1, <1>2 DEF normalizeOrderIntent
<1> QED BY <1>1, <1>4, <1>5

-----------------------------------------------------------------------------
(* expandBillDetails, for any list.                                        *)

GrossOf(units) == Gross(units, DOMAIN units)

\* The gross of a bill is the sum of any function that gives the gross of each unit.
LEMMA GrossType ==
  ASSUME NEW units \in Seq(Unit), NEW S, S = DOMAIN units,
         NEW f, \A n \in S : f[n] = units[n].gross
  PROVE  SumFunctionOnSet(f, S) = GrossOf(units) /\ GrossOf(units) \in Nat
<1>1. IsFiniteSet(S) /\ \A n \in S : units[n] \in Unit
  BY GroupFinite
<1>2. PICK g : g = [n \in S |-> units[n].gross]
  OBVIOUS
<1>3. \A n \in S : g[n] \in Nat /\ f[n] = g[n]
  BY <1>1, <1>2 DEF Unit
<1>4. GrossOf(units) = SumFunctionOnSet(g, S)
  BY <1>2 DEF GrossOf, Gross, SumFunction
<1>5. SumFunctionOnSet(g, S) \in Nat
  BY <1>1, <1>3, SumNat
<1>6. SumFunctionOnSet(f, S) = SumFunctionOnSet(g, S)
  BY <1>1, <1>3, SumSame
<1> QED BY <1>4, <1>5, <1>6

\* The price of two lists of units, one after the other, is the sum of their prices.
LEMMA GrossOfBoth ==
  ASSUME NEW s \in Seq(Unit), NEW t \in Seq(Unit)
  PROVE  s \o t \in Seq(Unit) /\ GrossOf(s \o t) = GrossOf(s) + GrossOf(t)
<1>1. PICK a \in Nat, b \in Nat : a = Len(s) /\ b = Len(t)
  OBVIOUS
<1>2. PICK both : both = s \o t
  OBVIOUS
<1>3. both \in Seq(Unit)
  BY <1>2, ConcatProperties
<1>4. PICK S, T, U :
         /\ S = DOMAIN s /\ T = DOMAIN t /\ U = (a + 1)..(a + b)
         /\ S = 1..a /\ T = 1..b
  BY <1>1
<1>5. IsFiniteSet(S) /\ IsFiniteSet(T) /\ IsFiniteSet(U)
  BY <1>2, <1>4, FS_Interval
<1>6. S \cap U = {} /\ S \cup U = DOMAIN both
  BY <1>1, <1>2, <1>4
<1>7. (\A n \in S : both[n] = s[n]) /\ (\A n \in T : a + n \in U /\ both[a + n] = t[n])
  BY <1>1, <1>2, <1>4
<1>8. PICK f : f = [n \in DOMAIN both |-> both[n].gross]
  OBVIOUS
<1>9. \A n \in S \cup U : f[n] \in Nat /\ f[n] = both[n].gross
  <2>1. \A n \in DOMAIN both : both[n] \in Unit
    BY <1>3
  <2> QED BY <1>6, <1>8, <2>1 DEF Unit
<1>10. SumFunctionOnSet(f, S \cup U) = SumFunctionOnSet(f, S) + SumFunctionOnSet(f, U)
  BY <1>5, <1>6, <1>9, SumUnion
<1>11. SumFunctionOnSet(f, S \cup U) = GrossOf(s \o t)
  BY <1>2, <1>3, <1>6, <1>9, GrossType
<1>12. SumFunctionOnSet(f, S) = GrossOf(s)
  <2>1. \A n \in S : f[n] = s[n].gross
    BY <1>7, <1>9
  <2> QED BY <1>4, <2>1, GrossType
<1>13. SumFunctionOnSet(f, U) = GrossOf(t)
  <2>1. PICK p, g : p = [n \in T |-> a + n] /\ g = [n \in T |-> f[a + n]]
    OBVIOUS
  <2>2. p \in Bijection(T, U)
    <3>1. p \in [T -> U]
      BY <1>7, <2>1
    <3>2. \A m, n \in T : p[m] = p[n] => m = n
      BY <1>1, <1>4, <2>1
    <3>3. ASSUME NEW k \in U PROVE \E n \in T : p[n] = k
      <4>1. k - a \in T /\ a + (k - a) = k
        BY <1>1, <1>2, <1>4
      <4> QED BY <2>1, <4>1
    <3> QED BY <3>1, <3>2, <3>3 DEF Bijection, Injection, IsInjective, Surjection
  <2>3. \A n \in T : g[n] = f[p[n]]
    BY <2>1
  <2>4. \A n \in U : f[n] \in Nat
    BY <1>9
  <2>5. SumFunctionOnSet(g, T) = SumFunctionOnSet(f, U)
    BY <1>5, <2>2, <2>3, <2>4, SumRenamed
  <2>6. \A n \in T : g[n] = t[n].gross
    BY <1>7, <1>9, <2>1
  <2>7. SumFunctionOnSet(g, T) = GrossOf(t)
    BY <1>4, <2>6, GrossType
  <2> QED BY <2>5, <2>7
<1> QED BY <1>2, <1>3, <1>10, <1>11, <1>12, <1>13

\* The units of an item have its price together.
LEMMA LineUnits ==
  ASSUME NEW item \in Line
  PROVE  /\ UnitsOf(item) \in Seq(Unit)
         /\ lineTotal(item) \in Nat /\ GrossOf(UnitsOf(item)) = lineTotal(item)
<1>1. PICK c \in Nat, q \in Nat, rate \in Nat :
         /\ c = unitTotal(item) /\ q = item.quantity /\ rate = rateBps[item.foodId] /\ rate > 0
  <2>1. item.foodId \in Food /\ item.foodSizeId \in Size /\ item.quantity \in Nat
    BY DEF Line
  <2>2. /\ Price[item.foodId] \in Nat /\ moneyAdded[item.foodSizeId] \in Nat
        /\ rateBps[item.foodId] \in Nat /\ rateBps[item.foodId] > 0
    BY <2>1, CatalogType
  <2>3. unitTotal(item) \in Nat
    BY <2>2 DEF unitTotal
  <2> QED BY <2>1, <2>2, <2>3
<1>2. PICK units : units = [n \in 1..q |-> [gross |-> c, rate |-> rate]]
  OBVIOUS
<1>3. units \in Seq(Unit) /\ DOMAIN units = 1..q /\ \A n \in 1..q : units[n].gross = c
  <2>1. [gross |-> c, rate |-> rate] \in Unit
    BY <1>1 DEF Unit
  <2> QED BY <1>2, <2>1
<1>4. UnitsOf(item) = units
  BY <1>1, <1>2 DEF UnitsOf
<1>5. PICK S : S = 1..q /\ IsFiniteSet(S) /\ Cardinality(S) = q
  BY FS_Interval
<1>6. PICK f, one, zero : /\ f = [n \in S |-> units[n].gross]
                          /\ one = [n \in S |-> 1] /\ zero = [n \in S |-> 0]
  OBVIOUS
<1>7. Combines(S, c, one, zero, f)
  <2>1. \A n \in S : one[n] = 1 /\ zero[n] = 0 /\ f[n] = c
    BY <1>3, <1>5, <1>6
  <2>2. c = c * 1 + 0
    OBVIOUS
  <2> QED BY <2>1, <2>2 DEF Combines
<1>8. SumFunctionOnSet(f, S) = c * SumFunctionOnSet(one, S) + SumFunctionOnSet(zero, S)
  BY <1>5, <1>7, SumLinear
<1>9. SumFunctionOnSet(one, S) = q
  <2>1. S \in SUBSET S /\ \A n \in S : one[n] = IF n \in S THEN 1 ELSE 0
    BY <1>6
  <2> QED BY <1>5, <2>1, SumCount
<1>10. SumFunctionOnSet(zero, S) = 0
  <2>1. {} \in SUBSET S /\ \A n \in S : zero[n] = IF n \in {} THEN 1 ELSE 0
    BY <1>6
  <2> QED BY <1>5, <2>1, SumCount, FS_EmptySet
<1>11. GrossOf(units) = SumFunctionOnSet(f, S)
  BY <1>3, <1>5, <1>6, GrossType
<1>12. lineTotal(item) = c * q /\ c * q \in Nat
  BY <1>1 DEF lineTotal
<1>13. GrossOf(units) = c * q
  <2>1. PICK x \in Nat : x = c * q
    BY <1>12
  <2> QED BY <1>8, <1>9, <1>10, <1>11, <2>1
<1> QED BY <1>3, <1>4, <1>12, <1>13

\* The units of a list, one item after the other.
Joined(seqs, g) ==
  g = [i \in 1..Len(seqs) |-> IF i = 1 THEN seqs[i] ELSE g[i - 1] \o seqs[i]]

\* The recursion over a list of lists, which FlattenSeq is defined by, has a solution.
LEMMA JoinedExists ==
  ASSUME NEW seqs, NEW length \in Nat, length = Len(seqs), length > 0
  PROVE  \E g : Joined(seqs, g) /\ FlattenSeq(seqs) = g[length]
<1> DEFINE Upto(m, g) == g = [i \in 1..m |-> IF i = 1 THEN seqs[i] ELSE g[i - 1] \o seqs[i]]
           Good == {m \in Nat : \E g : Upto(m, g)}
<1>1. 0 \in Good
  <2>1. Upto(0, [i \in 1..0 |-> <<>>])
    OBVIOUS
  <2> QED BY <2>1
<1>2. ASSUME NEW m \in Nat, m \in Good PROVE m + 1 \in Good
  <2>1. PICK g : Upto(m, g)
    BY <1>2
  <2> DEFINE joined == IF m = 0 THEN seqs[1] ELSE g[m] \o seqs[m + 1]
             h == [i \in 1..(m + 1) |-> IF i = m + 1 THEN joined ELSE g[i]]
  <2>2. ASSUME NEW i \in 1..(m + 1)
        PROVE  h[i] = IF i = 1 THEN seqs[i] ELSE h[i - 1] \o seqs[i]
    <3>1. CASE i = m + 1 /\ m = 0
      BY <3>1
    <3>2. CASE i = m + 1 /\ m > 0
      <4>1. i - 1 = m /\ i # 1 /\ m \in 1..(m + 1) /\ m # m + 1 /\ m # 0
        BY <3>2
      <4>2. h[m] = g[m] /\ h[i] = joined
        BY <3>2, <4>1
      <4>3. joined = g[m] \o seqs[m + 1]
        BY <4>1
      <4> HIDE DEF h, joined
      <4> QED BY <3>2, <4>1, <4>2, <4>3
    <3>3. CASE i \in 1..m
      <4>1. h[i] = g[i] /\ (i # 1 => i - 1 \in 1..m /\ h[i - 1] = g[i - 1])
        BY <3>3
      <4>2. g[i] = IF i = 1 THEN seqs[i] ELSE g[i - 1] \o seqs[i]
        BY <2>1, <3>3
      <4> HIDE DEF h
      <4> QED BY <4>1, <4>2
    <3> QED BY <3>1, <3>2, <3>3
  <2>3. h = [i \in 1..(m + 1) |-> h[i]]
    OBVIOUS
  <2> HIDE DEF h
  <2>4. Upto(m + 1, h)
    BY <2>2, <2>3
  <2> HIDE DEF Upto
  <2> QED BY <2>4
<1> HIDE DEF Good
<1>3. length \in Good
  BY <1>1, <1>2, NumberInduction
<1>4. \E g : Joined(seqs, g)
  BY <1>3 DEF Good, Joined
<1>5. Joined(seqs, CHOOSE g : Joined(seqs, g))
  BY <1>4
<1>6. FlattenSeq(seqs) = (CHOOSE g : Joined(seqs, g))[length]
  BY DEF FlattenSeq, Joined
<1> QED BY <1>5, <1>6

\* The bill of a list has its units, and they add up to the price of the list.
LEMMA BillAddsUp ==
  ASSUME NEW list \in Seq(Line)
  PROVE  /\ expandBillDetails(list) \in Seq(Unit)
         /\ GrossOf(expandBillDetails(list)) = total(list)
<1>1. PICK length \in Nat : length = Len(list) /\ DOMAIN list = 1..length
  OBVIOUS
<1>2. PICK seqs : seqs = [n \in DOMAIN list |-> UnitsOf(list[n])]
  OBVIOUS
<1>3. PICK f : f = [n \in DOMAIN list |-> lineTotal(list[n])]
  OBVIOUS
<1>4. expandBillDetails(list) = FlattenSeq(seqs)
  BY <1>2 DEF expandBillDetails
<1>5. total(list) = SumFunctionOnSet(f, 1..length)
  BY <1>1, <1>3 DEF total, SumFunction
<1>6. Len(seqs) = length
  BY <1>1, <1>2
<1>7. ASSUME NEW n \in 1..length
      PROVE  /\ seqs[n] \in Seq(Unit) /\ f[n] \in Nat /\ GrossOf(seqs[n]) = f[n]
  <2>1. PICK item \in Line : item = list[n]
    BY <1>1
  <2>2. seqs[n] = UnitsOf(item) /\ f[n] = lineTotal(item)
    BY <1>1, <1>2, <1>3, <2>1
  <2> QED BY <2>2, LineUnits
<1>8. CASE length = 0
  <2>1. seqs = <<>>
    BY <1>1, <1>2, <1>8
  <2>2. FlattenSeq(seqs) = <<>>
    BY <1>6, <1>8, <2>1 DEF FlattenSeq
  <2>3. PICK none \in Seq(Unit) : none = <<>> /\ DOMAIN none = {}
    <3>1. <<>> \in Seq(Unit) /\ DOMAIN <<>> = {}
      OBVIOUS
    <3> QED BY <3>1
  <2>4. PICK S : S = {} /\ S = DOMAIN none /\ S = 1..length
    <3>1. 1..length = {}
      BY <1>8
    <3> QED BY <2>3, <3>1
  <2>5. \A n \in S : f[n] = none[n].gross
    BY <2>4
  <2>6. SumFunctionOnSet(f, S) = GrossOf(none)
    BY <2>4, <2>5, GrossType
  <2> QED BY <1>4, <1>5, <2>2, <2>3, <2>4, <2>6
<1>9. CASE length > 0
  <2>1. PICK g : Joined(seqs, g) /\ FlattenSeq(seqs) = g[length]
    BY <1>6, <1>9, JoinedExists
  <2> DEFINE Good == {n \in Nat : n \in 1..length =>
                        g[n] \in Seq(Unit) /\ GrossOf(g[n]) = SumFunctionOnSet(f, 1..n)}
  <2>2. 0 \in Good
    OBVIOUS
  <2>3. ASSUME NEW n \in Nat, n \in Good PROVE n + 1 \in Good
    <3>1. SUFFICES ASSUME n + 1 <= length
                   PROVE  /\ g[n + 1] \in Seq(Unit)
                          /\ GrossOf(g[n + 1]) = SumFunctionOnSet(f, 1..(n + 1))
      OBVIOUS
    <3>2. n + 1 \in 1..length
      BY <3>1
    <3>3. seqs[n + 1] \in Seq(Unit) /\ GrossOf(seqs[n + 1]) = f[n + 1]
      BY <1>7, <3>2
    <3>4. PICK T : T = 1..(n + 1) /\ IsFiniteSet(T) /\ n + 1 \in T /\ T \ {n + 1} = 1..n
      <4>1. (1..(n + 1)) \ {n + 1} = 1..n
        OBVIOUS
      <4>2. IsFiniteSet(1..(n + 1))
        BY FS_Interval
      <4> QED BY <4>1, <4>2
    <3>5. \A m \in T : f[m] \in Nat
      BY <1>7, <3>1, <3>4
    <3>6. SumFunctionOnSet(f, T) = f[n + 1] + SumFunctionOnSet(f, T \ {n + 1})
      BY <3>4, <3>5, SumRemove
    <3>7. CASE n = 0
      <4>1. g[n + 1] = seqs[n + 1]
        BY <2>1, <1>6, <3>2, <3>7 DEF Joined
      <4>2. SumFunctionOnSet(f, T \ {n + 1}) = 0
        <5>1. T \ {n + 1} = {}
          BY <3>4, <3>7
        <5> QED BY <5>1, SumFirst, FS_EmptySet
      <4>3. f[n + 1] \in Nat
        BY <3>4, <3>5
      <4> QED BY <3>3, <3>4, <3>6, <4>1, <4>2, <4>3
    <3>8. CASE n > 0
      <4>1. PICK s \in Seq(Unit), t \in Seq(Unit) :
               s = g[n] /\ t = seqs[n + 1] /\ GrossOf(s) = SumFunctionOnSet(f, 1..n)
        BY <2>3, <3>1, <3>3, <3>8
      <4>2. g[n + 1] = s \o t
        <5>1. n + 1 # 1 /\ (n + 1) - 1 = n
          BY <3>8
        <5>2. g[n + 1] = g[(n + 1) - 1] \o seqs[n + 1]
          BY <2>1, <1>6, <3>2, <5>1 DEF Joined
        <5> QED BY <4>1, <5>1, <5>2
      <4>3. s \o t \in Seq(Unit) /\ GrossOf(s \o t) = GrossOf(s) + GrossOf(t)
        BY GrossOfBoth
      <4>4. GrossOf(t) = f[n + 1] /\ f[n + 1] \in Nat
        BY <3>3, <3>4, <3>5, <4>1
      <4>5. SumFunctionOnSet(f, 1..n) \in Nat
        <5>1. IsFiniteSet(1..n)
          BY FS_Interval
        <5>2. \A m \in 1..n : f[m] \in Nat
          BY <3>4, <3>5
        <5> QED BY <5>1, <5>2, SumNat
      <4>6. PICK x \in Nat, y \in Nat : x = f[n + 1] /\ y = SumFunctionOnSet(f, 1..n)
        BY <4>4, <4>5
      <4>7. SumFunctionOnSet(f, T) = x + y
        BY <3>4, <3>6, <4>6
      <4>8. GrossOf(s \o t) = y + x
        BY <4>1, <4>3, <4>4, <4>6
      <4>9. GrossOf(g[n + 1]) = SumFunctionOnSet(f, T)
        BY <4>2, <4>6, <4>7, <4>8
      <4> QED BY <3>4, <4>2, <4>3, <4>9
    <3> QED BY <3>7, <3>8
  <2> HIDE DEF Good
  <2>4. length \in Good
    BY <2>2, <2>3, NumberInduction
  <2>5. g[length] \in Seq(Unit) /\ GrossOf(g[length]) = SumFunctionOnSet(f, 1..length)
    BY <1>9, <2>4 DEF Good
  <2> QED BY <1>4, <1>5, <2>1, <2>5
<1> QED BY <1>8, <1>9

-----------------------------------------------------------------------------
(* The list a client puts together, whatever its length.                   *)

Requested == items \in Seq(Line)

\* Whatever a client adds, the list is one of items.
LEMMA SpecRequested == Spec => []Requested
<1>1. Init => Requested
  BY DEF Init, Requested
<1>2. ASSUME Requested, [Next]_items PROVE Requested'
  <2>1. CASE UNCHANGED items
    BY <1>2, <2>1 DEF Requested
  <2>2. ASSUME NEW item \in Item, AddItem(item) PROVE Requested'
    <3>1. item \in Line
      <4>1. /\ item \in [foodId : Food, foodSizeId : Size, note : Note, quantity : 1..MaxQuantity]
            /\ MaxQuantity \in Nat
        BY CatalogType DEF Item
      <4>2. /\ item \in [foodId : Food, foodSizeId : Size, note : Note, quantity : Nat]
            /\ item.quantity > 0
        BY <4>1
      <4> QED BY <4>2 DEF Line
    <3>2. Append(items, item) \in Seq(Line)
      BY <1>2, <3>1 DEF Requested
    <3> QED BY <2>2, <3>2 DEF AddItem, Requested
  <2> QED BY <1>2, <2>1, <2>2 DEF Next
<1> QED BY <1>1, <1>2, PTL DEF Spec

\* The items are brought into normal form, and billed unit by unit.
LEMMA BillType ==
  ASSUME Requested
  PROVE  Intent \in Seq(Line) /\ Bill \in Seq(Unit)
<1>1. Intent \in Seq(Line)
  BY IntentKeeps DEF Requested, Intent
<1> QED BY <1>1, BillAddsUp DEF Bill

\* The rounding of a group as the property states it.
LEMMA BillRoundedOncePerRate ==
  ASSUME NEW units \in Seq(Unit), NEW n \in DOMAIN units, NEW rate, rate = units[n].rate,
         NEW G, G = GroupOf(units, rate),
         NEW tax, tax = SumFunction([k \in G |-> taxByUnit(units)[k]])
  PROVE  /\ 2 * tax * divisor(rate) <= 2 * Gross(units, G) * rate + divisor(rate)
         /\ 2 * Gross(units, G) * rate + divisor(rate) < 2 * (tax + 1) * divisor(rate)
<1>1. rate \in Nat /\ rate > 0
  BY GroupFinite DEF Unit
<1>2. PICK g \in Nat : g = Gross(units, G)
  BY <1>1, LeftBounded
<1>3. tax = Tax(g, rate)
  BY <1>1, <1>2, TaxesAddUp
<1>4. tax \in Nat /\ Rounds(tax, g * rate, divisor(rate))
  BY <1>1, <1>3, TaxRounds
<1>5. PICK t \in Nat, d \in Nat : t = tax /\ d = divisor(rate)
  <2>1. divisor(rate) \in Nat
    BY <1>1 DEF divisor
  <2> QED BY <1>4, <2>1
<1>6. 2 * (t * d) <= 2 * (g * rate) + d /\ 2 * (g * rate) + d < 2 * (t * d) + 2 * d
  BY <1>4, <1>5 DEF Rounds
<1>7. /\ 2 * t * d = 2 * (t * d) /\ 2 * (t + 1) * d = 2 * (t * d) + 2 * d
      /\ 2 * g * rate = 2 * (g * rate)
  BY <1>1
<1> QED BY <1>2, <1>5, <1>6, <1>7

\* Bills of any length: the tax of one rate is rounded once, half up.
THEOREM TaxIsRoundedOncePerRate == Spec => []TaxRoundedOncePerRate
<1>1. ASSUME Requested PROVE TaxRoundedOncePerRate
  <2>1. PICK units \in Seq(Unit) : units = Bill
    BY <1>1, BillType
  <2>2. ASSUME NEW rate \in {units[n].rate : n \in DOMAIN units},
               NEW G, G = GroupOf(units, rate),
               NEW tax, tax = SumFunction([k \in G |-> taxByUnit(units)[k]])
        PROVE  /\ 2 * tax * divisor(rate) <= 2 * Gross(units, G) * rate + divisor(rate)
               /\ 2 * Gross(units, G) * rate + divisor(rate) < 2 * (tax + 1) * divisor(rate)
    <3>1. PICK n \in DOMAIN units : rate = units[n].rate
      OBVIOUS
    <3> QED BY <2>2, <3>1, BillRoundedOncePerRate
  <2> QED BY <2>1, <2>2 DEF TaxRoundedOncePerRate
<1> QED BY <1>1, SpecRequested, PTL

\* No unit of any bill bears an unfair share of the tax of its rate.
THEOREM SharesAreFair == Spec => []TaxSharesAreFair
<1>1. ASSUME Requested PROVE TaxSharesAreFair
  <2>1. PICK units \in Seq(Unit) : units = Bill
    BY <1>1, BillType
  <2>2. ASSUME NEW m \in DOMAIN units, NEW n \in DOMAIN units
        PROVE  /\ taxByUnit(units)[n] - floor(units[n]) \in {0, 1}
               /\ taxByUnit(units)[n] > floor(units[n]) => remainder(units[n]) > 0
               /\ units[m].rate = units[n].rate /\ units[m].gross < units[n].gross
                    => taxByUnit(units)[m] <= taxByUnit(units)[n]
    BY CentForAPart, MoreBearsMore
  <2> QED BY <2>1, <2>2 DEF TaxSharesAreFair
<1> QED BY <1>1, SpecRequested, PTL

\* How many there are of one selection is a weight.
Counted(key) == [k \in Keys |-> IF k = key THEN 1 ELSE 0]

\* The weight that counts one selection is a weight.
LEMMA CountedType ==
  ASSUME NEW key
  PROVE  Counted(key) \in [Keys -> Nat]
<1>1. PICK c : c = Counted(key)
  OBVIOUS
<1>2. c \in [Keys -> Nat]
  BY <1>1 DEF Counted
<1> QED BY <1>1, <1>2

\* The items counted with that weight are how many there are of the selection.
LEMMA CountedIsQuantity ==
  ASSUME NEW list \in Seq(Line), NEW key \in Keys
  PROVE  Weighted(Counted(key), list)
           = SumFunction([n \in DOMAIN list |-> IF Key(list[n]) = key THEN list[n].quantity ELSE 0])
<1>1. PICK c : c = Counted(key)
  OBVIOUS
<1>2. c \in [Keys -> Nat]
  BY <1>1, CountedType
<1>3. PICK f, g : /\ f = Weigh(c, list)
                  /\ g = [n \in DOMAIN list |-> IF Key(list[n]) = key THEN list[n].quantity ELSE 0]
  OBVIOUS
<1>4. \A n \in DOMAIN list : f[n] = g[n]
  <2>1. ASSUME NEW n \in DOMAIN list PROVE f[n] = g[n]
    <3>1. PICK q \in Nat, k \in Keys : q = list[n].quantity /\ k = Key(list[n])
      BY <1>2, LineType
    <3>2. f[n] = c[k] * q /\ g[n] = IF k = key THEN q ELSE 0
      BY <1>3, <3>1 DEF Weigh
    <3>3. c[k] = IF k = key THEN 1 ELSE 0
      BY <1>1 DEF Counted
    <3>4. 1 * q = q /\ 0 * q = 0
      OBVIOUS
    <3> QED BY <3>2, <3>3, <3>4
  <2> QED BY <2>1
<1>5. IsFiniteSet(DOMAIN list) /\ DOMAIN g = DOMAIN list
  BY <1>2, <1>3, LineType
<1>6. SumFunctionOnSet(f, DOMAIN list) = SumFunctionOnSet(g, DOMAIN list)
  BY <1>4, <1>5, SumSame
<1> QED BY <1>1, <1>2, <1>3, <1>5, <1>6 DEF Weighted, SumFunction

\* So is the price of a list.
PriceOfKey == [k \in Keys |-> Price[k[1]] + moneyAdded[k[2]]]

\* The items counted with the weight of their price are the total.
LEMMA TotalIsWeighed ==
  ASSUME NEW list \in Seq(Line)
  PROVE  PriceOfKey \in [Keys -> Nat] /\ Weighted(PriceOfKey, list) = total(list)
<1>1. PICK c : c = PriceOfKey
  OBVIOUS
<1>2. c \in [Keys -> Nat]
  <2>1. ASSUME NEW k \in Keys PROVE Price[k[1]] + moneyAdded[k[2]] \in Nat
    <3>1. k[1] \in Food /\ k[2] \in Size
      BY DEF Keys
    <3>2. Price[k[1]] \in Nat /\ moneyAdded[k[2]] \in Nat
      BY <3>1, CatalogType
    <3> QED BY <3>2
  <2> QED BY <1>1, <2>1 DEF PriceOfKey
<1>3. PICK f, g : f = Weigh(c, list) /\ g = [n \in DOMAIN list |-> lineTotal(list[n])]
  OBVIOUS
<1>4. ASSUME NEW n \in DOMAIN list PROVE f[n] = g[n]
  <2>1. PICK item \in Line : item = list[n]
    BY <1>2, LineType
  <2>2. Key(item) \in Keys /\ Key(item)[1] = item.foodId /\ Key(item)[2] = item.foodSizeId
    <3>1. item.foodId \in Food /\ item.foodSizeId \in Size /\ item.note \in Note
      BY DEF Line
    <3> QED BY <3>1 DEF Key, Keys
  <2>3. c[Key(item)] = unitTotal(item)
    BY <1>1, <2>2 DEF PriceOfKey, unitTotal
  <2>4. f[n] = c[Key(item)] * item.quantity /\ g[n] = lineTotal(item)
    BY <1>3, <2>1 DEF Weigh
  <2> QED BY <2>3, <2>4 DEF lineTotal
<1>5. IsFiniteSet(DOMAIN list) /\ DOMAIN g = DOMAIN list
  BY <1>2, <1>3, LineType
<1>6. SumFunctionOnSet(f, DOMAIN list) = SumFunctionOnSet(g, DOMAIN list)
  BY <1>4, <1>5, SumSame
<1> QED BY <1>1, <1>2, <1>3, <1>5, <1>6 DEF Weighted, total, SumFunction

\* Nothing a client asks for is lost or invented on the way to the bill.
THEOREM NothingLostOrInvented == Spec => []SelectionsKept
<1>1. ASSUME Requested PROVE SelectionsKept
  <2>1. PICK list \in Seq(Line) : list = items
    BY <1>1 DEF Requested
  <2>2. PICK intent \in Seq(Line) :
           /\ intent = Intent /\ OncePerKey(intent)
           /\ \A weight \in [Keys -> Nat] : Weighted(weight, intent) = Weighted(weight, list)
    BY <2>1, IntentKeeps DEF Intent
  <2>3. ASSUME NEW n \in DOMAIN list
        PROVE  SumFunction([k \in DOMAIN intent |->
                              IF Key(intent[k]) = Key(list[n]) THEN intent[k].quantity ELSE 0])
             = SumFunction([k \in DOMAIN list |->
                              IF Key(list[k]) = Key(list[n]) THEN list[k].quantity ELSE 0])
    <3>1. PICK key \in Keys : key = Key(list[n])
      <4>1. [k \in Keys |-> 0] \in [Keys -> Nat]
        OBVIOUS
      <4> QED BY <4>1, LineType
    <3>2. Weighted(Counted(key), intent) = Weighted(Counted(key), list)
      BY <2>2, CountedType
    <3>3. SumFunction([k \in DOMAIN intent |-> IF Key(intent[k]) = key THEN intent[k].quantity ELSE 0])
        = SumFunction([k \in DOMAIN list |-> IF Key(list[k]) = key THEN list[k].quantity ELSE 0])
      BY <3>2, CountedIsQuantity
    <3> QED BY <3>1, <3>3
  <2>4. \A m, n \in DOMAIN intent : Key(intent[m]) = Key(intent[n]) => m = n
    BY <2>2 DEF OncePerKey
  <2>5. GrossOf(Bill) = total(items)
    <3>1. GrossOf(Bill) = total(intent)
      BY <2>2, BillAddsUp DEF Bill
    <3>2. total(intent) = total(list)
      BY <2>2, TotalIsWeighed
    <3> QED BY <2>1, <3>1, <3>2
  <2> QED BY <2>1, <2>2, <2>3, <2>4, <2>5 DEF SelectionsKept, Key, GrossOf
<1> QED BY <1>1, SpecRequested, PTL

-----------------------------------------------------------------------------
(* The order of the items.                                                 *)

StrictlySorted(list) == \A k, m \in DOMAIN list : k < m => Less(list[k], list[m])
LinesOf(list) == {list[n] : n \in DOMAIN list}

\* In a sorted list an item's place is one more than the number of items below it.
LEMMA PlaceWhenSorted ==
  ASSUME NEW list \in Seq(Line), StrictlySorted(list)
  PROVE  /\ Cardinality(LinesOf(list)) = Len(list)
         /\ \A k \in DOMAIN list : Cardinality({x \in LinesOf(list) : Less(x, list[k])}) = k - 1
<1> DEFINE S == DOMAIN list
<1>1. S = 1..Len(list) /\ Len(list) \in Nat
  OBVIOUS
<1>2. ASSUME NEW k \in S, NEW m \in S PROVE Less(list[k], list[m]) <=> k < m
  <2>1. list[k] \in Line /\ list[m] \in Line
    OBVIOUS
  <2>2. PICK f1 \in Nat, s1 \in Nat, f2 \in Nat, s2 \in Nat :
           /\ f1 = list[k].foodId /\ s1 = list[k].foodSizeId
           /\ f2 = list[m].foodId /\ s2 = list[m].foodSizeId
    BY <2>1, CatalogType DEF Line
  <2>3. k \in Nat /\ m \in Nat
    BY <1>1
  <2>4. ~(Less(list[k], list[m]) /\ Less(list[m], list[k])) /\ ~Less(list[k], list[k])
    BY <2>2 DEF Less
  <2>5. CASE k < m
    BY <2>5 DEF StrictlySorted
  <2>6. CASE m < k
    BY <2>3, <2>4, <2>6 DEF StrictlySorted
  <2>7. CASE m = k
    BY <2>3, <2>4, <2>7
  <2> QED BY <2>3, <2>5, <2>6, <2>7
<1>3. ASSUME NEW k \in S, NEW m \in S, list[k] = list[m] PROVE k = m
  <2>1. ~(k < m) /\ ~(m < k)
    <3>1. ~Less(list[k], list[k]) /\ ~Less(list[m], list[m])
      BY <1>1, <1>2
    <3> QED BY <1>2, <1>3, <3>1
  <2> QED BY <1>1, <2>1
<1>4. ASSUME NEW T \in SUBSET S PROVE Cardinality({list[n] : n \in T}) = Cardinality(T)
  <2>1. IsFiniteSet(T)
    <3>1. IsFiniteSet(1..Len(list))
      BY <1>1, FS_Interval
    <3> QED BY <1>1, <3>1, FS_Subset
  <2>2. PICK U : U = {list[n] : n \in T}
    OBVIOUS
  <2>3. [n \in T |-> list[n]] \in Bijection(T, U)
    BY <1>3, <2>2 DEF Bijection, Injection, IsInjective, Surjection
  <2>4. ExistsBijection(T, U)
    BY <2>3 DEF ExistsBijection
  <2> QED BY <2>1, <2>2, <2>4, FS_Bijection
<1>5. Cardinality(LinesOf(list)) = Len(list)
  <2>1. PICK k \in Nat : k = Len(list)
    BY <1>1
  <2>2. Cardinality(1..k) = k
    BY FS_Interval
  <2> QED BY <1>1, <1>4, <2>1, <2>2 DEF LinesOf
<1>6. ASSUME NEW k \in S
      PROVE  Cardinality({x \in LinesOf(list) : Less(x, list[k])}) = k - 1
  <2>1. PICK T : T = 1..(k - 1) /\ T \in SUBSET S /\ \A n \in S : n \in T <=> n < k
    BY <1>1
  <2>2. Cardinality(T) = k - 1
    BY <1>1, <2>1, FS_Interval
  <2>3. {x \in LinesOf(list) : Less(x, list[k])} = {list[n] : n \in T}
    BY <1>2, <2>1 DEF LinesOf
  <2> QED BY <1>4, <2>1, <2>2, <2>3
<1> QED BY <1>5, <1>6

\* Two sorted lists of the same items are the same list.
LEMMA SortedListsAgree ==
  ASSUME NEW a \in Seq(Line), StrictlySorted(a), NEW b \in Seq(Line), StrictlySorted(b),
         LinesOf(a) = LinesOf(b)
  PROVE  a = b
<1>1. Len(a) = Len(b)
  BY PlaceWhenSorted
<1>2. ASSUME NEW k \in DOMAIN a PROVE a[k] = b[k]
  <2>1. PICK m \in DOMAIN b : b[m] = a[k]
    BY DEF LinesOf
  <2>2. Cardinality({x \in LinesOf(a) : Less(x, a[k])}) = k - 1
    BY PlaceWhenSorted
  <2>3. Cardinality({x \in LinesOf(b) : Less(x, b[m])}) = m - 1
    BY PlaceWhenSorted
  <2>4. k - 1 = m - 1
    BY <2>1, <2>2, <2>3
  <2>5. k \in Nat /\ m \in Nat
    OBVIOUS
  <2> QED BY <2>1, <2>4, <2>5
<1>3. /\ DOMAIN a = DOMAIN b
      /\ a = [k \in DOMAIN a |-> a[k]] /\ b = [k \in DOMAIN b |-> b[k]]
  BY <1>1
<1> QED BY <1>2, <1>3

\* No selection is there with two different notes.
Plain(list) == \A k, l \in KeysOf(list) : k[1] = l[1] /\ k[2] = l[2] => k = l

\* Without notes that tell items apart, the normal form is sorted strictly.
LEMMA IntentSorted ==
  ASSUME NEW list \in Seq(Line), Plain(list)
  PROVE  StrictlySorted(normalizeOrderIntent(list))
<1>1. PICK groups \in Seq(Line) :
         groups = grouped(list) /\ OncePerKey(groups) /\ KeysOf(groups) = KeysOf(list)
  BY GroupingKeeps
<1>2. PICK from : /\ Permutes(from, groups)
                  /\ StableSort(groups) = [k \in DOMAIN groups |-> groups[from[k]]]
                  /\ \A k, m \in DOMAIN groups : k < m => Before(groups, from[k], from[m])
  BY SortPermutes
<1>3. ASSUME NEW k \in DOMAIN groups, NEW m \in DOMAIN groups, k < m
      PROVE  Less(groups[from[k]], groups[from[m]])
  <2>1. PICK i \in DOMAIN groups, j \in DOMAIN groups : i = from[k] /\ j = from[m] /\ i # j
    <3>1. k # m
      BY <1>3
    <3> QED BY <1>2, <3>1 DEF Permutes
  <2>2. Before(groups, i, j)
    BY <1>2, <1>3, <2>1
  <2>3. PICK x \in Line, y \in Line : x = groups[i] /\ y = groups[j]
    OBVIOUS
  <2>4. Key(x) # Key(y) /\ Key(x) \in KeysOf(list) /\ Key(y) \in KeysOf(list)
    BY <1>1, <2>1, <2>3 DEF OncePerKey, KeysOf
  <2>5. ~(x.foodId = y.foodId /\ x.foodSizeId = y.foodSizeId)
    <3>1. /\ Key(x)[1] = x.foodId /\ Key(x)[2] = x.foodSizeId
          /\ Key(y)[1] = y.foodId /\ Key(y)[2] = y.foodSizeId
      BY DEF Key
    <3> QED BY <2>4, <3>1 DEF Plain
  <2>6. /\ x.foodId \in Nat /\ x.foodSizeId \in Nat
        /\ y.foodId \in Nat /\ y.foodSizeId \in Nat
    BY CatalogType DEF Line
  <2>7. Less(x, y) \/ Less(y, x)
    BY <2>5, <2>6 DEF Less
  <2>8. Less(x, y)
    BY <2>2, <2>3, <2>7 DEF Before
  <2> QED BY <2>1, <2>3, <2>8
<1>4. normalizeOrderIntent(list) = [k \in DOMAIN groups |-> groups[from[k]]]
  BY <1>1, <1>2 DEF normalizeOrderIntent
<1>5. DOMAIN normalizeOrderIntent(list) = DOMAIN groups
  BY <1>4
<1> QED BY <1>3, <1>4, <1>5 DEF StrictlySorted

\* An item that is the only one of its key has the weight of the key.
LEMMA QuantityIsCounted ==
  ASSUME NEW list \in Seq(Line), OncePerKey(list), NEW n \in DOMAIN list
  PROVE  Weighted(Counted(Key(list[n])), list) = list[n].quantity
<1>1. PICK S : S = DOMAIN list
  OBVIOUS
<1>2. PICK c : c = Counted(Key(list[n])) /\ c \in [Keys -> Nat]
  BY CountedType
<1>3. IsFiniteSet(S) /\ \A m \in S : Weigh(c, list)[m] \in Nat
  BY <1>1, <1>2, LineType
<1>4. PICK f : f = Weigh(c, list)
  OBVIOUS
<1>5. ASSUME NEW m \in S PROVE f[m] = IF m = n THEN list[n].quantity ELSE 0
  <2>1. PICK k \in Keys, q \in Nat : k = Key(list[m]) /\ q = list[m].quantity /\ f[m] = c[k] * q
    BY <1>1, <1>2, <1>4, LineType
  <2>2. c[k] = IF m = n THEN 1 ELSE 0
    BY <1>1, <1>2, <2>1 DEF Counted, OncePerKey
  <2>3. 1 * q = q /\ 0 * q = 0
    OBVIOUS
  <2> QED BY <2>1, <2>2, <2>3
<1>6. SumFunctionOnSet(f, S) = f[n] + SumFunctionOnSet(f, S \ {n})
  BY <1>1, <1>3, <1>4, SumRemove
<1>7. SumFunctionOnSet(f, S \ {n}) = 0
  <2>1. PICK T : T = S \ {n} /\ IsFiniteSet(T)
    BY <1>3, FS_Subset
  <2>2. {} \in SUBSET T /\ \A m \in T : f[m] = IF m \in {} THEN 1 ELSE 0
    BY <1>5, <2>1
  <2> QED BY <2>1, <2>2, SumCount, FS_EmptySet
<1>8. f[n] = list[n].quantity /\ list[n].quantity \in Nat
  BY <1>1, <1>2, <1>5, LineType
<1> QED BY <1>1, <1>2, <1>4, <1>6, <1>7, <1>8 DEF Weighted

\* The items of the normal form are given by what is asked for, how many of each.
LEMMA LinesOfIntent ==
  ASSUME NEW list \in Seq(Line)
  PROVE  LinesOf(normalizeOrderIntent(list)) =
           {x \in Line : Key(x) \in KeysOf(list) /\ x.quantity = Weighted(Counted(Key(x)), list)}
<1>1. PICK intent \in Seq(Line) :
         /\ intent = normalizeOrderIntent(list) /\ OncePerKey(intent)
         /\ KeysOf(intent) = KeysOf(list)
         /\ \A weight \in [Keys -> Nat] : Weighted(weight, intent) = Weighted(weight, list)
  BY IntentKeeps
<1>2. ASSUME NEW n \in DOMAIN intent
      PROVE  /\ intent[n] \in Line /\ Key(intent[n]) \in KeysOf(list)
             /\ intent[n].quantity = Weighted(Counted(Key(intent[n])), list)
  <2>1. PICK key : key = Key(intent[n])
    OBVIOUS
  <2>2. Weighted(Counted(key), intent) = intent[n].quantity
    BY <1>1, <2>1, QuantityIsCounted
  <2>3. Weighted(Counted(key), intent) = Weighted(Counted(key), list)
    BY <1>1, CountedType
  <2>4. intent[n] \in Line /\ key \in KeysOf(intent)
    BY <2>1 DEF KeysOf
  <2> QED BY <1>1, <2>1, <2>2, <2>3, <2>4
<1>3. ASSUME NEW x \in Line, Key(x) \in KeysOf(list),
             x.quantity = Weighted(Counted(Key(x)), list)
      PROVE  \E n \in DOMAIN intent : intent[n] = x
  <2>1. PICK n \in DOMAIN intent : Key(intent[n]) = Key(x)
    BY <1>1, <1>3 DEF KeysOf
  <2>2. intent[n].quantity = x.quantity /\ intent[n] \in Line
    BY <1>2, <1>3, <2>1
  <2>3. PICK y \in Line : y = intent[n] /\ y.quantity = x.quantity /\ Key(y) = Key(x)
    BY <2>1, <2>2
  <2>4. y.foodId = x.foodId /\ y.foodSizeId = x.foodSizeId /\ y.note = x.note
    BY <2>3 DEF Key
  <2>5. /\ x \in [foodId : Food, foodSizeId : Size, note : Note, quantity : Nat]
        /\ y \in [foodId : Food, foodSizeId : Size, note : Note, quantity : Nat]
    BY DEF Line
  <2>6. x = y
    BY <2>3, <2>4, <2>5
  <2> QED BY <2>3, <2>6
<1> QED BY <1>1, <1>2, <1>3 DEF LinesOf

\* Two lists with the same keys and weights have one normal form.
LEMMA SameIntent ==
  ASSUME NEW a \in Seq(Line), NEW b \in Seq(Line), Plain(a), KeysOf(a) = KeysOf(b),
         \A weight \in [Keys -> Nat] : Weighted(weight, a) = Weighted(weight, b)
  PROVE  normalizeOrderIntent(a) = normalizeOrderIntent(b)
<1>1. Plain(b)
  BY DEF Plain
<1>2. PICK x \in Seq(Line), y \in Seq(Line) :
         /\ x = normalizeOrderIntent(a) /\ y = normalizeOrderIntent(b)
         /\ StrictlySorted(x) /\ StrictlySorted(y)
  BY <1>1, IntentKeeps, IntentSorted
<1>3. \A l \in Line : Counted(Key(l)) \in [Keys -> Nat]
  BY CountedType
<1>4. LinesOf(x) = LinesOf(y)
  BY <1>2, <1>3, LinesOfIntent
<1> QED BY <1>2, <1>4, SortedListsAgree

\* The order of plain items never changes the normal form, so no other order of the same
\* items passes for a new request.
THEOREM OrderOfPlainItems == Spec => []OrderOfPlainItemsIsHarmless
<1>1. ASSUME Requested,
             \A m, n \in DOMAIN items :
                items[m].foodId = items[n].foodId /\ items[m].foodSizeId = items[n].foodSizeId
                => items[m].note = items[n].note,
             NEW p \in Orderings(items)
      PROVE  normalizeOrderIntent(Reordered(items, p)) = Intent
  <2>1. PICK list \in Seq(Line) : list = items
    BY <1>1 DEF Requested
  <2>2. Plain(list)
    BY <1>1, <2>1 DEF Plain, KeysOf, Key
  <2>3. PICK S : S = DOMAIN list /\ IsFiniteSet(S)
    <3>1. DOMAIN list = 1..Len(list) /\ Len(list) \in Nat
      OBVIOUS
    <3>2. IsFiniteSet(1..Len(list))
      BY <3>1, FS_Interval
    <3> QED BY <3>1, <3>2
  <2>4. p \in [S -> S] /\ \A m, n \in S : p[m] = p[n] => m = n
    BY <2>1, <2>3 DEF Orderings
  <2>5. p \in Injection(S, S)
    BY <2>4 DEF Injection, IsInjective
  <2>6. p \in Surjection(S, S)
    BY <2>3, <2>5, FS_Injection
  <2>7. Permutes(p, list)
    BY <2>3, <2>4, <2>6 DEF Permutes, Surjection
  <2>8. PICK moved : moved = Reordered(list, p)
    OBVIOUS
  <2>9. Permuted(moved, list)
    BY <2>7, <2>8 DEF Permuted, Reordered
  <2>10. /\ moved \in Seq(Line) /\ KeysOf(moved) = KeysOf(list)
         /\ \A weight \in [Keys -> Nat] : Weighted(weight, moved) = Weighted(weight, list)
    BY <2>9, PermutingKeeps
  <2>11. normalizeOrderIntent(list) = normalizeOrderIntent(moved)
    BY <2>2, <2>10, SameIntent
  <2> QED BY <2>1, <2>8, <2>11 DEF Intent
<1>2. ASSUME Requested PROVE OrderOfPlainItemsIsHarmless
  BY <1>1, <1>2 DEF OrderOfPlainItemsIsHarmless, OrderIsHarmless
<1> QED BY <1>2, SpecRequested, PTL
=============================================================================
