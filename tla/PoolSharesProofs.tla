-------------------------- MODULE PoolSharesProofs --------------------------
(***************************************************************************)
(* However many pools a node has for a server, the limits its quota pass   *)
(* sets add up to no more than the node is allowed.                        *)
(*                                                                         *)
(* A sum is a number of units (PoolShares!Units).  The shares fit because  *)
(* their units can be numbered 1..allowance without using a number twice.  *)
(***************************************************************************)
EXTENDS PoolShares, FiniteSetTheorems, SequenceTheorems, TLAPS

\* First-order leaves go to Zenon, the others to the SMT solver.
USE ZenonT(3), SMTT(20)

-----------------------------------------------------------------------------
(* Ranks in a strict order.                                                *)

\* The elements of `D` that `R` puts before `x`.
Earlier(R, D, x) == {y \in D : <<y, x>> \in R}

\* `R` puts any two elements of `D` in order.
IsStrictOrder(R, D) ==
  /\ \A x \in D : <<x, x>> \notin R
  /\ \A x, y, z \in D : <<x, y>> \in R /\ <<y, z>> \in R => <<x, z>> \in R
  /\ \A x, y \in D : x # y => <<x, y>> \in R \/ <<y, x>> \in R

\* What comes later has more before it.
LEMMA RankGrows ==
  ASSUME NEW D, IsFiniteSet(D), NEW R, IsStrictOrder(R, D),
         NEW x \in D, NEW y \in D, <<x, y>> \in R
  PROVE  Cardinality(Earlier(R, D, x)) < Cardinality(Earlier(R, D, y))
<1>1. Earlier(R, D, x) \subseteq Earlier(R, D, y)
  BY DEF IsStrictOrder, Earlier
<1>2. x \in Earlier(R, D, y) /\ x \notin Earlier(R, D, x)
  BY DEF IsStrictOrder, Earlier
<1>3. IsFiniteSet(Earlier(R, D, y))
  BY FS_Subset DEF Earlier
<1>4. IsFiniteSet(Earlier(R, D, x))
  BY FS_Subset DEF Earlier
<1>. QED
  <2>1. Cardinality(Earlier(R, D, x)) <= Cardinality(Earlier(R, D, y))
    BY <1>1, <1>3, FS_Subset
  <2>2. Cardinality(Earlier(R, D, x)) # Cardinality(Earlier(R, D, y))
    BY <1>1, <1>2, <1>3, FS_Subset
  <2>3. Cardinality(Earlier(R, D, x)) \in Nat /\ Cardinality(Earlier(R, D, y)) \in Nat
    BY <1>3, <1>4, FS_CardinalityType
  <2>. QED  BY <2>1, <2>2, <2>3, SMT

\* No two have the same rank, and all ranks are below the size of the set.
LEMMA RanksDiffer ==
  ASSUME NEW D, IsFiniteSet(D), NEW R, IsStrictOrder(R, D)
  PROVE  /\ Cardinality(D) \in Nat
         /\ \A x \in D : Cardinality(Earlier(R, D, x)) \in 0..(Cardinality(D) - 1)
         /\ \A x, y \in D : Cardinality(Earlier(R, D, x)) = Cardinality(Earlier(R, D, y)) => x = y
<1>0. Cardinality(D) \in Nat
  BY FS_CardinalityType
<1>1. ASSUME NEW x \in D
      PROVE  Cardinality(Earlier(R, D, x)) \in 0..(Cardinality(D) - 1)
  <2>1. Earlier(R, D, x) \in SUBSET D /\ x \notin Earlier(R, D, x)
    BY DEF Earlier, IsStrictOrder
  <2>2. Earlier(R, D, x) # D
    BY <2>1
  <2>3. IsFiniteSet(Earlier(R, D, x)) /\ Cardinality(Earlier(R, D, x)) <= Cardinality(D)
        /\ Cardinality(D) # Cardinality(Earlier(R, D, x))
    BY <2>1, <2>2, FS_Subset
  <2>4. Cardinality(Earlier(R, D, x)) \in Nat
    BY <2>3, FS_CardinalityType
  <2>. QED  BY <1>0, <2>3, <2>4, SMT
<1>2. ASSUME NEW x \in D, NEW y \in D, Cardinality(Earlier(R, D, x)) = Cardinality(Earlier(R, D, y)), x # y
      PROVE  FALSE
  <2>1. <<x, y>> \in R \/ <<y, x>> \in R
    BY <1>2 DEF IsStrictOrder
  <2>2. Cardinality(Earlier(R, D, x)) \in Int /\ Cardinality(Earlier(R, D, y)) \in Int
    BY <1>0, <1>1, SMT
  <2>3. Cardinality(Earlier(R, D, x)) < Cardinality(Earlier(R, D, y)) \/ Cardinality(Earlier(R, D, y)) < Cardinality(Earlier(R, D, x))
    BY <2>1, RankGrows
  <2>. QED  BY <1>2, <2>2, <2>3, SMT
<1>. QED
  BY <1>0, <1>1, <1>2

\* `Sorted` lists every key of a finite set once.
LEMMA SortedLists ==
  ASSUME NEW S \in SUBSET Nat, IsFiniteSet(S)
  PROVE  /\ Cardinality(S) \in Nat
         /\ Sorted(S) \in [1..Cardinality(S) -> S]
         /\ \A i, j \in 1..Cardinality(S) : Sorted(S)[i] = Sorted(S)[j] => i = j
         /\ \A k \in S : \E i \in 1..Cardinality(S) : Sorted(S)[i] = k
<1>. DEFINE R == {p \in S \X S : p[1] < p[2]}
            n == Cardinality(S)
            rank(k) == Cardinality(Below(S, k))
            f == [k \in S |-> rank(k)]
<1>1. IsStrictOrder(R, S)
  <2>1. \A x, y \in S : <<x, y>> \in R <=> x < y
    OBVIOUS
  <2>. HIDE DEF R
  <2>. QED  BY <2>1, SMT DEF IsStrictOrder
<1>2. \A k \in S : Earlier(R, S, k) = Below(S, k)
  BY DEF Earlier, Below
<1>. HIDE DEF R
<1>3. /\ n \in Nat
      /\ \A k \in S : rank(k) \in 0..(n - 1)
      /\ \A j, k \in S : rank(j) = rank(k) => j = k
  <2>1. /\ Cardinality(S) \in Nat
        /\ \A k \in S : Cardinality(Earlier(R, S, k)) \in 0..(Cardinality(S) - 1)
        /\ \A j, k \in S : Cardinality(Earlier(R, S, j)) = Cardinality(Earlier(R, S, k)) => j = k
    BY <1>1, RanksDiffer
  <2>. QED  BY <1>2, <2>1
<1>4. f \in Injection(S, 0..(n - 1))
  <2>. HIDE DEF rank, n
  <2>. QED BY <1>3, Zenon DEF Injection, IsInjective
<1>5. IsFiniteSet(0..(n - 1)) /\ Cardinality(0..(n - 1)) = n
  <2>. HIDE DEF rank, n
  <2>. QED BY <1>3, FS_Interval, SMT
<1>6. f \in Surjection(S, 0..(n - 1))
  BY <1>4, <1>5, FS_Injection
<1>7. ASSUME NEW i \in 1..n
      PROVE  Sorted(S)[i] \in S /\ rank(Sorted(S)[i]) = i - 1
  <2>1. i - 1 \in 0..(n - 1)
    <3>. HIDE DEF rank, n
    <3>. QED BY <1>3, SMT
  <2>2. \E k \in S : rank(k) = i - 1
    BY <1>6, <2>1 DEF Surjection
  <2>3. Sorted(S)[i] = CHOOSE k \in S : rank(k) = i - 1
    BY DEF Sorted
  <2>. QED  BY <2>2, <2>3
<1>8. ASSUME NEW k \in S
      PROVE  \E i \in 1..n : Sorted(S)[i] = k
  <2>1. rank(k) + 1 \in 1..n /\ (rank(k) + 1) - 1 = rank(k)
    <3>. HIDE DEF rank, n
    <3>. QED BY <1>3, SMT
  <2>. QED  BY <2>1, <1>3, <1>7
<1>9. Sorted(S) \in [1..n -> S]
  BY <1>7 DEF Sorted
<1>10. ASSUME NEW i \in 1..n, NEW j \in 1..n, Sorted(S)[i] = Sorted(S)[j]
       PROVE  i = j
  <2>1. i - 1 = j - 1
    BY <1>7, <1>10, Zenon
  <2>. QED  BY <2>1, SMT
<1>. QED
  BY <1>3, <1>8, <1>9, <1>10

-----------------------------------------------------------------------------
(* The division.                                                           *)

\* How many there are from 1 to `n`.
LEMMA UpTo ==
  ASSUME NEW n \in Nat
  PROVE  IsFiniteSet(1..n) /\ Cardinality(1..n) = n
<1>1. IsFiniteSet(1..n) /\ Cardinality(1..n) = IF 1 > n THEN 0 ELSE (n - 1) + 1
  BY FS_Interval
<1>. QED
  BY <1>1, SMT

\* The floor and the remainder, as `/` and `%` of a u32 give them.
LEMMA Division ==
  ASSUME NEW t \in Nat, NEW c \in Nat \ {0}
  PROVE  t \div c \in Nat /\ t % c \in 0..(c - 1) /\ t = (t \div c) * c + (t % c)
  BY SMT

\* Rows of `c`: a place in one row comes before every place in a later one.
LEMMA RowsApart ==
  ASSUME NEW a \in Nat, NEW b \in Nat, NEW c \in Nat, a < b
  PROVE  a * c \in Nat /\ b * c \in Nat /\ a * c + c <= b * c
  BY SMT

\* Shares that are the floor, and one more for those whose rank is below the
\* remainder; no two have the same rank.
ByRank(shares, total, n) ==
  \E r \in [1..n -> 0..(n - 1)] :
    /\ \A i, j \in 1..n : r[i] = r[j] => i = j
    /\ shares = [i \in 1..n |-> total \div n + (IF r[i] < total % n THEN 1 ELSE 0)]

\* The order of `shares_across_pools`, by demand and then by position, ranks the
\* pools.
LEMMA SharesByRank ==
  ASSUME NEW total \in Nat, NEW demand \in Seq(Nat), NEW n \in Nat \ {0}, n = Len(demand)
  PROVE  ByRank(SharesAcrossPools(total, demand), total, n)
<1>. DEFINE R == {p \in (1..n) \X (1..n) : demand[p[1]] > demand[p[2]] \/ (demand[p[1]] = demand[p[2]] /\ p[1] < p[2])}
            r == [i \in 1..n |-> Cardinality(Earlier(R, 1..n, i))]
<1>1. DOMAIN demand = 1..n /\ \A i \in 1..n : demand[i] \in Nat
  BY SMT
<1>2. \A i, j \in 1..n : <<i, j>> \in R <=> (demand[i] > demand[j] \/ (demand[i] = demand[j] /\ i < j))
  OBVIOUS
<1>3. \A i \in 1..n : Earlier(R, 1..n, i) = {j \in DOMAIN demand : demand[j] > demand[i] \/ (demand[j] = demand[i] /\ j < i)}
  BY <1>1, <1>2 DEF Earlier
<1>. HIDE DEF R
<1>4. IsStrictOrder(R, 1..n)
  <2>. DEFINE d(i) == demand[i]
  <2>1. \A i \in 1..n : d(i) \in Nat
    BY <1>1
  <2>2. \A i, j \in 1..n : <<i, j>> \in R <=> (d(i) > d(j) \/ (d(i) = d(j) /\ i < j))
    BY <1>2
  <2>. HIDE DEF d
  <2>3. \A x \in 1..n : <<x, x>> \notin R
    BY <2>1, <2>2, SMT
  <2>4. ASSUME NEW x \in 1..n, NEW y \in 1..n, NEW z \in 1..n, <<x, y>> \in R, <<y, z>> \in R
        PROVE  <<x, z>> \in R
    <3>1. d(x) > d(y) \/ (d(x) = d(y) /\ x < y)
      BY <2>2, <2>4
    <3>2. d(y) > d(z) \/ (d(y) = d(z) /\ y < z)
      BY <2>2, <2>4
    <3>3. d(x) > d(z) \/ (d(x) = d(z) /\ x < z)
      BY <3>1, <3>2, <2>1, SMT
    <3>. QED  BY <3>3, <2>2
  <2>5. \A x, y \in 1..n : x # y => <<x, y>> \in R \/ <<y, x>> \in R
    BY <2>1, <2>2, SMT
  <2>. QED  BY <2>3, <2>4, <2>5, Zenon DEF IsStrictOrder
<1>5. IsFiniteSet(1..n) /\ Cardinality(1..n) = n
  BY UpTo
<1>6. /\ \A i \in 1..n : Cardinality(Earlier(R, 1..n, i)) \in 0..(n - 1)
      /\ \A i, j \in 1..n : Cardinality(Earlier(R, 1..n, i)) = Cardinality(Earlier(R, 1..n, j)) => i = j
  <2>1. /\ \A i \in 1..n : Cardinality(Earlier(R, 1..n, i)) \in 0..(Cardinality(1..n) - 1)
        /\ \A i, j \in 1..n : Cardinality(Earlier(R, 1..n, i)) = Cardinality(Earlier(R, 1..n, j)) => i = j
    BY <1>4, <1>5, RanksDiffer
  <2>. QED  BY <1>5, <2>1
<1>7. SharesAcrossPools(total, demand) =
        [i \in 1..n |-> total \div n + (IF r[i] < total % n THEN 1 ELSE 0)]
  <2>1. SharesAcrossPools(total, demand) =
          [i \in 1..n |-> total \div n + (IF Cardinality(Earlier(R, 1..n, i)) < total % n THEN 1 ELSE 0)]
    BY <1>1, <1>3 DEF SharesAcrossPools
  <2>. QED  BY <2>1
<1>9. \A i, j \in 1..n : r[i] = r[j] => i = j
  BY <1>6
<1>8. r \in [1..n -> 0..(n - 1)]
  BY <1>6
<1>. HIDE DEF r
<1>. QED
  BY <1>7, <1>8, <1>9 DEF ByRank

\* A unit of a map is one of its keys and a number up to the value there.
LEMMA UnitOf ==
  ASSUME NEW f, NEW keys, NEW u
  PROVE  u \in Units(f, keys) <=> \E k \in keys : \E m \in 1..f[k] : u = <<k, m>>
  BY DEF Units

\* Numbering the units row by row: the first of each pool in the order of rank,
\* then the second of each, and so on.
Number(n, a, x) == a * n + x + 1

\* No number is given twice.
LEMMA NumbersApart ==
  ASSUME NEW n \in Nat \ {0}, NEW a \in Nat, NEW b \in Nat, NEW x \in 0..(n - 1), NEW y \in 0..(n - 1),
         Number(n, a, x) = Number(n, b, y)
  PROVE  a = b /\ x = y
<1>. DEFINE an == a * n
            bn == b * n
<1>1. an + x + 1 = bn + y + 1
  BY DEF Number
<1>2. CASE a < b
  <2>1. an \in Nat /\ bn \in Nat /\ an + n <= bn
    BY <1>2, RowsApart
  <2>. HIDE DEF an, bn
  <2>. QED  BY <1>1, <2>1, SMT
<1>3. CASE b < a
  <2>1. an \in Nat /\ bn \in Nat /\ bn + n <= an
    BY <1>3, RowsApart
  <2>. HIDE DEF an, bn
  <2>. QED  BY <1>1, <2>1, SMT
<1>4. CASE a = b
  <2>1. an = bn /\ an \in Nat
    BY <1>4, SMT
  <2>. HIDE DEF an, bn
  <2>. QED  BY <1>1, <1>4, <2>1, SMT
<1>. QED
  BY <1>2, <1>3, <1>4, SMT

\* How many units the pool of rank `x` has.
Taken(q, rest, x) == q + (IF x < rest THEN 1 ELSE 0)

\* A number is in use exactly when it is one of `total`: the rows below the floor
\* are full, and the next has as many places taken as the remainder says.
LEMMA NumberInUse ==
  ASSUME NEW n \in Nat \ {0}, NEW q \in Nat, NEW rest \in 0..(n - 1), NEW total \in Nat, total = q * n + rest,
         NEW a \in Nat, NEW x \in 0..(n - 1)
  PROVE  /\ Number(n, a, x) \in Nat \ {0}
         /\ Number(n, a, x) <= total <=> a + 1 <= Taken(q, rest, x)
<1>. DEFINE an == a * n
            qn == q * n
<1>0. an \in Nat /\ qn \in Nat /\ total = qn + rest
  BY SMT
<1>1. CASE a < q
  <2>1. an + n <= qn
    BY <1>1, RowsApart
  <2>. HIDE DEF an, qn
  <2>2. an + x + 1 \in Nat \ {0} /\ an + x + 1 <= total /\ a + 1 <= q + (IF x < rest THEN 1 ELSE 0)
    BY <1>0, <1>1, <2>1, SMT
  <2>. QED  BY <2>2 DEF an, Number, Taken
<1>2. CASE q < a
  <2>1. qn + n <= an
    BY <1>2, RowsApart
  <2>. HIDE DEF an, qn
  <2>2. an + x + 1 \in Nat \ {0} /\ ~(an + x + 1 <= total) /\ ~(a + 1 <= q + (IF x < rest THEN 1 ELSE 0))
    BY <1>0, <1>2, <2>1, SMT
  <2>. QED  BY <2>2 DEF an, Number, Taken
<1>3. CASE a = q
  <2>1. an = qn
    BY <1>3
  <2>. HIDE DEF an, qn
  <2>2. an + x + 1 \in Nat \ {0} /\ (an + x + 1 <= total <=> a + 1 <= q + (IF x < rest THEN 1 ELSE 0))
    BY <1>0, <1>3, <2>1, SMT
  <2>. QED  BY <2>2 DEF an, Number, Taken
<1>. QED
  BY <1>1, <1>2, <1>3, SMT

\* `shares_across_pools` hands out the allowance, no more of it (run.rs:359-360,
\* "the sum is never more than the allowance. That last clause is the whole
\* function") and no less, however many pools there are and whatever they want
\* (the test at run.rs:1462, "strands nothing"): the units of the shares can be
\* numbered 1 to `total`, each number once.
THEOREM SharesAddUp ==
  ASSUME NEW total \in Nat, NEW demand \in Seq(Nat), demand # <<>>
  PROVE  /\ SharesAcrossPools(total, demand) \in [DOMAIN demand -> Nat]
         /\ IsFiniteSet(Units(SharesAcrossPools(total, demand), DOMAIN demand))
         /\ SumOf(SharesAcrossPools(total, demand), DOMAIN demand) = total
<1>. DEFINE shares == SharesAcrossPools(total, demand)
            n == Len(demand)
            q == total \div n
            rest == total % n
<1>0. n \in Nat \ {0} /\ DOMAIN demand = 1..n
  BY LenProperties, EmptySeq
<1>1. PICK r \in [1..n -> 0..(n - 1)] :
           /\ \A i, j \in 1..n : r[i] = r[j] => i = j
           /\ shares = [i \in 1..n |-> q + (IF r[i] < rest THEN 1 ELSE 0)]
  <2>1. ByRank(shares, total, n)
    BY <1>0, SharesByRank
  <2>. QED  BY <2>1 DEF ByRank
<1>2. q \in Nat /\ rest \in 0..(n - 1) /\ total = q * n + rest
  BY <1>0, Division
<1>. HIDE DEF shares, q, rest, n
<1>3. shares \in [1..n -> Nat]
  BY <1>1, <1>2, SMT
<1>. DEFINE U == Units(shares, 1..n)
            number(i, m) == Number(n, m - 1, r[i])
            h == [u \in U |-> number(u[1], u[2])]
<1>4. ASSUME NEW i \in 1..n, NEW m \in Nat \ {0}
      PROVE  /\ m - 1 \in Nat /\ r[i] \in 0..(n - 1) /\ number(i, m) \in Nat \ {0}
             /\ number(i, m) \in 1..total <=> m \in 1..shares[i]
  <2>. DEFINE a == m - 1
              x == r[i]
  <2>1. a \in Nat /\ a + 1 = m
    BY SMT
  <2>2. x \in 0..(n - 1)
    OBVIOUS
  <2>3. shares[i] = Taken(q, rest, x) /\ shares[i] \in Nat
    BY <1>1, <1>3 DEF Taken
  <2>. DEFINE s == shares[i]
  <2>. HIDE DEF a, x, s
  <2>4. /\ Number(n, a, x) \in Nat \ {0}
        /\ Number(n, a, x) <= total <=> a + 1 <= Taken(q, rest, x)
    BY <1>0, <1>2, <2>1, <2>2, NumberInUse
  <2>5. Number(n, a, x) <= total <=> m <= s
    BY <2>1, <2>3, <2>4 DEF s
  <2>. DEFINE num == Number(n, a, x)
  <2>6. s \in Nat /\ num \in Nat \ {0} /\ (num <= total <=> m <= s)
    BY <2>3, <2>4, <2>5 DEF s
  <2>. HIDE DEF num
  <2>7. num \in 1..total <=> m \in 1..s
    BY <2>6, SMT
  <2>. QED  BY <2>1, <2>2, <2>4, <2>7 DEF num, a, x, s
<1>5. ASSUME NEW u \in U
      PROVE  u = <<u[1], u[2]>> /\ u[1] \in 1..n /\ u[2] \in 1..shares[u[1]] /\ u[2] \in Nat \ {0}
  <2>0. u \in Units(shares, 1..n)
    OBVIOUS
  <2>1. PICK i \in 1..n : \E m \in 1..shares[i] : u = <<i, m>>
    <3>. HIDE DEF U, h
    <3>. QED  BY <2>0 DEF Units
  <2>2. PICK m \in 1..shares[i] : u = <<i, m>>
    BY <2>1
  <2>3. shares[i] \in Nat
    BY <1>3
  <2>4. m \in Nat \ {0}
    BY <2>3, SMT
  <2>. QED  BY <2>2, <2>4
<1>6. \A u \in U : h[u] \in 1..total
  BY <1>4, <1>5
<1>7. ASSUME NEW u \in U, NEW v \in U, h[u] = h[v]
      PROVE  u = v
  <2>. DEFINE a == u[2] - 1
              b == v[2] - 1
              x == r[u[1]]
              y == r[v[1]]
  <2>0. u[1] \in 1..n /\ u[2] \in Nat \ {0} /\ v[1] \in 1..n /\ v[2] \in Nat \ {0}
    BY <1>5
  <2>1. a \in Nat /\ b \in Nat /\ x \in 0..(n - 1) /\ y \in 0..(n - 1)
    <3>. HIDE DEF number, h, U
    <3>. QED  BY <1>4, <2>0, Zenon
  <2>2. Number(n, a, x) = Number(n, b, y)
    BY <1>7
  <2>3. a = b /\ x = y
    <3>. HIDE DEF a, b, x, y
    <3>. QED  BY <1>0, <2>1, <2>2, NumbersApart
  <2>4. u[1] = v[1]
    BY <1>1, <1>5, <2>3
  <2>5. u[2] = v[2]
    <3>1. \A c, d \in Nat \ {0} : c - 1 = d - 1 => c = d
      BY SMT
    <3>. QED  BY <2>0, <2>3, <3>1, Zenon
  <2>. QED  BY <1>5, <2>4, <2>5
<1>8. ASSUME NEW t \in 1..total
      PROVE  \E u \in U : h[u] = t
  <2>. DEFINE a == (t - 1) \div n
              x == (t - 1) % n
  <2>1. t - 1 \in Nat /\ t \in Nat
    BY SMT
  <2>2. a \in Nat /\ x \in 0..(n - 1) /\ t - 1 = a * n + x
    BY <1>0, <2>1, Division
  <2>. HIDE DEF a, x
  <2>3. PICK i \in 1..n : r[i] = x
    <3>1. r \in Injection(1..n, 0..(n - 1))
      BY <1>1 DEF Injection, IsInjective
    <3>2. IsFiniteSet(1..n) /\ Cardinality(1..n) = n
      BY <1>0, UpTo
    <3>3. IsFiniteSet(0..(n - 1)) /\ Cardinality(0..(n - 1)) = n
      BY <1>0, FS_Interval, SMT
    <3>4. r \in Surjection(1..n, 0..(n - 1))
      BY <3>1, <3>2, <3>3, FS_Injection
    <3>. QED  BY <2>2, <3>4 DEF Surjection
  <2>. DEFINE m == a + 1
  <2>4. m \in Nat \ {0} /\ m - 1 = a
    BY <2>2, SMT
  <2>5. number(i, m) = t
    <3>. DEFINE an == a * n
    <3>1. number(i, m) = an + x + 1 /\ t - 1 = an + x /\ an \in Nat
      <4>1. a * n \in Nat
        BY <1>0, <2>2, SMT
      <4>2. number(i, m) = (m - 1) * n + r[i] + 1
        BY DEF Number
      <4>. HIDE DEF m, number
      <4>. QED  BY <2>2, <2>3, <2>4, <4>1, <4>2
    <3>. HIDE DEF an, number
    <3>. QED  BY <2>1, <2>2, <3>1, SMT
  <2>. HIDE DEF m
  <2>6. m \in 1..shares[i]
    <3>. HIDE DEF number
    <3>. QED  BY <1>4, <2>4, <2>5
  <2>7. <<i, m>> \in U
    BY <2>6, UnitOf
  <2>. QED  BY <2>5, <2>7
<1>9. IsFiniteSet(U) /\ Cardinality(U) = total
  <2>1. h \in Injection(U, 1..total) /\ h \in Surjection(U, 1..total)
    <3>1. h \in [U -> 1..total]
      BY <1>6
    <3>. HIDE DEF h, U
    <3>. QED  BY <1>7, <1>8, <3>1 DEF Injection, IsInjective, Surjection
  <2>2. IsFiniteSet(1..total) /\ Cardinality(1..total) = total
    BY UpTo
  <2>. HIDE DEF h, U
  <2>. QED  BY <2>1, <2>2, FS_Injection
<1>. QED
  BY <1>0, <1>3, <1>9 DEF SumOf, shares

\* The map is worth no more than `total`.
Within(g, total) == IsFiniteSet(Units(g, Pools)) /\ SumOf(g, Pools) <= total

\* The shares of the pools listed are those of such a map.
FitInto(shares, keys, total, n) ==
  \E g \in [Pools -> Nat] : Within(g, total) /\ \A i \in 1..n : shares[i] = g[keys[i]]

\* So the shares are the values of a map over the pools worth no more than the
\* allowance, if no pool is listed twice.
LEMMA SharesFit ==
  ASSUME NEW total \in Nat, NEW demand \in Seq(Nat), NEW n \in Nat \ {0}, n = Len(demand),
         NEW keys \in [1..n -> Pools], \A i, j \in 1..n : keys[i] = keys[j] => i = j
  PROVE  /\ SharesAcrossPools(total, demand) \in [1..n -> Nat]
         /\ FitInto(SharesAcrossPools(total, demand), keys, total, n)
<1>. DEFINE shares == SharesAcrossPools(total, demand)
<1>1. /\ shares \in [1..n -> Nat] /\ IsFiniteSet(Units(shares, 1..n))
      /\ Cardinality(Units(shares, 1..n)) = total
  <2>1. DOMAIN demand = 1..n /\ demand # <<>>
    BY LenProperties, EmptySeq, SMT
  <2>. QED  BY <2>1, SharesAddUp DEF SumOf
<1>. HIDE DEF shares
<1>. DEFINE at(k) == CHOOSE i \in 1..n : keys[i] = k
            Named == {keys[i] : i \in 1..n}
            g == [k \in Pools |-> IF k \in Named THEN shares[at(k)] ELSE 0]
            h == [u \in Units(g, Pools) |-> <<at(u[1]), u[2]>>]
<1>2. \A i \in 1..n : at(keys[i]) = i
  OBVIOUS
<1>3. \A k \in Named : at(k) \in 1..n /\ keys[at(k)] = k
  BY <1>2
<1>. HIDE DEF at
<1>4. g \in [Pools -> Nat]
  BY <1>1, <1>3
<1>5. \A i \in 1..n : shares[i] = g[keys[i]]
  BY <1>2
<1>6. ASSUME NEW u \in Units(g, Pools)
      PROVE  u = <<u[1], u[2]>> /\ u[1] \in Named /\ <<at(u[1]), u[2]>> \in Units(shares, 1..n)
  <2>1. PICK k \in Pools : \E m \in 1..g[k] : u = <<k, m>>
    <3>. HIDE DEF g
    <3>. QED  BY UnitOf
  <2>2. PICK m \in 1..g[k] : u = <<k, m>>
    BY <2>1
  <2>3. k \in Named
    <3>1. CASE k \notin Named
      <4>1. g[k] = 0
        BY <3>1
      <4>. QED  BY <4>1, SMT
    <3>. QED  BY <3>1
  <2>4. at(k) \in 1..n /\ g[k] = shares[at(k)]
    BY <1>3, <2>3
  <2>5. m \in 1..shares[at(k)]
    BY <2>4
  <2>6. <<at(k), m>> \in Units(shares, 1..n)
    BY <2>4, <2>5, UnitOf
  <2>. QED  BY <2>2, <2>3, <2>6
<1>7. Within(g, total)
  <2>. HIDE DEF g
  <2>1. h \in [Units(g, Pools) -> Units(shares, 1..n)]
    BY <1>6
  <2>2. ASSUME NEW u \in Units(g, Pools), NEW v \in Units(g, Pools), h[u] = h[v] PROVE u = v
    <3>1. at(u[1]) = at(v[1]) /\ u[2] = v[2]
      BY <2>2
    <3>2. u[1] = v[1]
      BY <1>3, <1>6, <3>1
    <3>. QED  BY <1>6, <3>1, <3>2
  <2>. HIDE DEF h
  <2>3. h \in Injection(Units(g, Pools), Units(shares, 1..n))
    BY <2>1, <2>2 DEF Injection, IsInjective
  <2>. QED  BY <1>1, <2>3, FS_Injection DEF Within, SumOf
<1>. QED
  <2>1. FitInto(shares, keys, total, n)
    BY <1>4, <1>5, <1>7 DEF FitInto
  <2>. QED  BY <1>1, <2>1 DEF shares

\* A map that is below another one on the keys it has is worth no more.
LEMMA SumMonotone ==
  ASSUME NEW total, NEW g \in [Pools -> Nat], Within(g, total), NEW K \in SUBSET Pools,
         NEW f, \A k \in K : f[k] \in Nat /\ f[k] <= g[k]
  PROVE  SumOf(f, K) \in Nat /\ SumOf(f, K) <= SumOf(g, Pools)
<1>1. Units(f, K) \subseteq Units(g, Pools)
  <2>1. ASSUME NEW u \in Units(f, K) PROVE u \in Units(g, Pools)
    <3>0. PICK k \in K : \E m \in 1..f[k] : u = <<k, m>>
      BY UnitOf
    <3>1. PICK m \in 1..f[k] : u = <<k, m>>
      BY <3>0
    <3>2. m \in 1..g[k]
      BY SMT
    <3>. QED  BY <3>1, <3>2, UnitOf, Zenon
  <2>. QED  BY <2>1
<1>. QED
  BY <1>1, FS_Subset, FS_CardinalityType DEF Within, SumOf

-----------------------------------------------------------------------------
(* The pass.                                                               *)

\* What a pool's record, and the pass's, may be.
PoolRec == [limit : 0..PoolMax, active : Nat, idle : Nat, opening : Nat, waiting : Nat, fresh : BOOLEAN]

PassRec == [at : {"rest", "asking", "setting"}, keys : Seq(Pools), demand : Seq(Nat),
            allowance : Nat, shares : Seq(Nat)]

\* The pools a list names.
Listed(keys) == {keys[i] : i \in 1..Len(keys)}

\* While the leader is asked, the list names each pool there was once, and the
\* pools with a limit from an earlier pass are all on it.
ListIsWhole ==
  /\ Len(pass.keys) \in Nat \ {0} /\ Len(pass.demand) = Len(pass.keys)
  /\ \A i, j \in 1..Len(pass.keys) : pass.keys[i] = pass.keys[j] => i = j
  /\ Reached \subseteq Listed(pass.keys)

\* `g` divides the allowance: the shares still to be set are those of `g`, and no
\* limit that has been set is above its share.
Divides(g) ==
  /\ g \in [Pools -> Nat] /\ Within(g, applied)
  /\ \A k \in Reached \ Listed(pass.keys) : pools[k].limit <= g[k]
  /\ Len(pass.shares) = Len(pass.keys) /\ \A i \in 1..Len(pass.keys) : pass.shares[i] = g[pass.keys[i]]

\* The inductive invariant.
SharesInv ==
  /\ SharesTypeOK /\ pass \in PassRec
  /\ pass.at = "rest" => pass = Resting
  /\ pass.at = "asking" => ListIsWhole
  /\ pass.at # "asking" => \E g : Divides(g)
  /\ pass.at = "setting" => Len(pass.keys) # 0

\* A function on the numbers up to `n` is a sequence of that length.
LEMMA FunctionIsSeq ==
  ASSUME NEW T, NEW n \in Nat, NEW f \in [1..n -> T]
  PROVE  f \in Seq(T) /\ Len(f) = n
  BY SMT

\* A node starts without pools and without a pass.
LEMMA SharesStart == SharesInit => SharesInv
<1>. SUFFICES ASSUME SharesInit PROVE SharesInv
  OBVIOUS
<1>. USE DEF SharesInit
<1>1. Max(Entitlements) \in Entitlements
  BY SharesAssumption DEF Max
<1>2. DOMAIN pools = {}
  BY SMT
<1>3. SharesTypeOK
  BY <1>1, <1>2 DEF SharesTypeOK, Resting
<1>4. pass = Resting /\ pass.at = "rest" /\ pass.keys = <<>> /\ pass.shares = <<>>
  BY DEF Resting
<1>5. Len(pass.keys) = 0 /\ Len(pass.shares) = 0 /\ pass \in PassRec
  BY <1>4, SMT DEF PassRec, Resting
<1>. DEFINE g == [k \in Pools |-> 0]
<1>6. Units(g, Pools) = {}
  <2>1. ASSUME NEW u \in Units(g, Pools) PROVE FALSE
    <3>1. PICK k \in Pools : \E m \in 1..g[k] : u = <<k, m>>
      <4>. HIDE DEF g
      <4>. QED  BY UnitOf
    <3>2. g[k] = 0
      OBVIOUS
    <3>. QED  BY <3>1, <3>2, SMT
  <2>. QED  BY <2>1
<1>7. Within(g, applied)
  <2>. HIDE DEF g
  <2>1. IsFiniteSet(Units(g, Pools)) /\ SumOf(g, Pools) = 0
    BY <1>6, FS_EmptySet DEF SumOf
  <2>. QED  BY <2>1, SMT DEF Within
<1>8. Divides(g)
  <2>1. Reached = {}
    BY <1>2 DEF Reached
  <2>2. 1..Len(pass.keys) = {}
    BY <1>5, SMT
  <2>. QED  BY <1>5, <1>7, <2>1, <2>2 DEF Divides
<1>. HIDE DEF g
<1>. QED
  BY <1>3, <1>4, <1>5, <1>8 DEF SharesInv

\* Whatever happens to pools leaves the pass in order if it raises no limit that
\* a pass has set and gives no pool one.
LEMMA PoolsInUse ==
  ASSUME SharesInv, DOMAIN pools' \subseteq Pools, \A k \in DOMAIN pools' : pools'[k] \in PoolRec,
         \A k \in DOMAIN pools' : ~pools'[k].fresh =>
           k \in DOMAIN pools /\ ~pools[k].fresh /\ pools'[k].limit = pools[k].limit,
         entitled' \in Entitlements, declared' \in BOOLEAN, UNCHANGED <<pass, applied>>
  PROVE  SharesInv'
<1>1. SharesTypeOK'
  BY DEF SharesInv, SharesTypeOK, PoolRec
<1>2. Reached' \subseteq Reached /\ \A k \in Reached' : pools'[k].limit = pools[k].limit
  BY DEF Reached
<1>3. pass' = pass /\ applied' = applied
  OBVIOUS
<1>4. pass.at = "asking" => ListIsWhole'
  BY <1>2, <1>3 DEF SharesInv, ListIsWhole
<1>5. ASSUME NEW g, Divides(g) PROVE Divides(g)'
  BY <1>2, <1>3, <1>5 DEF Divides
<1>6. pass.at # "asking" => \E g : Divides(g)'
  BY <1>5 DEF SharesInv
<1>. QED
  BY <1>1, <1>3, <1>4, <1>6 DEF SharesInv

\* One pool's counts change, or it is made.
LEMMA OnePool ==
  ASSUME SharesInv, NEW k \in Pools, NEW p \in PoolRec,
         pools' = [j \in DOMAIN pools \cup {k} |-> IF j = k THEN p ELSE pools[j]],
         ~p.fresh => k \in DOMAIN pools /\ ~pools[k].fresh /\ p.limit = pools[k].limit,
         UNCHANGED <<entitled, declared, pass, applied>>
  PROVE  SharesInv'
<1>1. DOMAIN pools \subseteq Pools /\ \A j \in DOMAIN pools : pools[j] \in PoolRec
  BY DEF SharesInv, SharesTypeOK, PoolRec
<1>2. entitled' \in Entitlements /\ declared' \in BOOLEAN
  BY DEF SharesInv, SharesTypeOK
<1>3. DOMAIN pools' \subseteq Pools /\ \A j \in DOMAIN pools' : pools'[j] \in PoolRec
  BY <1>1
<1>4. \A j \in DOMAIN pools' : ~pools'[j].fresh =>
        j \in DOMAIN pools /\ ~pools[j].fresh /\ pools'[j].limit = pools[j].limit
  OBVIOUS
<1>. QED
  BY <1>2, <1>3, <1>4, PoolsInUse

\* Clients move a pool's counts and never its limit.
LEMMA UseKeeps ==
  ASSUME SharesInv, NEW k \in Pools,
         \/ AcquireFrom(k)
         \/ /\ k \in DOMAIN pools
            /\ WaiterServed(k) \/ WaiterLeaves(k) \/ ReleaseTo(k) \/ \E ok \in BOOLEAN : ConnectEnds(k, ok)
  PROVE  SharesInv'
<1>0. DOMAIN pools \subseteq Pools /\ \A j \in DOMAIN pools : pools[j] \in PoolRec
  BY DEF SharesInv, SharesTypeOK, PoolRec
<1>1. CASE AcquireFrom(k)
  <2>. DEFINE p == With(k)[k]
              answer == IF p.idle > 0 THEN [p EXCEPT !.idle = @ - 1, !.active = @ + 1]
                        ELSE IF PoolTotal(p) < p.limit THEN [p EXCEPT !.opening = @ + 1]
                        ELSE [p EXCEPT !.waiting = @ + 1]
  <2>1. NewPool \in PoolRec /\ NewPool.fresh
    BY SharesAssumption, SMT DEF NewPool, PoolRec
  <2>2. p = IF k \in DOMAIN pools THEN pools[k] ELSE NewPool
    BY DEF With
  <2>3. p \in PoolRec /\ (~p.fresh => k \in DOMAIN pools /\ p = pools[k])
    BY <1>0, <2>1, <2>2
  <2>4. pools' = [With(k) EXCEPT ![k] = answer]
    BY <1>1 DEF AcquireFrom
  <2>5. pools' = [j \in DOMAIN pools \cup {k} |-> IF j = k THEN answer ELSE pools[j]]
    <3>. HIDE DEF answer
    <3>. QED  BY <2>4 DEF With
  <2>. HIDE DEF p
  <2>6. answer \in PoolRec /\ answer.fresh = p.fresh /\ answer.limit = p.limit
    <3>1. CASE p.idle > 0
      <4>1. answer = [p EXCEPT !.idle = @ - 1, !.active = @ + 1]
        BY <3>1
      <4>2. p.idle - 1 \in Nat /\ p.active + 1 \in Nat
        BY <2>3, <3>1, SMT DEF PoolRec
      <4>. HIDE DEF answer
      <4>. QED  BY <2>3, <4>1, <4>2, Zenon DEF PoolRec
    <3>2. CASE ~(p.idle > 0) /\ PoolTotal(p) < p.limit
      <4>1. answer = [p EXCEPT !.opening = @ + 1]
        BY <3>2
      <4>2. p.opening + 1 \in Nat
        BY <2>3, SMT DEF PoolRec
      <4>. HIDE DEF answer
      <4>. QED  BY <2>3, <4>1, <4>2, Zenon DEF PoolRec
    <3>3. CASE ~(p.idle > 0) /\ ~(PoolTotal(p) < p.limit)
      <4>1. answer = [p EXCEPT !.waiting = @ + 1]
        BY <3>3
      <4>2. p.waiting + 1 \in Nat
        BY <2>3, SMT DEF PoolRec
      <4>. HIDE DEF answer
      <4>. QED  BY <2>3, <4>1, <4>2, Zenon DEF PoolRec
    <3>. QED  BY <3>1, <3>2, <3>3
  <2>. HIDE DEF answer
  <2>7. UNCHANGED <<entitled, declared, pass, applied>>
    BY <1>1 DEF AcquireFrom
  <2>. QED  BY <2>3, <2>5, <2>6, <2>7, OnePool
<1>2. ASSUME k \in DOMAIN pools, NEW p, p \in PoolRec, p.fresh = pools[k].fresh, p.limit = pools[k].limit,
             pools' = [pools EXCEPT ![k] = p], UNCHANGED <<entitled, declared, pass, applied>>
      PROVE  SharesInv'
  <2>1. pools' = [j \in DOMAIN pools \cup {k} |-> IF j = k THEN p ELSE pools[j]]
    BY <1>2
  <2>2. ~p.fresh => k \in DOMAIN pools /\ ~pools[k].fresh /\ p.limit = pools[k].limit
    BY <1>2
  <2>. QED  BY <1>2, <2>1, <2>2, OnePool
<1>3. CASE k \in DOMAIN pools /\ WaiterServed(k)
  <2>. DEFINE p == pools[k]
              a == [p EXCEPT !.waiting = @ - 1, !.idle = @ - 1, !.active = @ + 1]
              b == [p EXCEPT !.waiting = @ - 1, !.opening = @ + 1]
  <2>1. /\ p \in PoolRec /\ p.waiting > 0
        /\ \/ p.idle > 0 /\ pools' = [pools EXCEPT ![k] = a]
           \/ pools' = [pools EXCEPT ![k] = b]
        /\ UNCHANGED <<entitled, declared, pass, applied>>
    BY <1>0, <1>3 DEF WaiterServed
  <2>2. CASE p.idle > 0 /\ pools' = [pools EXCEPT ![k] = a]
    <3>. HIDE DEF p
    <3>0. p.waiting - 1 \in Nat /\ p.idle - 1 \in Nat /\ p.active + 1 \in Nat
      BY <2>1, <2>2, SMT DEF PoolRec
    <3>1. a \in PoolRec /\ a.fresh = p.fresh /\ a.limit = p.limit
      BY <2>1, <3>0, Zenon DEF PoolRec
    <3>. HIDE DEF a
    <3>. QED  BY <1>2, <1>3, <2>1, <2>2, <3>1 DEF p
  <2>3. CASE pools' = [pools EXCEPT ![k] = b]
    <3>. HIDE DEF p
    <3>0. p.waiting - 1 \in Nat /\ p.opening + 1 \in Nat
      BY <2>1, SMT DEF PoolRec
    <3>1. b \in PoolRec /\ b.fresh = p.fresh /\ b.limit = p.limit
      BY <2>1, <3>0, Zenon DEF PoolRec
    <3>. HIDE DEF b
    <3>. QED  BY <1>2, <1>3, <2>1, <2>3, <3>1 DEF p
  <2>. QED  BY <2>1, <2>2, <2>3
<1>4. CASE k \in DOMAIN pools /\ WaiterLeaves(k)
  <2>. DEFINE p == pools[k]
              a == [p EXCEPT !.waiting = @ - 1]
  <2>1. p \in PoolRec /\ p.waiting > 0 /\ pools' = [pools EXCEPT ![k] = a] /\ UNCHANGED <<entitled, declared, pass, applied>>
    BY <1>0, <1>4 DEF WaiterLeaves
  <2>. HIDE DEF p
  <2>2. p.waiting - 1 \in Nat
    BY <2>1, SMT DEF PoolRec
  <2>3. a \in PoolRec /\ a.fresh = p.fresh /\ a.limit = p.limit
    BY <2>1, <2>2, Zenon DEF PoolRec
  <2>. HIDE DEF a
  <2>. QED  BY <1>2, <1>4, <2>1, <2>3 DEF p
<1>5. CASE k \in DOMAIN pools /\ ReleaseTo(k)
  <2>. DEFINE p == pools[k]
              n == IF p.idle + p.opening < p.limit THEN p.idle + 1 ELSE p.idle
              a == [p EXCEPT !.active = @ - 1, !.idle = n]
  <2>1. p \in PoolRec /\ p.active > 0 /\ pools' = [pools EXCEPT ![k] = a] /\ UNCHANGED <<entitled, declared, pass, applied>>
    BY <1>0, <1>5 DEF ReleaseTo
  <2>. HIDE DEF p
  <2>2. p.active - 1 \in Nat /\ n \in Nat
    BY <2>1, SMT DEF PoolRec
  <2>. HIDE DEF n
  <2>3. a \in PoolRec /\ a.fresh = p.fresh /\ a.limit = p.limit
    BY <2>1, <2>2, Zenon DEF PoolRec
  <2>. HIDE DEF a
  <2>. QED  BY <1>2, <1>5, <2>1, <2>3 DEF p
<1>6. ASSUME k \in DOMAIN pools, NEW ok \in BOOLEAN, ConnectEnds(k, ok) PROVE SharesInv'
  <2>. DEFINE p == pools[k]
              n == IF ok THEN p.active + 1 ELSE p.active
              a == [p EXCEPT !.opening = @ - 1, !.active = n]
  <2>1. p \in PoolRec /\ p.opening > 0 /\ pools' = [pools EXCEPT ![k] = a] /\ UNCHANGED <<entitled, declared, pass, applied>>
    BY <1>0, <1>6 DEF ConnectEnds
  <2>. HIDE DEF p
  <2>2. p.opening - 1 \in Nat /\ n \in Nat
    BY <2>1, SMT DEF PoolRec
  <2>. HIDE DEF n
  <2>3. a \in PoolRec /\ a.fresh = p.fresh /\ a.limit = p.limit
    BY <2>1, <2>2, Zenon DEF PoolRec
  <2>. HIDE DEF a
  <2>. QED  BY <1>2, <1>6, <2>1, <2>3 DEF p
<1>. QED
  BY <1>1, <1>3, <1>4, <1>5, <1>6

\* A pool the reaper forgets takes its limit with it.
LEMMA ReapKeeps ==
  ASSUME SharesInv, NEW k \in DOMAIN pools, ReapPool(k)
  PROVE  SharesInv'
<1>. DEFINE left == [pools[k] EXCEPT !.idle = 0]
            gone == IF PoolTotal(left) = 0 /\ left.waiting = 0 THEN {k} ELSE {}
<1>1. DOMAIN pools \subseteq Pools /\ \A j \in DOMAIN pools : pools[j] \in PoolRec
  BY DEF SharesInv, SharesTypeOK, PoolRec
<1>2. left \in PoolRec /\ left.fresh = pools[k].fresh /\ left.limit = pools[k].limit
  <2>. DEFINE p == pools[k]
  <2>1. p \in PoolRec
    BY <1>1
  <2>. HIDE DEF p
  <2>2. [p EXCEPT !.idle = 0] \in PoolRec /\ [p EXCEPT !.idle = 0].fresh = p.fresh /\ [p EXCEPT !.idle = 0].limit = p.limit
    BY <2>1, SMT DEF PoolRec
  <2>. QED  BY <2>2 DEF p
<1>3. pools' = [j \in DOMAIN pools \ gone |-> IF j = k THEN left ELSE pools[j]]
  BY DEF ReapPool
<1>4. entitled' \in Entitlements /\ declared' \in BOOLEAN /\ UNCHANGED <<pass, applied>>
  BY DEF SharesInv, SharesTypeOK, ReapPool
<1>. HIDE DEF left, gone
<1>5. DOMAIN pools' \subseteq Pools /\ \A j \in DOMAIN pools' : pools'[j] \in PoolRec
  BY <1>1, <1>2, <1>3
<1>6. \A j \in DOMAIN pools' : ~pools'[j].fresh =>
        j \in DOMAIN pools /\ ~pools[j].fresh /\ pools'[j].limit = pools[j].limit
  BY <1>2, <1>3
<1>. QED
  BY <1>4, <1>5, <1>6, PoolsInUse

\* Once divided, the allowance covers what is to be set; no older limit stands
\* outside the list.
LEMMA DivideKeeps ==
  ASSUME SharesTypeOK, NEW keys \in Seq(Pools), NEW demand \in Seq(Nat), NEW n \in Nat \ {0},
         n = Len(keys), n = Len(demand), \A i, j \in 1..n : keys[i] = keys[j] => i = j,
         Reached \subseteq Listed(keys), NEW allowance \in Nat,
         Divide(keys, demand, allowance), UNCHANGED <<pools, entitled, declared>>
  PROVE  SharesInv'
<1>. DEFINE shares == SharesAcrossPools(allowance, demand)
<1>1. keys \in [1..n -> Pools]
  BY LenProperties
<1>2. /\ shares \in [1..n -> Nat]
      /\ FitInto(shares, keys, allowance, n)
  BY <1>1, SharesFit
<1>3. pass'.at = "setting" /\ pass'.keys = keys /\ pass'.shares = shares /\ applied' = allowance
  BY DEF Divide
<1>. HIDE DEF shares
<1>4. shares \in Seq(Nat) /\ Len(shares) = n
  BY <1>2, FunctionIsSeq
<1>5. SharesTypeOK'
  <2>1. applied' \in Nat /\ pass'.at \in {"rest", "asking", "setting"}
    BY <1>3
  <2>. QED  BY <2>1 DEF SharesTypeOK
<1>6. pass' \in PassRec /\ Len(pass'.keys) = n /\ n # 0
  <2>1. pass' = [at |-> "setting", keys |-> keys, demand |-> <<>>, allowance |-> 0, shares |-> shares]
    BY DEF Divide, shares
  <2>2. <<>> \in Seq(Nat)
    BY EmptySeq
  <2>3. 0 \in Nat
    BY SMT
  <2>4. pass' \in PassRec
    BY <1>4, <2>1, <2>2, <2>3, Zenon DEF PassRec
  <2>. QED  BY <1>3, <2>4
<1>7. Reached' = Reached
  BY DEF Reached
<1>8. PICK g \in [Pools -> Nat] : Within(g, allowance) /\ \A i \in 1..n : shares[i] = g[keys[i]]
  BY <1>2 DEF FitInto
<1>9. Divides(g)'
  <2>1. Within(g, applied)'
    BY <1>3, <1>8 DEF Within
  <2>2. Reached' \ Listed(pass'.keys) = {}
    BY <1>3, <1>7
  <2>3. \A i \in 1..Len(pass'.keys) : pass'.shares[i] = g[pass'.keys[i]]
    BY <1>3, <1>8
  <2>. QED  BY <1>3, <1>4, <2>1, <2>2, <2>3 DEF Divides
<1>. QED
  BY <1>3, <1>5, <1>6, <1>9 DEF SharesInv

\* The list a pass begins with names every pool once.
LEMMA BeginKeeps == ASSUME SharesInv, PassBegins PROVE SharesInv'
<1>. DEFINE S == DOMAIN pools
            keys == Sorted(S)
            demand == [i \in DOMAIN keys |-> Demand(pools[keys[i]])]
            held == SumOf(demand, DOMAIN demand)
            n == Cardinality(S)
<1>1. S \in SUBSET Nat /\ S \in SUBSET Pools /\ IsFiniteSet(S)
  BY SharesAssumption, FS_Subset DEF SharesInv, SharesTypeOK
<1>2. /\ n \in Nat /\ keys \in [1..n -> S]
      /\ \A i, j \in 1..n : keys[i] = keys[j] => i = j
      /\ \A k \in S : \E i \in 1..n : keys[i] = k
  BY <1>1, SortedLists
<1>3. \A k \in S : Demand(pools[k]) \in Nat
  <2>1. \A k \in S : pools[k] \in PoolRec
    BY DEF SharesInv, SharesTypeOK, PoolRec
  <2>2. \A p \in PoolRec : Demand(p) \in Nat
    BY SMT DEF PoolRec, Demand
  <2>. QED  BY <2>1, <2>2
<1>4. /\ pass.at = "rest" /\ keys # <<>>
      /\ IF ~declared THEN Divide(keys, demand, 0)
         ELSE IF WantsMore(held, entitled)
         THEN pass' = [at |-> "asking", keys |-> keys, demand |-> demand, allowance |-> entitled, shares |-> <<>>]
              /\ UNCHANGED applied
         ELSE Divide(keys, demand, entitled)
      /\ UNCHANGED <<pools, entitled, declared>>
  BY DEF PassBegins
<1>. HIDE DEF keys, held, n
<1>5. DOMAIN keys = 1..n /\ demand \in [1..n -> Nat]
  BY <1>2, <1>3
<1>6. Reached \subseteq Listed(keys) /\ Len(keys) = n /\ keys \in Seq(Pools)
  <2>1. Len(keys) = n /\ keys \in Seq(Pools)
    <3>. HIDE DEF S
    <3>1. keys \in [1..n -> Pools]
      BY <1>1, <1>2
    <3>. QED  BY <1>2, <3>1, FunctionIsSeq
  <2>2. Reached \subseteq S
    BY DEF Reached
  <2>. HIDE DEF S
  <2>. QED  BY <1>2, <2>1, <2>2 DEF Listed
<1>. HIDE DEF demand
<1>7. demand \in Seq(Nat) /\ Len(demand) = n
  BY <1>2, <1>5, FunctionIsSeq
<1>8. n \in Nat \ {0}
  BY <1>2, <1>4, <1>6, SMT
<1>9. SharesTypeOK /\ entitled \in Nat /\ 0 \in Nat
  BY SharesAssumption DEF SharesInv, SharesTypeOK
<1>. HIDE DEF S
<1>10. ASSUME NEW a \in Nat, Divide(keys, demand, a) PROVE SharesInv'
  BY <1>2, <1>4, <1>6, <1>7, <1>8, <1>9, <1>10, DivideKeeps
<1>11. CASE /\ pass' = [at |-> "asking", keys |-> keys, demand |-> demand, allowance |-> entitled, shares |-> <<>>]
            /\ UNCHANGED applied
  <2>1. /\ pass'.at = "asking" /\ pass'.keys = keys /\ pass'.demand = demand /\ pass'.allowance = entitled
        /\ pools' = pools /\ entitled' = entitled /\ declared' = declared /\ applied' = applied
    BY <1>4, <1>11
  <2>2. SharesTypeOK'
    BY <1>9, <2>1 DEF SharesTypeOK
  <2>3. Reached' = Reached
    BY <2>1 DEF Reached
  <2>4. ListIsWhole'
    BY <1>2, <1>6, <1>7, <1>8, <1>9, <2>1, <2>3 DEF ListIsWhole
  <2>5. pass' \in PassRec
    <3>1. <<>> \in Seq(Nat)
      BY EmptySeq
    <3>. QED  BY <1>6, <1>7, <1>9, <1>11, <3>1 DEF PassRec
  <2>. QED  BY <2>1, <2>2, <2>4, <2>5 DEF SharesInv
<1>. QED
  BY <1>4, <1>9, <1>10, <1>11

\* The leader's answer decides which allowance is divided.
LEMMA AnswerKeeps ==
  ASSUME SharesInv, NEW granted \in BOOLEAN, LeaderAnswers(granted)
  PROVE  SharesInv'
<1>. DEFINE allowance == IF granted THEN entitled ELSE pass.allowance
<1>1. ListIsWhole /\ SharesTypeOK /\ pass.keys \in Seq(Pools) /\ pass.demand \in Seq(Nat) /\ pass.allowance \in Nat
  BY DEF SharesInv, LeaderAnswers, PassRec
<1>2. allowance \in Nat
  BY <1>1, SharesAssumption DEF SharesTypeOK
<1>3. Divide(pass.keys, pass.demand, allowance) /\ UNCHANGED <<pools, entitled, declared>>
  BY DEF LeaderAnswers
<1>. HIDE DEF allowance
<1>. QED
  BY <1>1, <1>2, <1>3, DivideKeeps DEF ListIsWhole

\* The clamp of `set_limit`.
LEMMA LesserOf ==
  ASSUME NEW a \in Nat, NEW b \in Nat
  PROVE  Min({a, b}) \in 0..a /\ Min({a, b}) <= b
<1>1. \E x \in {a, b} : \A y \in {a, b} : x =< y
  BY SMT
<1>2. Min({a, b}) \in {a, b} /\ \A y \in {a, b} : Min({a, b}) =< y
  BY <1>1 DEF Min
<1>. QED
  BY <1>2, SMT

\* A limit that is set is within its share, though the pool be new.
LEMMA SetKeeps == ASSUME SharesInv, SetNextLimit PROVE SharesInv'
<1>. DEFINE k == Head(pass.keys)
            lim == Min({PoolMax, Head(pass.shares)})
            p == [With(k)[k] EXCEPT !.limit = lim, !.fresh = FALSE]
            keys == pass.keys
            shares == pass.shares
            n == Len(pass.keys)
<1>1. /\ pass.at = "setting" /\ SharesTypeOK /\ UNCHANGED <<entitled, declared, applied>>
      /\ pass' = IF n = 1 THEN Resting ELSE [pass EXCEPT !.keys = Tail(@), !.shares = Tail(@)]
  BY DEF SetNextLimit, SharesInv
<1>3. PICK g : Divides(g)
  BY <1>1 DEF SharesInv
<1>2. /\ pass \in PassRec /\ keys \in Seq(Pools) /\ shares \in Seq(Nat) /\ Len(shares) = n /\ n # 0
  BY <1>1, <1>3 DEF SharesInv, PassRec, Divides
<1>. DEFINE rest == Tail(keys)
            due == Tail(shares)
<1>4. /\ n \in Nat \ {0} /\ k = keys[1] /\ k \in Pools /\ Head(shares) = shares[1] /\ shares[1] \in Nat
      /\ rest \in Seq(Pools) /\ due \in Seq(Nat) /\ Len(rest) = n - 1 /\ Len(due) = n - 1
      /\ \A i \in 1..(n - 1) : rest[i] = keys[i + 1] /\ due[i] = shares[i + 1]
  BY <1>2, SMT
<1>5. /\ g \in [Pools -> Nat] /\ Within(g, applied)
      /\ \A j \in Reached \ Listed(keys) : pools[j].limit <= g[j]
      /\ \A i \in 1..n : shares[i] = g[keys[i]]
  BY <1>3 DEF Divides
<1>6. lim \in 0..PoolMax /\ lim <= g[k]
  <2>1. lim \in 0..PoolMax /\ lim <= Head(shares)
    BY <1>4, SharesAssumption, LesserOf
  <2>2. Head(shares) = g[k]
    <3>1. 1 \in 1..n
      BY <1>4, SMT
    <3>. QED  BY <1>4, <1>5, <3>1
  <2>. QED  BY <2>1, <2>2
<1>7. \A j \in DOMAIN pools : j \in Pools /\ pools[j] \in PoolRec
  BY <1>1 DEF SharesTypeOK, PoolRec
<1>8. p \in PoolRec /\ p.limit = lim
  <2>1. NewPool \in PoolRec
    BY SharesAssumption, SMT DEF NewPool, PoolRec
  <2>2. With(k)[k] = IF k \in DOMAIN pools THEN pools[k] ELSE NewPool
    BY DEF With
  <2>3. With(k)[k] \in PoolRec
    BY <1>7, <2>1, <2>2
  <2>. HIDE DEF k, lim
  <2>. QED  BY <1>6, <2>3, Zenon DEF PoolRec
<1>9. pools' = [j \in DOMAIN pools \cup {k} |-> IF j = k THEN p ELSE pools[j]]
  <2>1. pools' = [With(k) EXCEPT ![k] = p]
    BY DEF SetNextLimit
  <2>. HIDE DEF p, k
  <2>. QED  BY <2>1 DEF With
<1>. HIDE DEF p, lim, k, keys, shares, n, rest, due
<1>10. ASSUME NEW ks, NEW ss, pass'.keys = ks, pass'.shares = ss, ks \in Seq(Pools), ss \in Seq(Nat),
              Len(ks) = n - 1, Len(ss) = n - 1, \A i \in 1..(n - 1) : ks[i] = keys[i + 1] /\ ss[i] = shares[i + 1]
       PROVE  Divides(g)'
  <2>2. Listed(keys) \subseteq Listed(ks) \cup {k}
    <3>1. ASSUME NEW i \in 1..n PROVE keys[i] \in Listed(ks) \cup {k}
      <4>1. CASE i = 1
        BY <1>4, <4>1
      <4>2. CASE i # 1
        <5>1. i - 1 \in 1..(n - 1) /\ (i - 1) + 1 = i
          BY <1>4, <4>2, SMT
        <5>2. keys[i] = ks[i - 1]
          BY <1>10, <5>1
        <5>. QED  BY <1>10, <5>1, <5>2 DEF Listed
      <4>. QED  BY <4>1, <4>2
    <3>. QED  BY <3>1 DEF Listed, n, keys
  <2>3. \A j \in Reached' \ Listed(ks) : pools'[j].limit <= g[j]
    <3>1. ASSUME NEW j \in Reached', j \notin Listed(ks) PROVE pools'[j].limit <= g[j]
      <4>1. CASE j = k
        BY <1>6, <1>8, <1>9, <4>1
      <4>2. CASE j # k
        <5>1. j \in Reached /\ pools'[j] = pools[j]
          BY <1>9, <4>2 DEF Reached
        <5>. QED  BY <1>5, <2>2, <3>1, <4>2, <5>1
      <4>. QED  BY <4>1, <4>2
    <3>. QED  BY <3>1
  <2>4. \A i \in 1..(n - 1) : ss[i] = g[ks[i]]
    <3>1. ASSUME NEW i \in 1..(n - 1) PROVE ss[i] = g[ks[i]]
      <4>1. i + 1 \in 1..n
        BY <1>4, SMT
      <4>. QED  BY <1>5, <1>10, <4>1
    <3>. QED  BY <3>1
  <2>. QED  BY <1>1, <1>5, <1>10, <2>3, <2>4 DEF Divides, Within
<1>11. \A j \in DOMAIN pools' : j \in Pools /\ pools'[j] \in PoolRec
  BY <1>4, <1>7, <1>8, <1>9
<1>12. ASSUME pass'.at \in {"rest", "setting"} PROVE SharesTypeOK'
  BY <1>1, <1>11, <1>12 DEF SharesTypeOK, PoolRec
<1>13. CASE n = 1
  <2>1. pass' = Resting /\ pass'.at = "rest" /\ pass'.keys = <<>> /\ pass'.shares = <<>>
    BY <1>1, <1>13 DEF Resting
  <2>2. <<>> \in Seq(Pools) /\ <<>> \in Seq(Nat) /\ Len(<<>>) = n - 1 /\ 1..(n - 1) = {}
    BY <1>13, SMT
  <2>3. Divides(g)'
    BY <1>10, <2>1, <2>2
  <2>4. pass' \in PassRec
    BY <2>1, <2>2 DEF PassRec, Resting
  <2>. QED  BY <1>12, <2>1, <2>3, <2>4 DEF SharesInv
<1>14. CASE n # 1
  <2>1. pass'.at = "setting" /\ pass'.keys = rest /\ pass'.shares = due /\ pass' \in PassRec
    <3>1. pass' = [pass EXCEPT !.keys = rest, !.shares = due]
      BY <1>1, <1>14 DEF rest, due, keys, shares
    <3>. QED  BY <1>1, <1>2, <1>4, <3>1, Zenon DEF PassRec
  <2>2. Divides(g)'
    BY <1>4, <1>10, <2>1
  <2>3. Len(pass'.keys) # 0
    BY <1>4, <1>14, <2>1, SMT
  <2>. QED  BY <1>12, <2>1, <2>2, <2>3 DEF SharesInv
<1>. QED
  BY <1>13, <1>14

\* Between passes, the limits a pass has set add up to no more than the allowance
\* it divided (run.rs:359-360, "the sum is never more than the allowance"),
\* however many pools there are and whatever happens to them during the pass.
THEOREM LimitsAlwaysFitTheAllowance == SharesSpec => []LimitsFitTheAllowance
<1>1. SharesInv /\ [SharesNext]_shareVars => SharesInv'
  <2>. SUFFICES ASSUME SharesInv, [SharesNext]_shareVars PROVE SharesInv'
    OBVIOUS
  <2>0. DOMAIN pools \subseteq Pools /\ \A k \in DOMAIN pools : pools[k] \in PoolRec
    BY DEF SharesInv, SharesTypeOK, PoolRec
  <2>1. ASSUME NEW k \in Pools, AcquireFrom(k) PROVE SharesInv'
    BY <2>1, UseKeeps
  <2>2. ASSUME NEW k \in DOMAIN pools,
               WaiterServed(k) \/ WaiterLeaves(k) \/ ReleaseTo(k) \/ \E ok \in BOOLEAN : ConnectEnds(k, ok)
        PROVE  SharesInv'
    BY <2>0, <2>2, UseKeeps
  <2>3. ASSUME NEW k \in DOMAIN pools, ReapPool(k) PROVE SharesInv'
    BY <2>3, ReapKeeps
  <2>4. ASSUME NEW n \in Entitlements, EntitlementMoves(n) PROVE SharesInv'
    <3>1. /\ pools' = pools /\ entitled' \in Entitlements /\ declared' = declared /\ declared \in BOOLEAN
          /\ UNCHANGED <<pass, applied>>
      BY <2>4 DEF EntitlementMoves, SharesInv, SharesTypeOK
    <3>. QED  BY <2>0, <3>1, PoolsInUse
  <2>5. CASE Reloaded
    <3>1. /\ pools' = pools /\ entitled' \in Entitlements /\ declared' \in BOOLEAN
          /\ UNCHANGED <<pass, applied>>
      BY <2>5 DEF Reloaded, SharesInv, SharesTypeOK
    <3>. QED  BY <2>0, <3>1, PoolsInUse
  <2>6. CASE UNCHANGED shareVars
    <3>1. /\ pools' = pools /\ entitled' \in Entitlements /\ declared' \in BOOLEAN
          /\ UNCHANGED <<pass, applied>>
      BY <2>6 DEF shareVars, SharesInv, SharesTypeOK
    <3>. QED  BY <2>0, <3>1, PoolsInUse
  <2>. QED
    BY <2>1, <2>2, <2>3, <2>4, <2>5, <2>6, BeginKeeps, AnswerKeeps, SetKeeps DEF SharesNext
<1>2. SharesInv => LimitsFitTheAllowance
  <2>. SUFFICES ASSUME SharesInv, pass.at = "rest"
                PROVE  SumOf([k \in Reached |-> pools[k].limit], Reached) <= applied
    BY DEF LimitsFitTheAllowance
  <2>. DEFINE f == [k \in Reached |-> pools[k].limit]
  <2>1. PICK g : Divides(g)
    BY DEF SharesInv
  <2>2. Listed(pass.keys) = {}
    <3>1. pass.keys = <<>>
      BY DEF SharesInv, Resting
    <3>2. 1..Len(pass.keys) = {}
      BY <3>1, SMT
    <3>. QED  BY <3>2 DEF Listed
  <2>3. \A k \in Reached : k \in Pools /\ pools[k].limit \in Nat
    <3>1. \A k \in Reached : k \in Pools /\ pools[k] \in PoolRec
      BY DEF SharesInv, SharesTypeOK, PoolRec, Reached
    <3>2. \A p \in PoolRec : p.limit \in Nat
      BY SharesAssumption, SMT DEF PoolRec
    <3>. QED  BY <3>1, <3>2
  <2>4. \A k \in Reached : f[k] \in Nat /\ f[k] <= g[k]
    BY <2>1, <2>2, <2>3 DEF Divides
  <2>5. g \in [Pools -> Nat] /\ Within(g, applied) /\ Reached \in SUBSET Pools
    BY <2>1, <2>3 DEF Divides
  <2>. HIDE DEF f
  <2>6. SumOf(f, Reached) <= SumOf(g, Pools) /\ SumOf(g, Pools) <= applied
    BY <2>4, <2>5, SumMonotone DEF Within
  <2>7. SumOf(f, Reached) \in Nat /\ SumOf(g, Pools) \in Nat /\ applied \in Nat
    BY <2>4, <2>5, SumMonotone, FS_CardinalityType DEF SumOf, SharesInv, SharesTypeOK, Within
  <2>8. SumOf(f, Reached) <= applied
    BY <2>6, <2>7, SMT
  <2>. QED  BY <2>8 DEF f
<1>. QED
  BY <1>1, <1>2, SharesStart, PTL DEF SharesSpec
=============================================================================
