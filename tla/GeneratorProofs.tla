---- MODULE GeneratorProofs ----
(***************************************************************************)
(* What the generator and its validation guarantee for every agent, every  *)
(* answer and every bound: the fixtures of the mock server (Fixtures) and  *)
(* the map, the plan and the dataset (Authoring).                          *)
(*                                                                         *)
(* Both rest on facts about lists that no library states: the order of a   *)
(* finite set, the part of a list at some of its places, lists of lists,   *)
(* and sums, which are followed from one addend to the next because a      *)
(* recursive function can only be unfolded.  What the code appends to is   *)
(* then the first case of each induction, and one more addend the step.    *)
(***************************************************************************)
EXTENDS Fixtures, Authoring, FiniteSetTheorems, WellFoundedInduction, TLAPS

----------------------------------------------------------------------------
(* Numbers, the order of finite sets, the parts and sums of lists *)

\* A set of numbers has a least one: the intervals below its members are finite sets, and
\* those are well-founded.
LEMMA LeastNumber ==
  ASSUME NEW T \in SUBSET Nat, T # {}
  PROVE  \E n \in T : \A m \in T : n <= m
  <1> DEFINE U == {0..n : n \in T}
  <1>1. U \in SUBSET FiniteSubsetsOf(Nat)
    <2> SUFFICES ASSUME NEW n \in T PROVE 0..n \in FiniteSubsetsOf(Nat)
      OBVIOUS
    <2>1. IsFiniteSet(0..n)
      BY FS_Interval
    <2> QED BY <2>1 DEF FiniteSubsetsOf
  <1>2. U # {}
    OBVIOUS
  <1>3. IsWellFoundedOn(StrictSubsetOrdering(Nat), FiniteSubsetsOf(Nat))
    BY FS_StrictSubsetOrderingWellFounded
  <1>4. PICK x \in U : \A y \in U : ~(<<y, x>> \in StrictSubsetOrdering(Nat))
    <2> HIDE DEF U
    <2> QED BY <1>1, <1>2, <1>3, WFMin
  <1>5. PICK n \in T : x = 0..n
    OBVIOUS
  <1>6. ASSUME NEW m \in T, ~(n <= m) PROVE FALSE
    <2>1. m \in Nat /\ n \in Nat /\ m < n
      BY <1>6
    <2>2. 0..m \subseteq 0..n /\ 0..m # 0..n
      BY <2>1
    <2>3. <<0..m, 0..n>> \in StrictSubsetOrdering(Nat)
      BY <2>1, <2>2 DEF StrictSubsetOrdering
    <2> QED BY <1>4, <1>5, <2>3
  <1> QED BY <1>6

\* A set that holds 0 and the successors of its members up to k holds all numbers up to k.
LEMMA UpTo ==
  ASSUME NEW k \in Nat, NEW T, 0 \in T, \A n \in 0..k : n < k /\ n \in T => n + 1 \in T
  PROVE  0..k \subseteq T
  <1> DEFINE Left == {n \in 0..k : n \notin T}
  <1>1. Left \in SUBSET Nat
    OBVIOUS
  <1>2. ASSUME Left # {} PROVE FALSE
    <2>1. PICK n \in Left : \A m \in Left : n <= m
      <3> HIDE DEF Left
      <3> QED BY <1>1, <1>2, LeastNumber
    <2>2. n # 0 /\ n - 1 \in 0..k /\ n - 1 < k /\ ~(n <= n - 1)
      OBVIOUS
    <2>3. n - 1 \in T
      BY <2>1, <2>2
    <2>4. (n - 1) + 1 \in T
      BY <2>2, <2>3
    <2> QED BY <2>4
  <1> QED BY <1>2

\* f goes on from each number to the next by the steps it is given.
Steps(f, k, base, step) ==
  \A i \in 0..k : f[i] = IF i = 0 THEN base ELSE step[i][f[i - 1]]

\* There is one.
LEMMA StepByStep ==
  ASSUME NEW k \in Nat, NEW D, NEW base \in D, NEW step \in [1..k -> [D -> D]]
  PROVE  \E f \in [0..k -> D] : Steps(f, k, base, step)
  <1> DEFINE Right(f, n) ==
               \A i \in 0..k : i <= n => f[i] = IF i = 0 THEN base ELSE step[i][f[i - 1]]
             T == {n \in 0..k : \E f \in [0..k -> D] : Right(f, n)}
  <1>1. 0 \in T
    <2>1. Right([i \in 0..k |-> base], 0)
      OBVIOUS
    <2>2. [i \in 0..k |-> base] \in [0..k -> D]
      OBVIOUS
    <2> QED BY <2>1, <2>2
  <1>2. ASSUME NEW n \in 0..k, n < k, n \in T PROVE n + 1 \in T
    <2>1. PICK f \in [0..k -> D] : Right(f, n)
      BY <1>2
    <2> DEFINE g == [i \in 0..k |-> IF i = 0 THEN base ELSE step[i][f[i - 1]]]
    <2>2. g \in [0..k -> D]
      OBVIOUS
    <2>3. \A i \in 0..k : i <= n => g[i] = f[i]
      BY <2>1
    <2>4. ASSUME NEW i \in 0..k, i <= n + 1
          PROVE  g[i] = IF i = 0 THEN base ELSE step[i][g[i - 1]]
      <3>1. CASE i = 0
        BY <3>1
      <3>2. CASE i # 0
        <4>1. i - 1 \in 0..k /\ i - 1 <= n
          BY <2>4, <3>2
        <4>2. g[i - 1] = f[i - 1]
          BY <2>3, <4>1
        <4> QED BY <3>2, <4>2
      <3> QED BY <3>1, <3>2
    <2>5. Right(g, n + 1)
      BY <2>4
    <2>6. n + 1 \in 0..k
      BY <1>2
    <2> HIDE DEF g, Right
    <2> QED BY <2>2, <2>5, <2>6
  <1>3. k \in T
    <2> HIDE DEF T
    <2>1. 0..k \subseteq T
      BY <1>1, <1>2, UpTo
    <2> QED BY <2>1
  <1>4. PICK f \in [0..k -> D] : Right(f, k)
    BY <1>3
  <1>5. Steps(f, k, base, step)
    BY <1>4 DEF Steps
  <1> QED BY <1>5

----------------------------------------------------------------------------
(* The order of a finite set *)

\* R orders S strictly and totally.
Orders(R, S) ==
  /\ \A x \in S : <<x, x>> \notin R
  /\ \A x, y \in S : x # y => <<x, y>> \in R \/ <<y, x>> \in R
  /\ \A x, y, z \in S : <<x, y>> \in R /\ <<y, z>> \in R => <<x, z>> \in R

\* Ranked lists every member of a finite set once, in the order it is given.
LEMMA RankedInOrder ==
  ASSUME NEW S, IsFiniteSet(S), NEW R, Orders(R, S)
  PROVE  /\ Cardinality(S) \in Nat
         /\ Ranked(S, R) \in [1..Cardinality(S) -> S]
         /\ \A x \in S : \E k \in 1..Cardinality(S) : Ranked(S, R)[k] = x
         /\ \A i, j \in 1..Cardinality(S) : i < j => <<Ranked(S, R)[i], Ranked(S, R)[j]>> \in R
  <1> DEFINE Before(x) == {y \in S : <<y, x>> \in R}
             rank == [x \in S |-> Cardinality(Before(x)) + 1]
             N == Cardinality(S)
  <1>1. N \in Nat
    BY FS_CardinalityType
  <1>2. ASSUME NEW x \in S
        PROVE  IsFiniteSet(Before(x)) /\ Cardinality(Before(x)) \in Nat /\ Cardinality(Before(x)) < N
    <2>1. Before(x) \in SUBSET S /\ x \notin Before(x)
      BY DEF Orders
    <2> HIDE DEF Before
    <2>2. IsFiniteSet(Before(x)) /\ Cardinality(Before(x)) <= N /\ (N = Cardinality(Before(x)) => S = Before(x))
      BY <2>1, FS_Subset
    <2>3. Cardinality(Before(x)) \in Nat
      BY <2>2, FS_CardinalityType
    <2> QED BY <1>1, <2>1, <2>2, <2>3
  <1>3. ASSUME NEW x \in S, NEW y \in S, <<x, y>> \in R
        PROVE  Cardinality(Before(x)) < Cardinality(Before(y))
    <2>1. Before(x) \in SUBSET Before(y) /\ x \in Before(y) /\ x \notin Before(x)
      BY <1>3 DEF Orders
    <2>2. IsFiniteSet(Before(y)) /\ Cardinality(Before(x)) \in Nat /\ Cardinality(Before(y)) \in Nat
      BY <1>2
    <2> HIDE DEF Before
    <2>3. /\ Cardinality(Before(x)) <= Cardinality(Before(y))
          /\ Cardinality(Before(y)) = Cardinality(Before(x)) => Before(y) = Before(x)
      BY <2>1, <2>2, FS_Subset
    <2> QED BY <2>1, <2>2, <2>3
  <1>4. rank \in [S -> 1..N]
    <2>1. ASSUME NEW x \in S PROVE Cardinality(Before(x)) + 1 \in 1..N
      BY <1>1, <1>2
    <2> HIDE DEF Before
    <2> QED BY <2>1
  <1>5. ASSUME NEW x \in S, NEW y \in S, rank[x] = rank[y] PROVE x = y
    <2>1. Cardinality(Before(x)) = Cardinality(Before(y))
      <3>1. Cardinality(Before(x)) \in Nat /\ Cardinality(Before(y)) \in Nat
        BY <1>2
      <3>2. Cardinality(Before(x)) + 1 = Cardinality(Before(y)) + 1
        BY <1>5
      <3> QED BY <3>1, <3>2
    <2>2. Cardinality(Before(x)) \in Nat /\ Cardinality(Before(y)) \in Nat
      BY <1>2
    <2>3. ~(Cardinality(Before(x)) < Cardinality(Before(y))) /\ ~(Cardinality(Before(y)) < Cardinality(Before(x)))
      BY <2>1, <2>2
    <2>4. <<x, y>> \notin R /\ <<y, x>> \notin R
      <3> HIDE DEF Before
      <3> QED BY <1>3, <2>3
    <2> QED BY <2>4 DEF Orders
  <1>6. \A k \in 1..N : \E x \in S : rank[x] = k
    <2> HIDE DEF rank
    <2>1. rank \in Injection(S, 1..N)
      BY <1>4, <1>5 DEF Injection, IsInjective
    <2>2. IsFiniteSet(1..N) /\ Cardinality(1..N) = N
      BY <1>1, FS_Interval
    <2>3. rank \in Surjection(S, 1..N)
      BY <2>1, <2>2, FS_Injection
    <2> QED BY <2>3 DEF Surjection
  <1> DEFINE r == Ranked(S, R)
  <1>7. ASSUME NEW k \in 1..N PROVE r[k] \in S /\ rank[r[k]] = k
    <2>1. PICK x \in S : rank[x] = k
      BY <1>6
    <2>2. Cardinality(Before(x)) = k - 1
      <3>1. Cardinality(Before(x)) \in Nat /\ Cardinality(Before(x)) + 1 = k
        BY <1>2, <2>1
      <3> QED BY <3>1
    <2>3. r[k] = CHOOSE z \in S : Cardinality(Before(z)) = k - 1
      BY DEF Ranked
    <2>4. r[k] \in S /\ Cardinality(Before(r[k])) = k - 1
      <3> HIDE DEF Before, r
      <3> QED BY <2>1, <2>2, <2>3
    <2> HIDE DEF Before, r
    <2> QED BY <2>4
  <1>8. r \in [1..N -> S]
    <2> DEFINE Nth(k) == CHOOSE x \in S : Cardinality({y \in S : <<y, x>> \in R}) = k - 1
    <2>1. r = [k \in 1..N |-> r[k]]
      <3>1. r = [k \in 1..N |-> Nth(k)]
        BY DEF Ranked
      <3> HIDE DEF Nth, r
      <3> QED BY <3>1
    <2> HIDE DEF r, rank
    <2> QED BY <1>7, <2>1
  <1>9. ASSUME NEW x \in S PROVE \E k \in 1..N : r[k] = x
    <2>1. rank[x] \in 1..N
      BY <1>4
    <2> HIDE DEF r, rank
    <2> QED BY <1>5, <1>7, <2>1
  <1>10. ASSUME NEW i \in 1..N, NEW j \in 1..N, i < j PROVE <<r[i], r[j]>> \in R
    <2>1. r[i] \in S /\ r[j] \in S /\ rank[r[i]] = i /\ rank[r[j]] = j
      BY <1>7
    <2> HIDE DEF r
    <2>2. Cardinality(Before(r[i])) + 1 = i /\ Cardinality(Before(r[j])) + 1 = j
      BY <2>1
    <2>3. Cardinality(Before(r[i])) \in Nat /\ Cardinality(Before(r[j])) \in Nat
      BY <1>2, <2>1
    <2>4. Cardinality(Before(r[i])) < Cardinality(Before(r[j]))
      BY <1>10, <2>2, <2>3
    <2>5. <<r[j], r[i]>> \notin R
      <3>1. ~(Cardinality(Before(r[j])) < Cardinality(Before(r[i])))
        BY <2>3, <2>4
      <3> HIDE DEF Before
      <3> QED BY <1>3, <2>1, <3>1
    <2>6. r[i] # r[j]
      BY <1>10, <2>1
    <2> QED BY <2>1, <2>5, <2>6 DEF Orders
  <1> HIDE DEF rank
  <1> QED
    <2> HIDE DEF r, N
    <2>1. \A i, j \in 1..N : i < j => <<r[i], r[j]>> \in R
      BY <1>10
    <2>2. \A x \in S : \E k \in 1..N : r[k] = x
      BY <1>9
    <2> QED BY <1>1, <1>8, <2>1, <2>2 DEF r, N

\* The places of a list are taken in ascending order, each once.
LEMMA AscendingInOrder ==
  ASSUME NEW P \in SUBSET Int, IsFiniteSet(P)
  PROVE  /\ Cardinality(P) \in Nat
         /\ Ascending(P) \in [1..Cardinality(P) -> P]
         /\ \A x \in P : \E k \in 1..Cardinality(P) : Ascending(P)[k] = x
         /\ \A i, j \in 1..Cardinality(P) : i < j => Ascending(P)[i] < Ascending(P)[j]
  <1> DEFINE R == {p \in P \X P : p[1] < p[2]}
  <1>1. \A x, y \in P : <<x, y>> \in R <=> x < y
    OBVIOUS
  <1>2. Orders(R, P)
    <2> HIDE DEF R
    <2> QED BY <1>1 DEF Orders
  <1>3. Ascending(P) = Ranked(P, R)
    BY DEF Ascending
  <1> HIDE DEF R
  <1>4. /\ Cardinality(P) \in Nat
        /\ Ranked(P, R) \in [1..Cardinality(P) -> P]
        /\ \A x \in P : \E k \in 1..Cardinality(P) : Ranked(P, R)[k] = x
        /\ \A i, j \in 1..Cardinality(P) : i < j => <<Ranked(P, R)[i], Ranked(P, R)[j]>> \in R
    BY <1>2, RankedInOrder
  <1>5. ASSUME NEW i \in 1..Cardinality(P), NEW j \in 1..Cardinality(P), i < j
        PROVE  Ranked(P, R)[i] < Ranked(P, R)[j]
    <2>1. Ranked(P, R)[i] \in P /\ Ranked(P, R)[j] \in P /\ <<Ranked(P, R)[i], Ranked(P, R)[j]>> \in R
      BY <1>4, <1>5
    <2> QED BY <1>1, <2>1
  <1> QED BY <1>3, <1>4, <1>5

\* A picked list holds what the list holds at the places, each place once and in order.
LEMMA PickedIs ==
  ASSUME NEW P \in SUBSET Int, IsFiniteSet(P), NEW list
  PROVE  /\ Cardinality(P) \in Nat
         /\ DOMAIN Picked(list, P) = 1..Cardinality(P)
         /\ Len(Picked(list, P)) = Cardinality(P)
         /\ \A T : (\A n \in P : list[n] \in T) => Picked(list, P) \in Seq(T)
         /\ \A k \in 1..Cardinality(P) : Ascending(P)[k] \in P /\ Picked(list, P)[k] = list[Ascending(P)[k]]
         /\ \A n \in P : \E k \in 1..Cardinality(P) : Ascending(P)[k] = n /\ Picked(list, P)[k] = list[n]
         /\ \A i, j \in 1..Cardinality(P) : i < j => Ascending(P)[i] < Ascending(P)[j]
  <1> DEFINE N == Cardinality(P)
             a == Ascending(P)
             p == Picked(list, P)
  <1>1. N \in Nat /\ a \in [1..N -> P]
    BY AscendingInOrder
  <1>2. \A x \in P : \E k \in 1..N : a[k] = x
    BY AscendingInOrder
  <1>3. \A i, j \in 1..N : i < j => a[i] < a[j]
    BY AscendingInOrder
  <1>4. p = [k \in 1..N |-> list[a[k]]]
    <2>1. p = [k \in DOMAIN a |-> list[a[k]]]
      BY DEF Picked
    <2> HIDE DEF a, p
    <2> QED BY <1>1, <2>1
  <1> HIDE DEF N, a, p
  <1>5. DOMAIN p = 1..N /\ \A k \in 1..N : p[k] = list[a[k]]
    BY <1>4
  <1>6. ASSUME NEW T, \A n \in P : list[n] \in T PROVE p \in Seq(T)
    <2>1. p \in [1..N -> T]
      BY <1>1, <1>4, <1>6
    <2> QED BY <1>1, <2>1
  <1>7. Len(p) = N
    BY <1>1, <1>4
  <1>8. \A k \in 1..N : a[k] \in P /\ p[k] = list[a[k]]
    BY <1>1, <1>5
  <1>9. \A n \in P : \E k \in 1..N : a[k] = n /\ p[k] = list[n]
    BY <1>2, <1>5
  <1> QED BY <1>1, <1>3, <1>5, <1>6, <1>7, <1>8, <1>9 DEF N, a, p

\* The sum of a list, one element at a time.
LEMMA SumStepwise ==
  ASSUME NEW numbers \in Seq(Nat)
  PROVE  \E u \in [0..Len(numbers) -> Nat] :
           /\ SumOf(numbers) = u[Len(numbers)]
           /\ u[0] = 0
           /\ \A i \in 1..Len(numbers) : u[i] = u[i - 1] + numbers[i]
  <1> DEFINE k == Len(numbers)
             step == [i \in 1..k |-> [d \in Nat |-> d + numbers[i]]]
             Goes(f) == f = [n \in 0..k |-> IF n = 0 THEN 0 ELSE f[n - 1] + numbers[n]]
  <1>1. k \in Nat
    OBVIOUS
  <1>2. step \in [1..k -> [Nat -> Nat]]
    OBVIOUS
  <1>3. PICK h \in [0..k -> Nat] : Steps(h, k, 0, step)
    <2> HIDE DEF step, k
    <2>1. 0 \in Nat
      OBVIOUS
    <2> QED BY <1>1, <1>2, <2>1, StepByStep
  <1>4. ASSUME NEW n \in 0..k PROVE h[n] = IF n = 0 THEN 0 ELSE h[n - 1] + numbers[n]
    <2>1. h[n] = IF n = 0 THEN 0 ELSE step[n][h[n - 1]]
      BY <1>3 DEF Steps
    <2>2. n # 0 => n \in 1..k /\ n - 1 \in 0..k
      OBVIOUS
    <2> QED BY <1>3, <2>1, <2>2
  <1>5. Goes(h)
    <2> HIDE DEF k
    <2> QED BY <1>3, <1>4
  <1>6. \E f : Goes(f)
    BY <1>5
  <1>7. \E f : Goes(f) /\ SumOf(numbers) = f[k]
    <2> DEFINE f == CHOOSE f : Goes(f)
    <2>1. Goes(f)
      <3> HIDE DEF Goes
      <3> QED BY <1>6
    <2>2. SumOf(numbers) = f[k]
      BY Zenon DEF SumOf
    <2> HIDE DEF f
    <2> QED BY <2>1, <2>2
  <1>8. PICK f : Goes(f) /\ SumOf(numbers) = f[k]
    BY <1>7
  <1>9. \A n \in 0..k : f[n] = IF n = 0 THEN 0 ELSE f[n - 1] + numbers[n]
    BY <1>8
  <1> DEFINE T == {n \in 0..k : f[n] \in Nat}
  <1>10. 0 \in T
    BY <1>1, <1>9
  <1>11. ASSUME NEW n \in 0..k, n < k, n \in T PROVE n + 1 \in T
    <2>1. n + 1 \in 0..k /\ n + 1 # 0 /\ (n + 1) - 1 = n /\ n + 1 \in 1..k
      BY <1>1, <1>11
    <2>2. f[n + 1] = f[n] + numbers[n + 1]
      BY <1>9, <2>1
    <2>3. f[n] \in Nat /\ numbers[n + 1] \in Nat
      BY <1>11, <2>1
    <2> QED BY <2>1, <2>2, <2>3
  <1>12. 0..k \subseteq T
    <2> HIDE DEF T, k
    <2> QED BY <1>1, <1>10, <1>11, UpTo
  <1>13. f \in [0..k -> Nat]
    <2>1. f = [n \in 0..k |-> f[n]]
      BY <1>8
    <2> QED BY <1>12, <2>1
  <1>14. \A i \in 1..k : f[i] = f[i - 1] + numbers[i]
    BY <1>9
  <1>15. f[0] = 0
    BY <1>1, <1>9
  <1> HIDE DEF Goes
  <1> QED BY <1>8, <1>13, <1>14, <1>15

----------------------------------------------------------------------------
(* Lists of lists, one behind the other *)

\* off counts the elements of the first k parts.
Counts(off, K, parts) ==
  /\ off \in [0..K -> Nat] /\ off[0] = 0
  /\ \A k \in 1..K : off[k] = off[k - 1] + Len(parts[k])

\* s is the first m parts behind each other.
Holds(s, m, parts, off) ==
  /\ Len(s) = off[m]
  /\ \A k \in 1..m : \A i \in 1..Len(parts[k]) : off[k - 1] + i \in 1..off[m] /\ s[off[k - 1] + i] = parts[k][i]
  /\ \A j \in 1..off[m] : \E k \in 1..m : \E i \in 1..Len(parts[k]) : j = off[k - 1] + i

LEMMA CountsExist ==
  ASSUME NEW D, NEW K \in Nat, NEW parts \in [1..K -> Seq(D)]
  PROVE  \E off : Counts(off, K, parts)
  <1> DEFINE step == [k \in 1..K |-> [d \in Nat |-> d + Len(parts[k])]]
             zero == 0
  <1>1. zero \in Nat /\ step \in [1..K -> [Nat -> Nat]]
    OBVIOUS
  <1> HIDE DEF step, zero
  <1>2. PICK off \in [0..K -> Nat] : Steps(off, K, zero, step)
    BY <1>1, StepByStep
  <1>3. \A k \in 0..K : off[k] = IF k = 0 THEN zero ELSE step[k][off[k - 1]]
    BY <1>2 DEF Steps
  <1>4. \A k \in 1..K : off[k] = off[k - 1] + Len(parts[k])
    <2> SUFFICES ASSUME NEW k \in 1..K PROVE off[k] = off[k - 1] + Len(parts[k])
      OBVIOUS
    <2>1. k \in 0..K /\ k # 0 /\ k - 1 \in 0..K
      OBVIOUS
    <2>2. off[k] = step[k][off[k - 1]] /\ off[k - 1] \in Nat
      BY <1>3, <2>1
    <2> QED BY <2>2 DEF step
  <1>5. off[0] = 0
    BY <1>3 DEF zero
  <1> QED BY <1>4, <1>5 DEF Counts

LEMMA HoldsOneMore ==
  ASSUME NEW D, NEW K \in Nat, NEW parts \in [1..K -> Seq(D)],
         NEW off, Counts(off, K, parts), NEW m \in 0..K, m < K,
         NEW s \in Seq(D), Holds(s, m, parts, off)
  PROVE  s \o parts[m + 1] \in Seq(D) /\ Holds(s \o parts[m + 1], m + 1, parts, off)
  <1> DEFINE t == parts[m + 1]
             u == s \o t
             a == off[m]
             b == off[m + 1]
  <1>1. m + 1 \in 1..K /\ t \in Seq(D) /\ a \in Nat /\ b \in Nat /\ b = a + Len(t)
    <2>1. m + 1 \in 1..K /\ m \in 0..K /\ m + 1 \in 0..K /\ (m + 1) - 1 = m
      OBVIOUS
    <2>2. off[m + 1] = off[(m + 1) - 1] + Len(parts[m + 1])
      BY <2>1 DEF Counts
    <2> QED BY <2>1, <2>2 DEF Counts
  <1>2. Len(s) = a
    BY DEF Holds
  <1>3. /\ \A k \in 1..m : \A i \in 1..Len(parts[k]) : off[k - 1] + i \in 1..a /\ s[off[k - 1] + i] = parts[k][i]
        /\ \A j \in 1..a : \E k \in 1..m : \E i \in 1..Len(parts[k]) : j = off[k - 1] + i
    BY DEF Holds
  <1>4. /\ u \in Seq(D) /\ Len(u) = b
        /\ \A j \in 1..a : u[j] = s[j]
        /\ \A i \in 1..Len(t) : u[a + i] = t[i]
    <2>1. /\ u \in Seq(D) /\ Len(u) = Len(s) + Len(t)
          /\ \A j \in 1..Len(s) : u[j] = s[j]
          /\ \A i \in 1..Len(t) : u[Len(s) + i] = t[i]
      <3>1. t \in Seq(D)
        BY <1>1
      <3> HIDE DEF t
      <3> QED BY <3>1
    <2> HIDE DEF a, b, u, t
    <2> QED BY <1>1, <1>2, <2>1
  <1>5. ASSUME NEW k \in 1..m + 1, NEW i \in 1..Len(parts[k])
        PROVE  off[k - 1] + i \in 1..b /\ u[off[k - 1] + i] = parts[k][i]
    <2>1. CASE k = m + 1
      <3>1. k - 1 = m
        BY <2>1
      <3>2. off[k - 1] = a /\ parts[k] = t
        BY <2>1, <3>1
      <3> HIDE DEF a, b, u, t
      <3>3. i \in 1..Len(t) /\ Len(t) \in Nat
        BY <1>1, <3>2
      <3>4. a + i \in 1..b
        BY <1>1, <3>3
      <3>5. u[a + i] = t[i]
        BY <1>4, <3>3
      <3> QED BY <3>2, <3>4, <3>5
    <2>2. CASE k # m + 1
      <3>1. k \in 1..m
        BY <2>2
      <3> DEFINE j == off[k - 1] + i
      <3> HIDE DEF a, b, u, t
      <3>2. j \in 1..a /\ s[j] = parts[k][i]
        BY <1>3, <3>1
      <3> HIDE DEF j
      <3>3. Len(t) \in Nat
        BY <1>1
      <3>4. j \in 1..b
        BY <1>1, <3>2, <3>3
      <3>5. u[j] = s[j]
        BY <1>4, <3>2
      <3> QED BY <3>2, <3>4, <3>5 DEF j
    <2> QED BY <2>1, <2>2
  <1>6. ASSUME NEW j \in 1..b PROVE \E k \in 1..m + 1 : \E i \in 1..Len(parts[k]) : j = off[k - 1] + i
    <2>1. CASE j <= a
      <3>1. j \in 1..a
        BY <1>1, <2>1
      <3>2. PICK k \in 1..m : \E i \in 1..Len(parts[k]) : j = off[k - 1] + i
        BY <1>3, <3>1
      <3>3. k \in 1..m + 1
        OBVIOUS
      <3> QED BY <3>2, <3>3
    <2>2. CASE j > a
      <3>1. j - a \in 1..Len(t) /\ j = a + (j - a)
        <4> HIDE DEF a, b, t
        <4>1. Len(t) \in Nat
          BY <1>1
        <4> QED BY <1>1, <2>2, <4>1
      <3>2. m + 1 \in 1..m + 1 /\ (m + 1) - 1 = m
        OBVIOUS
      <3>3. j - a \in 1..Len(parts[m + 1]) /\ j = off[(m + 1) - 1] + (j - a)
        BY <3>1, <3>2
      <3> QED BY <3>2, <3>3
    <2> QED BY <1>1, <2>1, <2>2
  <1>7. Len(u) = off[m + 1]
    BY <1>4
  <1> QED
    <2>1. \A k \in 1..m + 1 : \A i \in 1..Len(parts[k]) : off[k - 1] + i \in 1..b /\ u[off[k - 1] + i] = parts[k][i]
      BY <1>5
    <2>2. \A j \in 1..b : \E k \in 1..m + 1 : \E i \in 1..Len(parts[k]) : j = off[k - 1] + i
      BY <1>6
    <2>3. Holds(u, m + 1, parts, off)
      BY <1>7, <2>1, <2>2 DEF Holds
    <2> QED BY <1>4, <2>3

\* Flattened, the parts are behind each other.
LEMMA FlattenIs ==
  ASSUME NEW D, NEW K \in Nat, NEW parts \in [1..K -> Seq(D)], NEW off, Counts(off, K, parts)
  PROVE  FlattenSeq(parts) \in Seq(D) /\ Holds(FlattenSeq(parts), K, parts, off)
  <1> DEFINE Joins(f) == f = [i \in 1..K |-> IF i = 1 THEN parts[i] ELSE f[i - 1] \o parts[i]]
             Add(i, s) == IF i = 1 THEN parts[i] ELSE s \o parts[i]
             step == [i \in 1..K |-> [s \in Seq(D) |-> Add(i, s)]]
             empty == <<>>
  <1>1. step \in [1..K -> [Seq(D) -> Seq(D)]]
    <2>1. ASSUME NEW i \in 1..K, NEW s \in Seq(D) PROVE Add(i, s) \in Seq(D)
      <3>1. parts[i] \in Seq(D)
        OBVIOUS
      <3> QED BY <3>1
    <2> HIDE DEF Add
    <2> QED BY <2>1
  <1>2. empty \in Seq(D) /\ Len(empty) = 0
    OBVIOUS
  <1>3. Len(parts) = K
    OBVIOUS
  <1>4. off \in [0..K -> Nat] /\ off[0] = 0
    BY DEF Counts
  <1>5. Holds(empty, 0, parts, off)
    <2>1. 1..off[0] = {} /\ 1..0 = {}
      BY <1>4
    <2> HIDE DEF empty
    <2> QED BY <1>2, <1>4, <2>1 DEF Holds
  <1>6. CASE K = 0
    <2>1. FlattenSeq(parts) = parts
      BY <1>3, <1>6 DEF FlattenSeq
    <2>2. parts = empty
      BY <1>6
    <2> HIDE DEF empty
    <2> QED BY <1>2, <1>5, <1>6, <2>1, <2>2
  <1>7. CASE K # 0
    <2>1. PICK h \in [0..K -> Seq(D)] : Steps(h, K, empty, step)
      <3> HIDE DEF step, empty
      <3> QED BY <1>1, <1>2, StepByStep
    <2>2. \E f : Joins(f)
      <3> DEFINE f == [i \in 1..K |-> h[i]]
      <3>1. ASSUME NEW i \in 1..K PROVE f[i] = IF i = 1 THEN parts[i] ELSE f[i - 1] \o parts[i]
        <4>1. i \in 0..K /\ i # 0 /\ i - 1 \in 0..K /\ h[i - 1] \in Seq(D)
          OBVIOUS
        <4>2. h[i] = step[i][h[i - 1]]
          <5> HIDE DEF step
          <5> QED BY <2>1, <4>1 DEF Steps
        <4>3. h[i] = Add(i, h[i - 1])
          <5> HIDE DEF Add
          <5> QED BY <4>1, <4>2
        <4>4. i # 1 => f[i - 1] = h[i - 1]
          OBVIOUS
        <4> QED BY <4>3, <4>4
      <3>2. f = [i \in 1..K |-> f[i]]
        OBVIOUS
      <3>3. Joins(f)
        <4> HIDE DEF f
        <4> QED BY <3>1, <3>2
      <3> QED BY <3>3
    <2>3. PICK f : Joins(f) /\ FlattenSeq(parts) = f[K]
      BY <1>3, <1>7, <2>2, Zenon DEF FlattenSeq
    <2>4. \A i \in 1..K : f[i] = IF i = 1 THEN parts[i] ELSE f[i - 1] \o parts[i]
      BY <2>3
    <2> DEFINE Right(m) == f[m] \in Seq(D) /\ Holds(f[m], m, parts, off)
               T == {m \in 0..K : m # 0 => Right(m)}
    <2>5. 0 \in T
      OBVIOUS
    <2>6. ASSUME NEW m \in 0..K, m < K, m \in T PROVE m + 1 \in T
      <3>1. m + 1 \in 0..K
        BY <2>6
      <3>2. CASE m = 0
        <4>1. m + 1 = 1 /\ 1 \in 1..K
          BY <1>7, <3>2
        <4>2. f[1] = parts[1] /\ parts[1] \in Seq(D)
          BY <2>4, <4>1
        <4>3. empty \o parts[1] = parts[1]
          BY <4>2
        <4>4. empty \o parts[0 + 1] \in Seq(D) /\ Holds(empty \o parts[0 + 1], 0 + 1, parts, off)
          <5>1. 0 \in 0..K /\ 0 < K
            BY <1>7
          <5> HIDE DEF empty
          <5> QED BY <1>2, <1>5, <5>1, HoldsOneMore
        <4>5. Right(1)
          <5>1. empty \o parts[0 + 1] = f[1] /\ 0 + 1 = 1
            <6> HIDE DEF empty
            <6> QED BY <4>2, <4>3
          <5> HIDE DEF empty
          <5> QED BY <4>2, <4>4, <5>1
        <4> QED BY <3>1, <4>1, <4>5
      <3>3. CASE m # 0
        <4>1. f[m] \in Seq(D) /\ Holds(f[m], m, parts, off)
          BY <2>6, <3>3
        <4>2. f[m] \o parts[m + 1] \in Seq(D) /\ Holds(f[m] \o parts[m + 1], m + 1, parts, off)
          BY <2>6, <4>1, HoldsOneMore
        <4>3. f[m + 1] = f[m] \o parts[m + 1]
          <5>1. m + 1 \in 1..K /\ m + 1 # 1 /\ (m + 1) - 1 = m
            BY <2>6, <3>3
          <5> QED BY <2>4, <5>1, Zenon
        <4> QED BY <3>1, <4>2, <4>3
      <3> QED BY <3>2, <3>3
    <2>7. K \in T
      <3>1. K \in 0..K
        OBVIOUS
      <3> HIDE DEF T
      <3>2. 0..K \subseteq T
        BY <2>5, <2>6, UpTo
      <3> QED BY <3>1, <3>2
    <2>8. Right(K)
      BY <1>7, <2>7
    <2> QED BY <2>3, <2>8
  <1> QED BY <1>6, <1>7

\* s holds what its parts hold, and nothing else.
FromParts(s, parts, K) ==
  /\ \A j \in 1..Len(s) : \E k \in 1..K : \E i \in 1..Len(parts[k]) : s[j] = parts[k][i]
  /\ \A k \in 1..K : \A i \in 1..Len(parts[k]) : \E j \in 1..Len(s) : s[j] = parts[k][i]

LEMMA FlattenHolds ==
  ASSUME NEW D, NEW K \in Nat, NEW parts \in [1..K -> Seq(D)]
  PROVE  FlattenSeq(parts) \in Seq(D) /\ FromParts(FlattenSeq(parts), parts, K)
  <1>1. PICK off : Counts(off, K, parts)
    BY CountsExist
  <1> DEFINE s == FlattenSeq(parts)
  <1>2. s \in Seq(D) /\ Holds(s, K, parts, off)
    BY <1>1, FlattenIs
  <1> HIDE DEF s
  <1>3. \A k \in 1..K : \A i \in 1..Len(parts[k]) : off[k - 1] + i \in 1..Len(s) /\ s[off[k - 1] + i] = parts[k][i]
    BY <1>2 DEF Holds
  <1>4. \A j \in 1..Len(s) : \E k \in 1..K : \E i \in 1..Len(parts[k]) : s[j] = parts[k][i]
    <2> SUFFICES ASSUME NEW j \in 1..Len(s) PROVE \E k \in 1..K : \E i \in 1..Len(parts[k]) : s[j] = parts[k][i]
      OBVIOUS
    <2>1. PICK k \in 1..K : \E i \in 1..Len(parts[k]) : j = off[k - 1] + i
      BY <1>2 DEF Holds
    <2> QED BY <1>3, <2>1
  <1> QED BY <1>2, <1>3, <1>4 DEF s, FromParts

----------------------------------------------------------------------------
(* Fixtures: what an edge case stands for *)

LEMMA ListOfASet ==
  ASSUME NEW S, IsFiniteSet(S)
  PROVE  SetToSeq(S) \in Seq(S)
  <1> DEFINE n == Cardinality(S)
  <1>1. n \in Nat /\ ExistsBijection(1..n, S)
    BY FS_CardinalityType
  <1>2. \E f \in [1..n -> S] : IsInjective(f)
    BY <1>1 DEF ExistsBijection, Bijection, Injection
  <1>3. SetToSeq(S) \in [1..n -> S]
    BY <1>2 DEF SetToSeq
  <1> QED BY <1>1, <1>3

Kinds == {EdgeKinds[k] : k \in 1..5}

\* An edge case of a kind speaks of a field of the tool.
EdgesIn(tool) == [kind : Kinds, field : Required(tool.args) \cup DOMAIN Properties(tool.args) \cup {"output"}]

LEMMA EdgesOfOneKind ==
  ASSUME NEW tool, IsFiniteSet(Required(tool.args)), IsFiniteSet(DOMAIN Properties(tool.args)), NEW kind \in Kinds
  PROVE  /\ EdgesOfKind(tool, kind) \in Seq(EdgesIn(tool))
         /\ \A n \in 1..Len(EdgesOfKind(tool, kind)) :
              /\ EdgesOfKind(tool, kind)[n].kind = kind
              /\ kind = "malformed_output" => Required(tool.output) # {}
  <1> DEFINE Of(fields) == [n \in DOMAIN fields |-> [kind |-> kind, field |-> fields[n]]]
             all == Required(tool.args) \cup DOMAIN Properties(tool.args) \cup {"output"}
  <1>1. ASSUME NEW fields \in Seq(all)
        PROVE  Of(fields) \in Seq(EdgesIn(tool)) /\ \A n \in 1..Len(Of(fields)) : Of(fields)[n].kind = kind
    <2>1. \A n \in DOMAIN fields : fields[n] \in all
      OBVIOUS
    <2>2. Of(fields) \in [1..Len(fields) -> EdgesIn(tool)]
      BY <2>1 DEF EdgesIn
    <2>3. Of(fields) \in Seq(EdgesIn(tool)) /\ Len(Of(fields)) = Len(fields)
      BY <2>2
    <2> QED BY <2>3
  <1>2. SetToSeq(Required(tool.args)) \in Seq(all)
    <2>1. SetToSeq(Required(tool.args)) \in Seq(Required(tool.args))
      BY ListOfASet
    <2> QED BY <2>1
  <1>3. Fields(tool.args) \in Seq(all)
    <2>1. Fields(tool.args) \in Seq(DOMAIN Properties(tool.args))
      BY ListOfASet DEF Fields
    <2> QED BY <2>1
  <1>4. ASSUME NEW P \in SUBSET DOMAIN Fields(tool.args) PROVE Picked(Fields(tool.args), P) \in Seq(all)
    <2>1. P \in SUBSET (1..Len(Fields(tool.args))) /\ Len(Fields(tool.args)) \in Nat
      BY <1>3
    <2>2. IsFiniteSet(P) /\ P \in SUBSET Int
      <3> DEFINE len == Len(Fields(tool.args))
      <3> HIDE DEF len
      <3>1. len \in Nat /\ P \in SUBSET (1..len)
        BY <2>1 DEF len
      <3>2. IsFiniteSet(1..len)
        BY <3>1, FS_Interval
      <3>3. P \in SUBSET Int
        BY <3>1
      <3> QED BY <3>1, <3>2, <3>3, FS_Subset
    <2>3. \A n \in P : Fields(tool.args)[n] \in all
      BY <1>3, <2>1
    <2> HIDE DEF all
    <2> QED BY <2>2, <2>3, PickedIs
  <1> HIDE DEF all
  <1>5. CASE kind = "missing_required"
    <2>1. EdgesOfKind(tool, kind) = Of(SetToSeq(Required(tool.args)))
      BY <1>5 DEF EdgesOfKind
    <2> HIDE DEF Of
    <2> QED BY <1>1, <1>2, <1>5, <2>1
  <1>6. CASE kind = "malformed_output"
    <2>1. CASE Required(tool.output) # {}
      <3>1. EdgesOfKind(tool, kind) = <<[kind |-> kind, field |-> "output"]>>
        BY <1>6, <2>1 DEF EdgesOfKind
      <3>2. [kind |-> kind, field |-> "output"] \in EdgesIn(tool)
        BY DEF EdgesIn
      <3> QED BY <2>1, <3>1, <3>2
    <2>2. CASE Required(tool.output) = {}
      <3>1. EdgesOfKind(tool, kind) = <<>>
        BY <1>6, <2>2 DEF EdgesOfKind
      <3> QED BY <3>1
    <2> QED BY <2>1, <2>2
  <1>7. CASE kind \notin {"missing_required", "malformed_output"}
    <2> DEFINE args == tool.args
               P == {n \in DOMAIN Fields(args) : HasEdge(kind, Properties(args)[Fields(args)[n]])}
    <2>1. EdgesOfKind(tool, kind) = Of(Picked(Fields(args), P))
      BY <1>7 DEF EdgesOfKind
    <2>2. P \in SUBSET DOMAIN Fields(args)
      OBVIOUS
    <2> HIDE DEF Of, P
    <2>3. Picked(Fields(args), P) \in Seq(all)
      BY <1>4, <2>2
    <2> HIDE DEF args
    <2>4. Of(Picked(Fields(args), P)) \in Seq(EdgesIn(tool))
      BY <1>1, <2>3
    <2>5. \A n \in 1..Len(Of(Picked(Fields(args), P))) : Of(Picked(Fields(args), P))[n].kind = kind
      BY <1>1, <2>3
    <2> QED BY <1>7, <2>1, <2>4, <2>5
  <1> QED BY <1>5, <1>6, <1>7

\* A tool has an edge case for a malformed output only when its output has required fields.
LEMMA EdgesAreOfTheTool ==
  ASSUME NEW tool, IsFiniteSet(Required(tool.args)), IsFiniteSet(DOMAIN Properties(tool.args)),
         NEW e \in ToSet(EdgeCases(tool)), e.kind = "malformed_output"
  PROVE  Required(tool.output) # {}
  <1> DEFINE D == EdgesIn(tool)
             queue == [k \in DOMAIN EdgeKinds |-> EdgesOfKind(tool, EdgeKinds[k])]
             lengths == {Len(queue[k]) : k \in DOMAIN queue}
             IsLongest(n) == \A k \in DOMAIN queue : Len(queue[k]) <= n
             longest == CHOOSE n \in lengths : IsLongest(n)
             Round(n) == FlattenSeq([k \in DOMAIN queue |-> IF n <= Len(queue[k]) THEN <<queue[k][n]>> ELSE <<>>])
             rounds == [n \in 1..longest |-> Round(n)]
  <1>1. DOMAIN EdgeKinds = 1..5 /\ \A k \in 1..5 : EdgeKinds[k] \in Kinds
    BY DEF EdgeKinds, Kinds
  <1>2. queue = [k \in 1..5 |-> EdgesOfKind(tool, EdgeKinds[k])]
    BY <1>1
  <1>3. ASSUME NEW k \in 1..5
        PROVE  /\ queue[k] \in Seq(D)
               /\ \A n \in 1..Len(queue[k]) :
                    queue[k][n].kind = EdgeKinds[k] /\ (EdgeKinds[k] = "malformed_output" => Required(tool.output) # {})
    <2>1. queue[k] = EdgesOfKind(tool, EdgeKinds[k]) /\ EdgeKinds[k] \in Kinds
      BY <1>1, <1>2
    <2> HIDE DEF queue, D
    <2> QED BY <2>1, EdgesOfOneKind DEF D
  <1>4. DOMAIN queue = 1..5 /\ queue \in [1..5 -> Seq(D)]
    BY <1>2, <1>3
  <1>5. EdgeCases(tool) = FlattenSeq(rounds)
    BY DEF EdgeCases
  <1> HIDE DEF queue, D
  <1>6. \E n \in lengths : IsLongest(n)
    <2>1. \A k \in 1..5 : Len(queue[k]) \in Nat
      BY <1>4
    <2> DEFINE L(k) == Len(queue[k])
    <2> HIDE DEF L
    <2>2. \A k \in 1..5 : L(k) \in Nat
      BY <2>1 DEF L
    <2>3. \E k \in 1..5 : \A j \in 1..5 : L(j) <= L(k)
      <3>1. L(1) \in Nat /\ L(2) \in Nat /\ L(3) \in Nat /\ L(4) \in Nat /\ L(5) \in Nat
        BY <2>2
      <3>2. \A j \in 1..5 : j = 1 \/ j = 2 \/ j = 3 \/ j = 4 \/ j = 5
        OBVIOUS
      <3>3. /\ 1 \in 1..5 /\ 2 \in 1..5 /\ 3 \in 1..5 /\ 4 \in 1..5 /\ 5 \in 1..5
        OBVIOUS
      <3> QED BY <3>1, <3>2, <3>3
    <2> QED BY <1>4, <2>3 DEF L
  <1>7. longest \in Nat
    <2>1. longest \in lengths
      <3> HIDE DEF lengths, IsLongest
      <3> QED BY <1>6
    <2>2. \A k \in 1..5 : Len(queue[k]) \in Nat
      BY <1>4
    <2> HIDE DEF longest
    <2> QED BY <1>4, <2>1, <2>2
  <1> HIDE DEF longest
  <1>8. ASSUME NEW n \in 1..longest
        PROVE  /\ Round(n) \in Seq(D)
               /\ \A j \in 1..Len(Round(n)) : \E k \in 1..5 : \E i \in 1..Len(queue[k]) : Round(n)[j] = queue[k][i]
    <2> DEFINE parts == [k \in DOMAIN queue |-> IF n <= Len(queue[k]) THEN <<queue[k][n]>> ELSE <<>>]
    <2>1. ASSUME NEW k \in 1..5
          PROVE  /\ parts[k] \in Seq(D)
                 /\ \A i \in 1..Len(parts[k]) : \E j \in 1..Len(queue[k]) : parts[k][i] = queue[k][j]
      <3>1. queue[k] \in Seq(D) /\ n \in Nat /\ 1 <= n /\ Len(queue[k]) \in Nat
        BY <1>4, <1>7
      <3>2. CASE n <= Len(queue[k])
        <4>1. n \in 1..Len(queue[k]) /\ queue[k][n] \in D
          BY <3>1, <3>2
        <4>2. parts[k] = <<queue[k][n]>>
          BY <1>4, <3>2
        <4>3. parts[k] \in Seq(D) /\ Len(parts[k]) = 1 /\ parts[k][1] = queue[k][n]
          <5> HIDE DEF parts
          <5> QED BY <4>1, <4>2
        <4> HIDE DEF parts
        <4> QED BY <4>1, <4>3
      <3>3. CASE ~(n <= Len(queue[k]))
        <4>1. parts[k] = <<>>
          BY <1>4, <3>3
        <4> HIDE DEF parts
        <4> QED BY <4>1
      <3> QED BY <3>2, <3>3
    <2>2. parts \in [1..5 -> Seq(D)]
      <3>1. DOMAIN parts = 1..5
        BY <1>4
      <3>2. parts = [k \in 1..5 |-> parts[k]]
        BY <3>1
      <3> HIDE DEF parts
      <3> QED BY <2>1, <3>2
    <2>3. Round(n) = FlattenSeq(parts)
      OBVIOUS
    <2> HIDE DEF parts, Round
    <2>5. FlattenSeq(parts) \in Seq(D) /\ FromParts(FlattenSeq(parts), parts, 5)
      <3> DEFINE K == 5
      <3> HIDE DEF K
      <3>1. K \in Nat /\ parts \in [1..K -> Seq(D)]
        BY <2>2 DEF K
      <3>2. FlattenSeq(parts) \in Seq(D) /\ FromParts(FlattenSeq(parts), parts, K)
        BY <3>1, FlattenHolds
      <3> QED BY <3>2 DEF K
    <2>6. ASSUME NEW j \in 1..Len(Round(n))
          PROVE  \E k \in 1..5 : \E i \in 1..Len(queue[k]) : Round(n)[j] = queue[k][i]
      <3>1. PICK k \in 1..5 : \E i \in 1..Len(parts[k]) : Round(n)[j] = parts[k][i]
        BY <2>3, <2>5 DEF FromParts
      <3>2. \A i \in 1..Len(parts[k]) : \E m \in 1..Len(queue[k]) : parts[k][i] = queue[k][m]
        BY <2>1
      <3> QED BY <3>1, <3>2
    <2> QED BY <2>3, <2>5, <2>6
  <1> HIDE DEF Round
  <1>9. /\ FlattenSeq(rounds) \in Seq(D)
        /\ FromParts(FlattenSeq(rounds), rounds, longest)
    <2>1. rounds \in [1..longest -> Seq(D)]
      BY <1>8
    <2> HIDE DEF rounds
    <2> QED BY <1>7, <2>1, FlattenHolds
  <1>10. PICK j \in 1..Len(FlattenSeq(rounds)) : e = FlattenSeq(rounds)[j]
    <2> HIDE DEF rounds
    <2> QED BY <1>5, <1>9 DEF ToSet
  <1>11. PICK n \in 1..longest : \E i \in 1..Len(rounds[n]) : e = rounds[n][i]
    <2> HIDE DEF rounds
    <2> QED BY <1>9, <1>10 DEF FromParts
  <1>12. PICK k \in 1..5 : \E m \in 1..Len(queue[k]) : e = queue[k][m]
    BY <1>8, <1>11
  <1> QED BY <1>3, <1>12

----------------------------------------------------------------------------
(* Fixtures: rules and strategies *)

Wildcard(response) == [match |-> {}, response |-> response]
Rule(t) == [match : Matches, response : Written \cup {SchemaFixture(t), Corrupt(Output(t))}]
Answers(list, t) == list \in Seq(Rule(t)) /\ \A n \in 1..Len(list) : list[n].response # Bad
HasWildcard(list) == \E n \in 1..Len(list) : list[n].match = {}
Checked(response, t) == Conforms(response, Output(t), FALSE) \/ response = SchemaFixture(t)

LEMMA SamplesAnswer ==
  /\ \A t : SchemaFixture(t) # Bad
  /\ \A schema : Corrupt(schema) # Bad
  <1>1. \A fields : Object(fields) # Bad
    BY DEF Object, Bad
  <1>2. Text(12) # Bad
    BY DEF Text, Bad
  <1>3. ASSUME NEW t PROVE SchemaFixture(t) # Bad
    <2>1. SchemaFixture(t) = Generic \/ SchemaFixture(t).is = "object"
      BY DEF SchemaFixture
    <2>2. Bad.is = "bad"
      BY DEF Bad
    <2>3. Generic # Bad
      BY <1>1 DEF Generic
    <2> QED BY <2>1, <2>2, <2>3
  <1>4. ASSUME NEW schema PROVE Corrupt(schema) # Bad
    <2>1. Corrupt(schema) = Text(12) \/ \E fields : Corrupt(schema) = Object(fields)
      BY DEF Corrupt
    <2> QED BY <1>1, <1>2, <2>1
  <1> QED BY <1>3, <1>4

\* The part of a list at some places, all of whose elements are in T.
LEMMA PartOfList ==
  ASSUME NEW T, NEW list \in Seq(T), NEW P \in SUBSET DOMAIN list
  PROVE  /\ Picked(list, P) \in Seq(T)
         /\ \A k \in 1..Len(Picked(list, P)) : \E n \in P : Picked(list, P)[k] = list[n]
         /\ \A n \in P : \E k \in 1..Len(Picked(list, P)) : Picked(list, P)[k] = list[n]
  <1> DEFINE len == Len(list)
  <1>1. len \in Nat /\ P \in SUBSET (1..len)
    OBVIOUS
  <1>2. P \in SUBSET Int /\ IsFiniteSet(P)
    <2> HIDE DEF len
    <2>1. IsFiniteSet(1..len)
      BY <1>1, FS_Interval
    <2> QED BY <1>1, <2>1, FS_Subset
  <1>3. \A n \in P : list[n] \in T
    BY <1>1
  <1>4. /\ Len(Picked(list, P)) = Cardinality(P)
        /\ \A S : (\A n \in P : list[n] \in S) => Picked(list, P) \in Seq(S)
        /\ \A k \in 1..Cardinality(P) : Ascending(P)[k] \in P /\ Picked(list, P)[k] = list[Ascending(P)[k]]
        /\ \A n \in P : \E k \in 1..Cardinality(P) : Ascending(P)[k] = n /\ Picked(list, P)[k] = list[n]
    BY <1>2, PickedIs
  <1>5. Picked(list, P) \in Seq(T)
    BY <1>3, <1>4
  <1> QED BY <1>4, <1>5

\* The rules the pipeline makes of what the generator wrote for a tool.
LEMMA RulesAnswer ==
  ASSUME NEW t \in Tools, NEW entry \in Entries \cup {NoEntry}
  PROVE  /\ Answers(RulesOf(t, entry), t)
         /\ onMiss # "llm" => HasWildcard(RulesOf(t, entry))
         /\ \A n \in 1..Len(RulesOf(t, entry)) : Checked(RulesOf(t, entry)[n].response, t)
  <1> DEFINE P == {n \in DOMAIN entry.variants : Usable(t, entry.variants[n])}
             variants == IF entry.given THEN Picked(entry.variants, P) ELSE <<>>
             Good(list) == \A n \in 1..Len(list) : list[n].response # Bad /\ Checked(list[n].response, t)
             wildcard == Wildcard(Default(t, entry))
  <1>1. variants \in Seq(Rule(t)) /\ Good(variants)
    <2>1. CASE entry.given
      <3>1. entry \in Entries
        <4>1. NoEntry.given = FALSE
          BY DEF NoEntry
        <4> QED BY <2>1, <4>1
      <3>2. entry.variants \in Seq([match : Matches, response : Written])
        <4>1. entry.variants \in Variants
          BY <3>1 DEF Entries
        <4>2. \A S, list : list \in BoundedSeq(S, MaxRules) => list \in Seq(S)
          <5> SUFFICES ASSUME NEW S, NEW list \in BoundedSeq(S, MaxRules) PROVE list \in Seq(S)
            OBVIOUS
          <5>1. PICK m \in 0..MaxRules : list \in [1..m -> S]
            BY DEF BoundedSeq, SeqOf
          <5>2. m \in Nat
            BY FixturesAssumption
          <5> QED BY <5>1, <5>2
        <4> QED BY <4>1, <4>2 DEF Variants
      <3>3. [match : Matches, response : Written] \subseteq Rule(t)
        BY DEF Rule
      <3>4. entry.variants \in Seq(Rule(t))
        <4> DEFINE S == [match : Matches, response : Written]
        <4> HIDE DEF S
        <4>1. \A list : list \in Seq(S) /\ S \subseteq Rule(t) => list \in Seq(Rule(t))
          OBVIOUS
        <4> QED BY <3>2, <3>3, <4>1 DEF S
      <3>5. P \in SUBSET DOMAIN entry.variants
        OBVIOUS
      <3>6. \A n \in P : entry.variants[n].response # Bad /\ Checked(entry.variants[n].response, t)
        BY DEF Usable, Checked
      <3> HIDE DEF P
      <3>7. Picked(entry.variants, P) \in Seq(Rule(t)) /\ Good(Picked(entry.variants, P))
        BY <3>4, <3>5, <3>6, PartOfList
      <3> QED BY <2>1, <3>7
    <2>2. CASE ~entry.given
      BY <2>2
    <2> QED BY <2>1, <2>2
  <1>2. wildcard \in Rule(t) /\ wildcard.match = {} /\ wildcard.response = Default(t, entry)
    <2>1. Default(t, entry) \in Written \cup {SchemaFixture(t)}
      <3>1. entry.given => entry.default \in Written
        <4>1. NoEntry.given = FALSE
          BY DEF NoEntry
        <4> QED BY <4>1 DEF Entries
      <3> QED BY <3>1 DEF Default
    <2>2. {} \in Matches
      BY DEF Matches
    <2> QED BY <2>1, <2>2 DEF Wildcard, Rule
  <1>3. Default(t, entry) # Bad /\ Checked(Default(t, entry), t)
    BY SamplesAnswer DEF Default, Checked
  <1>4. RulesOf(t, entry) = IF onMiss = "llm" THEN variants ELSE Append(variants, wildcard)
    BY DEF RulesOf, Wildcard
  <1> HIDE DEF variants, wildcard
  <1>5. CASE onMiss = "llm"
    BY <1>1, <1>4, <1>5 DEF Answers
  <1>6. CASE onMiss # "llm"
    <2> DEFINE list == Append(variants, wildcard)
    <2>1. list \in Seq(Rule(t)) /\ Len(list) = Len(variants) + 1 /\ Len(variants) \in Nat
      BY <1>1, <1>2
    <2>2. \A n \in 1..Len(variants) : list[n] = variants[n]
      BY <1>1, <1>2
    <2>3. list[Len(variants) + 1] = wildcard
      BY <1>1, <1>2
    <2>4. \A n \in 1..Len(list) : n \in 1..Len(variants) \/ n = Len(variants) + 1
      BY <2>1
    <2> HIDE DEF list
    <2>5. Good(list)
      BY <1>1, <1>2, <1>3, <2>2, <2>3, <2>4
    <2>6. HasWildcard(list)
      <3>1. Len(variants) + 1 \in 1..Len(list)
        BY <2>1
      <3> QED BY <1>2, <2>3, <3>1 DEF HasWildcard
    <2> QED BY <1>4, <1>6, <2>1, <2>5, <2>6 DEF list, Answers
  <1> QED BY <1>5, <1>6

\* A case's own rules go before the dataset's, and take nothing from what they answer.
LEMMA FallbackAnswers ==
  ASSUME NEW t, NEW own, Answers(own, t), NEW shared, Answers(shared, t)
  PROVE  /\ Answers(WithFallback(own, shared), t)
         /\ HasWildcard(shared) => HasWildcard(WithFallback(own, shared))
  <1> DEFINE P == {n \in DOMAIN shared : shared[n] \notin ToSet(own)}
             rest == Picked(shared, P)
  <1>0. own \in Seq(Rule(t)) /\ shared \in Seq(Rule(t))
    BY DEF Answers
  <1>1. CASE own # <<>> /\ Last(own).match = {}
    <2>1. WithFallback(own, shared) = own
      BY <1>1 DEF WithFallback
    <2>2. Len(own) \in 1..Len(own) /\ own[Len(own)].match = {}
      BY <1>0, <1>1 DEF Last
    <2> QED BY <2>1, <2>2 DEF HasWildcard
  <1>2. CASE ~(own # <<>> /\ Last(own).match = {})
    <2>1. WithFallback(own, shared) = own \o rest
      BY <1>2 DEF WithFallback
    <2>2. P \in SUBSET DOMAIN shared
      OBVIOUS
    <2>3. \A n \in DOMAIN shared : n \in P \/ \E m \in 1..Len(own) : own[m] = shared[n]
      BY <1>0 DEF ToSet
    <2>4. /\ rest \in Seq(Rule(t))
          /\ \A k \in 1..Len(rest) : \E n \in P : rest[k] = shared[n]
          /\ \A n \in P : \E k \in 1..Len(rest) : rest[k] = shared[n]
      <3> HIDE DEF P
      <3> QED BY <1>0, <2>2, PartOfList
    <2> HIDE DEF P, rest
    <2> DEFINE all == own \o rest
    <2>5. /\ all \in Seq(Rule(t)) /\ Len(all) = Len(own) + Len(rest)
          /\ \A n \in 1..Len(own) : all[n] = own[n]
          /\ \A k \in 1..Len(rest) : all[Len(own) + k] = rest[k]
      BY <1>0, <2>4
    <2>6. Len(own) \in Nat /\ Len(rest) \in Nat
      BY <1>0, <2>4
    <2> HIDE DEF all
    <2>7. \A n \in 1..Len(all) : n \in 1..Len(own) \/ \E k \in 1..Len(rest) : n = Len(own) + k
      <3> SUFFICES ASSUME NEW n \in 1..Len(all), ~(n \in 1..Len(own))
                   PROVE  \E k \in 1..Len(rest) : n = Len(own) + k
        OBVIOUS
      <3>1. n - Len(own) \in 1..Len(rest) /\ n = Len(own) + (n - Len(own))
        BY <2>5, <2>6
      <3> QED BY <3>1
    <2>8. ASSUME NEW n \in 1..Len(all) PROVE all[n].response # Bad
      <3>1. CASE n \in 1..Len(own)
        BY <2>5, <3>1 DEF Answers
      <3>2. CASE n \notin 1..Len(own)
        <4>1. PICK k \in 1..Len(rest) : n = Len(own) + k
          BY <2>7, <3>2
        <4>2. PICK m \in P : rest[k] = shared[m]
          BY <2>4
        <4>3. shared[m].response # Bad
          BY <1>0, <2>2, <4>2 DEF Answers
        <4> QED BY <2>5, <4>1, <4>2, <4>3
      <3> QED BY <3>1, <3>2
    <2>9. ASSUME HasWildcard(shared) PROVE HasWildcard(all)
      <3>1. PICK n \in 1..Len(shared) : shared[n].match = {}
        BY <2>9 DEF HasWildcard
      <3>2. n \in DOMAIN shared
        BY <1>0
      <3>3. CASE n \in P
        <4>1. PICK k \in 1..Len(rest) : rest[k] = shared[n]
          BY <2>4, <3>3
        <4>2. Len(own) + k \in 1..Len(all)
          BY <2>5, <2>6
        <4>3. all[Len(own) + k].match = {}
          BY <2>5, <3>1, <4>1
        <4> QED BY <4>2, <4>3 DEF HasWildcard
      <3>4. CASE n \notin P
        <4>1. PICK m \in 1..Len(own) : own[m] = shared[n]
          BY <2>3, <3>2, <3>4
        <4>2. m \in 1..Len(all) /\ all[m] = own[m]
          BY <2>5, <2>6
        <4> QED BY <3>1, <4>1, <4>2 DEF HasWildcard
      <3> QED BY <3>3, <3>4
    <2>10. Answers(all, t)
      BY <2>5, <2>8 DEF Answers
    <2> QED BY <2>1, <2>9, <2>10 DEF all
  <1> QED BY <1>1, <1>2

LEMMA OverridesAnswer ==
  ASSUME NEW t, NEW raw \in Variants
  PROVE  Answers(Overrides(raw), t)
  <1> DEFINE P == {n \in DOMAIN raw : raw[n].response # Bad}
  <1>1. raw \in Seq(Rule(t))
    <2>1. PICK m \in 0..MaxRules : raw \in [1..m -> [match : Matches, response : Written]]
      BY DEF Variants, BoundedSeq, SeqOf
    <2>2. m \in Nat
      BY FixturesAssumption
    <2>3. [match : Matches, response : Written] \subseteq Rule(t)
      BY DEF Rule
    <2>4. \A S : S \subseteq Rule(t) /\ raw \in [1..m -> S] => raw \in [1..m -> Rule(t)]
      OBVIOUS
    <2> QED BY <2>1, <2>2, <2>3, <2>4
  <1>2. Overrides(raw) = Picked(raw, P) /\ P \in SUBSET DOMAIN raw /\ \A n \in P : raw[n].response # Bad
    BY DEF Overrides
  <1> HIDE DEF P
  <1> QED BY <1>1, <1>2, PartOfList DEF Answers

----------------------------------------------------------------------------
(* Fixtures: the invariant *)

FixtureTypes ==
  /\ catalog \in Catalogs
  /\ onMiss \in {"strict", "llm"}
  /\ progress \in {"mocks", "strategies", "check", "case", "calls", "failed"}

RulesSound ==
  progress # "mocks" =>
    \A t \in Tools : /\ Answers(rules[t], t)
                     /\ onMiss = "strict" => HasWildcard(rules[t])
                     /\ \A n \in 1..Len(rules[t]) : Checked(rules[t][n].response, t)

\* A table of strategies covers every tool by default, and what it answers was checked.
TableSound(table) ==
  /\ "default" \in DOMAIN table /\ Tools \subseteq DOMAIN table["default"]
  /\ \A id \in DOMAIN table : \A t \in Tools :
       t \in DOMAIN table[id] => table[id][t] # Bad /\ Checked(table[id][t], t)

StrategiesSound ==
  /\ strategies # <<>> => TableSound(strategies)
  /\ onMiss = "llm" /\ progress \in {"check", "case", "calls"} => TableSound(strategies)

CaseSound ==
  /\ progress # "calls" => case = NoCase
  /\ progress = "calls" =>
       /\ DOMAIN case.tools \subseteq Tools
       /\ \A t \in DOMAIN case.tools :
            /\ Answers(case.tools[t], t)
            /\ onMiss = "strict" => HasWildcard(case.tools[t])
            /\ case.edge = "malformed_output" =>
                 Required(Output(t)) # {} /\ case.tools[t] = <<Wildcard(Corrupt(Output(t)))>>

FixturesInv == FixtureTypes /\ RulesSound /\ StrategiesSound /\ CaseSound

LEMMA FixturesInvInit == FixturesInit => FixturesInv
  <1> SUFFICES ASSUME FixturesInit PROVE FixturesInv
    OBVIOUS
  <1>1. FixtureTypes /\ RulesSound /\ CaseSound
    BY DEF FixturesInit, FixtureTypes, RulesSound, CaseSound
  <1>2. strategies = <<>>
    BY DEF FixturesInit
  <1>3. StrategiesSound
    BY <1>2 DEF FixturesInit, StrategiesSound
  <1> QED BY <1>1, <1>3 DEF FixturesInv

LEMMA AuthorMocksKeeps == FixturesInv /\ AuthorMocks => FixturesInv'
  <1> SUFFICES ASSUME FixturesInv, AuthorMocks PROVE FixturesInv'
    OBVIOUS
  <1> USE DEF FixturesInv
  <1>1. UNCHANGED <<catalog, onMiss, config, strategies, case>> /\ progress = "mocks" /\ progress' = "strategies"
    BY DEF AuthorMocks
  <1>2. PICK reply \in [Tools -> Entries \cup {NoEntry}] : rules' = [t \in Tools |-> RulesOf(t, reply[t])]
    BY DEF AuthorMocks
  <1>3. ASSUME NEW t \in Tools
        PROVE  /\ Answers(rules'[t], t)
               /\ onMiss = "strict" => HasWildcard(rules'[t])
               /\ \A n \in 1..Len(rules'[t]) : Checked(rules'[t][n].response, t)
    <2>1. rules'[t] = RulesOf(t, reply[t]) /\ reply[t] \in Entries \cup {NoEntry}
      BY <1>2
    <2> QED BY <2>1, RulesAnswer
  <1>4. RulesSound'
    BY <1>1, <1>3 DEF RulesSound, Answers, Rule, Checked, Output, SchemaFixture, Written
  <1>5. FixtureTypes' /\ StrategiesSound' /\ CaseSound'
    BY <1>1 DEF FixtureTypes, StrategiesSound, CaseSound, TableSound, Checked, Output, SchemaFixture
  <1> QED BY <1>4, <1>5

LEMMA StrategiesAnswer ==
  ASSUME NEW reply \in Some({"default", "degraded"}, Some(Tools, Written))
  PROVE  TableSound(Strategies(reply))
  <1> DEFINE Table(id) == [t \in DOMAIN reply[id] |-> Fallback(t, reply[id][t])]
             said == IF "default" \in DOMAIN reply THEN Table("default") ELSE [t \in {} |-> Null]
             whole == [t \in Tools |-> IF t \in DOMAIN said THEN said[t] ELSE SchemaFixture(t)]
             s == Strategies(reply)
             Fine(response, t) == response # Bad /\ Checked(response, t)
  <1>1. s = [id \in DOMAIN reply \cup {"default"} |-> IF id = "default" THEN whole ELSE Table(id)]
    BY DEF Strategies
  <1>2. \A t, text : Fine(Fallback(t, text), t)
    BY SamplesAnswer DEF Fallback, Checked
  <1>3. \A t : Fine(SchemaFixture(t), t)
    BY SamplesAnswer DEF Checked
  <1>4. \A id : \A t \in DOMAIN Table(id) : Fine(Table(id)[t], t)
    <2> HIDE DEF Fine
    <2> QED BY <1>2
  <1>5. \A t \in DOMAIN said : Fine(said[t], t)
    <2> HIDE DEF Fine, Table
    <2> QED BY <1>4
  <1> HIDE DEF said, Table
  <1>6. DOMAIN whole = Tools /\ \A t \in Tools : Fine(whole[t], t)
    <2> HIDE DEF Fine
    <2> QED BY <1>3, <1>5
  <1> HIDE DEF whole, Fine
  <1>7. "default" \in DOMAIN s /\ s["default"] = whole
    BY <1>1
  <1>8. ASSUME NEW id \in DOMAIN s, NEW t \in Tools, t \in DOMAIN s[id] PROVE Fine(s[id][t], t)
    <2>1. CASE id = "default"
      BY <1>6, <1>7, <2>1
    <2>2. CASE id # "default"
      <3>1. s[id] = Table(id)
        BY <1>1, <2>2
      <3> QED BY <1>4, <1>8, <3>1
    <2> QED BY <2>1, <2>2
  <1> HIDE DEF s
  <1> QED BY <1>6, <1>7, <1>8 DEF TableSound, s, Fine

LEMMA AuthorStrategiesKeeps == FixturesInv /\ AuthorStrategies => FixturesInv'
  <1> SUFFICES ASSUME FixturesInv, AuthorStrategies PROVE FixturesInv'
    OBVIOUS
  <1> USE DEF FixturesInv
  <1>1. UNCHANGED <<catalog, onMiss, config, rules, case>> /\ progress = "strategies" /\ progress' = "check"
    BY DEF AuthorStrategies
  <1>2. (strategies' # <<>> => TableSound(strategies')) /\ (onMiss = "llm" => TableSound(strategies'))
    <2>1. CASE config.strategies \/ onMiss = "llm"
      <3>1. PICK reply \in Some({"default", "degraded"}, Some(Tools, Written)) : strategies' = Strategies(reply)
        BY <2>1 DEF AuthorStrategies
      <3> QED BY <3>1, StrategiesAnswer
    <2>2. CASE ~(config.strategies \/ onMiss = "llm")
      <3>1. strategies' = strategies
        BY <2>2 DEF AuthorStrategies
      <3> QED BY <2>2, <3>1 DEF StrategiesSound
    <2> QED BY <2>1, <2>2
  <1>3. StrategiesSound'
    BY <1>1, <1>2 DEF StrategiesSound, TableSound, Checked, Output, SchemaFixture
  <1>4. FixtureTypes' /\ CaseSound' /\ RulesSound'
    BY <1>1 DEF FixtureTypes, CaseSound, RulesSound, Answers, Rule, Checked, Output, SchemaFixture, Written
  <1> QED BY <1>3, <1>4

LEMMA AddCaseKeeps == FixturesInv /\ AddCase => FixturesInv'
  <1> SUFFICES ASSUME FixturesInv, AddCase PROVE FixturesInv'
    OBVIOUS
  <1> USE DEF FixturesInv
  <1>1. UNCHANGED <<catalog, onMiss, config, rules, strategies>> /\ progress = "case" /\ progress' = "calls"
    BY DEF AddCase
  <1>2. PICK tool \in Tools, raw \in Variants, chosen \in DOMAIN strategies \cup {Nothing} :
          \E edge \in {Nothing} \cup {e.kind : e \in ToSet(EdgeCases(catalog[tool]))} :
            case' = [edge |-> edge, strategy |-> chosen,
                     tools |-> IF CaseRules(tool, raw, edge) = <<>> THEN NoCase.tools
                               ELSE [t \in {tool} |-> WithFallback(CaseRules(tool, raw, edge), rules[tool])]]
    BY DEF AddCase
  <1>3. PICK edge \in {Nothing} \cup {e.kind : e \in ToSet(EdgeCases(catalog[tool]))} :
          case' = [edge |-> edge, strategy |-> chosen,
                   tools |-> IF CaseRules(tool, raw, edge) = <<>> THEN NoCase.tools
                             ELSE [t \in {tool} |-> WithFallback(CaseRules(tool, raw, edge), rules[tool])]]
    BY <1>2
  <1> DEFINE own == CaseRules(tool, raw, edge)
             corrupted == Wildcard(Corrupt(Output(tool)))
  <1>4. edge = "malformed_output" => own = <<corrupted>>
    BY DEF CaseRules, Wildcard
  <1>5. corrupted \in Rule(tool) /\ corrupted.match = {} /\ corrupted.response # Bad
    <2>1. Corrupt(Output(tool)) # Bad
      BY SamplesAnswer
    <2>2. {} \in Matches
      BY DEF Matches
    <2> QED BY <2>1, <2>2 DEF Wildcard, Rule
  <1>6. Answers(own, tool)
    <2>1. CASE edge = "malformed_output"
      <3> HIDE DEF corrupted
      <3>1. own = <<corrupted>>
        BY <1>4, <2>1
      <3> HIDE DEF own
      <3>2. own \in Seq(Rule(tool)) /\ Len(own) = 1 /\ own[1] = corrupted
        BY <1>5, <3>1
      <3> QED BY <1>5, <3>2 DEF Answers
    <2>2. CASE edge # "malformed_output"
      <3>1. own = Overrides(raw)
        BY <2>2 DEF CaseRules
      <3> QED BY <3>1, OverridesAnswer
    <2> QED BY <2>1, <2>2
  <1>7. edge = "malformed_output" => Required(Output(tool)) # {}
    <2> SUFFICES ASSUME edge = "malformed_output" PROVE Required(Output(tool)) # {}
      OBVIOUS
    <2>1. edge # Nothing
      BY DEF Nothing
    <2>2. PICK e \in ToSet(EdgeCases(catalog[tool])) : e.kind = edge
      BY <2>1
    <2>3. IsFiniteSet(Required(catalog[tool].args)) /\ IsFiniteSet(DOMAIN Properties(catalog[tool].args))
      BY FixturesAssumption DEF FixtureTypes
    <2> QED BY <2>2, <2>3, EdgesAreOfTheTool DEF Output
  <1>8. Answers(rules[tool], tool) /\ (onMiss = "strict" => HasWildcard(rules[tool]))
    BY <1>1 DEF RulesSound
  <1>9. edge = "malformed_output" => WithFallback(own, rules[tool]) = <<corrupted>>
    <2> SUFFICES ASSUME edge = "malformed_output" PROVE WithFallback(own, rules[tool]) = <<corrupted>>
      OBVIOUS
    <2> HIDE DEF corrupted
    <2>1. own = <<corrupted>>
      BY <1>4
    <2> HIDE DEF own
    <2>2. own # <<>> /\ Last(own) = corrupted
      BY <2>1 DEF Last
    <2> QED BY <1>5, <2>1, <2>2 DEF WithFallback
  <1> HIDE DEF own, corrupted
  <1>10. /\ Answers(WithFallback(own, rules[tool]), tool)
         /\ onMiss = "strict" => HasWildcard(WithFallback(own, rules[tool]))
    BY <1>6, <1>8, FallbackAnswers
  <1>11. /\ DOMAIN case'.tools \subseteq Tools
         /\ \A t \in DOMAIN case'.tools :
              /\ Answers(case'.tools[t], t)
              /\ onMiss = "strict" => HasWildcard(case'.tools[t])
              /\ case'.edge = "malformed_output" =>
                   Required(Output(t)) # {} /\ case'.tools[t] = <<Wildcard(Corrupt(Output(t)))>>
    <2>1. case'.edge = edge
      BY <1>3
    <2>2. CASE own = <<>>
      <3>1. case'.tools = NoCase.tools
        BY <1>3, <2>2 DEF own
      <3>2. DOMAIN case'.tools = {}
        BY <3>1 DEF NoCase
      <3> QED BY <3>2
    <2>3. CASE own # <<>>
      <3>1. case'.tools = [t \in {tool} |-> WithFallback(own, rules[tool])]
        BY <1>3, <2>3 DEF own
      <3>2. DOMAIN case'.tools = {tool} /\ case'.tools[tool] = WithFallback(own, rules[tool])
        BY <3>1
      <3> QED BY <1>7, <1>9, <1>10, <2>1, <3>2 DEF corrupted
    <2> QED BY <2>2, <2>3
  <1>12. CaseSound'
    BY <1>1, <1>11 DEF CaseSound, Answers, Rule, Output, SchemaFixture, Written
  <1>13. FixtureTypes' /\ RulesSound' /\ StrategiesSound'
    BY <1>1 DEF FixtureTypes, RulesSound, StrategiesSound, TableSound, Answers, Rule, Checked, Output, SchemaFixture, Written
  <1> QED BY <1>12, <1>13

LEMMA FixturesInvariant == FixturesSpec => []FixturesInv
  <1>1. FixturesInv /\ [FixturesNext]_fixturesVars => FixturesInv'
    <2> SUFFICES ASSUME FixturesInv, [FixturesNext]_fixturesVars PROVE FixturesInv'
      OBVIOUS
    <2> USE DEF FixturesInv, FixtureTypes, RulesSound, StrategiesSound, TableSound, CaseSound, Answers, Rule, Checked,
                Output, SchemaFixture, Written
    <2>1. CASE CheckRequired
      BY <2>1 DEF CheckRequired
    <2>2. CASE NextCase
      BY <2>2 DEF NextCase
    <2>3. CASE UNCHANGED fixturesVars
      BY <2>3 DEF fixturesVars
    <2> QED BY <2>1, <2>2, <2>3, AuthorMocksKeeps, AuthorStrategiesKeeps, AddCaseKeeps DEF FixturesNext
  <1> QED BY <1>1, FixturesInvInit, PTL DEF FixturesSpec

LEMMA MergedAnswers ==
  ASSUME FixturesInv, progress \in {"case", "calls"}, NEW t \in Tools
  PROVE  Answers(Merged(t), t) /\ (onMiss = "strict" => HasWildcard(Merged(t)))
  <1>1. CASE t \in DOMAIN case.tools
    <2>1. Merged(t) = case.tools[t]
      BY <1>1 DEF Merged
    <2>2. progress = "calls"
      BY <1>1 DEF FixturesInv, CaseSound, NoCase
    <2> QED BY <1>1, <2>1, <2>2 DEF FixturesInv, CaseSound
  <1>2. CASE t \notin DOMAIN case.tools
    <2>1. Merged(t) = rules[t]
      BY <1>2 DEF Merged
    <2> QED BY <2>1 DEF FixturesInv, RulesSound
  <1> QED BY <1>1, <1>2

\* The engine's answers: whatever its model says, it was checked.
LEMMA EngineAnswers ==
  ASSUME FixturesInv, progress \in {"case", "calls"}, onMiss = "llm", NEW t \in Tools, NEW o \in Engine(t)
  PROVE  \/ o.error = Nothing /\ o.response # Bad /\ Checked(o.response, t)
         \/ o.error = "invalid" /\ config.onInvalid = "strict"
  <1>1. ASSUME NEW v \in Values \cup {Null}, Conforms(v, Output(t), FALSE), o = Answered(v)
        PROVE  o.error = Nothing /\ o.response # Bad /\ Checked(o.response, t)
    <2>1. Null # Bad
      BY DEF Null, Bad
    <2>2. v # Bad
      BY <2>1, FixturesAssumption
    <2> QED BY <1>1, <2>2 DEF Answered, Checked
  <1>2. EngineFallback(t) # Bad /\ Checked(EngineFallback(t), t)
    <2>1. TableSound(strategies)
      BY DEF FixturesInv, StrategiesSound
    <2>2. SchemaFixture(t) # Bad /\ Checked(SchemaFixture(t), t)
      BY SamplesAnswer DEF Checked
    <2>3. /\ "default" \in DOMAIN strategies /\ t \in DOMAIN strategies["default"]
          /\ \A id \in DOMAIN strategies :
               t \in DOMAIN strategies[id] => strategies[id][t] # Bad /\ Checked(strategies[id][t], t)
      BY <2>1 DEF TableSound
    <2>4. \E id \in DOMAIN strategies :
            /\ t \in DOMAIN strategies[id]
            /\ EngineFallback(t) \in {strategies[id][t], SchemaFixture(t)}
      <3>1. CASE Selected \in DOMAIN strategies /\ t \in DOMAIN strategies[Selected]
        BY <3>1 DEF EngineFallback
      <3>2. CASE ~(Selected \in DOMAIN strategies /\ t \in DOMAIN strategies[Selected])
        BY <2>3, <3>2 DEF EngineFallback
      <3> QED BY <3>1, <3>2
    <2> QED BY <2>2, <2>3, <2>4
  <1>3. CASE o = IF config.onInvalid = "strict" THEN Raised("invalid") ELSE Answered(EngineFallback(t))
    BY <1>2, <1>3 DEF Raised, Answered
  <1> QED BY <1>1, <1>3 DEF Engine

LEMMA OutcomesAre ==
  ASSUME FixturesInv, progress \in {"case", "calls"}, NEW t \in Tools, NEW args \in Calls,
         NEW o \in Outcomes(t, args)
  PROVE  \/ o.error = Nothing /\ \E n \in 1..Len(Merged(t)) : o.response = Merged(t)[n].response
         \/ onMiss = "llm" /\ o \in Engine(t)
  <1> DEFINE list == Merged(t)
  <1>1. Answers(list, t) /\ (onMiss = "strict" => HasWildcard(list))
    BY MergedAnswers
  <1> HIDE DEF list
  <1>2. list \in Seq(Rule(t)) /\ DOMAIN list = 1..Len(list)
    BY <1>1 DEF Answers
  <1> DEFINE M == Matching(t, args)
  <1>3. M \in SUBSET (1..Len(list)) /\ \A n \in 1..Len(list) : list[n].match = {} => n \in M
    BY <1>2 DEF Matching, list
  <1>4. CASE M # {}
    <2> DEFINE first == CHOOSE n \in M : \A m \in M : n <= m
    <2>1. M \in SUBSET Nat
      BY <1>2, <1>3
    <2>2. \E n \in M : \A m \in M : n <= m
      <3> HIDE DEF M
      <3> QED BY <1>4, <2>1, LeastNumber
    <2>3. first \in M
      <3> HIDE DEF M
      <3> QED BY <2>2
    <2>4. o = Answered(list[first].response)
      BY <1>4 DEF Outcomes, list
    <2> HIDE DEF M, first
    <2> QED BY <1>3, <2>3, <2>4 DEF Answered, list
  <1>5. CASE M = {}
    <2>1. onMiss # "strict"
      BY <1>1, <1>3, <1>5 DEF HasWildcard
    <2>2. onMiss = "llm"
      BY <2>1 DEF FixturesInv, FixtureTypes
    <2> QED BY <1>5, <2>2 DEF Outcomes
  <1> QED BY <1>4, <1>5

\* Whatever the generator wrote and a case injects, every call of a mocked tool gets an answer,
\* or the error of the engine where on_miss llm and on_invalid strict ask for it.
THEOREM CallsAreAnswered == FixturesSpec => []ToolStaysAnswerable
  <1>1. FixturesInv => ToolStaysAnswerable
    <2> SUFFICES ASSUME FixturesInv, progress \in {"case", "calls"}, NEW t \in Tools, NEW args \in Calls,
                        NEW o \in Outcomes(t, args)
                 PROVE  \/ o.error = Nothing /\ o.response # Bad
                        \/ o.error = "invalid" /\ onMiss = "llm" /\ config.onInvalid = "strict"
      BY DEF ToolStaysAnswerable
    <2>1. \A n \in 1..Len(Merged(t)) : Merged(t)[n].response # Bad
      BY MergedAnswers DEF Answers
    <2> QED BY <2>1, OutcomesAre, EngineAnswers
  <1> QED BY <1>1, FixturesInvariant, PTL

\* Nothing that breaks a tool's schema gets into its fixtures, but the pipeline's own sample.
THEOREM OnlyCheckedFixtures == FixturesSpec => []GeneratedConforms
  <1>1. FixturesInv => GeneratedConforms
    <2> SUFFICES ASSUME FixturesInv, progress \in {"case", "calls"}
                 PROVE  /\ \A t \in Tools : \A r \in ToSet(rules[t]) : Checked(r.response, t)
                        /\ strategies # <<>> =>
                             \A p \in StrategyProblems(strategies) :
                               p[2] \in Tools /\ strategies[p[1]][p[2]] = SchemaFixture(p[2])
                        /\ \A t \in Tools \ DOMAIN case.tools, args \in Calls : \A o \in Outcomes(t, args) :
                             o.error = Nothing => Checked(o.response, t)
      BY DEF GeneratedConforms, Checked
    <2>1. ASSUME NEW t \in Tools, NEW r \in ToSet(rules[t]) PROVE Checked(r.response, t)
      <3>1. rules[t] \in Seq(Rule(t)) /\ \A n \in 1..Len(rules[t]) : Checked(rules[t][n].response, t)
        BY DEF FixturesInv, RulesSound, Answers
      <3>2. PICK n \in 1..Len(rules[t]) : r = rules[t][n]
        BY <3>1 DEF ToSet
      <3> QED BY <3>1, <3>2
    <2>2. ASSUME strategies # <<>>, NEW p \in StrategyProblems(strategies)
          PROVE  p[2] \in Tools /\ strategies[p[1]][p[2]] = SchemaFixture(p[2])
      <3>1. TableSound(strategies)
        BY <2>2 DEF FixturesInv, StrategiesSound
      <3>2. /\ p \in (DOMAIN strategies) \X Tools
            /\ p[2] \in DOMAIN strategies[p[1]] /\ ~Conforms(strategies[p[1]][p[2]], Output(p[2]), FALSE)
        BY <3>1 DEF StrategyProblems, TableSound
      <3>3. p[1] \in DOMAIN strategies /\ p[2] \in Tools
        BY <3>2
      <3>4. Checked(strategies[p[1]][p[2]], p[2])
        BY <3>1, <3>2, <3>3 DEF TableSound
      <3> QED BY <3>2, <3>3, <3>4 DEF Checked
    <2>3. ASSUME NEW t \in Tools \ DOMAIN case.tools, NEW args \in Calls, NEW o \in Outcomes(t, args),
                 o.error = Nothing
          PROVE  Checked(o.response, t)
      <3>1. Merged(t) = rules[t]
        BY DEF Merged
      <3>2. \A n \in 1..Len(rules[t]) : Checked(rules[t][n].response, t)
        BY DEF FixturesInv, RulesSound
      <3>3. o.error # "invalid"
        BY <2>3 DEF Nothing
      <3> QED BY <3>1, <3>2, <3>3, OutcomesAre, EngineAnswers
    <2> QED BY <2>1, <2>2, <2>3
  <1> QED BY <1>1, FixturesInvariant, PTL

\* A payload that the pipeline corrupted breaks the schema it was made of.
LEMMA CorruptBreaks ==
  ASSUME NEW schema, Required(schema) # {}, Says(schema, "type"), schema.type = "object",
         ~Says(schema, "enum"), ~Says(schema, "anyOf")
  PROVE  ~Conforms(Corrupt(schema), schema, FALSE)
  <1> DEFINE props == Properties(schema)
             has == [f \in DOMAIN props |-> PartExample(props[f])]
             first == CHOOSE f \in DOMAIN has : Required(schema) \cap DOMAIN has # {} => f \in Required(schema)
             rest == [f \in DOMAIN has \ {first} |-> has[f]]
  <1>1. DOMAIN schema # {}
    BY DEF Says
  <1>2. Example(schema) = Object(has)
    BY <1>1 DEF Example, ExampleBy, TypeOf
  <1>3. Example(schema).is = "object" /\ Example(schema).has = has
    BY <1>2 DEF Object
  <1>4. Corrupt(schema) = IF has = NoFields THEN Text(12) ELSE Object(rest)
    BY <1>1, <1>3 DEF Corrupt
  <1>5. CASE has = NoFields
    <2>1. Corrupt(schema) = Text(12) /\ Text(12).is = "string"
      BY <1>4, <1>5 DEF Text
    <2>2. ~TypeIs(Text(12), schema.type)
      BY <2>1 DEF TypeIs
    <2> QED BY <1>1, <2>1, <2>2 DEF Conforms, ConformsBy
  <1>6. CASE has # NoFields
    <2>1. Corrupt(schema) = Object(rest)
      BY <1>4, <1>6
    <2>2. Object(rest).is = "object" /\ Object(rest).has = rest
      BY DEF Object
    <2>3. DOMAIN rest = DOMAIN has \ {first}
      OBVIOUS
    <2>4. ~(Required(schema) \subseteq DOMAIN rest)
      <3> HIDE DEF has
      <3>1. CASE Required(schema) \cap DOMAIN has = {}
        BY <2>3, <3>1
      <3>2. CASE Required(schema) \cap DOMAIN has # {}
        <4>1. \E f \in DOMAIN has : Required(schema) \cap DOMAIN has # {} => f \in Required(schema)
          BY <3>2
        <4>2. first \in Required(schema)
          BY <3>2, <4>1
        <4> QED BY <2>3, <4>2
      <3> QED BY <3>1, <3>2
    <2> HIDE DEF rest
    <2> QED BY <1>1, <2>1, <2>2, <2>4 DEF Conforms, ConformsBy
  <1> QED BY <1>5, <1>6

\* A case for a malformed output exercises it with every call of the tool.
THEOREM MalformedIsMalformed == FixturesSpec => []EdgeIsExercised
  <1>1. FixturesInv => EdgeIsExercised
    <2> SUFFICES ASSUME FixturesInv, case.edge = "malformed_output", NEW t \in DOMAIN case.tools, NEW args \in Calls,
                        NEW o \in Outcomes(t, args)
                 PROVE  o.error = Nothing /\ ~Conforms(o.response, Output(t), FALSE)
      BY DEF EdgeIsExercised
    <2>1. progress = "calls"
      BY DEF FixturesInv, CaseSound, NoCase, Nothing
    <2>2. /\ t \in Tools /\ Required(Output(t)) # {}
          /\ Merged(t) = <<Wildcard(Corrupt(Output(t)))>>
      BY <2>1 DEF FixturesInv, CaseSound, Merged
    <2> DEFINE rule == Wildcard(Corrupt(Output(t)))
    <2>3. rule.match = {} /\ rule.response = Corrupt(Output(t))
      BY DEF Wildcard
    <2> HIDE DEF rule
    <2>4. DOMAIN Merged(t) = {1} /\ Merged(t)[1] = rule
      BY <2>2 DEF rule
    <2>5. Matching(t, args) = {1}
      BY <2>3, <2>4 DEF Matching
    <2>6. o = Answered(Corrupt(Output(t)))
      <3>1. (CHOOSE n \in {1} : \A m \in {1} : n <= m) = 1
        OBVIOUS
      <3> QED BY <2>3, <2>4, <2>5, <3>1 DEF Outcomes
    <2>7. /\ Says(Output(t), "type") /\ Output(t).type = "object"
          /\ ~Says(Output(t), "enum") /\ ~Says(Output(t), "anyOf")
      BY <2>2, FixturesAssumption DEF FixturesInv, FixtureTypes, Output
    <2>8. o.error = Nothing /\ o.response = Corrupt(Output(t))
      BY <2>6 DEF Answered
    <2> QED BY <2>2, <2>7, <2>8, CorruptBreaks
  <1> QED BY <1>1, FixturesInvariant, PTL
----------------------------------------------------------------------------
(* The plan: types and origin of its cells *)

ScenarioSet == [id : STRING, intent : STRING, kind : {"happy", "failure"}, mode : STRING,
                skills : SUBSET STRING, sound : BOOLEAN]
MapSet == [intents : Seq(STRING), scenarios : Seq(ScenarioSet), failures : Seq(STRING), topics : Seq(STRING)]
EdgeSet == [id : STRING, mode : STRING]

\* The provers do not know of any text that it is one.
Word == STRING \cup {"none", "unspecified", "cross-cutting", "failure", "happy", "category", "out-of-intent",
                     "schema-edge", "out_of_scope"}
CellSet == [intent : Word, topic : Word, scenario : Word, mode : Word, kind : Word, count : Nat, multi : Nat]

LEMMA ListOfMore ==
  ASSUME NEW S, NEW T, \A x \in S : x \in T, NEW list \in Seq(S)
  PROVE  list \in Seq(T)
  OBVIOUS

LEMMA Words ==
  /\ \A x \in STRING : x \in Word
  /\ {"none", "unspecified", "cross-cutting", "failure", "happy", "category", "out-of-intent",
      "schema-edge", "out_of_scope"} \subseteq Word
  BY DEF Word

\* Division by a positive number.
LEMMA Divides ==
  ASSUME NEW a \in Nat, NEW b \in Nat, b > 0
  PROVE  /\ a \div b \in Nat /\ a % b \in 0..b - 1
         /\ a = b * (a \div b) + (a % b)
         /\ a >= b => a \div b >= 1
  <1> DEFINE q == a \div b
             r == a % b
  <1>1. q \in Int /\ r \in 0..b - 1 /\ a = b * q + r
    OBVIOUS
  <1> HIDE DEF q, r
  <1>2. q >= 0
    <2> SUFFICES ASSUME q <= -1 PROVE FALSE
      BY <1>1
    <2>1. b * q <= b * (-1)
      BY <1>1
    <2> QED BY <1>1, <2>1
  <1>3. a >= b => q >= 1
    <2> SUFFICES ASSUME a >= b, q = 0 PROVE FALSE
      BY <1>1, <1>2
    <2>1. b * q = 0
      BY <2>1
    <2> QED BY <1>1, <2>1
  <1> QED BY <1>1, <1>2, <1>3 DEF q, r

\* A share is never empty.
LEMMA SharesAreFilled ==
  ASSUME NEW total \in Int, NEW buckets \in Nat
  PROVE  /\ DOMAIN Spread(total, buckets) = 1..buckets
         /\ \A n \in 1..buckets : Spread(total, buckets)[n] \in Nat /\ Spread(total, buckets)[n] >= 1
  <1> DEFINE all == Greater(total, buckets)
  <1>1. DOMAIN Spread(total, buckets) = 1..buckets
    BY DEF Spread
  <1>2. ASSUME NEW n \in 1..buckets
        PROVE  Spread(total, buckets)[n] \in Nat /\ Spread(total, buckets)[n] >= 1
    <2>1. all \in Nat /\ all >= buckets /\ buckets > 0
      BY DEF Greater
    <2>2. all \div buckets \in Nat /\ all \div buckets >= 1
      BY <2>1, Divides
    <2>3. Spread(total, buckets)[n] = (all \div buckets) + (IF n <= all % buckets THEN 1 ELSE 0)
      BY DEF Spread
    <2> QED BY <2>2, <2>3
  <1> QED BY <1>1, <1>2
\* A cell for a scenario.
IsFor(cell, scenario) ==
  /\ cell.intent = scenario.intent /\ cell.scenario = scenario.id /\ cell.kind = scenario.kind
  /\ cell.mode = IF scenario.kind = "failure" THEN scenario.mode ELSE None

\* Cells for the scenarios at the places P, of all of them and of nothing else.
AreFor(made, scenarios, P) ==
  /\ \A k \in 1..Len(made) : made[k].count >= 1 /\ made[k].multi = 0 /\ \E n \in P : IsFor(made[k], scenarios[n])
  /\ \A n \in P : \E k \in 1..Len(made) : IsFor(made[k], scenarios[n])

OfKind(scenarios, intent, kind) ==
  {n \in DOMAIN scenarios : scenarios[n].intent = intent /\ scenarios[n].kind = kind}

LEMMA FinitePlaces ==
  ASSUME NEW D, NEW list \in Seq(D), NEW P \in SUBSET DOMAIN list
  PROVE  P \in SUBSET Int /\ IsFiniteSet(P)
  <1> DEFINE len == Len(list)
  <1>1. len \in Nat /\ DOMAIN list = 1..len
    OBVIOUS
  <1> HIDE DEF len
  <1>2. IsFiniteSet(1..len)
    BY <1>1, FS_Interval
  <1>3. P \in SUBSET (1..len)
    BY <1>1
  <1>4. IsFiniteSet(P)
    BY <1>2, <1>3, FS_Subset
  <1> QED BY <1>3, <1>4

LEMMA CellsOfAnIntent ==
  ASSUME NEW map \in MapSet, NEW intent \in STRING, NEW kind \in {"happy", "failure"}, NEW per \in Int
  PROVE  /\ CellsOfIntent(map, intent, kind, per) \in Seq(CellSet)
         /\ \A k \in 1..Len(CellsOfIntent(map, intent, kind, per)) :
              CellsOfIntent(map, intent, kind, per)[k].topic = "unspecified"
         /\ AreFor(CellsOfIntent(map, intent, kind, per), map.scenarios, OfKind(map.scenarios, intent, kind))
  <1> DEFINE list == map.scenarios
             P == OfKind(list, intent, kind)
             own == Picked(list, P)
             counts == Spread(per, Len(own))
             mode(n) == IF kind = "failure" THEN own[n].mode ELSE None
             made == CellsOfIntent(map, intent, kind, per)
             size == Cardinality(P)
  <1>1. list \in Seq(ScenarioSet)
    BY DEF MapSet
  <1>2. P \in SUBSET DOMAIN list
    BY DEF OfKind
  <1>3. made = [n \in DOMAIN own |-> Cell(intent, own[n].id, mode(n), kind, counts[n])]
    BY DEF CellsOfIntent, OfKind
  <1>4. \A n \in P : list[n] \in ScenarioSet /\ list[n].intent = intent /\ list[n].kind = kind
    BY <1>1 DEF OfKind
  <1> HIDE DEF P, list, made
  <1>5. P \in SUBSET Int /\ IsFiniteSet(P)
    BY <1>1, <1>2, FinitePlaces
  <1>6. /\ size \in Nat /\ DOMAIN own = 1..size /\ Len(own) = size
        /\ \A k \in 1..size : Ascending(P)[k] \in P /\ own[k] = list[Ascending(P)[k]]
        /\ \A n \in P : \E k \in 1..size : own[k] = list[n]
    BY <1>5, PickedIs
  <1> HIDE DEF own, size
  <1>7. \A k \in 1..size : counts[k] \in Nat /\ counts[k] >= 1
    BY <1>6, SharesAreFilled
  <1> HIDE DEF counts
  <1>8. ASSUME NEW k \in 1..size
        PROVE  /\ made[k] \in CellSet /\ made[k].topic = "unspecified"
               /\ made[k].count >= 1 /\ made[k].multi = 0
               /\ own[k] \in ScenarioSet /\ IsFor(made[k], own[k])
    <2>1. own[k] \in ScenarioSet /\ own[k].intent = intent /\ own[k].kind = kind
      BY <1>4, <1>6
    <2>2. made[k] = Cell(intent, own[k].id, mode(k), kind, counts[k])
      BY <1>3, <1>6
    <2>5. own[k].id \in Word /\ own[k].mode \in Word /\ intent \in Word /\ kind \in Word
      BY <2>1, Words DEF ScenarioSet
    <2>3. mode(k) \in Word /\ mode(k) = IF own[k].kind = "failure" THEN own[k].mode ELSE None
      BY <2>1, <2>5, Words DEF None
    <2> HIDE DEF mode
    <2>4. counts[k] \in Nat /\ counts[k] >= 1
      BY <1>7
    <2> DEFINE m == mode(k)
    <2> HIDE DEF mode, m
    <2>6. made[k] = [intent |-> intent, topic |-> "unspecified", scenario |-> own[k].id, mode |-> m, kind |-> kind,
                     count |-> counts[k], multi |-> 0]
      BY <2>2 DEF Cell, m
    <2>7. made[k] \in CellSet
      BY <2>3, <2>4, <2>5, <2>6, Words DEF CellSet, m
    <2>8. IsFor(made[k], own[k])
      BY <2>1, <2>3, <2>6 DEF IsFor, m
    <2> QED BY <2>1, <2>4, <2>6, <2>7, <2>8
  <1>9. DOMAIN made = 1..size
    BY <1>3, <1>6
  <1>10. made \in [1..size -> CellSet]
    <2>1. made = [n \in 1..size |-> made[n]]
      BY <1>3, <1>6
    <2> QED BY <1>8, <2>1
  <1>11. made \in Seq(CellSet) /\ Len(made) = size
    BY <1>6, <1>9, <1>10
  <1>12. ASSUME NEW k \in 1..size PROVE \E n \in P : IsFor(made[k], list[n])
    BY <1>6, <1>8
  <1>13. ASSUME NEW n \in P PROVE \E k \in 1..size : IsFor(made[k], list[n])
    BY <1>6, <1>8
  <1>14. AreFor(made, list, P)
    BY <1>8, <1>11, <1>12, <1>13 DEF AreFor
  <1> QED BY <1>8, <1>11, <1>14 DEF made, list, P
OfIntent(scenarios, intent) == {n \in DOMAIN scenarios : scenarios[n].intent = intent}

LEMMA BothKinds ==
  ASSUME NEW map \in MapSet, NEW intent \in STRING, NEW a \in Int, NEW b \in Int
  PROVE  LET both == CellsOfIntent(map, intent, "happy", a) \o CellsOfIntent(map, intent, "failure", b)
         IN  both \in Seq(CellSet) /\ AreFor(both, map.scenarios, OfIntent(map.scenarios, intent))
  <1> DEFINE s == CellsOfIntent(map, intent, "happy", a)
             t == CellsOfIntent(map, intent, "failure", b)
             list == map.scenarios
             both == s \o t
  <1>1. s \in Seq(CellSet) /\ AreFor(s, list, OfKind(list, intent, "happy"))
    BY CellsOfAnIntent
  <1>2. t \in Seq(CellSet) /\ AreFor(t, list, OfKind(list, intent, "failure"))
    BY CellsOfAnIntent
  <1>3. OfIntent(list, intent) = OfKind(list, intent, "happy") \cup OfKind(list, intent, "failure")
    <2>1. list \in Seq(ScenarioSet)
      BY DEF MapSet
    <2>2. \A n \in DOMAIN list : list[n].kind \in {"happy", "failure"}
      <3> HIDE DEF list
      <3>1. \A n \in DOMAIN list : list[n] \in ScenarioSet
        BY <2>1
      <3> QED BY <3>1 DEF ScenarioSet
    <2> HIDE DEF list
    <2> QED BY <2>2 DEF OfIntent, OfKind
  <1> HIDE DEF s, t, list
  <1>4. /\ both \in Seq(CellSet) /\ Len(both) = Len(s) + Len(t)
        /\ \A k \in 1..Len(s) : both[k] = s[k]
        /\ \A k \in 1..Len(t) : both[Len(s) + k] = t[k]
        /\ Len(s) \in Nat /\ Len(t) \in Nat
    BY <1>1, <1>2
  <1> HIDE DEF both
  <1>5. ASSUME NEW k \in 1..Len(both)
        PROVE  both[k].count >= 1 /\ both[k].multi = 0 /\ \E n \in OfIntent(list, intent) : IsFor(both[k], list[n])
    <2>1. CASE k <= Len(s)
      <3>1. k \in 1..Len(s) /\ both[k] = s[k]
        BY <1>4, <2>1
      <3> QED BY <1>1, <1>3, <3>1 DEF AreFor
    <2>2. CASE k > Len(s)
      <3>1. k - Len(s) \in 1..Len(t) /\ Len(s) + (k - Len(s)) = k
        BY <1>4, <2>2
      <3>2. both[k] = t[k - Len(s)]
        BY <1>4, <3>1
      <3> QED BY <1>2, <1>3, <3>1, <3>2 DEF AreFor
    <2> QED BY <1>4, <2>1, <2>2
  <1>6. ASSUME NEW n \in OfIntent(list, intent) PROVE \E k \in 1..Len(both) : IsFor(both[k], list[n])
    <2>1. CASE n \in OfKind(list, intent, "happy")
      <3>1. PICK k \in 1..Len(s) : IsFor(s[k], list[n])
        BY <1>1, <2>1 DEF AreFor
      <3> QED BY <1>4, <3>1
    <2>2. CASE n \in OfKind(list, intent, "failure")
      <3>1. PICK k \in 1..Len(t) : IsFor(t[k], list[n])
        BY <1>2, <2>2 DEF AreFor
      <3>2. Len(s) + k \in 1..Len(both) /\ both[Len(s) + k] = t[k]
        BY <1>4
      <3> QED BY <3>1, <3>2
    <2> QED BY <1>3, <2>1, <2>2
  <1> QED BY <1>4, <1>5, <1>6 DEF AreFor, both, s, t, list

Topics(map) == IF map.topics = <<>> THEN {"unspecified"} ELSE ToSet(map.topics)
TopicList(map) == IF map.topics = <<>> THEN <<"unspecified">> ELSE map.topics

LEMMA TopicsInTurn ==
  ASSUME NEW map \in MapSet, NEW n \in Nat, n >= 1
  PROVE  /\ TopicList(map)[((n - 1) % Len(TopicList(map))) + 1] \in Topics(map)
         /\ TopicList(map)[((n - 1) % Len(TopicList(map))) + 1] \in Word
  <1> DEFINE list == TopicList(map)
             len == Len(list)
  <1>1. map.topics \in Seq(STRING)
    BY DEF MapSet
  <1>2. list \in Seq(Word) /\ len \in Nat /\ len > 0 /\ \A k \in 1..len : list[k] \in Topics(map)
    <2>1. CASE map.topics = <<>>
      BY <2>1, Words DEF TopicList, Topics
    <2>2. CASE map.topics # <<>>
      <3>1. map.topics \in Seq(Word)
        BY <1>1, Words, ListOfMore
      <3> QED BY <2>2, <3>1 DEF TopicList, Topics, ToSet
    <2> QED BY <2>1, <2>2
  <1> HIDE DEF list, len
  <1>3. (n - 1) % len \in 0..len - 1
    BY <1>2, Divides
  <1>4. ((n - 1) % len) + 1 \in 1..len
    BY <1>2, <1>3
  <1>5. list[((n - 1) % len) + 1] \in Word
    BY <1>2, <1>4 DEF len
  <1> QED BY <1>2, <1>4, <1>5 DEF list, len

\* The cells of the intents are those of the scenarios with a kept intent, each with one of the topics.
LEMMA CellsOfTheIntents ==
  ASSUME NEW map \in MapSet, NEW conf, conf.happy \in Int, conf.failure \in Int
  PROVE  /\ IntentCells(conf, map) \in Seq(CellSet)
         /\ \A k \in 1..Len(IntentCells(conf, map)) : IntentCells(conf, map)[k].topic \in Topics(map)
         /\ AreFor(IntentCells(conf, map), map.scenarios,
                   {n \in DOMAIN map.scenarios : map.scenarios[n].intent \in ToSet(map.intents)})
  <1> DEFINE list == map.scenarios
             ids == map.intents
             K == Len(ids)
             Part(n) == CellsOfIntent(map, ids[n], "happy", conf.happy) \o CellsOfIntent(map, ids[n], "failure", conf.failure)
             parts == [n \in DOMAIN ids |-> Part(n)]
             flat == FlattenSeq(parts)
             topic(n) == TopicList(map)[((n - 1) % Len(TopicList(map))) + 1]
             made == IntentCells(conf, map)
             P == {n \in DOMAIN list : list[n].intent \in ToSet(ids)}
  <1>1. made = [n \in DOMAIN flat |-> [flat[n] EXCEPT !.topic = topic(n)]]
    BY DEF IntentCells, TopicList
  <1>2. ids \in Seq(STRING) /\ K \in Nat /\ DOMAIN ids = 1..K
    BY DEF MapSet
  <1>3. ASSUME NEW n \in 1..K
        PROVE  Part(n) \in Seq(CellSet) /\ AreFor(Part(n), list, OfIntent(list, ids[n]))
    <2>1. ids[n] \in STRING
      BY <1>2
    <2> QED BY <2>1, BothKinds
  <1> HIDE DEF Part
  <1>4. parts \in [1..K -> Seq(CellSet)] /\ \A n \in 1..K : parts[n] = Part(n)
    BY <1>2, <1>3
  <1> HIDE DEF parts, made, ids, K
  <1>5. flat \in Seq(CellSet) /\ FromParts(flat, parts, K)
    BY <1>2, <1>4, FlattenHolds
  <1> HIDE DEF flat
  <1>6. ASSUME NEW k \in 1..Len(flat)
        PROVE  \E n \in P : IsFor(flat[k], list[n]) /\ flat[k].count >= 1 /\ flat[k].multi = 0
    <2>1. PICK m \in 1..K : \E i \in 1..Len(parts[m]) : flat[k] = parts[m][i]
      BY <1>5 DEF FromParts
    <2>2. PICK i \in 1..Len(parts[m]) : flat[k] = parts[m][i]
      BY <2>1
    <2>3. AreFor(parts[m], list, OfIntent(list, ids[m]))
      BY <1>3, <1>4
    <2>4. PICK n \in OfIntent(list, ids[m]) : IsFor(flat[k], list[n])
      BY <2>2, <2>3 DEF AreFor
    <2>5. flat[k].count >= 1 /\ flat[k].multi = 0
      BY <2>2, <2>3 DEF AreFor
    <2>6. n \in P
      BY <1>2 DEF OfIntent, ToSet
    <2> QED BY <2>4, <2>5, <2>6
  <1>7. ASSUME NEW n \in P PROVE \E k \in 1..Len(flat) : IsFor(flat[k], list[n])
    <2>1. PICK m \in 1..K : list[n].intent = ids[m]
      BY <1>2 DEF ToSet
    <2>2. AreFor(parts[m], list, OfIntent(list, ids[m])) /\ n \in OfIntent(list, ids[m])
      BY <1>3, <1>4, <2>1 DEF OfIntent
    <2>3. PICK i \in 1..Len(parts[m]) : IsFor(parts[m][i], list[n])
      BY <2>2 DEF AreFor
    <2>4. PICK k \in 1..Len(flat) : flat[k] = parts[m][i]
      BY <1>5 DEF FromParts
    <2> QED BY <2>3, <2>4
  <1>8. Len(flat) \in Nat /\ DOMAIN flat = 1..Len(flat)
    BY <1>5
  <1>9. ASSUME NEW k \in 1..Len(flat)
        PROVE  /\ made[k] \in CellSet /\ made[k].topic \in Topics(map)
               /\ made[k].count = flat[k].count /\ made[k].multi = flat[k].multi
               /\ \A n : IsFor(flat[k], list[n]) => IsFor(made[k], list[n])
    <2>1. topic(k) \in Word /\ topic(k) \in Topics(map)
      BY <1>8, TopicsInTurn
    <2> HIDE DEF topic
    <2>2. made[k] = [flat[k] EXCEPT !.topic = topic(k)] /\ flat[k] \in CellSet
      BY <1>1, <1>5, <1>8
    <2>3. /\ made[k] \in CellSet /\ made[k].topic = topic(k) /\ made[k].intent = flat[k].intent
          /\ made[k].scenario = flat[k].scenario /\ made[k].kind = flat[k].kind /\ made[k].mode = flat[k].mode
          /\ made[k].count = flat[k].count /\ made[k].multi = flat[k].multi
      BY <2>1, <2>2 DEF CellSet
    <2> QED BY <2>1, <2>3 DEF IsFor
  <1>10. made \in Seq(CellSet) /\ Len(made) = Len(flat)
    <2>1. DOMAIN made = 1..Len(flat) /\ made = [k \in 1..Len(flat) |-> made[k]]
      BY <1>1, <1>8
    <2>2. made \in [1..Len(flat) -> CellSet]
      BY <1>9, <2>1
    <2> QED BY <1>8, <2>1, <2>2
  <1>11. AreFor(made, list, P)
    <2>1. ASSUME NEW k \in 1..Len(flat)
          PROVE  made[k].count >= 1 /\ made[k].multi = 0 /\ \E n \in P : IsFor(made[k], list[n])
      BY <1>6, <1>9
    <2>2. ASSUME NEW n \in P PROVE \E k \in 1..Len(flat) : IsFor(made[k], list[n])
      BY <1>7, <1>9
    <2> QED BY <1>10, <2>1, <2>2 DEF AreFor
  <1> QED BY <1>9, <1>10, <1>11 DEF made, ids
LEMMA CategoriesPlanned ==
  ASSUME NEW map \in MapSet, NEW conf, conf.category \in Int, conf.out \in Int
  PROVE  /\ CategoryCells(conf, map) \in Seq(CellSet)
         /\ \A k \in 1..Len(CategoryCells(conf, map)) :
              LET c == CategoryCells(conf, map)[k]
              IN  /\ c.kind \in {"category", "out-of-intent"} /\ c.count >= 1 /\ c.multi = 0
                  /\ c.kind = "category" => c.mode \in ToSet(map.failures)
         /\ conf.out > 0 => \E k \in 1..Len(CategoryCells(conf, map)) :
              CategoryCells(conf, map)[k].mode = OutOfScope /\ CategoryCells(conf, map)[k].count >= conf.out
         /\ conf.category > 0 => \A f \in ToSet(map.failures) : \E k \in 1..Len(CategoryCells(conf, map)) :
              Key(CategoryCells(conf, map)[k]) = <<CrossCutting, "unspecified", "failure", f>>
  <1> DEFINE made == CategoryCells(conf, map)
             more == conf.out > 0 /\ OutOfScope \notin ToSet(map.failures)
             types == IF more THEN Append(map.failures, OutOfScope) ELSE map.failures
             CellOf(type) == IF type = OutOfScope
               THEN Cell(CrossCutting, "failure", type, "out-of-intent", Greater(conf.category, conf.out))
               ELSE Cell(CrossCutting, "failure", type, "category", conf.category)
             all == [n \in DOMAIN types |-> CellOf(types[n])]
             P == {n \in DOMAIN all : all[n].count > 0}
             K == Len(types)
             size == Cardinality(P)
  <1>1. made = Picked(all, P)
    BY DEF CategoryCells
  <1>2. map.failures \in Seq(STRING) /\ map.failures \in Seq(Word)
    <2>1. map.failures \in Seq(STRING)
      BY DEF MapSet
    <2> QED BY <2>1, Words, ListOfMore
  <1>3. types \in Seq(Word) /\ K \in Nat /\ DOMAIN types = 1..K
    BY <1>2, Words DEF OutOfScope
  <1>4. \A n \in 1..K : types[n] = OutOfScope \/ types[n] \in ToSet(map.failures)
    BY <1>2 DEF ToSet
  <1>5. \A f \in ToSet(map.failures) : \E n \in 1..K : types[n] = f
    <2>1. ASSUME NEW n \in DOMAIN map.failures PROVE n \in 1..K /\ types[n] = map.failures[n]
      BY <1>2
    <2> QED BY <2>1 DEF ToSet
  <1>6. conf.out > 0 => \E n \in 1..K : types[n] = OutOfScope
    <2>1. CASE OutOfScope \in ToSet(map.failures)
      BY <1>5, <2>1
    <2>2. CASE more
      <3>1. K = Len(map.failures) + 1 /\ types[K] = OutOfScope
        BY <1>2, <2>2
      <3> QED BY <1>3, <3>1
    <2> QED BY <2>1, <2>2
  <1>7. \A n \in 1..K : types[n] \in Word
    BY <1>3
  <1> HIDE DEF types, K
  <1> DEFINE amount(type) == IF type = OutOfScope THEN Greater(conf.category, conf.out) ELSE conf.category
             kind(type) == IF type = OutOfScope THEN "out-of-intent" ELSE "category"
  <1>8. ASSUME NEW type
        PROVE  /\ amount(type) \in Int /\ kind(type) \in {"category", "out-of-intent"}
               /\ CellOf(type) = [intent |-> CrossCutting, topic |-> "unspecified", scenario |-> "failure", mode |-> type,
                                  kind |-> kind(type), count |-> amount(type), multi |-> 0]
    BY DEF Greater, Cell
  <1> HIDE DEF CellOf
  <1>9. DOMAIN all = 1..K /\ P \in SUBSET (1..K) /\ \A n \in 1..K : all[n] = CellOf(types[n])
    BY <1>3
  <1>10. ASSUME NEW n \in 1..K
         PROVE  /\ all[n].mode = types[n] /\ all[n].kind = kind(types[n]) /\ all[n].count = amount(types[n])
                /\ all[n].multi = 0 /\ all[n].intent = CrossCutting /\ all[n].topic = "unspecified"
                /\ all[n].scenario = "failure"
                /\ n \in P <=> amount(types[n]) > 0
                /\ n \in P => all[n] \in CellSet
    <2>1. all[n] = [intent |-> CrossCutting, topic |-> "unspecified", scenario |-> "failure", mode |-> types[n],
                    kind |-> kind(types[n]), count |-> amount(types[n]), multi |-> 0]
      BY <1>8, <1>9
    <2>2. amount(types[n]) \in Int /\ kind(types[n]) \in Word
      BY <1>8, Words
    <2>3. types[n] \in Word /\ CrossCutting \in Word /\ {"unspecified", "failure"} \subseteq Word
      BY <1>7, Words DEF CrossCutting
    <2> HIDE DEF amount, kind
    <2>4. n \in P <=> amount(types[n]) > 0
      BY <1>9, <2>1
    <2>5. amount(types[n]) > 0 => all[n] \in CellSet
      <3> HIDE DEF all, P
      <3> QED BY <2>1, <2>2, <2>3 DEF CellSet
    <2> HIDE DEF all, P
    <2> QED BY <2>1, <2>4, <2>5
  <1> HIDE DEF all, P
  <1>11. IsFiniteSet(P) /\ P \in SUBSET Int
    <2>1. IsFiniteSet(1..K)
      BY <1>3, FS_Interval
    <2>2. IsFiniteSet(P)
      BY <1>9, <2>1, FS_Subset
    <2> QED BY <1>3, <1>9, <2>2
  <1>12. /\ size \in Nat /\ Len(made) = size
         /\ \A k \in 1..size : \E n \in P : made[k] = all[n]
         /\ \A n \in P : \E k \in 1..size : made[k] = all[n]
         /\ \A T : (\A n \in P : all[n] \in T) => made \in Seq(T)
    <2> DEFINE p == Picked(all, P)
    <2>1. /\ Cardinality(P) \in Nat /\ Len(p) = Cardinality(P)
          /\ \A T : (\A n \in P : all[n] \in T) => p \in Seq(T)
          /\ \A k \in 1..Cardinality(P) : Ascending(P)[k] \in P /\ p[k] = all[Ascending(P)[k]]
          /\ \A n \in P : \E k \in 1..Cardinality(P) : Ascending(P)[k] = n /\ p[k] = all[n]
      BY <1>11, PickedIs
    <2> HIDE DEF p
    <2>2. p = made
      BY <1>1 DEF p
    <2> QED BY <2>1, <2>2
  <1> HIDE DEF size, made
  <1>13. made \in Seq(CellSet)
    BY <1>9, <1>10, <1>12
  <1>14. ASSUME NEW k \in 1..Len(made)
         PROVE  /\ made[k].kind \in {"category", "out-of-intent"} /\ made[k].count >= 1 /\ made[k].multi = 0
                /\ made[k].kind = "category" => made[k].mode \in ToSet(map.failures)
    <2>1. PICK n \in P : made[k] = all[n]
      BY <1>12
    <2>2. n \in 1..K
      BY <1>9
    <2>3. all[n].kind = "category" => types[n] # OutOfScope
      BY <1>10, <2>2
    <2>4. amount(types[n]) \in Int /\ amount(types[n]) > 0
      BY <1>8, <1>10, <2>1, <2>2
    <2> HIDE DEF amount
    <2> QED BY <1>4, <1>10, <1>8, <2>1, <2>2, <2>3, <2>4
  <1>15. ASSUME conf.out > 0
         PROVE  \E k \in 1..Len(made) : made[k].mode = OutOfScope /\ made[k].count >= conf.out
    <2>1. PICK n \in 1..K : types[n] = OutOfScope
      BY <1>6, <1>15
    <2>2. amount(types[n]) >= conf.out /\ amount(types[n]) > 0
      BY <1>15, <2>1 DEF Greater
    <2> HIDE DEF amount
    <2>3. all[n].mode = OutOfScope /\ all[n].count >= conf.out /\ n \in P
      BY <1>10, <2>1, <2>2
    <2>4. PICK k \in 1..size : made[k] = all[n]
      BY <1>12, <2>3
    <2> QED BY <1>12, <2>3, <2>4
  <1>16. ASSUME conf.category > 0, NEW f \in ToSet(map.failures)
         PROVE  \E k \in 1..Len(made) : Key(made[k]) = <<CrossCutting, "unspecified", "failure", f>>
    <2>1. PICK n \in 1..K : types[n] = f
      BY <1>5
    <2>2. amount(types[n]) > 0
      BY <1>16 DEF Greater
    <2>3. PICK k \in 1..size : made[k] = all[n]
      BY <1>10, <1>12, <2>2
    <2>4. Key(made[k]) = <<CrossCutting, "unspecified", "failure", f>>
      BY <1>10, <2>1, <2>3 DEF Key
    <2> QED BY <1>12, <2>4
  <1> HIDE DEF amount, kind
  <1> QED BY <1>13, <1>14, <1>15, <1>16 DEF made
\* No edge case is in the lists twice.
OnceEach(lists) ==
  \A a, b \in 1..Len(lists) : \A i \in 1..Len(lists[a]), j \in 1..Len(lists[b]) :
    lists[a][i].id = lists[b][j].id => a = b /\ i = j

LEMMA EdgesPlanned ==
  ASSUME NEW lists \in Seq(Seq(EdgeSet)), NEW conf, conf.edges \in Int
  PROVE  /\ EdgeCells(conf, lists) \in Seq(CellSet)
         /\ \A k \in 1..Len(EdgeCells(conf, lists)) :
              LET c == EdgeCells(conf, lists)[k]
              IN  /\ c.kind = SchemaEdge /\ c.count = 1 /\ c.multi = 0
                  /\ \E a \in 1..Len(lists) : \E i \in 1..Len(lists[a]) : c.scenario = lists[a][i].id
         /\ OnceEach(lists) =>
              \A k, m \in 1..Len(EdgeCells(conf, lists)) :
                EdgeCells(conf, lists)[k].scenario = EdgeCells(conf, lists)[m].scenario => k = m
  <1> DEFINE K == Len(lists)
             first(a) == SubSeq(lists[a], 1, Smaller(conf.edges, Len(lists[a])))
             EdgeCell(e) == Cell(CrossCutting, e.id, e.mode, SchemaEdge, 1)
             Part(a) == [j \in DOMAIN first(a) |-> EdgeCell(first(a)[j])]
             parts == [a \in DOMAIN lists |-> Part(a)]
             made == EdgeCells(conf, lists)
  <1>1. made = FlattenSeq(parts)
    BY DEF EdgeCells
  <1>2. K \in Nat /\ DOMAIN lists = 1..K /\ \A a \in 1..K : lists[a] \in Seq(EdgeSet)
    OBVIOUS
  <1>3. ASSUME NEW e \in EdgeSet
        PROVE  /\ EdgeCell(e) \in CellSet /\ EdgeCell(e).kind = SchemaEdge /\ EdgeCell(e).count = 1
               /\ EdgeCell(e).multi = 0 /\ EdgeCell(e).scenario = e.id
    <2>1. e.id \in Word /\ e.mode \in Word /\ CrossCutting \in Word /\ SchemaEdge \in Word /\ "unspecified" \in Word
      BY Words DEF EdgeSet, CrossCutting, SchemaEdge
    <2>2. EdgeCell(e) = [intent |-> CrossCutting, topic |-> "unspecified", scenario |-> e.id, mode |-> e.mode,
                         kind |-> SchemaEdge, count |-> 1, multi |-> 0]
      BY DEF Cell
    <2> QED BY <2>1, <2>2 DEF CellSet
  <1> HIDE DEF EdgeCell
  <1>4. ASSUME NEW a \in 1..K
        PROVE  /\ Part(a) \in Seq(CellSet) /\ Len(Part(a)) <= Len(lists[a])
               /\ \A i \in 1..Len(Part(a)) : Part(a)[i] = EdgeCell(lists[a][i])
    <2> DEFINE list == lists[a]
               n == Smaller(conf.edges, Len(list))
               f == SubSeq(list, 1, n)
               len == IF n >= 1 THEN n ELSE 0
    <2>1. list \in Seq(EdgeSet) /\ Len(list) \in Nat /\ n \in Int /\ n <= Len(list)
      BY <1>2 DEF Smaller
    <2> HIDE DEF list, n
    <2>2. len \in Nat /\ len <= Len(list) /\ DOMAIN f = 1..len /\ \A i \in 1..len : f[i] = list[i] /\ list[i] \in EdgeSet
      BY <2>1
    <2>3. f = first(a)
      BY DEF list, n
    <2> HIDE DEF f, first
    <2>4. Part(a) = [i \in 1..len |-> EdgeCell(list[i])]
      BY <2>2, <2>3
    <2>5. \A i \in 1..len : EdgeCell(list[i]) \in CellSet
      BY <1>3, <2>2
    <2> HIDE DEF len
    <2>6. Part(a) \in [1..len -> CellSet]
      BY <2>4, <2>5
    <2>7. Part(a) \in Seq(CellSet) /\ Len(Part(a)) = len /\ \A i \in 1..len : Part(a)[i] = EdgeCell(list[i])
      <3>1. len \in Nat
        BY <2>2
      <3>2. Part(a) \in Seq(CellSet) /\ Len(Part(a)) = len
        BY <2>6, <3>1
      <3> QED BY <2>4, <3>2
    <2> QED BY <2>2, <2>7 DEF list
  <1> HIDE DEF Part
  <1>5. parts \in [1..K -> Seq(CellSet)] /\ \A a \in 1..K : parts[a] = Part(a)
    BY <1>2, <1>4
  <1>6. /\ K \in Nat
        /\ \A a \in 1..K : \A i \in 1..Len(parts[a]) :
             i \in 1..Len(lists[a]) /\ parts[a][i].kind = SchemaEdge /\ parts[a][i].count = 1
             /\ parts[a][i].multi = 0 /\ parts[a][i].scenario = lists[a][i].id
    <2> SUFFICES ASSUME NEW a \in 1..K, NEW i \in 1..Len(parts[a])
                 PROVE  i \in 1..Len(lists[a]) /\ parts[a][i].kind = SchemaEdge /\ parts[a][i].count = 1
                        /\ parts[a][i].multi = 0 /\ parts[a][i].scenario = lists[a][i].id
      BY <1>2
    <2>1. parts[a] = Part(a) /\ Part(a) \in Seq(CellSet) /\ lists[a] \in Seq(EdgeSet)
      BY <1>2, <1>4, <1>5
    <2>2. i \in 1..Len(lists[a]) /\ Len(lists[a]) \in Nat
      BY <1>4, <2>1
    <2>3. parts[a][i] = EdgeCell(lists[a][i]) /\ lists[a][i] \in EdgeSet
      BY <1>4, <2>1, <2>2
    <2> QED BY <1>3, <2>2, <2>3
  <1> HIDE DEF parts, made, K
  <1>7. PICK off : Counts(off, K, parts)
    BY <1>5, <1>6, CountsExist
  <1>8. made \in Seq(CellSet) /\ Holds(made, K, parts, off)
    BY <1>1, <1>5, <1>6, <1>7, FlattenIs
  <1>9. ASSUME NEW k \in 1..Len(made)
        PROVE  \E a \in 1..K : \E i \in 1..Len(parts[a]) :
                 k = off[a - 1] + i /\ made[k] = parts[a][i] /\ i \in 1..Len(lists[a])
                 /\ made[k].scenario = lists[a][i].id
    <2>1. k \in 1..off[K]
      BY <1>8 DEF Holds
    <2>2. PICK a \in 1..K : \E i \in 1..Len(parts[a]) : k = off[a - 1] + i
      BY <1>8, <2>1 DEF Holds
    <2>3. PICK i \in 1..Len(parts[a]) : k = off[a - 1] + i
      BY <2>2
    <2>4. made[k] = parts[a][i]
      BY <1>8, <2>3 DEF Holds
    <2> QED BY <1>6, <2>3, <2>4
  <1>10. ASSUME NEW k \in 1..Len(made)
         PROVE  /\ made[k].kind = SchemaEdge /\ made[k].count = 1 /\ made[k].multi = 0
                /\ \E a \in 1..K : \E i \in 1..Len(lists[a]) : made[k].scenario = lists[a][i].id
    BY <1>6, <1>9
  <1>11. ASSUME OnceEach(lists), NEW k \in 1..Len(made), NEW m \in 1..Len(made), made[k].scenario = made[m].scenario
         PROVE  k = m
    <2>1. PICK a \in 1..K : \E i \in 1..Len(parts[a]) :
             k = off[a - 1] + i /\ i \in 1..Len(lists[a]) /\ made[k].scenario = lists[a][i].id
      BY <1>9
    <2>2. PICK i \in 1..Len(lists[a]) : k = off[a - 1] + i /\ made[k].scenario = lists[a][i].id
      BY <2>1
    <2>3. PICK b \in 1..K : \E j \in 1..Len(parts[b]) :
             m = off[b - 1] + j /\ j \in 1..Len(lists[b]) /\ made[m].scenario = lists[b][j].id
      BY <1>9
    <2>4. PICK j \in 1..Len(lists[b]) : m = off[b - 1] + j /\ made[m].scenario = lists[b][j].id
      BY <2>3
    <2>5. a = b /\ i = j
      <3>1. \A c, d \in 1..K : \A p \in 1..Len(lists[c]), q \in 1..Len(lists[d]) :
              lists[c][p].id = lists[d][q].id => c = d /\ p = q
        BY <1>11 DEF OnceEach, K
      <3>2. lists[a][i].id = lists[b][j].id
        BY <1>11, <2>2, <2>4
      <3> QED BY <3>1, <3>2
    <2> QED BY <2>2, <2>4, <2>5
  <1> QED BY <1>8, <1>10, <1>11 DEF made, K
----------------------------------------------------------------------------
(* Sums of the beginnings of a list *)

SumTo(numbers, m) == SumOf([i \in 1..m |-> numbers[i]])

LEMMA SumsGrow ==
  ASSUME NEW numbers \in Seq(Nat)
  PROVE  /\ SumTo(numbers, 0) = 0
         /\ SumTo(numbers, Len(numbers)) = SumOf(numbers)
         /\ \A m \in 0..Len(numbers) : SumTo(numbers, m) \in Nat
         /\ \A m \in 1..Len(numbers) : SumTo(numbers, m) = SumTo(numbers, m - 1) + numbers[m]
  <1> DEFINE k == Len(numbers)
  <1>1. k \in Nat
    OBVIOUS
  <1>2. PICK u \in [0..k -> Nat] :
           u[0] = 0 /\ SumOf(numbers) = u[k] /\ \A i \in 1..k : u[i] = u[i - 1] + numbers[i]
    BY SumStepwise
  <1>3. ASSUME NEW m \in 0..k PROVE SumTo(numbers, m) = u[m]
    <2> DEFINE part == [i \in 1..m |-> numbers[i]]
    <2>1. part \in Seq(Nat) /\ Len(part) = m /\ \A i \in 1..m : part[i] = numbers[i]
      BY <1>1
    <2> HIDE DEF part
    <2>2. PICK v \in [0..m -> Nat] :
             v[0] = 0 /\ SumOf(part) = v[m] /\ \A i \in 1..m : v[i] = v[i - 1] + part[i]
      BY <2>1, SumStepwise
    <2> DEFINE T == {i \in 0..m : v[i] = u[i]}
    <2>3. 0 \in T
      BY <1>1, <1>2, <2>2
    <2>4. ASSUME NEW i \in 0..m, i < m, i \in T PROVE i + 1 \in T
      <3>1. i + 1 \in 1..m /\ i + 1 \in 1..k /\ (i + 1) - 1 = i
        BY <1>1, <2>4
      <3>2. v[i + 1] = v[i] + part[i + 1] /\ u[i + 1] = u[i] + numbers[i + 1]
        BY <1>2, <2>2, <3>1
      <3>3. i + 1 \in 0..m
        BY <3>1
      <3> QED BY <2>1, <2>4, <3>1, <3>2, <3>3
    <2>5. 0..m \subseteq T
      <3> HIDE DEF T
      <3>1. m \in Nat
        BY <1>1
      <3> QED BY <2>3, <2>4, <3>1, UpTo
    <2>6. m \in 0..m
      BY <1>1
    <2>7. SumTo(numbers, m) = SumOf(part)
      BY DEF SumTo, part
    <2> QED BY <2>2, <2>5, <2>6, <2>7
  <1> HIDE DEF k
  <1>4. \A m \in 1..k : m \in 0..k /\ m - 1 \in 0..k
    BY <1>1
  <1>5. 0 \in 0..k /\ k \in 0..k
    BY <1>1
  <1> QED BY <1>2, <1>3, <1>4, <1>5 DEF k

LEMMA SumsAreMonotone ==
  ASSUME NEW numbers \in Seq(Nat), NEW a \in 0..Len(numbers), NEW b \in 0..Len(numbers), a <= b
  PROVE  /\ SumTo(numbers, a) <= SumTo(numbers, b)
         /\ \A m \in a + 1..b : SumTo(numbers, a) + numbers[m] <= SumTo(numbers, b)
  <1> DEFINE k == Len(numbers)
             s(m) == SumTo(numbers, m)
  <1>1. /\ k \in Nat /\ \A m \in 0..k : s(m) \in Nat
        /\ \A m \in 1..k : s(m) = s(m - 1) + numbers[m] /\ numbers[m] \in Nat
    BY SumsGrow
  <1> HIDE DEF s, k
  <1>2. a \in 0..k /\ b \in 0..k
    BY DEF k
  <1>3. ASSUME NEW c \in 0..k, NEW d \in 0..k, c <= d PROVE s(c) <= s(d)
    <2> DEFINE T == {i \in 0..d : i >= c => s(c) <= s(i)}
    <2>1. 0 \in T
      BY <1>1
    <2>2. ASSUME NEW i \in 0..d, i < d, i \in T PROVE i + 1 \in T
      <3>1. i + 1 \in 1..k /\ i \in 0..k /\ (i + 1) - 1 = i /\ i + 1 \in 0..d
        BY <1>1, <2>2
      <3>2. s(i + 1) = s(i) + numbers[i + 1] /\ numbers[i + 1] \in Nat /\ s(i) \in Nat
        BY <1>1, <3>1
      <3>3. s(c) \in Nat /\ s(i + 1) \in Nat
        BY <1>1, <3>1, <3>2
      <3>4. CASE i >= c
        BY <2>2, <3>1, <3>2, <3>3, <3>4
      <3>5. CASE ~(i >= c)
        <4>1. i + 1 >= c => i + 1 = c
          BY <3>5
        <4> QED BY <3>1, <3>3, <4>1
      <3> QED BY <3>4, <3>5
    <2>3. 0..d \subseteq T
      <3> HIDE DEF T
      <3>1. d \in Nat
        BY <1>1
      <3> QED BY <2>1, <2>2, <3>1, UpTo
    <2> QED BY <1>3, <2>3
  <1>4. ASSUME NEW m \in a + 1..b PROVE s(a) + numbers[m] <= s(b)
    <2>1. m \in 1..k /\ m - 1 \in 0..k /\ m \in 0..k /\ a <= m - 1 /\ m <= b
      BY <1>1, <1>2
    <2>2. s(a) <= s(m - 1) /\ s(m) <= s(b) /\ s(m) = s(m - 1) + numbers[m]
      BY <1>1, <1>2, <1>3, <2>1
    <2>3. s(a) \in Nat /\ s(m - 1) \in Nat /\ s(m) \in Nat /\ s(b) \in Nat /\ numbers[m] \in Nat
      BY <1>1, <1>2, <2>1
    <2> QED BY <2>2, <2>3
  <1>5. s(a) <= s(b)
    BY <1>2, <1>3
  <1> QED BY <1>4, <1>5 DEF s

\* One number changes, and the sum by as much.
LEMMA SumChangesAt ==
  ASSUME NEW a \in Seq(Nat), NEW b \in Seq(Nat), Len(a) = Len(b), NEW p \in 1..Len(a),
         \A i \in 1..Len(a) : i # p => a[i] = b[i]
  PROVE  SumOf(b) = SumOf(a) + (b[p] - a[p])
  <1> DEFINE k == Len(a)
             s(m) == SumTo(a, m)
             t(m) == SumTo(b, m)
  <1>1. /\ k \in Nat /\ s(0) = 0 /\ s(k) = SumOf(a) /\ \A m \in 0..k : s(m) \in Nat
        /\ \A m \in 1..k : s(m) = s(m - 1) + a[m] /\ a[m] \in Nat
    <2>1. \A m \in 1..k : a[m] \in Nat
      OBVIOUS
    <2> QED BY <2>1, SumsGrow
  <1>2. /\ t(0) = 0 /\ t(k) = SumOf(b) /\ \A m \in 0..k : t(m) \in Nat
        /\ \A m \in 1..k : t(m) = t(m - 1) + b[m] /\ b[m] \in Nat
    <2>1. \A m \in 1..k : b[m] \in Nat
      OBVIOUS
    <2> QED BY <2>1, SumsGrow
  <1> HIDE DEF s, t, k
  <1>3. p \in 1..k /\ \A i \in 1..k : i # p => a[i] = b[i]
    BY DEF k
  <1> DEFINE T == {i \in 0..k : t(i) = s(i) + (IF i >= p THEN b[p] - a[p] ELSE 0)}
  <1>4. 0 \in T
    BY <1>1, <1>2, <1>3
  <1>5. ASSUME NEW i \in 0..k, i < k, i \in T PROVE i + 1 \in T
    <2>1. i + 1 \in 1..k /\ (i + 1) - 1 = i /\ i + 1 \in 0..k
      BY <1>1, <1>5
    <2>2. s(i + 1) = s(i) + a[i + 1] /\ t(i + 1) = t(i) + b[i + 1] /\ a[i + 1] \in Nat /\ b[i + 1] \in Nat
          /\ s(i) \in Nat /\ t(i) \in Nat
      BY <1>1, <1>2, <2>1
    <2>3. a[p] \in Nat /\ b[p] \in Nat
      BY <1>1, <1>2, <1>3
    <2>4. t(i) = s(i) + (IF i >= p THEN b[p] - a[p] ELSE 0)
      BY <1>5
    <2>5. CASE i + 1 = p
      <3>1. ~(i >= p) /\ i + 1 >= p
        BY <2>5, <1>3
      <3>2. t(i + 1) = s(i + 1) + (b[p] - a[p])
        BY <2>2, <2>3, <2>4, <2>5, <3>1
      <3> QED BY <2>1, <3>1, <3>2
    <2>6. CASE i + 1 # p
      <3>1. (i >= p) <=> (i + 1 >= p)
        BY <2>6, <1>3
      <3>2. a[i + 1] = b[i + 1]
        BY <1>3, <2>1, <2>6
      <3>3. t(i + 1) = s(i + 1) + (IF i >= p THEN b[p] - a[p] ELSE 0)
        <4>1. CASE i >= p
          <5> DEFINE d == b[p] - a[p]
          <5>1. d \in Int
            BY <2>3
          <5>2. t(i) = s(i) + d
            BY <2>4, <4>1
          <5> HIDE DEF d
          <5>3. t(i + 1) = s(i + 1) + d
            BY <2>2, <3>2, <5>1, <5>2
          <5> QED BY <4>1, <5>3 DEF d
        <4>2. CASE ~(i >= p)
          BY <2>2, <2>3, <2>4, <3>2, <4>2
        <4> QED BY <4>1, <4>2
      <3> QED BY <2>1, <3>1, <3>3
    <2> QED BY <2>5, <2>6
  <1>6. 0..k \subseteq T
    <2> HIDE DEF T
    <2> QED BY <1>1, <1>4, <1>5, UpTo
  <1>7. k \in 0..k /\ k >= p
    BY <1>1, <1>3
  <1>8. t(k) = s(k) + (b[p] - a[p])
    BY <1>6, <1>7
  <1> QED BY <1>1, <1>2, <1>8
----------------------------------------------------------------------------
(* The floor on the size *)

\* The shares up to the k-th.
SharesTo(total, buckets, k) ==
  LET all == Greater(total, buckets) IN k * (all \div buckets) + Smaller(k, all % buckets)

LEMMA SharesAddUp ==
  ASSUME NEW total \in Int, NEW buckets \in Nat, buckets > 0
  PROVE  /\ SharesTo(total, buckets, 0) = 0
         /\ \A k \in 0..buckets : SharesTo(total, buckets, k) \in Nat
         /\ \A k \in 1..buckets :
              SharesTo(total, buckets, k) = SharesTo(total, buckets, k - 1) + Spread(total, buckets)[k]
         /\ SharesTo(total, buckets, buckets) >= total
  <1> DEFINE all == Greater(total, buckets)
             q == all \div buckets
             r == all % buckets
             e(k) == SharesTo(total, buckets, k)
  <1>1. all \in Nat /\ all >= total /\ all >= buckets
    BY DEF Greater
  <1>2. q \in Nat /\ r \in 0..buckets - 1 /\ all = buckets * q + r
    BY <1>1, Divides
  <1>3. \A k \in Int : e(k) = k * q + Smaller(k, r)
    BY DEF SharesTo
  <1>4. \A k \in 1..buckets : Spread(total, buckets)[k] = q + (IF k <= r THEN 1 ELSE 0)
    BY DEF Spread
  <1> HIDE DEF all, q, r, e
  <1>5. e(0) = 0
    BY <1>2, <1>3 DEF Smaller
  <1>6. ASSUME NEW k \in 0..buckets PROVE e(k) \in Nat
    <2>1. k * q \in Nat /\ Smaller(k, r) \in Nat
      BY <1>2 DEF Smaller
    <2> QED BY <1>3, <2>1
  <1>7. ASSUME NEW k \in 1..buckets PROVE e(k) = e(k - 1) + Spread(total, buckets)[k]
    <2>1. k * q = (k - 1) * q + q
      BY <1>2
    <2>2. k * q \in Int /\ (k - 1) * q \in Int
      BY <1>2
    <2>3. Smaller(k, r) = Smaller(k - 1, r) + (IF k <= r THEN 1 ELSE 0)
      BY <1>2 DEF Smaller
    <2>4. Smaller(k, r) \in Int /\ Smaller(k - 1, r) \in Int
      BY <1>2 DEF Smaller
    <2>5. e(k) = k * q + Smaller(k, r) /\ e(k - 1) = (k - 1) * q + Smaller(k - 1, r)
      BY <1>3
    <2> DEFINE x == k * q
               y == (k - 1) * q
    <2>6. x \in Int /\ y \in Int /\ x = y + q /\ e(k) = x + Smaller(k, r) /\ e(k - 1) = y + Smaller(k - 1, r)
      BY <2>1, <2>2, <2>5
    <2> HIDE DEF x, y
    <2> QED BY <1>2, <1>4, <2>3, <2>4, <2>6
  <1>8. e(buckets) >= total
    <2>1. e(buckets) = buckets * q + r
      <3>1. e(buckets) = buckets * q + Smaller(buckets, r)
        BY <1>3
      <3>2. Smaller(buckets, r) = r
        BY <1>2 DEF Smaller
      <3> QED BY <3>1, <3>2
    <2> QED BY <1>1, <1>2, <2>1
  <1> QED BY <1>5, <1>6, <1>7, <1>8 DEF e

\* How many members of a set of numbers are not greater than n.
LEMMA RanksGrow ==
  ASSUME NEW k \in Nat, NEW S \in SUBSET (1..k)
  PROVE  LET Rank(n) == Cardinality({m \in S : m <= n})
         IN  /\ Rank(0) = 0 /\ Rank(k) = Cardinality(S) /\ Cardinality(S) \in Nat
             /\ \A n \in 0..k : Rank(n) \in 0..Cardinality(S)
             /\ \A n \in 1..k : Rank(n) = Rank(n - 1) + (IF n \in S THEN 1 ELSE 0)
             /\ \A n \in S : Rank(n) \in 1..Cardinality(S)
  <1> DEFINE Upto(n) == {m \in S : m <= n}
             Rank(n) == Cardinality(Upto(n))
  <1>0. \A m \in S : m \in Int /\ 1 <= m /\ m <= k
    OBVIOUS
  <1>1. IsFiniteSet(S) /\ Cardinality(S) \in Nat
    <2>1. IsFiniteSet(1..k)
      BY FS_Interval
    <2>2. IsFiniteSet(S)
      BY <2>1, FS_Subset
    <2> QED BY <2>2, FS_CardinalityType
  <1>2. ASSUME NEW n \in 0..k PROVE IsFiniteSet(Upto(n)) /\ Rank(n) \in 0..Cardinality(S)
    <2>1. Upto(n) \in SUBSET S
      OBVIOUS
    <2> HIDE DEF Upto
    <2>2. IsFiniteSet(Upto(n)) /\ Cardinality(Upto(n)) <= Cardinality(S)
      BY <1>1, <2>1, FS_Subset
    <2>3. Cardinality(Upto(n)) \in Nat
      BY <2>2, FS_CardinalityType
    <2> QED BY <1>1, <2>2, <2>3
  <1>3. Rank(0) = 0
    <2>1. Upto(0) = {}
      <3>1. \A m \in S : ~(m <= 0)
        BY <1>0
      <3> QED BY <3>1
    <2> QED BY <2>1, FS_EmptySet
  <1>4. Rank(k) = Cardinality(S)
    <2>1. Upto(k) = S
      BY <1>0
    <2> HIDE DEF Upto
    <2> QED BY <2>1
  <1>5. ASSUME NEW n \in 1..k PROVE Rank(n) = Rank(n - 1) + (IF n \in S THEN 1 ELSE 0)
    <2>1. n - 1 \in 0..k /\ n \notin Upto(n - 1)
      OBVIOUS
    <2>2. IsFiniteSet(Upto(n - 1)) /\ Rank(n - 1) \in Nat
      <3> HIDE DEF Rank, Upto
      <3>1. IsFiniteSet(Upto(n - 1)) /\ Rank(n - 1) \in 0..Cardinality(S)
        BY <1>2, <2>1
      <3> QED BY <1>1, <3>1
    <2>3. CASE n \in S
      <3>1. Upto(n) = Upto(n - 1) \cup {n}
        <4>1. \A m \in S : m <= n <=> m <= n - 1 \/ m = n
          BY <1>0
        <4> QED BY <2>3, <4>1
      <3> HIDE DEF Upto
      <3>2. Cardinality(Upto(n - 1) \cup {n}) = Cardinality(Upto(n - 1)) + 1
        BY <2>1, <2>2, FS_AddElement
      <3> QED BY <2>3, <3>1, <3>2
    <2>4. CASE n \notin S
      <3>1. Upto(n) = Upto(n - 1)
        <4>1. \A m \in S : m <= n <=> m <= n - 1
          BY <1>0, <2>4
        <4> QED BY <4>1
      <3> HIDE DEF Upto
      <3> QED BY <2>2, <2>4, <3>1
    <2> QED BY <2>3, <2>4
  <1>6. ASSUME NEW n \in S PROVE Rank(n) \in 1..Cardinality(S)
    <2>1. n \in 1..k /\ n \in 0..k /\ n - 1 \in 0..k
      OBVIOUS
    <2>2. Rank(n) = Rank(n - 1) + 1 /\ Rank(n - 1) \in 0..Cardinality(S) /\ Rank(n) \in 0..Cardinality(S)
      <3> HIDE DEF Rank
      <3> QED BY <1>2, <1>5, <2>1
    <2> HIDE DEF Rank
    <2> QED BY <1>1, <2>2
  <1> HIDE DEF Upto
  <1>7. /\ Rank(0) = 0 /\ Rank(k) = Cardinality(S) /\ Cardinality(S) \in Nat
        /\ \A n \in 0..k : Rank(n) \in 0..Cardinality(S)
        /\ \A n \in 1..k : Rank(n) = Rank(n - 1) + (IF n \in S THEN 1 ELSE 0)
        /\ \A n \in S : Rank(n) \in 1..Cardinality(S)
    BY <1>1, <1>2, <1>3, <1>4, <1>5, <1>6
  <1> QED BY <1>7 DEF Upto
\* The same cell, but for how many cases.
SameCell(new, old) ==
  /\ new.intent = old.intent /\ new.topic = old.topic /\ new.scenario = old.scenario
  /\ new.mode = old.mode /\ new.kind = old.kind

CountsOf(plan) == [n \in DOMAIN plan |-> plan[n].count]

LEMMA CountsAreNumbers ==
  ASSUME NEW plan \in Seq(CellSet)
  PROVE  /\ CountsOf(plan) \in Seq(Nat) /\ Len(CountsOf(plan)) = Len(plan)
         /\ \A n \in 1..Len(plan) : CountsOf(plan)[n] = plan[n].count /\ plan[n].count \in Nat
         /\ Planned(plan) = SumOf(CountsOf(plan))
  <1> DEFINE k == Len(plan)
  <1>1. k \in Nat /\ DOMAIN plan = 1..k /\ \A n \in 1..k : plan[n] \in CellSet
    OBVIOUS
  <1>2. \A n \in 1..k : plan[n].count \in Nat
    BY <1>1 DEF CellSet
  <1>3. CountsOf(plan) = [n \in 1..k |-> plan[n].count]
    BY <1>1 DEF CountsOf
  <1>4. CountsOf(plan) \in [1..k -> Nat]
    BY <1>2, <1>3
  <1> HIDE DEF k
  <1>5. CountsOf(plan) \in Seq(Nat) /\ Len(CountsOf(plan)) = k
    BY <1>1, <1>4
  <1>6. Planned(plan) = SumOf(CountsOf(plan))
    BY DEF Planned, CountsOf
  <1> QED BY <1>2, <1>3, <1>5, <1>6 DEF k

LEMMA FloorAdds ==
  ASSUME NEW plan \in Seq(CellSet), NEW conf, conf.total \in Int
  PROVE  /\ WithFloor(conf, plan) \in Seq(CellSet) /\ Len(WithFloor(conf, plan)) = Len(plan)
         /\ \A n \in 1..Len(plan) :
              /\ SameCell(WithFloor(conf, plan)[n], plan[n])
              /\ WithFloor(conf, plan)[n].multi = plan[n].multi
              /\ WithFloor(conf, plan)[n].count >= plan[n].count
         /\ (\E n \in 1..Len(plan) : plan[n].kind = "happy") => Planned(WithFloor(conf, plan)) >= conf.total
  <1> DEFINE K == Len(plan)
             happy == {n \in DOMAIN plan : plan[n].kind = "happy"}
             size == Cardinality(happy)
             short == conf.total - Planned(plan)
             Rank(n) == Cardinality({m \in happy : m <= n})
             new == WithFloor(conf, plan)
             share(n) == Spread(short, size)[n]
             e(k) == SharesTo(short, size, k)
  <1>1. K \in Nat /\ DOMAIN plan = 1..K /\ \A n \in 1..K : plan[n] \in CellSet
    OBVIOUS
  <1>2. \A n \in 1..K : plan[n].count \in Nat
    BY CountsAreNumbers
  <1>3. Planned(plan) \in Nat
    <2>1. CountsOf(plan) \in Seq(Nat) /\ Planned(plan) = SumOf(CountsOf(plan))
      BY CountsAreNumbers
    <2> DEFINE c == CountsOf(plan)
    <2> HIDE DEF c
    <2>2. c \in Seq(Nat) /\ Planned(plan) = SumOf(c)
      BY <2>1 DEF c
    <2>3. SumTo(c, Len(c)) = SumOf(c) /\ SumTo(c, Len(c)) \in Nat
      BY <2>2, SumsGrow
    <2> QED BY <2>2, <2>3
  <1>4. short \in Int
    BY <1>3
  <1>5. happy \in SUBSET (1..K) /\ \A n \in 1..K : n \in happy <=> plan[n].kind = "happy"
    BY <1>1
  <1>6. CASE Planned(plan) >= conf.total
    <2>1. new = plan
      BY <1>6 DEF WithFloor
    <2>2. \A n \in 1..K : plan[n].count >= plan[n].count
      BY <1>2
    <2> HIDE DEF new
    <2> QED BY <1>6, <2>1, <2>2 DEF SameCell, new
  <1>7. CASE ~(Planned(plan) >= conf.total)
    <2>1. new = [n \in DOMAIN plan |->
                   IF n \in happy THEN [plan[n] EXCEPT !.count = @ + share(Rank(n))] ELSE plan[n]]
      BY <1>7 DEF WithFloor
    <2> HIDE DEF new, happy, short, K
    <2>2. /\ Rank(0) = 0 /\ Rank(K) = size /\ size \in Nat
          /\ \A n \in 0..K : Rank(n) \in 0..size
          /\ \A n \in 1..K : Rank(n) = Rank(n - 1) + (IF n \in happy THEN 1 ELSE 0)
          /\ \A n \in happy : Rank(n) \in 1..size
      BY <1>1, <1>5, RanksGrow
    <2> HIDE DEF Rank, size
    <2>3. \A n \in 1..size : share(n) \in Nat
      BY <1>4, <2>2, SharesAreFilled
    <2> HIDE DEF share
    <2>4. ASSUME NEW n \in 1..K
          PROVE  /\ new[n] \in CellSet /\ SameCell(new[n], plan[n]) /\ new[n].multi = plan[n].multi
                 /\ new[n].count = plan[n].count + (IF n \in happy THEN share(Rank(n)) ELSE 0)
                 /\ new[n].count >= plan[n].count
      <3>1. CASE n \in happy
        <4>1. new[n] = [plan[n] EXCEPT !.count = @ + share(Rank(n))] /\ plan[n] \in CellSet
          BY <1>1, <2>1, <3>1
        <4>2. share(Rank(n)) \in Nat
          BY <2>2, <2>3, <3>1
        <4>3. plan[n].count \in Nat /\ plan[n].count + share(Rank(n)) \in Nat
          BY <1>2, <4>2
        <4>4. new[n] \in CellSet /\ new[n].count = plan[n].count + share(Rank(n)) /\ new[n].multi = plan[n].multi
              /\ SameCell(new[n], plan[n])
          BY <4>1, <4>3 DEF CellSet, SameCell
        <4> QED BY <3>1, <4>2, <4>3, <4>4
      <3>2. CASE n \notin happy
        <4>1. new[n] = plan[n] /\ plan[n] \in CellSet /\ plan[n].count \in Nat
          BY <1>1, <1>2, <2>1, <3>2
        <4> QED BY <3>2, <4>1 DEF SameCell
      <3> QED BY <3>1, <3>2
    <2>5. new \in Seq(CellSet) /\ Len(new) = K
      <3>1. new = [n \in 1..K |-> new[n]]
        BY <1>1, <2>1
      <3>2. new \in [1..K -> CellSet]
        BY <2>4, <3>1
      <3> QED BY <1>1, <3>1, <3>2
    <2>6. ASSUME NEW p \in 1..K, plan[p].kind = "happy" PROVE Planned(new) >= conf.total
      <3> DEFINE s(n) == SumTo(CountsOf(plan), n)
                 t(n) == SumTo(CountsOf(new), n)
      <3>1. /\ s(0) = 0 /\ s(K) = Planned(plan) /\ \A n \in 0..K : s(n) \in Nat
            /\ \A n \in 1..K : s(n) = s(n - 1) + plan[n].count
        BY CountsAreNumbers, SumsGrow DEF K
      <3>2. /\ t(0) = 0 /\ t(K) = Planned(new) /\ \A n \in 0..K : t(n) \in Nat
            /\ \A n \in 1..K : t(n) = t(n - 1) + new[n].count
        <4> DEFINE c == CountsOf(new)
        <4>1. c \in Seq(Nat) /\ Len(c) = K /\ Planned(new) = SumOf(c) /\ \A n \in 1..K : c[n] = new[n].count
          BY <2>5, CountsAreNumbers
        <4> HIDE DEF c
        <4>2. /\ SumTo(c, 0) = 0 /\ SumTo(c, K) = SumOf(c) /\ \A n \in 0..K : SumTo(c, n) \in Nat
              /\ \A n \in 1..K : SumTo(c, n) = SumTo(c, n - 1) + c[n]
          BY <4>1, SumsGrow
        <4>3. \A n : t(n) = SumTo(c, n)
          BY DEF c
        <4> HIDE DEF t
        <4> QED BY <4>1, <4>2, <4>3
      <3>3. size > 0
        BY <1>5, <2>2, <2>6
      <3>4. /\ e(0) = 0 /\ \A k \in 0..size : e(k) \in Nat
            /\ \A k \in 1..size : e(k) = e(k - 1) + share(k)
            /\ e(size) >= short
        BY <1>4, <2>2, <3>3, SharesAddUp DEF share
      <3> HIDE DEF s, t, e
      <3> DEFINE T == {n \in 0..K : t(n) = s(n) + e(Rank(n))}
      <3>5. 0 \in T
        BY <1>1, <2>2, <3>1, <3>2, <3>4
      <3>6. ASSUME NEW n \in 0..K, n < K, n \in T PROVE n + 1 \in T
        <4>1. n + 1 \in 1..K /\ (n + 1) - 1 = n /\ n + 1 \in 0..K
          BY <1>1, <3>6
        <4>2. t(n + 1) = t(n) + new[n + 1].count /\ s(n + 1) = s(n) + plan[n + 1].count
              /\ t(n) \in Nat /\ s(n) \in Nat /\ plan[n + 1].count \in Nat /\ t(n) = s(n) + e(Rank(n))
          BY <1>2, <3>1, <3>2, <3>6, <4>1
        <4>3. e(Rank(n)) \in Nat /\ Rank(n) \in 0..size
          BY <2>2, <3>4
        <4>4. CASE n + 1 \in happy
          <5>1. Rank(n + 1) = Rank(n) + 1 /\ Rank(n + 1) \in 1..size
            BY <2>2, <4>1, <4>4
          <5>2. (Rank(n) + 1) - 1 = Rank(n)
            BY <4>3
          <5>3. e(Rank(n + 1)) = e(Rank(n)) + share(Rank(n + 1)) /\ share(Rank(n + 1)) \in Nat
            BY <2>3, <3>4, <5>1, <5>2
          <5>4. new[n + 1].count = plan[n + 1].count + share(Rank(n + 1))
            BY <2>4, <4>1, <4>4
          <5> QED BY <4>1, <4>2, <4>3, <5>3, <5>4
        <4>5. CASE n + 1 \notin happy
          <5>1. Rank(n + 1) = Rank(n)
            BY <2>2, <4>1, <4>3, <4>5
          <5>2. new[n + 1].count = plan[n + 1].count
            BY <2>4, <4>1, <4>2, <4>5
          <5> QED BY <4>1, <4>2, <4>3, <5>1, <5>2
        <4> QED BY <4>4, <4>5
      <3>7. 0..K \subseteq T
        <4> HIDE DEF T
        <4> QED BY <1>1, <3>5, <3>6, UpTo
      <3>8. K \in 0..K
        BY <1>1
      <3>9. t(K) = s(K) + e(size)
        BY <2>2, <3>7, <3>8
      <3>10. e(size) \in Nat /\ e(size) >= conf.total - Planned(plan)
        BY <2>2, <3>4 DEF short
      <3> QED BY <1>3, <3>1, <3>2, <3>9, <3>10
    <2> QED BY <2>4, <2>5, <2>6 DEF new, K
  <1> QED BY <1>6, <1>7
----------------------------------------------------------------------------
(* The share of conversations *)

LEMMA ZerosAddUp ==
  ASSUME NEW numbers \in Seq(Nat), \A n \in 1..Len(numbers) : numbers[n] = 0
  PROVE  SumOf(numbers) = 0
  <1> DEFINE k == Len(numbers)
             s(n) == SumTo(numbers, n)
             T == {n \in 0..k : s(n) = 0}
  <1>1. /\ k \in Nat /\ s(0) = 0 /\ s(k) = SumOf(numbers)
        /\ \A n \in 1..k : s(n) = s(n - 1) + numbers[n] /\ numbers[n] = 0
    BY SumsGrow
  <1> HIDE DEF s, k
  <1>2. 0 \in T
    BY <1>1
  <1>3. ASSUME NEW n \in 0..k, n < k, n \in T PROVE n + 1 \in T
    <2>1. n + 1 \in 1..k /\ (n + 1) - 1 = n /\ n + 1 \in 0..k
      BY <1>1, <1>3
    <2>2. s(n + 1) = s(n) + numbers[n + 1] /\ numbers[n + 1] = 0 /\ s(n) = 0
      BY <1>1, <1>3, <2>1
    <2> QED BY <2>1, <2>2
  <1>4. 0..k \subseteq T
    <2> HIDE DEF T
    <2> QED BY <1>1, <1>2, <1>3, UpTo
  <1>5. k \in 0..k
    BY <1>1
  <1> QED BY <1>1, <1>4, <1>5

\* A cell takes no more than is wanted, and than it has cases.
LEMMA TakesWhatIsThere ==
  ASSUME NEW count \in Nat, NEW wanted \in Nat
  PROVE  Take(count, wanted) \in Nat /\ Take(count, wanted) <= count /\ Take(count, wanted) <= wanted
  <1> DEFINE half == wanted \div 2
  <1>1. half \in Nat /\ wanted = 2 * half + (wanted % 2) /\ wanted % 2 \in 0..1
    BY Divides
  <1> HIDE DEF half
  <1>2. half <= wanted
    BY <1>1
  <1>3. Take(count, wanted) = IF wanted <= 0 THEN 0 ELSE Smaller(count, Greater(1, half))
    BY DEF Take, half
  <1> QED BY <1>1, <1>2, <1>3 DEF Smaller, Greater

LEMMA RoundedUp == ASSUME NEW x \in Nat PROVE RoundPercent(x) \in Nat
  <1>1. x \div 100 \in Nat
    BY Divides
  <1> QED BY <1>1 DEF RoundPercent

\* Every place of a cell of an intent has its turn.
LEMMA TurnsOfAll ==
  ASSUME NEW plan \in Seq(CellSet)
  PROVE  LET places == {n \in DOMAIN plan : plan[n].kind \in {"happy", "failure"}}
             order == MultiTurnOrder(plan)
             N == Cardinality(places)
         IN  /\ N \in Nat /\ order \in [1..N -> places]
             /\ \A n \in places : \E k \in 1..N : order[k] = n
             /\ \A i, j \in 1..N : order[i] = order[j] => i = j
  <1> DEFINE places == {n \in DOMAIN plan : plan[n].kind \in {"happy", "failure"}}
             Before(a, b) == plan[a].count > plan[b].count \/ (plan[a].count = plan[b].count /\ a < b)
             R == {p \in places \X places : Before(p[1], p[2])}
             order == MultiTurnOrder(plan)
             N == Cardinality(places)
  <1>1. places \in SUBSET Int /\ IsFiniteSet(places) /\ places \subseteq DOMAIN plan
    <2> DEFINE P == places
    <2>1. P \in SUBSET DOMAIN plan
      OBVIOUS
    <2> HIDE DEF P
    <2>2. P \in SUBSET Int /\ IsFiniteSet(P)
      BY <2>1, FinitePlaces
    <2> QED BY <2>1, <2>2 DEF P
  <1>2. \A n \in places : plan[n].count \in Nat
    BY CountsAreNumbers
  <1> HIDE DEF places
  <1>3. \A x, y \in places : <<x, y>> \in R <=> Before(x, y)
    OBVIOUS
  <1>4. Orders(R, places)
    <2> HIDE DEF R
    <2>1. \A x \in places : <<x, x>> \notin R
      BY <1>1, <1>2, <1>3
    <2>2. \A x, y \in places : x # y => <<x, y>> \in R \/ <<y, x>> \in R
      BY <1>1, <1>2, <1>3
    <2>3. \A x, y, z \in places : <<x, y>> \in R /\ <<y, z>> \in R => <<x, z>> \in R
      BY <1>1, <1>2, <1>3
    <2> QED BY <2>1, <2>2, <2>3 DEF Orders
  <1>5. order = Ranked(places, R)
    BY DEF MultiTurnOrder, places
  <1> HIDE DEF R, order
  <1>6. /\ N \in Nat /\ order \in [1..N -> places]
        /\ \A n \in places : \E k \in 1..N : order[k] = n
        /\ \A i, j \in 1..N : i < j => <<order[i], order[j]>> \in R
    BY <1>1, <1>4, <1>5, RankedInOrder
  <1>7. ASSUME NEW i \in 1..N, NEW j \in 1..N, order[i] = order[j] PROVE i = j
    <2>1. order[i] \in places /\ <<order[i], order[i]>> \notin R
      BY <1>4, <1>6 DEF Orders
    <2>2. ~(i < j) /\ ~(j < i)
      BY <1>6, <1>7, <2>1
    <2> HIDE DEF N
    <2> QED BY <1>6, <2>2
  <1> QED BY <1>6, <1>7 DEF places, order
\* No cell has more conversations than cases, and all of them together no more than the share.
LEMMA ConversationsShared ==
  ASSUME NEW plan \in Seq(CellSet), \A n \in 1..Len(plan) : plan[n].multi = 0,
         NEW conf, conf.share \in 0..100
  PROVE  LET new == WithMultiTurn(conf, plan)
         IN  /\ new \in Seq(CellSet) /\ Len(new) = Len(plan)
             /\ \A n \in 1..Len(plan) : SameCell(new[n], plan[n]) /\ new[n].count = plan[n].count
             /\ \A n \in 1..Len(plan) : new[n].multi <= new[n].count
             /\ SumOf([n \in DOMAIN new |-> new[n].multi]) <= RoundPercent(Planned(new) * conf.share)
  <1> DEFINE K == Len(plan)
             order == MultiTurnOrder(plan)
             places == {n \in DOMAIN plan : plan[n].kind \in {"happy", "failure"}}
             N == Cardinality(places)
             new == WithMultiTurn(conf, plan)
             most == RoundPercent(Planned(plan) * conf.share)
             Turn(n) == CHOOSE k \in DOMAIN order : order[k] = n
             Goes(f) == f = [k \in 0..Len(order) |->
                               IF k = 0 THEN most ELSE f[k - 1] - Take(plan[order[k]].count, f[k - 1])]
             Shares(f) == new = [n \in DOMAIN plan |->
                                   IF plan[n].kind \in {"happy", "failure"}
                                     THEN [plan[n] EXCEPT !.multi = Take(plan[n].count, f[Turn(n) - 1])] ELSE plan[n]]
  <1>1. K \in Nat /\ DOMAIN plan = 1..K /\ \A n \in 1..K : plan[n] \in CellSet /\ plan[n].count \in Nat
    <2>1. \A n \in 1..K : plan[n].count \in Nat
      BY CountsAreNumbers
    <2> QED BY <2>1
  <1>2. /\ N \in Nat /\ order \in [1..N -> places]
        /\ \A n \in places : \E k \in 1..N : order[k] = n
        /\ \A i, j \in 1..N : order[i] = order[j] => i = j
    BY TurnsOfAll
  <1>3. most \in Nat
    <2> DEFINE p == Planned(plan)
               c == CountsOf(plan)
    <2>1. c \in Seq(Nat) /\ p = SumOf(c)
      BY CountsAreNumbers
    <2> HIDE DEF p, c
    <2>2. SumTo(c, Len(c)) = SumOf(c) /\ SumTo(c, Len(c)) \in Nat
      BY <2>1, SumsGrow
    <2>3. p \in Nat
      BY <2>1, <2>2
    <2> DEFINE s == conf.share
    <2>4. s \in 0..100
      BY Zenon
    <2> HIDE DEF s
    <2>5. p * s \in Nat
      BY <2>3, <2>4
    <2> DEFINE x == p * s
    <2>6. x \in Nat /\ most = RoundPercent(x)
      BY <2>5 DEF p, s
    <2> HIDE DEF x, most
    <2> QED BY <2>6, RoundedUp
  <1>4. \A n \in 1..K : n \in places <=> plan[n].kind \in {"happy", "failure"}
    BY <1>1
  <1>5. places \subseteq 1..K
    BY <1>1
  <1>6. \E f : Goes(f) /\ Shares(f)
    <2> DEFINE f == CHOOSE f : Goes(f)
    <2>1. Shares(f)
      BY Zenon DEF WithMultiTurn
    <2>2. \E g : Goes(g)
      <3> DEFINE step == [i \in 1..N |-> [d \in Nat |-> d - Take(plan[order[i]].count, d)]]
      <3>1. step \in [1..N -> [Nat -> Nat]]
        <4>1. ASSUME NEW i \in 1..N, NEW d \in Nat PROVE d - Take(plan[order[i]].count, d) \in Nat
          <5> DEFINE c == plan[order[i]].count
          <5>1. c \in Nat
            BY <1>1, <1>2, <1>5
          <5> HIDE DEF c
          <5>2. Take(c, d) \in Nat /\ Take(c, d) <= d
            BY <5>1, TakesWhatIsThere
          <5>3. d - Take(c, d) \in Nat
            BY <5>2
          <5> QED BY <5>3 DEF c
        <4> QED BY <4>1
      <3> HIDE DEF step, most, N, places, order
      <3>2. PICK h \in [0..N -> Nat] : Steps(h, N, most, step)
        BY <1>2, <1>3, <3>1, StepByStep
      <3>3. ASSUME NEW n \in 0..N PROVE h[n] = IF n = 0 THEN most ELSE h[n - 1] - Take(plan[order[n]].count, h[n - 1])
        <4>1. h[n] = IF n = 0 THEN most ELSE step[n][h[n - 1]]
          BY <3>2 DEF Steps
        <4>2. n # 0 => n \in 1..N /\ n - 1 \in 0..N
          BY <1>2
        <4> QED BY <3>2, <4>1, <4>2 DEF step
      <3>4. Len(order) = N
        BY <1>2
      <3>5. Goes(h)
        BY <3>2, <3>3, <3>4
      <3> QED BY <3>5
    <2>3. Goes(f)
      <3> HIDE DEF Goes
      <3> QED BY <2>2
    <2> HIDE DEF f, Goes, Shares
    <2> QED BY <2>1, <2>3
  <1>7. PICK f : Goes(f) /\ Shares(f)
    BY <1>6
  <1> HIDE DEF most, order, places, N
  <1>8. Len(order) = N /\ DOMAIN order = 1..N
    BY <1>2
  <1>9. \A k \in 0..N : f[k] = IF k = 0 THEN most ELSE f[k - 1] - Take(plan[order[k]].count, f[k - 1])
    BY <1>7, <1>8
  <1> DEFINE T == {k \in 0..N : f[k] \in Nat}
  <1>10. 0 \in T
    BY <1>2, <1>3, <1>9
  <1>11. ASSUME NEW k \in 1..N
         PROVE  /\ k - 1 \in 0..N /\ order[k] \in 1..K /\ plan[order[k]].count \in Nat
                /\ f[k] = f[k - 1] - Take(plan[order[k]].count, f[k - 1])
    <2>1. k \in 0..N /\ k # 0 /\ k - 1 \in 0..N /\ order[k] \in 1..K
      BY <1>2, <1>5
    <2> QED BY <1>1, <1>9, <2>1
  <1>12. ASSUME NEW k \in 0..N, k < N, k \in T PROVE k + 1 \in T
    <2>1. k + 1 \in 1..N /\ (k + 1) - 1 = k /\ k + 1 \in 0..N
      BY <1>2, <1>12
    <2> DEFINE c == plan[order[k + 1]].count
               w == f[k]
    <2>2. c \in Nat /\ w \in Nat /\ f[k + 1] = w - Take(c, w)
      BY <1>11, <1>12, <2>1
    <2> HIDE DEF c, w
    <2>3. Take(c, w) \in Nat /\ Take(c, w) <= w
      BY <2>2, TakesWhatIsThere
    <2> QED BY <2>1, <2>2, <2>3
  <1>13. \A k \in 0..N : f[k] \in Nat
    <2> HIDE DEF T
    <2>1. 0..N \subseteq T
      BY <1>2, <1>10, <1>12, UpTo
    <2> QED BY <2>1 DEF T
  <1>14. ASSUME NEW n \in places
         PROVE  Turn(n) \in 1..N /\ order[Turn(n)] = n
    <2>1. \E k \in DOMAIN order : order[k] = n
      BY <1>2, <1>8
    <2> QED BY <1>8, <2>1
  <1>15. ASSUME NEW n \in 1..K
         PROVE  /\ new[n] \in CellSet /\ SameCell(new[n], plan[n]) /\ new[n].count = plan[n].count
                /\ new[n].multi = IF n \in places THEN Take(plan[n].count, f[Turn(n) - 1]) ELSE 0
                /\ new[n].multi <= new[n].count /\ new[n].multi \in Nat
    <2>1. plan[n] \in CellSet /\ plan[n].count \in Nat /\ plan[n].multi = 0
      BY <1>1
    <2>2. CASE n \in places
      <3> DEFINE w == f[Turn(n) - 1]
                 t == Take(plan[n].count, w)
      <3>1. w \in Nat
        <4>1. Turn(n) - 1 \in 0..N
          BY <1>2, <1>14, <2>2
        <4> QED BY <1>13, <4>1
      <3>2. new[n] = [plan[n] EXCEPT !.multi = t]
        BY <1>1, <1>4, <1>7, <2>2
      <3> HIDE DEF w
      <3>3. t \in Nat /\ t <= plan[n].count
        BY <2>1, <3>1, TakesWhatIsThere
      <3> HIDE DEF t
      <3>4. new[n] \in CellSet /\ SameCell(new[n], plan[n]) /\ new[n].count = plan[n].count /\ new[n].multi = t
        BY <2>1, <3>2, <3>3 DEF CellSet, SameCell
      <3> QED BY <2>2, <3>3, <3>4 DEF t, w
    <2>3. CASE n \notin places
      <3>1. new[n] = plan[n]
        BY <1>1, <1>4, <1>7, <2>3
      <3> QED BY <2>1, <2>3, <3>1 DEF SameCell
    <2> QED BY <2>2, <2>3
  <1>16. new \in Seq(CellSet) /\ Len(new) = K
    <2>1. new = [n \in 1..K |-> new[n]]
      BY <1>1, <1>7
    <2> HIDE DEF new
    <2>2. new \in [1..K -> CellSet]
      BY <1>15, <2>1
    <2> QED BY <1>1, <2>2
  <1> DEFINE amount == [n \in 1..K |-> IF n \in places THEN Take(plan[n].count, f[Turn(n) - 1]) ELSE 0]
             upto(k) == [n \in 1..K |-> IF n \in places /\ Turn(n) <= k THEN amount[n] ELSE 0]
  <1> HIDE DEF Goes, Shares, Turn, new
  <1>17. \A n \in 1..K : amount[n] \in Nat /\ amount[n] = new[n].multi
    BY <1>15
  <1> HIDE DEF amount
  <1>18. ASSUME NEW k \in 0..N
         PROVE  /\ upto(k) \in Seq(Nat) /\ Len(upto(k)) = K
                /\ \A n \in 1..K : upto(k)[n] = IF n \in places /\ Turn(n) <= k THEN amount[n] ELSE 0
    <2>1. upto(k) \in [1..K -> Nat]
      BY <1>17
    <2> QED BY <1>1, <2>1
  <1> HIDE DEF upto
  <1> DEFINE sum(k) == SumOf(upto(k))
  <1>19. sum(0) = 0
    <2>1. 0 \in 0..N
      BY <1>2
    <2>2. \A n \in 1..K : upto(0)[n] = 0
      <3>1. \A n \in places : ~(Turn(n) <= 0)
        BY <1>2, <1>14
      <3> QED BY <1>18, <2>1, <3>1
    <2> DEFINE z == upto(0)
    <2>3. z \in Seq(Nat) /\ \A n \in 1..Len(z) : z[n] = 0
      BY <1>18, <2>1, <2>2
    <2> HIDE DEF z
    <2>4. SumOf(z) = 0
      BY <2>3, ZerosAddUp
    <2> QED BY <2>4 DEF z
  <1>20. ASSUME NEW k \in 0..N, k < N
         PROVE  sum(k + 1) = sum(k) + Take(plan[order[k + 1]].count, f[k])
    <2> DEFINE p == order[k + 1]
               a == upto(k)
               b == upto(k + 1)
    <2>1. k + 1 \in 1..N /\ (k + 1) - 1 = k /\ k + 1 \in 0..N
      BY <1>2, <1>20
    <2>2. p \in places /\ p \in 1..K
      BY <1>2, <1>5, <2>1
    <2>3. Turn(p) = k + 1
      <3>1. Turn(p) \in 1..N /\ order[Turn(p)] = order[k + 1]
        BY <1>14, <2>2
      <3> QED BY <1>2, <2>1, <3>1
    <2> HIDE DEF p
    <2>4. a \in Seq(Nat) /\ Len(a) = K /\ b \in Seq(Nat) /\ Len(b) = K
      BY <1>18, <2>1
    <2>5. \A n \in 1..K : n # p => a[n] = b[n]
      <3> SUFFICES ASSUME NEW n \in 1..K, n # p PROVE a[n] = b[n]
        OBVIOUS
      <3>1. /\ a[n] = IF n \in places /\ Turn(n) <= k THEN amount[n] ELSE 0
            /\ b[n] = IF n \in places /\ Turn(n) <= k + 1 THEN amount[n] ELSE 0
        BY <1>18, <2>1
      <3>2. n \in places => Turn(n) \in 1..N /\ Turn(n) # k + 1
        BY <1>14, <2>1 DEF p
      <3>3. n \in places => (Turn(n) <= k <=> Turn(n) <= k + 1)
        BY <1>2, <2>1, <3>2
      <3> HIDE DEF a, b
      <3> QED BY <3>1, <3>3
    <2>6. a[p] = 0 /\ b[p] = amount[p] /\ amount[p] \in Nat
      <3>1. ~(Turn(p) <= k) /\ Turn(p) <= k + 1
        BY <1>2, <2>1, <2>3
      <3> QED BY <1>17, <1>18, <2>1, <2>2, <3>1
    <2>7. amount[p] = Take(plan[order[k + 1]].count, f[k])
      BY <2>1, <2>2, <2>3 DEF amount, p
    <2> HIDE DEF a, b
    <2>8. SumOf(b) = SumOf(a) + (b[p] - a[p])
      BY <2>2, <2>4, <2>5, SumChangesAt
    <2>9. SumOf(a) \in Nat
      <3>1. SumTo(a, Len(a)) = SumOf(a) /\ SumTo(a, Len(a)) \in Nat
        BY <1>1, <2>4, SumsGrow
      <3> QED BY <3>1
    <2>10. b[p] - a[p] = amount[p]
      BY <2>6
    <2> QED BY <2>7, <2>8, <2>10 DEF a, b
  <1> DEFINE U == {k \in 0..N : sum(k) + f[k] = most /\ sum(k) \in Nat}
  <1>21. 0 \in U
    <2>1. 0 \in 0..N
      BY <1>2
    <2>2. f[0] = most
      BY <1>9, <2>1
    <2> HIDE DEF sum
    <2> QED BY <1>3, <1>19, <2>1, <2>2
  <1> HIDE DEF sum
  <1>22. ASSUME NEW k \in 0..N, k < N, k \in U PROVE k + 1 \in U
    <2>1. k + 1 \in 1..N /\ (k + 1) - 1 = k /\ k + 1 \in 0..N
      BY <1>2, <1>22
    <2> DEFINE c == plan[order[k + 1]].count
               w == f[k]
               t == Take(c, w)
    <2>2. c \in Nat /\ w \in Nat /\ f[k + 1] = w - t
      BY <1>11, <1>13, <2>1
    <2>3. sum(k + 1) = sum(k) + t /\ sum(k) + w = most /\ sum(k) \in Nat
      BY <1>20, <1>22
    <2> HIDE DEF c, w
    <2>4. t \in Nat
      BY <2>2, TakesWhatIsThere
    <2> HIDE DEF t
    <2>5. sum(k + 1) + f[k + 1] = most /\ sum(k + 1) \in Nat
      BY <2>2, <2>3, <2>4
    <2> QED BY <2>1, <2>5
  <1>23. sum(N) + f[N] = most /\ sum(N) \in Nat
    <2> HIDE DEF U
    <2>1. 0..N \subseteq U
      BY <1>2, <1>21, <1>22, UpTo
    <2>2. N \in 0..N
      BY <1>2
    <2> QED BY <2>1, <2>2 DEF U
  <1>24. SumOf([n \in DOMAIN new |-> new[n].multi]) <= most
    <2>1. N \in 0..N
      BY <1>2
    <2>2. DOMAIN new = 1..K
      BY <1>1, <1>16
    <2>3. \A n \in 1..K : upto(N)[n] = new[n].multi
      <3>1. \A n \in places : Turn(n) <= N
        BY <1>2, <1>14
      <3>2. \A n \in 1..K : upto(N)[n] = IF n \in places THEN amount[n] ELSE 0
        BY <1>18, <2>1, <3>1
      <3> QED BY <1>15, <1>17, <3>2
    <2>4. DOMAIN upto(N) = 1..K
      BY DEF upto
    <2>5. upto(N) = [n \in DOMAIN new |-> new[n].multi]
      <3>1. upto(N) = [n \in 1..K |-> upto(N)[n]]
        BY DEF upto
      <3> QED BY <2>2, <2>3, <3>1
    <2>6. f[N] \in Nat
      BY <1>13, <2>1
    <2> QED BY <1>3, <1>23, <2>5, <2>6 DEF sum
  <1>25. Planned(new) = Planned(plan)
    <2>1. CountsOf(new) = CountsOf(plan)
      <3>1. CountsOf(new) = [n \in 1..K |-> new[n].count] /\ CountsOf(plan) = [n \in 1..K |-> plan[n].count]
        BY <1>1, <1>16 DEF CountsOf
      <3> QED BY <1>15, <3>1
    <2>2. Planned(new) = SumOf(CountsOf(new)) /\ Planned(plan) = SumOf(CountsOf(plan))
      BY <1>16, CountsAreNumbers
    <2> QED BY <2>1, <2>2
  <1> QED BY <1>15, <1>16, <1>24, <1>25 DEF new, most
----------------------------------------------------------------------------
(* The plan *)

\* Where a cell of the plan comes from.
Origin(cell, map, lists) ==
  \/ /\ cell.kind \in {"happy", "failure"} /\ cell.topic \in Topics(map)
     /\ \E n \in DOMAIN map.scenarios :
          map.scenarios[n].intent \in ToSet(map.intents) /\ IsFor(cell, map.scenarios[n])
  \/ cell.kind = "category" /\ cell.mode \in ToSet(map.failures)
  \/ cell.kind = "out-of-intent"
  \/ cell.kind = SchemaEdge /\ \E a \in 1..Len(lists) : \E i \in 1..Len(lists[a]) : cell.scenario = lists[a][i].id

\* What a plan asks for.
Drawn(plan, map, conf, lists) ==
  /\ \A k \in 1..Len(plan) : plan[k].count >= 1 /\ Origin(plan[k], map, lists)
  /\ \A n \in DOMAIN map.scenarios : map.scenarios[n].intent \in ToSet(map.intents) =>
       \E k \in 1..Len(plan) : IsFor(plan[k], map.scenarios[n])
  /\ conf.out > 0 => \E k \in 1..Len(plan) : plan[k].mode = OutOfScope /\ plan[k].count >= conf.out
  /\ conf.category > 0 => \A f \in ToSet(map.failures) : \E k \in 1..Len(plan) :
       Key(plan[k]) = <<CrossCutting, "unspecified", "failure", f>>
  /\ OnceEach(lists) => \A k, m \in 1..Len(plan) :
       plan[k].kind = SchemaEdge /\ plan[m].kind = SchemaEdge /\ plan[k].scenario = plan[m].scenario => k = m

Config(conf) ==
  /\ conf.happy \in Int /\ conf.failure \in Int /\ conf.category \in Int /\ conf.out \in Int
  /\ conf.edges \in Int /\ conf.total \in Int /\ conf.share \in 0..100

LEMMA ThreeJoined ==
  ASSUME NEW S, NEW a \in Seq(S), NEW b \in Seq(S), NEW c \in Seq(S)
  PROVE  LET s == a \o b \o c
         IN  /\ s \in Seq(S)
             /\ \A k \in 1..Len(s) : \/ k \in 1..Len(a) /\ s[k] = a[k]
                                     \/ k - Len(a) \in 1..Len(b) /\ s[k] = b[k - Len(a)]
                                     \/ k - (Len(a) + Len(b)) \in 1..Len(c) /\ s[k] = c[k - (Len(a) + Len(b))]
             /\ \A k \in 1..Len(a) : k \in 1..Len(s) /\ s[k] = a[k]
             /\ \A k \in 1..Len(b) : Len(a) + k \in 1..Len(s) /\ s[Len(a) + k] = b[k]
             /\ \A k \in 1..Len(c) : Len(a) + Len(b) + k \in 1..Len(s) /\ s[Len(a) + Len(b) + k] = c[k]
  <1> DEFINE s == a \o b \o c
             x == Len(a)
             y == Len(b)
             z == Len(c)
  <1>1. x \in Nat /\ y \in Nat /\ z \in Nat
    OBVIOUS
  <1>2. s \in Seq(S) /\ Len(s) = x + y + z
    OBVIOUS
  <1>3. \A k \in 1..x : s[k] = a[k]
    OBVIOUS
  <1>4. \A k \in 1..y : s[x + k] = b[k]
    OBVIOUS
  <1>5. \A k \in 1..z : s[x + y + k] = c[k]
    OBVIOUS
  <1> HIDE DEF s, x, y, z
  <1>6. ASSUME NEW k \in 1..Len(s)
        PROVE  \/ k \in 1..x /\ s[k] = a[k]
               \/ k - x \in 1..y /\ s[k] = b[k - x]
               \/ k - (x + y) \in 1..z /\ s[k] = c[k - (x + y)]
    <2>1. CASE k <= x
      BY <1>1, <1>2, <1>3, <2>1
    <2>2. CASE k > x /\ k <= x + y
      <3>1. k - x \in 1..y /\ x + (k - x) = k
        BY <1>1, <1>2, <2>2
      <3> QED BY <1>4, <3>1
    <2>3. CASE k > x + y
      <3>1. k - (x + y) \in 1..z /\ x + y + (k - (x + y)) = k
        BY <1>1, <1>2, <2>3
      <3> QED BY <1>5, <3>1
    <2> QED BY <1>1, <1>2, <2>1, <2>2, <2>3
  <1>7. /\ \A k \in 1..x : k \in 1..Len(s)
        /\ \A k \in 1..y : x + k \in 1..Len(s)
        /\ \A k \in 1..z : x + y + k \in 1..Len(s)
    BY <1>1, <1>2
  <1> QED BY <1>2, <1>3, <1>4, <1>5, <1>6, <1>7 DEF s, x, y, z

LEMMA CellsAreDrawn ==
  ASSUME NEW map \in MapSet, NEW conf, Config(conf), NEW lists \in Seq(Seq(EdgeSet))
  PROVE  LET all == IntentCells(conf, map) \o CategoryCells(conf, map) \o EdgeCells(conf, lists)
         IN  /\ all \in Seq(CellSet) /\ \A k \in 1..Len(all) : all[k].multi = 0
             /\ Drawn(all, map, conf, lists)
  <1> DEFINE a == IntentCells(conf, map)
             b == CategoryCells(conf, map)
             c == EdgeCells(conf, lists)
             all == a \o b \o c
             P == {n \in DOMAIN map.scenarios : map.scenarios[n].intent \in ToSet(map.intents)}
             off == Len(a) + Len(b)
  <1>1. /\ a \in Seq(CellSet)
        /\ \A k \in 1..Len(a) : a[k].topic \in Topics(map)
        /\ AreFor(a, map.scenarios, P)
    BY CellsOfTheIntents DEF Config
  <1>2. /\ b \in Seq(CellSet)
        /\ \A k \in 1..Len(b) : /\ b[k].kind \in {"category", "out-of-intent"} /\ b[k].count >= 1 /\ b[k].multi = 0
                                /\ b[k].kind = "category" => b[k].mode \in ToSet(map.failures)
        /\ conf.out > 0 => \E k \in 1..Len(b) : b[k].mode = OutOfScope /\ b[k].count >= conf.out
        /\ conf.category > 0 => \A f \in ToSet(map.failures) : \E k \in 1..Len(b) :
             Key(b[k]) = <<CrossCutting, "unspecified", "failure", f>>
    BY CategoriesPlanned DEF Config
  <1>3. /\ c \in Seq(CellSet)
        /\ \A k \in 1..Len(c) : /\ c[k].kind = SchemaEdge /\ c[k].count = 1 /\ c[k].multi = 0
                                /\ \E p \in 1..Len(lists) : \E i \in 1..Len(lists[p]) : c[k].scenario = lists[p][i].id
        /\ OnceEach(lists) => \A k, m \in 1..Len(c) : c[k].scenario = c[m].scenario => k = m
    BY EdgesPlanned DEF Config
  <1>4. map.scenarios \in Seq(ScenarioSet)
    BY DEF MapSet
  <1> HIDE DEF a, b, c
  <1>5. /\ all \in Seq(CellSet)
        /\ \A k \in 1..Len(all) : \/ k \in 1..Len(a) /\ all[k] = a[k]
                                  \/ k - Len(a) \in 1..Len(b) /\ all[k] = b[k - Len(a)]
                                  \/ k - off \in 1..Len(c) /\ all[k] = c[k - off]
        /\ \A k \in 1..Len(a) : k \in 1..Len(all) /\ all[k] = a[k]
        /\ \A k \in 1..Len(b) : Len(a) + k \in 1..Len(all) /\ all[Len(a) + k] = b[k]
    BY <1>1, <1>2, <1>3, ThreeJoined
  <1>6. off \in Nat /\ Len(a) \in Nat /\ Len(all) \in Nat
    BY <1>1, <1>2, <1>5
  <1> HIDE DEF all, off
  <1>7. ASSUME NEW k \in 1..Len(a)
        PROVE  /\ a[k].kind \in {"happy", "failure"} /\ a[k].count >= 1 /\ a[k].multi = 0
               /\ Origin(a[k], map, lists)
    <2>1. PICK n \in P : IsFor(a[k], map.scenarios[n])
      BY <1>1 DEF AreFor
    <2>2. map.scenarios[n] \in ScenarioSet
      BY <1>4
    <2>3. a[k].kind \in {"happy", "failure"}
      BY <2>1, <2>2 DEF IsFor, ScenarioSet
    <2>4. a[k].count >= 1 /\ a[k].multi = 0
      BY <1>1 DEF AreFor
    <2>5. Origin(a[k], map, lists)
      BY <1>1, <2>1, <2>3 DEF Origin
    <2> QED BY <2>3, <2>4, <2>5
  <1>8. ASSUME NEW k \in 1..Len(b)
        PROVE  Origin(b[k], map, lists) /\ b[k].kind \in {"category", "out-of-intent"}
    BY <1>2 DEF Origin
  <1>9. ASSUME NEW k \in 1..Len(c) PROVE Origin(c[k], map, lists) /\ c[k].kind = SchemaEdge
    BY <1>3 DEF Origin
  <1>10. ASSUME NEW k \in 1..Len(all)
         PROVE  /\ all[k].count >= 1 /\ all[k].multi = 0 /\ Origin(all[k], map, lists)
                /\ all[k].kind = SchemaEdge => k - off \in 1..Len(c) /\ all[k] = c[k - off]
    <2>1. CASE k \in 1..Len(a) /\ all[k] = a[k]
      BY <1>7, <2>1 DEF SchemaEdge
    <2>2. CASE k - Len(a) \in 1..Len(b) /\ all[k] = b[k - Len(a)]
      BY <1>2, <1>8, <2>2 DEF SchemaEdge
    <2>3. CASE k - off \in 1..Len(c) /\ all[k] = c[k - off]
      <3>1. c[k - off].count >= 1 /\ c[k - off].multi = 0
        BY <1>3, <2>3
      <3> QED BY <1>9, <2>3, <3>1
    <2> QED BY <1>5, <2>1, <2>2, <2>3
  <1>11. \A n \in P : \E k \in 1..Len(all) : IsFor(all[k], map.scenarios[n])
    <2> SUFFICES ASSUME NEW n \in P PROVE \E k \in 1..Len(all) : IsFor(all[k], map.scenarios[n])
      OBVIOUS
    <2>1. PICK k \in 1..Len(a) : IsFor(a[k], map.scenarios[n])
      BY <1>1 DEF AreFor
    <2> QED BY <1>5, <2>1
  <1>12. ASSUME conf.out > 0
         PROVE  \E k \in 1..Len(all) : all[k].mode = OutOfScope /\ all[k].count >= conf.out
    <2>1. PICK k \in 1..Len(b) : b[k].mode = OutOfScope /\ b[k].count >= conf.out
      BY <1>2, <1>12
    <2> QED BY <1>5, <2>1
  <1>13. ASSUME conf.category > 0, NEW f \in ToSet(map.failures)
         PROVE  \E k \in 1..Len(all) : Key(all[k]) = <<CrossCutting, "unspecified", "failure", f>>
    <2>1. PICK k \in 1..Len(b) : Key(b[k]) = <<CrossCutting, "unspecified", "failure", f>>
      BY <1>2, <1>13
    <2> QED BY <1>5, <2>1
  <1>14. ASSUME OnceEach(lists), NEW k \in 1..Len(all), NEW m \in 1..Len(all),
                all[k].kind = SchemaEdge, all[m].kind = SchemaEdge, all[k].scenario = all[m].scenario
         PROVE  k = m
    <2>1. k - off \in 1..Len(c) /\ all[k] = c[k - off] /\ m - off \in 1..Len(c) /\ all[m] = c[m - off]
      BY <1>10, <1>14
    <2>2. k - off = m - off
      BY <1>3, <1>14, <2>1
    <2> QED BY <1>6, <2>2
  <1>15. Drawn(all, map, conf, lists)
    BY <1>10, <1>11, <1>12, <1>13, <1>14 DEF Drawn
  <1> QED BY <1>5, <1>10, <1>15 DEF all, a, b, c

\* More cases for the same cells.
LEMMA StillDrawn ==
  ASSUME NEW map, NEW conf, Config(conf), NEW lists, NEW plan \in Seq(CellSet), NEW new \in Seq(CellSet), Len(new) = Len(plan),
         \A n \in 1..Len(plan) : SameCell(new[n], plan[n]) /\ new[n].count >= plan[n].count,
         Drawn(plan, map, conf, lists)
  PROVE  Drawn(new, map, conf, lists)
  <1>0. \A n \in 1..Len(plan) : plan[n].count \in Nat /\ new[n].count \in Nat /\ new[n].count >= plan[n].count
    BY CountsAreNumbers
  <1>1. ASSUME NEW k \in 1..Len(plan)
        PROVE  /\ new[k].count >= 1 /\ Origin(new[k], map, lists)
               /\ \A s : IsFor(plan[k], s) => IsFor(new[k], s)
               /\ new[k].mode = plan[k].mode /\ new[k].scenario = plan[k].scenario /\ new[k].kind = plan[k].kind
               /\ Key(new[k]) = Key(plan[k])
    <2>1. SameCell(new[k], plan[k]) /\ Origin(plan[k], map, lists)
      BY DEF Drawn
    <2>2. new[k].count >= 1
      <3>1. plan[k].count >= 1
        BY DEF Drawn
      <3> QED BY <1>0, <3>1
    <2>3. \A s : IsFor(plan[k], s) => IsFor(new[k], s)
      BY <2>1 DEF IsFor, SameCell
    <2>4. Origin(new[k], map, lists)
      BY <2>1, <2>3 DEF Origin, SameCell
    <2> QED BY <2>1, <2>2, <2>3, <2>4 DEF SameCell, Key
  <1>2. conf.out > 0 => \E k \in 1..Len(new) : new[k].mode = OutOfScope /\ new[k].count >= conf.out
    <2> SUFFICES ASSUME conf.out > 0 PROVE \E k \in 1..Len(new) : new[k].mode = OutOfScope /\ new[k].count >= conf.out
      OBVIOUS
    <2>1. PICK k \in 1..Len(plan) : plan[k].mode = OutOfScope /\ plan[k].count >= conf.out
      BY DEF Drawn
    <2>2. conf.out \in Int /\ k \in 1..Len(new) /\ new[k].mode = OutOfScope
      BY <1>1, <2>1 DEF Config
    <2>3. plan[k].count \in Nat /\ new[k].count \in Nat /\ new[k].count >= plan[k].count
      BY <1>0
    <2>4. new[k].count >= conf.out
      BY <2>1, <2>2, <2>3
    <2> QED BY <2>2, <2>4
  <1>3. \A n \in DOMAIN map.scenarios : map.scenarios[n].intent \in ToSet(map.intents) =>
          \E k \in 1..Len(new) : IsFor(new[k], map.scenarios[n])
    BY <1>1 DEF Drawn
  <1>4. conf.category > 0 => \A f \in ToSet(map.failures) : \E k \in 1..Len(new) :
          Key(new[k]) = <<CrossCutting, "unspecified", "failure", f>>
    BY <1>1 DEF Drawn
  <1>5. OnceEach(lists) => \A k, m \in 1..Len(new) :
          new[k].kind = SchemaEdge /\ new[m].kind = SchemaEdge /\ new[k].scenario = new[m].scenario => k = m
    BY <1>1 DEF Drawn
  <1>6. \A k \in 1..Len(new) : new[k].count >= 1 /\ Origin(new[k], map, lists)
    BY <1>1
  <1> QED BY <1>2, <1>3, <1>4, <1>5, <1>6 DEF Drawn

LEMMA ThePlan ==
  ASSUME NEW map \in MapSet, NEW conf, Config(conf), NEW lists \in Seq(Seq(EdgeSet))
  PROVE  LET plan == PlanCells(conf, map, lists)
         IN  /\ plan \in Seq(CellSet) /\ Drawn(plan, map, conf, lists)
             /\ \A n \in 1..Len(plan) : plan[n].multi <= plan[n].count
             /\ SumOf([n \in DOMAIN plan |-> plan[n].multi]) <= RoundPercent(Planned(plan) * conf.share)
             /\ (\E n \in 1..Len(plan) : plan[n].kind = "happy") => Planned(plan) >= conf.total
  <1> DEFINE all == IntentCells(conf, map) \o CategoryCells(conf, map) \o EdgeCells(conf, lists)
             more == WithFloor(conf, all)
             plan == WithMultiTurn(conf, more)
  <1>0. conf.total \in Int /\ conf.share \in 0..100
    BY DEF Config
  <1>1. /\ all \in Seq(CellSet) /\ \A k \in 1..Len(all) : all[k].multi = 0
        /\ Drawn(all, map, conf, lists)
    BY CellsAreDrawn
  <1> HIDE DEF all
  <1>2. /\ more \in Seq(CellSet) /\ Len(more) = Len(all)
        /\ \A n \in 1..Len(all) : /\ SameCell(more[n], all[n]) /\ more[n].multi = all[n].multi
                                  /\ more[n].count >= all[n].count
        /\ (\E n \in 1..Len(all) : all[n].kind = "happy") => Planned(more) >= conf.total
    BY <1>0, <1>1, FloorAdds
  <1> HIDE DEF more
  <1>3. Drawn(more, map, conf, lists)
    BY <1>1, <1>2, StillDrawn
  <1>4. /\ plan \in Seq(CellSet) /\ Len(plan) = Len(more)
        /\ \A n \in 1..Len(more) : SameCell(plan[n], more[n]) /\ plan[n].count = more[n].count
        /\ \A n \in 1..Len(more) : plan[n].multi <= plan[n].count
        /\ SumOf([n \in DOMAIN plan |-> plan[n].multi]) <= RoundPercent(Planned(plan) * conf.share)
    <2>1. \A n \in 1..Len(more) : more[n].multi = 0
      BY <1>1, <1>2
    <2> QED BY <1>0, <1>2, <2>1, ConversationsShared
  <1> HIDE DEF plan
  <1>5. \A n \in 1..Len(more) : plan[n].count >= more[n].count
    <2>1. \A n \in 1..Len(more) : more[n].count \in Nat
      BY <1>2, CountsAreNumbers
    <2> QED BY <1>4, <2>1
  <1>6. Drawn(plan, map, conf, lists)
    BY <1>2, <1>3, <1>4, <1>5, StillDrawn
  <1>7. Planned(plan) = Planned(more)
    <2>1. CountsOf(plan) = CountsOf(more)
      <3>1. DOMAIN plan = 1..Len(more) /\ DOMAIN more = 1..Len(more)
        BY <1>2, <1>4
      <3> QED BY <1>4, <3>1 DEF CountsOf
    <2>2. Planned(plan) = SumOf(CountsOf(plan)) /\ Planned(more) = SumOf(CountsOf(more))
      BY <1>2, <1>4, CountsAreNumbers
    <2> QED BY <2>1, <2>2
  <1>8. (\E n \in 1..Len(plan) : plan[n].kind = "happy") => Planned(plan) >= conf.total
    BY <1>2, <1>4, <1>7 DEF SameCell
  <1>9. plan = PlanCells(conf, map, lists)
    BY DEF PlanCells, plan, more, all
  <1> QED BY <1>4, <1>6, <1>8, <1>9
----------------------------------------------------------------------------
(* The map *)

\* What the schema lets the generator answer.
Schematic(answer) ==
  /\ answer.intents \in Seq([id : STRING, sound : BOOLEAN]) /\ answer.scenarios \in Seq(ScenarioSet)
  /\ answer.failures \in Seq(STRING) /\ answer.topics \in Seq(STRING)

\* A part of a list has members of the list only.
LEMMA PickedPart ==
  ASSUME NEW S, NEW list \in Seq(S), NEW P \in SUBSET DOMAIN list
  PROVE  /\ Picked(list, P) \in Seq(S) /\ DOMAIN Picked(list, P) = 1..Cardinality(P)
         /\ Len(Picked(list, P)) = Cardinality(P) /\ Cardinality(P) \in Nat
         /\ \A k \in 1..Cardinality(P) : \E n \in P : Picked(list, P)[k] = list[n]
         /\ \A n \in P : \E k \in 1..Cardinality(P) : Picked(list, P)[k] = list[n]
  <1>1. P \in SUBSET Int /\ IsFiniteSet(P)
    BY FinitePlaces
  <1> DEFINE N == Cardinality(P)
             p == Picked(list, P)
  <1>2. /\ N \in Nat /\ DOMAIN p = 1..N /\ Len(p) = N
        /\ \A T : (\A n \in P : list[n] \in T) => p \in Seq(T)
        /\ \A k \in 1..N : Ascending(P)[k] \in P /\ p[k] = list[Ascending(P)[k]]
        /\ \A n \in P : \E k \in 1..N : Ascending(P)[k] = n /\ p[k] = list[n]
    BY <1>1, PickedIs
  <1>3. \A n \in P : list[n] \in S
    OBVIOUS
  <1> HIDE DEF N, p
  <1>4. p \in Seq(S)
    BY <1>2, <1>3
  <1> QED BY <1>2, <1>4 DEF N, p

\* What is kept of an answer: the scenarios belong to kept intents, and the failures have evidence.
LEMMA MapIsClean ==
  ASSUME NEW answer, Schematic(answer), NEW applicable, NEW skills
  PROVE  LET map == CleanMap(answer, applicable, skills)
         IN  /\ map \in MapSet
             /\ \A n \in DOMAIN map.scenarios :
                  /\ map.scenarios[n].intent \in ToSet(map.intents)
                  /\ map.scenarios[n].kind = "failure" => map.scenarios[n].mode \in applicable
             /\ \A f \in ToSet(map.failures) : f \in applicable
  <1> DEFINE map == CleanMap(answer, applicable, skills)
             intents == GoodIntents(answer)
             P == {n \in DOMAIN answer.scenarios : Keeps(answer, applicable, answer.scenarios[n])}
             good == Picked(answer.scenarios, P)
             scenarios == GoodScenarios(answer, applicable, skills)
             F == {n \in DOMAIN answer.failures : answer.failures[n] \in applicable
                                                  /\ \A m \in 1..n - 1 : answer.failures[m] # answer.failures[n]}
             failures == GoodFailures(answer, applicable)
             ids == [n \in DOMAIN intents |-> intents[n].id]
  <1>1. intents \in Seq([id : STRING, sound : BOOLEAN])
    <2> DEFINE I == {n \in DOMAIN answer.intents : answer.intents[n].sound}
               list == answer.intents
               S == [id : STRING, sound : BOOLEAN]
    <2>1. I \in SUBSET DOMAIN list /\ list \in Seq(S)
      BY DEF Schematic
    <2>2. intents = Picked(list, I)
      BY DEF GoodIntents
    <2> HIDE DEF I, list, S, intents
    <2>3. intents \in Seq(S)
      BY <2>1, <2>2, PickedPart
    <2> QED BY <2>3 DEF S
  <1>2. ids \in Seq(STRING) /\ DOMAIN ids = DOMAIN intents
    <2> HIDE DEF intents
    <2>1. \A n \in DOMAIN intents : intents[n].id \in STRING
      <3> DEFINE S == [id : STRING, sound : BOOLEAN]
      <3>1. \A i \in S : i.id \in STRING
        OBVIOUS
      <3>2. intents \in Seq(S)
        BY <1>1
      <3> HIDE DEF S
      <3>3. \A n \in DOMAIN intents : intents[n] \in S
        BY <3>2
      <3> QED BY <3>1, <3>3
    <2>2. ids \in [1..Len(intents) -> STRING] /\ Len(intents) \in Nat
      BY <1>1, <2>1
    <2> QED BY <2>2
  <1>3. IntentIds(answer) = ToSet(ids)
    <2>1. IntentIds(answer) = {i.id : i \in ToSet(intents)}
      BY DEF IntentIds
    <2> HIDE DEF intents
    <2> QED BY <1>2, <2>1 DEF ToSet
  <1>4. /\ good \in Seq(ScenarioSet)
        /\ \A k \in DOMAIN good : \E n \in P : good[k] = answer.scenarios[n]
    <2> DEFINE list == answer.scenarios
    <2>1. P \in SUBSET DOMAIN list /\ list \in Seq(ScenarioSet)
      BY DEF Schematic
    <2> HIDE DEF list, P
    <2>2. Picked(list, P) \in Seq(ScenarioSet) /\ DOMAIN Picked(list, P) = 1..Cardinality(P)
      BY <2>1, PickedPart
    <2>3. \A k \in 1..Cardinality(P) : \E n \in P : Picked(list, P)[k] = list[n]
      BY <2>1, PickedPart
    <2> QED BY <2>2, <2>3 DEF list
  <1>5. scenarios = [n \in DOMAIN good |-> [good[n] EXCEPT !.skills = @ \cap skills]]
    BY DEF GoodScenarios
  <1>6. \A n \in P : Keeps(answer, applicable, answer.scenarios[n])
    OBVIOUS
  <1>7. /\ failures \in Seq(STRING)
        /\ \A k \in DOMAIN failures : failures[k] \in applicable
    <2> DEFINE list == answer.failures
    <2>1. F \in SUBSET DOMAIN list /\ list \in Seq(STRING) /\ \A n \in F : list[n] \in applicable
      BY DEF Schematic
    <2>2. failures = Picked(list, F)
      BY DEF GoodFailures
    <2> HIDE DEF list, F, failures
    <2>3. failures \in Seq(STRING) /\ DOMAIN failures = 1..Cardinality(F)
      BY <2>1, <2>2, PickedPart
    <2>4. \A k \in 1..Cardinality(F) : \E n \in F : failures[k] = list[n]
      BY <2>1, <2>2, PickedPart
    <2> QED BY <2>1, <2>3, <2>4
  <1> HIDE DEF P, good, F, failures, intents
  <1>8. ASSUME NEW n \in DOMAIN good
        PROVE  /\ scenarios[n] \in ScenarioSet /\ scenarios[n].intent \in ToSet(ids)
               /\ scenarios[n].kind = "failure" => scenarios[n].mode \in applicable
    <2>1. good[n] \in ScenarioSet /\ scenarios[n] = [good[n] EXCEPT !.skills = @ \cap skills]
      BY <1>4, <1>5
    <2>2. Keeps(answer, applicable, good[n])
      BY <1>4, <1>6
    <2> HIDE DEF scenarios, ids
    <2>3. scenarios[n] \in ScenarioSet /\ scenarios[n].intent = good[n].intent /\ scenarios[n].kind = good[n].kind
          /\ scenarios[n].mode = good[n].mode
      BY <2>1 DEF ScenarioSet
    <2> QED BY <1>3, <2>2, <2>3 DEF Keeps
  <1>9. scenarios \in Seq(ScenarioSet) /\ DOMAIN scenarios = DOMAIN good
    <2> DEFINE N == Len(good)
    <2>1. N \in Nat /\ DOMAIN good = 1..N
      BY <1>4
    <2> HIDE DEF N
    <2>2. scenarios = [n \in 1..N |-> scenarios[n]]
      BY <1>5, <2>1
    <2> HIDE DEF scenarios
    <2>3. scenarios \in [1..N -> ScenarioSet]
      BY <1>8, <2>1, <2>2
    <2> QED BY <2>1, <2>3
  <1>10. answer.topics \in Seq(STRING)
    BY DEF Schematic
  <1>11. map = [intents |-> ids, scenarios |-> scenarios, failures |-> failures, topics |-> answer.topics]
    BY DEF CleanMap, intents, failures
  <1> HIDE DEF ids, scenarios, map
  <1>12. map \in MapSet
    BY <1>2, <1>7, <1>9, <1>10, <1>11 DEF MapSet
  <1>13. \A f \in ToSet(map.failures) : f \in applicable
    BY <1>7, <1>11 DEF ToSet
  <1>14. \A n \in DOMAIN map.scenarios :
           /\ map.scenarios[n].intent \in ToSet(map.intents)
           /\ map.scenarios[n].kind = "failure" => map.scenarios[n].mode \in applicable
    BY <1>8, <1>9, <1>11
  <1> QED BY <1>12, <1>13, <1>14 DEF map
----------------------------------------------------------------------------
(* The tools of an agent *)

ToolSet == [name : STRING, mockable : BOOLEAN, edges : Seq(EdgeSet)]

\* No two of one name.
ToolList(list) ==
  /\ list \in Seq(ToolSet)
  /\ \A i, j \in 1..Len(list) : list[i].name = list[j].name => i = j

LEMMA ToolMade ==
  ASSUME NEW name \in STRING, NEW loader \in BOOLEAN, NEW edges \in Seq(EdgeSet)
  PROVE  /\ MapTool(name, loader, edges) \in ToolSet /\ MapTool(name, loader, edges).name = name
         /\ MapTool(name, loader, edges).edges = IF loader THEN <<>> ELSE edges
  <1> DEFINE own == IF loader THEN <<>> ELSE edges
  <1>1. own \in Seq(EdgeSet)
    OBVIOUS
  <1>2. (~loader) \in BOOLEAN
    BY Zenon
  <1> DEFINE mock == ~loader
  <1>3. MapTool(name, loader, edges) = [name |-> name, mockable |-> mock, edges |-> own]
    BY Zenon DEF MapTool
  <1>4. mock \in BOOLEAN
    BY <1>2
  <1> HIDE DEF own, mock
  <1>5. MapTool(name, loader, edges) \in ToolSet
    <2>1. [name |-> name, mockable |-> mock, edges |-> own] \in ToolSet
      BY <1>1, <1>4 DEF ToolSet
    <2> QED BY <1>3, <2>1
  <1>6. MapTool(name, loader, edges).name = name /\ MapTool(name, loader, edges).edges = own
    BY <1>3
  <1> QED BY <1>5, <1>6 DEF own

LEMMA ToolsJoined ==
  ASSUME NEW a, NEW b, ToolList(a), ToolList(b),
         \A i \in 1..Len(a), j \in 1..Len(b) : a[i].name # b[j].name
  PROVE  /\ ToolList(a \o b)
         /\ \A k \in 1..Len(a \o b) : \/ \E i \in 1..Len(a) : (a \o b)[k] = a[i]
                                      \/ \E j \in 1..Len(b) : (a \o b)[k] = b[j]
  <1> DEFINE s == a \o b
             x == Len(a)
             y == Len(b)
  <1>1. /\ a \in Seq(ToolSet) /\ b \in Seq(ToolSet)
        /\ \A i, j \in 1..x : a[i].name = a[j].name => i = j
        /\ \A i, j \in 1..y : b[i].name = b[j].name => i = j
    BY DEF ToolList
  <1>2. s \in Seq(ToolSet) /\ Len(s) = x + y /\ x \in Nat /\ y \in Nat
    BY <1>1
  <1>3. \A k \in 1..Len(s) : \/ k \in 1..x /\ s[k] = a[k]
                             \/ k - x \in 1..y /\ s[k] = b[k - x]
    <2> SUFFICES ASSUME NEW k \in 1..Len(s)
                 PROVE  \/ k \in 1..x /\ s[k] = a[k]
                        \/ k - x \in 1..y /\ s[k] = b[k - x]
      OBVIOUS
    <2>1. CASE k <= x
      BY <1>1, <1>2, <2>1
    <2>2. CASE k > x
      <3>1. k - x \in 1..y /\ x + (k - x) = k
        BY <1>2, <2>2
      <3>2. \A j \in 1..y : s[x + j] = b[j]
        BY <1>1
      <3> QED BY <3>1, <3>2
    <2> QED BY <1>2, <2>1, <2>2
  <1> HIDE DEF s, x, y
  <1>4. ASSUME NEW i \in 1..Len(s), NEW j \in 1..Len(s), s[i].name = s[j].name PROVE i = j
    <2>1. CASE i \in 1..x /\ s[i] = a[i]
      <3>1. CASE j \in 1..x /\ s[j] = a[j]
        BY <1>1, <1>4, <2>1, <3>1
      <3>2. CASE j - x \in 1..y /\ s[j] = b[j - x]
        BY <1>4, <2>1, <3>2 DEF x, y
      <3> QED BY <1>3, <3>1, <3>2
    <2>2. CASE i - x \in 1..y /\ s[i] = b[i - x]
      <3>1. CASE j \in 1..x /\ s[j] = a[j]
        BY <1>4, <2>2, <3>1 DEF x, y
      <3>2. CASE j - x \in 1..y /\ s[j] = b[j - x]
        <4>1. i - x = j - x
          BY <1>1, <1>4, <2>2, <3>2
        <4> QED BY <1>2, <4>1
      <3> QED BY <1>3, <3>1, <3>2
    <2> QED BY <1>3, <2>1, <2>2
  <1>5. ToolList(s)
    BY <1>2, <1>4 DEF ToolList
  <1> QED BY <1>3, <1>5 DEF s, x, y

\* A list of tools made one by one of things with names of their own.
LEMMA ToolsOfAll ==
  ASSUME NEW N \in Nat, NEW made, made = [n \in 1..N |-> made[n]],
         \A n \in 1..N : made[n] \in ToolSet,
         \A i, j \in 1..N : made[i].name = made[j].name => i = j
  PROVE  ToolList(made) /\ Len(made) = N
  <1>1. made \in [1..N -> ToolSet]
    OBVIOUS
  <1>2. made \in Seq(ToolSet) /\ Len(made) = N
    BY <1>1
  <1> QED BY <1>2 DEF ToolList

SourceTool == [name : STRING, edges : Seq(EdgeSet)]

LEMMA Decorated ==
  ASSUME NEW source, source.tools \in Seq(SourceTool), OwnEdges(source.tools)
  PROVE  LET made == DecoratedTools(source)
         IN  /\ ToolList(made)
             /\ \A n \in 1..Len(made) : \/ made[n].edges = <<>>
                                        \/ \E u \in ToSet(source.tools) : u.name = made[n].name /\ u.edges = made[n].edges
  <1> DEFINE list == source.tools
             N == Len(list)
             made == DecoratedTools(source)
             Loader(n) == list[n].name \in SkillLoaderNames
  <1>1. N \in Nat /\ DOMAIN list = 1..N /\ \A n \in 1..N : list[n] \in SourceTool
    OBVIOUS
  <1>2. made = [n \in 1..N |-> MapTool(list[n].name, Loader(n), list[n].edges)]
    BY <1>1 DEF DecoratedTools
  <1>3. \A i, j \in 1..N : list[i].name = list[j].name => i = j
    BY <1>1 DEF OwnEdges
  <1>4. ASSUME NEW n \in 1..N
        PROVE  /\ made[n] \in ToolSet /\ made[n].name = list[n].name
               /\ made[n].edges = <<>> \/ made[n].edges = list[n].edges
    <2>1. list[n].name \in STRING /\ list[n].edges \in Seq(EdgeSet)
      BY <1>1 DEF SourceTool
    <2> DEFINE l == Loader(n)
    <2>2. l \in BOOLEAN
      OBVIOUS
    <2>3. made[n] = MapTool(list[n].name, l, list[n].edges)
      BY <1>2
    <2> HIDE DEF l, made, list
    <2>4. /\ made[n] \in ToolSet /\ made[n].name = list[n].name
          /\ made[n].edges = IF l THEN <<>> ELSE list[n].edges
      <3> DEFINE nm == list[n].name
                 ed == list[n].edges
      <3>1. nm \in STRING /\ ed \in Seq(EdgeSet)
        BY <2>1
      <3>2. made[n] = MapTool(nm, l, ed)
        BY <2>3
      <3> HIDE DEF nm, ed
      <3>3. /\ MapTool(nm, l, ed) \in ToolSet /\ MapTool(nm, l, ed).name = nm
            /\ MapTool(nm, l, ed).edges = IF l THEN <<>> ELSE ed
        BY Zenon, <2>2, <3>1, ToolMade
      <3> QED BY <3>2, <3>3 DEF nm, ed
    <2> QED BY <2>4
  <1>5. made = [n \in 1..N |-> made[n]]
    BY <1>2
  <1> HIDE DEF made, N
  <1>6. ToolList(made) /\ Len(made) = N
    BY <1>1, <1>3, <1>4, <1>5, ToolsOfAll
  <1>7. \A n \in 1..N : list[n] \in ToSet(list)
    BY <1>1 DEF ToSet
  <1> HIDE DEF list
  <1> QED BY <1>4, <1>6, <1>7 DEF made, list

LEMMA LoadersAdded ==
  ASSUME NEW tools, ToolList(tools), NEW loaders \in Seq(STRING)
  PROVE  LET all == WithLoaders(tools, loaders)
         IN  /\ ToolList(all)
             /\ \A n \in 1..Len(all) : all[n].edges = <<>> \/ \E m \in 1..Len(tools) : all[n] = tools[m]
  <1> DEFINE P == {n \in DOMAIN loaders :
                     loaders[n] \notin NamesOf(tools) /\ \A m \in 1..n - 1 : loaders[m] # loaders[n]}
             new == Picked(loaders, P)
             N == Cardinality(P)
             made == [n \in DOMAIN new |-> MapTool(new[n], TRUE, <<>>)]
  <1>1. WithLoaders(tools, loaders) = tools \o made
    BY DEF WithLoaders
  <1>2. P \in SUBSET DOMAIN loaders /\ P \in SUBSET Int /\ IsFiniteSet(P)
    <2> DEFINE Q == P
    <2>1. Q \in SUBSET DOMAIN loaders
      OBVIOUS
    <2> HIDE DEF Q
    <2>2. Q \in SUBSET Int /\ IsFiniteSet(Q)
      BY <2>1, FinitePlaces
    <2> QED BY <2>1, <2>2 DEF Q
  <1>3. \A n \in P : /\ loaders[n] \in STRING /\ loaders[n] \notin NamesOf(tools)
                     /\ \A m \in P : m < n => loaders[m] # loaders[n]
    <2>1. \A n \in P : \A m \in 1..n - 1 : loaders[m] # loaders[n]
      OBVIOUS
    <2>2. \A n, m \in P : m < n => m \in 1..n - 1
      OBVIOUS
    <2>3. \A n \in P : loaders[n] \in STRING /\ loaders[n] \notin NamesOf(tools)
      OBVIOUS
    <2> HIDE DEF P
    <2> QED BY <2>1, <2>2, <2>3
  <1> HIDE DEF P
  <1>4. /\ N \in Nat /\ DOMAIN new = 1..N
        /\ \A k \in 1..N : Ascending(P)[k] \in P /\ new[k] = loaders[Ascending(P)[k]]
        /\ \A i, j \in 1..N : i < j => Ascending(P)[i] < Ascending(P)[j]
    BY <1>2, PickedIs
  <1> HIDE DEF new, N
  <1>5. ASSUME NEW n \in 1..N
        PROVE  made[n] \in ToolSet /\ made[n].name = new[n] /\ made[n].edges = <<>>
    <2> DEFINE l == TRUE
               e == <<>>
    <2>1. new[n] \in STRING /\ l \in BOOLEAN /\ e \in Seq(EdgeSet) /\ l
      BY <1>3, <1>4
    <2>2. made[n] = MapTool(new[n], l, e)
      BY <1>4
    <2> HIDE DEF l, e, made
    <2>3. /\ made[n] \in ToolSet /\ made[n].name = new[n]
          /\ made[n].edges = IF l THEN <<>> ELSE e
      <3>1. /\ MapTool(new[n], l, e) \in ToolSet /\ MapTool(new[n], l, e).name = new[n]
            /\ MapTool(new[n], l, e).edges = IF l THEN <<>> ELSE e
        BY Zenon, <2>1, ToolMade
      <3> QED BY <2>2, <3>1
    <2> QED BY <2>1, <2>3
  <1>6. made = [n \in 1..N |-> made[n]]
    BY <1>4
  <1> HIDE DEF made
  <1>7. ASSUME NEW i \in 1..N, NEW j \in 1..N, made[i].name = made[j].name PROVE i = j
    <2>1. ASSUME NEW p \in 1..N, NEW q \in 1..N, p < q PROVE new[p] # new[q]
      <3>1. Ascending(P)[p] \in P /\ Ascending(P)[q] \in P /\ Ascending(P)[p] < Ascending(P)[q]
        BY <1>4, <2>1
      <3> QED BY <1>3, <1>4, <3>1
    <2>2. new[i] = new[j]
      BY <1>5, <1>7
    <2>3. ~(i < j) /\ ~(j < i)
      BY <2>1, <2>2
    <2> QED BY <1>4, <2>3
  <1>8. ToolList(made) /\ Len(made) = N
    BY <1>4, <1>5, <1>6, <1>7, ToolsOfAll
  <1>9. \A i \in 1..Len(tools), j \in 1..Len(made) : tools[i].name # made[j].name
    <2> SUFFICES ASSUME NEW i \in 1..Len(tools), NEW j \in 1..N PROVE tools[i].name # made[j].name
      BY <1>8
    <2>1. tools[i].name \in NamesOf(tools)
      <3>1. tools[i] \in ToSet(tools)
        BY DEF ToSet, ToolList
      <3> QED BY <3>1 DEF NamesOf
    <2>2. new[j] \notin NamesOf(tools)
      BY <1>3, <1>4
    <2> QED BY <1>5, <2>1, <2>2
  <1> DEFINE all == tools \o made
  <1>10. /\ ToolList(all)
         /\ \A k \in 1..Len(all) : \/ \E i \in 1..Len(tools) : all[k] = tools[i]
                                   \/ \E j \in 1..Len(made) : all[k] = made[j]
    BY <1>8, <1>9, ToolsJoined
  <1> HIDE DEF all
  <1>11. \A n \in 1..Len(all) : all[n].edges = <<>> \/ \E m \in 1..Len(tools) : all[n] = tools[m]
    BY <1>5, <1>8, <1>10
  <1> QED BY <1>1, <1>10, <1>11 DEF all
LEMMA GreatestNumber ==
  ASSUME NEW k \in Nat, NEW S \in SUBSET (1..k), S # {}
  PROVE  \E m \in S : \A n \in S : n <= m
  <1> DEFINE T == {k - n : n \in S}
  <1>1. T \in SUBSET Nat /\ T # {}
    <2>1. \A n \in S : k - n \in Nat
      OBVIOUS
    <2> QED BY <2>1
  <1>2. PICK t \in T : \A u \in T : t <= u
    <2> HIDE DEF T
    <2> QED BY <1>1, LeastNumber
  <1>3. PICK m \in S : t = k - m
    OBVIOUS
  <1>4. ASSUME NEW n \in S PROVE n <= m
    <2>1. k - n \in T /\ n \in Int /\ m \in Int
      OBVIOUS
    <2>2. k - m <= k - n
      BY <1>2, <1>3, <2>1
    <2> QED BY <2>1, <2>2
  <1> QED BY <1>4

LEMMA InAnyOrder ==
  ASSUME NEW tools, ToolList(tools), NEW list \in Seq(STRING)
  PROVE  LET all == InListOrder(tools, list)
         IN  ToolList(all) /\ \A n \in 1..Len(all) : \E m \in 1..Len(tools) : all[n] = tools[m]
  <1> DEFINE D == DOMAIN tools
             Listed(n) == {i \in DOMAIN list : list[i] = tools[n].name}
             Place(n) == IF Listed(n) = {} THEN Len(list) + 1
                         ELSE CHOOSE i \in Listed(n) : \A j \in Listed(n) : j <= i
             Before(a, b) == Place(a) < Place(b) \/ (Place(a) = Place(b) /\ a < b)
             R == {p \in D \X D : Before(p[1], p[2])}
             order == Ranked(D, R)
             all == InListOrder(tools, list)
             N == Len(tools)
  <1>1. N \in Nat /\ D = 1..N /\ \A n \in 1..N : tools[n] \in ToolSet
    BY DEF ToolList
  <1>2. all = [k \in DOMAIN order |-> tools[order[k]]]
    BY Zenon DEF InListOrder
  <1>3. ASSUME NEW n \in D PROVE Place(n) \in Int
    <2>1. CASE Listed(n) = {}
      <3>1. Len(list) + 1 \in Int
        OBVIOUS
      <3> HIDE DEF Listed
      <3> QED BY <2>1, <3>1
    <2>2. CASE Listed(n) # {}
      <3>1. Listed(n) \in SUBSET (1..Len(list)) /\ Len(list) \in Nat
        OBVIOUS
      <3> HIDE DEF Listed
      <3>2. \E i \in Listed(n) : \A j \in Listed(n) : j <= i
        BY <2>2, <3>1, GreatestNumber
      <3>3. Place(n) \in Listed(n)
        BY <2>2, <3>2
      <3> HIDE DEF Place
      <3> QED BY <3>1, <3>3
    <2> QED BY <2>1, <2>2
  <1> HIDE DEF Place
  <1>4. \A x, y \in D : <<x, y>> \in R <=> Before(x, y)
    OBVIOUS
  <1>5. Orders(R, D) /\ \A x \in D : <<x, x>> \notin R
    <2> HIDE DEF R
    <2>0. \A x \in D : x \in Int
      BY <1>1
    <2> HIDE DEF D
    <2>1. \A x \in D : <<x, x>> \notin R
      BY <1>3, <1>4, <2>0
    <2>2. \A x, y \in D : x # y => <<x, y>> \in R \/ <<y, x>> \in R
      BY <1>3, <1>4, <2>0
    <2>3. \A x, y, z \in D : <<x, y>> \in R /\ <<y, z>> \in R => <<x, z>> \in R
      BY <1>3, <1>4, <2>0
    <2> QED BY <2>1, <2>2, <2>3 DEF Orders
  <1> HIDE DEF R
  <1>6. IsFiniteSet(D) /\ Cardinality(D) = N
    <2> DEFINE k == N
    <2>1. k \in Nat /\ D = 1..k
      BY <1>1
    <2> HIDE DEF k
    <2>2. IsFiniteSet(1..k) /\ Cardinality(1..k) = k
      BY <2>1, FS_Interval
    <2> QED BY <2>1, <2>2 DEF k
  <1> HIDE DEF D, order
  <1>7. /\ order \in [1..N -> D]
        /\ \A i, j \in 1..N : i < j => <<order[i], order[j]>> \in R
    BY <1>5, <1>6, RankedInOrder DEF order
  <1>8. ASSUME NEW n \in 1..N
        PROVE  order[n] \in 1..N /\ all[n] = tools[order[n]] /\ all[n] \in ToolSet
    BY <1>1, <1>2, <1>7
  <1>9. ASSUME NEW i \in 1..N, NEW j \in 1..N, all[i].name = all[j].name PROVE i = j
    <2>1. order[i] = order[j]
      BY <1>8, <1>9 DEF ToolList
    <2>2. <<order[i], order[j]>> \notin R /\ <<order[j], order[i]>> \notin R
      BY <1>5, <1>7, <2>1
    <2>3. ~(i < j) /\ ~(j < i)
      BY <1>7, <2>2
    <2> QED BY <1>1, <2>3
  <1>10. all = [n \in 1..N |-> all[n]]
    BY <1>2, <1>7
  <1> HIDE DEF all
  <1>11. ToolList(all) /\ Len(all) = N
    <2> HIDE DEF N
    <2> QED BY <1>1, <1>8, <1>9, <1>10, ToolsOfAll
  <1> QED BY <1>8, <1>11 DEF all

LEMMA SourceDeclares ==
  ASSUME NEW source, source.tools \in Seq(SourceTool), OwnEdges(source.tools),
         source.loaders \in Seq(STRING), source.list \in Seq(STRING)
  PROVE  LET all == DeclaredTools(source)
         IN  /\ ToolList(all)
             /\ \A n \in 1..Len(all) : \/ all[n].edges = <<>>
                                       \/ \E u \in ToSet(source.tools) : u.name = all[n].name /\ u.edges = all[n].edges
  <1> DEFINE a == DecoratedTools(source)
             b == WithLoaders(a, source.loaders)
             c == InListOrder(b, source.list)
             Fits(t) == t.edges = <<>> \/ \E u \in ToSet(source.tools) : u.name = t.name /\ u.edges = t.edges
  <1>1. ToolList(a) /\ \A n \in 1..Len(a) : Fits(a[n])
    BY Decorated
  <1> HIDE DEF a
  <1>2. ToolList(b) /\ \A n \in 1..Len(b) : b[n].edges = <<>> \/ \E m \in 1..Len(a) : b[n] = a[m]
    BY <1>1, LoadersAdded
  <1> HIDE DEF b
  <1>3. ToolList(c) /\ \A n \in 1..Len(c) : \E m \in 1..Len(b) : c[n] = b[m]
    BY <1>2, InAnyOrder
  <1>4. c = DeclaredTools(source)
    BY DEF DeclaredTools, c, b, a
  <1> HIDE DEF c
  <1>5. \A n \in 1..Len(c) : Fits(c[n])
    BY <1>1, <1>2, <1>3
  <1> QED BY <1>3, <1>4, <1>5

LiveTool == [name : STRING, odd : BOOLEAN, tagged : BOOLEAN, edges : Seq(EdgeSet)]

\* Whose edge cases a tool has: those of the live tool of its name, or else of the one in the source.
OwnTool(t, source, live) ==
  \/ t.edges = <<>>
  \/ \E u \in ToSet(LiveTools(live)) : u.name = t.name /\ u.edges = t.edges /\ ~LiveLoader(u)
  \/ /\ t.name \notin NamesOf(LiveTools(live))
     /\ \E u \in ToSet(source.tools) : u.name = t.name /\ u.edges = t.edges

LEMMA ShownTools ==
  ASSUME NEW live, live.tools \in Seq(LiveTool), OwnEdges(live.tools)
  PROVE  LET shown == LiveTools(live)
         IN  /\ shown \in Seq(LiveTool) /\ \A i, j \in 1..Len(shown) : shown[i].name = shown[j].name => i = j
             /\ \A t \in ToSet(shown) : t \in LiveTool /\ t \in ToSet(live.tools)
             /\ \A t, u \in ToSet(shown) : t.name = u.name => t = u
  <1> DEFINE shown == LiveTools(live)
  <1>1. CASE live.loads
    <2>1. shown = live.tools
      BY <1>1 DEF LiveTools
    <2>2. \A i, j \in DOMAIN shown : shown[i].name = shown[j].name => i = j
      BY <2>1 DEF OwnEdges
    <2> HIDE DEF shown
    <2>3. shown \in Seq(LiveTool) /\ DOMAIN shown = 1..Len(shown)
      BY <2>1
    <2>4. \A t \in ToSet(shown) : t \in LiveTool /\ t \in ToSet(live.tools)
      BY <2>1, <2>3 DEF ToSet
    <2>5. \A t, u \in ToSet(shown) : t.name = u.name => t = u
      BY <2>2 DEF ToSet
    <2> QED BY <2>2, <2>3, <2>4, <2>5 DEF shown
  <1>2. CASE ~live.loads
    <2>1. shown = <<>>
      BY <1>2 DEF LiveTools
    <2>2. shown \in Seq(LiveTool) /\ Len(shown) = 0 /\ ToSet(shown) = {}
      BY <2>1 DEF ToSet
    <2> HIDE DEF shown
    <2>3. \A i \in 1..Len(shown) : FALSE
      BY <2>2
    <2> QED BY <2>2, <2>3 DEF shown
  <1> QED BY <1>1, <1>2
LEMMA ToolsOfAnAgent ==
  ASSUME NEW source, source.tools \in Seq(SourceTool), OwnEdges(source.tools),
         source.loaders \in Seq(STRING), source.list \in Seq(STRING),
         NEW live, live.tools \in Seq(LiveTool), OwnEdges(live.tools)
  PROVE  /\ ToolList(AgentTools(source, live))
         /\ \A n \in 1..Len(AgentTools(source, live)) : OwnTool(AgentTools(source, live)[n], source, live)
  <1> DEFINE declared == DeclaredTools(source)
             shown == LiveTools(live)
             P == {n \in DOMAIN shown : shown[n].name \notin NamesOf(declared)}
             others == Picked(shown, P)
             a == [n \in DOMAIN declared |-> Refreshed(live, declared[n])]
             b == [n \in DOMAIN others |-> LiveOnly(others[n])]
             N == Cardinality(P)
             K == Len(declared)
             Own(t) == OwnTool(t, source, live)
  <1>1. /\ ToolList(declared)
        /\ \A n \in 1..K : \/ declared[n].edges = <<>>
                           \/ \E u \in ToSet(source.tools) : u.name = declared[n].name /\ u.edges = declared[n].edges
    BY SourceDeclares
  <1>2. /\ shown \in Seq(LiveTool) /\ \A i, j \in 1..Len(shown) : shown[i].name = shown[j].name => i = j
        /\ \A t \in ToSet(shown) : t \in LiveTool
    BY ShownTools
  <1>3. AgentTools(source, live) = a \o b
    BY DEF AgentTools
  <1> HIDE DEF declared, shown
  <1>4. K \in Nat /\ DOMAIN declared = 1..K /\ \A n \in 1..K : declared[n] \in ToolSet
    BY <1>1 DEF ToolList
  <1>5. ASSUME NEW t \in LiveTool
        PROVE  /\ t.name \in STRING /\ t.edges \in Seq(EdgeSet) /\ LiveLoader(t) \in BOOLEAN
    <2>1. LiveLoader(t) \in BOOLEAN
      BY DEF LiveLoader
    <2> QED BY <2>1 DEF LiveTool
  <1>6. ASSUME NEW n \in 1..K
        PROVE  a[n] \in ToolSet /\ a[n].name = declared[n].name /\ Own(a[n])
    <2> DEFINE tool == declared[n]
               same == {t \in ToSet(shown) : t.name = tool.name}
               t == CHOOSE t \in same : TRUE
    <2>1. a[n] = IF same = {} THEN tool ELSE MapTool(t.name, LiveLoader(t), t.edges)
      BY <1>4 DEF Refreshed, shown
    <2>2. CASE same = {}
      <3>1. a[n] = tool /\ tool \in ToolSet
        BY <1>4, <2>1, <2>2
      <3>2. tool.name \notin NamesOf(shown)
        BY <2>2 DEF NamesOf
      <3>3. Own(a[n])
        BY <1>1, <3>1, <3>2 DEF OwnTool, shown
      <3> QED BY <3>1, <3>3
    <2>3. CASE same # {}
      <3>1. t \in ToSet(shown) /\ t.name = tool.name
        BY <2>3
      <3>2. a[n] = MapTool(t.name, LiveLoader(t), t.edges)
        BY <2>1, <2>3
      <3> HIDE DEF t, tool, same, a
      <3> DEFINE l == LiveLoader(t)
                 nm == t.name
                 ed == t.edges
      <3>3. nm \in STRING /\ ed \in Seq(EdgeSet) /\ l \in BOOLEAN
        BY <1>2, <1>5, <3>1
      <3>4. a[n] = MapTool(nm, l, ed) /\ nm = tool.name
        BY <3>1, <3>2
      <3> HIDE DEF l, nm, ed
      <3>5. /\ MapTool(nm, l, ed) \in ToolSet /\ MapTool(nm, l, ed).name = nm
            /\ MapTool(nm, l, ed).edges = IF l THEN <<>> ELSE ed
        BY Zenon, <3>3, ToolMade
      <3>6. a[n] \in ToolSet /\ a[n].name = nm /\ a[n].edges = IF l THEN <<>> ELSE ed
        BY <3>4, <3>5
      <3>7. Own(a[n])
        <4>1. CASE l
          BY <3>6, <4>1 DEF OwnTool
        <4>2. CASE ~l
          <5>1. ~LiveLoader(t) /\ a[n].edges = t.edges /\ a[n].name = t.name /\ t \in ToSet(LiveTools(live))
            BY <3>1, <3>6, <4>2 DEF l, nm, ed, shown
          <5> QED BY <5>1 DEF OwnTool
        <4> QED BY <4>1, <4>2
      <3> QED BY <3>4, <3>6, <3>7 DEF tool
    <2> QED BY <2>2, <2>3
  <1>7. a = [n \in 1..K |-> a[n]]
    BY <1>4
  <1>8. P \in SUBSET DOMAIN shown /\ P \in SUBSET Int /\ IsFiniteSet(P)
    <2> DEFINE Q == P
    <2>1. Q \in SUBSET DOMAIN shown
      OBVIOUS
    <2> HIDE DEF Q
    <2>2. Q \in SUBSET Int /\ IsFiniteSet(Q)
      BY <1>2, <2>1, FinitePlaces
    <2> QED BY <2>1, <2>2 DEF Q
  <1>9. \A n \in P : shown[n] \in ToSet(shown) /\ shown[n].name \notin NamesOf(declared) /\ n \in 1..Len(shown)
    BY <1>2 DEF ToSet
  <1> HIDE DEF P, a
  <1>10. /\ N \in Nat /\ DOMAIN others = 1..N
         /\ \A k \in 1..N : Ascending(P)[k] \in P /\ others[k] = shown[Ascending(P)[k]]
         /\ \A i, j \in 1..N : i < j => Ascending(P)[i] < Ascending(P)[j]
    BY <1>8, PickedIs
  <1>11. b = [n \in 1..N |-> LiveOnly(others[n])]
    BY <1>10
  <1> HIDE DEF others, N
  <1>12. ASSUME NEW n \in 1..N
         PROVE  /\ others[n] \in ToSet(shown) /\ others[n] \in LiveTool /\ others[n].name \notin NamesOf(declared)
                /\ b[n] \in ToolSet /\ b[n].name = others[n].name /\ Own(b[n])
    <2> DEFINE t == others[n]
    <2>1. t \in ToSet(shown) /\ t \in LiveTool /\ t.name \notin NamesOf(declared)
      BY <1>2, <1>9, <1>10
    <2> DEFINE l == LiveLoader(t)
               nm == t.name
               ed == IF t.odd THEN <<>> ELSE t.edges
    <2>2. b[n] = MapTool(nm, l, ed)
      BY <1>11 DEF LiveOnly
    <2> HIDE DEF t
    <2>3. nm \in STRING /\ ed \in Seq(EdgeSet) /\ l \in BOOLEAN
      <3>1. t.name \in STRING /\ t.edges \in Seq(EdgeSet) /\ LiveLoader(t) \in BOOLEAN
        BY <1>5, <2>1
      <3>2. ed \in Seq(EdgeSet)
        BY <3>1
      <3> QED BY <3>1, <3>2
    <2>4. ed = <<>> \/ ed = t.edges
      OBVIOUS
    <2> HIDE DEF l, nm, ed, b
    <2>5. /\ MapTool(nm, l, ed) \in ToolSet /\ MapTool(nm, l, ed).name = nm
          /\ MapTool(nm, l, ed).edges = IF l THEN <<>> ELSE ed
      BY Zenon, <2>3, ToolMade
    <2>6. b[n] \in ToolSet /\ b[n].name = nm /\ b[n].edges = IF l THEN <<>> ELSE ed
      BY <2>2, <2>5
    <2>7. Own(b[n])
      <3>1. CASE l \/ ed = <<>>
        <4>1. b[n].edges = <<>>
          BY <2>6, <3>1
        <4> QED BY <4>1 DEF OwnTool
      <3>2. CASE ~l /\ ed = t.edges
        <4>1. ~LiveLoader(t) /\ b[n].edges = t.edges /\ b[n].name = t.name /\ t \in ToSet(LiveTools(live))
          BY <2>1, <2>6, <3>2 DEF l, nm, shown
        <4> QED BY <4>1 DEF OwnTool
      <3> QED BY <2>4, <3>1, <3>2
    <2> QED BY <2>1, <2>6, <2>7 DEF t, nm
  <1>13. b = [n \in 1..N |-> b[n]]
    BY <1>11
  <1> HIDE DEF b, K
  <1>14. ASSUME NEW i \in 1..K, NEW j \in 1..K, a[i].name = a[j].name PROVE i = j
    BY <1>1, <1>6, <1>14 DEF ToolList, K
  <1>15. ASSUME NEW i \in 1..N, NEW j \in 1..N, b[i].name = b[j].name PROVE i = j
    <2>1. others[i].name = others[j].name
      BY <1>12, <1>15
    <2>2. Ascending(P)[i] = Ascending(P)[j]
      BY <1>2, <1>9, <1>10, <2>1
    <2>3. Ascending(P)[i] \in Int
      BY <1>8, <1>10
    <2>4. ~(i < j) /\ ~(j < i)
      <3>1. ~(Ascending(P)[i] < Ascending(P)[j]) /\ ~(Ascending(P)[j] < Ascending(P)[i])
        BY <2>2, <2>3
      <3> QED BY <1>10, <3>1
    <2> QED BY <1>10, <2>4
  <1>16. ToolList(a) /\ Len(a) = K
    BY <1>4, <1>6, <1>7, <1>14, ToolsOfAll
  <1>17. ToolList(b) /\ Len(b) = N
    BY <1>10, <1>12, <1>13, <1>15, ToolsOfAll
  <1>18. \A i \in 1..Len(a), j \in 1..Len(b) : a[i].name # b[j].name
    <2> SUFFICES ASSUME NEW i \in 1..K, NEW j \in 1..N PROVE a[i].name # b[j].name
      BY <1>16, <1>17
    <2>1. declared[i].name \in NamesOf(declared)
      BY <1>4 DEF NamesOf, ToSet
    <2> QED BY <1>6, <1>12, <2>1
  <1> DEFINE all == a \o b
  <1>19. /\ ToolList(all)
         /\ \A k \in 1..Len(all) : \/ \E i \in 1..Len(a) : all[k] = a[i]
                                   \/ \E j \in 1..Len(b) : all[k] = b[j]
    BY <1>16, <1>17, <1>18, ToolsJoined
  <1> HIDE DEF all, Own
  <1>20. \A k \in 1..Len(all) : Own(all[k])
    BY <1>6, <1>12, <1>16, <1>17, <1>19
  <1> QED BY <1>3, <1>19, <1>20 DEF all, Own
EdgeLists(tools) == [n \in DOMAIN tools |-> tools[n].edges]

\* No edge case is in the agent's tools twice, and none is of a loader of skills.
LEMMA EdgesOfTheAgent ==
  ASSUME NEW conf \in Configs
  PROVE  LET lists == EdgeLists(AgentMap(conf.source, conf.live, conf.edges).tools)
         IN  /\ lists \in Seq(Seq(EdgeSet)) /\ OnceEach(lists)
             /\ \A t \in ToSet(LiveTools(conf.live)) : LiveLoader(t) =>
                  \A e \in ToSet(t.edges) : \A a \in 1..Len(lists) : \A i \in 1..Len(lists[a]) : lists[a][i].id # e.id
  <1> DEFINE source == conf.source
             live == conf.live
             tools == AgentTools(source, live)
             N == Len(tools)
             lists == EdgeLists(AgentMap(source, live, conf.edges).tools)
             all == ToSet(source.tools) \cup ToSet(live.tools)
             Ids(t) == {e.id : e \in ToSet(t.edges)}
  <1>1. /\ source.tools \in Seq(SourceTool) /\ source.loaders \in Seq(STRING) /\ source.list \in Seq(STRING)
        /\ live.tools \in Seq(LiveTool) /\ OwnEdges(source.tools) /\ OwnEdges(live.tools)
    BY ConfigsAssumption DEF SourceTool, LiveTool, EdgeSet
  <1>2. \A t, u \in all : t.name # u.name => Ids(t) \cap Ids(u) = {}
    BY ConfigsAssumption
  <1>3. conf.edges \in Int
    BY ConfigsAssumption
  <1> HIDE DEF source, live
  <1>4. ToolList(tools) /\ \A n \in 1..N : OwnTool(tools[n], source, live)
    BY <1>1, ToolsOfAnAgent
  <1>5. /\ \A t \in ToSet(LiveTools(live)) : t \in LiveTool /\ t \in ToSet(live.tools)
        /\ \A t, u \in ToSet(LiveTools(live)) : t.name = u.name => t = u
    BY <1>1, ShownTools
  <1>6. \A u \in all : \A m, n \in DOMAIN u.edges : u.edges[m].id = u.edges[n].id => m = n
    BY <1>1 DEF OwnEdges, ToSet
  <1>7. AgentMap(source, live, conf.edges).tools =
          IF conf.edges > 0 THEN tools ELSE [n \in DOMAIN tools |-> [tools[n] EXCEPT !.edges = <<>>]]
    BY DEF AgentMap
  <1> HIDE DEF tools, Ids, all
  <1>8. N \in Nat /\ DOMAIN tools = 1..N /\ \A n \in 1..N : tools[n] \in ToolSet
    BY <1>4 DEF ToolList
  <1>9. /\ DOMAIN lists = 1..N
        /\ \A n \in 1..N : lists[n] = <<>> \/ lists[n] = tools[n].edges
    <2>1. CASE conf.edges > 0
      <3>1. lists = [n \in 1..N |-> tools[n].edges]
        BY <1>7, <1>8, <2>1 DEF EdgeLists
      <3> QED BY <3>1
    <2>2. CASE ~(conf.edges > 0)
      <3>1. AgentMap(source, live, conf.edges).tools = [n \in 1..N |-> [tools[n] EXCEPT !.edges = <<>>]]
        BY <1>7, <1>8, <2>2
      <3>2. DOMAIN lists = 1..N
        BY <3>1 DEF EdgeLists
      <3>3. \A n \in 1..N : lists[n] = <<>>
        <4> SUFFICES ASSUME NEW n \in 1..N PROVE lists[n] = <<>>
          OBVIOUS
        <4>1. lists[n] = [tools[n] EXCEPT !.edges = <<>>].edges
          BY <3>1 DEF EdgeLists
        <4>2. tools[n] \in ToolSet
          BY <1>8
        <4> QED BY <4>1, <4>2 DEF ToolSet
      <3> QED BY <3>2, <3>3
    <2> QED BY <2>1, <2>2
  <1>10. lists = [n \in 1..N |-> lists[n]]
    <2>1. lists = [n \in DOMAIN AgentMap(source, live, conf.edges).tools |-> lists[n]]
      BY DEF EdgeLists
    <2> QED BY <1>9, <2>1
  <1> HIDE DEF lists, N
  <1>11. ASSUME NEW n \in 1..N PROVE lists[n] \in Seq(EdgeSet)
    <2>1. tools[n].edges \in Seq(EdgeSet)
      BY <1>8 DEF ToolSet
    <2>2. <<>> \in Seq(EdgeSet)
      OBVIOUS
    <2> QED BY <1>9, <2>1, <2>2
  <1>12. lists \in Seq(Seq(EdgeSet)) /\ Len(lists) = N
    <2> DEFINE S == Seq(EdgeSet)
    <2>1. \A n \in 1..N : lists[n] \in S
      BY <1>11
    <2> HIDE DEF S
    <2>2. lists \in [1..N -> S]
      BY <1>10, <2>1
    <2>3. lists \in Seq(S) /\ Len(lists) = N
      BY <1>8, <2>2
    <2> QED BY <2>3 DEF S
  <1>13. ASSUME NEW n \in 1..N, NEW i \in 1..Len(lists[n])
         PROVE  /\ tools[n].edges = lists[n] /\ i \in DOMAIN lists[n]
                /\ \E u \in all : u.name = tools[n].name /\ u.edges = lists[n]
                /\ \/ \E u \in ToSet(LiveTools(live)) : u.name = tools[n].name /\ u.edges = lists[n] /\ ~LiveLoader(u)
                   \/ tools[n].name \notin NamesOf(LiveTools(live))
    <2>0. lists[n] \in Seq(EdgeSet)
      BY <1>11
    <2>1. lists[n] # <<>> /\ tools[n].edges = lists[n] /\ i \in DOMAIN lists[n]
      <3>1. lists[n] # <<>>
        <4> SUFFICES ASSUME lists[n] = <<>> PROVE FALSE
          OBVIOUS
        <4> QED OBVIOUS
      <3>2. i \in DOMAIN lists[n]
        BY <2>0
      <3> QED BY <1>9, <3>1, <3>2
    <2>2. OwnTool(tools[n], source, live)
      BY <1>4
    <2>3. CASE \E u \in ToSet(LiveTools(live)) : u.name = tools[n].name /\ u.edges = lists[n] /\ ~LiveLoader(u)
      BY <1>5, <2>1, <2>3 DEF all
    <2>4. CASE /\ tools[n].name \notin NamesOf(LiveTools(live))
               /\ \E u \in ToSet(source.tools) : u.name = tools[n].name /\ u.edges = lists[n]
      BY <2>1, <2>4 DEF all
    <2> QED BY <2>1, <2>2, <2>3, <2>4 DEF OwnTool
  <1>14. ASSUME NEW a \in 1..N, NEW b \in 1..N, NEW i \in 1..Len(lists[a]), NEW j \in 1..Len(lists[b]),
                lists[a][i].id = lists[b][j].id
         PROVE  a = b /\ i = j
    <2>1. PICK u \in all : u.name = tools[a].name /\ u.edges = lists[a]
      BY <1>13
    <2>2. PICK w \in all : w.name = tools[b].name /\ w.edges = lists[b]
      BY <1>13
    <2>3. lists[a][i].id \in Ids(u) /\ lists[b][j].id \in Ids(w)
      BY <1>13, <2>1, <2>2 DEF Ids, ToSet
    <2>4. tools[a].name = tools[b].name
      BY <1>2, <1>14, <2>1, <2>2, <2>3
    <2>5. a = b
      BY <1>4, <2>4 DEF ToolList, N
    <2>6. i = j
      BY <1>6, <1>13, <1>14, <2>1, <2>5
    <2> QED BY <2>5, <2>6
  <1>15. OnceEach(lists)
    BY <1>12, <1>14 DEF OnceEach
  <1>16. ASSUME NEW t \in ToSet(LiveTools(live)), LiveLoader(t), NEW e \in ToSet(t.edges),
                NEW a \in 1..N, NEW i \in 1..Len(lists[a]), lists[a][i].id = e.id
         PROVE  FALSE
    <2>1. PICK u \in all : u.name = tools[a].name /\ u.edges = lists[a]
      BY <1>13
    <2>2. lists[a][i].id \in Ids(u) /\ e.id \in Ids(t)
      BY <1>13, <2>1 DEF Ids, ToSet
    <2>3. t \in all
      BY <1>5 DEF all
    <2>4. t.name = tools[a].name
      BY <1>2, <1>16, <2>1, <2>2, <2>3
    <2>5. t.name \in NamesOf(LiveTools(live))
      BY DEF NamesOf
    <2>6. PICK w \in ToSet(LiveTools(live)) : w.name = tools[a].name /\ ~LiveLoader(w)
      BY <1>13, <2>4, <2>5
    <2>7. w = t
      BY <1>5, <2>4, <2>6
    <2> QED BY <1>16, <2>6, <2>7
  <1> QED BY <1>12, <1>15, <1>16 DEF lists, source, live
----------------------------------------------------------------------------
(* Authoring: what is planned, and from what *)

Phases == {"discover", "map", "map_repair", "plan", "cases", "cases_repair", "build", "review", "awaiting",
           "done", "failed"}
WithPlan == {"cases", "cases_repair", "build", "review", "awaiting", "done"}

AgentKnown == agent = AgentMap(cfg.source, cfg.live, cfg.edges)
MapKnown == AgentKnown /\ \E answer \in MapAnswers : amap = CleanMap(answer, Applicable, Skills)
ThePlanOfIt == cells = PlanCells(cfg, amap, EdgeLists(agent.tools))

PlanInv ==
  /\ cfg \in Configs /\ phase \in Phases
  /\ phase \in {"map", "map_repair"} => AgentKnown
  /\ phase \in {"discover", "map", "map_repair"} => cells = <<>>
  /\ phase \in WithPlan \cup {"plan"} => MapKnown
  /\ phase \in WithPlan => ThePlanOfIt
  /\ cells # <<>> => MapKnown /\ ThePlanOfIt

LEMMA KnownStays ==
  ASSUME UNCHANGED <<cfg, agent>>
  PROVE  /\ Applicable' = Applicable /\ Skills' = Skills
         /\ AgentKnown => AgentKnown'
         /\ amap' = amap => /\ MapKnown => MapKnown'
                            /\ cells' = cells /\ ThePlanOfIt => ThePlanOfIt'
  <1>1. Applicable' = Applicable /\ Skills' = Skills
    BY DEF Applicable, Skills
  <1>2. AgentKnown => AgentKnown'
    BY DEF AgentKnown
  <1>3. ASSUME amap' = amap, MapKnown PROVE MapKnown'
    BY <1>1, <1>2, <1>3 DEF MapKnown
  <1>4. ASSUME amap' = amap, cells' = cells, ThePlanOfIt PROVE ThePlanOfIt'
    BY <1>4 DEF ThePlanOfIt
  <1> QED BY <1>1, <1>2, <1>3, <1>4

LEMMA PlanInvInit == Init => PlanInv
  BY DEF Init, PlanInv, Phases, WithPlan

\* Actions that leave the map and the plan alone.
LEMMA PlanInvKept ==
  ASSUME PlanInv, UNCHANGED <<cfg, agent, amap, cells>>, phase' \in Phases,
         phase' \in {"discover", "map", "map_repair"} => phase \in {"map", "map_repair"} /\ phase' \in {"map", "map_repair"},
         phase' \in WithPlan => phase \in WithPlan,
         phase' = "plan" => phase \in WithPlan \cup {"plan"}
  PROVE  PlanInv'
  <1>1. /\ AgentKnown => AgentKnown'
        /\ MapKnown => MapKnown'
        /\ ThePlanOfIt => ThePlanOfIt'
    BY KnownStays
  <1>2. "plan" \notin WithPlan /\ "failed" \notin WithPlan
    BY DEF WithPlan
  <1>3. phase' \in WithPlan \cup {"plan"} => MapKnown'
    BY <1>1 DEF PlanInv
  <1>4. phase' \in WithPlan => ThePlanOfIt'
    BY <1>1 DEF PlanInv
  <1>5. cells' # <<>> => MapKnown' /\ ThePlanOfIt'
    BY <1>1 DEF PlanInv
  <1>6. phase' \in {"map", "map_repair"} => AgentKnown'
    BY <1>1 DEF PlanInv
  <1>7. phase' \in {"discover", "map", "map_repair"} => cells' = <<>>
    BY DEF PlanInv
  <1>8. cfg' \in Configs
    BY DEF PlanInv
  <1> QED BY <1>3, <1>4, <1>5, <1>6, <1>7, <1>8 DEF PlanInv

LEMMA TakeMapKeeps ==
  ASSUME PlanInv, phase \in {"map", "map_repair"}, NEW answer \in MapAnswers, TakeMap(answer),
         UNCHANGED <<cfg, agent, cells>>
  PROVE  PlanInv'
  <1> DEFINE clean == CleanMap(answer, Applicable, Skills)
  <1>1. AgentKnown /\ cells = <<>>
    BY DEF PlanInv
  <1>2. CASE clean.intents = <<>> \/ clean.scenarios = <<>>
    <2>1. amap' = amap /\ phase' \in {"map", "failed"}
      BY <1>2 DEF TakeMap, StageRaises
    <2>2. phase' \in Phases /\ phase' \notin WithPlan /\ phase' # "plan"
      BY <2>1 DEF Phases, WithPlan
    <2>3. phase' \in {"discover", "map", "map_repair"} => phase' \in {"map", "map_repair"}
      BY <2>1
    <2> QED BY <2>1, <2>2, <2>3, PlanInvKept
  <1>3. CASE ~(clean.intents = <<>> \/ clean.scenarios = <<>>)
    <2>1. amap' = clean /\ phase' = "plan"
      BY <1>3 DEF TakeMap
    <2>2. Applicable' = Applicable /\ Skills' = Skills /\ AgentKnown'
      BY <1>1, KnownStays
    <2>3. MapKnown'
      BY <2>1, <2>2 DEF MapKnown
    <2> QED BY <1>1, <2>1, <2>3 DEF PlanInv, Phases, WithPlan
  <1> QED BY <1>2, <1>3

LEMMA PlanInvNext == PlanInv /\ [Next]_vars => PlanInv'
  <1> SUFFICES ASSUME PlanInv, [Next]_vars PROVE PlanInv'
    OBVIOUS
  <1>0. phase \in Phases /\ cfg \in Configs
    BY DEF PlanInv
  <1>1. CASE Discover
    <2>1. UNCHANGED <<cfg, amap, cells>> /\ phase = "discover" /\ cells = <<>>
      BY <1>1 DEF Discover, PlanInv
    <2>2. CASE cfg.source.parses
      <3>1. agent' = AgentMap(cfg.source, cfg.live, cfg.edges) /\ phase' = "map"
        BY <1>1, <2>2 DEF Discover
      <3>2. AgentKnown'
        BY <2>1, <3>1 DEF AgentKnown
      <3> QED BY <1>0, <2>1, <3>1, <3>2 DEF PlanInv, Phases, WithPlan
    <2>3. CASE ~cfg.source.parses
      <3>1. phase' = "failed"
        BY <1>1, <2>3 DEF Discover
      <3> QED BY <1>0, <2>1, <3>1 DEF PlanInv, Phases, WithPlan
    <2> QED BY <2>2, <2>3
  <1>2. CASE AskMap
    <2>1. phase = "map" /\ UNCHANGED <<cfg, agent, cells>>
      BY <1>2 DEF AskMap
    <2>2. PICK answer \in MapAnswers :
            IF MapErrors(answer, Applicable, Skills) # {}
              THEN phase' = "map_repair" /\ UNCHANGED <<attempt, amap, problems>>
              ELSE TakeMap(answer)
      BY <1>2 DEF AskMap
    <2>3. CASE MapErrors(answer, Applicable, Skills) # {}
      <3>1. phase' = "map_repair" /\ amap' = amap
        BY <2>2, <2>3
      <3>2. phase' \in Phases /\ phase' \notin WithPlan /\ phase' # "plan" /\ phase' \in {"map", "map_repair"}
        BY <3>1 DEF Phases, WithPlan
      <3> QED BY <2>1, <3>1, <3>2, PlanInvKept
    <2>4. CASE ~(MapErrors(answer, Applicable, Skills) # {})
      BY <2>1, <2>2, <2>4, TakeMapKeeps
    <2> QED BY <2>3, <2>4
  <1>3. CASE RepairMap
    BY <1>3, TakeMapKeeps DEF RepairMap
  <1>4. CASE GeneratorFails
    <2>1. /\ UNCHANGED <<cfg, agent, amap, cells>>
          /\ phase \in {"map", "map_repair"} => phase' \in {"map", "failed"}
          /\ phase \in {"cases", "cases_repair"} => phase' \in {"plan", "failed"}
          /\ phase \in {"map", "map_repair", "cases", "cases_repair"}
      BY <1>4 DEF GeneratorFails, StageRaises
    <2>2. CASE phase \in {"map", "map_repair"}
      <3>1. phase' \in {"map", "failed"}
        BY <2>1, <2>2
      <3>2. phase' \in Phases /\ phase' \notin WithPlan /\ phase' # "plan"
        BY <3>1 DEF Phases, WithPlan
      <3>3. phase' \in {"discover", "map", "map_repair"} => phase' \in {"map", "map_repair"}
        BY <3>1
      <3> QED BY <2>1, <2>2, <3>2, <3>3, PlanInvKept
    <2>3. CASE phase \in {"cases", "cases_repair"}
      <3>1. phase' \in {"plan", "failed"}
        BY <2>1, <2>3
      <3>2. phase' \in Phases /\ phase' \notin WithPlan /\ phase' \notin {"discover", "map", "map_repair"}
            /\ phase \in WithPlan
        BY <2>3, <3>1 DEF Phases, WithPlan
      <3> QED BY <2>1, <3>2, PlanInvKept
    <2> QED BY <2>1, <2>2, <2>3
  <1>5. CASE Plan
    <2>1. /\ UNCHANGED <<cfg, agent, amap>> /\ phase = "plan" /\ phase' = "cases"
          /\ cells' = PlanCells(cfg, amap, EdgeLists(agent.tools))
      BY <1>5 DEF Plan, EdgeLists
    <2>2. MapKnown
      BY <2>1 DEF PlanInv
    <2>3. MapKnown'
      BY <2>1, <2>2, KnownStays
    <2>4. ThePlanOfIt'
      BY <2>1 DEF ThePlanOfIt
    <2> QED BY <1>0, <2>1, <2>3, <2>4 DEF PlanInv, Phases, WithPlan
  <1>6. CASE AskCases \/ RepairCases
    <2>1. /\ UNCHANGED <<cfg, agent, amap, cells>> /\ phase \in {"cases", "cases_repair"}
          /\ phase' \in {"cases", "cases_repair", "build"}
      <3>1. CASE AskCases
        BY <3>1 DEF AskCases, NextBatch
      <3>2. CASE RepairCases
        BY <3>2 DEF RepairCases, NextBatch
      <3> QED BY <1>6, <3>1, <3>2
    <2>2. phase' \in Phases /\ phase' # "plan" /\ phase' \notin {"discover", "map", "map_repair"} /\ phase \in WithPlan
      BY <2>1 DEF Phases, WithPlan
    <2> QED BY <2>1, <2>2, PlanInvKept
  <1>7. CASE BuildDataset
    <2>1. /\ UNCHANGED <<cfg, agent, amap, cells>> /\ phase = "build"
          /\ phase' \in {"plan", "failed", "review"}
      BY <1>7 DEF BuildDataset, StageRaises
    <2>2. phase' \in Phases /\ phase' \notin {"discover", "map", "map_repair"} /\ phase \in WithPlan
      BY <2>1 DEF Phases, WithPlan
    <2> QED BY <2>1, <2>2, PlanInvKept
  <1>8. CASE ReviewDecided \/ Review
    <2>1. /\ UNCHANGED <<cfg, agent, amap, cells>> /\ phase = "review"
          /\ phase' \in {"review", "awaiting", "done", "failed"}
      <3>1. CASE ReviewDecided
        BY <3>1 DEF ReviewDecided, StageRaises
      <3>2. CASE Review
        BY <3>2 DEF Review, StageRaises
      <3> QED BY <1>8, <3>1, <3>2
    <2>2. phase' \in Phases /\ phase' # "plan" /\ phase' \notin {"discover", "map", "map_repair"} /\ phase \in WithPlan
      BY <2>1 DEF Phases, WithPlan
    <2> QED BY <2>1, <2>2, PlanInvKept
  <1>9. CASE Person \/ Resume
    <2>1. /\ UNCHANGED <<cfg, agent, amap, cells>> /\ phase = "awaiting"
          /\ phase' \in {"review", "awaiting"}
      BY <1>9 DEF Person, Resume
    <2>2. phase' \in Phases /\ phase' # "plan" /\ phase' \notin {"discover", "map", "map_repair"} /\ phase \in WithPlan
      BY <2>1 DEF Phases, WithPlan
    <2> QED BY <2>1, <2>2, PlanInvKept
  <1>10. CASE UNCHANGED vars
    <2>1. UNCHANGED <<cfg, agent, amap, cells, phase>>
      BY <1>10 DEF vars
    <2>2. /\ AgentKnown => AgentKnown'
          /\ MapKnown => MapKnown'
          /\ ThePlanOfIt => ThePlanOfIt'
      BY <2>1, KnownStays
    <2> QED BY <2>1, <2>2 DEF PlanInv
  <1> QED BY <1>1, <1>2, <1>3, <1>4, <1>5, <1>6, <1>7, <1>8, <1>9, <1>10 DEF Next

LEMMA PlanInvariant == Spec => []PlanInv
  <1>1. Init => PlanInv
    BY PlanInvInit
  <1>2. PlanInv /\ [Next]_vars => PlanInv'
    BY PlanInvNext
  <1> QED BY <1>1, <1>2, PTL DEF Spec
\* The facts of a plan that is made.
LEMMA PlanFacts ==
  ASSUME PlanInv, MapKnown, NEW plan, plan = PlanCells(cfg, amap, EdgeLists(agent.tools))
  PROVE  /\ plan \in Seq(CellSet) /\ amap \in MapSet /\ Config(cfg)
         /\ Drawn(plan, amap, cfg, EdgeLists(agent.tools))
         /\ OnceEach(EdgeLists(agent.tools))
         /\ \A t \in ToSet(LiveTools(cfg.live)) : LiveLoader(t) =>
              \A e \in ToSet(t.edges) : \A a \in 1..Len(EdgeLists(agent.tools)) :
                \A i \in 1..Len(EdgeLists(agent.tools)[a]) : EdgeLists(agent.tools)[a][i].id # e.id
         /\ \A n \in DOMAIN amap.scenarios :
              /\ amap.scenarios[n].intent \in ToSet(amap.intents)
              /\ amap.scenarios[n].kind = "failure" => amap.scenarios[n].mode \in Applicable
         /\ \A f \in ToSet(amap.failures) : f \in Applicable
         /\ \A n \in 1..Len(plan) : plan[n].multi <= plan[n].count
         /\ SumOf([n \in DOMAIN plan |-> plan[n].multi]) <= RoundPercent(Planned(plan) * cfg.share)
         /\ (\E n \in 1..Len(plan) : plan[n].kind = "happy") => Planned(plan) >= cfg.total
  <1> DEFINE lists == EdgeLists(agent.tools)
  <1>1. PICK answer \in MapAnswers : amap = CleanMap(answer, Applicable, Skills)
    BY DEF MapKnown
  <1>2. Schematic(answer)
    BY AnswersAssumption DEF Schematic, ScenarioSet
  <1>3. /\ amap \in MapSet
        /\ \A n \in DOMAIN amap.scenarios :
             /\ amap.scenarios[n].intent \in ToSet(amap.intents)
             /\ amap.scenarios[n].kind = "failure" => amap.scenarios[n].mode \in Applicable
        /\ \A f \in ToSet(amap.failures) : f \in Applicable
    BY <1>1, <1>2, MapIsClean
  <1>4. cfg \in Configs /\ Config(cfg)
    <2>1. cfg \in Configs
      BY DEF PlanInv
    <2>2. {cfg.happy, cfg.failure, cfg.category, cfg.out, cfg.edges, cfg.total} \subseteq Int /\ cfg.share \in 0..100
      BY <2>1, ConfigsAssumption
    <2> QED BY <2>1, <2>2 DEF Config
  <1>5. agent = AgentMap(cfg.source, cfg.live, cfg.edges)
    BY DEF MapKnown, AgentKnown
  <1>6. /\ lists \in Seq(Seq(EdgeSet)) /\ OnceEach(lists)
        /\ \A t \in ToSet(LiveTools(cfg.live)) : LiveLoader(t) =>
             \A e \in ToSet(t.edges) : \A a \in 1..Len(lists) : \A i \in 1..Len(lists[a]) : lists[a][i].id # e.id
    BY <1>4, <1>5, EdgesOfTheAgent
  <1> HIDE DEF lists
  <1>7. plan = PlanCells(cfg, amap, lists)
    BY DEF lists
  <1>8. /\ plan \in Seq(CellSet) /\ Drawn(plan, amap, cfg, lists)
        /\ \A n \in 1..Len(plan) : plan[n].multi <= plan[n].count
        /\ SumOf([n \in DOMAIN plan |-> plan[n].multi]) <= RoundPercent(Planned(plan) * cfg.share)
        /\ (\E n \in 1..Len(plan) : plan[n].kind = "happy") => Planned(plan) >= cfg.total
    BY <1>3, <1>4, <1>6, <1>7, ThePlan
  <1> QED BY <1>3, <1>4, <1>6, <1>8 DEF lists

\* Whatever map the generator draws, and whatever the source and the import say of the tools, the plan keeps
\* its quotas: the functions of planning.py, on every map that _validate_map lets through.
THEOREM PlanKeepsItsQuotas == Spec => []PlanIsSound
  <1> USE DEF ToSet
  <1>1. PlanInv => PlanIsSound
    <2> SUFFICES ASSUME PlanInv, cells # <<>> PROVE PlanIsSound
      BY DEF PlanIsSound
    <2> DEFINE lists == EdgeLists(agent.tools)
    <2>1. MapKnown /\ ThePlanOfIt
      BY DEF PlanInv
    <2>2. /\ cells \in Seq(CellSet) /\ amap \in MapSet /\ Config(cfg)
          /\ Drawn(cells, amap, cfg, lists)
          /\ OnceEach(lists)
          /\ \A t \in ToSet(LiveTools(cfg.live)) : LiveLoader(t) =>
               \A e \in ToSet(t.edges) : \A a \in 1..Len(lists) : \A i \in 1..Len(lists[a]) : lists[a][i].id # e.id
          /\ \A n \in DOMAIN amap.scenarios :
               /\ amap.scenarios[n].intent \in ToSet(amap.intents)
               /\ amap.scenarios[n].kind = "failure" => amap.scenarios[n].mode \in Applicable
          /\ \A f \in ToSet(amap.failures) : f \in Applicable
          /\ \A n \in 1..Len(cells) : cells[n].multi <= cells[n].count
          /\ SumOf([n \in DOMAIN cells |-> cells[n].multi]) <= RoundPercent(Planned(cells) * cfg.share)
          /\ (\E n \in 1..Len(cells) : cells[n].kind = "happy") => Planned(cells) >= cfg.total
      BY <2>1, PlanFacts DEF ThePlanOfIt
    <2> HIDE DEF lists
    <2>3. \A n \in 1..Len(cells) : cells[n] \in CellSet /\ cells[n].count >= 1 /\ cells[n].count \in Nat /\ Origin(cells[n], amap, lists)
      <3>1. \A n \in 1..Len(cells) : cells[n].count >= 1 /\ Origin(cells[n], amap, lists)
        BY <2>2 DEF Drawn
      <3>2. \A n \in 1..Len(cells) : cells[n] \in CellSet
        BY <2>2
      <3>3. \A n \in 1..Len(cells) : cells[n].count \in Nat
        BY <3>2 DEF CellSet
      <3> QED BY <3>1, <3>2, <3>3
    <2>4. DOMAIN cells = 1..Len(cells) /\ \A c \in ToSet(cells) : \E n \in 1..Len(cells) : c = cells[n]
      <3>1. DOMAIN cells = 1..Len(cells)
        BY <2>2
      <3> QED BY <3>1
    <2>5. ASSUME NEW s \in ToSet(amap.scenarios)
          PROVE  \E c \in ToSet(cells) : c.intent = s.intent /\ c.scenario = s.id /\ c.kind = s.kind /\ c.count > 0
      <3>1. PICK n \in DOMAIN amap.scenarios : s = amap.scenarios[n]
        OBVIOUS
      <3>2. PICK k \in 1..Len(cells) : IsFor(cells[k], amap.scenarios[n])
        BY <2>2 DEF Drawn
      <3>3. cells[k].count > 0
        BY <2>3
      <3> QED BY <2>4, <3>1, <3>2, <3>3 DEF IsFor
    <2>6. ASSUME cfg.out > 0 PROVE \E c \in ToSet(cells) : c.mode = OutOfScope /\ c.count >= cfg.out
      BY <2>2, <2>4, <2>6 DEF Drawn
    <2>7. (\E c \in ToSet(cells) : c.kind = "happy") => Planned(cells) >= cfg.total
      BY <2>2, <2>4
    <2>8. \A c \in ToSet(cells) : c.multi <= c.count
      BY <2>2, <2>4
    <2>9. ASSUME NEW c \in ToSet(cells)
          PROVE  /\ c.kind \in {"failure", "category"} => c.mode \in Applicable
                 /\ c.kind \in {"happy", "failure"} => c.intent \in ToSet(amap.intents)
      <3>1. Origin(c, amap, lists)
        BY <2>3, <2>4
      <3>2. CASE c.kind \in {"happy", "failure"}
        <4>1. PICK n \in DOMAIN amap.scenarios : IsFor(c, amap.scenarios[n])
          BY <3>1, <3>2 DEF Origin, SchemaEdge
        <4>2. c.kind = "failure" => c.mode = amap.scenarios[n].mode /\ amap.scenarios[n].kind = "failure"
          BY <4>1 DEF IsFor
        <4>3. c.intent \in ToSet(amap.intents)
          BY <2>2, <4>1 DEF IsFor
        <4>4. c.kind = "failure" => c.mode \in Applicable
          BY <2>2, <4>2
        <4> QED BY <3>2, <4>3, <4>4
      <3>3. CASE c.kind \notin {"happy", "failure"}
        <4>1. c.kind = "category" => c.mode \in ToSet(amap.failures)
          BY <3>1, <3>3 DEF Origin, SchemaEdge
        <4> QED BY <2>2, <3>3, <4>1
      <3> QED BY <3>2, <3>3
    <2>10. ASSUME NEW n \in DOMAIN cells, NEW m \in DOMAIN cells, cells[n].kind = SchemaEdge, cells[m].kind = SchemaEdge,
                  Key(cells[n]) = Key(cells[m])
           PROVE  n = m
      <3>1. cells[n].scenario = cells[m].scenario
        BY <2>10 DEF Key
      <3> QED BY <2>2, <2>4, <2>10, <3>1 DEF Drawn
    <2>11. ASSUME NEW t \in ToSet(LiveTools(cfg.live)), LiveLoader(t), NEW e \in ToSet(t.edges), NEW c \in ToSet(cells),
                  c.kind = SchemaEdge
           PROVE  c.scenario # e.id
      <3>1. Origin(c, amap, lists)
        BY <2>3, <2>4
      <3>2. \E a \in 1..Len(lists) : \E i \in 1..Len(lists[a]) : c.scenario = lists[a][i].id
        BY <2>11, <3>1 DEF Origin, SchemaEdge
      <3> QED BY <2>2, <2>11, <3>2
    <2> QED BY <2>2, <2>5, <2>6, <2>7, <2>8, <2>9, <2>10, <2>11 DEF PlanIsSound
  <1> QED BY <1>1, PlanInvariant, PTL
----------------------------------------------------------------------------
(* Counting the cases of a key *)

LEMMA SameSize ==
  ASSUME NEW S, NEW T, IsFiniteSet(S), NEW f \in [S -> T],
         \A x, y \in S : f[x] = f[y] => x = y, \A t \in T : \E x \in S : f[x] = t
  PROVE  IsFiniteSet(T) /\ Cardinality(T) = Cardinality(S)
  <1>1. f \in Bijection(S, T)
    BY DEF Bijection, Injection, Surjection, IsInjective
  <1>2. ExistsBijection(S, T)
    BY <1>1 DEF ExistsBijection
  <1> QED BY <1>2, FS_Bijection

OfKey(list, key) == {n \in DOMAIN list : list[n].key = key}

LEMMA HaveIsANumber ==
  ASSUME NEW S, NEW list \in Seq(S), NEW key
  PROVE  /\ Have(list, key) = Cardinality(OfKey(list, key)) /\ Have(list, key) \in Nat
         /\ IsFiniteSet(OfKey(list, key)) /\ OfKey(list, key) \in SUBSET (1..Len(list)) /\ Len(list) \in Nat
  <1> DEFINE P == OfKey(list, key)
  <1>1. P \in SUBSET DOMAIN list
    BY DEF OfKey
  <1>2. IsFiniteSet(P)
    <2> HIDE DEF P
    <2> QED BY <1>1, FinitePlaces
  <1>3. Cardinality(P) \in Nat
    BY <1>2, FS_CardinalityType
  <1>4. Have(list, key) = Cardinality(P)
    BY DEF Have, OfKey
  <1> QED BY <1>1, <1>2, <1>3, <1>4

LEMMA HaveJoined ==
  ASSUME NEW S, NEW a \in Seq(S), NEW b \in Seq(S), NEW key
  PROVE  Have(a \o b, key) = Have(a, key) + Have(b, key)
  <1> DEFINE s == a \o b
             x == Len(a)
             A == OfKey(a, key)
             B == OfKey(b, key)
             C == {n \in OfKey(s, key) : n > x}
             f == [n \in B |-> x + n]
  <1>1. /\ x \in Nat /\ Len(b) \in Nat /\ s \in Seq(S) /\ Len(s) = x + Len(b) /\ DOMAIN s = 1..x + Len(b)
        /\ \A n \in 1..x : s[n] = a[n]
        /\ \A n \in 1..Len(b) : s[x + n] = b[n]
        /\ DOMAIN a = 1..x /\ DOMAIN b = 1..Len(b)
    OBVIOUS
  <1>2. /\ Have(a, key) = Cardinality(A) /\ IsFiniteSet(A) /\ Have(a, key) \in Nat
        /\ Have(b, key) = Cardinality(B) /\ IsFiniteSet(B) /\ Have(b, key) \in Nat
        /\ A \in SUBSET (1..x) /\ B \in SUBSET (1..Len(b))
    BY HaveIsANumber
  <1> HIDE DEF s, x
  <1>3. OfKey(s, key) = A \cup C
    <2>1. \A n \in OfKey(s, key) : n \in 1..x + Len(b)
      BY <1>1 DEF OfKey
    <2>2. \A n \in 1..x : n \in OfKey(s, key) <=> n \in A
      BY <1>1 DEF OfKey
    <2>3. \A n \in OfKey(s, key) : n \in A \/ n \in C
      BY <1>1, <2>1, <2>2
    <2> HIDE DEF A
    <2> QED BY <1>2, <2>2, <2>3
  <1>4. A \cap C = {}
    BY <1>1, <1>2
  <1>5. f \in [B -> C]
    <2>1. \A n \in B : x + n \in C
      BY <1>1, <1>2 DEF OfKey
    <2> HIDE DEF B, C
    <2> QED BY <2>1
  <1>6. ASSUME NEW t \in C PROVE \E n \in B : f[n] = t
    <2>1. t - x \in 1..Len(b) /\ x + (t - x) = t
      BY <1>1 DEF OfKey
    <2>2. s[t] = b[t - x]
      BY <1>1, <2>1
    <2>3. t - x \in B
      BY <1>1, <2>1, <2>2 DEF OfKey
    <2> HIDE DEF B, C
    <2> QED BY <2>1, <2>3
  <1>7. \A m, n \in B : f[m] = f[n] => m = n
    <2>1. \A n \in B : n \in Int
      BY <1>2
    <2> HIDE DEF B
    <2> QED BY <1>1, <2>1
  <1> HIDE DEF f, A, B, C
  <1>8. IsFiniteSet(C) /\ Cardinality(C) = Cardinality(B)
    BY <1>2, <1>5, <1>6, <1>7, SameSize
  <1>9. Cardinality(A \cup C) = Cardinality(A) + Cardinality(C) - Cardinality({})
    BY <1>2, <1>4, <1>8, FS_Union
  <1>10. Have(s, key) = Cardinality(OfKey(s, key))
    BY <1>1, HaveIsANumber
  <1>11. Cardinality({}) = 0
    BY FS_EmptySet
  <1> QED BY <1>2, <1>3, <1>8, <1>9, <1>10, <1>11 DEF s

LEMMA HaveOfPicked ==
  ASSUME NEW P \in SUBSET Int, IsFiniteSet(P), NEW list, NEW key
  PROVE  Have(Picked(list, P), key) = Cardinality({n \in P : list[n].key = key})
  <1> DEFINE N == Cardinality(P)
             p == Picked(list, P)
             A == OfKey(p, key)
             Q == {n \in P : list[n].key = key}
             f == [k \in A |-> Ascending(P)[k]]
  <1>1. /\ N \in Nat /\ DOMAIN p = 1..N
        /\ \A k \in 1..N : Ascending(P)[k] \in P /\ p[k] = list[Ascending(P)[k]]
        /\ \A n \in P : \E k \in 1..N : Ascending(P)[k] = n /\ p[k] = list[n]
        /\ \A i, j \in 1..N : i < j => Ascending(P)[i] < Ascending(P)[j]
    BY PickedIs
  <1> HIDE DEF p, N
  <1>2. A \in SUBSET (1..N)
    BY <1>1 DEF OfKey
  <1>3. IsFiniteSet(A)
    <2>1. IsFiniteSet(1..N)
      BY <1>1, FS_Interval
    <2> QED BY <1>2, <2>1, FS_Subset
  <1>4. f \in [A -> Q]
    <2>1. \A k \in A : Ascending(P)[k] \in Q
      BY <1>1, <1>2 DEF OfKey
    <2> HIDE DEF A, Q
    <2> QED BY <2>1
  <1>5. ASSUME NEW n \in Q PROVE \E k \in A : f[k] = n
    <2>1. PICK k \in 1..N : Ascending(P)[k] = n /\ p[k] = list[n]
      BY <1>1
    <2>2. k \in A
      BY <1>1, <2>1 DEF OfKey
    <2> HIDE DEF A, Q
    <2> QED BY <2>1, <2>2
  <1>6. ASSUME NEW i \in A, NEW j \in A, f[i] = f[j] PROVE i = j
    <2>1. i \in 1..N /\ j \in 1..N /\ Ascending(P)[i] = Ascending(P)[j] /\ Ascending(P)[i] \in Int
      BY <1>1, <1>2, <1>6
    <2>2. ~(Ascending(P)[i] < Ascending(P)[j]) /\ ~(Ascending(P)[j] < Ascending(P)[i])
      BY <2>1
    <2>3. ~(i < j) /\ ~(j < i)
      BY <1>1, <2>1, <2>2
    <2> QED BY <1>1, <2>1, <2>3
  <1>7. Have(p, key) = Cardinality(A)
    BY DEF Have, OfKey
  <1> HIDE DEF f, A, Q
  <1>8. Cardinality(Q) = Cardinality(A)
    BY <1>3, <1>4, <1>5, <1>6, SameSize
  <1> QED BY <1>7, <1>8 DEF p, Q

\* No more than so many numbers have fewer than so many before them.
LEMMA FewHaveFewBefore ==
  ASSUME NEW k \in Nat, NEW G \in SUBSET (1..k), NEW Q \in SUBSET G, NEW limit \in Nat,
         \A n \in Q : Cardinality({m \in G : m < n}) < limit
  PROVE  Cardinality(Q) <= limit
  <1>1. CASE Q = {}
    BY <1>1, FS_EmptySet
  <1>2. CASE Q # {}
    <2>1. Q \in SUBSET (1..k)
      OBVIOUS
    <2>2. PICK n \in Q : \A m \in Q : m <= n
      BY <1>2, <2>1, GreatestNumber
    <2> DEFINE Before == {m \in G : m < n}
    <2>3. IsFiniteSet(1..k)
      BY FS_Interval
    <2>4. IsFiniteSet(Q)
      BY <2>1, <2>3, FS_Subset
    <2>5. Before \in SUBSET (1..k) /\ Q \ {n} \in SUBSET Before
      <3>1. \A m \in Q : m \in 1..k /\ m \in G
        OBVIOUS
      <3>2. \A m \in Q : m # n => m < n
        BY <2>2, <3>1
      <3> QED BY <3>1, <3>2
    <2>6. Cardinality(Before) < limit
      OBVIOUS
    <2> HIDE DEF Before
    <2>7. IsFiniteSet(Before)
      BY <2>3, <2>5, FS_Subset
    <2>8. Cardinality(Q \ {n}) <= Cardinality(Before) /\ Cardinality(Before) \in Nat
      BY <2>5, <2>7, FS_Subset, FS_CardinalityType
    <2>9. Cardinality(Q \ {n}) = Cardinality(Q) - 1 /\ Cardinality(Q) \in Nat
      BY <2>4, FS_RemoveElement, FS_CardinalityType
    <2> QED BY <2>6, <2>8, <2>9
  <1> QED BY <1>1, <1>2
----------------------------------------------------------------------------
(* A question about cases and its answer *)

KeySet == Word \X Word \X Word \X Word
CaseSet == [key : KeySet, text : Texts]
ReplySet == [cell : Int, usable : BOOLEAN, text : Texts]

LEMMA KeysAreKeys ==
  ASSUME NEW cell \in CellSet
  PROVE  Key(cell) \in KeySet /\ cell.count \in Nat
  BY DEF Key, KeySet, CellSet

\* A cell with the key decides.
LEMMA LimitIs ==
  ASSUME NEW asking \in Seq(CellSet), NEW key, NEW m \in DOMAIN asking, Key(asking[m]) = key
  PROVE  \E n \in DOMAIN asking : Key(asking[n]) = key /\ Limit(asking, key) = asking[n].count
  <1> DEFINE P == {n \in DOMAIN asking : Key(asking[n]) = key}
             len == Len(asking)
  <1>1. P \in SUBSET (1..len) /\ P # {} /\ len \in Nat
    OBVIOUS
  <1>2. Limit(asking, key) = asking[Max(P)].count
    BY DEF Limit
  <1>3. \A n \in P : n \in DOMAIN asking /\ Key(asking[n]) = key
    OBVIOUS
  <1> HIDE DEF P, len
  <1>4. PICK n \in P : \A k \in P : k <= n
    BY <1>1, GreatestNumber
  <1>5. \A k \in P : n >= k
    BY <1>1, <1>4
  <1>6. Max(P) \in P
    BY <1>5 DEF Max
  <1> QED BY <1>2, <1>3, <1>6

\* No more cases of a key are kept than one of its cells asks for, and none of another key.
LEMMA KeptIs ==
  ASSUME NEW asking \in Seq(CellSet), NEW reply \in Seq(ReplySet)
  PROVE  /\ Kept(asking, reply) \in Seq(CaseSet)
         /\ \A key : \/ Have(Kept(asking, reply), key) = 0
                     \/ \E m \in DOMAIN asking : Key(asking[m]) = key /\ Have(Kept(asking, reply), key) <= asking[m].count
  <1> DEFINE good == {n \in DOMAIN reply : reply[n].cell \in DOMAIN asking /\ reply[n].usable}
             KeyAt(n) == Key(asking[reply[n].cell])
             Earlier(n) == {m \in good : m < n /\ KeyAt(m) = KeyAt(n)}
             kept == {n \in good : Cardinality(Earlier(n)) < Limit(asking, KeyAt(n))}
             entry == [n \in good |-> [key |-> KeyAt(n), text |-> reply[n].text]]
             len == Len(reply)
  <1>1. Kept(asking, reply) = Picked(entry, kept)
    BY DEF Kept
  <1>2. len \in Nat /\ good \in SUBSET (1..len) /\ kept \in SUBSET good
    OBVIOUS
  <1>3. ASSUME NEW n \in good
        PROVE  /\ reply[n].cell \in DOMAIN asking /\ asking[reply[n].cell] \in CellSet
               /\ entry[n].key = KeyAt(n) /\ entry[n] \in CaseSet
    <2>1. reply[n] \in ReplySet /\ reply[n].cell \in DOMAIN asking
      OBVIOUS
    <2>2. asking[reply[n].cell] \in CellSet
      BY <2>1
    <2>3. KeyAt(n) \in KeySet
      BY <2>2, KeysAreKeys
    <2>4. reply[n].text \in Texts
      BY <2>1 DEF ReplySet
    <2>5. entry[n] = [key |-> KeyAt(n), text |-> reply[n].text]
      OBVIOUS
    <2> HIDE DEF entry, good
    <2> QED BY <2>1, <2>2, <2>3, <2>4, <2>5 DEF CaseSet
  <1>4. ASSUME NEW n \in kept PROVE n \in good /\ Cardinality(Earlier(n)) < Limit(asking, KeyAt(n))
    OBVIOUS
  <1> HIDE DEF len, kept, entry
  <1>5. kept \in SUBSET Int /\ IsFiniteSet(kept)
    <2>1. IsFiniteSet(1..len) /\ kept \in SUBSET (1..len)
      BY <1>2, FS_Interval
    <2>2. IsFiniteSet(kept)
      BY <2>1, FS_Subset
    <2> QED BY <2>1, <2>2
  <1>6. Picked(entry, kept) \in Seq(CaseSet)
    <2>1. \A n \in kept : entry[n] \in CaseSet
      BY <1>3, <1>4
    <2> HIDE DEF good
    <2> QED BY <1>5, <2>1, PickedIs
  <1>7. ASSUME NEW key, Have(Picked(entry, kept), key) # 0
        PROVE  \E m \in DOMAIN asking : Key(asking[m]) = key /\ Have(Picked(entry, kept), key) <= asking[m].count
    <2> DEFINE Q == {n \in kept : entry[n].key = key}
               G == {n \in good : KeyAt(n) = key}
    <2>1. Have(Picked(entry, kept), key) = Cardinality(Q)
      BY <1>5, HaveOfPicked
    <2>2. Q # {}
      BY <1>7, <2>1, FS_EmptySet
    <2>3. PICK p \in Q : TRUE
      BY <2>2
    <2>4. p \in good /\ KeyAt(p) = key /\ reply[p].cell \in DOMAIN asking
      BY <1>3, <1>4
    <2>5. PICK m \in DOMAIN asking : Key(asking[m]) = key /\ Limit(asking, key) = asking[m].count
      BY <2>4, LimitIs
    <2>6. asking[m].count \in Nat
      <3>1. asking[m] \in CellSet
        OBVIOUS
      <3> QED BY <3>1, KeysAreKeys
    <2>7. G \in SUBSET (1..len) /\ Q \in SUBSET G
      <3>1. G \in SUBSET good
        OBVIOUS
      <3>2. \A n \in Q : n \in G
        BY <1>3, <1>4
      <3> HIDE DEF G, Q
      <3> QED BY <1>2, <3>1, <3>2
    <2>8. ASSUME NEW n \in Q PROVE Cardinality({k \in G : k < n}) < asking[m].count
      <3>1. n \in kept /\ n \in good /\ KeyAt(n) = key
        BY <1>3, <1>4
      <3>2. Earlier(n) = {k \in G : k < n}
        BY <3>1
      <3>3. Cardinality(Earlier(n)) < Limit(asking, KeyAt(n))
        BY <1>4, <3>1
      <3> HIDE DEF Earlier, KeyAt, G, Q
      <3> QED BY <2>5, <3>1, <3>2, <3>3
    <2> DEFINE limit == asking[m].count
    <2> HIDE DEF G, Q, limit
    <2>9. Cardinality(Q) <= limit
      <3>1. limit \in Nat
        BY <2>6 DEF limit
      <3>2. \A n \in Q : Cardinality({k \in G : k < n}) < limit
        BY <2>8 DEF limit
      <3> QED BY <1>2, <2>7, <3>1, <3>2, FewHaveFewBefore
    <2> QED BY <2>1, <2>5, <2>9 DEF limit
  <1> QED BY <1>1, <1>6, <1>7

LEMMA MissingIs ==
  ASSUME NEW asking \in Seq(CellSet), NEW given \in Seq(CaseSet)
  PROVE  LET miss == Missing(asking, given)
         IN  /\ miss \in Seq(CellSet)
             /\ \A n \in DOMAIN miss : \E m \in DOMAIN asking :
                  Key(miss[n]) = Key(asking[m]) /\ miss[n].count = asking[m].count - Have(given, Key(asking[m]))
             /\ \A m \in DOMAIN asking : Have(given, Key(asking[m])) < asking[m].count =>
                  \E n \in DOMAIN miss :
                    Key(miss[n]) = Key(asking[m]) /\ miss[n].count = asking[m].count - Have(given, Key(asking[m]))
  <1> DEFINE P == {n \in DOMAIN asking : Have(given, Key(asking[n])) < asking[n].count}
             short == Picked(asking, P)
             miss == Missing(asking, given)
             N == Cardinality(P)
             left(c) == c.count - Have(given, Key(c))
  <1>1. miss = [n \in DOMAIN short |-> [short[n] EXCEPT !.count = @ - Have(given, Key(short[n]))]]
    BY DEF Missing
  <1>2. P \in SUBSET DOMAIN asking /\ \A n \in P : Have(given, Key(asking[n])) < asking[n].count
    OBVIOUS
  <1>2a. \A m \in DOMAIN asking : Have(given, Key(asking[m])) < asking[m].count => m \in P
    OBVIOUS
  <1> HIDE DEF P, miss
  <1>3. /\ short \in Seq(CellSet) /\ DOMAIN short = 1..N /\ N \in Nat
        /\ \A k \in 1..N : \E n \in P : short[k] = asking[n]
        /\ \A n \in P : \E k \in 1..N : short[k] = asking[n]
    BY <1>2, PickedPart
  <1> HIDE DEF short, N
  <1>4. ASSUME NEW n \in 1..N
        PROVE  miss[n] \in CellSet /\ Key(miss[n]) = Key(short[n]) /\ miss[n].count = left(short[n])
    <2>1. PICK m \in P : short[n] = asking[m]
      BY <1>3
    <2>2. short[n] \in CellSet
      BY <1>3
    <2>3. short[n].count \in Nat /\ Have(given, Key(short[n])) \in Nat
      BY <2>2, KeysAreKeys, HaveIsANumber
    <2> DEFINE d == left(short[n])
    <2>4. d \in Nat
      BY <1>2, <2>1, <2>3
    <2>5. miss[n] = [short[n] EXCEPT !.count = d]
      BY <1>1, <1>3
    <2> HIDE DEF d
    <2>6. miss[n] \in CellSet /\ miss[n].count = d
      BY <2>2, <2>4, <2>5 DEF CellSet
    <2>7. Key(miss[n]) = Key(short[n])
      BY <2>2, <2>5 DEF Key, CellSet
    <2> QED BY <2>6, <2>7 DEF d
  <1>5. DOMAIN miss = 1..N
    BY <1>1, <1>3
  <1>6. miss \in Seq(CellSet)
    <2>1. miss = [n \in 1..N |-> miss[n]]
      BY <1>1, <1>3
    <2>2. miss \in [1..N -> CellSet]
      BY <1>4, <2>1
    <2> QED BY <1>3, <2>2
  <1>7. ASSUME NEW n \in DOMAIN miss
        PROVE  \E m \in DOMAIN asking : Key(miss[n]) = Key(asking[m]) /\ miss[n].count = left(asking[m])
    <2>1. PICK m \in P : short[n] = asking[m]
      BY <1>3, <1>5
    <2>2. Key(miss[n]) = Key(asking[m]) /\ miss[n].count = left(asking[m])
      BY <1>4, <1>5, <2>1
    <2> HIDE DEF left
    <2> QED BY <1>2, <2>2
  <1>8. ASSUME NEW m \in DOMAIN asking, Have(given, Key(asking[m])) < asking[m].count
        PROVE  \E n \in DOMAIN miss : Key(miss[n]) = Key(asking[m]) /\ miss[n].count = left(asking[m])
    <2>1. PICK n \in 1..N : short[n] = asking[m]
      BY <1>2a, <1>3, <1>8
    <2>2. Key(miss[n]) = Key(asking[m]) /\ miss[n].count = left(asking[m])
      BY <1>4, <2>1
    <2> HIDE DEF left
    <2> QED BY <1>5, <2>2
  <1> QED BY <1>6, <1>7, <1>8 DEF miss

LEMMA BatchIs ==
  ASSUME NEW plan \in Seq(CellSet), NEW from \in 0..Len(plan)
  PROVE  LET batch == Batch(plan, from)
         IN  /\ batch \in Seq(CellSet) /\ Len(batch) \in Nat /\ from + Len(batch) \in from..Len(plan)
             /\ \A i \in 1..Len(batch) : batch[i] = plan[from + i] /\ from + i \in from + 1..from + Len(batch)
             /\ \A m \in from + 1..from + Len(batch) : m - from \in 1..Len(batch) /\ batch[m - from] = plan[m]
  <1> DEFINE last == Smaller(from + BatchSize, Len(plan))
             batch == Batch(plan, from)
  <1>1. BatchSize \in Nat /\ Len(plan) \in Nat
    BY AuthoringAssumption
  <1>2. last \in from..Len(plan)
    BY <1>1 DEF Smaller
  <1>3. batch = SubSeq(plan, from + 1, last)
    BY DEF Batch
  <1> HIDE DEF last, batch
  <1>4. /\ batch \in Seq(CellSet) /\ Len(batch) = last - from
        /\ \A i \in 1..last - from : batch[i] = plan[from + i]
    BY <1>1, <1>2, <1>3
  <1>5. \A i \in 1..Len(batch) : from + i \in from + 1..from + Len(batch)
    BY <1>1, <1>2, <1>4
  <1>6. ASSUME NEW m \in from + 1..from + Len(batch) PROVE m - from \in 1..Len(batch) /\ batch[m - from] = plan[m]
    <2>1. m - from \in 1..Len(batch) /\ from + (m - from) = m
      BY <1>1, <1>2, <1>4
    <2> QED BY <1>4, <2>1
  <1>7. Len(batch) \in Nat /\ from + Len(batch) \in from..Len(plan)
    BY <1>1, <1>2, <1>4
  <1> QED BY <1>4, <1>5, <1>6, <1>7 DEF batch

JudgedSet == [key : KeySet, text : Texts, review : {"pending", "approved", "rejected"}]

LEMMA AddedIs ==
  ASSUME NEW list \in Seq(CaseSet)
  PROVE  /\ Added(list) \in Seq(JudgedSet)
         /\ ~(Len(Added(list)) < Len(list)) => \A key : Have(Added(list), key) = Have(list, key)
  <1> DEFINE P == {n \in DOMAIN list : \A m \in 1..n - 1 : list[m] # list[n]}
             new == Picked(list, P)
             ds == Added(list)
             N == Cardinality(P)
             len == Len(list)
  <1>1. ds = [n \in DOMAIN new |-> [key |-> new[n].key, text |-> new[n].text, review |-> "pending"]]
    BY DEF Added
  <1>2. P \in SUBSET DOMAIN list /\ P \in SUBSET (1..len) /\ len \in Nat
    OBVIOUS
  <1> HIDE DEF P, ds
  <1>3. new \in Seq(CaseSet) /\ DOMAIN new = 1..N /\ N \in Nat
    BY <1>2, PickedPart
  <1>4. P \in SUBSET Int /\ IsFiniteSet(P)
    BY <1>2, FinitePlaces
  <1>5. \A key : Have(new, key) = Cardinality({n \in P : list[n].key = key})
    BY <1>4, HaveOfPicked
  <1> HIDE DEF new, N
  <1>6. ASSUME NEW n \in 1..N PROVE ds[n] \in JudgedSet /\ ds[n].key = new[n].key
    <2>1. new[n] \in CaseSet /\ ds[n] = [key |-> new[n].key, text |-> new[n].text, review |-> "pending"]
      BY <1>1, <1>3
    <2>2. new[n].key \in KeySet /\ new[n].text \in Texts
      BY <2>1 DEF CaseSet
    <2> QED BY <2>1, <2>2 DEF JudgedSet
  <1>7. DOMAIN ds = 1..N /\ ds = [n \in 1..N |-> ds[n]]
    BY <1>1, <1>3
  <1>8. ds \in Seq(JudgedSet) /\ Len(ds) = N
    <2>1. ds \in [1..N -> JudgedSet]
      BY <1>6, <1>7
    <2> QED BY <1>3, <2>1
  <1>9. ASSUME ~(N < len), NEW key PROVE Have(ds, key) = Have(list, key)
    <2>1. IsFiniteSet(1..len) /\ Cardinality(1..len) = len
      <3> HIDE DEF len
      <3>1. 1 \in Int /\ len \in Int
        BY <1>2
      <3> QED BY <1>2, <3>1, FS_Interval
    <2>2. N <= len
      BY <1>2, <2>1, FS_Subset DEF N
    <2>3. N = len
      BY <1>2, <1>3, <1>9, <2>2
    <2>4. P = 1..len
      BY <1>2, <2>1, <2>3, FS_Subset DEF N
    <2>5. {n \in P : list[n].key = key} = OfKey(list, key)
      BY <2>4 DEF OfKey, len
    <2>6. Have(new, key) = Have(list, key)
      BY <1>5, <2>5, HaveIsANumber
    <2>7. OfKey(ds, key) = OfKey(new, key)
      BY <1>3, <1>6, <1>7 DEF OfKey
    <2>8. Have(ds, key) = Have(new, key)
      BY <1>3, <1>8, <2>7, HaveIsANumber
    <2> QED BY <2>6, <2>8
  <1> QED BY <1>8, <1>9 DEF ds, len
----------------------------------------------------------------------------
(* Authoring: the size of the dataset is the plan's *)

KeysOf(plan) == {Key(c) : c \in ToSet(plan)}
CountsFor(plan, key) == [n \in DOMAIN plan |-> IF Key(plan[n]) = key THEN plan[n].count ELSE 0]

\* How many cases of a key the first k cells of the plan ask for.
Budget(plan, key, k) == SumTo(CountsFor(plan, key), k)

LEMMA BudgetIs ==
  ASSUME NEW plan \in Seq(CellSet), NEW key
  PROVE  /\ Len(plan) \in Nat /\ DOMAIN plan = 1..Len(plan)
         /\ Budget(plan, key, 0) = 0
         /\ Budget(plan, key, Len(plan)) = SumOf(CountsFor(plan, key))
         /\ \A k \in 0..Len(plan) : Budget(plan, key, k) \in Nat
         /\ \A a, b \in 0..Len(plan) : a <= b =>
              /\ Budget(plan, key, a) <= Budget(plan, key, b)
              /\ \A m \in a + 1..b : Key(plan[m]) = key => Budget(plan, key, a) + plan[m].count <= Budget(plan, key, b)
  <1> DEFINE numbers == CountsFor(plan, key)
             k == Len(plan)
  <1>1. k \in Nat /\ DOMAIN plan = 1..k
    OBVIOUS
  <1>2. \A n \in 1..k : plan[n] \in CellSet /\ plan[n].count \in Nat
    <2>1. \A n \in 1..k : plan[n] \in CellSet
      OBVIOUS
    <2> HIDE DEF k
    <2> QED BY <2>1, KeysAreKeys
  <1>3. numbers = [n \in 1..k |-> IF Key(plan[n]) = key THEN plan[n].count ELSE 0]
    BY <1>1 DEF CountsFor
  <1> HIDE DEF numbers, k
  <1>4. numbers \in Seq(Nat) /\ Len(numbers) = k
    BY <1>1, <1>2, <1>3
  <1>5. /\ SumTo(numbers, 0) = 0
        /\ SumTo(numbers, k) = SumOf(numbers)
        /\ \A m \in 0..k : SumTo(numbers, m) \in Nat
    BY <1>4, SumsGrow
  <1>6. ASSUME NEW a \in 0..k, NEW b \in 0..k, a <= b
        PROVE  /\ SumTo(numbers, a) <= SumTo(numbers, b)
               /\ \A m \in a + 1..b : Key(plan[m]) = key => SumTo(numbers, a) + plan[m].count <= SumTo(numbers, b)
    <2>1. /\ SumTo(numbers, a) <= SumTo(numbers, b)
          /\ \A m \in a + 1..b : SumTo(numbers, a) + numbers[m] <= SumTo(numbers, b)
      BY <1>4, <1>6, SumsAreMonotone
    <2>2. ASSUME NEW m \in a + 1..b, Key(plan[m]) = key PROVE SumTo(numbers, a) + plan[m].count <= SumTo(numbers, b)
      <3>1. m \in 1..k
        BY <1>1
      <3>2. numbers[m] = plan[m].count
        BY <1>3, <2>2, <3>1
      <3> QED BY <2>1, <3>2
    <2> QED BY <2>1, <2>2
  <1>7. \A m : Budget(plan, key, m) = SumTo(numbers, m)
    BY DEF Budget, numbers
  <1> QED BY <1>1, <1>5, <1>6, <1>7 DEF k, numbers

\* No key has more cases than the first k cells ask for.
Fits(plan, list, k) == \A key \in KeysOf(plan) : Have(list, key) <= Budget(plan, key, k)

\* Of the first k cells each has what it asks for, or is reported.
Enough(plan, list, found, k) ==
  \A n \in 1..k : Have(list, Key(plan[n])) >= plan[n].count \/ <<"short", Key(plan[n])>> \in found

\* A question that, fully answered, exceeds no cell after the first `from`.
HasRoom(plan, list, asking, from, to) ==
  \A n \in DOMAIN asking : \E m \in from + 1..to :
    /\ Key(asking[n]) = Key(plan[m])
    /\ Have(list, Key(plan[m])) + asking[n].count <= Budget(plan, Key(plan[m]), from) + plan[m].count

\* A question that, fully answered, fills the cells after the first `from`.
AsksTheRest(plan, list, asking, from, to) ==
  \A m \in from + 1..to :
    \/ Have(list, Key(plan[m])) >= plan[m].count
    \/ \E n \in DOMAIN asking :
         Key(asking[n]) = Key(plan[m]) /\ Have(list, Key(plan[m])) + asking[n].count >= plan[m].count

LEMMA MoreIsEnough ==
  ASSUME NEW list \in Seq(CaseSet), NEW more \in Seq(CaseSet)
  PROVE  /\ list \o more \in Seq(CaseSet)
         /\ \A key : /\ Have(list \o more, key) = Have(list, key) + Have(more, key)
                     /\ Have(list, key) \in Nat /\ Have(more, key) \in Nat
  <1>1. list \o more \in Seq(CaseSet)
    OBVIOUS
  <1>2. ASSUME NEW key PROVE Have(list \o more, key) = Have(list, key) + Have(more, key)
    BY HaveJoined
  <1>3. ASSUME NEW key PROVE Have(list, key) \in Nat /\ Have(more, key) \in Nat
    BY HaveIsANumber
  <1> QED BY <1>1, <1>2, <1>3

LEMMA FirstAnswer ==
  ASSUME NEW plan \in Seq(CellSet), NEW from \in 0..Len(plan), NEW list \in Seq(CaseSet), NEW found,
         Fits(plan, list, from), Enough(plan, list, found, from), NEW reply \in Seq(ReplySet),
         NEW asking, asking = Batch(plan, from), NEW kept, kept = Kept(asking, reply),
         NEW miss, miss = Missing(asking, kept), NEW to, to = from + Len(asking)
  PROVE  /\ list \o kept \in Seq(CaseSet) /\ miss \in Seq(CellSet) /\ to \in from..Len(plan)
         /\ Fits(plan, list \o kept, to)
         /\ Enough(plan, list \o kept, found, from)
         /\ HasRoom(plan, list \o kept, miss, from, to)
         /\ AsksTheRest(plan, list \o kept, miss, from, to)
         /\ miss = <<>> => Enough(plan, list \o kept, found, to)
  <1>1. /\ asking \in Seq(CellSet) /\ Len(asking) \in Nat /\ to \in from..Len(plan)
        /\ \A i \in 1..Len(asking) : asking[i] = plan[from + i] /\ from + i \in from + 1..to
        /\ \A m \in from + 1..to : m - from \in 1..Len(asking) /\ asking[m - from] = plan[m]
    BY BatchIs
  <1>2. /\ kept \in Seq(CaseSet)
        /\ \A key : \/ Have(kept, key) = 0
                    \/ \E m \in DOMAIN asking : Key(asking[m]) = key /\ Have(kept, key) <= asking[m].count
    BY <1>1, KeptIs
  <1>3. /\ miss \in Seq(CellSet)
        /\ \A n \in DOMAIN miss : \E m \in DOMAIN asking :
             Key(miss[n]) = Key(asking[m]) /\ miss[n].count = asking[m].count - Have(kept, Key(asking[m]))
        /\ \A m \in DOMAIN asking : Have(kept, Key(asking[m])) < asking[m].count =>
             \E n \in DOMAIN miss :
               Key(miss[n]) = Key(asking[m]) /\ miss[n].count = asking[m].count - Have(kept, Key(asking[m]))
    <2> DEFINE missing == Missing(asking, kept)
    <2>1. asking \in Seq(CellSet) /\ kept \in Seq(CaseSet)
      BY <1>1, <1>2
    <2>2. /\ missing \in Seq(CellSet)
          /\ \A n \in DOMAIN missing : \E m \in DOMAIN asking :
               Key(missing[n]) = Key(asking[m]) /\ missing[n].count = asking[m].count - Have(kept, Key(asking[m]))
          /\ \A m \in DOMAIN asking : Have(kept, Key(asking[m])) < asking[m].count =>
               \E n \in DOMAIN missing :
                 Key(missing[n]) = Key(asking[m]) /\ missing[n].count = asking[m].count - Have(kept, Key(asking[m]))
      BY <2>1, MissingIs, Zenon
    <2> QED BY <2>2
  <1>4. DOMAIN asking = 1..Len(asking) /\ Len(plan) \in Nat
    BY <1>1
  <1> DEFINE k == Len(plan)
             all == list \o kept
  <1>5. /\ all \in Seq(CaseSet)
        /\ \A key : /\ Have(all, key) = Have(list, key) + Have(kept, key)
                    /\ Have(list, key) \in Nat /\ Have(kept, key) \in Nat
    BY <1>2, MoreIsEnough
  <1>6. /\ from \in 0..k /\ to \in 0..k /\ from <= to /\ from \in Int /\ to \in Int
        /\ \A m \in from + 1..to : m \in 1..k /\ plan[m] \in CellSet /\ plan[m].count \in Nat /\ Key(plan[m]) \in KeysOf(plan)
    <2>1. from \in 0..k /\ to \in 0..k /\ from <= to /\ from \in Int /\ to \in Int
      BY <1>1, <1>4
    <2>2. \A m \in from + 1..to : m \in 1..k
      BY <1>4, <2>1
    <2>3. \A m \in 1..k : plan[m] \in CellSet /\ m \in DOMAIN plan
      OBVIOUS
    <2>4. \A m \in 1..k : plan[m].count \in Nat
      <3> HIDE DEF k
      <3> QED BY <2>3, KeysAreKeys
    <2>5. \A m \in 1..k : Key(plan[m]) \in KeysOf(plan)
      BY <2>3 DEF KeysOf, ToSet
    <2> QED BY <2>1, <2>2, <2>3, <2>4, <2>5
  <1>7. ASSUME NEW key
        PROVE  /\ Budget(plan, key, from) \in Nat /\ Budget(plan, key, to) \in Nat
               /\ Budget(plan, key, from) <= Budget(plan, key, to)
               /\ \A m \in from + 1..to : Key(plan[m]) = key =>
                    Budget(plan, key, from) + plan[m].count <= Budget(plan, key, to)
    BY <1>6, BudgetIs
  <1> HIDE DEF all, k
  <1>8. Fits(plan, all, to)
    <2> SUFFICES ASSUME NEW key \in KeysOf(plan) PROVE Have(all, key) <= Budget(plan, key, to)
      BY DEF Fits
    <2>1. Have(list, key) <= Budget(plan, key, from)
      BY DEF Fits
    <2>2. CASE Have(kept, key) = 0
      BY <1>5, <1>7, <2>1, <2>2
    <2>3. CASE Have(kept, key) # 0
      <3>1. PICK i \in DOMAIN asking : Key(asking[i]) = key /\ Have(kept, key) <= asking[i].count
        BY <1>2, <2>3
      <3> DEFINE m == from + i
      <3>2. asking[i] = plan[m] /\ m \in from + 1..to
        BY <1>1, <1>4
      <3> HIDE DEF m
      <3>3. Budget(plan, key, from) + plan[m].count <= Budget(plan, key, to) /\ plan[m].count \in Nat
        BY <1>6, <1>7, <3>1, <3>2
      <3>4. Have(kept, key) <= plan[m].count
        BY <3>1, <3>2
      <3> QED BY <1>5, <1>7, <2>1, <3>3, <3>4
    <2> QED BY <2>2, <2>3
  <1>9. Enough(plan, all, found, from)
    <2> SUFFICES ASSUME NEW n \in 1..from, <<"short", Key(plan[n])>> \notin found
                 PROVE  Have(all, Key(plan[n])) >= plan[n].count
      BY DEF Enough
    <2>1. Have(list, Key(plan[n])) >= plan[n].count
      BY DEF Enough
    <2>2. plan[n].count \in Nat
      <3>1. n \in 1..Len(plan)
        BY <1>4, <1>6
      <3>2. plan[n] \in CellSet
        BY <3>1
      <3> QED BY <3>2, KeysAreKeys
    <2> QED BY <1>5, <2>1, <2>2
  <1>10. HasRoom(plan, all, miss, from, to)
    <2> SUFFICES ASSUME NEW n \in DOMAIN miss
                 PROVE  \E m \in from + 1..to :
                          /\ Key(miss[n]) = Key(plan[m])
                          /\ Have(all, Key(plan[m])) + miss[n].count <= Budget(plan, Key(plan[m]), from) + plan[m].count
      BY DEF HasRoom
    <2>1. PICK i \in DOMAIN asking : Key(miss[n]) = Key(asking[i]) /\ miss[n].count = asking[i].count - Have(kept, Key(asking[i]))
      BY <1>3
    <2> DEFINE m == from + i
    <2>2. asking[i] = plan[m] /\ m \in from + 1..to
      BY <1>1, <1>4
    <2> HIDE DEF m
    <2> DEFINE key == Key(plan[m])
    <2>3. Have(list, key) <= Budget(plan, key, from) /\ plan[m].count \in Nat
      BY <1>6, <2>2 DEF Fits
    <2>4. miss[n].count = plan[m].count - Have(kept, key) /\ Key(miss[n]) = key
      BY <2>1, <2>2
    <2>5. Have(all, key) = Have(list, key) + Have(kept, key) /\ Have(list, key) \in Nat /\ Have(kept, key) \in Nat
      BY <1>5
    <2>6. Budget(plan, key, from) \in Nat
      BY <1>7
    <2> DEFINE a == Have(all, key)
               h == Have(list, key)
               g == Have(kept, key)
               b == Budget(plan, key, from)
               c == plan[m].count
               d == miss[n].count
    <2>7. a = h + g /\ d = c - g /\ h <= b /\ h \in Nat /\ g \in Nat /\ b \in Nat /\ c \in Nat
      BY <2>3, <2>4, <2>5, <2>6
    <2> HIDE DEF key, a, h, g, b, c, d
    <2>8. a + d <= b + c
      BY <2>7
    <2> QED BY <2>2, <2>4, <2>8 DEF key, a, b, c, d
  <1>11. AsksTheRest(plan, all, miss, from, to)
    <2> SUFFICES ASSUME NEW m \in from + 1..to, ~(Have(all, Key(plan[m])) >= plan[m].count)
                 PROVE  \E n \in DOMAIN miss :
                          Key(miss[n]) = Key(plan[m]) /\ Have(all, Key(plan[m])) + miss[n].count >= plan[m].count
      BY DEF AsksTheRest
    <2> DEFINE i == m - from
               key == Key(plan[m])
    <2>1. i \in DOMAIN asking /\ asking[i] = plan[m] /\ plan[m].count \in Nat
      BY <1>1, <1>4, <1>6
    <2> HIDE DEF i
    <2>2. Have(kept, Key(asking[i])) < asking[i].count
      BY <1>5, <2>1
    <2>3. PICK n \in DOMAIN miss : Key(miss[n]) = Key(asking[i]) /\ miss[n].count = asking[i].count - Have(kept, Key(asking[i]))
      BY <1>3, <2>1, <2>2
    <2>4. miss[n].count = plan[m].count - Have(kept, key) /\ Key(miss[n]) = key
      BY <2>1, <2>3
    <2>5. Have(all, key) + miss[n].count >= plan[m].count
      <3> HIDE DEF key
      <3> QED BY <1>5, <2>1, <2>4
    <2> QED BY <2>4, <2>5
  <1>12. ASSUME miss = <<>> PROVE Enough(plan, all, found, to)
    <2> SUFFICES ASSUME NEW n \in 1..to, <<"short", Key(plan[n])>> \notin found
                 PROVE  Have(all, Key(plan[n])) >= plan[n].count
      BY DEF Enough
    <2>1. CASE n <= from
      BY <1>6, <1>9, <2>1 DEF Enough
    <2>2. CASE ~(n <= from)
      <3>1. n \in from + 1..to
        BY <1>6, <2>2
      <3>2. DOMAIN miss = {}
        BY <1>12
      <3> QED BY <1>11, <3>1, <3>2 DEF AsksTheRest
    <2> QED BY <2>1, <2>2
  <1> QED BY <1>1, <1>3, <1>5, <1>8, <1>9, <1>10, <1>11, <1>12 DEF all

LEMMA SecondAnswer ==
  ASSUME NEW plan \in Seq(CellSet), NEW from \in 0..Len(plan), NEW to \in from..Len(plan), NEW list \in Seq(CaseSet), NEW found,
         NEW asking \in Seq(CellSet), Fits(plan, list, to), Enough(plan, list, found, from),
         HasRoom(plan, list, asking, from, to), AsksTheRest(plan, list, asking, from, to), NEW reply \in Seq(ReplySet),
         NEW kept, kept = Kept(asking, reply),
         NEW reported, reported = found \cup {<<"short", Key(c)>> : c \in ToSet(Missing(asking, kept))}
  PROVE  /\ list \o kept \in Seq(CaseSet)
         /\ Fits(plan, list \o kept, to)
         /\ Enough(plan, list \o kept, reported, to)
  <1>1. /\ kept \in Seq(CaseSet)
        /\ \A key : \/ Have(kept, key) = 0
                    \/ \E m \in DOMAIN asking : Key(asking[m]) = key /\ Have(kept, key) <= asking[m].count
    BY KeptIs
  <1> DEFINE k == Len(plan)
             all == list \o kept
             miss == Missing(asking, kept)
  <1>2. \A m \in DOMAIN asking : Have(kept, Key(asking[m])) < asking[m].count =>
          \E n \in DOMAIN miss : Key(miss[n]) = Key(asking[m])
    <2>1. \A m \in DOMAIN asking : Have(kept, Key(asking[m])) < asking[m].count =>
            \E n \in DOMAIN miss :
              Key(miss[n]) = Key(asking[m]) /\ miss[n].count = asking[m].count - Have(kept, Key(asking[m]))
      BY <1>1, MissingIs, Zenon
    <2> QED BY <2>1
  <1>3. /\ all \in Seq(CaseSet)
        /\ \A key : /\ Have(all, key) = Have(list, key) + Have(kept, key)
                    /\ Have(list, key) \in Nat /\ Have(kept, key) \in Nat
    BY <1>1, MoreIsEnough
  <1>4. /\ k \in Nat
        /\ from \in 0..k /\ to \in 0..k /\ from <= to /\ from \in Int /\ to \in Int
        /\ \A m \in 1..k : plan[m] \in CellSet /\ plan[m].count \in Nat
    <2>1. Len(plan) \in Nat
      OBVIOUS
    <2>2. \A m \in 1..k : plan[m] \in CellSet
      OBVIOUS
    <2> HIDE DEF k
    <2> QED BY <2>1, <2>2, KeysAreKeys DEF k
  <1>4a. \A n \in DOMAIN asking : asking[n].count \in Nat
    <2>1. \A n \in DOMAIN asking : asking[n] \in CellSet
      OBVIOUS
    <2> QED BY <2>1, KeysAreKeys
  <1>5. ASSUME NEW key
        PROVE  /\ Budget(plan, key, from) \in Nat /\ Budget(plan, key, to) \in Nat
               /\ \A m \in from + 1..to : Key(plan[m]) = key =>
                    Budget(plan, key, from) + plan[m].count <= Budget(plan, key, to)
    BY <1>4, BudgetIs
  <1> HIDE DEF all, k, miss
  <1>6. Fits(plan, all, to)
    <2> SUFFICES ASSUME NEW key \in KeysOf(plan) PROVE Have(all, key) <= Budget(plan, key, to)
      BY DEF Fits
    <2>1. Have(list, key) <= Budget(plan, key, to)
      BY DEF Fits
    <2>2. CASE Have(kept, key) = 0
      BY <1>3, <1>5, <2>1, <2>2
    <2>3. CASE Have(kept, key) # 0
      <3>1. PICK i \in DOMAIN asking : Key(asking[i]) = key /\ Have(kept, key) <= asking[i].count
        BY <1>1, <2>3
      <3>2. PICK m \in from + 1..to :
              /\ Key(asking[i]) = Key(plan[m])
              /\ Have(list, Key(plan[m])) + asking[i].count <= Budget(plan, Key(plan[m]), from) + plan[m].count
        BY DEF HasRoom
      <3>3. m \in 1..k
        BY <1>4
      <3>4. Have(list, key) + asking[i].count <= Budget(plan, key, from) + plan[m].count
        BY <3>1, <3>2
      <3>5. Budget(plan, key, from) + plan[m].count <= Budget(plan, key, to) /\ plan[m].count \in Nat /\ asking[i].count \in Nat
        BY <1>4, <1>4a, <1>5, <3>1, <3>2, <3>3
      <3>6. /\ Have(all, key) = Have(list, key) + Have(kept, key) /\ Have(list, key) \in Nat /\ Have(kept, key) \in Nat
            /\ Budget(plan, key, from) \in Nat /\ Budget(plan, key, to) \in Nat /\ Have(kept, key) <= asking[i].count
        BY <1>3, <1>5, <3>1
      <3> DEFINE a == Have(list, key)
                 b == asking[i].count
                 c == Budget(plan, key, from)
                 d == plan[m].count
                 e == Budget(plan, key, to)
                 f == Have(kept, key)
      <3>7. a \in Int /\ b \in Int /\ c \in Int /\ d \in Int /\ e \in Int /\ f \in Int
        BY <3>5, <3>6
      <3>8. a + b <= c + d /\ c + d <= e /\ f <= b /\ Have(all, key) = a + f
        BY <3>4, <3>5, <3>6
      <3> HIDE DEF a, b, c, d, f
      <3>9. a + f <= e
        <4> HIDE DEF e
        <4> QED BY <3>7, <3>8
      <3> QED BY <3>8, <3>9
    <2> QED BY <2>2, <2>3
  <1>7. Enough(plan, all, reported, to)
    <2> SUFFICES ASSUME NEW n \in 1..to, <<"short", Key(plan[n])>> \notin reported
                 PROVE  Have(all, Key(plan[n])) >= plan[n].count
      BY DEF Enough
    <2> DEFINE key == Key(plan[n])
    <2>1. n \in 1..k /\ plan[n].count \in Nat
      BY <1>4
    <2>2. CASE Have(list, key) >= plan[n].count
      BY <1>3, <2>1, <2>2
    <2>3. CASE ~(Have(list, key) >= plan[n].count)
      <3>1. ~(n <= from)
        BY <1>4, <2>3 DEF Enough
      <3>2. n \in from + 1..to
        BY <1>4, <3>1
      <3>3. PICK i \in DOMAIN asking : Key(asking[i]) = key /\ Have(list, key) + asking[i].count >= plan[n].count
        BY <2>3, <3>2 DEF AsksTheRest
      <3>4. ~(Have(kept, Key(asking[i])) < asking[i].count)
        <4> SUFFICES ASSUME Have(kept, Key(asking[i])) < asking[i].count PROVE FALSE
          OBVIOUS
        <4>1. PICK j \in DOMAIN miss : Key(miss[j]) = Key(asking[i])
          BY <1>2
        <4>2. <<"short", Key(miss[j])>> \in reported
          BY DEF ToSet, miss
        <4> QED BY <3>3, <4>1, <4>2
      <3>5. Have(kept, key) \in Nat /\ Have(list, key) \in Nat /\ Have(all, key) = Have(list, key) + Have(kept, key)
        BY <1>3
      <3>6. ~(Have(kept, key) < asking[i].count) /\ asking[i].count \in Nat
        BY <1>4a, <3>3, <3>4
      <3> DEFINE a == Have(all, key)
                 h == Have(list, key)
                 g == Have(kept, key)
                 c == plan[n].count
                 d == asking[i].count
      <3>7. a = h + g /\ h + d >= c /\ ~(g < d) /\ h \in Nat /\ g \in Nat /\ c \in Nat /\ d \in Nat
        BY <2>1, <3>3, <3>5, <3>6
      <3> HIDE DEF key, a, h, g, c, d
      <3>8. a >= c
        BY <3>7
      <3> QED BY <3>8 DEF a, c, key
    <2> QED BY <2>2, <2>3
  <1> QED BY <1>3, <1>6, <1>7 DEF all
----------------------------------------------------------------------------
(* Authoring: the invariant of the dataset *)

BatchEnd(from) == from + Len(Batch(cells, from))

SizeInv ==
  /\ cases \in Seq(CaseSet) /\ dataset \in Seq(JudgedSet)
  /\ phase \in {"cases", "cases_repair"} => asked \in 0..Len(cells) /\ Enough(cells, cases, problems, asked)
  /\ phase = "cases" => todo = Batch(cells, asked) /\ Fits(cells, cases, asked)
  /\ phase = "cases_repair" =>
       /\ todo \in Seq(CellSet)
       /\ Fits(cells, cases, BatchEnd(asked))
       /\ HasRoom(cells, cases, todo, asked, BatchEnd(asked))
       /\ AsksTheRest(cells, cases, todo, asked, BatchEnd(asked))
  /\ phase = "build" => Fits(cells, cases, Len(cells)) /\ Enough(cells, cases, problems, Len(cells))
  /\ phase \in {"review", "awaiting", "done"} =>
       <<"duplicates", None>> \in problems \/ Enough(cells, dataset, problems, Len(cells))

LEMMA SizeInvInit == Init => SizeInv
  <1> SUFFICES ASSUME Init PROVE SizeInv
    OBVIOUS
  <1>1. phase = "discover" /\ cases = <<>> /\ dataset = <<>>
    BY DEF Init
  <1>2. cases \in Seq(CaseSet) /\ dataset \in Seq(JudgedSet)
    BY <1>1
  <1> QED BY <1>1, <1>2 DEF SizeInv

LEMMA RepliesAre == \A reply \in Replies : reply \in Seq(ReplySet)
  <1> SUFFICES ASSUME NEW reply \in Replies PROVE reply \in Seq(ReplySet)
    OBVIOUS
  <1> DEFINE S == [cell : 0..BatchSize, usable : BOOLEAN, text : Texts]
  <1>1. reply \in BoundedSeq(S, MaxReply)
    BY DEF Replies
  <1>2. \A x \in S : x \in ReplySet
    BY AuthoringAssumption DEF ReplySet
  <1> HIDE DEF S
  <1>3. PICK m \in 0..MaxReply : reply \in [1..m -> S]
    BY <1>1 DEF BoundedSeq, SeqOf
  <1>4. m \in Nat
    BY AuthoringAssumption
  <1> QED BY <1>2, <1>3, <1>4

LEMMA WithThePlan ==
  ASSUME PlanInv, phase \in WithPlan
  PROVE  cells \in Seq(CellSet) /\ Len(cells) \in Nat
  <1>1. MapKnown /\ ThePlanOfIt
    BY DEF PlanInv
  <1>2. cells \in Seq(CellSet)
    BY <1>1, PlanFacts DEF ThePlanOfIt
  <1> QED BY <1>2

\* What is enough stays enough when problems are added.
LEMMA EnoughWithMore ==
  ASSUME NEW plan, NEW list, NEW found, NEW reported, \A p \in found : p \in reported, NEW k, Enough(plan, list, found, k)
  PROVE  Enough(plan, list, reported, k)
  BY DEF Enough

\* The end of a question: the next batch, or the build.
LEMMA NextBatchKeeps ==
  ASSUME NextBatch, asked \in 0..Len(cells), cells \in Seq(CellSet), UNCHANGED <<cells, dataset>>,
         cases' \in Seq(CaseSet), dataset \in Seq(JudgedSet),
         Fits(cells, cases', BatchEnd(asked)), Enough(cells, cases', problems', BatchEnd(asked))
  PROVE  SizeInv'
  <1> DEFINE next == BatchEnd(asked)
  <1>1. asked' = next /\ todo' = Batch(cells, next) /\ phase' = IF next < Len(cells) THEN "cases" ELSE "build"
    BY DEF NextBatch, BatchEnd
  <1>2. next \in asked..Len(cells) /\ Len(cells) \in Nat
    BY BatchIs DEF BatchEnd
  <1> HIDE DEF next
  <1>3. next \in 0..Len(cells)
    BY <1>2
  <1>4. Fits(cells', cases', next) /\ Enough(cells', cases', problems', next)
    BY DEF next
  <1>5. dataset' \in Seq(JudgedSet)
    OBVIOUS
  <1>6. CASE next < Len(cells)
    <2>1. phase' = "cases"
      BY <1>1, <1>6
    <2>2. asked' \in 0..Len(cells') /\ todo' = Batch(cells', asked')
      BY <1>1, <1>3
    <2>3. Fits(cells', cases', asked') /\ Enough(cells', cases', problems', asked')
      BY <1>1, <1>4
    <2> QED BY <1>5, <2>1, <2>2, <2>3 DEF SizeInv
  <1>7. CASE ~(next < Len(cells))
    <2>1. phase' = "build" /\ next = Len(cells)
      BY <1>1, <1>2, <1>7
    <2>2. Fits(cells', cases', Len(cells')) /\ Enough(cells', cases', problems', Len(cells'))
      BY <1>4, <2>1
    <2> QED BY <1>5, <2>1, <2>2 DEF SizeInv
  <1> QED BY <1>6, <1>7

\* The actions after which nothing is asked and no dataset is there to judge.
LEMMA SizeElsewhere ==
  ASSUME SizeInv, UNCHANGED <<cases, dataset>>,
         phase' \notin {"cases", "cases_repair", "build", "review", "awaiting", "done"}
  PROVE  SizeInv'
  BY DEF SizeInv

LEMMA AskCasesKeeps == SizeInv /\ PlanInv /\ AskCases => SizeInv'
  <1> SUFFICES ASSUME SizeInv, PlanInv, AskCases PROVE SizeInv'
    OBVIOUS
  <1>1. /\ phase = "cases" /\ UNCHANGED <<cells, dataset, problems>>
        /\ asked \in 0..Len(cells) /\ Enough(cells, cases, problems, asked)
        /\ todo = Batch(cells, asked) /\ Fits(cells, cases, asked)
        /\ cases \in Seq(CaseSet) /\ dataset \in Seq(JudgedSet)
    BY DEF AskCases, SizeInv
  <1>2. cells \in Seq(CellSet) /\ Len(cells) \in Nat
    BY <1>1, WithThePlan DEF WithPlan
  <1>3. PICK reply \in Replies :
          LET kept == Kept(todo, reply)
              missing == Missing(todo, kept)
          IN  /\ cases' = cases \o kept
              /\ IF missing # <<>>
                   THEN phase' = "cases_repair" /\ todo' = missing /\ asked' = asked
                   ELSE NextBatch
    BY DEF AskCases
  <1> DEFINE kept == Kept(todo, reply)
             missing == Missing(todo, kept)
             to == asked + Len(todo)
  <1>4. reply \in Seq(ReplySet)
    BY RepliesAre
  <1>5. /\ cases \o kept \in Seq(CaseSet) /\ missing \in Seq(CellSet) /\ to \in asked..Len(cells)
        /\ Fits(cells, cases \o kept, to)
        /\ Enough(cells, cases \o kept, problems, asked)
        /\ HasRoom(cells, cases \o kept, missing, asked, to)
        /\ AsksTheRest(cells, cases \o kept, missing, asked, to)
        /\ missing = <<>> => Enough(cells, cases \o kept, problems, to)
    <2>1. \A k, m, t : k = Kept(todo, reply) /\ m = Missing(todo, k) /\ t = asked + Len(todo) =>
            /\ cases \o k \in Seq(CaseSet) /\ m \in Seq(CellSet) /\ t \in asked..Len(cells)
            /\ Fits(cells, cases \o k, t)
            /\ Enough(cells, cases \o k, problems, asked)
            /\ HasRoom(cells, cases \o k, m, asked, t)
            /\ AsksTheRest(cells, cases \o k, m, asked, t)
            /\ m = <<>> => Enough(cells, cases \o k, problems, t)
      BY <1>1, <1>2, <1>4, FirstAnswer, Zenon
    <2> QED BY <2>1
  <1>6. cases' = cases \o kept /\ to = BatchEnd(asked)
    BY <1>1, <1>3 DEF BatchEnd
  <1>7. missing # <<>> => phase' = "cases_repair" /\ todo' = missing /\ asked' = asked
    BY <1>3
  <1>8. missing = <<>> => NextBatch
    BY <1>3
  <1> HIDE DEF kept, missing, to
  <1>9. CASE missing # <<>>
    <2>1. /\ phase' = "cases_repair" /\ asked' \in 0..Len(cells') /\ cases' \in Seq(CaseSet) /\ dataset' \in Seq(JudgedSet)
          /\ Enough(cells', cases', problems', asked') /\ todo' \in Seq(CellSet)
      BY <1>1, <1>5, <1>6, <1>7, <1>9
    <2>2. BatchEnd(asked)' = BatchEnd(asked)
      BY <1>1, <1>7, <1>9 DEF BatchEnd
    <2>3. /\ Fits(cells', cases', BatchEnd(asked)') /\ HasRoom(cells', cases', todo', asked', BatchEnd(asked)')
          /\ AsksTheRest(cells', cases', todo', asked', BatchEnd(asked)')
      BY <1>1, <1>5, <1>6, <1>7, <1>9, <2>2
    <2> QED BY <2>1, <2>3 DEF SizeInv
  <1>10. CASE missing = <<>>
    <2>1. /\ NextBatch /\ cases' \in Seq(CaseSet)
          /\ Fits(cells, cases', BatchEnd(asked)) /\ Enough(cells, cases', problems', BatchEnd(asked))
      BY <1>1, <1>5, <1>6, <1>8, <1>10
    <2> QED BY <1>1, <1>2, <2>1, NextBatchKeeps
  <1> QED BY <1>9, <1>10

LEMMA RepairCasesKeeps == SizeInv /\ PlanInv /\ RepairCases => SizeInv'
  <1> SUFFICES ASSUME SizeInv, PlanInv, RepairCases PROVE SizeInv'
    OBVIOUS
  <1> DEFINE to == BatchEnd(asked)
  <1>1. /\ phase = "cases_repair" /\ UNCHANGED <<cells, dataset>> /\ NextBatch
        /\ asked \in 0..Len(cells) /\ Enough(cells, cases, problems, asked)
        /\ todo \in Seq(CellSet) /\ Fits(cells, cases, to)
        /\ HasRoom(cells, cases, todo, asked, to) /\ AsksTheRest(cells, cases, todo, asked, to)
        /\ cases \in Seq(CaseSet) /\ dataset \in Seq(JudgedSet)
    BY DEF RepairCases, SizeInv
  <1>2. cells \in Seq(CellSet) /\ Len(cells) \in Nat
    BY <1>1, WithThePlan DEF WithPlan
  <1>3. PICK reply \in Replies :
          LET kept == Kept(todo, reply)
              still == Missing(todo, kept)
          IN  /\ cases' = cases \o kept
              /\ problems' = problems \cup {<<"short", Key(c)>> : c \in ToSet(still)}
    BY DEF RepairCases
  <1> DEFINE kept == Kept(todo, reply)
  <1>4. cases' = cases \o kept /\ problems' = problems \cup {<<"short", Key(c)>> : c \in ToSet(Missing(todo, kept))}
    BY <1>3
  <1>5. reply \in Seq(ReplySet)
    BY RepliesAre
  <1>6. to \in asked..Len(cells)
    BY <1>1, <1>2, BatchIs DEF BatchEnd
  <1> HIDE DEF to
  <1>7. \A k, found : k = Kept(todo, reply) /\ found = problems \cup {<<"short", Key(c)>> : c \in ToSet(Missing(todo, k))} =>
          cases \o k \in Seq(CaseSet) /\ Fits(cells, cases \o k, to) /\ Enough(cells, cases \o k, found, to)
    BY <1>1, <1>2, <1>5, <1>6, SecondAnswer, Zenon
  <1>8. cases' \in Seq(CaseSet) /\ Fits(cells, cases', to) /\ Enough(cells, cases', problems', to)
    BY <1>4, <1>7
  <1> QED BY <1>1, <1>2, <1>8, NextBatchKeeps DEF to

\* A dataset with other decisions about its cases.
Decided(new, ds) ==
  /\ new \in Seq(JudgedSet)
  /\ DOMAIN new = DOMAIN ds /\ \A n \in DOMAIN ds : new[n].key = ds[n].key

LEMMA DecidedIsEnough ==
  ASSUME NEW ds, NEW new, Decided(new, ds)
  PROVE  \A plan, found, k : Enough(plan, ds, found, k) => Enough(plan, new, found, k)
  <1>1. ASSUME NEW key PROVE Have(new, key) = Have(ds, key)
    <2>1. {n \in DOMAIN new : new[n].key = key} = {n \in DOMAIN ds : ds[n].key = key}
      BY DEF Decided
    <2> QED BY <2>1 DEF Have
  <1> QED BY <1>1 DEF Enough

LEMMA OneDecided ==
  ASSUME NEW c \in JudgedSet, NEW status \in {"pending", "approved", "rejected"}
  PROVE  [c EXCEPT !.review = status] \in JudgedSet /\ [c EXCEPT !.review = status].key = c.key
  BY DEF JudgedSet

LEMMA SomeDecided ==
  ASSUME NEW ds \in Seq(JudgedSet), NEW S, NEW status \in {"pending", "approved", "rejected"},
         NEW new, new = [n \in DOMAIN ds |-> IF n \in S THEN [ds[n] EXCEPT !.review = status] ELSE ds[n]]
  PROVE  Decided(new, ds)
  <1> DEFINE k == Len(ds)
  <1>1. k \in Nat /\ DOMAIN ds = 1..k
    OBVIOUS
  <1>2. \A n \in 1..k : ds[n] \in JudgedSet
    OBVIOUS
  <1> HIDE DEF k
  <1>3. ASSUME NEW n \in 1..k PROVE new[n] \in JudgedSet /\ new[n].key = ds[n].key
    <2>1. CASE n \in S
      <3>1. new[n] = [ds[n] EXCEPT !.review = status]
        BY <1>1, <2>1
      <3>2. ds[n] \in JudgedSet
        BY <1>2
      <3>3. \A c \in JudgedSet : [c EXCEPT !.review = status] \in JudgedSet /\ [c EXCEPT !.review = status].key = c.key
        BY OneDecided
      <3> QED BY <3>1, <3>2, <3>3
    <2>2. CASE n \notin S
      <3>1. new[n] = ds[n]
        BY <1>1, <2>2
      <3> QED BY <1>2, <3>1
    <2> QED BY <2>1, <2>2
  <1>4. new = [n \in 1..k |-> new[n]]
    BY <1>1
  <1>5. new \in [1..k -> JudgedSet]
    BY <1>3, <1>4
  <1>6. new \in Seq(JudgedSet) /\ DOMAIN new = 1..k
    BY <1>1, <1>5
  <1> QED BY <1>1, <1>3, <1>6 DEF Decided

LEMMA DecidedTwice ==
  ASSUME NEW ds, NEW judged, NEW new, Decided(judged, ds), Decided(new, judged)
  PROVE  Decided(new, ds)
  BY DEF Decided

\* What Review makes of the dataset.
LEMMA ReviewDecides ==
  ASSUME Review, dataset \in Seq(JudgedSet)
  PROVE  Decided(dataset', dataset)
  <1>1. PICK rejected \in SUBSET DOMAIN dataset :
          LET judged == Judged(dataset, rejected)
              remaining == {n \in DOMAIN judged : judged[n].review = "pending"}
              approved == [n \in DOMAIN judged |->
                             IF n \in remaining THEN [judged[n] EXCEPT !.review = "approved"] ELSE judged[n]]
          IN  dataset' = judged \/ dataset' = approved
    BY DEF Review
  <1> DEFINE judged == Judged(dataset, rejected)
             remaining == {n \in DOMAIN judged : judged[n].review = "pending"}
             approved == [n \in DOMAIN judged |->
                            IF n \in remaining THEN [judged[n] EXCEPT !.review = "approved"] ELSE judged[n]]
  <1>2. dataset' = judged \/ dataset' = approved
    BY <1>1
  <1>3. Decided(judged, dataset)
    BY SomeDecided DEF Judged
  <1>4. judged \in Seq(JudgedSet)
    BY <1>3 DEF Decided
  <1> HIDE DEF judged, remaining
  <1>5. Decided(approved, judged)
    BY <1>4, SomeDecided
  <1> HIDE DEF approved
  <1> QED BY <1>2, <1>3, <1>5, DecidedTwice

\* The actions of the review: only decisions change.
LEMMA ReviewingKeeps ==
  ASSUME SizeInv, phase \in {"review", "awaiting", "done"}, Decided(dataset', dataset), UNCHANGED <<cells, cases, problems>>,
         phase' \in {"review", "awaiting", "done", "failed"}
  PROVE  SizeInv'
  <1>1. cases' \in Seq(CaseSet) /\ dataset' \in Seq(JudgedSet)
    BY DEF SizeInv, Decided
  <1>2. <<"duplicates", None>> \in problems \/ Enough(cells, dataset, problems, Len(cells))
    BY DEF SizeInv
  <1>3. Enough(cells, dataset, problems, Len(cells)) => Enough(cells', dataset', problems', Len(cells'))
    <2>1. Enough(cells, dataset, problems, Len(cells)) => Enough(cells, dataset', problems, Len(cells))
      BY DecidedIsEnough
    <2> QED BY <2>1
  <1> QED BY <1>1, <1>2, <1>3 DEF SizeInv

LEMMA BuildKeeps == SizeInv /\ PlanInv /\ BuildDataset => SizeInv'
  <1> SUFFICES ASSUME SizeInv, PlanInv, BuildDataset PROVE SizeInv'
    OBVIOUS
  <1> DEFINE ds == Added(cases)
             found == IF Len(ds) < Len(cases) THEN problems \cup {<<"duplicates", None>>} ELSE problems
  <1>1. /\ phase = "build" /\ UNCHANGED <<cells, cases>> /\ problems' = found
        /\ \/ dataset' = dataset /\ phase' \in {"plan", "failed"}
           \/ dataset' = ds /\ phase' = "review"
    BY DEF BuildDataset, StageRaises
  <1>2. /\ cases \in Seq(CaseSet) /\ dataset \in Seq(JudgedSet)
        /\ Enough(cells, cases, problems, Len(cells))
    BY <1>1 DEF SizeInv
  <1>3. ds \in Seq(JudgedSet) /\ (~(Len(ds) < Len(cases)) => \A key : Have(ds, key) = Have(cases, key))
    BY <1>2, AddedIs
  <1>4. <<"duplicates", None>> \in found \/ Enough(cells, ds, found, Len(cells))
    <2>1. CASE Len(ds) < Len(cases)
      BY <2>1
    <2>2. CASE ~(Len(ds) < Len(cases))
      <3>1. found = problems /\ \A key : Have(ds, key) = Have(cases, key)
        BY <1>3, <2>2
      <3> HIDE DEF ds, found
      <3> QED BY <1>2, <3>1 DEF Enough
    <2> QED BY <2>1, <2>2
  <1> HIDE DEF ds, found
  <1>5. CASE dataset' = dataset /\ phase' \in {"plan", "failed"}
    BY <1>1, <1>5, SizeElsewhere
  <1>6. CASE dataset' = ds /\ phase' = "review"
    <2>1. <<"duplicates", None>> \in problems' \/ Enough(cells', dataset', problems', Len(cells'))
      BY <1>1, <1>4, <1>6
    <2> QED BY <1>1, <1>2, <1>3, <1>6, <2>1 DEF SizeInv
  <1> QED BY <1>1, <1>5, <1>6

LEMMA PlanKeeps == SizeInv /\ PlanInv /\ Plan => SizeInv'
  <1> SUFFICES ASSUME SizeInv, PlanInv, Plan PROVE SizeInv'
    OBVIOUS
  <1>1. /\ phase = "plan" /\ phase' = "cases" /\ dataset' = dataset /\ asked' = 0 /\ cases' = <<>>
        /\ cells' = PlanCells(cfg, amap, EdgeLists(agent.tools)) /\ todo' = Batch(cells', 0)
    BY DEF Plan, EdgeLists
  <1> DEFINE plan == PlanCells(cfg, amap, EdgeLists(agent.tools))
  <1>2. MapKnown
    BY <1>1 DEF PlanInv
  <1>3. plan \in Seq(CellSet)
    BY <1>2, PlanFacts
  <1> HIDE DEF plan
  <1>4. cells' = plan
    BY <1>1 DEF plan
  <1> DEFINE none == <<>>
  <1>5. none \in Seq(CaseSet)
    OBVIOUS
  <1>6. ASSUME NEW key PROVE Have(none, key) = 0
    BY FS_EmptySet DEF Have
  <1>7. ASSUME NEW key PROVE Budget(plan, key, 0) = 0
    BY <1>3, BudgetIs
  <1> HIDE DEF none
  <1>8. Fits(plan, none, 0)
    BY <1>6, <1>7 DEF Fits
  <1>9. Enough(plan, none, problems', 0)
    BY DEF Enough
  <1>10. Len(plan) \in Nat
    BY <1>3
  <1>11. 0 \in 0..Len(cells')
    BY <1>4, <1>10
  <1>12. cases' = none /\ dataset' \in Seq(JudgedSet)
    BY <1>1 DEF none, SizeInv
  <1>13. Fits(cells', cases', asked') /\ Enough(cells', cases', problems', asked')
    BY <1>1, <1>4, <1>8, <1>9, <1>12
  <1> QED BY <1>1, <1>5, <1>11, <1>12, <1>13 DEF SizeInv

LEMMA SizeInvNext == SizeInv /\ PlanInv /\ [Next]_vars => SizeInv'
  <1> SUFFICES ASSUME SizeInv, PlanInv, [Next]_vars PROVE SizeInv'
    OBVIOUS
  <1>0. dataset \in Seq(JudgedSet)
    BY DEF SizeInv
  <1>1. CASE Discover
    <2>1. UNCHANGED <<cases, dataset>> /\ phase' \in {"map", "failed"}
      BY <1>1 DEF Discover
    <2> QED BY <2>1, SizeElsewhere
  <1>2. CASE AskMap \/ RepairMap
    <2>1. UNCHANGED <<cases, dataset>> /\ phase' \in {"map", "map_repair", "plan", "failed"}
      <3>1. CASE AskMap
        BY <3>1 DEF AskMap, TakeMap, StageRaises
      <3>2. CASE RepairMap
        BY <3>2 DEF RepairMap, TakeMap, StageRaises
      <3> QED BY <1>2, <3>1, <3>2
    <2> QED BY <2>1, SizeElsewhere
  <1>3. CASE GeneratorFails
    <2>1. UNCHANGED <<cases, dataset>> /\ phase' \in {"map", "plan", "failed"}
      BY <1>3 DEF GeneratorFails, StageRaises
    <2> QED BY <2>1, SizeElsewhere
  <1>4. CASE Plan
    BY <1>4, PlanKeeps
  <1>5. CASE AskCases
    BY <1>5, AskCasesKeeps
  <1>6. CASE RepairCases
    BY <1>6, RepairCasesKeeps
  <1>7. CASE BuildDataset
    BY <1>7, BuildKeeps
  <1>8. CASE ReviewDecided \/ Resume
    <2>1. /\ phase \in {"review", "awaiting"} /\ dataset' = dataset /\ UNCHANGED <<cells, cases, problems>>
          /\ phase' \in {"review", "done", "failed"}
      <3>1. CASE ReviewDecided
        BY <3>1 DEF ReviewDecided, StageRaises
      <3>2. CASE Resume
        BY <3>2 DEF Resume
      <3> QED BY <1>8, <3>1, <3>2
    <2>2. Decided(dataset', dataset)
      BY <1>0, <2>1 DEF Decided
    <2> QED BY <2>1, <2>2, ReviewingKeeps
  <1>9. CASE Review
    <2>1. /\ phase = "review" /\ UNCHANGED <<cells, cases, problems>>
          /\ phase' \in {"review", "awaiting", "done", "failed"}
      BY <1>9 DEF Review, StageRaises
    <2>2. Decided(dataset', dataset)
      BY <1>0, <1>9, ReviewDecides
    <2> QED BY <2>1, <2>2, ReviewingKeeps
  <1>10. CASE Person
    <2>1. phase = "awaiting" /\ phase' = phase /\ UNCHANGED <<cells, cases, problems>>
      BY <1>10 DEF Person
    <2>2. PICK n \in DOMAIN dataset, status \in {"approved", "rejected"} : dataset' = [dataset EXCEPT ![n].review = status]
      BY <1>10 DEF Person
    <2> DEFINE S == {n}
    <2>3. dataset' = [m \in DOMAIN dataset |-> IF m \in S THEN [dataset[m] EXCEPT !.review = status] ELSE dataset[m]]
      BY <1>0, <2>2
    <2> HIDE DEF S
    <2>4. Decided(dataset', dataset)
      BY <1>0, <2>3, SomeDecided
    <2> QED BY <2>1, <2>4, ReviewingKeeps
  <1>11. CASE UNCHANGED vars
    <2>1. UNCHANGED <<phase, cells, asked, todo, cases, dataset, problems>>
      BY <1>11 DEF vars
    <2>2. BatchEnd(asked)' = BatchEnd(asked)
      BY <2>1 DEF BatchEnd
    <2> QED BY <2>1, <2>2 DEF SizeInv
  <1> QED BY <1>1, <1>2, <1>3, <1>4, <1>5, <1>6, <1>7, <1>8, <1>9, <1>10, <1>11 DEF Next

\* However many cases the generator sends, in its answer and in the repair, no cell gets more than the plan
\* asks for; and a cell of the dataset that has fewer is reported: the loop over the batches, add_case and
\* the review of the generator.
THEOREM TheSizeIsThePlans == Spec => []SizeIsThePlans
  <1>1. SizeInv /\ PlanInv => SizeIsThePlans
    <2> SUFFICES ASSUME SizeInv, PlanInv PROVE SizeIsThePlans
      OBVIOUS
    <2>1. ASSUME phase \in {"cases", "cases_repair", "build"}, NEW key \in Keys
          PROVE  Have(cases, key) <= PlannedFor(key)
      <3>1. cells \in Seq(CellSet) /\ Len(cells) \in Nat /\ cases \in Seq(CaseSet)
        BY <2>1, WithThePlan DEF WithPlan, SizeInv
      <3> DEFINE k == Len(cells)
                 b(n) == Budget(cells, key, n)
      <3>2. b(k) = PlannedFor(key)
        BY <3>1, BudgetIs DEF PlannedFor, CountsFor
      <3>3. \A n \in 0..k : b(n) <= b(k) /\ b(n) \in Nat
        <4>1. k \in 0..k
          BY <3>1
        <4> QED BY <3>1, <4>1, BudgetIs
      <3>4. PICK n \in 0..k : Have(cases, key) <= b(n)
        <4>1. key \in KeysOf(cells)
          BY DEF Keys, KeysOf
        <4>2. CASE phase = "cases"
          <5>1. asked \in 0..k /\ Fits(cells, cases, asked)
            BY <4>2 DEF SizeInv
          <5> HIDE DEF k
          <5> QED BY <4>1, <5>1 DEF Fits
        <4>3. CASE phase = "cases_repair"
          <5>1. asked \in 0..k /\ Fits(cells, cases, BatchEnd(asked))
            BY <4>3 DEF SizeInv
          <5>2. BatchEnd(asked) \in asked..k
            BY <3>1, <5>1, BatchIs DEF BatchEnd
          <5> HIDE DEF k
          <5>3. BatchEnd(asked) \in 0..k
            BY <3>1, <5>1, <5>2 DEF k
          <5> QED BY <4>1, <5>1, <5>3 DEF Fits
        <4>4. CASE phase = "build"
          <5>1. k \in 0..k /\ Fits(cells, cases, k)
            BY <3>1, <4>4 DEF SizeInv
          <5> HIDE DEF k
          <5> QED BY <4>1, <5>1 DEF Fits
        <4> QED BY <2>1, <4>2, <4>3, <4>4
      <3>5. Have(cases, key) \in Nat
        BY <3>1, HaveIsANumber
      <3> HIDE DEF b
      <3> QED BY <3>2, <3>3, <3>4, <3>5
    <2>2. ASSUME phase \in {"review", "awaiting", "done"}, NEW c \in ToSet(cells), Have(dataset, Key(c)) < c.count
          PROVE  <<"short", Key(c)>> \in problems \/ <<"duplicates", None>> \in problems
      <3>1. cells \in Seq(CellSet) /\ dataset \in Seq(JudgedSet)
        BY <2>2, WithThePlan DEF WithPlan, SizeInv
      <3>2. PICK n \in 1..Len(cells) : c = cells[n]
        BY <3>1 DEF ToSet
      <3>3. <<"duplicates", None>> \in problems \/ Enough(cells, dataset, problems, Len(cells))
        BY <2>2 DEF SizeInv
      <3>4. c \in CellSet
        BY <3>1, <3>2
      <3>5. Have(dataset, Key(c)) \in Nat /\ c.count \in Nat
        BY <3>1, <3>4, HaveIsANumber, KeysAreKeys
      <3> QED BY <2>2, <3>2, <3>3, <3>5 DEF Enough
    <2> QED BY <2>1, <2>2 DEF SizeIsThePlans
  <1>2. Init => SizeInv
    BY SizeInvInit
  <1>3. SizeInv /\ PlanInv /\ [Next]_vars => SizeInv'
    BY SizeInvNext
  <1> QED BY <1>1, <1>2, <1>3, PlanInvariant, PTL DEF Spec
----------------------------------------------------------------------------
(* Authoring: the two answers to "what is missing" *)

GapsInv == phase = "done" => coverage = Achieved(cells, Approved(dataset))

LEMMA GapsInvNext == GapsInv /\ [Next]_vars => GapsInv'
  <1> SUFFICES ASSUME GapsInv, [Next]_vars, phase' = "done" PROVE coverage' = Achieved(cells', Approved(dataset)')
    BY DEF GapsInv
  <1>1. CASE ReviewDecided
    <2>1. dataset' = dataset /\ cells' = cells /\ coverage' = Achieved(cells, Approved(dataset))
      BY <1>1 DEF ReviewDecided, StageRaises
    <2> QED BY <2>1 DEF Approved
  <1>2. CASE Review
    <2>1. PICK rejected \in SUBSET DOMAIN dataset :
            LET judged == Judged(dataset, rejected)
                remaining == {n \in DOMAIN judged : judged[n].review = "pending"}
                approved == [n \in DOMAIN judged |->
                               IF n \in remaining THEN [judged[n] EXCEPT !.review = "approved"] ELSE judged[n]]
            IN  CASE remaining = {} ->
                       StageRaises("review") /\ dataset' = judged /\ coverage' = coverage
                  [] remaining # {} /\ ~cfg.auto ->
                       /\ dataset' = judged
                       /\ phase' = "awaiting"
                       /\ UNCHANGED <<attempt, coverage>>
                  [] OTHER ->
                       /\ dataset' = approved
                       /\ coverage' = Achieved(cells, Approved(approved))
                       /\ phase' = "done"
                       /\ attempt' = 0
      BY <1>2 DEF Review
    <2>2. ~StageRaises("review")
      BY DEF StageRaises
    <2>3. coverage' = Achieved(cells, Approved(dataset'))
      BY <2>1, <2>2
    <2>4. cells' = cells
      BY <1>2 DEF Review
    <2>5. Approved(dataset)' = Approved(dataset')
      BY DEF Approved
    <2> QED BY <2>3, <2>4, <2>5
  <1>3. CASE UNCHANGED vars
    <2>1. phase = "done" /\ coverage' = coverage /\ cells' = cells /\ dataset' = dataset
      BY <1>3 DEF vars
    <2>2. coverage = Achieved(cells, Approved(dataset))
      BY <2>1 DEF GapsInv
    <2> QED BY <2>1, <2>2 DEF Approved
  <1>4. CASE Discover \/ AskMap \/ RepairMap \/ GeneratorFails
    <2>1. phase' \in {"map", "map_repair", "plan", "failed"}
      <3>1. CASE Discover
        BY <3>1 DEF Discover
      <3>2. CASE AskMap
        BY <3>2 DEF AskMap, TakeMap, StageRaises
      <3>3. CASE RepairMap
        BY <3>3 DEF RepairMap, TakeMap, StageRaises
      <3>4. CASE GeneratorFails
        BY <3>4 DEF GeneratorFails, StageRaises
      <3> QED BY <1>4, <3>1, <3>2, <3>3, <3>4
    <2> QED BY <2>1
  <1>5. CASE Plan \/ AskCases \/ RepairCases \/ BuildDataset
    <2>1. phase' \in {"cases", "cases_repair", "build", "plan", "review", "failed"}
      <3>1. CASE Plan
        BY <3>1 DEF Plan
      <3>2. CASE AskCases
        BY <3>2 DEF AskCases, NextBatch
      <3>3. CASE RepairCases
        BY <3>3 DEF RepairCases, NextBatch
      <3>4. CASE BuildDataset
        BY <3>4 DEF BuildDataset, StageRaises
      <3> QED BY <1>5, <3>1, <3>2, <3>3, <3>4
    <2> QED BY <2>1
  <1>6. CASE Person \/ Resume
    BY <1>6 DEF Person, Resume
  <1> QED BY <1>1, <1>2, <1>3, <1>4, <1>5, <1>6 DEF Next

\* The approved cases are some of the cases.
LEMMA ApprovedAreSome ==
  ASSUME NEW ds \in Seq(JudgedSet), NEW key
  PROVE  Have(Approved(ds), key) \in Nat /\ Have(Approved(ds), key) <= Have(ds, key) /\ Have(ds, key) \in Nat
  <1> DEFINE P == {n \in DOMAIN ds : ds[n].review = "approved"}
             Q == {n \in P : ds[n].key = key}
             A == OfKey(ds, key)
  <1>1. P \in SUBSET DOMAIN ds /\ Q \in SUBSET A
    BY DEF OfKey
  <1>2. Approved(ds) = Picked(ds, P)
    BY DEF Approved
  <1> HIDE DEF P
  <1>3. P \in SUBSET Int /\ IsFiniteSet(P)
    BY <1>1, FinitePlaces
  <1>4. Have(Approved(ds), key) = Cardinality(Q)
    BY <1>2, <1>3, HaveOfPicked
  <1> HIDE DEF A, Q
  <1>5. Have(ds, key) = Cardinality(A) /\ IsFiniteSet(A) /\ Have(ds, key) \in Nat
    BY HaveIsANumber DEF A
  <1>6. IsFiniteSet(Q) /\ Cardinality(Q) <= Cardinality(A)
    BY <1>1, <1>5, FS_Subset
  <1>7. Cardinality(Q) \in Nat
    BY <1>6, FS_CardinalityType
  <1> QED BY <1>4, <1>5, <1>6, <1>7

\* When the plan has no gap, the gaps from the map alone miss no failure type that was planned and no happy
\* scenario with all of its topics: coverage.achieved of the pipeline and `dataset gaps`.
THEOREM TheGapsAgree == Spec => []GapsAgree
  <1>1. GapsInv /\ SizeInv /\ PlanInv => GapsAgree
    <2> SUFFICES ASSUME GapsInv, SizeInv, PlanInv, phase = "done", coverage.gaps = {} PROVE GapsAgree
      BY DEF GapsAgree
    <2> DEFINE missing == CoverageGaps(dataset, amap, 1)
               lists == EdgeLists(agent.tools)
    <2>1. MapKnown /\ ThePlanOfIt
      BY DEF PlanInv, WithPlan
    <2>2. cells \in Seq(CellSet) /\ Drawn(cells, amap, cfg, lists) /\ amap \in MapSet
          /\ \A n \in DOMAIN amap.scenarios : amap.scenarios[n].intent \in ToSet(amap.intents)
      BY <2>1, PlanFacts DEF ThePlanOfIt
    <2> HIDE DEF lists
    <2>3. dataset \in Seq(JudgedSet)
      BY DEF SizeInv
    <2>4. ASSUME NEW k \in 1..Len(cells) PROVE Have(dataset, Key(cells[k])) >= 1
      <3>1. k \in DOMAIN cells /\ cells[k] \in CellSet /\ cells[k] \in ToSet(cells)
        BY <2>2 DEF ToSet
      <3>2. cells[k].count >= 1 /\ cells[k].count \in Nat
        <4>1. cells[k].count >= 1
          BY <2>2 DEF Drawn
        <4> QED BY <3>1, <4>1, KeysAreKeys
      <3>3. coverage.gaps = {Key(c) : c \in {c \in ToSet(cells) : Have(Approved(dataset), Key(c)) < c.count}}
        BY DEF GapsInv, Achieved
      <3> DEFINE h == Have(Approved(dataset), Key(cells[k]))
      <3>4. ~(h < cells[k].count)
        BY <3>1, <3>3
      <3>5. h \in Nat /\ h <= Have(dataset, Key(cells[k])) /\ Have(dataset, Key(cells[k])) \in Nat
        BY <2>3, ApprovedAreSome
      <3> HIDE DEF h
      <3> QED BY <3>2, <3>4, <3>5
    <2>5. ASSUME NEW k \in 1..Len(cells) PROVE Key(cells[k]) \notin missing
      <3>1. Have(dataset, Key(cells[k])) >= 1 /\ Have(dataset, Key(cells[k])) \in Nat
        BY <2>3, <2>4, HaveIsANumber
      <3>2. ~(Have(dataset, Key(cells[k])) < 1)
        BY <3>1
      <3> QED BY <3>2 DEF CoverageGaps
    <2> HIDE DEF missing
    <2> DEFINE topics == IF amap.topics = <<>> THEN {"unspecified"} ELSE ToSet(amap.topics)
    <2>6. ASSUME NEW s \in ToSet(amap.scenarios), s.kind = "happy"
          PROVE  \E topic \in topics : <<s.intent, topic, s.id, None>> \notin missing
      <3>1. PICK n \in DOMAIN amap.scenarios : s = amap.scenarios[n]
        BY DEF ToSet
      <3>2. PICK k \in 1..Len(cells) : IsFor(cells[k], s)
        BY <2>2, <3>1 DEF Drawn
      <3>3. cells[k].intent = s.intent /\ cells[k].scenario = s.id /\ cells[k].kind = "happy" /\ cells[k].mode = None
        BY <2>6, <3>2 DEF IsFor
      <3>4. Origin(cells[k], amap, lists)
        BY <2>2 DEF Drawn
      <3>5. cells[k].topic \in Topics(amap)
        BY <3>3, <3>4 DEF Origin, SchemaEdge
      <3>6. cells[k].topic \in topics
        BY <3>5 DEF Topics
      <3>7. Key(cells[k]) = <<s.intent, cells[k].topic, s.id, None>>
        BY <3>3 DEF Key
      <3> QED BY <2>5, <3>6, <3>7
    <2>7. ASSUME cfg.category > 0, NEW f \in ToSet(amap.failures)
          PROVE  <<CrossCutting, "unspecified", "failure", f>> \notin missing
      <3>1. PICK k \in 1..Len(cells) : Key(cells[k]) = <<CrossCutting, "unspecified", "failure", f>>
        BY <2>2, <2>7 DEF Drawn
      <3> QED BY <2>5, <3>1
    <2> QED BY <2>6, <2>7 DEF GapsAgree, missing
  <1>2. Init => GapsInv
    BY DEF Init, GapsInv
  <1>3. GapsInv /\ [Next]_vars => GapsInv'
    BY GapsInvNext
  <1>4. Init => SizeInv
    BY SizeInvInit
  <1>5. SizeInv /\ PlanInv /\ [Next]_vars => SizeInv'
    BY SizeInvNext
  <1> QED BY <1>1, <1>2, <1>3, <1>4, <1>5, PlanInvariant, PTL DEF Spec

====
