---- MODULE EvaluationProofs ----
(***************************************************************************)
(* Proofs about the evaluation, for any cases, repeats, workers, answers,  *)
(* judges and thresholds.                                                  *)
(*                                                                         *)
(* What the folds of the evaluation compute is shown by induction, over    *)
(* the calls of an answer, the splits of a run and the values of a mean.   *)
(* The library's induction theorems take an operator; here it is a set of  *)
(* numbers that is closed under successor.                                 *)
(***************************************************************************)
EXTENDS Evaluation, FiniteSetTheorems, WellFoundedInduction, TLAPS

----------------------------------------------------------------------------
(* Induction, and what is defined by recursion *)

\* A set of numbers has a least one: the intervals below its members are finite sets, and
\* those are well-founded.
LEMMA LeastNumber ==
  ASSUME NEW T \in SUBSET Nat, T # {}
  PROVE  \E n \in T : \A m \in T : n <= m
  <1> DEFINE U == {0..n : n \in T}
  <1>1. U \in SUBSET FiniteSubsetsOf(Nat)
    <2> SUFFICES ASSUME NEW n \in T PROVE 0..n \in FiniteSubsetsOf(Nat)
      OBVIOUS
    <2>1. IsFiniteSet(0..n)
      BY FS_Interval
    <2> QED BY <2>1 DEF FiniteSubsetsOf
  <1>2. U # {}
    OBVIOUS
  <1>3. IsWellFoundedOn(StrictSubsetOrdering(Nat), FiniteSubsetsOf(Nat))
    BY FS_StrictSubsetOrderingWellFounded
  <1>4. PICK x \in U : \A y \in U : ~(<<y, x>> \in StrictSubsetOrdering(Nat))
    <2> HIDE DEF U
    <2> QED BY <1>1, <1>2, <1>3, WFMin
  <1>5. PICK n \in T : x = 0..n
    OBVIOUS
  <1>6. ASSUME NEW m \in T, ~(n <= m) PROVE FALSE
    <2>1. m \in Nat /\ n \in Nat /\ m < n
      BY <1>6
    <2>2. 0..m \subseteq 0..n /\ 0..m # 0..n
      BY <2>1
    <2>3. <<0..m, 0..n>> \in StrictSubsetOrdering(Nat)
      BY <2>1, <2>2 DEF StrictSubsetOrdering
    <2> QED BY <1>4, <1>5, <2>3
  <1> QED BY <1>6

\* A set that holds 0 and the successors of its members up to k holds all numbers up to k.
LEMMA UpTo ==
  ASSUME NEW k \in Nat, NEW T, 0 \in T, \A n \in 0..k : n < k /\ n \in T => n + 1 \in T
  PROVE  0..k \subseteq T
  <1> DEFINE Missing == {n \in 0..k : n \notin T}
  <1>1. Missing \in SUBSET Nat
    OBVIOUS
  <1>2. ASSUME Missing # {} PROVE FALSE
    <2>1. PICK n \in Missing : \A m \in Missing : n <= m
      <3> HIDE DEF Missing
      <3> QED BY <1>1, <1>2, LeastNumber
    <2>2. n # 0 /\ n - 1 \in 0..k /\ n - 1 < k /\ ~(n <= n - 1)
      OBVIOUS
    <2>3. n - 1 \in T
      BY <2>1, <2>2
    <2>4. (n - 1) + 1 \in T
      BY <2>2, <2>3
    <2> QED BY <2>4
  <1> QED BY <1>2

\* f goes on from each number to the next by the steps it is given.
Steps(f, k, base, step) ==
  \A i \in 0..k : f[i] = IF i = 0 THEN base ELSE step[i][f[i - 1]]

\* There is one.
LEMMA StepByStep ==
  ASSUME NEW k \in Nat, NEW D, NEW base \in D, NEW step \in [1..k -> [D -> D]]
  PROVE  \E f \in [0..k -> D] : Steps(f, k, base, step)
  <1> DEFINE Right(f, n) ==
               \A i \in 0..k : i <= n => f[i] = IF i = 0 THEN base ELSE step[i][f[i - 1]]
             T == {n \in 0..k : \E f \in [0..k -> D] : Right(f, n)}
  <1>1. 0 \in T
    <2>1. Right([i \in 0..k |-> base], 0)
      OBVIOUS
    <2>2. [i \in 0..k |-> base] \in [0..k -> D]
      OBVIOUS
    <2> QED BY <2>1, <2>2
  <1>2. ASSUME NEW n \in 0..k, n < k, n \in T PROVE n + 1 \in T
    <2>1. PICK f \in [0..k -> D] : Right(f, n)
      BY <1>2
    <2> DEFINE g == [i \in 0..k |-> IF i = 0 THEN base ELSE step[i][f[i - 1]]]
    <2>2. g \in [0..k -> D]
      OBVIOUS
    <2>3. \A i \in 0..k : i <= n => g[i] = f[i]
      BY <2>1
    <2>4. ASSUME NEW i \in 0..k, i <= n + 1
          PROVE  g[i] = IF i = 0 THEN base ELSE step[i][g[i - 1]]
      <3>1. CASE i = 0
        BY <3>1
      <3>2. CASE i # 0
        <4>1. i - 1 \in 0..k /\ i - 1 <= n
          BY <2>4, <3>2
        <4>2. g[i - 1] = f[i - 1]
          BY <2>3, <4>1
        <4> QED BY <3>2, <4>2
      <3> QED BY <3>1, <3>2
    <2>5. Right(g, n + 1)
      BY <2>4
    <2>6. n + 1 \in 0..k
      BY <1>2
    <2> HIDE DEF g, Right
    <2> QED BY <2>2, <2>5, <2>6
  <1>3. k \in T
    <2> HIDE DEF T
    <2>1. 0..k \subseteq T
      BY <1>1, <1>2, UpTo
    <2> QED BY <2>1
  <1>4. PICK f \in [0..k -> D] : Right(f, k)
    BY <1>3
  <1>5. Steps(f, k, base, step)
    BY <1>4 DEF Steps
  <1> QED BY <1>5

\* The sum of numbers is a number, in whatever order SumFunctionOnSet takes them.
LEMMA SumIsANumber ==
  ASSUME NEW S, IsFiniteSet(S), NEW v, \A x \in S : v[x] \in Nat
  PROVE  SumFunctionOnSet(v, S) \in Nat
  <1> DEFINE Pick(s) == CHOOSE x \in s : TRUE
             Goes(f, s) == f[s] = IF s = {} THEN 0 ELSE v[Pick(s)] + f[s \ {Pick(s)}]
             k == Cardinality(S)
  <1>1. k \in Nat
    BY FS_CardinalityType
  <1>2. ASSUME NEW s \in SUBSET S
        PROVE  /\ IsFiniteSet(s) /\ Cardinality(s) \in 0..k
               /\ s # {} => /\ Pick(s) \in s /\ s \ {Pick(s)} \in SUBSET S
                            /\ Cardinality(s \ {Pick(s)}) = Cardinality(s) - 1
               /\ Cardinality(s) = 0 => s = {}
    <2>1. IsFiniteSet(s) /\ Cardinality(s) \in Nat /\ Cardinality(s) <= k
      BY FS_Subset, FS_CardinalityType
    <2>2. s # {} => Pick(s) \in s
      OBVIOUS
    <2>3. s # {} => Cardinality(s \ {Pick(s)}) = Cardinality(s) - 1
      <3> HIDE DEF Pick
      <3> QED BY <2>1, <2>2, FS_RemoveElement
    <2>4. Cardinality(s) = 0 => s = {}
      BY <2>1, FS_EmptySet
    <2> QED BY <1>1, <2>1, <2>2, <2>3, <2>4
  <1> HIDE DEF Pick, k
  <1>3. \E f : \A s \in SUBSET S : Goes(f, s)
    <2> DEFINE Right(f, n) == \A s \in SUBSET S : Cardinality(s) <= n => Goes(f, s)
               T == {n \in 0..k : \E f : Right(f, n)}
    <2>1. 0 \in T
      <3>1. ASSUME NEW s \in SUBSET S, Cardinality(s) <= 0 PROVE s = {}
        <4>1. Cardinality(s) \in 0..k /\ (Cardinality(s) = 0 => s = {})
          BY <1>2, Zenon
        <4> QED BY <1>1, <3>1, <4>1
      <3>2. Right([s \in SUBSET S |-> 0], 0)
        BY <3>1
      <3> QED BY <1>1, <3>2
    <2>2. ASSUME NEW n \in 0..k, n < k, n \in T PROVE n + 1 \in T
      <3>1. PICK f : Right(f, n)
        BY <2>2
      <3> DEFINE g == [s \in SUBSET S |-> IF s = {} THEN 0 ELSE v[Pick(s)] + f[s \ {Pick(s)}]]
      <3>2. \A s \in SUBSET S : Cardinality(s) <= n => g[s] = f[s]
        BY <3>1
      <3>3. ASSUME NEW s \in SUBSET S, Cardinality(s) <= n + 1, s # {}
            PROVE  g[s \ {Pick(s)}] = f[s \ {Pick(s)}]
        <4>1. s \ {Pick(s)} \in SUBSET S /\ Cardinality(s \ {Pick(s)}) <= n
          BY <1>1, <1>2, <3>3
        <4> HIDE DEF g
        <4> QED BY <3>2, <4>1
      <3>4. Right(g, n + 1)
        BY <3>3
      <3>5. n + 1 \in 0..k
        BY <1>1, <2>2
      <3> HIDE DEF g, Right
      <3> QED BY <3>4, <3>5
    <2>3. k \in T
      <3> HIDE DEF T
      <3>1. 0..k \subseteq T
        BY <1>1, <2>1, <2>2, UpTo
      <3> QED BY <1>1, <3>1
    <2>4. PICK f : Right(f, k)
      BY <2>3
    <2>5. ASSUME NEW s \in SUBSET S PROVE Goes(f, s)
      <3>1. Cardinality(s) \in 0..k
        BY <1>2, Zenon
      <3> QED BY <1>1, <2>4, <3>1
    <2> QED BY <2>5
  <1>4. PICK h : \A s \in SUBSET S : Goes(h, s)
    BY <1>3
  <1> DEFINE Sums(f) == f = [s \in SUBSET S |-> IF s = {} THEN 0 ELSE v[Pick(s)] + f[s \ {Pick(s)}]]
  <1>5. \E f : Sums(f)
    <2> DEFINE f == [s \in SUBSET S |-> h[s]]
    <2>1. ASSUME NEW s \in SUBSET S
          PROVE  f[s] = IF s = {} THEN 0 ELSE v[Pick(s)] + f[s \ {Pick(s)}]
      <3>1. s \ {Pick(s)} \in SUBSET S
        OBVIOUS
      <3> QED BY <1>4, <3>1
    <2>2. f = [s \in SUBSET S |-> f[s]]
      OBVIOUS
    <2>3. Sums(f)
      <3> HIDE DEF f
      <3> QED BY <2>1, <2>2
    <2> QED BY <2>3
  <1>6. \E f : Sums(f) /\ SumFunctionOnSet(v, S) = f[S]
    BY <1>5, Zenon DEF SumFunctionOnSet, FoldFunctionOnSet, MapThenFoldSet, Pick
  <1>7. PICK f : Sums(f) /\ SumFunctionOnSet(v, S) = f[S]
    BY <1>6
  <1>8. \A s \in SUBSET S : Goes(f, s)
    BY <1>7
  <1> DEFINE T == {n \in 0..k : \A s \in SUBSET S : Cardinality(s) = n => f[s] \in Nat}
  <1>9. 0 \in T
    <2>1. ASSUME NEW s \in SUBSET S, Cardinality(s) = 0 PROVE f[s] \in Nat
      <3>1. s = {}
        BY <1>2, <2>1
      <3>2. f[s] = 0
        BY <1>8, <3>1
      <3> QED BY <3>2
    <2> QED BY <1>1, <2>1
  <1>10. ASSUME NEW n \in 0..k, n < k, n \in T PROVE n + 1 \in T
    <2>1. ASSUME NEW s \in SUBSET S, Cardinality(s) = n + 1 PROVE f[s] \in Nat
      <3>1. CASE s = {}
        <4>1. f[s] = 0
          BY <1>8, <3>1
        <4> QED BY <4>1
      <3>2. CASE s # {}
        <4>1. s \ {Pick(s)} \in SUBSET S /\ Cardinality(s \ {Pick(s)}) = n /\ Pick(s) \in S
          BY <1>2, <2>1, <3>2
        <4>2. f[s \ {Pick(s)}] \in Nat
          BY <1>10, <4>1
        <4>3. f[s] = v[Pick(s)] + f[s \ {Pick(s)}]
          BY <1>8, <3>2
        <4> QED BY <4>1, <4>2, <4>3
      <3> QED BY <3>1, <3>2
    <2>2. n + 1 \in 0..k
      BY <1>1, <1>10
    <2> QED BY <2>1, <2>2
  <1>11. k \in T
    <2> HIDE DEF T
    <2>1. 0..k \subseteq T
      BY <1>1, <1>9, <1>10, UpTo
    <2> QED BY <1>1, <2>1
  <1>12. f[S] \in Nat
    BY <1>11 DEF k
  <1> QED BY <1>7, <1>12

----------------------------------------------------------------------------
(* expected_tools *)

\* After each call, how many of the expected ones were matched.
Walk(f, expected, calls) ==
  /\ f \in [0..Len(calls) -> Nat]
  /\ f[0] = 0
  /\ \A i \in 1..Len(calls) :
       f[i] = f[i - 1] + IF f[i - 1] < Len(expected) /\ Holds(expected[f[i - 1] + 1], calls[i])
                           THEN 1 ELSE 0

LEMMA MatchedWalks ==
  ASSUME NEW expected \in Seq(ToolCalls), NEW calls \in Seq(ToolCalls)
  PROVE  \E f : Walk(f, expected, calls) /\ Matched(expected, calls) = f[Len(calls)]
  <1> DEFINE k == Len(calls)
             Goes(f) == f = [i \in 0..k |->
                  IF i = 0 THEN 0
                  ELSE f[i - 1] + IF /\ f[i - 1] < Len(expected)
                                     /\ Holds(expected[f[i - 1] + 1], calls[i]) THEN 1 ELSE 0]
             step == [i \in 1..k |-> [n \in Nat |->
                  n + IF n < Len(expected) /\ Holds(expected[n + 1], calls[i]) THEN 1 ELSE 0]]
  <1>1. k \in Nat
    OBVIOUS
  <1>2. step \in [1..k -> [Nat -> Nat]]
    OBVIOUS
  <1>3. PICK f \in [0..k -> Nat] :
            \A i \in 0..k : f[i] = IF i = 0 THEN 0 ELSE step[i][f[i - 1]]
    <2> DEFINE Numbers == Nat
               zero == 0
    <2>1. zero \in Numbers /\ step \in [1..k -> [Numbers -> Numbers]]
      BY <1>2
    <2>2. \E f \in [0..k -> Numbers] : Steps(f, k, zero, step)
      <3> HIDE DEF step, k, Numbers, zero
      <3> QED BY <1>1, <2>1, StepByStep
    <2> QED BY <2>2 DEF Steps
  <1>4. ASSUME NEW i \in 0..k, i # 0
        PROVE  step[i][f[i - 1]] =
                 f[i - 1] + IF /\ f[i - 1] < Len(expected)
                               /\ Holds(expected[f[i - 1] + 1], calls[i]) THEN 1 ELSE 0
    <2>1. i \in 1..k /\ f[i - 1] \in Nat
      BY <1>1, <1>4
    <2> QED BY <2>1
  <1>5. Goes(f)
    <2> HIDE DEF step, k
    <2>1. \A i \in 0..k : f[i] =
            IF i = 0 THEN 0
            ELSE f[i - 1] + IF /\ f[i - 1] < Len(expected)
                               /\ Holds(expected[f[i - 1] + 1], calls[i]) THEN 1 ELSE 0
      BY <1>3, <1>4
    <2>2. f = [i \in 0..k |-> f[i]]
      OBVIOUS
    <2> QED BY <2>1, <2>2
  <1>6. PICK g : Goes(g) /\ Matched(expected, calls) = g[k]
    <2>1. \E g : Goes(g)
      BY <1>5
    <2> QED BY <2>1, Zenon DEF Matched
  <1>7. \A i \in 0..k : g[i] =
          IF i = 0 THEN 0
          ELSE g[i - 1] + IF /\ g[i - 1] < Len(expected)
                             /\ Holds(expected[g[i - 1] + 1], calls[i]) THEN 1 ELSE 0
    BY <1>6
  <1>8. \A i \in 0..k : g[i] \in Nat
    <2> DEFINE T == {i \in 0..k : g[i] \in Nat}
    <2>1. 0 \in T
      BY <1>1, <1>7
    <2>2. ASSUME NEW n \in 0..k, n < k, n \in T PROVE n + 1 \in T
      <3>1. n + 1 \in 0..k /\ n + 1 # 0 /\ (n + 1) - 1 = n
        BY <1>1, <2>2
      <3>2. g[n + 1] = g[n] \/ g[n + 1] = g[n] + 1
        <4>1. g[n] \in Nat
          BY <2>2
        <4> QED BY <1>7, <3>1, <4>1
      <3> QED BY <2>2, <3>1, <3>2
    <2>3. 0..k \subseteq T
      <3> HIDE DEF T, k
      <3> QED BY <1>1, <2>1, <2>2, UpTo
    <2> QED BY <2>3
  <1>9. g \in [0..k -> Nat]
    <2>1. g = [i \in 0..k |-> g[i]]
      BY <1>6
    <2> HIDE DEF k, Goes
    <2> QED BY <1>8, <2>1
  <1>10. Walk(g, expected, calls)
    BY <1>7, <1>9 DEF Walk
  <1> QED BY <1>6, <1>10

LEMMA WalkStep ==
  ASSUME NEW expected \in Seq(ToolCalls), NEW calls \in Seq(ToolCalls),
         NEW f, Walk(f, expected, calls), NEW j \in 0..Len(calls), j < Len(calls)
  PROVE  LET matches == f[j] < Len(expected) /\ Holds(expected[f[j] + 1], calls[j + 1])
         IN  /\ f[j] \in Nat /\ f[j + 1] \in Nat
             /\ matches => f[j + 1] = f[j] + 1
             /\ ~matches => f[j + 1] = f[j]
  <1>1. j + 1 \in 1..Len(calls) /\ (j + 1) - 1 = j /\ j + 1 \in 0..Len(calls)
    OBVIOUS
  <1>2. f[j] \in Nat /\ f[j + 1] \in Nat
    BY <1>1 DEF Walk
  <1>3. f[j + 1] = f[j] + IF f[j] < Len(expected) /\ Holds(expected[f[j] + 1], calls[j + 1])
                            THEN 1 ELSE 0
    BY <1>1, Zenon DEF Walk
  <1> QED BY <1>2, <1>3

\* The first n expected calls are found among the first i actual ones, in order.
Found(at, n, i, expected, calls) ==
  /\ at \in [1..n -> 1..i]
  /\ \A a \in 1..n : Holds(expected[a], calls[at[a]])
  /\ \A a, b \in 1..n : a < b => at[a] < at[b]

\* What the walk has matched it has found, in order.
LEMMA WalkFinds ==
  ASSUME NEW expected \in Seq(ToolCalls), NEW calls \in Seq(ToolCalls),
         NEW f, Walk(f, expected, calls), NEW i \in 0..Len(calls)
  PROVE  f[i] \in 0..Len(expected) /\ \E at : Found(at, f[i], i, expected, calls)
  <1> DEFINE k == Len(calls)
             T == {j \in 0..k : f[j] \in 0..Len(expected)
                                  /\ \E at : Found(at, f[j], j, expected, calls)}
  <1>1. 0 \in T
    <2>1. Found(<<>>, 0, 0, expected, calls)
      BY DEF Found
    <2> QED BY <2>1 DEF Walk
  <1>2. ASSUME NEW j \in 0..k, j < k, j \in T PROVE j + 1 \in T
    <2>1. j + 1 \in 0..k /\ j + 1 \in 1..k /\ (j + 1) - 1 = j
      BY <1>2
    <2>2. f[j] \in 0..Len(expected)
      BY <1>2
    <2>3. PICK at : Found(at, f[j], j, expected, calls)
      BY <1>2
    <2>4. CASE f[j] < Len(expected) /\ Holds(expected[f[j] + 1], calls[j + 1])
      <3> DEFINE m == f[j] + 1
                 more == [a \in 1..m |-> IF a = m THEN j + 1 ELSE at[a]]
      <3>1. f[j + 1] = m /\ m \in 0..Len(expected)
        BY <1>2, <2>2, <2>4, WalkStep
      <3>2. more \in [1..m -> 1..j + 1]
        BY <2>2, <2>3 DEF Found
      <3>3. \A a \in 1..m : Holds(expected[a], calls[more[a]])
        <4> SUFFICES ASSUME NEW a \in 1..m PROVE Holds(expected[a], calls[more[a]])
          OBVIOUS
        <4>1. CASE a = m
          BY <2>4, <4>1
        <4>2. CASE a # m
          <5>1. a \in 1..f[j] /\ more[a] = at[a]
            BY <2>2, <4>2
          <5> QED BY <2>3, <5>1 DEF Found
        <4> QED BY <4>1, <4>2
      <3>4. ASSUME NEW a \in 1..m, NEW b \in 1..m, a < b PROVE more[a] < more[b]
        <4>0. f[j] \in Nat /\ a \in 1..f[j]
          BY <2>2, <3>4
        <4>1. more[a] = at[a] /\ at[a] \in 1..j
          <5>1. at[a] \in 1..j
            BY <2>3, <4>0 DEF Found
          <5>2. a \in 1..m /\ a # m
            BY <4>0
          <5>3. more[a] = at[a]
            BY <5>2, Zenon
          <5> QED BY <5>1, <5>3
        <4>2. CASE b = m
          BY <4>1, <4>2
        <4>3. CASE b # m
          <5>1. b \in 1..f[j] /\ more[b] = at[b]
            BY <2>2, <4>3
          <5> QED BY <2>3, <3>4, <4>0, <4>1, <5>1 DEF Found
        <4> QED BY <4>2, <4>3
      <3>5. Found(more, m, j + 1, expected, calls)
        <4> HIDE DEF more, m
        <4> QED BY <3>2, <3>3, <3>4 DEF Found
      <3> QED BY <2>1, <3>1, <3>5
    <2>5. CASE ~(f[j] < Len(expected) /\ Holds(expected[f[j] + 1], calls[j + 1]))
      <3>1. f[j + 1] = f[j]
        BY <1>2, <2>5, WalkStep
      <3>2. Found(at, f[j], j + 1, expected, calls)
        BY <2>3 DEF Found
      <3> QED BY <2>1, <2>2, <3>1, <3>2
    <2> QED BY <2>4, <2>5
  <1>3. 0..k \subseteq T
    <2>1. k \in Nat
      OBVIOUS
    <2> HIDE DEF T, k
    <2> QED BY <1>1, <1>2, <2>1, UpTo
  <1> QED BY <1>3

\* Whoever finds expected calls in order, the walk has matched as many by then.
LEMMA WalkIsGreedy ==
  ASSUME NEW expected \in Seq(ToolCalls), NEW calls \in Seq(ToolCalls),
         NEW f, Walk(f, expected, calls), NEW i \in 0..Len(calls),
         NEW n \in 0..Len(expected), NEW at, Found(at, n, i, expected, calls)
  PROVE  n <= f[i]
  <1> DEFINE k == Len(calls)
             T == {j \in 0..k : \A m \in 0..Len(expected) :
                                  (\E p : Found(p, m, j, expected, calls)) => m <= f[j]}
  <1>1. 0 \in T
    <2>1. ASSUME NEW m \in 0..Len(expected), NEW p, Found(p, m, 0, expected, calls) PROVE m <= f[0]
      <3>1. m # 0 => 1 \in 1..m
        OBVIOUS
      <3>2. \A a \in 1..m : p[a] \in 1..0
        BY <2>1 DEF Found
      <3>3. m = 0
        BY <3>1, <3>2
      <3> QED BY <3>3 DEF Walk
    <2> QED BY <2>1
  <1>2. ASSUME NEW j \in 0..k, j < k, j \in T PROVE j + 1 \in T
    <2>1. j + 1 \in 0..k /\ j + 1 \in 1..k /\ (j + 1) - 1 = j
      BY <1>2
    <2>2. f[j] \in Nat /\ f[j + 1] \in Nat /\ f[j] <= f[j + 1]
      <3>1. f[j] \in Nat /\ f[j + 1] \in Nat
        BY <1>2, WalkStep
      <3>2. f[j + 1] = f[j] + 1 \/ f[j + 1] = f[j]
        BY <1>2, WalkStep
      <3> HIDE DEF T, k
      <3> QED BY <3>1, <3>2
    <2>3. ASSUME NEW m \in 0..Len(expected), NEW p, Found(p, m, j + 1, expected, calls)
          PROVE  m <= f[j + 1]
      <3>1. CASE m = 0
        BY <2>2, <3>1
      <3>2. CASE m # 0 /\ p[m] # j + 1
        <4>0. p \in [1..m -> 1..j + 1] /\ m \in 1..m
          BY <2>3, <3>2 DEF Found
        <4>1. ASSUME NEW a \in 1..m PROVE p[a] <= p[m] /\ p[a] \in 1..j + 1
          <5>1. a < m => p[a] < p[m]
            BY <2>3, <4>0 DEF Found
          <5>2. p[a] \in 1..j + 1 /\ p[m] \in 1..j + 1
            BY <4>0
          <5> QED BY <5>1, <5>2
        <4>2. p \in [1..m -> 1..j]
          BY <3>2, <4>0, <4>1
        <4>3. Found(p, m, j, expected, calls)
          BY <2>3, <4>2 DEF Found
        <4>4. m <= f[j]
          BY <1>2, <4>3
        <4> QED BY <2>2, <4>4
      <3>3. CASE m # 0 /\ p[m] = j + 1
        <4> DEFINE q == [a \in 1..m - 1 |-> p[a]]
        <4>1. \A a \in 1..m - 1 : p[a] < p[m] /\ p[a] \in 1..j + 1
          BY <2>3, <3>3 DEF Found
        <4>2. q \in [1..m - 1 -> 1..j]
          BY <3>3, <4>1
        <4>3. Found(q, m - 1, j, expected, calls)
          BY <2>3, <4>2 DEF Found
        <4>4. m - 1 \in 0..Len(expected)
          BY <3>3
        <4>5. m - 1 <= f[j]
          <5> HIDE DEF q
          <5> QED BY <1>2, <4>3, <4>4
        <4>6. CASE f[j] = m - 1
          <5>1. Holds(expected[f[j] + 1], calls[j + 1])
            BY <2>3, <3>3, <4>6 DEF Found
          <5>2. f[j] < Len(expected)
            BY <3>3, <4>6
          <5>3. f[j + 1] = f[j] + 1
            BY <1>2, <5>1, <5>2, WalkStep
          <5> QED BY <4>6, <5>3
        <4> QED BY <2>2, <4>5, <4>6
      <3> QED BY <3>1, <3>2, <3>3
    <2> QED BY <2>1, <2>3
  <1>3. 0..k \subseteq T
    <2>1. k \in Nat
      OBVIOUS
    <2> HIDE DEF T, k
    <2> QED BY <1>1, <1>2, <2>1, UpTo
  <1> QED BY <1>3

\* A walk that matches every expected call is one way to find them; where there is another,
\* the walk matches them too.
LEMMA MatchedMeansEmbedded ==
  ASSUME NEW expected \in Seq(ToolCalls), NEW calls \in Seq(ToolCalls)
  PROVE  Matched(expected, calls) = Len(expected) <=> Embeds(expected, calls)
  <1>1. PICK f : Walk(f, expected, calls) /\ Matched(expected, calls) = f[Len(calls)]
    BY MatchedWalks
  <1>2. DOMAIN expected = 1..Len(expected) /\ DOMAIN calls = 1..Len(calls)
        /\ Len(expected) \in Nat /\ Len(calls) \in 0..Len(calls)
    OBVIOUS
  <1>3. f[Len(calls)] \in 0..Len(expected)
    BY <1>1, <1>2, WalkFinds
  <1>4. ASSUME f[Len(calls)] = Len(expected) PROVE Embeds(expected, calls)
    <2>1. PICK at : Found(at, Len(expected), Len(calls), expected, calls)
      BY <1>1, <1>2, <1>4, WalkFinds
    <2> QED BY <1>2, <2>1 DEF Found, Embeds
  <1>5. ASSUME Embeds(expected, calls) PROVE f[Len(calls)] = Len(expected)
    <2>1. PICK at : Found(at, Len(expected), Len(calls), expected, calls)
      BY <1>2, <1>5 DEF Found, Embeds
    <2>2. Len(expected) <= f[Len(calls)]
      BY <1>1, <1>2, <2>1, WalkIsGreedy
    <2> QED BY <1>2, <1>3, <2>2
  <1> QED BY <1>1, <1>4, <1>5

----------------------------------------------------------------------------
(* The splits of a run *)

\* Where each of K parts begins in the whole.
Offsets(off, K, n) ==
  /\ off \in [1..K + 1 -> 0..n]
  /\ off[1] = 0 /\ off[K + 1] = n
  /\ \A k \in 1..K : off[k] <= off[k + 1]

\* Chunks are contiguous, and the last one ends with the items.
LEMMA ChunksCover ==
  ASSUME NEW n \in Nat, NEW K \in Nat \ {0}
  PROVE  LET chunks == Chunks([c \in 1..n |-> c], K)
         IN  /\ DOMAIN chunks = 1..K
             /\ \E off : /\ Offsets(off, K, n)
                         /\ \A k \in 1..K :
                              /\ Len(chunks[k]) = off[k + 1] - off[k]
                              /\ \A i \in 1..Len(chunks[k]) : chunks[k][i] = off[k] + i
  <1> DEFINE items == [c \in 1..n |-> c]
             size == n \div K
             extra == n % K
             start(k) == (k - 1) * size + IF k - 1 < extra THEN k - 1 ELSE extra
             off == [k \in 1..K + 1 |-> start(k)]
  <1>1. n = K * size + extra /\ extra \in 0..(K - 1) /\ size \in Nat
    <2>1. n = K * (n \div K) + (n % K) /\ n % K \in 0..(K - 1) /\ n \div K \in Nat
      OBVIOUS
    <2> QED BY <2>1
  <1>2. Len(items) = n /\ items \in Seq(1..n)
    OBVIOUS
  <1>3. Chunks(items, K) = [k \in 1..K |-> SubSeq(items, start(k) + 1, start(k + 1))]
    <2> HIDE DEF items
    <2> QED BY <1>2 DEF Chunks
  <1> HIDE DEF size, extra
  <1>4. ASSUME NEW k \in 1..K
        PROVE  start(k) \in Nat /\ start(k + 1) \in Nat /\ start(k) <= start(k + 1) /\ start(k + 1) <= n
    <2>1. k * size \in Nat /\ (k - 1) * size \in Nat /\ k * size = (k - 1) * size + size
      BY <1>1
    <2>2. k * size + (IF k < extra THEN k ELSE extra) <= n
      <3>1. k * size <= K * size
        BY <1>1
      <3> QED BY <1>1, <2>1, <3>1
    <2> QED BY <1>1, <2>1, <2>2
  <1>5. start(1) = 0 /\ start(K + 1) = n
    <2>1. (1 - 1) * size = 0
      BY <1>1
    <2>2. (K + 1) - 1 = K
      OBVIOUS
    <2> QED BY <1>1, <2>1, <2>2
  <1> HIDE DEF start
  <1>6. Offsets(off, K, n)
    <2>1. ASSUME NEW k \in 1..K + 1 PROVE start(k) \in 0..n
      <3>1. CASE k = K + 1
        BY <1>5, <3>1
      <3>2. CASE k # K + 1
        <4>1. k \in 1..K
          BY <3>2
        <4> QED BY <1>4, <4>1
      <3> QED BY <3>1, <3>2
    <2>2. 1 \in 1..K + 1 /\ K + 1 \in 1..K + 1
      OBVIOUS
    <2>3. ASSUME NEW k \in 1..K PROVE off[k] <= off[k + 1]
      <3>1. k \in 1..K + 1 /\ k + 1 \in 1..K + 1
        OBVIOUS
      <3> QED BY <1>4, <3>1
    <2> QED BY <1>5, <2>1, <2>2, <2>3 DEF Offsets
  <1>7. ASSUME NEW k \in 1..K
        PROVE  LET chunk == Chunks(items, K)[k]
               IN  /\ Len(chunk) = off[k + 1] - off[k]
                   /\ \A i \in 1..Len(chunk) : chunk[i] = off[k] + i
    <2> DEFINE a == start(k)
               b == start(k + 1)
    <2>1. a \in 0..n /\ b \in 0..n /\ a <= b
      BY <1>4
    <2>2. off[k] = a /\ off[k + 1] = b
      BY <1>4
    <2>3. Chunks(items, K)[k] = SubSeq(items, a + 1, b)
      BY <1>3
    <2> HIDE DEF a, b, off
    <2>4. Len(SubSeq(items, a + 1, b)) = b - a
          /\ \A i \in 1..Len(SubSeq(items, a + 1, b)) : SubSeq(items, a + 1, b)[i] = a + i
      BY <2>1
    <2> QED BY <2>2, <2>3, <2>4
  <1>8. DOMAIN Chunks(items, K) = 1..K
    BY <1>3
  <1> HIDE DEF off, items
  <1> QED BY <1>6, <1>7, <1>8 DEF items

\* u is the first m parts behind each other: every place of it is a place of a part, counted on.
Joined(u, m, parts, off) ==
  /\ Len(u) = off[m + 1]
  /\ \A j \in 1..off[m + 1] : \E k \in 1..m : \E i \in 1..Len(parts[k]) :
       j = off[k] + i /\ u[j] = parts[k][i]

LEMMA JoinOneMore ==
  ASSUME NEW D, NEW K \in Nat \ {0}, NEW parts \in [1..K -> Seq(D)], NEW n \in Nat,
         NEW off, Offsets(off, K, n), \A k \in 1..K : Len(parts[k]) = off[k + 1] - off[k],
         NEW m \in 1..K, m < K, NEW s \in Seq(D), Joined(s, m, parts, off)
  PROVE  s \o parts[m + 1] \in Seq(D) /\ Joined(s \o parts[m + 1], m + 1, parts, off)
  <1> DEFINE t == parts[m + 1]
             u == s \o t
             a == off[m + 1]
             b == off[(m + 1) + 1]
  <1>1. m + 1 \in 1..K /\ t \in Seq(D) /\ a \in Nat /\ b \in Nat /\ Len(t) = b - a
    <2>1. m + 1 \in 1..K /\ m + 1 \in 1..K + 1 /\ (m + 1) + 1 \in 1..K + 1
      OBVIOUS
    <2> QED BY <2>1 DEF Offsets
  <1>2. Len(s) = a
    BY DEF Joined
  <1>3. \A j \in 1..a : \E k \in 1..m : \E i \in 1..Len(parts[k]) : j = off[k] + i /\ s[j] = parts[k][i]
    BY DEF Joined
  <1>4. /\ u \in Seq(D) /\ Len(u) = b
        /\ \A j \in 1..a : u[j] = s[j]
        /\ \A i \in 1..Len(t) : u[a + i] = t[i]
    <2>1. /\ u \in Seq(D) /\ Len(u) = Len(s) + Len(t)
          /\ \A j \in 1..Len(s) : u[j] = s[j]
          /\ \A i \in 1..Len(t) : u[Len(s) + i] = t[i]
      <3>1. t \in Seq(D)
        BY <1>1
      <3> HIDE DEF t
      <3> QED BY <3>1
    <2> HIDE DEF a, b, u, t
    <2> QED BY <1>1, <1>2, <2>1
  <1>5. ASSUME NEW j \in 1..b
        PROVE  \E k \in 1..m + 1 : \E i \in 1..Len(parts[k]) : j = off[k] + i /\ u[j] = parts[k][i]
    <2> HIDE DEF a, b, u, t
    <2>1. CASE j <= a
      <3>1. j \in 1..a
        BY <1>1, <2>1
      <3>2. PICK k \in 1..m : \E i \in 1..Len(parts[k]) : j = off[k] + i /\ s[j] = parts[k][i]
        BY <1>3, <3>1
      <3>3. u[j] = s[j]
        BY <1>4, <3>1, Zenon
      <3>4. k \in 1..m + 1
        OBVIOUS
      <3> QED BY <3>2, <3>3, <3>4
    <2>2. CASE j > a
      <3>1. PICK i \in 1..Len(t) : j = a + i
        <4>1. j - a \in 1..Len(t) /\ j = a + (j - a)
          BY <1>1, <2>2
        <4> QED BY <4>1
      <3>2. u[j] = t[i]
        BY <1>4, <3>1
      <3>3. m + 1 \in 1..m + 1
        OBVIOUS
      <3> QED BY <3>1, <3>2, <3>3 DEF a, t
    <2> QED BY <1>1, <2>1, <2>2
  <1> QED BY <1>4, <1>5 DEF Joined

LEMMA FlattenJoins ==
  ASSUME NEW D, NEW K \in Nat \ {0}, NEW parts \in [1..K -> Seq(D)], NEW n \in Nat,
         NEW off, Offsets(off, K, n), \A k \in 1..K : Len(parts[k]) = off[k + 1] - off[k]
  PROVE  FlattenSeq(parts) \in Seq(D) /\ Joined(FlattenSeq(parts), K, parts, off)
  <1> DEFINE Joins(f) == f = [i \in 1..K |-> IF i = 1 THEN parts[i] ELSE f[i - 1] \o parts[i]]
             Add(i, s) == IF i = 1 THEN parts[i] ELSE s \o parts[i]
             step == [i \in 1..K |-> [s \in Seq(D) |-> Add(i, s)]]
  <1>1. step \in [1..K -> [Seq(D) -> Seq(D)]]
    <2>1. ASSUME NEW i \in 1..K, NEW s \in Seq(D) PROVE Add(i, s) \in Seq(D)
      <3>1. parts[i] \in Seq(D)
        OBVIOUS
      <3> QED BY <3>1
    <2> HIDE DEF Add
    <2> QED BY <2>1
  <1>2. PICK h \in [0..K -> Seq(D)] : Steps(h, K, <<>>, step)
    <2> DEFINE empty == <<>>
    <2>1. empty \in Seq(D)
      OBVIOUS
    <2> HIDE DEF step, empty
    <2>2. \E h \in [0..K -> Seq(D)] : Steps(h, K, empty, step)
      BY <1>1, <2>1, StepByStep
    <2> QED BY <2>2 DEF empty
  <1>3. \E f : Joins(f)
    <2> DEFINE f == [i \in 1..K |-> h[i]]
    <2>1. ASSUME NEW i \in 1..K PROVE f[i] = IF i = 1 THEN parts[i] ELSE f[i - 1] \o parts[i]
      <3>1. i \in 0..K /\ i # 0 /\ i - 1 \in 0..K /\ h[i - 1] \in Seq(D)
        OBVIOUS
      <3>2. h[i] = step[i][h[i - 1]]
        <4> HIDE DEF step
        <4> QED BY <1>2, <3>1 DEF Steps
      <3>3. h[i] = Add(i, h[i - 1])
        <4> HIDE DEF Add
        <4> QED BY <3>1, <3>2
      <3>4. i # 1 => f[i - 1] = h[i - 1]
        OBVIOUS
      <3> QED BY <3>3, <3>4
    <2>2. f = [i \in 1..K |-> f[i]]
      OBVIOUS
    <2>3. Joins(f)
      <3> HIDE DEF f
      <3> QED BY <2>1, <2>2
    <2> QED BY <2>3
  <1>4. Len(parts) = K
    OBVIOUS
  <1>5. PICK f : Joins(f) /\ FlattenSeq(parts) = f[K]
    BY <1>3, <1>4, Zenon DEF FlattenSeq
  <1>6. \A i \in 1..K : f[i] = IF i = 1 THEN parts[i] ELSE f[i - 1] \o parts[i]
    BY <1>5
  <1> DEFINE Right(m) == f[m] \in Seq(D) /\ Joined(f[m], m, parts, off)
             T == {m \in 0..K : m # 0 => Right(m)}
  <1>7. 0 \in T
    OBVIOUS
  <1>8. ASSUME NEW m \in 0..K, m < K, m \in T PROVE m + 1 \in T
    <2>1. m + 1 \in 0..K
      BY <1>8
    <2>2. CASE m = 0
      <3>1. f[1] = parts[1] /\ parts[1] \in Seq(D) /\ 1 \in 1..K
        BY <1>6
      <3>2. Len(parts[1]) = off[1 + 1] - off[1] /\ off[1] = 0 /\ off[1 + 1] \in Nat
        BY <3>1 DEF Offsets
      <3>3. Len(parts[1]) = off[1 + 1]
        BY <3>2
      <3>4. \A j \in 1..off[1 + 1] : j = off[1] + j /\ j \in 1..Len(parts[1])
        BY <3>2, <3>3
      <3>5. Joined(parts[1], 1, parts, off)
        <4>1. 1 \in 1..1
          OBVIOUS
        <4> QED BY <3>3, <3>4, <4>1 DEF Joined
      <3> QED BY <2>1, <2>2, <3>1, <3>5
    <2>3. CASE m # 0
      <3>1. m \in 1..K /\ f[m] \in Seq(D) /\ Joined(f[m], m, parts, off)
        BY <1>8, <2>3
      <3>2. f[m] \o parts[m + 1] \in Seq(D) /\ Joined(f[m] \o parts[m + 1], m + 1, parts, off)
        BY <1>8, <3>1, JoinOneMore
      <3>3. f[m + 1] = f[m] \o parts[m + 1]
        <4>1. m + 1 \in 1..K /\ m + 1 # 1 /\ (m + 1) - 1 = m
          BY <1>8, <2>3
        <4> QED BY <1>6, <4>1, Zenon
      <3> QED BY <2>1, <3>2, <3>3
    <2> QED BY <2>2, <2>3
  <1>9. K \in T
    <2>1. K \in 0..K
      OBVIOUS
    <2> HIDE DEF T
    <2>2. 0..K \subseteq T
      BY <1>7, <1>8, UpTo
    <2> QED BY <2>1, <2>2
  <1>10. Right(K)
    BY <1>9
  <1> QED BY <1>5, <1>10

\* The splits of a run hold its cases, one after the other.
SplitsFollow(K, off) ==
  /\ DOMAIN Splits = 1..K /\ Offsets(off, K, N)
  /\ \A k \in 1..K : /\ Len(Splits[k]) = off[k + 1] - off[k]
                     /\ \A i \in 1..Len(Splits[k]) : Splits[k][i] = off[k] + i

LEMMA Cases ==
  ASSUME setup \in Setups
  PROVE  N \in Nat \ {0} /\ setup.workers \in Nat \ {0} /\ setup.repeats \in Nat \ {0}
  BY EvaluationAssumption DEF N

LEMMA SplitsCover ==
  ASSUME setup \in Setups
  PROVE  \E K \in Nat \ {0} : \E off : SplitsFollow(K, off)
  <1>1. N \in Nat \ {0} /\ setup.workers \in Nat \ {0}
    BY Cases
  <1>2. CASE setup.workers > 1 /\ N > 1
    <2> DEFINE K == IF setup.workers < N THEN setup.workers ELSE N
    <2>1. K \in Nat \ {0}
      BY <1>1
    <2> DEFINE chunks == Chunks([c \in 1..N |-> c], K)
    <2>2. Splits = chunks
      BY <1>2 DEF Splits, Ids, Case
    <2> HIDE DEF K
    <2>3. /\ DOMAIN chunks = 1..K
          /\ \E off : /\ Offsets(off, K, N)
                      /\ \A k \in 1..K : /\ Len(chunks[k]) = off[k + 1] - off[k]
                                         /\ \A i \in 1..Len(chunks[k]) : chunks[k][i] = off[k] + i
      BY <1>1, <2>1, ChunksCover
    <2> HIDE DEF chunks
    <2>4. PICK off : /\ Offsets(off, K, N)
                     /\ \A k \in 1..K : /\ Len(chunks[k]) = off[k + 1] - off[k]
                                        /\ \A i \in 1..Len(chunks[k]) : chunks[k][i] = off[k] + i
      BY <2>3
    <2>5. SplitsFollow(K, off)
      BY <2>2, <2>3, <2>4, Zenon DEF SplitsFollow
    <2> QED BY <2>1, <2>5
  <1>3. CASE ~(setup.workers > 1 /\ N > 1)
    <2> DEFINE off == [k \in 1..2 |-> IF k = 1 THEN 0 ELSE N]
    <2>1. Splits = <<[c \in 1..N |-> c]>>
      BY <1>3 DEF Splits, Ids, Case
    <2>2. DOMAIN Splits = 1..1 /\ Splits[1] = [c \in 1..N |-> c]
      BY <2>1
    <2>3. Offsets(off, 1, N)
      BY <1>1 DEF Offsets
    <2>4. \A k \in 1..1 : /\ Len(Splits[k]) = off[k + 1] - off[k]
                          /\ \A i \in 1..Len(Splits[k]) : Splits[k][i] = off[k] + i
      BY <1>1, <2>2
    <2>5. SplitsFollow(1, off)
      <3> HIDE DEF off
      <3> QED BY <2>2, <2>3, <2>4 DEF SplitsFollow
    <2> QED BY <2>5
  <1> QED BY <1>2, <1>3

\* A split is of some cases of the run.
LEMMA SplitsAreOfCases ==
  ASSUME setup \in Setups, NEW k \in DOMAIN Splits
  PROVE  /\ Len(Splits[k]) \in Nat
         /\ \A i \in 1..Len(Splits[k]) : Splits[k][i] \in Case
  <1>1. PICK K \in Nat \ {0} : \E off : SplitsFollow(K, off)
    BY SplitsCover
  <1>2. PICK off : SplitsFollow(K, off)
    BY <1>1
  <1>3. N \in Nat /\ k \in 1..K /\ k \in 1..K + 1 /\ k + 1 \in 1..K + 1
    BY <1>2, Cases DEF SplitsFollow
  <1>4. off[k] \in 0..N /\ off[k + 1] \in 0..N /\ off[k] <= off[k + 1]
    BY <1>2, <1>3 DEF SplitsFollow, Offsets
  <1>5. Len(Splits[k]) = off[k + 1] - off[k]
    BY <1>2, <1>3 DEF SplitsFollow
  <1>6. ASSUME NEW i \in 1..Len(Splits[k]) PROVE Splits[k][i] \in Case
    <2>1. Splits[k][i] = off[k] + i
      BY <1>2, <1>3, <1>6, Zenon DEF SplitsFollow
    <2>2. i \in 1..(off[k + 1] - off[k])
      BY <1>5
    <2>3. off[k] + i \in 1..N
      <3> DEFINE a == off[k]
                 b == off[k + 1]
      <3>1. a \in 0..N /\ b \in 0..N /\ N \in Nat /\ i \in 1..(b - a)
        BY <1>3, <1>4, <2>2
      <3> HIDE DEF a, b
      <3>2. a + i \in 1..N
        BY <3>1
      <3> QED BY <3>2 DEF a
    <2> QED BY <2>1, <2>3 DEF Case
  <1> QED BY <1>4, <1>5, <1>6

----------------------------------------------------------------------------
(* Means *)

Score == Nat \cup {None}

LEMMA RoundedIsAScore ==
  /\ \A x \in Score : Rounded(x) \in Score /\ (Rounded(x) = None <=> x = None)
  /\ None \notin Nat /\ None \in Int
  BY DEF Score, Rounded, None, Digit

\* A mean is of numbers, and there is one as soon as there is a number.
LEMMA AverageIsAScore ==
  ASSUME NEW values, IsFiniteSet(DOMAIN values), \A x \in DOMAIN values : values[x] \in Score
  PROVE  /\ Average(values) \in Score
         /\ (\E x \in DOMAIN values : values[x] # None) => Average(values) # None
  <1> DEFINE known == {x \in DOMAIN values : values[x] # None}
             sum == SumFunctionOnSet(values, known)
             count == Cardinality(known)
  <1>1. CASE known = {}
    <2>1. Average(values) = None
      BY <1>1 DEF Average
    <2> QED BY <1>1, <2>1 DEF Score
  <1>2. CASE known # {}
    <2>1. IsFiniteSet(known)
      BY FS_Subset
    <2>2. \A x \in known : values[x] \in Nat
      BY DEF Score
    <2>3. Average(values) = sum \div count
      BY <1>2 DEF Average
    <2>4. count \in Nat \ {0}
      <3> HIDE DEF known
      <3> QED BY <1>2, <2>1, FS_CardinalityType, FS_EmptySet
    <2>5. sum \in Nat
      <3> HIDE DEF known
      <3> QED BY <2>1, <2>2, SumIsANumber
    <2>6. sum \div count \in Nat
      <3> HIDE DEF sum, count
      <3> QED BY <2>4, <2>5
    <2> QED BY <2>3, <2>6, RoundedIsAScore DEF Score
  <1> QED BY <1>1, <1>2

----------------------------------------------------------------------------
(* Rows *)

Judges == Verdicts \cup {Unavailable}
Run == [Case -> Answers]

\* The row of a case in a scored run: its judge is all that is open.
IsRow(row, case, run) == \E judge \in Judges : row = Row(case, run, judge)
Rows == {Row(p[1], p[2], p[3]) : p \in Case \X Answers \X Judges}

ToolsOf(case, run) == IF Failed(run) THEN 0 ELSE ToolsScore(case, run.calls)
TextOf(case, run) == IF Failed(run) THEN 0 ELSE TextScore(case, run.text)

LEMMA IsRowIsARow ==
  ASSUME NEW case \in Case, NEW run \in Answers, NEW row, IsRow(row, case, run)
  PROVE  row \in Rows
  <1>1. PICK judge \in Judges : row = Row(case, run, judge)
    BY DEF IsRow
  <1> DEFINE p == <<case, run, judge>>
  <1>2. p \in Case \X Answers \X Judges /\ row = Row(p[1], p[2], p[3])
    BY <1>1
  <1> QED BY <1>2 DEF Rows

\* Where a row has a score it is a number, and those of the tools and of the text depend on
\* the run alone.
LEMMA RowScores ==
  ASSUME setup \in Setups, NEW case \in Case, NEW run \in Answers, NEW row, IsRow(row, case, run)
  PROVE  /\ row.case = case
         /\ DOMAIN row.scores \subseteq Metrics
         /\ \A m \in DOMAIN row.scores : row.scores[m] \in Nat
         /\ "tools" \in setup.metrics => "tools" \in DOMAIN row.scores
         /\ "tools" \in DOMAIN row.scores => row.scores["tools"] = ToolsOf(case, run)
         /\ "text" \in setup.metrics =>
              ("text" \in DOMAIN row.scores <=> Failed(run) \/ setup.contains[case] # {})
         /\ "text" \in DOMAIN row.scores => row.scores["text"] = TextOf(case, run)
         /\ row.errors \subseteq Metrics
  <1>1. PICK judge \in Judges : row = Row(case, run, judge)
    BY DEF IsRow
  <1> DEFINE scored == setup.metrics \ IF Failed(run) THEN {} ELSE Unscored(case, judge)
             given == [tools |-> ToolsScore(case, run.calls), text |-> TextScore(case, run.text),
                       judge |-> judge]
             Given(m) == IF Failed(run) THEN 0 ELSE given[m]
             errors == IF ~Failed(run) /\ Judged(case, judge) = "error"
                         THEN setup.metrics \cap {"judge"} ELSE {}
  <1>2. row = [case |-> case, scores |-> [m \in scored |-> Given(m)], errors |-> errors]
    BY <1>1 DEF Row
  <1>3. row.case = case /\ row.scores = [m \in scored |-> Given(m)] /\ row.errors = errors
    BY <1>2
  <1>4. setup.metrics \subseteq Metrics /\ Verdicts \subseteq 0..One
    BY EvaluationAssumption
  <1>5. scored \subseteq Metrics /\ errors \subseteq Metrics
    BY <1>4 DEF Metrics
  <1>6. ASSUME NEW m \in scored PROVE Given(m) \in Nat
    <2>1. CASE Failed(run)
      BY <2>1
    <2>2. CASE ~Failed(run) /\ m = "tools"
      BY <2>2 DEF ToolsScore, One
    <2>3. CASE ~Failed(run) /\ m = "text"
      BY <2>3 DEF TextScore, One
    <2>4. CASE ~Failed(run) /\ m \notin {"tools", "text"}
      <3>1. m = "judge"
        BY <1>4, <2>4 DEF Metrics
      <3>2. Judged(case, judge) = "score"
        BY <2>4, <3>1 DEF Unscored
      <3>3. judge # Unavailable
        BY <3>2 DEF Judged
      <3>4. judge \in 0..One
        BY <1>4, <3>3 DEF Judges
      <3>5. One \in Nat
        BY DEF One
      <3> QED BY <2>4, <3>1, <3>4, <3>5
    <2> QED BY <2>1, <2>2, <2>3, <2>4
  <1>7. /\ "tools" \in setup.metrics => "tools" \in scored
        /\ "text" \in setup.metrics => ("text" \in scored <=> Failed(run) \/ setup.contains[case] # {})
    BY DEF Unscored
  <1>8. Given("tools") = ToolsOf(case, run) /\ Given("text") = TextOf(case, run)
    BY DEF ToolsOf, TextOf
  <1> HIDE DEF scored, Given, errors
  <1> QED BY <1>3, <1>5, <1>6, <1>7, <1>8

----------------------------------------------------------------------------
(* Types and phases *)

Count == [done : Nat, errors : Nat]
Progress == [repeat : Nat, done : Nat, overall : Nat, groups : [Groups -> Count]]

Types ==
  /\ setup \in Setups
  /\ phase \in {"infer", "score", "aggregate", "done", "failed"}
  /\ DOMAIN answers \subseteq Case /\ \A c \in DOMAIN answers : answers[c] \in Answers
  /\ progress \in Progress
  /\ runs \in Seq(Run)
  /\ reports \in Seq(Seq(Rows))

\* While the repeats run nothing is scored, and the cases that were taken have their answer.
Inferring ==
  phase = "infer" => /\ reports = <<>> /\ splits = <<>>
                     /\ progress.repeat = Len(runs) + 1 /\ progress.repeat <= setup.repeats
                     /\ 1..progress.done \subseteq DOMAIN answers

\* Scoring begins when all repeats have run; a stage that failed has scored all runs or none.
Scoring ==
  /\ phase \in {"score", "aggregate", "done"} => Len(runs) = setup.repeats
  /\ phase = "failed" => Len(runs) = setup.repeats \/ reports = <<>>
  /\ Len(reports) <= Len(runs)
  /\ splits # <<>> => phase = "score" /\ Len(reports) < Len(runs)

\* The rows of a scored run are those of its cases, in order.
Scored(rows, run) ==
  /\ Len(rows) = N
  /\ \A c \in Case : IsRow(rows[c], c, run[c])

\* A worker has scored its split from the start.
AtWork ==
  splits # <<>> =>
    /\ splits \in [DOMAIN Splits -> Seq(Rows)]
    /\ \A k \in DOMAIN splits :
         /\ Len(splits[k]) <= Len(Splits[k])
         /\ \A i \in 1..Len(splits[k]) :
              IsRow(splits[k][i], Splits[k][i], runs[Current][Splits[k][i]])

Rightly == \A r \in DOMAIN reports : Scored(reports[r], runs[r])

EvaluationInv == Types /\ Inferring /\ Scoring /\ AtWork /\ Rightly

LEMMA EvaluationInit == Init => EvaluationInv
  <1> SUFFICES ASSUME Init PROVE EvaluationInv
    OBVIOUS
  <1>1. progress \in Progress /\ progress.repeat = 1 /\ progress.done = 0
    BY DEF Init, Fresh, Counts, Progress, Count
  <1>2. runs \in Seq(Run) /\ Len(runs) = 0 /\ reports \in Seq(Seq(Rows)) /\ Len(reports) = 0
        /\ DOMAIN reports = {}
    BY DEF Init
  <1>3. DOMAIN answers = {}
    BY DEF Init
  <1>4. 1 <= setup.repeats
    BY Cases DEF Init
  <1>5. Types
    BY <1>1, <1>2, <1>3 DEF Init, Types
  <1> QED BY <1>1, <1>2, <1>4, <1>5 DEF Init, EvaluationInv, Inferring, Scoring, AtWork, Rightly

\* What the steps after the first keep: the setup, and with it all that is defined from it.
LEMMA SameCases ==
  ASSUME setup' = setup
  PROVE  /\ N' = N /\ Case' = Case /\ Run' = Run /\ Rows' = Rows /\ Splits' = Splits
         /\ \A rows, run : Scored(rows, run)' <=> Scored(rows, run)
         /\ \A row, case, run : IsRow(row, case, run)' <=> IsRow(row, case, run)
  BY DEF N, Case, Run, Rows, Splits, Scored, IsRow, Row, Judged, Unscored, ToolsScore, TextScore,
         Expected, Forbidden, Ids, Chunks

LEMMA ScoresKept ==
  ASSUME AtWork, Rightly, UNCHANGED <<setup, runs, splits, reports>>
  PROVE  AtWork' /\ Rightly'
  <1>1. Rightly'
    BY SameCases DEF Rightly
  <1>2. AtWork'
    <2>1. splits' = splits /\ runs' = runs /\ Current' = Current /\ Splits' = Splits /\ Rows' = Rows
      BY SameCases DEF Current
    <2> QED BY <2>1, SameCases DEF AtWork
  <1> QED BY <1>1, <1>2

LEMMA AnswerKeeps ==
  ASSUME EvaluationInv, NEW c \in Case, Answer(c)
  PROVE  EvaluationInv'
  <1>1. PICK run \in Answers :
          answers' = [d \in DOMAIN answers \cup {c} |-> IF d = c THEN run ELSE answers[d]]
    BY DEF Answer
  <1>2. UNCHANGED <<setup, phase, attempt, progress, runs, splits, reports, result>>
    BY DEF Answer
  <1>3. DOMAIN answers' = DOMAIN answers \cup {c} /\ \A d \in DOMAIN answers' : answers'[d] \in Answers
    BY <1>1 DEF EvaluationInv, Types
  <1>4. Types'
    BY <1>2, <1>3, SameCases DEF EvaluationInv, Types
  <1>5. Inferring' /\ Scoring'
    BY <1>2, <1>3 DEF EvaluationInv, Inferring, Scoring
  <1> QED BY <1>2, <1>4, <1>5, ScoresKept DEF EvaluationInv

LEMMA DeliverKeeps ==
  ASSUME EvaluationInv, Deliver
  PROVE  EvaluationInv'
  <1> DEFINE c == progress.done + 1
             run == answers[c]
             g == setup.group[c]
  <1>1. /\ phase = "infer" /\ c \in DOMAIN answers /\ progress' = OnCase(progress, c, run)
        /\ UNCHANGED <<setup, phase, attempt, answers, runs, splits, reports, result>>
    BY DEF Deliver
  <1>2. c \in Case /\ g \in Groups
    BY <1>1, EvaluationAssumption DEF EvaluationInv, Types, Case, N
  <1>3. progress' \in Progress /\ progress'.repeat = progress.repeat /\ progress'.done = c
    <2>1. progress \in Progress /\ c \in Nat
      BY DEF EvaluationInv, Types, Progress
    <2> DEFINE old == progress.groups[g]
               new == [done |-> old.done + 1, errors |-> old.errors + IF Failed(run) THEN 1 ELSE 0]
    <2>2. progress.groups \in [Groups -> Count] /\ old \in Count
      BY <1>2, <2>1 DEF Progress
    <2>3. new \in Count
      BY <2>2 DEF Count
    <2>4. progress' = [progress EXCEPT !.done = c, !.overall = @ + 1, !.groups[g] = new]
      BY <1>1 DEF OnCase
    <2> HIDE DEF c, run, g, old, new
    <2>5. [progress.groups EXCEPT ![g] = new] \in [Groups -> Count]
      BY <1>2, <2>2, <2>3
    <2>6. progress' = [repeat |-> progress.repeat, done |-> c, overall |-> progress.overall + 1,
                       groups |-> [progress.groups EXCEPT ![g] = new]]
      BY <2>1, <2>4 DEF Progress
    <2>7. progress.repeat \in Nat /\ progress.overall + 1 \in Nat
      BY <2>1 DEF Progress
    <2> QED BY <2>1, <2>5, <2>6, <2>7 DEF Progress
  <1>4. Types'
    BY <1>1, <1>3, SameCases DEF EvaluationInv, Types
  <1>5. Inferring'
    <2>1. 1..c \subseteq DOMAIN answers
      <3>1. 1..progress.done \subseteq DOMAIN answers /\ progress.done \in Nat
        BY <1>1 DEF EvaluationInv, Inferring, Types, Progress
      <3> QED BY <1>1, <3>1
    <2> HIDE DEF c
    <2> QED BY <1>1, <1>3, <2>1 DEF EvaluationInv, Inferring
  <1>6. Scoring'
    BY <1>1 DEF EvaluationInv, Scoring
  <1> QED BY <1>1, <1>4, <1>5, <1>6, ScoresKept DEF EvaluationInv

LEMMA EndRepeatKeeps ==
  ASSUME EvaluationInv, EndRepeat
  PROVE  EvaluationInv'
  <1> DEFINE run == [c \in Case |-> answers[c]]
  <1>1. /\ phase = "infer" /\ progress.done = N /\ DOMAIN answers' = {}
        /\ UNCHANGED <<setup, reports, result>>
    BY DEF EndRepeat
  <1>2. reports = <<>> /\ splits = <<>> /\ progress.repeat = Len(runs) + 1
        /\ progress.repeat <= setup.repeats /\ Case \subseteq DOMAIN answers
    BY <1>1 DEF EvaluationInv, Inferring, Case
  <1>3. reports' = <<>> /\ splits' = <<>> /\ Len(reports') = 0
    BY <1>1, <1>2 DEF EndRepeat
  <1>4. Rightly' /\ AtWork'
    BY <1>3 DEF Rightly, AtWork
  <1>5. runs \in Seq(Run) /\ progress \in Progress /\ setup.repeats \in Nat /\ setup \in Setups
    BY Cases DEF EvaluationInv, Types
  <1>6. run \in Run
    BY <1>2 DEF EvaluationInv, Types, Run
  <1>7. CASE AllInfrastructure
    <2>1. phase' = "failed" /\ UNCHANGED <<runs, progress, splits>>
      BY <1>7 DEF EndRepeat
    <2>2. Types'
      BY <1>1, <1>5, <2>1, SameCases DEF EvaluationInv, Types
    <2>3. Inferring' /\ Scoring'
      BY <1>3, <1>5, <2>1 DEF Inferring, Scoring
    <2> QED BY <1>4, <2>2, <2>3 DEF EvaluationInv
  <1>8. CASE ~AllInfrastructure
    <2>1. runs' = Append(runs, run)
      BY <1>8 DEF EndRepeat
    <2>2. runs' \in Seq(Run) /\ Len(runs') = Len(runs) + 1
      <3> HIDE DEF run
      <3> QED BY <1>5, <1>6, <2>1
    <2>3. CASE progress.repeat < setup.repeats
      <3>1. progress' = NextRepeat(progress) /\ phase' = "infer"
        BY <1>1, <1>8, <2>3 DEF EndRepeat
      <3>2. progress' \in Progress /\ progress'.repeat = progress.repeat + 1 /\ progress'.done = 0
        BY <1>5, <3>1 DEF NextRepeat, Fresh, Counts, Progress, Count
      <3>3. Types'
        BY <1>1, <2>2, <3>1, <3>2, SameCases DEF EvaluationInv, Types
      <3>4. 1..progress'.done = {}
        BY <3>2
      <3>5. progress.repeat \in Nat
        BY <1>5 DEF Progress
      <3>6. Inferring'
        <4>1. progress'.repeat = Len(runs') + 1 /\ progress'.repeat <= setup.repeats
          BY <1>2, <1>5, <2>2, <2>3, <3>2, <3>5
        <4> QED BY <1>1, <1>3, <3>4, <4>1 DEF Inferring
      <3>7. Scoring'
        BY <1>3, <2>2, <3>1 DEF Scoring
      <3> QED BY <1>4, <3>3, <3>6, <3>7 DEF EvaluationInv
    <2>4. CASE ~(progress.repeat < setup.repeats)
      <3>1. progress' = progress /\ phase' = "score"
        BY <1>8, <2>4 DEF EndRepeat
      <3>2. Types'
        BY <1>1, <1>5, <2>2, <3>1, SameCases DEF EvaluationInv, Types
      <3>3. Len(runs') = setup'.repeats
        <4>1. progress.repeat \in Nat
          BY <1>5 DEF Progress
        <4> QED BY <1>1, <1>2, <1>5, <2>2, <2>4, <4>1
      <3>4. Inferring' /\ Scoring'
        BY <1>3, <2>2, <3>1, <3>3 DEF Inferring, Scoring
      <3> QED BY <1>4, <3>2, <3>4 DEF EvaluationInv
    <2> QED BY <2>3, <2>4
  <1> QED BY <1>7, <1>8

LEMMA RetryInferKeeps ==
  ASSUME EvaluationInv, RetryInfer
  PROVE  EvaluationInv'
  <1>1. /\ phase = "failed" /\ Len(runs) < setup.repeats /\ phase' = "infer"
        /\ progress' = Fresh(1, 0) /\ runs' = <<>>
        /\ UNCHANGED <<setup, answers, splits, reports, result>>
    BY DEF RetryInfer
  <1>2. setup.repeats \in Nat \ {0} /\ Len(runs) # setup.repeats
    BY <1>1, Cases DEF EvaluationInv, Types
  <1>3. reports' = <<>> /\ splits' = <<>> /\ Len(reports') = 0 /\ Len(runs') = 0
    BY <1>1, <1>2 DEF EvaluationInv, Scoring
  <1>4. progress' \in Progress /\ progress'.repeat = 1 /\ progress'.done = 0
    BY <1>1 DEF Fresh, Counts, Progress, Count
  <1>5. runs' \in Seq(Run)
    BY <1>1
  <1>6. Types'
    BY <1>1, <1>4, <1>5, SameCases DEF EvaluationInv, Types
  <1>7. Inferring' /\ Scoring'
    BY <1>1, <1>2, <1>3, <1>4 DEF Inferring, Scoring
  <1>8. Rightly' /\ AtWork'
    BY <1>3 DEF Rightly, AtWork
  <1> QED BY <1>6, <1>7, <1>8 DEF EvaluationInv

LEMMA StartScoringKeeps ==
  ASSUME EvaluationInv, StartScoring
  PROVE  EvaluationInv'
  <1>1. /\ phase = "score" /\ Current <= Len(runs) /\ splits' = [k \in DOMAIN Splits |-> <<>>]
        /\ UNCHANGED <<setup, phase, attempt, answers, progress, runs, reports, result>>
    BY DEF StartScoring
  <1>2. Types'
    BY <1>1, SameCases DEF EvaluationInv, Types
  <1>3. Len(reports) \in Nat /\ Len(runs) \in Nat
    BY DEF EvaluationInv, Types
  <1>4. Inferring' /\ Scoring'
    BY <1>1, <1>3 DEF EvaluationInv, Inferring, Scoring, Current
  <1>5. Rightly'
    BY <1>1, SameCases DEF EvaluationInv, Rightly
  <1>6. AtWork'
    <2>1. Splits' = Splits /\ DOMAIN splits' = DOMAIN Splits /\ Rows' = Rows
      BY <1>1, SameCases
    <2>2. ASSUME NEW k \in DOMAIN Splits
          PROVE  splits'[k] = <<>> /\ Len(splits'[k]) <= Len(Splits[k]) /\ 1..Len(splits'[k]) = {}
      <3>1. splits'[k] = <<>> /\ Len(splits'[k]) = 0
        BY <1>1
      <3> QED BY <1>1, <3>1, SplitsAreOfCases DEF EvaluationInv, Types
    <2>3. splits' \in [DOMAIN Splits -> Seq(Rows)]
      BY <1>1
    <2> QED BY <2>1, <2>2, <2>3 DEF AtWork
  <1> QED BY <1>2, <1>4, <1>5, <1>6 DEF EvaluationInv

LEMMA ScoreCaseKeeps ==
  ASSUME EvaluationInv, NEW k \in DOMAIN splits, ScoreCase(k)
  PROVE  EvaluationInv'
  <1> DEFINE n == Len(splits[k]) + 1
             case == Splits[k][n]
             run == runs[Current][case]
  <1>1. /\ phase = "score" /\ Len(splits[k]) < Len(Splits[k])
        /\ UNCHANGED <<setup, phase, attempt, answers, progress, runs, reports, result>>
    BY DEF ScoreCase
  <1>2. PICK judge \in Judges : splits' = [splits EXCEPT ![k] = Append(@, Row(case, run, judge))]
    BY DEF ScoreCase, Judges
  <1> DEFINE row == Row(case, run, judge)
  <1>3. splits # <<>>
    OBVIOUS
  <1>4. DOMAIN splits = DOMAIN Splits /\ splits[k] \in Seq(Rows) /\ Len(splits[k]) \in Nat
        /\ Len(reports) < Len(runs)
    BY <1>3 DEF EvaluationInv, AtWork, Scoring
  <1>5. n \in 1..Len(Splits[k]) /\ case \in Case
    <2>1. /\ Len(Splits[k]) \in Nat
          /\ \A i \in 1..Len(Splits[k]) : Splits[k][i] \in Case
      BY <1>4, SplitsAreOfCases DEF EvaluationInv, Types
    <2>2. n \in 1..Len(Splits[k])
      BY <1>1, <1>4, <2>1
    <2> QED BY <2>1, <2>2
  <1>6. run \in Answers
    <2>1. Current \in DOMAIN runs /\ runs \in Seq(Run)
      BY <1>4 DEF EvaluationInv, Types, Current
    <2>2. runs[Current] \in Run
      BY <2>1
    <2> HIDE DEF case
    <2> QED BY <1>5, <2>2 DEF Run
  <1> HIDE DEF case, run
  <1>7. IsRow(row, case, run) /\ row \in Rows
    BY <1>5, <1>6, IsRowIsARow DEF IsRow
  <1> HIDE DEF row
  <1>8. Types' /\ Inferring'
    BY <1>1, SameCases DEF EvaluationInv, Types, Inferring
  <1>9. splits' # <<>> => phase' = "score" /\ Len(reports') < Len(runs')
    BY <1>1, <1>4
  <1>10. Scoring'
    BY <1>1, <1>9 DEF EvaluationInv, Scoring
  <1>11. Rightly'
    BY <1>1, SameCases DEF EvaluationInv, Rightly
  <1>12. splits' = [splits EXCEPT ![k] = Append(splits[k], row)]
    BY <1>2 DEF row
  <1>13. AtWork'
    <2>1. runs' = runs /\ Current' = Current /\ Splits' = Splits /\ Rows' = Rows
      BY <1>1, SameCases DEF Current
    <2>2. splits' \in [DOMAIN Splits -> Seq(Rows)]
      <3>1. splits \in [DOMAIN Splits -> Seq(Rows)]
        BY <1>3 DEF EvaluationInv, AtWork
      <3>2. Append(splits[k], row) \in Seq(Rows)
        BY <1>4, <1>7
      <3> QED BY <1>4, <1>12, <3>1, <3>2
    <2>3. ASSUME NEW l \in DOMAIN Splits
          PROVE  /\ splits'[l] \in Seq(Rows) /\ Len(splits'[l]) <= Len(Splits[l])
                 /\ \A i \in 1..Len(splits'[l]) :
                      IsRow(splits'[l][i], Splits[l][i], runs[Current][Splits[l][i]])
      <3>1. CASE l # k
        <4>1. splits'[l] = splits[l]
          BY <1>4, <1>12, <3>1
        <4> QED BY <1>3, <1>4, <4>1 DEF EvaluationInv, AtWork
      <3>2. CASE l = k
        <4>1. splits'[l] = Append(splits[k], row)
          BY <1>4, <1>12, <3>2
        <4>2. splits'[l] \in Seq(Rows) /\ Len(splits'[l]) = n
          BY <1>4, <1>7, <4>1
        <4>3. ASSUME NEW i \in 1..n
              PROVE  IsRow(splits'[l][i], Splits[l][i], runs[Current][Splits[l][i]])
          <5>1. CASE i = n
            <6>1. splits'[l][i] = row
              BY <1>4, <4>1, <5>1
            <6> QED BY <1>7, <3>2, <5>1, <6>1 DEF case, run
          <5>2. CASE i # n
            <6>1. i \in 1..Len(splits[k]) /\ splits'[l][i] = splits[k][i]
              BY <1>4, <4>1, <5>2
            <6>2. IsRow(splits[k][i], Splits[k][i], runs[Current][Splits[k][i]])
              BY <1>3, <6>1 DEF EvaluationInv, AtWork
            <6> QED BY <3>2, <6>1, <6>2
          <5> QED BY <5>1, <5>2
        <4>4. Len(splits'[l]) <= Len(Splits[l])
          BY <1>5, <3>2, <4>2
        <4> QED BY <4>2, <4>3, <4>4
      <3> QED BY <3>1, <3>2
    <2>4. \A r, c, run0 : IsRow(r, c, run0)' <=> IsRow(r, c, run0)
      BY <1>1, SameCases
    <2> QED BY <2>1, <2>2, <2>3, <2>4 DEF AtWork
  <1> QED BY <1>8, <1>10, <1>11, <1>13 DEF EvaluationInv

LEMMA EndRunKeeps ==
  ASSUME EvaluationInv, EndRun
  PROVE  EvaluationInv'
  <1> DEFINE rows == FlattenSeq(splits)
  <1>1. /\ phase = "score" /\ splits # <<>>
        /\ \A k \in DOMAIN splits : Len(splits[k]) = Len(Splits[k])
        /\ reports' = Append(reports, rows) /\ splits' = <<>>
        /\ UNCHANGED <<setup, phase, attempt, answers, progress, runs, result>>
    BY DEF EndRun
  <1>2. DOMAIN splits = DOMAIN Splits /\ Len(reports) < Len(runs)
        /\ splits \in [DOMAIN Splits -> Seq(Rows)]
    BY <1>1 DEF EvaluationInv, AtWork, Scoring
  <1>3. PICK K \in Nat \ {0} : \E off : SplitsFollow(K, off)
    BY SplitsCover DEF EvaluationInv, Types
  <1>4. PICK off : SplitsFollow(K, off)
    BY <1>3
  <1>5. /\ DOMAIN splits = 1..K /\ Offsets(off, K, N)
        /\ \A k \in 1..K : Len(splits[k]) = off[k + 1] - off[k]
    BY <1>1, <1>2, <1>4 DEF SplitsFollow
  <1>6. N \in Nat
    BY Cases DEF EvaluationInv, Types
  <1>7. /\ rows \in Seq(Rows) /\ Len(rows) = N
        /\ \A j \in 1..N : \E k \in 1..K : \E i \in 1..Len(splits[k]) :
             j = off[k] + i /\ rows[j] = splits[k][i]
    <2>1. splits \in [1..K -> Seq(Rows)]
      BY <1>2, <1>5
    <2>2. rows \in Seq(Rows) /\ Joined(rows, K, splits, off)
      BY <1>5, <1>6, <2>1, FlattenJoins
    <2>3. off[K + 1] = N
      BY <1>5 DEF Offsets
    <2> QED BY <2>2, <2>3, Zenon DEF Joined
  <1> HIDE DEF rows
  <1>8. ASSUME NEW c \in Case PROVE IsRow(rows[c], c, runs[Current][c])
    <2>1. PICK k \in 1..K : \E i \in 1..Len(splits[k]) : c = off[k] + i /\ rows[c] = splits[k][i]
      BY <1>7 DEF Case
    <2>2. PICK i \in 1..Len(splits[k]) : c = off[k] + i /\ rows[c] = splits[k][i]
      BY <2>1
    <2>3. Splits[k][i] = c
      BY <1>1, <1>4, <1>5, <2>2 DEF SplitsFollow
    <2>4. IsRow(splits[k][i], Splits[k][i], runs[Current][Splits[k][i]])
      BY <1>1, <1>5 DEF EvaluationInv, AtWork
    <2> QED BY <2>2, <2>3, <2>4
  <1>9. Scored(rows, runs[Current])
    BY <1>7, <1>8 DEF Scored
  <1>10. reports' \in Seq(Seq(Rows)) /\ Len(reports') = Current /\ Len(reports) \in Nat
         /\ Len(runs) \in Nat
    BY <1>1, <1>7 DEF EvaluationInv, Types, Current
  <1>11. Types'
    BY <1>1, <1>10, SameCases DEF EvaluationInv, Types
  <1>12. Inferring' /\ Scoring'
    BY <1>1, <1>2, <1>10 DEF EvaluationInv, Inferring, Scoring, Current
  <1>13. AtWork'
    BY <1>1 DEF AtWork
  <1>14. Rightly'
    <2>1. ASSUME NEW r \in DOMAIN reports' PROVE Scored(reports'[r], runs[r])
      <3>1. CASE r = Current
        <4>1. reports'[r] = rows
          BY <1>1, <1>10, <3>1 DEF EvaluationInv, Types, Current
        <4> QED BY <1>9, <3>1, <4>1
      <3>2. CASE r # Current
        <4>1. r \in DOMAIN reports /\ reports'[r] = reports[r]
          BY <1>1, <1>10, <3>2 DEF EvaluationInv, Types, Current
        <4> QED BY <4>1 DEF EvaluationInv, Rightly
      <3> QED BY <3>1, <3>2
    <2> QED BY <1>1, <2>1, SameCases DEF Rightly
  <1> QED BY <1>11, <1>12, <1>13, <1>14 DEF EvaluationInv

LEMMA LaterKeeps ==
  ASSUME EvaluationInv, EndScoring \/ RetryScore \/ Aggregate \/ UNCHANGED vars
  PROVE  EvaluationInv'
  <1>1. CASE EndScoring
    <2>1. /\ phase = "score" /\ Len(reports) = Len(runs) /\ phase' \in {"failed", "aggregate"}
          /\ UNCHANGED <<setup, attempt, answers, progress, runs, splits, reports, result>>
      BY <1>1 DEF EndScoring
    <2>2. Types'
      BY <2>1, SameCases DEF EvaluationInv, Types
    <2>3. Len(runs) \in Nat /\ splits = <<>>
      BY <2>1 DEF EvaluationInv, Types, Scoring
    <2>4. Inferring' /\ Scoring'
      BY <2>1, <2>3 DEF EvaluationInv, Inferring, Scoring
    <2> QED BY <2>1, <2>2, <2>4, ScoresKept DEF EvaluationInv
  <1>2. CASE RetryScore
    <2>1. /\ phase = "failed" /\ Len(runs) = setup.repeats /\ phase' = "score" /\ reports' = <<>>
          /\ UNCHANGED <<setup, answers, progress, runs, splits, result>>
      BY <1>2 DEF RetryScore
    <2>2. splits' = <<>> /\ Len(reports') = 0 /\ reports' \in Seq(Seq(Rows)) /\ Len(runs) \in Nat
      BY <2>1 DEF EvaluationInv, Types, Scoring
    <2>3. Types'
      BY <2>1, <2>2, SameCases DEF EvaluationInv, Types
    <2>4. Inferring' /\ Scoring' /\ AtWork'
      BY <2>1, <2>2 DEF Inferring, Scoring, AtWork
    <2>5. Rightly'
      BY <2>1 DEF Rightly
    <2> QED BY <2>3, <2>4, <2>5 DEF EvaluationInv
  <1>3. CASE Aggregate
    <2>1. /\ phase = "aggregate" /\ phase' = "done"
          /\ UNCHANGED <<setup, attempt, answers, progress, runs, splits, reports>>
      BY <1>3 DEF Aggregate
    <2>2. Types'
      BY <2>1, SameCases DEF EvaluationInv, Types
    <2>3. Inferring' /\ Scoring'
      BY <2>1 DEF EvaluationInv, Inferring, Scoring
    <2> QED BY <2>1, <2>2, <2>3, ScoresKept DEF EvaluationInv
  <1>4. CASE UNCHANGED vars
    <2>1. Types'
      BY <1>4, SameCases DEF EvaluationInv, Types, vars
    <2>2. Inferring' /\ Scoring'
      BY <1>4 DEF EvaluationInv, Inferring, Scoring, vars
    <2> QED BY <1>4, <2>1, <2>2, ScoresKept DEF EvaluationInv, vars
  <1> QED BY <1>1, <1>2, <1>3, <1>4

LEMMA EvaluationInvariant == Spec => []EvaluationInv
  <1>1. ASSUME EvaluationInv, [Next]_vars PROVE EvaluationInv'
    BY <1>1, AnswerKeeps, DeliverKeeps, EndRepeatKeeps, RetryInferKeeps, StartScoringKeeps,
       ScoreCaseKeeps, EndRunKeeps, LaterKeeps DEF Next
  <1> QED BY <1>1, EvaluationInit, PTL DEF Spec

----------------------------------------------------------------------------
(* Scores *)

\* "The report is identical to a sequential scoring pass" (evaluators.py), for every number of
\* workers and of cases: the chunks cover the run, and joined in order they are the run.
THEOREM ScoredAsInSequence == Spec => []SameAsSequential
  <1>1. ASSUME EvaluationInv PROVE SameAsSequential
    <2> DEFINE Own(r, c) ==
                 /\ reports[r][c].case = c
                 /\ "tools" \in setup.metrics =>
                      reports[r][c].scores["tools"] = ToolsOf(c, runs[r][c])
                 /\ "text" \in setup.metrics =>
                      ("text" \in DOMAIN reports[r][c].scores <=>
                         Failed(runs[r][c]) \/ setup.contains[c] # {})
                 /\ "text" \in DOMAIN reports[r][c].scores =>
                      reports[r][c].scores["text"] = TextOf(c, runs[r][c])
    <2> SUFFICES ASSUME NEW r \in DOMAIN reports
                 PROVE  Len(reports[r]) = N /\ \A c \in Case : Own(r, c)
      BY DEF SameAsSequential, ToolsOf, TextOf
    <2>1. Scored(reports[r], runs[r])
      BY <1>1 DEF EvaluationInv, Rightly
    <2>2. r \in DOMAIN runs
      BY <1>1 DEF EvaluationInv, Types, Scoring
    <2>3. runs[r] \in Run
      BY <1>1, <2>2 DEF EvaluationInv, Types
    <2>4. ASSUME NEW c \in Case PROVE Own(r, c)
      <3>1. runs[r][c] \in Answers /\ IsRow(reports[r][c], c, runs[r][c])
        BY <2>1, <2>3 DEF Scored, Run
      <3> QED BY <1>1, <3>1, RowScores DEF EvaluationInv, Types
    <2> QED BY <2>1, <2>4 DEF Scored
  <1> QED BY <1>1, EvaluationInvariant, PTL

\* The ordered search of expected_tools (evaluators.py) passes exactly the answers that hold the
\* expected calls as an ordered subset: one walk that takes the first match is enough.
THEOREM OneWalkIsEnough == Spec => []OrderedSubset
  <1>1. ASSUME EvaluationInv PROVE OrderedSubset
    <2> SUFFICES ASSUME NEW r \in DOMAIN reports, NEW n \in DOMAIN reports[r],
                        ~Failed(runs[r][reports[r][n].case]), "tools" \in setup.metrics
                 PROVE  reports[r][n].scores["tools"] = One <=>
                          /\ Embeds(Expected(reports[r][n].case), runs[r][reports[r][n].case].calls)
                          /\ Names(runs[r][reports[r][n].case].calls) \cap Forbidden = {}
      BY DEF OrderedSubset
    <2> DEFINE run == runs[r][n]
    <2>1. Scored(reports[r], runs[r])
      BY <1>1 DEF EvaluationInv, Rightly
    <2>2. r \in DOMAIN runs /\ reports[r] \in Seq(Rows)
      BY <1>1 DEF EvaluationInv, Types, Scoring
    <2>3. runs[r] \in Run /\ n \in Case
      BY <1>1, <2>1, <2>2 DEF EvaluationInv, Types, Scored, Case
    <2>4. run \in Answers /\ IsRow(reports[r][n], n, run)
      BY <2>1, <2>3 DEF Scored, Run
    <2>5. reports[r][n].case = n /\ reports[r][n].scores["tools"] = ToolsOf(n, run)
      BY <1>1, <2>3, <2>4, RowScores DEF EvaluationInv, Types
    <2>6. ~Failed(run)
      BY <2>5
    <2>7. run.calls \in Seq(ToolCalls)
      <3>1. run \in {[error |-> "none", calls |-> a.calls, text |-> a.text] : a \in Replies}
        BY <2>4, <2>6 DEF Answers, Failed
      <3>2. PICK a \in Replies : run = [error |-> "none", calls |-> a.calls, text |-> a.text]
        BY <3>1
      <3>3. run.calls = a.calls
        BY <3>2
      <3> QED BY <3>3, EvaluationAssumption
    <2>8. Expected(n) \in Seq(ToolCalls)
      BY <1>1, <2>3, EvaluationAssumption DEF EvaluationInv, Types, Expected, Case, N
    <2>9. Matched(Expected(n), run.calls) = Len(Expected(n)) <=> Embeds(Expected(n), run.calls)
      BY <2>7, <2>8, MatchedMeansEmbedded
    <2>10. ToolsOf(n, run) = One <=>
             Matched(Expected(n), run.calls) = Len(Expected(n)) /\ Names(run.calls) \cap Forbidden = {}
      BY <2>6 DEF ToolsOf, ToolsScore, One
    <2> QED BY <2>5, <2>9, <2>10
  <1> QED BY <1>1, EvaluationInvariant, PTL

----------------------------------------------------------------------------
(* Aggregation *)

\* The row of a case is found where its place among the cases says.
LEMMA RowOfACase ==
  ASSUME EvaluationInv, NEW r \in DOMAIN reports, NEW c \in Case
  PROVE  /\ r \in DOMAIN runs /\ runs[r][c] \in Answers
         /\ RowOf(r, c) = reports[r][c] /\ IsRow(RowOf(r, c), c, runs[r][c])
  <1>1. Scored(reports[r], runs[r]) /\ reports[r] \in Seq(Rows) /\ r \in DOMAIN runs
    BY DEF EvaluationInv, Rightly, Types, Scoring
  <1>2. runs[r] \in Run
    BY <1>1 DEF EvaluationInv, Types
  <1>3. ASSUME NEW d \in Case PROVE runs[r][d] \in Answers /\ reports[r][d].case = d
    <2>1. runs[r][d] \in Answers /\ IsRow(reports[r][d], d, runs[r][d])
      BY <1>1, <1>2 DEF Scored, Run
    <2> QED BY <2>1, RowScores DEF EvaluationInv, Types
  <1>4. DOMAIN reports[r] = Case
    BY <1>1 DEF Scored, Case
  <1>5. (CHOOSE n \in DOMAIN reports[r] : reports[r][n].case = c) = c
    BY <1>3, <1>4
  <1>6. RowOf(r, c) = reports[r][c]
    BY <1>5 DEF RowOf
  <1> QED BY <1>1, <1>3, <1>6 DEF Scored

LEMMA FinitelyMany ==
  ASSUME EvaluationInv
  PROVE  /\ \A S \in SUBSET Case : IsFiniteSet(S)
         /\ \A S \in SUBSET Metrics : IsFiniteSet(S)
         /\ \A S \in SUBSET DOMAIN reports : IsFiniteSet(S)
         /\ IsFiniteSet(DOMAIN runs)
  <1>1. N \in Int /\ Len(reports) \in Int /\ Len(runs) \in Int
        /\ DOMAIN reports = 1..Len(reports) /\ DOMAIN runs = 1..Len(runs)
    BY Cases DEF EvaluationInv, Types
  <1>2. IsFiniteSet(1..N) /\ IsFiniteSet(1..Len(reports)) /\ IsFiniteSet(1..Len(runs))
    BY <1>1, FS_Interval
  <1>3. IsFiniteSet(({"tools"} \cup {"text"}) \cup {"judge"})
    BY FS_Singleton, FS_AddElement
  <1>4. Metrics = ({"tools"} \cup {"text"}) \cup {"judge"}
    BY DEF Metrics
  <1>5. IsFiniteSet(Case) /\ IsFiniteSet(Metrics) /\ IsFiniteSet(DOMAIN reports)
    BY <1>1, <1>2, <1>3, <1>4 DEF Case
  <1> QED BY <1>1, <1>2, <1>5, FS_Subset

LEMMA ScoresAreNumbers ==
  ASSUME EvaluationInv, NEW c \in Case, NEW m
  PROVE  /\ IsFiniteSet(DOMAIN Scores(c, m)) /\ DOMAIN Scores(c, m) \subseteq DOMAIN reports
         /\ Scores(c, m) \in [DOMAIN Scores(c, m) -> Nat]
         /\ \A r \in DOMAIN Scores(c, m) : /\ m \in DOMAIN RowOf(r, c).scores
                                           /\ Scores(c, m)[r] = RowOf(r, c).scores[m]
  <1> DEFINE S == {q \in DOMAIN reports : m \in DOMAIN RowOf(q, c).scores}
  <1>1. Scores(c, m) = [r \in S |-> RowOf(r, c).scores[m]]
    BY DEF Scores
  <1>2. S \in SUBSET DOMAIN reports
    OBVIOUS
  <1>3. IsFiniteSet(S)
    BY <1>2, FinitelyMany
  <1>4. ASSUME NEW r \in S PROVE RowOf(r, c).scores[m] \in Nat
    BY RowOfACase, RowScores DEF EvaluationInv, Types
  <1> QED BY <1>1, <1>3, <1>4

LEMMA MeansAreScores ==
  ASSUME EvaluationInv
  PROVE  /\ \A c \in Case, m \in Metrics : Average(Scores(c, m)) \in Score
         /\ \A cases \in SUBSET Case, m \in Metrics : Rate(cases, m) \in Score
  <1>1. ASSUME NEW c \in Case, NEW m \in Metrics PROVE Average(Scores(c, m)) \in Score
    <2>1. \A r \in DOMAIN Scores(c, m) : Scores(c, m)[r] \in Score
      BY ScoresAreNumbers DEF Score
    <2>2. IsFiniteSet(DOMAIN Scores(c, m))
      BY ScoresAreNumbers
    <2> QED BY <2>1, <2>2, AverageIsAScore
  <1>2. ASSUME NEW cases \in SUBSET Case, NEW m \in Metrics PROVE Rate(cases, m) \in Score
    <2> DEFINE means == [c \in cases |-> Average(Scores(c, m))]
    <2>1. IsFiniteSet(DOMAIN means)
      BY FinitelyMany
    <2>2. \A c \in DOMAIN means : means[c] \in Score
      BY <1>1
    <2>3. Rate(cases, m) = Average(means)
      BY DEF Rate
    <2> HIDE DEF means
    <2> QED BY <2>1, <2>2, <2>3, AverageIsAScore
  <1> QED BY <1>1, <1>2

\* What passes has no reason to fail: of metrics that all passed there is an overall score.
LEMMA ReasonsAreWhy ==
  ASSUME EvaluationInv
  PROVE  Verdict = "fail" <=> Reasons # {}
  <1> DEFINE rates == [m \in Seen |-> Rate(Case, m)]
  <1>1. Seen \in SUBSET Metrics /\ DOMAIN rates = Seen
    BY DEF Seen
  <1>2. \A m \in DOMAIN rates : rates[m] \in Score
    BY <1>1, MeansAreScores
  <1>3. Unrounded = Average(rates)
    BY DEF Unrounded
  <1>4. IsFiniteSet(DOMAIN rates)
    BY <1>1, FinitelyMany
  <1>5. Unrounded \in Score /\ ((\E m \in Seen : rates[m] # None) => Unrounded # None)
    <2> HIDE DEF rates
    <2> QED BY <1>1, <1>2, <1>3, <1>4, AverageIsAScore
  <1>6. Overall \in Score /\ (Overall = None <=> Unrounded = None)
    BY <1>5, RoundedIsAScore DEF Overall
  <1>7. ASSUME Seen # {}, \A m \in Seen : Passed(m) PROVE Overall # None
    <2>1. \E m \in Seen : rates[m] # None
      BY <1>7 DEF Passed
    <2> QED BY <1>5, <1>6, <2>1
  <1>8. setup.overallPass \in Int /\ Overall \in Int
    <2>1. One \in Nat
      BY DEF One
    <2> QED BY <1>6, <2>1, EvaluationAssumption, RoundedIsAScore DEF EvaluationInv, Types, Score
  <1>9. Overall >= setup.overallPass <=> ~(Overall < setup.overallPass)
    BY <1>8
  <1>10. Reasons = {} <=>
           /\ Seen # {} /\ {x \in Seen : ~Passed(x)} = {} /\ WeakSlices = {}
           /\ ~(Overall # None /\ Overall < setup.overallPass)
    BY DEF Reasons
  <1>11. Verdict = "fail" <=>
           ~(/\ Seen # {} /\ \A m \in Seen : Passed(m)
             /\ WeakSlices = {}
             /\ Overall # None /\ Overall >= setup.overallPass)
    BY DEF Verdict
  <1> QED BY <1>7, <1>9, <1>10, <1>11

\* A run that is judged a failure says why, and one that says why is judged a failure
\* (aggregate.py computes the verdict and its reasons apart), whatever is rounded, unstable,
\* skipped or in error.
THEOREM FailuresAreExplained == Spec => []ReasonsExplain
  <1>1. Init => ReasonsExplain
    BY DEF Init, ReasonsExplain
  <1>2. ASSUME EvaluationInv, ReasonsExplain, [Next]_vars PROVE ReasonsExplain'
    <2>1. CASE Aggregate
      <3>1. result'.verdict = Verdict /\ result'.reasons = Reasons
        BY <2>1 DEF Aggregate
      <3> QED BY <1>2, <3>1, ReasonsAreWhy DEF ReasonsExplain
    <2>2. CASE ~Aggregate
      <3>1. phase' # "done" \/ UNCHANGED <<phase, result>>
        BY <1>2, <2>2 DEF Next, vars, Answer, Deliver, EndRepeat, RetryInfer, StartScoring,
                          ScoreCase, EndRun, EndScoring, RetryScore
      <3> QED BY <1>2, <3>1 DEF ReasonsExplain
    <2> QED BY <2>1, <2>2
  <1> QED BY <1>1, <1>2, EvaluationInvariant, PTL DEF Spec

\* A function on a finite set has two values when it differs at two places.
LEMMA TwoValues ==
  ASSUME NEW A, IsFiniteSet(A), NEW B, NEW f \in [A -> B]
  PROVE  Cardinality(Range(f)) > 1 <=> \E x, y \in A : f[x] # f[y]
  <1> DEFINE S == Range(f)
  <1>1. \A v : v \in S <=> \E x \in A : v = f[x]
    BY DEF Range
  <1>2. f \in Surjection(A, S)
    <2>1. f \in [A -> S]
      BY <1>1
    <2> HIDE DEF S
    <2> QED BY <1>1, <2>1 DEF Surjection
  <1> HIDE DEF S
  <1>3. IsFiniteSet(S) /\ Cardinality(S) \in Nat
    BY <1>2, FS_Surjection, FS_CardinalityType
  <1>4. ASSUME Cardinality(S) > 1 PROVE \E x, y \in A : f[x] # f[y]
    <2>1. S # {}
      BY <1>3, <1>4, FS_EmptySet
    <2>2. PICK v \in S : TRUE
      BY <2>1
    <2>3. ASSUME S = {v} PROVE FALSE
      <3>1. Cardinality({v}) = 1
        BY FS_Singleton
      <3> QED BY <1>4, <2>3, <3>1
    <2>4. PICK w \in S : w # v
      BY <2>2, <2>3
    <2> QED BY <1>1, <2>2, <2>4
  <1>5. ASSUME NEW x \in A, NEW y \in A, f[x] # f[y] PROVE Cardinality(S) > 1
    <2>1. f[x] \in S /\ f[y] \in S
      BY <1>1
    <2>2. S # {} /\ ~(\E v : S = {v})
      BY <1>5, <2>1
    <2>3. Cardinality(S) # 0 /\ Cardinality(S) # 1
      BY <1>3, <2>2, FS_EmptySet, FS_Singleton
    <2> QED BY <1>3, <2>3
  <1> QED BY <1>4, <1>5 DEF S

LEMMA UnstableMeansDifferent ==
  ASSUME EvaluationInv, NEW c \in Case
  PROVE  c \in UnstableCases <=> \E r, q \in DOMAIN runs : \/ runs[r][c].calls # runs[q][c].calls
                                                           \/ runs[r][c].error # runs[q][c].error
  <1> DEFINE f == [r \in DOMAIN runs |-> Trajectory(runs[r][c])]
  <1>1. Trajectories(c) = Range(f)
    BY DEF Trajectories, Range
  <1>2. IsFiniteSet(DOMAIN runs) /\ f \in [DOMAIN runs -> Trajectories(c)]
    BY FinitelyMany DEF Trajectories
  <1>3. Cardinality(Range(f)) > 1 <=> \E x, y \in DOMAIN runs : f[x] # f[y]
    <2> HIDE DEF f
    <2> QED BY <1>2, TwoValues
  <1>4. \A x, y \in DOMAIN runs : f[x] # f[y] <=> \/ runs[x][c].calls # runs[y][c].calls
                                                  \/ runs[x][c].error # runs[y][c].error
    BY DEF Trajectory
  <1> QED BY <1>1, <1>3, <1>4 DEF UnstableCases

\* Who disagrees gave two scores, and who gave two scores disagrees.
LEMMA DisagreeingMeansDiffers ==
  ASSUME EvaluationInv, NEW c \in Case, NEW m \in Metrics
  PROVE  m \in Disagreeing(c) <=> Differs(c, m)
  <1> DEFINE f == Scores(c, m)
  <1>1. IsFiniteSet(DOMAIN f) /\ f \in [DOMAIN f -> Nat]
    BY ScoresAreNumbers
  <1>2. DOMAIN f = {q \in DOMAIN reports : m \in DOMAIN RowOf(q, c).scores}
    BY DEF Scores
  <1>3. \A r \in DOMAIN f : f[r] = RowOf(r, c).scores[m]
    BY ScoresAreNumbers
  <1>4. Cardinality(Range(f)) > 1 <=> \E x, y \in DOMAIN f : f[x] # f[y]
    <2> HIDE DEF f
    <2> QED BY <1>1, TwoValues
  <1> HIDE DEF f
  <1>5. (\E x, y \in DOMAIN f : f[x] # f[y]) <=> Differs(c, m)
    BY <1>2, <1>3 DEF Differs
  <1> QED BY <1>4, <1>5 DEF Disagreeing, f

\* On a stable case the tools agree, and the text's score only differs with the text.
LEMMA StableScores ==
  ASSUME EvaluationInv, NEW c \in Case, c \notin UnstableCases
  PROVE  /\ ~Differs(c, "tools")
         /\ Differs(c, "text") => \E r, q \in DOMAIN runs : runs[r][c].text # runs[q][c].text
  <1>1. \A r, q \in DOMAIN runs : runs[r][c].calls = runs[q][c].calls /\ runs[r][c].error = runs[q][c].error
    BY UnstableMeansDifferent
  <1>2. ASSUME NEW r \in DOMAIN reports
        PROVE  /\ r \in DOMAIN runs
               /\ "tools" \in DOMAIN RowOf(r, c).scores =>
                    RowOf(r, c).scores["tools"] = ToolsOf(c, runs[r][c])
               /\ "text" \in DOMAIN RowOf(r, c).scores =>
                    RowOf(r, c).scores["text"] = TextOf(c, runs[r][c])
    <2>1. r \in DOMAIN runs /\ runs[r][c] \in Answers /\ IsRow(RowOf(r, c), c, runs[r][c])
      BY RowOfACase
    <2> QED BY <2>1, RowScores DEF EvaluationInv, Types
  <1>3. ASSUME NEW r \in DOMAIN runs, NEW q \in DOMAIN runs
        PROVE  /\ ToolsOf(c, runs[r][c]) = ToolsOf(c, runs[q][c])
               /\ runs[r][c].text = runs[q][c].text => TextOf(c, runs[r][c]) = TextOf(c, runs[q][c])
    BY <1>1 DEF ToolsOf, TextOf, Failed
  <1>4. ~Differs(c, "tools")
    BY <1>2, <1>3 DEF Differs
  <1>5. Differs(c, "text") => \E r, q \in DOMAIN runs : runs[r][c].text # runs[q][c].text
    BY <1>2, <1>3 DEF Differs
  <1> QED BY <1>4, <1>5

\* A case is called unstable when the calls or the error of its answers differed and for no
\* other reason; of what else disagrees the judges are listed as such, and the evaluators of
\* the text under the outputs, whose text then did differ (aggregate.py:129-150).
THEOREM BlameIsTheAgents == Spec => []BlameIsRight
  <1>1. Init => BlameIsRight
    BY DEF Init, BlameIsRight
  <1>2. ASSUME EvaluationInv, BlameIsRight, [Next]_vars PROVE BlameIsRight'
    <2>1. CASE Aggregate
      <3>1. /\ result'.unstable = UnstableCases /\ result'.evaluators = Unstable(TRUE)
            /\ result'.outputs = Unstable(FALSE) /\ UNCHANGED <<setup, runs, reports>>
        BY <2>1 DEF Aggregate
      <3>2. Case' = Case /\ \A c, m : Differs(c, m)' <=> Differs(c, m)
        BY <3>1, SameCases DEF Differs, RowOf
      <3>3. \A c \in Case :
              c \in result'.unstable <=> \E r, q \in DOMAIN runs : \/ runs[r][c].calls # runs[q][c].calls
                                                                   \/ runs[r][c].error # runs[q][c].error
        BY <1>2, <3>1, UnstableMeansDifferent
      <3>4. ASSUME NEW p \in result'.evaluators
            PROVE  p[2] = "judge" /\ p[1] \notin result'.unstable
        BY <3>1 DEF Unstable
      <3>5. ASSUME NEW p \in result'.outputs
            PROVE  /\ p[2] = "text" /\ p[1] \notin result'.unstable
                   /\ \E r, q \in DOMAIN runs : runs[r][p[1]].text # runs[q][p[1]].text
        <4>1. /\ p[1] \in Case /\ p[1] \notin UnstableCases /\ p[2] \in Metrics \ {"judge"}
              /\ p[2] \in Disagreeing(p[1])
          BY <3>1 DEF Unstable
        <4>2. Differs(p[1], p[2])
          BY <1>2, <4>1, DisagreeingMeansDiffers
        <4>3. p[2] = "text"
          BY <1>2, <4>1, <4>2, StableScores DEF Metrics
        <4> QED BY <1>2, <3>1, <4>1, <4>2, <4>3, StableScores
      <3>6. ASSUME NEW c \in Case, NEW m \in Metrics, Differs(c, m)
            PROVE  c \in result'.unstable \/ <<c, m>> \in result'.evaluators \cup result'.outputs
        <4>1. m \in Disagreeing(c)
          BY <1>2, <3>6, DisagreeingMeansDiffers
        <4> QED BY <3>1, <4>1 DEF Unstable
      <3>7. runs' = runs
        BY <3>1
      <3>8. \A c \in Case' :
              c \in result'.unstable <=> \E r, q \in DOMAIN runs' : \/ runs'[r][c].calls # runs'[q][c].calls
                                                                    \/ runs'[r][c].error # runs'[q][c].error
        BY <3>2, <3>3, <3>7
      <3>9. \A p \in result'.outputs :
              /\ p[2] = "text" /\ p[1] \notin result'.unstable
              /\ \E r, q \in DOMAIN runs' : runs'[r][p[1]].text # runs'[q][p[1]].text
        BY <3>5, <3>7
      <3>10. \A c \in Case', m \in Metrics :
               Differs(c, m)' => c \in result'.unstable \/ <<c, m>> \in result'.evaluators \cup result'.outputs
        BY <3>2, <3>6
      <3> QED BY <3>4, <3>8, <3>9, <3>10 DEF BlameIsRight
    <2>2. CASE ~Aggregate
      <3>1. phase' # "done" \/ UNCHANGED <<setup, phase, runs, reports, result>>
        BY <1>2, <2>2 DEF Next, vars, Answer, Deliver, EndRepeat, RetryInfer, StartScoring,
                          ScoreCase, EndRun, EndScoring, RetryScore
      <3>2. UNCHANGED <<setup, phase, runs, reports, result>> =>
              Case' = Case /\ \A c, m : Differs(c, m)' <=> Differs(c, m)
        BY SameCases DEF Differs, RowOf
      <3> QED BY <1>2, <3>1, <3>2 DEF BlameIsRight
    <2> QED BY <2>1, <2>2
  <1> QED BY <1>1, <1>2, EvaluationInvariant, PTL DEF Spec

====
