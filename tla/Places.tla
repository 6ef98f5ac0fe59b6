---- MODULE Places ----
(***************************************************************************)
(* What the models of the generator say of lists: the order of the members *)
(* of a set, the part of a list at some of its places (a comprehension     *)
(* with a condition), and the sum of a list of numbers.                    *)
(***************************************************************************)
EXTENDS Integers, Sequences, FiniteSets

\* The members of S in the order R (a set of pairs that orders S strictly and totally).
Ranked(S, R) ==
  [k \in 1..Cardinality(S) |-> CHOOSE x \in S : Cardinality({y \in S : <<y, x>> \in R}) = k - 1]

Ascending(P) == Ranked(P, {p \in P \X P : p[1] < p[2]})

\* The elements of a list at the places P, in the list's order.
Picked(list, P) == LET places == Ascending(P) IN [k \in DOMAIN places |-> list[places[k]]]

SumOf(numbers) ==
  LET first[n \in 0..Len(numbers)] == IF n = 0 THEN 0 ELSE first[n - 1] + numbers[n]
  IN  first[Len(numbers)]

====
