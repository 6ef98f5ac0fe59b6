---- MODULE MCDeployment ----
(* A pipeline stage and a person at the CLI, who may call in any order. *)
EXTENDS Deployment, TLC

CONSTANTS stage, person
TwoActors == {stage, person}
Callers == Permutations(TwoActors)
====
