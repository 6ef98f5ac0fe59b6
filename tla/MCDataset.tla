---- MODULE MCDataset ----
(* Two generated cases, one of them without a mock rule for an expected call, and one
   scenario whose failure may be mined. *)
EXTENDS Dataset
====
