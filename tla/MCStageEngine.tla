---- MODULE MCStageEngine ----
(***************************************************************************)
(* A small pipeline for StageEngine: 1 -> 2 -> 3 with 3 also depending on  *)
(* 1, ended by an always stage 4; stage 2 is optional, retried once and    *)
(* may be skipped by the config.                                           *)
(***************************************************************************)
EXTENDS StageEngine

MCDeps == <<{}, {1}, {1, 2}, {}>>
MCRetries == <<0, 1, 0, 0>>
====
