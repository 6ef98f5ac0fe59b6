---- MODULE MCPipeline ----
(* Five of the sixteen stages, in their order and with the dependencies they have on
   each other: review, deploy, infer, teardown, report. *)
EXTENDS Pipeline

MCDeps == <<{}, {1}, {2}, {2}, {}>>
MCRetries == <<0, 0, 1, 0, 0>>
====
