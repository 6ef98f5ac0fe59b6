---- MODULE MCJobs ----
(* Two callers on one output directory: a UI session and a script, or two UI
   sessions; two jobs are enough for a start to race the end of a job, or another
   start. *)
EXTENDS Jobs

CONSTANTS c1, c2
TwoClients == {c1, c2}
====
