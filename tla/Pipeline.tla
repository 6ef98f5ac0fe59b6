---- MODULE Pipeline ----
(***************************************************************************)
(* The pipeline (pipeline/stages.py, pipeline/report.py): the stage engine *)
(* running the stages that share something outside state.json.  deploy,    *)
(* infer and teardown work on the deployment recorded in deployment.json,  *)
(* the review stage is the gate that may stop the run, and the report      *)
(* stage turns the stage statuses into a verdict.  Around a run, people    *)
(* use `evalbuilder deploy up` and `down`, and the deployed agent may die. *)
(*                                                                         *)
(* A deployment is seen here as its callers see it: the status of the      *)
(* record, and whether the agent behind it answers (module Deployment      *)
(* has the calls in detail).                                               *)
(***************************************************************************)
EXTENDS StageEngine

CONSTANTS
  Review, Deploy, Infer, Teardown, Report,   \* the stages with a part of their own
  Required,                                  \* REQUIRED_STAGES
  FromStages, UntilStages,                   \* bound: --from and --until given, 0 for none
  PeopleDeploy                               \* whether people use the deploy commands

\* What build_stages and REQUIRED_STAGES say of them.
ASSUME PipelineAssumption ==
  /\ {Review, Deploy, Infer, Teardown, Report} \subseteq Stage
  /\ Deploy \in Deps[Infer] \cap Deps[Teardown]
  /\ Infer < Teardown
  /\ Report = N /\ Report \in Always
  /\ {Review, Deploy, Infer, Teardown} \cap Always = {}
  /\ Required \subseteq Stage \ Always
  /\ {Deploy, Infer} \subseteq Required

VARIABLES
  deployment,   \* status of the record in deployment.json
  serving,      \* the recorded agent runs and answers
  byHand,       \* the agent was last brought up from the command line
  report        \* verdict in report.json: "final" is what aggregate found

dvars == <<deployment, serving, byHand>>
pvars == <<vars, deployment, serving, byHand, report>>

----
(* The calls of deploy/ *)

DeploymentIs(status, answers) == deployment' = status /\ serving' = answers

\* deploy_up, also when it reuses a healthy deployment; a failed one is recorded, unless
\* the call raised before it came to that.
DeployUp == DeploymentIs("up", TRUE)
DeployUpFails == DeploymentIs("failed", FALSE) \/ UNCHANGED <<deployment, serving>>

\* deploy_down: nothing to do without a record.
DeployDownKeepsRecord == DeploymentIs(deployment, FALSE)
DeployDown == DeploymentIs(IF deployment = "none" THEN "none" ELSE "down", FALSE)

\* PipelineContext.agent: the record says up and the agent answers.
AgentAvailable == deployment = "up" /\ serving

----
(* The verdict *)

VerdictUnlessFailed(doc) ==
  IF \A s \in Required : doc.st[s] # "failed" THEN "final" ELSE "incomplete"
\* _verdict
Verdict(doc) == IF \A s \in Required : Succeeded(doc, s) THEN "final" ELSE "incomplete"

----
(* The stage functions: one call of the engine, with what the stage does *)

Succeeds ==
  /\ CallSucceeds
  /\ \/ cur = Deploy /\ DeployUp /\ byHand' = FALSE /\ UNCHANGED report
     \/ cur = Infer /\ AgentAvailable /\ UNCHANGED <<deployment, serving, byHand, report>>
     \/ cur = Teardown /\ DeployDown /\ byHand' = FALSE /\ UNCHANGED report
     \/ cur = Report /\ report' = Verdict(mem) /\ UNCHANGED dvars
     \/ cur \notin {Deploy, Infer, Teardown, Report} /\ UNCHANGED <<deployment, serving, byHand, report>>

\* Only the review stage raises StageStop.
Stops == cur = Review /\ CallStops /\ UNCHANGED <<deployment, serving, byHand, report>>

Fails ==
  /\ CallFails
  /\ \/ cur = Deploy /\ DeployUpFails
     \/ cur # Deploy /\ UNCHANGED <<deployment, serving>>
  /\ UNCHANGED <<byHand, report>>

\* run_pipeline builds a report itself when there is none.
Returns ==
  /\ Return
  /\ report' = IF report = "none" THEN Verdict(mem) ELSE report
  /\ UNCHANGED dvars

\* The run dies; a stage function may have got anywhere, and a record cut short is none.
Dies ==
  /\ Crash
  /\ \/ UNCHANGED <<deployment, serving>>
     \/ pc = "exec" /\ ~dirty /\ cur \in {Deploy, Teardown} /\ DeploymentIs(deployment, FALSE)
     \/ pc = "exec" /\ ~dirty /\ cur \in {Deploy, Teardown} /\ DeploymentIs("none", FALSE)
     \/ pc = "exec" /\ ~dirty /\ cur = Deploy /\ (DeployUp \/ DeploymentIs("failed", FALSE))
     \/ pc = "exec" /\ ~dirty /\ cur = Teardown /\ DeployDown
  /\ byHand' = (byHand /\ UNCHANGED <<deployment, serving>>)
  /\ \/ UNCHANGED report
     \/ pc = "exec" /\ ~dirty /\ cur = Report /\ report' \in {"none", Verdict(mem)}

\* The engine's other steps touch nothing of this.
Starts == Start /\ opts'.from \in FromStages /\ opts'.until \in UntilStages
Engine ==
  /\ Starts \/ Save \/ Cached \/ Skip \/ Execute \/ After
  /\ UNCHANGED <<deployment, serving, byHand, report>>

----
(* The people and the agent *)

DeployUpByHand ==
  /\ PeopleDeploy
  /\ \/ DeployUp /\ byHand' = TRUE
     \/ DeployUpFails /\ UNCHANGED byHand
  /\ UNCHANGED <<vars, report>>

DeployDownByHand == PeopleDeploy /\ DeployDown /\ byHand' = FALSE /\ UNCHANGED <<vars, report>>

AgentDies == serving /\ serving' = FALSE /\ UNCHANGED <<vars, deployment, byHand, report>>

----

PInit == Init /\ deployment = "none" /\ serving = FALSE /\ byHand = FALSE /\ report = "none"

PNext ==
  \/ Engine \/ Succeeds \/ Stops \/ Fails \/ Returns \/ Dies
  \/ DeployUpByHand \/ DeployDownByHand \/ AgentDies

PSpec == PInit /\ [][PNext]_pvars

----
(* Properties *)

PTypeOK ==
  /\ deployment \in {"none", "up", "failed", "down"}
  /\ serving \in BOOLEAN
  /\ byHand \in BOOLEAN
  /\ report \in {"none", "incomplete", "final"}
  /\ serving => deployment = "up"

\* A run that shows the teardown as done, now or for the next --resume, has left no
\* deployment of the pipeline up, through any sequence of resumes, --from and crashes.
TeardownHolds ==
  Teardown \in Complete(mem) \cup Durable => deployment # "up" \/ byHand

\* A verdict other than incomplete is in the report of a run only when every required
\* stage is complete and none of them is older than what it depends on.
VerdictIsEarned ==
  pc = "done" /\ Succeeded(mem, Report) /\ report # "incomplete" =>
    report = "final" /\ Required \subseteq Complete(mem) \ stale

====
