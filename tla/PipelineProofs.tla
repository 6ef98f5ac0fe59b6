---- MODULE PipelineProofs ----
(***************************************************************************)
(* Proofs about the stage engine, the pipeline that it runs and the        *)
(* deployments that its stages start and stop.                             *)
(*                                                                         *)
(* For every list of stages that meets the assumptions of StageEngine,     *)
(* first the engine by itself (Spec): EngineInv is inductive, the safety   *)
(* properties follow from it, and the engine implements StageLedger.  Then *)
(* the pipeline (PSpec): its steps are steps of the engine, so what is     *)
(* proved of the engine holds of it, and with that a torn down deployment  *)
(* stays down and the verdict of the report is earned.                     *)
(*                                                                         *)
(* Last the deployments (DeploySpec), for any number of callers, any       *)
(* targets and any bound on the processes spawned: types, that a record    *)
(* that says down names no running process, and, for calls that do not     *)
(* overlap, that no agent is lost and a record that says up names what     *)
(* runs.  The argument, in three invariants.  DeploymentInv: a pid is      *)
(* given out once, so the process of a record that is being marked down    *)
(* cannot come back.  ProtocolInv: which records a caller holds at each    *)
(* place of its call, and that calls that did not overlap are one at a     *)
(* time.  AccountInv: every step of a call keeps what its record held or   *)
(* takes it away, so that the save may put that record in the place of the *)
(* file.                                                                   *)
(***************************************************************************)
EXTENDS Pipeline, Deployment, TLAPS



----
(* Documents *)

\* Writing one status changes the completed stages by at most that stage.
LEMMA SetStatus ==
  ASSUME NEW doc \in Document, NEW s \in Stage, NEW status \in Status
  PROVE  LET new == [doc EXCEPT !.st[s] = status]
         IN  /\ new \in Document
             /\ new.stoppedAfter = doc.stoppedAfter
             /\ new.st[s] = status
             /\ \A t \in Stage \ {s} : new.st[t] = doc.st[t]
             /\ status \notin OkStatuses => Complete(new) = Complete(doc) \ {s}
             /\ status \in OkStatuses => Complete(new) = Complete(doc) \cup ({s} \ Always)
  <1> DEFINE new == [doc EXCEPT !.st[s] = status]
  <1>1. doc.st \in [Stage -> Status] /\ doc.stoppedAfter \in 0..N
    BY DEF Document
  <1>2. new = [st |-> [doc.st EXCEPT ![s] = status], stoppedAfter |-> doc.stoppedAfter]
    BY DEF Document
  <1>3. /\ new.st \in [Stage -> Status] /\ new.stoppedAfter = doc.stoppedAfter
        /\ new.st[s] = status
        /\ \A t \in Stage \ {s} : new.st[t] = doc.st[t]
    BY <1>1, <1>2
  <1>4. new \in Document
    BY <1>1, <1>2, <1>3 DEF Document
  <1> HIDE DEF new
  <1>5. /\ status \notin OkStatuses => Complete(new) = Complete(doc) \ {s}
        /\ status \in OkStatuses => Complete(new) = Complete(doc) \cup ({s} \ Always)
    BY <1>3 DEF Complete, Succeeded
  <1> QED BY <1>3, <1>4, <1>5 DEF new

\* The same for the runner's own state: what every mark and every finished call does.
LEMMA MarkMem ==
  ASSUME mem \in Document, cur \in Stage, NEW status \in Status,
         mem' = [mem EXCEPT !.st[cur] = status]
  PROVE  /\ mem' \in Document
         /\ mem'.stoppedAfter = mem.stoppedAfter
         /\ mem'.st[cur] = status
         /\ \A t \in Stage \ {cur} : mem'.st[t] = mem.st[t]
         /\ status \notin OkStatuses => Complete(mem)' = Complete(mem) \ {cur}
         /\ status \in OkStatuses => Complete(mem)' = Complete(mem) \cup ({cur} \ Always)
  <1>1. Complete(mem)' = Complete(mem')
    BY DEF Complete, Succeeded
  <1> QED BY <1>1, SetStatus

\* A new state has nothing complete.
LEMMA NewStateFacts ==
  NewState \in Document /\ Complete(NewState) = {} /\ \A s \in Stage : NewState.st[s] = "pending"
  BY StagesAssumption DEF NewState, Document, Status, OkStatuses, Complete, Succeeded, Stage

\* --from leaves a dependency-closed part of what was complete.
LEMMA InvalidateFacts ==
  ASSUME NEW doc \in Document, NEW from \in 0..N,
         \A s \in Complete(doc) : Deps[s] \subseteq Complete(doc)
  PROVE  /\ Invalidate(doc, from) \in Document
         /\ Complete(Invalidate(doc, from)) \subseteq Complete(doc)
         /\ \A s \in Complete(doc) :
              s \in Complete(Invalidate(doc, from)) \/ (from # 0 /\ s >= from)
         /\ \A s \in Complete(Invalidate(doc, from)) :
              Deps[s] \subseteq Complete(Invalidate(doc, from))
  <1> DEFINE st == [s \in Stage |-> IF from # 0 /\ s >= from THEN "pending" ELSE doc.st[s]]
             new == Invalidate(doc, from)
  <1>1. new = [st |-> st, stoppedAfter |-> doc.stoppedAfter]
    BY DEF Invalidate, Document
  <1>2. new \in Document /\ new.st = st
    BY <1>1 DEF Document, Status
  <1>3. Complete(new) = {s \in Complete(doc) : from = 0 \/ ~(s >= from)}
    BY <1>2 DEF Complete, Succeeded, OkStatuses
  <1>4. ASSUME NEW s \in Complete(new), NEW d \in Deps[s] PROVE d \in Complete(new)
    <2>1. s \in Stage /\ d \in Complete(doc) /\ d \in Stage /\ d < s
      BY <1>3, <1>4, DepsAssumption DEF Complete
    <2> QED BY <1>3, <2>1, StagesAssumption DEF Stage
  <1> QED BY <1>2, <1>3, <1>4
----
(* The invariant is inductive: one lemma per action *)

\* No state file and no run: the invariant holds.
LEMMA InitInv == Init => EngineInv
  <1> SUFFICES ASSUME Init PROVE EngineInv
    OBVIOUS
  <1> USE DEF Init
  <1>1. TypeOK
    <2>1. NoOptions \in Options
      <3>1. {} \in SUBSET Skippable /\ 0 \in 0..N
        BY StagesAssumption
      <3> QED BY <3>1 DEF Options, NoOptions
    <2>2. 1 \in 1..N+1 /\ 0 \in 0..N
      BY StagesAssumption
    <2> QED BY <2>1, <2>2, NewStateFacts DEF TypeOK
  <1>2. Complete(mem) = {} /\ Durable = {}
    BY NewStateFacts DEF Durable
  <1>3. DependenciesComplete /\ NoStaleResult
    BY <1>2 DEF DependenciesComplete, NoStaleResult
  <1>4. SavedInv /\ KeptInv /\ AtWorkInv
    BY DEF SavedInv, KeptInv, AtWorkInv
  <1>5. ProgressInv
    BY StagesAssumption, AlwaysAssumption DEF ProgressInv, StopIsFinal, Stage
  <1> QED BY <1>1, <1>3, <1>4, <1>5 DEF EngineInv

\* A resumed run takes over a dependency-closed part of what state.json holds, a fresh one
\* nothing; state.json stays as it is until the first save.
LEMMA StartInv == EngineInv /\ Start => EngineInv'
  <1> SUFFICES ASSUME EngineInv, Start PROVE EngineInv'
    OBVIOUS
  <1> USE DEF EngineInv
  <1>1. PICK o \in Options :
          /\ o.resume /\ file # "absent" => file = "whole"
          /\ mem' = IF o.resume /\ file = "whole" THEN Invalidate(disk, o.from) ELSE NewState
          /\ opts' = o
    BY DEF Start
  <1>2. o.from \in 0..N /\ o.resume \in BOOLEAN
    BY DEF Options
  <1>3. Durable' = Durable
    BY DEF Start, Durable, Complete, Succeeded
  <1>4. /\ mem' \in Document
        /\ Complete(mem') \subseteq Durable
        /\ \A s \in Complete(mem') : Deps[s] \subseteq Complete(mem')
        /\ ~o.resume => Complete(mem') = {}
        /\ o.resume => \A s \in Durable :
                         s \in Complete(mem') \/ (o.from # 0 /\ s >= o.from)
    <2>1. CASE o.resume /\ file = "whole"
      <3>1. Durable = Complete(disk) /\ disk \in Document
        BY <2>1 DEF Durable, TypeOK
      <3>2. \A s \in Complete(disk) : Deps[s] \subseteq Complete(disk)
        BY <3>1 DEF DependenciesComplete
      <3> QED BY <1>1, <1>2, <2>1, <3>1, <3>2, InvalidateFacts
    <2>2. CASE ~(o.resume /\ file = "whole")
      BY <1>1, <2>2, NewStateFacts DEF Durable
    <2> QED BY <2>1, <2>2
  <1>5. TypeOK'
    BY <1>1, <1>4, StagesAssumption DEF TypeOK, Start, Stage
  <1>6. DependenciesComplete' /\ NoStaleResult'
    <2>1. Complete(mem)' = Complete(mem') /\ stale' = stale
      BY DEF Start, Complete, Succeeded
    <2> QED BY <1>3, <1>4, <2>1 DEF DependenciesComplete, NoStaleResult
  <1>7. SavedInv' /\ KeptInv' /\ AtWorkInv'
    <2>1. Complete(mem)' = Complete(mem')
      BY DEF Complete, Succeeded
    <2> QED BY <1>1, <1>3, <1>4, <2>1 DEF SavedInv, KeptInv, AtWorkInv, Start
  <1>8. ProgressInv'
    <2>1. Complete(mem)' = Complete(mem')
      BY DEF Complete, Succeeded
    <2> QED BY <1>1, <1>4, <2>1, AlwaysAssumption, StagesAssumption
         DEF ProgressInv, StopIsFinal, Start, Stage
  <1> QED BY <1>5, <1>6, <1>7, <1>8

\* A save makes durable what the runner has, which is dependency-closed.
LEMMA SaveInv == EngineInv /\ Save => EngineInv'
  <1> SUFFICES ASSUME EngineInv, Save PROVE EngineInv'
    OBVIOUS
  <1> USE DEF EngineInv, Save
  <1>1. TypeOK'
    BY DEF TypeOK
  <1>2. Durable' = Complete(mem) /\ Complete(mem)' = Complete(mem)
    BY DEF Durable, Complete, Succeeded
  <1>3. DependenciesComplete' /\ NoStaleResult'
    BY <1>2 DEF DependenciesComplete, NoStaleResult
  <1>4. SavedInv' /\ KeptInv'
    BY DEF SavedInv, KeptInv
  <1>5. AtWorkInv' /\ ProgressInv'
    BY <1>2 DEF AtWorkInv, ProgressInv, StopIsFinal
  <1> QED BY <1>1, <1>3, <1>4, <1>5

\* A cached stage is complete, so the loop may count it as settled.
LEMMA CachedInv == EngineInv /\ Cached => EngineInv'
  <1> SUFFICES ASSUME EngineInv, Cached PROVE EngineInv'
    OBVIOUS
  <1> USE DEF EngineInv, Cached
  <1>1. cur \in Stage /\ pc = "loop" /\ ~dirty /\ opts.resume /\ Succeeded(mem, cur)
        /\ cur \notin Always
    BY StagesAssumption DEF AtStage, IsCached, TypeOK, Stage
  <1>2. TypeOK'
    BY <1>1, StagesAssumption DEF TypeOK, Stage
  <1>3. Durable' = Durable /\ Complete(mem)' = Complete(mem)
    BY DEF Durable, Complete, Succeeded
  <1>4. DependenciesComplete' /\ NoStaleResult' /\ SavedInv' /\ KeptInv' /\ AtWorkInv'
    BY <1>1, <1>3 DEF DependenciesComplete, NoStaleResult, SavedInv, KeptInv, AtWorkInv
  <1>5. ProgressInv'
    <2>1. mem.st[cur] \notin {"pending", "running"}
      BY <1>1 DEF Succeeded, OkStatuses
    <2> QED BY <1>1, <1>3, <2>1, AlwaysAssumption, StagesAssumption
         DEF ProgressInv, StopIsFinal, TypeOK, Stage
  <1> QED BY <1>2, <1>4, <1>5

\* At the loop's head, a stage that is not cached is not complete.
LEMMA NotCachedNotComplete ==
  ASSUME EngineInv, AtStage, ~IsCached(cur)
  PROVE  cur \notin Complete(mem)
  <1>1. CASE opts.resume
    BY <1>1 DEF IsCached, Complete
  <1>2. CASE ~opts.resume
    <2>1. \A s \in Complete(mem) : s < cur
      BY <1>2 DEF EngineInv, AtStage, ProgressInv
    <2> QED BY <2>1 DEF EngineInv, TypeOK
  <1> QED BY <1>1, <1>2

\* A skipped stage was not complete before: nothing is lost by marking it.
LEMMA SkipInv == EngineInv /\ Skip => EngineInv'
  <1> SUFFICES ASSUME EngineInv, Skip PROVE EngineInv'
    OBVIOUS
  <1> USE DEF EngineInv, Skip, NextStageMarking
  <1>1. cur \in Stage /\ pc = "loop" /\ ~dirty /\ cur \notin Always
    BY StagesAssumption DEF AtStage, TypeOK, Stage, IsSkippedByConfig, IsStopped, IsBlocked
  <1>2. cur \notin Complete(mem)
    BY NotCachedNotComplete
  <1>3. /\ mem' \in Document
        /\ mem'.st[cur] = "skipped"
        /\ \A t \in Stage \ {cur} : mem'.st[t] = mem.st[t]
        /\ Complete(mem)' = Complete(mem)
    <2>1. "skipped" \in Status \ OkStatuses
      BY DEF Status, OkStatuses
    <2>2. mem' = [mem EXCEPT !.st[cur] = "skipped"] /\ mem \in Document
      BY DEF TypeOK
    <2> QED BY <1>1, <1>2, <2>1, <2>2, MarkMem
  <1>4. TypeOK'
    BY <1>1, <1>3, StagesAssumption DEF TypeOK, Stage
  <1>5. Durable' = Durable
    BY DEF Durable, Complete, Succeeded
  <1>6. DependenciesComplete' /\ NoStaleResult'
    BY <1>3, <1>5 DEF DependenciesComplete, NoStaleResult
  <1>7. SavedInv' /\ KeptInv' /\ AtWorkInv'
    <2>1. Durable = Complete(mem)
      BY <1>1 DEF SavedInv, Durable, Complete, Succeeded
    <2> QED BY <1>1, <1>3, <1>5, <2>1 DEF SavedInv, KeptInv, AtWorkInv
  <1>8. ProgressInv'
    <2>1. /\ cur \in Nat /\ N \in Nat /\ cur' = cur + 1 /\ cur # N + 1
          /\ UNCHANGED <<pc, opts, stopped, ran>>
      BY <1>1, StagesAssumption DEF Stage
    <2>2. \A s \in Stage : s < cur' => mem'.st[s] \notin {"pending", "running"}
      <3>1. \A s \in Stage : s < cur' => s = cur \/ s < cur
        BY <2>1 DEF Stage
      <3> QED BY <1>1, <1>3, <3>1 DEF ProgressInv
    <2>3. \A s \in Always : s < cur' => s \in ran'
      <3>1. \A s \in Always : s < cur' => s < cur
        BY <1>1, <2>1, AlwaysAssumption DEF Stage
      <3> QED BY <2>1, <3>1 DEF ProgressInv
    <2>4. \A s \in ran' : s <= cur'
      BY <2>1 DEF ProgressInv, TypeOK, Stage
    <2>5. ~opts'.resume => \A s \in Complete(mem)' : s < cur'
      BY <1>1, <1>3, <2>1 DEF ProgressInv, Complete, Stage
    <2> QED BY <1>1, <2>1, <2>2, <2>3, <2>4, <2>5 DEF ProgressInv, StopIsFinal
  <1> QED BY <1>4, <1>6, <1>7, <1>8

\* A stage executes with every dependency complete (an always stage has none to keep).
LEMMA ExecuteInv == EngineInv /\ Execute => EngineInv'
  <1> SUFFICES ASSUME EngineInv, Execute PROVE EngineInv'
    OBVIOUS
  <1> USE DEF EngineInv, Execute
  <1>1. cur \in Stage /\ pc = "loop" /\ ~dirty
    BY StagesAssumption DEF AtStage, TypeOK, Stage
  <1>2. cur \notin Complete(mem)
    BY NotCachedNotComplete
  <1>3. /\ mem' \in Document
        /\ mem'.st[cur] = "running"
        /\ \A t \in Stage \ {cur} : mem'.st[t] = mem.st[t]
        /\ Complete(mem)' = Complete(mem)
    <2>1. "running" \in Status \ OkStatuses
      BY DEF Status, OkStatuses
    <2>2. mem' = [mem EXCEPT !.st[cur] = "running"] /\ mem \in Document
      BY DEF TypeOK
    <2> QED BY <1>1, <1>2, <2>1, <2>2, MarkMem
  <1>4. TypeOK'
    BY <1>1, <1>3, StagesAssumption DEF TypeOK, Stage
  <1>5. Durable' = Durable
    BY DEF Durable, Complete, Succeeded
  <1>6. DependenciesComplete' /\ NoStaleResult'
    BY <1>3, <1>5 DEF DependenciesComplete, NoStaleResult
  <1>7. SavedInv' /\ KeptInv'
    <2>1. Durable = Complete(mem)
      BY <1>1 DEF SavedInv, Durable, Complete, Succeeded
    <2> QED BY <1>1, <1>3, <1>5, <2>1 DEF SavedInv, KeptInv
  <1>8. AtWorkInv'
    <2>1. cur \notin Always => Deps[cur] \subseteq Complete(mem)
      BY <1>1, DepsAssumption, AlwaysAssumption DEF IsBlocked, Complete
    <2> QED BY <1>1, <1>3, <2>1 DEF AtWorkInv
  <1>9. ProgressInv'
    <2>1. StopIsFinal'
      BY <1>1 DEF StopIsFinal, IsStopped, ProgressInv
    <2> QED BY <1>1, <1>2, <1>3, <2>1, AlwaysAssumption, StagesAssumption
         DEF ProgressInv, TypeOK, Stage
  <1> QED BY <1>4, <1>6, <1>7, <1>8, <1>9
\* What the three outcomes of a call have in common: the stage being called is not
\* complete, so no stage depending on it is, in the runner or on disk.
LEMMA CallFacts ==
  ASSUME EngineInv, Calling
  PROVE  /\ cur \in Stage /\ pc = "exec" /\ ~dirty
         /\ Durable = Complete(mem)
         /\ cur \notin Complete(mem)
         /\ Complete(mem) \cap Dependents(cur) = {}
         /\ Dependents(cur) \subseteq Stage
         /\ cur \notin Always => Deps[cur] \subseteq Complete(mem)
  <1>1. cur \in Stage /\ pc = "exec" /\ ~dirty /\ mem.st[cur] = "running"
        /\ (cur \notin Always => Deps[cur] \subseteq Complete(mem))
    BY DEF EngineInv, AtWorkInv, Calling
  <1>2. Durable = Complete(mem)
    BY <1>1 DEF EngineInv, SavedInv, Durable
  <1>3. cur \notin Complete(mem)
    BY <1>1 DEF Complete, Succeeded, OkStatuses
  <1>4. Complete(mem) \cap Dependents(cur) = {}
    BY <1>3 DEF EngineInv, DependenciesComplete, Dependents
  <1> QED BY <1>1, <1>2, <1>3, <1>4 DEF Dependents

\* A call that ends the stage with a status.
LEMMA FinishInv ==
  ASSUME EngineInv, Calling, NEW status \in Status \ {"pending", "running"}, Finish(status),
         UNCHANGED <<cur, opts, stopped, file, disk, ran>>, attempts' \in Nat,
         stale' = (stale \cup Dependents(cur)) \ (IF status \in OkStatuses THEN {cur} ELSE {})
  PROVE  EngineInv'
  <1>1. /\ cur \in Stage /\ pc = "exec" /\ ~dirty
        /\ Durable = Complete(mem)
        /\ cur \notin Complete(mem)
        /\ Complete(mem) \cap Dependents(cur) = {}
        /\ Dependents(cur) \subseteq Stage
        /\ cur \notin Always => Deps[cur] \subseteq Complete(mem)
    BY CallFacts
  <1>2. mem' = [mem EXCEPT !.st[cur] = status] /\ dirty' = TRUE /\ pc' = "after"
    BY DEF Finish
  <1>3. /\ mem' \in Document
        /\ mem'.st[cur] = status
        /\ \A t \in Stage \ {cur} : mem'.st[t] = mem.st[t]
        /\ status \notin OkStatuses => Complete(mem)' = Complete(mem)
        /\ status \in OkStatuses => Complete(mem)' = Complete(mem) \cup ({cur} \ Always)
    BY <1>1, <1>2, MarkMem DEF EngineInv, TypeOK
  <1>4. Durable' = Durable
    BY DEF Durable, Complete, Succeeded
  <1>5. TypeOK'
    BY <1>1, <1>2, <1>3 DEF EngineInv, TypeOK
  <1>6. DependenciesComplete'
    <2>1. \A s \in Complete(mem) : Deps[s] \subseteq Complete(mem)
      BY DEF EngineInv, DependenciesComplete
    <2> QED BY <1>1, <1>3, <1>4, <2>1 DEF DependenciesComplete
  <1>7. NoStaleResult'
    <2>1. Complete(mem) \cap stale = {}
      BY DEF EngineInv, NoStaleResult
    <2> QED BY <1>1, <1>3, <1>4, <2>1 DEF NoStaleResult
  <1>8. SavedInv' /\ KeptInv'
    BY <1>1, <1>2, <1>3, <1>4 DEF SavedInv, KeptInv
  <1>9. AtWorkInv'
    <2>1. cur \in ran
      BY <1>1 DEF EngineInv, AtWorkInv
    <2>2. Complete(mem) \subseteq Complete(mem)'
      BY <1>3
    <2> QED BY <1>1, <1>2, <1>3, <2>1, <2>2 DEF AtWorkInv
  <1>10. ProgressInv'
    <2>1. cur \in Nat
      BY <1>1, StagesAssumption DEF Stage
    <2>2. \A s \in Stage : s < cur => s # cur
      BY <2>1
    <2> QED BY <1>1, <1>2, <1>3, <2>1, <2>2 DEF EngineInv, ProgressInv, StopIsFinal
  <1> QED BY <1>5, <1>6, <1>7, <1>8, <1>9, <1>10 DEF EngineInv

\* The call returned: the stage is complete, on top of complete dependencies.
LEMMA CallSucceedsInv == EngineInv /\ CallSucceeds => EngineInv'
  <1> SUFFICES ASSUME EngineInv, CallSucceeds PROVE EngineInv'
    OBVIOUS
  <1> DEFINE status == IF attempts' = 1 THEN "ok" ELSE "recovered"
  <1>1. status \in OkStatuses /\ status \in Status \ {"pending", "running"}
    BY DEF OkStatuses, Status
  <1>2. Calling /\ Finish(status) /\ attempts' \in Nat
    BY DEF CallSucceeds, EngineInv, TypeOK
  <1>3. stale' = (stale \cup Dependents(cur)) \ (IF status \in OkStatuses THEN {cur} ELSE {})
    BY <1>1 DEF CallSucceeds
  <1> QED BY <1>1, <1>2, <1>3, FinishInv DEF CallSucceeds

\* The call raised StageStop: nothing is added.
LEMMA CallStopsInv == EngineInv /\ CallStops => EngineInv'
  <1> SUFFICES ASSUME EngineInv, CallStops PROVE EngineInv'
    OBVIOUS
  <1>1. "awaiting_review" \notin OkStatuses /\ "awaiting_review" \in Status \ {"pending", "running"}
    BY DEF OkStatuses, Status
  <1>2. Calling /\ Finish("awaiting_review") /\ attempts' \in Nat
    BY DEF CallStops, EngineInv, TypeOK
  <1> QED BY <1>1, <1>2, FinishInv DEF CallStops

\* The call raised: the stage fails, or is called once more with its status as it was.
LEMMA CallFailsInv == EngineInv /\ CallFails => EngineInv'
  <1> SUFFICES ASSUME EngineInv, CallFails PROVE EngineInv'
    OBVIOUS
  <1>1. Calling /\ attempts' \in Nat
    BY DEF CallFails, GiveUpOrRetry, EngineInv, TypeOK
  <1>2. CASE Finish("failed")
    <2>1. "failed" \notin OkStatuses /\ "failed" \in Status \ {"pending", "running"}
      BY DEF OkStatuses, Status
    <2> QED BY <1>1, <1>2, <2>1, FinishInv DEF CallFails
  <1>3. CASE UNCHANGED <<pc, mem, dirty>>
    <2>1. /\ UNCHANGED <<pc, mem, dirty, cur, opts, stopped, file, disk, ran>>
          /\ stale' = stale \cup Dependents(cur)
      BY <1>3 DEF CallFails
    <2>2. Durable' = Durable /\ Complete(mem)' = Complete(mem)
      BY <2>1 DEF Durable, Complete, Succeeded
    <2>3. TypeOK'
      BY <1>1, <2>1, CallFacts DEF EngineInv, TypeOK
    <2>4. NoStaleResult'
      BY <1>1, <2>1, <2>2, CallFacts DEF EngineInv, NoStaleResult
    <2>5. DependenciesComplete' /\ SavedInv' /\ KeptInv' /\ AtWorkInv' /\ ProgressInv'
      BY <2>1, <2>2
      DEF EngineInv, DependenciesComplete, SavedInv, KeptInv, AtWorkInv, ProgressInv, StopIsFinal
    <2> QED BY <2>3, <2>4, <2>5 DEF EngineInv
  <1> QED BY <1>2, <1>3 DEF CallFails, GiveUpOrRetry

\* The loop goes on with the next stage, perhaps stopped; no status changes.
LEMMA AfterInv == EngineInv /\ After => EngineInv'
  <1> SUFFICES ASSUME EngineInv, After PROVE EngineInv'
    OBVIOUS
  <1>1. /\ cur \in Stage /\ cur \in Nat /\ N \in Nat /\ pc = "after" /\ ~dirty
        /\ cur' = cur + 1 /\ pc' = "loop" /\ attempts' = 0
        /\ UNCHANGED <<opts, dirty, file, disk, ran, stale>>
        /\ stopped' \in {stopped, cur}
        /\ file = "whole" /\ disk.st = mem.st
    BY StagesAssumption DEF After, EngineInv, AtWorkInv, SavedInv, Stage
  <1>2. mem' \in Document /\ mem'.st = mem.st
    <2>1. CASE StopsForUntil(cur)
      <3>1. mem' = [mem EXCEPT !.stoppedAfter = cur] /\ mem \in Document /\ cur \in 0..N
        BY <1>1, <2>1 DEF After, EngineInv, TypeOK, Stage
      <3> QED BY <3>1 DEF Document
    <2>2. CASE ~StopsForUntil(cur)
      BY <2>2 DEF After, EngineInv, TypeOK
    <2> QED BY <2>1, <2>2
  <1>3. Durable' = Durable /\ Complete(mem)' = Complete(mem)
    BY <1>1, <1>2 DEF Durable, Complete, Succeeded
  <1>4. TypeOK'
    BY <1>1, <1>2 DEF EngineInv, TypeOK, Stage
  <1>5. DependenciesComplete' /\ NoStaleResult'
    BY <1>1, <1>3 DEF EngineInv, DependenciesComplete, NoStaleResult
  <1>6. SavedInv' /\ KeptInv' /\ AtWorkInv'
    BY <1>1, <1>2, <1>3 DEF SavedInv, KeptInv, AtWorkInv
  <1>7. ProgressInv'
    <2>0. \A s \in Stage : s < cur' => s = cur \/ s < cur
      BY <1>1, StagesAssumption DEF Stage
    <2>1. \A s \in Stage : s < cur' => mem'.st[s] \notin {"pending", "running"}
      BY <1>1, <1>2, <2>0 DEF EngineInv, ProgressInv, AtWorkInv
    <2>2. \A s \in Always : s < cur' => s \in ran'
      <3>1. \A s \in Always : s < cur' => s = cur \/ s < cur
        BY <2>0, AlwaysAssumption
      <3> QED BY <1>1, <3>1 DEF EngineInv, ProgressInv, AtWorkInv
    <2>3. \A s \in ran : s \in Nat /\ s <= cur
      BY StagesAssumption DEF EngineInv, ProgressInv, TypeOK, Stage
    <2>4. ~opts'.resume => \A s \in Complete(mem)' : s < cur'
      <3>1. Complete(mem) \subseteq Nat
        BY StagesAssumption DEF Complete, Stage
      <3> QED BY <1>1, <1>3, <3>1 DEF EngineInv, ProgressInv
    <2>5. StopIsFinal'
      BY <1>1, <2>3 DEF EngineInv, ProgressInv, StopIsFinal
    <2>6. \A s \in ran' : s <= cur'
      BY <1>1, <2>3
    <2>7. \A s \in Stage : s < cur' => mem.st'[s] \notin {"pending", "running"}
      BY <2>1
    <2> QED BY <1>1, <2>2, <2>4, <2>5, <2>6, <2>7 DEF ProgressInv
  <1> QED BY <1>4, <1>5, <1>6, <1>7 DEF EngineInv

\* run() returns past the last stage, with everything settled and saved.
LEMMA ReturnInv == EngineInv /\ Return => EngineInv'
  <1> SUFFICES ASSUME EngineInv, Return PROVE EngineInv'
    OBVIOUS
  <1> USE DEF EngineInv, Return
  <1>1. Durable' = Durable /\ Complete(mem)' = Complete(mem)
    BY DEF Durable, Complete, Succeeded
  <1>2. TypeOK'
    BY DEF TypeOK
  <1>3. DependenciesComplete' /\ NoStaleResult'
    BY <1>1 DEF DependenciesComplete, NoStaleResult
  <1>4. SavedInv' /\ KeptInv' /\ AtWorkInv' /\ ProgressInv'
    BY <1>1 DEF SavedInv, KeptInv, AtWorkInv, ProgressInv, StopIsFinal
  <1> QED BY <1>2, <1>3, <1>4

\* A crash keeps state.json or truncates it, and the runner is gone.
LEMMA CrashInv == EngineInv /\ Crash => EngineInv'
  <1> SUFFICES ASSUME EngineInv, Crash PROVE EngineInv'
    OBVIOUS
  <1> USE DEF EngineInv, Crash
  <1>1. NoOptions \in Options /\ 1 \in 1..N+1 /\ 0 \in 0..N
    <2>1. {} \in SUBSET Skippable /\ 0 \in 0..N /\ 1 \in 1..N+1
      BY StagesAssumption
    <2> QED BY <2>1 DEF Options, NoOptions
  <1>2. TypeOK'
    BY <1>1, NewStateFacts DEF TypeOK
  <1>3. Complete(mem)' = {}
    <2>1. Complete(mem)' = Complete(mem')
      BY DEF Complete, Succeeded
    <2> QED BY <2>1, NewStateFacts
  <1>4. Durable' \in {Durable, {}}
    BY DEF Durable, Complete, Succeeded
  <1>5. DependenciesComplete' /\ NoStaleResult'
    BY <1>3, <1>4 DEF DependenciesComplete, NoStaleResult
  <1>6. SavedInv' /\ KeptInv' /\ AtWorkInv'
    BY DEF SavedInv, KeptInv, AtWorkInv
  <1>7. ProgressInv'
    <2>1. \A s \in Stage : ~(s < 1)
      BY StagesAssumption DEF Stage
    <2> QED BY <2>1, AlwaysAssumption DEF ProgressInv, StopIsFinal
  <1> QED BY <1>2, <1>5, <1>6, <1>7

\* A step of something else leaves the engine as it is.
LEMMA StutterInv == EngineInv /\ UNCHANGED vars => EngineInv'
  <1> SUFFICES ASSUME EngineInv, UNCHANGED vars PROVE EngineInv'
    OBVIOUS
  <1> USE DEF EngineInv, vars
  <1>1. Durable' = Durable /\ Complete(mem)' = Complete(mem)
    BY DEF Durable, Complete, Succeeded
  <1> QED
    BY <1>1 DEF TypeOK, DependenciesComplete, NoStaleResult, SavedInv, KeptInv,
                AtWorkInv, ProgressInv, StopIsFinal

\* So every step preserves the invariant.
LEMMA NextInv == EngineInv /\ [Next]_vars => EngineInv'
  BY StartInv, SaveInv, CachedInv, SkipInv, ExecuteInv, CallSucceedsInv, CallStopsInv,
     CallFailsInv, AfterInv, ReturnInv, CrashInv, StutterInv
  DEF Next, Step

\* The invariant holds in every reachable state.
LEMMA EngineInvariant == Spec => []EngineInv
  BY InitInv, NextInv, PTL DEF Spec

----
(* The safety properties *)

\* Every variable keeps its type.
THEOREM TypeCorrect == Spec => []TypeOK
  <1>1. EngineInv => TypeOK
    BY DEF EngineInv
  <1> QED BY <1>1, EngineInvariant, PTL

\* A stage recorded complete has every dependency recorded complete, in the runner
\* and in state.json, however runs crash, resume, invalidate, stop and skip.
THEOREM CompleteStagesHaveDependencies == Spec => []DependenciesComplete
  <1>1. EngineInv => DependenciesComplete
    BY DEF EngineInv
  <1> QED BY <1>1, EngineInvariant, PTL

\* No stage counts as complete when one of its dependencies ran after it succeeded.
THEOREM CompleteStagesAreFresh == Spec => []NoStaleResult
  <1>1. EngineInv => NoStaleResult
    BY DEF EngineInv
  <1> QED BY <1>1, EngineInvariant, PTL

\* While a stage's function runs, state.json is whole and equal to what the runner
\* knows, so that a crash in the function loses no status.
THEOREM NothingLostInsideStage == Spec => []DurableWhileRunning
  <1>1. EngineInv => DurableWhileRunning
    BY DEF EngineInv, SavedInv, AtWorkInv, DurableWhileRunning, Calling
  <1> QED BY <1>1, EngineInvariant, PTL

\* After a stop only always stages execute in that run.
THEOREM StoppedRunsStop == Spec => []StopIsFinal
  <1>1. EngineInv => StopIsFinal
    BY DEF EngineInv, ProgressInv
  <1> QED BY <1>1, EngineInvariant, PTL

\* When run() returns every stage is settled on disk and every always stage ran.
THEOREM ReturnedRunsAreSettled == Spec => []ReturnIsSettled
  <1>1. EngineInv => ReturnIsSettled
    <2> SUFFICES ASSUME EngineInv, pc = "done" PROVE ReturnIsSettled
      BY DEF ReturnIsSettled
    <2>1. cur = N + 1 /\ \A s \in Stage : s < cur
      BY StagesAssumption DEF EngineInv, ProgressInv, Stage
    <2>2. ~dirty
      BY DEF EngineInv, SavedInv
    <2> QED BY <2>1, <2>2, AlwaysAssumption
         DEF EngineInv, ProgressInv, SavedInv, ReturnIsSettled
  <1> QED BY <1>1, EngineInvariant, PTL
----
(* What a step may never do, and what the engine implements *)

\* Only a save and a crash touch state.json.
LEMMA FileSteps ==
  ASSUME EngineInv, [Next]_vars
  PROVE  \/ Save
         \/ Durable' = Durable
         \/ Crash /\ Durable' = {}
  BY DEF Next, Step, vars, Start, Cached, Skip, NextStageMarking, Execute, CallSucceeds,
         CallStops, CallFails, After, Return, Crash, Durable, Complete, Succeeded

\* A resumed run never takes back a completed stage before --from, except by a save
\* that was cut short.
THEOREM ResumeKeepsCompleteStages == Spec => ResumeKeepsComplete
  <1>1. EngineInv /\ [Next]_vars => [KeepsComplete]_vars
    <2> SUFFICES ASSUME EngineInv, [Next]_vars, pc \notin {"down", "done"}, opts.resume,
                        file' # "torn"
                 PROVE  \A s \in Durable :
                          s \in Durable' \/ (opts.from # 0 /\ s >= opts.from)
      BY DEF KeepsComplete
    <2>1. CASE Save
      <3>1. Durable' = Complete(mem)
        BY <2>1 DEF Save, Durable, Complete, Succeeded
      <3>2. pc \in {"loop", "exec", "after"} /\ dirty
        BY <2>1 DEF Save, EngineInv, TypeOK
      <3> QED BY <3>1, <3>2 DEF EngineInv, SavedInv, KeptInv
    <2>2. CASE Durable' = Durable
      BY <2>2
    <2>3. CASE Crash
      BY <2>3 DEF Crash, Durable, Complete, Succeeded
    <2> QED BY <2>1, <2>2, <2>3, FileSteps
  <1> QED BY <1>1, EngineInvariant, PTL DEF Spec, ResumeKeepsComplete

\* Every step of the engine is a step of the ledger or leaves it unchanged.
LEMMA LedgerStep ==
  ASSUME EngineInv, [Next]_vars
  PROVE  [Ledger!LedgerNext]_(Ledger!ledgerVars)
  <1> DEFINE w == IF cur \notin Always /\ (Calling \/ (pc = "after" /\ dirty)) THEN cur ELSE 0
  <1> USE DEF Ledger!LedgerNext, Ledger!ledgerVars
  <1>1. CASE Save
    <2>1. Durable' = Complete(mem)
      BY <1>1 DEF Save, Durable, Complete, Succeeded
    <2>2. \A s \in Complete(mem) : Deps[s] \subseteq Complete(mem)
      BY DEF EngineInv, DependenciesComplete
    <2>3. dirty /\ ~dirty' /\ pc' = pc /\ cur' = cur /\ pc \in {"loop", "exec", "after"}
      BY <1>1 DEF Save, EngineInv, SavedInv, TypeOK
    <2>4. CASE pc = "loop"
      <3>1. w' = 0 /\ Durable' \subseteq Durable
        BY <2>1, <2>3, <2>4 DEF Calling, EngineInv, SavedInv
      <3>2. Ledger!GiveUp
        BY <2>1, <2>2, <3>1 DEF Ledger!GiveUp, Ledger!Closed
      <3> QED BY <3>2
    <2>5. CASE pc = "exec"
      <3>1. w = 0 /\ w' = IF cur \notin Always THEN cur ELSE 0
        BY <2>3, <2>5 DEF Calling
      <3>2. Durable' = Durable /\ cur \in Stage /\ cur \notin Durable
        BY <2>1, <2>3, <2>5
        DEF EngineInv, SavedInv, AtWorkInv, Complete, Succeeded, OkStatuses
      <3>3. CASE cur \in Always
        BY <3>1, <3>2, <3>3
      <3>4. CASE cur \notin Always
        <4>1. Deps[cur] \subseteq Durable
          BY <2>1, <2>5, <3>2, <3>4 DEF EngineInv, AtWorkInv
        <4>2. Ledger!Begin(cur)
          BY <3>1, <3>2, <3>4, <4>1 DEF Ledger!Begin
        <4> QED BY <3>2, <4>2 DEF Stage
      <3> QED BY <3>3, <3>4
    <2>6. CASE pc = "after"
      <3>1. w = (IF cur \notin Always THEN cur ELSE 0) /\ w' = 0
        BY <2>3, <2>6 DEF Calling
      <3>2. Complete(mem) \ {cur} = Durable
        BY <2>3, <2>6 DEF EngineInv, SavedInv
      <3>3. CASE cur \in Complete(mem)
        <4>1. cur \notin Always /\ cur # 0
          BY <3>3, StagesAssumption DEF Complete, Stage
        <4>2. Durable' = Durable \cup {cur}
          BY <2>1, <3>2, <3>3
        <4>3. Ledger!Commit
          BY <3>1, <4>1, <4>2 DEF Ledger!Commit
        <4> QED BY <4>3
      <3>4. CASE cur \notin Complete(mem)
        <4>1. Ledger!GiveUp
          BY <2>1, <2>2, <3>1, <3>2, <3>4 DEF Ledger!GiveUp, Ledger!Closed
        <4> QED BY <4>1
      <3> QED BY <3>3, <3>4
    <2> QED BY <2>3, <2>4, <2>5, <2>6
  <1>2. CASE Crash
    <2>1. w' = 0 /\ Durable' \in {Durable, {}}
      BY <1>2 DEF Crash, Calling, Durable, Complete, Succeeded
    <2>2. Ledger!GiveUp
      BY <2>1 DEF Ledger!GiveUp, Ledger!Closed, EngineInv, DependenciesComplete
    <2> QED BY <2>2
  <1>3. CASE Durable' = Durable /\ ~Save /\ ~Crash
    <2>1. w' = w
      BY <1>3 DEF Next, Step, vars, Start, Cached, Skip, NextStageMarking, Execute, AtStage,
                  CallSucceeds, CallStops, CallFails, GiveUpOrRetry, Finish, After, Return,
                  Calling
    <2> QED BY <1>3, <2>1
  <1> QED BY <1>1, <1>2, <1>3, FileSteps

\* The engine implements the ledger: a stage enters it only through the save that
\* follows its function, begun when its dependencies were durably complete.
THEOREM EngineImplementsLedger == Spec => ImplementsLedger
  <1>1. Init => Ledger!LedgerInit
    BY NewStateFacts DEF Init, Ledger!LedgerInit, Durable, Calling
  <1> QED BY <1>1, LedgerStep, EngineInvariant, PTL
       DEF Spec, ImplementsLedger, Ledger!LedgerSpec

----
(* The pipeline *)


\* Every step of the pipeline is a step of the engine, or leaves it alone.
LEMMA EngineStep == [PNext]_pvars => [Next]_vars
  BY DEF PNext, pvars, vars, Next, Step, Engine, Starts, Succeeds, Stops, Fails, Returns, Dies,
         DeployUpByHand, DeployDownByHand, AgentDies

\* So the engine's invariant holds of the pipeline.
LEMMA EngineInvHolds == PSpec => []EngineInv
  <1>1. PInit => EngineInv
    BY InitInv DEF PInit
  <1>2. EngineInv /\ [PNext]_pvars => EngineInv'
    BY NextInv, EngineStep
  <1> QED BY <1>1, <1>2, PTL DEF PSpec

----
(* Types *)

\* What a step does to the deployment: nothing, or it ends up, or not answering.
LEMMA DeploymentSteps ==
  ASSUME [PNext]_pvars
  PROVE  \/ UNCHANGED <<deployment, serving>>
         \/ deployment' = "up" /\ serving' = TRUE
         \/ deployment' \in {deployment, "none", "failed", "down"} /\ serving' = FALSE
  <1> USE DEF DeploymentIs, dvars
  <1>1. CASE Engine \/ Stops \/ Returns \/ AgentDies \/ UNCHANGED pvars
    BY <1>1 DEF Engine, Stops, Returns, AgentDies, pvars
  <1>2. CASE Succeeds
    BY <1>2 DEF Succeeds, DeployUp, DeployDown
  <1>3. CASE Fails
    BY <1>3 DEF Fails, DeployUpFails
  <1>4. CASE Dies
    BY <1>4 DEF Dies, DeployUp, DeployDown
  <1>5. CASE DeployUpByHand \/ DeployDownByHand
    BY <1>5 DEF DeployUpByHand, DeployDownByHand, DeployUp, DeployUpFails, DeployDown
  <1> QED BY <1>1, <1>2, <1>3, <1>4, <1>5 DEF PNext

\* byHand is a truth value after every step.
LEMMA ByHandSteps ==
  ASSUME [PNext]_pvars, byHand \in BOOLEAN
  PROVE  byHand' \in BOOLEAN
  <1> USE DEF dvars
  <1>1. CASE Engine \/ Stops \/ Returns \/ Fails \/ AgentDies \/ UNCHANGED pvars
    BY <1>1, Zenon DEF Engine, Stops, Returns, Fails, AgentDies, pvars
  <1>2. CASE Succeeds
    BY <1>2, Zenon DEF Succeeds
  <1>3. CASE Dies
    BY <1>3, Zenon DEF Dies
  <1>4. CASE DeployUpByHand \/ DeployDownByHand
    BY <1>4, Zenon DEF DeployUpByHand, DeployDownByHand
  <1> QED BY <1>1, <1>2, <1>3, <1>4 DEF PNext

\* So is what the report says a verdict, or nothing.
LEMMA ReportSteps ==
  ASSUME [PNext]_pvars
  PROVE  report' \in {report, "none", "incomplete", "final"}
  <1> USE DEF dvars, Verdict
  <1>1. CASE Engine \/ Stops \/ Fails \/ AgentDies \/ DeployUpByHand \/ DeployDownByHand
             \/ UNCHANGED pvars
    BY <1>1 DEF Engine, Stops, Fails, AgentDies, DeployUpByHand, DeployDownByHand, pvars
  <1>2. CASE Succeeds \/ Returns
    BY <1>2 DEF Succeeds, Returns
  <1>3. CASE Dies
    BY <1>3 DEF Dies
  <1> QED BY <1>1, <1>2, <1>3 DEF PNext

\* The deployment, the report and who deployed keep their types, and only an agent
\* whose record says up answers.
THEOREM PipelineTypes == PSpec => []PTypeOK
  <1>1. PInit => PTypeOK
    BY DEF PInit, PTypeOK
  <1>2. PTypeOK /\ [PNext]_pvars => PTypeOK'
    <2> SUFFICES ASSUME PTypeOK, [PNext]_pvars PROVE PTypeOK'
      OBVIOUS
    <2>1. byHand' \in BOOLEAN
      BY ByHandSteps DEF PTypeOK
    <2>2. report' \in {"none", "incomplete", "final"}
      BY ReportSteps DEF PTypeOK
    <2>3. deployment' \in {"none", "up", "failed", "down"}
      BY DeploymentSteps DEF PTypeOK
    <2>4. serving' \in BOOLEAN /\ (serving' => deployment' = "up")
      <3>1. CASE UNCHANGED <<deployment, serving>>
        BY <3>1, Zenon DEF PTypeOK
      <3>2. CASE deployment' = "up" /\ serving' = TRUE
        BY <3>2, Zenon
      <3>3. CASE serving' = FALSE
        BY <3>3, Zenon
      <3> QED BY <3>1, <3>2, <3>3, DeploymentSteps
    <2> QED BY <2>1, <2>2, <2>3, <2>4, Zenon DEF PTypeOK
  <1> QED BY <1>1, <1>2, PTL DEF PSpec

----
(* The teardown *)

\* The stages that count as complete, in the runner or for the next --resume.
Counted == Complete(mem) \cup Durable

\* Only a call that succeeds adds a stage to those, and only the one it executed.
LEMMA CountedAdds ==
  ASSUME EngineInv, CallSucceeds
  PROVE  Counted' \subseteq Counted \cup {cur}
  <1>1. cur \in Stage /\ mem \in Document /\ UNCHANGED <<file, disk>>
    BY CallFacts DEF CallSucceeds, EngineInv, TypeOK
  <1>2. Durable' = Durable
    BY <1>1 DEF Durable, Complete, Succeeded
  <1>3. PICK status \in OkStatuses : mem' = [mem EXCEPT !.st[cur] = status]
    BY DEF CallSucceeds, Finish, OkStatuses
  <1>4. Complete(mem)' \subseteq Complete(mem) \cup {cur}
    BY <1>1, <1>3, MarkMem DEF Status
  <1> QED BY <1>2, <1>4 DEF Counted

\* No other step adds any.
LEMMA CountedKept ==
  ASSUME EngineInv,
         Start \/ Save \/ Cached \/ Skip \/ Execute \/ CallStops \/ CallFails \/ After
           \/ Return \/ Crash \/ UNCHANGED vars
  PROVE  Counted' \subseteq Counted
  <1>1. CASE Start
    <2>1. PICK o \in Options :
            mem' = IF o.resume /\ file = "whole" THEN Invalidate(disk, o.from) ELSE NewState
      BY <1>1 DEF Start
    <2>2. o.from \in 0..N
      BY DEF Options
    <2>3. Complete(mem') \subseteq Durable
      <3>1. CASE o.resume /\ file = "whole"
        <4>1. Durable = Complete(disk) /\ disk \in Document
          BY <3>1 DEF Durable, EngineInv, TypeOK
        <4>2. \A s \in Complete(disk) : Deps[s] \subseteq Complete(disk)
          BY <4>1 DEF EngineInv, DependenciesComplete
        <4> QED BY <2>1, <2>2, <3>1, <4>1, <4>2, InvalidateFacts
      <3>2. CASE ~(o.resume /\ file = "whole")
        BY <2>1, <3>2, NewStateFacts
      <3> QED BY <3>1, <3>2
    <2>4. Durable' = Durable /\ Complete(mem)' = Complete(mem')
      BY <1>1 DEF Start, Durable, Complete, Succeeded
    <2> QED BY <2>3, <2>4 DEF Counted
  <1>2. CASE Save
    <2>1. Complete(mem)' = Complete(mem) /\ Durable' = Complete(mem)
      BY <1>2 DEF Save, Durable, Complete, Succeeded
    <2> QED BY <2>1 DEF Counted
  <1>3. CASE Cached \/ Return \/ UNCHANGED vars
    <2>1. Complete(mem)' = Complete(mem) /\ Durable' = Durable
      BY <1>3 DEF Cached, Return, vars, Durable, Complete, Succeeded
    <2> QED BY <2>1 DEF Counted
  <1>4. CASE Skip \/ Execute \/ CallStops \/ CallFails
    <2>1. \/ UNCHANGED mem
          \/ \E status \in {"skipped", "running", "awaiting_review", "failed"} :
               mem' = [mem EXCEPT !.st[cur] = status]
      BY <1>4 DEF Skip, Execute, NextStageMarking, CallStops, CallFails, GiveUpOrRetry, Finish
    <2>2. cur \in Stage /\ mem \in Document /\ UNCHANGED <<file, disk>>
      BY <1>4, StagesAssumption, CallFacts
      DEF Skip, Execute, NextStageMarking, AtStage, CallStops, CallFails, EngineInv, TypeOK, Stage
    <2>3. {"skipped", "running", "awaiting_review", "failed"} \subseteq Status \ OkStatuses
      BY DEF Status, OkStatuses
    <2>4. Complete(mem)' \subseteq Complete(mem)
      <3>1. CASE UNCHANGED mem
        BY <3>1 DEF Complete, Succeeded
      <3>2. CASE ~UNCHANGED mem
        <4>1. PICK status \in Status \ OkStatuses : mem' = [mem EXCEPT !.st[cur] = status]
          BY <2>1, <2>3, <3>2
        <4> QED BY <2>2, <4>1, MarkMem
      <3> QED BY <3>1, <3>2
    <2>5. Durable' = Durable
      BY <2>2 DEF Durable, Complete, Succeeded
    <2> QED BY <2>4, <2>5 DEF Counted
  <1>5. CASE After
    <2>1. mem'.st = mem.st /\ UNCHANGED <<file, disk>>
      BY <1>5 DEF After, EngineInv, TypeOK, Document
    <2>2. Complete(mem)' = Complete(mem) /\ Durable' = Durable
      BY <2>1 DEF Durable, Complete, Succeeded
    <2> QED BY <2>2 DEF Counted
  <1>6. CASE Crash
    <2>1. Complete(mem)' = {}
      <3>1. Complete(mem)' = Complete(mem') /\ mem' = NewState
        BY <1>6 DEF Crash, Complete, Succeeded
      <3> QED BY <3>1, NewStateFacts
    <2>2. Durable' \subseteq Durable
      BY <1>6 DEF Crash, Durable, Complete, Succeeded
    <2> QED BY <2>1, <2>2 DEF Counted
  <1> QED BY <1>1, <1>2, <1>3, <1>4, <1>5, <1>6

\* While deploy or teardown executes, the teardown does not count as complete.
LEMMA TeardownNotCounted ==
  ASSUME EngineInv, Calling, cur \in {Deploy, Teardown}
  PROVE  Teardown \notin Counted
  <1>1. Complete(mem) \cap Dependents(cur) = {} /\ cur \notin Complete(mem)
        /\ Durable = Complete(mem)
    BY CallFacts
  <1>2. Teardown \in Dependents(Deploy)
    BY PipelineAssumption DEF Dependents
  <1> QED BY <1>1, <1>2 DEF Counted

\* Once the teardown counts as complete, the pipeline leaves no deployment up: the next
\* deploy that executes invalidates it first, in the file as well as in the runner.
THEOREM TeardownStays == PSpec => []TeardownHolds
  <1>1. PInit => TeardownHolds
    BY DEF PInit, TeardownHolds
  <1>2. EngineInv /\ TeardownHolds /\ [PNext]_pvars => TeardownHolds'
    <2> SUFFICES ASSUME EngineInv, TeardownHolds, [PNext]_pvars, Teardown \in Counted',
                        deployment' = "up", ~byHand'
                 PROVE  FALSE
      BY Zenon DEF TeardownHolds, Counted
    <2> USE DEF DeploymentIs, dvars
    <2>1. Teardown \in Counted => deployment # "up" \/ byHand
      BY DEF TeardownHolds, Counted
    <2>2. Teardown \notin {Deploy, Infer, Report}
      BY PipelineAssumption, DepsAssumption, StagesAssumption DEF Stage
    <2>3. CASE Succeeds
      <3>1. Calling /\ (Teardown \in Counted \/ cur = Teardown)
        BY <2>3, CountedAdds DEF Succeeds, CallSucceeds
      <3>2. cur # Deploy
        BY <2>2, <3>1, TeardownNotCounted
      <3>3. CASE cur = Teardown
        <4>1. DeployDown
          BY <2>2, <2>3, <3>3 DEF Succeeds
        <4> QED BY <4>1 DEF DeployDown
      <3>4. CASE cur # Teardown
        <4>1. UNCHANGED <<deployment, byHand>>
          BY <2>3, <3>2, <3>4 DEF Succeeds
        <4> QED BY <2>1, <3>1, <3>4, <4>1, Zenon
      <3> QED BY <3>3, <3>4
    <2>4. CASE Fails
      <3>1. Teardown \in Counted
        BY <2>4, CountedKept DEF Fails
      <3>2. deployment = "up" /\ ~byHand
        BY <2>4, Zenon DEF Fails, DeployUpFails
      <3> QED BY <2>1, <3>1, <3>2
    <2>5. CASE Dies
      <3>1. Teardown \in Counted
        BY <2>5, CountedKept DEF Dies
      <3>2. ~(Calling /\ cur \in {Deploy, Teardown})
        BY <3>1, TeardownNotCounted
      <3>3. UNCHANGED <<deployment, serving>>
        BY <2>5, <3>2 DEF Dies, Calling
      <3>4. deployment = "up" /\ ~byHand
        BY <2>5, <3>3, Zenon DEF Dies
      <3> QED BY <2>1, <3>1, <3>4
    <2>6. CASE DeployUpByHand \/ DeployDownByHand
      <3>1. Teardown \in Counted
        BY <2>6, CountedKept DEF DeployUpByHand, DeployDownByHand
      <3>2. CASE DeployUp /\ byHand' = TRUE
        BY <3>2, Zenon
      <3>3. CASE DeployDown
        BY <3>3 DEF DeployDown
      <3>4. CASE DeployUpFails /\ UNCHANGED byHand
        <4>1. UNCHANGED deployment
          BY <3>4 DEF DeployUpFails
        <4> QED BY <2>1, <3>1, <3>4, <4>1, Zenon
      <3> QED BY <2>6, <3>2, <3>3, <3>4 DEF DeployUpByHand, DeployDownByHand
    <2>7. CASE Engine \/ Stops \/ Returns \/ AgentDies \/ UNCHANGED pvars
      <3>1. Teardown \in Counted
        BY <2>7, CountedKept DEF Engine, Starts, Stops, Returns, AgentDies, pvars
      <3>2. UNCHANGED <<deployment, byHand>>
        BY <2>7 DEF Engine, Stops, Returns, AgentDies, pvars
      <3> QED BY <2>1, <3>1, <3>2, Zenon
    <2> QED BY <2>3, <2>4, <2>5, <2>6, <2>7 DEF PNext
  <1> QED BY <1>1, <1>2, EngineInvHolds, PTL DEF PSpec

----
(* The verdict *)

\* From the report stage on to the end of the run, a report that was written is the
\* verdict on the statuses as they are.
Reported ==
  (pc = "after" /\ cur = Report) \/ (pc \in {"loop", "done"} /\ cur = N + 1) =>
    (Succeeded(mem, Report) => report = Verdict(mem))

\* Neither skipped nor taken from the cache: the report stage is an always stage.
LEMMA ReportExecutes ==
  ASSUME Cached \/ Skip
  PROVE  cur # Report
  BY PipelineAssumption
  DEF Cached, Skip, IsCached, IsSkippedByConfig, IsStopped, IsBlocked

\* The verdict depends on the statuses of the required stages only.
LEMMA VerdictOfStatuses ==
  ASSUME NEW doc, NEW other, \A s \in Required : other.st[s] = doc.st[s]
  PROVE  Verdict(other) = Verdict(doc)
  BY DEF Verdict, Succeeded

\* Every step keeps a report that was written in agreement with the statuses.
LEMMA ReportedInv ==
  ASSUME EngineInv, Reported, [PNext]_pvars
  PROVE  Reported'
  <1> USE DEF dvars
  <1>1. Report = N /\ Report \in Stage /\ N \in Nat /\ N # 0 /\ Report \notin Required
    BY PipelineAssumption, StagesAssumption
  <1>2. CASE Engine
    <2>1. CASE Starts \/ Execute
      BY <1>1, <2>1 DEF Starts, Start, Execute, Reported
    <2>2. CASE Cached \/ Skip
      <3>1. cur \in Nat /\ cur # N /\ cur' = cur + 1
        <4>1. cur # Report
          BY <2>2, ReportExecutes
        <4>2. cur' = cur + 1
          BY <2>2 DEF Cached, Skip, NextStageMarking
        <4> QED BY <1>1, <4>1, <4>2 DEF EngineInv, TypeOK
      <3>2. cur' # N + 1
        BY <1>1, <3>1
      <3>3. pc' # "after"
        BY <2>2 DEF Cached, Skip, NextStageMarking, AtStage
      <3> QED BY <3>2, <3>3 DEF Reported
    <2>3. CASE Save
      BY <1>2, <2>3 DEF Engine, Save, Reported, Verdict, Succeeded
    <2>4. CASE After
      <3>1. mem'.st = mem.st
        BY <2>4 DEF After, EngineInv, TypeOK, Document
      <3>2. pc = "after" /\ pc' = "loop" /\ cur' = cur + 1 /\ cur \in Nat /\ UNCHANGED report
        BY <1>2, <2>4 DEF After, Engine, EngineInv, TypeOK
      <3>3. cur' = N + 1 => cur = Report
        BY <1>1, <3>2
      <3> QED BY <3>1, <3>2, <3>3 DEF Reported, Verdict, Succeeded
    <2> QED BY <1>2, <2>1, <2>2, <2>3, <2>4 DEF Engine
  <1>3. CASE Succeeds
    <2>1. Calling /\ pc' = "after" /\ cur' = cur /\ CallSucceeds
      BY <1>3 DEF Succeeds, CallSucceeds, Finish
    <2>2. CASE cur = Report
      <3>1. report' = Verdict(mem)
        BY <1>3, <2>2, PipelineAssumption, StagesAssumption DEF Succeeds, Stage
      <3>2. \A s \in Required : mem'.st[s] = mem.st[s]
        <4>1. PICK status \in OkStatuses : mem' = [mem EXCEPT !.st[cur] = status]
          BY <2>1 DEF CallSucceeds, Finish, OkStatuses
        <4>2. \A t \in Stage \ {cur} : mem'.st[t] = mem.st[t]
          BY <2>1, <4>1, CallFacts, MarkMem DEF Status, EngineInv, TypeOK
        <4> QED BY <1>1, <2>2, <4>2, PipelineAssumption
      <3>3. Verdict(mem') = Verdict(mem)
        BY <3>2, VerdictOfStatuses
      <3>4. Verdict(mem)' = Verdict(mem')
        BY DEF Verdict, Succeeded
      <3> QED BY <3>1, <3>3, <3>4 DEF Reported
    <2>3. CASE cur # Report
      BY <2>1, <2>3 DEF Reported
    <2> QED BY <2>2, <2>3
  <1>4. CASE Stops
    <2>1. cur # Report
      BY <1>4, PipelineAssumption DEF Stops
    <2> QED BY <1>4, <2>1 DEF Stops, CallStops, Finish, Reported
  <1>5. CASE Fails
    <2>1. Calling /\ cur' = cur /\ (pc' = pc \/ (pc' = "after" /\ Finish("failed")))
      BY <1>5 DEF Fails, CallFails, GiveUpOrRetry, Finish
    <2>2. CASE pc' = pc
      BY <2>1, <2>2 DEF Calling, Reported
    <2>3. CASE pc' = "after" /\ Finish("failed")
      <3>1. mem'.st[cur] = "failed"
        BY <2>1, <2>3, CallFacts, MarkMem DEF Finish, EngineInv, TypeOK, Status
      <3> QED BY <2>1, <2>3, <3>1 DEF Reported, Succeeded, OkStatuses
    <2> QED BY <2>1, <2>2, <2>3
  <1>6. CASE Returns
    BY <1>6 DEF Returns, Return, Reported, Verdict, Succeeded
  <1>7. CASE Dies
    BY <1>7 DEF Dies, Crash, Reported
  <1>8. CASE DeployUpByHand \/ DeployDownByHand \/ AgentDies \/ UNCHANGED pvars
    BY <1>8 DEF DeployUpByHand, DeployDownByHand, AgentDies, pvars, vars, Reported, Verdict,
                Succeeded
  <1> QED BY <1>2, <1>3, <1>4, <1>5, <1>6, <1>7, <1>8 DEF PNext

\* The report of a run carries a verdict only when every required stage is complete and
\* fresh: a blocked, skipped, failed or invalidated one makes the verdict incomplete.
THEOREM VerdictsAreEarned == PSpec => []VerdictIsEarned
  <1>1. PInit => Reported
    BY DEF PInit, Init, Reported
  <1>2. EngineInv /\ Reported => VerdictIsEarned
    <2> SUFFICES ASSUME EngineInv, Reported, pc = "done", Succeeded(mem, Report),
                        report # "incomplete"
                 PROVE  report = "final" /\ Required \subseteq Complete(mem) \ stale
      BY DEF VerdictIsEarned
    <2>1. report = Verdict(mem)
      BY DEF EngineInv, ProgressInv, Reported
    <2>2. report = "final" /\ \A s \in Required : Succeeded(mem, s)
      BY <2>1 DEF Verdict
    <2>3. Required \subseteq Complete(mem)
      BY <2>2, PipelineAssumption DEF Complete
    <2> QED BY <2>2, <2>3 DEF EngineInv, NoStaleResult
  <1> QED BY <1>1, <1>2, ReportedInv, EngineInvHolds, PTL DEF PSpec

----------------------------------------------------------------------------
(* Deployments *)

\* Pids in use were given out, and what is about to be saved as down is gone.
PidsGivenOut ==
  /\ \A p \in alive : p \in Pid => p <= spawned
  /\ saved.pid <= spawned
  /\ \A a \in Actor : rec[a].pid <= spawned
DownIsGone ==
  /\ DownMeansDown
  /\ \A a \in Actor : rec[a].status = "down" => at[a] = "save" /\ rec[a].pid \notin alive

DeploymentInv == DeployTypeOK /\ PidsGivenOut /\ DownIsGone

----

\* A new record and the absence of one are records without a process.
LEMMA RecordFacts ==
  /\ \A t \in Target : NewRecord(t) \in Record /\ NewRecord(t).pid = 0
                       /\ NewRecord(t).status = "pending"
  /\ NoRecord \in Record /\ NoRecord.pid = 0 /\ NoRecord.status = "none"
  <1>1. (CHOOSE t \in Target : TRUE) \in Target
    BY TargetAssumption
  <1>2. 0 \in 0..MaxSpawns
    BY MaxSpawnsAssumption
  <1> QED BY <1>1, <1>2 DEF NewRecord, NoRecord, Record, RecordStatus

\* No record and no process: the invariant holds.
LEMMA DeployInitInv == DeployInit => DeploymentInv
  <1> SUFFICES ASSUME DeployInit PROVE DeploymentInv
    OBVIOUS
  <1> USE DEF DeployInit
  <1>1. DeployTypeOK
    <2>1. saved \in Record /\ rec \in [Actor -> Record] /\ at \in [Actor -> Places]
      BY RecordFacts DEF Places
    <2>2. alive \subseteq Resource /\ spawned \in 0..MaxSpawns /\ forwards \subseteq Pid \cap alive
          /\ excused \subseteq Resource
      BY MaxSpawnsAssumption
    <2> QED BY <2>1, <2>2 DEF DeployTypeOK
  <1>2. PidsGivenOut
    BY RecordFacts DEF PidsGivenOut
  <1>3. DownIsGone
    BY RecordFacts DEF DownIsGone, DownMeansDown
  <1> QED BY <1>1, <1>2, <1>3 DEF DeploymentInv

----
(* Every step of a call changes one caller's place and record, and spawns at most one
   process, removes some, or saves its record *)

\* What the steps that neither save nor spawn a process have in common.
LEMMA HoldingStep ==
  ASSUME DeploymentInv, NEW a \in Actor, NEW place \in Places, NEW r \in Record,
         Goes(a, place), Holds(a, r),
         r.pid <= spawned, r.status = "down" => place = "save" /\ r.pid \notin alive',
         alive' \subseteq alive \cup {Objects}, forwards' \subseteq forwards \cap alive',
         excused' \subseteq Resource, contended' \in BOOLEAN, UNCHANGED <<config, saved, spawned>>
  PROVE  DeploymentInv'
  <1> USE DEF DeploymentInv
  <1>1. /\ at' \in [Actor -> Places] /\ at'[a] = place
        /\ rec' \in [Actor -> Record] /\ rec'[a] = r
        /\ \A b \in Actor \ {a} : at'[b] = at[b] /\ rec'[b] = rec[b]
    BY DEF Goes, Holds, DeployTypeOK
  <1>2. Objects \notin 0..MaxSpawns /\ Objects \in Resource /\ Pid \subseteq 0..MaxSpawns
    BY MaxSpawnsAssumption DEF Objects, Resource, Pid
  <1>3. DeployTypeOK'
    BY <1>1, <1>2 DEF DeployTypeOK
  <1>4. PidsGivenOut'
    BY <1>1, <1>2 DEF PidsGivenOut, Record, DeployTypeOK
  <1>5. DownIsGone'
    <2>1. \A pid \in 0..MaxSpawns : pid \notin alive => pid \notin alive'
      BY <1>2
    <2>2. DownMeansDown'
      BY <2>1 DEF DownIsGone, DownMeansDown, DeployTypeOK, Record
    <2>3. ASSUME NEW b \in Actor, rec'[b].status = "down"
          PROVE  at'[b] = "save" /\ rec'[b].pid \notin alive'
      <3>1. CASE b = a
        BY <1>1, <2>3, <3>1
      <3>2. CASE b # a
        BY <1>1, <2>1, <2>3, <3>2 DEF DownIsGone, DeployTypeOK, Record
      <3> QED BY <3>1, <3>2
    <2> QED BY <2>2, <2>3 DEF DownIsGone
  <1> QED BY <1>3, <1>4, <1>5

\* The steps that spawn a process, with a pid nobody holds.
LEMMA SpawningStep ==
  ASSUME DeploymentInv, NEW a \in Actor, NEW place \in Places,
         at[a] # "save", Goes(a, place), Holds(a, [rec[a] EXCEPT !.pid = Fresh]),
         Fresh \in Pid, spawned' = Fresh,
         alive' \subseteq alive \cup {Fresh, Objects}, alive \cup {Fresh} \subseteq alive',
         forwards' \subseteq forwards \cup {Fresh},
         excused' \subseteq Resource, UNCHANGED <<config, saved, contended>>
  PROVE  DeploymentInv'
  <1> USE DEF DeploymentInv
  <1>1. rec[a] \in Record /\ rec[a].status # "down" /\ spawned \in Nat /\ Fresh = spawned + 1
    BY MaxSpawnsAssumption DEF DeployTypeOK, DownIsGone, Fresh
  <1>2. Objects \notin 0..MaxSpawns /\ Objects \in Resource /\ Pid \subseteq 0..MaxSpawns
        /\ Pid \subseteq Resource
    BY MaxSpawnsAssumption DEF Objects, Resource, Pid
  <1> DEFINE r == [rec[a] EXCEPT !.pid = Fresh]
  <1>3. r \in Record /\ r.pid = Fresh /\ r.status # "down"
    BY <1>1, <1>2 DEF Record
  <1> HIDE DEF r
  <1>4. /\ at' \in [Actor -> Places] /\ at'[a] = place
        /\ rec' \in [Actor -> Record] /\ rec'[a] = r
        /\ \A b \in Actor \ {a} : at'[b] = at[b] /\ rec'[b] = rec[b]
    BY <1>3 DEF Goes, Holds, DeployTypeOK, r
  <1>5. DeployTypeOK'
    <2>1. spawned' \in 0..MaxSpawns
      BY <1>2
    <2>2. alive' \subseteq Resource /\ forwards' \subseteq Pid \cap alive'
      BY <1>2 DEF DeployTypeOK
    <2> QED BY <1>4, <2>1, <2>2 DEF DeployTypeOK
  <1>6. PidsGivenOut'
    <2>1. \A p \in alive' : p \in Pid => p <= spawned'
      <3>1. \A p \in alive : p \in Pid => p \in Nat /\ p <= spawned
        BY MaxSpawnsAssumption DEF PidsGivenOut, Pid
      <3>2. Objects \notin Pid
        BY <1>2
      <3> QED BY <1>1, <3>1, <3>2
    <2>2. saved'.pid <= spawned'
      BY <1>1, MaxSpawnsAssumption DEF PidsGivenOut, DeployTypeOK, Record
    <2>3. \A b \in Actor : rec'[b].pid <= spawned'
      BY <1>1, <1>3, <1>4, MaxSpawnsAssumption DEF PidsGivenOut, DeployTypeOK, Record
    <2> QED BY <2>1, <2>2, <2>3 DEF PidsGivenOut
  <1>7. DownIsGone'
    <2>1. \A pid \in 0..MaxSpawns : pid <= spawned /\ pid \notin alive => pid \notin alive'
      BY <1>1, <1>2, MaxSpawnsAssumption
    <2>2. DownMeansDown'
      BY <2>1 DEF PidsGivenOut, DownIsGone, DownMeansDown, DeployTypeOK, Record
    <2>3. ASSUME NEW b \in Actor, rec'[b].status = "down"
          PROVE  at'[b] = "save" /\ rec'[b].pid \notin alive'
      <3>1. b # a
        BY <1>3, <1>4, <2>3
      <3>2. rec'[b] = rec[b] /\ at'[b] = at[b] /\ rec[b] \in Record
        BY <1>4, <3>1 DEF DeployTypeOK
      <3>3. rec[b].pid \in 0..MaxSpawns /\ rec[b].pid <= spawned
        BY <3>2 DEF PidsGivenOut, Record
      <3> QED BY <2>1, <2>3, <3>2, <3>3 DEF DownIsGone
    <2> QED BY <2>2, <2>3 DEF DownIsGone
  <1> QED BY <1>5, <1>6, <1>7

----
(* One lemma per operation *)

\* What a call that begins finds.
LEMMA BeginsFacts ==
  ASSUME DeploymentInv, NEW a \in Actor, Begins(a)
  PROVE  /\ contended' \in BOOLEAN /\ excused' \subseteq Resource
         /\ UNCHANGED <<config, saved, alive, spawned, forwards>>
         /\ saved \in Record /\ saved.pid <= spawned
         /\ saved.status = "down" => saved.pid \notin alive
  <1>1. contended' \in BOOLEAN
    BY Zenon DEF Begins, DeploymentInv, DeployTypeOK
  <1> QED BY <1>1
       DEF Begins, DeploymentInv, DeployTypeOK, PidsGivenOut, DownIsGone, DownMeansDown

\* What a caller on its way knows of its record.
LEMMA HolderFacts ==
  ASSUME DeploymentInv, NEW a \in Actor
  PROVE  /\ rec[a] \in Record /\ rec[a].pid <= spawned /\ rec[a].target \in Target
         /\ at[a] # "save" => rec[a].status # "down"
         /\ forwards \subseteq alive /\ excused \subseteq Resource /\ contended \in BOOLEAN
         /\ 0 <= spawned
  BY MaxSpawnsAssumption DEF DeploymentInv, DeployTypeOK, PidsGivenOut, DownIsGone, Record

\* The three calls begin by loading the record, or with a new one.
LEMMA CallInv ==
  ASSUME DeploymentInv, NEW a \in Actor, Up(a) \/ StatusCall(a) \/ Down(a)
  PROVE  DeploymentInv'
  <1>1. Begins(a)
    BY DEF Up, StatusCall, Down
  <1>2. CASE Holds(a, saved) /\ (Goes(a, "probeUp") \/ Goes(a, "probe") \/ Goes(a, "remove"))
             /\ saved.status # "down"
    BY <1>1, <1>2, BeginsFacts, HolderFacts, HoldingStep DEF Places
  <1>3. CASE Holds(a, saved) /\ Goes(a, "save")
    BY <1>1, <1>3, BeginsFacts, HolderFacts, HoldingStep DEF Places
  <1>4. CASE Holds(a, NewRecord(config)) /\ Goes(a, "spawn")
    <2>1. NewRecord(config) \in Record /\ NewRecord(config).pid = 0
          /\ NewRecord(config).status = "pending"
      BY RecordFacts DEF DeploymentInv, DeployTypeOK
    <2> QED BY <1>1, <1>4, <2>1, BeginsFacts, HolderFacts, HoldingStep DEF Places
  <1> QED BY <1>2, <1>3, <1>4 DEF Up, StatusCall, Down

\* Records hold resources, of the finite set there is.
LEMMA HeldFacts ==
  ASSUME NEW r \in Record
  PROVE  Held(r) \subseteq Resource /\ Removed(r) \subseteq Resource
  <1>1. r.pid # 0 => r.pid \in Resource
    BY MaxSpawnsAssumption DEF Record, Resource, Pid
  <1>2. Objects \in Resource
    BY DEF Resource
  <1> QED BY <1>1, <1>2 DEF Held, Removed

\* target.up, which spawns a process unless the target only has named objects.
LEMMA SpawnInv ==
  ASSUME DeploymentInv, NEW a \in Actor, Spawn(a)
  PROVE  DeploymentInv'
  <1>1. at[a] = "spawn" /\ Goes(a, "wait") /\ "wait" \in Places /\ UNCHANGED <<config, saved, contended>>
    BY DEF Spawn, Places
  <1>2. excused' \subseteq Resource /\ contended' \in BOOLEAN
    BY <1>1, HolderFacts DEF Spawn
  <1>3. CASE rec[a].target = "named"
    <2>1. alive' = alive \cup {Objects} /\ UNCHANGED <<rec, spawned, forwards>>
      BY <1>3 DEF Spawn
    <2>2. Holds(a, rec[a])
      BY <2>1 DEF Holds, DeploymentInv, DeployTypeOK
    <2> QED BY <1>1, <1>2, <2>1, <2>2, HolderFacts, HoldingStep
  <1>4. CASE rec[a].target # "named"
    <2>1. /\ Fresh \in Pid /\ spawned' = Fresh
          /\ Holds(a, [rec[a] EXCEPT !.pid = Fresh])
          /\ alive' \subseteq alive \cup {Fresh, Objects} /\ alive \cup {Fresh} \subseteq alive'
          /\ forwards' \subseteq forwards \cup {Fresh}
      BY <1>4 DEF Spawn
    <2> QED BY <1>1, <1>2, <2>1, SpawningStep
  <1> QED BY <1>3, <1>4

\* The probe of a port-forward that is gone.
LEMMA RestartForwardInv ==
  ASSUME DeploymentInv, NEW a \in Actor, RestartForward(a)
  PROVE  DeploymentInv'
  <1>1. Goes(a, at[a]) /\ at[a] \in Places /\ at[a] # "save"
    BY DEF RestartForward, Probing, Goes, DeploymentInv, DeployTypeOK
  <1> QED BY <1>1, HolderFacts, SpawningStep DEF RestartForward, Works

\* The other steps in which a call holds its record, or takes a new or a failed one.
LEMMA OtherStepsInv ==
  ASSUME DeploymentInv, NEW a \in Actor,
         SpawnFails(a) \/ Healthy(a) \/ Unhealthy(a) \/ Ready(a) \/ NotReady(a) \/ TakeDown(a)
           \/ Remove(a)
  PROVE  DeploymentInv'
  <1> USE DEF Works, Removes, Excuses
  <1>1. {"idle", "save", "takedown", "spawn"} \subseteq Places /\ 0 \in 0..MaxSpawns
    BY MaxSpawnsAssumption DEF Places
  <1>2. CASE SpawnFails(a) \/ Unhealthy(a)
    <2>1. FailedRecord(a) \in Record /\ FailedRecord(a).pid = 0
          /\ FailedRecord(a).status = "failed"
      BY <1>1, HolderFacts DEF FailedRecord, NewRecord, Record, RecordStatus
    <2>2. /\ Goes(a, "save") /\ Holds(a, FailedRecord(a))
          /\ alive' \subseteq alive \cup {Objects} /\ forwards' \subseteq forwards \cap alive'
          /\ UNCHANGED <<config, saved, spawned, excused, contended>>
      BY <1>2, HolderFacts DEF SpawnFails, Unhealthy
    <2> QED BY <1>1, <2>1, <2>2, HolderFacts, HoldingStep
  <1>3. CASE Healthy(a)
    <2> DEFINE r == [rec[a] EXCEPT !.status = "up"]
    <2>1. r \in Record /\ r.pid = rec[a].pid /\ r.status = "up"
      BY HolderFacts DEF Record, RecordStatus
    <2>2. Goes(a, "save") /\ Holds(a, r) /\ UNCHANGED <<alive, forwards, spawned>>
          /\ UNCHANGED <<config, saved, excused, contended>>
      BY <1>3 DEF Healthy
    <2> HIDE DEF r
    <2> QED BY <1>1, <2>1, <2>2, HolderFacts, HoldingStep
  <1>4. CASE Ready(a) \/ NotReady(a)
    <2>1. /\ Holds(a, rec[a]) /\ at[a] # "save"
          /\ UNCHANGED <<config, saved, alive, forwards, spawned, excused, contended>>
      BY <1>4 DEF Ready, NotReady, Probing, Holds, DeploymentInv, DeployTypeOK
    <2>2. Goes(a, "save") \/ Goes(a, "takedown")
      BY <1>4 DEF Ready, NotReady
    <2> QED BY <1>1, <2>1, <2>2, HolderFacts, HoldingStep
  <1>5. CASE TakeDown(a)
    <2>1. NewRecord(rec[a].target) \in Record /\ NewRecord(rec[a].target).pid = 0
          /\ NewRecord(rec[a].target).status = "pending"
      BY HolderFacts, RecordFacts
    <2>2. /\ Goes(a, "spawn") /\ Holds(a, NewRecord(rec[a].target))
          /\ alive' \subseteq alive /\ forwards' \subseteq forwards \cap alive'
          /\ UNCHANGED <<config, saved, spawned, excused, contended>>
      BY <1>5, HolderFacts DEF TakeDown
    <2> QED BY <1>1, <2>1, <2>2, HolderFacts, HoldingStep
  <1>6. CASE Remove(a)
    <2> DEFINE r == [rec[a] EXCEPT !.status = "down"]
    <2>1. r \in Record /\ r.pid = rec[a].pid
      BY HolderFacts DEF Record, RecordStatus
    <2>2. Goes(a, "save") /\ Holds(a, r) /\ UNCHANGED <<config, saved, spawned, contended>>
      BY <1>6 DEF Remove
    <2>3. alive' \subseteq alive /\ forwards' \subseteq forwards \cap alive'
      BY <1>6, HolderFacts DEF Remove
    <2>4. rec[a].pid \notin alive'
      <3>1. 0 \notin alive
        BY MaxSpawnsAssumption DEF DeploymentInv, DeployTypeOK, Resource, Pid, Objects
      <3> QED BY <1>6, <3>1 DEF Remove, Removed
    <2>5. excused' \subseteq Resource
      BY <1>6, HolderFacts DEF Remove, Resource
    <2> HIDE DEF r
    <2> QED BY <1>1, <2>1, <2>2, <2>3, <2>4, <2>5, HolderFacts, HoldingStep
  <1> QED BY <1>2, <1>3, <1>4, <1>5, <1>6

\* A call ends by saving its record, or dies; a truncated file counts as no record.
LEMMA EndInv ==
  ASSUME DeploymentInv, NEW a \in Actor, SaveRecord(a) \/ CallerDies(a)
  PROVE  DeploymentInv'
  <1> USE DEF DeploymentInv, Excuses
  <1>1. /\ at' = [at EXCEPT ![a] = "idle"] /\ rec' = [rec EXCEPT ![a] = NoRecord]
        /\ UNCHANGED <<config, alive, spawned, forwards, contended>>
    BY DEF SaveRecord, CallerDies, Goes, Holds
  <1>2. /\ at' \in [Actor -> Places] /\ rec' \in [Actor -> Record] /\ rec'[a] = NoRecord
        /\ \A b \in Actor \ {a} : at'[b] = at[b] /\ rec'[b] = rec[b]
    BY <1>1, RecordFacts DEF DeployTypeOK, Places
  <1>3. saved' \in {saved, NoRecord} \/ (saved' = rec[a] /\ at[a] = "save")
    BY DEF SaveRecord, CallerDies
  <1>4. saved' \in Record /\ saved'.pid <= spawned
        /\ (saved'.status = "down" => saved'.pid \notin alive)
    BY <1>3, HolderFacts, RecordFacts DEF DeployTypeOK, PidsGivenOut, DownIsGone, DownMeansDown
  <1>5. excused' \subseteq Resource
    <2>1. CASE SaveRecord(a)
      BY <2>1, HeldFacts, HolderFacts DEF SaveRecord, DeployTypeOK
    <2>2. CASE CallerDies(a)
      BY <2>2, HeldFacts, HolderFacts DEF CallerDies, DeployTypeOK
    <2> QED BY <2>1, <2>2
  <1>6. DeployTypeOK'
    BY <1>1, <1>2, <1>4, <1>5 DEF DeployTypeOK
  <1>7. PidsGivenOut'
    BY <1>1, <1>2, <1>4, RecordFacts, HolderFacts DEF PidsGivenOut
  <1>8. DownIsGone'
    BY <1>1, <1>2, <1>4, RecordFacts DEF DownIsGone, DownMeansDown
  <1> QED BY <1>6, <1>7, <1>8

\* What nobody's call does: a resource ends, the config is edited.
LEMMA EnvironmentInv ==
  ASSUME DeploymentInv,
         (\E r \in Resource : ResourceDies(r)) \/ (\E t \in Target : EditConfig(t))
           \/ UNCHANGED deployVars
  PROVE  DeploymentInv'
  <1> USE DEF DeploymentInv, DeployTypeOK, PidsGivenOut, DownIsGone, DownMeansDown
  <1>1. ASSUME NEW r \in Resource, ResourceDies(r) PROVE DeploymentInv'
    BY <1>1 DEF ResourceDies, Removes, Excuses
  <1>2. ASSUME NEW t \in Target, EditConfig(t) PROVE DeploymentInv'
    BY <1>2 DEF EditConfig
  <1>3. CASE UNCHANGED deployVars
    BY <1>3 DEF deployVars
  <1> QED BY <1>1, <1>2, <1>3

\* The invariant holds in every reachable state.
LEMMA DeploymentInvariant == DeploySpec => []DeploymentInv
  <1>1. DeploymentInv /\ [DeployNext]_deployVars => DeploymentInv'
    <2> SUFFICES ASSUME DeploymentInv, [DeployNext]_deployVars PROVE DeploymentInv'
      OBVIOUS
    <2>1. ASSUME NEW a \in Actor, Call(a) PROVE DeploymentInv'
      BY <2>1, CallInv, SpawnInv, RestartForwardInv, OtherStepsInv, EndInv DEF Call
    <2> QED BY <2>1, EnvironmentInv DEF DeployNext
  <1> QED BY <1>1, DeployInitInv, PTL DEF DeploySpec

----
(* The protocol of the calls: which records a caller holds where *)

\* A record with a pid is one of a deployment that was started; its port-forward, while
\* it runs, is one.
Shape(r, live, fwd) ==
  /\ r.status \in {"none", "failed"} => r.pid = 0
  /\ r.target = "named" => r.pid = 0
  /\ r.target = "forward" /\ r.pid \in live => r.pid \in fwd
Placed(place, r) ==
  /\ place = "idle" => r = NoRecord
  /\ place \in {"probeUp", "probe", "takedown"} => r.status = "up"
  /\ place = "spawn" => r.status = "pending" /\ r.pid = 0
  /\ place = "wait" => r.status = "pending"
  /\ place = "remove" => r.status \in {"up", "failed"}
  /\ place = "save" => r.status \in {"up", "failed", "down"}
OneCall ==
  ~contended => \A a, b \in Actor : a = b \/ at[a] = "idle" \/ at[b] = "idle"
ProtocolInv ==
  /\ Shape(saved, alive, forwards) /\ saved.status # "pending"
  /\ \A a \in Actor : Shape(rec[a], alive, forwards) /\ Placed(at[a], rec[a])
  /\ OneCall

\* A step of a caller keeps the protocol when its own record does.
LEMMA ProtocolStep ==
  ASSUME DeploymentInv, DeploymentInv', ProtocolInv,
         NEW a \in Actor, NEW place \in Places, NEW r \in Record,
         Goes(a, place), Holds(a, r), Placed(place, r), Shape(r, alive', forwards'),
         Shape(saved', alive', forwards'), saved'.status # "pending",
         \/ at[a] # "idle" /\ (~contended' => ~contended)
         \/ contended' = (contended \/ \E b \in Actor \ {a} : at[b] # "idle"),
         \A p \in alive' : p \in Pid /\ p <= spawned => p \in alive,
         \A p \in forwards : p \in alive' => p \in forwards'
  PROVE  ProtocolInv'
  <1> USE DEF ProtocolInv
  <1>1. /\ at'[a] = place /\ rec'[a] = r
        /\ \A b \in Actor \ {a} : at'[b] = at[b] /\ rec'[b] = rec[b]
    BY DEF Goes, Holds, DeploymentInv, DeployTypeOK
  <1>2. ASSUME NEW b \in Actor PROVE Shape(rec'[b], alive', forwards') /\ Placed(at'[b], rec'[b])
    <2>1. CASE b = a
      BY <1>1, <2>1 DEF Shape
    <2>2. CASE b # a
      <3>1. rec'[b] = rec[b] /\ at'[b] = at[b] /\ rec[b] \in Record /\ rec[b].pid <= spawned
        BY <1>1, <2>2, HolderFacts
      <3>2. rec[b].pid \in 0..MaxSpawns /\ 0 \notin alive'
        BY <3>1, MaxSpawnsAssumption DEF Record, DeploymentInv, DeployTypeOK, Resource, Pid, Objects
      <3>3. rec[b].pid \in alive' => rec[b].pid \in alive
        BY <3>1, <3>2 DEF Pid
      <3> QED BY <3>1, <3>3 DEF Shape
    <2> QED BY <2>1, <2>2
  <1>3. OneCall'
    BY <1>1 DEF OneCall
  <1> QED BY <1>2, <1>3

\* What a step of a call leaves to the others: nothing comes back, and only a step that
\* begins a call can find another one in flight.
LEMMA CallMoves ==
  ASSUME DeploymentInv, NEW a \in Actor, Call(a)
  PROVE  /\ \/ at[a] # "idle" /\ contended' = contended
            \/ contended' = (contended \/ \E b \in Actor \ {a} : at[b] # "idle")
         /\ \A p \in alive' : p \in Pid /\ p <= spawned => p \in alive
         /\ \A p \in forwards : p \in alive' => p \in forwards'
  <1>1. Objects \notin Pid /\ spawned \in Nat /\ ~(Fresh <= spawned)
    BY MaxSpawnsAssumption DEF Objects, Pid, Fresh, DeploymentInv, DeployTypeOK
  <1> USE DEF Works, Removes, Probing
  <1>2. CASE Up(a) \/ StatusCall(a) \/ Down(a)
    BY <1>2 DEF Up, StatusCall, Down, Begins
  <1>3. CASE Spawn(a) \/ RestartForward(a)
    BY <1>1, <1>3 DEF Spawn, RestartForward
  <1>4. CASE SpawnFails(a)
    BY <1>1, <1>4 DEF SpawnFails
  <1>5. CASE Healthy(a) \/ Ready(a) \/ NotReady(a) \/ SaveRecord(a) \/ CallerDies(a)
    BY <1>5 DEF Healthy, Ready, NotReady, SaveRecord, CallerDies
  <1>6. CASE Unhealthy(a) \/ TakeDown(a) \/ Remove(a)
    BY <1>6 DEF Unhealthy, TakeDown, Remove
  <1> QED BY <1>2, <1>3, <1>4, <1>5, <1>6 DEF Call

\* Every step of a call leaves its caller with a record that fits the place.
LEMMA CallProtocol ==
  ASSUME DeploymentInv, DeploymentInv', ProtocolInv, NEW a \in Actor, Call(a)
  PROVE  ProtocolInv'
  <1> USE DEF Works
  <1>1. /\ 0 \notin alive' /\ spawned \in Nat /\ ~(Fresh <= spawned)
        /\ {"idle", "probeUp", "probe", "takedown", "spawn", "wait", "remove", "save"} \subseteq Places
    BY MaxSpawnsAssumption DEF DeploymentInv, DeployTypeOK, PidsGivenOut, Resource, Pid, Objects, Fresh, Places
  <1>2. ASSUME NEW r \in Record, Shape(r, alive, forwards), r.pid <= spawned
        PROVE  Shape(r, alive', forwards')
    BY <1>1, <1>2, CallMoves, MaxSpawnsAssumption DEF Shape, Record, Pid
  <1>3. ASSUME NEW r, r.pid = 0 PROVE Shape(r, alive', forwards')
    BY <1>1, <1>3 DEF Shape
  <1>4. /\ saved \in Record /\ Shape(saved, alive', forwards') /\ saved.status # "pending"
        /\ rec[a] \in Record /\ Shape(rec[a], alive', forwards') /\ Placed(at[a], rec[a])
    BY <1>2, HolderFacts DEF ProtocolInv, DeploymentInv, DeployTypeOK, PidsGivenOut
  <1>5. CASE Up(a) \/ StatusCall(a) \/ Down(a)
    <2>1. Begins(a) /\ UNCHANGED saved
      BY <1>5 DEF Up, StatusCall, Down, Begins
    <2>2. CASE Holds(a, saved) /\ saved.status = "up" /\ (Goes(a, "probeUp") \/ Goes(a, "probe"))
      BY <1>1, <1>4, <2>1, <2>2, CallMoves, ProtocolStep DEF Placed
    <2>3. CASE Holds(a, saved) /\ saved.status \in {"up", "failed"} /\ Goes(a, "remove")
      BY <1>1, <1>4, <2>1, <2>3, CallMoves, ProtocolStep DEF Placed
    <2>4. CASE Holds(a, saved) /\ saved.status = "down" /\ Goes(a, "save")
      BY <1>1, <1>4, <2>1, <2>4, CallMoves, ProtocolStep DEF Placed
    <2>5. CASE Holds(a, NewRecord(config)) /\ Goes(a, "spawn")
      <3>1. NewRecord(config) \in Record /\ NewRecord(config).pid = 0
            /\ NewRecord(config).status = "pending"
        BY RecordFacts DEF DeploymentInv, DeployTypeOK
      <3> QED BY <1>1, <1>3, <1>4, <2>1, <2>5, <3>1, CallMoves, ProtocolStep DEF Placed
    <2> QED BY <1>4, <1>5, <2>2, <2>3, <2>4, <2>5 DEF Up, StatusCall, Down, Record, RecordStatus

  <1>6. CASE Spawn(a)
    <2>1. at[a] = "spawn" /\ Goes(a, "wait") /\ UNCHANGED saved
      BY <1>6 DEF Spawn
    <2>2. CASE rec[a].target = "named"
      <3>1. Holds(a, rec[a])
        BY <1>6, <2>2 DEF Spawn, Holds, DeploymentInv, DeployTypeOK
      <3> QED BY <1>1, <1>4, <2>1, <3>1, CallMoves, ProtocolStep DEF Placed
    <2>3. CASE rec[a].target # "named"
      <3> DEFINE r == [rec[a] EXCEPT !.pid = Fresh]
      <3>1. Holds(a, r) /\ Fresh \in Pid
            /\ (rec[a].target = "forward" => Fresh \in forwards')
        BY <1>6, <2>3 DEF Spawn
      <3>2. r \in Record /\ r.pid = Fresh /\ r.status = "pending" /\ r.target = rec[a].target
        BY <1>4, <2>1, <3>1 DEF Record, Placed, Pid
      <3> HIDE DEF r
      <3>3. Shape(r, alive', forwards') /\ Placed("wait", r)
        BY <2>3, <3>1, <3>2 DEF Shape, Placed
      <3> QED BY <1>1, <1>4, <2>1, <3>1, <3>2, <3>3, CallMoves, ProtocolStep
    <2> QED BY <2>2, <2>3
  <1>7. CASE RestartForward(a)
    <2> DEFINE r == [rec[a] EXCEPT !.pid = Fresh]
    <2>1. /\ at[a] \in {"probeUp", "probe"} /\ Goes(a, at[a]) /\ UNCHANGED saved
          /\ Holds(a, r) /\ Fresh \in Pid /\ Fresh \in forwards'
          /\ rec[a].target = "forward"
      BY <1>7 DEF RestartForward, Probing, Goes, DeploymentInv, DeployTypeOK
    <2>2. r \in Record /\ r.pid = Fresh /\ r.status = "up" /\ r.target = "forward"
      BY <1>4, <2>1 DEF Record, Placed, Pid
    <2> HIDE DEF r
    <2>3. Shape(r, alive', forwards') /\ Placed(at[a], r)
      BY <2>1, <2>2 DEF Shape, Placed
    <2> QED BY <1>1, <1>4, <2>1, <2>2, <2>3, CallMoves, ProtocolStep
  <1>8. CASE SpawnFails(a) \/ Unhealthy(a)
    <2>1. FailedRecord(a) \in Record /\ FailedRecord(a).pid = 0
          /\ FailedRecord(a).status = "failed"
      BY <1>4, MaxSpawnsAssumption DEF FailedRecord, NewRecord, Record, RecordStatus
    <2>2. Goes(a, "save") /\ Holds(a, FailedRecord(a)) /\ UNCHANGED saved /\ at[a] # "idle"
      BY <1>8 DEF SpawnFails, Unhealthy
    <2> QED BY <1>1, <1>3, <1>4, <2>1, <2>2, CallMoves, ProtocolStep DEF Placed
  <1>9. CASE Healthy(a) \/ Remove(a)
    <2>1. PICK status \in {"up", "down"} :
            /\ Holds(a, [rec[a] EXCEPT !.status = status])
            /\ Goes(a, "save") /\ UNCHANGED saved /\ at[a] \in {"wait", "remove"}
      BY <1>9 DEF Healthy, Remove
    <2> DEFINE r == [rec[a] EXCEPT !.status = status]
    <2>2. r \in Record /\ r.pid = rec[a].pid /\ r.status = status /\ r.target = rec[a].target
      BY <1>4, <2>1 DEF Record, RecordStatus
    <2> HIDE DEF r
    <2>3. Shape(r, alive', forwards') /\ Placed("save", r)
      BY <1>4, <2>1, <2>2 DEF Shape, Placed
    <2> QED BY <1>1, <1>4, <2>1, <2>2, <2>3, CallMoves, ProtocolStep DEF r
  <1>10. CASE Ready(a) \/ NotReady(a)
    <2>1. PICK place \in {"save", "takedown"} :
            Goes(a, place) /\ at[a] \in {"probeUp", "probe"} /\ Holds(a, rec[a]) /\ UNCHANGED saved
      BY <1>10 DEF Ready, NotReady, Probing, Holds, DeploymentInv, DeployTypeOK
    <2>2. Placed(place, rec[a])
      BY <1>4, <2>1 DEF Placed
    <2> QED BY <1>1, <1>4, <2>1, <2>2, CallMoves, ProtocolStep
  <1>11. CASE TakeDown(a)
    <2>1. NewRecord(rec[a].target) \in Record /\ NewRecord(rec[a].target).pid = 0
          /\ NewRecord(rec[a].target).status = "pending"
      BY <1>4, RecordFacts DEF Record
    <2>2. Goes(a, "spawn") /\ Holds(a, NewRecord(rec[a].target)) /\ UNCHANGED saved /\ at[a] # "idle"
      BY <1>11 DEF TakeDown
    <2> QED BY <1>1, <1>3, <1>4, <2>1, <2>2, CallMoves, ProtocolStep DEF Placed
  <1>12. CASE SaveRecord(a) \/ CallerDies(a)
    <2>1. /\ Goes(a, "idle") /\ Holds(a, NoRecord) /\ at[a] # "idle"
          /\ saved' \in {saved, NoRecord} \/ (saved' = rec[a] /\ at[a] = "save")
      BY <1>12 DEF SaveRecord, CallerDies
    <2>2. Shape(saved', alive', forwards') /\ saved'.status # "pending"
      BY <1>3, <1>4, <2>1, RecordFacts DEF Placed
    <2> QED BY <1>1, <1>3, <2>1, <2>2, RecordFacts, CallMoves, ProtocolStep DEF Placed
  <1> QED BY <1>5, <1>6, <1>7, <1>8, <1>9, <1>10, <1>11, <1>12 DEF Call

\* No record, no call: the protocol holds at first, and nobody else's step disturbs it.
LEMMA InitProtocol == DeployInit => ProtocolInv
  BY RecordFacts DEF DeployInit, ProtocolInv, OneCall, Shape, Placed
LEMMA EnvironmentProtocol ==
  ASSUME DeploymentInv, ProtocolInv,
         (\E r \in Resource : ResourceDies(r)) \/ (\E t \in Target : EditConfig(t))
           \/ UNCHANGED deployVars
  PROVE  ProtocolInv'
  <1>1. UNCHANGED <<saved, at, rec, contended>>
    BY DEF ResourceDies, EditConfig, deployVars
  <1>2. ASSUME NEW r, Shape(r, alive, forwards) PROVE Shape(r, alive', forwards')
    BY <1>2 DEF Shape, ResourceDies, EditConfig, deployVars, Removes
  <1> QED BY <1>1, <1>2 DEF ProtocolInv, OneCall

----
(* The account of what runs: a call that works keeps what its record held, or takes it
   away; only the save and the death of a caller change the saved *)

\* What the file holds of a deployment of the same target is in the hands of the call.
Kept(a) ==
  ~contended /\ at[a] # "idle" /\ saved.target = rec[a].target
    => (Held(saved) \cap alive) \ (excused \cup forwards) \subseteq Held(rec[a])
\* A call that holds a deployment that is up holds what is running.
UpIsThere(a) ==
  ~contended /\ at[a] # "idle" /\ rec[a].status = "up" => Held(rec[a]) \subseteq alive \cup excused
AccountInv ==
  /\ NoLostAgent /\ UpMeansUp
  /\ \A a \in Actor : Kept(a) /\ UpIsThere(a)

Begin(a) == Up(a) \/ StatusCall(a) \/ Down(a)
Work(a) ==
  \/ Spawn(a) \/ SpawnFails(a) \/ Healthy(a) \/ Unhealthy(a) \/ RestartForward(a) \/ Ready(a)
  \/ NotReady(a) \/ TakeDown(a) \/ Remove(a)
End(a) == SaveRecord(a) \/ CallerDies(a)

\* A step between the first and the last of a call.  What runs after it unexcused is held
\* by the caller's record, or ran before it and was not the caller's.
LEMMA WorkAccount ==
  ASSUME DeploymentInv, ProtocolInv, NEW a \in Actor, Work(a), ~contended'
  PROVE  /\ at[a] # "idle" /\ at'[a] # "idle" /\ ~contended /\ UNCHANGED saved
         /\ \A b \in Actor \ {a} : at'[b] = at[b] /\ rec'[b] = rec[b]
         /\ rec'[a].target = rec[a].target
         /\ \A x \in alive' \ (excused' \cup forwards') :
              x \in Held(rec'[a]) \/ x \in alive \ (excused \cup forwards \cup Held(rec[a]))
         /\ rec'[a].status = "up" =>
              \/ Held(rec'[a]) \subseteq alive'
              \/ rec'[a] = rec[a] /\ UNCHANGED <<alive, excused>>
  <1> USE DEF Works
  <1> DEFINE Account == \A x \in alive' \ (excused' \cup forwards') :
              x \in Held(rec'[a]) \/ x \in alive \ (excused \cup forwards \cup Held(rec[a]))
             Above == rec'[a].status = "up" =>
                        \/ Held(rec'[a]) \subseteq alive'
                        \/ rec'[a] = rec[a] /\ UNCHANGED <<alive, excused>>
             Moves == /\ at[a] # "idle" /\ at'[a] # "idle" /\ ~contended /\ UNCHANGED saved
                      /\ \A b \in Actor \ {a} : at'[b] = at[b] /\ rec'[b] = rec[b]
                      /\ rec'[a].target = rec[a].target
  <1> SUFFICES Account /\ Above /\ Moves
    OBVIOUS
  <1> USE DEF Goes, Holds
  <1>1. /\ at \in [Actor -> Places] /\ rec \in [Actor -> Record] /\ rec[a] \in Record
        /\ Placed(at[a], rec[a]) /\ Shape(rec[a], alive, forwards)
        /\ Objects # 0 /\ Objects \notin Pid /\ 0 \notin Pid /\ rec[a].pid # Objects
    BY MaxSpawnsAssumption
       DEF DeploymentInv, DeployTypeOK, ProtocolInv, Objects, Pid, Record
  <1>2. CASE Spawn(a)
    <2>1. rec'[a] = IF rec[a].target = "named" THEN rec[a] ELSE [rec[a] EXCEPT !.pid = Fresh]
      BY <1>1, <1>2 DEF Spawn
    <2>2. rec'[a].target = rec[a].target /\ rec'[a].status = "pending" /\ rec[a].pid = 0
          /\ rec'[a].pid = (IF rec[a].target = "named" THEN 0 ELSE Fresh)
      BY <1>1, <1>2, <2>1 DEF Spawn, Placed, Record
    <2>3. Account
      BY <1>1, <1>2, <2>2 DEF Spawn, Placed, Held
    <2> QED BY <1>1, <1>2, <2>2, <2>3 DEF Spawn
  <1>3. CASE RestartForward(a)
    <2>1. rec'[a] = [rec[a] EXCEPT !.pid = Fresh]
      BY <1>1, <1>3 DEF RestartForward
    <2>2. rec'[a].target = rec[a].target /\ rec'[a].status = rec[a].status /\ rec'[a].pid = Fresh
      BY <1>1, <2>1 DEF Record
    <2>3. /\ at'[a] = at[a] /\ Probing(a) /\ rec[a].target = "forward"
          /\ alive' = alive \cup {Fresh} /\ forwards' = forwards \cup {Fresh} /\ excused' = excused
          /\ Objects \in alive /\ rec[a].pid \notin alive /\ rec[a].status = "up"
      BY <1>1, <1>3 DEF RestartForward, Probing, Placed
    <2>4. Account
      BY <1>1, <2>2, <2>3 DEF Held
    <2>5. Above
      BY <1>1, <2>2, <2>3 DEF Held
    <2> QED BY <1>1, <1>3, <2>2, <2>3, <2>4, <2>5 DEF RestartForward, Probing
  <1>4. CASE SpawnFails(a) \/ Unhealthy(a)
    <2>1. rec'[a] = FailedRecord(a)
      BY <1>1, <1>4 DEF SpawnFails, Unhealthy
    <2>2. rec'[a].target = rec[a].target /\ rec'[a].status = "failed" /\ rec'[a].pid = 0
      BY <2>1 DEF FailedRecord, NewRecord
    <2>3. CASE SpawnFails(a)
      <3>1. Account
        BY <1>1, <2>2, <2>3 DEF SpawnFails, Held, Placed
      <3> QED BY <1>1, <2>2, <2>3, <3>1 DEF SpawnFails
    <2>4. CASE Unhealthy(a)
      <3>1. Account
        BY <1>1, <2>2, <2>4, TargetAssumption DEF Unhealthy, Held, Placed, Shape, Record, Removes
      <3> QED BY <1>1, <2>2, <2>4, <3>1 DEF Unhealthy
    <2> QED BY <1>4, <2>3, <2>4
  <1>5. CASE Healthy(a)
    <2>1. rec'[a] = [rec[a] EXCEPT !.status = "up"]
      BY <1>1, <1>5 DEF Healthy
    <2>2. rec'[a].target = rec[a].target /\ rec'[a].status = "up" /\ rec'[a].pid = rec[a].pid
      BY <1>1, <2>1 DEF Record
    <2>3. at[a] = "wait" /\ rec[a].status = "pending" /\ Held(rec[a]) \subseteq alive
      BY <1>1, <1>5 DEF Healthy, Placed
    <2>4. Held(rec'[a]) = Held(rec[a])
      BY <2>2, <2>3 DEF Held
    <2> QED BY <1>1, <1>5, <2>2, <2>3, <2>4 DEF Healthy
  <1>6. CASE Ready(a) \/ NotReady(a)
    BY <1>1, <1>6 DEF Ready, NotReady, Probing
  <1>7. CASE TakeDown(a)
    <2>1. rec'[a].target = rec[a].target /\ rec'[a].status = "pending" /\ rec'[a].pid = 0
      BY <1>1, <1>7 DEF TakeDown, NewRecord
    <2>2. Account
      BY <1>1, <1>7, <2>1 DEF TakeDown, Removes, Removed, Held
    <2> QED BY <1>1, <1>7, <2>1, <2>2 DEF TakeDown
  <1>8. CASE Remove(a)
    <2>1. rec'[a] = [rec[a] EXCEPT !.status = "down"]
      BY <1>1, <1>8 DEF Remove
    <2>2. rec'[a].target = rec[a].target /\ rec'[a].status = "down" /\ rec'[a].pid = rec[a].pid
      BY <1>1, <2>1 DEF Record
    <2>3. Account
      BY <1>1, <1>8, <2>2 DEF Remove, Removes, Removed, Held, Excuses
    <2> QED BY <1>1, <1>8, <2>2, <2>3 DEF Remove
  <1> QED BY <1>2, <1>3, <1>4, <1>5, <1>6, <1>7, <1>8 DEF Work

\* What was known stays known unless the caller or the file held it.
LEMMA KnownStep ==
  ASSUME NEW a \in Actor, \A b \in Actor \ {a} : rec'[b] = rec[b]
  PROVE  /\ Held(saved') \cup Held(rec'[a]) \subseteq Known'
         /\ Known \subseteq Known' \cup Held(saved) \cup Held(rec[a])
  BY DEF Known, Held

LEMMA WorkAccounted ==
  ASSUME DeploymentInv, ProtocolInv, AccountInv, NEW a \in Actor, Work(a)
  PROVE  AccountInv'
  <1> SUFFICES ASSUME ~contended' PROVE AccountInv'
    BY DEF AccountInv, NoLostAgent, UpMeansUp, Kept, UpIsThere
  <1>1. /\ at[a] # "idle" /\ at'[a] # "idle" /\ ~contended /\ UNCHANGED saved
        /\ \A b \in Actor \ {a} : at'[b] = at[b] /\ rec'[b] = rec[b]
        /\ rec'[a].target = rec[a].target
    BY WorkAccount
  <1>2. \A x \in alive' \ (excused' \cup forwards') :
          x \in Held(rec'[a]) \/ x \in alive \ (excused \cup forwards \cup Held(rec[a]))
    BY WorkAccount
  <1>3. rec'[a].status = "up" =>
          Held(rec'[a]) \subseteq alive' \/ (rec'[a] = rec[a] /\ UNCHANGED <<alive, excused>>)
    BY WorkAccount
  <1>4. \A b \in Actor \ {a} : at'[b] = "idle"
    BY <1>1 DEF ProtocolInv, OneCall
  <1>5. NoLostAgent'
    <2>1. Known \subseteq Known' \cup Held(rec[a]) /\ Held(rec'[a]) \subseteq Known'
      BY <1>1, KnownStep
    <2> QED BY <1>1, <1>2, <2>1 DEF AccountInv, NoLostAgent
  <1>6. Kept(a)'
    BY <1>1, <1>2 DEF AccountInv, Kept
  <1>7. UpIsThere(a)'
    BY <1>1, <1>3 DEF AccountInv, UpIsThere
  <1>8. \A b \in Actor : Kept(b)' /\ UpIsThere(b)'
    BY <1>4, <1>6, <1>7 DEF Kept, UpIsThere
  <1> QED BY <1>1, <1>5, <1>8 DEF AccountInv, UpMeansUp

\* A call that begins alone holds the file's record, or a new one where nothing ran.
LEMMA BeginAccounted ==
  ASSUME DeploymentInv, ProtocolInv, AccountInv, NEW a \in Actor, Begin(a)
  PROVE  AccountInv'
  <1> SUFFICES ASSUME ~contended' PROVE AccountInv'
    BY DEF AccountInv, NoLostAgent, UpMeansUp, Kept, UpIsThere
  <1>1. /\ at[a] = "idle" /\ ~contended /\ \A b \in Actor : at[b] = "idle"
        /\ UNCHANGED <<saved, alive, forwards, excused>>
        /\ \A b \in Actor \ {a} : at'[b] = "idle" /\ rec'[b] = rec[b]
        /\ rec[a] = NoRecord /\ at'[a] # "idle"
    BY DEF Begin, Up, StatusCall, Down, Begins, DeploymentInv, DeployTypeOK, ProtocolInv, Placed, Goes, Holds
  <1>2. \/ rec'[a] = saved
        \/ rec'[a] = NewRecord(config) /\ (saved.status # "up" \/ saved.target # config)
    BY <1>1 DEF Begin, Up, StatusCall, Down, Begins, DeploymentInv, DeployTypeOK, Holds
  <1>3. NoLostAgent'
    <2>1. Held(rec[a]) = {}
      BY <1>1, RecordFacts DEF Held
    <2>2. Known \subseteq Known'
      BY <1>1, <2>1, KnownStep
    <2> QED BY <1>1, <2>2 DEF AccountInv, NoLostAgent
  <1>4. CASE rec'[a] = saved
    <2>1. Kept(a)' /\ UpIsThere(a)'
      BY <1>1, <1>4 DEF AccountInv, UpMeansUp, Kept, UpIsThere
    <2> QED BY <1>1, <1>3, <2>1 DEF AccountInv, UpMeansUp, Kept, UpIsThere
  <1>5. CASE rec'[a] = NewRecord(config) /\ (saved.status # "up" \/ saved.target # config)
    <2>1. rec'[a].status = "pending" /\ rec'[a].target = config
      BY <1>5 DEF NewRecord
    <2>2. saved.status # "up" => Held(saved) \cap alive \subseteq Held(rec'[a]) \/ saved.target # config
      BY <2>1 DEF Held, DeploymentInv, DeployTypeOK, DownIsGone, DownMeansDown, ProtocolInv, Shape, Record,
                  RecordStatus
    <2>3. Kept(a)' /\ UpIsThere(a)'
      BY <1>1, <1>5, <2>1, <2>2 DEF Kept, UpIsThere
    <2> QED BY <1>1, <1>3, <2>1, <2>3 DEF AccountInv, UpMeansUp, Kept, UpIsThere
  <1> QED BY <1>2, <1>4, <1>5

\* The save puts the caller's record in the file's place; what the file held is either in
\* it or excused.  A death leaves the file, or no record.
LEMMA EndAccounted ==
  ASSUME DeploymentInv, ProtocolInv, AccountInv, NEW a \in Actor, End(a)
  PROVE  AccountInv'
  <1> USE DEF Excuses
  <1> SUFFICES ASSUME ~contended' PROVE AccountInv'
    BY DEF AccountInv, NoLostAgent, UpMeansUp, Kept, UpIsThere
  <1>1. /\ at[a] # "idle" /\ at'[a] = "idle" /\ ~contended /\ UNCHANGED <<alive, forwards>>
        /\ \A b \in Actor \ {a} : at'[b] = at[b] /\ rec'[b] = rec[b]
    BY DEF End, SaveRecord, CallerDies, Goes, Holds, DeploymentInv, DeployTypeOK
  <1>2. \A b \in Actor : at'[b] = "idle"
    BY <1>1 DEF ProtocolInv, OneCall
  <1>3. \A b \in Actor : Kept(b)' /\ UpIsThere(b)'
    BY <1>2 DEF Kept, UpIsThere
  <1>4. Known \subseteq Known' \cup Held(saved) \cup Held(rec[a]) /\ Held(saved') \subseteq Known'
    BY <1>1, KnownStep
  <1>5. CASE SaveRecord(a)
    <2>1. saved' = rec[a] /\ excused' = excused \cup (IF saved.target # rec[a].target THEN Held(saved) ELSE {})
      BY <1>1, <1>5 DEF SaveRecord
    <2>2. Kept(a) /\ UpIsThere(a)
      BY DEF AccountInv
    <2>3. NoLostAgent'
      BY <1>1, <1>4, <2>1, <2>2 DEF AccountInv, NoLostAgent, Kept
    <2>4. UpMeansUp'
      BY <1>1, <2>1, <2>2 DEF UpMeansUp, UpIsThere
    <2> QED BY <1>3, <2>3, <2>4 DEF AccountInv
  <1>6. CASE CallerDies(a)
    <2>1. /\ saved' \in {saved, NoRecord}
          /\ excused' = excused \cup ((Held(rec[a]) \cup Held(saved)) \ Held(saved')) \cup (Held(saved) \ alive)
      BY <1>1, <1>6 DEF CallerDies
    <2>2. NoLostAgent'
      BY <1>1, <1>4, <2>1 DEF AccountInv, NoLostAgent
    <2>3. UpMeansUp'
      BY <1>1, <2>1, RecordFacts DEF UpMeansUp
    <2> QED BY <1>3, <2>2, <2>3 DEF AccountInv
  <1> QED BY <1>5, <1>6 DEF End

\* At first nothing runs; what ends by itself, or a config edited, is excused or harmless.
LEMMA InitAccounted == DeployInit => AccountInv
  BY RecordFacts DEF DeployInit, AccountInv, NoLostAgent, UpMeansUp, Kept, UpIsThere
LEMMA EnvironmentAccounted ==
  ASSUME DeploymentInv, AccountInv,
         (\E r \in Resource : ResourceDies(r)) \/ (\E t \in Target : EditConfig(t))
           \/ UNCHANGED deployVars
  PROVE  AccountInv'
  <1>1. UNCHANGED <<saved, at, rec, contended>> /\ Known' = Known
    BY DEF ResourceDies, EditConfig, deployVars, Known
  <1>2. ~contended => /\ alive' \subseteq alive /\ excused \subseteq excused'
                      /\ alive \subseteq alive' \cup excused'
                      /\ forwards \cap alive' \subseteq forwards'
    BY DEF ResourceDies, EditConfig, deployVars, Removes, Excuses
  <1>3. NoLostAgent'
    BY <1>1, <1>2 DEF AccountInv, NoLostAgent
  <1>4. UpMeansUp'
    BY <1>1, <1>2 DEF AccountInv, UpMeansUp
  <1>5. ASSUME NEW a \in Actor PROVE Kept(a)' /\ UpIsThere(a)'
    BY <1>1, <1>2 DEF AccountInv, Kept, UpIsThere
  <1> QED BY <1>3, <1>4, <1>5 DEF AccountInv

\* The account is kept by every step, given the types and the protocol.
LEMMA AccountInvariant == DeploySpec => [](DeploymentInv /\ ProtocolInv /\ AccountInv)
  <1>1. DeploymentInv /\ DeploymentInv' /\ ProtocolInv /\ AccountInv /\ [DeployNext]_deployVars
          => ProtocolInv' /\ AccountInv'
    <2> SUFFICES ASSUME DeploymentInv, DeploymentInv', ProtocolInv, AccountInv, [DeployNext]_deployVars
                 PROVE  ProtocolInv' /\ AccountInv'
      OBVIOUS
    <2>1. ASSUME NEW a \in Actor, Call(a) PROVE ProtocolInv' /\ AccountInv'
      <3>1. Begin(a) \/ Work(a) \/ End(a)
        BY <2>1 DEF Call, Begin, Work, End
      <3> QED BY <2>1, <3>1, CallProtocol, BeginAccounted, WorkAccounted, EndAccounted
    <2> QED BY <2>1, EnvironmentProtocol, EnvironmentAccounted DEF DeployNext
  <1> QED BY <1>1, InitProtocol, InitAccounted, DeploymentInvariant, PTL DEF DeploySpec

----
(* The theorems *)

\* Every variable keeps its type; a port-forward is a process that runs.
THEOREM DeploymentTypes == DeploySpec => []DeployTypeOK
  <1>1. DeploymentInv => DeployTypeOK
    BY DEF DeploymentInv
  <1> QED BY <1>1, DeploymentInvariant, PTL

\* A record that says down names no process that still runs, for any number of callers
\* whose calls interleave, die and overwrite each other's records.
THEOREM DownStaysDown == DeploySpec => []DownMeansDown
  <1>1. DeploymentInv => DownMeansDown
    BY DEF DeploymentInv, DownIsGone
  <1> QED BY <1>1, DeploymentInvariant, PTL

\* No agent runs on unnoticed: for any number of callers and processes, whatever runs is held
\* by deployment.json or by a call in flight, or was excused: its caller was killed, its
\* target was changed, its delete failed, or calls overlapped.
THEOREM NoAgentIsLost == DeploySpec => []NoLostAgent
  <1>1. AccountInv => NoLostAgent
    BY DEF AccountInv
  <1> QED BY <1>1, AccountInvariant, PTL

\* Between calls that did not overlap, a record that says up names what is running: no
\* sequence of up, status and down takes a deployment down and leaves the record saying up.
THEOREM UpIsRunning == DeploySpec => []UpMeansUp
  <1>1. AccountInv => UpMeansUp
    BY DEF AccountInv
  <1> QED BY <1>1, AccountInvariant, PTL
====
