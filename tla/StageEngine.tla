---- MODULE StageEngine ----
(***************************************************************************)
(* The stage engine of evalbuilder (pipeline/engine.py): PipelineRunner    *)
(* walks a fixed list of stages, and after every status change rewrites    *)
(* work/state.json with Path.write_text, which is not atomic.  The runner  *)
(* process may die at any step; the next one starts afresh or with         *)
(* --resume, --from, --until and a set of stages the config skips.         *)
(*                                                                         *)
(* `mem` is the PipelineState object of the runner, `disk` the document    *)
(* state.json holds.  `dirty` is TRUE between a status change and the end  *)
(* of the save that follows it: a crash in that window may leave the old   *)
(* document or a truncated one.                                            *)
(***************************************************************************)
EXTENDS Naturals

CONSTANTS
  N,          \* number of stages; a stage is its position in the list
  Deps,       \* Deps[s]: Stage.deps as positions
  Optional,   \* stages with optional=True
  Always,     \* stages with always=True
  Retries,    \* Retries[s]: Stage.retries, or the runner's max_retries
  Skippable   \* stages the config may put in the skip set

Stage == 1..N

ASSUME StagesAssumption == N \in Nat \ {0}

\* build_stages lists every stage after the stages it depends on.
ASSUME DepsAssumption ==
  Deps \in [Stage -> SUBSET Stage] /\ \A s \in Stage : \A d \in Deps[s] : d < s

\* Nothing depends on an always stage (the report is the only one).
ASSUME AlwaysAssumption ==
  Always \subseteq Stage /\ \A s \in Stage : Deps[s] \cap Always = {}

ASSUME OptionsAssumption ==
  Optional \subseteq Stage /\ Skippable \subseteq Stage /\ Retries \in [Stage -> Nat]

VARIABLES
  pc,        \* "down", or where run() is: "loop", "exec", "after", "done"
  cur,       \* position of the stage the loop is at (N + 1 past the end)
  opts,      \* how the runner was started
  mem,       \* the runner's PipelineState: stage statuses and stopped_after
  stopped,   \* run()'s local `stopped`: a stage, or 0 for None
  attempts,  \* attempts of the stage being executed, 0 between stages
  dirty,     \* mem changed and the save that follows has not completed
  file,      \* state.json: "absent", "whole" or "torn" (truncated)
  disk,      \* the document in state.json while it is whole
  ran,       \* history: stages executed by this run
  stale      \* history: stages some dependency ran after they last succeeded

vars == <<pc, cur, opts, mem, stopped, attempts, dirty, file, disk, ran, stale>>

----
(* Statuses and documents *)

OkStatuses == {"ok", "recovered"}
Status == OkStatuses \cup {"pending", "running", "failed", "skipped", "awaiting_review"}

Document == [st : [Stage -> Status], stoppedAfter : 0..N]
Options == [resume : BOOLEAN, from : 0..N, until : 0..N, skip : SUBSET Skippable]

NewState == [st |-> [s \in Stage |-> "pending"], stoppedAfter |-> 0]
NoOptions == [resume |-> FALSE, from |-> 0, until |-> 0, skip |-> {}]

Succeeded(doc, s) == doc.st[s] \in OkStatuses

Dependents(s) == {t \in Stage : s \in Deps[t]}

\* --from pops the stage and everything after it; run() then registers every stage
\* again, a missing record starting as "pending".
InvalidateOnlyThat(doc, from) ==
  [doc EXCEPT !.st = [s \in Stage |-> IF s = from THEN "pending" ELSE doc.st[s]]]
Invalidate(doc, from) ==
  [doc EXCEPT !.st = [s \in Stage |-> IF from # 0 /\ s >= from THEN "pending" ELSE doc.st[s]]]

----
(* Starting a run *)

\* The part of run() before the loop.  Without --resume, or without a state file,
\* the state is new and --from is ignored (here: not given).  A truncated file makes PipelineState.load
\* raise: nothing changes.
Start ==
  /\ pc \in {"down", "done"}
  /\ \E o \in Options :
       /\ o.resume /\ file # "absent" => file = "whole"
       /\ o.from # 0 => o.resume
       /\ mem' = IF o.resume /\ file = "whole" THEN Invalidate(disk, o.from) ELSE NewState
       /\ opts' = o
  /\ pc' = "loop"
  /\ cur' = 1
  /\ stopped' = 0
  /\ attempts' = 0
  /\ dirty' = TRUE
  /\ ran' = {}
  /\ UNCHANGED <<file, disk, stale>>

\* PipelineState.save: the whole document is rewritten.
Save ==
  /\ pc # "down"
  /\ dirty
  /\ dirty' = FALSE
  /\ file' = "whole"
  /\ disk' = mem
  /\ UNCHANGED <<pc, cur, opts, mem, stopped, attempts, ran, stale>>

----
(* The loop of run(): what happens to the stage at `cur` *)

AtStage == pc = "loop" /\ ~dirty /\ cur <= N

IsCached(s) == opts.resume /\ Succeeded(mem, s) /\ s \notin Always
IsSkippedByConfig(s) == s \in opts.skip /\ s \notin Always
IsStopped(s) == stopped # 0 /\ s \notin Always
IsBlockedByFailure(s) == s \notin Always /\ \E d \in Deps[s] : mem.st[d] \in {"failed", "skipped"}
IsBlocked(s) == s \notin Always /\ \E d \in Deps[s] : ~Succeeded(mem, d)

NextStageMarking(status) ==
  /\ mem' = [mem EXCEPT !.st[cur] = status]
  /\ dirty' = TRUE
  /\ cur' = cur + 1
  /\ UNCHANGED <<pc, opts, stopped, attempts, file, disk, ran, stale>>

\* Already complete on a resumed run: the loop continues before it looks at --until.
Cached ==
  /\ AtStage
  /\ IsCached(cur)
  /\ cur' = cur + 1
  /\ UNCHANGED <<pc, opts, mem, stopped, attempts, dirty, file, disk, ran, stale>>

\* The three reasons for which _mark records "skipped".
SkipBeforeCache ==
  /\ AtStage
  /\ IsSkippedByConfig(cur) \/ (~IsCached(cur) /\ (IsStopped(cur) \/ IsBlocked(cur)))
  /\ NextStageMarking("skipped")
Skip ==
  /\ AtStage
  /\ ~IsCached(cur)
  /\ IsSkippedByConfig(cur) \/ IsStopped(cur) \/ IsBlocked(cur)
  /\ NextStageMarking("skipped")

ExecuteUnsaved ==
  /\ AtStage
  /\ ~(IsCached(cur) \/ IsSkippedByConfig(cur) \/ IsStopped(cur) \/ IsBlocked(cur))
  /\ mem' = [mem EXCEPT !.st[cur] = "running"]
  /\ attempts' = 0
  /\ pc' = "exec"
  /\ ran' = ran \cup {cur}
  /\ UNCHANGED <<cur, opts, stopped, dirty, file, disk, stale>>
\* _execute up to its first save: the stage is "running" on disk before it runs.
Execute ==
  /\ AtStage
  /\ ~(IsCached(cur) \/ IsSkippedByConfig(cur) \/ IsStopped(cur) \/ IsBlocked(cur))
  /\ mem' = [mem EXCEPT !.st[cur] = "running"]
  /\ attempts' = 0
  /\ dirty' = TRUE
  /\ pc' = "exec"
  /\ ran' = ran \cup {cur}
  /\ UNCHANGED <<cur, opts, stopped, file, disk, stale>>

----
(* _execute: one call of the stage's function *)

Finish(status) ==
  /\ mem' = [mem EXCEPT !.st[cur] = status]
  /\ dirty' = TRUE
  /\ pc' = "after"

Calling == pc = "exec" /\ ~dirty

\* Every call, successful or not, may have rewritten the stage's artifacts.
CallSucceeds ==
  /\ Calling
  /\ attempts' = attempts + 1
  /\ Finish(IF attempts' = 1 THEN "ok" ELSE "recovered")
  /\ stale' = (stale \cup Dependents(cur)) \ {cur}
  /\ UNCHANGED <<cur, opts, stopped, file, disk, ran>>

CallStops ==
  /\ Calling
  /\ attempts' = attempts + 1
  /\ Finish("awaiting_review")
  /\ stale' = stale \cup Dependents(cur)
  /\ UNCHANGED <<cur, opts, stopped, file, disk, ran>>

\* An exception: the last one fails the stage, an earlier one runs the recovery
\* hook (whose own exceptions become a note) and the stage is called again.
RetryFromStart ==
  /\ attempts' = 0
  /\ dirty' = TRUE
  /\ UNCHANGED <<pc, mem>>
GiveUpOrRetry ==
  IF attempts + 1 > Retries[cur]
  THEN attempts' = attempts + 1 /\ Finish("failed")
  ELSE attempts' = attempts + 1 /\ UNCHANGED <<pc, mem, dirty>>
CallFails ==
  /\ Calling
  /\ GiveUpOrRetry
  /\ stale' = stale \cup Dependents(cur)
  /\ UNCHANGED <<cur, opts, stopped, file, disk, ran>>

\* What run() does after _execute returned: stop on a required review gate, or
\* after the --until stage.  stopped_after is set after the stage's save, so only a
\* later save carries it to disk.
StopsForReview(s) == mem.st[s] = "awaiting_review" /\ s \notin Optional
StopsForUntil(s) == opts.until = s /\ stopped = 0 /\ ~StopsForReview(s)
After ==
  /\ pc = "after"
  /\ ~dirty
  /\ stopped' = IF StopsForReview(cur) \/ StopsForUntil(cur) THEN cur ELSE stopped
  /\ mem' = IF StopsForUntil(cur) THEN [mem EXCEPT !.stoppedAfter = cur] ELSE mem
  /\ pc' = "loop"
  /\ cur' = cur + 1
  /\ attempts' = 0
  /\ UNCHANGED <<opts, dirty, file, disk, ran, stale>>

Return ==
  /\ pc = "loop"
  /\ ~dirty
  /\ cur = N + 1
  /\ pc' = "done"
  /\ UNCHANGED <<cur, opts, mem, stopped, attempts, dirty, file, disk, ran, stale>>

\* The runner dies (killed, stopped by the UI, power loss).  In a save, write_text
\* may have truncated the file (its content is then of no use).
Crash ==
  /\ pc \in {"loop", "exec", "after"}
  /\ \/ UNCHANGED <<file, disk>>
     \/ dirty /\ file' = "torn" /\ disk' = NewState
  /\ pc' = "down"
  /\ cur' = 1
  /\ opts' = NoOptions
  /\ mem' = NewState
  /\ stopped' = 0
  /\ attempts' = 0
  /\ dirty' = FALSE
  /\ ran' = {}
  /\ UNCHANGED stale

----

Init ==
  /\ pc = "down"
  /\ cur = 1
  /\ opts = NoOptions
  /\ mem = NewState
  /\ stopped = 0
  /\ attempts = 0
  /\ dirty = FALSE
  /\ file = "absent"
  /\ disk = NewState
  /\ ran = {}
  /\ stale = {}

Step ==
  \/ Save
  \/ Cached
  \/ Skip
  \/ Execute
  \/ CallSucceeds
  \/ CallStops
  \/ CallFails
  \/ After
  \/ Return

Next == Start \/ Step \/ Crash

\* The runner is one thread that keeps taking its next step; nobody has to start it,
\* and a crash is never required.  A stage's function is assumed to return.
Spec == Init /\ [][Next]_vars /\ WF_vars(Step)

----
(* Properties *)

TypeOK ==
  /\ pc \in {"down", "loop", "exec", "after", "done"}
  /\ cur \in 1..N+1
  /\ opts \in Options
  /\ mem \in Document
  /\ stopped \in 0..N
  /\ attempts \in Nat
  /\ dirty \in BOOLEAN
  /\ file \in {"absent", "whole", "torn"}
  /\ disk \in Document
  /\ ran \subseteq Stage
  /\ stale \subseteq Stage

Complete(doc) == {s \in Stage \ Always : Succeeded(doc, s)}
Durable == IF file = "whole" THEN Complete(disk) ELSE {}

\* A stage recorded complete has every dependency recorded complete, in the runner
\* and in state.json, after any sequence of crashes, resumes, --from, --until and
\* skips: what lets a resumed run trust the "cached" stages.
DependenciesComplete ==
  \A done \in {Complete(mem), Durable} : \A s \in done : Deps[s] \subseteq done

\* No stage counts as complete, in the runner or for the next resume, when a
\* dependency ran again (perhaps writing new artifacts) after it succeeded.
NoStaleResult == (Complete(mem) \cup Durable) \cap stale = {}

\* While a stage's function runs, state.json is whole and shows that stage running
\* and every other status the runner knows: a crash inside a stage loses nothing.
DurableWhileRunning ==
  Calling => file = "whole" /\ disk = mem /\ disk.st[cur] = "running"

\* Once the run has stopped (a review gate, --until), only always stages after the
\* stop execute in that run, also when they run after a crash of an earlier one.
StopIsFinal == \A s \in ran \ Always : stopped # 0 => s <= stopped

\* When run() returns, every stage has reached a final status, all of it is on
\* disk, and every always stage executed in this very run: the report always lands.
ReturnIsSettled ==
  pc = "done" =>
    /\ \A s \in Stage : mem.st[s] \notin {"pending", "running"}
    /\ file = "whole" /\ disk.st = mem.st
    /\ Always \subseteq ran

KeepsComplete ==
  \/ pc \in {"down", "done"} \/ ~opts.resume \/ file' = "torn"
  \/ \A s \in Durable : s \in Durable' \/ (opts.from # 0 /\ s >= opts.from)

\* --resume never takes back a completed stage before --from, whatever the skip set
\* and --until say (an always stage is rebuilt); only a save cut short loses it.
ResumeKeepsComplete == [][KeepsComplete]_vars

\* A run that is started returns, or its process dies.
RunEnds == (pc = "loop") ~> (pc \in {"done", "down"})

\* The inductive invariant behind the properties above.  What state.json and the
\* runner may differ in at each point of run():
SavedInv ==
  /\ dirty => pc \notin {"down", "done"}
  /\ ~dirty /\ pc # "down" => file = "whole" /\ disk.st = mem.st
  /\ ~dirty /\ pc = "exec" => disk = mem
  /\ dirty /\ pc = "loop" => Complete(mem) \subseteq Durable
  /\ dirty /\ pc = "exec" => Complete(mem) = Durable
  /\ dirty /\ pc = "after" => Complete(mem) \ {cur} = Durable
KeptInv ==
  dirty /\ pc = "loop" /\ opts.resume =>
    \A s \in Durable : s \in Complete(mem) \/ (opts.from # 0 /\ s >= opts.from)
\* the stage in _execute:
AtWorkInv ==
  /\ pc \in {"exec", "after"} =>
       cur \in ran /\ cur \in Stage /\ (cur \notin Always => Deps[cur] \subseteq Complete(mem))
  /\ pc = "exec" => mem.st[cur] = "running"
  /\ pc = "after" => mem.st[cur] \notin {"pending", "running"}
\* and how far the loop is: behind it every stage is settled, and a run that is not
\* a resume has nothing complete ahead of it.
ProgressInv ==
  /\ pc \in {"loop", "exec", "after"} /\ ~opts.resume =>
       \A s \in Complete(mem) : s < cur \/ (s = cur /\ pc = "after")
  /\ \A s \in Stage : s < cur => mem.st[s] \notin {"pending", "running"}
  /\ \A s \in Always : s < cur => s \in ran
  /\ pc = "done" => cur = N + 1
  /\ \A s \in ran : s <= cur
  /\ StopIsFinal
EngineInv ==
  /\ TypeOK
  /\ DependenciesComplete
  /\ NoStaleResult
  /\ SavedInv
  /\ KeptInv
  /\ AtWorkInv
  /\ ProgressInv

\* The ledger as the engine keeps it: a stage's completion is committed by the save that
\* follows its function.
Ledger == INSTANCE StageLedger WITH
  done <- Durable,
  work <- IF cur \notin Always /\ (Calling \/ (pc = "after" /\ dirty)) THEN cur ELSE 0

\* No stage is recorded complete except by finishing it, once it was begun with complete
\* dependencies, and completions are given up in dependency-closed groups only.
ImplementsLedger == Ledger!LedgerSpec
====
