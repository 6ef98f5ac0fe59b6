# TLA+ models of evalbuilder

These modules model the parts of `evalbuilder` in which order, failure, concurrency
or arithmetic decide whether it is correct: the stage engine of the pipeline and the
stages around a deployment, background jobs, the deployment calls, the files of an output
directory, the generator with the plan it must fill and the fixtures it writes, the life of
the cases of a dataset and the commands that edit it, a conversation with an agent whose
tools are mocked, the way from answers to a verdict, and the web UI's sessions over shared
config files. TLC checks them on small instances; TLAPS proves their safety properties for
every value of their constants.

Source paths below are relative to `src/src/evalbuilder/`, those of documents to `src/`.

## The system

`evalbuilder` generates an evaluation dataset for a LangGraph agent, deploys that
agent (locally, in Docker, Kubernetes or OpenShift), runs the dataset against it
several times, scores the runs and reports a verdict. Its parts:

| Part | State it keeps | Operations | Talks to |
|---|---|---|---|
| Stage engine `pipeline/engine.py` | `PipelineState` in memory and in `work/state.json` | `run`, `_mark`, `_execute`, `save`, `load`, `--resume`, `--from`, `--until`, skip | calls the stage functions; read by jobs, report, UI |
| Stages `pipeline/stages.py` | `PipelineContext` (dataset, agent, caches), the artifacts | sixteen stage functions, `agent()` | every other part |
| Report `pipeline/report.py` | `report.json` | `build_report`, `_verdict`, `run_pipeline` | engine statuses, aggregate |
| Layout `pipeline/layout.py` | the files of an output directory, under current and older names | `existing_path`, `fold_from`, `compact_dir` | stages, UI loader |
| Jobs `pipeline/jobs.py` | `work/job.json`, processes | `start_job`, `stop_job`, `job_status`, the detached wrapper | starts the CLI; used by the UI |
| Deployments `deploy/` | `deployment.json`, processes, cluster objects | `deploy_up`, `deploy_status`, `deploy_down`, per target `up`, `status`, `down` | command runner, agent server |
| Agent server and client `serve.py`, `agent_client.py` | per-process agent module and models | `/invoke`, `/health`, `LocalAgent`, `RemoteAgent` | target, mocking |
| Generator `pipeline/generator.py` | none; one chat per answer and its repair | map, cases in batches, fixtures, strategies, self-review | a model; planning, tool schemas |
| Planning `pipeline/planning.py`, `coverage.py`, `pipeline/taxonomy.py` | none (functions) | quotas, cells, achieved coverage, gaps | generator, stages, CLI |
| Tool schemas `tool_schemas.py` | none (functions) | `validate`, `example`, `corrupt`, `edge_cases` | generator, mocking |
| Inference `inference.py` | ledger and history of a conversation, progress of a pool | `infer_cases`, `run_conversation` | agent clients |
| Mocking `mocking.py`, `mock_engine.py` | mock ledger, the engine's memory of a conversation | rule match, miss policies, `respond` with validation and repair | models |
| Dataset life cycle `artifacts.py`, `pipeline/setup.py`, `langsmith_io.py` | review statuses of the cases, published ids | add, review, mine failures, publish; the write gate | LangSmith |
| Scoring `evaluators.py`, `pipeline/aggregate.py` | none (functions) | `score_run` in splits, aggregation over repeats, verdict | report |
| Command line `cli.py` | none | the commands on a dataset, `pipeline …`, `deploy …` | every part |
| Web UI `ui/` | per-tab session: project, form, widgets, stamp | setup page, run page, reloading | config files, jobs, dataset |
| Discovery `discover.py`, `skills.py`, the stage `discover` | none (functions) | the agent map of a source and its imported module | stages, generator |
| Providers, configuration, test doubles | little or none | see `PROJECT.json` | |

What is hard in them:

* **The engine is restarted over its own state.** A run may be killed at any step,
  in a save too (`write_text` truncates first), and the next one trusts statuses
  that several earlier runs left, with `--from`, failures, retries, skips and
  stops between. Correct means: a stage taken from the cache has all its
  dependencies, none of them newer than it, and no crash makes an incomplete stage
  look complete.
* **One record, many callers.** `deployment.json` is loaded first and saved last by
  every call, with minutes of work between, and without a lock. Correct means:
  nothing runs that no record names, and no record names what is gone.
* **One file, three writers.** `job.json` is written twice by `start_job`, by
  `stop_job` and by the wrapper. Correct means: one pipeline at a time that was
  not told to end, and no job that blocks a directory for ever.
* **Statuses outlive what they stand for.** The deploy stage is `ok` in
  `state.json` while the deployment is up, down again, dead, or somebody else's.
* **One kind of data, several homes.** Rules, coverage and failure types live in files of
  their own or inside another artifact, under names that changed twice; the pipeline and the
  UI look in opposite orders, and `compact` unlinks one home before it writes the other.
  Correct means: nobody sees an older value than the one that was authored last, and a crash
  costs a copy only.
* **A generator that may answer anything.** Its map, cases, fixtures and verdicts are
  validated, sent back once and then dropped or replaced. Correct means: the plan, not the
  model, decides what is in the dataset; what is missing is reported; a mocked tool always
  answers, and with something that fits its schema or breaks it on purpose.
* **One dataset, read once.** A run works on the `Dataset` object it read first and
  writes all of it back, people and commands do the same from other processes, and
  LangSmith keeps what was uploaded whether or not its id was written down. Correct means:
  a decision of a person stands, nothing approves itself, nothing is published twice, and no
  reference in the file dangles.
* **A stateless agent, a mocked backend with a memory.** The agent forgets everything
  between two turns; what the mock engine knows of the earlier ones is rebuilt from the
  ledger, which threads of the same turn append to. Correct means: the ledger has one
  entry for each call and the right one, and the engine knows what the agent was told.
* **Concurrent work, one result.** Conversations and evaluators run in pools and finish in
  any order; rates and slices are compared before or after a rounding. Correct means: the
  rows are those of a sequential pass, and a verdict and its reasons agree.
* **A form beside a file.** A tab remembers the timestamp of the config it shows, notes it
  after the access, and keeps each value twice, one of them dropped whenever the page changes.
  Correct means: what is shown as the file is the file, and a box keeps what was put in it.

`PROJECT.json` lists every hazard at its line, with the properties that cover it.

## The modules

Definitions whose name says what they lack (`StartUnchecked`, `SpreadShort`,
`ExistingLegacyFirst`, `RepairCasesBlindly`, ...) are not part of any specification: they are
mistaken forms of the definition after them, and the `mutants` of `PROJECT.json` say which
property TLC finds violated when the mistake is made.

### `StageEngine` (and `StageLedger`)

`PipelineRunner` of `pipeline/engine.py`. A stage is its position in the list that
`build_stages` returns. `mem` is the `PipelineState` object, `disk` the document in
`state.json`, `file` whether that file is absent, whole or truncated, `opts` the
flags of the run, `stopped` and `attempts` the locals of `run` and `_execute`.

| Action | Code |
|---|---|
| `Start` | the part of `run` before the loop: load or new state, `--from`, registering every stage |
| `Save` | `PipelineState.save` |
| `Cached`, `Skip` | the shortcuts of the loop, in their order |
| `Execute`, `CallSucceeds`, `CallStops`, `CallFails` | `_execute` with its retry loop |
| `After` | what the loop does when a stage has run: a failed stage only blocks its dependents, a stop or `--until` stops |
| `Return` | the end of `run` |
| `Crash` | the process is killed; a save in progress leaves the old, the new or a truncated document |

`StageLedger` is the abstract specification of what the engine promises across
crashes: a set of durably completed stages, closed under dependencies, that grows
one stage at a time and otherwise only loses stages. `ImplementsLedger` is the
refinement.

### `Pipeline`

Extends the engine with what the stages `review`, `deploy`, `infer`, `teardown` and
`report` do to the world: the status in `deployment.json` and whether the agent
answers, who brought it up, and the verdict in `report.json`. People call
`deploy up` and `deploy down` around it, and the agent may die. The other
eleven stages are calls that succeed or fail.

### `Jobs`

`pipeline/jobs.py`: clients that start and stop, wrappers that boot, run the
pipeline and finalise. A write of `job.json` is two steps (`Open`, `Write`), so that
everybody can read the truncated file. `Popen` comes between the two writes of `start_job`.
`JobStatus` is what the UI shows.

Wrapper and pipeline are one process group but two processes, and `_terminate` polls the
wrapper only. So a stop is several steps: `Signal` sends SIGTERM, and after the timeout
SIGKILL, to the group; whoever got it (`signalled` wrappers, `doomed` pipelines) ends in its own
time (`SignalEnds`, `PipelineEnds`); the call goes on when it sees the wrapper gone
(`SeesItGone`), also while the pipeline is alive, or after the second timeout with everything
alive (`GivesUp`). A process that was signalled may finish the write it is in, but cannot start
another process: neither the wrapper nor the pipeline handles SIGTERM.

`raced` is set when two calls overlap, when somebody is killed, or when a stop gives up on a
wrapper that is writing `job.json`, whose write may then undo a later record: the code has no
lock against any of them.

### `Deployment`

`deploy/__init__.py` and the targets: each caller holds the record it loaded
(`rec`) while it probes, takes down, spawns, waits, removes and saves. A deployment
is a set of resources: pids, never reused, and the objects of the cluster or the
Docker daemon.

### `Layout`

The kinds of artifact with two homes (`applicable_failures` in the agent map; rules,
strategies, coverage plan and coverage in the dataset) and the engine's state. What matters of a value is who
wrote it: a run of the current version, or an older version under one of the names it
used. `file` holds the stand-alone files by kind and name, `doc` the two parents, `state` the
two places of `state.json`.

| Definition | Code |
|---|---|
| `Existing`, `StandAlone`, `FoldFrom` | `existing_path`, `fold_from` |
| `PipelineSees`, `UISees` | the readers of `PipelineContext` (parent first), `load_dir` of `ui/loader.py` (stand-alone file first) |
| `Start`, `StageCompletes`, `StageFails`, `Pass`, `RunDies` | the stages `discover`, `map`, `mocks`, `dataset` (`mock_block`, `build_dataset`) and `review` (`_record_coverage`): what each writes, in full, cut short or not at all |
| `CompactStarts`, `FoldKind`, `WriteParent`, `MoveHandoff`, `CompactFinishes` | `compact_dir`, cut at every file it touches |
| `CompactRaises`, `CompactDies` | an unreadable file; a kill, in a write too |
| `DeleteWork` | somebody removes `work/` |

### `Discovery`, `Planning` and `Authoring`

`Discovery` puts together the tools and skills that the source declares, the skill loaders
it makes and what the imported module shows, in the order of the code (`AgentMap`), and says
for which failure types that is evidence (`ApplicableFailureTypes`). A loader of skills may be
known by its name, by its assignment in the source, or only by a tag of the live tool; an
import may fail, wholly, in the factory or in its skills; a tool may be one that nothing can
describe.

`Planning` holds the functions: what `_validate_map` keeps of an answer and complains about,
`plan_cells` (quotas, rotating topics, categories, schema edges, the floor on the total, the
multi-turn share with Python's rounding), `achieved`, `required_cells` and `coverage_gaps`.
`Places` has what they and `Fixtures` say of lists: the part of a list at some of its places (a
comprehension with a condition), a sorted set, a sum. A loop that keeps or drops elements is
said in these terms and not as a fold, so that the proofs can follow it: a case is kept when
fewer good ones of its key than the limit come before it (`Kept`), or when none equal to it does
(`Added`).
`Authoring` is the four stages around them, with the generator answering anything in
`MapAnswers` and any reply of up to `MaxReply` cases.

| Action | Code |
|---|---|
| `Discover` | the stage `discover`: the agent map and its problems, or the source does not parse and the stage, never retried, fails |
| `AskMap`, `RepairMap` (phase `"map_repair"`) | `author_map`, with the failure types that apply: answer, problems sent back once, the second answer replaces the first |
| `Plan` | `plan_cells` at the start of the dataset stage |
| `AskCases`, `RepairCases` (phase `"cases_repair"`) | `author_cases`: batches, trimming to what was asked for, one repair for what is missing |
| `BuildDataset` | `build_dataset` with `add_case`, whose ids make repeated cases one |
| `ReviewDecided`, `Review`, `Person`, `Resume` | the review stage with self-review, gate and coverage; a person's decisions; `--resume` |
| `GeneratorFails` | the model raises; the engine's retries |

### `ToolSchemas` and `Fixtures`

`ToolSchemas` holds `validate` (`Conforms`), `example`, `corrupt` and `edge_cases` as
functions over schemas. A part of a schema (a property, an item, an alternative) is treated as
the whole is; here that is left to two constant operators, `PartConforms` and `PartExample`, and
`MCFixtures` ties the knot with `ConformsBy` and `ExampleBy`. `Fixtures` follows what the generator writes until the agent gets it
as an answer of a tool.

| Definition | Code |
|---|---|
| `AuthorMocks` | `author_mocks`: usable variants, the default or a sample, the wildcard unless `on_miss` is llm |
| `AuthorStrategies`, `StrategyProblems` | `author_strategies`; `validate_strategies`, which `mock strategies --set` uses |
| `CheckRequired` | `mocking.required` |
| `AddCase`, `NextCase` | the overrides of a case with the dataset's rules behind them, the strategy it selects, and the corrupted fixture of a `malformed_output` edge |
| `Outcomes` | `merge_mock_rules` and `_mocked`: the first rule that matches, else what `on_miss` says: `MockMissError`, or the engine |
| `Selected`, `Engine`, `EngineFallback` | the strategy of the case, of the configuration or `default`; `respond`: what the mock model answers when it conforms, at once or repaired, else the fallback, or `MockEngineError` under `on_invalid: strict` |

### `Dataset`

The cases of `dataset.json`. `disk` is the document in the file, `cache` the object of
the run (`PipelineContext._cache`), `hand` what a person's command has loaded and is
about to write; in each, every case has a review status and perhaps an example id.
`remote` counts the examples of a case in LangSmith, which is modelled from how
`publish_approved` uses it. A case is its `case_id`: a case built again is the same case.

| Action | Code |
|---|---|
| `Start`, `Pass`, `Begin`, `Commit`, `End` | what `StageEngine` shows of the engine: stages in order, when their dependencies are complete, with retries; a crash, in a save too |
| `BuildDataset` | `build_dataset` with `add_case` |
| `ReviewCases` | `review`: self-review, cases without a mock rule, `auto_approve`, the review gate |
| `VerifyMocks`, `InferCases` | `verify`; `infer` with `select_cases` |
| `SimulateScenarios` | `simulate` with `mine_failures`, and the "duplicate case id" half-way |
| `Upload`, `ReadBack` | the two halves of `publish_approved` |
| `PersonLoads`, `PersonSaves` | the `review` command and `reject_cases` of the UI |
| `OtherRemote` | another dataset name, or the LangSmith dataset deleted |

Three history variables say where the code promises nothing: `excused` (a decision that
overlapped another write, or whose dataset was built again), `again` (an upload cut
short or read back too early, recorded ids overwritten) and `moved`.

### `Workbench`

The same file from the side of the commands: `dataset`, `review`, `mock`, `simulate`,
`infer --scenarios` and `publish` of `cli.py`, one process each. A command loads the file
(`Edit`, `Simulate`, `PublishApproved`, `Review`, or nothing, `DatasetInit`), holds an edited
copy, and writes all of it (`Save`) or ends without writing (`Quit`). `Edits` has every edit:
adding and importing cases (`AddCase`, `ImportCases`, whose ids are hashes unless given),
rules, pinned strategies, strategy tables and the engine's settings; `SimulateScenario` and
`Mined` say which results of a simulation become cases. `ValidateDataset` is the gate of
`_save_valid`; publications and the UI's rejections do not pass it. A dataset keeps its cases with status and
strategy, the ids of its strategy tables, the chosen one, the miss policy and whether the
rules are well formed.

### `Conversation`

One conversation of `infer` or `simulate`: the client's turns (`phase`, `turn`,
`ledger`, `error`), the request that is being served (`serving`, `history` of the
engine, the last entry of `engine.ledger`, `mockCalls`), and the calls of mocked tools
(`at`: where each is, `of`: its turn, `shown`: the history in its last prompt, `repairs`).
`setup` is the configuration: miss policy, what an invalid answer does, remote or not.

| Action | Code |
|---|---|
| `Send`, `BuildFails` | a turn of `run_conversation` or `_simulate_one`; `LocalAgent.invoke` until the graph is built |
| `AnswerDirectly` | `_mocked` of `wrap_tool`: a rule, or the policies real, fallback and strict |
| `Ask`, `Repair`, `Respond`, `Refuse`, `Break` | `respond` of the mock engine: the prompt, asking again, a valid answer or the fallback, `MockEngineError`, any other exception |
| `Return`, `Raise` | back in `_mocked`, which records a copy of the last entry of `engine.ledger` |
| `AgentAnswers`, `AgentRaises` | the end of `LocalAgent.invoke`, and what the client does with the result |
| `GivesUp` | `RemoteAgent.invoke`: timeout or lost connection; the agent goes on unheard |

The graph of the agent is external. It may call tools one after another or several at
once (LangGraph's tool node runs them in threads), and it may handle what a tool raises
or let it end the turn. `crossed` collects the calls that are on their way back while
another one logs, and those that break before they log: for them the last entry of
`engine.ledger` is not their own, and the properties claim only the count.
Which rule matches and what makes an answer invalid are left open.

### `Evaluation`

From the approved cases to the verdict. Scores are multiples of 1/`One`, four digits are
multiples of `Digit`: the means, rates and roundings of the runs' instances are exact.

| Action | Code |
|---|---|
| `Answer`, `Deliver`, `EndRepeat`, `RetryInfer` | the pool of `infer_cases`: as many conversations as workers, finished in any order and taken by the main thread, which counts the progress; the repeats; `RuntimeError` when every case of a repeat failed for infrastructure |
| `StartScoring`, `ScoreCase`, `EndRun`, `EndScoring`, `RetryScore` | `score_run`: splits of consecutive cases, each scored by a worker, joined in order; the score stage's error when nothing was scored |
| `ToolsScore`, `TextScore`, `Judged`, `Row` | `expected_tools` as an ordered search, forbidden tools; `contains` over the text; a judge's score, error or "nothing to compare" |
| `Trajectory`, `Outputs`, `Unstable` | `trajectory_hash` without the text and `output_hash` with it; on a stable trajectory a judge that disagrees is listed with the evaluators, any other evaluator with the outputs |
| `Aggregate` | `aggregate`: rates, slices, overall score, verdict, `Reasons`, unstable cases and who is blamed for them |

### `Session`

The UI of several tabs over shared config files. A tab has a page, a form
(`st.session_state` values the project owns), the widgets of the page, the timestamp of the
file it shows, and what its script run is in the middle of; a script run is cut at every
access to a file.

| Action | Code |
|---|---|
| `Begin`, `Reload` | `begin_run` of `ui/project.py`: capture, compare the timestamp, reload |
| `Visit`, `FillIn`, `EditYaml`, `ApplyTarget`, `Clear`, `SetUploads` | the pages, the boxes and the buttons that touch no file |
| `OpenDir`, `Opened` | opening a project, with the config its directory names |
| `GenerateYaml`, `YamlAction`, `Saved` | the setup page: the YAML from the form, saving it, starting a job on it |
| `Review`, `Reviewed` | feedback and approval on the run page (`pipeline/setup.py`) |
| `JobLoads`, `JobEnds` | what a started job reads and where it writes |
| `PipelineInit`, `HandEdit` | `pipeline init`, an editor |

## The runs

Every run must pass.

| Run | Instance | What it shows |
|---|---|---|
| `engine` | four stages with a chain, an optional retried stage, an always stage; all flags | freshness of the cache, what a crash may cost, that a resumed run keeps what is complete, that every run ends, the refinement |
| `jobs` | two clients, two jobs, any process may be killed or outlive a stop | one pipeline per directory that was not told to end, the record names it, a refusal ends |
| `deployment` | two callers, all targets, three spawns | no agent is lost, down means down, up means up |
| `pipeline` | five stages, people at the CLI | the teardown holds, a verdict is earned |
| `layout` | a new directory and four that older versions left, under every combination of names; two runs, any compactions and deletions of `work/` | the dataset carries the rules authored last, both readers agree, a compaction is invisible when it ends and costs only copies when it does not |
| `authoring` | four configurations with their agent (one loader known by a tag only, one by its name, an odd tool, imports that fail, a source that does not parse), four answers about the map, replies of up to two cases of two texts; one retry | the plan is sound whatever the map and has its evidence in the agent, its size is what is built or the shortfall is reported, the two kinds of gaps agree |
| `fixtures` | one tool under nine output schemas, arguments with every kind of edge; a rule or override each; five values of the `mocking` keys, under both miss policies | a mocked tool always answers, with what conforms or was injected, unless the engine may raise; an injected error breaks its schema |
| `dataset` | two generated cases, one without a mock rule, one mined case; three runs with any number of retries, a command of a person | decisions stand, nothing approves itself, an upload is not repeated without an outside cause, a recorded id names an example |
| `workbench` | two commands at a time, four in all, two contents and a chosen id, two strategies | references resolve whatever overlaps; only a command that was already running takes a decision back |
| `conversation` | three turns, four calls, prompts that show two earlier calls, one repair | every call is counted, under its own entry; later turns know what the agent was told; the conversation ends |
| `evaluation` | six setups of up to five cases, two repeats, up to three workers | rows are those of a sequential pass, the tool score is an ordered subset, a verdict and its reasons agree, instability is blamed on the agent, a judge or the text, whichever it was |
| `session` | two tabs, two folders, three user actions, three writes of config files in all | a tab that says it shows the file does, boxes keep what they were given, a job of the setup page works where it is recorded |

### Bounds

* `engine`: the four stages contain every relation two stages of the real list can
  have (direct and transitive dependency, none, optional, always, retried, skipped);
  every guard of the loop looks at one stage, its dependencies and `stopped`. Runs and
  crashes are not bounded.
* `jobs`: the refused start, the lost update and the stop of a job that has been
  replaced all need two callers and two jobs, and so does a start that meets a pipeline
  that has outlived its wrapper; every counterexample found needs no more.
* `deployment`: three spawns are an `up`, its replacement and one more by the other
  caller. `Callers` are symmetric: both may make every call, and no property
  names one.
* `pipeline`: `--from` and `--until` take values on both sides of the deploy stage.
* `layout`: `MaxRuns = 2`: one run leaves data of the current version, possibly incomplete,
  and a second one meets it. The older directories are those after no stage, after
  `discover`, `map`, `mocks` and all; a value is identified by its writer, so that more runs
  add no new relation. Compactions are not bounded.
* `authoring`: `BatchSize = 2` splits every plan into several batches; `MaxReply = 2` is too few,
  as many as, or more than a batch wants of a cell; two symmetric texts let cases be repeated. The answers include a map
  without a usable intent, a repetition of an intent, of a failure type, an invented skill,
  a scenario of an unknown intent and a failure without evidence. The configurations include
  a quota of 0, a floor above the quotas and shares that round.
* `fixtures`: the nine schemas are: none, a scalar, an array, objects with a required, an
  optional, a bounded, a nullable and a nested field, and a nullable object. `MaxRules = 1`
  is one variant and one override, which is all `RulesOf` and `WithFallback` need to be
  hidden by or hide each other; the facts `x` and `y` give four sets of arguments. Of the
  sixteen values of the four `mocking` keys there are five, such that every two keys take every
  pair of values; of the two values the generator or the mock model may write, one conforms to most of
  the schemas with an id and one to none of them.
* `dataset`: `MaxRuns = 3` and `MaxCommands = 1`: a run leaves something (a crash, a
  half-done stage, recorded ids, mined cases), a second one meets it, and a third one meets
  what the second had in memory and did not save; one decision may fall before, after or
  across a write of a run. `MaxExamples = 2` is one example too many.
* `workbench`: four commands are a table, a reference to it, its replacement and a late
  save by a command that started before; no property involves more than two copies and
  the file. `MaxTurns = 2` lets a simulation end by its turns, by success and by a limit.
* `conversation`: four calls are two that overlap, one before and one after them; three
  turns let a call be asked with more history than a prompt shows (`HistoryLimit = 2`
  for the code's 8), answered in two different earlier turns. One repair is the default
  of the code.
* `evaluation`: five cases over three workers is the smallest run whose last splits are
  uneven; two repeats are enough to differ. Thresholds lie at, just above and just below the
  rates that two and three cases can have, 2/3 as four digits show it among them.
* `session`: `MaxActs = 3` user actions are open, edit, save; `MaxWrites = 3` timestamps
  are a file that is there, this save and one of another tab or an editor. Tabs and folders are symmetric.

The proofs have none of these bounds.

### Fairness

The engine's steps are weakly fair: it is one thread that goes on unless it is
killed, and a stage function is taken to return. Starting a run and a crash are never
required. In `Jobs` a call that has begun, a wrapper and its pipeline go on and signals are
delivered, at any time; nobody has to call. In `Conversation` an agent in the client's own process gets on: model and tool
calls return, and the agent stops calling at some point (`MaxCalls`). A remote agent
may hang for ever: then it is the timeout of the request that lets the client go on, and
`ConversationEnds` rests on that alone. The other modules claim no liveness.

`raced`, `contended`, `excused`, `again`, `moved`, `crossed`, `revived` and `overtaken` are
history variables: they say from when on, or for which resource, the code promises nothing
(two calls overlapped without a lock, a process was killed, somebody deleted the objects,
two calls shared one ledger, `work/` was deleted over older files, a write fell between an
access and the note of its timestamp), and the properties say so.

## What is proved

In `PipelineProofs` (the engine and the deployments too), `DatasetProofs`,
`ConversationProofs`, `WorkbenchProofs` (the jobs too), `LayoutProofs`, `SessionProofs`,
`EvaluationProofs` and `GeneratorProofs` (the fixtures, and the map, the plan and the dataset that
are made of the generator's answers), from the named assumptions on the constants only (stages are listed after
their dependencies, nothing depends on an always stage, the options name stages, callers are no
pids, the values of the current version are none of the older ones, folders are finitely many,
the thresholds and the scores of a judge are scores and there is a case, a repeat and a
worker; those of the generator are below).

* **Engine.** None of the properties is inductive alone. `EngineInv` adds: what
  the file holds when no save is pending equals the memory (`SavedInv`); what a
  resumed run keeps of the disk (`KeptInv`); which statuses the stage at work and
  the stages after it may have (`AtWorkInv`); and what the stages already passed
  have become (`ProgressInv`). Freshness needs the last two: a stage runs again only
  when everything that depends on it is no longer counted. `DependenciesComplete`,
  `StopIsFinal` and `ReturnIsSettled` are proved of the engine too, without a run of their own.
* **Pipeline.** Every step is a step of the engine or leaves it alone, so the
  engine's invariant is used as it stands. The teardown's property follows from the
  order of the stages and from what `Succeeds` does at `Deploy`; the verdict's from
  the freshness of the engine, by the statuses at the moment the report was built.
* **Deployment.** A pid is given out once, so a record that says down names a
  process that has been removed and cannot come back: `PidsGivenOut` and `DownIsGone`
  say this of the file and of every record a caller still holds. That no agent is lost and
  that up means up is a matter of what a call at each of its places has done with what its
  record held: `ProtocolInv` says which record a caller holds where, and that calls that did not
  overlap are one at a time; `AccountInv`, that what runs is held by the file or by the call, and
  that the call may save its record over the file because it took away or still holds
  whatever the file's record held.
* **Dataset.** A document may be written long after it was read, so `DecisionStands`
  has to hold of all three (`DecisionInv`): the file, the run's object and the one in a
  person's command, there but for the case it decides on. `PublishedIsThere` needs the
  same of the recorded ids (`IdsInv`). `PublishedOnce` needs to know where an id may be that
  is not in the file: with the run that uploaded the example, which will save it or be
  excused for not saving it (`OnceInv`). The attempt to prove it with two runs in mind showed the
  third: a run whose read-back found some ids leaves them in memory only, and its own retries are
  right while a later run repeats the upload. `NothingApprovesItself` is a property of steps.
* **Conversation.** The ledger changes only at the end of a turn, so both theorems are
  shown first of the request being served: a call on its way back finds its own entry
  last unless it is crossed (`LastIsOwn`), its entry is then in `mockCalls`
  (`CurrentOwn`), and there are as many as calls that came back (`CurrentCounted`).
  `Served` says that calls in flight belong to the turn being served. `EarlierAnswersShown`
  is about the history, for which the order of the ledger is needed (`MemoryInv`: the turns of
  the ledger never decrease, the history a request starts from is what `_history_of` keeps of
  the ledger, and grows by what the engine answers); that the calls it keeps are all there, once
  and in order, is a fact about counting places (`HistoryOfTheLedger`).
* **Jobs.** Assumed is only that callers are no pids. While nothing raced there is one caller at
  work (`OneCaller`) and one wrapper that was not signalled (`OneActive`), which is the parent of
  every pipeline that is not doomed (`PipelineIsInWrapper`). That is preserved only because this
  wrapper is known (`Known`): the file names it, or the caller that started it is about to write
  its pid, or it is itself the one that is truncating the file; because a signalled wrapper that
  may still write is being waited for (`WritersAwaited`); and because of what a caller has learnt
  by the time it acts (`CallerKnows`): who is about to write or spawn knows that whatever lives
  was told to end and will not write (`Quiet`), who is about to kill holds the pid of the active
  wrapper. That what lives is gone cannot be had: the stop does not wait for it.
* **Workbench.** `ReferencesResolve` needs the same of every copy that will be written without
  the gate (`UngatedResolves`); a copy that passes the gate resolves because the gate says so.
  `DecisionStandsAlone` is a property of steps and needs the types only.
* **Layout.** `TypeInv` adds to the types that stages and compactions take turns. `HandoffInv`
  follows the rules and strategies from the stage that authors them to the dataset: the stages
  that are complete are closed (`StagesClosed`), a rule that was authored stands where the dataset
  stage will look (`RulesStand`), and is in the document once it is built (`RulesBuilt`; the
  strategies likewise). `CopyInv` says what a compaction holds of each file it has read
  (`HeldCopies`) and that the readers still see what they saw when it began (`ViewHeld`); what
  an interruption may cost follows from it.
* **Session.** One invariant of each tab, each job and the files (`TabOK`, `JobOK`, `FilesOK`).
  The form is what the boxes and what is behind them say together (`Now`): but for a callback
  that has just run they agree (`Settled`), which is why a page that drops its boxes loses
  nothing. What a timestamp promises is said of that form (`Honest`), and what a script run
  holds between two accesses is the file's as long as the timestamp it knows is (`Holding`). A
  write of anybody disturbs none of it: its timestamp is later than all that are known.

* **Evaluation.** What a fold computes takes induction over its data. The library's induction
  theorems have an operator for a parameter, which no prover here can instantiate, but a set of
  numbers that is closed under successor does as well (`UpTo`, from the well-foundedness of finite
  subsets). With it: the walk of `expected_tools` has at every call found at least as many
  expected ones as any ordered way to find them (`WalkIsGreedy`), so one pass that never goes
  back is enough; the splits of a run, of sizes that differ by one, are its cases in order when
  they are joined (`ChunksCover`, `SplitsCover`), and so are their rows (`FlattenJoins`); a mean
  of scores is a score and is there unless there was nothing (`AverageIsAScore`), which is
  why a verdict cannot fail for a missing overall score without another reason. The invariant
  (`EvaluationInv`) says which phase has which runs, splits and reports (`Inferring`, `Scoring`)
  and that every row is the one of its case in its run (`Rightly`), whichever worker wrote it.
  `BlameIsRight` then compares repeats: the same calls and error give `expected_tools` the same
  score, the same text gives `contains` the same one too (`StableScores`), and a metric has more
  than one score exactly when two repeats differ (`DisagreeingMeansDiffers`).
* **Fixtures.** `FixturesAssumption` is that tools have schemas, and that an output schema with
  required fields is one of an object without alternatives, as discovery makes them, and that
  `Bad` stands for no value. Of the parts of
  a schema nothing at all is assumed: `PartConforms` and `PartExample` are any operators, so the
  theorems need no induction over schemas, and hold of any way to read nested ones.
  `FixturesInv` says of each of the three layers what the next one relies on: every rule of the
  dataset answers something that was checked, and under `strict` there is a wildcard among them
  (`RulesSound`); the strategies, if there are any or the engine will need them, cover every tool
  (`StrategiesSound`); what a case puts in front of them keeps both, and for a malformed output is
  one wildcard with a payload that lacks a required field (`CaseSound`). A call is then answered by
  a rule or by the engine (`OutcomesAre`), and the engine answers what was checked, whichever
  strategy is selected, or raises where `on_invalid` is strict (`EngineAnswers`): that error is the
  only one, and it is in the statement of the theorem.
* **Plan.** `ConfigsAssumption` and `AnswersAssumption` give the types of the configuration and of
  an answer, and that the tools of a source or an import have different names and their edge cases
  different ids. `PlanInv` says that whatever phase uses a plan uses the one of the agent and map
  that were found, so that `PlanIsSound` is a fact about `PlanCells` for every map that
  `CleanMap` returns (`ThePlan`, `MapIsClean`). A sum is followed addend by addend (`SumsGrow`); with
  that the floor is reached because the shares of what is missing add up to it (`FloorAdds`), and
  the conversations are at most what is wanted because each cell takes from what the ones before
  it left (`ConversationsShared`). That no edge case is asked for twice needs the whole of
  `Discovery`: the tools of the source, the loaders and the import are joined by their names
  (`ToolsOfAnAgent`), and every edge case is one of its own tool (`OwnTool`).
* **Size.** `SizeInv` counts by key, since two cells may have the same one: after the batches up
  to a cell no key has more cases than those cells ask for together (`Fits`) and each of them has
  enough or is reported (`Enough`). Between a question and its repair neither is inductive without
  what the repair asks for: that its answer will not exceed a cell of the batch (`HasRoom`) and will
  fill each of them (`AsksTheRest`). `KeptIs`, `MissingIs` and `AddedIs` are the facts about the
  functions. `GapsAgree` follows from the same counts, as approved cases are some of the cases.

Only model-checked:

* liveness: `RunEnds`, `RefusalEnds`, `ConversationEnds`, which rest on fairness;
* that the constant operators of `ToolSchemas` can be the recursion over the parts of a schema:
  `MCFixtures` evaluates `validate` and `example` to any depth, with RECURSIVE operators, which the
  prover cannot be used with. The theorems hold for this reading as for any other.

## Where the code and its documents disagree

Met while modelling. The modules do what the code does; nothing below is excused by a
property that claims the opposite.

| Code | Document | What happens |
|---|---|---|
| `pipeline/engine.py:120` | `README.md:337`: `--until` "stops deliberately after a stage" | a cached `--until` stage does not stop the run |
| `pipeline/report.py:264` | `README.md:333`: "the report is always rebuilt" | when the report stage fails, `run_pipeline` takes the report of an earlier run |
| `pipeline/jobs.py:112` | `docs/architecture/04-pipeline.md:282`: a second start on a running job is refused | a start between the check and the write of the pid is accepted |
| `pipeline/jobs.py:245` | `pipeline/jobs.py:230`: signals the group (wrapper, pipeline and model subprocesses), "escalating to SIGKILL when it does not die" | only the wrapper is polled: a pipeline that outlives it is neither waited for nor killed, and after two timeouts the stop goes on whatever is alive |
| `deploy/__init__.py:106` | `deploy/base.py:32`: after `down` nothing is left | the port-forward of a failed `up` is in no record |
| `langsmith_io.py:46` | `README.md:772`: "idempotent, read-back verified" | a retry after a failed upload or read-back creates the same examples again |
| `langsmith_io.py:78` | `langsmith_io.py:74`: "local publication state was not updated" | a read-back that misses a case has noted the ids of the others in the run's object: a retry in the same run leaves those cases out, a later run uploads them again |
| `mocking.py:94` | `docs/tool-mocking.md:69`: a prompt holds the previous calls of the conversation | what a rule answered earlier in the same turn is in no prompt |
| `pipeline/aggregate.py:104` | `evaluators.py:4`, `docs/architecture/06-decisions.md:85` | a metric whose evaluator could never run has no rate, and the verdict takes that for a metric that failed |
| `pipeline/setup.py:286` | `pipeline/setup.py:353`: feedback is "never overwritten" | generating the YAML from the form again drops the reviewer's feedback |
| `pipeline/stages.py:537` | `docs/architecture/03-core-modules.md:35` | the dataset stage starts from an empty dataset: earlier rejections and ids are lost |
| `pipeline/generator.py:520` | `pipeline/generator.py:540`: what does not conform is replaced with a "schema-conformant sample" | for a schema that is no object the sample is a generic object, so that `mock strategies --set` may refuse what the pipeline wrote |

Behaviour that no document contradicts, worth knowing:

* *Directories.* `compact_dir` rewrites `dataset.json` when it has nothing to do. With two
  older names of one kind a call removes only the first. Deleting `work/` over files of an
  older version lets a later compaction bring that state and those rules back (`revived`).
  A strategies file that an earlier run left in `work/` is folded in by a run that authored
  none. `compact` takes no lock against a running pipeline.
* *Coverage.* Two cells with an equal key count the same case twice (`planning.py:188`).
  `dataset gaps` asks for every scenario with every topic and failure mode "none", so that
  failure scenarios and rotated topics always show as gaps, and it counts rejected cases.
* *Tool schemas.* A default outside the limits, or `gt 0, lt 1`, gives a sample that does not
  conform; `corrupt` of a schema without required fields may conform; `wrong_type` of an
  optional integer is an integer.
* *Stages.* The score stage asks only the first repeat whether anything was scored. The deploy
  stage stays complete after the teardown, so that a resumed `infer` finds no agent
  (`stages.py:268`). A second `simulate` over the same failures raises at the duplicate case
  before its results are saved.
* *Discovery.* Of a source with two decorated functions of one name both are in the map, and the
  edge cases of the tool are planned twice (`discover.py:474`); the model has no such source. A node's tools are the variables in its list while the map has the names of the
  tools, so that a loader assigned to a variable of another name is linked to no node
  (`discover.py:614`), and tools or skills that only the import shows keep an empty `used_by`
  (`stages.py:420`), although the node that holds them is in the map. A module that exposes
  skills and no `TOOLS` is not asked for its skills (`stages.py:425`). A skill loader that
  cannot be described passes for an ordinary tool, and is mocked (`stages.py:358`).
* *Simulation.* A conversation whose follow-ups run out before its success text appears is no
  failure; one that uses up its turns is.
* *Commands and UI.* `dataset init` overwrites. Commands, feedback and approval load, modify
  and save without a lock. The run page starts its job in the project's folder, whatever the
  config names as its output.

## Not modelled

* The static analysis behind `Discovery` (which assignments are tools, prompts, graph nodes or
  skill folders, and their links in the map, which are only shown): pure functions over syntax
  trees; the texts of prompts and messages, and rendering of manifests.
* Providers, targets and `claude_cli.py`: configuration of libraries, and a subprocess session
  whose protocol is the external program's.
* The lazy loading of the agent module and its models, which server and worker threads share
  without a lock (`agent_client.py:115`), and the pipe between two commands whose stderr is
  read last (`deploy/runner.py:183`): both depend on the runtime and the operating system.
* Pages of the UI that only show artifacts, commands that only print, `map-update`.
* The test doubles.

Simplifications inside the models: pids are not reused and zombies are reaped; a health check
may fail for no reason; the objects of a deployment are one resource; in `Dataset` a command
decides on one case; in `Conversation` the engine's ledger and its history are appended to in
one step; in `Evaluation` the evaluators are `expected_tools`, `contains` (`json_valid` is one that
looks for the same in every case) and a judge, so that `trajectory_match` and custom evaluators,
which `aggregate` files under the outputs like any evaluator that is no judge, are left out; in
`Fixtures` a repair is not told from a first answer, and the engine's sample is taken for the
generator's, from which only the text of its note differs; in `Session` a config is its folder, one field with a box and one
without; in `Layout` kinds without a second home, `identify`, the stamps and the re-indexing
of the report are left out; patterns and formats of strings are left out of `ToolSchemas`;
texts, times and artifact lists are left out everywhere. A failed delete command is an excuse
in `Deployment`, since the code ignores its exit code.

## Plan

What is left, in this order:

1. The lazy loading shared by the workers and the server, and the analysis and preflight
   stages, which are single calls of the engine so far.
2. The session of `claude_cli.py`, with its timeouts and a dead subprocess.
3. An abstract specification of what a reader of a directory sees, which `Layout` and
   `Dataset` both implement.
