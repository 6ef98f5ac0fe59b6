---- MODULE Authoring ----
(***************************************************************************)
(* The stages discover, map, dataset and review of the pipeline with the   *)
(* generator behind them (pipeline/generator.py and pipeline/stages.py):   *)
(* the model is asked for a map of the agent, then batch by batch for the  *)
(* cases of the plan, and its own review of them.  It answers what it likes; every  *)
(* answer is validated, problems are sent back once, and what is still     *)
(* wrong is dropped and reported.                                          *)
(*                                                                         *)
(* A reply about cases is a sequence of cases, each for a cell of the      *)
(* question (0 stands for an index that is none) with a text; `usable` is  *)
(* FALSE when the case has no message or expects an unknown tool.          *)
(***************************************************************************)
EXTENDS Planning, Discovery

CONSTANTS
  Configs,     \* configurations of the coverage, with `auto` for review.auto_approve, `constrained`
               \* for constraints, and the agent: its `source` and what its import shows, `live`
  MapAnswers,  \* what the generator may answer about the map
  Texts,       \* user messages
  BatchSize,   \* cells per question about cases
  MaxReply,    \* bound: cases in one reply
  MaxRetries   \* stages.max_retries

ASSUME AuthoringAssumption ==
  /\ BatchSize \in Nat \ {0}
  /\ MaxReply \in Nat
  /\ MaxRetries \in Nat

\* What the schema of the question about the map lets the generator answer.
ASSUME AnswersAssumption ==
  \A answer \in MapAnswers :
    /\ answer.intents \in Seq([id : STRING, sound : BOOLEAN])
    /\ answer.scenarios \in Seq([id : STRING, intent : STRING, kind : {"happy", "failure"}, mode : STRING,
                                 skills : SUBSET STRING, sound : BOOLEAN])
    /\ answer.failures \in Seq(STRING)
    /\ answer.topics \in Seq(STRING)

\* An agent offers its model one tool of a name, and a tool has one edge case of an id, which begins with the
\* tool's name.  (Of a source that defines two tools of one name, discover.py lists both.)
OwnEdges(tools) ==
  /\ \A i, j \in DOMAIN tools : tools[i].name = tools[j].name => i = j
  /\ \A i \in DOMAIN tools : tools[i].edges \in Seq([id : STRING, mode : STRING])
  /\ \A i \in DOMAIN tools : \A m, n \in DOMAIN tools[i].edges :
       tools[i].edges[m].id = tools[i].edges[n].id => m = n

ASSUME ConfigsAssumption ==
  \A c \in Configs :
    /\ {c.happy, c.failure, c.category, c.out, c.edges, c.total} \subseteq Int /\ c.share \in 0..100
    /\ c.source.tools \in Seq([name : STRING, edges : Seq([id : STRING, mode : STRING])])
    /\ c.source.loaders \in Seq(STRING) /\ c.source.list \in Seq(STRING)
    /\ c.live.tools \in Seq([name : STRING, odd : BOOLEAN, tagged : BOOLEAN, edges : Seq([id : STRING, mode : STRING])])
    /\ OwnEdges(c.source.tools) /\ OwnEdges(c.live.tools)
    /\ \A t, u \in ToSet(c.source.tools) \cup ToSet(c.live.tools) :
         t.name # u.name => {e.id : e \in ToSet(t.edges)} \cap {e.id : e \in ToSet(u.edges)} = {}

VARIABLES
  cfg,       \* the configuration
  agent,     \* what discover found, in agent-map.json
  phase,     \* where the four stages are: "discover", "map", "map_repair", "plan", "cases", "cases_repair",
             \* "build", "review", "awaiting", "done" or "failed"
  attempt,   \* attempts of the running stage that failed
  amap,      \* the map's intents, scenarios, failure types and topics
  problems,  \* problems recorded in the run
  cells,     \* the plan
  asked,     \* cells of the plan that earlier batches asked for
  todo,      \* cells of the question that is being asked
  cases,     \* cases the generator gave so far
  dataset,   \* cases of dataset.json with their review status
  coverage   \* dataset.coverage.achieved

vars == <<cfg, agent, phase, attempt, amap, problems, cells, asked, todo, cases, dataset, coverage>>

NoAgent == [tools |-> <<>>, skills |-> {}, branches |-> FALSE]
NoMap == [intents |-> <<>>, scenarios |-> <<>>, failures |-> <<>>, topics |-> <<>>]
NoCoverage == [planned |-> 0, covered |-> 0, gaps |-> {}]
Replies == BoundedSeq([cell : 0..BatchSize, usable : BOOLEAN, text : Texts], MaxReply)

Init ==
  /\ cfg \in Configs
  /\ agent = NoAgent
  /\ phase = "discover"
  /\ attempt = 0
  /\ amap = NoMap
  /\ problems = {}
  /\ cells = <<>> /\ asked = 0 /\ todo = <<>> /\ cases = <<>>
  /\ dataset = <<>>
  /\ coverage = NoCoverage

\* A stage that raises is run again from its start, at most MaxRetries times.
StageRaises(start) ==
  /\ attempt' = attempt + 1
  /\ phase' = IF attempt < MaxRetries THEN start ELSE "failed"

----------------------------------------------------------------------------
(* The stage discover, which is not retried.                               *)

Discover ==
  /\ phase = "discover"
  /\ IF cfg.source.parses
       THEN /\ agent' = AgentMap(cfg.source, cfg.live, cfg.edges)
            /\ problems' = DiscoveryProblems(cfg.live)
            /\ phase' = "map"
       ELSE phase' = "failed" /\ UNCHANGED <<agent, problems>>
  /\ UNCHANGED <<cfg, attempt, amap, cells, asked, todo, cases, dataset, coverage>>

----------------------------------------------------------------------------
(* The stage map.                                                          *)

Applicable == ApplicableFailureTypes(agent, cfg.source.traits, cfg.constrained, cfg.share > 0)
Skills == agent.skills

TakeMap(answer) ==
  LET clean == CleanMap(answer, Applicable, Skills)
  IN  IF clean.intents = <<>> \/ clean.scenarios = <<>>
        THEN StageRaises("map") /\ UNCHANGED <<amap, problems>>
        ELSE /\ amap' = clean
             /\ problems' = problems \cup MapErrors(answer, Applicable, Skills)
                                     \cup Unexercised(answer, Applicable, Skills)
             /\ phase' = "plan"
             /\ attempt' = 0

AskMap ==
  /\ phase = "map"
  /\ \E answer \in MapAnswers :
       IF MapErrors(answer, Applicable, Skills) # {}
         THEN phase' = "map_repair" /\ UNCHANGED <<attempt, amap, problems>>
         ELSE TakeMap(answer)
  /\ UNCHANGED <<cfg, agent, cells, asked, todo, cases, dataset, coverage>>

\* The second answer replaces the first, whatever it says.
RepairMap ==
  /\ phase = "map_repair"
  /\ \E answer \in MapAnswers : TakeMap(answer)
  /\ UNCHANGED <<cfg, agent, cells, asked, todo, cases, dataset, coverage>>

\* The model raises: the stages map and dataset have no other way.
GeneratorFails ==
  /\ phase \in {"map", "map_repair", "cases", "cases_repair"}
  /\ StageRaises(IF phase \in {"map", "map_repair"} THEN "map" ELSE "plan")
  /\ UNCHANGED <<cfg, agent, amap, problems, cells, asked, todo, cases, dataset, coverage>>

----------------------------------------------------------------------------
(* The stage dataset.                                                      *)

Batch(plan, from) == SubSeq(plan, from + 1, Smaller(from + BatchSize, Len(plan)))

Plan ==
  /\ phase = "plan"
  /\ cells' = PlanCells(cfg, amap, [n \in DOMAIN agent.tools |-> agent.tools[n].edges])
  /\ asked' = 0
  /\ todo' = Batch(cells', 0)
  /\ cases' = <<>>
  /\ phase' = "cases"
  /\ UNCHANGED <<cfg, agent, attempt, amap, problems, dataset, coverage>>

\* How many cases of a key a question allows: its last cell with the key decides.
Limit(asking, key) == asking[Max({n \in DOMAIN asking : Key(asking[n]) = key})].count

\* Cases that are about a cell of the question, and no more of them than it asked for.
Kept(asking, reply) ==
  LET good == {n \in DOMAIN reply : reply[n].cell \in DOMAIN asking /\ reply[n].usable}
      KeyAt(n) == Key(asking[reply[n].cell])
      Earlier(n) == {m \in good : m < n /\ KeyAt(m) = KeyAt(n)}
      kept == {n \in good : Cardinality(Earlier(n)) < Limit(asking, KeyAt(n))}
      case == [n \in good |-> [key |-> KeyAt(n), text |-> reply[n].text]]
  IN  Picked(case, kept)

Missing(asking, kept) ==
  LET short == Picked(asking, {n \in DOMAIN asking : Have(kept, Key(asking[n])) < asking[n].count})
  IN  [n \in DOMAIN short |-> [short[n] EXCEPT !.count = @ - Have(kept, Key(short[n]))]]

NextBatch ==
  LET next == asked + Len(Batch(cells, asked))
  IN  /\ asked' = next
      /\ todo' = Batch(cells, next)
      /\ phase' = IF next < Len(cells) THEN "cases" ELSE "build"

AskCases ==
  /\ phase = "cases"
  /\ \E reply \in Replies :
       LET kept == Kept(todo, reply)
           missing == Missing(todo, kept)
       IN  /\ cases' = cases \o kept
           /\ IF missing # <<>>
                THEN phase' = "cases_repair" /\ todo' = missing /\ asked' = asked
                ELSE NextBatch
  /\ UNCHANGED <<cfg, agent, attempt, amap, problems, cells, dataset, coverage>>

\* Nothing is compared after the repair.
RepairCasesBlindly ==
  /\ phase = "cases_repair"
  /\ \E reply \in Replies : cases' = cases \o Kept(todo, reply)
  /\ NextBatch
  /\ UNCHANGED <<cfg, agent, attempt, amap, problems, cells, dataset, coverage>>

\* Asked once more for what was missing; what is short then is reported.
RepairCases ==
  /\ phase = "cases_repair"
  /\ \E reply \in Replies :
       LET kept == Kept(todo, reply)
           still == Missing(todo, kept)
       IN  /\ cases' = cases \o kept
           /\ problems' = problems \cup {<<"short", Key(c)>> : c \in ToSet(still)}
  /\ NextBatch
  /\ UNCHANGED <<cfg, agent, attempt, amap, cells, dataset, coverage>>

\* add_case: the id of a case is a hash of its key and its message, and no id is added twice.
Added(all) ==
  LET new == Picked(all, {n \in DOMAIN all : \A m \in 1..n - 1 : all[m] # all[n]})
  IN  [n \in DOMAIN new |-> [key |-> new[n].key, text |-> new[n].text, review |-> "pending"]]

BuildDataset ==
  /\ phase = "build"
  /\ LET ds == Added(cases)
         found == IF Len(ds) < Len(cases) THEN problems \cup {<<"duplicates", None>>} ELSE problems
     IN  /\ problems' = found
         /\ IF ds = <<>>
              THEN StageRaises("plan") /\ UNCHANGED <<dataset, coverage>>
              ELSE /\ dataset' = ds
                   /\ coverage' = Achieved(cells, ds)
                   /\ phase' = "review"
                   /\ attempt' = 0
  /\ UNCHANGED <<cfg, agent, amap, cells, asked, todo, cases>>

----------------------------------------------------------------------------
(* The stage review, and the person it waits for.                          *)

Pending == {n \in DOMAIN dataset : dataset[n].review = "pending"}
Approved(ds) == Picked(ds, {n \in DOMAIN ds : ds[n].review = "approved"})

\* Nothing is pending: the decisions of a person are taken as they are.
ReviewDecided ==
  /\ phase = "review" /\ Pending = {}
  /\ IF Approved(dataset) = <<>>
       THEN StageRaises("review") /\ coverage' = coverage
       ELSE /\ coverage' = Achieved(cells, Approved(dataset))
            /\ phase' = "done"
            /\ attempt' = 0
  /\ UNCHANGED <<cfg, agent, amap, problems, cells, asked, todo, cases, dataset>>

\* The generator's review of its own cases: no verdict on a case, or no answer at all, leaves
\* it.  A call without a mock rule rejects its case, whatever was decided about it.
Judged(ds, rejected) ==
  [n \in DOMAIN ds |-> IF n \in rejected THEN [ds[n] EXCEPT !.review = "rejected"] ELSE ds[n]]

Review ==
  /\ phase = "review" /\ Pending # {}
  /\ \E rejected \in SUBSET DOMAIN dataset :
       LET judged == Judged(dataset, rejected)
           remaining == {n \in DOMAIN judged : judged[n].review = "pending"}
           approved == [n \in DOMAIN judged |->
                          IF n \in remaining THEN [judged[n] EXCEPT !.review = "approved"] ELSE judged[n]]
       IN  CASE remaining = {} ->
                  StageRaises("review") /\ dataset' = judged /\ coverage' = coverage
             [] remaining # {} /\ ~cfg.auto ->
                  /\ dataset' = judged
                  /\ phase' = "awaiting"
                  /\ UNCHANGED <<attempt, coverage>>
             [] OTHER ->
                  /\ dataset' = approved
                  /\ coverage' = Achieved(cells, Approved(approved))
                  /\ phase' = "done"
                  /\ attempt' = 0
  /\ UNCHANGED <<cfg, agent, amap, problems, cells, asked, todo, cases>>

\* `evalbuilder review --approve ID` or `--reject ID`.
Person ==
  /\ phase = "awaiting"
  /\ \E n \in DOMAIN dataset, status \in {"approved", "rejected"} :
       dataset' = [dataset EXCEPT ![n].review = status]
  /\ UNCHANGED <<cfg, agent, phase, attempt, amap, problems, cells, asked, todo, cases, coverage>>

Resume ==
  /\ phase = "awaiting"
  /\ phase' = "review"
  /\ attempt' = 0
  /\ UNCHANGED <<cfg, agent, amap, problems, cells, asked, todo, cases, dataset, coverage>>

Next ==
  \/ Discover \/ AskMap \/ RepairMap \/ GeneratorFails
  \/ Plan \/ AskCases \/ RepairCases \/ BuildDataset
  \/ ReviewDecided \/ Review \/ Person \/ Resume

Spec == Init /\ [][Next]_vars

----------------------------------------------------------------------------
(* Properties.                                                             *)

Keys == {Key(c) : c \in ToSet(cells)}
PlannedFor(key) == SumOf([n \in DOMAIN cells |-> IF Key(cells[n]) = key THEN cells[n].count ELSE 0])

\* Whatever map the generator drew, through its validation, its repair and the retries: the
\* plan asks for at least one case of each scenario, for requests out of scope and for the
\* configured total; it turns no more cases into conversations than the share and the cells
\* allow; it asks for no failure without evidence in the agent; and whatever the source, the
\* loaders and the import say of the same tools, no edge case is asked for twice, nor of a
\* tool that the imported agent holds to read its skills with, which no mock answers.
PlanIsSound ==
  LET applicable == Applicable IN
  cells # <<>> =>
    /\ \A s \in ToSet(amap.scenarios) : \E c \in ToSet(cells) :
         c.intent = s.intent /\ c.scenario = s.id /\ c.kind = s.kind /\ c.count > 0
    /\ cfg.out > 0 => \E c \in ToSet(cells) : c.mode = OutOfScope /\ c.count >= cfg.out
    /\ (\E c \in ToSet(cells) : c.kind = "happy") => Planned(cells) >= cfg.total
    /\ \A c \in ToSet(cells) : c.multi <= c.count
    /\ SumOf([n \in DOMAIN cells |-> cells[n].multi]) <= RoundPercent(Planned(cells) * cfg.share)
    /\ \A c \in ToSet(cells) :
         /\ c.kind \in {"failure", "category"} => c.mode \in applicable
         /\ c.kind \in {"happy", "failure"} => c.intent \in ToSet(amap.intents)
    /\ \A n, m \in DOMAIN cells :
         cells[n].kind = SchemaEdge /\ cells[m].kind = SchemaEdge /\ Key(cells[n]) = Key(cells[m]) => n = m
    /\ \A t \in ToSet(LiveTools(cfg.live)) : LiveLoader(t) =>
         \A e \in ToSet(t.edges) : \A c \in ToSet(cells) : c.kind = SchemaEdge => c.scenario # e.id

\* The plan, not the model, decides the size: however many cases the model sends, in the
\* first answer and in the repair together, no cell gets more than its plan; and a cell of
\* the dataset that holds fewer is not lost silently: the run's problems say that it stayed
\* short after the repair, or that duplicates were dropped.
SizeIsThePlans ==
  /\ phase \in {"cases", "cases_repair", "build"} =>
       \A key \in Keys : Have(cases, key) <= PlannedFor(key)
  /\ phase \in {"review", "awaiting", "done"} =>
       \A c \in ToSet(cells) :
         Have(dataset, Key(c)) < c.count =>
           <<"short", Key(c)>> \in problems \/ <<"duplicates", None>> \in problems

\* The two answers to "what is missing" agree where they speak of the same cells: when the
\* pipeline's plan has no gap, the gaps from the map alone miss no failure type that was
\* planned, and no happy scenario with all of its topics.
GapsAgree ==
  phase = "done" /\ coverage.gaps = {} =>
    LET missing == CoverageGaps(dataset, amap, 1)
        topics == IF amap.topics = <<>> THEN {"unspecified"} ELSE ToSet(amap.topics)
    IN  /\ \A s \in ToSet(amap.scenarios) :
             s.kind = "happy" => \E topic \in topics : <<s.intent, topic, s.id, None>> \notin missing
        /\ cfg.category > 0 =>
             \A f \in ToSet(amap.failures) : <<CrossCutting, "unspecified", "failure", f>> \notin missing
====
