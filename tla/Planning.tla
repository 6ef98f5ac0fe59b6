---- MODULE Planning ----
(***************************************************************************)
(* From the generator's map of an agent to the cells its dataset must fill *)
(* (pipeline/planning.py, and _validate_map of pipeline/generator.py), and *)
(* the comparison of a dataset with its plan.                              *)
(*                                                                         *)
(* An item of the map keeps what the code looks at: `sound` says that its  *)
(* id is a slug and that it cites evidence.  A share is in percent.        *)
(***************************************************************************)
EXTENDS Integers, Sequences, FiniteSets, SequencesExt, FiniteSetsExt, Places

None == "none"
OutOfScope == "out_of_scope"
CrossCutting == "cross-cutting"
SchemaEdge == "schema-edge"

Greater(a, b) == IF a > b THEN a ELSE b
Smaller(a, b) == IF a < b THEN a ELSE b

----------------------------------------------------------------------------
(* The map: what is kept of the generator's answer, and its problems.      *)

GoodIntents(answer) == Picked(answer.intents, {n \in DOMAIN answer.intents : answer.intents[n].sound})
IntentIds(answer) == {i.id : i \in ToSet(GoodIntents(answer))}

Keeps(answer, applicable, s) ==
  /\ s.sound
  /\ s.intent \in IntentIds(answer)
  /\ s.kind = "failure" => s.mode \in applicable

\* A kept scenario is linked to the skills of the agent only.
GoodScenarios(answer, applicable, skills) ==
  LET good == Picked(answer.scenarios, {n \in DOMAIN answer.scenarios : Keeps(answer, applicable, answer.scenarios[n])})
  IN  [n \in DOMAIN good |-> [good[n] EXCEPT !.skills = @ \cap skills]]

\* One failure scenario per type; a repetition is dropped in silence.
GoodFailures(answer, applicable) ==
  LET said == answer.failures
  IN  Picked(said, {n \in DOMAIN said : said[n] \in applicable /\ \A m \in 1..n - 1 : said[m] # said[n]})

MapErrors(answer, applicable, skills) ==
  LET good == ToSet(GoodScenarios(answer, applicable, skills))
      Lacks(kind) == {i \in IntentIds(answer) : \A s \in good : s.intent = i => s.kind # kind}
  IN  {<<"intent", i.id>> : i \in {i \in ToSet(answer.intents) : ~i.sound}}
      \cup (IF IntentIds(answer) = {} THEN {<<"no_intents", None>>} ELSE {})
      \cup {<<"scenario", s.id>> :
              s \in {s \in ToSet(answer.scenarios) : ~Keeps(answer, applicable, s) \/ ~(s.skills \subseteq skills)}}
      \cup {<<"no_happy", i>> : i \in Lacks("happy")}
      \cup {<<"no_failure", i>> : i \in Lacks("failure")}
      \cup {<<"failure", f>> : f \in ToSet(answer.failures) \ applicable}

Unexercised(answer, applicable, skills) ==
  {<<"skill", k>> : k \in {k \in skills : \A s \in ToSet(GoodScenarios(answer, applicable, skills)) : k \notin s.skills}}

CleanMap(answer, applicable, skills) ==
  [intents   |-> [n \in DOMAIN GoodIntents(answer) |-> GoodIntents(answer)[n].id],
   scenarios |-> GoodScenarios(answer, applicable, skills),
   failures  |-> GoodFailures(answer, applicable),
   topics    |-> answer.topics]

----------------------------------------------------------------------------
(* The plan.                                                               *)

\* Without the max: a share may be empty.
SpreadShort(total, buckets) ==
  [n \in 1..buckets |-> (total \div buckets) + (IF n <= total % buckets THEN 1 ELSE 0)]

Spread(total, buckets) ==
  LET all == Greater(total, buckets)
  IN  [n \in 1..buckets |-> (all \div buckets) + (IF n <= all % buckets THEN 1 ELSE 0)]

Cell(intent, scenario, mode, kind, count) ==
  [intent |-> intent, topic |-> "unspecified", scenario |-> scenario, mode |-> mode,
   kind |-> kind, count |-> count, multi |-> 0]

Key(cell) == <<cell.intent, cell.topic, cell.scenario, cell.mode>>

CellsOfIntent(amap, intent, kind, per) ==
  LET own == Picked(amap.scenarios, {n \in DOMAIN amap.scenarios :
                                     amap.scenarios[n].intent = intent /\ amap.scenarios[n].kind = kind})
      counts == Spread(per, Len(own))
  IN  [n \in DOMAIN own |->
         Cell(intent, own[n].id, IF kind = "failure" THEN own[n].mode ELSE None, kind, counts[n])]

\* Topics rotate over the cells of the intents.
IntentCells(cfg, amap) ==
  LET cells == FlattenSeq([n \in DOMAIN amap.intents |->
                 CellsOfIntent(amap, amap.intents[n], "happy", cfg.happy)
                 \o CellsOfIntent(amap, amap.intents[n], "failure", cfg.failure)])
      topics == IF amap.topics = <<>> THEN <<"unspecified">> ELSE amap.topics
  IN  [n \in DOMAIN cells |-> [cells[n] EXCEPT !.topic = topics[((n - 1) % Len(topics)) + 1]]]

\* The scenario of a category cell is its failure type.
CategoryCellsByType(cfg, amap) ==
  IF cfg.category <= 0 THEN <<>>
  ELSE [n \in DOMAIN amap.failures |->
          Cell(CrossCutting, amap.failures[n], amap.failures[n], "category", cfg.category)]

\* Out of scope is always applicable.
CategoryCells(cfg, amap) ==
  LET types == IF cfg.out > 0 /\ OutOfScope \notin ToSet(amap.failures)
                 THEN Append(amap.failures, OutOfScope) ELSE amap.failures
      CellOf(type) == IF type = OutOfScope
        THEN Cell(CrossCutting, "failure", type, "out-of-intent", Greater(cfg.category, cfg.out))
        ELSE Cell(CrossCutting, "failure", type, "category", cfg.category)
      all == [n \in DOMAIN types |-> CellOf(types[n])]
  IN  Picked(all, {n \in DOMAIN all : all[n].count > 0})

\* The first edge cases of every tool: `tools` holds the edges of each.
EdgeCells(cfg, tools) ==
  FlattenSeq([n \in DOMAIN tools |->
    LET first == SubSeq(tools[n], 1, Smaller(cfg.edges, Len(tools[n])))
    IN  [j \in DOMAIN first |-> Cell(CrossCutting, first[j].id, first[j].mode, SchemaEdge, 1)]])

Planned(cells) == SumOf([n \in DOMAIN cells |-> cells[n].count])

\* The floor on the size: extra happy cases.
WithFloor(cfg, cells) ==
  LET happy == {n \in DOMAIN cells : cells[n].kind = "happy"}
      extra == Spread(cfg.total - Planned(cells), Cardinality(happy))
      Rank(n) == Cardinality({m \in happy : m <= n})
  IN  IF Planned(cells) >= cfg.total THEN cells
      ELSE [n \in DOMAIN cells |->
              IF n \in happy THEN [cells[n] EXCEPT !.count = @ + extra[Rank(n)]] ELSE cells[n]]

\* round() of a number given in percent: half to even.
RoundPercent(x) ==
  LET down == x \div 100
  IN  IF x % 100 > 50 \/ (x % 100 = 50 /\ down % 2 = 1) THEN down + 1 ELSE down

\* The places of the intent cells, the largest first and equal ones in order.
MultiTurnOrder(cells) ==
  LET places == {n \in DOMAIN cells : cells[n].kind \in {"happy", "failure"}}
      Before(a, b) == cells[a].count > cells[b].count \/ (cells[a].count = cells[b].count /\ a < b)
  IN  Ranked(places, {p \in places \X places : Before(p[1], p[2])})

\* Every cell in turn takes half of what is still wanted, and at least one.
Take(count, wanted) == IF wanted <= 0 THEN 0 ELSE Smaller(count, Greater(1, wanted \div 2))

WithMultiTurn(cfg, cells) ==
  LET order == MultiTurnOrder(cells)
      wanted[k \in 0..Len(order)] ==
        IF k = 0 THEN RoundPercent(Planned(cells) * cfg.share)
        ELSE wanted[k - 1] - Take(cells[order[k]].count, wanted[k - 1])
      Turn(n) == CHOOSE k \in DOMAIN order : order[k] = n
  IN  [n \in DOMAIN cells |->
         IF cells[n].kind \in {"happy", "failure"}
           THEN [cells[n] EXCEPT !.multi = Take(cells[n].count, wanted[Turn(n) - 1])] ELSE cells[n]]

PlanCells(cfg, amap, tools) ==
  WithMultiTurn(cfg, WithFloor(cfg,
    IntentCells(cfg, amap) \o CategoryCells(cfg, amap) \o EdgeCells(cfg, tools)))

----------------------------------------------------------------------------
(* The comparison of cases (each with the key of its cell) with the plan.  *)

Have(cases, key) == Cardinality({n \in DOMAIN cases : cases[n].key = key})

\* What `dataset gaps` and the report ask for, from the map alone: every scenario with
\* every topic, without a failure, and every failure type.
RequiredCells(amap) ==
  {<<s.intent, topic, s.id, None>> :
     s \in ToSet(amap.scenarios),
     topic \in IF amap.topics = <<>> THEN {"unspecified"} ELSE ToSet(amap.topics)}
  \cup {<<CrossCutting, "unspecified", "failure", f>> : f \in ToSet(amap.failures)}

\* Cases count whatever their review says.
CoverageGaps(cases, amap, target) == {key \in RequiredCells(amap) : Have(cases, key) < target}

Achieved(cells, cases) ==
  [planned |-> Planned(cells),
   covered |-> SumOf([n \in DOMAIN cells |-> Smaller(Have(cases, Key(cells[n])), cells[n].count)]),
   gaps    |-> {Key(c) : c \in {c \in ToSet(cells) : Have(cases, Key(c)) < c.count}}]

====
