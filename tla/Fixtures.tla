---- MODULE Fixtures ----
(***************************************************************************)
(* The mocks stage and what becomes of its rules (author_mocks and         *)
(* author_strategies of pipeline/generator.py, author_mocks of             *)
(* pipeline/stages.py, the overrides of a case, mocking.py): the generator *)
(* writes fixtures for the agent's tools, a case adds rules of its own,    *)
(* and the agent under evaluation calls a tool.                            *)
(*                                                                         *)
(* The arguments of a call are a set of facts (argument = value); a rule   *)
(* matches when its facts are among them.  "mistyped" is a fact that the   *)
(* tool's args_schema refuses, Bad a response that is missing, blank or    *)
(* null (any other text is a JSON value).                                  *)
(***************************************************************************)
EXTENDS ToolSchemas

CONSTANTS
  Tools,      \* names of the agent's mockable tools
  Catalogs,   \* what the agent's tools may be: [Tools -> [args, output: schemas]]
  Values,     \* JSON values the generator may write
  Facts,      \* facts about the arguments of a call
  Mockings,   \* what the keys of `mocking` may be: MockingConfig, or part of it
  MaxRules    \* bound: variants per tool, overrides per case

MockingConfig == [required : BOOLEAN, strategies : BOOLEAN,
                  strategy : {"default", "degraded"}, onInvalid : {"fallback", "strict"}]

Bad == [is |-> "bad"]
Nothing == "none"

ASSUME FixturesAssumption ==
  /\ MaxRules \in Nat
  /\ Mockings \subseteq MockingConfig
  /\ Bad \notin Values
  /\ \A c \in Catalogs : DOMAIN c = Tools
  /\ \A c \in Catalogs, t \in Tools :
       /\ IsFiniteSet(Required(c[t].args)) /\ IsFiniteSet(DOMAIN Properties(c[t].args))
       /\ Required(c[t].output) # {} =>
            /\ Says(c[t].output, "type") /\ c[t].output.type = "object"
            /\ ~Says(c[t].output, "enum") /\ ~Says(c[t].output, "anyOf")

Written == Values \cup {Bad}
Matches == SUBSET Facts \cup {{"mistyped"}}
Variants == BoundedSeq([match : Matches, response : Written], MaxRules)
Entries == [given : {TRUE}, default : Written, variants : Variants]
NoEntry == [given |-> FALSE]

VARIABLES
  catalog,     \* the tools of the agent
  onMiss,      \* mocking.on_miss
  config,      \* mocking.required, .strategies, .strategy and .on_invalid
  progress,    \* "mocks", "strategies", "check", "case", "calls", "failed"
  rules,       \* dataset.mocks.tools: the rules of every tool
  strategies,  \* strategy id -> tool -> its fallback response
  case         \* its edge, the strategy it selects, the rules it adds or replaces per tool

fixturesVars == <<catalog, onMiss, config, progress, rules, strategies, case>>

NoCase == [edge |-> Nothing, strategy |-> Nothing, tools |-> [t \in {} |-> <<>>]]

FixturesInit ==
  /\ catalog \in Catalogs
  /\ onMiss \in {"strict", "llm"}
  /\ config \in Mockings
  /\ progress = "mocks"
  /\ rules = [t \in Tools |-> <<>>]
  /\ strategies = [s \in {} |-> <<>>]
  /\ case = NoCase

Output(tool) == catalog[tool].output

\* A sample of an object schema, else a payload that says nothing about the schema.
Generic == Object([ok |-> [is |-> "boolean"], tool |-> Text(4), note |-> Text(20)])
SchemaFixture(tool) ==
  LET out == Output(tool)
  IN  IF Says(out, "type") /\ out.type = "object" /\ Says(out, "properties")
           /\ Example(out).is = "object"
        THEN Example(out) ELSE Generic

----------------------------------------------------------------------------
(* Layer 1: rules.                                                         *)

\* A schema is not consulted.
UsableJson(tool, variant) == variant.match # {} /\ variant.response # Bad

Usable(tool, variant) ==
  /\ variant.match # {} /\ variant.response # Bad
  /\ "mistyped" \notin variant.match
  /\ Conforms(variant.response, Output(tool), FALSE)

Default(tool, entry) ==
  IF entry.given /\ entry.default # Bad /\ Conforms(entry.default, Output(tool), FALSE)
    THEN entry.default ELSE SchemaFixture(tool)

\* Under on_miss llm the wildcard stays out: the mock engine answers the rest.
RulesOf(tool, entry) ==
  LET variants == IF entry.given
                  THEN Picked(entry.variants, {n \in DOMAIN entry.variants : Usable(tool, entry.variants[n])})
                  ELSE <<>>
      wildcard == [match |-> {}, response |-> Default(tool, entry)]
  IN  IF onMiss = "llm" THEN variants ELSE Append(variants, wildcard)

\* The generator may raise, or say nothing about a tool.
AuthorMocks ==
  /\ progress = "mocks"
  /\ \E reply \in [Tools -> Entries \cup {NoEntry}] :
       rules' = [t \in Tools |-> RulesOf(t, reply[t])]
  /\ progress' = "strategies"
  /\ UNCHANGED <<catalog, onMiss, config, strategies, case>>

----------------------------------------------------------------------------
(* Layer 2: strategies for the mock engine.                                *)

\* Every strategy is validated; `default` exists always and covers every tool.
Fallback(tool, text) ==
  IF text # Bad /\ Conforms(text, Output(tool), FALSE) THEN text ELSE SchemaFixture(tool)

Strategies(reply) ==
  LET Table(id) == [t \in DOMAIN reply[id] |-> Fallback(t, reply[id][t])]
      said == IF "default" \in DOMAIN reply THEN Table("default") ELSE [t \in {} |-> Null]
      whole == [t \in Tools |-> IF t \in DOMAIN said THEN said[t] ELSE SchemaFixture(t)]
  IN  [id \in DOMAIN reply \cup {"default"} |-> IF id = "default" THEN whole ELSE Table(id)]

\* validate_strategies: what `mock strategies --set` refuses.
StrategyProblems(table) ==
  (IF "default" \in DOMAIN table THEN {} ELSE {<<"default", Nothing>>})
  \cup {p \in (DOMAIN table) \X Tools :
           /\ p[2] \in DOMAIN table[p[1]]
           /\ table[p[1]][p[2]] # Null /\ ~Conforms(table[p[1]][p[2]], Output(p[2]), FALSE)}

Some(S, T) == UNION {[dom -> T] : dom \in SUBSET S}

AuthorStrategies ==
  /\ progress = "strategies"
  /\ IF config.strategies \/ onMiss = "llm"
       THEN \E reply \in Some({"default", "degraded"}, Some(Tools, Written)) :
              strategies' = Strategies(reply)
       ELSE strategies' = strategies
  /\ progress' = "check"
  /\ UNCHANGED <<catalog, onMiss, config, rules, case>>

\* mocking.required: raised when both files are written.
Covered(tool) ==
  \/ rules[tool] # <<>>
  \/ onMiss = "llm" /\ "default" \in DOMAIN strategies /\ tool \in DOMAIN strategies["default"]

CheckRequired ==
  /\ progress = "check"
  /\ progress' = IF config.required /\ \E t \in Tools : ~Covered(t) THEN "failed" ELSE "case"
  /\ UNCHANGED <<catalog, onMiss, config, rules, strategies, case>>

----------------------------------------------------------------------------
(* A case, with the overrides the generator wrote for it.                  *)

\* The rules of the case replace the dataset's.
OwnRulesOnly(own, shared) == own

\* The rules of the case first, and the dataset's unless the case ends with a wildcard.
WithFallback(own, shared) ==
  IF own # <<>> /\ Last(own).match = {} THEN own
  ELSE own \o Picked(shared, {n \in DOMAIN shared : shared[n] \notin ToSet(own)})

\* An override whose matcher is no object matches everything.
Overrides(raw) == Picked(raw, {n \in DOMAIN raw : raw[n].response # Bad})

\* The fixture of a malformed_output edge is corrupted by the pipeline itself.
CaseRules(tool, raw, edge) ==
  IF edge = "malformed_output" THEN <<[match |-> {}, response |-> Corrupt(Output(tool))]>>
  ELSE Overrides(raw)

\* A strategy the case selects is one of the dataset's.
AddCase ==
  /\ progress = "case"
  /\ \E tool \in Tools, raw \in Variants, chosen \in DOMAIN strategies \cup {Nothing} :
       \E edge \in {Nothing} \cup {e.kind : e \in ToSet(EdgeCases(catalog[tool]))} :
         LET own == CaseRules(tool, raw, edge)
         IN  case' = [edge |-> edge, strategy |-> chosen,
                      tools |-> IF own = <<>> THEN NoCase.tools
                                ELSE [t \in {tool} |-> WithFallback(own, rules[tool])]]
  /\ progress' = "calls"
  /\ UNCHANGED <<catalog, onMiss, config, rules, strategies>>

----------------------------------------------------------------------------
(* A call of a tool by the agent.                                          *)

\* merge_mock_rules: the rules of the case replace those of the dataset, per tool.
Merged(tool) == IF tool \in DOMAIN case.tools THEN case.tools[tool] ELSE rules[tool]

Matching(tool, args) == {n \in DOMAIN Merged(tool) : Merged(tool)[n].match \subseteq args}

\* The strategy of the case, else the configured one; one the engine does not know is `default`.
Selected ==
  LET wanted == IF case.strategy = Nothing THEN config.strategy ELSE case.strategy
  IN  IF wanted \in DOMAIN strategies THEN wanted ELSE "default"

\* The fallback of the strategy selected, or of `default` when that one leaves the tool out;
\* a sample when it has none.
EngineFallback(tool) ==
  LET Has(id) == id \in DOMAIN strategies /\ tool \in DOMAIN strategies[id]
      entry == IF Has(Selected) THEN strategies[Selected][tool]
               ELSE IF Has("default") THEN strategies["default"][tool] ELSE Null
  IN  IF entry = Null THEN SchemaFixture(tool) ELSE entry

Answered(response) == [error |-> Nothing, response |-> response]
Raised(error) == [error |-> error, response |-> Bad]

\* The mock model answers what conforms, at once or when it is asked to repair it; an answer
\* that still does not is replaced by the fallback, or raises MockEngineError.
Engine(tool) ==
  {Answered(v) : v \in {w \in Values \cup {Null} : Conforms(w, Output(tool), FALSE)}}
  \cup {IF config.onInvalid = "strict" THEN Raised("invalid") ELSE Answered(EngineFallback(tool))}

\* What the agent may get: the first rule that matches, else what on_miss says.
Outcomes(tool, args) ==
  IF Matching(tool, args) # {}
    THEN LET first == CHOOSE n \in Matching(tool, args) : \A m \in Matching(tool, args) : n <= m
         IN  {Answered(Merged(tool)[first].response)}
  ELSE IF onMiss = "llm" THEN Engine(tool)
  ELSE {Raised("miss")}

NextCase ==
  /\ progress = "calls"
  /\ progress' = "case"
  /\ case' = NoCase
  /\ UNCHANGED <<catalog, onMiss, config, rules, strategies>>

FixturesNext ==
  AuthorMocks \/ AuthorStrategies \/ CheckRequired \/ AddCase \/ NextCase

FixturesSpec == FixturesInit /\ [][FixturesNext]_fixturesVars

----------------------------------------------------------------------------
(* Properties.                                                             *)

Calls == SUBSET Facts

\* Whatever the generator wrote, failed to write or injected into a case, and whether or not
\* a fixture is required, a call of a mocked tool is answered: a per-case error for one set of
\* arguments "keeps the tool answerable for every other call".  The one error the agent may
\* meet is that of the engine, where mocking asks for it (on_miss llm with on_invalid strict).
ToolStaysAnswerable ==
  progress \in {"case", "calls"} =>
    \A t \in Tools, args \in Calls : \A o \in Outcomes(t, args) :
      \/ o.error = Nothing /\ o.response # Bad
      \/ o.error = "invalid" /\ onMiss = "llm" /\ config.onInvalid = "strict"

\* What the generator says gets into the fixtures only when it conforms to the tool's output
\* schema: a response that does not is the pipeline's own sample, or an injected error.  The
\* check that a person's strategies pass finds nothing else in those of the pipeline, and a
\* tool that the case leaves alone answers nothing else, whichever strategy is selected.
GeneratedConforms ==
  progress \in {"case", "calls"} =>
    /\ \A t \in Tools : \A r \in ToSet(rules[t]) :
         Conforms(r.response, Output(t), FALSE) \/ r.response = SchemaFixture(t)
    /\ strategies # <<>> =>
         \A p \in StrategyProblems(strategies) : p[2] \in Tools /\ strategies[p[1]][p[2]] = SchemaFixture(p[2])
    /\ \A t \in Tools \ DOMAIN case.tools, args \in Calls : \A o \in Outcomes(t, args) :
         o.error = Nothing => Conforms(o.response, Output(t), FALSE) \/ o.response = SchemaFixture(t)

\* "The pipeline corrupts the fixture itself so the edge is always exercised": in a case for
\* a malformed_output edge, every call of the tool gets a payload that breaks its schema.
EdgeIsExercised ==
  case.edge = "malformed_output" =>
    \A t \in DOMAIN case.tools, args \in Calls : \A o \in Outcomes(t, args) :
      o.error = Nothing /\ ~Conforms(o.response, Output(t), FALSE)

====
