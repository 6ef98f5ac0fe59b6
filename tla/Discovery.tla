---- MODULE Discovery ----
(***************************************************************************)
(* What the pipeline knows of an agent before it asks the generator: the   *)
(* tools and skills its source declares (discover.py), put together with   *)
(* those of the imported module (the stage discover of pipeline/stages.py),*)
(* and the failure types for which they are evidence (pipeline/taxonomy.py)*)
(*                                                                         *)
(* `edges` of a tool are the edge cases of its schemas.  A source is read, *)
(* never run; an import may fail, or show a tool that nothing can describe *)
(* (`odd`).  The nodes of the graph are only shown, and left out.          *)
(***************************************************************************)
EXTENDS Integers, Sequences, FiniteSets, SequencesExt, Places

CONSTANT SearchNames    \* names of tools that speak of a search

SkillLoaderNames == {"load_skill", "read_skill", "get_skill", "use_skill"}

NamesOf(tools) == {t.name : t \in ToSet(tools)}

\* A loader of skills is never mocked, and has no edge cases.
MapTool(name, loader, edges) ==
  [name |-> name, mockable |-> ~loader, edges |-> IF loader THEN <<>> ELSE edges]

----------------------------------------------------------------------------
(* The source.                                                             *)

DecoratedTools(source) ==
  [n \in DOMAIN source.tools |->
     MapTool(source.tools[n].name, source.tools[n].name \in SkillLoaderNames, source.tools[n].edges)]

\* `x = skill_loader_tool(...)`: a loader, unless a function has its name.
WithLoaders(tools, loaders) ==
  LET new == Picked(loaders, {n \in DOMAIN loaders :
                                loaders[n] \notin NamesOf(tools) /\ \A m \in 1..n - 1 : loaders[m] # loaders[n]})
  IN  tools \o [n \in DOMAIN new |-> MapTool(new[n], TRUE, <<>>)]

\* The tools in the module's list TOOLS first, in its order; the last place of a name counts.
InListOrder(tools, list) ==
  LET Listed(n) == {i \in DOMAIN list : list[i] = tools[n].name}
      Place(n) == IF Listed(n) = {} THEN Len(list) + 1
                  ELSE CHOOSE i \in Listed(n) : \A j \in Listed(n) : j <= i
      Before(a, b) == Place(a) < Place(b) \/ (Place(a) = Place(b) /\ a < b)
      order == Ranked(DOMAIN tools, {p \in (DOMAIN tools) \X (DOMAIN tools) : Before(p[1], p[2])})
  IN  [k \in DOMAIN order |-> tools[order[k]]]

DeclaredTools(source) == InListOrder(WithLoaders(DecoratedTools(source), source.loaders), source.list)

----------------------------------------------------------------------------
(* The imported module, which knows better.                                *)

LiveTools(live) == IF live.loads THEN live.tools ELSE <<>>

\* A tool that cannot be described passes for an ordinary one.
LiveLoader(t) == ~t.odd /\ (t.tagged \/ t.name \in SkillLoaderNames)

\* The edge cases of a tool in the source are made again, of the live schema.
Refreshed(live, tool) ==
  LET same == {t \in ToSet(LiveTools(live)) : t.name = tool.name}
  IN  IF same = {} THEN tool
      ELSE LET t == CHOOSE t \in same : TRUE IN MapTool(t.name, LiveLoader(t), t.edges)

\* One that only the module shows is taken as it was described.
LiveOnly(t) == MapTool(t.name, LiveLoader(t), IF t.odd THEN <<>> ELSE t.edges)

AgentTools(source, live) ==
  LET declared == DeclaredTools(source)
      shown == LiveTools(live)
      others == Picked(shown, {n \in DOMAIN shown : shown[n].name \notin NamesOf(declared)})
  IN  [n \in DOMAIN declared |-> Refreshed(live, declared[n])] \o [n \in DOMAIN others |-> LiveOnly(others[n])]

\* The module's skills are asked for only when it showed a tool.
AsksForSkills(live) == LiveTools(live) # <<>>

AgentMap(source, live, perTool) ==
  LET tools == AgentTools(source, live)
  IN  [tools    |-> IF perTool > 0 THEN tools ELSE [n \in DOMAIN tools |-> [tools[n] EXCEPT !.edges = <<>>]],
       skills   |-> source.skills \cup IF AsksForSkills(live) /\ live.describes THEN live.skills ELSE {},
       branches |-> source.branches]

DiscoveryProblems(live) ==
  (IF ~live.builds THEN {<<"discover", "graph">>} ELSE {})
    \cup (IF ~live.loads THEN {<<"discover", "tools">>} ELSE {})
    \cup (IF AsksForSkills(live) /\ ~live.describes THEN {<<"discover", "skills">>} ELSE {})

----------------------------------------------------------------------------
(* The failure types with evidence in an agent, or in the text of its      *)
(* source (`traits`).                                                      *)

AlwaysApplicable == {"input_validation", "provider_error", "out_of_scope"}

ApplicableFailureTypes(agent, traits, constrained, multiTurn) ==
  LET Given(evidence, types) == IF evidence THEN types ELSE {}
  IN  AlwaysApplicable
        \cup Given(agent.branches, {"branch_misrouting"})
        \cup Given(agent.tools # <<>>, {"tool_misuse", "tool_error_handling", "prompt_injection"})
        \cup Given(NamesOf(agent.tools) \cap SearchNames # {} \/ "retriever" \in traits,
                   {"retrieval_grounding"})
        \cup Given(multiTurn \/ "checkpointer" \in traits, {"state_loss"})
        \cup Given("structured" \in traits, {"output_contract_violation"})
        \cup Given(constrained, {"constraint_violation"})
        \cup Given(agent.skills # {}, {"skill_misuse"})
====
