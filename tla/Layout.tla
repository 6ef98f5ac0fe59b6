---- MODULE Layout ----
(***************************************************************************)
(* The files of an output directory (pipeline/layout.py): which file backs *)
(* a kind of artifact, what `evalbuilder pipeline compact` makes of a      *)
(* directory that older versions wrote, and what the two readers see: the  *)
(* pipeline (PipelineContext in pipeline/stages.py) and the UI             *)
(* (ui/loader.py).                                                         *)
(*                                                                         *)
(* The kinds kept here are those with a second home in another artifact    *)
(* (`folded_into`), and the state of the engine.  What matters of their    *)
(* data is which run wrote it: a value is the number of that run, with     *)
(* Oldest and Older for what earlier versions of the program left.  Of the *)
(* engine this is kept: stages in order, the completed ones in work/.      *)
(***************************************************************************)
EXTENDS Integers, FiniteSets

CONSTANTS
  OlderStates,  \* stages that an older version may have recorded as complete, as sets
  MaxRuns       \* bound: runs of the current version

\* Stages of the current version, and of older ones, that write what is kept here.
Discover == 1
Map == 2
Mocks == 3
Build == 4
Review == 5
Stages == 1..5
Deps == <<{}, {Discover}, {Discover}, {Map, Mocks}, {Build}>>

ASSUME LayoutAssumption ==
  /\ OlderStates \subseteq SUBSET Stages
  /\ \A done \in OlderStates : \A s \in done : Deps[s] \subseteq done
  /\ MaxRuns \in Nat

None == 0       \* no file, an absent or empty value
Torn == -1      \* a file cut short: reading it raises
Oldest == 1     \* written under the oldest name of its kind
Older == 2      \* written under a later name by a version before the fold

Derived == {"applicable_failures", "coverage_plan", "coverage"}
Handoff == {"mock_rules", "mock_strategies"}            \* tier work
Folded == Derived \cup Handoff
FoldOrder == <<"applicable_failures", "mock_rules", "mock_strategies", "coverage_plan", "coverage">>
Parents == {"agent_map", "dataset"}
FoldedInto(k) == IF k = "applicable_failures" THEN "agent_map" ELSE "dataset"
FoldedIn(p) == {k \in Folded : FoldedInto(k) = p}

\* File names of a kind, in the order they are looked for: 1 is the current one.
Names(k) ==
  CASE k = "mock_rules" -> 1..3
    [] k \in {"mock_strategies", "coverage_plan"} -> 1..2
    [] OTHER -> {1}

VARIABLES
  file,      \* stand-alone files, per kind and name
  doc,       \* agent-map.json and dataset.json: the folded data they carry
  state,     \* completed stages in work/state.json and in a state.json at the root
  pos,       \* the run: its stage, 0 when there is none
  done,      \* the run: completed stages
  runs,      \* runs so far; the current one writes Older + runs
  step,      \* compact_dir: its next step, 0 when there is none
  parents,   \* compact_dir: the parents it has loaded, and changed
  before,    \* history: what the pipeline saw of each kind when compact_dir began
  authored,  \* history: who wrote the rules that the last complete mocks stage left
  revived    \* history: work/ was deleted while files of an older version were at the root

vars == <<file, doc, state, pos, done, runs, step, parents, before, authored, revived>>
dirvars == <<file, doc, state>>
runvars == <<pos, done, runs, authored>>
compactvars == <<step, parents, before>>

NoState == {0}             \* no state file
Absent == [absent |-> TRUE]
TornDoc == [torn |-> TRUE]
NotRead == [unread |-> TRUE]
Readable(d) == d \notin {Absent, TornDoc, NotRead}
NothingRead == [p \in Parents |-> NotRead]
NothingSeen == [k \in Folded |-> None]
NewDoc(p) == [k \in FoldedIn(p) |-> None]

----
(* Who sees what *)

ExistingLegacyFirst(k) ==
  LET there == {n \in Names(k) : file[k][n] # None} IN
  IF there = {} THEN 0 ELSE CHOOSE n \in there : \A m \in there : m <= n
\* existing_path: the name of the file that backs kind k, 0 if there is none.
Existing(k) ==
  LET there == {n \in Names(k) : file[k][n] # None} IN
  IF there = {} THEN 0 ELSE CHOOSE n \in there : \A m \in there : n <= m

StandAlone(k) == IF Existing(k) = 0 THEN None ELSE file[k][Existing(k)]

\* fold_from
FoldFrom(k) == IF Readable(doc[FoldedInto(k)]) THEN doc[FoldedInto(k)][k] ELSE None

\* applicable, cells, coverage, mock_rules, mock_strategies: the parent first.
PipelineSees(k) ==
  CASE doc[FoldedInto(k)] = TornDoc -> Torn
    [] FoldFrom(k) # None -> FoldFrom(k)
    [] OTHER -> StandAlone(k)

\* load_dir with _derive_folded: a stand-alone file wins when it can be read.
UISees(k) == IF StandAlone(k) \in {None, Torn} THEN FoldFrom(k) ELSE StandAlone(k)

----
(* A run: what its stages leave in the directory *)

Version == Older + runs
Start ==
  /\ pos = 0 /\ step = 0 /\ runs < MaxRuns
  /\ \E from \in Stages \cup {1 + Review} :   \* --resume, perhaps --from; a new run keeps nothing
       done' = {s \in state["work"] \ NoState : s < from}
  /\ state' = [state EXCEPT !["work"] = done']
  /\ pos' = 1
  /\ runs' = runs + 1
  /\ UNCHANGED <<file, doc, compactvars, authored, revived>>

Writes(p, d) == doc' = [doc EXCEPT ![p] = d]
WritesWork(k) == file' = [file EXCEPT ![k][1] = Version]

DiscoverWrites == pos = Discover /\ Writes("agent_map", NewDoc("agent_map")) /\ UNCHANGED file

MapWrites ==
  /\ pos = Map /\ Readable(doc["agent_map"])
  /\ Writes("agent_map", [doc["agent_map"] EXCEPT !["applicable_failures"] = Version])
  /\ UNCHANGED file

\* The strategies are authored only when the config asks for them.
MocksWrites ==
  /\ pos = Mocks /\ Readable(doc["agent_map"])
  /\ \/ WritesWork("mock_rules")
     \/ file' = [file EXCEPT !["mock_rules"][1] = Version, !["mock_strategies"][1] = Version]
  /\ UNCHANGED doc

MockBlockOfDataset ==
  [mock_rules |-> PipelineSees("mock_rules"), mock_strategies |-> StandAlone("mock_strategies")]
\* mock_block: both layers from the handoff, not from a dataset of an earlier run.
MockBlock == [k \in Handoff |-> StandAlone(k)]

\* build_dataset; missing rules and unreadable handoffs raise.
BuildWrites ==
  /\ pos = Build /\ Readable(doc["agent_map"])
  /\ StandAlone("mock_rules") # None /\ \A k \in Handoff : StandAlone(k) # Torn
  /\ Writes("dataset", [k \in FoldedIn("dataset") |-> IF k \in Handoff THEN MockBlock[k] ELSE Version])
  /\ UNCHANGED file

\* review with _record_coverage, which needs the planned cells.
ReviewWrites ==
  /\ pos = Review /\ Readable(doc["dataset"]) /\ PipelineSees("coverage_plan") \notin {None, Torn}
  /\ Writes("dataset", [doc["dataset"] EXCEPT !["coverage"] = Version])
  /\ UNCHANGED file

StageWrites ==
  /\ pos \in Stages \ done /\ Deps[pos] \subseteq done
  /\ DiscoverWrites \/ MapWrites \/ MocksWrites \/ BuildWrites \/ ReviewWrites

StageCompletes ==
  /\ StageWrites
  /\ done' = done \cup {pos}
  /\ state' = [state EXCEPT !["work"] = done']
  /\ authored' = IF pos = Mocks THEN Version ELSE authored
  /\ pos' = pos + 1
  /\ UNCHANGED <<runs, compactvars, revived>>

\* map and mocks may raise after they have written; the others write last.
StageFails ==
  /\ pos \in Stages \ done /\ Deps[pos] \subseteq done
  /\ \/ MapWrites \/ MocksWrites
     \/ UNCHANGED <<file, doc>>
  /\ pos' = pos + 1
  /\ UNCHANGED <<state, done, runs, authored, compactvars, revived>>

\* The stage is complete or blocked, or the run is over.
Pass ==
  /\ pos > 0 /\ ~(pos \in Stages \ done /\ Deps[pos] \subseteq done)
  /\ pos' = IF pos = Review + 1 THEN 0 ELSE pos + 1
  /\ UNCHANGED <<dirvars, done, runs, authored, compactvars, revived>>

\* The run is killed, perhaps while it writes.
RunDies ==
  /\ pos > 0
  /\ \/ UNCHANGED <<file, doc>>
     \/ StageWrites
     \/ pos \in {Discover, Map} \ done /\ Writes("agent_map", TornDoc) /\ UNCHANGED file
     \/ pos = Mocks /\ pos \notin done /\ file' = [file EXCEPT !["mock_rules"][1] = Torn] /\ UNCHANGED doc
     \/ pos \in {Build, Review} \ done /\ Deps[pos] \subseteq done /\ Writes("dataset", TornDoc) /\ UNCHANGED file
  /\ pos' = 0
  /\ UNCHANGED <<state, done, runs, authored, compactvars, revived>>

----
(* compact_dir: fold every kind, write the parents, move the scratch *)

Folding == 1..5
WriteMap == 6
WriteDataset == 7
Moving == 8..9
MoveState == 10

CompactStarts ==
  /\ pos = 0 /\ step = 0
  /\ step' = 1
  /\ UNCHANGED parents
  /\ before' = [k \in Folded |-> PipelineSees(k)]
  /\ UNCHANGED <<dirvars, runvars, revived>>

ParentOf(k) == IF parents[FoldedInto(k)] = NotRead THEN doc[FoldedInto(k)] ELSE parents[FoldedInto(k)]

SetPathAlways(parent, k) == [parent EXCEPT ![k] = StandAlone(k)]
\* The copy is folded in only where the parent carries nothing yet.
SetPath(parent, k) == IF parent[k] = None THEN [parent EXCEPT ![k] = StandAlone(k)] ELSE parent

Raises(k) ==
  /\ Existing(k) # 0
  /\ \/ ParentOf(k) = TornDoc
     \/ Readable(ParentOf(k)) /\ ParentOf(k)[k] = None /\ StandAlone(k) = Torn

UnlinksAny(k) == file' = [file EXCEPT ![k][Existing(k)] = None]
\* Only a derived kind loses its file here: a handoff is moved later.
Unlinks(k) == file' = IF k \in Derived THEN [file EXCEPT ![k][Existing(k)] = None] ELSE file

FoldKind ==
  /\ step \in Folding
  /\ LET k == FoldOrder[step] IN
       \/ /\ Existing(k) = 0
          /\ UNCHANGED <<file, parents>>
       \/ /\ Existing(k) # 0 /\ ~Raises(k)
          /\ IF Readable(ParentOf(k))
             THEN Unlinks(k) /\ parents' = [parents EXCEPT ![FoldedInto(k)] = SetPath(ParentOf(k), k)]
             ELSE UNCHANGED file /\ parents' = [parents EXCEPT ![FoldedInto(k)] = ParentOf(k)]
  /\ step' = step + 1
  /\ UNCHANGED <<doc, state, before, runvars, revived>>

WriteParent ==
  /\ step \in {WriteMap, WriteDataset}
  /\ LET p == IF step = WriteMap THEN "agent_map" ELSE "dataset" IN
       IF Readable(parents[p]) THEN Writes(p, parents[p]) ELSE UNCHANGED doc
  /\ step' = step + 1
  /\ UNCHANGED <<file, state, parents, before, runvars, revived>>

MoveHandoff ==
  /\ step \in Moving
  /\ LET k == IF step = 8 THEN "mock_rules" ELSE "mock_strategies" IN
       file' = IF Existing(k) \in {0, 1} THEN file
               ELSE [file EXCEPT ![k][1] = StandAlone(k), ![k][Existing(k)] = None]
  /\ step' = step + 1
  /\ UNCHANGED <<doc, state, parents, before, runvars, revived>>

CompactEnds == step' = 0 /\ parents' = NothingRead /\ before' = NothingSeen

CompactFinishes ==
  /\ step = MoveState
  /\ state' = IF state["work"] # NoState THEN state ELSE [work |-> state["root"], root |-> NoState]
  /\ CompactEnds
  /\ UNCHANGED <<file, doc, runvars, revived>>

\* An unreadable file raises: what is folded so far is not written.
CompactRaises ==
  /\ step \in Folding /\ Raises(FoldOrder[step])
  /\ CompactEnds
  /\ UNCHANGED <<dirvars, runvars, revived>>

CompactDies ==
  /\ step > 0
  /\ \/ UNCHANGED doc
     \/ step = WriteMap /\ Readable(parents["agent_map"]) /\ Writes("agent_map", TornDoc)
     \/ step = WriteDataset /\ Readable(parents["dataset"]) /\ Writes("dataset", TornDoc)
  /\ CompactEnds
  /\ UNCHANGED <<file, state, runvars, revived>>

----
(* A person removes work/, which layout.py calls scratch *)

Leftover(k) == {n \in Names(k) : file[k][n] # None /\ (n > 1 \/ k \in Derived)}
NoLeftovers == state["root"] = NoState /\ \A k \in Folded : Leftover(k) = {}

DeleteWork ==
  /\ pos = 0 /\ step = 0
  /\ file' = [k \in Folded |-> IF k \in Handoff THEN [file[k] EXCEPT ![1] = None] ELSE file[k]]
  /\ state' = [state EXCEPT !["work"] = NoState]
  /\ revived' = (revived \/ ~NoLeftovers)
  /\ UNCHANGED <<doc, runvars, compactvars>>

----

LegacyValue(k, n) == IF n = Cardinality(Names(k)) /\ n > 1 THEN Oldest ELSE Older
\* What older versions left of a kind: under any of the names they used.
OlderFiles(k, written) ==
  {f \in [Names(k) -> {None, Oldest, Older}] :
     /\ \A n \in Names(k) : f[n] \in {None, LegacyValue(k, n)}
     /\ k \in Handoff => f[1] = None
     /\ written <=> \E n \in Names(k) : f[n] # None}

\* A new directory, or one that older versions wrote up to some stage; the dataset had a
\* copy of the rules before the fold.
Init ==
  /\ \E old \in OlderStates :
       /\ \E applicable \in OlderFiles("applicable_failures", Map \in old),
             rules \in OlderFiles("mock_rules", Mocks \in old),
             strategies \in OlderFiles("mock_strategies", FALSE) \cup OlderFiles("mock_strategies", Mocks \in old),
             plan \in OlderFiles("coverage_plan", Build \in old),
             achieved \in OlderFiles("coverage", Build \in old) :
            file = [applicable_failures |-> applicable, mock_rules |-> rules,
                    mock_strategies |-> strategies, coverage_plan |-> plan, coverage |-> achieved]
       /\ doc = [agent_map |-> IF Discover \in old THEN NewDoc("agent_map") ELSE Absent,
                 dataset |-> IF Build \in old
                             THEN [NewDoc("dataset") EXCEPT !["mock_rules"] = StandAlone("mock_rules")]
                             ELSE Absent]
       /\ state = [work |-> NoState, root |-> IF old = {} THEN NoState ELSE old]
  /\ authored = StandAlone("mock_rules")
  /\ pos = 0 /\ done = {} /\ runs = 0
  /\ step = 0 /\ parents = NothingRead /\ before = NothingSeen
  /\ revived = FALSE

Next ==
  \/ Start \/ StageCompletes \/ StageFails \/ Pass \/ RunDies
  \/ CompactStarts \/ FoldKind \/ WriteParent \/ MoveHandoff \/ CompactFinishes
  \/ CompactRaises \/ CompactDies
  \/ DeleteWork

Spec == Init /\ [][Next]_vars

----
(* Properties *)

\* The dataset of a complete dataset stage carries the rules that the last complete mocks
\* stage authored: no older file and no older dataset shadows them, through compactions,
\* deletions of work/, crashes and resumes (unless work/ was deleted over older files).
RulesAreTheAuthored ==
  Build \in state["work"] /\ Readable(doc["dataset"]) /\ ~revived =>
    doc["dataset"]["mock_rules"] = authored

\* A compaction that comes to its end changes nothing of what the pipeline sees.
CompactKeepsView ==
  [][CompactFinishes => \A k \in Folded : PipelineSees(k) = before[k]]_vars

\* However a compaction ends, what the pipeline needs from work/ or finds in a parent that
\* it can still read is what it was: only a copy that was just being folded can be lost.
OnlyCopiesAreLost ==
  [][CompactRaises \/ CompactDies =>
       \A k \in Folded :
         \/ PipelineSees(k)' \in {before[k], Torn}
         \/ k \in Derived /\ FoldFrom(k)' = None]_vars

\* Two readers that look in opposite orders see the same, once the dataset is built and
\* as long as no older file is left and the parent can be read.
ReadersAgree ==
  Build \in state["work"] /\ NoLeftovers /\ ~revived /\ pos = 0 /\ step = 0 =>
    \A k \in Folded : Readable(doc[FoldedInto(k)]) => UISees(k) = PipelineSees(k)
====
