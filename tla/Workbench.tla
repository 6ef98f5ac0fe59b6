---- MODULE Workbench ----
(* The commands people and skills work on a dataset artifact with, one process each:
   `evalbuilder dataset`, `review`, `mock`, `simulate`, `infer --scenarios` and `publish`
   (cli.py), the edits they are made of and the checks of the write gate (artifacts.py).

   Every command loads dataset.json, edits its own copy and writes the whole copy back;
   nothing locks the file. Most writes pass the gate `_save_valid`, which refuses an
   invalid dataset; the writes of `publish` and of the UI's rejections do not.

   A case is known by its id. Without an id of its own it gets the hash of its content:
   the ids in Contents stand for that, Given is one that somebody chose. *)
EXTENDS Naturals, Functions

CONSTANTS
  Commands,     \* processes
  Contents,     \* the content of cases, and the ids that hash it
  Given,        \* an id that a case brings along
  Strategies,   \* strategy ids of the LLM mock engine
  Default,      \* the one among them that every table has
  None,
  MaxTurns,     \* bound: turns and follow-ups of a scenario
  MaxCommands   \* bound: commands that are started

Ids == Contents \cup {Given}

VARIABLES
  file,     \* dataset.json, None before it is there
  copy,     \* command -> the edited copy it will write, None when it is not running
  started,  \* counted for the bound
  decided,  \* history: the last decision of a person on each id, "none" if none
  excused   \* history: ids whose decision was erased by `init`, or may be overwritten
            \* by a command that had loaded the file before

vars == <<file, copy, started, decided, excused>>

Cases(doc) == DOMAIN doc.case
Empty == [case |-> <<>>, ids |-> {}, chosen |-> None, llm |-> FALSE, model |-> FALSE, rules |-> TRUE]

-----
(* Edits of a copy: the set of its possible results, empty when the edit is refused *)

\* `normalize_case`: whatever the case says of itself, it is pending.
Normalized(strategy) == [status |-> "pending", strategy |-> strategy]

With(doc, ids, case) ==
  [doc EXCEPT !.case = [i \in Cases(doc) \cup ids |-> IF i \in ids THEN case ELSE doc.case[i]]]

\* Mutant: a duplicate replaces the case.
AddCaseAnew(doc, id, strategy) == {With(doc, {id}, Normalized(strategy))}

AddCase(doc, id, strategy) == IF id \in Cases(doc) THEN {} ELSE {With(doc, {id}, Normalized(strategy))}

\* Foreign rows lose their ids and reviews; a duplicate refuses the whole file.
ImportCases(doc, rows) ==
  IF IsInjective(rows) /\ Range(rows) \cap Cases(doc) = {}
  THEN {With(doc, Range(rows), Normalized(None))} ELSE {}

SetReview(doc, ids, status) ==
  IF ids \subseteq Cases(doc)
  THEN {[doc EXCEPT !.case = [i \in Cases(doc) |-> IF i \in ids THEN [@[i] EXCEPT !.status = status] ELSE @[i]]]}
  ELSE {}

\* `mock set`: a rule list, well formed or not, for one tool of the dataset or a case.
MockSet(doc) == {[doc EXCEPT !.rules = ok] : ok \in BOOLEAN}

\* `mock strategies --case`: pins the strategy of one case.
Pin(doc, id, strategy) == IF id \in Cases(doc) THEN {[doc EXCEPT !.case[id].strategy = strategy]} ELSE {}

\* `validate_strategies` refuses a table without the default strategy.
ValidTables == {ids \in SUBSET Strategies : Default \in ids}

\* `mock strategies` with its other options: the strategies and the dataset's choice of
\* one, or the miss policy and the engine's model.
MockStrategies(doc) ==
  {[doc EXCEPT !.ids = o.ids, !.chosen = o.chosen] :
     o \in [ids : {doc.ids} \cup ValidTables, chosen : {doc.chosen} \cup Strategies]}
  \cup {[doc EXCEPT !.llm = o.llm, !.model = o.model] : o \in [llm : BOOLEAN, model : {doc.model, TRUE}]}

\* `load_scenarios`: an end is given, by a success literal, an expectation or both.
Scenarios ==
  {s \in [turns : 1..MaxTurns, followups : 0..MaxTurns, literal : BOOLEAN, expect : BOOLEAN] :
     s.literal \/ s.expect}

\* The next user message: a follow-up while there are some, then the user model, if any.
Continues(s, turn, user) == turn <= s.followups \/ user

\* `simulate_scenario`. The success literal first comes in the reply of the turn `met`, 0 when
\* it never does. Running out of turns without the literal is a violation of its own.
SimulateScenario(s, user, met, unexpected) ==
  LET stop == IF s.literal /\ met \in 1..s.turns /\ \A n \in 1..(met - 1) : Continues(s, n, user)
                THEN "success"
              ELSE IF \A n \in 1..s.turns : Continues(s, n, user) THEN "max_turns"
              ELSE "exhausted"
  IN  [stop |-> stop, violated |-> (s.expect /\ unexpected) \/ (s.literal /\ stop = "max_turns")]

\* A conversation that ends in an error has no transcript to make a case of.
Results ==
  {SimulateScenario(s, user, met, unexpected) :
     s \in Scenarios, user \in BOOLEAN, met \in 0..MaxTurns, unexpected \in BOOLEAN}
  \cup {[stop |-> "error", violated |-> FALSE]}

\* Exhausted without its literal is no failure.
Mined(result) == result.violated \/ result.stop = "max_turns"

\* `mine_failures`: a case for every scenario that failed.
MineFailures(doc, failed) ==
  IF failed \cap Cases(doc) = {} THEN {With(doc, failed, Normalized(None))} ELSE {}

\* `publish` refuses a dataset without approved cases.
Publish(doc) == IF \E i \in Cases(doc) : doc.case[i].status = "approved" THEN {doc} ELSE {}

-----
(* The write gate *)

\* The dataset's own policy: rules well formed, a model for on_miss llm, a declared choice.
PolicyValid(doc) ==
  /\ doc.rules
  /\ doc.llm => doc.model
  /\ doc.ids # {} => doc.chosen \in doc.ids \cup {None}

\* `validate_dataset`: the policy, and the strategy every case pins.
ValidateDataset(doc) ==
  /\ PolicyValid(doc)
  /\ \A i \in Cases(doc) : doc.case[i].strategy \in doc.ids \cup {None}

-----
(* A command: loads and edits, later writes *)

Edits(doc) ==
  UNION (
    {AddCase(doc, id, s) : id \in Ids, s \in Strategies \cup {None}}
    \cup {ImportCases(doc, rows) : rows \in UNION {[1..n -> Contents] : n \in 1..2}}
    \cup {MockSet(doc), MockStrategies(doc)}
    \cup {Pin(doc, id, s) : id \in Ids, s \in Strategies})

Running == {c \in Commands : copy[c] # None}

Starts(c, kind, doc) ==
  /\ copy[c] = None /\ started < MaxCommands
  /\ started' = started + 1
  /\ copy' = [copy EXCEPT ![c] = [kind |-> kind, doc |-> doc, ids |-> {}, status |-> "none"]]
  /\ UNCHANGED <<file, decided, excused>>

\* `dataset init` does not look at what is there.
DatasetInit(c) == Starts(c, "init", Empty)

\* `dataset add`, `dataset import`, `mock set` and `mock strategies`.
Edit(c) == file # None /\ \E doc \in Edits(file) : Starts(c, "gated", doc)

\* `simulate` and `infer --scenarios`: the file is loaded before the conversations, and
\* written after them when there is something to mine.
Simulate(c) ==
  /\ file # None
  /\ \E mined \in [Contents -> {Mined(r) : r \in Results}] :
       LET failed == {s \in Contents : mined[s]}
       IN  failed # {} /\ \E doc \in MineFailures(file, failed) : Starts(c, "gated", doc)

PublishApproved(c) == file # None /\ \E doc \in Publish(file) : Starts(c, "ungated", doc)

\* `review`, and the rejections of the UI, which write without the gate.
Review(c) ==
  /\ file # None /\ copy[c] = None /\ started < MaxCommands
  /\ started' = started + 1
  /\ \E ids \in (SUBSET Cases(file)) \ {{}}, status \in {"approved", "rejected"}, kind \in {"gated", "ungated"} :
       /\ kind = "ungated" => status = "rejected"
       /\ \E doc \in SetReview(file, ids, status) :
            copy' = [copy EXCEPT ![c] = [kind |-> kind, doc |-> doc, ids |-> ids, status |-> status]]
  /\ UNCHANGED <<file, decided, excused>>

\* The whole copy replaces the file. A decision counts from here; whoever loaded the file
\* earlier and writes later takes it back.
Save(c) ==
  /\ copy[c] # None
  /\ copy' = [copy EXCEPT ![c] = None]
  /\ LET w == copy[c]
         others == Running \ {c}
     IN \/ /\ w.kind # "ungated" /\ ~ValidateDataset(w.doc)
           /\ UNCHANGED <<file, decided, excused>>
        \/ /\ w.kind = "ungated" \/ ValidateDataset(w.doc)
           /\ file' = w.doc
           /\ decided' = [i \in Ids |-> IF i \in w.ids THEN w.status ELSE decided[i]]
           /\ excused' = IF w.kind = "init" THEN Ids
                         ELSE IF others # {} THEN excused \cup w.ids
                         ELSE excused \ w.ids
  /\ UNCHANGED started

\* It ends without a write: a crash, or an answer that refuses or changes nothing.
Quit(c) ==
  /\ copy[c] # None
  /\ copy' = [copy EXCEPT ![c] = None]
  /\ UNCHANGED <<file, started, decided, excused>>

Init ==
  /\ file \in {None, Empty}
  /\ copy = [c \in Commands |-> None]
  /\ started = 0
  /\ decided = [i \in Ids |-> "none"]
  /\ excused = {}

Next == \E c \in Commands :
  DatasetInit(c) \/ Edit(c) \/ Simulate(c) \/ PublishApproved(c) \/ Review(c) \/ Save(c) \/ Quit(c)

Spec == Init /\ [][Next]_vars

-----
(* Properties *)

Case == [status : {"pending", "approved", "rejected"}, strategy : Strategies \cup {None}]

Dataset ==
  [case : UNION {[S -> Case] : S \in SUBSET Ids}, ids : SUBSET Strategies,
   chosen : Strategies \cup {None}, llm : BOOLEAN, model : BOOLEAN, rules : BOOLEAN]

Copy ==
  [kind : {"init", "gated", "ungated"}, doc : Dataset, ids : SUBSET Ids,
   status : {"none", "approved", "rejected"}]

\* The file and the copies are datasets whose cases have a state and a strategy.
TypeOK ==
  /\ file \in Dataset \cup {None}
  /\ copy \in [Commands -> Copy \cup {None}]
  /\ started \in Nat
  /\ decided \in [Ids -> {"none", "approved", "rejected"}]
  /\ excused \subseteq Ids

Resolves(doc) ==
  /\ \A i \in Cases(doc) : doc.case[i].strategy # None => doc.case[i].strategy \in doc.ids
  /\ doc.ids # {} /\ doc.chosen # None => doc.chosen \in doc.ids
  /\ doc.llm => doc.model
  /\ doc.rules

\* The write gate (cli.py:82-90): whatever commands have run, side by side too, every
\* strategy the dataset on disk refers to is declared in it, the engine has a model when
\* it is used, and the rules are well formed.
ReferencesResolve == file # None => Resolves(file)

\* A person's decision stands (cli.py:258-287, setup.py:373-381): no other command takes it
\* back, unless that command had loaded the file before, or the dataset was made anew.
DecisionStandsAlone ==
  \A i \in Ids : decided[i] # "none" /\ i \notin excused => i \in Cases(file) /\ file.case[i].status = decided[i]
====
