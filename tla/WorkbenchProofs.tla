---- MODULE WorkbenchProofs ----
(***************************************************************************)
(* Proofs about what a person does beside the pipeline.                    *)
(*                                                                         *)
(* The commands on a dataset, for any number of commands, cases and        *)
(* strategies: types, and that every reference in the dataset on disk      *)
(* resolves.  The writes that pass the gate keep it whatever was edited;   *)
(* those that do not pass it are safe because all they write is a dataset  *)
(* that was on disk before, with other reviews.                            *)
(*                                                                         *)
(* The background jobs, for any number of callers and of jobs: types, one  *)
(* pipeline per output directory that was not told to end, and job.json    *)
(* naming it.  While no two calls overlap and nobody is killed by others   *)
(* there is one caller at work and one wrapper active, beside those that a *)
(* signal is about to end; what the callers rely on is that this wrapper   *)
(* is known: to the caller that is about to record it, to the file, or,    *)
(* while it truncates the file itself, to nobody who could act.            *)
(***************************************************************************)
EXTENDS Workbench, Jobs, TLAPS

\* What a write without the gate will put on disk.
UngatedResolves ==
  \A c \in Commands : copy[c] # None /\ copy[c].kind = "ungated" => Resolves(copy[c].doc)

IInv == TypeOK /\ ReferencesResolve /\ UngatedResolves

----
(* The edits *)

\* New cases are added as they are, the others stay.
LEMMA WithType ==
  ASSUME NEW doc \in Dataset, NEW ids \in SUBSET Ids, NEW case \in Case
  PROVE  With(doc, ids, case) \in Dataset
  <1>1. PICK S \in SUBSET Ids : doc.case \in [S -> Case]
    BY DEF Dataset
  <1>2. [i \in Cases(doc) \cup ids |-> IF i \in ids THEN case ELSE doc.case[i]] \in [S \cup ids -> Case]
    BY <1>1 DEF Cases
  <1>3. S \cup ids \in SUBSET Ids
    BY <1>1
  <1> QED BY <1>2, <1>3 DEF With, Dataset

\* An edit of a dataset gives datasets.
LEMMA EditsType ==
  ASSUME NEW doc \in Dataset, NEW d \in Edits(doc)
  PROVE  d \in Dataset
  <1>1. ASSUME NEW s \in Strategies \cup {None} PROVE Normalized(s) \in Case
    BY DEF Normalized, Case
  <1>2. ASSUME NEW id \in Ids, NEW s \in Strategies \cup {None}, d \in AddCase(doc, id, s)
        PROVE  d \in Dataset
    BY <1>1, <1>2, WithType DEF AddCase
  <1>3. ASSUME NEW n \in 1..2, NEW rows \in [1..n -> Contents], d \in ImportCases(doc, rows)
        PROVE  d \in Dataset
    <2>1. Range(rows) \in SUBSET Ids
      BY DEF Range, Ids
    <2> QED BY <1>1, <1>3, <2>1, WithType DEF ImportCases
  <1>4. ASSUME d \in MockSet(doc) PROVE d \in Dataset
    BY <1>4 DEF MockSet, Dataset
  <1>5. ASSUME d \in MockStrategies(doc) PROVE d \in Dataset
    <2> DEFINE Choices == [ids : {doc.ids} \cup ValidTables, chosen : {doc.chosen} \cup Strategies]
               Engines == [llm : BOOLEAN, model : {doc.model, TRUE}]
    <2>1. \/ \E o \in Choices : d = [doc EXCEPT !.ids = o.ids, !.chosen = o.chosen]
          \/ \E o \in Engines : d = [doc EXCEPT !.llm = o.llm, !.model = o.model]
      BY <1>5 DEF MockStrategies
    <2>2. ASSUME NEW o \in Choices PROVE [doc EXCEPT !.ids = o.ids, !.chosen = o.chosen] \in Dataset
      <3>1. o.ids \in SUBSET Strategies /\ o.chosen \in Strategies \cup {None}
        BY DEF Dataset, ValidTables
      <3> QED BY <3>1 DEF Dataset
    <2>3. ASSUME NEW o \in Engines PROVE [doc EXCEPT !.llm = o.llm, !.model = o.model] \in Dataset
      <3>1. o.llm \in BOOLEAN /\ o.model \in BOOLEAN
        BY DEF Dataset
      <3> QED BY <3>1 DEF Dataset
    <2> HIDE DEF Choices, Engines
    <2> QED BY <2>1, <2>2, <2>3
  <1>6. ASSUME NEW id \in Ids, NEW s \in Strategies, d \in Pin(doc, id, s)
        PROVE  d \in Dataset
    <2>1. PICK S \in SUBSET Ids : doc.case \in [S -> Case]
      BY DEF Dataset
    <2>2. [doc.case EXCEPT ![id].strategy = s] \in [S -> Case]
      BY <2>1 DEF Case
    <2>3. d = [doc EXCEPT !.case = [doc.case EXCEPT ![id].strategy = s]]
      BY <1>6 DEF Pin, Dataset
    <2> QED BY <2>2, <2>3 DEF Dataset
  <1> QED BY <1>2, <1>3, <1>4, <1>5, <1>6 DEF Edits

\* Cases for failures are datasets too.
LEMMA MinedType ==
  ASSUME NEW doc \in Dataset, NEW failed \in SUBSET Contents, NEW d \in MineFailures(doc, failed)
  PROVE  d \in Dataset
  BY WithType DEF MineFailures, Normalized, Case, Ids

\* A review changes the state of cases: references stay as they are.
LEMMA ReviewKeeps ==
  ASSUME NEW doc \in Dataset, NEW ids, NEW status \in {"approved", "rejected"},
         NEW d \in SetReview(doc, ids, status)
  PROVE  d \in Dataset /\ (Resolves(doc) => Resolves(d))
  <1>1. PICK S \in SUBSET Ids : doc.case \in [S -> Case]
    BY DEF Dataset
  <1> DEFINE new == [i \in Cases(doc) |->
               IF i \in ids THEN [doc.case[i] EXCEPT !.status = status] ELSE doc.case[i]]
  <1>2. d = [doc EXCEPT !.case = new]
    BY DEF SetReview, Dataset
  <1>3. new \in [S -> Case] /\ \A i \in S : new[i].strategy = doc.case[i].strategy
    BY <1>1 DEF Cases, Case
  <1>4. d \in Dataset
    BY <1>2, <1>3 DEF Dataset
  <1>5. /\ d.case = new /\ d.ids = doc.ids /\ d.chosen = doc.chosen
        /\ d.llm = doc.llm /\ d.model = doc.model /\ d.rules = doc.rules
    BY <1>2 DEF Dataset
  <1> HIDE DEF new
  <1> QED BY <1>1, <1>3, <1>4, <1>5 DEF Resolves, Cases

\* What the gate lets through resolves.
LEMMA GateResolves ==
  ASSUME NEW doc \in Dataset, ValidateDataset(doc)
  PROVE  Resolves(doc)
  BY DEF ValidateDataset, PolicyValid, Resolves, Dataset

\* The empty dataset of `dataset init` refers to nothing.
LEMMA EmptyResolves == Empty \in Dataset /\ Resolves(Empty)
  <1>1. DOMAIN <<>> = {} /\ <<>> \in [{} -> Case]
    OBVIOUS
  <1> QED BY <1>1 DEF Empty, Dataset, Resolves, Cases

----
(* The inductive invariant *)

LEMMA InitInv == Init => IInv
  BY EmptyResolves DEF Init, IInv, TypeOK, ReferencesResolve, UngatedResolves

\* The start of a command with its edited copy.
LEMMA StartsInv ==
  ASSUME IInv, NEW c \in Commands, NEW kind \in {"init", "gated", "ungated"}, NEW doc \in Dataset,
         kind = "ungated" => Resolves(doc), Starts(c, kind, doc)
  PROVE  IInv'
  <1> DEFINE w == [kind |-> kind, doc |-> doc, ids |-> {}, status |-> "none"]
  <1>1. w \in Copy
    BY DEF Copy
  <1>2. copy' = [copy EXCEPT ![c] = w]
    BY DEF Starts
  <1>3. w.kind = kind /\ w.doc = doc
    OBVIOUS
  <1> HIDE DEF w
  <1>4. TypeOK'
    <2>1. copy' \in [Commands -> Copy \cup {None}]
      BY <1>1, <1>2 DEF IInv, TypeOK
    <2>2. started' \in Nat
      BY DEF IInv, TypeOK, Starts
    <2> QED BY <2>1, <2>2 DEF IInv, TypeOK, Starts
  <1>5. ReferencesResolve'
    BY DEF IInv, ReferencesResolve, Starts
  <1>6. UngatedResolves'
    BY <1>2, <1>3 DEF IInv, TypeOK, UngatedResolves
  <1> QED BY <1>4, <1>5, <1>6 DEF IInv

\* A review starts from the file, so its copy resolves as the file does.
LEMMA ReviewInv ==
  ASSUME IInv, NEW c \in Commands, Review(c)
  PROVE  IInv'
  <1>1. PICK ids \in SUBSET Cases(file), status \in {"approved", "rejected"},
             kind \in {"gated", "ungated"} :
          \E doc \in SetReview(file, ids, status) :
            copy' = [copy EXCEPT ![c] = [kind |-> kind, doc |-> doc, ids |-> ids, status |-> status]]
    BY DEF Review
  <1>a. PICK doc \in SetReview(file, ids, status) :
          copy' = [copy EXCEPT ![c] = [kind |-> kind, doc |-> doc, ids |-> ids, status |-> status]]
    BY <1>1
  <1> DEFINE w == [kind |-> kind, doc |-> doc, ids |-> ids, status |-> status]
  <1>2. file \in Dataset /\ Resolves(file)
    BY DEF Review, IInv, TypeOK, ReferencesResolve
  <1>3. doc \in Dataset /\ Resolves(doc)
    BY <1>2, ReviewKeeps
  <1>4. ids \in SUBSET Ids
    BY <1>2 DEF Cases, Dataset
  <1>5. w \in Copy /\ w.doc = doc
    BY <1>3, <1>4 DEF Copy
  <1>6. copy' = [copy EXCEPT ![c] = w]
    BY <1>a
  <1> HIDE DEF w
  <1>7. TypeOK'
    BY <1>5, <1>6 DEF IInv, TypeOK, Review
  <1>8. ReferencesResolve'
    BY DEF IInv, ReferencesResolve, Review
  <1>9. UngatedResolves'
    BY <1>3, <1>5, <1>6 DEF IInv, TypeOK, UngatedResolves
  <1> QED BY <1>7, <1>8, <1>9 DEF IInv

\* Whatever a command writes resolves: it passed the gate, was checked nowhere because
\* it came from the file, or is the empty dataset, which the gate lets through.
LEMMA SaveInv ==
  ASSUME IInv, NEW c \in Commands, Save(c)
  PROVE  IInv'
  <1> DEFINE w == copy[c]
  <1>1. w \in Copy /\ w.doc \in Dataset
    BY DEF IInv, TypeOK, Save, Copy
  <1>2. copy' = [copy EXCEPT ![c] = None]
    BY DEF Save
  <1>3. UngatedResolves'
    BY <1>2 DEF IInv, TypeOK, UngatedResolves
  <1>4. CASE w.kind # "ungated" /\ ~ValidateDataset(w.doc)
    BY <1>2, <1>3, <1>4 DEF IInv, TypeOK, ReferencesResolve, Save
  <1>5. CASE w.kind = "ungated" \/ ValidateDataset(w.doc)
    <2>1. Resolves(w.doc)
      BY <1>1, <1>5, GateResolves DEF IInv, UngatedResolves, Save
    <2>2. file' = w.doc /\ started' = started
      BY <1>5 DEF Save
    <2>3. decided' \in [Ids -> {"none", "approved", "rejected"}]
      BY <1>1, <1>5 DEF Save, Copy, IInv, TypeOK
    <2>4. excused' \subseteq Ids
      <3>1. w.ids \subseteq Ids /\ excused \subseteq Ids
        BY <1>1 DEF Copy, IInv, TypeOK
      <3> QED BY <1>5, <3>1 DEF Save
    <2>5. TypeOK'
      BY <1>1, <1>2, <2>2, <2>3, <2>4 DEF IInv, TypeOK
    <2> QED BY <1>3, <2>1, <2>2, <2>5 DEF IInv, ReferencesResolve
  <1> QED BY <1>4, <1>5

\* One step of any command.
LEMMA NextInv == IInv /\ [Next]_vars => IInv'
  <1> SUFFICES ASSUME IInv, [Next]_vars PROVE IInv'
    OBVIOUS
  <1>1. CASE UNCHANGED vars
    BY <1>1 DEF vars, IInv, TypeOK, ReferencesResolve, UngatedResolves
  <1>2. ASSUME NEW c \in Commands, DatasetInit(c) PROVE IInv'
    BY <1>2, EmptyResolves, StartsInv DEF DatasetInit
  <1>3. ASSUME NEW c \in Commands, Edit(c) PROVE IInv'
    <2>1. file \in Dataset
      BY <1>3 DEF Edit, IInv, TypeOK
    <2>2. PICK doc \in Edits(file) : Starts(c, "gated", doc)
      BY <1>3 DEF Edit
    <2> QED BY <2>1, <2>2, EditsType, StartsInv
  <1>4. ASSUME NEW c \in Commands, Simulate(c) PROVE IInv'
    <2>1. file \in Dataset
      BY <1>4 DEF Simulate, IInv, TypeOK
    <2>2. PICK failed \in SUBSET Contents : \E doc \in MineFailures(file, failed) : Starts(c, "gated", doc)
      BY <1>4 DEF Simulate
    <2>3. PICK doc \in MineFailures(file, failed) : Starts(c, "gated", doc)
      BY <2>2
    <2> QED BY <2>1, <2>3, MinedType, StartsInv
  <1>5. ASSUME NEW c \in Commands, PublishApproved(c) PROVE IInv'
    <2>1. file \in Dataset /\ Resolves(file)
      BY <1>5 DEF PublishApproved, IInv, TypeOK, ReferencesResolve
    <2>2. Starts(c, "ungated", file)
      BY <1>5 DEF PublishApproved, Publish
    <2> QED BY <2>1, <2>2, StartsInv
  <1>6. ASSUME NEW c \in Commands, Review(c) PROVE IInv'
    BY <1>6, ReviewInv
  <1>7. ASSUME NEW c \in Commands, Save(c) PROVE IInv'
    BY <1>7, SaveInv
  <1>8. ASSUME NEW c \in Commands, Quit(c) PROVE IInv'
    BY <1>8 DEF Quit, IInv, TypeOK, ReferencesResolve, UngatedResolves
  <1> QED BY <1>1, <1>2, <1>3, <1>4, <1>5, <1>6, <1>7, <1>8 DEF Next

\* For every step of every command.
THEOREM Invariant == Spec => []IInv
  BY InitInv, NextInv, PTL DEF Spec

\* The file and the copies keep their types: every edit of the commands (cli.py,
\* artifacts.py) turns a dataset into a dataset.
THEOREM WorkbenchTypes == Spec => []TypeOK
  BY Invariant, PTL DEF IInv

\* The write gate (cli.py:82-94) and the writes past it (cli.py:816-838, setup.py:373-381)
\* together: no command, and no overlap of commands, leaves a reference in dataset.json
\* that does not resolve.
THEOREM ReferencesAlwaysResolve == Spec => []ReferencesResolve
  BY Invariant, PTL DEF IInv

----
(* A person's decision *)

\* Everything that doc decides, later decides too.
KeepsReviews(doc, later) ==
  Cases(doc) \subseteq Cases(later) /\ \A i \in Cases(doc) : later.case[i].status = doc.case[i].status

\* doc has the decisions that count, but for the ids it changes itself.
Has(doc, ids) ==
  \A i \in Ids \ ids :
    decided[i] # "none" /\ i \notin excused => i \in Cases(doc) /\ doc.case[i].status = decided[i]

\* A copy has what has been decided, or decides it, unless it makes the dataset anew.
CopiesDecide ==
  \A c \in Commands : copy[c] # None =>
    /\ copy[c].kind # "init" => Has(copy[c].doc, copy[c].ids)
    /\ \A i \in copy[c].ids : i \in Cases(copy[c].doc) /\ copy[c].doc.case[i].status = copy[c].status

DInv == TypeOK /\ DecisionStandsAlone /\ CopiesDecide

\* New cases leave the others alone.
LEMMA WithKeeps ==
  ASSUME NEW doc \in Dataset, NEW ids \in SUBSET Ids, ids \cap Cases(doc) = {}, NEW case
  PROVE  KeepsReviews(doc, With(doc, ids, case))
  <1>1. With(doc, ids, case).case = [i \in Cases(doc) \cup ids |-> IF i \in ids THEN case ELSE doc.case[i]]
    BY DEF With, Dataset
  <1> QED BY <1>1 DEF KeepsReviews, Cases

\* No edit takes back a decision.
LEMMA EditsKeep ==
  ASSUME NEW doc \in Dataset, NEW d \in Edits(doc)
  PROVE  KeepsReviews(doc, d)
  <1>1. ASSUME NEW id \in Ids, NEW s \in Strategies \cup {None}, d \in AddCase(doc, id, s)
        PROVE  KeepsReviews(doc, d)
    BY <1>1, WithKeeps DEF AddCase
  <1>2. ASSUME NEW n \in 1..2, NEW rows \in [1..n -> Contents], d \in ImportCases(doc, rows)
        PROVE  KeepsReviews(doc, d)
    <2>1. Range(rows) \in SUBSET Ids
      BY DEF Range, Ids
    <2> QED BY <1>2, <2>1, WithKeeps DEF ImportCases
  <1>3. ASSUME d.case = doc.case PROVE KeepsReviews(doc, d)
    BY <1>3 DEF KeepsReviews, Cases
  <1>4. ASSUME d \in MockSet(doc) PROVE d.case = doc.case
    BY <1>4 DEF MockSet, Dataset
  <1>5. ASSUME d \in MockStrategies(doc) PROVE d.case = doc.case
    BY <1>5 DEF MockStrategies, Dataset
  <1>6. ASSUME NEW id \in Ids, NEW s \in Strategies, d \in Pin(doc, id, s)
        PROVE  KeepsReviews(doc, d)
    <2>1. PICK S \in SUBSET Ids : doc.case \in [S -> Case]
      BY DEF Dataset
    <2>2. d.case = [doc.case EXCEPT ![id].strategy = s]
      BY <1>6 DEF Pin, Dataset
    <2> QED BY <2>1, <2>2 DEF KeepsReviews, Cases, Case
  <1> QED BY <1>1, <1>2, <1>3, <1>4, <1>5, <1>6 DEF Edits

\* A review decides the given ids and leaves the others.
LEMMA ReviewDecides ==
  ASSUME NEW doc \in Dataset, NEW ids, NEW status \in {"approved", "rejected"},
         NEW d \in SetReview(doc, ids, status)
  PROVE  /\ Cases(d) = Cases(doc) /\ ids \subseteq Cases(d)
         /\ \A i \in Cases(d) : d.case[i].status = IF i \in ids THEN status ELSE doc.case[i].status
  <1>1. PICK S \in SUBSET Ids : doc.case \in [S -> Case]
    BY DEF Dataset
  <1>2. d.case = [i \in Cases(doc) |->
               IF i \in ids THEN [doc.case[i] EXCEPT !.status = status] ELSE doc.case[i]]
    BY DEF SetReview, Dataset
  <1> QED BY <1>1, <1>2 DEF SetReview, Cases, Case

\* The file has every decision that counts.
LEMMA FileHas == DecisionStandsAlone => Has(file, {})
  BY DEF DecisionStandsAlone, Has

\* What keeps the reviews of a document that has the decisions has them too.
LEMMA KeepsHas ==
  ASSUME NEW doc, NEW later, Has(doc, {}), KeepsReviews(doc, later)
  PROVE  Has(later, {})
  BY DEF Has, KeepsReviews

\* The start of a command that decides nothing.
LEMMA StartsDecides ==
  ASSUME DInv, NEW c \in Commands, NEW kind, NEW doc, Starts(c, kind, doc),
         kind # "init" => Has(doc, {})
  PROVE  DecisionStandsAlone' /\ CopiesDecide'
  <1> DEFINE w == [kind |-> kind, doc |-> doc, ids |-> {}, status |-> "none"]
  <1>1. copy' = [copy EXCEPT ![c] = w] /\ file' = file /\ decided' = decided /\ excused' = excused
    BY DEF Starts
  <1>2. w.kind = kind /\ w.doc = doc /\ w.ids = {} /\ w.status = "none"
    OBVIOUS
  <1> HIDE DEF w
  <1>3. DecisionStandsAlone'
    BY <1>1 DEF DInv, DecisionStandsAlone
  <1>4. ASSUME NEW e \in Commands, copy'[e] # None
        PROVE  /\ copy'[e].kind # "init" => Has(copy'[e].doc, copy'[e].ids)
               /\ \A i \in copy'[e].ids :
                    i \in Cases(copy'[e].doc) /\ copy'[e].doc.case[i].status = copy'[e].status
    <2>1. CASE e = c
      <3>1. copy'[e] = w
        BY <1>1, <2>1 DEF DInv, TypeOK
      <3> QED BY <1>2, <3>1
    <2>2. CASE e # c
      <3>1. copy'[e] = copy[e]
        BY <1>1, <2>2 DEF DInv, TypeOK
      <3> QED BY <1>4, <3>1 DEF DInv, CopiesDecide
    <2> QED BY <2>1, <2>2
  <1>5. CopiesDecide'
    BY <1>1, <1>4 DEF CopiesDecide, Has
  <1> QED BY <1>3, <1>5

\* A review: its copy has its own decisions and those of before.
LEMMA ReviewStarts ==
  ASSUME DInv, NEW c \in Commands, Review(c)
  PROVE  DecisionStandsAlone' /\ CopiesDecide'
  <1>1. PICK ids \in SUBSET Cases(file), status \in {"approved", "rejected"},
             kind \in {"gated", "ungated"} :
          \E doc \in SetReview(file, ids, status) :
            copy' = [copy EXCEPT ![c] = [kind |-> kind, doc |-> doc, ids |-> ids, status |-> status]]
    BY DEF Review
  <1>2. PICK doc \in SetReview(file, ids, status) :
          copy' = [copy EXCEPT ![c] = [kind |-> kind, doc |-> doc, ids |-> ids, status |-> status]]
    BY <1>1
  <1> DEFINE w == [kind |-> kind, doc |-> doc, ids |-> ids, status |-> status]
  <1>3. copy' = [copy EXCEPT ![c] = w] /\ file' = file /\ decided' = decided /\ excused' = excused
    BY <1>2 DEF Review
  <1>4. w.doc = doc /\ w.ids = ids /\ w.status = status
    OBVIOUS
  <1> HIDE DEF w
  <1>5. file \in Dataset /\ Has(file, {})
    BY FileHas DEF Review, DInv, TypeOK
  <1>6. /\ Cases(doc) = Cases(file) /\ ids \subseteq Cases(doc)
        /\ \A i \in Cases(doc) : doc.case[i].status = IF i \in ids THEN status ELSE file.case[i].status
    BY <1>5, ReviewDecides
  <1>7. Has(doc, ids) /\ \A i \in ids : i \in Cases(doc) /\ doc.case[i].status = status
    BY <1>5, <1>6 DEF Has
  <1>8. DecisionStandsAlone'
    BY <1>3 DEF DInv, DecisionStandsAlone
  <1>9. ASSUME NEW e \in Commands, copy'[e] # None
        PROVE  /\ copy'[e].kind # "init" => Has(copy'[e].doc, copy'[e].ids)
               /\ \A i \in copy'[e].ids :
                    i \in Cases(copy'[e].doc) /\ copy'[e].doc.case[i].status = copy'[e].status
    <2>1. CASE e = c
      <3>1. copy'[e] = w
        BY <1>3, <2>1 DEF DInv, TypeOK
      <3> QED BY <1>4, <1>7, <3>1
    <2>2. CASE e # c
      <3>1. copy'[e] = copy[e]
        BY <1>3, <2>2 DEF DInv, TypeOK
      <3> QED BY <1>9, <3>1 DEF DInv, CopiesDecide
    <2> QED BY <2>1, <2>2
  <1>10. CopiesDecide'
    BY <1>3, <1>9 DEF CopiesDecide, Has
  <1> QED BY <1>8, <1>10

\* A save: the file has the decisions of the copy; whoever still runs is excused for them.
LEMMA SaveDecides ==
  ASSUME DInv, NEW c \in Commands, Save(c)
  PROVE  DecisionStandsAlone' /\ CopiesDecide'
  <1> DEFINE w == copy[c]
  <1>1. w # None /\ w.ids \subseteq Ids /\ copy' = [copy EXCEPT ![c] = None]
    BY DEF DInv, TypeOK, Save, Copy
  <1>2. ASSUME NEW e \in Commands, copy'[e] # None
        PROVE  e # c /\ copy'[e] = copy[e] /\ copy[e] # None
    BY <1>1, <1>2 DEF DInv, TypeOK
  <1>3. CASE UNCHANGED <<file, decided, excused>>
    <2>1. DecisionStandsAlone'
      BY <1>3 DEF DInv, DecisionStandsAlone
    <2>2. CopiesDecide'
      BY <1>2, <1>3 DEF DInv, CopiesDecide, Has
    <2> QED BY <2>1, <2>2
  <1>4. CASE /\ file' = w.doc
             /\ decided' = [i \in Ids |-> IF i \in w.ids THEN w.status ELSE decided[i]]
             /\ excused' = IF w.kind = "init" THEN Ids
                           ELSE IF Running \ {c} # {} THEN excused \cup w.ids
                           ELSE excused \ w.ids
    <2>1. ASSUME NEW i \in Ids, decided'[i] # "none", i \notin excused'
          PROVE  w.kind # "init" /\ i \in Cases(file') /\ file'.case[i].status = decided'[i]
      <3>1. w.kind # "init"
        BY <1>4, <2>1
      <3>2. CASE i \in w.ids
        BY <1>1, <1>4, <3>1, <3>2 DEF DInv, CopiesDecide
      <3>3. CASE i \notin w.ids
        <4>1. i \notin excused /\ decided'[i] = decided[i]
          BY <1>4, <2>1, <3>1, <3>3
        <4> QED BY <1>1, <1>4, <2>1, <3>1, <3>3, <4>1 DEF DInv, CopiesDecide, Has
      <3> QED BY <3>1, <3>2, <3>3
    <2>2. DecisionStandsAlone'
      BY <2>1 DEF DecisionStandsAlone
    <2>3. ASSUME NEW e \in Commands, copy'[e] # None,
                 NEW i \in Ids, decided'[i] # "none", i \notin excused'
          PROVE  decided[i] # "none" /\ i \notin excused /\ decided'[i] = decided[i]
      <3>1. e \in Running \ {c}
        BY <1>2, <2>3 DEF Running
      <3>2. i \notin excused \cup w.ids
        BY <1>4, <2>3, <3>1, <2>1
      <3> QED BY <1>4, <2>3, <3>2
    <2>4. CopiesDecide'
      BY <1>2, <2>3 DEF DInv, CopiesDecide, Has
    <2> QED BY <2>2, <2>4
  <1> QED BY <1>3, <1>4 DEF Save

\* Decisions along every step.
LEMMA NextDecides == DInv /\ TypeOK' /\ [Next]_vars => DInv'
  <1> SUFFICES ASSUME DInv, TypeOK', [Next]_vars PROVE DecisionStandsAlone' /\ CopiesDecide'
    BY DEF DInv
  <1>0. file # None => file \in Dataset /\ Has(file, {})
    BY FileHas DEF DInv, TypeOK
  <1>1. CASE UNCHANGED vars
    BY <1>1 DEF vars, DInv, DecisionStandsAlone, CopiesDecide, Has
  <1>2. ASSUME NEW c \in Commands, DatasetInit(c) PROVE DecisionStandsAlone' /\ CopiesDecide'
    BY <1>2, StartsDecides DEF DatasetInit
  <1>3. ASSUME NEW c \in Commands, Edit(c) PROVE DecisionStandsAlone' /\ CopiesDecide'
    <2>1. PICK doc \in Edits(file) : Starts(c, "gated", doc)
      BY <1>3 DEF Edit
    <2>2. Has(doc, {})
      BY <1>0, <1>3, <2>1, EditsKeep, KeepsHas DEF Edit
    <2> QED BY <2>1, <2>2, StartsDecides
  <1>4. ASSUME NEW c \in Commands, Simulate(c) PROVE DecisionStandsAlone' /\ CopiesDecide'
    <2>1. PICK failed \in SUBSET Contents : \E doc \in MineFailures(file, failed) : Starts(c, "gated", doc)
      BY <1>4 DEF Simulate
    <2>2. PICK doc \in MineFailures(file, failed) : Starts(c, "gated", doc)
      BY <2>1
    <2>3. KeepsReviews(file, doc)
      BY <1>0, <1>4, <2>2, WithKeeps DEF Simulate, MineFailures, Ids
    <2> QED BY <1>0, <1>4, <2>2, <2>3, KeepsHas, StartsDecides DEF Simulate
  <1>5. ASSUME NEW c \in Commands, PublishApproved(c) PROVE DecisionStandsAlone' /\ CopiesDecide'
    <2>1. Starts(c, "ungated", file)
      BY <1>5 DEF PublishApproved, Publish
    <2> QED BY <1>0, <1>5, <2>1, StartsDecides DEF PublishApproved
  <1>6. ASSUME NEW c \in Commands, Review(c) PROVE DecisionStandsAlone' /\ CopiesDecide'
    BY <1>6, ReviewStarts
  <1>7. ASSUME NEW c \in Commands, Save(c) PROVE DecisionStandsAlone' /\ CopiesDecide'
    BY <1>7, SaveDecides
  <1>8. ASSUME NEW c \in Commands, Quit(c) PROVE DecisionStandsAlone' /\ CopiesDecide'
    BY <1>8 DEF Quit, DInv, TypeOK, DecisionStandsAlone, CopiesDecide, Has
  <1> QED BY <1>1, <1>2, <1>3, <1>4, <1>5, <1>6, <1>7, <1>8 DEF Next

\* A person's decision stands (cli.py:258-287, setup.py:373-381) against every other
\* command that loads the dataset after it, for any number of them.
THEOREM DecisionsStandAlone == Spec => []DecisionStandsAlone
  <1>1. Init => DInv
    BY InitInv DEF IInv, Init, DInv, DecisionStandsAlone, CopiesDecide
  <1>2. Spec => []TypeOK
    BY WorkbenchTypes
  <1>3. DInv /\ TypeOK' /\ [Next]_vars => DInv'
    BY NextDecides
  <1>4. DInv => DecisionStandsAlone
    BY DEF DInv
  <1> QED BY <1>1, <1>2, <1>3, <1>4, PTL DEF Spec

----------------------------------------------------------------------------
(* Background jobs *)

\* stop_job signals a wrapper that it saw alive.
KillsWrapper == \A c \in Client : at[c] = "kill" \/ Waiting(c) => job[c].pid \in Wrapper

\* Nobody told it to end.
Active(p) == Alive(p) /\ p \notin signalled

NoneActive == \A p \in Wrapper : ~Active(p)
OneCaller == \A c, d \in Client : at[c] # "idle" /\ at[d] # "idle" => c = d
OneActive == \A p, q \in Wrapper : Active(p) /\ Active(q) => p = q
PipelineIsInWrapper == \A p \in pipe : p \in doomed \/ (at[p] = "run" /\ p \notin signalled)

\* What lives on was told to end, and will not write.
Quiet == \A p \in Wrapper : Alive(p) => p \in signalled /\ at[p] # "writeEnd"

\* A wrapper that may still write after the signal is waited for.
WritersAwaited ==
  \A p \in signalled : at[p] = "writeEnd" => \E c \in Client : Waiting(c) /\ job[c].pid = p

Recorded(p) == jobFile = "whole" /\ saved.pid = p /\ ~saved.finished

\* The wrapper that is active is known.
Known ==
  \A p \in Wrapper : Active(p) =>
    \/ \E c \in Client : at[c] = "writePid"
    \/ Recorded(p)
    \/ p \in opened /\ jobFile = "torn"

\* What the caller at work knows of the wrapper.
CallerKnows ==
  \A c \in Client :
    /\ at[c] \in {"write", "popen", "mark", "writeStop"} => Quiet
    /\ at[c] \in {"write", "popen", "writePid"} => ~job[c].finished
    /\ at[c] \in {"writePid", "kill"} => \A p \in Wrapper : Active(p) => job[c].pid = p
    /\ Waiting(c) => NoneActive
    /\ at[c] = "writePid" /\ c \in opened => jobFile = "torn" \/ NoneActive

Undisturbed ==
  OneCaller /\ OneActive /\ PipelineIsInWrapper /\ WritersAwaited /\ Known /\ CallerKnows

JobsInv == JobsTypeOK /\ KillsWrapper /\ (~raced => Undisturbed)

----
(* Types *)

\* Callers and wrappers are different processes.
LEMMA Apart == Client \cap Wrapper = {} /\ 0 \notin Wrapper /\ Wrapper \subseteq 0..MaxJobs
  BY ClientAssumption, MaxJobsAssumption DEF Wrapper

\* A job dict stays one when its fields are set.
LEMMA JobDicts ==
  /\ NewJob \in Job
  /\ \A j \in Job : /\ j.pid \in 0..MaxJobs
                    /\ \A p \in Wrapper : [j EXCEPT !.pid = p] \in Job
                    /\ [j EXCEPT !.finished = TRUE] \in Job
                    /\ [j EXCEPT !.finished = TRUE, !.stopped = TRUE] \in Job
  <1>1. NewJob \in Job
    BY MaxJobsAssumption DEF Job, NewJob
  <1>2. ASSUME NEW j \in Job
        PROVE  /\ j.pid \in 0..MaxJobs
               /\ \A p \in Wrapper : [j EXCEPT !.pid = p] \in Job
               /\ [j EXCEPT !.finished = TRUE] \in Job
               /\ [j EXCEPT !.finished = TRUE, !.stopped = TRUE] \in Job
    <2>1. j.pid \in 0..MaxJobs
      BY DEF Job
    <2>2. ASSUME NEW p \in Wrapper PROVE [j EXCEPT !.pid = p] \in Job
      BY Apart DEF Job
    <2>3. [j EXCEPT !.finished = TRUE] \in Job
      BY DEF Job
    <2>4. [j EXCEPT !.finished = TRUE, !.stopped = TRUE] \in Job
      BY DEF Job
    <2> QED BY <2>1, <2>2, <2>3, <2>4
  <1> QED BY <1>1, <1>2

LEMMA InitTypes == JobsInit => JobsTypeOK /\ KillsWrapper
  <1> SUFFICES ASSUME JobsInit PROVE JobsTypeOK /\ KillsWrapper
    OBVIOUS
  <1>1. /\ \A c \in Client : at[c] = "idle"
        /\ \A p \in Wrapper : at[p] = "none"
        /\ at \in [Client \cup Wrapper -> ClientPlaces \cup WrapperPlaces]
    BY Apart DEF JobsInit, ClientPlaces, WrapperPlaces
  <1>2. job \in [Client \cup Wrapper -> Job]
    BY JobDicts DEF JobsInit
  <1> QED BY <1>1, <1>2, JobDicts DEF JobsInit, JobsTypeOK, KillsWrapper, ClientPlaces, WrapperPlaces, Waiting

\* Every step of a caller or a wrapper keeps the types.
LEMMA CallerTypes ==
  ASSUME JobsTypeOK, KillsWrapper, NEW c \in Client,
         \/ StartJob(c) \/ StopJob(c) \/ ClientDies(c) \/ Popen(c)
         \/ Signal(c) \/ SeesItGone(c) \/ GivesUp(c) \/ MarkStopped(c)
  PROVE  JobsTypeOK' /\ KillsWrapper'
  <1> USE Apart, JobDicts DEF JobsTypeOK, KillsWrapper, ClientPlaces, WrapperPlaces, Writing, Moves, Holds,
                              Alive, Waiting
  <1>1. CASE StartJob(c)
    BY <1>1 DEF StartJob
  <1>2. CASE StopJob(c)
    <2>1. saved.pid \in 0..MaxJobs
      BY JobDicts
    <2>2. Alive(saved.pid) => saved.pid \in Wrapper
      <3>1. SUFFICES ASSUME saved.pid # 0 PROVE saved.pid \in 1..MaxJobs
        BY DEF Alive, Wrapper
      <3> QED BY ONLY <2>1, <3>1, MaxJobsAssumption
    <2> QED BY <1>2, <2>2 DEF StopJob
  <1>3. CASE ClientDies(c)
    BY <1>3 DEF ClientDies
  <1>4. CASE Popen(c)
    <2>1. PICK p \in Wrapper :
            /\ at[p] = "none"
            /\ at' = [at EXCEPT ![c] = "writePid", ![p] = "boot"]
            /\ job' = [job EXCEPT ![c] = [job[c] EXCEPT !.pid = p]]
      BY <1>4 DEF Popen
    <2>2. job' \in [Client \cup Wrapper -> Job] /\ \A d \in Client : d # c => job'[d] = job[d]
      BY <2>1
    <2>3. at' \in [Client \cup Wrapper -> ClientPlaces \cup WrapperPlaces]
      BY <2>1
    <2>4. \A a \in Client \cup Wrapper : a \notin {c, p} => at'[a] = at[a]
      BY <2>1
    <2>5. at'[c] = "writePid" /\ at'[p] = "boot" /\ c \notin opened
      BY <1>4, <2>1 DEF Popen
    <2>6. opened' \subseteq {a \in Client \cup Wrapper : Writing(a)'}
      BY <1>4, <2>4, <2>5 DEF Popen
    <2>7. signalled' \subseteq {q \in Wrapper : Alive(q)'}
      BY <1>4, <2>1, <2>4 DEF Popen
    <2> QED BY <1>4, <2>2, <2>3, <2>4, <2>5, <2>6, <2>7 DEF Popen
  <1>5. CASE Signal(c)
    <2>1. /\ at[c] \in {"kill", "wait"} /\ job[c].pid \in Wrapper
          /\ at' = [at EXCEPT ![c] = IF at[c] = "kill" THEN "wait" ELSE "waitKilled"]
          /\ UNCHANGED <<jobFile, saved, job, opened, pipe, raced>>
      BY <1>5 DEF Signal
    <2>2. \A p \in Wrapper : at'[p] = at[p]
      BY <2>1
    <2>3. signalled' \subseteq {p \in Wrapper : Alive(p)'} /\ doomed' \subseteq pipe'
      <3>1. \A p \in signalled' : p \in signalled \/ (p = job[c].pid /\ Alive(p))
        BY ONLY <1>5 DEF Signal
      <3>2. doomed' \subseteq doomed \cup pipe
        BY ONLY <1>5 DEF Signal
      <3>3. \A p \in signalled' : p \in Wrapper /\ Alive(p)
        BY <2>1, <3>1
      <3> QED BY <2>1, <2>2, <3>2, <3>3
    <2> QED BY <2>1, <2>2, <2>3
  <1>6. CASE SeesItGone(c)
    BY <1>6 DEF SeesItGone
  <1>7. CASE GivesUp(c)
    BY <1>7 DEF GivesUp
  <1>8. CASE MarkStopped(c)
    BY <1>8 DEF MarkStopped
  <1> QED BY <1>1, <1>2, <1>3, <1>4, <1>5, <1>6, <1>7, <1>8

LEMMA WrapperTypes ==
  ASSUME JobsTypeOK, KillsWrapper, NEW p \in Wrapper,
         Boot(p) \/ PipelineEnds(p) \/ Finalise(p) \/ SignalEnds(p) \/ WrapperDies(p)
  PROVE  JobsTypeOK' /\ KillsWrapper'
  <1> USE Apart, JobDicts DEF JobsTypeOK, KillsWrapper, ClientPlaces, WrapperPlaces, Writing, Moves, Holds,
                              Alive, Waiting
  <1>1. CASE Boot(p)
    <2>1. UNCHANGED <<jobFile, saved, opened, signalled, doomed, raced>> /\ at[p] = "boot" /\ p \notin signalled
      BY <1>1 DEF Boot
    <2>2. at' \in [Client \cup Wrapper -> ClientPlaces \cup WrapperPlaces] /\ at'[p] \in {"run", "gone"}
      BY <1>1 DEF Boot
    <2>3. \A a \in Client \cup Wrapper : a # p => at'[a] = at[a]
      BY <1>1 DEF Boot
    <2>4. job' \in [Client \cup Wrapper -> Job] /\ \A d \in Client : job'[d] = job[d]
      <3>1. job' = job \/ job' = [job EXCEPT ![p] = saved]
        BY <1>1 DEF Boot
      <3>2. saved \in Job /\ job \in [Client \cup Wrapper -> Job]
        OBVIOUS
      <3> QED BY ONLY <3>1, <3>2, Apart
    <2>5. pipe' \subseteq Wrapper /\ pipe \subseteq pipe'
      <3>1. pipe' = pipe \/ pipe' = pipe \cup {p}
        BY <1>1 DEF Boot
      <3> QED BY <3>1
    <2>6. opened' \subseteq {a \in Client \cup Wrapper : Writing(a)'}
      BY <2>1, <2>3
    <2>7. signalled' \subseteq {q \in Wrapper : Alive(q)'}
      BY <2>1, <2>3
    <2> QED BY <2>1, <2>2, <2>3, <2>4, <2>5, <2>6, <2>7
  <1>2. CASE PipelineEnds(p)
    BY <1>2 DEF PipelineEnds
  <1>3. CASE Finalise(p)
    BY <1>3 DEF Finalise
  <1>4. CASE SignalEnds(p)
    BY <1>4 DEF SignalEnds
  <1>5. CASE WrapperDies(p)
    BY <1>5 DEF WrapperDies
  <1> QED BY <1>1, <1>2, <1>3, <1>4, <1>5

LEMMA WriterTypes ==
  ASSUME JobsTypeOK, KillsWrapper, NEW a \in Client \cup Wrapper, Open(a) \/ Write(a)
  PROVE  JobsTypeOK' /\ KillsWrapper'
  <1> USE Apart, JobDicts DEF JobsTypeOK, KillsWrapper, ClientPlaces, WrapperPlaces, Writing, Moves, Holds,
                              Alive, Waiting
  <1>1. CASE Open(a)
    BY <1>1 DEF Open
  <1>2. CASE Write(a)
    <2>1. /\ a \in opened /\ opened' = opened \ {a} /\ signalled' = signalled \ {a}
          /\ UNCHANGED <<pipe, doomed, raced>>
      BY <1>2 DEF Write
    <2>2. jobFile' \in {"absent", "whole", "torn"} /\ saved' \in Job
      <3>1. jobFile' \in {"whole", "torn"} /\ saved' \in {job[a], NewJob}
        BY ONLY <1>2 DEF Write
      <3>2. job[a] \in Job
        OBVIOUS
      <3> QED BY ONLY <3>1, <3>2, JobDicts
    <2>3. at' = [at EXCEPT ![a] = AfterWrite(a)]
      BY <1>2 DEF Write
    <2>4. /\ a \in Client => AfterWrite(a) \in {"popen", "idle"}
          /\ a \in Wrapper => AfterWrite(a) = "gone"
      BY <2>1 DEF AfterWrite
    <2>5. job' \in [Client \cup Wrapper -> Job] /\ \A d \in Client \cup Wrapper : d # a => job'[d] = job[d]
      <3>1. job' = [job EXCEPT ![a] = IF AfterWrite(a) = "popen" THEN job[a] ELSE NewJob]
        BY ONLY <1>2 DEF Write, Holds
      <3>2. NewJob \in Job /\ job \in [Client \cup Wrapper -> Job]
        OBVIOUS
      <3> QED BY ONLY <3>1, <3>2
    <2>6. \A d \in Client \cup Wrapper : at'[d] = IF d = a THEN AfterWrite(a) ELSE at[d]
      BY <2>3
    <2>7. at' \in [Client \cup Wrapper -> ClientPlaces \cup WrapperPlaces]
      BY <2>3, <2>4
    <2>8. opened' \subseteq {d \in Client \cup Wrapper : Writing(d)'}
      BY <2>1, <2>6
    <2>9. signalled' \subseteq {q \in Wrapper : Alive(q)'}
      BY <2>1, <2>6
    <2> QED BY <2>1, <2>2, <2>4, <2>5, <2>6, <2>7, <2>8, <2>9
  <1> QED BY <1>1, <1>2

USE DEF Job, NewJob

\* A signal waits for a wrapper that is alive.
LEMMA SignalledLive ==
  ASSUME JobsInv
  PROVE  \A p \in signalled : p \in Wrapper /\ Alive(p)
  BY DEF JobsInv, JobsTypeOK

----
(* One caller, one wrapper *)

\* Where the parts of the invariant are when nobody is at work.
LEMMA BeginsAlone ==
  ASSUME JobsInv, NEW c \in Client, at[c] = "idle", ~raced, ~Meets(c)
  PROVE  /\ \A d \in Client : at[d] = "idle"
         /\ \A p \in Wrapper : Active(p) => Recorded(p)
         /\ \A p \in signalled : at[p] # "writeEnd"
  <1>1. \A d \in Client : at[d] = "idle"
    BY DEF Meets
  <1>2. jobFile # "torn"
    BY DEF Meets
  <1> QED BY <1>1, <1>2 DEF JobsInv, Undisturbed, Known, WritersAwaited, Waiting

\* What is said of wrappers alone stays when no wrapper moves.
LEMMA WrappersStay ==
  ASSUME JobsInv, Undisturbed, UNCHANGED <<signalled, pipe, doomed>>,
         \A p \in Wrapper : at'[p] = at[p]
  PROVE  /\ \A p \in Wrapper : (Alive(p)' <=> Alive(p)) /\ (Active(p)' <=> Active(p))
         /\ OneActive' /\ PipelineIsInWrapper' /\ (Quiet' <=> Quiet) /\ (NoneActive' <=> NoneActive)
  <1>1. \A p \in Wrapper : (Alive(p)' <=> Alive(p)) /\ (Active(p)' <=> Active(p))
    BY Apart DEF Alive, Active
  <1>2. pipe \subseteq Wrapper
    BY DEF JobsInv, JobsTypeOK
  <1> QED BY <1>1, <1>2 DEF Undisturbed, OneActive, PipelineIsInWrapper, Quiet, NoneActive

LEMMA StartKeeps ==
  ASSUME JobsInv, NEW c \in Client, StartJob(c), ~raced'
  PROVE  Undisturbed'
  <1>1. ~raced /\ ~Meets(c) /\ at[c] = "idle"
    BY DEF StartJob
  <1>2. \A d \in Client : at[d] = "idle"
    BY <1>1, BeginsAlone
  <1>3. Quiet
    <2>1. SUFFICES ASSUME NEW p \in Wrapper, Alive(p) PROVE p \in signalled /\ at[p] # "writeEnd"
      BY DEF Quiet
    <2>2. Active(p) => Recorded(p)
      BY <1>1, BeginsAlone
    <2>3. ~Active(p)
      BY <2>1, <2>2 DEF Recorded, StartJob, Refused, NothingRead
    <2>4. p \in signalled
      BY <2>1, <2>3 DEF Active
    <2> QED BY <1>1, <2>4, BeginsAlone
  <1>4. /\ at' = [at EXCEPT ![c] = "write"] /\ job' = [job EXCEPT ![c] = NewJob]
        /\ UNCHANGED <<jobFile, saved, opened, pipe, signalled, doomed>>
    BY DEF StartJob, Moves, Holds
  <1>5. \A p \in Wrapper : at'[p] = at[p]
    BY <1>4, Apart DEF JobsInv, JobsTypeOK
  <1>6. Quiet' /\ OneActive' /\ PipelineIsInWrapper'
    BY <1>1, <1>3, <1>4, <1>5, WrappersStay DEF JobsInv
  <1>7. \A d \in Client : at'[d] = IF d = c THEN "write" ELSE "idle"
    BY <1>2, <1>4 DEF JobsInv, JobsTypeOK
  <1>8. OneCaller' /\ Known' /\ WritersAwaited'
    <2>1. \A q \in signalled' : q \in Wrapper /\ Alive(q)'
      BY <1>4, <1>5, SignalledLive, Apart DEF Alive
    <2> QED BY <1>6, <1>7, <2>1 DEF OneCaller, Known, Quiet, WritersAwaited, Active
  <1>9. CallerKnows'
    BY <1>4, <1>6, <1>7 DEF JobsInv, JobsTypeOK, CallerKnows, Waiting
  <1> QED BY <1>6, <1>8, <1>9 DEF Undisturbed

LEMMA StopKeeps ==
  ASSUME JobsInv, NEW c \in Client, StopJob(c), ~raced'
  PROVE  Undisturbed'
  <1>1. ~raced /\ ~Meets(c) /\ at[c] = "idle"
    BY DEF StopJob
  <1>2. \A d \in Client : at[d] = "idle"
    BY <1>1, BeginsAlone
  <1>3. /\ \A p \in Wrapper : Active(p) => saved.pid = p /\ Recorded(p)
        /\ \A p \in signalled : at[p] # "writeEnd"
    BY <1>1, BeginsAlone DEF Recorded
  <1>4. /\ at' = [at EXCEPT ![c] = IF Alive(saved.pid) THEN "kill" ELSE "mark"]
        /\ job' = [job EXCEPT ![c] = saved]
        /\ UNCHANGED <<jobFile, saved, opened, pipe, signalled, doomed>>
    BY DEF StopJob, Moves, Holds
  <1>5. \A p \in Wrapper : at'[p] = at[p]
    BY <1>4, Apart DEF JobsInv, JobsTypeOK
  <1>6. /\ OneActive' /\ PipelineIsInWrapper' /\ (Quiet' <=> Quiet)
        /\ \A p \in Wrapper : Active(p)' <=> Active(p)
    BY <1>1, <1>4, <1>5, WrappersStay DEF JobsInv
  <1>7. \A d \in Client : at'[d] = IF d # c THEN "idle" ELSE IF Alive(saved.pid) THEN "kill" ELSE "mark"
    BY <1>2, <1>4 DEF JobsInv, JobsTypeOK
  <1>8. OneCaller'
    BY <1>7 DEF OneCaller
  <1>9. Known' /\ WritersAwaited'
    BY <1>3, <1>4, <1>5, <1>6 DEF Known, Recorded, WritersAwaited, JobsInv, JobsTypeOK
  <1>10. job'[c] = saved
    BY <1>4 DEF JobsInv, JobsTypeOK
  <1>11. ~Alive(saved.pid) => Quiet'
    BY <1>3, <1>6 DEF Quiet, Active
  <1>12. CallerKnows'
    BY <1>3, <1>6, <1>7, <1>10, <1>11 DEF CallerKnows, Waiting
  <1> QED BY <1>6, <1>8, <1>9, <1>12 DEF Undisturbed

LEMMA PopenKeeps ==
  ASSUME JobsInv, NEW c \in Client, Popen(c), ~raced'
  PROVE  Undisturbed'
  <1>1. PICK p \in Wrapper :
          /\ at[p] = "none"
          /\ at' = [at EXCEPT ![c] = "writePid", ![p] = "boot"]
          /\ job' = [job EXCEPT ![c] = [job[c] EXCEPT !.pid = p]]
    BY DEF Popen, Holds
  <1>2. ~raced /\ UNCHANGED <<jobFile, saved, opened, pipe, signalled, doomed>> /\ at[c] = "popen"
    BY DEF Popen
  <1>3. Quiet /\ ~job[c].finished /\ \A d \in Client : d # c => at[d] = "idle"
    BY <1>2 DEF JobsInv, Undisturbed, CallerKnows, OneCaller
  <1>4. \A q \in Wrapper : at'[q] = IF q = p THEN "boot" ELSE at[q]
    BY <1>1, Apart DEF JobsInv, JobsTypeOK
  <1>5. \A q \in Wrapper : Active(q)' => q = p
    BY <1>2, <1>3, <1>4, Apart DEF Alive, Active, Quiet
  <1>6. \A d \in Client : at'[d] = IF d = c THEN "writePid" ELSE "idle"
    BY <1>1, <1>3, Apart DEF JobsInv, JobsTypeOK
  <1>7. job'[c].pid = p /\ ~job'[c].finished
    BY <1>1, <1>3 DEF JobsInv, JobsTypeOK
  <1>8. c \notin opened
    BY <1>2 DEF JobsInv, JobsTypeOK, Writing
  <1>9. OneCaller' /\ OneActive' /\ Known'
    BY <1>5, <1>6 DEF OneCaller, OneActive, Known
  <1>10. WritersAwaited'
    <2>1. \A q \in signalled : q \in Wrapper /\ at[q] # "writeEnd"
      BY <1>3, SignalledLive DEF Quiet
    <2> QED BY <1>2, <1>4, <2>1 DEF WritersAwaited
  <1>11. PipelineIsInWrapper'
    <2>1. \A q \in pipe : q \in Wrapper /\ (q \in doomed \/ (at[q] = "run" /\ q \notin signalled))
      BY <1>2 DEF JobsInv, JobsTypeOK, Undisturbed, PipelineIsInWrapper
    <2>2. \A q \in pipe : q \in doomed
      BY <1>3, <2>1, Apart DEF Quiet, Alive
    <2> QED BY <1>2, <2>2 DEF PipelineIsInWrapper
  <1>12. CallerKnows'
    BY <1>2, <1>5, <1>6, <1>7, <1>8 DEF CallerKnows, Waiting
  <1> QED BY <1>9, <1>10, <1>11, <1>12 DEF Undisturbed

\* The signal reaches the one wrapper that is active, and its pipeline.
LEMMA SignalKeeps ==
  ASSUME JobsInv, NEW c \in Client, Signal(c), ~raced'
  PROVE  Undisturbed'
  <1> DEFINE p == job[c].pid
             group == IF Alive(p) THEN {p} ELSE {}
  <1>1. ~raced /\ at[c] \in {"kill", "wait"} /\ p \in Wrapper
    BY DEF Signal, JobsInv, KillsWrapper, Waiting
  <1>2. /\ at' = [at EXCEPT ![c] = IF at[c] = "kill" THEN "wait" ELSE "waitKilled"]
        /\ signalled' = signalled \cup group /\ doomed' = doomed \cup (pipe \cap group)
        /\ UNCHANGED <<jobFile, saved, job, opened, pipe>>
    BY DEF Signal, Moves
  <1>3. \A q \in Wrapper : at'[q] = at[q] /\ (Alive(q)' <=> Alive(q))
    BY <1>2, Apart DEF JobsInv, JobsTypeOK, Alive
  <1>4. /\ \A d \in Client : d # c => at'[d] = "idle"
        /\ Waiting(c)'
        /\ \A d \in Client : at[d] # "idle" => d = c
    BY <1>1, <1>2 DEF JobsInv, JobsTypeOK, Undisturbed, OneCaller, Waiting
  <1>5. \A q \in Wrapper : Active(q) => q = p
    BY <1>1 DEF JobsInv, Undisturbed, CallerKnows, Waiting, NoneActive
  <1>6. NoneActive'
    BY <1>2, <1>3, <1>5 DEF NoneActive, Active
  <1>7. OneCaller' /\ OneActive' /\ Known'
    BY <1>4, <1>6 DEF OneCaller, OneActive, Known, NoneActive
  <1>8. PipelineIsInWrapper'
    <2>1. SUFFICES ASSUME NEW q \in pipe, q \notin doomed' PROVE at[q] = "run" /\ q \notin signalled'
      BY <1>2, <1>3 DEF PipelineIsInWrapper, JobsInv, JobsTypeOK
    <2>2. at[q] = "run" /\ q \notin signalled
      BY <1>1, <1>2, <2>1 DEF JobsInv, Undisturbed, PipelineIsInWrapper
    <2> QED BY <1>2, <2>1, <2>2
  <1>9. WritersAwaited'
    <2>1. SUFFICES ASSUME NEW q \in signalled', at[q] = "writeEnd" PROVE Waiting(c)' /\ job'[c].pid = q
      BY <1>1, <1>2, <1>3 DEF WritersAwaited, JobsInv, JobsTypeOK
    <2>2. CASE q \in signalled
      <3>1. PICK d \in Client : Waiting(d) /\ job[d].pid = q
        BY <1>1, <2>1, <2>2 DEF JobsInv, Undisturbed, WritersAwaited
      <3>2. d = c
        BY <1>4, <3>1 DEF Waiting
      <3> QED BY <1>2, <1>4, <3>1, <3>2
    <2>3. CASE q \notin signalled
      BY <1>2, <1>4, <2>1, <2>3
    <2> QED BY <2>2, <2>3
  <1>10. CallerKnows'
    BY <1>4, <1>6 DEF CallerKnows, Waiting
  <1> QED BY <1>7, <1>8, <1>9, <1>10 DEF Undisturbed

\* The wait ends: what is still alive will not write, or the stop is excused.
LEMMA WaitedKeeps ==
  ASSUME JobsInv, NEW c \in Client, SeesItGone(c) \/ GivesUp(c), ~raced'
  PROVE  Undisturbed'
  <1>1. /\ ~raced /\ Waiting(c) /\ at' = [at EXCEPT ![c] = "mark"]
        /\ ~Alive(job[c].pid) \/ at[job[c].pid] # "writeEnd"
        /\ UNCHANGED <<jobFile, saved, job, opened, pipe, signalled, doomed>>
    <2>1. CASE SeesItGone(c)
      BY <2>1 DEF SeesItGone, Moves
    <2>2. CASE GivesUp(c)
      BY <2>2 DEF GivesUp, Moves, Waiting
    <2> QED BY <2>1, <2>2
  <1>2. \A d \in Client : at[d] # "idle" => d = c
    BY <1>1 DEF JobsInv, Undisturbed, OneCaller, Waiting
  <1>3. \A q \in Wrapper : at'[q] = at[q]
    BY <1>1, Apart DEF JobsInv, JobsTypeOK
  <1>4. \A d \in Client : at'[d] = IF d = c THEN "mark" ELSE "idle"
    BY <1>1, <1>2 DEF JobsInv, JobsTypeOK
  <1>5. NoneActive
    BY <1>1 DEF JobsInv, Undisturbed, CallerKnows
  <1>6. \A q \in signalled : at[q] # "writeEnd"
    <2>1. SUFFICES ASSUME NEW q \in signalled, at[q] = "writeEnd" PROVE FALSE
      OBVIOUS
    <2>2. PICK d \in Client : Waiting(d) /\ job[d].pid = q
      BY <1>1, <2>1 DEF JobsInv, Undisturbed, WritersAwaited
    <2>3. d = c /\ Alive(q)
      BY <1>2, <2>2, SignalledLive DEF Waiting
    <2> QED BY <1>1, <2>1, <2>2, <2>3
  <1>7. Quiet
    BY <1>5, <1>6 DEF Quiet, NoneActive, Active
  <1>8. Quiet' /\ OneActive' /\ PipelineIsInWrapper' /\ NoneActive'
    BY <1>1, <1>3, <1>5, <1>7, WrappersStay DEF JobsInv
  <1>9. OneCaller' /\ Known' /\ CallerKnows'
    BY <1>4, <1>8 DEF OneCaller, Known, NoneActive, CallerKnows, Waiting
  <1>10. WritersAwaited'
    BY <1>1, <1>3, <1>6, SignalledLive DEF WritersAwaited
  <1> QED BY <1>8, <1>9, <1>10 DEF Undisturbed

LEMMA MarkKeeps ==
  ASSUME JobsInv, NEW c \in Client, MarkStopped(c), ~raced'
  PROVE  Undisturbed'
  <1>1. /\ ~raced /\ at[c] = "mark" /\ at' = [at EXCEPT ![c] = "writeStop"]
        /\ UNCHANGED <<jobFile, saved, opened, pipe, signalled, doomed>>
    BY DEF MarkStopped, Moves
  <1>2. Quiet /\ \A d \in Client : d # c => at[d] = "idle"
    BY <1>1 DEF JobsInv, Undisturbed, CallerKnows, OneCaller
  <1>3. \A p \in Wrapper : at'[p] = at[p]
    BY <1>1, Apart DEF JobsInv, JobsTypeOK
  <1>4. Quiet' /\ OneActive' /\ PipelineIsInWrapper'
    BY <1>1, <1>2, <1>3, WrappersStay DEF JobsInv
  <1>5. \A d \in Client : at'[d] = IF d = c THEN "writeStop" ELSE "idle"
    BY <1>1, <1>2 DEF JobsInv, JobsTypeOK
  <1>6. OneCaller' /\ Known' /\ CallerKnows'
    BY <1>4, <1>5 DEF OneCaller, Known, Quiet, Active, CallerKnows, Waiting
  <1>7. WritersAwaited'
    BY <1>1, <1>2, <1>3, SignalledLive DEF WritersAwaited, Quiet
  <1> QED BY <1>4, <1>6, <1>7 DEF Undisturbed

LEMMA BootKeeps ==
  ASSUME JobsInv, NEW p \in Wrapper, Boot(p), ~raced'
  PROVE  Undisturbed'
  <1>1. /\ ~raced /\ at[p] = "boot" /\ p \notin signalled /\ Active(p)
        /\ UNCHANGED <<jobFile, saved, opened, signalled, doomed>>
    BY Apart DEF Boot, Alive, Active
  <1>2. \A d \in Client : at'[d] = at[d] /\ job'[d] = job[d]
    BY Apart DEF Boot, Moves, Holds, JobsInv, JobsTypeOK
  <1>3. /\ at'[p] \in {"run", "gone"}
        /\ \A q \in Wrapper : q # p => at'[q] = at[q]
    BY Apart DEF Boot, Moves, JobsInv, JobsTypeOK
  <1>4. \A q \in Wrapper : Active(q)' => Active(q)
    BY <1>1, <1>3, Apart DEF Active, Alive
  <1>5. PipelineIsInWrapper'
    <2>1. p \in pipe => p \in doomed
      BY <1>1 DEF JobsInv, Undisturbed, PipelineIsInWrapper
    <2>2. \A q \in pipe' : q \in pipe \/ (q = p /\ at'[p] = "run")
      BY DEF Boot, Moves, JobsInv, JobsTypeOK
    <2>3. \A q \in pipe : q \in Wrapper /\ (q \in doomed \/ (at[q] = "run" /\ q \notin signalled))
      BY <1>1 DEF JobsInv, JobsTypeOK, Undisturbed, PipelineIsInWrapper
    <2> QED BY <1>1, <1>3, <2>1, <2>2, <2>3 DEF PipelineIsInWrapper
  <1>6. OneCaller' /\ OneActive'
    BY <1>1, <1>2, <1>4 DEF JobsInv, Undisturbed, OneCaller, OneActive
  <1>7. Known'
    BY <1>1, <1>2, <1>4 DEF JobsInv, Undisturbed, Known, Recorded
  <1>8. WritersAwaited'
    BY <1>1, <1>2, <1>3, SignalledLive DEF JobsInv, Undisturbed, WritersAwaited, Waiting
  <1>9. CallerKnows'
    <2>1. NoneActive => NoneActive'
      BY <1>4 DEF NoneActive
    <2>2. ~Quiet
      BY <1>1 DEF Quiet, Active
    <2> QED BY <1>1, <1>2, <1>4, <2>1, <2>2 DEF JobsInv, Undisturbed, CallerKnows, Waiting
  <1> QED BY <1>5, <1>6, <1>7, <1>8, <1>9 DEF Undisturbed

\* The pipeline ends, or the wrapper goes on to its last write.
LEMMA GoesOnKeeps ==
  ASSUME JobsInv, NEW p \in Wrapper, PipelineEnds(p) \/ Finalise(p), ~raced'
  PROVE  Undisturbed'
  <1>1. ~raced /\ UNCHANGED <<jobFile, saved, opened, signalled>>
    BY DEF PipelineEnds, Finalise
  <1>2. \A d \in Client : at'[d] = at[d] /\ job'[d] = job[d]
    BY Apart DEF PipelineEnds, Finalise, Moves, Holds, JobsInv, JobsTypeOK
  <1>3. /\ \A q \in Wrapper : q # p => at'[q] = at[q]
        /\ at'[p] = at[p] \/ (at[p] = "run" /\ at'[p] = "ended")
             \/ (at[p] = "ended" /\ at'[p] = "writeEnd" /\ p \notin signalled)
    BY Apart DEF PipelineEnds, Finalise, Moves, JobsInv, JobsTypeOK
  <1>4. \A q \in Wrapper : (Alive(q)' <=> Alive(q)) /\ (Active(q)' <=> Active(q))
    BY <1>1, <1>3, Apart DEF Alive, Active
  <1>5. PipelineIsInWrapper'
    <2>1. \A q \in pipe : q \in Wrapper /\ (q \in doomed \/ (at[q] = "run" /\ q \notin signalled))
      BY <1>1 DEF JobsInv, JobsTypeOK, Undisturbed, PipelineIsInWrapper
    <2>2. CASE PipelineEnds(p)
      BY <1>1, <1>3, <2>1, <2>2 DEF PipelineEnds, PipelineIsInWrapper
    <2>3. CASE Finalise(p)
      BY <1>1, <1>3, <2>1, <2>3 DEF Finalise, PipelineIsInWrapper
    <2> QED BY <2>2, <2>3
  <1>6. OneCaller' /\ OneActive'
    BY <1>1, <1>2, <1>4 DEF JobsInv, Undisturbed, OneCaller, OneActive
  <1>7. Known'
    BY <1>1, <1>2, <1>4 DEF JobsInv, Undisturbed, Known, Recorded
  <1>8. WritersAwaited'
    BY <1>1, <1>2, <1>3, SignalledLive DEF JobsInv, Undisturbed, WritersAwaited, Waiting
  <1>9. CallerKnows'
    <2>1. (NoneActive => NoneActive') /\ (Quiet => Quiet')
      BY <1>1, <1>3, <1>4 DEF NoneActive, Quiet
    <2> QED BY <1>1, <1>2, <1>4, <2>1 DEF JobsInv, Undisturbed, CallerKnows, Waiting
  <1> QED BY <1>5, <1>6, <1>7, <1>8, <1>9 DEF Undisturbed

\* A wrapper that was told to end is missed by nobody.
LEMMA SignalEndsKeeps ==
  ASSUME JobsInv, NEW p \in Wrapper, SignalEnds(p), ~raced'
  PROVE  Undisturbed'
  <1>1. /\ ~raced /\ p \in signalled
        /\ at' = [at EXCEPT ![p] = "gone"] /\ job' = [job EXCEPT ![p] = NewJob]
        /\ opened' = opened \ {p} /\ signalled' = signalled \ {p}
        /\ UNCHANGED <<jobFile, saved, pipe, doomed>>
    BY DEF SignalEnds, Moves, Holds
  <1>2. \A d \in Client : at'[d] = at[d] /\ job'[d] = job[d] /\ (d \in opened' <=> d \in opened)
    BY <1>1, Apart DEF JobsInv, JobsTypeOK
  <1>3. /\ at'[p] = "gone"
        /\ \A q \in Wrapper : q # p => at'[q] = at[q]
    BY <1>1, Apart DEF JobsInv, JobsTypeOK
  <1>4. \A q \in Wrapper : (Active(q)' <=> Active(q)) /\ (Alive(q)' <=> Alive(q) /\ q # p)
    BY <1>1, <1>3, Apart DEF Alive, Active
  <1>5. PipelineIsInWrapper'
    <2>1. \A q \in pipe : q \in Wrapper /\ (q \in doomed \/ (at[q] = "run" /\ q \notin signalled))
      BY <1>1 DEF JobsInv, JobsTypeOK, Undisturbed, PipelineIsInWrapper
    <2> QED BY <1>1, <1>3, <2>1 DEF PipelineIsInWrapper
  <1>6. OneCaller' /\ OneActive'
    BY <1>1, <1>2, <1>4 DEF JobsInv, Undisturbed, OneCaller, OneActive
  <1>7. Known'
    <2>1. \A q \in Wrapper : Active(q)' => q # p
      BY <1>4, <1>1 DEF Active
    <2> QED BY <1>1, <1>2, <1>4, <2>1 DEF JobsInv, Undisturbed, Known, Recorded
  <1>8. WritersAwaited'
    BY <1>1, <1>2, <1>3, SignalledLive DEF JobsInv, Undisturbed, WritersAwaited, Waiting
  <1>9. CallerKnows'
    <2>1. (NoneActive => NoneActive') /\ (Quiet => Quiet')
      BY <1>1, <1>3, <1>4 DEF NoneActive, Quiet
    <2> QED BY <1>1, <1>2, <1>4, <2>1 DEF JobsInv, Undisturbed, CallerKnows, Waiting
  <1> QED BY <1>5, <1>6, <1>7, <1>8, <1>9 DEF Undisturbed

----
(* The writes of job.json *)

\* Whoever truncates the file is the wrapper that is active, or one that is waited for, or
\* knows about it.
LEMMA OpenKeeps ==
  ASSUME JobsInv, NEW a \in Client \cup Wrapper, Open(a), ~raced'
  PROVE  Undisturbed'
  <1>1. /\ ~raced /\ Writing(a) /\ jobFile' = "torn" /\ opened' = opened \cup {a}
        /\ UNCHANGED <<at, job, pipe, signalled, doomed>>
    BY DEF Open
  <1>2. /\ \A p \in Wrapper : Active(p)' <=> Active(p)
        /\ (Quiet' <=> Quiet) /\ (NoneActive' <=> NoneActive)
    BY <1>1 DEF Active, Alive, Quiet, NoneActive
  <1>3. OneCaller' /\ OneActive' /\ PipelineIsInWrapper' /\ WritersAwaited'
    BY <1>1, <1>2 DEF JobsInv, Undisturbed, OneCaller, OneActive, PipelineIsInWrapper, WritersAwaited, Waiting
  <1>4. CallerKnows'
    BY <1>1, <1>2 DEF JobsInv, Undisturbed, CallerKnows, Waiting
  <1>5. Known'
    <2>1. SUFFICES ASSUME NEW p \in Wrapper, Active(p), \A c \in Client : at[c] # "writePid"
                   PROVE  p \in opened'
      BY <1>1, <1>2 DEF Known
    <2>2. CASE a \in Client
      <3>1. at[a] \in {"write", "writeStop"}
        BY <1>1, <2>1, <2>2 DEF Writing, JobsInv, JobsTypeOK, ClientPlaces
      <3> QED BY <1>1, <2>1, <2>2, <3>1 DEF JobsInv, Undisturbed, CallerKnows, Quiet, Active
    <2>3. CASE a \in Wrapper
      <3>1. at[a] = "writeEnd" /\ Alive(a)
        BY <1>1, <2>3, Apart DEF Writing, Alive, JobsInv, JobsTypeOK, WrapperPlaces
      <3>2. a \notin signalled
        BY <1>1, <2>1, <3>1 DEF JobsInv, Undisturbed, WritersAwaited, CallerKnows, NoneActive
      <3>3. a = p
        BY <1>1, <2>1, <2>3, <3>1, <3>2 DEF JobsInv, Undisturbed, OneActive, Active
      <3> QED BY <1>1, <3>3
    <2> QED BY <2>2, <2>3
  <1> QED BY <1>3, <1>4, <1>5 DEF Undisturbed

LEMMA CallerWriteKeeps ==
  ASSUME JobsInv, NEW c \in Client, Write(c), ~raced'
  PROVE  Undisturbed'
  <1>1. /\ ~raced /\ c \in opened /\ opened' = opened \ {c}
        /\ UNCHANGED <<pipe, signalled, doomed>>
        /\ at' = [at EXCEPT ![c] = AfterWrite(c)]
        /\ (jobFile' = "whole" /\ saved' = job[c]) \/ jobFile = "whole"
    BY Apart DEF Write, Moves, JobsInv, JobsTypeOK
  <1>2. at[c] \in {"write", "writePid", "writeStop"}
    BY <1>1 DEF JobsInv, JobsTypeOK, Writing, ClientPlaces
  <1>3. \A d \in Client : d # c => at[d] = "idle"
    BY <1>1, <1>2 DEF JobsInv, Undisturbed, OneCaller
  <1>4. \A p \in Wrapper : at'[p] = at[p]
    BY <1>1, Apart DEF JobsInv, JobsTypeOK
  <1>5. /\ \A p \in Wrapper : Active(p)' <=> Active(p)
        /\ OneActive' /\ PipelineIsInWrapper' /\ (Quiet' <=> Quiet)
    BY <1>1, <1>4, WrappersStay DEF JobsInv
  <1>6. \A d \in Client : at'[d] = IF d = c /\ at[c] = "write" THEN "popen" ELSE "idle"
    BY <1>1, <1>2, <1>3 DEF JobsInv, JobsTypeOK, AfterWrite
  <1>7. at[c] = "write" => job'[c] = job[c]
    BY <1>1 DEF Write, AfterWrite, Holds, JobsInv, JobsTypeOK
  <1>8. OneCaller'
    BY <1>6 DEF OneCaller
  <1>9. Known'
    <2>1. SUFFICES ASSUME NEW p \in Wrapper, Active(p) PROVE Recorded(p)'
      BY <1>5 DEF Known
    <2>2. at[c] = "writePid"
      BY <1>1, <1>2, <2>1 DEF JobsInv, Undisturbed, CallerKnows, Quiet, Active
    <2>3. job[c].pid = p /\ ~job[c].finished /\ jobFile = "torn"
      BY <1>1, <2>1, <2>2 DEF JobsInv, Undisturbed, CallerKnows, NoneActive
    <2> QED BY <1>1, <2>3 DEF Recorded
  <1>10. WritersAwaited'
    <2>1. \A q \in signalled : at[q] # "writeEnd"
      BY <1>1, <1>2, <1>3 DEF JobsInv, Undisturbed, WritersAwaited, Waiting
    <2> QED BY <1>1, <1>4, <2>1, SignalledLive DEF WritersAwaited
  <1>11. CallerKnows'
    BY <1>1, <1>5, <1>6, <1>7 DEF JobsInv, Undisturbed, CallerKnows, Waiting
  <1> QED BY <1>5, <1>8, <1>9, <1>10, <1>11 DEF Undisturbed

\* The wrapper's last write: nobody is active afterwards.
LEMMA WrapperWriteKeeps ==
  ASSUME JobsInv, NEW p \in Wrapper, Write(p), ~raced'
  PROVE  Undisturbed'
  <1>1. /\ ~raced /\ p \in opened /\ opened' = opened \ {p} /\ signalled' = signalled \ {p}
        /\ UNCHANGED <<pipe, doomed>>
    BY DEF Write
  <1>2. at[p] = "writeEnd" /\ Alive(p)
    BY <1>1, Apart DEF JobsInv, JobsTypeOK, Writing, WrapperPlaces, Alive
  <1>3. at' = [at EXCEPT ![p] = "gone"] /\ job' = [job EXCEPT ![p] = NewJob]
    BY <1>2 DEF Write, AfterWrite, Moves, Holds
  <1>4. /\ at'[p] = "gone"
        /\ \A q \in Wrapper : q # p => at'[q] = at[q]
    BY <1>3, Apart DEF JobsInv, JobsTypeOK
  <1>5. \A q \in Wrapper : Alive(q)' <=> Alive(q) /\ q # p
    BY <1>4, Apart DEF Alive
  <1>6. \A d \in Client : at'[d] = at[d] /\ job'[d] = job[d] /\ (d \in opened' <=> d \in opened)
    BY <1>1, <1>3, Apart DEF JobsInv, JobsTypeOK
  <1>7. NoneActive'
    <2>1. CASE p \in signalled
      <3>1. NoneActive
        BY <1>1, <1>2, <2>1 DEF JobsInv, Undisturbed, WritersAwaited, CallerKnows
      <3> QED BY <1>1, <1>5, <3>1 DEF NoneActive, Active
    <2>2. CASE p \notin signalled
      <3>1. \A q \in Wrapper : Active(q) => q = p
        BY <1>1, <1>2, <2>2 DEF JobsInv, Undisturbed, OneActive, Active
      <3> QED BY <1>1, <1>5, <3>1 DEF NoneActive, Active
    <2> QED BY <2>1, <2>2
  <1>8. OneCaller' /\ OneActive' /\ Known'
    BY <1>1, <1>6, <1>7 DEF JobsInv, Undisturbed, OneCaller, OneActive, Known, NoneActive
  <1>9. PipelineIsInWrapper'
    <2>1. \A q \in pipe : q \in Wrapper /\ (q \in doomed \/ (at[q] = "run" /\ q \notin signalled))
      BY <1>1 DEF JobsInv, JobsTypeOK, Undisturbed, PipelineIsInWrapper
    <2> QED BY <1>1, <1>2, <1>4, <2>1 DEF PipelineIsInWrapper
  <1>10. WritersAwaited'
    BY <1>1, <1>4, <1>6, SignalledLive DEF JobsInv, Undisturbed, WritersAwaited, Waiting
  <1>11. CallerKnows'
    <2>1. Quiet => Quiet'
      BY <1>1, <1>4, <1>5 DEF Quiet
    <2>2. \A q \in Wrapper : ~Active(q)'
      BY <1>7 DEF NoneActive
    <2> QED BY <1>1, <1>6, <1>7, <2>1, <2>2 DEF JobsInv, Undisturbed, CallerKnows, Waiting
  <1> QED BY <1>8, <1>9, <1>10, <1>11 DEF Undisturbed

----
(* The theorems *)

LEMMA InitJobs == JobsInit => JobsInv
  <1>1. JobsInit => JobsTypeOK /\ KillsWrapper
    BY InitTypes
  <1>2. JobsInit => Undisturbed
    BY Apart DEF JobsInit, Undisturbed, OneCaller, OneActive, PipelineIsInWrapper, WritersAwaited, Known,
                 CallerKnows, Alive, Active, Waiting
  <1> QED BY <1>1, <1>2 DEF JobsInv

\* One step of anybody.
LEMMA NextJobs == JobsInv /\ [JobsNext]_jobsVars => JobsInv'
  <1> SUFFICES ASSUME JobsInv, [JobsNext]_jobsVars PROVE JobsInv'
    OBVIOUS
  <1>1. CASE UNCHANGED jobsVars
    BY <1>1 DEF jobsVars, JobsInv, JobsTypeOK, KillsWrapper, Writing, Waiting, Undisturbed, OneCaller,
                OneActive, PipelineIsInWrapper, WritersAwaited, Known, CallerKnows, Quiet, NoneActive,
                Recorded, Alive, Active
  <1>2. ASSUME NEW c \in Client,
               \/ StartJob(c) \/ StopJob(c) \/ ClientDies(c) \/ Popen(c)
               \/ Signal(c) \/ SeesItGone(c) \/ GivesUp(c) \/ MarkStopped(c)
        PROVE  JobsInv'
    <2>1. JobsTypeOK' /\ KillsWrapper'
      BY <1>2, CallerTypes DEF JobsInv
    <2>2. ASSUME ~raced' PROVE Undisturbed'
      <3>1. ~ClientDies(c)
        BY <2>2 DEF ClientDies
      <3> QED BY <1>2, <2>2, <3>1, StartKeeps, StopKeeps, PopenKeeps, SignalKeeps, WaitedKeeps, MarkKeeps
    <2> QED BY <2>1, <2>2 DEF JobsInv
  <1>3. ASSUME NEW p \in Wrapper,
               Boot(p) \/ PipelineEnds(p) \/ Finalise(p) \/ SignalEnds(p) \/ WrapperDies(p)
        PROVE  JobsInv'
    <2>1. JobsTypeOK' /\ KillsWrapper'
      BY <1>3, WrapperTypes DEF JobsInv
    <2>2. ASSUME ~raced' PROVE Undisturbed'
      <3>1. ~WrapperDies(p)
        BY <2>2 DEF WrapperDies
      <3> QED BY <1>3, <2>2, <3>1, BootKeeps, GoesOnKeeps, SignalEndsKeeps
    <2> QED BY <2>1, <2>2 DEF JobsInv
  <1>4. ASSUME NEW a \in Client \cup Wrapper, Open(a) \/ Write(a)
        PROVE  JobsInv'
    <2>1. JobsTypeOK' /\ KillsWrapper'
      BY <1>4, WriterTypes DEF JobsInv
    <2>2. ASSUME ~raced' PROVE Undisturbed'
      BY <1>4, <2>2, OpenKeeps, CallerWriteKeeps, WrapperWriteKeeps
    <2> QED BY <2>1, <2>2 DEF JobsInv
  <1> QED BY <1>1, <1>2, <1>3, <1>4 DEF JobsNext, ClientStep, WrapperStep

LEMMA JobsInvariant == JobsSpec => []JobsInv
  BY InitJobs, NextJobs, PTL DEF JobsSpec

\* The records of job.json and of everybody who holds one keep their types (jobs.py).
THEOREM JobsTypes == JobsSpec => []JobsTypeOK
  <1>1. JobsInv => JobsTypeOK
    BY DEF JobsInv
  <1> QED BY <1>1, JobsInvariant, PTL

\* "A second start on a running job is refused", start_job and stop_job of jobs.py, as far
\* as it holds: whatever is started and stopped, by any number of callers one after the
\* other, and however the wrappers' own writes and deaths fall between, one pipeline runs
\* that was not told to end; _terminate waits for the wrapper alone (jobs.py:243-251).
THEOREM OnePipelineRuns == JobsSpec => []OnePipeline
  <1>1. JobsInv => OnePipeline
    <2> SUFFICES ASSUME JobsInv, ~raced, NEW p \in pipe \ doomed, NEW q \in pipe \ doomed PROVE p = q
      BY DEF OnePipeline
    <2>1. p \in Wrapper /\ q \in Wrapper /\ Active(p) /\ Active(q)
      BY Apart DEF JobsInv, JobsTypeOK, Undisturbed, PipelineIsInWrapper, Alive, Active
    <2> QED BY <2>1 DEF JobsInv, Undisturbed, OneActive
  <1> QED BY <1>1, JobsInvariant, PTL

\* A running pipeline is the one job_status shows as running (jobs.py:193-226), unless it was
\* told to end: the Stop button finds it, and what a job shown as stopped, finished or lost
\* has left behind was sent a signal.
THEOREM RunningJobsAreRecorded == JobsSpec => []RunningIsRecorded
  <1>1. JobsInv => RunningIsRecorded
    <2> SUFFICES ASSUME JobsInv, ~raced, NEW p \in pipe \ doomed
                 PROVE  \/ \E c \in Client : at[c] = "writePid" /\ job[c].pid = p
                        \/ JobStatus = "running" /\ saved.pid = p
      BY DEF RunningIsRecorded
    <2>1. p \in Wrapper /\ Active(p) /\ p \notin opened
      BY Apart DEF JobsInv, JobsTypeOK, Undisturbed, PipelineIsInWrapper, Alive, Active, Writing
    <2>2. CASE \E c \in Client : at[c] = "writePid"
      BY <2>1, <2>2 DEF JobsInv, Undisturbed, CallerKnows
    <2>3. CASE Recorded(p)
      BY <2>1, <2>3 DEF Recorded, JobStatus, NothingRead, Active
    <2> QED BY <2>1, <2>2, <2>3 DEF JobsInv, Undisturbed, Known
  <1> QED BY <1>1, JobsInvariant, PTL

====
