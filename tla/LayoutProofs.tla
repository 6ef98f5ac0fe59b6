---- MODULE LayoutProofs ----
(***************************************************************************)
(* Proofs about the files of an output directory, for every set of stages  *)
(* that an older version may have left complete and every number of runs.  *)
(* Three invariants carry them.  TypeInv: a run and a compaction take      *)
(* turns.  HandoffInv: what a completed mocks stage authored is what its   *)
(* files, the dataset, and the dataset a compaction holds still say; a     *)
(* stage that would write them again is one that no longer stands.         *)
(* CopyInv: while a compaction folds, what it will write shows a reader    *)
(* what was seen when it began, and what is on disk differs from that only *)
(* by the copies it has taken out of their files.                          *)
(***************************************************************************)
EXTENDS Layout, TLAPS

----
(* Kinds, names and documents *)

\* The name that backs a kind in the files f, and what it holds.
First(f, k) ==
  LET there == {n \in Names(k) : f[k][n] # None} IN
  IF there = {} THEN 0 ELSE CHOOSE n \in there : \A m \in there : n <= m
Content(f, k) == IF First(f, k) = 0 THEN None ELSE f[k][First(f, k)]

LEMMA Kinds ==
  /\ Folded = {"applicable_failures", "coverage_plan", "coverage", "mock_rules", "mock_strategies"}
  /\ Parents = {"agent_map", "dataset"}
  /\ \A k \in Folded : FoldedInto(k) \in Parents /\ k \in FoldedIn(FoldedInto(k))
                       /\ FoldedIn(FoldedInto(k)) \subseteq Folded
  /\ \A k \in Handoff : k \in Folded /\ k \notin Derived /\ FoldedInto(k) = "dataset"
  /\ \A k \in Folded : k \in Derived \/ k \in Handoff
  /\ FoldedIn("dataset") = Handoff \cup {"coverage_plan", "coverage"}
  /\ FoldedIn("agent_map") = {"applicable_failures"}
  BY DEF Folded, Derived, Handoff, Parents, FoldedInto, FoldedIn

LEMMA NamesOf ==
  ASSUME NEW k \in Folded
  PROVE  /\ Names(k) \subseteq {1, 2, 3} /\ 1 \in Names(k)
         /\ 2 \in Names(k) \/ Names(k) = {1}
         /\ k = "mock_strategies" => Names(k) = {1, 2}
  BY DEF Names

\* It is the first of the names that holds something.
LEMMA FirstName ==
  ASSUME NEW f, NEW k \in Folded
  PROVE  \/ First(f, k) = 0 /\ \A m \in Names(k) : f[k][m] = None
         \/ /\ First(f, k) \in Names(k) /\ f[k][First(f, k)] # None
            /\ \A m \in Names(k) : m < First(f, k) => f[k][m] = None
  <1> DEFINE there == {n \in Names(k) : f[k][n] # None}
  <1>1. CASE there = {}
    BY <1>1 DEF First
  <1>2. CASE there # {}
    <2>1. \E n \in there : \A m \in there : n <= m
      BY <1>2, NamesOf
    <2>2. First(f, k) = CHOOSE n \in there : \A m \in there : n <= m
      BY <1>2 DEF First
    <2>3. First(f, k) \in there /\ \A m \in there : First(f, k) <= m
      BY <2>1, <2>2
    <2> QED BY <2>3, NamesOf
  <1> QED BY <1>1, <1>2

LEMMA Backing ==
  ASSUME NEW k
  PROVE  /\ Existing(k) = First(file, k) /\ StandAlone(k) = Content(file, k)
         /\ Existing(k)' = First(file', k) /\ StandAlone(k)' = Content(file', k)
  BY DEF Existing, StandAlone, First, Content

\* Nothing is of no use as a document, and no document is nothing.
Docs(p) == [FoldedIn(p) -> Int]
LEMMA Documents ==
  /\ Absent # TornDoc /\ Absent # NotRead /\ TornDoc # NotRead
  /\ \A p \in Parents : \A d \in Docs(p) : Readable(d)
  /\ ~Readable(Absent) /\ ~Readable(TornDoc) /\ ~Readable(NotRead)
  <1>1. /\ DOMAIN Absent = {"absent"} /\ DOMAIN TornDoc = {"torn"} /\ DOMAIN NotRead = {"unread"}
    BY DEF Absent, TornDoc, NotRead
  <1>2. ASSUME NEW p \in Parents, NEW d \in Docs(p)
        PROVE  DOMAIN d = FoldedIn(p) /\ "absent" \notin DOMAIN d /\ "torn" \notin DOMAIN d /\ "unread" \notin DOMAIN d
    BY <1>2 DEF Docs, FoldedIn, Folded, Derived, Handoff
  <1> QED BY <1>1, <1>2 DEF Readable

----
(* Types *)

FilesOK == DOMAIN file = Folded /\ \A k \in Folded : file[k] \in [Names(k) -> Int]
DocsOK == DOMAIN doc = Parents /\ \A p \in Parents : doc[p] \in Docs(p) \cup {Absent, TornDoc}
StateOK ==
  /\ DOMAIN state = {"work", "root"}
  /\ \A home \in {"work", "root"} : state[home] \in (SUBSET Stages) \cup {NoState}
RunOK ==
  /\ pos \in 0..6 /\ done \subseteq Stages /\ runs \in Nat
  /\ authored \in Int /\ authored # Torn /\ revived \in BOOLEAN
CompactOK ==
  /\ step \in 0..10
  /\ DOMAIN parents = Parents
  /\ \A p \in Parents : parents[p] \in Docs(p) \cup {Absent, NotRead}
  /\ before \in [Folded -> Int]
TypeOK == FilesOK /\ DocsOK /\ StateOK /\ RunOK /\ CompactOK

\* What a kind's names hold, and what a reader sees, is a value.
LEMMA ContentType ==
  ASSUME FilesOK, NEW k \in Folded
  PROVE  StandAlone(k) \in Int /\ (StandAlone(k) = None <=> Existing(k) = 0)
  BY FirstName, Backing DEF FilesOK, Content, None
LEMMA SeenType ==
  ASSUME FilesOK, DocsOK, NEW k \in Folded
  PROVE  PipelineSees(k) \in Int
  BY ContentType, Kinds, Documents DEF DocsOK, Docs, PipelineSees, FoldFrom, Torn, None

\* What a stage leaves in the directory.
LEMMA StageEffect ==
  ASSUME TypeOK, StageWrites
  PROVE  /\ FilesOK' /\ DocsOK'
         /\ pos # Mocks => UNCHANGED file
         /\ pos = Mocks => UNCHANGED doc /\ StandAlone("mock_rules")' = Version
         /\ pos \notin {Build, Review} => doc'["dataset"] = doc["dataset"]
         /\ pos = Build => \A k \in Handoff : StandAlone(k) # Torn /\ doc'["dataset"][k] = StandAlone(k)
         /\ pos = Review => /\ Readable(doc["dataset"])
                            /\ \A k \in Handoff : doc'["dataset"][k] = doc["dataset"][k]
  <1> DEFINE Effect ==
         /\ FilesOK' /\ DocsOK'
         /\ pos # Mocks => UNCHANGED file
         /\ pos = Mocks => UNCHANGED doc /\ StandAlone("mock_rules")' = Version
         /\ pos \notin {Build, Review} => doc'["dataset"] = doc["dataset"]
         /\ pos = Build => \A k \in Handoff : StandAlone(k) # Torn /\ doc'["dataset"][k] = StandAlone(k)
         /\ pos = Review => /\ Readable(doc["dataset"])
                            /\ \A k \in Handoff : doc'["dataset"][k] = doc["dataset"][k]
  <1>0. Version \in Int /\ Version # None
    BY DEF TypeOK, RunOK, Version, Older, None
  <1> USE DEF TypeOK, Discover, Map, Mocks, Build, Review
  <1>1. CASE DiscoverWrites
    <2>1. NewDoc("agent_map") \in Docs("agent_map")
      BY DEF NewDoc, Docs, None
    <2> QED BY <1>1, <2>1, Kinds DEF DiscoverWrites, Writes, FilesOK, DocsOK
  <1>2. CASE MapWrites
    <2>1. doc["agent_map"] \in Docs("agent_map")
      BY <1>2, Kinds DEF MapWrites, Readable, DocsOK
    <2>2. [doc["agent_map"] EXCEPT !["applicable_failures"] = Version] \in Docs("agent_map")
      BY <1>0, <2>1 DEF Docs
    <2> QED BY <1>2, <2>2, Kinds DEF MapWrites, Writes, FilesOK, DocsOK
  <1>3. CASE MocksWrites
    <2>1. "mock_rules" \in Folded /\ "mock_strategies" \in Folded
      BY Kinds
    <2>2. /\ file'["mock_rules"] = [file["mock_rules"] EXCEPT ![1] = Version]
          /\ \A k \in Folded : file'[k] \in {file[k], [file[k] EXCEPT ![1] = Version]}
          /\ DOMAIN file' = Folded /\ UNCHANGED doc
      BY <1>3, <2>1 DEF MocksWrites, WritesWork, FilesOK
    <2>3. FilesOK' /\ DocsOK'
      BY <1>0, <2>2 DEF FilesOK, DocsOK
    <2>4. file'["mock_rules"][1] = Version
      BY <1>0, <2>1, <2>2, NamesOf DEF FilesOK
    <2>5. First(file', "mock_rules") = 1
      BY <1>0, <2>1, <2>4, NamesOf, FirstName
    <2>6. StandAlone("mock_rules")' = Version
      BY <2>4, <2>5, Backing DEF Content
    <2> QED BY <1>3, <2>2, <2>3, <2>6 DEF MocksWrites
  <1>4. CASE BuildWrites
    <2> DEFINE d == [k \in FoldedIn("dataset") |-> IF k \in Handoff THEN MockBlock[k] ELSE Version]
    <2>1. d \in Docs("dataset") /\ \A k \in Handoff : d[k] = StandAlone(k)
      <3>1. \A k \in Handoff : StandAlone(k) \in Int /\ MockBlock[k] = StandAlone(k) /\ k \in FoldedIn("dataset")
        BY ContentType, Kinds DEF MockBlock
      <3> QED BY <1>0, <3>1 DEF Docs
    <2> HIDE DEF d
    <2>2. doc' = [doc EXCEPT !["dataset"] = d] /\ UNCHANGED file /\ pos = Build
      BY <1>4 DEF BuildWrites, Writes, d
    <2>3. \A k \in Handoff : StandAlone(k) # Torn
      BY <1>4 DEF BuildWrites
    <2> QED BY <2>1, <2>2, <2>3, Kinds DEF FilesOK, DocsOK
  <1>5. CASE ReviewWrites
    <2>1. doc["dataset"] \in Docs("dataset")
      BY <1>5, Kinds DEF ReviewWrites, Readable, DocsOK
    <2>2. /\ [doc["dataset"] EXCEPT !["coverage"] = Version] \in Docs("dataset")
          /\ \A k \in Handoff : [doc["dataset"] EXCEPT !["coverage"] = Version][k] = doc["dataset"][k]
      BY <1>0, <2>1, Kinds DEF Docs, Handoff
    <2> QED BY <1>5, <2>2, Kinds DEF ReviewWrites, Writes, FilesOK, DocsOK
  <1> QED BY <1>1, <1>2, <1>3, <1>4, <1>5 DEF StageWrites

----
(* What a compaction does to the directory and to the parents it holds *)

LEMMA SameContent ==
  ASSUME NEW f, NEW g, NEW k, f[k] = g[k]
  PROVE  First(f, k) = First(g, k) /\ Content(f, k) = Content(g, k)
  BY DEF First, Content

\* A kind whose files are left alone backs what it did, and is seen as it was.
LEMMA SameView ==
  ASSUME NEW k
  PROVE  /\ file'[k] = file[k] => StandAlone(k)' = StandAlone(k) /\ Existing(k)' = Existing(k)
         /\ file'[k] = file[k] /\ doc'[FoldedInto(k)] = doc[FoldedInto(k)] =>
              FoldFrom(k)' = FoldFrom(k) /\ PipelineSees(k)' = PipelineSees(k)
  BY Backing, SameContent DEF FoldFrom, PipelineSees

LEMMA SetPathEffect ==
  ASSUME FilesOK, NEW k \in Folded, NEW d \in Docs(FoldedInto(k))
  PROVE  /\ SetPath(d, k) \in Docs(FoldedInto(k))
         /\ SetPath(d, k)[k] = IF d[k] = None THEN StandAlone(k) ELSE d[k]
         /\ \A j \in FoldedIn(FoldedInto(k)) : j # k => SetPath(d, k)[j] = d[j]
  BY ContentType, Kinds DEF SetPath, Docs

LEMMA Order ==
  /\ \A i \in 1..5 : FoldOrder[i] \in Folded
  /\ \A i \in 1..5 : FoldOrder[i] = "mock_strategies" <=> i = 3
  BY Kinds DEF FoldOrder

\* One kind is folded: its parent is loaded and carries it, or is absent and left so.
Folds(k) ==
  \/ Existing(k) = 0 /\ UNCHANGED <<file, parents>>
  \/ /\ Existing(k) # 0 /\ ParentOf(k) = Absent
     /\ parents' = [parents EXCEPT ![FoldedInto(k)] = Absent] /\ UNCHANGED file
  \/ /\ Existing(k) # 0 /\ ParentOf(k) \in Docs(FoldedInto(k))
     /\ parents' = [parents EXCEPT ![FoldedInto(k)] = SetPath(ParentOf(k), k)]
LEMMA FoldEffect ==
  ASSUME TypeOK, FoldKind
  PROVE  \E k \in Folded :
           /\ k = FoldOrder[step] /\ Folds(k)
           /\ FilesOK' /\ \A j \in Folded : j # k \/ k \in Handoff => file'[j] = file[j]
  <1> DEFINE k == FoldOrder[step]
             p == FoldedInto(k)
  <1>1. k \in Folded /\ p \in Parents
    BY Order, Kinds DEF FoldKind, Folding
  <1> HIDE DEF k
  <1>2. doc[p] \in Docs(p) \cup {Absent, TornDoc} /\ parents[p] \in Docs(p) \cup {Absent, NotRead}
    BY <1>1 DEF TypeOK, DocsOK, CompactOK
  <1>3. ParentOf(k) \in Docs(p) \cup {Absent, TornDoc}
    BY <1>1, <1>2, Documents DEF ParentOf
  <1>4. FilesOK' /\ \A j \in Folded : j # k \/ k \in Handoff => file'[j] = file[j]
    <2>1. CASE UNCHANGED file
      BY <2>1 DEF TypeOK, FilesOK
    <2>2. CASE k \in Derived /\ Existing(k) # 0 /\ file' = [file EXCEPT ![k][Existing(k)] = None]
      <3>1. DOMAIN file' = Folded /\ \A j \in Folded : j # k => file'[j] = file[j]
        BY <1>1, <2>2 DEF TypeOK, FilesOK
      <3>2. file[k] \in [Names(k) -> Int] /\ file'[k] = [file[k] EXCEPT ![Existing(k)] = None]
        BY <1>1, <2>2 DEF TypeOK, FilesOK
      <3>3. file'[k] \in [Names(k) -> Int]
        <4>1. Existing(k) \in Names(k) /\ None \in Int
          BY <1>1, <2>2, FirstName, Backing DEF None
        <4> QED BY <3>2, <4>1
      <3> QED BY <2>2, <3>1, <3>3, Kinds DEF TypeOK, FilesOK
    <2> QED BY <2>1, <2>2 DEF FoldKind, Unlinks, k
  <1>5. Folds(k)
    <2>1. CASE Existing(k) = 0
      BY <2>1 DEF FoldKind, Folds, k
    <2>2. CASE Existing(k) # 0 /\ Readable(ParentOf(k))
      <3>1. ParentOf(k) \in Docs(p)
        BY <1>3, <2>2, Documents
      <3>2. parents' = [parents EXCEPT ![p] = SetPath(ParentOf(k), k)]
        BY <2>2 DEF FoldKind, k
      <3> QED BY <2>2, <3>1, <3>2 DEF Folds
    <2>3. CASE Existing(k) # 0 /\ ~Readable(ParentOf(k))
      <3>1. ~Raises(k) /\ UNCHANGED file /\ parents' = [parents EXCEPT ![p] = ParentOf(k)]
        BY <2>3 DEF FoldKind, k
      <3>2. ParentOf(k) = Absent
        BY <1>1, <1>3, <2>3, <3>1, Documents DEF Raises
      <3> QED BY <2>3, <3>1, <3>2 DEF Folds
    <2> QED BY <2>1, <2>2, <2>3
  <1> QED BY <1>1, <1>4, <1>5 DEF k

\* A handoff that moves to its current name stays what it was.
LEMMA MoveEffect ==
  ASSUME TypeOK, MoveHandoff
  PROVE  /\ FilesOK'
         /\ \A k \in Folded : StandAlone(k)' = StandAlone(k)
  <1>1. PICK k \in Folded : k = IF step = 8 THEN "mock_rules" ELSE "mock_strategies"
    BY Kinds
  <1> DEFINE n == Existing(k)
  <1>2. file' = IF n \in {0, 1} THEN file ELSE [file EXCEPT ![k][1] = StandAlone(k), ![k][n] = None]
    BY <1>1 DEF MoveHandoff
  <1>3. CASE n \in {0, 1}
    BY <1>2, <1>3, SameView DEF TypeOK, FilesOK
  <1>4. CASE n \notin {0, 1}
    <2>1. n \in Names(k) /\ n # 1 /\ StandAlone(k) = file[k][n] /\ StandAlone(k) # None
      BY <1>1, <1>4, FirstName, Backing DEF Content
    <2>2. /\ DOMAIN file' = Folded /\ \A j \in Folded : j # k => file'[j] = file[j]
          /\ file'[k] = [[file[k] EXCEPT ![1] = StandAlone(k)] EXCEPT ![n] = None]
      BY <1>1, <1>2, <1>4 DEF TypeOK, FilesOK
    <2>3. file'[k] \in [Names(k) -> Int] /\ file'[k][1] = StandAlone(k)
      BY <1>1, <2>1, <2>2, NamesOf, ContentType DEF TypeOK, FilesOK, None
    <2>4. First(file', k) = 1
      BY <1>1, <2>1, <2>3, NamesOf, FirstName
    <2>5. StandAlone(k)' = StandAlone(k)
      BY <2>3, <2>4, Backing DEF Content
    <2>6. \A j \in Folded : j # k => StandAlone(j)' = StandAlone(j)
      BY <2>2, SameView
    <2>7. FilesOK'
      BY <2>2, <2>3 DEF TypeOK, FilesOK
    <2> QED BY <2>5, <2>6, <2>7
  <1> QED BY <1>3, <1>4

----
(* Types and turns *)

\* A run and a compaction take turns; a run records what it has completed; a compaction
\* holds nothing between runs, and what it holds of a parent is there.
Turns ==
  /\ pos > 0 => step = 0 /\ state["work"] = done
  /\ step = 0 => parents = NothingRead
  /\ \A p \in Parents :
       /\ parents[p] = Absent => doc[p] = Absent
       /\ Readable(parents[p]) => Readable(doc[p])
TypeInv == TypeOK /\ Turns

LEMMA TypesAtStart ==
  ASSUME Init
  PROVE  TypeInv
  <1>1. PICK old \in OlderStates :
           /\ \E applicable \in OlderFiles("applicable_failures", Map \in old),
                 rules \in OlderFiles("mock_rules", Mocks \in old),
                 strategies \in OlderFiles("mock_strategies", FALSE) \cup OlderFiles("mock_strategies", Mocks \in old),
                 plan \in OlderFiles("coverage_plan", Build \in old),
                 achieved \in OlderFiles("coverage", Build \in old) :
                file = [applicable_failures |-> applicable, mock_rules |-> rules,
                        mock_strategies |-> strategies, coverage_plan |-> plan, coverage |-> achieved]
           /\ doc = [agent_map |-> IF Discover \in old THEN NewDoc("agent_map") ELSE Absent,
                     dataset |-> IF Build \in old
                                 THEN [NewDoc("dataset") EXCEPT !["mock_rules"] = StandAlone("mock_rules")]
                                 ELSE Absent]
           /\ state = [work |-> NoState, root |-> IF old = {} THEN NoState ELSE old]
    BY DEF Init
  <1>2. \A k, w : \A f \in OlderFiles(k, w) : f \in [Names(k) -> Int] /\ \A n \in Names(k) : f[n] >= 0
    BY DEF OlderFiles, None, Oldest, Older
  <1>3. FilesOK
    <2>1. PICK applicable \in [Names("applicable_failures") -> Int], rules \in [Names("mock_rules") -> Int],
               strategies \in [Names("mock_strategies") -> Int], plan \in [Names("coverage_plan") -> Int],
               achieved \in [Names("coverage") -> Int] :
            file = [applicable_failures |-> applicable, mock_rules |-> rules,
                    mock_strategies |-> strategies, coverage_plan |-> plan, coverage |-> achieved]
      BY <1>1, <1>2
    <2>2. DOMAIN file = Folded
      BY <2>1, Kinds
    <2>3. ASSUME NEW k \in Folded  PROVE file[k] \in [Names(k) -> Int]
      BY <2>1, <2>3, Kinds
    <2> QED BY <2>2, <2>3 DEF FilesOK
  <1>4. \A p \in Parents : NewDoc(p) \in Docs(p)
    BY DEF NewDoc, Docs, None
  <1>5. StandAlone("mock_rules") \in Int /\ StandAlone("mock_rules") # Torn
    <2>1. \A n \in Names("mock_rules") : file["mock_rules"][n] >= 0
      BY <1>1, <1>2
    <2>2. StandAlone("mock_rules") >= 0
      BY <2>1, FirstName, Backing, Kinds DEF Content, None
    <2> QED BY <1>3, <2>2, ContentType, Kinds DEF Torn
  <1>6. DocsOK
    BY <1>1, <1>4, <1>5, Kinds DEF DocsOK, Docs
  <1>7. StateOK
    BY <1>1, LayoutAssumption DEF StateOK
  <1>8. RunOK /\ CompactOK
    <2>1. /\ pos = 0 /\ done = {} /\ runs = 0 /\ authored = StandAlone("mock_rules") /\ revived = FALSE
          /\ step = 0 /\ parents = NothingRead /\ before = NothingSeen
      BY DEF Init
    <2>2. RunOK
      <3>1. revived \in BOOLEAN
        BY <2>1
      <3>2. authored \in Int /\ authored # Torn
        BY <1>5, <2>1
      <3>3. pos \in 0..6 /\ done \subseteq Stages /\ runs \in Nat
        BY <2>1
      <3> QED BY <3>1, <3>2, <3>3 DEF RunOK
    <2>3. CompactOK
      BY <2>1 DEF CompactOK, NothingRead, NothingSeen, None
    <2> QED BY <2>2, <2>3
  <1>9. Turns
    BY Documents DEF Init, Turns, NothingRead
  <1> QED BY <1>3, <1>6, <1>7, <1>8, <1>9 DEF TypeInv, TypeOK

LEMMA TypesAfterRun ==
  ASSUME TypeInv, Start \/ StageCompletes \/ StageFails \/ Pass \/ RunDies
  PROVE  TypeInv'
  <1> USE DEF TypeInv, TypeOK, compactvars
  <1>0. /\ Version \in Int /\ Version # Torn /\ 0 \notin Stages
        /\ \A p \in Parents : NotRead # Absent /\ NothingRead[p] = NotRead /\ ~Readable(NothingRead[p])
    BY Documents DEF RunOK, Version, Older, Torn, Stages, NothingRead
  <1>1. CASE Start
    <2>1. done' \subseteq Stages
      BY <1>1 DEF Start, StateOK, NoState
    <2> QED BY <1>1, <2>1 DEF Start, FilesOK, DocsOK, StateOK, RunOK, CompactOK, Turns
  <1>2. CASE StageCompletes
    <2>1. pos \in Stages /\ step = 0 /\ parents = NothingRead
      BY <1>2 DEF StageCompletes, StageWrites, Turns, Stages
    <2>2. FilesOK' /\ DocsOK'
      BY <1>2, StageEffect DEF StageCompletes
    <2>3. done' \subseteq Stages /\ state' = [state EXCEPT !["work"] = done']
      BY <1>2, <2>1 DEF StageCompletes, RunOK
    <2>5. StateOK'
      BY <2>3 DEF StateOK
    <2>6. RunOK'
      BY <1>0, <1>2, <2>1, <2>3 DEF StageCompletes, RunOK, Stages
    <2>4. CompactOK' /\ Turns'
      BY <1>0, <1>2, <2>1 DEF StageCompletes, CompactOK, Turns, StateOK
    <2> QED BY <2>2, <2>4, <2>5, <2>6
  <1>3. CASE StageFails
    <2>1. pos \in Stages /\ step = 0 /\ parents = NothingRead
      BY <1>3 DEF StageFails, Turns, Stages
    <2>2. FilesOK' /\ DocsOK'
      <3>1. CASE MapWrites \/ MocksWrites
        BY <1>3, <3>1, StageEffect DEF StageWrites, StageFails
      <3>2. CASE UNCHANGED <<file, doc>>
        BY <3>2 DEF FilesOK, DocsOK
      <3> QED BY <1>3, <3>1, <3>2 DEF StageFails
    <2>3. StateOK' /\ RunOK' /\ CompactOK' /\ Turns'
      BY <1>0, <1>3, <2>1 DEF StageFails, StateOK, RunOK, CompactOK, Turns, Stages
    <2> QED BY <2>2, <2>3
  <1>4. CASE Pass
    <2>1. pos' \in 0..6 /\ step = 0
      BY <1>4 DEF Pass, RunOK, Turns, Review
    <2> QED BY <1>4, <2>1 DEF Pass, dirvars, FilesOK, DocsOK, StateOK, RunOK, CompactOK, Turns
  <1>5. CASE RunDies
    <2>1. step = 0 /\ parents = NothingRead
      BY <1>5 DEF RunDies, RunOK, Turns
    <2>2. FilesOK' /\ DocsOK'
      <3>1. CASE UNCHANGED <<file, doc>>
        BY <3>1 DEF FilesOK, DocsOK
      <3>2. CASE StageWrites
        BY <3>2, StageEffect
      <3>3. CASE \E p \in Parents : Writes(p, TornDoc) /\ UNCHANGED file
        BY <3>3 DEF Writes, FilesOK, DocsOK
      <3>4. CASE file' = [file EXCEPT !["mock_rules"][1] = Torn] /\ UNCHANGED doc
        <4>1. DOMAIN file' = Folded /\ \A j \in Folded : j # "mock_rules" => file'[j] = file[j]
          BY <3>4 DEF FilesOK
        <4>2. file'["mock_rules"] = [file["mock_rules"] EXCEPT ![1] = Torn]
          BY <3>4, Kinds DEF FilesOK
        <4>3. 1 \in Names("mock_rules") /\ Torn \in Int
          BY NamesOf, Kinds DEF Torn
        <4> QED BY <3>4, <4>1, <4>2, <4>3 DEF FilesOK, DocsOK
      <3> QED BY <1>5, <3>1, <3>2, <3>3, <3>4, Kinds DEF RunDies
    <2>3. StateOK' /\ RunOK' /\ CompactOK' /\ Turns'
      BY <1>0, <1>5, <2>1 DEF RunDies, StateOK, RunOK, CompactOK, Turns, NothingRead
    <2> QED BY <2>2, <2>3
  <1> QED BY <1>1, <1>2, <1>3, <1>4, <1>5

LEMMA TypesAfterCompact ==
  ASSUME TypeInv,
         CompactStarts \/ FoldKind \/ WriteParent \/ MoveHandoff \/ CompactFinishes
           \/ CompactRaises \/ CompactDies \/ DeleteWork
  PROVE  TypeInv'
  <1> USE DEF TypeInv, TypeOK, runvars
  <1>0. /\ NothingRead \in [Parents -> {NotRead}] /\ NothingSeen \in [Folded -> Int]
        /\ NotRead # Absent /\ \A p \in Parents : NothingRead[p] = NotRead /\ ~Readable(NothingRead[p])
    BY Documents DEF NothingRead, NothingSeen, None
  <1>1. CASE CompactStarts
    <2>1. before' \in [Folded -> Int]
      BY <1>1, SeenType DEF CompactStarts
    <2> QED BY <1>1, <2>1 DEF CompactStarts, dirvars, FilesOK, DocsOK, StateOK, RunOK, CompactOK, Turns
  <1>2. CASE FoldKind
    <2>1. PICK k \in Folded : k = FoldOrder[step] /\ Folds(k) /\ FilesOK'
      BY <1>2, FoldEffect
    <2> DEFINE p == FoldedInto(k)
    <2>2. p \in Parents /\ DOMAIN parents = Parents
      BY Kinds DEF CompactOK
    <2>3. \/ UNCHANGED parents
          \/ /\ parents' = [parents EXCEPT ![p] = Absent]
             /\ doc[p] = Absent
          \/ \E d \in Docs(p) : parents' = [parents EXCEPT ![p] = d] /\ Readable(doc[p])
      <3>1. ParentOf(k) \in Docs(p) => Readable(doc[p])
        BY <2>2, Documents DEF ParentOf, Turns
      <3> QED BY <2>1, <2>2, <3>1, SetPathEffect DEF Folds, ParentOf, Turns
    <2>4. (\A q \in Parents : \A d \in Docs(q) : d # Absent) /\ ~Readable(Absent)
      BY Documents
    <2>5. /\ DOMAIN parents' = Parents
          /\ \A q \in Parents : parents'[q] \in Docs(q) \cup {Absent, NotRead}
      BY <2>2, <2>3 DEF CompactOK
    <2>6. \A q \in Parents :
            /\ parents'[q] = Absent => doc[q] = Absent
            /\ Readable(parents'[q]) => Readable(doc[q])
      BY <2>2, <2>3, <2>4 DEF Turns
    <2>7. pos' = 0 /\ step' \in 2..6 /\ UNCHANGED <<doc, state, before, pos, done, runs, authored, revived>>
      BY <1>2 DEF FoldKind, Folding, Turns, RunOK
    <2> QED BY <2>1, <2>5, <2>6, <2>7 DEF DocsOK, StateOK, RunOK, CompactOK, Turns
  <1>3. CASE WriteParent
    <2>1. PICK p \in Parents : IF Readable(parents[p]) THEN Writes(p, parents[p]) ELSE UNCHANGED doc
      BY <1>3, Kinds DEF WriteParent
    <2>2. Readable(parents[p]) => parents[p] \in Docs(p) /\ parents[p] # Absent
      BY <2>1, Documents DEF CompactOK
    <2>3. DocsOK' /\ Turns'
      BY <1>3, <2>1, <2>2 DEF WriteParent, Writes, DocsOK, Turns, WriteMap, WriteDataset, RunOK
    <2> QED BY <1>3, <2>3 DEF WriteParent, FilesOK, StateOK, RunOK, CompactOK, WriteMap, WriteDataset
  <1>4. CASE MoveHandoff
    <2>1. FilesOK'
      BY <1>4, MoveEffect
    <2> QED BY <1>4, <2>1 DEF MoveHandoff, Moving, DocsOK, StateOK, RunOK, CompactOK, Turns
  <1>5. CASE CompactFinishes \/ CompactRaises \/ CompactDies
    <2>1. UNCHANGED file /\ step' = 0 /\ parents' = NothingRead /\ before' = NothingSeen
          /\ UNCHANGED <<pos, done, runs, authored, revived>> /\ pos = 0
      BY <1>5 DEF CompactFinishes, CompactRaises, CompactDies, CompactEnds, dirvars, Turns, RunOK,
                  MoveState, Folding
    <2>2. DocsOK'
      BY <1>5, Kinds DEF CompactFinishes, CompactRaises, CompactDies, dirvars, DocsOK, Writes
    <2>3. StateOK'
      BY <1>5 DEF CompactFinishes, CompactRaises, CompactDies, dirvars, StateOK
    <2> QED BY <1>0, <2>1, <2>2, <2>3 DEF FilesOK, RunOK, CompactOK, Turns
  <1>6. CASE DeleteWork
    <2>1. FilesOK'
      BY <1>6, NamesOf DEF DeleteWork, FilesOK, None
    <2> QED BY <1>6, <2>1 DEF DeleteWork, compactvars, DocsOK, StateOK, RunOK, CompactOK, Turns
  <1> QED BY <1>1, <1>2, <1>3, <1>4, <1>5, <1>6

LEMMA TypeStep ==
  ASSUME TypeInv, [Next]_vars
  PROVE  TypeInv'
  <1>1. CASE UNCHANGED vars
    BY <1>1 DEF vars, TypeInv, TypeOK, FilesOK, DocsOK, StateOK, RunOK, CompactOK, Turns
  <1> QED BY <1>1, TypesAfterRun, TypesAfterCompact DEF Next

----
(* The handoffs: what the mocks stage authored, and the dataset's copy of it *)

\* The completed stages that the next run, or the next compaction, goes by.
Standing == IF state["work"] # NoState THEN state["work"] ELSE state["root"]
Closed(S) == \A s \in Stages \cap S : Deps[s] \subseteq S
StagesClosed == Closed(state["work"]) /\ Closed(state["root"])

\* Once the mocks stage stands, the rules at hand are those it authored; once the dataset
\* stands, so are the rules of the dataset and of the copy that a compaction holds.
RulesStand == Mocks \in Standing /\ ~revived => StandAlone("mock_rules") = authored
RulesBuilt ==
  Build \in Standing /\ ~revived =>
    \A d \in {doc["dataset"], parents["dataset"]} : Readable(d) => d["mock_rules"] = authored

\* The strategies of the dataset are those at hand, or it has none and a compaction is
\* about to fold in what an older version left.
StrategiesWhole == \A n \in Names("mock_strategies") : file["mock_strategies"][n] # Torn
NotYetFolded ==
  /\ doc["dataset"]["mock_strategies"] = None
  /\ file["mock_strategies"][1] = None /\ file["mock_strategies"][2] # None
  /\ step < 8 /\ (step > 3 => Readable(parents["dataset"]))
StrategiesBuilt ==
  Build \in Standing /\ ~revived /\ Readable(doc["dataset"]) =>
    /\ doc["dataset"]["mock_strategies"] = StandAlone("mock_strategies") \/ NotYetFolded
    /\ Readable(parents["dataset"]) =>
         parents["dataset"]["mock_strategies"] =
           IF step > 3 THEN StandAlone("mock_strategies") ELSE doc["dataset"]["mock_strategies"]

HandoffInv == StagesClosed /\ RulesStand /\ RulesBuilt /\ StrategiesWhole /\ StrategiesBuilt

LEMMA ClosedIs ==
  ASSUME NEW S
  PROVE  /\ Closed(S) <=> /\ Map \in S => Discover \in S
                          /\ Mocks \in S => Discover \in S
                          /\ Build \in S => Map \in S /\ Mocks \in S
                          /\ Review \in S => Build \in S
         /\ Deps[Discover] = {} /\ Deps[Map] = {Discover} /\ Deps[Mocks] = {Discover}
         /\ Deps[Build] = {Map, Mocks} /\ Deps[Review] = {Build}
  BY DEF Closed, Stages, Deps, Discover, Map, Mocks, Build, Review

LEMMA RunStands ==
  ASSUME TypeInv
  PROVE  /\ pos > 0 => Standing = done /\ step = 0 /\ parents["dataset"] = NotRead
         /\ \A S \in SUBSET Stages : S # NoState
         /\ StrategiesWhole => StandAlone("mock_strategies") # Torn
  <1>1. \A S \in SUBSET Stages : S # NoState
    BY DEF Stages, NoState
  <1>2. "mock_strategies" \in Folded /\ "dataset" \in Parents
    BY Kinds
  <1>3. pos > 0 => Standing = done /\ step = 0 /\ parents["dataset"] = NotRead
    BY <1>1, <1>2 DEF TypeInv, TypeOK, Turns, RunOK, Standing, NothingRead
  <1>4. StrategiesWhole => StandAlone("mock_strategies") # Torn
    BY <1>2, FirstName, Backing DEF StrategiesWhole, Content, None, Torn
  <1> QED BY <1>1, <1>3, <1>4

\* A stage that does not stand yet touches nothing that a standing one left.
LEMMA StandingIsKept ==
  ASSUME TypeInv, StageCompletes \/ StageFails \/ RunDies
  PROVE  /\ pos > 0
         /\ Mocks \in done => UNCHANGED file
         /\ Build \in done /\ Readable(doc'["dataset"]) =>
              /\ Readable(doc["dataset"])
              /\ \A k \in Handoff : doc'["dataset"][k] = doc["dataset"][k]
         /\ StrategiesWhole => StrategiesWhole'
  <1> DEFINE Kept ==
         /\ Mocks \in done => UNCHANGED file
         /\ Build \in done /\ Readable(doc'["dataset"]) =>
              /\ Readable(doc["dataset"])
              /\ \A k \in Handoff : doc'["dataset"][k] = doc["dataset"][k]
         /\ StrategiesWhole => StrategiesWhole'
  <1> USE DEF TypeInv
  <1>1. ASSUME StageWrites
        PROVE  Kept
    <2>1. pos \notin done
      BY <1>1 DEF StageWrites
    <2>2. ASSUME StrategiesWhole  PROVE StrategiesWhole'
      <3>1. CASE UNCHANGED file
        BY <2>2, <3>1 DEF StrategiesWhole
      <3>2. CASE pos = Mocks
        <4>1. MocksWrites
          BY <1>1, <3>2 DEF StageWrites, DiscoverWrites, MapWrites, BuildWrites, ReviewWrites,
                            Discover, Map, Mocks, Build, Review
        <4>2. "mock_strategies" \in Folded /\ Version # Torn
          BY Kinds DEF TypeOK, RunOK, Version, Older, Torn
        <4>3. \A n \in Names("mock_strategies") :
                file'["mock_strategies"][n] \in {file["mock_strategies"][n], Version}
          BY <4>1, <4>2 DEF MocksWrites, WritesWork, TypeOK, FilesOK
        <4> QED BY <2>2, <4>2, <4>3 DEF StrategiesWhole
      <3> QED BY <1>1, <3>1, <3>2, StageEffect
    <2> QED BY <1>1, <2>1, <2>2, StageEffect
  <1>2. ASSUME UNCHANGED <<file, doc>>
        PROVE  Kept
    BY <1>2 DEF StrategiesWhole
  <1>3. ASSUME Writes("agent_map", TornDoc) /\ UNCHANGED file
        PROVE  Kept
    BY <1>3, Kinds DEF Writes, StrategiesWhole, TypeOK, DocsOK
  <1>4. ASSUME Writes("dataset", TornDoc) /\ UNCHANGED file
        PROVE  Kept
    BY <1>4, Kinds, Documents DEF Writes, StrategiesWhole, TypeOK, DocsOK
  <1>5. ASSUME pos = Mocks /\ pos \notin done /\ file' = [file EXCEPT !["mock_rules"][1] = Torn] /\ UNCHANGED doc
        PROVE  Kept
    BY <1>5 DEF StrategiesWhole, TypeOK, FilesOK
  <1>6. Kept /\ pos > 0
    <2>1. CASE StageCompletes
      BY <1>1, <2>1 DEF StageCompletes, StageWrites, Stages
    <2>2. CASE StageFails
      BY <1>1, <1>2, <2>2 DEF StageFails, StageWrites, Stages
    <2>3. CASE RunDies
      BY <1>1, <1>2, <1>3, <1>4, <1>5, <2>3 DEF RunDies
    <2> QED BY <2>1, <2>2, <2>3
  <1> QED BY <1>6

\* While fewer stages stand and nothing else changes, what was said of them still holds.
LEMMA FewerStand ==
  ASSUME HandoffInv, Standing' \subseteq Standing, StagesClosed',
         UNCHANGED <<file, doc, parents, step, authored, revived>>
  PROVE  HandoffInv'
  <1>1. StandAlone("mock_rules")' = StandAlone("mock_rules")
        /\ StandAlone("mock_strategies")' = StandAlone("mock_strategies")
    BY SameView
  <1> QED BY <1>1 DEF HandoffInv, RulesStand, RulesBuilt, StrategiesWhole, NotYetFolded, StrategiesBuilt

LEMMA HandoffsAfterRun ==
  ASSUME TypeInv, HandoffInv, Start \/ StageCompletes \/ StageFails \/ Pass \/ RunDies
  PROVE  HandoffInv'
  <1>1. CASE Start
    <2>1. done' \subseteq Stages /\ state'["work"] = done'
          /\ done' \subseteq state["work"] /\ (state["work"] = NoState => done' = {})
      BY <1>1 DEF Start, TypeInv, TypeOK, StateOK, NoState
    <2>2. Standing' = done' /\ Standing' \subseteq Standing
      BY <2>1, RunStands DEF Standing
    <2>3. Closed(done')
      <3>1. PICK from \in 1..6 : done' = {s \in state["work"] \ NoState : s < from}
        BY <1>1 DEF Start, Stages, Review
      <3>2. Closed(state["work"]) /\ NoState = {0}
        BY DEF HandoffInv, StagesClosed, NoState
      <3> QED BY <3>1, <3>2, ClosedIs DEF Discover, Map, Mocks, Build, Review
    <2>4. StagesClosed'
      BY <1>1, <2>1, <2>3 DEF Start, TypeInv, TypeOK, StateOK, HandoffInv, StagesClosed
    <2> QED BY <1>1, <2>2, <2>4, FewerStand DEF Start, compactvars
  <1>2. CASE Pass
    BY <1>2, FewerStand DEF Pass, dirvars, compactvars, HandoffInv, StagesClosed, Standing
  <1>3. CASE StageCompletes \/ StageFails \/ RunDies
    <2>1. /\ pos > 0 /\ Standing = done /\ step = 0 /\ step' = 0 /\ UNCHANGED <<parents, revived>>
          /\ parents["dataset"] = NotRead /\ ~Readable(NotRead)
      BY <1>3, StandingIsKept, RunStands, Documents DEF StageCompletes, StageFails, RunDies, compactvars
    <2>2. Closed(done) /\ StrategiesWhole /\ StrategiesWhole'
      BY <1>3, <2>1, StandingIsKept DEF HandoffInv, StagesClosed, TypeInv, Turns
    <2>3. CASE StageFails \/ RunDies
      <3>1. UNCHANGED <<state, done, authored>> /\ Standing' = Standing /\ StagesClosed'
        BY <2>3 DEF StageFails, RunDies, Standing, HandoffInv, StagesClosed
      <3>2. Mocks \in done => StandAlone("mock_rules")' = StandAlone("mock_rules")
                              /\ StandAlone("mock_strategies")' = StandAlone("mock_strategies")
        BY <1>3, StandingIsKept, SameView
      <3>3. RulesStand'
        BY <2>1, <3>1, <3>2 DEF HandoffInv, RulesStand
      <3>4. RulesBuilt'
        BY <1>3, <2>1, <3>1, StandingIsKept DEF HandoffInv, RulesBuilt, Handoff
      <3>5. StrategiesBuilt'
        BY <1>3, <2>1, <2>2, <3>1, <3>2, StandingIsKept, ClosedIs
        DEF HandoffInv, StrategiesBuilt, NotYetFolded, Handoff
      <3> QED BY <2>2, <3>1, <3>3, <3>4, <3>5 DEF HandoffInv
    <2>4. CASE StageCompletes
      <3>1. /\ pos \in Stages \ done /\ Deps[pos] \subseteq done
            /\ done' = done \cup {pos} /\ state'["work"] = done' /\ state'["root"] = state["root"]
            /\ authored' = IF pos = Mocks THEN Version ELSE authored
        BY <2>4 DEF StageCompletes, StageWrites, TypeInv, TypeOK, StateOK
      <3>2. done' \subseteq Stages /\ Standing' = done'
        BY <3>1, RunStands DEF TypeInv, TypeOK, RunOK, Standing
      <3>3. StagesClosed'
        BY <2>2, <3>1, <3>2, ClosedIs DEF HandoffInv, StagesClosed, Stages, Discover, Map, Mocks, Build, Review
      <3>4. StageWrites
        BY <2>4 DEF StageCompletes
      <3>5. CASE pos = Mocks
        <4>1. Build \notin done' /\ StandAlone("mock_rules")' = Version /\ authored' = Version
          BY <2>2, <3>1, <3>4, <3>5, ClosedIs, StageEffect DEF TypeInv, Mocks, Build
        <4> QED BY <2>2, <3>2, <3>3, <4>1 DEF HandoffInv, RulesStand, RulesBuilt, StrategiesBuilt
      <3>6. CASE pos = Build
        <4>1. Mocks \in done /\ UNCHANGED <<file, authored>>
              /\ \A k \in Handoff : doc'["dataset"][k] = StandAlone(k)
          BY <3>1, <3>4, <3>6, ClosedIs, StageEffect DEF TypeInv, Mocks, Build
        <4>2. StandAlone("mock_rules")' = StandAlone("mock_rules")
              /\ StandAlone("mock_strategies")' = StandAlone("mock_strategies")
          BY <4>1, SameView
        <4>3. ~revived => StandAlone("mock_rules") = authored
          BY <2>1, <4>1 DEF HandoffInv, RulesStand
        <4> QED BY <2>1, <2>2, <3>3, <4>1, <4>2, <4>3
                DEF HandoffInv, RulesStand, RulesBuilt, StrategiesBuilt, Handoff
      <3>7. CASE pos \notin {Mocks, Build}
        <4>1. /\ Mocks \in Standing' <=> Mocks \in done
              /\ Build \in Standing' <=> Build \in done
              /\ UNCHANGED <<file, authored>>
          BY <3>1, <3>2, <3>4, <3>7, StageEffect DEF TypeInv
        <4>2. StandAlone("mock_rules")' = StandAlone("mock_rules")
              /\ StandAlone("mock_strategies")' = StandAlone("mock_strategies")
          BY <4>1, SameView
        <4>3. RulesStand'
          BY <2>1, <4>1, <4>2 DEF HandoffInv, RulesStand
        <4>4. RulesBuilt'
          BY <1>3, <2>1, <4>1, StandingIsKept DEF HandoffInv, RulesBuilt, Handoff
        <4>5. StrategiesBuilt'
          BY <1>3, <2>1, <4>1, <4>2, StandingIsKept DEF HandoffInv, StrategiesBuilt, NotYetFolded, Handoff
        <4> QED BY <2>2, <3>3, <4>3, <4>4, <4>5 DEF HandoffInv
      <3> QED BY <3>5, <3>6, <3>7
    <2> QED BY <1>3, <2>3, <2>4
  <1> QED BY <1>1, <1>2, <1>3

LEMMA HandoffsAtStart ==
  ASSUME Init
  PROVE  HandoffInv
  <1>0. PICK old \in OlderStates :
           /\ \E applicable \in OlderFiles("applicable_failures", Map \in old),
                 rules \in OlderFiles("mock_rules", Mocks \in old),
                 strategies \in OlderFiles("mock_strategies", FALSE) \cup OlderFiles("mock_strategies", Mocks \in old),
                 plan \in OlderFiles("coverage_plan", Build \in old),
                 achieved \in OlderFiles("coverage", Build \in old) :
                file = [applicable_failures |-> applicable, mock_rules |-> rules,
                        mock_strategies |-> strategies, coverage_plan |-> plan, coverage |-> achieved]
           /\ doc = [agent_map |-> IF Discover \in old THEN NewDoc("agent_map") ELSE Absent,
                     dataset |-> IF Build \in old
                                 THEN [NewDoc("dataset") EXCEPT !["mock_rules"] = StandAlone("mock_rules")]
                                 ELSE Absent]
           /\ state = [work |-> NoState, root |-> IF old = {} THEN NoState ELSE old]
    BY DEF Init
  <1>1. /\ file["mock_strategies"] \in OlderFiles("mock_strategies", FALSE)
                                         \cup OlderFiles("mock_strategies", Mocks \in old)
        /\ doc["dataset"] = IF Build \in old
                            THEN [NewDoc("dataset") EXCEPT !["mock_rules"] = StandAlone("mock_rules")]
                            ELSE Absent
        /\ state = [work |-> NoState, root |-> IF old = {} THEN NoState ELSE old]
    <2>1. file["mock_strategies"] \in OlderFiles("mock_strategies", FALSE)
                                        \cup OlderFiles("mock_strategies", Mocks \in old)
      <3> DEFINE Left == OlderFiles("mock_strategies", FALSE) \cup OlderFiles("mock_strategies", Mocks \in old)
      <3> HIDE DEF Left
      <3>1. \E applicable, rules, strategies, plan, achieved :
              /\ strategies \in Left
              /\ file = [applicable_failures |-> applicable, mock_rules |-> rules,
                         mock_strategies |-> strategies, coverage_plan |-> plan, coverage |-> achieved]
        BY <1>0 DEF Left
      <3>2. file["mock_strategies"] \in Left
        BY <3>1
      <3> QED BY <3>2 DEF Left
    <2>2. doc["dataset"] = IF Build \in old
                           THEN [NewDoc("dataset") EXCEPT !["mock_rules"] = StandAlone("mock_rules")]
                           ELSE Absent
      BY <1>0
    <2> QED BY <1>0, <2>1, <2>2
  <1>2. authored = StandAlone("mock_rules") /\ parents["dataset"] = NotRead /\ step = 0
    BY Kinds DEF Init, NothingRead
  <1>3. /\ \A n \in Names("mock_strategies") : file["mock_strategies"][n] \in {None, Oldest, Older}
        /\ file["mock_strategies"][1] = None
    BY <1>1, NamesOf, Kinds DEF OlderFiles, Handoff
  <1>4. StrategiesWhole
    BY <1>3 DEF StrategiesWhole, None, Oldest, Older, Torn
  <1>5. StagesClosed
    <2>1. old \in SUBSET Stages /\ Closed(old)
      BY LayoutAssumption, ClosedIs DEF Closed
    <2>2. Closed(NoState)
      BY DEF Closed, NoState, Stages
    <2> QED BY <1>1, <2>1, <2>2 DEF StagesClosed
  <1>6. ~Readable(NotRead) /\ ~Readable(Absent)
    BY Documents
  <1>7. Readable(doc["dataset"]) =>
          /\ doc["dataset"]["mock_rules"] = authored
          /\ doc["dataset"]["mock_strategies"] = None
    BY <1>1, <1>2, <1>6, Kinds DEF NewDoc, Handoff
  <1>8. StandAlone("mock_strategies") = None \/ file["mock_strategies"][2] # None
    <2>1. "mock_strategies" \in Folded /\ Names("mock_strategies") = {1, 2}
      BY Kinds DEF Names
    <2>2. First(file, "mock_strategies") \in {0, 2}
      BY <1>3, <2>1, FirstName
    <2> QED BY <2>1, <2>2, FirstName, Backing DEF Content
  <1> QED BY <1>2, <1>3, <1>4, <1>5, <1>6, <1>7, <1>8
          DEF HandoffInv, RulesStand, RulesBuilt, StrategiesBuilt, NotYetFolded

\* A compaction ends, or begins, without a word about the directory: what was said of it
\* still holds, the more so as nothing is held in memory any more.
LEMMA DirectoryStays ==
  ASSUME TypeInv, HandoffInv, UNCHANGED <<file, authored, revived>>,
         Standing' = Standing, StagesClosed', parents' = NothingRead,
         step' \in {0, 1}, doc'["dataset"] \in {doc["dataset"], TornDoc}
  PROVE  HandoffInv'
  <1>1. StandAlone("mock_rules")' = StandAlone("mock_rules")
        /\ StandAlone("mock_strategies")' = StandAlone("mock_strategies")
    BY SameView
  <1>2. parents'["dataset"] = NotRead /\ ~Readable(NotRead) /\ ~Readable(TornDoc)
    BY Documents, Kinds DEF NothingRead
  <1>3. StrategiesBuilt'
    BY <1>1, <1>2 DEF HandoffInv, StrategiesBuilt, NotYetFolded
  <1> QED BY <1>1, <1>2, <1>3 DEF HandoffInv, RulesStand, RulesBuilt, StrategiesWhole

LEMMA HandoffsAfterFold ==
  ASSUME TypeInv, HandoffInv, FoldKind
  PROVE  HandoffInv'
  <1>1. PICK k \in Folded :
          /\ k = FoldOrder[step] /\ Folds(k)
          /\ FilesOK' /\ \A j \in Folded : j # k \/ k \in Handoff => file'[j] = file[j]
    BY FoldEffect DEF TypeInv
  <1>2. /\ UNCHANGED <<doc, state, authored, revived>> /\ step \in 1..5 /\ step' = step + 1
        /\ Standing' = Standing
    BY DEF FoldKind, Folding, runvars, Standing
  <1>3. "mock_rules" \in Handoff /\ "mock_strategies" \in Handoff
    BY DEF Handoff
  <1>4. \A j \in Handoff : file'[j] = file[j]
    BY <1>1, Kinds
  <1>5. StandAlone("mock_rules")' = StandAlone("mock_rules")
        /\ StandAlone("mock_strategies")' = StandAlone("mock_strategies")
    BY <1>3, <1>4, SameView
  <1>6. k = "mock_strategies" <=> step = 3
    BY <1>1, <1>2, Order
  <1>7. Build \in Standing => Mocks \in Standing
    BY ClosedIs DEF HandoffInv, StagesClosed, Standing
  <1> DEFINE held == parents["dataset"]
  <1>8. \/ held' = held /\ (k = "mock_strategies" => Existing(k) = 0)
        \/ held' = Absent /\ ParentOf(k) = Absent /\ FoldedInto(k) = "dataset"
        \/ /\ FoldedInto(k) = "dataset" /\ ParentOf(k) \in Docs("dataset")
           /\ held' = SetPath(ParentOf(k), k)
    BY <1>1, Kinds DEF Folds, TypeInv, TypeOK, CompactOK
  <1>9. FoldedInto(k) = "dataset" /\ Readable(ParentOf(k)) =>
          /\ ParentOf(k) \in {doc["dataset"], held} /\ Readable(doc["dataset"])
          /\ Readable(held) => ParentOf(k) = held
    BY Documents, Kinds DEF ParentOf, TypeInv, Turns
  <1>10. ~Readable(Absent) /\ (\A d \in Docs("dataset") : Readable(d))
         /\ "mock_rules" \in FoldedIn("dataset") /\ "mock_strategies" \in FoldedIn("dataset")
    BY Documents, Kinds DEF Handoff
  <1>11. FilesOK
    BY DEF TypeInv, TypeOK
  <1>12. RulesBuilt'
    <2>1. ASSUME Build \in Standing, ~revived, Readable(held')
          PROVE  held'["mock_rules"] = authored
      <3>1. CASE held' = held
        BY <2>1, <3>1 DEF HandoffInv, RulesBuilt
      <3>2. CASE FoldedInto(k) = "dataset" /\ ParentOf(k) \in Docs("dataset") /\ held' = SetPath(ParentOf(k), k)
        <4>1. ParentOf(k)["mock_rules"] = authored
          BY <1>9, <1>10, <2>1, <3>2 DEF HandoffInv, RulesBuilt
        <4>2. StandAlone("mock_rules") = authored
          BY <1>7, <2>1 DEF HandoffInv, RulesStand
        <4> QED BY <1>10, <1>11, <3>2, <4>1, <4>2, SetPathEffect
      <3> QED BY <1>8, <1>10, <2>1, <3>1, <3>2
    <2> QED BY <1>2, <2>1 DEF HandoffInv, RulesBuilt
  <1>13. StrategiesBuilt'
    <2> SUFFICES ASSUME Build \in Standing, ~revived, Readable(doc["dataset"])
                 PROVE  /\ doc["dataset"]["mock_strategies"] = StandAlone("mock_strategies") \/ NotYetFolded'
                        /\ Readable(held') =>
                             held'["mock_strategies"] =
                               IF step' > 3 THEN StandAlone("mock_strategies") ELSE doc["dataset"]["mock_strategies"]
      BY <1>2, <1>5 DEF StrategiesBuilt
    <2> DEFINE given == doc["dataset"]["mock_strategies"]
               mine == StandAlone("mock_strategies")
    <2>1. /\ given = mine \/ NotYetFolded
          /\ Readable(held) => held["mock_strategies"] = IF step > 3 THEN mine ELSE given
      BY DEF HandoffInv, StrategiesBuilt
    <2>2. NotYetFolded /\ (step' > 3 => Readable(held')) => NotYetFolded'
      BY <1>2, <1>3, <1>4 DEF NotYetFolded
    <2>3. CASE held' = held /\ (k = "mock_strategies" => Existing(k) = 0)
      <3>1. k = "mock_strategies" => mine = None /\ ~NotYetFolded
        BY <1>11, <2>3, ContentType, FirstName, Backing, NamesOf, Kinds DEF NotYetFolded, Names
      <3>2. step = 3 => given = mine
        BY <1>6, <2>1, <3>1
      <3>3. step > 3 => (NotYetFolded => Readable(held'))
        BY <2>3 DEF NotYetFolded
      <3>4. given = mine \/ NotYetFolded'
        BY <1>2, <2>1, <2>2, <3>2, <3>3
      <3> QED BY <1>2, <2>1, <2>3, <3>2, <3>4
    <2>4. CASE held' = Absent /\ ParentOf(k) = Absent /\ FoldedInto(k) = "dataset"
      BY <1>10, <2>4, Documents, Kinds DEF ParentOf, TypeInv, Turns
    <2>5. CASE FoldedInto(k) = "dataset" /\ ParentOf(k) \in Docs("dataset") /\ held' = SetPath(ParentOf(k), k)
      <3>1. Readable(held') /\ ParentOf(k) = (IF Readable(held) THEN held ELSE doc["dataset"])
        BY <1>9, <1>10, <1>11, <2>5, SetPathEffect, Documents, Kinds DEF ParentOf, TypeInv, TypeOK, CompactOK
      <3>2. given = mine \/ NotYetFolded'
        BY <2>1, <2>2, <3>1
      <3>3. ParentOf(k)["mock_strategies"] = IF step > 3 THEN mine ELSE given
        BY <2>1, <3>1 DEF NotYetFolded
      <3>4. CASE step = 3
        <4>1. held'["mock_strategies"] = IF given = None THEN mine ELSE given
          BY <1>6, <1>11, <2>5, <3>3, <3>4, SetPathEffect
        <4>2. given = None \/ given = mine
          BY <2>1 DEF NotYetFolded
        <4> QED BY <1>2, <3>2, <3>4, <4>1, <4>2
      <3>5. CASE step # 3
        <4>1. held'["mock_strategies"] = ParentOf(k)["mock_strategies"]
          BY <1>6, <1>10, <1>11, <2>5, <3>5, SetPathEffect
        <4> QED BY <1>2, <3>2, <3>3, <3>5, <4>1
      <3> QED BY <3>4, <3>5
    <2> QED BY <1>8, <2>3, <2>4, <2>5
  <1> QED BY <1>2, <1>3, <1>4, <1>5, <1>12, <1>13 DEF HandoffInv, StagesClosed, RulesStand, StrategiesWhole

LEMMA HandoffsAfterCompact ==
  ASSUME TypeInv, HandoffInv,
         CompactStarts \/ WriteParent \/ MoveHandoff \/ CompactFinishes \/ CompactRaises \/ CompactDies \/ DeleteWork
  PROVE  HandoffInv'
  <1>0. /\ ~Readable(TornDoc) /\ ~Readable(NotRead) /\ "dataset" \in Parents /\ "agent_map" \in Parents
        /\ "mock_rules" \in Folded /\ "mock_strategies" \in Folded
    BY Documents, Kinds
  <1>1. CASE CompactStarts
    BY <1>1, DirectoryStays DEF CompactStarts, dirvars, runvars, TypeInv, Turns, HandoffInv, StagesClosed, Standing
  <1>2. CASE WriteParent
    <2>1. /\ UNCHANGED <<file, state, parents, authored, revived>> /\ step' = step + 1 /\ step \in {6, 7}
          /\ Standing' = Standing
      BY <1>2 DEF WriteParent, runvars, Standing, WriteMap, WriteDataset
    <2>2. /\ step = 6 => doc'["dataset"] = doc["dataset"]
          /\ step = 7 => doc'["dataset"] = IF Readable(parents["dataset"]) THEN parents["dataset"] ELSE doc["dataset"]
      BY <1>0, <1>2, <2>1 DEF WriteParent, Writes, WriteMap, WriteDataset, TypeInv, TypeOK, DocsOK
    <2>3. StandAlone("mock_rules")' = StandAlone("mock_rules")
          /\ StandAlone("mock_strategies")' = StandAlone("mock_strategies")
      BY <2>1, SameView
    <2>4. Readable(parents["dataset"]) => Readable(doc["dataset"])
      BY <1>0 DEF TypeInv, Turns
    <2>5. RulesBuilt'
      BY <2>1, <2>2 DEF HandoffInv, RulesBuilt
    <2>6. StrategiesBuilt'
      <3>1. CASE step = 6
        BY <2>1, <2>2, <2>3, <3>1 DEF HandoffInv, StrategiesBuilt, NotYetFolded
      <3>2. CASE step = 7
        BY <2>1, <2>2, <2>3, <2>4, <3>2 DEF HandoffInv, StrategiesBuilt, NotYetFolded
      <3> QED BY <2>1, <3>1, <3>2
    <2> QED BY <2>1, <2>3, <2>5, <2>6 DEF HandoffInv, StagesClosed, RulesStand, StrategiesWhole
  <1>3. CASE MoveHandoff
    <2>1. /\ UNCHANGED <<doc, state, parents, authored, revived>> /\ step \in 8..9 /\ step' = step + 1
          /\ Standing' = Standing
      BY <1>3 DEF MoveHandoff, Moving, runvars, Standing
    <2>2. /\ StandAlone("mock_rules")' = StandAlone("mock_rules")
          /\ StandAlone("mock_strategies")' = StandAlone("mock_strategies")
      BY <1>0, <1>3, MoveEffect DEF TypeInv
    <2>3. StrategiesWhole'
      <3>1. \A n \in Names("mock_strategies") : file'["mock_strategies"][n] \in
              {file["mock_strategies"][n], StandAlone("mock_strategies"), None}
        BY <1>0, <1>3 DEF MoveHandoff, TypeInv, TypeOK, FilesOK
      <3>2. StandAlone("mock_strategies") # Torn
        BY RunStands DEF HandoffInv
      <3> QED BY <3>1, <3>2 DEF HandoffInv, StrategiesWhole, None, Torn
    <2>4. StrategiesBuilt'
      BY <2>1, <2>2 DEF HandoffInv, StrategiesBuilt, NotYetFolded
    <2> QED BY <2>1, <2>2, <2>3, <2>4 DEF HandoffInv, StagesClosed, RulesStand, RulesBuilt
  <1>4. CASE CompactFinishes
    <2>1. UNCHANGED <<file, doc, authored, revived>> /\ step = 10 /\ step' = 0 /\ parents' = NothingRead
      BY <1>4 DEF CompactFinishes, CompactEnds, MoveState, runvars
    <2>2. Standing' = Standing /\ StagesClosed'
      <3>1. CASE state["work"] # NoState
        BY <1>4, <3>1 DEF CompactFinishes, Standing, HandoffInv, StagesClosed
      <3>2. CASE state["work"] = NoState
        BY <1>4, <3>2 DEF CompactFinishes, Standing, HandoffInv, StagesClosed
      <3> QED BY <3>1, <3>2
    <2> QED BY <2>1, <2>2, DirectoryStays
  <1>5. CASE CompactRaises
    BY <1>5, DirectoryStays
    DEF CompactRaises, CompactEnds, Folding, dirvars, runvars, HandoffInv, StagesClosed, Standing
  <1>6. CASE CompactDies
    <2>1. /\ UNCHANGED <<file, state, authored, revived>> /\ step' = 0 /\ parents' = NothingRead /\ step > 0
          /\ Standing' = Standing /\ StagesClosed'
      BY <1>6 DEF CompactDies, CompactEnds, runvars, Standing, HandoffInv, StagesClosed
    <2>2. doc'["dataset"] \in {doc["dataset"], TornDoc}
      BY <1>0, <1>6 DEF CompactDies, Writes, TypeInv, TypeOK, DocsOK
    <2> QED BY <2>1, <2>2, DirectoryStays
  <1>7. CASE DeleteWork
    <2>1. /\ state'["work"] = NoState /\ state'["root"] = state["root"]
          /\ revived' = (revived \/ ~NoLeftovers)
          /\ \A n \in Names("mock_strategies") : file'["mock_strategies"][n] \in {file["mock_strategies"][n], None}
      BY <1>0, <1>7 DEF DeleteWork, TypeInv, TypeOK, StateOK, FilesOK, Handoff
    <2>2. Closed(NoState)
      BY DEF Closed, NoState, Stages
    <2>3. StagesClosed' /\ StrategiesWhole'
      BY <2>1, <2>2 DEF HandoffInv, StagesClosed, StrategiesWhole, None, Torn
    <2>4. ~revived' => Mocks \notin Standing' /\ Build \notin Standing'
      <3>1. ~revived' => state'["root"] = NoState
        BY <2>1 DEF NoLeftovers
      <3> QED BY <2>1, <3>1 DEF Standing, NoState, Mocks, Build
    <2> QED BY <2>3, <2>4 DEF HandoffInv, RulesStand, RulesBuilt, StrategiesBuilt
  <1> QED BY <1>1, <1>2, <1>3, <1>4, <1>5, <1>6, <1>7

----
(* What a compaction holds: what will be seen once it is written *)

WriteOf(p) == IF p = "agent_map" THEN WriteMap ELSE WriteDataset
WillSee(k) ==
  LET d == parents[FoldedInto(k)] IN
  IF ~Readable(d) THEN PipelineSees(k) ELSE IF d[k] # None THEN d[k] ELSE StandAlone(k)

\* A parent in memory differs from the one on disk only by copies folded into it.
HeldCopies ==
  \A k \in Folded : LET p == FoldedInto(k) IN
    Readable(parents[p]) =>
      /\ doc[p][k] # None => parents[p][k] = doc[p][k]
      /\ k \in Handoff => parents[p][k] \in {doc[p][k], StandAlone(k)}
\* What was seen when the compaction began is seen again when its parent is written.
ViewHeld ==
  step > 0 => \A k \in Folded :
    before[k] = IF step <= WriteOf(FoldedInto(k)) THEN WillSee(k) ELSE PipelineSees(k)
CopyInv == HeldCopies /\ ViewHeld

LEMMA SeenInParent ==
  ASSUME NEW k \in Folded, Readable(doc[FoldedInto(k)])
  PROVE  PipelineSees(k) = IF doc[FoldedInto(k)][k] # None THEN doc[FoldedInto(k)][k] ELSE StandAlone(k)
  BY Documents DEF PipelineSees, FoldFrom

LEMMA CopiesBetween ==
  ASSUME TypeInv, step = 0
  PROVE  CopyInv
  BY Documents, Kinds DEF TypeInv, Turns, CopyInv, HeldCopies, ViewHeld, NothingRead

LEMMA CopiesAfterFold ==
  ASSUME TypeInv, CopyInv, FoldKind
  PROVE  CopyInv'
  <1>1. PICK k \in Folded :
          /\ k = FoldOrder[step] /\ Folds(k)
          /\ FilesOK' /\ \A j \in Folded : j # k \/ k \in Handoff => file'[j] = file[j]
    BY FoldEffect DEF TypeInv
  <1> DEFINE p == FoldedInto(k)
  <1>2. /\ UNCHANGED <<doc, before>> /\ step \in 1..5 /\ step' \in 2..6
        /\ \A q : step <= WriteOf(q) /\ step' <= WriteOf(q)
    BY DEF FoldKind, Folding, WriteOf, WriteMap, WriteDataset
  <1>3. \A j \in Folded : j # k => StandAlone(j)' = StandAlone(j) /\ PipelineSees(j)' = PipelineSees(j)
    BY <1>1, <1>2, SameView
  <1>4. k \in Handoff => StandAlone(k)' = StandAlone(k) /\ PipelineSees(k)' = PipelineSees(k)
    BY <1>1, <1>2, SameView
  <1>5. \A j \in Folded : before[j] = WillSee(j)
    BY <1>2 DEF CopyInv, ViewHeld
  <1>6. p \in Parents /\ DOMAIN parents = Parents /\ ~Readable(Absent) /\ k \in FoldedIn(p)
    BY Kinds, Documents DEF TypeInv, TypeOK, CompactOK
  <1>7. FilesOK
    BY DEF TypeInv, TypeOK
  <1>8. CASE UNCHANGED <<file, parents>>
    <2>1. StandAlone(k)' = StandAlone(k) /\ PipelineSees(k)' = PipelineSees(k)
      BY <1>2, <1>8, SameView
    <2>2. \A j \in Folded : WillSee(j)' = WillSee(j)
      BY <1>3, <1>8, <2>1 DEF WillSee
    <2>3. HeldCopies'
      BY <1>2, <1>3, <1>8, <2>1 DEF CopyInv, HeldCopies
    <2> QED BY <1>2, <1>5, <2>2, <2>3 DEF CopyInv, ViewHeld
  <1>9. CASE ParentOf(k) = Absent /\ parents' = [parents EXCEPT ![p] = Absent] /\ UNCHANGED file
    <2>1. ~Readable(parents[p]) /\ ~Readable(parents'[p]) /\ \A q \in Parents : q # p => parents'[q] = parents[q]
      BY <1>6, <1>9, Documents DEF ParentOf
    <2>2. \A j \in Folded : StandAlone(j)' = StandAlone(j) /\ PipelineSees(j)' = PipelineSees(j)
      BY <1>2, <1>9, SameView
    <2>3. \A j \in Folded : WillSee(j)' = WillSee(j)
      BY <2>1, <2>2, Kinds DEF WillSee
    <2>4. HeldCopies'
      BY <1>2, <2>1, <2>2, Kinds DEF CopyInv, HeldCopies
    <2> QED BY <1>2, <1>5, <2>3, <2>4 DEF CopyInv, ViewHeld
  <1>10. CASE /\ Existing(k) # 0 /\ ParentOf(k) \in Docs(p)
              /\ parents' = [parents EXCEPT ![p] = SetPath(ParentOf(k), k)]
    <2> DEFINE old == ParentOf(k)
               new == SetPath(old, k)
    <2>1. parents'[p] = new /\ \A q \in Parents : q # p => parents'[q] = parents[q]
      BY <1>6, <1>10
    <2>2. /\ Readable(new) /\ Readable(old)
          /\ new[k] = IF old[k] = None THEN StandAlone(k) ELSE old[k]
          /\ \A j \in FoldedIn(p) : j # k => new[j] = old[j]
          /\ StandAlone(k) # None
      BY <1>6, <1>7, <1>10, SetPathEffect, ContentType, Documents
    <2>3. /\ Readable(doc[p]) /\ old \in {doc[p], parents[p]}
          /\ Readable(parents[p]) => old = parents[p]
      BY <1>6, <2>2, Documents DEF ParentOf, TypeInv, Turns
    <2>4. ASSUME NEW j \in Folded, FoldedInto(j) = p
          PROVE  /\ j \in FoldedIn(p)
                 /\ before[j] = IF old[j] # None THEN old[j] ELSE StandAlone(j)
                 /\ doc[p][j] # None => old[j] = doc[p][j]
                 /\ j \in Handoff => old[j] \in {doc[p][j], StandAlone(j)}
      <3>1. j \in FoldedIn(p)
        BY <2>4, Kinds
      <3>2. doc[p][j] # None => old[j] = doc[p][j]
        BY <2>2, <2>3, <2>4 DEF CopyInv, HeldCopies
      <3>3. j \in Handoff => old[j] \in {doc[p][j], StandAlone(j)}
        BY <2>2, <2>3, <2>4 DEF CopyInv, HeldCopies
      <3>4. before[j] = IF old[j] # None THEN old[j] ELSE StandAlone(j)
        <4>1. CASE Readable(parents[p])
          BY <1>5, <2>3, <2>4, <4>1 DEF WillSee
        <4>2. CASE ~Readable(parents[p])
          BY <1>5, <2>2, <2>3, <2>4, <4>2, SeenInParent DEF WillSee
        <4> QED BY <4>1, <4>2
      <3> QED BY <3>1, <3>2, <3>3, <3>4
    <2>5. ASSUME NEW j \in Folded
          PROVE  before[j] = WillSee(j)'
      <3>1. CASE FoldedInto(j) # p
        <4>1. j # k /\ FoldedInto(j) \in Parents
          BY <3>1, Kinds
        <4>2. parents'[FoldedInto(j)] = parents[FoldedInto(j)]
          BY <2>1, <3>1, <4>1
        <4> QED BY <1>3, <1>5, <4>1, <4>2 DEF WillSee
      <3>2. CASE FoldedInto(j) = p
        <4>1. WillSee(j)' = IF new[j] # None THEN new[j] ELSE StandAlone(j)'
          BY <2>1, <2>2, <3>2 DEF WillSee
        <4>2. CASE j = k
          BY <2>2, <2>4, <4>1, <4>2
        <4>3. CASE j # k
          BY <1>3, <2>2, <2>4, <3>2, <4>1, <4>3
        <4> QED BY <4>2, <4>3
      <3> QED BY <3>1, <3>2
    <2>6. ASSUME NEW j \in Folded, Readable(parents'[FoldedInto(j)])
          PROVE  /\ doc[FoldedInto(j)][j] # None => parents'[FoldedInto(j)][j] = doc[FoldedInto(j)][j]
                 /\ j \in Handoff => parents'[FoldedInto(j)][j] \in {doc[FoldedInto(j)][j], StandAlone(j)'}
      <3>1. CASE FoldedInto(j) # p
        <4>1. j # k /\ FoldedInto(j) \in Parents
          BY <3>1, Kinds
        <4>2. parents'[FoldedInto(j)] = parents[FoldedInto(j)]
          BY <2>1, <3>1, <4>1
        <4> QED BY <1>3, <2>6, <4>1, <4>2 DEF CopyInv, HeldCopies
      <3>2. CASE FoldedInto(j) = p /\ j # k
        BY <1>3, <2>1, <2>2, <2>4, <3>2
      <3>3. CASE j = k
        BY <1>4, <2>1, <2>2, <2>4, <3>3
      <3> QED BY <3>1, <3>2, <3>3
    <2> QED BY <1>2, <2>5, <2>6 DEF CopyInv, HeldCopies, ViewHeld
  <1> QED BY <1>1, <1>8, <1>9, <1>10 DEF Folds

LEMMA CopyStep ==
  ASSUME TypeInv, TypeInv', CopyInv, [Next]_vars
  PROVE  CopyInv'
  <1>1. CASE UNCHANGED vars
    <2>1. \A k : StandAlone(k)' = StandAlone(k) /\ PipelineSees(k)' = PipelineSees(k)
      BY <1>1, SameView DEF vars
    <2> QED BY <1>1, <2>1 DEF vars, CopyInv, HeldCopies, ViewHeld, WillSee
  <1>2. ASSUME step' = 0  PROVE CopyInv'
    <2>1. \A k \in Folded : ~Readable(parents'[FoldedInto(k)])
      BY <1>2, Documents, Kinds DEF TypeInv, Turns, NothingRead
    <2> QED BY <1>2, <2>1 DEF CopyInv, HeldCopies, ViewHeld
  <1>3. CASE Start \/ StageCompletes \/ StageFails \/ Pass \/ RunDies
    <2>1. step = 0
      BY <1>3 DEF Start, StageCompletes, StageFails, StageWrites, Pass, RunDies, TypeInv, TypeOK, Turns,
                  RunOK, Stages
    <2> QED BY <1>2, <1>3, <2>1 DEF Start, StageCompletes, StageFails, Pass, RunDies, compactvars
  <1>4. CASE CompactStarts
    <2>1. \A k \in Folded : ~Readable(parents[FoldedInto(k)])
      BY <1>4, Documents, Kinds DEF CompactStarts, TypeInv, Turns, NothingRead
    <2>2. \A k \in Folded : PipelineSees(k)' = PipelineSees(k)
      BY <1>4, SameView DEF CompactStarts, dirvars
    <2>3. step' = 1 /\ parents' = parents /\ \A k \in Folded : before'[k] = PipelineSees(k)
      BY <1>4 DEF CompactStarts
    <2> QED BY <2>1, <2>2, <2>3 DEF CopyInv, HeldCopies, ViewHeld, WillSee, WriteOf, WriteMap, WriteDataset
  <1>5. CASE WriteParent
    <2>1. PICK p \in Parents :
            /\ step = WriteOf(p)
            /\ IF Readable(parents[p]) THEN Writes(p, parents[p]) ELSE UNCHANGED doc
      BY <1>5, Kinds DEF WriteParent, WriteOf, WriteMap, WriteDataset
    <2>2. /\ UNCHANGED <<file, parents, before>> /\ step' = step + 1 /\ step \in {6, 7}
          /\ \A k \in Folded : StandAlone(k)' = StandAlone(k)
      BY <1>5, SameView DEF WriteParent, WriteMap, WriteDataset
    <2>3. /\ Readable(parents[p]) => doc'[p] = parents[p]
          /\ ~Readable(parents[p]) => doc'[p] = doc[p]
          /\ \A q \in Parents : q # p => doc'[q] = doc[q] /\ WriteOf(q) # WriteOf(p)
      BY <2>1, Kinds DEF Writes, TypeInv, TypeOK, DocsOK, WriteOf, WriteMap, WriteDataset
    <2>4. ASSUME NEW k \in Folded
          PROVE  before[k] = IF step' <= WriteOf(FoldedInto(k)) THEN WillSee(k)' ELSE PipelineSees(k)'
      <3>1. before[k] = IF step <= WriteOf(FoldedInto(k)) THEN WillSee(k) ELSE PipelineSees(k)
        BY <2>2 DEF CopyInv, ViewHeld
      <3>2. CASE FoldedInto(k) = p /\ Readable(parents[p])
        <4>1. PipelineSees(k)' = IF parents[p][k] # None THEN parents[p][k] ELSE StandAlone(k)'
          BY <2>3, <3>2, Documents DEF PipelineSees, FoldFrom
        <4> QED BY <2>1, <2>2, <3>1, <3>2, <4>1 DEF WillSee, WriteOf, WriteMap, WriteDataset
      <3>3. CASE FoldedInto(k) = p /\ ~Readable(parents[p])
        <4>1. PipelineSees(k)' = PipelineSees(k)
          BY <2>2, <2>3, <3>3, SameView
        <4> QED BY <2>1, <2>2, <3>1, <3>3, <4>1 DEF WillSee, WriteOf, WriteMap, WriteDataset
      <3>4. CASE FoldedInto(k) # p
        <4>1. FoldedInto(k) \in Parents
          BY Kinds
        <4>2. PipelineSees(k)' = PipelineSees(k) /\ WillSee(k)' = WillSee(k)
          BY <2>2, <2>3, <3>4, <4>1, SameView DEF WillSee
        <4>3. step <= WriteOf(FoldedInto(k)) <=> step' <= WriteOf(FoldedInto(k))
          BY <2>1, <2>2, <2>3, <3>4, <4>1 DEF WriteOf, WriteMap, WriteDataset
        <4> QED BY <3>1, <4>2, <4>3
      <3> QED BY <3>2, <3>3, <3>4
    <2>5. HeldCopies'
      BY <2>2, <2>3, Kinds DEF CopyInv, HeldCopies
    <2> QED BY <2>2, <2>4, <2>5 DEF CopyInv, ViewHeld
  <1>6. CASE MoveHandoff
    <2>1. UNCHANGED <<doc, parents, before>> /\ step \in 8..9 /\ step' \in 9..10
      BY <1>6 DEF MoveHandoff, Moving
    <2>2. \A k \in Folded : StandAlone(k)' = StandAlone(k)
      BY <1>6, MoveEffect DEF TypeInv
    <2>3. \A k \in Folded : PipelineSees(k)' = PipelineSees(k)
      BY <2>1, <2>2 DEF PipelineSees, FoldFrom
    <2> QED BY <2>1, <2>2, <2>3 DEF CopyInv, HeldCopies, ViewHeld, WriteOf, WriteMap, WriteDataset
  <1>7. CASE CompactFinishes \/ CompactRaises \/ CompactDies \/ DeleteWork
    BY <1>2, <1>7 DEF CompactFinishes, CompactRaises, CompactDies, CompactEnds, DeleteWork, compactvars
  <1> QED BY <1>1, <1>3, <1>4, <1>5, <1>6, <1>7, CopiesAfterFold DEF Next

----
(* The theorems *)

Inv == TypeInv /\ HandoffInv /\ CopyInv

LEMMA InvStep ==
  ASSUME Inv, [Next]_vars
  PROVE  Inv'
  <1>1. TypeInv'
    BY TypeStep DEF Inv
  <1>2. CopyInv'
    BY <1>1, CopyStep DEF Inv
  <1>3. HandoffInv'
    <2>1. CASE UNCHANGED vars
      <3>1. Standing' = Standing /\ StagesClosed'
        BY <2>1 DEF vars, Standing, Inv, HandoffInv, StagesClosed
      <3> QED BY <2>1, <3>1, FewerStand DEF vars, Inv
    <2> QED BY <2>1, HandoffsAfterRun, HandoffsAfterFold, HandoffsAfterCompact DEF Inv, Next
  <1> QED BY <1>1, <1>2, <1>3 DEF Inv

LEMMA Invariance == Spec => []Inv
  <1>1. Init => Inv
    <2>1. Init => TypeInv /\ HandoffInv
      BY TypesAtStart, HandoffsAtStart
    <2>2. Init => step = 0
      BY DEF Init
    <2> QED BY <2>1, <2>2, CopiesBetween DEF Inv
  <1>2. Inv /\ [Next]_vars => Inv'
    BY InvStep
  <1> QED BY <1>1, <1>2, PTL DEF Spec

\* Types, and that a run and a compaction never work on the directory at once.
THEOREM LayoutIsTyped == Spec => []TypeInv
  BY Invariance, PTL DEF Inv

\* The rules of a complete dataset are the ones that the last complete mocks stage
\* authored, whatever older files lie about (mock_block reads the handoff, not the
\* dataset of an earlier run; compact_dir never overwrites what a parent carries).
THEOREM RulesAreAuthored == Spec => []RulesAreTheAuthored
  <1>1. Inv => RulesAreTheAuthored
    <2>1. SUFFICES ASSUME Inv, Build \in state["work"], Readable(doc["dataset"]), ~revived
                   PROVE  doc["dataset"]["mock_rules"] = authored
      BY DEF RulesAreTheAuthored
    <2>2. Build \in Standing
      BY <2>1 DEF Standing, NoState, Build
    <2> QED BY <2>1, <2>2 DEF Inv, HandoffInv, RulesBuilt
  <1> QED BY <1>1, Invariance, PTL

\* The pipeline looks in the parent first and the UI at the stand-alone file first: in a
\* directory without older files they still see the same.
THEOREM BothReadersAgree == Spec => []ReadersAgree
  <1>1. Inv => ReadersAgree
    <2>1. SUFFICES ASSUME Inv, Build \in state["work"], NoLeftovers, ~revived,
                          NEW k \in Folded, Readable(doc[FoldedInto(k)])
                   PROVE  UISees(k) = PipelineSees(k)
      BY DEF ReadersAgree
    <2>2. Build \in Standing /\ Mocks \in Standing
      BY <2>1, ClosedIs DEF Standing, NoState, Build, Inv, HandoffInv, StagesClosed
    <2>3. /\ PipelineSees(k) = IF FoldFrom(k) # None THEN FoldFrom(k) ELSE StandAlone(k)
          /\ FoldFrom(k) = doc[FoldedInto(k)][k]
      BY <2>1, SeenInParent DEF FoldFrom
    <2>4. CASE k \in Derived
      <3>1. \A n \in Names(k) : file[k][n] = None
        BY <2>1, <2>4 DEF NoLeftovers, Leftover
      <3>2. StandAlone(k) = None
        BY <3>1, FirstName, Backing DEF Content
      <3> QED BY <2>3, <3>2 DEF UISees
    <2>5. CASE k = "mock_rules"
      <3>1. StandAlone(k) = authored /\ FoldFrom(k) = authored
        BY <2>1, <2>2, <2>3, <2>5, Kinds DEF Inv, HandoffInv, RulesStand, RulesBuilt, Handoff
      <3> QED BY <2>3, <3>1 DEF UISees
    <2>6. CASE k = "mock_strategies"
      <3>1. StandAlone(k) # Torn
        BY <2>1, <2>6, RunStands DEF Inv, HandoffInv
      <3>2. file["mock_strategies"][2] = None
        BY <2>1, <2>6 DEF NoLeftovers, Leftover, Names
      <3>3. FoldFrom(k) = StandAlone(k)
        BY <2>1, <2>2, <2>3, <2>6, <3>2, Kinds DEF Inv, HandoffInv, StrategiesBuilt, NotYetFolded, Handoff
      <3> QED BY <2>3, <3>1, <3>3 DEF UISees
    <2> QED BY <2>4, <2>5, <2>6, Kinds DEF Handoff
  <1> QED BY <1>1, Invariance, PTL

\* `pipeline compact` run to its end changes nothing of what the pipeline sees.
THEOREM CompactionKeepsTheView == Spec => CompactKeepsView
  <1>1. Inv /\ [Next]_vars => [CompactFinishes => \A k \in Folded : PipelineSees(k) = before[k]]_vars
    BY DEF Inv, CopyInv, ViewHeld, CompactFinishes, MoveState, WriteOf, WriteMap, WriteDataset
  <1> QED BY <1>1, Invariance, PTL DEF Spec, CompactKeepsView

\* One that raises or is killed loses a copy that it had just taken out of its file at
\* most, never a handoff and never what a parent carried.
THEOREM InterruptionLosesCopiesOnly == Spec => OnlyCopiesAreLost
  <1>1. ASSUME Inv, CompactRaises \/ CompactDies, NEW k \in Folded
        PROVE  \/ PipelineSees(k)' \in {before[k], Torn}
               \/ k \in Derived /\ FoldFrom(k)' = None
    <2> DEFINE p == FoldedInto(k)
    <2>1. /\ UNCHANGED file /\ step > 0 /\ p \in Parents
          /\ doc'[p] \in {doc[p], TornDoc}
      BY <1>1, Kinds DEF CompactRaises, CompactDies, Folding, dirvars, Writes, Inv, TypeInv, TypeOK, DocsOK
    <2>2. CASE doc'[p] = TornDoc
      <3>1. FoldFrom(k)' = None /\ PipelineSees(k)' = Torn
        BY <2>2, Documents DEF PipelineSees, FoldFrom
      <3> QED BY <3>1
    <2>3. CASE doc'[p] = doc[p]
      <3>0. step \in Int /\ WriteOf(p) \in Int
        BY <1>1 DEF Inv, TypeInv, TypeOK, CompactOK, WriteOf, WriteMap, WriteDataset
      <3>1. PipelineSees(k)' = PipelineSees(k) /\ FoldFrom(k)' = FoldFrom(k)
        BY <2>1, <2>3, SameView
      <3>2. before[k] = IF step <= WriteOf(p) THEN WillSee(k) ELSE PipelineSees(k)
        BY <1>1, <2>1 DEF Inv, CopyInv, ViewHeld
      <3>3. CASE ~Readable(parents[p]) \/ step > WriteOf(p)
        BY <3>0, <3>1, <3>2, <3>3 DEF WillSee
      <3>4. CASE Readable(parents[p]) /\ step <= WriteOf(p)
        <4>1. /\ Readable(doc[p])
              /\ doc[p][k] # None => parents[p][k] = doc[p][k]
              /\ k \in Handoff => parents[p][k] \in {doc[p][k], StandAlone(k)}
          BY <1>1, <2>1, <3>4 DEF Inv, TypeInv, Turns, CopyInv, HeldCopies
        <4>2. /\ PipelineSees(k) = IF doc[p][k] # None THEN doc[p][k] ELSE StandAlone(k)
              /\ FoldFrom(k) = doc[p][k]
              /\ before[k] = IF parents[p][k] # None THEN parents[p][k] ELSE StandAlone(k)
          BY <3>2, <3>4, <4>1, SeenInParent DEF WillSee, FoldFrom
        <4>3. k \in Derived \/ k \in Handoff
          BY Kinds
        <4> QED BY <3>1, <4>1, <4>2, <4>3
      <3> QED BY <3>0, <3>3, <3>4
    <2> QED BY <2>1, <2>2, <2>3
  <1>2. Inv /\ [Next]_vars =>
          [CompactRaises \/ CompactDies =>
             \A k \in Folded :
               \/ PipelineSees(k)' \in {before[k], Torn}
               \/ k \in Derived /\ FoldFrom(k)' = None]_vars
    BY <1>1
  <1> QED BY <1>2, Invariance, PTL DEF Spec, OnlyCopiesAreLost
====
