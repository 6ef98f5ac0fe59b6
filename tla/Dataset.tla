---- MODULE Dataset ----
(***************************************************************************)
(* The life of the cases in dataset.json: built by the dataset stage,      *)
(* approved or rejected by the review stage and by people, checked by      *)
(* verify, executed by infer, joined by what simulate mines, and published *)
(* to LangSmith (pipeline/stages.py, artifacts.py, simulate.py,            *)
(* langsmith_io.py).                                                       *)
(*                                                                         *)
(* A run reads dataset.json once, when the first of its stages needs it,   *)
(* and works on that object (PipelineContext._cache) from then on; people  *)
(* load, change and rewrite the same file from other processes.            *)
(*                                                                         *)
(* Of the engine only this is kept: the stages in their order, which are   *)
(* complete (`done`), and that a stage runs when its dependencies are.     *)
(* Module StageEngine shows that the real engine keeps to it.              *)
(***************************************************************************)
EXTENDS Naturals

CONSTANTS
  Generated,   \* cases the generator may write; a case is named by its content (case_id)
  Mined,       \* cases that mine_failures may add, one for each scenario that can fail
  Unmocked,    \* cases with an expected call that no mock rule answers
  MaxExamples, \* bound: examples of one case in the LangSmith dataset
  MaxRuns,     \* bound: runs that are started
  MaxCommands  \* bound: decisions of people, and replacements of the LangSmith dataset

Case == Generated \cup Mined

ASSUME CasesAssumption ==
  /\ Generated \cap Mined = {} /\ Unmocked \subseteq Generated
  /\ MaxExamples \in Nat /\ MaxRuns \in Nat /\ MaxCommands \in Nat

\* The stages with a part here; deploy, between verify and infer, is left out.
Build == 1
Review == 2
Verify == 3
Infer == 4
Simulate == 5
Publish == 6
Stages == 1..6
Deps == <<{}, {Build}, {Review}, {Verify}, {Review, Verify}, {Review}>>

VARIABLES
  file,      \* dataset.json: "absent", "whole" or "torn" (truncated)
  disk,      \* the document in it while it is whole
  run,       \* the run: place in the stage `pos`, and whether the config auto-approves
  pos,
  auto,
  cache,     \* the dataset object of the run, NoDoc before it is read
  done,      \* completed stages
  hand,      \* what a person's command has loaded and is about to write, NoDoc if none
  remote,    \* examples in the LangSmith dataset, per case
  byHand,    \* history: the last decision of a person on each case
  excused,   \* history: cases whose decision was regenerated, or overlapped another write
  again,     \* history: cases whose upload may be repeated for an outside cause
  moved,     \* history: the remote dataset was replaced
  runs,      \* counted for the bounds
  commands

vars == <<file, disk, run, pos, auto, cache, done, hand, remote, byHand, excused, again, moved,
          runs, commands>>
counters == <<runs, commands>>

Status == {"none", "pending", "approved", "rejected"}   \* "none": not in the dataset
Doc == [status : [Case -> Status], example : SUBSET Case]
Empty == [status |-> [c \in Case |-> "none"], example |-> {}]
NoDoc == [none |-> TRUE]
NoHand == NoDoc

\* What a person's command that has loaded the file will overwrite.
Overwritten == IF hand = NoHand THEN {} ELSE Case

With(doc, status) == {c \in Case : doc.status[c] = status}
Cases(doc) == Case \ With(doc, "none")
SetReview(doc, cs, status) ==
  [doc EXCEPT !.status = [c \in Case |-> IF c \in cs THEN status ELSE doc.status[c]]]

\* add_case: new cases are always pending.
AddedAsApproved(doc, cs) == SetReview(doc, cs, "approved")
Added(doc, cs) == SetReview(doc, cs, "pending")

----
(* The run *)

Start ==
  /\ run = "down" /\ runs < MaxRuns
  /\ runs' = runs + 1
  /\ \E from \in {0} \cup Stages : done' = {s \in done : from = 0 \/ s < from}
       \* --resume --from; without --resume nothing counts as complete
  /\ auto' \in BOOLEAN
  /\ run' = "next"
  /\ pos' = 1
  /\ UNCHANGED <<file, disk, cache, hand, remote, byHand, excused, again, moved, commands>>

\* The stage is complete, blocked, or skipped by the config.
Pass ==
  /\ run = "next" /\ pos < Publish
  /\ pos' = pos + 1
  /\ UNCHANGED <<file, disk, run, auto, cache, done, hand, remote, byHand, excused, again,
                 moved, counters>>

Begin ==
  /\ run = "next" /\ pos \notin done /\ Deps[pos] \subseteq done
  /\ run' = "work"
  /\ UNCHANGED <<file, disk, pos, auto, cache, done, hand, remote, byHand, excused, again,
                 moved, counters>>

Commit ==
  /\ run = "finish"
  /\ done' = done \cup {pos}
  /\ run' = "next"
  /\ UNCHANGED <<file, disk, pos, auto, cache, hand, remote, byHand, excused, again,
                 moved, counters>>

\* Example ids a read-back noted in the run's document and no save has written.
Unsaved == IF cache = NoDoc THEN {} ELSE cache.example \ disk.example

\* The run is over, stops, or is killed; in a save the file may stay truncated.
End ==
  /\ run # "down"
  /\ run' = "down"
  /\ pos' = Build
  /\ auto' = FALSE
  /\ cache' = NoDoc
  /\ \/ UNCHANGED <<file, disk, excused>>
     \/ /\ run \in {"work", "uploaded"} /\ pos \notin {Verify, Infer}
        /\ file' = "torn" /\ disk' = Empty
        /\ excused' = excused \cup Overwritten
  /\ again' = IF run = "uploaded" \/ file' = "torn" THEN Case ELSE again \cup Unsaved
  /\ UNCHANGED <<done, hand, remote, byHand, moved, counters>>

----
(* The stage functions *)

At(stage) == run = "work" /\ pos = stage

\* PipelineContext.dataset
Readable == cache # NoDoc \/ file = "whole"
Ds == IF cache # NoDoc THEN cache ELSE disk

\* The stage succeeds, or raises and is tried again or given up.
Finishes == run' = "finish" /\ pos' = pos
Raises == run' = "next" /\ pos' \in {pos, IF pos < Publish THEN pos + 1 ELSE pos}

\* save_dataset
Saves(doc) ==
  /\ file' = "whole"
  /\ disk' = doc
  /\ cache' = doc
Works == UNCHANGED <<auto, done, hand, byHand, moved, counters>>
NothingSaved == UNCHANGED <<file, disk, excused>>

\* A stage that needs the dataset fails without it, and any stage for its own reasons.
Fails ==
  /\ run = "work"
  /\ Raises
  /\ cache' = IF Readable /\ pos # Build THEN Ds ELSE cache
  /\ NothingSaved /\ Works
  /\ UNCHANGED <<remote, again>>

\* build_dataset: a new document; the decisions and example ids of the old one are gone.
BuildDataset ==
  /\ At(Build)
  /\ \E cs \in (SUBSET Generated) \ {{}} : Saves(Added(Empty, cs))
  /\ excused' = excused \cup Overwritten \cup {c \in Case : byHand[c] # "none"}
  /\ again' = again \cup Overwritten \cup {c \in Case : remote[c] > 0}
  /\ Finishes /\ Works
  /\ UNCHANGED remote

\* review: the verdicts of the self-review and the calls without a rule reject; the
\* rest is approved if the config says so.  Without pending cases nothing changes.
ReviewsNothing ==
  /\ At(Review) /\ Readable
  /\ With(Ds, "pending") = {} /\ With(Ds, "approved") # {}
  /\ Saves(Ds)
  /\ Finishes

RemainingAnyStatus(verdicts) == Cases(Ds) \ (verdicts \cup Unmocked)
Remaining(verdicts) == With(Ds, "pending") \ (verdicts \cup Unmocked)
\* verify_summary looks at every case of the dataset.
Rejects(verdicts) == SetReview(Ds, verdicts \cup (Cases(Ds) \cap Unmocked), "rejected")

Approved(verdicts) == SetReview(Rejects(verdicts), Remaining(verdicts), "approved")

ReviewsPending ==
  /\ At(Review) /\ Readable
  /\ \E verdicts \in SUBSET With(Ds, "pending") :
       /\ With(Ds, "pending") # {}
       /\ \/ Remaining(verdicts) = {} /\ Saves(Rejects(verdicts)) /\ Raises
          \/ /\ Remaining(verdicts) # {} /\ ~auto      \* StageStop: nothing else executes
             /\ Saves(Rejects(verdicts))
             /\ run' = "over" /\ pos' = pos
          \/ /\ Remaining(verdicts) # {} /\ auto
             /\ \/ Saves(Approved(verdicts)) /\ Finishes
                \/ cache' = Approved(verdicts) /\ UNCHANGED <<file, disk>> /\ Raises  \* coverage

ReviewCases ==
  /\ ReviewsNothing \/ ReviewsPending
  /\ excused' = excused \cup Overwritten
  /\ again' = again \cup Overwritten
  /\ Works
  /\ UNCHANGED remote

VerifyMocks ==
  /\ At(Verify) /\ Readable
  /\ With(Ds, "approved") # {} /\ With(Ds, "approved") \cap Unmocked = {}
  /\ cache' = Ds
  /\ Finishes
  /\ NothingSaved /\ Works
  /\ UNCHANGED <<remote, again>>

\* select_cases
Executed == With(Ds, "approved")
InferCases ==
  /\ At(Infer) /\ Readable
  /\ Executed # {}
  /\ cache' = Ds
  /\ Finishes
  /\ NothingSaved /\ Works
  /\ UNCHANGED <<remote, again>>

\* mine_failures adds the failing scenarios one by one to the cached dataset; a case
\* that is already there raises, and what was added before stays in the cache only.
SimulateScenarios ==
  /\ At(Simulate) /\ Readable
  /\ \E failing \in SUBSET Mined :
       \/ /\ failing \cap Cases(Ds) = {}
          /\ IF failing = {} THEN UNCHANGED <<file, disk>> /\ cache' = Ds
                             ELSE Saves(Added(Ds, failing))
          /\ Finishes \/ Raises        \* simulation.json is written after that
          /\ excused' = IF failing = {} THEN excused ELSE excused \cup Overwritten
          /\ again' = IF failing = {} THEN again ELSE again \cup Overwritten
       \/ /\ failing \cap Cases(Ds) # {}
          /\ \E before \in SUBSET (failing \ Cases(Ds)) : cache' = Added(Ds, before)
          /\ UNCHANGED <<file, disk, excused, again>>
          /\ Raises
  /\ Works
  /\ UNCHANGED remote

----
(* publish_approved *)

ToUploadAll(doc) == With(doc, "approved")
ToUpload(doc) == With(doc, "approved") \ doc.example

\* create_examples; it may also fail after any part of them was created.
Upload ==
  /\ At(Publish) /\ Readable
  /\ With(Ds, "approved") # {}
  /\ cache' = Ds
  /\ \A c \in ToUpload(Ds) : remote[c] < MaxExamples     \* the bound
  /\ \E created \in SUBSET ToUpload(Ds) :
       /\ remote' = [c \in Case |-> IF c \in created THEN remote[c] + 1 ELSE remote[c]]
       /\ \/ created = ToUpload(Ds) /\ run' = "uploaded" /\ UNCHANGED <<pos, again>>
          \/ Raises /\ again' = again \cup ToUpload(Ds)
  /\ NothingSaved /\ Works

MissingIgnored(found) == {}
Missing(found) == ToUpload(cache) \ found

\* Read-back: what is found is noted in the cached document at once; the file is
\* written only if every uploaded case was found.  The listing may be behind.
ReadBack ==
  /\ run = "uploaded"
  /\ \E lagging \in SUBSET ToUpload(cache) :
       LET found == {c \in With(cache, "approved") \ lagging : remote[c] > 0}
           missing == Missing(found)
           noted == [cache EXCEPT !.example = @ \cup found]
       IN  \/ /\ missing # {}
              /\ cache' = noted
              /\ again' = again \cup missing
              /\ Raises
              /\ UNCHANGED <<file, disk, excused>>
           \/ /\ missing = {}
              /\ Saves(noted)
              /\ again' = again \cup Overwritten
              /\ excused' = excused \cup Overwritten
              /\ Finishes
  /\ Works
  /\ UNCHANGED remote

----
(* The people, and the LangSmith dataset *)

\* evalbuilder review --approve / --reject, and reject_cases of the UI.
PersonLoads ==
  /\ hand = NoHand /\ file = "whole" /\ commands < MaxCommands
  /\ commands' = commands + 1
  /\ \E c \in Cases(disk), decision \in {"approved", "rejected"} :
       hand' = [doc |-> SetReview(disk, {c}, decision), on |-> c]
  /\ UNCHANGED <<file, disk, run, pos, auto, cache, done, remote, byHand, excused, again, moved,
                 runs>>

\* A run that holds the dataset will overwrite this decision.
PersonSaves ==
  /\ hand # NoHand
  /\ file' = "whole"
  /\ disk' = hand.doc
  /\ hand' = NoHand
  /\ byHand' = [byHand EXCEPT ![hand.on] = hand.doc.status[hand.on]]
  /\ excused' = IF cache = NoDoc THEN excused \ {hand.on} ELSE excused \cup {hand.on}
  /\ UNCHANGED <<run, pos, auto, cache, done, remote, again, moved, counters>>

\* Another dataset name is configured, or the remote dataset is deleted.
OtherRemote ==
  /\ remote # [c \in Case |-> 0] /\ commands < MaxCommands
  /\ commands' = commands + 1
  /\ remote' = [c \in Case |-> 0]
  /\ moved' = TRUE
  /\ UNCHANGED <<file, disk, run, pos, auto, cache, done, hand, byHand, excused, again, runs>>

----

Init ==
  /\ file = "absent" /\ disk = Empty
  /\ run = "down" /\ pos = Build /\ auto = FALSE /\ cache = NoDoc /\ done = {}
  /\ hand = NoHand
  /\ remote = [c \in Case |-> 0]
  /\ byHand = [c \in Case |-> "none"]
  /\ excused = {} /\ again = {} /\ moved = FALSE
  /\ runs = 0 /\ commands = 0

Next ==
  \/ Start \/ Pass \/ Begin \/ Commit \/ End \/ Fails
  \/ BuildDataset \/ ReviewCases \/ VerifyMocks \/ InferCases \/ SimulateScenarios
  \/ Upload \/ ReadBack
  \/ PersonLoads \/ PersonSaves \/ OtherRemote

Spec == Init /\ [][Next]_vars

----
(* Properties *)

TypeOK ==
  /\ file \in {"absent", "whole", "torn"}
  /\ disk \in Doc
  /\ run \in {"down", "next", "work", "uploaded", "finish", "over"}
  /\ pos \in Stages
  /\ auto \in BOOLEAN
  /\ cache \in Doc \cup {NoDoc}
  /\ done \subseteq Stages
  /\ hand \in [doc : Doc, on : Case] \cup {NoHand}
  /\ remote \in [Case -> 0..MaxExamples]
  /\ byHand \in [Case -> {"none", "approved", "rejected"}]
  /\ excused \subseteq Case /\ again \subseteq Case
  /\ moved \in BOOLEAN
  /\ runs \in 0..MaxRuns /\ commands \in 0..MaxCommands

\* What a person decided on a case stays in dataset.json through any sequence of runs,
\* retries and crashes, unless the dataset was built again or the decision overlapped
\* another write; an approval may be taken back for a case without a mock rule.
DecisionStands ==
  file = "whole" =>
    \A c \in Case \ excused :
      /\ byHand[c] = "rejected" => disk.status[c] = "rejected"
      /\ byHand[c] = "approved" /\ c \notin Unmocked => disk.status[c] = "approved"

\* Generated and mined content never approves itself: a case becomes approved in
\* dataset.json only in a review stage whose config says auto_approve, or by a person.
Approves(c) == c \in With(disk', "approved") \ With(disk, "approved")
ReviewsByConfig == run = "work" /\ pos = Review /\ auto
DecidesOn(c) == hand # NoHand /\ hand' = NoHand /\ hand.on = c
ApprovedByDecision ==
  \A c \in Case : Approves(c) => c \in excused' \/ ReviewsByConfig \/ DecidesOn(c)
NothingApprovesItself == [][ApprovedByDecision]_vars

\* A case has at most one example in the LangSmith dataset, however often it is
\* published, unless an upload was cut short, its listing was behind for the case or left
\* the run ending with ids it had only noted, the dataset was built again, or a person's
\* command overwrote the recorded ids.
PublishedOnce == \A c \in Case \ again : remote[c] <= 1

\* When the publish stage succeeds, every approved case of the run has its example id
\* recorded; and an id recorded in dataset.json, whatever failed since, names an example
\* of the LangSmith dataset, unless that dataset was replaced.
PublishedIsThere ==
  /\ run = "finish" /\ pos = Publish => With(cache, "approved") \subseteq cache.example
  /\ moved \/ \A c \in disk.example : remote[c] > 0

====
