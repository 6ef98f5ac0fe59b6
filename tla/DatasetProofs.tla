---- MODULE DatasetProofs ----
(***************************************************************************)
(* Proofs about the dataset, for every set of cases and every number of    *)
(* runs and commands: types, that a person's decision stands, that nothing *)
(* approves itself, that a recorded example id names an example, and that  *)
(* a case is published once.  Each document that is about - on disk, in    *)
(* the run, in a person's command - keeps the same promise, so it does not *)
(* matter which of them is written last; where two of them differ, the     *)
(* stages that could write the wrong one are not reached, or what is lost  *)
(* is excused.                                                             *)
(***************************************************************************)
EXTENDS Dataset, TLAPS

\* Between upload and read-back the run holds the dataset.
UploadHasDataset == run = "uploaded" => cache # NoDoc
\* A person's command decides on one case.
HandDecides == hand # NoHand => hand.doc.status[hand.on] \in {"approved", "rejected"}
TypeInv == TypeOK /\ UploadHasDataset /\ HandDecides

----
(* Documents *)

\* set_review changes the status of the given cases and nothing else.
LEMMA SetReviewEffect ==
  ASSUME NEW doc \in Doc, NEW cs, NEW status \in Status
  PROVE  /\ SetReview(doc, cs, status) \in Doc
         /\ SetReview(doc, cs, status).example = doc.example
         /\ \A c \in Case :
              SetReview(doc, cs, status).status[c] = IF c \in cs THEN status ELSE doc.status[c]
  BY DEF SetReview, Doc

\* New cases are pending; the others keep their status.
LEMMA AddedEffect ==
  ASSUME NEW doc \in Doc, NEW cs
  PROVE  /\ Added(doc, cs) \in Doc
         /\ Added(doc, cs).example = doc.example
         /\ \A c \in Case :
              Added(doc, cs).status[c] = IF c \in cs THEN "pending" ELSE doc.status[c]
  BY SetReviewEffect DEF Added, Status

LEMMA EmptyType == Empty \in Doc
  BY DEF Empty, Doc, Status

LEMMA NoDocIsNoDocument == NoDoc \notin Doc
  <1> SUFFICES ASSUME NoDoc \in Doc PROVE FALSE
    OBVIOUS
  <1>1. DOMAIN NoDoc = {"none"}
    BY DEF NoDoc
  <1>2. DOMAIN NoDoc = {"status", "example"}
    BY DEF Doc
  <1> QED BY <1>1, <1>2

\* A stage that can read the dataset works on a document.
LEMMA DsType == TypeOK /\ Readable => Ds \in Doc
  BY DEF TypeOK, Ds

\* What the review stage leaves of the document it works on.
LEMMA ReviewEffect ==
  ASSUME TypeOK, Readable, NEW verdicts \in SUBSET With(Ds, "pending"),
         NEW doc \in {Rejects(verdicts), Approved(verdicts)}
  PROVE  /\ doc \in Doc
         /\ doc.example = Ds.example
         /\ \A c \in Case :
              \/ doc.status[c] = Ds.status[c]
              \/ Ds.status[c] = "pending"
              \/ c \in Unmocked /\ doc.status[c] = "rejected"
  <1>1. Ds \in Doc
    BY DsType
  <1>2. "rejected" \in Status /\ "approved" \in Status
    BY DEF Status
  <1> DEFINE rejects == verdicts \cup (Cases(Ds) \cap Unmocked)
  <1>3. /\ Rejects(verdicts) \in Doc
        /\ Rejects(verdicts).example = Ds.example
        /\ \A c \in Case : Rejects(verdicts).status[c] =
                             IF c \in rejects THEN "rejected" ELSE Ds.status[c]
    BY <1>1, <1>2, SetReviewEffect DEF Rejects
  <1>4. /\ Approved(verdicts) \in Doc
        /\ Approved(verdicts).example = Rejects(verdicts).example
        /\ \A c \in Case : Approved(verdicts).status[c] =
             IF c \in Remaining(verdicts) THEN "approved" ELSE Rejects(verdicts).status[c]
    BY <1>2, <1>3, SetReviewEffect DEF Approved
  <1> QED BY <1>3, <1>4 DEF With, Cases, Remaining

\* Reading back adds example ids and changes no status.
LEMMA NotedEffect ==
  ASSUME NEW doc \in Doc, NEW found \in SUBSET Case
  PROVE  /\ [doc EXCEPT !.example = @ \cup found] \in Doc
         /\ [doc EXCEPT !.example = @ \cup found].status = doc.status
         /\ [doc EXCEPT !.example = @ \cup found].example = doc.example \cup found
  BY DEF Doc

\* What the read-back makes of the documents.
LEMMA ReadBackEffect ==
  ASSUME TypeOK, cache \in Doc, ReadBack
  PROVE  \E found \in SUBSET {c \in With(cache, "approved") : remote[c] > 0} :
           /\ cache' \in Doc
           /\ cache'.status = cache.status
           /\ cache'.example = cache.example \cup found
           /\ \/ UNCHANGED <<file, disk, excused>> /\ Raises
              \/ /\ file' = "whole" /\ disk' = cache' /\ Finishes
                 /\ excused' = excused \cup Overwritten
                 /\ With(cache, "approved") \subseteq cache.example \cup found
  <1> PICK lagging \in SUBSET ToUpload(cache) :
        LET found == {c \in With(cache, "approved") \ lagging : remote[c] > 0}
            missing == Missing(found)
            noted == [cache EXCEPT !.example = @ \cup found]
        IN  \/ /\ missing # {}
               /\ cache' = noted
               /\ Raises
               /\ UNCHANGED <<file, disk, excused>>
            \/ /\ missing = {}
               /\ Saves(noted)
               /\ excused' = excused \cup Overwritten
               /\ Finishes
    BY DEF ReadBack
  <1> DEFINE found == {c \in With(cache, "approved") \ lagging : remote[c] > 0}
             noted == [cache EXCEPT !.example = @ \cup found]
  <1>1. found \in SUBSET {c \in With(cache, "approved") : remote[c] > 0} /\ found \subseteq Case
    BY DEF With
  <1>2. noted \in Doc /\ noted.status = cache.status /\ noted.example = cache.example \cup found
    BY <1>1, NotedEffect
  <1>3. Missing(found) = {} => With(cache, "approved") \subseteq cache.example \cup found
    BY DEF Missing, ToUpload
  <1>4. \/ cache' = noted /\ Raises /\ UNCHANGED <<file, disk, excused>>
        \/ /\ Missing(found) = {} /\ Saves(noted) /\ Finishes
           /\ excused' = excused \cup Overwritten
    OBVIOUS
  <1> HIDE DEF found, noted
  <1> QED BY <1>1, <1>2, <1>3, <1>4 DEF Saves

----
(* Types *)

LEMMA InitTypes == Init => TypeInv
  <1> SUFFICES ASSUME Init PROVE TypeInv
    OBVIOUS
  <1>1. remote \in [Case -> 0..MaxExamples]
    BY CasesAssumption DEF Init
  <1>2. pos \in Stages /\ runs \in 0..MaxRuns /\ commands \in 0..MaxCommands
    BY CasesAssumption DEF Init, Stages, Build
  <1>3. byHand \in [Case -> {"none", "approved", "rejected"}]
    BY DEF Init
  <1>4. TypeOK
    BY <1>1, <1>2, <1>3, EmptyType DEF Init, TypeOK
  <1> QED BY <1>4 DEF Init, TypeInv, UploadHasDataset, HandDecides

LEMMA StagesAreStages ==
  /\ Build \in Stages /\ Publish \in Stages
  /\ \A s \in Stages : (IF s < Publish THEN s + 1 ELSE s) \in Stages
  BY DEF Stages, Build, Publish

\* How a stage ends.
LEMMA EndOfStage ==
  ASSUME TypeOK, Finishes \/ Raises
  PROVE  pos' \in Stages /\ run' \in {"next", "finish"}
  BY StagesAreStages DEF TypeOK, Finishes, Raises

LEMMA TypesStep == TypeInv /\ [Next]_vars => TypeInv'
  <1> SUFFICES ASSUME TypeInv, [Next]_vars PROVE TypeInv'
    OBVIOUS
  <1>0. TypeOK /\ UploadHasDataset /\ HandDecides
    BY DEF TypeInv
  <1> USE <1>0, CasesAssumption, StagesAreStages DEF TypeInv, UploadHasDataset, HandDecides
  <1>1. CASE Start
    <2>1. pos' \in Stages
      BY <1>1 DEF Start, Stages
    <2>2. done' \subseteq Stages
      BY <1>1 DEF Start, TypeOK
    <2>3. runs' \in 0..MaxRuns
      BY <1>1 DEF Start, TypeOK
    <2> QED BY <1>1, <2>1, <2>2, <2>3 DEF Start, TypeOK
  <1>2. CASE Pass
    BY <1>2 DEF Pass, TypeOK, counters
  <1>3. CASE Begin
    BY <1>3 DEF Begin, TypeOK, counters
  <1>4. CASE Commit
    BY <1>4 DEF Commit, TypeOK, counters
  <1>5. CASE End
    <2>1. Unsaved \subseteq Case
      BY DEF Unsaved, TypeOK, Doc
    <2> QED BY <1>5, <2>1, EmptyType DEF End, TypeOK, counters, Overwritten
  <1>6. CASE Fails
    <2>1. cache' \in Doc \cup {NoDoc}
      BY <1>6, DsType DEF Fails, TypeOK
    <2> QED BY <1>6, <2>1, EndOfStage DEF Fails, TypeOK, NothingSaved, Works, counters
  <1>7. CASE BuildDataset
    <2>1. cache' \in Doc /\ disk' \in Doc /\ file' = "whole"
      BY <1>7, EmptyType, AddedEffect DEF BuildDataset, Saves
    <2> QED BY <1>7, <2>1, EndOfStage DEF BuildDataset, TypeOK, Works, counters, Overwritten
  <1>8. CASE ReviewCases
    <2>1. cache' \in Doc /\ disk' \in Doc /\ file' \in {"whole", file}
      BY <1>8, DsType, ReviewEffect DEF ReviewCases, ReviewsNothing, ReviewsPending, Saves, TypeOK
    <2>2. pos' \in Stages /\ run' \in {"next", "finish", "over"}
      BY <1>8, EndOfStage DEF ReviewCases, ReviewsNothing, ReviewsPending, TypeOK
    <2> QED BY <1>8, <2>1, <2>2 DEF ReviewCases, TypeOK, Works, counters, Overwritten
  <1>9. CASE VerifyMocks \/ InferCases
    <2>1. cache' \in Doc
      BY <1>9, DsType DEF VerifyMocks, InferCases
    <2> QED BY <1>9, <2>1, EndOfStage
            DEF VerifyMocks, InferCases, TypeOK, NothingSaved, Works, counters
  <1>10. CASE SimulateScenarios
    <2>1. cache' \in Doc /\ disk' \in Doc /\ file' \in {"whole", file}
      BY <1>10, DsType, AddedEffect DEF SimulateScenarios, Saves, TypeOK
    <2>2. excused' \subseteq Case /\ again' \subseteq Case
      BY <1>10 DEF SimulateScenarios, TypeOK, Overwritten
    <2>3. Finishes \/ Raises
      BY <1>10 DEF SimulateScenarios
    <2> QED BY <1>10, <2>1, <2>2, <2>3, EndOfStage DEF SimulateScenarios, TypeOK, Works, counters
  <1>11. CASE Upload
    <2>1. cache' \in Doc /\ cache' # NoDoc
      BY <1>11, DsType, NoDocIsNoDocument DEF Upload
    <2>2. remote' \in [Case -> 0..MaxExamples]
      <3> PICK created \in SUBSET ToUpload(Ds) :
             remote' = [c \in Case |-> IF c \in created THEN remote[c] + 1 ELSE remote[c]]
        BY <1>11 DEF Upload
      <3>1. \A c \in created : remote[c] < MaxExamples
        BY <1>11 DEF Upload
      <3>2. \A c \in Case : remote[c] \in 0..MaxExamples
        BY DEF TypeOK
      <3> QED BY <3>1, <3>2
    <2>3. pos' \in Stages /\ run' \in {"next", "uploaded"}
      BY <1>11, EndOfStage DEF Upload, TypeOK, Raises
    <2>4. again' \subseteq Case
      BY <1>11 DEF Upload, TypeOK, ToUpload, With
    <2> QED BY <1>11, <2>1, <2>2, <2>3, <2>4 DEF Upload, TypeOK, NothingSaved, Works, counters
  <1>12. CASE ReadBack
    <2>1. cache \in Doc
      BY <1>12 DEF ReadBack, TypeOK
    <2>2. cache' \in Doc /\ disk' \in Doc /\ file' \in {"whole", file}
      BY <1>12, <2>1, ReadBackEffect DEF TypeOK
    <2>3. excused' \subseteq Case /\ again' \subseteq Case
      BY <1>12 DEF ReadBack, TypeOK, Overwritten, Missing, ToUpload, With
    <2>4. Finishes \/ Raises
      BY <1>12 DEF ReadBack
    <2> QED BY <1>12, <2>2, <2>3, <2>4, EndOfStage DEF ReadBack, TypeOK, Works, counters
  <1>13. CASE PersonLoads
    <2>1. /\ hand' \in [doc : Doc, on : Case]
          /\ hand'.doc.status[hand'.on] \in {"approved", "rejected"}
      <3> PICK c \in Cases(disk), decision \in {"approved", "rejected"} :
             hand' = [doc |-> SetReview(disk, {c}, decision), on |-> c]
        BY <1>13 DEF PersonLoads
      <3>1. SetReview(disk, {c}, decision) \in Doc /\ c \in Case
        BY SetReviewEffect DEF TypeOK, Cases, Status
      <3>2. SetReview(disk, {c}, decision).status[c] = decision
        BY <3>1, SetReviewEffect DEF TypeOK, Status
      <3> QED BY <3>1, <3>2
    <2>2. commands' \in 0..MaxCommands
      BY <1>13 DEF PersonLoads, TypeOK
    <2> QED BY <1>13, <2>1, <2>2 DEF PersonLoads, TypeOK
  <1>14. CASE PersonSaves
    <2>1. hand \in [doc : Doc, on : Case] /\ hand.doc \in Doc /\ hand.on \in Case
      BY <1>14 DEF PersonSaves, TypeOK
    <2>2. byHand' \in [Case -> {"none", "approved", "rejected"}]
      BY <1>14, <2>1 DEF PersonSaves, TypeOK
    <2> QED BY <1>14, <2>1, <2>2 DEF PersonSaves, TypeOK, counters
  <1>15. CASE OtherRemote
    <2>1. remote' \in [Case -> 0..MaxExamples] /\ commands' \in 0..MaxCommands
      BY <1>15 DEF OtherRemote, TypeOK
    <2> QED BY <1>15, <2>1 DEF OtherRemote, TypeOK
  <1>16. CASE UNCHANGED vars
    BY <1>16 DEF vars, TypeOK
  <1> QED BY <1>1, <1>2, <1>3, <1>4, <1>5, <1>6, <1>7, <1>8, <1>9, <1>10, <1>11, <1>12, <1>13,
             <1>14, <1>15, <1>16 DEF Next

LEMMA TypesHold == Spec => []TypeInv
  BY InitTypes, TypesStep, PTL DEF Spec

\* Every variable of the dataset's life keeps its type.
THEOREM DatasetTypes == Spec => []TypeOK
  <1>1. TypeInv => TypeOK
    BY DEF TypeInv
  <1> QED BY <1>1, TypesHold, PTL

----
(* Decisions *)

\* A document keeps to the last decision on a case.
Respects(doc, c) ==
  /\ byHand[c] = "rejected" => doc.status[c] = "rejected"
  /\ byHand[c] = "approved" /\ c \notin Unmocked => doc.status[c] = "approved"

\* Every document does, wherever it is; a command's, but for the case it decides on.
DiskRespects == file = "whole" => \A c \in Case \ excused : Respects(disk, c)
CacheRespects == cache # NoDoc => \A c \in Case \ excused : Respects(cache, c)
HandRespects == hand # NoHand => \A c \in Case \ (excused \cup {hand.on}) : Respects(hand.doc, c)
DecisionInv == DiskRespects /\ CacheRespects /\ HandRespects

LEMMA InitDecisions == Init => DecisionInv
  BY DEF Init, DecisionInv, DiskRespects, CacheRespects, HandRespects

LEMMA DsRespects ==
  ASSUME DecisionInv, Readable
  PROVE  \A c \in Case \ excused : Respects(Ds, c)
  BY DEF DecisionInv, DiskRespects, CacheRespects, Readable, Ds

\* A step that decides nothing, and after which the run's document and the file are what
\* they were, or a document that keeps to the decisions, loses no decision.
LEMMA NothingDecided ==
  ASSUME DecisionInv, TypeOK, UNCHANGED <<byHand, hand>>, excused \subseteq excused',
         \/ UNCHANGED <<file, disk>>
         \/ file' = "torn"
         \/ \A c \in Case \ excused' : Respects(disk', c),
         \/ cache' \in {cache, NoDoc}
         \/ \A c \in Case \ excused' : Respects(cache', c)
  PROVE  DecisionInv'
  <1>1. DiskRespects'
    BY DEF DecisionInv, DiskRespects, Respects
  <1>2. CacheRespects'
    BY DEF DecisionInv, CacheRespects, Respects
  <1>3. HandRespects'
    BY DEF DecisionInv, HandRespects, Respects
  <1> QED BY <1>1, <1>2, <1>3 DEF DecisionInv

LEMMA DecisionsStep == TypeInv /\ DecisionInv /\ [Next]_vars => DecisionInv'
  <1> SUFFICES ASSUME TypeInv, DecisionInv, [Next]_vars PROVE DecisionInv'
    OBVIOUS
  <1>0. TypeOK /\ HandDecides
    BY DEF TypeInv
  <1>1. CASE Start \/ Pass \/ Begin \/ Commit \/ OtherRemote \/ UNCHANGED vars
    BY <1>0, <1>1, NothingDecided DEF Start, Pass, Begin, Commit, OtherRemote, vars
  <1>2. CASE End
    BY <1>0, <1>2, NothingDecided DEF End
  <1>3. CASE Fails \/ VerifyMocks \/ InferCases \/ Upload
    <2>1. NothingSaved /\ Works
      BY <1>3 DEF Fails, VerifyMocks, InferCases, Upload
    <2>2. cache' = cache \/ (Readable /\ cache' = Ds)
      <3>1. CASE Fails
        BY <3>1 DEF Fails
      <3>2. CASE VerifyMocks \/ InferCases \/ Upload
        BY <3>2 DEF VerifyMocks, InferCases, Upload
      <3> QED BY <1>3, <3>1, <3>2
    <2> QED BY <1>0, <2>1, <2>2, DsRespects, NothingDecided DEF NothingSaved, Works
  <1>4. CASE BuildDataset
    \* Whoever had decided on a case is excused.
    <2>1. /\ UNCHANGED <<byHand, hand>> /\ excused \subseteq excused'
          /\ \A c \in Case \ excused' : byHand[c] = "none"
      BY <1>4 DEF BuildDataset, Works
    <2> QED BY <1>0, <1>4, <2>1, NothingDecided DEF BuildDataset, Saves, Respects
  <1>5. CASE ReviewCases
    <2>1. UNCHANGED <<byHand, hand>> /\ excused \subseteq excused' /\ Readable
      BY <1>5 DEF ReviewCases, ReviewsNothing, ReviewsPending, Works
    <2>2. \A verdicts \in SUBSET With(Ds, "pending") :
            \A doc \in {Rejects(verdicts), Approved(verdicts)} :
              \A c \in Case \ excused : Respects(doc, c)
      BY <1>0, <2>1, ReviewEffect, DsRespects DEF Respects
    <2>3. \/ UNCHANGED <<file, disk>>
          \/ \A c \in Case \ excused : Respects(disk', c)
      BY <1>5, <2>1, <2>2, DsRespects DEF ReviewCases, ReviewsNothing, ReviewsPending, Saves
    <2>4. \A c \in Case \ excused : Respects(cache', c)
      BY <1>5, <2>1, <2>2, DsRespects DEF ReviewCases, ReviewsNothing, ReviewsPending, Saves
    <2> QED BY <1>0, <2>1, <2>3, <2>4, NothingDecided
  <1>6. CASE SimulateScenarios
    <2>1. UNCHANGED <<byHand, hand>> /\ excused \subseteq excused' /\ Readable
      BY <1>6 DEF SimulateScenarios, Works
    \* Nobody has decided on a case that is not there, unless the dataset was built again.
    <2>2. ASSUME NEW cs \in SUBSET (Case \ Cases(Ds))
          PROVE  \A c \in Case \ excused : Respects(Added(Ds, cs), c)
      BY <1>0, <2>1, AddedEffect, DsType, DsRespects DEF Respects, Cases, With
    <2>3. \/ UNCHANGED <<file, disk>>
          \/ \A c \in Case \ excused : Respects(disk', c)
      BY <1>6, <2>2 DEF SimulateScenarios, Saves, Case
    <2>4. \A c \in Case \ excused : Respects(cache', c)
      BY <1>6, <2>1, <2>2, DsRespects DEF SimulateScenarios, Saves, Case
    <2> QED BY <1>0, <2>1, <2>3, <2>4, NothingDecided
  <1>7. CASE ReadBack
    <2>1. cache \in Doc /\ cache # NoDoc
      BY <1>7, <1>0, NoDocIsNoDocument DEF ReadBack, TypeInv, UploadHasDataset, TypeOK
    <2>2. cache'.status = cache.status /\ (disk' = cache' \/ UNCHANGED <<file, disk>>)
      BY <1>7, <1>0, <2>1, ReadBackEffect
    <2>3. UNCHANGED <<byHand, hand>> /\ excused \subseteq excused'
      BY <1>7 DEF ReadBack, Works
    <2>4. \A c \in Case \ excused : Respects(cache', c)
      BY <2>1, <2>2 DEF DecisionInv, CacheRespects, Respects
    <2> QED BY <1>0, <2>2, <2>3, <2>4, NothingDecided
  <1>8. CASE PersonLoads
    <2>1. PICK c \in Cases(disk), decision \in {"approved", "rejected"} :
            hand' = [doc |-> SetReview(disk, {c}, decision), on |-> c]
      BY <1>8 DEF PersonLoads
    <2>2. UNCHANGED <<file, disk, cache, excused, byHand>> /\ file = "whole"
      BY <1>8 DEF PersonLoads
    <2>3. \A d \in Case \ (excused \cup {c}) : SetReview(disk, {c}, decision).status[d] = disk.status[d]
      BY <1>0, SetReviewEffect DEF TypeOK, Status
    <2>4. HandRespects'
      BY <2>1, <2>2, <2>3 DEF DecisionInv, DiskRespects, HandRespects, Respects
    <2>5. DiskRespects' /\ CacheRespects'
      BY <2>2 DEF DecisionInv, DiskRespects, CacheRespects, Respects
    <2> QED BY <2>4, <2>5 DEF DecisionInv
  <1>9. CASE PersonSaves
    \* The run's document may miss the decision: then it is excused.
    <2>1. hand \in [doc : Doc, on : Case] /\ hand # NoHand /\ UNCHANGED cache
      BY <1>0, <1>9 DEF PersonSaves, TypeOK
    <2>2. /\ byHand' = [byHand EXCEPT ![hand.on] = hand.doc.status[hand.on]]
          /\ disk' = hand.doc
          /\ excused' = IF cache = NoDoc THEN excused \ {hand.on} ELSE excused \cup {hand.on}
      BY <1>9 DEF PersonSaves
    <2>3. byHand'[hand.on] = disk'.status[hand.on]
      BY <1>0, <2>1, <2>2 DEF TypeOK
    <2>4. \A c \in Case \ {hand.on} : byHand'[c] = byHand[c]
      BY <1>0, <2>1, <2>2 DEF TypeOK
    <2>5. DiskRespects'
      BY <2>1, <2>2, <2>3, <2>4 DEF DecisionInv, HandRespects, DiskRespects, Respects
    <2>6. CacheRespects'
      BY <2>1, <2>2, <2>4 DEF DecisionInv, CacheRespects, Respects
    <2>7. HandRespects'
      BY <1>9 DEF PersonSaves, HandRespects
    <2> QED BY <2>5, <2>6, <2>7 DEF DecisionInv
  <1> QED BY <1>1, <1>2, <1>3, <1>4, <1>5, <1>6, <1>7, <1>8, <1>9 DEF Next

\* What a person decided on a case stays in dataset.json, but for the excused.
THEOREM DecisionsStand == Spec => []DecisionStands
  <1>1. DecisionInv => DecisionStands
    BY DEF DecisionInv, DiskRespects, Respects, DecisionStands
  <1> QED BY <1>1, InitDecisions, DecisionsStep, TypesHold, PTL DEF Spec

----
(* Example ids *)

\* An id recorded in a document, wherever it is, names an example.
Names(doc) == \A c \in doc.example : remote[c] > 0
IdsInv ==
  \/ moved
  \/ /\ Names(disk)
     /\ cache # NoDoc => Names(cache)
     /\ hand # NoHand => Names(hand.doc)
\* The publish stage ends with all ids recorded in the run's document.
RecordedInv ==
  run = "finish" /\ pos = Publish => With(cache, "approved") \subseteq cache.example
PublicationInv == IdsInv /\ RecordedInv

LEMMA InitPublication == Init => PublicationInv
  BY DEF Init, PublicationInv, IdsInv, RecordedInv, Names, Empty

\* A step that records no new id keeps them named.
LEMMA NoIdRecorded ==
  ASSUME TypeOK, IdsInv, UNCHANGED <<moved, hand>>,
         \A c \in Case : remote[c] > 0 => remote'[c] > 0,
         \/ disk' = disk
         \/ disk'.example = {}
         \/ disk'.example = Ds.example /\ Readable,
         \/ cache' \in {cache, NoDoc}
         \/ cache'.example = {}
         \/ cache'.example = Ds.example /\ Readable
  PROVE  IdsInv'
  <1> SUFFICES ASSUME ~moved PROVE IdsInv'
    BY DEF IdsInv
  <1>1. Names(disk) /\ (cache # NoDoc => Names(cache)) /\ (hand # NoHand => Names(hand.doc))
    BY DEF IdsInv
  <1>2. /\ disk.example \subseteq Case
        /\ cache # NoDoc => cache.example \subseteq Case
        /\ hand # NoHand => hand.doc.example \subseteq Case
    BY DEF TypeOK, Doc
  <1>3. Readable => Names(Ds) /\ Ds.example \subseteq Case
    BY <1>1, <1>2 DEF Readable, Ds
  <1>4. Names(disk)'
    BY <1>1, <1>2, <1>3 DEF Names
  <1>5. (cache # NoDoc => Names(cache))'
    BY <1>1, <1>2, <1>3 DEF Names
  <1>6. (hand # NoHand => Names(hand.doc))'
    BY <1>1, <1>2 DEF Names
  <1> QED BY <1>4, <1>5, <1>6 DEF IdsInv

LEMMA IdsStep == TypeInv /\ IdsInv /\ [Next]_vars => IdsInv'
  <1> SUFFICES ASSUME TypeInv, IdsInv, [Next]_vars PROVE IdsInv'
    OBVIOUS
  <1>0. TypeOK
    BY DEF TypeInv
  <1>1. CASE Start \/ Pass \/ Begin \/ Commit \/ UNCHANGED vars
    BY <1>0, <1>1, NoIdRecorded DEF Start, Pass, Begin, Commit, vars
  <1>2. CASE End
    BY <1>0, <1>2, NoIdRecorded DEF End, Empty
  <1>3. CASE Fails
    BY <1>0, <1>3, NoIdRecorded DEF Fails, NothingSaved, Works
  <1>4. CASE VerifyMocks \/ InferCases
    BY <1>0, <1>4, NoIdRecorded DEF VerifyMocks, InferCases, NothingSaved, Works
  <1>5. CASE BuildDataset
    <2>1. disk'.example = {} /\ cache'.example = {}
      <3>1. PICK cs : Saves(Added(Empty, cs))
        BY <1>5 DEF BuildDataset
      <3>2. Added(Empty, cs).example = Empty.example
        BY EmptyType, AddedEffect
      <3> QED BY <3>1, <3>2 DEF Saves, Empty
    <2> QED BY <1>0, <1>5, <2>1, NoIdRecorded DEF BuildDataset, Works
  <1>6. CASE ReviewCases
    <2>1. Readable /\ UNCHANGED <<moved, hand, remote>>
      BY <1>6 DEF ReviewCases, ReviewsNothing, ReviewsPending, Works
    <2>2. cache'.example = Ds.example /\ (disk' = disk \/ disk' = cache')
      BY <1>0, <1>6, <2>1, ReviewEffect DEF ReviewCases, ReviewsNothing, ReviewsPending, Saves
    <2> QED BY <1>0, <2>1, <2>2, NoIdRecorded
  <1>7. CASE SimulateScenarios
    <2>1. Readable /\ UNCHANGED <<moved, hand, remote>>
      BY <1>7 DEF SimulateScenarios, Works
    <2>2. cache'.example = Ds.example /\ (disk' = disk \/ disk' = cache')
      BY <1>0, <1>7, <2>1, DsType, AddedEffect DEF SimulateScenarios, Saves
    <2> QED BY <1>0, <2>1, <2>2, NoIdRecorded
  <1>8. CASE Upload
    <2>1. \A c \in Case : remote[c] > 0 => remote'[c] > 0
      BY <1>0, <1>8 DEF Upload, TypeOK
    <2> QED BY <1>0, <1>8, <2>1, NoIdRecorded DEF Upload, NothingSaved, Works
  <1>9. CASE ReadBack
    <2>1. cache \in Doc /\ cache # NoDoc
      BY <1>9, <1>0, NoDocIsNoDocument DEF ReadBack, TypeInv, UploadHasDataset, TypeOK
    <2>2. PICK found \in SUBSET {c \in With(cache, "approved") : remote[c] > 0} :
            /\ cache'.example = cache.example \cup found
            /\ disk' = cache' \/ disk' = disk
      BY <1>9, <1>0, <2>1, ReadBackEffect
    <2>3. UNCHANGED <<remote, moved, hand>>
      BY <1>9 DEF ReadBack, Works
    <2> QED BY <2>1, <2>2, <2>3 DEF IdsInv, Names
  <1>10. CASE PersonLoads
    <2>1. PICK c \in Cases(disk), decision \in {"approved", "rejected"} :
            hand' = [doc |-> SetReview(disk, {c}, decision), on |-> c]
      BY <1>10 DEF PersonLoads
    <2>2. hand'.doc.example = disk.example
      BY <1>0, <2>1, SetReviewEffect DEF TypeOK, Status
    <2> QED BY <1>10, <2>2 DEF PersonLoads, IdsInv, Names
  <1>11. CASE PersonSaves
    BY <1>11 DEF PersonSaves, IdsInv, Names
  <1>12. CASE OtherRemote
    BY <1>12 DEF OtherRemote, IdsInv
  <1> QED BY <1>1, <1>2, <1>3, <1>4, <1>5, <1>6, <1>7, <1>8, <1>9, <1>10, <1>11, <1>12 DEF Next

LEMMA RecordedStep == TypeInv /\ RecordedInv /\ [Next]_vars => RecordedInv'
  <1> SUFFICES ASSUME TypeInv, RecordedInv, [Next]_vars, run' = "finish", pos' = Publish
               PROVE  (With(cache, "approved") \subseteq cache.example)'
    BY DEF RecordedInv
  <1>0. TypeOK
    BY DEF TypeInv
  <1>1. CASE ReadBack
    <2>1. cache \in Doc
      BY <1>1, <1>0 DEF ReadBack, TypeInv, UploadHasDataset, TypeOK
    <2>2. PICK found \in SUBSET {c \in With(cache, "approved") : remote[c] > 0} :
            /\ cache'.status = cache.status
            /\ cache'.example = cache.example \cup found
            /\ Raises \/ With(cache, "approved") \subseteq cache.example \cup found
      BY <1>1, <1>0, <2>1, ReadBackEffect
    <2> QED BY <2>2 DEF Raises, With
  <1>2. CASE PersonLoads \/ PersonSaves \/ OtherRemote \/ UNCHANGED vars
    BY <1>2 DEF PersonLoads, PersonSaves, OtherRemote, vars, RecordedInv, With
  <1>3. CASE Start \/ Pass \/ Begin \/ Commit \/ End
    BY <1>3 DEF Start, Pass, Begin, Commit, End
  <1>4. CASE Fails \/ Upload
    BY <1>4 DEF Fails, Upload, Raises
  <1>5. CASE BuildDataset \/ VerifyMocks \/ InferCases
    BY <1>5 DEF BuildDataset, VerifyMocks, InferCases, At, Finishes, Build, Verify, Infer, Publish
  <1>6. CASE ReviewCases
    BY <1>6 DEF ReviewCases, ReviewsNothing, ReviewsPending, At, Finishes, Raises, Review, Publish
  <1>7. CASE SimulateScenarios
    BY <1>7 DEF SimulateScenarios, At, Finishes, Raises, Simulate, Publish
  <1> QED BY <1>1, <1>2, <1>3, <1>4, <1>5, <1>6, <1>7 DEF Next

\* A publication that succeeded has recorded every approved case, and what any document
\* records is in the LangSmith dataset, unless that was replaced.
THEOREM PublicationsAreThere == Spec => []PublishedIsThere
  <1>1. PublicationInv => PublishedIsThere
    BY DEF PublicationInv, IdsInv, RecordedInv, Names, PublishedIsThere
  <1>2. TypeInv /\ PublicationInv /\ [Next]_vars => PublicationInv'
    BY IdsStep, RecordedStep DEF PublicationInv
  <1> QED BY <1>1, <1>2, InitPublication, TypesHold, PTL DEF Spec

----
(* Approvals *)

\* A run that is down has let go of the dataset; a stage that works is not complete, and
\* those it depends on are; only the publication uploads.
RunInv ==
  /\ run = "down" => cache = NoDoc
  /\ run \in {"work", "uploaded"} => pos \notin done /\ Deps[pos] \subseteq done
  /\ run = "uploaded" => pos = Publish
\* The run's document approves no case that the file does not, unless a review by config
\* failed before its save: then no stage that depends on the review can save it.
CacheApproves ==
  cache # NoDoc /\ (Review \in done \/ ~auto \/ (run = "finish" /\ pos = Review))
    => With(cache, "approved") \subseteq With(disk, "approved") \cup excused
\* What a command will write differs from the file in the case it decides on.
HandApproves ==
  hand # NoHand =>
    \A c \in Case \ (excused \cup {hand.on}) : hand.doc.status[c] = disk.status[c]
ApprovalInv == RunInv /\ CacheApproves /\ HandApproves

LEMMA StageNumbers ==
  /\ Build = 1 /\ Review = 2 /\ Verify = 3 /\ Infer = 4 /\ Simulate = 5 /\ Publish = 6
  /\ Deps[Build] = {} /\ Deps[Review] = {Build} /\ Deps[Verify] = {Review}
  /\ Deps[Infer] = {Verify} /\ Deps[Simulate] = {Review, Verify} /\ Deps[Publish] = {Review}
  BY DEF Build, Review, Verify, Infer, Simulate, Publish, Deps

LEMMA RunStep == TypeInv /\ RunInv /\ [Next]_vars => RunInv'
  <1> SUFFICES ASSUME TypeInv, RunInv, [Next]_vars PROVE RunInv'
    OBVIOUS
  <1> USE DEF RunInv
  <1>1. CASE Start \/ Pass \/ Commit \/ End
    BY <1>1 DEF Start, Pass, Commit, End
  <1>2. CASE Begin
    BY <1>2 DEF Begin
  <1>3. CASE Fails \/ BuildDataset \/ VerifyMocks \/ InferCases \/ SimulateScenarios \/ ReadBack
    <2>1. Finishes \/ Raises
      BY <1>3 DEF Fails, BuildDataset, VerifyMocks, InferCases, SimulateScenarios, ReadBack
    <2> QED BY <2>1 DEF Finishes, Raises
  <1>4. CASE ReviewCases
    BY <1>4 DEF ReviewCases, ReviewsNothing, ReviewsPending, Finishes, Raises
  <1>5. CASE Upload
    BY <1>5 DEF Upload, At, Raises, Works
  <1>6. CASE PersonLoads \/ PersonSaves \/ OtherRemote \/ UNCHANGED vars
    BY <1>6 DEF PersonLoads, PersonSaves, OtherRemote, vars
  <1> QED BY <1>1, <1>2, <1>3, <1>4, <1>5, <1>6 DEF Next

\* A stage whose review is behind it, or that reviews without approving, works on a
\* document that approves nothing new.
LEMMA DsApproves ==
  ASSUME CacheApproves, Readable, Review \in done \/ ~auto
  PROVE  With(Ds, "approved") \subseteq With(disk, "approved") \cup excused
  BY DEF CacheApproves, Ds

\* A step of the run: it saves nothing, or a document it holds.
LEMMA RunApprovals ==
  ASSUME TypeOK, HandApproves, UNCHANGED hand,
         \/ UNCHANGED <<disk, excused>>
         \/ excused' = excused \cup Overwritten,
         \/ cache' = NoDoc \/ cache' = disk'
         \/ ~(Review \in done' \/ ~auto' \/ (run' = "finish" /\ pos' = Review))
         \/ With(cache', "approved") \subseteq With(disk', "approved") \cup excused'
  PROVE  CacheApproves' /\ HandApproves'
  <1>1. CacheApproves'
    BY DEF CacheApproves
  <1>2. HandApproves'
    BY DEF HandApproves, Overwritten
  <1> QED BY <1>1, <1>2

LEMMA ApprovalsStep ==
  TypeInv /\ ApprovalInv /\ [Next]_vars => CacheApproves' /\ HandApproves' /\ ApprovedByDecision
  <1> SUFFICES ASSUME TypeInv, ApprovalInv, [Next]_vars
               PROVE  CacheApproves' /\ HandApproves' /\ ApprovedByDecision
    OBVIOUS
  <1>0. TypeOK /\ UploadHasDataset /\ RunInv /\ CacheApproves /\ HandApproves
    BY DEF TypeInv, ApprovalInv
  \* What a step has to show that saves nothing, or what it holds.
  <1>A. ASSUME UNCHANGED disk PROVE ApprovedByDecision
    BY <1>A DEF ApprovedByDecision, Approves
  <1>B. ASSUME With(disk', "approved") \subseteq With(disk, "approved") \cup excused'
        PROVE  ApprovedByDecision
    BY <1>B DEF ApprovedByDecision, Approves
  <1>1. CASE Start \/ Pass \/ Begin \/ Commit \/ OtherRemote \/ UNCHANGED vars
    <2>1. UNCHANGED <<disk, cache, hand, excused>>
      BY <1>1 DEF Start, Pass, Begin, Commit, OtherRemote, vars
    <2>2. cache = NoDoc
          \/ (Review \in done' \/ ~auto' \/ (run' = "finish" /\ pos' = Review)
                => Review \in done \/ ~auto \/ (run = "finish" /\ pos = Review))
      BY <1>0, <1>1 DEF Start, Pass, Begin, Commit, OtherRemote, vars, RunInv
    <2> QED BY <1>0, <1>A, <2>1, <2>2 DEF CacheApproves, HandApproves, With
  <1>2. CASE End
    <2>1. With(Empty, "approved") = {}
      BY DEF With, Empty
    <2>2. \/ UNCHANGED <<disk, excused>>
          \/ disk' = Empty /\ excused' = excused \cup Overwritten
      BY <1>2 DEF End
    <2>3. cache' = NoDoc /\ UNCHANGED hand
      BY <1>2 DEF End
    <2> QED BY <1>0, <1>A, <1>B, <2>1, <2>2, <2>3, RunApprovals
  <1>3. CASE Fails \/ VerifyMocks \/ InferCases \/ Upload
    <2>1. UNCHANGED <<disk, excused, hand, auto, done>>
      BY <1>3 DEF Fails, VerifyMocks, InferCases, Upload, NothingSaved, Works
    <2>2. ~(run' = "finish" /\ pos' = Review)
      BY <1>3, StageNumbers
         DEF Fails, VerifyMocks, InferCases, Upload, At, Finishes, Raises
    <2>3. cache' = cache \/ (Readable /\ cache' = Ds)
      <3>1. CASE Fails
        BY <3>1 DEF Fails
      <3>2. CASE VerifyMocks \/ InferCases \/ Upload
        BY <3>2 DEF VerifyMocks, InferCases, Upload
      <3> QED BY <1>3, <3>1, <3>2
    <2>4. \/ cache' = NoDoc
          \/ ~(Review \in done' \/ ~auto' \/ (run' = "finish" /\ pos' = Review))
          \/ With(cache', "approved") \subseteq With(disk', "approved") \cup excused'
      BY <1>0, <2>1, <2>2, <2>3, DsApproves DEF CacheApproves
    <2> QED BY <1>0, <1>A, <2>1, <2>4, RunApprovals
  <1>4. CASE BuildDataset
    <2>1. PICK cs : Saves(Added(Empty, cs))
      BY <1>4 DEF BuildDataset
    <2>2. With(disk', "approved") = {} /\ cache' = disk'
      BY <2>1, EmptyType, AddedEffect DEF Saves, With, Empty
    <2>3. UNCHANGED hand /\ Overwritten \subseteq excused' /\ excused \subseteq excused'
      BY <1>4 DEF BuildDataset, Works
    <2>4. HandApproves' /\ CacheApproves'
      BY <1>0, <2>2, <2>3 DEF HandApproves, Overwritten, CacheApproves
    <2> QED BY <1>B, <2>2, <2>4
  <1>5. CASE ReviewCases
    <2>1. /\ Readable /\ run = "work" /\ pos = Review /\ Review \notin done
          /\ UNCHANGED <<hand, auto, done>> /\ excused' = excused \cup Overwritten
      BY <1>0, <1>5 DEF ReviewCases, ReviewsNothing, ReviewsPending, Works, At, RunInv
    <2>2. ASSUME NEW verdicts \in SUBSET With(Ds, "pending")
          PROVE  With(Rejects(verdicts), "approved") \subseteq With(Ds, "approved")
      <3>1. Ds \in Doc /\ "rejected" \in Status
        BY <1>0, <2>1, DsType DEF Status
      <3> QED BY <3>1, SetReviewEffect DEF Rejects, With
    <2>3. \/ cache' = disk' /\ (auto \/ With(disk', "approved") \subseteq With(Ds, "approved"))
          \/ UNCHANGED disk /\ auto /\ run' = "next"
      <3>1. CASE ReviewsNothing
        BY <3>1 DEF ReviewsNothing, Saves
      <3>2. CASE ReviewsPending
        BY <2>2, <3>2 DEF ReviewsPending, Saves, Raises
      <3> QED BY <1>5, <3>1, <3>2 DEF ReviewCases
    <2>4. CacheApproves' /\ HandApproves'
      BY <1>0, <2>1, <2>3, RunApprovals
    <2>5. CASE auto
      BY <2>1, <2>4, <2>5 DEF ApprovedByDecision, ReviewsByConfig
    <2>6. CASE ~auto
      BY <1>0, <1>B, <2>1, <2>3, <2>4, <2>6, DsApproves
    <2> QED BY <2>4, <2>5, <2>6
  <1>6. CASE SimulateScenarios
    <2>1. Readable /\ Review \in done /\ UNCHANGED <<hand, auto, done>>
      BY <1>0, <1>6, StageNumbers DEF SimulateScenarios, At, RunInv, Works
    <2>2. \A cs : With(Added(Ds, cs), "approved") \subseteq With(Ds, "approved")
      BY <1>0, <2>1, DsType, AddedEffect DEF With
    <2>3. \/ UNCHANGED <<disk, excused>>
          \/ excused' = excused \cup Overwritten /\ cache' = disk'
      BY <1>6 DEF SimulateScenarios, Saves
    <2>4. With(cache', "approved") \subseteq With(Ds, "approved")
      BY <1>6, <2>2 DEF SimulateScenarios, Saves
    <2>5. With(cache', "approved") \subseteq With(disk, "approved") \cup excused
      BY <1>0, <2>1, <2>4, DsApproves
    <2>6. CacheApproves' /\ HandApproves'
      BY <1>0, <2>1, <2>3, <2>5, RunApprovals
    <2> QED BY <1>A, <1>B, <2>3, <2>5, <2>6
  <1>7. CASE ReadBack
    <2>1. /\ cache \in Doc /\ cache # NoDoc /\ Review \in done
          /\ UNCHANGED <<hand, auto, done>>
      BY <1>0, <1>7, NoDocIsNoDocument, StageNumbers DEF ReadBack, UploadHasDataset, TypeOK, RunInv, Works
    <2>2. /\ cache'.status = cache.status
          /\ \/ UNCHANGED <<disk, excused>>
             \/ disk' = cache' /\ excused' = excused \cup Overwritten
      BY <1>0, <1>7, <2>1, ReadBackEffect
    <2>3. With(cache', "approved") \subseteq With(disk, "approved") \cup excused
      BY <1>0, <2>1, <2>2 DEF CacheApproves, With
    <2>4. CacheApproves' /\ HandApproves'
      BY <1>0, <2>1, <2>2, <2>3, RunApprovals
    <2> QED BY <1>A, <1>B, <2>2, <2>3, <2>4
  <1>8. CASE PersonLoads
    <2>1. PICK c \in Cases(disk), decision \in {"approved", "rejected"} :
            hand' = [doc |-> SetReview(disk, {c}, decision), on |-> c]
      BY <1>8 DEF PersonLoads
    <2>2. UNCHANGED <<disk, cache, excused, run, pos, auto, done>>
      BY <1>8 DEF PersonLoads
    <2>3. \A d \in Case \ {c} : SetReview(disk, {c}, decision).status[d] = disk.status[d]
      BY <1>0, SetReviewEffect DEF TypeOK, Status
    <2>4. HandApproves'
      BY <2>1, <2>2, <2>3 DEF HandApproves
    <2>5. CacheApproves'
      BY <1>0, <2>2 DEF CacheApproves, With
    <2> QED BY <1>A, <2>2, <2>4, <2>5
  <1>9. CASE PersonSaves
    <2>1. /\ hand # NoHand /\ hand' = NoHand /\ disk' = hand.doc
          /\ UNCHANGED <<cache, run, pos, auto, done>>
          /\ excused' = IF cache = NoDoc THEN excused \ {hand.on} ELSE excused \cup {hand.on}
      BY <1>9 DEF PersonSaves
    <2>2. \A c \in Case \ (excused \cup {hand.on}) : disk'.status[c] = disk.status[c]
      BY <1>0, <2>1 DEF HandApproves
    <2>3. ApprovedByDecision
      BY <2>1, <2>2 DEF ApprovedByDecision, Approves, DecidesOn, With
    <2>4. CacheApproves'
      BY <1>0, <2>1, <2>2 DEF CacheApproves, With
    <2> QED BY <2>1, <2>3, <2>4 DEF HandApproves
  <1> QED BY <1>1, <1>2, <1>3, <1>4, <1>5, <1>6, <1>7, <1>8, <1>9 DEF Next

LEMMA InitApprovals == Init => ApprovalInv
  BY DEF Init, ApprovalInv, RunInv, CacheApproves, HandApproves

LEMMA ApprovalsHold == Spec => []ApprovalInv
  <1>1. TypeInv /\ ApprovalInv /\ [Next]_vars => ApprovalInv'
    BY RunStep, ApprovalsStep DEF ApprovalInv
  <1> QED BY <1>1, InitApprovals, TypesHold, PTL DEF Spec

\* Nothing that is generated or mined approves itself: every approval that reaches
\* dataset.json comes from a review under auto_approve or from a person's decision.
THEOREM ApprovalsAreDecisions == Spec => NothingApprovesItself
  <1>1. TypeInv /\ ApprovalInv /\ [Next]_vars => [ApprovedByDecision]_vars
    BY ApprovalsStep
  <1> QED BY <1>1, ApprovalsHold, TypesHold, PTL DEF Spec, NothingApprovesItself

----
(* One example per case *)

\* Where the id of an example is recorded: in the run's document, or else in the file
\* and in what a command will write over it.
Recorded(c) ==
  IF cache # NoDoc THEN c \in cache.example
                   ELSE c \in disk.example /\ (hand # NoHand => c \in hand.doc.example)
\* The only example of the case is of the upload that is about to be read back.
Uploading(c) == run = "uploaded" /\ c \in ToUpload(cache)
\* An id in the file is in what a command will write over it.
HandRecords(c) == c \in disk.example /\ hand # NoHand => c \in hand.doc.example
OnceInv ==
  \A c \in Case \ again :
    /\ remote[c] > 0 => Recorded(c) \/ Uploading(c)
    /\ remote[c] <= 1
    /\ HandRecords(c)

LEMMA InitOnce == Init => OnceInv
  BY DEF Init, OnceInv, HandRecords

\* What was recorded is in the document a stage works on.
LEMMA DsRecords ==
  ASSUME OnceInv, run # "uploaded", NEW c \in Case \ again, remote[c] > 0
  PROVE  c \in Ds.example
  BY DEF OnceInv, Recorded, Uploading, Ds

\* A step that uploads nothing, and after which the run's document, still there or read in
\* this step, has all the ids it had; a save excuses what a command is about to overwrite.
LEMMA NothingUploaded ==
  ASSUME TypeOK, OnceInv, UNCHANGED <<remote, hand>>, again \subseteq again',
         run # "uploaded", cache' # NoDoc,
         Ds.example \subseteq cache'.example,
         \/ UNCHANGED disk
         \/ Overwritten \subseteq again'
  PROVE  OnceInv'
  <1> SUFFICES ASSUME NEW c \in Case \ again'
               PROVE  /\ remote'[c] > 0 => Recorded(c)'
                      /\ remote'[c] <= 1
                      /\ HandRecords(c)'
    BY DEF OnceInv
  <1>1. remote'[c] > 0 => Recorded(c)'
    BY DsRecords DEF Recorded
  <1>2. HandRecords(c)'
    BY DEF OnceInv, HandRecords, Overwritten
  <1> QED BY <1>1, <1>2 DEF OnceInv

LEMMA OnceStep == TypeInv /\ RunInv /\ OnceInv /\ [Next]_vars => OnceInv'
  <1> SUFFICES ASSUME TypeInv, RunInv, OnceInv, [Next]_vars PROVE OnceInv'
    OBVIOUS
  <1>0. TypeOK /\ UploadHasDataset
    BY DEF TypeInv
  <1>1. CASE Start \/ Pass \/ Begin \/ Commit \/ UNCHANGED vars
    <2>1. UNCHANGED <<disk, cache, hand, again, remote>>
      BY <1>1 DEF Start, Pass, Begin, Commit, vars
    <2>2. run = "uploaded" => run' = "uploaded"
      BY <1>1 DEF Start, Pass, Begin, Commit, vars
    <2> QED BY <2>1, <2>2 DEF OnceInv, Recorded, Uploading, ToUpload, With, HandRecords
  <1>2. CASE OtherRemote
    <2>1. \A c \in Case : remote'[c] = 0
      BY <1>2 DEF OtherRemote
    <2>2. UNCHANGED <<disk, hand, again>>
      BY <1>2 DEF OtherRemote
    <2> QED BY <2>1, <2>2 DEF OnceInv, HandRecords
  <1>3. CASE End
    \* What the run had only noted is excused; what is left is in the file.
    <2>1. /\ UNCHANGED <<hand, remote>> /\ cache' = NoDoc /\ run' = "down"
          /\ UNCHANGED disk \/ again' = Case
      BY <1>3 DEF End
    <2>2. again' = Case \/ (run # "uploaded" /\ again' = again \cup Unsaved)
      BY <1>3 DEF End
    <2>3. ASSUME NEW c \in Case \ again'
          PROVE  /\ remote'[c] > 0 => Recorded(c)'
                 /\ remote'[c] <= 1
                 /\ HandRecords(c)'
      <3>1. c \in Case \ again /\ c \notin Unsaved /\ run # "uploaded"
        BY <2>2, <2>3
      <3>2. remote[c] > 0 => c \in disk.example /\ (hand # NoHand => c \in hand.doc.example)
        BY <3>1 DEF OnceInv, Recorded, Uploading, HandRecords, Unsaved
      <3> QED BY <2>1, <2>3, <3>1, <3>2 DEF OnceInv, Recorded, HandRecords
    <2> QED BY <2>3 DEF OnceInv
  <1>4. CASE Fails \/ VerifyMocks \/ InferCases
    <2>1. /\ UNCHANGED <<disk, again, hand, remote>> /\ run = "work" /\ run' # "uploaded"
          /\ cache' = cache \/ (Readable /\ cache' = Ds)
      <3>1. CASE Fails
        BY <3>1 DEF Fails, NothingSaved, Works, Raises
      <3>2. CASE VerifyMocks \/ InferCases
        BY <3>2 DEF VerifyMocks, InferCases, NothingSaved, Works, Finishes, At
      <3> QED BY <1>4, <3>1, <3>2
    <2>2. CASE cache' = cache
      BY <2>1, <2>2 DEF OnceInv, Recorded, Uploading, HandRecords
    <2>3. CASE Readable /\ cache' = Ds
      <3>1. cache' # NoDoc
        BY <1>0, <2>3, DsType, NoDocIsNoDocument
      <3> QED BY <1>0, <2>1, <2>3, <3>1, NothingUploaded
    <2> QED BY <2>1, <2>2, <2>3
  <1>5. CASE BuildDataset
    \* Whatever has an example is excused; the new document records nothing.
    <2>1. PICK cs : Saves(Added(Empty, cs))
      BY <1>5 DEF BuildDataset
    <2>2. disk'.example = {}
      BY <2>1, EmptyType, AddedEffect DEF Saves, Empty
    <2>3. UNCHANGED remote /\ again' = again \cup Overwritten \cup {c \in Case : remote[c] > 0}
      BY <1>5 DEF BuildDataset
    <2> QED BY <2>2, <2>3 DEF OnceInv, HandRecords
  <1>6. CASE ReviewCases \/ SimulateScenarios
    <2>1. Readable /\ UNCHANGED <<hand, remote>> /\ run = "work"
      BY <1>6 DEF ReviewCases, ReviewsNothing, ReviewsPending, SimulateScenarios, Works, At
    <2>2. Ds \in Doc
      BY <1>0, <2>1, DsType
    <2>3. cache' \in Doc /\ cache'.example = Ds.example
      <3>1. CASE ReviewCases
        BY <1>0, <2>1, <2>2, <3>1, ReviewEffect DEF ReviewCases, ReviewsNothing, ReviewsPending, Saves
      <3>2. CASE SimulateScenarios
        BY <2>2, <3>2, AddedEffect DEF SimulateScenarios, Saves
      <3> QED BY <1>6, <3>1, <3>2
    <2>4. again \subseteq again' /\ (UNCHANGED disk \/ Overwritten \subseteq again')
      BY <1>6 DEF ReviewCases, SimulateScenarios
    <2> QED BY <1>0, <2>1, <2>3, <2>4, NoDocIsNoDocument, NothingUploaded
  <1>7. CASE Upload
    <2>1. /\ Readable /\ run = "work" /\ cache' = Ds /\ UNCHANGED <<disk, hand>>
      BY <1>7 DEF Upload, At, NothingSaved, Works
    <2>2. Ds \in Doc /\ cache' # NoDoc
      BY <1>0, <2>1, DsType, NoDocIsNoDocument
    <2>3. PICK created \in SUBSET ToUpload(Ds) :
            /\ remote' = [c \in Case |-> IF c \in created THEN remote[c] + 1 ELSE remote[c]]
            /\ \/ created = ToUpload(Ds) /\ run' = "uploaded" /\ UNCHANGED <<pos, again>>
               \/ Raises /\ again' = again \cup ToUpload(Ds)
      BY <1>7 DEF Upload
    <2>4. ASSUME NEW c \in Case \ again'
          PROVE  /\ remote'[c] > 0 => Recorded(c)' \/ Uploading(c)'
                 /\ remote'[c] <= 1
                 /\ HandRecords(c)'
      <3>1. c \in Case \ again
        BY <2>3, <2>4
      <3>2. remote[c] > 0 => c \in Ds.example
        BY <2>1, <3>1, DsRecords
      <3>3. HandRecords(c)'
        BY <2>1, <3>1 DEF OnceInv, HandRecords
      <3>4. remote[c] \in Nat /\ remote[c] <= 1
        BY <1>0, <3>1 DEF TypeOK, OnceInv
      <3>5. CASE c \in created
        <4>1. c \notin Ds.example /\ run' = "uploaded" /\ c \in ToUpload(cache')
          BY <2>1, <2>3, <2>4, <3>5 DEF ToUpload
        <4> QED BY <2>3, <3>2, <3>3, <3>4, <3>5, <4>1 DEF Uploading, ToUpload, With
      <3>6. CASE c \notin created
        BY <2>1, <2>2, <2>3, <3>2, <3>3, <3>4, <3>6 DEF Recorded
      <3> QED BY <3>5, <3>6
    <2> QED BY <2>4 DEF OnceInv
  <1>8. CASE ReadBack
    <2>1. run = "uploaded" /\ cache \in Doc /\ cache # NoDoc /\ UNCHANGED <<hand, remote>>
      BY <1>0, <1>8, NoDocIsNoDocument DEF ReadBack, UploadHasDataset, TypeOK, Works
    <2>2. PICK lagging \in SUBSET ToUpload(cache) :
            LET found == {c \in With(cache, "approved") \ lagging : remote[c] > 0}
                noted == [cache EXCEPT !.example = @ \cup found]
            IN  \/ cache' = noted /\ again' = again \cup Missing(found) /\ UNCHANGED disk
                \/ /\ Missing(found) = {} /\ Saves(noted)
                   /\ again' = again \cup Overwritten
      BY <1>8 DEF ReadBack
    <2> DEFINE found == {c \in With(cache, "approved") \ lagging : remote[c] > 0}
    <2>3. found \in SUBSET Case
      BY DEF With
    <2>4. cache' = [cache EXCEPT !.example = @ \cup found]
      BY <2>2 DEF Saves
    <2>5. cache' \in Doc /\ cache'.example = cache.example \cup found
      BY <2>1, <2>3, <2>4, NotedEffect
    <2>6. again \subseteq again' /\ Missing(found) \subseteq again'
          /\ (UNCHANGED disk \/ Overwritten \subseteq again')
      BY <2>2
    <2>7. ASSUME NEW c \in Case \ again'
          PROVE  /\ remote'[c] > 0 => Recorded(c)'
                 /\ remote'[c] <= 1
                 /\ HandRecords(c)'
      <3>1. c \in Case \ again
        BY <2>6, <2>7
      <3>2. remote[c] > 0 => c \in cache'.example
        BY <2>1, <2>5, <2>6, <2>7, <3>1 DEF OnceInv, Recorded, Uploading, Missing, ToUpload, With
      <3>3. HandRecords(c)'
        BY <2>1, <2>6, <2>7, <3>1 DEF OnceInv, HandRecords, Overwritten
      <3> QED BY <2>1, <2>5, <3>1, <3>2, <3>3, NoDocIsNoDocument DEF OnceInv, Recorded
    <2> QED BY <2>7 DEF OnceInv
  <1>9. CASE PersonLoads
    <2>1. PICK c \in Cases(disk), decision \in {"approved", "rejected"} :
            hand' = [doc |-> SetReview(disk, {c}, decision), on |-> c]
      BY <1>9 DEF PersonLoads
    <2>2. hand'.doc.example = disk.example
      BY <1>0, <2>1, SetReviewEffect DEF TypeOK, Status
    <2>3. UNCHANGED <<disk, cache, run, remote, again>>
      BY <1>9 DEF PersonLoads
    <2> QED BY <2>2, <2>3 DEF OnceInv, Recorded, Uploading, ToUpload, With, HandRecords
  <1>10. CASE PersonSaves
    <2>1. hand # NoHand /\ hand' = NoHand /\ disk' = hand.doc /\ UNCHANGED <<cache, run, remote, again>>
      BY <1>10 DEF PersonSaves
    <2> QED BY <2>1 DEF OnceInv, Recorded, Uploading, ToUpload, With, HandRecords
  <1> QED BY <1>1, <1>2, <1>3, <1>4, <1>5, <1>6, <1>7, <1>8, <1>9, <1>10 DEF Next

\* A case that is not excused has at most one example in the LangSmith dataset, over any
\* number of publications, partial uploads, read-backs and decisions.
THEOREM CasesArePublishedOnce == Spec => []PublishedOnce
  <1>1. OnceInv => PublishedOnce
    BY DEF OnceInv, PublishedOnce
  <1>2. TypeInv /\ ApprovalInv /\ OnceInv /\ [Next]_vars => OnceInv'
    BY OnceStep DEF ApprovalInv
  <1> QED BY <1>1, <1>2, InitOnce, ApprovalsHold, TypesHold, PTL DEF Spec
====
