---- MODULE Evaluation ----
(***************************************************************************)
(* From the approved cases to a verdict: the infer, score and aggregate    *)
(* stages (pipeline/stages.py), the pool of conversations (inference.py),  *)
(* the scoring splits (evaluators.py) and the aggregation of the repeats   *)
(* (pipeline/aggregate.py).                                                *)
(*                                                                         *)
(* A case is its place among the approved cases.  An answer is the agent's *)
(* tool calls in order and the text of its response, or an error.          *)
(* "tools" is the evaluator expected_tools, which sees the calls; "text"   *)
(* is contains, which sees the text (json_valid is one that looks for the  *)
(* same in every case); "judge" is an LLM judge, which a case may give     *)
(* nothing to compare with and which may be unavailable.                   *)
(***************************************************************************)
EXTENDS Integers, Sequences, FiniteSets, SequencesExt, FiniteSetsExt

CONSTANTS
  Setups,     \* what may be evaluated, see EvaluationAssumption
  ToolCalls,  \* calls, each with its name and the facts its args hold
  Phrases,    \* what a response may be looked through for
  Replies,    \* what the agent may answer: calls, and the phrases of its text
  Verdicts,   \* scores a judge may give
  Attempts    \* bound: runs of a stage (the stages retry once)

Metrics == {"tools", "text", "judge"}
Unavailable == -1       \* what a judge gives that could not run
Groups == {"g", "h"}    \* values of a slice dimension

\* Scores and thresholds are multiples of 1/One; four digits are multiples of Digit.
One == 360000
Digit == 36

ASSUME EvaluationAssumption ==
  /\ Attempts \in Nat \ {0}
  /\ Verdicts \subseteq 0..One
  /\ Replies \subseteq [calls : Seq(ToolCalls), text : SUBSET Phrases]
  /\ \A s \in Setups :
       /\ {s.cases, s.repeats, s.workers} \subseteq Nat \ {0}
       /\ s.group \in [1..s.cases -> Groups]
       /\ s.metrics \subseteq Metrics
       /\ s.judged \subseteq 1..s.cases
       /\ s.expected \in [1..s.cases -> Seq(ToolCalls)]
       /\ s.contains \in [1..s.cases -> SUBSET Phrases]
       /\ {s.threshold, s.sliceMin, s.overallPass} \subseteq 0..One

VARIABLES
  setup,     \* the approved cases and the configuration
  phase,     \* "infer", "score", "aggregate", "done", "failed"
  attempt,   \* of the stage
  answers,   \* case -> its run, of the repeat that is running
  progress,  \* run-progress.json
  runs,      \* the runs of the finished repeats: the case runs in order
  splits,    \* the rows of every scoring split of a run
  reports,   \* the scored runs: their rows
  result     \* what aggregate says, <<>> before

vars == <<setup, phase, attempt, answers, progress, runs, splits, reports, result>>

N == setup.cases
Case == 1..N
Expected(case) == setup.expected[case]    \* names, each with the facts its args must hold
Forbidden == setup.forbidden

Failed(run) == run.error # "none"
Answers == {[error |-> "none", calls |-> a.calls, text |-> a.text] : a \in Replies}
             \cup {[error |-> e, calls |-> <<>>, text |-> {}] : e \in {"agent", "infrastructure"}}

----------------------------------------------------------------------------
(* infer: every approved case, `repeats` times                             *)

Counts == [done |-> 0, errors |-> 0]
Fresh(repeat, overall) ==
  [repeat |-> repeat, done |-> 0, overall |-> overall, groups |-> [g \in Groups |-> Counts]]
\* The counts of the repeat start over, those of the stage go on.
NextRepeat(p) == Fresh(p.repeat + 1, p.overall)

Init ==
  /\ setup \in Setups
  /\ phase = "infer" /\ attempt = 1
  /\ answers = [c \in {} |-> <<>>]
  /\ progress = Fresh(1, 0)
  /\ runs = <<>> /\ splits = <<>> /\ reports = <<>> /\ result = <<>>

\* The pool takes the cases in their order, `workers` at a time.
Running == {c \in Case \ DOMAIN answers : Cardinality({d \in Case \ DOMAIN answers : d < c}) < setup.workers}

Answer(c) ==
  /\ phase = "infer" /\ c \in Running
  /\ \E run \in Answers :
       answers' = [d \in DOMAIN answers \cup {c} |-> IF d = c THEN run ELSE answers[d]]
  /\ UNCHANGED <<setup, phase, attempt, progress, runs, splits, reports, result>>

\* on_case: the pool yields the runs in the order of the cases, whichever ended first.
OnCase(p, c, run) ==
  [p EXCEPT !.done = c, !.overall = @ + 1,
            !.groups[setup.group[c]] =
              [done |-> @.done + 1, errors |-> @.errors + IF Failed(run) THEN 1 ELSE 0]]

Deliver ==
  /\ phase = "infer" /\ progress.done + 1 \in DOMAIN answers
  /\ progress' = OnCase(progress, progress.done + 1, answers[progress.done + 1])
  /\ UNCHANGED <<setup, phase, attempt, answers, runs, splits, reports, result>>

AllInfrastructure == \A c \in Case : answers[c].error = "infrastructure"

\* The run is written; when every case failed with infrastructure errors the stage raises.
EndRepeat ==
  /\ phase = "infer" /\ progress.done = N
  /\ IF AllInfrastructure
       THEN phase' = "failed" /\ UNCHANGED <<runs, progress, splits>>
       ELSE /\ runs' = Append(runs, [c \in Case |-> answers[c]])
            /\ IF progress.repeat < setup.repeats
                 THEN progress' = NextRepeat(progress) /\ UNCHANGED <<phase, splits>>
                 ELSE phase' = "score" /\ splits' = <<>> /\ UNCHANGED progress
  /\ answers' = [c \in {} |-> <<>>]
  /\ attempt' = IF phase' = "score" THEN 1 ELSE attempt
  /\ UNCHANGED <<setup, reports, result>>

\* The engine runs the stage again: the runs of the failed attempt are left where they are.
RetryInfer ==
  /\ phase = "failed" /\ Len(runs) < setup.repeats /\ attempt < Attempts
  /\ phase' = "infer" /\ attempt' = attempt + 1
  /\ progress' = Fresh(1, 0) /\ runs' = <<>>
  /\ UNCHANGED <<setup, answers, splits, reports, result>>

----------------------------------------------------------------------------
(* score: the evaluators over the case runs of every run                   *)

\* _expected_tools walks the actual calls once, behind the last one it matched.
Holds(expected, call) == expected.name = call.name /\ expected.args \subseteq call.args
\* Every expected call is looked for from the start.
MatchedAnywhere(expected, calls) ==
  Cardinality({n \in DOMAIN expected : \E m \in DOMAIN calls : Holds(expected[n], calls[m])})

Matched(expected, calls) ==
  LET walk[i \in 0..Len(calls)] ==
        IF i = 0 THEN 0
        ELSE walk[i - 1] + IF /\ walk[i - 1] < Len(expected)
                              /\ Holds(expected[walk[i - 1] + 1], calls[i]) THEN 1 ELSE 0
  IN  walk[Len(calls)]

Names(calls) == {calls[n].name : n \in DOMAIN calls}
ToolsScore(case, calls) ==
  IF Matched(Expected(case), calls) = Len(Expected(case)) /\ Names(calls) \cap Forbidden = {}
    THEN One ELSE 0

\* contains wants every needle of the case in the response, whatever was called.
TextScore(case, text) == IF setup.contains[case] \subseteq text THEN One ELSE 0

\* _chunks: contiguous and near-equal.
ChunksEven(items, n) ==
  LET size == Len(items) \div n
  IN  [k \in 1..n |-> SubSeq(items, (k - 1) * size + 1, k * size)]
Chunks(items, n) ==
  LET size == Len(items) \div n
      extra == Len(items) % n
      start(k) == (k - 1) * size + IF k - 1 < extra THEN k - 1 ELSE extra
  IN  [k \in 1..n |-> SubSeq(items, start(k) + 1, start(k + 1))]

Ids == [c \in Case |-> c]
Splits == IF setup.workers > 1 /\ N > 1
            THEN Chunks(Ids, IF setup.workers < N THEN setup.workers ELSE N)
            ELSE <<Ids>>

\* A judge that cannot run says so before it looks for what the case gives to compare with.
Judged(case, judge) ==
  CASE judge = Unavailable -> "error"
    [] judge # Unavailable /\ case \notin setup.judged -> "skipped"
    [] OTHER -> "score"

\* A case without needles is skipped by contains.
Unscored(case, judge) ==
  {m \in setup.metrics : \/ m = "judge" /\ Judged(case, judge) # "score"
                         \/ m = "text" /\ setup.contains[case] = {}}

\* A row has a score, an error or nothing (skipped) for every metric; a failed run scores 0.
Row(case, run, judge) ==
  LET scored == setup.metrics \ IF Failed(run) THEN {} ELSE Unscored(case, judge)
      given == [tools |-> ToolsScore(case, run.calls), text |-> TextScore(case, run.text), judge |-> judge]
  IN  [case |-> case,
       scores |-> [m \in scored |-> IF Failed(run) THEN 0 ELSE given[m]],
       errors |-> IF ~Failed(run) /\ Judged(case, judge) = "error" THEN setup.metrics \cap {"judge"} ELSE {}]

Current == Len(reports) + 1    \* the run that is scored

StartScoring ==
  /\ phase = "score" /\ splits = <<>> /\ Current <= Len(runs)
  /\ splits' = [k \in DOMAIN Splits |-> <<>>]
  /\ UNCHANGED <<setup, phase, attempt, answers, progress, runs, reports, result>>

\* The worker of a split scores its next case.
ScoreCase(k) ==
  /\ phase = "score" /\ k \in DOMAIN splits /\ Len(splits[k]) < Len(Splits[k])
  /\ LET case == Splits[k][Len(splits[k]) + 1]
     IN  \E judge \in Verdicts \cup {Unavailable} :
           splits' = [splits EXCEPT ![k] = Append(@, Row(case, runs[Current][case], judge))]
  /\ UNCHANGED <<setup, phase, attempt, answers, progress, runs, reports, result>>

\* Rows are assembled in the order of the run.
EndRun ==
  /\ phase = "score" /\ splits # <<>>
  /\ \A k \in DOMAIN splits : Len(splits[k]) = Len(Splits[k])
  /\ reports' = Append(reports, FlattenSeq(splits))
  /\ splits' = <<>>
  /\ UNCHANGED <<setup, phase, attempt, answers, progress, runs, result>>

\* Only the first report is asked whether anything was scored.
NoScores == \A n \in DOMAIN reports[1] : DOMAIN reports[1][n].scores = {}

EndScoring ==
  /\ phase = "score" /\ Len(reports) = Len(runs)
  /\ phase' = IF NoScores THEN "failed" ELSE "aggregate"
  /\ UNCHANGED <<setup, attempt, answers, progress, runs, splits, reports, result>>

RetryScore ==
  /\ phase = "failed" /\ Len(runs) = setup.repeats /\ attempt < Attempts
  /\ phase' = "score" /\ attempt' = attempt + 1
  /\ reports' = <<>>
  /\ UNCHANGED <<setup, answers, progress, runs, splits, result>>

----------------------------------------------------------------------------
(* aggregate                                                               *)

None == -1
Rounded(x) == IF x = None THEN None ELSE ((x + Digit \div 2) \div Digit) * Digit
\* _mean, of the values there are.
Average(values) ==
  LET known == {x \in DOMAIN values : values[x] # None}
  IN  IF known = {} THEN None ELSE SumFunctionOnSet(values, known) \div Cardinality(known)

\* A case's row in a report, and its scores in the repeats that have one.
RowOf(r, case) == reports[r][CHOOSE n \in DOMAIN reports[r] : reports[r][n].case = case]
Scores(case, m) ==
  [r \in {q \in DOMAIN reports : m \in DOMAIN RowOf(q, case).scores} |-> RowOf(r, case).scores[m]]

\* Mean over the cases of a metric's mean over the repeats.
Rate(cases, m) == Average([c \in cases |-> Average(Scores(c, m))])

Seen == {m \in Metrics : \E c \in Case, r \in DOMAIN reports :
           m \in DOMAIN RowOf(r, c).scores \/ m \in RowOf(r, c).errors}
Passed(m) == Rate(Case, m) # None /\ Rate(Case, m) >= setup.threshold

Members(g) == {c \in Case : setup.group[c] = g}
Weak(g) == \E m \in Seen : LET rate == Rounded(Rate(Members(g), m))
                           IN  rate # None /\ rate < setup.sliceMin
WeakSlices == {g \in Groups : Weak(g)}

Unrounded == Average([m \in Seen |-> Rate(Case, m)])
Overall == Rounded(Unrounded)

Verdict ==
  IF /\ Seen # {} /\ \A m \in Seen : Passed(m)
     /\ WeakSlices = {}
     /\ Overall # None /\ Overall >= setup.overallPass
    THEN "pass" ELSE "fail"

\* The overall score as it is, not as it is shown.
ReasonsUnrounded ==
  (IF Seen = {} THEN {<<"no_metrics">>} ELSE {})
    \cup {<<"metric", m>> : m \in {x \in Seen : ~Passed(x)}}
    \cup {<<"slice", g>> : g \in WeakSlices}
    \cup (IF Unrounded # None /\ Unrounded < setup.overallPass THEN {<<"overall">>} ELSE {})

Reasons ==
  (IF Seen = {} THEN {<<"no_metrics">>} ELSE {})
    \cup {<<"metric", m>> : m \in {x \in Seen : ~Passed(x)}}
    \cup {<<"slice", g>> : g \in WeakSlices}
    \cup (IF Overall # None /\ Overall < setup.overallPass THEN {<<"overall">>} ELSE {})

\* A case is unstable when the agent behaved differently, that is in its calls and its error;
\* else a metric may disagree with itself.  A text that varies is only counted.
TrajectoryAndText(run) == [calls |-> run.calls, error |-> run.error, text |-> run.text]
Trajectory(run) == [calls |-> run.calls, error |-> run.error]
Trajectories(case) == {Trajectory(runs[r][case]) : r \in DOMAIN runs}
Outputs(case) == {runs[r][case] : r \in DOMAIN runs}
Disagreeing(case) == {m \in Metrics : Cardinality(Range(Scores(case, m))) > 1}
UnstableCases == {c \in Case : Cardinality(Trajectories(c)) > 1}
TextVaries == {c \in Case : Cardinality(Outputs(c)) > 1}
Unstable(judges) ==
  {p \in (Case \ UnstableCases) \X Metrics : p[2] \in Disagreeing(p[1]) /\ (p[2] = "judge") = judges}

\* Below full marks in the rounded mean, or an error.
Failing ==
  {c \in Case : \/ \E m \in Metrics : LET mean == Rounded(Average(Scores(c, m)))
                                      IN  mean # None /\ mean < One
                \/ \E r \in DOMAIN runs : Failed(runs[r][c])}

Aggregate ==
  /\ phase = "aggregate"
  /\ result' = [verdict |-> Verdict, reasons |-> Reasons, overall |-> Overall,
                unstable |-> UnstableCases, evaluators |-> Unstable(TRUE), outputs |-> Unstable(FALSE),
                textVaries |-> Cardinality(TextVaries), failing |-> Failing]
  /\ phase' = "done"
  /\ UNCHANGED <<setup, attempt, answers, progress, runs, splits, reports>>

Next ==
  \/ \E c \in Case : Answer(c)
  \/ Deliver \/ EndRepeat \/ RetryInfer
  \/ StartScoring \/ \E k \in DOMAIN splits : ScoreCase(k)
  \/ EndRun \/ EndScoring \/ RetryScore
  \/ Aggregate

Spec == Init /\ [][Next]_vars

----------------------------------------------------------------------------
(* Properties                                                              *)

\* "The report is identical to a sequential scoring pass": every scored run has one row for
\* every case, in the order of the run, with the score of that case's own run.
SameAsSequential ==
  \A r \in DOMAIN reports :
    /\ Len(reports[r]) = N
    /\ \A c \in Case :
         /\ reports[r][c].case = c
         /\ "tools" \in setup.metrics => reports[r][c].scores["tools"] =
              IF Failed(runs[r][c]) THEN 0 ELSE ToolsScore(c, runs[r][c].calls)
         /\ "text" \in setup.metrics =>
              ("text" \in DOMAIN reports[r][c].scores <=> Failed(runs[r][c]) \/ setup.contains[c] # {})
         /\ "text" \in DOMAIN reports[r][c].scores => reports[r][c].scores["text"] =
              IF Failed(runs[r][c]) THEN 0 ELSE TextScore(c, runs[r][c].text)

\* A way to find every expected call among the actual ones, in order.
Embeds(expected, calls) ==
  \E at \in [DOMAIN expected -> DOMAIN calls] :
    /\ \A n \in DOMAIN expected : Holds(expected[n], calls[at[n]])
    /\ \A n, m \in DOMAIN expected : n < m => at[n] < at[m]

\* The single walk of expected_tools gives full marks exactly to the answers that hold the
\* expected calls as an ordered subset, however often a name repeats, and nothing forbidden.
OrderedSubset ==
  \A r \in DOMAIN reports : \A n \in DOMAIN reports[r] :
    LET case == reports[r][n].case
        run == runs[r][case]
    IN  ~Failed(run) /\ "tools" \in setup.metrics =>
          (reports[r][n].scores["tools"] = One <=>
             Embeds(Expected(case), run.calls) /\ Names(run.calls) \cap Forbidden = {})

\* The verdict and its reasons are computed apart and, with scores rounded for one and not
\* for the other, still agree: a run fails exactly when the report says why.
ReasonsExplain == phase = "done" => (result.verdict = "fail" <=> result.reasons # {})

\* Two repeats gave the case a different score.
Differs(case, m) ==
  \E r, q \in DOMAIN reports :
    /\ m \in DOMAIN RowOf(r, case).scores /\ m \in DOMAIN RowOf(q, case).scores
    /\ RowOf(r, case).scores[m] # RowOf(q, case).scores[m]

\* Instability is blamed on the right side: on the agent exactly when its calls or its error
\* differed between the repeats, on an evaluator only when a judge disagrees with itself, and
\* on the outputs only when the text differed behind the same calls and an evaluator of the
\* text noticed.  No disagreement stays without somebody to blame.
BlameIsRight ==
  phase = "done" =>
    /\ \A c \in Case :
         c \in result.unstable <=> \E r, q \in DOMAIN runs : \/ runs[r][c].calls # runs[q][c].calls
                                                            \/ runs[r][c].error # runs[q][c].error
    /\ \A p \in result.evaluators : p[2] = "judge" /\ p[1] \notin result.unstable
    /\ \A p \in result.outputs :
         /\ p[2] = "text" /\ p[1] \notin result.unstable
         /\ \E r, q \in DOMAIN runs : runs[r][p[1]].text # runs[q][p[1]].text
    /\ \A c \in Case, m \in Metrics :
         Differs(c, m) => c \in result.unstable \/ <<c, m>> \in result.evaluators \cup result.outputs

====
