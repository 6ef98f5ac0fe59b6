---- MODULE Session ----
(* The web UI's sessions over shared config files: `ui/project.py`, the Pipeline setup
   and Run & review pages, and `pipeline/setup.py`.

   A browser tab is a Streamlit session. Every click or edit is one script run: the
   button's callback, then `begin_run` (capture the widgets, look at the config file,
   derive the project), then the page. The tabs, the background jobs and people with an
   editor share the config files, and a tab recognises a change by the file's timestamp.

   Folder n, its sibling config `n.yaml` and the target agent n share the name n.
   A config is reduced to its folder, one value the form has a box for (`approved`, the
   review authorization) and one it has none for (`notes`, the reviewer feedback). The
   other boxes behave like `approved`, the other sections without a box like `notes`.
   A script run is cut at every access to a config file; Jobs models `start_job`. *)
EXTENDS Naturals, FiniteSets, Functions

CONSTANTS
  Tabs,        \* browser tabs
  Names,       \* folders, their config files and target agents
  Notes,       \* reviewer comments
  MaxWrites,   \* bound: writes of config files, those before the start too
  MaxActs      \* bound: things the people at the tabs do

Nowhere == 0                             \* no folder or path in a box, no project
Uploads == Cardinality(Names) + 1        \* the project of uploaded artifacts

ASSUME SessionAssumption ==
  /\ IsFiniteSet(Names) /\ Names \cap {Nowhere, Uploads} = {}
  /\ MaxWrites \in Nat /\ MaxActs \in Nat

Keys == {"dir", "path", "approved", "target", "yaml"}   \* the boxes with a widget

Config == [kind : {"config"}, dir : Names, approved : BOOLEAN, notes : SUBSET Notes]
Missing == [kind |-> "missing"]
Blank == [kind |-> "blank"]
Broken == [kind |-> "broken"]            \* text that does not parse, or has problems

VARIABLES
  file,     \* path -> the config on disk
  stamp,    \* path -> its mtime, 0 for no file
  clock,    \* the latest mtime
  tab,      \* tab -> its st.session_state and where its script run stands
  job,      \* folder -> the job recorded in it
  review,   \* folders with a generated dataset that waits for its review
  report,   \* folder -> the config path and config its report.json records
  acts      \* how much the people have done

vars == <<file, stamp, clock, tab, job, review, report, acts>>

NoJob == [path |-> Nowhere, running |-> FALSE, by |-> "nobody", wrote |-> 0, into |-> Nowhere, seen |-> 0]
NoReport == [path |-> Nowhere, config |-> Missing]

StampOf(p) == IF p \in Names THEN stamp[p] ELSE 0
TryLoad(p) == IF p \in Names THEN file[p] ELSE Missing

\* `pipeline init`: the starter config of a new pipeline.
Template(n) == [kind |-> "config", dir |-> n, approved |-> FALSE, notes |-> {}]

-----
(* The form, its widget copies and the project: functions of one tab's state s. *)

EmptyForm ==
  [dir |-> Nowhere, path |-> Nowhere, approved |-> FALSE, target |-> FALSE, yaml |-> Blank, stamp |-> 0]

Only(f, S) == [k \in S |-> f[k]]
\* The values of f, and for other keys those of g.
Over(f, g) == [k \in DOMAIN f \cup DOMAIN g |-> IF k \in DOMAIN f THEN f[k] ELSE g[k]]

\* Mutant: the widget copies stay, and the next run captures the old values from them.
SetFormKeepsCopies(s, values) == [s EXCEPT !.form = Over(values, @)]

\* New values for the form; their widget copies go, so that they are seeded again.
SetForm(s, values) ==
  [s EXCEPT !.form = Over(values, @),
            !.widgets = Only(@, DOMAIN @ \ DOMAIN values)]

ReplaceForm(s, values) == [s EXCEPT !.form = Over(values, EmptyForm), !.widgets = <<>>]

Capture(s) == [s EXCEPT !.form = Over(s.widgets, @)]
Seed(s) == [s EXCEPT !.widgets = Over(@, Only(s.form, Keys))]

\* A config as form values, for the folder out (its own when out is Nowhere).
FormFromConfig(cfg, out, path) ==
  [dir |-> IF out = Nowhere THEN cfg.dir ELSE out,
   path |-> IF path = Nowhere THEN cfg.dir ELSE path,
   approved |-> cfg.approved, target |-> TRUE, yaml |-> cfg]

\* The configs the form can become: with no folder given, the free-text name decides it.
BuildConfig(f) ==
  {cfg \in Config : cfg.approved = f.approved /\ cfg.notes = {} /\ f.dir \in {Nowhere, cfg.dir}}

\* The project follows the output folder; uploads stay when there is none.
Sync(s) ==
  [s EXCEPT !.project = IF s.form.dir # Nowhere THEN s.form.dir
                        ELSE IF @ = Uploads THEN Uploads ELSE Nowhere]

\* The setup page seeds its widgets and captures them; any other page drops them.
RenderSetup(s) == Capture(Seed(s))
Render(s) == IF s.page = "setup" THEN RenderSetup(s) ELSE [s EXCEPT !.widgets = <<>>]

Finish(s) == [Render(Sync(s)) EXCEPT !.pc = "idle", !.held = <<>>]

-----
(* The start of a script run *)

\* Mutant: a change is noted like a first sight, and not read.
BeginOnlyNotes(t) ==
  /\ tab[t].pc = "begin"
  /\ LET s == Capture(tab[t])
         m == StampOf(s.form.path)
     IN tab' = [tab EXCEPT ![t] = Finish([s EXCEPT !.form.stamp = IF m = 0 THEN @ ELSE m])]
  /\ UNCHANGED <<file, stamp, clock, job, review, report, acts>>

\* Looks at the timestamp of the form's config file; on a first sight it is only noted.
Begin(t) ==
  /\ tab[t].pc = "begin"
  /\ LET s == Capture(tab[t])
         m == StampOf(s.form.path)
     IN tab' = [tab EXCEPT ![t] =
          IF m = 0 \/ s.form.stamp = m THEN Finish(s)
          ELSE IF s.form.stamp = 0 THEN Finish([s EXCEPT !.form.stamp = m])
          ELSE [s EXCEPT !.pc = "reload", !.held = [stamp |-> m]]]
  /\ UNCHANGED <<file, stamp, clock, job, review, report, acts>>

\* The file has changed: read it into the form, the folder in the form stays.
Reload(t) ==
  /\ tab[t].pc = "reload"
  /\ LET s == tab[t]
         cfg == TryLoad(s.form.path)
         values == Over([stamp |-> s.held.stamp], FormFromConfig(cfg, s.form.dir, s.form.path))
     IN tab' = [tab EXCEPT ![t] =
          Finish([SetForm(s, values) EXCEPT !.edited = FALSE, !.overtaken = FALSE, !.intent = cfg.approved])]
  /\ UNCHANGED <<file, stamp, clock, job, review, report, acts>>

-----
(* What a person does at a tab: acts is the bound *)

At(t, page) ==
  /\ tab[t].pc = "idle" /\ tab[t].page = page
  /\ acts < MaxActs /\ acts' = acts + 1

\* The callback has left s: the script run begins.
RunScript(t, s) == tab' = [tab EXCEPT ![t] = [s EXCEPT !.pc = "begin", !.held = <<>>]]

Disk == <<file, stamp, clock, job, review, report>>

Visit(t) ==
  /\ \E page \in {"setup", "run"} : At(t, page) /\ RunScript(t, [tab[t] EXCEPT !.page = IF page = "setup" THEN "run" ELSE "setup"])
  /\ UNCHANGED Disk

\* A box of the form: ticks or clears the authorization, or types a folder or a path.
FillIn(t) ==
  /\ At(t, "setup")
  /\ LET w == tab[t].widgets
         others(x) == (Names \cup {Nowhere}) \ {x}
     IN \/ RunScript(t, [tab[t] EXCEPT !.widgets.approved = ~@, !.intent = ~w.approved])
        \/ \E d \in others(w.dir) : RunScript(t, [tab[t] EXCEPT !.widgets.dir = d])
        \/ \E p \in others(w.path) : RunScript(t, [tab[t] EXCEPT !.widgets.path = p, !.edited = TRUE])
  /\ UNCHANGED Disk

\* The YAML box: another folder, another decision, or nonsense.
EditYaml(t) ==
  /\ At(t, "setup")
  /\ LET y == tab[t].widgets.yaml IN
     \E text \in IF y.kind = "config" THEN {[y EXCEPT !.approved = ~@], Broken} \cup {[y EXCEPT !.dir = d] : d \in Names \ {y.dir}}
                 ELSE {Template(n) : n \in Names} :
       RunScript(t, [tab[t] EXCEPT !.widgets.yaml = text, !.edited = TRUE])
  /\ UNCHANGED Disk

\* An example agent fills the folder and the path in, a custom one clears them.
ApplyTarget(t) ==
  /\ At(t, "setup")
  /\ \/ \E n \in Names :
          RunScript(t, [SetForm(tab[t], [target |-> TRUE, dir |-> n, path |-> n]) EXCEPT !.edited = TRUE])
     \/ RunScript(t, [SetForm(tab[t], [target |-> FALSE, dir |-> Nowhere, path |-> Nowhere]) EXCEPT !.edited = TRUE])
  /\ UNCHANGED Disk

Empty(s, project) ==
  [ReplaceForm(s, <<>>) EXCEPT !.project = project, !.edited = FALSE, !.overtaken = FALSE, !.intent = FALSE]

Clear(t) ==
  /\ \E page \in {"setup", "run"} : At(t, page) /\ tab[t].project # Nowhere
  /\ RunScript(t, Empty(tab[t], Nowhere))
  /\ UNCHANGED Disk

SetUploads(t) ==
  /\ At(t, "setup")
  /\ RunScript(t, Empty(tab[t], Uploads))
  /\ UNCHANGED Disk

\* The config of a folder: what its job recorded, then its report, then its sibling.
ProjectConfig(d) ==
  LET loads(p) == TryLoad(p) # Missing
  IN IF loads(job[d].path) THEN [path |-> job[d].path, config |-> TryLoad(job[d].path)]
     ELSE IF loads(report[d].path) THEN [path |-> report[d].path, config |-> TryLoad(report[d].path)]
     ELSE IF report[d].config # Missing THEN [path |-> Nowhere, config |-> report[d].config]
     ELSE [path |-> IF loads(d) THEN d ELSE Nowhere, config |-> TryLoad(d)]

\* Opens a folder: its config is read now ...
OpenDir(t) ==
  /\ At(t, "setup")
  /\ \E d \in Names :
       LET found == ProjectConfig(d) IN
       tab' = [tab EXCEPT ![t].pc = "opening",
                          ![t].held = [path |-> found.path, config |-> found.config, dir |-> d, read |-> StampOf(found.path)]]
  /\ UNCHANGED Disk

\* ... and its timestamp is taken after that.
Opened(t) ==
  /\ tab[t].pc = "opening"
  /\ LET s == tab[t]
         h == s.held
         values == IF h.config = Missing THEN [dir |-> h.dir]
                   ELSE Over([stamp |-> StampOf(h.path)], FormFromConfig(h.config, h.dir, h.path))
     IN RunScript(t, [ReplaceForm(s, values) EXCEPT
          !.project = h.dir,
          !.edited = h.path = Nowhere,
          !.overtaken = StampOf(h.path) # h.read,
          !.intent = h.config # Missing /\ h.config.approved])
  /\ UNCHANGED <<acts, file, stamp, clock, job, review, report>>

-----
(* YAML and the config file *)

\* Generate YAML: a new text from the form, which must name a target.
GenerateYaml(t) ==
  /\ At(t, "setup")
  /\ LET s == Capture(tab[t]) IN
     \/ /\ ~s.form.target
        /\ RunScript(t, s)
     \/ /\ s.form.target
        /\ \E cfg \in BuildConfig(s.form) :
             RunScript(t, [SetForm(s, [yaml |-> cfg, dir |-> cfg.dir]) EXCEPT !.edited = TRUE])
  /\ UNCHANGED Disk

Write(p, cfg) ==
  /\ clock < MaxWrites
  /\ clock' = clock + 1
  /\ file' = [file EXCEPT ![p] = cfg]
  /\ stamp' = [stamp EXCEPT ![p] = clock + 1]

\* The text of the YAML box, and whether `validate_text` finds nothing wrong with it.
YamlText(s) == IF "yaml" \in DOMAIN s.widgets /\ s.widgets.yaml # Blank THEN s.widgets.yaml ELSE s.form.yaml
Valid(text) == text.kind = "config"

\* The project follows the text: what the buttons under the YAML box do to the form.
FollowYaml(s, text) == SetForm([s EXCEPT !.form.yaml = text], [dir |-> text.dir, target |-> TRUE])

\* Validate, Save, Generate dataset & mocks only, Run full pipeline. A text with
\* problems is only reported; the text is written over whatever the file holds.
YamlAction(t) ==
  /\ At(t, "setup")
  /\ UNCHANGED <<job, review, report>>
  /\ LET s == Capture(tab[t])
         text == YamlText(s)
     IN \/ /\ ~Valid(text)
           /\ RunScript(t, [s EXCEPT !.form.yaml = text])
           /\ UNCHANGED <<file, stamp, clock>>
        \/ /\ Valid(text)
           /\ RunScript(t, FollowYaml(s, text))
           /\ UNCHANGED <<file, stamp, clock>>
        \/ /\ Valid(text)
           /\ \E p \in IF s.form.path = Nowhere THEN Names ELSE {s.form.path},
                action \in {"save", "full"} :
                /\ Write(p, text)
                /\ tab' = [tab EXCEPT ![t] =
                     [FollowYaml(s, text) EXCEPT !.pc = "saved",
                        !.held = [path |-> p, dir |-> text.dir, action |-> action, wrote |-> clock + 1]]]

\* `start_job` refuses a folder whose recorded job is alive.
StartJob(d, p, by, wrote) ==
  job' = IF job[d].running THEN job
         ELSE [job EXCEPT ![d] = [NoJob EXCEPT !.path = p, !.running = TRUE, !.by = by, !.wrote = wrote]]

\* Mutant: the job is started in the project's folder of before.
SavedInProject(t) ==
  /\ tab[t].pc = "saved"
  /\ LET s == tab[t]
         h == s.held
         noted == [SetForm(s, [path |-> h.path]) EXCEPT !.form.stamp = StampOf(h.path),
                     !.edited = FALSE, !.overtaken = StampOf(h.path) # h.wrote]
         d == IF s.project \in Names THEN s.project ELSE h.dir
     IN IF h.action = "save" THEN RunScript(t, noted) /\ UNCHANGED job
        ELSE /\ StartJob(d, h.path, "setup", h.wrote)
             /\ RunScript(t, IF job[d].running THEN noted ELSE [noted EXCEPT !.page = "run"])
  /\ UNCHANGED <<acts, file, stamp, clock, review, report>>

\* After the write the timestamp is taken, and a job started in the config's folder.
Saved(t) ==
  /\ tab[t].pc = "saved"
  /\ LET s == tab[t]
         h == s.held
         noted == [SetForm(s, [path |-> h.path]) EXCEPT !.form.stamp = StampOf(h.path),
                     !.edited = FALSE, !.overtaken = StampOf(h.path) # h.wrote]
     IN IF h.action = "save" THEN RunScript(t, noted) /\ UNCHANGED job
        ELSE /\ StartJob(h.dir, h.path, "setup", h.wrote)
             /\ RunScript(t, IF job[h.dir].running THEN noted ELSE [noted EXCEPT !.page = "run"])
  /\ UNCHANGED <<acts, file, stamp, clock, review, report>>

-----
(* The Run & review page of a project folder with a dataset to review *)

\* The config the page writes to: what the folder's job or report recorded, else the form's.
ReviewedConfig(d, s) ==
  LET recorded == IF job[d].path # Nowhere THEN job[d].path ELSE report[d].path
      own == IF s.form.path # Nowhere THEN s.form.path ELSE ProjectConfig(d).path
  IN IF TryLoad(recorded) # Missing THEN recorded ELSE own

\* Save feedback, Save feedback & regenerate, Approve & run evaluation: read the config.
\* These buttons run in the page, after the begin_run of their script run, which looks at
\* the form's own file and at nothing that is used here ...
Review(t) ==
  /\ At(t, "run")
  /\ LET s == tab[t]
         d == s.project
     IN /\ d \in review /\ ~job[d].running
        /\ LET p == ReviewedConfig(d, s) IN
           /\ TryLoad(p) # Missing
           /\ \E n \in Notes, action \in {"feedback", "regenerate", "approve"} :
                tab' = [tab EXCEPT ![t].pc = "reviewing",
                          ![t].held = [path |-> p, dir |-> d, action |-> action,
                            config |-> IF action = "approve" THEN [file[p] EXCEPT !.approved = TRUE]
                                       ELSE [file[p] EXCEPT !.notes = @ \cup {n}]]]
  /\ UNCHANGED Disk

\* ... change it, write it back, and start the job that acts on it.
Reviewed(t) ==
  /\ tab[t].pc = "reviewing"
  /\ LET s == tab[t]
         h == s.held
     IN /\ Write(h.path, h.config)
        /\ IF h.action = "feedback" THEN job' = job /\ tab' = [tab EXCEPT ![t].pc = "idle", ![t].held = <<>>]
           ELSE StartJob(h.dir, h.path, "run", clock + 1) /\ RunScript(t, s)
  /\ UNCHANGED <<acts, review, report>>

-----
(* The rest of the world *)

\* The pipeline of a job reads its config: it writes where that config says.
JobLoads(d) ==
  /\ job[d].running /\ job[d].into = Nowhere
  /\ LET cfg == TryLoad(job[d].path)
     IN job' = [job EXCEPT ![d].into = cfg.dir, ![d].seen = stamp[job[d].path]]
  /\ UNCHANGED <<file, stamp, clock, tab, review, report, acts>>

\* It ends with a dataset to review, with a report, or with neither.
JobEnds(d) ==
  /\ job[d].running /\ job[d].into # Nowhere
  /\ job' = [job EXCEPT ![d].running = FALSE]
  /\ LET o == job[d].into IN
     \/ review' = review \cup {o} /\ UNCHANGED report
     \/ review' = review \ {o} /\ report' = [report EXCEPT ![o] = [path |-> job[d].path, config |-> TryLoad(job[d].path)]]
     \/ UNCHANGED <<review, report>>
  /\ UNCHANGED <<file, stamp, clock, tab, acts>>

\* `pipeline init`, over an existing file with --force, and a person with an editor.
PipelineInit(n) ==
  /\ Write(n, Template(n))
  /\ UNCHANGED <<tab, job, review, report, acts>>

HandEdit(n) ==
  /\ file[n] # Missing
  /\ Write(n, [file[n] EXCEPT !.approved = ~@])
  /\ UNCHANGED <<tab, job, review, report, acts>>

-----
NewTab ==
  [form |-> EmptyForm, widgets |-> Only(EmptyForm, Keys), project |-> Nowhere, page |-> "setup",
   pc |-> "idle", held |-> <<>>, edited |-> FALSE, overtaken |-> FALSE, intent |-> FALSE]

There == {n \in Names : file[n] # Missing}

\* One of the folders with a config may have had its dataset generated before.
Init ==
  /\ file \in [Names -> {Missing} \cup {Template(n) : n \in Names}]
  /\ \E order \in Bijection(There, 1..Cardinality(There)) :
       stamp = [n \in Names |-> IF n \in There THEN order[n] ELSE 0]
  /\ clock = Cardinality(There)
  /\ tab = [t \in Tabs |-> NewTab]
  /\ review \in {{}} \cup {{n} : n \in There}
  /\ job = [n \in Names |-> IF n \in review THEN [NoJob EXCEPT !.path = n] ELSE NoJob]
  /\ report = [n \in Names |-> NoReport]
  /\ acts = 0

Next ==
  \/ \E t \in Tabs :
       \/ Begin(t) \/ Reload(t) \/ Visit(t) \/ FillIn(t) \/ EditYaml(t) \/ ApplyTarget(t)
       \/ Clear(t) \/ SetUploads(t) \/ OpenDir(t) \/ Opened(t) \/ GenerateYaml(t)
       \/ YamlAction(t) \/ Saved(t) \/ Review(t) \/ Reviewed(t)
  \/ \E n \in Names : JobLoads(n) \/ JobEnds(n) \/ PipelineInit(n) \/ HandEdit(n)

Spec == Init /\ [][Next]_vars

-----
(* Properties *)

\* The timestamp is a promise (project.py:87-104): a tab that nobody has typed into and
\* whose timestamp is the file's shows what the file holds. `overtaken` excepts the one
\* gap there is: a change between the tab's own read or write of the file and the
\* timestamp it takes after that.
StampMeansSeen ==
  \A t \in Tabs : LET s == tab[t] IN
    s.pc = "idle" /\ ~s.edited /\ ~s.overtaken /\ s.form.stamp # 0 /\ s.form.stamp = StampOf(s.form.path)
      => s.form.yaml = file[s.form.path]

\* A box keeps what the person last put in it or was told was loaded, across pages,
\* reloads and the widget copies Streamlit keeps or drops (project.py:8-14).
FormIsAsLeft ==
  \A t \in Tabs : LET s == tab[t] IN
    s.pc = "idle" => s.form.approved = s.intent /\ (s.page = "setup" => s.widgets.approved = s.intent)

\* A job started from the setup page works in the folder it is recorded in, unless the
\* config file was written again before the job read it (ui/app_pages/setup.py:88-106).
JobRunsWhereRecorded ==
  \A d \in Names : job[d].by = "setup" /\ job[d].into # Nowhere /\ job[d].seen = job[d].wrote => job[d].into = d
====
