---- MODULE Jobs ----
(***************************************************************************)
(* Background pipeline jobs (pipeline/jobs.py).  A client (a Streamlit     *)
(* session, a script) starts or stops the job of one output directory;     *)
(* start_job spawns a detached wrapper process that runs the pipeline and  *)
(* then finalises work/job.json.  All of them read and rewrite that one    *)
(* file, without a lock and with a write (Path.write_text) that first      *)
(* truncates it.                                                           *)
(*                                                                         *)
(* A wrapper is named by its pid.  Pids are not reused, and a process that *)
(* has ended is seen as ended by every client (zombies are reaped).        *)
(* Wrapper and pipeline are one process group but two processes: a signal  *)
(* reaches both, and each ends in its own time.  Neither handles SIGTERM;  *)
(* once it is sent a process may complete the system call it is in and     *)
(* cannot fork (a group signal misses nobody).                             *)
(***************************************************************************)
EXTENDS Naturals

CONSTANTS
  Client,    \* callers of start_job and stop_job
  MaxJobs    \* bound: wrappers ever spawned

Wrapper == 1..MaxJobs

ASSUME ClientAssumption == Client \cap (Wrapper \cup {0}) = {}
ASSUME MaxJobsAssumption == MaxJobs \in Nat

VARIABLES
  jobFile,  \* job.json: "absent", "whole" or "torn" (truncated)
  saved,    \* the job in job.json while it is whole
  at,       \* where each client and wrapper is
  job,      \* the job dict each of them holds
  opened,   \* those between opening job.json for writing and writing it
  pipe,     \* wrappers whose pipeline process is alive
  signalled, \* living wrappers that were sent SIGTERM
  doomed,   \* wrappers whose living pipeline was sent SIGTERM
  raced     \* history: calls met, one of the processes was killed, or a wrapper
            \* that was writing job.json outlived both signals

jobsVars == <<jobFile, saved, at, job, opened, pipe, signalled, doomed, raced>>

Job == [pid : 0..MaxJobs, finished : BOOLEAN, stopped : BOOLEAN]
NewJob == [pid |-> 0, finished |-> FALSE, stopped |-> FALSE]

ClientPlaces == {"idle", "write", "popen", "writePid", "kill", "wait", "waitKilled",
                 "mark", "writeStop"}
WrapperPlaces == {"none", "boot", "run", "ended", "writeEnd", "gone"}

----
(* What the readers of job.json see *)

\* read_job: None without a file, and for one that does not parse.
NothingRead == jobFile # "whole"

\* _alive
Alive(pid) == pid # 0 /\ at[pid] \notin {"none", "gone"}

\* The check of start_job.
RefusedUnlessFinished == ~NothingRead /\ ~saved.finished
Refused == ~NothingRead /\ ~saved.finished /\ Alive(saved.pid)

\* What the UI shows of a job.
JobStatus ==
  CASE NothingRead -> "none"
    [] ~NothingRead /\ saved.finished -> IF saved.stopped THEN "stopped" ELSE "finished"
    [] OTHER -> IF Alive(saved.pid) THEN "running" ELSE "lost"

Moves(a, place) == at' = [at EXCEPT ![a] = place]
Holds(a, j) == job' = [job EXCEPT ![a] = j]

\* start_job and stop_job running side by side, or a start that found the file torn.
Meets(c) == jobFile = "torn" \/ \E d \in Client \ {c} : at[d] # "idle"

----
(* start_job *)

StartUnchecked(c) ==
  /\ at[c] = "idle"
  /\ \E p \in Wrapper : at[p] = "none"
  /\ Moves(c, "write")
  /\ Holds(c, NewJob)
  /\ raced' = (raced \/ Meets(c))
  /\ UNCHANGED <<jobFile, saved, opened, pipe, signalled, doomed>>
StartJob(c) ==
  /\ at[c] = "idle"
  /\ ~Refused
  /\ \E p \in Wrapper : at[p] = "none"     \* the bound
  /\ Moves(c, "write")
  /\ Holds(c, NewJob)
  /\ raced' = (raced \/ Meets(c))
  /\ UNCHANGED <<jobFile, saved, opened, pipe, signalled, doomed>>

\* The first record has no pid; the wrapper exists before the second is written.
Popen(c) ==
  /\ at[c] = "popen"
  /\ \E p \in Wrapper :
       /\ at[p] = "none" /\ \A q \in 1..p-1 : at[q] # "none"
       /\ at' = [at EXCEPT ![c] = "writePid", ![p] = "boot"]
       /\ Holds(c, [job[c] EXCEPT !.pid = p])
  /\ UNCHANGED <<jobFile, saved, opened, pipe, signalled, doomed, raced>>

\* The client's process ends in the middle of start_job or stop_job.
ClientDies(c) ==
  /\ at[c] # "idle"
  /\ Moves(c, "idle")
  /\ Holds(c, NewJob)
  /\ opened' = opened \ {c}
  /\ raced' = TRUE
  /\ UNCHANGED <<jobFile, saved, pipe, signalled, doomed>>

----
(* stop_job: nothing to do without a job or with a finished one; otherwise the
   process group of the recorded wrapper is killed, and job.json read once more *)

StopJob(c) ==
  /\ at[c] = "idle"
  /\ ~NothingRead
  /\ ~saved.finished
  /\ Moves(c, IF Alive(saved.pid) THEN "kill" ELSE "mark")
  /\ Holds(c, saved)
  /\ raced' = (raced \/ Meets(c))
  /\ UNCHANGED <<jobFile, saved, opened, pipe, signalled, doomed>>

\* The timeout of _terminate.
Waiting(c) == at[c] \in {"wait", "waitKilled"}

\* os.kill instead of os.killpg.
SignalWrapperOnly(c) ==
  /\ at[c] \in {"kill", "wait"}
  /\ Moves(c, IF at[c] = "kill" THEN "wait" ELSE "waitKilled")
  /\ signalled' = signalled \cup (IF Alive(job[c].pid) THEN {job[c].pid} ELSE {})
  /\ UNCHANGED <<jobFile, saved, job, opened, pipe, doomed, raced>>
\* SIGTERM to the group of the wrapper, and SIGKILL after the timeout.  The group is
\* found by the wrapper: without it neither reaches the pipeline.
Signal(c) ==
  /\ at[c] \in {"kill", "wait"}
  /\ Moves(c, IF at[c] = "kill" THEN "wait" ELSE "waitKilled")
  /\ LET group == IF Alive(job[c].pid) THEN {job[c].pid} ELSE {}
     IN  signalled' = signalled \cup group /\ doomed' = doomed \cup (pipe \cap group)
  /\ UNCHANGED <<jobFile, saved, job, opened, pipe, raced>>

\* Only the wrapper is polled: its pipeline may still be alive, signalled or not.
SeesItGone(c) ==
  /\ Waiting(c) /\ ~Alive(job[c].pid)
  /\ Moves(c, "mark")
  /\ UNCHANGED <<jobFile, saved, job, opened, pipe, signalled, doomed, raced>>

\* After the second timeout the stop goes on, whatever is alive.
GivesUp(c) ==
  /\ at[c] = "waitKilled" /\ Alive(job[c].pid)
  /\ Moves(c, "mark")
  /\ raced' = (raced \/ at[job[c].pid] = "writeEnd")
  /\ UNCHANGED <<jobFile, saved, job, opened, pipe, signalled, doomed>>

MarkStopped(c) ==
  /\ at[c] = "mark"
  /\ Moves(c, "writeStop")
  /\ Holds(c, [IF NothingRead THEN job[c] ELSE saved EXCEPT !.finished = TRUE, !.stopped = TRUE])
  /\ UNCHANGED <<jobFile, saved, opened, pipe, signalled, doomed, raced>>

----
(* _run_wrapper *)

\* The wrapper reads its own job.json; a truncated one raises and ends it.
Boot(p) ==
  /\ at[p] = "boot" /\ p \notin signalled
  /\ IF NothingRead
     THEN Moves(p, "gone") /\ UNCHANGED <<job, pipe>>
     ELSE Moves(p, "run") /\ Holds(p, saved) /\ pipe' = pipe \cup {p}
  /\ UNCHANGED <<jobFile, saved, opened, signalled, doomed, raced>>

\* By itself, or by the signal.
PipelineEnds(p) ==
  /\ p \in pipe
  /\ pipe' = pipe \ {p}
  /\ doomed' = doomed \ {p}
  /\ at' = IF at[p] = "run" THEN [at EXCEPT ![p] = "ended"] ELSE at
  /\ UNCHANGED <<jobFile, saved, job, opened, signalled, raced>>

Finalise(p) ==
  /\ at[p] = "ended" /\ p \notin signalled
  /\ Moves(p, "writeEnd")
  /\ Holds(p, [IF NothingRead THEN job[p] ELSE saved EXCEPT !.finished = TRUE])
  /\ UNCHANGED <<jobFile, saved, opened, pipe, signalled, doomed, raced>>

\* The signal ends the wrapper, which may have truncated job.json.
SignalEnds(p) ==
  /\ p \in signalled /\ Alive(p)
  /\ Moves(p, "gone")
  /\ Holds(p, NewJob)
  /\ opened' = opened \ {p}
  /\ signalled' = signalled \ {p}
  /\ UNCHANGED <<jobFile, saved, pipe, doomed, raced>>

\* The wrapper alone is killed: its pipeline, if any, runs on.
WrapperDies(p) ==
  /\ Alive(p)
  /\ Moves(p, "gone")
  /\ Holds(p, NewJob)
  /\ opened' = opened \ {p}
  /\ signalled' = signalled \ {p}
  /\ raced' = TRUE
  /\ UNCHANGED <<jobFile, saved, pipe, doomed>>

----
(* _write_job: open truncates, then the text is written *)

Writing(a) == at[a] \in {"write", "writePid", "writeStop", "writeEnd"}

AfterWrite(a) ==
  CASE at[a] = "write" -> "popen"
    [] at[a] \in {"writePid", "writeStop"} -> "idle"
    [] OTHER -> "gone"

Open(a) ==
  /\ Writing(a)
  /\ a \notin opened
  /\ opened' = opened \cup {a}
  /\ jobFile' = "torn"
  /\ saved' = NewJob
  /\ UNCHANGED <<at, job, pipe, signalled, doomed, raced>>

\* A shorter text over a longer one, written since our truncation, does not parse.
Write(a) ==
  /\ a \in opened
  /\ opened' = opened \ {a}
  /\ \/ jobFile' = "whole" /\ saved' = job[a]
     \/ jobFile = "whole" /\ jobFile' = "torn" /\ saved' = NewJob
  /\ Moves(a, AfterWrite(a))
  /\ Holds(a, IF AfterWrite(a) = "popen" THEN job[a] ELSE NewJob)
  /\ signalled' = signalled \ {a}
  /\ UNCHANGED <<pipe, doomed, raced>>

----

JobsInit ==
  /\ jobFile = "absent"
  /\ saved = NewJob
  /\ at = [a \in Client \cup Wrapper |-> IF a \in Client THEN "idle" ELSE "none"]
  /\ job = [a \in Client \cup Wrapper |-> NewJob]
  /\ opened = {}
  /\ pipe = {}
  /\ signalled = {}
  /\ doomed = {}
  /\ raced = FALSE

\* What a process does next once it is on its way.
ClientStep(c) ==
  \/ Popen(c) \/ Signal(c) \/ SeesItGone(c) \/ GivesUp(c) \/ MarkStopped(c)
  \/ Open(c) \/ Write(c)
WrapperStep(p) ==
  Boot(p) \/ PipelineEnds(p) \/ Finalise(p) \/ SignalEnds(p) \/ Open(p) \/ Write(p)

JobsNext ==
  \/ \E c \in Client : StartJob(c) \/ StopJob(c) \/ ClientDies(c) \/ ClientStep(c)
  \/ \E p \in Wrapper : WrapperStep(p) \/ WrapperDies(p)

\* Started calls and wrappers proceed unless they are killed, and signals are delivered; a
\* pipeline ends by itself (RunEnds of StageEngine).  Nobody has to start or stop anything.
JobsSpec ==
  /\ JobsInit /\ [][JobsNext]_jobsVars
  /\ \A c \in Client : WF_jobsVars(ClientStep(c))
  /\ \A p \in Wrapper : WF_jobsVars(WrapperStep(p))

----
(* Properties *)

JobsTypeOK ==
  /\ jobFile \in {"absent", "whole", "torn"}
  /\ saved \in Job
  /\ at \in [Client \cup Wrapper -> ClientPlaces \cup WrapperPlaces]
  /\ \A c \in Client : at[c] \in ClientPlaces
  /\ \A p \in Wrapper : at[p] \in WrapperPlaces
  /\ job \in [Client \cup Wrapper -> Job]
  /\ opened \subseteq {a \in Client \cup Wrapper : Writing(a)}
  /\ pipe \subseteq Wrapper
  /\ signalled \subseteq {p \in Wrapper : Alive(p)}
  /\ doomed \subseteq pipe
  /\ raced \in BOOLEAN

\* Two pipelines never write the same output directory, whatever is started, stopped and
\* finished in whatever order, unless all but one of them were told to end: stop_job waits
\* for the wrapper, so a pipeline may outlive the stop and meet the next start, but only
\* with a signal on its way.  This holds as long as no two calls overlapped, no start read
\* the file in the instant it was truncated, no caller or wrapper was killed by others, and
\* no wrapper that was writing job.json outlived both signals.
OnePipeline == ~raced => \A p, q \in pipe \ doomed : p = q

\* Under the same condition a running pipeline that was not told to end is the one job.json
\* names and the UI shows as running, unless start_job has not returned yet: what the Stop
\* button and the second start rely on.  Behind a job shown as stopped, finished or lost
\* there is no pipeline but one that a signal is about to end.
RunningIsRecorded ==
  ~raced =>
    \A p \in pipe \ doomed :
      \/ \E c \in Client : at[c] = "writePid" /\ job[c].pid = p
      \/ JobStatus = "running" /\ saved.pid = p

\* No job blocks the directory for ever, also when its wrapper was killed and never
\* finalised job.json.
RefusalEnds == Refused ~> ~Refused
====
