---- MODULE Deployment ----
(***************************************************************************)
(* The deployment of one output directory (deploy/): deploy_up,            *)
(* deploy_status and deploy_down, called by pipeline stages, the CLI and   *)
(* the UI, each in its own process.  They share deployment.json, which     *)
(* every one loads first and saves last, with the target's work between.   *)
(*                                                                         *)
(* What a deployment consists of is a set of resources: the processes it   *)
(* spawned, named by pid (never reused here), and Objects, what the        *)
(* cluster or the Docker daemon holds under the deployment's name.  The    *)
(* targets: "local" spawns the agent server; "named" (docker, kubernetes   *)
(* by NodePort, openshift by route) creates objects only; "forward"        *)
(* (kubernetes, the default) creates objects and spawns a port-forward.    *)
(* A config edited from one named target to another, or in deploy.expose   *)
(* only, is not followed.                                                  *)
(***************************************************************************)
EXTENDS Naturals

CONSTANTS
  Actor,       \* processes that call deploy_up, deploy_status, deploy_down
  Target,      \* deploy.target (and expose) values the config may take
  MaxSpawns    \* bound: processes ever spawned

Pid == 1..MaxSpawns
Objects == MaxSpawns + 1
Resource == Pid \cup {Objects}

ASSUME MaxSpawnsAssumption == MaxSpawns \in Nat
ASSUME TargetAssumption == Target \subseteq {"local", "named", "forward"} /\ Target # {}

VARIABLES
  config,     \* deploy.target of the config file
  saved,       \* the record in deployment.json
  at,         \* where each caller is
  rec,        \* the record each caller holds
  alive,      \* resources that exist
  spawned,    \* number of pids given out
  forwards,   \* those of them that are port-forwards
  excused,    \* history: resources cut loose, or gone, for an outside cause
  contended   \* history: two calls were in flight at once

deployVars == <<config, saved, at, rec, alive, spawned, forwards, excused, contended>>

RecordStatus == {"none", "pending", "up", "failed", "down"}
Record == [status : RecordStatus, target : Target, pid : 0..MaxSpawns]
Places == {"idle", "probeUp", "probe", "takedown", "spawn", "wait", "remove", "save"}

NewRecord(t) == [status |-> "pending", target |-> t, pid |-> 0]
NoRecord == [status |-> "none", target |-> CHOOSE t \in Target : TRUE, pid |-> 0]

\* resources of a record: the pid and the names that target.down works with.
Held(r) ==
  ({r.pid} \ {0}) \cup
    (IF r.target # "local" /\ r.status \notin {"none", "down"} THEN {Objects} ELSE {})

\* DeploymentTarget.down
Removed(r) == ({r.pid} \ {0}) \cup (IF r.target # "local" THEN {Objects} ELSE {})

----
Goes(a, place) == at' = [at EXCEPT ![a] = place]
Holds(a, r) == rec' = [rec EXCEPT ![a] = r]

Begins(a) ==
  /\ at[a] = "idle"
  /\ contended' = (contended \/ \E b \in Actor \ {a} : at[b] # "idle")
  /\ excused' = IF contended' THEN {} ELSE excused
  /\ UNCHANGED <<config, saved, alive, spawned, forwards>>

Works == UNCHANGED <<config, saved, excused, contended>>

Removes(rs) == alive' = alive \ rs /\ forwards' = forwards \ rs
Excuses(rs) == excused' = IF contended THEN {} ELSE excused \cup rs

Fresh == spawned + 1

----
(* deploy_up *)

\* A recorded deployment of the same target is looked at first.  A record that another
\* call is just writing may be read while it is truncated, which counts as none.
Up(a) ==
  /\ Begins(a)
  /\ \/ /\ saved.status = "up" /\ saved.target = config
        /\ Goes(a, "probeUp") /\ Holds(a, saved)
     \/ /\ saved.status # "up" \/ saved.target # config \/ \E b \in Actor : at[b] = "save"
        /\ Goes(a, "spawn") /\ Holds(a, NewRecord(config))

\* target.up up to the wait for /health.
Spawn(a) ==
  /\ at[a] = "spawn"
  /\ IF rec[a].target = "named"
     THEN alive' = alive \cup {Objects} /\ UNCHANGED <<rec, spawned, forwards>>
     ELSE /\ Fresh \in Pid
          /\ spawned' = Fresh
          /\ Holds(a, [rec[a] EXCEPT !.pid = Fresh])
          /\ alive' = alive \cup {Fresh} \cup (IF rec[a].target = "local" THEN {} ELSE {Objects})
          /\ forwards' = IF rec[a].target = "forward" THEN forwards \cup {Fresh} ELSE forwards
  /\ excused' = IF rec[a].target = "local" THEN excused ELSE excused \ {Objects}
  /\ Goes(a, "wait")
  /\ UNCHANGED <<config, saved, contended>>

FailedRecord(a) == [NewRecord(rec[a].target) EXCEPT !.status = "failed"]

\* A command fails before that: the objects may have been applied.  The record saved
\* is a new one.
SpawnFails(a) ==
  /\ at[a] = "spawn"
  /\ alive' \in {alive} \cup (IF rec[a].target = "local" THEN {} ELSE {alive \cup {Objects}})
  /\ Holds(a, FailedRecord(a))
  /\ Goes(a, "save")
  /\ UNCHANGED <<spawned, forwards>>
  /\ Works

Healthy(a) ==
  /\ at[a] = "wait"
  /\ Held(rec[a]) \subseteq alive
  /\ Holds(a, [rec[a] EXCEPT !.status = "up"])
  /\ Goes(a, "save")
  /\ UNCHANGED <<alive, spawned, forwards>>
  /\ Works

\* The wait times out, or the process exited.  Only the local target kills what it
\* spawned; the resources of the attempt are not in the record that is saved.
UnhealthyUnsaved(a) ==
  /\ at[a] = "wait"
  /\ Removes(IF rec[a].target = "local" THEN {rec[a].pid} ELSE {})
  /\ Holds(a, NoRecord)
  /\ Goes(a, "idle")
  /\ UNCHANGED spawned
  /\ Works
Unhealthy(a) ==
  /\ at[a] = "wait"
  /\ Removes(IF rec[a].target = "local" THEN {rec[a].pid} ELSE {})
  /\ Holds(a, FailedRecord(a))
  /\ Goes(a, "save")
  /\ UNCHANGED spawned
  /\ Works

----
(* target.status: the probe of deploy_up and of deploy_status *)

Probing(a) == at[a] \in {"probeUp", "probe"}

\* Replicas ready but the port-forward gone: a new one, into the record held.
RestartForward(a) ==
  /\ Probing(a)
  /\ rec[a].target = "forward"
  /\ Objects \in alive
  /\ rec[a].pid \notin alive
  /\ Fresh \in Pid
  /\ spawned' = Fresh
  /\ forwards' = forwards \cup {Fresh}
  /\ alive' = alive \cup {Fresh}
  /\ Holds(a, [rec[a] EXCEPT !.pid = Fresh])
  /\ UNCHANGED at
  /\ Works

\* Ready: deploy_up reuses the deployment, deploy_status only keeps the answer.  Both save.
Ready(a) ==
  /\ Probing(a)
  /\ Held(rec[a]) \subseteq alive
  /\ Goes(a, "save")
  /\ UNCHANGED <<rec, alive, spawned, forwards>>
  /\ Works

\* /health may also fail to answer while everything is running.
NotReady(a) ==
  /\ Probing(a)
  /\ Goes(a, IF at[a] = "probeUp" THEN "takedown" ELSE "save")
  /\ UNCHANGED <<rec, alive, spawned, forwards>>
  /\ Works

TakeDownNothing(a) ==
  /\ at[a] = "takedown"
  /\ Holds(a, NewRecord(rec[a].target))
  /\ Goes(a, "spawn")
  /\ UNCHANGED <<alive, spawned, forwards>>
  /\ Works
\* deploy_up removes the unhealthy deployment before it starts another.
TakeDown(a) ==
  /\ at[a] = "takedown"
  /\ Removes(Removed(rec[a]))
  /\ Holds(a, NewRecord(rec[a].target))
  /\ Goes(a, "spawn")
  /\ UNCHANGED spawned
  /\ Works

----
(* deploy_status and deploy_down *)

StatusCall(a) ==
  /\ Begins(a)
  /\ saved.status = "up"
  /\ Goes(a, "probe")
  /\ Holds(a, saved)

Down(a) ==
  /\ Begins(a)
  /\ saved.status # "none"
  /\ Holds(a, saved)
  /\ Goes(a, IF saved.status \in {"up", "failed"} THEN "remove" ELSE "save")

RemoveRecordOnly(a) ==
  /\ at[a] = "remove"
  /\ Holds(a, [rec[a] EXCEPT !.status = "down"])
  /\ Goes(a, "save")
  /\ UNCHANGED <<alive, spawned, forwards>>
  /\ Works
\* The record is marked down whether or not the delete command succeeded (check=False);
\* a process is waited for until it is gone.
Remove(a) ==
  /\ at[a] = "remove"
  /\ \/ Removes(Removed(rec[a])) /\ UNCHANGED excused
     \/ rec[a].target # "local" /\ Removes({rec[a].pid}) /\ Excuses({Objects})
  /\ Holds(a, [rec[a] EXCEPT !.status = "down"])
  /\ Goes(a, "save")
  /\ UNCHANGED <<config, saved, spawned, contended>>

\* DeploymentRecord.save, the last step of every call.  A record of another target is
\* overwritten without a look at what it holds.
SaveRecord(a) ==
  /\ at[a] = "save"
  /\ saved' = rec[a]
  /\ Excuses(IF saved.target # rec[a].target THEN Held(saved) ELSE {})
  /\ Goes(a, "idle")
  /\ Holds(a, NoRecord)
  /\ UNCHANGED <<config, alive, spawned, forwards, contended>>

----
(* The environment *)

\* The calling process is killed; in the save, the file may stay truncated, which
\* load_record takes for no record.  What only the call knew is lost.
CallerDies(a) ==
  /\ at[a] # "idle"
  /\ \/ UNCHANGED saved
     \/ at[a] = "save" /\ saved' = NoRecord
  /\ Excuses(((Held(rec[a]) \cup Held(saved)) \ Held(saved')) \cup (Held(saved) \ alive))
  /\ Goes(a, "idle")
  /\ Holds(a, NoRecord)
  /\ UNCHANGED <<config, alive, spawned, forwards, contended>>

\* A server or port-forward exits, or somebody deletes the objects.
ResourceDies(r) ==
  /\ r \in alive
  /\ Removes({r})
  /\ Excuses({r})
  /\ UNCHANGED <<config, saved, at, rec, spawned, contended>>

EditConfig(t) ==
  /\ t # config
  /\ config' = t
  /\ UNCHANGED <<saved, at, rec, alive, spawned, forwards, excused, contended>>

----

DeployInit ==
  /\ config \in Target
  /\ saved = NoRecord
  /\ at = [a \in Actor |-> "idle"]
  /\ rec = [a \in Actor |-> NoRecord]
  /\ alive = {}
  /\ spawned = 0
  /\ forwards = {}
  /\ excused = {}
  /\ contended = FALSE

Call(a) ==
  \/ Up(a) \/ Spawn(a) \/ SpawnFails(a) \/ Healthy(a) \/ Unhealthy(a)
  \/ RestartForward(a) \/ Ready(a) \/ NotReady(a) \/ TakeDown(a)
  \/ StatusCall(a) \/ Down(a) \/ Remove(a)
  \/ SaveRecord(a) \/ CallerDies(a)

DeployNext ==
  \/ \E a \in Actor : Call(a)
  \/ \E r \in Resource : ResourceDies(r)
  \/ \E t \in Target : EditConfig(t)

DeploySpec == DeployInit /\ [][DeployNext]_deployVars

----
(* Properties *)

DeployTypeOK ==
  /\ config \in Target
  /\ saved \in Record
  /\ at \in [Actor -> Places]
  /\ rec \in [Actor -> Record]
  /\ alive \subseteq Resource
  /\ spawned \in 0..MaxSpawns
  /\ forwards \subseteq Pid \cap alive
  /\ excused \subseteq Resource
  /\ contended \in BOOLEAN

Known == Held(saved) \cup UNION {Held(rec[a]) : a \in Actor}

\* No agent runs on unnoticed: every server and every object is held by the record or
\* by a call in flight, so that a later down or up finds it, unless a caller was killed,
\* the target was changed under it, a delete command failed, or two calls overlapped.
NoLostAgent == ~contended => alive \ (excused \cup forwards) \subseteq Known

\* A record that says down names no process that still runs, however calls of several
\* processes interleave and die.
DownMeansDown == saved.status = "down" => saved.pid \notin alive

\* While no call is in flight, a record that says up names what is running, unless it
\* ended by itself or a caller was killed: no call takes a deployment down and leaves
\* the record saying up.
UpMeansUp ==
  ~contended /\ saved.status = "up" /\ (\A a \in Actor : at[a] = "idle")
    => Held(saved) \subseteq alive \cup excused

====
