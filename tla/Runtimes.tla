------------------------------ MODULE Runtimes ------------------------------
(* Language runtimes (internal/domain/runtimeenv, internal/infra/mise):     *)
(* versions are installed and removed by tasks that run mise, a marker file *)
(* in its directory says that a version is complete, and what is under way  *)
(* or has failed is known only from the tasks in memory.                    *)
EXTENDS Naturals

CONSTANTS
    Vers,         \* versions, of any language
    MaxFaults     \* bound: commands that fail

VARIABLES
    dir,          \* installs/<tool>/<version>: "none", "part" or "whole"
    marker,       \* versions whose directory holds the marker
    tasks,        \* version -> [op, status, pc], the task of its key
    spoiled,      \* versions an uninstall has begun to remove
    env,          \* keys of the [env] section of mise's config.toml
    conf,         \* "ok", or "bad": not valid TOML
    faults

vars == <<dir, marker, tasks, spoiled, env, conf, faults>>

(* What the proofs assume of the constants.                                 *)
RunBounds == MaxFaults \in Nat

NoTask == [op |-> "none", status |-> "none", pc |-> "none"]
Charge(at) == faults' = faults + (IF at = "none" THEN 0 ELSE 1) /\ faults' <= MaxFaults

Installed(v) == v \in marker
ScanInstalled == marker

(* A task is known by its key until the next one of the key starts; one     *)
(* that succeeds is forgotten.                                              *)
InstallTask(v) == tasks[v] # NoTask
Running(v) == tasks[v].status = "running"
StartWithLog(v, op, pc) == tasks' = [tasks EXCEPT ![v] = [op |-> op, status |-> "running", pc |-> pc]]
Ends(v, ok) == tasks' = [tasks EXCEPT ![v] = IF ok THEN NoTask ELSE [@ EXCEPT !.status = "failed", !.pc = "none"]]
Goes(v, pc) == tasks' = [tasks EXCEPT ![v].pc = pc]

----------------------------------------------------------------------------
(* Requests.  The task's key refuses a second task while one runs; an       *)
(* uninstall is refused while a task is known, whether it runs or not.      *)
Install(v, at) ==
    /\ at \in {"none", "full"} /\ Charge(at)
    /\ IF Installed(v) \/ Running(v) \/ at = "full" THEN UNCHANGED tasks
       ELSE StartWithLog(v, "install", "deps")
    /\ UNCHANGED <<dir, marker, spoiled, env, conf>>

Uninstall(v, at) ==
    /\ at \in {"none", "full"} /\ Charge(at)
    /\ IF ~Installed(v) \/ InstallTask(v) \/ at = "full" THEN UNCHANGED tasks
       ELSE StartWithLog(v, "uninstall", "mise")
    /\ UNCHANGED <<dir, marker, spoiled, env, conf>>

----------------------------------------------------------------------------
(* The tasks' steps: build dependencies, mise, marker.                      *)
Step(v, op, pc) == tasks[v].op = op /\ tasks[v].pc = pc /\ UNCHANGED <<env, conf>>

ensureBuildDeps(v, at) ==
    /\ Step(v, "install", "deps") /\ at \in {"none", "apt"} /\ Charge(at)
    /\ IF at = "apt" THEN Ends(v, FALSE) ELSE Goes(v, "mise")
    /\ UNCHANGED <<dir, marker, spoiled>>

runInstallLike(v, at) ==
    /\ Step(v, "install", "mise") /\ at \in {"none", "mise"} /\ Charge(at)
    /\ dir' = [dir EXCEPT ![v] = IF at = "mise" THEN "part" ELSE "whole"]
    /\ IF at = "mise" THEN Ends(v, FALSE) ELSE Goes(v, "mark")
    /\ UNCHANGED <<marker, spoiled>>

(* Bug variant: the marker is written when mise starts.                     *)
installRuntimeEarly(v, at) ==
    /\ Step(v, "install", "deps") /\ at \in {"none", "write"} /\ Charge(at)
    /\ marker' = IF at = "write" THEN marker ELSE marker \cup {v}
    /\ spoiled' = spoiled \ {v}
    /\ Goes(v, "mise")
    /\ UNCHANGED dir

installRuntime(v, at) ==
    /\ Step(v, "install", "mark") /\ at \in {"none", "write"} /\ Charge(at)
    /\ marker' = IF at = "write" THEN marker ELSE marker \cup {v}
    /\ spoiled' = spoiled \ {v}
    /\ Ends(v, at = "none")
    /\ UNCHANGED dir

(* mise removes the directory, the marker with it; a failure may leave part *)
(* of it, with the marker or without.                                       *)
uninstallRuntime(v, at) ==
    /\ Step(v, "uninstall", "mise") /\ at \in {"none", "mise"} /\ Charge(at)
    /\ spoiled' = spoiled \cup {v}
    /\ IF at = "none" THEN /\ dir' = [dir EXCEPT ![v] = "none"] /\ marker' = marker \ {v}
                           /\ Goes(v, "mark")
       ELSE /\ \E d \in {"part", "whole"} : dir' = [dir EXCEPT ![v] = d]
            /\ marker' \in {marker, marker \ {v}}
            /\ Ends(v, FALSE)

uninstallMarker(v, at) ==
    /\ Step(v, "uninstall", "mark") /\ at \in {"none", "write"} /\ Charge(at)
    /\ marker' = IF at = "none" THEN marker \ {v} ELSE marker
    /\ Ends(v, at = "none")
    /\ UNCHANGED <<dir, spoiled>>

(* The panel stops: its tasks are forgotten, what they left on disk stays.  *)
PanelRestarts ==
    /\ \E v \in Vers : tasks[v] # NoTask
    /\ tasks' = [v \in Vers |-> NoTask]
    /\ dir' = [v \in Vers |-> IF tasks[v].op = "install" /\ tasks[v].pc = "mise" THEN "part" ELSE dir[v]]
    /\ UNCHANGED <<marker, spoiled, env, conf, faults>>

----------------------------------------------------------------------------
(* The list joins the directories and the tasks.                            *)
taskStatusToRuntime(status, installed) ==
    CASE installed /\ status = "running" -> "uninstalling"
      [] installed /\ status # "running" -> "uninstall_failed"
      [] ~installed /\ status = "running" -> "installing"
      [] OTHER -> "failed"
listEnvs == [v \in ScanInstalled \cup {w \in Vers : InstallTask(w)} |->
                IF InstallTask(v) THEN taskStatusToRuntime(tasks[v].status, Installed(v)) ELSE "installed"]
ListAll == listEnvs
GetByLangExact(v) == IF Installed(v) THEN v ELSE ""

----------------------------------------------------------------------------
(* Mirrors: keys of the [env] section; a file that does not parse is kept.  *)
Mirror(ks, at) == /\ at \in {"none", "write"} /\ Charge(at)
                  /\ env' = IF conf = "bad" \/ at = "write" THEN env ELSE ks
                  /\ UNCHANGED <<dir, marker, tasks, spoiled, conf>>
UpsertEnv(k, at) == Mirror(env \cup {k}, at)
DeleteEnv(k, at) == Mirror(env \ {k}, at)
Upsert(k, at) == UpsertEnv(k, at)
Delete(k, at) == DeleteEnv(k, at)
EditConf == conf' \in {"ok", "bad"} /\ UNCHANGED <<dir, marker, tasks, spoiled, env, faults>>

----------------------------------------------------------------------------
Ats == {"none", "full", "apt", "mise", "write"}
PostInstall == \E v \in Vers, at \in Ats : Install(v, at)
PostUninstall == \E v \in Vers, at \in Ats : Uninstall(v, at)
PostMirror == \E at \in Ats : Upsert("mirror", at)
PutMirror == \E at \in Ats : Upsert("mirror", at)
DeleteMirror == \E at \in Ats : Delete("mirror", at)
TaskStep(v) == \E at \in Ats : \/ ensureBuildDeps(v, at) \/ runInstallLike(v, at) \/ installRuntime(v, at)
                               \/ uninstallRuntime(v, at) \/ uninstallMarker(v, at)

Init ==
    /\ dir = [v \in Vers |-> "none"] /\ marker = {} /\ tasks = [v \in Vers |-> NoTask]
    /\ spoiled = {} /\ env = {} /\ conf = "ok" /\ faults = 0

Next == \/ PostInstall \/ PostUninstall \/ PostMirror \/ PutMirror \/ DeleteMirror \/ EditConf
        \/ \E v \in Vers : TaskStep(v)
        \/ PanelRestarts

----------------------------------------------------------------------------
TypeOK ==
    /\ dir \in [Vers -> {"none", "part", "whole"}] /\ marker \subseteq Vers /\ spoiled \subseteq Vers
    /\ \A v \in Vers : tasks[v] \in [op: {"none", "install", "uninstall"},
           status: {"none", "running", "failed"}, pc: {"none", "deps", "mise", "mark"}]
    /\ env \subseteq {"mirror"} /\ conf \in {"ok", "bad"} /\ faults \in 0..MaxFaults

(* A version with its marker is complete on disk, through failures of any   *)
(* step and restarts of the panel, unless an uninstall has begun on it: the *)
(* scan after a restart shows no half-installed version.                    *)
MarkedIsWhole == \A v \in marker : v \in spoiled \/ dir[v] = "whole"

(* The comment in Uninstall: a request is refused because the version is    *)
(* being installed or removed.  A task that has failed refuses it too, and  *)
(* since the version counts as installed nothing replaces that task.        *)
RefusedMeansRunning == \A v \in Vers : Installed(v) /\ InstallTask(v) => Running(v)
=============================================================================
