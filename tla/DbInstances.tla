----------------------------- MODULE DbInstances -----------------------------
(* Database servers run as containers (internal/domain/database): the rows, *)
(* the containers, the data directories kept on the host and the goroutine  *)
(* that installs each instance.  Requests are handled one at a time and     *)
(* interleave with the steps of installs; the step `at` of a request fails, *)
(* "none" if none does.                                                     *)
EXTENDS Naturals, FiniteSets

CONSTANTS
    Reqs,         \* instances asked for: [key, type, cname, port]; key: directory
    Ports,        \* ports a saved configuration may ask for
    MaxId,        \* bound: instances ever created
    MaxPwd,       \* bound: passwords ever generated
    MaxFaults     \* bound: steps that fail, containers that exit, panel crashes

(* What the proofs need of the constants.                                   *)
InstanceBounds == MaxFaults \in Nat

VARIABLES
    rows,         \* database_instances: id -> [req, status, port, pwd]
    lastId,
    lastPwd,      \* passwords 1..lastPwd have been generated
    boxes,        \* containers: name -> [state, healthy, port, arg, live, key, type, of]
    dirs,         \* initialised data directories: key -> password they hold
    tasks,        \* installs under way: id -> [req, pwd, pc, cancelled]
    notified,     \* ids whose failed install was reported
    pools,        \* cached connections: id -> port they dial
    crashed,      \* the panel has been restarted
    faults

vars == <<rows, lastId, lastPwd, boxes, dirs, tasks, notified, pools, crashed, faults>>

Without(f, x) == [y \in DOMAIN f \ {x} |-> f[y]]
With(f, x, v) == [y \in DOMAIN f \cup {x} |-> IF y = x THEN v ELSE f[y]]
Charge(at) == faults' = faults + (IF at = "none" THEN 0 ELSE 1) /\ faults' <= MaxFaults

World == [rows |-> rows, boxes |-> boxes, dirs |-> dirs, pools |-> pools]
SetWorld(w) == rows' = w.rows /\ boxes' = w.boxes /\ dirs' = w.dirs /\ pools' = w.pools

----------------------------------------------------------------------------
(* The table.  Directory and container name are UNIQUE columns; statements  *)
(* about a row that is gone change nothing.                                 *)
repoCreateInstance(w, id, row) == [w EXCEPT !.rows = With(@, id, row)]
Taken(req) == \E i \in DOMAIN rows : rows[i].req.key = req.key \/ rows[i].req.cname = req.cname
DeleteInstance(w, id) == [w EXCEPT !.rows = Without(@, id)]
Put(w, id, field, v) == IF id \in DOMAIN w.rows THEN [w EXCEPT !.rows[id][field] = v] ELSE w
UpdateInstanceStatus(w, id, status) == Put(w, id, "status", status)
UpdateInstancePort(w, id, port) == Put(w, id, "port", port)
UpdateInstancePassword(w, id, pwd) == Put(w, id, "pwd", pwd)

(* The container engine.  A started MySQL or PostgreSQL initialises an empty *)
(* directory with the password it is given and ignores it otherwise; Redis  *)
(* asks for the password on its command line.  The engine does not keep for *)
(* which instance a container was made (of).                                *)
containerSpec(id, req, port, pwd) ==
    [state |-> "created", healthy |-> FALSE, port |-> port, arg |-> pwd, live |-> pwd,
     key |-> req.key, type |-> req.type, of |-> id]
rtCreate(w, name, box) == [w EXCEPT !.boxes = With(@, name, box)]
rtStart(w, name) ==
    LET box == w.boxes[name]
    IN [w EXCEPT !.boxes[name].state = "running", !.boxes[name].healthy = FALSE,
                 !.boxes[name].live = IF box.state = "running" THEN @ ELSE box.arg,
                 !.dirs = IF box.key \in DOMAIN @ THEN @ ELSE With(@, box.key, box.arg)]
rtStop(w, name) == [w EXCEPT !.boxes[name].state = "exited", !.boxes[name].healthy = FALSE]
rtRestart(w, name) == rtStart(rtStop(w, name), name)
rtRemove(w, name) == [w EXCEPT !.boxes = Without(@, name)]
Healthy(w, name) == [w EXCEPT !.boxes[name].healthy = TRUE]

containerStatus(name) ==
    CASE name \notin DOMAIN boxes -> "stopped"
      [] name \in DOMAIN boxes /\ boxes[name].state # "running" -> "stopped"
      [] name \in DOMAIN boxes /\ boxes[name].state = "running" ->
           IF boxes[name].healthy THEN "running" ELSE "unhealthy"

Up(name) == name \in DOMAIN boxes /\ boxes[name].state = "running"
ClosePools(w, id) == [w EXCEPT !.pools = Without(@, id)]

----------------------------------------------------------------------------
(* Bug variant: the row of a refused install stays.                         *)
CreateInstanceLeavesRow(req, at) ==
    /\ lastId < MaxId /\ lastPwd < MaxPwd
    /\ at \in {"none", "task"} /\ Charge(at)
    /\ ~Taken(req) /\ req.cname \notin DOMAIN boxes
    /\ lastId' = lastId + 1 /\ lastPwd' = lastPwd + 1
    /\ SetWorld(repoCreateInstance(World, lastId', [req |-> req, status |-> "installing",
                                                   port |-> req.port, pwd |-> lastPwd']))
    /\ tasks' = IF at = "task" THEN tasks
                ELSE With(tasks, lastId', [req |-> req, pwd |-> lastPwd', pc |-> "prepare",
                                           cancelled |-> FALSE])
    /\ UNCHANGED <<notified, crashed>>

(* The checks, the row, and the install that runs on after the response.    *)
(* The executor may refuse the install; the row is then taken back.         *)
CreateInstance(req, at) ==
    /\ lastId < MaxId /\ lastPwd < MaxPwd
    /\ at \in {"none", "task"} /\ Charge(at)
    /\ ~Taken(req) /\ req.cname \notin DOMAIN boxes
    /\ lastId' = lastId + 1 /\ lastPwd' = lastPwd + 1
    /\ LET row == [req |-> req, status |-> "installing", port |-> req.port, pwd |-> lastPwd']
           inserted == repoCreateInstance(World, lastId', row)
       IN SetWorld(IF at = "task" THEN DeleteInstance(inserted, lastId') ELSE inserted)
    /\ tasks' = IF at = "task" THEN tasks
                ELSE With(tasks, lastId', [req |-> req, pwd |-> lastPwd', pc |-> "prepare",
                                           cancelled |-> FALSE])
    /\ UNCHANGED <<notified, crashed>>

(* An install is over: with a failure that is not a cancellation the row    *)
(* says so, and the user is told.                                           *)
Advance(id, pc) == tasks' = [tasks EXCEPT ![id].pc = pc] /\ UNCHANGED notified
installFailed(id, w) ==
    /\ tasks' = Without(tasks, id)
    /\ IF tasks[id].cancelled THEN SetWorld(w) /\ UNCHANGED notified
       ELSE SetWorld(UpdateInstanceStatus(w, id, "failed")) /\ notified' = notified \cup {id}

InstallPrepare(id) ==
    /\ id \in DOMAIN tasks /\ tasks[id].pc = "prepare"
    /\ UNCHANGED <<lastId, lastPwd, crashed>>
    /\ \/ Charge("none") /\ Advance(id, "pull") /\ SetWorld(World)
       \/ Charge("mkdir") /\ installFailed(id, World)

(* The image is pulled under the context of the task.                       *)
InstallPull(id) ==
    /\ id \in DOMAIN tasks /\ tasks[id].pc = "pull"
    /\ UNCHANGED <<lastId, lastPwd, crashed>>
    /\ \/ ~tasks[id].cancelled /\ Charge("none") /\ Advance(id, "create") /\ SetWorld(World)
       \/ ~tasks[id].cancelled /\ Charge("pull") /\ installFailed(id, World)
       \/ tasks[id].cancelled /\ Charge("none") /\ installFailed(id, World)

(* The engine has the request: it is carried out even if the panel cancels. *)
InstallCreate(id) ==
    /\ id \in DOMAIN tasks /\ tasks[id].pc = "create"
    /\ UNCHANGED <<lastId, lastPwd, crashed>>
    /\ LET t == tasks[id]
           made == rtCreate(World, t.req.cname, containerSpec(id, t.req, t.req.port, t.pwd))
           free == t.req.cname \notin DOMAIN boxes
       IN \/ free /\ ~t.cancelled /\ Charge("none") /\ Advance(id, "start") /\ SetWorld(made)
          \/ free /\ t.cancelled /\ Charge("none") /\ installFailed(id, made)
          \/ free /\ Charge("create") /\ installFailed(id, World)
          \/ ~free /\ Charge("none") /\ installFailed(id, World)

InstallStart(id) ==
    /\ id \in DOMAIN tasks /\ tasks[id].pc = "start"
    /\ UNCHANGED <<lastId, lastPwd, crashed>>
    /\ LET t == tasks[id]
           can == ~t.cancelled /\ t.req.cname \in DOMAIN boxes
       IN \/ can /\ Charge("none") /\ Advance(id, "wait") /\ SetWorld(rtStart(World, t.req.cname))
          \/ can /\ Charge("start") /\ installFailed(id, World)
          \/ ~can /\ Charge("none") /\ installFailed(id, World)

(* Bug variant: a container that has exited is waited for.                  *)
waitForHealthyOnly(name) ==
    CASE name \notin DOMAIN boxes -> "error"
      [] name \in DOMAIN boxes /\ boxes[name].healthy -> "healthy"
      [] OTHER -> "again"

waitForHealthy(name) ==
    CASE name \notin DOMAIN boxes -> "error"
      [] name \in DOMAIN boxes /\ boxes[name].state = "exited" -> "error"
      [] name \in DOMAIN boxes /\ boxes[name].state = "running" /\ boxes[name].healthy -> "healthy"
      [] OTHER -> "again"

(* No time limit: only health, an exit or a cancellation ends the wait.     *)
InstallWait(id) ==
    /\ id \in DOMAIN tasks /\ tasks[id].pc = "wait"
    /\ UNCHANGED <<lastId, lastPwd, crashed>>
    /\ LET t == tasks[id]
           seen == waitForHealthy(t.req.cname)
       IN \/ t.cancelled /\ Charge("none") /\ installFailed(id, World)
          \/ ~t.cancelled /\ seen = "error" /\ Charge("none") /\ installFailed(id, World)
          \/ ~t.cancelled /\ seen = "healthy" /\ Charge("save") /\ installFailed(id, World)
          \/ /\ ~t.cancelled /\ seen = "healthy" /\ Charge("none")
             /\ SetWorld(UpdateInstanceStatus(World, id, "running"))
             /\ tasks' = Without(tasks, id) /\ UNCHANGED notified

(* Any instance, installing or not: the task is cancelled, the row goes,    *)
(* then the container, whose removal may fail unseen.                       *)
CancelInstall(id, at) ==
    /\ id \in DOMAIN rows
    /\ at \in {"none", "remove"} /\ Charge(at)
    /\ tasks' = IF id \in DOMAIN tasks THEN [tasks EXCEPT ![id].cancelled = TRUE] ELSE tasks
    /\ LET deleted == DeleteInstance(World, id)
       IN SetWorld(IF at = "remove" THEN deleted ELSE rtRemove(deleted, rows[id].req.cname))
    /\ UNCHANGED <<lastId, lastPwd, notified, crashed>>

----------------------------------------------------------------------------
(* Requests on an instance.                                                 *)
Quiet == UNCHANGED <<lastId, lastPwd, tasks, notified, crashed>>

UninstallInstance(id, purge, at) ==
    /\ id \in DOMAIN rows
    /\ at \in {"none", "remove", "purge", "row"} /\ (at = "purge" => purge) /\ Charge(at)
    /\ LET v == rows[id]
           removed == ClosePools(rtRemove(World, v.req.cname), id)
           purged == IF purge THEN [removed EXCEPT !.dirs = Without(@, v.req.key)] ELSE removed
       IN SetWorld(CASE at = "remove" -> World [] at = "purge" -> removed [] at = "row" -> purged
                     [] OTHER -> DeleteInstance(purged, id))
    /\ Quiet

(* A failure of the wait leaves the container started and the row as it was. *)
Started(w, id, at) ==
    IF at = "wait" THEN w ELSE UpdateInstanceStatus(Healthy(w, rows[id].req.cname), id, "running")

StartInstance(id, at) ==
    /\ id \in DOMAIN rows /\ rows[id].req.cname \in DOMAIN boxes
    /\ at \in {"none", "wait"} /\ Charge(at)
    /\ SetWorld(Started(rtStart(World, rows[id].req.cname), id, at)) /\ Quiet

StopInstance(id) ==
    /\ id \in DOMAIN rows /\ rows[id].req.cname \in DOMAIN boxes
    /\ Charge("none")
    /\ SetWorld(UpdateInstanceStatus(rtStop(World, rows[id].req.cname), id, "stopped")) /\ Quiet

RestartInstance(id, at) ==
    /\ id \in DOMAIN rows /\ rows[id].req.cname \in DOMAIN boxes
    /\ at \in {"none", "wait"} /\ Charge(at)
    /\ SetWorld(Started(rtRestart(World, rows[id].req.cname), id, at)) /\ Quiet

(* Rows of installs, finished badly or not at all, keep their status.       *)
refreshInstanceStatus(row) ==
    IF row.status \in {"installing", "provisioning", "failed"} THEN row
    ELSE [row EXCEPT !.status = containerStatus(row.req.cname)]

RefreshStatus ==
    /\ rows' = [i \in DOMAIN rows |-> refreshInstanceStatus(rows[i])]
    /\ UNCHANGED <<boxes, dirs, pools, faults>> /\ Quiet

(* A query caches the pool it dials, whether or not anything answers.       *)
poolFor(w, id) == IF id \in DOMAIN w.pools THEN w ELSE [w EXCEPT !.pools = With(@, id, rows[id].port)]
Query(id) ==
    /\ id \in DOMAIN rows /\ Charge("none")
    /\ SetWorld(poolFor(World, id)) /\ Quiet

(* Bug variant: the connections of the old port stay.                       *)
recreateKeepsPools(w, id, port, at) ==
    LET v == rows[id]
        name == v.req.cname
        removed == rtRemove(w, name)
        made == rtStart(rtCreate(removed, name, containerSpec(id, v.req, port, v.pwd)), name)
    IN CASE at = "remove" -> w [] at = "create" -> removed [] at = "wait" -> made
         [] OTHER -> UpdateInstancePort(Healthy(made, name), id, port)

(* The container is replaced by one on the new port; a failure on the way   *)
(* leaves none, or one that the row does not know.                          *)
recreateInstanceContainer(w, id, port, at) ==
    LET v == rows[id]
        name == v.req.cname
        removed == rtRemove(w, name)
        made == rtStart(rtCreate(removed, name, containerSpec(id, v.req, port, v.pwd)), name)
    IN CASE at = "remove" -> w [] at = "create" -> removed [] at = "wait" -> made
         [] OTHER -> UpdateInstancePort(ClosePools(Healthy(made, name), id), id, port)

(* The parameters go to the server itself; a new port means a new container,*)
(* a PostgreSQL parameter that needs one a restart.                         *)
SaveInstanceConfig(id, port, restart, at) ==
    /\ id \in DOMAIN rows /\ Up(rows[id].req.cname)
    /\ restart => rows[id].req.type = "postgresql"
    /\ at \in {"none", "remove", "create", "wait"} /\ Charge(at)
    /\ at \in {"remove", "create"} => port # rows[id].port
    /\ at = "wait" => port # rows[id].port \/ restart
    /\ LET applied == poolFor(World, id)
       IN SetWorld(IF port # rows[id].port THEN recreateInstanceContainer(applied, id, port, at)
                   ELSE IF restart THEN Started(rtRestart(applied, rows[id].req.cname), id, at)
                   ELSE applied)
    /\ Quiet

(* The server's password, then the row's.                                   *)
ResetAdminPassword(id, at) ==
    /\ id \in DOMAIN rows /\ lastPwd < MaxPwd /\ Up(rows[id].req.cname)
    /\ at \in {"none", "save"} /\ Charge(at)
    /\ lastPwd' = lastPwd + 1
    /\ LET box == boxes[rows[id].req.cname]
           set == IF box.type = "redis"
                  THEN [World EXCEPT !.boxes[rows[id].req.cname].live = lastPwd']
                  ELSE [World EXCEPT !.dirs[box.key] = lastPwd']
       IN /\ box.type = "redis" => box.live = rows[id].pwd
          /\ SetWorld(IF at = "save" THEN set ELSE UpdateInstancePassword(set, id, lastPwd'))
    /\ UNCHANGED <<lastId, tasks, notified, crashed>>

----------------------------------------------------------------------------
(* The servers themselves, and the panel's own restart.                     *)
BoxHealthy(name) ==
    /\ name \in DOMAIN boxes /\ boxes[name].state = "running" /\ ~boxes[name].healthy
    /\ boxes' = [boxes EXCEPT ![name].healthy = TRUE]
    /\ UNCHANGED <<rows, dirs, pools, faults>> /\ Quiet

BoxExits(name) ==
    /\ Up(name) /\ Charge("exit")
    /\ SetWorld(rtStop(World, name)) /\ Quiet

PanelRestarts ==
    /\ ~crashed /\ crashed' = TRUE /\ Charge("crash")
    /\ tasks' = [i \in {} |-> 0] /\ pools' = [i \in {} |-> 0]
    /\ UNCHANGED <<rows, lastId, lastPwd, boxes, dirs, notified>>

Ats == {"none", "task", "remove", "purge", "row", "wait", "create", "save"}
Install(id) == \/ InstallPrepare(id) \/ InstallPull(id) \/ InstallCreate(id)
               \/ InstallStart(id) \/ InstallWait(id)

Init ==
    /\ rows = [i \in {} |-> 0] /\ lastId = 0 /\ lastPwd = 0
    /\ boxes = [n \in {} |-> 0] /\ dirs = [k \in {} |-> 0]
    /\ tasks = [i \in {} |-> 0] /\ notified = {} /\ pools = [i \in {} |-> 0]
    /\ crashed = FALSE /\ faults = 0

(* The requests (http/handler.go).                                          *)
PostInstance == \E req \in Reqs, at \in Ats : CreateInstance(req, at)
PostCancel(id) == \E at \in Ats : CancelInstall(id, at)
DeleteRequest(id) == \E purge \in BOOLEAN, at \in Ats : UninstallInstance(id, purge, at)
PostPassword(id) == \E at \in Ats : ResetAdminPassword(id, at)
PostStart(id) == \E at \in Ats : StartInstance(id, at)
PostStop(id) == StopInstance(id)
PostRestart(id) == \E at \in Ats : RestartInstance(id, at)
PutConfig(id) == \E port \in Ports, restart \in BOOLEAN, at \in Ats : SaveInstanceConfig(id, port, restart, at)
ListInstances == RefreshStatus

Next ==
    \/ PostInstance \/ ListInstances \/ PanelRestarts
    \/ \E id \in 1..MaxId :
         \/ Install(id) \/ Query(id)
         \/ PostCancel(id) \/ DeleteRequest(id) \/ PostPassword(id)
         \/ PostStart(id) \/ PostStop(id) \/ PostRestart(id) \/ PutConfig(id)
    \/ \E name \in DOMAIN boxes : BoxHealthy(name) \/ BoxExits(name)

Spec == Init /\ [][Next]_vars

----------------------------------------------------------------------------
(* What the variables hold.                                                 *)
TypeOK ==
    /\ DOMAIN rows \subseteq 1..lastId
    /\ \A i \in DOMAIN rows :
         /\ rows[i].req \in Reqs
         /\ rows[i].status \in {"installing", "running", "unhealthy", "stopped", "failed"}
         /\ rows[i].pwd \in 1..lastPwd
    /\ \A n \in DOMAIN boxes : boxes[n].state \in {"created", "running", "exited"}
    /\ \A i \in DOMAIN tasks : tasks[i].pc \in {"prepare", "pull", "create", "start", "wait"}
    /\ notified \subseteq 1..lastId /\ faults \in 0..MaxFaults

(* The list shows an install as under way only while its goroutine runs,    *)
(* unless the panel was restarted, which nothing repairs, and as failed     *)
(* only when the failure was notified (CreateInstance, installFailed).      *)
InstallsReported ==
    /\ \A i \in DOMAIN rows : rows[i].status = "installing" => i \in DOMAIN tasks \/ crashed
    /\ \A i \in DOMAIN rows : rows[i].status = "failed" => i \in notified

(* The cached connections of an instance dial the port its row says, over   *)
(* failures and restarts, and while nothing has failed the container made   *)
(* for the instance is mapped to that port.  A container of the same name   *)
(* may be another one: the install of a removed instance still creates its  *)
(* own when it was cancelled too late.                                      *)
PoolsReachContainer ==
    \A i \in DOMAIN pools \cap DOMAIN rows :
        LET name == rows[i].req.cname
        IN /\ pools[i] = rows[i].port
           /\ faults = 0 /\ name \in DOMAIN boxes /\ boxes[name].of = i => boxes[name].port = pools[i]

(* Every install ends, unless the container it waits for was replaced by one *)
(* that the install of a removed instance created and nothing starts.        *)
InstallsEnd ==
    \A id \in 1..MaxId :
        (id \in DOMAIN tasks) ~>
            \/ id \notin DOMAIN tasks
            \/ tasks[id].pc = "wait" /\ tasks[id].req.cname \in DOMAIN boxes
               /\ boxes[tasks[id].req.cname].state = "created"

(* No container is left without an instance once nothing has failed and no  *)
(* install is under way (comment of CancelInstall: "the response guarantees *)
(* clean state").                                                           *)
NoOrphanContainer ==
    faults = 0 /\ tasks = [i \in {} |-> 0] =>
        \A n \in DOMAIN boxes : \E i \in DOMAIN rows : rows[i].req.cname = n
=============================================================================
