------------------------------ MODULE DbBackups ------------------------------
(* Backups and restores of one database instance (internal/domain/database/ *)
(* backup.go): the rows, the files, the tasks that dump and restore, and    *)
(* the server they work on.  The contents of the database are a version     *)
(* number.  Requests are handled one at a time and interleave with the      *)
(* steps of the tasks.                                                      *)
EXTENDS Naturals

CONSTANTS
    Engines,      \* servers considered: postgresql, mysql, redis, aof (redis with AOF)
    MaxId,        \* bound: backups ever made
    MaxVer,       \* bound: versions of the data
    MaxClock,     \* bound: seconds that go by
    MaxFaults     \* bound: steps that fail

(* What the proofs need of the constants.                                   *)
BackupBounds == {MaxVer, MaxClock} \subseteq Nat

VARIABLES
    engine,       \* the server of this instance
    present,      \* the instance is installed
    rows,         \* instance_backups: id -> [file, status]
    lastId,
    files,        \* es_backups/: file -> version held (0: a partial dump)
    backup,       \* the backup task, [id, file, pc]; its key admits one
    restore,      \* restore tasks: id -> [pc, data]
    shown,        \* restoreTask: id -> status
    mem,          \* version the server holds
    dump,         \* dump.rdb: [ver, from], from "none", "server" or "backup"
    pre,          \* dump.rdb.pre-restore: as dump
    up,           \* the server runs
    clock,        \* seconds: file names carry them
    overlap,      \* two restores have run at once: nothing keeps them apart
    crashed, faults

vars == <<engine, present, rows, lastId, files, backup, restore, shown, mem, dump, pre, up,
          clock, overlap, crashed, faults>>

server == <<engine, mem, dump, pre, up, clock>>
panel == <<present, rows, lastId, files, backup, restore, shown>>
NoTask == [id |-> 0, file |-> 0, pc |-> "none"]
NoDump == [ver |-> 0, from |-> "none"]
Half == MaxVer + 1     \* what a MySQL restore that fails midway leaves
Without(f, x) == [y \in DOMAIN f \ {x} |-> f[y]]
With(f, x, v) == [y \in DOMAIN f \cup {x} |-> IF y = x THEN v ELSE f[y]]
Charge(at) == faults' = faults + (IF at = "none" THEN 0 ELSE 1) /\ faults' <= MaxFaults

UpdateBackupStatus(id, status) == IF id \in DOMAIN rows THEN [rows EXCEPT ![id].status = status] ELSE rows

----------------------------------------------------------------------------
(* The row, then the task.  A task of the same database refuses another.    *)
CreateBackup(at) ==
    /\ present /\ lastId < MaxId
    /\ at \in {"none", "full"} /\ Charge(at)
    /\ lastId' = lastId + 1
    /\ LET started == backup.id = 0 /\ at = "none"
       IN /\ rows' = With(rows, lastId', [file |-> clock,
                                         status |-> IF started THEN "running" ELSE "failed"])
          /\ backup' = IF started THEN [id |-> lastId', file |-> clock, pc |-> "dump"] ELSE backup
    /\ UNCHANGED <<present, files, restore, shown, overlap, crashed, server>>

(* A dump that fails may leave a part of the file.                          *)
executeBackup(status, written, at) ==
    /\ rows' = IF at = "save" THEN rows ELSE UpdateBackupStatus(backup.id, status)
    /\ files' = written /\ backup' = NoTask

backupSQL(at) ==
    /\ backup.id # 0 /\ engine \in {"postgresql", "mysql"}
    /\ at \in {"none", "dump", "save"} /\ Charge(at)
    /\ IF ~present \/ ~up \/ at = "dump"
       THEN executeBackup("failed", IF present THEN With(files, backup.file, 0) ELSE files, at)
       ELSE executeBackup("success", With(files, backup.file, mem), at)
    /\ UNCHANGED <<present, lastId, restore, shown, overlap, crashed, server>>

(* Redis is asked to save and given two seconds; dump.rdb is then copied,   *)
(* whether the save is over or not.                                         *)
backupRedisSave ==
    /\ backup.id # 0 /\ engine \in {"redis", "aof"} /\ backup.pc = "dump" /\ Charge("none")
    /\ IF present /\ up
       THEN backup' = [backup EXCEPT !.pc = "copy"] /\ UNCHANGED <<rows, files>>
       ELSE executeBackup("failed", files, "none")
    /\ UNCHANGED <<present, lastId, restore, shown, overlap, crashed, server>>

backupRedisCopy(at) ==
    /\ backup.id # 0 /\ backup.pc = "copy"
    /\ at \in {"none", "copy", "save"} /\ Charge(at)
    /\ IF ~present \/ dump.from = "none" \/ at = "copy" THEN executeBackup("failed", files, at)
       ELSE executeBackup("success", With(files, backup.file, dump.ver), at)
    /\ UNCHANGED <<present, lastId, restore, shown, overlap, crashed, server>>

(* The file goes before the check for a running restore.                    *)
DeleteBackup(id) ==
    /\ id \in DOMAIN rows /\ rows[id].status # "running" /\ Charge("none")
    /\ files' = Without(files, rows[id].file)
    /\ rows' = IF id \in DOMAIN shown /\ shown[id] = "running" THEN rows ELSE Without(rows, id)
    /\ UNCHANGED <<present, lastId, backup, restore, shown, overlap, crashed, server>>

----------------------------------------------------------------------------
(* What a restore shows is written before its task starts and erased when   *)
(* the task is refused, also when another restore of the backup runs.       *)
RestoreBackup(id, at) ==
    /\ id \in DOMAIN rows /\ rows[id].status = "success" /\ rows[id].file \in DOMAIN files
    /\ at \in {"none", "full"} /\ Charge(at)
    /\ IF id \in DOMAIN restore \/ at = "full"
       THEN shown' = Without(shown, id) /\ UNCHANGED <<restore, overlap>>
       ELSE shown' = With(shown, id, "running")
            /\ restore' = With(restore, id, [pc |-> "read", file |-> rows[id].file, data |-> 0,
                                                kept |-> FALSE])
            /\ overlap' = (overlap \/ DOMAIN restore # {})
    /\ UNCHANGED <<present, rows, lastId, files, backup, crashed, server>>

(* Bug variant: a restore that fails leaves what it shows.                  *)
restoreEndsSilently(id, status) ==
    /\ restore' = Without(restore, id)
    /\ shown' = IF id \in DOMAIN shown /\ status = "success" THEN [shown EXCEPT ![id] = status] ELSE shown

restoreEnds(id, status) ==
    /\ restore' = Without(restore, id)
    /\ shown' = IF id \in DOMAIN shown THEN [shown EXCEPT ![id] = status] ELSE shown

RestoreStep(id) == UNCHANGED <<engine, present, rows, lastId, files, backup, clock, overlap, crashed>>
Step(id, pc) == /\ id \in DOMAIN restore /\ restore[id].pc = pc /\ RestoreStep(id)
Readable(id) == present /\ restore[id].file \in DOMAIN files
Proceed(id, pc) == restore' = [restore EXCEPT ![id].pc = pc] /\ UNCHANGED shown

(* PostgreSQL restores in one transaction, MySQL statement by statement.    *)
restoreSQL(id, at) ==
    /\ Step(id, "read") /\ engine \in {"postgresql", "mysql"}
    /\ at \in {"none", "load"} /\ Charge(at)
    /\ IF ~Readable(id) \/ ~up \/ at = "load"
       THEN /\ restoreEnds(id, "failed")
            /\ mem' = IF at = "load" /\ engine = "mysql" THEN Half ELSE mem
       ELSE restoreEnds(id, "success") /\ mem' = files[restore[id].file]
    /\ UNCHANGED <<dump, pre, up>>

(* The present dump is kept aside before Redis is stopped.                  *)
restoreRedisRead(id, at) ==
    /\ Step(id, "read") /\ engine \in {"redis", "aof"}
    /\ at \in {"none", "keep"} /\ Charge(at)
    /\ UNCHANGED <<mem, dump, up>>
    /\ IF ~Readable(id) \/ at = "keep" \/ (engine = "aof" /\ up)
       THEN restoreEnds(id, "failed") /\ UNCHANGED pre
       ELSE /\ pre' = IF dump.from = "none" THEN pre ELSE dump
            /\ restore' = [restore EXCEPT ![id].pc = "stop", ![id].data = files[restore[id].file],
                                         ![id].kept = (dump.from # "none")]
            /\ UNCHANGED shown

restoreRedisStop(id, at) ==
    /\ Step(id, "stop") /\ at \in {"none", "stop"} /\ Charge(at)
    /\ UNCHANGED mem
    /\ IF at = "stop" THEN restoreEnds(id, "failed") /\ pre' = NoDump /\ UNCHANGED <<dump, up>>
       ELSE /\ Proceed(id, "swap") /\ up' = FALSE /\ UNCHANGED pre
            /\ dump' = IF up THEN [ver |-> mem, from |-> "server"] ELSE dump

(* Written beside the dump and renamed over it; if that fails Redis is      *)
(* started as it was.                                                       *)
restoreRedisSwap(id, at) ==
    /\ Step(id, "swap") /\ at \in {"none", "write", "restart"} /\ Charge(at)
    /\ IF at = "none"
       THEN Proceed(id, "start") /\ dump' = [ver |-> restore[id].data, from |-> "backup"]
            /\ UNCHANGED <<mem, pre, up>>
       ELSE /\ restoreEnds(id, "failed") /\ pre' = NoDump /\ UNCHANGED dump
            /\ up' = (at = "write")
            /\ mem' = IF up' THEN dump.ver ELSE mem

(* Bug variant: the dump of the backup stays.                               *)
restoreRedisStartOnly(id, at) ==
    /\ Step(id, "start") /\ at \in {"none", "start"} /\ Charge(at)
    /\ pre' = NoDump
    /\ IF at = "none"
       THEN restoreEnds(id, "success") /\ up' = TRUE /\ mem' = dump.ver
            /\ dump' = [dump EXCEPT !.from = "server"]
       ELSE restoreEnds(id, "failed") /\ UNCHANGED <<mem, up, dump>>

(* The dump kept aside goes back when Redis does not start.                 *)
restoreRedisStart(id, at) ==
    /\ Step(id, "start") /\ at \in {"none", "start"} /\ Charge(at)
    /\ pre' = NoDump
    /\ IF at = "none"
       THEN restoreEnds(id, "success") /\ up' = TRUE /\ mem' = dump.ver
            /\ dump' = [dump EXCEPT !.from = "server"]
       ELSE /\ restoreEnds(id, "failed") /\ UNCHANGED <<mem, up>>
            /\ dump' = IF restore[id].kept /\ pre.from = "none" THEN dump ELSE pre

Restore(id, at) == \/ restoreSQL(id, at) \/ restoreRedisRead(id, at) \/ restoreRedisStop(id, at)
                   \/ restoreRedisSwap(id, at) \/ restoreRedisStart(id, at)

----------------------------------------------------------------------------
(* Rows go with their instance; its directory goes when it is purged.       *)
UninstallInstance(purge) ==
    /\ present /\ present' = FALSE /\ up' = FALSE
    /\ rows' = [i \in {} |-> 0]
    /\ files' = IF purge THEN [f \in {} |-> 0] ELSE files
    /\ dump' = (IF purge THEN NoDump ELSE dump)
    /\ pre' = (IF purge THEN NoDump ELSE pre)
    /\ UNCHANGED <<engine, lastId, backup, restore, shown, mem, clock, overlap, crashed, faults>>

(* Bug variant: no sweep.                                                   *)
SweepNothing == rows

SweepOrphanBackups == [i \in DOMAIN rows |-> IF rows[i].status = "running"
                                             THEN [rows[i] EXCEPT !.status = "failed"] ELSE rows[i]]

PanelRestarts ==
    /\ ~crashed /\ crashed' = TRUE
    /\ rows' = SweepOrphanBackups
    /\ backup' = NoTask /\ restore' = [i \in {} |-> 0] /\ shown' = [i \in {} |-> 0]
    /\ UNCHANGED <<present, lastId, files, overlap, faults, server>>

(* The server: its data change, and Redis saves them when it sees fit.      *)
Write == /\ up /\ mem < MaxVer /\ mem' = mem + 1
         /\ UNCHANGED <<engine, dump, pre, up, clock, overlap, crashed, faults, panel>>
Save == /\ up /\ engine \in {"redis", "aof"} /\ dump' = [ver |-> mem, from |-> "server"]
        /\ UNCHANGED <<engine, mem, pre, up, clock, overlap, crashed, faults, panel>>
Tick == /\ clock < MaxClock /\ clock' = clock + 1
        /\ UNCHANGED <<engine, mem, dump, pre, up, overlap, crashed, faults, panel>>

Ats == {"none", "full", "dump", "copy", "save", "load", "keep", "stop", "write", "restart", "start"}

Init ==
    /\ engine \in Engines /\ present = TRUE
    /\ rows = [i \in {} |-> 0] /\ lastId = 0 /\ files = [f \in {} |-> 0]
    /\ backup = NoTask /\ restore = [i \in {} |-> 0] /\ shown = [i \in {} |-> 0]
    /\ mem = 1 /\ dump = NoDump /\ pre = NoDump /\ up = TRUE
    /\ clock = 0 /\ overlap = FALSE /\ crashed = FALSE /\ faults = 0

(* The requests (http/handler.go).                                          *)
PostBackup == \E at \in Ats : CreateBackup(at)
DeleteRequest == \E id \in 1..MaxId : DeleteBackup(id)
PostRestore == \E id \in 1..MaxId, at \in Ats : RestoreBackup(id, at)
BackupTask == backup.id # 0 /\ (backupRedisSave \/ \E at \in Ats : backupSQL(at) \/ backupRedisCopy(at))
RestoreTask(id) == id \in DOMAIN restore /\ \E at \in Ats : Restore(id, at)

Next ==
    \/ PostBackup \/ DeleteRequest \/ PostRestore
    \/ BackupTask \/ \E id \in 1..MaxId : RestoreTask(id)
    \/ PanelRestarts \/ Write \/ Save \/ Tick
    \/ \E purge \in BOOLEAN : UninstallInstance(purge)

----------------------------------------------------------------------------
(* What the variables hold.                                                 *)
TypeOK ==
    /\ DOMAIN rows \subseteq 1..lastId
    /\ \A i \in DOMAIN rows : rows[i].status \in {"running", "success", "failed"}
    /\ \A i \in DOMAIN shown : shown[i] \in {"running", "success", "failed"}
    /\ DOMAIN restore \subseteq 1..lastId /\ DOMAIN files \subseteq 0..MaxClock
    /\ mem \in 0..Half /\ dump.from \in {"none", "server", "backup"}

(* The list never shows a backup as running that no task is making, over    *)
(* refused tasks and restarts of the panel.                                 *)
RunningIsRunning ==
    faults = 0 => \A i \in DOMAIN rows : rows[i].status = "running" => backup.id = i

(* A restore of Redis that did not succeed leaves no dump of the backup     *)
(* behind for the next start, unless the panel stopped in the middle or     *)
(* another restore of the instance ran at the same time.                    *)
NoHalfRestore ==
    restore = [i \in {} |-> 0] /\ ~overlap /\ ~crashed /\ present => dump.from # "backup"

(* Every restore that is shown as running comes to an end.                  *)
RestoresEnd == \A id \in 1..MaxId :
    (id \in DOMAIN shown /\ shown[id] = "running") ~> (id \notin DOMAIN shown \/ shown[id] # "running")

(* The file of a backup being restored is there ("恢复任务若正跑该备份，删文件 *)
(* 会让恢复失败——拒绝删除").                                                    *)
RestoringKeepsFile ==
    present => \A id \in DOMAIN restore : restore[id].file \in DOMAIN files
=============================================================================
