------------------------------- MODULE Data ---------------------------------
(* What the panel keeps: database instances and their backups, the record   *)
(* of SSH logins, and the history of the monitor. The parts share no state, *)
(* so a behaviour is one of a single part.                                  *)
EXTENDS Integers, Sequences

(* The constants of the parts; one that several parts have carries the name *)
(* of its part.                                                             *)
CONSTANTS
    Reqs, Ports, DbMaxId, MaxPwd, DbMaxFaults,
    Engines, BackupMaxId, MaxVer, MaxClock, BackupMaxFaults,
    Pids, Limit, MaxLog,
    ringSize, maxHistoryPoints, Retention, MaxPoints, MonMaxFaults

VARIABLES
    part,
    dbRows, dbLastId, lastPwd, boxes, dirs, tasks, notified, pools, dbCrashed,
    dbFaults,
    engine, present, backupRows, backupLastId, files, backup, restore, backupShown,
    mem, dump, pre, up, clock, overlap, backupCrashed, backupFaults,
    procs, kill, verified, killed, log, journal,
    ringBuffer, ringHead, ringCount, collected, batch, db, ctxDone, flusher,
    monFaults, monShown

Instances == INSTANCE DbInstances WITH
    MaxId <- DbMaxId, MaxFaults <- DbMaxFaults, rows <- dbRows, lastId <- dbLastId,
    crashed <- dbCrashed, faults <- dbFaults
Backups == INSTANCE DbBackups WITH
    MaxId <- BackupMaxId, MaxFaults <- BackupMaxFaults, rows <- backupRows,
    lastId <- backupLastId, shown <- backupShown, crashed <- backupCrashed,
    faults <- backupFaults
Logins == INSTANCE SshSessions
Mon == INSTANCE Monitor WITH
    MaxFaults <- MonMaxFaults, faults <- monFaults, shown <- monShown

ASSUME InstanceAssumption == Instances!InstanceBounds
ASSUME BackupAssumption == Backups!BackupBounds
ASSUME LoginAssumption == Logins!LoginBounds
ASSUME MonitorAssumption == Mon!MonitorBounds

dbVars == <<dbRows, dbLastId, lastPwd, boxes, dirs, tasks, notified, pools, dbCrashed,
    dbFaults>>
backupVars == <<engine, present, backupRows, backupLastId, files, backup, restore, backupShown,
    mem, dump, pre, up, clock, overlap, backupCrashed, backupFaults>>
loginsVars == <<procs, kill, verified, killed, log, journal>>
monVars == <<ringBuffer, ringHead, ringCount, collected, batch, db, ctxDone, flusher,
    monFaults, monShown>>
vars == <<part, dbVars, backupVars, loginsVars, monVars>>

-----------------------------------------------------------------------------
Parts == {"db", "backup", "logins", "mon"}

Init ==
    /\ part \in Parts
    /\ Instances!Init
    /\ Backups!Init
    /\ part # "backup" => engine = CHOOSE e \in Engines : TRUE
    /\ Logins!Init
    /\ part # "logins" => journal
    /\ Mon!Init

(* The last disjunct: requests that only read, which are all that is left   *)
(* when the bounds of the part are reached.                                 *)
Next ==
    \/ /\ part = "db" /\ Instances!Next
       /\ UNCHANGED <<part, backupVars, loginsVars, monVars>>
    \/ /\ part = "backup" /\ Backups!Next
       /\ UNCHANGED <<part, dbVars, loginsVars, monVars>>
    \/ /\ part = "logins" /\ Logins!Next
       /\ UNCHANGED <<part, dbVars, backupVars, monVars>>
    \/ /\ part = "mon" /\ Mon!Next
       /\ UNCHANGED <<part, dbVars, backupVars, loginsVars>>
    \/ part \in {"backup"} /\ UNCHANGED vars

Spec == Init /\ [][Next]_vars
FairSpec ==
    /\ Spec
    /\ \A id \in 1..DbMaxId : WF_dbVars(part = "db" /\ Instances!Install(id))
    /\ \A n \in {r.cname : r \in Reqs} : WF_dbVars(part = "db" /\ Instances!BoxHealthy(n))
    /\ \A id \in 1..BackupMaxId : WF_backupVars(part = "backup" /\ Backups!RestoreTask(id))

-----------------------------------------------------------------------------
(* The variables of every part have their types.                            *)
TypeOK ==
    /\ part = "db" => Instances!TypeOK
    /\ part = "backup" => Backups!TypeOK
    /\ part = "logins" => Logins!TypeOK
    /\ part = "mon" => Mon!TypeOK

(* What the panel shows of databases is true. An install is listed as under *)
(* way only while its goroutine runs, unless the panel was restarted, which *)
(* nothing repairs, and as failed only when the failure was notified;       *)
(* cached connections dial the port the row of the instance says, and while *)
(* nothing has failed the container made for the instance is mapped to it;  *)
(* and no backup is shown as running that no task is making, over refused   *)
(* tasks and restarts of the panel.                                         *)
ViewIsTrue ==
    /\ part = "db" =>
          /\ Instances!InstallsReported
          /\ Instances!PoolsReachContainer
    /\ part = "backup" => Backups!RunningIsRunning

(* A restore of Redis that did not succeed leaves no dump of the backup     *)
(* behind for the next start, unless the panel stopped in the middle or     *)
(* another restore of the instance ran at the same time (restoreRedis).     *)
NoHalfRestore == part = "backup" => Backups!NoHalfRestore

(* Records are the newest, in order, and kept once: a flush takes the       *)
(* newest points also after the ring went round, a point is saved once at   *)
(* most however collecting falls into a flush and whatever batch is lost, a *)
(* chart begins with the first point and ends with the last, and the login  *)
(* history is made of the newest attempts (addToBuffer, flushBuffer,        *)
(* GetHistory, GetLoginHistory).                                            *)
RecordsInOrder ==
    /\ part = "mon" =>
          /\ Mon!RingIsRecent
          /\ Mon!SavedOnce
          /\ Mon!ChartKeepsEnds
    /\ part = "logins" => Logins!HistoryIsNewest

(* Every install ends, unless the container it waits for was replaced by    *)
(* one that the install of a removed instance created and nothing starts,   *)
(* and every restore that is shown as running comes to an end.              *)
TasksEnd ==
    /\ Instances!InstallsEnd
    /\ Backups!RestoresEnd

-----------------------------------------------------------------------------
(* Values of the constants for TLC (Data.cfg).                              *)

DbReqs == {[key |-> "m", type |-> "postgresql", cname |-> "c", port |-> p] : p \in {1, 2}}

=============================================================================
