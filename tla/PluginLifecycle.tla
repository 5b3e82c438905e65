--------------------------- MODULE PluginLifecycle ---------------------------
(***************************************************************************)
(* The plugin manager, internal/plugin/manager.go and install.go, for one  *)
(* plugin: start, approve, stop, disable, remove, install and upgrade as   *)
(* requests that may overlap, and the restart of the panel with the scan   *)
(* of the plugin directory. A request holds Manager.mu only for single map *)
(* operations, so each of its steps below is one map operation, one call   *)
(* of the supervisor, one statement on the database, or one rename.        *)
(*                                                                         *)
(* The supervisor appears as what the manager relies on: a process that    *)
(* was given a token and may crash and be restarted with it (the module    *)
(* PluginSupervisor has the details).                                      *)
(***************************************************************************)
EXTENDS Naturals

CONSTANTS Requests,        \* the requests that may be under way together
          Versions,        \* the packages of the plugin
          Permissions,     \* the capabilities of the Host API
          Faults,          \* the kinds of steps that may fail
          MaxFaults,       \* bound on the failures
          MaxTokens,       \* bound on the calls of GenerateToken
          MaxRestarts,     \* bound on the restarts of the panel
          RestartAnywhere, \* whether the panel may also restart during a request
          Declared         \* Manifest.Permissions of each version

None == "none"

LifecycleBounds ==
  /\ None \notin Versions
  /\ Declared \in [Versions -> SUBSET Permissions]
  /\ Faults \subseteq {"start", "move", "upsert", "enable"}
  /\ {MaxFaults, MaxTokens, MaxRestarts} \subseteq Nat
  /\ RestartAnywhere \in BOOLEAN

VARIABLES
  disk,        \* the version in the plugin's directory, if there is one
  db,          \* the row of the table plugins, if there is one
  manifest,    \* Manager.manifests: the version loaded, if one is
  tokens,      \* Manager.tokens: the tokens that the Host API accepts
  proc,        \* the process that the supervisor has registered, if any
  subscribed,  \* whether the plugin's event subscription exists
  scheduled,   \* whether the plugin's services are in the cron
  req,         \* the requests: control point and local variables
  lastToken, faults, restarts,  \* counters
  granted      \* the permissions that an administrator approved last

stores == <<disk, db, manifest>>
runtime == <<tokens, proc, subscribed, scheduled>>
counters == <<lastToken, faults, restarts>>
vars == <<stores, runtime, req, counters, granted>>

Row(v, enabled, approved) == [ver |-> v, enabled |-> enabled, approved |-> approved]
NoRow == Row(None, FALSE, {})
NoProc == [ver |-> None, tok |-> 0, alive |-> FALSE, ready |-> FALSE]
Idle == [pc |-> "idle", op |-> "none", mft |-> None, approved |-> {}, tok |-> 0,
         new |-> None, old |-> NoRow, bak |-> None]

Quiet == \A r \in Requests : req[r].pc = "idle"
Booting == \E r \in Requests : req[r].op = "boot"

TypeOK ==
  /\ disk \in Versions \cup {None}
  /\ db \in {NoRow} \cup [ver : Versions, enabled : BOOLEAN, approved : SUBSET Permissions]
  /\ manifest \in Versions \cup {None}
  /\ tokens \subseteq 1..MaxTokens
  /\ proc \in {NoProc} \cup [ver : Versions, tok : 1..MaxTokens, alive : BOOLEAN, ready : BOOLEAN]
  /\ subscribed \in BOOLEAN /\ scheduled \in BOOLEAN
  /\ \A r \in Requests : req[r].mft \in Versions \cup {None} /\ req[r].tok \in 0..MaxTokens
  /\ lastToken \in 0..MaxTokens /\ faults \in 0..MaxFaults /\ restarts \in 0..MaxRestarts
  /\ granted \subseteq Permissions

\* The panel runs and no plugin is installed.
Init ==
  /\ disk = None /\ db = NoRow /\ manifest = None
  /\ tokens = {} /\ proc = NoProc
  /\ subscribed = FALSE /\ scheduled = FALSE
  /\ req = [r \in Requests |-> Idle]
  /\ lastToken = 0 /\ faults = 0 /\ restarts = 0
  /\ granted = {}

----------------------------------------------------------------------------
\* The control of a request.
At(r, label) == req[r].pc = label
Goto(r, label) == req' = [req EXCEPT ![r].pc = label]
Done(r) == req' = [req EXCEPT ![r] = Idle]
Begin(r, op, label) ==
  /\ req[r].pc = "idle" /\ ~Booting
  /\ req' = [req EXCEPT ![r] = [Idle EXCEPT !.op = op, !.pc = label]]
  /\ UNCHANGED <<stores, runtime, counters, granted>>

\* A step of the given kind fails, or it does not.
Fails(kind) == kind \in Faults /\ faults < MaxFaults /\ faults' = faults + 1
Works == UNCHANGED faults

----------------------------------------------------------------------------
(* StartWithApproved.                                                       *)

Start(r) == Begin(r, "start", "lookup")
Approve(r) == Begin(r, "approve", "validate")

\* Approve looks the manifest up and refuses a permission that is not declared.
Validate(r) ==
  /\ At(r, "validate")
  /\ IF manifest = None
       THEN Done(r)
       ELSE \E wanted \in SUBSET Declared[manifest] :
              req' = [req EXCEPT ![r].pc = "lookup", ![r].approved = wanted]
  /\ UNCHANGED <<stores, runtime, counters, granted>>

\* Where a start ends: an upgrade goes on to remove its backup.
AfterStart(r) == IF req[r].op = "install" THEN Goto(r, "cleanup") ELSE Done(r)

\* StartWithApproved looks the manifest up, for an approval once more. No
\* permission at all means all that are declared.
Approved(v, wanted) == IF wanted = {} THEN Declared[v] ELSE wanted

LookUp(r) ==
  /\ At(r, "lookup")
  /\ IF manifest = None
       THEN AfterStart(r)
       ELSE req' = [req EXCEPT ![r].pc = "issue", ![r].mft = manifest,
                               ![r].approved = Approved(manifest, @)]
  /\ UNCHANGED <<stores, runtime, counters, granted>>

\* The new token replaces all tokens of the plugin.
TokensPiledUp(t) == tokens \cup {t}
TokensAfterIssue(t) == {t}
IssueToken(r) ==
  /\ At(r, "issue") /\ lastToken < MaxTokens
  /\ lastToken' = lastToken + 1
  /\ tokens' = TokensAfterIssue(lastToken + 1)
  /\ req' = [req EXCEPT ![r].pc = "ensure", ![r].tok = lastToken + 1]
  /\ UNCHANGED <<stores, proc, subscribed, scheduled, faults, restarts, granted>>

\* The executable that EnsureRunning looks for.
ExecutableUnchecked == TRUE
Executable == disk # None

\* EnsureRunning returns at once if the plugin runs, and else launches it with
\* the token; a missing executable and a failed exec are errors.
AlreadyRunning(r) ==
  /\ At(r, "ensure")
  /\ proc.alive
  /\ Goto(r, "enable")
  /\ UNCHANGED <<stores, runtime, counters, granted>>

Launch(r) ==
  /\ At(r, "ensure")
  /\ ~proc.alive
  /\ Executable
  /\ Works
  /\ proc' = [ver |-> disk, tok |-> req[r].tok, alive |-> TRUE, ready |-> FALSE]
  /\ Goto(r, "wait")
  /\ UNCHANGED <<stores, tokens, subscribed, scheduled, lastToken, restarts, granted>>

LaunchFails(r) ==
  /\ At(r, "ensure")
  /\ ~proc.alive
  /\ \/ ~Executable /\ Works
     \/ Fails("start")
  /\ Goto(r, "revoke")
  /\ UNCHANGED <<stores, runtime, lastToken, restarts, granted>>

\* The wait for the health check of the process that this request launched.
Mine(r) == proc # NoProc /\ proc.tok = req[r].tok

Ready(r) ==
  /\ At(r, "wait")
  /\ Mine(r) /\ proc.alive
  /\ proc' = [proc EXCEPT !.ready = TRUE]
  /\ Goto(r, "enable")
  /\ UNCHANGED <<stores, tokens, subscribed, scheduled, counters, granted>>

\* It does not become healthy in time and is killed, or it has exited or was
\* stopped.
NotReady(r) ==
  /\ At(r, "wait")
  /\ \/ /\ Mine(r) /\ proc.alive
        /\ Fails("start")
        /\ proc' = [proc EXCEPT !.alive = FALSE]
     \/ /\ ~Mine(r) \/ ~proc.alive
        /\ Works
        /\ UNCHANGED proc
  /\ Goto(r, "revoke")
  /\ UNCHANGED <<stores, tokens, subscribed, scheduled, lastToken, restarts, granted>>

Revoked(r) == tokens \ {req[r].tok}
RevokeToken(r) ==
  /\ At(r, "revoke")
  /\ tokens' = Revoked(r)
  /\ AfterStart(r)
  /\ UNCHANGED <<stores, proc, subscribed, scheduled, counters, granted>>

\* SetPluginEnabled: an UPDATE, which changes nothing if the row is gone. An
\* administrator stands behind a start and an approval.
Enable(r) ==
  /\ At(r, "enable")
  /\ Works
  /\ db' = IF db = NoRow THEN NoRow ELSE Row(db.ver, TRUE, req[r].approved)
  /\ granted' = IF req[r].op \in {"start", "approve"} THEN req[r].approved ELSE granted
  /\ Goto(r, "subscribe")
  /\ UNCHANGED <<disk, manifest, runtime, lastToken, restarts>>

EnableFails(r) ==
  /\ At(r, "enable")
  /\ Fails("enable")
  /\ AfterStart(r)
  /\ UNCHANGED <<stores, runtime, lastToken, restarts, granted>>

StartEventDelivery(r) ==
  /\ At(r, "subscribe")
  /\ subscribed' = TRUE
  /\ Goto(r, "schedule")
  /\ UNCHANGED <<stores, tokens, proc, scheduled, counters, granted>>

Schedule(r) ==
  /\ At(r, "schedule")
  /\ scheduled' = TRUE
  /\ AfterStart(r)
  /\ UNCHANGED <<stores, tokens, proc, subscribed, counters, granted>>

----------------------------------------------------------------------------
(* Stop, Disable and Remove.                                                *)

StopRequest(r, op) ==
  /\ op = "remove" => manifest # None
  /\ Begin(r, op, "stop")

StopPlugin(r) ==
  /\ At(r, "stop")
  /\ proc' = NoProc
  /\ Goto(r, "unsubscribe")
  /\ UNCHANGED <<stores, tokens, subscribed, scheduled, counters, granted>>

StopEventDelivery(r) ==
  /\ At(r, "unsubscribe")
  /\ subscribed' = FALSE
  /\ Goto(r, "unschedule")
  /\ UNCHANGED <<stores, tokens, proc, scheduled, counters, granted>>

Unschedule(r) ==
  /\ At(r, "unschedule")
  /\ scheduled' = FALSE
  /\ IF req[r].op = "stop" THEN Done(r) ELSE Goto(r, "clear")
  /\ UNCHANGED <<stores, tokens, proc, subscribed, counters, granted>>

\* Disable revokes the tokens of the plugin ...
ClearedNothing == tokens
Cleared == {}
ClearTokens(r) ==
  /\ At(r, "clear")
  /\ tokens' = Cleared
  /\ Goto(r, "disable")
  /\ UNCHANGED <<stores, proc, subscribed, scheduled, counters, granted>>

\* ... and writes the row.
SetDisabled(r) ==
  /\ At(r, "disable")
  /\ db' = IF db = NoRow THEN NoRow ELSE Row(db.ver, FALSE, {})
  /\ IF req[r].op = "disable" THEN Done(r) ELSE Goto(r, "unload")
  /\ UNCHANGED <<disk, manifest, runtime, counters, granted>>

Unload(r) ==
  /\ At(r, "unload")
  /\ manifest' = None
  /\ tokens' = {}
  /\ Goto(r, "delete")
  /\ UNCHANGED <<disk, db, proc, subscribed, scheduled, counters, granted>>

\* DeletePlugin; the directory stays.
Delete(r) ==
  /\ At(r, "delete")
  /\ db' = NoRow
  /\ Done(r)
  /\ UNCHANGED <<disk, manifest, runtime, counters, granted>>

----------------------------------------------------------------------------
(* InstallFromZip and upgradePlugin.                                        *)

\* The package has been unpacked and is valid; Stat decides the path.
Install(r, v) ==
  /\ req[r].pc = "idle" /\ ~Booting
  /\ req' = [req EXCEPT ![r] = [Idle EXCEPT !.op = "install", !.new = v,
                                            !.pc = IF disk = None THEN "move" ELSE "record"]]
  /\ UNCHANGED <<stores, runtime, counters, granted>>

\* Bug variant: a rename that fails removes its target.
MoveClearsTarget(r) ==
  /\ At(r, "move")
  /\ \/ disk = None /\ Works /\ disk' = req[r].new /\ Goto(r, "insert")
     \/ disk # None /\ Works /\ disk' = None /\ Done(r)
     \/ Fails("move") /\ UNCHANGED disk /\ Done(r)
  /\ UNCHANGED <<db, manifest, runtime, lastToken, restarts, granted>>

\* The new installation: rename (which fails if the directory exists by now),
\* insert the row, load the manifest.
Move(r) ==
  /\ At(r, "move")
  /\ \/ disk = None /\ Works /\ disk' = req[r].new /\ Goto(r, "insert")
     \/ disk # None /\ Works /\ UNCHANGED disk /\ Done(r)
     \/ Fails("move") /\ UNCHANGED disk /\ Done(r)
  /\ UNCHANGED <<db, manifest, runtime, lastToken, restarts, granted>>

\* UpsertPlugin: an existing row only gets the new version.
Upserted(v, enabled, approved) ==
  IF db = NoRow THEN Row(v, enabled, approved) ELSE [db EXCEPT !.ver = v]

Insert(r) ==
  /\ At(r, "insert")
  /\ \/ /\ Works
        /\ db' = Upserted(req[r].new, FALSE, Declared[req[r].new])
        /\ Goto(r, "load")
        /\ UNCHANGED disk
     \/ /\ Fails("upsert")
        /\ disk' = None
        /\ Done(r)
        /\ UNCHANGED db
  /\ UNCHANGED <<manifest, runtime, lastToken, restarts, granted>>

\* The manifest of the new version is put in the map; an upgrade restarts a
\* plugin that was enabled, with its old approval.
LoadNew(r) ==
  /\ At(r, "load")
  /\ manifest' = req[r].new
  /\ IF req[r].old = NoRow THEN Done(r)
       ELSE req' = [req EXCEPT ![r].pc = IF req[r].old.enabled THEN "lookup" ELSE "cleanup",
                               ![r].approved = req[r].old.approved]
  /\ UNCHANGED <<disk, db, runtime, counters, granted>>

\* The upgrade: read the row, stop the process, rename the old directory to a
\* backup, move the new one in, update the row.
ReadRecord(r) ==
  /\ At(r, "record")
  /\ IF db = NoRow THEN Done(r) ELSE req' = [req EXCEPT ![r].pc = "halt", ![r].old = db]
  /\ UNCHANGED <<stores, runtime, counters, granted>>

Halt(r) ==
  /\ At(r, "halt")
  /\ proc' = NoProc
  /\ Goto(r, "backup")
  /\ UNCHANGED <<stores, tokens, subscribed, scheduled, counters, granted>>

Backup(r) ==
  /\ At(r, "backup")
  /\ \/ /\ disk # None /\ Works
        /\ disk' = None
        /\ req' = [req EXCEPT ![r].pc = "replace", ![r].bak = disk]
     \/ ((disk = None /\ Works) \/ Fails("move")) /\ UNCHANGED disk /\ Done(r)
  /\ UNCHANGED <<db, manifest, runtime, lastToken, restarts, granted>>

Replace(r) ==
  /\ At(r, "replace")
  /\ \/ disk = None /\ Works /\ disk' = req[r].new /\ Goto(r, "update")
     \/ ((disk # None /\ Works) \/ Fails("move")) /\ UNCHANGED disk /\ Goto(r, "rollback")
  /\ UNCHANGED <<db, manifest, runtime, lastToken, restarts, granted>>

Update(r) ==
  /\ At(r, "update")
  /\ \/ /\ Works
        /\ db' = Upserted(req[r].new, req[r].old.enabled, req[r].old.approved)
        /\ Goto(r, "load")
     \/ Fails("upsert") /\ UNCHANGED db /\ Goto(r, "rollback")
  /\ UNCHANGED <<disk, manifest, runtime, lastToken, restarts, granted>>

\* rollback: remove what is in the directory, move the backup in (which fails if
\* the directory exists again) ...
RemoveNew(r) ==
  /\ At(r, "rollback")
  /\ disk' = None
  /\ Goto(r, "putback")
  /\ UNCHANGED <<db, manifest, runtime, counters, granted>>

RestoredNothing(r) == disk
Restored(r) == IF disk = None THEN req[r].bak ELSE disk
RestoreDirectory(r) ==
  /\ At(r, "putback")
  /\ disk' = Restored(r)
  /\ Goto(r, "restore")
  /\ UNCHANGED <<db, manifest, runtime, counters, granted>>

\* ... write the old row back and load the old manifest.
RestoreRecord(r) ==
  /\ At(r, "restore")
  /\ db' = Upserted(req[r].old.ver, req[r].old.enabled, req[r].old.approved)
  /\ Goto(r, "reload")
  /\ UNCHANGED <<disk, manifest, runtime, counters, granted>>

Reload(r) ==
  /\ At(r, "reload")
  /\ manifest' = IF disk = None THEN manifest ELSE disk
  /\ Done(r)
  /\ UNCHANGED <<disk, db, runtime, counters, granted>>

\* The backup is removed.
Cleanup(r) ==
  /\ At(r, "cleanup")
  /\ Done(r)
  /\ UNCHANGED <<stores, runtime, counters, granted>>

----------------------------------------------------------------------------
(* The process and the panel.                                               *)

\* The process exits; the supervisor restarts one that had become healthy, with
\* the token it had.
ProcessExits ==
  /\ proc.alive
  /\ proc' = [proc EXCEPT !.alive = FALSE]
  /\ UNCHANGED <<stores, tokens, subscribed, scheduled, req, counters, granted>>

SupervisorRestarts ==
  /\ proc # NoProc /\ ~proc.alive /\ proc.ready /\ Executable
  /\ proc' = [proc EXCEPT !.alive = TRUE, !.ver = disk]
  /\ UNCHANGED <<stores, tokens, subscribed, scheduled, req, counters, granted>>

\* The panel stops, with what it has in memory, and starts again; ScanPlugins
\* runs before it serves requests.
PanelRestarts ==
  /\ restarts < MaxRestarts
  /\ RestartAnywhere \/ Quiet
  /\ restarts' = restarts + 1
  /\ manifest' = None /\ tokens' = {} /\ proc' = NoProc
  /\ subscribed' = FALSE /\ scheduled' = FALSE
  /\ LET boot == CHOOSE r \in Requests : TRUE
     IN  req' = [r \in Requests |->
                   IF r = boot THEN [Idle EXCEPT !.op = "boot", !.pc = "scan"] ELSE Idle]
  /\ UNCHANGED <<disk, db, lastToken, faults, granted>>

\* ScanPlugins registers what is in the directory and starts an enabled plugin
\* with Start, which approves what its manifest declares.
Scan(r) ==
  /\ At(r, "scan")
  /\ IF disk = None
       THEN Done(r) /\ UNCHANGED <<db, manifest>>
       ELSE /\ manifest' = disk
            /\ db' = Upserted(disk, FALSE, Declared[disk])
            /\ IF db # NoRow /\ db.enabled THEN Goto(r, "lookup") ELSE Done(r)
  /\ UNCHANGED <<disk, runtime, counters, granted>>

----------------------------------------------------------------------------
Step(r) ==
  \/ Validate(r) \/ LookUp(r) \/ IssueToken(r) \/ AlreadyRunning(r) \/ Launch(r) \/ LaunchFails(r)
  \/ Ready(r) \/ NotReady(r) \/ RevokeToken(r) \/ Enable(r) \/ EnableFails(r)
  \/ StartEventDelivery(r) \/ Schedule(r)
  \/ StopPlugin(r) \/ StopEventDelivery(r) \/ Unschedule(r) \/ ClearTokens(r)
  \/ SetDisabled(r) \/ Unload(r) \/ Delete(r)
  \/ Move(r) \/ Insert(r) \/ LoadNew(r) \/ ReadRecord(r) \/ Halt(r)
  \/ Backup(r) \/ Replace(r) \/ Update(r) \/ RemoveNew(r) \/ RestoreDirectory(r) \/ RestoreRecord(r)
  \/ Reload(r) \/ Cleanup(r) \/ Scan(r)

Next ==
  \/ \E r \in Requests :
       \/ Start(r) \/ Approve(r)
       \/ \E op \in {"stop", "disable", "remove"} : StopRequest(r, op)
       \/ \E v \in Versions : Install(r, v)
       \/ Step(r)
  \/ ProcessExits \/ SupervisorRestarts \/ PanelRestarts

Spec == Init /\ [][Next]_vars

----------------------------------------------------------------------------
\* The Host API accepts at most the token that was issued last, however starts,
\* failed starts and upgrades overlap: an earlier token dies with the next one,
\* and the rollback of a start takes back its own token only.
NewestTokenOnly == tokens \subseteq {lastToken}

\* One request at a time: between requests the directory, the row and the loaded
\* manifest are of one version, also after an installation or an upgrade one
\* step of which failed.
StoresAgree ==
  Quiet /\ db # NoRow => disk = db.ver /\ manifest = db.ver

\* One request at a time: between requests a plugin that is not enabled has no
\* process, no accepted token, no subscription and no scheduled service.
DisabledIsQuiet ==
  Quiet /\ (db = NoRow \/ ~db.enabled) =>
    ~proc.alive /\ tokens = {} /\ ~subscribed /\ ~scheduled

\* Overlapping requests: when they have all returned, the directory of a
\* registered plugin is there, whichever rollbacks of upgrades were made because
\* another upgrade or installation had filled the directory.
DirectoryKept == Quiet /\ db # NoRow => disk # None

\* What the comment of HasPermission says: the permissions in force are the
\* ones that the administrator approved.
OnlyApprovedInForce == db # NoRow /\ db.enabled => db.approved \subseteq granted

(* An upgrade that declares one permission more, for LifecycleReboot.cfg.    *)
OneThenBoth == [v \in Versions |-> IF v = "v1" THEN {"audit"} ELSE {"audit", "notify"}]
=============================================================================
