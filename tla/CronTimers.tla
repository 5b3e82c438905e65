---------------------------- MODULE CronTimers ----------------------------
(* Scheduled tasks (internal/domain/cron): every task is a pair of systemd  *)
(* units, a command script, systemd's view of them and the baseline of the  *)
(* watcher that reports failures.                                           *)
(* A request runs its steps in order; the step named by `at` fails ("none": *)
(* no step does) and `back` says whether the clean-up it triggers succeeds. *)
EXTENDS Naturals, FiniteSets

CONSTANTS
    Names,        \* task names
    Vers,         \* versions of schedule and command (one tag for both)
    None,         \* no such file
    MaxFaults     \* bound: steps that fail

VARIABLES
    unit,         \* per name: files, enabled link, state of timer and service
    lastSeen,     \* Service.lastSeen: the watcher's baseline
    notified,     \* names the latest sweep reported
    faults,       \* steps that failed so far
    last          \* the last request, as far as a property asks: see Request

vars == <<unit, lastSeen, notified, faults, last>>

(* What the proofs assume of the constants: no version and no content of a  *)
(* file is None.                                                            *)
CronBounds ==
    /\ None \notin Vers /\ MaxFaults \in Nat
    /\ \A v \in Vers : [OnCalendar |-> v] # None
    /\ \A burst \in {1, 2} :
         [Unit |-> [StartLimitBurst |-> burst], Service |-> [Type |-> "oneshot"]] # None

Charge(k) == faults' = faults + k /\ faults' <= MaxFaults
Cost(at, back) == (IF at = "none" THEN 0 ELSE 1) + (IF back THEN 0 ELSE 1)

----------------------------------------------------------------------------
(* Unit files, by section, as they are rendered and parsed.                 *)
RenderTimer(spec) == [OnCalendar |-> spec.ver]

RenderCronService(spec) ==
    [Unit |-> [StartLimitBurst |-> spec.retry + 1], Service |-> [Type |-> "oneshot"]]

(* Only lines of section [Service] are read: a key the section lacks leaves *)
(* the field 0.                                                             *)
parseServiceUnit(svc) ==
    [retry |-> IF "StartLimitBurst" \in DOMAIN svc.Service
               THEN svc.Service.StartLimitBurst - 1 ELSE 0]

parseTimerUnit(timer) == timer.OnCalendar

NoUnit == [timer |-> None, svc |-> None, cmd |-> None, loaded |-> None,
           enabled |-> FALSE, active |-> FALSE, running |-> FALSE, result |-> "success"]

timerUnitExists(n) == unit[n].timer # None
timerEnabled(u) == u.enabled
timerActive(u) == u.active

listTimerNames == {n \in Names : timerUnitExists(n)}

(* loadTask: the fields an update starts from.                              *)
loadTask(n) ==
    [ver     |-> IF unit[n].cmd = None THEN parseTimerUnit(unit[n].timer) ELSE unit[n].cmd,
     retry   |-> IF unit[n].svc = None THEN 0 ELSE parseServiceUnit(unit[n].svc).retry,
     enabled |-> unit[n].enabled]

----------------------------------------------------------------------------
(* Steps on one task's unit; `ok` is the outcome of the command.  `loaded`  *)
(* is what systemd read of this task's timer at the latest reload.          *)
writeTaskCommand(u, spec) == [u EXCEPT !.cmd = spec.ver]
removeTaskCommand(u, ok) == IF ok THEN [u EXCEPT !.cmd = None] ELSE u
WriteCronUnitFile(u, timer, svc) == [u EXCEPT !.timer = timer, !.svc = svc]
RemoveCronUnitFile(u, ok) == IF ok THEN WriteCronUnitFile(u, None, None) ELSE u
daemonReload(u, ok) == IF ok THEN [u EXCEPT !.loaded = u.timer] ELSE u
enableTimer(u, ok) == IF ok THEN [u EXCEPT !.enabled = TRUE] ELSE u
disableTimer(u, ok) == IF ok THEN [u EXCEPT !.enabled = FALSE] ELSE u
restartTimer(u, ok) == [u EXCEPT !.active = ok]
stopTimer(u, ok) == IF ok THEN [u EXCEPT !.active = FALSE] ELSE u

rollbackCreate(u, back) ==
    daemonReload(removeTaskCommand(RemoveCronUnitFile(u, back), back), back)

(* Bug variant: a task whose units cannot be written keeps what is there.   *)
CreateKeepsUnits(u, spec, at, back) ==
    LET cmd   == writeTaskCommand(u, spec)
        timer == WriteCronUnitFile(cmd, RenderTimer(spec), cmd.svc)
        svc   == WriteCronUnitFile(cmd, RenderTimer(spec), RenderCronService(spec))
    IN CASE at = "command" -> u
         [] at = "timer"   -> cmd
         [] at = "service" -> timer
         [] at \in {"reload", "enable"} -> svc
         [] at = "none"    -> enableTimer(daemonReload(svc, TRUE), TRUE)

(* Create: the command script, the two units, reload, enable.               *)
Create(u, spec, at, back) ==
    LET cmd    == writeTaskCommand(u, spec)
        timer  == WriteCronUnitFile(cmd, RenderTimer(spec), cmd.svc)
        svc    == WriteCronUnitFile(cmd, RenderTimer(spec), RenderCronService(spec))
        loaded == daemonReload(svc, TRUE)
    IN CASE at = "command" -> u
         [] at = "timer"   -> cmd
         [] at = "service" -> IF back THEN cmd ELSE timer
         [] at = "reload"  -> daemonReload(RemoveCronUnitFile(svc, back), back)
         [] at = "enable"  -> rollbackCreate(loaded, back)
         [] at = "none"    -> enableTimer(loaded, TRUE)

(* The closure `rollback` of Update: old units (one that was missing is not *)
(* removed), reload, old enable state, restart if the timer ran; the        *)
(* command script is not part of it.                                        *)
rollback(now, old, back) ==
    LET svc     == IF old.svc = None THEN now.svc ELSE old.svc
        units   == IF back THEN WriteCronUnitFile(now, old.timer, svc) ELSE now
        linked  == [daemonReload(units, back) EXCEPT !.enabled =
                        IF back THEN timerEnabled(old) ELSE timerEnabled(now)]
    IN IF timerActive(old) THEN restartTimer(linked, back) ELSE linked

(* Bug variant: the steps after the reload return without rolling back.     *)
UpdateNoRollback(u, spec, at, back) ==
    LET cmd    == writeTaskCommand(u, spec)
        timer  == WriteCronUnitFile(cmd, RenderTimer(spec), cmd.svc)
        svc    == WriteCronUnitFile(cmd, RenderTimer(spec), RenderCronService(spec))
        loaded == daemonReload(svc, TRUE)
        linked == [loaded EXCEPT !.enabled = spec.enabled]
    IN CASE at = "command" -> u
         [] at = "timer"   -> cmd
         [] at = "service" -> rollback(timer, u, back)
         [] at = "reload"  -> rollback(svc, u, back)
         [] at = "enable"  -> loaded
         [] at = "restart" -> restartTimer(linked, FALSE)
         [] at = "none"    -> linked

Update(u, spec, at, back) ==
    LET cmd    == writeTaskCommand(u, spec)
        timer  == WriteCronUnitFile(cmd, RenderTimer(spec), cmd.svc)
        svc    == WriteCronUnitFile(cmd, RenderTimer(spec), RenderCronService(spec))
        loaded == daemonReload(svc, TRUE)
        linked == [loaded EXCEPT !.enabled = spec.enabled]
    IN CASE at = "command" -> u
         [] at = "timer"   -> cmd
         [] at = "service" -> rollback(timer, u, back)
         [] at = "reload"  -> rollback(svc, u, back)
         [] at = "enable"  -> rollback(loaded, u, back)
         [] at = "restart" -> rollback(restartTimer(linked, FALSE), u, back)
         [] at = "none"    -> IF timerActive(u) THEN restartTimer(linked, TRUE) ELSE linked

(* Delete: disable, stop the timer, stop the service; an error other than   *)
(* "not loaded" ends it.  Then the files and a reload.                      *)
Delete(u, at) ==
    LET off     == disableTimer(u, TRUE)
        stopped == stopTimer(off, TRUE)
        idle    == [stopped EXCEPT !.running = FALSE]
        noTimer == WriteCronUnitFile(idle, None, idle.svc)
        gone    == RemoveCronUnitFile(idle, TRUE)
    IN CASE at = "disable" -> u
         [] at = "stop"    -> off
         [] at = "service" -> stopped
         [] at = "timer"   -> idle
         [] at = "unit"    -> noTimer
         [] at = "command" -> daemonReload(gone, TRUE)
         [] at = "reload"  -> removeTaskCommand(gone, TRUE)
         [] at = "none"    -> daemonReload(removeTaskCommand(gone, TRUE), TRUE)

----------------------------------------------------------------------------
(* Request handlers.  checkTaskNameUnique, like the manager, asks for the   *)
(* unit file; a field left out of a request is None.                        *)
Request(kind) == last' = kind
Retries == {0, 1}
TaskSpecs == [ver : Vers, retry : Retries]

checkTaskNameUnique(n) == n \notin listTimerNames

CreateTask ==
    \E n \in Names, spec \in TaskSpecs, back \in BOOLEAN,
       at \in {"none", "command", "timer", "service", "reload", "enable"} :
        /\ checkTaskNameUnique(n)
        /\ at \in {"none", "command", "timer"} => back
        /\ unit' = [unit EXCEPT ![n] = Create(unit[n], spec, at, back)]
        /\ Charge(Cost(at, back))
        /\ Request("other")
        /\ UNCHANGED <<lastSeen, notified>>

(* Fields the request leaves out keep what loadTask read.                   *)
merged(old, ver, retry, on) ==
    [ver     |-> IF ver = None THEN old.ver ELSE ver,
     retry   |-> IF retry = None THEN old.retry ELSE retry,
     enabled |-> IF on = None THEN old.enabled ELSE on = "yes"]

(* The manager's Update, with the step that fails.                          *)
updateWith(n, spec, kind) ==
    \E back \in BOOLEAN,
       at \in {"none", "command", "timer", "service", "reload", "enable", "restart"} :
        /\ at = "enable" => spec.enabled # timerEnabled(unit[n])
        /\ at = "restart" => timerActive(unit[n])
        /\ at \in {"none", "command", "timer"} => back
        /\ unit' = [unit EXCEPT ![n] = Update(unit[n], spec, at, back)]
        /\ Charge(Cost(at, back))
        /\ Request(IF at = "none" THEN kind ELSE "failed update")
        /\ UNCHANGED <<lastSeen, notified>>

(* A request that renames a task ends in NotFound.                          *)
UpdateTask ==
    \E n \in Names, ver \in Vers \cup {None}, retry \in Retries \cup {None},
       on \in {"yes", "no", None} :
        /\ timerUnitExists(n)
        /\ updateWith(n, merged(loadTask(n), ver, retry, on),
                      IF retry = None THEN "update without retry" ELSE "other")

DeleteTask ==
    \E n \in Names, at \in {"none", "disable", "stop", "service", "timer", "unit", "command", "reload"} :
        /\ timerUnitExists(n)
        /\ unit' = [unit EXCEPT ![n] = Delete(unit[n], at)]
        /\ Charge(Cost(at, TRUE))
        /\ Request("other")
        /\ UNCHANGED <<lastSeen, notified>>

(* Enabling sets the link only: the timer first runs after a boot.          *)
EnableTask ==
    \E n \in Names, ok \in BOOLEAN :
        /\ timerUnitExists(n)
        /\ unit' = [unit EXCEPT ![n] = enableTimer(unit[n], ok)]
        /\ Charge(IF ok THEN 0 ELSE 1) /\ Request("other")
        /\ UNCHANGED <<lastSeen, notified>>

DisableTask ==
    \E n \in Names, at \in {"none", "disable", "stop"} :
        /\ timerUnitExists(n)
        /\ unit' = [unit EXCEPT ![n] =
                        stopTimer(disableTimer(@, at # "disable"), at = "none")]
        /\ Charge(Cost(at, TRUE)) /\ Request("other")
        /\ UNCHANGED <<lastSeen, notified>>

(* RunNow and the timer start the same service unit.                        *)
StartService(n) == unit' = [unit EXCEPT ![n].running = TRUE]

RunNow ==
    \E n \in Names :
        /\ timerUnitExists(n) /\ unit[n].svc # None /\ StartService(n)
        /\ Request("other")
        /\ UNCHANGED <<lastSeen, notified, faults>>

TimerFires ==
    \E n \in Names :
        /\ unit[n].active /\ unit[n].svc # None /\ StartService(n)
        /\ UNCHANGED <<lastSeen, notified, faults, last>>

ServiceExits ==
    \E n \in Names, r \in {"success", "exit-code"} :
        /\ unit[n].running
        /\ unit' = [unit EXCEPT ![n].running = FALSE, ![n].result = r]
        /\ UNCHANGED <<lastSeen, notified, faults, last>>

(* The host boots: enabled timers start, results and the panel's baseline   *)
(* are gone.                                                                *)
Reboot ==
    /\ unit' = [n \in Names |->
                 [unit[n] EXCEPT !.active = unit[n].enabled /\ unit[n].timer # None,
                                 !.loaded = unit[n].timer, !.running = FALSE,
                                 !.result = "success"]]
    /\ lastSeen' = [n \in Names |-> None]
    /\ UNCHANGED <<notified, faults, last>>

----------------------------------------------------------------------------
(* The watcher.                                                             *)
taskFailedResult(r) == r \notin {"success", None}

taskResults == [n \in listTimerNames |-> unit[n].result]

(* Bug variant: a failure is reported only when it is the first thing seen. *)
reconcileFirstOnly(curr) ==
    [seen |-> [n \in Names |-> IF n \in DOMAIN curr THEN curr[n] ELSE lastSeen[n]],
     failed |-> {n \in DOMAIN curr : lastSeen[n] = None /\ taskFailedResult(curr[n])}]

(* A name seen for the first time only sets the baseline; a change from not *)
(* failed to failed is reported.                                            *)
reconcile(curr) ==
    [seen |-> [n \in Names |-> IF n \in DOMAIN curr THEN curr[n] ELSE lastSeen[n]],
     failed |-> {n \in DOMAIN curr : /\ lastSeen[n] # None /\ curr[n] # lastSeen[n]
                                     /\ ~taskFailedResult(lastSeen[n])
                                     /\ taskFailedResult(curr[n])}]

sweep ==
    LET r == reconcile(taskResults)
    IN /\ lastSeen' = r.seen /\ notified' = r.failed
       /\ UNCHANGED <<unit, faults, last>>

(* The list of tasks cannot be read: the sweep is skipped.                  *)
sweepFails == Charge(1) /\ UNCHANGED <<unit, lastSeen, notified, last>>

----------------------------------------------------------------------------
Init ==
    /\ unit = [n \in Names |-> NoUnit]
    /\ lastSeen = [n \in Names |-> None] /\ notified = {}
    /\ faults = 0 /\ last = "other"

Next ==
    \/ CreateTask \/ UpdateTask \/ DeleteTask \/ EnableTask \/ DisableTask
    \/ RunNow \/ TimerFires \/ ServiceExits \/ Reboot \/ sweep \/ sweepFails

----------------------------------------------------------------------------
TypeOK ==
    /\ DOMAIN unit = Names
    /\ \A n \in Names : /\ unit[n].cmd \in Vers \cup {None}
                        /\ {unit[n].enabled, unit[n].active, unit[n].running} \subseteq BOOLEAN
    /\ notified \subseteq Names /\ faults \in 0 .. MaxFaults

(* While at most one step has failed, every timer unit has its service unit *)
(* and its command script, and whatever runs or starts at boot has a timer  *)
(* unit by which it can be stopped: no create, update or delete that fails  *)
(* half-way leaves a timer behind that cannot run or cannot be seen.        *)
WholeTasks ==
    faults <= 1 => \A n \in Names :
        /\ unit[n].timer # None => unit[n].svc # None /\ unit[n].cmd # None
        /\ unit[n].enabled \/ unit[n].active => unit[n].timer # None

(* An update in which a single step fails leaves the two units of the task, *)
(* its enable state and its timer's activity as they were ("已回滚"), unless *)
(* an earlier failure had cost the task its service unit.                   *)
FailedUpdateUndone ==
    (last' = "failed update" /\ faults' = faults + 1) =>
        \A n \in {m \in Names : unit[m].timer # None => unit[m].svc # None} :
            <<unit'[n].timer, unit'[n].svc, unit'[n].enabled, unit'[n].active>>
              = <<unit[n].timer, unit[n].svc, unit[n].enabled, unit[n].active>>

(* An update whose request does not carry max_retry keeps the retries of    *)
(* the task: parseServiceUnit is documented to read them back.              *)
RetriesKept ==
    (last' = "update without retry" /\ unit' # unit) => \A n \in Names :
        unit[n].svc # None /\ unit'[n].svc # None => unit'[n].svc.Unit = unit[n].svc.Unit

(* A task that fails after it was seen to succeed, and stays failed, is     *)
(* reported by a sweep.                                                     *)
FailureReported ==
    \A n \in Names :
        (lastSeen[n] = "success" /\ unit[n].result = "exit-code" /\ timerUnitExists(n))
          ~> (n \in notified \/ unit[n].result # "exit-code"
              \/ ~timerUnitExists(n) \/ lastSeen[n] = None)
=============================================================================
