---------------------------- MODULE ManagedUnits ----------------------------
(* systemd services (internal/domain/systemd): the generic start, stop,     *)
(* restart, enable and disable of any unit, and the create, update, delete  *)
(* of the units the panel writes itself.  In a request the step named by    *)
(* `at` fails ("none": none does); `back` says whether the clean-up it      *)
(* triggers succeeds.                                                       *)
EXTENDS Naturals

CONSTANTS
    Managed,      \* short names of managed services
    Panel,        \* the panel's own service, "easyserver"
    Execs,        \* versions of a unit (command line, directory, ...)
    None,         \* no such file, process, or loaded unit
    MaxFaults     \* bound: steps that fail

(* What the proofs assume of the constants.                                 *)
UnitsBounds == MaxFaults \in Nat

VARIABLES
    file,         \* unit file: rendered content or None
    loaded,       \* what systemd loaded at the last daemon-reload
    enabled,      \* WantedBy link
    active,       \* what the running process was started from, or None
    unread,       \* services whose file was deleted and systemd never told
    faults,       \* steps that failed so far
    last          \* last request: "failed update", "edit" (form saved as read), "other"

vars == <<file, loaded, enabled, active, unread, faults, last>>

Services == Managed \cup {Panel}

Charge(k) == faults' = faults + k /\ faults' <= MaxFaults
Cost(at, back) == (IF at = "none" THEN 0 ELSE 1) + (IF back THEN 0 ELSE 1)

----------------------------------------------------------------------------
(* Unit files.  StartLimitBurst has a default; a value of Environment= is   *)
(* written as it is.                                                        *)
UnitSpecs == [exec : Execs, burst : {0, 3}, env : {"plain", "%", "%%"}]

buildEnvLines(v) == v

RenderUnit(spec) ==
    [exec |-> spec.exec, burst |-> IF spec.burst = 0 THEN 10 ELSE spec.burst,
     env |-> buildEnvLines(spec.env)]

(* parseEnvLine reads %% as %.                                              *)
parseEnvLine(v) == IF v = "%%" THEN "%" ELSE v

ParseUnitMeta(content) ==
    [exec |-> content.exec, burst |-> content.burst, env |-> parseEnvLine(content.env)]

managedUnitExists(n) == file[n] # None
serviceExists(n) == loaded[n] # None
isEnabled(n) == enabled[n]
isProtectedService(n) == n = Panel

----------------------------------------------------------------------------
(* The state of one unit and the steps on it.                               *)
Unit(n) == [file |-> file[n], loaded |-> loaded[n], enabled |-> enabled[n],
            active |-> active[n], reloaded |-> FALSE]

(* A daemon-reload reads the files of all units.                            *)
SetUnit(n, u) ==
    /\ file' = [file EXCEPT ![n] = u.file]
    /\ loaded' = [m \in Services |-> IF m = n THEN u.loaded
                                     ELSE IF u.reloaded THEN file[m] ELSE loaded[m]]
    /\ enabled' = [enabled EXCEPT ![n] = u.enabled] /\ active' = [active EXCEPT ![n] = u.active]

writeUnitFile(u, content) == [u EXCEPT !.file = content]
removeUnitFile(u, ok) == IF ok THEN [u EXCEPT !.file = None] ELSE u
daemonReload(u, ok) == IF ok THEN [u EXCEPT !.loaded = u.file, !.reloaded = TRUE] ELSE u
enableManaged(u, ok) == IF ok THEN [u EXCEPT !.enabled = TRUE] ELSE u
disableManaged(u, ok) == IF ok THEN [u EXCEPT !.enabled = FALSE] ELSE u
RestartUnit(u, ok) == [u EXCEPT !.active = IF ok THEN u.loaded ELSE None]

(* An active unit is left alone.                                            *)
startManaged(u) == IF u.active # None THEN u ELSE RestartUnit(u, TRUE)

(* A failed reload takes only the file back; a failed enable or start also  *)
(* reloads.                                                                 *)
CreateManaged(u, spec, autoStart, at, back) ==
    LET written == writeUnitFile(u, RenderUnit(spec))
        ready   == daemonReload(written, TRUE)
        linked  == enableManaged(ready, TRUE)
    IN CASE at = "write"  -> u
         [] at = "reload" -> removeUnitFile(written, back)
         [] at = "enable" -> daemonReload(removeUnitFile(ready, back), back)
         [] at = "start"  -> daemonReload(removeUnitFile(disableManaged(linked, back), back), back)
         [] at = "none"   -> IF autoStart THEN startManaged(linked) ELSE ready

(* The closure `rollback` of UpdateManaged.                                 *)
rollback(now, old, back) ==
    LET restored == IF back THEN daemonReload(writeUnitFile(now, old.file), TRUE) ELSE now
        linked   == IF back THEN [restored EXCEPT !.enabled = old.enabled] ELSE restored
    IN IF old.active # None THEN RestartUnit(linked, back) ELSE linked

(* Bug variant: a running service keeps running what it was started from.   *)
UpdateWithoutRestart(u, spec, autoStart, at, back) ==
    LET written == writeUnitFile(u, RenderUnit(spec))
        ready   == daemonReload(written, TRUE)
        linked  == [ready EXCEPT !.enabled = autoStart]
    IN CASE at = "write"   -> u
         [] at = "reload"  -> rollback(written, u, back)
         [] at = "enable"  -> rollback(ready, u, back)
         [] at = "restart" -> rollback(RestartUnit(linked, FALSE), u, back)
         [] at = "none"    -> linked

(* Bug variant: the rollback of a failed enable is forgotten.               *)
UpdateKeepsUnit(u, spec, autoStart, at, back) ==
    LET ready   == daemonReload(writeUnitFile(u, RenderUnit(spec)), TRUE)
        linked  == [ready EXCEPT !.enabled = autoStart]
    IN IF at = "write" THEN u ELSE IF at = "none" THEN startManaged(linked) ELSE ready

UpdateManaged(u, spec, autoStart, at, back) ==
    LET written == writeUnitFile(u, RenderUnit(spec))
        ready   == daemonReload(written, TRUE)
        linked  == [ready EXCEPT !.enabled = autoStart]
    IN CASE at = "write"   -> u
         [] at = "reload"  -> rollback(written, u, back)
         [] at = "enable"  -> rollback(ready, u, back)
         [] at = "restart" -> rollback(RestartUnit(linked, FALSE), u, back)
         [] at = "none"    -> IF u.active # None THEN RestartUnit(linked, TRUE) ELSE linked

(* Bug variant: the stop is best effort, like the disable.                  *)
DeleteStopBestEffort(u, at) ==
    LET off == disableManaged(u, at # "disable")
    IN IF at = "remove" THEN [off EXCEPT !.active = None]
       ELSE daemonReload(removeUnitFile([off EXCEPT !.active = IF at = "stop" THEN @ ELSE None], TRUE),
                         at # "reload")

(* The disable is best effort; a failed stop ends the request.              *)
DeleteManaged(u, at) ==
    LET off     == disableManaged(u, at # "disable")
        stopped == [off EXCEPT !.active = None]
    IN CASE at = "stop"   -> off
         [] at = "remove" -> stopped
         [] OTHER         -> daemonReload(removeUnitFile(stopped, TRUE), at # "reload")

----------------------------------------------------------------------------
(* Handlers of managed services.                                            *)
HCreate ==
    \E n \in Managed, spec \in UnitSpecs, autoStart, back \in BOOLEAN,
       at \in {"none", "write", "reload", "enable", "start"} :
        /\ ~managedUnitExists(n)
        /\ at \in {"enable", "start"} => autoStart
        /\ at = "start" => active[n] = None
        /\ at \in {"none", "write"} => back
        /\ SetUnit(n, CreateManaged(Unit(n), spec, autoStart, at, back))
        /\ Charge(Cost(at, back)) /\ last' = "other" /\ UNCHANGED unread

UpdateWith(n, spec, autoStart, kind) ==
    \E back \in BOOLEAN, at \in {"none", "write", "reload", "enable", "restart"} :
        /\ managedUnitExists(n)
        /\ at = "enable" => autoStart # isEnabled(n)
        /\ at = "restart" => active[n] # None
        /\ at \in {"none", "write"} => back
        /\ SetUnit(n, UpdateManaged(Unit(n), spec, autoStart, at, back))
        /\ Charge(Cost(at, back))
        /\ last' = IF at = "none" THEN kind ELSE "failed update"
        /\ UNCHANGED unread

HUpdate == \E n \in Managed, spec \in UnitSpecs, autoStart \in BOOLEAN :
               UpdateWith(n, spec, autoStart, "other")

(* The form is opened (Get) and saved without a change.                     *)
EditUnchanged == \E n \in Managed :
                     /\ managedUnitExists(n)
                     /\ UpdateWith(n, ParseUnitMeta(file[n]), isEnabled(n), "edit")

HDelete ==
    \E n \in Managed, at \in {"none", "disable", "stop", "remove", "reload"} :
        /\ managedUnitExists(n)
        /\ SetUnit(n, DeleteManaged(Unit(n), at))
        /\ unread' = IF at = "reload" THEN unread \cup {n} ELSE unread
        /\ Charge(Cost(at, TRUE)) /\ last' = "other"

(* Handlers of any service.                                                 *)
Start == \E n \in Services :
    /\ serviceExists(n) /\ active[n] = None
    /\ SetUnit(n, RestartUnit(Unit(n), TRUE)) /\ last' = "other" /\ UNCHANGED <<unread, faults>>

Stop == \E n \in Services :
    /\ ~isProtectedService(n) /\ serviceExists(n) /\ active[n] # None
    /\ SetUnit(n, [Unit(n) EXCEPT !.active = None]) /\ last' = "other" /\ UNCHANGED <<unread, faults>>

Restart == \E n \in Services, ok \in BOOLEAN :
    /\ ~isProtectedService(n) /\ serviceExists(n)
    /\ SetUnit(n, RestartUnit(Unit(n), ok)) /\ last' = "other"
    /\ Charge(IF ok THEN 0 ELSE 1) /\ UNCHANGED unread

Enable == \E n \in Services :
    /\ serviceExists(n) /\ ~isEnabled(n) /\ file[n] # None
    /\ SetUnit(n, enableManaged(Unit(n), TRUE)) /\ last' = "other" /\ UNCHANGED <<unread, faults>>

Disable == \E n \in Services :
    /\ ~isProtectedService(n) /\ serviceExists(n) /\ isEnabled(n)
    /\ SetUnit(n, disableManaged(Unit(n), TRUE)) /\ last' = "other" /\ UNCHANGED <<unread, faults>>

(* A process ends by itself; the host boots.                                *)
Crash == \E n \in Managed :
    /\ active[n] # None
    /\ SetUnit(n, [Unit(n) EXCEPT !.active = None]) /\ UNCHANGED <<unread, faults, last>>

Reboot ==
    /\ loaded' = file
    /\ active' = [n \in Services |-> IF enabled[n] THEN file[n] ELSE None]
    /\ last' = "other" /\ UNCHANGED <<file, enabled, unread, faults>>

----------------------------------------------------------------------------
PanelUnit == RenderUnit([exec |-> CHOOSE e \in Execs : TRUE, burst |-> 0, env |-> "plain"])

Init ==
    /\ file = [n \in Services |-> IF n = Panel THEN PanelUnit ELSE None]
    /\ loaded = file /\ active = file
    /\ enabled = [n \in Services |-> n = Panel]
    /\ unread = {} /\ faults = 0 /\ last = "other"

Next == HCreate \/ HUpdate \/ EditUnchanged \/ HDelete \/ Start \/ Stop \/ Restart
        \/ Enable \/ Disable \/ Crash \/ Reboot

----------------------------------------------------------------------------
TypeOK ==
    /\ DOMAIN file = Services /\ DOMAIN loaded = Services /\ DOMAIN active = Services
    /\ enabled \in [Services -> BOOLEAN] /\ unread \subseteq Managed /\ faults \in 0 .. MaxFaults
    /\ last \in {"failed update", "edit", "other"}

(* While at most one step has failed, a running process has its unit: a     *)
(* delete that cannot stop the service keeps the unit ("避免孤儿进程"), so no *)
(* process is left that nothing can stop.  A unit whose deletion failed at  *)
(* the reload can still be started, and runs on when a later reload forgets *)
(* it.                                                                      *)
NoOrphanProcess ==
    faults <= 1 => \A n \in Services \ unread : active[n] # None => file[n] # None

(* While at most one step has failed, systemd has loaded what the file of   *)
(* every unit says and a running process was started from it, whatever      *)
(* order of edits, starts and restarts led here and whichever step failed,  *)
(* but for the reload of a deletion.                                        *)
RunsItsFile ==
    faults <= 1 => \A n \in Services \ unread :
        loaded[n] = file[n] /\ active[n] \in {None, file[n]}

(* An update in which a step fails, the first one ever to fail, leaves the  *)
(* unit, its enable state and its process as they were ("已回滚旧配置").    *)
FailedUpdateUndone ==
    (last' = "failed update" /\ faults = 0 /\ faults' = 1) =>
        <<file', enabled', active'>> = <<file, enabled, active>>

(* Saving the form that was filled from the unit leaves the unit alone.     *)
EditKeepsUnit == last' = "edit" /\ last # "edit" => file' = file
=============================================================================
