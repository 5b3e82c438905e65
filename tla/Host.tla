------------------------------- MODULE Host ---------------------------------
(* The host as the panel manages it: firewall rules, port access lists and  *)
(* port forwards, scheduled tasks and scripts, systemd units, and the SSH   *)
(* server. The parts share no state, so a behaviour is one of a single      *)
(* part.                                                                    *)
EXTENDS Integers, Sequences

(* The constants of the parts; one that several parts have carries the name *)
(* of its part.                                                             *)
CONSTANTS
    Tools, FwProtected, NoPort, Specs, PrefixOf, FwMaxId, MaxChain, MaxChecks,
    FwMaxFaults,
    Ports, Cidrs, AclMaxId, MaxRules, AclMaxFaults,
    Spans, FwdProtected, FwdMaxId, MaxCopies, FwdMaxFaults,
    Names, Vers, CronMaxFaults, None,
    MaxScripts, ScriptsMaxFaults,
    Managed, Panel, Execs, UnitsMaxFaults,
    Other, Options, Settings, Comments, MaxKeys, SshdMaxFaults

VARIABLES
    part,
    tool, rows, lastId, chain, fwActive, policy, checks, fwFaults,
    acl, aclId, input, aclStarted, aclFaults,
    fwd, fwdId, nat, fwdStarted, fwdFaults,
    unit, lastSeen, notified, cronFaults, cronLast,
    scripts, files, running, nextId, scriptsFaults,
    file, loaded, enabled, unitsActive, unread, unitsFaults, unitsLast,
    other, include, dropIn, bak, live, busy, keys, f2b, sshdLast, sshdFaults

Rules == INSTANCE FirewallRules WITH
    Protected <- FwProtected, MaxId <- FwMaxId, MaxFaults <- FwMaxFaults,
    active <- fwActive, faults <- fwFaults
Acl == INSTANCE PortAcl WITH
    MaxId <- AclMaxId, MaxFaults <- AclMaxFaults, started <- aclStarted,
    faults <- aclFaults
Forwards == INSTANCE PortForwards WITH
    Protected <- FwdProtected, MaxId <- FwdMaxId, MaxFaults <- FwdMaxFaults,
    started <- fwdStarted, faults <- fwdFaults
Cron == INSTANCE CronTimers WITH
    MaxFaults <- CronMaxFaults, faults <- cronFaults, last <- cronLast
Scripts == INSTANCE CronScripts WITH
    MaxFaults <- ScriptsMaxFaults, faults <- scriptsFaults
Units == INSTANCE ManagedUnits WITH
    MaxFaults <- UnitsMaxFaults, active <- unitsActive, faults <- unitsFaults,
    last <- unitsLast
Sshd == INSTANCE SshServer WITH
    MaxFaults <- SshdMaxFaults, last <- sshdLast, faults <- sshdFaults

ASSUME FirewallAssumption == Rules!FirewallBounds
ASSUME AclAssumption == Acl!AclBounds
ASSUME ForwardAssumption == Forwards!ForwardBounds
ASSUME CronAssumption == Cron!CronBounds
ASSUME ScriptsAssumption == Scripts!ScriptsBounds
ASSUME UnitsAssumption == Units!UnitsBounds
ASSUME SshdAssumption == Sshd!SshdBounds

fwVars == <<tool, rows, lastId, chain, fwActive, policy, checks, fwFaults>>
aclVars == <<acl, aclId, input, aclStarted, aclFaults>>
fwdVars == <<fwd, fwdId, nat, fwdStarted, fwdFaults>>
cronVars == <<unit, lastSeen, notified, cronFaults, cronLast>>
scriptsVars == <<scripts, files, running, nextId, scriptsFaults>>
unitsVars == <<file, loaded, enabled, unitsActive, unread, unitsFaults, unitsLast>>
sshdVars == <<other, include, dropIn, bak, live, busy, keys, f2b, sshdLast, sshdFaults>>
vars == <<part, fwVars, aclVars, fwdVars, cronVars, scriptsVars, unitsVars, sshdVars>>

-----------------------------------------------------------------------------
Parts == {"fw", "acl", "fwd", "cron", "scripts", "units", "sshd"}

Init ==
    /\ part \in Parts
    /\ Rules!Init
    /\ part # "fw" => tool = (CHOOSE t \in Tools : TRUE)
    /\ Acl!Init
    /\ Forwards!Init
    /\ Cron!Init
    /\ Scripts!Init
    /\ Units!Init
    /\ Sshd!Init
    /\ part # "sshd" => other = (CHOOSE o \in Other : TRUE) /\ include

(* The last disjunct: requests that only read, which are all that is left   *)
(* when the bounds of the part are reached.                                 *)
Next ==
    \/ /\ part = "fw" /\ Rules!Next
       /\ UNCHANGED <<part, aclVars, fwdVars, cronVars, scriptsVars, unitsVars, sshdVars>>
    \/ /\ part = "acl" /\ Acl!Next
       /\ UNCHANGED <<part, fwVars, fwdVars, cronVars, scriptsVars, unitsVars, sshdVars>>
    \/ /\ part = "fwd" /\ Forwards!Next
       /\ UNCHANGED <<part, fwVars, aclVars, cronVars, scriptsVars, unitsVars, sshdVars>>
    \/ /\ part = "cron" /\ Cron!Next
       /\ UNCHANGED <<part, fwVars, aclVars, fwdVars, scriptsVars, unitsVars, sshdVars>>
    \/ /\ part = "scripts" /\ Scripts!Next
       /\ UNCHANGED <<part, fwVars, aclVars, fwdVars, cronVars, unitsVars, sshdVars>>
    \/ /\ part = "units" /\ Units!Next
       /\ UNCHANGED <<part, fwVars, aclVars, fwdVars, cronVars, scriptsVars, sshdVars>>
    \/ /\ part = "sshd" /\ Sshd!Next
       /\ UNCHANGED <<part, fwVars, aclVars, fwdVars, cronVars, scriptsVars, unitsVars>>
    \/ part \in {"scripts"} /\ UNCHANGED vars

Spec == Init /\ [][Next]_vars
FairSpec ==
    /\ Spec
    /\ WF_fwVars(part = "fw" /\ Rules!verifyAndRollback("ACCEPT"))
    /\ WF_cronVars(part = "cron" /\ Cron!sweep)

-----------------------------------------------------------------------------
(* The variables of every part have their types.                            *)
TypeOK ==
    /\ part = "fw" => Rules!TypeOK
    /\ part = "acl" => Acl!TypeOK
    /\ part = "fwd" => Forwards!TypeOK
    /\ part = "cron" => Cron!TypeOK
    /\ part = "scripts" => Scripts!TypeOK
    /\ part = "units" => Units!TypeOK
    /\ part = "sshd" => Sshd!TypeOK

(* No sequence of requests blocks a protected port, and no two enabled      *)
(* forwards listen on a common port: each of the nine handlers that install *)
(* a rule checks the rule it is given, and checkConflict looks only at rows *)
(* that are enabled when it runs, so a later update or enable must look     *)
(* again.                                                                   *)
PortsKept ==
    /\ part = "fw" => Rules!NeverBlocksProtected
    /\ part = "fwd" => Forwards!NoListenConflict

(* After a start of the panel the kernel holds, for every access list and   *)
(* every forward, the rules of its row once and nothing older: duplicates   *)
(* of repeated requests, leftovers of failed updates and the effects of a   *)
(* flush from outside are gone.                                             *)
StartAligns ==
    /\ part = "acl" => Acl!StartAligns
    /\ part = "fwd" => Forwards!StartAligns

(* A request that fails half-way leaves nothing that cannot be seen,        *)
(* stopped or undone: while at most one step has failed, every timer has    *)
(* its service and its script and what runs has its timer, every script row *)
(* has its file, no process runs without its unit, and a unit's process     *)
(* runs what its file says, unless the reload of its deletion is what       *)
(* failed; and a hardening that reports a roll-back has put back the file   *)
(* that sshd runs by.                                                       *)
NothingHalfDone ==
    /\ part = "cron" => Cron!WholeTasks
    /\ part = "scripts" => Scripts!RowsHaveFiles
    /\ part = "units" => Units!NoOrphanProcess /\ Units!RunsItsFile
    /\ part = "sshd" => Sshd!RolledBack

(* An update of a scheduled task or of a unit in which a single step fails  *)
(* leaves the unit files, the enable state and what runs as they were (the  *)
(* replies say that it was rolled back).                                    *)
FailedUpdateUndone ==
    [][/\ part = "cron" => Cron!FailedUpdateUndone
       /\ part = "units" => Units!FailedUpdateUndone]_vars

(* What a loop of the panel watches is answered: a DROP policy that cut off *)
(* a protected port, while a waiting verification remembers the open        *)
(* policy, does not last; and a task that fails after it was seen to        *)
(* succeed, and stays failed, is reported by a sweep.                       *)
LoopsAnswer ==
    /\ Rules!LockoutRolledBack
    /\ Cron!FailureReported

-----------------------------------------------------------------------------
(* Values of the constants for TLC (Host.cfg).                              *)

(* A rule for SSH on IPv4 only, one that would block it, and one for a port *)
(* whose number begins with that of SSH.                                    *)
FwSpecs == {[port |-> "22", act |-> "ACCEPT", ver |-> "ipv4"],
            [port |-> "22", act |-> "DROP", ver |-> "both"],
            [port |-> "2222", act |-> "ACCEPT", ver |-> "both"]}

(* Another port, no passwords, fewer users, and options that sshd rejects.  *)
Harden(port, noPassword, users, bad) ==
    [port |-> port, noPassword |-> noPassword, users |-> users, bad |-> bad]
Hardenings == {Harden(2222, FALSE, <<>>, FALSE), Harden(0, TRUE, <<>>, FALSE),
               Harden(0, FALSE, <<"a">>, FALSE), Harden(0, FALSE, <<"x">>, TRUE)}
SshdForms == {[port |-> 22, password |-> "yes", users |-> <<"a", "b">>, bad |-> FALSE]}
MCPrefixOf == {<<"22", "2222">>}
MCSpans == {<<80, 80>>, <<79, 81>>, <<22, 22>>}

=============================================================================
