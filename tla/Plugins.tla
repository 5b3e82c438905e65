------------------------------ MODULE Plugins -------------------------------
(* Plugins: the manager with one request at a time, failing steps, an       *)
(* upgrade and a restart of the panel; the manager with two requests that   *)
(* overlap; and the supervisor with an administrator, the shutdown, crashes *)
(* and restart timers around two processes. The parts share no state, so a  *)
(* behaviour is one of a single part.                                       *)
EXTENDS Integers, Sequences, TLC

(* The constants of the parts; one that several parts have carries the name *)
(* of its part.                                                             *)
CONSTANTS
    OneRequests, OneVersions, OnePermissions, OneDeclared, OneFaults, OneMaxFaults,
    OneMaxTokens, OneMaxRestarts, OneRestartAnywhere,
    TwoRequests, TwoVersions, TwoPermissions, TwoDeclared, TwoFaults, TwoMaxFaults,
    TwoMaxTokens, TwoMaxRestarts, TwoRestartAnywhere,
    Users, Shutdowns, Procs, BreakerLimit, FailThreshold,
    Nobody

VARIABLES
    part,
    oneDisk, oneDb, oneManifest, oneTokens, oneProc, oneSubscribed, oneScheduled,
    oneReq, oneLastToken, oneFaults, oneRestarts, oneGranted,
    twoDisk, twoDb, twoManifest, twoTokens, twoProc, twoSubscribed, twoScheduled,
    twoReq, twoLastToken, twoFaults, twoRestarts, twoGranted,
    slot, stopping, supRestarts, life, killed, exited, stopped, started, state,
    watch, health, fails, pc, cur, pend

One == INSTANCE PluginLifecycle WITH
    Requests <- OneRequests, Versions <- OneVersions, Permissions <- OnePermissions,
    Declared <- OneDeclared, Faults <- OneFaults, MaxFaults <- OneMaxFaults,
    MaxTokens <- OneMaxTokens, MaxRestarts <- OneMaxRestarts,
    RestartAnywhere <- OneRestartAnywhere, disk <- oneDisk, db <- oneDb,
    manifest <- oneManifest, tokens <- oneTokens, proc <- oneProc,
    subscribed <- oneSubscribed, scheduled <- oneScheduled, req <- oneReq,
    lastToken <- oneLastToken, faults <- oneFaults, restarts <- oneRestarts,
    granted <- oneGranted
Two == INSTANCE PluginLifecycle WITH
    Requests <- TwoRequests, Versions <- TwoVersions, Permissions <- TwoPermissions,
    Declared <- TwoDeclared, Faults <- TwoFaults, MaxFaults <- TwoMaxFaults,
    MaxTokens <- TwoMaxTokens, MaxRestarts <- TwoMaxRestarts,
    RestartAnywhere <- TwoRestartAnywhere, disk <- twoDisk, db <- twoDb,
    manifest <- twoManifest, tokens <- twoTokens, proc <- twoProc,
    subscribed <- twoSubscribed, scheduled <- twoScheduled, req <- twoReq,
    lastToken <- twoLastToken, faults <- twoFaults, restarts <- twoRestarts,
    granted <- twoGranted
Sup == INSTANCE PluginSupervisor WITH
    None <- Nobody, restarts <- supRestarts

ASSUME OneAssumption == One!LifecycleBounds
ASSUME TwoAssumption == Two!LifecycleBounds
ASSUME SupAssumption == Sup!SupervisorAssumption

oneVars == <<oneDisk, oneDb, oneManifest, oneTokens, oneProc, oneSubscribed, oneScheduled,
    oneReq, oneLastToken, oneFaults, oneRestarts, oneGranted>>
twoVars == <<twoDisk, twoDb, twoManifest, twoTokens, twoProc, twoSubscribed, twoScheduled,
    twoReq, twoLastToken, twoFaults, twoRestarts, twoGranted>>
supVars == <<slot, stopping, supRestarts, life, killed, exited, stopped, started, state,
    watch, health, fails, pc, cur, pend>>
vars == <<part, oneVars, twoVars, supVars>>

-----------------------------------------------------------------------------
Parts == {"one", "two", "sup"}

Init ==
    /\ part \in Parts
    /\ One!Init
    /\ Two!Init
    /\ Sup!Init

(* The last disjunct: requests that only read, which are all that is left   *)
(* when the bounds of the part are reached.                                 *)
Next ==
    \/ /\ part = "one" /\ One!Next
       /\ UNCHANGED <<part, twoVars, supVars>>
    \/ /\ part = "two" /\ Two!Next
       /\ UNCHANGED <<part, oneVars, supVars>>
    \/ /\ part = "sup" /\ Sup!Next
       /\ UNCHANGED <<part, oneVars, twoVars>>
    \/ part \in {"one", "two"} /\ UNCHANGED vars

Spec == Init /\ [][Next]_vars

-----------------------------------------------------------------------------
(* The variables of every part have their types.                            *)
TypeOK ==
    /\ part = "one" => One!TypeOK
    /\ part = "two" => Two!TypeOK
    /\ part = "sup" => Sup!TypeOK

(* With one request at a time, between requests the directory, the row and  *)
(* the loaded manifest are of one version, also after an installation or an *)
(* upgrade one step of which failed; with requests that overlap, the        *)
(* directory of a registered plugin is there when all have returned,        *)
(* whichever rollbacks of upgrades were made because another upgrade or     *)
(* installation had filled the directory.                                   *)
StoresAgree ==
    /\ part = "one" => One!StoresAgree
    /\ part = "two" => Two!DirectoryKept

(* One request at a time: between requests a plugin that is not enabled has *)
(* no process, no accepted token, no subscription and no scheduled service. *)
DisabledIsQuiet == part = "one" => One!DisabledIsQuiet

(* The Host API accepts at most the token that was issued last, however     *)
(* starts, failed starts and upgrades overlap: an earlier token dies with   *)
(* the next one, and the rollback of a start takes back its own token only. *)
NewestTokenOnly == part = "two" => Two!NewestTokenOnly

(* Every process that reached running and that nobody stops is watched, and *)
(* its health is checked, whatever restarts and stops overlap, so that a    *)
(* plugin cannot fail unseen; and the exit watcher restarts only what was   *)
(* running, so that a plugin that fails at its start is never restarted by  *)
(* itself.                                                                  *)
Supervised == part = "sup" => Sup!Supervised /\ Sup!OnlyCrashesRestart

-----------------------------------------------------------------------------
(* Values of the constants for TLC (Plugins.cfg).                           *)

MCOneDeclared == [v \in {"v1", "v2"} |-> IF v = "v1" THEN {"audit"} ELSE {"audit", "notify"}]
MCTwoDeclared == [v \in {"v1"} |-> {"audit"}]
(* Overlapping requests and processes are interchangeable.  The panel does  *)
(* not restart in part "two", where its scan would pick a request.          *)
Interchangeable == Permutations(TwoRequests) \cup Permutations(Procs)

=============================================================================
