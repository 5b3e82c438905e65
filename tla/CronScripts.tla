---------------------------- MODULE CronScripts ----------------------------
(* The library of scripts (internal/domain/cron): a row per script, its     *)
(* content in a file named by the row's id, and the background task that    *)
(* runs it.                                                                 *)
EXTENDS Naturals, FiniteSets

CONSTANTS
    MaxScripts,   \* bound: script rows ever inserted
    MaxFaults     \* bound: steps that fail

(* What the proofs assume of the constants.                                 *)
ScriptsBounds == {MaxScripts, MaxFaults} \subseteq Nat

VARIABLES
    scripts,      \* scripts table: ids
    files,        \* ids with a file under scriptsDir
    running,      \* ids whose cron:script:<id> task runs
    nextId,       \* AUTOINCREMENT of scripts
    faults        \* steps that failed so far

vars == <<scripts, files, running, nextId, faults>>

Charge(k) == faults' = faults + k /\ faults' <= MaxFaults

(* Scripts.                                                                 *)
GetScript(id) == id \in scripts
repoCreateScript(id) == scripts' = scripts \cup {id}
repoDeleteScript(id) == scripts' = scripts \ {id}
WriteScriptFile(id) == files' = files \cup {id}
DeleteScriptFile(id) == files' = files \ {id}

(* Bug variant: the row of a script whose file cannot be written stays.     *)
CreateScriptLeavesRow ==
    \E wrote \in BOOLEAN :
        /\ nextId <= MaxScripts
        /\ nextId' = nextId + 1
        /\ repoCreateScript(nextId)
        /\ IF wrote THEN WriteScriptFile(nextId) ELSE UNCHANGED files
        /\ Charge(IF wrote THEN 0 ELSE 1)
        /\ UNCHANGED <<running>>

(* The row first, for its id; a file that cannot be written takes the row   *)
(* back, if that succeeds.                                                  *)
CreateScript ==
    \E wrote, undone \in BOOLEAN :
        /\ nextId <= MaxScripts
        /\ nextId' = nextId + 1
        /\ wrote => undone
        /\ IF wrote THEN repoCreateScript(nextId) /\ WriteScriptFile(nextId)
           ELSE /\ UNCHANGED files
                /\ IF undone THEN UNCHANGED scripts ELSE repoCreateScript(nextId)
        /\ Charge((IF wrote THEN 0 ELSE 1) + (IF undone THEN 0 ELSE 1))
        /\ UNCHANGED <<running>>

(* The row, then the file when the request carries content.                 *)
UpdateScript ==
    \E id \in scripts, content, wrote \in BOOLEAN :
        /\ GetScript(id)
        /\ files' = IF content /\ wrote THEN files \cup {id} ELSE files
        /\ Charge(IF content /\ ~wrote THEN 1 ELSE 0)
        /\ UNCHANGED <<scripts, running, nextId>>

DeleteScript ==
    \E id \in scripts, removed \in BOOLEAN :
        /\ GetScript(id)
        /\ repoDeleteScript(id)
        /\ IF removed THEN DeleteScriptFile(id) ELSE UNCHANGED files
        /\ Charge(IF removed THEN 0 ELSE 1)
        /\ UNCHANGED <<running, nextId>>

(* One run per id: the key of a running task is taken.                      *)
RunScript ==
    \E id \in scripts :
        /\ GetScript(id)
        /\ running' = IF id \in files THEN running \cup {id} ELSE running
        /\ UNCHANGED <<scripts, files, nextId, faults>>

StopScript ==
    \E id \in running :
        /\ GetScript(id)
        /\ running' = running \ {id}
        /\ UNCHANGED <<scripts, files, nextId, faults>>

ScriptExits ==
    \E id \in running :
        /\ running' = running \ {id}
        /\ UNCHANGED <<scripts, files, nextId, faults>>

----------------------------------------------------------------------------
Init == scripts = {} /\ files = {} /\ running = {} /\ nextId = 1 /\ faults = 0

Next == CreateScript \/ UpdateScript \/ DeleteScript \/ RunScript \/ StopScript \/ ScriptExits

----------------------------------------------------------------------------
TypeOK ==
    /\ scripts \cup files \cup running \subseteq 1 .. MaxScripts
    /\ nextId \in 1 .. MaxScripts + 1 /\ faults \in 0 .. MaxFaults

(* While at most one step has failed, every row has its file, and no file   *)
(* is left of a script that was never listed.                               *)
RowsHaveFiles == faults <= 1 => scripts \subseteq files /\ Cardinality(files \ scripts) <= faults
=============================================================================
