--------------------------- MODULE RuntimePackages ---------------------------
(* Global packages of a runtime (internal/domain/runtimeenv/                *)
(* service_package.go).  npm and pip keep them in the runtime's own         *)
(* directory; pnpm has one global directory, and is itself found through    *)
(* the search path.  The package managers are the only record.              *)
EXTENDS Naturals

CONSTANTS
    Nodes, Pythons,   \* runtimes, by language
    Pkgs,             \* packages
    MaxFaults         \* bound: commands that fail

VARIABLES
    there,        \* runtimes that are installed
    own,          \* runtime -> packages of its npm or pip: package -> version
    pnpm,         \* [found, pkgs]: on the search path, and its packages
    registry,     \* "npm", "pnpm" and "pip" -> a registry is set
    done,         \* <<runtime, manager, package>> reported installed, not since removed
    faults

vars == <<there, own, pnpm, registry, done, faults>>

(* What the proofs assume of the constants.                                 *)
PkgBounds == MaxFaults \in Nat

Runtimes == Nodes \cup Pythons
Managers(r) == IF r \in Nodes THEN {"npm", "pnpm"} ELSE {"pip"}
Charge(at) == faults' = faults + (IF at = "none" THEN 0 ELSE 1) /\ faults' <= MaxFaults
With(f, x, v) == [y \in DOMAIN f \cup {x} |-> IF y = x THEN v ELSE f[y]]
Without(f, x) == [y \in DOMAIN f \ {x} |-> f[y]]
NoPkgs == [p \in {} |-> 0]

----------------------------------------------------------------------------
(* A command of a manager: what it makes of the packages.                   *)
runManagerCmd(r, m, pkgs) ==
    IF m = "pnpm" THEN pnpm' = [found |-> TRUE, pkgs |-> pkgs] /\ UNCHANGED own
    ELSE own' = [own EXCEPT ![r] = pkgs] /\ UNCHANGED pnpm
Of(r, m) == IF m = "pnpm" THEN pnpm.pkgs ELSE own[r]

scanNpmPackages(r) == DOMAIN own[r]
scanPnpmPackages == DOMAIN pnpm.pkgs
scanPipPackages(r) == DOMAIN own[r]

(* Bug variant: packages of npm hide those of pnpm.                         *)
scanNodePackagesNpmFirst(r) ==
    IF scanNpmPackages(r) # {} THEN {<<"npm", p>> : p \in scanNpmPackages(r)}
    ELSE IF pnpm.found THEN {<<"pnpm", p>> : p \in scanPnpmPackages} ELSE {}

scanNodePackages(r) ==
    {<<"npm", p>> : p \in scanNpmPackages(r)}
        \cup (IF pnpm.found THEN {<<"pnpm", p>> : p \in scanPnpmPackages} ELSE {})
ListPackages(r) == IF r \in Nodes THEN scanNodePackages(r) ELSE {<<"pip", p>> : p \in scanPipPackages(r)}

----------------------------------------------------------------------------
(* pnpm is first provided through corepack, or else through npm.            *)
installNpmPackage(r, m, p, at) ==
    /\ at \in {"none", "pnpm", "command"} /\ Charge(at)
    /\ IF at = "pnpm" /\ m = "pnpm" /\ ~pnpm.found THEN UNCHANGED <<own, pnpm, done>>
       ELSE IF at = "command"
       THEN /\ pnpm' = [pnpm EXCEPT !.found = @ \/ m = "pnpm"] /\ UNCHANGED <<own, done>>
       ELSE /\ runManagerCmd(r, m, With(Of(r, m), p, 1))
            /\ done' = done \cup {<<r, m, p>>}

installPipPackage(r, p, at) ==
    /\ at \in {"none", "command"} /\ Charge(at)
    /\ IF at = "command" THEN UNCHANGED <<own, pnpm, done>>
       ELSE runManagerCmd(r, "pip", With(Of(r, "pip"), p, 1)) /\ done' = done \cup {<<r, "pip", p>>}

(* Removing what is not there succeeds.                                     *)
uninstallNpmPackage(r, m, p, at) ==
    /\ at \in {"none", "command"} /\ Charge(at)
    /\ m = "pnpm" => pnpm.found
    /\ IF at = "command" THEN UNCHANGED <<own, pnpm, done>>
       ELSE /\ runManagerCmd(r, m, Without(Of(r, m), p))
            /\ done' = {d \in done : ~(d[2] = m /\ d[3] = p /\ (m = "pnpm" \/ d[1] = r))}
uninstallPipPackage(r, p, at) ==
    /\ at \in {"none", "command"} /\ Charge(at)
    /\ IF at = "command" THEN UNCHANGED <<own, pnpm, done>>
       ELSE runManagerCmd(r, "pip", Without(Of(r, "pip"), p)) /\ done' = done \ {<<r, "pip", p>>}

updateNpmPackage(r, m, p, at) ==
    /\ at \in {"none", "command"} /\ Charge(at)
    /\ m = "pnpm" => pnpm.found
    /\ IF at = "command" \/ p \notin DOMAIN Of(r, m) THEN UNCHANGED <<own, pnpm>>
       ELSE runManagerCmd(r, m, With(Of(r, m), p, 2))
    /\ UNCHANGED done
updatePipPackage(r, p, at) ==
    /\ at \in {"none", "command"} /\ Charge(at)
    /\ IF at = "command" THEN UNCHANGED <<own, pnpm>>
       ELSE runManagerCmd(r, "pip", With(Of(r, "pip"), p, 2))
    /\ UNCHANGED done

----------------------------------------------------------------------------
Pkg(r) == r \in there /\ UNCHANGED <<there, registry>>
InstallPackage(r, m, p, at) ==
    /\ Pkg(r) /\ m \in Managers(r)
    /\ IF m = "pip" THEN installPipPackage(r, p, at) ELSE installNpmPackage(r, m, p, at)
UninstallPackage(r, m, p, at) ==
    /\ Pkg(r) /\ m \in Managers(r)
    /\ IF m = "pip" THEN uninstallPipPackage(r, p, at) ELSE uninstallNpmPackage(r, m, p, at)
UpdatePackage(r, m, p, at) ==
    /\ Pkg(r) /\ m \in Managers(r)
    /\ IF m = "pip" THEN updatePipPackage(r, p, at) ELSE updateNpmPackage(r, m, p, at)

(* Clearing a pip registry that is not set is an error: the text the code   *)
(* looks for, "exit code 1", is not what Go reports.                        *)
SetRegistry(r, m, set, at) ==
    /\ r \in there /\ m \in Managers(r) /\ at \in {"none", "command"} /\ Charge(at)
    /\ registry' = IF at = "none" THEN [registry EXCEPT ![m] = set] ELSE registry
    /\ UNCHANGED <<there, own, pnpm, done>>
GetRegistry(r, m) == registry[m]

----------------------------------------------------------------------------
(* The runtimes themselves come and go (Runtimes.tla), and their packages   *)
(* with them; pnpm may go with the runtime that provided it.                *)
RuntimeInstalled(r) ==
    /\ r \notin there /\ there' = there \cup {r} /\ UNCHANGED <<own, pnpm, registry, done, faults>>
RuntimeRemoved(r) ==
    /\ r \in there /\ there' = there \ {r} /\ own' = [own EXCEPT ![r] = NoPkgs]
    /\ pnpm' \in {pnpm} \cup (IF r \in Nodes THEN {[pnpm EXCEPT !.found = FALSE]} ELSE {})
    /\ done' = {d \in done : d[1] # r /\ (pnpm'.found \/ d[2] # "pnpm")}
    /\ UNCHANGED <<registry, faults>>

Ats == {"none", "pnpm", "command"}
Targets == {t \in Runtimes \X {"npm", "pnpm", "pip"} \X Pkgs : t[2] \in Managers(t[1])}
PostPackage == \E t \in Targets, at \in Ats : InstallPackage(t[1], t[2], t[3], at)
PostRemove == \E t \in Targets, at \in Ats : UninstallPackage(t[1], t[2], t[3], at)
PostUpdate == \E t \in Targets, at \in Ats : UpdatePackage(t[1], t[2], t[3], at)
PostRegistry == \E t \in Targets, set \in BOOLEAN, at \in Ats : SetRegistry(t[1], t[2], set, at)

Init ==
    /\ there = {} /\ own = [r \in Runtimes |-> NoPkgs]
    /\ pnpm \in {[found |-> f, pkgs |-> NoPkgs] : f \in BOOLEAN}
    /\ registry = [m \in {"npm", "pnpm", "pip"} |-> FALSE] /\ done = {} /\ faults = 0

Next == \/ PostPackage \/ PostRemove \/ PostUpdate \/ PostRegistry
        \/ \E r \in Runtimes : RuntimeInstalled(r) \/ RuntimeRemoved(r)

----------------------------------------------------------------------------
TypeOK ==
    /\ there \subseteq Runtimes /\ faults \in 0..MaxFaults
    /\ \A r \in Runtimes : DOMAIN own[r] \subseteq Pkgs
    /\ DOMAIN pnpm.pkgs \subseteq Pkgs /\ done \subseteq Targets

(* A package that a request reported as installed is in the list of its     *)
(* runtime until a request removes it, through updates, failing commands    *)
(* and the removal of other runtimes.                                       *)
InstalledIsListed == \A d \in done : d[1] \in there /\ <<d[2], d[3]>> \in ListPackages(d[1])

(* A runtime lists only what was installed under it.  The packages of pnpm  *)
(* are those of every node runtime.                                         *)
ListedIsOwn == \A r \in there : \A l \in ListPackages(r) : <<r, l[1], l[2]>> \in done
=============================================================================
