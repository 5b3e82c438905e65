-------------------------------- MODULE Ops ---------------------------------
(* What the panel operates: web sites and the addresses they ban,           *)
(* containers and their engines, language runtimes and their packages,      *)
(* files, and alerts. The parts share no state, so a behaviour is one of a  *)
(* single part.                                                             *)
EXTENDS Integers, Sequences, SequencesExt

(* The constants of the parts; one that several parts have carries the name *)
(* of its part.                                                             *)
CONSTANTS
    Domains, Reqs, Edits, SiteMaxId, SiteMaxFaults,
    Sites, Global, IPs, BanMaxId, BanMaxFaults,
    BoxNames, BoxMaxId, BoxMaxFaults,
    Engines, Servers, EngineVers, EngineMaxFaults,
    RunVers, RunMaxFaults,
    Nodes, Pythons, Pkgs, PkgMaxFaults,
    TreeNames, ZipOf, Format, UnGz, Base, Paths, InitTrees, Uploads, MaxEntries,
    MaxChanges, TreeMaxFaults,
    Metrics, RuleLists, MaxRules, Duration, Cooldown, Hour, MaxClock

VARIABLES
    part,
    server, sites, siteLastId, files, links, siteServed, icons, banFile, rejected,
    siteFaults,
    bans, banLastId, banRules, denied, loaded, banFaults,
    up, boxes, boxLastId, image, seen, op, boxFaults,
    engine, installed, enabled, active, file, live, saved, creds, extras, project,
    running, engineFaults,
    dir, marker, tasks, spoiled, env, conf, runFaults,
    there, own, pnpm, registry, done, pkgFaults,
    tree, upload, treeServed, reply, changes, treeFaults,
    alertRules, states, cooldowns, rows, clock, rose, edited

Web == INSTANCE Websites WITH
    MaxId <- SiteMaxId, MaxFaults <- SiteMaxFaults, lastId <- siteLastId,
    served <- siteServed, faults <- siteFaults
Ban == INSTANCE SiteSecurity WITH
    MaxId <- BanMaxId, MaxFaults <- BanMaxFaults, lastId <- banLastId,
    rules <- banRules, faults <- banFaults
Box == INSTANCE Containers WITH
    Names <- BoxNames, MaxId <- BoxMaxId, MaxFaults <- BoxMaxFaults,
    lastId <- boxLastId, faults <- boxFaults
Engine == INSTANCE ContainerEngines WITH
    Vers <- EngineVers, MaxFaults <- EngineMaxFaults, faults <- engineFaults
Run == INSTANCE Runtimes WITH
    Vers <- RunVers, MaxFaults <- RunMaxFaults, faults <- runFaults
Pkg == INSTANCE RuntimePackages WITH
    MaxFaults <- PkgMaxFaults, faults <- pkgFaults
Tree == INSTANCE FileTree WITH
    Names <- TreeNames, MaxFaults <- TreeMaxFaults, served <- treeServed,
    faults <- treeFaults
Alert == INSTANCE Alerts WITH
    rules <- alertRules

ASSUME SiteAssumption == Web!SiteBounds
ASSUME BanAssumption == Ban!BanBounds
ASSUME BoxAssumption == Box!BoxBounds
ASSUME EngineAssumption == Engine!EngineBounds
ASSUME RunAssumption == Run!RunBounds
ASSUME PkgAssumption == Pkg!PkgBounds
ASSUME TreeAssumption == Tree!TreeBounds
ASSUME AlertAssumption == Alert!AlertBounds

siteVars == <<server, sites, siteLastId, files, links, siteServed, icons, banFile, rejected,
    siteFaults>>
banVars == <<bans, banLastId, banRules, denied, loaded, banFaults>>
boxVars == <<up, boxes, boxLastId, image, seen, op, boxFaults>>
engineVars == <<engine, installed, enabled, active, file, live, saved, creds, extras, project,
    running, engineFaults>>
runVars == <<dir, marker, tasks, spoiled, env, conf, runFaults>>
pkgVars == <<there, own, pnpm, registry, done, pkgFaults>>
treeVars == <<tree, upload, treeServed, reply, changes, treeFaults>>
alertVars == <<alertRules, states, cooldowns, rows, clock, rose, edited>>
vars == <<part, siteVars, banVars, boxVars, engineVars, runVars, pkgVars, treeVars,
    alertVars>>

-----------------------------------------------------------------------------
Parts == {"site", "ban", "box", "engine", "run", "pkg", "tree", "alert"}

Init ==
    /\ part \in Parts
    /\ Web!Init
    /\ part # "site" => banFile
    /\ Ban!Init
    /\ Box!Init
    /\ Engine!Init
    /\ part # "engine" => engine = (CHOOSE e \in Engines : TRUE)
           /\ file = Engine!NoFile /\ project = [n \in {} |-> 0]
    /\ Run!Init
    /\ Pkg!Init
    /\ part # "pkg" => pnpm.found
    /\ Tree!Init
    /\ part # "tree" => tree = CHOOSE t \in InitTrees : TRUE
    /\ Alert!Init
    /\ part # "alert" => alertRules = CHOOSE l \in RuleLists : TRUE

(* The last disjunct: requests that only read, which are all that is left   *)
(* when the bounds of the part are reached.                                 *)
Next ==
    \/ /\ part = "site" /\ Web!Next
       /\ UNCHANGED <<part, banVars, boxVars, engineVars, runVars, pkgVars, treeVars, alertVars>>
    \/ /\ part = "ban" /\ Ban!Next
       /\ UNCHANGED <<part, siteVars, boxVars, engineVars, runVars, pkgVars, treeVars, alertVars>>
    \/ /\ part = "box" /\ Box!Next
       /\ UNCHANGED <<part, siteVars, banVars, engineVars, runVars, pkgVars, treeVars, alertVars>>
    \/ /\ part = "engine" /\ Engine!Next
       /\ UNCHANGED <<part, siteVars, banVars, boxVars, runVars, pkgVars, treeVars, alertVars>>
    \/ /\ part = "run" /\ Run!Next
       /\ UNCHANGED <<part, siteVars, banVars, boxVars, engineVars, pkgVars, treeVars, alertVars>>
    \/ /\ part = "pkg" /\ Pkg!Next
       /\ UNCHANGED <<part, siteVars, banVars, boxVars, engineVars, runVars, treeVars, alertVars>>
    \/ /\ part = "tree" /\ Tree!Next
       /\ UNCHANGED <<part, siteVars, banVars, boxVars, engineVars, runVars, pkgVars, alertVars>>
    \/ /\ part = "alert" /\ Alert!Next
       /\ UNCHANGED <<part, siteVars, banVars, boxVars, engineVars, runVars, pkgVars, treeVars>>
    \/ part \in {"ban", "alert"} /\ UNCHANGED vars

Spec == Init /\ [][Next]_vars

-----------------------------------------------------------------------------
(* The variables of every part have their types.                            *)
TypeOK ==
    /\ part = "site" => Web!TypeOK
    /\ part = "ban" => Ban!TypeOK
    /\ part = "box" => Box!TypeOK
    /\ part = "engine" => Engine!TypeOK
    /\ part = "run" => Run!TypeOK
    /\ part = "pkg" => Pkg!TypeOK
    /\ part = "tree" => Tree!TypeOK
    /\ part = "alert" => Alert!TypeOK

(* While every file could be written, the links in sites-enabled are those  *)
(* of the active sites, each to a file, whatever creates, renames, enables, *)
(* disables and deletes led here; and no request leaves a generated file    *)
(* with an empty proxy_pass, also when the type of the site was changed     *)
(* later.                                                                   *)
SitesWhole == part = "site" => Web!LinksAreActiveSites /\ Web!AppsAreProxied

(* What a request reported as done is what the daemon works by. A site that *)
(* is disabled is not served any more, while nginx never refused the files; *)
(* nginx denies exactly the addresses that some ban names, also when one of *)
(* several bans of an address was lifted, while no step has failed; and     *)
(* Docker runs with the registry settings that the panel reported as saved, *)
(* through every later start, stop and installation.                        *)
SavedIsLive ==
    /\ part = "site" => Web!DisabledNotServed
    /\ part = "ban" => Ban!BannedIsDenied
    /\ part = "engine" => Engine!SavedIsLive

(* A runtime version with its marker is complete on disk, through failures  *)
(* of any step and restarts of the panel, unless an uninstall has begun on  *)
(* it; and a package that a request reported as installed is in the list of *)
(* its runtime until a request removes it, through updates, failing         *)
(* commands and the removal of other runtimes.                              *)
InstalledIsWhole ==
    /\ part = "run" => Run!MarkedIsWhole
    /\ part = "pkg" => Pkg!InstalledIsListed

(* A request changes only what is its own: it never changes a container     *)
(* that it inspected and that is the database module's; no file request     *)
(* changes or shows anything outside the base path, through whatever links  *)
(* and archives; and an extraction that fails leaves nothing behind that it *)
(* made, except for the directory it was asked to extract to.               *)
HandsOff ==
    [][/\ part = "box" => Box!InspectedIsSpared
       /\ part = "tree" =>
              /\ Tree!SandboxHolds
              /\ Tree!FailedExtractLeavesNothing
              /\ Tree!NothingLeaks']_vars

(* A metric that has stayed above its threshold for the rule's duration and *)
(* a cooldown has been alerted since it rose, provided that the rules were  *)
(* not replaced meanwhile; and a rule's notification is not repeated within *)
(* the hour, whatever is read in between (Evaluate, CreateIfNotExists).     *)
AlertedInTime == part = "alert" => Alert!SustainedIsAlerted /\ Alert!OnePerHour

-----------------------------------------------------------------------------
(* Values of the constants for TLC (Ops.cfg).                               *)

(* A static site, and one that proxies to an application on a port.         *)
Site(domain, port, type) ==
    [domain |-> domain, port |-> port, type |-> type, app |-> 0, custom |-> ""]
SiteReqs == {Site("d", 0, "static"), Site("e", 81, "proxy")}

(* Files under <<"b">> belong to the panel's users, <<"o">> does not.  Two  *)
(* archives: one with an entry above the size limit behind a good one, one  *)
(* with a symbolic link behind a file in a directory.                       *)
Text(n) == [text |-> n, entries |-> <<>>]
Entry(path, kind) == [path |-> path, kind |-> kind, text |-> 2]
BigInside == [text |-> 0, entries |-> <<Entry(<<"a">>, "file"), Entry(<<"d", "a">>, "big")>>]
LinkInside == [text |-> 0, entries |-> <<Entry(<<"d", "a">>, "file"), Entry(<<"a">>, "link")>>]

FileNames == <<"a", "d", "z.zip">>
FilePaths == {<<>>, <<"b">>, <<"o">>, <<"o", "a">>, <<"b", "a">>, <<"b", "d">>,
              <<"b", "z.zip">>, <<"b", "d", "a">>}
Node(kind, content, to) == [kind |-> kind, content |-> content, to |-> to, fd |-> FALSE]
Bare == [p \in {<<>>, <<"b">>, <<"o">>, <<"o", "a">>} |->
            IF p = <<"o", "a">> THEN Node("file", Text(9), <<>>) ELSE Node("dir", Text(0), <<>>)]
Put(t, p, v) == [q \in DOMAIN t \cup {p} |-> IF q = p THEN v ELSE t[q]]
Zipped(archive) == Put(Bare, <<"b", "z.zip">>, Node("file", archive, <<>>))
FirstTrees == {Put(Zipped(BigInside), <<"b", "d">>, Node("link", Text(0), <<"o">>)),
               Put(Zipped(LinkInside), <<"b", "d">>, Node("link", Text(0), <<"o">>)),
               Put(Zipped(BigInside), <<"b", "a">>, Node("link", Text(0), <<"b", "d">>)),
               Put(Zipped(BigInside), <<"b", "a">>, Node("file", Text(1), <<>>)),
               Zipped(LinkInside)}
MCEdits == {[domain |-> "e"], [type |-> "nodejs"]}
MCZipOf == [n \in ToSet(FileNames) |-> "z.zip"]
MCFormat == [n \in ToSet(FileNames) |-> IF n = "z.zip" THEN "zip" ELSE "other"]
MCUnGz == [n \in ToSet(FileNames) |-> n]
MCBase == <<"b">>
MCUploads == {Text(1), BigInside, LinkInside}
MCRuleLists == {<<"cpu">>, <<"mem", "cpu">>}
MCDuration == [m \in {"cpu", "mem"} |-> IF m = "cpu" THEN 0 ELSE 1]

=============================================================================
