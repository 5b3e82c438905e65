-------------------------- MODULE ContainerEngines --------------------------
(* The engine behind the container resource (internal/domain/container):    *)
(* its installation and systemd unit, its registry settings and             *)
(* credentials, volumes and networks, and compose projects.                 *)
EXTENDS Naturals, Sequences

CONSTANTS
    Engines,      \* "docker" and "podman", each a system of its own
    Servers,      \* registries one can log in to
    Vers,         \* contents of a compose file
    MaxFaults     \* bound: commands that fail

VARIABLES
    engine, installed, enabled, active,
    file,         \* daemon.json or registries.conf: [ok, mirrors, insecure, other]
    live,         \* the settings the engine runs with
    saved,        \* settings a request reported as saved, or NoSettings
    creds, extras,
    project,      \* compose files of a project directory: name -> contents
    running,      \* contents the project was last brought up with, 0: down
    faults

(* What the proofs assume of the constants.                                 *)
EngineBounds == MaxFaults \in Nat /\ Vers # {} /\ Engines # {}

vars == <<engine, installed, enabled, active, file, live, saved, creds, extras, project, running, faults>>

unit == <<installed, enabled, active, live>>
settings == <<file, saved>>
rest == <<creds, extras, project, running>>

NoFile == [ok |-> FALSE, mirrors |-> {}, insecure |-> {}, other |-> FALSE]
NoSettings == [mirrors |-> {"none"}, insecure |-> {}]
Charge(at) == faults' = faults + (IF at = "none" THEN 0 ELSE 1) /\ faults' <= MaxFaults
isPodmanEngine == engine = "podman"

----------------------------------------------------------------------------
(* Installation ends with the unit enabled and started; what was done       *)
(* before a step that fails stays.                                          *)
EnableUnit(there, at) == enabled' = (enabled \/ (there /\ at \notin {"package", "enable"}))
Launch(on) == active' = on /\ live' = (IF on /\ ~active THEN file ELSE live)

installSteps(at) ==
    /\ at \in {"none", "package", "enable", "start"} /\ Charge(at)
    /\ installed' = (installed \/ at # "package")
    /\ EnableUnit(TRUE, at)
    /\ Launch(active \/ at = "none")
installDocker(at) == engine = "docker" /\ installSteps(at)
installPodman(at) == isPodmanEngine /\ installSteps(at)
Install(at) ==
    /\ installDocker(at) \/ installPodman(at)
    /\ UNCHANGED <<engine, settings, rest>>

StartEngine(at) ==
    /\ at \in {"none", "start"} /\ Charge(at)
    /\ Launch(active \/ (installed /\ at = "none"))
    /\ UNCHANGED <<engine, installed, enabled, settings, rest>>

StopEngine(at) ==
    /\ at \in {"none", "stop"} /\ Charge(at)
    /\ active' = (active /\ at = "stop")
    /\ UNCHANGED <<engine, installed, enabled, live, settings, rest>>

(* systemd's restart also starts a unit that is stopped.                    *)
Restart(f, at) ==
    IF installed /\ at = "none" THEN active' = TRUE /\ live' = f
    ELSE UNCHANGED <<active, live>>
RestartEngine(at) ==
    /\ at \in {"none", "start"} /\ Charge(at)
    /\ Restart(file, at)
    /\ UNCHANGED <<engine, installed, enabled, settings, rest>>

EnableSocket(at) ==
    /\ isPodmanEngine /\ at \in {"none", "enable", "start"} /\ Charge(at)
    /\ UNCHANGED installed /\ EnableUnit(installed, at)
    /\ Launch(active \/ (installed /\ at = "none"))
    /\ UNCHANGED <<engine, settings, rest>>

Detect == [installed |-> installed, running |-> installed /\ active,
           socket |-> isPodmanEngine /\ enabled]

----------------------------------------------------------------------------
(* Registry settings.  A daemon.json that does not parse is started afresh; *)
(* podman's file is written whole, and an empty request leaves it alone.    *)
Empty(cfg) == cfg.mirrors = {} /\ cfg.insecure = {}
getDockerRegistryConfig == IF file.ok THEN [mirrors |-> file.mirrors, insecure |-> file.insecure]
                           ELSE [mirrors |-> {}, insecure |-> {}]
parseRegistriesConf == [mirrors |-> file.mirrors, insecure |-> file.insecure]
GetRegistryConfig == IF isPodmanEngine THEN parseRegistriesConf ELSE getDockerRegistryConfig

(* Bug variant: a list emptied by the request stays in the file.            *)
setDockerRegistryConfigMerging(cfg, at) ==
    /\ file' = IF at = "write" THEN file
               ELSE [ok |-> TRUE, mirrors |-> file.mirrors \cup cfg.mirrors, insecure |-> cfg.insecure,
                     other |-> file.ok /\ file.other]
    /\ IF at = "write" THEN UNCHANGED <<active, live>> ELSE Restart(file', at)
    /\ saved' = IF at = "none" /\ installed THEN cfg ELSE NoSettings

setDockerRegistryConfig(cfg, at) ==
    /\ file' = IF at = "write" THEN file
               ELSE [ok |-> TRUE, mirrors |-> cfg.mirrors, insecure |-> cfg.insecure,
                     other |-> file.ok /\ file.other]
    /\ IF at = "write" THEN UNCHANGED <<active, live>> ELSE Restart(file', at)
    /\ saved' = IF at = "none" /\ installed THEN cfg ELSE NoSettings

setPodmanRegistryConfig(cfg, at) ==
    /\ file' = IF at # "none" \/ Empty(cfg) THEN file
               ELSE [ok |-> TRUE, mirrors |-> cfg.mirrors, insecure |-> cfg.insecure, other |-> FALSE]
    /\ saved' = IF at = "none" THEN cfg ELSE NoSettings
    /\ UNCHANGED <<active, live>>

SetRegistryConfig(cfg, at) ==
    /\ at \in {"none", "write", "start"} /\ Charge(at)
    /\ IF isPodmanEngine THEN setPodmanRegistryConfig(cfg, at) ELSE setDockerRegistryConfig(cfg, at)
    /\ UNCHANGED <<engine, installed, enabled, rest>>

ConfigureMirror(at) == SetRegistryConfig([mirrors |-> {"m"}, insecure |-> {}], at)

(* An administrator edits the file by hand.                                 *)
EditFile ==
    /\ \E f \in {NoFile, [ok |-> TRUE, mirrors |-> {"m"}, insecure |-> {}, other |-> TRUE]} : file' = f
    /\ saved' = NoSettings
    /\ UNCHANGED <<engine, unit, rest, faults>>

----------------------------------------------------------------------------
(* Credentials, volumes and networks.                                       *)
Store(c, e) == /\ creds' = c /\ extras' = e
               /\ UNCHANGED <<engine, unit, settings, project, running>>
RegistryLogin(s, at) ==
    at \in {"none", "login"} /\ Charge(at) /\ Store(IF at = "none" THEN creds \cup {s} ELSE creds, extras)
RegistryLogout(s, at) ==
    at \in {"none", "logout"} /\ Charge(at) /\ Store(IF at = "none" THEN creds \ {s} ELSE creds, extras)
GetLoggedInRegistries == creds

Extra(x, there, at) ==
    /\ at \in {"none", "call"} /\ Charge(at)
    /\ Store(creds, IF ~active \/ at = "call" THEN extras
                    ELSE IF there THEN extras \cup {x} ELSE extras \ {x})
CreateVolume(at) == Extra("volume", TRUE, at)
RemoveVolume(at) == Extra("volume", FALSE, at)
CreateNetwork(at) == Extra("network", TRUE, at)
RemoveNetwork(at) == Extra("network", FALSE, at)

----------------------------------------------------------------------------
(* Compose: the first file there is of four names; a new one gets the first *)
(* name.  Without a file the command runs in the panel's own directory.     *)
Candidates == <<"docker-compose.yml", "docker-compose.yaml", "compose.yml", "compose.yaml">>
findComposeFile ==
    IF \A i \in 1..4 : Candidates[i] \notin DOMAIN project THEN ""
    ELSE Candidates[CHOOSE i \in 1..4 : /\ Candidates[i] \in DOMAIN project
                                        /\ \A j \in 1..(i - 1) : Candidates[j] \notin DOMAIN project]
ComposeGetConfig == IF findComposeFile = "" THEN 0 ELSE project[findComposeFile]

Compose(v, at) ==
    /\ at \in {"none", "compose"} /\ Charge(at)
    /\ running' = IF ~active \/ at = "compose" \/ findComposeFile = "" THEN running ELSE v
    /\ UNCHANGED <<engine, unit, settings, creds, extras, project>>
ComposeUp(at) == Compose(ComposeGetConfig, at)
ComposeDown(at) == Compose(0, at)
ComposeRestart(at) == Compose(running, at)

ComposeSaveConfig(v, at) ==
    /\ at \in {"none", "write"} /\ Charge(at)
    /\ LET f == IF findComposeFile = "" THEN Candidates[1] ELSE findComposeFile
       IN project' = IF at = "write" THEN project
                     ELSE [n \in DOMAIN project \cup {f} |-> IF n = f THEN v ELSE project[n]]
    /\ UNCHANGED <<engine, unit, settings, creds, extras, running>>

----------------------------------------------------------------------------
(* The routes.                                                              *)
Ats == {"none", "package", "enable", "start", "stop", "write", "login", "logout", "call", "compose"}
Configs == [mirrors: {{}, {"m"}}, insecure: {{}, {"i"}}]
InstallEngine == \E at \in Ats : Install(at)
PostStart == \E at \in Ats : StartEngine(at)
PostStop == \E at \in Ats : StopEngine(at)
PostRestart == \E at \in Ats : RestartEngine(at)
PostSocket == \E at \in Ats : EnableSocket(at)
PutMirror == \E at \in Ats : ConfigureMirror(at)
PutRegistry == \E cfg \in Configs, at \in Ats : SetRegistryConfig(cfg, at)
PostLogin == \E s \in Servers, at \in Ats : RegistryLogin(s, at)
PostLogout == \E s \in Servers, at \in Ats : RegistryLogout(s, at)
PostVolume == \E at \in Ats : CreateVolume(at)
DeleteVolume == \E at \in Ats : RemoveVolume(at)
PostNetwork == \E at \in Ats : CreateNetwork(at)
DeleteNetwork == \E at \in Ats : RemoveNetwork(at)
PostComposeUp == \E at \in Ats : ComposeUp(at)
PostComposeDown == \E at \in Ats : ComposeDown(at)
PostComposeRestart == \E at \in Ats : ComposeRestart(at)
PutCompose == \E v \in Vers, at \in Ats : ComposeSaveConfig(v, at)

Init ==
    /\ engine \in Engines
    /\ installed = FALSE /\ enabled = FALSE /\ active = FALSE
    /\ file \in {NoFile, [ok |-> TRUE, mirrors |-> {}, insecure |-> {}, other |-> TRUE]}
    /\ live = NoFile /\ saved = NoSettings /\ creds = {} /\ extras = {}
    /\ project \in {[n \in {} |-> 0], [n \in {"compose.yml"} |-> CHOOSE v \in Vers : TRUE]}
    /\ running = 0 /\ faults = 0

Next ==
    \/ InstallEngine \/ PostStart \/ PostStop \/ PostRestart \/ PostSocket
    \/ PutMirror \/ PutRegistry \/ EditFile \/ PostLogin \/ PostLogout
    \/ PostVolume \/ DeleteVolume \/ PostNetwork \/ DeleteNetwork
    \/ PostComposeUp \/ PostComposeDown \/ PostComposeRestart \/ PutCompose

----------------------------------------------------------------------------
TypeOK ==
    /\ engine \in Engines /\ {installed, enabled, active} \subseteq BOOLEAN
    /\ (enabled \/ active) => installed
    /\ creds \subseteq Servers /\ extras \subseteq {"volume", "network"}
    /\ running \in Vers \cup {0} /\ faults \in 0..MaxFaults

(* Docker: settings that a request reported as saved are those that the     *)
(* panel shows and those that the daemon runs with, through every later     *)
(* start, stop and installation and whatever else was in the file           *)
(* (setDockerRegistryConfig).                                               *)
SavedIsLive ==
    engine = "docker" /\ saved # NoSettings =>
        /\ GetRegistryConfig = saved
        /\ [mirrors |-> live.mirrors, insecure |-> live.insecure] = saved

(* Podman: the request that clears the settings is reported as done, and    *)
(* the file keeps them.                                                     *)
PodmanReadsBack == engine = "podman" /\ saved # NoSettings => GetRegistryConfig = saved
=============================================================================
