------------------------------ MODULE Settings ------------------------------
(* The panel's settings (internal/domain/settings/http, infra/config): the  *)
(* configuration in memory, the file it is saved to, and the copies that    *)
(* running parts hold.  A settings request checks its input, replaces the   *)
(* configuration by a changed copy, tells the running parts, and writes the *)
(* file; requests overlap between these steps.  Of every group of settings  *)
(* one stands for its like; 0 is a value that the handler's checks refuse.  *)
EXTENDS Naturals

CONSTANTS
    Admins,         \* requests that may be under way together
    Values,         \* values of a setting, 0 among them
    MaxEdits,       \* bound: requests
    MaxFaults       \* bound: failing writes

SettingsBounds == Values \subseteq Nat /\ MaxEdits \in Nat /\ MaxFaults \in Nat

VARIABLES
    mem,            \* config.Store
    disk,           \* the file
    live,           \* what the running parts hold
    pem,            \* [crt, key]: the upload each certificate file is from, 0 for absent
    req,            \* admin -> request under way
    edits, faults

vars == <<mem, disk, live, pem, req, edits, faults>>

Idle == [phase |-> "idle"]
Step(c, r) == req' = [req EXCEPT ![c] = r]
Charge(failed) == faults' = faults + (IF failed THEN 1 ELSE 0) /\ faults' <= MaxFaults

(* Fresh configuration; the running parts' share of one.                    *)
Default == [port |-> 1, assets |-> 1, check |-> FALSE, secret |-> FALSE, tls |-> FALSE,
            rate |-> 1, whitelist |-> 1, monitor |-> 1, audit |-> 1, notify |-> 1,
            manual |-> TRUE, level |-> 1, rules |-> 1]
Flags == {"check", "secret", "tls", "manual"}
Hot == {"assets", "rate", "whitelist", "monitor", "level", "rules"}
HotPart(cfg) == [f \in Hot |-> cfg[f]]

----------------------------------------------------------------------------
(* The store and the file.                                                  *)
Update(set) == [f \in DOMAIN mem |-> IF f \in DOMAIN set THEN set[f] ELSE mem[f]]

mergeDefaults(cfg) ==
    [f \in DOMAIN cfg |-> IF f = "manual" THEN TRUE
                          ELSE IF f \notin Flags /\ cfg[f] = 0 THEN Default[f] ELSE cfg[f]]
Load == mergeDefaults(disk)
Save(cfg, fails) == disk' = IF fails THEN disk ELSE cfg

----------------------------------------------------------------------------
(* A request whose input passes its checks: it has made its changed copy.   *)
Begin(c, kind, set) ==
    /\ req[c] = Idle /\ edits < MaxEdits
    /\ \A f \in DOMAIN set \ Flags : set[f] # 0
    /\ edits' = edits + 1
    /\ Step(c, [phase |-> "copied", kind |-> kind, set |-> set, next |-> Update(set)])
    /\ UNCHANGED <<mem, disk, live, pem, faults>>

UpdateServerConfig(c) ==
    \/ \E v \in Values : Begin(c, "server", [port |-> v])
    \/ \E v \in Values : Begin(c, "server", [assets |-> v])
    \/ \E b \in BOOLEAN : Begin(c, "server", [check |-> b])
    \/ \E b \in BOOLEAN : Begin(c, "server", [secret |-> b])
UpdateAuthConfig(c) ==
    \/ \E v \in Values : Begin(c, "auth", [rate |-> v])
    \/ \E v \in Values : Begin(c, "auth", [whitelist |-> v])
UpdateMonitorConfig(c) == \E v \in Values : Begin(c, "monitor", [monitor |-> v])
UpdateAuditConfig(c) == \E v \in Values : Begin(c, "audit", [audit |-> v])
UpdateNotifyConfig(c) == \E v \in Values : Begin(c, "notify", [notify |-> v])
UpdateFeaturesConfig(c) == \E b \in BOOLEAN : Begin(c, "features", [manual |-> b])
UpdateLogsConfig(c) == \E v \in Values : Begin(c, "logs", [level |-> v])
UpdateAlertRules(c) == \E v \in Values : Begin(c, "alerts", [rules |-> v])
DisableTLS(c) == Begin(c, "tls", [tls |-> FALSE])

(* A certificate is uploaded: both files are written, then the copy made.   *)
UpdateTLSConfig(c, fails) ==
    /\ req[c] = Idle /\ edits < MaxEdits /\ edits' = edits + 1
    /\ Charge(fails)
    /\ IF fails THEN UNCHANGED <<pem, req>>
       ELSE pem' = [pem EXCEPT !.crt = edits + 1] /\ Step(c, [phase |-> "crt", upload |-> edits + 1])
    /\ UNCHANGED <<mem, disk, live>>

(* Bug variant: a key that could not be written does not stop the request.  *)
WriteKeyBestEffort(c, fails) ==
    /\ req[c].phase = "crt" /\ Charge(fails)
    /\ pem' = IF fails THEN pem ELSE [pem EXCEPT !.key = req[c].upload]
    /\ Step(c, [phase |-> "copied", kind |-> "tls", set |-> [tls |-> TRUE], next |-> Update([tls |-> TRUE])])
    /\ UNCHANGED <<mem, disk, live, edits>>

WriteKey(c, fails) ==
    /\ req[c].phase = "crt" /\ Charge(fails)
    /\ IF fails THEN UNCHANGED pem /\ Step(c, Idle)
       ELSE /\ pem' = [pem EXCEPT !.key = req[c].upload]
            /\ Step(c, [phase |-> "copied", kind |-> "tls", set |-> [tls |-> TRUE],
                        next |-> Update([tls |-> TRUE])])
    /\ UNCHANGED <<mem, disk, live, edits>>

(* Which running parts hear of a change before the file is written, and     *)
(* which only after.                                                        *)
(* Bug variant: the limiters keep their rates.                              *)
BeforeSaveWhitelistOnly(kind) ==
    CASE kind = "auth" -> {"whitelist"} [] kind = "monitor" -> {"monitor"} [] OTHER -> {}
BeforeSave(kind) ==
    CASE kind = "auth" -> {"rate", "whitelist"} [] kind = "monitor" -> {"monitor"} [] OTHER -> {}
AfterSave(kind) ==
    CASE kind = "server" -> {"assets"} [] kind = "logs" -> {"level"}
      [] kind = "alerts" -> {"rules"} [] OTHER -> {}

Tell(cfg, fields) == live' = [f \in Hot |-> IF f \in fields THEN cfg[f] ELSE live[f]]

(* The copy replaces the configuration.  A server request that turned the   *)
(* human check on without a key for it is then refused.                     *)
Replace(c) ==
    /\ req[c].phase = "copied"
    /\ mem' = req[c].next
    /\ Tell(mem', BeforeSave(req[c].kind) \cap DOMAIN req[c].set)
    /\ IF req[c].kind = "server" /\ mem'.check /\ ~mem'.secret THEN Step(c, Idle)
       ELSE Step(c, [phase |-> "replaced", kind |-> req[c].kind, set |-> req[c].set])
    /\ UNCHANGED <<disk, pem, edits, faults>>

(* saveConfig takes the configuration of now ...                            *)
saveConfig(c) ==
    /\ req[c].phase = "replaced"
    /\ Step(c, [phase |-> "writing", kind |-> req[c].kind, set |-> req[c].set, next |-> mem])
    /\ UNCHANGED <<mem, disk, live, pem, edits, faults>>

(* ... and writes it.                                                       *)
Finish(c, fails) ==
    /\ req[c].phase = "writing" /\ Charge(fails)
    /\ Save(req[c].next, fails)
    /\ IF fails THEN UNCHANGED live ELSE Tell(mem, AfterSave(req[c].kind) \cap DOMAIN req[c].set)
    /\ Step(c, Idle)
    /\ UNCHANGED <<mem, pem, edits>>

(* The panel is restarted, by a request or otherwise.                       *)
RestartPanel ==
    /\ mem' = Load /\ live' = HotPart(Load)
    /\ req' = [c \in Admins |-> Idle]
    /\ UNCHANGED <<disk, pem, edits, faults>>

----------------------------------------------------------------------------
Init ==
    /\ mem = Default /\ disk = Default /\ live = HotPart(Default)
    /\ pem = [crt |-> 0, key |-> 0] /\ req = [c \in Admins |-> Idle] /\ edits = 0 /\ faults = 0

Next ==
    \/ \E c \in Admins :
        \/ UpdateServerConfig(c) \/ UpdateAuthConfig(c) \/ UpdateMonitorConfig(c)
        \/ UpdateAuditConfig(c) \/ UpdateNotifyConfig(c) \/ UpdateFeaturesConfig(c)
        \/ UpdateLogsConfig(c) \/ UpdateAlertRules(c) \/ DisableTLS(c)
        \/ Replace(c) \/ saveConfig(c)
        \/ \E fails \in BOOLEAN : UpdateTLSConfig(c, fails) \/ WriteKey(c, fails) \/ Finish(c, fails)
    \/ RestartPanel

Spec == Init /\ [][Next]_vars

----------------------------------------------------------------------------
TypeOK ==
    /\ DOMAIN mem = DOMAIN Default /\ DOMAIN disk = DOMAIN Default /\ DOMAIN live = Hot
    /\ pem.crt \in 0..MaxEdits /\ pem.key \in 0..MaxEdits
    /\ \A c \in Admins : req[c].phase \in {"idle", "crt", "copied", "replaced", "writing"}
    /\ edits \in 0..MaxEdits /\ faults \in 0..MaxFaults

(* With a single administrator, the limiters, the address list and the      *)
(* monitor work by the configuration whenever no request is under way, also *)
(* after one that could not save and after a restart (UpdateAuthConfig,     *)
(* UpdateMonitorConfig).                                                    *)
HotIsConfigured ==
    (\A c, d \in Admins : c = d) /\ (\A c \in Admins : req[c] = Idle) =>
        \A f \in {"rate", "whitelist", "monitor"} : live[f] = mem[f]

(* A saved configuration that enables TLS finds both its files at the next  *)
(* start, whichever write failed and whatever overlapped (UpdateTLSConfig). *)
EnabledHasFiles == disk.tls => pem.crt # 0 /\ pem.key # 0

(* The human check is never saved as on without its key (UpdateServerConfig *)
(* refuses to save it).                                                     *)
RefusedIsNotSaved == disk.check => disk.secret

(* The log level in force is the saved one, also after a save failed        *)
(* (UpdateLogsConfig).                                                      *)
LevelIsSaved == (\A c \in Admins : req[c] = Idle) => live.level = disk.level

(* A setting that is saved is in force after a restart (mergeDefaults).     *)
ManualChoiceKept == [][req' = [c \in Admins |-> Idle] /\ mem' = Load => mem'.manual = disk.manual]_vars

(* The certificate and the key are of the same upload.                      *)
PairMatches == (\A c \in Admins : req[c] = Idle) => pem.crt = pem.key
=============================================================================
