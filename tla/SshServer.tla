------------------------------ MODULE SshServer ------------------------------
(* The SSH server's settings, keys and fail2ban (internal/domain/ssh).      *)
(* Settings are written to a drop-in file, 99-easyserver.conf.  sshd takes  *)
(* the first value it reads of a directive, drop-ins in the order of their  *)
(* names before the main file, and gathers all users of AllowUsers.         *)
EXTENDS Naturals, Sequences

CONSTANTS
    Other,        \* PasswordAuthentication in an earlier drop-in: "unset", "yes"
    Options,      \* hardening requests, [port, noPassword, users]
    Settings,     \* settings saved by hand
    Comments,     \* comments of public keys
    MaxKeys,      \* bound: lines of authorized_keys
    MaxFaults     \* bound: steps that fail

(* What the proofs assume of the constants.                                 *)
SshdBounds == {MaxKeys, MaxFaults} \subseteq Nat

VARIABLES
    other, include,
    dropIn, bak,  \* 99-easyserver.conf and its copy, [port, password, users, bad]
    live,         \* the settings sshd runs with
    busy,         \* ports other programs listen on
    keys,         \* authorized_keys: comments, in the order of the file
    f2b,          \* fail2ban: [installed, jail, enabled, active]
    last,         \* outcome of the last hardening
    faults

vars == <<other, include, dropIn, bak, live, busy, keys, f2b, last, faults>>

host == <<other, include, busy>>
conf == <<dropIn, bak, live, last>>
NoFile == [port |-> 0, password |-> "unset", users |-> <<>>, bad |-> FALSE]
Charge(at) == faults' = faults + (IF at = "none" THEN 0 ELSE 1) /\ faults' <= MaxFaults

----------------------------------------------------------------------------
(* What sshd makes of the files.                                            *)
Effective(f) ==
    [port |-> IF f.port = 0 THEN 22 ELSE f.port,
     password |-> IF other # "unset" THEN other ELSE IF f.password # "unset" THEN f.password ELSE "yes",
     users |-> f.users]

(* sshd -T lists each allowed user on a line of its own; the last one read  *)
(* replaces the others.                                                     *)
applyLines(eff) ==
    [port |-> eff.port, password |-> eff.password,
     users |-> IF eff.users = <<>> THEN <<>> ELSE <<eff.users[Len(eff.users)]>>, bad |-> FALSE]
GetConfig == applyLines(Effective(dropIn))
TestConfig(f) == ~f.bad
hasSSHDIncludeDir == include

(* The drop-in is copied aside, if there is one, and replaced whole.        *)
saveDropIn(cfg) ==
    /\ bak' = IF dropIn = NoFile THEN bak ELSE dropIn
    /\ dropIn' = cfg
SaveConfig(cfg, at) ==
    /\ at \in {"none", "write"} /\ Charge(at)
    /\ IF hasSSHDIncludeDir /\ at = "none" THEN saveDropIn(cfg) ELSE UNCHANGED <<dropIn, bak>>
    /\ last' = "none"
    /\ UNCHANGED <<host, live, keys, f2b>>

(* A file that does not pass sshd's own check is not loaded.                *)
Reloaded(f, at) == IF TestConfig(f) /\ at # "reload" THEN Effective(f) ELSE live
ReloadSSH(at) ==
    /\ at \in {"none", "reload"} /\ Charge(at)
    /\ live' = Reloaded(dropIn, at)
    /\ UNCHANGED <<host, dropIn, bak, keys, f2b, last>>

portAvailable(p) == p \notin busy
ListAuthorizedKeys == keys
restoreBackup(copy, f) == IF copy = NoFile THEN f ELSE copy
Outcome(o) == IF o.users = <<>> THEN "same" ELSE "done"

(* Bug variant: the copy is not put back.                                   *)
HardenApplyOnly(cfg, outcome, at) ==
    /\ saveDropIn(cfg)
    /\ live' = Reloaded(cfg, at)
    /\ last' = IF ~TestConfig(cfg) THEN "undone" ELSE IF at = "reload" THEN "failed" ELSE outcome

(* Saved, checked, and loaded; when the check fails the copy is put back.   *)
(* The outcome tells a request that names users from one that does not.     *)
HardenApply(cfg, outcome, at) ==
    /\ bak' = IF dropIn = NoFile THEN bak ELSE dropIn
    /\ IF TestConfig(cfg)
       THEN /\ dropIn' = cfg /\ live' = Reloaded(cfg, at)
            /\ last' = IF at = "reload" THEN "failed" ELSE outcome
       ELSE LET back == restoreBackup(bak', cfg)
            IN /\ dropIn' = back /\ live' = Reloaded(back, at)
               /\ last' = IF bak' = NoFile \/ at = "reload" THEN "failed" ELSE "undone"

Harden(o, at) ==
    /\ at \in {"none", "write", "reload"} /\ Charge(at)
    /\ UNCHANGED <<host, keys, f2b>>
    /\ LET now == GetConfig
           cfg == [port |-> IF o.port # 0 THEN o.port ELSE now.port,
                   password |-> IF o.noPassword THEN "no" ELSE now.password,
                   users |-> IF o.users # <<>> THEN o.users ELSE now.users,
                   bad |-> o.bad]
       IN IF \/ ~TestConfig(dropIn) \/ (o.noPassword /\ ListAuthorizedKeys = <<>>)
             \/ (o.port # 0 /\ o.port # now.port /\ ~portAvailable(o.port))
             \/ ~hasSSHDIncludeDir \/ at = "write"
          THEN last' = "none" /\ UNCHANGED <<dropIn, bak, live>>
          ELSE HardenApply(cfg, Outcome(o), at)

----------------------------------------------------------------------------
(* Public keys.  One comment may stand on several lines.                    *)
Keys(ks, at) == /\ at \in {"none", "write"} /\ Charge(at)
                /\ keys' = IF at = "none" THEN ks ELSE keys
                /\ UNCHANGED <<host, conf, f2b>>
AddAuthorizedKey(c, at) == Len(keys) < MaxKeys /\ Keys(Append(keys, c), at)
(* The lines without a comment (SelectSeq, as a recursive function so that  *)
(* it can be reasoned about).                                               *)
keysWithout(c) ==
    LET kept[i \in 0 .. Len(keys)] ==
            IF i = 0 THEN <<>>
            ELSE IF keys[i] # c THEN Append(kept[i - 1], keys[i]) ELSE kept[i - 1]
    IN kept[Len(keys)]
RemoveAuthorizedKey(c, at) == Keys(keysWithout(c), at)
GenerateKeyPair(at) == \E c \in Comments : AddAuthorizedKey(c, at)

(* Bug variant: a jail that cannot be written does not stop the install.    *)
InstallFail2banGoesOn(at) ==
    /\ ~f2b.installed /\ at \in {"none", "package", "jail", "enable", "start"} /\ Charge(at)
    /\ f2b' = [installed |-> at # "package", jail |-> at \notin {"package", "jail"},
               enabled |-> at \in {"none", "start", "jail"}, active |-> at \in {"none", "jail"}]
    /\ UNCHANGED <<host, conf, keys>>

(* fail2ban: what was done before a step that fails stays, and the package  *)
(* alone makes every later attempt a conflict.                              *)
InstallFail2ban(at) ==
    /\ ~f2b.installed /\ at \in {"none", "package", "jail", "enable", "start"} /\ Charge(at)
    /\ f2b' = [installed |-> at # "package", jail |-> at \notin {"package", "jail"},
               enabled |-> at \in {"none", "start"}, active |-> at = "none"]
    /\ UNCHANGED <<host, conf, keys>>
ReloadFail2ban(at) ==
    /\ f2b.installed /\ at \in {"none", "reload"} /\ Charge(at)
    /\ UNCHANGED <<host, conf, keys, f2b>>
Fail2banStatus == [installed |-> f2b.installed, active |-> f2b.active, enabled |-> f2b.enabled]

----------------------------------------------------------------------------
(* The routes; and programs that open and close ports.                      *)
Ats == {"none", "write", "reload", "package", "jail", "enable", "start"}
PutConfig == \E cfg \in Settings, at \in Ats : 1 <= cfg.port /\ cfg.port <= 65535 /\ SaveConfig(cfg, at)
PostReload == \E at \in Ats : ReloadSSH(at)
PostHarden == \E o \in Options, at \in Ats : Harden(o, at)
PostKey == \E c \in Comments, at \in Ats : AddAuthorizedKey(c, at)
DeleteKey == \E c \in Comments, at \in Ats : RemoveAuthorizedKey(c, at)
PostKeyPair == \E at \in Ats : GenerateKeyPair(at)
PostFail2ban == \E at \in Ats : InstallFail2ban(at)
PostFail2banReload == \E at \in Ats : ReloadFail2ban(at)
PortTaken ==
    /\ \E b \in SUBSET {o.port : o \in Options} : busy' = b \ {0, live.port}
    /\ UNCHANGED <<other, include, conf, keys, f2b, faults>>

Init ==
    /\ other \in Other /\ include \in BOOLEAN /\ busy = {}
    /\ dropIn = NoFile /\ bak = NoFile /\ live = Effective(NoFile)
    /\ keys = <<>> /\ last = "none" /\ faults = 0
    /\ f2b = [installed |-> FALSE, jail |-> FALSE, enabled |-> FALSE, active |-> FALSE]

Next == \/ PutConfig \/ PostReload \/ PostHarden \/ PostKey \/ DeleteKey \/ PostKeyPair
        \/ PostFail2ban \/ PostFail2banReload \/ PortTaken

----------------------------------------------------------------------------
TypeOK ==
    /\ other \in Other /\ include \in BOOLEAN /\ faults \in 0..MaxFaults
    /\ keys \in UNION {[1..n -> Comments] : n \in 0..MaxKeys}
    /\ last \in {"none", "done", "same", "undone", "failed"}
    /\ f2b.active => f2b.enabled /\ f2b.jail /\ f2b.installed
    /\ ~include => dropIn = NoFile

(* A hardening that reports its settings as rolled back has put back the    *)
(* file that was there, and sshd runs what that file says: the next reload  *)
(* changes nothing.                                                         *)
RolledBack == last = "undone" => TestConfig(dropIn) /\ live = Effective(dropIn)

(* The comment at sshdDropInPath: the drop-in overrides the same directive  *)
(* of other drop-ins.  sshd keeps the first value, which is theirs.         *)
DropInWins == last \in {"done", "same"} => live.password = dropIn.password

(* A hardening that names no users leaves the users who may log in.         *)
UsersKept == last' = "same" => Effective(dropIn').users = Effective(dropIn).users
=============================================================================
