---------------------------- MODULE SiteSecurity ----------------------------
(* Bans of addresses by the site security service                           *)
(* (internal/domain/web/security): rows in SQLite, a DROP rule of the       *)
(* firewall per ban, the deny file nginx includes, and what nginx loaded.   *)
(* Step `at` of a request fails, "none" if none does; `valid` says what     *)
(* nginx -t thinks of the whole configuration.                              *)
EXTENDS Naturals, FiniteSets

CONSTANTS
    Sites,        \* website ids; a ban of Global has none
    Global,
    IPs,          \* addresses
    MaxId,        \* bound: bans ever inserted
    MaxFaults     \* bound: steps that fail

VARIABLES
    bans,         \* website_banned_ips: id -> [ip, site, temp, over]
    lastId,       \* ids given so far
    rules,        \* firewall rules with the remark of a ban: id of the ban -> ip
    denied,       \* the addresses in banned_ips.conf
    loaded,       \* the addresses nginx denies
    faults

vars == <<bans, lastId, rules, denied, loaded, faults>>

(* What the proofs assume of the constants.                                 *)
BanBounds == {MaxId, MaxFaults} \subseteq Nat

Charge(at) == faults' = faults + (IF at = "none" THEN 0 ELSE 1) /\ faults' <= MaxFaults
Without(f, S) == [x \in DOMAIN f \ S |-> f[x]]

GetBannedIP(id) == bans[id]
Active(b) == ~b.over

AddBannedIP(id, ip, site, temp) ==
    [i \in DOMAIN bans \cup {id} |->
        IF i = id THEN [ip |-> ip, site |-> site, temp |-> temp, over |-> FALSE] ELSE bans[i]]
RemoveBannedIP(id) == Without(bans, {id})
ListAllBannedIPs(b) == {b[i].ip : i \in {j \in DOMAIN b : Active(b[j])}}

(* Bug variant: only the bans of all sites get into the file.               *)
refreshGlobalOnly(b, at) ==
    /\ denied' = IF at = "file" THEN denied
                 ELSE {b[i].ip : i \in {j \in DOMAIN b : Active(b[j]) /\ b[j].site = Global}}
    /\ loaded' = IF at \in {"file", "nginx"} THEN loaded ELSE denied'

(* The file is written from all rows, then nginx tests and reloads.         *)
refreshNginxBanFile(b, at) ==
    /\ denied' = IF at = "file" THEN denied ELSE ListAllBannedIPs(b)
    /\ loaded' = IF at \in {"file", "nginx"} THEN loaded ELSE denied'

(* A failed firewall rule ends the request with the row in place.           *)
BanIP ==
    \E site \in Sites \cup {Global}, ip \in IPs, temp \in BOOLEAN,
       at \in {"none", "firewall", "file", "nginx"} :
        /\ lastId < MaxId /\ lastId' = lastId + 1
        /\ bans' = AddBannedIP(lastId', ip, site, temp)
        /\ IF at = "firewall" THEN UNCHANGED <<rules, denied, loaded>>
           ELSE /\ rules' = [i \in DOMAIN rules \cup {lastId'} |->
                               IF i = lastId' THEN ip ELSE rules[i]]
                /\ refreshNginxBanFile(bans', at)
        /\ Charge(at)

(* Every rule with the address and the remark goes, also that of another    *)
(* ban of the address.                                                      *)
UnbanIP ==
    \E id \in DOMAIN bans, at \in {"none", "firewall", "file", "nginx"} :
        /\ bans' = RemoveBannedIP(id)
        /\ rules' = IF at = "firewall" THEN rules
                    ELSE Without(rules, {i \in DOMAIN rules : rules[i] = GetBannedIP(id).ip})
        /\ refreshNginxBanFile(bans', at)
        /\ Charge(at) /\ UNCHANGED lastId

(* An expired ban stays in the table: CleanupExpired has no caller.         *)
Expire ==
    \E id \in DOMAIN bans :
        /\ bans[id].temp /\ ~bans[id].over
        /\ bans' = [bans EXCEPT ![id].over = TRUE]
        /\ UNCHANGED <<lastId, rules, denied, loaded, faults>>

Init == /\ bans = <<>> /\ lastId = 0 /\ rules = <<>> /\ denied = {} /\ loaded = {} /\ faults = 0

Next == BanIP \/ UnbanIP \/ Expire

----------------------------------------------------------------------------
TypeOK ==
    /\ DOMAIN bans \subseteq 1 .. lastId /\ DOMAIN rules \subseteq 1 .. lastId
    /\ lastId \in 0 .. MaxId /\ faults \in 0 .. MaxFaults
    /\ denied \subseteq IPs /\ loaded \subseteq IPs

(* While no step has failed nginx denies every address that some ban names, *)
(* also when one of several bans of it was lifted, and denies no address    *)
(* without a row.                                                           *)
BannedIsDenied ==
    faults = 0 => /\ ListAllBannedIPs(bans) \subseteq loaded
                  /\ \A ip \in loaded : \E i \in DOMAIN bans : bans[i].ip = ip

(* "adds an iptables DROP rule": an address with a ban has a rule in the    *)
(* firewall.                                                                *)
BannedIsDropped ==
    faults = 0 => \A i \in DOMAIN bans : \E r \in DOMAIN rules : rules[r] = bans[i].ip
=============================================================================
