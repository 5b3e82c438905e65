------------------------------ MODULE PortAcl ------------------------------
(* Access lists of exposed ports (internal/domain/firewall/port_acl.go):    *)
(* rows in SQLite and the nftables rules tagged with the row's id, kept as  *)
(* the sequence of rules chain INPUT holds for each port.  The lists are    *)
(* replayed when the panel starts; any nft command may fail.                *)
EXTENDS Naturals, Sequences, SequencesExt, FiniteSets

CONSTANTS
    Ports,        \* ports a plugin may expose
    Cidrs,        \* sources it may list
    MaxId,        \* bound: rows ever inserted
    MaxRules,     \* bound: rules of one port in the chain
    MaxFaults     \* bound: nft commands that fail

AclBounds == IsFiniteSet(Cidrs) /\ {MaxId, MaxRules, MaxFaults} \subseteq Nat

VARIABLES
    acl,          \* port_acl: port -> [id, cidrs], for the ports listed
    aclId,        \* its AUTOINCREMENT counter
    input,        \* port -> sequence of [id, from], from a source or "deny"
    started,      \* the last step was a start whose replay met no error
    faults        \* nft commands that failed so far

vars == <<acl, aclId, input, started, faults>>

Fails(b) == IF b THEN faults' = faults + 1 /\ faults < MaxFaults
            ELSE UNCHANGED faults

aclGet(port) == acl[port]

(* A list without a single source is refused; duplicates are dropped.       *)
normalizeCIDRs(cidrs) == cidrs # {}

(* Upsert keeps the id of the port's row, or inserts one.                   *)
aclUpsert(port, cidrs) ==
    LET id == IF port \in DOMAIN acl THEN acl[port].id ELSE aclId + 1
    IN /\ acl' = [p \in DOMAIN acl \cup {port} |->
                    IF p = port THEN [id |-> id, cidrs |-> cidrs] ELSE acl[p]]
       /\ aclId' = IF port \in DOMAIN acl THEN aclId ELSE id
       /\ aclId' <= MaxId

aclDelete(port) == acl' = [p \in DOMAIN acl \ {port} |-> acl[p]]

(* apply appends one accept per source and then the deny; n of the commands *)
(* succeed.                                                                 *)
aclRules(id, cidrs) ==
    [i \in 1 .. Cardinality(cidrs) + 1 |->
        [id |-> id, from |-> IF i <= Cardinality(cidrs) THEN SetToSeq(cidrs)[i] ELSE "deny"]]

aclApply(rules, id, cidrs, n) == rules \o SubSeq(aclRules(id, cidrs), 1, n)

(* The rules of a chain that pass a test, in their order (SelectSeq, as a   *)
(* recursive function so that it can be reasoned about).                    *)
Those(rules, keep(_)) ==
    LET kept[i \in 0 .. Len(rules)] ==
            IF i = 0 THEN <<>>
            ELSE IF keep(rules[i]) THEN Append(kept[i - 1], rules[i]) ELSE kept[i - 1]
    IN kept[Len(rules)]

(* Bug variant: only the accepting rules carry the tag that is looked for. *)
aclRemoveKeepingDeny(rules, id) ==
    Those(rules, LAMBDA r : r.id # id \/ r.from = "deny")

(* remove deletes the rules tagged with the id.                             *)
aclRemove(rules, id) == Those(rules, LAMBDA r : r.id # id)

Expose ==
    \E port \in Ports, cidrs \in SUBSET Cidrs :
    \E n \in 0 .. Cardinality(cidrs) + 1 :
        /\ normalizeCIDRs(cidrs)
        /\ aclUpsert(port, cidrs)
        /\ input' = [input EXCEPT ![port] = aclApply(@, acl'[port].id, cidrs, n)]
        /\ Len(input'[port]) <= MaxRules
        /\ Fails(n < Cardinality(cidrs) + 1)
        /\ started' = FALSE

(* A chain that cannot be listed is taken for one without rules.            *)
Revoke ==
    \E port \in DOMAIN acl, listed \in BOOLEAN :
        /\ input' = IF listed THEN [input EXCEPT ![port] = aclRemove(@, aclGet(port).id)]
                    ELSE input
        /\ aclDelete(port)
        /\ Fails(~listed)
        /\ started' = FALSE /\ UNCHANGED aclId

(* The first rule that names the source, or the deny, decides.              *)
Allowed(port, src) ==
    LET hits == {i \in DOMAIN input[port] : input[port][i].from \in {src, "deny"}}
    IN hits = {} \/ input[port][CHOOSE i \in hits : \A j \in hits : i <= j].from = src


(* DisableFirewall on a host with nft flushes the whole ruleset.            *)
FlushRuleset ==
    /\ input' = [p \in Ports |-> <<>>]
    /\ started' = FALSE
    /\ UNCHANGED <<acl, aclId, faults>>

(* The replay removes every row's rules, if the chain can be listed, then   *)
(* applies the rows in order and stops at the first that fails: done are    *)
(* the ports applied before.                                                *)
ReapplyAll(c, listed, done) ==
    [p \in Ports |->
        LET left == IF listed THEN aclRemove(c[p], acl[p].id) ELSE c[p]
        IN CASE p \notin DOMAIN acl -> c[p]
             [] p \in DOMAIN acl /\ p \notin done -> left
             [] p \in DOMAIN acl /\ p \in done ->
                    aclApply(left, acl[p].id, acl[p].cidrs, Cardinality(acl[p].cidrs) + 1)]

(* The panel starts, after the host rebooted or alone.                      *)
PanelStart ==
    \E rebooted, listed \in BOOLEAN, done \in SUBSET DOMAIN acl :
        /\ \A p \in done, q \in DOMAIN acl \ done : acl[p].id < acl[q].id
        /\ input' = ReapplyAll(IF rebooted THEN [p \in Ports |-> <<>>] ELSE input,
                               listed, done)
        /\ \A p \in Ports : Len(input'[p]) <= MaxRules
        /\ started' = (listed /\ done = DOMAIN acl)
        /\ Fails(~started')
        /\ UNCHANGED <<acl, aclId>>

Init ==
    /\ acl = <<>> /\ aclId = 0 /\ input = [p \in Ports |-> <<>>]
    /\ started = FALSE /\ faults = 0

Next == Expose \/ Revoke \/ FlushRuleset \/ PanelStart

----------------------------------------------------------------------------
TypeOK ==
    /\ DOMAIN acl \subseteq Ports
    /\ \A p \in DOMAIN acl : acl[p].id \in 1 .. aclId /\ acl[p].cidrs \subseteq Cidrs
    /\ aclId \in 0 .. MaxId /\ faults \in 0 .. MaxFaults

(* After a start the chain holds, for every row, one accept per listed      *)
(* source and then the deny, and nothing older under the row's tag: what    *)
(* repeated exposes or a flush left behind is gone.                         *)
StartAligns ==
    started => \A p \in DOMAIN acl :
        Those(input[p], LAMBDA r : r.id = acl[p].id) = aclRules(acl[p].id, acl[p].cidrs)

(* "Expose clears the old rules and then applies": while no command has     *)
(* failed, the sources a filtered port lets in are those its row lists.     *)
OnlyListedSources ==
    faults = 0 => \A p \in DOMAIN acl : input[p] # <<>> =>
        \A s \in Cidrs : Allowed(p, s) <=> s \in acl[p].cidrs
=============================================================================
