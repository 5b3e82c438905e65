---------------------------- MODULE PortForwards ----------------------------
(* Port forwards (internal/domain/firewall/port_forward.go): rows in SQLite *)
(* and up to three nftables rules per row, tagged with its id.  They are    *)
(* replayed when the panel starts; any nft command may fail.                *)
EXTENDS Naturals, Sequences, SequencesExt

CONSTANTS
    Spans,        \* listen ports a forward may ask for: <<first, last>>
    Protected,    \* the ports of SSH and of the panel
    MaxId,        \* bound: rows ever inserted
    MaxCopies,    \* bound: copies of one rule in the kernel
    MaxFaults     \* bound: nft commands that fail

ForwardBounds == {MaxId, MaxFaults} \subseteq Nat /\ MaxCopies \in Nat \ {0}

VARIABLES
    fwd,          \* port_forwards: id -> [span, priv, on]
    fwdId,        \* its AUTOINCREMENT counter
    nat,          \* id -> [part -> copies in the kernel], for every id ever used
    started,      \* the last step was a start whose replay met no error
    faults        \* nft commands that failed so far

vars == <<fwd, fwdId, nat, started, faults>>

FwdParts == {"dnat", "fwd", "masq"}
NoRules == [p \in FwdParts |-> 0]

Fails(b) == IF b THEN faults' = faults + 1 /\ faults < MaxFaults
            ELSE UNCHANGED faults

fwdGet(id) == fwd[id]
ListEnabled == {i \in DOMAIN fwd : fwd[i].on}

pfPortSpan(s) == 1 <= s[1] /\ s[1] <= s[2]
pfRangesOverlap(a, b) == a[1] <= b[2] /\ b[1] <= a[2]

(* Only the first port of the range is compared with the protected ones.    *)
validate(r) == pfPortSpan(r.span) /\ r.span[1] \notin Protected

(* Bug variant: only a rule for exactly the same ports is a conflict.       *)
checkConflictSameSpan(id, r) ==
    \A e \in DOMAIN fwd : fwd[e].on /\ e # id => fwd[e].span # r.span

checkConflict(id, r) ==
    \A e \in ListEnabled \ {id} : ~pfRangesOverlap(fwd[e].span, r.span)

fwdParts(r) == IF r.priv THEN <<"dnat", "fwd", "masq">> ELSE <<"dnat", "fwd">>

applyForward(k, r, n) ==
    [p \in FwdParts |-> IF Contains(SubSeq(fwdParts(r), 1, n), p) THEN k[p] + 1 ELSE k[p]]

(* Bug variant: the masquerade rule's tag is not matched.                   *)
removeForwardButMasq(k, listed) ==
    [p \in FwdParts |-> IF p \in listed \ {"masq"} THEN 0 ELSE k[p]]

(* removeForward cleans the chains it can list.                             *)
removeForward(k, listed) == [p \in FwdParts |-> IF p \in listed THEN 0 ELSE k[p]]

fwdCreate(r) == fwd' = [i \in DOMAIN fwd \cup {fwdId + 1} |->
                            IF i = fwdId + 1 THEN r ELSE fwd[i]]
fwdDelete(id) == fwd' = [i \in DOMAIN fwd \ {id} |-> fwd[i]]
fwdUpdate(id, r) == fwd' = [fwd EXCEPT ![id] = r]

Forwards == [span : Spans, priv : BOOLEAN, on : BOOLEAN]

(* The kernel rules are made whether or not the request asks for an enabled *)
(* rule; when one fails the row goes and the rules made so far stay.        *)
CreatePortForward ==
    \E r \in Forwards : \E n \in 0 .. Len(fwdParts(r)) :
        /\ validate(r) /\ checkConflict(0, r)
        /\ fwdId < MaxId
        /\ fwdId' = fwdId + 1
        /\ nat' = [nat EXCEPT ![fwdId + 1] = applyForward(@, r, n)]
        /\ IF n = Len(fwdParts(r)) THEN fwdCreate(r) ELSE UNCHANGED fwd
        /\ Fails(n < Len(fwdParts(r)))
        /\ started' = FALSE

UpdatePortForward ==
    \E id \in DOMAIN fwd, r \in Forwards, listed \in SUBSET FwdParts :
    \E n \in 0 .. Len(fwdParts(r)) :
        /\ validate(r) /\ checkConflict(id, r)
        /\ r.on \/ n = Len(fwdParts(r))
        /\ fwdUpdate(id, r)
        /\ nat' = [nat EXCEPT ![id] = IF r.on THEN applyForward(removeForward(@, listed), r, n)
                                      ELSE removeForward(@, listed)]
        /\ \A p \in FwdParts : nat'[id][p] <= MaxCopies
        /\ listed = FwdParts \/ n = Len(fwdParts(r))
        /\ Fails(listed # FwdParts \/ n < Len(fwdParts(r)))
        /\ started' = FALSE /\ UNCHANGED fwdId

DeletePortForward ==
    \E id \in DOMAIN fwd, listed \in SUBSET FwdParts :
        /\ nat' = [nat EXCEPT ![id] = removeForward(@, listed)]
        /\ fwdDelete(id)
        /\ Fails(listed # FwdParts)
        /\ started' = FALSE /\ UNCHANGED fwdId

(* Enabling applies the rules again, on an enabled row too.                 *)
EnablePortForward ==
    \E id \in DOMAIN fwd : \E n \in 0 .. Len(fwdParts(fwd[id])) :
        /\ validate(fwdGet(id)) /\ checkConflict(id, fwdGet(id))
        /\ nat' = [nat EXCEPT ![id] = applyForward(@, fwd[id], n)]
        /\ \A p \in FwdParts : nat'[id][p] <= MaxCopies
        /\ fwd' = IF n = Len(fwdParts(fwd[id])) THEN [fwd EXCEPT ![id].on = TRUE] ELSE fwd
        /\ Fails(n < Len(fwdParts(fwd[id])))
        /\ started' = FALSE /\ UNCHANGED fwdId

DisablePortForward ==
    \E id \in DOMAIN fwd, listed \in SUBSET FwdParts :
        /\ nat' = [nat EXCEPT ![id] = removeForward(@, listed)]
        /\ fwd' = [fwd EXCEPT ![id].on = FALSE]
        /\ Fails(listed # FwdParts)
        /\ started' = FALSE /\ UNCHANGED fwdId

(* DisableFirewall on a host with nft flushes the whole ruleset.            *)
FlushRuleset ==
    /\ nat' = [i \in DOMAIN nat |-> NoRules]
    /\ started' = FALSE
    /\ UNCHANGED <<fwd, fwdId, faults>>

(* The replay removes the rules of every row, as far as the chains can be   *)
(* listed, and makes those of the enabled ones; a row whose rules cannot    *)
(* all be made (bad, n of them are) does not stop the rest.                 *)
ReapplyAll(k, listed, bad, n) ==
    [i \in DOMAIN k |->
        LET left == removeForward(k[i], listed)
        IN CASE i \notin DOMAIN fwd -> k[i]
             [] i \in DOMAIN fwd /\ ~fwd[i].on -> left
             [] i \in DOMAIN fwd /\ fwd[i].on ->
                    applyForward(left, fwd[i], IF i \in bad THEN n ELSE Len(fwdParts(fwd[i])))]

(* The panel starts, after the host rebooted or alone.                      *)
PanelStart ==
    \E rebooted \in BOOLEAN, listed \in {FwdParts, {}},
       bad \in SUBSET ListEnabled, n \in 0 .. 1 :
        /\ nat' = ReapplyAll(IF rebooted THEN [i \in DOMAIN nat |-> NoRules] ELSE nat,
                             listed, bad, n)
        /\ \A i \in DOMAIN nat, p \in FwdParts : nat'[i][p] <= MaxCopies
        /\ started' = (bad = {} /\ listed = FwdParts)
        /\ Fails(~started')
        /\ UNCHANGED <<fwd, fwdId>>

Init ==
    /\ fwd = <<>> /\ fwdId = 0 /\ nat = [i \in 1 .. MaxId |-> NoRules]
    /\ started = FALSE /\ faults = 0

Next ==
    \/ CreatePortForward \/ UpdatePortForward \/ DeletePortForward
    \/ EnablePortForward \/ DisablePortForward
    \/ FlushRuleset \/ PanelStart

----------------------------------------------------------------------------
TypeOK ==
    /\ DOMAIN fwd \subseteq 1 .. fwdId
    /\ \A i \in DOMAIN fwd : fwd[i] \in Forwards
    /\ nat \in [1 .. MaxId -> [FwdParts -> 0 .. MaxCopies]]
    /\ fwdId \in 0 .. MaxId /\ faults \in 0 .. MaxFaults

(* Two enabled forwards never listen on a common port, whatever sequence of *)
(* create, update, enable and disable led there (checkConflict looks only   *)
(* at rows that are enabled when it runs).                                  *)
NoListenConflict ==
    \A i, j \in DOMAIN fwd :
        i # j /\ fwd[i].on /\ fwd[j].on => ~pfRangesOverlap(fwd[i].span, fwd[j].span)

(* After a start the kernel holds, for every row, the rules of its current  *)
(* state once, and nothing older: duplicates of repeated enables, leftovers *)
(* of failed updates and the effects of a flush are gone.                   *)
StartAligns ==
    started => \A i \in DOMAIN fwd :
        nat[i] = IF fwd[i].on THEN applyForward(NoRules, fwd[i], Len(fwdParts(fwd[i])))
                 ELSE NoRules
=============================================================================
