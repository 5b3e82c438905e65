--------------------------- MODULE FirewallRules ---------------------------
(* The panel's firewall rules (internal/domain/firewall): rows in SQLite,   *)
(* the rules the firewall tool really holds on INPUT, the default policy    *)
(* and the goroutine that verifies it.  Requests are handled one at a time; *)
(* any command the service runs may fail.                                   *)
EXTENDS Naturals, Sequences, SequencesExt, FiniteSets

CONSTANTS
    Tools,        \* the firewall tools a host may have: "ufw", "nft", "iptables"
    Protected,    \* the ports of SSH and of the panel
    NoPort,       \* a rule without a port
    Specs,        \* the rules an administrator may ask for: [port, act, ver]
    PrefixOf,     \* <<p, q>>: the decimal text of port q begins with that of p
    MaxId,        \* bound: rows ever inserted
    MaxChain,     \* bound: rules the tool holds
    MaxChecks,    \* bound: verifications that wait
    MaxFaults     \* bound: commands that fail

(* A protected port is a port, and a request has the fields of a rule.      *)
FirewallBounds ==
    /\ Tools \subseteq {"ufw", "nft", "iptables"}
    /\ IsFiniteSet(Protected) /\ NoPort \notin Protected
    /\ \A r \in Specs : r = [port |-> r.port, act |-> r.act, ver |-> r.ver]
    /\ {MaxId, MaxChain, MaxChecks, MaxFaults} \subseteq Nat

VARIABLES
    tool,         \* detectedTool: found once, then cached
    rows,         \* firewall_rules: id -> [port, act, ver, on, prio]
    lastId,       \* the AUTOINCREMENT counter of the table
    chain,        \* the rules of the tool, in the order it tries them
    active,       \* ufw is active, the nft table exists
    policy,       \* the default policy of INPUT
    checks,       \* verifications waiting, by the policy they would restore
    faults        \* commands that failed so far

vars == <<tool, rows, lastId, chain, active, policy, checks, faults>>

Policies == {"ACCEPT", "DROP"}
Versions == {"ipv4", "ipv6", "both"}

(* The slice of the state the service's rule functions work on.             *)
Store == [rows |-> rows, lastId |-> lastId, chain |-> chain]

(* A loop of the code: do for one element after the other (a fold from the  *)
(* left, as a recursive function so that it can be reasoned about).         *)
ForEach(do(_, _), start, list) ==
    LET after[i \in 0 .. Len(list)] ==
            IF i = 0 THEN start ELSE do(after[i - 1], list[i])
    IN after[Len(list)]

(* The parts of a row that make up a rule.                                  *)
Spec1(r) == [port |-> r.port, act |-> r.act, ver |-> r.ver]

----------------------------------------------------------------------------
(* The table.                                                               *)

repoCreateRule(st, r) ==
    LET id == st.lastId + 1
        row == [port |-> r.port, act |-> r.act, ver |-> r.ver,
                on |-> TRUE, prio |-> 0]
    IN [st EXCEPT !.lastId = id,
                  !.rows = [i \in DOMAIN @ \cup {id} |->
                              IF i = id THEN row ELSE @[i]]]

repoUpdateRule(st, id, r) ==
    [st EXCEPT !.rows[id].port = r.port, !.rows[id].act = r.act,
               !.rows[id].ver = r.ver]

repoDeleteRule(st, id) ==
    [st EXCEPT !.rows = [i \in DOMAIN @ \ {id} |-> @[i]]]

repoSetEnabled(st, id, on) == [st EXCEPT !.rows[id].on = on]

GetRule(id) == rows[id]

(* ListRules: the ids by priority, then by id (the only such sequence).     *)
Before(a, b) == \/ rows[a].prio < rows[b].prio
                \/ rows[a].prio = rows[b].prio /\ a < b
ListRules == {ids \in SetToSeqs(DOMAIN rows) :
                  \A i, j \in DOMAIN ids : i < j => Before(ids[i], ids[j])}

SwapPriorities(a, b) ==
    rows' = [rows EXCEPT ![a].prio = rows[b].prio, ![b].prio = rows[a].prio]

----------------------------------------------------------------------------
(* The tool: the first of ufw, nft and iptables that is installed, found    *)
(* once.                                                                    *)
DetectTool == tool \in Tools

(* iptables keeps one chain per address family, nft (family      *)
(* inet, rules without a source) and ufw one for both.                      *)

FamiliesOf(r) == IF r.ver = "both" THEN <<"ipv4", "ipv6">> ELSE <<r.ver>>

iptablesTool(v) == IF tool = "iptables" THEN v ELSE "any"

Entry(r, v) == [port |-> r.port, act |-> r.act, fam |-> iptablesTool(v)]

(* ufw skips a rule it already has; the others append whatever they hold.   *)
applyUfwRule(c, e) == IF Contains(c, e) THEN c ELSE Append(c, e)
applyIptablesRule(c, e) == Append(c, e)
applyNftRule(c, e) == Append(c, e)

applyRuleForVersion(c, r, v) ==
    CASE tool = "ufw" -> applyUfwRule(c, Entry(r, v))
      [] tool = "nft" -> applyNftRule(c, Entry(r, v))
      [] tool = "iptables" -> applyIptablesRule(c, Entry(r, v))

(* n: how many of the rule's versions were applied before a command failed. *)
applyRule(st, r, n) ==
    LET first == applyRuleForVersion(st.chain, r, FamiliesOf(r)[1])
    IN CASE n = 0 -> st
         [] n = 1 -> [st EXCEPT !.chain = first]
         [] n = 2 -> [st EXCEPT !.chain = applyRuleForVersion(first, r, "ipv6")]
Applied(r, n) == n = Len(FamiliesOf(r))
Versioned(r) == 0 .. Len(FamiliesOf(r))

(* nft deletes every rule of the action whose text contains "dport <port>", *)
(* iptables and ufw the first equal one, and they fail when there is none.  *)
MatchesNft(e, r) ==
    /\ e.act = r.act
    /\ r.port = NoPort \/ e.port = r.port \/ <<r.port, e.port>> \in PrefixOf

removeNftRule(c, r) ==
    ForEach(LAMBDA kept, e : IF MatchesNft(e, r) THEN kept ELSE Append(kept, e), <<>>, c)
removeIptablesRule(c, e) == RemoveFirst(c, e)
removeUfwRule(c, e) == RemoveFirst(c, e)

removeRuleForVersion(c, r, v) ==
    CASE tool = "nft" -> [chain |-> removeNftRule(c, r), ok |-> TRUE]
      [] tool = "ufw" -> [chain |-> removeUfwRule(c, Entry(r, v)),
                          ok |-> Contains(c, Entry(r, v))]
      [] tool = "iptables" -> [chain |-> removeIptablesRule(c, Entry(r, v)),
                               ok |-> Contains(c, Entry(r, v))]

(* The result is that of the last version; the first one's error is logged. *)
removeRule(c, r) ==
    LET first == removeRuleForVersion(c, r, FamiliesOf(r)[1])
    IN IF r.ver = "both" THEN removeRuleForVersion(first.chain, r, "ipv6") ELSE first

----------------------------------------------------------------------------
(* The service's rule functions: the state after, and whether they report   *)
(* success.  n and ok say which of the commands they run succeed.           *)

CreateRule(st, r, n) ==
    LET saved == repoCreateRule(st, r)
        done  == applyRule(saved, r, n)
    IN IF Applied(r, n) THEN done ELSE repoDeleteRule(done, saved.lastId)

UpdateRule(st, id, r, n, ok) ==
    LET old     == st.rows[id]
        removed == IF old.on /\ ok
                   THEN [st EXCEPT !.chain = removeRule(@, Spec1(old)).chain]
                   ELSE st
        updated == repoUpdateRule(removed, id, r)
    IN IF old.on THEN applyRule(updated, r, n) ELSE updated

DeleteRule(st, id, ok) ==
    LET gone == IF ok THEN [st EXCEPT !.chain = removeRule(@, Spec1(st.rows[id])).chain]
                ELSE st
    IN repoDeleteRule(gone, id)

EnableRule(st, id, n) ==
    LET r == Spec1(st.rows[id])
        done == applyRule(st, r, n)
    IN IF Applied(r, n) THEN repoSetEnabled(done, id, TRUE) ELSE done

DisableRule(st, id, ok) ==
    LET res == removeRule(st.chain, Spec1(st.rows[id]))
    IN CASE ~ok     -> st
         [] ok /\ ~res.ok -> [st EXCEPT !.chain = res.chain]
         [] ok /\ res.ok  -> repoSetEnabled([st EXCEPT !.chain = res.chain], id, FALSE)

(* Ranges are looked up port by port; a rule without a port is never        *)
(* protected.                                                               *)
IsProtectedPort(p) == p \in Protected

(* Bug variant: only REJECT is seen as blocking.                            *)
BlocksRejectOnly(r) == r.act = "REJECT" /\ IsProtectedPort(r.port)

(* isProtectedPort of the handlers: what would block a protected port.      *)
Blocks(r) == r.act # "ACCEPT" /\ r.port # NoPort /\ IsProtectedPort(r.port)

(* The fields a request may carry.                                          *)
ValidSpec(r) == r.act \in {"ACCEPT", "DROP", "REJECT"} /\ r.ver \in Versions

(* What the panel reads back from the tool, and a listed rule as the        *)
(* parsers give it.                                                         *)
GetStatus == [enabled |-> tool = "iptables" \/ active, defaultIn |-> policy]
GetSystemRules == ToSet(chain)
ParsedRule(e) == [port |-> e.port, act |-> e.act,
                  ver |-> IF e.fam = "ipv6" THEN "ipv6" ELSE "ipv4"]

----------------------------------------------------------------------------
(* One request.  Fails(b) charges a failing command to the fault budget.    *)

Fails(b) == IF b THEN faults' = faults + 1 /\ faults < MaxFaults
            ELSE UNCHANGED faults

Becomes(st) ==
    /\ rows' = st.rows /\ lastId' = st.lastId /\ chain' = st.chain
    /\ Len(st.chain) <= MaxChain

Untouched == UNCHANGED <<tool, policy, checks>>

(* Applying an nft rule creates the table when it is missing.               *)
TableMade == active' = (active \/ tool = "nft")

HCreateRule ==
    \E r \in Specs : \E n \in Versioned(r) :
        /\ GetStatus.enabled
        /\ ValidSpec(r) /\ ~Blocks(r)
        /\ lastId < MaxId
        /\ Becomes(CreateRule(Store, r, n))
        /\ Fails(~Applied(r, n))
        /\ TableMade /\ Untouched

HUpdateRule ==
    \E id \in DOMAIN rows, r \in Specs, ok \in BOOLEAN : \E n \in Versioned(r) :
        /\ ValidSpec(r) /\ ~Blocks(r)
        /\ Becomes(UpdateRule(Store, id, r, n, ok))
        /\ ~ok => Applied(r, n)
        /\ Fails(~ok \/ ~Applied(r, n))
        /\ active' = (active \/ (tool = "nft" /\ rows[id].on))
        /\ Untouched

HDeleteRule ==
    \E id \in DOMAIN rows, ok \in BOOLEAN :
        /\ Becomes(DeleteRule(Store, id, ok))
        /\ Fails(~ok)
        /\ UNCHANGED active /\ Untouched

HEnableRule ==
    \E id \in DOMAIN rows : \E n \in Versioned(rows[id]) :
        /\ GetStatus.enabled
        /\ ~Blocks(GetRule(id))
        /\ Becomes(EnableRule(Store, id, n))
        /\ Fails(~Applied(rows[id], n))
        /\ TableMade /\ Untouched

HDisableRule ==
    \E id \in DOMAIN rows, ok \in BOOLEAN :
        /\ Becomes(DisableRule(Store, id, ok))
        /\ Fails(~ok)
        /\ UNCHANGED active /\ Untouched

(* Moving a rule swaps its priority with its neighbour's in the list.       *)
Move(id, other) ==
    /\ SwapPriorities(id, other)
    /\ UNCHANGED <<lastId, chain, active, faults>> /\ Untouched

MoveRuleUp ==
    \E ids \in ListRules : \E i \in 2 .. Len(ids) : Move(ids[i], ids[i - 1])

MoveRuleDown ==
    \E ids \in ListRules : \E i \in 1 .. Len(ids) - 1 : Move(ids[i], ids[i + 1])

(* The bulk requests go through the ids in the order given; one that fails  *)
(* does not stop the rest.                                                  *)
IdLists == UNION {SetToSeqs(S) : S \in SUBSET DOMAIN rows}

BulkEnableRules ==
    \E ids \in IdLists :
        /\ GetStatus.enabled
        /\ Becomes(ForEach(LAMBDA st, id :
               IF Blocks(st.rows[id]) THEN st
               ELSE EnableRule(st, id, Len(FamiliesOf(st.rows[id]))), Store, ids))
        /\ TableMade /\ UNCHANGED faults /\ Untouched

BulkDisableRules ==
    \E ids \in IdLists :
        /\ Becomes(ForEach(LAMBDA st, id : DisableRule(st, id, TRUE), Store, ids))
        /\ UNCHANGED <<active, faults>> /\ Untouched

BulkDeleteRules ==
    \E ids \in IdLists :
        /\ Becomes(ForEach(LAMBDA st, id : DeleteRule(st, id, TRUE), Store, ids))
        /\ UNCHANGED <<active, faults>> /\ Untouched

(* A rule listed from the tool is removed behind the table's back, unless   *)
(* it accepts a protected port.                                             *)
DeleteSystemRule ==
    \E e \in GetSystemRules :
        LET r == ParsedRule(e)
        IN /\ ~(e.act = "ACCEPT" /\ IsProtectedPort(e.port))
           /\ chain' = removeRule(chain, r).chain
           /\ UNCHANGED <<rows, lastId, active, faults>> /\ Untouched

(* An import is a run of CreateRule over the rules of the file that pass    *)
(* the checks; it does not ask whether the firewall is enabled.             *)
ImportRules ==
    \E n \in 1 .. 2 : \E file \in [1 .. n -> Specs] :
        LET good(r) == ValidSpec(r) /\ ~Blocks(r)
        IN /\ Becomes(ForEach(LAMBDA st, r :
                  IF good(r) THEN CreateRule(st, r, Len(FamiliesOf(r))) ELSE st,
                  Store, file))
           /\ lastId' <= MaxId
           /\ active' = (active \/ (tool = "nft" /\ \E i \in 1 .. n : good(file[i])))
           /\ UNCHANGED faults /\ Untouched

(* A template is one of ten fixed IPv4 rules.                               *)
ApplyTemplate ==
    \E r \in {s \in Specs : s.ver = "ipv4"} : \E n \in Versioned(r) :
        /\ ~Blocks(r)
        /\ lastId < MaxId
        /\ Becomes(CreateRule(Store, r, n))
        /\ Fails(~Applied(r, n))
        /\ TableMade /\ Untouched

(* Enabling re-applies every enabled row, except with ufw, which kept them. *)
EnableFirewall ==
    /\ IF tool = "ufw" THEN UNCHANGED <<rows, lastId, chain>>
       ELSE \E ids \in ListRules : Becomes(ForEach(LAMBDA st, id :
                IF rows[id].on THEN applyRule(st, Spec1(rows[id]), Len(FamiliesOf(rows[id])))
                ELSE st, Store, ids))
    /\ active' = TRUE
    /\ UNCHANGED <<tool, policy, checks, faults>>

(* Disabling flushes nft and iptables, iptables after opening its policy.   *)
DisableFirewall ==
    /\ active' = FALSE
    /\ chain' = IF tool = "ufw" THEN chain ELSE <<>>
    /\ policy' = IF tool = "ufw" THEN policy ELSE "ACCEPT"
    /\ UNCHANGED <<tool, rows, lastId, checks, faults>>

----------------------------------------------------------------------------
(* The default policy of INPUT.                                             *)

(* A line that holds "tcp dport <port>" and the action: a longer port that  *)
(* begins with this one matches as well.                                    *)
hasAcceptRuleForPort(c, p) ==
    \E i \in DOMAIN c : /\ c[i].act = "ACCEPT"
                        /\ c[i].port = p \/ <<p, c[i].port>> \in PrefixOf
                        /\ c[i].fam # "ipv6"

addAcceptRuleForPort(c, p) ==
    LET e(fam) == [port |-> p, act |-> "ACCEPT", fam |-> fam]
    IN CASE tool = "iptables" -> <<e("ipv6"), e("ipv4")>> \o c
         [] tool = "nft" -> Append(c, e("any"))
         [] tool = "ufw" -> applyUfwRule(c, e("any"))

(* ok: the tool lists its rules.  When it does not, the port is skipped.    *)
ensureProtectedPortsBeforeDrop(c, ok) ==
    ForEach(LAMBDA acc, p : IF ~ok \/ hasAcceptRuleForPort(acc, p) THEN acc
                            ELSE addAcceptRuleForPort(acc, p),
            c, SetToSeq(Protected))

(* Set the policy with the tool; nft makes the table first.                 *)
ApplyDefaultPolicy(p) == policy' = p /\ active' = (active \/ tool = "nft")

(* The verification a DROP starts remembers the policy that was in force.   *)
Policed(p, ok, pending) ==
    /\ chain' = IF p = "DROP" THEN ensureProtectedPortsBeforeDrop(chain, ok) ELSE chain
    /\ Len(chain') <= MaxChain
    /\ ApplyDefaultPolicy(p)
    /\ checks' = IF p = "DROP" THEN [pending EXCEPT ![policy] = @ + 1] ELSE pending
    /\ \A o \in Policies : checks'[o] <= MaxChecks
    /\ UNCHANGED <<tool, rows, lastId>>

SetDefaultPolicy ==
    \E p \in Policies, ok \in BOOLEAN :
        /\ ~ok => p = "DROP"
        /\ Policed(p, ok, checks)
        /\ Fails(~ok)

(* Does INPUT let a new connection to port p through over IPv4?             *)
Accepted(p) ==
    LET hits == {i \in DOMAIN chain : /\ chain[i].port \in {p, NoPort}
                                      /\ chain[i].fam # "ipv6"}
    IN IF hits = {} THEN policy = "ACCEPT"
       ELSE chain[CHOOSE i \in hits : \A j \in hits : i <= j].act = "ACCEPT"

Filtering == tool # "ufw" \/ active
Reachable(p) == Filtering => Accepted(p)

(* Bug variant: the result of the dial is only logged.                      *)
verifyOnly(old) ==
    /\ checks[old] > 0
    /\ checks' = [checks EXCEPT ![old] = @ - 1]
    /\ UNCHANGED <<tool, rows, lastId, chain, active, policy, faults>>

(* Three seconds later the goroutine dials the protected ports.  The dial   *)
(* may fail for other reasons (nothing listens); it fails when the port is  *)
(* blocked, and then the remembered policy is set as a request would.       *)
verifyAndRollback(old) ==
    \E dialed \in BOOLEAN :
        LET rest == [checks EXCEPT ![old] = @ - 1]
        IN /\ checks[old] > 0
           /\ dialed => \A p \in Protected : Reachable(p)
           /\ IF dialed
              THEN checks' = rest /\ UNCHANGED <<tool, rows, lastId, chain, active, policy>>
              ELSE Policed(old, TRUE, rest)
           /\ UNCHANGED faults

----------------------------------------------------------------------------
Init ==
    /\ DetectTool
    /\ rows = <<>> /\ lastId = 0 /\ chain = <<>>
    /\ active = FALSE /\ policy = "ACCEPT"
    /\ checks = [o \in Policies |-> 0]
    /\ faults = 0

Next ==
    \/ HCreateRule \/ HUpdateRule \/ HDeleteRule \/ HEnableRule \/ HDisableRule
    \/ MoveRuleUp \/ MoveRuleDown
    \/ BulkEnableRules \/ BulkDisableRules \/ BulkDeleteRules
    \/ DeleteSystemRule \/ ImportRules \/ ApplyTemplate
    \/ EnableFirewall \/ DisableFirewall
    \/ SetDefaultPolicy
    \/ \E old \in Policies : verifyAndRollback(old)

----------------------------------------------------------------------------
TypeOK ==
    /\ tool \in Tools /\ active \in BOOLEAN /\ policy \in Policies
    /\ lastId \in 0 .. MaxId /\ faults \in 0 .. MaxFaults
    /\ DOMAIN rows \subseteq 1 .. lastId
    /\ \A id \in DOMAIN rows : Spec1(rows[id]) \in Specs
    /\ Len(chain) <= MaxChain
    /\ checks \in [Policies -> 0 .. MaxChecks]

(* No sequence of requests (create, update, enable, import, template, bulk, *)
(* enabling the firewall) installs a rule that refuses a protected port:    *)
(* each handler checks the rule it is given, and none re-installs another.  *)
NeverBlocksProtected ==
    \A i \in DOMAIN chain : chain[i].port \in Protected => chain[i].act = "ACCEPT"

(* The policy keeps the administrator out.                                  *)
CutOff == policy = "DROP" /\ \E p \in Protected : ~Reachable(p)

(* A DROP policy that cut off a protected port while the open policy is     *)
(* remembered by a waiting verification does not last: the port is          *)
(* reachable again.                                                         *)
LockoutRolledBack == (CutOff /\ checks["ACCEPT"] > 0) ~> ~CutOff
=============================================================================
