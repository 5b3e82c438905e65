------------------------------- MODULE Alerts -------------------------------
(* Alert rules and the notifications they make (internal/domain/alert,      *)
(* notification, notify).  Each point that the monitor collects is held     *)
(* against the rules; a rule is numbered by its place in the list that the  *)
(* settings request sends, and its state is kept by that number.            *)
EXTENDS Integers, Sequences, FiniteSets

CONSTANTS
    Metrics,
    RuleLists,      \* lists of rules a settings request may send: sequences of metrics
    MaxRules,       \* bound: rules of a list
    Duration,       \* metric -> how long it must be above its threshold
    Cooldown,       \* cooldownDuration
    Hour,           \* span in which a like notification is not made again
    MaxClock        \* bound: points collected

VARIABLES
    rules, states, cooldowns,
    rows,           \* notifications: [rule, at, read]
    clock,
    rose,           \* metric -> point at which it went above, 0 when below (history)
    edited          \* point after which the rules were last replaced (history)

vars == <<rules, states, cooldowns, rows, clock, rose, edited>>

(* What the proofs assume of the constants.                                 *)
AlertBounds ==
    /\ {MaxRules, Cooldown, Hour, MaxClock} \subseteq Nat /\ Duration \in [Metrics -> Nat]
    /\ \A l \in RuleLists : l \in Seq(Metrics) /\ Len(l) <= MaxRules

Ids == 1..MaxRules
Fresh == [first |-> 0, triggered |-> FALSE]

----------------------------------------------------------------------------
(* Bug variant: a notification that was read does not count.                *)
CreateIfNotExistsUnread(names) ==
    {n \in names : ~\E r \in rows : r.rule = n /\ ~r.read /\ r.at > clock + 1 - Hour}

(* The notifications of one point: of the rules that fire, those without a  *)
(* like notification in the last hour.                                      *)
CreateIfNotExists(names) ==
    {n \in names : ~\E r \in rows : r.rule = n /\ r.at > clock + 1 - Hour}

(* One row each.                                                            *)
sendAlert(names) ==
    rows' = rows \cup {[rule |-> n, at |-> clock + 1, read |-> FALSE] : n \in CreateIfNotExists(names)}

(* The replaced list keeps the state of every number that it still has.     *)
SetRules(list) ==
    /\ rules' = list
    /\ states' = [i \in Ids |-> IF i <= Len(list) THEN states[i] ELSE Fresh]

(* What a point with the metrics of high above their thresholds does.       *)
FirstAbove(i) == IF states[i].first = 0 THEN clock + 1 ELSE states[i].first
Fires(i, high) ==
    /\ rules[i] \in high /\ ~states[i].triggered
    /\ clock + 1 - FirstAbove(i) >= Duration[rules[i]]
    /\ cooldowns[i] = 0 \/ clock + 1 - cooldowns[i] >= Cooldown

(* Bug variant: a rule that fired stays so.                                 *)
NewStateKeeping(i, high) ==
    IF rules[i] \in high
    THEN [first |-> FirstAbove(i), triggered |-> states[i].triggered \/ Fires(i, high)]
    ELSE [states[i] EXCEPT !.first = 0]

NewState(i, high) ==
    IF rules[i] \in high
    THEN [first |-> FirstAbove(i), triggered |-> states[i].triggered \/ Fires(i, high)]
    ELSE Fresh

Evaluate(high) ==
    LET firing == {i \in DOMAIN rules : Fires(i, high)}
    IN /\ clock < MaxClock /\ clock' = clock + 1
       /\ states' = [i \in Ids |-> IF i \in DOMAIN rules THEN NewState(i, high) ELSE states[i]]
       /\ cooldowns' = [i \in Ids |-> IF i \in firing THEN clock + 1 ELSE cooldowns[i]]
       /\ sendAlert({rules[i] : i \in firing})
       /\ rose' = [m \in Metrics |-> IF m \notin high THEN 0
                                     ELSE IF rose[m] = 0 THEN clock + 1 ELSE rose[m]]
       /\ UNCHANGED <<rules, edited>>

----------------------------------------------------------------------------
(* Requests.                                                                *)
UpdateAlertRules(list) ==
    /\ list # rules /\ SetRules(list) /\ edited' = clock
    /\ UNCHANGED <<cooldowns, rows, clock, rose>>

MarkAsRead(r) ==
    /\ rows' = (rows \ {r}) \cup {[r EXCEPT !.read = TRUE]}
    /\ UNCHANGED <<rules, states, cooldowns, clock, rose, edited>>

MarkAllAsRead ==
    /\ rows' = {[r EXCEPT !.read = TRUE] : r \in rows}
    /\ UNCHANGED <<rules, states, cooldowns, clock, rose, edited>>

Delete(r) ==
    /\ rows' = rows \ {r}
    /\ UNCHANGED <<rules, states, cooldowns, clock, rose, edited>>

----------------------------------------------------------------------------
Init ==
    /\ rules \in RuleLists /\ states = [i \in Ids |-> Fresh] /\ cooldowns = [i \in Ids |-> 0]
    /\ rows = {} /\ clock = 0
    /\ rose = [m \in Metrics |-> 0] /\ edited = 0

Next ==
    \/ \E high \in SUBSET Metrics : Evaluate(high)
    \/ \E list \in RuleLists : UpdateAlertRules(list)
    \/ \E r \in rows : MarkAsRead(r) \/ Delete(r)
    \/ MarkAllAsRead

Spec == Init /\ [][Next]_vars

----------------------------------------------------------------------------
TypeOK ==
    /\ rules \in RuleLists /\ clock \in 0..MaxClock
    /\ \A i \in Ids : states[i].first \in 0..clock /\ states[i].triggered \in BOOLEAN
    /\ \A r \in rows : r.rule \in Metrics /\ r.at \in 1..clock

(* A metric that has stayed above its threshold for the rule's duration and *)
(* a cooldown has been alerted since it rose, also when it had been above   *)
(* and alerted before (Evaluate), provided that the rules were not replaced *)
(* since the last point before the rise.                                    *)
SustainedIsAlerted ==
    \A i \in DOMAIN rules :
        LET m == rules[i]
        IN rose[m] # 0 /\ edited + 1 < rose[m] /\ clock - rose[m] >= Duration[m] + Cooldown
               => cooldowns[i] >= rose[m]

(* A rule's notification is not repeated within the hour, whatever is read  *)
(* in between (CreateIfNotExists).                                          *)
OnePerHour ==
    \A r1, r2 \in rows : r1.rule = r2.rule /\ r1.at < r2.at => r2.at - r1.at >= Hour
=============================================================================
