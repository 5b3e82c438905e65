----------------------------- MODULE SshSessions -----------------------------
(* The SSH sessions of the host and the record of logins                    *)
(* (internal/domain/ssh/service.go).  A process is a session with a         *)
(* terminal, one without, or no session at all; a number that is free again *)
(* may be given to a new process.                                           *)
EXTENDS Naturals, Sequences

CONSTANTS
    Pids,         \* process numbers
    Limit,        \* records asked for
    MaxLog        \* bound: lines of the log

VARIABLES
    procs,        \* number -> "tty", "plain" or "other"
    kill,         \* the number a request has verified, 0: none
    verified,     \* what the process was then
    killed,       \* what the last process a request ended was, and was verified as
    log,          \* lines of sshd's log: "accepted", "failed" or "noise"
    journal       \* journalctl answers

LoginBounds == Pids \subseteq Nat /\ Limit \in Nat /\ MaxLog \in Nat

vars == <<procs, kill, verified, killed, log, journal>>

----------------------------------------------------------------------------
(* who shows terminals; the text after "pid=" in ss still holds the "=", so *)
(* no line of it gives a number; ps shows every session process.            *)
parseWhoLine(p) == procs[p] = "tty"
parseSSLine(p) == FALSE
parsePSLine(p) == procs[p] \in {"tty", "plain"}
GetSessions == {p \in DOMAIN procs : parseWhoLine(p) \/ parseSSLine(p) \/ parsePSLine(p)}

KillVerify(p) ==
    /\ kill = 0 /\ p > 1 /\ p \in GetSessions
    /\ kill' = p /\ verified' = procs[p]
    /\ UNCHANGED <<procs, killed, log, journal>>

(* The signal goes to whatever has the number by then.                      *)
KillSignal ==
    /\ kill # 0 /\ kill' = 0
    /\ procs' = [q \in DOMAIN procs \ {kill} |-> procs[q]]
    /\ killed' = IF kill \in DOMAIN procs THEN <<procs[kill], verified>> ELSE killed
    /\ UNCHANGED <<verified, log, journal>>

KillSession == \E p \in Pids : KillVerify(p)

----------------------------------------------------------------------------
(* The journal gives its last lines, of which attempts are kept; the log    *)
(* file is read whole and the last attempts are kept.                       *)
LastOf(s, n) == SubSeq(s, IF Len(s) > n THEN Len(s) - n + 1 ELSE 1, Len(s))
Those(list, keep(_)) ==
    LET kept[i \in 0 .. Len(list)] ==
            IF i = 0 THEN <<>>
            ELSE IF keep(list[i]) THEN Append(kept[i - 1], list[i]) ELSE kept[i - 1]
    IN kept[Len(list)]
parseSSHLogLine(l) == l \in {"accepted", "failed"}
(* Bug variant: the oldest attempts of the file are kept.                   *)
getLoginHistoryOldest == LET all == Those(log, parseSSHLogLine)
                         IN SubSeq(all, 1, IF Len(all) > Limit THEN Limit ELSE Len(all))

getLoginHistoryFromAuthLog == LastOf(Those(log, parseSSHLogLine), Limit)
GetLoginHistory == IF journal THEN Those(LastOf(log, Limit), parseSSHLogLine)
                   ELSE getLoginHistoryFromAuthLog

----------------------------------------------------------------------------
ProcStarts(p) ==
    /\ p \notin DOMAIN procs
    /\ \E k \in {"tty", "plain", "other"} :
           procs' = [q \in DOMAIN procs \cup {p} |-> IF q = p THEN k ELSE procs[q]]
    /\ UNCHANGED <<kill, verified, killed, log, journal>>
ProcEnds(p) ==
    /\ p \in DOMAIN procs
    /\ procs' = [q \in DOMAIN procs \ {p} |-> procs[q]]
    /\ UNCHANGED <<kill, verified, killed, log, journal>>
LogLine ==
    /\ Len(log) < MaxLog
    /\ \E l \in {"accepted", "failed", "noise"} : log' = Append(log, l)
    /\ UNCHANGED <<procs, kill, verified, killed, journal>>

Init ==
    /\ procs = [p \in {} |-> "other"] /\ kill = 0 /\ verified = "tty" /\ killed = <<"tty", "tty">>
    /\ log = <<>> /\ journal \in BOOLEAN

Next == \/ KillSession \/ KillSignal \/ LogLine
        \/ \E p \in Pids : ProcStarts(p) \/ ProcEnds(p)

----------------------------------------------------------------------------
TypeOK ==
    /\ DOMAIN procs \subseteq Pids /\ kill \in Pids \cup {0} /\ Len(log) <= MaxLog
    /\ \A p \in DOMAIN procs : procs[p] \in {"tty", "plain", "other"}

(* The history is made of the newest attempts, in their order, whichever    *)
(* source it comes from.                                                    *)
HistoryIsNewest ==
    LET all == Those(log, parseSSHLogLine)
        got == GetLoginHistory
    IN Len(got) <= Limit /\ got = LastOf(all, Len(got))

(* The comment of KillSession: only a session is ended.  A number given to  *)
(* another process after the check is ended all the same.                   *)
EndsOnlySessions == killed[1] # "other"
=============================================================================
