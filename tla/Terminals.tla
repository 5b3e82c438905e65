----------------------------- MODULE Terminals -----------------------------
(* Web terminals (internal/domain/terminal).  A websocket connection makes  *)
(* a session with a shell on a PTY; a read loop queues the shell's output,  *)
(* a forwarder and a ping goroutine serve the connection, and one loop for  *)
(* all sessions ends those that are idle.  The manager's lock is held while *)
(* a session's own lock is waited for; a write to the PTY holds the latter  *)
(* for as long as the program in the terminal does not read.                *)
EXTENDS Integers, FiniteSets

CONSTANTS
    Conns,          \* connections; each makes one session, with a fresh id
    None, Idler,    \* not connections: holders of the manager's lock
    MaxSessions,    \* MaxTerminalSessions
    SendChanSize

TerminalBounds ==
    /\ SendChanSize \in Nat /\ MaxSessions \in Nat
    /\ None \notin Conns /\ Idler \notin Conns

VARIABLES
    sessions,       \* Manager.sessions: the connections whose session is registered
    mu,             \* holder of Manager.mu
    smu,            \* sessions whose lock a write to the PTY holds
    closed,         \* sessions with closed set (and done closed)
    shell,          \* "none" | "runs" | "exited" (not waited for) | "reaped"
    reader,         \* sessions whose readLoop runs
    queue,          \* length of Send
    idle,           \* sessions without input for idleTimeout
    toClose,        \* what the idle loop has found
    conn,           \* "none" | "created" | "open" | "closing" | "closed" | "gone"
    browser,        \* "there" | "left" | "lost" (no close frame arrives)
    cancelled,      \* connections whose ctx is cancelled
    fwd             \* connections whose forwarder runs

sess == <<sessions, mu, smu, closed, shell, reader, queue, idle, toClose>>
link == <<conn, browser, cancelled, fwd>>
vars == <<sess, link>>

----------------------------------------------------------------------------
(* Session.Close, when the session's lock is free.  It kills and waits.     *)
Close(ks) ==
    /\ ks \cap smu = {}
    /\ closed' = closed \cup ks
    /\ shell' = [k \in Conns |-> IF k \in ks \ closed THEN "reaped" ELSE shell[k]]

(* Under the manager's lock, at the limit or when the PTY cannot be made    *)
(* the request fails.                                                       *)
CreateSession(k, starts) ==
    /\ mu = None
    /\ IF Cardinality(sessions) < MaxSessions /\ starts
       THEN /\ sessions' = sessions \cup {k} /\ reader' = reader \cup {k}
            /\ shell' = [shell EXCEPT ![k] = "runs"]
            /\ conn' = [conn EXCEPT ![k] = "created"]
       ELSE conn' = [conn EXCEPT ![k] = "gone"] /\ UNCHANGED <<sessions, reader, shell>>

(* CloseSession waits for the manager's lock and, holding it, for the       *)
(* session's.                                                               *)
CloseSessionLocks(k) ==
    /\ conn[k] = "closing" /\ mu = None
    /\ IF k \in sessions THEN mu' = k /\ UNCHANGED conn
       ELSE conn' = [conn EXCEPT ![k] = "closed"] /\ UNCHANGED mu
    /\ UNCHANGED <<sessions, smu, closed, shell, reader, queue, idle, toClose, browser, cancelled, fwd>>

CloseSession(k) ==
    /\ mu = k /\ Close({k})
    /\ sessions' = sessions \ {k} /\ mu' = None
    /\ conn' = [conn EXCEPT ![k] = "closed"]
    /\ UNCHANGED <<smu, reader, queue, idle, toClose, browser, cancelled, fwd>>

(* The idle loop reads the times of all sessions under the lock ...         *)
IdleScanLocks ==
    /\ mu = None /\ toClose = {} /\ mu' = Idler
    /\ UNCHANGED <<sessions, smu, closed, shell, reader, queue, idle, toClose, link>>

IdleScan ==
    /\ mu = Idler /\ toClose = {} /\ sessions \cap smu = {}
    /\ toClose' = {k \in sessions \ closed : k \in idle} /\ mu' = None
    /\ UNCHANGED <<sessions, smu, closed, shell, reader, queue, idle, link>>

(* Bug variant: the idle loop drops a session without closing it.           *)
idleTimeoutLoopDrops ==
    /\ toClose # {} /\ mu = None
    /\ sessions' = sessions \ toClose /\ toClose' = {}
    /\ UNCHANGED <<mu, smu, closed, shell, reader, queue, idle, link>>

(* ... and, after unlocking and locking again, closes what it found.        *)
idleTimeoutLoop ==
    /\ toClose # {} /\ mu = None
    /\ Close(toClose \cap sessions)
    /\ sessions' = sessions \ toClose /\ toClose' = {}
    /\ UNCHANGED <<mu, smu, reader, queue, idle, link>>

----------------------------------------------------------------------------
(* Output goes to the queue, or is dropped when the queue is full; at the   *)
(* end of the shell or of the PTY so does a last message.                   *)
readLoop(k) ==
    /\ k \in reader
    /\ queue' = [queue EXCEPT ![k] = IF @ < SendChanSize THEN @ + 1 ELSE @]
    /\ \/ shell[k] = "runs" /\ UNCHANGED reader
       \/ shell[k] # "runs" /\ reader' = reader \ {k}
    /\ UNCHANGED <<sessions, mu, smu, closed, shell, idle, toClose, link>>

(* A key press: the write takes the session's lock ...                      *)
HandleInput(k) ==
    /\ conn[k] = "open" /\ browser[k] = "there" /\ k \notin cancelled /\ k \notin smu
    /\ idle' = idle \ {k}
    /\ smu' = IF k \in closed THEN smu ELSE smu \cup {k}
    /\ UNCHANGED <<sessions, mu, closed, shell, reader, queue, toClose, link>>

(* ... until the program in the terminal has taken it.                      *)
Write(k) ==
    /\ k \in smu /\ smu' = smu \ {k}
    /\ UNCHANGED <<sessions, mu, closed, shell, reader, queue, idle, toClose, link>>

ShellExits(k) ==
    /\ shell[k] = "runs" /\ shell' = [shell EXCEPT ![k] = "exited"]
    /\ UNCHANGED <<sessions, mu, smu, closed, reader, queue, idle, toClose, link>>

TimePasses(k) ==
    /\ k \in sessions /\ idle' = idle \cup {k}
    /\ UNCHANGED <<sessions, mu, smu, closed, shell, reader, queue, toClose, link>>

----------------------------------------------------------------------------
(* The request: session, then websocket, then the loop that reads it.       *)
HandleWebSocket(k) ==
    \/ /\ conn[k] = "none" /\ \E starts \in BOOLEAN : CreateSession(k, starts)
       /\ UNCHANGED <<mu, smu, closed, queue, idle, toClose, browser, cancelled, fwd>>
    \/ /\ conn[k] = "created"
       /\ \/ conn' = [conn EXCEPT ![k] = "closing"] /\ UNCHANGED fwd
          \/ conn' = [conn EXCEPT ![k] = "open"] /\ fwd' = fwd \cup {k}
       /\ UNCHANGED <<sess, browser, cancelled>>

(* Reading fails when the browser has left or the context is cancelled.     *)
ReadEnds(k) ==
    /\ conn[k] = "open" /\ k \notin smu /\ (browser[k] = "left" \/ k \in cancelled)
    /\ conn' = [conn EXCEPT ![k] = "closing"] /\ cancelled' = cancelled \cup {k}
    /\ UNCHANGED <<sess, browser, fwd>>

(* The request ends when its forwarder has.                                 *)
Returns(k) ==
    /\ conn[k] = "closed" /\ k \notin fwd
    /\ conn' = [conn EXCEPT ![k] = "gone"]
    /\ UNCHANGED <<sess, browser, cancelled, fwd>>

Forward(k) ==
    /\ k \in fwd
    /\ \/ /\ queue[k] > 0 /\ queue' = [queue EXCEPT ![k] = @ - 1]
          /\ \/ browser[k] = "there" /\ UNCHANGED <<fwd, cancelled>>
             \/ browser[k] # "there" /\ fwd' = fwd \ {k} /\ cancelled' = cancelled \cup {k}
       \/ /\ k \in closed \cup cancelled
          /\ fwd' = fwd \ {k} /\ cancelled' = cancelled \cup {k} /\ UNCHANGED queue
    /\ UNCHANGED <<sessions, mu, smu, closed, shell, reader, idle, toClose, conn, browser>>

(* Bug variant: a ping that fails ends only the ping goroutine.             *)
PingOnly(k) ==
    /\ conn[k] = "open" /\ browser[k] # "there" /\ k \notin cancelled
    /\ UNCHANGED vars

Ping(k) ==
    /\ conn[k] = "open" /\ browser[k] # "there" /\ k \notin cancelled
    /\ cancelled' = cancelled \cup {k}
    /\ UNCHANGED <<sess, conn, browser, fwd>>

BrowserGoes(k) ==
    /\ conn[k] = "open" /\ browser[k] = "there"
    /\ \E how \in {"left", "lost"} : browser' = [browser EXCEPT ![k] = how]
    /\ UNCHANGED <<sess, conn, cancelled, fwd>>

----------------------------------------------------------------------------
Init ==
    /\ sessions = {} /\ mu = None /\ smu = {} /\ closed = {} /\ shell = [k \in Conns |-> "none"]
    /\ reader = {} /\ queue = [k \in Conns |-> 0] /\ idle = {} /\ toClose = {}
    /\ conn = [k \in Conns |-> "none"] /\ browser = [k \in Conns |-> "there"]
    /\ cancelled = {} /\ fwd = {}

(* What goes on by itself once a connection exists.                         *)
Serve(k) ==
    \/ CloseSessionLocks(k) \/ CloseSession(k) \/ readLoop(k) \/ Write(k)
    \/ ReadEnds(k) \/ Returns(k) \/ Forward(k) \/ Ping(k)

Next ==
    \/ \E k \in Conns :
        Serve(k) \/ HandleWebSocket(k) \/ HandleInput(k) \/ ShellExits(k) \/ TimePasses(k) \/ BrowserGoes(k)
    \/ IdleScanLocks \/ IdleScan \/ idleTimeoutLoop

(* Locks are fair in turn, goroutines are scheduled, programs in terminals  *)
(* read what is typed.                                                      *)
Fairness ==
    /\ \A k \in Conns :
        /\ SF_vars(CloseSessionLocks(k)) /\ SF_vars(CloseSession(k))
        /\ WF_vars(Write(k)) /\ WF_vars(ReadEnds(k)) /\ WF_vars(Ping(k))
    /\ WF_vars(IdleScan) /\ SF_vars(idleTimeoutLoop)

Spec == Init /\ [][Next]_vars
FairSpec == Spec /\ Fairness

----------------------------------------------------------------------------
TypeOK ==
    /\ sessions \subseteq Conns /\ mu \in Conns \cup {None, Idler} /\ smu \subseteq Conns
    /\ shell \in [Conns -> {"none", "runs", "exited", "reaped"}]
    /\ queue \in [Conns -> 0..SendChanSize]
    /\ conn \in [Conns -> {"none", "created", "open", "closing", "closed", "gone"}]
    /\ browser \in [Conns -> {"there", "left", "lost"}]

(* A shell that was not waited for belongs to a registered session, so that *)
(* it counts for the limit and the idle loop finds it, however the end of   *)
(* the connection and the idle loop meet (CloseSession, idleTimeoutLoop).   *)
NoOrphanShell ==
    \A k \in Conns : shell[k] \in {"runs", "exited"} => k \in sessions

(* The shell of a browser that went away is ended and waited for, also when *)
(* no close frame arrived (HandleWebSocket: ping, cleanup sequence).        *)
GoneIsCleaned ==
    \A k \in Conns : browser[k] # "there" ~> shell[k] = "reaped" /\ k \notin sessions

(* The idle loop ends only sessions that are idle (idleTimeoutLoop).        *)
EndsOnlyIdle ==
    \A k \in toClose \cap sessions : k \in idle
=============================================================================
