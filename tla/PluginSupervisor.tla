-------------------------- MODULE PluginSupervisor --------------------------
(***************************************************************************)
(* The supervisor of one plugin, internal/plugin/supervisor.go: starting   *)
(* its process (EnsureRunning), watching its exit, restarting it after a   *)
(* crash (restartWithBackoff), checking its health (healthLoop), stopping  *)
(* it (StopPlugin) and the shutdown of the panel (StopAll).                *)
(*                                                                         *)
(* The threads that call EnsureRunning or StopPlugin are the requests of   *)
(* administrators and, for every process, the timer of its restart. An     *)
(* action ends where the code releases Supervisor.mu, writes the database  *)
(* or waits.                                                               *)
(***************************************************************************)
EXTENDS Naturals, FiniteSets

CONSTANTS Users,         \* the requests of administrators
          Shutdowns,     \* the shutdown of the panel, if the instance has one
          Procs,         \* the handles (*pfProcess); a pool, as Collect recycles them
          BreakerLimit,  \* the restarts after which restartWithBackoff gives up, 5
          FailThreshold, \* Health.FailThreshold of the manifest
          None

SupervisorAssumption ==
  /\ BreakerLimit \in Nat
  /\ FailThreshold \in Nat \ {0}
  /\ None \notin Procs
  /\ (Users \cup Shutdowns) \cap Procs = {}

VARIABLES
  slot,      \* Supervisor.procs[name]
  stopping,  \* Supervisor.stopping
  restarts,  \* backoffState.restarts
  life,      \* the operating system's process
  killed,    \* whether it has been sent a signal it cannot ignore
  exited,    \* whether pfProcess.exited is closed
  stopped,   \* pfProcess.stopped
  started,   \* pfProcess.started
  state,     \* pfProcess.state
  watch,     \* the control point of the exit watcher
  health,    \* the control point of healthLoop
  fails,     \* the counter of healthLoop
  pc,        \* the control point of a request or of a restart timer
  cur,       \* the process the thread works on
  pend       \* the status an actor has set in pfProcess.state and not yet in the database

procVars   == <<life, killed, exited, stopped, started, state>>
healthVars == <<health, fails>>
threadVars == <<pc, cur>>
vars == <<slot, stopping, restarts, procVars, watch, healthVars,
          threadVars, pend>>

Callers == Users \cup Shutdowns
Threads == Callers \cup Procs   \* p as a thread is the restart timer of p
Roles   == {"thread", "watch", "health"}
Actors  == ({"thread"} \X Threads) \cup ({"watch", "health"} \X Procs)
T(t) == <<"thread", t>>
W(p) == <<"watch", p>>
H(p) == <<"health", p>>

Status == {"registered", "starting", "running", "degraded", "stopped",
           "disabled", "error"}

TypeOK ==
  /\ slot \in Procs \cup {None}
  /\ stopping \in BOOLEAN
  /\ restarts \in Nat
  /\ life \in [Procs -> {"free", "created", "alive", "dead"}]
  /\ killed \in [Procs -> BOOLEAN]
  /\ exited \in [Procs -> BOOLEAN]
  /\ stopped \in [Procs -> BOOLEAN]
  /\ started \in [Procs -> BOOLEAN]
  /\ state \in [Procs -> Status \cup {None}]
  /\ watch \in [Procs -> {"none", "waiting", "exited", "restart", "end"}]
  /\ health \in [Procs -> {"none", "loop", "probing", "good", "end"}]
  /\ fails \in [Procs -> 0..(FailThreshold - 1)]
  /\ pc \in [Threads -> {"idle", "armed", "check", "spawn", "launch", "register",
                         "wait", "ready", "return", "stopall", "signal", "await",
                         "finish"}]
  /\ cur \in [Threads -> Procs \cup {None}]
  /\ pend \in [Actors -> Status \cup {None}]

Init ==
  /\ slot = None
  /\ stopping = FALSE
  /\ restarts = 0
  /\ life = [p \in Procs |-> "free"]
  /\ killed = [p \in Procs |-> FALSE]
  /\ exited = [p \in Procs |-> FALSE]
  /\ stopped = [p \in Procs |-> FALSE]
  /\ started = [p \in Procs |-> FALSE]
  /\ state = [p \in Procs |-> None]
  /\ watch = [p \in Procs |-> "none"]
  /\ health = [p \in Procs |-> "none"]
  /\ fails = [p \in Procs |-> 0]
  /\ pc = [t \in Threads |-> "idle"]
  /\ cur = [t \in Threads |-> None]
  /\ pend = [a \in Actors |-> None]

----------------------------------------------------------------------------
(* setState: the cached state decides, under its lock, whether the status  *)
(* is written; the write comes after the lock is released. The supervisor  *)
(* never reads the status column, so only the pending write is kept.       *)

SetState(a, p, s) ==
  IF state[p] = s
    THEN UNCHANGED <<state, pend>>
    ELSE /\ state' = [state EXCEPT ![p] = s]
         /\ pend' = [pend EXCEPT ![a] = s]

WriteStatus(a) ==
  /\ pend[a] # None
  /\ pend' = [pend EXCEPT ![a] = None]
  /\ UNCHANGED <<slot, stopping, restarts, procVars, watch, healthVars,
                 threadVars>>

\* The cancel function of the command's context kills the process.
CancelProcessNot(p) == killed
CancelProcess(p) == [killed EXCEPT ![p] = TRUE]

\* A thread goes on once its write is done.
At(t, point) == pc[t] = point /\ pend[T(t)] = None

Goto(t, point) == pc' = [pc EXCEPT ![t] = point]

Return(t) ==
  /\ pc' = [pc EXCEPT ![t] = "idle"]
  /\ cur' = [cur EXCEPT ![t] = None]

----------------------------------------------------------------------------
(* EnsureRunning, by a request or by a restart timer.                       *)

CallStart(u) ==
  /\ At(u, "idle")
  /\ Goto(u, "check")
  /\ UNCHANGED <<slot, stopping, restarts, procVars, watch, healthVars,
                 cur, pend>>

\* The test under Supervisor.mu: not while the panel stops, and nothing to
\* do for a plugin with a live process.
Present(p) == p # None /\ ~stopped[p] /\ ~exited[p]

MayStartAlways == ~Present(slot)
MayStart == ~stopping /\ ~Present(slot)

Check(t) ==
  /\ At(t, "check")
  /\ Goto(t, IF MayStart THEN "spawn" ELSE "idle")
  /\ UNCHANGED <<slot, stopping, restarts, procVars, watch, healthVars,
                 cur, pend>>

\* The socket directory or the executable is missing.
ExecMissing(t) ==
  /\ At(t, "spawn")
  /\ Return(t)
  /\ UNCHANGED <<slot, stopping, restarts, procVars, watch, healthVars,
                 pend>>

\* A new handle, and the status starting.
Create(t, p) ==
  /\ At(t, "spawn")
  /\ life[p] = "free"
  /\ life' = [life EXCEPT ![p] = "created"]
  /\ cur' = [cur EXCEPT ![t] = p]
  /\ SetState(T(t), p, "starting")
  /\ Goto(t, "launch")
  /\ UNCHANGED <<slot, stopping, restarts, killed, exited, stopped, started,
                 watch, healthVars>>

\* cmd.Start succeeds ...
Launch(t) ==
  /\ At(t, "launch")
  /\ life' = [life EXCEPT ![cur[t]] = "alive"]
  /\ Goto(t, "register")
  /\ UNCHANGED <<slot, stopping, restarts, killed, exited, stopped, started,
                 state, watch, healthVars, cur, pend>>

\* ... or fails.
LaunchFails(t) ==
  /\ At(t, "launch")
  /\ life' = [life EXCEPT ![cur[t]] = "dead"]
  /\ SetState(T(t), cur[t], "error")
  /\ watch' = [watch EXCEPT ![cur[t]] = "end"]
  /\ health' = [health EXCEPT ![cur[t]] = "end"]
  /\ Goto(t, "finish")
  /\ UNCHANGED <<slot, stopping, restarts, killed, exited, stopped, started,
                 fails, cur>>

\* The process is registered, whatever is registered by now, and watched.
Register(t) ==
  /\ At(t, "register")
  /\ slot' = cur[t]
  /\ watch' = [watch EXCEPT ![cur[t]] = "waiting"]
  /\ Goto(t, "wait")
  /\ UNCHANGED <<stopping, restarts, procVars, healthVars, cur, pend>>

\* The loop that waits for the socket and a health answer: the answer comes ...
Healthy(t) ==
  /\ At(t, "wait")
  /\ life[cur[t]] = "alive"
  /\ started' = [started EXCEPT ![cur[t]] = TRUE]
  /\ restarts' = 0
  /\ Goto(t, "ready")
  /\ UNCHANGED <<slot, stopping, life, killed, exited, stopped, state,
                 watch, healthVars, cur, pend>>

\* ... or the process exits or startup_timeout is over (cancel kills it) ...
StartupFails(t) ==
  /\ At(t, "wait")
  /\ killed' = CancelProcess(cur[t])
  /\ SetState(T(t), cur[t], "error")
  /\ health' = [health EXCEPT ![cur[t]] = "end"]
  /\ Goto(t, "finish")
  /\ UNCHANGED <<slot, stopping, restarts, life, exited, stopped, started,
                 watch, fails, cur>>

\* ... or the context of the panel ends, after StopAll.
ContextDone(t) ==
  /\ At(t, "wait")
  /\ t \in Users /\ stopping
  /\ killed' = CancelProcess(cur[t])
  /\ health' = [health EXCEPT ![cur[t]] = "end"]
  /\ Return(t)
  /\ UNCHANGED <<slot, stopping, restarts, life, exited, stopped, started,
                 state, watch, fails, pend>>

MarkRunning(t) ==
  /\ At(t, "ready")
  /\ SetState(T(t), cur[t], "running")
  /\ Goto(t, "return")
  /\ UNCHANGED <<slot, stopping, restarts, life, killed, exited, stopped,
                 started, watch, healthVars, cur>>

StartHealthLoop(t) ==
  /\ At(t, "return")
  /\ health' = [health EXCEPT ![cur[t]] = "loop"]
  /\ Return(t)
  /\ UNCHANGED <<slot, stopping, restarts, procVars, watch, fails, pend>>

Finish(t) ==
  /\ At(t, "finish")
  /\ Return(t)
  /\ UNCHANGED <<slot, stopping, restarts, procVars, watch, healthVars,
                 pend>>

EnsureRunning(t) ==
  \/ Check(t) \/ ExecMissing(t) \/ (\E p \in Procs : Create(t, p))
  \/ Launch(t) \/ LaunchFails(t) \/ Register(t) \/ Healthy(t)
  \/ StartupFails(t) \/ ContextDone(t) \/ MarkRunning(t) \/ StartHealthLoop(t)
  \/ Finish(t)

----------------------------------------------------------------------------
(* The process and the goroutine that watches its exit.                     *)

\* The process ends: it crashes, or obeys a signal.
Die(p) ==
  /\ life[p] = "alive"
  /\ life' = [life EXCEPT ![p] = "dead"]
  /\ UNCHANGED <<slot, stopping, restarts, killed, exited, stopped, started,
                 state, watch, healthVars, threadVars, pend>>

\* cmd.Wait returns and pfProcess.exited is closed.
Reap(p) ==
  /\ watch[p] = "waiting" /\ life[p] = "dead"
  /\ exited' = [exited EXCEPT ![p] = TRUE]
  /\ watch' = [watch EXCEPT ![p] = "exited"]
  /\ UNCHANGED <<slot, stopping, restarts, life, killed, stopped, started,
                 state, healthVars, threadVars, pend>>

\* Only a process that was running is restarted.
DeservesRestartAlways(p) == TRUE
DeservesRestart(p) == started[p]

\* An exit that nobody asked for is recorded.
WatchExit(p) ==
  /\ watch[p] = "exited"
  /\ IF stopped[p] \/ stopping
       THEN /\ watch' = [watch EXCEPT ![p] = "end"]
            /\ UNCHANGED <<state, pend>>
       ELSE IF DeservesRestart(p)
         THEN /\ SetState(W(p), p, "degraded")
              /\ watch' = [watch EXCEPT ![p] = "restart"]
         ELSE /\ SetState(W(p), p, "error")
              /\ watch' = [watch EXCEPT ![p] = "end"]
  /\ UNCHANGED <<slot, stopping, restarts, life, killed, exited, stopped,
                 started, healthVars, threadVars>>

\* restartWithBackoff counts the restart, in a window that may have expired,
\* and gives up or arms the timer.
AfterCountNoTimer(n) == "idle"
AfterCount(n) == IF n > BreakerLimit THEN "idle" ELSE "armed"

Restart(p, expired) ==
  /\ watch[p] = "restart" /\ pend[W(p)] = None
  /\ LET n == IF expired THEN 1 ELSE restarts + 1
     IN  /\ restarts' = n
         /\ pc' = [pc EXCEPT ![p] = AfterCount(n)]
         /\ IF n > BreakerLimit THEN SetState(W(p), p, "disabled")
                                ELSE UNCHANGED <<state, pend>>
  /\ watch' = [watch EXCEPT ![p] = "end"]
  /\ UNCHANGED <<slot, stopping, life, killed, exited, stopped, started,
                 healthVars, cur>>

\* The timer of the restart.
TimerFires(p) ==
  /\ At(p, "armed")
  /\ Goto(p, IF stopping \/ stopped[p] THEN "idle" ELSE "check")
  /\ UNCHANGED <<slot, stopping, restarts, procVars, watch, healthVars,
                 cur, pend>>

----------------------------------------------------------------------------
(* healthLoop.                                                              *)

HealthTick(p) ==
  /\ health[p] = "loop" /\ pend[H(p)] = None
  /\ health' = [health EXCEPT ![p] = IF exited[p] \/ stopping THEN "end" ELSE "probing"]
  /\ UNCHANGED <<slot, stopping, restarts, procVars, watch, fails,
                 threadVars, pend>>

HealthAnswer(p) ==
  /\ health[p] = "probing" /\ life[p] = "alive"
  /\ health' = [health EXCEPT ![p] = "good"]
  /\ UNCHANGED <<slot, stopping, restarts, procVars, watch, fails,
                 threadVars, pend>>

HealthGood(p) ==
  /\ health[p] = "good"
  /\ SetState(H(p), p, "running")
  /\ fails' = [fails EXCEPT ![p] = 0]
  /\ health' = [health EXCEPT ![p] = "loop"]
  /\ UNCHANGED <<slot, stopping, restarts, life, killed, exited, stopped,
                 started, watch, threadVars>>

\* The failure that reaches the threshold kills the process and ends the loop.
TooManyFailsOneMore(n) == n > FailThreshold
TooManyFails(n) == n >= FailThreshold

HealthBad(p) ==
  /\ health[p] = "probing"
  /\ IF TooManyFails(fails[p] + 1)
       THEN /\ killed' = CancelProcess(p)
            /\ fails' = [fails EXCEPT ![p] = 0]
            /\ health' = [health EXCEPT ![p] = "end"]
       ELSE /\ fails' = [fails EXCEPT ![p] = @ + 1]
            /\ health' = [health EXCEPT ![p] = "loop"]
            /\ UNCHANGED killed
  /\ UNCHANGED <<slot, stopping, restarts, life, exited, stopped, started,
                 state, watch, threadVars, pend>>

----------------------------------------------------------------------------
(* StopPlugin and StopAll.                                                  *)

\* StopPlugin takes the process out of the registry.
Detach(u) ==
  /\ slot' = None
  /\ IF slot = None THEN Return(u)
                    ELSE /\ cur' = [cur EXCEPT ![u] = slot]
                         /\ Goto(u, "signal")

CallStop(u) ==
  /\ At(u, "idle")
  /\ Detach(u)
  /\ UNCHANGED <<stopping, restarts, procVars, watch, healthVars, pend>>

Signal(u) ==
  /\ At(u, "signal")
  /\ stopped' = [stopped EXCEPT ![cur[u]] = TRUE]
  /\ Goto(u, "await")
  /\ UNCHANGED <<slot, stopping, restarts, life, killed, exited, started,
                 state, watch, healthVars, cur, pend>>

\* After ten seconds the process is killed.
KillAfterGraceNever(u) == FALSE /\ UNCHANGED vars
KillAfterGrace(u) ==
  /\ At(u, "await") /\ ~exited[cur[u]] /\ ~killed[cur[u]]
  /\ killed' = [killed EXCEPT ![cur[u]] = TRUE]
  /\ UNCHANGED <<slot, stopping, restarts, life, exited, stopped, started,
                 state, watch, healthVars, threadVars, pend>>

StopReturns(u) ==
  /\ At(u, "await") /\ exited[cur[u]]
  /\ SetState(T(u), cur[u], "stopped")
  /\ Goto(u, "finish")
  /\ UNCHANGED <<slot, stopping, restarts, life, killed, exited, stopped,
                 started, watch, healthVars, cur>>

\* The shutdown of the panel sets stopping and then stops the plugin.
CallStopAll(u) ==
  /\ At(u, "idle") /\ ~stopping
  /\ stopping' = TRUE
  /\ Goto(u, "stopall")
  /\ UNCHANGED <<slot, restarts, procVars, watch, healthVars, cur, pend>>

StopAllPlugin(u) ==
  /\ At(u, "stopall")
  /\ Detach(u)
  /\ UNCHANGED <<stopping, restarts, procVars, watch, healthVars, pend>>

StopPlugin(u) ==
  StopAllPlugin(u) \/ Signal(u) \/ KillAfterGrace(u) \/ StopReturns(u)

----------------------------------------------------------------------------
(* The handle of a dead process that nothing refers to is garbage.          *)
Collect(p) ==
  /\ life[p] = "dead" /\ watch[p] = "end" /\ health[p] \in {"none", "end"}
  /\ slot # p /\ pc[p] = "idle"
  /\ \A t \in Threads : cur[t] # p
  /\ pend[W(p)] = None /\ pend[H(p)] = None
  /\ life' = [life EXCEPT ![p] = "free"]
  /\ killed' = [killed EXCEPT ![p] = FALSE]
  /\ exited' = [exited EXCEPT ![p] = FALSE]
  /\ stopped' = [stopped EXCEPT ![p] = FALSE]
  /\ started' = [started EXCEPT ![p] = FALSE]
  /\ state' = [state EXCEPT ![p] = None]
  /\ watch' = [watch EXCEPT ![p] = "none"]
  /\ health' = [health EXCEPT ![p] = "none"]
  /\ fails' = [fails EXCEPT ![p] = 0]
  /\ UNCHANGED <<slot, stopping, restarts, threadVars, pend>>

\* The goroutines: a request, a restart timer, an exit watcher, a healthLoop.
Request(u) ==
  EnsureRunning(u) \/ StopPlugin(u) \/ WriteStatus(T(u))

Timer(p) ==
  TimerFires(p) \/ EnsureRunning(p) \/ WriteStatus(T(p))

Watcher(p) ==
  \/ Reap(p) \/ WatchExit(p) \/ (\E x \in BOOLEAN : Restart(p, x))
  \/ WriteStatus(W(p))

HealthLoop(p) ==
  HealthTick(p) \/ HealthAnswer(p) \/ HealthGood(p) \/ HealthBad(p) \/ WriteStatus(H(p))

Next ==
  \/ \E u \in Users : CallStart(u) \/ CallStop(u)
  \/ \E u \in Shutdowns : CallStopAll(u)
  \/ \E u \in Callers : Request(u)
  \/ \E p \in Procs : Timer(p) \/ Watcher(p) \/ HealthLoop(p) \/ Die(p) \/ Collect(p)

Spec == Init /\ [][Next]_vars

\* Goroutines are scheduled, timers fire, and a killed process dies. The two
\* waiting loops have their deadlines. No request and no crash is promised.
FairSpec ==
  /\ Spec
  /\ \A u \in Callers : WF_vars(Request(u))
  /\ \A p \in Procs : /\ WF_vars(Timer(p))
                      /\ WF_vars(Watcher(p))
                      /\ WF_vars(killed[p] /\ Die(p))

----------------------------------------------------------------------------
(* Safety.                                                                  *)

Alive == {p \in Procs : life[p] = "alive"}

\* Every process that reached running and that nobody stops is watched, and
\* its health is checked, whatever restarts and stops overlap: a supervised
\* plugin cannot fail unseen.
Supervised ==
  \A p \in Alive :
    started[p] /\ ~killed[p] /\ ~stopped[p] /\ ~stopping =>
      /\ watch[p] = "waiting"
      /\ \/ health[p] \in {"loop", "probing", "good"}
         \/ \E t \in Threads : cur[t] = p /\ pc[t] \in {"ready", "return"}

\* The exit watcher restarts only what was running: a plugin that fails at
\* its start is never restarted by itself.
OnlyCrashesRestart ==
  \A p \in Procs : pc[p] # "idle" => started[p] /\ exited[p]

\* EnsureRunning is said to be idempotent: one plugin has one process. The
\* test of the registry and the registration are two critical sections.
AtMostOneProcess == Cardinality(Alive) <= 1

----------------------------------------------------------------------------
(* Liveness, under FairSpec.                                                *)

\* StopPlugin waits for the exit of the process and returns, also for a
\* process that ignores the interrupt.
StopEnds == \A u \in Callers : pc[u] = "signal" ~> pc[u] = "idle"

\* A crash is followed by a restart, unless the plugin is stopped or given
\* up or another process has taken its place.
CrashAnswered ==
  \A p \in Procs :
    watch[p] = "restart" ~>
      \/ pc[p] = "spawn" \/ state[p] = "disabled"
      \/ stopping \/ stopped[p] \/ slot # p

\* After the shutdown began, the starts that are under way end and no new
\* process appears.
ShutdownQuiesces ==
  stopping ~> [](\A t \in Threads : pc[t] \notin {"spawn", "launch", "register", "wait"})
=============================================================================
