---------------------------- MODULE Background ------------------------------
(* What goroutines must bring to an end: the stream of a task's log, the    *)
(* queues of the event bus, the supervision of a plugin's process, and a    *)
(* terminal whose browser has gone. The parts share no state, so a          *)
(* behaviour is one of a single part.                                       *)
EXTENDS Integers, Sequences

(* The constants of the parts; one that several parts have carries the name *)
(* of its part.                                                             *)
CONSTANTS
    MaxLogLines, MaxTotal, MaxChunk,
    Ids, Names, Events, Starters, QueueSize, MaxAttempts, MaxEvents, MaxSubs,
    Users, Shutdowns, Procs, BreakerLimit, FailThreshold, None,
    Conns, Idler, MaxSessions, SendChanSize

VARIABLES
    part,
    arrays, length, total, wpc, chunk, taskDone, rpc, window, cursor, sent,
    subs, sub, published, pub, starting,
    slot, stopping, restarts, life, killed, exited, stopped, started, state, watch,
    health, fails, pc, cur, pend,
    sessions, mu, smu, closed, shell, reader, queue, idle, toClose, conn, browser,
    cancelled, fwd

Log == INSTANCE TaskLog
Bus == INSTANCE EventBus
Sup == INSTANCE PluginSupervisor
Term == INSTANCE Terminals

ASSUME LogAssumption == Log!LogBounds
ASSUME BusAssumption == Bus!BusBounds
ASSUME SupAssumption == Sup!SupervisorAssumption
ASSUME TermAssumption == Term!TerminalBounds

logVars == <<arrays, length, total, wpc, chunk, taskDone, rpc, window, cursor, sent>>
busVars == <<subs, sub, published, pub, starting>>
supVars == <<slot, stopping, restarts, life, killed, exited, stopped, started, state, watch,
    health, fails, pc, cur, pend>>
termVars == <<sessions, mu, smu, closed, shell, reader, queue, idle, toClose, conn, browser,
    cancelled, fwd>>
vars == <<part, logVars, busVars, supVars, termVars>>

-----------------------------------------------------------------------------
Parts == {"log", "bus", "sup", "term"}

Init ==
    /\ part \in Parts
    /\ Log!Init
    /\ Bus!Init
    /\ Sup!Init
    /\ Term!Init

Next ==
    \/ /\ part = "log" /\ Log!Next
       /\ UNCHANGED <<part, busVars, supVars, termVars>>
    \/ /\ part = "bus" /\ Bus!Next
       /\ UNCHANGED <<part, logVars, supVars, termVars>>
    \/ /\ part = "sup" /\ Sup!Next
       /\ UNCHANGED <<part, logVars, busVars, termVars>>
    \/ /\ part = "term" /\ Term!Next
       /\ UNCHANGED <<part, logVars, busVars, supVars>>

Spec == Init /\ [][Next]_vars
FairSpec ==
    /\ Spec
    /\ WF_logVars(part = "log" /\ Log!Handler)
    /\ SF_logVars(part = "log" /\ Log!SeeDone)
    /\ WF_logVars(part = "log" /\ (Log!AppendLine \/ Log!StartTrim \/ Log!FinishTrim \/ Log!Unlock))
    /\ WF_busVars(part = "bus" /\ Bus!PublishStep)
    /\ \A s \in 1..MaxSubs : WF_busVars(part = "bus" /\ s \in Bus!Sub /\ Bus!Consume(s))
    /\ \A u \in Users \cup Shutdowns : WF_supVars(part = "sup" /\ Sup!Request(u))
    /\ \A p \in Procs : WF_supVars(part = "sup" /\ Sup!Timer(p))
    /\ \A p \in Procs : WF_supVars(part = "sup" /\ Sup!Watcher(p))
    /\ \A p \in Procs : WF_supVars(part = "sup" /\ killed[p] /\ Sup!Die(p))
    /\ \A c \in Conns : SF_termVars(part = "term" /\ Term!CloseSessionLocks(c))
    /\ \A c \in Conns : SF_termVars(part = "term" /\ Term!CloseSession(c))
    /\ \A c \in Conns : WF_termVars(part = "term" /\ Term!Write(c))
    /\ \A c \in Conns : WF_termVars(part = "term" /\ Term!ReadEnds(c))
    /\ \A c \in Conns : WF_termVars(part = "term" /\ Term!Ping(c))
    /\ WF_termVars(part = "term" /\ Term!IdleScan)
    /\ SF_termVars(part = "term" /\ Term!idleTimeoutLoop)

-----------------------------------------------------------------------------
(* The variables of every part have their types.                            *)
TypeOK ==
    /\ part = "log" => Log!TypeOK
    /\ part = "bus" => Bus!TypeOK
    /\ part = "sup" => Sup!TypeOK
    /\ part = "term" => Term!TypeOK

(* The buffer of a log is always the newest lines without a gap, and at     *)
(* least three quarters of the limit once that many were written; and the   *)
(* browser of a task that stays below the limit gets every line, once and   *)
(* in order, before the end of the stream, however the polls interleave     *)
(* with the writes and the end of the task. Beyond the limit a trim moves   *)
(* the lines and not the handler's cursor and slice: lines are repeated,    *)
(* torn or skipped.                                                         *)
StreamComplete == part = "log" => Log!BufferIsNewest /\ Log!StreamComplete

(* A subscription takes events in the order in which they were published    *)
(* and none of them twice, also when Publish evicts while the goroutine     *)
(* takes; and a slow subscriber loses old events and no more than           *)
(* necessary: never the one that was published last, and at most as many as *)
(* there are events beyond the size of the queue.                           *)
TakenInOrder == part = "bus" => Bus!TakenInOrder /\ Bus!OverflowLosesOldest

(* Nothing is left behind that nothing can end: a subscription that is not  *)
(* closed is registered, so that a later Unsubscribe finds it, and no id    *)
(* has two of them, whatever starts and stops overlap; and a shell that was *)
(* not waited for belongs to a registered session, however the end of the   *)
(* connection and the idle loop meet.                                       *)
NothingLeaked ==
    /\ part = "bus" => Bus!NoLeakedConsumer
    /\ part = "term" => Term!NoOrphanShell

(* What serves somebody comes to its end: the stream of a log once the task *)
(* has ended or the browser left, the goroutine of a closed subscription    *)
(* whatever it was doing, an event in a queue by delivery, eviction or the  *)
(* end of the subscription though handlers fail and panic, and the shell of *)
(* a browser that went away, also when no close frame arrived.              *)
StreamsEnd ==
    /\ Log!StreamEnds
    /\ Bus!ClosedConsumerEnds
    /\ Bus!QueueDrains
    /\ Term!GoneIsCleaned

(* StopPlugin returns, also for a process that ignores the interrupt; a     *)
(* crash is followed by a restart, unless the plugin is stopped or given up *)
(* or another process has taken its place; and after the shutdown began,    *)
(* the starts that are under way end and no new process appears.            *)
SupervisionAnswers ==
    /\ Sup!StopEnds
    /\ Sup!CrashAnswered
    /\ Sup!ShutdownQuiesces

-----------------------------------------------------------------------------
(* Values of the constants for TLC (Background.cfg).                        *)

MCEvents == [i \in Ids |-> <<"a", "b">>]

=============================================================================
