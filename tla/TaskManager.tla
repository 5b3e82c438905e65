---------------------------- MODULE TaskManager ----------------------------
(***************************************************************************)
(* The background task executor of the panel, internal/infra/task: the     *)
(* registry of tasks by key (Manager.byKey), the channel of concurrency    *)
(* slots (Manager.sem), the goroutine of each task (Manager.run) and the   *)
(* callers of Manager.Cancel.                                              *)
(*                                                                         *)
(* One action is what the code does without giving up a lock, or between   *)
(* two accesses to state that another goroutine also accesses.             *)
(***************************************************************************)
EXTENDS Integers, FiniteSets

CONSTANTS Keys,         \* the keys callers use
          Tasks,        \* the handles (*Task); a pool, as Collect recycles them
          Callers,      \* the goroutines that call Manager.Cancel
          Concurrency,  \* cap(Manager.sem)
          MaxRetries,   \* bound on Options.MaxRetries
          None          \* the absent map entry, the nil pointer

ASSUME ConcurrencyAssumption == Concurrency \in Nat \ {0}
ASSUME MaxRetriesAssumption == MaxRetries \in Nat
ASSUME NoneAssumption == None \notin Tasks \cup Keys

VARIABLES
  byKey,      \* Manager.byKey
  sem,        \* the number of values in Manager.sem
  key,        \* Task.key
  status,     \* Task.status
  err,        \* Task.err
  done,       \* whether Task.done is closed
  cancelFn,   \* whether Task.cancelFn has been set
  canceled,   \* whether the task's own context has been cancelled
  left,       \* the retries left: Options.MaxRetries less the loop variable of run
  outcome,    \* the error of the last attempt, a local of run
  verdict,    \* the final status that run is about to store
  panicking,  \* whether run is unwinding a panic of the task's function
  pc,         \* the control point of run
  cpc,        \* the control point of a caller of Cancel
  ctask,      \* the task that the caller looked up
  accepted,   \* history: the tasks for which some Cancel returned true
  lateStarts  \* history: attempts begun after the context was cancelled

registryVars == <<byKey, sem>>
handleVars   == <<key, status, err, done, cancelFn, canceled>>
runVars      == <<left, outcome, verdict, panicking, pc>>
cancelVars   == <<cpc, ctask, accepted>>
vars == <<registryVars, handleVars, runVars, cancelVars, lateStarts>>

Status   == {"running", "succeeded", "failed", "canceled"}
Terminal == Status \ {"running"}
Error    == {"nil", "error", "canceled", "panic"}
Point    == {"free", "spawned", "body", "check", "backoff", "store", "close",
             "release", "cleanup", "recover", "exit"}

TypeOK ==
  /\ byKey \in [Keys -> Tasks \cup {None}]
  /\ sem \in Nat
  /\ key \in [Tasks -> Keys \cup {None}]
  /\ status \in [Tasks -> Status]
  /\ err \in [Tasks -> Error]
  /\ done \in [Tasks -> BOOLEAN]
  /\ cancelFn \in [Tasks -> BOOLEAN]
  /\ canceled \in [Tasks -> BOOLEAN]
  /\ left \in [Tasks -> 0..MaxRetries]
  /\ outcome \in [Tasks -> Error]
  /\ verdict \in [Tasks -> Status]
  /\ panicking \in [Tasks -> BOOLEAN]
  /\ pc \in [Tasks -> Point]
  /\ cpc \in [Callers -> {"idle", "found", "fire"}]
  /\ ctask \in [Callers -> Tasks \cup {None}]
  /\ accepted \in SUBSET Tasks
  /\ lateStarts \in [Tasks -> Nat]

Init ==
  /\ byKey = [k \in Keys |-> None]
  /\ sem = 0
  /\ key = [t \in Tasks |-> None]
  /\ status = [t \in Tasks |-> "running"]
  /\ err = [t \in Tasks |-> "nil"]
  /\ done = [t \in Tasks |-> FALSE]
  /\ cancelFn = [t \in Tasks |-> FALSE]
  /\ canceled = [t \in Tasks |-> FALSE]
  /\ left = [t \in Tasks |-> 0]
  /\ outcome = [t \in Tasks |-> "nil"]
  /\ verdict = [t \in Tasks |-> "running"]
  /\ panicking = [t \in Tasks |-> FALSE]
  /\ pc = [t \in Tasks |-> "free"]
  /\ cpc = [c \in Callers |-> "idle"]
  /\ ctask = [c \in Callers |-> None]
  /\ accepted = {}
  /\ lateStarts = [t \in Tasks |-> 0]

----------------------------------------------------------------------------
(* Manager.start, Manager.Get and Manager.Tasks.                            *)

\* What Manager.Tasks shows for a key.
View(k) == IF byKey[k] = None THEN "absent" ELSE status[byKey[k]]

\* The key is refused while its task runs.
BusyIgnored(k) == FALSE
Busy(k) == View(k) = "running"

\* The non-blocking send on Manager.sem.
SlotFree == sem < Concurrency

\* start registers a new task when the key has no running task and a slot
\* is free; otherwise it returns an error and changes nothing. Manager.mu is
\* held from the test of the key to the registration.
Start(k, t, r) ==
  /\ pc[t] = "free"
  /\ ~Busy(k)
  /\ SlotFree
  /\ sem' = sem + 1
  /\ byKey' = [byKey EXCEPT ![k] = t]
  /\ key' = [key EXCEPT ![t] = k]
  /\ left' = [left EXCEPT ![t] = r]
  /\ pc' = [pc EXCEPT ![t] = "spawned"]
  /\ UNCHANGED <<status, err, done, cancelFn, canceled, outcome,
                 verdict, panicking, cancelVars, lateStarts>>

----------------------------------------------------------------------------
(* Manager.run, the goroutine of task t.                                    *)

\* The locals of the loop of run are dead once its result is decided.
LeaveLoop(t) ==
  /\ left' = [left EXCEPT ![t] = 0]
  /\ outcome' = [outcome EXCEPT ![t] = "nil"]
  /\ verdict' = [verdict EXCEPT ![t] = "running"]

\* run creates the task's context and publishes its cancel function.
SetCancelFn(t) ==
  /\ pc[t] = "spawned"
  /\ cancelFn' = [cancelFn EXCEPT ![t] = TRUE]
  /\ pc' = [pc EXCEPT ![t] = "body"]
  /\ UNCHANGED <<registryVars, key, status, err, done, canceled, left,
                 outcome, verdict, panicking, cancelVars, lateStarts>>

\* The task's function returns: nil, or an error (the expiry of
\* Options.Timeout is an error like any other).
BodyReturns(t, e) ==
  /\ pc[t] = "body"
  /\ outcome' = [outcome EXCEPT ![t] = e]
  /\ pc' = [pc EXCEPT ![t] = "check"]
  /\ UNCHANGED <<registryVars, handleVars, left, verdict, panicking,
                 cancelVars, lateStarts>>

\* The task's function panics: the deferred release runs first, and the
\* deferred recover after it.
BodyPanicsNoRelease(t) ==
  /\ pc[t] = "body"
  /\ panicking' = [panicking EXCEPT ![t] = TRUE]
  /\ pc' = [pc EXCEPT ![t] = "recover"]
  /\ LeaveLoop(t)
  /\ UNCHANGED <<registryVars, handleVars, cancelVars, lateStarts>>
BodyPanics(t) ==
  /\ pc[t] = "body"
  /\ panicking' = [panicking EXCEPT ![t] = TRUE]
  /\ pc' = [pc EXCEPT ![t] = "release"]
  /\ LeaveLoop(t)
  /\ UNCHANGED <<registryVars, handleVars, cancelVars, lateStarts>>

\* The final status that an attempt leads to, "running" for another attempt.
\* The user's cancellation is looked at before the result of the attempt.
VerdictUnlimited(t) ==
  IF canceled[t] THEN "canceled"
  ELSE IF outcome[t] = "nil" THEN "succeeded" ELSE "running"
VerdictResultFirst(t) ==
  IF outcome[t] = "nil" THEN "succeeded"
  ELSE IF left[t] = 0 THEN "failed" ELSE "running"
Verdict(t) ==
  IF canceled[t] THEN "canceled"
  ELSE IF outcome[t] = "nil" THEN "succeeded"
  ELSE IF left[t] = 0 THEN "failed" ELSE "running"

\* Where run goes from there: to the retry interval, or to its result.
AfterCheckNoStore(t) == IF Verdict(t) = "running" THEN "backoff" ELSE "close"
AfterCheck(t) == IF Verdict(t) = "running" THEN "backoff" ELSE "store"

\* run inspects ctx.Err() and the attempt's error.
CheckAttempt(t) ==
  /\ pc[t] = "check"
  /\ verdict' = [verdict EXCEPT ![t] = Verdict(t)]
  /\ pc' = [pc EXCEPT ![t] = AfterCheck(t)]
  /\ UNCHANGED <<registryVars, handleVars, left, outcome, panicking,
                 cancelVars, lateStarts>>

\* The select of the retry interval, when the timer wins. Both cases may be
\* ready at once, and then Go takes either.
RetryTimer(t) ==
  /\ pc[t] = "backoff"
  /\ left' = [left EXCEPT ![t] = @ - 1]
  /\ lateStarts' = [lateStarts EXCEPT ![t] = IF canceled[t] THEN @ + 1 ELSE @]
  /\ pc' = [pc EXCEPT ![t] = "body"]
  /\ UNCHANGED <<registryVars, handleVars, outcome, verdict, panicking,
                 cancelVars>>

\* The select of the retry interval, when ctx.Done() wins.
RetryCanceled(t) ==
  /\ pc[t] = "backoff"
  /\ canceled[t]
  /\ verdict' = [verdict EXCEPT ![t] = "canceled"]
  /\ outcome' = [outcome EXCEPT ![t] = "canceled"]
  /\ pc' = [pc EXCEPT ![t] = "store"]
  /\ UNCHANGED <<registryVars, handleVars, left, panicking, cancelVars, lateStarts>>

\* run stores the final status and error under Task.mu.
StoreResult(t) ==
  /\ pc[t] = "store"
  /\ status' = [status EXCEPT ![t] = verdict[t]]
  /\ err' = [err EXCEPT ![t] = IF verdict[t] = "succeeded" THEN @ ELSE outcome[t]]
  /\ pc' = [pc EXCEPT ![t] = "close"]
  /\ LeaveLoop(t)
  /\ UNCHANGED <<registryVars, key, done, cancelFn, canceled, panicking,
                 cancelVars, lateStarts>>

\* closeOnce closes Task.done. On the normal path the deferred release
\* follows; on the panic path nothing does.
CloseDone(t) ==
  /\ pc[t] = "close"
  /\ done' = [done EXCEPT ![t] = TRUE]
  /\ pc' = [pc EXCEPT ![t] = IF panicking[t] THEN "exit" ELSE "release"]
  /\ UNCHANGED <<registryVars, key, status, err, cancelFn, canceled, left,
                 outcome, verdict, panicking, cancelVars, lateStarts>>

\* The deferred function of run gives the slot back ...
ReleaseSlot(t) ==
  /\ pc[t] = "release"
  /\ sem > 0
  /\ sem' = sem - 1
  /\ pc' = [pc EXCEPT ![t] = "cleanup"]
  /\ UNCHANGED <<byKey, handleVars, left, outcome, verdict, panicking,
                 cancelVars, lateStarts>>

\* ... and forgets a task that succeeded, provided the key is still its own:
\* a new start of the key may already have taken it over.
StillOwnIgnored(t) == TRUE
StillOwn(t) == byKey[key[t]] = t

Cleanup(t) ==
  /\ pc[t] = "cleanup"
  /\ byKey' = IF status[t] = "succeeded" /\ StillOwn(t)
                THEN [byKey EXCEPT ![key[t]] = None]
                ELSE byKey
  /\ pc' = [pc EXCEPT ![t] = IF panicking[t] THEN "recover" ELSE "exit"]
  /\ UNCHANGED <<sem, handleVars, left, outcome, verdict, panicking,
                 cancelVars, lateStarts>>

\* The deferred recover of run turns a panic into a failure.
RecoverNoClose(t) ==
  /\ pc[t] = "recover"
  /\ status' = [status EXCEPT ![t] = "failed"]
  /\ err' = [err EXCEPT ![t] = "panic"]
  /\ pc' = [pc EXCEPT ![t] = "exit"]
  /\ UNCHANGED <<registryVars, key, done, cancelFn, canceled, left,
                 outcome, verdict, panicking, cancelVars, lateStarts>>

Recover(t) ==
  /\ pc[t] = "recover"
  /\ status' = [status EXCEPT ![t] = "failed"]
  /\ err' = [err EXCEPT ![t] = "panic"]
  /\ pc' = [pc EXCEPT ![t] = "close"]
  /\ UNCHANGED <<registryVars, key, done, cancelFn, canceled, left,
                 outcome, verdict, panicking, cancelVars, lateStarts>>

----------------------------------------------------------------------------
(* Manager.Cancel, called by c.                                             *)

\* The caller looks the key up; an unknown key is the answer false.
CancelLookup(c, k) ==
  /\ cpc[c] = "idle"
  /\ byKey[k] # None
  /\ ctask' = [ctask EXCEPT ![c] = byKey[k]]
  /\ cpc' = [cpc EXCEPT ![c] = "found"]
  /\ UNCHANGED <<registryVars, handleVars, runVars, accepted, lateStarts>>

\* The caller polls Task.done; a closed channel is the answer false.
CancelPollDone(c) ==
  /\ cpc[c] = "found"
  /\ IF done[ctask[c]]
       THEN /\ cpc' = [cpc EXCEPT ![c] = "idle"]
            /\ ctask' = [ctask EXCEPT ![c] = None]
       ELSE /\ cpc' = [cpc EXCEPT ![c] = "fire"]
            /\ UNCHANGED ctask
  /\ UNCHANGED <<registryVars, handleVars, runVars, accepted, lateStarts>>

\* The caller reads Task.cancelFn, calls it if it is set, and answers true.
CancelFire(c) ==
  /\ cpc[c] = "fire"
  /\ canceled' = [canceled EXCEPT ![ctask[c]] = @ \/ cancelFn[ctask[c]]]
  /\ accepted' = accepted \cup {ctask[c]}
  /\ cpc' = [cpc EXCEPT ![c] = "idle"]
  /\ ctask' = [ctask EXCEPT ![c] = None]
  /\ UNCHANGED <<registryVars, key, status, err, done, cancelFn,
                 runVars, lateStarts>>

----------------------------------------------------------------------------
(* The handle of a finished task that nothing refers to any more is        *)
(* garbage, and may become the handle of a later task.                     *)
Collect(t) ==
  /\ pc[t] = "exit"
  /\ \A k \in Keys : byKey[k] # t
  /\ \A c \in Callers : ctask[c] # t
  /\ key' = [key EXCEPT ![t] = None]
  /\ status' = [status EXCEPT ![t] = "running"]
  /\ err' = [err EXCEPT ![t] = "nil"]
  /\ done' = [done EXCEPT ![t] = FALSE]
  /\ cancelFn' = [cancelFn EXCEPT ![t] = FALSE]
  /\ canceled' = [canceled EXCEPT ![t] = FALSE]
  /\ panicking' = [panicking EXCEPT ![t] = FALSE]
  /\ pc' = [pc EXCEPT ![t] = "free"]
  /\ accepted' = accepted \ {t}
  /\ lateStarts' = [lateStarts EXCEPT ![t] = 0]
  /\ UNCHANGED <<registryVars, left, outcome, verdict, cpc, ctask>>

Run(t) ==
  \/ SetCancelFn(t)
  \/ \E e \in {"nil", "error"} : BodyReturns(t, e)
  \/ BodyPanics(t)
  \/ CheckAttempt(t)
  \/ RetryTimer(t)
  \/ RetryCanceled(t)
  \/ StoreResult(t)
  \/ CloseDone(t)
  \/ ReleaseSlot(t)
  \/ Cleanup(t)
  \/ Recover(t)

Cancel(c) ==
  \/ \E k \in Keys : CancelLookup(c, k)
  \/ CancelPollDone(c)
  \/ CancelFire(c)

Next ==
  \/ \E k \in Keys, t \in Tasks, r \in 0..MaxRetries : Start(k, t, r)
  \/ \E t \in Tasks : Run(t)
  \/ \E c \in Callers : Cancel(c)
  \/ \E t \in Tasks : Collect(t)

Spec == Init /\ [][Next]_vars

\* The Go scheduler runs every goroutine that can run, and the function of a
\* task returns (the callers in the panel give it a Timeout or a command that
\* ends). Nobody has to call Start or Cancel.
FairSpec == Spec /\ \A t \in Tasks : WF_vars(Run(t))

----------------------------------------------------------------------------
(* Safety.                                                                  *)

\* The tasks that hold a slot of Manager.sem: from start to the deferred
\* release.
Holders ==
  {t \in Tasks : \/ pc[t] \in {"spawned", "body", "check", "backoff", "store", "release"}
                 \/ pc[t] = "close" /\ ~panicking[t]}

\* Deduplication ("one task per key at a time"): the functions of two tasks
\* with the same key never run at the same time, whatever the interleaving of
\* a finishing task, its cleanup and a new start of its key.
OneBodyPerKey ==
  \A t, u \in Tasks :
    t # u /\ pc[t] = "body" /\ pc[u] = "body" => key[t] # key[u]

\* The slots: sem counts exactly the tasks that hold one, so that no path of
\* run (success, failure, cancellation, panic) loses a slot or returns it
\* twice, and the limit of concurrency is kept.
SlotsAccounted ==
  /\ sem = Cardinality(Holders)
  /\ sem <= Concurrency

\* Whoever is woken by Task.Done() finds the final status and, for a failure,
\* its error: run publishes both before it closes the channel.
DoneIsFinal ==
  \A t \in Tasks :
    done[t] => /\ status[t] \in Terminal
               /\ status[t] = "failed" => err[t] # "nil"

\* A task that is cancelled in its retry interval may be started once more,
\* as both cases of the select may be ready, but never twice.
AtMostOneLateStart ==
  \A t \in Tasks : lateStarts[t] <= 1

\* What the comment of Cancel says: it cancels a running task, and only an
\* unknown key or a finished task is answered false. A true answer for a task
\* whose goroutine has not yet set cancelFn cancels nothing.
TrueMeansCanceled ==
  \A t \in accepted : canceled[t]

----------------------------------------------------------------------------
(* Liveness, under FairSpec.                                                *)

\* Every task that start accepted ends: Task.done is closed.
EveryTaskEnds ==
  \A t \in Tasks : pc[t] = "spawned" ~> done[t]

\* A cancellation that reaches a task before its last look at the context
\* ends it as canceled, unless its function panics.
CancelPrevails ==
  \A t \in Tasks :
    (canceled[t] /\ pc[t] \in {"body", "backoff"})
      ~> (status[t] = "canceled" \/ panicking[t])

\* The registry as the abstract executor sees it.
Executor == INSTANCE TaskExecutor WITH view <- [k \in Keys |-> View(k)]

\* The executor implements its abstract specification: a running task never
\* disappears from the registry, a failure or a cancellation stays until the
\* next start of its key, and only a success is forgotten.
ImplementsExecutor == Executor!Spec
=============================================================================
