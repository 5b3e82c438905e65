------------------------- MODULE TaskManagerProofs -------------------------
(***************************************************************************)
(* Proofs about the task executor for every set of keys and tasks, every   *)
(* limit of concurrency and every bound on the retries.                    *)
(*                                                                         *)
(* The inductive invariant is IInv. Its parts say, for the control points  *)
(* of Manager.run, what the goroutine of a task relies on.                 *)
(***************************************************************************)
EXTENDS TaskManager, FiniteSetTheorems, TLAPS

\* A task whose result is not stored yet: its function may still run, or its
\* panic is not recovered yet.
Unfinished(t) ==
  \/ pc[t] \in {"spawned", "body", "check", "backoff", "store"}
  \/ panicking[t] /\ pc[t] \in {"release", "cleanup", "recover"}

\* The registry shows an unfinished task as running, under its own key.
Registered ==
  \A t \in Tasks :
    Unfinished(t) => status[t] = "running" /\ key[t] \in Keys /\ byKey[key[t]] = t

\* A registered handle is a task of that key, and not a free one.
KeyMatches ==
  \A k \in Keys :
    byKey[k] # None => key[byKey[k]] = k /\ pc[byKey[k]] # "free"

\* What holds at single control points.
Points ==
  \A t \in Tasks :
    /\ pc[t] = "free" => status[t] = "running"
    /\ pc[t] \in {"free", "spawned", "body", "check", "backoff", "store"} => ~panicking[t]
    /\ pc[t] = "recover" => panicking[t]
    /\ pc[t] = "backoff" => left[t] > 0
    /\ pc[t] = "store" => /\ verdict[t] \in Terminal
                          /\ verdict[t] = "failed" => outcome[t] # "nil"
    /\ pc[t] = "close" => /\ status[t] \in Terminal
                          /\ status[t] = "failed" => err[t] # "nil"

\* A late start needs a cancellation, and none has happened in the interval.
LateStarts ==
  \A t \in Tasks :
    /\ lateStarts[t] > 0 => canceled[t]
    /\ pc[t] = "backoff" => lateStarts[t] = 0
    /\ lateStarts[t] <= 1

\* A caller that has passed the lookup of Cancel holds a task.
LookedUp ==
  \A c \in Callers : cpc[c] # "idle" => ctask[c] \in Tasks

\* The slots, with the finiteness that counting them needs.
Slots == IsFiniteSet(Holders) /\ SlotsAccounted

IInv ==
  /\ TypeOK
  /\ Registered
  /\ KeyMatches
  /\ Points
  /\ LateStarts
  /\ LookedUp
  /\ Slots
  /\ DoneIsFinal

----------------------------------------------------------------------------
\* A step that moves no task into or out of the slot holders keeps the count.
LEMMA SlotsKept ==
  ASSUME Slots, Holders' = Holders, sem' = sem
  PROVE  Slots'
BY DEF Slots, SlotsAccounted

\* start takes one slot, for a task that held none.
LEMMA SlotTaken ==
  ASSUME TypeOK, Slots, NEW t \in Tasks, t \notin Holders,
         Holders' = Holders \cup {t}, sem < Concurrency, sem' = sem + 1
  PROVE  Slots'
<1>1. IsFiniteSet(Holders') /\ Cardinality(Holders') = Cardinality(Holders) + 1
  BY FS_AddElement DEF Slots
<1> QED
  BY <1>1, ConcurrencyAssumption DEF Slots, SlotsAccounted, TypeOK

\* The deferred release gives one slot back, of a task that held it.
LEMMA SlotReturned ==
  ASSUME TypeOK, Slots, NEW t \in Tasks, t \in Holders,
         Holders' = Holders \ {t}, sem' = sem - 1
  PROVE  Slots'
<1>1. IsFiniteSet(Holders') /\ Cardinality(Holders') = Cardinality(Holders) - 1
  BY FS_RemoveElement DEF Slots
<1> QED
  BY <1>1, ConcurrencyAssumption DEF Slots, SlotsAccounted, TypeOK

\* The initial state: an empty registry, no slot taken.
LEMMA InitIInv == Init => IInv
<1> SUFFICES ASSUME Init PROVE IInv
  OBVIOUS
<1> USE DEF Init
<1>1. TypeOK
  BY ConcurrencyAssumption, MaxRetriesAssumption
  DEF TypeOK, Status, Error, Point
<1>2. Holders = {}
  BY DEF Holders
<1>3. Slots
  BY <1>2, FS_EmptySet, ConcurrencyAssumption DEF Slots, SlotsAccounted
<1>4. Registered /\ KeyMatches /\ Points /\ LateStarts /\ LookedUp /\ DoneIsFinal
  BY NoneAssumption
  DEF Registered, Unfinished, KeyMatches, Points, LateStarts, LookedUp, DoneIsFinal
<1> QED
  BY <1>1, <1>3, <1>4 DEF IInv

\* Manager.start keeps the invariant.
LEMMA StartIInv ==
  ASSUME IInv, NEW k \in Keys, NEW t \in Tasks, NEW r \in 0..MaxRetries, Start(k, t, r)
  PROVE  IInv'
<1> USE DEF IInv, Start, SlotFree, registryVars, handleVars, runVars, cancelVars
<1>1. TypeOK'
  BY MaxRetriesAssumption DEF TypeOK, Status, Error, Point, Points, LookedUp
<1>2. Registered' /\ KeyMatches'
  BY NoneAssumption DEF TypeOK, Registered, Unfinished, KeyMatches, Points, Busy, View
<1>3. Points'
  BY DEF TypeOK, Points, Terminal, Status
<1>4. LateStarts' /\ LookedUp'
  BY NoneAssumption DEF TypeOK, LateStarts, LookedUp
<1>5. Slots'
  <2>1. t \notin Holders /\ Holders' = Holders \cup {t}
    BY DEF TypeOK, Holders
  <2> QED
    BY <2>1, SlotTaken
<1>6. DoneIsFinal'
  BY DEF TypeOK, DoneIsFinal, Points, Terminal, Status
<1> QED
  BY <1>1, <1>2, <1>3, <1>4, <1>5, <1>6

\* SetCancelFn keeps the invariant.
LEMMA SetCancelFnIInv ==
  ASSUME IInv, NEW t \in Tasks, SetCancelFn(t)
  PROVE  IInv'
<1> USE DEF IInv, SetCancelFn, registryVars, handleVars, runVars, cancelVars
<1>1. TypeOK'
  BY MaxRetriesAssumption DEF TypeOK, Status, Error, Point, Points, LookedUp
<1>2. Registered' /\ KeyMatches'
  BY NoneAssumption DEF TypeOK, Registered, Unfinished, KeyMatches, Points, Busy, View
<1>3. Points'
  BY DEF TypeOK, Points, Terminal, Status
<1>4. LateStarts' /\ LookedUp'
  BY NoneAssumption DEF TypeOK, LateStarts, LookedUp
<1>5. Slots'
  <2>1. Holders' = Holders
    BY DEF TypeOK, Holders, Points
  <2> QED
    BY <2>1, SlotsKept
<1>6. DoneIsFinal'
  BY DEF TypeOK, DoneIsFinal, Points, Terminal, Status
<1> QED
  BY <1>1, <1>2, <1>3, <1>4, <1>5, <1>6

\* BodyReturns keeps the invariant.
LEMMA BodyReturnsIInv ==
  ASSUME IInv, NEW t \in Tasks, NEW e \in {"nil", "error"}, BodyReturns(t, e)
  PROVE  IInv'
<1> USE DEF IInv, BodyReturns, registryVars, handleVars, runVars, cancelVars
<1>1. TypeOK'
  BY MaxRetriesAssumption DEF TypeOK, Status, Error, Point, Points, LookedUp
<1>2. Registered' /\ KeyMatches'
  BY NoneAssumption DEF TypeOK, Registered, Unfinished, KeyMatches, Points, Busy, View
<1>3. Points'
  BY DEF TypeOK, Points, Terminal, Status
<1>4. LateStarts' /\ LookedUp'
  BY NoneAssumption DEF TypeOK, LateStarts, LookedUp
<1>5. Slots'
  <2>1. Holders' = Holders
    BY DEF TypeOK, Holders, Points
  <2> QED
    BY <2>1, SlotsKept
<1>6. DoneIsFinal'
  BY DEF TypeOK, DoneIsFinal, Points, Terminal, Status
<1> QED
  BY <1>1, <1>2, <1>3, <1>4, <1>5, <1>6

\* BodyPanics keeps the invariant.
LEMMA BodyPanicsIInv ==
  ASSUME IInv, NEW t \in Tasks, BodyPanics(t)
  PROVE  IInv'
<1> USE DEF IInv, BodyPanics, LeaveLoop, registryVars, handleVars, runVars, cancelVars
<1>1. TypeOK'
  BY MaxRetriesAssumption DEF TypeOK, Status, Error, Point, Points, LookedUp
<1>2. Registered' /\ KeyMatches'
  BY NoneAssumption DEF TypeOK, Registered, Unfinished, KeyMatches, Points, Busy, View
<1>3. Points'
  BY DEF TypeOK, Points, Terminal, Status
<1>4. LateStarts' /\ LookedUp'
  BY NoneAssumption DEF TypeOK, LateStarts, LookedUp
<1>5. Slots'
  <2>1. Holders' = Holders
    BY DEF TypeOK, Holders, Points
  <2> QED
    BY <2>1, SlotsKept
<1>6. DoneIsFinal'
  BY DEF TypeOK, DoneIsFinal, Points, Terminal, Status
<1> QED
  BY <1>1, <1>2, <1>3, <1>4, <1>5, <1>6

\* CheckAttempt keeps the invariant.
LEMMA CheckAttemptIInv ==
  ASSUME IInv, NEW t \in Tasks, CheckAttempt(t)
  PROVE  IInv'
<1> USE DEF IInv, CheckAttempt, Verdict, AfterCheck, registryVars, handleVars, runVars, cancelVars
<1>1. TypeOK'
  BY MaxRetriesAssumption DEF TypeOK, Status, Error, Point, Points, LookedUp
<1>2. Registered' /\ KeyMatches'
  BY NoneAssumption DEF TypeOK, Registered, Unfinished, KeyMatches, Points, Busy, View
<1>3. Points'
  BY DEF TypeOK, Points, Terminal, Status
<1>4. LateStarts' /\ LookedUp'
  BY NoneAssumption DEF TypeOK, LateStarts, LookedUp
<1>5. Slots'
  <2>1. Holders' = Holders
    BY DEF TypeOK, Holders, Points
  <2> QED
    BY <2>1, SlotsKept
<1>6. DoneIsFinal'
  BY DEF TypeOK, DoneIsFinal, Points, Terminal, Status
<1> QED
  BY <1>1, <1>2, <1>3, <1>4, <1>5, <1>6

\* RetryTimer keeps the invariant.
LEMMA RetryTimerIInv ==
  ASSUME IInv, NEW t \in Tasks, RetryTimer(t)
  PROVE  IInv'
<1> USE DEF IInv, RetryTimer, registryVars, handleVars, runVars, cancelVars
<1>1. TypeOK'
  BY MaxRetriesAssumption DEF TypeOK, Status, Error, Point, Points, LookedUp
<1>2. Registered' /\ KeyMatches'
  BY NoneAssumption DEF TypeOK, Registered, Unfinished, KeyMatches, Points, Busy, View
<1>3. Points'
  BY DEF TypeOK, Points, Terminal, Status
<1>4. LateStarts' /\ LookedUp'
  BY NoneAssumption DEF TypeOK, LateStarts, LookedUp
<1>5. Slots'
  <2>1. Holders' = Holders
    BY DEF TypeOK, Holders, Points
  <2> QED
    BY <2>1, SlotsKept
<1>6. DoneIsFinal'
  BY DEF TypeOK, DoneIsFinal, Points, Terminal, Status
<1> QED
  BY <1>1, <1>2, <1>3, <1>4, <1>5, <1>6

\* RetryCanceled keeps the invariant.
LEMMA RetryCanceledIInv ==
  ASSUME IInv, NEW t \in Tasks, RetryCanceled(t)
  PROVE  IInv'
<1> USE DEF IInv, RetryCanceled, registryVars, handleVars, runVars, cancelVars
<1>1. TypeOK'
  BY MaxRetriesAssumption DEF TypeOK, Status, Error, Point, Points, LookedUp
<1>2. Registered' /\ KeyMatches'
  BY NoneAssumption DEF TypeOK, Registered, Unfinished, KeyMatches, Points, Busy, View
<1>3. Points'
  BY DEF TypeOK, Points, Terminal, Status
<1>4. LateStarts' /\ LookedUp'
  BY NoneAssumption DEF TypeOK, LateStarts, LookedUp
<1>5. Slots'
  <2>1. Holders' = Holders
    BY DEF TypeOK, Holders, Points
  <2> QED
    BY <2>1, SlotsKept
<1>6. DoneIsFinal'
  BY DEF TypeOK, DoneIsFinal, Points, Terminal, Status
<1> QED
  BY <1>1, <1>2, <1>3, <1>4, <1>5, <1>6

\* StoreResult keeps the invariant.
LEMMA StoreResultIInv ==
  ASSUME IInv, NEW t \in Tasks, StoreResult(t)
  PROVE  IInv'
<1> USE DEF IInv, StoreResult, LeaveLoop, registryVars, handleVars, runVars, cancelVars
<1>1. TypeOK'
  BY MaxRetriesAssumption DEF TypeOK, Status, Error, Point, Points, LookedUp
<1>2. Registered' /\ KeyMatches'
  BY NoneAssumption DEF TypeOK, Registered, Unfinished, KeyMatches, Points, Busy, View
<1>3. Points'
  BY DEF TypeOK, Points, Terminal, Status
<1>4. LateStarts' /\ LookedUp'
  BY NoneAssumption DEF TypeOK, LateStarts, LookedUp
<1>5. Slots'
  <2>1. Holders' = Holders
    BY DEF TypeOK, Holders, Points
  <2> QED
    BY <2>1, SlotsKept
<1>6. DoneIsFinal'
  BY DEF TypeOK, DoneIsFinal, Points, Terminal, Status
<1> QED
  BY <1>1, <1>2, <1>3, <1>4, <1>5, <1>6

\* CloseDone keeps the invariant.
LEMMA CloseDoneIInv ==
  ASSUME IInv, NEW t \in Tasks, CloseDone(t)
  PROVE  IInv'
<1> USE DEF IInv, CloseDone, registryVars, handleVars, runVars, cancelVars
<1>1. TypeOK'
  BY MaxRetriesAssumption DEF TypeOK, Status, Error, Point, Points, LookedUp
<1>2. Registered' /\ KeyMatches'
  BY NoneAssumption DEF TypeOK, Registered, Unfinished, KeyMatches, Points, Busy, View
<1>3. Points'
  BY DEF TypeOK, Points, Terminal, Status
<1>4. LateStarts' /\ LookedUp'
  BY NoneAssumption DEF TypeOK, LateStarts, LookedUp
<1>5. Slots'
  <2>1. Holders' = Holders
    BY DEF TypeOK, Holders, Points
  <2> QED
    BY <2>1, SlotsKept
<1>6. DoneIsFinal'
  BY DEF TypeOK, DoneIsFinal, Points, Terminal, Status
<1> QED
  BY <1>1, <1>2, <1>3, <1>4, <1>5, <1>6

\* ReleaseSlot keeps the invariant.
LEMMA ReleaseSlotIInv ==
  ASSUME IInv, NEW t \in Tasks, ReleaseSlot(t)
  PROVE  IInv'
<1> USE DEF IInv, ReleaseSlot, registryVars, handleVars, runVars, cancelVars
<1>1. TypeOK'
  BY MaxRetriesAssumption DEF TypeOK, Status, Error, Point, Points, LookedUp
<1>2. Registered' /\ KeyMatches'
  BY NoneAssumption DEF TypeOK, Registered, Unfinished, KeyMatches, Points, Busy, View
<1>3. Points'
  BY DEF TypeOK, Points, Terminal, Status
<1>4. LateStarts' /\ LookedUp'
  BY NoneAssumption DEF TypeOK, LateStarts, LookedUp
<1>5. Slots'
  <2>1. t \in Holders /\ Holders' = Holders \ {t}
    BY DEF TypeOK, Holders
  <2> QED
    BY <2>1, SlotReturned
<1>6. DoneIsFinal'
  BY DEF TypeOK, DoneIsFinal, Points, Terminal, Status
<1> QED
  BY <1>1, <1>2, <1>3, <1>4, <1>5, <1>6

\* Cleanup keeps the invariant.
LEMMA CleanupIInv ==
  ASSUME IInv, NEW t \in Tasks, Cleanup(t)
  PROVE  IInv'
<1> USE DEF IInv, Cleanup, StillOwn, registryVars, handleVars, runVars, cancelVars
<1>1. TypeOK'
  BY MaxRetriesAssumption DEF TypeOK, Status, Error, Point, Points, LookedUp
<1>2. Registered' /\ KeyMatches'
  BY NoneAssumption DEF TypeOK, Registered, Unfinished, KeyMatches, Points, Busy, View
<1>3. Points'
  BY DEF TypeOK, Points, Terminal, Status
<1>4. LateStarts' /\ LookedUp'
  BY NoneAssumption DEF TypeOK, LateStarts, LookedUp
<1>5. Slots'
  <2>1. Holders' = Holders
    BY DEF TypeOK, Holders, Points
  <2> QED
    BY <2>1, SlotsKept
<1>6. DoneIsFinal'
  BY DEF TypeOK, DoneIsFinal, Points, Terminal, Status
<1> QED
  BY <1>1, <1>2, <1>3, <1>4, <1>5, <1>6

\* Recover keeps the invariant.
LEMMA RecoverIInv ==
  ASSUME IInv, NEW t \in Tasks, Recover(t)
  PROVE  IInv'
<1> USE DEF IInv, Recover, registryVars, handleVars, runVars, cancelVars
<1>1. TypeOK'
  BY MaxRetriesAssumption DEF TypeOK, Status, Error, Point, Points, LookedUp
<1>2. Registered' /\ KeyMatches'
  BY NoneAssumption DEF TypeOK, Registered, Unfinished, KeyMatches, Points, Busy, View
<1>3. Points'
  BY DEF TypeOK, Points, Terminal, Status
<1>4. LateStarts' /\ LookedUp'
  BY NoneAssumption DEF TypeOK, LateStarts, LookedUp
<1>5. Slots'
  <2>1. Holders' = Holders
    BY DEF TypeOK, Holders, Points
  <2> QED
    BY <2>1, SlotsKept
<1>6. DoneIsFinal'
  BY DEF TypeOK, DoneIsFinal, Points, Terminal, Status
<1> QED
  BY <1>1, <1>2, <1>3, <1>4, <1>5, <1>6

\* CancelLookup keeps the invariant.
LEMMA CancelLookupIInv ==
  ASSUME IInv, NEW c \in Callers, NEW k \in Keys, CancelLookup(c, k)
  PROVE  IInv'
<1> USE DEF IInv, CancelLookup, registryVars, handleVars, runVars, cancelVars
<1>1. TypeOK'
  BY MaxRetriesAssumption DEF TypeOK, Status, Error, Point, Points, LookedUp
<1>2. Registered' /\ KeyMatches'
  BY NoneAssumption DEF TypeOK, Registered, Unfinished, KeyMatches, Points, Busy, View
<1>3. Points'
  BY DEF TypeOK, Points, Terminal, Status
<1>4. LateStarts' /\ LookedUp'
  BY NoneAssumption DEF TypeOK, LateStarts, LookedUp
<1>5. Slots'
  <2>1. Holders' = Holders
    BY DEF TypeOK, Holders, Points
  <2> QED
    BY <2>1, SlotsKept
<1>6. DoneIsFinal'
  BY DEF TypeOK, DoneIsFinal, Points, Terminal, Status
<1> QED
  BY <1>1, <1>2, <1>3, <1>4, <1>5, <1>6

\* CancelPollDone keeps the invariant.
LEMMA CancelPollDoneIInv ==
  ASSUME IInv, NEW c \in Callers, CancelPollDone(c)
  PROVE  IInv'
<1> USE DEF IInv, CancelPollDone, registryVars, handleVars, runVars, cancelVars
<1>1. TypeOK'
  BY MaxRetriesAssumption DEF TypeOK, Status, Error, Point, Points, LookedUp
<1>2. Registered' /\ KeyMatches'
  BY NoneAssumption DEF TypeOK, Registered, Unfinished, KeyMatches, Points, Busy, View
<1>3. Points'
  BY DEF TypeOK, Points, Terminal, Status
<1>4. LateStarts' /\ LookedUp'
  BY NoneAssumption DEF TypeOK, LateStarts, LookedUp
<1>5. Slots'
  <2>1. Holders' = Holders
    BY DEF TypeOK, Holders, Points
  <2> QED
    BY <2>1, SlotsKept
<1>6. DoneIsFinal'
  BY DEF TypeOK, DoneIsFinal, Points, Terminal, Status
<1> QED
  BY <1>1, <1>2, <1>3, <1>4, <1>5, <1>6

\* CancelFire keeps the invariant.
LEMMA CancelFireIInv ==
  ASSUME IInv, NEW c \in Callers, CancelFire(c)
  PROVE  IInv'
<1> USE DEF IInv, CancelFire, registryVars, handleVars, runVars, cancelVars
<1>1. TypeOK'
  BY MaxRetriesAssumption DEF TypeOK, Status, Error, Point, Points, LookedUp
<1>2. Registered' /\ KeyMatches'
  BY NoneAssumption DEF TypeOK, Registered, Unfinished, KeyMatches, Points, Busy, View
<1>3. Points'
  BY DEF TypeOK, Points, Terminal, Status
<1>4. LateStarts' /\ LookedUp'
  BY NoneAssumption DEF TypeOK, LateStarts, LookedUp
<1>5. Slots'
  <2>1. Holders' = Holders
    BY DEF TypeOK, Holders, Points
  <2> QED
    BY <2>1, SlotsKept
<1>6. DoneIsFinal'
  BY DEF TypeOK, DoneIsFinal, Points, Terminal, Status
<1> QED
  BY <1>1, <1>2, <1>3, <1>4, <1>5, <1>6

\* Collect keeps the invariant.
LEMMA CollectIInv ==
  ASSUME IInv, NEW t \in Tasks, Collect(t)
  PROVE  IInv'
<1> USE DEF IInv, Collect, registryVars, handleVars, runVars, cancelVars
<1>1. TypeOK'
  BY MaxRetriesAssumption DEF TypeOK, Status, Error, Point, Points, LookedUp
<1>2. Registered' /\ KeyMatches'
  BY NoneAssumption DEF TypeOK, Registered, Unfinished, KeyMatches, Points, Busy, View
<1>3. Points'
  BY DEF TypeOK, Points, Terminal, Status
<1>4. LateStarts' /\ LookedUp'
  BY NoneAssumption DEF TypeOK, LateStarts, LookedUp
<1>5. Slots'
  <2>1. Holders' = Holders
    BY DEF TypeOK, Holders, Points
  <2> QED
    BY <2>1, SlotsKept
<1>6. DoneIsFinal'
  BY DEF TypeOK, DoneIsFinal, Points, Terminal, Status
<1> QED
  BY <1>1, <1>2, <1>3, <1>4, <1>5, <1>6

----------------------------------------------------------------------------
\* Every step of the executor keeps the invariant.
LEMMA NextIInv == IInv /\ [Next]_vars => IInv'
<1> SUFFICES ASSUME IInv, [Next]_vars PROVE IInv'
  OBVIOUS
<1>1. ASSUME NEW k \in Keys, NEW t \in Tasks, NEW r \in 0..MaxRetries, Start(k, t, r)
      PROVE  IInv'
  BY <1>1, StartIInv
<1>2. ASSUME NEW t \in Tasks, Run(t)
      PROVE  IInv'
  BY <1>2, SetCancelFnIInv, BodyReturnsIInv, BodyPanicsIInv, CheckAttemptIInv,
     RetryTimerIInv, RetryCanceledIInv, StoreResultIInv, CloseDoneIInv,
     ReleaseSlotIInv, CleanupIInv, RecoverIInv
  DEF Run
<1>3. ASSUME NEW c \in Callers, Cancel(c)
      PROVE  IInv'
  BY <1>3, CancelLookupIInv, CancelPollDoneIInv, CancelFireIInv DEF Cancel
<1>4. ASSUME NEW t \in Tasks, Collect(t)
      PROVE  IInv'
  BY <1>4, CollectIInv
<1>5. CASE UNCHANGED vars
  BY <1>5
  DEF vars, registryVars, handleVars, runVars, cancelVars, IInv, TypeOK,
      Registered, Unfinished, KeyMatches, Points, LateStarts, LookedUp, Slots,
      SlotsAccounted, Holders, DoneIsFinal
<1> QED
  BY <1>1, <1>2, <1>3, <1>4, <1>5 DEF Next

\* The invariant holds in every reachable state.
THEOREM Invariance == Spec => []IInv
BY InitIInv, NextIInv, PTL DEF Spec

\* Type correctness of the executor.
THEOREM TypeCorrect == Spec => []TypeOK
<1>1. IInv => TypeOK
  BY DEF IInv
<1> QED
  BY <1>1, Invariance, PTL

\* Deduplication by key: start, run and the deferred cleanup never let the
\* functions of two tasks with one key run at once.
THEOREM Deduplication == Spec => []OneBodyPerKey
<1>1. IInv => OneBodyPerKey
  BY DEF IInv, Registered, Unfinished, OneBodyPerKey
<1> QED
  BY <1>1, Invariance, PTL

\* No path of run loses a slot of Manager.sem or returns it twice, and the
\* limit of concurrency is kept.
THEOREM SlotAccounting == Spec => []SlotsAccounted
<1>1. IInv => SlotsAccounted
  BY DEF IInv, Slots
<1> QED
  BY <1>1, Invariance, PTL

\* A closed Task.done comes with a final status and, for a failure, its error.
THEOREM DonePublished == Spec => []DoneIsFinal
<1>1. IInv => DoneIsFinal
  BY DEF IInv
<1> QED
  BY <1>1, Invariance, PTL

\* A cancelled task's function is called at most once more.
THEOREM OneLateStart == Spec => []AtMostOneLateStart
<1>1. IInv => AtMostOneLateStart
  BY DEF IInv, LateStarts, AtMostOneLateStart
<1> QED
  BY <1>1, Invariance, PTL

----------------------------------------------------------------------------
(* The executor implements TaskExecutor.                                    *)

\* start of a key is the abstract Begin.
LEMMA StartBegins ==
  ASSUME IInv, NEW k \in Keys, NEW t \in Tasks, NEW r \in 0..MaxRetries, Start(k, t, r)
  PROVE  Executor!Begin(k)
BY NoneAssumption
DEF IInv, TypeOK, KeyMatches, Points, Start, Busy, View, Executor!Begin

\* Storing the result of a task is the abstract End of its key.
LEMMA StoreEnds ==
  ASSUME IInv, NEW t \in Tasks, StoreResult(t)
  PROVE  key[t] \in Keys /\ Executor!End(key[t])
<1>1. /\ key[t] \in Keys /\ byKey[key[t]] = t
      /\ status[t] = "running" /\ verdict[t] \in Executor!Outcomes
  BY DEF IInv, Registered, Unfinished, Points, StoreResult, Terminal, Status,
         Executor!Outcomes
<1>2. \A k \in Keys : View(k)' = IF k = key[t] THEN verdict[t] ELSE View(k)
  BY <1>1, NoneAssumption DEF IInv, TypeOK, KeyMatches, StoreResult, View, registryVars
<1>3. View(key[t]) = "running"
  BY <1>1, NoneAssumption DEF View
<1> QED
  BY <1>1, <1>2, <1>3 DEF Executor!End

\* Recovering a panic is the abstract End of the key, as a failure.
LEMMA RecoverEnds ==
  ASSUME IInv, NEW t \in Tasks, Recover(t)
  PROVE  key[t] \in Keys /\ Executor!End(key[t])
<1>1. /\ key[t] \in Keys /\ byKey[key[t]] = t /\ status[t] = "running"
  BY DEF IInv, Registered, Unfinished, Points, Recover
<1>2. \A k \in Keys : View(k)' = IF k = key[t] THEN "failed" ELSE View(k)
  BY <1>1, NoneAssumption DEF IInv, TypeOK, KeyMatches, Recover, View, registryVars
<1>3. View(key[t]) = "running"
  BY <1>1, NoneAssumption DEF View
<1> QED
  BY <1>1, <1>2, <1>3 DEF Executor!End, Executor!Outcomes

\* The deferred cleanup forgets a success or changes nothing callers see.
LEMMA CleanupForgets ==
  ASSUME IInv, NEW t \in Tasks, Cleanup(t)
  PROVE  \/ key[t] \in Keys /\ Executor!Forget(key[t])
         \/ [k \in Keys |-> View(k)]' = [k \in Keys |-> View(k)]
<1>1. CASE status[t] = "succeeded" /\ StillOwn(t) /\ key[t] \in Keys
  BY <1>1, NoneAssumption
  DEF IInv, TypeOK, Cleanup, StillOwn, View, handleVars, Executor!Forget
<1>2. CASE ~(status[t] = "succeeded" /\ StillOwn(t) /\ key[t] \in Keys)
  BY <1>2 DEF IInv, TypeOK, Cleanup, View, handleVars
<1> QED
  BY <1>1, <1>2

\* A step that changes neither the registry nor a status is not seen.
LEMMA Unseen ==
  ASSUME UNCHANGED <<byKey, status>>
  PROVE  [k \in Keys |-> View(k)]' = [k \in Keys |-> View(k)]
BY DEF View

\* The executor of internal/infra/task implements what TaskExecutor says.
THEOREM Refinement == Spec => ImplementsExecutor
<1> DEFINE view == [k \in Keys |-> View(k)]
<1>1. Init => Executor!Init
  BY DEF Init, View, Executor!Init
<1>2. IInv /\ [Next]_vars => [Executor!Next]_view
  <2> SUFFICES ASSUME IInv, [Next]_vars PROVE Executor!Next \/ view' = view
    OBVIOUS
  <2>1. ASSUME NEW k \in Keys, NEW t \in Tasks, NEW r \in 0..MaxRetries, Start(k, t, r)
        PROVE  Executor!Next
    BY <2>1, StartBegins DEF Executor!Next
  <2>2. ASSUME NEW t \in Tasks, StoreResult(t) \/ Recover(t)
        PROVE  Executor!Next
    BY <2>2, StoreEnds, RecoverEnds DEF Executor!Next
  <2>3. ASSUME NEW t \in Tasks, Cleanup(t)
        PROVE  Executor!Next \/ view' = view
    BY <2>3, CleanupForgets DEF Executor!Next
  <2>4. ASSUME NEW t \in Tasks, NEW e \in {"nil", "error"},
               \/ SetCancelFn(t) \/ BodyReturns(t, e) \/ BodyPanics(t)
               \/ CheckAttempt(t) \/ RetryTimer(t) \/ RetryCanceled(t)
               \/ CloseDone(t) \/ ReleaseSlot(t)
        PROVE  view' = view
    <3>1. UNCHANGED <<byKey, status>>
      BY <2>4
      DEF SetCancelFn, BodyReturns, BodyPanics, CheckAttempt, RetryTimer,
          RetryCanceled, CloseDone, ReleaseSlot, registryVars, handleVars
    <3> QED
      BY <3>1, Unseen
  <2>5. ASSUME NEW c \in Callers, Cancel(c)
        PROVE  view' = view
    <3>1. UNCHANGED <<byKey, status>>
      BY <2>5
      DEF Cancel, CancelLookup, CancelPollDone, CancelFire, registryVars, handleVars
    <3> QED
      BY <3>1, Unseen
  <2>6. ASSUME NEW t \in Tasks, Collect(t)
        PROVE  view' = view
    BY <2>6, NoneAssumption DEF IInv, TypeOK, Collect, View, registryVars
  <2>7. CASE UNCHANGED vars
    BY <2>7, Unseen DEF vars, registryVars, handleVars
  <2> QED
    BY <2>1, <2>2, <2>3, <2>4, <2>5, <2>6, <2>7 DEF Next, Run
<1> QED
  BY <1>1, <1>2, Invariance, PTL DEF Spec, ImplementsExecutor, Executor!Spec
=============================================================================
