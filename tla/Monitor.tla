------------------------------- MODULE Monitor -------------------------------
(* The monitor (internal/domain/monitor/service.go, repo_sqlite.go): a loop *)
(* that collects a point per interval into a ring, a second goroutine that  *)
(* moves the ring to the database every ten seconds, a clean-up by age, and *)
(* requests that read the newest point.  A point is named by its number,    *)
(* which is also its time.                                                  *)
EXTENDS Integers, Sequences, SequencesExt

CONSTANTS
    ringSize,
    maxHistoryPoints,
    Retention,      \* age in points after which the clean-up deletes
    MaxPoints,      \* bound: points collected
    MaxFaults       \* bound: database errors

VARIABLES
    ringBuffer, ringHead, ringCount,
    collected,      \* points collected so far
    batch,          \* points the flusher has taken out and is saving
    db,             \* table, oldest first
    ctxDone,        \* the panel is stopping
    flusher,        \* "run" | "done"
    faults,
    shown           \* newest point ever shown as current (history)

MonitorBounds ==
    /\ {ringSize, maxHistoryPoints} \subseteq Nat \ {0}
    /\ {Retention, MaxPoints, MaxFaults} \subseteq Nat

vars == <<ringBuffer, ringHead, ringCount, collected, batch, db, ctxDone, flusher, faults, shown>>

Charge(failed) == faults' = faults + (IF failed THEN 1 ELSE 0) /\ faults' <= MaxFaults

----------------------------------------------------------------------------
(* The table, and the elements of a list that are kept, in their order.     *)
Those(list, keep(_)) ==
    LET kept[i \in 0 .. Len(list)] ==
            IF i = 0 THEN <<>>
            ELSE IF keep(list[i]) THEN Append(kept[i - 1], list[i]) ELSE kept[i - 1]
    IN kept[Len(list)]

SaveBatch(points, fails) == db' = IF fails \/ ctxDone THEN db ELSE db \o points
Clean(since) == Those(db, LAMBDA p : p >= since)
GetLatest == IF db = <<>> THEN 0 ELSE Last(db)

(* Bug variant: the head is not taken back to the first slot.               *)
addToBufferNoWrap(p) ==
    /\ ringBuffer' = [ringBuffer EXCEPT ![ringHead] = p]
    /\ ringHead' = ringHead + 1
    /\ ringCount' = IF ringCount < ringSize THEN ringCount + 1 ELSE ringCount

(* Bug variant: a full ring counts on.                                      *)
addToBufferCounting(p) ==
    /\ ringBuffer' = [ringBuffer EXCEPT ![ringHead] = p]
    /\ ringHead' = (ringHead + 1) % ringSize
    /\ ringCount' = ringCount + 1

addToBuffer(p) ==
    /\ ringBuffer' = [ringBuffer EXCEPT ![ringHead] = p]
    /\ ringHead' = (ringHead + 1) % ringSize
    /\ ringCount' = IF ringCount < ringSize THEN ringCount + 1 ELSE ringCount

Buffered ==
    LET tail == (ringHead - ringCount + ringSize) % ringSize
    IN [i \in 1..ringCount |-> ringBuffer[(tail + i - 1) % ringSize]]

GetLatestPoint == IF ringCount = 0 THEN 0 ELSE ringBuffer[(ringHead - 1 + ringSize) % ringSize]

----------------------------------------------------------------------------
(* The collecting loop; the clean-up comes along now and then.              *)
cleanup(due) == db' = IF due THEN Clean(collected + 1 - Retention) ELSE db

collect(due) ==
    /\ ~ctxDone /\ collected < MaxPoints
    /\ collected' = collected + 1
    /\ addToBuffer(collected + 1)
    /\ cleanup(due)
    /\ UNCHANGED <<batch, ctxDone, flusher, faults, shown>>

(* Bug variant: the ring is emptied only when the batch has been saved.     *)
flushBufferLate ==
    /\ flusher = "run" /\ batch = <<>> /\ ringCount > 0
    /\ batch' = Buffered
    /\ UNCHANGED <<ringBuffer, ringHead, ringCount, collected, db, ctxDone, flusher, faults, shown>>

(* The flusher takes the points out under the lock ...                      *)
flushBuffer ==
    /\ flusher = "run" /\ batch = <<>> /\ ringCount > 0
    /\ batch' = Buffered /\ ringCount' = 0
    /\ UNCHANGED <<ringBuffer, ringHead, collected, db, ctxDone, flusher, faults, shown>>

(* ... and saves them in one transaction, which is not tried again.  After  *)
(* the flush for the stopping panel it ends.                                *)
Flushed(fails) ==
    /\ batch # <<>>
    /\ Charge(fails)
    /\ SaveBatch(batch, fails)
    /\ batch' = <<>>
    /\ UNCHANGED <<ringBuffer, ringHead, ringCount, collected, ctxDone, flusher, shown>>

run ==
    \/ ~ctxDone /\ ctxDone' = TRUE /\ UNCHANGED flusher
    \/ ctxDone /\ ringCount = 0 /\ batch = <<>> /\ flusher' = "done" /\ UNCHANGED ctxDone

Stops ==
    /\ run
    /\ UNCHANGED <<ringBuffer, ringHead, ringCount, collected, batch, db, faults, shown>>

(* A request for the current numbers.                                       *)
Current == IF GetLatestPoint # 0 THEN GetLatestPoint ELSE GetLatest

GetCurrentStats ==
    /\ Current # 0
    /\ shown' = IF Current > shown THEN Current ELSE shown
    /\ UNCHANGED <<ringBuffer, ringHead, ringCount, collected, batch, db, ctxDone, flusher, faults>>

(* Points for a chart: every step-th one, and the last.                     *)
(* Bug variant: the last point only when a step falls on it.                *)
GetHistoryStepOnly(points) ==
    LET n == Len(points)
        step == n \div maxHistoryPoints
    IN IF n <= maxHistoryPoints THEN points
       ELSE [i \in 1..(((n - 1) \div step) + 1) |-> points[(i - 1) * step + 1]]

GetHistory(points) ==
    LET n == Len(points)
        step == n \div maxHistoryPoints
        sampled == [i \in 1..(((n - 1) \div step) + 1) |-> points[(i - 1) * step + 1]]
    IN IF n <= maxHistoryPoints THEN points
       ELSE IF Last(sampled) # Last(points) THEN Append(sampled, Last(points)) ELSE sampled

----------------------------------------------------------------------------
Init ==
    /\ ringBuffer = [i \in 0..(ringSize - 1) |-> 0] /\ ringHead = 0 /\ ringCount = 0
    /\ collected = 0 /\ batch = <<>> /\ db = <<>> /\ ctxDone = FALSE /\ flusher = "run"
    /\ faults = 0 /\ shown = 0

Next ==
    \/ \E due \in BOOLEAN : collect(due)
    \/ flushBuffer \/ \E fails \in BOOLEAN : Flushed(fails)
    \/ Stops \/ GetCurrentStats

Spec == Init /\ [][Next]_vars

----------------------------------------------------------------------------
TypeOK ==
    /\ ringHead \in 0..(ringSize - 1) /\ ringCount \in Nat /\ collected \in 0..MaxPoints
    /\ batch \in Seq(1..MaxPoints) /\ db \in Seq(1..MaxPoints)
    /\ ctxDone \in BOOLEAN /\ flusher \in {"run", "done"} /\ shown \in 0..MaxPoints

(* What a flush would take are the newest points, in order, also after the  *)
(* ring went round (addToBuffer, flushBuffer).                              *)
RingIsRecent == \A i \in 1..ringCount : Buffered[i] = collected - ringCount + i

(* A point is saved once at most, and the table is in order, however        *)
(* collecting falls into a flush and whatever batch is lost (flushBuffer).  *)
SavedOnce == \A i, j \in 1..Len(db) : i < j => db[i] < db[j]

(* A chart begins with the first point and ends with the last (GetHistory,  *)
(* "make sure that the last point is included").                            *)
ChartKeepsEnds ==
    db # <<>> => Head(GetHistory(db)) = Head(db) /\ Last(GetHistory(db)) = Last(db)

(* A chart has at most maxHistoryPoints points (GetHistory).                *)
ChartIsBounded == Len(GetHistory(db)) <= maxHistoryPoints

(* When the flusher has ended and no database error occurred, the newest    *)
(* point is in the table (run, "Final flush before stop").                  *)
FinalFlushSaves == flusher = "done" /\ faults = 0 /\ collected > 0 => GetLatest = collected

(* The current numbers never go back to an older point (GetCurrentStats).   *)
StatsNeverGoBack == shown # 0 => Current >= shown
=============================================================================
